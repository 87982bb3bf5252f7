---------------------------- MODULE MCExternalSort ----------------------------
\* ExternalSort for TLC: all input files up to MaxLines lines.
EXTENDS ExternalSort, SequencesExt

CONSTANTS MaxLines, MaxNumber

MCNumbers == 0 .. MaxNumber

MCInputs == BoundedSeq(MCNumbers \cup {Blank, Garbage}, MaxLines)

\* A print-out that makes some numbers equal: the odd ones lose their last bit.
MCPrinted(x) == 2 * (x \div 2)
=============================================================================
