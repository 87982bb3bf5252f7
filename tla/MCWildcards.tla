----------------------------- MODULE MCWildcards -----------------------------
\* Wildcards for TLC: all masks and texts up to a length.
EXTENDS Wildcards, SequencesExt

CONSTANTS MaxMask, MaxText  \* bounds: their lengths

MCArguments == BoundedSeq(Symbols, MaxText) \X BoundedSeq(Symbols, MaxMask)
=============================================================================
