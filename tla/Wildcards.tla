------------------------------ MODULE Wildcards ------------------------------
(***************************************************************************)
(* match() and matchwildcards() of 3.wildcards/matchwildcards.cpp: does a  *)
(* text match a mask in which * stands for any text and ? for any one      *)
(* character.                                                              *)
(*                                                                         *)
(* The C strings are sequences of symbols; a pointer is an index, and the  *)
(* symbol behind the last one is the terminator.  What lies behind the     *)
(* terminator may be anything: a call that would read it has the outcome   *)
(* PastEnd, which stands for every outcome.                                *)
(***************************************************************************)
EXTENDS Naturals, Sequences

CONSTANTS Symbols,   \* what the strings are made of
          Arguments, \* the pairs <<text, mask>> the function is called with
          PastEnd,   \* the outcome of a call that reads behind a terminator
          Pending    \* no call made yet

VARIABLES text, mask, result

matchVars == <<text, mask, result>>

Star == "*"
Question == "?"
NUL == "NUL"

ASSUME WildcardsAssumption ==
    /\ NUL \notin Symbols
    /\ Arguments \subseteq Seq(Symbols) \X Seq(Symbols)
    /\ PastEnd \notin BOOLEAN /\ Pending \notin BOOLEAN \cup {PastEnd}

-----------------------------------------------------------------------------
\* *(s + i)
At(s, i) == IF i < Len(s) THEN s[i + 1] ELSE NUL

\* MUTANT: a mask that is used up ends the search.
EndOfMask(f, i, s, j) == At(f, i) = NUL

EndOfBoth(f, i, s, j) == At(f, i) = NUL /\ At(s, j) = NUL

\* MUTANT: the star stands for one character at least.
OrRight(left, right) == right

\* left || right, where an undefined left operand leaves everything undefined.
Or(left, right) == IF left = FALSE THEN right ELSE left

\* One call match(f + i, s + j), with the outcomes m of the calls it makes.
Call(m, f, i, s, j) ==
    IF j > Len(s) THEN PastEnd
    ELSE IF EndOfBoth(f, i, s, j) THEN TRUE
    ELSE IF At(f, i) = Star /\ At(f, i + 1) # NUL /\ At(s, j) = NUL THEN FALSE
    ELSE IF At(f, i) = Question \/ At(f, i) = At(s, j) THEN m[<<i + 1, j + 1>>]
    ELSE IF At(f, i) = Star THEN Or(m[<<i + 1, j>>], m[<<i, j + 1>>])
    ELSE FALSE

\* match(f, s), from the outcomes for all i and j at once.
match(f, s) ==
    LET m[p \in (0 .. Len(f)) \X (0 .. Len(s) + 1)] == Call(m, f, p[1], s, p[2])
    IN  m[<<0, 0>>]

MatchInit ==
    /\ \E a \in Arguments : text = a[1] /\ mask = a[2]
    /\ result = Pending

matchwildcards ==
    /\ result = Pending
    /\ result' = match(mask, text)
    /\ UNCHANGED <<text, mask>>

MatchSpec == MatchInit /\ [][matchwildcards]_matchVars
-----------------------------------------------------------------------------
\* What a mask means: its symbols cut the text into consecutive pieces, the
\* i-th piece from cut[i - 1] to cut[i].
Piece(symbol, s, from, to) ==
    CASE symbol = Star     -> from <= to
      [] symbol = Question -> to = from + 1
      [] OTHER             -> to = from + 1 /\ s[to] = symbol

Matches(f, s) ==
    \E cut \in [0 .. Len(f) -> 0 .. Len(s)] :
        /\ cut[0] = 0 /\ cut[Len(f)] = Len(s)
        /\ \A i \in 1 .. Len(f) : Piece(f[i], s, cut[i - 1], cut[i])

\* What match() says it assumes of its mask, and a text that is none itself.
NoTwoStars(f) == \A i \in 1 .. Len(f) - 1 : ~(f[i] = Star /\ f[i + 1] = Star)
NoStar(s) == \A i \in 1 .. Len(s) : s[i] # Star

\* A call reports no match for a text that does not match, or is undefined:
\* neither the order of its tests nor the early return for a star at the end
\* of the text accepts anything else, whatever the two strings contain.
NoFalseMatch == result = TRUE => Matches(mask, text)

\* A text that matches is found, without any undefined step on the way, when
\* the mask is as match() assumes and the text contains no star.
MatchingTextIsFound ==
    result # Pending /\ NoStar(text) /\ NoTwoStars(mask) /\ Matches(mask, text)
        => result = TRUE
=============================================================================
