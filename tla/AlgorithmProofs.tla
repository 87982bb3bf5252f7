--------------------------- MODULE AlgorithmProofs ---------------------------
(***************************************************************************)
(* Proofs about the two programs of the repository that compute a result   *)
(* alone, without other threads: wildcard matching and the external sort.  *)
(*                                                                         *)
(* Wildcards.  match() accepts only texts that match, and finds every text *)
(* that does, for strings of any length.  The outcomes of its calls are a  *)
(* recursive function of two indices.  That it exists, and what it         *)
(* returns, is shown by induction over the number of symbols left in both  *)
(* strings, as the absence of a least counterexample.                      *)
(*                                                                         *)
(* External sort.  The sort is a sort: for any input, any size of the      *)
(* chunks, any order-keeping way of printing numbers, and any files that   *)
(* killed runs have left behind.                                           *)
(*                                                                         *)
(* The invariant says where each line of the input is.  A store is a       *)
(* family of sequences: the temporary files of this run and the chunk in   *)
(* memory (Chunks), later the output and what is left of the files         *)
(* (Streams).  Filled(store, lines): the places of the store and these     *)
(* lines of the input correspond one to one, and each place holds its      *)
(* line's number.  Every step of the program moves numbers from place to   *)
(* place, so each comes down to a bijection between the places before and  *)
(* after it.                                                               *)
(***************************************************************************)
EXTENDS ExternalSort, Wildcards,
        SequenceTheorems, FunctionTheorems, FiniteSetTheorems, WellFoundedInduction, TLAPS

-----------------------------------------------------------------------------
(* WILDCARDS                                                               *)

USE WildcardsAssumption

(* A set of naturals has a least member.                                   *)
LEMMA Least ==
  ASSUME NEW T, T \subseteq Nat, T # {}
  PROVE  \E i \in T : \A j \in T : i <= j
  <1>1. PICK i \in T : \A j \in T : <<j, i>> \notin OpToRel(<, Nat)
    BY NatLessThanWellFounded, WFMin, Zenon
  <1>2. ASSUME NEW j \in T PROVE i <= j
    <2>1. ~(j < i)
      BY <1>1 DEF OpToRel
    <2> QED BY <2>1
  <1> QED BY <1>2

-----------------------------------------------------------------------------
(* The recursion                                                           *)

Positions(f, s) == (0 .. Len(f)) \X (0 .. Len(s) + 1)

(* The number of symbols, and the terminator, that are left at p.          *)
Left(f, s, p) == (Len(f) - p[1]) + (Len(s) + 1 - p[2])

(* The outcomes g are those of the calls with fewer than n symbols left.   *)
Right(f, s, g, n) ==
  /\ g = [p \in Positions(f, s) |-> g[p]]
  /\ \A p \in Positions(f, s) : Left(f, s, p) < n => g[p] = Call(g, f, p[1], s, p[2])

Outcomes(f, s) ==
  CHOOSE m : m = [p \in Positions(f, s) |-> Call(m, f, p[1], s, p[2])]

(* The length of a string is a number.                                     *)
LEMMA Lengths ==
  ASSUME NEW s \in Seq(Symbols)
  PROVE  Len(s) \in Nat
  OBVIOUS

(* A string is a sequence of symbols, none of which is the terminator.     *)
LEMMA Strings ==
  ASSUME NEW s \in Seq(Symbols)
  PROVE  /\ Len(s) \in Nat
         /\ \A i \in 0 .. Len(s) - 1 : At(s, i) = s[i + 1] /\ At(s, i) # NUL
         /\ \A i \in Nat : At(s, i) = NUL <=> i >= Len(s)
  <1>1. Len(s) \in Nat /\ \A i \in 1 .. Len(s) : s[i] \in Symbols
    OBVIOUS
  <1> QED BY <1>1 DEF At

LEMMA LeftBounded ==
  ASSUME NEW f \in Seq(Symbols), NEW s \in Seq(Symbols), NEW p \in Positions(f, s)
  PROVE  /\ Len(f) \in Nat /\ Len(s) \in Nat
         /\ Left(f, s, p) \in Nat /\ Left(f, s, p) < Len(f) + Len(s) + 2
  <1>1. PICK i \in 0 .. Len(f), j \in 0 .. Len(s) + 1 : i = p[1] /\ j = p[2]
    BY DEF Positions
  <1>2. Len(f) \in Nat /\ Len(s) \in Nat /\ Left(f, s, p) = (Len(f) - i) + (Len(s) + 1 - j)
    BY <1>1, Lengths DEF Left
  <1> QED BY <1>2

(* A call depends on calls with fewer symbols left.                        *)
LEMMA CallsAreShorter ==
  ASSUME NEW f \in Seq(Symbols), NEW s \in Seq(Symbols), NEW g, NEW h,
         NEW p \in Positions(f, s),
         \A q \in Positions(f, s) : Left(f, s, q) < Left(f, s, p) => g[q] = h[q]
  PROVE  Call(g, f, p[1], s, p[2]) = Call(h, f, p[1], s, p[2])
  <1>0. PICK i, j : i = p[1] /\ j = p[2]
    OBVIOUS
  <1>1. i \in 0 .. Len(f) /\ j \in 0 .. Len(s) + 1 /\ Len(f) \in Nat /\ Len(s) \in Nat
    BY <1>0, Lengths DEF Positions
  <1>2. ASSUME NEW k \in 0 .. Len(f), NEW l \in 0 .. Len(s) + 1, k + l > i + j
        PROVE  g[<<k, l>>] = h[<<k, l>>]
    <2>1. <<k, l>> \in Positions(f, s)
      BY DEF Positions
    <2>2. /\ Left(f, s, <<k, l>>) = (Len(f) - k) + (Len(s) + 1 - l)
          /\ Left(f, s, p) = (Len(f) - i) + (Len(s) + 1 - j)
      BY <1>0 DEF Left
    <2>3. Left(f, s, <<k, l>>) < Left(f, s, p)
      BY <1>1, <1>2, <2>2
    <2> QED BY <2>1, <2>3
  <1>3. CASE j > Len(s)
    BY <1>0, <1>3 DEF Call
  <1>4. CASE i = Len(f) /\ j <= Len(s)
    <2>0. i \in Nat /\ i >= Len(f)
      BY <1>1, <1>4
    <2>1. At(f, i) = NUL /\ (At(s, j) = NUL => EndOfBoth(f, i, s, j))
      BY <2>0, Strings DEF EndOfBoth
    <2>2. NUL # Star /\ NUL # Question
      BY DEF NUL, Star, Question
    <2> QED BY <1>0, <1>4, <2>1, <2>2 DEF Call
  <1>5. CASE i < Len(f) /\ j <= Len(s)
    <2>1. /\ i + 1 \in 0 .. Len(f) /\ j + 1 \in 0 .. Len(s) + 1
          /\ (i + 1) + (j + 1) > i + j /\ (i + 1) + j > i + j /\ i + (j + 1) > i + j
      BY <1>1, <1>5
    <2>2. /\ g[<<i + 1, j + 1>>] = h[<<i + 1, j + 1>>]
          /\ g[<<i + 1, j>>] = h[<<i + 1, j>>]
          /\ g[<<i, j + 1>>] = h[<<i, j + 1>>]
      BY <1>1, <1>2, <2>1
    <2> QED BY <1>0, <2>2 DEF Call
  <1> QED BY <1>1, <1>3, <1>4, <1>5

(* The outcomes exist.                                                     *)
LEMMA OutcomesExist ==
  ASSUME NEW f \in Seq(Symbols), NEW s \in Seq(Symbols)
  PROVE  \A n \in Nat : \E g : Right(f, s, g, n)
  <1> DEFINE bad == {n \in Nat : ~ \E g : Right(f, s, g, n)}
  <1> SUFFICES ASSUME bad # {}
               PROVE  FALSE
    OBVIOUS
  <1>0. \A p \in Positions(f, s) : Left(f, s, p) \in Nat
    BY LeftBounded
  <1>1. PICK n \in bad : \A k \in bad : n <= k
    <2> HIDE DEF bad
    <2>1. bad \subseteq Nat
      BY DEF bad
    <2> QED BY <2>1, Least
  <1>2. n # 0
    <2>1. PICK g : g = [p \in Positions(f, s) |-> TRUE]
      OBVIOUS
    <2>2. g = [p \in Positions(f, s) |-> g[p]]
      BY <2>1
    <2>3. \A p \in Positions(f, s) : ~(Left(f, s, p) < 0)
      BY <1>0
    <2>4. Right(f, s, g, 0)
      BY <2>2, <2>3 DEF Right
    <2> QED BY <1>1, <2>4
  <1>3. n - 1 \in Nat /\ n - 1 \notin bad
    BY <1>1, <1>2
  <1>4. PICK g : Right(f, s, g, n - 1)
    BY <1>3
  <1> DEFINE h == [p \in Positions(f, s) |->
                     IF Left(f, s, p) = n - 1 THEN Call(g, f, p[1], s, p[2]) ELSE g[p]]
  <1>5. h = [p \in Positions(f, s) |-> h[p]]
    OBVIOUS
  <1>6. ASSUME NEW p \in Positions(f, s), Left(f, s, p) < n
        PROVE  h[p] = Call(h, f, p[1], s, p[2])
    <2>1. \A q \in Positions(f, s) : Left(f, s, q) < Left(f, s, p) => g[q] = h[q]
      BY <1>0, <1>1, <1>6
    <2>2. Call(g, f, p[1], s, p[2]) = Call(h, f, p[1], s, p[2])
      <3> HIDE DEF h
      <3> QED BY <2>1, CallsAreShorter
    <2>3. h[p] = Call(g, f, p[1], s, p[2])
      <3>1. CASE Left(f, s, p) = n - 1
        BY <3>1
      <3>2. CASE Left(f, s, p) # n - 1
        BY <1>0, <1>1, <1>4, <1>6, <3>2 DEF Right
      <3> QED BY <3>1, <3>2
    <2> QED BY <2>2, <2>3
  <1>7. Right(f, s, h, n)
    <2> HIDE DEF h
    <2> QED BY <1>5, <1>6 DEF Right
  <1> QED BY <1>1, <1>7

(* So a call returns what its code says, from what its own calls return.   *)
LEMMA Recursion ==
  ASSUME NEW f \in Seq(Symbols), NEW s \in Seq(Symbols)
  PROVE  /\ match(f, s) = Outcomes(f, s)[<<0, 0>>]
         /\ \A i \in 0 .. Len(f), j \in 0 .. Len(s) + 1 :
               Outcomes(f, s)[<<i, j>>] = Call(Outcomes(f, s), f, i, s, j)
  <1>1. match(f, s) = Outcomes(f, s)[<<0, 0>>]
    BY DEF match, Outcomes, Positions
  <1>2. PICK g : Right(f, s, g, Len(f) + Len(s) + 2)
    <2>1. Len(f) + Len(s) + 2 \in Nat
      BY Lengths
    <2> QED BY <2>1, OutcomesExist
  <1>3. \A p \in Positions(f, s) : Left(f, s, p) < Len(f) + Len(s) + 2
    BY LeftBounded
  <1>4. g = [p \in Positions(f, s) |-> Call(g, f, p[1], s, p[2])]
    BY <1>2, <1>3 DEF Right
  <1>5. Outcomes(f, s) = [p \in Positions(f, s) |-> Call(Outcomes(f, s), f, p[1], s, p[2])]
    BY <1>4 DEF Outcomes
  <1>6. ASSUME NEW i \in 0 .. Len(f), NEW j \in 0 .. Len(s) + 1
        PROVE  Outcomes(f, s)[<<i, j>>] = Call(Outcomes(f, s), f, i, s, j)
    <2>1. <<i, j>> \in Positions(f, s)
      BY DEF Positions
    <2> HIDE DEF Outcomes
    <2> QED BY <1>5, <2>1
  <1> QED BY <1>1, <1>6

-----------------------------------------------------------------------------
(* What a mask means                                                       *)

(* f from its symbol i on matches s from j on.                             *)
Fits(f, s, i, j) ==
  \E cut \in [0 .. Len(f) -> 0 .. Len(s)] :
     /\ cut[i] = j /\ cut[Len(f)] = Len(s)
     /\ \A k \in i + 1 .. Len(f) : Piece(f[k], s, cut[k - 1], cut[k])

LEMMA FitsWhole ==
  ASSUME NEW f, NEW s
  PROVE  Matches(f, s) <=> Fits(f, s, 0, 0)
  BY DEF Matches, Fits

(* A mask that is used up matches the end of the text only.                *)
LEMMA FitsEnd ==
  ASSUME NEW f \in Seq(Symbols), NEW s \in Seq(Symbols), NEW j \in 0 .. Len(s)
  PROVE  Fits(f, s, Len(f), j) <=> j = Len(s)
  <1>1. Len(f) \in Nat /\ Len(s) \in Nat
    BY Lengths
  <1>2. ASSUME j = Len(s)
        PROVE  Fits(f, s, Len(f), j)
    <2>1. PICK cut : cut = [k \in 0 .. Len(f) |-> Len(s)]
      OBVIOUS
    <2>2. cut \in [0 .. Len(f) -> 0 .. Len(s)] /\ cut[Len(f)] = Len(s)
      BY <1>1, <2>1
    <2> QED BY <1>1, <1>2, <2>2 DEF Fits
  <1> QED BY <1>2 DEF Fits

(* Otherwise its first symbol takes a piece, and the rest what follows.    *)
LEMMA FitsStep ==
  ASSUME NEW f \in Seq(Symbols), NEW s \in Seq(Symbols),
         NEW i \in 0 .. Len(f) - 1, NEW j \in 0 .. Len(s)
  PROVE  Fits(f, s, i, j) <=>
           \E k \in 0 .. Len(s) : Piece(f[i + 1], s, j, k) /\ Fits(f, s, i + 1, k)
  <1>0. Len(f) \in Nat /\ Len(s) \in Nat
    BY Lengths
  <1>1. /\ Len(f) \in Nat /\ Len(s) \in Nat
        /\ i \in 0 .. Len(f) /\ i + 1 \in 0 .. Len(f) /\ i + 1 # i /\ Len(f) # i
        /\ i + 1 \in i + 1 .. Len(f) /\ (i + 1) - 1 = i
    BY <1>0
  <1>2. ASSUME Fits(f, s, i, j)
        PROVE  \E k \in 0 .. Len(s) : Piece(f[i + 1], s, j, k) /\ Fits(f, s, i + 1, k)
    <2>1. PICK cut \in [0 .. Len(f) -> 0 .. Len(s)] :
            /\ cut[i] = j /\ cut[Len(f)] = Len(s)
            /\ \A k \in i + 1 .. Len(f) : Piece(f[k], s, cut[k - 1], cut[k])
      BY <1>2 DEF Fits
    <2>2. cut[i + 1] \in 0 .. Len(s) /\ Piece(f[i + 1], s, j, cut[i + 1])
      BY <1>1, <2>1
    <2>3. \A k \in (i + 1) + 1 .. Len(f) : k \in i + 1 .. Len(f)
      BY <1>1
    <2>4. Fits(f, s, i + 1, cut[i + 1])
      BY <2>1, <2>3 DEF Fits
    <2> QED BY <2>2, <2>4
  <1>3. ASSUME NEW k \in 0 .. Len(s), Piece(f[i + 1], s, j, k), Fits(f, s, i + 1, k)
        PROVE  Fits(f, s, i, j)
    <2>1. PICK cut \in [0 .. Len(f) -> 0 .. Len(s)] :
            /\ cut[i + 1] = k /\ cut[Len(f)] = Len(s)
            /\ \A l \in (i + 1) + 1 .. Len(f) : Piece(f[l], s, cut[l - 1], cut[l])
      BY <1>3 DEF Fits
    <2>2. PICK new : new = [cut EXCEPT ![i] = j]
      OBVIOUS
    <2>3. /\ new \in [0 .. Len(f) -> 0 .. Len(s)] /\ new[i] = j
          /\ \A l \in 0 .. Len(f) : l # i => new[l] = cut[l]
      BY <1>1, <2>1, <2>2
    <2>4. ASSUME NEW l \in i + 1 .. Len(f)
          PROVE  Piece(f[l], s, new[l - 1], new[l])
      <3>1. l \in 0 .. Len(f) /\ l # i /\ new[l] = cut[l]
        BY <1>1, <2>3
      <3>2. CASE l = i + 1
        BY <1>1, <1>3, <2>1, <2>3, <3>1, <3>2
      <3>3. CASE l # i + 1
        <4>1. l \in (i + 1) + 1 .. Len(f) /\ l - 1 \in 0 .. Len(f) /\ l - 1 # i
          BY <1>1, <3>3
        <4>2. new[l - 1] = cut[l - 1]
          BY <2>3, <4>1
        <4> QED BY <2>1, <3>1, <4>1, <4>2
      <3> QED BY <3>2, <3>3
    <2>5. new[Len(f)] = Len(s)
      BY <1>1, <2>1, <2>3
    <2> QED BY <2>3, <2>4, <2>5 DEF Fits
  <1> QED BY <1>2, <1>3

(* A star takes any piece.                                                 *)
LEMMA StarFits ==
  ASSUME NEW f \in Seq(Symbols), NEW s \in Seq(Symbols),
         NEW i \in 0 .. Len(f) - 1, NEW j \in 0 .. Len(s), f[i + 1] = Star
  PROVE  Fits(f, s, i, j) <=> \E k \in 0 .. Len(s) : j <= k /\ Fits(f, s, i + 1, k)
  <1>1. \A k \in 0 .. Len(s) : Piece(f[i + 1], s, j, k) <=> j <= k
    BY DEF Piece, Star, Question
  <1> QED BY <1>1, FitsStep

(* Any other symbol takes one character.                                   *)
LEMMA OneFits ==
  ASSUME NEW f \in Seq(Symbols), NEW s \in Seq(Symbols),
         NEW i \in 0 .. Len(f) - 1, NEW j \in 0 .. Len(s), f[i + 1] # Star
  PROVE  Fits(f, s, i, j) <=>
           /\ j < Len(s) /\ (f[i + 1] = Question \/ f[i + 1] = s[j + 1])
           /\ Fits(f, s, i + 1, j + 1)
  <1>1. Len(s) \in Nat
    BY Lengths
  <1>2. \A k \in 0 .. Len(s) : Piece(f[i + 1], s, j, k) <=>
          k = j + 1 /\ (f[i + 1] = Question \/ f[i + 1] = s[j + 1])
    BY <1>1 DEF Piece
  <1>3. j + 1 \in 0 .. Len(s) <=> j < Len(s)
    BY <1>1
  <1> QED BY <1>2, <1>3, FitsStep

-----------------------------------------------------------------------------
(* What the calls return                                                   *)

(* The outcome of match(f + i, s + j).                                     *)
Outcome(f, s, i, j) == Outcomes(f, s)[<<i, j>>]

(* It follows from the outcomes of the calls it makes: when the mask goes  *)
(* on with a symbol that takes one character, and when with a star.        *)
OneOutcome(f, s, i, j) ==
  IF f[i + 1] = Question \/ (j < Len(s) /\ f[i + 1] = s[j + 1])
  THEN Outcome(f, s, i + 1, j + 1) ELSE FALSE

StarOutcome(f, s, i, j) ==
  IF i + 1 < Len(f) /\ j = Len(s) THEN FALSE
  ELSE IF j < Len(s) /\ s[j + 1] = Star THEN Outcome(f, s, i + 1, j + 1)
  ELSE Or(Outcome(f, s, i + 1, j), Outcome(f, s, i, j + 1))

LEMMA Unfold ==
  ASSUME NEW f \in Seq(Symbols), NEW s \in Seq(Symbols),
         NEW i \in 0 .. Len(f), NEW j \in 0 .. Len(s)
  PROVE  /\ i = Len(f) => Outcome(f, s, i, j) = (j = Len(s))
         /\ i < Len(f) /\ f[i + 1] # Star =>
              Outcome(f, s, i, j) = OneOutcome(f, s, i, j)
         /\ i < Len(f) /\ f[i + 1] = Star =>
              Outcome(f, s, i, j) = StarOutcome(f, s, i, j)
  <1>1. /\ Len(f) \in Nat /\ Len(s) \in Nat
        /\ NUL # Star /\ NUL # Question /\ Star # Question
    BY Lengths DEF NUL, Star, Question
  <1>2. /\ i = Len(f) => At(f, i) = NUL
        /\ i < Len(f) => At(f, i) = f[i + 1] /\ At(f, i) # NUL
        /\ i < Len(f) => (At(f, i + 1) # NUL <=> i + 1 < Len(f))
    <2>1. i \in Nat /\ i + 1 \in Nat /\ (i < Len(f) => i \in 0 .. Len(f) - 1)
      BY <1>1
    <2>2. At(f, i + 1) = NUL <=> i + 1 >= Len(f)
      BY <2>1, Strings
    <2>3. At(f, i) = NUL <=> i >= Len(f)
      BY <2>1, Strings
    <2>4. i < Len(f) => At(f, i) = f[i + 1]
      BY <2>1, Strings
    <2>5. /\ i = Len(f) => i >= Len(f)
          /\ i < Len(f) => ~(i >= Len(f))
          /\ i + 1 < Len(f) <=> ~(i + 1 >= Len(f))
      BY <1>1, <2>1
    <2> QED BY <2>2, <2>3, <2>4, <2>5
  <1>3. /\ j = Len(s) => At(s, j) = NUL
        /\ j < Len(s) => At(s, j) = s[j + 1] /\ At(s, j) # NUL
    <2>1. j \in Nat /\ (j < Len(s) => j \in 0 .. Len(s) - 1) /\ (j = Len(s) => j >= Len(s))
      BY <1>1
    <2>2. At(s, j) = NUL <=> j >= Len(s)
      BY <2>1, Strings
    <2>3. j < Len(s) => At(s, j) = s[j + 1] /\ At(s, j) # NUL
      BY <2>1, Strings
    <2> QED BY <2>1, <2>2, <2>3
  <1>4. ~(j > Len(s)) /\ (j < Len(s) \/ j = Len(s)) /\ (i < Len(f) \/ i = Len(f))
    BY <1>1
  <1>5. Outcome(f, s, i, j) = Call(Outcomes(f, s), f, i, s, j)
    <2>1. j \in 0 .. Len(s) + 1
      BY <1>1
    <2> QED BY <2>1, Recursion DEF Outcome
  <1>6. CASE i = Len(f)
    BY <1>1, <1>2, <1>3, <1>4, <1>5, <1>6 DEF Call, EndOfBoth, Outcome
  <1>7. CASE i < Len(f) /\ j < Len(s)
    <2>1. CASE f[i + 1] # Star
      BY <1>1, <1>2, <1>3, <1>4, <1>5, <1>7, <2>1 DEF Call, EndOfBoth, Outcome, OneOutcome
    <2>2. CASE f[i + 1] = Star
      BY <1>1, <1>2, <1>3, <1>4, <1>5, <1>7, <2>2 DEF Call, EndOfBoth, Outcome, StarOutcome
    <2> QED BY <1>7, <2>1, <2>2
  <1>8. CASE i < Len(f) /\ j = Len(s)
    <2>1. CASE f[i + 1] # Star
      BY <1>1, <1>2, <1>3, <1>4, <1>5, <1>8, <2>1 DEF Call, EndOfBoth, Outcome, OneOutcome
    <2>2. CASE f[i + 1] = Star
      BY <1>1, <1>2, <1>3, <1>4, <1>5, <1>8, <2>2 DEF Call, EndOfBoth, Outcome, StarOutcome
    <2> QED BY <1>8, <2>1, <2>2
  <1> QED BY <1>4, <1>6, <1>7, <1>8

(* Behind the terminator it is undefined.                                  *)
LEMMA BehindTerminator ==
  ASSUME NEW f \in Seq(Symbols), NEW s \in Seq(Symbols), NEW i \in 0 .. Len(f)
  PROVE  Outcome(f, s, i, Len(s) + 1) = PastEnd
  <1>1. Len(s) + 1 \in 0 .. Len(s) + 1 /\ Len(s) + 1 > Len(s)
    BY Lengths
  <1>2. Outcome(f, s, i, Len(s) + 1) = Call(Outcomes(f, s), f, i, s, Len(s) + 1)
    BY <1>1, Recursion DEF Outcome
  <1> QED BY <1>1, <1>2 DEF Call

-----------------------------------------------------------------------------
(* Correctness                                                             *)

(* A call that accepts has been given a text that matches.                 *)
Sound(f, s, i, j) ==
  j <= Len(s) /\ Outcome(f, s, i, j) = TRUE => Fits(f, s, i, j)

(* A call that refuses has not, and one that reads behind the terminator   *)
(* would have been given none further on in the text either.               *)
Complete(f, s, i, j) ==
  /\ Outcome(f, s, i, j) \in BOOLEAN \cup {PastEnd}
  /\ j <= Len(s) /\ Outcome(f, s, i, j) = FALSE => ~Fits(f, s, i, j)
  /\ Outcome(f, s, i, j) = PastEnd => \A k \in j .. Len(s) : ~Fits(f, s, i, k)

(* A call is sound when the calls it makes are.                            *)
LEMMA SoundStep ==
  ASSUME NEW f \in Seq(Symbols), NEW s \in Seq(Symbols),
         NEW i \in 0 .. Len(f), NEW j \in 0 .. Len(s) + 1,
         \A k \in 0 .. Len(f), l \in 0 .. Len(s) + 1 : k + l > i + j => Sound(f, s, k, l)
  PROVE  Sound(f, s, i, j)
  <1> SUFFICES ASSUME j <= Len(s), Outcome(f, s, i, j) = TRUE
               PROVE  Fits(f, s, i, j)
    BY DEF Sound
  <1>1. /\ Len(f) \in Nat /\ Len(s) \in Nat /\ j \in 0 .. Len(s)
        /\ i < Len(f) \/ i = Len(f)
    BY Lengths
  <1>2. ASSUME NEW k \in 0 .. Len(f), NEW l \in 0 .. Len(s) + 1, k + l > i + j,
               Outcome(f, s, k, l) = TRUE
        PROVE  l \in 0 .. Len(s) /\ Fits(f, s, k, l)
    <2>1. l # Len(s) + 1
      BY <1>2, BehindTerminator
    <2>2. l \in 0 .. Len(s) /\ l <= Len(s)
      BY <1>1, <2>1
    <2> QED BY <1>2, <2>2 DEF Sound
  <1>3. CASE i = Len(f)
    BY <1>1, <1>3, Unfold, FitsEnd
  <1>4. ASSUME i < Len(f), Outcome(f, s, i + 1, j + 1) = TRUE
        PROVE  j < Len(s) /\ Fits(f, s, i + 1, j + 1) /\ j + 1 \in 0 .. Len(s) /\ j <= j + 1
    <2>1. i + 1 \in 0 .. Len(f) /\ j + 1 \in 0 .. Len(s) + 1 /\ (i + 1) + (j + 1) > i + j
      BY <1>1, <1>4
    <2>2. j + 1 \in 0 .. Len(s) /\ Fits(f, s, i + 1, j + 1)
      BY <1>2, <1>4, <2>1
    <2> QED BY <1>1, <2>2
  <1>5. CASE i < Len(f) /\ f[i + 1] # Star
    <2>0. Outcome(f, s, i, j) = OneOutcome(f, s, i, j)
      BY <1>1, <1>5, Unfold
    <2>1. /\ Outcome(f, s, i + 1, j + 1) = TRUE /\ i \in 0 .. Len(f) - 1
          /\ f[i + 1] = Question \/ (j < Len(s) /\ f[i + 1] = s[j + 1])
      BY <1>1, <1>5, <2>0 DEF OneOutcome
    <2> QED BY <1>1, <1>4, <1>5, <2>1, OneFits
  <1>6. CASE i < Len(f) /\ f[i + 1] = Star
    <2>0. /\ i \in 0 .. Len(f) - 1 /\ i + 1 \in 0 .. Len(f)
          /\ (i + 1) + j > i + j /\ i + (j + 1) > i + j
          /\ j \in 0 .. Len(s) + 1 /\ j + 1 \in 0 .. Len(s) + 1 /\ j <= j
      BY <1>1, <1>6
    <2>5. Outcome(f, s, i, j) = StarOutcome(f, s, i, j)
      BY <1>1, <1>6, Unfold
    <2>1. \/ Outcome(f, s, i + 1, j + 1) = TRUE
          \/ Outcome(f, s, i + 1, j) = TRUE
          \/ Outcome(f, s, i, j + 1) = TRUE
      BY <2>5 DEF StarOutcome, Or
    <2>2. CASE Outcome(f, s, i + 1, j + 1) = TRUE
      BY <1>1, <1>4, <1>6, <2>0, <2>2, StarFits
    <2>3. CASE Outcome(f, s, i + 1, j) = TRUE
      <3>1. Fits(f, s, i + 1, j)
        BY <1>2, <2>0, <2>3
      <3> QED BY <1>1, <1>6, <2>0, <3>1, StarFits
    <2>4. CASE Outcome(f, s, i, j + 1) = TRUE
      <3>1. j + 1 \in 0 .. Len(s) /\ Fits(f, s, i, j + 1)
        BY <1>2, <2>0, <2>4
      <3>2. PICK k \in 0 .. Len(s) : j + 1 <= k /\ Fits(f, s, i + 1, k)
        BY <1>6, <2>0, <3>1, StarFits
      <3>3. j <= k
        BY <1>1, <3>2
      <3> QED BY <1>1, <1>6, <2>0, <3>2, <3>3, StarFits
    <2> QED BY <2>1, <2>2, <2>3, <2>4
  <1> QED BY <1>1, <1>3, <1>5, <1>6

(* A call is complete when the calls it makes are, if neither the text nor *)
(* two neighbours in the mask bring stars into the wrong places.           *)
LEMMA CompleteStep ==
  ASSUME NEW f \in Seq(Symbols), NEW s \in Seq(Symbols), NoTwoStars(f), NoStar(s),
         NEW i \in 0 .. Len(f), NEW j \in 0 .. Len(s) + 1,
         \A k \in 0 .. Len(f), l \in 0 .. Len(s) + 1 : k + l > i + j => Complete(f, s, k, l)
  PROVE  Complete(f, s, i, j)
  <1>1. /\ Len(f) \in Nat /\ Len(s) \in Nat /\ PastEnd \notin BOOLEAN
        /\ i < Len(f) \/ i = Len(f)
    BY Lengths
  <1>2. CASE j = Len(s) + 1
    <2>1. Outcome(f, s, i, j) = PastEnd
      BY <1>2, BehindTerminator
    <2>2. \A k \in j .. Len(s) : FALSE
      BY <1>1, <1>2
    <2> QED BY <1>1, <2>1, <2>2 DEF Complete
  <1>3. CASE j \in 0 .. Len(s) /\ i = Len(f)
    <2>1. Outcome(f, s, i, j) = (j = Len(s))
      BY <1>3, Unfold
    <2>2. Fits(f, s, i, j) <=> j = Len(s)
      BY <1>3, FitsEnd
    <2>3. Outcome(f, s, i, j) \in BOOLEAN
      BY <2>1
    <2> QED BY <1>1, <2>1, <2>2, <2>3 DEF Complete
  <1>4. CASE j \in 0 .. Len(s) /\ i < Len(f) /\ f[i + 1] # Star
    <2>1. /\ i \in 0 .. Len(f) - 1 /\ i + 1 \in 0 .. Len(f) /\ j + 1 \in 0 .. Len(s) + 1
          /\ (i + 1) + (j + 1) > i + j
      BY <1>1, <1>4
    <2>2. \A k \in 0 .. Len(s) : Fits(f, s, i, k) =>
            /\ k < Len(s) /\ (f[i + 1] = Question \/ f[i + 1] = s[k + 1])
            /\ Fits(f, s, i + 1, k + 1)
      BY <1>4, <2>1, OneFits
    <2>3. Outcome(f, s, i, j) = OneOutcome(f, s, i, j)
      BY <1>4, <2>1, Unfold
    <2>4. CASE Outcome(f, s, i, j) = Outcome(f, s, i + 1, j + 1)
      <3>1. Complete(f, s, i + 1, j + 1)
        BY <2>1
      <3>2. ASSUME Outcome(f, s, i, j) = FALSE, Fits(f, s, i, j)
            PROVE  FALSE
        <4>1. j + 1 <= Len(s) /\ Fits(f, s, i + 1, j + 1)
          BY <1>1, <1>4, <2>2, <3>2
        <4> QED BY <2>4, <3>1, <3>2, <4>1 DEF Complete
      <3>3. ASSUME Outcome(f, s, i, j) = PastEnd, NEW k \in j .. Len(s), Fits(f, s, i, k)
            PROVE  FALSE
        <4>1. k \in 0 .. Len(s)
          BY <1>1, <1>4
        <4>2. k + 1 \in j + 1 .. Len(s) /\ Fits(f, s, i + 1, k + 1)
          BY <1>1, <1>4, <2>2, <3>3, <4>1
        <4> QED BY <2>4, <3>1, <3>3, <4>2 DEF Complete
      <3> QED BY <2>4, <3>1, <3>2, <3>3 DEF Complete
    <2>5. CASE Outcome(f, s, i, j) # Outcome(f, s, i + 1, j + 1)
      <3>1. /\ Outcome(f, s, i, j) = FALSE
            /\ ~(f[i + 1] = Question \/ (j < Len(s) /\ f[i + 1] = s[j + 1]))
        BY <2>3, <2>5 DEF OneOutcome
      <3>2. ~Fits(f, s, i, j)
        BY <1>4, <2>2, <3>1
      <3> QED BY <1>1, <3>1, <3>2 DEF Complete
    <2> QED BY <2>4, <2>5
  <1>5. CASE j \in 0 .. Len(s) /\ i < Len(f) /\ f[i + 1] = Star
    <2>1. /\ i \in 0 .. Len(f) - 1 /\ i + 1 \in 0 .. Len(f)
          /\ j \in 0 .. Len(s) + 1 /\ j + 1 \in 0 .. Len(s) + 1
          /\ (i + 1) + j > i + j /\ i + (j + 1) > i + j
      BY <1>1, <1>5
    <2>2. \A k \in 0 .. Len(s) : Fits(f, s, i, k) <=>
            \E l \in 0 .. Len(s) : k <= l /\ Fits(f, s, i + 1, l)
      BY <1>5, <2>1, StarFits
    <2>3. Outcome(f, s, i, j) = StarOutcome(f, s, i, j)
      BY <1>5, <2>1, Unfold
    <2>4. CASE i + 1 < Len(f) /\ j = Len(s)
      <3>1. i + 1 \in 0 .. Len(f) - 1 /\ i + 1 \in 1 .. Len(f) - 1
        BY <1>1, <2>4
      <3>2. f[(i + 1) + 1] # Star
        BY <1>5, <3>1 DEF NoTwoStars
      <3>3. ~Fits(f, s, i + 1, j)
        <4>1. Fits(f, s, i + 1, j) => j < Len(s)
          BY <1>5, <3>1, <3>2, OneFits
        <4> QED BY <1>1, <2>4, <4>1
      <3>4. ~Fits(f, s, i, j)
        <4>1. \A l \in 0 .. Len(s) : j <= l => l = j
          BY <1>1, <2>4
        <4> QED BY <1>5, <2>2, <3>3, <4>1
      <3>5. Outcome(f, s, i, j) = FALSE
        BY <2>3, <2>4 DEF StarOutcome
      <3> QED BY <1>1, <3>4, <3>5 DEF Complete
    <2>5. CASE ~(i + 1 < Len(f) /\ j = Len(s))
      <3>1. Outcome(f, s, i, j) = Or(Outcome(f, s, i + 1, j), Outcome(f, s, i, j + 1))
        <4>1. ~(j < Len(s) /\ s[j + 1] = Star)
          BY <1>1, <1>5 DEF NoStar
        <4> QED BY <2>3, <2>5, <4>1 DEF StarOutcome
      <3>2. Complete(f, s, i + 1, j) /\ Complete(f, s, i, j + 1)
        BY <2>1
      <3>3. ASSUME Outcome(f, s, i + 1, j) # FALSE
            PROVE  Complete(f, s, i, j)
        <4>1. Outcome(f, s, i, j) = Outcome(f, s, i + 1, j)
          BY <3>1, <3>3 DEF Or
        <4>2. ASSUME Outcome(f, s, i, j) = PastEnd, NEW k \in j .. Len(s), Fits(f, s, i, k)
              PROVE  FALSE
          <5>1. k \in 0 .. Len(s)
            BY <1>1, <1>5
          <5>2. PICK l \in 0 .. Len(s) : k <= l /\ Fits(f, s, i + 1, l)
            BY <2>2, <4>2, <5>1
          <5>3. l \in j .. Len(s)
            BY <1>1, <1>5, <5>2
          <5> QED BY <3>2, <4>1, <4>2, <5>2, <5>3 DEF Complete
        <4> QED BY <3>2, <3>3, <4>1, <4>2 DEF Complete
      <3>4. ASSUME Outcome(f, s, i + 1, j) = FALSE
            PROVE  Complete(f, s, i, j)
        <4>1. Outcome(f, s, i, j) = Outcome(f, s, i, j + 1)
          BY <3>1, <3>4 DEF Or
        <4>2. ~Fits(f, s, i + 1, j)
          BY <1>1, <1>5, <3>2, <3>4 DEF Complete
        <4>3. ASSUME Fits(f, s, i, j)
              PROVE  \E l \in j + 1 .. Len(s) : Fits(f, s, i, j + 1) /\ Fits(f, s, i, l)
          <5>1. PICK l \in 0 .. Len(s) : j <= l /\ Fits(f, s, i + 1, l)
            BY <1>5, <2>2, <4>3
          <5>2. l # j
            BY <4>2, <5>1
          <5>3. l \in j + 1 .. Len(s) /\ j + 1 \in 0 .. Len(s) /\ j + 1 <= l /\ l <= l
            BY <1>1, <1>5, <5>1, <5>2
          <5>4. Fits(f, s, i, j + 1) /\ Fits(f, s, i, l)
            BY <2>2, <5>1, <5>3
          <5> QED BY <5>3, <5>4
        <4>4. ASSUME Outcome(f, s, i, j) = FALSE, Fits(f, s, i, j)
              PROVE  FALSE
          <5>1. j + 1 <= Len(s)
            BY <1>1, <1>5, <4>3, <4>4
          <5> QED BY <3>2, <4>1, <4>3, <4>4, <5>1 DEF Complete
        <4>5. ASSUME Outcome(f, s, i, j) = PastEnd, NEW k \in j .. Len(s), Fits(f, s, i, k)
              PROVE  FALSE
          <5>1. \A l \in j + 1 .. Len(s) : ~Fits(f, s, i, l)
            BY <3>2, <4>1, <4>5 DEF Complete
          <5>2. CASE k = j
            BY <4>3, <4>5, <5>1, <5>2
          <5>3. CASE k # j
            <6>1. k \in j + 1 .. Len(s)
              BY <1>1, <1>5, <5>3
            <6> QED BY <4>5, <5>1, <6>1
          <5> QED BY <5>2, <5>3
        <4> QED BY <3>2, <4>1, <4>4, <4>5 DEF Complete
      <3> QED BY <3>3, <3>4
    <2> QED BY <2>4, <2>5
  <1>6. j = Len(s) + 1 \/ j \in 0 .. Len(s)
    BY <1>1
  <1> QED BY <1>1, <1>2, <1>3, <1>4, <1>5, <1>6

(* Only a ? at the end of the text leads behind the terminator.            *)
NoQuestion(f) == \A i \in 1 .. Len(f) : f[i] # Question

Defined(f, s, i, j) == j <= Len(s) => Outcome(f, s, i, j) \in BOOLEAN

LEMMA DefinedStep ==
  ASSUME NEW f \in Seq(Symbols), NEW s \in Seq(Symbols), NoQuestion(f),
         NEW i \in 0 .. Len(f), NEW j \in 0 .. Len(s) + 1,
         \A k \in 0 .. Len(f), l \in 0 .. Len(s) + 1 : k + l > i + j => Defined(f, s, k, l)
  PROVE  Defined(f, s, i, j)
  <1> SUFFICES ASSUME j <= Len(s)
               PROVE  Outcome(f, s, i, j) \in BOOLEAN
    BY DEF Defined
  <1>1. /\ Len(f) \in Nat /\ Len(s) \in Nat /\ j \in 0 .. Len(s)
        /\ i < Len(f) \/ i = Len(f)
    BY Lengths
  <1>2. ASSUME i < Len(f), j < Len(s)
        PROVE  Outcome(f, s, i + 1, j + 1) \in BOOLEAN /\ Outcome(f, s, i, j + 1) \in BOOLEAN
    <2>1. /\ i + 1 \in 0 .. Len(f) /\ j + 1 \in 0 .. Len(s) + 1 /\ j + 1 <= Len(s)
          /\ (i + 1) + (j + 1) > i + j /\ i + (j + 1) > i + j
      BY <1>1, <1>2
    <2> QED BY <2>1 DEF Defined
  <1>3. CASE i = Len(f)
    <2>1. Outcome(f, s, i, j) = (j = Len(s))
      BY <1>1, <1>3, Unfold
    <2> QED BY <2>1
  <1>4. CASE i < Len(f) /\ f[i + 1] # Star
    <2>1. Outcome(f, s, i, j) = OneOutcome(f, s, i, j) /\ i + 1 \in 1 .. Len(f)
      BY <1>1, <1>4, Unfold
    <2> QED BY <1>2, <1>4, <2>1 DEF OneOutcome, NoQuestion
  <1>5. CASE i < Len(f) /\ f[i + 1] = Star
    <2>1. Outcome(f, s, i, j) = StarOutcome(f, s, i, j)
      BY <1>1, <1>5, Unfold
    <2>2. Outcome(f, s, i + 1, j) \in BOOLEAN
      <3>1. i + 1 \in 0 .. Len(f) /\ (i + 1) + j > i + j
        BY <1>1, <1>5
      <3> QED BY <3>1 DEF Defined
    <2>3. CASE j < Len(s)
      BY <1>2, <1>5, <2>1, <2>2, <2>3 DEF StarOutcome, Or
    <2>4. CASE j = Len(s) /\ i + 1 < Len(f)
      BY <2>1, <2>4 DEF StarOutcome
    <2>5. CASE j = Len(s) /\ i + 1 = Len(f)
      <3>1. i + 1 \in 0 .. Len(f)
        BY <1>1, <2>5
      <3>2. Outcome(f, s, i + 1, j) = (j = Len(s))
        BY <1>1, <2>5, <3>1, Unfold
      <3>3. ~(i + 1 < Len(f)) /\ ~(j < Len(s))
        BY <1>1, <2>5
      <3>4. Outcome(f, s, i, j) = Outcome(f, s, i + 1, j)
        BY <2>1, <2>5, <3>2, <3>3 DEF StarOutcome, Or
      <3> QED BY <2>2, <3>4
    <2> QED BY <1>1, <1>5, <2>3, <2>4, <2>5
  <1> QED BY <1>1, <1>3, <1>4, <1>5

(* Hence all calls are.                                                    *)
LEMMA AllSound ==
  ASSUME NEW f \in Seq(Symbols), NEW s \in Seq(Symbols)
  PROVE  \A i \in 0 .. Len(f), j \in 0 .. Len(s) + 1 : Sound(f, s, i, j)
  <1> DEFINE wrong == {p \in Positions(f, s) : ~Sound(f, s, p[1], p[2])}
             bad   == {Left(f, s, p) : p \in wrong}
  <1> SUFFICES ASSUME bad # {}
               PROVE  FALSE
    <2> SUFFICES ASSUME NEW i \in 0 .. Len(f), NEW j \in 0 .. Len(s) + 1,
                        ~Sound(f, s, i, j)
                 PROVE  bad # {}
      OBVIOUS
    <2>1. <<i, j>> \in Positions(f, s) /\ <<i, j>>[1] = i /\ <<i, j>>[2] = j
      BY DEF Positions
    <2>2. <<i, j>> \in wrong
      BY <2>1
    <2> QED BY <2>2
  <1>1. PICK n \in bad : \A k \in bad : n <= k
    <2>1. bad \subseteq Nat
      BY LeftBounded
    <2> HIDE DEF bad
    <2> QED BY <2>1, Least
  <1>2. PICK p \in Positions(f, s) : n = Left(f, s, p) /\ ~Sound(f, s, p[1], p[2])
    BY <1>1
  <1>3. PICK i \in 0 .. Len(f), j \in 0 .. Len(s) + 1 : p = <<i, j>>
    BY DEF Positions
  <1>4. ASSUME NEW k \in 0 .. Len(f), NEW l \in 0 .. Len(s) + 1, k + l > i + j
        PROVE  Sound(f, s, k, l)
    <2>1. <<k, l>> \in Positions(f, s) /\ <<k, l>>[1] = k /\ <<k, l>>[2] = l
      BY DEF Positions
    <2>2. /\ n = (Len(f) - i) + (Len(s) + 1 - j)
          /\ Left(f, s, <<k, l>>) = (Len(f) - k) + (Len(s) + 1 - l)
      BY <1>2, <1>3, <2>1 DEF Left
    <2>3. ~(n <= Left(f, s, <<k, l>>))
      <3>1. Len(f) \in Nat /\ Len(s) \in Nat
        BY Lengths
      <3> QED BY <1>4, <2>2, <3>1
    <2>4. Left(f, s, <<k, l>>) \notin bad
      BY <1>1, <2>3
    <2> QED BY <2>1, <2>4
  <1>5. Sound(f, s, i, j)
    BY <1>4, SoundStep
  <1> QED BY <1>2, <1>3, <1>5

LEMMA AllComplete ==
  ASSUME NEW f \in Seq(Symbols), NEW s \in Seq(Symbols), NoTwoStars(f), NoStar(s)
  PROVE  \A i \in 0 .. Len(f), j \in 0 .. Len(s) + 1 : Complete(f, s, i, j)
  <1> DEFINE wrong == {p \in Positions(f, s) : ~Complete(f, s, p[1], p[2])}
             bad   == {Left(f, s, p) : p \in wrong}
  <1> SUFFICES ASSUME bad # {}
               PROVE  FALSE
    <2> SUFFICES ASSUME NEW i \in 0 .. Len(f), NEW j \in 0 .. Len(s) + 1,
                        ~Complete(f, s, i, j)
                 PROVE  bad # {}
      OBVIOUS
    <2>1. <<i, j>> \in Positions(f, s) /\ <<i, j>>[1] = i /\ <<i, j>>[2] = j
      BY DEF Positions
    <2>2. <<i, j>> \in wrong
      BY <2>1
    <2> QED BY <2>2
  <1>1. PICK n \in bad : \A k \in bad : n <= k
    <2>1. bad \subseteq Nat
      BY LeftBounded
    <2> HIDE DEF bad
    <2> QED BY <2>1, Least
  <1>2. PICK p \in Positions(f, s) : n = Left(f, s, p) /\ ~Complete(f, s, p[1], p[2])
    BY <1>1
  <1>3. PICK i \in 0 .. Len(f), j \in 0 .. Len(s) + 1 : p = <<i, j>>
    BY DEF Positions
  <1>4. ASSUME NEW k \in 0 .. Len(f), NEW l \in 0 .. Len(s) + 1, k + l > i + j
        PROVE  Complete(f, s, k, l)
    <2>1. <<k, l>> \in Positions(f, s) /\ <<k, l>>[1] = k /\ <<k, l>>[2] = l
      BY DEF Positions
    <2>2. /\ n = (Len(f) - i) + (Len(s) + 1 - j)
          /\ Left(f, s, <<k, l>>) = (Len(f) - k) + (Len(s) + 1 - l)
      BY <1>2, <1>3, <2>1 DEF Left
    <2>3. ~(n <= Left(f, s, <<k, l>>))
      <3>1. Len(f) \in Nat /\ Len(s) \in Nat
        BY Lengths
      <3> QED BY <1>4, <2>2, <3>1
    <2>4. Left(f, s, <<k, l>>) \notin bad
      BY <1>1, <2>3
    <2> QED BY <2>1, <2>4
  <1>5. Complete(f, s, i, j)
    BY <1>4, CompleteStep
  <1> QED BY <1>2, <1>3, <1>5

LEMMA AllDefined ==
  ASSUME NEW f \in Seq(Symbols), NEW s \in Seq(Symbols), NoQuestion(f)
  PROVE  \A i \in 0 .. Len(f), j \in 0 .. Len(s) + 1 : Defined(f, s, i, j)
  <1> DEFINE wrong == {p \in Positions(f, s) : ~Defined(f, s, p[1], p[2])}
             bad   == {Left(f, s, p) : p \in wrong}
  <1> SUFFICES ASSUME bad # {}
               PROVE  FALSE
    <2> SUFFICES ASSUME NEW i \in 0 .. Len(f), NEW j \in 0 .. Len(s) + 1,
                        ~Defined(f, s, i, j)
                 PROVE  bad # {}
      OBVIOUS
    <2>1. <<i, j>> \in Positions(f, s) /\ <<i, j>>[1] = i /\ <<i, j>>[2] = j
      BY DEF Positions
    <2>2. <<i, j>> \in wrong
      BY <2>1
    <2> QED BY <2>2
  <1>1. PICK n \in bad : \A k \in bad : n <= k
    <2>1. bad \subseteq Nat
      BY LeftBounded
    <2> HIDE DEF bad
    <2> QED BY <2>1, Least
  <1>2. PICK p \in Positions(f, s) : n = Left(f, s, p) /\ ~Defined(f, s, p[1], p[2])
    BY <1>1
  <1>3. PICK i \in 0 .. Len(f), j \in 0 .. Len(s) + 1 : p = <<i, j>>
    BY DEF Positions
  <1>4. ASSUME NEW k \in 0 .. Len(f), NEW l \in 0 .. Len(s) + 1, k + l > i + j
        PROVE  Defined(f, s, k, l)
    <2>1. <<k, l>> \in Positions(f, s) /\ <<k, l>>[1] = k /\ <<k, l>>[2] = l
      BY DEF Positions
    <2>2. /\ n = (Len(f) - i) + (Len(s) + 1 - j)
          /\ Left(f, s, <<k, l>>) = (Len(f) - k) + (Len(s) + 1 - l)
      BY <1>2, <1>3, <2>1 DEF Left
    <2>3. ~(n <= Left(f, s, <<k, l>>))
      <3>1. Len(f) \in Nat /\ Len(s) \in Nat
        BY Lengths
      <3> QED BY <1>4, <2>2, <3>1
    <2>4. Left(f, s, <<k, l>>) \notin bad
      BY <1>1, <2>3
    <2> QED BY <2>1, <2>4
  <1>5. Defined(f, s, i, j)
    BY <1>4, DefinedStep
  <1> QED BY <1>2, <1>3, <1>5

-----------------------------------------------------------------------------
(* What is asked of match(), for strings of any length                     *)

(* It accepts no text that does not match, whatever the two strings are.   *)
LEMMA AcceptedMatches ==
  ASSUME NEW f \in Seq(Symbols), NEW s \in Seq(Symbols), match(f, s) = TRUE
  PROVE  Matches(f, s)
  <1>1. 0 \in 0 .. Len(f) /\ 0 \in 0 .. Len(s) + 1 /\ 0 <= Len(s)
    BY Lengths
  <1>2. Outcome(f, s, 0, 0) = TRUE
    BY Recursion DEF Outcome
  <1>3. Sound(f, s, 0, 0)
    BY <1>1, AllSound
  <1> QED BY <1>1, <1>2, <1>3, FitsWhole DEF Sound

(* It accepts a text that matches, if the strings are as it assumes.       *)
LEMMA MatchingAccepted ==
  ASSUME NEW f \in Seq(Symbols), NEW s \in Seq(Symbols), NoTwoStars(f), NoStar(s),
         Matches(f, s)
  PROVE  match(f, s) = TRUE
  <1>1. 0 \in 0 .. Len(f) /\ 0 \in 0 .. Len(s) + 1 /\ 0 \in 0 .. Len(s) /\ 0 <= Len(s)
    BY Lengths
  <1>2. Outcome(f, s, 0, 0) = match(f, s) /\ Fits(f, s, 0, 0)
    BY Recursion, FitsWhole DEF Outcome
  <1>3. Complete(f, s, 0, 0)
    BY <1>1, AllComplete
  <1> QED BY <1>1, <1>2, <1>3 DEF Complete

MatchInv ==
  /\ <<text, mask>> \in Arguments
  /\ result \in {Pending, match(mask, text)}

LEMMA MatchInvariance == MatchSpec => []MatchInv
  <1>1. MatchInit => MatchInv
    <2>1. \A a \in Arguments : a = <<a[1], a[2]>>
      OBVIOUS
    <2> QED BY <2>1 DEF MatchInit, MatchInv
  <1>2. MatchInv /\ [matchwildcards]_matchVars => MatchInv'
    BY DEF MatchInv, matchwildcards, matchVars
  <1> QED BY <1>1, <1>2, PTL DEF MatchSpec

(* The function reports a match for no text that does not match, for masks *)
(* and texts of any symbols and any length: neither the order of its tests *)
(* nor the early return for a star at the end of the text accepts anything *)
(* else.                                                                   *)
THEOREM OnlyMatchesAccepted == MatchSpec => []NoFalseMatch
  <1>1. MatchInv => NoFalseMatch
    <2> SUFFICES ASSUME MatchInv, result = TRUE
                 PROVE  Matches(mask, text)
      BY DEF NoFalseMatch
    <2>1. text \in Seq(Symbols) /\ mask \in Seq(Symbols)
      BY DEF MatchInv
    <2>2. match(mask, text) = TRUE
      BY DEF MatchInv
    <2> QED BY <2>1, <2>2, AcceptedMatches
  <1> QED BY <1>1, MatchInvariance, PTL

(* A text without a star that matches a mask without neighbouring stars is *)
(* found, and no call on the way reads behind a terminator before it is.   *)
THEOREM MatchesAreFound == MatchSpec => []MatchingTextIsFound
  <1>1. MatchInv => MatchingTextIsFound
    <2> SUFFICES ASSUME MatchInv, result # Pending, NoStar(text), NoTwoStars(mask),
                        Matches(mask, text)
                 PROVE  result = TRUE
      BY DEF MatchingTextIsFound
    <2>1. text \in Seq(Symbols) /\ mask \in Seq(Symbols)
      BY DEF MatchInv
    <2>2. match(mask, text) = TRUE
      BY <2>1, MatchingAccepted
    <2> QED BY <2>2 DEF MatchInv
  <1> QED BY <1>1, MatchInvariance, PTL

(* No call reads behind the terminator of the text unless the mask has a ?,*)
(* whatever stars the two strings have: at the end of the text a star that *)
(* is not the last symbol returns early, and the last one tries to take    *)
(* nothing before it takes a character.                                    *)
THEOREM ReadsEndWithTheText == MatchSpec => [](NoQuestion(mask) => result # PastEnd)
  <1>1. MatchInv => (NoQuestion(mask) => result # PastEnd)
    <2> SUFFICES ASSUME MatchInv, NoQuestion(mask)
                 PROVE  result # PastEnd
      OBVIOUS
    <2>1. text \in Seq(Symbols) /\ mask \in Seq(Symbols)
      BY DEF MatchInv
    <2>2. 0 \in 0 .. Len(mask) /\ 0 \in 0 .. Len(text) + 1 /\ 0 <= Len(text)
      BY <2>1, Lengths
    <2>3. Defined(mask, text, 0, 0)
      BY <2>1, <2>2, AllDefined
    <2>4. match(mask, text) = Outcome(mask, text, 0, 0)
      BY <2>1, Recursion DEF Outcome
    <2>5. match(mask, text) \in BOOLEAN
      BY <2>2, <2>3, <2>4 DEF Defined
    <2> QED BY <2>5 DEF MatchInv
  <1> QED BY <1>1, MatchInvariance, PTL

HIDE WildcardsAssumption

-----------------------------------------------------------------------------
(* EXTERNAL SORT                                                           *)

Lined == Numbers \cup {Blank, Garbage}

Chunks == [f \in 0 .. count |-> IF f = count THEN data ELSE tmp[f]]

Streams == [f \in 0 .. count |-> IF f = 0 THEN out ELSE files[f]]

Places(store) == UNION {{f} \X (1 .. Len(store[f])) : f \in DOMAIN store}

Filled(store, lines) ==
  \E line \in Bijection(Places(store), lines) :
    \A p \in Places(store) : Printed(store[p[1]][p[2]]) = Value(line[p])

(* The lines that getline has delivered.                                   *)
Delivered == {i \in Numbered : i <= Len(input) - Len(left)}

(* Numbers as they are printed.                                            *)
AsPrinted(s) == \A j \in DOMAIN s : Printed(s[j]) = s[j]

SplitInv ==
  phase \in {"split", "open"} =>
    /\ \A f \in 0 .. count - 1 : f \in DOMAIN tmp /\ Ascending(tmp[f]) /\ AsPrinted(tmp[f])
    /\ Filled(Chunks, Delivered)
    /\ ~stream => left = <<>>
    /\ phase = "open" => ~stream /\ data = <<>>

MergeInv ==
  phase \in {"merge", "done"} =>
    /\ Len(files) = count
    /\ \A f \in 1 .. count : Ascending(files[f]) /\ AsPrinted(files[f])
    /\ Ascending(out) /\ AsPrinted(out)
    /\ \A k \in DOMAIN out, f \in 1 .. count :
          \A j \in DOMAIN files[f] : out[k] <= files[f][j]
    /\ Filled(Streams, Numbered)
    /\ phase = "done" => has_data = {}

IInv == TypeOK /\ SplitInv /\ MergeInv

USE SortAssumption, PrintedAssumption

-----------------------------------------------------------------------------
(* Stores                                                                  *)

(* A place is a pair of a sequence of the store and a position in it.      *)
LEMMA PlaceOf ==
  ASSUME NEW store, NEW f, NEW j
  PROVE  /\ <<f, j>> \in Places(store) <=> f \in DOMAIN store /\ j \in 1 .. Len(store[f])
         /\ \A p \in Places(store) : p = <<p[1], p[2]>> /\ p[1] \in DOMAIN store
                                     /\ p[2] \in 1 .. Len(store[p[1]])
  BY DEF Places

(* Every position of every sequence is one.                                *)
LEMMA PairIsPlace ==
  ASSUME NEW store, NEW f \in DOMAIN store, NEW j \in 1 .. Len(store[f])
  PROVE  <<f, j>> \in Places(store)
  BY DEF Places

(* Stores with the same lengths have the same places.                      *)
LEMMA SamePlaces ==
  ASSUME NEW old, NEW new,
         \A f, j : f \in DOMAIN new /\ j \in 1 .. Len(new[f])
                    <=> f \in DOMAIN old /\ j \in 1 .. Len(old[f])
  PROVE  Places(new) = Places(old)
  <1> SUFFICES ASSUME NEW p PROVE p \in Places(new) <=> p \in Places(old)
    OBVIOUS
  <1>1. ASSUME NEW f, NEW j
        PROVE  <<f, j>> \in Places(new) <=> <<f, j>> \in Places(old)
    BY PlaceOf
  <1>2. CASE p \in Places(new)
    <2>1. p = <<p[1], p[2]>>
      BY <1>2, PlaceOf
    <2> QED BY <1>1, <1>2, <2>1
  <1>3. CASE p \in Places(old)
    <2>1. p = <<p[1], p[2]>>
      BY <1>3, PlaceOf
    <2> QED BY <1>1, <1>3, <2>1
  <1> QED BY <1>2, <1>3

(* A sequence that grows by one number adds one place.                     *)
LEMMA OnePlaceMore ==
  ASSUME NEW old, NEW new, DOMAIN new = DOMAIN old,
         NEW f \in DOMAIN old, Len(old[f]) \in Nat, Len(new[f]) = Len(old[f]) + 1,
         \A g \in DOMAIN old : g # f => new[g] = old[g]
  PROVE  /\ Places(new) = Places(old) \cup {<<f, Len(old[f]) + 1>>}
         /\ <<f, Len(old[f]) + 1>> \notin Places(old)
  <1> DEFINE q == <<f, Len(old[f]) + 1>>
  <1>1. q \notin Places(old)
    BY PlaceOf
  <1>2. ASSUME NEW g, NEW j
        PROVE  <<g, j>> \in Places(new) <=> <<g, j>> \in Places(old) \/ <<g, j>> = q
    <2>1. CASE g = f
      <3>1. j \in 1 .. Len(new[f]) <=> j \in 1 .. Len(old[f]) \/ j = Len(old[f]) + 1
        OBVIOUS
      <3>2. <<g, j>> \in Places(new) <=> j \in 1 .. Len(new[f])
        BY <2>1, PlaceOf
      <3>3. <<g, j>> \in Places(old) <=> j \in 1 .. Len(old[f])
        BY <2>1, PlaceOf
      <3> QED BY <2>1, <3>1, <3>2, <3>3
    <2>2. CASE g # f
      <3>1. <<g, j>> \in Places(new) <=> g \in DOMAIN old /\ j \in 1 .. Len(new[g])
        BY PlaceOf
      <3>2. <<g, j>> \in Places(old) <=> g \in DOMAIN old /\ j \in 1 .. Len(old[g])
        BY PlaceOf
      <3> QED BY <2>2, <3>1, <3>2
    <2> QED BY <2>1, <2>2
  <1>3. ASSUME NEW p PROVE p \in Places(new) <=> p \in Places(old) \cup {q}
    <2>1. CASE p \in Places(new)
      <3>1. p = <<p[1], p[2]>>
        BY <2>1, PlaceOf
      <3> QED BY <1>2, <2>1, <3>1
    <2>2. CASE p \in Places(old)
      <3>1. p = <<p[1], p[2]>>
        BY <2>2, PlaceOf
      <3> QED BY <1>2, <2>2, <3>1
    <2>3. CASE p = q
      BY <1>2, <2>3
    <2> QED BY <2>1, <2>2, <2>3
  <1> HIDE DEF q
  <1>4. Places(new) = Places(old) \cup {q}
    BY <1>3
  <1> QED BY <1>1, <1>4 DEF q

(* What a bijection is, without the names of the library.                  *)
LEMMA BijectionIs ==
  ASSUME NEW S, NEW T, NEW f
  PROVE  f \in Bijection(S, T) <=>
           /\ f \in [S -> T]
           /\ \A a, b \in S : f[a] = f[b] => a = b
           /\ \A t \in T : \E a \in S : f[a] = t
  BY DEF Bijection, Injection, Surjection, IsInjective

(* Numbers that move from place to place are still the same lines'.        *)
LEMMA Moved ==
  ASSUME NEW old, NEW new, NEW lines, Filled(old, lines),
         NEW move \in Bijection(Places(new), Places(old)),
         \A p \in Places(new) :
            Printed(new[p[1]][p[2]]) = Printed(old[move[p][1]][move[p][2]])
  PROVE  Filled(new, lines)
  <1>1. PICK line \in Bijection(Places(old), lines) :
          \A p \in Places(old) : Printed(old[p[1]][p[2]]) = Value(line[p])
    BY DEF Filled
  <1> DEFINE moved == [p \in Places(new) |-> line[move[p]]]
  <1>2. moved \in Bijection(Places(new), lines)
    BY <1>1, Fun_BijTransitive
  <1>3. move \in [Places(new) -> Places(old)]
    BY BijectionIs
  <1>4. \A p \in Places(new) : Printed(new[p[1]][p[2]]) = Value(moved[p])
    BY <1>1, <1>3
  <1> HIDE DEF moved
  <1> QED BY <1>2, <1>4 DEF Filled

(* One place more for one line more.                                       *)
LEMMA Added ==
  ASSUME NEW old, NEW new, NEW lines, Filled(old, lines),
         NEW q, q \notin Places(old), Places(new) = Places(old) \cup {q},
         NEW i, i \notin lines,
         \A p \in Places(old) : new[p[1]][p[2]] = old[p[1]][p[2]],
         Printed(new[q[1]][q[2]]) = Value(i)
  PROVE  Filled(new, lines \cup {i})
  <1>1. PICK line \in Bijection(Places(old), lines) :
          \A p \in Places(old) : Printed(old[p[1]][p[2]]) = Value(line[p])
    BY DEF Filled
  <1> DEFINE more == [p \in Places(new) |-> IF p = q THEN i ELSE line[p]]
  <1>2. /\ line \in [Places(old) -> lines]
        /\ \A a, b \in Places(old) : line[a] = line[b] => a = b
        /\ \A t \in lines : \E a \in Places(old) : line[a] = t
    BY <1>1, BijectionIs
  <1>3. /\ more \in [Places(new) -> lines \cup {i}]
        /\ \A a, b \in Places(new) : more[a] = more[b] => a = b
        /\ \A t \in lines \cup {i} : \E a \in Places(new) : more[a] = t
    BY <1>2
  <1>4. \A p \in Places(new) : Printed(new[p[1]][p[2]]) = Value(more[p])
    BY <1>1
  <1> HIDE DEF more
  <1>5. more \in Bijection(Places(new), lines \cup {i})
    BY <1>3, BijectionIs
  <1> QED BY <1>4, <1>5 DEF Filled

-----------------------------------------------------------------------------
(* Types                                                                   *)

(* What a line is read as.                                                 *)
LEMMA ParsedNumber ==
  ASSUME NEW x \in Lined, x # Blank
  PROVE  Parsed(x) \in Numbers
  BY DEF Lined, Parsed

(* What a permutation of a sequence's positions leaves of it.              *)
LEMMA SortedLines ==
  ASSUME NEW s \in Seq(Numbers), NEW p \in Sorts(s)
  PROVE  /\ Lines(s, p) \in Seq(Numbers) /\ Len(Lines(s, p)) = Len(s)
         /\ p \in Bijection(1 .. Len(s), 1 .. Len(s))
         /\ \A i \in 1 .. Len(s) : p[i] \in 1 .. Len(s) /\ Lines(s, p)[i] = Printed(s[p[i]])
         /\ Ascending(Lines(s, p)) /\ AsPrinted(Lines(s, p))
  <1>1. DOMAIN s = 1 .. Len(s) /\ Len(s) \in Nat /\ \A i \in 1 .. Len(s) : s[i] \in Numbers
    OBVIOUS
  <1>2. p \in Bijection(1 .. Len(s), 1 .. Len(s))
    BY <1>1 DEF Sorts
  <1>3. \A i \in 1 .. Len(s) : p[i] \in 1 .. Len(s)
    <2>1. p \in [1 .. Len(s) -> 1 .. Len(s)]
      BY <1>2, Fun_BijectionProperties
    <2> QED BY <2>1
  <1>4. Lines(s, p) = [i \in 1 .. Len(s) |-> Printed(s[p[i]])]
    BY <1>1 DEF Lines
  <1>5. Lines(s, p) \in Seq(Numbers) /\ Len(Lines(s, p)) = Len(s)
    <2>1. \A i \in 1 .. Len(s) : Printed(s[p[i]]) \in Numbers
      BY <1>1, <1>3
    <2> QED BY <1>1, <1>4, <2>1
  <1>6. AsPrinted(Lines(s, p))
    BY <1>1, <1>3, <1>4 DEF AsPrinted
  <1>7. \A i, j \in 1 .. Len(s) : i < j => s[p[i]] <= s[p[j]]
    BY <1>1 DEF Sorts, Ascending
  <1>8. Ascending(Lines(s, p))
    <2> SUFFICES ASSUME NEW i \in 1 .. Len(s), NEW j \in 1 .. Len(s), i < j
                 PROVE  Lines(s, p)[i] <= Lines(s, p)[j]
      BY <1>1, <1>4 DEF Ascending
    <2>1. s[p[i]] \in Numbers /\ s[p[j]] \in Numbers /\ s[p[i]] <= s[p[j]]
      BY <1>1, <1>3, <1>7
    <2>2. Printed(s[p[i]]) <= Printed(s[p[j]])
      BY <2>1
    <2>3. Lines(s, p)[i] = Printed(s[p[i]]) /\ Lines(s, p)[j] = Printed(s[p[j]])
      BY <1>4
    <2> QED BY <2>2, <2>3
  <1> QED BY <1>2, <1>3, <1>4, <1>5, <1>6, <1>8

(* Every chunk can be sorted: the rank of a number among the others, those *)
(* equal to it in their order, is a permutation, and its inverse sorts.    *)
(* So the write of a chunk is never held up by what is asked of std::sort. *)
THEOREM ChunkCanBeSorted ==
  ASSUME NEW s \in Seq(Numbers)
  PROVE  Sorts(s) # {}
  <1> DEFINE D == 1 .. Len(s)
             Before(i) == {j \in D : s[j] < s[i] \/ (s[j] = s[i] /\ j < i)}
             rank == [i \in D |-> Cardinality(Before(i)) + 1]
  <1>1. /\ Len(s) \in Nat /\ DOMAIN s = D /\ D \subseteq Int
        /\ \A i \in D : s[i] \in Int
    <2>1. Len(s) \in Nat /\ DOMAIN s = D /\ \A i \in D : s[i] \in Numbers
      OBVIOUS
    <2>2. \A x \in Numbers : x \in Int
      OBVIOUS
    <2>3. \A i \in D : s[i] \in Int
      <3> HIDE DEF D
      <3> QED BY <2>1, <2>2
    <2> QED BY <2>1, <2>3
  <1>2. IsFiniteSet(D) /\ Cardinality(D) = Len(s)
    <2>1. IsFiniteSet(1 .. Len(s)) /\ Cardinality(1 .. Len(s)) = IF 1 > Len(s) THEN 0 ELSE Len(s) - 1 + 1
      BY <1>1, FS_Interval
    <2> QED BY <1>1, <2>1
  <1>3. ASSUME NEW i \in D
        PROVE  /\ IsFiniteSet(Before(i)) /\ Cardinality(Before(i)) \in Nat
               /\ rank[i] \in D
    <2>1. Before(i) \subseteq D /\ i \notin Before(i) /\ Before(i) # D
      BY <1>1
    <2> HIDE DEF Before
    <2>2. /\ IsFiniteSet(Before(i)) /\ Cardinality(Before(i)) <= Len(s)
          /\ Cardinality(Before(i)) # Len(s)
      BY <1>2, <2>1, FS_Subset
    <2>3. Cardinality(Before(i)) \in Nat
      BY <2>2, FS_CardinalityType
    <2> QED BY <1>1, <2>2, <2>3
  <1>4. ASSUME NEW i \in D, NEW j \in D, j \in Before(i)
        PROVE  rank[j] < rank[i]
    <2>1. Before(j) \subseteq Before(i) /\ j \notin Before(j) /\ j \in Before(i)
      BY <1>1, <1>4
    <2> HIDE DEF Before
    <2>2. /\ Cardinality(Before(j)) <= Cardinality(Before(i))
          /\ Cardinality(Before(j)) # Cardinality(Before(i))
      BY <1>3, <2>1, FS_Subset
    <2> QED BY <1>3, <2>2
  <1>5. ASSUME NEW i \in D, NEW j \in D, i # j
        PROVE  i \in Before(j) \/ j \in Before(i)
    <2>1. s[i] \in Int /\ s[j] \in Int /\ i \in Int /\ j \in Int
      BY <1>1
    <2>2. s[i] < s[j] \/ s[j] < s[i] \/ (s[i] = s[j] /\ (i < j \/ j < i))
      BY <1>5, <2>1
    <2> QED BY <2>2
  <1>6. rank \in Bijection(D, D)
    <2>1. rank \in [D -> D]
      BY <1>3
    <2> HIDE DEF rank, Before
    <2>2. D \subseteq Int /\ \A i \in D : rank[i] \in Int
      BY <1>1, <2>1
    <2>3. \A i, j \in D : rank[i] = rank[j] => i = j
      <3> HIDE DEF D
      <3> QED BY <1>4, <1>5, <2>2
    <2> HIDE DEF D
    <2>4. rank \in Injection(D, D)
      BY <2>1, <2>3, Fun_IsInj
    <2>5. rank \in Surjection(D, D)
      BY <1>2, <2>4, FS_Injection
    <2> QED BY <2>4, <2>5, Fun_IsBij
  <1> DEFINE p == Inverse(rank, D, D)
  <1>7. /\ p \in Bijection(D, D)
        /\ \A k \in D : p[k] \in D /\ rank[p[k]] = k
    <2> HIDE DEF rank, D
    <2>1. p \in Bijection(D, D) /\ \A i \in D : p[rank[i]] = i
      BY <1>6, Fun_BijInverse
    <2> HIDE DEF p
    <2>2. /\ p \in [D -> D]
          /\ \A k \in D : \E i \in D : rank[i] = k
      BY <1>6, <2>1, Fun_BijectionProperties
    <2> QED BY <2>1, <2>2
  <1> HIDE DEF p, rank
  <1>8. ASSUME NEW a \in D, NEW b \in D, a < b
        PROVE  s[p[a]] <= s[p[b]]
    <2> SUFFICES ASSUME ~(s[p[a]] <= s[p[b]]) PROVE FALSE
      OBVIOUS
    <2>1. s[p[b]] < s[p[a]]
      <3>1. s[p[a]] \in Int /\ s[p[b]] \in Int
        BY <1>1, <1>7
      <3> QED BY <3>1
    <2>2. p[b] \in Before(p[a])
      <3>1. p[b] \in D
        BY <1>7
      <3> QED BY <2>1, <3>1
    <2> HIDE DEF Before
    <2>3. rank[p[b]] < rank[p[a]]
      <3> HIDE DEF D
      <3> QED BY <1>4, <1>7, <2>2
    <2> QED BY <1>1, <1>7, <1>8, <2>3
  <1>9. Ascending([i \in DOMAIN s |-> s[p[i]]])
    BY <1>1, <1>8 DEF Ascending
  <1> QED BY <1>1, <1>7, <1>9 DEF Sorts

(* Init and every step keep the types.                                     *)
LEMMA InitTypes ==
  ASSUME Init
  PROVE  TypeOK
  <1>1. input \in Seq(Lined) /\ left = input
    BY DEF Init, Lined
  <1>2. /\ left \in Seq(Lined) /\ Len(left) <= Len(input)
        /\ \A j \in DOMAIN left : left[j] = input[Len(input) - Len(left) + j]
    BY <1>1
  <1>3. DOMAIN tmp = {} /\ MaxRuns \in Nat \ {0} /\ MaxSize \in Nat
    BY DEF Init
  <1> QED BY <1>2, <1>3 DEF Init, TypeOK, Lined

(* The rest of the file is that of the same file after a line is read.     *)
LEMMA LineRead ==
  ASSUME TypeOK, left # <<>>
  PROVE  /\ input \in Seq(Lined) /\ Len(input) \in Nat /\ left \in Seq(Lined) /\ Len(left) \in 1 .. Len(input)
         /\ Tail(left) \in Seq(Lined) /\ Len(Tail(left)) = Len(left) - 1
         /\ \A j \in DOMAIN Tail(left) :
               Tail(left)[j] = input[Len(input) - Len(Tail(left)) + j]
         /\ Head(left) = input[Len(input) - Len(left) + 1] /\ Head(left) \in Lined
  <1>1. /\ input \in Seq(Lined) /\ left \in Seq(Lined)
        /\ Len(left) <= Len(input)
        /\ \A j \in DOMAIN left : left[j] = input[Len(input) - Len(left) + j]
    BY DEF TypeOK, Lined
  <1>2. Len(left) \in Nat \ {0} /\ Len(input) \in Nat /\ DOMAIN left = 1 .. Len(left)
    BY <1>1, EmptySeq
  <1>3. /\ Tail(left) \in Seq(Lined) /\ Len(Tail(left)) = Len(left) - 1
        /\ Head(left) = left[1] /\ Head(left) \in Lined
        /\ \A j \in 1 .. Len(left) - 1 : Tail(left)[j] = left[j + 1]
    BY <1>1, <1>2, HeadTailProperties
  <1>4. DOMAIN Tail(left) = 1 .. Len(left) - 1
    BY <1>3
  <1>5. \A j \in 1 .. Len(left) - 1 : Tail(left)[j] = input[Len(input) - Len(Tail(left)) + j]
    BY <1>1, <1>2, <1>3
  <1> QED BY <1>1, <1>2, <1>3, <1>4, <1>5

(* Every step keeps the types.                                             *)
LEMMA StepTypes ==
  ASSUME TypeOK, SplitInv, MergeInv, [Next]_vars
  PROVE  TypeOK'
  <1> MaxRuns \in Nat \ {0} /\ MaxSize \in Nat \ {0}
    OBVIOUS
  <1>1. CASE ReadLine
    <2>1. CASE left = <<>>
      BY <1>1, <2>1 DEF ReadLine, TypeOK
    <2>2. CASE left # <<>>
      <3>0. /\ left' = Tail(left)
            /\ data' = IF Head(left) = Blank THEN data ELSE Append(data, Parsed(Head(left)))
        BY <1>1, <2>2 DEF ReadLine
      <3>1. /\ left' \in Seq(Lined) /\ Len(left') <= Len(input)
            /\ \A j \in DOMAIN left' : left'[j] = input[Len(input) - Len(left') + j]
        BY <2>2, <3>0, LineRead
      <3>2. data' \in Seq(Numbers) /\ Len(data') <= MaxSize + 1
        <4>1. data \in Seq(Numbers) /\ Len(data) \in Nat /\ Len(data) <= MaxSize
          BY <1>1 DEF ReadLine, TypeOK, ChunkHasRoom
        <4>2. CASE Head(left) = Blank
          BY <3>0, <4>1, <4>2
        <4>3. CASE Head(left) # Blank
          <5>1. Parsed(Head(left)) \in Numbers
            BY <2>2, <4>3, LineRead, ParsedNumber
          <5> QED BY <3>0, <4>1, <4>3, <5>1, AppendProperties
        <4> QED BY <4>2, <4>3
      <3> QED BY <1>1, <3>1, <3>2 DEF ReadLine, TypeOK, Lined
    <2> QED BY <2>1, <2>2
  <1>2. CASE WriteChunk
    <2>1. PICK p \in Sorts(data) : tmp' = Written(Lines(data, p))
      BY <1>2 DEF WriteChunk
    <2>2. Lines(data, p) \in Seq(Numbers)
      BY SortedLines DEF TypeOK
    <2>3. \A k \in DOMAIN tmp' : k \in Nat /\ tmp'[k] \in Seq(Numbers)
      <3>1. DOMAIN tmp' = DOMAIN tmp \cup {count}
            /\ \A k \in DOMAIN tmp' : tmp'[k] = IF k = count THEN Lines(data, p) ELSE tmp[k]
        BY <2>1 DEF Written
      <3> QED BY <2>2, <3>1 DEF TypeOK
    <2> QED BY <1>2, <2>3 DEF WriteChunk, TypeOK
  <1>3. CASE EndSplit
    BY <1>3 DEF EndSplit, TypeOK
  <1>4. CASE OpenFiles
    <2>1. \A f \in 1 .. count : tmp[f - 1] \in Seq(Numbers)
      BY <1>4 DEF OpenFiles, SplitInv, TypeOK
    <2>2. files' \in Seq(Seq(Numbers))
      <3>1. files' = [i \in 1 .. count |-> tmp[i - 1]] /\ count \in Nat
        BY <1>4 DEF OpenFiles, TypeOK
      <3> QED BY <2>1, <3>1
    <2> QED BY <1>4, <2>2 DEF OpenFiles, TypeOK
  <1>5. CASE Merge
    <2>1. PICK i \in has_data : /\ out' = Append(out, Printed(Head(files[i])))
                                /\ files' = [files EXCEPT ![i] = Tail(@)]
      BY <1>5 DEF Merge
    <2>2. files[i] \in Seq(Numbers) /\ files[i] # <<>> /\ i \in 1 .. Len(files)
      <3>1. files \in Seq(Seq(Numbers)) /\ i \in DOMAIN files /\ files[i] # <<>>
        BY <2>1 DEF has_data, TypeOK
      <3> QED BY <3>1, LenProperties, ElementOfSeq
    <2>3. Head(files[i]) \in Numbers /\ Tail(files[i]) \in Seq(Numbers)
      BY <2>2, HeadTailProperties
    <2>4. out' \in Seq(Numbers)
      <3>1. out \in Seq(Numbers) /\ Printed(Head(files[i])) \in Numbers
        BY <2>3 DEF TypeOK
      <3> QED BY <2>1, <3>1, AppendProperties
    <2>5. files' \in Seq(Seq(Numbers))
      BY <2>1, <2>2, <2>3, ExceptSeq DEF TypeOK
    <2> QED BY <1>5, <2>4, <2>5 DEF Merge, TypeOK
  <1>6. CASE Finish
    BY <1>6 DEF Finish, TypeOK
  <1>7. CASE Fail \/ Kill
    BY <1>7 DEF Fail, Kill, TypeOK
  <1>8. CASE Restart
    <2>1. input' \in Inputs /\ left' = input' /\ input' \in Seq(Lined)
      BY <1>8 DEF Restart, Lined
    <2>2. runs' \in 1 .. MaxRuns
      BY <1>8 DEF Restart, TypeOK
    <2> QED BY <1>8, <2>1, <2>2 DEF Restart, TypeOK, Lined
  <1>9. CASE UNCHANGED vars
    BY <1>9 DEF vars, TypeOK
  <1> QED BY <1>1, <1>2, <1>3, <1>4, <1>5, <1>6, <1>7, <1>8, <1>9 DEF Next, Work

-----------------------------------------------------------------------------
(* Splitting                                                               *)

(* An empty store holds no lines.                                          *)
LEMMA EmptyFilled ==
  ASSUME NEW store, Places(store) = {}
  PROVE  Filled(store, {})
  <1> DEFINE none == [p \in {} |-> p]
  <1>1. none \in Bijection({}, {})
    BY BijectionIs
  <1> HIDE DEF none
  <1> QED BY <1>1 DEF Filled

(* Init and Restart begin with an empty store and every line undelivered.  *)
LEMMA StartFilled ==
  TypeOK /\ left = input /\ data = <<>> /\ count = 0 => Filled(Chunks, Delivered)
  <1> SUFFICES ASSUME TypeOK, left = input, data = <<>>, count = 0
               PROVE  Filled(Chunks, Delivered)
    OBVIOUS
  <1>1. Delivered = {}
    <2>1. input \in Seq(Lined)
      BY DEF TypeOK, Lined
    <2>2. Len(input) \in Nat /\ DOMAIN input = 1 .. Len(input)
      BY <2>1
    <2> QED BY <2>2 DEF Delivered, Numbered
  <1>2. Places(Chunks) = {}
    <2>1. Chunks = [f \in {0} |-> <<>>]
      BY DEF Chunks
    <2> QED BY <2>1 DEF Places
  <1> QED BY <1>1, <1>2, EmptyFilled

(* getline: the chunk grows by the line that is delivered.                 *)
LEMMA ReadLineFilled ==
  ASSUME TypeOK, Filled(Chunks, Delivered), ReadLine
  PROVE  Filled(Chunks', Delivered')
  <1>0. /\ count \in Nat /\ data \in Seq(Numbers) /\ Len(data) \in Nat
        /\ input \in Seq(Lined) /\ Len(input) \in Nat /\ DOMAIN input = 1 .. Len(input)
    BY DEF TypeOK, Lined
  <1>1. count' = count /\ tmp' = tmp /\ input' = input
    BY DEF ReadLine
  <1>2. CASE left = <<>>
    BY <1>1, <1>2 DEF ReadLine, Chunks, Delivered, Numbered
  <1>3. CASE left # <<>>
    <2>0. /\ left' = Tail(left)
          /\ data' = IF Head(left) = Blank THEN data ELSE Append(data, Parsed(Head(left)))
      BY <1>3 DEF ReadLine
    <2> DEFINE i == Len(input) - Len(left) + 1
    <2>1. /\ i \in DOMAIN input /\ Head(left) = input[i] /\ input[i] \in Lined
          /\ Len(input) - Len(left') = i
      BY <1>0, <1>3, <2>0, LineRead
    <2>2. Delivered' = {n \in Numbered : n <= i}
      BY <1>1, <2>1 DEF Delivered, Numbered
    <2>3. Delivered = {n \in Numbered : n < i}
      <3>1. Len(left) \in Nat
        BY <1>3, LineRead
      <3> QED BY <1>0, <3>1 DEF Delivered, Numbered
    <2> HIDE DEF i
    <2>4. CASE Head(left) = Blank
      <3>1. Delivered' = Delivered
        BY <1>0, <2>1, <2>2, <2>3, <2>4 DEF Numbered
      <3>2. Chunks' = Chunks
        BY <1>1, <2>0, <2>4 DEF Chunks
      <3> QED BY <3>1, <3>2
    <2>5. CASE Head(left) # Blank
      <3> DEFINE q == <<count, Len(data) + 1>>
      <3>1. Delivered' = Delivered \cup {i} /\ i \notin Delivered
        BY <1>0, <2>1, <2>2, <2>3, <2>5 DEF Numbered
      <3>2. /\ data' \in Seq(Numbers) /\ Len(data') = Len(data) + 1
            /\ data'[Len(data) + 1] = Parsed(Head(left))
            /\ \A j \in 1 .. Len(data) : data'[j] = data[j]
        BY <1>0, <2>0, <2>1, <2>5, ParsedNumber, AppendProperties
      <3>3. /\ DOMAIN Chunks' = 0 .. count /\ DOMAIN Chunks = 0 .. count
            /\ Chunks'[count] = data' /\ Chunks[count] = data
            /\ \A f \in 0 .. count : f # count => Chunks'[f] = Chunks[f]
        BY <1>0, <1>1 DEF Chunks
      <3>4. Places(Chunks') = Places(Chunks) \cup {q} /\ q \notin Places(Chunks)
        <4>1. /\ DOMAIN Chunks' = DOMAIN Chunks /\ count \in DOMAIN Chunks
              /\ Len(Chunks[count]) = Len(data) /\ Len(Chunks[count]) \in Nat
              /\ Len(Chunks'[count]) = Len(Chunks[count]) + 1
              /\ \A g \in DOMAIN Chunks : g # count => Chunks'[g] = Chunks[g]
          BY <1>0, <3>2, <3>3
        <4>2. /\ Places(Chunks') = Places(Chunks) \cup {<<count, Len(Chunks[count]) + 1>>}
              /\ <<count, Len(Chunks[count]) + 1>> \notin Places(Chunks)
          BY <4>1, OnePlaceMore
        <4> QED BY <4>1, <4>2
      <3>5. \A p \in Places(Chunks) : Chunks'[p[1]][p[2]] = Chunks[p[1]][p[2]]
        <4>1. \A p \in Places(Chunks) : p[1] \in 0 .. count /\ p[2] \in 1 .. Len(Chunks[p[1]])
          BY <3>3, PlaceOf
        <4> QED BY <3>2, <3>3, <4>1
      <3>6. Printed(Chunks'[q[1]][q[2]]) = Value(i)
        BY <2>1, <3>2, <3>3 DEF Value
      <3> HIDE DEF q
      <3>7. Filled(Chunks', Delivered \cup {i})
        BY <3>1, <3>4, <3>5, <3>6, Added
      <3> QED BY <3>1, <3>7
    <2> QED BY <2>4, <2>5
  <1> QED BY <1>2, <1>3

(* Sorting and printing the chunk moves its numbers within the new file.   *)
LEMMA WriteChunkFilled ==
  ASSUME TypeOK, SplitInv, WriteChunk
  PROVE  Filled(Chunks', Delivered')
  <1>0. /\ count \in Nat /\ data \in Seq(Numbers) /\ Len(data) \in Nat
        /\ Filled(Chunks, Delivered) /\ \A f \in 0 .. count - 1 : f \in DOMAIN tmp
    BY DEF TypeOK, SplitInv, WriteChunk
  <1>1. PICK s \in Sorts(data) : tmp' = Written(Lines(data, s))
    BY DEF WriteChunk
  <1>2. count' = count + 1 /\ data' = <<>> /\ input' = input /\ left' = left
    BY DEF WriteChunk
  <1> DEFINE file == Lines(data, s)
  <1>3. /\ file \in Seq(Numbers) /\ Len(file) = Len(data)
        /\ s \in Bijection(1 .. Len(data), 1 .. Len(data))
        /\ \A j \in 1 .. Len(data) : s[j] \in 1 .. Len(data) /\ file[j] = Printed(data[s[j]])
    BY <1>0, SortedLines
  <1> HIDE DEF file
  <1>4. /\ DOMAIN Chunks' = 0 .. count + 1 /\ DOMAIN Chunks = 0 .. count
        /\ Chunks'[count] = file /\ Chunks[count] = data /\ Chunks'[count + 1] = <<>>
        /\ \A f \in 0 .. count - 1 : Chunks'[f] = tmp'[f] /\ Chunks[f] = tmp[f]
    <2>1. tmp'[count] = file
      BY <1>1 DEF Written, file
    <2> QED BY <1>0, <1>2, <2>1 DEF Chunks
  <1>5. \A f \in 0 .. count - 1 : Chunks'[f] = Chunks[f]
    <2> SUFFICES ASSUME NEW f \in 0 .. count - 1 PROVE tmp'[f] = tmp[f]
      BY <1>4
    <2>1. f \in DOMAIN tmp'
      BY <1>0, <1>1 DEF Written
    <2> QED BY <1>0, <1>1 DEF Written
  <1> DEFINE move == [p \in Places(Chunks') |-> IF p[1] = count THEN <<count, s[p[2]]>> ELSE p]
  <1>6. Places(Chunks') = Places(Chunks)
    <2>1. ASSUME NEW f, NEW j
          PROVE  f \in DOMAIN Chunks' /\ j \in 1 .. Len(Chunks'[f])
                 <=> f \in DOMAIN Chunks /\ j \in 1 .. Len(Chunks[f])
      <3>1. CASE f = count + 1
        BY <1>0, <1>4, <3>1
      <3>2. CASE f = count
        BY <1>0, <1>3, <1>4, <3>2
      <3>3. CASE f \notin count .. count + 1
        BY <1>0, <1>4, <1>5, <3>3
      <3> QED BY <1>0, <3>1, <3>2, <3>3
    <2> QED BY <2>1, SamePlaces
  <1>7. move \in Bijection(Places(Chunks'), Places(Chunks))
    <2>1. \A p \in Places(Chunks) : p = <<p[1], p[2]>> /\ (p[1] = count => p[2] \in 1 .. Len(data))
      BY <1>4, PlaceOf
    <2>2. \A j \in 1 .. Len(data) : <<count, j>> \in Places(Chunks)
      <3>1. count \in DOMAIN Chunks /\ Len(Chunks[count]) = Len(data)
        BY <1>0, <1>4
      <3> QED BY <3>1, PairIsPlace
    <2>3. /\ \A a, b \in 1 .. Len(data) : s[a] = s[b] => a = b
          /\ \A n \in 1 .. Len(data) : \E a \in 1 .. Len(data) : s[a] = n
      <3> DEFINE D == 1 .. Len(data)
      <3>1. s \in Bijection(D, D)
        BY <1>3
      <3> HIDE DEF D
      <3>2. /\ \A a, b \in D : s[a] = s[b] => a = b
            /\ \A n \in D : \E a \in D : s[a] = n
        BY <3>1, BijectionIs
      <3> QED BY <3>2 DEF D
    <2>4. move \in [Places(Chunks') -> Places(Chunks)]
      BY <1>3, <1>6, <2>1, <2>2
    <2>5. \A a, b \in Places(Chunks) : move[a] = move[b] => a = b
      <3> SUFFICES ASSUME NEW a \in Places(Chunks), NEW b \in Places(Chunks), move[a] = move[b]
                   PROVE  a[1] = b[1] /\ a[2] = b[2]
        BY <2>1
      <3>1. /\ move[a] = IF a[1] = count THEN <<count, s[a[2]]>> ELSE <<a[1], a[2]>>
            /\ move[b] = IF b[1] = count THEN <<count, s[b[2]]>> ELSE <<b[1], b[2]>>
        BY <1>6, <2>1
      <3>2. a[1] = b[1]
        BY <2>1, <3>1
      <3>3. CASE a[1] = count
        <4>1. s[a[2]] = s[b[2]]
          BY <3>1, <3>2, <3>3
        <4>2. a[2] \in 1 .. Len(data) /\ b[2] \in 1 .. Len(data)
          BY <2>1, <3>2, <3>3
        <4>3. a[2] = b[2]
          BY <2>3, <4>1, <4>2, Zenon
        <4> QED BY <3>2, <4>3
      <3>4. CASE a[1] # count
        BY <3>1, <3>2, <3>4
      <3> QED BY <3>3, <3>4
    <2>6. \A t \in Places(Chunks) : \E a \in Places(Chunks) : move[a] = t
      <3> SUFFICES ASSUME NEW t \in Places(Chunks)
                   PROVE  \E a \in Places(Chunks) : move[a] = t
        OBVIOUS
      <3>1. CASE t[1] = count
        <4>1. PICK n \in 1 .. Len(data) : s[n] = t[2]
          BY <2>1, <2>3, <3>1
        <4>2. move[<<count, n>>] = t
          BY <1>6, <2>1, <2>2, <3>1, <4>1
        <4> QED BY <2>2, <4>2
      <3>2. CASE t[1] # count
        BY <1>6, <3>2
      <3> QED BY <3>1, <3>2
    <2> HIDE DEF move
    <2> QED BY <1>6, <2>4, <2>5, <2>6, BijectionIs
  <1>8. \A p \in Places(Chunks') :
          Printed(Chunks'[p[1]][p[2]]) = Printed(Chunks[move[p][1]][move[p][2]])
    <2> SUFFICES ASSUME NEW p \in Places(Chunks')
                 PROVE  Printed(Chunks'[p[1]][p[2]]) = Printed(Chunks[move[p][1]][move[p][2]])
      OBVIOUS
    <2>1. p[1] \in 0 .. count /\ p[2] \in 1 .. Len(Chunks[p[1]])
      BY <1>4, <1>6, PlaceOf
    <2>2. CASE p[1] = count
      <3>1. p[2] \in 1 .. Len(data) /\ s[p[2]] \in 1 .. Len(data) /\ data[s[p[2]]] \in Numbers
        BY <1>0, <1>3, <1>4, <2>1, <2>2
      <3>2. move[p] = <<count, s[p[2]]>>
        BY <2>2
      <3>3. Chunks'[p[1]][p[2]] = Printed(data[s[p[2]]])
        BY <1>3, <1>4, <2>2, <3>1
      <3>4. Chunks[move[p][1]][move[p][2]] = data[s[p[2]]]
        BY <1>4, <3>2
      <3> QED BY <3>1, <3>3, <3>4
    <2>3. CASE p[1] # count
      BY <1>0, <1>5, <2>1, <2>3
    <2> QED BY <2>2, <2>3
  <1>9. Delivered' = Delivered
    BY <1>2 DEF Delivered, Numbered
  <1> HIDE DEF move
  <1>10. Filled(Chunks', Delivered)
    BY <1>0, <1>7, <1>8, Moved
  <1> QED BY <1>9, <1>10

(* The same lines are asked for after a step that keeps the input.         *)
LEMMA SameInput ==
  ASSUME input' = input
  PROVE  /\ Filled(Chunks, Delivered)' <=> Filled(Chunks', Delivered')
         /\ Filled(Streams, Numbered)' <=> Filled(Streams', Numbered)
  BY DEF Filled, Places, Value, Numbered

(* Every step keeps the invariant of the first phase.                      *)
LEMMA StepSplit ==
  ASSUME TypeOK, SplitInv, TypeOK', [Next]_vars
  PROVE  SplitInv'
  <1>0. count \in Nat
    BY DEF TypeOK
  <1>1. CASE ReadLine
    <2>1. /\ SplitInv!2!1 /\ Filled(Chunks, Delivered) /\ stream
          /\ phase' = "split" /\ input' = input /\ tmp' = tmp /\ count' = count
          /\ ~stream' => left' = <<>>
      BY <1>1 DEF ReadLine, SplitInv, ChunkHasRoom
    <2>2. Filled(Chunks, Delivered)'
      BY <1>1, <2>1, ReadLineFilled, SameInput
    <2> QED BY <2>1, <2>2 DEF SplitInv
  <1>2. CASE WriteChunk
    <2>1. /\ SplitInv!2!1 /\ (~stream => left = <<>>)
          /\ phase' = "split" /\ input' = input /\ left' = left /\ stream' = stream
          /\ count' = count + 1
      BY <1>2 DEF WriteChunk, SplitInv
    <2>2. Filled(Chunks, Delivered)'
      BY <1>2, <2>1, WriteChunkFilled, SameInput
    <2>3. PICK s \in Sorts(data) : tmp' = Written(Lines(data, s))
      BY <1>2 DEF WriteChunk
    <2>4. Ascending(Lines(data, s)) /\ AsPrinted(Lines(data, s))
      BY SortedLines DEF TypeOK
    <2>5. \A f \in 0 .. count : /\ f \in DOMAIN tmp'
                                /\ tmp'[f] = IF f = count THEN Lines(data, s) ELSE tmp[f]
      BY <1>0, <2>1, <2>3 DEF Written
    <2>6. \A f \in 0 .. count : f \in DOMAIN tmp' /\ Ascending(tmp'[f]) /\ AsPrinted(tmp'[f])
      BY <1>0, <2>1, <2>4, <2>5
    <2> QED BY <1>0, <2>1, <2>2, <2>6 DEF SplitInv, Ascending, AsPrinted
  <1>3. CASE EndSplit
    <2>1. SplitInv!2 /\ ~stream /\ data = <<>>
      BY <1>3 DEF EndSplit, SplitInv
    <2>2. /\ input' = input /\ left' = left /\ stream' = stream /\ data' = data
          /\ count' = count /\ tmp' = tmp
      BY <1>3 DEF EndSplit
    <2>3. Filled(Chunks, Delivered)'
      BY <2>1, <2>2, SameInput DEF Chunks, Delivered, Numbered
    <2> QED BY <2>1, <2>2, <2>3 DEF SplitInv
  <1>4. CASE OpenFiles \/ Merge \/ Finish \/ Fail \/ Kill
    BY <1>4 DEF OpenFiles, Merge, Finish, Fail, Kill, SplitInv
  <1>5. CASE Restart
    <2>1. /\ phase' = "split" /\ left' = input' /\ data' = <<>> /\ count' = 0 /\ stream'
      BY <1>5 DEF Restart
    <2>2. Filled(Chunks, Delivered)'
      <3>1. (TypeOK /\ left = input /\ data = <<>> /\ count = 0)'
        BY <2>1
      <3> QED BY <3>1, StartFilled, PTL
    <2> QED BY <2>1, <2>2 DEF SplitInv
  <1>6. CASE UNCHANGED vars
    <2>1. /\ phase' = phase /\ input' = input /\ left' = left /\ stream' = stream
          /\ data' = data /\ count' = count /\ tmp' = tmp
      BY <1>6 DEF vars
    <2> QED BY <2>1, SameInput DEF SplitInv, Chunks, Delivered, Numbered
  <1> QED BY <1>1, <1>2, <1>3, <1>4, <1>5, <1>6 DEF Next, Work

-----------------------------------------------------------------------------
(* Merging                                                                 *)

(* Opening the files makes a stream of every chunk.                        *)
LEMMA OpenFilesFilled ==
  ASSUME TypeOK, SplitInv, OpenFiles
  PROVE  Filled(Streams', Numbered)
  <1>0. /\ count \in Nat /\ Filled(Chunks, Delivered)
        /\ data = <<>> /\ left = <<>> /\ input \in Seq(Lined)
    BY DEF TypeOK, SplitInv, OpenFiles, Lined
  <1>1. /\ count' = count /\ out' = <<>> /\ files' = [i \in 1 .. count |-> tmp[i - 1]]
    BY DEF OpenFiles
  <1>2. Delivered = Numbered
    <2>1. Len(input) \in Nat /\ DOMAIN input = 1 .. Len(input) /\ Len(left) = 0
      BY <1>0
    <2> QED BY <2>1 DEF Delivered, Numbered
  <1>3. /\ DOMAIN Streams' = 0 .. count /\ DOMAIN Chunks = 0 .. count
        /\ Len(Streams'[0]) = 0 /\ Len(Chunks[count]) = 0
        /\ \A f \in 1 .. count : Streams'[f] = Chunks[f - 1]
        /\ \A f \in 0 .. count - 1 : Streams'[f + 1] = Chunks[f]
    BY <1>0, <1>1 DEF Streams, Chunks
  <1> DEFINE move == [p \in Places(Streams') |-> <<p[1] - 1, p[2]>>]
  <1>4. \A p \in Places(Streams') :
          /\ p = <<p[1], p[2]>> /\ p[1] \in 1 .. count
          /\ p[2] \in 1 .. Len(Chunks[p[1] - 1])
    <2> SUFFICES ASSUME NEW p \in Places(Streams')
                 PROVE  /\ p = <<p[1], p[2]>> /\ p[1] \in 1 .. count
                        /\ p[2] \in 1 .. Len(Chunks[p[1] - 1])
      OBVIOUS
    <2>1. p = <<p[1], p[2]>> /\ p[1] \in 0 .. count /\ p[2] \in 1 .. Len(Streams'[p[1]])
      BY <1>3, PlaceOf
    <2>2. p[1] # 0
      BY <1>3, <2>1
    <2> QED BY <1>0, <1>3, <2>1, <2>2
  <1>5. \A p \in Places(Chunks) :
          /\ p = <<p[1], p[2]>> /\ p[1] \in 0 .. count - 1
          /\ p[2] \in 1 .. Len(Streams'[p[1] + 1])
    <2> SUFFICES ASSUME NEW p \in Places(Chunks)
                 PROVE  /\ p = <<p[1], p[2]>> /\ p[1] \in 0 .. count - 1
                        /\ p[2] \in 1 .. Len(Streams'[p[1] + 1])
      OBVIOUS
    <2>1. p = <<p[1], p[2]>> /\ p[1] \in 0 .. count /\ p[2] \in 1 .. Len(Chunks[p[1]])
      BY <1>3, PlaceOf
    <2>2. p[1] # count
      BY <1>3, <2>1
    <2>3. p[1] \in 0 .. count - 1
      BY <1>0, <2>1, <2>2
    <2> QED BY <1>3, <2>1, <2>3
  <1>6. move \in Bijection(Places(Streams'), Places(Chunks))
    <2>1. move \in [Places(Streams') -> Places(Chunks)]
      <3> SUFFICES ASSUME NEW p \in Places(Streams')
                   PROVE  <<p[1] - 1, p[2]>> \in Places(Chunks)
        OBVIOUS
      <3>1. p[1] - 1 \in DOMAIN Chunks /\ p[2] \in 1 .. Len(Chunks[p[1] - 1])
        BY <1>0, <1>3, <1>4
      <3> QED BY <3>1, PairIsPlace
    <2>2. \A a, b \in Places(Streams') : move[a] = move[b] => a = b
      BY <1>0, <1>4
    <2>3. \A t \in Places(Chunks) : \E a \in Places(Streams') : move[a] = t
      <3> SUFFICES ASSUME NEW t \in Places(Chunks)
                   PROVE  \E a \in Places(Streams') : move[a] = t
        OBVIOUS
      <3>1. t[1] + 1 \in DOMAIN Streams' /\ t[2] \in 1 .. Len(Streams'[t[1] + 1])
        BY <1>0, <1>3, <1>5
      <3>2. <<t[1] + 1, t[2]>> \in Places(Streams')
        BY <3>1, PairIsPlace
      <3>3. ASSUME NEW f \in 0 .. count - 1, NEW j, <<f + 1, j>> \in Places(Streams')
            PROVE  move[<<f + 1, j>>] = <<f, j>>
        BY <1>0, <3>3
      <3>4. t = <<t[1], t[2]>> /\ t[1] \in 0 .. count - 1
        BY <1>5
      <3> HIDE DEF move
      <3> QED BY <3>2, <3>3, <3>4
    <2> HIDE DEF move
    <2> QED BY <2>1, <2>2, <2>3, BijectionIs
  <1>7. \A p \in Places(Streams') :
          Printed(Streams'[p[1]][p[2]]) = Printed(Chunks[move[p][1]][move[p][2]])
    BY <1>3, <1>4
  <1> HIDE DEF move
  <1>8. Filled(Streams', Delivered)
    BY <1>0, <1>6, <1>7, Moved
  <1> QED BY <1>2, <1>8

(* The first number of one sequence goes to the end of another.            *)
LEMMA Handed ==
  ASSUME NEW old, NEW new, NEW lines, Filled(old, lines),
         DOMAIN new = DOMAIN old,
         NEW from \in DOMAIN old, NEW to \in DOMAIN old, from # to,
         Len(old[from]) \in Nat \ {0}, Len(new[from]) = Len(old[from]) - 1,
         \A j \in 1 .. Len(new[from]) : new[from][j] = old[from][j + 1],
         Len(old[to]) \in Nat, Len(new[to]) = Len(old[to]) + 1,
         \A j \in 1 .. Len(old[to]) : new[to][j] = old[to][j],
         Printed(new[to][Len(old[to]) + 1]) = Printed(old[from][1]),
         \A f \in DOMAIN old : f \notin {from, to} => new[f] = old[f]
  PROVE  Filled(new, lines)
  <1> DEFINE move == [p \in Places(new) |->
                        IF p = <<to, Len(old[to]) + 1>> THEN <<from, 1>>
                        ELSE IF p[1] = from THEN <<from, p[2] + 1>> ELSE p]
  <1>1. ASSUME NEW p \in Places(new)
        PROVE  \/ p = <<to, Len(old[to]) + 1>> /\ move[p] = <<from, 1>>
               \/ \E j \in 1 .. Len(new[from]) : p = <<from, j>> /\ move[p] = <<from, j + 1>>
               \/ /\ p[1] \in DOMAIN old /\ p[2] \in 1 .. Len(old[p[1]]) /\ p = <<p[1], p[2]>>
                  /\ p[1] # from /\ p # <<to, Len(old[to]) + 1>> /\ move[p] = p
    <2>1. p = <<p[1], p[2]>> /\ p[1] \in DOMAIN old /\ p[2] \in 1 .. Len(new[p[1]])
      BY PlaceOf
    <2>2. CASE p = <<to, Len(old[to]) + 1>>
      BY <2>2
    <2>3. CASE p # <<to, Len(old[to]) + 1>> /\ p[1] = from
      <3>1. p[2] \in 1 .. Len(new[from]) /\ p = <<from, p[2]>> /\ move[p] = <<from, p[2] + 1>>
        BY <2>1, <2>3
      <3> QED BY <3>1
    <2>4. CASE p # <<to, Len(old[to]) + 1>> /\ p[1] # from
      <3>1. move[p] = p
        BY <2>4
      <3>2. p[2] \in 1 .. Len(old[p[1]])
        <4>1. CASE p[1] = to
          <5>1. p[2] \in 1 .. Len(old[to]) + 1 /\ p[2] # Len(old[to]) + 1
            BY <2>1, <2>4, <4>1
          <5> QED BY <4>1, <5>1
        <4>2. CASE p[1] # to
          BY <2>1, <2>4, <4>2
        <4> QED BY <4>1, <4>2
      <3> HIDE DEF move
      <3> QED BY <2>1, <2>4, <3>1, <3>2
    <2> QED BY <2>2, <2>3, <2>4
  <1>2. move \in [Places(new) -> Places(old)]
    <2>1. DOMAIN move = Places(new) /\ move = [p \in Places(new) |-> move[p]]
      OBVIOUS
    <2> SUFFICES ASSUME NEW p \in Places(new) PROVE move[p] \in Places(old)
      BY <2>1
    <2> HIDE DEF move
    <2>2. CASE move[p] = <<from, 1>>
      <3>1. 1 \in 1 .. Len(old[from])
        OBVIOUS
      <3> QED BY <2>2, <3>1, PairIsPlace
    <2>3. ASSUME NEW j \in 1 .. Len(new[from]), move[p] = <<from, j + 1>>
          PROVE  move[p] \in Places(old)
      <3>1. j + 1 \in 1 .. Len(old[from])
        OBVIOUS
      <3> QED BY <2>3, <3>1, PairIsPlace
    <2>4. CASE /\ p[1] \in DOMAIN old /\ p[2] \in 1 .. Len(old[p[1]]) /\ p = <<p[1], p[2]>>
               /\ move[p] = p
      BY <2>4, PairIsPlace
    <2> QED BY <1>1, <2>2, <2>3, <2>4
  <1>3. ASSUME NEW a \in Places(new), NEW b \in Places(new), move[a] = move[b]
        PROVE  a = b
    <2> HIDE DEF move
    <2>1. CASE move[a] = <<from, 1>>
      <3>1. a = <<to, Len(old[to]) + 1>>
        BY <1>1, <2>1
      <3>2. b = <<to, Len(old[to]) + 1>>
        <4>1. move[b] = <<from, 1>>
          BY <1>3, <2>1
        <4>2. \A j \in 1 .. Len(new[from]) : <<from, j + 1>> # <<from, 1>>
          OBVIOUS
        <4> QED BY <1>1, <4>1, <4>2
      <3> QED BY <3>1, <3>2
    <2>2. ASSUME NEW j \in 1 .. Len(new[from]), a = <<from, j>>, move[a] = <<from, j + 1>>
          PROVE  a = b
      BY <1>1, <1>3, <2>2
    <2>3. CASE move[a] = a /\ a[1] # from
      <3>1. move[b][1] # from
        BY <1>3, <2>3
      <3>2. move[b] = b
        <4>1. <<from, 1>>[1] = from /\ \A j : <<from, j>>[1] = from
          OBVIOUS
        <4> QED BY <1>1, <3>1, <4>1
      <3> QED BY <1>3, <2>3, <3>2
    <2> QED BY <1>1, <2>1, <2>2, <2>3
  <1>4. ASSUME NEW t \in Places(old)
        PROVE  \E a \in Places(new) : move[a] = t
    <2>1. t = <<t[1], t[2]>> /\ t[1] \in DOMAIN old /\ t[2] \in 1 .. Len(old[t[1]])
      BY PlaceOf
    <2>2. CASE t[1] = from /\ t[2] = 1
      <3>1. Len(old[to]) + 1 \in 1 .. Len(new[to])
        OBVIOUS
      <3>2. <<to, Len(old[to]) + 1>> \in Places(new)
        BY <3>1, PairIsPlace
      <3>3. move[<<to, Len(old[to]) + 1>>] = <<from, 1>>
        BY <3>2
      <3> HIDE DEF move
      <3> QED BY <2>1, <2>2, <3>2, <3>3
    <2>3. CASE t[1] = from /\ t[2] # 1
      <3>1. PICK j \in 1 .. Len(new[from]) : t[2] = j + 1
        <4>1. t[2] - 1 \in 1 .. Len(new[from]) /\ t[2] = t[2] - 1 + 1
          BY <2>1, <2>3
        <4> QED BY <4>1
      <3>2. <<from, j>> \in Places(new)
        BY PairIsPlace
      <3>3. move[<<from, j>>] = <<from, j + 1>>
        BY <3>2
      <3> HIDE DEF move
      <3> QED BY <2>1, <2>3, <3>1, <3>2, <3>3
    <2>4. CASE t[1] # from
      <3>1. t[2] \in 1 .. Len(new[t[1]]) /\ t # <<to, Len(old[to]) + 1>>
        <4>1. CASE t[1] = to
          <5>1. t[2] \in 1 .. Len(old[to])
            BY <2>1, <4>1
          <5>2. t[2] \in 1 .. Len(new[to]) /\ t[2] # Len(old[to]) + 1
            BY <5>1
          <5> QED BY <2>1, <4>1, <5>2
        <4>2. CASE t[1] # to
          BY <2>1, <2>4, <4>2
        <4> QED BY <4>1, <4>2
      <3>2. t \in Places(new)
        BY <2>1, <3>1, PairIsPlace
      <3>3. move[t] = t
        BY <2>4, <3>1, <3>2
      <3> HIDE DEF move
      <3> QED BY <3>2, <3>3
    <2> QED BY <2>2, <2>3, <2>4
  <1>5. ASSUME NEW p \in Places(new)
        PROVE  Printed(new[p[1]][p[2]]) = Printed(old[move[p][1]][move[p][2]])
    <2> HIDE DEF move
    <2>1. CASE p = <<to, Len(old[to]) + 1>> /\ move[p] = <<from, 1>>
      BY <2>1
    <2>2. ASSUME NEW j \in 1 .. Len(new[from]), p = <<from, j>>, move[p] = <<from, j + 1>>
          PROVE  Printed(new[p[1]][p[2]]) = Printed(old[move[p][1]][move[p][2]])
      BY <2>2
    <2>3. CASE /\ p[1] \in DOMAIN old /\ p[2] \in 1 .. Len(old[p[1]])
               /\ p[1] # from /\ move[p] = p
      <3>1. new[p[1]][p[2]] = old[p[1]][p[2]]
        <4>1. CASE p[1] = to
          BY <2>3, <4>1
        <4>2. CASE p[1] # to
          BY <2>3, <4>2
        <4> QED BY <4>1, <4>2
      <3> QED BY <2>3, <3>1
    <2> QED BY <1>1, <2>1, <2>2, <2>3
  <1> HIDE DEF move
  <1>6. move \in Bijection(Places(new), Places(old))
    BY <1>2, <1>3, <1>4, BijectionIs
  <1> QED BY <1>5, <1>6, Moved

(* One step of the merge: what it writes is the smallest number left, and  *)
(* goes from the head of its file to the end of the output.                *)
LEMMA MergeStep ==
  ASSUME TypeOK, MergeInv, Merge
  PROVE  /\ Len(files') = count
         /\ \A f \in 1 .. count : Ascending(files'[f]) /\ AsPrinted(files'[f])
         /\ Ascending(out') /\ AsPrinted(out')
         /\ \A k \in DOMAIN out', f \in 1 .. count :
               \A j \in DOMAIN files'[f] : out'[k] <= files'[f][j]
         /\ Filled(Streams', Numbered)
  <1>0. /\ count \in Nat /\ count' = count /\ out \in Seq(Numbers) /\ Len(out) \in Nat
        /\ Len(files) = count /\ files \in Seq(Seq(Numbers)) /\ DOMAIN files = 1 .. count
        /\ \A f \in 1 .. count : Ascending(files[f]) /\ AsPrinted(files[f])
        /\ Ascending(out) /\ AsPrinted(out)
        /\ \A k \in DOMAIN out, f \in 1 .. count :
              \A j \in DOMAIN files[f] : out[k] <= files[f][j]
        /\ Filled(Streams, Numbered)
    BY DEF TypeOK, MergeInv, Merge
  <1>1. PICK i \in has_data : /\ IsSmallest(i)
                              /\ out' = Append(out, Printed(Head(files[i])))
                              /\ files' = [files EXCEPT ![i] = Tail(@)]
    BY DEF Merge
  <1> DEFINE h == files[i][1]
  <1>2. \A f \in 1 .. count : files[f] \in Seq(Numbers) /\ Len(files[f]) \in Nat
                              /\ DOMAIN files[f] = 1 .. Len(files[f])
    <2> SUFFICES ASSUME NEW f \in 1 .. count PROVE files[f] \in Seq(Numbers)
      OBVIOUS
    <2> QED BY <1>0, ElementOfSeq
  <1>3. i \in 1 .. count /\ Len(files[i]) \in Nat \ {0} /\ Head(files[i]) = h /\ h \in Numbers
    <2>1. i \in 1 .. count /\ files[i] # <<>>
      BY <1>0 DEF has_data
    <2> QED BY <1>2, <2>1, HeadTailProperties, EmptySeq
  <1>4. Printed(h) = h
    BY <1>0, <1>2, <1>3 DEF AsPrinted
  <1>5. \A f \in 1 .. count : \A j \in 1 .. Len(files[f]) : h <= files[f][j]
    <2> SUFFICES ASSUME NEW f \in 1 .. count, NEW j \in 1 .. Len(files[f])
                 PROVE  h <= files[f][j]
      OBVIOUS
    <2>1. /\ files[f] \in Seq(Numbers) /\ files[f] # <<>> /\ Head(files[f]) = files[f][1]
          /\ Len(files[f]) \in Nat /\ 1 \in 1 .. Len(files[f])
      BY <1>2
    <2>0. h \in Int /\ files[f][1] \in Int /\ files[f][j] \in Int
      <3>1. files[f][1] \in Numbers /\ files[f][j] \in Numbers
        BY <2>1
      <3> HIDE DEF h
      <3> QED BY <1>3, <3>1
    <2> HIDE DEF h
    <2>2. h <= files[f][1]
      <3>1. f \in has_data
        BY <1>0, <2>1 DEF has_data
      <3>2. h < Head(files[f]) \/ h = Head(files[f])
        BY <1>1, <1>3, <3>1 DEF IsSmallest
      <3> QED BY <2>0, <2>1, <3>2
    <2>3. files[f][1] <= files[f][j]
      <3>1. \A a, b \in 1 .. Len(files[f]) : a < b => files[f][a] <= files[f][b]
        BY <1>0, <1>2 DEF Ascending
      <3>2. j = 1 \/ 1 < j
        BY <2>1
      <3> QED BY <2>0, <2>1, <3>1, <3>2
    <2> QED BY <2>0, <2>2, <2>3
  <1> HIDE DEF h
  <1>6. /\ out' \in Seq(Numbers) /\ Len(out') = Len(out) + 1 /\ DOMAIN out' = 1 .. Len(out) + 1
        /\ out'[Len(out) + 1] = h /\ \A k \in 1 .. Len(out) : out'[k] = out[k]
    BY <1>0, <1>1, <1>3, <1>4, AppendProperties
  <1>7. /\ DOMAIN files' = 1 .. count /\ Len(files') = count
        /\ files'[i] = Tail(files[i])
        /\ \A f \in 1 .. count : f # i => files'[f] = files[f]
    <2>1. files' = [f \in 1 .. count |-> IF f = i THEN Tail(files[i]) ELSE files[f]]
      BY <1>0, <1>1, <1>3
    <2> QED BY <1>0, <1>3, <2>1
  <1>8. /\ files'[i] \in Seq(Numbers) /\ Len(files'[i]) = Len(files[i]) - 1
        /\ DOMAIN files'[i] = 1 .. Len(files[i]) - 1
        /\ \A j \in 1 .. Len(files[i]) - 1 : files'[i][j] = files[i][j + 1]
    <2>1. files[i] \in Seq(Numbers) /\ files[i] # <<>>
      BY <1>2, <1>3
    <2> QED BY <1>7, <2>1, HeadTailProperties
  <1>9. \A f \in 1 .. count : Ascending(files'[f]) /\ AsPrinted(files'[f])
    <2> SUFFICES ASSUME NEW f \in 1 .. count
                 PROVE  Ascending(files'[f]) /\ AsPrinted(files'[f])
      OBVIOUS
    <2>1. CASE f = i
      <3>1. \A j \in 1 .. Len(files[i]) - 1 : j + 1 \in 1 .. Len(files[i])
        BY <1>3
      <3>2. /\ \A a, b \in 1 .. Len(files[i]) : a < b => files[i][a] <= files[i][b]
            /\ \A j \in 1 .. Len(files[i]) : Printed(files[i][j]) = files[i][j]
        BY <1>0, <1>2, <1>3 DEF Ascending, AsPrinted
      <3>3. \A a, b \in 1 .. Len(files[i]) - 1 : a < b => files[i][a + 1] <= files[i][b + 1]
        <4> SUFFICES ASSUME NEW a \in 1 .. Len(files[i]) - 1, NEW b \in 1 .. Len(files[i]) - 1, a < b
                     PROVE  files[i][a + 1] <= files[i][b + 1]
          OBVIOUS
        <4>1. a + 1 \in 1 .. Len(files[i]) /\ b + 1 \in 1 .. Len(files[i]) /\ a + 1 < b + 1
          BY <3>1
        <4> QED BY <3>2, <4>1
      <3>4. Ascending(files'[i])
        BY <1>8, <3>3 DEF Ascending
      <3>5. AsPrinted(files'[i])
        BY <1>8, <3>1, <3>2 DEF AsPrinted
      <3> QED BY <2>1, <3>4, <3>5
    <2>2. CASE f # i
      BY <1>0, <1>7, <2>2
    <2> QED BY <2>1, <2>2
  <1>10. Ascending(out') /\ AsPrinted(out')
    <2>1. \A k \in 1 .. Len(out) : out[k] <= h
      <3>1. 1 \in DOMAIN files[i]
        BY <1>2, <1>3
      <3> QED BY <1>0, <1>3, <3>1 DEF h
    <2>2. /\ \A a, b \in 1 .. Len(out) : a < b => out[a] <= out[b]
          /\ \A k \in 1 .. Len(out) : Printed(out[k]) = out[k]
      BY <1>0 DEF Ascending, AsPrinted
    <2>3. \A k \in 1 .. Len(out) + 1 : k \in 1 .. Len(out) \/ k = Len(out) + 1
      BY <1>0
    <2>4. Ascending(out')
      <3> SUFFICES ASSUME NEW a \in 1 .. Len(out) + 1, NEW b \in 1 .. Len(out) + 1, a < b
                   PROVE  out'[a] <= out'[b]
        BY <1>6 DEF Ascending
      <3>1. a \in 1 .. Len(out)
        BY <1>0
      <3> QED BY <1>6, <2>1, <2>2, <2>3, <3>1
    <2>5. AsPrinted(out')
      BY <1>4, <1>6, <2>2, <2>3 DEF AsPrinted
    <2> QED BY <2>4, <2>5
  <1>11. ASSUME NEW k \in DOMAIN out', NEW f \in 1 .. count, NEW j \in DOMAIN files'[f]
         PROVE  out'[k] <= files'[f][j]
    <2>1. \E n \in 1 .. Len(files[f]) : files'[f][j] = files[f][n]
      <3>1. CASE f = i
        <4>1. j \in 1 .. Len(files[i]) - 1
          BY <1>8, <3>1
        <4>2. files'[f][j] = files[f][j + 1]
          BY <1>8, <3>1, <4>1
        <4>3. j + 1 \in 1 .. Len(files[i])
          BY <1>3, <4>1
        <4> QED BY <3>1, <4>2, <4>3
      <3>2. CASE f # i
        BY <1>2, <1>7, <3>2
      <3> QED BY <3>1, <3>2
    <2>2. CASE k \in 1 .. Len(out)
      <3>1. PICK n \in 1 .. Len(files[f]) : files'[f][j] = files[f][n]
        BY <2>1
      <3>2. k \in DOMAIN out /\ n \in DOMAIN files[f] /\ out'[k] = out[k]
        BY <1>0, <1>2, <1>6, <2>2
      <3> QED BY <1>0, <3>1, <3>2
    <2>3. CASE k = Len(out) + 1
      BY <1>5, <1>6, <2>1, <2>3
    <2> QED BY <1>0, <1>6, <2>2, <2>3
  <1>12. Filled(Streams', Numbered)
    <2>1. /\ DOMAIN Streams = 0 .. count /\ DOMAIN Streams' = 0 .. count
          /\ Streams[0] = out /\ Streams'[0] = out'
          /\ \A f \in 1 .. count : Streams[f] = files[f] /\ Streams'[f] = files'[f]
      BY <1>0 DEF Streams
    <2>2. /\ i \in DOMAIN Streams /\ 0 \in DOMAIN Streams /\ i # 0
          /\ Streams[i] = files[i] /\ Streams'[i] = files'[i]
      BY <1>0, <1>3, <2>1
    <2>3. \A f \in DOMAIN Streams : f \notin {i, 0} => Streams'[f] = Streams[f]
      BY <1>0, <1>7, <2>1
    <2>4. Printed(Streams'[0][Len(Streams[0]) + 1]) = Printed(Streams[i][1])
      BY <1>4, <1>6, <2>1, <2>2 DEF h
    <2>5. /\ Len(Streams[i]) \in Nat \ {0} /\ Len(Streams'[i]) = Len(Streams[i]) - 1
          /\ \A j \in 1 .. Len(Streams'[i]) : Streams'[i][j] = Streams[i][j + 1]
      BY <1>3, <1>8, <2>2
    <2>6. /\ Len(Streams[0]) \in Nat /\ Len(Streams'[0]) = Len(Streams[0]) + 1
          /\ \A j \in 1 .. Len(Streams[0]) : Streams'[0][j] = Streams[0][j]
      BY <1>0, <1>6, <2>1
    <2>7. Filled(Streams, Numbered) /\ DOMAIN Streams' = DOMAIN Streams
      BY <1>0, <2>1
    <2>8. i \in DOMAIN Streams /\ 0 \in DOMAIN Streams /\ i # 0
      BY <2>2
    <2> QED BY <2>3, <2>4, <2>5, <2>6, <2>7, <2>8, Handed, SMTT(90)
  <1> QED BY <1>7, <1>9, <1>10, <1>11, <1>12

(* Every step keeps the invariant of the second phase.                     *)
LEMMA StepMerge ==
  ASSUME TypeOK, SplitInv, MergeInv, [Next]_vars
  PROVE  MergeInv'
  <1>1. CASE OpenFiles
    <2>1. /\ count \in Nat /\ count' = count /\ input' = input /\ phase' = "merge"
          /\ out' = <<>> /\ files' = [i \in 1 .. count |-> tmp[i - 1]]
          /\ \A f \in 0 .. count - 1 : Ascending(tmp[f]) /\ AsPrinted(tmp[f])
      BY <1>1 DEF OpenFiles, TypeOK, SplitInv
    <2>2. Filled(Streams, Numbered)'
      BY <1>1, <2>1, OpenFilesFilled, SameInput
    <2>3. \A f \in 1 .. count : Ascending(files'[f]) /\ AsPrinted(files'[f])
      BY <2>1
    <2>4. Len(files') = count
      BY <2>1
    <2>5. Ascending(out') /\ AsPrinted(out') /\ DOMAIN out' = {}
      BY <2>1 DEF Ascending, AsPrinted
    <2> QED BY <2>1, <2>2, <2>3, <2>4, <2>5 DEF MergeInv, Ascending, AsPrinted
  <1>2. CASE Merge
    <2>1. count' = count /\ input' = input /\ phase' = "merge"
      BY <1>2 DEF Merge
    <2>2. Filled(Streams, Numbered)'
      BY <1>2, <2>1, MergeStep, SameInput
    <2> QED BY <1>2, <2>1, <2>2, MergeStep DEF MergeInv, Ascending, AsPrinted
  <1>3. CASE Finish
    <2>1. /\ MergeInv!2 /\ has_data = {} /\ input' = input /\ count' = count
          /\ files' = files /\ out' = out
      BY <1>3 DEF Finish, MergeInv
    <2>2. Filled(Streams, Numbered)'
      BY <2>1, SameInput DEF Streams
    <2>3. has_data' = {}
      BY <2>1 DEF has_data
    <2> QED BY <2>1, <2>2, <2>3 DEF MergeInv, Ascending, AsPrinted
  <1>4. CASE ReadLine \/ WriteChunk \/ EndSplit \/ Fail \/ Kill \/ Restart
    BY <1>4 DEF ReadLine, WriteChunk, EndSplit, Fail, Kill, Restart, MergeInv
  <1>5. CASE UNCHANGED vars
    <2>1. /\ phase' = phase /\ input' = input /\ count' = count
          /\ files' = files /\ out' = out
      BY <1>5 DEF vars
    <2>2. Filled(Streams, Numbered)' <=> Filled(Streams, Numbered)
      BY <2>1, SameInput DEF Streams
    <2> QED BY <2>1, <2>2 DEF MergeInv, Ascending, AsPrinted, has_data
  <1> QED BY <1>1, <1>2, <1>3, <1>4, <1>5 DEF Next, Work

-----------------------------------------------------------------------------
(* What the program promises                                               *)

(* Where each line of the input is, at every moment.                       *)
THEOREM Invariance == Spec => []IInv
  <1>1. ASSUME Init PROVE IInv
    <2>1. TypeOK
      BY <1>1, InitTypes
    <2>2. Filled(Chunks, Delivered)
      BY <1>1, <2>1, StartFilled DEF Init
    <2>3. phase = "split" /\ count = 0 /\ stream
      BY <1>1 DEF Init
    <2> QED BY <2>1, <2>2, <2>3 DEF IInv, SplitInv, MergeInv
  <1>2. ASSUME IInv, [Next]_vars PROVE IInv'
    BY <1>2, StepTypes, StepSplit, StepMerge DEF IInv
  <1> QED BY <1>1, <1>2, PTL DEF Spec

(* The chunk in memory never exceeds its size by more than the one number  *)
(* of the loop's "<=", and every file read back is one that was written.   *)
THEOREM TypeCorrect == Spec => []TypeOK
  <1>1. IInv => TypeOK
    BY DEF IInv
  <1> QED BY <1>1, Invariance, PTL

(* The output is an ordered part of the input at every moment of the merge,*)
(* whatever the chunks were and whatever was in the directory: the places  *)
(* of the output give the injection, the others hold the numbers to come.  *)
THEOREM OutputSorted == Spec => []OutputIsSorted
  <1>1. ASSUME IInv PROVE OutputIsSorted
    <2> SUFFICES ASSUME phase \in {"merge", "done"}
                 PROVE  OutputIsSorted!2
      BY DEF OutputIsSorted
    <2>0. /\ count \in Nat /\ out \in Seq(Numbers) /\ Len(out) \in Nat /\ DOMAIN out = 1 .. Len(out)
          /\ Ascending(out) /\ AsPrinted(out) /\ Filled(Streams, Numbered)
          /\ \A f \in 1 .. count : AsPrinted(files[f]) /\ DOMAIN files[f] = 1 .. Len(files[f])
          /\ \A k \in DOMAIN out, f \in 1 .. count :
                \A j \in DOMAIN files[f] : out[k] <= files[f][j]
      <3>1. files \in Seq(Seq(Numbers)) /\ Len(files) = count
        BY <1>1 DEF IInv, TypeOK, MergeInv
      <3>2. \A f \in 1 .. count : files[f] \in Seq(Numbers)
        BY <3>1, ElementOfSeq
      <3> QED BY <1>1, <3>2 DEF IInv, TypeOK, MergeInv
    <2>1. PICK line \in Bijection(Places(Streams), Numbered) :
            \A p \in Places(Streams) : Printed(Streams[p[1]][p[2]]) = Value(line[p])
      BY <2>0 DEF Filled
    <2>2. /\ DOMAIN Streams = 0 .. count /\ Streams[0] = out
          /\ \A f \in 1 .. count : Streams[f] = files[f]
      BY <2>0 DEF Streams
    <2>3. \A k \in DOMAIN out : <<0, k>> \in Places(Streams)
      <3>1. 0 \in DOMAIN Streams
        BY <2>0, <2>2
      <3> QED BY <2>0, <2>2, <3>1, PairIsPlace
    <2>4. /\ line \in [Places(Streams) -> Numbered]
          /\ \A a, b \in Places(Streams) : line[a] = line[b] => a = b
          /\ \A i \in Numbered : \E a \in Places(Streams) : line[a] = i
      BY BijectionIs
    <2> DEFINE written == [k \in DOMAIN out |-> line[<<0, k>>]]
    <2>5. written \in Injection(DOMAIN out, Numbered)
      <3>1. written \in [DOMAIN out -> Numbered]
        BY <2>3, <2>4
      <3>2. ASSUME NEW a \in DOMAIN out, NEW b \in DOMAIN out, written[a] = written[b]
            PROVE  a = b
        <4>1. <<0, a>> = <<0, b>>
          BY <2>3, <2>4, <3>2
        <4> QED BY <4>1
      <3> HIDE DEF written
      <3> QED BY <3>1, <3>2 DEF Injection, IsInjective
    <2>6. \A k \in DOMAIN out : out[k] = Value(written[k])
      <3> SUFFICES ASSUME NEW k \in DOMAIN out PROVE out[k] = Value(line[<<0, k>>])
        OBVIOUS
      <3>1. Printed(Streams[<<0, k>>[1]][<<0, k>>[2]]) = Value(line[<<0, k>>])
        BY <2>1, <2>3
      <3> QED BY <2>0, <2>2, <3>1 DEF AsPrinted
    <2>7. ASSUME NEW k \in DOMAIN out, NEW i \in Numbered \ Range(written)
          PROVE  out[k] <= Value(i)
      <3>1. PICK p \in Places(Streams) : line[p] = i
        BY <2>4
      <3>2. p = <<p[1], p[2]>> /\ p[1] \in 0 .. count /\ p[2] \in 1 .. Len(Streams[p[1]])
        BY <2>2, PlaceOf
      <3>3. p[1] # 0
        <4> SUFFICES ASSUME p[1] = 0 PROVE FALSE
          OBVIOUS
        <4>1. p[2] \in DOMAIN out /\ written[p[2]] = i
          BY <2>0, <2>2, <3>1, <3>2
        <4> HIDE DEF written
        <4>2. DOMAIN written = DOMAIN out
          BY DEF written
        <4> QED BY <4>1, <4>2 DEF Range
      <3>4. p[1] \in 1 .. count /\ p[2] \in DOMAIN files[p[1]]
        BY <2>0, <2>2, <3>2, <3>3
      <3>5. Value(i) = files[p[1]][p[2]]
        BY <2>0, <2>1, <2>2, <3>1, <3>4 DEF AsPrinted
      <3> QED BY <2>0, <3>4, <3>5
    <2> HIDE DEF written
    <2> QED BY <2>0, <2>5, <2>6, <2>7
  <1> QED BY <1>1, Invariance, PTL

(* No line is lost or written twice: when the merge has ended, the output  *)
(* has all the places there are.                                           *)
THEOREM OutputComplete == Spec => []OutputIsComplete
  <1>1. ASSUME IInv PROVE OutputIsComplete
    <2> SUFFICES ASSUME phase = "done"
                 PROVE  OutputIsComplete!2
      BY DEF OutputIsComplete
    <2>0. /\ count \in Nat /\ out \in Seq(Numbers) /\ Len(out) \in Nat /\ DOMAIN out = 1 .. Len(out)
          /\ AsPrinted(out) /\ Filled(Streams, Numbered)
          /\ \A f \in 1 .. count : files[f] = <<>>
      <3>1. /\ files \in Seq(Seq(Numbers)) /\ Len(files) = count /\ count \in Nat
            /\ has_data = {} /\ out \in Seq(Numbers) /\ AsPrinted(out)
            /\ Filled(Streams, Numbered)
        BY <1>1 DEF IInv, TypeOK, MergeInv
      <3>2. DOMAIN files = 1 .. count
        BY <3>1
      <3>3. \A f \in 1 .. count : files[f] = <<>>
        BY <3>1, <3>2 DEF has_data
      <3> QED BY <3>1, <3>3
    <2>1. PICK line \in Bijection(Places(Streams), Numbered) :
            \A p \in Places(Streams) : Printed(Streams[p[1]][p[2]]) = Value(line[p])
      BY <2>0 DEF Filled
    <2>2. /\ DOMAIN Streams = 0 .. count /\ Streams[0] = out
          /\ \A f \in 1 .. count : Len(Streams[f]) = 0
      BY <2>0 DEF Streams
    <2>3. \A k \in DOMAIN out : <<0, k>> \in Places(Streams)
      <3>1. 0 \in DOMAIN Streams
        BY <2>0, <2>2
      <3> QED BY <2>0, <2>2, <3>1, PairIsPlace
    <2>4. \A p \in Places(Streams) : p = <<0, p[2]>> /\ p[2] \in DOMAIN out
      <3> SUFFICES ASSUME NEW p \in Places(Streams)
                   PROVE  p = <<0, p[2]>> /\ p[2] \in DOMAIN out
        OBVIOUS
      <3>1. p = <<p[1], p[2]>> /\ p[1] \in 0 .. count /\ p[2] \in 1 .. Len(Streams[p[1]])
        BY <2>2, PlaceOf
      <3>2. p[1] = 0
        BY <2>0, <2>2, <3>1
      <3> QED BY <2>0, <2>2, <3>1, <3>2
    <2>5. /\ line \in [Places(Streams) -> Numbered]
          /\ \A a, b \in Places(Streams) : line[a] = line[b] => a = b
          /\ \A i \in Numbered : \E a \in Places(Streams) : line[a] = i
      BY BijectionIs
    <2> DEFINE written == [k \in DOMAIN out |-> line[<<0, k>>]]
    <2>6. written \in Bijection(DOMAIN out, Numbered)
      <3>1. written \in [DOMAIN out -> Numbered]
        BY <2>3, <2>5
      <3>2. ASSUME NEW a \in DOMAIN out, NEW b \in DOMAIN out, written[a] = written[b]
            PROVE  a = b
        <4>1. <<0, a>> = <<0, b>>
          BY <2>3, <2>5, <3>2
        <4> QED BY <4>1
      <3>3. ASSUME NEW i \in Numbered
            PROVE  \E k \in DOMAIN out : written[k] = i
        BY <2>4, <2>5
      <3> HIDE DEF written
      <3> QED BY <3>1, <3>2, <3>3, BijectionIs
    <2>7. \A k \in DOMAIN out : out[k] = Value(written[k])
      <3> SUFFICES ASSUME NEW k \in DOMAIN out PROVE out[k] = Value(line[<<0, k>>])
        OBVIOUS
      <3>1. Printed(Streams[<<0, k>>[1]][<<0, k>>[2]]) = Value(line[<<0, k>>])
        BY <2>1, <2>3
      <3> QED BY <2>0, <2>2, <3>1 DEF AsPrinted
    <2> HIDE DEF written
    <2> QED BY <2>6, <2>7
  <1> QED BY <1>1, Invariance, PTL

=============================================================================
