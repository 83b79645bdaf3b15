----------------------------- MODULE ListLemmas -----------------------------
(***************************************************************************)
(* Facts about numbers and sequences that several proofs rest on: the      *)
(* least of a set of numbers, induction and recursion up to a number, and  *)
(* what finding and removing an element makes of a sequence.  Induction is *)
(* stated with sets, where the library has an operator as a parameter.     *)
(***************************************************************************)
EXTENDS Integers, Sequences, SequencesExt, SequenceTheorems, WellFoundedInduction, TLAPS

-----------------------------------------------------------------------------
(* Least elements, induction and recursion.                                *)

LEMMA HasLeast ==
  ASSUME NEW S \in SUBSET Nat, S # {}
  PROVE  \E x \in S : \A y \in S : x <= y
<1> DEFINE R == {p \in Nat \X Nat : p[1] < p[2]}
<1>1. OpToRel(<, Nat) = R
  BY Zenon DEF OpToRel
<1>2. IsWellFoundedOn(R, Nat)
  BY <1>1, NatLessThanWellFounded, Zenon
<1>3. \A x, y \in Nat : <<y, x>> \in R <=> y < x
  OBVIOUS
<1> HIDE DEF R
<1>4. PICK x \in S : \A y \in S : <<y, x>> \notin R
  BY <1>2, WFMin, Zenon
<1>5. ASSUME NEW y \in S
      PROVE  x <= y
  <2>1. x \in Nat /\ y \in Nat
    OBVIOUS
  <2>2. ~(y < x)
    BY <1>3, <1>4, <2>1, Zenon
  <2> QED
    BY <2>1, <2>2
<1> QED
  BY <1>5

LEMMA MinIsLeast ==
  ASSUME NEW S \in SUBSET Nat, S # {}
  PROVE  Min(S) \in S /\ \A y \in S : Min(S) <= y
BY HasLeast, Zenon DEF Min

LEMMA Induction ==
  ASSUME NEW N \in Nat, NEW T, 0 \in T,
         \A i \in 1 .. N : i - 1 \in T => i \in T
  PROVE  \A i \in 0 .. N : i \in T
<1> SUFFICES ASSUME NEW k \in 0 .. N, k \notin T
             PROVE  FALSE
  OBVIOUS
<1> DEFINE Out == {i \in Nat : i <= N /\ i \notin T}
<1>1. k \in Out
  OBVIOUS
<1>2. PICK x \in Out : \A y \in Out : x <= y
  <2> Out \in SUBSET Nat /\ Out # {}
    BY <1>1
  <2> HIDE DEF Out
  <2> QED
    BY HasLeast
<1>3. x \in 1 .. N /\ x \notin T
  OBVIOUS
<1>4. x - 1 \notin Out
  BY <1>2, <1>3
<1>5. x - 1 \in T
  BY <1>3, <1>4
<1> QED
  BY <1>3, <1>5

(* f goes from s through the numbers up to N by G, and stays in S.         *)
Iterates(f, S, s, N, G) ==
  f \in [0 .. N -> S] /\ f[0] = s /\ \A i \in 1 .. N : f[i] = G[<<f[i - 1], i>>]

(* A recursion that stays in S has a solution.                             *)
LEMMA Recursion ==
  ASSUME NEW S, NEW s \in S, NEW N \in Nat, NEW G \in [S \X (1 .. N) -> S]
  PROVE  \E f : Iterates(f, S, s, N, G)
<1> DEFINE Solves(f, n) == /\ f \in [0 .. n -> S] /\ f[0] = s
                           /\ \A i \in 1 .. n : f[i] = G[<<f[i - 1], i>>]
           T == {n \in 0 .. N : \E f : Solves(f, n)}
<1>1. 0 \in T
  <2>1. Solves([i \in 0 .. 0 |-> s], 0)
    OBVIOUS
  <2> HIDE DEF Solves
  <2>2. \E f : Solves(f, 0)
    BY <2>1, Zenon
  <2> QED
    BY <2>2
<1>2. ASSUME NEW n \in 1 .. N, n - 1 \in T
      PROVE  n \in T
  <2>1. PICK f : Solves(f, n - 1)
    BY <1>2
  <2> DEFINE g == [i \in 0 .. n |-> IF i = n THEN G[<<f[n - 1], n>>] ELSE f[i]]
  <2>2. f[n - 1] \in S /\ <<f[n - 1], n>> \in S \X (1 .. N)
    BY <2>1
  <2>3. G[<<f[n - 1], n>>] \in S
    BY <2>2
  <2>4. g \in [0 .. n -> S] /\ g[0] = s
    BY <2>1, <2>3
  <2>5. ASSUME NEW i \in 1 .. n
        PROVE  g[i] = G[<<g[i - 1], i>>]
    <3>1. g[i - 1] = f[i - 1]
      OBVIOUS
    <3>2. CASE i = n
      <4>1. g[n] = G[<<f[n - 1], n>>]
        OBVIOUS
      <4> QED
        BY <3>1, <3>2, <4>1
    <3>3. CASE i # n
      <4>1. i \in 1 .. n - 1 /\ g[i] = f[i]
        BY <3>3
      <4>2. f[i] = G[<<f[i - 1], i>>]
        BY <2>1, <4>1
      <4> QED
        BY <3>1, <4>1, <4>2
    <3> QED
      BY <3>2, <3>3
  <2>6. Solves(g, n)
    BY <2>4, <2>5
  <2> HIDE DEF Solves, g
  <2>7. \E h : Solves(h, n)
    BY <2>6
  <2> QED
    BY <2>7
<1> HIDE DEF T
<1>3. N \in T
  BY <1>1, <1>2, Induction
<1>4. PICK f : Solves(f, N)
  BY <1>3 DEF T
<1>5. Iterates(f, S, s, N, G)
  BY <1>4 DEF Iterates
<1> QED
  BY <1>5, Zenon
-----------------------------------------------------------------------------
(* Sequences.                                                              *)

LEMMA Removed ==
  ASSUME NEW S, NEW s \in Seq(S), NEW i \in 1 .. Len(s)
  PROVE  LET t == RemoveAt(s, i)
         IN  /\ t \in Seq(S) /\ Len(t) = Len(s) - 1
             /\ \A j \in 1 .. Len(t) : t[j] = IF j < i THEN s[j] ELSE s[j + 1]
<1> DEFINE a == SubSeq(s, 1, i - 1)
           b == SubSeq(s, i + 1, Len(s))
<1>1. Len(s) \in Nat /\ \A k \in 1 .. Len(s) : s[k] \in S
  BY ElementOfSeq, LenProperties
<1>2. a \in Seq(S) /\ Len(a) = i - 1 /\ \A k \in 1 .. i - 1 : a[k] = s[k]
  <2>1. \A k \in 1 .. i - 1 : s[k] \in S
    BY <1>1
  <2>2. 1 \in Int /\ i - 1 \in Int
    OBVIOUS
  <2> QED
    BY <2>1, <2>2, SubSeqProperties
<1>3. b \in Seq(S) /\ Len(b) = Len(s) - i /\ \A k \in 1 .. Len(s) - i : b[k] = s[i + k]
  <2>1. \A k \in i + 1 .. Len(s) : s[k] \in S
    BY <1>1
  <2>2. Len(s) \in Int /\ i + 1 \in Int
    BY <1>1
  <2>3. /\ b \in Seq(S) /\ Len(b) = IF i + 1 <= Len(s) THEN Len(s) - (i + 1) + 1 ELSE 0
        /\ \A k \in 1 .. Len(s) - (i + 1) + 1 : b[k] = s[(i + 1) + k - 1]
    BY <2>1, <2>2, SubSeqProperties
  <2> QED
    BY <1>1, <2>3
<1> HIDE DEF a, b
<1>4. /\ a \o b \in Seq(S) /\ Len(a \o b) = Len(a) + Len(b)
      /\ \A k \in 1 .. Len(a) + Len(b) :
           (a \o b)[k] = IF k <= Len(a) THEN a[k] ELSE b[k - Len(a)]
  BY <1>2, <1>3, ConcatProperties
<1>5. RemoveAt(s, i) = a \o b
  BY DEF RemoveAt, a, b
<1>6. Len(a \o b) = Len(s) - 1
  BY <1>1, <1>2, <1>3, <1>4
<1>7. ASSUME NEW j \in 1 .. Len(s) - 1
      PROVE  (a \o b)[j] = IF j < i THEN s[j] ELSE s[j + 1]
  <2>1. CASE j < i
    BY <1>1, <1>2, <1>3, <1>4, <2>1
  <2>2. CASE ~(j < i)
    <3>1. j - (i - 1) \in 1 .. Len(s) - i /\ ~(j <= i - 1) /\ i + (j - (i - 1)) = j + 1
      BY <1>1, <2>2
    <3>2. j \in 1 .. Len(a) + Len(b) /\ ~(j <= Len(a)) /\ j - Len(a) = j - (i - 1)
      BY <1>1, <1>2, <1>3, <3>1
    <3>3. (a \o b)[j] = IF j <= Len(a) THEN a[j] ELSE b[j - Len(a)]
      BY <1>4, <3>2, Zenon
    <3>4. (a \o b)[j] = b[j - (i - 1)]
      BY <3>2, <3>3, Zenon
    <3>5. b[j - (i - 1)] = s[j + 1]
      BY <1>3, <3>1
    <3> QED
      BY <2>2, <3>4, <3>5
  <2> QED
    BY <2>1, <2>2
<1> QED
  BY <1>4, <1>5, <1>6, <1>7

(* One occurrence of e is removed, and of nothing else.                    *)
LEMMA FirstRemoved ==
  ASSUME NEW S, NEW s \in Seq(S), NEW e
  PROVE  LET t == RemoveFirst(s, e)
         IN  /\ t \in Seq(S) /\ Len(t) <= Len(s)
             /\ \A j \in 1 .. Len(s) : s[j] # e => \E k \in 1 .. Len(t) : t[k] = s[j]
<1> DEFINE I == {i \in 1 .. Len(s) : s[i] = e}
<1>1. Len(s) \in Nat
  BY LenProperties
<1>2. CASE I = {}
  <2>1. RemoveFirst(s, e) = s
    BY <1>2 DEF RemoveFirst
  <2> QED
    BY <1>1, <2>1
<1>3. CASE I # {}
  <2> DEFINE i == Min(I)
             t == RemoveAt(s, i)
  <2>1. i \in I
    <3>1. I \in SUBSET Nat
      BY <1>1
    <3> HIDE DEF I
    <3> QED
      BY <1>3, <3>1, MinIsLeast
  <2>2. RemoveFirst(s, e) = t
    BY <1>3, Zenon DEF RemoveFirst, SelectInSeq
  <2>3. i \in 1 .. Len(s) /\ s[i] = e
    BY <2>1
  <2> HIDE DEF i
  <2>4. /\ t \in Seq(S) /\ Len(t) = Len(s) - 1
        /\ \A j \in 1 .. Len(t) : t[j] = IF j < i THEN s[j] ELSE s[j + 1]
    BY <2>3, Removed
  <2> HIDE DEF t
  <2>5. ASSUME NEW j \in 1 .. Len(s), s[j] # e
        PROVE  \E k \in 1 .. Len(t) : t[k] = s[j]
    <3>1. CASE j < i
      <4>1. j \in 1 .. Len(t) /\ t[j] = s[j]
        BY <1>1, <2>3, <2>4, <3>1
      <4> QED
        BY <4>1
    <3>2. CASE j > i
      <4>1. j - 1 \in 1 .. Len(t) /\ t[j - 1] = s[j]
        BY <1>1, <2>3, <2>4, <3>2
      <4> QED
        BY <4>1
    <3> QED
      BY <2>3, <2>5, <3>1, <3>2
  <2> QED
    BY <1>1, <2>2, <2>4, <2>5
<1> QED
  BY <1>2, <1>3
=============================================================================
