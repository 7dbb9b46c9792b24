--------------------------- MODULE SequenceFacts ---------------------------
(* Facts about the operators that the models find and change places of     *)
(* sequences with, used by the proofs of several components: Min and Max   *)
(* are members and bounds, what RemoveAt and InsertAt return, and which    *)
(* elements FlattenSeq collects.                                           *)
EXTENDS Integers, SequencesExt, SequenceTheorems, WellFoundedInduction, TLAPS

(* A set of natural numbers that is not empty has a least one: what a      *)
(* search from the front, as that for the begin marker, finds.             *)
LEMMA LeastNatural ==
    ASSUME NEW S \in SUBSET Nat, S # {}
    PROVE  \E x \in S : \A y \in S : x <= y
  <1> DEFINE R == OpToRel(<, Nat)
  <1>1. IsWellFoundedOn(R, Nat)
    BY NatLessThanWellFounded
  <1>2. \A x, y \in Nat : x < y => <<x, y>> \in R
    BY DEF OpToRel
  <1> HIDE DEF R
  <1>3. PICK x \in S : \A y \in S : ~(<<y, x>> \in R)
    BY <1>1, WFMin
  <1>4. \A y \in S : ~(y < x)
    BY <1>2, <1>3, Zenon
  <1>5. \A y \in S : x <= y
    BY <1>4
  <1> QED
    BY <1>5

(* Min is a member and a lower bound. *)
LEMMA MinFacts ==
    ASSUME NEW S \in SUBSET Nat, S # {}
    PROVE  Min(S) \in S /\ \A y \in S : Min(S) <= y
  BY LeastNatural DEF Min

(* Max is a member and an upper bound, where there is a bound. *)
LEMMA MaxFacts ==
    ASSUME NEW n \in Nat, NEW S \in SUBSET (0..n), S # {}
    PROVE  Max(S) \in S /\ \A y \in S : y <= Max(S)
  <1> DEFINE D == {n - x : x \in S}
  <1>1. D \in SUBSET Nat
    OBVIOUS
  <1>2. D # {}
    <2>1. PICK x \in S : TRUE
      OBVIOUS
    <2>2. n - x \in D
      BY <2>1
    <2> QED
      BY <2>2
  <1>3. PICK m \in D : \A y \in D : m <= y
    <2> HIDE DEF D
    <2> QED
      BY <1>1, <1>2, LeastNatural
  <1>4. \E x \in S : \A y \in S : y <= x
    <2>1. PICK x \in S : m = n - x
      BY <1>3
    <2>2. \A y \in S : n - x <= n - y
      BY <1>3, <2>1
    <2> QED
      BY <2>1, <2>2
  <1> QED
    BY <1>4 DEF Max

(* RemoveAt shifts the entries behind the index by one. *)
LEMMA RemoveAtFacts ==
    ASSUME NEW S, NEW s \in Seq(S), NEW p \in 1..Len(s)
    PROVE  /\ RemoveAt(s, p) \in Seq(S)
           /\ Len(RemoveAt(s, p)) = Len(s) - 1
           /\ \A i \in 1..(Len(s) - 1) :
                 RemoveAt(s, p)[i] = IF i < p THEN s[i] ELSE s[i + 1]
  <1> DEFINE front == SubSeq(s, 1, p - 1)
             back  == SubSeq(s, p + 1, Len(s))
  <1>1. /\ front \in Seq(S) /\ Len(front) = p - 1
        /\ \A i \in 1..(p - 1) : front[i] = s[i]
    BY SubSeqProperties
  <1>2. /\ back \in Seq(S) /\ Len(back) = Len(s) - p
        /\ \A i \in 1..(Len(s) - p) : back[i] = s[p + i]
    BY SubSeqProperties
  <1> HIDE DEF front, back
  <1> DEFINE r == front \o back
  <1>3. /\ r \in Seq(S) /\ Len(r) = Len(front) + Len(back)
        /\ \A i \in 1..(Len(front) + Len(back)) :
              r[i] = IF i <= Len(front) THEN front[i] ELSE back[i - Len(front)]
    BY <1>1, <1>2, ConcatProperties
  <1> HIDE DEF r
  <1>4. ASSUME NEW i \in 1..(Len(s) - 1)
        PROVE  r[i] = IF i < p THEN s[i] ELSE s[i + 1]
    <2>0. /\ Len(s) \in Nat /\ i \in Int /\ p \in Int
          /\ i \in 1..(Len(front) + Len(back))
      BY <1>1, <1>2
    <2>1. r[i] = IF i <= Len(front) THEN front[i] ELSE back[i - Len(front)]
      BY <2>0, <1>3
    <2>2. CASE i < p
      <3>1. i <= Len(front) /\ i \in 1..(p - 1)
        BY <2>0, <2>2, <1>1
      <3> QED
        BY <3>1, <2>1, <2>2, <1>1
    <2>3. CASE ~(i < p)
      <3>1. /\ ~(i <= Len(front)) /\ i - Len(front) \in 1..(Len(s) - p)
            /\ p + (i - Len(front)) = i + 1
        BY <2>0, <2>3, <1>1
      <3> QED
        BY <3>1, <2>1, <2>3, <1>2
    <2> QED
      BY <2>2, <2>3
  <1>5. Len(r) = Len(s) - 1
    BY <1>1, <1>2, <1>3
  <1> QED
    BY <1>3, <1>4, <1>5 DEF RemoveAt, r, front, back

(* InsertAt moves the elements from its position on by one. *)
LEMMA InsertAtFacts ==
    ASSUME NEW S, NEW s \in Seq(S), NEW p \in 1..(Len(s) + 1), NEW e \in S
    PROVE  /\ InsertAt(s, p, e) \in Seq(S)
           /\ Len(InsertAt(s, p, e)) = Len(s) + 1
           /\ \A i \in 1..(Len(s) + 1) :
                 InsertAt(s, p, e)[i] = IF i < p THEN s[i] ELSE IF i = p THEN e ELSE s[i - 1]
  <1> DEFINE front == SubSeq(s, 1, p - 1)
             back  == SubSeq(s, p, Len(s))
             r == front \o <<e>>
             t == r \o back
  <1>1. /\ front \in Seq(S) /\ Len(front) = p - 1
        /\ \A i \in 1..(p - 1) : front[i] = s[i]
    BY SubSeqProperties
  <1>2. /\ back \in Seq(S) /\ Len(back) = Len(s) - p + 1
        /\ \A i \in 1..(Len(s) - p + 1) : back[i] = s[p + i - 1]
    BY SubSeqProperties
  <1> HIDE DEF front, back
  <1>3. <<e>> \in Seq(S) /\ Len(<<e>>) = 1 /\ <<e>>[1] = e
    OBVIOUS
  <1>4. /\ r \in Seq(S) /\ Len(r) = p
        /\ \A i \in 1..p : r[i] = IF i < p THEN s[i] ELSE e
    <2>1. /\ r \in Seq(S) /\ Len(r) = Len(front) + Len(<<e>>)
          /\ \A i \in 1..(Len(front) + Len(<<e>>)) :
                r[i] = IF i <= Len(front) THEN front[i] ELSE <<e>>[i - Len(front)]
      BY <1>1, <1>3, ConcatProperties
    <2> HIDE DEF r
    <2>2. Len(r) = p
      BY <1>1, <1>3, <2>1
    <2>3. ASSUME NEW i \in 1..p PROVE r[i] = IF i < p THEN s[i] ELSE e
      BY <1>1, <1>3, <2>1
    <2> QED
      BY <2>1, <2>2, <2>3
  <1> HIDE DEF r
  <1>5. /\ t \in Seq(S) /\ Len(t) = Len(r) + Len(back)
        /\ \A i \in 1..(Len(r) + Len(back)) :
              t[i] = IF i <= Len(r) THEN r[i] ELSE back[i - Len(r)]
    BY <1>2, <1>4, ConcatProperties
  <1> HIDE DEF t
  <1>6. Len(s) \in Nat /\ p \in Nat /\ Len(r) + Len(back) = Len(s) + 1
    BY <1>2, <1>4
  <1>7. ASSUME NEW i \in 1..(Len(s) + 1)
        PROVE  t[i] = IF i < p THEN s[i] ELSE IF i = p THEN e ELSE s[i - 1]
    <2>1. CASE i <= p
      BY <1>4, <1>5, <1>6, <2>1
    <2>2. CASE i > p
      <3>1. t[i] = back[i - p]
        BY <1>4, <1>5, <1>6, <2>2
      <3>2. i - p \in 1..(Len(s) - p + 1) /\ p + (i - p) - 1 = i - 1
        BY <1>6, <2>2
      <3> QED
        BY <1>2, <1>6, <2>2, <3>1, <3>2
    <2> QED
      BY <1>6, <2>1, <2>2
  <1>8. t = InsertAt(s, p, e)
    BY DEF t, r, front, back, InsertAt
  <1> QED
    BY <1>5, <1>6, <1>7, <1>8

-----------------------------------------------------------------------------
(* FlattenSeq, which the addresses of a name's entries are read with, is   *)
(* defined by a recursive function.  The provers take no induction rule,   *)
(* so each fact about it is shown of the least index that would refute it. *)

(* g is that function on the first k lists. *)
Flattens(seqs, k, g) ==
    g = [i \in 1..k |-> IF i = 1 THEN seqs[i] ELSE g[i - 1] \o seqs[i]]

(* The equation of Flattens, applied. *)
LEMMA FlattensAt ==
    ASSUME NEW seqs, NEW k \in Nat, NEW g, Flattens(seqs, k, g), NEW i \in 1..k
    PROVE  g[i] = IF i = 1 THEN seqs[i] ELSE g[i - 1] \o seqs[i]
  <1> DEFINE h == [j \in 1..k |-> IF j = 1 THEN seqs[j] ELSE g[j - 1] \o seqs[j]]
  <1>1. g = h
    BY DEF Flattens
  <1>2. h[i] = IF i = 1 THEN seqs[i] ELSE g[i - 1] \o seqs[i]
    OBVIOUS
  <1> QED
    BY <1>1, <1>2, Zenon

(* The recursion has a solution for any number of lists. *)
LEMMA FlattensExists ==
    ASSUME NEW seqs, NEW n \in Nat
    PROVE  \E g : Flattens(seqs, n, g)
  <1> DEFINE Bad == {k \in Nat : ~\E g : Flattens(seqs, k, g)}
  <1>1. ASSUME NEW k \in Nat, NEW g, Flattens(seqs, k, g)
        PROVE  \E h : Flattens(seqs, k + 1, h)
    <2> DEFINE h == [i \in 1..(k + 1) |->
                        IF i <= k THEN g[i]
                        ELSE IF i = 1 THEN seqs[i] ELSE g[i - 1] \o seqs[i]]
               step == [i \in 1..(k + 1) |-> IF i = 1 THEN seqs[i] ELSE h[i - 1] \o seqs[i]]
    <2>1. ASSUME NEW i \in 1..(k + 1) PROVE h[i] = step[i]
      <3>1. step[i] = IF i = 1 THEN seqs[i] ELSE h[i - 1] \o seqs[i]
        OBVIOUS
      <3>2. h[i] = IF i <= k THEN g[i] ELSE IF i = 1 THEN seqs[i] ELSE g[i - 1] \o seqs[i]
        OBVIOUS
      <3>3. i # 1 => h[i - 1] = g[i - 1]
        <4> HAVE i # 1
        <4>1. i - 1 \in 1..(k + 1) /\ i - 1 <= k
          OBVIOUS
        <4> QED
          BY <4>1
      <3>4. i <= k => g[i] = IF i = 1 THEN seqs[i] ELSE g[i - 1] \o seqs[i]
        <4> HAVE i <= k
        <4>1. i \in 1..k
          OBVIOUS
        <4> QED
          BY <1>1, <4>1, FlattensAt
      <3> HIDE DEF h, step
      <3> QED
        BY <3>1, <3>2, <3>3, <3>4
    <2>2. h = step
      BY <2>1
    <2>3. Flattens(seqs, k + 1, h)
      BY <2>2 DEF Flattens
    <2> QED
      BY <2>3
  <1>2. Flattens(seqs, 0, [i \in 1..0 |-> seqs])
    BY DEF Flattens
  <1>3. ASSUME Bad # {} PROVE FALSE
    <2> Bad \in SUBSET Nat
      OBVIOUS
    <2> HIDE DEF Bad
    <2>1. PICK k \in Bad : \A j \in Bad : k <= j
      BY <1>3, LeastNatural
    <2> USE DEF Bad
    <2>2. k # 0
      BY <1>2
    <2>3. k - 1 \in Nat /\ (k - 1) + 1 = k /\ ~(k <= k - 1)
      BY <2>2
    <2>4. k - 1 \notin Bad
      BY <2>1, <2>3
    <2>5. PICK g : Flattens(seqs, k - 1, g)
      BY <2>3, <2>4
    <2>6. \E h : Flattens(seqs, k - 1 + 1, h)
      BY <1>1, <2>3, <2>5
    <2> QED
      BY <2>3, <2>6
  <1> QED
    BY <1>3

(* What FlattenSeq returns is the last value of that function. *)
LEMMA FlattenSeqUnfolds ==
    ASSUME NEW S, NEW seqs \in Seq(S), seqs # <<>>
    PROVE  \E g : Flattens(seqs, Len(seqs), g) /\ FlattenSeq(seqs) = g[Len(seqs)]
  <1> DEFINE flatten[i \in 1..Len(seqs)] ==
                 IF i = 1 THEN seqs[i] ELSE flatten[i - 1] \o seqs[i]
  <1>1. Len(seqs) \in Nat /\ Len(seqs) # 0
    OBVIOUS
  <1>2. FlattenSeq(seqs) = flatten[Len(seqs)]
    BY <1>1 DEF FlattenSeq
  <1>3. flatten = CHOOSE g : Flattens(seqs, Len(seqs), g)
    BY DEF Flattens, flatten
  <1>4. Flattens(seqs, Len(seqs), flatten)
    BY <1>1, <1>3, FlattensExists
  <1> QED
    BY <1>2, <1>4

(* The elements of a concatenation are those of its parts. *)
LEMMA ToSetConcat ==
    ASSUME NEW S, NEW s \in Seq(S), NEW t \in Seq(S)
    PROVE  s \o t \in Seq(S) /\ ToSet(s \o t) = ToSet(s) \cup ToSet(t)
  <1> DEFINE r == s \o t
  <1>1. /\ r \in Seq(S) /\ Len(r) = Len(s) + Len(t)
        /\ \A i \in 1..(Len(s) + Len(t)) : r[i] = IF i <= Len(s) THEN s[i] ELSE t[i - Len(s)]
    BY ConcatProperties
  <1> HIDE DEF r
  <1>2. ASSUME NEW i \in 1..Len(r) PROVE r[i] \in ToSet(s) \cup ToSet(t)
    <2>1. i <= Len(s) => i \in DOMAIN s
      BY <1>1
    <2>2. ~(i <= Len(s)) => i - Len(s) \in DOMAIN t
      BY <1>1
    <2> QED
      BY <1>1, <2>1, <2>2 DEF ToSet
  <1>3. ASSUME NEW i \in DOMAIN s PROVE s[i] \in ToSet(r)
    BY <1>1 DEF ToSet
  <1>4. ASSUME NEW i \in DOMAIN t PROVE t[i] \in ToSet(r)
    <2>1. i + Len(s) \in DOMAIN r /\ ~(i + Len(s) <= Len(s)) /\ i + Len(s) - Len(s) = i
      BY <1>1
    <2>2. r[i + Len(s)] = t[i]
      BY <1>1, <2>1
    <2> QED
      BY <2>1, <2>2 DEF ToSet
  <1>5. ToSet(r) = ToSet(s) \cup ToSet(t)
    BY <1>1, <1>2, <1>3, <1>4 DEF ToSet
  <1> QED
    BY <1>1, <1>5 DEF r

(* FlattenSeq of lists of S is a list of S with just their elements. *)
LEMMA FlattenSeqFacts ==
    ASSUME NEW S, NEW seqs \in Seq(Seq(S))
    PROVE  /\ FlattenSeq(seqs) \in Seq(S)
           /\ ToSet(FlattenSeq(seqs)) = UNION {ToSet(seqs[i]) : i \in DOMAIN seqs}
  <1>1. CASE seqs = <<>>
    <2>1. FlattenSeq(seqs) = <<>>
      BY <1>1 DEF FlattenSeq
    <2>2. DOMAIN seqs = {}
      BY <1>1
    <2>3. ToSet(<<>>) = {} /\ <<>> \in Seq(S)
      BY DEF ToSet
    <2>4. UNION {ToSet(seqs[i]) : i \in DOMAIN seqs} = {}
      BY <2>2
    <2> QED
      BY <2>1, <2>3, <2>4
  <1>2. CASE seqs # <<>>
    <2>1. PICK g : Flattens(seqs, Len(seqs), g) /\ FlattenSeq(seqs) = g[Len(seqs)]
      BY <1>2, FlattenSeqUnfolds
    <2>2. Len(seqs) \in Nat
      OBVIOUS
    <2>3. ASSUME NEW i \in 1..Len(seqs)
          PROVE  g[i] = IF i = 1 THEN seqs[i] ELSE g[i - 1] \o seqs[i]
      BY <2>1, <2>2, FlattensAt
    <2> DEFINE Bad == {k \in 1..Len(seqs) :
                          ~(/\ g[k] \in Seq(S)
                            /\ ToSet(g[k]) = UNION {ToSet(seqs[i]) : i \in 1..k})}
    <2>4. Len(seqs) \in Nat /\ Len(seqs) \in 1..Len(seqs)
      BY <1>2
    <2>5. ASSUME Bad # {} PROVE FALSE
      <3> Bad \in SUBSET Nat
        OBVIOUS
      <3> HIDE DEF Bad
      <3>1. PICK k \in Bad : \A j \in Bad : k <= j
        BY <2>5, LeastNatural
      <3> USE DEF Bad
      <3>2. k \in 1..Len(seqs) /\ seqs[k] \in Seq(S)
        BY <3>1
      <3>3. g[k] = IF k = 1 THEN seqs[k] ELSE g[k - 1] \o seqs[k]
        BY <2>3, <3>2
      <3>4. CASE k = 1
        BY <3>1, <3>2, <3>3, <3>4
      <3>5. CASE k # 1
        <4>1. k - 1 \in 1..Len(seqs) /\ ~(k <= k - 1)
          BY <3>2, <3>5
        <4>2. /\ g[k - 1] \in Seq(S)
              /\ ToSet(g[k - 1]) = UNION {ToSet(seqs[i]) : i \in 1..(k - 1)}
          BY <3>1, <4>1
        <4>3. g[k] = g[k - 1] \o seqs[k]
          BY <3>3, <3>5
        <4>4. g[k] \in Seq(S) /\ ToSet(g[k]) = ToSet(g[k - 1]) \cup ToSet(seqs[k])
          BY <3>2, <4>2, <4>3, ToSetConcat
        <4>5. 1..k = 1..(k - 1) \cup {k}
          BY <3>2, <4>1
        <4>6. ToSet(g[k]) = UNION {ToSet(seqs[i]) : i \in 1..k}
          BY <4>2, <4>4, <4>5
        <4> QED
          BY <3>1, <4>4, <4>6
      <3> QED
        BY <3>4, <3>5
    <2>6. /\ g[Len(seqs)] \in Seq(S)
          /\ ToSet(g[Len(seqs)]) = UNION {ToSet(seqs[i]) : i \in 1..Len(seqs)}
      BY <2>4, <2>5
    <2>7. DOMAIN seqs = 1..Len(seqs)
      OBVIOUS
    <2> HIDE DEF Bad
    <2> QED
      BY <2>1, <2>6, <2>7
  <1> QED
    BY <1>1, <1>2
=============================================================================
