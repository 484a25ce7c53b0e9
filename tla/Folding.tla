------------------------------- MODULE Folding -------------------------------
(***************************************************************************)
(* What FoldLeft computes, for any operator: instantiate Op with the step  *)
(* of a fold (and give what else it depends on as ctx) to reason about the *)
(* fold one element at a time, or by a set that the steps do not leave.    *)
(*                                                                         *)
(* FoldLeft is a recursive function on the sets of indices; its existence  *)
(* and the induction over the length of the sequence rest on the least     *)
(* element of a set of numbers.                                            *)
(***************************************************************************)
EXTENDS Naturals, SequencesExt, WellFoundedInduction, TLAPS

CONSTANT Op(_, _, _)   \* the context, the result so far, the next element

Fold(ctx, base, seq) == FoldLeft(LAMBDA r, d : Op(ctx, r, d), base, seq)

LEMMA LeastNumber ==
  ASSUME NEW set, set \subseteq Nat, set # {}
  PROVE  \E n \in set : \A m \in set : n <= m
<1> DEFINE R == {ss \in Nat \X Nat : ss[1] < ss[2]}
<1>1. R = OpToRel(<, Nat)
  BY DEF OpToRel
<1>2. IsWellFoundedOn(R, Nat)
  BY <1>1, NatLessThanWellFounded
<1>3. \E x \in set : \A y \in set : <<y, x>> \notin R
  <2> HIDE DEF R
  <2> QED
    BY <1>2, WFMin
<1>4. PICK x \in set : \A y \in set : <<y, x>> \notin R
  BY <1>3
<1>5. \A y \in set : ~(y < x)
  BY <1>4
<1> QED
  BY <1>5

LEMMA MaxIsThere ==
  ASSUME NEW n \in Nat, NEW s \in SUBSET (1 .. n), s # {}
  PROVE  Max(s) \in s /\ \A m \in s : m <= Max(s)
<1> DEFINE Bounds == {k \in Nat : \A m \in s : m <= k}
<1>1. n \in Bounds
  OBVIOUS
<1>2. PICK b \in Bounds : \A k \in Bounds : b <= k
  BY <1>1, LeastNumber
<1>3. b \in s
  <2> SUFFICES ASSUME b \notin s PROVE FALSE
    OBVIOUS
  <2>1. PICK m : m \in s
    OBVIOUS
  <2>2. b > 0
    BY <2>1, <1>2
  <2>3. b - 1 \in Bounds
    BY <1>2, <2>2
  <2> QED
    BY <1>2, <2>2, <2>3
<1> QED
  BY <1>2, <1>3 DEF Max

-----------------------------------------------------------------------------
(* The function that FoldLeft chooses, on the sets of indices in dom.       *)
IsIter(iter, ctx, base, seq, dom) ==
  iter = [s \in SUBSET dom |->
            IF s = {} THEN base ELSE Op(ctx, iter[s \ {Max(s)}], seq[Max(s)])]

LEMMA IterExists ==
  ASSUME NEW ctx, NEW base, NEW seq, NEW n \in Nat
  PROVE  \E iter : IsIter(iter, ctx, base, seq, 1 .. n)
<1> DEFINE None == {k \in Nat : ~ \E iter : IsIter(iter, ctx, base, seq, 1 .. k)}
<1> SUFFICES ASSUME None # {} PROVE FALSE
  OBVIOUS
<1>1. PICK k \in None : \A m \in None : k <= m
  BY LeastNumber
<1>2. CASE k = 0
  <2> DEFINE iter == [s \in SUBSET (1 .. 0) |-> base]
  <2>1. \A s \in SUBSET (1 .. 0) : s = {}
    OBVIOUS
  <2>2. IsIter(iter, ctx, base, seq, 1 .. 0)
    BY <2>1 DEF IsIter
  <2> QED
    BY <1>2, <2>2
<1>3. CASE k > 0
  <2>1. k - 1 \in Nat /\ k - 1 \notin None
    BY <1>1, <1>3
  <2>2. PICK f : IsIter(f, ctx, base, seq, 1 .. k - 1)
    BY <2>1
  <2> DEFINE Less == SUBSET (1 .. k - 1)
             Step(s) == Op(ctx, f[s \ {k}], seq[k])
             g == [s \in SUBSET (1 .. k) |-> IF s \in Less THEN f[s] ELSE Step(s)]
             rhs(s) == IF s = {} THEN base ELSE Op(ctx, g[s \ {Max(s)}], seq[Max(s)])
  <2>3. ASSUME NEW s \in SUBSET (1 .. k) PROVE g[s] = rhs(s)
    <3>1. CASE s = {}
      <4>1. f[{}] = base
        BY <2>2 DEF IsIter
      <4> QED
        BY <3>1, <4>1
    <3>2. CASE s # {} /\ s \in Less
      <4>1. Max(s) \in s
        BY <2>1, <3>2, MaxIsThere
      <4>2. s \ {Max(s)} \in Less /\ s \ {Max(s)} \in SUBSET (1 .. k)
        BY <3>2
      <4>3. g[s] = f[s] /\ g[s \ {Max(s)}] = f[s \ {Max(s)}]
        BY <3>2, <4>2
      <4>4. f[s] = Op(ctx, f[s \ {Max(s)}], seq[Max(s)])
        BY <2>2, <3>2 DEF IsIter
      <4> QED
        BY <3>2, <4>3, <4>4
    <3>3. CASE s # {} /\ s \notin Less
      <4>1. Max(s) \in s /\ \A m \in s : m <= Max(s)
        BY <1>1, <3>3, MaxIsThere
      <4>2. Max(s) = k
        <5>1. Max(s) \in 1 .. k /\ s \subseteq 1 .. k
          BY <4>1
        <5>2. ASSUME Max(s) # k PROVE s \in Less
          BY <1>1, <4>1, <5>1, <5>2
        <5> QED
          BY <3>3, <5>2
      <4>3. s \ {k} \in Less /\ s \ {k} \in SUBSET (1 .. k)
        BY <1>1
      <4>4. g[s] = Step(s) /\ g[s \ {k}] = f[s \ {k}]
        BY <3>3, <4>3
      <4> QED
        BY <3>3, <4>2, <4>4
    <3> QED
      BY <3>1, <3>2, <3>3
  <2>4. g = [s \in SUBSET (1 .. k) |-> rhs(s)]
    BY <2>3
  <2>5. IsIter(g, ctx, base, seq, 1 .. k)
    BY <2>4 DEF IsIter
  <2> QED
    BY <2>5
<1> QED
  BY <1>1, <1>2, <1>3

LEMMA FoldIter ==
  ASSUME NEW ctx, NEW base, NEW D, NEW seq \in Seq(D)
  PROVE  \E iter : /\ IsIter(iter, ctx, base, seq, 1 .. Len(seq))
                   /\ Fold(ctx, base, seq) = iter[1 .. Len(seq)]
<1> DEFINE iter == CHOOSE i : IsIter(i, ctx, base, seq, DOMAIN seq)
<1>1. DOMAIN seq = 1 .. Len(seq) /\ Len(seq) \in Nat
  OBVIOUS
<1>2. IsIter(iter, ctx, base, seq, DOMAIN seq)
  BY <1>1, IterExists
<1>3. Fold(ctx, base, seq) = iter[DOMAIN seq]
  BY DEF Fold, FoldLeft, MapThenFoldSet, IsIter
<1> HIDE DEF iter
<1> QED
  BY <1>1, <1>2, <1>3

-----------------------------------------------------------------------------
(* What other modules use.                                                  *)

LEMMA UpTo ==
  ASSUME NEW n \in Nat, NEW set, 0 \in set,
         \A i \in 1 .. n : i - 1 \in set => i \in set
  PROVE  \A i \in 0 .. n : i \in set
<1> DEFINE Out == {i \in 0 .. n : i \notin set}
<1> SUFFICES ASSUME Out # {} PROVE FALSE
  OBVIOUS
<1>1. PICK k \in Out : \A m \in Out : k <= m
  <2>1. Out \subseteq Nat
    OBVIOUS
  <2> HIDE DEF Out
  <2> QED
    BY <2>1, LeastNumber
<1>2. k \in 1 .. n /\ k - 1 \in 0 .. n
  BY <1>1
<1>3. k - 1 \notin Out
  BY <1>1, <1>2
<1> QED
  BY <1>1, <1>2, <1>3

(* The results after each element.                                          *)
LEMMA FoldTrace ==
  ASSUME NEW ctx, NEW base, NEW D, NEW seq \in Seq(D)
  PROVE  \E h : /\ h[0] = base
                /\ \A i \in 1 .. Len(seq) : h[i] = Op(ctx, h[i - 1], seq[i])
                /\ Fold(ctx, base, seq) = h[Len(seq)]
<1>1. PICK iter : /\ IsIter(iter, ctx, base, seq, 1 .. Len(seq))
                  /\ Fold(ctx, base, seq) = iter[1 .. Len(seq)]
  BY FoldIter
<1> DEFINE h == [i \in 0 .. Len(seq) |-> iter[1 .. i]]
<1>2. h[0] = base
  <2>1. 1 .. 0 = {}
    OBVIOUS
  <2>2. iter[{}] = base
    BY <1>1 DEF IsIter
  <2> QED
    BY <2>1, <2>2
<1>3. ASSUME NEW i \in 1 .. Len(seq) PROVE h[i] = Op(ctx, h[i - 1], seq[i])
  <2>1. 1 .. i \in SUBSET (1 .. Len(seq)) /\ 1 .. i # {} /\ i \in Nat
    OBVIOUS
  <2>2. Max(1 .. i) = i
    <3>1. Max(1 .. i) \in 1 .. i /\ \A m \in 1 .. i : m <= Max(1 .. i)
      BY <2>1, MaxIsThere
    <3>2. i \in 1 .. i /\ Max(1 .. i) \in Nat
      BY <2>1, <3>1
    <3> QED
      BY <2>1, <3>1, <3>2
  <2>3. (1 .. i) \ {i} = 1 .. i - 1
    OBVIOUS
  <2>4. iter[1 .. i] = Op(ctx, iter[1 .. i - 1], seq[i])
    BY <1>1, <2>1, <2>2, <2>3 DEF IsIter
  <2> QED
    BY <2>4
<1>4. Fold(ctx, base, seq) = h[Len(seq)]
  BY <1>1
<1> HIDE DEF h
<1> QED
  BY <1>2, <1>3, <1>4

(* A set that no step leaves holds the result.                              *)
Stays(ctx, T, D) == \A r \in T, d \in D : Op(ctx, r, d) \in T

LEMMA FoldStays ==
  ASSUME NEW ctx, NEW base, NEW D, NEW seq \in Seq(D), NEW T, base \in T, Stays(ctx, T, D)
  PROVE  Fold(ctx, base, seq) \in T
<1>1. PICK h : /\ h[0] = base
               /\ \A i \in 1 .. Len(seq) : h[i] = Op(ctx, h[i - 1], seq[i])
               /\ Fold(ctx, base, seq) = h[Len(seq)]
  BY FoldTrace
<1> DEFINE Good == {i \in 0 .. Len(seq) : h[i] \in T}
<1>2. 0 \in Good /\ Len(seq) \in Nat
  BY <1>1
<1>3. ASSUME NEW i \in 1 .. Len(seq), i - 1 \in Good PROVE i \in Good
  BY <1>1, <1>3 DEF Stays
<1>4. \A i \in 0 .. Len(seq) : i \in Good
  <2> HIDE DEF Good
  <2> QED
    BY <1>2, <1>3, UpTo
<1> QED
  BY <1>1, <1>2, <1>4
=============================================================================
