--------------------------- MODULE ExecutorProofs ---------------------------
(***************************************************************************)
(* Proofs about Executor, for every MAX_DEPTH and every kind of program:   *)
(* the types of the variables, the balance of the nesting counters, what   *)
(* is handed from call to call, and how many calls there can be.           *)
(*                                                                         *)
(* Types and balance are not inductive.  A counter that goes down stays in *)
(* Nat because it is the number of calls it counts (Balanced), and that    *)
(* number changes for the right shell only because the frames of a shell   *)
(* and of its copies are nested like the shells themselves (Chain).  The   *)
(* lemmas say what each way to call, to return and to go on does to all of *)
(* that; every action of the executor is one of these ways.                *)
(*                                                                         *)
(* On top of it: what a call finds in `flow' depends on which call it has  *)
(* made, so the invariant says which frames stand on which (Stacked), and  *)
(* what `flow' and `$?' are for the frame on top (CallHanded, StatusHanded *)
(* and ReturnHanded).  An unwind that is not for the call on top leaves it *)
(* and stays what it is (UnwindMoves): errors, `exit' and Ctrl+C end       *)
(* everything, and `break' and `continue' keep the loops they count.       *)
(*                                                                         *)
(* The bound on the calls gives every place where a call can stand a rank, *)
(* the number of calls there can be up to it since the last level was      *)
(* counted (Ranked): a call stands higher than its caller, except where a  *)
(* level begins.                                                           *)
(***************************************************************************)
EXTENDS Executor, SequenceTheorems, FiniteSetTheorems, TLAPS

(* CallsTo, of any stack, and how many they are.                            *)
CallsIn(stk, S, k) == {i \in DOMAIN stk : stk[i].fn \in S /\ stk[i].self <= k}

Count(stk, S, k) == Cardinality(CallsIn(stk, S, k))

(* The calls are those of the same functions on the same shells.            *)
SameCalls(s, t) ==
  /\ Len(s) = Len(t)
  /\ \A i \in 1..Len(s) : s[i].fn = t[i].fn /\ s[i].self = t[i].self

(* n shells: each one's calls are made by the shell it was copied from.     *)
Chain(stk, n) ==
  /\ stk = <<>> => n = 1
  /\ stk # <<>> => stk[1].self = 1 /\ stk[1].fn # "copy" /\ stk[Len(stk)].self = n
  /\ \A i \in 1..Len(stk) : stk[i].self \in 1..n
  /\ \A i, j \in 1..Len(stk) : i <= j => stk[i].self <= stk[j].self
  /\ \A i \in 1..(Len(stk) - 1) :
       stk[i + 1].self = IF stk[i + 1].fn = "copy" THEN stk[i].self + 1 ELSE stk[i].self

(* What one shell counts, given the calls in progress.                      *)
Counts(s, stk, k) ==
  /\ s.depth = Count(stk, {"list", "call"}, k)
  /\ s.loop_depth = Count(stk, {"loop"}, k)
  /\ s.func_depth = Count(stk, {"call", "dot"}, k)
  /\ s.errexit_off = Count(stk, {"ignoring"}, k)

Nested(sh, stk) ==
  /\ sh \in Seq(Shell) /\ sh # <<>>
  /\ stk \in Seq(FrameType)
  /\ Chain(stk, Len(sh))
  /\ \A k \in 1..Len(sh) : Counts(sh[k], stk, k) /\ sh[k].depth <= MAX_DEPTH

World ==
  /\ line \in {"prompt", "running", "ending", "ended"}
  /\ line = "prompt" => stack = <<>>
  /\ interrupted \in BOOLEAN
  /\ pending \subseteq Signals
  /\ arrived \subseteq Signals

IInv == Nested(shells, stack) /\ FlowOK(flow) /\ World

-----------------------------------------------------------------------------
(* How many calls there are, when one is added, taken away, or goes on.     *)

LEMMA CountType ==
  ASSUME NEW stk \in Seq(FrameType), NEW S, NEW k
  PROVE  IsFiniteSet(CallsIn(stk, S, k)) /\ Count(stk, S, k) \in Nat
<1>1. DOMAIN stk = 1..Len(stk) /\ Len(stk) \in Nat
  BY LenProperties
<1>2. IsFiniteSet(1..Len(stk))
  BY <1>1, FS_Interval
<1>3. CallsIn(stk, S, k) \in SUBSET (1..Len(stk))
  BY <1>1 DEF CallsIn
<1>4. IsFiniteSet(CallsIn(stk, S, k))
  BY <1>2, <1>3, FS_Subset
<1> QED
  BY <1>4, FS_CardinalityType DEF Count

LEMMA CountPush ==
  ASSUME NEW stk \in Seq(FrameType), NEW f \in FrameType, NEW S, NEW k
  PROVE  Count(Append(stk, f), S, k) =
           IF f.fn \in S /\ f.self <= k THEN Count(stk, S, k) + 1 ELSE Count(stk, S, k)
<1> DEFINE n == Len(stk) + 1
<1>1. /\ DOMAIN stk = 1..Len(stk) /\ Len(stk) \in Nat
      /\ Append(stk, f) \in Seq(FrameType)
      /\ Len(Append(stk, f)) = n
      /\ \A i \in 1..Len(stk) : Append(stk, f)[i] = stk[i]
      /\ Append(stk, f)[n] = f
  BY LenProperties, AppendProperties
<1>2. DOMAIN Append(stk, f) = 1..n
  BY <1>1, LenProperties
<1>3. n \notin CallsIn(stk, S, k)
  BY <1>1 DEF CallsIn
<1>4. CASE f.fn \in S /\ f.self <= k
  <2>1. CallsIn(Append(stk, f), S, k) = CallsIn(stk, S, k) \cup {n}
    BY <1>1, <1>2, <1>4 DEF CallsIn
  <2> QED
    BY <2>1, <1>3, <1>4, CountType, FS_AddElement DEF Count
<1>5. CASE ~(f.fn \in S /\ f.self <= k)
  <2>1. CallsIn(Append(stk, f), S, k) = CallsIn(stk, S, k)
    BY <1>1, <1>2, <1>5 DEF CallsIn
  <2> QED
    BY <2>1, <1>5 DEF Count
<1> QED
  BY <1>4, <1>5

LEMMA CountSame ==
  ASSUME NEW s \in Seq(FrameType), NEW t \in Seq(FrameType), SameCalls(s, t), NEW S, NEW k
  PROVE  Count(s, S, k) = Count(t, S, k)
<1>1. DOMAIN s = 1..Len(s) /\ DOMAIN t = 1..Len(t)
  BY LenProperties
<1>2. CallsIn(s, S, k) = CallsIn(t, S, k)
  BY <1>1 DEF CallsIn, SameCalls
<1> QED
  BY <1>2 DEF Count

(* A sequence without its last element.                                     *)
LEMMA AllButLast ==
  ASSUME NEW S, NEW s \in Seq(S), s # <<>>
  PROVE  /\ Len(s) \in Nat \ {0}
         /\ SubSeq(s, 1, Len(s) - 1) \in Seq(S)
         /\ Len(SubSeq(s, 1, Len(s) - 1)) = Len(s) - 1
         /\ \A i \in 1..(Len(s) - 1) : SubSeq(s, 1, Len(s) - 1)[i] = s[i]
<1>1. Len(s) \in Nat \ {0}
  BY EmptySeq
<1>2. \A i \in 1..Len(s) : s[i] \in S
  BY ElementOfSeq
<1>3. SubSeq(s, 1, Len(s) - 1) \in Seq(S)
  BY <1>1, <1>2
<1>4. Len(SubSeq(s, 1, Len(s) - 1)) = Len(s) - 1
  <2>1. ASSUME NEW n \in Nat, n = Len(s) - 1
        PROVE  Len(SubSeq(s, 1, n)) = n
    BY <2>1
  <2>2. Len(s) - 1 \in Nat
    BY <1>1
  <2> QED
    BY <2>1, <2>2, Zenon
<1>5. \A i \in 1..(Len(s) - 1) : SubSeq(s, 1, Len(s) - 1)[i] = s[i]
  BY <1>1
<1> QED
  BY <1>1, <1>3, <1>4, <1>5

(* The calls below the innermost one.                                       *)
Below(stk) == SubSeq(stk, 1, Len(stk) - 1)

LEMMA BelowTop ==
  ASSUME NEW stk \in Seq(FrameType), stk # <<>>
  PROVE  /\ Len(stk) \in Nat \ {0}
         /\ stk[Len(stk)] \in FrameType
         /\ Below(stk) \in Seq(FrameType)
         /\ Len(Below(stk)) = Len(stk) - 1
         /\ \A i \in 1..(Len(stk) - 1) : Below(stk)[i] = stk[i]
         /\ stk = Append(Below(stk), stk[Len(stk)])
<1>1. Len(stk) \in Nat \ {0}
  BY EmptySeq
<1>2. stk[Len(stk)] \in FrameType
  BY <1>1, ElementOfSeq
<1>3. stk = Append(Below(stk), stk[Len(stk)])
  BY <1>1 DEF Below
<1> QED
  BY <1>2, <1>3, AllButLast DEF Below

LEMMA CountPop ==
  ASSUME NEW stk \in Seq(FrameType), stk # <<>>, NEW S, NEW k
  PROVE  LET f == stk[Len(stk)]
         IN  Count(Below(stk), S, k) =
               IF f.fn \in S /\ f.self <= k THEN Count(stk, S, k) - 1 ELSE Count(stk, S, k)
<1> DEFINE p == Below(stk)
           f == stk[Len(stk)]
<1>1. p \in Seq(FrameType) /\ f \in FrameType /\ stk = Append(p, f)
  BY BelowTop
<1> HIDE DEF p, f
<1>2. Count(Append(p, f), S, k) =
        IF f.fn \in S /\ f.self <= k THEN Count(p, S, k) + 1 ELSE Count(p, S, k)
  BY <1>1, CountPush
<1>3. Count(p, S, k) \in Nat
  BY <1>1, CountType
<1>4. Count(p, S, k) = IF f.fn \in S /\ f.self <= k THEN Count(stk, S, k) - 1
                       ELSE Count(stk, S, k)
  BY <1>1, <1>2, <1>3
<1> QED
  BY <1>4 DEF p, f

(* All calls are made by shell n or the ones it was copied from.            *)
LEMMA CountAll ==
  ASSUME NEW stk \in Seq(FrameType), NEW S, NEW n \in Nat,
         \A i \in 1..Len(stk) : stk[i].self \in 1..n
  PROVE  Count(stk, S, n + 1) = Count(stk, S, n)
<1>1. DOMAIN stk = 1..Len(stk)
  BY LenProperties
<1>2. CallsIn(stk, S, n + 1) = CallsIn(stk, S, n)
  BY <1>1 DEF CallsIn
<1> QED
  BY <1>2 DEF Count

-----------------------------------------------------------------------------
(* The ways to go on, of shells sh and calls stk to sh2 and stk2.           *)

(* Only the shell that runs changes, and its counters by these amounts.     *)
Becomes(sh, sh2, d, l, f, e) ==
  LET n == Len(sh)
  IN  /\ sh2 \in Seq(Shell) /\ Len(sh2) = n
      /\ \A k \in 1..n : k # n => sh2[k] = sh[k]
      /\ sh2[n].depth = sh[n].depth + d
      /\ sh2[n].loop_depth = sh[n].loop_depth + l
      /\ sh2[n].func_depth = sh[n].func_depth + f
      /\ sh2[n].errexit_off = sh[n].errexit_off + e

One(fn, S) == IF fn \in S THEN 1 ELSE 0

LEMMA ShellCounters ==
  ASSUME NEW s \in Shell
  PROVE  s.depth \in Nat /\ s.loop_depth \in Nat /\ s.func_depth \in Nat /\ s.errexit_off \in Nat
BY DEF Shell

(* The innermost call goes on: its place and its status may change.         *)
LEMMA NestedGoesOn ==
  ASSUME NEW sh, NEW stk, Nested(sh, stk), NEW sh2, Becomes(sh, sh2, 0, 0, 0, 0),
         NEW stk2 \in Seq(FrameType), SameCalls(stk, stk2)
  PROVE  Nested(sh2, stk2)
<1> DEFINE n == Len(sh)
<1>1. n \in Nat \ {0} /\ \A k \in 1..n : sh[k] \in Shell
  BY EmptySeq, ElementOfSeq DEF Nested
<1>2. sh2 \in Seq(Shell) /\ sh2 # <<>> /\ Len(sh2) = n
  BY <1>1 DEF Becomes
<1>3. Len(stk) \in Nat /\ Len(stk2) = Len(stk) /\ (stk = <<>> <=> stk2 = <<>>)
      /\ (stk # <<>> => Len(stk) > 0)
  BY EmptySeq DEF Nested, SameCalls
<1>4. Chain(stk2, n)
  <2>1. stk2 = <<>> => n = 1
    BY <1>3 DEF Nested, Chain
  <2>2. stk2 # <<>> => stk2[1].self = 1 /\ stk2[1].fn # "copy" /\ stk2[Len(stk2)].self = n
    BY <1>3 DEF Nested, Chain, SameCalls
  <2>3. \A i \in 1..Len(stk2) : stk2[i].self \in 1..n
    BY <1>3 DEF Nested, Chain, SameCalls
  <2>4. ASSUME NEW i \in 1..(Len(stk2) - 1)
        PROVE  stk2[i + 1].self =
                 IF stk2[i + 1].fn = "copy" THEN stk2[i].self + 1 ELSE stk2[i].self
    <3>1. i \in 1..Len(stk) /\ i + 1 \in 1..Len(stk) /\ i \in 1..(Len(stk) - 1)
      BY <1>3
    <3> QED
      BY <3>1 DEF Nested, Chain, SameCalls
  <2>5. \A i, j \in 1..Len(stk2) : i <= j => stk2[i].self <= stk2[j].self
    BY <1>3 DEF Nested, Chain, SameCalls
  <2> QED
    BY <2>1, <2>2, <2>3, <2>4, <2>5 DEF Chain
<1>5. ASSUME NEW k \in 1..n
      PROVE  Counts(sh2[k], stk2, k) /\ sh2[k].depth <= MAX_DEPTH
  <2>1. /\ sh2[k].depth = sh[k].depth
        /\ sh2[k].loop_depth = sh[k].loop_depth
        /\ sh2[k].func_depth = sh[k].func_depth
        /\ sh2[k].errexit_off = sh[k].errexit_off
    <3>1. CASE k = n
      BY <1>1, <3>1, ShellCounters DEF Becomes
    <3>2. CASE k # n
      BY <3>2 DEF Becomes
    <3> QED
      BY <3>1, <3>2
  <2>2. \A S : Count(stk2, S, k) = Count(stk, S, k)
    BY CountSame DEF Nested
  <2> QED
    BY <2>1, <2>2 DEF Nested, Counts
<1> QED
  BY <1>2, <1>4, <1>5 DEF Nested

(* The innermost call makes a call, which counts in its counters.           *)
LEMMA NestedPush ==
  ASSUME NEW sh, NEW stk, Nested(sh, stk),
         NEW f \in FrameType, f.self = Len(sh), f.fn # "copy",
         NEW sh2, Becomes(sh, sh2, One(f.fn, {"list", "call"}), One(f.fn, {"loop"}),
                          One(f.fn, {"call", "dot"}), One(f.fn, {"ignoring"})),
         sh2[Len(sh)].depth <= MAX_DEPTH
  PROVE  Nested(sh2, Append(stk, f))
<1> DEFINE n == Len(sh)
           stk2 == Append(stk, f)
<1>1. n \in Nat \ {0} /\ \A k \in 1..n : sh[k] \in Shell
  BY EmptySeq, ElementOfSeq DEF Nested
<1>2. sh2 \in Seq(Shell) /\ sh2 # <<>> /\ Len(sh2) = n
  BY <1>1 DEF Becomes
<1>3. /\ stk2 \in Seq(FrameType)
      /\ stk2 # <<>>
      /\ Len(stk) \in Nat
      /\ stk # <<>> => Len(stk) > 0
      /\ Len(stk2) = Len(stk) + 1
      /\ \A i \in 1..Len(stk) : stk2[i] = stk[i]
      /\ stk2[Len(stk) + 1] = f
  BY AppendProperties, EmptySeq, LenProperties DEF Nested
<1> HIDE DEF stk2
<1>4. Chain(stk2, n)
  <2>1. stk2[1].self = 1 /\ stk2[1].fn # "copy"
    <3>1. CASE stk = <<>>
      BY <1>3, <3>1, EmptySeq DEF Nested, Chain
    <3>2. CASE stk # <<>>
      BY <1>3, <3>2 DEF Nested, Chain
    <3> QED
      BY <3>1, <3>2
  <2>2. stk2[Len(stk2)].self = n
    BY <1>3
  <2>3. ASSUME NEW i \in 1..Len(stk2)
        PROVE  stk2[i].self \in 1..n
    <3>1. CASE i = Len(stk) + 1
      BY <1>1, <1>3, <3>1
    <3>2. CASE i \in 1..Len(stk)
      BY <1>3, <3>2 DEF Nested, Chain
    <3> QED
      BY <1>3, <3>1, <3>2
  <2>4. ASSUME NEW i \in 1..(Len(stk2) - 1)
        PROVE  stk2[i + 1].self =
                 IF stk2[i + 1].fn = "copy" THEN stk2[i].self + 1 ELSE stk2[i].self
    <3>1. i \in 1..Len(stk) /\ stk2[i] = stk[i]
      BY <1>3
    <3>2. CASE i = Len(stk)
      BY <1>3, <3>1, <3>2 DEF Nested, Chain
    <3>3. CASE i # Len(stk)
      <4>1. i \in 1..(Len(stk) - 1) /\ stk2[i + 1] = stk[i + 1]
        BY <1>3, <3>1, <3>3
      <4> QED
        BY <3>1, <4>1 DEF Nested, Chain
    <3> QED
      BY <3>2, <3>3
  <2>5. \A i, j \in 1..Len(stk2) : i <= j => stk2[i].self <= stk2[j].self
    <3>1. \A j \in 1..Len(stk2) : j = Len(stk) + 1 \/ j \in 1..Len(stk)
      BY <1>3
    <3>2. \A i \in 1..Len(stk) : stk2[i].self <= n
      BY <1>1, <1>3 DEF Nested, Chain
    <3>3. \A i, j \in 1..Len(stk) : i <= j => stk2[i].self <= stk2[j].self
      BY <1>3 DEF Nested, Chain
    <3> QED
      BY <1>1, <1>3, <3>1, <3>2, <3>3
  <2> QED
    BY <1>3, <2>1, <2>2, <2>3, <2>4, <2>5 DEF Chain
<1>5. ASSUME NEW k \in 1..n
      PROVE  Counts(sh2[k], stk2, k) /\ sh2[k].depth <= MAX_DEPTH
  <2>1. \A S : Count(stk2, S, k) =
                 IF f.fn \in S /\ n <= k THEN Count(stk, S, k) + 1 ELSE Count(stk, S, k)
    BY CountPush DEF Nested, stk2
  <2>2. \A S : Count(stk, S, k) \in Nat
    BY CountType DEF Nested
  <2>3. Counts(sh[k], stk, k) /\ sh[k].depth <= MAX_DEPTH
    BY DEF Nested
  <2>4. CASE k = n
    BY <1>1, <2>1, <2>2, <2>3, <2>4 DEF Becomes, Counts, One
  <2>5. CASE k # n
    <3>1. sh2[k] = sh[k] /\ ~(n <= k)
      BY <1>1, <2>5 DEF Becomes
    <3> QED
      BY <2>1, <2>3, <3>1 DEF Counts
  <2> QED
    BY <2>4, <2>5
<1> QED
  BY <1>2, <1>3, <1>4, <1>5 DEF Nested, stk2

(* The innermost call returns, and its counters go down.                    *)
LEMMA NestedPop ==
  ASSUME NEW sh, NEW stk, Nested(sh, stk), stk # <<>>, NEW fn, fn = stk[Len(stk)].fn,
         fn # "copy",
         NEW sh2, Becomes(sh, sh2, 0 - One(fn, {"list", "call"}), 0 - One(fn, {"loop"}),
                          0 - One(fn, {"call", "dot"}), 0 - One(fn, {"ignoring"}))
  PROVE  Nested(sh2, Below(stk))
<1> DEFINE n == Len(sh)
           stk2 == Below(stk)
           f == stk[Len(stk)]
<1>1. n \in Nat \ {0} /\ \A k \in 1..n : sh[k] \in Shell
  BY EmptySeq, ElementOfSeq DEF Nested
<1>2. sh2 \in Seq(Shell) /\ sh2 # <<>> /\ Len(sh2) = n
  BY <1>1 DEF Becomes
<1>3. /\ Len(stk) \in Nat \ {0}
      /\ stk2 \in Seq(FrameType)
      /\ Len(stk2) = Len(stk) - 1
      /\ \A i \in 1..(Len(stk) - 1) : stk2[i] = stk[i]
      /\ stk2 # <<>> => Len(stk2) > 0
  BY BelowTop, EmptySeq DEF Nested
<1>4. f.self = n /\ f.fn = fn
  BY DEF Nested, Chain
<1> HIDE DEF stk2
<1>5. Chain(stk2, n)
  <2>1. CASE Len(stk) = 1
    <3>1. stk2 = <<>> /\ Len(stk2) = 0
      BY <1>3, <2>1, EmptySeq
    <3>2. n = 1
      BY <1>4, <2>1 DEF Nested, Chain
    <3> QED
      BY <3>1, <3>2 DEF Chain
  <2>2. CASE Len(stk) # 1
    <3>1. /\ Len(stk) - 1 \in 1..(Len(stk) - 1)
          /\ Len(stk2) \in 1..Len(stk) /\ 1 \in 1..(Len(stk) - 1)
          /\ Len(stk2) > 0
      BY <1>3, <2>2
    <3>2. stk[Len(stk) - 1 + 1].self = stk[Len(stk) - 1].self
      <4>1. stk[Len(stk) - 1 + 1] = f
        BY <1>3
      <4> QED
        BY <1>3, <1>4, <3>1, <4>1 DEF Nested, Chain
    <3>3. stk2[Len(stk2)].self = n
      BY <1>3, <1>4, <3>1, <3>2
    <3>4. stk2[1].self = 1 /\ stk2[1].fn # "copy"
      BY <1>3, <3>1 DEF Nested, Chain
    <3>5. \A i \in 1..Len(stk2) : stk2[i].self \in 1..n
      BY <1>3 DEF Nested, Chain
    <3>6. ASSUME NEW i \in 1..(Len(stk2) - 1)
          PROVE  stk2[i + 1].self =
                   IF stk2[i + 1].fn = "copy" THEN stk2[i].self + 1 ELSE stk2[i].self
      <4>1. /\ i \in 1..(Len(stk) - 1) /\ i + 1 \in 1..(Len(stk) - 1)
        BY <1>3
      <4> QED
        BY <1>3, <4>1 DEF Nested, Chain
    <3>7. stk2 # <<>>
      BY <3>1, EmptySeq
    <3>8. \A i, j \in 1..Len(stk2) : i <= j => stk2[i].self <= stk2[j].self
      <4>1. \A i \in 1..Len(stk2) : i \in 1..Len(stk) /\ stk2[i] = stk[i]
        BY <1>3
      <4>2. \A i, j \in 1..Len(stk) : i <= j => stk[i].self <= stk[j].self
        BY DEF Nested, Chain
      <4> QED
        BY <4>1, <4>2
    <3> QED
      BY <3>3, <3>4, <3>5, <3>6, <3>7, <3>8 DEF Chain
  <2> QED
    BY <2>1, <2>2
<1>6. ASSUME NEW k \in 1..n
      PROVE  Counts(sh2[k], stk2, k) /\ sh2[k].depth <= MAX_DEPTH
  <2>1. \A S : Count(stk2, S, k) =
                 IF fn \in S /\ n <= k THEN Count(stk, S, k) - 1 ELSE Count(stk, S, k)
    BY <1>4, CountPop DEF Nested, stk2
  <2>2. \A S : Count(stk, S, k) \in Nat
    BY CountType DEF Nested
  <2>3. Counts(sh[k], stk, k) /\ sh[k].depth <= MAX_DEPTH
    BY DEF Nested
  <2>4. CASE k = n
    <3>1. Counts(sh2[k], stk2, k)
      <4>1. \A S : Count(stk2, S, k) = Count(stk, S, k) + (0 - One(fn, S))
        BY <1>1, <2>1, <2>2, <2>4 DEF One
      <4>2. /\ sh2[k].depth = sh[k].depth + (0 - One(fn, {"list", "call"}))
            /\ sh2[k].loop_depth = sh[k].loop_depth + (0 - One(fn, {"loop"}))
            /\ sh2[k].func_depth = sh[k].func_depth + (0 - One(fn, {"call", "dot"}))
            /\ sh2[k].errexit_off = sh[k].errexit_off + (0 - One(fn, {"ignoring"}))
        BY <2>4 DEF Becomes
      <4> QED
        BY <2>3, <4>1, <4>2 DEF Counts
    <3>2. sh2[k].depth <= sh[k].depth /\ sh2[k].depth \in Int /\ sh[k].depth \in Int
      BY <1>1, <2>4, ShellCounters DEF Becomes, One
    <3>3. MAX_DEPTH \in Int
      BY ConstantsAssumption
    <3> QED
      BY <2>3, <3>1, <3>2, <3>3
  <2>5. CASE k # n
    <3>1. sh2[k] = sh[k] /\ ~(n <= k)
      BY <1>1, <2>5 DEF Becomes
    <3> QED
      BY <2>1, <2>3, <3>1 DEF Counts
  <2> QED
    BY <2>4, <2>5
<1> QED
  BY <1>2, <1>3, <1>5, <1>6 DEF Nested, stk2

(* A copy of the shell that runs is made.                                   *)
LEMMA NestedCopy ==
  ASSUME NEW sh, NEW stk, Nested(sh, stk), stk # <<>>,
         NEW f \in FrameType, f.fn = "copy", f.self = Len(sh) + 1,
         NEW c \in Shell,
         c.depth = sh[Len(sh)].depth, c.loop_depth = sh[Len(sh)].loop_depth,
         c.func_depth = sh[Len(sh)].func_depth, c.errexit_off = sh[Len(sh)].errexit_off
  PROVE  Nested(Append(sh, c), Append(stk, f))
<1> DEFINE n == Len(sh)
           sh2 == Append(sh, c)
           stk2 == Append(stk, f)
<1>1. n \in Nat \ {0}
  BY EmptySeq DEF Nested
<1>2. /\ sh2 \in Seq(Shell) /\ sh2 # <<>> /\ Len(sh2) = n + 1
      /\ \A k \in 1..n : sh2[k] = sh[k]
      /\ sh2[n + 1] = c
  BY AppendProperties DEF Nested
<1>3. /\ stk2 \in Seq(FrameType)
      /\ stk2 # <<>>
      /\ Len(stk) \in Nat \ {0}
      /\ Len(stk2) = Len(stk) + 1
      /\ \A i \in 1..Len(stk) : stk2[i] = stk[i]
      /\ stk2[Len(stk) + 1] = f
  BY AppendProperties, EmptySeq, LenProperties DEF Nested
<1>4. \A i \in 1..Len(stk) : stk[i].self \in 1..n
  BY DEF Nested, Chain
<1> HIDE DEF stk2, sh2
<1>5. Chain(stk2, n + 1)
  <2>1. stk2[1].self = 1 /\ stk2[1].fn # "copy"
    BY <1>3 DEF Nested, Chain
  <2>2. stk2[Len(stk2)].self = n + 1
    BY <1>3
  <2>3. \A i \in 1..Len(stk2) : stk2[i].self \in 1..(n + 1)
    <3>1. ASSUME NEW i \in 1..Len(stk2)
          PROVE  stk2[i].self \in 1..(n + 1)
      <4>1. CASE i = Len(stk) + 1
        BY <1>1, <1>3, <4>1
      <4>2. CASE i \in 1..Len(stk)
        <5>1. stk2[i].self \in 1..n
          BY <1>3, <1>4, <4>2
        <5> QED
          BY <1>1, <5>1
      <4> QED
        BY <1>3, <4>1, <4>2
    <3> QED
      BY <3>1
  <2>4. ASSUME NEW i \in 1..(Len(stk2) - 1)
        PROVE  stk2[i + 1].self =
                 IF stk2[i + 1].fn = "copy" THEN stk2[i].self + 1 ELSE stk2[i].self
    <3>1. i \in 1..Len(stk) /\ stk2[i] = stk[i]
      BY <1>3
    <3>2. CASE i = Len(stk)
      BY <1>3, <3>1, <3>2 DEF Nested, Chain
    <3>3. CASE i # Len(stk)
      <4>1. i \in 1..(Len(stk) - 1) /\ stk2[i + 1] = stk[i + 1]
        BY <1>3, <3>1, <3>3
      <4> QED
        BY <3>1, <4>1 DEF Nested, Chain
    <3> QED
      BY <3>2, <3>3
  <2>5. \A i, j \in 1..Len(stk2) : i <= j => stk2[i].self <= stk2[j].self
    <3>1. \A j \in 1..Len(stk2) : j = Len(stk) + 1 \/ j \in 1..Len(stk)
      BY <1>3
    <3>2. \A i \in 1..Len(stk) : stk2[i].self <= n + 1
      BY <1>1, <1>3, <1>4
    <3>3. \A i, j \in 1..Len(stk) : i <= j => stk2[i].self <= stk2[j].self
      BY <1>3 DEF Nested, Chain
    <3> QED
      BY <1>1, <1>3, <3>1, <3>2, <3>3
  <2> QED
    BY <1>3, <2>1, <2>2, <2>3, <2>4, <2>5 DEF Chain
<1>6. ASSUME NEW k \in 1..(n + 1)
      PROVE  Counts(sh2[k], stk2, k) /\ sh2[k].depth <= MAX_DEPTH
  <2>1. Count(stk2, {"list", "call"}, k) = Count(stk, {"list", "call"}, k)
    BY CountPush DEF Nested, stk2
  <2>2. Count(stk2, {"loop"}, k) = Count(stk, {"loop"}, k)
    BY CountPush DEF Nested, stk2
  <2>3. Count(stk2, {"call", "dot"}, k) = Count(stk, {"call", "dot"}, k)
    BY CountPush DEF Nested, stk2
  <2>4. Count(stk2, {"ignoring"}, k) = Count(stk, {"ignoring"}, k)
    BY CountPush DEF Nested, stk2
  <2>5. CASE k \in 1..n
    BY <1>2, <2>1, <2>2, <2>3, <2>4, <2>5 DEF Nested, Counts
  <2>6. CASE k = n + 1
    <3>1. \A S : Count(stk, S, n + 1) = Count(stk, S, n)
      BY <1>1, <1>4, CountAll DEF Nested
    <3>2. Counts(sh[n], stk, n) /\ sh[n].depth <= MAX_DEPTH
      BY <1>1 DEF Nested
    <3> QED
      BY <1>2, <2>1, <2>2, <2>3, <2>4, <2>6, <3>1, <3>2 DEF Counts
  <2> QED
    BY <1>1, <2>5, <2>6
<1> QED
  BY <1>2, <1>3, <1>5, <1>6 DEF Nested, stk2, sh2

(* A copy of the shell is over.                                             *)
LEMMA NestedCopyDone ==
  ASSUME NEW sh, NEW stk, Nested(sh, stk), stk # <<>>, stk[Len(stk)].fn = "copy"
  PROVE  Nested(SubSeq(sh, 1, Len(sh) - 1), Below(stk)) /\ Below(stk) # <<>>
<1> DEFINE n == Len(sh)
           sh2 == SubSeq(sh, 1, n - 1)
           stk2 == Below(stk)
           f == stk[Len(stk)]
<1>1. /\ Len(stk) \in Nat \ {0}
      /\ stk2 \in Seq(FrameType)
      /\ Len(stk2) = Len(stk) - 1
      /\ \A i \in 1..(Len(stk) - 1) : stk2[i] = stk[i]
  BY BelowTop DEF Nested
<1>2. f.self = n /\ Len(stk) # 1 /\ n \in Nat
  BY LenProperties DEF Nested, Chain
<1>3. /\ Len(stk) - 1 \in 1..Len(stk) /\ Len(stk) - 1 \in 1..(Len(stk) - 1)
      /\ 1 \in 1..(Len(stk) - 1)
      /\ Len(stk2) > 0
  BY <1>1, <1>2
<1>4. stk[Len(stk) - 1].self = n - 1 /\ n - 1 \in Nat \ {0}
  <2>1. stk[Len(stk) - 1 + 1] = f
    BY <1>1
  <2>2. f.self = stk[Len(stk) - 1].self + 1 /\ stk[Len(stk) - 1].self \in 1..n
    BY <1>3, <2>1 DEF Nested, Chain
  <2> QED
    BY <1>2, <2>2
<1>5. /\ sh2 \in Seq(Shell) /\ sh2 # <<>> /\ Len(sh2) = n - 1
      /\ \A k \in 1..(n - 1) : sh2[k] = sh[k]
  <2>1. sh \in Seq(Shell) /\ sh # <<>>
    BY DEF Nested
  <2>2. /\ sh2 \in Seq(Shell) /\ Len(sh2) = n - 1
        /\ \A k \in 1..(n - 1) : sh2[k] = sh[k]
    BY <2>1, AllButLast
  <2>3. sh2 # <<>>
    BY <1>4, <2>2, EmptySeq
  <2> QED
    BY <2>2, <2>3
<1>6. stk2 # <<>>
  BY <1>3, EmptySeq
<1> HIDE DEF stk2, sh2
<1>7. Chain(stk2, n - 1)
  <2>1. stk2[1].self = 1 /\ stk2[1].fn # "copy"
    BY <1>1, <1>3 DEF Nested, Chain
  <2>2. stk2[Len(stk2)].self = n - 1
    BY <1>1, <1>3, <1>4
  <2>3. \A i \in 1..Len(stk2) : stk2[i].self \in 1..(n - 1)
    <3> SUFFICES \A i \in 1..(Len(stk) - 1) : stk[i].self <= n - 1
      BY <1>1, <1>4 DEF Nested, Chain
    <3> TAKE i \in 1..(Len(stk) - 1)
    <3>1. i \in 1..Len(stk) /\ Len(stk) - 1 \in 1..Len(stk) /\ i <= Len(stk) - 1
      BY <1>1, <1>3
    <3>2. stk[i].self <= stk[Len(stk) - 1].self
      BY <3>1 DEF Nested, Chain
    <3> QED
      BY <1>4, <3>2
  <2>5. \A i, j \in 1..Len(stk2) : i <= j => stk2[i].self <= stk2[j].self
    BY <1>1 DEF Nested, Chain
  <2>4. ASSUME NEW i \in 1..(Len(stk2) - 1)
        PROVE  stk2[i + 1].self =
                 IF stk2[i + 1].fn = "copy" THEN stk2[i].self + 1 ELSE stk2[i].self
    <3>1. /\ i \in 1..(Len(stk) - 1) /\ i + 1 \in 1..(Len(stk) - 1)
      BY <1>1
    <3> QED
      BY <1>1, <3>1 DEF Nested, Chain
  <2> QED
    BY <1>6, <2>1, <2>2, <2>3, <2>4, <2>5 DEF Chain
<1>8. ASSUME NEW k \in 1..(n - 1)
      PROVE  Counts(sh2[k], stk2, k) /\ sh2[k].depth <= MAX_DEPTH
  <2>1. \A S : Count(stk2, S, k) = Count(stk, S, k)
    <3>1. ~(n <= k)
      BY <1>4
    <3> QED
      BY <1>2, <3>1, CountPop DEF Nested, stk2
  <2>2. Counts(sh[k], stk, k) /\ sh[k].depth <= MAX_DEPTH
    BY <1>4 DEF Nested
  <2> QED
    BY <1>5, <2>1, <2>2 DEF Counts
<1> QED
  BY <1>1, <1>5, <1>6, <1>7, <1>8 DEF Nested, stk2, sh2

-----------------------------------------------------------------------------
(* The operators that the actions are made of.                              *)

Good == Nested(shells, stack) /\ FlowOK(flow)

LEMMA ChangesMe ==
  ASSUME NEW sh \in Seq(Shell), sh # <<>>, NEW c \in Shell,
         NEW d \in Int, NEW l \in Int, NEW f \in Int, NEW e \in Int,
         c.depth = sh[Len(sh)].depth + d, c.loop_depth = sh[Len(sh)].loop_depth + l,
         c.func_depth = sh[Len(sh)].func_depth + f, c.errexit_off = sh[Len(sh)].errexit_off + e
  PROVE  Becomes(sh, [sh EXCEPT ![Len(sh)] = c], d, l, f, e)
<1>1. Len(sh) \in Nat \ {0}
  BY EmptySeq
<1> DEFINE t == [sh EXCEPT ![Len(sh)] = c]
<1>2. /\ t \in Seq(Shell)
      /\ Len(t) = Len(sh)
      /\ \A j \in 1..Len(sh) : t[j] = IF j = Len(sh) THEN c ELSE sh[j]
  BY <1>1, ExceptSeq
<1> HIDE DEF t
<1>3. Becomes(sh, t, d, l, f, e)
  <2>1. t[Len(sh)] = c /\ \A k \in 1..Len(sh) : k # Len(sh) => t[k] = sh[k]
    BY <1>1, <1>2
  <2> QED
    BY <1>2, <2>1 DEF Becomes
<1> QED
  BY <1>3 DEF t

LEMMA NothingChanges ==
  ASSUME NEW sh \in Seq(Shell), sh # <<>>
  PROVE  Becomes(sh, sh, 0, 0, 0, 0)
<1>1. Len(sh) \in Nat \ {0} /\ \A k \in 1..Len(sh) : sh[k] \in Shell
  BY EmptySeq, ElementOfSeq
<1> QED
  BY <1>1, ShellCounters DEF Becomes

LEMMA MeType ==
  ASSUME Good
  PROVE  K \in Nat \ {0} /\ Me \in Shell /\ Me.status \in Statuses
<1>1. Len(shells) \in Nat \ {0} /\ \A k \in 1..Len(shells) : shells[k] \in Shell
  BY EmptySeq, ElementOfSeq DEF Good, Nested
<1>2. K \in Nat \ {0} /\ Me \in Shell
  BY <1>1 DEF K, Me
<1> QED
  BY <1>2 DEF Shell

LEMMA TopType ==
  ASSUME Good, stack # <<>>
  PROVE  Top \in FrameType /\ Top.st \in Statuses /\ Top.pc \in Pcs /\ Top.self = K
BY BelowTop DEF Good, Nested, Chain, Top, K, FrameType

(* The innermost call at another place, with another status.                *)
LEMMA AtSame ==
  ASSUME Good, stack # <<>>, NEW pc \in Pcs, NEW s \in Statuses
  PROVE  /\ Nested(shells, At(pc)) /\ At(pc) # <<>>
         /\ Nested(shells, AtWith(pc, s)) /\ AtWith(pc, s) # <<>>
<1> DEFINE n == Len(stack)
           f == [Top EXCEPT !.pc = pc]
           g == [Top EXCEPT !.pc = pc, !.st = s]
<1>1. n \in Nat \ {0} /\ stack \in Seq(FrameType)
  BY EmptySeq DEF Good, Nested
<1>2. f \in FrameType /\ g \in FrameType /\ f.fn = Top.fn /\ f.self = Top.self
      /\ g.fn = Top.fn /\ g.self = Top.self
  BY TopType DEF FrameType
<1>3. At(pc) = [stack EXCEPT ![n] = f] /\ AtWith(pc, s) = [stack EXCEPT ![n] = g]
  BY DEF At, AtWith, Top
<1> HIDE DEF f, g
<1>4. ASSUME NEW h \in FrameType, h.fn = Top.fn, h.self = Top.self
      PROVE  Nested(shells, [stack EXCEPT ![n] = h]) /\ [stack EXCEPT ![n] = h] # <<>>
  <2>1. /\ [stack EXCEPT ![n] = h] \in Seq(FrameType)
        /\ Len([stack EXCEPT ![n] = h]) = n
        /\ \A j \in 1..n : [stack EXCEPT ![n] = h][j] = IF j = n THEN h ELSE stack[j]
    BY <1>1, <1>4, ExceptSeq
  <2>2. SameCalls(stack, [stack EXCEPT ![n] = h])
    BY <1>4, <2>1 DEF SameCalls, Top
  <2>3. Becomes(shells, shells, 0, 0, 0, 0)
    BY NothingChanges DEF Good, Nested
  <2>4. Nested(shells, [stack EXCEPT ![n] = h])
    BY <2>1, <2>2, <2>3, NestedGoesOn DEF Good
  <2> QED
    BY <1>1, <2>1, <2>4, EmptySeq
<1> QED
  BY <1>2, <1>3, <1>4

Uncounted == Fns \ {"list", "call", "loop", "dot", "ignoring", "copy"}

LEMMA CallsGood ==
  ASSUME Good, NEW base, Nested(shells, base), NEW fn \in Uncounted,
         NEW pc \in Pcs, NEW s \in Statuses, Calls(base, Frame(fn, pc, s))
  PROVE  Good'
<1>1. Frame(fn, pc, s) \in FrameType /\ Frame(fn, pc, s).self = Len(shells)
      /\ Frame(fn, pc, s).fn = fn
  BY MeType DEF Frame, FrameType, Uncounted, K
<1>2. Becomes(shells, shells, 0, 0, 0, 0)
  BY NothingChanges DEF Good, Nested
<1>3. /\ One(fn, {"list", "call"}) = 0 /\ One(fn, {"loop"}) = 0
      /\ One(fn, {"call", "dot"}) = 0 /\ One(fn, {"ignoring"}) = 0 /\ fn # "copy"
  BY DEF One, Uncounted
<1>4. shells[Len(shells)].depth <= MAX_DEPTH
  BY MeType DEF Good, Nested, K
<1>5. Nested(shells, Append(base, Frame(fn, pc, s)))
  BY <1>1, <1>2, <1>3, <1>4, NestedPush
<1> QED
  BY <1>5 DEF Calls, Good, FlowOK, FlowTags, Running

LEMMA GivesGood ==
  ASSUME Good, stack # <<>>, Top.fn \in Uncounted, NEW r, FlowOK(r), Gives(r)
  PROVE  Good'
<1> DEFINE fn == Top.fn
<1>1. Becomes(shells, shells, 0, 0, 0, 0)
  BY NothingChanges DEF Good, Nested
<1>2. /\ One(fn, {"list", "call"}) = 0 /\ One(fn, {"loop"}) = 0
      /\ One(fn, {"call", "dot"}) = 0 /\ One(fn, {"ignoring"}) = 0 /\ fn # "copy"
  BY DEF One, Uncounted
<1>3. fn = stack[Len(stack)].fn
  BY DEF Top
<1>5. 0 - 0 = 0
  OBVIOUS
<1> HIDE DEF fn
<1>4. Nested(shells, Below(stack))
  BY <1>1, <1>2, <1>3, <1>5, NestedPop DEF Good
<1> QED
  BY <1>4 DEF Gives, Good, Popped, Below

(* Top is counted.                                                          *)
LEMMA TopCounted ==
  ASSUME Good, stack # <<>>, NEW S, Top.fn \in S
  PROVE  Count(stack, S, Len(shells)) \in Nat \ {0}
<1>1. /\ Count(stack, S, Len(shells)) \in Nat
      /\ Count(Below(stack), S, Len(shells)) \in Nat
  BY CountType, BelowTop DEF Good, Nested
<1>2. Top.self <= Len(shells) /\ Top = stack[Len(stack)]
  BY TopType, MeType DEF K, Top
<1>3. Count(Below(stack), S, Len(shells)) = Count(stack, S, Len(shells)) - 1
  BY <1>2, CountPop DEF Good, Nested
<1> QED
  BY <1>1, <1>3

(* The innermost call returns r; the shell becomes c.                       *)
LEMMA LeaveGood ==
  ASSUME Good, stack # <<>>, Top.fn # "copy", NEW r, FlowOK(r),
         NEW c \in Shell,
         c.depth = Me.depth - One(Top.fn, {"list", "call"}),
         c.loop_depth = Me.loop_depth - One(Top.fn, {"loop"}),
         c.func_depth = Me.func_depth - One(Top.fn, {"call", "dot"}),
         c.errexit_off = Me.errexit_off - One(Top.fn, {"ignoring"}),
         stack' = Popped, flow' = r, shells' = [shells EXCEPT ![K] = c]
  PROVE  Good'
<1> DEFINE d == 0 - One(Top.fn, {"list", "call"})
           l == 0 - One(Top.fn, {"loop"})
           f == 0 - One(Top.fn, {"call", "dot"})
           e == 0 - One(Top.fn, {"ignoring"})
<1>1. /\ d \in Int /\ l \in Int /\ f \in Int /\ e \in Int
      /\ c.depth = Me.depth + d /\ c.loop_depth = Me.loop_depth + l
      /\ c.func_depth = Me.func_depth + f /\ c.errexit_off = Me.errexit_off + e
  BY MeType, ShellCounters DEF One
<1> HIDE DEF d, l, f, e
<1>2. Becomes(shells, [shells EXCEPT ![Len(shells)] = c], d, l, f, e)
  BY <1>1, ChangesMe DEF Good, Nested, Me, K
<1>3. Nested([shells EXCEPT ![Len(shells)] = c], Below(stack))
  BY <1>2, NestedPop DEF Good, Top, d, l, f, e
<1> QED
  BY <1>3 DEF Good, Popped, Below, K

(* The innermost call calls f; the shell becomes c.                         *)
LEMMA EnterGood ==
  ASSUME Good, NEW base, Nested(shells, base),
         NEW f \in FrameType, f.self = K, f.fn # "copy",
         NEW c \in Shell,
         c.depth = Me.depth + One(f.fn, {"list", "call"}),
         c.loop_depth = Me.loop_depth + One(f.fn, {"loop"}),
         c.func_depth = Me.func_depth + One(f.fn, {"call", "dot"}),
         c.errexit_off = Me.errexit_off + One(f.fn, {"ignoring"}),
         c.depth <= MAX_DEPTH,
         stack' = Append(base, f), flow' = Running, shells' = [shells EXCEPT ![K] = c]
  PROVE  Good'
<1>1. /\ One(f.fn, {"list", "call"}) \in Int /\ One(f.fn, {"loop"}) \in Int
      /\ One(f.fn, {"call", "dot"}) \in Int /\ One(f.fn, {"ignoring"}) \in Int
  BY DEF One
<1>2. Becomes(shells, [shells EXCEPT ![Len(shells)] = c],
              One(f.fn, {"list", "call"}), One(f.fn, {"loop"}),
              One(f.fn, {"call", "dot"}), One(f.fn, {"ignoring"}))
  BY <1>1, ChangesMe DEF Good, Nested, Me, K
<1>3. [shells EXCEPT ![Len(shells)] = c][Len(shells)] = c
  BY MeType DEF Good, Nested, K
<1>4. Nested([shells EXCEPT ![Len(shells)] = c], Append(base, f))
  BY <1>2, <1>3, NestedPush DEF K
<1> QED
  BY <1>4 DEF Good, K, FlowOK, FlowTags, Running

(* The innermost call goes on; the shell becomes c, with the same counters. *)
LEMMA StaysGood ==
  ASSUME Good, NEW base, Nested(shells, base), NEW r, FlowOK(r),
         NEW c \in Shell,
         c.depth = Me.depth, c.loop_depth = Me.loop_depth,
         c.func_depth = Me.func_depth, c.errexit_off = Me.errexit_off,
         stack' = base, flow' = r, shells' = [shells EXCEPT ![K] = c]
  PROVE  Good'
<1> DEFINE z == 0
<1>4. /\ c.depth = Me.depth + z /\ c.loop_depth = Me.loop_depth + z
      /\ c.func_depth = Me.func_depth + z /\ c.errexit_off = Me.errexit_off + z
      /\ z \in Int
  BY MeType, ShellCounters
<1> HIDE DEF z
<1>5. Becomes(shells, [shells EXCEPT ![Len(shells)] = c], z, z, z, z)
  BY <1>4, ChangesMe DEF Good, Nested, Me, K
<1>1. Becomes(shells, [shells EXCEPT ![Len(shells)] = c], 0, 0, 0, 0)
  BY <1>5 DEF z
<1>2. base \in Seq(FrameType) /\ SameCalls(base, base)
  BY DEF Nested, SameCalls
<1>3. Nested([shells EXCEPT ![Len(shells)] = c], base)
  BY <1>1, <1>2, NestedGoesOn
<1> QED
  BY <1>3 DEF Good, K

-----------------------------------------------------------------------------
(* The named operators of Executor, each one of the ways above.             *)

LEMMA StaysSame ==
  ASSUME Good, NEW base, Nested(shells, base), NEW r, FlowOK(r),
         stack' = base, flow' = r, UNCHANGED shells
  PROVE  Good'
BY DEF Good

LEMMA EnterOp ==
  ASSUME Good, NEW base, Nested(shells, base), NEW f \in FrameType, f.self = K,
         f.fn \in {"list", "call"}, NEW c \in Shell,
         c.depth = Me.depth + 1, c.loop_depth = Me.loop_depth,
         c.func_depth = Me.func_depth + One(f.fn, {"call", "dot"}),
         c.errexit_off = Me.errexit_off,
         enter(base, f, c)
  PROVE  Good'
<1>1. CASE Me.depth >= MAX_DEPTH
  <2>1. FlowOK(Error)
    BY DEF FlowOK, FlowTags, Error, Statuses
  <2>2. stack' = base /\ flow' = Error /\ UNCHANGED shells
    BY <1>1 DEF enter
  <2> QED
    BY <2>1, <2>2, StaysSame
<1>2. CASE ~(Me.depth >= MAX_DEPTH)
  <2>1. stack' = Append(base, f) /\ flow' = Running /\ shells' = [shells EXCEPT ![K] = c]
    BY <1>2 DEF enter
  <2>2. /\ c.depth = Me.depth + One(f.fn, {"list", "call"})
        /\ c.loop_depth = Me.loop_depth + One(f.fn, {"loop"})
        /\ c.errexit_off = Me.errexit_off + One(f.fn, {"ignoring"})
    BY MeType, ShellCounters DEF One
  <2>3. c.depth <= MAX_DEPTH
    BY <1>2, MeType, ShellCounters, ConstantsAssumption
  <2> QED
    BY <2>1, <2>2, <2>3, EnterGood
<1> QED
  BY <1>1, <1>2

LEMMA RunListOp ==
  ASSUME Good, NEW base, Nested(shells, base), run_list(base)
  PROVE  Good'
<1> DEFINE f == Frame("list", "check", Me.status)
           c == [Me EXCEPT !.depth = @ + 1]
<1>1. f \in FrameType /\ f.self = K /\ f.fn = "list"
  <2>1. K \in Nat /\ Me.status \in Statuses
    BY MeType
  <2> QED
    BY <2>1 DEF Frame, FrameType, Fns, Pcs
<1>2. /\ c \in Shell /\ c.depth = Me.depth + 1 /\ c.loop_depth = Me.loop_depth
      /\ c.func_depth = Me.func_depth /\ c.errexit_off = Me.errexit_off
  BY MeType DEF Shell
<1>3. enter(base, f, c)
  BY DEF run_list
<1> HIDE DEF f, c
<1>4. c.func_depth = Me.func_depth + One(f.fn, {"call", "dot"})
  BY <1>1, <1>2, MeType, ShellCounters DEF One
<1> QED
  BY <1>1, <1>2, <1>3, <1>4, EnterOp

LEMMA IgnoringOp ==
  ASSUME Good, NEW base, Nested(shells, base), NEW body \in Pcs, ignoring_errexit(base, body)
  PROVE  Good'
<1> DEFINE f == Frame("ignoring", body, 0)
           c == [Me EXCEPT !.errexit_off = @ + 1]
<1>1. f \in FrameType /\ f.self = K /\ f.fn = "ignoring"
  BY MeType DEF Frame, FrameType, Fns, Statuses
<1>2. /\ c \in Shell /\ c.depth = Me.depth /\ c.loop_depth = Me.loop_depth
      /\ c.func_depth = Me.func_depth /\ c.errexit_off = Me.errexit_off + 1
  BY MeType DEF Shell
<1>3. stack' = Append(base, f) /\ flow' = Running /\ shells' = [shells EXCEPT ![K] = c]
  BY DEF ignoring_errexit, Me
<1> HIDE DEF f, c
<1>4. /\ c.depth = Me.depth + One(f.fn, {"list", "call"})
      /\ c.loop_depth = Me.loop_depth + One(f.fn, {"loop"})
      /\ c.func_depth = Me.func_depth + One(f.fn, {"call", "dot"})
      /\ c.errexit_off = Me.errexit_off + One(f.fn, {"ignoring"})
      /\ c.depth <= MAX_DEPTH /\ f.fn # "copy"
  BY <1>1, <1>2, MeType, ShellCounters DEF One, Good, Nested, Me, K
<1> QED
  BY <1>1, <1>2, <1>3, <1>4, EnterGood

LEMMA RunPipelineOp ==
  ASSUME Good, NEW base, Nested(shells, base), run_pipeline(base)
  PROVE  Good'
<1>1. PICK pc \in {"negated", "plain"} : Calls(base, Frame("pipeline", pc, 0))
  BY DEF run_pipeline
<1>2. "pipeline" \in Uncounted /\ pc \in Pcs /\ 0 \in Statuses
  BY DEF Uncounted, Fns, Statuses, Pcs
<1> QED
  BY <1>1, <1>2, CallsGood

LEMMA RunCommandOp ==
  ASSUME Good, NEW base, Nested(shells, base), run_command(base)
  PROVE  Good'
<1>1. PICK kind \in KindsHere : Calls(base, Frame("command", kind, 0))
  BY DEF run_command
<1>2. "command" \in Uncounted /\ kind \in Pcs /\ 0 \in Statuses
  BY ConstantsAssumption DEF Uncounted, Fns, Statuses, Pcs, AllKinds, KindsHere
<1> QED
  BY <1>1, <1>2, CallsGood

LEMMA RunCommandsOp ==
  ASSUME Good, NEW base, Nested(shells, base), run_commands(base)
  PROVE  Good'
<1>1. CASE run_command(base)
  BY <1>1, RunCommandOp
<1>2. CASE Calls(base, Frame("stages", "first", 0))
  <2>1. "stages" \in Uncounted /\ "first" \in Pcs /\ 0 \in Statuses
    BY DEF Uncounted, Fns, Statuses, Pcs
  <2> QED
    BY <1>2, <2>1, CallsGood
<1> QED
  BY <1>1, <1>2 DEF run_commands

LEMMA LeaveListOp ==
  ASSUME Good, stack # <<>>, Top.fn = "list", NEW r, FlowOK(r), LeaveList(r)
  PROVE  Good'
<1> DEFINE c == [Me EXCEPT !.depth = @ - 1]
<1>1. Me.depth \in Nat \ {0}
  BY TopCounted, MeType DEF Good, Nested, Counts, Me, K
<1>2. /\ c \in Shell /\ c.depth = Me.depth - 1 /\ c.loop_depth = Me.loop_depth
      /\ c.func_depth = Me.func_depth /\ c.errexit_off = Me.errexit_off
  BY <1>1, MeType DEF Shell
<1>3. shells' = [shells EXCEPT ![K] = c] /\ stack' = Popped /\ flow' = r
  BY DEF LeaveList, Me
<1> HIDE DEF c
<1>4. /\ c.depth = Me.depth - One(Top.fn, {"list", "call"})
      /\ c.loop_depth = Me.loop_depth - One(Top.fn, {"loop"})
      /\ c.func_depth = Me.func_depth - One(Top.fn, {"call", "dot"})
      /\ c.errexit_off = Me.errexit_off - One(Top.fn, {"ignoring"})
  BY <1>2, MeType, ShellCounters DEF One
<1> QED
  BY <1>2, <1>3, <1>4, LeaveGood

LEMMA LeaveLoopOp ==
  ASSUME Good, stack # <<>>, Top.fn = "loop", NEW r, FlowOK(r), LeaveLoop(r)
  PROVE  Good'
<1> DEFINE c == [Me EXCEPT !.loop_depth = @ - 1]
<1>1. Me.loop_depth \in Nat \ {0}
  BY TopCounted, MeType DEF Good, Nested, Counts, Me, K
<1>2. /\ c \in Shell /\ c.depth = Me.depth /\ c.loop_depth = Me.loop_depth - 1
      /\ c.func_depth = Me.func_depth /\ c.errexit_off = Me.errexit_off
  BY <1>1, MeType DEF Shell
<1>3. shells' = [shells EXCEPT ![K] = c] /\ stack' = Popped /\ flow' = r
  BY DEF LeaveLoop, Me
<1> HIDE DEF c
<1>4. /\ c.depth = Me.depth - One(Top.fn, {"list", "call"})
      /\ c.loop_depth = Me.loop_depth - One(Top.fn, {"loop"})
      /\ c.func_depth = Me.func_depth - One(Top.fn, {"call", "dot"})
      /\ c.errexit_off = Me.errexit_off - One(Top.fn, {"ignoring"})
  BY <1>2, MeType, ShellCounters DEF One
<1> QED
  BY <1>2, <1>3, <1>4, LeaveGood

LEMMA CopyOp ==
  ASSUME Good, NEW base, Nested(shells, base), base # <<>>, NEW body \in Pcs, copy(base, body)
  PROVE  Good'
<1> DEFINE f == [fn |-> "copy", pc |-> body, self |-> K + 1, st |-> 0]
<1>1. f \in FrameType /\ f.self = Len(shells) + 1 /\ f.fn = "copy"
  <2>1. K + 1 \in Nat /\ 0 \in Statuses /\ "copy" \in Fns
    BY MeType DEF Statuses, Fns
  <2> QED
    BY <2>1 DEF FrameType, K
<1>2. /\ subshell \in Shell /\ subshell.depth = Me.depth /\ subshell.loop_depth = Me.loop_depth
      /\ subshell.func_depth = Me.func_depth /\ subshell.errexit_off = Me.errexit_off
  BY MeType DEF Shell, subshell
<1>3. stack' = Append(base, f) /\ shells' = Append(shells, subshell) /\ flow' = Running
  BY DEF copy
<1> HIDE DEF f
<1>4. Nested(Append(shells, subshell), Append(base, f))
  BY <1>1, <1>2, NestedCopy DEF Me, K
<1> QED
  BY <1>3, <1>4 DEF Good, FlowOK, FlowTags, Running

LEMMA FlowFacts ==
  /\ FlowOK(Running) /\ FlowOK(Error) /\ FlowOK(Interrupted)
  /\ \A s \in Statuses : FlowOK(Ok(s)) /\ FlowOK(Exit(s)) /\ FlowOK(Return(s))
  /\ \A s \in Statuses : FlowOK(errexit_check(s))
  /\ 0 \in Statuses /\ 1 \in Statuses /\ 2 \in Statuses
<1>1. FlowOK(Running) /\ FlowOK(Error) /\ FlowOK(Interrupted)
  BY DEF FlowOK, FlowTags, Running, Error, Interrupted, Statuses
<1>2. \A s \in Statuses : FlowOK(Ok(s)) /\ FlowOK(Exit(s)) /\ FlowOK(Return(s))
  BY DEF FlowOK, FlowTags, Ok, Exit, Return, Statuses
<1> QED
  BY <1>1, <1>2 DEF errexit_check, Statuses

LEMMA BoundaryType ==
  ASSUME FlowOK(flow), flow # Running
  PROVE  boundary(flow) \in Statuses
<1>1. flow \in [tag : FlowTags, n : Nat]
  BY DEF FlowOK
<1>2. flow.tag # "running"
  BY <1>1 DEF FlowOK, Running
<1>3. flow.tag \in {"ok", "exit", "return", "error"} => flow.n \in Statuses
  BY DEF FlowOK
<1> QED
  BY <1>1, <1>2, <1>3 DEF FlowTags, boundary, Statuses

LEMMA RunExitTrapOp ==
  ASSUME Good, NEW base, Nested(shells, base), NEW s \in Statuses, run_exit_trap(base, s)
  PROVE  Good'
<1>1. CASE ~Me.exit_trap
  BY <1>1, FlowFacts, StaysSame DEF run_exit_trap
<1>2. CASE Me.exit_trap
  <2> DEFINE f == Frame("exit_trap", "start", s)
             c == [Me EXCEPT !.exit_trap = FALSE, !.status = s]
  <2>1. f \in FrameType /\ f.self = K /\ f.fn = "exit_trap"
    <3>1. K \in Nat
      BY MeType
    <3> QED
      BY <3>1 DEF Frame, FrameType, Fns, Pcs
  <2>2. /\ c \in Shell /\ c.depth = Me.depth /\ c.loop_depth = Me.loop_depth
        /\ c.func_depth = Me.func_depth /\ c.errexit_off = Me.errexit_off
    BY MeType DEF Shell
  <2>3. stack' = Append(base, f) /\ flow' = Running /\ shells' = [shells EXCEPT ![K] = c]
    BY <1>2 DEF run_exit_trap, Me
  <2> HIDE DEF f, c
  <2>4. /\ c.depth = Me.depth + One(f.fn, {"list", "call"})
        /\ c.loop_depth = Me.loop_depth + One(f.fn, {"loop"})
        /\ c.func_depth = Me.func_depth + One(f.fn, {"call", "dot"})
        /\ c.errexit_off = Me.errexit_off + One(f.fn, {"ignoring"})
        /\ c.depth <= MAX_DEPTH /\ f.fn # "copy"
    BY <2>1, <2>2, MeType, ShellCounters DEF One, Good, Nested, Me, K
  <2> QED
    BY <2>1, <2>2, <2>3, <2>4, EnterGood
<1> QED
  BY <1>1, <1>2

-----------------------------------------------------------------------------
(* The actions.                                                             *)

LEMMA ListsGood ==
  ASSUME Good, ListCheck \/ ListItem \/ ListItemDone \/ ListNext \/ ListEnd \/ ListFails
               \/ TrapsDone
  PROVE  Good' /\ stack # <<>>
<1>1. CASE ListCheck
  <2>1. stack # <<>> /\ Top.fn = "list"
    BY <1>1 DEF ListCheck, In
  <2>2. Nested(shells, At("before"))
    BY <2>1, AtSame, FlowFacts DEF Pcs
  <2>3. CASE interrupted
    BY <1>1, <2>1, <2>3, LeaveListOp, FlowFacts DEF ListCheck
  <2>4. CASE ~interrupted
    BY <1>1, <2>1, <2>2, <2>4, StaysSame DEF ListCheck, Good
  <2> QED
    BY <2>1, <2>3, <2>4
<1>2. CASE ListItem
  <2>1. stack # <<>> /\ Calls(AtWith("after", 0), Frame("and_or", "first", 0))
    BY <1>2 DEF ListItem, In
  <2>2. Nested(shells, AtWith("after", 0))
    BY <2>1, AtSame, FlowFacts DEF Pcs
  <2>3. "and_or" \in Uncounted /\ "first" \in Pcs
    BY DEF Uncounted, Fns, Pcs
  <2> QED
    BY <2>1, <2>2, <2>3, CallsGood, FlowFacts
<1>3. CASE ListItemDone
  <2>1. stack # <<>> /\ flow.n \in Statuses
    BY <1>3 DEF ListItemDone, GotOk, Good, FlowOK
  <2>2. Nested(shells, AtWith("after", flow.n))
    BY <2>1, AtSame DEF Pcs
  <2> QED
    BY <1>3, <2>1, <2>2, StaysSame, FlowFacts DEF ListItemDone
<1>4. CASE ListNext
  <2>1. stack # <<>>
    BY <1>4 DEF ListNext, In
  <2>2. Nested(shells, At("check"))
    BY <2>1, AtSame, FlowFacts DEF Pcs
  <2> QED
    BY <1>4, <2>1, <2>2, StaysSame DEF ListNext, Good
<1>5. CASE ListEnd
  <2>1. stack # <<>> /\ Top.fn = "list" /\ LeaveList(Ok(Top.st))
    BY <1>5 DEF ListEnd, In
  <2>2. FlowOK(Ok(Top.st))
    BY <2>1, TopType, FlowFacts
  <2> QED
    BY <2>1, <2>2, LeaveListOp
<1>6. CASE ListFails
  BY <1>6, LeaveListOp DEF ListFails, GotErr, Good
<1>7. CASE TrapsDone
  <2>1. stack # <<>> /\ Top.fn \in Uncounted /\ Gives(Running)
    BY <1>7 DEF TrapsDone, In, Uncounted, Fns
  <2> QED
    BY <2>1, GivesGood, FlowFacts
<1> QED
  BY <1>1, <1>2, <1>3, <1>4, <1>5, <1>6, <1>7

(* A call that counts in no counter returns, and sets `$?'.                 *)
LEMMA ReturnsStatus ==
  ASSUME Good, stack # <<>>, Top.fn \in Uncounted, NEW s \in Statuses, NEW r, FlowOK(r),
         stack' = Popped, flow' = r, shells' = [shells EXCEPT ![K].status = s]
  PROVE  Good'
<1> DEFINE c == [Me EXCEPT !.status = s]
<1>1. /\ c \in Shell /\ c.depth = Me.depth /\ c.loop_depth = Me.loop_depth
      /\ c.func_depth = Me.func_depth /\ c.errexit_off = Me.errexit_off
  BY MeType DEF Shell
<1>2. shells' = [shells EXCEPT ![K] = c]
  BY DEF Me
<1> HIDE DEF c
<1>3. /\ c.depth = Me.depth - One(Top.fn, {"list", "call"})
      /\ c.loop_depth = Me.loop_depth - One(Top.fn, {"loop"})
      /\ c.func_depth = Me.func_depth - One(Top.fn, {"call", "dot"})
      /\ c.errexit_off = Me.errexit_off - One(Top.fn, {"ignoring"})
      /\ Top.fn # "copy"
  BY <1>1, MeType, ShellCounters DEF One, Uncounted
<1> QED
  BY <1>1, <1>2, <1>3, LeaveGood

LEMMA AndOrGood ==
  ASSUME Good, AndOrFirst \/ AndOrRest \/ PassOn
  PROVE  Good' /\ stack # <<>>
<1>1. CASE AndOrFirst
  <2>1. stack # <<>>
    BY <1>1 DEF AndOrFirst, In
  <2>2. Nested(shells, At("last")) /\ Nested(shells, At("rest")) /\ "pipeline" \in Pcs
    BY <2>1, AtSame, FlowFacts DEF Pcs
  <2>3. run_pipeline(At("last")) \/ ignoring_errexit(At("rest"), "pipeline")
    BY <1>1 DEF AndOrFirst
  <2> QED
    BY <2>1, <2>2, <2>3, RunPipelineOp, IgnoringOp
<1>2. CASE AndOrRest
  <2>1. stack # <<>> /\ Top.fn \in Uncounted
    BY <1>2 DEF AndOrRest, GotOk, Uncounted, Fns
  <2>2. Nested(shells, At("last")) /\ Nested(shells, stack) /\ "pipeline" \in Pcs
    BY <2>1, AtSame, FlowFacts DEF Pcs, Good
  <2>3. \/ run_pipeline(At("last"))
        \/ ignoring_errexit(stack, "pipeline")
        \/ Gives(flow)
    BY <1>2 DEF AndOrRest
  <2> QED
    BY <2>1, <2>2, <2>3, RunPipelineOp, IgnoringOp, GivesGood DEF Good
<1>3. CASE PassOn
  <2>1. stack # <<>> /\ Top.fn \in Uncounted /\ Gives(flow)
    BY <1>3 DEF PassOn, GotOk, GotErr, Uncounted, Fns
  <2> QED
    BY <2>1, GivesGood DEF Good
<1> QED
  BY <1>1, <1>2, <1>3

LEMMA PipelinesGood ==
  ASSUME Good, Pipeline \/ PipelineDone \/ IgnoringBody \/ IgnoringDone
  PROVE  Good' /\ stack # <<>>
<1>1. CASE Pipeline
  <2>1. stack # <<>> /\ (run_commands(stack) \/ ignoring_errexit(stack, "commands"))
    BY <1>1 DEF Pipeline, In
  <2>2. Nested(shells, stack) /\ "commands" \in Pcs
    BY DEF Good, Pcs
  <2> QED
    BY <2>1, <2>2, RunCommandsOp, IgnoringOp
<1>2. CASE PipelineDone
  <2>1. stack # <<>> /\ Top.fn \in Uncounted
    BY <1>2 DEF PipelineDone, Got, Uncounted, Fns
  <2>2. CASE Gives(flow)
    BY <2>1, <2>2, GivesGood DEF Good
  <2>3. CASE ~Gives(flow)
    <3> DEFINE negated == IF flow.n = 0 THEN 1 ELSE 0
    <3>1. negated \in Statuses
      BY DEF Statuses
    <3>2. stack' = Popped /\ flow' = Ok(negated) /\ shells' = [shells EXCEPT ![K].status = negated]
      BY <1>2, <2>3 DEF PipelineDone
    <3> HIDE DEF negated
    <3> QED
      BY <2>1, <3>1, <3>2, ReturnsStatus, FlowFacts
  <2> QED
    BY <2>1, <2>2, <2>3
<1>3. CASE IgnoringBody
  <2>1. stack # <<>> /\ (run_pipeline(stack) \/ run_commands(stack) \/ run_list(stack))
    BY <1>3 DEF IgnoringBody, In
  <2>2. Nested(shells, stack)
    BY DEF Good
  <2> QED
    BY <2>1, <2>2, RunPipelineOp, RunCommandsOp, RunListOp
<1>4. CASE IgnoringDone
  <2> DEFINE c == [Me EXCEPT !.errexit_off = @ - 1]
  <2>1. /\ stack # <<>> /\ Top.fn = "ignoring" /\ stack' = Popped /\ flow' = flow
        /\ shells' = [shells EXCEPT ![K] = c]
    BY <1>4 DEF IgnoringDone, Got, Me
  <2>2. Me.errexit_off \in Nat \ {0}
    BY <2>1, TopCounted, MeType DEF Good, Nested, Counts, Me, K
  <2>3. /\ c \in Shell /\ c.depth = Me.depth /\ c.loop_depth = Me.loop_depth
        /\ c.func_depth = Me.func_depth /\ c.errexit_off = Me.errexit_off - 1
    BY <2>2, MeType DEF Shell
  <2> HIDE DEF c
  <2>4. /\ c.depth = Me.depth - One(Top.fn, {"list", "call"})
        /\ c.loop_depth = Me.loop_depth - One(Top.fn, {"loop"})
        /\ c.func_depth = Me.func_depth - One(Top.fn, {"call", "dot"})
        /\ c.errexit_off = Me.errexit_off - One(Top.fn, {"ignoring"})
    BY <2>1, <2>3, MeType, ShellCounters DEF One
  <2> QED
    BY <2>1, <2>3, <2>4, LeaveGood DEF Good
<1> QED
  BY <1>1, <1>2, <1>3, <1>4

LEMMA CopiesGood ==
  ASSUME Good, CopyBody \/ finish_copy \/ CopyDone \/ ExitTrapText \/ ExitTrapDone
  PROVE  Good' /\ stack # <<>>
<1>1. CASE CopyBody
  <2>1. stack # <<>> /\ (run_list(At("body")) \/ run_command(At("body")))
    BY <1>1 DEF CopyBody, In
  <2>2. Nested(shells, At("body"))
    BY <2>1, AtSame, FlowFacts DEF Pcs
  <2> QED
    BY <2>1, <2>2, RunListOp, RunCommandOp
<1>2. CASE finish_copy
  <2>1. stack # <<>> /\ flow # Running /\ run_exit_trap(At("finished"), boundary(flow))
    BY <1>2 DEF finish_copy, Got
  <2>2. Nested(shells, At("finished"))
    BY <2>1, AtSame, FlowFacts DEF Pcs
  <2>3. boundary(flow) \in Statuses
    BY <2>1, BoundaryType DEF Good
  <2> QED
    BY <2>1, <2>2, <2>3, RunExitTrapOp
<1>3. CASE CopyDone
  <2>1. /\ stack # <<>> /\ Top.fn = "copy" /\ stack' = Popped
        /\ shells' = SubSeq(shells, 1, K - 1) /\ flow' = flow
    BY <1>3 DEF CopyDone, Got
  <2> QED
    BY <2>1, NestedCopyDone DEF Good, Top, K, Popped, Below
<1>4. CASE ExitTrapText
  <2>1. stack # <<>> /\ Calls(stack, Frame("text", "line", Me.status))
    BY <1>4 DEF ExitTrapText, In
  <2>2. "text" \in Uncounted /\ "line" \in Pcs
    BY DEF Uncounted, Fns, Pcs
  <2> QED
    BY <2>1, <2>2, MeType, CallsGood DEF Good
<1>5. CASE ExitTrapDone
  <2>1. /\ stack # <<>> /\ Top.fn \in Uncounted
        /\ Gives(IF flow.tag = "exit" THEN Ok(flow.n) ELSE Ok(Top.st))
    BY <1>5 DEF ExitTrapDone, Got, Uncounted, Fns
  <2>2. FlowOK(IF flow.tag = "exit" THEN Ok(flow.n) ELSE Ok(Top.st))
    <3>1. flow.tag = "exit" => flow.n \in Statuses
      BY DEF Good, FlowOK
    <3>2. Top.st \in Statuses
      BY <2>1, TopType
    <3> QED
      BY <3>1, <3>2, FlowFacts
  <2> QED
    BY <2>1, <2>2, GivesGood
<1> QED
  BY <1>1, <1>2, <1>3, <1>4, <1>5

LEMMA StagesGood ==
  ASSUME Good, StagesRun \/ StagesNoPipe \/ StagesNext \/ StagesDone
  PROVE  Good' /\ stack # <<>>
<1>1. stack # <<>> /\ Top.fn \in Uncounted
  BY DEF StagesRun, StagesNoPipe, StagesNext, StagesDone, In, GotOk, Uncounted, Fns
<1>2. CASE StagesRun
  <2>1. Nested(shells, stack) /\ "command" \in Pcs
    BY DEF Good, Pcs
  <2>2. copy(stack, "command") \/ (flow' = Ok(1) /\ UNCHANGED <<stack, shells>>)
    BY <1>2 DEF StagesRun
  <2> QED
    BY <1>1, <2>1, <2>2, CopyOp, StaysSame, FlowFacts
<1>3. CASE StagesNoPipe
  <2>1. Gives(errexit_check(1)) /\ FlowOK(errexit_check(1))
    BY <1>3, FlowFacts DEF StagesNoPipe
  <2> QED
    BY <1>1, <2>1, GivesGood
<1>4. ASSUME NEW pipefail \in BOOLEAN, flow.tag = "ok"
      PROVE  StageStatus(pipefail) \in Statuses
  BY <1>1, <1>4, TopType DEF StageStatus, Good, FlowOK
<1>5. CASE StagesNext
  <2>1. PICK pipefail \in BOOLEAN : stack' = AtWith("more", StageStatus(pipefail))
    BY <1>5 DEF StagesNext
  <2>2. StageStatus(pipefail) \in Statuses /\ flow' = Running /\ UNCHANGED shells
    BY <1>4, <1>5 DEF StagesNext, GotOk
  <2>3. Nested(shells, AtWith("more", StageStatus(pipefail)))
    BY <1>1, <2>2, AtSame DEF Pcs
  <2> QED
    BY <1>1, <2>1, <2>2, <2>3, StaysSame, FlowFacts
<1>6. CASE StagesDone
  <2>1. CASE interrupted
    BY <1>1, <1>6, <2>1, GivesGood, FlowFacts DEF StagesDone
  <2>2. CASE ~interrupted
    <3>1. PICK pipefail \in BOOLEAN :
            /\ stack' = Popped
            /\ flow' = errexit_check(StageStatus(pipefail))
            /\ shells' = [shells EXCEPT ![K].status = StageStatus(pipefail)]
      BY <1>6, <2>2 DEF StagesDone
    <3>2. StageStatus(pipefail) \in Statuses
      BY <1>4, <1>6 DEF StagesDone, GotOk
    <3>3. FlowOK(errexit_check(StageStatus(pipefail)))
      BY <3>2, FlowFacts
    <3> QED
      BY <1>1, <3>1, <3>2, <3>3, ReturnsStatus
  <2> QED
    BY <2>1, <2>2
<1> QED
  BY <1>1, <1>2, <1>3, <1>5, <1>6

LEMMA CommandGivesOp ==
  ASSUME Good, NEW r, FlowOK(r), CommandGives(r)
  PROVE  Good'
BY StaysSame DEF CommandGives, Good

LEMMA LoopStarts ==
  ASSUME Good, stack # <<>>, NEW pc \in Pcs,
         stack' = Append(stack, Frame("loop", pc, 0)),
         shells' = [shells EXCEPT ![K].loop_depth = @ + 1], flow' = Running
  PROVE  Good'
<1> DEFINE f == Frame("loop", pc, 0)
           c == [Me EXCEPT !.loop_depth = @ + 1]
<1>1. f \in FrameType /\ f.self = K /\ f.fn = "loop"
  BY MeType, FlowFacts DEF Frame, FrameType, Fns
<1>2. /\ c \in Shell /\ c.depth = Me.depth /\ c.loop_depth = Me.loop_depth + 1
      /\ c.func_depth = Me.func_depth /\ c.errexit_off = Me.errexit_off
  BY MeType DEF Shell
<1>3. stack' = Append(stack, f) /\ shells' = [shells EXCEPT ![K] = c]
  BY DEF Me
<1> HIDE DEF f, c
<1>4. /\ c.depth = Me.depth + One(f.fn, {"list", "call"})
      /\ c.loop_depth = Me.loop_depth + One(f.fn, {"loop"})
      /\ c.func_depth = Me.func_depth + One(f.fn, {"call", "dot"})
      /\ c.errexit_off = Me.errexit_off + One(f.fn, {"ignoring"})
      /\ c.depth <= MAX_DEPTH /\ f.fn # "copy"
  <2>1. /\ One(f.fn, {"list", "call"}) = 0 /\ One(f.fn, {"loop"}) = 1
        /\ One(f.fn, {"call", "dot"}) = 0 /\ One(f.fn, {"ignoring"}) = 0
        /\ f.fn # "copy"
    BY <1>1 DEF One
  <2>2. /\ Me.depth \in Nat /\ Me.loop_depth \in Nat
        /\ Me.func_depth \in Nat /\ Me.errexit_off \in Nat
    BY MeType, ShellCounters
  <2>3. Me.depth <= MAX_DEPTH
    BY MeType DEF Good, Nested, Me, K
  <2> QED
    BY <1>2, <2>1, <2>2, <2>3
<1>5. Nested(shells, stack) /\ c \in Shell
  BY <1>2 DEF Good
<1> QED
  BY <1>1, <1>3, <1>4, <1>5, EnterGood

LEMMA CompoundGood ==
  ASSUME Good, RedirectFails \/ run_compound \/ IfCondition \/ IfTested
  PROVE  Good' /\ stack # <<>>
<1>1. stack # <<>> /\ Top.fn \in Uncounted /\ Nested(shells, stack)
  BY DEF RedirectFails, run_compound, IfCondition, IfTested, Compound, In, GotOk, Uncounted,
         Fns, Good
<1>2. CASE RedirectFails
  <2>1. \/ stack' = Popped /\ flow' = Ok(2) /\ shells' = [shells EXCEPT ![K].status = 2]
        \/ Gives(Error)
    BY <1>2 DEF RedirectFails
  <2> QED
    BY <1>1, <2>1, ReturnsStatus, GivesGood, FlowFacts
<1>3. CASE run_compound
  <2>1. \/ copy(stack, "list")
        \/ run_list(stack)
        \/ Calls(stack, Frame("if", "condition", 0))
        \/ CommandGives(Ok(0))
        \/ CommandGives(Error)
        \/ /\ stack' = Append(stack, Frame("loop", Top.pc, 0))
           /\ shells' = [shells EXCEPT ![K].loop_depth = @ + 1]
           /\ flow' = Running
    BY <1>3 DEF run_compound
  <2>2. "list" \in Pcs /\ "condition" \in Pcs /\ "if" \in Uncounted /\ Top.pc \in Pcs
    BY <1>1, TopType DEF Pcs, Uncounted, Fns
  <2> QED
    BY <1>1, <2>1, <2>2, CopyOp, RunListOp, CallsGood, CommandGivesOp, LoopStarts, FlowFacts
<1>4. CASE IfCondition
  <2>1. ignoring_errexit(At("tested"), "list") /\ "list" \in Pcs
    BY <1>4 DEF IfCondition, Pcs
  <2>2. Nested(shells, At("tested"))
    BY <1>1, AtSame, FlowFacts DEF Pcs
  <2> QED
    BY <1>1, <2>1, <2>2, IgnoringOp
<1>5. CASE IfTested
  <2>1. \/ run_list(At("body"))
        \/ stack' = At("condition") /\ flow' = Running /\ UNCHANGED shells
        \/ Gives(Ok(0))
    BY <1>5 DEF IfTested
  <2>2. Nested(shells, At("body")) /\ Nested(shells, At("condition"))
    BY <1>1, AtSame, FlowFacts DEF Pcs
  <2> QED
    BY <1>1, <2>1, <2>2, RunListOp, StaysSame, GivesGood, FlowFacts
<1> QED
  BY <1>1, <1>2, <1>3, <1>4, <1>5

LEMMA LoopsGood ==
  ASSUME Good, LoopPass \/ LoopTested \/ loop_body \/ LoopConditionFails
  PROVE  Good' /\ stack # <<>>
<1>1. stack # <<>> /\ Top.fn = "loop" /\ Nested(shells, stack) /\ FlowOK(flow)
  BY DEF LoopPass, LoopTested, loop_body, LoopConditionFails, In, Got, GotOk, GotErr, Good
<1>2. Top.st \in Statuses /\ FlowOK(Ok(Top.st))
  BY <1>1, TopType, FlowFacts
<1>3. CASE LoopPass
  <2>1. \/ LeaveLoop(Interrupted)
        \/ ignoring_errexit(At("condition"), "list")
        \/ run_list(At("for_body"))
        \/ LeaveLoop(Error)
        \/ LeaveLoop(Ok(Top.st))
    BY <1>3 DEF LoopPass
  <2>2. /\ Nested(shells, At("condition")) /\ Nested(shells, At("for_body"))
        /\ "list" \in Pcs
    BY <1>1, AtSame, FlowFacts DEF Pcs
  <2> QED
    BY <1>1, <1>2, <2>1, <2>2, LeaveLoopOp, IgnoringOp, RunListOp, FlowFacts
<1>4. CASE LoopTested
  <2>1. LeaveLoop(Ok(Top.st)) \/ run_list(At("while_body"))
    BY <1>4 DEF LoopTested
  <2>2. Nested(shells, At("while_body"))
    BY <1>1, AtSame, FlowFacts DEF Pcs
  <2> QED
    BY <1>1, <1>2, <2>1, <2>2, LeaveLoopOp, RunListOp
<1>5. CASE loop_body
  <2>1. NextPass \in Pcs
    BY DEF NextPass, Pcs, AllKinds
  <2>2. Nested(shells, At(NextPass))
    BY <1>1, <2>1, AtSame, FlowFacts
  <2>3. CASE flow.tag = "ok" /\ stack' = AtWith(NextPass, flow.n) /\ flow' = Running /\ UNCHANGED shells
    <3>1. flow.n \in Statuses
      BY <1>1, <2>3 DEF FlowOK
    <3>2. Nested(shells, AtWith(NextPass, flow.n))
      BY <1>1, <2>1, <3>1, AtSame
    <3> QED
      BY <1>1, <2>3, <3>2, StaysSame, FlowFacts
  <2>4. CASE flow.tag \in {"break", "continue"} /\ flow.n > 1 /\ LeaveLoop([flow EXCEPT !.n = @ - 1])
    <3>1. FlowOK([flow EXCEPT !.n = @ - 1])
      BY <1>1, <2>4 DEF FlowOK, FlowTags
    <3> QED
      BY <1>1, <2>4, <3>1, LeaveLoopOp
  <2>5. CASE stack' = At(NextPass) /\ flow' = Running /\ UNCHANGED shells
    BY <1>1, <2>2, <2>5, StaysSame, FlowFacts
  <2>6. CASE LeaveLoop(Ok(Top.st)) \/ LeaveLoop(flow)
    BY <1>1, <1>2, <2>6, LeaveLoopOp
  <2> QED
    BY <1>1, <1>5, <2>3, <2>4, <2>5, <2>6 DEF loop_body
<1>6. CASE LoopConditionFails
  BY <1>1, <1>6, LeaveLoopOp DEF LoopConditionFails
<1> QED
  BY <1>1, <1>3, <1>4, <1>5, <1>6

LEMMA ExpansionsGood ==
  ASSUME Good, command_substitution \/ ExpansionFails \/ Expanded
  PROVE  Good' /\ stack # <<>>
<1>1. stack # <<>> /\ Nested(shells, stack) /\ FlowOK(flow)
  BY DEF command_substitution, ExpansionFails, Expanded, Expanding, In, GotOk, Good
<1>2. \A pc \in {"words", "assignments", "simple", "ready"} :
        pc \in Pcs /\ Nested(shells, At(pc)) /\ At(pc) # <<>>
  BY <1>1, AtSame, FlowFacts DEF Pcs, AllKinds
<1>3. CASE command_substitution
  <2>1. CASE copy(At("words"), "list") \/ copy(At("assignments"), "list")
    <3>1. "list" \in Pcs
      BY DEF Pcs
    <3>2. CASE copy(At("words"), "list")
      BY <1>1, <1>2, <3>1, <3>2, CopyOp
    <3>3. CASE copy(At("assignments"), "list")
      BY <1>1, <1>2, <3>1, <3>3, CopyOp
    <3> QED
      BY <2>1, <3>2, <3>3
  <2>2. CASE GotOk("command") /\ flow' = Running /\ UNCHANGED shells
             /\ (stack' = AtWith("simple", flow.n) \/ stack' = AtWith("ready", flow.n))
    <3>1. flow.n \in Statuses
      BY <1>1, <2>2 DEF GotOk, FlowOK
    <3>2. Nested(shells, AtWith("simple", flow.n)) /\ Nested(shells, AtWith("ready", flow.n))
      BY <1>1, <1>2, <3>1, AtSame
    <3> QED
      BY <1>1, <2>2, <3>2, StaysSame, FlowFacts
  <2> QED
    BY <1>1, <1>3, <2>1, <2>2 DEF command_substitution
<1>4. CASE ExpansionFails
  BY <1>1, <1>4, CommandGivesOp, FlowFacts DEF ExpansionFails
<1>5. CASE Expanded
  <2>1. CommandGives(Interrupted) \/ (stack' = At("ready") /\ UNCHANGED <<shells, flow>>)
    BY <1>5 DEF Expanded
  <2> QED
    BY <1>1, <1>2, <2>1, CommandGivesOp, StaysSame, FlowFacts
<1> QED
  BY <1>1, <1>3, <1>4, <1>5

(* A builtin changes a field of the shell that counts nothing.              *)
LEMMA BuiltinSets ==
  ASSUME Good, NEW c \in Shell, c.depth = Me.depth, c.loop_depth = Me.loop_depth,
         c.func_depth = Me.func_depth, c.errexit_off = Me.errexit_off,
         shells' = [shells EXCEPT ![K] = c], flow' \in {Ok(0), Ok(1)}, UNCHANGED stack
  PROVE  Good'
BY StaysGood, FlowFacts DEF Good

LEMMA SimplesGood ==
  ASSUME Good,
         SimpleFails \/ RunAssignment \/ RunBuiltin \/ RunExit \/ RunReturn
         \/ loop_control("break") \/ loop_control("continue") \/ RunSet \/ SetExitTrap
  PROVE  Good' /\ stack # <<>>
<1>1. stack # <<>> /\ Top.st \in Statuses
  BY TopType DEF SimpleFails, RunAssignment, RunBuiltin, RunExit, RunReturn, loop_control,
                 RunSet, SetExitTrap, Simple, In
<1>2. Results \subseteq Statuses /\ MaxCount \in Nat /\ Operands \subseteq Statuses
  BY ConstantsAssumption, MeType DEF Operands
<1>3. CASE SimpleFails
  BY <1>1, <1>3, CommandGivesOp, FlowFacts DEF SimpleFails
<1>4. CASE RunAssignment
  BY <1>1, <1>4, CommandGivesOp, FlowFacts DEF RunAssignment
<1>5. CASE RunBuiltin
  <2>1. PICK s \in Results : CommandGives(Ok(s)) \/ CommandGives(Exit(s))
    BY <1>5 DEF RunBuiltin
  <2> QED
    BY <1>1, <1>2, <2>1, CommandGivesOp, FlowFacts
<1>6. CASE RunExit
  <2>1. PICK s \in Operands : CommandGives(Exit(s))
    BY <1>6 DEF RunExit
  <2> QED
    BY <1>1, <1>2, <2>1, CommandGivesOp, FlowFacts
<1>7. CASE RunReturn
  <2>1. CommandGives(Ok(2)) \/ \E s \in Operands : CommandGives(Return(s))
    BY <1>7 DEF RunReturn
  <2>2. ASSUME NEW s \in Operands, CommandGives(Return(s))
        PROVE  Good'
    BY <1>2, <2>2, CommandGivesOp, FlowFacts
  <2> QED
    BY <1>1, <2>1, <2>2, CommandGivesOp, FlowFacts
<1>8. ASSUME NEW kind \in {"break", "continue"}, loop_control(kind)
      PROVE  Good'
  <2>1. CASE CommandGives(Ok(2)) \/ CommandGives(Ok(0))
    BY <2>1, CommandGivesOp, FlowFacts
  <2>2. CASE \E n \in 1..MaxCount :
               CommandGives([tag |-> kind, n |-> IF n < Me.loop_depth THEN n ELSE Me.loop_depth])
    <3>1. PICK n \in 1..MaxCount :
            CommandGives([tag |-> kind, n |-> IF n < Me.loop_depth THEN n ELSE Me.loop_depth])
      BY <2>2
    <3> DEFINE m == IF n < Me.loop_depth THEN n ELSE Me.loop_depth
    <3>2. m \in Nat
      BY <1>2, MeType, ShellCounters
    <3> HIDE DEF m
    <3>3. FlowOK([tag |-> kind, n |-> m])
      BY <3>2 DEF FlowOK, FlowTags
    <3> QED
      BY <3>1, <3>3, CommandGivesOp DEF m
  <2> QED
    BY <1>8, <2>1, <2>2 DEF loop_control
<1>9. CASE RunSet
  <2>1. PICK e \in BOOLEAN : shells' = [shells EXCEPT ![K].errexit = e]
    BY <1>9 DEF RunSet
  <2> DEFINE c == [Me EXCEPT !.errexit = e]
  <2>2. /\ c \in Shell /\ c.depth = Me.depth /\ c.loop_depth = Me.loop_depth
        /\ c.func_depth = Me.func_depth /\ c.errexit_off = Me.errexit_off
    BY MeType DEF Shell
  <2>3. shells' = [shells EXCEPT ![K] = c] /\ flow' = Ok(0) /\ UNCHANGED stack
    BY <1>9, <2>1 DEF RunSet, Me
  <2> HIDE DEF c
  <2> QED
    BY <1>1, <2>2, <2>3, BuiltinSets
<1>10. CASE SetExitTrap
  <2>1. PICK t \in BOOLEAN : shells' = [shells EXCEPT ![K].exit_trap = t]
    BY <1>10 DEF SetExitTrap
  <2> DEFINE c == [Me EXCEPT !.exit_trap = t]
  <2>2. /\ c \in Shell /\ c.depth = Me.depth /\ c.loop_depth = Me.loop_depth
        /\ c.func_depth = Me.func_depth /\ c.errexit_off = Me.errexit_off
    BY MeType DEF Shell
  <2>3. shells' = [shells EXCEPT ![K] = c] /\ flow' \in {Ok(0), Ok(1)} /\ UNCHANGED stack
    BY <1>10, <2>1 DEF SetExitTrap, Me
  <2> HIDE DEF c
  <2> QED
    BY <1>1, <2>2, <2>3, BuiltinSets
<1> QED
  BY <1>1, <1>3, <1>4, <1>5, <1>6, <1>7, <1>8, <1>9, <1>10

(* A shell with another depth and number of function calls.                 *)
Differs(c, s, d, f) ==
  /\ c \in Shell /\ c.depth = d /\ c.func_depth = f
  /\ c.loop_depth = s.loop_depth /\ c.errexit_off = s.errexit_off

LEMMA TwoCounters ==
  ASSUME NEW s \in Shell, NEW d \in Nat, NEW f \in Nat
  PROVE  /\ Differs([s EXCEPT !.depth = d, !.func_depth = f], s, d, f)
         /\ Differs([s EXCEPT !.func_depth = f, !.depth = d], s, d, f)
BY DEF Shell, Differs

LEMMA FunctionsGood ==
  ASSUME Good, call_function \/ FunctionBody \/ FunctionDone \/ RunEval \/ RunDot
               \/ DotText \/ DotDone
  PROVE  Good' /\ stack # <<>>
<1>1. stack # <<>> /\ Nested(shells, stack) /\ FlowOK(flow)
  BY DEF call_function, FunctionBody, FunctionDone, RunEval, RunDot, DotText, DotDone, Simple,
         In, Got, Good
<1>2. FlowOK(IF flow.tag = "return" THEN Ok(flow.n) ELSE flow)
  BY <1>1, FlowFacts DEF FlowOK
<1>3. CASE call_function
  <2> DEFINE f == Frame("call", "body", 0)
             c == [Me EXCEPT !.depth = @ + 1, !.func_depth = @ + 1]
  <2>1. f \in FrameType /\ f.self = K /\ f.fn = "call"
    BY MeType, FlowFacts DEF Frame, FrameType, Fns, Pcs
  <2>2. /\ c \in Shell /\ c.depth = Me.depth + 1 /\ c.loop_depth = Me.loop_depth
        /\ c.func_depth = Me.func_depth + 1 /\ c.errexit_off = Me.errexit_off
    <3>1. Me \in Shell /\ Me.depth + 1 \in Nat /\ Me.func_depth + 1 \in Nat
      BY MeType, ShellCounters
    <3>2. c = [Me EXCEPT !.depth = Me.depth + 1, !.func_depth = Me.func_depth + 1]
      BY <3>1 DEF Shell
    <3> HIDE DEF c
    <3>3. Differs(c, Me, Me.depth + 1, Me.func_depth + 1)
      BY <3>1, <3>2, TwoCounters
    <3> QED
      BY <3>3 DEF Differs
  <2>3. enter(stack, f, c)
    BY <1>3 DEF call_function
  <2> HIDE DEF f, c
  <2>4. f.fn \in {"list", "call"} /\ c.func_depth = Me.func_depth + One(f.fn, {"call", "dot"})
    BY <2>1, <2>2 DEF One
  <2> QED
    BY <1>1, <2>1, <2>2, <2>3, <2>4, EnterOp
<1>4. CASE FunctionBody
  <2>1. PICK kind \in KindsHere : Calls(stack, Frame("command", kind, 0))
    BY <1>4 DEF FunctionBody
  <2>2. kind \in Pcs /\ "command" \in Uncounted
    BY ConstantsAssumption DEF Pcs, Uncounted, Fns, KindsHere
  <2> QED
    BY <1>1, <2>1, <2>2, CallsGood, FlowFacts
<1>5. CASE FunctionDone
  <2> DEFINE c == [Me EXCEPT !.func_depth = @ - 1, !.depth = @ - 1]
  <2>1. /\ Top.fn = "call" /\ stack' = Popped
        /\ flow' = IF flow.tag = "return" THEN Ok(flow.n) ELSE flow
    BY <1>5 DEF FunctionDone, Got
  <2>2. Me.depth \in Nat \ {0} /\ Me.func_depth \in Nat \ {0}
    BY <1>1, <2>1, TopCounted, MeType DEF Nested, Counts, Me, K
  <2>3. /\ c \in Shell /\ c.depth = Me.depth - 1 /\ c.loop_depth = Me.loop_depth
        /\ c.func_depth = Me.func_depth - 1 /\ c.errexit_off = Me.errexit_off
    <3>1. Me \in Shell /\ Me.depth - 1 \in Nat /\ Me.func_depth - 1 \in Nat
      BY <2>2, MeType
    <3>2. c = [Me EXCEPT !.func_depth = Me.func_depth - 1, !.depth = Me.depth - 1]
      BY <3>1 DEF Shell
    <3> HIDE DEF c
    <3>3. Differs(c, Me, Me.depth - 1, Me.func_depth - 1)
      BY <3>1, <3>2, TwoCounters
    <3> QED
      BY <3>3 DEF Differs
  <2>4. shells' = [shells EXCEPT ![K] = c]
    BY <1>5 DEF FunctionDone, Me
  <2> HIDE DEF c
  <2>5. /\ c.depth = Me.depth - One(Top.fn, {"list", "call"})
        /\ c.loop_depth = Me.loop_depth - One(Top.fn, {"loop"})
        /\ c.func_depth = Me.func_depth - One(Top.fn, {"call", "dot"})
        /\ c.errexit_off = Me.errexit_off - One(Top.fn, {"ignoring"})
    BY <2>1, <2>3, MeType, ShellCounters DEF One
  <2> QED
    BY <1>1, <1>2, <2>1, <2>3, <2>4, <2>5, LeaveGood
<1>6. CASE RunEval \/ DotText
  <2>1. \/ Calls(stack, Frame("text", "line", Me.status))
        \/ CommandGives(Ok(0)) \/ CommandGives(Ok(2))
    BY <1>6 DEF RunEval, DotText
  <2>2. "text" \in Uncounted /\ "line" \in Pcs
    BY DEF Uncounted, Fns, Pcs
  <2> QED
    BY <1>1, <2>1, <2>2, CallsGood, CommandGivesOp, FlowFacts, MeType
<1>7. CASE /\ stack' = Append(stack, Frame("dot", "start", 0))
           /\ shells' = [shells EXCEPT ![K].func_depth = @ + 1]
           /\ flow' = Running
  <2> DEFINE f == Frame("dot", "start", 0)
             c == [Me EXCEPT !.func_depth = @ + 1]
  <2>1. f \in FrameType /\ f.self = K /\ f.fn = "dot"
    BY MeType, FlowFacts DEF Frame, FrameType, Fns, Pcs
  <2>2. /\ c \in Shell /\ c.depth = Me.depth /\ c.loop_depth = Me.loop_depth
        /\ c.func_depth = Me.func_depth + 1 /\ c.errexit_off = Me.errexit_off
    <3>1. Me \in Shell /\ Me.func_depth + 1 \in Nat
      BY MeType, ShellCounters
    <3> QED
      BY <3>1 DEF Shell
  <2>3. stack' = Append(stack, f) /\ shells' = [shells EXCEPT ![K] = c] /\ flow' = Running
    BY <1>7 DEF Me
  <2> HIDE DEF f, c
  <2>4. /\ c.depth = Me.depth + One(f.fn, {"list", "call"})
        /\ c.loop_depth = Me.loop_depth + One(f.fn, {"loop"})
        /\ c.func_depth = Me.func_depth + One(f.fn, {"call", "dot"})
        /\ c.errexit_off = Me.errexit_off + One(f.fn, {"ignoring"})
        /\ c.depth <= MAX_DEPTH /\ f.fn # "copy"
    BY <1>1, <2>1, <2>2, MeType, ShellCounters DEF One, Nested, Me, K
  <2> QED
    BY <1>1, <2>1, <2>2, <2>3, <2>4, EnterGood
<1>8. CASE DotDone
  <2> DEFINE c == [Me EXCEPT !.func_depth = @ - 1]
  <2>1. /\ Top.fn = "dot" /\ stack' = Popped
        /\ flow' = IF flow.tag = "return" THEN Ok(flow.n) ELSE flow
    BY <1>8 DEF DotDone, Got
  <2>2. Me.func_depth \in Nat \ {0}
    BY <1>1, <2>1, TopCounted, MeType DEF Nested, Counts, Me, K
  <2>3. /\ c \in Shell /\ c.depth = Me.depth /\ c.loop_depth = Me.loop_depth
        /\ c.func_depth = Me.func_depth - 1 /\ c.errexit_off = Me.errexit_off
    <3>1. Me \in Shell /\ Me.func_depth - 1 \in Nat
      BY <2>2, MeType
    <3> QED
      BY <3>1 DEF Shell
  <2>4. shells' = [shells EXCEPT ![K] = c]
    BY <1>8 DEF DotDone, Me
  <2> HIDE DEF c
  <2>5. /\ c.depth = Me.depth - One(Top.fn, {"list", "call"})
        /\ c.loop_depth = Me.loop_depth - One(Top.fn, {"loop"})
        /\ c.func_depth = Me.func_depth - One(Top.fn, {"call", "dot"})
        /\ c.errexit_off = Me.errexit_off - One(Top.fn, {"ignoring"})
    BY <2>1, <2>3, MeType, ShellCounters DEF One
  <2> QED
    BY <1>1, <1>2, <2>1, <2>3, <2>4, <2>5, LeaveGood
<1>9. CASE RunDot
  <2>1. CASE CommandGives(Ok(1)) \/ CommandGives(Ok(2))
    BY <1>1, <2>1, CommandGivesOp, FlowFacts
  <2> QED
    BY <1>7, <1>9, <2>1 DEF RunDot
<1> QED
  BY <1>1, <1>3, <1>4, <1>5, <1>6, <1>8, <1>9

LEMMA TextsGood ==
  ASSUME Good, TextLine \/ TextEnd \/ TextLineDone \/ CommandDone
  PROVE  Good' /\ stack # <<>>
<1>1. /\ stack # <<>> /\ Top.fn \in Uncounted /\ Nested(shells, stack) /\ FlowOK(flow)
      /\ Top.st \in Statuses
  BY TopType DEF TextLine, TextEnd, TextLineDone, CommandDone, In, GotOk, Good, Uncounted, Fns
<1>2. CASE TextLine
  BY <1>1, <1>2, RunListOp DEF TextLine
<1>3. CASE TextEnd
  BY <1>1, <1>3, GivesGood, FlowFacts DEF TextEnd
<1>4. CASE TextLineDone
  <2> DEFINE c == [Me EXCEPT !.status = flow.n]
  <2>1. flow.n \in Statuses /\ "line" \in Pcs
    BY <1>1, <1>4 DEF TextLineDone, GotOk, FlowOK, Pcs
  <2>2. Nested(shells, AtWith("line", flow.n))
    BY <1>1, <2>1, AtSame
  <2>3. /\ c \in Shell /\ c.depth = Me.depth /\ c.loop_depth = Me.loop_depth
        /\ c.func_depth = Me.func_depth /\ c.errexit_off = Me.errexit_off
    BY <2>1, MeType DEF Shell
  <2>4. stack' = AtWith("line", flow.n) /\ shells' = [shells EXCEPT ![K] = c] /\ flow' = Running
    BY <1>4 DEF TextLineDone, Me
  <2> HIDE DEF c
  <2> QED
    BY <1>1, <2>2, <2>3, <2>4, StaysGood, FlowFacts
<1>5. CASE CommandDone
  <2>1. flow.n \in Statuses
    BY <1>1, <1>5 DEF CommandDone, GotOk, FlowOK
  <2>2. /\ stack' = Popped /\ shells' = [shells EXCEPT ![K].status = flow.n]
        /\ flow' = errexit_check(flow.n) \/ flow' = flow
    BY <1>5 DEF CommandDone
  <2>3. FlowOK(flow')
    BY <1>1, <2>1, <2>2, FlowFacts
  <2> QED
    BY <1>1, <2>1, <2>2, <2>3, ReturnsStatus
<1> QED
  BY <1>1, <1>2, <1>3, <1>4, <1>5

(* Traps, and the commands that look at signals.                            *)
LEMMA TrapsGood ==
  ASSUME Good, arrived \subseteq Signals, pending \subseteq Signals,
         TakePending \/ RunTrap \/ TrapDone
  PROVE  /\ Good' /\ stack # <<>>
         /\ arrived' \subseteq Signals /\ pending' \subseteq Signals
         /\ UNCHANGED <<line, interrupted>>
<1>1. stack # <<>> /\ Nested(shells, stack) /\ FlowOK(flow) /\ Top.st \in Statuses
  BY TopType DEF TakePending, RunTrap, TrapDone, In, Got, Good
<1>2. CASE TakePending
  <2>1. \/ Calls(At("item"), Frame("traps", "next", 0))
        \/ Calls(At("next"), Frame("traps", "next", 0))
    BY <1>2 DEF TakePending
  <2>2. "item" \in Pcs /\ "next" \in Pcs /\ "traps" \in Uncounted
    BY DEF Pcs, Uncounted, Fns
  <2>3. Nested(shells, At("item")) /\ Nested(shells, At("next"))
    BY <1>1, <2>2, AtSame, FlowFacts
  <2>4. Good'
    BY <2>1, <2>2, <2>3, CallsGood, FlowFacts
  <2> QED
    BY <1>1, <1>2, <2>4 DEF TakePending
<1>3. CASE RunTrap
  <2> DEFINE f == Frame("text", "line", Me.status)
             c == [Me EXCEPT !.running_trap = TRUE]
             base == AtWith("trap", Me.status)
  <2>1. f \in FrameType /\ f.self = K /\ f.fn = "text"
    BY MeType DEF Frame, FrameType, Fns, Pcs
  <2>2. /\ c \in Shell /\ c.depth = Me.depth /\ c.loop_depth = Me.loop_depth
        /\ c.func_depth = Me.func_depth /\ c.errexit_off = Me.errexit_off
    BY MeType DEF Shell
  <2>3. /\ stack' = Append(base, f) /\ shells' = [shells EXCEPT ![K] = c] /\ flow' = Running
        /\ arrived' \subseteq arrived /\ UNCHANGED <<line, interrupted, pending>>
    BY <1>3 DEF RunTrap, In, Me
  <2>4. "trap" \in Pcs
    BY DEF Pcs
  <2>5. Nested(shells, base)
    BY <1>1, <2>4, MeType, AtSame
  <2> HIDE DEF f, c, base
  <2>6. /\ c.depth = Me.depth + One(f.fn, {"list", "call"})
        /\ c.loop_depth = Me.loop_depth + One(f.fn, {"loop"})
        /\ c.func_depth = Me.func_depth + One(f.fn, {"call", "dot"})
        /\ c.errexit_off = Me.errexit_off + One(f.fn, {"ignoring"})
        /\ c.depth <= MAX_DEPTH /\ f.fn # "copy"
    BY <1>1, <2>1, <2>2, MeType, ShellCounters DEF One, Nested, Me, K
  <2>7. Good'
    BY <2>1, <2>2, <2>3, <2>5, <2>6, EnterGood
  <2> QED
    BY <1>1, <2>3, <2>7
<1>4. CASE TrapDone
  <2> DEFINE c == [Me EXCEPT !.running_trap = FALSE, !.status = Top.st]
  <2>1. /\ Top.fn \in Uncounted
        /\ \/ stack' = At("next") /\ flow' = Running /\ arrived' = arrived
           \/ stack' = Popped /\ flow' = flow /\ arrived' = {}
        /\ UNCHANGED <<line, interrupted, pending>>
    BY <1>4 DEF TrapDone, Got, Uncounted, Fns
  <2>2. /\ c \in Shell /\ c.depth = Me.depth /\ c.loop_depth = Me.loop_depth
        /\ c.func_depth = Me.func_depth /\ c.errexit_off = Me.errexit_off
    BY <1>1, MeType DEF Shell
  <2>3. shells' = [shells EXCEPT ![K] = c]
    BY <1>4 DEF TrapDone, Me
  <2> HIDE DEF c
  <2>4. "next" \in Pcs
    BY DEF Pcs
  <2>5. CASE stack' = At("next") /\ flow' = Running /\ arrived' = arrived
    <3>1. Nested(shells, At("next"))
      BY <1>1, <2>4, AtSame, FlowFacts
    <3>2. Good'
      BY <2>2, <2>3, <2>5, <3>1, StaysGood, FlowFacts
    <3> QED
      BY <1>1, <2>1, <2>5, <3>2
  <2>6. CASE stack' = Popped /\ flow' = flow /\ arrived' = {}
    <3>1. /\ c.depth = Me.depth - One(Top.fn, {"list", "call"})
          /\ c.loop_depth = Me.loop_depth - One(Top.fn, {"loop"})
          /\ c.func_depth = Me.func_depth - One(Top.fn, {"call", "dot"})
          /\ c.errexit_off = Me.errexit_off - One(Top.fn, {"ignoring"})
          /\ Top.fn # "copy"
      BY <2>1, <2>2, MeType, ShellCounters DEF One, Uncounted
    <3>2. Good'
      BY <1>1, <2>2, <2>3, <2>6, <3>1, LeaveGood
    <3> QED
      BY <1>1, <2>1, <2>6, <3>2
  <2> QED
    BY <2>1, <2>5, <2>6
<1> QED
  BY <1>2, <1>3, <1>4

LEMMA ProgramsGood ==
  ASSUME Good, interrupted \in BOOLEAN, RunProgram \/ replace_with
  PROVE  /\ Good' /\ stack # <<>>
         /\ interrupted' \in BOOLEAN
         /\ line' = line \/ line' = "ended"
         /\ UNCHANGED <<pending, arrived>>
<1>1. stack # <<>> /\ Nested(shells, stack) /\ FlowOK(flow)
  BY DEF RunProgram, replace_with, Simple, In, Good
<1>2. ASSUME NEW tag \in {"ok", "exit"}, run_program(tag)
      PROVE  Good' /\ interrupted' \in BOOLEAN /\ UNCHANGED <<line, pending, arrived>>
  <2>1. PICK s \in Results :
          /\ flow' = [tag |-> tag, n |-> s]
          /\ interrupted' \in BOOLEAN
          /\ UNCHANGED <<shells, stack, line, pending, arrived>>
    BY <1>2 DEF run_program
  <2>2. FlowOK([tag |-> tag, n |-> s])
    <3>1. s \in Statuses
      BY ConstantsAssumption
    <3>2. FlowOK(Ok(s)) /\ FlowOK(Exit(s))
      BY <3>1, FlowFacts
    <3> QED
      BY <3>2 DEF Ok, Exit
  <2>3. Good'
    BY <1>1, <2>1, <2>2, StaysSame
  <2> QED
    BY <2>1, <2>3
<1>3. CASE RunProgram
  BY <1>1, <1>2, <1>3 DEF RunProgram
<1>4. CASE replace_with
  <2>1. CASE CommandGives(Ok(1)) /\ UNCHANGED <<line, signalVars>>
    BY <1>1, <2>1, CommandGivesOp, FlowFacts DEF signalVars
  <2>2. CASE run_program("exit")
    BY <1>1, <1>2, <2>2
  <2>3. CASE line' = "ended" /\ UNCHANGED <<shells, stack, flow, signalVars>>
    BY <1>1, <2>3 DEF Good, signalVars
  <2> QED
    BY <1>4, <2>1, <2>2, <2>3 DEF replace_with
<1> QED
  BY <1>3, <1>4

-----------------------------------------------------------------------------
(* The read-run loop, where no call is in progress.                         *)

LEMMA FirstShellSets ==
  ASSUME Good, stack = <<>>, NEW s \in Statuses, NEW r, FlowOK(r),
         shells' = [shells EXCEPT ![1].status = s], UNCHANGED stack, flow' = r
  PROVE  Good'
<1> DEFINE c == [Me EXCEPT !.status = s]
<1>1. K = 1 /\ Nested(shells, stack)
  BY DEF Good, Nested, Chain, K
<1>2. /\ c \in Shell /\ c.depth = Me.depth /\ c.loop_depth = Me.loop_depth
      /\ c.func_depth = Me.func_depth /\ c.errexit_off = Me.errexit_off
  BY MeType DEF Shell
<1>3. shells' = [shells EXCEPT ![K] = c]
  BY <1>1 DEF Me
<1> HIDE DEF c
<1> QED
  BY <1>1, <1>2, <1>3, StaysGood

LEMMA ReadRunGood ==
  ASSUME Good, World,
         FinishLine \/ FinishShell \/ EndShell \/ StartLine \/ RejectLine \/ EndOfInput
         \/ InputFails
  PROVE  Good' /\ World'
<1>1. Nested(shells, stack) /\ FlowOK(flow) /\ stack = <<>>
  BY DEF FinishLine, FinishShell, EndShell, StartLine, RejectLine, EndOfInput, InputFails, LineOver,
         Good, World
<1>2. K = 1 /\ shells[1] = Me /\ Me.status \in Statuses /\ Nested(shells, <<>>)
  BY <1>1, MeType DEF Nested, Chain, K, Me
<1>3. CASE FinishLine
  <2> DEFINE s == IF flow.tag \in {"break", "continue"} THEN shells[1].status ELSE boundary(flow)
  <2>1. flow # Running
    BY <1>3 DEF FinishLine, LineOver
  <2>2. s \in Statuses
    BY <1>1, <1>2, <2>1, BoundaryType
  <2>3. /\ shells' = [shells EXCEPT ![1].status = s] /\ flow' = Running /\ UNCHANGED stack
        /\ line' = "prompt" /\ UNCHANGED <<pending, arrived>>
        /\ interrupted' = FALSE \/ interrupted' = interrupted
    BY <1>3 DEF FinishLine
  <2> HIDE DEF s
  <2>4. Good'
    BY <1>1, <2>2, <2>3, FirstShellSets, FlowFacts
  <2> QED
    BY <1>1, <2>3, <2>4 DEF World
<1>4. CASE FinishShell
  <2>1. flow.n \in Statuses
    BY <1>1, <1>4 DEF FinishShell, FlowOK
  <2>2. run_exit_trap(<<>>, flow.n) /\ line' = "ending" /\ UNCHANGED signalVars
    BY <1>4 DEF FinishShell
  <2>3. Good'
    BY <1>2, <2>1, <2>2, RunExitTrapOp
  <2> QED
    BY <2>2, <2>3 DEF World, signalVars
<1>5. CASE EndShell \/ InputFails
  BY <1>5 DEF EndShell, InputFails, World, signalVars, Good
<1>6. CASE StartLine
  <2>1. /\ run_list(<<>>) /\ line' = "running" /\ interrupted' = FALSE
        /\ UNCHANGED <<pending, arrived>>
    BY <1>6 DEF StartLine
  <2>2. Good'
    BY <1>2, <2>1, RunListOp
  <2> QED
    BY <2>1, <2>2 DEF World
<1>7. CASE RejectLine
  <2>1. /\ shells' = [shells EXCEPT ![1].status = 2]
        /\ UNCHANGED <<stack, flow, line, signalVars>>
    BY <1>7 DEF RejectLine
  <2>2. Good'
    BY <1>1, <2>1, FirstShellSets, FlowFacts
  <2> QED
    BY <2>1, <2>2 DEF World, signalVars
<1>8. CASE EndOfInput
  <2>1. /\ run_exit_trap(<<>>, Me.status) /\ line' = "ending" /\ UNCHANGED signalVars
    BY <1>2, <1>8 DEF EndOfInput
  <2>2. Good'
    BY <1>2, <2>1, RunExitTrapOp
  <2> QED
    BY <2>1, <2>2 DEF World, signalVars
<1> QED
  BY <1>3, <1>4, <1>5, <1>6, <1>7, <1>8

-----------------------------------------------------------------------------
(* The invariant, and what follows from it.                                 *)

LEMMA InitIInv == Init => IInv
<1> SUFFICES ASSUME Init PROVE IInv
  OBVIOUS
<1>1. shells = <<NewShell>> /\ stack = <<>> /\ flow = Running
  BY DEF Init
<1>2. NewShell \in Shell
  BY DEF NewShell, Shell, Statuses
<1>3. /\ <<NewShell>> \in Seq(Shell) /\ <<NewShell>> # <<>>
      /\ Len(<<NewShell>>) = 1 /\ <<NewShell>>[1] = NewShell
  BY <1>2
<1>4. <<>> \in Seq(FrameType) /\ Len(<<>>) = 0 /\ Chain(<<>>, 1)
  BY DEF Chain
<1>5. \A S, k : Count(<<>>, S, k) = 0
  <2>1. \A S, k : CallsIn(<<>>, S, k) = {}
    BY DEF CallsIn
  <2> QED
    BY <2>1, FS_EmptySet DEF Count
<1>6. Counts(NewShell, <<>>, 1) /\ NewShell.depth <= MAX_DEPTH
  BY <1>5, ConstantsAssumption DEF Counts, NewShell
<1>7. Nested(<<NewShell>>, <<>>)
  BY <1>3, <1>4, <1>6 DEF Nested
<1>8. World
  BY DEF Init, World
<1> QED
  BY <1>1, <1>7, <1>8, FlowFacts DEF IInv

LEMMA ExecuteGood ==
  ASSUME Good, Execute
  PROVE  Good' /\ stack # <<>> /\ UNCHANGED <<line, signalVars>>
BY ListsGood, AndOrGood, PipelinesGood, CopiesGood, StagesGood, CompoundGood, LoopsGood,
   ExpansionsGood, SimplesGood, FunctionsGood, TextsGood DEF Execute

LEMMA NextIInv == IInv /\ [Next]_vars => IInv'
<1> SUFFICES ASSUME IInv, [Next]_vars PROVE IInv'
  OBVIOUS
<1>1. Good /\ World
  BY DEF IInv, Good
<1>2. ASSUME Good', World'
      PROVE  IInv'
  BY <1>2 DEF IInv, Good
<1>3. CASE Execute
  <2>1. Good' /\ stack # <<>> /\ UNCHANGED <<line, signalVars>>
    BY <1>1, <1>3, ExecuteGood
  <2>2. World'
    BY <1>1, <2>1 DEF World, signalVars
  <2> QED
    BY <1>2, <2>1, <2>2
<1>4. CASE RunProgram \/ replace_with
  <2>1. /\ Good' /\ stack # <<>> /\ interrupted' \in BOOLEAN
        /\ line' = line \/ line' = "ended"
        /\ UNCHANGED <<pending, arrived>>
    BY <1>1, <1>4, ProgramsGood DEF World
  <2>2. World'
    BY <1>1, <2>1 DEF World
  <2> QED
    BY <1>2, <2>1, <2>2
<1>5. CASE TakePending \/ RunTrap \/ TrapDone
  <2>1. /\ Good' /\ stack # <<>>
        /\ arrived' \subseteq Signals /\ pending' \subseteq Signals
        /\ UNCHANGED <<line, interrupted>>
    BY <1>1, <1>5, TrapsGood DEF World
  <2>2. World'
    BY <1>1, <2>1 DEF World
  <2> QED
    BY <1>2, <2>1, <2>2
<1>6. CASE FinishLine \/ FinishShell \/ EndShell \/ StartLine \/ RejectLine \/ EndOfInput
         \/ InputFails
  BY <1>1, <1>2, <1>6, ReadRunGood
<1>7. CASE CtrlC \/ SignalArrives
  <2>1. Good'
    BY <1>1, <1>7 DEF CtrlC, SignalArrives, Good
  <2>2. World'
    BY <1>1, <1>7 DEF CtrlC, SignalArrives, World
  <2> QED
    BY <1>2, <2>1, <2>2
<1>8. CASE UNCHANGED vars
  <2>1. Good'
    BY <1>1, <1>8 DEF vars, Good
  <2>2. World'
    BY <1>1, <1>8 DEF vars, World
  <2> QED
    BY <1>2, <2>1, <2>2
<1> QED
  BY <1>3, <1>4, <1>5, <1>6, <1>7, <1>8 DEF Next, RunningALine, Ended

LEMMA InvariantHolds == Spec => []IInv
BY InitIInv, NextIInv, PTL DEF Spec

(* Whatever runs, the variables keep their types: in particular no counter  *)
(* of a shell ever goes below 0, where the code's subtraction would         *)
(* overflow.                                                                *)
THEOREM TypeCorrect == Spec => []TypeOK
<1>1. IInv => TypeOK
  BY DEF IInv, Nested, World, TypeOK
<1> QED
  BY <1>1, InvariantHolds, PTL

(* The counters of each shell are the number of calls in progress that      *)
(* count in them, for every MAX_DEPTH and every program.                    *)
THEOREM CountersBalanced == Spec => []Balanced
<1>1. IInv => Balanced
  <2> SUFFICES ASSUME IInv, NEW k \in DOMAIN shells
               PROVE  Counts(shells[k], stack, k)
    BY DEF Balanced, Counts, Count, CallsIn, CallsTo
  <2> QED
    BY LenProperties DEF IInv, Nested
<1> QED
  BY <1>1, InvariantHolds, PTL

-----------------------------------------------------------------------------
(* What is handed from call to call.                                       *)

(* The calls that give `$?' back, and what they call.                       *)
GivesStatus == {"list", "and_or", "pipeline", "ignoring"}
Inner       == GivesStatus \cup {"command", "stages", "traps"}

IsTrap(f) == f.fn = "traps" /\ f.pc = "trap"

(* A trap runs in the main shell, called by a list; one at a time.          *)
TrapsStacked(stk) ==
  /\ \A i \in 1..Len(stk) : stk[i].fn = "traps" =>
       /\ stk[i].self = 1
       /\ i > 1 /\ stk[i - 1].fn = "list"
       /\ stk[i].pc = "trap" \/ (i = Len(stk) /\ stk[i].pc = "next")
       /\ stk[i].pc = "trap" /\ ~PipesFail => stk[i].st = stk[i - 1].st
  /\ \A i, j \in 1..Len(stk) : stk[i].fn = "traps" /\ stk[j].fn = "traps" => i = j

CallsStacked(stk) ==
  \A i \in 1..(Len(stk) - 1) :
    /\ stk[i].fn \in GivesStatus => stk[i + 1].fn \in Inner
    /\ stk[i].fn = "copy" /\ stk[i].pc = "finished" => stk[i + 1].fn = "exit_trap"

(* What the shells know of where they are.                                  *)
Flags(sh, stk) ==
  \A k \in 1..Len(sh) :
    /\ sh[k].in_subshell <=> k > 1
    /\ sh[k].running_trap <=> \E i \in 1..Len(stk) : IsTrap(stk[i])

Stacked(sh, stk) == TrapsStacked(stk) /\ CallsStacked(stk) /\ Flags(sh, stk)

(* What the innermost call finds when it goes on.  (A pipe2 that fails      *)
(* leaves `$?' as it was.)                                                  *)
CallHanded ==
  stack # <<>> =>
    /\ Top.fn = "traps" => (flow = Running <=> Top.pc = "next")
    /\ Top.fn = "copy" /\ Top.pc = "finished" => flow.tag = "ok"

StatusHanded ==
  ~PipesFail /\ stack # <<>> =>
    /\ In("list") => Me.status = Top.st
    /\ Top.fn \in GivesStatus /\ flow.tag = "ok" => Me.status = flow.n
    /\ Top.fn = "traps" /\ Top.pc = "next" => Me.status = stack[Len(stack) - 1].st

(* A `return' that a function or file of the shell is to handle.            *)
ReturnHanded == flow.tag = "return" => Count(stack, {"call", "dot"}, Len(shells)) > 0

UInv == Stacked(shells, stack) /\ CallHanded /\ StatusHanded /\ ReturnHanded

-----------------------------------------------------------------------------
(* The frames, when the innermost call goes on, makes a call or returns.    *)
SameFlags(sh, sh2) ==
  /\ Len(sh2) = Len(sh)
  /\ \A k \in 1..Len(sh) : /\ sh2[k].in_subshell <=> sh[k].in_subshell
                           /\ sh2[k].running_trap <=> sh[k].running_trap

Edited(stk, stk2) ==
  /\ SameCalls(stk, stk2)
  /\ \A i \in 1..(Len(stk) - 1) : stk2[i] = stk[i]

LEMMA StackedEdit ==
  ASSUME NEW sh, NEW sh2, SameFlags(sh, sh2),
         NEW stk \in Seq(FrameType), NEW stk2 \in Seq(FrameType), Edited(stk, stk2),
         Stacked(sh, stk),
         stk # <<>> => stk[Len(stk)].fn # "traps"
  PROVE  Stacked(sh2, stk2)
<1> DEFINE n == Len(stk)
<1>1. n \in Nat /\ Len(stk2) = n /\ (n > 0 => stk # <<>>)
  BY LenProperties, EmptySeq DEF Edited, SameCalls
<1>2. /\ \A i \in 1..n : stk2[i].fn = stk[i].fn /\ stk2[i].self = stk[i].self
      /\ \A i \in 1..n : i < n => stk2[i] = stk[i]
  BY <1>1 DEF Edited, SameCalls
<1>3. \A i \in 1..n : stk[i].fn = "traps" => i < n
  BY <1>1
<1>4. \A i \in 1..n : IsTrap(stk2[i]) <=> IsTrap(stk[i])
  BY <1>1, <1>2, <1>3 DEF IsTrap
<1>5. TrapsStacked(stk2)
  <2>1. ASSUME NEW i \in 1..n, stk2[i].fn = "traps"
        PROVE  /\ stk2[i].self = 1
               /\ i > 1 /\ stk2[i - 1].fn = "list"
               /\ stk2[i].pc = "trap"
               /\ ~PipesFail => stk2[i].st = stk2[i - 1].st
    <3>1. stk[i].fn = "traps" /\ i < n /\ stk2[i] = stk[i]
      BY <1>2, <1>3, <2>1
    <3>2. /\ stk[i].self = 1 /\ i > 1 /\ stk[i - 1].fn = "list" /\ stk[i].pc = "trap"
          /\ ~PipesFail => stk[i].st = stk[i - 1].st
      BY <3>1 DEF Stacked, TrapsStacked
    <3>3. i - 1 \in 1..n /\ i - 1 < n
      BY <1>1, <3>2
    <3> QED
      BY <1>2, <3>1, <3>2, <3>3
  <2>2. \A i, j \in 1..n : stk2[i].fn = "traps" /\ stk2[j].fn = "traps" => i = j
    BY <1>2 DEF Stacked, TrapsStacked
  <2> QED
    BY <1>1, <2>1, <2>2 DEF TrapsStacked
<1>6. CallsStacked(stk2)
  <2>1. \A i \in 1..(n - 1) : i \in 1..n /\ i + 1 \in 1..n /\ i < n
    BY <1>1
  <2> QED
    BY <1>1, <1>2, <2>1 DEF Stacked, CallsStacked
<1>7. Flags(sh2, stk2)
  BY <1>1, <1>4 DEF Stacked, Flags, SameFlags
<1> QED
  BY <1>5, <1>6, <1>7 DEF Stacked

(* f may be called by the innermost of these calls.                         *)
MayCall(stk, f) ==
  stk # <<>> =>
    /\ stk[Len(stk)].fn \in GivesStatus => f.fn \in Inner
    /\ stk[Len(stk)].fn = "copy" /\ stk[Len(stk)].pc = "finished" => f.fn = "exit_trap"
    /\ stk[Len(stk)].fn = "traps" => stk[Len(stk)].pc = "trap"

LEMMA StackedPush ==
  ASSUME NEW sh, NEW sh2, SameFlags(sh, sh2),
         NEW stk \in Seq(FrameType), NEW f \in FrameType,
         Stacked(sh, stk), MayCall(stk, f), f.fn # "traps"
  PROVE  Stacked(sh2, Append(stk, f))
<1> DEFINE n == Len(stk)
           stk2 == Append(stk, f)
<1>1. /\ n \in Nat /\ (n > 0 => stk # <<>>)
      /\ Len(stk2) = n + 1 /\ stk2[n + 1] = f
      /\ \A i \in 1..n : stk2[i] = stk[i]
  BY AppendProperties, LenProperties, EmptySeq
<1> HIDE DEF stk2
<1>2. \A i \in 1..(n + 1) : i \in 1..n \/ i = n + 1
  BY <1>1
<1>3. TrapsStacked(stk2)
  <2>1. ASSUME NEW i \in 1..(n + 1), stk2[i].fn = "traps"
        PROVE  /\ i \in 1..n
               /\ stk2[i].self = 1
               /\ i > 1 /\ stk2[i - 1].fn = "list"
               /\ stk2[i].pc = "trap"
               /\ ~PipesFail => stk2[i].st = stk2[i - 1].st
    <3>1. i \in 1..n /\ stk2[i] = stk[i]
      BY <1>1, <1>2, <2>1
    <3>2. /\ stk[i].self = 1 /\ i > 1 /\ stk[i - 1].fn = "list"
          /\ stk[i].pc = "trap" \/ (i = n /\ stk[i].pc = "next")
          /\ stk[i].pc = "trap" /\ ~PipesFail => stk[i].st = stk[i - 1].st
      BY <2>1, <3>1 DEF Stacked, TrapsStacked
    <3>3. stk[i].pc = "trap"
      BY <1>1, <2>1, <3>1, <3>2 DEF MayCall
    <3>4. i - 1 \in 1..n
      BY <1>1, <3>1, <3>2
    <3> QED
      BY <1>1, <3>1, <3>2, <3>3, <3>4
  <2>2. \A i, j \in 1..(n + 1) : stk2[i].fn = "traps" /\ stk2[j].fn = "traps" => i = j
    <3>1. \A i, j \in 1..n : stk[i].fn = "traps" /\ stk[j].fn = "traps" => i = j
      BY DEF Stacked, TrapsStacked
    <3>2. \A i \in 1..(n + 1) : stk2[i].fn = "traps" => i \in 1..n /\ stk[i].fn = "traps"
      BY <1>1, <2>1
    <3> QED
      BY <3>1, <3>2
  <2> QED
    BY <1>1, <2>1, <2>2 DEF TrapsStacked
<1>4. CallsStacked(stk2)
  <2> SUFFICES ASSUME NEW i \in 1..n
               PROVE  /\ stk2[i].fn \in GivesStatus => stk2[i + 1].fn \in Inner
                      /\ stk2[i].fn = "copy" /\ stk2[i].pc = "finished" => stk2[i + 1].fn = "exit_trap"
    BY <1>1 DEF CallsStacked
  <2>1. CASE i = n
    BY <1>1, <2>1 DEF MayCall
  <2>2. CASE i # n
    <3>1. i \in 1..(n - 1) /\ i + 1 \in 1..n
      BY <1>1, <2>2
    <3> QED
      BY <1>1, <3>1 DEF Stacked, CallsStacked
  <2> QED
    BY <2>1, <2>2
<1>5. Flags(sh2, stk2)
  <2>1. (\E i \in 1..(n + 1) : IsTrap(stk2[i])) <=> (\E i \in 1..n : IsTrap(stk[i]))
    BY <1>1, <1>2 DEF IsTrap
  <2> QED
    BY <1>1, <2>1 DEF Stacked, Flags, SameFlags
<1> QED
  BY <1>3, <1>4, <1>5 DEF Stacked, stk2

LEMMA StackedPop ==
  ASSUME NEW sh, NEW sh2, SameFlags(sh, sh2),
         NEW stk \in Seq(FrameType), stk # <<>>,
         Stacked(sh, stk), ~IsTrap(stk[Len(stk)])
  PROVE  Stacked(sh2, Below(stk))
<1> DEFINE n == Len(stk)
           stk2 == Below(stk)
<1>1. /\ n \in Nat \ {0} /\ Len(stk2) = n - 1
      /\ \A i \in 1..(n - 1) : stk2[i] = stk[i]
  BY BelowTop
<1> HIDE DEF stk2
<1>2. \A i \in 1..(n - 1) : i \in 1..n /\ i < n
  BY <1>1
<1>3. TrapsStacked(stk2)
  <2>1. ASSUME NEW i \in 1..(n - 1), stk2[i].fn = "traps"
        PROVE  /\ stk2[i].self = 1
               /\ i > 1 /\ stk2[i - 1].fn = "list"
               /\ stk2[i].pc = "trap"
               /\ ~PipesFail => stk2[i].st = stk2[i - 1].st
    <3>1. i \in 1..n /\ i < n /\ stk2[i] = stk[i]
      BY <1>1, <1>2
    <3>2. /\ stk[i].self = 1 /\ i > 1 /\ stk[i - 1].fn = "list" /\ stk[i].pc = "trap"
          /\ ~PipesFail => stk[i].st = stk[i - 1].st
      BY <2>1, <3>1 DEF Stacked, TrapsStacked
    <3>3. i - 1 \in 1..(n - 1)
      BY <1>1, <3>2
    <3> QED
      BY <1>1, <3>1, <3>2, <3>3
  <2>2. \A i, j \in 1..(n - 1) : stk2[i].fn = "traps" /\ stk2[j].fn = "traps" => i = j
    BY <1>1, <1>2 DEF Stacked, TrapsStacked
  <2> QED
    BY <1>1, <2>1, <2>2 DEF TrapsStacked
<1>4. CallsStacked(stk2)
  <2>1. \A i \in 1..(Len(stk2) - 1) : i \in 1..(n - 1) /\ i + 1 \in 1..(n - 1)
    BY <1>1
  <2> QED
    BY <1>1, <2>1 DEF Stacked, CallsStacked
<1>5. Flags(sh2, stk2)
  <2>1. (\E i \in 1..(n - 1) : IsTrap(stk2[i])) <=> (\E i \in 1..n : IsTrap(stk[i]))
    BY <1>1, <1>2
  <2> QED
    BY <1>1, <2>1 DEF Stacked, Flags, SameFlags
<1> QED
  BY <1>3, <1>4, <1>5 DEF Stacked, stk2

(* A copy of the shell that runs is made, and is over.                      *)
LEMMA StackedCopy ==
  ASSUME NEW sh \in Seq(Shell), sh # <<>>, NEW c \in Shell, c.in_subshell,
         c.running_trap <=> sh[Len(sh)].running_trap,
         NEW stk \in Seq(FrameType), NEW f \in FrameType,
         Stacked(sh, stk), MayCall(stk, f), f.fn # "traps"
  PROVE  Stacked(Append(sh, c), Append(stk, f))
<1> DEFINE n == Len(sh)
           sh2 == Append(sh, c)
           stk2 == Append(stk, f)
<1>1. /\ n \in Nat \ {0} /\ Len(sh2) = n + 1 /\ sh2[n + 1] = c
      /\ \A k \in 1..n : sh2[k] = sh[k]
  BY AppendProperties, EmptySeq
<1>2. Stacked(sh, stk2)
  <2>1. SameFlags(sh, sh)
    BY DEF SameFlags
  <2> QED
    BY <2>1, StackedPush
<1> HIDE DEF sh2, stk2
<1>3. Flags(sh2, stk2)
  <2> SUFFICES ASSUME NEW k \in 1..(n + 1)
               PROVE  /\ sh2[k].in_subshell <=> k > 1
                      /\ sh2[k].running_trap <=> \E i \in 1..Len(stk2) : IsTrap(stk2[i])
    BY <1>1 DEF Flags
  <2>1. CASE k \in 1..n
    BY <1>1, <1>2, <2>1 DEF Stacked, Flags
  <2>2. CASE k = n + 1
    <3>1. n \in 1..n /\ k > 1
      BY <1>1, <2>2
    <3> QED
      BY <1>1, <1>2, <2>2, <3>1 DEF Stacked, Flags
  <2> QED
    BY <1>1, <2>1, <2>2
<1> QED
  BY <1>2, <1>3 DEF Stacked, sh2, stk2

LEMMA StackedCopyDone ==
  ASSUME NEW sh \in Seq(Shell), sh # <<>>,
         NEW stk \in Seq(FrameType), stk # <<>>, stk[Len(stk)].fn = "copy",
         Stacked(sh, stk)
  PROVE  Stacked(SubSeq(sh, 1, Len(sh) - 1), Below(stk))
<1>1. Stacked(sh, Below(stk))
  <2>1. SameFlags(sh, sh) /\ ~IsTrap(stk[Len(stk)])
    BY DEF SameFlags, IsTrap
  <2> QED
    BY <2>1, StackedPop
<1>2. /\ Len(SubSeq(sh, 1, Len(sh) - 1)) = Len(sh) - 1
      /\ \A k \in 1..(Len(sh) - 1) : SubSeq(sh, 1, Len(sh) - 1)[k] = sh[k] /\ k \in 1..Len(sh)
  BY AllButLast
<1> QED
  BY <1>1, <1>2 DEF Stacked, Flags

-----------------------------------------------------------------------------
(* The same for the variables, with what is handed over.                    *)

LEMMA FlagsSet ==
  ASSUME Good, NEW c, shells' = [shells EXCEPT ![K] = c],
         c.in_subshell = Me.in_subshell, c.running_trap = Me.running_trap
  PROVE  SameFlags(shells, shells') /\ Me' = c
<1> DEFINE S == Shell \cup {c}
<1>1. shells \in Seq(Shell) /\ Len(shells) \in Nat \ {0}
  BY EmptySeq DEF Good, Nested
<1>2. shells \in Seq(S) /\ c \in S
  BY <1>1, SeqMonotonic
<1> HIDE DEF S
<1>3. /\ Len([shells EXCEPT ![Len(shells)] = c]) = Len(shells)
      /\ \A j \in 1..Len(shells) :
           [shells EXCEPT ![Len(shells)] = c][j] = IF j = Len(shells) THEN c ELSE shells[j]
  BY <1>1, <1>2, ExceptSeq
<1>4. /\ Len(shells') = Len(shells)
      /\ \A j \in 1..Len(shells) : shells'[j] = IF j = Len(shells) THEN c ELSE shells[j]
  BY <1>3 DEF K
<1>5. SameFlags(shells, shells')
  BY <1>4 DEF SameFlags, Me, K
<1>6. Me' = c
  BY <1>1, <1>4 DEF Me, K
<1> QED
  BY <1>5, <1>6

(* The shell that runs is another one, in nothing that the invariant is     *)
(* about; or in `$?' alone.                                                 *)
Keeps   == SameFlags(shells, shells') /\ Me'.status = Me.status
Sets(s) == SameFlags(shells, shells') /\ Me'.status = s

LEMMA ShellsKept ==
  ASSUME Good,
         \/ UNCHANGED shells
         \/ \E x : \/ shells' = [shells EXCEPT ![K].depth = x]
                   \/ shells' = [shells EXCEPT ![K].loop_depth = x]
                   \/ shells' = [shells EXCEPT ![K].func_depth = x]
                   \/ shells' = [shells EXCEPT ![K].errexit_off = x]
                   \/ shells' = [shells EXCEPT ![K].errexit = x]
                   \/ shells' = [shells EXCEPT ![K].exit_trap = x]
         \/ \E x, y : shells' = [shells EXCEPT ![K].func_depth = x, ![K].depth = y]
  PROVE  Keeps
<1>1. Me \in Shell
  BY MeType
<1>2. CASE UNCHANGED shells
  BY <1>2 DEF Keeps, SameFlags, Me, K
<1>3. ASSUME NEW c, shells' = [shells EXCEPT ![K] = c],
             c.in_subshell = Me.in_subshell, c.running_trap = Me.running_trap,
             c.status = Me.status
      PROVE  Keeps
  BY <1>3, FlagsSet DEF Keeps
<1>4. ASSUME NEW x, shells' = [shells EXCEPT ![K].depth = x] PROVE Keeps
  <2> DEFINE c == [Me EXCEPT !.depth = x]
  <2>1. c.in_subshell = Me.in_subshell /\ c.running_trap = Me.running_trap /\ c.status = Me.status
    BY <1>1 DEF Shell
  <2>2. shells' = [shells EXCEPT ![K] = c]
    BY <1>4 DEF Me
  <2> HIDE DEF c
  <2> QED
    BY <1>3, <2>1, <2>2
<1>5. ASSUME NEW x, shells' = [shells EXCEPT ![K].loop_depth = x] PROVE Keeps
  <2> DEFINE c == [Me EXCEPT !.loop_depth = x]
  <2>1. c.in_subshell = Me.in_subshell /\ c.running_trap = Me.running_trap /\ c.status = Me.status
    BY <1>1 DEF Shell
  <2>2. shells' = [shells EXCEPT ![K] = c]
    BY <1>5 DEF Me
  <2> HIDE DEF c
  <2> QED
    BY <1>3, <2>1, <2>2
<1>6. ASSUME NEW x, shells' = [shells EXCEPT ![K].func_depth = x] PROVE Keeps
  <2> DEFINE c == [Me EXCEPT !.func_depth = x]
  <2>1. c.in_subshell = Me.in_subshell /\ c.running_trap = Me.running_trap /\ c.status = Me.status
    BY <1>1 DEF Shell
  <2>2. shells' = [shells EXCEPT ![K] = c]
    BY <1>6 DEF Me
  <2> HIDE DEF c
  <2> QED
    BY <1>3, <2>1, <2>2
<1>7. ASSUME NEW x, shells' = [shells EXCEPT ![K].errexit_off = x] PROVE Keeps
  <2> DEFINE c == [Me EXCEPT !.errexit_off = x]
  <2>1. c.in_subshell = Me.in_subshell /\ c.running_trap = Me.running_trap /\ c.status = Me.status
    BY <1>1 DEF Shell
  <2>2. shells' = [shells EXCEPT ![K] = c]
    BY <1>7 DEF Me
  <2> HIDE DEF c
  <2> QED
    BY <1>3, <2>1, <2>2
<1>8. ASSUME NEW x, shells' = [shells EXCEPT ![K].errexit = x] PROVE Keeps
  <2> DEFINE c == [Me EXCEPT !.errexit = x]
  <2>1. c.in_subshell = Me.in_subshell /\ c.running_trap = Me.running_trap /\ c.status = Me.status
    BY <1>1 DEF Shell
  <2>2. shells' = [shells EXCEPT ![K] = c]
    BY <1>8 DEF Me
  <2> HIDE DEF c
  <2> QED
    BY <1>3, <2>1, <2>2
<1>9. ASSUME NEW x, shells' = [shells EXCEPT ![K].exit_trap = x] PROVE Keeps
  <2> DEFINE c == [Me EXCEPT !.exit_trap = x]
  <2>1. c.in_subshell = Me.in_subshell /\ c.running_trap = Me.running_trap /\ c.status = Me.status
    BY <1>1 DEF Shell
  <2>2. shells' = [shells EXCEPT ![K] = c]
    BY <1>9 DEF Me
  <2> HIDE DEF c
  <2> QED
    BY <1>3, <2>1, <2>2
<1>10. ASSUME NEW x, NEW y, shells' = [shells EXCEPT ![K].func_depth = x, ![K].depth = y]
       PROVE  Keeps
  <2> DEFINE c == [Me EXCEPT !.func_depth = x, !.depth = y]
  <2>1. c.in_subshell = Me.in_subshell /\ c.running_trap = Me.running_trap /\ c.status = Me.status
    BY <1>1 DEF Shell
  <2>2. shells' = [shells EXCEPT ![K] = c]
    BY <1>10 DEF Me
  <2> HIDE DEF c
  <2> QED
    BY <1>3, <2>1, <2>2
<1> QED
  BY <1>2, <1>4, <1>5, <1>6, <1>7, <1>8, <1>9, <1>10

LEMMA StatusSet ==
  ASSUME Good, NEW s,
         \/ shells' = [shells EXCEPT ![K].status = s]
         \/ shells' = [shells EXCEPT ![K].exit_trap = FALSE, ![K].status = s]
  PROVE  Sets(s)
<1>1. Me \in Shell
  BY MeType
<1>2. ASSUME NEW c, shells' = [shells EXCEPT ![K] = c],
             c.in_subshell = Me.in_subshell, c.running_trap = Me.running_trap, c.status = s
      PROVE  Sets(s)
  BY <1>2, FlagsSet DEF Sets
<1>3. CASE shells' = [shells EXCEPT ![K].status = s]
  <2> DEFINE c == [Me EXCEPT !.status = s]
  <2>1. c.in_subshell = Me.in_subshell /\ c.running_trap = Me.running_trap /\ c.status = s
    BY <1>1 DEF Shell
  <2>2. shells' = [shells EXCEPT ![K] = c]
    BY <1>3 DEF Me
  <2> HIDE DEF c
  <2> QED
    BY <1>2, <2>1, <2>2
<1>4. CASE shells' = [shells EXCEPT ![K].exit_trap = FALSE, ![K].status = s]
  <2> DEFINE c == [Me EXCEPT !.exit_trap = FALSE, !.status = s]
  <2>1. c.in_subshell = Me.in_subshell /\ c.running_trap = Me.running_trap /\ c.status = s
    BY <1>1 DEF Shell
  <2>2. shells' = [shells EXCEPT ![K] = c]
    BY <1>4 DEF Me
  <2> HIDE DEF c
  <2> QED
    BY <1>2, <2>1, <2>2
<1> QED
  BY <1>3, <1>4

LEMMA TopEdited ==
  ASSUME Good, stack # <<>>, NEW pc \in Pcs, NEW s \in Statuses
  PROVE  /\ At(pc) \in Seq(FrameType) /\ Edited(stack, At(pc)) /\ At(pc) # <<>>
         /\ Len(At(pc)) = Len(stack) /\ At(pc)[Len(stack)] = [Top EXCEPT !.pc = pc]
         /\ AtWith(pc, s) \in Seq(FrameType) /\ Edited(stack, AtWith(pc, s)) /\ AtWith(pc, s) # <<>>
         /\ Len(AtWith(pc, s)) = Len(stack)
         /\ AtWith(pc, s)[Len(stack)] = [Top EXCEPT !.pc = pc, !.st = s]
<1> DEFINE n == Len(stack)
           f == [Top EXCEPT !.pc = pc]
           g == [Top EXCEPT !.pc = pc, !.st = s]
<1>1. n \in Nat \ {0} /\ stack \in Seq(FrameType) /\ n \in 1..n
  BY EmptySeq DEF Good, Nested
<1>2. f \in FrameType /\ g \in FrameType /\ f.fn = Top.fn /\ f.self = Top.self
      /\ g.fn = Top.fn /\ g.self = Top.self
  BY TopType DEF FrameType
<1>3. At(pc) = [stack EXCEPT ![n] = f] /\ AtWith(pc, s) = [stack EXCEPT ![n] = g]
  BY DEF At, AtWith, Top
<1> HIDE DEF f, g
<1>4. ASSUME NEW h \in FrameType, h.fn = Top.fn, h.self = Top.self,
             NEW t, t = [stack EXCEPT ![n] = h]
      PROVE  t \in Seq(FrameType) /\ Edited(stack, t) /\ t # <<>> /\ Len(t) = n /\ t[n] = h
  <2>1. t \in Seq(FrameType) /\ Len(t) = n /\ \A j \in 1..n : t[j] = IF j = n THEN h ELSE stack[j]
    BY <1>1, <1>4, ExceptSeq
  <2>2. Edited(stack, t)
    <3>1. h.fn = stack[n].fn /\ h.self = stack[n].self
      BY <1>4 DEF Top
    <3> QED
      BY <1>1, <2>1, <3>1 DEF Edited, SameCalls
  <2>3. t # <<>> /\ t[n] = h
    BY <1>1, <2>1, EmptySeq
  <2> QED
    BY <2>1, <2>2, <2>3
<1>5. /\ At(pc) \in Seq(FrameType) /\ Edited(stack, At(pc)) /\ At(pc) # <<>>
      /\ Len(At(pc)) = n /\ At(pc)[n] = f
  BY <1>2, <1>3, <1>4
<1>6. /\ AtWith(pc, s) \in Seq(FrameType) /\ Edited(stack, AtWith(pc, s)) /\ AtWith(pc, s) # <<>>
      /\ Len(AtWith(pc, s)) = n /\ AtWith(pc, s)[n] = g
  BY <1>2, <1>3, <1>4
<1> QED
  BY <1>5, <1>6 DEF f, g

LEMMA NoReturn ==
  ASSUME flow'.tag # "return"
  PROVE  ReturnHanded'
BY DEF ReturnHanded

(* The innermost call goes on, or the call it makes is refused.             *)
LEMMA UEdit ==
  ASSUME Good, Good', UInv, Edited(stack, stack'), SameFlags(shells, shells'), ReturnHanded',
         stack # <<>> =>
           /\ Top.fn # "traps"
           /\ Top.fn \in GivesStatus => flow'.tag # "ok"
           /\ Top.fn = "list" /\ flow' = Running /\ ~PipesFail => Me'.status = Top'.st
           /\ Top.fn = "copy" /\ Top'.pc = "finished" => flow'.tag = "ok"
  PROVE  UInv'
<1>1. /\ stack \in Seq(FrameType) /\ stack' \in Seq(FrameType) /\ Len(stack) \in Nat
      /\ stack' # <<>> => stack # <<>> /\ Len(stack) > 0
      /\ Len(stack') = Len(stack)
  BY LenProperties, EmptySeq DEF Good, Nested, Edited, SameCalls
<1>2. Stacked(shells', stack')
  BY <1>1, StackedEdit DEF UInv, Top
<1>3. stack' # <<>> => Top'.fn = Top.fn
  BY <1>1 DEF Edited, SameCalls, Top
<1>4. CallHanded' /\ StatusHanded'
  BY <1>1, <1>3 DEF CallHanded, StatusHanded, GivesStatus, In
<1> QED
  BY <1>2, <1>4 DEF UInv

(* The innermost call makes a call.                                         *)
LEMMA UPush ==
  ASSUME Good, Good', UInv, SameFlags(shells, shells'),
         NEW base \in Seq(FrameType), Edited(stack, base), NEW f \in FrameType,
         stack' = Append(base, f), flow' = Running,
         MayCall(base, f), f.fn \notin {"traps", "copy"}, stack # <<>> => Top.fn # "traps",
         f.fn = "list" => Me'.status = f.st
  PROVE  UInv'
<1>1. /\ stack \in Seq(FrameType) /\ Len(stack) \in Nat
      /\ Len(stack') = Len(base) + 1 /\ stack'[Len(base) + 1] = f
  BY LenProperties, AppendProperties DEF Good, Nested
<1>2. Stacked(shells, base)
  <2>1. SameFlags(shells, shells)
    BY DEF SameFlags
  <2> QED
    BY <1>1, <2>1, StackedEdit DEF UInv, Top
<1>3. Stacked(shells', stack')
  BY <1>2, StackedPush
<1>4. Top' = f
  BY <1>1 DEF Top
<1>5. CallHanded' /\ StatusHanded'
  BY <1>4 DEF CallHanded, StatusHanded, GivesStatus, In, Running
<1>6. ReturnHanded'
  BY NoReturn DEF Running
<1> QED
  BY <1>3, <1>5, <1>6 DEF UInv

(* The innermost call returns.                                              *)
LEMMA UPop ==
  ASSUME Good, Good', UInv, stack # <<>>, SameFlags(shells, shells'), ReturnHanded',
         stack' = Popped, flow' # Running, Top.fn \notin {"traps", "copy"},
         Top.fn \in Inner /\ flow'.tag = "ok" /\ ~PipesFail => Me'.status = flow'.n,
         Top.fn = "exit_trap" => flow'.tag = "ok"
  PROVE  UInv'
<1> DEFINE n == Len(stack)
<1>1. /\ stack \in Seq(FrameType) /\ n \in Nat \ {0}
      /\ stack' = Below(stack) /\ Len(stack') = n - 1
      /\ \A i \in 1..(n - 1) : stack'[i] = stack[i]
      /\ stack' # <<>> => Len(stack') > 0
      /\ flow' \in [tag : FlowTags, n : Nat]
  BY BelowTop, EmptySeq DEF Good, Nested, Popped, Below, FlowOK
<1>2. Stacked(shells', stack')
  BY <1>1, StackedPop DEF UInv, Top, IsTrap
<1>3. CASE stack' = <<>>
  BY <1>2, <1>3 DEF UInv, CallHanded, StatusHanded
<1>4. CASE stack' # <<>>
  <2>1. n - 1 \in 1..n /\ n - 1 \in 1..(n - 1) /\ n - 1 + 1 = n /\ n - 1 < n
    BY <1>1, <1>4
  <2>2. Top' = stack[n - 1]
    BY <1>1, <2>1 DEF Top
  <2>3. /\ Top'.fn \in GivesStatus => Top.fn \in Inner
        /\ Top'.fn = "copy" /\ Top'.pc = "finished" => Top.fn = "exit_trap"
        /\ Top'.fn = "traps" => Top'.pc = "trap"
    <3>1. stack[n - 1].fn \in GivesStatus => stack[n].fn \in Inner
      BY <2>1 DEF UInv, Stacked, CallsStacked
    <3>2. stack[n - 1].fn = "copy" /\ stack[n - 1].pc = "finished" => stack[n].fn = "exit_trap"
      BY <2>1 DEF UInv, Stacked, CallsStacked
    <3>3. stack[n - 1].fn = "traps" => stack[n - 1].pc = "trap"
      BY <2>1 DEF UInv, Stacked, TrapsStacked
    <3> QED
      BY <2>2, <3>1, <3>2, <3>3 DEF Top
  <2>4. ~(In("list"))'
    BY DEF In
  <2>5. CallHanded' /\ StatusHanded'
    BY <2>3, <2>4 DEF CallHanded, StatusHanded
  <2> QED
    BY <1>2, <2>5 DEF UInv
<1> QED
  BY <1>3, <1>4

-----------------------------------------------------------------------------
(* The operators that the actions are made of.                              *)

Sound == Good /\ Good' /\ UInv

(* The calls as they are, or the innermost one at another place.            *)
Here(base) ==
  \/ base = stack
  \/ /\ stack # <<>>
     /\ \E pc \in Pcs \ {"finished"}, s \in Statuses : base = At(pc) \/ base = AtWith(pc, s)

(* fn may be called by the innermost call.                                  *)
Fits(fn) ==
  stack # <<>> =>
    /\ Top.fn # "traps"
    /\ Top.fn \in GivesStatus => fn \in Inner
    /\ Top.fn = "copy" => Top.pc # "finished"

LEMMA HereEdited ==
  ASSUME Good, NEW base, Here(base)
  PROVE  /\ base \in Seq(FrameType) /\ Edited(stack, base)
         /\ stack # <<>> => /\ base # <<>> /\ Len(base) = Len(stack)
                            /\ base[Len(base)].fn = Top.fn
                            /\ base = stack \/ base[Len(base)].pc # "finished"
<1>1. stack \in Seq(FrameType)
  BY DEF Good, Nested
<1>2. CASE base = stack
  BY <1>1, <1>2 DEF Edited, SameCalls, Top
<1>3. ASSUME stack # <<>>, NEW pc \in Pcs \ {"finished"}, NEW s \in Statuses,
             base = At(pc) \/ base = AtWith(pc, s)
      PROVE  /\ base \in Seq(FrameType) /\ Edited(stack, base)
             /\ base # <<>> /\ Len(base) = Len(stack)
             /\ base[Len(base)].fn = Top.fn /\ base[Len(base)].pc # "finished"
  <2>1. Top \in FrameType
    BY <1>3, TopType
  <2>2. ASSUME NEW f, f = [Top EXCEPT !.pc = pc] \/ f = [Top EXCEPT !.pc = pc, !.st = s]
        PROVE  f.fn = Top.fn /\ f.pc = pc
    BY <2>1, <2>2 DEF FrameType
  <2>3. CASE base = At(pc)
    <3>1. /\ base \in Seq(FrameType) /\ Edited(stack, base) /\ base # <<>>
          /\ Len(base) = Len(stack) /\ base[Len(stack)] = [Top EXCEPT !.pc = pc]
      BY <1>3, <2>3, TopEdited
    <3> QED
      BY <1>3, <2>2, <3>1
  <2>4. CASE base = AtWith(pc, s)
    <3>1. /\ base \in Seq(FrameType) /\ Edited(stack, base) /\ base # <<>>
          /\ Len(base) = Len(stack) /\ base[Len(stack)] = [Top EXCEPT !.pc = pc, !.st = s]
      BY <1>3, <2>4, TopEdited
    <3> QED
      BY <1>3, <2>2, <3>1
  <2> QED
    BY <1>3, <2>3, <2>4
<1> QED
  BY <1>2, <1>3 DEF Here

(* A call is made.                                                          *)
LEMMA UCall ==
  ASSUME Sound, NEW base, Here(base), SameFlags(shells, shells'), NEW f \in FrameType,
         Fits(f.fn), stack' = Append(base, f), flow' = Running,
         f.fn \notin {"traps", "copy"}, f.fn = "list" => Me'.status = f.st
  PROVE  UInv'
<1>1. base \in Seq(FrameType) /\ Edited(stack, base) /\ (stack = <<>> => base = stack)
  BY HereEdited DEF Sound, Here
<1>2. MayCall(base, f)
  <2>1. CASE stack = <<>>
    BY <1>1, <2>1 DEF MayCall
  <2>2. CASE stack # <<>>
    <3>1. /\ base[Len(base)].fn = Top.fn
          /\ base = stack \/ base[Len(base)].pc # "finished"
      BY <2>2, HereEdited DEF Sound
    <3> QED
      BY <2>2, <3>1 DEF MayCall, Fits, Top
  <2> QED
    BY <2>1, <2>2
<1> QED
  BY <1>1, <1>2, UPush DEF Sound, Fits

LEMMA UCalls ==
  ASSUME Sound, NEW base, Here(base), NEW fn \in Uncounted \ {"traps"}, Fits(fn),
         NEW pc \in Pcs, NEW s \in Statuses, Calls(base, Frame(fn, pc, s))
  PROVE  UInv'
<1>1. Frame(fn, pc, s) \in FrameType /\ Frame(fn, pc, s).fn = fn
  BY MeType DEF Sound, Frame, FrameType, Uncounted
<1>2. SameFlags(shells, shells')
  BY DEF Calls, SameFlags
<1> QED
  BY <1>1, <1>2, UCall DEF Calls, Uncounted

(* The call is refused, or made.                                            *)
LEMMA UEnter ==
  ASSUME Sound, NEW base, Here(base), NEW f \in FrameType, Fits(f.fn), f.fn \in {"list", "call"},
         NEW c, c.in_subshell = Me.in_subshell, c.running_trap = Me.running_trap,
         f.fn = "list" => c.status = f.st, enter(base, f, c)
  PROVE  UInv'
<1>1. CASE Me.depth >= MAX_DEPTH
  <2>1. stack' = base /\ flow' = Error /\ UNCHANGED shells
    BY <1>1 DEF enter
  <2>2. SameFlags(shells, shells') /\ ReturnHanded' /\ Edited(stack, stack')
    BY <2>1, NoReturn, HereEdited DEF SameFlags, Error, Sound
  <2>3. stack # <<>> => (Top.fn = "copy" => Top'.pc # "finished")
    BY <2>1, HereEdited DEF Sound, Fits, Top
  <2> QED
    BY <2>1, <2>2, <2>3, UEdit DEF Sound, Error, Running, Fits
<1>2. CASE ~(Me.depth >= MAX_DEPTH)
  <2>1. stack' = Append(base, f) /\ flow' = Running /\ shells' = [shells EXCEPT ![K] = c]
    BY <1>2 DEF enter
  <2>2. SameFlags(shells, shells') /\ Me' = c
    BY <2>1, FlagsSet DEF Sound
  <2> QED
    BY <2>1, <2>2, UCall
<1> QED
  BY <1>1, <1>2

LEMMA URunList ==
  ASSUME Sound, NEW base, Here(base), Fits("list"), run_list(base)
  PROVE  UInv'
<1> DEFINE f == Frame("list", "check", Me.status)
           c == [Me EXCEPT !.depth = @ + 1]
<1>1. f \in FrameType /\ f.fn = "list" /\ f.st = Me.status
  <2>1. K \in Nat /\ Me.status \in Statuses
    BY MeType DEF Sound
  <2> QED
    BY <2>1 DEF Frame, FrameType, Fns, Pcs
<1>2. /\ c.in_subshell = Me.in_subshell /\ c.running_trap = Me.running_trap
      /\ c.status = Me.status
  BY MeType DEF Sound, Shell
<1>3. enter(base, f, c)
  BY DEF run_list
<1> HIDE DEF f, c
<1> QED
  BY <1>1, <1>2, <1>3, UEnter

LEMMA UIgnoring ==
  ASSUME Sound, NEW base, Here(base), Fits("ignoring"), NEW body \in Pcs,
         ignoring_errexit(base, body)
  PROVE  UInv'
<1>1. Frame("ignoring", body, 0) \in FrameType /\ Frame("ignoring", body, 0).fn = "ignoring"
  BY MeType DEF Sound, Frame, FrameType, Fns, Statuses
<1>2. Keeps
  <2>1. \E x : shells' = [shells EXCEPT ![K].errexit_off = x]
    BY DEF ignoring_errexit
  <2> QED
    BY <2>1, ShellsKept DEF Sound
<1> QED
  BY <1>1, <1>2, UCall DEF ignoring_errexit, Keeps

LEMMA URunPipeline ==
  ASSUME Sound, NEW base, Here(base), Fits("pipeline"), run_pipeline(base)
  PROVE  UInv'
<1>1. PICK pc \in {"negated", "plain"} : Calls(base, Frame("pipeline", pc, 0))
  BY DEF run_pipeline
<1>2. "pipeline" \in Uncounted \ {"traps"} /\ pc \in Pcs /\ 0 \in Statuses
  BY DEF Uncounted, Fns, Statuses, Pcs
<1> QED
  BY <1>1, <1>2, UCalls

LEMMA URunCommand ==
  ASSUME Sound, NEW base, Here(base), Fits("command"), run_command(base)
  PROVE  UInv'
<1>1. PICK kind \in KindsHere : Calls(base, Frame("command", kind, 0))
  BY DEF run_command
<1>2. "command" \in Uncounted \ {"traps"} /\ kind \in Pcs /\ 0 \in Statuses
  BY ConstantsAssumption DEF Uncounted, Fns, Statuses, Pcs, AllKinds, KindsHere
<1> QED
  BY <1>1, <1>2, UCalls

LEMMA URunCommands ==
  ASSUME Sound, NEW base, Here(base), Fits("command"), Fits("stages"), run_commands(base)
  PROVE  UInv'
<1>1. CASE run_command(base)
  BY <1>1, URunCommand
<1>2. CASE Calls(base, Frame("stages", "first", 0))
  <2>1. "stages" \in Uncounted \ {"traps"} /\ "first" \in Pcs /\ 0 \in Statuses
    BY DEF Uncounted, Fns, Statuses, Pcs
  <2> QED
    BY <1>2, <2>1, UCalls
<1> QED
  BY <1>1, <1>2 DEF run_commands

(* A copy is made.                                                          *)
LEMMA UCopy ==
  ASSUME Sound, NEW base, Here(base), stack # <<>>, Fits("copy"),
         NEW body \in Pcs \ {"finished"}, copy(base, body)
  PROVE  UInv'
<1> DEFINE f == [fn |-> "copy", pc |-> body, self |-> K + 1, st |-> 0]
<1>1. f \in FrameType /\ f.fn = "copy" /\ f.pc # "finished"
  <2>1. K + 1 \in Nat /\ 0 \in Statuses /\ "copy" \in Fns
    BY MeType DEF Statuses, Fns, Sound
  <2> QED
    BY <2>1 DEF FrameType
<1>2. stack' = Append(base, f) /\ shells' = Append(shells, subshell) /\ flow' = Running
  BY DEF copy
<1> HIDE DEF f
<1>3. /\ subshell \in Shell /\ subshell.in_subshell
      /\ subshell.running_trap <=> shells[Len(shells)].running_trap
  BY MeType DEF Sound, Shell, subshell, Me, K
<1>4. base \in Seq(FrameType) /\ MayCall(base, f) /\ Stacked(shells, base)
  <2>1. base \in Seq(FrameType) /\ Edited(stack, base)
    BY HereEdited DEF Sound
  <2>2. MayCall(base, f)
    BY <1>1, HereEdited DEF Sound, MayCall, Fits, Top
  <2>3. SameFlags(shells, shells) /\ stack \in Seq(FrameType)
    BY DEF SameFlags, Sound, Good, Nested
  <2> QED
    BY <2>1, <2>2, <2>3, StackedEdit DEF Sound, UInv, Fits, Top
<1>5. Stacked(shells', stack')
  BY <1>1, <1>2, <1>3, <1>4, StackedCopy DEF Sound, Good, Nested
<1>6. Top' = f
  BY <1>1, <1>2, <1>4, LenProperties, AppendProperties DEF Top
<1>7. CallHanded' /\ StatusHanded'
  BY <1>1, <1>2, <1>6 DEF CallHanded, StatusHanded, GivesStatus, In, Running
<1>8. ReturnHanded'
  BY <1>2, NoReturn DEF Running
<1> QED
  BY <1>5, <1>7, <1>8 DEF UInv

(* The innermost call goes on at another place.                             *)
LEMMA UGoesOn ==
  ASSUME Sound, stack # <<>>, NEW pc \in Pcs, NEW s \in Statuses,
         \/ stack' = At(pc) /\ s = Top.st
         \/ stack' = AtWith(pc, s),
         SameFlags(shells, shells'), flow' = Running,
         Top.fn # "traps", Top.fn = "copy" => pc # "finished",
         Top.fn = "list" /\ ~PipesFail => Me'.status = s
  PROVE  UInv'
<1>1. Top \in FrameType
  BY TopType DEF Sound
<1>2. Edited(stack, stack') /\ Top'.pc = pc /\ Top'.st = s
  <2>1. CASE stack' = At(pc) /\ s = Top.st
    <3>1. Edited(stack, stack') /\ Top' = [Top EXCEPT !.pc = pc]
      BY <2>1, TopEdited DEF Sound, Top
    <3> QED
      BY <1>1, <2>1, <3>1 DEF FrameType
  <2>2. CASE stack' = AtWith(pc, s)
    <3>1. Edited(stack, stack') /\ Top' = [Top EXCEPT !.pc = pc, !.st = s]
      BY <2>2, TopEdited DEF Sound, Top
    <3> QED
      BY <1>1, <2>2, <3>1 DEF FrameType
  <2> QED
    BY <2>1, <2>2
<1>3. ReturnHanded'
  BY NoReturn DEF Running
<1> QED
  BY <1>2, <1>3, UEdit DEF Sound, Running

(* The innermost call stays where it is, and finds what it has called for   *)
(* done.                                                                    *)
LEMMA UStays ==
  ASSUME Sound, stack # <<>>, UNCHANGED stack, SameFlags(shells, shells'), ReturnHanded',
         Top.fn \notin GivesStatus \cup {"traps", "copy"}
  PROVE  UInv'
<1>1. Edited(stack, stack')
  BY DEF Edited, SameCalls
<1> QED
  BY <1>1, UEdit DEF Sound, GivesStatus

(* A `return' passes a call that does not handle it.                        *)
LEMMA ReturnPassed ==
  ASSUME Sound, stack # <<>>, stack' = Popped, flow' = flow, Len(shells') = Len(shells),
         Top.fn \in {"call", "dot"} => flow.tag # "return"
  PROVE  ReturnHanded'
<1>1. /\ stack \in Seq(FrameType) /\ Len(stack) \in Nat \ {0}
      /\ stack' = Below(stack) /\ Len(stack') = Len(stack) - 1
      /\ \A i \in 1..(Len(stack) - 1) : stack'[i] = stack[i]
  BY BelowTop DEF Sound, Good, Nested, Popped, Below
<1>2. \A S : Top.fn \notin S =>
        Count(stack', S, Len(shells')) = Count(stack, S, Len(shells))
  BY <1>1, CountPop DEF Top
<1> QED
  BY <1>2 DEF Sound, UInv, ReturnHanded

(* The innermost call gives a result that is no `return'.                   *)
LEMMA UReturns ==
  ASSUME Sound, stack # <<>>, SameFlags(shells, shells'), stack' = Popped,
         flow'.tag \notin {"running", "return"},
         Top.fn \notin {"traps", "copy"}, Top.fn = "exit_trap" => flow'.tag = "ok",
         Top.fn \in Inner /\ flow'.tag = "ok" /\ ~PipesFail => Me'.status = flow'.n
  PROVE  UInv'
<1>1. ReturnHanded'
  BY NoReturn
<1> QED
  BY <1>1, UPop DEF Sound, Running

(* It gives what it was given.                                              *)
LEMMA UPassed ==
  ASSUME Sound, stack # <<>>, Keeps, stack' = Popped, flow # Running, flow' = flow,
         Top.fn \notin {"traps", "copy", "exit_trap"},
         Top.fn \in {"call", "dot"} => flow.tag # "return",
         Top.fn \in Inner /\ flow.tag = "ok" => Top.fn \in GivesStatus
  PROVE  UInv'
<1>1. ReturnHanded'
  BY ReturnPassed DEF Keeps, SameFlags
<1>2. Top.fn \in Inner /\ flow.tag = "ok" /\ ~PipesFail => Me'.status = flow'.n
  BY DEF Sound, UInv, StatusHanded, Keeps
<1> QED
  BY <1>1, <1>2, UPop DEF Sound, Keeps

LEMMA UGives ==
  ASSUME Sound, stack # <<>>, NEW r, Gives(r),
         r.tag \notin {"running", "return"},
         Top.fn \notin {"traps", "copy"}, Top.fn = "exit_trap" => r.tag = "ok",
         Top.fn \in Inner /\ r.tag = "ok" /\ ~PipesFail => Me.status = r.n
  PROVE  UInv'
<1>1. Keeps
  BY ShellsKept DEF Gives, Sound
<1> QED
  BY <1>1, UReturns DEF Gives, Keeps

LEMMA LoopLeft ==
  ASSUME Sound, NEW r, LeaveLoop(r)
  PROVE  Keeps /\ stack' = Popped /\ flow' = r
<1>1. \E x : shells' = [shells EXCEPT ![K].loop_depth = x]
  BY DEF LeaveLoop
<1> QED
  BY <1>1, ShellsKept DEF Sound, LeaveLoop

LEMMA ListLeft ==
  ASSUME Sound, NEW r, LeaveList(r)
  PROVE  Keeps /\ stack' = Popped /\ flow' = r
<1>1. \E x : shells' = [shells EXCEPT ![K].depth = x]
  BY DEF LeaveList
<1> QED
  BY <1>1, ShellsKept DEF Sound, LeaveList

-----------------------------------------------------------------------------
(* The actions.                                                             *)

LEMMA ListsFlow ==
  ASSUME Sound, ListCheck \/ ListItem \/ ListItemDone \/ ListNext \/ ListEnd \/ ListFails
  PROVE  UInv'
<1>1. /\ stack # <<>> /\ Top.fn = "list" /\ Top.st \in Statuses
      /\ Fits("and_or") /\ "list" \in GivesStatus
  <2>1. stack # <<>> /\ Top.fn = "list"
    BY DEF ListCheck, ListItem, ListItemDone, ListNext, ListEnd, ListFails, In, GotOk, GotErr
  <2> QED
    BY <2>1, TopType DEF Sound, Fits, GivesStatus, Inner
<1>2. In("list") /\ ~PipesFail => Me.status = Top.st
  BY <1>1 DEF Sound, UInv, StatusHanded
<1>3. UNCHANGED shells => Keeps
  BY ShellsKept DEF Sound
<1>4. CASE ListCheck
  <2>1. CASE interrupted
    <3>1. LeaveList(Interrupted)
      BY <1>4, <2>1 DEF ListCheck
    <3> QED
      BY <1>1, <3>1, ListLeft, UReturns DEF Interrupted, Keeps
  <2>2. CASE ~interrupted
    <3>1. /\ In("list") /\ flow' = Running /\ stack' = At("before") /\ UNCHANGED shells
          /\ "before" \in Pcs
      BY <1>4, <2>2 DEF ListCheck, In, Pcs
    <3>2. SameFlags(shells, shells') /\ Me'.status = Me.status
      BY <1>3, <3>1 DEF Keeps
    <3> QED
      BY <1>1, <1>2, <3>1, <3>2, UGoesOn
  <2> QED
    BY <2>1, <2>2
<1>5. CASE ListItem
  <2>1. Calls(AtWith("after", 0), Frame("and_or", "first", 0))
    BY <1>5 DEF ListItem
  <2>2. "after" \in Pcs \ {"finished"} /\ 0 \in Statuses /\ "first" \in Pcs
        /\ "and_or" \in Uncounted \ {"traps"}
    BY DEF Pcs, Statuses, Uncounted, Fns
  <2>3. Here(AtWith("after", 0))
    BY <1>1, <2>2 DEF Here
  <2> QED
    BY <1>1, <2>1, <2>2, <2>3, UCalls
<1>6. CASE ListItemDone
  <2>1. /\ flow.tag = "ok" /\ flow' = Running /\ stack' = AtWith("after", flow.n)
        /\ UNCHANGED shells /\ "after" \in Pcs
    BY <1>6 DEF ListItemDone, GotOk, Pcs
  <2>2. flow.n \in Statuses
    BY <2>1 DEF Sound, Good, FlowOK
  <2>3. SameFlags(shells, shells') /\ Me'.status = Me.status
    BY <1>3, <2>1 DEF Keeps
  <2>4. ~PipesFail => Me.status = flow.n
    BY <1>1, <2>1 DEF Sound, UInv, StatusHanded
  <2> QED
    BY <1>1, <2>1, <2>2, <2>3, <2>4, UGoesOn
<1>7. CASE ListNext
  <2>1. /\ In("list") /\ flow' = Running /\ stack' = At("check") /\ UNCHANGED shells
        /\ "check" \in Pcs
    BY <1>7 DEF ListNext, In, Pcs
  <2>2. SameFlags(shells, shells') /\ Me'.status = Me.status
    BY <1>3, <2>1 DEF Keeps
  <2> QED
    BY <1>1, <1>2, <2>1, <2>2, UGoesOn
<1>8. CASE ListEnd
  <2>1. In("list") /\ LeaveList(Ok(Top.st))
    BY <1>8 DEF ListEnd
  <2>2. Keeps /\ stack' = Popped /\ flow' = Ok(Top.st)
    BY <2>1, ListLeft
  <2> QED
    BY <1>1, <1>2, <2>1, <2>2, UReturns DEF Ok, Keeps
<1>9. CASE ListFails
  <2>1. Keeps /\ stack' = Popped /\ flow' = flow /\ flow # Running /\ flow.tag # "ok"
    BY <1>9, ListLeft DEF ListFails, GotErr, Failed, Running
  <2> QED
    BY <1>1, <2>1, UPassed
<1> QED
  BY <1>4, <1>5, <1>6, <1>7, <1>8, <1>9

LEMMA AndOrFlow ==
  ASSUME Sound, AndOrFirst \/ AndOrRest \/ PassOn
  PROVE  UInv'
<1>1. \A pc \in {"last", "rest"} : stack # <<>> => Here(At(pc))
  <2>1. 0 \in Statuses /\ {"last", "rest"} \subseteq Pcs \ {"finished"}
    BY DEF Statuses, Pcs
  <2> QED
    BY <2>1 DEF Here
<1>2. "pipeline" \in Pcs /\ Here(stack)
  BY DEF Pcs, Here
<1>3. Top.fn = "and_or" => Fits("pipeline") /\ Fits("ignoring")
  BY DEF Fits, Inner, GivesStatus
<1>4. flow.tag = "ok" => flow # Running
  BY DEF Running
<1>5. UNCHANGED shells => Keeps
  BY ShellsKept DEF Sound
<1>6. CASE AndOrFirst
  <2>1. stack # <<>> /\ Top.fn = "and_or"
    BY <1>6 DEF AndOrFirst, In
  <2>2. run_pipeline(At("last")) \/ ignoring_errexit(At("rest"), "pipeline")
    BY <1>6 DEF AndOrFirst
  <2> QED
    BY <1>1, <1>2, <1>3, <2>1, <2>2, URunPipeline, UIgnoring
<1>7. CASE AndOrRest
  <2>1. stack # <<>> /\ Top.fn = "and_or" /\ flow.tag = "ok"
    BY <1>7 DEF AndOrRest, GotOk
  <2>2. run_pipeline(At("last")) \/ ignoring_errexit(stack, "pipeline") \/ Gives(flow)
    BY <1>7 DEF AndOrRest
  <2>3. CASE Gives(flow)
    <3>1. stack' = Popped /\ flow' = flow /\ Keeps
      BY <1>5, <2>3 DEF Gives
    <3> QED
      BY <1>4, <2>1, <3>1, UPassed DEF GivesStatus
  <2> QED
    BY <1>1, <1>2, <1>3, <2>1, <2>2, <2>3, URunPipeline, UIgnoring
<1>8. CASE PassOn
  <2>1. /\ stack # <<>> /\ Top.fn \in {"and_or", "if", "command", "text"} /\ flow # Running
        /\ flow.tag = "ok" => Top.fn \in {"and_or", "if"}
        /\ stack' = Popped /\ flow' = flow /\ Keeps
    BY <1>4, <1>5, <1>8 DEF PassOn, GotOk, GotErr, Failed, Gives, Running
  <2> QED
    BY <2>1, UPassed DEF GivesStatus, Inner
<1> QED
  BY <1>6, <1>7, <1>8

LEMMA PipelinesFlow ==
  ASSUME Sound, Pipeline \/ PipelineDone \/ IgnoringBody \/ IgnoringDone
  PROVE  UInv'
<1>1. /\ stack # <<>> /\ Top.fn \in {"pipeline", "ignoring"} /\ Here(stack)
      /\ \A fn \in Inner : Fits(fn)
  BY DEF Pipeline, PipelineDone, IgnoringBody, IgnoringDone, In, Got, Here, Fits
<1>2. {"list", "pipeline", "ignoring", "command", "stages"} \subseteq Inner
  BY DEF Inner, GivesStatus
<1>3. CASE Pipeline
  <2>1. run_commands(stack) \/ ignoring_errexit(stack, "commands")
    BY <1>3 DEF Pipeline
  <2>2. "commands" \in Pcs
    BY DEF Pcs
  <2> QED
    BY <1>1, <1>2, <2>1, <2>2, URunCommands, UIgnoring
<1>4. CASE PipelineDone
  <2>1. CASE Gives(flow)
    <3>1. stack' = Popped /\ flow' = flow /\ flow # Running /\ Keeps
      BY <1>4, <2>1, ShellsKept DEF Gives, PipelineDone, Got, Sound
    <3> QED
      BY <1>1, <3>1, UPassed DEF GivesStatus
  <2>2. CASE ~Gives(flow)
    <3>1. PICK negated \in {0, 1} :
            /\ stack' = Popped /\ flow' = Ok(negated)
            /\ shells' = [shells EXCEPT ![K].status = negated]
      BY <1>4, <2>2 DEF PipelineDone
    <3>2. Sets(negated)
      BY <3>1, StatusSet DEF Sound
    <3> QED
      BY <1>1, <3>1, <3>2, UReturns DEF Ok, Sets
  <2> QED
    BY <2>1, <2>2
<1>5. CASE IgnoringBody
  <2>1. run_pipeline(stack) \/ run_commands(stack) \/ run_list(stack)
    BY <1>5 DEF IgnoringBody
  <2> QED
    BY <1>1, <1>2, <2>1, URunPipeline, URunCommands, URunList
<1>6. CASE IgnoringDone
  <2>1. Keeps
    <3>1. \E x : shells' = [shells EXCEPT ![K].errexit_off = x]
      BY <1>6 DEF IgnoringDone
    <3> QED
      BY <3>1, ShellsKept DEF Sound
  <2>2. Top.fn = "ignoring" /\ stack' = Popped /\ flow' = flow /\ flow # Running
    BY <1>6 DEF IgnoringDone, Got
  <2> QED
    BY <1>1, <2>1, <2>2, UPassed DEF GivesStatus
<1> QED
  BY <1>3, <1>4, <1>5, <1>6

LEMMA CopiesFlow ==
  ASSUME Sound, CopyBody \/ finish_copy \/ ExitTrapText \/ ExitTrapDone
  PROVE  UInv'
<1>1. stack # <<>> /\ Top.st \in Statuses /\ stack \in Seq(FrameType)
  BY TopType DEF CopyBody, finish_copy, ExitTrapText, ExitTrapDone, In, Got, Sound, Good, Nested
<1>2. CASE CopyBody
  <2>1. Top.fn = "copy" /\ Top.pc # "finished" /\ (run_list(At("body")) \/ run_command(At("body")))
    BY <1>2 DEF CopyBody, In
  <2>2. Here(At("body"))
    <3>1. "body" \in Pcs \ {"finished"} /\ 0 \in Statuses
      BY DEF Pcs, Statuses
    <3> QED
      BY <1>1, <3>1 DEF Here
  <2>3. Fits("list") /\ Fits("command")
    BY <2>1 DEF Fits, GivesStatus
  <2> QED
    BY <2>1, <2>2, <2>3, URunList, URunCommand
<1>3. CASE finish_copy
  <2>1. flow # Running /\ Top.fn = "copy" /\ run_exit_trap(At("finished"), boundary(flow))
    BY <1>3 DEF finish_copy, Got
  <2>2. boundary(flow) \in Statuses
    BY <2>1, BoundaryType DEF Sound, Good
  <2>3. /\ At("finished") \in Seq(FrameType) /\ Edited(stack, At("finished"))
        /\ At("finished") # <<>> /\ Len(At("finished")) = Len(stack)
        /\ At("finished")[Len(stack)].fn = "copy" /\ At("finished")[Len(stack)].pc = "finished"
    <3>1. "finished" \in Pcs /\ 0 \in Statuses /\ Top \in FrameType
      BY <1>1, TopType DEF Pcs, Statuses, Sound
    <3>2. /\ At("finished") \in Seq(FrameType) /\ Edited(stack, At("finished"))
          /\ At("finished") # <<>> /\ Len(At("finished")) = Len(stack)
          /\ At("finished")[Len(stack)] = [Top EXCEPT !.pc = "finished"]
      BY <1>1, <3>1, TopEdited DEF Sound
    <3> QED
      BY <2>1, <3>1, <3>2 DEF FrameType
  <2>4. PICK s \in Statuses : s = boundary(flow)
    BY <2>2
  <2>5. CASE Me.exit_trap
    <3> DEFINE f == Frame("exit_trap", "start", s)
    <3>1. f \in FrameType /\ f.fn = "exit_trap"
      <4>1. K \in Nat /\ "exit_trap" \in Fns /\ "start" \in Pcs
        BY MeType DEF Sound, Fns, Pcs
      <4> QED
        BY <4>1 DEF Frame, FrameType
    <3>2. /\ stack' = Append(At("finished"), f) /\ flow' = Running
          /\ shells' = [shells EXCEPT ![K].exit_trap = FALSE, ![K].status = s]
      BY <2>1, <2>4, <2>5 DEF run_exit_trap
    <3> HIDE DEF f
    <3>3. Sets(s)
      BY <3>2, StatusSet DEF Sound
    <3>4. MayCall(At("finished"), f)
      BY <2>3, <3>1 DEF MayCall, GivesStatus
    <3> QED
      BY <2>1, <2>3, <3>1, <3>2, <3>3, <3>4, UPush DEF Sound, Sets
  <2>6. CASE ~Me.exit_trap
    <3>1. stack' = At("finished") /\ flow' = Ok(s) /\ UNCHANGED shells
      BY <2>1, <2>4, <2>6 DEF run_exit_trap
    <3>2. Keeps
      BY <3>1, ShellsKept DEF Sound
    <3>3. ReturnHanded'
      BY <3>1, NoReturn DEF Ok
    <3> QED
      BY <2>1, <2>3, <3>1, <3>2, <3>3, UEdit DEF Sound, Keeps, GivesStatus, Ok
  <2> QED
    BY <2>5, <2>6
<1>4. CASE ExitTrapText
  <2>1. Top.fn = "exit_trap" /\ Calls(stack, Frame("text", "line", Me.status))
    BY <1>4 DEF ExitTrapText, In
  <2>2. "text" \in Uncounted \ {"traps"} /\ "line" \in Pcs /\ Me.status \in Statuses /\ Fits("text")
    BY <2>1, MeType DEF Uncounted, Fns, Pcs, Sound, Fits, GivesStatus
  <2> QED
    BY <2>1, <2>2, UCalls DEF Here
<1>5. CASE ExitTrapDone
  <2>1. Top.fn = "exit_trap" /\ \E s : Gives(Ok(s))
    BY <1>5 DEF ExitTrapDone, Got
  <2> QED
    BY <1>1, <2>1, UGives DEF Ok, Inner, GivesStatus
<1> QED
  BY <1>2, <1>3, <1>4, <1>5

(* A copy ends; what called it goes on with a status.                       *)
LEMMA CopyDoneFlow ==
  ASSUME Sound, CopyDone
  PROVE  UInv'
<1> DEFINE n == Len(stack)
<1>1. /\ stack # <<>> /\ Top.fn = "copy" /\ Top.pc = "finished" /\ stack' = Popped
      /\ shells' = SubSeq(shells, 1, K - 1) /\ flow' = flow
  BY DEF CopyDone, Got
<1>2. flow.tag = "ok"
  BY <1>1 DEF Sound, UInv, CallHanded
<1>3. Stacked(shells', stack')
  BY <1>1, StackedCopyDone DEF Sound, UInv, Good, Nested, Top, K, Popped, Below
<1>4. /\ stack \in Seq(FrameType) /\ n \in Nat \ {0}
      /\ stack' = Below(stack) /\ Len(stack') = n - 1
      /\ \A i \in 1..(n - 1) : stack'[i] = stack[i]
      /\ stack' # <<>> => Len(stack') > 0
  BY <1>1, BelowTop, EmptySeq DEF Sound, Good, Nested, Popped, Below
<1>5. CallHanded' /\ StatusHanded'
  <2>1. CASE stack' = <<>>
    BY <2>1 DEF CallHanded, StatusHanded, In
  <2>2. CASE stack' # <<>>
    <3>1. n - 1 \in 1..n /\ n - 1 \in 1..(n - 1) /\ n - 1 + 1 = n /\ n - 1 < n
      BY <1>4, <2>2
    <3>2. Top' = stack[n - 1]
      BY <1>4, <3>1 DEF Top
    <3>3. /\ Top'.fn \notin GivesStatus
          /\ ~(Top'.fn = "copy" /\ Top'.pc = "finished")
          /\ Top'.fn = "traps" => Top'.pc = "trap"
      <4>1. /\ stack[n - 1].fn \in GivesStatus => stack[n].fn \in Inner
            /\ stack[n - 1].fn = "copy" /\ stack[n - 1].pc = "finished" => stack[n].fn = "exit_trap"
        BY <3>1 DEF Sound, UInv, Stacked, CallsStacked
      <4>2. stack[n - 1].fn = "traps" => stack[n - 1].pc = "trap"
        BY <3>1 DEF Sound, UInv, Stacked, TrapsStacked
      <4>3. stack[n].fn = "copy"
        BY <1>1 DEF Top
      <4> QED
        BY <3>2, <4>1, <4>2, <4>3 DEF Inner, GivesStatus
    <3> QED
      BY <1>1, <1>2, <3>3 DEF CallHanded, StatusHanded, In, GivesStatus, Running
  <2> QED
    BY <2>1, <2>2
<1>6. ReturnHanded'
  BY <1>1, <1>2, NoReturn
<1> QED
  BY <1>3, <1>5, <1>6 DEF UInv

LEMMA StagesFlow ==
  ASSUME Sound, StagesRun \/ StagesNoPipe \/ StagesNext \/ StagesDone
  PROVE  UInv'
<1>1. /\ stack # <<>> /\ Top.fn = "stages" /\ Top.st \in Statuses
      /\ "stages" \notin GivesStatus \cup {"traps", "copy", "exit_trap", "list"}
  BY TopType DEF StagesRun, StagesNoPipe, StagesNext, StagesDone, In, GotOk, GivesStatus, Sound
<1>2. UNCHANGED shells => Keeps
  BY ShellsKept DEF Sound
<1>3. ASSUME NEW pipefail \in BOOLEAN, flow.tag = "ok"
      PROVE  StageStatus(pipefail) \in Statuses
  BY <1>1, <1>3 DEF StageStatus, Sound, Good, FlowOK
<1>4. \A s : /\ errexit_check(s).tag \in {"ok", "exit"}
             /\ errexit_check(s).tag = "ok" => errexit_check(s).n = s
  BY DEF errexit_check, Ok, Exit
<1>5. CASE StagesRun
  <2>1. CASE copy(stack, "command")
    <3>1. "command" \in Pcs \ {"finished"} /\ Here(stack) /\ Fits("copy")
      BY <1>1 DEF Pcs, Here, Fits
    <3> QED
      BY <1>1, <2>1, <3>1, UCopy
  <2>2. CASE flow' = Ok(1) /\ UNCHANGED <<stack, shells>>
    <3>1. Keeps /\ ReturnHanded'
      BY <1>2, <2>2, NoReturn DEF Ok
    <3> QED
      BY <1>1, <2>2, <3>1, UStays DEF Keeps
  <2> QED
    BY <1>5, <2>1, <2>2 DEF StagesRun
<1>6. CASE StagesNoPipe
  <2>1. PipesFail /\ Gives(errexit_check(1))
    BY <1>6 DEF StagesNoPipe
  <2> QED
    BY <1>1, <1>4, <2>1, UGives
<1>7. CASE StagesNext
  <2>1. PICK pipefail \in BOOLEAN : stack' = AtWith("more", StageStatus(pipefail))
    BY <1>7 DEF StagesNext
  <2>2. StageStatus(pipefail) \in Statuses /\ flow' = Running /\ Keeps /\ "more" \in Pcs
    BY <1>2, <1>3, <1>7 DEF StagesNext, GotOk, Pcs
  <2> QED
    BY <1>1, <2>1, <2>2, UGoesOn DEF Keeps
<1>8. CASE StagesDone
  <2>1. CASE interrupted
    <3>1. Gives(Interrupted)
      BY <1>8, <2>1 DEF StagesDone
    <3> QED
      BY <1>1, <3>1, UGives DEF Interrupted
  <2>2. CASE ~interrupted
    <3>1. PICK pipefail \in BOOLEAN :
            /\ stack' = Popped
            /\ flow' = errexit_check(StageStatus(pipefail))
            /\ shells' = [shells EXCEPT ![K].status = StageStatus(pipefail)]
      BY <1>8, <2>2 DEF StagesDone
    <3>2. Sets(StageStatus(pipefail))
      BY <3>1, StatusSet DEF Sound
    <3> QED
      BY <1>1, <1>4, <3>1, <3>2, UReturns DEF Sets
  <2> QED
    BY <2>1, <2>2
<1> QED
  BY <1>5, <1>6, <1>7, <1>8

(* run_command gives r to itself.                                           *)
LEMMA UCommandGives ==
  ASSUME Sound, stack # <<>>, Top.fn = "command", NEW r, CommandGives(r),
         r.tag # "return"
  PROVE  UInv'
<1>1. Keeps
  BY ShellsKept DEF Sound, CommandGives
<1>2. ReturnHanded'
  BY NoReturn DEF CommandGives
<1> QED
  BY <1>1, <1>2, UStays DEF CommandGives, Keeps, GivesStatus

LEMMA CompoundFlow ==
  ASSUME Sound, RedirectFails \/ run_compound \/ IfCondition \/ IfTested
  PROVE  UInv'
<1>1. /\ stack # <<>> /\ Top.fn \in {"command", "if"} /\ Top.pc \in Pcs /\ Here(stack)
      /\ \A fn \in Fns : Fits(fn)
  <2>1. stack # <<>> /\ Top.fn \in {"command", "if"}
    BY DEF RedirectFails, run_compound, IfCondition, IfTested, Compound, In, GotOk
  <2> QED
    BY <2>1, TopType DEF Sound, Here, Fits, GivesStatus
<1>2. \A pc \in {"tested", "body", "condition"} : pc \in Pcs \ {"finished"} /\ Here(At(pc))
  <2>1. 0 \in Statuses /\ {"tested", "body", "condition"} \subseteq Pcs \ {"finished"}
    BY DEF Statuses, Pcs
  <2> QED
    BY <1>1, <2>1 DEF Here
<1>3. {"list", "copy", "if", "ignoring", "loop"} \subseteq Fns /\ "list" \in Pcs \ {"finished"}
  BY DEF Fns, Pcs
<1>4. CASE RedirectFails
  <2>1. CASE stack' = Popped /\ flow' = Ok(2) /\ shells' = [shells EXCEPT ![K].status = 2]
    <3>1. Sets(2)
      BY <2>1, StatusSet DEF Sound
    <3> QED
      BY <1>1, <2>1, <3>1, UReturns DEF Ok, Sets
  <2>2. CASE Gives(Error)
    BY <1>1, <2>2, UGives DEF Error
  <2> QED
    BY <1>4, <2>1, <2>2 DEF RedirectFails
<1>5. CASE run_compound
  <2>1. Top.fn = "command"
    BY <1>5 DEF run_compound, Compound, In
  <2>2. \/ copy(stack, "list")
        \/ run_list(stack)
        \/ Calls(stack, Frame("if", "condition", 0))
        \/ CommandGives(Ok(0)) \/ CommandGives(Error)
        \/ /\ stack' = Append(stack, Frame("loop", Top.pc, 0))
           /\ shells' = [shells EXCEPT ![K].loop_depth = @ + 1]
           /\ flow' = Running
    BY <1>5 DEF run_compound
  <2>3. CASE copy(stack, "list")
    BY <1>1, <1>3, <2>3, UCopy
  <2>4. CASE run_list(stack)
    BY <1>1, <1>3, <2>4, URunList
  <2>5. CASE Calls(stack, Frame("if", "condition", 0))
    <3>1. "if" \in Uncounted \ {"traps"} /\ 0 \in Statuses
      BY DEF Uncounted, Fns, Statuses
    <3> QED
      BY <1>1, <1>2, <1>3, <2>5, <3>1, UCalls
  <2>6. CASE CommandGives(Ok(0)) \/ CommandGives(Error)
    BY <1>1, <2>1, <2>6, UCommandGives DEF Ok, Error
  <2>7. CASE /\ stack' = Append(stack, Frame("loop", Top.pc, 0))
             /\ shells' = [shells EXCEPT ![K].loop_depth = @ + 1]
             /\ flow' = Running
    <3>1. /\ Frame("loop", Top.pc, 0) \in FrameType
          /\ Frame("loop", Top.pc, 0).fn = "loop"
      BY <1>1, MeType DEF Sound, Frame, FrameType, Fns, Statuses
    <3>2. \E x : shells' = [shells EXCEPT ![K].loop_depth = x]
      BY <2>7
    <3>3. Keeps
      BY <3>2, ShellsKept DEF Sound
    <3> QED
      BY <1>1, <1>3, <2>7, <3>1, <3>3, UCall DEF Keeps
  <2> QED
    BY <2>2, <2>3, <2>4, <2>5, <2>6, <2>7
<1>6. CASE IfCondition
  <2>1. ignoring_errexit(At("tested"), "list")
    BY <1>6 DEF IfCondition
  <2> QED
    BY <1>1, <1>2, <1>3, <2>1, UIgnoring
<1>7. CASE IfTested
  <2>1. /\ Top.fn = "if"
        /\ \/ run_list(At("body"))
           \/ stack' = At("condition") /\ flow' = Running /\ UNCHANGED shells
           \/ Gives(Ok(0))
    BY <1>7 DEF IfTested, GotOk
  <2>2. CASE run_list(At("body"))
    BY <1>1, <1>2, <1>3, <2>2, URunList
  <2>3. CASE stack' = At("condition") /\ flow' = Running /\ UNCHANGED shells
    <3>1. Keeps /\ Top.st \in Statuses
      BY <1>1, <2>3, ShellsKept, TopType DEF Sound
    <3> QED
      BY <1>1, <1>2, <2>1, <2>3, <3>1, UGoesOn DEF Keeps
  <2>4. CASE Gives(Ok(0))
    BY <1>1, <2>1, <2>4, UGives DEF Ok, Inner, GivesStatus
  <2> QED
    BY <2>1, <2>2, <2>3, <2>4
<1> QED
  BY <1>4, <1>5, <1>6, <1>7

LEMMA LoopsFlow ==
  ASSUME Sound, LoopPass \/ LoopTested \/ loop_body \/ LoopConditionFails
  PROVE  UInv'
<1>1. /\ stack # <<>> /\ Top.fn = "loop" /\ Top.st \in Statuses /\ Fits("list") /\ Fits("ignoring")
  <2>1. stack # <<>> /\ Top.fn = "loop"
    BY DEF LoopPass, LoopTested, loop_body, LoopConditionFails, In, Got, GotOk, GotErr
  <2> QED
    BY <2>1, TopType DEF Sound, Fits, GivesStatus
<1>2. "loop" \notin Inner \cup {"traps", "copy", "exit_trap", "call", "dot"}
  BY DEF Inner, GivesStatus
<1>3. \A pc \in {"condition", "for_body", "while_body", "for", "while"} :
        pc \in Pcs \ {"finished"} /\ Here(At(pc))
  <2>1. 0 \in Statuses
        /\ {"condition", "for_body", "while_body", "for", "while"} \subseteq Pcs \ {"finished"}
    BY DEF Statuses, Pcs, AllKinds
  <2> QED
    BY <1>1, <2>1 DEF Here
<1>4. ASSUME NEW r, LeaveLoop(r), r.tag \notin {"running", "return"}
      PROVE  UInv'
  BY <1>1, <1>2, <1>4, LoopLeft, UReturns DEF Keeps
<1>5. ASSUME LeaveLoop(flow), flow # Running
      PROVE  UInv'
  BY <1>1, <1>2, <1>5, LoopLeft, UPassed
<1>6. CASE LoopPass
  <2>1. \/ LeaveLoop(Interrupted) \/ LeaveLoop(Error) \/ LeaveLoop(Ok(Top.st))
        \/ ignoring_errexit(At("condition"), "list")
        \/ run_list(At("for_body"))
    BY <1>6 DEF LoopPass
  <2>2. "list" \in Pcs
    BY DEF Pcs
  <2> QED
    BY <1>1, <1>3, <1>4, <2>1, <2>2, UIgnoring, URunList DEF Interrupted, Error, Ok
<1>7. CASE LoopTested
  <2>1. LeaveLoop(Ok(Top.st)) \/ run_list(At("while_body"))
    BY <1>7 DEF LoopTested
  <2> QED
    BY <1>1, <1>3, <1>4, <2>1, URunList DEF Ok
<1>8. CASE loop_body
  <2>1. NextPass \in {"for", "while"} /\ flow # Running
    BY <1>8 DEF NextPass, loop_body, Got
  <2>2. UNCHANGED shells => Keeps
    BY ShellsKept DEF Sound
  <2>3. CASE flow.tag = "ok" /\ stack' = AtWith(NextPass, flow.n) /\ flow' = Running /\ UNCHANGED shells
    <3>1. flow.n \in Statuses
      BY <2>3 DEF Sound, Good, FlowOK
    <3> QED
      BY <1>1, <1>3, <2>1, <2>2, <2>3, <3>1, UGoesOn DEF Keeps
  <2>4. CASE stack' = At(NextPass) /\ flow' = Running /\ UNCHANGED shells
    BY <1>1, <1>3, <2>1, <2>2, <2>4, UGoesOn DEF Keeps
  <2>5. CASE LeaveLoop(Ok(Top.st))
    BY <1>4, <2>5 DEF Ok
  <2>6. CASE flow.tag \in {"break", "continue"} /\ flow.n > 1 /\ LeaveLoop([flow EXCEPT !.n = @ - 1])
    <3>1. stack' = Popped /\ Keeps /\ flow' = [flow EXCEPT !.n = @ - 1]
      BY <2>6, LoopLeft
    <3>2. flow'.tag = flow.tag /\ flow' # Running
      BY <2>6, <3>1 DEF Sound, Good, FlowOK, Running
    <3>3. ReturnHanded'
      BY <2>6, <3>2, NoReturn
    <3> QED
      BY <1>1, <1>2, <2>6, <3>1, <3>2, <3>3, UPop DEF Sound, Keeps
  <2>7. CASE flow.tag \notin {"ok", "break", "continue"} /\ LeaveLoop(flow)
    BY <1>5, <2>1, <2>7
  <2> QED
    BY <1>8, <2>3, <2>4, <2>5, <2>6, <2>7 DEF loop_body
<1>9. CASE LoopConditionFails
  BY <1>5, <1>9 DEF LoopConditionFails, GotErr, Failed, Running
<1> QED
  BY <1>6, <1>7, <1>8, <1>9

LEMMA ExpansionsFlow ==
  ASSUME Sound, command_substitution \/ ExpansionFails \/ Expanded
  PROVE  UInv'
<1>1. /\ stack # <<>> /\ Top.fn = "command" /\ Top.st \in Statuses /\ Fits("copy")
  <2>1. stack # <<>> /\ Top.fn = "command"
    BY DEF command_substitution, ExpansionFails, Expanded, Expanding, In, GotOk
  <2> QED
    BY <2>1, TopType DEF Sound, Fits, GivesStatus
<1>2. \A pc \in {"words", "assignments", "simple", "ready"} :
        pc \in Pcs \ {"finished"} /\ Here(At(pc))
  <2>1. 0 \in Statuses /\ {"words", "assignments", "simple", "ready"} \subseteq Pcs \ {"finished"}
    BY DEF Statuses, Pcs, AllKinds
  <2> QED
    BY <1>1, <2>1 DEF Here
<1>3. UNCHANGED shells => Keeps
  BY ShellsKept DEF Sound
<1>4. CASE command_substitution
  <2>1. CASE copy(At("words"), "list") \/ copy(At("assignments"), "list")
    <3>1. "list" \in Pcs \ {"finished"}
      BY DEF Pcs
    <3> QED
      BY <1>1, <1>2, <2>1, <3>1, UCopy
  <2>2. CASE /\ GotOk("command")
             /\ stack' = AtWith(IF Top.pc = "words" THEN "simple" ELSE "ready", flow.n)
             /\ flow' = Running /\ UNCHANGED shells
    <3>1. PICK pc \in {"simple", "ready"} : stack' = AtWith(pc, flow.n)
      BY <2>2
    <3>2. flow.n \in Statuses
      BY <2>2 DEF GotOk, Sound, Good, FlowOK
    <3> QED
      BY <1>1, <1>2, <1>3, <2>2, <3>1, <3>2, UGoesOn DEF Keeps
  <2> QED
    BY <1>4, <2>1, <2>2 DEF command_substitution
<1>5. CASE ExpansionFails
  BY <1>1, <1>5, UCommandGives DEF ExpansionFails, Error
<1>6. CASE Expanded
  <2>1. CASE interrupted
    BY <1>1, <1>6, <2>1, UCommandGives DEF Expanded, Interrupted
  <2>2. CASE ~interrupted
    <3>1. stack' = At("ready") /\ UNCHANGED shells /\ flow' = Running
      BY <1>6, <2>2 DEF Expanded, Expanding, In
    <3> QED
      BY <1>1, <1>2, <1>3, <3>1, UGoesOn DEF Keeps
  <2> QED
    BY <2>1, <2>2
<1> QED
  BY <1>4, <1>5, <1>6

(* `return' needs a call.                                                   *)
LEMMA ReturnStarts ==
  ASSUME Sound, stack # <<>>, Top.fn = "command", NEW s, CommandGives(Return(s)),
         Me.func_depth > 0
  PROVE  UInv'
<1>1. Keeps /\ UNCHANGED <<stack, shells>>
  BY ShellsKept DEF Sound, CommandGives
<1>2. Me.func_depth = Count(stack, {"call", "dot"}, Len(shells))
  BY MeType DEF Sound, Good, Nested, Counts, Me, K
<1>3. ReturnHanded'
  BY <1>1, <1>2 DEF ReturnHanded
<1> QED
  BY <1>1, <1>3, UStays DEF Keeps, GivesStatus

LEMMA SimplesFlow ==
  ASSUME Sound,
         SimpleFails \/ RunAssignment \/ RunBuiltin \/ RunExit \/ RunReturn
         \/ loop_control("break") \/ loop_control("continue") \/ RunSet \/ SetExitTrap
  PROVE  UInv'
<1>1. stack # <<>> /\ Top.fn = "command"
  BY DEF SimpleFails, RunAssignment, RunBuiltin, RunExit, RunReturn, loop_control, RunSet,
         SetExitTrap, Simple, In
<1>2. \A s : CommandGives(Ok(s)) \/ CommandGives(Exit(s)) => UInv'
  <2> TAKE s
  <2>1. Ok(s).tag # "return" /\ Exit(s).tag # "return"
    BY DEF Ok, Exit
  <2> QED
    BY <1>1, <2>1, UCommandGives
<1>3. CommandGives(Error) => UInv'
  BY <1>1, UCommandGives DEF Error
<1>4. CASE SimpleFails \/ RunAssignment \/ RunBuiltin \/ RunExit
  BY <1>2, <1>3, <1>4 DEF SimpleFails, RunAssignment, RunBuiltin, RunExit
<1>5. CASE RunReturn
  <2>1. CASE CommandGives(Ok(2))
    BY <1>2, <2>1
  <2>2. CASE ~CommandGives(Ok(2))
    <3>1. PICK s \in Operands : CommandGives(Return(s)) /\ Me.func_depth > 0
      BY <1>5, <2>2 DEF RunReturn
    <3> QED
      BY <1>1, <3>1, ReturnStarts
  <2> QED
    BY <2>1, <2>2
<1>6. ASSUME NEW kind \in {"break", "continue"}, loop_control(kind)
      PROVE  UInv'
  <2>1. CASE CommandGives(Ok(2)) \/ CommandGives(Ok(0))
    BY <1>2, <2>1
  <2>2. CASE ~(CommandGives(Ok(2)) \/ CommandGives(Ok(0)))
    <3>1. PICK n : CommandGives([tag |-> kind, n |-> n])
      BY <1>6, <2>2 DEF loop_control
    <3>2. [tag |-> kind, n |-> n].tag # "return"
      BY <1>6
    <3> QED
      BY <1>1, <3>1, <3>2, UCommandGives
  <2> QED
    BY <2>1, <2>2
<1>7. CASE RunSet \/ SetExitTrap
  <2>1. /\ \/ \E x : shells' = [shells EXCEPT ![K].errexit = x]
           \/ \E x : shells' = [shells EXCEPT ![K].exit_trap = x]
        /\ UNCHANGED stack /\ flow' \in {Ok(0), Ok(1)}
    BY <1>7 DEF RunSet, SetExitTrap
  <2>2. Keeps
    BY <2>1, ShellsKept DEF Sound
  <2>3. ReturnHanded'
    BY <2>1, NoReturn DEF Ok
  <2> QED
    BY <1>1, <2>1, <2>2, <2>3, UStays DEF Keeps, GivesStatus
<1> QED
  BY <1>4, <1>5, <1>6, <1>7

LEMMA FunctionsFlow ==
  ASSUME Sound,
         call_function \/ FunctionBody \/ FunctionDone \/ RunEval \/ RunDot \/ DotText \/ DotDone
  PROVE  UInv'
<1>1. /\ stack # <<>> /\ Top.fn \in {"command", "call", "dot"} /\ Here(stack)
      /\ \A fn \in Fns : Fits(fn)
  BY DEF call_function, FunctionBody, FunctionDone, RunEval, RunDot, DotText, DotDone, Simple,
         In, Got, Here, Fits, GivesStatus
<1>2. {"command", "text", "call", "dot"} \subseteq Fns /\ "command" \in Uncounted \ {"traps"}
      /\ "text" \in Uncounted \ {"traps"} /\ "line" \in Pcs /\ 0 \in Statuses
      /\ Me.status \in Statuses /\ K \in Nat
  BY MeType DEF Fns, Uncounted, Pcs, Statuses, Sound
<1>3. \A s : Top.fn = "command" /\ CommandGives(Ok(s)) => UInv'
  <2> SUFFICES ASSUME NEW s, Top.fn = "command", CommandGives(Ok(s)) PROVE UInv'
    OBVIOUS
  <2>1. Ok(s).tag # "return"
    BY DEF Ok
  <2> QED
    BY <1>1, <2>1, UCommandGives
(* FunctionDone and DotDone.                                                *)
<1>4. ASSUME Top.fn \in {"call", "dot"}, flow # Running, stack' = Popped, Keeps,
             flow' = IF flow.tag = "return" THEN Ok(flow.n) ELSE flow
      PROVE  UInv'
  <2>1. Top.fn \notin Inner \cup {"traps", "copy", "exit_trap", "loop"}
    BY <1>4 DEF Inner, GivesStatus
  <2>2. CASE flow.tag = "return"
    BY <1>1, <1>4, <2>1, <2>2, UReturns DEF Ok, Keeps
  <2>3. CASE flow.tag # "return"
    BY <1>1, <1>4, <2>1, <2>3, UPassed
  <2> QED
    BY <2>2, <2>3
<1>5. CASE call_function
  <2> DEFINE f == Frame("call", "body", 0)
             c == [Me EXCEPT !.depth = @ + 1, !.func_depth = @ + 1]
  <2>1. f \in FrameType /\ f.fn = "call"
    BY <1>2 DEF Frame, FrameType, Pcs
  <2>2. c.in_subshell = Me.in_subshell /\ c.running_trap = Me.running_trap
    BY MeType DEF Sound, Shell
  <2>3. enter(stack, f, c)
    BY <1>5 DEF call_function
  <2> HIDE DEF f, c
  <2> QED
    BY <1>1, <1>2, <2>1, <2>2, <2>3, UEnter
<1>6. CASE FunctionBody
  <2>1. PICK kind \in KindsHere : Calls(stack, Frame("command", kind, 0))
    BY <1>6 DEF FunctionBody
  <2>2. kind \in Pcs
    BY ConstantsAssumption DEF Pcs, AllKinds, KindsHere
  <2> QED
    BY <1>1, <1>2, <2>1, <2>2, UCalls
<1>7. CASE FunctionDone
  <2>1. \E x, y : shells' = [shells EXCEPT ![K].func_depth = x, ![K].depth = y]
    BY <1>7 DEF FunctionDone
  <2>2. Keeps
    BY <2>1, ShellsKept DEF Sound
  <2> QED
    BY <1>4, <1>7, <2>2 DEF FunctionDone, Got
<1>8. CASE RunEval
  <2>1. Top.fn = "command"
    BY <1>8 DEF RunEval, Simple, In
  <2>2. \/ CommandGives(Ok(0)) \/ CommandGives(Ok(2))
        \/ Calls(stack, Frame("text", "line", Me.status))
    BY <1>8 DEF RunEval
  <2> QED
    BY <1>1, <1>2, <1>3, <2>1, <2>2, UCalls
<1>9. CASE RunDot
  <2>1. Top.fn = "command"
    BY <1>9 DEF RunDot, Simple, In
  <2>2. CASE CommandGives(Ok(1)) \/ CommandGives(Ok(2))
    BY <1>3, <2>1, <2>2
  <2>3. CASE ~(CommandGives(Ok(1)) \/ CommandGives(Ok(2)))
    <3> DEFINE f == Frame("dot", "start", 0)
    <3>1. f \in FrameType /\ f.fn = "dot"
      BY <1>2 DEF Frame, FrameType, Pcs
    <3>2. /\ stack' = Append(stack, f) /\ flow' = Running
          /\ \E x : shells' = [shells EXCEPT ![K].func_depth = x]
      BY <1>9, <2>3 DEF RunDot
    <3>3. Keeps
      BY <3>2, ShellsKept DEF Sound
    <3> HIDE DEF f
    <3> QED
      BY <1>1, <1>2, <3>1, <3>2, <3>3, UCall DEF Keeps
  <2> QED
    BY <2>2, <2>3
<1>10. CASE DotText
  BY <1>1, <1>2, <1>10, UCalls DEF DotText
<1>11. CASE DotDone
  <2>1. \E x : shells' = [shells EXCEPT ![K].func_depth = x]
    BY <1>11 DEF DotDone
  <2>2. Keeps
    BY <2>1, ShellsKept DEF Sound
  <2> QED
    BY <1>4, <1>11, <2>2 DEF DotDone, Got
<1> QED
  BY <1>5, <1>6, <1>7, <1>8, <1>9, <1>10, <1>11

LEMMA TextsFlow ==
  ASSUME Sound, TextLine \/ TextEnd \/ TextLineDone \/ CommandDone
  PROVE  UInv'
<1>1. stack # <<>> /\ Top.fn \in {"text", "command"} /\ Fits("list") /\ Here(stack)
  BY DEF TextLine, TextEnd, TextLineDone, CommandDone, In, GotOk, Fits, GivesStatus, Here
<1>2. CASE TextLine
  BY <1>1, <1>2, URunList DEF TextLine
<1>3. CASE TextEnd
  <2>1. Top.fn = "text" /\ \E s : Gives(Ok(s))
    BY <1>3 DEF TextEnd, In
  <2> QED
    BY <1>1, <2>1, UGives DEF Ok, Inner, GivesStatus
<1>4. CASE TextLineDone
  <2>1. /\ stack' = AtWith("line", flow.n) /\ flow' = Running
        /\ shells' = [shells EXCEPT ![K].status = flow.n] /\ Top.fn = "text" /\ "line" \in Pcs
    BY <1>4 DEF TextLineDone, GotOk, Pcs
  <2>2. flow.n \in Statuses
    BY <1>4 DEF TextLineDone, GotOk, Sound, Good, FlowOK
  <2>3. Sets(flow.n)
    BY <2>1, StatusSet DEF Sound
  <2> QED
    BY <1>1, <2>1, <2>2, <2>3, UGoesOn DEF Sets
<1>5. CASE CommandDone
  <2>1. /\ flow.tag = "ok" /\ Top.fn = "command" /\ stack' = Popped
        /\ shells' = [shells EXCEPT ![K].status = flow.n]
        /\ flow' = errexit_check(flow.n) \/ flow' = flow
    BY <1>5 DEF CommandDone, GotOk
  <2>2. flow'.tag \in {"ok", "exit"} /\ (flow'.tag = "ok" => flow'.n = flow.n)
    BY <2>1 DEF errexit_check, Ok, Exit
  <2>3. Sets(flow.n)
    BY <2>1, StatusSet DEF Sound
  <2> QED
    BY <1>1, <2>1, <2>2, <2>3, UReturns DEF Sets
<1> QED
  BY <1>2, <1>3, <1>4, <1>5

LEMMA ProgramsFlow ==
  ASSUME Sound, RunProgram \/ replace_with
  PROVE  UInv'
<1>1. stack # <<>> /\ Top.fn = "command"
  BY DEF RunProgram, replace_with, Simple, In
<1>2. ASSUME NEW tag \in {"ok", "exit"}, run_program(tag)
      PROVE  UInv'
  <2>1. PICK s \in Results : CommandGives([tag |-> tag, n |-> s])
    BY <1>2 DEF run_program, CommandGives
  <2>2. [tag |-> tag, n |-> s].tag # "return"
    OBVIOUS
  <2> QED
    BY <1>1, <2>1, <2>2, UCommandGives
<1>3. CASE RunProgram
  BY <1>2, <1>3 DEF RunProgram
<1>4. CASE replace_with
  <2>1. CASE CommandGives(Ok(1))
    BY <1>1, <2>1, UCommandGives DEF Ok
  <2>2. CASE run_program("exit")
    BY <1>2, <2>2
  <2>3. CASE UNCHANGED <<shells, stack, flow>>
    BY <2>3 DEF Sound, UInv, CallHanded, StatusHanded, ReturnHanded, Top, Me, K, In
  <2> QED
    BY <1>4, <2>1, <2>2, <2>3 DEF replace_with
<1> QED
  BY <1>3, <1>4

-----------------------------------------------------------------------------
(* Traps.                                                                   *)

LEMMA TakePendingFlow ==
  ASSUME Sound, TakePending
  PROVE  UInv'
<1> DEFINE n == Len(stack)
           f == Frame("traps", "next", 0)
<1>1. /\ stack # <<>> /\ Top.fn = "list" /\ flow = Running /\ flow' = Running
      /\ UNCHANGED shells /\ TrapsDue /\ stack \in Seq(FrameType) /\ n \in Nat \ {0}
      /\ Top = stack[n]
  BY EmptySeq DEF TakePending, In, Calls, Sound, Good, Nested, Top
<1>2. PICK pc \in {"item", "next"} : stack' = Append(At(pc), f)
  BY DEF TakePending, Calls
<1> DEFINE base == At(pc)
<1>3. /\ base \in Seq(FrameType) /\ Edited(stack, base) /\ Len(base) = n
      /\ base[n].fn = "list" /\ base[n].st = Top.st
  <2>1. pc \in Pcs /\ 0 \in Statuses /\ Top \in FrameType
    BY <1>1, TopType DEF Pcs, Statuses, Sound
  <2>2. /\ base \in Seq(FrameType) /\ Edited(stack, base) /\ Len(base) = n
        /\ base[n] = [Top EXCEPT !.pc = pc]
    BY <1>1, <2>1, TopEdited DEF Sound
  <2> QED
    BY <1>1, <2>1, <2>2 DEF FrameType
<1>4. f \in FrameType /\ f.fn = "traps" /\ f.pc = "next" /\ f.self = K
  <2>1. K \in Nat /\ 0 \in Statuses /\ "traps" \in Fns /\ "next" \in Pcs
    BY MeType DEF Sound, Statuses, Fns, Pcs
  <2> QED
    BY <2>1 DEF Frame, FrameType
<1>5. stack' = Append(base, f)
  BY <1>2
<1> HIDE DEF base, f
<1>6. K = 1
  <2>1. K \in 1..Len(shells) /\ ~shells[K].in_subshell
    BY <1>1, MeType DEF TrapsDue, Me, Sound, K
  <2> QED
    BY <2>1 DEF Sound, UInv, Stacked, Flags
<1>7. Stacked(shells, base)
  <2>1. SameFlags(shells, shells)
    BY DEF SameFlags
  <2> QED
    BY <1>1, <1>3, <2>1, StackedEdit DEF Sound, UInv
(* No trap runs.                                                            *)
<1>8. \A i \in 1..n : base[i].fn # "traps"
  <2>1. \A i \in 1..n : ~IsTrap(base[i])
    <3>1. K \in 1..Len(shells) /\ ~shells[K].running_trap
      BY <1>1, MeType DEF TrapsDue, Me, Sound, K
    <3> QED
      BY <1>3, <1>7, <3>1 DEF Stacked, Flags
  <2>2. ASSUME NEW i \in 1..n, base[i].fn = "traps" PROVE FALSE
    <3>1. i < n
      BY <1>1, <1>3, <2>2
    <3> QED
      BY <1>3, <1>7, <2>1, <2>2, <3>1 DEF Stacked, TrapsStacked, IsTrap
  <2> QED
    BY <2>2
<1>9. /\ Len(stack') = n + 1 /\ stack'[n + 1] = f
      /\ \A i \in 1..n : stack'[i] = base[i]
  BY <1>1, <1>3, <1>4, <1>5, AppendProperties
<1>10. \A i \in 1..(n + 1) : i \in 1..n \/ i = n + 1
  BY <1>1
<1>11. TrapsStacked(stack')
  <2>1. \A i \in 1..(n + 1) : stack'[i].fn = "traps" => i = n + 1
    BY <1>8, <1>9, <1>10
  <2>2. n \in 1..n /\ n + 1 > 1 /\ n + 1 - 1 = n
    BY <1>1
  <2>3. stack'[n + 1].self = 1 /\ stack'[n].fn = "list" /\ stack'[n + 1].pc = "next"
    BY <1>3, <1>4, <1>6, <1>9, <2>2
  <2> QED
    BY <1>9, <2>1, <2>2, <2>3, SMTT(30) DEF TrapsStacked
<1>12. CallsStacked(stack')
  <2> SUFFICES ASSUME NEW i \in 1..n
               PROVE  /\ stack'[i].fn \in GivesStatus => stack'[i + 1].fn \in Inner
                      /\ stack'[i].fn = "copy" /\ stack'[i].pc = "finished"
                           => stack'[i + 1].fn = "exit_trap"
    BY <1>1, <1>9 DEF CallsStacked
  <2>1. CASE i = n
    BY <1>1, <1>3, <1>4, <1>9, <2>1 DEF Inner
  <2>2. CASE i # n
    <3>1. i \in 1..(n - 1) /\ i + 1 \in 1..n
      BY <1>1, <2>2
    <3> QED
      BY <1>3, <1>7, <1>9, <3>1 DEF Stacked, CallsStacked
  <2> QED
    BY <2>1, <2>2
<1>13. Flags(shells', stack')
  <2>1. (\E i \in 1..(n + 1) : IsTrap(stack'[i])) <=> (\E i \in 1..n : IsTrap(base[i]))
    BY <1>4, <1>9, <1>10 DEF IsTrap
  <2> QED
    BY <1>1, <1>3, <1>7, <1>9, <2>1 DEF Stacked, Flags
<1>14. Top' = f /\ stack'[Len(stack') - 1] = base[n] /\ Me' = Me
  <2>1. n \in 1..n /\ n + 1 - 1 = n
    BY <1>1
  <2> QED
    BY <1>1, <1>9, <2>1 DEF Top, Me, K
<1>15. ~PipesFail => Me.status = Top.st
  BY <1>1 DEF Sound, UInv, StatusHanded, In
<1>16. CallHanded' /\ StatusHanded'
  BY <1>1, <1>3, <1>4, <1>14, <1>15 DEF CallHanded, StatusHanded, In, GivesStatus
<1>17. ReturnHanded'
  BY <1>1, NoReturn DEF Running
<1> QED
  BY <1>11, <1>12, <1>13, <1>16, <1>17 DEF UInv, Stacked

(* What is known of the stack when run_pending_traps goes on.               *)
LEMMA TopTraps ==
  ASSUME Sound, stack # <<>>, Top.fn = "traps", NEW n, n = Len(stack)
  PROVE  /\ n \in Nat /\ n > 1 /\ stack \in Seq(FrameType) /\ Top = stack[n]
         /\ Len(shells) = 1 /\ K = 1 /\ Me = shells[1]
         /\ stack[n - 1].fn = "list" /\ Top.self = 1 /\ Top \in FrameType
         /\ Top.pc = "trap" /\ ~PipesFail => Top.st = stack[n - 1].st
         /\ \A i \in 1..n : stack[i].fn = "traps" => i = n
         /\ ~shells[1].in_subshell
         /\ flow = Running <=> Top.pc = "next"
         /\ Top.pc \in {"next", "trap"}
<1>1. /\ stack \in Seq(FrameType) /\ n \in Nat \ {0} /\ n \in 1..n /\ Top = stack[n]
  BY EmptySeq DEF Sound, Good, Nested, Top
<1>2. /\ stack[n].self = 1 /\ n > 1 /\ stack[n - 1].fn = "list"
      /\ Top.pc = "trap" /\ ~PipesFail => Top.st = stack[n - 1].st
      /\ \A i \in 1..n : stack[i].fn = "traps" => i = n
      /\ Top.pc \in {"next", "trap"}
  BY <1>1 DEF Sound, UInv, Stacked, TrapsStacked
<1>3. K = 1 /\ Len(shells) = 1 /\ Top \in FrameType
  BY <1>1, <1>2, TopType DEF Sound, K
<1>4. ~shells[1].in_subshell
  BY <1>3 DEF Sound, UInv, Stacked, Flags
<1>5. flow = Running <=> Top.pc = "next"
  BY DEF Sound, UInv, CallHanded
<1> QED
  BY <1>1, <1>2, <1>3, <1>4, <1>5 DEF Me

(* The only shell becomes c.                                                *)
LEMMA OneShell ==
  ASSUME Sound, K = 1, NEW c, shells' = [shells EXCEPT ![K] = c]
  PROVE  Len(shells') = 1 /\ shells'[1] = c /\ Me' = c
<1> DEFINE S == Shell \cup {c}
<1>1. shells \in Seq(Shell) /\ Len(shells) = 1
  BY DEF Sound, Good, Nested, K
<1>2. shells \in Seq(S) /\ c \in S
  BY <1>1, SeqMonotonic
<1> HIDE DEF S
<1>3. Len([shells EXCEPT ![1] = c]) = 1 /\ [shells EXCEPT ![1] = c][1] = c
  BY <1>1, <1>2, ExceptSeq
<1> QED
  BY <1>3 DEF Me, K

LEMMA RunTrapFlow ==
  ASSUME Sound, RunTrap
  PROVE  UInv'
<1> DEFINE n == Len(stack)
           f == Frame("text", "line", Me.status)
           base == AtWith("trap", Me.status)
           c == [Me EXCEPT !.running_trap = TRUE]
<1>1. /\ stack # <<>> /\ Top.fn = "traps" /\ flow = Running /\ flow' = Running
      /\ stack' = Append(base, f) /\ shells' = [shells EXCEPT ![K] = c]
  BY DEF RunTrap, In, Me
<1>2. /\ n \in Nat /\ n > 1 /\ stack \in Seq(FrameType) /\ Top = stack[n]
      /\ Len(shells) = 1 /\ K = 1 /\ Me = shells[1]
      /\ stack[n - 1].fn = "list" /\ Top.self = 1 /\ Top \in FrameType
      /\ \A i \in 1..n : stack[i].fn = "traps" => i = n
      /\ ~shells[1].in_subshell /\ Top.pc = "next"
  BY <1>1, TopTraps
<1>3. Me \in Shell /\ Me.status \in Statuses
  BY MeType DEF Sound
<1>4. c.in_subshell = Me.in_subshell /\ c.running_trap = TRUE
  BY <1>3 DEF Shell
<1>5. f \in FrameType /\ f.fn = "text"
  BY <1>2, <1>3 DEF Frame, FrameType, Fns, Pcs
<1>6. /\ base \in Seq(FrameType) /\ Edited(stack, base) /\ Len(base) = n
      /\ base[n].fn = "traps" /\ base[n].self = 1 /\ base[n].pc = "trap" /\ base[n].st = Me.status
  <2>1. "trap" \in Pcs
    BY DEF Pcs
  <2>2. /\ base \in Seq(FrameType) /\ Edited(stack, base) /\ Len(base) = n
        /\ base[n] = [Top EXCEPT !.pc = "trap", !.st = Me.status]
    BY <1>1, <1>3, <2>1, TopEdited DEF Sound
  <2> QED
    BY <1>1, <1>2, <2>2 DEF FrameType
<1>7. ~PipesFail => Me.status = stack[n - 1].st
  BY <1>1, <1>2 DEF Sound, UInv, StatusHanded
<1> HIDE DEF f, base, c
<1>8. /\ Len(stack') = n + 1 /\ stack'[n + 1] = f
      /\ \A i \in 1..n : stack'[i] = base[i]
      /\ \A i \in 1..(n - 1) : stack'[i] = stack[i] /\ base[i] = stack[i]
      /\ \A i \in 1..n : base[i].fn = stack[i].fn
  <2>1. /\ Len(stack') = n + 1 /\ stack'[n + 1] = f
        /\ \A i \in 1..n : stack'[i] = base[i]
    BY <1>1, <1>5, <1>6, AppendProperties
  <2>2. \A i \in 1..(n - 1) : base[i] = stack[i] /\ i \in 1..n
    BY <1>2, <1>6 DEF Edited
  <2>3. \A i \in 1..n : base[i].fn = stack[i].fn
    BY <1>6 DEF Edited, SameCalls
  <2> QED
    BY <2>1, <2>2, <2>3
<1>9. \A i \in 1..(n + 1) : i \in 1..n \/ i = n + 1
  BY <1>2
<1>10. n \in 1..n /\ n - 1 \in 1..(n - 1) /\ n \in 1..(n + 1)
  BY <1>2
<1>11. TrapsStacked(stack')
  <2>1. \A i \in 1..(n + 1) : stack'[i].fn = "traps" => i = n
    BY <1>2, <1>5, <1>8, <1>9
  <2>2. stack'[n].self = 1 /\ stack'[n].pc = "trap" /\ stack'[n].st = Me.status
        /\ stack'[n - 1] = stack[n - 1]
    BY <1>6, <1>8, <1>10
  <2> QED
    BY <1>2, <1>7, <1>8, <2>1, <2>2 DEF TrapsStacked
<1>12. CallsStacked(stack')
  <2> SUFFICES ASSUME NEW i \in 1..n
               PROVE  /\ stack'[i].fn \in GivesStatus => stack'[i + 1].fn \in Inner
                      /\ stack'[i].fn = "copy" /\ stack'[i].pc = "finished"
                           => stack'[i + 1].fn = "exit_trap"
    BY <1>2, <1>8 DEF CallsStacked
  <2>1. CASE i = n
    BY <1>6, <1>8, <2>1 DEF GivesStatus
  <2>2. CASE i # n
    <3>1. i \in 1..(n - 1) /\ i + 1 \in 1..n
      BY <1>2, <2>2
    <3>2. /\ stack[i].fn \in GivesStatus => stack[i + 1].fn \in Inner
          /\ stack[i].fn = "copy" /\ stack[i].pc = "finished" => stack[i + 1].fn = "exit_trap"
      BY <3>1 DEF Sound, UInv, Stacked, CallsStacked
    <3> QED
      BY <1>8, <3>1, <3>2
  <2> QED
    BY <2>1, <2>2
<1>13. Flags(shells', stack') /\ Me' = c
  <2>1. Len(shells') = 1 /\ shells'[1] = c /\ Me' = c
    BY <1>1, <1>2, OneShell
  <2>2. IsTrap(stack'[n])
    BY <1>6, <1>8, <1>10 DEF IsTrap
  <2> QED
    BY <1>2, <1>4, <1>8, <1>10, <2>1, <2>2 DEF Flags
<1>14. Top' = f
  BY <1>8 DEF Top
<1>15. CallHanded' /\ StatusHanded'
  BY <1>5, <1>14 DEF CallHanded, StatusHanded, In, GivesStatus
<1>16. ReturnHanded'
  BY <1>1, NoReturn DEF Running
<1> QED
  BY <1>11, <1>12, <1>13, <1>15, <1>16 DEF UInv, Stacked

LEMMA TrapDoneFlow ==
  ASSUME Sound, TrapDone
  PROVE  UInv'
<1> DEFINE n == Len(stack)
           c == [Me EXCEPT !.running_trap = FALSE, !.status = Top.st]
<1>1. /\ stack # <<>> /\ Top.fn = "traps" /\ flow # Running
      /\ shells' = [shells EXCEPT ![K] = c]
  BY DEF TrapDone, Got, Me
<1>2. /\ n \in Nat /\ n > 1 /\ stack \in Seq(FrameType) /\ Top = stack[n]
      /\ Len(shells) = 1 /\ K = 1 /\ Me = shells[1]
      /\ stack[n - 1].fn = "list" /\ Top.self = 1 /\ Top \in FrameType
      /\ Top.pc = "trap" /\ ~PipesFail => Top.st = stack[n - 1].st
      /\ \A i \in 1..n : stack[i].fn = "traps" => i = n
      /\ ~shells[1].in_subshell /\ Top.pc = "trap"
  BY <1>1, TopTraps
<1>3. c.in_subshell = Me.in_subshell /\ c.running_trap = FALSE /\ c.status = Top.st
  <2>1. Me \in Shell
    BY MeType DEF Sound
  <2> QED
    BY <2>1 DEF Shell
<1> HIDE DEF c
<1>4. Len(shells') = 1 /\ shells'[1] = c /\ Me' = c
  BY <1>1, <1>2, OneShell
<1>5. n \in 1..n /\ n - 1 \in 1..(n - 1) /\ n - 1 \in 1..n
  BY <1>2
<1>6. CASE stack' = At("next") /\ flow' = Running
  <2>1. /\ Edited(stack, stack') /\ Len(stack') = n
        /\ stack'[n].fn = "traps" /\ stack'[n].self = 1 /\ stack'[n].pc = "next"
    <3>1. "next" \in Pcs /\ 0 \in Statuses
      BY DEF Pcs, Statuses
    <3>2. /\ Edited(stack, stack') /\ Len(stack') = n
          /\ stack'[n] = [Top EXCEPT !.pc = "next"]
      BY <1>1, <1>6, <3>1, TopEdited DEF Sound
    <3> QED
      BY <1>1, <1>2, <3>2 DEF FrameType
  <2>2. /\ \A i \in 1..(n - 1) : stack'[i] = stack[i]
        /\ \A i \in 1..n : stack'[i].fn = stack[i].fn
    BY <2>1 DEF Edited, SameCalls
  <2>3. TrapsStacked(stack')
    BY <1>2, <1>5, <2>1, <2>2 DEF TrapsStacked
  <2>4. CallsStacked(stack')
    <3>1. \A i \in 1..(n - 1) : i + 1 \in 1..n
      BY <1>2
    <3> QED
      BY <2>1, <2>2, <3>1 DEF Sound, UInv, Stacked, CallsStacked
  <2>5. Flags(shells', stack')
    <3>1. \A i \in 1..n : ~IsTrap(stack'[i])
      BY <1>2, <2>1, <2>2 DEF IsTrap
    <3> QED
      BY <1>2, <1>3, <1>4, <2>1, <3>1 DEF Flags
  <2>6. Top'.fn = "traps" /\ Top'.pc = "next" /\ stack'[Len(stack') - 1] = stack[n - 1]
    BY <1>5, <2>1, <2>2 DEF Top
  <2>7. CallHanded' /\ StatusHanded'
    BY <1>2, <1>3, <1>4, <1>6, <2>6 DEF CallHanded, StatusHanded, In, GivesStatus
  <2>8. ReturnHanded'
    BY <1>6, NoReturn DEF Running
  <2> QED
    BY <2>3, <2>4, <2>5, <2>7, <2>8 DEF UInv, Stacked
<1>7. CASE /\ stack' = Popped /\ flow' = flow
           /\ flow.tag \notin {"ok", "return", "break", "continue"}
  <2>1. /\ Len(stack') = n - 1 /\ \A i \in 1..(n - 1) : stack'[i] = stack[i]
    BY <1>1, <1>2, <1>7, BelowTop DEF Popped, Below
  <2>2. \A i \in 1..(n - 1) : i \in 1..n /\ stack'[i].fn # "traps"
    BY <1>2, <2>1
  <2>3. TrapsStacked(stack')
    BY <2>1, <2>2 DEF TrapsStacked
  <2>4. CallsStacked(stack')
    <3>1. \A i \in 1..(n - 1 - 1) : i \in 1..(n - 1) /\ i + 1 \in 1..(n - 1)
      BY <1>2
    <3> QED
      BY <2>1, <3>1 DEF Sound, UInv, Stacked, CallsStacked
  <2>5. Flags(shells', stack')
    BY <1>2, <1>3, <1>4, <2>1, <2>2 DEF Flags, IsTrap
  <2>6. Top' = stack[n - 1]
    BY <1>5, <2>1 DEF Top
  <2>7. CallHanded' /\ StatusHanded'
    BY <1>1, <1>2, <1>7, <2>6 DEF CallHanded, StatusHanded, In, Running
  <2>8. ReturnHanded'
    BY <1>7, NoReturn
  <2> QED
    BY <2>3, <2>4, <2>5, <2>7, <2>8 DEF UInv, Stacked
<1> QED
  BY <1>6, <1>7 DEF TrapDone

(* Every trap that was due has run.                                         *)
LEMMA TrapsDoneFlow ==
  ASSUME Sound, TrapsDone
  PROVE  UInv'
<1> DEFINE n == Len(stack)
<1>1. /\ stack # <<>> /\ Top.fn = "traps" /\ flow = Running /\ flow' = Running
      /\ stack' = Popped /\ UNCHANGED shells
  BY DEF TrapsDone, In, Gives
<1>2. /\ n \in Nat /\ n > 1 /\ stack \in Seq(FrameType) /\ Top = stack[n]
      /\ stack[n - 1].fn = "list" /\ Top.pc = "next"
  BY <1>1, TopTraps
<1>3. /\ Len(stack') = n - 1 /\ \A i \in 1..(n - 1) : stack'[i] = stack[i]
  BY <1>1, <1>2, BelowTop DEF Popped, Below
<1>4. Stacked(shells', stack')
  <2>1. SameFlags(shells, shells') /\ ~IsTrap(stack[n])
    BY <1>1, <1>2 DEF SameFlags, IsTrap
  <2> QED
    BY <1>1, <1>2, <2>1, StackedPop DEF Sound, UInv, Popped, Below
<1>5. Top' = stack[n - 1] /\ Me' = Me
  <2>1. n - 1 \in 1..(n - 1)
    BY <1>2
  <2> QED
    BY <1>1, <1>3, <2>1 DEF Top, Me, K
<1>6. ~PipesFail => Me.status = stack[n - 1].st
  BY <1>1, <1>2 DEF Sound, UInv, StatusHanded
<1>7. CallHanded' /\ StatusHanded'
  BY <1>1, <1>2, <1>5, <1>6 DEF CallHanded, StatusHanded, In, Running
<1>8. ReturnHanded'
  BY <1>1, NoReturn DEF Running
<1> QED
  BY <1>4, <1>7, <1>8 DEF UInv

-----------------------------------------------------------------------------
(* The read-run loop, where no call is in progress.                         *)

LEMMA ReadRunFlow ==
  ASSUME Sound, World,
         FinishLine \/ FinishShell \/ EndShell \/ StartLine \/ RejectLine \/ EndOfInput
         \/ InputFails
  PROVE  UInv'
<1>1. stack = <<>> /\ K = 1 /\ shells[1] = Me /\ Me.status \in Statuses
  <2>1. stack = <<>>
    BY DEF FinishLine, FinishShell, EndShell, StartLine, RejectLine, EndOfInput, InputFails,
           LineOver, World
  <2> QED
    BY <2>1, MeType DEF Sound, Good, Nested, Chain, K, Me
<1>2. /\ stack \in Seq(FrameType) /\ Here(stack) /\ Edited(stack, stack)
      /\ \A fn \in Fns : Fits(fn)
  BY <1>1 DEF Sound, Good, Nested, Here, Edited, SameCalls, Fits
<1>3. ASSUME NEW s, shells' = [shells EXCEPT ![1].status = s], UNCHANGED stack,
             flow' \in {Running, flow}
      PROVE  UInv'
  <2>1. SameFlags(shells, shells')
    BY <1>1, <1>3, StatusSet DEF Sound, Sets
  <2>2. ReturnHanded'
    <3>1. CASE flow' = Running
      BY <3>1, NoReturn DEF Running
    <3>2. CASE flow' = flow
      BY <1>3, <2>1, <3>2 DEF Sound, UInv, ReturnHanded, SameFlags
    <3> QED
      BY <1>3, <3>1, <3>2
  <2> QED
    BY <1>1, <1>2, <1>3, <2>1, <2>2, UEdit DEF Sound
<1>4. ASSUME NEW s \in Statuses, run_exit_trap(<<>>, s)
      PROVE  UInv'
  <2>1. CASE Me.exit_trap
    <3> DEFINE f == Frame("exit_trap", "start", s)
    <3>1. f \in FrameType /\ f.fn = "exit_trap" /\ Fits("exit_trap")
      BY <1>1, <1>2 DEF Frame, FrameType, Fns, Pcs
    <3>2. /\ stack' = Append(stack, f) /\ flow' = Running
          /\ shells' = [shells EXCEPT ![K].exit_trap = FALSE, ![K].status = s]
      BY <1>1, <1>4, <2>1 DEF run_exit_trap
    <3> HIDE DEF f
    <3>3. Sets(s)
      BY <3>2, StatusSet DEF Sound
    <3> QED
      BY <1>2, <3>1, <3>2, <3>3, UCall DEF Sets
  <2>2. CASE ~Me.exit_trap
    <3>1. UNCHANGED <<stack, shells>> /\ flow' = Ok(s)
      BY <1>1, <1>4, <2>2 DEF run_exit_trap
    <3>2. SameFlags(shells, shells') /\ ReturnHanded'
      BY <3>1, NoReturn DEF SameFlags, Ok
    <3> QED
      BY <1>1, <1>2, <3>1, <3>2, UEdit DEF Sound
  <2> QED
    BY <2>1, <2>2
<1>5. CASE FinishLine
  <2>1. \E s : shells' = [shells EXCEPT ![1].status = s]
    BY <1>5 DEF FinishLine
  <2> QED
    BY <1>3, <1>5, <2>1 DEF FinishLine
<1>6. CASE FinishShell
  <2>1. run_exit_trap(<<>>, flow.n) /\ flow.n \in Statuses
    BY <1>6 DEF FinishShell, Sound, Good, FlowOK
  <2> QED
    BY <1>4, <2>1
<1>7. CASE EndShell \/ InputFails
  <2>1. UNCHANGED <<shells, stack, flow>>
    BY <1>7 DEF EndShell, InputFails
  <2> QED
    BY <2>1 DEF Sound, UInv, CallHanded, StatusHanded, ReturnHanded, Top, Me, K, In
<1>8. CASE StartLine
  <2>1. run_list(stack) /\ "list" \in Fns
    BY <1>1, <1>8 DEF StartLine, Fns
  <2> QED
    BY <1>2, <2>1, URunList
<1>9. CASE RejectLine
  BY <1>3, <1>9 DEF RejectLine
<1>10. CASE EndOfInput
  BY <1>1, <1>4, <1>10 DEF EndOfInput
<1> QED
  BY <1>5, <1>6, <1>7, <1>8, <1>9, <1>10

-----------------------------------------------------------------------------
(* The invariant, and what follows from it.                                 *)

LEMMA InitUInv == Init => UInv
<1> SUFFICES ASSUME Init PROVE UInv
  OBVIOUS
<1>1. shells = <<NewShell>> /\ stack = <<>> /\ flow = Running
  BY DEF Init
<1>2. Len(shells) = 1 /\ shells[1] = NewShell /\ Len(stack) = 0
  BY <1>1
<1>3. Stacked(shells, stack)
  BY <1>2 DEF Stacked, TrapsStacked, CallsStacked, Flags, NewShell
<1>4. CallHanded /\ StatusHanded /\ ReturnHanded
  BY <1>1 DEF CallHanded, StatusHanded, ReturnHanded, Running
<1> QED
  BY <1>3, <1>4 DEF UInv

LEMMA NextUInv == IInv /\ IInv' /\ UInv /\ [Next]_vars => UInv'
<1> SUFFICES ASSUME IInv, IInv', UInv, [Next]_vars PROVE UInv'
  OBVIOUS
<1>1. Sound /\ World
  BY DEF IInv, Good, Sound
<1>2. CASE Execute
  BY <1>1, <1>2, ListsFlow, AndOrFlow, PipelinesFlow, CopiesFlow, CopyDoneFlow, StagesFlow,
     CompoundFlow, LoopsFlow, ExpansionsFlow, SimplesFlow, FunctionsFlow, TextsFlow,
     TrapsDoneFlow DEF Execute
<1>3. CASE RunProgram \/ replace_with
  BY <1>1, <1>3, ProgramsFlow
<1>4. CASE TakePending \/ RunTrap \/ TrapDone
  BY <1>1, <1>4, TakePendingFlow, RunTrapFlow, TrapDoneFlow
<1>5. CASE FinishLine \/ FinishShell \/ EndShell \/ StartLine \/ RejectLine \/ EndOfInput
         \/ InputFails
  BY <1>1, <1>5, ReadRunFlow
<1>6. CASE CtrlC \/ SignalArrives \/ UNCHANGED vars
  <2>1. UNCHANGED <<shells, stack, flow>>
    BY <1>6 DEF CtrlC, SignalArrives, vars
  <2> QED
    BY <1>1, <2>1 DEF Sound, UInv, CallHanded, StatusHanded, ReturnHanded, Top, Me, K, In
<1> QED
  BY <1>2, <1>3, <1>4, <1>5, <1>6 DEF Next, RunningALine, Ended

LEMMA FlowHolds == Spec => [](IInv /\ UInv)
BY InitIInv, NextIInv, InitUInv, NextUInv, PTL DEF Spec

(* Where pipe2 does not fail, a list finds in `$?' the status of the item   *)
(* that ran last, whichever way that item ended and whichever traps ran     *)
(* around it.                                                               *)
THEOREM StatusIsTheLast ==
  ASSUME ~PipesFail
  PROVE  Spec => []DollarStatus
<1>1. UInv => DollarStatus
  BY DEF UInv, StatusHanded, DollarStatus, In
<1> QED
  BY <1>1, FlowHolds, PTL

(* The commands of traps run in the main shell, one at a time, and the flag *)
(* that keeps one from starting within another is up as long as one runs,   *)
(* in the copies made meanwhile too.                                        *)
THEOREM TrapsRunAlone == Spec => []OneTrapAtATime
<1>1. IInv /\ UInv => OneTrapAtATime
  <2> SUFFICES ASSUME IInv, UInv, NEW k \in DOMAIN shells
               PROVE  shells[k].running_trap <=>
                        Cardinality({i \in DOMAIN stack : stack[i].fn = "traps" /\ stack[i].pc = "trap"
                                                          /\ stack[i].self = 1}) = 1
    BY DEF OneTrapAtATime
  <2> DEFINE T == {i \in DOMAIN stack : stack[i].fn = "traps" /\ stack[i].pc = "trap"
                                         /\ stack[i].self = 1}
  <2>1. DOMAIN stack = 1..Len(stack) /\ k \in 1..Len(shells)
    BY LenProperties DEF IInv, Nested
  <2>2. \A i, j \in T : i = j
    BY <2>1 DEF UInv, Stacked, TrapsStacked
  <2>3. shells[k].running_trap <=> T # {}
    <3>1. \A i \in 1..Len(stack) : IsTrap(stack[i]) => stack[i].self = 1
      BY DEF UInv, Stacked, TrapsStacked, IsTrap
    <3>2. (\E i \in 1..Len(stack) : IsTrap(stack[i])) <=> T # {}
      BY <2>1, <3>1 DEF IsTrap
    <3> QED
      BY <2>1, <3>2 DEF UInv, Stacked, Flags
  <2> HIDE DEF T
  <2>4. T = {} => Cardinality(T) = 0
    BY FS_EmptySet
  <2>5. T # {} => Cardinality(T) = 1
    <3> SUFFICES ASSUME T # {} PROVE Cardinality(T) = 1
      OBVIOUS
    <3>1. PICK i \in T : T = {i}
      BY <2>2
    <3> QED
      BY <3>1, FS_Singleton
  <2>6. shells[k].running_trap <=> Cardinality(T) = 1
    BY <2>3, <2>4, <2>5
  <2> QED
    BY <2>6 DEF T
<1> QED
  BY <1>1, FlowHolds, PTL

(* A command that fails is the innermost call; nothing but its own return   *)
(* takes a call off the stack.                                              *)
LEMMA OnlyCommandDone ==
  ASSUME FailsUnchecked, IInv, [Next]_vars, Len(stack') < Len(stack)
  PROVE  CommandDone
<1>1. /\ stack # <<>> /\ Top.fn = "command" /\ Top.pc \in {"ready", "subshell"}
      /\ flow.tag = "ok" /\ flow # Running /\ ~Failed(flow)
  BY DEF FailsUnchecked, GotOk, Failed, Running
<1>2. /\ \A fn : ~In(fn) /\ ~GotErr(fn)
      /\ \A fn : fn # "command" => ~Got(fn) /\ ~GotOk(fn)
  BY <1>1 DEF In, GotErr, Got, GotOk
<1>3. ~Substituting /\ line # "prompt"
  BY <1>1 DEF Substituting, IInv, World
<1>4. ~UNCHANGED stack
  BY LenProperties DEF IInv, Nested
<1>5. CASE Execute
  <2>1. ~(\/ ListCheck \/ ListItem \/ ListItemDone \/ ListNext \/ ListEnd \/ ListFails
          \/ TrapsDone \/ AndOrFirst \/ AndOrRest
          \/ Pipeline \/ PipelineDone \/ IgnoringBody \/ IgnoringDone
          \/ CopyBody \/ finish_copy \/ CopyDone \/ ExitTrapText \/ ExitTrapDone)
    BY <1>2 DEF ListCheck, ListItem, ListItemDone, ListNext, ListEnd, ListFails, TrapsDone,
       AndOrFirst, AndOrRest, Pipeline, PipelineDone, IgnoringBody, IgnoringDone,
       CopyBody, finish_copy, CopyDone, ExitTrapText, ExitTrapDone
  <2>2. ~PassOn
    BY <1>2, <1>1 DEF PassOn
  <2>3. ~(\/ StagesRun \/ StagesNoPipe \/ StagesNext \/ StagesDone
          \/ RedirectFails \/ run_compound \/ IfCondition \/ IfTested
          \/ LoopPass \/ LoopTested \/ loop_body \/ LoopConditionFails)
    BY <1>2 DEF StagesRun, StagesNoPipe, StagesNext, StagesDone, RedirectFails, run_compound,
       Compound, IfCondition, IfTested, LoopPass, LoopTested, loop_body, LoopConditionFails
  <2>4. ~(command_substitution \/ ExpansionFails \/ Expanded)
    BY <1>2, <1>3 DEF command_substitution, ExpansionFails, Expanded, Expanding
  <2>5. ~(\/ SimpleFails \/ RunAssignment \/ RunBuiltin \/ RunExit \/ RunReturn
          \/ loop_control("break") \/ loop_control("continue")
          \/ RunSet \/ SetExitTrap \/ call_function \/ FunctionBody \/ FunctionDone
          \/ RunEval \/ RunDot \/ DotText \/ DotDone \/ TextLine \/ TextEnd \/ TextLineDone)
    BY <1>2 DEF SimpleFails, RunAssignment, RunBuiltin, RunExit, RunReturn, loop_control, RunSet,
       SetExitTrap, call_function, FunctionBody, FunctionDone, RunEval, RunDot, DotText, DotDone,
       TextLine, TextEnd, TextLineDone, Simple
  <2> QED
    BY <1>5, <2>1, <2>2, <2>3, <2>4, <2>5 DEF Execute
<1>6. ~(RunProgram \/ replace_with \/ TakePending \/ RunTrap \/ TrapDone)
  BY <1>2 DEF RunProgram, replace_with, Simple, TakePending, RunTrap, TrapDone
<1>7. ~(FinishLine \/ FinishShell \/ EndShell \/ StartLine \/ RejectLine \/ EndOfInput
        \/ InputFails)
  BY <1>1, <1>3 DEF FinishLine, FinishShell, EndShell, StartLine, RejectLine, EndOfInput,
     InputFails, LineOver
<1>8. ~(CtrlC \/ SignalArrives \/ UNCHANGED vars)
  BY <1>4 DEF CtrlC, SignalArrives, vars
<1> QED
  BY <1>5, <1>6, <1>7, <1>8 DEF Next, RunningALine, Ended

(* Under `-e' a command that fails ends its shell if and only if no call of *)
(* its shell, or of the shells that one was copied from, ignores failures.  *)
THEOREM ErrexitIsDecided == Spec => ErrexitDecides
<1>1. IInv /\ [Next]_vars =>
        (FailsUnchecked /\ Len(stack') < Len(stack)
         => (flow'.tag = "exit" <=> Me.errexit /\ CallsTo({"ignoring"}, K) = {}))
  <2> SUFFICES ASSUME IInv, [Next]_vars, FailsUnchecked, Len(stack') < Len(stack)
               PROVE  flow'.tag = "exit" <=> Me.errexit /\ CallsTo({"ignoring"}, K) = {}
    OBVIOUS
  <2>1. CommandDone
    BY OnlyCommandDone
  <2>2. flow' = errexit_check(flow.n) /\ flow.n # 0
    BY <2>1 DEF FailsUnchecked, CommandDone
  <2>3. flow'.tag = "exit" <=> Me.errexit /\ Me.errexit_off = 0
    BY <2>2 DEF errexit_check, Exit, Ok
  <2>4. Good
    BY DEF IInv, Good
  <2>5. Me.errexit_off = Count(stack, {"ignoring"}, K)
    BY <2>4, MeType DEF Good, Nested, Counts, Me, K
  <2>6. IsFiniteSet(CallsTo({"ignoring"}, K)) /\ Me.errexit_off = Cardinality(CallsTo({"ignoring"}, K))
    <3>1. CallsTo({"ignoring"}, K) = CallsIn(stack, {"ignoring"}, K)
      BY DEF CallsTo, CallsIn
    <3> QED
      BY <2>4, <2>5, <3>1, CountType DEF Good, Nested, Count
  <2>7. Me.errexit_off = 0 <=> CallsTo({"ignoring"}, K) = {}
    BY <2>6, FS_EmptySet
  <2> QED
    BY <2>3, <2>7
<1> QED
  BY <1>1, InvariantHolds, PTL DEF Spec, ErrexitDecides

-----------------------------------------------------------------------------
(* What an unwind meets on its way.                                         *)

(* Most calls return with the unwind they are given; the others handle it,  *)
(* or stop it.                                                              *)
LEMMA UnwindMoves ==
  ASSUME Sound, World, [Next]_vars, Failed(flow), stack # <<>>
  PROVE  \/ UNCHANGED <<shells, stack, flow>>
         \/ /\ stack' = Popped /\ flow' = flow /\ Len(shells') = Len(shells)
            /\ Top.fn \notin {"loop", "call", "dot", "traps", "copy", "exit_trap"}
         \/ loop_body \/ LoopConditionFails \/ FunctionDone \/ DotDone \/ TrapDone
         \/ finish_copy \/ ExitTrapDone
<1>1. /\ \A fn : ~In(fn) /\ ~GotOk(fn)
      /\ line # "prompt" /\ flow # Running /\ flow.tag # "ok"
  BY DEF In, GotOk, Failed, Running, World
<1>2. CASE Execute
  <2>1. ~(\/ ListCheck \/ ListItem \/ ListItemDone \/ ListNext \/ ListEnd
          \/ TrapsDone \/ AndOrFirst \/ AndOrRest \/ Pipeline \/ IgnoringBody
          \/ CopyBody \/ ExitTrapText)
    BY <1>1 DEF ListCheck, ListItem, ListItemDone, ListNext, ListEnd, TrapsDone, AndOrFirst,
       AndOrRest, Pipeline, IgnoringBody, CopyBody, ExitTrapText
  <2>2. ~(\/ StagesRun \/ StagesNoPipe \/ StagesNext \/ StagesDone
          \/ RedirectFails \/ run_compound \/ IfCondition \/ IfTested \/ LoopPass \/ LoopTested)
    BY <1>1 DEF StagesRun, StagesNoPipe, StagesNext, StagesDone, RedirectFails, run_compound,
       Compound, IfCondition, IfTested, LoopPass, LoopTested
  <2>3. ~(command_substitution \/ ExpansionFails \/ Expanded \/ CommandDone)
    BY <1>1 DEF command_substitution, ExpansionFails, Expanded, Expanding, CommandDone
  <2>4. ~(\/ SimpleFails \/ RunAssignment \/ RunBuiltin \/ RunExit \/ RunReturn
          \/ loop_control("break") \/ loop_control("continue")
          \/ RunSet \/ SetExitTrap \/ call_function \/ FunctionBody
          \/ RunEval \/ RunDot \/ DotText \/ TextLine \/ TextEnd \/ TextLineDone)
    BY <1>1 DEF SimpleFails, RunAssignment, RunBuiltin, RunExit, RunReturn, loop_control, RunSet,
       SetExitTrap, call_function, FunctionBody, RunEval, RunDot, DotText, TextLine, TextEnd,
       TextLineDone, Simple
  <2>5. ~CopyDone
    BY <1>1 DEF CopyDone, Got, Sound, UInv, CallHanded
  <2>6. ASSUME ListFails \/ PassOn \/ PipelineDone \/ IgnoringDone
        PROVE  /\ stack' = Popped /\ flow' = flow /\ Len(shells') = Len(shells)
               /\ Top.fn \notin {"loop", "call", "dot", "traps", "copy", "exit_trap"}
    <3>1. CASE ListFails
      <4>1. LeaveList(flow) /\ Top.fn = "list"
        BY <3>1 DEF ListFails, GotErr
      <4> QED
        BY <4>1, ListLeft DEF Keeps, SameFlags
    <3>2. CASE PassOn
      BY <3>2, <1>1 DEF PassOn, Gives, GotErr
    <3>3. CASE PipelineDone
      BY <3>3 DEF PipelineDone, Gives, Got
    <3>4. CASE IgnoringDone
      <4>1. \E x : shells' = [shells EXCEPT ![K].errexit_off = x]
        BY <3>4 DEF IgnoringDone
      <4>2. Keeps
        BY <4>1, ShellsKept DEF Sound
      <4> QED
        BY <3>4, <4>2 DEF IgnoringDone, Got, Keeps, SameFlags
    <3> QED
      BY <2>6, <3>1, <3>2, <3>3, <3>4
  <2> QED
    BY <1>2, <2>1, <2>2, <2>3, <2>4, <2>5, <2>6 DEF Execute
<1>3. ~(RunProgram \/ replace_with \/ TakePending \/ RunTrap)
  BY <1>1 DEF RunProgram, replace_with, Simple, TakePending, RunTrap
<1>4. ~(FinishLine \/ FinishShell \/ StartLine \/ RejectLine \/ EndOfInput \/ InputFails)
  BY <1>1 DEF FinishLine, FinishShell, StartLine, RejectLine, EndOfInput, InputFails, LineOver
<1>5. CASE EndShell \/ CtrlC \/ SignalArrives \/ UNCHANGED vars
  BY <1>5 DEF EndShell, CtrlC, SignalArrives, vars
<1> QED
  BY <1>2, <1>3, <1>4, <1>5 DEF Next, RunningALine, Ended

(* An error, `exit' and Ctrl+C end every call they pass, whatever it would  *)
(* have done with a status.                                                 *)
THEOREM EverythingEnds == Spec => EndsEverything
<1>1. IInv /\ IInv' /\ UInv /\ [Next]_vars =>
        (flow.tag \in {"error", "exit", "interrupted"} /\ stack # <<>>
         => \/ Top.fn \in {"copy", "exit_trap"}
            \/ flow' = flow /\ Len(stack') <= Len(stack))
  <2> SUFFICES ASSUME IInv, IInv', UInv, [Next]_vars,
                      flow.tag \in {"error", "exit", "interrupted"}, stack # <<>>,
                      Top.fn \notin {"copy", "exit_trap"}
               PROVE  flow' = flow /\ Len(stack') <= Len(stack)
    OBVIOUS
  <2>1. Sound /\ World /\ Failed(flow)
    BY DEF IInv, Good, Sound, Failed
  <2>2. Len(stack) \in Nat /\ (stack' = Popped => Len(stack') <= Len(stack))
    <3>1. Len(stack) \in Nat \ {0} /\ Len(Popped) = Len(stack) - 1
      BY <2>1, BelowTop DEF Sound, Good, Nested, Popped, Below
    <3> QED
      BY <3>1
  <2>3. CASE UNCHANGED <<shells, stack, flow>>
    BY <2>2, <2>3
  <2>4. CASE stack' = Popped /\ flow' = flow
    BY <2>2, <2>4
  <2>5. CASE loop_body \/ LoopConditionFails
    BY <2>2, <2>5 DEF loop_body, LoopConditionFails, LeaveLoop
  <2>6. CASE FunctionDone \/ DotDone \/ TrapDone
    BY <2>2, <2>6 DEF FunctionDone, DotDone, TrapDone
  <2>7. ~(finish_copy \/ ExitTrapDone)
    BY DEF finish_copy, ExitTrapDone, Got
  <2> QED
    BY <2>1, <2>3, <2>4, <2>5, <2>6, <2>7, UnwindMoves
<1> QED
  BY <1>1, InvariantHolds, FlowHolds, PTL DEF Spec, EndsEverything

-----------------------------------------------------------------------------
(* `break' and `continue'.                                                  *)

Breaks(r) == r.tag \in {"break", "continue"}

(* No call that is made starts with one.                                    *)
LEMMA CallsStart ==
  ASSUME NEW base, NEW pc, NEW s,
         \/ run_list(base) \/ ignoring_errexit(base, pc) \/ run_pipeline(base)
         \/ run_command(base) \/ run_commands(base) \/ copy(base, pc) \/ run_exit_trap(base, s)
         \/ \E f, c : Calls(base, f) \/ enter(base, f, c)
  PROVE  ~Breaks(flow')
BY DEF Breaks, run_list, enter, ignoring_errexit, run_pipeline, run_commands, run_command, copy,
       run_exit_trap, Calls, Running, Error, Ok

(* They come from the builtins alone.                                       *)
LEMMA BreakStarts ==
  ASSUME IInv, [Next]_vars, ~Breaks(flow), Breaks(flow')
  PROVE  loop_control("break") \/ loop_control("continue")
<1>1. /\ \A s : ~Breaks(Ok(s)) /\ ~Breaks(Exit(s)) /\ ~Breaks(Return(s)) /\ ~Breaks(errexit_check(s))
      /\ ~Breaks(Running) /\ ~Breaks(Error) /\ ~Breaks(Interrupted)
      /\ flow' # flow
  BY DEF Breaks, Ok, Exit, Return, errexit_check, Running, Error, Interrupted
<1>2. \A base, pc, s, f, c :
        /\ ~run_list(base) /\ ~ignoring_errexit(base, pc) /\ ~run_pipeline(base)
        /\ ~run_command(base) /\ ~run_commands(base) /\ ~copy(base, pc) /\ ~run_exit_trap(base, s)
        /\ ~Calls(base, f) /\ ~enter(base, f, c)
  BY CallsStart
<1>3. CASE Execute
  <2>1. ~(\/ ListCheck \/ ListItem \/ ListItemDone \/ ListNext \/ ListEnd \/ ListFails
          \/ TrapsDone \/ AndOrFirst \/ AndOrRest \/ PassOn)
    BY <1>1, <1>2 DEF ListCheck, ListItem, ListItemDone, ListNext, ListEnd, ListFails, LeaveList,
       TrapsDone, AndOrFirst, AndOrRest, PassOn, Gives
  <2>2. ~(\/ Pipeline \/ PipelineDone \/ IgnoringBody \/ IgnoringDone
          \/ CopyBody \/ finish_copy \/ CopyDone \/ ExitTrapText \/ ExitTrapDone)
    BY <1>1, <1>2 DEF Pipeline, PipelineDone, IgnoringBody, IgnoringDone, CopyBody, finish_copy,
       CopyDone, ExitTrapText, ExitTrapDone, Gives
  <2>3. ~(\/ StagesRun \/ StagesNoPipe \/ StagesNext \/ StagesDone
          \/ RedirectFails \/ run_compound \/ IfCondition \/ IfTested)
    BY <1>1, <1>2 DEF StagesRun, StagesNoPipe, StagesNext, StagesDone, RedirectFails,
       run_compound, IfCondition, IfTested, Gives, CommandGives
  <2>4. ~(LoopPass \/ LoopTested \/ LoopConditionFails)
    BY <1>1, <1>2 DEF LoopPass, LoopTested, LoopConditionFails, LeaveLoop
  <2>5. ~loop_body
    <3>1. flow.tag \notin {"break", "continue"}
      BY DEF Breaks
    <3> QED
      BY <1>1, <3>1 DEF loop_body, LeaveLoop
  <2>6. ~(command_substitution \/ ExpansionFails \/ Expanded \/ CommandDone)
    BY <1>1, <1>2 DEF command_substitution, ExpansionFails, Expanded, CommandDone, CommandGives
  <2>7. ~(SimpleFails \/ RunAssignment \/ RunBuiltin \/ RunExit \/ RunReturn \/ RunSet \/ SetExitTrap)
    BY <1>1 DEF SimpleFails, RunAssignment, RunBuiltin, RunExit, RunReturn, RunSet, SetExitTrap,
       CommandGives
  <2>8. ~(\/ call_function \/ FunctionBody \/ FunctionDone \/ RunEval \/ RunDot \/ DotText \/ DotDone
          \/ TextLine \/ TextEnd \/ TextLineDone)
    BY <1>1, <1>2 DEF call_function, FunctionBody, FunctionDone, RunEval, RunDot, DotText, DotDone,
       TextLine, TextEnd, TextLineDone, Gives, CommandGives
  <2> QED
    BY <1>3, <2>1, <2>2, <2>3, <2>4, <2>5, <2>6, <2>7, <2>8 DEF Execute
<1>4. ~(RunProgram \/ replace_with \/ TakePending \/ RunTrap \/ TrapDone)
  <2>1. ~run_program("ok") /\ ~run_program("exit")
    BY DEF run_program, Breaks
  <2> QED
    BY <1>1, <1>2, <2>1 DEF RunProgram, replace_with, TakePending, RunTrap, TrapDone, CommandGives
<1>5. ~(FinishLine \/ FinishShell \/ EndShell \/ StartLine \/ RejectLine \/ EndOfInput \/ InputFails)
  BY <1>1, <1>2 DEF FinishLine, FinishShell, EndShell, StartLine, RejectLine, EndOfInput, InputFails
<1>6. ~(CtrlC \/ SignalArrives \/ UNCHANGED vars)
  BY <1>1 DEF CtrlC, SignalArrives, vars
<1> QED
  BY <1>3, <1>4, <1>5, <1>6 DEF Next, RunningALine, Ended

LEMMA LoopsCounted ==
  ASSUME Sound
  PROVE  /\ LoopsToLeave <=>
              (Breaks(flow) => flow.n \in 1..Count(stack, {"loop"}, Len(shells)))
         /\ LoopsToLeave' <=>
              (Breaks(flow') => flow'.n \in 1..Count(stack', {"loop"}, Len(shells')))
BY DEF LoopsToLeave, Breaks, Count, CallsIn, CallsTo, K

(* Leaving a call takes a loop off the count if the call is one.            *)
LEMMA LoopsPopped ==
  ASSUME Sound, stack # <<>>, stack' = Popped, Len(shells') = Len(shells)
  PROVE  /\ Count(stack, {"loop"}, Len(shells)) \in Nat
         /\ Count(stack', {"loop"}, Len(shells')) =
              IF Top.fn = "loop" THEN Count(stack, {"loop"}, Len(shells)) - 1
              ELSE Count(stack, {"loop"}, Len(shells))
<1>1. stack \in Seq(FrameType) /\ stack' = Below(stack)
  BY DEF Sound, Good, Nested, Popped, Below
<1>2. Top.self <= Len(shells) /\ Top = stack[Len(stack)]
  BY TopType, MeType DEF Sound, K, Top
<1> QED
  BY <1>1, <1>2, CountPop, CountType

(* `break n' is cut to the loops there are.                                 *)
LEMMA BreakFits ==
  ASSUME Sound, NEW kind \in {"break", "continue"}, loop_control(kind), Breaks(flow')
  PROVE  LoopsToLeave'
<1>1. PICK n \in 1..MaxCount :
        CommandGives([tag |-> kind, n |-> IF n < Me.loop_depth THEN n ELSE Me.loop_depth])
  BY DEF loop_control, CommandGives, Breaks, Ok
<1>2. Me.loop_depth > 0 /\ Me.loop_depth \in Nat
  BY MeType, ShellCounters DEF loop_control, CommandGives, Breaks, Ok, Sound
<1>3. UNCHANGED <<stack, shells>> /\ flow'.n \in 1..Me.loop_depth
  BY <1>1, <1>2, ConstantsAssumption DEF CommandGives
<1>4. Me.loop_depth = Count(stack, {"loop"}, Len(shells))
  BY MeType DEF Sound, Good, Nested, Counts, Me, K
<1> QED
  BY <1>3, <1>4, LoopsCounted

(* The loops left to leave are there, one step later; but a condition's `?' *)
(* ends a loop without counting it.                                         *)
LEMMA LoopsStay ==
  ASSUME Sound, World, [Next]_vars, IInv, LoopsToLeave, ~(stack # <<>> /\ Top.fn = "loop" /\ Top.pc = "condition")
  PROVE  LoopsToLeave'
<1> DEFINE c == Count(stack, {"loop"}, Len(shells))
<1>1. CASE ~Breaks(flow')
  BY <1>1, LoopsCounted
<1>2. CASE Breaks(flow') /\ ~Breaks(flow)
  BY <1>2, BreakStarts, BreakFits
<1>3. CASE Breaks(flow') /\ Breaks(flow)
  <2>1. flow.n \in 1..c /\ flow.tag \in {"break", "continue"} /\ Failed(flow)
    BY <1>3, LoopsCounted DEF Breaks, Failed
  <2>2. stack # <<>>
    <3>1. stack = <<>> => c = 0
      <4>1. stack = <<>> => CallsIn(stack, {"loop"}, Len(shells)) = {}
        BY DEF CallsIn
      <4> QED
        BY <4>1, FS_EmptySet DEF Count
    <3> QED
      BY <2>1, <3>1
  <2>3. CASE UNCHANGED <<shells, stack, flow>>
    BY <2>1, <2>3, LoopsCounted
  <2>4. CASE stack' = Popped /\ flow' = flow /\ Len(shells') = Len(shells) /\ Top.fn # "loop"
    BY <2>1, <2>2, <2>4, LoopsCounted, LoopsPopped
  <2>5. CASE loop_body
    <3>1. /\ Top.fn = "loop" /\ flow.n > 1 /\ LeaveLoop([flow EXCEPT !.n = @ - 1])
      BY <1>3, <2>1, <2>5 DEF loop_body, LeaveLoop, Got, Breaks, Running, Ok
    <3>2. stack' = Popped /\ Len(shells') = Len(shells) /\ flow' = [flow EXCEPT !.n = @ - 1]
      BY <3>1, LoopLeft DEF Keeps, SameFlags
    <3>3. flow'.n = flow.n - 1
      BY <3>2 DEF Sound, Good, FlowOK
    <3>4. c \in Nat /\ Count(stack', {"loop"}, Len(shells')) = c - 1
      BY <2>2, <3>1, <3>2, LoopsPopped
    <3>5. flow'.n \in 1..(c - 1)
      BY <2>1, <3>1, <3>3, <3>4
    <3> QED
      BY <3>4, <3>5, LoopsCounted
  <2>6. CASE FunctionDone \/ DotDone
    <3>1. /\ stack' = Popped /\ flow' = flow /\ Top.fn \in {"call", "dot"}
          /\ \E x, y : \/ shells' = [shells EXCEPT ![K].func_depth = x, ![K].depth = y]
                       \/ shells' = [shells EXCEPT ![K].func_depth = x]
      BY <2>1, <2>6 DEF FunctionDone, DotDone, Got
    <3>2. Keeps
      BY <3>1, ShellsKept DEF Sound
    <3> QED
      BY <2>4, <3>1, <3>2 DEF Keeps, SameFlags
  <2>7. ~(TrapDone \/ finish_copy \/ ExitTrapDone \/ LoopConditionFails)
    <3>1. ~finish_copy
      BY <1>3, CallsStart DEF finish_copy
    <3>2. ~ExitTrapDone
      BY <1>3 DEF ExitTrapDone, Gives, Breaks, Ok
    <3>3. ~TrapDone
      BY <1>3, <2>1 DEF TrapDone, Breaks, Running
    <3>4. ~LoopConditionFails
      BY DEF LoopConditionFails, GotErr
    <3> QED
      BY <3>1, <3>2, <3>3, <3>4
  <2> QED
    BY <2>1, <2>2, <2>3, <2>4, <2>5, <2>6, <2>7, UnwindMoves
<1> QED
  BY <1>1, <1>2, <1>3

(* `break', `continue' and `return' find what handles them, at whatever     *)
(* level they are and whatever they pass: they are cut to the loops there   *)
(* are when they start, and every call on their way hands them on with the  *)
(* loops and functions it was not; but for a loop that its own condition    *)
(* leaves.                                                                  *)
THEOREM UnwindIsHandled == Spec => UnwindHasHandler
<1>1. IInv /\ UInv /\ (IInv /\ UInv)' /\ [Next]_vars =>
        /\ ReturnEnds'
        /\ LoopsToLeave => LoopsToLeave' \/ (Top.fn = "loop" /\ Top.pc = "condition")
  <2> SUFFICES ASSUME IInv, UInv, (IInv /\ UInv)', [Next]_vars
               PROVE  /\ ReturnEnds'
                      /\ LoopsToLeave => LoopsToLeave' \/ (Top.fn = "loop" /\ Top.pc = "condition")
    OBVIOUS
  <2>1. Sound /\ World
    BY DEF IInv, Good, Sound
  <2>3. ReturnEnds'
    <3>1. (CallsTo({"call", "dot"}, K))' = {} => Count(stack', {"call", "dot"}, Len(shells')) = 0
      BY FS_EmptySet DEF Count, CallsIn, CallsTo, K
    <3> QED
      BY <3>1 DEF UInv, ReturnHanded, ReturnEnds
  <2> QED
    BY <2>1, <2>3, LoopsStay
<1> QED
  BY <1>1, FlowHolds, PTL DEF Spec, UnwindHasHandler

-----------------------------------------------------------------------------
(* How many calls are in progress.                                          *)

Levels == {"list", "call"}

(* Where a function stands among those that are called between two levels   *)
(* of nesting: it is called by one of a lower rank only.  A copy of the     *)
(* shell is ranked by what makes it: a pipeline, or a command inside of it. *)
Rank(fn, pc, caller) ==
  CASE fn \in Levels                                               -> 0
    [] fn \in {"and_or", "traps"}                                  -> 1
    [] fn = "ignoring" /\ pc = "pipeline"                          -> 2
    [] fn = "pipeline"                                             -> 3
    [] fn = "ignoring" /\ pc = "commands"                          -> 4
    [] fn = "stages"                                               -> 5
    [] fn = "copy" /\ caller = "stages"                            -> 6
    [] fn = "command"                                              -> 7
    [] fn \in {"if", "loop", "dot"} \/ (fn = "copy" /\ caller # "stages") -> 8
    [] fn = "exit_trap" \/ (fn = "ignoring" /\ pc \notin {"pipeline", "commands"}) -> 9
    [] OTHER                                                       -> 10

RankAt(stk, i) == Rank(stk[i].fn, stk[i].pc, IF i = 1 THEN "line" ELSE stk[i - 1].fn)

(* How many of the first i calls are levels of nesting.                     *)
LevelsTo(stk, i) == Cardinality({j \in 1..i : stk[j].fn \in Levels})

(* No call stands higher than the levels below it and its rank allow.       *)
Ranked(stk) ==
  \A i \in 1..Len(stk) :
    /\ i + 8 <= CallsPerLevel * LevelsTo(stk, i) + RankAt(stk, i)
    /\ stk[i].fn = "copy" /\ stk[i].pc = "command" => i > 1 /\ stk[i - 1].fn = "stages"

LEMMA RankBounds ==
  ASSUME NEW fn, NEW pc, NEW caller
  PROVE  Rank(fn, pc, caller) \in 0..10
<1> DEFINE r == Rank(fn, pc, caller)
<1>1. CASE fn \in Levels \cup {"and_or", "traps", "pipeline", "stages", "command"}
  BY <1>1 DEF Rank, Levels
<1>2. CASE fn \in {"ignoring", "copy"}
  BY <1>2 DEF Rank, Levels
<1>3. CASE fn \in {"if", "loop", "dot", "exit_trap"}
  BY <1>3 DEF Rank, Levels
<1>4. CASE fn \notin Levels \cup {"and_or", "traps", "pipeline", "stages", "command", "ignoring",
                                  "copy", "if", "loop", "dot", "exit_trap"}
  BY <1>4 DEF Rank, Levels
<1> QED
  BY <1>1, <1>2, <1>3, <1>4

LEMMA LevelsSame ==
  ASSUME NEW stk, NEW stk2, NEW i \in Nat, \A j \in 1..i : stk2[j].fn = stk[j].fn
  PROVE  LevelsTo(stk2, i) = LevelsTo(stk, i)
<1>1. {j \in 1..i : stk2[j].fn \in Levels} = {j \in 1..i : stk[j].fn \in Levels}
  OBVIOUS
<1> QED
  BY <1>1 DEF LevelsTo

LEMMA LevelsType ==
  ASSUME NEW stk, NEW i \in Nat
  PROVE  LevelsTo(stk, i) \in Nat /\ IsFiniteSet({j \in 1..i : stk[j].fn \in Levels})
<1> DEFINE s == {j \in 1..i : stk[j].fn \in Levels}
<1>1. IsFiniteSet(1..i) /\ s \in SUBSET (1..i)
  BY FS_Interval
<1>2. IsFiniteSet(s)
  BY <1>1, FS_Subset
<1> QED
  BY <1>2, FS_CardinalityType DEF LevelsTo

LEMMA LevelsOneMore ==
  ASSUME NEW stk, NEW i \in Nat
  PROVE  LevelsTo(stk, i + 1) = LevelsTo(stk, i) + One(stk[i + 1].fn, Levels)
<1> DEFINE s == {j \in 1..i : stk[j].fn \in Levels}
           t == {j \in 1..(i + 1) : stk[j].fn \in Levels}
<1>1. IsFiniteSet(s) /\ Cardinality(s) \in Nat /\ i + 1 \notin s
  BY LevelsType DEF LevelsTo
<1>2. CASE stk[i + 1].fn \in Levels
  <2>1. t = s \cup {i + 1}
    BY <1>2
  <2> QED
    BY <1>1, <1>2, <2>1, FS_AddElement DEF LevelsTo, One
<1>3. CASE stk[i + 1].fn \notin Levels
  <2>1. t = s
    BY <1>3
  <2> QED
    BY <1>1, <1>3, <2>1 DEF LevelsTo, One
<1> QED
  BY <1>2, <1>3

(* The calls keep their ranks when the innermost one goes on.               *)
LEMMA RankedEdit ==
  ASSUME NEW stk \in Seq(FrameType), NEW stk2 \in Seq(FrameType), Edited(stk, stk2), Ranked(stk),
         stk # <<>> => \/ stk2[Len(stk)].pc = stk[Len(stk)].pc
                       \/ stk[Len(stk)].fn # "ignoring" /\ stk2[Len(stk)].pc # "command"
  PROVE  Ranked(stk2) /\ \A i \in 1..Len(stk) : RankAt(stk2, i) = RankAt(stk, i)
<1> DEFINE n == Len(stk)
<1>1. n \in Nat /\ Len(stk2) = n /\ (n > 0 => stk # <<>>)
  BY LenProperties, EmptySeq DEF Edited, SameCalls
<1>2. /\ \A i \in 1..n : stk2[i].fn = stk[i].fn
      /\ \A i \in 1..n : i < n => stk2[i] = stk[i]
  BY <1>1 DEF Edited, SameCalls
<1> SUFFICES ASSUME NEW i \in 1..n
             PROVE  /\ RankAt(stk2, i) = RankAt(stk, i)
                    /\ i + 8 <= CallsPerLevel * LevelsTo(stk2, i) + RankAt(stk2, i)
                    /\ stk2[i].fn = "copy" /\ stk2[i].pc = "command"
                         => i > 1 /\ stk2[i - 1].fn = "stages"
  BY <1>1 DEF Ranked
<1>3. /\ i \in Nat /\ \A j \in 1..i : j \in 1..n
      /\ i # 1 => i - 1 \in 1..n
      /\ \/ stk2[i].pc = stk[i].pc
         \/ stk[i].fn # "ignoring" /\ stk2[i].pc # "command"
  BY <1>1, <1>2
<1>4. RankAt(stk2, i) = RankAt(stk, i)
  <2>1. stk2[i].fn = stk[i].fn /\ (i # 1 => stk2[i - 1].fn = stk[i - 1].fn)
    BY <1>2, <1>3
  <2>2. CASE stk2[i].pc = stk[i].pc
    BY <2>1, <2>2 DEF RankAt
  <2>3. CASE stk[i].fn # "ignoring"
    <3>1. \A fn, pc, pc2, caller : fn # "ignoring" => Rank(fn, pc, caller) = Rank(fn, pc2, caller)
      BY DEF Rank
    <3> QED
      BY <2>1, <2>3, <3>1 DEF RankAt
  <2> QED
    BY <1>3, <2>2, <2>3
<1>5. LevelsTo(stk2, i) = LevelsTo(stk, i)
  BY <1>2, <1>3, LevelsSame
<1>6. /\ i + 8 <= CallsPerLevel * LevelsTo(stk, i) + RankAt(stk, i)
      /\ stk[i].fn = "copy" /\ stk[i].pc = "command" => i > 1 /\ stk[i - 1].fn = "stages"
  BY DEF Ranked
<1> QED
  BY <1>2, <1>3, <1>4, <1>5, <1>6

LEMMA RankedPop ==
  ASSUME NEW stk \in Seq(FrameType), stk # <<>>, Ranked(stk)
  PROVE  Ranked(Below(stk))
<1> DEFINE n == Len(stk)
           stk2 == Below(stk)
<1>1. /\ n \in Nat \ {0} /\ Len(stk2) = n - 1
      /\ \A i \in 1..(n - 1) : stk2[i] = stk[i]
  BY BelowTop
<1> HIDE DEF stk2
<1> SUFFICES ASSUME NEW i \in 1..(n - 1)
             PROVE  /\ i + 8 <= CallsPerLevel * LevelsTo(stk2, i) + RankAt(stk2, i)
                    /\ stk2[i].fn = "copy" /\ stk2[i].pc = "command"
                         => i > 1 /\ stk2[i - 1].fn = "stages"
  BY <1>1 DEF Ranked, stk2
<1>2. i \in 1..n /\ i \in Nat /\ \A j \in 1..i : stk2[j] = stk[j]
  BY <1>1
<1>3. LevelsTo(stk2, i) = LevelsTo(stk, i)
  BY <1>2, LevelsSame
<1>4. stk2[i] = stk[i] /\ (i # 1 => stk2[i - 1] = stk[i - 1])
  BY <1>1
<1>5. RankAt(stk2, i) = RankAt(stk, i)
  BY <1>4 DEF RankAt
<1> QED
  BY <1>2, <1>3, <1>4, <1>5 DEF Ranked

(* fn, at pc, may be called by the innermost call: it opens a level, or its *)
(* rank is higher.                                                          *)
Higher(fn, pc) ==
  /\ \/ fn \in Levels
     \/ stack = <<>> /\ fn = "exit_trap"
     \/ stack # <<>> /\ RankAt(stack, Len(stack)) < Rank(fn, pc, Top.fn)
  /\ fn = "copy" /\ pc = "command" => stack # <<>> /\ Top.fn = "stages"

LEMMA RankedPush ==
  ASSUME NEW stk \in Seq(FrameType), Edited(stack, stk), Ranked(stk),
         stack \in Seq(FrameType), \A i \in 1..Len(stack) : RankAt(stk, i) = RankAt(stack, i),
         NEW f, Higher(f.fn, f.pc)
  PROVE  Ranked(Append(stk, f))
<1> DEFINE n == Len(stk)
           stk2 == Append(stk, f)
           S == FrameType \cup {f}
<1>1. /\ n \in Nat /\ (n > 0 => stack # <<>>) /\ (n = 0 => stack = <<>>)
      /\ Len(stk2) = n + 1 /\ stk2[n + 1] = f
      /\ \A i \in 1..n : stk2[i] = stk[i]
      /\ Len(stack) = n
  <2>1. stk \in Seq(S) /\ f \in S
    BY SeqMonotonic
  <2> HIDE DEF S
  <2> QED
    BY <2>1, AppendProperties, LenProperties, EmptySeq DEF Edited, SameCalls
<1> HIDE DEF stk2
<1>2. n > 0 => stk[n].fn = Top.fn
  BY <1>1 DEF Edited, SameCalls, Top
<1> SUFFICES ASSUME NEW i \in 1..(n + 1)
             PROVE  /\ i + 8 <= CallsPerLevel * LevelsTo(stk2, i) + RankAt(stk2, i)
                    /\ stk2[i].fn = "copy" /\ stk2[i].pc = "command"
                         => i > 1 /\ stk2[i - 1].fn = "stages"
  BY <1>1 DEF Ranked, stk2
<1>3. CASE i # n + 1
  <2>1. i \in 1..n /\ i \in Nat /\ \A j \in 1..i : stk2[j] = stk[j]
    BY <1>1, <1>3
  <2>2. LevelsTo(stk2, i) = LevelsTo(stk, i)
    BY <2>1, LevelsSame
  <2>3. stk2[i] = stk[i] /\ (i # 1 => stk2[i - 1] = stk[i - 1])
    BY <1>1, <2>1
  <2>4. RankAt(stk2, i) = RankAt(stk, i)
    BY <2>3 DEF RankAt
  <2> QED
    BY <2>1, <2>2, <2>3, <2>4 DEF Ranked
<1>4. CASE i = n + 1
  <2> DEFINE lv == LevelsTo(stk, n)
  <2>1. LevelsTo(stk2, n + 1) = lv + One(f.fn, Levels) /\ lv \in Nat
    <3>1. LevelsTo(stk2, n) = lv
      BY <1>1, LevelsSame
    <3> QED
      BY <1>1, <3>1, LevelsOneMore, LevelsType
  <2>2. RankAt(stk2, n + 1) = Rank(f.fn, f.pc, IF n = 0 THEN "line" ELSE Top.fn)
    <3>1. n # 0 => n + 1 # 1 /\ n + 1 - 1 = n /\ n \in 1..n
      BY <1>1
    <3> QED
      BY <1>1, <1>2, <3>1 DEF RankAt
  <2>3. /\ RankAt(stk2, n + 1) \in 0..10
        /\ n > 0 => RankAt(stack, n) \in 0..10 /\ n + 8 <= CallsPerLevel * lv + RankAt(stack, n)
    <3>1. \A st, j : RankAt(st, j) \in 0..10
      BY RankBounds DEF RankAt
    <3>2. n > 0 => n \in 1..n
      BY <1>1
    <3> QED
      BY <1>1, <3>1, <3>2 DEF Ranked
  <2> HIDE DEF lv
  <2>4. CASE f.fn \in Levels
    <3>1. LevelsTo(stk2, n + 1) = lv + 1
      BY <2>1, <2>4 DEF One
    <3>2. n + 1 + 8 <= 11 * (lv + 1)
      <4>1. CASE n = 0
        BY <2>1, <4>1
      <4>2. CASE n > 0
        BY <1>1, <2>1, <2>3, <4>2 DEF CallsPerLevel
      <4> QED
        BY <1>1, <4>1, <4>2
    <3> QED
      BY <1>1, <1>4, <2>1, <2>3, <2>4, <3>1, <3>2 DEF CallsPerLevel, Levels
  <2>5. CASE stack = <<>> /\ f.fn = "exit_trap"
    <3>1. RankAt(stk2, n + 1) = 9 /\ n = 0
      BY <1>1, <2>2, <2>5 DEF Rank, Levels
    <3>2. LevelsTo(stk2, n + 1) \in Nat
      BY <2>1 DEF One
    <3> QED
      BY <1>1, <1>4, <2>5, <3>1, <3>2 DEF CallsPerLevel
  <2>6. CASE f.fn \notin Levels /\ stack # <<>> /\ RankAt(stack, Len(stack)) < Rank(f.fn, f.pc, Top.fn)
    <3>1. n > 0 /\ LevelsTo(stk2, n + 1) = lv /\ RankAt(stack, n) < RankAt(stk2, n + 1)
      BY <1>1, <2>1, <2>2, <2>6 DEF One
    <3>2. n + 1 + 8 <= 11 * lv + RankAt(stk2, n + 1)
      <4>1. n \in Nat /\ lv \in Nat /\ RankAt(stk2, n + 1) \in Nat /\ RankAt(stack, n) \in Nat
            /\ n + 8 <= 11 * lv + RankAt(stack, n) /\ RankAt(stack, n) < RankAt(stk2, n + 1)
        BY <1>1, <2>1, <2>3, <3>1 DEF CallsPerLevel
      <4> QED
        BY <4>1
    <3>3. f.fn = "copy" /\ f.pc = "command" => stk2[n + 1 - 1].fn = "stages"
      <4>1. n + 1 - 1 = n /\ n \in 1..n
        BY <1>1, <3>1
      <4> QED
        BY <1>1, <1>2, <3>1, <4>1 DEF Higher
    <3> QED
      BY <1>1, <1>4, <3>1, <3>2, <3>3 DEF CallsPerLevel
  <2> QED
    BY <2>4, <2>5, <2>6 DEF Higher
<1> QED
  BY <1>3, <1>4

-----------------------------------------------------------------------------
(* No step makes a call of a lower rank.                                    *)

Standing == Good /\ Ranked(stack)

(* The calls as they are, or the innermost one at another place.            *)
Kept(base) ==
  \/ base = stack
  \/ /\ stack # <<>> /\ Top.fn # "ignoring"
     /\ \E pc \in Pcs \ {"command"}, s \in Statuses : base = At(pc) \/ base = AtWith(pc, s)

LEMMA KeptRanked ==
  ASSUME Standing, NEW base, Kept(base)
  PROVE  /\ base \in Seq(FrameType) /\ Edited(stack, base) /\ Ranked(base)
         /\ \A i \in 1..Len(stack) : RankAt(base, i) = RankAt(stack, i)
<1>1. stack \in Seq(FrameType)
  BY DEF Standing, Good, Nested
<1>2. CASE base = stack
  BY <1>1, <1>2 DEF Edited, SameCalls, Standing
<1>3. ASSUME stack # <<>>, Top.fn # "ignoring", NEW pc \in Pcs \ {"command"}, NEW s \in Statuses,
             base = At(pc) \/ base = AtWith(pc, s)
      PROVE  /\ base \in Seq(FrameType) /\ Edited(stack, base)
             /\ stack[Len(stack)].fn # "ignoring" /\ base[Len(stack)].pc # "command"
  <2>1. Top \in FrameType
    BY <1>3, TopType DEF Standing
  <2>2. ASSUME NEW f, f = [Top EXCEPT !.pc = pc] \/ f = [Top EXCEPT !.pc = pc, !.st = s]
        PROVE  f.pc # "command"
    BY <2>1, <2>2 DEF FrameType
  <2>3. CASE base = At(pc)
    BY <1>3, <2>2, <2>3, TopEdited DEF Standing, Top
  <2>4. CASE base = AtWith(pc, s)
    BY <1>3, <2>2, <2>4, TopEdited DEF Standing, Top
  <2> QED
    BY <1>3, <2>3, <2>4
<1>4. CASE base # stack
  <2>1. /\ base \in Seq(FrameType) /\ Edited(stack, base)
        /\ stack[Len(stack)].fn # "ignoring" /\ base[Len(stack)].pc # "command"
    BY <1>3, <1>4 DEF Kept
  <2> QED
    BY <1>1, <2>1, RankedEdit DEF Standing
<1> QED
  BY <1>2, <1>4

LEMMA RStays ==
  ASSUME Standing, Kept(stack')
  PROVE  Ranked(stack')
BY KeptRanked

LEMMA RPops ==
  ASSUME Standing, stack # <<>>, stack' = Popped
  PROVE  Ranked(stack')
BY RankedPop DEF Standing, Good, Nested, Popped, Below

LEMMA RCall ==
  ASSUME Standing, NEW base, Kept(base), NEW f, Higher(f.fn, f.pc), stack' = Append(base, f)
  PROVE  Ranked(stack')
BY KeptRanked, RankedPush DEF Standing, Good, Nested

LEMMA RCalls ==
  ASSUME Standing, NEW base, Kept(base), NEW fn, NEW pc, NEW s, Higher(fn, pc),
         Calls(base, Frame(fn, pc, s))
  PROVE  Ranked(stack')
<1>1. Frame(fn, pc, s).fn = fn /\ Frame(fn, pc, s).pc = pc
  BY DEF Frame
<1> QED
  BY <1>1, RCall DEF Calls

LEMMA REnter ==
  ASSUME Standing, NEW base, Kept(base), NEW f, Higher(f.fn, f.pc), NEW c, enter(base, f, c)
  PROVE  Ranked(stack')
BY RStays, RCall DEF enter

LEMMA RRunList ==
  ASSUME Standing, NEW base, Kept(base), run_list(base)
  PROVE  Ranked(stack')
<1> DEFINE f == Frame("list", "check", Me.status)
<1>1. Higher(f.fn, f.pc)
  BY DEF Frame, Higher, Levels
<1> QED
  BY <1>1, REnter DEF run_list

LEMMA RIgnoring ==
  ASSUME Standing, NEW base, Kept(base), NEW body, Higher("ignoring", body),
         ignoring_errexit(base, body)
  PROVE  Ranked(stack')
<1> DEFINE f == Frame("ignoring", body, 0)
<1>1. f.fn = "ignoring" /\ f.pc = body /\ stack' = Append(base, f)
  BY DEF Frame, ignoring_errexit
<1> HIDE DEF f
<1> QED
  BY <1>1, RCall

LEMMA RCopy ==
  ASSUME Standing, NEW base, Kept(base), NEW body, Higher("copy", body), copy(base, body)
  PROVE  Ranked(stack')
<1> DEFINE f == [fn |-> "copy", pc |-> body, self |-> K + 1, st |-> 0]
<1>1. f.fn = "copy" /\ f.pc = body /\ stack' = Append(base, f)
  BY DEF copy
<1> HIDE DEF f
<1> QED
  BY <1>1, RCall

LEMMA RExitTrap ==
  ASSUME Standing, NEW base, Kept(base), Higher("exit_trap", "start"), NEW s,
         run_exit_trap(base, s)
  PROVE  Ranked(stack')
<1> DEFINE f == Frame("exit_trap", "start", s)
<1>1. f.fn = "exit_trap" /\ f.pc = "start"
  BY DEF Frame
<1>2. stack' = base \/ stack' = Append(base, f)
  BY DEF run_exit_trap
<1> HIDE DEF f
<1> QED
  BY <1>1, <1>2, RCall, RStays

LEMMA RRunPipeline ==
  ASSUME Standing, NEW base, Kept(base), \A pc : Higher("pipeline", pc), run_pipeline(base)
  PROVE  Ranked(stack')
<1>1. PICK pc \in {"negated", "plain"} : Calls(base, Frame("pipeline", pc, 0))
  BY DEF run_pipeline
<1> QED
  BY <1>1, RCalls

LEMMA RRunCommand ==
  ASSUME Standing, NEW base, Kept(base), \A pc : Higher("command", pc), run_command(base)
  PROVE  Ranked(stack')
<1>1. PICK kind \in KindsHere : Calls(base, Frame("command", kind, 0))
  BY DEF run_command
<1> QED
  BY <1>1, RCalls

LEMMA RRunCommands ==
  ASSUME Standing, NEW base, Kept(base), run_commands(base),
         \A pc : Higher("command", pc) /\ Higher("stages", pc)
  PROVE  Ranked(stack')
<1>1. CASE run_command(base)
  BY <1>1, RRunCommand
<1>2. CASE Calls(base, Frame("stages", "first", 0))
  BY <1>2, RCalls
<1> QED
  BY <1>1, <1>2 DEF run_commands

(* Who calls whom.                                                          *)
LEMMA Calling ==
  ASSUME stack # <<>>
  PROVE  /\ Top.fn = "list" => \A pc : Higher("and_or", pc) /\ Higher("traps", pc)
         /\ Top.fn = "and_or" => Higher("ignoring", "pipeline") /\ \A pc : Higher("pipeline", pc)
         /\ Top.fn = "pipeline" =>
              Higher("ignoring", "commands") /\ \A pc : Higher("command", pc) /\ Higher("stages", pc)
         /\ Top.fn = "ignoring" /\ Top.pc = "pipeline" => \A pc : Higher("pipeline", pc)
         /\ Top.fn = "ignoring" /\ Top.pc = "commands" =>
              \A pc : Higher("command", pc) /\ Higher("stages", pc)
         /\ Top.fn = "stages" => Higher("copy", "command")
         /\ Top.fn = "copy" => \A pc : Higher("exit_trap", pc)
         /\ Top.fn = "copy" /\ Caller = "stages" => \A pc : Higher("command", pc)
         /\ Top.fn = "command" =>
              /\ Higher("copy", "list")
              /\ \A pc : \A fn \in {"if", "loop", "dot", "text"} : Higher(fn, pc)
         /\ Top.fn \in {"if", "loop"} => Higher("ignoring", "list")
         /\ Top.fn = "call" => \A pc : Higher("command", pc)
         /\ Top.fn \in {"dot", "exit_trap", "traps"} => \A pc : Higher("text", pc)
<1> DEFINE r == Rank(Top.fn, Top.pc, Caller)
<1>1. RankAt(stack, Len(stack)) = r
  BY DEF RankAt, Caller, Top
<1>2. \A fn, pc : r < Rank(fn, pc, Top.fn) /\ (fn = "copy" /\ pc = "command" => Top.fn = "stages")
                   => Higher(fn, pc)
  BY <1>1 DEF Higher
<1>3. CASE Top.fn \in {"list", "and_or", "call"}
  BY <1>2, <1>3 DEF Rank, Levels
<1>4. CASE Top.fn \in {"pipeline", "stages"}
  BY <1>2, <1>4 DEF Rank, Levels
<1>5. CASE Top.fn = "ignoring"
  BY <1>2, <1>5 DEF Rank, Levels
<1>6. CASE Top.fn = "copy"
  BY <1>2, <1>6 DEF Rank, Levels
<1>7. CASE Top.fn \in {"command", "if", "loop"}
  BY <1>2, <1>7 DEF Rank, Levels
<1>8. CASE Top.fn \in {"dot", "exit_trap", "traps"}
  BY <1>2, <1>8 DEF Rank, Levels
<1> QED
  BY <1>3, <1>4, <1>5, <1>6, <1>7, <1>8

(* The places a call can go on at.                                          *)
LEMMA Places ==
  ASSUME Standing, stack # <<>>, Top.fn # "ignoring"
  PROVE  /\ \A pc \in Pcs \ {"command"} : Kept(At(pc))
         /\ \A pc \in Pcs \ {"command"}, s \in Statuses : Kept(AtWith(pc, s))
         /\ {"check", "before", "item", "after", "next", "rest", "last", "body", "finished", "line",
             "more", "condition", "tested", "while_body", "for_body", "words", "assignments",
             "ready", "trap", "simple", "while", "for"} \subseteq Pcs \ {"command"}
         /\ 0 \in Statuses /\ Me.status \in Statuses
         /\ flow.tag = "ok" => flow.n \in Statuses
<1>1. 0 \in Statuses /\ Me.status \in Statuses
  BY MeType DEF Standing, Statuses
<1>2. flow.tag = "ok" => flow.n \in Statuses
  BY DEF Standing, Good, FlowOK
<1>3. {"check", "before", "item", "after", "next", "rest", "last", "body", "finished", "line",
       "more", "condition", "tested", "while_body", "for_body", "words", "assignments",
       "ready", "trap", "simple", "while", "for"} \subseteq Pcs \ {"command"}
  BY DEF Pcs, AllKinds
<1> QED
  BY <1>1, <1>2, <1>3 DEF Kept

(* Going on, or returning, is no matter.                                    *)
LEMMA GoingOn ==
  ASSUME Standing, stack # <<>>,
         \/ UNCHANGED stack
         \/ stack' = Popped
         \/ /\ Top.fn # "ignoring"
            /\ \E pc \in Pcs \ {"command"} : \/ stack' = At(pc)
                                             \/ \E s \in Statuses : stack' = AtWith(pc, s)
  PROVE  Ranked(stack')
<1>1. CASE stack' = Popped
  BY <1>1, RPops
<1>2. CASE UNCHANGED stack
  BY <1>2, RStays DEF Kept
<1>3. CASE stack' # Popped /\ ~UNCHANGED stack
  BY <1>3, RStays, Places
<1> QED
  BY <1>1, <1>2, <1>3

LEMMA ListsRanked ==
  ASSUME Standing,
         ListCheck \/ ListItem \/ ListItemDone \/ ListNext \/ ListEnd \/ ListFails \/ TakePending
  PROVE  Ranked(stack')
<1>1. stack # <<>> /\ Top.fn = "list" /\ Top.fn # "ignoring"
  BY DEF ListCheck, ListItem, ListItemDone, ListNext, ListEnd, ListFails, TakePending, In, GotOk,
         GotErr
<1>2. CASE ListCheck \/ ListItemDone \/ ListNext \/ ListEnd \/ ListFails
  <2>1. \/ stack' = Popped \/ stack' = At("before") \/ stack' = At("check")
        \/ flow.tag = "ok" /\ stack' = AtWith("after", flow.n)
    BY <1>2 DEF ListCheck, ListItemDone, ListNext, ListEnd, ListFails, LeaveList, GotOk
  <2> QED
    BY <1>1, <2>1, Places, GoingOn
<1>3. CASE ListItem
  BY <1>1, <1>3, Places, Calling, RCalls DEF ListItem
<1>4. CASE TakePending
  <2>1. PICK pc \in {"item", "next"} : Calls(At(pc), Frame("traps", "next", 0))
    BY <1>4 DEF TakePending
  <2> QED
    BY <1>1, <2>1, Places, Calling, RCalls
<1> QED
  BY <1>2, <1>3, <1>4

LEMMA TrapsRanked ==
  ASSUME Standing, RunTrap \/ TrapDone \/ TrapsDone
  PROVE  Ranked(stack')
<1>1. stack # <<>> /\ Top.fn = "traps" /\ Top.fn # "ignoring"
  BY DEF RunTrap, TrapDone, TrapsDone, In, Got
<1>2. CASE RunTrap
  <2> DEFINE f == Frame("text", "line", Me.status)
  <2>1. stack' = Append(AtWith("trap", Me.status), f) /\ f.fn = "text" /\ f.pc = "line"
    BY <1>2 DEF RunTrap, Frame
  <2> HIDE DEF f
  <2> QED
    BY <1>1, <2>1, Places, Calling, RCall
<1>3. CASE TrapDone \/ TrapsDone
  <2>1. stack' = Popped \/ stack' = At("next")
    BY <1>3 DEF TrapDone, TrapsDone, Gives
  <2> QED
    BY <1>1, <2>1, Places, GoingOn
<1> QED
  BY <1>2, <1>3

LEMMA AndOrRanked ==
  ASSUME Standing, AndOrFirst \/ AndOrRest \/ PassOn
  PROVE  Ranked(stack')
<1>1. CASE AndOrFirst
  <2>1. stack # <<>> /\ Top.fn = "and_or" /\ Top.fn # "ignoring"
    BY <1>1 DEF AndOrFirst, In
  <2>2. run_pipeline(At("last")) \/ ignoring_errexit(At("rest"), "pipeline")
    BY <1>1 DEF AndOrFirst
  <2> QED
    BY <2>1, <2>2, Places, Calling, RRunPipeline, RIgnoring
<1>2. CASE AndOrRest
  <2>1. stack # <<>> /\ Top.fn = "and_or" /\ Top.fn # "ignoring"
    BY <1>2 DEF AndOrRest, GotOk
  <2>2. run_pipeline(At("last")) \/ ignoring_errexit(stack, "pipeline") \/ stack' = Popped
    BY <1>2 DEF AndOrRest, Gives
  <2> QED
    BY <2>1, <2>2, Places, Calling, RRunPipeline, RIgnoring, RPops DEF Kept
<1>3. CASE PassOn
  BY <1>3, RPops DEF PassOn, Gives, GotErr, GotOk
<1> QED
  BY <1>1, <1>2, <1>3

LEMMA PipelinesRanked ==
  ASSUME Standing, Pipeline \/ PipelineDone \/ IgnoringBody \/ IgnoringDone
  PROVE  Ranked(stack')
<1>1. stack # <<>> /\ Top.fn \in {"pipeline", "ignoring"} /\ Kept(stack)
  BY DEF Pipeline, PipelineDone, IgnoringBody, IgnoringDone, In, Got, Kept
<1>2. CASE Pipeline
  <2>1. Top.fn = "pipeline" /\ (run_commands(stack) \/ ignoring_errexit(stack, "commands"))
    BY <1>2 DEF Pipeline, In
  <2> QED
    BY <1>1, <2>1, Calling, RRunCommands, RIgnoring
<1>3. CASE IgnoringBody
  <2>1. /\ Top.fn = "ignoring"
        /\ \/ Top.pc = "pipeline" /\ run_pipeline(stack)
           \/ Top.pc = "commands" /\ run_commands(stack)
           \/ run_list(stack)
    BY <1>3 DEF IgnoringBody, In
  <2> QED
    BY <1>1, <2>1, Calling, RRunPipeline, RRunCommands, RRunList
<1>4. CASE PipelineDone \/ IgnoringDone
  BY <1>1, <1>4, RPops DEF PipelineDone, IgnoringDone, Gives
<1> QED
  BY <1>2, <1>3, <1>4

(* A copy that runs a command is a stage of a pipeline.                     *)
LEMMA CopiesRanked ==
  ASSUME Standing, CopyBody \/ finish_copy \/ CopyDone \/ ExitTrapText \/ ExitTrapDone
  PROVE  Ranked(stack')
<1>1. stack # <<>> /\ Top.fn \in {"copy", "exit_trap"} /\ Top.fn # "ignoring"
  BY DEF CopyBody, finish_copy, CopyDone, ExitTrapText, ExitTrapDone, In, Got
<1>2. CASE CopyBody
  <2>1. Top.fn = "copy" /\ (run_list(At("body")) \/ (Top.pc = "command" /\ run_command(At("body"))))
    BY <1>2 DEF CopyBody, In
  <2>2. Top.pc = "command" => Caller = "stages"
    <3>1. Len(stack) \in 1..Len(stack)
      BY <1>1, EmptySeq DEF Standing, Good, Nested
    <3> QED
      BY <2>1, <3>1 DEF Standing, Ranked, Top, Caller
  <2> QED
    BY <1>1, <2>1, <2>2, Places, Calling, RRunList, RRunCommand
<1>3. CASE finish_copy
  <2>1. Top.fn = "copy" /\ \E s : run_exit_trap(At("finished"), s)
    BY <1>3 DEF finish_copy, Got
  <2> QED
    BY <1>1, <2>1, Places, Calling, RExitTrap
<1>4. CASE CopyDone \/ ExitTrapDone
  BY <1>1, <1>4, RPops DEF CopyDone, ExitTrapDone, Gives
<1>5. CASE ExitTrapText
  <2>1. Top.fn = "exit_trap" /\ Calls(stack, Frame("text", "line", Me.status))
    BY <1>5 DEF ExitTrapText, In
  <2> QED
    BY <1>1, <2>1, Calling, RCalls DEF Kept
<1> QED
  BY <1>2, <1>3, <1>4, <1>5

LEMMA StagesRanked ==
  ASSUME Standing, StagesRun \/ StagesNoPipe \/ StagesNext \/ StagesDone
  PROVE  Ranked(stack')
<1>1. stack # <<>> /\ Top.fn = "stages" /\ Top.fn # "ignoring"
  BY DEF StagesRun, StagesNoPipe, StagesNext, StagesDone, In, GotOk
<1>2. CASE StagesRun
  <2>1. copy(stack, "command") \/ UNCHANGED stack
    BY <1>2 DEF StagesRun
  <2> QED
    BY <1>1, <2>1, Calling, RCopy, GoingOn DEF Kept
<1>3. CASE StagesNoPipe \/ StagesDone
  <2>1. stack' = Popped
    BY <1>3 DEF StagesNoPipe, StagesDone, Gives
  <2> QED
    BY <1>1, <2>1, RPops
<1>4. CASE StagesNext
  <2>1. PICK pipefail \in BOOLEAN : stack' = AtWith("more", StageStatus(pipefail))
    BY <1>4 DEF StagesNext
  <2>2. StageStatus(pipefail) \in Statuses
    BY <1>1, <1>4, TopType, Places DEF StagesNext, GotOk, StageStatus, Standing
  <2> QED
    BY <1>1, <2>1, <2>2, Places, GoingOn
<1> QED
  BY <1>2, <1>3, <1>4

LEMMA CompoundRanked ==
  ASSUME Standing, RedirectFails \/ run_compound \/ IfCondition \/ IfTested
  PROVE  Ranked(stack')
<1>1. stack # <<>> /\ Top.fn \in {"command", "if"} /\ Top.fn # "ignoring" /\ Kept(stack)
  BY DEF RedirectFails, run_compound, Compound, IfCondition, IfTested, In, GotOk, Kept
<1>2. CASE RedirectFails
  <2>1. stack' = Popped
    BY <1>2 DEF RedirectFails, Gives
  <2> QED
    BY <1>1, <2>1, RPops
<1>3. CASE run_compound
  <2>1. Top.fn = "command"
    BY <1>3 DEF run_compound, Compound, In
  <2>2. \/ copy(stack, "list") \/ run_list(stack) \/ Calls(stack, Frame("if", "condition", 0))
        \/ UNCHANGED stack \/ stack' = Append(stack, Frame("loop", Top.pc, 0))
    BY <1>3 DEF run_compound, CommandGives
  <2>3. Frame("loop", Top.pc, 0).fn = "loop" /\ Frame("loop", Top.pc, 0).pc = Top.pc
    BY DEF Frame
  <2> QED
    BY <1>1, <2>1, <2>2, <2>3, Calling, RCopy, RRunList, RCalls, GoingOn, RCall
<1>4. CASE IfCondition
  <2>1. Top.fn = "if" /\ ignoring_errexit(At("tested"), "list")
    BY <1>4 DEF IfCondition, In
  <2> QED
    BY <1>1, <2>1, Places, Calling, RIgnoring
<1>5. CASE IfTested
  <2>1. run_list(At("body")) \/ stack' = At("condition") \/ stack' = Popped
    BY <1>5 DEF IfTested, Gives
  <2> QED
    BY <1>1, <2>1, Places, RRunList, GoingOn
<1> QED
  BY <1>2, <1>3, <1>4, <1>5

LEMMA LoopsRanked ==
  ASSUME Standing, LoopPass \/ LoopTested \/ loop_body \/ LoopConditionFails
  PROVE  Ranked(stack')
<1>1. stack # <<>> /\ Top.fn = "loop" /\ Top.fn # "ignoring"
  BY DEF LoopPass, LoopTested, loop_body, LoopConditionFails, In, GotOk, Got, GotErr
<1>2. CASE LoopPass
  <2>1. stack' = Popped \/ ignoring_errexit(At("condition"), "list") \/ run_list(At("for_body"))
    BY <1>2 DEF LoopPass, LeaveLoop
  <2> QED
    BY <1>1, <2>1, Places, Calling, RPops, RIgnoring, RRunList
<1>3. CASE LoopTested
  <2>1. stack' = Popped \/ run_list(At("while_body"))
    BY <1>3 DEF LoopTested, LeaveLoop
  <2> QED
    BY <1>1, <2>1, Places, RPops, RRunList
<1>4. CASE loop_body \/ LoopConditionFails
  <2>1. \/ stack' = Popped
        \/ \E pc \in {"for", "while"} : stack' = At(pc) \/ (flow.tag = "ok" /\ stack' = AtWith(pc, flow.n))
    BY <1>4 DEF loop_body, LoopConditionFails, LeaveLoop, NextPass
  <2> QED
    BY <1>1, <2>1, Places, GoingOn
<1> QED
  BY <1>2, <1>3, <1>4

LEMMA SimplesRanked ==
  ASSUME Standing,
         \/ command_substitution \/ ExpansionFails \/ Expanded
         \/ SimpleFails \/ RunAssignment \/ RunBuiltin \/ RunExit \/ RunReturn
         \/ loop_control("break") \/ loop_control("continue") \/ RunSet \/ SetExitTrap
         \/ RunProgram \/ replace_with \/ CommandDone
  PROVE  Ranked(stack')
<1>1. stack # <<>> /\ Top.fn = "command" /\ Top.fn # "ignoring"
  BY DEF command_substitution, ExpansionFails, Expanded, Expanding, SimpleFails, RunAssignment,
         RunBuiltin, RunExit, RunReturn, loop_control, RunSet, SetExitTrap, RunProgram,
         replace_with, CommandDone, Simple, In, GotOk
<1>2. CASE command_substitution
  <2>1. \/ copy(At("words"), "list") \/ copy(At("assignments"), "list")
        \/ \E pc \in {"simple", "ready"} : flow.tag = "ok" /\ stack' = AtWith(pc, flow.n)
    BY <1>2 DEF command_substitution, GotOk
  <2> QED
    BY <1>1, <2>1, Places, Calling, RCopy, GoingOn
<1>3. CASE Expanded \/ CommandDone
  <2>1. stack' = Popped \/ stack' = At("ready") \/ UNCHANGED stack
    BY <1>3 DEF Expanded, CommandDone, CommandGives
  <2> QED
    BY <1>1, <2>1, Places, GoingOn
<1>4. CASE ~(command_substitution \/ Expanded \/ CommandDone)
  <2>1. UNCHANGED stack
    BY <1>4 DEF ExpansionFails, SimpleFails, RunAssignment, RunBuiltin, RunExit, RunReturn,
       loop_control, RunSet, SetExitTrap, RunProgram, replace_with, run_program, CommandGives
  <2> QED
    BY <1>1, <2>1, GoingOn
<1> QED
  BY <1>2, <1>3, <1>4

LEMMA FunctionsRanked ==
  ASSUME Standing,
         \/ call_function \/ FunctionBody \/ FunctionDone \/ RunEval \/ RunDot \/ DotText
         \/ DotDone \/ TextLine \/ TextEnd \/ TextLineDone
  PROVE  Ranked(stack')
<1>1. /\ stack # <<>> /\ Top.fn \in {"command", "call", "dot", "text"} /\ Top.fn # "ignoring"
      /\ Kept(stack)
  BY DEF call_function, FunctionBody, FunctionDone, RunEval, RunDot, DotText, DotDone, TextLine,
         TextEnd, TextLineDone, Simple, In, GotOk, Got, Kept
<1>2. CASE call_function
  <2> DEFINE f == Frame("call", "body", 0)
  <2>1. Higher(f.fn, f.pc) /\ \E c : enter(stack, f, c)
    BY <1>2 DEF call_function, Frame, Higher, Levels
  <2> HIDE DEF f
  <2> QED
    BY <1>1, <2>1, REnter
<1>3. CASE FunctionBody
  <2>1. Top.fn = "call" /\ \E kind : Calls(stack, Frame("command", kind, 0))
    BY <1>3 DEF FunctionBody, In
  <2> QED
    BY <1>1, <2>1, Calling, RCalls
<1>4. CASE RunEval
  <2>1. Top.fn = "command" /\ (UNCHANGED stack \/ Calls(stack, Frame("text", "line", Me.status)))
    BY <1>4 DEF RunEval, Simple, In, CommandGives
  <2> QED
    BY <1>1, <2>1, Calling, RCalls, GoingOn
<1>5. CASE RunDot
  <2> DEFINE f == Frame("dot", "start", 0)
  <2>1. Top.fn = "command" /\ (UNCHANGED stack \/ stack' = Append(stack, f))
    BY <1>5 DEF RunDot, Simple, In, CommandGives
  <2>2. f.fn = "dot" /\ f.pc = "start"
    BY DEF Frame
  <2> HIDE DEF f
  <2> QED
    BY <1>1, <2>1, <2>2, Calling, RCall, GoingOn
<1>6. CASE DotText
  <2>1. Top.fn = "dot" /\ Calls(stack, Frame("text", "line", Me.status))
    BY <1>6 DEF DotText, In
  <2> QED
    BY <1>1, <2>1, Calling, RCalls
<1>7. CASE TextLine
  BY <1>1, <1>7, RRunList DEF TextLine
<1>8. CASE FunctionDone \/ DotDone \/ TextEnd \/ TextLineDone
  <2>1. stack' = Popped \/ (flow.tag = "ok" /\ stack' = AtWith("line", flow.n))
    BY <1>8 DEF FunctionDone, DotDone, TextEnd, TextLineDone, Gives, GotOk
  <2> QED
    BY <1>1, <2>1, Places, GoingOn
<1> QED
  BY <1>2, <1>3, <1>4, <1>5, <1>6, <1>7, <1>8

LEMMA ReadRunRanked ==
  ASSUME Standing, World,
         FinishLine \/ FinishShell \/ EndShell \/ StartLine \/ RejectLine \/ EndOfInput
         \/ InputFails
  PROVE  Ranked(stack')
<1>1. stack = <<>> /\ Kept(stack)
  BY DEF FinishLine, FinishShell, EndShell, StartLine, RejectLine, EndOfInput, InputFails,
         LineOver, World, Kept
<1>2. \/ UNCHANGED stack \/ run_list(stack)
      \/ \E s : run_exit_trap(stack, s)
  BY <1>1 DEF FinishLine, FinishShell, EndShell, StartLine, RejectLine, EndOfInput, InputFails
<1>3. Higher("exit_trap", "start")
  BY <1>1 DEF Higher
<1> QED
  BY <1>1, <1>2, <1>3, RStays, RRunList, RExitTrap

LEMMA NextRanked == IInv /\ Ranked(stack) /\ [Next]_vars => Ranked(stack')
<1> SUFFICES ASSUME IInv, Ranked(stack), [Next]_vars PROVE Ranked(stack')
  OBVIOUS
<1>1. Standing /\ World
  BY DEF IInv, Good, Standing
<1>2. CASE Execute
  BY <1>1, <1>2, ListsRanked, TrapsRanked, AndOrRanked, PipelinesRanked, CopiesRanked, StagesRanked,
     CompoundRanked, LoopsRanked, SimplesRanked, FunctionsRanked DEF Execute
<1>3. CASE RunProgram \/ replace_with
  BY <1>1, <1>3, SimplesRanked
<1>4. CASE TakePending \/ RunTrap \/ TrapDone
  BY <1>1, <1>4, ListsRanked, TrapsRanked
<1>5. CASE FinishLine \/ FinishShell \/ EndShell \/ StartLine \/ RejectLine \/ EndOfInput
         \/ InputFails
  BY <1>1, <1>5, ReadRunRanked
<1>6. CASE CtrlC \/ SignalArrives \/ UNCHANGED vars
  <2>1. UNCHANGED stack
    BY <1>6 DEF CtrlC, SignalArrives, vars
  <2> QED
    BY <1>1, <2>1, RStays DEF Kept
<1> QED
  BY <1>2, <1>3, <1>4, <1>5, <1>6 DEF Next, RunningALine, Ended

(* Whatever calls whatever, a shell's calls are stopped by MAX_DEPTH before *)
(* there are more than CallsPerLevel of them for each of its levels: no     *)
(* chain of calls goes round without a list or a function call that counts, *)
(* in a copy of the shell or in a trap either.                              *)
THEOREM StackIsBounded == Spec => []StackBounded
<1>1. Init => Ranked(stack)
  BY DEF Init, Ranked
<1>2. ASSUME IInv, Ranked(stack)
      PROVE  StackBounded
  <2> DEFINE n == Len(stack)
  <2>1. Good /\ n \in Nat /\ stack \in Seq(FrameType) /\ DOMAIN stack = 1..n
    BY <1>2, LenProperties DEF IInv, Good, Nested
  <2>2. /\ Me.depth = Count(stack, Levels, K) /\ Me.depth <= MAX_DEPTH /\ Me.depth \in Nat
        /\ \A i \in 1..n : stack[i].self <= K
    BY <2>1, MeType, ShellCounters DEF Good, Nested, Counts, Chain, Me, K, Levels
  <2>3. LevelsTo(stack, n) = Me.depth
    <3>1. CallsIn(stack, Levels, K) = {j \in 1..n : stack[j].fn \in Levels}
      BY <2>1, <2>2 DEF CallsIn
    <3> QED
      BY <2>2, <3>1 DEF LevelsTo, Count
  <2>4. RankAt(stack, n) \in 0..10
    BY RankBounds DEF RankAt
  <2>5. n > 0 => n + 8 <= CallsPerLevel * Me.depth + RankAt(stack, n)
    <3>1. n > 0 => n \in 1..n
      BY <2>1
    <3> QED
      BY <1>2, <2>3, <3>1 DEF Ranked
  <2>6. n <= CallsPerLevel * Me.depth + 2
    BY <2>1, <2>2, <2>4, <2>5 DEF CallsPerLevel
  <2> QED
    BY <2>2, <2>6 DEF StackBounded
<1>3. Spec => []Ranked(stack)
  <2>1. IInv /\ Ranked(stack) /\ [Next]_vars => Ranked(stack)'
    BY NextRanked
  <2> QED
    BY <1>1, <2>1, InvariantHolds, PTL DEF Spec
<1> QED
  BY <1>2, <1>3, InvariantHolds, PTL

=============================================================================
