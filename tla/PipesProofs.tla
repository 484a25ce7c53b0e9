----------------------------- MODULE PipesProofs -----------------------------
(***************************************************************************)
(* Proofs about Pipes, for every number of stages, every capacity and      *)
(* every pipeline: the types, that a stage is cut off only by a neighbour  *)
(* that has ended, and that a `$(...)' has all of its output.              *)
(*                                                                         *)
(* The invariant is a ledger of the ends: what each holder has, by where   *)
(* the stage it belongs to and the maker of the pipeline are.              *)
(***************************************************************************)
EXTENDS Pipes, TLAPS

(* Where a stage reads, if from a pipe of the pipeline.                     *)
In(i) == IF i = 1 THEN {} ELSE {<<"r", i - 1>>}

HasTable == {"made", "thread", "forked", "program"}

Making ==
  /\ maker \in {"start", "list"} => made = 0 /\ \A i \in Stages : pc[i] = "none"
  /\ maker = "pipes" => \A i \in Stages : pc[i] = IF i <= made THEN "made" ELSE "none"
  /\ maker = "threads" => \A i \in Stages : pc[i] # "none" /\ (i > made => pc[i] = "made")
  /\ maker = "finish" => \A i \in Stages : pc[i] = "over"
  /\ maker \in {"join_drain", "done"} => \A i \in Stages : pc[i] \in {"none", "over"}
  /\ maker = "join_drain" => subst

StageHolds(i) ==
  /\ pc[i] \in HasTable => In(i) \cup Out(i) \subseteq held[Table(i)]
  /\ pc[i] \in {"none", "dropped", "over"} => held[Table(i)] = {}
  /\ pc[i] \notin {"forked", "program"} => held[Program(i)] = {}
  /\ pc[i] \in {"none", "made", "over"} => held[Changes(i)] = {}

MakerHolds ==
  /\ held[Previous] = IF maker = "pipes" /\ 0 < made /\ made < N THEN {<<"r", made>>} ELSE {}
  /\ subst /\ maker \in {"list", "pipes", "threads", "finish"}
       => <<"w", N>> \in held[Table(0)] /\ held[Drain] = {<<"r", N>>}
  /\ held[Drain] \in {{}, {<<"r", N>>}}
  /\ maker \in {"start", "join_drain", "done"} => held[Table(0)] = {}
  /\ ~subst \/ maker \in {"start", "done"} =>
       held[Table(0)] = {} /\ held[Changes(0)] = {} /\ held[Drain] = {}

(* What the last stage prints is read to the end before the reader goes.    *)
Drained ==
  /\ maker \in {"start", "join_drain", "done"} /\ held[Drain] = {} => buf[N] = 0
  /\ ~subst => buf[N] = 0

IInv ==
  /\ TypeOK
  /\ \A i \in Stages : kind[i] \in {"head", "filter"} => left[i] \in {0, 1}
  /\ Making
  /\ \A i \in Stages : StageHolds(i)
  /\ MakerHolds
  /\ Drained

-----------------------------------------------------------------------------
LEMMA StageNumbers ==
  /\ N \in Nat /\ N > 1 /\ Stages \subseteq Nat
  /\ 1 \in Stages /\ N \in Stages
  /\ \A i \in Stages : 1 <= i /\ i <= N /\ i \in 0 .. N
  /\ \A i \in Stages : i > 1 => i - 1 \in Stages
  /\ \A i \in Stages : i < N => i + 1 \in Stages
BY PipesAssumption DEF Stages

(* The holders differ.                                                      *)
LEMMA HolderNames ==
  /\ Previous \in Holders /\ Drain \in Holders /\ Previous # Drain
  /\ \A i \in 0 .. N : Table(i) \in Holders /\ Changes(i) \in Holders
  /\ \A i \in Stages : Program(i) \in Holders
  /\ \A i \in 0 .. N : /\ Table(i) # Previous /\ Changes(i) # Previous /\ Program(i) # Previous
                       /\ Table(i) # Drain /\ Changes(i) # Drain /\ Program(i) # Drain
  /\ \A i, j \in 0 .. N : Table(i) # Changes(j) /\ Table(i) # Program(j) /\ Changes(i) # Program(j)
  /\ \A i, j \in 0 .. N : i # j => /\ Table(i) # Table(j) /\ Changes(i) # Changes(j)
                                 /\ Program(i) # Program(j)
BY DEF Holders, Previous, Drain, Table, Changes, Program

LEMMA MakerNames ==
  /\ Previous \in Holders /\ Drain \in Holders /\ Table(0) \in Holders /\ Changes(0) \in Holders
  /\ Previous # Drain /\ Previous # Table(0) /\ Previous # Changes(0)
  /\ Drain # Table(0) /\ Drain # Changes(0) /\ Table(0) # Changes(0)
  /\ \A i \in Stages : /\ {Table(i), Program(i), Changes(i)} \subseteq Holders
                       /\ Table(i) # Program(i) /\ Table(i) # Changes(i) /\ Program(i) # Changes(i)
                       /\ \A h \in {Table(i), Program(i), Changes(i)} :
                            h # Previous /\ h # Drain /\ h # Table(0) /\ h # Changes(0)
<1>1. 0 \in 0 .. N /\ \A i \in Stages : i \in 0 .. N /\ i # 0
  BY StageNumbers
<1> QED
  BY <1>1, HolderNames

LEMMA EndNames ==
  /\ \A i \in Stages : <<"r", i>> \in Ends /\ <<"w", i>> \in Ends
  /\ \A i, j : <<"r", i>> # <<"w", j>>
  /\ \A i \in Stages : In(i) \subseteq Ends /\ Out(i) \subseteq Ends
BY StageNumbers DEF Ends, In, Out

LEMMA Dropping ==
  ASSUME held \in [Holders -> SUBSET Ends], NEW hs
  PROVE  /\ Drop(hs) \in [Holders -> SUBSET Ends]
         /\ \A h \in Holders : h \in hs => Drop(hs)[h] = {}
         /\ \A h \in Holders : h \notin hs => Drop(hs)[h] = held[h]
BY DEF Drop

LEMMA InitIInv == Init => IInv
<1> SUFFICES ASSUME Init PROVE IInv
  OBVIOUS
<1>1. TypeOK
  BY PipesAssumption, StageNumbers DEF Init, TypeOK, Kinds
<1>2. \A i \in Stages : kind[i] \in {"head", "filter"} => left[i] \in {0, 1}
  BY DEF Init
<1>3. Making
  BY DEF Init, Making
<1>4. ASSUME NEW i \in Stages PROVE StageHolds(i)
  BY <1>4, HolderNames, StageNumbers DEF Init, StageHolds, HasTable
<1>5. MakerHolds /\ Drained
  BY HolderNames, StageNumbers DEF Init, MakerHolds, Drained
<1> QED
  BY <1>1, <1>2, <1>3, <1>4, <1>5 DEF IInv

-----------------------------------------------------------------------------
(* The steps of a stage: they change where it is and what it holds, which   *)
(* leaves the ledger of everybody else as it was.                           *)
Begun == {"thread", "forked", "program", "ending", "dropped"}

OnlyStage(i) ==
  /\ pc[i] \in Begun
  /\ pc' \in [Stages -> {"none", "made", "thread", "forked", "program", "ending",
                         "dropped", "over"}]
  /\ pc'[i] \in Begun \cup {"over"}
  /\ \A j \in Stages : j # i => pc'[j] = pc[j]
  /\ held' \in [Holders -> SUBSET Ends]
  /\ \A h \in Holders : h \notin {Table(i), Program(i), Changes(i)} => held'[h] = held[h]
  /\ UNCHANGED <<subst, kind, maker, made>>

LEMMA BegunByThreads ==
  ASSUME IInv, NEW i \in Stages, pc[i] \in Begun
  PROVE  maker = "threads"
BY DEF IInv, TypeOK, Making, Begun

LEMMA OnlyStageKeeps ==
  ASSUME IInv, NEW i \in Stages, OnlyStage(i)
  PROVE  /\ Making' /\ MakerHolds' /\ (buf' = buf => Drained')
         /\ \A j \in Stages : j # i => StageHolds(j)'
<1>1. maker = "threads" /\ maker' = "threads" /\ made' = made
  BY BegunByThreads DEF OnlyStage
<1>2. i <= made
  BY <1>1, StageNumbers DEF IInv, TypeOK, Making, OnlyStage, Begun
<1>3. Making'
  BY <1>1, <1>2, StageNumbers DEF IInv, TypeOK, Making, OnlyStage, Begun
<1>4. \A h \in {Previous, Drain, Table(0), Changes(0)} : held'[h] = held[h]
  BY MakerNames DEF OnlyStage
<1>5. MakerHolds'
  BY <1>1, <1>4 DEF IInv, MakerHolds, OnlyStage
<1>6. ASSUME buf' = buf PROVE Drained'
  BY <1>1, <1>6 DEF IInv, Drained, OnlyStage
<1>7. ASSUME NEW j \in Stages, j # i PROVE StageHolds(j)'
  <2>1. \A h \in {Table(j), Program(j), Changes(j)} : held'[h] = held[h]
    BY <1>7, HolderNames, StageNumbers DEF OnlyStage
  <2> QED
    BY <2>1, <1>7 DEF IInv, StageHolds, OnlyStage, In, Out
<1> QED
  BY <1>3, <1>5, <1>6, <1>7

LEMMA WritesAndReadsKeep ==
  ASSUME IInv, NEW i \in Stages,
         WriteToPipe(i) \/ WriteElsewhere(i) \/ ReadFromPipe(i)
  PROVE  IInv'
<1>1. maker = "threads" /\ pc[i] \in Begun
  BY BegunByThreads DEF Begun, Working, WriteToPipe, WriteElsewhere, ReadFromPipe
<1>2. UNCHANGED <<subst, kind, pc, maker, made, held>>
  BY DEF WriteToPipe, WriteElsewhere, ReadFromPipe
<1>3. buf' \in [Stages -> 0 .. Capacity]
  BY StageNumbers, PipesAssumption DEF WriteToPipe, WriteElsewhere, ReadFromPipe, IInv, TypeOK
<1>4. left' \in [Stages -> Nat]
  BY DEF WriteToPipe, WriteElsewhere, ReadFromPipe, IInv, TypeOK, Puts, Gets, Written
<1>5. \A j \in Stages : kind[j] \in {"head", "filter"} => left'[j] \in {0, 1}
  BY DEF WriteToPipe, WriteElsewhere, ReadFromPipe, IInv, TypeOK, Puts, Gets, Written
<1>6. TypeOK'
  BY <1>2, <1>3, <1>4 DEF IInv, TypeOK
<1>7. Making' /\ MakerHolds' /\ \A j \in Stages : StageHolds(j)'
  BY <1>1, <1>2 DEF IInv, Making, MakerHolds, StageHolds, In, Out
<1>8. Drained'
  <2>1. ~subst => buf'[N] = buf[N]
    BY StageNumbers DEF WriteToPipe, WriteElsewhere, ReadFromPipe, IInv, TypeOK, Out
  <2> QED
    BY <1>1, <1>2, <2>1 DEF IInv, Drained
<1> QED
  BY <1>2, <1>5, <1>6, <1>7, <1>8 DEF IInv

LEMMA StageMovesKeep ==
  ASSUME IInv, NEW i \in Stages,
         OnlyStage(i), UNCHANGED <<left, buf>>, StageHolds(i)'
  PROVE  IInv'
<1>1. TypeOK'
  BY DEF OnlyStage, IInv, TypeOK
<1> QED
  BY <1>1, OnlyStageKeeps DEF IInv, OnlyStage

LEMMA CommandOverKeeps ==
  ASSUME IInv, NEW i \in Stages, pc[i] \in HasTable \ {"made"}, CommandOver(i)
  PROVE  IInv'
<1>1. OnlyStage(i)
  BY Dropping, HolderNames DEF IInv, TypeOK, CommandOver, OnlyStage, HasTable, Begun
<1>2. held'[Program(i)] = {} /\ pc'[i] = "ending"
  BY Dropping, HolderNames DEF IInv, TypeOK, CommandOver
<1>3. StageHolds(i)'
  BY <1>2 DEF StageHolds, HasTable
<1> QED
  BY <1>1, <1>3, StageMovesKeep DEF CommandOver

LEMMA WorksKeeps ==
  ASSUME IInv, NEW i \in Stages, Works(i)
  PROVE  IInv'
<1>1. CASE WriteToPipe(i) \/ WriteElsewhere(i) \/ ReadFromPipe(i)
  BY <1>1, WritesAndReadsKeep
<1>2. CASE WriteBroken(i) \/ ReadEnd(i) \/ Finishes(i) \/ ExecFails(i)
  BY <1>2, CommandOverKeeps DEF WriteBroken, ReadEnd, Finishes, ExecFails, Working, HasTable
<1>3. CASE Execs(i)
  <2>1. OnlyStage(i)
    BY <1>3, HolderNames, StageNumbers DEF Execs, OnlyStage, IInv, TypeOK, Begun
  <2>2. held'[Table(i)] = held[Table(i)] /\ pc'[i] = "program" /\ pc[i] = "forked"
    BY <1>3, HolderNames, StageNumbers DEF Execs, IInv, TypeOK
  <2>3. StageHolds(i)'
    BY <2>1, <2>2 DEF IInv, StageHolds, HasTable, In, Out, OnlyStage
  <2> QED
    BY <1>3, <2>1, <2>3, StageMovesKeep DEF Execs
<1>4. CASE DropStageTable(i)
  <2>1. OnlyStage(i)
    BY <1>4, Dropping, HolderNames, StageNumbers DEF DropStageTable, OnlyStage, IInv, TypeOK, Begun
  <2>2. /\ held'[Table(i)] = {} /\ held'[Program(i)] = held[Program(i)]
        /\ pc'[i] = "dropped" /\ pc[i] = "ending"
    BY <1>4, Dropping, HolderNames, StageNumbers DEF DropStageTable, IInv, TypeOK
  <2>3. StageHolds(i)'
    BY <2>2 DEF IInv, StageHolds, HasTable
  <2> QED
    BY <1>4, <2>1, <2>3, StageMovesKeep DEF DropStageTable
<1>5. CASE DropStage(i)
  <2>1. OnlyStage(i)
    BY <1>5, Dropping, HolderNames, StageNumbers DEF DropStage, OnlyStage, IInv, TypeOK, Begun
  <2>2. /\ held'[Table(i)] = held[Table(i)] /\ held'[Program(i)] = held[Program(i)]
        /\ held'[Changes(i)] = {} /\ pc'[i] = "over" /\ pc[i] = "dropped"
    BY <1>5, Dropping, HolderNames, StageNumbers DEF DropStage, IInv, TypeOK
  <2>3. StageHolds(i)'
    BY <2>2 DEF IInv, StageHolds, HasTable
  <2> QED
    BY <1>5, <2>1, <2>3, StageMovesKeep DEF DropStage
<1> QED
  BY <1>1, <1>2, <1>3, <1>4, <1>5 DEF Works

LEMMA ForksKeeps ==
  ASSUME IInv, NEW i \in Stages, Forks(i) \/ DupInStage(i)
  PROVE  IInv'
<1>1. CASE Forks(i)
  <2>1. OnlyStage(i)
    BY <1>1, HolderNames, StageNumbers DEF Forks, OnlyStage, IInv, TypeOK, Begun
  <2>2. held'[Table(i)] = held[Table(i)] /\ pc'[i] = "forked" /\ pc[i] = "thread"
    BY <1>1, HolderNames, StageNumbers DEF Forks, IInv, TypeOK
  <2>3. StageHolds(i)'
    BY <2>1, <2>2 DEF IInv, StageHolds, HasTable, In, Out, OnlyStage
  <2> QED
    BY <1>1, <2>1, <2>3, StageMovesKeep DEF Forks
<1>2. CASE DupInStage(i)
  <2>1. OnlyStage(i)
    BY <1>2, HolderNames, StageNumbers DEF DupInStage, OnlyStage, IInv, TypeOK, Begun
  <2>2. /\ held'[Table(i)] = held[Table(i)] /\ held'[Program(i)] = held[Program(i)]
        /\ pc'[i] = "thread" /\ pc[i] = "thread"
    BY <1>2, HolderNames, StageNumbers DEF DupInStage, IInv, TypeOK
  <2>3. StageHolds(i)'
    BY <2>1, <2>2 DEF IInv, StageHolds, HasTable, In, Out, OnlyStage
  <2> QED
    BY <1>2, <2>1, <2>3, StageMovesKeep DEF DupInStage
<1> QED
  BY <1>1, <1>2

-----------------------------------------------------------------------------
(* The steps of the maker.                                                  *)
LEMMA TypeOKFrom ==
  ASSUME IInv, UNCHANGED <<subst, kind, left>>,
         pc' \in [Stages -> {"none", "made", "thread", "forked", "program", "ending",
                             "dropped", "over"}],
         maker' \in {"start", "list", "pipes", "threads", "finish", "join_drain", "done"},
         made' \in 0 .. N, held' \in [Holders -> SUBSET Ends],
         buf' \in [Stages -> 0 .. Capacity]
  PROVE  TypeOK' /\ \A i \in Stages : kind'[i] \in {"head", "filter"} => left'[i] \in {0, 1}
BY DEF IInv, TypeOK

(* A step that leaves alone what the stages hold and where they are.        *)
LEMMA StagesAlone ==
  ASSUME IInv, UNCHANGED <<subst, pc>>,
         \A i \in Stages : /\ held'[Table(i)] = held[Table(i)]
                          /\ held'[Program(i)] = held[Program(i)]
                          /\ held'[Changes(i)] = held[Changes(i)]
  PROVE  \A i \in Stages : StageHolds(i)'
BY DEF IInv, StageHolds, In, Out

LEMMA ListKeeps ==
  ASSUME IInv,
         \/ Substitute \/ SubstituteFails \/ NoSubstitution \/ DupInList \/ RunPipeline
         \/ TablesMade \/ JoinStages
  PROVE  IInv'
<1>2. /\ held' \in [Holders -> SUBSET Ends]
      /\ \A h \in Holders : h \notin {Drain, Table(0), Changes(0)} => held'[h] = held[h]
  <2>1. CASE Substitute
    BY <2>1, MakerNames, EndNames, StageNumbers DEF Substitute, IInv, TypeOK
  <2>2. CASE DupInList
    BY <2>2, MakerNames, EndNames, StageNumbers DEF DupInList, IInv, TypeOK
  <2>3. CASE UNCHANGED held
    BY <2>3 DEF IInv, TypeOK
  <2> QED
    BY <2>1, <2>2, <2>3
       DEF SubstituteFails, NoSubstitution, RunPipeline, TablesMade, JoinStages
<1>3. TypeOK' /\ \A i \in Stages : kind'[i] \in {"head", "filter"} => left'[i] \in {0, 1}
  BY <1>2, TypeOKFrom, StageNumbers
     DEF Substitute, SubstituteFails, NoSubstitution, DupInList, RunPipeline, TablesMade, JoinStages,
         IInv, TypeOK
<1>4. \A i \in Stages : StageHolds(i)'
  <2>1. UNCHANGED <<subst, pc>>
    BY DEF Substitute, SubstituteFails, NoSubstitution, DupInList, RunPipeline, TablesMade, JoinStages
  <2> QED
    BY <1>2, <2>1, MakerNames, StagesAlone
<1>5. Making'
  BY StageNumbers
     DEF Substitute, SubstituteFails, NoSubstitution, DupInList, RunPipeline, TablesMade,
         JoinStages, IInv, TypeOK, Making
<1>6. MakerHolds' /\ Drained'
  <2>0. held \in [Holders -> SUBSET Ends]
    BY DEF IInv, TypeOK
  <2>1. CASE Substitute
    BY <2>0, <2>1, MakerNames DEF Substitute, IInv, MakerHolds, Drained
  <2>2. CASE SubstituteFails \/ NoSubstitution \/ RunPipeline
    <3>1. MakerHolds'
      BY <2>2, StageNumbers DEF SubstituteFails, NoSubstitution, RunPipeline, IInv, Making, MakerHolds
    <3>2. Drained'
      BY <2>2 DEF SubstituteFails, NoSubstitution, RunPipeline, IInv, Drained
    <3> QED
      BY <3>1, <3>2
  <2>3. CASE DupInList
    <3>1. \A h \in {Previous, Drain, Table(0)} : held'[h] = held[h]
      BY <2>0, <2>3, MakerNames DEF DupInList
    <3> QED
      BY <3>1, <2>3, StageNumbers DEF DupInList, IInv, Making, MakerHolds, Drained
  <2>4. CASE TablesMade \/ JoinStages
    BY <2>0, <2>4, StageNumbers DEF TablesMade, JoinStages, IInv, MakerHolds, Drained
  <2> QED
    BY <2>1, <2>2, <2>3, <2>4
<1> QED
  BY <1>3, <1>4, <1>5, <1>6 DEF IInv

LEMMA DropTableKeeps ==
  ASSUME IInv, DropTable \/ Return
  PROVE  IInv'
<1>0. held \in [Holders -> SUBSET Ends]
  BY DEF IInv, TypeOK
<1>1. held' \in [Holders -> SUBSET Ends]
  BY <1>0, Dropping DEF DropTable, Return
<1>2. UNCHANGED <<subst, kind, left, pc, made, buf>>
  BY DEF DropTable, Return
<1>3. TypeOK' /\ \A i \in Stages : kind'[i] \in {"head", "filter"} => left'[i] \in {0, 1}
  BY <1>1, <1>2, TypeOKFrom DEF DropTable, Return, IInv, TypeOK
<1>4. \A i \in Stages : StageHolds(i)'
  <2>1. \A i \in Stages : /\ held'[Table(i)] = held[Table(i)]
                          /\ held'[Program(i)] = held[Program(i)]
                          /\ held'[Changes(i)] = held[Changes(i)]
    BY <1>0, MakerNames, Dropping DEF DropTable, Return
  <2> QED
    BY <2>1, <1>2, StagesAlone
<1>5. Making'
  BY <1>2 DEF DropTable, Return, IInv, Making, TypeOK
<1>6. CASE DropTable
  <2>1. /\ held'[Table(0)] = {}
        /\ \A h \in {Previous, Drain, Changes(0)} : held'[h] = held[h]
    BY <1>0, <1>6, MakerNames, Dropping DEF DropTable
  <2>2. maker = "finish" /\ maker' = IF subst THEN "join_drain" ELSE "done"
    BY <1>6 DEF DropTable
  <2>3. MakerHolds'
    BY <2>1, <2>2, <1>2 DEF IInv, MakerHolds
  <2>4. Drained'
    BY <2>1, <2>2, <1>2 DEF IInv, MakerHolds, Drained
  <2> QED
    BY <1>3, <1>4, <1>5, <2>3, <2>4 DEF IInv
<1>7. CASE Return
  <2>1. /\ held'[Changes(0)] = {} /\ held[Drain] = {}
        /\ \A h \in {Previous, Drain, Table(0)} : held'[h] = held[h]
    BY <1>0, <1>7, MakerNames, Dropping DEF Return
  <2>2. MakerHolds' /\ Drained'
    BY <2>1, <1>2, <1>7, EndNames, StageNumbers DEF Return, IInv, TypeOK, Making, MakerHolds, Drained
  <2> QED
    BY <1>3, <1>4, <1>5, <2>2 DEF IInv
<1> QED
  BY <1>6, <1>7

LEMMA MakeTableKeeps ==
  ASSUME IInv, MakeTable
  PROVE  IInv'
<1>0. PICK i \in Stages : i = made + 1
  <2>1. made + 1 \in Stages
    BY StageNumbers DEF MakeTable, IInv, TypeOK, Stages
  <2> QED
    BY <2>1
<1>1. /\ i > 0 /\ made \in Nat /\ i \in 0 .. N
      /\ maker = "pipes" /\ maker' = "pipes" /\ made' = i
      /\ UNCHANGED <<subst, kind, left, buf>>
  BY <1>0, StageNumbers DEF MakeTable, IInv, TypeOK, Stages
<1>2. /\ held \in [Holders -> SUBSET Ends]
      /\ pc' = [pc EXCEPT ![i] = "made"]
      /\ held' = [held EXCEPT ![Table(i)] = held[Previous] \cup Out(i) \cup held[Changes(0)],
                              ![Previous] = IF i < N THEN {<<"r", i>>} ELSE {}]
  BY <1>0 DEF MakeTable, IInv, TypeOK
<1>3. /\ held' \in [Holders -> SUBSET Ends]
      /\ held'[Table(i)] = held[Previous] \cup Out(i) \cup held[Changes(0)]
      /\ held'[Previous] = IF i < N THEN {<<"r", i>>} ELSE {}
      /\ \A h \in Holders : h # Table(i) /\ h # Previous => held'[h] = held[h]
  BY <1>1, <1>2, MakerNames, EndNames
<1>4. pc' \in [Stages -> {"none", "made", "thread", "forked", "program", "ending",
                          "dropped", "over"}]
  BY <1>2, <1>1 DEF IInv, TypeOK
<1>5. TypeOK' /\ \A j \in Stages : kind'[j] \in {"head", "filter"} => left'[j] \in {0, 1}
  BY <1>1, <1>3, <1>4, TypeOKFrom DEF IInv, TypeOK
<1>6. Making'
  <2>1. \A j \in Stages : pc'[j] = IF j <= made' THEN "made" ELSE "none"
    BY <1>0, <1>1, <1>2, StageNumbers DEF IInv, TypeOK, Making
  <2> QED
    BY <1>1, <2>1 DEF Making
<1>7. StageHolds(i)'
  <2>1. pc[i] = "none" /\ pc'[i] = "made"
    BY <1>0, <1>1, <1>2, StageNumbers DEF IInv, TypeOK, Making
  <2>2. In(i) = held[Previous]
    BY <1>0, <1>1, StageNumbers DEF IInv, MakerHolds, In
  <2>3. held'[Program(i)] = {} /\ held'[Changes(i)] = {}
    BY <1>1, <1>3, <2>1, MakerNames DEF IInv, StageHolds
  <2> QED
    BY <1>1, <1>3, <2>1, <2>2, <2>3 DEF StageHolds, HasTable, In, Out
<1>8. ASSUME NEW j \in Stages, j # i PROVE StageHolds(j)'
  <2>1. j \in 0 .. N /\ pc'[j] = pc[j]
    BY <1>8, <1>2, StageNumbers DEF IInv, TypeOK
  <2>2. /\ held'[Table(j)] = held[Table(j)] /\ held'[Program(j)] = held[Program(j)]
        /\ held'[Changes(j)] = held[Changes(j)]
    BY <1>1, <1>3, <1>8, <2>1, HolderNames
  <2> QED
    BY <1>1, <2>1, <2>2 DEF IInv, StageHolds, In, Out
<1>9. MakerHolds' /\ Drained'
  <2>1. \A h \in {Drain, Table(0), Changes(0)} : held'[h] = held[h]
    BY <1>1, <1>3, MakerNames
  <2> QED
    BY <1>1, <1>3, <2>1 DEF IInv, MakerHolds, Drained
<1> QED
  BY <1>1, <1>5, <1>6, <1>7, <1>8, <1>9 DEF IInv

LEMMA PipeFailsKeeps ==
  ASSUME IInv, PipeFails
  PROVE  IInv'
<1>1. /\ held \in [Holders -> SUBSET Ends]
      /\ held' = Drop({Previous} \cup {Table(i) : i \in Stages})
      /\ pc' = [i \in Stages |-> "over"]
      /\ maker = "pipes" /\ maker' = "finish"
      /\ UNCHANGED <<subst, kind, left, made, buf>>
  BY DEF PipeFails, IInv, TypeOK
<1>2. held' \in [Holders -> SUBSET Ends]
  BY <1>1, Dropping
<1>3. TypeOK' /\ \A j \in Stages : kind'[j] \in {"head", "filter"} => left'[j] \in {0, 1}
  BY <1>1, <1>2, TypeOKFrom DEF IInv, TypeOK
<1>4. Making'
  BY <1>1 DEF Making
<1>5. ASSUME NEW j \in Stages PROVE StageHolds(j)'
  <2>1. pc[j] \in {"made", "none"}
    BY <1>1 DEF IInv, Making
  <2>2. held[Program(j)] = {} /\ held[Changes(j)] = {}
    BY <2>1 DEF IInv, StageHolds
  <2>3. Table(j) \in Holders /\ Program(j) \in Holders /\ Changes(j) \in Holders
    BY MakerNames
  <2>4. held'[Table(j)] = {}
    BY <1>1, <2>3, Dropping
  <2>5. held'[Program(j)] = {} /\ held'[Changes(j)] = {}
    BY <1>1, <2>2, <2>3, Dropping
  <2>6. pc'[j] = "over"
    BY <1>1
  <2> QED
    BY <2>4, <2>5, <2>6 DEF StageHolds, HasTable
<1>6. MakerHolds' /\ Drained'
  <2>1. held'[Previous] = {}
    BY <1>1, MakerNames, Dropping
  <2>2. \A h \in {Drain, Table(0), Changes(0)} : held'[h] = held[h]
    BY <1>1, MakerNames, Dropping
  <2> QED
    BY <1>1, <2>1, <2>2 DEF IInv, MakerHolds, Drained
<1> QED
  BY <1>1, <1>3, <1>4, <1>5, <1>6 DEF IInv

LEMMA StartKeeps ==
  ASSUME IInv, StartStage \/ StageNotStarted
  PROVE  IInv'
<1>0. PICK i \in Stages : i = made + 1
  <2>1. made + 1 \in Stages
    BY StageNumbers DEF StartStage, StageNotStarted, IInv, TypeOK, Stages
  <2> QED
    BY <2>1
<1>1. /\ made \in Nat /\ i \in 0 .. N
      /\ maker = "threads" /\ maker' = "threads" /\ made' = i
      /\ UNCHANGED <<subst, kind, left, buf>>
      /\ pc' = [pc EXCEPT ![i] = "thread"] \/ pc' = [pc EXCEPT ![i] = "over"]
      /\ held \in [Holders -> SUBSET Ends]
  BY <1>0, StageNumbers DEF StartStage, StageNotStarted, IInv, TypeOK, Stages
<1>2. \/ /\ pc' = [pc EXCEPT ![i] = "thread"] /\ pc'[i] = "thread"
         /\ held' = held
      \/ /\ pc' = [pc EXCEPT ![i] = "over"] /\ pc'[i] = "over"
         /\ held' = Drop({Table(i)})
  BY <1>0 DEF StartStage, StageNotStarted, IInv, TypeOK
<1>3. held' \in [Holders -> SUBSET Ends]
  BY <1>1, <1>2, Dropping
<1>4. \A h \in Holders : h # Table(i) => held'[h] = held[h]
  BY <1>1, <1>2, Dropping
<1>5. pc[i] = "made" /\ \A j \in Stages : j > i => pc[j] = "made"
  BY <1>0, <1>1, StageNumbers DEF IInv, Making
<1>6. \/ pc'[i] = "thread" /\ held' = held
      \/ pc'[i] = "over" /\ held'[Table(i)] = {}
  <2>1. Table(i) \in Holders /\ Table(i) \in {Table(i)}
    BY MakerNames
  <2>2. held' = Drop({Table(i)}) => held'[Table(i)] = {}
    BY <1>1, <2>1, Dropping
  <2> QED
    BY <1>2, <2>2
<1>7. TypeOK' /\ \A j \in Stages : kind'[j] \in {"head", "filter"} => left'[j] \in {0, 1}
  <2>1. pc' \in [Stages -> {"none", "made", "thread", "forked", "program", "ending",
                            "dropped", "over"}]
    BY <1>1, <1>2 DEF IInv, TypeOK
  <2> QED
    BY <1>1, <1>3, <2>1, TypeOKFrom DEF IInv, TypeOK
<1>8. Making'
  BY <1>1, <1>2, <1>5, StageNumbers DEF IInv, TypeOK, Making
<1>9. ASSUME NEW j \in Stages, j # i PROVE StageHolds(j)'
  <2>1. j \in 0 .. N /\ pc'[j] = pc[j]
    BY <1>9, <1>1, StageNumbers DEF IInv, TypeOK
  <2>2. /\ held'[Table(j)] = held[Table(j)] /\ held'[Program(j)] = held[Program(j)]
        /\ held'[Changes(j)] = held[Changes(j)]
    BY <1>1, <1>4, <1>9, <2>1, HolderNames
  <2> QED
    BY <1>1, <2>1, <2>2 DEF IInv, StageHolds, In, Out
<1>10. StageHolds(i)'
  <2>1. held[Program(i)] = {} /\ held[Changes(i)] = {} /\ In(i) \cup Out(i) \subseteq held[Table(i)]
    BY <1>1, <1>5 DEF IInv, StageHolds, HasTable
  <2>2. held'[Program(i)] = {} /\ held'[Changes(i)] = {}
    BY <1>1, <1>4, <2>1, MakerNames
  <2> QED
    BY <1>1, <1>6, <2>1, <2>2 DEF StageHolds, HasTable, In, Out
<1>11. MakerHolds' /\ Drained'
  <2>1. \A h \in {Previous, Drain, Table(0), Changes(0)} : held'[h] = held[h]
    BY <1>1, <1>4, MakerNames
  <2> QED
    BY <1>1, <2>1 DEF IInv, MakerHolds, Drained
<1> QED
  BY <1>1, <1>7, <1>8, <1>9, <1>10, <1>11 DEF IInv

LEMMA ReaderKeeps ==
  ASSUME IInv, Reader
  PROVE  IInv'
<1>0. held \in [Holders -> SUBSET Ends] /\ UNCHANGED <<subst, kind, left, pc, maker, made>>
  BY DEF Reader, DrainReads, DrainEnds, IInv, TypeOK
<1>1. <<"r", N>> \in held[Drain]
  BY DEF Reader, DrainReads, DrainEnds
<1>2. subst
  BY <1>1 DEF IInv, MakerHolds
<1>3. CASE DrainReads
  <2>1. buf' \in [Stages -> 0 .. Capacity] /\ UNCHANGED held
    BY <1>3, StageNumbers, PipesAssumption DEF DrainReads, IInv, TypeOK
  <2>2. TypeOK' /\ \A i \in Stages : kind'[i] \in {"head", "filter"} => left'[i] \in {0, 1}
    BY <1>0, <2>1, TypeOKFrom DEF IInv, TypeOK
  <2>3. Making' /\ MakerHolds' /\ \A j \in Stages : StageHolds(j)'
    BY <1>0, <2>1 DEF IInv, Making, MakerHolds, StageHolds, In, Out
  <2>4. Drained'
    BY <1>0, <1>1, <1>2, <2>1 DEF Drained
  <2> QED
    BY <2>2, <2>3, <2>4 DEF IInv
<1>4. CASE DrainEnds
  <2>1. buf' = buf /\ buf[N] = 0 /\ held' = Drop({Drain})
    BY <1>4 DEF DrainEnds
  <2>2. held' \in [Holders -> SUBSET Ends] /\ \A h \in Holders : h # Drain => held'[h] = held[h]
    BY <1>0, <2>1, Dropping
  <2>3. TypeOK' /\ \A i \in Stages : kind'[i] \in {"head", "filter"} => left'[i] \in {0, 1}
    BY <1>0, <2>1, <2>2, TypeOKFrom DEF IInv, TypeOK
  <2>4. Making' /\ \A j \in Stages : StageHolds(j)'
    BY <1>0, <2>2, MakerNames, StagesAlone DEF IInv, Making
  <2>5. <<"w", N>> \notin held[Table(0)]
    BY <1>4, MakerNames DEF DrainEnds, Open
  <2>6. held'[Drain] = {}
    BY <1>0, <2>1, MakerNames, Dropping
  <2>7. \A h \in {Previous, Table(0), Changes(0)} : held'[h] = held[h]
    BY <2>2, MakerNames
  <2>8. MakerHolds'
    BY <1>0, <1>2, <2>5, <2>6, <2>7 DEF IInv, MakerHolds
  <2>9. Drained'
    BY <1>0, <1>2, <2>1 DEF Drained
  <2> QED
    BY <2>3, <2>4, <2>8, <2>9 DEF IInv
<1> QED
  BY <1>3, <1>4 DEF Reader

LEMMA NextKeeps ==
  ASSUME IInv, [Next]_vars
  PROVE  IInv'
<1>1. CASE Maker
  BY <1>1, ListKeeps, DropTableKeeps, MakeTableKeeps, PipeFailsKeeps, StartKeeps DEF Maker
<1>2. CASE Reader
  BY <1>2, ReaderKeeps
<1>3. ASSUME NEW i \in Stages, Works(i) \/ Forks(i) \/ DupInStage(i) PROVE IInv'
  BY <1>3, WorksKeeps, ForksKeeps
<1>4. CASE UNCHANGED vars
  BY <1>4 DEF vars, IInv, TypeOK, Making, StageHolds, MakerHolds, Drained, In, Out
<1> QED
  BY <1>1, <1>2, <1>3, <1>4 DEF Next, Over

THEOREM InvariantHolds == Spec => []IInv
BY InitIInv, NextKeeps, PTL DEF Spec

-----------------------------------------------------------------------------
(* The ends of a stage that works are in its own table, so an end somebody  *)
(* misses is one whose stage has dropped its table.                         *)
LEMMA WorkingHolds ==
  ASSUME IInv, NEW i \in Stages, Working(i)
  PROVE  /\ maker = "threads"
         /\ \A j \in Stages : Gone(j) \/ In(j) \cup Out(j) \subseteq held[Table(j)]
<1>1. maker = "threads"
  BY BegunByThreads DEF Working, Begun
<1>2. \A j \in Stages : pc[j] # "none"
  BY <1>1 DEF IInv, Making
<1>3. ASSUME NEW j \in Stages PROVE Gone(j) \/ In(j) \cup Out(j) \subseteq held[Table(j)]
  BY <1>2 DEF IInv, TypeOK, StageHolds, HasTable, Gone
<1> QED
  BY <1>1, <1>3

LEMMA CutOffFromIInv == IInv => CutOffByTheEnd
<1> SUFFICES ASSUME IInv, NEW i \in Stages, Working(i)
             PROVE  /\ i > 1 /\ ~Open(<<"w", i - 1>>) => Gone(i - 1)
                    /\ i < N /\ ~Open(<<"r", i>>) => Gone(i + 1)
                    /\ i = N /\ subst => Open(<<"r", N>>)
  BY DEF CutOffByTheEnd
<1>1. ASSUME i > 1, ~Gone(i - 1) PROVE Open(<<"w", i - 1>>)
  <2>1. i - 1 \in Stages /\ i - 1 # N
    BY <1>1, StageNumbers
  <2>2. Out(i - 1) = {<<"w", i - 1>>}
    BY <2>1 DEF Out
  <2>3. <<"w", i - 1>> \in held[Table(i - 1)] /\ Table(i - 1) \in Holders
    BY <1>1, <2>1, <2>2, WorkingHolds, MakerNames
  <2> QED
    BY <2>3 DEF Open
<1>2. ASSUME i < N, ~Gone(i + 1) PROVE Open(<<"r", i>>)
  <2>1. i + 1 \in Stages /\ i + 1 # 1 /\ (i + 1) - 1 = i
    BY <1>2, StageNumbers
  <2>2. In(i + 1) = {<<"r", i>>}
    BY <2>1 DEF In
  <2>3. <<"r", i>> \in held[Table(i + 1)] /\ Table(i + 1) \in Holders
    BY <1>2, <2>1, <2>2, WorkingHolds, MakerNames
  <2> QED
    BY <2>3 DEF Open
<1>3. ASSUME i = N, subst PROVE Open(<<"r", N>>)
  <2>1. held[Drain] = {<<"r", N>>}
    BY <1>3, WorkingHolds DEF IInv, MakerHolds
  <2> QED
    BY <2>1, MakerNames DEF Open
<1> QED
  BY <1>1, <1>2, <1>3

LEMMA OutputFromIInv == IInv => OutputComplete
<1> SUFFICES ASSUME IInv, maker = "done"
             PROVE  (subst => buf[N] = 0) /\ \A e \in Ends : ~Open(e)
  BY DEF OutputComplete
<1>1. /\ held[Previous] = {} /\ held[Drain] = {}
      /\ held[Table(0)] = {} /\ held[Changes(0)] = {}
  BY DEF IInv, MakerHolds
<1>2. \A i \in Stages : pc[i] \in {"none", "over"}
  BY DEF IInv, Making
<1>3. \A i \in Stages : held[Table(i)] = {} /\ held[Program(i)] = {} /\ held[Changes(i)] = {}
  BY <1>2 DEF IInv, StageHolds
<1>4. ASSUME NEW h \in Holders PROVE held[h] = {}
  <2>1. \A i \in 0 .. N : i = 0 \/ i \in Stages
    BY StageNumbers DEF Stages
  <2>2. \/ h = Previous \/ h = Drain
        \/ \E i \in 0 .. N : h = Table(i) \/ h = Changes(i)
        \/ \E i \in Stages : h = Program(i)
    BY DEF Holders, Previous, Drain, Table, Changes, Program
  <2> QED
    BY <1>1, <1>3, <2>1, <2>2
<1>5. buf[N] = 0
  BY <1>1 DEF IInv, Drained
<1> QED
  BY <1>4, <1>5 DEF Open

(* The types, for pipelines of every length and pipes of every size: in     *)
(* particular no pipe ever holds more than its capacity or less than        *)
(* nothing.                                                                 *)
THEOREM TypeCorrect == Spec => []TypeOK
<1>1. IInv => TypeOK
  BY DEF IInv
<1> QED
  BY <1>1, InvariantHolds, PTL

(* While a stage of run_stages works, the pipe it reads has a writer unless *)
(* the stage before it has ended, and the pipe it writes a reader unless    *)
(* the stage after it has: no stage sees an early end of file or EPIPE,     *)
(* whatever other stages fork, exec or duplicate, and whichever fail.       *)
THEOREM CutOffOnlyByTheEnd == Spec => []CutOffByTheEnd
BY InvariantHolds, CutOffFromIInv, PTL

(* When command_substitution returns, its thread has read all the commands  *)
(* printed, and no end of any pipe of the pipeline is left open, after a    *)
(* failed pipe2 and a failed thread too.                                    *)
THEOREM OutputIsComplete == Spec => []OutputComplete
BY InvariantHolds, OutputFromIInv, PTL

=============================================================================
