---------------------------- MODULE SpawnProofs ----------------------------
(***************************************************************************)
(* Proofs about Spawn, for every limit, every table and every set of open  *)
(* descriptors.                                                            *)
(*                                                                         *)
(* Why two passes are enough: the copies of the first pass lie at or above *)
(* the floor and every number the second pass overwrites lies below it, so *)
(* no copy is lost before it is moved; and the first pass only fills free  *)
(* numbers, so no source is lost before it is copied.                      *)
(***************************************************************************)
EXTENDS Spawn, TLAPS

Before == {"none", "copy"}
Placed == {"chdir", "exec", "exec_sh"}

TableOK ==
  /\ DOMAIN io \subseteq Targets
  /\ \A t \in DOMAIN io : io[t] \in Sources
  /\ floor \in Nat
  /\ IsFloor(floor)
  /\ todo \subseteq Pairs
  /\ fds \in [FD -> Int]
  /\ cloexec \subseteq FD

(* A pair that the running pass has come to is copied, or moved.            *)
Copied(t) ==
  /\ scratch[t] \in FD /\ scratch[t] >= floor
  /\ fds[scratch[t]] = io[t]

Moved(t) == t \in FD /\ fds[t] = io[t] /\ t \notin cloexec

Progress ==
  /\ DOMAIN scratch = Pairs
  /\ pc \in Before => \A s \in Sources : fds[s] = s
  /\ pc = "none" => todo = Pairs
  /\ pc = "copy" => \A t \in Pairs \ todo : Copied(t)
  /\ pc = "move" => /\ \A t \in Pairs : Copied(t)
                    /\ \A t \in Pairs \ todo : Moved(t)
  /\ pc \in Placed => \A t \in Pairs : Moved(t)
  /\ FilesInPlace
  /\ spawner \in {"pipe", "fork"} => pc = "none"

IInv == TableOK /\ Progress

LEMMA Numbers ==
  /\ FD \subseteq Nat /\ Sources \subseteq FD /\ Standard \subseteq FD
  /\ Closed \notin FD /\ Closed \in Int
<1>1. Limit \in Nat /\ Limit > 2
  BY LimitAssumption
<1> QED
  BY <1>1, SourcesAssumption DEF FD, Standard, Closed

LEMMA PairNumbers ==
  ASSUME TableOK
  PROVE  /\ Pairs \subseteq Nat
         /\ \A t \in Pairs : io[t] \in Sources /\ t < floor /\ io[t] < floor
BY TargetsAssumption DEF TableOK, Pairs, IsFloor

LEMMA InitIInv == Init => IInv
<1> SUFFICES ASSUME Init PROVE IInv
  OBVIOUS
<1>1. PICK named \in SUBSET Targets : io \in [named -> Sources]
  BY DEF Init
<1>2. TableOK
  <2>1. DOMAIN io \subseteq Targets /\ \A t \in DOMAIN io : io[t] \in Sources
    BY <1>1
  <2>2. floor \in Nat /\ IsFloor(floor) /\ todo \subseteq Pairs
    <3>1. \A t \in Targets : t + 1 \in Nat
      BY TargetsAssumption
    <3>2. 3 .. Limit \subseteq Nat
      BY LimitAssumption
    <3> QED
      BY <3>1, <3>2 DEF Init
  <2>3. fds \in [FD -> Int] /\ cloexec \subseteq FD
    BY Numbers DEF Init
  <2> QED
    BY <2>1, <2>2, <2>3 DEF TableOK
<1>3. Progress
  BY <1>1, Numbers DEF Progress, Init, Before, Placed, FilesInPlace, Open
<1> QED
  BY <1>2, <1>3 DEF IInv

(* The steps of start() leave the plan and the sources alone.               *)
LEMMA ShellKeeps ==
  ASSUME IInv, Shell
  PROVE  IInv'
<1> USE DEF IInv
<1>1. CASE MakePipe
  <2>1. pc = "none" /\ pc' = "none"
    BY <1>1 DEF MakePipe, Progress
  <2>2. PICK r \in FD, w \in FD :
          /\ IsLowestFree(r, 0) /\ IsLowestFree(w, r + 1)
          /\ fds' = [fds EXCEPT ![r] = r, ![w] = w]
          /\ cloexec' = cloexec \cup {r, w}
    BY <1>1 DEF MakePipe
  <2>3. \A s \in Sources : s # r /\ s # w
    BY <2>1, <2>2, Numbers DEF IsLowestFree, Progress, Before
  <2>4. \A s \in Sources : fds'[s] = s
    BY <2>1, <2>2, <2>3, Numbers DEF TableOK, Progress, Before
  <2>5. TableOK'
    BY <1>1, <2>2, Numbers DEF MakePipe, TableOK, Pairs, IsFloor, plan
  <2>6. Progress'
    BY <1>1, <2>1, <2>4 DEF MakePipe, Progress, Before, Placed, FilesInPlace, Pairs, plan
  <2> QED
    BY <2>5, <2>6
<1>2. CASE Fork
  BY <1>2 DEF Fork, TableOK, Progress, Before, Placed, FilesInPlace, Pairs, IsFloor, plan
<1>3. CASE Reap
  BY <1>3 DEF Reap, TableOK, Progress, Before, Placed, FilesInPlace, Pairs, IsFloor, plan
<1>4. CASE ForkFails \/ DropWriteEnd \/ ReadErrno \/ ReadEnd
  <2>1. UNCHANGED <<plan, child>> /\ spawner' \notin {"pipe", "fork"}
    BY <1>4 DEF ForkFails, DropWriteEnd, ReadErrno, ReadEnd
  <2>2. TableOK'
    BY <2>1 DEF TableOK, Pairs, IsFloor, plan, child
  <2>3. Progress'
    BY <2>1 DEF Progress, Before, Placed, FilesInPlace, Copied, Moved, Pairs, plan, child
  <2> QED
    BY <2>2, <2>3
<1> QED
  BY <1>1, <1>2, <1>3, <1>4 DEF Shell

(* The first pass: a copy fills a free number, so it is no source and no    *)
(* earlier copy.                                                            *)
LEMMA CopyKeeps ==
  ASSUME IInv, CopySource
  PROVE  IInv'
<1> USE DEF IInv
<1>1. PICK t \in Pairs, n \in FD :
        /\ IsFirst(t) /\ IsLowestFree(n, floor)
        /\ fds' = [fds EXCEPT ![n] = fds[io[t]]]
        /\ cloexec' = cloexec \cup {n}
        /\ scratch' = [scratch EXCEPT ![t] = n]
        /\ todo' = todo \ {t}
  BY DEF CopySource
<1>2. pc = "copy" /\ UNCHANGED <<io, floor, pc, spawner>> /\ Pairs' = Pairs
  BY DEF CopySource, plan, parent, Pairs
<1>3. /\ io[t] \in Sources /\ io[t] \in FD
      /\ \A s \in Sources : fds[s] = s
  BY <1>2, PairNumbers, Numbers DEF Progress, Before
<1>4. n >= floor /\ fds[n] = Closed /\ n \notin Sources
  BY <1>1, <1>3, Numbers DEF IsLowestFree
<1>5. TableOK'
  BY <1>1, <1>2, <1>3, Numbers DEF TableOK, IsFloor
<1>6. \A s \in Sources : fds'[s] = s
  BY <1>1, <1>3, <1>4, Numbers DEF TableOK
<1>7. \A u \in Pairs \ todo' : Copied(u)'
  <2> TAKE u \in Pairs \ todo'
  <2>1. CASE u = t
    BY <2>1, <1>1, <1>2, <1>3, <1>4 DEF Copied, TableOK, Progress
  <2>2. CASE u # t
    <3>1. Copied(u)
      BY <2>2, <1>1, <1>2 DEF Progress
    <3>2. scratch[u] # n
      BY <3>1, <1>4, PairNumbers, Numbers DEF Copied
    <3> QED
      BY <2>2, <3>1, <3>2, <1>1, <1>2 DEF Copied, TableOK, Progress
  <2> QED
    BY <2>1, <2>2
<1>8. Progress'
  BY <1>1, <1>2, <1>6, <1>7 DEF Progress, Before, Placed, FilesInPlace
<1> QED
  BY <1>5, <1>8

(* The second pass: a target lies below the floor, so it is no copy.        *)
LEMMA MoveKeeps ==
  ASSUME IInv, MoveCopy
  PROVE  IInv'
<1> USE DEF IInv
<1>1. PICK t \in Pairs :
        /\ IsFirst(t)
        /\ fds' = [fds EXCEPT ![t] = fds[scratch[t]]]
        /\ cloexec' = cloexec \ {t}
        /\ todo' = todo \ {t}
  BY DEF MoveCopy
<1>2. pc = "move" /\ UNCHANGED <<io, floor, scratch, pc, spawner>> /\ Pairs' = Pairs
  BY DEF MoveCopy, plan, parent, Pairs
<1>3. \A u \in Pairs : Copied(u) /\ scratch[u] # t
  BY <1>1, <1>2, PairNumbers, Numbers DEF Progress, Copied, TableOK
<1>4. t \in FD
  <2>1. t < floor /\ scratch[t] \in FD /\ scratch[t] >= floor /\ t \in Nat /\ floor \in Nat
    BY <1>1, <1>3, PairNumbers DEF Copied, TableOK
  <2> QED
    BY <2>1, LimitAssumption DEF FD
<1>5. fds[scratch[t]] = io[t] /\ io[t] \in Int
  BY <1>1, <1>3, PairNumbers, Numbers DEF Copied
<1>6. TableOK'
  BY <1>1, <1>2, <1>4, <1>5 DEF TableOK, IsFloor
<1>7. \A u \in Pairs : Copied(u)'
  BY <1>1, <1>2, <1>3 DEF Copied, TableOK
<1>8. \A u \in Pairs \ todo' : Moved(u)'
  <2> TAKE u \in Pairs \ todo'
  <2>1. CASE u = t
    BY <2>1, <1>1, <1>2, <1>4, <1>5 DEF Moved, TableOK
  <2>2. CASE u # t
    <3>1. Moved(u)
      BY <2>2, <1>1, <1>2 DEF Progress
    <3> QED
      BY <2>2, <3>1, <1>1, <1>2 DEF Moved, TableOK
  <2> QED
    BY <2>1, <2>2
<1>9. Progress'
  BY <1>1, <1>2, <1>7, <1>8 DEF Progress, Before, Placed, FilesInPlace
<1> QED
  BY <1>6, <1>9

LEMMA ChildKeeps ==
  ASSUME IInv, Child
  PROVE  IInv'
<1> USE DEF IInv
<1>1. CASE CopySource \/ MoveCopy
  BY <1>1, CopyKeeps, MoveKeeps
<1>2. CASE CopyFails
  BY <1>2 DEF CopyFails, GiveUp, TableOK, Progress, Before, Placed, FilesInPlace, Pairs,
              IsFloor, plan, parent
<1>3. CASE CopiesMade
  <2>1. \A t \in Pairs : Copied(t)
    BY <1>3 DEF CopiesMade, Progress
  <2>2. \A t \in Pairs : Copied(t)'
    BY <2>1, <1>3 DEF CopiesMade, Copied, plan
  <2> QED
    BY <2>2, <1>3 DEF CopiesMade, TableOK, Progress, Before, Placed, FilesInPlace, Pairs,
                      IsFloor, plan, parent
<1>4. CASE CloseRest
  <2>1. \A t \in Pairs : Moved(t) /\ t \notin Closes
    BY <1>4 DEF CloseRest, Progress, Closes, Pairs
  <2>2. \A t \in Pairs : Moved(t)'
    BY <2>1, <1>4 DEF CloseRest, Moved, plan
  <2>3. TableOK'
    BY <1>4, Numbers DEF CloseRest, TableOK, Pairs, IsFloor, plan
  <2>4. Progress'
    BY <2>2, <1>4 DEF CloseRest, Progress, Before, Placed, FilesInPlace, Pairs, plan, parent
  <2> QED
    BY <2>3, <2>4
<1>5. CASE Chdir \/ TrySh \/ ExecFails
  <2>1. /\ UNCHANGED <<io, floor, scratch, todo, fds, cloexec, spawner>>
        /\ pc \in Placed /\ pc' \in Placed \cup {"failing"}
    BY <1>5 DEF Chdir, TrySh, ExecFails, GiveUp, plan, parent, Placed
  <2>2. TableOK'
    BY <2>1 DEF TableOK, Pairs, IsFloor
  <2>3. \A t \in Pairs : Moved(t)'
    BY <2>1 DEF Progress, Moved
  <2>4. Progress'
    BY <2>1, <2>3 DEF Progress, Before, Placed, FilesInPlace, Pairs
  <2> QED
    BY <2>2, <2>4
<1>6. CASE Become
  <2>1. \A t \in Pairs : Moved(t)
    BY <1>6 DEF Become, Progress, Placed
  <2>2. FilesInPlace'
    BY <2>1, <1>6 DEF Become, Moved, FilesInPlace, Pairs, plan
  <2>3. TableOK'
    BY <1>6, Numbers DEF Become, TableOK, Pairs, IsFloor, plan
  <2>4. Progress'
    BY <2>2, <1>6 DEF Become, Progress, Before, Placed, Pairs, plan, parent
  <2> QED
    BY <2>3, <2>4
<1>7. CASE ChildFails \/ ShellGoesOn
  <2>1. TableOK'
    <3>1. fds' \in [FD -> Int] /\ cloexec' \subseteq FD
      BY <1>7, Numbers DEF ChildFails, ShellGoesOn, NoFiles, TableOK
    <3>2. UNCHANGED <<way, io, floor, todo>>
      BY <1>7 DEF ChildFails, ShellGoesOn, plan
    <3> QED
      BY <3>1, <3>2 DEF TableOK, Pairs, IsFloor
  <2>2. Progress'
    BY <1>7 DEF ChildFails, ShellGoesOn, Progress, Before, Placed, FilesInPlace, Pairs, plan,
                parent
  <2> QED
    BY <2>1, <2>2
<1> QED
  BY <1>1, <1>2, <1>3, <1>4, <1>5, <1>6, <1>7 DEF Child

LEMMA NextIInv == IInv /\ [Next]_vars => IInv'
<1> SUFFICES ASSUME IInv, [Next]_vars PROVE IInv'
  OBVIOUS
<1>1. CASE Shell \/ Child
  BY <1>1, ShellKeeps, ChildKeeps
<1>2. CASE ProgramEnds
  BY <1>2, Numbers DEF ProgramEnds, NoFiles, IInv, TableOK, Progress, Before, Placed,
              FilesInPlace, Pairs, IsFloor, plan, parent
<1>3. CASE SiblingForks \/ SiblingExecs \/ Over \/ UNCHANGED vars
  <2>1. UNCHANGED <<io, floor, child, spawner>>
    BY <1>3 DEF SiblingForks, SiblingExecs, Over, vars, plan, parent
  <2>2. TableOK'
    BY <2>1 DEF IInv, TableOK, Pairs, IsFloor, child
  <2>3. Progress'
    BY <2>1 DEF IInv, Progress, Before, Placed, Copied, Moved, FilesInPlace, Pairs, child
  <2> QED
    BY <2>2, <2>3 DEF IInv
<1> QED
  BY <1>1, <1>2, <1>3 DEF Next

(* A program finds each file of its table at its number: io.rs, "after the  *)
(* plan, descriptor `target' refers to what `source' did".                  *)
THEOREM TableInPlace == Spec => []FilesInPlace
<1>1. IInv => FilesInPlace
  BY DEF IInv, Progress
<1> QED
  BY <1>1, InitIInv, NextIInv, PTL DEF Spec

-----------------------------------------------------------------------------
(* Nothing leaks: what is open is close-on-exec, or standard, or named.     *)

Accounted ==
  \A n \in FD : fds[n] # Closed =>
    \/ pc # "program" /\ n \in cloexec
    \/ pc \in {"none", "copy", "move", "failing", "shell"} /\ n \in Standard
    \/ n \in DOMAIN io

LeakInv == IInv /\ Accounted

LEMMA LeakInit == ASSUME Inherited = {} PROVE Init => LeakInv
<1> SUFFICES ASSUME Init PROVE LeakInv
  OBVIOUS
<1>1. IInv
  BY InitIInv
<1>2. Accounted
  BY DEF Init, Accounted, Open
<1> QED
  BY <1>1, <1>2 DEF LeakInv

LEMMA LeakNext == LeakInv /\ [Next]_vars => LeakInv'
<1> SUFFICES ASSUME LeakInv, [Next]_vars PROVE Accounted'
  BY NextIInv DEF LeakInv
<1>0. TableOK /\ Progress /\ Accounted
  BY DEF LeakInv, IInv
<1>1. CASE MakePipe
  <2>1. pc = "none"
    BY <1>0, <1>1 DEF MakePipe, Progress
  <2> QED
    BY <1>0, <1>1, <2>1 DEF MakePipe, Accounted, TableOK, plan
<1>2. CASE CopySource
  BY <1>0, <1>2 DEF CopySource, Accounted, TableOK, plan
<1>3. CASE MoveCopy
  BY <1>0, <1>3 DEF MoveCopy, Accounted, TableOK, Pairs, plan
<1>4. CASE CloseRest
  BY <1>0, <1>4 DEF CloseRest, Accounted, Closes, plan
<1>5. CASE Become
  BY <1>0, <1>5 DEF Become, Accounted, plan
<1>6. CASE ChildFails \/ ProgramEnds
  BY <1>0, <1>6 DEF ChildFails, ProgramEnds, NoFiles, Accounted
<1>7. CASE Fork
  BY <1>0, <1>7 DEF Fork, Accounted, plan
<1>8. CASE Reap
  BY <1>0, <1>8 DEF Reap, Accounted, plan
<1>9. CASE CopyFails \/ CopiesMade \/ ShellGoesOn
  BY <1>0, <1>9 DEF CopyFails, CopiesMade, ShellGoesOn, GiveUp, Accounted, plan
<1>10. CASE Chdir \/ TrySh \/ ExecFails
  BY <1>0, <1>10 DEF Chdir, TrySh, ExecFails, GiveUp, Accounted, plan
<1>11. CASE ForkFails \/ DropWriteEnd \/ ReadErrno \/ ReadEnd \/ SiblingForks
            \/ SiblingExecs \/ Over \/ UNCHANGED vars
  BY <1>0, <1>11 DEF ForkFails, DropWriteEnd, ReadErrno, ReadEnd, SiblingForks,
                     SiblingExecs, Over, vars, Accounted, plan, child
<1> QED
  BY <1>1, <1>2, <1>3, <1>4, <1>5, <1>6, <1>7, <1>8, <1>9, <1>10, <1>11
     DEF Next, Shell, Child

(* io.rs: "a program receives only what its table says, and nothing else",  *)
(* for a shell that was itself started without descriptors from 3 up.       *)
THEOREM NothingLeaks == ASSUME Inherited = {} PROVE Spec => []NothingElse
<1>1. LeakInv => NothingElse
  BY DEF LeakInv, Accounted, NothingElse
<1> QED
  BY <1>1, LeakInit, LeakNext, PTL DEF Spec

-----------------------------------------------------------------------------
(* The report pipe.                                                        *)

Trying == {"copy", "move", "chdir", "exec", "exec_sh", "failing"}

(* The child keeps the writing end until it is a program, or has reported.  *)
ReportKept ==
  way = "start" /\ (pc \in Trying \/ spawner = "fork")
    => /\ report_fd \in FD \ (Standard \cup Sources)
       /\ fds[report_fd] = report_fd

Reported ==
  /\ spawner = "pipe" => \A n \in Standard \cup Sources : fds[n] # Closed
  /\ spawner \in {"forked", "reading", "waiting"} => pc # "none" /\ way = "start"
  /\ spawner \in {"pipe", "fork"} => way = "start"
  /\ pc = "shell" => way = "replace"
  /\ pc \in Trying \cup {"none", "program", "ended", "reaped", "shell"}
  /\ pc = "none" => spawner \in {"pipe", "fork", "done"}
  /\ report \in Errnos \cup {"nothing"}
  /\ errno \in Errnos \cup {"none"}
  /\ errno = "none" <=> pc \notin {"failing", "shell"} /\ report = "nothing"
  /\ report # "nothing" => pc \in {"ended", "reaped"}
  /\ told = "started" => errno = "none" /\ pc \in {"program", "ended", "reaped"}

HonestInv == IInv /\ ReportKept /\ Reported

LEMMA HonestInit == Init => HonestInv
<1> SUFFICES ASSUME Init PROVE HonestInv
  OBVIOUS
<1>1. IInv
  BY InitIInv
<1>2. ReportKept
  BY DEF Init, ReportKept, Trying
<1>3. Reported
  <2>1. \A n \in Standard \cup Sources : fds[n] # Closed
    BY Numbers DEF Init, Open
  <2> QED
    BY <2>1 DEF Init, Reported, Errnos, Trying
<1> QED
  BY <1>1, <1>2, <1>3 DEF HonestInv

LEMMA ReportKeptNext ==
  ASSUME HonestInv, [Next]_vars, Targets \subseteq Standard \cup Sources
  PROVE  ReportKept'
<1>0. TableOK /\ Progress /\ ReportKept /\ Reported
  BY DEF HonestInv, IInv
<1>1. CASE MakePipe
  <2>1. PICK r \in FD, w \in FD :
          /\ IsLowestFree(r, 0) /\ IsLowestFree(w, r + 1)
          /\ fds' = [fds EXCEPT ![r] = r, ![w] = w]
          /\ report_fd' = w
    BY <1>1 DEF MakePipe
  <2>2. w \notin Standard \cup Sources
    BY <1>0, <1>1, <2>1, Numbers DEF MakePipe, Reported, IsLowestFree
  <2>3. fds'[w] = w
    BY <1>0, <2>1, Numbers DEF TableOK, IsLowestFree
  <2> QED
    BY <2>1, <2>2, <2>3 DEF ReportKept
<1>2. CASE CopySource
  <2>1. PICK n \in FD : fds[n] = Closed /\ fds' = [fds EXCEPT ![n] = fds'[n]]
    BY <1>0, <1>2 DEF CopySource, IsLowestFree, TableOK
  <2>2. report_fd \in FD => report_fd # Closed
    BY Numbers
  <2> QED
    BY <1>0, <1>2, <2>1, <2>2 DEF CopySource, ReportKept, Trying, TableOK, plan, parent
<1>3. CASE MoveCopy
  <2>1. PICK t \in Pairs : fds' = [fds EXCEPT ![t] = fds[scratch[t]]]
    BY <1>3 DEF MoveCopy
  <2>2. t \in Standard \cup Sources
    BY <1>0 DEF TableOK, Pairs
  <2> QED
    BY <1>0, <1>3, <2>1, <2>2 DEF MoveCopy, ReportKept, Trying, TableOK, plan, parent
<1>4. CASE CloseRest
  <2>1. Closes \subseteq Standard
    BY DEF Closes
  <2> QED
    BY <1>0, <1>4, <2>1 DEF CloseRest, ReportKept, Trying, plan, parent
<1>5. CASE Fork
  BY <1>0, <1>5 DEF Fork, ReportKept, plan
<1>6. CASE Reap \/ Become \/ ChildFails \/ ShellGoesOn \/ ProgramEnds
  BY <1>0, <1>6 DEF Reap, Become, ChildFails, ShellGoesOn, ProgramEnds, ReportKept, Trying,
                    Progress, plan, parent
<1>7. CASE CopyFails \/ CopiesMade \/ Chdir \/ TrySh \/ ExecFails
  BY <1>0, <1>7 DEF CopyFails, CopiesMade, Chdir, TrySh, ExecFails, GiveUp, ReportKept,
                    Trying, plan, parent
<1>8. CASE ForkFails \/ DropWriteEnd \/ ReadErrno \/ ReadEnd \/ SiblingForks
            \/ SiblingExecs \/ Over \/ UNCHANGED vars
  BY <1>0, <1>8 DEF ForkFails, DropWriteEnd, ReadErrno, ReadEnd, SiblingForks,
                    SiblingExecs, Over, vars, ReportKept, Trying, Progress, plan, child,
                    parent
<1> QED
  BY <1>1, <1>2, <1>3, <1>4, <1>5, <1>6, <1>7, <1>8 DEF Next, Shell, Child

LEMMA ReportedNext ==
  ASSUME HonestInv, [Next]_vars
  PROVE  Reported'
<1>0. TableOK /\ Progress /\ ReportKept /\ Reported
  BY DEF HonestInv, IInv
<1>1. CASE MakePipe
  BY <1>0, <1>1 DEF MakePipe, Reported, Trying, plan
<1>2. CASE ForkFails \/ DropWriteEnd \/ SiblingForks \/ SiblingExecs \/ Over
           \/ UNCHANGED vars
  BY <1>0, <1>2 DEF ForkFails, DropWriteEnd, SiblingForks, SiblingExecs, Over, vars,
                    Reported, Progress, Trying, plan, child, parent
<1>3. CASE Fork
  BY <1>0, <1>3 DEF Fork, Reported, Progress, Trying, plan
<1>4. CASE ReadErrno
  BY <1>0, <1>4 DEF ReadErrno, Reported, Errnos, Trying, plan, child
<1>5. CASE ReadEnd
  <2>1. pc \notin Trying
    BY <1>0, <1>5 DEF ReadEnd, ReportKept, Reported
  <2>2. errno = "none"
    BY <1>0, <1>5, <2>1 DEF ReadEnd, Reported, Trying
  <2>3. pc \in {"program", "ended", "reaped"}
    BY <1>0, <1>5, <2>1 DEF ReadEnd, Reported, Progress, Trying
  <2> QED
    BY <1>0, <1>5, <2>2, <2>3 DEF ReadEnd, Reported, Trying, plan, child
<1>6. CASE Reap
  BY <1>0, <1>6 DEF Reap, Reported, Trying, plan
<1>7. CASE CopySource \/ CopiesMade \/ MoveCopy \/ CloseRest \/ TrySh \/ Become
  BY <1>0, <1>7 DEF CopySource, CopiesMade, MoveCopy, CloseRest, TrySh, Become, Reported,
                    Progress, Trying, plan, parent
<1>8. CASE CopyFails \/ Chdir \/ ExecFails
  BY <1>0, <1>8 DEF CopyFails, Chdir, ExecFails, GiveUp, Reported, Errnos, Trying, plan, parent
<1>9. CASE ChildFails
  BY <1>0, <1>9 DEF ChildFails, ReportKept, Reported, Progress, Errnos, Trying, plan, parent
<1>10. CASE ShellGoesOn
  BY <1>0, <1>10 DEF ShellGoesOn, Reported, Errnos, Trying, plan, parent
<1>11. CASE ProgramEnds
  BY <1>0, <1>11 DEF ProgramEnds, Reported, Progress, Trying, plan, parent
<1> QED
  BY <1>1, <1>2, <1>3, <1>4, <1>5, <1>6, <1>7, <1>8, <1>9, <1>10, <1>11
     DEF Next, Shell, Child

(* spawn.rs: "end of file means the program started", for redirections to   *)
(* standard descriptors and to numbers below every descriptor that start()  *)
(* can be given.                                                            *)
THEOREM ReportIsHonest ==
  ASSUME Targets \subseteq Standard \cup Sources
  PROVE  Spec => []ReportHonest
<1>1. HonestInv => ReportHonest
  BY DEF HonestInv, Reported, ReportHonest
<1>2. HonestInv /\ [Next]_vars => HonestInv'
  BY NextIInv, ReportKeptNext, ReportedNext DEF HonestInv
<1> QED
  BY <1>1, <1>2, HonestInit, PTL DEF Spec

-----------------------------------------------------------------------------
(* Types.  fail() writes to report_fd: a child that has one keeps it.       *)

HasReportFd ==
  spawner = "fork" \/ (way = "start" /\ pc # "none") => report_fd \in FD

TInv == IInv /\ TypeOK /\ HasReportFd

LEMMA TypeInit == Init => TInv
<1> SUFFICES ASSUME Init PROVE TInv
  OBVIOUS
<1>1. IInv
  BY InitIInv
<1>2. HasReportFd
  BY DEF Init, HasReportFd
<1>3. scratch \in [Pairs -> {n \in FD : n >= floor} \cup {Closed}]
  BY DEF Init
<1>4. fds \in [FD -> FD \cup {Closed}] /\ cloexec \subseteq FD
  BY Numbers DEF Init
<1>5. TypeOK
  BY <1>1, <1>3, <1>4 DEF Init, IInv, TableOK, TypeOK
<1> QED
  BY <1>1, <1>2, <1>5 DEF TInv

LEMMA ShellTyped ==
  ASSUME TInv, Shell
  PROVE  TypeOK' /\ HasReportFd'
<1>0. TypeOK /\ HasReportFd /\ Progress
  BY DEF TInv, IInv
<1>1. CASE MakePipe
  <2>1. PICK r \in FD, w \in FD :
          /\ fds' = [fds EXCEPT ![r] = r, ![w] = w]
          /\ cloexec' = cloexec \cup {r, w}
          /\ report_fd' = w
    BY <1>1 DEF MakePipe
  <2>2. fds' \in [FD -> FD \cup {Closed}] /\ cloexec' \subseteq FD /\ report_fd' \in FD
    BY <1>0, <2>1 DEF TypeOK
  <2> QED
    BY <1>0, <1>1, <2>2 DEF MakePipe, TypeOK, HasReportFd, Pairs, plan
<1>2. CASE ForkFails
  BY <1>0, <1>2 DEF ForkFails, TypeOK, HasReportFd, Progress, Pairs, plan, child
<1>3. CASE Fork
  BY <1>0, <1>3 DEF Fork, TypeOK, HasReportFd, Pairs, plan
<1>4. CASE DropWriteEnd
  BY <1>0, <1>4 DEF DropWriteEnd, TypeOK, HasReportFd, Pairs, plan, child
<1>5. CASE ReadErrno
  BY <1>0, <1>5 DEF ReadErrno, TypeOK, HasReportFd, Errnos, Pairs, plan, child
<1>6. CASE ReadEnd
  BY <1>0, <1>6 DEF ReadEnd, TypeOK, HasReportFd, Pairs, plan, child
<1>7. CASE Reap
  BY <1>0, <1>7 DEF Reap, TypeOK, HasReportFd, Pairs, plan
<1> QED
  BY <1>1, <1>2, <1>3, <1>4, <1>5, <1>6, <1>7 DEF Shell

LEMMA ChildTyped ==
  ASSUME TInv, Child
  PROVE  TypeOK' /\ HasReportFd'
<1>0. TypeOK /\ HasReportFd /\ Progress /\ TableOK
  BY DEF TInv, IInv
<1>1. CASE CopySource
  <2>1. PICK t \in Pairs, n \in FD :
          /\ n >= floor
          /\ fds' = [fds EXCEPT ![n] = fds[io[t]]]
          /\ cloexec' = cloexec \cup {n}
          /\ scratch' = [scratch EXCEPT ![t] = n]
          /\ todo' = todo \ {t}
    BY <1>1 DEF CopySource, IsLowestFree
  <2>2. fds[io[t]] \in FD \cup {Closed}
    BY <1>0, PairNumbers, Numbers DEF TypeOK
  <2>3. UNCHANGED <<way, io, floor>> /\ Pairs' = Pairs
    BY <1>1 DEF CopySource, plan, Pairs
  <2>4. fds' \in [FD -> FD \cup {Closed}] /\ cloexec' \subseteq FD
    BY <1>0, <2>1, <2>2 DEF TypeOK
  <2>5. scratch' \in [Pairs' -> {m \in FD : m >= floor'} \cup {Closed}]
    BY <1>0, <2>1, <2>3 DEF TypeOK
  <2> QED
    BY <1>0, <1>1, <2>1, <2>3, <2>4, <2>5 DEF CopySource, TypeOK, HasReportFd, parent
<1>2. CASE CopyFails
  BY <1>0, <1>2 DEF CopyFails, GiveUp, TypeOK, HasReportFd, Errnos, Pairs, plan, parent
<1>3. CASE CopiesMade
  BY <1>0, <1>3 DEF CopiesMade, TypeOK, HasReportFd, Pairs, plan, parent
<1>4. CASE MoveCopy
  <2>1. PICK t \in Pairs :
          /\ fds' = [fds EXCEPT ![t] = fds[scratch[t]]]
          /\ cloexec' = cloexec \ {t}
          /\ todo' = todo \ {t}
    BY <1>4 DEF MoveCopy
  <2>2. fds[scratch[t]] \in FD
    BY <1>0, <1>4, PairNumbers, Numbers DEF MoveCopy, Progress, Copied
  <2>3. fds' \in [FD -> FD \cup {Closed}] /\ cloexec' \subseteq FD
    BY <1>0, <2>1, <2>2 DEF TypeOK
  <2> QED
    BY <1>0, <1>4, <2>1, <2>3 DEF MoveCopy, TypeOK, HasReportFd, Pairs, plan, parent
<1>5. CASE CloseRest
  BY <1>0, <1>5 DEF CloseRest, TypeOK, HasReportFd, Pairs, plan, parent
<1>6. CASE Chdir
  BY <1>0, <1>6 DEF Chdir, GiveUp, TypeOK, HasReportFd, Errnos, Pairs, plan, parent
<1>7. CASE Become
  BY <1>0, <1>7 DEF Become, TypeOK, HasReportFd, Pairs, plan, parent
<1>8. CASE TrySh
  BY <1>0, <1>8 DEF TrySh, TypeOK, HasReportFd, Pairs, plan, parent
<1>9. CASE ExecFails
  BY <1>0, <1>9 DEF ExecFails, GiveUp, TypeOK, HasReportFd, Errnos, Pairs, plan, parent
<1>10. CASE ChildFails
  <2>1. report_fd \in FD
    BY <1>0, <1>10 DEF ChildFails, HasReportFd
  <2>2. fds[report_fd] \in FD \cup {Closed}
    BY <1>0, <2>1 DEF TypeOK
  <2>3. written' \subseteq FD /\ report' \in Errnos \cup {"nothing", "none"}
    BY <1>0, <1>10, <2>2 DEF ChildFails, TypeOK
  <2>4. fds' \in [FD -> FD \cup {Closed}] /\ cloexec' \subseteq FD
    BY <1>10 DEF ChildFails, NoFiles
  <2> QED
    BY <1>0, <1>10, <2>1, <2>3, <2>4 DEF ChildFails, TypeOK, HasReportFd, Pairs, plan, parent
<1>11. CASE ShellGoesOn
  BY <1>0, <1>11 DEF ShellGoesOn, TypeOK, HasReportFd, Errnos, Pairs, plan, parent
<1> QED
  BY <1>1, <1>2, <1>3, <1>4, <1>5, <1>6, <1>7, <1>8, <1>9, <1>10, <1>11 DEF Child

LEMMA TypeNext == TInv /\ [Next]_vars => TInv'
<1> SUFFICES ASSUME TInv, [Next]_vars PROVE TypeOK' /\ HasReportFd'
  BY NextIInv DEF TInv
<1>0. TypeOK /\ HasReportFd
  BY DEF TInv
<1>1. CASE Shell \/ Child
  BY <1>1, ShellTyped, ChildTyped
<1>2. CASE SiblingForks \/ SiblingExecs
  <2>1. UNCHANGED <<plan, scratch, todo, cloexec, errno, report_fd, report, written, pc, fds,
                    spawner, told>> /\ holders' \subseteq {"shell", "sibling"}
    BY <1>0, <1>2 DEF SiblingForks, SiblingExecs, TypeOK, child
  <2>2. Pairs' = Pairs /\ way' = way /\ io' = io /\ floor' = floor
    BY <2>1 DEF Pairs, plan
  <2>3. HasReportFd'
    BY <1>0, <2>1, <2>2 DEF HasReportFd
  <2> QED
    BY <1>0, <2>1, <2>2, <2>3 DEF TypeOK
<1>3. CASE ProgramEnds
  <2>1. fds' \in [FD -> FD \cup {Closed}]
    BY <1>3 DEF ProgramEnds, NoFiles
  <2> QED
    BY <1>0, <1>3, <2>1 DEF ProgramEnds, TypeOK, HasReportFd, Pairs, plan, parent
<1>4. CASE Over \/ UNCHANGED vars
  <2>1. UNCHANGED <<plan, scratch, todo, cloexec, errno, report_fd, report, written, pc, fds,
                    spawner, told, holders>>
    BY <1>4 DEF Over, vars, child, parent
  <2>2. Pairs' = Pairs /\ way' = way /\ io' = io /\ floor' = floor
    BY <2>1 DEF Pairs, plan
  <2>3. HasReportFd'
    BY <1>0, <2>1, <2>2 DEF HasReportFd
  <2> QED
    BY <1>0, <2>1, <2>2, <2>3 DEF TypeOK
<1> QED
  BY <1>1, <1>2, <1>3, <1>4 DEF Next

(* Every descriptor that become_program() duplicates, overwrites or writes  *)
(* to is one the process may have: no copy below FdPlan::floor, no error    *)
(* number written to a descriptor that is none.                             *)
THEOREM TypeCorrect == Spec => []TypeOK
<1>1. TInv => TypeOK
  BY DEF TInv
<1> QED
  BY <1>1, TypeInit, TypeNext, PTL DEF Spec

=============================================================================
