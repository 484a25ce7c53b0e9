-------------------------------- MODULE Pipes --------------------------------
(***************************************************************************)
(* The stages of a pipeline (pipeline.rs: run_stages), alone or inside a   *)
(* `$(...)' (expand/mod.rs: command_substitution), and who holds the ends  *)
(* of the pipes between them.                                              *)
(*                                                                         *)
(* Pipe i joins stage i to stage i + 1.  Pipe N takes what the last stage  *)
(* prints to the thread that reads it for the `$(...)'.  An end is open    *)
(* while somebody holds it: a table of files (Io), what `exec' recorded in *)
(* a copy of the shell (fd_changes), the variable `previous', the reading  *)
(* thread, or the child of a stage, which from the fork to its execve has  *)
(* every descriptor of the shell.                                          *)
(***************************************************************************)
EXTENDS Integers

CONSTANTS
  N,            \* how many stages
  Capacity,     \* how much a pipe holds
  Amount,       \* how much an "echo" stage writes
  Pipelines,    \* the pipelines to run, each as what its stages do
  PipesFail     \* may pipe2, or the start of a thread, fail?

Stages == 1 .. N
Ends == {"r", "w"} \X Stages

(* What a stage does: write for ever, write an amount, read one thing and   *)
(* end, or pass on all it reads.                                            *)
Kinds == {"endless", "echo", "head", "filter"}

ASSUME PipesAssumption ==
  /\ N \in Nat \ {0, 1}
  /\ Capacity \in Nat \ {0}
  /\ Amount \in Nat
  /\ Pipelines \subseteq {k \in [Stages -> Kinds] : k[1] \in {"endless", "echo"}}
  /\ PipesFail \in BOOLEAN

(* `table' and `changes' 0 are those of the copy that runs the `$(...)'.     *)
Holders == {<<"previous", 0>>, <<"drain", 0>>}
           \cup {"table", "changes"} \X (0 .. N)
           \cup {"program"} \X Stages

VARIABLES
  subst,   \* is the pipeline inside a `$(...)'?
  kind,    \* what each stage does
  left,    \* how much of it is left
  pc,      \* where each stage is
  maker,   \* where the thread is that runs command_substitution, run_stages
  made,    \* for how many stages it has made a table, or started a thread
  held,    \* the ends each holder has
  buf      \* how much is in each pipe

vars == <<subst, kind, left, pc, maker, made, held, buf>>

Open(e) == \E h \in Holders : e \in held[h]

(* Where the output of a stage goes, if to a pipe.                          *)
Out(i) == IF i = N /\ ~subst THEN {} ELSE {<<"w", i>>}

Previous   == <<"previous", 0>>
Drain      == <<"drain", 0>>
Table(i)   == <<"table", i>>
Changes(i) == <<"changes", i>>
Program(i) == <<"program", i>>

Drop(hs) == [h \in Holders |-> IF h \in hs THEN {} ELSE held[h]]

-----------------------------------------------------------------------------
(* command_substitution, around the pipeline.                              *)

Substitute ==
  /\ maker = "start" /\ subst
  /\ held' = [held EXCEPT ![Drain] = {<<"r", N>>}, ![Table(0)] = {<<"w", N>>}]
  /\ maker' = "list"
  /\ UNCHANGED <<subst, kind, left, pc, made, buf>>

(* No pipe, or no thread to read it: the commands do not run.               *)
SubstituteFails ==
  /\ maker = "start" /\ subst /\ PipesFail
  /\ maker' = "done"
  /\ UNCHANGED <<subst, kind, left, pc, made, held, buf>>

NoSubstitution ==
  /\ maker = "start" /\ ~subst
  /\ maker' = "list"
  /\ UNCHANGED <<subst, kind, left, pc, made, held, buf>>

(* `exec 3>&1' in the list of the `$(...)': record_fd_changes and           *)
(* follow_fd_changes each hold the end once more.                           *)
DupInList ==
  /\ maker = "list" /\ subst
  /\ held' = [held EXCEPT ![Changes(0)] = {<<"w", N>>}]
  /\ maker' = "pipes"
  /\ UNCHANGED <<subst, kind, left, pc, made, buf>>

RunPipeline ==
  /\ maker = "list"
  /\ maker' = "pipes"
  /\ UNCHANGED <<subst, kind, left, pc, made, held, buf>>

(* finish_copy is over; the table goes, and the scope waits for its thread. *)
DropTable ==
  /\ maker = "finish"
  /\ held' = Drop({Table(0)})
  /\ maker' = IF subst THEN "join_drain" ELSE "done"
  /\ UNCHANGED <<subst, kind, left, pc, made, buf>>

DrainReads ==
  /\ <<"r", N>> \in held[Drain] /\ buf[N] > 0
  /\ buf' = [buf EXCEPT ![N] = @ - 1]
  /\ UNCHANGED <<subst, kind, left, pc, maker, made, held>>

DrainEnds ==
  /\ <<"r", N>> \in held[Drain] /\ buf[N] = 0
  /\ ~Open(<<"w", N>>)
  /\ held' = Drop({Drain})
  /\ UNCHANGED <<subst, kind, left, pc, maker, made, buf>>

(* Mutant: the reading thread is not waited for.                            *)
Return_early ==
  /\ maker = "join_drain"
  /\ held' = Drop({Changes(0)})
  /\ maker' = "done"
  /\ UNCHANGED <<subst, kind, left, pc, made, buf>>

(* The scope is over: the copy of the shell goes, with what `exec' recorded. *)
Return ==
  /\ maker = "join_drain"
  /\ held[Drain] = {}
  /\ held' = Drop({Changes(0)})
  /\ maker' = "done"
  /\ UNCHANGED <<subst, kind, left, pc, made, buf>>

-----------------------------------------------------------------------------
(* run_stages.                                                             *)

(* Mutant: the table of the stage before goes when the next one is made.    *)
MakeTable_moved ==
  /\ maker = "pipes" /\ made < N
  /\ LET i == made + 1
     IN  /\ held' = [held EXCEPT
              ![Table(i)] = held[Previous] \cup Out(i) \cup held[Changes(0)],
              ![Table(i - 1)] = {},
              ![Previous] = IF i < N THEN {<<"r", i>>} ELSE {}]
         /\ pc' = [pc EXCEPT ![i] = "made"]
         /\ made' = i
  /\ UNCHANGED <<subst, kind, left, maker, buf>>

(* A table for the next stage, with the reading end of the pipe before it,  *)
(* and the writing end of a new pipe if a stage follows.  Whatever `exec'   *)
(* has added to the table of the list stays in it.                          *)
MakeTable ==
  /\ maker = "pipes" /\ made < N
  /\ LET i == made + 1
     IN  /\ held' = [held EXCEPT
              ![Table(i)] = held[Previous] \cup Out(i) \cup held[Changes(0)],
              ![Previous] = IF i < N THEN {<<"r", i>>} ELSE {}]
         /\ pc' = [pc EXCEPT ![i] = "made"]
         /\ made' = i
  /\ UNCHANGED <<subst, kind, left, maker, buf>>

PipeFails ==
  /\ maker = "pipes" /\ made < N - 1 /\ PipesFail
  /\ held' = Drop({Previous} \cup {Table(i) : i \in Stages})
  /\ pc' = [i \in Stages |-> "over"]
  /\ maker' = "finish"
  /\ UNCHANGED <<subst, kind, left, made, buf>>

TablesMade ==
  /\ maker = "pipes" /\ made = N
  /\ maker' = "threads"
  /\ made' = 0
  /\ UNCHANGED <<subst, kind, left, pc, held, buf>>

StartStage ==
  /\ maker = "threads" /\ made < N
  /\ made' = made + 1
  /\ pc' = [pc EXCEPT ![made + 1] = "thread"]
  /\ UNCHANGED <<subst, kind, left, maker, held, buf>>

(* No thread: the closure goes away, and the table in it.                   *)
StageNotStarted ==
  /\ maker = "threads" /\ made < N /\ PipesFail
  /\ made' = made + 1
  /\ pc' = [pc EXCEPT ![made + 1] = "over"]
  /\ held' = Drop({Table(made + 1)})
  /\ UNCHANGED <<subst, kind, left, maker, buf>>

JoinStages ==
  /\ maker = "threads" /\ made = N
  /\ \A i \in Stages : pc[i] = "over"
  /\ maker' = "finish"
  /\ UNCHANGED <<subst, kind, left, pc, made, held, buf>>

-----------------------------------------------------------------------------
(* A stage, on its thread or as a program the thread waits for.            *)

Working(i) == pc[i] \in {"thread", "program"}

Puts(i) == \/ kind[i] = "endless"
           \/ kind[i] \in {"echo", "filter"} /\ left[i] > 0

Gets(i) == \/ kind[i] = "head" /\ left[i] > 0
           \/ kind[i] = "filter" /\ left[i] = 0

(* The end of a command: a program closes all it has.                       *)
CommandOver(i) ==
  /\ pc' = [pc EXCEPT ![i] = "ending"]
  /\ held' = Drop({Program(i)})
  /\ UNCHANGED <<subst, kind, left, maker, made, buf>>

Written(i) == [left EXCEPT ![i] = IF kind[i] = "endless" THEN @ ELSE @ - 1]

(* Mutant: the size of a pipe is not a limit.                               *)
WriteToPipe_grows(i) ==
  /\ Working(i) /\ Puts(i) /\ Out(i) # {}
  /\ Open(<<"r", i>>)
  /\ buf' = [buf EXCEPT ![i] = @ + 1]
  /\ left' = Written(i)
  /\ UNCHANGED <<subst, kind, pc, maker, made, held>>

WriteToPipe(i) ==
  /\ Working(i) /\ Puts(i) /\ Out(i) # {}
  /\ Open(<<"r", i>>) /\ buf[i] < Capacity
  /\ buf' = [buf EXCEPT ![i] = @ + 1]
  /\ left' = Written(i)
  /\ UNCHANGED <<subst, kind, pc, maker, made, held>>

WriteElsewhere(i) ==
  /\ Working(i) /\ Puts(i) /\ Out(i) = {}
  /\ left' = Written(i)
  /\ UNCHANGED <<subst, kind, pc, maker, made, held, buf>>

(* EPIPE: emit() makes the stage exit, SIGPIPE ends a program.              *)
WriteBroken(i) ==
  /\ Working(i) /\ Puts(i) /\ Out(i) # {}
  /\ ~Open(<<"r", i>>)
  /\ CommandOver(i)

ReadFromPipe(i) ==
  /\ Working(i) /\ Gets(i) /\ i > 1
  /\ buf[i - 1] > 0
  /\ buf' = [buf EXCEPT ![i - 1] = @ - 1]
  /\ left' = [left EXCEPT ![i] = 1 - @]
  /\ UNCHANGED <<subst, kind, pc, maker, made, held>>

ReadEnd(i) ==
  /\ Working(i) /\ Gets(i) /\ i > 1
  /\ buf[i - 1] = 0 /\ ~Open(<<"w", i - 1>>)
  /\ CommandOver(i)

Finishes(i) ==
  /\ Working(i) /\ kind[i] \in {"echo", "head"} /\ left[i] = 0
  /\ CommandOver(i)

(* The child has a copy of every descriptor the shell has at that moment.   *)
Forks(i) ==
  /\ pc[i] = "thread"
  /\ pc' = [pc EXCEPT ![i] = "forked"]
  /\ held' = [held EXCEPT ![Program(i)] =
                {e \in Ends : \E h \in Holders : e \in held[h] /\ h \notin {"program"} \X Stages}]
  /\ UNCHANGED <<subst, kind, left, maker, made, buf>>

(* Mutant: the pipes are not close-on-exec.                                 *)
Execs_all(i) ==
  /\ pc[i] = "forked"
  /\ pc' = [pc EXCEPT ![i] = "program"]
  /\ UNCHANGED <<subst, kind, left, maker, made, held, buf>>

(* Only the files of the stage's table survive execve (see Spawn).          *)
Execs(i) ==
  /\ pc[i] = "forked"
  /\ pc' = [pc EXCEPT ![i] = "program"]
  /\ held' = [held EXCEPT ![Program(i)] = held[Table(i)]]
  /\ UNCHANGED <<subst, kind, left, maker, made, buf>>

ExecFails(i) == pc[i] = "forked" /\ CommandOver(i)

(* `exec 3>&1 4<&0' in a stage: its copy of the shell holds its ends once   *)
(* more.                                                                    *)
DupInStage(i) ==
  /\ pc[i] = "thread" /\ held[Changes(i)] # held[Table(i)]
  /\ held' = [held EXCEPT ![Changes(i)] = held[Table(i)]]
  /\ UNCHANGED <<subst, kind, left, pc, maker, made, buf>>

(* Mutant: the table lives as long as the pipeline.                         *)
DropStageTable_kept(i) ==
  /\ pc[i] = "ending"
  /\ pc' = [pc EXCEPT ![i] = "dropped"]
  /\ UNCHANGED <<subst, kind, left, maker, made, held, buf>>

DropStageTable(i) ==
  /\ pc[i] = "ending"
  /\ pc' = [pc EXCEPT ![i] = "dropped"]
  /\ held' = Drop({Table(i)})
  /\ UNCHANGED <<subst, kind, left, maker, made, buf>>

(* The closure ends, and with it the stage's copy of the shell.             *)
DropStage(i) ==
  /\ pc[i] = "dropped"
  /\ pc' = [pc EXCEPT ![i] = "over"]
  /\ held' = Drop({Changes(i)})
  /\ UNCHANGED <<subst, kind, left, maker, made, buf>>

-----------------------------------------------------------------------------
Init ==
  /\ subst \in BOOLEAN
  /\ kind \in Pipelines
  /\ left = [i \in Stages |-> CASE kind[i] = "echo" -> Amount
                                [] kind[i] = "head" -> 1
                                [] OTHER -> 0]
  /\ pc = [i \in Stages |-> "none"]
  /\ maker = "start"
  /\ made = 0
  /\ held = [h \in Holders |-> {}]
  /\ buf = [i \in Stages |-> 0]

Maker ==
  \/ Substitute \/ SubstituteFails \/ NoSubstitution \/ DupInList \/ RunPipeline
  \/ DropTable \/ Return \/ MakeTable \/ PipeFails \/ TablesMade \/ StartStage
  \/ StageNotStarted \/ JoinStages

Reader == DrainReads \/ DrainEnds

(* What a stage must do next; it is free to fork and to use `exec' before.  *)
Works(i) ==
  \/ WriteToPipe(i) \/ WriteElsewhere(i) \/ WriteBroken(i) \/ ReadFromPipe(i)
  \/ ReadEnd(i) \/ Finishes(i) \/ Execs(i) \/ ExecFails(i) \/ DropStageTable(i)
  \/ DropStage(i)

Over == maker = "done" /\ UNCHANGED vars

Next ==
  \/ Maker \/ Reader \/ Over
  \/ \E i \in Stages : Works(i) \/ Forks(i) \/ DupInStage(i)

Spec == Init /\ [][Next]_vars

(* The system runs every thread and every program.                          *)
FairSpec ==
  /\ Spec
  /\ WF_vars(Maker) /\ WF_vars(Reader)
  /\ \A i \in Stages : WF_vars(Works(i))

-----------------------------------------------------------------------------
TypeOK ==
  /\ subst \in BOOLEAN
  /\ kind \in [Stages -> Kinds]
  /\ left \in [Stages -> Nat]
  /\ pc \in [Stages -> {"none", "made", "thread", "forked", "program", "ending",
                        "dropped", "over"}]
  /\ maker \in {"start", "list", "pipes", "threads", "finish", "join_drain", "done"}
  /\ made \in 0 .. N
  /\ held \in [Holders -> SUBSET Ends]
  /\ buf \in [Stages -> 0 .. Capacity]

(* A stage is cut off only by a neighbour that has ended: while it works,   *)
(* its input has a writer unless the stage before is over, and its output a *)
(* reader unless the stage after is.                                        *)
Gone(i) == pc[i] \in {"ending", "dropped", "over"}

CutOffByTheEnd ==
  \A i \in Stages : Working(i) =>
    /\ i > 1 /\ ~Open(<<"w", i - 1>>) => Gone(i - 1)
    /\ i < N /\ ~Open(<<"r", i>>) => Gone(i + 1)
    /\ i = N /\ subst => Open(<<"r", N>>)

(* A `$(...)' has all that its commands printed when it returns, and no end *)
(* of any pipe outlives it.                                                 *)
OutputComplete ==
  maker = "done" => /\ subst => buf[N] = 0
                    /\ \A e \in Ends : ~Open(e)

(* A pipeline can go on for ever only if it ends in an endless writer whose *)
(* output is all passed on.                                                 *)
Endless ==
  \E i \in Stages : kind[i] = "endless" /\ \A j \in i + 1 .. N : kind[j] = "filter"

(* Every other pipeline ends, alone or in a `$(...)': no stage waits for an *)
(* end of file, or for room in a pipe, that never comes, however the stages *)
(* and the children of other stages are scheduled.                          *)
Terminates == ~Endless => <>(maker = "done")

(* The same, as long as no `exec' in the list of the `$(...)' itself has    *)
(* made another descriptor of its output.                                   *)
TerminatesIfUndup ==
  ~Endless /\ [](held[Changes(0)] = {}) => <>(maker = "done")

=============================================================================
