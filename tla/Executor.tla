------------------------------ MODULE Executor ------------------------------
(***************************************************************************)
(* How the executor of oh-my-shell runs a line, and how a command ends.    *)
(*                                                                         *)
(* The Rust code is a set of functions that call each other; here the      *)
(* calls in progress are the frames of `stack', and `flow' is what the     *)
(* innermost call has been handed back: Running while it still has work,   *)
(* else the Result<ExitStatus, Unwind> of the call it made.  A frame is    *)
(* popped with a result of its own, which its caller then finds in `flow'. *)
(*                                                                         *)
(* The program being run is not fixed: wherever the code looks at the      *)
(* syntax tree, the model chooses, so one state space holds every program  *)
(* whose commands are of the kinds in Kinds and Simples.                   *)
(*                                                                         *)
(* `shells' is the chain of shells alive on this thread: the main shell    *)
(* first, then the copies made by subshell().  Pipeline stages run on      *)
(* threads of their own, each on its own copy; nothing of the state below  *)
(* is shared between them, so they are run here one after the other.       *)
(***************************************************************************)
EXTENDS Integers, Sequences, FiniteSets

CONSTANTS
  MAX_DEPTH,      \* how many lists and function calls may be nested
  MaxCount,       \* bound on the n of `break n' and `continue n'
  Kinds,          \* the kinds of commands programs are made of
  Simples,        \* the kinds of simple commands programs are made of
  Operators,      \* the operators programs are made of
  DeepKinds,      \* the kinds of commands at the deepest level
  DeepSimples,    \* the kinds of simple commands at the deepest level
  Results,        \* the statuses their programs, `exit' and `return' give
  Signals,        \* the signals that have a `trap' command
  Interactive,    \* does the shell survive Ctrl+C?
  PipesFail       \* may pipe2 fail?

AllKinds == {"simple", "subshell", "group", "if", "while", "for", "case", "function"}

AllSimples == {"program", "builtin", "assign", "failing", "cmdsub", "exit", "return",
               "break", "continue", "call", "eval", "dot", "set", "trap", "exec"}

AllOperators == {"&&", "||", "!", "|"}

(* Exit statuses, reduced to the ones the code tells apart: success, a      *)
(* failure, ExitStatus::USAGE and "killed by SIGINT".                       *)
Statuses == {0, 1, 2, 130}

ASSUME ConstantsAssumption ==
  /\ MAX_DEPTH \in Nat \ {0}
  /\ MaxCount \in Nat \ {0}
  /\ Kinds \subseteq AllKinds
  /\ Simples \subseteq AllSimples
  /\ DeepKinds \subseteq Kinds
  /\ DeepSimples \subseteq Simples
  /\ Operators \subseteq AllOperators
  /\ Results \subseteq Statuses
  /\ Signals \subseteq Nat
  /\ Interactive \in BOOLEAN
  /\ PipesFail \in BOOLEAN

VARIABLES
  shells,       \* the main shell and its copies, the one that runs last
  stack,        \* the calls in progress, the innermost last
  flow,         \* what the innermost call has been given back
  line,         \* what the read-run loop is doing
  interrupted,  \* INTERRUPTED: Ctrl+C was pressed
  pending,      \* PENDING: the trapped signals that arrived
  arrived       \* the local of run_pending_traps: signals taken, not yet handled

signalVars == <<interrupted, pending, arrived>>
vars == <<shells, stack, flow, line, interrupted, pending, arrived>>

-----------------------------------------------------------------------------
Running   == [tag |-> "running", n |-> 0]
Ok(s)     == [tag |-> "ok", n |-> s]
Exit(s)   == [tag |-> "exit", n |-> s]
Return(s) == [tag |-> "return", n |-> s]
Error     == [tag |-> "error", n |-> 2]
Interrupted == [tag |-> "interrupted", n |-> 0]

Failed(f) == f.tag \notin {"running", "ok"}

(* What comes out of a copy of the shell: a status, whatever happened.      *)
boundary(f) == IF f.tag \in {"break", "continue"} THEN 0
               ELSE IF f.tag = "interrupted" THEN 130 ELSE f.n

(* The part of a Shell that steers the executor.                            *)
Shell == [status : Statuses, depth : Nat, loop_depth : Nat, func_depth : Nat,
          errexit_off : Nat, errexit : BOOLEAN, in_subshell : BOOLEAN,
          running_trap : BOOLEAN, exit_trap : BOOLEAN]

NewShell == [status |-> 0, depth |-> 0, loop_depth |-> 0, func_depth |-> 0,
             errexit_off |-> 0, errexit |-> FALSE, in_subshell |-> FALSE,
             running_trap |-> FALSE, exit_trap |-> FALSE]

K   == Len(shells)
Me  == shells[K]
Top == stack[Len(stack)]

(* What a program is made of: at the deepest level of nesting there is, the *)
(* commands that matter there and no operator.                              *)
Deepest       == Me.depth >= MAX_DEPTH
KindsHere     == IF Deepest THEN DeepKinds ELSE Kinds
SimplesHere   == IF Deepest THEN DeepSimples ELSE Simples
OperatorsHere == IF Deepest THEN Operators \cap {"|"} ELSE Operators


Caller == IF Len(stack) = 1 THEN "line" ELSE stack[Len(stack) - 1].fn
(* Mutants: a copy starts with no condition around it; with a limit of its  *)
(* own, as if it ran on a stack of its own.                                 *)
subshell_fresh == [Me EXCEPT !.in_subshell = TRUE, !.exit_trap = FALSE, !.errexit_off = 0]

subshell_shallow == [Me EXCEPT !.in_subshell = TRUE, !.exit_trap = FALSE, !.depth = 0]

(* Clone, then forget what a copy must not inherit: the EXIT trap.          *)
subshell == [Me EXCEPT !.in_subshell = TRUE, !.exit_trap = FALSE]

Fns == {"list", "and_or", "ignoring", "pipeline", "stages", "command", "if", "loop",
        "call", "dot", "text", "traps", "exit_trap", "copy"}

(* A call: the function, where it stands, the shell that is its `self', and *)
(* the status it keeps in a local variable.                                 *)
Frame(fn, pc, st) == [fn |-> fn, pc |-> pc, self |-> K, st |-> st]

In(fn)       == stack # <<>> /\ Top.fn = fn /\ flow = Running
GotOk(fn)    == stack # <<>> /\ Top.fn = fn /\ flow.tag = "ok"
GotErr(fn)   == stack # <<>> /\ Top.fn = fn /\ Failed(flow)
Got(fn)      == stack # <<>> /\ Top.fn = fn /\ flow # Running

Popped       == SubSeq(stack, 1, Len(stack) - 1)
At(pc)       == [stack EXCEPT ![Len(stack)].pc = pc]
AtWith(pc, s) == [stack EXCEPT ![Len(stack)].pc = pc, ![Len(stack)].st = s]

(* The innermost call returns r, and the shell stays as it is.              *)
Gives(r) == stack' = Popped /\ flow' = r /\ UNCHANGED shells

(* `?', and a last call: what a call gives back is what its caller gives.   *)
PassOn ==
  /\ \/ \E fn \in {"and_or", "if", "command", "text"} : GotErr(fn)
     \/ GotOk("and_or") /\ Top.pc = "last"
     \/ GotOk("if") /\ Top.pc = "body"
  /\ Gives(flow)

(* The innermost call makes a call that counts in none of the counters.     *)
Calls(base, frame) == stack' = Append(base, frame) /\ flow' = Running /\ UNCHANGED shells

-----------------------------------------------------------------------------
(* enter: one more level of nesting, unless it is too deep.                 *)
(* Mutant: a refused level is counted down.                                 *)
enter_undone(base, frame, bumped) ==
  IF Me.depth >= MAX_DEPTH
  THEN stack' = base /\ flow' = Error /\ shells' = [shells EXCEPT ![K].depth = @ - 1]
  ELSE stack' = Append(base, frame) /\ flow' = Running /\ shells' = [shells EXCEPT ![K] = bumped]

enter(base, frame, bumped) ==
  IF Me.depth >= MAX_DEPTH
  THEN stack' = base /\ flow' = Error /\ UNCHANGED shells
  ELSE stack' = Append(base, frame) /\ flow' = Running /\ shells' = [shells EXCEPT ![K] = bumped]

run_list(base) ==
  enter(base, Frame("list", "check", Me.status), [Me EXCEPT !.depth = @ + 1])

ignoring_errexit(base, body) ==
  /\ stack' = Append(base, Frame("ignoring", body, 0))
  /\ flow' = Running
  /\ shells' = [shells EXCEPT ![K].errexit_off = @ + 1]

(* The status a failing command gives: the shell's end, or just a status.   *)
errexit_check(s) ==
  IF s # 0 /\ Me.errexit /\ Me.errexit_off = 0 THEN Exit(s) ELSE Ok(s)

-----------------------------------------------------------------------------
(* Lists.  The local status of a list is assigned by each item, so it is 0  *)
(* while one runs.                                                          *)
(* Mutant: a signal interrupts the command of another one.                  *)
TrapsDue_nested == ~Me.in_subshell /\ pending # {}

TrapsDue == ~Me.in_subshell /\ ~Me.running_trap /\ pending # {}

LeaveList(r) ==
  /\ stack' = Popped
  /\ flow' = r
  /\ shells' = [shells EXCEPT ![K].depth = @ - 1]

ListCheck ==
  /\ In("list") /\ Top.pc = "check"
  /\ IF interrupted
     THEN LeaveList(Interrupted)
     ELSE stack' = At("before") /\ UNCHANGED <<shells, flow>>

ListItem ==
  /\ In("list") /\ (Top.pc = "item" \/ (Top.pc = "before" /\ ~TrapsDue))
  /\ Calls(AtWith("after", 0), Frame("and_or", "first", 0))

ListItemDone ==
  /\ GotOk("list")
  /\ stack' = AtWith("after", flow.n)
  /\ flow' = Running
  /\ UNCHANGED shells

ListNext ==
  /\ In("list") /\ (Top.pc = "next" \/ (Top.pc = "after" /\ ~TrapsDue))
  /\ stack' = At("check")
  /\ UNCHANGED <<shells, flow>>

(* A line may hold no command at all.                                       *)
ListEnd ==
  /\ In("list")
  /\ \/ Top.pc = "next"
     \/ Top.pc = "after" /\ ~TrapsDue
     \/ Top.pc = "check" /\ Caller \in {"line", "text"}
  /\ LeaveList(Ok(Top.st))

ListFails == GotErr("list") /\ LeaveList(flow)

-----------------------------------------------------------------------------
(* Traps: run_pending_traps, called by a list before and after each item.   *)

TakePending ==
  /\ In("list") /\ Top.pc \in {"before", "after"} /\ TrapsDue
  /\ arrived' = pending
  /\ pending' = {}
  /\ Calls(At(IF Top.pc = "before" THEN "item" ELSE "next"), Frame("traps", "next", 0))
  /\ UNCHANGED <<line, interrupted>>

RunTrap ==
  /\ In("traps")
  /\ \E s \in arrived :
       /\ \A t \in arrived : s <= t
       /\ arrived' = arrived \ {s}
  /\ stack' = Append(AtWith("trap", Me.status), Frame("text", "line", Me.status))
  /\ shells' = [shells EXCEPT ![K].running_trap = TRUE]
  /\ UNCHANGED <<flow, line, interrupted, pending>>
(* Mutant: `$?' is left as the command of the trap left it.                 *)
TrapDone_status ==
  /\ Got("traps")
  /\ shells' = [shells EXCEPT ![K].running_trap = FALSE]
  /\ IF flow.tag \in {"ok", "return", "break", "continue"}
     THEN stack' = At("next") /\ flow' = Running /\ UNCHANGED arrived
     ELSE stack' = Popped /\ UNCHANGED flow /\ arrived' = {}
  /\ UNCHANGED <<line, interrupted, pending>>

(* A `return' or `break' in the command ends nothing outside of it; any     *)
(* other unwind ends run_pending_traps at once.                             *)
TrapDone ==
  /\ Got("traps")
  /\ shells' = [shells EXCEPT ![K].running_trap = FALSE, ![K].status = Top.st]
  /\ IF flow.tag \in {"ok", "return", "break", "continue"}
     THEN stack' = At("next") /\ flow' = Running /\ UNCHANGED arrived
     ELSE stack' = Popped /\ UNCHANGED flow /\ arrived' = {}
  /\ UNCHANGED <<line, interrupted, pending>>

TrapsDone == In("traps") /\ arrived = {} /\ Gives(Running)

-----------------------------------------------------------------------------
(* `a && b || c'.                                                           *)

run_pipeline(base) ==
  \E negated \in {FALSE, "!" \in OperatorsHere} :
    Calls(base, Frame("pipeline", IF negated THEN "negated" ELSE "plain", 0))

AndOrFirst ==
  /\ In("and_or") /\ Top.pc = "first"
  /\ \/ run_pipeline(At("last"))
     \/ OperatorsHere \cap {"&&", "||"} # {} /\ ignoring_errexit(At("rest"), "pipeline")

(* One more part: it runs if its operator says so; only the last one counts *)
(* under `-e'.                                                              *)
AndOrRest ==
  /\ GotOk("and_or") /\ Top.pc = "rest"
  /\ \E op \in OperatorsHere \cap {"&&", "||"}, is_last \in BOOLEAN :
       LET go == IF op = "&&" THEN flow.n = 0 ELSE flow.n # 0
       IN  \/ go /\ is_last /\ run_pipeline(At("last"))
           \/ go /\ ~is_last /\ ignoring_errexit(stack, "pipeline")
           \/ ~go /\ is_last /\ Gives(flow)

-----------------------------------------------------------------------------
(* Pipelines, and the body of ignoring_errexit.                             *)

run_command(base) ==
  \E kind \in KindsHere : Calls(base, Frame("command", kind, 0))

run_commands(base) ==
  \/ run_command(base)
  \/ "|" \in OperatorsHere /\ Calls(base, Frame("stages", "first", 0))

Pipeline ==
  /\ In("pipeline")
  /\ \/ Top.pc = "plain" /\ run_commands(stack)
     \/ Top.pc = "negated" /\ ignoring_errexit(stack, "commands")

(* Mutant: `!' makes a status of whatever the commands end with.            *)
PipelineDone_any ==
  /\ Got("pipeline")
  /\ IF Top.pc = "plain"
     THEN Gives(flow)
     ELSE LET negated == IF flow.tag = "ok" /\ flow.n = 0 THEN 1 ELSE 0
          IN  /\ stack' = Popped
              /\ flow' = Ok(negated)
              /\ shells' = [shells EXCEPT ![K].status = negated]

PipelineDone ==
  /\ Got("pipeline")
  /\ IF Failed(flow) \/ Top.pc = "plain"
     THEN Gives(flow)
     ELSE LET negated == IF flow.n = 0 THEN 1 ELSE 0
          IN  /\ stack' = Popped
              /\ flow' = Ok(negated)
              /\ shells' = [shells EXCEPT ![K].status = negated]

IgnoringBody ==
  /\ In("ignoring")
  /\ \/ Top.pc = "pipeline" /\ run_pipeline(stack)
     \/ Top.pc = "commands" /\ run_commands(stack)
     \/ Top.pc = "list" /\ run_list(stack)
(* Mutant: `body(self)?' leaves before the count goes down.                 *)
IgnoringDone_try ==
  /\ Got("ignoring")
  /\ stack' = Popped
  /\ shells' = IF Failed(flow) THEN shells ELSE [shells EXCEPT ![K].errexit_off = @ - 1]
  /\ UNCHANGED flow

IgnoringDone ==
  /\ Got("ignoring")
  /\ stack' = Popped
  /\ shells' = [shells EXCEPT ![K].errexit_off = @ - 1]
  /\ UNCHANGED flow

-----------------------------------------------------------------------------
(* Copies of the shell: `( )', a pipeline stage, `$(...)'.                  *)

copy(base, body) ==
  /\ stack' = Append(base, [fn |-> "copy", pc |-> body, self |-> K + 1, st |-> 0])
  /\ shells' = Append(shells, subshell)
  /\ flow' = Running

CopyBody ==
  /\ In("copy")
  /\ \/ Top.pc = "list" /\ run_list(At("body"))
     \/ Top.pc = "command" /\ run_command(At("body"))

(* run_exit_trap: the trap is forgotten before its command runs.            *)
run_exit_trap(base, s) ==
  IF Me.exit_trap
  THEN /\ stack' = Append(base, Frame("exit_trap", "start", s))
       /\ shells' = [shells EXCEPT ![K].exit_trap = FALSE, ![K].status = s]
       /\ flow' = Running
  ELSE stack' = base /\ flow' = Ok(s) /\ UNCHANGED shells

finish_copy ==
  /\ Got("copy") /\ Top.pc = "body"
  /\ run_exit_trap(At("finished"), boundary(flow))

CopyDone ==
  /\ Got("copy") /\ Top.pc = "finished"
  /\ stack' = Popped
  /\ shells' = SubSeq(shells, 1, K - 1)
  /\ UNCHANGED flow

ExitTrapText == In("exit_trap") /\ Calls(stack, Frame("text", "line", Me.status))

ExitTrapDone ==
  /\ Got("exit_trap")
  /\ Gives(IF flow.tag = "exit" THEN Ok(flow.n) ELSE Ok(Top.st))

-----------------------------------------------------------------------------
(* run_stages.  The status is that of the last stage, or of the last one    *)
(* that failed (`pipefail').  A stage whose thread cannot start gives 1.    *)

StagesRun ==
  /\ In("stages")
  /\ \/ copy(stack, "command")
     \/ flow' = Ok(1) /\ UNCHANGED <<stack, shells>>

(* pipe2 fails: no stage runs and the status is not recorded.               *)
StagesNoPipe ==
  /\ PipesFail
  /\ In("stages") /\ Top.pc = "first"
  /\ Gives(errexit_check(1))

StageStatus(pipefail) == IF pipefail /\ flow.n = 0 THEN Top.st ELSE flow.n

StagesNext ==
  /\ GotOk("stages")
  /\ \E pipefail \in BOOLEAN : stack' = AtWith("more", StageStatus(pipefail))
  /\ flow' = Running
  /\ UNCHANGED shells

(* Mutant: Ctrl+C makes the shell wait for the stages again.                *)
StagesDone_again ==
  /\ GotOk("stages") /\ Top.pc = "more"
  /\ ~interrupted
  /\ \E pipefail \in BOOLEAN :
       /\ stack' = Popped
       /\ flow' = errexit_check(StageStatus(pipefail))
       /\ shells' = [shells EXCEPT ![K].status = StageStatus(pipefail)]

(* The last stage is over; a pipeline has two at least.                     *)
StagesDone ==
  /\ GotOk("stages") /\ Top.pc = "more"
  /\ IF interrupted
     THEN Gives(Interrupted)
     ELSE \E pipefail \in BOOLEAN :
            /\ stack' = Popped
            /\ flow' = errexit_check(StageStatus(pipefail))
            /\ shells' = [shells EXCEPT ![K].status = StageStatus(pipefail)]

-----------------------------------------------------------------------------
(* Compound commands.  The frame of run_command stays below what it runs.   *)

Compound(kind) == In("command") /\ Top.pc = kind

CommandGives(r) == flow' = r /\ UNCHANGED <<shells, stack>>

(* A redirection of a compound command that fails: the command does not     *)
(* run, its status is 2, and `-e' is not looked at.                         *)
RedirectFails ==
  /\ In("command") /\ Top.pc \in AllKinds \ {"simple"}
  /\ "failing" \in SimplesHere
  /\ \/ /\ stack' = Popped /\ flow' = Ok(2)
        /\ shells' = [shells EXCEPT ![K].status = 2]
     \/ Gives(Error)

(* A `case' runs an arm, or none, or an expansion fails; the words of a     *)
(* `for' can fail too.                                                      *)
run_compound ==
  \/ Compound("subshell") /\ copy(stack, "list")
  \/ Compound("group") /\ run_list(stack)
  \/ Compound("if") /\ Calls(stack, Frame("if", "condition", 0))
  \/ Compound("case") /\ run_list(stack)
  \/ (Compound("case") \/ Compound("function")) /\ CommandGives(Ok(0))
  \/ (Compound("case") \/ Compound("for")) /\ CommandGives(Error)
  \/ /\ Compound("while") \/ Compound("for")
     /\ stack' = Append(stack, Frame("loop", Top.pc, 0))
     /\ shells' = [shells EXCEPT ![K].loop_depth = @ + 1]
     /\ flow' = Running

IfCondition == In("if") /\ ignoring_errexit(At("tested"), "list")

IfTested ==
  /\ GotOk("if") /\ Top.pc = "tested"
  /\ \/ flow.n = 0 /\ run_list(At("body"))
     \/ /\ flow.n # 0
        /\ \/ stack' = At("condition") /\ flow' = Running /\ UNCHANGED shells
           \/ run_list(At("body"))
           \/ Gives(Ok(0))

-----------------------------------------------------------------------------
(* Loops: `while', `until' and `for' differ in how a pass begins.           *)

LeaveLoop(r) ==
  /\ stack' = Popped
  /\ flow' = r
  /\ shells' = [shells EXCEPT ![K].loop_depth = @ - 1]

LoopPass ==
  /\ In("loop") /\ Top.pc \in {"while", "for"}
  /\ \/ interrupted /\ LeaveLoop(Interrupted)
     \/ ~interrupted /\ Top.pc = "while" /\ ignoring_errexit(At("condition"), "list")
     \/ ~interrupted /\ Top.pc = "for" /\ (run_list(At("for_body")) \/ LeaveLoop(Error))
     \/ Top.pc = "for" /\ LeaveLoop(Ok(Top.st))

LoopTested ==
  /\ GotOk("loop") /\ Top.pc = "condition"
  /\ \E until \in BOOLEAN :
       IF (flow.n = 0) = until
       THEN LeaveLoop(Ok(Top.st))
       ELSE run_list(At("while_body"))

(* loop_body: what the body of a loop can end with.                         *)
NextPass == IF Top.pc = "for_body" THEN "for" ELSE "while"

loop_body ==
  /\ Got("loop") /\ Top.pc \in {"while_body", "for_body"}
  /\ \/ /\ flow.tag = "ok"
        /\ stack' = AtWith(NextPass, flow.n) /\ flow' = Running /\ UNCHANGED shells
     \/ /\ flow.tag = "continue" /\ flow.n <= 1
        /\ stack' = At(NextPass) /\ flow' = Running /\ UNCHANGED shells
     \/ /\ flow.tag = "break" /\ flow.n <= 1
        /\ LeaveLoop(Ok(Top.st))
     \/ /\ flow.tag \in {"break", "continue"} /\ flow.n > 1
        /\ LeaveLoop([flow EXCEPT !.n = @ - 1])
     \/ /\ flow.tag \notin {"ok", "break", "continue"}
        /\ LeaveLoop(flow)

(* A condition that does not end with a status ends the loop with `?'.      *)
LoopConditionFails ==
  /\ GotErr("loop") /\ Top.pc = "condition"
  /\ LeaveLoop(flow)

-----------------------------------------------------------------------------
(* Simple commands: the words are expanded, INTERRUPTED is looked at, then  *)
(* the builtin, function or program runs.                                   *)

Expanding    == In("command") /\ Top.pc = "simple"
Substituting == Top.pc \in {"words", "assignments"}

(* A `$(...)' in the words, or in the redirections and assignments, which   *)
(* come later: it runs on a copy, and the last one's status is kept.        *)
command_substitution ==
  \/ /\ In("command") /\ "cmdsub" \in SimplesHere
     /\ \/ Top.pc = "simple" /\ copy(At("words"), "list")
        \/ Top.pc = "ready" /\ copy(At("assignments"), "list")
  \/ /\ GotOk("command") /\ Substituting
     /\ stack' = AtWith(IF Top.pc = "words" THEN "simple" ELSE "ready", flow.n)
     /\ flow' = Running
     /\ UNCHANGED shells

ExpansionFails == Expanding /\ "failing" \in SimplesHere /\ CommandGives(Error)

(* Ctrl+C leaves the words incomplete: the command does not run.            *)
Expanded ==
  /\ Expanding
  /\ IF interrupted
     THEN CommandGives(Interrupted)
     ELSE stack' = At("ready") /\ UNCHANGED <<shells, flow>>

Simple(kind) == In("command") /\ Top.pc = "ready" /\ kind \in SimplesHere

(* A redirection fails: of a special builtin, or of another command.        *)
SimpleFails == Simple("failing") /\ (CommandGives(Error) \/ CommandGives(Ok(2)))

(* Only assignments: the status is that of the last `$(...)', if any.       *)
RunAssignment == Simple("assign") /\ CommandGives(Ok(Top.st))

(* emit: a write to a pipe whose reader has gone ends a copy.               *)
RunBuiltin ==
  /\ Simple("builtin")
  /\ \/ \E s \in Results : CommandGives(Ok(s))
     \/ Me.in_subshell /\ \E s \in Results \ {0} : CommandGives(Exit(s))

(* A program that survived Ctrl+C clears the flag; one that died of it does *)
(* not, and neither does one that cannot be started.                        *)
run_program(tag) ==
  \E s \in Results, ending \in {"not_started", "died_of_it", "ended"} :
    /\ ending = "not_started" => s # 0
    /\ ending = "died_of_it" => s = 130
    /\ flow' = [tag |-> tag, n |-> s]
    /\ interrupted' = (interrupted /\ ending # "ended")
    /\ UNCHANGED <<shells, stack, line, pending, arrived>>

RunProgram == Simple("program") /\ run_program("ok")

(* replace_with: the program cannot start; a copy runs it and ends with its *)
(* status; the main shell becomes it.                                       *)
replace_with ==
  /\ Simple("exec")
  /\ \/ CommandGives(Ok(1)) /\ UNCHANGED <<line, signalVars>>
     \/ Me.in_subshell /\ run_program("exit")
     \/ ~Me.in_subshell /\ line' = "ended" /\ UNCHANGED <<shells, stack, flow, signalVars>>

(* Without an operand, the status of the last command.                      *)
Operands == Results \cup {Me.status}

RunExit == Simple("exit") /\ \E s \in Operands : CommandGives(Exit(s))

RunReturn ==
  /\ Simple("return")
  /\ \/ (Me.func_depth = 0 \/ "failing" \in SimplesHere) /\ CommandGives(Ok(2))
     \/ Me.func_depth > 0 /\ \E s \in Operands : CommandGives(Return(s))

(* Mutant: n is not cut to the number of loops there are.                   *)
loop_control_uncut(kind) ==
  /\ Simple(kind)
  /\ Me.loop_depth > 0
  /\ \E n \in 1..MaxCount : CommandGives([tag |-> kind, n |-> n])

(* `break n' and `continue n'.  Outside of a loop they do nothing.          *)
loop_control(kind) ==
  /\ Simple(kind)
  /\ \/ "failing" \in SimplesHere /\ CommandGives(Ok(2))
     \/ Me.loop_depth = 0 /\ CommandGives(Ok(0))
     \/ /\ Me.loop_depth > 0
        /\ \E n \in 1..MaxCount :
             CommandGives([tag |-> kind, n |-> IF n < Me.loop_depth THEN n ELSE Me.loop_depth])

RunSet ==
  /\ Simple("set")
  /\ \E e \in BOOLEAN : shells' = [shells EXCEPT ![K].errexit = e]
  /\ flow' = Ok(0)
  /\ UNCHANGED stack

(* `trap ... EXIT', maybe with another name that is not a signal.           *)
SetExitTrap ==
  /\ Simple("trap")
  /\ \E t \in BOOLEAN : shells' = [shells EXCEPT ![K].exit_trap = t]
  /\ flow' \in {Ok(0), Ok(1)}
  /\ UNCHANGED stack

call_function ==
  /\ Simple("call")
  /\ enter(stack, Frame("call", "body", 0),
           [Me EXCEPT !.depth = @ + 1, !.func_depth = @ + 1])

(* The body of a function is a compound command.                            *)
FunctionBody ==
  /\ In("call")
  /\ \E kind \in KindsHere \ {"simple", "function"} : Calls(stack, Frame("command", kind, 0))
(* Mutant: an unwind other than `return' leaves before the counts go down.  *)
FunctionDone_try ==
  /\ Got("call")
  /\ stack' = Popped
  /\ flow' = IF flow.tag = "return" THEN Ok(flow.n) ELSE flow
  /\ shells' = IF flow.tag \in {"ok", "return"}
               THEN [shells EXCEPT ![K].func_depth = @ - 1, ![K].depth = @ - 1]
               ELSE shells

FunctionDone ==
  /\ Got("call")
  /\ stack' = Popped
  /\ flow' = IF flow.tag = "return" THEN Ok(flow.n) ELSE flow
  /\ shells' = [shells EXCEPT ![K].func_depth = @ - 1, ![K].depth = @ - 1]

(* run_command: the status is recorded, then `-e' has its say.              *)
CommandDone ==
  /\ GotOk("command") /\ ~Substituting
  /\ stack' = Popped
  /\ shells' = [shells EXCEPT ![K].status = flow.n]
  /\ flow' = IF Top.pc \in {"ready", "subshell"} THEN errexit_check(flow.n) ELSE flow

-----------------------------------------------------------------------------
(* run_text: `eval', `.', and the commands of traps, one complete command   *)
(* at a time.                                                               *)

RunEval ==
  \/ Simple("eval") /\ (CommandGives(Ok(0)) \/ Calls(stack, Frame("text", "line", Me.status)))
  \/ Simple("eval") /\ "failing" \in SimplesHere /\ CommandGives(Ok(2))

RunDot ==
  \/ /\ Simple("dot")
     /\ stack' = Append(stack, Frame("dot", "start", 0))
     /\ shells' = [shells EXCEPT ![K].func_depth = @ + 1]
     /\ flow' = Running
  \/ Simple("dot") /\ "failing" \in SimplesHere /\ (CommandGives(Ok(1)) \/ CommandGives(Ok(2)))

DotText == In("dot") /\ Calls(stack, Frame("text", "line", Me.status))

DotDone ==
  /\ Got("dot")
  /\ stack' = Popped
  /\ flow' = IF flow.tag = "return" THEN Ok(flow.n) ELSE flow
  /\ shells' = [shells EXCEPT ![K].func_depth = @ - 1]

TextLine == In("text") /\ run_list(stack)

(* The text is over, or what comes next is a mistake.                       *)
TextEnd == In("text") /\ (Gives(Ok(Top.st)) \/ Gives(Ok(2)))
TextLineDone ==
  /\ GotOk("text")
  /\ stack' = AtWith("line", flow.n)
  /\ shells' = [shells EXCEPT ![K].status = flow.n]
  /\ flow' = Running

-----------------------------------------------------------------------------
(* Shell::run and the read-run loop.                                        *)

StartLine ==
  /\ line = "prompt"
  /\ line' = "running"
  /\ interrupted' = FALSE
  /\ run_list(<<>>)
  /\ UNCHANGED <<pending, arrived>>

(* The line was refused before anything ran.                                *)
RejectLine ==
  /\ line = "prompt"
  /\ shells' = [shells EXCEPT ![1].status = 2]
  /\ UNCHANGED <<stack, flow, line, signalVars>>

LineOver == line = "running" /\ stack = <<>> /\ flow # Running

FinishLine ==
  /\ LineOver /\ flow.tag # "exit"
  /\ line' = "prompt"
  /\ flow' = Running
  /\ shells' = [shells EXCEPT ![1].status =
                  IF flow.tag \in {"break", "continue"} THEN @ ELSE boundary(flow)]
  /\ interrupted' = IF flow.tag \in {"ok", "interrupted"} THEN FALSE ELSE interrupted
  /\ UNCHANGED <<stack, pending, arrived>>

FinishShell ==
  /\ LineOver /\ flow.tag = "exit"
  /\ line' = "ending"
  /\ run_exit_trap(<<>>, flow.n)
  /\ UNCHANGED signalVars

EndOfInput ==
  /\ line = "prompt"
  /\ line' = "ending"
  /\ run_exit_trap(<<>>, shells[1].status)
  /\ UNCHANGED signalVars

(* A read error, unlike the end of the input, ends the shell at once.       *)
InputFails ==
  /\ line = "prompt"
  /\ line' = "ended"
  /\ UNCHANGED <<shells, stack, flow, signalVars>>

EndShell ==
  /\ line = "ending" /\ stack = <<>>
  /\ line' = "ended"
  /\ UNCHANGED <<shells, stack, flow, signalVars>>

Ended == line = "ended" /\ UNCHANGED vars

-----------------------------------------------------------------------------
(* The world: Ctrl+C and the other signals come at any moment.              *)

CtrlC ==
  /\ Interactive /\ line # "ended"
  /\ interrupted' = TRUE
  /\ UNCHANGED <<shells, stack, flow, line, pending, arrived>>

SignalArrives ==
  /\ line # "ended"
  /\ \E s \in Signals : pending' = pending \cup {s}
  /\ UNCHANGED <<shells, stack, flow, line, interrupted, arrived>>

-----------------------------------------------------------------------------

Init ==
  /\ shells = <<NewShell>>
  /\ stack = <<>>
  /\ flow = Running
  /\ line = "prompt"
  /\ interrupted = FALSE
  /\ pending = {}
  /\ arrived = {}

(* What the executor does from the start of a line to its end.              *)
Execute ==
  /\ \/ ListCheck \/ ListItem \/ ListItemDone \/ ListNext \/ ListEnd \/ ListFails
     \/ TrapsDone \/ AndOrFirst \/ AndOrRest \/ PassOn
     \/ Pipeline \/ PipelineDone \/ IgnoringBody \/ IgnoringDone
     \/ CopyBody \/ finish_copy \/ CopyDone \/ ExitTrapText \/ ExitTrapDone
     \/ StagesRun \/ StagesNoPipe \/ StagesNext \/ StagesDone
     \/ RedirectFails \/ run_compound \/ IfCondition \/ IfTested
     \/ LoopPass \/ LoopTested \/ loop_body \/ LoopConditionFails
     \/ command_substitution \/ ExpansionFails \/ Expanded
     \/ SimpleFails \/ RunAssignment \/ RunBuiltin \/ RunExit \/ RunReturn
     \/ loop_control("break") \/ loop_control("continue")
     \/ RunSet \/ SetExitTrap \/ call_function \/ FunctionBody \/ FunctionDone
     \/ RunEval \/ RunDot \/ DotText \/ DotDone \/ TextLine \/ TextEnd \/ TextLineDone
     \/ CommandDone
  /\ UNCHANGED <<line, signalVars>>

RunningALine ==
  /\ line # "ended"
  /\ \/ Execute \/ RunProgram \/ replace_with
     \/ TakePending \/ RunTrap \/ TrapDone
     \/ FinishLine \/ FinishShell \/ EndShell

Next ==
  \/ RunningALine
  \/ StartLine \/ RejectLine \/ EndOfInput \/ InputFails \/ Ended
  \/ CtrlC \/ SignalArrives

Spec == Init /\ [][Next]_vars

(* The shell's own thread keeps running; the user and the world need not.   *)
(* What a program is made of is finite: the words of a command, the stages  *)
(* of a pipeline, the lines of a text.                                      *)
Ends(Action) == Action /\ UNCHANGED <<line, signalVars>>

Fairness ==
  /\ WF_vars(RunningALine)
  /\ SF_vars(Ends(Expanded))
  /\ SF_vars(Ends(StagesDone))
  /\ SF_vars(Ends(TextEnd))

FairSpec == Spec /\ Fairness

-----------------------------------------------------------------------------
(* Properties.                                                              *)

(* The places where a call can stand.                                       *)
Pcs == AllKinds \cup
  {"check", "before", "item", "after", "next", "first", "rest", "last", "plain", "negated",
   "pipeline", "commands", "list", "command", "body", "finished", "start", "line", "more",
   "condition", "tested", "while_body", "for_body", "words", "assignments", "ready", "trap"}

FrameType == [fn : Fns, pc : Pcs, self : Nat, st : Statuses]

FlowTags == {"running", "ok", "exit", "return", "break", "continue", "error", "interrupted"}

FlowOK(f) ==
  /\ f \in [tag : FlowTags, n : Nat]
  /\ f.tag \in {"ok", "exit", "return", "error"} => f.n \in Statuses
  /\ f.tag = "running" => f.n = 0

(* Every variable holds a value of the Rust type it stands for; there is    *)
(* always a shell that runs.                                                *)
TypeOK ==
  /\ shells \in Seq(Shell) /\ shells # <<>>
  /\ stack \in Seq(FrameType)
  /\ FlowOK(flow)
  /\ line \in {"prompt", "running", "ending", "ended"}
  /\ interrupted \in BOOLEAN
  /\ pending \subseteq Signals
  /\ arrived \subseteq Signals

(* The calls in progress that shell k or the shells it was copied from      *)
(* have made to a function in S.                                            *)
CallsTo(S, k) == {i \in DOMAIN stack : stack[i].fn \in S /\ stack[i].self <= k}

(* The counters of every shell are the number of calls in progress they     *)
(* count, whichever way calls end: an early `?', an unwind through lists,   *)
(* loops and functions, or a level refused by the depth limit.  With no     *)
(* call in progress they are all 0, so a line never starts with a count     *)
(* that an earlier line left behind.                                        *)
Balanced ==
  \A k \in DOMAIN shells :
    /\ shells[k].depth = Cardinality(CallsTo({"list", "call"}, k))
    /\ shells[k].loop_depth = Cardinality(CallsTo({"loop"}, k))
    /\ shells[k].func_depth = Cardinality(CallsTo({"call", "dot"}, k))
    /\ shells[k].errexit_off = Cardinality(CallsTo({"ignoring"}, k))

(* Recursion of any shape, through functions, `eval', `.', `$(...)',        *)
(* pipelines, traps or any mix of them, stops before the calls of the shell *)
(* overflow the stack they run on: no more than CallsPerLevel calls are in  *)
(* progress for each level that is counted, and two more (the EXIT trap of  *)
(* the main shell and its text) that no level surrounds.  That is all that  *)
(* MAX_DEPTH, a number of levels, says about the stack's bytes.             *)
CallsPerLevel == 11

StackBounded ==
  /\ Me.depth <= MAX_DEPTH
  /\ Len(stack) <= CallsPerLevel * Me.depth + 2

(* A problem that ends the line (a nesting refused among them), `exit' and  *)
(* Ctrl+C end every call in progress, and nothing more runs: no `||', `!',  *)
(* condition, loop, function or trap command makes a status of them.  Only  *)
(* a copy of the shell and the EXIT trap are ends of their own.             *)
EndsEverything ==
  [][flow.tag \in {"error", "exit", "interrupted"} /\ stack # <<>>
       => \/ Top.fn \in {"copy", "exit_trap"}
          \/ flow' = flow /\ Len(stack') <= Len(stack)]_vars

(* `break n' and `continue n' have n loops to leave among the calls in      *)
(* progress, and `return' a function or file: the line they are typed on is *)
(* never their target.                                                      *)
LoopsToLeave == flow.tag \in {"break", "continue"} => flow.n \in 1..Cardinality(CallsTo({"loop"}, K))
ReturnEnds   == flow.tag = "return" => CallsTo({"call", "dot"}, K) # {}

(* An unwind finds what handles it on its whole way up, whatever it passes; *)
(* only a loop whose own condition holds the `break' or `continue' loses it *)
(* its loop, because the condition's `?' does not count the loop it ends.   *)
UnwindHasHandler ==
  [][/\ ReturnEnds'
     /\ LoopsToLeave => \/ LoopsToLeave'
                        \/ Top.fn = "loop" /\ Top.pc = "condition"]_vars

(* `$?' is the status of the last command wherever a list looks at it:      *)
(* before an item, after it, and after the commands of traps that ran in    *)
(* between.                                                                 *)
DollarStatus == In("list") => Me.status = Top.st

(* Traps run in the main shell only, one at a time, and never inside        *)
(* themselves; the flag that ensures it is up exactly while one runs.       *)
OneTrapAtATime ==
  \A k \in DOMAIN shells :
    shells[k].running_trap <=>
      Cardinality({i \in DOMAIN stack : stack[i].fn = "traps" /\ stack[i].pc = "trap"
                                       /\ stack[i].self = 1}) = 1

(* Under `-e' a command that fails ends its shell exactly when no condition,*)
(* left side of `&&' and `||', or `!' is around it: not around the command  *)
(* itself, a function or text it is in, or the copy of the shell that runs  *)
(* it.                                                                      *)
FailsUnchecked == GotOk("command") /\ Top.pc \in {"ready", "subshell"} /\ flow.n # 0

ErrexitDecides ==
  [][FailsUnchecked /\ Len(stack') < Len(stack)
       => (flow'.tag = "exit" <=> Me.errexit /\ CallsTo({"ignoring"}, K) = {})]_vars

(* A signal that arrived stays pending until its command starts.            *)
NoSignalForgotten ==
  [][pending \cup arrived # pending' \cup arrived'
       => \/ pending \cup arrived \subseteq pending' \cup arrived'
          \/ stack'[Len(stack')].fn = "text"]_vars

(* The EXIT trap does not start under a Ctrl+C that came before the shell   *)
(* began to end: its list would end before its first command.               *)
ExitTrapStarts ==
  [][line # "ending" /\ line' = "ending" /\ stack' # <<>> => ~interrupted]_vars

(* The shell does not end with an EXIT trap that has not run.  (`exec' ends *)
(* no shell: a program takes its place.)                                    *)
ExitTrapRuns == [][line = "prompt" /\ line' = "ended" => ~Me.exit_trap]_vars

(* Ctrl+C ends the line, endless loops and recursion included, unless a     *)
(* program that survived it takes it as its own.                            *)
InterruptEndsLine ==
  (interrupted /\ line = "running") ~> (~interrupted \/ line # "running")

=============================================================================
