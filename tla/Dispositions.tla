---------------------------- MODULE Dispositions ----------------------------
(***************************************************************************)
(* What happens when a signal arrives: the dispositions of the process     *)
(* (signals.rs), the traps of the main shell and of its copies (traps.rs,  *)
(* builtins/trap.rs), what a program starts with (spawn.rs:                *)
(* become_program), and `exec', which prepares the shell itself the same   *)
(* way (replace_process).                                                  *)
(*                                                                         *)
(* A disposition belongs to the process; a trap belongs to a shell, and    *)
(* the copies of the shell are threads of the one process.                 *)
(***************************************************************************)
CONSTANTS
  Main,       \* the main shell
  Copies,     \* its copies: subshells, stages, substitutions
  Trappable   \* signals that `trap' takes; "TERM" stands for all it alone changes

ASSUME MainAssumption == Main \notin Copies
ASSUME TrappableAssumption == Trappable \subseteq {"INT", "QUIT", "TERM"}

Shells == {Main} \cup Copies

Signals == Trappable \cup {"PIPE"}

(* The signals the keyboard sends, to every process in the foreground.      *)
Keys == Trappable \cap {"INT", "QUIT"}

(* What become_program sets back to the default.                            *)
Reset == {"INT", "QUIT", "PIPE"}

Actions == {"none", "ignore", "command"}

(* "interrupt" and "trapped" are the handlers on_interrupt and on_trapped.  *)
Kinds == {"default", "ignore", "interrupt", "trapped"}

VARIABLES
  interactive,  \* SURVIVES_INTERRUPTS
  disp,         \* the dispositions of the process
  traps,        \* the traps of each shell
  parent,       \* the shell a copy was made by; a shell that is none: itself
  child,        \* the program each shell runs
  cdisp,        \* its dispositions
  process,      \* what the process is doing
  killer,       \* the signal that killed the shell
  execTried    \* history: has there been an `exec'?

vars == <<interactive, disp, traps, parent, child, cdisp, process, killer, execTried>>

NoTraps   == [sig \in Trappable |-> "none"]
NoProgram == [sig \in Signals |-> "default"]

Exists(s) == s = Main \/ parent[s] # s

(* A shell waits for its copies and for its program.                        *)
Runs(s) ==
  /\ process = "shell" /\ Exists(s)
  /\ child[s] = "none"
  /\ \A c \in Copies : parent[c] = s => c = s

-----------------------------------------------------------------------------
(* set_disposition.                                                        *)

(* Mutant: without a trap, the default; also in an interactive shell.       *)
Handler_default(sig, action) ==
  CASE action = "ignore"  -> "ignore"
    [] action = "command" -> "trapped"
    [] OTHER -> "default"

(* Mutant: no case of its own for a signal without a trap.                  *)
Handler_none(sig, action) == IF action = "command" THEN "trapped" ELSE action

Handler(sig, action) ==
  CASE action = "ignore"  -> "ignore"
    [] action = "command" -> "trapped"
    [] action = "none" /\ interactive /\ sig = "INT"  -> "interrupt"
    [] action = "none" /\ interactive /\ sig = "QUIT" -> "ignore"
    [] OTHER -> "default"

(* Mutant: a copy sets the disposition of the process.                      *)
Trap_anywhere(s, sig, action) ==
  /\ Runs(s)
  /\ traps' = [traps EXCEPT ![s][sig] = action]
  /\ disp' = [disp EXCEPT ![sig] = Handler(sig, action)]
  /\ UNCHANGED <<interactive, parent, child, cdisp, process, killer, execTried>>

(* `trap'.                                                                  *)
Trap(s, sig, action) ==
  /\ Runs(s)
  /\ traps' = [traps EXCEPT ![s][sig] = action]
  /\ disp' = IF s = Main THEN [disp EXCEPT ![sig] = Handler(sig, action)] ELSE disp
  /\ UNCHANGED <<interactive, parent, child, cdisp, process, killer, execTried>>

(* for_subshell: ignored signals stay ignored, commands are forgotten.      *)
ForSubshell(ts) ==
  [sig \in Trappable |-> IF ts[sig] = "ignore" THEN "ignore" ELSE "none"]

StartCopy(s, c) ==
  /\ Runs(s) /\ ~Exists(c)
  /\ parent' = [parent EXCEPT ![c] = s]
  /\ traps' = [traps EXCEPT ![c] = ForSubshell(traps[s])]
  /\ UNCHANGED <<interactive, disp, child, cdisp, process, killer, execTried>>

(* A stage of the same pipeline may be started while others run.            *)
StartStage(s, c) ==
  /\ process = "shell" /\ Exists(s) /\ child[s] = "none" /\ ~Exists(c)
  /\ \E d \in Copies \ {s} : parent[d] = s
  /\ parent' = [parent EXCEPT ![c] = s]
  /\ traps' = [traps EXCEPT ![c] = ForSubshell(traps[s])]
  /\ UNCHANGED <<interactive, disp, child, cdisp, process, killer, execTried>>

EndCopy(c) ==
  /\ c # Main /\ Runs(c)
  /\ parent' = [parent EXCEPT ![c] = c]
  /\ traps' = [traps EXCEPT ![c] = NoTraps]
  /\ UNCHANGED <<interactive, disp, child, cdisp, process, killer,
                 execTried>>

-----------------------------------------------------------------------------
(* A program.                                                              *)

Ignored(s) == {sig \in Trappable : traps[s][sig] = "ignore"}

(* Mutant: SIGPIPE is not in the list.                                      *)
Prepared_pipe(s, before) ==
  [sig \in Signals |->
     IF sig \in {"INT", "QUIT"} \ Ignored(s) THEN "default" ELSE before[sig]]

(* Mutant: the mask of ignored signals is not looked at.                    *)
Prepared_all(s, before) ==
  [sig \in Signals |-> IF sig \in Reset THEN "default" ELSE before[sig]]

(* become_program, up to execve.                                            *)
Prepared(s, before) ==
  [sig \in Signals |-> IF sig \in Reset \ Ignored(s) THEN "default" ELSE before[sig]]

Fork(s) ==
  /\ Runs(s)
  /\ child' = [child EXCEPT ![s] = "forked"]
  /\ cdisp' = [cdisp EXCEPT ![s] = disp]
  /\ UNCHANGED <<interactive, disp, traps, parent, process, killer, execTried>>

Prepare(s) ==
  /\ child[s] = "forked"
  /\ child' = [child EXCEPT ![s] = "prepared"]
  /\ cdisp' = [cdisp EXCEPT ![s] = Prepared(s, @)]
  /\ UNCHANGED <<interactive, disp, traps, parent, process, killer, execTried>>

(* execve: what was caught is at its default, what was ignored stays so.    *)
Execve(before) ==
  [sig \in Signals |-> IF before[sig] = "ignore" THEN "ignore" ELSE "default"]

Start(s) ==
  /\ child[s] = "prepared"
  /\ child' = [child EXCEPT ![s] = "program"]
  /\ cdisp' = [cdisp EXCEPT ![s] = Execve(@)]
  /\ UNCHANGED <<interactive, disp, traps, parent, process, killer, execTried>>

(* execve fails, or the program is over.                                    *)
ChildEnds(s) ==
  /\ child[s] \in {"prepared", "program"}
  /\ child' = [child EXCEPT ![s] = "none"]
  /\ cdisp' = [cdisp EXCEPT ![s] = NoProgram]
  /\ UNCHANGED <<interactive, disp, traps, parent, process, killer, execTried>>

(* `exec' in the main shell: the process becomes the program ...            *)
PrepareExec ==
  /\ Runs(Main)
  /\ process' = "exec"
  /\ execTried' = TRUE
  /\ disp' = Prepared(Main, disp)
  /\ UNCHANGED <<interactive, traps, parent, child, cdisp, killer>>

ExecBecomes ==
  /\ process = "exec"
  /\ process' = "program"
  /\ disp' = Execve(disp)
  /\ UNCHANGED <<interactive, traps, parent, child, cdisp, killer, execTried>>

(* ... or the shell goes on.                                                *)
ExecFails ==
  /\ process = "exec"
  /\ process' = "shell"
  /\ UNCHANGED <<interactive, disp, traps, parent, child, cdisp, killer, execTried>>

-----------------------------------------------------------------------------
(* What reaches the shell, from the keyboard, from kill or from a pipe.     *)

(* What kills a process that has the default disposition.                   *)
Hits(sig) ==
  /\ process' = IF disp[sig] = "default" THEN "killed" ELSE process
  /\ killer' = IF disp[sig] = "default" THEN sig ELSE killer
  /\ UNCHANGED <<interactive, disp, traps, parent, child, cdisp, execTried>>

Arrive(sig) == process = "shell" /\ Hits(sig)

(* A shell writes to a pipe that nobody reads.                              *)
WriteToBrokenPipe(s) == Runs(s) /\ Hits("PIPE")

Done == process \in {"killed", "program"} /\ UNCHANGED vars

-----------------------------------------------------------------------------
(* Rust's runtime ignores SIGPIPE; catch_interrupts; the rest is inherited. *)
Init ==
  /\ interactive \in BOOLEAN
  /\ disp \in {d \in [Signals -> {"default", "ignore", "interrupt"}] :
                /\ d["PIPE"] = "ignore"
                /\ \A sig \in Trappable :
                     IF interactive /\ sig \in Keys THEN d[sig] = Handler(sig, "none")
                                                   ELSE d[sig] # "interrupt"}
  /\ traps = [s \in Shells |-> NoTraps]
  /\ parent = [s \in Shells |-> s]
  /\ child = [s \in Shells |-> "none"]
  /\ cdisp = [s \in Shells |-> NoProgram]
  /\ process = "shell"
  /\ killer = "none"
  /\ execTried = FALSE

Next ==
  \/ \E s \in Shells :
       \/ \E sig \in Trappable, action \in Actions : Trap(s, sig, action)
       \/ \E c \in Copies : StartCopy(s, c) \/ StartStage(s, c)
       \/ Fork(s) \/ Prepare(s) \/ Start(s) \/ ChildEnds(s)
       \/ WriteToBrokenPipe(s)
  \/ \E c \in Copies : EndCopy(c)
  \/ \E sig \in Trappable : Arrive(sig)
  \/ PrepareExec \/ ExecBecomes \/ ExecFails
  \/ Done

Spec == Init /\ [][Next]_vars

-----------------------------------------------------------------------------
TypeOK ==
  /\ interactive \in BOOLEAN
  /\ disp \in [Signals -> Kinds]
  /\ traps \in [Shells -> [Trappable -> Actions]]
  /\ parent \in [Shells -> Shells]
  /\ child \in [Shells -> {"none", "forked", "prepared", "program"}]
  /\ cdisp \in [Shells -> [Signals -> Kinds]]
  /\ process \in {"shell", "exec", "program", "killed"}
  /\ killer \in Signals \cup {"none"}
  /\ execTried \in BOOLEAN

(* The dispositions are those the traps of the main shell ask for, whatever *)
(* its copies trap, start or end meanwhile: a trap that is set is caught, a *)
(* signal that a trap ignores is ignored, and no handler is left behind by  *)
(* a trap that is gone.  Those that become_program resets are left out once *)
(* there was an `exec' (see SurvivesKeys).                                  *)
FollowsTrap(sig) ==
  CASE traps[Main][sig] = "ignore"  -> disp[sig] = "ignore"
    [] traps[Main][sig] = "command" -> disp[sig] = "trapped"
    [] OTHER -> \/ interactive /\ sig = "INT"  /\ disp[sig] = "interrupt"
                \/ interactive /\ sig = "QUIT" /\ disp[sig] = "ignore"
                \/ ~(interactive /\ sig \in Keys) /\ disp[sig] \in {"default", "ignore"}

DispositionsFollowTraps ==
  process = "shell" =>
    \A sig \in Trappable : FollowsTrap(sig) \/ (execTried /\ sig \in Reset)

(* A broken pipe ends a program, and so do the keys, unless a trap of the   *)
(* very shell that started it ignores them; and none has a handler of the   *)
(* shell.                                                                   *)
ProgramDefaults ==
  \A s \in Shells : child[s] = "program" =>
    /\ cdisp[s]["PIPE"] = "default"
    /\ \A sig \in Keys :
         cdisp[s][sig] = "default" \/ (cdisp[s][sig] = "ignore" /\ traps[s][sig] = "ignore")

(* What the main shell ignores and the shell that started it too, is        *)
(* ignored in a program, however many copies deep it was started, whatever  *)
(* other copies trap.                                                       *)
ProgramIgnores ==
  \A s \in Shells, sig \in Trappable :
    /\ child[s] = "program"
    /\ traps[s][sig] = "ignore" /\ traps[Main][sig] = "ignore"
    => cdisp[s][sig] = "ignore"

(* An interactive shell outlives Ctrl+C and Ctrl+\, as catch_interrupts     *)
(* says, also after an `exec' that failed.                                  *)
SurvivesKeys == interactive => killer \notin Keys

(* As long as there was no `exec', it does, and no shell, interactive or    *)
(* not, dies of a broken pipe.                                              *)
SurvivesUntilExec ==
  ~execTried => SurvivesKeys /\ killer # "PIPE"
=============================================================================
