------------------------------- MODULE Spawn -------------------------------
(***************************************************************************)
(* How a table of files becomes the descriptors of a program (io.rs:       *)
(* Io::plan; spawn.rs: apply_plan, become_program), and how the shell      *)
(* learns that the program runs (spawn.rs: start, fail, read_report,       *)
(* wait).                                                                  *)
(*                                                                         *)
(* A file is named by the number the shell has it open as, so a table maps *)
(* a descriptor of the program to a descriptor of the shell, as FdPlan's   *)
(* pairs do.  The process that becomes the program is a child (way =       *)
(* "start") or the shell itself (way = "replace").                         *)
(***************************************************************************)
EXTENDS Integers

CONSTANTS
  Limit,      \* RLIMIT_NOFILE: a process has the descriptors 0 .. Limit - 1
  RawFdMax,   \* the largest RawFd; `9999999999>file' names a larger one
  Targets,    \* the descriptors a table may name
  Sources,    \* the descriptors behind the shell's tables, all close-on-exec
  Inherited   \* descriptors from 3 up the shell was itself started with

ASSUME LimitAssumption == Limit \in Nat \ (0 .. 2) /\ RawFdMax \in Nat
ASSUME TargetsAssumption == Targets \subseteq Nat
ASSUME SourcesAssumption == Sources \subseteq 3 .. Limit - 1
ASSUME InheritedAssumption == Inherited \subseteq (3 .. Limit - 1) \ Sources

FD == 0 .. Limit - 1
Standard == 0 .. 2
Closed == -1
Errnos == {"EMFILE", "ENOENT", "EACCES"}

VARIABLES
  way,        \* "start" (a child) or "replace" (`exec')
  io,         \* the table of the command
  floor,      \* FdPlan::floor
  scratch,    \* FdPlan::scratch: target -> the copy of its source
  todo,       \* the pairs the running pass has not come to
  pc,         \* where the process that becomes the program is
  fds,        \* its descriptors: the file each refers to, or Closed
  cloexec,    \* those of them that execve closes
  errno,      \* why it did not become the program
  report_fd,  \* the writing end of the report pipe
  report,     \* what is in the report pipe
  holders,    \* which processes besides the child hold the writing end
  spawner,    \* where the shell is in start()
  told,       \* what start() concluded
  written     \* files that received a child's error number

plan == <<way, io, floor>>
child == <<scratch, todo, pc, fds, cloexec, errno>>
parent == <<holders, spawner, told>>
vars == <<plan, child, report_fd, report, parent, written>>

-----------------------------------------------------------------------------
(* The plan.                                                               *)

(* A number that is not a RawFd is left out of the plan.                    *)
Pairs == {t \in DOMAIN io : t <= RawFdMax}
Closes == {fd \in Standard : fd \notin DOMAIN io}

(* Mutant: the targets are not looked at.                                  *)
IsFloor_sources(f) ==
  LET named == Standard \cup {io[t] : t \in Pairs}
  IN  (\A n \in named : n < f) /\ (\E n \in named : f = n + 1)

(* One above every target, every source and the standard descriptors.      *)
IsFloor(f) ==
  LET named == Standard \cup Pairs \cup {io[t] : t \in Pairs}
  IN  (\A n \in named : n < f) /\ (\E n \in named : f = n + 1)

IsLowestFree(n, from) ==
  /\ n >= from
  /\ fds[n] = Closed
  /\ \A m \in FD : from <= m /\ m < n => fds[m] # Closed

NoneFree(from) == \A n \in FD : n >= from => fds[n] # Closed

IsFirst(t) == t \in todo /\ \A u \in todo : t <= u

-----------------------------------------------------------------------------
(* start(), in the shell.                                                  *)

(* Mutant: the writing end survives execve.                                *)
MakePipe_kept ==
  /\ spawner = "pipe"
  /\ \E r \in FD, w \in FD :
       /\ IsLowestFree(r, 0)
       /\ IsLowestFree(w, r + 1)
       /\ fds' = [fds EXCEPT ![r] = r, ![w] = w]
       /\ cloexec' = cloexec \cup {r}
       /\ report_fd' = w
  /\ holders' = {"shell"}
  /\ spawner' = "fork"
  /\ UNCHANGED <<plan, scratch, todo, pc, errno, report, told, written>>

MakePipe ==
  /\ spawner = "pipe"
  /\ \E r \in FD, w \in FD :
       /\ IsLowestFree(r, 0)
       /\ IsLowestFree(w, r + 1)
       /\ fds' = [fds EXCEPT ![r] = r, ![w] = w]
       /\ cloexec' = cloexec \cup {r, w}
       /\ report_fd' = w
  /\ holders' = {"shell"}
  /\ spawner' = "fork"
  /\ UNCHANGED <<plan, scratch, todo, pc, errno, report, told, written>>

(* pipe2 or fork fails: SpawnFailure::Fork, and the pipe goes away.         *)
ForkFails ==
  /\ spawner \in {"pipe", "fork"}
  /\ spawner' = "done"
  /\ told' = "not_forked"
  /\ holders' = holders \ {"shell"}
  /\ UNCHANGED <<plan, child, report_fd, report, written>>

Fork ==
  /\ spawner = "fork"
  /\ spawner' = "forked"
  /\ pc' = "copy"
  /\ UNCHANGED <<plan, scratch, todo, fds, cloexec, errno, report_fd, report,
                 holders, told, written>>

(* Our copy of the writing end must close, or read never sees the end.      *)
DropWriteEnd ==
  /\ spawner = "forked"
  /\ spawner' = "reading"
  /\ holders' = holders \ {"shell"}
  /\ UNCHANGED <<plan, child, report_fd, report, told, written>>

ReadErrno ==
  /\ spawner = "reading"
  /\ report # "nothing"
  /\ told' = report
  /\ spawner' = "waiting"
  /\ UNCHANGED <<plan, child, report_fd, report, holders, written>>

(* Mutant: a read cut short by a signal is taken for the end.               *)
ReadEnd_eintr ==
  /\ spawner = "reading"
  /\ report = "nothing"
  /\ told' = "started"
  /\ spawner' = "waiting"
  /\ UNCHANGED <<plan, child, report_fd, report, holders, written>>

(* End of file: nobody has the writing end any more.                        *)
ReadEnd ==
  /\ spawner = "reading"
  /\ report = "nothing" /\ holders = {}
  /\ \A n \in FD : fds[n] # report_fd
  /\ told' = "started"
  /\ spawner' = "waiting"
  /\ UNCHANGED <<plan, child, report_fd, report, holders, written>>

Reap ==
  /\ spawner = "waiting"
  /\ pc = "ended"
  /\ pc' = "reaped"
  /\ spawner' = "done"
  /\ UNCHANGED <<plan, scratch, todo, fds, cloexec, errno, report_fd, report,
                 holders, told, written>>

(* Another thread forks while the pipe is open: its child has a copy of the *)
(* writing end until it becomes its own program, or gives up.               *)
SiblingForks ==
  /\ "shell" \in holders /\ "sibling" \notin holders
  /\ holders' = holders \cup {"sibling"}
  /\ UNCHANGED <<plan, child, report_fd, report, spawner, told, written>>

SiblingExecs ==
  /\ "sibling" \in holders
  /\ holders' = holders \ {"sibling"}
  /\ UNCHANGED <<plan, child, report_fd, report, spawner, told, written>>

-----------------------------------------------------------------------------
(* become_program(), in the child or in the shell itself.                  *)

(* fail() in a child; in the shell, replace_process returns the error.      *)
GiveUp(e) == pc' = "failing" /\ errno' = e

(* Mutant: the copy gets any free number.                                   *)
CopySource_low ==
  /\ pc = "copy"
  /\ \E t \in Pairs, n \in FD :
       /\ IsFirst(t)
       /\ IsLowestFree(n, 3)
       /\ fds' = [fds EXCEPT ![n] = fds[io[t]]]
       /\ cloexec' = cloexec \cup {n}
       /\ scratch' = [scratch EXCEPT ![t] = n]
       /\ todo' = todo \ {t}
  /\ UNCHANGED <<plan, pc, errno, report_fd, report, parent, written>>

CopySource ==
  /\ pc = "copy"
  /\ \E t \in Pairs, n \in FD :
       /\ IsFirst(t)
       /\ IsLowestFree(n, floor)
       /\ fds' = [fds EXCEPT ![n] = fds[io[t]]]
       /\ cloexec' = cloexec \cup {n}
       /\ scratch' = [scratch EXCEPT ![t] = n]
       /\ todo' = todo \ {t}
  /\ UNCHANGED <<plan, pc, errno, report_fd, report, parent, written>>

CopyFails ==
  /\ pc = "copy"
  /\ todo # {}
  /\ NoneFree(floor)
  /\ GiveUp("EMFILE")
  /\ UNCHANGED <<plan, scratch, todo, fds, cloexec, report_fd, report, parent,
                 written>>

CopiesMade ==
  /\ pc = "copy"
  /\ todo = {}
  /\ todo' = Pairs
  /\ pc' = "move"
  /\ UNCHANGED <<plan, scratch, fds, cloexec, errno, report_fd, report, parent,
                 written>>

(* dup2(copy, target).  The target is below a number that was free, so it   *)
(* is below the limit and dup2 succeeds.                                    *)
MoveCopy ==
  /\ pc = "move"
  /\ \E t \in Pairs :
       /\ IsFirst(t)
       /\ fds' = [fds EXCEPT ![t] = fds[scratch[t]]]
       /\ cloexec' = cloexec \ {t}
       /\ todo' = todo \ {t}
  /\ UNCHANGED <<plan, scratch, pc, errno, report_fd, report, parent, written>>

(* Mutant: only what the table names is put in place.                       *)
CloseRest_nothing ==
  /\ pc = "move"
  /\ todo = {}
  /\ pc' = "chdir"
  /\ UNCHANGED <<plan, scratch, todo, fds, cloexec, errno, report_fd, report,
                 parent, written>>

CloseRest ==
  /\ pc = "move"
  /\ todo = {}
  /\ fds' = [n \in FD |-> IF n \in Closes THEN Closed ELSE fds[n]]
  /\ cloexec' = cloexec \ Closes
  /\ pc' = "chdir"
  /\ UNCHANGED <<plan, scratch, todo, errno, report_fd, report, parent, written>>

(* Only a copy of the shell has a directory of its own, and `exec' in it    *)
(* starts a child.                                                          *)
Chdir ==
  /\ pc = "chdir"
  /\ \/ pc' = "exec" /\ UNCHANGED errno
     \/ way = "start" /\ GiveUp("ENOENT")
  /\ UNCHANGED <<plan, scratch, todo, fds, cloexec, report_fd, report, parent,
                 written>>

Become ==
  /\ pc \in {"exec", "exec_sh"}
  /\ pc' = "program"
  /\ fds' = [n \in FD |-> IF n \in cloexec THEN Closed ELSE fds[n]]
  /\ cloexec' = {}
  /\ UNCHANGED <<plan, scratch, todo, errno, report_fd, report, parent, written>>

(* ENOEXEC: a text file without `#!'.  It is given to /bin/sh.              *)
TrySh ==
  /\ pc = "exec"
  /\ pc' = "exec_sh"
  /\ UNCHANGED <<plan, scratch, todo, fds, cloexec, errno, report_fd, report,
                 parent, written>>

ExecFails ==
  /\ pc \in {"exec", "exec_sh"}
  /\ \E e \in {"ENOENT", "EACCES"} : GiveUp(e)
  /\ UNCHANGED <<plan, scratch, todo, fds, cloexec, report_fd, report, parent,
                 written>>

NoFiles == [n \in FD |-> Closed]

(* fail(): the error number goes to whatever report_fd refers to by now.    *)
ChildFails ==
  /\ pc = "failing" /\ way = "start"
  /\ LET file == fds[report_fd]
     IN  /\ report' = IF file = report_fd THEN errno ELSE report
         /\ written' = written \cup ({file} \ {report_fd, Closed})
  /\ pc' = "ended"
  /\ fds' = NoFiles
  /\ cloexec' = {}
  /\ UNCHANGED <<plan, scratch, todo, errno, report_fd, parent>>

ShellGoesOn ==
  /\ pc = "failing" /\ way = "replace"
  /\ pc' = "shell"
  /\ told' = errno
  /\ UNCHANGED <<plan, scratch, todo, fds, cloexec, errno, report_fd, report,
                 holders, spawner, written>>

ProgramEnds ==
  /\ pc = "program"
  /\ pc' = "ended"
  /\ fds' = NoFiles
  /\ UNCHANGED <<plan, scratch, todo, cloexec, errno, report_fd, report, parent,
                 written>>

-----------------------------------------------------------------------------
Open == Standard \cup Sources \cup Inherited

Init ==
  /\ way \in {"start", "replace"}
  /\ io \in UNION {[named -> Sources] : named \in SUBSET Targets}
  /\ floor \in 3 .. Limit \cup {t + 1 : t \in Targets}
  /\ IsFloor(floor)
  /\ scratch = [t \in Pairs |-> Closed]
  /\ todo = Pairs
  /\ pc = IF way = "start" THEN "none" ELSE "copy"
  /\ fds = [n \in FD |-> IF n \in Open THEN n ELSE Closed]
  /\ cloexec = Sources
  /\ errno = "none"
  /\ report_fd = Closed
  /\ report = "nothing"
  /\ holders = {}
  /\ spawner = IF way = "start" THEN "pipe" ELSE "done"
  /\ told = "nothing"
  /\ written = {}

Shell ==
  \/ MakePipe \/ ForkFails \/ Fork \/ DropWriteEnd \/ ReadErrno \/ ReadEnd
  \/ Reap

Child ==
  \/ CopySource \/ CopyFails \/ CopiesMade \/ MoveCopy \/ CloseRest \/ Chdir
  \/ Become \/ TrySh \/ ExecFails \/ ChildFails \/ ShellGoesOn

(* The command is over, or `exec' has replaced the shell.                   *)
Over ==
  /\ spawner = "done" /\ holders = {}
  /\ pc \in {"none", "reaped", "shell", "ended"}
  /\ UNCHANGED vars

Next ==
  Shell \/ Child \/ SiblingForks \/ SiblingExecs \/ ProgramEnds \/ Over

Spec == Init /\ [][Next]_vars

(* The system runs the shell and what it forked.  A program need not end.   *)
FairSpec ==
  Spec /\ WF_vars(Shell) /\ WF_vars(Child) /\ WF_vars(SiblingExecs)

-----------------------------------------------------------------------------
(* Every variable has its type; a copy is never below the floor.            *)
TypeOK ==
  /\ way \in {"start", "replace"}
  /\ DOMAIN io \subseteq Targets /\ \A t \in DOMAIN io : io[t] \in Sources
  /\ floor \in Nat
  /\ scratch \in [Pairs -> {n \in FD : n >= floor} \cup {Closed}]
  /\ todo \subseteq Pairs
  /\ pc \in {"none", "copy", "move", "chdir", "exec", "exec_sh", "program",
             "failing", "ended", "reaped", "shell"}
  /\ fds \in [FD -> FD \cup {Closed}]
  /\ cloexec \subseteq FD
  /\ errno \in Errnos \cup {"none"}
  /\ report_fd \in FD \cup {Closed}
  /\ report \in Errnos \cup {"nothing", "none"}
  /\ holders \subseteq {"shell", "sibling"}
  /\ spawner \in {"pipe", "fork", "forked", "reading", "waiting", "done"}
  /\ told \in Errnos \cup {"nothing", "none", "not_forked", "started"}
  /\ written \subseteq FD

(* A program finds every file of its table where the table says, whatever   *)
(* the numbers are: sources that are also targets, swaps, numbers used      *)
(* twice.                                                                   *)
FilesInPlace == pc = "program" => \A t \in Pairs : t \in FD /\ fds[t] = io[t]

(* A program receives only what its table says, and nothing else: no file   *)
(* of the shell, no pipe of another command, no report pipe.                *)
NothingElse == pc = "program" => \A n \in FD : fds[n] # Closed => n \in DOMAIN io

(* The shell takes a program for started only if it was.                    *)
ReportHonest == told = "started" => errno = "none"

(* start() returns: the shell learns what became of the child even if the   *)
(* program never ends, and whatever other threads fork at the same time.    *)
Answered == spawner = "forked" ~> told # "nothing"

=============================================================================
