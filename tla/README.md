# Verification of oh-my-shell

oh-my-shell is a POSIX-like interactive shell in Rust. This directory holds
TLA+ modules that model its executor and the machinery around it, the TLC runs
that check them on small instances, and theorems about them that TLAPS proves
for every value of the constants.

All source paths below are relative to `crates/`; `exec/…`, `spawn.rs` and the
like are in `omsh-exec/src/`.

## 1. The system

A line is read (`omsh-cli/src/repl.rs`), parsed (`omsh-syntax`), checked for
what the shell does not support (`check.rs`) and run by the executor
(`omsh-exec`). Everything runs in one process: a subshell, a `$(...)` and each
stage of a pipeline is a *copy* of `Shell`, and stages run on threads. Only
external programs are processes. This is what makes the shell unusual, and
where most of its hazards come from: signal dispositions, descriptors and the
working directory belong to the process, traps, variables and tables of files
to a copy.

| Component | Source | State it keeps | Operations | Correct when |
|---|---|---|---|---|
| Executor | `exec/mod.rs`, `exec/compound.rs`, `status.rs`, `builtins/flow.rs`, `builtins/source.rs` | the Rust call stack; `depth`, `loop_depth`, `func_depth`, `errexit_ignored`; `$?` | one function per node of the tree; `Flow = Result<ExitStatus, Unwind>` | counters always equal the calls in progress; nesting is bounded; `break`, `continue`, `return` find their target; `-e` ends a shell exactly when POSIX says; `$?` is the last status |
| Shell lines and copies | `shell.rs` | the settings of a shell, `in_subshell`, `cwd_override`, `umask_override` | `run`, `run_source`, `subshell`, `finish_copy` | a copy is a value: nothing it changes reaches the shell; nothing a line leaves behind disturbs the next |
| Traps and signals | `traps.rs`, `signals.rs`, `builtins/trap.rs` | `INTERRUPTED`, `PENDING`, `Traps`, dispositions of the process | handlers, `trap`, `run_pending_traps`, `run_exit_trap` | no signal is lost, traps do not nest, the EXIT trap runs once, dispositions follow the traps |
| Pipelines | `exec/pipeline.rs` | tables and pipe ends per stage | `run_stages` | every stage sees the end of its input and a broken output; whatever can end, ends |
| Command substitution | `expand/mod.rs` | a pipe, a reading thread, a copy | `command_substitution`, `drain` | the result is complete; the reader ends |
| Spawning | `spawn.rs` | a child, the report pipe, an `FdPlan` | `start`, `become_program`, `apply_plan`, `wait`, `replace_process` | the program has its table and nothing else; the shell is told the truth |
| Descriptor tables | `io.rs`, `redirect.rs`, `builtins/exec.rs` | `Io`: number → open file; `fd_changes` | `plan`, `apply`, `diff`, `apply_redirects` | a redirection lasts for its command, `exec`'s for what follows |
| Variables and options | `vars.rs`, `options.rs`, `builtins/variables.rs` | values, attributes, saved assignments, parameters | assign, export, readonly, unset, set, shift, prefix assignments | a prefix assignment is undone on every way out; what is read only stays |
| Directories and the mask | `builtins/cd.rs`, `builtins/umask.rs` | of the process, and the overrides of each copy | `cd`, `umask` | `$PWD` names the directory commands start in |
| Command lookup | `path.rs`, `builtins/lookup.rs` | a cache of name → entry of PATH | `lookup`, `hash`, `type`, `command` | found exactly if PATH has it now, however old the cache |
| Expansion | `expand/{split,param,arith,pattern,pathname,tilde,ansi_c}.rs` | none; `${x:=…}` and `$((x=…))` assign | functions on text | the result is what POSIX defines |
| Builtins that read their operands | `builtins/{test,printf,read,echo}.rs` | a place in the operands | `test`, `printf`, `read` | the expression is taken as the count of operands says; `printf` ends; `read` splits as words are split |
| Alias expansion | `alias.rs` | the names being expanded | text replaced before it is parsed | no name expands in itself |
| Prompt and script loop | `omsh-cli/src/repl.rs` | the unfinished lines | `run_on`, `read_line` | unfinished lines are kept, mistakes refused; every end runs the EXIT trap |
| Scanner | `omsh-syntax/src/scanner/` | what is expected next, pending here-documents | `scan_list`, `classify` | agrees with the parser on what is reserved and which `)` ends a substitution |
| Parser | `omsh-syntax/src/parser/` | the calls in progress, `linebreak_at` | `parse_*` | "unfinished" and "wrong" are told apart |
| Highlighting | `highlight.rs` | none | tokens to colours | – |
| Unsupported-syntax check | `check.rs` | none | a walk over the tree | rejects before anything ran |
| `ai`, `config`, `editor`, `history`, `safety`, `tests`, `ui` crates | `omsh-*/src/lib.rs` | none: three comment lines each | – | – |

### How they interact

- *Calls.* Functions of the executor call each other recursively; `?` hands an
  `Unwind` up until something takes it: a loop, a function call, a copy, a line.
- *Shared state.* All threads share the process: dispositions, the two atomics
  of `signals.rs`, the descriptor numbers, the working directory, the mask. `Io` tables share
  open files by `Arc`.
- *Files.* Programs and directories come and go while the shell remembers where it found them.
- *Pipes.* Stages and the reader of a `$(...)` meet only through pipes. Who
  holds an end decides whether anybody ever sees an end of file.
- *fork.* A child gets a copy of everything the process has at that moment,
  from whatever thread.

### What is hard

Unwinding through counted frames; signals at any moment; handing over signals
from an atomic to a local; ends of pipes held too long, by the shell itself or
by a sibling child between `fork` and `execve`; moving descriptors when sources
and targets overlap; a report pipe among numbers that the user may name; the
shell preparing itself for `execve` and then going on; failures of `pipe2`,
`fork`, thread start and `fcntl` half way; settings that are the process's and have to look
like a copy's own; caches and paths that other processes make stale; a scanner and a parser
that have to agree without talking; rules of expansion that meet in one word. There is no persistence, so there is
no crash recovery; there is no network. The list with lines is under `hazards`
in `PROJECT.json`.

## 2. Modules

| Module | Models | Extended by |
|---|---|---|
| `Executor` | executor, lines, copies, traps and pending signals, the ends of `repl.rs` | `MCExecutor`, `ExecutorProofs` |
| `Spawn` | `io.rs` plan, `spawn.rs` | `MCSpawn`, `SpawnProofs` |
| `Pipes` | `pipeline.rs`, `command_substitution`, `drain` | `MCPipes`, `PipesProofs` |
| `Dispositions` | `signals.rs`, `builtins/trap.rs`, the signal part of `spawn.rs`, `exec` in place | `MCDispositions`, `DispositionsProofs` |
| `Paths` | paths as the kernel follows them and as `cd` reads them; the cache of `path.rs` | `ShellState` |
| `CopyValues` | abstract: a copy of the shell is a value | instantiated by `ShellState` |
| `ShellState` | settings of a shell and its copies, simple commands, `exec`'s files | `MCShellState`, `ShellStateProofs` (and that by `ShellSettingsProofs`) |
| `Folding` | proofs only: what a fold over a sequence computes and keeps, for any step | instantiated by `ShellStateProofs` and `LinesProofs` |
| `Parser` | the strict grammar as an automaton over tokens | `Scanner` |
| `Scanner` | `ListState`: what the scanner takes each word for | `Lines` |
| `Lines` | lines joined until they parse, here-documents, `run_source`/`run_text` | `CommandText`, `LinesProofs` |
| `Patterns` | `pattern.rs`, `pathname.rs` | `Words` |
| `Words` | `split.rs`, `param.rs`, `tilde.rs`, the fields of `expand/mod.rs` and of `read` | `CommandText` |
| `Arith` | `arith.rs` | `CommandText` |
| `Operands` | the grammar of `test`, the passes of `printf` | `CommandText` |
| `CommandText` | composes the six above: a line becomes a command, a question gets an answer | `MCCommandText` |

In each, definitions prefixed by a comment `Mutant:` (named `<definition>_<what>`)
are the code with a plausible mistake in it. No specification uses them; each
was put in the place of the definition to see that a property notices.

### Executor

The calls in progress are the frames of `stack` (`fn`: the Rust function, `pc`:
where it stands, `self`: which shell, `st`: the status it keeps in a local).
`flow` is what the innermost call has been handed: `Running`, or the
`Result` of the call it made. One action is one step of one function from a call
or return to the next: `ListCheck`/`ListItem`/`ListItemDone` are the loop of
`run_items`, `WhileTested` what follows a condition, and so on. `shells` is the
chain of the shell and the copies on this thread.

The program is not a constant: wherever the code looks at the tree, the model
chooses among `Kinds`, `Simples` and `Operators`. One run therefore covers *all*
programs over its kinds of commands, of any length, up to the nesting bound. Words
expand to nothing but a `$(...)` or an error. Statuses are reduced to
{0, 1, 2, 130}, the values the code tells apart. Stages run one after the
other here, because they share none of this state; that they run at the same
time is the subject of `Pipes`. A stage's thread that panics (status 134)
is not modelled, nor is a `$(...)` in the words of a compound command.

### Spawn

A file is the number the shell has it open as, so a table is a function from
the program's descriptors to the shell's. The process that becomes the program
is a child (`way = "start"`) or the shell itself (`"replace"`). Each system call of
`apply_plan` is a step that may fail; the choices of `fcntl(F_DUPFD)` and `pipe2`
follow the rule of the lowest free number. `holders` says which processes besides
the child hold the report pipe's writing end: the shell before it drops it, and
a *sibling*, a child another thread forked in the meantime, until its own
`execve`. The child's `umask` call, and children that are stopped (Ctrl+Z), are
left out. `EMFILE` stands for whatever `fcntl` and `dup2` report.

### Pipes

`held` says which ends of which pipes each holder has. Holders are variables of
the code whose lifetime matters: the table of each stage, what `exec` recorded
in each copy (`fd_changes`), `previous` in `run_stages`, the reading thread, and
the child of each stage, which has *all* descriptors of the process between fork
and `execve`. Stages write for ever, write a while, read one thing and stop, or
pass on all they read.

### Dispositions

The process's dispositions (`disp`), the traps of the main shell and of its
copies (`traps`), and the dispositions of the programs that shells start
(`cdisp`). `parent` is the tree of copies; a shell that has copies or a child
waits. `PrepareExec`/`ExecBecomes`/`ExecFails` are `replace_process`. "TERM" stands for
HUP, USR1, USR2, ALRM and TERM, which the code treats alike.

### ShellState, Paths and CopyValues

`shells` holds the settings of each live shell as `Shell` has them (`vars`, `options`,
`cwd_override`, `fd_changes`, `cache`, …); `cwd` and `umask` are the process's; `frames` are the
lists a shell runs one inside the other, each with what its end puts back (`saved`,
`positional`, `path`). One simple command is one step, which is what copies that run side by
side can see of each other: `Builtin`, `Program`, `Call`, `Eval`, or the ways to be refused
(`RedirectRefused`, `AssignmentRefused`). `Unwind` and `EndList` are the two ways out of a list,
`StartCopy` is `subshell`, `EndLine` the end of `Shell::run`. `RemoveDir` and `ChangeFile` are
other processes. `Files_of`, `Followed` and `ExecChanges` are the table of a command, what it
takes over of `exec`'s changes, and what `exec` records; `wanted` is no state of the code: it
follows the files a command ought to see, by the rule "a redirection lasts for its command,
exec's for ever". A program is searched for along `SearchPath`, which `command -p` replaces for what it runs
(`path_override`); `hash`, `type` and `command -v` search `PathOf`, the variable, even there
(`builtins/lookup.rs:51`, `:209`). Both go through the same cache, and `LookupSound` asks about both. A path is a sequence of names; `Resolved` follows links, `Lexical` reads `..` by text.

`CopyValues` is the promise at `shell.rs:227`: a map from shells to values; a copy starts as its
parent's value and each step changes one. `ShellState!CopyIsAValue` is its specification under
the map from a shell to what its commands can tell of it (with the directory and the mask, wherever those are kept).

### Texts

`Lines` reads any text at all, token by token: `parse` is the stack of parser functions in
progress, `scan` the scanner's state, `docs` the here-documents without a body. A token stands
for every word the parser treats alike (`Parser`, top). `Token`, `LineEnding`, `BodyLine` and
`EndOfInput` are the loop of `run_on`; whether the pending lines are run, kept or refused is
`LineResult`. The code parses the pending lines anew whenever one is added, which gives the same as
going on.

`Patterns`, `Words`, `Arith` and `Operands` are operators that follow the functions of the code
case by case, next to reference definitions (`Matched`, `Found`, `Meaning`, `ByCount`,
`Dealt`) that say the same without their cursors, flags and going back. `CommandText` asks each
about every input of a bounded set; an answer carries both.

## 3. Runs

| Run | Instance | Shows |
|---|---|---|
| `control` | nesting ≤ 3, `break`/`continue` counts ≤ 2; simple commands, `while`, functions; `$(...)`, failing expansions; `\|\|`, `!`; `-e`. At the deepest level only what leaves a loop or a function, and what asks for one more | `TypeOK`, `Balanced`, `StackBounded`, `UnwindHasHandler`, `ErrexitDecides`, `EndsEverything` |
| `signals` | nesting ≤ 2; one trapped signal and Ctrl+C at any moment; `eval`, `.`, `exec`, `exit`, failing commands, `trap … EXIT`; groups, subshells, `for`, `if`, `case` | `DollarStatus`, `OneTrapAtATime` |
| `interrupt` | nesting ≤ 2; endless loops, recursion and pipelines; a pipe that cannot be made, a read error | `InterruptEndsLine` |
| `spawn_files` | 13 descriptors, tables over 6 targets × 3 files, failures anywhere, a sibling that forks | `TypeOK`, `FilesInPlace`, `NothingElse`, `ReportHonest`, `Answered` |
| `pipes_ends` | 3 stages, 10 kinds of pipeline, alone and in `$(...)`, failing pipes and threads | `TypeOK`, `CutOffByTheEnd`, `OutputComplete`, `TerminatesIfUndup` |
| `dispositions_follow` | main shell, 2 copies, 2 signals and SIGPIPE, interactive or not, any inherited settings | `TypeOK`, `DispositionsFollowTraps`, `ProgramDefaults`, `ProgramIgnores`, `SurvivesUntilExec` |
| `shell_settings` | a shell and 2 copies, lists nested ≤ 3, five scripts of 4–6 commands (variables, options, directories, descriptors, search) | `TypeOK`, `CopyIsAValue`, `ReadonlyStays`, `PrefixUndone`, `FilesFollow`, `PwdTrue`, `LookupSound` |
| `texts` | all texts of tokens, commands nested ≤ 2, one here-document at a time; 105,000 questions (bounds below) | the ten properties of `Lines` and `CommandText` |

Why the bounds are enough. *Executor*: every frame treats its callees alike,
so a counter that goes wrong does so when one frame stands on another; depth 3
(the program's list counts as one) puts a loop in a loop, or the list of a function or a
copy in a loop, and `break 2` needs two loops. `control` has one construct for each counter and
each rule of `-e` (a `for` counts like a `while`, the condition of an `if` is ignored like that of a
`while`, `( )` is a copy like `$(...)`); `signals` has the others. The
limit itself (`MAX_DEPTH`, 500 in `exec/mod.rs:44`, 2 or 3 here) is reached in every run, and the
theorems hold for every limit and all kinds. `StackBounded` is about what the limit is for: `enter` counts levels, and
the stack it protects holds calls. The bound of 11 calls per level is not assumed: a program that
gets more of them in progress between two levels, by any mix of `eval`, `.`, `!`, `$(...)`, pipelines and traps, would violate it.
`EndsEverything` says what the refusal at the limit, like any error, does next: the whole line ends, through whatever is around. *Spawn*: the targets are chosen to be standard, a source
of another pair, a number the report pipe has, a free number, one beyond the limit and one that
is no descriptor; three sources allow a cycle, a swap and a shared source; 13
descriptors make `fcntl` run out. *Pipes*: three stages are the least where one
both reads and writes; a pipe that holds one item and writers with more to say make every
writer wait. *Dispositions*: two copies nest or stand side by side; "INT" is a
signal that everything touches, "TERM" one that only `trap` does. The theorems hold for
all three kinds.

*ShellState*: two copies nest or run side by side; each script has the commands of
one part of the state, because the parts meet only in the copy (which every script has) and in
what an unwinding puts back. `MaxFrames = 3` is a group or `eval` in a function in the line; six
commands are enough to assign, call, redirect, fail and look again. Two variables (`x`, and `t`, which is only assigned
in front of commands), one link, a directory in another, two directories of PATH and an empty entry.
*Lines*: a stack of parser functions has no memory but its symbols, so two levels put every construct
inside every other; one pending here-document, since a second only repeats the queue.
*Patterns*: patterns of ≤ 4 characters, quoted ones among them, on texts of ≤ 3: two stars with something
between, a range, a negated set, a `[` without `]`. *Pathnames*: up to 4 pieces of a field over 7 paths. *Words*: ≤ 2
parts, one inside quotes or an operator, every `${x…}` operator, 4 values, 3 lists of parameters, 3 of
IFS. *Read*: lines of ≤ 4 characters for ≤ 3 variables. *Arithmetic*: three operators, one per level that
behaves in its own way, on 4-bit numbers, where every overflow and shift happens. *test*: ≤ 4 operands out of 8. *printf*:
formats of ≤ 3 directives, ≤ 3 arguments.

Deadlock is checked except in two instances. In `Pipes`, `$(exec 3>&1; …)` really stops: there
`TerminatesIfUndup` says, under fairness, that nothing else does. In `CommandText` a
question is answered once, and input ends.

### Fairness

- `Executor`: weak fairness of the thread that runs the line (the system schedules it),
  none of the user or the world. Strong fairness of three choices that stand for the
  finite size of what is run: the words of one command end (`Expanded`), so do the
  stages of one pipeline and the lines of one text.
- `Spawn`: the shell, the child and a sibling's `execve` go on; a *program* need not ever end,
  and siblings need not fork.
- `Pipes`: every thread and program goes on; nobody has to fork.
- `ShellState` and `CommandText` state no fairness: what they promise is safety.

### Where the code and what it says differ

Runs that end in a counterexample, each one property against what a comment promises:

| Run | Found |
|---|---|
| `signals_forgotten` | Two trapped signals arrive before one check. If the first one's command ends the list (`exit`, an error, Ctrl+C), `run_pending_traps` returns and the second, already taken out of `PENDING`, is dropped (`traps.rs:119`). |
| `spawn_report_overwritten` | A redirection to the number that the report pipe's writing end happens to have: the child's `dup2` replaces it, a failing `execve` writes its error number into the user's file, and the shell believes the program started (`spawn.rs:286`). |
| `pipes_dup` | `$(exec 3>&1; echo hi)`, or `$(exec 2>&1; …)`: the copy of the shell keeps the writing end in `fd_changes` until after the scope has joined the reader, which waits for that end to go. The shell hangs (`expand/mod.rs:355`). |
| `dispositions_exec` | `exec` sets SIGINT, SIGQUIT and SIGPIPE to their defaults in the shell before `execve`; if that fails (bad `#!` line, argument list too long) the shell goes on and dies of the next Ctrl+C, and INT traps never run again (`spawn.rs:234`). |

Seen while modelling, no run spent on it; a constant, or a property put in the configuration of `signals` or `control`, shows it:

- `while break; do :; done`: the `?` behind a loop's *condition* hands a `break` or `continue` on without
  counting the loop it ends (only `loop_body` counts), so it leaves one loop too many, or the line
  (`exec/compound.rs:71`). `LoopsToLeave`, as an invariant of `control`; `UnwindHasHandler` exempts this one frame.
- When `pipe2` fails, the pipeline gives 1 and `$?` keeps its old value
  (`exec/pipeline.rs:43`). `PipesFail = TRUE`, `DollarStatus`.
- A Ctrl+C at the prompt before the end of the input: the flag is cleared when a line starts, not when the
  shell ends, so the EXIT trap is used up and its list is interrupted before its first
  command (`traps.rs:134`). `ExitTrapStarts`, in `signals`.
- A read error ends the shell without its EXIT trap (`repl.rs:77`). `ExitTrapRuns`, in `signals`.
  The other ends all call `run_exit_trap`.
- A descriptor from 3 up that the shell itself was started with goes to every program,
  and `5>&-` does not close it (`spawn.rs:290`). `Inherited = {8}`, `NothingElse`.
- `(trap '' INT; program)`: in a copy, `trap ''` only keeps the *reset* from happening, it
  does not ignore, so the program has the default (`signals.rs:79` says otherwise).
  `ProgramIgnores` needs the main shell to ignore the signal too, for this reason.
- A Ctrl+C between `fork` and the child's `signal()` runs `on_interrupt` in the child and is lost there;
  the program starts, and `run_program` takes the Ctrl+C for one that it survived.
- `exec 3>f` in a condition or a loop's body is not seen by the first command of the next list of the
  same command, because each list starts with the table the command was given (`exec/mod.rs:106`,
  `local: None`), though "later commands" use it (`builtins/exec.rs:4`). In `exec 3>f; { a; b; } 3>g`,
  b gets f; in `{ exec 2>f; } 2>g` the change outlives the group. `ExecAnywhere = TRUE`, `FilesFollow`.
- Right after the `)` of a `case` pattern or a function, a redirection in front of the command makes the
  scanner take the command for an argument; so does the `in` of a `for` on a line of its own for what follows
  (`scanner/position.rs:85`). Colours and aliases are off there, the parse is not. `ScannerGaps = TRUE`,
  `ScannerAgrees`.
- `test` with up to four operands is not always decided by their count (`builtins/test.rs:3`): `( ! )`,
  `( -n )` and `! = = w` are taken as a group that is not closed, or as a string. `CountGap` names the cases.
- A variable that holds the lowest 64-bit number counts as one more in arithmetic: its digits are read
  without their sign and clamped (`expand/arith.rs:106`). `ArithmeticMeans` leaves that value out.
- `$*` outside quotes is joined with the first character of IFS and split again; if IFS is empty or starts
  with a character that is no blank, other shells keep the parameters apart.
- `read` compares bytes with IFS, words are split at characters (`builtins/read.rs:169`, `expand/split.rs`).
- After `readonly PWD`, a `cd` with a relative path is taken from the directory PWD still names
  (`builtins/cd.rs:23`). `PwdTrue` speaks of a writable PWD for this reason.

## 4. Proofs

| Theorem | Module | Says |
|---|---|---|
| `TypeCorrect`, `CountersBalanced`, `StackIsBounded` | `ExecutorProofs` | `[]TypeOK`, `[]Balanced`, `[]StackBounded`, for every limit and every kind of program |
| `UnwindIsHandled`, `EverythingEnds` | `ExecutorProofs` | `UnwindHasHandler`, `EndsEverything`, which are about steps, for every program, `break` in conditions included |
| `StatusIsTheLast` | `ExecutorProofs` | `[]DollarStatus` if `~PipesFail` |
| `TrapsRunAlone`, `ErrexitIsDecided` | `ExecutorProofs` | `[]OneTrapAtATime`; `ErrexitDecides`, which is about steps |
| `TypeCorrect`, `CutOffOnlyByTheEnd`, `OutputIsComplete` | `PipesProofs` | `[]TypeOK`, `[]CutOffByTheEnd`, `[]OutputComplete` for pipelines of every length and pipes of every size |
| `TypeCorrect`, `TableInPlace` | `SpawnProofs` | `[]TypeOK`, `[]FilesInPlace` for every limit, table and set of open descriptors |
| `NothingLeaks` | `SpawnProofs` | `[]NothingElse` if `Inherited = {}` |
| `ReportIsHonest` | `SpawnProofs` | `[]ReportHonest` if tables name only standard descriptors and sources (the case `spawn_report_overwritten` shows to be needed) |
| `TypeCorrect`, `DispositionsAreRight`, `ShellSurvives`, `ProgramsHaveDefaults`, `IgnoredStaysIgnored` | `DispositionsProofs` | `[]TypeOK`, `[]DispositionsFollowTraps`, `[]SurvivesUntilExec`, `[]ProgramDefaults`, `[]ProgramIgnores` for every set of copies and signals |
| `CopiesAreValues` | `ShellStateProofs` | `CopyIsAValue`: `ShellState` implements `CopyValues`, for every set of copies, scripts and limits |
| `TypeCorrect`, `LookupIsSound`, `PrefixIsUndone` | `ShellSettingsProofs` | `[]TypeOK`, `[]LookupSound`, `[]PrefixUndone` for every script, environment and number of copies |
| `ReadonlyIsKept` | `ShellSettingsProofs` | `ReadonlyStays`, which is about steps |
| `PwdIsTrue` | `ShellSettingsProofs` | `[]PwdTrue` if no command assigns PWD |
| `FilesAreFollowed` | `ShellSettingsProofs` | `[]FilesFollow` if `~ExecAnywhere` |
| `UnfinishedEnds` | `LinesProofs` | `[]UnfinishedCanBeFinished` for texts of any length and every nesting limit |
| `ScannerKnowsTheGrammar` | `LinesProofs` | `[]ScannerAgrees` for texts of any length, every nesting limit and any number of here-documents, if `~ScannerGaps` |

The only assumptions are the `ASSUME`s of the modules (ranges of the constants) and
those named in the table. Each of the latter is a case that section 3 lists as a divergence,
where the property is false without it: a `pipe2` that fails
(`exec/pipeline.rs:43`), a descriptor the shell was started with, a redirection to the report pipe's number, the
texts where the scanner takes a command for an argument (`scanner/position.rs:85`; `ScannerGap` names them), a
change of `exec` under a redirection of the same line (`exec/mod.rs:106`). The exception is PWD, which users may
set to anything: then it says what they said, and there is nothing to prove. `ShellState` has an `ASSUME` for what the
parser and the environment make of their input: `ScriptsAssumption` (commands are simple commands,
`ast/mod.rs:123`), `EnvironmentAssumption`, `TemporaryAssumption` (what "temporary" means: no command of
the script gives that variable a lasting value), `DirectoriesAssumption`, and `NoneAssumption`, that "no value" is not a value.

*Executor.* Neither `TypeOK` nor `Balanced` is inductive. `TypeOK` needs `Balanced`: a counter that goes
down stays in `Nat` because it counts calls that are there. `Balanced` needs
`Chain`: frames of a shell lie above those of the shell it was copied from, and a
`copy` frame is where the next one begins; otherwise a return could lower the
counter of the wrong shell. The inductive invariant is `Nested(shells, stack) /\
FlowOK(flow) /\ World`. There are about ten ways to call, return, go on,
copy and end a copy; one lemma each says that it keeps `Nested`, and every action
is shown to be one of them.

*Executor, what is handed over* (`ExecutorProofs`). What a call may find in `flow` depends on
which call it made, so `UInv` says which frames stand on which (`Stacked`: a handler of traps on a list of the main shell
and only once, an EXIT trap on a copy that is finished, and only those that give `$?` back on those that
pass it on), and what the frame on top has been handed: a status (`CallHanded`), one that is `$?`
(`StatusHanded`, where a trap keeps the status its list had), or a `return` with a function or a file of its own shell there
to end (`ReturnHanded`).
Unwinds are followed step by step: `UnwindMoves` says that one which is not for the call on top leaves it and
stays what it is. `EverythingEnds` is that, for the three no call but a copy and the EXIT trap takes; `UnwindIsHandled` adds that
`break` starts with no more loops than are there (`loop_control` cuts the count) and loses one exactly when a loop is left, but for the
loop that is evaluating its condition, where it is not so (section 3, divergences).
`running_trap` is up in *every* shell of the chain while a trap runs, since a copy
takes it along; that, and `self = 1` for every handler, is why no trap starts in another. `ErrexitDecides` needs
only that the counters count (`Nested`): `errexit_ignored` of a shell counts the ignoring calls of itself and those it was copied under.

*Executor, how many calls.* `StackBounded` follows from `Ranked`: the calls between two counted levels have a rank,
by the function and where it stands (`Rank`), and each calls only functions of a higher rank or a list, which
counts. So the place of a call is bounded by 11 times the levels up to it and its rank. A copy of the shell is
ranked by what makes it, since a pipeline's stage and a `( )` or `$(...)` stand at different heights. One lemma for each way to call (those of `Nested`) keeps
the ranks, and each action names the caller and the callee. It fails the moment some call reaches itself without passing `enter`,
such as a copy that begins at depth 0 (`subshell_shallow`).

*Pipes.* The invariant is a ledger: what each holder has, by where its stage and the maker of the pipeline
are (`StageHolds`, `MakerHolds`), and how far the maker is (`Making`). `previous` has exactly the reading end of
the last pipe made, between the making of two stages and at no other time. `CutOffByTheEnd` follows because a stage that
works has its ends in its own table, and `OutputComplete` because the reader lets go only of
an empty pipe nobody can write to (`Drained`), and every holder of an end belongs to a stage that is over.

*Spawn.* `IInv` follows the two passes of `apply_plan`: what has been copied lies at or above
the floor and is the right file; what is overwritten lies below the floor, so
no copy is lost. `Accounted` adds that an open number is close-on-exec, standard or
named. The types need one more fact: a child that may fail has a number to report on (`HasReportFd`).

*Dispositions.* `Follows` extends `DispositionsFollowTraps` over the preparation of an `exec`, and adds
that SIGPIPE stays ignored before one; `Children` says that a shell with a child exists and
waits, so its traps are still those the child was prepared with. `ProgramIgnores` asks that the *main* shell cannot
change its traps while a program of any copy runs: it waits, for a copy that waits, down to the program.
That is so because the tree of copies has no cycle, said as "every set of copies has one whose parent is not in it" (`NoCycle`), which
needs no rank.

*ShellState, copies.* A step of one shell cannot be seen by another because only the main shell changes `cwd` and
`umask`, and every copy has its own `cwd_override` from its start. That needs an invariant: a
copy is live only with ancestors, of which the main shell is one and has to wait, so while the main shell acts
there is nobody to notice the directory or the mask of the process; the main shell itself has no
overrides.

*ShellState, settings* (`ShellStateProofs` up to what one command does, then `ShellSettingsProofs`). Commands go through their words one by one, so most operators of the
module are folds. What a fold keeps is an induction over the words; the library states induction with an operator as
parameter, which the provers cannot instantiate, so `Folding` has the step of the fold as a *constant* operator `Op` and
proves from the least element of a set of numbers that `FoldLeft` is what it should be, one element at
a time. Each fold of the module (assignments, `export` and `readonly`, `unset`, `set`, `hash`, redirections, `..` in a path) is an
instance.
  The commands come down to a few kinds of steps (`Cases`): one that runs in its list (`Ran`), one that enters a list
(`Entered`), the end of a list (`Leave`), and the lines and copies. `Ran` says what a command may have done to variables, directories
and files: which names it can have given a lasting value (`LastingNames`), whether PWD still names the directory, and how
`fd_changes` moved. On that rest four invariants: `TInv` (types; `Seq(Frame)` below `MaxFrames`);
`PrefixInv`, that a temporary variable that is set has been put aside by some list, and the lowest list that did put aside its
absence; `PwdInv`, that PWD names the directory of every live shell, and no list has put PWD aside; and
`FilesInv`, that the table a command ought to see is the one its innermost list began with plus what `exec` changed, and that
undoing the redirections of the lists above gives the table of each list below, outside of what `exec` changed. All four were
checked by TLC as invariants of the `shell_settings` instance before they were proved.

The proofs made two demands on the model. A command in front of which an assignment is refused is subject to the
same restriction `Apart` as one that runs, and if it is an `exec`, its redirections are recorded all the same,
since the code does that before it looks at the assignments (`exec/mod.rs:316-325`; `AfterExec`). And what scripts and
environments are had to be said (the `ASSUME`s above).

*Parser* (`LinesProofs`, first part). The parser's state is the stack of its calls, as long as the text is deep. `Parsed` says that the calls
fit together (`Shape`): the list of the whole text is at the bottom, and over a call there is only one that it makes (`Below`). That is
inductive because what a rule pushes takes the place of one symbol and asks no more of the call beneath than that
one did (`RuleReplaces`). It also says that a place where line endings are allowed is remembered (`at_linebreak`) only while the call that
allows them is innermost, since that is what makes a text count as unfinished. What a token does to a stack of any length is then a matter of a few symbols: calls return
down to the first that does not, three further calls lead to one that takes or refuses the token (`CallsSettle`,
`ReachedHolds`), whatever else holds of the stack on the way (`Lasting`). To finish an unfinished text, `Ending` has one or two tokens for each call in
progress. What is still on top of a call when its turn comes returns on its token (`Lies`, `Ended`), so the calls can be
ended one after the other (`EndStep`); the fold over the stack is an instance of `Folding`. A pattern of `case` and the
parentheses of a function cannot be ended so, and need not: no text is taken for unfinished while one is open
(`NoPatternOpen`), because `skip_newlines` is not called there.

*Scanner* (`LinesProofs`, second part). `ScannerAgrees` is the most surprising property of the syntax crate: `ListState` has a few flags and two counters
and decides without the grammar, word by word, what the parser will take the word for. It is not inductive. `Mood` says for each symbol
what the flags have to be when it is the first to look at the next token, and `Fits` that they are so for the call
that will look, which need not be the innermost: it depends on the token. A call that returns or looks through others must
leave the flags right for the call that looks then (`FitsTail`, `FitsCalled`). The counters are the parentheses and the `case`s that the calls in
progress have opened (`Nested`), so a `)` that the parser takes for the end of a list is the scanner's too. `Takes` rests on a lemma for each kind of
symbol that takes tokens (`TakeList`, `TakeCommand`, …) and is where the gaps come up: without `~ScannerGaps` the flags are wrong after the `)` of a pattern, and
the texts of `ScannerGap` show it. The theorems are about `LinesSpec`; the `texts` run checks the two properties in `CommandText`, whose other steps leave the variables of `Lines` alone. Both theorems hold for what is read between the commands as well (here-documents, lines of a
text in progress), for which the steps of `Lines` keep or restart the parse and the scan together.

  The code takes calls off its stack one by one until one looks at the token. `Shift` names that call at once, as the
first that does not return on the token (`Stays`, `Reached`): the same parse without recursion, so that it can be proved about.
TLC reaches the same states with the recursive form.

Only model-checked, and why:

- Liveness (`InterruptEndsLine`, `Answered`, `TerminatesIfUndup`): TLAPS has no means for it.
- `PatternsMatch`, `PathnamesFound`, `ReadSplitsLikeWords`, `QuotesKeepFields`, `ValueIsTheWord`, `ArithmeticMeans`, `TestByCount` and
  `PrintfDeals`, of `CommandText`: each compares an algorithm that is recursive over a text with its reference, which is recursive too.
  `Patterns`, `Words`, `Arith` and `Operands` declare RECURSIVE operators, which the provers cannot take, and what they
  compute for every input is an induction over data.

## 5. Not modelled, and the plan

Not modelled, and why:

- Alias expansion puts text in the place of a word and scans the line again; a value may end in the middle
  of a construct (`;`, `|`, a trailing blank that makes the next word a candidate). The scanner and parser
  models have tokens for words, so there is no text in which that could happen.
- How quotes and expansions cut characters into tokens (`scanner/expansion.rs`, `parser/word.rs`), `$'…'`, spans, the
  tree, diagnostics, recovery after an error and the bash-only forms that are named in errors
  (`parser/unsupported.rs`): functions of one text that round trips and snapshots cover, and whose model would be the code again.
- Numbers, widths and precisions as `printf` writes them, the files `test` looks at, symbolic umasks,
  the byte-wise reading of `read`.
- `set -C` and here-documents as files (`redirect.rs:130-200`): they meet other processes between two system
  calls, where the code promises nothing.
- Highlighting is a map from tokens to colours; the crates that hold only a name have nothing to model.

What is next:

1. Abstract specifications: `Pipes` as a pipeline of unbounded channels that close; `Spawn` as one atomic
   "start or fail" that `start` implements; `Lines` as "every line is run once, in order".
2. Theorems: refinement proofs for the abstract specifications of 1.
