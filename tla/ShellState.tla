------------------------------ MODULE ShellState ------------------------------
(***************************************************************************)
(* What a shell has set, and what the simple commands do to it: variables  *)
(* with their attributes, positional parameters, functions, aliases and    *)
(* options, the working directory and the mask, the files that `exec' has  *)
(* changed, and the cache of the search for programs.                      *)
(*                                                                         *)
(* The main shell and its copies (subshells, stages of a pipeline) are     *)
(* threads of one process.  They run side by side, one simple command per  *)
(* step; a shell waits while copies it started live.  Functions, groups    *)
(* and `eval' nest in a shell as a stack of frames.  The lists, the traps  *)
(* and the statuses are in Executor, the processes in Spawn.               *)
(***************************************************************************)
EXTENDS Paths, FiniteSets

CONSTANTS Main, Copies,    \* the shells: the main one and the copies there may be
          Names,           \* the variables
          Temporary,       \* those that are only assigned in front of other commands
          Programs,        \* the names that are looked for in PATH
          DefaultPath,     \* what is searched when PATH is not set, and by command -p
          Fds, Files,      \* descriptors, and the files that redirections open
          DirNames,        \* the directories there may be, by their path without links
          Masks,           \* the values of the mask
          Scripts,         \* by a name: commands, groups, ... that occur together, and the
                           \* length of the behaviours that run them
          Environments,    \* the variables the shell may start with
          MaxStages,       \* how many copies one shell starts before it waits
          MaxFrames,       \* how deep functions, groups and eval nest
          ExecAnywhere     \* FALSE: what `exec >f' changes is not redirected around it on the
                           \* same line, and no other list of the same command follows it

ASSUME ShellsAssumption == Main \notin Copies
ASSUME NoneAssumption == None \notin Seq(STRING) /\ None \notin [Fds -> Files]
ASSUME DirectoriesAssumption ==
  \A dir \in DirNames :
    dir # None /\ dir \in Seq(STRING) /\ IsAbsolute(dir) /\ Resolved(dir) = dir
ASSUME StartsAssumption == \A name \in DOMAIN Scripts : Scripts[name].starts \subseteq DirNames
ASSUME NamesAssumption ==
  /\ {"PATH", "PWD", "OLDPWD", "HOME", "CDPATH"} \subseteq Names
  /\ {"terminal", "closed"} \subseteq Files
  /\ DefaultPath \in Seq(STRING)
  /\ MaxFrames \in Nat \ {0}

VARIABLES script,     \* which of the Scripts
          shells,     \* from the live shells to their state
          ancestors,  \* from the live shells to the shells that wait for them
          frames,     \* from the live shells to the lists they run, the innermost last
          flow,       \* from the live shells: "running", "return" or "error"
          cwd, umask, \* of the process
          dirs,       \* the directories that exist
          files,      \* the files in directories of PATH: executable and plain ones
          wanted,     \* from the live shells to the files their commands ought to see
          spent       \* how many commands have run

vars == <<script, shells, ancestors, frames, flow, cwd, umask, dirs, files, wanted, spent>>

Live == DOMAIN shells
World == <<script, cwd, umask, dirs, files>>

-----------------------------------------------------------------------------
(* Variables (vars.rs).  A name that is in no table has the value None and  *)
(* no attribute.                                                            *)

Variable == [value : Seq(STRING) \union {None}, exported : BOOLEAN, readonly : BOOLEAN]

Absent == [value |-> None, exported |-> FALSE, readonly |-> FALSE]

Assigned(table, name, value) == [table EXCEPT ![name].value = value]

ExportedAll(table, names) ==
  [n \in DOMAIN table |-> IF n \in names THEN [table[n] EXCEPT !.exported = TRUE] ELSE table[n]]

Restored(table, saved) ==
  [n \in DOMAIN table |-> IF n \in DOMAIN saved THEN saved[n] ELSE table[n]]

\* One after the other: the first that is read only ends it, and those before it stay.
ApplyAssignments(table, assignments) ==
  FoldLeft(LAMBDA r, a : IF ~r.ok \/ r.table[a.name].readonly THEN [r EXCEPT !.ok = FALSE]
                         ELSE [r EXCEPT !.table = Assigned(@, a.name, a.value)],
           [table |-> table, ok |-> TRUE], assignments)

\* The directories PATH names: what `hash', `type' and `command -v' search.
PathOf(shell) == LET path == shell.vars["PATH"].value
                 IN IF path # None THEN path ELSE DefaultPath

\* Those a program is started from: inside `command -p', of a function or `eval' too, not PATH's.
SearchPath(shell) == IF shell.path_override # None THEN shell.path_override ELSE PathOf(shell)

-----------------------------------------------------------------------------
(* The words of a command.  NAME=value is <<"NAME", "=", ...>>.             *)

WordName(w) == Head(w)
WordValue(w) == SubSeq(w, 3, Len(w))

Marked(table, name, mark) ==
  CASE mark = "export"   -> ExportedAll(table, {name})
    [] mark = "readonly" -> [table EXCEPT ![name].readonly = TRUE]

\* `export' and `readonly': each word is assigned if it has a value, then marked.
Declare(shell, words, mark) ==
  FoldLeft(LAMBDA r, w :
             IF ~r.ok \/ (Len(w) > 1 /\ r.table[WordName(w)].readonly)
               THEN [r EXCEPT !.ok = FALSE]
             ELSE [r EXCEPT !.table = Marked(IF Len(w) > 1
                                               THEN Assigned(@, WordName(w), WordValue(w)) ELSE @,
                                             WordName(w), mark)],
           [table |-> shell.vars, ok |-> TRUE], words)

Unset(shell, words) ==
  FoldLeft(LAMBDA r, w : IF ~r.ok \/ r.table[WordName(w)].readonly THEN [r EXCEPT !.ok = FALSE]
                         ELSE [r EXCEPT !.table[WordName(w)] = Absent],
           [table |-> shell.vars, ok |-> TRUE], words)

Letters == {"e", "u", "x", "f", "C"}
LetterOf == [errexit |-> "e", noglob |-> "f", noclobber |-> "C", nounset |-> "u", xtrace |-> "x",
             pipefail |-> "pipefail"]

Switched(options, on, letters) == IF on THEN options \union letters ELSE options \ letters

\* `set': the words up to the first that is no option change a copy of the options; each `o'
\* among the letters of one takes the name of an option from the words after it.
SetWord(r, w) ==
  LET on == Head(w) = "-" IN
  CASE r.reading = "refused" -> r
    [] r.reading = "args" -> [r EXCEPT !.args = Append(@, w), !.replace = TRUE]
    [] r.reading = "name" -> IF Head(w) \in DOMAIN LetterOf
                               THEN [r EXCEPT !.reading = IF r.names > 1 THEN "name" ELSE "options",
                                              !.names = @ - 1,
                                              !.options = Switched(@, r.on, {LetterOf[Head(w)]})]
                               ELSE [r EXCEPT !.reading = "refused"]
    [] OTHER ->
       CASE w = <<"-", "-">> -> [r EXCEPT !.reading = "args", !.replace = TRUE]
         [] w = <<"-">>      -> [r EXCEPT !.reading = "args", !.options = @ \ {"x"}]
         [] Len(w) > 1 /\ Head(w) \in {"-", "+"} /\ w # <<"-", "-">> ->
              LET letters == ToSet(Tail(w)) IN
              IF letters \subseteq Letters \union {"o"}
              THEN [r EXCEPT !.reading = IF "o" \in letters THEN "name" ELSE @, !.on = on,
                             !.names = Cardinality({i \in DOMAIN w : w[i] = "o"}),
                             !.options = Switched(@, on, letters \ {"o"})]
              ELSE [r EXCEPT !.reading = "refused"]
         [] OTHER -> [r EXCEPT !.reading = "args", !.replace = TRUE, !.args = <<w>>]

\* A word that is refused, and `set -o' that only lists, leave everything as it was.
Set(shell, words) ==
  LET r == FoldLeft(SetWord, [reading |-> "options", options |-> shell.options, on |-> TRUE,
                              names |-> 0, args |-> <<>>, replace |-> FALSE], words)
  IN IF r.reading \in {"refused", "name"} THEN shell
     ELSE [shell EXCEPT !.options = r.options, !.positional = IF r.replace THEN r.args ELSE @]

Shift(shell, count) ==
  IF count > Len(shell.positional) THEN shell
  ELSE [shell EXCEPT !.positional = SubSeq(@, count + 1, Len(@))]

-----------------------------------------------------------------------------
(* Directories and the mask.  Only the main shell changes those of the      *)
(* process; a copy keeps its own.                                           *)

Here(shell) == IF shell.cwd_override = None THEN cwd ELSE Resolved(shell.cwd_override)
Mask(shell) == IF shell.umask_override = None THEN umask ELSE shell.umask_override

LogicalCwd(shell) ==
  LET pwd == shell.vars["PWD"].value IN
  CASE pwd # None /\ IsAbsolute(pwd) -> pwd
    [] shell.cwd_override # None /\ (pwd = None \/ ~IsAbsolute(pwd)) -> shell.cwd_override
    [] OTHER -> IF cwd \in dirs THEN cwd ELSE Root

ViaCdpath(shell, dir) ==
  LET cdpath == shell.vars["CDPATH"].value
      path(entry) == (IF entry = "" THEN <<>> ELSE Append(Root, entry)) \o dir
      first == SelectInSeq(cdpath, LAMBDA entry :
                 Reached(dirs, Joined(LogicalCwd(shell), path(entry))) # None)
  IN IF Head(dir) \in {"/", ".."} \/ cdpath = None THEN dir
     ELSE IF first = 0 THEN dir ELSE path(cdpath[first])

CdTarget(shell, words) ==
  CASE words = <<>>        -> shell.vars["HOME"].value
    [] words = << <<"-">> >> -> shell.vars["OLDPWD"].value
    [] OTHER               -> ViaCdpath(shell, Head(words))

\* Mutant: cd does not ask.
SetIfAllowed_always(table, name, value) == Assigned(table, name, value)

\* A read only PWD or OLDPWD stays as it is.
SetIfAllowed(table, name, value) ==
  IF table[name].readonly THEN table ELSE Assigned(table, name, value)

\* Mutant: the kernel is given the path with its "..".
Cd_unread(c, shell, words) ==
  LET physical == words # <<>> /\ Head(words) = <<"-P">>
      target   == CdTarget(shell, IF physical THEN Tail(words) ELSE words)
      old      == LogicalCwd(shell)
      new      == Lexical(Joined(old, target))
      to       == IF target = None THEN None ELSE Reached(dirs, Joined(old, target))
      moved    == [shell EXCEPT !.vars = SetIfAllowed(SetIfAllowed(@, "OLDPWD", old), "PWD", new)]
  IN CASE to \notin dirs          -> [shell |-> shell, cwd |-> cwd]
       [] to \in dirs /\ c = Main -> [shell |-> moved, cwd |-> to]
       [] OTHER                   -> [shell |-> [moved EXCEPT !.cwd_override = new], cwd |-> cwd]

Cd(c, shell, words) ==
  LET physical == words # <<>> /\ Head(words) = <<"-P">>
      target   == CdTarget(shell, IF physical THEN Tail(words) ELSE words)
      old      == LogicalCwd(shell)
      lexical  == Lexical(Joined(old, target))
      new      == IF physical THEN Reached(dirs, lexical) ELSE lexical
      to       == IF target = None \/ new = None THEN None ELSE Reached(dirs, new)
      moved    == [shell EXCEPT !.vars = SetIfAllowed(SetIfAllowed(@, "OLDPWD", old), "PWD", new)]
  IN CASE to \notin dirs            -> [shell |-> shell, cwd |-> cwd]
       [] to \in dirs /\ c = Main   -> [shell |-> moved, cwd |-> to]
       [] to \in dirs /\ c # Main   -> [shell |-> [moved EXCEPT !.cwd_override = new], cwd |-> cwd]

-----------------------------------------------------------------------------
(* What a command name stands for.                                          *)

SpecialBuiltins == {":", ".", "break", "continue", "eval", "exec", "exit", "export", "return",
                    "readonly", "set", "shift", "trap", "unset"}
RegularBuiltins == {"[", "alias", "cd", "echo", "command", "false", "hash", "printf", "pwd",
                    "read", "source", "test", "true", "type", "umask", "unalias"}
Keywords == {"if", "while", "until", "for", "case", "do", "done", "{", "}", "!"}

Classify(shell, name, skip_functions) ==
  CASE name \in SpecialBuiltins -> "builtin"
    [] name \notin SpecialBuiltins /\ ~skip_functions /\ name \in shell.functions -> "function"
    [] OTHER -> IF name \in RegularBuiltins THEN "builtin" ELSE "external"

\* The entries of the search path that hold a file of one of these kinds now.
Holding(shell, name, path, kinds) ==
  {entry \in ToSet(path) \union Range(shell.cache.found) :
     LET place == Place(Here(shell), entry, name)
     IN place \in DOMAIN files /\ files[place] \in kinds}

Looked(shell, name, path) ==
  Lookup(shell.cache, name, path, Holding(shell, name, path, {"program"}),
         Holding(shell, name, path, {"program", "plain"}))

\* What `type', `command -v' and `hash' find; only a search of PATH changes the cache.
Find(shell, name, path) ==
  LET kind == CASE name \in Keywords -> "keyword"
                [] name \in shell.aliases \ Keywords -> "alias"
                [] OTHER -> Classify(shell, name, FALSE)
  IN [kind |-> kind, shell |-> IF kind = "external"
                                 THEN [shell EXCEPT !.cache = Looked(shell, name, path).cache]
                                 ELSE shell]

Hash(shell, words) ==
  CASE words = <<>>          -> shell
    [] words = << <<"-r">> >> -> [shell EXCEPT !.cache.found = <<>>]
    [] OTHER -> [shell EXCEPT !.cache =
         FoldLeft(LAMBDA cache, w : Find([shell EXCEPT !.cache = cache], WordName(w),
                                         PathOf(shell)).shell.cache, @, words)]

-----------------------------------------------------------------------------
(* Builtins: the shell, the process and the flow after them.                *)

Same(shell) == [shell |-> shell, cwd |-> cwd, umask |-> umask, flow |-> "running"]

WithVars(shell, r) ==
  [Same([shell EXCEPT !.vars = r.table]) EXCEPT !.flow = IF r.ok THEN "running" ELSE "error"]

\* Mutants: every shell records the mask, or sets that of the process.
Umask_recorded(c, shell, mask) == Same([shell EXCEPT !.umask_override = mask])
Umask_process(c, shell, mask) == [Same(shell) EXCEPT !.umask = mask]

Umask(c, shell, mask) ==
  IF c = Main THEN [Same(shell) EXCEPT !.umask = mask]
  ELSE Same([shell EXCEPT !.umask_override = mask])

Effect(c, shell, words) ==
  LET name == Head(words[1])
      args == Tail(words)
  IN CASE name \in {"export", "readonly"} -> WithVars(shell, Declare(shell, args, name))
       [] name = "unset"    -> IF Head(args) = <<"-f">>
                                 THEN Same([shell EXCEPT !.functions =
                                              @ \ {WordName(w) : w \in ToSet(Tail(args))}])
                                 ELSE WithVars(shell, Unset(shell, args))
       [] name = "set"      -> Same(Set(shell, args))
       [] name = "shift"    -> Same(Shift(shell, IF args = <<>> THEN 1 ELSE Len(args[1])))
       [] name = "alias"    -> Same([shell EXCEPT !.aliases = @ \union {WordName(args[1])}])
       [] name = "unalias"  -> Same([shell EXCEPT !.aliases = @ \ {WordName(args[1])}])
       [] name = "cd"       -> LET r == Cd(c, shell, args)
                               IN [Same(r.shell) EXCEPT !.cwd = r.cwd]
       [] name = "umask"    -> IF args = <<>> THEN Same(shell) ELSE Umask(c, shell, Head(args[1]))
       [] name = "hash"     -> Same(Hash(shell, args))
       [] name = "type"     -> Same(Find(shell, WordName(args[1]), PathOf(shell)).shell)
       [] name = "command"  -> Same(Find(shell, WordName(args[2]),
                                         IF args[1] = <<"-pv">> THEN DefaultPath
                                         ELSE PathOf(shell)).shell)
       [] name = "return"   -> [Same(shell) EXCEPT !.flow = "return"]
       [] OTHER             -> Same(shell)

-----------------------------------------------------------------------------
(* Files.  A table says which file each descriptor refers to.               *)

\* Redirections from left to right: open a file, copy a descriptor, or close.
Redirected(table, redirects) ==
  FoldLeft(LAMBDA r, d :
             IF ~r.ok \/ (d.op = "dup" /\ r.table[d.target] = "closed") THEN [r EXCEPT !.ok = FALSE]
             ELSE [r EXCEPT !.table[d.fd] = CASE d.op = "open"  -> d.target
                                              [] d.op = "dup"   -> r.table[d.target]
                                              [] d.op = "close" -> "closed"],
           [table |-> table, ok |-> TRUE], redirects)

Applied(table, changes) ==
  [fd \in DOMAIN table |-> IF fd \in DOMAIN changes THEN changes[fd] ELSE table[fd]]

\* Mutant: the last exec counts.
ExecChanges_last(changes, base, table, redirects) ==
  Restrict(table, {d.fd : d \in ToSet(redirects)})

\* `record_fd_changes': what exec changed now replaces earlier changes of the same descriptors.
\* A file opened anew is a change even when its name is the same.
ExecChanges(changes, base, table, redirects) ==
  LET now == {fd \in DOMAIN table : \/ table[fd] # base[fd]
                                   \/ \E d \in ToSet(redirects) : d.fd = fd /\ d.op = "open"}
  IN [fd \in DOMAIN changes \union now |-> IF fd \in now THEN table[fd] ELSE changes[fd]]

\* The list a shell is running: the table it was given, and the one that exec has changed.
Top(c) == Last(frames[c])
Current(c) == IF Top(c).local = None THEN Top(c).base ELSE Top(c).local

\* `follow_fd_changes', after each command of a list.
Followed(stack, changes) ==
  LET top == Last(stack)
      table == IF top.local = None THEN top.base ELSE top.local
  IN IF changes = <<>> THEN stack
     ELSE Append(Front(stack), [top EXCEPT !.local = Applied(table, changes)])

List(kind, table) == [kind |-> kind, base |-> table, local |-> None, saved |-> <<>>,
                      positional |-> <<>>, path |-> None, undo |-> <<>>]

-----------------------------------------------------------------------------
(* A simple command, and what runs around it.                               *)

Redirect ==
  [fd : Fds, op : {"open"}, target : Files] \union [fd : Fds, op : {"dup"}, target : Fds]
  \union [fd : Fds, op : {"close"}, target : STRING]

SimpleCommand ==
  [assignments : Seq([name : Names, value : Seq(STRING)]), via : {"none", "command", "command -p"},
   words : Seq(Seq(STRING)), redirects : Seq(Redirect)]

\* `umask' is given a mask.
ASSUME ScriptsAssumption ==
  \A name \in DOMAIN Scripts :
    /\ Scripts[name].length \in Nat
    /\ Scripts[name].groups \subseteq Seq(Redirect)
    /\ \A s \in Scripts[name].commands :
         /\ s \in SimpleCommand
         /\ Len(s.words) > 1 /\ Head(s.words[1]) = "umask" => Head(s.words[2]) \in Masks

Idle(c) == \A e \in Live : c \notin ancestors[e]
Acts(c) == c \in Live /\ flow[c] = "running" /\ Idle(c) /\ spent < Scripts[script].length

CommandName(s) == Head(s.words[1])
Target(c, s) == Classify(shells[c], CommandName(s), s.via # "none")
IsSpecial(s) == s.words # <<>> /\ s.via = "none" /\ CommandName(s) \in SpecialBuiltins
Execs(s) == s.words = << <<"exec">> >>

Files_of(c, s) == Redirected(Current(c), s.redirects)
Prefix(c, s) == ApplyAssignments(shells[c].vars, s.assignments)
AssignedNames(s) == {a.name : a \in ToSet(s.assignments)}

\* No command keeps a temporary variable: it is not assigned alone, nor in front of a special
\* builtin, nor is it given to export or readonly.
ASSUME TemporaryAssumption ==
  /\ Temporary \subseteq Names \ {"PWD", "OLDPWD"}
  /\ \A name \in DOMAIN Scripts : \A s \in Scripts[name].commands :
       /\ s.words = <<>> \/ IsSpecial(s) => AssignedNames(s) \intersect Temporary = {}
       /\ s.words # <<>> /\ Head(s.words[1]) \in {"export", "readonly"} =>
            \A w \in ToSet(Tail(s.words)) : WordName(w) \notin Temporary

\* What is put back after the command: nothing for a special builtin.
Saved(c, s) ==
  [n \in (IF IsSpecial(s) THEN {} ELSE AssignedNames(s)) |-> shells[c].vars[n]]

Recorded(c, s) ==
  IF ~Execs(s) THEN shells[c]
  ELSE [shells[c] EXCEPT !.fd_changes =
          ExecChanges(@, Current(c), Files_of(c, s).table, s.redirects)]

\* The files that are to be seen after the command: exec has changed them before its
\* assignments are tried.
AfterExec(c, s) ==
  IF Execs(s) THEN [wanted EXCEPT ![c] = Redirected(@, s.redirects).table] ELSE wanted

\* The shell while the command runs.
During(c, s) ==
  [Recorded(c, s) EXCEPT
     !.vars = IF IsSpecial(s) /\ ~Execs(s) THEN Prefix(c, s).table
              ELSE ExportedAll(Prefix(c, s).table, AssignedNames(s)),
     !.path_override = IF s.via = "command -p" THEN DefaultPath ELSE @]

PutBack(shell, saved, path) ==
  [shell EXCEPT !.vars = Restored(@, saved), !.path_override = path]

\* exec and the redirections around it name different descriptors (see ExecAnywhere).
Apart(c, s) ==
  LET fds == {d.fd : d \in ToSet(s.redirects)}
  IN \/ ExecAnywhere
     \/ IF Execs(s) THEN \A i \in DOMAIN frames[c] : fds \intersect DOMAIN frames[c][i].undo = {}
        ELSE fds \intersect DOMAIN shells[c].fd_changes = {}

\* One step of c: it is `shell' afterwards, and goes on or unwinds.
Step(c, shell, to) ==
  /\ shells' = [shells EXCEPT ![c] = shell]
  /\ flow' = [flow EXCEPT ![c] = to]
  /\ frames' = IF to = "running" THEN [frames EXCEPT ![c] = Followed(@, shell.fd_changes)]
               ELSE frames
  /\ spent' = spent + 1
  /\ UNCHANGED <<script, ancestors, dirs, files>>

RedirectRefused(c, s) ==
  /\ Acts(c) /\ s.redirects # <<>> /\ ~Files_of(c, s).ok
  /\ Step(c, shells[c], IF IsSpecial(s) THEN "error" ELSE "running")
  /\ UNCHANGED <<cwd, umask, wanted>>

\* Mutant: the error returns before the variables are put back.
AssignmentRefused_kept(c, s) ==
  /\ Acts(c) /\ Files_of(c, s).ok /\ ~Prefix(c, s).ok /\ Apart(c, s)
  /\ Step(c, [Recorded(c, s) EXCEPT !.vars = Prefix(c, s).table], "error")
  /\ wanted' = AfterExec(c, s)
  /\ UNCHANGED <<cwd, umask>>

AssignmentRefused(c, s) ==
  /\ Acts(c) /\ Files_of(c, s).ok /\ ~Prefix(c, s).ok /\ Apart(c, s)
  /\ Step(c, [Recorded(c, s) EXCEPT
                !.vars = Restored(Prefix(c, s).table, IF s.words = <<>> THEN <<>> ELSE Saved(c, s))],
          "error")
  /\ wanted' = AfterExec(c, s)
  /\ UNCHANGED <<cwd, umask>>

Accepted(c, s) == Acts(c) /\ Files_of(c, s).ok /\ Prefix(c, s).ok /\ Apart(c, s)

Assign(c, s) ==
  /\ s.words = <<>> /\ Accepted(c, s)
  /\ Step(c, [shells[c] EXCEPT !.vars = Prefix(c, s).table], "running")
  /\ UNCHANGED <<cwd, umask, wanted>>

Builtin(c, s) ==
  /\ s.words # <<>> /\ CommandName(s) # "eval" /\ Target(c, s) = "builtin" /\ Accepted(c, s)
  /\ CommandName(s) = "return" => \E i \in DOMAIN frames[c] : frames[c][i].kind = "call"
  /\ LET after == Effect(c, During(c, s), s.words)
     IN /\ Step(c, PutBack(after.shell, Saved(c, s), shells[c].path_override), after.flow)
        /\ cwd' = after.cwd
        /\ umask' = after.umask
  /\ wanted' = AfterExec(c, s)

\* A program changes nothing of the shell but the cache of the search.
Program(c, s) ==
  /\ s.words # <<>> /\ Target(c, s) = "external" /\ Accepted(c, s)
  /\ LET shell == During(c, s)
         found == Looked(shell, CommandName(s), SearchPath(shell))
     IN Step(c, PutBack([shell EXCEPT !.cache = found.cache], Saved(c, s),
                        shells[c].path_override), "running")
  /\ UNCHANGED <<cwd, umask, wanted>>

\* A list inside this one: the call of a function, eval, a group with redirections.
Enter(c, shell, frame, redirects) ==
  /\ Len(frames[c]) < MaxFrames
  /\ shells' = [shells EXCEPT ![c] = shell]
  /\ frames' = [frames EXCEPT ![c] =
                  Append(@, [frame EXCEPT !.undo = [fd \in {d.fd : d \in ToSet(redirects)} |->
                                                      wanted[c][fd]]])]
  /\ wanted' = [wanted EXCEPT ![c] = Redirected(@, redirects).table]
  /\ spent' = spent + 1
  /\ UNCHANGED <<ancestors, flow, World>>

Call(c, s) ==
  /\ s.words # <<>> /\ Target(c, s) = "function" /\ Accepted(c, s)
  /\ Enter(c, [During(c, s) EXCEPT !.positional = Tail(s.words)],
           [List("call", Files_of(c, s).table) EXCEPT
              !.saved = Saved(c, s), !.positional = shells[c].positional,
              !.path = shells[c].path_override],
           s.redirects)

Eval(c, s) ==
  /\ s.words # <<>> /\ CommandName(s) = "eval" /\ Target(c, s) = "builtin" /\ Accepted(c, s)
  /\ Enter(c, During(c, s),
           [List("eval", Files_of(c, s).table) EXCEPT
              !.saved = Saved(c, s), !.path = shells[c].path_override],
           s.redirects)

Group(c, redirects) ==
  /\ Acts(c) /\ Redirected(Current(c), redirects).ok
  /\ ExecAnywhere \/ {d.fd : d \in ToSet(redirects)} \intersect DOMAIN shells[c].fd_changes = {}
  /\ Enter(c, shells[c],
           [List("group", Redirected(Current(c), redirects).table) EXCEPT
              !.path = shells[c].path_override],
           redirects)

DefineFunction(c, name) ==
  /\ Acts(c) /\ name \notin shells[c].functions
  /\ Step(c, [shells[c] EXCEPT !.functions = @ \union {name}], "running")
  /\ UNCHANGED <<cwd, umask, wanted>>

-----------------------------------------------------------------------------
(* The end of a list, reached or unwound.                                   *)

Left(c) ==
  LET top == Top(c)
      shell == PutBack(shells[c], top.saved, top.path)
  IN IF top.kind = "call" THEN [shell EXCEPT !.positional = top.positional] ELSE shell

Leave(c, to) ==
  /\ Len(frames[c]) > 1
  /\ shells' = [shells EXCEPT ![c] = Left(c)]
  /\ flow' = [flow EXCEPT ![c] = to]
  /\ frames' = [frames EXCEPT ![c] = IF to = "running" THEN Followed(Front(@), shells[c].fd_changes)
                                     ELSE Front(@)]
  /\ wanted' = [wanted EXCEPT ![c] = Applied(@, Top(c).undo)]
  /\ UNCHANGED <<ancestors, World, spent>>

EndList(c) == c \in Live /\ Idle(c) /\ flow[c] = "running" /\ Leave(c, "running")

\* The next list of the same command: the body after a condition, the next pass of a loop,
\* the next line of an eval.  It starts with the table the command was given.
NextList(c) ==
  /\ c \in Live /\ Idle(c) /\ flow[c] = "running"
  /\ Top(c).kind \in {"group", "eval"}
  /\ ExecAnywhere \/ Current(c) = Top(c).base
  /\ frames' = [frames EXCEPT ![c] = Append(Front(@), [Last(@) EXCEPT !.local = None])]
  /\ UNCHANGED <<shells, ancestors, flow, wanted, World, spent>>

\* An error ends every list; `return' ends those up to the call it is in.
Unwind(c) ==
  /\ c \in Live /\ flow[c] # "running"
  /\ Leave(c, IF flow[c] = "return" /\ Top(c).kind = "call" THEN "running" ELSE flow[c])

\* `Shell::run': the line's table takes over what exec changed, for the next line.
EndLine ==
  /\ Len(frames[Main]) = 1 /\ Idle(Main)
  /\ shells' = [shells EXCEPT ![Main].fd_changes = <<>>]
  /\ flow' = [flow EXCEPT ![Main] = "running"]
  /\ frames' = [frames EXCEPT ![Main] =
                  << List("list", Applied(Head(@).base, shells[Main].fd_changes)) >>]
  /\ UNCHANGED <<ancestors, wanted, World, spent>>

-----------------------------------------------------------------------------
(* Copies, and what other processes do.                                     *)

\* `Shell::subshell'.  A pipeline starts its stages one after the other.
Copied(shell) ==
  [shell EXCEPT !.fd_changes = <<>>,
                !.cwd_override = IF @ = None /\ cwd \in dirs THEN cwd ELSE @]

StartCopy(c, e) ==
  /\ Scripts[script].copies /\ c \in Live /\ e \in Copies \ Live
  /\ flow[c] = "running" /\ spent < Scripts[script].length
  /\ Cardinality({d \in Live : c \in ancestors[d]}) < MaxStages
  /\ LET add(f, v) == [d \in Live \union {e} |-> IF d = e THEN v ELSE f[d]]
     IN /\ shells' = add(shells, Copied(shells[c]))
        /\ ancestors' = add(ancestors, ancestors[c] \union {c})
        /\ frames' = add(frames, << List("list", Current(c)) >>)
        /\ flow' = add(flow, "running")
        /\ wanted' = add(wanted, wanted[c])
  /\ spent' = spent + 1
  /\ UNCHANGED World

EndCopy(e) ==
  /\ e \in Live \ {Main} /\ Len(frames[e]) = 1 /\ Idle(e)
  /\ LET without(f) == [d \in Live \ {e} |-> f[d]]
     IN /\ shells' = without(shells)
        /\ ancestors' = without(ancestors)
        /\ frames' = without(frames)
        /\ flow' = without(flow)
        /\ wanted' = without(wanted)
  /\ UNCHANGED <<World, spent>>

RemoveDir(dir) ==
  /\ dir \in dirs \intersect Scripts[script].removable
  /\ \A d \in dirs \ {dir} : ~IsPrefix(dir, d)
  /\ dirs' = dirs \ {dir}
  /\ files' = Restrict(files, {f \in DOMAIN files : ~IsPrefix(dir, f)})
  /\ UNCHANGED <<script, shells, ancestors, frames, flow, cwd, umask, wanted, spent>>

\* A program is installed, loses its permission, or is deleted.
ChangeFile(file, kind) ==
  /\ file \in Scripts[script].installable /\ Front(file) \in dirs
  /\ spent < Scripts[script].length
  /\ files' = [f \in (DOMAIN files \ {file}) \union (IF kind = None THEN {} ELSE {file}) |->
                 IF f = file THEN kind ELSE files[f]]
  /\ files' # files
  /\ spent' = spent + 1
  /\ UNCHANGED <<script, shells, ancestors, frames, flow, cwd, umask, dirs, wanted>>

-----------------------------------------------------------------------------

\* `init_pwd': PWD is kept if it names the working directory, without "..".
InitPwd(env, dir, existing) ==
  LET pwd == env["PWD"].value
      keep == /\ pwd # None /\ IsAbsolute(pwd)
              /\ ".." \notin ToSet(pwd)
              /\ Reached(existing, pwd) = dir
  IN IF keep THEN env ELSE ExportedAll(Assigned(env, "PWD", dir), {"PWD"})

ASSUME EnvironmentAssumption ==
  \A env \in Environments :
    env \in [Names -> Variable] /\ \A n \in Temporary : env[n] = Absent

Terminal == [fd \in Fds |-> IF fd \in {"0", "1", "2"} THEN "terminal" ELSE "closed"]

Init ==
  /\ script \in DOMAIN Scripts
  /\ dirs = DirNames
  /\ files = Scripts[script].files
  /\ cwd \in Scripts[script].starts
  /\ umask \in Masks
  /\ \E env \in Environments :
       shells = [c \in {Main} |->
                   [vars |-> InitPwd(env, cwd, dirs), positional |-> <<>>, functions |-> {},
                    aliases |-> {}, options |-> {}, cwd_override |-> None,
                    umask_override |-> None, path_override |-> None,
                    fd_changes |-> <<>>, cache |-> EmptyCache]]
  /\ ancestors = [c \in {Main} |-> {}]
  /\ frames = [c \in {Main} |-> << List("list", Terminal) >>]
  /\ flow = [c \in {Main} |-> "running"]
  /\ wanted = [c \in {Main} |-> Terminal]
  /\ spent = 0

Simple(c) ==
  /\ Acts(c)
  /\ \E s \in Scripts[script].commands :
       RedirectRefused(c, s) \/ AssignmentRefused(c, s) \/ Assign(c, s) \/ Builtin(c, s)
       \/ Program(c, s) \/ Call(c, s) \/ Eval(c, s)

Next ==
  \/ \E c \in Live : \/ Simple(c)
                     \/ \E redirects \in Scripts[script].groups : Group(c, redirects)
                     \/ \E name \in Scripts[script].functions : DefineFunction(c, name)
                     \/ NextList(c) \/ EndList(c) \/ Unwind(c)
                     \/ \E e \in Copies : StartCopy(c, e)
                     \/ EndCopy(c)
  \/ EndLine
  \/ \E dir \in DirNames : RemoveDir(dir)
  \/ \E file \in Scripts[script].installable, kind \in {"program", "plain", None} : ChangeFile(file, kind)

Spec == Init /\ [][Next]_vars

-----------------------------------------------------------------------------
(* Properties.                                                              *)

Table == [Fds -> Files]

\* The state is of the shape the code's types give it, one entry per live shell.
TypeOK ==
  /\ Main \in Live /\ Live \subseteq {Main} \union Copies
  /\ DOMAIN ancestors = Live /\ DOMAIN frames = Live /\ DOMAIN flow = Live /\ DOMAIN wanted = Live
  /\ cwd \in DirNames /\ umask \in Masks /\ dirs \subseteq DirNames /\ spent \in 0 .. Scripts[script].length
  /\ \A c \in Live :
       /\ shells[c].vars \in [Names -> Variable]
       /\ shells[c].positional \in Seq(Seq(STRING))
       /\ shells[c].options \subseteq Letters \union {"pipefail"}
       /\ shells[c].umask_override \in Masks \union {None}
       /\ c = Main => shells[c].cwd_override = None /\ shells[c].umask_override = None
       /\ flow[c] \in {"running", "return", "error"}
       /\ frames[c] # <<>> /\ Len(frames[c]) <= MaxFrames
       /\ \A i \in DOMAIN frames[c] : frames[c][i].base \in Table
       /\ wanted[c] \in Table

\* What the commands of a shell can tell of its settings.
Settings(shell) ==
  [vars |-> shell.vars, positional |-> shell.positional, functions |-> shell.functions,
   aliases |-> shell.aliases, options |-> shell.options,
   directory |-> Here(shell), mask |-> Mask(shell)]

Values == INSTANCE CopyValues WITH settings <- [c \in Live |-> Settings(shells[c])]

\* A copy of the shell has its parent's settings when it starts, and from then on no command
\* of one shell changes the settings of another, though they share the working directory
\* and the mask of one process (shell.rs `subshell', cd.rs, umask.rs).
CopyIsAValue == Values!Spec

\* What is read only stays as it is, whatever runs: no assignment, export, unset, cd, call or
\* unwinding changes it or takes the attribute away.  The one way out is the end of a command
\* in front of which the variable was assigned: `Variables::restore' puts the old one back.
ReadonlyStays ==
  [][\A c \in Live \intersect Live' : \A n \in Names :
       shells[c].vars[n].readonly =>
         \/ /\ shells'[c].vars[n].readonly
            /\ shells'[c].vars[n].value = shells[c].vars[n].value
         \/ Len(frames'[c]) < Len(frames[c]) /\ n \in DOMAIN Top(c).saved]_vars

\* Assignments in front of a command, and the search path of `command -p', are undone when
\* the command is over, by whatever way it ends: nothing is left of them between commands of
\* the line.
PrefixUndone ==
  flow[Main] = "running" /\ Len(frames[Main]) = 1 =>
    /\ shells[Main].path_override = None
    /\ \A n \in Temporary : shells[Main].vars[n] = Absent

\* Every command is given the files that the redirections around it and the `exec's before
\* it say: exec's changes reach what follows, in this list, in those around it and on the next
\* line, and end with the copy that made them.
FilesFollow == \A c \in Live : flow[c] = "running" => Current(c) = wanted[c]

\* PWD names the directory the shell is in, through links, `..', CDPATH and removed
\* directories, in every copy, unless it has been made read only or unset.
PwdTrue ==
  \A c \in Live : LET pwd == shells[c].vars["PWD"] IN
    pwd.value # None /\ ~pwd.readonly => Resolved(pwd.value) = Here(shells[c])

\* Whatever the cache holds, the search of a program to start, and that of `hash' and `type',
\* finds it exactly if its path has it now, and then one that can run now, from the directory it
\* will be started in (path.rs: a hit is checked again, a miss is never stored, and another path
\* than the last one, as under `command -p', empties the cache).
LookupSound ==
  \A c \in Live : \A name \in Programs : \A path \in {SearchPath(shells[c]), PathOf(shells[c])} :
    LET shell == shells[c]
        found == Looked(shell, name, path)
        runs(entry) == LET place == Place(Here(shell), entry, name)
                       IN place \in DOMAIN files /\ files[place] = "program"
    IN /\ (found.kind = "found") <=> \E entry \in ToSet(path) : runs(entry)
       /\ found.kind = "found" => runs(found.entry) /\ found.entry \in ToSet(path)

=============================================================================
