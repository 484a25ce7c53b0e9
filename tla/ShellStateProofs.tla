-------------------------- MODULE ShellStateProofs --------------------------
(***************************************************************************)
(* Proofs about ShellState, for every script, every environment, any       *)
(* directories and any number of copies: the shells have their settings by *)
(* value (CopyIsAValue); then what one command does to a shell.            *)
(*                                                                         *)
(* Only a step of the main shell changes the directory and the mask of the *)
(* process (EffectOfCopy), and the main shell takes a step only while no   *)
(* copy lives, because it waits for every one of them (the third conjunct  *)
(* of Inv).  A copy starts in the directory of its parent, by path; that   *)
(* this is the same directory needs that the process is in a directory     *)
(* whose name goes through no link.                                        *)
(*                                                                         *)
(* The builtins go through their words one after the other                 *)
(* (apply_assignments, export, unset, set, hash, the redirections): each   *)
(* of these is a fold, and what it keeps is shown for one word and carried *)
(* to all of them by Folding.                                              *)
(***************************************************************************)
EXTENDS ShellState, SequenceTheorems, FiniteSetTheorems, TLAPS

Fields == {"vars", "positional", "functions", "aliases", "options", "cwd_override",
           "umask_override", "path_override", "fd_changes", "cache"}

Inv ==
  /\ Main \in Live /\ Live \subseteq {Main} \union Copies
  /\ DOMAIN ancestors = Live
  /\ \A e \in Live \ {Main} : Main \in ancestors[e]
  /\ cwd \in DirNames /\ dirs \subseteq DirNames
  /\ shells = [c \in Live |-> shells[c]]
  /\ \A c \in Live : DOMAIN shells[c] = Fields

-----------------------------------------------------------------------------
(* What one command does to a shell and to the process.                     *)

(* A command leaves the shell a record with the same fields. *)
LEMMA EffectFields ==
  ASSUME NEW c, NEW shell, NEW words, DOMAIN shell = Fields
  PROVE  DOMAIN Effect(c, shell, words).shell = Fields
<1> DEFINE name == Head(words[1])
           args == Tail(words)
<1>1. \A sh : Same(sh).shell = sh
  BY DEF Same
<1>2. \A r : WithVars(shell, r).shell = [shell EXCEPT !.vars = r.table]
  BY DEF WithVars, Same
<1>3. DOMAIN Set(shell, args) = Fields
  BY DEF Set
<1>4. \A n : DOMAIN Shift(shell, n) = Fields
  BY DEF Shift
<1>5. DOMAIN Cd(c, shell, args).shell = Fields
  BY DEF Cd
<1>6. \A m : DOMAIN Umask(c, shell, m).shell = Fields
  BY DEF Umask, Same
<1>7. \A n, path : DOMAIN Find(shell, n, path).shell = Fields
  BY DEF Find
<1>8. DOMAIN Hash(shell, args) = Fields
  BY DEF Hash
<1>9. CASE name \in {"export", "readonly", "unset"}
  <2>1. CASE name = "export"
    BY <1>2, <2>1 DEF Effect
  <2>2. CASE name = "readonly"
    BY <1>2, <2>2 DEF Effect
  <2>3. CASE name = "unset"
    <3>1. CASE Head(args) = <<"-f">>
      BY <1>1, <2>3, <3>1 DEF Effect
    <3>2. CASE Head(args) # <<"-f">>
      BY <1>2, <2>3, <3>2 DEF Effect
    <3> QED
      BY <3>1, <3>2
  <2> QED
    BY <1>9, <2>1, <2>2, <2>3
<1>10. CASE name \in {"set", "shift", "umask", "hash"}
  BY <1>1, <1>3, <1>4, <1>6, <1>8, <1>10 DEF Effect
<1>11. CASE name \in {"type", "command"}
  BY <1>1, <1>7, <1>11 DEF Effect
<1>12. CASE name \in {"alias", "unalias"}
  BY <1>1, <1>12 DEF Effect
<1>13. CASE name = "cd"
  <2>1. Effect(c, shell, words).shell = Cd(c, shell, args).shell
    BY <1>13 DEF Effect, Same
  <2> QED
    BY <2>1, <1>5
<1>14. CASE name \notin {"export", "readonly", "unset", "set", "shift", "umask", "hash", "type",
                       "command", "alias", "unalias", "cd"}
  <2>1. Effect(c, shell, words).shell = shell
    BY <1>14 DEF Effect, Same
  <2> QED
    BY <2>1
<1> QED
  BY <1>9, <1>10, <1>11, <1>12, <1>13, <1>14

(* A command of a copy leaves the directory and the mask of the process alone: `cd' and *)
(* `umask' in a copy record them for the copy.                                          *)
LEMMA EffectOfCopy ==
  ASSUME NEW c, c # Main, NEW shell, NEW words
  PROVE  Effect(c, shell, words).cwd = cwd /\ Effect(c, shell, words).umask = umask
<1> DEFINE args == Tail(words)
<1>1. \A sh : Same(sh).cwd = cwd /\ Same(sh).umask = umask
  BY DEF Same
<1>2. \A sh, r : WithVars(sh, r).cwd = cwd /\ WithVars(sh, r).umask = umask
  BY DEF WithVars, Same
<1>3. Cd(c, shell, args).cwd = cwd
  BY DEF Cd
<1>4. \A m : Umask(c, shell, m).cwd = cwd /\ Umask(c, shell, m).umask = umask
  BY DEF Umask, Same
<1> QED
  BY <1>1, <1>2, <1>3, <1>4 DEF Effect, Same

(* The process is always in a directory that there was when it went there. *)
LEMMA EffectCwd ==
  ASSUME NEW c, NEW shell, NEW words, cwd \in DirNames, dirs \subseteq DirNames
  PROVE  Effect(c, shell, words).cwd \in DirNames
<1> DEFINE args == Tail(words)
<1>1. \A sh : Same(sh).cwd = cwd
  BY DEF Same
<1>2. \A sh, r : WithVars(sh, r).cwd = cwd
  BY DEF WithVars, Same
<1>3. Cd(c, shell, args).cwd \in DirNames
  BY DEF Cd
<1>4. \A m : Umask(c, shell, m).cwd = cwd
  BY DEF Umask, Same
<1> QED
  BY <1>1, <1>2, <1>3, <1>4 DEF Effect, Same

-----------------------------------------------------------------------------
(* A step of a simple command, in the terms the invariant needs: one shell  *)
(* moves, which waits for none, and the process moves only with the main    *)
(* shell.                                                                   *)

Moves(c) ==
  /\ c \in Live
  /\ \E shell : DOMAIN shell = Fields /\ shells' = [shells EXCEPT ![c] = shell]
  /\ (cwd' = cwd /\ umask' = umask) \/ (c = Main /\ Idle(c))
  /\ cwd' \in DirNames
  /\ UNCHANGED <<ancestors, dirs>>

LEMMA DuringFields ==
  ASSUME Inv, NEW c \in Live, NEW s
  PROVE  /\ DOMAIN Recorded(c, s) = Fields
         /\ DOMAIN During(c, s) = Fields
<1>1. DOMAIN shells[c] = Fields
  BY DEF Inv
<1>2. DOMAIN Recorded(c, s) = Fields
  BY <1>1 DEF Recorded
<1> QED
  BY <1>2 DEF During

LEMMA SimpleMoves ==
  ASSUME Inv, NEW c \in Live, NEW s,
         \/ RedirectRefused(c, s) \/ AssignmentRefused(c, s) \/ Assign(c, s)
         \/ Builtin(c, s) \/ Program(c, s) \/ Call(c, s) \/ Eval(c, s)
  PROVE  Moves(c)
<1>1. DOMAIN shells[c] = Fields /\ cwd \in DirNames /\ dirs \subseteq DirNames
  BY DEF Inv
<1>2. DOMAIN Recorded(c, s) = Fields /\ DOMAIN During(c, s) = Fields
  BY DuringFields
<1>3. \A shell, saved, path : DOMAIN PutBack(shell, saved, path) = DOMAIN shell
  BY DEF PutBack
<1>4. CASE RedirectRefused(c, s)
  BY <1>1, <1>4 DEF RedirectRefused, Acts, Step, Moves
<1>5. CASE AssignmentRefused(c, s)
  <2> DEFINE after == [Recorded(c, s) EXCEPT
                        !.vars = Restored(Prefix(c, s).table,
                                          IF s.words = <<>> THEN <<>> ELSE Saved(c, s))]
  <2>1. DOMAIN after = Fields
    BY <1>2
  <2>2. shells' = [shells EXCEPT ![c] = after]
    BY <1>5 DEF AssignmentRefused, Step
  <2> HIDE DEF after
  <2> QED
    BY <1>1, <1>5, <2>1, <2>2 DEF AssignmentRefused, Acts, Step, Moves
<1>6. CASE Assign(c, s)
  <2> DEFINE after == [shells[c] EXCEPT !.vars = Prefix(c, s).table]
  <2>1. DOMAIN after = Fields
    BY <1>1
  <2>2. shells' = [shells EXCEPT ![c] = after]
    BY <1>6 DEF Assign, Step
  <2> HIDE DEF after
  <2> QED
    BY <1>1, <1>6, <2>1, <2>2 DEF Assign, Accepted, Acts, Step, Moves
<1>7. CASE Builtin(c, s)
  <2> DEFINE e == Effect(c, During(c, s), s.words)
             after == PutBack(e.shell, Saved(c, s), shells[c].path_override)
  <2>1. DOMAIN after = Fields
    BY <1>2, <1>3, EffectFields
  <2>2. shells' = [shells EXCEPT ![c] = after] /\ cwd' = e.cwd /\ umask' = e.umask
    BY <1>7 DEF Builtin, Step
  <2>3. c # Main => e.cwd = cwd /\ e.umask = umask
    BY EffectOfCopy
  <2>4. e.cwd \in DirNames
    BY <1>1, EffectCwd
  <2> HIDE DEF after, e
  <2> QED
    BY <1>7, <2>1, <2>2, <2>3, <2>4 DEF Builtin, Accepted, Acts, Step, Moves
<1>8. CASE Program(c, s)
  <2> DEFINE looked == [During(c, s) EXCEPT
                          !.cache = Looked(During(c, s), CommandName(s),
                                           SearchPath(During(c, s))).cache]
             after == PutBack(looked, Saved(c, s), shells[c].path_override)
  <2>1. DOMAIN after = Fields
    BY <1>2, <1>3
  <2>2. shells' = [shells EXCEPT ![c] = after]
    BY <1>8 DEF Program, Step
  <2> HIDE DEF after
  <2> QED
    BY <1>1, <1>8, <2>1, <2>2 DEF Program, Accepted, Acts, Step, Moves
<1>9. CASE Call(c, s)
  <2> DEFINE after == [During(c, s) EXCEPT !.positional = Tail(s.words)]
  <2>1. DOMAIN after = Fields
    BY <1>2
  <2>2. shells' = [shells EXCEPT ![c] = after]
    BY <1>9 DEF Call, Enter
  <2> HIDE DEF after
  <2> QED
    BY <1>1, <1>9, <2>1, <2>2 DEF Call, Accepted, Acts, Enter, World, Moves
<1>10. CASE Eval(c, s)
  <2>2. shells' = [shells EXCEPT ![c] = During(c, s)]
    BY <1>10 DEF Eval, Enter
  <2> QED
    BY <1>1, <1>2, <1>10, <2>2 DEF Eval, Accepted, Acts, Enter, World, Moves
<1> QED
  BY <1>4, <1>5, <1>6, <1>7, <1>8, <1>9, <1>10

(* The other steps of one shell. *)
LEMMA OtherMoves ==
  ASSUME Inv, NEW c \in Live,
         \/ \E redirects : Group(c, redirects)
         \/ \E name : DefineFunction(c, name)
         \/ NextList(c)
         \/ EndList(c)
         \/ Unwind(c)
         \/ c = Main /\ EndLine
  PROVE  Moves(c)
<1>1. DOMAIN shells[c] = Fields /\ cwd \in DirNames
  BY DEF Inv
<1>2. DOMAIN Left(c) = Fields
  BY <1>1 DEF Left, PutBack
<1>3. CASE \E redirects : Group(c, redirects)
  <2>1. PICK redirects : Group(c, redirects)
    BY <1>3
  <2> QED
    BY <1>1, <2>1 DEF Group, Acts, Enter, World, Moves
<1>4. CASE \E name : DefineFunction(c, name)
  <2>1. PICK name : DefineFunction(c, name)
    BY <1>4
  <2> DEFINE after == [shells[c] EXCEPT !.functions = @ \union {name}]
  <2>2. DOMAIN after = Fields
    BY <1>1
  <2>3. shells' = [shells EXCEPT ![c] = after]
    BY <2>1 DEF DefineFunction, Step
  <2> HIDE DEF after
  <2> QED
    BY <1>1, <2>1, <2>2, <2>3 DEF DefineFunction, Acts, Step, Moves
<1>5. CASE EndList(c)
  BY <1>1, <1>2, <1>5 DEF EndList, Leave, World, Moves
<1>6. CASE Unwind(c)
  BY <1>1, <1>2, <1>6 DEF Unwind, Leave, World, Moves
<1>7. CASE c = Main /\ EndLine
  <2> DEFINE after == [shells[Main] EXCEPT !.fd_changes = <<>>]
  <2>1. DOMAIN after = Fields
    BY <1>1, <1>7
  <2>2. shells' = [shells EXCEPT ![Main] = after]
    BY <1>7 DEF EndLine
  <2> HIDE DEF after
  <2> QED
    BY <1>1, <1>7, <2>1, <2>2 DEF EndLine, World, Moves
<1>8. CASE NextList(c)
  <2>1. shells' = [shells EXCEPT ![c] = shells[c]]
    BY <1>8 DEF NextList, Inv
  <2> QED
    BY <1>1, <1>8, <2>1 DEF NextList, World, Moves
<1> QED
  BY <1>3, <1>4, <1>5, <1>6, <1>7, <1>8

-----------------------------------------------------------------------------
(* The invariant.                                                           *)

LEMMA InitInv ==
  ASSUME Init
  PROVE  Inv
<1>1. PICK env \in Environments :
        shells = [c \in {Main} |->
                   [vars |-> InitPwd(env, cwd, dirs), positional |-> <<>>, functions |-> {},
                    aliases |-> {}, options |-> {}, cwd_override |-> None,
                    umask_override |-> None, path_override |-> None,
                    fd_changes |-> <<>>, cache |-> EmptyCache]]
  BY DEF Init
<1>2. Live = {Main}
  BY <1>1 DEF Live
<1>3. \A c \in Live : DOMAIN shells[c] = Fields
  BY <1>1, <1>2 DEF Fields
<1>4. cwd \in DirNames /\ dirs \subseteq DirNames
  BY StartsAssumption DEF Init
<1>5. shells = [c \in Live |-> shells[c]]
  BY <1>1, <1>2
<1>6. DOMAIN ancestors = Live
  BY <1>2 DEF Init
<1> QED
  BY <1>2, <1>3, <1>4, <1>5, <1>6 DEF Inv

LEMMA MovesInv ==
  ASSUME Inv, NEW c, Moves(c)
  PROVE  Inv'
<1>1. PICK shell : DOMAIN shell = Fields /\ shells' = [shells EXCEPT ![c] = shell]
  BY DEF Moves
<1>2. Live' = Live
  BY <1>1 DEF Live
<1>3. \A d \in Live : DOMAIN shells'[d] = Fields
  BY <1>1 DEF Inv, Moves
<1>4. shells' = [d \in Live |-> shells'[d]]
  BY <1>1 DEF Inv
<1> QED
  BY <1>2, <1>3, <1>4 DEF Inv, Moves

(* A new copy has an ancestor more than its parent, and the main shell among them. *)
LEMMA StartCopyInv ==
  ASSUME Inv, NEW c, NEW e \in Copies, StartCopy(c, e)
  PROVE  Inv'
<1>1. /\ c \in Live /\ e \notin Live /\ e \in Copies
      /\ shells' = [d \in Live \union {e} |-> IF d = e THEN Copied(shells[c]) ELSE shells[d]]
      /\ ancestors' = [d \in Live \union {e} |-> IF d = e THEN ancestors[c] \union {c}
                                                ELSE ancestors[d]]
      /\ UNCHANGED <<cwd, dirs>>
  BY DEF StartCopy, World
<1>2. Live' = Live \union {e}
  BY <1>1 DEF Live
<1>3. \A d \in Live' : DOMAIN shells'[d] = Fields
  BY <1>1, <1>2 DEF Inv, Copied
<1>4. shells' = [d \in Live' |-> shells'[d]]
  BY <1>1, <1>2
<1>5. Main \in ancestors[c] \union {c}
  BY <1>1 DEF Inv
<1>6. DOMAIN ancestors' = Live' /\ \A d \in Live' \ {Main} : Main \in ancestors'[d]
  BY <1>1, <1>2, <1>5 DEF Inv
<1> QED
  BY <1>1, <1>2, <1>3, <1>4, <1>6 DEF Inv

LEMMA EndCopyInv ==
  ASSUME Inv, NEW e, EndCopy(e)
  PROVE  Inv'
<1>1. /\ e \in Live \ {Main}
      /\ shells' = [d \in Live \ {e} |-> shells[d]]
      /\ ancestors' = [d \in Live \ {e} |-> ancestors[d]]
      /\ UNCHANGED <<cwd, dirs>>
  BY DEF EndCopy, World
<1>2. Live' = Live \ {e}
  BY <1>1 DEF Live
<1> QED
  BY <1>1, <1>2 DEF Inv

LEMMA NextInv ==
  ASSUME Inv, [Next]_vars
  PROVE  Inv'
<1>1. CASE \E c \in Live : Moves(c)
  BY <1>1, MovesInv
<1>2. CASE \E c \in Live, e \in Copies : StartCopy(c, e)
  BY <1>2, StartCopyInv
<1>3. CASE \E c \in Live : EndCopy(c)
  BY <1>3, EndCopyInv
<1>4. CASE \/ \E dir \in DirNames : RemoveDir(dir)
           \/ \E file, kind : ChangeFile(file, kind)
           \/ UNCHANGED vars
  <2>1. UNCHANGED <<shells, ancestors, cwd>> /\ dirs' \subseteq dirs
    BY <1>4 DEF RemoveDir, ChangeFile, vars
  <2> QED
    BY <2>1 DEF Inv, Live
<1> QED
  BY <1>1, <1>2, <1>3, <1>4, SimpleMoves, OtherMoves DEF Next, Simple, Inv

-----------------------------------------------------------------------------
(* The refinement.                                                          *)

TheSettings == [c \in Live |-> Settings(shells[c])]

(* The other shells see nothing of the step: the process moves only while there are none. *)
LEMMA MovesChange ==
  ASSUME Inv, Inv', NEW c \in Live, Moves(c)
  PROVE  Values!Change(c)
<1>1. PICK shell : shells' = [shells EXCEPT ![c] = shell]
  BY DEF Moves
<1>2. Live' = Live
  BY <1>1 DEF Live
<1>3. ASSUME NEW d \in Live, d # c
      PROVE  Settings(shells[d])' = Settings(shells[d])
  <2>1. shells'[d] = shells[d]
    BY <1>1, <1>3
  <2>2. CASE cwd' = cwd /\ umask' = umask
    BY <2>1, <2>2 DEF Settings, Here, Mask
  <2>3. CASE c = Main /\ Idle(c)
    BY <1>3, <2>3 DEF Idle, Inv
  <2> QED
    BY <2>2, <2>3 DEF Moves
<1>4. TheSettings' = [d \in Live |-> IF d = c THEN TheSettings'[c] ELSE TheSettings[d]]
  BY <1>2, <1>3 DEF TheSettings
<1>5. DOMAIN TheSettings = Live /\ DOMAIN TheSettings' = Live
  BY <1>2 DEF TheSettings
<1> QED
  BY <1>4, <1>5 DEF Values!Change, TheSettings

(* A copy has what its parent has, also the directory, which it now has by name. *)
LEMMA CopiedSettings ==
  ASSUME Inv, NEW c \in Live
  PROVE  Settings(Copied(shells[c])) = Settings(shells[c])
<1>1. Resolved(cwd) = cwd /\ cwd # None
  BY DirectoriesAssumption DEF Inv
<1>2. DOMAIN shells[c] = Fields
  BY DEF Inv
<1>3. Here(Copied(shells[c])) = Here(shells[c])
  BY <1>1, <1>2 DEF Copied, Here, Fields
<1> QED
  BY <1>2, <1>3 DEF Settings, Copied, Mask, Fields

LEMMA StartCopyStart ==
  ASSUME Inv, NEW c \in Live, NEW e \in Copies, StartCopy(c, e)
  PROVE  Values!Start(c, e)
<1>1. /\ e \notin Live
      /\ shells' = [d \in Live \union {e} |-> IF d = e THEN Copied(shells[c]) ELSE shells[d]]
      /\ UNCHANGED <<cwd, umask>>
  BY DEF StartCopy, World
<1>2. Live' = Live \union {e}
  BY <1>1 DEF Live
<1>3. \A shell : Settings(shell)' = Settings(shell)
  BY <1>1 DEF Settings, Here, Mask
<1>4. TheSettings' = [d \in Live \union {e} |-> IF d = e THEN Settings(shells[c])
                                                ELSE Settings(shells[d])]
  BY <1>1, <1>2, <1>3, CopiedSettings DEF TheSettings
<1> QED
  BY <1>1, <1>4 DEF Values!Start, TheSettings

LEMMA EndCopyEnd ==
  ASSUME Inv, NEW e \in Live, EndCopy(e)
  PROVE  Values!End(e) /\ e \in Copies
<1>1. /\ e # Main
      /\ shells' = [d \in Live \ {e} |-> shells[d]]
      /\ UNCHANGED <<cwd, umask>>
  BY DEF EndCopy, World
<1>2. Live' = Live \ {e}
  BY <1>1 DEF Live
<1> QED
  BY <1>1, <1>2 DEF Values!End, Settings, Here, Mask, Inv

LEMMA NextRefines ==
  ASSUME Inv, Inv', [Next]_vars
  PROVE  [Values!Next]_TheSettings
<1>1. CASE \E c \in Live : Moves(c)
  BY <1>1, MovesChange DEF Values!Next, Inv
<1>2. CASE \E c \in Live, e \in Copies : StartCopy(c, e)
  BY <1>2, StartCopyStart DEF Values!Next, Inv
<1>3. CASE \E c \in Live : EndCopy(c)
  BY <1>3, EndCopyEnd DEF Values!Next
<1>4. CASE \/ \E dir \in DirNames : RemoveDir(dir)
           \/ \E file, kind : ChangeFile(file, kind)
           \/ UNCHANGED vars
  BY <1>4 DEF RemoveDir, ChangeFile, vars, TheSettings, Live, Settings, Here, Mask
<1> QED
  BY <1>1, <1>2, <1>3, <1>4, SimpleMoves, OtherMoves DEF Next, Simple, Inv

(* For every script, every set of copies and all directories: a copy of the shell has its *)
(* parent's settings when it starts, and a command changes the settings of its own shell   *)
(* only, although the working directory and the mask are the process's.                    *)
THEOREM CopiesAreValues == Spec => CopyIsAValue
<1>1. Init => Inv /\ Values!Init
  BY InitInv DEF Init, Values!Init, Live
<1>2. Inv /\ [Next]_vars => Inv'
  BY NextInv
<1>3. Inv /\ Inv' /\ [Next]_vars => [Values!Next]_TheSettings
  BY NextRefines
<1> QED
  BY <1>1, <1>2, <1>3, PTL DEF Spec, CopyIsAValue, Values!Spec, TheSettings

-----------------------------------------------------------------------------
(* The steps of the folds.                                                  *)

AssignOne(ctx, r, a) ==
  IF ~r.ok \/ r.table[a.name].readonly THEN [r EXCEPT !.ok = FALSE]
  ELSE [r EXCEPT !.table = Assigned(@, a.name, a.value)]

Assigning == INSTANCE Folding WITH Op <- AssignOne

DeclareOne(mark, r, w) ==
  IF ~r.ok \/ (Len(w) > 1 /\ r.table[WordName(w)].readonly) THEN [r EXCEPT !.ok = FALSE]
  ELSE [r EXCEPT !.table = Marked(IF Len(w) > 1 THEN Assigned(@, WordName(w), WordValue(w)) ELSE @,
                                  WordName(w), mark)]

Declaring == INSTANCE Folding WITH Op <- DeclareOne

UnsetOne(ctx, r, w) ==
  IF ~r.ok \/ r.table[WordName(w)].readonly THEN [r EXCEPT !.ok = FALSE]
  ELSE [r EXCEPT !.table[WordName(w)] = Absent]

Unsetting == INSTANCE Folding WITH Op <- UnsetOne

SetOne(ctx, r, w) == SetWord(r, w)

Setting == INSTANCE Folding WITH Op <- SetOne

HashOne(shell, cache, w) ==
  Find([shell EXCEPT !.cache = cache], WordName(w), PathOf(shell)).shell.cache

Hashing == INSTANCE Folding WITH Op <- HashOne

RedirectOne(ctx, r, d) ==
  IF ~r.ok \/ (d.op = "dup" /\ r.table[d.target] = "closed") THEN [r EXCEPT !.ok = FALSE]
  ELSE [r EXCEPT !.table[d.fd] = CASE d.op = "open"  -> d.target
                                   [] d.op = "dup"   -> r.table[d.target]
                                   [] d.op = "close" -> "closed"]

Redirecting == INSTANCE Folding WITH Op <- RedirectOne

LexicalOne(ctx, out, name) == IF name = ".." THEN Parent(out) ELSE Append(out, name)

Reading == INSTANCE Folding WITH Op <- LexicalOne

FollowOne(ctx, out, name) == Follow(out, name)

Following == INSTANCE Folding WITH Op <- FollowOne

ReachOne(existing, out, name) ==
  IF out # None /\ Follow(out, name) \in existing THEN Follow(out, name) ELSE None

Reaching == INSTANCE Folding WITH Op <- ReachOne

LEMMA TableFolds ==
  ASSUME NEW table, NEW seq
  PROVE  /\ ApplyAssignments(table, seq) = Assigning!Fold(0, [table |-> table, ok |-> TRUE], seq)
         /\ Redirected(table, seq) = Redirecting!Fold(0, [table |-> table, ok |-> TRUE], seq)
<1>1. ApplyAssignments(table, seq) = Assigning!Fold(0, [table |-> table, ok |-> TRUE], seq)
  BY DEF ApplyAssignments, AssignOne, FoldLeft, MapThenFoldSet, Max, Assigning!Fold,
         Assigning!FoldLeft, Assigning!MapThenFoldSet, Assigning!Max
<1>2. Redirected(table, seq) = Redirecting!Fold(0, [table |-> table, ok |-> TRUE], seq)
  BY DEF Redirected, RedirectOne, FoldLeft, MapThenFoldSet, Max, Redirecting!Fold,
         Redirecting!FoldLeft, Redirecting!MapThenFoldSet, Redirecting!Max
<1> QED
  BY <1>1, <1>2

LEMMA WordFolds ==
  ASSUME NEW shell, NEW words, NEW mark
  PROVE  /\ Declare(shell, words, mark) =
              Declaring!Fold(mark, [table |-> shell.vars, ok |-> TRUE], words)
         /\ Unset(shell, words) = Unsetting!Fold(0, [table |-> shell.vars, ok |-> TRUE], words)
<1>1. Declare(shell, words, mark) =
        Declaring!Fold(mark, [table |-> shell.vars, ok |-> TRUE], words)
  BY DEF Declare, DeclareOne, FoldLeft, MapThenFoldSet, Max, Declaring!Fold,
         Declaring!FoldLeft, Declaring!MapThenFoldSet, Declaring!Max
<1>2. Unset(shell, words) = Unsetting!Fold(0, [table |-> shell.vars, ok |-> TRUE], words)
  BY DEF Unset, UnsetOne, FoldLeft, MapThenFoldSet, Max, Unsetting!Fold,
         Unsetting!FoldLeft, Unsetting!MapThenFoldSet, Unsetting!Max
<1> QED
  BY <1>1, <1>2

LEMMA PathFolds ==
  ASSUME NEW p, NEW existing
  PROVE  /\ Lexical(p) = Reading!Fold(0, Root, Tail(p))
         /\ Resolved(p) = Following!Fold(0, Root, Tail(p))
         /\ Reached(existing, p) = Reaching!Fold(existing, Root, Tail(p))
<1>1. Lexical(p) = Reading!Fold(0, Root, Tail(p))
  BY DEF Lexical, LexicalOne, FoldLeft, MapThenFoldSet, Max, Reading!Fold,
         Reading!FoldLeft, Reading!MapThenFoldSet, Reading!Max
<1>2. Resolved(p) = Following!Fold(0, Root, Tail(p))
  BY DEF Resolved, FollowOne, FoldLeft, MapThenFoldSet, Max, Following!Fold,
         Following!FoldLeft, Following!MapThenFoldSet, Following!Max
<1>3. Reached(existing, p) = Reaching!Fold(existing, Root, Tail(p))
  BY DEF Reached, ReachOne, FoldLeft, MapThenFoldSet, Max, Reaching!Fold,
         Reaching!FoldLeft, Reaching!MapThenFoldSet, Reaching!Max
<1> QED
  BY <1>1, <1>2, <1>3

LEMMA SettingFold ==
  ASSUME NEW shell, NEW words
  PROVE  LET r == Setting!Fold(0, [reading |-> "options", options |-> shell.options, on |-> TRUE,
                                   names |-> 0, args |-> <<>>, replace |-> FALSE], words)
         IN  Set(shell, words) =
               IF r.reading \in {"refused", "name"} THEN shell
               ELSE [shell EXCEPT !.options = r.options,
                                  !.positional = IF r.replace THEN r.args ELSE @]
BY DEF Set, SetOne, FoldLeft, MapThenFoldSet, Max, Setting!Fold, Setting!FoldLeft,
       Setting!MapThenFoldSet, Setting!Max

LEMMA HashingFold ==
  ASSUME NEW shell, NEW words, words # <<>>, words # << <<"-r">> >>
  PROVE  Hash(shell, words) = [shell EXCEPT !.cache = Hashing!Fold(shell, shell.cache, words)]
BY DEF Hash, HashOne, FoldLeft, MapThenFoldSet, Max, Hashing!Fold, Hashing!FoldLeft,
       Hashing!MapThenFoldSet, Hashing!Max

LEMMA Elements ==
  ASSUME NEW D, NEW seq \in Seq(D)
  PROVE  ToSet(seq) \subseteq D /\ seq \in Seq(ToSet(seq))
<1>1. seq \in [1 .. Len(seq) -> ToSet(seq)] /\ Len(seq) \in Nat
  BY DEF ToSet
<1>2. [1 .. Len(seq) -> ToSet(seq)] \subseteq Seq(ToSet(seq))
  BY <1>1, SeqDef
<1> QED
  BY <1>1, <1>2 DEF ToSet

-----------------------------------------------------------------------------
(* Tables of variables.                                                     *)

Tables == [Names -> Variable]

(* How a table may come out of a command that assigns some names and marks  *)
(* some as exported or read only: what is read only stays as it is, what is *)
(* not named is unset at most.                                              *)
Carried(old, new, assigned, marked) ==
  \A n \in Names :
    /\ old[n].readonly => new[n].readonly /\ new[n].value = old[n].value
    /\ n \notin assigned => new[n].value \in {old[n].value, None}
    /\ n \notin assigned \union marked => (old[n] = Absent => new[n] = Absent)

Outcomes(table, assigned, marked) ==
  {r \in [table : Tables, ok : BOOLEAN] : Carried(table, r.table, assigned, marked)}

LEMMA CarriedOn ==
  ASSUME NEW one \in Tables, NEW two \in Tables, NEW three \in Tables,
         NEW a1, NEW m1, NEW a2, NEW m2,
         Carried(one, two, a1, m1), Carried(two, three, a2, m2)
  PROVE  Carried(one, three, a1 \union a2, m1 \union m2)
BY DEF Carried

LEMMA NothingCarried ==
  ASSUME NEW table, NEW assigned, NEW marked
  PROVE  Carried(table, table, assigned, marked)
BY DEF Carried

LEMMA AssignedTable ==
  ASSUME NEW table \in Tables, NEW name, NEW value \in Seq(STRING)
  PROVE  /\ Assigned(table, name, value) \in Tables
         /\ ~table[name].readonly \/ name \notin Names =>
              Carried(table, Assigned(table, name, value), {name}, {})
         /\ name \in Names => Assigned(table, name, value)[name].value = value
         /\ \A n \in Names \ {name} : Assigned(table, name, value)[n] = table[n]
BY DEF Tables, Variable, Assigned, Carried

LEMMA MarkedTable ==
  ASSUME NEW table \in Tables, NEW name, NEW mark \in {"export", "readonly"}
  PROVE  /\ Marked(table, name, mark) \in Tables
         /\ Carried(table, Marked(table, name, mark), {}, {name})
         /\ \A n \in Names : Marked(table, name, mark)[n].value = table[n].value
BY DEF Tables, Variable, Marked, ExportedAll, Carried

LEMMA ExportedTable ==
  ASSUME NEW table \in Tables, NEW names
  PROVE  /\ ExportedAll(table, names) \in Tables
         /\ Carried(table, ExportedAll(table, names), {}, names)
BY DEF Tables, Variable, ExportedAll, Carried

LEMMA AbsentIsOne == Absent \in Variable
BY DEF Absent, Variable

(* apply_assignments.                                                       *)
LEMMA AssignmentsCarry ==
  ASSUME NEW table \in Tables, NEW seq \in Seq([name : Names, value : Seq(STRING)])
  PROVE  ApplyAssignments(table, seq) \in Outcomes(table, {a.name : a \in ToSet(seq)}, {})
<1> DEFINE names == {a.name : a \in ToSet(seq)}
           T == Outcomes(table, names, {})
           base == [table |-> table, ok |-> TRUE]
<1>1. base \in T
  BY NothingCarried DEF Outcomes
<1>2. ASSUME NEW r \in T, NEW a \in ToSet(seq) PROVE AssignOne(0, r, a) \in T
  <2>1. a \in [name : Names, value : Seq(STRING)] /\ a.name \in names
    BY Elements
  <2>2. r \in [table : Tables, ok : BOOLEAN] /\ Carried(table, r.table, names, {})
    BY DEF Outcomes
  <2>3. CASE ~r.ok \/ r.table[a.name].readonly
    <3>1. AssignOne(0, r, a) = [r EXCEPT !.ok = FALSE]
      BY <2>3 DEF AssignOne
    <3> QED
      BY <2>2, <3>1 DEF Outcomes
  <2>4. CASE ~(~r.ok \/ r.table[a.name].readonly)
    <3> DEFINE new == Assigned(r.table, a.name, a.value)
    <3>1. AssignOne(0, r, a) = [r EXCEPT !.table = new]
      BY <2>4 DEF AssignOne
    <3>2. new \in Tables /\ Carried(r.table, new, {a.name}, {})
      BY <2>1, <2>2, <2>4, AssignedTable
    <3>3. names \union {a.name} = names /\ {} \union {} = {}
      BY <2>1
    <3>4. Carried(table, new, names, {})
      <4> HIDE DEF new, names
      <4>1. Carried(table, new, names \union {a.name}, {} \union {})
        BY <2>2, <3>2, CarriedOn
      <4> QED
        BY <3>3, <4>1
    <3> HIDE DEF new
    <3> QED
      BY <2>2, <3>1, <3>2, <3>4 DEF Outcomes
  <2> QED
    BY <2>3, <2>4
<1>3. Assigning!Fold(0, base, seq) \in T
  <2> HIDE DEF T, base
  <2>1. Assigning!Stays(0, T, ToSet(seq))
    BY <1>2 DEF Assigning!Stays
  <2> QED
    BY <1>1, <2>1, Elements, Assigning!FoldStays
<1> QED
  BY <1>3, TableFolds

Words == Seq(Seq(STRING))

\* The names that export and readonly give a value, and those that they mark.
Valued(words) == {WordName(w) : w \in {w \in ToSet(words) : Len(w) > 1}}
Named(words) == {WordName(w) : w \in ToSet(words)}

(* export and readonly.                                                     *)
LEMMA DeclarationsCarry ==
  ASSUME NEW shell, shell.vars \in Tables, NEW words \in Words,
         NEW mark \in {"export", "readonly"}
  PROVE  Declare(shell, words, mark) \in Outcomes(shell.vars, Valued(words), Named(words))
<1> DEFINE table == shell.vars
           valued == Valued(words)
           named == Named(words)
           T == Outcomes(table, valued, named)
           base == [table |-> table, ok |-> TRUE]
<1>1. base \in T
  BY NothingCarried DEF Outcomes
<1>2. ASSUME NEW r \in T, NEW w \in ToSet(words) PROVE DeclareOne(mark, r, w) \in T
  <2>1. w \in Seq(STRING) /\ WordName(w) \in named /\ (Len(w) > 1 => WordName(w) \in valued)
    BY Elements DEF Words, Valued, Named
  <2>2. r \in [table : Tables, ok : BOOLEAN] /\ Carried(table, r.table, valued, named)
    BY DEF Outcomes
  <2>3. CASE ~r.ok \/ (Len(w) > 1 /\ r.table[WordName(w)].readonly)
    <3>1. DeclareOne(mark, r, w) = [r EXCEPT !.ok = FALSE]
      BY <2>3 DEF DeclareOne
    <3> QED
      BY <2>2, <3>1 DEF Outcomes
  <2>4. CASE ~(~r.ok \/ (Len(w) > 1 /\ r.table[WordName(w)].readonly))
    <3> DEFINE mid == IF Len(w) > 1 THEN Assigned(r.table, WordName(w), WordValue(w)) ELSE r.table
               new == Marked(mid, WordName(w), mark)
    <3>1. DeclareOne(mark, r, w) = [r EXCEPT !.table = new]
      BY <2>4 DEF DeclareOne
    <3>2. mid \in Tables /\ Carried(r.table, mid, valued, {})
      <4>1. CASE Len(w) > 1
        <5>1. WordValue(w) \in Seq(STRING)
          BY <2>1, <4>1 DEF WordValue
        <5> QED
          BY <2>1, <2>2, <2>4, <4>1, <5>1, AssignedTable DEF Carried
      <4>2. CASE ~(Len(w) > 1)
        BY <2>2, <4>2, NothingCarried
      <4> QED
        BY <4>1, <4>2
    <3>3. new \in Tables /\ Carried(mid, new, {}, named)
      <4> HIDE DEF mid
      <4> QED
        BY <2>1, <3>2, MarkedTable DEF Carried
    <3>4. Carried(table, new, valued, named)
      <4> HIDE DEF new, mid, valued, named
      <4>1. Carried(table, mid, valued \union valued, named \union {})
        BY <2>2, <3>2, CarriedOn
      <4>2. Carried(table, new, (valued \union valued) \union {}, (named \union {}) \union named)
        BY <2>2, <3>2, <3>3, <4>1, CarriedOn
      <4>3. (valued \union valued) \union {} = valued /\ (named \union {}) \union named = named
        OBVIOUS
      <4> QED
        BY <4>2, <4>3
    <3> HIDE DEF new
    <3> QED
      BY <2>2, <3>1, <3>3, <3>4 DEF Outcomes
  <2> QED
    BY <2>3, <2>4
<1>3. Declaring!Fold(mark, base, words) \in T
  <2> HIDE DEF T, base
  <2>1. Declaring!Stays(mark, T, ToSet(words))
    BY <1>2 DEF Declaring!Stays
  <2> QED
    BY <1>1, <2>1, Elements, Declaring!FoldStays DEF Words
<1> QED
  BY <1>3, WordFolds

(* unset.                                                                   *)
LEMMA UnsetCarries ==
  ASSUME NEW shell, shell.vars \in Tables, NEW words \in Words
  PROVE  Unset(shell, words) \in Outcomes(shell.vars, {}, {})
<1> DEFINE table == shell.vars
           T == Outcomes(table, {}, {})
           base == [table |-> table, ok |-> TRUE]
<1>1. base \in T
  BY NothingCarried DEF Outcomes
<1>2. ASSUME NEW r \in T, NEW w \in ToSet(words) PROVE UnsetOne(0, r, w) \in T
  <2>1. r \in [table : Tables, ok : BOOLEAN] /\ Carried(table, r.table, {}, {})
    BY DEF Outcomes
  <2>2. CASE ~r.ok \/ r.table[WordName(w)].readonly
    <3>1. UnsetOne(0, r, w) = [r EXCEPT !.ok = FALSE]
      BY <2>2 DEF UnsetOne
    <3> QED
      BY <2>1, <3>1 DEF Outcomes
  <2>3. CASE ~(~r.ok \/ r.table[WordName(w)].readonly)
    <3> DEFINE new == [r.table EXCEPT ![WordName(w)] = Absent]
    <3>1. UnsetOne(0, r, w) = [r EXCEPT !.table = new]
      BY <2>3 DEF UnsetOne
    <3>2. new \in Tables
      BY <2>1, AbsentIsOne DEF Tables
    <3>3. Absent.value = None
      BY DEF Absent
    <3>4. Carried(table, new, {}, {})
      BY <2>1, <2>3, <3>3 DEF Carried, Tables
    <3> HIDE DEF new
    <3> QED
      BY <2>1, <3>1, <3>2, <3>4 DEF Outcomes
  <2> QED
    BY <2>2, <2>3
<1>3. Unsetting!Fold(0, base, words) \in T
  <2> HIDE DEF T, base
  <2>1. Unsetting!Stays(0, T, ToSet(words))
    BY <1>2 DEF Unsetting!Stays
  <2> QED
    BY <1>1, <2>1, Elements, Unsetting!FoldStays DEF Words
<1> QED
  BY <1>3, WordFolds

(* set: whatever its words are, only known options are switched.            *)
AllLetters == Letters \union {"pipefail"}

LEMMA SetTyped ==
  ASSUME NEW shell, shell.options \subseteq AllLetters, NEW words \in Words,
         shell.positional \in Words, DOMAIN shell = Fields
  PROVE  /\ Set(shell, words).options \subseteq AllLetters
         /\ Set(shell, words).positional \in Words
         /\ DOMAIN Set(shell, words) = Fields
         /\ \A f \in Fields \ {"options", "positional"} : Set(shell, words)[f] = shell[f]
<1> DEFINE T == [reading : {"options", "name", "args", "refused"}, options : SUBSET AllLetters,
                 on : BOOLEAN, names : Int, args : Words, replace : BOOLEAN]
           base == [reading |-> "options", options |-> shell.options, on |-> TRUE,
                    names |-> 0, args |-> <<>>, replace |-> FALSE]
           result == Setting!Fold(0, base, words)
<1>1. base \in T
  BY DEF Words
<1>2. ASSUME NEW r \in T, NEW w \in Seq(STRING) PROVE SetOne(0, r, w) \in T
  <2>1. \A on, letters : letters \subseteq AllLetters =>
          Switched(r.options, on, letters) \subseteq AllLetters
    BY DEF Switched
  <2>2. CASE r.reading = "refused"
    BY <2>2 DEF SetOne, SetWord
  <2>3. CASE r.reading = "args"
    <3>1. Append(r.args, w) \in Words
      BY DEF Words
    <3> QED
      BY <2>3, <3>1 DEF SetOne, SetWord
  <2>4. CASE r.reading = "name"
    <3> DEFINE known == Head(w) \in DOMAIN LetterOf
               switched == Switched(r.options, r.on, {LetterOf[Head(w)]})
               new == [r EXCEPT !.reading = IF r.names > 1 THEN "name" ELSE "options",
                                !.names = @ - 1, !.options = switched]
    <3>1. known => switched \subseteq AllLetters
      <4>1. known => {LetterOf[Head(w)]} \subseteq AllLetters
        BY DEF LetterOf, AllLetters, Letters
      <4> QED
        BY <2>1, <4>1
    <3>2. SetOne(0, r, w) = IF known THEN new ELSE [r EXCEPT !.reading = "refused"]
      BY <2>4 DEF SetOne, SetWord
    <3>3. known => new \in T
      <4> DEFINE reading == IF r.names > 1 THEN "name" ELSE "options"
                 left == r.names - 1
      <4>1. new = [r EXCEPT !.reading = reading, !.names = left, !.options = switched]
        OBVIOUS
      <4>2. reading \in {"options", "name", "args", "refused"} /\ left \in Int
        OBVIOUS
      <4> HIDE DEF known, switched, new, reading, left
      <4> QED
        BY <3>1, <4>1, <4>2
    <3> HIDE DEF known, new
    <3> QED
      BY <3>2, <3>3
  <2>5. CASE r.reading = "options"
    <3>1. <<w>> \in Words /\ r.options \ {"x"} \subseteq AllLetters
      BY DEF Words
    <3> DEFINE letters == ToSet(Tail(w))
               os == {i \in DOMAIN w : w[i] = "o"}
    <3>2. \A on : letters \subseteq Letters \union {"o"} =>
            Switched(r.options, on, letters \ {"o"}) \subseteq AllLetters
      BY <2>1 DEF AllLetters
    <3>3. Cardinality(os) \in Int
      <4>1. os \subseteq 1 .. Len(w) /\ Len(w) \in Nat
        OBVIOUS
      <4>2. IsFiniteSet(os)
        BY <4>1, FS_Interval, FS_Subset
      <4> QED
        BY <4>2, FS_CardinalityType
    <3> HIDE DEF letters, os
    <3> QED
      BY <2>5, <3>1, <3>2, <3>3 DEF SetOne, SetWord, letters, os
  <2> QED
    BY <2>2, <2>3, <2>4, <2>5
<1>3. result \in T
  <2> HIDE DEF T, base
  <2>1. Setting!Stays(0, T, Seq(STRING))
    BY <1>2 DEF Setting!Stays
  <2> QED
    BY <1>1, <2>1, Setting!FoldStays DEF Words
<1>4. Set(shell, words) =
        IF result.reading \in {"refused", "name"} THEN shell
        ELSE [shell EXCEPT !.options = result.options,
                           !.positional = IF result.replace THEN result.args ELSE @]
  BY SettingFold
<1> HIDE DEF result, base
<1>5. result.options \subseteq AllLetters /\ result.args \in Words
  BY <1>3
<1>6. CASE result.reading \in {"refused", "name"}
  BY <1>4, <1>6
<1>7. CASE result.reading \notin {"refused", "name"}
  <2> DEFINE positional == IF result.replace THEN result.args ELSE shell.positional
  <2>1. Set(shell, words) = [shell EXCEPT !.options = result.options, !.positional = positional]
    BY <1>4, <1>7
  <2>2. positional \in Words
    BY <1>5
  <2> HIDE DEF positional
  <2> QED
    BY <1>5, <2>1, <2>2 DEF Fields
<1> QED
  BY <1>6, <1>7

-----------------------------------------------------------------------------
(* The cache of the search.                                                 *)

(* What is remembered was found in the search path of the cache.            *)
CacheOK(cache) ==
  /\ DOMAIN cache = {"path", "found"}
  /\ cache.path \in Seq(STRING)
  /\ \A n \in DOMAIN cache.found : cache.found[n] \in ToSet(cache.path)

LEMMA LeastIndex ==
  ASSUME NEW n \in Nat, NEW I, I \subseteq 1 .. n, I # {}
  PROVE  Min(I) \in I
<1>1. I \subseteq Nat
  OBVIOUS
<1>2. PICK k \in I : \A m \in I : k <= m
  BY <1>1, Assigning!LeastNumber
<1> QED
  BY <1>2 DEF Min

FirstIn(seq, set) == SelectInSeq(seq, LAMBDA entry : entry \in set)

LEMMA FirstEntry ==
  ASSUME NEW seq \in Seq(STRING), NEW set
  PROVE  /\ FirstIn(seq, set) = 0 => \A entry \in ToSet(seq) : entry \notin set
         /\ FirstIn(seq, set) # 0 =>
              seq[FirstIn(seq, set)] \in set /\ seq[FirstIn(seq, set)] \in ToSet(seq)
<1> DEFINE I == {i \in 1 .. Len(seq) : seq[i] \in set}
           first == FirstIn(seq, set)
<1>1. first = IF I # {} THEN Min(I) ELSE 0
  BY DEF FirstIn, SelectInSeq
<1>2. CASE I = {}
  BY <1>1, <1>2 DEF ToSet
<1>3. CASE I # {}
  <2>1. I \subseteq 1 .. Len(seq) /\ Len(seq) \in Nat
    OBVIOUS
  <2>2. Min(I) \in I
    <3> HIDE DEF I
    <3> QED
      BY <1>3, <2>1, LeastIndex
  <2>3. first \in I
    BY <1>1, <1>3, <2>2
  <2> QED
    BY <2>3 DEF ToSet
<1> QED
  BY <1>2, <1>3

LEMMA LookupFacts ==
  ASSUME NEW cache, CacheOK(cache), NEW name, NEW path \in Seq(STRING), NEW programs, NEW regular
  PROVE  LET answer == Lookup(cache, name, path, programs, regular)
         IN  /\ CacheOK(answer.cache)
             /\ answer.kind = "found" => answer.entry \in programs /\ answer.entry \in ToSet(path)
             /\ answer.kind # "found" => \A entry \in ToSet(path) : entry \notin programs
<1> DEFINE kept == IF cache.path # path THEN <<>> ELSE cache.found
           hit == name \in DOMAIN kept /\ kept[name] \in programs
           first == FirstIn(path, programs)
           Answer(kind, entry, found) ==
             [kind |-> kind, entry |-> entry, cache |-> [path |-> path, found |-> found]]
           answer == Lookup(cache, name, path, programs, regular)
<1> SUFFICES /\ CacheOK(answer.cache)
             /\ answer.kind = "found" => answer.entry \in programs /\ answer.entry \in ToSet(path)
             /\ answer.kind # "found" => \A entry \in ToSet(path) : entry \notin programs
  OBVIOUS
<1>1. \A n \in DOMAIN kept : kept[n] \in ToSet(path)
  <2>1. DOMAIN <<>> = {}
    OBVIOUS
  <2> QED
    BY <2>1 DEF CacheOK
<1>2. /\ first = 0 => \A entry \in ToSet(path) : entry \notin programs
      /\ first # 0 => path[first] \in programs /\ path[first] \in ToSet(path)
  BY FirstEntry
<1>3. answer = CASE hit -> Answer("found", kept[name], kept)
                 [] ~hit /\ first # 0 ->
                      Answer("found", path[first], Remembered(kept, name, path[first]))
                 [] ~hit /\ first = 0 ->
                      Answer(IF ToSet(path) \intersect regular # {} THEN "denied" ELSE "missing",
                             None, Restrict(kept, DOMAIN kept \ {name}))
  BY DEF Lookup, FirstIn
<1> HIDE DEF kept, first, answer
<1>4. CASE hit
  <2>1. answer = Answer("found", kept[name], kept)
    BY <1>3, <1>4
  <2> QED
    BY <1>1, <1>4, <2>1 DEF CacheOK
<1>5. CASE ~hit /\ first # 0
  <2> DEFINE new == Remembered(kept, name, path[first])
  <2>1. answer = Answer("found", path[first], new)
    BY <1>3, <1>5
  <2>2. \A n \in DOMAIN new : new[n] \in ToSet(path)
    BY <1>1, <1>2, <1>5 DEF Remembered
  <2> HIDE DEF new
  <2> QED
    BY <1>2, <1>5, <2>1, <2>2 DEF CacheOK
<1>6. CASE ~hit /\ first = 0
  <2> DEFINE new == Restrict(kept, DOMAIN kept \ {name})
             kind == IF ToSet(path) \intersect regular # {} THEN "denied" ELSE "missing"
  <2>1. answer = Answer(kind, None, new)
    BY <1>3, <1>6
  <2>2. \A n \in DOMAIN new : new[n] \in ToSet(path)
    BY <1>1 DEF Restrict
  <2>3. kind # "found"
    OBVIOUS
  <2> HIDE DEF new, kind
  <2> QED
    BY <1>2, <1>6, <2>1, <2>2, <2>3 DEF CacheOK
<1> QED
  BY <1>4, <1>5, <1>6

LEMMA FindCache ==
  ASSUME NEW shell, DOMAIN shell = Fields, CacheOK(shell.cache), NEW name,
         NEW path \in Seq(STRING)
  PROVE  /\ CacheOK(Find(shell, name, path).shell.cache)
         /\ DOMAIN Find(shell, name, path).shell = Fields
         /\ \A f \in Fields \ {"cache"} : Find(shell, name, path).shell[f] = shell[f]
<1> DEFINE new == Looked(shell, name, path).cache
<1>1. CacheOK(new)
  BY LookupFacts DEF Looked
<1>2. Find(shell, name, path).shell \in {shell, [shell EXCEPT !.cache = new]}
  BY DEF Find
<1> HIDE DEF new
<1> QED
  BY <1>1, <1>2 DEF Fields

LEMMA HashCache ==
  ASSUME NEW shell, DOMAIN shell = Fields, CacheOK(shell.cache), NEW words \in Words,
         PathOf(shell) \in Seq(STRING)
  PROVE  /\ CacheOK(Hash(shell, words).cache)
         /\ DOMAIN Hash(shell, words) = Fields
         /\ \A f \in Fields \ {"cache"} : Hash(shell, words)[f] = shell[f]
<1>1. CASE words = <<>>
  BY <1>1 DEF Hash
<1>2. CASE words = << <<"-r">> >>
  <2> DEFINE new == [shell.cache EXCEPT !.found = <<>>]
  <2>1. Hash(shell, words) = [shell EXCEPT !.cache = new]
    BY <1>2 DEF Hash
  <2>2. CacheOK(new)
    <3>1. DOMAIN <<>> = {}
      OBVIOUS
    <3> QED
      BY <3>1 DEF CacheOK
  <2> HIDE DEF new
  <2> QED
    BY <2>1, <2>2 DEF Fields
<1>3. CASE words # <<>> /\ words # << <<"-r">> >>
  <2> DEFINE new == Hashing!Fold(shell, shell.cache, words)
  <2>1. Hash(shell, words) = [shell EXCEPT !.cache = new]
    BY <1>3, HashingFold
  <2>2. PICK h : /\ h[0] = shell.cache
                 /\ \A i \in 1 .. Len(words) : h[i] = HashOne(shell, h[i - 1], words[i])
                 /\ new = h[Len(words)]
    BY Hashing!FoldTrace DEF Words
  <2> DEFINE Good == {i \in 0 .. Len(words) : CacheOK(h[i])}
  <2>3. ASSUME NEW i \in 1 .. Len(words), i - 1 \in Good PROVE i \in Good
    <3> DEFINE before == [shell EXCEPT !.cache = h[i - 1]]
    <3>1. DOMAIN before = Fields /\ CacheOK(before.cache)
      BY <2>3 DEF Fields
    <3>2. h[i] = Find(before, WordName(words[i]), PathOf(shell)).shell.cache
      BY <2>2 DEF HashOne
    <3> HIDE DEF before
    <3> QED
      BY <3>1, <3>2, FindCache
  <2>4. Len(words) \in Nat /\ 0 \in Good
    BY <2>2 DEF Words
  <2>5. Len(words) \in Good
    <3>1. \A i \in 0 .. Len(words) : i \in Good
      <4> HIDE DEF Good
      <4> QED
        BY <2>3, <2>4, Assigning!UpTo
    <3> QED
      BY <2>4, <3>1
  <2>6. CacheOK(new)
    BY <2>2, <2>5
  <2> HIDE DEF new
  <2> QED
    BY <2>1, <2>6 DEF Fields
<1> QED
  BY <1>1, <1>2, <1>3

-----------------------------------------------------------------------------
(* Directories.                                                             *)

Absolute == {p \in Seq(STRING) : p # <<>> /\ p[1] = "/"}

LEMMA NotEmpty ==
  ASSUME NEW seq, Len(seq) > 0
  PROVE  seq # <<>>
OBVIOUS

LEMMA Appended ==
  ASSUME NEW D, NEW seq \in Seq(D), NEW x \in D
  PROVE  /\ <<x>> \in Seq(D)
         /\ Append(seq, x) \in Seq(D) /\ Append(seq, x) # <<>>
         /\ Len(Append(seq, x)) = Len(seq) + 1
         /\ \A i \in 1 .. Len(seq) : Append(seq, x)[i] = seq[i]
<1>1. <<x>> \in Seq(D)
  OBVIOUS
<1>2. Append(seq, x) \in Seq(D) /\ Len(Append(seq, x)) = Len(seq) + 1
  OBVIOUS
<1>3. \A i \in 1 .. Len(seq) : Append(seq, x)[i] = seq[i]
  OBVIOUS
<1>4. Append(seq, x) # <<>>
  BY <1>2, NotEmpty
<1> QED
  BY <1>1, <1>2, <1>3, <1>4

(* There is a directory, and so a name that every absolute path starts with. *)
LEMMA AbsolutePaths ==
  ASSUME NEW dir \in DirNames
  PROVE  /\ Root \in Absolute
         /\ \A p \in Seq(STRING) : IsAbsolute(p) <=> p \in Absolute
         /\ DirNames \subseteq Absolute
         /\ None \notin DirNames
<1>1. ASSUME NEW p \in Seq(STRING) PROVE IsAbsolute(p) <=> p \in Absolute
  <2>1. p # <<>> => Head(p) = p[1]
    OBVIOUS
  <2> QED
    BY <2>1 DEF Absolute, IsAbsolute
<1>2. DirNames \subseteq Absolute /\ None \notin DirNames
  BY <1>1, DirectoriesAssumption
<1>3. "/" \in STRING
  <2>1. dir \in Seq(STRING) /\ dir # <<>> /\ dir[1] = "/"
    BY <1>2 DEF Absolute
  <2>2. 1 \in 1 .. Len(dir)
    BY <2>1
  <2> QED
    BY <2>1, <2>2
<1>4. Root \in Absolute
  <2>1. <<"/">> # <<>> /\ <<"/">>[1] = "/"
    OBVIOUS
  <2>2. <<"/">> \in Seq(STRING)
    BY <1>3, <2>1, Appended
  <2> QED
    BY <2>1, <2>2 DEF Absolute, Root
<1> QED
  BY <1>1, <1>2, <1>4

LEMMA LexicalPath ==
  ASSUME NEW p \in Seq(STRING), p # <<>>, cwd \in DirNames
  PROVE  Lexical(p) \in Absolute
<1>1. Tail(p) \in Seq(STRING)
  OBVIOUS
<1>2. ASSUME NEW out \in Absolute, NEW name \in STRING
      PROVE  LexicalOne(0, out, name) \in Absolute
  <2>0. out \in Seq(STRING) /\ out # <<>> /\ out[1] = "/" /\ Len(out) \in Nat /\ Len(out) >= 1
    BY DEF Absolute
  <2>1. Append(out, name) \in Absolute
    <3>1. /\ Append(out, name) \in Seq(STRING) /\ Append(out, name) # <<>>
          /\ Append(out, name)[1] = out[1]
      BY <2>0, Appended
    <3> QED
      BY <2>0, <3>1 DEF Absolute
  <2>2. Parent(out) \in Absolute
    <3>1. CASE Len(out) > 1
      <4>1. /\ SubSeq(out, 1, Len(out) - 1) \in Seq(STRING)
            /\ Len(SubSeq(out, 1, Len(out) - 1)) = Len(out) - 1
            /\ SubSeq(out, 1, Len(out) - 1)[1] = out[1]
        BY <2>0, <3>1
      <4>2. SubSeq(out, 1, Len(out) - 1) # <<>>
        <5>1. Len(out) - 1 > 0
          BY <2>0, <3>1
        <5> QED
          BY <4>1, <5>1, NotEmpty
      <4> QED
        BY <2>0, <3>1, <4>1, <4>2 DEF Absolute, Parent, Front
    <3>2. CASE ~(Len(out) > 1)
      BY <3>2 DEF Parent
    <3> QED
      BY <3>1, <3>2
  <2> QED
    BY <2>1, <2>2 DEF LexicalOne
<1>3. Reading!Stays(0, Absolute, STRING)
  BY <1>2 DEF Reading!Stays
<1>4. Root \in Absolute
  BY AbsolutePaths
<1>5. Reading!Fold(0, Root, Tail(p)) \in Absolute
  BY <1>1, <1>3, <1>4, Reading!FoldStays
<1>6. Lexical(p) = Reading!Fold(0, Root, Tail(p))
  BY PathFolds
<1> QED
  BY <1>5, <1>6

(* A path that leads somewhere leads to what it stands for: the shell's own *)
(* reading and the kernel's walk agree.                                     *)
LEMMA ReachedIsResolved ==
  ASSUME NEW p \in Seq(STRING), p # <<>>, NEW existing, Reached(existing, p) # None
  PROVE  Reached(existing, p) = Resolved(p) /\ Reached(existing, p) \in existing \union {Root}
<1> DEFINE names == Tail(p)
<1>1. names \in Seq(STRING) /\ Len(names) \in Nat
  OBVIOUS
<1> HIDE DEF names
<1>2. PICK walk : /\ walk[0] = Root
                  /\ \A i \in 1 .. Len(names) : walk[i] = ReachOne(existing, walk[i - 1], names[i])
                  /\ Reaching!Fold(existing, Root, names) = walk[Len(names)]
  BY <1>1, Reaching!FoldTrace
<1>3. PICK text : /\ text[0] = Root
                  /\ \A i \in 1 .. Len(names) : text[i] = FollowOne(0, text[i - 1], names[i])
                  /\ Following!Fold(0, Root, names) = text[Len(names)]
  BY <1>1, Following!FoldTrace
<1> DEFINE Good == {i \in 0 .. Len(names) :
                      walk[i] = None \/ (walk[i] = text[i] /\ walk[i] \in existing \union {Root})}
<1>4. ASSUME NEW i \in 1 .. Len(names), i - 1 \in Good PROVE i \in Good
  BY <1>2, <1>3, <1>4 DEF ReachOne, FollowOne
<1>5. 0 \in Good
  BY <1>1, <1>2, <1>3
<1>6. \A i \in 0 .. Len(names) : i \in Good
  <2> HIDE DEF Good
  <2> QED
    BY <1>1, <1>4, <1>5, Assigning!UpTo
<1>7. Len(names) \in Good
  BY <1>1, <1>6
<1>8. Reached(existing, p) = walk[Len(names)] /\ Resolved(p) = text[Len(names)]
  BY <1>2, <1>3, PathFolds DEF names
<1> QED
  BY <1>7, <1>8

-----------------------------------------------------------------------------
(* A shell, without what Fields says of it.                                 *)

ShellOK(shell) ==
  /\ DOMAIN shell = Fields
  /\ shell.vars \in Tables
  /\ shell.positional \in Words
  /\ shell.options \subseteq AllLetters
  /\ shell.cwd_override \in Absolute \union {None}
  /\ shell.umask_override \in Masks \union {None}
  /\ shell.path_override \in Seq(STRING) \union {None}
  /\ \A fd \in DOMAIN shell.fd_changes : shell.fd_changes[fd] \in Files
  /\ CacheOK(shell.cache)

LEMMA SearchPathTyped ==
  ASSUME NEW shell, ShellOK(shell)
  PROVE  SearchPath(shell) \in Seq(STRING) /\ PathOf(shell) \in Seq(STRING)
<1>1. shell.vars["PATH"].value \in Seq(STRING) \union {None}
  BY NamesAssumption DEF ShellOK, Tables, Variable
<1> QED
  BY <1>1, NamesAssumption DEF ShellOK, SearchPath, PathOf

LEMMA LogicalCwdTyped ==
  ASSUME NEW shell, ShellOK(shell), cwd \in DirNames
  PROVE  LogicalCwd(shell) \in Absolute
<1>1. shell.vars["PWD"].value \in Seq(STRING) \union {None}
  BY NamesAssumption DEF ShellOK, Tables, Variable
<1>2. cwd \in Absolute /\ Root \in Absolute /\ shell.cwd_override \in Absolute \union {None}
  BY AbsolutePaths DEF ShellOK
<1> QED
  BY <1>1, <1>2, AbsolutePaths DEF LogicalCwd

LEMMA CdTargetTyped ==
  ASSUME NEW shell, ShellOK(shell), NEW words \in Words, cwd \in DirNames
  PROVE  CdTarget(shell, words) \in Seq(STRING) \union {None}
<1>1. \A n \in {"HOME", "OLDPWD", "CDPATH"} :
        shell.vars[n].value \in Seq(STRING) \union {None}
  BY NamesAssumption DEF ShellOK, Tables, Variable
<1>2. ASSUME NEW dir \in Seq(STRING)
      PROVE  ViaCdpath(shell, dir) \in Seq(STRING)
  <2> DEFINE cdpath == shell.vars["CDPATH"].value
             path(entry) == (IF entry = "" THEN <<>> ELSE Append(Root, entry)) \o dir
             I == {i \in 1 .. Len(cdpath) :
                     Reached(dirs, Joined(LogicalCwd(shell), path(cdpath[i]))) # None}
             first == IF I # {} THEN Min(I) ELSE 0
  <2>1. ViaCdpath(shell, dir) = IF Head(dir) \in {"/", ".."} \/ cdpath = None THEN dir
                                ELSE IF first = 0 THEN dir ELSE path(cdpath[first])
    BY DEF ViaCdpath, SelectInSeq
  <2>2. ASSUME cdpath \in Seq(STRING), first # 0
        PROVE  path(cdpath[first]) \in Seq(STRING)
    <3>1. I # {} /\ first = Min(I)
      BY <2>2
    <3>2. I \subseteq 1 .. Len(cdpath)
      OBVIOUS
    <3>3. cdpath \in Seq(STRING)
      BY <2>2
    <3>4. first \in 1 .. Len(cdpath)
      <4> HIDE DEF I, first, cdpath
      <4>1. Len(cdpath) \in Nat
        BY <3>3
      <4> QED
        BY <3>1, <3>2, <4>1, LeastIndex
    <3>5. cdpath[first] \in STRING
      <4> HIDE DEF I, first, cdpath
      <4> QED
        BY <3>3, <3>4
    <3> DEFINE entry == cdpath[first]
    <3>6. entry \in STRING
      BY <3>5
    <3>7. path(entry) \in Seq(STRING)
      <4> HIDE DEF entry, first, I, cdpath
      <4>1. Root \in Seq(STRING)
        BY AbsolutePaths DEF Absolute
      <4>2. Append(Root, entry) \in Seq(STRING)
        BY <3>6, <4>1, Appended
      <4>3. path(entry) = IF entry = "" THEN <<>> \o dir ELSE Append(Root, entry) \o dir
        OBVIOUS
      <4> HIDE DEF path
      <4>4. <<>> \o dir \in Seq(STRING) /\ Append(Root, entry) \o dir \in Seq(STRING)
        BY <4>2
      <4> HIDE DEF Root
      <4> QED
        BY <4>3, <4>4
    <3> QED
      BY <3>7
  <2> HIDE DEF first, path
  <2> QED
    BY <1>1, <2>1, <2>2
<1> QED
  BY <1>1, <1>2 DEF CdTarget, Words

(* What a command leaves of a shell: everything but some fields.            *)
SameBut(old, new, fields) ==
  DOMAIN new = Fields /\ \A f \in Fields \ fields : new[f] = old[f]

LEMMA ShellChanged ==
  ASSUME NEW old, ShellOK(old), NEW new,
         \/ SameBut(old, new, {"functions"})
         \/ SameBut(old, new, {"aliases"})
         \/ SameBut(old, new, {"vars"}) /\ new.vars \in Tables
         \/ SameBut(old, new, {"cache"}) /\ CacheOK(new.cache)
         \/ SameBut(old, new, {"positional"}) /\ new.positional \in Words
         \/ SameBut(old, new, {"umask_override"}) /\ new.umask_override \in Masks
         \/ /\ SameBut(old, new, {"options", "positional"})
            /\ new.options \subseteq AllLetters /\ new.positional \in Words
         \/ /\ SameBut(old, new, {"vars", "cwd_override"})
            /\ new.vars \in Tables /\ new.cwd_override \in Absolute \union {None}
  PROVE  ShellOK(new)
<1>1. "functions" \notin {"vars"} /\ DOMAIN new = Fields
  BY DEF SameBut
<1> USE DEF SameBut, Fields
<1>2. CASE SameBut(old, new, {"functions"}) \/ SameBut(old, new, {"aliases"})
  BY <1>1, <1>2 DEF ShellOK
<1>3. CASE SameBut(old, new, {"vars"}) /\ new.vars \in Tables
  BY <1>1, <1>3 DEF ShellOK
<1>4. CASE SameBut(old, new, {"cache"}) /\ CacheOK(new.cache)
  BY <1>1, <1>4 DEF ShellOK
<1>5. CASE SameBut(old, new, {"positional"}) /\ new.positional \in Words
  BY <1>1, <1>5 DEF ShellOK
<1>6. CASE SameBut(old, new, {"umask_override"}) /\ new.umask_override \in Masks
  BY <1>1, <1>6 DEF ShellOK
<1>7. CASE /\ SameBut(old, new, {"options", "positional"})
           /\ new.options \subseteq AllLetters /\ new.positional \in Words
  BY <1>1, <1>7 DEF ShellOK
<1>8. CASE /\ SameBut(old, new, {"vars", "cwd_override"})
           /\ new.vars \in Tables /\ new.cwd_override \in Absolute \union {None}
  BY <1>1, <1>8 DEF ShellOK
<1> QED
  BY <1>2, <1>3, <1>4, <1>5, <1>6, <1>7, <1>8

LEMMA SetIfAllowedTable ==
  ASSUME NEW table \in Tables, NEW name \in Names, NEW value \in Seq(STRING)
  PROVE  /\ SetIfAllowed(table, name, value) \in Tables
         /\ Carried(table, SetIfAllowed(table, name, value), {name}, {})
<1>1. CASE table[name].readonly
  BY <1>1, NothingCarried DEF SetIfAllowed
<1>2. CASE ~table[name].readonly
  <2>1. SetIfAllowed(table, name, value) = Assigned(table, name, value)
    BY <1>2 DEF SetIfAllowed
  <2>2. Assigned(table, name, value) \in Tables
    BY AssignedTable
  <2>3. Carried(table, Assigned(table, name, value), {name}, {})
    BY <1>2, AssignedTable
  <2> QED
    BY <2>1, <2>2, <2>3
<1> QED
  BY <1>1, <1>2

LEMMA SetIfAllowedEntries ==
  ASSUME NEW table \in Tables, NEW name \in Names, NEW value \in Seq(STRING)
  PROVE  /\ table[name].readonly \/ SetIfAllowed(table, name, value)[name].value = value
         /\ \A n \in Names : n # name => SetIfAllowed(table, name, value)[n] = table[n]
BY DEF SetIfAllowed, Assigned, Tables, Variable

(* cd: the shell is where the new PWD says, unless PWD is read only; a copy *)
(* only records it.                                                         *)
Arrived(c, old, new, dir) ==
  \/ new = old /\ dir = cwd
  \/ \E path \in Absolute :
       /\ SameBut(old, new, {"vars", "cwd_override"})
       /\ new.vars \in Tables
       /\ Carried(old.vars, new.vars, {"PWD", "OLDPWD"}, {})
       /\ old.vars["PWD"].readonly \/ new.vars["PWD"].value = path
       /\ new.cwd_override = IF c = Main THEN old.cwd_override ELSE path
       /\ dir = IF c = Main THEN Resolved(path) ELSE cwd

LEMMA CdArrives ==
  ASSUME NEW c, NEW shell, ShellOK(shell), NEW words \in Words,
         cwd \in DirNames, dirs \subseteq DirNames
  PROVE  Arrived(c, shell, Cd(c, shell, words).shell, Cd(c, shell, words).cwd)
<1> DEFINE physical == words # <<>> /\ Head(words) = <<"-P">>
           given    == IF physical THEN Tail(words) ELSE words
           target   == CdTarget(shell, given)
           old      == LogicalCwd(shell)
           lexical  == Lexical(Joined(old, target))
           new      == IF physical THEN Reached(dirs, lexical) ELSE lexical
           to       == IF target = None \/ new = None THEN None ELSE Reached(dirs, new)
           mid      == SetIfAllowed(shell.vars, "OLDPWD", old)
           table    == SetIfAllowed(mid, "PWD", new)
           moved    == [shell EXCEPT !.vars = table]
           away     == [moved EXCEPT !.cwd_override = new]
           result   == Cd(c, shell, words)
<1>1. result = CASE to \notin dirs          -> [shell |-> shell, cwd |-> cwd]
                 [] to \in dirs /\ c = Main -> [shell |-> moved, cwd |-> to]
                 [] to \in dirs /\ c # Main -> [shell |-> away, cwd |-> cwd]
  BY DEF Cd
<1>2. given \in Words
  <2>1. words # <<>> => Tail(words) \in Words
    BY DEF Words
  <2> QED
    BY <2>1
<1>3. old \in Absolute /\ target \in Seq(STRING) \union {None}
  <2> HIDE DEF given
  <2> QED
    BY <1>2, LogicalCwdTyped, CdTargetTyped
<1>4. CASE to \notin dirs
  <2>1. result.shell = shell /\ result.cwd = cwd
    BY <1>1, <1>4
  <2> QED
    BY <2>1 DEF Arrived
<1>5. CASE to \in dirs
  <2>1. to # None /\ target # None /\ new # None /\ to = Reached(dirs, new)
    BY <1>5, AbsolutePaths
  <2>2. Joined(old, target) \in Seq(STRING) /\ Joined(old, target) # <<>>
    <3> HIDE DEF target, old
    <3>1. old \in Seq(STRING) /\ target \in Seq(STRING) /\ old # <<>>
      BY <1>3, <2>1 DEF Absolute
    <3>2. old \o target \in Seq(STRING) /\ old \o target # <<>>
      BY <3>1, ConcatEmptySeq, ConcatProperties
    <3> QED
      BY <3>1, <3>2 DEF Joined, IsAbsolute
  <2>3. lexical \in Absolute
    <3> HIDE DEF target, old
    <3> QED
      BY <2>2, LexicalPath
  <2>4. new \in Absolute
    <3> HIDE DEF lexical
    <3>1. CASE physical
      <4>1. lexical \in Seq(STRING) /\ lexical # <<>> /\ new = Reached(dirs, lexical)
        BY <2>3, <3>1 DEF Absolute
      <4>2. new \in dirs \union {Root}
        BY <2>1, <4>1, ReachedIsResolved
      <4> QED
        BY <4>2, AbsolutePaths
    <3>2. CASE ~physical
      BY <2>3, <3>2
    <3> QED
      BY <3>1, <3>2
  <2> HIDE DEF new, old, target, physical
  <2>5. to = Resolved(new)
    <3>1. new \in Seq(STRING) /\ new # <<>>
      BY <2>4 DEF Absolute
    <3> HIDE DEF to
    <3> QED
      BY <2>1, <3>1, ReachedIsResolved
  <2>6. shell.vars \in Tables /\ "PWD" \in Names \ {"OLDPWD"} /\ "OLDPWD" \in Names
    BY NamesAssumption DEF ShellOK
  <2>7. /\ mid \in Tables /\ Carried(shell.vars, mid, {"OLDPWD"}, {})
        /\ mid["PWD"] = shell.vars["PWD"]
    <3>1. old \in Seq(STRING)
      BY <1>3 DEF Absolute
    <3>2. "PWD" \in Names \ {"OLDPWD"}
      BY <2>6
    <3>3. /\ mid \in Tables /\ Carried(shell.vars, mid, {"OLDPWD"}, {})
      BY <2>6, <3>1, SetIfAllowedTable
    <3>4. mid["PWD"] = shell.vars["PWD"]
      BY <2>6, <3>1, <3>2, SetIfAllowedEntries
    <3> QED
      BY <3>3, <3>4
  <2> HIDE DEF mid
  <2>8. /\ table \in Tables /\ Carried(mid, table, {"PWD"}, {})
        /\ mid["PWD"].readonly \/ table["PWD"].value = new
    <3>1. new \in Seq(STRING)
      BY <2>4 DEF Absolute
    <3>2. table \in Tables /\ Carried(mid, table, {"PWD"}, {})
      BY <2>6, <2>7, <3>1, SetIfAllowedTable
    <3>3. mid["PWD"].readonly \/ table["PWD"].value = new
      BY <2>6, <2>7, <3>1, SetIfAllowedEntries
    <3> QED
      BY <3>2, <3>3
  <2> HIDE DEF table
  <2>9. Carried(shell.vars, table, {"PWD", "OLDPWD"}, {})
    <3>1. Carried(shell.vars, table, {"OLDPWD"} \union {"PWD"}, {} \union {})
      BY <2>6, <2>7, <2>8, CarriedOn
    <3>2. {"OLDPWD"} \union {"PWD"} = {"PWD", "OLDPWD"} /\ {} \union {} = {}
      OBVIOUS
    <3> QED
      BY <3>1, <3>2
  <2>10. DOMAIN shell = Fields
    BY DEF ShellOK
  <2>11. /\ SameBut(shell, moved, {"vars", "cwd_override"}) /\ moved.vars = table
         /\ moved.cwd_override = shell.cwd_override
         /\ SameBut(shell, away, {"vars", "cwd_override"}) /\ away.vars = table
         /\ away.cwd_override = new
    BY <2>10 DEF SameBut, Fields
  <2> HIDE DEF moved, away, to
  <2>12. CASE c = Main
    <3>1. result.shell = moved /\ result.cwd = to
      BY <1>1, <1>5, <2>12
    <3> HIDE DEF result
    <3>2. /\ SameBut(shell, result.shell, {"vars", "cwd_override"})
          /\ result.shell.vars \in Tables
          /\ Carried(shell.vars, result.shell.vars, {"PWD", "OLDPWD"}, {})
      BY <2>8, <2>9, <2>11, <3>1
    <3>3. /\ shell.vars["PWD"].readonly \/ result.shell.vars["PWD"].value = new
          /\ result.shell.cwd_override = IF c = Main THEN shell.cwd_override ELSE new
          /\ result.cwd = IF c = Main THEN Resolved(new) ELSE cwd
      BY <2>5, <2>7, <2>8, <2>11, <2>12, <3>1
    <3> DEFINE shell_after == result.shell
               dir_after == result.cwd
    <3> HIDE DEF shell_after, dir_after
    <3>4. Arrived(c, shell, shell_after, dir_after)
      BY <2>4, <3>2, <3>3 DEF Arrived, shell_after, dir_after
    <3> QED
      BY <3>4 DEF shell_after, dir_after, result
  <2>13. CASE c # Main
    <3>1. result.shell = away /\ result.cwd = cwd
      BY <1>1, <1>5, <2>13
    <3> HIDE DEF result
    <3>2. /\ SameBut(shell, result.shell, {"vars", "cwd_override"})
          /\ result.shell.vars \in Tables
          /\ Carried(shell.vars, result.shell.vars, {"PWD", "OLDPWD"}, {})
      BY <2>8, <2>9, <2>11, <3>1
    <3>3. /\ shell.vars["PWD"].readonly \/ result.shell.vars["PWD"].value = new
          /\ result.shell.cwd_override = IF c = Main THEN shell.cwd_override ELSE new
          /\ result.cwd = IF c = Main THEN Resolved(new) ELSE cwd
      BY <2>5, <2>7, <2>8, <2>11, <2>13, <3>1
    <3> DEFINE shell_after == result.shell
               dir_after == result.cwd
    <3> HIDE DEF shell_after, dir_after
    <3>4. Arrived(c, shell, shell_after, dir_after)
      BY <2>4, <3>2, <3>3 DEF Arrived, shell_after, dir_after
    <3> QED
      BY <3>4 DEF shell_after, dir_after, result
  <2> QED
    BY <2>12, <2>13
<1> QED
  BY <1>4, <1>5

(* The names that a builtin gives a value, and those that it marks.         *)
Given(words) ==
  IF Head(words[1]) = "cd" THEN {"PWD", "OLDPWD"}
  ELSE IF Head(words[1]) \in {"export", "readonly"} THEN Valued(Tail(words)) ELSE {}

Taken(words) == IF Head(words[1]) \in {"export", "readonly"} THEN Named(Tail(words)) ELSE {}

(* What the proofs need to know of a builtin that has run.                  *)
Answers(c, shell, words, r) ==
  /\ ShellOK(r.shell)
  /\ r.umask \in Masks
  /\ r.flow \in {"running", "return", "error"}
  /\ r.shell.path_override = shell.path_override
  /\ r.shell.fd_changes = shell.fd_changes
  /\ c = Main => /\ r.shell.cwd_override = shell.cwd_override
                 /\ r.shell.umask_override = shell.umask_override
  /\ Carried(shell.vars, r.shell.vars, Given(words), Taken(words))
  /\ IF Head(words[1]) = "cd" THEN Arrived(c, shell, r.shell, r.cwd)
     ELSE r.cwd = cwd /\ r.shell.cwd_override = shell.cwd_override

Asked(shell, words) ==
  /\ ShellOK(shell) /\ words \in Words /\ words # <<>>
  /\ Len(words) > 1 /\ Head(words[1]) = "umask" => Head(words[2]) \in Masks
  /\ cwd \in DirNames /\ umask \in Masks /\ dirs \subseteq DirNames

LEMMA QuietAnswer ==
  ASSUME NEW c, NEW shell, NEW words, Asked(shell, words), Head(words[1]) # "cd",
         NEW new, ShellOK(new),
         \/ SameBut(shell, new, {"functions"})
         \/ SameBut(shell, new, {"aliases"})
         \/ SameBut(shell, new, {"cache"})
         \/ SameBut(shell, new, {"options", "positional"}),
         NEW r, r = Same(new) \/ r = [Same(new) EXCEPT !.flow = "return"]
  PROVE  Answers(c, shell, words, r)
<1>1. r.shell = new /\ r.cwd = cwd /\ r.umask = umask /\ r.flow \in {"running", "return"}
  BY DEF Same
<1>2. /\ new.vars = shell.vars /\ new.path_override = shell.path_override
      /\ new.fd_changes = shell.fd_changes /\ new.cwd_override = shell.cwd_override
      /\ new.umask_override = shell.umask_override
  <2> USE DEF SameBut, Fields
  <2>1. CASE SameBut(shell, new, {"functions"})
    BY <2>1
  <2>2. CASE SameBut(shell, new, {"aliases"})
    BY <2>2
  <2>3. CASE SameBut(shell, new, {"cache"})
    BY <2>3
  <2>4. CASE SameBut(shell, new, {"options", "positional"})
    BY <2>4
  <2> QED
    BY <2>1, <2>2, <2>3, <2>4
<1>3. Carried(shell.vars, new.vars, Given(words), Taken(words))
  BY <1>2, NothingCarried
<1>4. umask \in Masks
  BY DEF Asked
<1> QED
  BY <1>1, <1>2, <1>3, <1>4 DEF Answers

LEMMA TableAnswer ==
  ASSUME NEW c, NEW shell, NEW words, Asked(shell, words), Head(words[1]) # "cd",
         NEW result \in Outcomes(shell.vars, Given(words), Taken(words))
  PROVE  Answers(c, shell, words, WithVars(shell, result))
<1> DEFINE r == WithVars(shell, result)
           new == [shell EXCEPT !.vars = result.table]
<1>1. r.shell = new /\ r.cwd = cwd /\ r.umask = umask /\ r.flow \in {"running", "error"}
  BY DEF WithVars, Same
<1>2. /\ result.table \in Tables
      /\ Carried(shell.vars, result.table, Given(words), Taken(words))
  BY DEF Outcomes
<1>3. ShellOK(shell) /\ umask \in Masks
  BY DEF Asked
<1>4. DOMAIN shell = Fields
  BY <1>3 DEF ShellOK
<1>5. SameBut(shell, new, {"vars"}) /\ new.vars = result.table
  BY <1>4 DEF SameBut, Fields
<1> HIDE DEF new, r
<1>6. ShellOK(new)
  BY <1>2, <1>3, <1>5, ShellChanged
<1>7. /\ new.path_override = shell.path_override
      /\ new.fd_changes = shell.fd_changes /\ new.cwd_override = shell.cwd_override
      /\ new.umask_override = shell.umask_override
  BY <1>5 DEF SameBut, Fields
<1>8. Answers(c, shell, words, r)
  BY <1>1, <1>2, <1>3, <1>5, <1>6, <1>7 DEF Answers
<1> QED
  BY <1>8 DEF r

LEMMA UmaskAnswer ==
  ASSUME NEW c, NEW shell, NEW words, Asked(shell, words), Head(words[1]) # "cd",
         NEW mask \in Masks
  PROVE  Answers(c, shell, words, Umask(c, shell, mask))
<1> DEFINE r == Umask(c, shell, mask)
           new == [shell EXCEPT !.umask_override = mask]
<1>1. ShellOK(shell) /\ umask \in Masks
  BY DEF Asked
<1>2. DOMAIN shell = Fields
  BY <1>1 DEF ShellOK
<1>3. CASE c = Main
  <2>1. r.shell = shell /\ r.cwd = cwd /\ r.umask = mask /\ r.flow = "running"
    BY <1>3 DEF Umask, Same
  <2> HIDE DEF r
  <2>2. Answers(c, shell, words, r)
    BY <1>1, <2>1, NothingCarried DEF Answers
  <2> QED
    BY <2>2 DEF r
<1>4. CASE c # Main
  <2>1. r.shell = new /\ r.cwd = cwd /\ r.umask = umask /\ r.flow = "running"
    BY <1>4 DEF Umask, Same
  <2>2. SameBut(shell, new, {"umask_override"}) /\ new.umask_override = mask
    BY <1>2 DEF SameBut, Fields
  <2> HIDE DEF r, new
  <2>3. ShellOK(new)
    BY <1>1, <2>2, ShellChanged
  <2>4. /\ new.path_override = shell.path_override /\ new.vars = shell.vars
        /\ new.fd_changes = shell.fd_changes /\ new.cwd_override = shell.cwd_override
    BY <2>2 DEF SameBut, Fields
  <2>5. Answers(c, shell, words, r)
    BY <1>1, <1>4, <2>1, <2>3, <2>4, NothingCarried DEF Answers
  <2> QED
    BY <2>5 DEF r
<1> QED
  BY <1>3, <1>4

LEMMA CdAnswer ==
  ASSUME NEW c, NEW shell, NEW words, Asked(shell, words), Head(words[1]) = "cd"
  PROVE  LET r == Cd(c, shell, Tail(words))
         IN  Answers(c, shell, words, [Same(r.shell) EXCEPT !.cwd = r.cwd])
<1> DEFINE r == Cd(c, shell, Tail(words))
           result == [Same(r.shell) EXCEPT !.cwd = r.cwd]
           new == r.shell
<1> SUFFICES Answers(c, shell, words, result)
  OBVIOUS
<1>1. /\ result.shell = new /\ result.cwd = r.cwd /\ result.umask = umask
      /\ result.flow = "running"
  BY DEF Same
<1>2. /\ ShellOK(shell) /\ umask \in Masks /\ cwd \in DirNames /\ dirs \subseteq DirNames
      /\ Tail(words) \in Words
  BY DEF Asked, Words
<1>3. Arrived(c, shell, new, r.cwd)
  BY <1>2, CdArrives
<1>4. Given(words) = {"PWD", "OLDPWD"} /\ Taken(words) = {}
  BY DEF Given, Taken
<1> HIDE DEF new, result, r
<1>5. CASE new = shell
  BY <1>1, <1>2, <1>3, <1>5, NothingCarried DEF Answers
<1>6. CASE new # shell
  <2>1. PICK path \in Absolute :
          /\ SameBut(shell, new, {"vars", "cwd_override"})
          /\ new.vars \in Tables
          /\ Carried(shell.vars, new.vars, {"PWD", "OLDPWD"}, {})
          /\ new.cwd_override = IF c = Main THEN shell.cwd_override ELSE path
    BY <1>3, <1>6 DEF Arrived
  <2>2. new.cwd_override \in Absolute \union {None}
    BY <1>2, <2>1 DEF ShellOK
  <2>3. ShellOK(new)
    BY <1>2, <2>1, <2>2, ShellChanged
  <2>4. /\ new.path_override = shell.path_override /\ new.fd_changes = shell.fd_changes
        /\ new.umask_override = shell.umask_override
    BY <2>1 DEF SameBut, Fields
  <2>5. c = Main => new.cwd_override = shell.cwd_override
    BY <2>1
  <2> QED
    BY <1>1, <1>2, <1>3, <1>4, <2>1, <2>3, <2>4, <2>5 DEF Answers
<1> QED
  BY <1>5, <1>6

LEMMA FoundAnswer ==
  ASSUME NEW c, NEW shell, NEW words, Asked(shell, words), Head(words[1]) # "cd",
         NEW n, NEW path \in Seq(STRING)
  PROVE  Answers(c, shell, words, Same(Find(shell, n, path).shell))
<1> DEFINE new == Find(shell, n, path).shell
<1>1. ShellOK(shell) /\ DOMAIN shell = Fields /\ CacheOK(shell.cache)
  BY DEF Asked, ShellOK
<1>2. SameBut(shell, new, {"cache"}) /\ CacheOK(new.cache)
  BY <1>1, FindCache DEF SameBut
<1> HIDE DEF new
<1>3. ShellOK(new)
  BY <1>1, <1>2, ShellChanged
<1>4. Answers(c, shell, words, Same(new))
  BY <1>2, <1>3, QuietAnswer
<1> QED
  BY <1>4 DEF new

LEMMA EffectAnswers ==
  ASSUME NEW c, NEW shell, NEW words, Asked(shell, words)
  PROVE  Answers(c, shell, words, Effect(c, shell, words))
<1> DEFINE name == Head(words[1])
           args == Tail(words)
           r == Effect(c, shell, words)
<1>1. /\ ShellOK(shell) /\ words \in Words /\ words # <<>> /\ args \in Words
      /\ DOMAIN shell = Fields /\ CacheOK(shell.cache)
  BY DEF Asked, Words, ShellOK
<1>2. PathOf(shell) \in Seq(STRING) /\ DefaultPath \in Seq(STRING)
  BY <1>1, SearchPathTyped, NamesAssumption
<1>4. \A set : /\ SameBut(shell, [shell EXCEPT !.functions = set], {"functions"})
               /\ SameBut(shell, [shell EXCEPT !.aliases = set], {"aliases"})
  BY <1>1 DEF SameBut, Fields
<1>5. SameBut(shell, shell, {"functions"})
  BY <1>1 DEF SameBut
<1> HIDE DEF name, args
<1>7. CASE name \in {"export", "readonly"}
  <2>1. r = WithVars(shell, Declare(shell, args, name))
    BY <1>7 DEF Effect, name, args
  <2>2. Declare(shell, args, name) \in Outcomes(shell.vars, Valued(args), Named(args))
    BY <1>1, <1>7, DeclarationsCarry DEF ShellOK
  <2>3. name # "cd" /\ Given(words) = Valued(args) /\ Taken(words) = Named(args)
    BY <1>7 DEF Given, Taken, name, args
  <2> QED
    BY <2>1, <2>2, <2>3, TableAnswer DEF name
<1>8. CASE name = "unset"
  <2>1. CASE Head(args) = <<"-f">>
    <3> DEFINE new == [shell EXCEPT !.functions = @ \ {WordName(w) : w \in ToSet(Tail(args))}]
    <3>1. r = Same(new)
      BY <1>8, <2>1 DEF Effect, name, args
    <3>2. SameBut(shell, new, {"functions"})
      BY <1>4
    <3> HIDE DEF new
    <3>3. ShellOK(new)
      BY <1>1, <3>2, ShellChanged
    <3> QED
      BY <1>8, <3>1, <3>2, <3>3, QuietAnswer DEF name
  <2>2. CASE Head(args) # <<"-f">>
    <3>1. r = WithVars(shell, Unset(shell, args))
      BY <1>8, <2>2 DEF Effect, name, args
    <3>2. Unset(shell, args) \in Outcomes(shell.vars, {}, {})
      BY <1>1, UnsetCarries DEF ShellOK
    <3>3. name # "cd" /\ Given(words) = {} /\ Taken(words) = {}
      BY <1>8 DEF Given, Taken, name
    <3> QED
      BY <3>1, <3>2, <3>3, TableAnswer DEF name
  <2> QED
    BY <2>1, <2>2
<1>9. CASE name = "set"
  <2> DEFINE new == Set(shell, args)
  <2>1. r = Same(new)
    BY <1>9 DEF Effect, name, args
  <2>2. /\ SameBut(shell, new, {"options", "positional"})
        /\ new.options \subseteq AllLetters /\ new.positional \in Words
    BY <1>1, SetTyped DEF ShellOK, SameBut
  <2> HIDE DEF new
  <2>3. ShellOK(new)
    BY <1>1, <2>2, ShellChanged
  <2> QED
    BY <1>9, <2>1, <2>2, <2>3, QuietAnswer DEF name
<1>10. CASE name = "shift"
  <2> DEFINE count == IF args = <<>> THEN 1 ELSE Len(args[1])
             new == Shift(shell, count)
  <2>1. r = Same(new)
    BY <1>10 DEF Effect, name, args
  <2>2. count \in Nat
    BY <1>1 DEF Words
  <2> HIDE DEF count
  <2>3. CASE count > Len(shell.positional)
    <3>1. new = shell
      BY <2>3 DEF Shift
    <3> QED
      BY <1>1, <1>5, <1>10, <2>1, <3>1, QuietAnswer DEF name
  <2>4. CASE ~(count > Len(shell.positional))
    <3> DEFINE rest == SubSeq(shell.positional, count + 1, Len(shell.positional))
    <3>1. rest \in Words
      BY <1>1, <2>2 DEF ShellOK, Words
    <3>2. new = [shell EXCEPT !.positional = rest]
      BY <2>4 DEF Shift
    <3> HIDE DEF rest
    <3>3. SameBut(shell, new, {"positional"}) /\ new.positional = rest
      BY <1>1, <3>2 DEF SameBut, Fields
    <3>4. SameBut(shell, new, {"options", "positional"})
      BY <3>3 DEF SameBut
    <3> HIDE DEF new
    <3>5. ShellOK(new)
      BY <1>1, <3>1, <3>3, ShellChanged
    <3> QED
      BY <1>10, <2>1, <3>4, <3>5, QuietAnswer DEF name
  <2> QED
    BY <2>3, <2>4
<1>11. CASE name \in {"alias", "unalias"}
  <2>1. PICK set : r = Same([shell EXCEPT !.aliases = set])
    <3>1. CASE name = "alias"
      BY <3>1 DEF Effect, name, args
    <3>2. CASE name = "unalias"
      BY <3>2 DEF Effect, name, args
    <3> QED
      BY <1>11, <3>1, <3>2
  <2> DEFINE new == [shell EXCEPT !.aliases = set]
  <2>2. SameBut(shell, new, {"aliases"}) /\ r = Same(new)
    BY <1>4, <2>1
  <2> HIDE DEF new
  <2>3. ShellOK(new)
    BY <1>1, <2>2, ShellChanged
  <2> QED
    BY <1>11, <2>2, <2>3, QuietAnswer DEF name
<1>12. CASE name = "cd"
  <2>1. r = [Same(Cd(c, shell, args).shell) EXCEPT !.cwd = Cd(c, shell, args).cwd]
    BY <1>12 DEF Effect, name, args
  <2> QED
    BY <1>12, <2>1, CdAnswer DEF name, args
<1>13. CASE name = "umask"
  <2>1. CASE args = <<>>
    <3>1. r = Same(shell)
      BY <1>13, <2>1 DEF Effect, name, args
    <3> QED
      BY <1>1, <1>5, <1>13, <3>1, QuietAnswer DEF name
  <2>2. CASE args # <<>>
    <3>1. r = Umask(c, shell, Head(args[1]))
      BY <1>13, <2>2 DEF Effect, name, args
    <3>2. Len(words) > 1 /\ args[1] = words[2]
      BY <1>1, <2>2 DEF args, Words
    <3>3. Head(args[1]) \in Masks
      BY <1>13, <3>2 DEF Asked, name
    <3> QED
      BY <1>13, <3>1, <3>3, UmaskAnswer DEF name
  <2> QED
    BY <2>1, <2>2
<1>14. CASE name = "hash"
  <2> DEFINE new == Hash(shell, args)
  <2>1. r = Same(new)
    BY <1>14 DEF Effect, name, args
  <2>2. SameBut(shell, new, {"cache"}) /\ CacheOK(new.cache)
    BY <1>1, <1>2, HashCache DEF SameBut
  <2> HIDE DEF new
  <2>3. ShellOK(new)
    BY <1>1, <2>2, ShellChanged
  <2> QED
    BY <1>14, <2>1, <2>2, <2>3, QuietAnswer DEF name
<1>15. CASE name \in {"type", "command"}
  <2>1. CASE name = "type"
    <3>1. r = Same(Find(shell, WordName(args[1]), PathOf(shell)).shell)
      BY <2>1 DEF Effect, name, args
    <3> QED
      BY <1>2, <2>1, <3>1, FoundAnswer DEF name
  <2>2. CASE name = "command"
    <3> DEFINE path == IF args[1] = <<"-pv">> THEN DefaultPath ELSE PathOf(shell)
    <3>1. r = Same(Find(shell, WordName(args[2]), path).shell)
      BY <2>2 DEF Effect, name, args
    <3>2. path \in Seq(STRING)
      BY <1>2
    <3> HIDE DEF path
    <3> QED
      BY <2>2, <3>1, <3>2, FoundAnswer DEF name
  <2> QED
    BY <1>15, <2>1, <2>2
<1>16. CASE name = "return"
  <2>1. r = [Same(shell) EXCEPT !.flow = "return"]
    BY <1>16 DEF Effect, name, args
  <2> QED
    BY <1>1, <1>5, <1>16, <2>1, QuietAnswer DEF name
<1>17. CASE name \notin {"export", "readonly", "unset", "set", "shift", "umask", "hash", "type",
                       "command", "alias", "unalias", "cd", "return"}
  <2>1. r = Same(shell)
    BY <1>17 DEF Effect, name
  <2> QED
    BY <1>1, <1>5, <1>17, <2>1, QuietAnswer DEF name
<1> QED
  BY <1>7, <1>8, <1>9, <1>10, <1>11, <1>12, <1>13, <1>14, <1>15, <1>16, <1>17

-----------------------------------------------------------------------------
(* Commands.                                                                *)

Partial(keys, values) == UNION {[some -> values] : some \in SUBSET keys}

LEMMA PartialFunctions ==
  ASSUME NEW keys, NEW values
  PROVE  /\ <<>> \in Partial(keys, values)
         /\ \A f \in Partial(keys, values) :
              /\ DOMAIN f \subseteq keys
              /\ \A k \in DOMAIN f : f[k] \in values
         /\ \A some \in SUBSET keys : \A f \in [some -> values] : f \in Partial(keys, values)
<1>1. <<>> \in [{} -> values]
  OBVIOUS
<1> QED
  BY <1>1 DEF Partial

Frame ==
  [kind : {"list", "call", "eval", "group"}, base : Table, local : Table \union {None},
   saved : Partial(Names, Variable), positional : Words, path : Seq(STRING) \union {None},
   undo : Partial(Fds, Files)]

Flows == {"running", "return", "error"}

TInv ==
  /\ Inv
  /\ script \in DOMAIN Scripts /\ umask \in Masks
  /\ spent \in Nat /\ spent <= Scripts[script].length
  /\ DOMAIN frames = Live /\ DOMAIN flow = Live /\ DOMAIN wanted = Live
  /\ \A c \in Live :
       /\ ShellOK(shells[c])
       /\ c = Main => shells[c].cwd_override = None /\ shells[c].umask_override = None
       /\ flow[c] \in Flows
       /\ frames[c] \in Seq(Frame) /\ frames[c] # <<>> /\ Len(frames[c]) <= MaxFrames
       /\ wanted[c] \in Table

(* The redirections of a command touch the descriptors they name.           *)
LEMMA RedirectedTable ==
  ASSUME NEW table \in Table, NEW redirects \in Seq(Redirect)
  PROVE  /\ Redirected(table, redirects).table \in Table
         /\ \A fd \in Fds : fd \notin {d.fd : d \in ToSet(redirects)} =>
              Redirected(table, redirects).table[fd] = table[fd]
<1> DEFINE named == {d.fd : d \in ToSet(redirects)}
           T == {r \in [table : Table, ok : BOOLEAN] :
                   \A fd \in Fds : fd \notin named => r.table[fd] = table[fd]}
           base == [table |-> table, ok |-> TRUE]
<1>1. base \in T
  OBVIOUS
<1>2. ASSUME NEW r \in T, NEW d \in ToSet(redirects) PROVE RedirectOne(0, r, d) \in T
  <2>1. d \in Redirect /\ d.fd \in named /\ d.fd \in Fds
    BY Elements DEF Redirect
  <2>2. CASE ~r.ok \/ (d.op = "dup" /\ r.table[d.target] = "closed")
    BY <2>2 DEF RedirectOne
  <2>3. CASE ~(~r.ok \/ (d.op = "dup" /\ r.table[d.target] = "closed"))
    <3> DEFINE file == CASE d.op = "open"  -> d.target
                         [] d.op = "dup"   -> r.table[d.target]
                         [] d.op = "close" -> "closed"
               new == [r.table EXCEPT ![d.fd] = file]
    <3>1. RedirectOne(0, r, d) = [r EXCEPT !.table = new]
      BY <2>3 DEF RedirectOne
    <3>2. file \in Files
      <4>1. r.table \in [Fds -> Files]
        BY DEF Table
      <4>2. CASE d.op = "open"
        BY <2>1, <4>2 DEF Redirect
      <4>3. CASE d.op = "dup"
        BY <2>1, <4>1, <4>3 DEF Redirect
      <4>4. CASE d.op = "close"
        BY <4>4, NamesAssumption
      <4> QED
        BY <2>1, <4>2, <4>3, <4>4 DEF Redirect
    <3> HIDE DEF file
    <3>3. new \in Table /\ \A fd \in Fds : fd \notin named => new[fd] = table[fd]
      BY <2>1, <3>2 DEF Table
    <3> HIDE DEF new, named
    <3> QED
      BY <3>1, <3>3
  <2> QED
    BY <2>2, <2>3
<1>3. Redirecting!Fold(0, base, redirects) \in T
  <2> HIDE DEF T, base
  <2>1. Redirecting!Stays(0, T, ToSet(redirects))
    BY <1>2 DEF Redirecting!Stays
  <2> QED
    BY <1>1, <2>1, Elements, Redirecting!FoldStays
<1> QED
  BY <1>3, TableFolds

LEMMA StackTop ==
  ASSUME NEW D, NEW stack \in Seq(D), stack # <<>>
  PROVE  /\ Len(stack) \in Nat \ {0} /\ Last(stack) = stack[Len(stack)] /\ Last(stack) \in D
         /\ Front(stack) \in Seq(D) /\ Len(Front(stack)) = Len(stack) - 1
         /\ \A i \in 1 .. Len(stack) - 1 : Front(stack)[i] = stack[i]
<1>1. Len(stack) \in Nat \ {0}
  OBVIOUS
<1>2. Last(stack) = stack[Len(stack)] /\ Last(stack) \in D
  BY <1>1 DEF Last
<1>3. Front(stack) = SubSeq(stack, 1, Len(stack) - 1)
  BY DEF Front
<1> DEFINE n == Len(stack) - 1
           front == SubSeq(stack, 1, n)
<1>4. n \in Nat /\ \A i \in 1 .. n : stack[i] \in D
  BY <1>1
<1>5. /\ front \in Seq(D) /\ Len(front) = n
      /\ \A i \in 1 .. n : front[i] = stack[i]
  <2> HIDE DEF n
  <2>1. /\ front \in Seq(D) /\ Len(front) = (IF 1 <= n THEN n - 1 + 1 ELSE 0)
        /\ \A i \in 1 .. n - 1 + 1 : front[i] = stack[1 + i - 1]
    BY <1>4, SubSeqProperties
  <2>2. n - 1 + 1 = n /\ \A i \in 1 .. n : 1 + i - 1 = i
    BY <1>4
  <2> HIDE DEF front
  <2> QED
    BY <1>4, <2>1, <2>2
<1> HIDE DEF front
<1> QED
  BY <1>1, <1>2, <1>3, <1>5 DEF front

LEMMA AppliedTable ==
  ASSUME NEW table \in Table, NEW changes, \A fd \in DOMAIN changes : changes[fd] \in Files
  PROVE  Applied(table, changes) \in Table
BY DEF Applied, Table

LEMMA CurrentTable ==
  ASSUME NEW top \in Frame
  PROVE  /\ (IF top.local = None THEN top.base ELSE top.local) \in Table
         /\ \A table \in Table : [top EXCEPT !.local = table] \in Frame
BY DEF Frame

(* follow_fd_changes touches the innermost list, and only its own table.    *)
LEMMA FollowedStack ==
  ASSUME NEW stack \in Seq(Frame), stack # <<>>, NEW changes,
         \A fd \in DOMAIN changes : changes[fd] \in Files
  PROVE  /\ Followed(stack, changes) \in Seq(Frame)
         /\ Followed(stack, changes) # <<>> /\ Len(Followed(stack, changes)) = Len(stack)
         /\ \A i \in 1 .. Len(stack) - 1 : Followed(stack, changes)[i] = stack[i]
         /\ \A i \in 1 .. Len(stack) : \A f \in {"kind", "base", "saved", "positional", "path", "undo"} :
              Followed(stack, changes)[i][f] = stack[i][f]
<1> DEFINE top == Last(stack)
           table == IF top.local = None THEN top.base ELSE top.local
           new == [top EXCEPT !.local = Applied(table, changes)]
<1>1. top \in Frame /\ top = stack[Len(stack)] /\ Len(stack) \in Nat \ {0}
  BY StackTop
<1>2. new \in Frame
  <2>1. table \in Table
    BY <1>1, CurrentTable
  <2> HIDE DEF table
  <2>2. Applied(table, changes) \in Table
    BY <2>1, AppliedTable
  <2> QED
    BY <1>1, <2>2, CurrentTable
<1>3. \A f \in {"kind", "base", "saved", "positional", "path", "undo"} : new[f] = top[f]
  BY <1>1 DEF Frame
<1>4. Followed(stack, changes) = IF changes = <<>> THEN stack ELSE Append(Front(stack), new)
  BY DEF Followed
<1> HIDE DEF new, top
<1>5. CASE changes = <<>>
  BY <1>1, <1>4, <1>5
<1>6. CASE changes # <<>>
  <2>1. /\ Front(stack) \in Seq(Frame) /\ Len(Front(stack)) = Len(stack) - 1
        /\ \A i \in 1 .. Len(stack) - 1 : Front(stack)[i] = stack[i]
    BY StackTop
  <2> DEFINE front == Front(stack)
  <2> HIDE DEF front
  <2>2. Followed(stack, changes) = Append(front, new)
    BY <1>4, <1>6 DEF front
  <2>3. /\ Append(front, new) \in Seq(Frame) /\ Append(front, new) # <<>>
        /\ Len(Append(front, new)) = Len(stack)
        /\ \A i \in 1 .. Len(stack) - 1 : Append(front, new)[i] = stack[i]
        /\ Append(front, new)[Len(stack)] = new
    BY <1>1, <1>2, <2>1, Appended DEF front
  <2> QED
    BY <1>1, <1>3, <2>2, <2>3
<1> QED
  BY <1>5, <1>6

LEMMA RestoredTable ==
  ASSUME NEW table \in Tables, NEW saved \in Partial(Names, Variable)
  PROVE  Restored(table, saved) \in Tables
BY PartialFunctions DEF Restored, Tables

(* What is put back is as it was; the rest is as the command left it.       *)
LEMMA RestoredCarries ==
  ASSUME NEW old \in Tables, NEW mid \in Tables, NEW saved \in Partial(Names, Variable),
         \A n \in DOMAIN saved : saved[n] = old[n],
         NEW assigned, NEW marked, Carried(old, mid, assigned, marked)
  PROVE  Carried(old, Restored(mid, saved), assigned \ DOMAIN saved, marked \ DOMAIN saved)
<1> DEFINE new == Restored(mid, saved)
<1>1. \A n \in Names : new[n] = IF n \in DOMAIN saved THEN old[n] ELSE mid[n]
  BY DEF Restored, Tables
<1> HIDE DEF new
<1>2. Carried(old, new, assigned \ DOMAIN saved, marked \ DOMAIN saved)
  BY <1>1 DEF Carried
<1> QED
  BY <1>2 DEF new

LEMMA CommandFacts ==
  ASSUME TInv, NEW c \in Live, NEW s \in Scripts[script].commands
  PROVE  /\ s.words \in Words /\ s.redirects \in Seq(Redirect)
         /\ Len(s.words) > 1 /\ Head(s.words[1]) = "umask" => Head(s.words[2]) \in Masks
         /\ Top(c) \in Frame /\ Current(c) \in Table
         /\ Files_of(c, s).table \in Table
         /\ Prefix(c, s) \in Outcomes(shells[c].vars, AssignedNames(s), {})
         /\ Saved(c, s) \in Partial(Names, Variable)
         /\ DOMAIN Saved(c, s) = IF IsSpecial(s) THEN {} ELSE AssignedNames(s)
         /\ \A n \in DOMAIN Saved(c, s) : Saved(c, s)[n] = shells[c].vars[n]
<1>1. script \in DOMAIN Scripts /\ ShellOK(shells[c]) /\ frames[c] \in Seq(Frame) /\ frames[c] # <<>>
  BY DEF TInv
<1>2. s \in SimpleCommand
  BY <1>1, ScriptsAssumption
<1>3. /\ s.words \in Words /\ s.redirects \in Seq(Redirect)
      /\ s.assignments \in Seq([name : Names, value : Seq(STRING)])
  BY <1>2 DEF SimpleCommand, Words
<1>4. Len(s.words) > 1 /\ Head(s.words[1]) = "umask" => Head(s.words[2]) \in Masks
  BY <1>1, ScriptsAssumption
<1>5. Top(c) \in Frame /\ Current(c) \in Table
  <2>1. Last(frames[c]) \in Frame
    BY <1>1, StackTop
  <2> QED
    BY <2>1, CurrentTable DEF Top, Current
<1>6. Files_of(c, s).table \in Table
  BY <1>3, <1>5, RedirectedTable DEF Files_of
<1>7. shells[c].vars \in Tables
  BY <1>1 DEF ShellOK
<1>8. Prefix(c, s) \in Outcomes(shells[c].vars, AssignedNames(s), {})
  BY <1>3, <1>7, AssignmentsCarry DEF Prefix, AssignedNames
<1>9. AssignedNames(s) \subseteq Names
  <2>1. ToSet(s.assignments) \subseteq [name : Names, value : Seq(STRING)]
    BY <1>3, Elements
  <2> QED
    BY <2>1 DEF AssignedNames
<1>10. Saved(c, s) \in Partial(Names, Variable)
  <2> DEFINE some == IF IsSpecial(s) THEN {} ELSE AssignedNames(s)
  <2>1. some \in SUBSET Names
    BY <1>9
  <2>2. \A n \in some : shells[c].vars[n] \in Variable
    BY <1>7, <2>1 DEF Tables
  <2>3. Saved(c, s) = [n \in some |-> shells[c].vars[n]]
    BY DEF Saved
  <2> HIDE DEF some
  <2>4. Saved(c, s) \in [some -> Variable]
    BY <2>2, <2>3
  <2> QED
    BY <2>1, <2>4, PartialFunctions
<1>11. /\ DOMAIN Saved(c, s) = IF IsSpecial(s) THEN {} ELSE AssignedNames(s)
       /\ \A n \in DOMAIN Saved(c, s) : Saved(c, s)[n] = shells[c].vars[n]
  BY DEF Saved
<1> QED
  BY <1>3, <1>4, <1>5, <1>6, <1>8, <1>10, <1>11

LEMMA RecordedFacts ==
  ASSUME TInv, NEW c \in Live, NEW s \in Scripts[script].commands
  PROVE  /\ ShellOK(Recorded(c, s))
         /\ SameBut(shells[c], Recorded(c, s), {"fd_changes"})
         /\ ~Execs(s) => Recorded(c, s) = shells[c]
<1>1. ShellOK(shells[c])
  BY DEF TInv
<1>2. DOMAIN shells[c] = Fields
  BY <1>1 DEF ShellOK
<1>3. CASE ~Execs(s)
  BY <1>1, <1>2, <1>3 DEF Recorded, SameBut
<1>4. CASE Execs(s)
  <2> DEFINE old == shells[c].fd_changes
             table == Files_of(c, s).table
             new == ExecChanges(old, Current(c), table, s.redirects)
             after == [shells[c] EXCEPT !.fd_changes = new]
  <2>1. Recorded(c, s) = after
    BY <1>4 DEF Recorded
  <2>2. \A fd \in DOMAIN new : new[fd] \in Files
    <3>1. table \in [Fds -> Files] /\ \A fd \in DOMAIN old : old[fd] \in Files
      BY <1>1, CommandFacts DEF ShellOK, Table
    <3> HIDE DEF table, old
    <3> QED
      BY <3>1 DEF ExecChanges
  <2> HIDE DEF new
  <2>3. SameBut(shells[c], after, {"fd_changes"}) /\ after.fd_changes = new
    BY <1>2 DEF SameBut, Fields
  <2> HIDE DEF after
  <2>4. ShellOK(after)
    <3>1. DOMAIN after = Fields
      BY <2>3 DEF SameBut
    <3>2. /\ after.vars = shells[c].vars /\ after.positional = shells[c].positional
          /\ after.options = shells[c].options /\ after.cwd_override = shells[c].cwd_override
          /\ after.umask_override = shells[c].umask_override
          /\ after.path_override = shells[c].path_override /\ after.cache = shells[c].cache
      BY <2>3 DEF SameBut, Fields
    <3> QED
      BY <1>1, <2>2, <2>3, <3>1, <3>2 DEF ShellOK
  <2> QED
    BY <1>4, <2>1, <2>3, <2>4
<1> QED
  BY <1>3, <1>4

LEMMA DuringFacts ==
  ASSUME TInv, NEW c \in Live, NEW s \in Scripts[script].commands
  PROVE  /\ ShellOK(During(c, s))
         /\ SameBut(Recorded(c, s), During(c, s), {"vars", "path_override"})
         /\ Carried(shells[c].vars, During(c, s).vars, AssignedNames(s), AssignedNames(s))
<1> DEFINE before == Recorded(c, s)
           old == shells[c].vars
           mid == Prefix(c, s).table
           names == AssignedNames(s)
           table == IF IsSpecial(s) /\ ~Execs(s) THEN mid ELSE ExportedAll(mid, names)
           path == IF s.via = "command -p" THEN DefaultPath ELSE before.path_override
           after == [before EXCEPT !.vars = table, !.path_override = path]
<1>1. ShellOK(before) /\ old \in Tables
  BY RecordedFacts DEF TInv, ShellOK
<1>2. DOMAIN before = Fields
  BY <1>1 DEF ShellOK
<1>3. During(c, s) = after
  BY DEF During
<1>4. mid \in Tables /\ Carried(old, mid, names, {})
  BY CommandFacts DEF Outcomes
<1> HIDE DEF mid, names, old
<1>5. table \in Tables /\ Carried(old, table, names, names)
  <2>1. ExportedAll(mid, names) \in Tables /\ Carried(mid, ExportedAll(mid, names), {}, names)
    BY <1>4, ExportedTable
  <2>2. Carried(old, ExportedAll(mid, names), names \union {}, {} \union names)
    BY <1>1, <1>4, <2>1, CarriedOn
  <2>3. Carried(old, mid, names, names)
    BY <1>4 DEF Carried
  <2>4. names \union {} = names /\ {} \union names = names
    OBVIOUS
  <2> QED
    BY <1>4, <2>1, <2>2, <2>3, <2>4
<1>6. path \in Seq(STRING) \union {None}
  BY <1>1, NamesAssumption DEF ShellOK
<1> HIDE DEF table, path, before
<1>7. SameBut(before, after, {"vars", "path_override"}) /\ after.vars = table /\ after.path_override = path
  BY <1>2 DEF SameBut, Fields
<1> HIDE DEF after
<1>8. ShellOK(after)
  <2>1. DOMAIN after = Fields
    BY <1>7 DEF SameBut
  <2>2. /\ after.positional = before.positional /\ after.options = before.options
        /\ after.cwd_override = before.cwd_override /\ after.umask_override = before.umask_override
        /\ after.fd_changes = before.fd_changes /\ after.cache = before.cache
    BY <1>7 DEF SameBut, Fields
  <2> QED
    BY <1>1, <1>5, <1>6, <1>7, <2>1, <2>2 DEF ShellOK
<1> QED
  BY <1>3, <1>5, <1>7, <1>8 DEF before, old, names

LEMMA PutBackFacts ==
  ASSUME NEW shell, ShellOK(shell), NEW saved \in Partial(Names, Variable),
         NEW path \in Seq(STRING) \union {None}
  PROVE  /\ ShellOK(PutBack(shell, saved, path))
         /\ SameBut(shell, PutBack(shell, saved, path), {"vars", "path_override"})
         /\ PutBack(shell, saved, path).vars = Restored(shell.vars, saved)
         /\ PutBack(shell, saved, path).path_override = path
<1> DEFINE table == Restored(shell.vars, saved)
           after == [shell EXCEPT !.vars = table, !.path_override = path]
<1>1. PutBack(shell, saved, path) = after
  BY DEF PutBack
<1>2. DOMAIN shell = Fields /\ table \in Tables
  BY RestoredTable DEF ShellOK
<1> HIDE DEF table
<1>3. SameBut(shell, after, {"vars", "path_override"}) /\ after.vars = table /\ after.path_override = path
  BY <1>2 DEF SameBut, Fields
<1> HIDE DEF after
<1>4. ShellOK(after)
  <2>1. DOMAIN after = Fields
    BY <1>3 DEF SameBut
  <2>2. /\ after.positional = shell.positional /\ after.options = shell.options
        /\ after.cwd_override = shell.cwd_override /\ after.umask_override = shell.umask_override
        /\ after.fd_changes = shell.fd_changes /\ after.cache = shell.cache
    BY <1>3 DEF SameBut, Fields
  <2> QED
    BY <1>2, <1>3, <2>1, <2>2 DEF ShellOK
<1> QED
  BY <1>1, <1>3, <1>4 DEF table

LEMMA CarriedMore ==
  ASSUME NEW old, NEW new, NEW a1, NEW m1, Carried(old, new, a1, m1),
         NEW a2, NEW m2, a1 \subseteq a2, m1 \subseteq m2
  PROVE  Carried(old, new, a2, m2)
BY DEF Carried

(* What outlives a command: the assignments of one that stands alone or of  *)
(* a special builtin, and those that a builtin makes.                       *)
Alone(s) == IF s.words = <<>> \/ IsSpecial(s) THEN AssignedNames(s) ELSE {}
LastingNames(s) == Alone(s) \union (IF s.words = <<>> THEN {} ELSE Given(s.words))
LastingMarks(s) == Alone(s) \union (IF s.words = <<>> THEN {} ELSE Taken(s.words))

AssignsPwd(s) ==
  \/ "PWD" \in AssignedNames(s)
  \/ /\ s.words # <<>> /\ Head(s.words[1]) \in {"export", "readonly"}
     /\ "PWD" \in Valued(Tail(s.words))

(* A step of c as the proofs see it: it is `shell' afterwards, in `dir'.    *)
FilesFollowed(c, s, shell) ==
  \/ wanted' = wanted /\ shell.fd_changes = shells[c].fd_changes
  \/ /\ Execs(s) /\ Files_of(c, s).ok /\ Apart(c, s)
     /\ wanted' = [wanted EXCEPT ![c] = Redirected(@, s.redirects).table]
     /\ shell.fd_changes = Recorded(c, s).fd_changes

PwdFollowed(c, shell, dir) ==
  \/ /\ dir = cwd /\ shell.cwd_override = shells[c].cwd_override
     /\ shell.vars["PWD"].value \in {shells[c].vars["PWD"].value, None}
  \/ \E path \in Absolute :
       /\ shell.vars["PWD"].readonly \/ shell.vars["PWD"].value = path
       /\ shell.cwd_override = IF c = Main THEN shells[c].cwd_override ELSE path
       /\ dir = IF c = Main THEN Resolved(path) ELSE cwd

Ran(c, s, shell, to) ==
  /\ Acts(c) /\ Step(c, shell, to) /\ to \in Flows
  /\ ShellOK(shell) /\ umask' \in Masks
  /\ shell.path_override = shells[c].path_override
  /\ c = Main => /\ shell.cwd_override = shells[c].cwd_override
                 /\ shell.umask_override = shells[c].umask_override
  /\ Carried(shells[c].vars, shell.vars, LastingNames(s), LastingMarks(s))
  /\ FilesFollowed(c, s, shell)
  /\ ~AssignsPwd(s) => PwdFollowed(c, shell, cwd')

(* A command that changes no more than the variables and the cache.         *)
LEMMA PlainRan ==
  ASSUME TInv, NEW c \in Live, NEW s \in Scripts[script].commands, NEW shell, NEW to \in Flows,
         Acts(c), Step(c, shell, to), ShellOK(shell), cwd' = cwd, umask' = umask,
         \A f \in {"path_override", "cwd_override", "umask_override"} : shell[f] = shells[c][f],
         Carried(shells[c].vars, shell.vars, Alone(s), Alone(s)),
         FilesFollowed(c, s, shell)
  PROVE  Ran(c, s, shell, to)
<1>1. umask' \in Masks
  BY DEF TInv
<1>2. Carried(shells[c].vars, shell.vars, LastingNames(s), LastingMarks(s))
  <2>1. Alone(s) \subseteq LastingNames(s) /\ Alone(s) \subseteq LastingMarks(s)
    BY DEF LastingNames, LastingMarks
  <2> QED
    BY <2>1, CarriedMore
<1>3. ~AssignsPwd(s) => PwdFollowed(c, shell, cwd')
  <2>1. ~AssignsPwd(s) => "PWD" \notin Alone(s)
    BY DEF AssignsPwd, Alone
  <2> QED
    BY <2>1, NamesAssumption DEF PwdFollowed, Carried
<1> QED
  BY <1>1, <1>2, <1>3 DEF Ran

LEMMA RedirectRefusedRan ==
  ASSUME TInv, NEW c \in Live, NEW s \in Scripts[script].commands, RedirectRefused(c, s)
  PROVE  \E to \in Flows : Ran(c, s, shells[c], to)
<1> DEFINE to == IF IsSpecial(s) THEN "error" ELSE "running"
<1>1. /\ to \in Flows /\ Acts(c) /\ Step(c, shells[c], to) /\ ShellOK(shells[c])
      /\ UNCHANGED <<cwd, umask, wanted>>
  BY DEF RedirectRefused, TInv, Flows
<1> HIDE DEF to
<1>2. Carried(shells[c].vars, shells[c].vars, Alone(s), Alone(s))
  BY NothingCarried
<1>3. FilesFollowed(c, s, shells[c])
  BY <1>1 DEF FilesFollowed
<1> QED
  BY <1>1, <1>2, <1>3, PlainRan

LEMMA AssignRan ==
  ASSUME TInv, NEW c \in Live, NEW s \in Scripts[script].commands, Assign(c, s)
  PROVE  \E shell : Ran(c, s, shell, "running")
<1> DEFINE mid == Prefix(c, s).table
           shell == [shells[c] EXCEPT !.vars = mid]
<1>1. /\ Acts(c) /\ Step(c, shell, "running") /\ s.words = <<>>
      /\ UNCHANGED <<cwd, umask, wanted>>
  BY DEF Assign, Accepted
<1>2. mid \in Tables /\ Carried(shells[c].vars, mid, AssignedNames(s), {})
  BY CommandFacts DEF Outcomes
<1>3. ShellOK(shells[c])
  BY DEF TInv
<1>4. DOMAIN shells[c] = Fields
  BY <1>3 DEF ShellOK
<1> HIDE DEF mid
<1>5. SameBut(shells[c], shell, {"vars"}) /\ shell.vars = mid
  BY <1>4 DEF SameBut, Fields
<1> HIDE DEF shell
<1>6. ShellOK(shell)
  BY <1>2, <1>3, <1>5, ShellChanged
<1>7. Carried(shells[c].vars, shell.vars, Alone(s), Alone(s))
  <2>1. Alone(s) = AssignedNames(s) /\ {} \subseteq Alone(s)
    BY <1>1 DEF Alone
  <2> QED
    BY <1>2, <1>5, <2>1, CarriedMore
<1>8. FilesFollowed(c, s, shell)
  BY <1>1, <1>5 DEF FilesFollowed, SameBut, Fields
<1>9. \A f \in {"path_override", "cwd_override", "umask_override"} : shell[f] = shells[c][f]
  BY <1>5 DEF SameBut, Fields
<1>10. "running" \in Flows
  BY DEF Flows
<1>11. Ran(c, s, shell, "running")
  BY <1>1, <1>6, <1>7, <1>8, <1>9, <1>10, PlainRan
<1> QED
  BY <1>11

LEMMA AssignmentRefusedRan ==
  ASSUME TInv, NEW c \in Live, NEW s \in Scripts[script].commands, AssignmentRefused(c, s)
  PROVE  \E shell : Ran(c, s, shell, "error")
<1> DEFINE before == Recorded(c, s)
           old == shells[c].vars
           mid == Prefix(c, s).table
           saved == IF s.words = <<>> THEN <<>> ELSE Saved(c, s)
           table == Restored(mid, saved)
           shell == [before EXCEPT !.vars = table]
           names == AssignedNames(s)
<1>1. /\ Acts(c) /\ Step(c, shell, "error") /\ Files_of(c, s).ok /\ Apart(c, s)
      /\ wanted' = AfterExec(c, s) /\ UNCHANGED <<cwd, umask>>
  BY DEF AssignmentRefused
<1>2. /\ mid \in Tables /\ Carried(old, mid, names, {}) /\ old \in Tables
      /\ saved \in Partial(Names, Variable) /\ \A n \in DOMAIN saved : saved[n] = old[n]
      /\ names \ DOMAIN saved = Alone(s)
  <2>1. mid \in Tables /\ Carried(old, mid, names, {}) /\ old \in Tables
    BY CommandFacts DEF Outcomes, TInv, ShellOK
  <2>2. CASE s.words = <<>>
    <3>1. saved = <<>> /\ DOMAIN <<>> = {}
      BY <2>2
    <3>2. \A n \in DOMAIN saved : saved[n] = old[n]
      BY <3>1
    <3>3. names \ DOMAIN saved = Alone(s)
      BY <2>2, <3>1 DEF Alone
    <3>4. saved \in Partial(Names, Variable)
      BY <3>1, PartialFunctions
    <3> QED
      BY <2>1, <3>2, <3>3, <3>4
  <2>3. CASE s.words # <<>>
    <3>1. saved = Saved(c, s)
      BY <2>3
    <3>2. /\ saved \in Partial(Names, Variable) /\ \A n \in DOMAIN saved : saved[n] = old[n]
          /\ DOMAIN saved = IF IsSpecial(s) THEN {} ELSE names
      BY <3>1, CommandFacts
    <3>3. names \ DOMAIN saved = Alone(s)
      BY <2>3, <3>2 DEF Alone
    <3> QED
      BY <2>1, <3>2, <3>3
  <2> QED
    BY <2>2, <2>3
<1>3. ShellOK(before) /\ SameBut(shells[c], before, {"fd_changes"})
  BY RecordedFacts
<1>4. DOMAIN before = Fields
  BY <1>3 DEF ShellOK
<1> HIDE DEF mid, saved, old, names
<1>5. table \in Tables /\ Carried(old, table, Alone(s), Alone(s))
  <2>1. Carried(old, table, names \ DOMAIN saved, {} \ DOMAIN saved)
    BY <1>2, RestoredCarries
  <2>2. {} \ DOMAIN saved \subseteq Alone(s) /\ names \ DOMAIN saved \subseteq Alone(s)
    BY <1>2
  <2>3. table \in Tables
    BY <1>2, RestoredTable
  <2> HIDE DEF table
  <2> QED
    BY <2>1, <2>2, <2>3, CarriedMore
<1> HIDE DEF table, before
<1>6. SameBut(before, shell, {"vars"}) /\ shell.vars = table
  BY <1>4 DEF SameBut, Fields
<1> HIDE DEF shell
<1>7. ShellOK(shell)
  BY <1>3, <1>5, <1>6, ShellChanged
<1>8. \A f \in {"path_override", "cwd_override", "umask_override"} : shell[f] = shells[c][f]
  BY <1>3, <1>6 DEF SameBut, Fields
<1>9. shell.fd_changes = before.fd_changes
  BY <1>6 DEF SameBut, Fields
<1>10. FilesFollowed(c, s, shell)
  <2>1. CASE Execs(s)
    BY <1>1, <1>9, <2>1 DEF FilesFollowed, AfterExec, before
  <2>2. CASE ~Execs(s)
    BY <1>1, <1>9, <2>2, RecordedFacts DEF FilesFollowed, AfterExec, before
  <2> QED
    BY <2>1, <2>2
<1>11. "error" \in Flows
  BY DEF Flows
<1>12. Carried(shells[c].vars, shell.vars, Alone(s), Alone(s))
  BY <1>5, <1>6 DEF old
<1>13. Ran(c, s, shell, "error")
  BY <1>1, <1>7, <1>8, <1>10, <1>11, <1>12, PlainRan
<1> QED
  BY <1>13

LEMMA BuiltinRan ==
  ASSUME TInv, NEW c \in Live, NEW s \in Scripts[script].commands, Builtin(c, s)
  PROVE  \E shell, to : Ran(c, s, shell, to)
<1> DEFINE before == Recorded(c, s)
           while == During(c, s)
           after == Effect(c, while, s.words)
           saved == Saved(c, s)
           old == shells[c].vars
           path == shells[c].path_override
           shell == PutBack(after.shell, saved, path)
           names == AssignedNames(s)
<1>1. /\ Acts(c) /\ Step(c, shell, after.flow) /\ s.words # <<>> /\ Files_of(c, s).ok /\ Apart(c, s)
      /\ cwd' = after.cwd /\ umask' = after.umask /\ wanted' = AfterExec(c, s)
  BY DEF Builtin, Accepted
<1>2. ShellOK(before) /\ SameBut(shells[c], before, {"fd_changes"})
  BY RecordedFacts
<1>3. /\ ShellOK(while) /\ SameBut(before, while, {"vars", "path_override"})
      /\ Carried(old, while.vars, names, names)
  BY DuringFacts
<1>4. /\ s.words \in Words
      /\ Len(s.words) > 1 /\ Head(s.words[1]) = "umask" => Head(s.words[2]) \in Masks
      /\ saved \in Partial(Names, Variable)
      /\ DOMAIN saved = IF IsSpecial(s) THEN {} ELSE names
      /\ \A n \in DOMAIN saved : saved[n] = old[n]
  BY CommandFacts
<1>5. /\ old \in Tables /\ path \in Seq(STRING) \union {None} /\ umask \in Masks
      /\ cwd \in DirNames /\ dirs \subseteq DirNames
  BY DEF TInv, Inv, ShellOK
<1> HIDE DEF while, before
<1>6. Asked(while, s.words)
  BY <1>1, <1>3, <1>4, <1>5 DEF Asked
<1>7. Answers(c, while, s.words, after)
  BY <1>6, EffectAnswers
<1> HIDE DEF after, saved, path, old, names
<1>8. /\ ShellOK(shell) /\ SameBut(after.shell, shell, {"vars", "path_override"})
      /\ shell.vars = Restored(after.shell.vars, saved) /\ shell.path_override = path
  BY <1>4, <1>5, <1>7, PutBackFacts DEF Answers
<1> DEFINE given == Given(s.words)
           taken == Taken(s.words)
<1>9. while.vars \in Tables /\ after.shell.vars \in Tables
  BY <1>3, <1>7 DEF ShellOK, Answers
<1>10. Carried(old, after.shell.vars, names \union given, names \union taken)
  BY <1>3, <1>5, <1>7, <1>9, CarriedOn DEF Answers
<1>11. Carried(old, shell.vars, LastingNames(s), LastingMarks(s))
  <2> HIDE DEF shell, given, taken
  <2>1. Carried(old, shell.vars, (names \union given) \ DOMAIN saved,
                (names \union taken) \ DOMAIN saved)
    BY <1>4, <1>5, <1>8, <1>9, <1>10, RestoredCarries
  <2>2. /\ (names \union given) \ DOMAIN saved \subseteq LastingNames(s)
        /\ (names \union taken) \ DOMAIN saved \subseteq LastingMarks(s)
    BY <1>1, <1>4 DEF LastingNames, LastingMarks, Alone, given, taken, names
  <2> QED
    BY <2>1, <2>2, CarriedMore
<1>12. shell.fd_changes = before.fd_changes
  BY <1>3, <1>7, <1>8 DEF SameBut, Fields, Answers
<1>13. FilesFollowed(c, s, shell)
  <2>1. CASE Execs(s)
    BY <1>1, <1>12, <2>1 DEF FilesFollowed, AfterExec, before
  <2>2. CASE ~Execs(s)
    BY <1>1, <1>12, <2>2, RecordedFacts DEF FilesFollowed, AfterExec, before
  <2> QED
    BY <2>1, <2>2
<1>14. /\ while.cwd_override = shells[c].cwd_override
       /\ while.umask_override = shells[c].umask_override
       /\ shell.cwd_override = after.shell.cwd_override
       /\ shell.umask_override = after.shell.umask_override
  BY <1>2, <1>3, <1>8 DEF SameBut, Fields
<1>15. c = Main => /\ shell.cwd_override = shells[c].cwd_override
                   /\ shell.umask_override = shells[c].umask_override
  BY <1>7, <1>14 DEF Answers
<1>16. ~AssignsPwd(s) => PwdFollowed(c, shell, cwd')
  <2> SUFFICES ASSUME ~AssignsPwd(s) PROVE PwdFollowed(c, shell, cwd')
    OBVIOUS
  <2>1. "PWD" \in Names \ names /\ "PWD" \notin DOMAIN saved
    BY <1>4, NamesAssumption DEF AssignsPwd, names
  <2>2. shell.vars["PWD"] = after.shell.vars["PWD"]
    BY <1>8, <1>9, <2>1 DEF Restored, Tables
  <2>3. while.vars["PWD"].value \in {old["PWD"].value, None}
    BY <1>3, <2>1 DEF Carried
  <2> HIDE DEF shell
  <2>4. CASE Head(s.words[1]) # "cd"
    <3>1. "PWD" \notin given
      BY <1>1, <2>4 DEF Given, AssignsPwd
    <3>2. after.shell.vars["PWD"].value \in {while.vars["PWD"].value, None}
      BY <1>7, <2>1, <3>1 DEF Answers, Carried
    <3>3. after.cwd = cwd /\ after.shell.cwd_override = while.cwd_override
      BY <1>7, <2>4 DEF Answers
    <3> QED
      BY <1>1, <1>14, <2>2, <2>3, <3>2, <3>3 DEF PwdFollowed, old
  <2>5. CASE Head(s.words[1]) = "cd"
    <3>1. Arrived(c, while, after.shell, after.cwd)
      BY <1>7, <2>5 DEF Answers
    <3>2. CASE after.shell = while /\ after.cwd = cwd
      BY <1>1, <1>14, <2>2, <2>3, <3>2 DEF PwdFollowed, old
    <3>3. CASE ~(after.shell = while /\ after.cwd = cwd)
      <4>1. PICK new \in Absolute :
              /\ Carried(while.vars, after.shell.vars, {"PWD", "OLDPWD"}, {})
              /\ while.vars["PWD"].readonly \/ after.shell.vars["PWD"].value = new
              /\ after.shell.cwd_override = IF c = Main THEN while.cwd_override ELSE new
              /\ after.cwd = IF c = Main THEN Resolved(new) ELSE cwd
        BY <3>1, <3>3 DEF Arrived
      <4>2. after.shell.vars["PWD"].readonly \/ after.shell.vars["PWD"].value = new
        BY <2>1, <4>1 DEF Carried
      <4>3. /\ shell.vars["PWD"].readonly \/ shell.vars["PWD"].value = new
            /\ shell.cwd_override = IF c = Main THEN shells[c].cwd_override ELSE new
            /\ cwd' = IF c = Main THEN Resolved(new) ELSE cwd
        BY <1>1, <1>14, <2>2, <4>1, <4>2
      <4> DEFINE dir == cwd'
      <4> HIDE DEF dir
      <4>4. PwdFollowed(c, shell, dir)
        BY <4>3 DEF PwdFollowed, dir
      <4> QED
        BY <4>4 DEF dir
    <3> QED
      BY <3>2, <3>3
  <2> QED
    BY <2>4, <2>5
<1>17. /\ after.flow \in Flows /\ umask' \in Masks
       /\ Carried(shells[c].vars, shell.vars, LastingNames(s), LastingMarks(s))
       /\ shell.path_override = shells[c].path_override
  BY <1>1, <1>7, <1>8, <1>11 DEF Answers, Flows, old, path
<1> HIDE DEF shell
<1>18. Ran(c, s, shell, after.flow)
  BY <1>1, <1>8, <1>13, <1>15, <1>16, <1>17 DEF Ran
<1> QED
  BY <1>18

LEMMA ProgramRan ==
  ASSUME TInv, NEW c \in Live, NEW s \in Scripts[script].commands, Program(c, s)
  PROVE  \E shell : Ran(c, s, shell, "running")
<1> DEFINE while == During(c, s)
           found == Looked(while, CommandName(s), SearchPath(while))
           after == [while EXCEPT !.cache = found.cache]
           saved == Saved(c, s)
           old == shells[c].vars
           path == shells[c].path_override
           shell == PutBack(after, saved, path)
           names == AssignedNames(s)
<1>1. /\ Acts(c) /\ Step(c, shell, "running") /\ s.words # <<>>
      /\ Target(c, s) = "external" /\ UNCHANGED <<cwd, umask, wanted>>
  BY DEF Program, Accepted
<1>2. ~Execs(s)
  <2>1. ASSUME Execs(s) PROVE CommandName(s) = "exec"
    BY <2>1 DEF Execs, CommandName
  <2> QED
    BY <1>1, <2>1 DEF Target, Classify, SpecialBuiltins
<1>3. /\ ShellOK(while) /\ SameBut(shells[c], while, {"vars", "path_override"})
      /\ Carried(old, while.vars, names, names)
  BY <1>2, DuringFacts, RecordedFacts
<1>4. /\ saved \in Partial(Names, Variable)
      /\ DOMAIN saved = IF IsSpecial(s) THEN {} ELSE names
      /\ \A n \in DOMAIN saved : saved[n] = old[n]
  BY CommandFacts
<1>5. old \in Tables /\ path \in Seq(STRING) \union {None}
  BY DEF TInv, ShellOK
<1> HIDE DEF while, saved, path, old, names
<1>6. CacheOK(found.cache)
  <2>1. SearchPath(while) \in Seq(STRING) /\ CacheOK(while.cache)
    BY <1>3, SearchPathTyped DEF ShellOK
  <2> QED
    BY <2>1, LookupFacts DEF Looked
<1>7. DOMAIN while = Fields
  BY <1>3 DEF ShellOK
<1> HIDE DEF found
<1>8. SameBut(while, after, {"cache"}) /\ after.cache = found.cache
  BY <1>7 DEF SameBut, Fields
<1> HIDE DEF after
<1>9. ShellOK(after)
  BY <1>3, <1>6, <1>8, ShellChanged
<1>10. /\ ShellOK(shell) /\ SameBut(after, shell, {"vars", "path_override"})
       /\ shell.vars = Restored(after.vars, saved) /\ shell.path_override = path
  BY <1>4, <1>5, <1>9, PutBackFacts
<1>11. after.vars = while.vars /\ while.vars \in Tables
  BY <1>3, <1>8 DEF SameBut, Fields, ShellOK
<1> HIDE DEF shell
<1>12. Carried(old, shell.vars, Alone(s), Alone(s))
  <2>1. Carried(old, shell.vars, names \ DOMAIN saved, names \ DOMAIN saved)
    BY <1>3, <1>4, <1>5, <1>10, <1>11, RestoredCarries
  <2>2. names \ DOMAIN saved \subseteq Alone(s)
    BY <1>4 DEF Alone, names
  <2> QED
    BY <2>1, <2>2, CarriedMore
<1>13. \A f \in {"path_override", "cwd_override", "umask_override"} : shell[f] = shells[c][f]
  BY <1>3, <1>8, <1>10 DEF SameBut, Fields, path
<1>14. FilesFollowed(c, s, shell)
  BY <1>1, <1>3, <1>8, <1>10 DEF FilesFollowed, SameBut, Fields
<1>15. "running" \in Flows
  BY DEF Flows
<1>16. Carried(shells[c].vars, shell.vars, Alone(s), Alone(s))
  BY <1>12 DEF old
<1>17. Ran(c, s, shell, "running")
  BY <1>1, <1>10, <1>13, <1>14, <1>15, <1>16, PlainRan
<1> QED
  BY <1>17

=============================================================================
