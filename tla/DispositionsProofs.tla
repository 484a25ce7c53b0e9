------------------------- MODULE DispositionsProofs -------------------------
(***************************************************************************)
(* Theorems about Dispositions, for every set of copies and of signals.    *)
(***************************************************************************)
EXTENDS Dispositions, TLAPS

LEMMA SignalFacts ==
  /\ Trappable \subseteq Signals /\ Keys \subseteq Trappable /\ "PIPE" \in Signals
  /\ "PIPE" \notin Trappable /\ Main \in Shells
  /\ Keys = {sig \in Trappable : sig = "INT" \/ sig = "QUIT"}
BY TrappableAssumption DEF Signals, Keys, Shells

LEMMA HandlerKind ==
  ASSUME NEW sig, NEW action PROVE Handler(sig, action) \in Kinds
BY DEF Handler, Kinds

LEMMA PreparedKind ==
  ASSUME NEW s \in Shells, NEW before \in [Signals -> Kinds]
  PROVE  /\ Prepared(s, before) \in [Signals -> Kinds]
         /\ Execve(before) \in [Signals -> Kinds]
BY DEF Prepared, Execve, Kinds

-----------------------------------------------------------------------------
LEMMA InitTypeOK == Init => TypeOK
<1> SUFFICES ASSUME Init PROVE TypeOK
  OBVIOUS
<1>1. NoTraps \in [Trappable -> Actions] /\ NoProgram \in [Signals -> Kinds]
  BY DEF NoTraps, NoProgram, Actions, Kinds
<1>2. disp \in [Signals -> Kinds]
  BY DEF Init, Kinds
<1> QED
  BY <1>1, <1>2 DEF Init, TypeOK

(* What a shell does with its traps, its copies and its programs.           *)
LEMMA ShellTypeOK ==
  ASSUME TypeOK, NEW s \in Shells,
         \/ \E sig \in Trappable, action \in Actions : Trap(s, sig, action)
         \/ \E c \in Copies : StartCopy(s, c) \/ StartStage(s, c)
         \/ Fork(s) \/ Prepare(s) \/ Start(s) \/ ChildEnds(s)
         \/ WriteToBrokenPipe(s)
  PROVE  TypeOK'
<1> USE SignalFacts
<1>1. CASE \E sig \in Trappable, action \in Actions : Trap(s, sig, action)
  <2> PICK sig \in Trappable, action \in Actions : Trap(s, sig, action)
    BY <1>1
  <2>1. traps' \in [Shells -> [Trappable -> Actions]]
    BY DEF Trap, TypeOK
  <2>2. disp' \in [Signals -> Kinds]
    BY HandlerKind DEF Trap, TypeOK
  <2> QED
    BY <2>1, <2>2 DEF Trap, TypeOK
<1>2. CASE \E c \in Copies : StartCopy(s, c) \/ StartStage(s, c)
  <2> PICK c \in Copies : StartCopy(s, c) \/ StartStage(s, c)
    BY <1>2
  <2>1. ForSubshell(traps[s]) \in [Trappable -> Actions]
    BY DEF ForSubshell, Actions
  <2> QED
    BY <2>1 DEF StartCopy, StartStage, TypeOK, Shells
<1>3. CASE Fork(s)
  BY <1>3 DEF Fork, TypeOK
<1>4. CASE Prepare(s)
  BY <1>4, PreparedKind DEF Prepare, TypeOK
<1>5. CASE Start(s)
  BY <1>5, PreparedKind DEF Start, TypeOK
<1>6. CASE ChildEnds(s)
  <2>1. NoProgram \in [Signals -> Kinds]
    BY DEF NoProgram, Kinds
  <2> QED
    BY <1>6, <2>1 DEF ChildEnds, TypeOK
<1>7. CASE WriteToBrokenPipe(s)
  BY <1>7 DEF WriteToBrokenPipe, Hits, TypeOK
<1> QED
  BY <1>1, <1>2, <1>3, <1>4, <1>5, <1>6, <1>7

LEMMA NextTypeOK == TypeOK /\ [Next]_vars => TypeOK'
<1> SUFFICES ASSUME TypeOK, [Next]_vars PROVE TypeOK'
  OBVIOUS
<1> USE SignalFacts
<1>1. CASE \E c \in Copies : EndCopy(c)
  <2>1. NoTraps \in [Trappable -> Actions]
    BY DEF NoTraps, Actions
  <2> QED
    BY <1>1, <2>1 DEF EndCopy, TypeOK, Shells
<1>2. CASE \E sig \in Trappable : Arrive(sig)
  BY <1>2 DEF Arrive, Hits, TypeOK
<1>3. CASE PrepareExec
  BY <1>3, PreparedKind DEF PrepareExec, TypeOK
<1>4. CASE ExecBecomes
  BY <1>4, PreparedKind DEF ExecBecomes, TypeOK
<1>5. CASE ExecFails
  BY <1>5 DEF ExecFails, TypeOK
<1>6. CASE Done \/ UNCHANGED vars
  BY <1>6 DEF Done, vars, TypeOK
<1> QED
  BY <1>1, <1>2, <1>3, <1>4, <1>5, <1>6, ShellTypeOK DEF Next

(* The variables always have their types.                                   *)
THEOREM TypeCorrect == Spec => []TypeOK
BY InitTypeOK, NextTypeOK, PTL DEF Spec

-----------------------------------------------------------------------------
(* DispositionsFollowTraps, inductive: also while an `exec' is prepared;    *)
(* SIGPIPE is ignored until there was one, and with that nothing that would *)
(* kill the shell has its default.                                          *)
Follows ==
  /\ process \in {"shell", "exec"} =>
       \A sig \in Trappable : FollowsTrap(sig) \/ (execTried /\ sig \in Reset)
  /\ process = "shell" /\ ~execTried => disp["PIPE"] = "ignore"
  /\ process = "exec" => execTried
  /\ SurvivesUntilExec

LEMMA InitFollows == Init => Follows
<1> SUFFICES ASSUME Init PROVE Follows
  OBVIOUS
<1>1. \A sig \in Trappable : FollowsTrap(sig)
  <2> SUFFICES ASSUME NEW sig \in Trappable PROVE FollowsTrap(sig)
    OBVIOUS
  <2>1. traps[Main][sig] = "none" /\ sig \in Signals
    BY SignalFacts DEF Init, NoTraps
  <2> QED
    BY <2>1, SignalFacts, TrappableAssumption DEF Init, FollowsTrap, Handler, Keys
<1>2. SurvivesUntilExec
  BY SignalFacts, TrappableAssumption DEF Init, SurvivesUntilExec, SurvivesKeys, Keys
<1> QED
  BY <1>1, <1>2 DEF Init, Follows

(* A step that leaves the dispositions, the traps of the main shell and the *)
(* process alone.                                                           *)
LEMMA FollowsKept ==
  ASSUME Follows, traps'[Main] = traps[Main],
         UNCHANGED <<disp, interactive, process, killer, execTried>>
  PROVE  Follows'
BY DEF Follows, FollowsTrap, SurvivesUntilExec, SurvivesKeys

LEMMA HitsFollows ==
  ASSUME TypeOK, Follows, NEW sig \in Signals, Hits(sig), process = "shell"
  PROVE  Follows'
<1> USE SignalFacts
<1>1. CASE disp[sig] # "default"
  BY <1>1, FollowsKept DEF Hits
<1>2. CASE disp[sig] = "default"
  <2>1. process' = "killed" /\ killer' = sig /\ UNCHANGED <<interactive, execTried>>
    BY <1>2 DEF Hits
  <2>2. ASSUME ~execTried PROVE sig # "PIPE" /\ (interactive => sig \notin Keys)
    <3>1. sig # "PIPE"
      BY <1>2, <2>2 DEF Follows
    <3>2. sig \in Trappable
      BY <3>1 DEF Signals
    <3>3. FollowsTrap(sig)
      BY <2>2, <3>2 DEF Follows
    <3> QED
      BY <1>2, <3>1, <3>3 DEF FollowsTrap
  <2> QED
    BY <2>1, <2>2 DEF Follows, SurvivesUntilExec, SurvivesKeys
<1> QED
  BY <1>1, <1>2

LEMMA TrapFollows ==
  ASSUME TypeOK, Follows, NEW s \in Shells, NEW sig \in Trappable,
         NEW action \in Actions, Trap(s, sig, action)
  PROVE  Follows'
<1> USE SignalFacts
<1>1. CASE s # Main
  <2>1. traps'[Main] = traps[Main]
    BY <1>1 DEF Trap, TypeOK
  <2> QED
    BY <1>1, <2>1, FollowsKept DEF Trap
<1>2. CASE s = Main
  <2>1. /\ traps'[Main] = [traps[Main] EXCEPT ![sig] = action]
        /\ disp' = [disp EXCEPT ![sig] = Handler(sig, action)]
        /\ UNCHANGED <<interactive, process, killer, execTried>>
    BY <1>2 DEF Trap, TypeOK
  <2>2. FollowsTrap(sig)'
    <3>1. traps'[Main][sig] = action /\ disp'[sig] = Handler(sig, action)
      BY <2>1 DEF TypeOK
    <3>2. action \in {"none", "ignore", "command"}
      BY DEF Actions
    <3> QED
      BY <2>1, <3>1, <3>2, TrappableAssumption DEF FollowsTrap, Handler
  <2>3. ASSUME NEW other \in Trappable, other # sig, FollowsTrap(other)
        PROVE  FollowsTrap(other)'
    <3>1. traps'[Main][other] = traps[Main][other] /\ disp'[other] = disp[other]
      BY <2>1, <2>3 DEF TypeOK
    <3> QED
      BY <2>1, <2>3, <3>1 DEF FollowsTrap
  <2>4. disp'["PIPE"] = disp["PIPE"]
    BY <2>1 DEF TypeOK
  <2> QED
    BY <2>1, <2>2, <2>3, <2>4 DEF Follows, SurvivesUntilExec, SurvivesKeys
<1> QED
  BY <1>1, <1>2

LEMMA ExecFollows ==
  ASSUME TypeOK, Follows, PrepareExec \/ ExecBecomes \/ ExecFails
  PROVE  Follows'
<1> USE SignalFacts
<1>1. CASE PrepareExec
  <2>1. ASSUME NEW sig \in Trappable, sig \notin Reset
        PROVE  FollowsTrap(sig)'
    <3>1. FollowsTrap(sig)
      BY <1>1, <2>1 DEF Follows, PrepareExec, Runs
    <3>2. disp'[sig] = disp[sig]
      BY <1>1, <2>1 DEF PrepareExec, Prepared
    <3> QED
      BY <1>1, <3>1, <3>2 DEF PrepareExec, FollowsTrap
  <2> QED
    BY <1>1, <2>1 DEF PrepareExec, Follows, SurvivesUntilExec
<1>2. CASE ExecBecomes
  BY <1>2 DEF ExecBecomes, Follows, SurvivesUntilExec, SurvivesKeys
<1>3. CASE ExecFails
  BY <1>3 DEF ExecFails, Follows, FollowsTrap, SurvivesUntilExec, SurvivesKeys
<1> QED
  BY <1>1, <1>2, <1>3

(* The other steps of a shell.                                              *)
LEMMA ChildFollows ==
  ASSUME TypeOK, Follows, NEW s \in Shells,
         \/ \E c \in Copies : StartCopy(s, c) \/ StartStage(s, c) \/ EndCopy(c)
         \/ Fork(s) \/ Prepare(s) \/ Start(s) \/ ChildEnds(s)
  PROVE  Follows'
<1>1. traps'[Main] = traps[Main]
  BY SignalFacts, MainAssumption
     DEF TypeOK, StartCopy, StartStage, EndCopy, Fork, Prepare, Start, ChildEnds
<1> QED
  BY <1>1, FollowsKept DEF StartCopy, StartStage, EndCopy, Fork, Prepare, Start, ChildEnds

LEMMA NextFollows == TypeOK /\ Follows /\ [Next]_vars => Follows'
<1> SUFFICES ASSUME TypeOK, Follows, [Next]_vars PROVE Follows'
  OBVIOUS
<1>1. CASE \E s \in Shells, sig \in Trappable, action \in Actions : Trap(s, sig, action)
  BY <1>1, TrapFollows
<1>2. CASE \E s \in Shells : \E c \in Copies : StartCopy(s, c) \/ StartStage(s, c)
  BY <1>2, ChildFollows
<1>3. CASE \E s \in Shells : Fork(s) \/ Prepare(s) \/ Start(s) \/ ChildEnds(s)
  BY <1>3, ChildFollows
<1>4. CASE \E c \in Copies : EndCopy(c)
  BY <1>4, ChildFollows, SignalFacts
<1>5. CASE (\E s \in Shells : WriteToBrokenPipe(s)) \/ \E sig \in Trappable : Arrive(sig)
  BY <1>5, HitsFollows, SignalFacts DEF WriteToBrokenPipe, Arrive, Runs
<1>6. CASE PrepareExec \/ ExecBecomes \/ ExecFails
  BY <1>6, ExecFollows
<1>7. CASE Done \/ UNCHANGED vars
  BY <1>7, FollowsKept DEF Done, vars
<1> QED
  BY <1>1, <1>2, <1>3, <1>4, <1>5, <1>6, <1>7 DEF Next

(* The dispositions of the process are those that the traps of the main     *)
(* shell ask for, whatever its copies do.                                   *)
THEOREM DispositionsAreRight == Spec => []DispositionsFollowTraps
<1>1. Follows => DispositionsFollowTraps
  BY DEF Follows, DispositionsFollowTraps
<1> QED
  BY <1>1, InitFollows, NextFollows, TypeCorrect, PTL DEF Spec

(* Until there was an `exec', an interactive shell survives the keys, and   *)
(* every shell a broken pipe.                                               *)
THEOREM ShellSurvives == Spec => []SurvivesUntilExec
<1>1. Follows => SurvivesUntilExec
  BY DEF Follows
<1> QED
  BY <1>1, InitFollows, NextFollows, TypeCorrect, PTL DEF Spec

-----------------------------------------------------------------------------
(* ProgramDefaults, inductive.  A shell that has a child exists, so no      *)
(* other shell can begin a new copy in its place; and it waits, so its      *)
(* traps stay what they were when the child was prepared.                   *)
ChildOK(s) ==
  /\ child[s] # "none" => Exists(s)
  /\ child[s] \in {"prepared", "program"} =>
       /\ cdisp[s]["PIPE"] = "default"
       /\ \A sig \in Keys : cdisp[s][sig] = "default" \/ traps[s][sig] = "ignore"
  /\ child[s] = "program" =>
       \A sig \in Signals : cdisp[s][sig] \in {"default", "ignore"}

Children == \A s \in Shells : ChildOK(s)

LEMMA InitChildren == Init => Children
BY DEF Init, Children, ChildOK

(* A shell is not disturbed by a step that is not its own.                  *)
LEMMA ChildKept ==
  ASSUME NEW s \in Shells, ChildOK(s),
         traps'[s] = traps[s], child'[s] = child[s], cdisp'[s] = cdisp[s],
         Exists(s) => Exists(s)'
  PROVE  ChildOK(s)'
BY DEF ChildOK

LEMMA ChildStep ==
  ASSUME TypeOK, Children, NEW s \in Shells,
         Fork(s) \/ Prepare(s) \/ Start(s) \/ ChildEnds(s)
  PROVE  Children'
<1> USE SignalFacts
<1>1. ASSUME NEW other \in Shells, other # s
      PROVE  ChildOK(other)'
  <2>1. ChildOK(other)
    BY DEF Children
  <2>2. /\ traps'[other] = traps[other] /\ child'[other] = child[other]
        /\ cdisp'[other] = cdisp[other] /\ parent' = parent
    BY <1>1 DEF Fork, Prepare, Start, ChildEnds, TypeOK
  <2> QED
    BY <2>1, <2>2, ChildKept DEF Exists
<1>2. ChildOK(s)'
  <2>1. traps' = traps /\ parent' = parent /\ ChildOK(s)
    BY DEF Fork, Prepare, Start, ChildEnds, Children
  <2>2. CASE Fork(s)
    <3>1. child'[s] = "forked" /\ Exists(s)
      BY <2>2 DEF Fork, Runs, TypeOK
    <3> QED
      BY <2>1, <3>1 DEF ChildOK, Exists
  <2>3. CASE Prepare(s)
    <3>1. child'[s] = "prepared" /\ Exists(s) /\ cdisp'[s] = Prepared(s, cdisp[s])
      BY <2>1, <2>3 DEF Prepare, TypeOK, ChildOK
    <3>2. cdisp'[s]["PIPE"] = "default"
      BY <3>1 DEF Prepared, Ignored, Reset
    <3>3. ASSUME NEW sig \in Keys
          PROVE  cdisp'[s][sig] = "default" \/ traps'[s][sig] = "ignore"
      BY <2>1, <3>1 DEF Prepared, Ignored, Reset
    <3> QED
      BY <2>1, <3>1, <3>2, <3>3 DEF ChildOK, Exists
  <2>4. CASE Start(s)
    <3>1. /\ child[s] = "prepared" /\ child'[s] = "program" /\ Exists(s)
          /\ cdisp'[s] = Execve(cdisp[s])
      BY <2>1, <2>4 DEF Start, TypeOK, ChildOK
    <3>2. \A sig \in Signals : cdisp'[s][sig] \in {"default", "ignore"}
      BY <3>1 DEF Execve
    <3>3. cdisp'[s]["PIPE"] = "default"
      BY <2>1, <3>1 DEF ChildOK, Execve
    <3>4. ASSUME NEW sig \in Keys
          PROVE  cdisp'[s][sig] = "default" \/ traps'[s][sig] = "ignore"
      BY <2>1, <3>1 DEF ChildOK, Execve
    <3> QED
      BY <2>1, <3>1, <3>2, <3>3, <3>4 DEF ChildOK, Exists
  <2>5. CASE ChildEnds(s)
    <3>1. child'[s] = "none"
      BY <2>5 DEF ChildEnds, TypeOK
    <3> QED
      BY <3>1 DEF ChildOK
  <2> QED
    BY <2>2, <2>3, <2>4, <2>5
<1> QED
  BY <1>1, <1>2 DEF Children

(* The steps that change the traps of one shell, which has no child then.   *)
LEMMA TrapsStep ==
  ASSUME TypeOK, Children, NEW s \in Shells, child[s] = "none",
         UNCHANGED <<child, cdisp>>,
         \A other \in Shells \ {s} :
           traps'[other] = traps[other] /\ parent'[other] = parent[other]
  PROVE  Children'
<1>1. ASSUME NEW other \in Shells, other # s
      PROVE  ChildOK(other)'
  <2>1. ChildOK(other) /\ traps'[other] = traps[other] /\ parent'[other] = parent[other]
    BY <1>1 DEF Children
  <2> QED
    BY <2>1, ChildKept DEF Exists
<1>2. ChildOK(s)'
  BY DEF ChildOK
<1> QED
  BY <1>1, <1>2 DEF Children

LEMMA NextChildren == TypeOK /\ Children /\ [Next]_vars => Children'
<1> SUFFICES ASSUME TypeOK, Children, [Next]_vars PROVE Children'
  OBVIOUS
<1>1. CASE \E s \in Shells, sig \in Trappable, action \in Actions : Trap(s, sig, action)
  <2> PICK s \in Shells, sig \in Trappable, action \in Actions : Trap(s, sig, action)
    BY <1>1
  <2> QED
    BY TrapsStep DEF Trap, Runs, TypeOK
<1>2. CASE \E s \in Shells, c \in Copies : StartCopy(s, c) \/ StartStage(s, c)
  <2> PICK s \in Shells, c \in Copies : StartCopy(s, c) \/ StartStage(s, c)
    BY <1>2
  <2>1. c \in Shells /\ ~Exists(c)
    BY DEF Shells, StartCopy, StartStage
  <2>2. child[c] = "none"
    BY <2>1 DEF Children, ChildOK
  <2> QED
    BY <2>1, <2>2, TrapsStep DEF StartCopy, StartStage, TypeOK
<1>3. CASE \E s \in Shells : Fork(s) \/ Prepare(s) \/ Start(s) \/ ChildEnds(s)
  BY <1>3, ChildStep
<1>4. CASE \E c \in Copies : EndCopy(c)
  <2> PICK c \in Copies : EndCopy(c)
    BY <1>4
  <2> QED
    BY TrapsStep DEF EndCopy, Runs, TypeOK, Shells
<1>5. CASE UNCHANGED <<child, cdisp, traps, parent>>
  BY <1>5 DEF Children, ChildOK, Exists
<1> QED
  BY <1>1, <1>2, <1>3, <1>4, <1>5
     DEF Next, WriteToBrokenPipe, Arrive, Hits, PrepareExec, ExecBecomes, ExecFails, Done, vars

(* A program has no handler of the shell, a broken pipe ends it, and so do  *)
(* the keys unless a trap of the shell that started it ignores them.        *)
THEOREM ProgramsHaveDefaults == Spec => []ProgramDefaults
<1>1. Children => ProgramDefaults
  BY SignalFacts DEF Children, ChildOK, ProgramDefaults
<1> QED
  BY <1>1, InitChildren, NextChildren, TypeCorrect, PTL DEF Spec

-----------------------------------------------------------------------------
(* ProgramIgnores, inductive.  What reaches a program is what the main      *)
(* shell ignored when it was forked, so the traps of the main shell must    *)
(* not change while a program runs, however many copies deep: the copies    *)
(* form a tree under the main shell, so it waits as long as there is one.   *)
ParentExists == \A c \in Copies : Exists(c) => Exists(parent[c])

(* In every set of copies that exist there is one whose parent is outside:  *)
(* no copy is its own ancestor.                                             *)
NoCycle ==
  \A set \in SUBSET {c \in Copies : Exists(c)} :
    set # {} => \E c \in set : parent[c] \notin set

Tree == ParentExists /\ NoCycle

MainIgnores == \A sig \in Trappable : traps[Main][sig] = "ignore" => disp[sig] = "ignore"

IgnoresOK(s) ==
  \A sig \in Trappable :
    child[s] # "none" /\ traps[s][sig] = "ignore" /\ traps[Main][sig] = "ignore"
      => cdisp[s][sig] = "ignore"

Ignoring == MainIgnores /\ \A s \in Shells : IgnoresOK(s)

IgnoreInv == TypeOK /\ Children /\ Tree /\ Ignoring

LEMMA InitIgnore == Init => IgnoreInv
<1> SUFFICES ASSUME Init PROVE IgnoreInv
  OBVIOUS
<1>1. \A c \in Copies : ~Exists(c)
  BY MainAssumption DEF Init, Exists, Shells
<1>2. Tree
  BY <1>1 DEF Tree, ParentExists, NoCycle
<1>3. Ignoring
  BY SignalFacts DEF Init, NoTraps, Ignoring, MainIgnores, IgnoresOK
<1> QED
  BY <1>2, <1>3, InitTypeOK, InitChildren DEF IgnoreInv

(* A main shell that waits for no copy is the only shell.                   *)
LEMMA MainAlone ==
  ASSUME TypeOK, Tree, Runs(Main)
  PROVE  \A c \in Copies : ~Exists(c)
<1> DEFINE Set == {c \in Copies : Exists(c)}
<1> SUFFICES ASSUME Set # {} PROVE FALSE
  OBVIOUS
<1>1. PICK c \in Set : parent[c] \notin Set
  BY DEF Tree, NoCycle
<1>2. Exists(parent[c]) /\ parent[c] \in Shells
  BY <1>1 DEF Tree, ParentExists, TypeOK, Shells
<1>3. parent[c] = Main
  BY <1>1, <1>2 DEF Shells
<1> QED
  BY <1>1, <1>3, MainAssumption DEF Runs

LEMMA TreeGrows ==
  ASSUME TypeOK, Tree, NEW s \in Shells, NEW c \in Copies, Exists(s), ~Exists(c),
         parent' = [parent EXCEPT ![c] = s]
  PROVE  Tree'
<1>1. c # s /\ c # Main /\ c \in Shells /\ parent'[c] = s
  BY MainAssumption DEF Shells, Exists, TypeOK
<1>2. \A d \in Shells \ {c} : parent'[d] = parent[d] /\ (Exists(d)' <=> Exists(d))
  BY DEF TypeOK, Exists
<1>3. \A d \in Copies : Exists(d) => parent[d] # c /\ d # c
  BY DEF Tree, ParentExists
<1>4. ParentExists'
  <2> SUFFICES ASSUME NEW d \in Copies, Exists(d)' PROVE Exists(parent[d])'
    BY DEF ParentExists
  <2>1. CASE d = c
    BY <2>1, <1>1, <1>2 DEF Exists
  <2>2. CASE d # c
    <3>1. Exists(d) /\ parent'[d] = parent[d] /\ d \in Shells
      BY <2>2, <1>2 DEF Shells
    <3>2. Exists(parent[d]) /\ parent[d] # c /\ parent[d] \in Shells
      BY <3>1, <1>3 DEF Tree, ParentExists, TypeOK
    <3>3. Exists(parent[d])' <=> parent'[d] = Main \/ parent'[parent'[d]] # parent'[d]
      BY DEF Exists
    <3> QED
      BY <3>1, <3>2, <3>3, <1>2 DEF Exists
  <2> QED
    BY <2>1, <2>2
<1>5. NoCycle'
  <2> SUFFICES ASSUME NEW set \in SUBSET {d \in Copies : Exists(d)'}, set # {}
               PROVE  \E d \in set : parent'[d] \notin set
    BY DEF NoCycle
  <2>1. set \ {c} \in SUBSET {d \in Copies : Exists(d)}
    BY <1>2 DEF Shells
  <2>2. CASE set \ {c} = {}
    BY <2>2, <1>1
  <2>3. CASE set \ {c} # {}
    <3>1. PICK d \in set \ {c} : parent[d] \notin set \ {c}
      BY <2>1, <2>3 DEF Tree, NoCycle
    <3> QED
      BY <2>1, <3>1, <1>2, <1>3 DEF Shells
  <2> QED
    BY <2>2, <2>3
<1> QED
  BY <1>4, <1>5 DEF Tree

LEMMA TreeShrinks ==
  ASSUME TypeOK, Tree, NEW c \in Copies, \A d \in Copies : parent[d] = c => d = c,
         parent' = [parent EXCEPT ![c] = c]
  PROVE  Tree'
<1>1. c # Main /\ c \in Shells /\ ~Exists(c)'
  BY MainAssumption DEF Shells, Exists, TypeOK
<1>2. \A d \in Shells \ {c} : parent'[d] = parent[d] /\ (Exists(d)' <=> Exists(d))
  BY DEF TypeOK, Exists
<1>3. \A d \in Copies : Exists(d)' => d # c /\ Exists(d) /\ parent'[d] = parent[d] /\ parent[d] # c
  BY <1>1, <1>2 DEF Shells
<1>4. ParentExists'
  <2> SUFFICES ASSUME NEW d \in Copies, Exists(d)' PROVE Exists(parent[d])'
    BY DEF ParentExists
  <2>1. Exists(parent[d]) /\ parent[d] # c /\ parent[d] \in Shells /\ parent'[d] = parent[d]
    BY <1>3 DEF Tree, ParentExists, TypeOK, Shells
  <2> QED
    BY <2>1, <1>2 DEF Exists
<1>5. NoCycle'
  BY <1>3 DEF Tree, NoCycle
<1> QED
  BY <1>4, <1>5 DEF Tree

LEMMA NextTree == TypeOK /\ Tree /\ [Next]_vars => Tree'
<1> SUFFICES ASSUME TypeOK, Tree, [Next]_vars PROVE Tree'
  OBVIOUS
<1>1. CASE \E s \in Shells, c \in Copies : StartCopy(s, c) \/ StartStage(s, c)
  BY <1>1, TreeGrows DEF StartCopy, StartStage, Runs
<1>2. CASE \E c \in Copies : EndCopy(c)
  BY <1>2, TreeShrinks DEF EndCopy, Runs
<1>3. CASE UNCHANGED parent
  BY <1>3 DEF Tree, ParentExists, NoCycle, Exists
<1> QED
  BY <1>1, <1>2, <1>3
     DEF Next, Trap, Fork, Prepare, Start, ChildEnds, WriteToBrokenPipe, Arrive, Hits,
         PrepareExec, ExecBecomes, ExecFails, Done, vars

(* What is ignored in a process stays ignored in what it becomes.           *)
LEMMA IgnoredStays ==
  ASSUME NEW s \in Shells, NEW before \in [Signals -> Kinds], NEW sig \in Trappable,
         before[sig] = "ignore"
  PROVE  /\ traps[s][sig] = "ignore" => Prepared(s, before)[sig] = "ignore"
         /\ Execve(before)[sig] = "ignore"
BY SignalFacts DEF Prepared, Ignored, Execve

LEMMA TrapIgnores ==
  ASSUME IgnoreInv, NEW s \in Shells, NEW sig \in Trappable, NEW action \in Actions,
         Trap(s, sig, action)
  PROVE  Ignoring'
<1> USE SignalFacts DEF IgnoreInv
<1>1. CASE s # Main
  <2>1. /\ \A other \in Shells \ {s} : traps'[other] = traps[other]
        /\ disp' = disp /\ child' = child /\ cdisp' = cdisp /\ child[s] = "none"
    BY <1>1 DEF Trap, Runs, TypeOK
  <2> QED
    BY <1>1, <2>1 DEF Ignoring, MainIgnores, IgnoresOK
<1>2. CASE s = Main
  <2>1. \A other \in Shells : child'[other] = "none"
    <3>1. \A c \in Copies : ~Exists(c)
      BY <1>2, MainAlone DEF Trap
    <3> QED
      BY <1>2, <3>1 DEF Trap, Runs, Children, ChildOK, Shells
  <2>2. MainIgnores'
    BY <1>2 DEF Trap, TypeOK, Ignoring, MainIgnores, Handler
  <2> QED
    BY <2>1, <2>2 DEF Ignoring, IgnoresOK
<1> QED
  BY <1>1, <1>2

LEMMA ChildIgnores ==
  ASSUME IgnoreInv, NEW s \in Shells,
         Fork(s) \/ Prepare(s) \/ Start(s) \/ ChildEnds(s)
  PROVE  Ignoring'
<1> USE SignalFacts DEF IgnoreInv
<1>1. UNCHANGED <<disp, traps>>
  BY DEF Fork, Prepare, Start, ChildEnds
<1>2. ASSUME NEW other \in Shells, other # s
      PROVE  IgnoresOK(other)'
  <2>1. child'[other] = child[other] /\ cdisp'[other] = cdisp[other]
    BY <1>2 DEF Fork, Prepare, Start, ChildEnds, TypeOK
  <2> QED
    BY <1>1, <2>1 DEF Ignoring, IgnoresOK
<1>3. IgnoresOK(s)'
  <2>1. CASE Fork(s)
    BY <1>1, <2>1 DEF Fork, TypeOK, Ignoring, MainIgnores, IgnoresOK
  <2>2. CASE Prepare(s)
    <3>1. child[s] # "none" /\ cdisp'[s] = Prepared(s, cdisp[s]) /\ cdisp[s] \in [Signals -> Kinds]
      BY <2>2 DEF Prepare, TypeOK
    <3> QED
      BY <1>1, <3>1, IgnoredStays DEF Ignoring, IgnoresOK
  <2>3. CASE Start(s)
    <3>1. child[s] # "none" /\ cdisp'[s] = Execve(cdisp[s]) /\ cdisp[s] \in [Signals -> Kinds]
      BY <2>3 DEF Start, TypeOK
    <3> QED
      BY <1>1, <3>1, IgnoredStays DEF Ignoring, IgnoresOK
  <2>4. CASE ChildEnds(s)
    BY <2>4 DEF ChildEnds, TypeOK, IgnoresOK
  <2> QED
    BY <2>1, <2>2, <2>3, <2>4
<1> QED
  BY <1>1, <1>2, <1>3 DEF Ignoring, MainIgnores

LEMMA NextIgnoring == IgnoreInv /\ [Next]_vars => Ignoring'
<1> SUFFICES ASSUME IgnoreInv, [Next]_vars PROVE Ignoring'
  OBVIOUS
<1> USE SignalFacts DEF IgnoreInv
<1>1. CASE \E s \in Shells, sig \in Trappable, action \in Actions : Trap(s, sig, action)
  BY <1>1, TrapIgnores
<1>2. CASE \E s \in Shells, c \in Copies : StartCopy(s, c) \/ StartStage(s, c)
  <2> PICK s \in Shells, c \in Copies : StartCopy(s, c) \/ StartStage(s, c)
    BY <1>2
  <2>1. c \in Shells /\ ~Exists(c) /\ c # Main /\ child[c] = "none"
    BY MainAssumption DEF Shells, StartCopy, StartStage, Children, ChildOK
  <2>2. /\ \A other \in Shells \ {c} : traps'[other] = traps[other]
        /\ disp' = disp /\ child' = child /\ cdisp' = cdisp
    BY DEF StartCopy, StartStage, TypeOK
  <2> QED
    BY <2>1, <2>2 DEF Ignoring, MainIgnores, IgnoresOK
<1>3. CASE \E s \in Shells : Fork(s) \/ Prepare(s) \/ Start(s) \/ ChildEnds(s)
  BY <1>3, ChildIgnores
<1>4. CASE \E c \in Copies : EndCopy(c)
  <2> PICK c \in Copies : EndCopy(c)
    BY <1>4
  <2>1. /\ \A other \in Shells \ {c} : traps'[other] = traps[other]
        /\ c # Main /\ c \in Shells /\ child[c] = "none"
        /\ disp' = disp /\ child' = child /\ cdisp' = cdisp
    BY DEF EndCopy, Runs, TypeOK, Shells
  <2> QED
    BY <2>1 DEF Ignoring, MainIgnores, IgnoresOK
<1>5. CASE PrepareExec
  <2>1. \A sig \in Trappable : traps[Main][sig] = "ignore" => disp'[sig] = "ignore"
    BY <1>5, IgnoredStays DEF PrepareExec, TypeOK, Ignoring, MainIgnores
  <2> QED
    BY <1>5, <2>1 DEF PrepareExec, Ignoring, MainIgnores, IgnoresOK
<1>6. CASE ExecBecomes
  <2>1. \A sig \in Trappable : traps[Main][sig] = "ignore" => disp'[sig] = "ignore"
    BY <1>6, IgnoredStays DEF ExecBecomes, TypeOK, Ignoring, MainIgnores
  <2> QED
    BY <1>6, <2>1 DEF ExecBecomes, Ignoring, MainIgnores, IgnoresOK
<1>7. CASE UNCHANGED <<disp, traps, child, cdisp>>
  BY <1>7 DEF Ignoring, MainIgnores, IgnoresOK
<1> QED
  BY <1>1, <1>2, <1>3, <1>4, <1>5, <1>6, <1>7
     DEF Next, WriteToBrokenPipe, Arrive, Hits, ExecFails, Done, vars

(* spawn.rs, become_program: a signal that the shell ignores because of a   *)
(* trap is ignored in the program, through any number of nested copies and  *)
(* whatever any other copy traps meanwhile.                                 *)
THEOREM IgnoredStaysIgnored == Spec => []ProgramIgnores
<1>1. IgnoreInv => ProgramIgnores
  BY DEF IgnoreInv, Ignoring, IgnoresOK, ProgramIgnores
<1>2. IgnoreInv /\ [Next]_vars => IgnoreInv'
  BY NextTypeOK, NextChildren, NextTree, NextIgnoring DEF IgnoreInv
<1> QED
  BY <1>1, <1>2, InitIgnore, PTL DEF Spec
=============================================================================
