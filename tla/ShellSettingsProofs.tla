------------------------- MODULE ShellSettingsProofs -------------------------
(***************************************************************************)
(* Proofs about the settings of the shells of ShellState along a run, for  *)
(* every script, every environment and every number of copies.             *)
(*                                                                         *)
(* The commands come down to a few kinds of steps (Cases): one that runs   *)
(* in a list (Ran), one that enters a list (Entered), the end of a list    *)
(* (Leave), and what happens to lines and copies.  On top of the shape of  *)
(* the state (TInv) each property has an invariant of its own over the     *)
(* stack of lists: what they have put aside (PrefixInv, PwdInv), and what  *)
(* their redirections undo (FilesInv).                                     *)
(***************************************************************************)
EXTENDS ShellStateProofs

-----------------------------------------------------------------------------
(* Lists inside lists.                                                      *)

NamedBy(redirects) == {d.fd : d \in ToSet(redirects)}

(* c starts a list inside the one it runs, with the redirections around it  *)
(* and these names assigned in front.                                       *)
Entered(c, shell, frame, redirects, names) ==
  /\ Acts(c) /\ Len(frames[c]) < MaxFrames
  /\ shells' = [shells EXCEPT ![c] = shell]
  /\ frames' = [frames EXCEPT ![c] = Append(@, frame)]
  /\ wanted' = [wanted EXCEPT ![c] = Redirected(@, redirects).table]
  /\ spent' = spent + 1
  /\ UNCHANGED <<ancestors, flow, World>>
  /\ frame \in Frame /\ redirects \in Seq(Redirect)
  /\ Redirected(Current(c), redirects).ok
  /\ frame.base = Redirected(Current(c), redirects).table /\ frame.local = None
  /\ frame.path = shells[c].path_override
  /\ frame.undo = [fd \in NamedBy(redirects) |-> wanted[c][fd]]
  /\ \A n \in DOMAIN frame.saved : frame.saved[n] = shells[c].vars[n]
  /\ ExecAnywhere \/ NamedBy(redirects) \intersect DOMAIN shells[c].fd_changes = {}
  /\ ShellOK(shell)
  /\ shell.fd_changes = shells[c].fd_changes
  /\ shell.cwd_override = shells[c].cwd_override
  /\ shell.umask_override = shells[c].umask_override
  /\ Carried(shells[c].vars, shell.vars, names, names)
  /\ names \intersect Temporary \subseteq DOMAIN frame.saved
  /\ DOMAIN frame.saved \subseteq names
  /\ "PWD" \in names => \E s \in Scripts[script].commands : AssignsPwd(s)

LEMMA UndoTyped ==
  ASSUME TInv, NEW c \in Live, NEW redirects \in Seq(Redirect)
  PROVE  [fd \in NamedBy(redirects) |-> wanted[c][fd]] \in Partial(Fds, Files)
<1>1. wanted[c] \in [Fds -> Files]
  BY DEF TInv, Table
<1>2. NamedBy(redirects) \in SUBSET Fds
  <2>1. ToSet(redirects) \subseteq Redirect
    BY Elements
  <2> QED
    BY <2>1 DEF NamedBy, Redirect
<1> DEFINE some == NamedBy(redirects)
<1> HIDE DEF some
<1>3. [fd \in some |-> wanted[c][fd]] \in [some -> Files]
  BY <1>1, <1>2 DEF some
<1> QED
  BY <1>2, <1>3, PartialFunctions DEF some

(* The frames of the lists inside another.                                  *)
GroupFrame(table, path, undo) ==
  [[List("group", table) EXCEPT !.path = path] EXCEPT !.undo = undo]
EvalFrame(table, saved, path, undo) ==
  [[List("eval", table) EXCEPT !.saved = saved, !.path = path] EXCEPT !.undo = undo]
CallFrame(table, saved, positional, path, undo) ==
  [[List("call", table) EXCEPT !.saved = saved, !.positional = positional, !.path = path]
     EXCEPT !.undo = undo]

FrameFits(frame, table, saved, path, undo) ==
  /\ frame \in Frame /\ frame.base = table /\ frame.local = None
  /\ frame.saved = saved /\ frame.path = path /\ frame.undo = undo

LEMMA FramesMade ==
  ASSUME NEW table \in Table,
         NEW saved \in Partial(Names, Variable), NEW positional \in Words,
         NEW path \in Seq(STRING) \union {None}, NEW undo \in Partial(Fds, Files)
  PROVE  /\ FrameFits(GroupFrame(table, path, undo), table, <<>>, path, undo)
         /\ FrameFits(EvalFrame(table, saved, path, undo), table, saved, path, undo)
         /\ FrameFits(CallFrame(table, saved, positional, path, undo), table, saved, path, undo)
<1>1. ASSUME NEW kind \in {"call", "eval", "group"}
      PROVE  /\ List(kind, table) \in Frame /\ List(kind, table).base = table
             /\ List(kind, table).local = None /\ List(kind, table).saved = <<>>
  <2>1. <<>> \in Partial(Names, Variable) /\ <<>> \in Partial(Fds, Files) /\ <<>> \in Words
    BY PartialFunctions DEF Words
  <2> DEFINE none == <<>>
  <2> HIDE DEF none
  <2>2. List(kind, table) = [kind |-> kind, base |-> table, local |-> None, saved |-> none,
                             positional |-> none, path |-> None, undo |-> none]
    BY DEF List, none
  <2> QED
    BY <2>1, <2>2 DEF Frame, none
<1>2. FrameFits(GroupFrame(table, path, undo), table, <<>>, path, undo)
  BY <1>1 DEF Frame, FrameFits, GroupFrame
<1>3. FrameFits(EvalFrame(table, saved, path, undo), table, saved, path, undo)
  BY <1>1 DEF Frame, FrameFits, EvalFrame
<1>4. FrameFits(CallFrame(table, saved, positional, path, undo), table, saved, path, undo)
  BY <1>1 DEF Frame, FrameFits, CallFrame
<1> QED
  BY <1>2, <1>3, <1>4

LEMMA GroupEntered ==
  ASSUME TInv, NEW c \in Live, NEW redirects \in Scripts[script].groups, Group(c, redirects)
  PROVE  \E frame : Entered(c, shells[c], frame, redirects, {})
<1> DEFINE table == Redirected(Current(c), redirects).table
           undo == [fd \in NamedBy(redirects) |-> wanted[c][fd]]
           path == shells[c].path_override
           frame == GroupFrame(table, path, undo)
<1>1. /\ Acts(c) /\ Len(frames[c]) < MaxFrames
      /\ Redirected(Current(c), redirects).ok
      /\ shells' = [shells EXCEPT ![c] = shells[c]]
      /\ frames' = [frames EXCEPT ![c] = Append(@, frame)]
      /\ wanted' = [wanted EXCEPT ![c] = Redirected(@, redirects).table]
      /\ spent' = spent + 1
      /\ UNCHANGED <<ancestors, flow, World>>
      /\ ExecAnywhere \/ NamedBy(redirects) \intersect DOMAIN shells[c].fd_changes = {}
  BY DEF Group, Enter, NamedBy, GroupFrame
<1>2. redirects \in Seq(Redirect)
  BY ScriptsAssumption DEF TInv
<1>3. ShellOK(shells[c]) /\ frames[c] \in Seq(Frame) /\ frames[c] # <<>>
  BY DEF TInv
<1>4. table \in Table
  <2>1. Current(c) \in Table
    BY <1>3, StackTop, CurrentTable DEF Current, Top
  <2> QED
    BY <1>2, <2>1, RedirectedTable
<1>5. undo \in Partial(Fds, Files)
  BY <1>2, UndoTyped
<1>6. <<>> \in Partial(Names, Variable) /\ <<>> \in Words /\ DOMAIN <<>> = {}
  BY PartialFunctions DEF Words
<1>7. shells[c].path_override \in Seq(STRING) \union {None}
  BY <1>3 DEF ShellOK
<1>8. path \in Seq(STRING) \union {None}
  BY <1>7
<1> HIDE DEF table, undo, path
<1>9. FrameFits(frame, table, <<>>, path, undo)
  BY <1>4, <1>5, <1>6, <1>8, FramesMade
<1> HIDE DEF frame
<1>10. /\ frame \in Frame /\ frame.base = table /\ frame.local = None /\ frame.path = path
       /\ frame.undo = undo /\ frame.saved = <<>>
  BY <1>9 DEF FrameFits
<1>11. Carried(shells[c].vars, shells[c].vars, {}, {})
  BY NothingCarried
<1>12. Entered(c, shells[c], frame, redirects, {})
  BY <1>1, <1>2, <1>3, <1>6, <1>10, <1>11 DEF Entered, table, undo, path
<1> QED
  BY <1>12

LEMMA CallEntered ==
  ASSUME TInv, NEW c \in Live, NEW s \in Scripts[script].commands, Call(c, s) \/ Eval(c, s)
  PROVE  \E shell, frame : Entered(c, shell, frame, s.redirects, AssignedNames(s))
<1> DEFINE while == During(c, s)
           table == Files_of(c, s).table
           undo == [fd \in NamedBy(s.redirects) |-> wanted[c][fd]]
           saved == Saved(c, s)
           path == shells[c].path_override
           Enters(shell, frame) ==
             /\ shells' = [shells EXCEPT ![c] = shell]
             /\ frames' = [frames EXCEPT ![c] = Append(@, frame)]
<1>1. /\ Acts(c) /\ Len(frames[c]) < MaxFrames /\ s.words # <<>>
      /\ Files_of(c, s).ok /\ Apart(c, s)
      /\ wanted' = [wanted EXCEPT ![c] = Redirected(@, s.redirects).table]
      /\ spent' = spent + 1
      /\ UNCHANGED <<ancestors, flow, World>>
  BY DEF Call, Eval, Enter, Accepted
<1>2. ~Execs(s)
  <2>1. ASSUME Execs(s) PROVE CommandName(s) = "exec"
    BY <2>1 DEF Execs, CommandName
  <2>2. CASE Call(c, s)
    BY <2>1, <2>2 DEF Call, Target, Classify, SpecialBuiltins
  <2>3. CASE Eval(c, s)
    BY <2>1, <2>3 DEF Eval
  <2> QED
    BY <2>2, <2>3
<1>3. /\ ShellOK(while) /\ SameBut(shells[c], while, {"vars", "path_override"})
      /\ Carried(shells[c].vars, while.vars, AssignedNames(s), AssignedNames(s))
  BY <1>2, DuringFacts, RecordedFacts
<1>4. /\ saved \in Partial(Names, Variable) /\ s.words \in Words /\ s.redirects \in Seq(Redirect)
      /\ DOMAIN saved = IF IsSpecial(s) THEN {} ELSE AssignedNames(s)
      /\ \A n \in DOMAIN saved : saved[n] = shells[c].vars[n]
      /\ table \in Table
  BY CommandFacts
<1>5. /\ path \in Seq(STRING) \union {None} /\ shells[c].positional \in Words
      /\ DOMAIN shells[c] = Fields
  BY DEF TInv, ShellOK
<1>6. undo \in Partial(Fds, Files)
  BY <1>4, UndoTyped
<1>7. /\ ExecAnywhere \/ NamedBy(s.redirects) \intersect DOMAIN shells[c].fd_changes = {}
      /\ Files_of(c, s) = Redirected(Current(c), s.redirects)
  BY <1>1, <1>2 DEF Apart, NamedBy, Files_of
<1>8. AssignedNames(s) \intersect Temporary \subseteq DOMAIN saved
  <2>1. IsSpecial(s) => AssignedNames(s) \intersect Temporary = {}
    BY TemporaryAssumption DEF TInv
  <2> QED
    BY <1>4, <2>1
<1>13. "PWD" \in AssignedNames(s) => AssignsPwd(s)
  BY DEF AssignsPwd
<1>9. ASSUME NEW shell, NEW frame \in Frame, Enters(shell, frame),
             frame.base = table, frame.local = None, frame.saved = saved,
             frame.path = path, frame.undo = undo,
             ShellOK(shell), shell.fd_changes = shells[c].fd_changes,
             shell.cwd_override = shells[c].cwd_override,
             shell.umask_override = shells[c].umask_override, shell.vars = while.vars
       PROVE  Entered(c, shell, frame, s.redirects, AssignedNames(s))
  <2> HIDE DEF while, saved
  <2> QED
    BY <1>1, <1>3, <1>4, <1>7, <1>8, <1>9, <1>13 DEF Entered
<1>10. /\ while.fd_changes = shells[c].fd_changes
       /\ while.cwd_override = shells[c].cwd_override
       /\ while.umask_override = shells[c].umask_override
       /\ DOMAIN while = Fields
  BY <1>3 DEF SameBut, Fields
<1>11. CASE Call(c, s)
  <2> DEFINE positional == shells[c].positional
             frame == CallFrame(table, saved, positional, path, undo)
             shell == [while EXCEPT !.positional = Tail(s.words)]
  <2>1. Enters(shell, frame)
    BY <1>11 DEF Call, Enter, NamedBy, CallFrame
  <2>2. SameBut(while, shell, {"positional"}) /\ shell.positional = Tail(s.words)
    BY <1>10 DEF SameBut, Fields
  <2>3. Tail(s.words) \in Words
    BY <1>1, <1>4, HeadTailProperties DEF Words
  <2>4. positional \in Words
    BY <1>5
  <2> HIDE DEF shell, while, Enters
  <2>5. ShellOK(shell)
    BY <1>3, <2>2, <2>3, ShellChanged
  <2>6. /\ shell.fd_changes = shells[c].fd_changes
        /\ shell.cwd_override = shells[c].cwd_override
        /\ shell.umask_override = shells[c].umask_override /\ shell.vars = while.vars
    BY <1>10, <2>2 DEF SameBut, Fields
  <2> HIDE DEF table, saved, path, undo, positional
  <2>7. FrameFits(frame, table, saved, path, undo)
    BY <1>4, <1>5, <1>6, <2>4, FramesMade
  <2> HIDE DEF frame
  <2> QED
    BY <1>9, <2>1, <2>5, <2>6, <2>7 DEF FrameFits
<1>12. CASE Eval(c, s)
  <2> DEFINE frame == EvalFrame(table, saved, path, undo)
  <2>1. Enters(while, frame)
    BY <1>12 DEF Eval, Enter, NamedBy, EvalFrame
  <2> HIDE DEF while, Enters, table, saved, path, undo
  <2>2. FrameFits(frame, table, saved, path, undo)
    BY <1>4, <1>5, <1>6, FramesMade
  <2> HIDE DEF frame
  <2> QED
    BY <1>3, <1>9, <1>10, <2>1, <2>2 DEF FrameFits
<1> QED
  BY <1>11, <1>12

(* The end of a list gives the shell back what the frame has kept.          *)
LEMMA LeftFacts ==
  ASSUME TInv, NEW c \in Live, Len(frames[c]) > 1
  PROVE  /\ ShellOK(Left(c))
         /\ Left(c).vars = Restored(shells[c].vars, Top(c).saved)
         /\ Left(c).path_override = Top(c).path
         /\ \A f \in {"fd_changes", "cwd_override", "umask_override"} : Left(c)[f] = shells[c][f]
         /\ Top(c) \in Frame /\ Top(c) = frames[c][Len(frames[c])]
<1> DEFINE top == Top(c)
           shell == PutBack(shells[c], top.saved, top.path)
           called == [shell EXCEPT !.positional = top.positional]
<1>1. ShellOK(shells[c]) /\ frames[c] \in Seq(Frame) /\ frames[c] # <<>>
  BY DEF TInv
<1>2. top \in Frame /\ top = frames[c][Len(frames[c])]
  BY <1>1, StackTop DEF Top
<1>3. /\ top.saved \in Partial(Names, Variable) /\ top.path \in Seq(STRING) \union {None}
      /\ top.positional \in Words
  BY <1>2 DEF Frame
<1>4. Left(c) = IF top.kind = "call" THEN called ELSE shell
  BY DEF Left
<1> HIDE DEF top
<1>5. /\ ShellOK(shell) /\ SameBut(shells[c], shell, {"vars", "path_override"})
      /\ shell.vars = Restored(shells[c].vars, top.saved) /\ shell.path_override = top.path
  BY <1>1, <1>3, PutBackFacts
<1> HIDE DEF shell
<1>6. DOMAIN shell = Fields
  BY <1>5 DEF ShellOK
<1>7. SameBut(shell, called, {"positional"}) /\ called.positional = top.positional
  BY <1>6 DEF SameBut, Fields
<1> HIDE DEF called
<1>8. ShellOK(called)
  BY <1>3, <1>5, <1>7, ShellChanged
<1>9. /\ called.vars = shell.vars /\ called.path_override = shell.path_override
      /\ \A f \in {"fd_changes", "cwd_override", "umask_override"} :
           called[f] = shells[c][f] /\ shell[f] = shells[c][f]
  BY <1>5, <1>7 DEF SameBut, Fields
<1> QED
  BY <1>2, <1>4, <1>5, <1>8, <1>9 DEF top

StackOK(stack) == stack \in Seq(Frame) /\ stack # <<>> /\ Len(stack) <= MaxFrames

(* The frames of a stack are the same, but for the tables that exec changes. *)
Stable == {"kind", "base", "saved", "positional", "path", "undo"}
SameFrames(old, new, n) ==
  \A i \in 1 .. n : \A f \in Stable : new[i][f] = old[i][f]

LEMMA StackAppended ==
  ASSUME NEW stack, StackOK(stack), Len(stack) < MaxFrames, NEW frame \in Frame
  PROVE  /\ StackOK(Append(stack, frame)) /\ Len(Append(stack, frame)) = Len(stack) + 1
         /\ \A i \in 1 .. Len(stack) : Append(stack, frame)[i] = stack[i]
         /\ Append(stack, frame)[Len(stack) + 1] = frame
<1>1. stack \in Seq(Frame) /\ Len(stack) \in Nat /\ MaxFrames \in Nat
  BY NamesAssumption DEF StackOK
<1>2. /\ Append(stack, frame) \in Seq(Frame) /\ Append(stack, frame) # <<>>
      /\ Len(Append(stack, frame)) = Len(stack) + 1
      /\ \A i \in 1 .. Len(stack) : Append(stack, frame)[i] = stack[i]
  BY <1>1, Appended
<1>3. Append(stack, frame)[Len(stack) + 1] = frame
  BY <1>1
<1> QED
  BY <1>1, <1>2, <1>3 DEF StackOK

LEMMA StackFollowed ==
  ASSUME NEW stack, StackOK(stack), NEW changes, \A fd \in DOMAIN changes : changes[fd] \in Files
  PROVE  LET new == Followed(stack, changes)
         IN  /\ StackOK(new) /\ Len(new) = Len(stack)
             /\ \A i \in 1 .. Len(stack) - 1 : new[i] = stack[i]
             /\ SameFrames(stack, new, Len(stack))
<1> DEFINE new == Followed(stack, changes)
<1>1. /\ new \in Seq(Frame) /\ new # <<>> /\ Len(new) = Len(stack)
      /\ \A i \in 1 .. Len(stack) - 1 : new[i] = stack[i]
      /\ SameFrames(stack, new, Len(stack))
  BY FollowedStack DEF StackOK, SameFrames, Stable
<1> HIDE DEF new
<1>2. StackOK(new)
  BY <1>1 DEF StackOK
<1> QED
  BY <1>1, <1>2 DEF new

LEMMA StackFront ==
  ASSUME NEW stack, StackOK(stack), Len(stack) > 1
  PROVE  /\ StackOK(Front(stack)) /\ Len(Front(stack)) = Len(stack) - 1
         /\ \A i \in 1 .. Len(stack) - 1 : Front(stack)[i] = stack[i]
<1>1. /\ Len(stack) \in Nat \ {0} /\ Front(stack) \in Seq(Frame)
      /\ Len(Front(stack)) = Len(stack) - 1
      /\ \A i \in 1 .. Len(stack) - 1 : Front(stack)[i] = stack[i]
  BY StackTop DEF StackOK
<1> DEFINE front == Front(stack)
<1> HIDE DEF front
<1>2. Len(front) > 0 /\ Len(front) <= MaxFrames /\ front \in Seq(Frame)
  BY <1>1, NamesAssumption DEF StackOK, front
<1>3. StackOK(front)
  BY <1>2, NotEmpty DEF StackOK
<1> QED
  BY <1>1, <1>3 DEF front

\* The stack of c after a step that keeps its lists.
Kept(c, stack) ==
  /\ StackOK(stack) /\ Len(stack) = Len(frames[c])
  /\ SameFrames(frames[c], stack, Len(stack))

\* The stack of c after the end of a list.
Dropped(c, stack) ==
  /\ StackOK(stack) /\ Len(stack) = Len(frames[c]) - 1
  /\ SameFrames(frames[c], stack, Len(stack))

(* A map in which only the entry of c is new.                               *)
Changed(new, old, c, v) ==
  DOMAIN new = DOMAIN old /\ \A d \in DOMAIN old : new[d] = IF d = c THEN v ELSE old[d]

LEMMA StepStack ==
  ASSUME TInv, NEW c \in Live, NEW shell, ShellOK(shell), NEW to, Step(c, shell, to)
  PROVE  \E stack : /\ Kept(c, stack)
                    /\ stack = IF to = "running" THEN Followed(frames[c], shell.fd_changes)
                               ELSE frames[c]
                    /\ Changed(frames', frames, c, stack)
<1> DEFINE stack == IF to = "running" THEN Followed(frames[c], shell.fd_changes) ELSE frames[c]
<1>1. StackOK(frames[c]) /\ DOMAIN frames = Live
  BY DEF TInv, StackOK
<1>2. Changed(frames', frames, c, stack)
  <2>1. CASE to = "running"
    <3>1. frames' = [frames EXCEPT ![c] = stack]
      BY <2>1 DEF Step
    <3> HIDE DEF stack
    <3> QED
      BY <1>1, <3>1 DEF Changed
  <2>2. CASE to # "running"
    BY <1>1, <2>2 DEF Step, Changed
  <2> QED
    BY <2>1, <2>2
<1>3. Kept(c, stack)
  <2>1. CASE to = "running"
    <3>1. stack = Followed(frames[c], shell.fd_changes)
      BY <2>1
    <3> HIDE DEF stack
    <3> QED
      BY <1>1, <3>1, StackFollowed DEF Kept, ShellOK
  <2>2. CASE to # "running"
    BY <1>1, <2>2 DEF Kept, SameFrames
  <2> QED
    BY <2>1, <2>2
<1> HIDE DEF stack
<1>4. stack = IF to = "running" THEN Followed(frames[c], shell.fd_changes) ELSE frames[c]
  BY DEF stack
<1> QED
  BY <1>2, <1>3, <1>4

-----------------------------------------------------------------------------
(* The shape of the state.                                                  *)

(* A step of one shell.                                                     *)
LEMMA OneMovesTyped ==
  ASSUME TInv, Inv', NEW c \in Live, NEW shell, NEW stack, NEW to \in Flows, NEW table \in Table,
         Changed(shells', shells, c, shell), Changed(frames', frames, c, stack),
         Changed(flow', flow, c, to), Changed(wanted', wanted, c, table),
         ShellOK(shell), StackOK(stack), script' = script, umask' \in Masks,
         spent' \in Nat, spent' <= Scripts[script].length,
         c = Main => shell.cwd_override = None /\ shell.umask_override = None
  PROVE  TInv'
<1>1. Live' = Live
  BY DEF Live, Changed
<1>2. DOMAIN frames' = Live' /\ DOMAIN flow' = Live' /\ DOMAIN wanted' = Live'
  BY <1>1 DEF TInv, Changed
<1>3. ASSUME NEW d \in Live'
      PROVE  /\ ShellOK(shells'[d]) /\ StackOK(frames'[d]) /\ flow'[d] \in Flows
             /\ wanted'[d] \in Table
             /\ d = Main => shells'[d].cwd_override = None /\ shells'[d].umask_override = None
  <2>1. CASE d = c
    BY <1>1, <2>1 DEF Changed, TInv, Live
  <2>2. CASE d # c
    BY <1>1, <2>2 DEF Changed, TInv, Live, StackOK
  <2> QED
    BY <2>1, <2>2
<1> QED
  BY <1>2, <1>3 DEF TInv, StackOK

LEMMA RanTyped ==
  ASSUME TInv, Inv', NEW c \in Live, NEW s \in Scripts[script].commands, NEW shell, NEW to,
         Ran(c, s, shell, to)
  PROVE  TInv'
<1>1. /\ Acts(c) /\ Step(c, shell, to) /\ to \in Flows /\ ShellOK(shell) /\ umask' \in Masks
  BY DEF Ran
<1>2. PICK stack : Kept(c, stack) /\ Changed(frames', frames, c, stack)
  BY <1>1, StepStack
<1>3. /\ Changed(shells', shells, c, shell) /\ Changed(flow', flow, c, to)
      /\ script' = script /\ spent' = spent + 1
  BY <1>1 DEF Step, Changed
<1>4. spent' \in Nat /\ spent' <= Scripts[script].length
  <2>1. Scripts[script].length \in Nat /\ spent \in Nat /\ spent < Scripts[script].length
    BY <1>1, ScriptsAssumption DEF TInv, Acts
  <2> QED
    BY <1>3, <2>1
<1>5. c = Main => shell.cwd_override = None /\ shell.umask_override = None
  BY DEF Ran, TInv
<1>6. PICK table \in Table : Changed(wanted', wanted, c, table)
  <2>1. CASE wanted' = wanted
    BY <2>1 DEF TInv, Changed
  <2>2. CASE wanted' = [wanted EXCEPT ![c] = Redirected(@, s.redirects).table]
    <3>1. Redirected(wanted[c], s.redirects).table \in Table
      BY CommandFacts, RedirectedTable DEF TInv
    <3> QED
      BY <2>2, <3>1 DEF TInv, Changed
  <2> QED
    BY <2>1, <2>2 DEF Ran, FilesFollowed
<1> QED
  BY <1>1, <1>2, <1>3, <1>4, <1>5, <1>6, OneMovesTyped DEF Kept

LEMMA EnteredTyped ==
  ASSUME TInv, Inv', NEW c \in Live, NEW shell, NEW frame, NEW redirects, NEW names,
         Entered(c, shell, frame, redirects, names)
  PROVE  TInv'
<1> DEFINE stack == Append(frames[c], frame)
           table == Redirected(wanted[c], redirects).table
           to == flow[c]
<1>1. /\ Changed(shells', shells, c, shell) /\ Changed(frames', frames, c, stack)
      /\ Changed(flow', flow, c, to) /\ Changed(wanted', wanted, c, table)
      /\ script' = script /\ umask' = umask /\ spent' = spent + 1
  BY DEF Entered, Changed, World
<1>2. StackOK(frames[c]) /\ wanted[c] \in Table /\ flow[c] \in Flows /\ umask \in Masks
  BY DEF TInv, StackOK
<1>3. StackOK(stack)
  BY <1>2, StackAppended DEF Entered
<1>4. table \in Table
  BY <1>2, RedirectedTable DEF Entered
<1>5. spent' \in Nat /\ spent' <= Scripts[script].length
  <2>1. Scripts[script].length \in Nat /\ spent \in Nat /\ spent < Scripts[script].length
    BY ScriptsAssumption DEF TInv, Acts, Entered
  <2> QED
    BY <1>1, <2>1
<1>6. c = Main => shell.cwd_override = None /\ shell.umask_override = None
  BY DEF Entered, TInv
<1>7. ShellOK(shell)
  BY DEF Entered
<1> HIDE DEF stack, table, to
<1>8. to \in Flows
  BY <1>2 DEF to
<1> QED
  BY <1>1, <1>2, <1>3, <1>4, <1>5, <1>6, <1>7, <1>8, OneMovesTyped

LEMMA DefinedStep ==
  ASSUME TInv, NEW c \in Live, NEW name, DefineFunction(c, name)
  PROVE  \E shell : /\ Step(c, shell, "running") /\ ShellOK(shell) /\ Acts(c)
                    /\ SameBut(shells[c], shell, {"functions"})
                    /\ UNCHANGED <<cwd, umask, wanted>>
<1> DEFINE shell == [shells[c] EXCEPT !.functions = @ \union {name}]
<1>1. Step(c, shell, "running") /\ Acts(c) /\ UNCHANGED <<cwd, umask, wanted>>
  BY DEF DefineFunction
<1>2. ShellOK(shells[c])
  BY DEF TInv
<1>3. DOMAIN shells[c] = Fields
  BY <1>2 DEF ShellOK
<1>4. SameBut(shells[c], shell, {"functions"})
  BY <1>3 DEF SameBut, Fields
<1> HIDE DEF shell
<1>5. ShellOK(shell)
  BY <1>2, <1>4, ShellChanged
<1> QED
  BY <1>1, <1>4, <1>5

LEMMA DefinedTyped ==
  ASSUME TInv, Inv', NEW c \in Live, NEW name, DefineFunction(c, name)
  PROVE  TInv'
<1>1. PICK shell : /\ Step(c, shell, "running") /\ ShellOK(shell) /\ Acts(c)
                   /\ SameBut(shells[c], shell, {"functions"})
                   /\ UNCHANGED <<cwd, umask, wanted>>
  BY DefinedStep
<1>2. PICK stack : Kept(c, stack) /\ Changed(frames', frames, c, stack)
  BY <1>1, StepStack
<1>3. /\ Changed(shells', shells, c, shell) /\ Changed(flow', flow, c, "running")
      /\ Changed(wanted', wanted, c, wanted[c])
      /\ script' = script /\ spent' = spent + 1 /\ umask' = umask
  BY <1>1 DEF Step, Changed
<1>4. spent' \in Nat /\ spent' <= Scripts[script].length
  <2>1. Scripts[script].length \in Nat /\ spent \in Nat /\ spent < Scripts[script].length
    BY <1>1, ScriptsAssumption DEF TInv, Acts
  <2> QED
    BY <1>3, <2>1
<1>5. c = Main => shell.cwd_override = None /\ shell.umask_override = None
  BY <1>1 DEF SameBut, Fields, TInv
<1>6. wanted[c] \in Table /\ umask \in Masks /\ "running" \in Flows
  BY DEF TInv, Flows
<1> QED
  BY <1>1, <1>2, <1>3, <1>4, <1>5, <1>6, OneMovesTyped DEF Kept

(* The end of a list, reached or unwound.                                   *)
LEMMA LeaveStep ==
  ASSUME TInv, NEW c \in Live, NEW to, Leave(c, to)
  PROVE  /\ Len(frames[c]) > 1
         /\ \E stack : /\ Dropped(c, stack) /\ Changed(frames', frames, c, stack)
                       /\ stack = IF to = "running"
                                    THEN Followed(Front(frames[c]), shells[c].fd_changes)
                                    ELSE Front(frames[c])
         /\ Changed(shells', shells, c, Left(c)) /\ Changed(flow', flow, c, to)
         /\ Changed(wanted', wanted, c, Applied(wanted[c], Top(c).undo))
         /\ UNCHANGED <<ancestors, World, spent>>
<1> DEFINE front == Front(frames[c])
           stack == IF to = "running" THEN Followed(front, shells[c].fd_changes) ELSE front
<1>1. /\ Len(frames[c]) > 1
      /\ Changed(shells', shells, c, Left(c)) /\ Changed(flow', flow, c, to)
      /\ Changed(wanted', wanted, c, Applied(wanted[c], Top(c).undo))
      /\ Changed(frames', frames, c, stack)
      /\ UNCHANGED <<ancestors, World, spent>>
  BY DEF Leave, Changed
<1>2. StackOK(frames[c]) /\ \A fd \in DOMAIN shells[c].fd_changes : shells[c].fd_changes[fd] \in Files
  BY DEF TInv, StackOK, ShellOK
<1>3. /\ StackOK(front) /\ Len(front) = Len(frames[c]) - 1
      /\ \A i \in 1 .. Len(frames[c]) - 1 : front[i] = frames[c][i]
  BY <1>1, <1>2, StackFront
<1> HIDE DEF front
<1>4. Dropped(c, stack)
  <2>1. CASE to = "running"
    <3>1. stack = Followed(front, shells[c].fd_changes)
      BY <2>1
    <3> HIDE DEF stack
    <3>2. StackOK(stack) /\ Len(stack) = Len(front) /\ SameFrames(front, stack, Len(front))
      BY <1>2, <1>3, <3>1, StackFollowed
    <3> QED
      BY <1>3, <3>2 DEF Dropped, SameFrames
  <2>2. CASE to # "running"
    BY <1>3, <2>2 DEF Dropped, SameFrames
  <2> QED
    BY <2>1, <2>2
<1>5. stack = IF to = "running" THEN Followed(Front(frames[c]), shells[c].fd_changes)
              ELSE Front(frames[c])
  BY DEF front
<1> HIDE DEF stack
<1> QED
  BY <1>1, <1>4, <1>5

LEMMA LeaveTyped ==
  ASSUME TInv, Inv', NEW c \in Live, NEW to \in Flows, Leave(c, to)
  PROVE  TInv'
<1>1. /\ Len(frames[c]) > 1
      /\ \E stack : Dropped(c, stack) /\ Changed(frames', frames, c, stack)
      /\ Changed(shells', shells, c, Left(c)) /\ Changed(flow', flow, c, to)
      /\ Changed(wanted', wanted, c, Applied(wanted[c], Top(c).undo))
      /\ UNCHANGED <<ancestors, World, spent>>
  BY LeaveStep
<1>2. PICK stack : Dropped(c, stack) /\ Changed(frames', frames, c, stack)
  BY <1>1
<1>3. /\ ShellOK(Left(c)) /\ Top(c) \in Frame
      /\ \A f \in {"fd_changes", "cwd_override", "umask_override"} : Left(c)[f] = shells[c][f]
  BY <1>1, LeftFacts
<1>4. Applied(wanted[c], Top(c).undo) \in Table
  <2>1. \A fd \in DOMAIN Top(c).undo : Top(c).undo[fd] \in Files
    BY <1>3, PartialFunctions DEF Frame
  <2> QED
    BY <2>1, AppliedTable DEF TInv
<1>5. c = Main => Left(c).cwd_override = None /\ Left(c).umask_override = None
  BY <1>3 DEF TInv
<1>6. /\ script' = script /\ umask' \in Masks /\ spent' \in Nat
      /\ spent' <= Scripts[script].length
  BY <1>1 DEF World, TInv
<1> QED
  BY <1>1, <1>2, <1>3, <1>4, <1>5, <1>6, OneMovesTyped DEF Dropped

LEMMA NextListStep ==
  ASSUME TInv, NEW c \in Live, NextList(c)
  PROVE  \E stack : /\ Kept(c, stack) /\ Changed(frames', frames, c, stack)
                    /\ \A i \in 1 .. Len(stack) - 1 : stack[i] = frames[c][i]
                    /\ stack[Len(stack)].local = None
<1> DEFINE top == Last(frames[c])
           new == [top EXCEPT !.local = None]
           front == Front(frames[c])
           stack == Append(front, new)
<1>1. Changed(frames', frames, c, stack)
  BY DEF NextList, Changed
<1>2. /\ StackOK(frames[c]) /\ Len(frames[c]) \in Nat \ {0} /\ top \in Frame
      /\ top = frames[c][Len(frames[c])]
      /\ front \in Seq(Frame) /\ Len(front) = Len(frames[c]) - 1
      /\ \A i \in 1 .. Len(frames[c]) - 1 : front[i] = frames[c][i]
  BY StackTop DEF TInv, StackOK
<1>3. /\ new \in Frame /\ new.local = None
      /\ \A f \in Stable : new[f] = top[f]
  BY <1>2 DEF Frame, Stable
<1> HIDE DEF new, top, front
<1>4. /\ stack \in Seq(Frame) /\ stack # <<>> /\ Len(stack) = Len(frames[c])
      /\ \A i \in 1 .. Len(stack) - 1 : stack[i] = frames[c][i]
      /\ stack[Len(stack)] = new
  BY <1>2, <1>3, Appended
<1> HIDE DEF stack
<1>5. Kept(c, stack)
  BY <1>2, <1>3, <1>4 DEF Kept, StackOK, SameFrames
<1> QED
  BY <1>1, <1>3, <1>4, <1>5

LEMMA NextListTyped ==
  ASSUME TInv, Inv', NEW c \in Live, NextList(c)
  PROVE  TInv'
<1>1. PICK stack : Kept(c, stack) /\ Changed(frames', frames, c, stack)
  BY NextListStep
<1>2. /\ Changed(shells', shells, c, shells[c]) /\ Changed(flow', flow, c, flow[c])
      /\ Changed(wanted', wanted, c, wanted[c])
      /\ script' = script /\ spent' = spent /\ umask' = umask
  BY DEF NextList, World, Changed
<1>3. /\ flow[c] \in Flows /\ wanted[c] \in Table /\ umask \in Masks /\ spent \in Nat
      /\ spent <= Scripts[script].length /\ ShellOK(shells[c])
      /\ c = Main => shells[c].cwd_override = None /\ shells[c].umask_override = None
  BY DEF TInv
<1> QED
  BY <1>1, <1>2, <1>3, OneMovesTyped DEF Kept

LEMMA LineFrame ==
  ASSUME NEW table \in Table
  PROVE  /\ List("list", table) \in Frame
         /\ List("list", table).base = table /\ List("list", table).local = None
         /\ List("list", table).saved = <<>> /\ List("list", table).undo = <<>>
         /\ StackOK(<< List("list", table) >>)
<1>1. List("list", table) \in Frame
  <2>1. <<>> \in Partial(Names, Variable) /\ <<>> \in Partial(Fds, Files) /\ <<>> \in Words
    BY PartialFunctions DEF Words
  <2> DEFINE none == <<>>
  <2> HIDE DEF none
  <2>2. List("list", table) = [kind |-> "list", base |-> table, local |-> None, saved |-> none,
                               positional |-> none, path |-> None, undo |-> none]
    BY DEF List, none
  <2> QED
    BY <2>1, <2>2 DEF Frame, none
<1>2. /\ List("list", table).base = table /\ List("list", table).local = None
      /\ List("list", table).saved = <<>> /\ List("list", table).undo = <<>>
  BY DEF List
<1> DEFINE frame == List("list", table)
<1> HIDE DEF frame
<1>3. <<frame>> \in Seq(Frame) /\ <<frame>> # <<>> /\ Len(<<frame>>) = 1
  BY <1>1 DEF frame
<1>4. StackOK(<<frame>>)
  BY <1>3, NamesAssumption DEF StackOK
<1> QED
  BY <1>1, <1>2, <1>4 DEF frame

LEMMA EndLineStep ==
  ASSUME TInv, EndLine
  PROVE  \E shell : /\ Changed(shells', shells, Main, shell) /\ ShellOK(shell)
                    /\ SameBut(shells[Main], shell, {"fd_changes"})
                    /\ shell.fd_changes = <<>>
<1> DEFINE shell == [shells[Main] EXCEPT !.fd_changes = <<>>]
<1>1. ShellOK(shells[Main])
  BY DEF TInv, Inv
<1>2. DOMAIN shells[Main] = Fields
  BY <1>1 DEF ShellOK
<1>3. Changed(shells', shells, Main, shell)
  BY DEF EndLine, Changed
<1>4. SameBut(shells[Main], shell, {"fd_changes"}) /\ shell.fd_changes = <<>>
  BY <1>2 DEF SameBut, Fields
<1> HIDE DEF shell
<1>5. ShellOK(shell)
  <2>1. /\ DOMAIN shell = Fields /\ shell.vars = shells[Main].vars
        /\ shell.positional = shells[Main].positional /\ shell.options = shells[Main].options
        /\ shell.cwd_override = shells[Main].cwd_override
        /\ shell.umask_override = shells[Main].umask_override
        /\ shell.path_override = shells[Main].path_override /\ shell.cache = shells[Main].cache
    BY <1>4 DEF SameBut, Fields
  <2>2. DOMAIN <<>> = {}
    OBVIOUS
  <2>3. \A fd \in DOMAIN shell.fd_changes : shell.fd_changes[fd] \in Files
    BY <1>4, <2>2
  <2> QED
    BY <1>1, <2>1, <2>3 DEF ShellOK
<1> QED
  BY <1>3, <1>4, <1>5

LEMMA EndLineTyped ==
  ASSUME TInv, Inv', EndLine
  PROVE  TInv'
<1>1. PICK shell : /\ Changed(shells', shells, Main, shell) /\ ShellOK(shell)
                   /\ SameBut(shells[Main], shell, {"fd_changes"})
  BY EndLineStep
<1> DEFINE table == Applied(Head(frames[Main]).base, shells[Main].fd_changes)
           stack == << List("list", table) >>
<1>2. Main \in Live /\ ShellOK(shells[Main]) /\ frames[Main] \in Seq(Frame) /\ frames[Main] # <<>>
  BY DEF TInv, Inv
<1>3. table \in Table
  <2>1. Head(frames[Main]) \in Frame
    BY <1>2, HeadTailProperties
  <2>2. Head(frames[Main]).base \in Table
    BY <2>1 DEF Frame
  <2> QED
    BY <1>2, <2>2, AppliedTable DEF ShellOK
<1>4. /\ Changed(frames', frames, Main, stack) /\ Changed(flow', flow, Main, "running")
      /\ Changed(wanted', wanted, Main, wanted[Main])
      /\ script' = script /\ spent' = spent /\ umask' = umask
  BY DEF EndLine, Changed, World
<1> HIDE DEF table
<1>5. StackOK(stack)
  BY <1>3, LineFrame
<1>6. /\ wanted[Main] \in Table /\ umask \in Masks /\ spent \in Nat
      /\ spent <= Scripts[script].length /\ "running" \in Flows
  BY <1>2 DEF TInv, Flows
<1>7. shell.cwd_override = None /\ shell.umask_override = None
  BY <1>1, <1>2 DEF TInv, SameBut, Fields
<1> HIDE DEF stack
<1> QED
  BY <1>1, <1>2, <1>4, <1>5, <1>6, <1>7, OneMovesTyped

LEMMA CopiedFacts ==
  ASSUME TInv, NEW c \in Live
  PROVE  /\ ShellOK(Copied(shells[c]))
         /\ SameBut(shells[c], Copied(shells[c]), {"fd_changes", "cwd_override"})
         /\ Copied(shells[c]).fd_changes = <<>>
         /\ Copied(shells[c]).cwd_override \in {shells[c].cwd_override, cwd}
<1> DEFINE dir == IF shells[c].cwd_override = None /\ cwd \in dirs THEN cwd
                  ELSE shells[c].cwd_override
           copy == [shells[c] EXCEPT !.fd_changes = <<>>, !.cwd_override = dir]
<1>1. ShellOK(shells[c]) /\ cwd \in DirNames
  BY DEF TInv, Inv
<1>2. dir \in Absolute \union {None} /\ dir \in {shells[c].cwd_override, cwd}
  BY <1>1, AbsolutePaths DEF ShellOK
<1>3. Copied(shells[c]) = copy
  BY DEF Copied
<1>4. DOMAIN shells[c] = Fields
  BY <1>1 DEF ShellOK
<1> HIDE DEF dir
<1>5. /\ SameBut(shells[c], copy, {"fd_changes", "cwd_override"})
      /\ copy.fd_changes = <<>> /\ copy.cwd_override = dir
  BY <1>4 DEF SameBut, Fields
<1> HIDE DEF copy
<1>6. ShellOK(copy)
  <2>1. /\ DOMAIN copy = Fields /\ copy.vars = shells[c].vars
        /\ copy.positional = shells[c].positional /\ copy.options = shells[c].options
        /\ copy.umask_override = shells[c].umask_override
        /\ copy.path_override = shells[c].path_override /\ copy.cache = shells[c].cache
    BY <1>5 DEF SameBut, Fields
  <2>2. DOMAIN <<>> = {}
    OBVIOUS
  <2>3. \A fd \in DOMAIN copy.fd_changes : copy.fd_changes[fd] \in Files
    BY <1>5, <2>2
  <2> QED
    BY <1>1, <1>2, <1>5, <2>1, <2>3 DEF ShellOK
<1> QED
  BY <1>2, <1>3, <1>5, <1>6

\* The maps of the live shells with one more.
Added(new, old, e, v) ==
  DOMAIN new = Live \union {e} /\ \A d \in Live \union {e} : new[d] = IF d = e THEN v ELSE old[d]

LEMMA StartStep ==
  ASSUME NEW c, NEW e, StartCopy(c, e)
  PROVE  /\ c \in Live /\ e \in Copies \ Live /\ flow[c] = "running"
         /\ spent < Scripts[script].length
         /\ Added(shells', shells, e, Copied(shells[c]))
         /\ Added(ancestors', ancestors, e, ancestors[c] \union {c})
         /\ Added(frames', frames, e, << List("list", Current(c)) >>)
         /\ Added(flow', flow, e, "running")
         /\ Added(wanted', wanted, e, wanted[c])
         /\ spent' = spent + 1 /\ UNCHANGED World
         /\ Live' = Live \union {e}
<1>1. /\ c \in Live /\ e \in Copies \ Live /\ flow[c] = "running"
      /\ spent < Scripts[script].length
      /\ spent' = spent + 1 /\ UNCHANGED World
  BY DEF StartCopy
<1>2. /\ Added(shells', shells, e, Copied(shells[c]))
      /\ Added(ancestors', ancestors, e, ancestors[c] \union {c})
      /\ Added(frames', frames, e, << List("list", Current(c)) >>)
      /\ Added(flow', flow, e, "running")
      /\ Added(wanted', wanted, e, wanted[c])
  BY DEF StartCopy, Added
<1>3. Live' = Live \union {e}
  BY <1>2 DEF Added, Live
<1> QED
  BY <1>1, <1>2, <1>3

LEMMA StartTyped ==
  ASSUME TInv, Inv', NEW c, NEW e, StartCopy(c, e)
  PROVE  TInv'
<1> DEFINE stack == << List("list", Current(c)) >>
<1>1. /\ c \in Live /\ e \in Copies \ Live /\ spent < Scripts[script].length
      /\ Added(shells', shells, e, Copied(shells[c]))
      /\ Added(frames', frames, e, stack)
      /\ Added(flow', flow, e, "running")
      /\ Added(wanted', wanted, e, wanted[c])
      /\ spent' = spent + 1 /\ script' = script /\ umask' = umask
      /\ Live' = Live \union {e}
  BY StartStep DEF World
<1>2. /\ ShellOK(Copied(shells[c])) /\ wanted[c] \in Table /\ "running" \in Flows
      /\ e # Main
  BY <1>1, CopiedFacts, ShellsAssumption DEF TInv, Flows
<1>3. StackOK(stack)
  <2>1. frames[c] \in Seq(Frame) /\ frames[c] # <<>>
    BY <1>1 DEF TInv
  <2>2. Current(c) \in Table
    BY <2>1, StackTop, CurrentTable DEF Current, Top
  <2> QED
    BY <2>2, LineFrame
<1> HIDE DEF stack
<1>4. spent' \in Nat /\ spent' <= Scripts[script].length
  <2>1. Scripts[script].length \in Nat /\ spent \in Nat
    BY ScriptsAssumption DEF TInv
  <2> QED
    BY <1>1, <2>1
<1>5. ASSUME NEW d \in Live'
      PROVE  /\ ShellOK(shells'[d]) /\ StackOK(frames'[d]) /\ flow'[d] \in Flows
             /\ wanted'[d] \in Table
             /\ d = Main => shells'[d].cwd_override = None /\ shells'[d].umask_override = None
  <2>1. CASE d = e
    BY <1>1, <1>2, <1>3, <2>1 DEF Added
  <2>2. CASE d # e
    BY <1>1, <2>2 DEF Added, TInv, StackOK
  <2> QED
    BY <2>1, <2>2
<1>6. DOMAIN frames' = Live' /\ DOMAIN flow' = Live' /\ DOMAIN wanted' = Live'
  BY <1>1 DEF Added
<1> QED
  BY <1>1, <1>4, <1>5, <1>6 DEF TInv, StackOK

LEMMA EndStep ==
  ASSUME NEW e, EndCopy(e)
  PROVE  /\ e \in Live \ {Main} /\ Live' = Live \ {e}
         /\ \A d \in Live' : /\ shells'[d] = shells[d] /\ frames'[d] = frames[d]
                             /\ flow'[d] = flow[d] /\ wanted'[d] = wanted[d]
         /\ DOMAIN frames' = Live' /\ DOMAIN flow' = Live' /\ DOMAIN wanted' = Live'
         /\ UNCHANGED <<World, spent>>
BY DEF EndCopy, Live

LEMMA EndTyped ==
  ASSUME TInv, Inv', NEW e, EndCopy(e)
  PROVE  TInv'
BY EndStep DEF TInv, World

(* The main shell at the start.                                             *)
LEMMA InitTInv ==
  ASSUME Init
  PROVE  TInv
<1>1. Inv /\ script \in DOMAIN Scripts /\ umask \in Masks /\ spent = 0
  BY InitInv DEF Init
<1>2. PICK env \in Environments :
        shells = [c \in {Main} |->
                   [vars |-> InitPwd(env, cwd, dirs), positional |-> <<>>, functions |-> {},
                    aliases |-> {}, options |-> {}, cwd_override |-> None,
                    umask_override |-> None, path_override |-> None,
                    fd_changes |-> <<>>, cache |-> EmptyCache]]
  BY DEF Init
<1> DEFINE table == InitPwd(env, cwd, dirs)
<1>3. table \in Tables
  <2>1. env \in Tables /\ cwd \in Seq(STRING)
    BY <1>1, EnvironmentAssumption, DirectoriesAssumption DEF Tables, Inv
  <2>2. Assigned(env, "PWD", cwd) \in Tables
    BY <2>1, AssignedTable
  <2>3. ExportedAll(Assigned(env, "PWD", cwd), {"PWD"}) \in Tables
    BY <2>2, ExportedTable
  <2> QED
    BY <2>1, <2>3 DEF InitPwd
<1> HIDE DEF table
<1>4. CacheOK(EmptyCache)
  <2>1. EmptyCache.path = <<>> /\ EmptyCache.found = <<>> /\ DOMAIN EmptyCache = {"path", "found"}
    BY DEF EmptyCache
  <2>2. <<>> \in Seq(STRING) /\ DOMAIN <<>> = {}
    OBVIOUS
  <2> QED
    BY <2>1, <2>2 DEF CacheOK
<1>5. ShellOK(shells[Main]) /\ shells[Main].cwd_override = None /\ shells[Main].umask_override = None
  <2> DEFINE none == <<>>
  <2>1. none \in Words /\ DOMAIN none = {}
    BY DEF Words
  <2> HIDE DEF none
  <2>2. shells[Main] = [vars |-> table, positional |-> none, functions |-> {},
                        aliases |-> {}, options |-> {}, cwd_override |-> None,
                        umask_override |-> None, path_override |-> None,
                        fd_changes |-> none, cache |-> EmptyCache]
    BY <1>2 DEF table, none
  <2> QED
    BY <1>3, <1>4, <2>1, <2>2 DEF ShellOK, Fields
<1>6. Terminal \in Table
  BY NamesAssumption DEF Terminal, Table
<1>7. StackOK(<< List("list", Terminal) >>)
  BY <1>6, LineFrame
<1>8. Live = {Main} /\ DOMAIN frames = {Main} /\ DOMAIN flow = {Main} /\ DOMAIN wanted = {Main}
  BY DEF Init, Live
<1>9. frames[Main] = << List("list", Terminal) >> /\ flow[Main] = "running" /\ wanted[Main] = Terminal
  BY DEF Init
<1>10. spent \in Nat /\ spent <= Scripts[script].length
  BY <1>1, ScriptsAssumption
<1> QED
  BY <1>1, <1>5, <1>6, <1>7, <1>8, <1>9, <1>10 DEF TInv, StackOK, Flows

(* Every step is one of these.                                              *)
Commands == Scripts[script].commands

Entering(c) ==
  \/ \E redirects, frame : Entered(c, shells[c], frame, redirects, {})
  \/ \E s \in Commands : \E shell, frame :
       Entered(c, shell, frame, s.redirects, AssignedNames(s))

Outside ==
  /\ UNCHANGED <<script, shells, ancestors, frames, flow, cwd, umask, wanted>>
  /\ dirs' \subseteq dirs
  /\ spent' \in Nat /\ spent' <= Scripts[script].length

LEMMA OutsideStep ==
  ASSUME TInv,
         \/ \E dir \in DirNames : RemoveDir(dir)
         \/ \E file, kind : ChangeFile(file, kind)
         \/ UNCHANGED vars
  PROVE  Outside
<1>1. CASE \E dir \in DirNames : RemoveDir(dir)
  BY <1>1 DEF RemoveDir, Outside, TInv
<1>2. CASE \E file, kind : ChangeFile(file, kind)
  <2>1. /\ UNCHANGED <<script, shells, ancestors, frames, flow, cwd, umask, dirs, wanted>>
        /\ spent < Scripts[script].length /\ spent' = spent + 1
    BY <1>2 DEF ChangeFile
  <2>2. Scripts[script].length \in Nat /\ spent \in Nat
    BY ScriptsAssumption DEF TInv
  <2> QED
    BY <2>1, <2>2 DEF Outside
<1>3. CASE UNCHANGED vars
  BY <1>3 DEF vars, Outside, TInv
<1> QED
  BY <1>1, <1>2, <1>3

LEMMA Cases ==
  ASSUME TInv, [Next]_vars
  PROVE  \/ \E c \in Live : \/ \E s \in Commands : \E shell, to : Ran(c, s, shell, to)
                            \/ Entering(c)
                            \/ \E name : DefineFunction(c, name)
                            \/ \E to \in Flows : Leave(c, to)
                            \/ NextList(c)
                            \/ \E e : StartCopy(c, e)
                            \/ EndCopy(c)
         \/ EndLine
         \/ Outside
<1>1. ASSUME NEW c \in Live, Simple(c)
      PROVE  (\E s \in Commands : \E shell, to : Ran(c, s, shell, to)) \/ Entering(c)
  <2>1. PICK s \in Commands :
          RedirectRefused(c, s) \/ AssignmentRefused(c, s) \/ Assign(c, s) \/ Builtin(c, s)
          \/ Program(c, s) \/ Call(c, s) \/ Eval(c, s)
    BY <1>1 DEF Simple, Commands
  <2>2. s \in Scripts[script].commands
    BY DEF Commands
  <2>3. CASE RedirectRefused(c, s)
    BY <2>2, <2>3, RedirectRefusedRan
  <2>4. CASE AssignmentRefused(c, s)
    BY <2>2, <2>4, AssignmentRefusedRan
  <2>5. CASE Assign(c, s)
    BY <2>2, <2>5, AssignRan
  <2>6. CASE Builtin(c, s)
    BY <2>2, <2>6, BuiltinRan
  <2>7. CASE Program(c, s)
    BY <2>2, <2>7, ProgramRan
  <2>8. CASE Call(c, s) \/ Eval(c, s)
    BY <2>2, <2>8, CallEntered DEF Entering
  <2> QED
    BY <2>1, <2>3, <2>4, <2>5, <2>6, <2>7, <2>8
<1>2. ASSUME NEW c \in Live, NEW redirects \in Scripts[script].groups, Group(c, redirects)
      PROVE  Entering(c)
  BY <1>2, GroupEntered DEF Entering
<1>3. ASSUME NEW c \in Live, EndList(c) \/ Unwind(c)
      PROVE  \E to \in Flows : Leave(c, to)
  <2>1. CASE EndList(c)
    BY <2>1 DEF EndList, Flows
  <2>2. CASE Unwind(c)
    <3> DEFINE to == IF flow[c] = "return" /\ Top(c).kind = "call" THEN "running" ELSE flow[c]
    <3>1. Leave(c, to) /\ to \in Flows
      BY <2>2 DEF Unwind, TInv, Flows
    <3> QED
      BY <3>1
  <2> QED
    BY <1>3, <2>1, <2>2
<1>4. CASE \/ \E dir \in DirNames : RemoveDir(dir)
           \/ \E file, kind : ChangeFile(file, kind)
           \/ UNCHANGED vars
  BY <1>4, OutsideStep
<1>5. CASE EndLine
  BY <1>5
<1>6. CASE \E c \in Live : \/ Simple(c)
                           \/ \E redirects \in Scripts[script].groups : Group(c, redirects)
                           \/ \E name \in Scripts[script].functions : DefineFunction(c, name)
                           \/ NextList(c) \/ EndList(c) \/ Unwind(c)
                           \/ \E e \in Copies : StartCopy(c, e)
                           \/ EndCopy(c)
  BY <1>1, <1>2, <1>3, <1>6
<1> QED
  BY <1>4, <1>5, <1>6 DEF Next

LEMMA EnteringTyped ==
  ASSUME TInv, Inv', NEW c \in Live, Entering(c)
  PROVE  TInv'
BY EnteredTyped DEF Entering

LEMMA NextTInv ==
  ASSUME TInv, [Next]_vars
  PROVE  TInv'
<1>1. Inv'
  BY NextInv DEF TInv
<1>2. CASE \E c \in Live : \E s \in Commands : \E shell, to : Ran(c, s, shell, to)
  BY <1>1, <1>2, RanTyped DEF Commands
<1>3. CASE \E c \in Live : Entering(c)
  BY <1>1, <1>3, EnteringTyped
<1>4. CASE \E c \in Live : \E name : DefineFunction(c, name)
  BY <1>1, <1>4, DefinedTyped
<1>5. CASE \E c \in Live : \E to \in Flows : Leave(c, to)
  BY <1>1, <1>5, LeaveTyped
<1>6. CASE \E c \in Live : NextList(c)
  BY <1>1, <1>6, NextListTyped
<1>7. CASE \E c \in Live : \E e : StartCopy(c, e)
  BY <1>1, <1>7, StartTyped
<1>8. CASE \E c \in Live : EndCopy(c)
  BY <1>1, <1>8, EndTyped
<1>9. CASE EndLine
  BY <1>1, <1>9, EndLineTyped
<1>10. CASE Outside
  BY <1>1, <1>10 DEF Outside, TInv, Live
<1> QED
  BY <1>2, <1>3, <1>4, <1>5, <1>6, <1>7, <1>8, <1>9, <1>10, Cases

-----------------------------------------------------------------------------
(* The theorems.                                                            *)

(* For every script, any environments and any number of copies: the shells, *)
(* their frames and their files have the shape that the types of the code   *)
(* give them (shell.rs `Shell', vars.rs `Variable').                        *)
THEOREM TypeCorrect == Spec => []TypeOK
<1>1. TInv => TypeOK
  <2> SUFFICES ASSUME TInv PROVE TypeOK
    OBVIOUS
  <2>1. /\ Main \in Live /\ Live \subseteq {Main} \union Copies
        /\ DOMAIN ancestors = Live /\ DOMAIN frames = Live /\ DOMAIN flow = Live
        /\ DOMAIN wanted = Live
        /\ cwd \in DirNames /\ umask \in Masks /\ dirs \subseteq DirNames
    BY DEF TInv, Inv
  <2>2. spent \in 0 .. Scripts[script].length
    BY ScriptsAssumption DEF TInv
  <2>3. ASSUME NEW c \in Live
        PROVE  /\ shells[c].vars \in [Names -> Variable]
               /\ shells[c].positional \in Seq(Seq(STRING))
               /\ shells[c].options \subseteq Letters \union {"pipefail"}
               /\ shells[c].umask_override \in Masks \union {None}
               /\ c = Main => shells[c].cwd_override = None /\ shells[c].umask_override = None
               /\ flow[c] \in {"running", "return", "error"}
               /\ frames[c] # <<>> /\ Len(frames[c]) <= MaxFrames
               /\ \A i \in DOMAIN frames[c] : frames[c][i].base \in Table
               /\ wanted[c] \in Table
    <3>1. ShellOK(shells[c]) /\ frames[c] \in Seq(Frame)
      BY DEF TInv
    <3>2. ASSUME NEW i \in DOMAIN frames[c] PROVE frames[c][i].base \in Table
      <4>1. frames[c][i] \in Frame
        BY <3>1
      <4> QED
        BY <4>1 DEF Frame
    <3>3. flow[c] \in {"running", "return", "error"}
      BY DEF TInv, Flows
    <3> QED
      BY <3>1, <3>2, <3>3 DEF TInv, ShellOK, Tables, Words, AllLetters
  <2> QED
    BY <2>1, <2>2, <2>3 DEF TypeOK
<1> QED
  BY <1>1, InitTInv, NextTInv, PTL DEF Spec

(* For every script: whatever a shell runs, a variable that is read only    *)
(* keeps its value and stays read only, unless the list that ends had the   *)
(* variable assigned in front of it (vars.rs: every way to a value asks).   *)
THEOREM ReadonlyIsKept == Spec => ReadonlyStays
<1> DEFINE Keeps(c, n) ==
             shells[c].vars[n].readonly =>
               \/ /\ shells'[c].vars[n].readonly
                  /\ shells'[c].vars[n].value = shells[c].vars[n].value
               \/ Len(frames'[c]) < Len(frames[c]) /\ n \in DOMAIN Top(c).saved
<1>1. ASSUME TInv, NEW c \in Live, c \in Live', NEW n \in Names,
             \/ shells'[c] = shells[c]
             \/ \E assigned, marked : Carried(shells[c].vars, shells'[c].vars, assigned, marked)
             \/ shells'[c].vars = shells[c].vars
      PROVE  Keeps(c, n)
  BY <1>1 DEF Carried
<1>2. ASSUME TInv, [Next]_vars, NEW c \in Live, c \in Live', NEW n \in Names
      PROVE  Keeps(c, n)
  <2>1. ASSUME NEW d \in Live, NEW shell, shells' = [shells EXCEPT ![d] = shell],
               \/ \E assigned, marked : Carried(shells[d].vars, shell.vars, assigned, marked)
               \/ shell.vars = shells[d].vars
        PROVE  Keeps(c, n)
    <3>1. CASE c = d
      <4>1. shells'[c] = shell
        BY <2>1, <3>1 DEF Live
      <4> QED
        BY <1>1, <1>2, <2>1, <3>1, <4>1
    <3>2. CASE c # d
      <4>1. shells'[c] = shells[c]
        BY <2>1, <3>2
      <4> QED
        BY <1>1, <1>2, <4>1
    <3> QED
      BY <3>1, <3>2
  <2>2. CASE \E d \in Live : \E s \in Commands : \E shell, to : Ran(d, s, shell, to)
    <3>0. PICK d \in Live, s \in Commands : \E shell, to : Ran(d, s, shell, to)
      BY <2>2
    <3>1. PICK shell, to : Ran(d, s, shell, to)
      BY <3>0
    <3>2. /\ shells' = [shells EXCEPT ![d] = shell]
          /\ Carried(shells[d].vars, shell.vars, LastingNames(s), LastingMarks(s))
      BY <3>1 DEF Ran, Step
    <3> QED
      BY <2>1, <3>2
  <2>3. CASE \E d \in Live : Entering(d)
    <3>0. PICK d \in Live : Entering(d)
      BY <2>3
    <3>1. PICK shell, frame, redirects, names : Entered(d, shell, frame, redirects, names)
      BY <3>0 DEF Entering
    <3>2. /\ shells' = [shells EXCEPT ![d] = shell]
          /\ Carried(shells[d].vars, shell.vars, names, names)
      BY <3>1 DEF Entered
    <3> QED
      BY <2>1, <3>2
  <2>4. CASE \E d \in Live : \E name : DefineFunction(d, name)
    <3>1. PICK d \in Live : \E name : DefineFunction(d, name)
      BY <2>4
    <3>2. PICK shell : Step(d, shell, "running") /\ SameBut(shells[d], shell, {"functions"})
      BY <1>2, <3>1, DefinedStep
    <3>3. shells' = [shells EXCEPT ![d] = shell] /\ shell.vars = shells[d].vars
      BY <3>2 DEF Step, SameBut, Fields
    <3> QED
      BY <2>1, <3>3
  <2>5. CASE \E d \in Live : \E to \in Flows : Leave(d, to)
    <3>1. PICK d \in Live, to \in Flows : Leave(d, to)
      BY <2>5
    <3>2. PICK stack : Dropped(d, stack) /\ Changed(frames', frames, d, stack)
      BY <1>2, <3>1, LeaveStep
    <3>3. Changed(shells', shells, d, Left(d)) /\ Len(frames[d]) > 1
      BY <1>2, <3>1, LeaveStep
    <3>4. Left(d).vars = Restored(shells[d].vars, Top(d).saved)
      BY <1>2, <3>3, LeftFacts
    <3>5. DOMAIN frames = Live /\ Len(frames[d]) \in Nat /\ ShellOK(shells[d])
      BY <1>2 DEF TInv
    <3>6. CASE c = d
      <4>1. shells'[c].vars = Restored(shells[c].vars, Top(c).saved)
        BY <3>3, <3>4, <3>6 DEF Changed, Live
      <4>2. Len(frames'[c]) = Len(frames[c]) - 1
        BY <3>2, <3>5, <3>6 DEF Dropped, Changed
      <4>3. n \in DOMAIN shells[c].vars
        BY <3>5, <3>6 DEF ShellOK, Tables
      <4> QED
        BY <3>5, <3>6, <4>1, <4>2, <4>3 DEF Restored
    <3>7. CASE c # d
      <4>1. shells'[c] = shells[c]
        BY <3>3, <3>7 DEF Changed, Live
      <4> QED
        BY <1>1, <1>2, <4>1
    <3> QED
      BY <3>6, <3>7
  <2>6. CASE \E d \in Live : \E e : StartCopy(d, e)
    <3>1. shells'[c] = shells[c]
      BY <2>6, StartStep DEF Added
    <3> QED
      BY <1>1, <1>2, <3>1
  <2>7. CASE \E d \in Live : EndCopy(d)
    <3>1. shells'[c] = shells[c]
      BY <1>2, <2>7, EndStep
    <3> QED
      BY <1>1, <1>2, <3>1
  <2>8. CASE EndLine
    <3>1. PICK shell : /\ Changed(shells', shells, Main, shell)
                       /\ SameBut(shells[Main], shell, {"fd_changes"})
      BY <1>2, <2>8, EndLineStep
    <3>2. shells'[c].vars = shells[c].vars
      BY <3>1 DEF SameBut, Fields, Changed, Live
    <3> QED
      BY <1>1, <1>2, <3>2
  <2>9. CASE Outside \/ \E d \in Live : NextList(d)
    <3>1. shells'[c] = shells[c]
      BY <2>9 DEF Outside, NextList
    <3> QED
      BY <1>1, <1>2, <3>1
  <2> HIDE DEF Keeps
  <2> QED
    BY <1>2, <2>2, <2>3, <2>4, <2>5, <2>6, <2>7, <2>8, <2>9, Cases
<1>3. TInv /\ [Next]_vars => [\A c \in Live \intersect Live' : \A n \in Names : Keeps(c, n)]_vars
  <2> HIDE DEF Keeps
  <2> QED
    BY <1>2
<1> QED
  BY <1>3, InitTInv, NextTInv, PTL DEF Spec, ReadonlyStays

(* For every search path and whatever a cache holds: a search finds a       *)
(* program exactly if the path has one that can run now, and one of those   *)
(* (path.rs `PathCache::lookup').                                           *)
THEOREM LookupIsSound == Spec => []LookupSound
<1>1. TInv => LookupSound
  <2> SUFFICES ASSUME TInv, NEW c \in Live, NEW name \in Programs,
                      NEW path \in {SearchPath(shells[c]), PathOf(shells[c])}
               PROVE  LET shell == shells[c]
                          found == Looked(shell, name, path)
                          runs(entry) == LET place == Place(Here(shell), entry, name)
                                         IN place \in DOMAIN files /\ files[place] = "program"
                      IN /\ (found.kind = "found") <=> \E entry \in ToSet(path) : runs(entry)
                         /\ found.kind = "found" => runs(found.entry) /\ found.entry \in ToSet(path)
    BY DEF LookupSound
  <2> DEFINE shell == shells[c]
             found == Looked(shell, name, path)
             runs(entry) == LET place == Place(Here(shell), entry, name)
                            IN place \in DOMAIN files /\ files[place] = "program"
             programs == Holding(shell, name, path, {"program"})
  <2>1. ShellOK(shell)
    BY DEF TInv
  <2>2. CacheOK(shell.cache) /\ path \in Seq(STRING)
    BY <2>1, SearchPathTyped DEF ShellOK
  <2>3. /\ \A entry \in programs : runs(entry)
        /\ \A entry \in ToSet(path) : runs(entry) => entry \in programs
    BY DEF Holding
  <2>4. /\ found.kind = "found" => found.entry \in programs /\ found.entry \in ToSet(path)
        /\ found.kind # "found" => \A entry \in ToSet(path) : entry \notin programs
    <3> HIDE DEF shell
    <3> QED
      BY <2>2, LookupFacts DEF Looked
  <2> HIDE DEF programs, found, runs
  <2>5. /\ (found.kind = "found") <=> \E entry \in ToSet(path) : runs(entry)
        /\ found.kind = "found" => runs(found.entry) /\ found.entry \in ToSet(path)
    BY <2>3, <2>4
  <2> QED
    BY <2>5 DEF found, runs
<1> QED
  BY <1>1, InitTInv, NextTInv, PTL DEF Spec

-----------------------------------------------------------------------------
(* The assignments in front of a command.                                   *)

(* A temporary variable that no list of the shell has put aside is not set, *)
(* and the outermost list that has put it aside keeps that it was not.  The *)
(* list of the line itself has put nothing aside, and the one in it keeps   *)
(* that there was no search path of `command -p'.                           *)
PutAside(n, stack, i) ==
  n \in DOMAIN stack[i].saved /\ \A j \in 1 .. i - 1 : n \notin DOMAIN stack[j].saved

Undone(shell, stack) ==
  /\ \A n \in Temporary :
       (\A i \in 1 .. Len(stack) : n \notin DOMAIN stack[i].saved) => shell.vars[n] = Absent
  /\ \A n \in Temporary : \A i \in 1 .. Len(stack) :
       PutAside(n, stack, i) => stack[i].saved[n] = Absent
  /\ Len(stack) = 1 => shell.path_override = None
  /\ Len(stack) > 1 => stack[2].path = None
  /\ DOMAIN stack[1].saved = {}

PrefixInv == Undone(shells[Main], frames[Main])

(* A command gives a temporary variable no lasting value.                   *)
LEMMA NothingLasts ==
  ASSUME script \in DOMAIN Scripts, NEW s \in Commands
  PROVE  (LastingNames(s) \union LastingMarks(s)) \intersect Temporary = {}
<1>1. Alone(s) \intersect Temporary = {}
  BY TemporaryAssumption DEF Alone, Commands
<1>2. ASSUME s.words # <<>>
      PROVE  (Given(s.words) \union Taken(s.words)) \intersect Temporary = {}
  BY <1>2, TemporaryAssumption DEF Given, Taken, Valued, Named, Commands
<1> QED
  BY <1>1, <1>2 DEF LastingNames, LastingMarks

LEMMA UndoneKept ==
  ASSUME NEW old, NEW shell, NEW stack, NEW new, Undone(old, stack),
         stack # <<>>, stack \in Seq(Frame), Len(new) = Len(stack),
         SameFrames(stack, new, Len(stack)),
         shell.path_override = old.path_override,
         \A n \in Temporary : old.vars[n] = Absent => shell.vars[n] = Absent
  PROVE  Undone(shell, new)
<1>1. Len(stack) \in Nat \ {0}
  BY StackTop
<1>2. \A i \in 1 .. Len(stack) : new[i].saved = stack[i].saved /\ new[i].path = stack[i].path
  BY DEF SameFrames, Stable
<1>3. \A n \in Temporary : \A i \in 1 .. Len(stack) : PutAside(n, new, i) <=> PutAside(n, stack, i)
  BY <1>1, <1>2 DEF PutAside
<1> QED
  BY <1>1, <1>2, <1>3 DEF Undone

LEMMA UndonePushed ==
  ASSUME NEW old, NEW shell, NEW stack, NEW frame \in Frame, Undone(old, stack),
         StackOK(stack), Len(stack) < MaxFrames,
         frame.path = old.path_override,
         \A n \in DOMAIN frame.saved : frame.saved[n] = old.vars[n],
         \A n \in Temporary : n \in DOMAIN frame.saved \/ (old.vars[n] = Absent => shell.vars[n] = Absent)
  PROVE  Undone(shell, Append(stack, frame))
<1> DEFINE new == Append(stack, frame)
           k == Len(stack)
<1>1. /\ k \in Nat \ {0} /\ Len(new) = k + 1
      /\ \A i \in 1 .. k : new[i] = stack[i]
      /\ new[k + 1] = frame
  BY StackAppended, StackTop DEF StackOK
<1> HIDE DEF new, k
<1>2. ASSUME NEW n \in Temporary, NEW i \in 1 .. k
      PROVE  PutAside(n, new, i) <=> PutAside(n, stack, i)
  <2>1. new[i] = stack[i] /\ \A j \in 1 .. i - 1 : j \in 1 .. k /\ new[j] = stack[j]
    BY <1>1
  <2> QED
    BY <2>1 DEF PutAside
<1>3. ASSUME NEW n \in Temporary, \A i \in 1 .. Len(new) : n \notin DOMAIN new[i].saved
      PROVE  shell.vars[n] = Absent
  <2>1. n \notin DOMAIN frame.saved /\ \A i \in 1 .. k : n \notin DOMAIN stack[i].saved
    BY <1>1, <1>3
  <2> QED
    BY <2>1 DEF Undone, k
<1>4. ASSUME NEW n \in Temporary, NEW i \in 1 .. Len(new), PutAside(n, new, i)
      PROVE  new[i].saved[n] = Absent
  <2>1. CASE i = k + 1
    <3>1. new[i] = frame /\ \A j \in 1 .. k : j \in 1 .. i - 1 /\ new[j] = stack[j]
      BY <1>1, <2>1
    <3>2. n \in DOMAIN frame.saved /\ \A j \in 1 .. k : n \notin DOMAIN stack[j].saved
      BY <1>4, <3>1 DEF PutAside
    <3> QED
      BY <3>1, <3>2 DEF Undone, k
  <2>2. CASE i \in 1 .. k
    BY <1>1, <1>2, <1>4, <2>2 DEF Undone, k
  <2> QED
    BY <1>1, <2>1, <2>2
<1>5. Len(new) > 1 /\ Len(new) # 1
  BY <1>1
<1>6. new[2].path = None
  <2>1. CASE k = 1
    BY <1>1, <2>1 DEF Undone, k
  <2>2. CASE k > 1
    BY <1>1, <2>2 DEF Undone, k
  <2> QED
    BY <1>1, <2>1, <2>2
<1>7. DOMAIN new[1].saved = {}
  BY <1>1 DEF Undone
<1>8. Undone(shell, new)
  BY <1>3, <1>4, <1>5, <1>6, <1>7 DEF Undone
<1> QED
  BY <1>8 DEF new

LEMMA OneMore ==
  ASSUME NEW n \in Nat, n - 1 = 1
  PROVE  n = 2 /\ n > 1
OBVIOUS

LEMMA UndonePopped ==
  ASSUME NEW old, NEW shell, NEW stack, NEW new, Undone(old, stack),
         StackOK(stack), Len(stack) > 1, Len(new) = Len(stack) - 1,
         SameFrames(stack, new, Len(new)),
         old.vars \in Tables,
         shell.vars = Restored(old.vars, stack[Len(stack)].saved),
         shell.path_override = stack[Len(stack)].path
  PROVE  Undone(shell, new)
<1> DEFINE k == Len(stack)
<1>1. k \in Nat \ {0} /\ k > 1 /\ Len(new) = k - 1
  BY StackTop DEF StackOK
<1>2. \A i \in 1 .. k - 1 : new[i].saved = stack[i].saved /\ new[i].path = stack[i].path
  BY DEF SameFrames, Stable
<1> HIDE DEF k
<1>3. \A n \in Temporary : \A i \in 1 .. k - 1 : PutAside(n, new, i) <=> PutAside(n, stack, i)
  BY <1>1, <1>2 DEF PutAside
<1>4. ASSUME NEW n \in Temporary, \A i \in 1 .. Len(new) : n \notin DOMAIN new[i].saved
      PROVE  shell.vars[n] = Absent
  <2>1. \A i \in 1 .. k - 1 : n \notin DOMAIN stack[i].saved
    BY <1>1, <1>2, <1>4
  <2>2. n \in DOMAIN old.vars
    BY TemporaryAssumption DEF Tables
  <2>3. CASE n \in DOMAIN stack[k].saved
    <3>1. PutAside(n, stack, k)
      BY <1>1, <2>1, <2>3 DEF PutAside
    <3>2. stack[k].saved[n] = Absent
      BY <1>1, <3>1 DEF Undone, k
    <3> QED
      BY <2>2, <2>3, <3>2 DEF Restored, k
  <2>4. CASE n \notin DOMAIN stack[k].saved
    <3>1. old.vars[n] = Absent
      BY <1>1, <2>1, <2>4 DEF Undone, k
    <3> QED
      BY <2>2, <2>4, <3>1 DEF Restored, k
  <2> QED
    BY <2>3, <2>4
<1>5. ASSUME NEW n \in Temporary, NEW i \in 1 .. Len(new), PutAside(n, new, i)
      PROVE  new[i].saved[n] = Absent
  BY <1>1, <1>2, <1>3, <1>5 DEF Undone, k
<1>6. ASSUME Len(new) = 1
      PROVE  shell.path_override = None
  <2>1. Len(stack) = 2 /\ Len(stack) > 1
    <3>1. Len(stack) - 1 = 1 /\ Len(stack) \in Nat
      BY <1>1, <1>6 DEF k
    <3> DEFINE n == Len(stack)
    <3> HIDE DEF n
    <3>2. n = 2 /\ n > 1
      BY <3>1, OneMore DEF n
    <3> QED
      BY <3>2 DEF n
  <2>2. stack[2].path = None
    BY <2>1 DEF Undone
  <2> QED
    BY <2>1, <2>2
<1>7. Len(new) > 1 => new[2].path = None
  BY <1>1, <1>2 DEF Undone, k
<1>8. DOMAIN new[1].saved = {}
  BY <1>1, <1>2 DEF Undone
<1> QED
  BY <1>4, <1>5, <1>6, <1>7, <1>8 DEF Undone


(* What a step means for one shell: the shell, its lists and how it goes on *)
(* are those of the moment before, or what one of its own steps makes them. *)
Moved(c, shell, stack, to) ==
  /\ Changed(shells', shells, c, shell) /\ Changed(frames', frames, c, stack)
  /\ Changed(flow', flow, c, to)

LEMMA RanMoved ==
  ASSUME TInv, NEW c \in Live, NEW s \in Commands, NEW shell, NEW to, Ran(c, s, shell, to)
  PROVE  \E stack : /\ Kept(c, stack) /\ Moved(c, shell, stack, to)
                    /\ stack = IF to = "running" THEN Followed(frames[c], shell.fd_changes)
                               ELSE frames[c]
<1>1. Step(c, shell, to) /\ ShellOK(shell)
  BY DEF Ran
<1>2. PICK stack : /\ Kept(c, stack) /\ Changed(frames', frames, c, stack)
                   /\ stack = IF to = "running" THEN Followed(frames[c], shell.fd_changes)
                              ELSE frames[c]
  BY <1>1, StepStack
<1>3. Changed(shells', shells, c, shell) /\ Changed(flow', flow, c, to)
  BY <1>1 DEF Step, Changed
<1>4. /\ Kept(c, stack) /\ Moved(c, shell, stack, to)
      /\ stack = IF to = "running" THEN Followed(frames[c], shell.fd_changes)
                 ELSE frames[c]
  BY <1>2, <1>3 DEF Moved
<1> QED
  BY <1>4

LEMMA DefinedMoved ==
  ASSUME TInv, NEW c \in Live, NEW name, DefineFunction(c, name)
  PROVE  \E shell, stack : /\ Kept(c, stack) /\ Moved(c, shell, stack, "running")
                           /\ stack = Followed(frames[c], shell.fd_changes)
                           /\ SameBut(shells[c], shell, {"functions"}) /\ ShellOK(shell)
                           /\ Acts(c) /\ UNCHANGED <<script, cwd, umask, wanted>>
<1>1. PICK shell : /\ Step(c, shell, "running") /\ ShellOK(shell) /\ Acts(c)
                   /\ SameBut(shells[c], shell, {"functions"})
                   /\ UNCHANGED <<cwd, umask, wanted>>
  BY DefinedStep
<1>2. PICK stack : /\ Kept(c, stack) /\ Changed(frames', frames, c, stack)
                   /\ stack = Followed(frames[c], shell.fd_changes)
  BY <1>1, StepStack
<1>3. Changed(shells', shells, c, shell) /\ Changed(flow', flow, c, "running") /\ script' = script
  BY <1>1 DEF Step, Changed
<1>4. /\ Kept(c, stack) /\ Moved(c, shell, stack, "running")
      /\ stack = Followed(frames[c], shell.fd_changes)
      /\ SameBut(shells[c], shell, {"functions"}) /\ ShellOK(shell)
      /\ Acts(c) /\ UNCHANGED <<script, cwd, umask, wanted>>
  BY <1>1, <1>2, <1>3 DEF Moved
<1> QED
  BY <1>4

LEMMA EnteredMoved ==
  ASSUME TInv, NEW c \in Live, NEW shell, NEW frame, NEW redirects, NEW names,
         Entered(c, shell, frame, redirects, names)
  PROVE  /\ Moved(c, shell, Append(frames[c], frame), flow[c])
         /\ StackOK(Append(frames[c], frame))
<1>1. Moved(c, shell, Append(frames[c], frame), flow[c])
  BY DEF Entered, Moved, Changed
<1>2. StackOK(frames[c]) /\ Len(frames[c]) < MaxFrames /\ frame \in Frame
  BY DEF TInv, StackOK, Entered
<1> QED
  BY <1>1, <1>2, StackAppended

LEMMA LeaveMoved ==
  ASSUME TInv, NEW c \in Live, NEW to, Leave(c, to)
  PROVE  \E stack : /\ Dropped(c, stack) /\ Moved(c, Left(c), stack, to) /\ Len(frames[c]) > 1
                    /\ stack = IF to = "running"
                                 THEN Followed(Front(frames[c]), shells[c].fd_changes)
                                 ELSE Front(frames[c])
BY LeaveStep DEF Moved

(* A step in which the lists and the settings of c stay as they are.        *)
Still(c) == shells'[c] = shells[c] /\ frames'[c] = frames[c] /\ flow'[c] = flow[c]

LEMMA OthersStill ==
  ASSUME TInv, NEW c \in Live, NEW d \in Live, c # d, NEW shell, NEW stack, NEW to,
         Moved(d, shell, stack, to)
  PROVE  Still(c)
BY DEF Moved, Changed, Still, TInv, Live

LEMMA CopiesStill ==
  ASSUME TInv, NEW c \in Live, c \in Live',
         \/ \E d, e : StartCopy(d, e)
         \/ \E e : EndCopy(e)
         \/ Outside
  PROVE  Still(c)
<1>1. CASE \E d, e : StartCopy(d, e)
  BY <1>1, StartStep DEF Added, Still
<1>2. CASE \E e : EndCopy(e)
  BY <1>2, EndStep DEF Still
<1>3. CASE Outside
  BY <1>3 DEF Outside, Still
<1> QED
  BY <1>1, <1>2, <1>3


LEMMA InitPrefix ==
  ASSUME Init
  PROVE  PrefixInv
<1>1. PICK env \in Environments :
        shells = [c \in {Main} |->
                   [vars |-> InitPwd(env, cwd, dirs), positional |-> <<>>, functions |-> {},
                    aliases |-> {}, options |-> {}, cwd_override |-> None,
                    umask_override |-> None, path_override |-> None,
                    fd_changes |-> <<>>, cache |-> EmptyCache]]
  BY DEF Init
<1>2. shells[Main].vars = InitPwd(env, cwd, dirs) /\ shells[Main].path_override = None
  BY <1>1
<1>3. ASSUME NEW n \in Temporary
      PROVE  shells[Main].vars[n] = Absent
  <2>1. env \in [Names -> Variable] /\ env[n] = Absent /\ n \in Names /\ n # "PWD"
    BY EnvironmentAssumption, TemporaryAssumption
  <2> QED
    BY <1>2, <2>1 DEF InitPwd, ExportedAll, Assigned
<1>4. frames[Main] = << List("list", Terminal) >>
  BY DEF Init
<1>5. Len(frames[Main]) = 1 /\ frames[Main][1].saved = <<>>
  <2> DEFINE frame == List("list", Terminal)
  <2>1. frame.saved = <<>>
    BY DEF List
  <2> HIDE DEF frame
  <2>2. frames[Main] = <<frame>>
    BY <1>4 DEF frame
  <2> QED
    BY <2>1, <2>2
<1> QED
  BY <1>2, <1>3, <1>5 DEF PrefixInv, Undone, PutAside

LEMMA NextPrefix ==
  ASSUME TInv, TInv', PrefixInv, [Next]_vars
  PROVE  PrefixInv'
<1>1. /\ Main \in Live /\ Main \in Live' /\ StackOK(frames[Main]) /\ ShellOK(shells[Main])
      /\ Undone(shells[Main], frames[Main])
  BY DEF TInv, Inv, StackOK, PrefixInv
<1>2. /\ frames[Main] \in Seq(Frame) /\ frames[Main] # <<>>
                  /\ Len(frames[Main]) \in Nat
  BY <1>1 DEF StackOK
<1>3. ASSUME Still(Main)
      PROVE  PrefixInv'
  BY <1>1, <1>3 DEF Still, PrefixInv
<1>4. ASSUME NEW d \in Live, d # Main, NEW shell, NEW stack, NEW to, Moved(d, shell, stack, to)
      PROVE  PrefixInv'
  BY <1>1, <1>3, <1>4, OthersStill
<1>5. ASSUME NEW shell, NEW stack, NEW to, Moved(Main, shell, stack, to), Undone(shell, stack)
      PROVE  PrefixInv'
  <2>1. shells'[Main] = shell /\ frames'[Main] = stack
    BY <1>1, <1>5 DEF Moved, Changed, TInv, Live
  <2> QED
    BY <1>5, <2>1 DEF PrefixInv
<1>6. ASSUME NEW d \in Live, NEW s \in Commands, NEW shell, NEW to, Ran(d, s, shell, to)
      PROVE  PrefixInv'
  <2>1. PICK stack : Kept(d, stack) /\ Moved(d, shell, stack, to)
    BY <1>6, RanMoved
  <2>2. CASE d = Main
    <3>1. ASSUME NEW n \in Temporary, shells[Main].vars[n] = Absent
          PROVE  shell.vars[n] = Absent
      <4>1. n \notin LastingNames(s) \union LastingMarks(s)
        BY NothingLasts DEF TInv
      <4>2. n \in Names
        BY TemporaryAssumption
      <4> QED
        BY <1>6, <2>2, <3>1, <4>1, <4>2 DEF Ran, Carried
    <3>2. shell.path_override = shells[Main].path_override
      BY <1>6, <2>2 DEF Ran
    <3>3. Undone(shell, stack)
      BY <1>1, <1>2, <2>1, <2>2, <3>1, <3>2, UndoneKept DEF Kept
    <3> QED
      BY <1>5, <2>1, <2>2, <3>3
  <2> QED
    BY <1>4, <2>1, <2>2
<1>7. ASSUME NEW d \in Live, NEW shell, NEW frame, NEW redirects, NEW names,
             Entered(d, shell, frame, redirects, names)
      PROVE  PrefixInv'
  <2>1. Moved(d, shell, Append(frames[d], frame), flow[d])
    BY <1>7, EnteredMoved
  <2>2. CASE d = Main
    <3>1. ASSUME NEW n \in Temporary
          PROVE  n \in DOMAIN frame.saved \/ (shells[Main].vars[n] = Absent => shell.vars[n] = Absent)
      <4>1. n \in Names
        BY TemporaryAssumption
      <4> QED
        BY <1>7, <2>2, <4>1 DEF Entered, Carried
    <3>2. /\ frame \in Frame /\ Len(frames[Main]) < MaxFrames
          /\ frame.path = shells[Main].path_override
          /\ \A n \in DOMAIN frame.saved : frame.saved[n] = shells[Main].vars[n]
      BY <1>7, <2>2 DEF Entered
    <3>3. Undone(shell, Append(frames[Main], frame))
      BY <1>1, <3>1, <3>2, UndonePushed
    <3> QED
      BY <1>5, <2>1, <2>2, <3>3
  <2> QED
    BY <1>4, <2>1, <2>2
<1>8. ASSUME NEW d \in Live, NEW name, DefineFunction(d, name)
      PROVE  PrefixInv'
  <2>1. PICK shell, stack : /\ Kept(d, stack) /\ Moved(d, shell, stack, "running")
                            /\ SameBut(shells[d], shell, {"functions"})
    BY <1>8, DefinedMoved
  <2>2. CASE d = Main
    <3>1. shell.vars = shells[Main].vars /\ shell.path_override = shells[Main].path_override
      BY <2>1, <2>2 DEF SameBut, Fields
    <3>2. Undone(shell, stack)
      BY <1>1, <1>2, <2>1, <2>2, <3>1, UndoneKept DEF Kept
    <3> QED
      BY <1>5, <2>1, <2>2, <3>2
  <2> QED
    BY <1>4, <2>1, <2>2
<1>9. ASSUME NEW d \in Live, NEW to, Leave(d, to)
      PROVE  PrefixInv'
  <2>1. PICK stack : Dropped(d, stack) /\ Moved(d, Left(d), stack, to) /\ Len(frames[d]) > 1
    BY <1>9, LeaveMoved
  <2>2. CASE d = Main
    <3>1. /\ Left(Main).vars = Restored(shells[Main].vars, frames[Main][Len(frames[Main])].saved)
          /\ Left(Main).path_override = frames[Main][Len(frames[Main])].path
      BY <2>1, <2>2, LeftFacts
    <3>2. shells[Main].vars \in Tables
      BY <1>1 DEF ShellOK
    <3>3. Undone(Left(Main), stack)
      BY <1>1, <2>1, <2>2, <3>1, <3>2, UndonePopped DEF Dropped
    <3> QED
      BY <1>5, <2>1, <2>2, <3>3
  <2> QED
    BY <1>4, <2>1, <2>2
<1>10. ASSUME NEW d \in Live, NextList(d)
       PROVE  PrefixInv'
  <2>1. PICK stack : Kept(d, stack) /\ Changed(frames', frames, d, stack)
    BY <1>10, NextListStep
  <2>2. shells' = shells
    BY <1>10 DEF NextList
  <2>3. CASE d = Main
    <3>1. Undone(shells[Main], stack)
      BY <1>1, <1>2, <2>1, <2>3, UndoneKept DEF Kept
    <3>2. frames'[Main] = stack
      BY <1>1, <2>1, <2>3 DEF Changed, TInv
    <3> QED
      BY <2>2, <3>1, <3>2 DEF PrefixInv
  <2>4. CASE d # Main
    <3>1. frames'[Main] = frames[Main]
      BY <1>1, <2>1, <2>4 DEF Changed, TInv
    <3> QED
      BY <1>1, <2>2, <3>1 DEF PrefixInv
  <2> QED
    BY <2>3, <2>4
<1>11. ASSUME EndLine
       PROVE  PrefixInv'
  <2>1. PICK shell : /\ Changed(shells', shells, Main, shell)
                     /\ SameBut(shells[Main], shell, {"fd_changes"})
    BY <1>11, EndLineStep
  <2>2. /\ shells'[Main].vars = shells[Main].vars
        /\ shells'[Main].path_override = shells[Main].path_override
    BY <1>1, <2>1 DEF Changed, SameBut, Fields, Live
  <2> DEFINE frame == List("list", Applied(Head(frames[Main]).base, shells[Main].fd_changes))
  <2>3. frames'[Main] = << frame >> /\ Len(frames[Main]) = 1
    BY <1>1, <1>11 DEF EndLine, TInv
  <2>4. frame.saved = <<>>
    BY DEF List
  <2> HIDE DEF frame
  <2>5. Len(frames'[Main]) = 1 /\ DOMAIN frames'[Main][1].saved = {}
    BY <2>3, <2>4
  <2>6. \A n \in Temporary : shells[Main].vars[n] = Absent
    BY <1>1, <2>3 DEF Undone
  <2>7. shells[Main].path_override = None
    BY <1>1, <2>3 DEF Undone
  <2>8. Undone(shells'[Main], frames'[Main])
    BY <2>2, <2>5, <2>6, <2>7 DEF Undone, PutAside
  <2> QED
    BY <2>8 DEF PrefixInv
<1>12. CASE \/ \E d, e : StartCopy(d, e)
            \/ \E e : EndCopy(e)
            \/ Outside
  BY <1>1, <1>3, <1>12, CopiesStill
<1> QED
  BY <1>6, <1>7, <1>8, <1>9, <1>10, <1>11, <1>12, Cases DEF Entering

(* For every script in which no command keeps a temporary variable: between *)
(* the commands of the line none is set, and there is no search path of     *)
(* `command -p', however the commands before ended and however deep they    *)
(* nested (exec/simple.rs: the variables and the path are put back).        *)
THEOREM PrefixIsUndone == Spec => []PrefixUndone
<1>1. PrefixInv /\ TInv => PrefixUndone
  <2> SUFFICES ASSUME PrefixInv, TInv, Len(frames[Main]) = 1
               PROVE  /\ shells[Main].path_override = None
                      /\ \A n \in Temporary : shells[Main].vars[n] = Absent
    BY DEF PrefixUndone
  <2> QED
    BY DEF PrefixInv, Undone
<1>2. Init => TInv /\ PrefixInv
  BY InitTInv, InitPrefix
<1>3. TInv /\ PrefixInv /\ [Next]_vars => TInv' /\ PrefixInv'
  BY NextTInv, NextPrefix
<1> QED
  BY <1>1, <1>2, <1>3, PTL DEF Spec


-----------------------------------------------------------------------------
(* PWD.                                                                     *)

(* PWD names the directory of a shell, if the process is in this one.       *)
DirHere(shell, dir) ==
  IF shell.cwd_override = None THEN dir ELSE Resolved(shell.cwd_override)

PwdNames(shell, dir) ==
  LET pwd == shell.vars["PWD"]
  IN pwd.value # None /\ ~pwd.readonly => Resolved(pwd.value) = DirHere(shell, dir)

\* No list gives PWD back a value of before, when the shell may have been elsewhere.
PwdNotAside(stack) == \A i \in 1 .. Len(stack) : "PWD" \notin DOMAIN stack[i].saved

PwdInv == \A c \in Live : PwdNames(shells[c], cwd) /\ PwdNotAside(frames[c])

\* Only cd gives PWD a value.
PwdIsLeft == \A name \in DOMAIN Scripts : \A s \in Scripts[name].commands : ~AssignsPwd(s)

LEMMA MainAlone ==
  ASSUME Inv, Acts(Main)
  PROVE  Live = {Main}
BY DEF Inv, Acts, Idle

LEMMA PwdMoved ==
  ASSUME TInv, PwdInv, NEW d \in Live, NEW shell, NEW stack, NEW to, Moved(d, shell, stack, to),
         PwdNames(shell, cwd'), PwdNotAside(stack), cwd' = cwd \/ Live = {d}
  PROVE  PwdInv'
<1>1. Live' = Live /\ DOMAIN frames = Live
  BY DEF Moved, Changed, Live, TInv
<1>2. ASSUME NEW c \in Live
      PROVE  PwdNames(shells'[c], cwd') /\ PwdNotAside(frames'[c])
  <2>1. CASE c = d
    BY <1>1, <2>1 DEF Moved, Changed, Live
  <2>2. CASE c # d
    <3>1. Still(c) /\ cwd' = cwd
      BY <1>2, <2>2, OthersStill
    <3> QED
      BY <3>1 DEF Still, PwdInv
  <2> QED
    BY <2>1, <2>2
<1> QED
  BY <1>1, <1>2 DEF PwdInv

(* A shell that stays where it is and whose PWD does at most disappear.     *)
LEMMA PwdStays ==
  ASSUME NEW old, NEW shell, NEW dir, PwdNames(old, dir),
         shell.cwd_override = old.cwd_override,
         shell.vars["PWD"].value \in {old.vars["PWD"].value, None},
         old.vars["PWD"].readonly => shell.vars["PWD"].readonly
  PROVE  PwdNames(shell, dir)
BY DEF PwdNames, DirHere

LEMMA RanPwd ==
  ASSUME PwdIsLeft, TInv, PwdInv, NEW c \in Live, NEW s \in Commands, NEW shell, NEW to,
         Ran(c, s, shell, to)
  PROVE  PwdNames(shell, cwd') /\ (cwd' = cwd \/ Live = {c})
<1>1. ~AssignsPwd(s)
  BY DEF PwdIsLeft, Commands, TInv
<1>2. /\ PwdFollowed(c, shell, cwd') /\ Acts(c)
      /\ Carried(shells[c].vars, shell.vars, LastingNames(s), LastingMarks(s))
  BY <1>1 DEF Ran
<1>3. shells[c].vars["PWD"].readonly => shell.vars["PWD"].readonly
  BY <1>2, NamesAssumption DEF Carried
<1>4. CASE /\ cwd' = cwd /\ shell.cwd_override = shells[c].cwd_override
           /\ shell.vars["PWD"].value \in {shells[c].vars["PWD"].value, None}
  BY <1>3, <1>4, PwdStays DEF PwdInv
<1>5. CASE \E path \in Absolute :
             /\ shell.vars["PWD"].readonly \/ shell.vars["PWD"].value = path
             /\ shell.cwd_override = IF c = Main THEN shells[c].cwd_override ELSE path
             /\ cwd' = IF c = Main THEN Resolved(path) ELSE cwd
  <2>1. PICK path \in Absolute :
             /\ shell.vars["PWD"].readonly \/ shell.vars["PWD"].value = path
             /\ shell.cwd_override = IF c = Main THEN shells[c].cwd_override ELSE path
             /\ cwd' = IF c = Main THEN Resolved(path) ELSE cwd
    BY <1>5
  <2>2. path # None
    BY NoneAssumption DEF Absolute
  <2>3. CASE c = Main
    <3>1. Live = {c}
      BY <1>2, <2>3, MainAlone DEF TInv
    <3>2. shell.cwd_override = None
      BY <2>1, <2>3 DEF TInv
    <3> QED
      BY <2>1, <2>3, <3>1, <3>2 DEF PwdNames, DirHere
  <2>4. CASE c # Main
    BY <2>1, <2>2, <2>4 DEF PwdNames, DirHere
  <2> QED
    BY <2>3, <2>4
<1> QED
  BY <1>2, <1>4, <1>5 DEF PwdFollowed

LEMMA InitPwdInv ==
  ASSUME Init
  PROVE  PwdInv
<1>1. PICK env \in Environments :
        shells = [c \in {Main} |->
                   [vars |-> InitPwd(env, cwd, dirs), positional |-> <<>>, functions |-> {},
                    aliases |-> {}, options |-> {}, cwd_override |-> None,
                    umask_override |-> None, path_override |-> None,
                    fd_changes |-> <<>>, cache |-> EmptyCache]]
  BY DEF Init
<1>2. /\ Live = {Main} /\ shells[Main].cwd_override = None
      /\ shells[Main].vars = InitPwd(env, cwd, dirs)
  BY <1>1 DEF Live
<1>3. env \in Tables /\ cwd \in DirNames
  BY InitInv, EnvironmentAssumption DEF Inv, Tables
<1>4. cwd # None /\ cwd \in Seq(STRING) /\ Resolved(cwd) = cwd
  BY <1>3, DirectoriesAssumption
<1>5. Resolved(InitPwd(env, cwd, dirs)["PWD"].value) = cwd
  <2> DEFINE pwd == env["PWD"].value
             keep == /\ pwd # None /\ IsAbsolute(pwd)
                     /\ ".." \notin ToSet(pwd)
                     /\ Reached(dirs, pwd) = cwd
  <2>1. pwd \in Seq(STRING) \union {None}
    BY <1>3, NamesAssumption DEF Tables, Variable
  <2>2. CASE keep
    <3>1. pwd \in Seq(STRING) /\ pwd # <<>> /\ Reached(dirs, pwd) # None
      BY <1>4, <2>1, <2>2 DEF IsAbsolute
    <3>2. Reached(dirs, pwd) = Resolved(pwd)
      <4> HIDE DEF pwd
      <4> QED
        BY <3>1, ReachedIsResolved
    <3>3. InitPwd(env, cwd, dirs) = env
      BY <2>2 DEF InitPwd
    <3> QED
      BY <2>2, <3>2, <3>3
  <2>3. CASE ~keep
    <3>1. InitPwd(env, cwd, dirs) = ExportedAll(Assigned(env, "PWD", cwd), {"PWD"})
      BY <2>3 DEF InitPwd
    <3>2. InitPwd(env, cwd, dirs)["PWD"].value = cwd
      BY <1>3, <3>1, NamesAssumption DEF ExportedAll, Assigned, Tables, Variable
    <3> QED
      BY <1>4, <3>2
  <2> QED
    BY <2>2, <2>3
<1>6. PwdNames(shells[Main], cwd)
  BY <1>2, <1>5 DEF PwdNames, DirHere
<1>7. PwdNotAside(frames[Main])
  <2> DEFINE frame == List("list", Terminal)
  <2>1. frame.saved = <<>>
    BY DEF List
  <2>2. frames[Main] = <<frame>>
    BY DEF Init
  <2> HIDE DEF frame
  <2> QED
    BY <2>1, <2>2 DEF PwdNotAside
<1> QED
  BY <1>2, <1>6, <1>7 DEF PwdInv

LEMMA NotAsideKept ==
  ASSUME NEW old, NEW stack, PwdNotAside(old), SameFrames(old, stack, Len(stack)),
         Len(old) \in Nat, Len(stack) \in Nat, Len(stack) <= Len(old)
  PROVE  PwdNotAside(stack)
BY DEF PwdNotAside, SameFrames, Stable

LEMMA NextPwdInv ==
  ASSUME PwdIsLeft, TInv, TInv', PwdInv, [Next]_vars
  PROVE  PwdInv'
<1>1. ASSUME NEW c \in Live
      PROVE  /\ StackOK(frames[c]) /\ ShellOK(shells[c]) /\ Len(frames[c]) \in Nat
             /\ PwdNames(shells[c], cwd) /\ PwdNotAside(frames[c])
  BY <1>1 DEF TInv, StackOK, PwdInv
<1>2. ASSUME NEW c \in Live, NEW stack, Kept(c, stack) \/ Dropped(c, stack)
      PROVE  PwdNotAside(stack)
  <2>1. /\ Len(stack) \in Nat /\ Len(stack) <= Len(frames[c])
        /\ SameFrames(frames[c], stack, Len(stack))
    BY <1>1, <1>2 DEF Kept, Dropped, StackOK
  <2> QED
    BY <1>1, <2>1, NotAsideKept
<1>3. ASSUME NEW d \in Live, NEW s \in Commands, NEW shell, NEW to, Ran(d, s, shell, to)
      PROVE  PwdInv'
  <2>1. PICK stack : Kept(d, stack) /\ Moved(d, shell, stack, to)
    BY <1>3, RanMoved
  <2>2. PwdNames(shell, cwd') /\ (cwd' = cwd \/ Live = {d})
    BY <1>3, RanPwd
  <2> QED
    BY <1>2, <2>1, <2>2, PwdMoved
<1>4. ASSUME NEW d \in Live, Entering(d)
      PROVE  PwdInv'
  <2>1. PICK shell, frame, redirects, names : Entered(d, shell, frame, redirects, names)
    BY <1>4 DEF Entering
  <2>2. Moved(d, shell, Append(frames[d], frame), flow[d])
    BY <2>1, EnteredMoved
  <2>3. "PWD" \notin names
    BY <2>1 DEF Entered, PwdIsLeft, TInv
  <2>4. PwdNotAside(Append(frames[d], frame))
    <3>1. "PWD" \notin DOMAIN frame.saved /\ frame \in Frame /\ Len(frames[d]) < MaxFrames
      BY <2>1, <2>3 DEF Entered
    <3>2. /\ Len(Append(frames[d], frame)) = Len(frames[d]) + 1
          /\ \A i \in 1 .. Len(frames[d]) : Append(frames[d], frame)[i] = frames[d][i]
          /\ Append(frames[d], frame)[Len(frames[d]) + 1] = frame
      BY <1>1, <3>1, StackAppended
    <3>3. Len(frames[d]) \in Nat /\ PwdNotAside(frames[d])
      BY <1>1
    <3> DEFINE stack == Append(frames[d], frame)
    <3> HIDE DEF stack
    <3>4. PwdNotAside(stack)
      BY <3>1, <3>2, <3>3 DEF PwdNotAside, stack
    <3> QED
      BY <3>4 DEF stack
  <2>5. PwdNames(shell, cwd)
    <3>1. /\ shell.cwd_override = shells[d].cwd_override
          /\ Carried(shells[d].vars, shell.vars, names, names)
      BY <2>1 DEF Entered
    <3>2. /\ shell.vars["PWD"].value \in {shells[d].vars["PWD"].value, None}
          /\ shells[d].vars["PWD"].readonly => shell.vars["PWD"].readonly
      BY <2>3, <3>1, NamesAssumption DEF Carried
    <3> QED
      BY <1>1, <3>1, <3>2, PwdStays
  <2>6. cwd' = cwd
    BY <2>1 DEF Entered, World
  <2> QED
    BY <2>2, <2>4, <2>5, <2>6, PwdMoved
<1>5. ASSUME NEW d \in Live, NEW name, DefineFunction(d, name)
      PROVE  PwdInv'
  <2>1. PICK shell, stack : /\ Kept(d, stack) /\ Moved(d, shell, stack, "running")
                            /\ SameBut(shells[d], shell, {"functions"})
                            /\ UNCHANGED <<script, cwd, umask, wanted>>
    BY <1>5, DefinedMoved
  <2>2. shell.vars = shells[d].vars /\ shell.cwd_override = shells[d].cwd_override /\ cwd' = cwd
    BY <2>1 DEF SameBut, Fields
  <2>3. PwdNames(shell, cwd)
    BY <1>1, <2>2, PwdStays
  <2> QED
    BY <1>2, <2>1, <2>2, <2>3, PwdMoved
<1>6. ASSUME NEW d \in Live, NEW to, Leave(d, to)
      PROVE  PwdInv'
  <2>1. PICK stack : Dropped(d, stack) /\ Moved(d, Left(d), stack, to) /\ Len(frames[d]) > 1
    BY <1>6, LeaveMoved
  <2>2. /\ Left(d).vars = Restored(shells[d].vars, frames[d][Len(frames[d])].saved)
        /\ Left(d).cwd_override = shells[d].cwd_override
    BY <2>1, LeftFacts
  <2>3. "PWD" \notin DOMAIN frames[d][Len(frames[d])].saved
    BY <1>1, <2>1 DEF PwdNotAside
  <2>4. Left(d).vars["PWD"] = shells[d].vars["PWD"]
    <3>1. "PWD" \in DOMAIN shells[d].vars
      BY <1>1, NamesAssumption DEF ShellOK, Tables
    <3> QED
      BY <2>2, <2>3, <3>1 DEF Restored
  <2>5. PwdNames(Left(d), cwd)
    BY <1>1, <2>2, <2>4, PwdStays
  <2>6. cwd' = cwd
    BY <1>6 DEF Leave, World
  <2> QED
    BY <1>2, <2>1, <2>5, <2>6, PwdMoved
<1>7. ASSUME NEW d \in Live, NextList(d)
      PROVE  PwdInv'
  <2>1. PICK stack : Kept(d, stack) /\ Changed(frames', frames, d, stack)
    BY <1>7, NextListStep
  <2>2. shells' = shells /\ flow' = flow /\ cwd' = cwd
    BY <1>7 DEF NextList, World
  <2>3. Moved(d, shells[d], stack, flow[d])
    BY <2>1, <2>2 DEF Moved, Changed
  <2> QED
    BY <1>1, <1>2, <2>1, <2>2, <2>3, PwdMoved
<1>8. ASSUME EndLine
      PROVE  PwdInv'
  <2>1. PICK shell : /\ Changed(shells', shells, Main, shell)
                     /\ SameBut(shells[Main], shell, {"fd_changes"})
    BY <1>8, EndLineStep
  <2> DEFINE frame == List("list", Applied(Head(frames[Main]).base, shells[Main].fd_changes))
             stack == << frame >>
  <2>2. Moved(Main, shell, stack, "running") /\ cwd' = cwd
    BY <1>8, <2>1 DEF EndLine, World, Moved, Changed
  <2>3. frame.saved = <<>>
    BY DEF List
  <2> HIDE DEF frame
  <2>4. PwdNotAside(stack)
    BY <2>3 DEF PwdNotAside
  <2> HIDE DEF stack
  <2>5. Main \in Live
    BY DEF TInv, Inv
  <2>6. PwdNames(shell, cwd)
    <3>1. shell.vars = shells[Main].vars /\ shell.cwd_override = shells[Main].cwd_override
      BY <2>1 DEF SameBut, Fields
    <3> QED
      BY <1>1, <2>5, <3>1, PwdStays
  <2> QED
    BY <2>2, <2>4, <2>5, <2>6, PwdMoved
<1>9. ASSUME NEW c, NEW e, StartCopy(c, e)
      PROVE  PwdInv'
  <2>1. /\ c \in Live /\ Live' = Live \union {e} /\ cwd' = cwd
        /\ Added(shells', shells, e, Copied(shells[c]))
        /\ Added(frames', frames, e, << List("list", Current(c)) >>)
    BY <1>9, StartStep DEF World
  <2>2. /\ SameBut(shells[c], Copied(shells[c]), {"fd_changes", "cwd_override"})
        /\ Copied(shells[c]).cwd_override \in {shells[c].cwd_override, cwd}
    BY <2>1, CopiedFacts
  <2>3. PwdNames(Copied(shells[c]), cwd)
    <3>1. DirHere(Copied(shells[c]), cwd) = DirHere(shells[c], cwd)
      <4>1. Here(Copied(shells[c])) = Here(shells[c])
        BY <2>1, CopiedSettings DEF TInv, Settings
      <4> QED
        BY <4>1 DEF DirHere, Here
    <3>2. Copied(shells[c]).vars = shells[c].vars
      BY <2>2 DEF SameBut, Fields
    <3> QED
      BY <1>1, <2>1, <3>1, <3>2 DEF PwdNames
  <2>4. PwdNotAside(<< List("list", Current(c)) >>)
    <3> DEFINE frame == List("list", Current(c))
    <3>1. frame.saved = <<>>
      BY DEF List
    <3> HIDE DEF frame
    <3>2. PwdNotAside(<<frame>>)
      BY <3>1 DEF PwdNotAside
    <3> QED
      BY <3>2 DEF frame
  <2>5. ASSUME NEW d \in Live'
        PROVE  PwdNames(shells'[d], cwd') /\ PwdNotAside(frames'[d])
    <3>1. CASE d = e
      BY <2>1, <2>3, <2>4, <3>1 DEF Added
    <3>2. CASE d # e
      BY <1>1, <2>1, <3>2 DEF Added
    <3> QED
      BY <3>1, <3>2
  <2> QED
    BY <2>5 DEF PwdInv
<1>10. ASSUME NEW e, EndCopy(e)
       PROVE  PwdInv'
  BY <1>1, <1>10, EndStep DEF PwdInv, World
<1>11. ASSUME Outside
       PROVE  PwdInv'
  BY <1>11 DEF Outside, PwdInv, Live
<1> QED
  BY <1>3, <1>4, <1>5, <1>6, <1>7, <1>8, <1>9, <1>10, <1>11, Cases

(* For every script in which no command assigns PWD, in front of a command, *)
(* alone or by export and readonly: in every shell PWD names the directory  *)
(* the shell is in, unless it was made read only or unset (cd.rs, shell.rs  *)
(* `init_pwd' and `subshell').                                              *)
THEOREM PwdIsTrue ==
  ASSUME PwdIsLeft
  PROVE  Spec => []PwdTrue
<1>1. PwdInv => PwdTrue
  BY DEF PwdInv, PwdTrue, PwdNames, DirHere, Here
<1>2. Init => TInv /\ PwdInv
  BY InitTInv, InitPwdInv
<1>3. TInv /\ PwdInv /\ [Next]_vars => TInv' /\ PwdInv'
  BY NextTInv, NextPwdInv
<1> QED
  BY <1>1, <1>2, <1>3, PTL DEF Spec


-----------------------------------------------------------------------------
(* Files.                                                                   *)

TableOf(frame) == IF frame.local = None THEN frame.base ELSE frame.local

(* What exec has changed is in the table of the innermost list, and the     *)
(* redirections around the lists are about other descriptors: what each of  *)
(* them undoes is what the list around it was given.                        *)
Layered(changes, stack, table, running) ==
  /\ table = Applied(stack[Len(stack)].base, changes)
  /\ running => TableOf(stack[Len(stack)]) = table
  /\ \A i \in 1 .. Len(stack) : DOMAIN changes \intersect DOMAIN stack[i].undo = {}
  /\ \A i \in 1 .. Len(stack) : \A fd \in Fds \ DOMAIN changes :
       TableOf(stack[i])[fd] = stack[i].base[fd]
  /\ \A i \in 1 .. Len(stack) - 1 : \A fd \in Fds \ DOMAIN changes :
       stack[i].base[fd] = IF fd \in DOMAIN stack[i + 1].undo THEN stack[i + 1].undo[fd]
                           ELSE stack[i + 1].base[fd]

FilesInv ==
  \A c \in Live : Layered(shells[c].fd_changes, frames[c], wanted[c], flow[c] = "running")

LEMMA TablesAgree ==
  ASSUME NEW t \in Table, NEW u \in Table, \A fd \in Fds : t[fd] = u[fd]
  PROVE  t = u
BY DEF Table

LEMMA TableOfTyped ==
  ASSUME NEW frame \in Frame
  PROVE  TableOf(frame) \in Table /\ frame.base \in Table
BY DEF TableOf, Frame

(* After a command the list sees the changes, the lists around it do not.   *)
LEMMA FollowedTop ==
  ASSUME NEW stack, StackOK(stack), NEW changes, \A fd \in DOMAIN changes : changes[fd] \in Files
  PROVE  LET new == Followed(stack, changes)
         IN  \A fd \in Fds : TableOf(new[Len(stack)])[fd] =
               IF fd \in DOMAIN changes THEN changes[fd] ELSE TableOf(stack[Len(stack)])[fd]
<1> DEFINE k == Len(stack)
           top == Last(stack)
           table == TableOf(top)
           follows == Applied(table, changes)
           last == [top EXCEPT !.local = follows]
           front == Front(stack)
<1>1. /\ k \in Nat \ {0} /\ top = stack[k] /\ top \in Frame
      /\ front \in Seq(Frame) /\ Len(front) = k - 1
  BY StackTop DEF StackOK
<1>2. table \in Table /\ follows \in Table
  BY <1>1, TableOfTyped, AppliedTable
<1>3. Followed(stack, changes) = IF changes = <<>> THEN stack ELSE Append(front, last)
  BY DEF Followed, TableOf
<1>4. \A fd \in Fds : follows[fd] = IF fd \in DOMAIN changes THEN changes[fd] ELSE table[fd]
  BY <1>2 DEF Applied, Table
<1>5. CASE changes = <<>>
  <2>1. DOMAIN changes = {}
    BY <1>5
  <2> QED
    BY <1>1, <1>3, <1>5, <2>1
<1>6. CASE changes # <<>>
  <2>1. TableOf(last) = follows
    <3>1. last.local = follows
      BY <1>1 DEF Frame
    <3>2. follows # None
      BY <1>2, NoneAssumption DEF Table
    <3> QED
      BY <3>1, <3>2 DEF TableOf
  <2> HIDE DEF last, front, k
  <2>2. Append(front, last)[k] = last
    BY <1>1
  <2>3. Followed(stack, changes)[k] = last
    BY <1>3, <1>6, <2>2
  <2> HIDE DEF follows, table
  <2>4. \A fd \in Fds : TableOf(Followed(stack, changes)[k])[fd] =
          IF fd \in DOMAIN changes THEN changes[fd] ELSE table[fd]
    BY <1>4, <2>1, <2>3
  <2> QED
    BY <1>1, <2>4 DEF table, k
<1> QED
  BY <1>5, <1>6

(* One more command of the list: more is changed, nothing else.             *)
LEMMA LayeredOn ==
  ASSUME NEW changes, NEW stack, NEW table \in Table, Layered(changes, stack, table, TRUE),
         StackOK(stack), NEW more, \A fd \in DOMAIN more : more[fd] \in Files,
         DOMAIN changes \subseteq DOMAIN more,
         \A i \in 1 .. Len(stack) : DOMAIN more \intersect DOMAIN stack[i].undo = {},
         NEW after, after = Applied(stack[Len(stack)].base, more),
         NEW new, NEW running \in BOOLEAN,
         IF running THEN new = Followed(stack, more) ELSE new = stack
  PROVE  Layered(more, new, after, running)
<1> DEFINE k == Len(stack)
<1>1. /\ k \in Nat \ {0} /\ stack \in Seq(Frame)
      /\ \A i \in 1 .. k : stack[i] \in Frame
  BY StackTop DEF StackOK
<1>2. /\ Len(new) = k /\ StackOK(new) /\ SameFrames(stack, new, k)
      /\ \A i \in 1 .. k - 1 : new[i] = stack[i]
  <2>1. CASE running
    BY <2>1, StackFollowed
  <2>2. CASE ~running
    BY <2>2 DEF SameFrames
  <2> QED
    BY <2>1, <2>2
<1>3. \A i \in 1 .. k : new[i].base = stack[i].base /\ new[i].undo = stack[i].undo
  BY <1>2 DEF SameFrames, Stable
<1>4. stack[k] \in Frame /\ new[k] \in Frame
  BY <1>1, <1>2, StackTop DEF StackOK
<1>5. /\ stack[k].base \in Table /\ TableOf(stack[k]) = table /\ TableOf(new[k]) \in Table
      /\ \A fd \in Fds \ DOMAIN changes : table[fd] = stack[k].base[fd]
  BY <1>1, <1>4, TableOfTyped DEF Layered
<1>6. after \in Table /\ \A fd \in Fds : after[fd] = IF fd \in DOMAIN more THEN more[fd]
                                                      ELSE stack[k].base[fd]
  <2>1. after \in Table
    BY <1>5, AppliedTable
  <2> QED
    BY <1>5, <2>1 DEF Applied, Table
<1>7. ASSUME running
      PROVE  \A fd \in Fds : TableOf(new[k])[fd] = IF fd \in DOMAIN more THEN more[fd] ELSE table[fd]
  BY <1>5, <1>7, FollowedTop
<1> HIDE DEF k
<1>8. running => TableOf(new[k]) = after
  <2> SUFFICES ASSUME running PROVE TableOf(new[k]) = after
    OBVIOUS
  <2>1. \A fd \in Fds : TableOf(new[k])[fd] = after[fd]
    BY <1>5, <1>6, <1>7
  <2> QED
    BY <1>5, <1>6, <2>1, TablesAgree
<1>9. ASSUME NEW i \in 1 .. k, NEW fd \in Fds \ DOMAIN more
      PROVE  TableOf(new[i])[fd] = new[i].base[fd]
  <2>1. fd \in Fds \ DOMAIN changes
    OBVIOUS
  <2>2. TableOf(stack[i])[fd] = stack[i].base[fd]
    BY <2>1 DEF Layered, k
  <2>3. CASE new[i] = stack[i]
    BY <2>2, <2>3
  <2>4. CASE i = k /\ running
    BY <1>3, <1>5, <1>7, <2>1, <2>4
  <2>5. new[i] = stack[i] \/ (i = k /\ running)
    <3>1. i \in 1 .. k - 1 \/ i = k
      BY <1>1
    <3> QED
      BY <1>2, <3>1
  <2> QED
    BY <2>3, <2>4, <2>5
<1>10. ASSUME NEW i \in 1 .. k - 1, NEW fd \in Fds \ DOMAIN more
       PROVE  new[i].base[fd] = IF fd \in DOMAIN new[i + 1].undo THEN new[i + 1].undo[fd]
                                ELSE new[i + 1].base[fd]
  <2>1. i \in 1 .. k /\ i + 1 \in 1 .. k
    BY <1>1
  <2>2. stack[i].base[fd] = IF fd \in DOMAIN stack[i + 1].undo THEN stack[i + 1].undo[fd]
                            ELSE stack[i + 1].base[fd]
    BY DEF Layered, k
  <2> QED
    BY <1>3, <2>1, <2>2
<1>11. after = Applied(new[k].base, more)
  BY <1>1, <1>3 DEF k
<1>12. \A i \in 1 .. k : DOMAIN more \intersect DOMAIN new[i].undo = {}
  BY <1>3 DEF k
<1> QED
  BY <1>2, <1>8, <1>9, <1>10, <1>11, <1>12 DEF Layered

(* A list inside the list: what is redirected around it is kept to undo.    *)
LEMMA LayeredPushed ==
  ASSUME NEW changes, NEW stack, NEW table \in Table, Layered(changes, stack, table, TRUE),
         StackOK(stack), Len(stack) < MaxFrames, NEW frame \in Frame,
         NEW redirects \in Seq(Redirect),
         NamedBy(redirects) \intersect DOMAIN changes = {},
         frame.base = Redirected(table, redirects).table, frame.local = None,
         frame.undo = [fd \in NamedBy(redirects) |-> table[fd]]
  PROVE  Layered(changes, Append(stack, frame), Redirected(table, redirects).table, TRUE)
<1> DEFINE k == Len(stack)
           new == Append(stack, frame)
           after == Redirected(table, redirects).table
<1>1. /\ k \in Nat \ {0} /\ stack \in Seq(Frame)
      /\ \A i \in 1 .. k : stack[i] \in Frame
  BY StackTop DEF StackOK
<1>2. /\ Len(new) = k + 1 /\ new[k + 1] = frame
      /\ \A i \in 1 .. k : new[i] = stack[i]
  BY StackAppended
<1>3. after \in Table /\ \A fd \in Fds \ NamedBy(redirects) : after[fd] = table[fd]
  BY RedirectedTable DEF NamedBy
<1>4. /\ table = Applied(stack[k].base, changes) /\ stack[k].base \in Table
      /\ \A fd \in Fds \ DOMAIN changes : table[fd] = stack[k].base[fd]
  <2>1. table = Applied(stack[k].base, changes) /\ stack[k].base \in Table
    BY <1>1, TableOfTyped DEF Layered
  <2> QED
    BY <2>1 DEF Applied, Table
<1>5. \A fd \in Fds : fd \in DOMAIN changes => table[fd] = changes[fd]
  BY <1>4 DEF Applied, Table
<1> HIDE DEF k, new, after
<1>6. TableOf(frame) = after /\ frame.base = after
  BY DEF TableOf, after
<1>7. after = Applied(after, changes)
  <2>1. \A fd \in Fds : fd \in DOMAIN changes => after[fd] = changes[fd]
    BY <1>3, <1>5
  <2> QED
    BY <1>3, <2>1 DEF Applied, Table
<1>8. \A i \in 1 .. k + 1 : DOMAIN changes \intersect DOMAIN new[i].undo = {}
  <2>1. DOMAIN changes \intersect DOMAIN frame.undo = {}
    OBVIOUS
  <2>2. \A i \in 1 .. k : DOMAIN changes \intersect DOMAIN stack[i].undo = {}
    BY DEF Layered, k
  <2> QED
    BY <1>1, <1>2, <2>1, <2>2
<1>9. ASSUME NEW i \in 1 .. k + 1, NEW fd \in Fds \ DOMAIN changes
      PROVE  TableOf(new[i])[fd] = new[i].base[fd]
  <2>1. CASE i = k + 1
    BY <1>2, <1>6, <2>1
  <2>2. CASE i \in 1 .. k
    BY <1>2, <2>2 DEF Layered, k
  <2> QED
    BY <1>1, <2>1, <2>2
<1>10. ASSUME NEW i \in 1 .. k, NEW fd \in Fds \ DOMAIN changes
       PROVE  new[i].base[fd] = IF fd \in DOMAIN new[i + 1].undo THEN new[i + 1].undo[fd]
                                ELSE new[i + 1].base[fd]
  <2>1. CASE i = k
    <3>1. new[i].base[fd] = table[fd]
      BY <1>2, <1>4, <2>1
    <3>2. new[i + 1] = frame
      BY <1>2, <2>1
    <3>3. CASE fd \in NamedBy(redirects)
      BY <3>1, <3>2, <3>3
    <3>4. CASE fd \notin NamedBy(redirects)
      BY <1>3, <1>6, <3>1, <3>2, <3>4
    <3> QED
      BY <3>3, <3>4
  <2>2. CASE i \in 1 .. k - 1
    <3>1. i + 1 \in 1 .. k
      BY <1>1, <2>2
    <3>2. stack[i].base[fd] = IF fd \in DOMAIN stack[i + 1].undo THEN stack[i + 1].undo[fd]
                              ELSE stack[i + 1].base[fd]
      BY <2>2 DEF Layered, k
    <3> QED
      BY <1>2, <3>1, <3>2
  <2> QED
    BY <1>1, <2>1, <2>2
<1>11. Len(new) - 1 = k
  BY <1>1, <1>2
<1>12. Layered(changes, new, after, TRUE)
  <2>1. /\ after = Applied(new[Len(new)].base, changes)
        /\ TableOf(new[Len(new)]) = after
    BY <1>2, <1>6, <1>7
  <2> QED
    BY <1>2, <1>8, <1>9, <1>10, <1>11, <2>1 DEF Layered
<1> QED
  BY <1>12 DEF new, after


(* The end of a list: what was redirected around it is undone.              *)
LEMMA LayeredPopped ==
  ASSUME NEW changes, \A fd \in DOMAIN changes : changes[fd] \in Files,
         NEW stack, NEW table \in Table, NEW ran, Layered(changes, stack, table, ran),
         StackOK(stack), Len(stack) > 1,
         NEW after, after = Applied(table, stack[Len(stack)].undo),
         NEW new, NEW running \in BOOLEAN,
         IF running THEN new = Followed(Front(stack), changes) ELSE new = Front(stack)
  PROVE  Layered(changes, new, after, running)
<1> DEFINE k == Len(stack)
           m == k - 1
           front == Front(stack)
<1>1. /\ k \in Nat \ {0} /\ m \in Nat \ {0} /\ m + 1 = k
      /\ \A i \in 1 .. k : stack[i] \in Frame
  BY StackTop DEF StackOK
<1>2. /\ StackOK(front) /\ Len(front) = m
      /\ \A i \in 1 .. m : front[i] = stack[i]
  BY StackFront
<1> HIDE DEF k, m, front
<1>3. /\ Len(new) = m /\ StackOK(new) /\ SameFrames(front, new, m)
      /\ \A i \in 1 .. m - 1 : new[i] = front[i]
  <2>1. CASE running
    <3>1. new = Followed(front, changes)
      BY <2>1 DEF front
    <3> QED
      BY <1>2, <3>1, StackFollowed
  <2>2. CASE ~running
    BY <1>1, <1>2, <2>2 DEF SameFrames, front
  <2> QED
    BY <2>1, <2>2
<1>4. \A i \in 1 .. m : new[i].base = stack[i].base /\ new[i].undo = stack[i].undo
  BY <1>2, <1>3 DEF SameFrames, Stable
<1>5. /\ m \in 1 .. k /\ k \in 1 .. k /\ m \in 1 .. m
      /\ stack[m] \in Frame /\ stack[k] \in Frame /\ new[m] \in Frame
  <2>1. m \in 1 .. k /\ k \in 1 .. k /\ m \in 1 .. m
    BY <1>1
  <2>2. new \in Seq(Frame)
    BY <1>3 DEF StackOK
  <2> QED
    BY <1>1, <1>3, <2>1, <2>2
<1>6. /\ stack[k].base \in Table /\ stack[m].base \in Table
      /\ TableOf(stack[m]) \in Table /\ TableOf(new[m]) \in Table
  BY <1>5, TableOfTyped
<1>7. \A fd \in DOMAIN stack[k].undo : stack[k].undo[fd] \in Files
  BY <1>5, PartialFunctions DEF Frame
<1>8. /\ table = Applied(stack[k].base, changes)
      /\ DOMAIN changes \intersect DOMAIN stack[k].undo = {}
  BY <1>5 DEF Layered, k
<1>9. after \in Table /\ Applied(stack[m].base, changes) \in Table
  BY <1>6, <1>7, AppliedTable DEF k
<1>10. ASSUME NEW fd \in Fds
       PROVE  after[fd] = Applied(stack[m].base, changes)[fd]
  <2>1. after[fd] = IF fd \in DOMAIN stack[k].undo THEN stack[k].undo[fd] ELSE table[fd]
    BY DEF Applied, Table, k
  <2>2. /\ table[fd] = IF fd \in DOMAIN changes THEN changes[fd] ELSE stack[k].base[fd]
        /\ Applied(stack[m].base, changes)[fd] =
             IF fd \in DOMAIN changes THEN changes[fd] ELSE stack[m].base[fd]
    BY <1>6, <1>8 DEF Applied, Table
  <2>3. CASE fd \in DOMAIN changes
    BY <1>8, <2>1, <2>2, <2>3
  <2>4. CASE fd \notin DOMAIN changes
    <3>1. m \in 1 .. k - 1
      BY <1>1
    <3>2. stack[m].base[fd] = IF fd \in DOMAIN stack[m + 1].undo THEN stack[m + 1].undo[fd]
                              ELSE stack[m + 1].base[fd]
      BY <2>4, <3>1 DEF Layered, k
    <3> QED
      BY <1>1, <2>1, <2>2, <2>4, <3>2
  <2> QED
    BY <2>3, <2>4
<1>11. after = Applied(stack[m].base, changes)
  BY <1>9, <1>10, TablesAgree
<1>12. ASSUME running
       PROVE  \A fd \in Fds : TableOf(new[m])[fd] = IF fd \in DOMAIN changes THEN changes[fd]
                                                     ELSE TableOf(stack[m])[fd]
  <2>1. new = Followed(front, changes) /\ front[m] = stack[m]
    BY <1>2, <1>5, <1>12 DEF front
  <2> QED
    BY <1>2, <2>1, FollowedTop
<1>13. ASSUME NEW i \in 1 .. m, NEW fd \in Fds \ DOMAIN changes
       PROVE  TableOf(stack[i])[fd] = stack[i].base[fd]
  <2>1. i \in 1 .. k
    BY <1>1
  <2> QED
    BY <2>1 DEF Layered, k
<1>14. running => TableOf(new[m]) = after
  <2> SUFFICES ASSUME running PROVE TableOf(new[m]) = after
    OBVIOUS
  <2>1. ASSUME NEW fd \in Fds PROVE TableOf(new[m])[fd] = after[fd]
    <3>1. Applied(stack[m].base, changes)[fd] =
             IF fd \in DOMAIN changes THEN changes[fd] ELSE stack[m].base[fd]
      BY <1>6 DEF Applied, Table
    <3> QED
      BY <1>5, <1>10, <1>12, <1>13, <3>1
  <2> QED
    BY <1>6, <1>9, <2>1, TablesAgree
<1>15. ASSUME NEW i \in 1 .. m, NEW fd \in Fds \ DOMAIN changes
       PROVE  TableOf(new[i])[fd] = new[i].base[fd]
  <2>1. new[i] = stack[i] \/ (i = m /\ running)
    <3>1. CASE running
      <4>1. i \in 1 .. m - 1 \/ i = m
        BY <1>1
      <4> QED
        BY <1>2, <1>3, <3>1, <4>1
    <3>2. CASE ~running
      BY <1>2, <3>2 DEF front
    <3> QED
      BY <3>1, <3>2
  <2>2. CASE new[i] = stack[i]
    BY <1>13, <2>2
  <2>3. CASE i = m /\ running
    BY <1>4, <1>12, <1>13, <2>3
  <2> QED
    BY <2>1, <2>2, <2>3
<1>16. ASSUME NEW i \in 1 .. m - 1, NEW fd \in Fds \ DOMAIN changes
       PROVE  new[i].base[fd] = IF fd \in DOMAIN new[i + 1].undo THEN new[i + 1].undo[fd]
                                ELSE new[i + 1].base[fd]
  <2>1. i \in 1 .. m /\ i + 1 \in 1 .. m /\ i \in 1 .. k - 1
    BY <1>1
  <2>2. stack[i].base[fd] = IF fd \in DOMAIN stack[i + 1].undo THEN stack[i + 1].undo[fd]
                            ELSE stack[i + 1].base[fd]
    BY <2>1 DEF Layered, k
  <2> QED
    BY <1>4, <2>1, <2>2
<1>17. \A i \in 1 .. m : DOMAIN changes \intersect DOMAIN new[i].undo = {}
  <2>1. \A i \in 1 .. m : i \in 1 .. k
    BY <1>1
  <2>2. \A i \in 1 .. k : DOMAIN changes \intersect DOMAIN stack[i].undo = {}
    BY DEF Layered, k
  <2> QED
    BY <1>4, <2>1, <2>2
<1>18. after = Applied(new[m].base, changes)
  BY <1>4, <1>5, <1>11
<1> QED
  BY <1>3, <1>14, <1>15, <1>16, <1>17, <1>18 DEF Layered

LEMMA LayeredAlone ==
  ASSUME NEW table \in Table, NEW running
  PROVE  Layered(<<>>, << List("list", table) >>, table, running)
<1> DEFINE frame == List("list", table)
           stack == <<frame>>
           none == <<>>
<1>1. frame.base = table /\ frame.local = None /\ frame.undo = none /\ DOMAIN none = {}
  BY DEF List
<1> HIDE DEF frame, none
<1>2. Len(stack) = 1 /\ stack[1] = frame
  OBVIOUS
<1>3. TableOf(frame) = table
  BY <1>1 DEF TableOf
<1>4. table = Applied(table, none)
  BY <1>1 DEF Applied, Table
<1> HIDE DEF stack
<1>5. Layered(none, stack, table, running)
  BY <1>1, <1>2, <1>3, <1>4 DEF Layered
<1> QED
  BY <1>5 DEF frame, none, stack

(* exec >f: what it changed is recorded, and no more.                       *)
LEMMA ExecRecords ==
  ASSUME NEW base \in Table, NEW changes, NEW table \in Table, table = Applied(base, changes),
         NEW redirects \in Seq(Redirect)
  PROVE  LET after == Redirected(table, redirects).table
             more == ExecChanges(changes, table, after, redirects)
         IN  /\ DOMAIN changes \subseteq DOMAIN more
             /\ DOMAIN more \subseteq DOMAIN changes \union NamedBy(redirects)
             /\ after \in Table /\ after = Applied(base, more)
<1> DEFINE after == Redirected(table, redirects).table
           now == {fd \in DOMAIN after : \/ after[fd] # table[fd]
                                         \/ \E d \in ToSet(redirects) : d.fd = fd /\ d.op = "open"}
           more == ExecChanges(changes, table, after, redirects)
<1>1. after \in Table /\ \A fd \in Fds \ NamedBy(redirects) : after[fd] = table[fd]
  BY RedirectedTable DEF NamedBy
<1> HIDE DEF after
<1>2. now \subseteq NamedBy(redirects)
  <2>1. DOMAIN after = Fds
    BY <1>1 DEF Table
  <2> QED
    BY <1>1, <2>1 DEF NamedBy
<1>3. \A fd \in Fds \ now : after[fd] = table[fd]
  BY <1>1 DEF Table
<1>4. more = [fd \in DOMAIN changes \union now |-> IF fd \in now THEN after[fd] ELSE changes[fd]]
  BY DEF ExecChanges
<1>5. \A fd \in Fds : table[fd] = IF fd \in DOMAIN changes THEN changes[fd] ELSE base[fd]
  BY DEF Applied, Table
<1> HIDE DEF now
<1>6. /\ DOMAIN more = DOMAIN changes \union now
      /\ \A fd \in DOMAIN changes \union now : more[fd] = IF fd \in now THEN after[fd] ELSE changes[fd]
  BY <1>4
<1> HIDE DEF more
<1>7. \A fd \in Fds : after[fd] = IF fd \in DOMAIN more THEN more[fd] ELSE base[fd]
  BY <1>3, <1>5, <1>6
<1>8. after = Applied(base, more)
  BY <1>1, <1>7 DEF Applied, Table
<1> QED
  BY <1>1, <1>2, <1>6, <1>8 DEF after, more


LEMMA FilesMoved ==
  ASSUME TInv, FilesInv, NEW d \in Live, NEW shell, NEW stack, NEW to, NEW table,
         Moved(d, shell, stack, to), Changed(wanted', wanted, d, table),
         Layered(shell.fd_changes, stack, table, to = "running")
  PROVE  FilesInv'
<1>1. Live' = Live /\ DOMAIN frames = Live /\ DOMAIN flow = Live /\ DOMAIN wanted = Live
  BY DEF Moved, Changed, Live, TInv
<1>2. ASSUME NEW c \in Live
      PROVE  Layered(shells'[c].fd_changes, frames'[c], wanted'[c], flow'[c] = "running")
  <2>1. CASE c = d
    <3>1. shells'[c] = shell /\ frames'[c] = stack /\ flow'[c] = to /\ wanted'[c] = table
      BY <1>1, <2>1 DEF Moved, Changed, Live
    <3> QED
      BY <3>1
  <2>2. CASE c # d
    <3>1. Still(c) /\ wanted'[c] = wanted[c]
      BY <1>1, <1>2, <2>2, OthersStill DEF Changed
    <3> QED
      BY <3>1 DEF Still, FilesInv
  <2> QED
    BY <2>1, <2>2
<1> QED
  BY <1>1, <1>2 DEF FilesInv

(* What holds of a shell that acts: it sees the files that it ought to see. *)
LEMMA ActingSees ==
  ASSUME TInv, FilesInv, NEW c \in Live, flow[c] = "running"
  PROVE  /\ Layered(shells[c].fd_changes, frames[c], wanted[c], TRUE)
         /\ Current(c) = wanted[c] /\ wanted[c] \in Table /\ StackOK(frames[c])
         /\ Current(c) = TableOf(frames[c][Len(frames[c])])
         /\ \A fd \in DOMAIN shells[c].fd_changes : shells[c].fd_changes[fd] \in Files
         /\ Len(frames[c]) \in Nat \ {0} /\ \A i \in 1 .. Len(frames[c]) : frames[c][i] \in Frame
<1>1. StackOK(frames[c]) /\ wanted[c] \in Table /\ ShellOK(shells[c])
  BY DEF TInv, StackOK
<1>2. Layered(shells[c].fd_changes, frames[c], wanted[c], flow[c] = "running")
  BY DEF FilesInv
<1>3. Layered(shells[c].fd_changes, frames[c], wanted[c], TRUE)
  BY <1>2 DEF Layered
<1>4. Top(c) = frames[c][Len(frames[c])] /\ Len(frames[c]) \in Nat \ {0}
  BY <1>1, StackTop DEF StackOK, Top
<1>5. \A i \in 1 .. Len(frames[c]) : frames[c][i] \in Frame
  BY <1>1 DEF StackOK
<1>6. Current(c) = TableOf(frames[c][Len(frames[c])])
  BY <1>4 DEF Current, TableOf
<1> QED
  BY <1>1, <1>3, <1>4, <1>5, <1>6 DEF Layered, ShellOK

LEMMA RanFiles ==
  ASSUME ~ExecAnywhere, TInv, FilesInv, NEW c \in Live, NEW s \in Commands, NEW shell, NEW to,
         Ran(c, s, shell, to)
  PROVE  FilesInv'
<1>1. PICK stack : /\ Moved(c, shell, stack, to)
                   /\ stack = IF to = "running" THEN Followed(frames[c], shell.fd_changes)
                              ELSE frames[c]
  BY RanMoved
<1>2. flow[c] = "running" /\ ShellOK(shell) /\ FilesFollowed(c, s, shell)
  BY DEF Ran, Acts
<1> DEFINE changes == shells[c].fd_changes
           k == Len(frames[c])
           base == frames[c][k].base
           running == to = "running"
<1>3. /\ Layered(changes, frames[c], wanted[c], TRUE)
      /\ Current(c) = wanted[c] /\ wanted[c] \in Table /\ StackOK(frames[c])
      /\ k \in Nat \ {0} /\ \A i \in 1 .. k : frames[c][i] \in Frame
  BY <1>2, ActingSees
<1>4. /\ base \in Table /\ wanted[c] = Applied(base, changes)
      /\ \A i \in 1 .. k : DOMAIN changes \intersect DOMAIN frames[c][i].undo = {}
  <2>1. frames[c][k] \in Frame
    BY <1>3
  <2> QED
    BY <1>3, <2>1, TableOfTyped DEF Layered
<1>5. running \in BOOLEAN /\ \A fd \in DOMAIN shell.fd_changes : shell.fd_changes[fd] \in Files
  BY <1>2 DEF ShellOK
<1>6. IF running THEN stack = Followed(frames[c], shell.fd_changes) ELSE stack = frames[c]
  BY <1>1
<1> HIDE DEF changes, base, running
<1>7. CASE wanted' = wanted /\ shell.fd_changes = shells[c].fd_changes
  <2>1. shell.fd_changes = changes
    BY <1>7 DEF changes
  <2>2. Layered(shell.fd_changes, stack, wanted[c], running)
    <3>1. wanted[c] = Applied(frames[c][Len(frames[c])].base, shell.fd_changes)
      BY <1>4, <2>1 DEF base
    <3>2. \A i \in 1 .. Len(frames[c]) :
            DOMAIN shell.fd_changes \intersect DOMAIN frames[c][i].undo = {}
      BY <1>4, <2>1
    <3>3. Layered(shell.fd_changes, frames[c], wanted[c], TRUE)
      BY <1>3, <2>1
    <3>4. wanted[c] \in Table /\ StackOK(frames[c])
      BY <1>3
    <3> DEFINE table == wanted[c]
               old == frames[c]
               more == shell.fd_changes
    <3>5. /\ table \in Table /\ StackOK(old) /\ Layered(more, old, table, TRUE)
          /\ table = Applied(old[Len(old)].base, more)
          /\ \A i \in 1 .. Len(old) : DOMAIN more \intersect DOMAIN old[i].undo = {}
          /\ IF running THEN stack = Followed(old, more) ELSE stack = old
          /\ \A fd \in DOMAIN more : more[fd] \in Files
          /\ running \in BOOLEAN
      BY <1>5, <1>6, <3>1, <3>2, <3>3, <3>4
    <3> HIDE DEF table, old, more, k
    <3>6. Layered(more, stack, table, running)
      BY <3>5, LayeredOn
    <3> QED
      BY <3>6 DEF more, table
  <2>3. Changed(wanted', wanted, c, wanted[c])
    BY <1>7 DEF Changed
  <2> QED
    BY <1>1, <2>2, <2>3, FilesMoved DEF running
<1>8. CASE /\ Execs(s) /\ Files_of(c, s).ok /\ Apart(c, s)
           /\ wanted' = [wanted EXCEPT ![c] = Redirected(@, s.redirects).table]
           /\ shell.fd_changes = Recorded(c, s).fd_changes
  <2> DEFINE after == Redirected(wanted[c], s.redirects).table
             more == ExecChanges(changes, wanted[c], after, s.redirects)
  <2>1. s.redirects \in Seq(Redirect)
    BY CommandFacts DEF Commands
  <2>2. /\ DOMAIN changes \subseteq DOMAIN more
        /\ DOMAIN more \subseteq DOMAIN changes \union NamedBy(s.redirects)
        /\ after \in Table /\ after = Applied(base, more)
    <3> HIDE DEF k
    <3> QED
      BY <1>3, <1>4, <2>1, ExecRecords
  <2>3. shell.fd_changes = more
    <3>1. DOMAIN shells[c] = Fields
      BY DEF TInv, Inv
    <3>2. Recorded(c, s) = [shells[c] EXCEPT !.fd_changes =
                              ExecChanges(@, Current(c), Files_of(c, s).table, s.redirects)]
      BY <1>8 DEF Recorded
    <3>3. Recorded(c, s).fd_changes =
            ExecChanges(shells[c].fd_changes, Current(c), Files_of(c, s).table, s.redirects)
      BY <3>1, <3>2 DEF Fields
    <3> QED
      BY <1>3, <1>8, <3>3 DEF Files_of, changes
  <2> HIDE DEF after, more
  <2>4. \A i \in 1 .. k : DOMAIN more \intersect DOMAIN frames[c][i].undo = {}
    <3>1. \A i \in DOMAIN frames[c] : NamedBy(s.redirects) \intersect DOMAIN frames[c][i].undo = {}
      BY <1>8 DEF Apart, NamedBy
    <3>2. DOMAIN frames[c] = 1 .. k
      BY <1>3 DEF StackOK
    <3> HIDE DEF k
    <3> QED
      BY <1>4, <2>2, <3>1, <3>2
  <2>5. Layered(more, stack, after, running)
    <3>1. after = Applied(frames[c][Len(frames[c])].base, more)
      BY <2>2 DEF base
    <3>2. \A i \in 1 .. Len(frames[c]) : DOMAIN more \intersect DOMAIN frames[c][i].undo = {}
      BY <2>4
    <3>3. IF running THEN stack = Followed(frames[c], more) ELSE stack = frames[c]
      BY <1>6, <2>3
    <3>4. \A fd \in DOMAIN more : more[fd] \in Files
      BY <1>5, <2>3
    <3>5. wanted[c] \in Table /\ StackOK(frames[c]) /\ Layered(changes, frames[c], wanted[c], TRUE)
      BY <1>3
    <3> DEFINE table == wanted[c]
               old == frames[c]
    <3>6. /\ table \in Table /\ StackOK(old) /\ Layered(changes, old, table, TRUE)
          /\ after = Applied(old[Len(old)].base, more)
          /\ \A i \in 1 .. Len(old) : DOMAIN more \intersect DOMAIN old[i].undo = {}
          /\ IF running THEN stack = Followed(old, more) ELSE stack = old
          /\ \A fd \in DOMAIN more : more[fd] \in Files
          /\ DOMAIN changes \subseteq DOMAIN more /\ running \in BOOLEAN
      BY <1>5, <2>2, <3>1, <3>2, <3>3, <3>4, <3>5
    <3> HIDE DEF table, old, k
    <3> QED
      BY <3>6, LayeredOn
  <2>6. Changed(wanted', wanted, c, after)
    BY <1>8 DEF Changed, TInv, after
  <2> QED
    BY <1>1, <2>3, <2>5, <2>6, FilesMoved DEF running
<1> QED
  BY <1>2, <1>7, <1>8 DEF FilesFollowed

LEMMA EnteredFiles ==
  ASSUME ~ExecAnywhere, TInv, FilesInv, NEW c \in Live, NEW shell, NEW frame, NEW redirects,
         NEW names, Entered(c, shell, frame, redirects, names)
  PROVE  FilesInv'
<1>1. Moved(c, shell, Append(frames[c], frame), flow[c])
  BY EnteredMoved
<1>2. /\ flow[c] = "running" /\ Len(frames[c]) < MaxFrames /\ frame \in Frame
      /\ redirects \in Seq(Redirect) /\ NamedBy(redirects) \intersect DOMAIN shells[c].fd_changes = {}
      /\ frame.base = Redirected(Current(c), redirects).table /\ frame.local = None
      /\ frame.undo = [fd \in NamedBy(redirects) |-> wanted[c][fd]]
      /\ shell.fd_changes = shells[c].fd_changes
  BY DEF Entered, Acts
<1>3. /\ Layered(shells[c].fd_changes, frames[c], wanted[c], TRUE)
      /\ Current(c) = wanted[c] /\ wanted[c] \in Table /\ StackOK(frames[c])
  BY <1>2, ActingSees
<1> DEFINE after == Redirected(wanted[c], redirects).table
<1>4. Layered(shell.fd_changes, Append(frames[c], frame), after, TRUE)
  BY <1>2, <1>3, LayeredPushed
<1>5. Changed(wanted', wanted, c, after)
  BY DEF Entered, Changed, TInv
<1> HIDE DEF after
<1>6. Layered(shell.fd_changes, Append(frames[c], frame), after, flow[c] = "running")
  BY <1>2, <1>4
<1> QED
  BY <1>1, <1>5, <1>6, FilesMoved

LEMMA DefinedFiles ==
  ASSUME TInv, FilesInv, NEW c \in Live, NEW name, DefineFunction(c, name)
  PROVE  FilesInv'
<1>1. PICK shell, stack : /\ Moved(c, shell, stack, "running")
                          /\ stack = Followed(frames[c], shell.fd_changes)
                          /\ SameBut(shells[c], shell, {"functions"}) /\ ShellOK(shell)
                          /\ Acts(c) /\ UNCHANGED <<script, cwd, umask, wanted>>
  BY DefinedMoved
<1>2. shell.fd_changes = shells[c].fd_changes
  BY <1>1 DEF SameBut, Fields
<1>3. /\ Layered(shell.fd_changes, frames[c], wanted[c], TRUE)
      /\ wanted[c] \in Table /\ StackOK(frames[c])
      /\ \A fd \in DOMAIN shell.fd_changes : shell.fd_changes[fd] \in Files
  BY <1>1, <1>2, ActingSees DEF Acts
<1>4. /\ wanted[c] = Applied(frames[c][Len(frames[c])].base, shell.fd_changes)
      /\ \A i \in 1 .. Len(frames[c]) : DOMAIN shell.fd_changes \intersect DOMAIN frames[c][i].undo = {}
  BY <1>3 DEF Layered
<1> DEFINE running == "running" = "running"
<1>5. running \in BOOLEAN /\ running
  OBVIOUS
<1> HIDE DEF running
<1>6. Layered(shell.fd_changes, stack, wanted[c], running)
  BY <1>1, <1>3, <1>4, <1>5, LayeredOn
<1>7. Changed(wanted', wanted, c, wanted[c])
  BY <1>1 DEF Changed
<1> QED
  BY <1>1, <1>6, <1>7, FilesMoved DEF running

LEMMA LeaveFiles ==
  ASSUME TInv, FilesInv, NEW c \in Live, NEW to, Leave(c, to)
  PROVE  FilesInv'
<1>1. PICK stack : /\ Moved(c, Left(c), stack, to) /\ Len(frames[c]) > 1
                   /\ stack = IF to = "running"
                                THEN Followed(Front(frames[c]), shells[c].fd_changes)
                                ELSE Front(frames[c])
  BY LeaveMoved
<1> DEFINE running == to = "running"
           after == Applied(wanted[c], frames[c][Len(frames[c])].undo)
<1>2. /\ Left(c).fd_changes = shells[c].fd_changes
      /\ Top(c) = frames[c][Len(frames[c])]
  BY <1>1, LeftFacts
<1>3. Changed(wanted', wanted, c, after)
  BY <1>2, LeaveStep
<1>4. /\ Layered(shells[c].fd_changes, frames[c], wanted[c], flow[c] = "running")
      /\ StackOK(frames[c]) /\ wanted[c] \in Table
      /\ \A fd \in DOMAIN shells[c].fd_changes : shells[c].fd_changes[fd] \in Files
  BY DEF FilesInv, TInv, StackOK, ShellOK
<1>5. running \in BOOLEAN
  OBVIOUS
<1>6. IF running THEN stack = Followed(Front(frames[c]), shells[c].fd_changes)
      ELSE stack = Front(frames[c])
  BY <1>1
<1> HIDE DEF running
<1>7. Layered(shells[c].fd_changes, stack, after, running)
  BY <1>1, <1>4, <1>5, <1>6, LayeredPopped
<1> HIDE DEF after
<1> QED
  BY <1>1, <1>2, <1>3, <1>7, FilesMoved DEF running


\* The next list starts with the table the command was given, which exec has not changed.
LEMMA NextListFiles ==
  ASSUME ~ExecAnywhere, TInv, FilesInv, NEW c \in Live, NextList(c)
  PROVE  FilesInv'
<1>1. PICK stack : /\ Kept(c, stack) /\ Changed(frames', frames, c, stack)
                   /\ \A i \in 1 .. Len(stack) - 1 : stack[i] = frames[c][i]
                   /\ stack[Len(stack)].local = None
  BY NextListStep
<1>2. /\ shells' = shells /\ flow' = flow /\ wanted' = wanted
      /\ flow[c] = "running" /\ Current(c) = Top(c).base
  BY DEF NextList
<1>3. Moved(c, shells[c], stack, flow[c]) /\ Changed(wanted', wanted, c, wanted[c])
  BY <1>1, <1>2 DEF Moved, Changed
<1> DEFINE k == Len(frames[c])
           changes == shells[c].fd_changes
<1>4. /\ Layered(changes, frames[c], wanted[c], TRUE)
      /\ Current(c) = TableOf(frames[c][k]) /\ Current(c) = wanted[c]
      /\ k \in Nat \ {0} /\ StackOK(frames[c])
  BY <1>2, ActingSees
<1>5. Top(c) = frames[c][k]
  BY <1>4, StackTop DEF Top, StackOK
<1>6. Len(stack) = k
  BY <1>1 DEF Kept
<1>7. \A i \in 1 .. k : stack[i].base = frames[c][i].base /\ stack[i].undo = frames[c][i].undo
  BY <1>1, <1>6 DEF Kept, SameFrames, Stable
<1> HIDE DEF k, changes
<1>8. TableOf(stack[k]) = stack[k].base /\ stack[k].base = wanted[c]
  <2>1. stack[k].local = None
    BY <1>1, <1>6
  <2>2. k \in 1 .. k
    BY <1>4
  <2>3. stack[k].base = frames[c][k].base
    BY <1>7, <2>2
  <2> QED
    BY <1>2, <1>4, <1>5, <2>1, <2>3 DEF TableOf
<1>9. ASSUME NEW i \in 1 .. k, NEW fd \in Fds \ DOMAIN changes
      PROVE  TableOf(stack[i])[fd] = stack[i].base[fd]
  <2>1. CASE i = k
    BY <1>8, <2>1
  <2>2. CASE i \in 1 .. k - 1
    <3>1. stack[i] = frames[c][i]
      BY <1>1, <1>6, <2>2
    <3> QED
      BY <1>4, <3>1 DEF Layered, k
  <2> QED
    BY <1>4, <2>1, <2>2
<1>10. ASSUME NEW i \in 1 .. k - 1, NEW fd \in Fds \ DOMAIN changes
       PROVE  stack[i].base[fd] = IF fd \in DOMAIN stack[i + 1].undo THEN stack[i + 1].undo[fd]
                                  ELSE stack[i + 1].base[fd]
  <2>1. i \in 1 .. k /\ i + 1 \in 1 .. k
    BY <1>4
  <2>2. /\ stack[i].base = frames[c][i].base
        /\ stack[i + 1].base = frames[c][i + 1].base
        /\ stack[i + 1].undo = frames[c][i + 1].undo
    BY <1>7, <2>1
  <2>3. frames[c][i].base[fd] = IF fd \in DOMAIN frames[c][i + 1].undo THEN frames[c][i + 1].undo[fd]
                                ELSE frames[c][i + 1].base[fd]
    BY <1>4 DEF Layered, k
  <2> QED
    BY <2>2, <2>3
<1>11. \A i \in 1 .. k : DOMAIN changes \intersect DOMAIN stack[i].undo = {}
  BY <1>4, <1>7 DEF Layered, k
<1>12. wanted[c] = Applied(stack[k].base, changes)
  BY <1>4, <1>7 DEF Layered, k
<1>13. Layered(changes, stack, wanted[c], flow[c] = "running")
  BY <1>6, <1>8, <1>9, <1>10, <1>11, <1>12 DEF Layered
<1> QED
  BY <1>3, <1>13, FilesMoved DEF changes

LEMMA EndLineFiles ==
  ASSUME TInv, FilesInv, EndLine
  PROVE  FilesInv'
<1>1. PICK shell : /\ Changed(shells', shells, Main, shell) /\ ShellOK(shell)
                   /\ shell.fd_changes = <<>>
  BY EndLineStep
<1> DEFINE table == Applied(Head(frames[Main]).base, shells[Main].fd_changes)
           stack == << List("list", table) >>
<1>2. /\ Moved(Main, shell, stack, "running") /\ Changed(wanted', wanted, Main, wanted[Main])
      /\ Len(frames[Main]) = 1
  BY <1>1 DEF EndLine, Moved, Changed
<1>3. /\ Main \in Live /\ wanted[Main] \in Table /\ frames[Main] \in Seq(Frame)
      /\ frames[Main] # <<>>
  BY DEF TInv, Inv
<1>4. Head(frames[Main]) = frames[Main][1]
  BY <1>3
<1>5. table = wanted[Main]
  BY <1>2, <1>3, <1>4 DEF FilesInv, Layered
<1> HIDE DEF table
<1>6. Layered(<<>>, stack, wanted[Main], "running" = "running")
  BY <1>3, <1>5, LayeredAlone
<1> HIDE DEF stack
<1> QED
  BY <1>1, <1>2, <1>3, <1>6, FilesMoved

LEMMA StartFiles ==
  ASSUME TInv, FilesInv, NEW c, NEW e, StartCopy(c, e)
  PROVE  FilesInv'
<1> DEFINE stack == << List("list", Current(c)) >>
<1>1. /\ c \in Live /\ e \in Copies \ Live /\ flow[c] = "running"
      /\ Added(shells', shells, e, Copied(shells[c]))
      /\ Added(frames', frames, e, stack)
      /\ Added(flow', flow, e, "running")
      /\ Added(wanted', wanted, e, wanted[c])
      /\ Live' = Live \union {e}
  BY StartStep
<1>2. Copied(shells[c]).fd_changes = <<>>
  BY <1>1, CopiedFacts
<1>3. Current(c) = wanted[c] /\ wanted[c] \in Table
  BY <1>1, ActingSees
<1>4. Layered(<<>>, stack, wanted[c], "running" = "running")
  <2> DEFINE table == wanted[c]
  <2>1. stack = << List("list", table) >>
    BY <1>3
  <2> HIDE DEF table, stack
  <2>2. Layered(<<>>, << List("list", table) >>, table, "running" = "running")
    BY <1>3, LayeredAlone DEF table
  <2> QED
    BY <2>1, <2>2 DEF table
<1> HIDE DEF stack
<1>5. ASSUME NEW d \in Live'
      PROVE  Layered(shells'[d].fd_changes, frames'[d], wanted'[d], flow'[d] = "running")
  <2>1. CASE d = e
    <3>1. /\ shells'[d].fd_changes = <<>> /\ frames'[d] = stack /\ wanted'[d] = wanted[c]
          /\ flow'[d] = "running"
      BY <1>1, <1>2, <2>1 DEF Added
    <3> QED
      BY <1>4, <3>1
  <2>2. CASE d # e
    <3>1. /\ d \in Live /\ shells'[d] = shells[d] /\ frames'[d] = frames[d]
          /\ wanted'[d] = wanted[d] /\ flow'[d] = flow[d]
      BY <1>1, <2>2 DEF Added
    <3> QED
      BY <3>1 DEF FilesInv
  <2> QED
    BY <2>1, <2>2
<1> QED
  BY <1>5 DEF FilesInv

LEMMA NextFiles ==
  ASSUME ~ExecAnywhere, TInv, FilesInv, [Next]_vars
  PROVE  FilesInv'
<1>1. CASE \E c \in Live : \E s \in Commands : \E shell, to : Ran(c, s, shell, to)
  BY <1>1, RanFiles
<1>2. CASE \E c \in Live : Entering(c)
  BY <1>2, EnteredFiles DEF Entering
<1>3. CASE \E c \in Live : \E name : DefineFunction(c, name)
  BY <1>3, DefinedFiles
<1>4. CASE \E c \in Live : \E to \in Flows : Leave(c, to)
  BY <1>4, LeaveFiles
<1>5. CASE \E c \in Live : NextList(c)
  BY <1>5, NextListFiles
<1>6. CASE \E c \in Live : \E e : StartCopy(c, e)
  BY <1>6, StartFiles
<1>7. CASE \E c \in Live : EndCopy(c)
  <2>1. \A d \in Live' : /\ d \in Live /\ shells'[d] = shells[d] /\ frames'[d] = frames[d]
                         /\ flow'[d] = flow[d] /\ wanted'[d] = wanted[d]
    BY <1>7, EndStep
  <2> QED
    BY <2>1 DEF FilesInv
<1>8. CASE EndLine
  BY <1>8, EndLineFiles
<1>9. CASE Outside
  BY <1>9 DEF Outside, FilesInv, Live
<1> QED
  BY <1>1, <1>2, <1>3, <1>4, <1>5, <1>6, <1>7, <1>8, <1>9, Cases

LEMMA InitFiles ==
  ASSUME Init
  PROVE  FilesInv
<1>1. Terminal \in Table
  BY NamesAssumption DEF Terminal, Table
<1>2. /\ Live = {Main} /\ shells[Main].fd_changes = <<>>
      /\ frames[Main] = << List("list", Terminal) >> /\ wanted[Main] = Terminal
  BY DEF Init, Live
<1> DEFINE table == Terminal
<1> HIDE DEF table
<1>3. Layered(<<>>, << List("list", table) >>, table, flow[Main] = "running")
  BY <1>1, LayeredAlone DEF table
<1> QED
  BY <1>2, <1>3 DEF FilesInv, table

(* For every script in which what exec changes is not redirected around it  *)
(* on the same line (see ExecAnywhere): every command of every shell is     *)
(* given the files that the redirections around it and the execs before it  *)
(* say (exec/redirect.rs `record_fd_changes', exec/mod.rs                   *)
(* `follow_fd_changes').                                                    *)
THEOREM FilesAreFollowed ==
  ASSUME ~ExecAnywhere
  PROVE  Spec => []FilesFollow
<1>1. TInv /\ FilesInv => FilesFollow
  BY ActingSees DEF FilesFollow
<1>2. Init => TInv /\ FilesInv
  BY InitTInv, InitFiles
<1>3. TInv /\ FilesInv /\ [Next]_vars => TInv' /\ FilesInv'
  BY NextTInv, NextFiles
<1> QED
  BY <1>1, <1>2, <1>3, PTL DEF Spec

=============================================================================
