----------------------------- MODULE MCExecutor -----------------------------
(***************************************************************************)
(* Instances of Executor for TLC: which commands programs are made of.     *)
(***************************************************************************)
EXTENDS Executor

(* Loops, functions and substitutions, what leaves them or fails half way,  *)
(* and where a failure counts under `-e'.  At the deepest level only what   *)
(* leaves loops and functions, and what asks for one level more.            *)
ControlKinds     == {"simple", "while", "function"}
ControlSimples   == {"break", "continue", "return", "call", "set", "failing", "cmdsub",
                     "assign"}
ControlOperators == {"||", "!"}
ControlDeepKinds   == {"simple", "while"}
ControlDeepSimples == {"break", "return", "call"}

(* Signals and their commands, Ctrl+C, text that is run, the shell's end, in *)
(* the other compound commands.                                             *)
SignalKinds    == {"simple", "subshell", "group", "for", "case", "if"}
SignalSimples  == {"program", "builtin", "eval", "dot", "return", "trap", "exit", "exec",
                   "failing"}

(* Endless loops and endless recursion, in copies of the shell too.         *)
EndlessKinds     == {"simple", "while"}
EndlessSimples   == {"program", "call", "eval"}
EndlessOperators == {"|"}

=============================================================================
