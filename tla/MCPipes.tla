------------------------------- MODULE MCPipes -------------------------------
(***************************************************************************)
(* Instances of Pipes for TLC.                                             *)
(***************************************************************************)
EXTENDS Pipes

(* Every reader after every writer, in two stages.                          *)
Pairs == {k \in [Stages -> Kinds] : k[1] \in {"endless", "echo"}}

(* Three stages, so that one of them both reads and writes, and two where   *)
(* a stage does not look at its input.                                      *)
Triples ==
  {"endless", "echo"} \X {"filter", "head"} \X {"filter", "head"}
  \cup {<<"endless", "endless", "head">>, <<"endless", "filter", "echo">>}
=============================================================================
