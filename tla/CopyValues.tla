------------------------------ MODULE CopyValues ------------------------------
(***************************************************************************)
(* What the copies of the shell promise: "changes made in the copy do not  *)
(* reach this shell" (`Shell::subshell').  A shell's settings are a value. *)
(* A copy starts with its parent's, and after that a change made by one    *)
(* shell is seen by that shell only, although the copies are threads of    *)
(* one process that share its working directory and its mask.              *)
(***************************************************************************)
CONSTANTS Main, Copies

VARIABLE settings        \* from the live shells to what each one has set

Init == DOMAIN settings = {Main}

Start(parent, copy) ==
  /\ parent \in DOMAIN settings
  /\ copy \notin DOMAIN settings
  /\ settings' = [s \in DOMAIN settings \union {copy} |->
                    IF s = copy THEN settings[parent] ELSE settings[s]]

Change(s) ==
  /\ s \in DOMAIN settings
  /\ DOMAIN settings' = DOMAIN settings
  /\ settings' = [t \in DOMAIN settings |-> IF t = s THEN settings'[s] ELSE settings[t]]

End(copy) ==
  /\ copy \in DOMAIN settings
  /\ settings' = [s \in DOMAIN settings \ {copy} |-> settings[s]]

Next ==
  \/ \E parent \in {Main} \union Copies, copy \in Copies : Start(parent, copy)
  \/ \E s \in {Main} \union Copies : Change(s)
  \/ \E copy \in Copies : End(copy)

Spec == Init /\ [][Next]_settings

=============================================================================
