-------------------------------- MODULE Operands --------------------------------
(***************************************************************************)
(* What two builtins make of their operands: the expressions of `test'     *)
(* (builtins/test.rs) and the passes of `printf' over its format           *)
(* (builtins/printf.rs).                                                   *)
(***************************************************************************)
EXTENDS Integers, Sequences, SequencesExt, FiniteSetsExt

-----------------------------------------------------------------------------
(* `test': the functions of Evaluator, each on the arguments and a place.   *)
(* -n stands for every unary operator, `=' for every binary one, "" for     *)
(* the empty argument; the tests themselves are left out.                   *)

UnaryOperators  == {"-n"}
BinaryOperators == {"="}

IsBinary(args, i) == i \in DOMAIN args /\ args[i] \in BinaryOperators

Holds(value, pos) == [value |-> value, pos |-> pos, failed |-> FALSE]
Wrong(pos)        == [value |-> FALSE, pos |-> pos, failed |-> TRUE]
Opposite(r)            == [r EXCEPT !.value = ~@]

RECURSIVE or_expr(_, _), and_expr(_, _), more(_, _, _)

\* Mutant: a parenthesis is one even in front of a binary operator.
OpensGroup_always(args, pos) == args[pos] = "(" /\ pos < Len(args)

OpensGroup(args, pos) ==
  args[pos] = "(" /\ pos < Len(args) /\ ~(pos + 1 < Len(args) /\ IsBinary(args, pos + 1))

test_primary(args, pos) ==
  CASE pos > Len(args) -> Wrong(pos)
    [] pos <= Len(args) /\ OpensGroup(args, pos) ->
         LET r == or_expr(args, pos + 1) IN
         IF ~r.failed /\ r.pos \in DOMAIN args /\ args[r.pos] = ")" THEN Holds(r.value, r.pos + 1)
         ELSE Wrong(r.pos)
    [] OTHER ->
         CASE pos + 1 < Len(args) /\ IsBinary(args, pos + 1) -> Holds(args[pos] = args[pos + 2], pos + 3)
           [] ~(pos + 1 < Len(args) /\ IsBinary(args, pos + 1)) /\ pos < Len(args)
                /\ args[pos] \in UnaryOperators             -> Holds(args[pos + 1] # "", pos + 2)
           [] OTHER                                         -> Holds(args[pos] # "", pos + 1)

not_expr(args, pos) ==
  IF /\ pos < Len(args) /\ args[pos] = "!"
     /\ ~(pos + 1 < Len(args) /\ IsBinary(args, pos + 1))
    THEN Opposite(or_expr(args, pos + 1))
  ELSE test_primary(args, pos)

\* The loops of `and_expr' and `or_expr', with the left side in r.
more(args, r, op) ==
  IF r.failed \/ r.pos \notin DOMAIN args \/ args[r.pos] # op THEN r
  ELSE LET right == IF op = "-a" THEN not_expr(args, r.pos + 1) ELSE and_expr(args, r.pos + 1)
           value == IF op = "-a" THEN r.value /\ right.value ELSE r.value \/ right.value
       IN more(args, [right EXCEPT !.value = value], op)

and_expr(args, pos) == more(args, not_expr(args, pos), "-a")
or_expr(args, pos)  == more(args, and_expr(args, pos), "-o")

\* `run': "true", "false" or "error".
test(args) ==
  LET r == or_expr(args, 1) IN
  CASE args = <<>> -> "false"
    [] args # <<>> /\ (r.failed \/ r.pos <= Len(args)) -> "error"
    [] OTHER -> IF r.value THEN "true" ELSE "false"

\* The standard: up to four arguments are decided by their count.  "any" is unspecified.
Negated(answer) == CASE answer = "true" -> "false" [] answer = "false" -> "true" [] answer = "any" -> "any"
Said(condition) == IF condition THEN "true" ELSE "false"

ByCount2(a, b) ==
  CASE a = "!"                -> Said(b = "")
    [] a \in UnaryOperators   -> Said(b # "")
    [] OTHER                  -> "any"

ByCount3(a, b, c) ==
  CASE b \in BinaryOperators                                   -> Said(a = c)
    [] b \notin BinaryOperators \union {"-a", "-o"} /\ a = "!" -> Negated(ByCount2(b, c))
    [] b \notin BinaryOperators \union {"-a", "-o"} /\ a = "(" /\ c = ")" -> Said(b # "")
    [] OTHER                                                   -> "any"

ByCount(args) ==
  CASE Len(args) = 0 -> "false"
    [] Len(args) = 1 -> Said(args[1] # "")
    [] Len(args) = 2 -> ByCount2(args[1], args[2])
    [] Len(args) = 3 -> ByCount3(args[1], args[2], args[3])
    [] Len(args) = 4 ->
         CASE args[1] = "!" -> Negated(ByCount3(args[2], args[3], args[4]))
           [] args[1] = "(" /\ args[4] = ")" -> ByCount2(args[2], args[3])
           [] OTHER -> "any"
    [] OTHER -> "any"

\* Where it is not the count that decides: a "(" opens a group although an operator follows it,
\* and a "!" before `=' is a string although four arguments negate.
CountGap(args) ==
  \/ Len(args) = 4 /\ args[1] = "!" /\ IsBinary(args, 2)
  \/ \E i \in DOMAIN args \ {Len(args)} :
       args[i] = "(" /\ args[i + 1] \in {"(", "!"} \union UnaryOperators

-----------------------------------------------------------------------------
(* `printf': the format over and over.  A directive is "text", a bad one,   *)
(* or says which arguments it takes: %s, %d, %b, and %*d, which takes its   *)
(* width first.  The arguments are "7", a number; "w", none; and "\c",      *)
(* which ends everything in a %b.                                           *)

Takes == [d \in {"text", "%s", "%d", "%b", "%*d", "bad"} |->
  CASE d \in {"text", "bad"} -> <<>>
    [] d = "%s"  -> <<"s">>
    [] d = "%d"  -> <<"d">>
    [] d = "%b"  -> <<"b">>
    [] d = "%*d" -> <<"d", "d">>]

Printer(args) == [args |-> args, next |-> 1, out |-> <<>>, status |-> 0, stop |-> "no"]

\* One argument; one that is missing is empty, or 0.  A number that cannot be read gives 1.
next_argument(s, type) ==
  LET given == s.next <= Len(s.args)
      arg == IF given THEN s.args[s.next] ELSE "none"
  IN [s EXCEPT !.next = IF given THEN @ + 1 ELSE @,
               !.out = Append(@, <<type, arg>>),
               !.status = IF type = "d" /\ given /\ arg # "7" THEN 1 ELSE @,
               !.stop = IF type = "b" /\ arg = "\\c" THEN "quiet" ELSE @]

conversion(s, d) ==
  CASE s.stop # "no" -> s
    [] s.stop = "no" /\ d = "text" -> [s EXCEPT !.out = Append(@, <<"text", "none">>)]
    [] s.stop = "no" /\ d = "bad"  -> [s EXCEPT !.stop = "directive", !.status = 2]
    [] OTHER -> FoldLeft(next_argument, s, Takes[d])

pass(s, format) == FoldLeft(conversion, s, format)

\* Mutant: another pass whenever arguments are left.
Again_left(before, s) == s.stop = "no" /\ s.next <= Len(s.args) /\ Len(s.out) < 9

Again(before, s) == s.stop = "no" /\ s.next <= Len(s.args) /\ s.next # before.next

RECURSIVE run(_, _)

run(s, format) ==
  LET after == pass(s, format) IN
  IF Again(s, after) THEN run(after, format) ELSE after

\* The format as often as the arguments need it, at least once.
Slots(format) == FlattenSeq([i \in DOMAIN format |-> Takes[format[i]]])

Unrolled(format, n) ==
  LET slots == Len(Slots(format))
      times == IF slots = 0 \/ n = 0 THEN 1 ELSE (n + slots - 1) \div slots
  IN FlattenSeq([p \in 1 .. times |-> format])

\* Its pieces of output, with the arguments dealt out from left to right.
Dealt(format, args) ==
  LET wanted == FlattenSeq([i \in DOMAIN format |->
                  CASE format[i] \in {"text", "bad"} -> <<format[i]>>
                    [] OTHER -> Takes[format[i]]])
      Nth(i) == Cardinality({j \in 1 .. i : wanted[j] \notin {"text", "bad"}})
      all == [i \in DOMAIN wanted |->
                <<wanted[i], IF wanted[i] \in {"text", "bad"} \/ Nth(i) > Len(args) THEN "none"
                             ELSE args[Nth(i)]>>]
      stops == {i \in DOMAIN all : all[i] \in {<<"b", "\\c">>, <<"bad", "none">>}}
  IN IF stops = {} THEN all
     ELSE SubSeq(all, 1, Min(stops) - (IF all[Min(stops)][1] = "bad" THEN 1 ELSE 0))

=================================================================================
