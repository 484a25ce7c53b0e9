--------------------------------- MODULE Arith ---------------------------------
(***************************************************************************)
(* Arithmetic expansion (expand/arith.rs): `evaluate' on the tokens of an  *)
(* expression, with one variable, x.                                       *)
(*                                                                         *)
(* Numbers are signed and WIDTH bits wide (64 in the code).  Each function *)
(* of the parser takes the state s = [pos, value, x, failed] and gives it  *)
(* back; `eval' is FALSE in a branch that is read but not taken.           *)
(***************************************************************************)
EXTENDS Integers, Sequences, SequencesExt, Bitwise

CONSTANT WIDTH

ASSUME WidthAssumption == WIDTH \in Nat \ {0, 1}

Highest == 2^(WIDTH - 1) - 1
Lowest == -2^(WIDTH - 1)

Bits(n) == n % 2^WIDTH
Wrap(n) == IF Bits(n) > Highest THEN Bits(n) - 2^WIDTH ELSE Bits(n)

Number(n) == [is |-> "number", op |-> "", n |-> n]
Name      == [is |-> "name", op |-> "", n |-> 0]
Op(op)    == [is |-> "op", op |-> op, n |-> 0]
EndToken  == [is |-> "end", op |-> "", n |-> 0]

Truth(b) == IF b THEN 1 ELSE 0

\* `variable_value': the digits are read without their sign, and one too high is the highest.
variable_value(x) ==
  CASE x = <<>>                      -> 0
    [] x # <<>> /\ x[1] = Lowest     -> -Highest
    [] OTHER                         -> x[1]

Quotient(a, b) ==
  LET Abs(n) == IF n < 0 THEN -n ELSE n
      q == Abs(a) \div Abs(b)
  IN IF (a < 0) = (b < 0) THEN q ELSE -q

DividesByZero(op, right) == op \in {"/", "%"} /\ right = 0

apply(op, left, right) ==
  Wrap(CASE op = "+"  -> left + right
         [] op = "-"  -> left - right
         [] op = "*"  -> left * right
         [] op = "/"  -> Quotient(left, right)
         [] op = "%"  -> left - right * Quotient(left, right)
         [] op = "<<" -> left * 2^(Bits(right) % WIDTH)
         [] op = ">>" -> left \div 2^(Bits(right) % WIDTH)
         [] op = "<"  -> Truth(left < right)
         [] op = "<=" -> Truth(left <= right)
         [] op = ">"  -> Truth(left > right)
         [] op = ">=" -> Truth(left >= right)
         [] op = "==" -> Truth(left = right)
         [] op = "!=" -> Truth(left # right)
         [] op = "&"  -> Bits(left) & Bits(right)
         [] op = "^"  -> Bits(left) ^^ Bits(right)
         [] op = "|"  -> Bits(left) | Bits(right))

-----------------------------------------------------------------------------
(* The parser.                                                              *)

LEVELS == <<{"||"}, {"&&"}, {"|"}, {"^"}, {"&"}, {"==", "!="}, {"<", "<=", ">", ">="},
            {"<<", ">>"}, {"+", "-"}, {"*", "/", "%"}>>

\* The assignments, by the operator they apply first.
Applies == [op \in {"=", "+=", "-=", "*=", "<<="} |->
  CASE op = "="   -> ""
    [] op = "+="  -> "+"
    [] op = "-="  -> "-"
    [] op = "*="  -> "*"
    [] op = "<<=" -> "<<"]

peek(ts, s, ahead) == IF s.pos + ahead \in DOMAIN ts THEN ts[s.pos + ahead] ELSE EndToken
Eats(ts, s, op) == peek(ts, s, 0) = Op(op)

Value(s, n)  == [s EXCEPT !.value = n]
Past(s, n)   == [s EXCEPT !.pos = @ + n]
Error(s)     == [s EXCEPT !.failed = TRUE]

\* Mutant: what follows && is evaluated in any case.
TakesRight_both(op, left) == op = "||" => left = 0

\* Is what stands right of the operator evaluated?
TakesRight(op, left) ==
  /\ op = "&&" => left # 0
  /\ op = "||" => left = 0

RECURSIVE assignment(_, _, _), binary(_, _, _, _), operands(_, _, _, _)

primary(ts, s, eval) ==
  LET t == peek(ts, s, 0) IN
  CASE t.is = "number" -> Value(Past(s, 1), t.n)
    [] t.is = "name"   -> Value(Past(s, 1), IF eval THEN variable_value(s.x) ELSE 0)
    [] t = Op("(")     -> LET r == assignment(ts, Past(s, 1), eval) IN
                          IF ~r.failed /\ Eats(ts, r, ")") THEN Past(r, 1) ELSE Error(r)
    [] OTHER           -> Error(s)

RECURSIVE unary(_, _, _)

unary(ts, s, eval) ==
  LET op == peek(ts, s, 0).op
      r == unary(ts, Past(s, 1), eval)
  IN IF peek(ts, s, 0).is # "op" \/ op \notin {"+", "-", "~", "!"} THEN primary(ts, s, eval)
     ELSE Value(r, CASE op = "-" -> Wrap(-r.value)
                     [] op = "~" -> -r.value - 1
                     [] op = "!" -> Truth(r.value = 0)
                     [] op = "+" -> r.value)

\* The loop of `binary', with the left operand in s.
operands(ts, s, level, eval) ==
  LET t == peek(ts, s, 0)
      left == s.value
      r == binary(ts, Past(s, 1), level + 1, eval /\ TakesRight(t.op, left))
      value == CASE t.op = "&&" -> Truth(left # 0 /\ r.value # 0)
                 [] t.op = "||" -> Truth(left # 0 \/ r.value # 0)
                 [] OTHER       -> IF eval THEN apply(t.op, left, r.value) ELSE 0
  IN IF s.failed \/ t.is # "op" \/ t.op \notin LEVELS[level] THEN s
     ELSE IF r.failed \/ (eval /\ DividesByZero(t.op, r.value)) THEN Error(r)
     ELSE operands(ts, Value(r, value), level, eval)

binary(ts, s, level, eval) ==
  IF level > Len(LEVELS) THEN unary(ts, s, eval)
  ELSE operands(ts, binary(ts, s, level + 1, eval), level, eval)

conditional(ts, s, eval) ==
  LET condition == binary(ts, s, 1, eval)
      then == assignment(ts, Past(condition, 1), eval /\ condition.value # 0)
      otherwise == assignment(ts, Past(then, 1), eval /\ condition.value = 0)
  IN IF condition.failed \/ ~Eats(ts, condition, "?") THEN condition
     ELSE IF then.failed \/ ~Eats(ts, then, ":") THEN Error(then)
     ELSE IF condition.value # 0 THEN Value(otherwise, then.value) ELSE otherwise

assignment(ts, s, eval) ==
  LET op == peek(ts, s, 1).op
      r == assignment(ts, Past(s, 2), eval)
      value == IF op = "=" THEN r.value ELSE apply(Applies[op], variable_value(r.x), r.value)
  IN IF peek(ts, s, 0) # Name \/ peek(ts, s, 1).is # "op" \/ op \notin DOMAIN Applies
       THEN conditional(ts, s, eval)
     ELSE IF r.failed THEN r
     ELSE IF ~eval THEN Value(r, 0)
     ELSE Value([r EXCEPT !.x = <<value>>], value)

evaluate(ts, x) ==
  LET s == assignment(ts, [pos |-> 1, value |-> 0, x |-> x, failed |-> FALSE], TRUE)
  IN IF s.failed \/ peek(ts, s, 0) # EndToken THEN Error(s) ELSE s

-----------------------------------------------------------------------------
(* What it promises: an expression means what C says it does.  Expressions  *)
(* are trees; Written gives the tokens, with the parentheses C needs.       *)

Leaf(token)         == [is |-> "leaf", token |-> token]
Unary(op, e)        == [is |-> "unary", op |-> op, of |-> e]
Binary(op, e, f)    == [is |-> "binary", op |-> op, left |-> e, right |-> f]
Assign(op, e)       == [is |-> "assign", op |-> op, of |-> e]
Cond(e, f, g)       == [is |-> "cond", if |-> e, then |-> f, else |-> g]

Rank == [op \in UNION Range(LEVELS) |->
  CASE op \in {"*", "/", "%"}        -> 11
    [] op \in {"+", "-"}             -> 10
    [] op \in {"<<", ">>"}           -> 9
    [] op \in {"<", "<=", ">", ">="} -> 8
    [] op \in {"==", "!="}           -> 7
    [] op = "&"                      -> 6
    [] op = "^"                      -> 5
    [] op = "|"                      -> 4
    [] op = "&&"                     -> 3
    [] op = "||"                     -> 2]

RankOf(e) ==
  CASE e.is = "leaf"   -> 13
    [] e.is = "unary"  -> 12
    [] e.is = "binary" -> Rank[e.op]
    [] e.is = "cond"   -> 1
    [] e.is = "assign" -> 0

RECURSIVE Written(_, _)

\* e where an expression of that rank, or one that binds tighter, may stand.
Written(e, rank) ==
  IF RankOf(e) < rank THEN <<Op("(")>> \o Written(e, 0) \o <<Op(")")>>
  ELSE CASE e.is = "leaf"   -> <<e.token>>
         [] e.is = "unary"  -> <<Op(e.op)>> \o Written(e.of, 12)
         [] e.is = "binary" -> Written(e.left, RankOf(e)) \o <<Op(e.op)>> \o Written(e.right, RankOf(e) + 1)
         [] e.is = "cond"   -> Written(e.if, 2) \o <<Op("?")>> \o Written(e.then, 0) \o <<Op(":")>>
                               \o Written(e.else, 1)
         [] e.is = "assign" -> <<Name, Op(e.op)>> \o Written(e.of, 0)

RECURSIVE Meaning(_, _)

\* The value of e, x after it, whether it divides by zero, and whether it reads x while x is
\* the lowest number.
Meaning(e, m) ==
  IF m.failed THEN m
  ELSE CASE e.is = "leaf" /\ e.token.is = "number" -> [m EXCEPT !.value = e.token.n]
         [] e.is = "leaf" /\ e.token = Name ->
              [m EXCEPT !.value = IF m.x = <<>> THEN 0 ELSE m.x[1], !.lowest = @ \/ m.x = <<Lowest>>]
         [] e.is = "unary" ->
              LET r == Meaning(e.of, m) IN
              [r EXCEPT !.value = CASE e.op = "-" -> Wrap(-@) [] e.op = "!" -> Truth(@ = 0)
                                    [] e.op = "~" -> -@ - 1   [] e.op = "+" -> @]
         [] e.is = "binary" /\ e.op \in {"&&", "||"} ->
              LET l == Meaning(e.left, m)
                  r == Meaning(e.right, l)
              IN IF l.failed \/ (e.op = "&&") = (l.value = 0) THEN [l EXCEPT !.value = Truth(@ # 0)]
                 ELSE [r EXCEPT !.value = Truth(@ # 0)]
         [] e.is = "binary" /\ e.op \notin {"&&", "||"} ->
              LET l == Meaning(e.left, m)
                  r == Meaning(e.right, l)
              IN IF r.failed \/ DividesByZero(e.op, r.value) THEN [r EXCEPT !.failed = TRUE]
                 ELSE [r EXCEPT !.value = apply(e.op, l.value, @)]
         [] e.is = "cond" ->
              LET c == Meaning(e.if, m) IN Meaning(IF c.value # 0 THEN e.then ELSE e.else, c)
         [] e.is = "assign" ->
              LET r == Meaning(e.of, m)
                  old == Meaning(Leaf(Name), r)
                  value == IF e.op = "=" THEN r.value ELSE apply(Applies[e.op], old.value, r.value)
              IN IF r.failed THEN r
                 ELSE [r EXCEPT !.value = value, !.x = <<value>>,
                                !.lowest = IF e.op = "=" THEN @ ELSE old.lowest]

===============================================================================
