--------------------------------- MODULE Words ---------------------------------
(***************************************************************************)
(* From a word to the fields a command gets (expand/mod.rs, param.rs,      *)
(* tilde.rs, split.rs), and the fields of a line for `read'                *)
(* (builtins/read.rs).                                                     *)
(*                                                                         *)
(* A character carries its kind, which says what later steps may do with   *)
(* it.  The shell is a record of what expansion reads and writes: the      *)
(* variable x and IFS (<<>> if not set), the positional parameters, and    *)
(* `set -u'.  Command substitution and arithmetic end as text that is      *)
(* pushed like the value of x; they are in Executor and Arith.  An escaped *)
(* character and $'...' are pushed like single quotes.                     *)
(***************************************************************************)
EXTENDS Patterns

CONSTANT Home       \* the value of HOME

Blanks == {" "}     \* of the characters of IFS, those that merge

Kinded(text, kind) == [i \in DOMAIN text |-> [c |-> text[i], kind |-> kind]]
Plain(chars) == [i \in DOMAIN chars |-> chars[i].c]
Active(chars) == [i \in DOMAIN chars |-> [c |-> chars[i].c, active |-> chars[i].kind # "Quoted"]]

NoField    == [chars |-> <<>>, forced |-> FALSE]
EmptyField == [chars |-> <<>>, forced |-> TRUE]

-----------------------------------------------------------------------------
(* Field splitting.                                                         *)

Ifs(sh) == IF sh.ifs = <<>> THEN {" "} ELSE Range(sh.ifs[1])

\* The loop of `split': one character.
SplitAt(s, ch, ifs) ==
  LET delimits == ch.kind = "Expanded" /\ ch.c \in ifs IN
  CASE ~delimits ->
         LET f == IF s.current = <<>> THEN NoField ELSE s.current[1] IN
         [s EXCEPT !.current = <<[chars |-> Append(f.chars, ch),
                                  forced |-> f.forced \/ ch.kind = "Quoted"]>>,
                   !.closed_by_space = FALSE]
    [] delimits /\ ch.c \in Blanks ->
         [s EXCEPT !.out = @ \o s.current, !.current = <<>>,
                   !.closed_by_space = @ \/ s.current # <<>>]
    [] OTHER ->
         IF s.closed_by_space THEN [s EXCEPT !.closed_by_space = FALSE]
         ELSE [s EXCEPT !.out = Append(@, IF s.current = <<>> THEN EmptyField ELSE s.current[1]),
                        !.current = <<>>]

\* Mutant: what follows the last delimiter is lost.
split_rest(field, ifs) ==
  FoldLeft(LAMBDA r, ch : SplitAt(r, ch, ifs),
           [out |-> <<>>, current |-> <<>>, closed_by_space |-> FALSE], field.chars).out

split(field, ifs) ==
  LET s == FoldLeft(LAMBDA r, ch : SplitAt(r, ch, ifs),
                    [out |-> <<>>, current |-> <<>>, closed_by_space |-> FALSE], field.chars)
      cut == s.out \o s.current
  IN CASE field.chars = <<>> -> IF field.forced THEN <<field>> ELSE <<>>
       [] field.chars # <<>> /\ cut = <<>> /\ field.forced -> <<EmptyField>>
       [] OTHER -> cut

-----------------------------------------------------------------------------
(* `read': the same rules again, but the last name takes what is left.  A   *)
(* character that a backslash protects has the kind "Quoted".               *)

IsDelim(line, ifs, i) == i \in DOMAIN line /\ line[i].kind # "Quoted" /\ line[i].c \in ifs
IsWhite(line, ifs, i) == IsDelim(line, ifs, i) /\ line[i].c \in Blanks
IsOther(line, ifs, i) == IsDelim(line, ifs, i) /\ ~IsWhite(line, ifs, i)

\* The first place from i on that is no blank.
Skip(line, ifs, i) == Min({j \in i .. Len(line) + 1 : ~IsWhite(line, ifs, j)})

\* Mutant: a delimiter at the very end stays.
LastEnd_kept(line, ifs, i) == Max({i - 1} \union {j \in i .. Len(line) : ~IsWhite(line, ifs, j)})

LastEnd(line, ifs, i) ==
  LET End(to) == Max({i - 1} \union {j \in i .. to : ~IsWhite(line, ifs, j)})
      end == End(Len(line))
      only == IsOther(line, ifs, end) /\ end > i - 1 /\ \A j \in i .. end - 1 : ~IsOther(line, ifs, j)
  IN IF only THEN End(end - 1) ELSE end

NextField(s, line, ifs, last) ==
  LET end == Min({j \in s.i .. Len(line) + 1 : j > Len(line) \/ IsDelim(line, ifs, j)})
      next == Skip(line, ifs, end)
  IN CASE s.i > Len(line) -> [s EXCEPT !.fields = Append(@, <<>>)]
       [] s.i <= Len(line) /\ last ->
            [s EXCEPT !.fields = Append(@, Plain(SubSeq(line, s.i, LastEnd(line, ifs, s.i))))]
       [] OTHER ->
            [fields |-> Append(s.fields, Plain(SubSeq(line, s.i, end - 1))),
             i |-> IF IsOther(line, ifs, next) THEN Skip(line, ifs, next + 1) ELSE next]

split_fields(line, ifs, count) ==
  FoldLeft(LAMBDA s, n : NextField(s, line, ifs, n = count),
           [fields |-> <<>>, i |-> Skip(line, ifs, 1)], [n \in 1 .. count |-> n]).fields

-----------------------------------------------------------------------------
(* The word being built: its finished fields, the one in work, the shell,   *)
(* and whether an expansion has failed.                                     *)

Building(sh) == [done |-> <<>>, current |-> NoField, sh |-> sh, failed |-> FALSE]

push(b, text, kind) ==
  [b EXCEPT !.current = [chars |-> @.chars \o Kinded(text, kind), forced |-> @.forced \/ kind = "Quoted"]]

push_protected(b, text) == [b EXCEPT !.current.chars = @ \o Kinded(text, "Quoted")]

break_field(b) == [b EXCEPT !.done = Append(@, b.current), !.current = NoField]

finish(b) == Append(b.done, b.current)

Ctx(literal, result, quoted, tilde) ==
  [literal |-> literal, result |-> result, quoted |-> quoted, tilde |-> tilde]

WORD       == Ctx("Literal", "Expanded", FALSE, "word")
QUOTED     == Ctx("Quoted", "Quoted", TRUE, "off")
ASSIGNMENT == [QUOTED EXCEPT !.tilde = "assignment"]
TARGET     == [QUOTED EXCEPT !.tilde = "word"]
PATTERN    == [WORD EXCEPT !.tilde = "off"]

\* The word after an operator.
argument(ctx) ==
  IF ctx.quoted THEN [ctx EXCEPT !.tilde = "off"] ELSE Ctx("Expanded", "Expanded", FALSE, "word")

Fields(parts) ==
  FoldLeft(LAMBDA text, i : text \o (IF i > 1 THEN <<" ">> ELSE <<>>) \o Plain(parts[i].chars),
           <<>>, [i \in DOMAIN parts |-> i])

-----------------------------------------------------------------------------
(* Tilde prefixes of a literal piece: those without a user name.            *)

TildeAt(text, j, first, last, ctx) ==
  LET stops == {"/"} \union (IF ctx.tilde = "assignment" THEN {":"} ELSE {}) IN
  /\ text[j] = "~"
  /\ (j = 1 /\ first) \/ (ctx.tilde = "assignment" /\ j > 1 /\ text[j - 1] = ":")
  /\ IF j = Len(text) THEN last ELSE text[j + 1] \in stops

literal(b, text, first, last, ctx) ==
  IF ctx.tilde = "off" \/ ~(first \/ ctx.tilde = "assignment") THEN push(b, text, ctx.literal)
  ELSE FoldLeft(LAMBDA r, j : IF TildeAt(text, j, first, last, ctx) THEN push_protected(r, Home)
                              ELSE push(r, <<text[j]>>, ctx.literal),
                b, [j \in DOMAIN text |-> j])

-----------------------------------------------------------------------------
(* Parameters.                                                              *)

Unset        == [is |-> "unset"]
Scalar(text) == [is |-> "scalar", text |-> text]
List(items, joined) == [is |-> "list", items |-> items, joined |-> joined]

value_of(sh, name) ==
  CASE name \in {"@", "*"} -> List(sh.params, name = "*")
    [] name = "1" -> IF sh.params = <<>> THEN Unset ELSE Scalar(sh.params[1])
    [] name = "x" -> IF sh.x = <<>> THEN Unset ELSE Scalar(sh.x[1])

is_missing(value, colon) ==
  CASE value.is = "unset"  -> TRUE
    [] value.is = "scalar" -> colon /\ value.text = <<>>
    [] value.is = "list"   -> value.items = <<>>

Colon == {":-", ":=", ":?", ":+"}
HandlesUnset == Colon \union {"-", "=", "?", "+"}
Trims == {"#", "##", "%", "%%"}

\* What stands between the parameters in "$*".
first_ifs_character(sh) ==
  CASE sh.ifs = <<>>                       -> <<" ">>
    [] sh.ifs # <<>> /\ sh.ifs[1] = <<>>   -> <<>>
    [] OTHER                               -> <<sh.ifs[1][1]>>

\* Mutant: in quotes the parameters run into one.
KeepsApart_unquoted(value, ctx) == ~value.joined /\ ~ctx.quoted

KeepsApart(value, ctx) == ~value.joined

push_value(value, b, ctx) ==
  CASE value.is = "unset"  -> push(b, <<>>, ctx.result)
    [] value.is = "scalar" -> push(b, value.text, ctx.result)
    [] value.is = "list" /\ KeepsApart(value, ctx) ->
         FoldLeft(LAMBDA r, i : push(IF i > 1 THEN break_field(r) ELSE r, value.items[i], ctx.result),
                  b, [i \in DOMAIN value.items |-> i])
    [] OTHER ->
         push(b, FoldLeft(LAMBDA text, i : text \o (IF i > 1 THEN first_ifs_character(b.sh) ELSE <<>>)
                                           \o value.items[i],
                          <<>>, [i \in DOMAIN value.items |-> i]), ctx.result)

\* What `${#x}' counts; the texts here have less than ten characters.
Digits == <<"0", "1", "2", "3", "4", "5", "6", "7", "8", "9">>

Length(value) ==
  CASE value.is = "unset"  -> 0
    [] value.is = "scalar" -> Len(value.text)
    [] value.is = "list"   -> Len(value.items)

Failed(b) == [b EXCEPT !.failed = TRUE]

RECURSIVE sequence(_, _, _)

\* `string': the word as one text, and what expanding it did to the shell.
string(parts, sh, ctx) ==
  LET b == sequence(parts, Building(sh), ctx)
  IN [text |-> Fields(finish(b)), sh |-> b.sh, failed |-> b.failed]

pattern(parts, sh) ==
  LET b == sequence(parts, Building(sh), PATTERN)
      Join(chars, i) == chars \o (IF i > 1 THEN Kinded(<<" ">>, "Quoted") ELSE <<>>) \o finish(b)[i].chars
  IN [items |-> new(Active(FoldLeft(Join, <<>>, [i \in DOMAIN finish(b) |-> i]))),
      sh |-> b.sh, failed |-> b.failed]

Trimmed(value, items, op) ==
  CASE value.is = "unset"  -> value
    [] value.is = "scalar" -> Scalar(trim(items, op, value.text))
    [] value.is = "list"   -> [value EXCEPT !.items = [i \in DOMAIN @ |-> trim(items, op, @[i])]]

Assigned(p, b, ctx) ==
  LET s == string(p.arg, b.sh, ASSIGNMENT) IN
  CASE p.name # "x"               -> Failed(b)
    [] p.name = "x" /\ s.failed   -> Failed([b EXCEPT !.sh = s.sh])
    [] OTHER -> push([b EXCEPT !.sh = [s.sh EXCEPT !.x = <<s.text>>]], s.text, ctx.result)

parameter(p, b, ctx) ==
  LET value == value_of(b.sh, p.name)
      missing == is_missing(value, p.op \in Colon)
  IN CASE b.sh.nounset /\ value = Unset /\ p.op \notin HandlesUnset -> Failed(b)
       [] p.op = "length" -> push(b, <<Digits[Length(value) + 1]>>, ctx.result)
       [] p.op \in Trims ->
            LET s == pattern(p.arg, b.sh) IN
            IF s.failed THEN Failed([b EXCEPT !.sh = s.sh])
            ELSE push_value(Trimmed(value, s.items, p.op), [b EXCEPT !.sh = s.sh], ctx)
       [] p.op \in {":-", "-"} /\ missing  -> sequence(p.arg, b, argument(ctx))
       [] p.op \in {":+", "+"} /\ ~missing -> sequence(p.arg, b, argument(ctx))
       [] p.op \in {":+", "+"} /\ missing  -> IF ctx.quoted THEN push(b, <<>>, "Quoted") ELSE b
       [] p.op \in {":=", "="} /\ missing  -> Assigned(p, b, ctx)
       [] p.op \in {":?", "?"} /\ missing  ->
            Failed([b EXCEPT !.sh = string(p.arg, b.sh, QUOTED).sh])
       [] OTHER -> push_value(value, b, ctx)

part(p, b, ctx) ==
  CASE p.kind = "SingleQuoted" -> push(b, p.text, "Quoted")
    [] p.kind = "DoubleQuoted" -> IF p.inner = <<>> THEN push(b, <<>>, "Quoted")
                                  ELSE sequence(p.inner, b, QUOTED)
    [] p.kind = "Parameter"    -> parameter(p, b, ctx)

\* The first part that fails ends the word.
sequence(parts, b, ctx) ==
  FoldLeft(LAMBDA r, i :
             CASE r.failed -> r
               [] ~r.failed /\ parts[i].kind = "Literal" ->
                    literal(r, parts[i].text, i = 1, i = Len(parts), ctx)
               [] OTHER -> part(parts[i], r, ctx),
           b, [i \in DOMAIN parts |-> i])

\* `expand_words' for one word, up to pathname expansion.
expand_word(parts, sh) ==
  LET b == sequence(parts, Building(sh), WORD)
  IN [fields |-> FlattenSeq([i \in DOMAIN finish(b) |-> split(finish(b)[i], Ifs(b.sh))]),
      sh |-> b.sh, failed |-> b.failed]

-----------------------------------------------------------------------------
(* What they promise.                                                       *)

\* "$@" and "$*" are the only ways to more than one field, or none, inside double quotes.
RECURSIVE MentionsList(_)
MentionsList(parts) ==
  \E i \in DOMAIN parts :
    \/ parts[i].kind = "Parameter" /\ (parts[i].name = "@" \/ MentionsList(parts[i].arg))
    \/ parts[i].kind = "DoubleQuoted" /\ MentionsList(parts[i].inner)

\* The text of a word without what may separate fields.
Stripped(text, ifs) == SelectSeq(text, LAMBDA c : c \notin ifs)

Texts(fields) == [i \in DOMAIN fields |-> Plain(fields[i].chars)]

===============================================================================
