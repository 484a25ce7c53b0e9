------------------------------ MODULE CommandText ------------------------------
(***************************************************************************)
(* From the text of a line to what a command gets: the lines, read token   *)
(* by token (Lines), and questions to the functions that take patterns,    *)
(* words, expressions and operands apart.  Those functions keep no state:  *)
(* a question is asked once, and its answer is compared with what the      *)
(* function promises.                                                      *)
(***************************************************************************)
EXTENDS Lines, Words, Arith, Operands

CONSTANTS Questions,    \* a record each, with what it is about
          Subjects,     \* the texts that patterns are tried on
          Files         \* the paths that are there

VARIABLES question, answer

vars == <<lines, question, answer>>

NoQuestion == [about |-> "nothing"]
Unanswered == [given |-> FALSE]

Init ==
  /\ answer = Unanswered
  /\ \/ LinesInit /\ question = NoQuestion
     \/ NothingPending /\ source = "text" /\ ended = TRUE /\ question \in Questions

\* What the code finds, and what it should find.
Answer(about, found, promised) ==
  /\ ~answer.given /\ question.about = about
  /\ answer' = [given |-> TRUE, found |-> found, promised |-> promised]
  /\ UNCHANGED <<lines, question>>

AskPattern ==
  Answer("pattern", {t \in Subjects : matches(new(question.pattern), t)},
                    {t \in Subjects : Matched(question.pattern, t)})

AskPathname ==
  Answer("pathname", {NamesOf(w) : w \in expand(Files, question.pieces)},
                     Found(Files, question.pieces))

AskRead ==
  Answer("read", split_fields(question.line, question.ifs, question.count),
                 Texts(split([chars |-> question.line, forced |-> FALSE], question.ifs)))

AskWord ==
  Answer("word", expand_word(question.parts, question.sh),
                 [value |-> string(question.parts, question.sh, ASSIGNMENT),
                  quoted |-> string(question.parts, question.sh, QUOTED)])

AskArith ==
  Answer("arith", evaluate(Written(question.expression, 0), question.x),
                  Meaning(question.expression,
                          [value |-> 0, x |-> question.x, failed |-> FALSE, lowest |-> FALSE]))

AskTest == Answer("test", test(question.operands), ByCount(question.operands))

AskPrintf ==
  Answer("printf", run(Printer(question.args), question.format).out,
                   Dealt(Unrolled(question.format, Len(question.args)), question.args))

Next ==
  \/ question = NoQuestion /\ LinesNext /\ UNCHANGED <<question, answer>>
  \/ AskPattern
  \/ AskPathname
  \/ AskRead
  \/ AskWord
  \/ AskArith
  \/ AskTest
  \/ AskPrintf

Spec == Init /\ [][Next]_vars

Answered(about) == answer.given /\ question.about = about

-----------------------------------------------------------------------------
(* Properties.                                                              *)

\* A pattern matches exactly the texts that can be divided among its pieces.  (`matches' in
\* pattern.rs goes back to the last `*' only, and `new' merges stars and takes a `[' without
\* its `]' for itself.)
PatternsMatch == Answered("pattern") => answer.found = answer.promised

\* A field with a pattern becomes the paths that are there and match it, and no others: neither
\* hidden names that were not asked for, nor names behind the last pattern that nobody has
\* (`check_at_end' in pathname.rs).
PathnamesFound == Answered("pathname") => answer.found = answer.promised

\* `read' divides a line as the words of a command are divided: with a variable for each field
\* they get the fields, and with too few the last one gets the rest, of which the field is the
\* beginning.  (split.rs and read.rs write the rules of IFS twice.)
ReadSplitsLikeWords ==
  Answered("read") =>
    LET fields == answer.promised
        count == question.count
    IN /\ Len(answer.found) = count
       /\ \A n \in 1 .. count :
            IF n = count /\ Len(fields) > count THEN IsPrefix(fields[n], answer.found[n])
            ELSE answer.found[n] = (IF n <= Len(fields) THEN fields[n] ELSE <<>>)

\* A word in double quotes is one field, even if it is empty, whatever the values in it and IFS;
\* only "$@" is as many as there are parameters.
QuotesKeepFields ==
  Answered("word") /\ Len(question.parts) = 1 /\ ~answer.found.failed =>
    LET word == question.parts[1]
        fields == Texts(answer.found.fields)
    IN /\ word.kind = "DoubleQuoted" /\ ~MentionsList(question.parts)
            => fields = <<answer.promised.quoted.text>>
       /\ word.kind = "DoubleQuoted" /\ word.inner = <<[kind |-> "Parameter", name |-> "@",
                                                        op |-> "", arg |-> <<>>]>>
            => fields = question.sh.params

\* A word is the same text as a field list and as the value of an assignment, up to what
\* divides fields; it fails for both or for none, and does the same to the shell.
ValueIsTheWord ==
  Answered("word") =>
    LET word == answer.found
        value == answer.promised.value
        dividers == Ifs(question.sh) \union {" "}
    IN /\ word.failed = value.failed
       /\ ~word.failed => /\ word.sh = value.sh
                          /\ Stripped(FlattenSeq(Texts(word.fields)), dividers)
                               = Stripped(value.text, dividers)

\* An expression has the value it has in C: operators bind and associate as there, only the
\* branch that counts is evaluated and assigns, and what is too wide wraps.  Not if it reads a
\* variable that holds the lowest number, whose digits without the sign are too many.
ArithmeticMeans ==
  Answered("arith") /\ ~answer.promised.lowest =>
    /\ answer.found.failed = answer.promised.failed
    /\ answer.found.x = answer.promised.x
    /\ ~answer.found.failed => answer.found.value = answer.promised.value

\* Up to four arguments of `test' are decided by their count, as test.rs says, but for those
\* that CountGap names.
TestByCount ==
  Answered("test") /\ answer.promised # "any" /\ ~CountGap(question.operands) =>
    answer.found = answer.promised

\* `printf' uses its format as often as the arguments need it, once at least, deals them out
\* from left to right, and stops where it has to; it never goes on for ever.
PrintfDeals == Answered("printf") => answer.found = answer.promised

=============================================================================
