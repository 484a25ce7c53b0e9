-------------------------------- MODULE Parser --------------------------------
(***************************************************************************)
(* The parser of omsh-syntax in its strict mode, as the automaton that its *)
(* recursive-descent functions make together.                              *)
(*                                                                         *)
(* The calls in progress are a stack of symbols, the innermost first: each *)
(* is a function of the parser at the point where it looks at the next     *)
(* token.  `Rule' says what it does with that token: take it, leave it to  *)
(* the symbols it is replaced by, or fail.  The tree that is built, and    *)
(* the place of an error, are left out.                                    *)
(***************************************************************************)
EXTENDS Naturals, Sequences, SequencesExt

CONSTANT MAX_DEPTH      \* how deep compound commands and functions nest

ASSUME DepthAssumption == MAX_DEPTH \in Nat

\* "x" stands for every word that is a name, "-" for every one that is not.  `until' is like
\* `while', every redirection but << like ">".
Reserved == {"if", "then", "elif", "else", "fi", "while", "do", "done", "for", "in", "case",
             "esac", "{", "}", "!"}
WordTokens == Reserved \union {"x", "-", "X=1"}
Names == {"x"} \union (Reserved \ {"{", "}", "!"})
Redirections == {">", "<<"}
Operators == {";", "&", "&&", "||", "|", "(", ")", ";;"} \union Redirections
Tokens == WordTokens \union Operators \union {"newline"}
End == "end of input"

\* `at_list_end'.
ListEnd == {End, ")", ";;", "then", "elif", "else", "fi", "do", "done", "esac", "}"}

\* Mutant: not after a pipe, `&&' and the like.
SkipsNewlines_lists == {"parse_list", "parse_body", "top_level", "parse_case_arms"}

\* The places where the grammar allows line endings: those that call `skip_newlines'.
SkipsNewlines == {"parse_list", "parse_body", "top_level", "skip_newlines", "parse_case_arms"}

Depth(stack) == Len(SelectSeq(stack, LAMBDA symbol : symbol = "leave"))

Take(symbols) == [does |-> "take", symbols |-> symbols]
Pass(symbols) == [does |-> "pass", symbols |-> symbols]
Fail          == [does |-> "fail", symbols |-> <<>>]

\* `expect_reserved' and `expect_right_paren'.
Expect(token, t) == IF t = token THEN Take(<<>>) ELSE Fail

-----------------------------------------------------------------------------
(* Lists, pipelines and simple commands.                                    *)

ListRule(symbol, t) ==
  CASE t = "newline" -> Take(<<symbol>>)
    [] t \in ListEnd -> IF symbol = "parse_list" \/ (symbol = "top_level" /\ t = End)
                          THEN Pass(<<>>) ELSE Fail
    [] OTHER -> Pass(<<"parse_and_or", "separator",
                       IF symbol = "top_level" THEN "top_level" ELSE "parse_list">>)

\* After a command of a list: only ; and & are taken here.
SeparatorRule(t) ==
  CASE t \in {";", "&"}                -> Take(<<>>)
    [] t \in ListEnd \union {"newline"} -> Pass(<<>>)
    [] OTHER                           -> Fail

PipelineRule(symbol, t) ==
  CASE symbol = "parse_and_or"   -> Pass(<<"parse_pipeline", "and_or_rest">>)
    [] symbol = "and_or_rest"    -> IF t \in {"&&", "||"}
                                      THEN Take(<<"skip_newlines", "parse_pipeline", "and_or_rest">>)
                                    ELSE Pass(<<>>)
    [] symbol = "parse_pipeline" -> IF t = "!" THEN Take(<<"parse_command", "pipeline_rest">>)
                                    ELSE Pass(<<"parse_command", "pipeline_rest">>)
    [] symbol = "pipeline_rest"  -> IF t = "|"
                                      THEN Take(<<"skip_newlines", "parse_command", "pipeline_rest">>)
                                    ELSE Pass(<<>>)

\* Assignments, words and redirections: a word is reserved only where a command starts.
SimpleRule(symbol, t) ==
  CASE t \in Redirections -> Take(<<IF t = "<<" THEN "parse_here_doc" ELSE "parse_redirect",
                                    IF symbol = "first_word" THEN "parse_simple" ELSE symbol>>)
    [] t \in WordTokens   -> Take(<<IF symbol = "prefix" /\ t = "X=1" THEN "prefix"
                                    ELSE "parse_simple">>)
    [] symbol = "first_word" /\ t = "(" -> Pass(<<"parse_function">>)
    [] OTHER              -> Pass(<<>>)

\* The words of the constructs: a word is taken whatever it is.
WordRule(symbol, t) ==
  IF t \in WordTokens /\ (symbol = "for_name" => t \in Names) THEN Take(<<>>) ELSE Fail

-----------------------------------------------------------------------------
(* Commands.  A compound command and a function definition enter a level,   *)
(* and leave it before the redirections behind them.                        *)

Compound(t) ==
  CASE t = "if"    -> <<"parse_body", "then", "parse_body", "branches", "leave", "trailing_redirects">>
    [] t = "while" -> <<"parse_body", "do", "parse_body", "done", "leave", "trailing_redirects">>
    [] t = "for"   -> <<"for_name", "skip_newlines", "for_in", "skip_newlines", "do", "parse_body",
                        "done", "leave", "trailing_redirects">>
    [] t = "case"  -> <<"case_word", "skip_newlines", "in", "parse_case_arms", "leave",
                        "trailing_redirects">>
    [] t = "{"     -> <<"parse_body", "}", "leave", "trailing_redirects">>
    [] t = "("     -> <<"parse_body", ")", "leave", "trailing_redirects">>

CommandRule(t, depth) ==
  CASE t \in {"if", "while", "for", "case", "{", "("} ->
         IF depth < MAX_DEPTH THEN Take(Compound(t)) ELSE Fail
    [] t \in WordTokens \ Reserved -> Take(<<CASE t = "x"   -> "first_word"
                                              [] t = "-"   -> "parse_simple"
                                              [] t = "X=1" -> "prefix">>)
    [] t \in Redirections -> SimpleRule("prefix", t)
    [] OTHER -> Fail

FunctionRule(depth) ==
  IF depth < MAX_DEPTH THEN Take(<<")", "skip_newlines", "parse_command", "leave">>) ELSE Fail

BranchRule(symbol, t) ==
  CASE symbol = "branches" /\ t = "elif" -> Take(<<"parse_body", "then", "parse_body", "branches">>)
    [] symbol = "branches" /\ t = "else" -> Take(<<"parse_body", "fi">>)
    [] OTHER -> Expect("fi", t)

ForRule(symbol, t) ==
  CASE symbol = "for_in" -> IF t = "in" THEN Take(<<"for_words">>)
                            ELSE IF t = ";" THEN Take(<<>>) ELSE Pass(<<>>)
    [] symbol = "for_words" -> CASE t \in WordTokens       -> Take(<<"for_words">>)
                                 [] t \in {"newline", ";"} -> Take(<<>>)
                                 [] t = End                -> Pass(<<>>)
                                 [] OTHER                  -> Fail

CaseRule(symbol, t) ==
  CASE symbol = "parse_case_arms" ->
         CASE t = "newline" -> Take(<<symbol>>)
           [] t = "esac"    -> Take(<<>>)
           [] t = "("       -> Take(<<"case_pattern", "pattern_end">>)
           [] OTHER         -> Pass(<<"case_pattern", "pattern_end">>)
    [] symbol = "pattern_end" -> IF t = "|" THEN Take(<<"case_pattern", "pattern_end">>)
                                 ELSE IF t = ")" THEN Take(<<"parse_list", "arm_end">>) ELSE Fail
    [] symbol = "arm_end" -> IF t = ";;" THEN Take(<<"parse_case_arms">>) ELSE Expect("esac", t)

Rule(symbol, t, depth) ==
  CASE symbol \in {"parse_list", "parse_body", "top_level"} -> ListRule(symbol, t)
    [] symbol = "separator"       -> SeparatorRule(t)
    [] symbol \in {"parse_and_or", "and_or_rest", "parse_pipeline", "pipeline_rest"} ->
         PipelineRule(symbol, t)
    [] symbol = "parse_command"   -> CommandRule(t, depth)
    [] symbol \in {"prefix", "first_word", "parse_simple"} -> SimpleRule(symbol, t)
    [] symbol = "parse_function"  -> FunctionRule(depth)
    [] symbol = "trailing_redirects" -> IF t \in Redirections THEN SimpleRule(symbol, t) ELSE Pass(<<>>)
    [] symbol \in {"parse_redirect", "parse_here_doc", "for_name", "case_word", "case_pattern"} ->
         WordRule(symbol, t)
    [] symbol \in {"branches", "fi"} -> BranchRule(symbol, t)
    [] symbol \in {"for_in", "for_words"} -> ForRule(symbol, t)
    [] symbol \in {"parse_case_arms", "pattern_end", "arm_end"} -> CaseRule(symbol, t)
    [] symbol = "skip_newlines"   -> IF t = "newline" THEN Take(<<symbol>>) ELSE Pass(<<>>)
    [] symbol = "leave"           -> Pass(<<>>)
    [] OTHER                      -> Expect(symbol, t)

-----------------------------------------------------------------------------
(* The parse of a text: the calls in progress after its tokens, whether it  *)
(* has failed, and whether nothing was taken since a place where line       *)
(* endings are allowed (`linebreak_at').                                    *)

Start == [stack |-> <<"top_level">>, failed |-> FALSE, at_linebreak |-> FALSE]

\* The call returns when t is next: it leaves t to its caller.
Returns(symbol, t) == Rule(symbol, t, 0) = Pass(<<>>)

\* The innermost call looks at t through calls of its own.
CalledBy(rule, symbols) == IF rule.does = "pass" THEN rule.symbols \o Tail(symbols) ELSE symbols

Called(symbols, t) == CalledBy(Rule(Head(symbols), t, 0), symbols)

\* The first call that does not return; one past the last if all do.
Stays(stack, t) ==
  CHOOSE n \in 1 .. Len(stack) + 1 :
    /\ n <= Len(stack) => ~Returns(stack[n], t)
    /\ \A m \in 1 .. n - 1 : Returns(stack[m], t)

\* The parse when the symbol that takes or refuses t is on top of the stack: calls return up to
\* the first that does not, and that one may go three calls deep (parse_list, parse_and_or,
\* parse_pipeline, parse_command).  A line ending need not be there for `skip_newlines' to
\* remember the place.
ReachedFrom(p, t, first) ==
  LET left == SubSeq(p.stack, first, Len(p.stack))
      one  == Called(left, t)
  IN [p EXCEPT !.stack = IF left = <<>> \/ one = left THEN left ELSE Called(Called(one, t), t),
               !.at_linebreak = @ \/ \E n \in 1 .. first :
                                       n <= Len(p.stack) /\ p.stack[n] \in SkipsNewlines]

Reached(p, t) == ReachedFrom(p, t, Stays(p.stack, t))

\* The symbol that takes t, or refuses it.
Taker(p, t) == Head(Reached(p, t).stack)

\* What this symbol, on top of the stack, makes of t by its rule.
Advanced(q, t, symbol, rule) ==
  IF rule.does = "fail" THEN [q EXCEPT !.failed = TRUE]
  ELSE [q EXCEPT !.stack = rule.symbols \o Tail(@),
                 !.at_linebreak = t = "newline" /\ symbol \in SkipsNewlines]

Looked(q, t) == Advanced(q, t, Head(q.stack), Rule(Head(q.stack), t, Depth(q.stack)))

Shift(p, t) == IF p.failed THEN p ELSE Looked(Reached(p, t), t)

\* What `parse' says when the text ends here.  `UnexpectedEnd' counts as unfinished only
\* where line endings are allowed.
EndVerdict(failed, q) ==
  CASE failed                                      -> "rejected"
    [] ~failed /\ q.stack = <<>>                   -> "complete"
    [] ~failed /\ q.stack # <<>> /\ q.at_linebreak -> "incomplete"
    [] OTHER                                       -> "rejected"

Verdict(p) == EndVerdict(p.failed, Reached(p, End))

\* What a word is to the parser, if it takes it.
Role(p, t) ==
  LET symbol == Taker(p, t) IN
  CASE symbol \in {"parse_command", "prefix"} /\ t = "X=1"       -> "assignment"
    [] symbol = "prefix" /\ t # "X=1"                            -> "command"
    [] symbol = "parse_command" /\ t \notin Reserved \union {"X=1"} -> "command"
    [] symbol = "parse_here_doc"                                 -> "delimiter"
    [] symbol \in {"parse_simple", "first_word", "parse_redirect", "for_name", "case_word",
                   "case_pattern", "pattern_end", "for_words"}   -> "plain"
    [] OTHER                                                     -> "keyword"

=============================================================================
