-------------------------------- MODULE Scanner --------------------------------
(***************************************************************************)
(* What the scanner knows of the grammar (scanner/position.rs): enough to  *)
(* tell a command from an argument, and the `)' that ends a `$(...)' from  *)
(* those inside it.  It has no parser behind it; that it agrees with the   *)
(* parser is ScannerAgrees in Lines.                                       *)
(***************************************************************************)
EXTENDS Parser

NewState ==
  [command_position |-> TRUE, pattern_position |-> FALSE, pattern_start |-> FALSE,
   command_prefix_seen |-> FALSE, after_compound |-> FALSE, after_redirect |-> FALSE,
   want_delimiter |-> FALSE, expect |-> "nothing", parens |-> 0, case_stack |-> <<>>]

InCase(s) == s.case_stack # <<>>
AtPatternEnd(s) == InCase(s) /\ Last(s.case_stack) = s.parens

\* A `)' that no `(' and no pattern of this list claims ends the substitution it is in.
Unclaimed(s) == ~AtPatternEnd(s) /\ s.parens = 0

close_paren(s) ==
  LET after == [s EXCEPT !.after_redirect = FALSE, !.want_delimiter = FALSE,
                         !.command_prefix_seen = FALSE, !.after_compound = TRUE,
                         !.command_position = TRUE]
  IN CASE AtPatternEnd(s)                  -> [after EXCEPT !.pattern_position = FALSE]
       [] ~AtPatternEnd(s) /\ s.parens > 0 -> [after EXCEPT !.parens = @ - 1]
       [] OTHER                            -> after

enter_pattern(s) ==
  [s EXCEPT !.pattern_position = TRUE, !.pattern_start = TRUE, !.command_position = FALSE]

close_case(s) ==
  [s EXCEPT !.case_stack = IF @ = <<>> THEN @ ELSE Front(@), !.pattern_position = FALSE,
            !.command_position = TRUE, !.after_compound = TRUE]

after_operator(s, op) ==
  LET ended == [s EXCEPT !.after_redirect = FALSE, !.want_delimiter = FALSE, !.expect = "nothing",
                         !.command_prefix_seen = FALSE, !.after_compound = FALSE]
      opened == [ended EXCEPT !.parens = @ + 1]
  IN CASE op \in Redirections ->
            [s EXCEPT !.after_redirect = TRUE, !.want_delimiter = op = "<<",
                      !.command_prefix_seen = @ \/ (s.command_position /\ ~s.after_compound)]
       [] op \notin Redirections /\ s.pattern_position -> [ended EXCEPT !.pattern_start = FALSE]
       [] op = "(" /\ ~s.pattern_position  -> [opened EXCEPT !.command_position = TRUE]
       [] op = ";;" /\ ~s.pattern_position /\ InCase(s) -> enter_pattern(ended)
       [] OTHER -> [ended EXCEPT !.command_position = TRUE]

after_newline(s) ==
  [s EXCEPT !.after_redirect = FALSE, !.want_delimiter = FALSE, !.command_prefix_seen = FALSE,
            !.after_compound = FALSE, !.command_position = @ \/ ~s.pattern_position]

As(class, s) == [class |-> class, state |-> s]

\* A word after `for NAME', `case', `case WORD'.
classify_expected(s, w) ==
  CASE s.expect = "for_name"  -> As("plain", [s EXCEPT !.expect = "for_after_name"])
    [] s.expect = "case_word" -> As("plain", [s EXCEPT !.expect = "case_in"])
    [] s.expect = "for_after_name" ->
         As(IF w \in {"in", "do"} THEN "keyword" ELSE "plain",
            [s EXCEPT !.expect = "nothing", !.command_position = @ \/ w = "do"])
    [] s.expect = "case_in" ->
         IF w = "in" THEN As("keyword", enter_pattern([s EXCEPT !.expect = "nothing"]))
         ELSE As("plain", [s EXCEPT !.expect = "nothing"])

\* A word where a command could start.
classify_command(s, w) ==
  LET at == [s EXCEPT !.after_compound = FALSE] IN
  IF w \in Reserved /\ ~s.command_prefix_seen THEN
    As("keyword",
       CASE w = "for"  -> [at EXCEPT !.expect = "for_name", !.command_position = FALSE]
         [] w = "case" -> [at EXCEPT !.expect = "case_word", !.command_position = FALSE,
                                     !.case_stack = Append(@, s.parens)]
         [] w = "esac" -> close_case(at)
         [] w \in {"fi", "done", "}"} -> [at EXCEPT !.after_compound = TRUE]
         [] OTHER -> at)
  ELSE IF w = "X=1" THEN As("assignment", [at EXCEPT !.command_prefix_seen = TRUE])
  ELSE As("command", [at EXCEPT !.command_position = FALSE])

\* Mutant: any `esac' at the start of an alternative closes the case.
classify_esac(s, w) ==
  CASE s.want_delimiter -> As("delimiter", [s EXCEPT !.after_redirect = FALSE, !.want_delimiter = FALSE])
    [] ~s.want_delimiter /\ s.after_redirect -> As("plain", [s EXCEPT !.after_redirect = FALSE])
    [] ~s.after_redirect /\ s.expect # "nothing" -> classify_expected(s, w)
    [] ~s.after_redirect /\ s.expect = "nothing" /\ s.pattern_position ->
         IF w = "esac" THEN As("keyword", close_case(s))
         ELSE As("plain", [s EXCEPT !.pattern_start = FALSE])
    [] OTHER -> IF s.command_position THEN classify_command(s, w) ELSE As("plain", s)

classify(s, w) ==
  CASE s.want_delimiter -> As("delimiter", [s EXCEPT !.after_redirect = FALSE, !.want_delimiter = FALSE])
    [] ~s.want_delimiter /\ s.after_redirect -> As("plain", [s EXCEPT !.after_redirect = FALSE])
    [] ~s.after_redirect /\ s.expect # "nothing" -> classify_expected(s, w)
    [] ~s.after_redirect /\ s.expect = "nothing" /\ s.pattern_position ->
         IF s.pattern_start /\ w = "esac" THEN As("keyword", close_case(s))
         ELSE As("plain", [s EXCEPT !.pattern_start = FALSE])
    [] OTHER -> IF s.command_position THEN classify_command(s, w) ELSE As("plain", s)

\* `scan_list': what one token does.
Scan(s, t) ==
  CASE t = "newline"      -> after_newline(s)
    [] t = ")"            -> close_paren(s)
    [] t \in WordTokens   -> classify(s, t).state
    [] OTHER              -> after_operator(s, t)

=============================================================================
