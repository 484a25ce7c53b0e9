--------------------------------- MODULE Lines ---------------------------------
(***************************************************************************)
(* Reading commands line by line: `run_on' and `run_source', which read    *)
(* from the user or a script, and `run_text', which runs the text of an    *)
(* `eval' or a sourced file.  Lines are joined until they parse; then they *)
(* are run, or refused, as a whole.                                        *)
(*                                                                         *)
(* The text is not a constant: any token may come next, so a run is about  *)
(* all texts, of any length, up to MAX_DEPTH.  The code parses all pending *)
(* lines anew when one is added; the parse and the scan here go on from    *)
(* where they were, which is the same for a deterministic automaton.       *)
(***************************************************************************)
EXTENDS Scanner

CONSTANTS Delimiters,          \* of here-documents
          MaxDocs,             \* how many here-documents wait for their bodies
          ScannerGaps          \* FALSE: not the texts where the scanner and the parser disagree

VARIABLES source,     \* "input" or "text"
          parse,      \* of the lines that are pending
          scan,       \* the scanner's ListState
          docs,       \* the here-documents whose bodies are not read yet, by delimiter
          in_body,    \* lines belong to them
          line_start, \* no token of the current line has been read
          background, \* an `&' is in the pending lines (check.rs)
          result,     \* of the last line: "none", "ran", "incomplete", "rejected"
          ended

lines == <<source, parse, scan, docs, in_body, line_start, background, result, ended>>

NothingPending ==
  /\ parse = Start /\ scan = NewState
  /\ docs = <<>> /\ in_body = FALSE /\ line_start = TRUE /\ background = FALSE
  /\ result = "none"

LinesInit == NothingPending /\ source \in {"input", "text"} /\ ended = FALSE

Reading == ~ended

\* A redirection where a command starts, right after the `)' of a pattern or a function, and
\* the `in' of a `for' on a line of its own: the scanner takes the command behind the first for
\* the rest of a compound command, and the words behind the second for commands.
ScannerGap(t) ==
  \/ t \in Redirections /\ scan.after_compound /\ Taker(parse, t) = "parse_command"
  \/ t = "in" /\ scan.expect = "for_after_name" /\ scan.command_position

\* `check_list': wherever it is, a background job is why the whole line does not run.
NotYet(t) == t = "&"

\* The rest of a line that has failed to parse changes nothing.
Token(t) ==
  /\ Reading /\ ~in_body /\ ~parse.failed
  /\ ScannerGap(t) => ScannerGaps
  /\ parse' = Shift(parse, t)
  /\ scan' = Scan(scan, t)
  /\ background' = (background \/ NotYet(t))
  /\ \/ /\ ~(t \in WordTokens /\ classify(scan, t).class = "delimiter")
        /\ docs' = docs
     \/ /\ t \in WordTokens /\ classify(scan, t).class = "delimiter"
        /\ Len(docs) < MaxDocs
        /\ \E delimiter \in Delimiters : docs' = Append(docs, delimiter)
  /\ line_start' = FALSE
  /\ UNCHANGED <<source, in_body, result, ended>>

\* `run_source' and `run_text' on the pending lines, of which this is the parse.  An unread
\* here-document is one more problem that further lines can fix.
LineResult(p, unread, at_end) ==
  CASE p.failed                                                        -> "rejected"
    [] ~p.failed /\ (Verdict(p) = "incomplete" \/ (Verdict(p) = "complete" /\ unread # <<>>)) ->
         IF at_end THEN "rejected" ELSE "incomplete"
    [] ~p.failed /\ Verdict(p) = "rejected"                            -> "rejected"
    [] OTHER -> IF background THEN "rejected" ELSE "ran"

\* The pending lines are kept only if they are unfinished.  A text ends at its first mistake.
Decide(p, s, unread) ==
  LET r == LineResult(p, unread, FALSE) IN
  /\ result' = r
  /\ ended' = (r = "rejected" /\ source = "text")
  /\ parse' = IF r = "incomplete" THEN p ELSE Start
  /\ scan' = IF r = "incomplete" THEN s ELSE NewState
  /\ docs' = IF r = "incomplete" THEN unread ELSE <<>>
  /\ in_body' = (r = "incomplete" /\ unread # <<>>)
  /\ background' = (r = "incomplete" /\ background)
  /\ line_start' = TRUE
  /\ UNCHANGED source

LineEnding ==
  /\ Reading /\ ~in_body
  /\ Decide(Shift(parse, "newline"), after_newline(scan), docs)

\* A line while here-documents are unread is the delimiter of the first of them, or its text.
BodyLine(line) ==
  /\ Reading /\ in_body
  /\ Decide(parse, scan, IF line = Head(docs) THEN Tail(docs) ELSE docs)

\* The last line may have no line ending; what is unfinished now is a mistake.
EndOfInput ==
  /\ Reading
  /\ result' = IF line_start /\ result # "incomplete" THEN result ELSE LineResult(parse, docs, TRUE)
  /\ ended' = TRUE
  /\ UNCHANGED <<source, parse, scan, docs, in_body, line_start, background>>

LinesNext ==
  \/ \E t \in Tokens \ {"newline"} : Token(t)
  \/ LineEnding
  \/ \E line \in Delimiters \union {"text"} : BodyLine(line)
  \/ EndOfInput

LinesSpec == LinesInit /\ [][LinesNext]_lines

-----------------------------------------------------------------------------
(* Properties.                                                              *)

\* What would end the calls in progress.
Ending == [symbol \in {"parse_body", "parse_and_or", "parse_pipeline", "parse_command", "separator",
                       "parse_redirect", "parse_here_doc", "for_name", "for_in", "for_words",
                       "case_word", "case_pattern", "pattern_end", "parse_case_arms", "arm_end",
                       "branches", "in", "then", "do", "done", "fi", "}", ")"} |->
  CASE symbol = "parse_body" -> <<"x", ";">>
    [] symbol \in {"separator", "for_in", "for_words"} -> <<";">>
    [] symbol = "pattern_end" -> <<")">>
    [] symbol \in {"parse_case_arms", "arm_end"} -> <<"esac">>
    [] symbol = "branches" -> <<"fi">>
    [] symbol \in Reserved \union {")"} -> <<symbol>>
    [] OTHER -> <<"x">>]

Finished(p) ==
  FoldLeft(LAMBDA q, symbol : IF symbol \in DOMAIN Ending THEN FoldLeft(Shift, q, Ending[symbol])
                              ELSE q, p, p.stack)

\* At a line ending, "go on reading" and "a mistake" are told apart rightly: as long as no
\* token was wrong the line is complete or unfinished, never refused, and what is taken for
\* unfinished can be finished.  (`linebreak_at' in parser/mod.rs: a place that forgets to call
\* skip_newlines refuses a line at its end; one that calls it too often waits for ever.)
UnfinishedCanBeFinished ==
  LET next == Shift(parse, "newline") IN
  /\ Reading /\ ~in_body /\ ~next.failed => Verdict(next) # "rejected"
  /\ Verdict(parse) = "incomplete" => Verdict(Finished(parse)) = "complete"

\* The scanner, which does not know the grammar, and the parser agree on every text the parser
\* accepts: which words are reserved, commands, assignments and arguments (colors and aliases
\* rest on that), and which `)' would end a substitution around the text.
ScannerAgrees ==
  Reading /\ ~in_body /\ ~parse.failed =>
    /\ \A w \in WordTokens : ~Shift(parse, w).failed => classify(scan, w).class = Role(parse, w)
    /\ ~Shift(parse, ")").failed => ~Unclaimed(scan)
    /\ Verdict(parse) = "complete" => Unclaimed(scan)

=============================================================================
