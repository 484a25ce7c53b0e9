----------------------------- MODULE LinesProofs -----------------------------
(***************************************************************************)
(* Proofs about Lines, for every MAX_DEPTH and every text.  The parser     *)
(* first: at a line ending a text is complete or unfinished as long as no  *)
(* token was wrong, and what is taken for unfinished can be finished       *)
(* (UnfinishedEnds).  Then the scanner: it agrees with the parser on every *)
(* text the parser accepts, but for the gaps that ScannerGap names         *)
(* (ScannerKnowsTheGrammar).                                               *)
(*                                                                         *)
(* The parser.  The calls in progress always fit together (Shape), because *)
(* what a rule pushes takes the place of a symbol with at least its        *)
(* callers (RuleReplaces).  When a token comes, calls return down to one   *)
(* that does not, and three calls further on one takes or refuses it       *)
(* (ReachedHolds).  The invariant of the parse is Parsed.  For the end of  *)
(* the text, the calls are ended from the innermost on: what is still on   *)
(* top of a call then is only what returns on its ending token (Lies,      *)
(* Ended).  A pattern or the parentheses of a function could not be ended  *)
(* so; no text is taken for unfinished while one is open (NoPatternOpen).  *)
(*                                                                         *)
(* The scanner keeps a few flags where the parser has a stack.  The        *)
(* invariant says of both that the flags are right for the call that looks *)
(* at the next token, whichever token it is (Fits, by Mood), and that its  *)
(* counts of parentheses and cases are those of the calls in progress      *)
(* (Nested).  It is not enough to know this of the innermost call, which   *)
(* may return: FitsTail and NestedReturn say that the call beneath finds   *)
(* the flags right as well.  Takes says it of every symbol that takes a    *)
(* token.                                                                  *)
(***************************************************************************)
EXTENDS Lines, SequenceTheorems, TLAPS

ShiftOne(ctx, p, t) == Shift(p, t)

Shifting == INSTANCE Folding WITH Op <- ShiftOne

-----------------------------------------------------------------------------
(* The calls in progress.                                                  *)

Arms == {"parse_case_arms", "pattern_end", "arm_end"}

Redirecting == {"parse_redirect", "parse_here_doc"}

Simple == {"first_word", "parse_simple", "prefix"}

Symbols == {"top_level", "parse_list", "parse_body", "separator", "parse_and_or", "and_or_rest",
            "parse_pipeline", "pipeline_rest", "parse_command", "parse_function",
            "trailing_redirects", "leave", "skip_newlines", "for_name", "for_in", "for_words",
            "case_word", "case_pattern", "in", "then", "do", "done", "fi", "}", ")", "branches"}
           \union Redirecting \union Arms \union Simple

\* The callers a call can have, as far as they are still to look at tokens.
Below(symbol) ==
  CASE symbol \in {"parse_list", "parse_body"} ->
         {"}", ")", "then", "fi", "do", "done", "branches"}
           \union (IF symbol = "parse_list" THEN {"arm_end"} ELSE {})
    [] symbol \in {"then", "do"} -> {"parse_body"}
    [] symbol \in {"parse_and_or", "and_or_rest"} -> {"separator"}
    [] symbol = "separator" -> {"parse_list", "top_level"}
    [] symbol \in {"parse_pipeline", "pipeline_rest"} -> {"and_or_rest"}
    [] symbol \in {"parse_command", "parse_function", "trailing_redirects"} \union Simple ->
         {"pipeline_rest", "leave"}
    [] symbol = "leave" -> {"pipeline_rest", "leave", "trailing_redirects"}
    [] symbol \in {"fi", "done", "}", "branches"} \union Arms -> {"leave"}
    [] symbol = ")" -> {"leave", "skip_newlines"}
    [] symbol = "skip_newlines" -> {"do", "in", "for_in", "parse_pipeline", "parse_command"}
    [] symbol \in {"for_name", "for_in", "for_words", "case_word"} -> {"skip_newlines"}
    [] symbol = "in" -> {"parse_case_arms"}
    [] symbol = "case_pattern" -> {"pattern_end"}
    [] symbol \in Redirecting -> {"prefix", "parse_simple", "trailing_redirects"}
    [] OTHER -> {}

\* What is behind the line endings that a symbol leaves to `skip_newlines'.
Behind(symbol) ==
  CASE symbol = "for_name" -> {"for_in"}
    [] symbol \in {"for_in", "for_words"} -> {"do"}
    [] symbol = "case_word" -> {"in"}
    [] OTHER -> {"parse_command"}

(* The calls in progress fit together: the list of the whole text at the   *)
(* bottom, and every call over one that makes it.                          *)
Shape(stack) ==
  /\ stack \in Seq(Symbols) /\ stack # <<>>
  /\ stack[Len(stack)] = "top_level"
  /\ \A n \in 1 .. Len(stack) - 1 : stack[n + 1] \in Below(stack[n])
  /\ \A n \in 1 .. Len(stack) - 2 :
       stack[n + 1] = "skip_newlines" => stack[n + 2] \in Behind(stack[n])

(* A sequence of calls that takes the place of the innermost one.          *)
Chain(symbols) ==
  /\ symbols \in Seq(Symbols) /\ symbols # <<>>
  /\ \A n \in 1 .. Len(symbols) - 1 : symbols[n + 1] \in Below(symbols[n])
  /\ \A n \in 1 .. Len(symbols) - 2 :
       symbols[n + 1] = "skip_newlines" => symbols[n + 2] \in Behind(symbols[n])
  /\ Len(symbols) > 1 => symbols[Len(symbols)] # "skip_newlines"

(* The calls that may take the place of the innermost one.                 *)
Replaces(symbols, symbol) ==
  LET last == symbols[Len(symbols)] IN
  /\ Chain(symbols)
  /\ Below(symbol) \subseteq Below(last)
  /\ "skip_newlines" \in Below(symbol) => Behind(symbol) \subseteq Behind(last)
  /\ symbol = "top_level" => last = "top_level"

(* The innermost call, and those beneath it.                               *)
LEMMA ShapeTop ==
  ASSUME NEW stack, Shape(stack)
  PROVE  /\ stack[1] \in Symbols /\ Len(stack) \in Nat /\ Len(stack) > 0
         /\ stack[1] = "top_level" <=> Len(stack) = 1
         /\ Tail(stack) \in Seq(Symbols) /\ Len(Tail(stack)) = Len(stack) - 1
         /\ \A n \in 1 .. Len(stack) - 1 : Tail(stack)[n] = stack[n + 1]
         /\ Head(stack) = stack[1]
<1>1. stack \in Seq(Symbols) /\ stack # <<>>
  BY DEF Shape
<1>2. Below("top_level") = {}
  BY DEF Below, Simple, Arms, Redirecting
<1>3. stack[1] = "top_level" <=> Len(stack) = 1
  <2>1. Len(stack) \in Nat /\ Len(stack) > 0
    BY <1>1
  <2>2. Len(stack) = 1 => stack[1] = "top_level"
    BY DEF Shape
  <2>3. ASSUME stack[1] = "top_level", Len(stack) # 1 PROVE FALSE
    <3>1. 1 \in 1 .. Len(stack) - 1
      BY <2>1, <2>3
    <3>2. stack[1 + 1] \in Below(stack[1])
      BY <3>1 DEF Shape
    <3> QED
      BY <1>2, <2>3, <3>2
  <2> QED
    BY <2>2, <2>3
<1> QED
  BY <1>1, <1>3

(* The innermost call returns.                                             *)
LEMMA ShapeTail ==
  ASSUME NEW stack, Shape(stack), stack[1] # "top_level"
  PROVE  Shape(Tail(stack)) /\ Tail(stack)[1] \in Below(stack[1])
<1>1. Len(stack) > 1 /\ stack \in Seq(Symbols)
  BY ShapeTop DEF Shape
<1>2. Tail(stack) # <<>> /\ Tail(stack)[Len(stack) - 1] = "top_level"
  <2>1. Len(stack) - 1 \in 1 .. Len(stack) - 1 /\ (Len(stack) - 1) + 1 = Len(stack)
    BY <1>1
  <2>2. stack[Len(stack)] = "top_level" /\ Tail(stack)[Len(stack) - 1] = stack[(Len(stack) - 1) + 1]
    BY <2>1, ShapeTop DEF Shape
  <2>3. Len(Tail(stack)) # 0 /\ Tail(stack) \in Seq(Symbols)
    BY <1>1, ShapeTop
  <2>4. Tail(stack) # <<>>
    <3>1. Len(<<>>) = 0
      OBVIOUS
    <3> QED
      BY <2>3, <3>1
  <2> QED
    BY <2>1, <2>2, <2>4
<1>3. \A n \in 1 .. Len(Tail(stack)) - 1 : Tail(stack)[n + 1] \in Below(Tail(stack)[n])
  BY <1>1, ShapeTop DEF Shape
<1>4. \A n \in 1 .. Len(Tail(stack)) - 2 :
        Tail(stack)[n + 1] = "skip_newlines" => Tail(stack)[n + 2] \in Behind(Tail(stack)[n])
  BY <1>1, ShapeTop DEF Shape
<1> QED
  BY <1>1, <1>2, <1>3, <1>4, ShapeTop DEF Shape

(* It goes on as other calls.                                              *)
Pushed(symbols, stack) == symbols \o Tail(stack)

LEMMA ShapePush ==
  ASSUME NEW stack, Shape(stack), NEW symbols, Replaces(symbols, stack[1])
  PROVE  /\ Shape(Pushed(symbols, stack))
         /\ Pushed(symbols, stack)[1] = symbols[1]
         /\ Len(symbols) > 1 => Pushed(symbols, stack)[2] = symbols[2]
         /\ Len(symbols) = 1 => \A n \in 2 .. Len(stack) : Pushed(symbols, stack)[n] = stack[n]
<1> DEFINE rest == Tail(stack)
           next == symbols \o rest
           k == Len(symbols)
           l == Len(stack) - 1
<1>1. /\ symbols \in Seq(Symbols) /\ rest \in Seq(Symbols)
      /\ k \in Nat /\ k > 0 /\ l \in Nat /\ Len(rest) = l
      /\ \A n \in 1 .. l : rest[n] = stack[n + 1]
  BY ShapeTop DEF Replaces, Chain
<1>2. /\ next \in Seq(Symbols) /\ Len(next) = k + l
      /\ \A n \in 1 .. k : next[n] = symbols[n]
      /\ \A n \in 1 .. l : next[n + k] = stack[n + 1]
  <2>1. /\ next \in Seq(Symbols) /\ Len(next) = k + l
        /\ \A n \in 1 .. k + l : next[n] = IF n <= k THEN symbols[n] ELSE rest[n - k]
    BY <1>1, ConcatProperties
  <2> HIDE DEF next, rest, k, l
  <2>2. \A n \in 1 .. k : next[n] = symbols[n]
    BY <1>1, <2>1
  <2>3. ASSUME NEW n \in 1 .. l PROVE next[n + k] = stack[n + 1]
    <3>1. n + k \in 1 .. k + l /\ ~(n + k <= k) /\ (n + k) - k = n
      BY <1>1
    <3> QED
      BY <1>1, <2>1, <3>1
  <2> QED
    BY <2>1, <2>2, <2>3
<1>3. /\ \A n \in 1 .. l : stack[n + 1] \in Below(stack[n])
      /\ \A n \in 1 .. l - 1 : stack[n + 1] = "skip_newlines" => stack[n + 2] \in Behind(stack[n])
      /\ stack[l + 1] = "top_level"
  BY DEF Shape
<1>4. /\ \A n \in 1 .. k - 1 : symbols[n + 1] \in Below(symbols[n])
      /\ \A n \in 1 .. k - 2 : symbols[n + 1] = "skip_newlines" => symbols[n + 2] \in Behind(symbols[n])
      /\ k > 1 => symbols[k] # "skip_newlines"
  BY DEF Replaces, Chain
<1>5. /\ Below(stack[1]) \subseteq Below(symbols[k])
      /\ "skip_newlines" \in Below(stack[1]) => Behind(stack[1]) \subseteq Behind(symbols[k])
      /\ l = 0 => symbols[k] = "top_level"
  BY ShapeTop DEF Replaces
<1> HIDE DEF next, rest, k, l
<1>6. next[k + l] = "top_level"
  <2>1. CASE l = 0
    BY <1>1, <1>2, <1>5, <2>1
  <2>2. CASE l > 0
    BY <1>1, <1>2, <1>3, <2>2
  <2> QED
    BY <1>1, <2>1, <2>2
<1>7. ASSUME NEW n \in 1 .. k + l - 1 PROVE next[n + 1] \in Below(next[n])
  <2>1. CASE n < k
    BY <1>1, <1>2, <1>4, <2>1
  <2>2. CASE n = k
    <3>1. next[1 + k] = stack[2] /\ stack[2] \in Below(stack[1])
      BY <1>1, <1>2, <1>3, <2>2
    <3> QED
      BY <1>1, <1>2, <1>5, <2>2, <3>1
  <2>3. CASE n > k
    <3> DEFINE m == n - k
    <3>1. m \in 1 .. l - 1 /\ n = m + k /\ n + 1 = (m + 1) + k /\ m + 1 \in 1 .. l
      BY <1>1, <2>3
    <3> HIDE DEF m
    <3>2. next[n] = stack[m + 1] /\ next[n + 1] = stack[(m + 1) + 1]
      <4>1. m \in 1 .. l
        BY <1>1, <3>1
      <4> QED
        BY <1>2, <3>1, <4>1
    <3>3. m + 1 \in 1 .. l
      BY <3>1
    <3> QED
      BY <1>3, <3>2, <3>3
  <2> QED
    BY <1>1, <2>1, <2>2, <2>3
<1>8. ASSUME NEW n \in 1 .. k + l - 2, next[n + 1] = "skip_newlines"
      PROVE  next[n + 2] \in Behind(next[n])
  <2>1. CASE n < k - 1
    BY <1>1, <1>2, <1>4, <1>8, <2>1
  <2>2. CASE n = k - 1
    BY <1>1, <1>2, <1>4, <1>8, <2>2
  <2>3. CASE n = k
    <3>1. next[1 + k] = stack[2] /\ next[2 + k] = stack[3]
      BY <1>1, <1>2, <2>3
    <3>2. stack[2] = "skip_newlines" /\ stack[2] \in Below(stack[1]) /\ stack[3] \in Behind(stack[1])
      BY <1>1, <1>3, <1>8, <2>3, <3>1
    <3> QED
      BY <1>1, <1>2, <1>5, <2>3, <3>1, <3>2
  <2>4. CASE n > k
    <3> DEFINE m == n - k
    <3>1. m \in 1 .. l - 2 /\ n = m + k /\ n + 1 = (m + 1) + k /\ n + 2 = (m + 2) + k
          /\ m + 1 \in 1 .. l - 1 /\ m + 2 \in 1 .. l
      BY <1>1, <2>4
    <3> HIDE DEF m
    <3>2. next[n] = stack[m + 1] /\ next[n + 1] = stack[m + 2] /\ next[n + 2] = stack[m + 3]
      <4>1. m \in 1 .. l /\ m + 1 \in 1 .. l /\ m + 2 \in 1 .. l
            /\ (m + 1) + 1 = m + 2 /\ (m + 2) + 1 = m + 3
        BY <1>1, <3>1
      <4>2. next[m + k] = stack[m + 1] /\ next[(m + 1) + k] = stack[(m + 1) + 1]
            /\ next[(m + 2) + k] = stack[(m + 2) + 1]
        BY <1>2, <4>1
      <4> QED
        BY <3>1, <4>1, <4>2
    <3>3. m + 1 \in 1 .. l - 1 /\ (m + 1) + 1 = m + 2 /\ (m + 1) + 2 = m + 3
      BY <1>1, <3>1
    <3>4. stack[(m + 1) + 1] = "skip_newlines" => stack[(m + 1) + 2] \in Behind(stack[m + 1])
      BY <1>3, <3>3
    <3> QED
      BY <1>8, <3>2, <3>3, <3>4
  <2>5. n \in Int /\ k \in Int
    BY <1>1
  <2>6. n < k - 1 \/ n = k - 1 \/ n = k \/ n > k
    BY <2>5
  <2> QED
    BY <2>1, <2>2, <2>3, <2>4, <2>6
<1>9. next # <<>>
  BY <1>1, <1>2
<1>10. Shape(next)
  <2>1. Len(next) = k + l /\ next \in Seq(Symbols)
    BY <1>2
  <2>2. \A n \in 1 .. Len(next) - 1 : next[n + 1] \in Below(next[n])
    <3> SUFFICES ASSUME NEW n \in 1 .. Len(next) - 1 PROVE next[n + 1] \in Below(next[n])
      OBVIOUS
    <3>1. n \in 1 .. k + l - 1
      BY <1>1, <2>1
    <3> QED
      BY <1>7, <3>1
  <2>3. \A n \in 1 .. Len(next) - 2 : next[n + 1] = "skip_newlines" => next[n + 2] \in Behind(next[n])
    <3> SUFFICES ASSUME NEW n \in 1 .. Len(next) - 2, next[n + 1] = "skip_newlines"
                 PROVE  next[n + 2] \in Behind(next[n])
      OBVIOUS
    <3>1. n \in 1 .. k + l - 2
      BY <1>1, <2>1
    <3> QED
      BY <1>8, <3>1
  <2> QED
    BY <1>6, <1>9, <2>1, <2>2, <2>3 DEF Shape
<1>11. k = 1 => \A n \in 2 .. Len(stack) : next[n] = stack[n]
  <2> SUFFICES ASSUME k = 1, NEW n \in 2 .. Len(stack) PROVE next[n] = stack[n]
    OBVIOUS
  <2>1. n - 1 \in 1 .. l /\ (n - 1) + 1 = n
    BY DEF l
  <2> QED
    BY <1>2, <2>1
<1>12. next[1] = symbols[1] /\ (k > 1 => next[2] = symbols[2])
  BY <1>1, <1>2
<1> QED
  BY <1>10, <1>11, <1>12 DEF next, rest, k, Pushed

-----------------------------------------------------------------------------
(* The rules keep the shape.                                               *)

LEMMA Kinds ==
  ASSUME NEW symbols
  PROVE  /\ Take(symbols).does = "take" /\ Take(symbols).symbols = symbols
         /\ Pass(symbols).does = "pass" /\ Pass(symbols).symbols = symbols
         /\ Fail.does = "fail" /\ Fail.symbols = <<>>
BY DEF Take, Pass, Fail

(* The rule of each symbol.                                                *)
LEMMA RuleCases ==
  ASSUME NEW t, NEW d
  PROVE  /\ \A symbol \in {"parse_list", "parse_body", "top_level"} :
              Rule(symbol, t, d) = ListRule(symbol, t)
         /\ Rule("separator", t, d) = SeparatorRule(t)
         /\ \A symbol \in {"parse_and_or", "and_or_rest", "parse_pipeline", "pipeline_rest"} :
              Rule(symbol, t, d) = PipelineRule(symbol, t)
         /\ Rule("parse_command", t, d) = CommandRule(t, d)
         /\ \A symbol \in Simple : Rule(symbol, t, d) = SimpleRule(symbol, t)
         /\ Rule("parse_function", t, d) = FunctionRule(d)
         /\ Rule("trailing_redirects", t, d) =
              IF t \in Redirections THEN SimpleRule("trailing_redirects", t) ELSE Pass(<<>>)
         /\ \A symbol \in {"for_name", "case_word", "case_pattern"} \union Redirecting :
              Rule(symbol, t, d) = WordRule(symbol, t)
         /\ \A symbol \in {"branches", "fi"} : Rule(symbol, t, d) = BranchRule(symbol, t)
         /\ \A symbol \in {"for_in", "for_words"} : Rule(symbol, t, d) = ForRule(symbol, t)
         /\ \A symbol \in Arms : Rule(symbol, t, d) = CaseRule(symbol, t)
         /\ Rule("skip_newlines", t, d) =
              IF t = "newline" THEN Take(<<"skip_newlines">>) ELSE Pass(<<>>)
         /\ Rule("leave", t, d) = Pass(<<>>)
         /\ \A symbol \in {"in", "then", "do", "done", "}", ")"} : Rule(symbol, t, d) = Expect(symbol, t)
BY DEF Rule, Arms, Simple, Redirecting

LEMMA Chain1 ==
  ASSUME NEW a \in Symbols
  PROVE  Chain(<<a>>)
BY DEF Chain

LEMMA Chain2 ==
  ASSUME NEW a \in Symbols, NEW b \in Symbols, b \in Below(a), b # "skip_newlines"
  PROVE  Chain(<<a, b>>)
BY DEF Chain

LEMMA Chain3 ==
  ASSUME NEW a \in Symbols, NEW b \in Symbols, NEW c \in Symbols, b \in Below(a), c \in Below(b),
         b = "skip_newlines" => c \in Behind(a), c # "skip_newlines"
  PROVE  Chain(<<a, b, c>>)
BY DEF Chain

LEMMA Chain4 ==
  ASSUME NEW a \in Symbols, NEW b \in Symbols, NEW c \in Symbols, NEW e \in Symbols,
         b \in Below(a), c \in Below(b), e \in Below(c),
         b = "skip_newlines" => c \in Behind(a), c = "skip_newlines" => e \in Behind(b),
         e # "skip_newlines"
  PROVE  Chain(<<a, b, c, e>>)
BY DEF Chain

LEMMA Chain6 ==
  ASSUME NEW a \in Symbols, NEW b \in Symbols, NEW c \in Symbols, NEW e \in Symbols,
         NEW f \in Symbols, NEW g \in Symbols,
         b \in Below(a), c \in Below(b), e \in Below(c), f \in Below(e), g \in Below(f),
         b = "skip_newlines" => c \in Behind(a), c # "skip_newlines", e # "skip_newlines",
         f # "skip_newlines", g # "skip_newlines"
  PROVE  Chain(<<a, b, c, e, f, g>>)
BY DEF Chain

LEMMA Chain9 ==
  ASSUME NEW a \in Symbols, NEW b \in Symbols, NEW c \in Symbols, NEW e \in Symbols,
         NEW f \in Symbols, NEW g \in Symbols, NEW h \in Symbols, NEW i \in Symbols, NEW j \in Symbols,
         b \in Below(a), c \in Below(b), e \in Below(c), f \in Below(e), g \in Below(f),
         h \in Below(g), i \in Below(h), j \in Below(i),
         b = "skip_newlines" => c \in Behind(a), c # "skip_newlines",
         e = "skip_newlines" => f \in Behind(c), f # "skip_newlines", g # "skip_newlines",
         h # "skip_newlines", i # "skip_newlines", j # "skip_newlines"
  PROVE  Chain(<<a, b, c, e, f, g, h, i, j>>)
BY DEF Chain

(* The callers, symbol by symbol.                                          *)
LEMMA BelowFacts ==
  /\ {"}", ")", "then", "fi", "do", "done", "branches"} \subseteq Below("parse_body")
  /\ {"}", ")", "then", "fi", "do", "done", "branches", "arm_end"} = Below("parse_list")
  /\ Below("parse_body") \subseteq Below("parse_list")
  /\ Below("then") = {"parse_body"} /\ Below("do") = {"parse_body"}
  /\ Below("parse_and_or") = {"separator"} /\ Below("and_or_rest") = {"separator"}
  /\ Below("separator") = {"parse_list", "top_level"} /\ Below("top_level") = {}
  /\ Below("parse_pipeline") = {"and_or_rest"} /\ Below("pipeline_rest") = {"and_or_rest"}
  /\ \A symbol \in {"parse_command", "parse_function", "trailing_redirects"} \union Simple :
       Below(symbol) = {"pipeline_rest", "leave"}
  /\ Below("leave") = {"pipeline_rest", "leave", "trailing_redirects"}
  /\ \A symbol \in {"fi", "done", "}", "branches"} \union Arms : Below(symbol) = {"leave"}
  /\ Below(")") = {"leave", "skip_newlines"}
  /\ Below("skip_newlines") = {"do", "in", "for_in", "parse_pipeline", "parse_command"}
  /\ \A symbol \in {"for_name", "for_in", "for_words", "case_word"} : Below(symbol) = {"skip_newlines"}
  /\ Below("in") = {"parse_case_arms"} /\ Below("case_pattern") = {"pattern_end"}
  /\ \A symbol \in Redirecting : Below(symbol) = {"prefix", "parse_simple", "trailing_redirects"}
BY DEF Below, Simple, Arms, Redirecting

LEMMA CompoundChain ==
  ASSUME NEW t \in {"if", "while", "for", "case", "{", "("}
  PROVE  Chain(Compound(t)) /\ Compound(t)[Len(Compound(t))] = "trailing_redirects"
<1>1. /\ {"then", "do", "done", "branches", "}", ")"} \subseteq Below("parse_body")
      /\ "parse_body" \in Below("then") /\ "parse_body" \in Below("do")
      /\ \A symbol \in {"branches", "done", "}", ")", "parse_case_arms"} : "leave" \in Below(symbol)
      /\ "trailing_redirects" \in Below("leave")
      /\ "skip_newlines" \in Below("for_name") /\ "skip_newlines" \in Below("for_in")
      /\ "skip_newlines" \in Below("case_word") /\ "parse_case_arms" \in Below("in")
      /\ {"in", "for_in", "do"} \subseteq Below("skip_newlines")
  BY DEF Below, Simple, Arms, Redirecting
<1>2. "for_in" \in Behind("for_name") /\ "do" \in Behind("for_in") /\ "in" \in Behind("case_word")
  BY DEF Behind
<1>3. {"parse_body", "then", "do", "done", "branches", "}", ")", "leave", "trailing_redirects",
       "for_name", "for_in", "case_word", "in", "skip_newlines", "parse_case_arms"} \subseteq Symbols
  BY DEF Symbols, Arms
<1>4. CASE t = "if"
  <2> DEFINE calls == <<"parse_body", "then", "parse_body", "branches", "leave", "trailing_redirects">>
  <2>1. Compound(t) = calls
    BY <1>4 DEF Compound
  <2>2. calls[Len(calls)] = "trailing_redirects"
    OBVIOUS
  <2>3. Chain(calls)
    BY <1>1, <1>3, Chain6
  <2> QED
    BY <2>1, <2>2, <2>3
<1>5. CASE t = "while"
  <2> DEFINE calls == <<"parse_body", "do", "parse_body", "done", "leave", "trailing_redirects">>
  <2>1. Compound(t) = calls
    BY <1>5 DEF Compound
  <2>2. calls[Len(calls)] = "trailing_redirects"
    OBVIOUS
  <2>3. Chain(calls)
    BY <1>1, <1>3, Chain6
  <2> QED
    BY <2>1, <2>2, <2>3
<1>6. CASE t = "for"
  <2> DEFINE calls == <<"for_name", "skip_newlines", "for_in", "skip_newlines", "do", "parse_body",
                        "done", "leave", "trailing_redirects">>
  <2>1. Compound(t) = calls
    BY <1>6 DEF Compound
  <2>2. calls[Len(calls)] = "trailing_redirects"
    OBVIOUS
  <2>3. Chain(calls)
    BY <1>1, <1>2, <1>3, Chain9
  <2> QED
    BY <2>1, <2>2, <2>3
<1>7. CASE t = "case"
  <2> DEFINE calls == <<"case_word", "skip_newlines", "in", "parse_case_arms", "leave",
                        "trailing_redirects">>
  <2>1. Compound(t) = calls
    BY <1>7 DEF Compound
  <2>2. calls[Len(calls)] = "trailing_redirects"
    OBVIOUS
  <2>3. Chain(calls)
    BY <1>1, <1>2, <1>3, Chain6
  <2> QED
    BY <2>1, <2>2, <2>3
<1>8. CASE t = "{"
  <2> DEFINE calls == <<"parse_body", "}", "leave", "trailing_redirects">>
  <2>1. Compound(t) = calls
    BY <1>8 DEF Compound
  <2>2. calls[Len(calls)] = "trailing_redirects"
    OBVIOUS
  <2>3. Chain(calls)
    BY <1>1, <1>3, Chain4
  <2> QED
    BY <2>1, <2>2, <2>3
<1>9. CASE t = "("
  <2> DEFINE calls == <<"parse_body", ")", "leave", "trailing_redirects">>
  <2>1. Compound(t) = calls
    BY <1>9 DEF Compound
  <2>2. calls[Len(calls)] = "trailing_redirects"
    OBVIOUS
  <2>3. Chain(calls)
    BY <1>1, <1>3, Chain4
  <2> QED
    BY <2>1, <2>2, <2>3
<1> QED
  BY <1>4, <1>5, <1>6, <1>7, <1>8, <1>9

LEMMA RedirectReplaces ==
  ASSUME NEW t \in Redirections, NEW symbol \in Simple \union {"trailing_redirects"}
  PROVE  LET redirect == IF t = "<<" THEN "parse_here_doc" ELSE "parse_redirect"
             behind   == IF symbol = "first_word" THEN "parse_simple" ELSE symbol
         IN /\ SimpleRule(symbol, t) = Take(<<redirect, behind>>)
            /\ Replaces(SimpleRule(symbol, t).symbols, symbol)
            /\ symbol = "prefix" => Replaces(SimpleRule(symbol, t).symbols, "parse_command")
<1> DEFINE redirect == IF t = "<<" THEN "parse_here_doc" ELSE "parse_redirect"
           behind   == IF symbol = "first_word" THEN "parse_simple" ELSE symbol
<1>1. t \notin WordTokens /\ t # "("
  BY DEF WordTokens, Reserved, Redirections
<1>2. SimpleRule(symbol, t) = Take(<<redirect, behind>>)
  <2>1. SimpleRule(symbol, t)
          = Take(<<IF t = "<<" THEN "parse_here_doc" ELSE "parse_redirect",
                   IF symbol = "first_word" THEN "parse_simple" ELSE symbol>>)
    BY <1>1 DEF SimpleRule
  <2> QED
    BY <2>1
<1>3. redirect \in Redirecting /\ behind \in {"prefix", "parse_simple", "trailing_redirects"}
  BY DEF Redirecting, Simple
<1>4. Below(symbol) = {"pipeline_rest", "leave"} /\ Below("parse_command") = {"pipeline_rest", "leave"}
      /\ symbol # "top_level"
  BY DEF Below, Simple, Arms, Redirecting
<1> HIDE DEF redirect, behind
<1>5. behind \in Below(redirect) /\ Below(behind) = {"pipeline_rest", "leave"}
  BY <1>3 DEF Below, Simple, Arms, Redirecting
<1>6. redirect \in Symbols /\ behind \in Symbols /\ behind # "skip_newlines" /\ redirect # "skip_newlines"
  BY <1>3 DEF Symbols, Simple, Redirecting
<1>7. Chain(<<redirect, behind>>)
  BY <1>5, <1>6, Chain2
<1>8. Replaces(<<redirect, behind>>, symbol) /\ Replaces(<<redirect, behind>>, "parse_command")
  BY <1>4, <1>5, <1>7 DEF Replaces
<1> QED
  BY <1>2, <1>8, Kinds DEF redirect, behind

(* What a rule pushes takes the place of the symbol: no call is put over   *)
(* one that does not make it.                                              *)
LEMMA RuleReplaces ==
  ASSUME NEW symbol \in Symbols, NEW t, NEW d,
         Rule(symbol, t, d).does # "fail", Rule(symbol, t, d).symbols # <<>>
  PROVE  Replaces(Rule(symbol, t, d).symbols, symbol)
<1> DEFINE symbols == Rule(symbol, t, d).symbols
<1>1. Chain(<<symbol>>) /\ Replaces(<<symbol>>, symbol)
  <2>1. Len(<<symbol>>) = 1 /\ <<symbol>>[1] = symbol
    OBVIOUS
  <2> QED
    BY <2>1, Chain1 DEF Replaces
<1>2. CASE symbol \in {"parse_list", "parse_body", "top_level"}
  <2>1. Rule(symbol, t, d) = ListRule(symbol, t)
    BY <1>2, RuleCases
  <2>2. CASE t = "newline"
    <3>1. ListRule(symbol, t) = Take(<<symbol>>)
      BY <2>2 DEF ListRule, ListEnd, End
    <3> QED
      BY <1>1, <2>1, <3>1, Kinds
  <2>3. CASE t \in ListEnd
    <3>1. ListRule(symbol, t) \in {Pass(<<>>), Fail}
      BY <2>3 DEF ListRule, ListEnd, End
    <3> QED
      BY <2>1, <3>1, Kinds
  <2>4. CASE t \notin ListEnd \union {"newline"}
    <3> DEFINE last == IF symbol = "top_level" THEN "top_level" ELSE "parse_list"
    <3>1. ListRule(symbol, t) = Pass(<<"parse_and_or", "separator", last>>)
      BY <2>4 DEF ListRule
    <3>2. Chain(<<"parse_and_or", "separator", last>>)
      BY Chain3 DEF Symbols, Below, Simple, Arms, Redirecting
    <3>3. Len(<<"parse_and_or", "separator", last>>) = 3 /\ <<"parse_and_or", "separator", last>>[3] = last
      OBVIOUS
    <3>4. Below(symbol) \subseteq Below(last) /\ "skip_newlines" \notin Below(symbol)
      BY <1>2 DEF Below, Simple, Arms, Redirecting
    <3>5. Replaces(<<"parse_and_or", "separator", last>>, symbol)
      BY <3>2, <3>3, <3>4 DEF Replaces
    <3> HIDE DEF last
    <3> QED
      BY <2>1, <3>1, <3>5, Kinds
  <2> QED
    BY <2>2, <2>3, <2>4
<1>3. CASE symbol = "separator"
  <2>1. Rule(symbol, t, d) = SeparatorRule(t)
    BY <1>3, RuleCases
  <2>2. SeparatorRule(t) \in {Take(<<>>), Pass(<<>>), Fail}
    BY DEF SeparatorRule, ListEnd, End
  <2> QED
    BY <2>1, <2>2, Kinds
<1>4. CASE symbol = "parse_and_or"
  <2> DEFINE more == <<"parse_pipeline", "and_or_rest">>
  <2>1. Rule(symbol, t, d) = PipelineRule(symbol, t)
    BY <1>4, RuleCases
  <2>2. PipelineRule(symbol, t) \in {Pass(more)}
    BY <1>4 DEF PipelineRule
  <2>3. Chain(more)
    BY Chain2 DEF Symbols, Below, Simple, Arms, Redirecting
  <2>4. Replaces(more, symbol)
    BY <1>4, <2>3 DEF Replaces, Below, Simple, Arms, Redirecting
  <2> HIDE DEF more
  <2> QED
    BY <2>1, <2>2, <2>4, Kinds
<1>5. CASE symbol = "and_or_rest"
  <2> DEFINE more == <<"skip_newlines", "parse_pipeline", "and_or_rest">>
  <2>1. Rule(symbol, t, d) = PipelineRule(symbol, t)
    BY <1>5, RuleCases
  <2>2. PipelineRule(symbol, t) \in {Take(more), Pass(<<>>)}
    BY <1>5 DEF PipelineRule
  <2>3. Chain(more)
    BY Chain3 DEF Symbols, Below, Simple, Arms, Redirecting
  <2>4. Replaces(more, symbol)
    BY <1>5, <2>3 DEF Replaces, Below, Simple, Arms, Redirecting
  <2> HIDE DEF more
  <2> QED
    BY <2>1, <2>2, <2>4, Kinds
<1>6. CASE symbol = "parse_pipeline"
  <2> DEFINE more == <<"parse_command", "pipeline_rest">>
  <2>1. Rule(symbol, t, d) = PipelineRule(symbol, t)
    BY <1>6, RuleCases
  <2>2. PipelineRule(symbol, t) \in {Take(more), Pass(more)}
    BY <1>6 DEF PipelineRule
  <2>3. Chain(more)
    BY Chain2 DEF Symbols, Below, Simple, Arms, Redirecting
  <2>4. Replaces(more, symbol)
    BY <1>6, <2>3 DEF Replaces, Below, Simple, Arms, Redirecting
  <2> HIDE DEF more
  <2> QED
    BY <2>1, <2>2, <2>4, Kinds
<1>7. CASE symbol = "pipeline_rest"
  <2> DEFINE more == <<"skip_newlines", "parse_command", "pipeline_rest">>
  <2>1. Rule(symbol, t, d) = PipelineRule(symbol, t)
    BY <1>7, RuleCases
  <2>2. PipelineRule(symbol, t) \in {Take(more), Pass(<<>>)}
    BY <1>7 DEF PipelineRule
  <2>3. Chain(more)
    BY Chain3 DEF Symbols, Below, Simple, Arms, Redirecting, Behind
  <2>4. Replaces(more, symbol)
    BY <1>7, <2>3 DEF Replaces, Below, Simple, Arms, Redirecting
  <2> HIDE DEF more
  <2> QED
    BY <2>1, <2>2, <2>4, Kinds
<1>8. CASE symbol = "parse_command"
  <2>1. Rule(symbol, t, d) = CommandRule(t, d)
    BY <1>8, RuleCases
  <2>2. CASE t \in {"if", "while", "for", "case", "{", "("}
    <3>1. CommandRule(t, d) \in {Take(Compound(t)), Fail}
      BY <2>2 DEF CommandRule, WordTokens, Redirections, Reserved
    <3>2. Chain(Compound(t)) /\ Compound(t)[Len(Compound(t))] = "trailing_redirects"
      BY <2>2, CompoundChain
    <3>3. Replaces(Compound(t), symbol)
      BY <1>8, <3>2 DEF Replaces, Below, Simple, Arms, Redirecting
    <3> QED
      BY <2>1, <3>1, <3>3, Kinds
  <2>3. CASE t \in {"x", "-", "X=1"}
    <3> DEFINE word == CASE t = "x"   -> "first_word"
                         [] t = "-"   -> "parse_simple"
                         [] t = "X=1" -> "prefix"
    <3>1. CommandRule(t, d) = Take(<<word>>)
      BY <2>3 DEF CommandRule, WordTokens, Redirections, Reserved
    <3>2. word \in Simple
      BY <2>3 DEF Simple
    <3>3. Replaces(<<word>>, symbol)
      <4> HIDE DEF word
      <4>1. Chain(<<word>>)
        BY <3>2, Chain1 DEF Symbols
      <4> QED
        BY <1>8, <3>2, <4>1 DEF Replaces, Below, Simple, Arms, Redirecting
    <3> HIDE DEF word
    <3> QED
      BY <2>1, <3>1, <3>3, Kinds
  <2>4. CASE t \in Redirections
    <3>1. CommandRule(t, d) = SimpleRule("prefix", t)
      BY <2>4 DEF CommandRule, WordTokens, Redirections, Reserved
    <3>2. Replaces(SimpleRule("prefix", t).symbols, symbol)
      BY <1>8, <2>4, RedirectReplaces DEF Simple
    <3> QED
      BY <2>1, <3>1, <3>2
  <2>5. CASE t \notin {"if", "while", "for", "case", "{", "(", "x", "-", "X=1"} \union Redirections
    <3>1. CommandRule(t, d) = Fail
      BY <2>5 DEF CommandRule, WordTokens
    <3> QED
      BY <2>1, <3>1, Kinds
  <2> QED
    BY <2>2, <2>3, <2>4, <2>5
<1>9. CASE symbol \in Simple
  <2>1. Rule(symbol, t, d) = SimpleRule(symbol, t)
    BY <1>9, RuleCases
  <2>2. CASE t \in Redirections
    BY <1>9, <2>1, <2>2, RedirectReplaces
  <2>3. CASE t \in WordTokens
    <3> DEFINE word == IF symbol = "prefix" /\ t = "X=1" THEN "prefix" ELSE "parse_simple"
    <3>1. SimpleRule(symbol, t) = Take(<<word>>)
      BY <2>3 DEF SimpleRule, WordTokens, Redirections, Reserved
    <3>2. Replaces(<<word>>, symbol)
      <4>1. word \in Simple
        BY DEF Simple
      <4> HIDE DEF word
      <4>2. Chain(<<word>>)
        BY <4>1, Chain1 DEF Symbols
      <4> QED
        BY <1>9, <4>1, <4>2 DEF Replaces, Below, Simple, Arms, Redirecting
    <3> HIDE DEF word
    <3> QED
      BY <2>1, <3>1, <3>2, Kinds
  <2>4. CASE t \notin WordTokens \union Redirections
    <3>1. SimpleRule(symbol, t) \in {Pass(<<"parse_function">>), Pass(<<>>)}
      BY <2>4 DEF SimpleRule
    <3>2. Replaces(<<"parse_function">>, symbol)
      <4>1. Chain(<<"parse_function">>)
        BY Chain1 DEF Symbols
      <4> QED
        BY <1>9, <4>1 DEF Replaces, Below, Simple, Arms, Redirecting
    <3> QED
      BY <2>1, <3>1, <3>2, Kinds
  <2> QED
    BY <2>2, <2>3, <2>4
<1>10. CASE symbol = "parse_function"
  <2> DEFINE more == <<")", "skip_newlines", "parse_command", "leave">>
  <2>1. Rule(symbol, t, d) = FunctionRule(d)
    BY <1>10, RuleCases
  <2>2. FunctionRule(d) \in {Take(more), Fail}
    BY DEF FunctionRule
  <2>3. Chain(more)
    <3>1. {")", "skip_newlines", "parse_command", "leave"} \subseteq Symbols
      BY DEF Symbols
    <3>2. "skip_newlines" \in Below(")") /\ "parse_command" \in Below("skip_newlines")
          /\ "leave" \in Below("parse_command") /\ "parse_command" \in Behind(")")
      BY DEF Behind, Below, Simple, Arms, Redirecting
    <3> QED
      BY <3>1, <3>2, Chain4
  <2>4. Replaces(more, symbol)
    BY <1>10, <2>3 DEF Replaces, Below, Simple, Arms, Redirecting
  <2> HIDE DEF more
  <2> QED
    BY <2>1, <2>2, <2>4, Kinds
<1>11. CASE symbol = "trailing_redirects"
  <2>1. t \in Redirections => Rule(symbol, t, d) = SimpleRule("trailing_redirects", t)
    BY <1>11, RuleCases
  <2>2. t \notin Redirections => Rule(symbol, t, d) = Pass(<<>>)
    BY <1>11, RuleCases
  <2>3. t \in Redirections => Replaces(SimpleRule("trailing_redirects", t).symbols, symbol)
    BY <1>11, RedirectReplaces
  <2> QED
    BY <2>1, <2>2, <2>3, Kinds
<1>12. CASE symbol \in {"for_name", "case_word", "case_pattern"} \union Redirecting
  <2>1. Rule(symbol, t, d) = WordRule(symbol, t)
    BY <1>12, RuleCases
  <2>2. WordRule(symbol, t) \in {Take(<<>>), Fail}
    BY DEF WordRule
  <2> QED
    BY <2>1, <2>2, Kinds
<1>13. CASE symbol \in {"branches", "fi"}
  <2> DEFINE elif == <<"parse_body", "then", "parse_body", "branches">>
             else == <<"parse_body", "fi">>
  <2>1. Rule(symbol, t, d) = BranchRule(symbol, t)
    BY <1>13, RuleCases
  <2>2. BranchRule(symbol, t) \in {Take(elif), Take(else), Take(<<>>), Fail}
    BY DEF BranchRule, Expect
  <2>3. Chain(elif) /\ Chain(else)
    <3>1. {"parse_body", "then", "branches", "fi"} \subseteq Symbols
      BY DEF Symbols
    <3>2. {"then", "branches", "fi"} \subseteq Below("parse_body") /\ "parse_body" \in Below("then")
      BY DEF Below, Simple, Arms, Redirecting
    <3> QED
      BY <3>1, <3>2, Chain2, Chain4
  <2>4. Below(symbol) = {"leave"} /\ Below("branches") = {"leave"} /\ Below("fi") = {"leave"}
    BY <1>13 DEF Below, Simple, Arms, Redirecting
  <2>5. Replaces(elif, symbol) /\ Replaces(else, symbol)
    BY <1>13, <2>3, <2>4 DEF Replaces
  <2> HIDE DEF elif, else
  <2> QED
    BY <2>1, <2>2, <2>5, Kinds
<1>14. CASE symbol \in {"for_in", "for_words"}
  <2>1. Rule(symbol, t, d) = ForRule(symbol, t)
    BY <1>14, RuleCases
  <2>2. ForRule(symbol, t) \in {Take(<<"for_words">>), Take(<<>>), Pass(<<>>), Fail}
    BY <1>14 DEF ForRule, WordTokens, Reserved, End
  <2>3. Replaces(<<"for_words">>, symbol)
    <3>1. Chain(<<"for_words">>)
      BY Chain1 DEF Symbols
    <3>2. Below(symbol) = Below("for_words") /\ Behind(symbol) = Behind("for_words")
      BY <1>14 DEF Below, Behind, Simple, Arms, Redirecting
    <3> QED
      BY <1>14, <3>1, <3>2 DEF Replaces
  <2> QED
    BY <2>1, <2>2, <2>3, Kinds
<1>15. CASE symbol \in Arms
  <2> DEFINE pattern == <<"case_pattern", "pattern_end">>
             arm == <<"parse_list", "arm_end">>
             next == <<"parse_case_arms">>
  <2>1. Rule(symbol, t, d) = CaseRule(symbol, t)
    BY <1>15, RuleCases
  <2>2. CaseRule(symbol, t) \in {Take(pattern), Pass(pattern), Take(arm), Take(next), Take(<<>>), Fail}
    BY <1>15 DEF CaseRule, Arms, Expect
  <2>3. Chain(pattern) /\ Chain(arm) /\ Chain(next)
    <3>1. {"case_pattern", "pattern_end", "parse_list", "arm_end", "parse_case_arms"} \subseteq Symbols
      BY DEF Symbols, Arms
    <3>2. "pattern_end" \in Below("case_pattern") /\ "arm_end" \in Below("parse_list")
      BY DEF Below, Simple, Arms, Redirecting
    <3> QED
      BY <3>1, <3>2, Chain1, Chain2
  <2>4. \A arm_symbol \in Arms : Below(arm_symbol) = {"leave"} /\ arm_symbol # "top_level"
    BY DEF Below, Simple, Arms, Redirecting
  <2>5. Replaces(pattern, symbol) /\ Replaces(arm, symbol) /\ Replaces(next, symbol)
    BY <1>15, <2>3, <2>4 DEF Replaces, Arms
  <2> HIDE DEF pattern, arm, next
  <2> QED
    BY <2>1, <2>2, <2>5, Kinds
<1>16. CASE symbol = "skip_newlines"
  <2>1. Rule(symbol, t, d) \in {Take(<<symbol>>), Pass(<<>>)}
    BY <1>16, RuleCases, ZenonT(60)
  <2> QED
    BY <1>1, <2>1, Kinds
<1>17. CASE symbol = "leave"
  <2>1. Rule(symbol, t, d) = Pass(<<>>)
    BY <1>17, RuleCases
  <2> QED
    BY <2>1, Kinds
<1>18. CASE symbol \in {"in", "then", "do", "done", "}", ")"}
  <2>1. Rule(symbol, t, d) = Expect(symbol, t)
    BY <1>18, RuleCases
  <2>2. Expect(symbol, t) \in {Take(<<>>), Fail}
    BY DEF Expect
  <2> QED
    BY <2>1, <2>2, Kinds
<1> QED
  BY <1>2, <1>3, <1>4, <1>5, <1>6, <1>7, <1>8, <1>9, <1>10, <1>11, <1>12, <1>13, <1>14, <1>15,
     <1>16, <1>17, <1>18 DEF Symbols

-----------------------------------------------------------------------------
(* Who leaves a token to those beneath, and who looks at it through        *)
(* others.                                                                 *)

(* The symbols that leave a token to those beneath them.                   *)
Leaves(symbol, t) ==
  \/ symbol = "parse_list" /\ t \in ListEnd
  \/ symbol = "separator" /\ t \in ListEnd \union {"newline"}
  \/ symbol = "and_or_rest" /\ t \notin {"&&", "||"}
  \/ symbol = "pipeline_rest" /\ t # "|"
  \/ symbol \in Simple /\ t \notin WordTokens \union Redirections /\ (symbol = "first_word" => t # "(")
  \/ symbol = "trailing_redirects" /\ t \notin Redirections
  \/ symbol = "for_in" /\ t \notin {"in", ";"}
  \/ symbol = "skip_newlines" /\ t # "newline"
  \/ symbol = "leave"
  \/ symbol \in {"top_level", "for_words"} /\ t = End

LEMMA EmptyOrNot ==
  ASSUME NEW a, NEW rest
  PROVE  /\ Pass(<<a>>) # Pass(<<>>) /\ Take(rest) # Pass(<<>>) /\ Fail # Pass(<<>>)
         /\ \A b : Pass(<<a, b>>) # Pass(<<>>)
         /\ \A b, c : Pass(<<a, b, c>>) # Pass(<<>>)
<1>1. Len(<<>>) = 0 /\ Len(<<a>>) = 1
  OBVIOUS
<1>2. <<a>> # <<>> /\ (\A b : <<a, b>> # <<>>) /\ (\A b, c : <<a, b, c>> # <<>>)
  <2>1. \A b : Len(<<a, b>>) = 2
    OBVIOUS
  <2>2. \A b, c : Len(<<a, b, c>>) = 3
    OBVIOUS
  <2> QED
    BY <1>1, <2>1, <2>2
<1> QED
  BY <1>2, Kinds

(* A symbol returns only on the tokens it leaves.                          *)
LEMMA WhoReturns ==
  ASSUME NEW symbol \in Symbols, NEW t, Returns(symbol, t)
  PROVE  Leaves(symbol, t)
<1>1. Rule(symbol, t, 0) = Pass(<<>>)
  BY DEF Returns
<1>2. ASSUME NEW symbols PROVE Pass(<<>>) # Take(symbols)
  BY Kinds
<1>3. Pass(<<>>) # Fail
  BY Kinds
<1>4. CASE symbol \in {"parse_list", "parse_body", "top_level"}
  <2>1. ListRule(symbol, t) = Pass(<<>>)
    BY <1>1, <1>4, RuleCases
  <2>2. t # "newline"
    BY <2>1, <1>2 DEF ListRule, ListEnd, End
  <2>3. t \in ListEnd
    <3> SUFFICES ASSUME t \notin ListEnd PROVE FALSE
      OBVIOUS
    <3>1. ListRule(symbol, t) = Pass(<<"parse_and_or", "separator",
                                       IF symbol = "top_level" THEN "top_level" ELSE "parse_list">>)
      BY <2>2 DEF ListRule
    <3> QED
      BY <2>1, <3>1, EmptyOrNot
  <2>4. symbol = "parse_list" \/ (symbol = "top_level" /\ t = End)
    BY <1>3, <2>1, <2>2, <2>3 DEF ListRule
  <2> QED
    BY <2>3, <2>4 DEF Leaves
<1>5. CASE symbol = "separator"
  <2>1. SeparatorRule(t) = Pass(<<>>)
    BY <1>1, <1>5, RuleCases
  <2>2. t \in ListEnd \union {"newline"}
    BY <1>2, <1>3, <2>1 DEF SeparatorRule
  <2> QED
    BY <1>5, <2>2 DEF Leaves
<1>6. CASE symbol \in {"parse_and_or", "and_or_rest", "parse_pipeline", "pipeline_rest"}
  <2>1. PipelineRule(symbol, t) = Pass(<<>>)
    BY <1>1, <1>6, RuleCases
  <2>2. symbol = "and_or_rest" => t \notin {"&&", "||"}
    BY <1>2, <2>1 DEF PipelineRule
  <2>3. symbol = "pipeline_rest" => t # "|"
    BY <1>2, <2>1 DEF PipelineRule
  <2>4. symbol # "parse_and_or"
    BY <2>1, EmptyOrNot DEF PipelineRule
  <2>5. symbol # "parse_pipeline"
    BY <1>2, <2>1, EmptyOrNot DEF PipelineRule
  <2> QED
    BY <1>6, <2>2, <2>3, <2>4, <2>5 DEF Leaves
<1>7. CASE symbol = "parse_command"
  <2>1. CommandRule(t, 0) = Pass(<<>>)
    BY <1>1, <1>7, RuleCases
  <2>2. t \notin {"if", "while", "for", "case", "{", "("}
    BY <1>2, <1>3, <2>1 DEF CommandRule, WordTokens, Redirections, Reserved
  <2>3. t \notin WordTokens \ Reserved
    BY <1>2, <2>1 DEF CommandRule, WordTokens, Redirections, Reserved
  <2>4. t \notin Redirections
    <3> SUFFICES ASSUME t \in Redirections PROVE FALSE
      OBVIOUS
    <3>1. CommandRule(t, 0) = SimpleRule("prefix", t)
      BY DEF CommandRule, WordTokens, Redirections, Reserved
    <3> QED
      BY <1>2, <2>1, <3>1, RedirectReplaces DEF Simple
  <2>5. CommandRule(t, 0) = Fail
    BY <2>2, <2>3, <2>4 DEF CommandRule
  <2> QED
    BY <1>3, <2>1, <2>5
<1>8. CASE symbol \in Simple
  <2>1. SimpleRule(symbol, t) = Pass(<<>>)
    BY <1>1, <1>8, RuleCases
  <2>2. t \notin Redirections
    BY <1>2, <1>8, <2>1, RedirectReplaces
  <2>3. t \notin WordTokens
    BY <1>2, <2>1, <2>2 DEF SimpleRule, WordTokens, Reserved
  <2>4. symbol = "first_word" => t # "("
    BY <2>1, <2>2, <2>3, EmptyOrNot DEF SimpleRule
  <2> QED
    BY <1>8, <2>2, <2>3, <2>4 DEF Leaves
<1>9. CASE symbol = "parse_function"
  <2>1. FunctionRule(0) = Pass(<<>>)
    BY <1>1, <1>9, RuleCases
  <2> QED
    BY <1>2, <1>3, <2>1 DEF FunctionRule
<1>10. CASE symbol = "trailing_redirects"
  <2>1. t \in Redirections => SimpleRule("trailing_redirects", t) = Pass(<<>>)
    BY <1>1, <1>10, RuleCases
  <2>2. t \notin Redirections
    BY <1>2, <2>1, RedirectReplaces
  <2> QED
    BY <1>10, <2>2 DEF Leaves
<1>11. CASE symbol \in {"for_name", "case_word", "case_pattern"} \union Redirecting
  <2>1. WordRule(symbol, t) = Pass(<<>>)
    BY <1>1, <1>11, RuleCases
  <2> QED
    BY <1>2, <1>3, <2>1 DEF WordRule
<1>12. CASE symbol \in {"branches", "fi"}
  <2>1. BranchRule(symbol, t) = Pass(<<>>)
    BY <1>1, <1>12, RuleCases
  <2> QED
    BY <1>2, <1>3, <2>1 DEF BranchRule, Expect
<1>13. CASE symbol \in {"for_in", "for_words"}
  <2>1. ForRule(symbol, t) = Pass(<<>>)
    BY <1>1, <1>13, RuleCases
  <2>3. symbol = "for_in" => t \notin {"in", ";"}
    BY <1>2, <2>1 DEF ForRule
  <2>4. symbol # "for_words" \/ t = End
    <3> SUFFICES ASSUME symbol = "for_words", t # End PROVE FALSE
      OBVIOUS
    <3>1. ForRule(symbol, t) \in {Take(<<"for_words">>), Take(<<>>), Fail}
      BY DEF ForRule, WordTokens, Reserved
    <3> QED
      BY <1>2, <1>3, <2>1, <3>1
  <2> QED
    BY <1>13, <2>3, <2>4 DEF Leaves
<1>14. CASE symbol \in Arms
  <2>1. CaseRule(symbol, t) = Pass(<<>>)
    BY <1>1, <1>14, RuleCases
  <2>2. CaseRule(symbol, t) \in {Take(<<"case_pattern", "pattern_end">>), Pass(<<"case_pattern", "pattern_end">>),
                                 Take(<<"parse_list", "arm_end">>), Take(<<"parse_case_arms">>), Take(<<>>), Fail}
    BY <1>14 DEF CaseRule, Arms, Expect
  <2> QED
    BY <1>2, <1>3, <2>1, <2>2, EmptyOrNot
<1>15. CASE symbol = "skip_newlines"
  <2>1. t = "newline" => Rule(symbol, t, 0) = Take(<<"skip_newlines">>)
    BY <1>15, RuleCases
  <2> QED
    BY <1>1, <1>2, <1>15, <2>1 DEF Leaves
<1>16. CASE symbol = "leave"
  BY <1>16 DEF Leaves
<1>17. CASE symbol \in {"in", "then", "do", "done", "}", ")"}
  <2>1. Expect(symbol, t) = Pass(<<>>)
    BY <1>1, <1>17, RuleCases
  <2> QED
    BY <1>2, <1>3, <2>1 DEF Expect
<1> QED
  BY <1>4, <1>5, <1>6, <1>7, <1>8, <1>9, <1>10, <1>11, <1>12, <1>13, <1>14, <1>15, <1>16, <1>17
  DEF Symbols

(* The symbols that look at a token through others, and these.             *)
Through(symbol, next) ==
  \/ symbol \in {"parse_list", "parse_body", "top_level"} /\ next = "parse_and_or"
  \/ symbol = "parse_and_or" /\ next = "parse_pipeline"
  \/ symbol = "parse_pipeline" /\ next = "parse_command"
  \/ symbol = "first_word" /\ next = "parse_function"
  \/ symbol = "parse_case_arms" /\ next = "case_pattern"

(* A symbol looks at a token only through the symbols of Through.          *)
LEMMA WhoCalls ==
  ASSUME NEW symbol \in Symbols, NEW t, NEW d, ~Returns(symbol, t),
         Rule(symbol, t, d).does = "pass"
  PROVE  /\ Rule(symbol, t, 0).does = "pass" /\ Rule(symbol, t, 0).symbols # <<>>
         /\ Through(symbol, Rule(symbol, t, 0).symbols[1])
         /\ symbol = "parse_case_arms" => t \notin {"newline", "esac", "("}
         /\ symbol = "first_word" => t = "("
<1>1. Rule(symbol, t, 0) # Pass(<<>>)
  BY DEF Returns
<1>2. \A calls : Pass(calls).does = "pass" /\ Pass(calls).symbols = calls
                 /\ Take(calls).does # "pass" /\ Fail.does # "pass"
  BY Kinds
<1>3. ASSUME NEW a PROVE <<a>> # <<>> /\ <<a>>[1] = a
  <2>1. Len(<<>>) = 0 /\ Len(<<a>>) = 1
    OBVIOUS
  <2> QED
    BY <2>1
<1>4. ASSUME NEW a, NEW b PROVE <<a, b>> # <<>> /\ <<a, b>>[1] = a
  <2>1. Len(<<>>) = 0 /\ Len(<<a, b>>) = 2
    OBVIOUS
  <2> QED
    BY <2>1
<1>5. ASSUME NEW a, NEW b, NEW c PROVE <<a, b, c>> # <<>> /\ <<a, b, c>>[1] = a
  <2>1. Len(<<>>) = 0 /\ Len(<<a, b, c>>) = 3
    OBVIOUS
  <2> QED
    BY <2>1
<1>20. ASSUME NEW dd
       PROVE  \A calls \in {"parse_and_or", "and_or_rest", "parse_pipeline", "pipeline_rest"} :
                Rule(calls, t, dd) = PipelineRule(calls, t)
  BY RuleCases
<1>6. CASE symbol \in {"parse_list", "parse_body", "top_level"}
  <2>1. Rule(symbol, t, 0) = ListRule(symbol, t) /\ Rule(symbol, t, d) = ListRule(symbol, t)
    BY <1>6, RuleCases
  <2>2. t # "newline"
    BY <1>2, <2>1 DEF ListRule, ListEnd, End
  <2>3. t \notin ListEnd
    BY <1>1, <1>2, <2>1, <2>2 DEF ListRule
  <2>4. ListRule(symbol, t) = Pass(<<"parse_and_or", "separator",
                                     IF symbol = "top_level" THEN "top_level" ELSE "parse_list">>)
    BY <2>2, <2>3 DEF ListRule
  <2> QED
    BY <1>2, <1>5, <1>6, <2>1, <2>4 DEF Through
<1>7. CASE symbol \in {"parse_and_or", "parse_pipeline"}
  <2>1. Rule(symbol, t, 0) = PipelineRule(symbol, t) /\ Rule(symbol, t, d) = PipelineRule(symbol, t)
    BY <1>20, <1>7
  <2>2. symbol = "parse_and_or" => PipelineRule(symbol, t) = Pass(<<"parse_pipeline", "and_or_rest">>)
    BY DEF PipelineRule
  <2>3. symbol = "parse_pipeline" => PipelineRule(symbol, t) = Pass(<<"parse_command", "pipeline_rest">>)
    BY <1>2, <2>1 DEF PipelineRule
  <2> QED
    BY <1>2, <1>4, <1>7, <2>1, <2>2, <2>3 DEF Through
<1>8. CASE symbol \in {"and_or_rest", "pipeline_rest"}
  <2>1. Rule(symbol, t, 0) = PipelineRule(symbol, t) /\ Rule(symbol, t, d) = PipelineRule(symbol, t)
    BY <1>20, <1>8
  <2> QED
    BY <1>1, <1>2, <1>8, <2>1 DEF PipelineRule
<1>9. CASE symbol = "parse_command"
  <2>1. Rule(symbol, t, d) = CommandRule(t, d)
    BY <1>9, RuleCases
  <2>2. t \in Redirections => CommandRule(t, d) = SimpleRule("prefix", t)
    BY DEF CommandRule, WordTokens, Redirections, Reserved
  <2>7. ASSUME t \in Redirections PROVE \E calls : SimpleRule("prefix", t) = Take(calls)
    BY <2>7, RedirectReplaces DEF Simple
  <2>3. t \notin Redirections
    BY <1>2, <2>1, <2>2, <2>7
  <2>4. t \notin {"if", "while", "for", "case", "{", "("}
    BY <1>2, <2>1 DEF CommandRule, WordTokens, Redirections, Reserved
  <2>5. t \notin WordTokens \ Reserved
    BY <1>2, <2>1 DEF CommandRule, WordTokens, Redirections, Reserved
  <2>6. CommandRule(t, d) = Fail
    BY <2>3, <2>4, <2>5 DEF CommandRule
  <2> QED
    BY <1>2, <2>1, <2>6
<1>10. CASE symbol \in Simple
  <2>1. Rule(symbol, t, 0) = SimpleRule(symbol, t) /\ Rule(symbol, t, d) = SimpleRule(symbol, t)
    BY <1>10, RuleCases
  <2>2. t \notin Redirections
    BY <1>2, <1>10, <2>1, RedirectReplaces, ZenonT(60)
  <2>3. t \notin WordTokens
    BY <1>2, <2>1, <2>2 DEF SimpleRule, WordTokens, Reserved
  <2>4. symbol = "first_word" /\ t = "("
    BY <1>1, <2>1, <2>2, <2>3 DEF SimpleRule
  <2>5. SimpleRule(symbol, t) = Pass(<<"parse_function">>)
    BY <2>2, <2>3, <2>4 DEF SimpleRule
  <2> QED
    BY <1>2, <1>3, <2>1, <2>4, <2>5 DEF Through
<1>11. CASE symbol = "parse_function"
  <2>1. Rule(symbol, t, d) = FunctionRule(d)
    BY <1>11, RuleCases
  <2> QED
    BY <1>2, <2>1 DEF FunctionRule
<1>12. CASE symbol = "trailing_redirects"
  <2>1. t \in Redirections => Rule(symbol, t, d) = SimpleRule("trailing_redirects", t)
    BY <1>12, RuleCases
  <2>2. t \notin Redirections => Rule(symbol, t, 0) = Pass(<<>>)
    BY <1>12, RuleCases
  <2>3. ASSUME t \in Redirections PROVE \E calls : SimpleRule("trailing_redirects", t) = Take(calls)
    BY <2>3, RedirectReplaces
  <2> QED
    BY <1>1, <1>2, <2>1, <2>2, <2>3
<1>13. CASE symbol \in {"for_name", "case_word", "case_pattern"} \union Redirecting
  <2>1. Rule(symbol, t, d) = WordRule(symbol, t)
    BY <1>13, RuleCases
  <2> QED
    BY <1>2, <2>1 DEF WordRule
<1>14. CASE symbol \in {"branches", "fi"}
  <2>1. Rule(symbol, t, d) = BranchRule(symbol, t)
    BY <1>14, RuleCases
  <2> QED
    BY <1>2, <2>1 DEF BranchRule, Expect
<1>15. CASE symbol \in {"for_in", "for_words"}
  <2>1. Rule(symbol, t, 0) = ForRule(symbol, t) /\ Rule(symbol, t, d) = ForRule(symbol, t)
    BY <1>15, RuleCases
  <2>2. ForRule(symbol, t) \in {Take(<<"for_words">>), Take(<<>>), Pass(<<>>), Fail}
    BY <1>15 DEF ForRule, WordTokens, Reserved, End
  <2> QED
    BY <1>1, <1>2, <2>1, <2>2
<1>16. CASE symbol \in Arms
  <2>1. Rule(symbol, t, 0) = CaseRule(symbol, t) /\ Rule(symbol, t, d) = CaseRule(symbol, t)
    BY <1>16, RuleCases
  <2>2. symbol = "parse_case_arms"
    BY <1>2, <1>16, <2>1 DEF CaseRule, Arms, Expect
  <2>3. t \notin {"newline", "esac", "("}
    BY <1>2, <2>1, <2>2 DEF CaseRule
  <2>4. CaseRule(symbol, t) = Pass(<<"case_pattern", "pattern_end">>)
    BY <2>2, <2>3 DEF CaseRule
  <2> QED
    BY <1>2, <1>4, <2>1, <2>2, <2>3, <2>4 DEF Through
<1>17. CASE symbol \in {"skip_newlines", "leave"}
  <2>1. ASSUME NEW dd
        PROVE  /\ Rule("skip_newlines", t, dd)
                    = IF t = "newline" THEN Take(<<"skip_newlines">>) ELSE Pass(<<>>)
               /\ Rule("leave", t, dd) = Pass(<<>>)
    BY RuleCases
  <2>2. Rule("leave", t, 0) = Pass(<<>>)
    BY <2>1
  <2>3. Rule("skip_newlines", t, 0) = Pass(<<>>) \/ Rule("skip_newlines", t, d) = Take(<<"skip_newlines">>)
    BY <2>1
  <2> QED
    BY <1>1, <1>2, <1>17, <2>2, <2>3
<1>18. CASE symbol = "separator"
  <2>1. Rule(symbol, t, 0) = SeparatorRule(t) /\ Rule(symbol, t, d) = SeparatorRule(t)
    BY <1>18, RuleCases
  <2>2. SeparatorRule(t) \in {Take(<<>>), Pass(<<>>), Fail}
    BY DEF SeparatorRule, ListEnd, End
  <2> QED
    BY <1>1, <1>2, <2>1, <2>2
<1>19. CASE symbol \in {"in", "then", "do", "done", "}", ")"}
  <2>1. Rule(symbol, t, d) = Expect(symbol, t)
    BY <1>19, RuleCases
  <2> QED
    BY <1>2, <2>1 DEF Expect
<1> QED
  BY <1>6, <1>7, <1>8, <1>9, <1>10, <1>11, <1>12, <1>13, <1>14, <1>15, <1>16, <1>17, <1>18, <1>19
  DEF Symbols

(* A call that looks at t through another one does so too.                 *)
LEMMA CallsThrough ==
  ASSUME NEW stack, Shape(stack), NEW t, ~Returns(stack[1], t)
  PROVE  LET next == Called(stack, t) IN
         /\ Shape(next) /\ ~Returns(next[1], t)
         /\ \A d : Rule(stack[1], t, d).does = "pass" => Through(stack[1], next[1])
         /\ Rule(stack[1], t, 0).does # "pass" => next = stack
         /\ next[1] # stack[1] => /\ Through(stack[1], next[1])
                                  /\ stack[1] = "parse_case_arms" => t \notin {"newline", "esac", "("}
                                  /\ stack[1] = "first_word" => t = "("
<1> DEFINE rule == Rule(stack[1], t, 0)
           next == Called(stack, t)
<1>1. stack[1] \in Symbols /\ Head(stack) = stack[1]
  BY ShapeTop
<1>2. CASE rule.does = "pass"
  <2>1. next = Pushed(rule.symbols, stack)
    BY <1>1, <1>2 DEF Called, CalledBy, Pushed
  <2>2. rule.symbols # <<>> /\ Through(stack[1], rule.symbols[1])
        /\ (stack[1] = "parse_case_arms" => t \notin {"newline", "esac", "("})
        /\ (stack[1] = "first_word" => t = "(")
    BY <1>1, <1>2, WhoCalls
  <2>3. Replaces(rule.symbols, stack[1])
    BY <1>1, <1>2, <2>2, RuleReplaces
  <2>4. Shape(next) /\ next[1] = rule.symbols[1]
    <3> HIDE DEF rule, next
    <3> QED
      BY <2>1, <2>3, ShapePush
  <2>5. ~Returns(next[1], t)
    <3>1. next[1] \in {"parse_and_or", "parse_pipeline", "parse_command", "parse_function", "case_pattern"}
      BY <2>2, <2>4 DEF Through
    <3>2. ~Leaves(next[1], t) /\ next[1] \in Symbols
      BY <3>1 DEF Leaves, Simple, Symbols
    <3> QED
      BY <3>2, WhoReturns
  <2> QED
    BY <1>2, <2>2, <2>4, <2>5
<1>3. CASE rule.does # "pass"
  <2>1. next = stack
    BY <1>1, <1>3 DEF Called, CalledBy
  <2>2. \A d : Rule(stack[1], t, d).does # "pass"
    BY <1>1, <1>3, WhoCalls
  <2> QED
    BY <1>3, <2>1, <2>2
<1> QED
  BY <1>2, <1>3

-----------------------------------------------------------------------------
(* The stack when the symbol that takes or refuses a token is on top.      *)

\* What holds of the calls in progress goes on to hold when they return on t or look at it through
\* others.
Lasting(K, t) ==
  /\ \A stack \in K : Shape(stack) /\ Leaves(stack[1], t) /\ t # End => Tail(stack) \in K
  /\ \A stack \in K : Shape(stack) /\ ~Returns(stack[1], t) => Called(stack, t) \in K

\* The innermost call takes t or refuses it.
Settled(stack, t) ==
  /\ ~Returns(stack[1], t) /\ \A d : Rule(stack[1], t, d).does # "pass"
  /\ stack[1] = "parse_function" => t = "("

(* Three calls are enough.                                                 *)
LEMMA CallsSettle ==
  ASSUME NEW stack, Shape(stack), NEW t, ~Returns(stack[1], t), stack[1] # "parse_function"
  PROVE  LET next == Called(Called(Called(stack, t), t), t) IN
         /\ Shape(next) /\ Settled(next, t)
         /\ \A K : Lasting(K, t) /\ stack \in K => next \in K
<1> DEFINE one == Called(stack, t)
           two == Called(one, t)
           next == Called(two, t)
<1>1. /\ Shape(one) /\ ~Returns(one[1], t)
      /\ \A d : Rule(stack[1], t, d).does = "pass" => Through(stack[1], one[1])
      /\ Rule(stack[1], t, 0).does # "pass" => one = stack
      /\ one[1] # stack[1] => Through(stack[1], one[1]) /\ (stack[1] = "first_word" => t = "(")
  BY CallsThrough
<1>2. \A K : Lasting(K, t) /\ stack \in K => one \in K
  BY DEF Lasting
<1> HIDE DEF one
<1>3. /\ Shape(two) /\ ~Returns(two[1], t)
      /\ \A d : Rule(one[1], t, d).does = "pass" => Through(one[1], two[1])
      /\ Rule(one[1], t, 0).does # "pass" => two = one
      /\ two[1] # one[1] => Through(one[1], two[1]) /\ (one[1] = "first_word" => t = "(")
  BY <1>1, CallsThrough
<1>4. \A K : Lasting(K, t) /\ one \in K => two \in K
  BY <1>1 DEF Lasting
<1> HIDE DEF two
<1>5. /\ Shape(next) /\ ~Returns(next[1], t)
      /\ \A d : Rule(two[1], t, d).does = "pass" => Through(two[1], next[1])
      /\ Rule(two[1], t, 0).does # "pass" => next = two
      /\ next[1] # two[1] => Through(two[1], next[1]) /\ (two[1] = "first_word" => t = "(")
  BY <1>3, CallsThrough
<1>6. \A K : Lasting(K, t) /\ two \in K => next \in K
  BY <1>3 DEF Lasting
<1> HIDE DEF next
<1>7. \A K : Lasting(K, t) /\ stack \in K => next \in K
  BY <1>2, <1>4, <1>6
<1>8. ASSUME NEW d, Rule(next[1], t, d).does = "pass" PROVE FALSE
  <2>1. PICK more : Through(next[1], more) /\ Rule(next[1], t, 0).does = "pass"
    <3>1. next[1] \in Symbols
      BY <1>5, ShapeTop
    <3> QED
      BY <1>5, <1>8, <3>1, WhoCalls
  <2>2. Through(two[1], next[1])
    <3>1. Rule(two[1], t, 0).does = "pass"
      BY <1>5, <2>1
    <3> QED
      BY <1>5, <3>1
  <2>3. Through(one[1], two[1])
    <3>1. Rule(one[1], t, 0).does = "pass"
      <4>1. two[1] # next[1]
        BY <2>2 DEF Through
      <4> SUFFICES ASSUME Rule(one[1], t, 0).does # "pass" PROVE FALSE
        OBVIOUS
      <4>2. two = one
        BY <1>3
      <4>3. Rule(two[1], t, 0).does # "pass"
        BY <4>2
      <4> QED
        BY <1>5, <4>1, <4>3
    <3> QED
      BY <1>3, <3>1
  <2>4. Through(stack[1], one[1])
    <3>1. Rule(stack[1], t, 0).does = "pass"
      <4>1. one[1] # two[1]
        BY <2>3 DEF Through
      <4> SUFFICES ASSUME Rule(stack[1], t, 0).does # "pass" PROVE FALSE
        OBVIOUS
      <4>2. one = stack
        BY <1>1
      <4>3. Rule(one[1], t, 0).does # "pass"
        BY <4>2
      <4> QED
        BY <1>3, <4>1, <4>3
    <3> QED
      BY <1>1, <3>1
  <2> QED
    BY <2>1, <2>2, <2>3, <2>4 DEF Through
<1>9. next[1] = "parse_function" => t = "("
  <2> SUFFICES ASSUME next[1] = "parse_function" PROVE t = "("
    OBVIOUS
  <2>1. CASE next[1] # two[1]
    BY <1>5, <2>1 DEF Through
  <2>2. CASE next[1] = two[1] /\ two[1] # one[1]
    BY <1>3, <2>2 DEF Through
  <2>3. CASE next[1] = two[1] /\ two[1] = one[1] /\ one[1] # stack[1]
    BY <1>1, <2>3 DEF Through
  <2> QED
    BY <2>1, <2>2, <2>3
<1>10. Settled(next, t)
  BY <1>5, <1>8, <1>9 DEF Settled
<1> QED
  BY <1>5, <1>7, <1>10 DEF one, two, next

LEMMA NoneBefore ==
  ASSUME NEW D, NEW seq \in Seq(D)
  PROVE  <<>> \o seq = seq
OBVIOUS

LEMMA LeastIsMin ==
  ASSUME NEW set, set \subseteq Nat, set # {}
  PROVE  Min(set) \in set /\ \A n \in set : Min(set) <= n
<1>1. \E n \in set : \A m \in set : n <= m
  BY Shifting!LeastNumber
<1> QED
  BY <1>1 DEF Min

(* The calls beneath the first i.                                          *)
LEMMA RestOf ==
  ASSUME NEW stack, Shape(stack), NEW i \in 0 .. Len(stack) - 1
  PROVE  LET rest == SubSeq(stack, i + 1, Len(stack)) IN
         /\ rest[1] = stack[i + 1] /\ Len(rest) = Len(stack) - i
         /\ i + 1 < Len(stack) => Tail(rest) = SubSeq(stack, i + 2, Len(stack))
         /\ i = 0 => rest = stack
<1>1. stack \in Seq(Symbols) /\ Len(stack) \in Nat /\ Len(stack) > 0
  BY ShapeTop DEF Shape
<1> DEFINE rest == SubSeq(stack, i + 1, Len(stack))
<1>2. /\ rest \in Seq(Symbols) /\ Len(rest) = Len(stack) - i
      /\ \A n \in 1 .. Len(stack) - i : rest[n] = stack[i + n]
  <2>1. i + 1 \in 1 .. Len(stack) + 1 /\ Len(stack) \in (i + 1) - 1 .. Len(stack)
    BY <1>1
  <2> QED
    BY <1>1, <2>1, SubSeqProperties
<1> HIDE DEF rest
<1>3. rest[1] = stack[i + 1]
  BY <1>1, <1>2
<1>4. i = 0 => rest = stack
  <2> SUFFICES ASSUME i = 0 PROVE rest = stack
    OBVIOUS
  <2> QED
    BY <1>1, <1>2, SeqEqual
<1>5. ASSUME i + 1 < Len(stack) PROVE Tail(rest) = SubSeq(stack, i + 2, Len(stack))
  <2>1. i + 1 \in 1 .. Len(stack) /\ Len(stack) \in i + 1 .. Len(stack) /\ (i + 1) + 1 = i + 2
    BY <1>1, <1>5
  <2> QED
    BY <1>1, <2>1, HeadTailOfSubSeq DEF rest
<1> QED
  BY <1>2, <1>3, <1>4, <1>5 DEF rest

ParseType == [stack : Seq(Symbols), failed : BOOLEAN, at_linebreak : BOOLEAN]

Staying(p, t) == {n \in DOMAIN p.stack : ~Returns(p.stack[n], t)}

(* Where the first call is that does not return.                           *)
LEMMA StaysIs ==
  ASSUME NEW p \in ParseType, NEW t
  PROVE  /\ Staying(p, t) \subseteq 1 .. Len(p.stack)
         /\ Staying(p, t) = {} => Stays(p.stack, t) = Len(p.stack) + 1
         /\ Staying(p, t) # {} => Stays(p.stack, t) = Min(Staying(p, t))
<1> DEFINE staying == Staying(p, t)
           l == Len(p.stack)
           Here(n) == /\ n <= l => ~Returns(p.stack[n], t)
                      /\ \A m \in 1 .. n - 1 : Returns(p.stack[m], t)
           first == Stays(p.stack, t)
<1>1. l \in Nat /\ DOMAIN p.stack = 1 .. l
  BY DEF ParseType
<1>2. \A n : n \in staying <=> n \in 1 .. l /\ ~Returns(p.stack[n], t)
  BY <1>1 DEF Staying
<1>3. first = CHOOSE n \in 1 .. l + 1 : Here(n)
  BY DEF Stays
<1> HIDE DEF staying, l, first
<1>4. staying # {} => Min(staying) \in staying /\ \A n \in staying : Min(staying) <= n
  <2>1. staying \subseteq Nat
    BY <1>1, <1>2
  <2> QED
    BY <2>1, LeastIsMin
<1>5. \E n \in 1 .. l + 1 : Here(n)
  <2>1. CASE staying = {}
    <3>1. l + 1 \in 1 .. l + 1 /\ Here(l + 1)
      BY <1>1, <1>2, <2>1
    <3> QED
      BY <3>1
  <2>2. CASE staying # {}
    <3> DEFINE m == Min(staying)
    <3>1. m \in staying /\ \A n \in staying : m <= n
      BY <1>4, <2>2
    <3> HIDE DEF m
    <3>2. m \in 1 .. l /\ m \in 1 .. l + 1 /\ ~Returns(p.stack[m], t)
      BY <1>1, <1>2, <3>1
    <3>3. \A n \in 1 .. m - 1 : n \in 1 .. l /\ n \notin staying
      BY <1>1, <3>1, <3>2
    <3>4. \A n \in 1 .. m - 1 : Returns(p.stack[n], t)
      BY <1>2, <3>3
    <3>5. Here(m)
      BY <3>2, <3>4
    <3> QED
      BY <3>2, <3>5
  <2> QED
    BY <2>1, <2>2
<1>6. first \in 1 .. l + 1 /\ Here(first)
  BY <1>3, <1>5
<1>7. staying = {} => first = l + 1
  <2>1. first <= l => first \in 1 .. l
    BY <1>1, <1>6
  <2>2. first <= l => first \in staying
    BY <1>2, <1>6, <2>1
  <2> QED
    BY <1>1, <1>6, <2>2
<1>8. ASSUME staying # {} PROVE first = Min(staying)
  <2> DEFINE m == Min(staying)
  <2>1. m \in staying /\ \A n \in staying : m <= n
    BY <1>4, <1>8
  <2> HIDE DEF m
  <2>2. m \in 1 .. l /\ ~Returns(p.stack[m], t)
    BY <1>2, <2>1
  <2>3. m \notin 1 .. first - 1
    BY <1>6, <2>2
  <2>4. first <= m
    BY <1>1, <1>6, <2>2, <2>3
  <2>5. first \in 1 .. l /\ ~Returns(p.stack[first], t)
    BY <1>1, <1>6, <2>2, <2>4
  <2>6. m <= first
    BY <1>2, <2>1, <2>5
  <2> QED
    BY <1>1, <1>6, <2>2, <2>4, <2>6 DEF m
<1>9. staying \subseteq 1 .. l
  BY <1>2
<1> QED
  BY <1>7, <1>8, <1>9 DEF staying, first, l

(* Reached, part by part.                                                  *)
LEMMA ReachedIs ==
  ASSUME NEW p \in ParseType, NEW t
  PROVE  LET q == Reached(p, t)
             left == SubSeq(p.stack, Min(Staying(p, t)), Len(p.stack))
             looking == IF Staying(p, t) = {} THEN p.stack
                        ELSE SubSeq(p.stack, 1, Min(Staying(p, t)))
         IN /\ q.failed = p.failed
            /\ q.at_linebreak = (p.at_linebreak \/ \E n \in DOMAIN looking : looking[n] \in SkipsNewlines)
            /\ Staying(p, t) = {} => q.stack = <<>>
            /\ Staying(p, t) # {} /\ left # <<>> => q.stack = Called(Called(Called(left, t), t), t)
            /\ q = [stack |-> q.stack, failed |-> q.failed, at_linebreak |-> q.at_linebreak]
<1> DEFINE staying == Staying(p, t)
           looking == IF staying = {} THEN p.stack ELSE SubSeq(p.stack, 1, Min(staying))
           left == IF staying = {} THEN <<>> ELSE SubSeq(p.stack, Min(staying), Len(p.stack))
           stack == IF left = <<>> THEN left ELSE Called(Called(Called(left, t), t), t)
           linebreak == p.at_linebreak \/ \E n \in DOMAIN looking : looking[n] \in SkipsNewlines
<1>1. Reached(p, t) = [p EXCEPT !.stack = stack, !.at_linebreak = linebreak]
  <2> DEFINE first == Stays(p.stack, t)
             l == Len(p.stack)
             from == SubSeq(p.stack, first, l)
             one == Called(from, t)
             seen == \E n \in 1 .. first : n <= l /\ p.stack[n] \in SkipsNewlines
  <2>1. Reached(p, t) = [p EXCEPT !.stack = IF from = <<>> \/ one = from THEN from
                                            ELSE Called(Called(one, t), t),
                                  !.at_linebreak = @ \/ seen]
    BY DEF Reached, ReachedFrom
  <2>2. l \in Nat /\ p.stack \in Seq(Symbols) /\ DOMAIN p.stack = 1 .. l
    BY DEF ParseType
  <2>3. /\ staying \subseteq 1 .. l
        /\ staying = {} => first = l + 1
        /\ staying # {} => first = Min(staying)
    BY StaysIs
  <2>4. staying # {} => first \in 1 .. l
    <3>1. staying # {} => Min(staying) \in staying
      BY <2>2, <2>3, LeastIsMin
    <3> QED
      BY <2>3, <3>1
  <2>5. from = left
    <3>1. CASE staying = {}
      <4> HIDE DEF first, l, staying
      <4>1. SubSeq(p.stack, l + 1, l) = <<>>
        BY <2>2
      <4> QED
        BY <2>3, <3>1, <4>1
    <3>2. CASE staying # {}
      BY <2>3, <3>2
    <3> QED
      BY <3>1, <3>2
  <2>6. seen <=> \E n \in DOMAIN looking : looking[n] \in SkipsNewlines
    <3>1. CASE staying = {}
      <4> HIDE DEF first, l, staying
      <4> QED
        BY <2>2, <2>3, <3>1
    <3>2. CASE staying # {}
      <4>1. looking = SubSeq(p.stack, 1, first) /\ first \in 1 .. l
        BY <2>3, <2>4, <3>2
      <4> HIDE DEF first, l, staying, looking
      <4>2. DOMAIN looking = 1 .. first /\ \A n \in 1 .. first : n <= l /\ looking[n] = p.stack[n]
        BY <2>2, <4>1
      <4> QED
        BY <4>2
    <3> QED
      BY <3>1, <3>2
  <2>7. stack = IF from = <<>> \/ one = from THEN from ELSE Called(Called(one, t), t)
    <3> HIDE DEF from, left
    <3> QED
      BY <2>5
  <2> HIDE DEF seen, from, one, looking, stack
  <2>8. (p.at_linebreak \/ seen) = linebreak
    <3>1. p.at_linebreak \in BOOLEAN
      BY DEF ParseType
    <3> QED
      BY <2>6, <3>1 DEF linebreak, seen
  <2> HIDE DEF linebreak
  <2> QED
    BY <2>1, <2>7, <2>8
<1>2. p = [stack |-> p.stack, failed |-> p.failed, at_linebreak |-> p.at_linebreak]
  BY DEF ParseType
<1>3. staying = {} => stack = <<>>
  OBVIOUS
<1>4. staying # {} /\ SubSeq(p.stack, Min(staying), Len(p.stack)) # <<>>
        => stack = Called(Called(Called(SubSeq(p.stack, Min(staying), Len(p.stack)), t), t), t)
  OBVIOUS
<1> HIDE DEF stack, linebreak
<1>5. Reached(p, t) = [stack |-> stack, failed |-> p.failed, at_linebreak |-> linebreak]
  BY <1>1, <1>2
<1>6. linebreak = (p.at_linebreak \/ \E n \in DOMAIN looking : looking[n] \in SkipsNewlines)
  BY DEF linebreak
<1>7. Reached(p, t).failed = p.failed /\ Reached(p, t).stack = stack
      /\ Reached(p, t).at_linebreak = linebreak
  BY <1>5
<1>8. Reached(p, t) = [stack |-> Reached(p, t).stack, failed |-> Reached(p, t).failed,
                       at_linebreak |-> Reached(p, t).at_linebreak]
  BY <1>5, <1>7
<1> HIDE DEF staying
<1> QED
  BY <1>3, <1>4, <1>6, <1>7, <1>8 DEF staying

(* The calls on top return on t, and the one that stays may look at it     *)
(* through others.                                                         *)
LEMMA ReachedHolds ==
  ASSUME NEW p \in ParseType, Shape(p.stack), p.stack[1] # "parse_function",
         NEW t, t # End
  PROVE  LET stack == Reached(p, t).stack IN
         /\ Shape(stack) /\ Settled(stack, t)
         /\ \A K : Lasting(K, t) /\ p.stack \in K => stack \in K
<1> DEFINE stack == p.stack
           staying == Staying(p, t)
           l == Len(stack)
           rest(i) == SubSeq(stack, i + 1, l)
           m == Min(staying)
           kept == {i \in 0 .. l : /\ Shape(rest(i))
                                   /\ \A K : Lasting(K, t) /\ stack \in K => rest(i) \in K}
<1>1. l \in Nat /\ l > 0 /\ DOMAIN stack = 1 .. l /\ stack \in Seq(Symbols) /\ stack[l] = "top_level"
  BY ShapeTop DEF Shape
<1>2. l \in staying
  <2>1. ~Leaves("top_level", t) /\ "top_level" \in Symbols
    BY DEF Leaves, Simple, Symbols
  <2>2. ~Returns(stack[l], t)
    BY <1>1, <2>1, WhoReturns
  <2> QED
    BY <1>1, <2>2 DEF Staying
<1>3. m \in staying /\ \A n \in staying : m <= n
  <2>1. staying \subseteq Nat
    BY <1>1 DEF Staying
  <2> HIDE DEF staying
  <2> QED
    BY <1>2, <2>1, LeastIsMin
<1>4. m \in 1 .. l /\ ~Returns(stack[m], t) /\ \A n \in 1 .. m - 1 : Returns(stack[n], t)
  <2>1. m \in 1 .. l /\ ~Returns(stack[m], t)
    BY <1>1, <1>3 DEF Staying
  <2>2. ASSUME NEW n \in 1 .. m - 1 PROVE Returns(stack[n], t)
    <3>1. n \in DOMAIN stack /\ ~(m <= n)
      BY <1>1, <2>1
    <3> QED
      BY <1>3, <3>1 DEF Staying
  <2> QED
    BY <2>1, <2>2
<1> HIDE DEF staying, m, l
<1>5. \A i \in 0 .. l - 1 : /\ rest(i)[1] = stack[i + 1]
                            /\ i + 1 < l => Tail(rest(i)) = rest(i + 1)
                            /\ i = 0 => rest(i) = stack
  <2> SUFFICES ASSUME NEW i \in 0 .. l - 1
               PROVE  /\ rest(i)[1] = stack[i + 1]
                      /\ i + 1 < l => Tail(rest(i)) = rest(i + 1)
                      /\ i = 0 => rest(i) = stack
    OBVIOUS
  <2>1. i + 2 = (i + 1) + 1
    BY <1>1
  <2> QED
    BY <1>1, <2>1, RestOf DEF l
<1> HIDE DEF rest
<1>6. 0 \in kept
  BY <1>1, <1>5
<1>7. ASSUME NEW i \in 1 .. m - 1, i - 1 \in kept PROVE i \in kept
  <2> DEFINE before == rest(i - 1)
  <2>1. i - 1 \in 0 .. l - 1 /\ (i - 1) + 1 = i /\ i < l /\ i \in 0 .. l /\ i \in 1 .. l
    BY <1>1, <1>4
  <2>2. before[1] = stack[i] /\ Tail(before) = rest(i)
    BY <1>5, <2>1
  <2>3. Shape(before) /\ \A K : Lasting(K, t) /\ stack \in K => before \in K
    BY <1>7
  <2>4. Leaves(before[1], t)
    BY <1>1, <1>4, <2>1, <2>2, WhoReturns
  <2>5. before[1] # "top_level"
    BY <2>4 DEF Leaves, Simple
  <2> HIDE DEF before
  <2>6. Shape(Tail(before))
    BY <2>3, <2>5, ShapeTail
  <2>7. \A K : Lasting(K, t) /\ before \in K => Tail(before) \in K
    BY <2>3, <2>4 DEF Lasting
  <2> QED
    BY <2>1, <2>2, <2>3, <2>6, <2>7
<1>8. m - 1 \in kept
  <2>1. m - 1 \in Nat /\ m - 1 \in 0 .. m - 1
    BY <1>1, <1>4
  <2> HIDE DEF kept
  <2> QED
    BY <1>6, <1>7, <2>1, Shifting!UpTo
<1> DEFINE left == rest(m - 1)
<1>9. Shape(left) /\ \A K : Lasting(K, t) /\ stack \in K => left \in K
  BY <1>8
<1>10. left[1] = stack[m] /\ m - 1 \in 0 .. l - 1
  BY <1>1, <1>4, <1>5
<1>11. left[1] # "parse_function"
  <2>1. CASE m = 1
    BY <1>10, <2>1
  <2>2. CASE m # 1
    <3>1. m - 1 \in 1 .. l - 1 /\ (m - 1) + 1 = m
      BY <1>1, <1>4, <2>2
    <3>2. stack[m] \in Below(stack[m - 1])
      BY <3>1 DEF Shape, l
    <3>3. \A symbol : "parse_function" \notin Below(symbol)
      BY DEF Below, Simple, Arms, Redirecting
    <3> QED
      BY <1>10, <3>2, <3>3
  <2> QED
    BY <2>1, <2>2
<1>12. Reached(p, t).stack = Called(Called(Called(left, t), t), t)
  <2>1. left = SubSeq(stack, m, l)
    <3>1. (m - 1) + 1 = m
      BY <1>4
    <3> QED
      BY <3>1 DEF rest
  <2>2. left # <<>>
    BY <1>9 DEF Shape
  <2> HIDE DEF left
  <2> QED
    BY <1>2, <2>1, <2>2, ReachedIs DEF staying, m, l
<1> HIDE DEF left
<1>13. Shape(Reached(p, t).stack) /\ Settled(Reached(p, t).stack, t)
       /\ \A K : Lasting(K, t) /\ left \in K => Reached(p, t).stack \in K
  BY <1>4, <1>9, <1>10, <1>11, <1>12, CallsSettle
<1> QED
  BY <1>9, <1>13

-----------------------------------------------------------------------------
(* What every rule does.                                                   *)

(* What a command starts with.                                             *)
Bodies == {"if", "while", "{"}

LEMMA CompoundFirst ==
  ASSUME NEW t
  PROVE  /\ t \in Bodies \union {"("} => Compound(t)[1] = "parse_body" /\ Compound(t) # <<>>
         /\ t = "for" => Compound(t)[1] = "for_name" /\ Compound(t) # <<>>
         /\ t = "case" => Compound(t)[1] = "case_word" /\ Compound(t) # <<>>
<1>1. t = "if" => Compound(t)[1] = "parse_body" /\ Compound(t) # <<>>
  BY DEF Compound
<1>2. t = "while" => Compound(t)[1] = "parse_body" /\ Compound(t) # <<>>
  BY DEF Compound
<1>3. t = "{" => Compound(t)[1] = "parse_body" /\ Compound(t) # <<>>
  BY CompoundChain DEF Compound, Chain
<1>4. t = "(" => Compound(t)[1] = "parse_body" /\ Compound(t) # <<>>
  BY DEF Compound
<1>5. t = "for" => Compound(t)[1] = "for_name" /\ Compound(t) # <<>>
  BY DEF Compound
<1>6. t = "case" => Compound(t)[1] = "case_word" /\ Compound(t) # <<>>
  BY DEF Compound
<1> QED
  BY <1>1, <1>2, <1>3, <1>4, <1>5, <1>6 DEF Bodies

LEMMA CommandTakes ==
  ASSUME NEW t \in Tokens, NEW d, CommandRule(t, d).does = "take"
  PROVE  LET symbols == CommandRule(t, d).symbols IN
         /\ t \in Bodies \union {"for", "case", "("} => symbols = Compound(t)
         /\ t = "x" => symbols = <<"first_word">>
         /\ t = "-" => symbols = <<"parse_simple">>
         /\ t = "X=1" => symbols = <<"prefix">>
         /\ t \in Redirections =>
              symbols = <<IF t = "<<" THEN "parse_here_doc" ELSE "parse_redirect", "prefix">>
         /\ t \in Bodies \union {"for", "case", "(", "x", "-", "X=1"} \union Redirections
<1>1. CASE t \in {"if", "while", "for", "case", "{", "("}
  <2>1. CommandRule(t, d) \in {Take(Compound(t)), Fail}
    BY <1>1 DEF CommandRule, WordTokens, Redirections, Reserved
  <2>2. CommandRule(t, d).symbols = Compound(t)
    BY <2>1, Kinds
  <2>3. t \notin {"x", "-", "X=1"} \union Redirections /\ t \in Bodies \union {"for", "case", "("}
    BY <1>1 DEF Redirections, Bodies
  <2> QED
    BY <2>2, <2>3
<1>2. CASE t \in {"x", "-", "X=1"}
  <2> DEFINE word == CASE t = "x"   -> "first_word"
                       [] t = "-"   -> "parse_simple"
                       [] t = "X=1" -> "prefix"
  <2>1. CommandRule(t, d) = Take(<<word>>)
    BY <1>2 DEF CommandRule, WordTokens, Redirections, Reserved
  <2>2. /\ t = "x" => word = "first_word"
        /\ t = "-" => word = "parse_simple"
        /\ t = "X=1" => word = "prefix"
    OBVIOUS
  <2>3. t \notin Redirections \union {"for", "case", "("} /\ t \notin Bodies
    BY <1>2 DEF Redirections, Bodies
  <2> HIDE DEF word
  <2> QED
    BY <1>2, <2>1, <2>2, <2>3, Kinds
<1>3. CASE t \in Redirections
  <2> DEFINE redirect == IF t = "<<" THEN "parse_here_doc" ELSE "parse_redirect"
  <2>1. CommandRule(t, d) = SimpleRule("prefix", t)
    BY <1>3 DEF CommandRule, WordTokens, Redirections, Reserved
  <2>2. SimpleRule("prefix", t) = Take(<<redirect, "prefix">>)
    BY <1>3, RedirectReplaces DEF Simple
  <2>3. CommandRule(t, d).symbols = <<redirect, "prefix">>
    BY <2>1, <2>2, Kinds
  <2>4. t \notin {"for", "case", "(", "x", "-", "X=1"} /\ t \notin Bodies
    BY <1>3 DEF Redirections, Bodies
  <2> QED
    BY <1>3, <2>3, <2>4
<1>4. CASE t \notin {"if", "while", "for", "case", "{", "(", "x", "-", "X=1"} \union Redirections
  <2>1. CommandRule(t, d) = Fail
    BY <1>4 DEF CommandRule, WordTokens
  <2> QED
    BY <2>1, Kinds
<1> QED
  BY <1>1, <1>2, <1>3, <1>4

LEMMA TokenParts ==
  /\ Bodies \subseteq Reserved \ {"for", "case", "esac"} /\ {"for", "case"} \subseteq Reserved
  /\ "(" \notin WordTokens /\ "(" \notin Bodies
  /\ {"x", "-", "X=1"} \subseteq WordTokens
  /\ Redirections \cap WordTokens = {} /\ ")" \notin WordTokens
  /\ "(" \notin Redirections /\ "for" \notin Bodies /\ "case" \notin Bodies
BY DEF Bodies, Reserved, WordTokens, Redirections

(* What every rule does: a function is never what goes on, and a line      *)
(* ending is taken where line endings are allowed or behind the words of a *)
(* `for'.                                                                  *)
Regular(rule, symbol, t) ==
  /\ rule.does \in {"take", "pass", "fail"}
  /\ rule.does = "take" =>
       /\ rule.symbols # <<>> => rule.symbols[1] # "parse_function"
       /\ symbol = "top_level" => rule.symbols # <<>>
       /\ t = "newline" => \/ symbol \in SkipsNewlines /\ rule.symbols = <<symbol>>
                           \/ symbol = "for_words" /\ rule.symbols = <<>>

LEMMA RegularKinds ==
  ASSUME NEW symbol, NEW t
  PROVE  /\ \A symbols : Regular(Pass(symbols), symbol, t)
         /\ Regular(Fail, symbol, t)
         /\ t # "newline" /\ symbol # "top_level" =>
              /\ Regular(Take(<<>>), symbol, t)
              /\ \A a : a # "parse_function" => Regular(Take(<<a>>), symbol, t)
              /\ \A a, b : a # "parse_function" => Regular(Take(<<a, b>>), symbol, t)
              /\ \A symbols : symbols[1] # "parse_function" => Regular(Take(symbols), symbol, t)
<1>1. \A symbols : Regular(Pass(symbols), symbol, t)
  BY Kinds DEF Regular
<1>2. Regular(Fail, symbol, t)
  BY Kinds DEF Regular
<1>3. t # "newline" /\ symbol # "top_level" => Regular(Take(<<>>), symbol, t)
  BY Kinds DEF Regular
<1>4. t # "newline" /\ symbol # "top_level" =>
        \A symbols : symbols[1] # "parse_function" => Regular(Take(symbols), symbol, t)
  BY Kinds DEF Regular
<1>5. \A a, b : <<a>>[1] = a /\ <<a, b>>[1] = a
  OBVIOUS
<1> QED
  BY <1>1, <1>2, <1>3, <1>4, <1>5

(* Every rule is regular.                                                  *)
LEMMA RuleRegular ==
  ASSUME NEW symbol \in Symbols, NEW t \in Tokens, NEW d, symbol = "parse_function" => t = "("
  PROVE  Regular(Rule(symbol, t, d), symbol, t)
<1> DEFINE rule == Rule(symbol, t, d)
<1>1. CASE symbol \in {"parse_list", "parse_body", "top_level"}
  <2>1. rule = ListRule(symbol, t)
    BY <1>1, RuleCases
  <2>2. t = "newline" => ListRule(symbol, t) = Take(<<symbol>>)
    BY DEF ListRule, ListEnd, End
  <2>3. t # "newline" => ListRule(symbol, t) = Fail \/ \E symbols : ListRule(symbol, t) = Pass(symbols)
    BY DEF ListRule
  <2>4. <<symbol>> # <<>> /\ <<symbol>>[1] = symbol /\ symbol # "parse_function" /\ symbol \in SkipsNewlines
    BY <1>1 DEF SkipsNewlines
  <2>5. Regular(Take(<<symbol>>), symbol, "newline")
    BY <2>4, Kinds DEF Regular
  <2> QED
    BY <2>1, <2>2, <2>3, <2>5, RegularKinds
<1>2. CASE symbol = "separator"
  <2>1. Rule("separator", t, d) = SeparatorRule(t)
    BY RuleCases
  <2>2. \/ t \in {";", "&"} /\ SeparatorRule(t) = Take(<<>>)
        \/ SeparatorRule(t) \in {Pass(<<>>), Fail}
    BY DEF SeparatorRule, ListEnd, End
  <2>3. t \in {";", "&"} => t # "newline"
    OBVIOUS
  <2> QED
    BY <1>2, <2>1, <2>2, <2>3, RegularKinds
<1>3. CASE symbol \in {"parse_and_or", "and_or_rest", "parse_pipeline", "pipeline_rest"}
  <2> DEFINE a == <<"parse_pipeline", "and_or_rest">>
             b == <<"skip_newlines", "parse_pipeline", "and_or_rest">>
             c == <<"parse_command", "pipeline_rest">>
             e == <<"skip_newlines", "parse_command", "pipeline_rest">>
  <2>1. rule = PipelineRule(symbol, t)
    BY <1>3, RuleCases
  <2>2. \/ PipelineRule(symbol, t) \in {Pass(a), Pass(<<>>), Pass(c)}
        \/ PipelineRule(symbol, t) \in {Take(b), Take(c), Take(e)} /\ t # "newline"
    BY <1>3 DEF PipelineRule
  <2>3. b[1] # "parse_function" /\ c[1] # "parse_function" /\ e[1] # "parse_function" /\ symbol # "top_level"
    BY <1>3
  <2> HIDE DEF a, b, c, e, rule
  <2> QED
    BY <2>1, <2>2, <2>3, RegularKinds DEF rule
<1>4. CASE symbol = "parse_command"
  <2>1. Rule("parse_command", t, d) = CommandRule(t, d)
    BY RuleCases
  <2>2. CASE CommandRule(t, d).does = "take"
    <3>1. t # "newline"
      <4>1. t \in Bodies \union {"for", "case", "(", "x", "-", "X=1"} \union Redirections
        BY <2>2, CommandTakes
      <4> QED
        BY <4>1 DEF Bodies, Redirections
    <3>2. CommandRule(t, d).symbols[1] # "parse_function"
      <4> DEFINE symbols == CommandRule(t, d).symbols
                 redirect == IF t = "<<" THEN "parse_here_doc" ELSE "parse_redirect"
      <4>1. /\ t \in Bodies \union {"for", "case", "("} => symbols = Compound(t)
            /\ t = "x" => symbols = <<"first_word">>
            /\ t = "-" => symbols = <<"parse_simple">>
            /\ t = "X=1" => symbols = <<"prefix">>
            /\ t \in Redirections => symbols = <<redirect, "prefix">>
            /\ t \in Bodies \union {"for", "case", "(", "x", "-", "X=1"} \union Redirections
        BY <2>2, CommandTakes
      <4>2. t \in Bodies \union {"for", "case", "("} => Compound(t)[1] # "parse_function"
        BY CompoundFirst
      <4>3. <<redirect, "prefix">>[1] # "parse_function" /\ <<"first_word">>[1] # "parse_function"
            /\ <<"parse_simple">>[1] # "parse_function" /\ <<"prefix">>[1] # "parse_function"
        OBVIOUS
      <4> HIDE DEF symbols, redirect
      <4>4. symbols[1] # "parse_function"
        BY <4>1, <4>2, <4>3
      <4> QED
        BY <4>4 DEF symbols
    <3> QED
      BY <1>4, <2>1, <2>2, <3>1, <3>2 DEF Regular
  <2>3. CASE CommandRule(t, d).does # "take"
    <3>1. CommandRule(t, d) = Fail
      <4>1. CASE t \in {"if", "while", "for", "case", "{", "("}
        <5>1. CommandRule(t, d) \in {Take(Compound(t)), Fail}
          BY <4>1 DEF CommandRule, WordTokens, Redirections, Reserved
        <5> QED
          BY <2>3, <5>1, Kinds
      <4>2. CASE t \in {"x", "-", "X=1"}
        <5>1. \E symbols : CommandRule(t, d) = Take(symbols)
          BY <4>2 DEF CommandRule, WordTokens, Redirections, Reserved
        <5> QED
          BY <2>3, <5>1, Kinds
      <4>3. CASE t \in Redirections
        <5>1. CommandRule(t, d) = SimpleRule("prefix", t)
          BY <4>3 DEF CommandRule, WordTokens, Redirections, Reserved
        <5>2. \E symbols : SimpleRule("prefix", t) = Take(symbols)
          BY <4>3, RedirectReplaces DEF Simple
        <5> QED
          BY <2>3, <5>1, <5>2, Kinds
      <4>4. CASE t \notin {"if", "while", "for", "case", "{", "(", "x", "-", "X=1"} \union Redirections
        BY <4>4 DEF CommandRule, WordTokens
      <4> QED
        BY <4>1, <4>2, <4>3, <4>4
    <3> QED
      BY <1>4, <2>1, <3>1, RegularKinds
  <2> QED
    BY <2>2, <2>3
<1>5. CASE symbol \in Simple
  <2> DEFINE redirect == IF t = "<<" THEN "parse_here_doc" ELSE "parse_redirect"
             behind == IF symbol = "first_word" THEN "parse_simple" ELSE symbol
             word == IF symbol = "prefix" /\ t = "X=1" THEN "prefix" ELSE "parse_simple"
  <2>1. rule = SimpleRule(symbol, t) /\ symbol # "top_level"
    BY <1>5, RuleCases DEF Simple
  <2>2. t \in Redirections => SimpleRule(symbol, t) = Take(<<redirect, behind>>)
    BY <1>5, RedirectReplaces
  <2>3. t \in WordTokens => SimpleRule(symbol, t) = Take(<<word>>)
    <3>1. t \in WordTokens => t \notin Redirections /\ t # "("
      BY TokenParts
    <3> QED
      BY <3>1 DEF SimpleRule
  <2>4. t \notin WordTokens \union Redirections
          => SimpleRule(symbol, t) \in {Pass(<<"parse_function">>), Pass(<<>>)}
    BY DEF SimpleRule
  <2>5. redirect # "parse_function" /\ word # "parse_function"
        /\ (t \in WordTokens \union Redirections => t # "newline")
    BY DEF WordTokens, Reserved, Redirections
  <2> HIDE DEF rule, redirect, behind, word
  <2> QED
    BY <2>1, <2>2, <2>3, <2>4, <2>5, RegularKinds DEF rule
<1>6. CASE symbol = "parse_function"
  <2> DEFINE symbols == <<")", "skip_newlines", "parse_command", "leave">>
  <2>1. Rule("parse_function", t, d) = FunctionRule(d)
    BY RuleCases
  <2>2. FunctionRule(d) \in {Take(symbols), Fail} /\ symbols[1] # "parse_function"
    BY DEF FunctionRule
  <2>3. t # "newline" /\ symbol # "top_level"
    BY <1>6
  <2> HIDE DEF symbols
  <2> QED
    BY <1>6, <2>1, <2>2, <2>3, RegularKinds
<1>7. CASE symbol = "trailing_redirects"
  <2> DEFINE redirect == IF t = "<<" THEN "parse_here_doc" ELSE "parse_redirect"
  <2>1. Rule("trailing_redirects", t, d)
          = IF t \in Redirections THEN SimpleRule("trailing_redirects", t) ELSE Pass(<<>>)
    BY RuleCases
  <2>2. t \in Redirections => SimpleRule("trailing_redirects", t) = Take(<<redirect, "trailing_redirects">>)
    BY RedirectReplaces
  <2>3. redirect # "parse_function" /\ (t \in Redirections => t # "newline")
    BY DEF Redirections
  <2> HIDE DEF redirect
  <2> QED
    BY <1>7, <2>1, <2>2, <2>3, RegularKinds
<1>8. CASE symbol \in {"for_name", "case_word", "case_pattern"} \union Redirecting
  <2>1. rule = WordRule(symbol, t)
    BY <1>8, RuleCases
  <2>2. WordRule(symbol, t) = Fail \/ (t \in WordTokens /\ WordRule(symbol, t) = Take(<<>>))
    BY DEF WordRule
  <2>3. symbol # "top_level" /\ (t \in WordTokens => t # "newline")
    BY <1>8 DEF WordTokens, Reserved, Redirecting
  <2> QED
    BY <2>1, <2>2, <2>3, RegularKinds
<1>9. CASE symbol \in {"branches", "fi"}
  <2> DEFINE elif == <<"parse_body", "then", "parse_body", "branches">>
             else == <<"parse_body", "fi">>
  <2>1. rule = BranchRule(symbol, t)
    BY <1>9, RuleCases
  <2>2. BranchRule(symbol, t) = Fail
          \/ (t \in {"elif", "else", "fi"} /\ BranchRule(symbol, t) \in {Take(elif), Take(else), Take(<<>>)})
    BY DEF BranchRule, Expect
  <2>3. elif[1] # "parse_function" /\ else[1] # "parse_function" /\ symbol # "top_level"
        /\ (t \in {"elif", "else", "fi"} => t # "newline")
    BY <1>9
  <2> HIDE DEF rule, elif, else
  <2> QED
    BY <2>1, <2>2, <2>3, RegularKinds DEF rule
<1>10. CASE symbol = "for_in"
  <2>1. rule = ForRule(symbol, t)
    BY <1>10, RuleCases
  <2>2. \/ ForRule(symbol, t) = Pass(<<>>)
        \/ t \in {"in", ";"} /\ ForRule(symbol, t) \in {Take(<<"for_words">>), Take(<<>>)}
    BY <1>10 DEF ForRule
  <2>3. symbol # "top_level" /\ (t \in {"in", ";"} => t # "newline")
    BY <1>10
  <2> QED
    BY <2>1, <2>2, <2>3, RegularKinds
<1>11. CASE symbol = "for_words"
  <2>1. rule = ForRule(symbol, t)
    BY <1>11, RuleCases
  <2>2. \/ ForRule(symbol, t) \in {Pass(<<>>), Fail}
        \/ t \in WordTokens \union {";"} /\ ForRule(symbol, t) \in {Take(<<"for_words">>), Take(<<>>)}
        \/ t = "newline" /\ ForRule(symbol, t) = Take(<<>>)
    BY <1>11 DEF ForRule, WordTokens, Reserved, End
  <2>3. symbol # "top_level" /\ (t \in WordTokens \union {";"} => t # "newline")
    BY <1>11 DEF WordTokens, Reserved
  <2>4. Regular(Take(<<>>), "for_words", "newline")
    BY Kinds DEF Regular
  <2> QED
    BY <1>11, <2>1, <2>2, <2>3, <2>4, RegularKinds
<1>12. CASE symbol = "parse_case_arms"
  <2> DEFINE more == <<"case_pattern", "pattern_end">>
             again == <<"parse_case_arms">>
  <2>1. rule = CaseRule(symbol, t)
    BY <1>12, RuleCases DEF Arms
  <2>2. \/ CaseRule(symbol, t) = Pass(more)
        \/ t \in {"esac", "("} /\ CaseRule(symbol, t) \in {Take(more), Take(<<>>)}
        \/ t = "newline" /\ CaseRule(symbol, t) = Take(again)
    BY <1>12 DEF CaseRule
  <2>3. symbol # "top_level" /\ (t \in {"esac", "("} => t # "newline") /\ more[1] # "parse_function"
        /\ again[1] # "parse_function" /\ symbol \in SkipsNewlines /\ again = <<symbol>>
    BY <1>12 DEF SkipsNewlines
  <2>4. Regular(Take(again), symbol, "newline")
    <3> HIDE DEF again
    <3> QED
      BY <1>12, <2>3, Kinds DEF Regular
  <2> HIDE DEF rule, more, again
  <2> QED
    BY <2>1, <2>2, <2>3, <2>4, RegularKinds DEF rule
<1>13. CASE symbol \in {"pattern_end", "arm_end"}
  <2> DEFINE more == <<"case_pattern", "pattern_end">>
             arm == <<"parse_list", "arm_end">>
             next == <<"parse_case_arms">>
  <2>0. symbol \in Arms
    BY <1>13 DEF Arms
  <2>1. rule = CaseRule(symbol, t)
    BY <2>0, RuleCases
  <2>2. \/ CaseRule(symbol, t) = Fail
        \/ t # "newline" /\ CaseRule(symbol, t) \in {Take(more), Take(arm), Take(next), Take(<<>>)}
    BY <1>13 DEF CaseRule, Expect
  <2>3. symbol # "top_level" /\ more[1] # "parse_function" /\ arm[1] # "parse_function"
        /\ next[1] # "parse_function"
    BY <1>13
  <2> HIDE DEF rule, more, arm, next
  <2> QED
    BY <2>1, <2>2, <2>3, RegularKinds DEF rule
<1>14. CASE symbol \in {"skip_newlines", "leave"}
  <2>1. Rule("skip_newlines", t, d) = IF t = "newline" THEN Take(<<"skip_newlines">>) ELSE Pass(<<>>)
    BY RuleCases
  <2>2. Rule("leave", t, d) = Pass(<<>>)
    BY RuleCases
  <2>3. Regular(Take(<<"skip_newlines">>), "skip_newlines", "newline")
    <3>1. "skip_newlines" \in SkipsNewlines /\ <<"skip_newlines">>[1] # "parse_function"
      BY DEF SkipsNewlines
    <3> QED
      BY <3>1, Kinds DEF Regular
  <2> QED
    BY <1>14, <2>1, <2>2, <2>3, RegularKinds
<1>15. CASE symbol \in {"in", "then", "do", "done", "}", ")"}
  <2>1. rule = Expect(symbol, t)
    BY <1>15, RuleCases
  <2>2. Expect(symbol, t) = Fail \/ (t = symbol /\ Expect(symbol, t) = Take(<<>>))
    BY DEF Expect
  <2>3. symbol # "top_level" /\ symbol # "newline"
    BY <1>15
  <2> HIDE DEF rule
  <2>4. Regular(rule, symbol, t)
    <3> QED
      BY <2>1, <2>2, <2>3, RegularKinds
  <2> QED
    BY <2>4 DEF rule
<1> QED
  BY <1>1, <1>2, <1>3, <1>4, <1>5, <1>6, <1>7, <1>8, <1>9, <1>10, <1>11, <1>12, <1>13, <1>14, <1>15
  DEF Symbols, Arms

-----------------------------------------------------------------------------
(* The parse of a text.                                                    *)

(* A parse that has not failed: the calls in progress fit together, a      *)
(* function's parentheses are never next without the first of them having  *)
(* been seen, and a place where line endings are allowed is remembered     *)
(* only                                                                    *)
(* while the call that allows them is innermost.                           *)
Parsed(p) ==
  /\ p \in ParseType
  /\ ~p.failed => /\ Shape(p.stack) /\ p.stack[1] # "parse_function"
                  /\ p.at_linebreak => p.stack[1] \in SkipsNewlines

(* The parse of the empty text.                                            *)
LEMMA StartParsed == Parsed(Start)
<1>1. Start.stack = <<"top_level">> /\ Start.failed = FALSE /\ Start.at_linebreak = FALSE
  BY DEF Start
<1>2. "top_level" \in Symbols
  BY DEF Symbols
<1>3. <<"top_level">> \in Seq(Symbols) /\ Len(<<"top_level">>) = 1 /\ <<"top_level">>[1] = "top_level"
  BY <1>2
<1>4. <<"top_level">> # <<>>
  BY <1>3
<1>5. Shape(<<"top_level">>)
  BY <1>3, <1>4 DEF Shape
<1>6. Start \in ParseType
  BY <1>3 DEF Start, ParseType
<1> QED
  BY <1>1, <1>3, <1>5, <1>6 DEF Parsed

LEMMA TokenNotEnd == \A t \in Tokens : t # End
BY DEF Tokens, End, WordTokens, Reserved, Operators, Redirections

ParseOf(stack, failed, at_linebreak) ==
  [stack |-> stack, failed |-> failed, at_linebreak |-> at_linebreak]

(* What Shift comes to: the symbol reached takes the token, or refuses it. *)
LEMMA ShiftIs ==
  ASSUME NEW p, Parsed(p), ~p.failed, NEW t \in Tokens
  PROVE  LET q == Reached(p, t)
             rule == Rule(q.stack[1], t, Depth(q.stack))
             next == Shift(p, t)
         IN /\ Shape(q.stack) /\ Settled(q.stack, t) /\ Taker(p, t) = q.stack[1]
            /\ rule.does \in {"take", "fail"}
            /\ Regular(rule, q.stack[1], t)
            /\ rule.does = "take" =>
                 next = ParseOf(rule.symbols \o Tail(q.stack), FALSE,
                                t = "newline" /\ q.stack[1] \in SkipsNewlines)
            /\ rule.does = "fail" => next = ParseOf(q.stack, TRUE, q.at_linebreak)
<1> DEFINE q == Reached(p, t)
           rule == Rule(q.stack[1], t, Depth(q.stack))
           next == Shift(p, t)
<1>1. p \in ParseType /\ Shape(p.stack) /\ p.stack[1] # "parse_function" /\ t # End
  BY TokenNotEnd DEF Parsed
<1>2. Shape(q.stack) /\ Settled(q.stack, t)
  BY <1>1, ReachedHolds
<1>3. q.failed = FALSE
      /\ q = [stack |-> q.stack, failed |-> q.failed, at_linebreak |-> q.at_linebreak]
  BY <1>1, ReachedIs DEF ParseType
<1>4. Head(q.stack) = q.stack[1] /\ q.stack[1] \in Symbols
  BY <1>2, ShapeTop
<1>5. Regular(rule, q.stack[1], t)
  BY <1>2, <1>4, RuleRegular DEF Settled
<1>6. rule.does \in {"take", "fail"}
  BY <1>2, <1>5 DEF Settled, Regular
<1>7. rule.does = "take" => next = [q EXCEPT !.stack = rule.symbols \o Tail(@),
                                             !.at_linebreak = t = "newline" /\ q.stack[1] \in SkipsNewlines]
  BY <1>4 DEF Shift, Looked, Advanced
<1>8. rule.does = "fail" => next = [q EXCEPT !.failed = TRUE]
  BY <1>4 DEF Shift, Looked, Advanced
<1>9. Taker(p, t) = q.stack[1]
  BY <1>4 DEF Taker
<1> HIDE DEF q, rule, next
<1>10. rule.does = "take" => next = ParseOf(rule.symbols \o Tail(q.stack), FALSE,
                                            t = "newline" /\ q.stack[1] \in SkipsNewlines)
  BY <1>3, <1>7 DEF ParseOf
<1>11. rule.does = "fail" => next = ParseOf(q.stack, TRUE, q.at_linebreak)
  BY <1>3, <1>8 DEF ParseOf
<1> QED
  BY <1>2, <1>5, <1>6, <1>9, <1>10, <1>11 DEF q, rule, next

(* What is left of the calls when one takes a token.                       *)
LEMMA TakenShape ==
  ASSUME NEW stack, Shape(stack), NEW rule, NEW t \in Tokens, NEW d, rule = Rule(stack[1], t, d),
         Regular(rule, stack[1], t), rule.does = "take"
  PROVE  LET next == rule.symbols \o Tail(stack) IN
         /\ Shape(next) /\ next[1] # "parse_function"
         /\ rule.symbols # <<>> => next[1] = rule.symbols[1]
         /\ rule.symbols = <<>> => next = Tail(stack) /\ next[1] \in Below(stack[1])
<1>1. stack[1] \in Symbols /\ stack \in Seq(Symbols) /\ Tail(stack) \in Seq(Symbols)
  BY ShapeTop DEF Shape
<1>2. CASE rule.symbols = <<>>
  <2>1. rule.symbols \o Tail(stack) = Tail(stack)
    BY <1>1, <1>2, NoneBefore
  <2>2. stack[1] # "top_level"
    BY <1>2 DEF Regular
  <2>3. Shape(Tail(stack)) /\ Tail(stack)[1] \in Below(stack[1])
    BY <2>2, ShapeTail
  <2>4. \A symbol : "parse_function" \notin Below(symbol)
    BY DEF Below, Simple, Arms, Redirecting
  <2> QED
    BY <1>2, <2>1, <2>3, <2>4
<1>3. CASE rule.symbols # <<>>
  <2>1. Replaces(rule.symbols, stack[1])
    BY <1>1, <1>3, RuleReplaces
  <2>2. rule.symbols[1] # "parse_function"
    BY <1>3 DEF Regular
  <2>3. Shape(Pushed(rule.symbols, stack)) /\ Pushed(rule.symbols, stack)[1] = rule.symbols[1]
    BY <2>1, ShapePush
  <2> QED
    BY <1>3, <2>2, <2>3 DEF Pushed
<1> QED
  BY <1>2, <1>3

(* A token keeps all of this.                                              *)
LEMMA ShiftParsed ==
  ASSUME NEW p, Parsed(p), NEW t \in Tokens
  PROVE  Parsed(Shift(p, t))
<1>1. CASE p.failed
  BY <1>1 DEF Shift
<1>2. CASE ~p.failed
  <2> DEFINE q == Reached(p, t)
             rule == Rule(q.stack[1], t, Depth(q.stack))
             next == Shift(p, t)
             left == rule.symbols \o Tail(q.stack)
             linebreak == t = "newline" /\ q.stack[1] \in SkipsNewlines
  <2>1. /\ Shape(q.stack) /\ rule.does \in {"take", "fail"} /\ Regular(rule, q.stack[1], t)
        /\ rule.does = "take" =>
             next = ParseOf(left, FALSE, linebreak)
        /\ rule.does = "fail" =>
             next = ParseOf(q.stack, TRUE, q.at_linebreak)
    BY <1>2, ShiftIs
  <2>2. q.at_linebreak \in BOOLEAN
    BY ReachedIs DEF Parsed
  <2>3. rule.does = "take" =>
          /\ Shape(left) /\ left[1] # "parse_function"
          /\ rule.symbols # <<>> => left[1] = rule.symbols[1]
    BY <2>1, TakenShape
  <2>4. ASSUME rule.does = "take", t = "newline", q.stack[1] \in SkipsNewlines
        PROVE  rule.symbols # <<>> /\ rule.symbols[1] \in SkipsNewlines
    <3>1. rule.symbols = <<q.stack[1]>>
      BY <2>1, <2>4 DEF Regular, SkipsNewlines
    <3>2. \A a : <<a>> # <<>> /\ <<a>>[1] = a
      <4>1. Len(<<>>) = 0 /\ \A a : Len(<<a>>) = 1
        OBVIOUS
      <4> QED
        BY <4>1
    <3> QED
      BY <2>4, <3>1, <3>2
  <2>7. linebreak \in BOOLEAN /\ (linebreak <=> t = "newline" /\ q.stack[1] \in SkipsNewlines)
    OBVIOUS
  <2> HIDE DEF q, rule, next, left, linebreak
  <2>5. CASE rule.does = "take"
    <3>1. left \in Seq(Symbols)
      BY <2>3, <2>5 DEF Shape
    <3>4. next = ParseOf(left, FALSE, linebreak)
      BY <2>1, <2>5
    <3>5. /\ ParseOf(left, FALSE, linebreak).stack = left
          /\ ParseOf(left, FALSE, linebreak).failed = FALSE
          /\ ParseOf(left, FALSE, linebreak).at_linebreak = linebreak
          /\ ParseOf(left, FALSE, linebreak) \in ParseType
      BY <2>7, <3>1 DEF ParseOf, ParseType
    <3>2. next \in ParseType /\ next.stack = left /\ next.failed = FALSE /\ next.at_linebreak = linebreak
      BY <3>4, <3>5
    <3>3. linebreak => left[1] \in SkipsNewlines
      BY <2>3, <2>4, <2>5, <2>7
    <3> QED
      BY <2>3, <2>5, <3>2, <3>3 DEF Parsed, next
  <2>6. CASE rule.does = "fail"
    <3>1. q.stack \in Seq(Symbols)
      BY <2>1 DEF Shape
    <3>3. next = ParseOf(q.stack, TRUE, q.at_linebreak)
      BY <2>1, <2>6
    <3>4. /\ ParseOf(q.stack, TRUE, q.at_linebreak).failed = TRUE
          /\ ParseOf(q.stack, TRUE, q.at_linebreak) \in ParseType
      BY <2>2, <3>1 DEF ParseOf, ParseType
    <3>2. next \in ParseType /\ next.failed = TRUE
      BY <3>3, <3>4
    <3> QED
      BY <3>2 DEF Parsed, next
  <2> QED
    BY <2>1, <2>5, <2>6
<1> QED
  BY <1>1, <1>2

LEMMA NewlineIs == "newline" \in Tokens
BY DEF Tokens

-----------------------------------------------------------------------------
(* At the end of a line, and where the text ends.                          *)

(* Where line endings are allowed a text may go on: what `linebreak_at'    *)
(* comes to at the end of the text.                                        *)
LEMMA Linebreak ==
  ASSUME NEW p, Parsed(p), ~p.failed
  PROVE  LET q == Reached(p, End) IN
         /\ p.at_linebreak \/ p.stack[1] \in SkipsNewlines => q.at_linebreak
         /\ ~Returns(p.stack[1], End) /\ p.stack[1] \notin SkipsNewlines => ~q.at_linebreak
<1> DEFINE l == Len(p.stack)
           m == Min(Staying(p, End))
           looking == IF Staying(p, End) = {} THEN p.stack ELSE SubSeq(p.stack, 1, m)
           q == Reached(p, End)
<1>1. p \in ParseType /\ Shape(p.stack) /\ (p.at_linebreak => p.stack[1] \in SkipsNewlines)
  BY DEF Parsed
<1>2. q.at_linebreak = (p.at_linebreak \/ \E n \in DOMAIN looking : looking[n] \in SkipsNewlines)
  BY <1>1, ReachedIs
<1>3. l \in Nat /\ l > 0 /\ DOMAIN p.stack = 1 .. l /\ p.stack \in Seq(Symbols) /\ 1 \in 1 .. l
  BY <1>1, ShapeTop DEF Shape
<1>4. Staying(p, End) # {} => m \in 1 .. l /\ \A n \in Staying(p, End) : m <= n
  <2>1. Staying(p, End) \subseteq 1 .. l /\ Staying(p, End) \subseteq Nat
    BY <1>3 DEF Staying
  <2> QED
    BY <2>1, LeastIsMin
<1>5. 1 \in DOMAIN looking /\ looking[1] = p.stack[1]
  <2>1. CASE Staying(p, End) = {}
    BY <1>3, <2>1
  <2>2. CASE Staying(p, End) # {}
    <3> HIDE DEF m
    <3>1. m \in 1 .. l
      BY <1>4, <2>2
    <3>2. /\ SubSeq(p.stack, 1, m) \in Seq(Symbols) /\ Len(SubSeq(p.stack, 1, m)) = m
          /\ SubSeq(p.stack, 1, m)[1] = p.stack[1]
      BY <1>3, <3>1
    <3>3. DOMAIN SubSeq(p.stack, 1, m) = 1 .. m /\ 1 \in 1 .. m
      BY <1>3, <3>1, <3>2
    <3> QED
      BY <2>2, <3>2, <3>3
  <2> QED
    BY <2>1, <2>2
<1>6. ASSUME ~Returns(p.stack[1], End), p.stack[1] \notin SkipsNewlines PROVE ~q.at_linebreak
  <2>1. 1 \in Staying(p, End)
    BY <1>3, <1>6 DEF Staying
  <2> HIDE DEF m
  <2>2. m \in 1 .. l /\ m <= 1
    BY <1>4, <2>1
  <2>3. m = 1
    BY <1>3, <2>2
  <2>4. Len(SubSeq(p.stack, 1, 1)) = 1 /\ SubSeq(p.stack, 1, 1) \in Seq(Symbols)
    BY <1>3
  <2>5. DOMAIN looking = {1}
    BY <2>1, <2>3, <2>4
  <2>6. ~p.at_linebreak
    BY <1>1, <1>6
  <2> QED
    BY <1>2, <1>5, <1>6, <2>5, <2>6
<1> HIDE DEF looking, q
<1>7. ASSUME p.at_linebreak \/ p.stack[1] \in SkipsNewlines PROVE q.at_linebreak
  BY <1>2, <1>5, <1>7
<1> QED
  BY <1>6, <1>7 DEF q

(* When the end of the text is a mistake.                                  *)
LEMMA WhenRejected ==
  ASSUME NEW p
  PROVE  /\ ~p.failed /\ Reached(p, End).at_linebreak => Verdict(p) # "rejected"
         /\ Verdict(p) = "incomplete" => ~p.failed /\ Reached(p, End).at_linebreak
                                         /\ Reached(p, End).stack # <<>>
BY DEF Verdict, EndVerdict

(* A line that is not refused at its end can go on, or is complete.        *)
LEMMA LineEnds ==
  ASSUME NEW p, Parsed(p), ~Shift(p, "newline").failed
  PROVE  Verdict(Shift(p, "newline")) # "rejected"
<1> DEFINE q == Reached(p, "newline")
           rule == Rule(q.stack[1], "newline", Depth(q.stack))
           next == Shift(p, "newline")
           linebreak == "newline" = "newline" /\ q.stack[1] \in SkipsNewlines
<1>1. ~p.failed /\ "newline" \in Tokens
  BY NewlineIs DEF Shift
<1>2. /\ Shape(q.stack)
      /\ rule.does \in {"take", "fail"} /\ Regular(rule, q.stack[1], "newline")
      /\ rule.does = "take" => next = ParseOf(rule.symbols \o Tail(q.stack), FALSE, linebreak)
      /\ rule.does = "fail" => next = ParseOf(q.stack, TRUE, q.at_linebreak)
  BY <1>1, ShiftIs
<1>3. Parsed(next)
  BY <1>1, ShiftParsed
<1>4. ~next.failed
  OBVIOUS
<1>5. linebreak <=> q.stack[1] \in SkipsNewlines
  OBVIOUS
<1> HIDE DEF next, linebreak
<1>6. rule.does = "take"
  <2> HIDE DEF q, rule
  <2> SUFFICES ASSUME rule.does = "fail" PROVE FALSE
    BY <1>2
  <2>1. next = ParseOf(q.stack, TRUE, q.at_linebreak)
    BY <1>2
  <2> QED
    BY <1>4, <2>1 DEF ParseOf
<1>7. next = ParseOf(rule.symbols \o Tail(q.stack), FALSE, linebreak)
  BY <1>2, <1>6
<1>8. next.stack = rule.symbols \o Tail(q.stack) /\ (next.at_linebreak <=> linebreak)
  <2> HIDE DEF q, rule
  <2> QED
    BY <1>7 DEF ParseOf
<1>9. next.at_linebreak \/ next.stack[1] \in SkipsNewlines
  <2>1. CASE q.stack[1] \in SkipsNewlines
    BY <1>5, <1>8, <2>1
  <2>2. CASE q.stack[1] = "for_words" /\ rule.symbols = <<>>
    <3>1. next.stack[1] \in Below("for_words")
      BY <1>1, <1>2, <1>6, <1>8, <2>2, TakenShape
    <3> QED
      BY <3>1 DEF Below, Simple, Arms, Redirecting, SkipsNewlines
  <2> QED
    BY <1>2, <1>6, <2>1, <2>2 DEF Regular
<1>10. Reached(next, End).at_linebreak
  BY <1>3, <1>4, <1>9, Linebreak
<1> QED
  BY <1>4, <1>10, WhenRejected DEF next

(* What has been taken for unfinished has no pattern that waits for its    *)
(* end.                                                                    *)
LEMMA NoPatternOpen ==
  ASSUME NEW p, Parsed(p), Verdict(p) = "incomplete", NEW n \in 1 .. Len(p.stack)
  PROVE  p.stack[n] \notin {"pattern_end", "case_pattern", "parse_function"}
<1>1. ~p.failed /\ Reached(p, End).at_linebreak
  BY WhenRejected
<1>2. Shape(p.stack) /\ p.stack[1] # "parse_function"
  BY <1>1 DEF Parsed
<1>3. p.stack[1] \notin {"pattern_end", "case_pattern"}
  <2> SUFFICES ASSUME p.stack[1] \in {"pattern_end", "case_pattern"} PROVE FALSE
    OBVIOUS
  <2>1. ~Returns(p.stack[1], End)
    <3>1. p.stack[1] \in Symbols /\ ~Leaves(p.stack[1], End)
      BY <1>2, ShapeTop DEF Leaves, Simple
    <3> QED
      BY <3>1, WhoReturns
  <2>2. p.stack[1] \notin SkipsNewlines
    BY DEF SkipsNewlines
  <2> QED
    BY <1>1, <2>1, <2>2, Linebreak
<1>4. Len(p.stack) \in Nat /\ \A k \in 1 .. Len(p.stack) - 1 : p.stack[k + 1] \in Below(p.stack[k])
  BY <1>2, ShapeTop DEF Shape
<1>5. \A symbol : "case_pattern" \notin Below(symbol) /\ "parse_function" \notin Below(symbol)
                  /\ ("pattern_end" \in Below(symbol) => symbol = "case_pattern")
  BY DEF Below, Simple, Arms, Redirecting
<1>6. \A k \in 1 .. Len(p.stack) : p.stack[k] \notin {"case_pattern", "parse_function"}
  <2> SUFFICES ASSUME NEW k \in 1 .. Len(p.stack), k # 1
               PROVE  p.stack[k] \notin {"case_pattern", "parse_function"}
    BY <1>2, <1>3
  <2>1. k - 1 \in 1 .. Len(p.stack) - 1 /\ (k - 1) + 1 = k
    BY <1>4
  <2>2. p.stack[k] \in Below(p.stack[k - 1])
    BY <1>4, <2>1
  <2> QED
    BY <1>5, <2>2
<1>7. p.stack[n] # "pattern_end"
  <2> SUFFICES ASSUME n # 1 PROVE p.stack[n] # "pattern_end"
    BY <1>3
  <2>1. n - 1 \in 1 .. Len(p.stack) - 1 /\ (n - 1) + 1 = n /\ n - 1 \in 1 .. Len(p.stack)
    BY <1>4
  <2>2. p.stack[n] \in Below(p.stack[n - 1])
    BY <1>4, <2>1
  <2> QED
    BY <1>5, <1>6, <2>1, <2>2
<1> QED
  BY <1>6, <1>7

-----------------------------------------------------------------------------
(* Calls that return, and the one beneath them that takes the token.       *)

(* Calls in front of others.                                               *)
LEMMA FrontOf ==
  ASSUME NEW S, NEW front \in Seq(S), front # <<>>, NEW rest \in Seq(S)
  PROVE  /\ front \o rest \in Seq(S) /\ front \o rest # <<>>
         /\ (front \o rest)[1] = front[1] /\ Head(front \o rest) = front[1]
         /\ Tail(front \o rest) = Tail(front) \o rest
         /\ Tail(front) \in Seq(S)
<1> DEFINE k == Len(front)
           l == Len(rest)
           all == front \o rest
           tail == Tail(front)
           other == tail \o rest
<1>1. k \in Nat /\ k > 0 /\ l \in Nat
  <2>1. Len(front) \in Nat /\ Len(front) # 0
    BY EmptySeq
  <2> QED
    BY <2>1
<1>2. /\ all \in Seq(S) /\ Len(all) = k + l
      /\ \A n \in 1 .. k + l : all[n] = IF n <= k THEN front[n] ELSE rest[n - k]
  BY ConcatProperties
<1>3. tail \in Seq(S) /\ Len(tail) = k - 1 /\ \A n \in 1 .. k - 1 : tail[n] = front[n + 1]
  BY HeadTailProperties
<1>4. /\ other \in Seq(S) /\ Len(other) = (k - 1) + l
      /\ \A n \in 1 .. (k - 1) + l : other[n] = IF n <= k - 1 THEN tail[n] ELSE rest[n - (k - 1)]
  <2> HIDE DEF tail
  <2>1. /\ other \in Seq(S) /\ Len(other) = Len(tail) + Len(rest)
        /\ \A n \in 1 .. Len(tail) + Len(rest) :
             other[n] = IF n <= Len(tail) THEN tail[n] ELSE rest[n - Len(tail)]
    BY <1>3, ConcatProperties
  <2> HIDE DEF k, other
  <2> QED
    BY <1>3, <2>1
<1> HIDE DEF all, tail, other, k, l
<1>5. all # <<>> /\ all[1] = front[1]
  <2>1. Len(all) > 0 /\ 1 \in 1 .. k + l /\ 1 <= k
    BY <1>1, <1>2
  <2>2. Len(<<>>) = 0
    OBVIOUS
  <2> QED
    BY <1>2, <2>1, <2>2
<1>6. Head(all) = all[1]
  BY <1>2, <1>5, HeadTailProperties
<1>7. Tail(all) \in Seq(S) /\ Len(Tail(all)) = (k + l) - 1
      /\ \A n \in 1 .. (k + l) - 1 : Tail(all)[n] = all[n + 1]
  BY <1>2, <1>5, HeadTailProperties
<1>8. ASSUME NEW n \in 1 .. (k + l) - 1 PROVE Tail(all)[n] = other[n]
  <2>1. n \in 1 .. (k - 1) + l /\ n + 1 \in 1 .. k + l
    BY <1>1
  <2>2. Tail(all)[n] = all[n + 1]
    BY <1>7
  <2>3. CASE n + 1 <= k
    <3>1. n <= k - 1 /\ n \in 1 .. k - 1
      BY <1>1, <2>3
    <3> QED
      BY <1>2, <1>3, <1>4, <2>1, <2>2, <2>3, <3>1
  <2>4. CASE ~(n + 1 <= k)
    <3>1. ~(n <= k - 1) /\ (n + 1) - k = n - (k - 1)
      BY <1>1, <2>4
    <3> QED
      BY <1>2, <1>4, <2>1, <2>2, <2>4, <3>1
  <2> QED
    BY <2>3, <2>4
<1>9. Tail(all) = other
  <2>1. (k + l) - 1 = (k - 1) + l
    BY <1>1
  <2> QED
    BY <1>4, <1>7, <1>8, <2>1, SeqEqual
<1> QED
  BY <1>2, <1>3, <1>5, <1>6, <1>9 DEF all, tail, other

(* The calls in front return, and the first of the rest does not.          *)
Over(q, r, rest, t) ==
  /\ q \in ParseType /\ ~q.failed
  /\ r \in Seq(Symbols) /\ rest \in Seq(Symbols) /\ rest # <<>> /\ q.stack = r \o rest
  /\ \A n \in 1 .. Len(r) : Returns(r[n], t)

(* The first of the rest is reached.                                       *)
LEMMA ReachedOver ==
  ASSUME NEW q, NEW r, NEW rest, NEW t, Over(q, r, rest, t), ~Returns(rest[1], t)
  PROVE  Reached(q, t).stack = Called(Called(Called(rest, t), t), t)
<1> USE DEF Over
<1> DEFINE k == Len(r)
           l == Len(rest)
           staying == Staying(q, t)
<1>1. k \in Nat /\ l \in Nat /\ l > 0
  <2>1. Len(rest) \in Nat /\ Len(rest) # 0 /\ Len(r) \in Nat
    BY EmptySeq
  <2> QED
    BY <2>1
<1>2. /\ q.stack \in Seq(Symbols) /\ Len(q.stack) = k + l
      /\ \A n \in 1 .. k + l : q.stack[n] = IF n <= k THEN r[n] ELSE rest[n - k]
  BY ConcatProperties
<1> HIDE DEF k, l
<1>3. k + 1 \in 1 .. k + l /\ ~(k + 1 <= k) /\ (k + 1) - k = 1
  BY <1>1
<1>4. q.stack[k + 1] = rest[1]
  BY <1>2, <1>3
<1>5. DOMAIN q.stack = 1 .. k + l
  BY <1>2
<1>6. k + 1 \in staying
  BY <1>3, <1>4, <1>5 DEF Staying
<1>7. ASSUME NEW n \in staying PROVE n > k
  <2>1. n \in 1 .. k + l /\ ~Returns(q.stack[n], t)
    BY <1>5 DEF Staying
  <2> SUFFICES ASSUME n <= k PROVE FALSE
    BY <1>1, <2>1
  <2>2. q.stack[n] = r[n] /\ n \in 1 .. k
    BY <1>1, <1>2, <2>1
  <2> QED
    BY <2>1, <2>2 DEF k
<1>8. Min(staying) = k + 1
  <2>1. staying \subseteq Nat
    BY <1>1, <1>5 DEF Staying
  <2> HIDE DEF staying
  <2>2. Min(staying) \in staying /\ Min(staying) <= k + 1
    BY <1>6, <2>1, LeastIsMin
  <2>3. Min(staying) \in Nat /\ Min(staying) > k
    BY <1>7, <2>1, <2>2
  <2> QED
    BY <1>1, <2>2, <2>3
<1>9. SubSeq(q.stack, k + 1, k + l) = rest
  BY SubSeqOfConcat2 DEF k, l
<1> HIDE DEF staying
<1>10. SubSeq(q.stack, Min(staying), Len(q.stack)) = rest
  BY <1>2, <1>8, <1>9
<1> QED
  BY <1>6, <1>10, ReachedIs DEF staying

\* The first of the rest looks at t through calls of its own, and the innermost of them takes it.
Reaches(rest, t, top, symbols) ==
  /\ ~Returns(rest[1], t) /\ Called(Called(Called(rest, t), t), t) = top
  /\ top \in Seq(Symbols) /\ top # <<>> /\ symbols \in Seq(Symbols)
  /\ \A d : Rule(top[1], t, d) = Take(symbols)

(* It takes t, or one of the calls it makes does.                          *)
LEMMA ShiftOver ==
  ASSUME NEW q, NEW r, NEW rest, NEW t, Over(q, r, rest, t),
         NEW top, NEW symbols, Reaches(rest, t, top, symbols)
  PROVE  /\ Shift(q, t) \in ParseType /\ ~Shift(q, t).failed
         /\ Shift(q, t).stack = symbols \o Tail(top)
<1> DEFINE q1 == Reached(q, t)
           next == Shift(q, t)
           left == symbols \o Tail(top)
           linebreak == t = "newline" /\ top[1] \in SkipsNewlines
<1>0. /\ top \in Seq(Symbols) /\ top # <<>> /\ symbols \in Seq(Symbols)
      /\ \A d : Rule(top[1], t, d) = Take(symbols)
      /\ q \in ParseType /\ ~q.failed
  BY DEF Reaches, Over
<1>1. q1.stack = top
  <2>0. ~Returns(rest[1], t) /\ Called(Called(Called(rest, t), t), t) = top
    BY DEF Reaches
  <2>1. q1.stack = Called(Called(Called(rest, t), t), t)
    BY <2>0, ReachedOver
  <2> HIDE DEF q1
  <2> QED
    BY <2>0, <2>1
<1>2. q1 = [stack |-> q1.stack, failed |-> q1.failed, at_linebreak |-> q1.at_linebreak]
      /\ q1.failed = FALSE
  BY <1>0, ReachedIs DEF ParseType
<1>3. Head(top) = top[1] /\ Tail(top) \in Seq(Symbols)
  BY <1>0, HeadTailProperties
<1>4. \A d : Rule(top[1], t, d).does # "fail" /\ Rule(top[1], t, d).symbols = symbols
  <2>1. Take(symbols).does # "fail" /\ Take(symbols).symbols = symbols
    BY Kinds
  <2> QED
    BY <1>0, <2>1
<1>5. next = [q1 EXCEPT !.stack = left, !.at_linebreak = linebreak]
  BY <1>0, <1>1, <1>3, <1>4 DEF Shift, Looked, Advanced
<1>6. left \in Seq(Symbols)
  BY <1>0, <1>3, ConcatProperties
<1>7. linebreak \in BOOLEAN
  OBVIOUS
<1> HIDE DEF q1, next, left, linebreak
<1>8. next = ParseOf(left, FALSE, linebreak)
  BY <1>2, <1>5 DEF ParseOf
<1>9. /\ ParseOf(left, FALSE, linebreak).stack = left /\ ParseOf(left, FALSE, linebreak).failed = FALSE
      /\ ParseOf(left, FALSE, linebreak) \in ParseType
  BY <1>6, <1>7 DEF ParseOf, ParseType
<1>10. next \in ParseType /\ next.failed = FALSE /\ next.stack = left
  BY <1>8, <1>9
<1> QED
  BY <1>10 DEF next, left

(* It takes t itself.                                                      *)
LEMMA TakesItself ==
  ASSUME NEW rest \in Seq(Symbols), rest # <<>>, NEW t, NEW symbols, Rule(rest[1], t, 0) = Take(symbols)
  PROVE  Called(rest, t) = rest /\ ~Returns(rest[1], t)
<1>1. Head(rest) = rest[1]
  BY HeadTailProperties
<1>2. Rule(rest[1], t, 0).does # "pass" /\ Rule(rest[1], t, 0) # Pass(<<>>)
  BY Kinds
<1> QED
  BY <1>1, <1>2 DEF Called, CalledBy, Returns

(* It takes t and is gone with all that was on top of it.                  *)
LEMMA ShiftEnding ==
  ASSUME NEW q, NEW r, NEW rest, NEW t, Over(q, r, rest, t), \A d : Rule(rest[1], t, d) = Take(<<>>)
  PROVE  /\ Shift(q, t) \in ParseType /\ ~Shift(q, t).failed
         /\ Shift(q, t).stack = Tail(rest)
<1>0. rest \in Seq(Symbols) /\ rest # <<>>
  BY DEF Over
<1>1. Called(rest, t) = rest /\ ~Returns(rest[1], t)
  BY <1>0, TakesItself
<1>2. Called(Called(Called(rest, t), t), t) = rest
  BY <1>1
<1>3. <<>> \in Seq(Symbols) /\ Tail(rest) \in Seq(Symbols)
  BY <1>0, EmptySeq, HeadTailProperties
<1>4. <<>> \o Tail(rest) = Tail(rest)
  BY <1>3, NoneBefore
<1> DEFINE none == <<>>
<1>6. none \in Seq(Symbols) /\ \A d : Rule(rest[1], t, d) = Take(none)
  BY <1>3
<1> HIDE DEF none
<1>8. Reaches(rest, t, rest, none)
  BY <1>0, <1>1, <1>2, <1>6 DEF Reaches
<1>7. Shift(q, t) \in ParseType /\ ~Shift(q, t).failed /\ Shift(q, t).stack = none \o Tail(rest)
  BY <1>8, ShiftOver
<1>5. Shift(q, t) \in ParseType /\ ~Shift(q, t).failed /\ Shift(q, t).stack = <<>> \o Tail(rest)
  BY <1>7 DEF none
<1> QED
  BY <1>4, <1>5

\* ConcatAssociative of the library, for calls.
LEMMA JoinAgain ==
  \A a, b, c \in Seq(Symbols) : (a \o b) \o c = a \o (b \o c)
<1> DEFINE S == Symbols
<1> HIDE DEF S
<1>1. \A a, b, c \in Seq(S) : (a \o b) \o c = a \o (b \o c)
  BY ConcatAssociative
<1> QED
  BY <1>1 DEF S

(* It looks at t through calls of its own.                                 *)
LEMMA PassesOn ==
  ASSUME NEW front \in Seq(Symbols), front # <<>>, NEW rest \in Seq(Symbols), NEW t,
         NEW calls \in Seq(Symbols), Rule(front[1], t, 0) = Pass(calls)
  PROVE  Called(front \o rest, t) = (calls \o Tail(front)) \o rest
<1>1. Head(front \o rest) = front[1] /\ Tail(front \o rest) = Tail(front) \o rest
      /\ Tail(front) \in Seq(Symbols)
  BY FrontOf
<1>2. Rule(front[1], t, 0).does = "pass" /\ Rule(front[1], t, 0).symbols = calls
  BY Kinds
<1>3. Called(front \o rest, t) = calls \o (Tail(front) \o rest)
  BY <1>1, <1>2 DEF Called, CalledBy
<1> DEFINE tail == Tail(front)
<1>4. tail \in Seq(Symbols)
  BY <1>1
<1> HIDE DEF tail
<1>5. (calls \o tail) \o rest = calls \o (tail \o rest)
  BY <1>4, JoinAgain
<1> QED
  BY <1>3, <1>5 DEF tail

-----------------------------------------------------------------------------
(* Short sequences.                                                        *)

(* The first and the rest.                                                 *)
LEMMA FirstIs ==
  ASSUME NEW S, NEW seq \in Seq(S), seq # <<>>
  PROVE  seq = <<seq[1]>> \o Tail(seq) /\ seq[1] \in S
OBVIOUS

(* Short sequences.                                                        *)
LEMMA Tuple1 ==
  ASSUME NEW S, NEW a \in S
  PROVE  <<a>> \in Seq(S) /\ <<a>> # <<>> /\ <<a>>[1] = a /\ Tail(<<a>>) = <<>>
<1>1. Len(<<>>) = 0 /\ Len(<<a>>) = 1
  OBVIOUS
<1>2. <<a>> # <<>>
  BY <1>1
<1>3. <<a>> \in Seq(S) /\ <<a>>[1] = a /\ Tail(<<a>>) = <<>>
  OBVIOUS
<1> QED
  BY <1>2, <1>3

LEMMA Tuple2 ==
  ASSUME NEW S, NEW a \in S, NEW b \in S
  PROVE  <<a, b>> \in Seq(S) /\ <<a, b>> # <<>> /\ <<a, b>>[1] = a /\ Tail(<<a, b>>) = <<b>>
<1>1. Len(<<>>) = 0 /\ Len(<<a, b>>) = 2
  OBVIOUS
<1>2. <<a, b>> # <<>>
  BY <1>1
<1>3. <<a, b>> \in Seq(S) /\ <<a, b>>[1] = a /\ Tail(<<a, b>>) = <<b>>
  OBVIOUS
<1> QED
  BY <1>2, <1>3

LEMMA Tuple3 ==
  ASSUME NEW S, NEW a \in S, NEW b \in S, NEW c \in S
  PROVE  <<a, b, c>> \in Seq(S) /\ <<a, b, c>> # <<>> /\ <<a, b, c>>[1] = a /\ Tail(<<a, b, c>>) = <<b, c>>
<1>1. Len(<<>>) = 0 /\ Len(<<a, b, c>>) = 3
  OBVIOUS
<1>2. <<a, b, c>> # <<>>
  BY <1>1
<1>3. <<a, b, c>> \in Seq(S) /\ <<a, b, c>>[1] = a /\ Tail(<<a, b, c>>) = <<b, c>>
  OBVIOUS
<1> QED
  BY <1>2, <1>3

LEMMA Tuple4 ==
  ASSUME NEW S, NEW a \in S, NEW b \in S, NEW c \in S, NEW d \in S
  PROVE  /\ <<a, b, c, d>> \in Seq(S) /\ <<a, b, c, d>> # <<>> /\ <<a, b, c, d>>[1] = a
         /\ Tail(<<a, b, c, d>>) = <<b, c, d>>
<1>1. Len(<<>>) = 0 /\ Len(<<a, b, c, d>>) = 4
  OBVIOUS
<1>2. <<a, b, c, d>> # <<>>
  BY <1>1
<1>3. <<a, b, c, d>> \in Seq(S) /\ <<a, b, c, d>>[1] = a /\ Tail(<<a, b, c, d>>) = <<b, c, d>>
  OBVIOUS
<1> QED
  BY <1>2, <1>3

LEMMA Tuple5 ==
  ASSUME NEW S, NEW a \in S, NEW b \in S, NEW c \in S, NEW d \in S, NEW e \in S
  PROVE  /\ <<a, b, c, d, e>> \in Seq(S) /\ <<a, b, c, d, e>> # <<>> /\ <<a, b, c, d, e>>[1] = a
         /\ Tail(<<a, b, c, d, e>>) = <<b, c, d, e>>
<1>1. Len(<<>>) = 0 /\ Len(<<a, b, c, d, e>>) = 5
  OBVIOUS
<1>2. <<a, b, c, d, e>> # <<>>
  BY <1>1
<1>3. <<a, b, c, d, e>> \in Seq(S) /\ <<a, b, c, d, e>>[1] = a /\ Tail(<<a, b, c, d, e>>) = <<b, c, d, e>>
  OBVIOUS
<1> QED
  BY <1>2, <1>3

LEMMA Join2 ==
  ASSUME NEW S, NEW a \in S, NEW b \in S
  PROVE  <<a>> \o <<b>> = <<a, b>>
<1>1. <<a, b>> \in Seq(S) /\ <<a, b>> # <<>> /\ <<a, b>>[1] = a /\ Tail(<<a, b>>) = <<b>>
  BY Tuple2
<1> DEFINE t == <<a, b>>
           rest == <<b>>
<1>2. t \in Seq(S) /\ t # <<>> /\ t[1] = a /\ Tail(t) = rest
  BY <1>1
<1> HIDE DEF t, rest
<1>3. t = <<t[1]>> \o Tail(t)
  BY <1>2, FirstIs
<1>4. t = <<a>> \o rest
  BY <1>2, <1>3
<1> QED
  BY <1>4 DEF t, rest

LEMMA Join3 ==
  ASSUME NEW S, NEW a \in S, NEW b \in S, NEW c \in S
  PROVE  <<a>> \o <<b, c>> = <<a, b, c>>
<1>1. <<a, b, c>> \in Seq(S) /\ <<a, b, c>> # <<>> /\ <<a, b, c>>[1] = a /\ Tail(<<a, b, c>>) = <<b, c>>
  BY Tuple3
<1> DEFINE t == <<a, b, c>>
           rest == <<b, c>>
<1>2. t \in Seq(S) /\ t # <<>> /\ t[1] = a /\ Tail(t) = rest
  BY <1>1
<1> HIDE DEF t, rest
<1>3. t = <<t[1]>> \o Tail(t)
  BY <1>2, FirstIs
<1>4. t = <<a>> \o rest
  BY <1>2, <1>3
<1> QED
  BY <1>4 DEF t, rest

LEMMA Join4 ==
  ASSUME NEW S, NEW a \in S, NEW b \in S, NEW c \in S, NEW d \in S
  PROVE  <<a>> \o <<b, c, d>> = <<a, b, c, d>>
<1>1. <<a, b, c, d>> \in Seq(S) /\ <<a, b, c, d>> # <<>> /\ <<a, b, c, d>>[1] = a
      /\ Tail(<<a, b, c, d>>) = <<b, c, d>>
  BY Tuple4
<1> DEFINE t == <<a, b, c, d>>
           rest == <<b, c, d>>
<1>2. t \in Seq(S) /\ t # <<>> /\ t[1] = a /\ Tail(t) = rest
  BY <1>1
<1> HIDE DEF t, rest
<1>3. t = <<t[1]>> \o Tail(t)
  BY <1>2, FirstIs
<1>4. t = <<a>> \o rest
  BY <1>2, <1>3
<1> QED
  BY <1>4 DEF t, rest

LEMMA Join5 ==
  ASSUME NEW S, NEW a \in S, NEW b \in S, NEW c \in S, NEW d \in S, NEW e \in S
  PROVE  <<a>> \o <<b, c, d, e>> = <<a, b, c, d, e>>
<1>1. <<a, b, c, d, e>> \in Seq(S) /\ <<a, b, c, d, e>> # <<>> /\ <<a, b, c, d, e>>[1] = a
      /\ Tail(<<a, b, c, d, e>>) = <<b, c, d, e>>
  BY Tuple5
<1> DEFINE t == <<a, b, c, d, e>>
           rest == <<b, c, d, e>>
<1>2. t \in Seq(S) /\ t # <<>> /\ t[1] = a /\ Tail(t) = rest
  BY <1>1
<1> HIDE DEF t, rest
<1>3. t = <<t[1]>> \o Tail(t)
  BY <1>2, FirstIs
<1>4. t = <<a>> \o rest
  BY <1>2, <1>3
<1> QED
  BY <1>4 DEF t, rest

LEMMA Joint3 ==
  ASSUME NEW S, NEW a \in S, NEW b \in S, NEW c \in S
  PROVE  <<a, b>> \o <<c>> = <<a, b, c>>
<1>1. <<a>> \in Seq(S) /\ <<b>> \in Seq(S) /\ <<c>> \in Seq(S)
  OBVIOUS
<1>2. (<<a>> \o <<b>>) \o <<c>> = <<a>> \o (<<b>> \o <<c>>)
  BY <1>1, ConcatAssociative
<1>3. <<a>> \o <<b>> = <<a, b>>
  BY Join2
<1>4. <<b>> \o <<c>> = <<b, c>>
  BY Join2
<1>5. <<a>> \o <<b, c>> = <<a, b, c>>
  BY Join3
<1> QED
  BY <1>2, <1>3, <1>4, <1>5

LEMMA Joint4 ==
  ASSUME NEW S, NEW a \in S, NEW b \in S, NEW c \in S, NEW d \in S
  PROVE  <<a, b>> \o <<c, d>> = <<a, b, c, d>>
<1>1. <<a>> \in Seq(S) /\ <<b>> \in Seq(S) /\ <<c, d>> \in Seq(S)
  OBVIOUS
<1>2. (<<a>> \o <<b>>) \o <<c, d>> = <<a>> \o (<<b>> \o <<c, d>>)
  BY <1>1, ConcatAssociative
<1>3. <<a>> \o <<b>> = <<a, b>>
  BY Join2
<1>4. <<b>> \o <<c, d>> = <<b, c, d>>
  BY Join3
<1>5. <<a>> \o <<b, c, d>> = <<a, b, c, d>>
  BY Join4
<1> QED
  BY <1>2, <1>3, <1>4, <1>5

LEMMA Joint5 ==
  ASSUME NEW S, NEW a \in S, NEW b \in S, NEW c \in S, NEW d \in S, NEW e \in S
  PROVE  <<a, b>> \o <<c, d, e>> = <<a, b, c, d, e>>
<1>1. <<a>> \in Seq(S) /\ <<b>> \in Seq(S) /\ <<c, d, e>> \in Seq(S)
  OBVIOUS
<1>2. (<<a>> \o <<b>>) \o <<c, d, e>> = <<a>> \o (<<b>> \o <<c, d, e>>)
  BY <1>1, ConcatAssociative
<1>3. <<a>> \o <<b>> = <<a, b>>
  BY Join2
<1>4. <<b>> \o <<c, d, e>> = <<b, c, d, e>>
  BY Join4
<1>5. <<a>> \o <<b, c, d, e>> = <<a, b, c, d, e>>
  BY Join5
<1> QED
  BY <1>2, <1>3, <1>4, <1>5

-----------------------------------------------------------------------------
(* A word where a command is looked for.                                   *)

(* What a word that starts a command leaves of the calls that look for     *)
(* one.                                                                    *)
Made(symbol) ==
  CASE symbol = "parse_command"  -> <<"first_word">>
    [] symbol = "parse_pipeline" -> <<"first_word", "pipeline_rest">>
    [] symbol = "parse_and_or"   -> <<"first_word", "pipeline_rest", "and_or_rest">>
    [] symbol = "parse_body"     ->
         <<"first_word", "pipeline_rest", "and_or_rest", "separator", "parse_list">>

(* What a word makes of the calls that look for a command.                 *)
LEMMA WordRules ==
  /\ Rule("parse_body", "x", 0) = Pass(<<"parse_and_or", "separator", "parse_list">>)
  /\ Rule("parse_and_or", "x", 0) = Pass(<<"parse_pipeline", "and_or_rest">>)
  /\ Rule("parse_pipeline", "x", 0) = Pass(<<"parse_command", "pipeline_rest">>)
  /\ \A d : Rule("parse_command", "x", d) = Take(<<"first_word">>)
<1>1. Rule("parse_body", "x", 0) = Pass(<<"parse_and_or", "separator", "parse_list">>)
  <2>1. Rule("parse_body", "x", 0) = ListRule("parse_body", "x")
    BY RuleCases
  <2>2. "x" \notin ListEnd /\ "x" # "newline"
    BY DEF ListEnd, End
  <2> QED
    BY <2>1, <2>2 DEF ListRule
<1>2. Rule("parse_and_or", "x", 0) = Pass(<<"parse_pipeline", "and_or_rest">>)
  <2>1. Rule("parse_and_or", "x", 0) = PipelineRule("parse_and_or", "x")
    BY RuleCases
  <2> QED
    BY <2>1 DEF PipelineRule
<1>3. Rule("parse_pipeline", "x", 0) = Pass(<<"parse_command", "pipeline_rest">>)
  <2>1. Rule("parse_pipeline", "x", 0) = PipelineRule("parse_pipeline", "x")
    BY RuleCases
  <2>2. "x" # "!"
    OBVIOUS
  <2> QED
    BY <2>1, <2>2 DEF PipelineRule
<1>4. ASSUME NEW d PROVE Rule("parse_command", "x", d) = Take(<<"first_word">>)
  <2>1. Rule("parse_command", "x", d) = CommandRule("x", d)
    BY RuleCases
  <2>2. CommandRule("x", d) = Take(<<"first_word">>)
    BY DEF CommandRule, WordTokens, Reserved, Redirections
  <2> QED
    BY <2>1, <2>2
<1> QED
  BY <1>1, <1>2, <1>3, <1>4

LEMMA StaysOn ==
  ASSUME NEW front \in Seq(Symbols), front # <<>>, front[1] = "parse_command", NEW tail \in Seq(Symbols)
  PROVE  Called(front \o tail, "x") = front \o tail
<1>1. front \o tail \in Seq(Symbols) /\ front \o tail # <<>> /\ (front \o tail)[1] = "parse_command"
  BY FrontOf
<1>2. Rule("parse_command", "x", 0) = Take(<<"first_word">>)
  BY WordRules
<1> DEFINE stack == front \o tail
<1> HIDE DEF stack
<1>3. Called(stack, "x") = stack
  BY <1>1, <1>2, TakesItself DEF stack
<1> QED
  BY <1>3 DEF stack

LEMMA WordCalls ==
  ASSUME NEW tail \in Seq(Symbols)
  PROVE  /\ Called(<<"parse_body">> \o tail, "x") = <<"parse_and_or", "separator", "parse_list">> \o tail
         /\ Called(<<"parse_and_or", "separator", "parse_list">> \o tail, "x")
              = <<"parse_pipeline", "and_or_rest", "separator", "parse_list">> \o tail
         /\ Called(<<"parse_pipeline", "and_or_rest", "separator", "parse_list">> \o tail, "x")
              = <<"parse_command", "pipeline_rest", "and_or_rest", "separator", "parse_list">> \o tail
         /\ Called(<<"parse_and_or">> \o tail, "x") = <<"parse_pipeline", "and_or_rest">> \o tail
         /\ Called(<<"parse_pipeline", "and_or_rest">> \o tail, "x")
              = <<"parse_command", "pipeline_rest", "and_or_rest">> \o tail
         /\ Called(<<"parse_pipeline">> \o tail, "x") = <<"parse_command", "pipeline_rest">> \o tail
<1> DEFINE S == {"parse_body", "parse_and_or", "separator", "parse_list", "parse_pipeline", "and_or_rest",
                 "parse_command", "pipeline_rest"}
           list == <<"parse_and_or", "separator", "parse_list">>
           chain == <<"parse_pipeline", "and_or_rest">>
           pipe == <<"parse_command", "pipeline_rest">>
<1>1. S \subseteq Symbols
  BY DEF Symbols, Simple
<1>2. ASSUME NEW front \in Seq(Symbols), front # <<>>, NEW calls \in Seq(Symbols),
             Rule(front[1], "x", 0) = Pass(calls)
      PROVE  Called(front \o tail, "x") = (calls \o Tail(front)) \o tail
  BY <1>2, PassesOn
<1>8. Called(<<"parse_body">> \o tail, "x") = list \o tail
  <2>0. list \in Seq(Symbols)
    BY <1>1, Tuple3
  <2>1. list \in Seq(Symbols) /\ list \o <<>> = list
    BY <2>0, ConcatEmptySeq
  <2>3. <<"parse_body">> \in Seq(Symbols) /\ <<"parse_body">> # <<>> /\ <<"parse_body">>[1] = "parse_body"
        /\ Tail(<<"parse_body">>) = <<>>
    BY <1>1, Tuple1
  <2>2. Called(<<"parse_body">> \o tail, "x") = (list \o Tail(<<"parse_body">>)) \o tail
    BY <1>2, <2>1, <2>3, WordRules
  <2> QED
    BY <2>1, <2>2, <2>3
<1>9. Called(list \o tail, "x") = <<"parse_pipeline", "and_or_rest", "separator", "parse_list">> \o tail
  <2>1. list \in Seq(Symbols) /\ list # <<>> /\ list[1] = "parse_and_or"
        /\ Tail(list) = <<"separator", "parse_list">>
    BY <1>1, Tuple3
  <2>3. chain \in Seq(Symbols)
    BY <1>1, Tuple2
  <2>4. chain \o <<"separator", "parse_list">>
          = <<"parse_pipeline", "and_or_rest", "separator", "parse_list">>
    BY <1>1, Joint4
  <2>2. Called(list \o tail, "x") = (chain \o Tail(list)) \o tail
    BY <1>2, <2>1, <2>3, WordRules
  <2> QED
    BY <2>1, <2>2, <2>4
<1>10. Called(<<"parse_pipeline", "and_or_rest", "separator", "parse_list">> \o tail, "x")
         = <<"parse_command", "pipeline_rest", "and_or_rest", "separator", "parse_list">> \o tail
  <2> DEFINE more == <<"parse_pipeline", "and_or_rest", "separator", "parse_list">>
  <2>1. more \in Seq(Symbols) /\ more # <<>> /\ more[1] = "parse_pipeline"
        /\ Tail(more) = <<"and_or_rest", "separator", "parse_list">>
    BY <1>1, Tuple4
  <2>3. pipe \in Seq(Symbols)
    BY <1>1, Tuple2
  <2>4. pipe \o <<"and_or_rest", "separator", "parse_list">>
          = <<"parse_command", "pipeline_rest", "and_or_rest", "separator", "parse_list">>
    BY <1>1, Joint5
  <2>2. Called(more \o tail, "x") = (pipe \o Tail(more)) \o tail
    BY <1>2, <2>1, <2>3, WordRules
  <2> QED
    BY <2>1, <2>2, <2>4
<1>11. Called(<<"parse_and_or">> \o tail, "x") = chain \o tail
  <2>0. chain \in Seq(Symbols)
    BY <1>1, Tuple2
  <2>1. chain \in Seq(Symbols) /\ chain \o <<>> = chain
    BY <2>0, ConcatEmptySeq
  <2>3. <<"parse_and_or">> \in Seq(Symbols) /\ <<"parse_and_or">> # <<>>
        /\ <<"parse_and_or">>[1] = "parse_and_or"
        /\ Tail(<<"parse_and_or">>) = <<>>
    BY <1>1, Tuple1
  <2>2. Called(<<"parse_and_or">> \o tail, "x") = (chain \o Tail(<<"parse_and_or">>)) \o tail
    BY <1>2, <2>1, <2>3, WordRules
  <2> QED
    BY <2>1, <2>2, <2>3
<1>12. Called(chain \o tail, "x") = <<"parse_command", "pipeline_rest", "and_or_rest">> \o tail
  <2>1. chain \in Seq(Symbols) /\ chain # <<>> /\ chain[1] = "parse_pipeline"
        /\ Tail(chain) = <<"and_or_rest">>
    BY <1>1, Tuple2
  <2>3. pipe \in Seq(Symbols)
    BY <1>1, Tuple2
  <2>4. pipe \o <<"and_or_rest">> = <<"parse_command", "pipeline_rest", "and_or_rest">>
    BY <1>1, Joint3
  <2>2. Called(chain \o tail, "x") = (pipe \o Tail(chain)) \o tail
    BY <1>2, <2>1, <2>3, WordRules
  <2> QED
    BY <2>1, <2>2, <2>4
<1>13. Called(<<"parse_pipeline">> \o tail, "x") = pipe \o tail
  <2>0. pipe \in Seq(Symbols)
    BY <1>1, Tuple2
  <2>1. pipe \in Seq(Symbols) /\ pipe \o <<>> = pipe
    BY <2>0, ConcatEmptySeq
  <2>3. <<"parse_pipeline">> \in Seq(Symbols) /\ <<"parse_pipeline">> # <<>>
        /\ <<"parse_pipeline">>[1] = "parse_pipeline"
        /\ Tail(<<"parse_pipeline">>) = <<>>
    BY <1>1, Tuple1
  <2>2. Called(<<"parse_pipeline">> \o tail, "x") = (pipe \o Tail(<<"parse_pipeline">>)) \o tail
    BY <1>2, <2>1, <2>3, WordRules
  <2> QED
    BY <2>1, <2>2, <2>3
<1> QED
  BY <1>8, <1>9, <1>10, <1>11, <1>12, <1>13

(* A word that starts a command ends the calls that wait for one.          *)
WordTo(symbol) ==
  CASE symbol = "parse_command"  -> <<"parse_command">>
    [] symbol = "parse_pipeline" -> <<"parse_command", "pipeline_rest">>
    [] symbol = "parse_and_or"   -> <<"parse_command", "pipeline_rest", "and_or_rest">>
    [] symbol = "parse_body"     ->
         <<"parse_command", "pipeline_rest", "and_or_rest", "separator", "parse_list">>

Commands == {"parse_command", "parse_pipeline", "parse_and_or", "parse_body"}

LEMMA WordToIs ==
  ASSUME NEW symbol \in Commands
  PROVE  LET front == WordTo(symbol) IN
         /\ front \in Seq(Symbols) /\ front # <<>> /\ front[1] = "parse_command"
         /\ <<"first_word">> \o Tail(front) = Made(symbol)
<1>0. {"separator", "parse_list", "and_or_rest", "parse_command", "pipeline_rest", "first_word"} \subseteq Symbols
  BY DEF Symbols, Simple
<1>6. CASE symbol = "parse_command"
  <2>1. WordTo(symbol) = <<"parse_command">> /\ Made(symbol) = <<"first_word">>
    BY <1>6 DEF WordTo, Made
  <2>2. <<"parse_command">> \in Seq(Symbols) /\ <<"parse_command">> # <<>>
        /\ <<"parse_command">>[1] = "parse_command" /\ Tail(<<"parse_command">>) = <<>>
        /\ <<"first_word">> \in Seq(Symbols)
    BY <1>0, Tuple1
  <2>3. <<"first_word">> \o <<>> = <<"first_word">>
    BY <2>2, ConcatEmptySeq
  <2> QED
    BY <2>1, <2>2, <2>3
<1>7. CASE symbol = "parse_pipeline"
  <2>1. WordTo(symbol) = <<"parse_command", "pipeline_rest">>
        /\ Made(symbol) = <<"first_word", "pipeline_rest">>
    BY <1>7 DEF WordTo, Made
  <2> DEFINE front == <<"parse_command", "pipeline_rest">>
  <2>2. front \in Seq(Symbols) /\ front # <<>> /\ front[1] = "parse_command"
        /\ Tail(front) = <<"pipeline_rest">>
    BY <1>0, Tuple2
  <2>3. <<"first_word">> \o <<"pipeline_rest">> = <<"first_word", "pipeline_rest">>
    BY <1>0, Join2
  <2> QED
    BY <2>1, <2>2, <2>3
<1>8. CASE symbol = "parse_and_or"
  <2>1. /\ WordTo(symbol) = <<"parse_command", "pipeline_rest", "and_or_rest">>
        /\ Made(symbol) = <<"first_word", "pipeline_rest", "and_or_rest">>
    BY <1>8 DEF WordTo, Made
  <2> DEFINE front == <<"parse_command", "pipeline_rest", "and_or_rest">>
  <2>2. front \in Seq(Symbols) /\ front # <<>> /\ front[1] = "parse_command"
        /\ Tail(front) = <<"pipeline_rest", "and_or_rest">>
    BY <1>0, Tuple3
  <2>3. <<"first_word">> \o <<"pipeline_rest", "and_or_rest">>
          = <<"first_word", "pipeline_rest", "and_or_rest">>
    BY <1>0, Join3
  <2> QED
    BY <2>1, <2>2, <2>3
<1>9. CASE symbol = "parse_body"
  <2>1. /\ WordTo(symbol) = <<"parse_command", "pipeline_rest", "and_or_rest", "separator", "parse_list">>
        /\ Made(symbol) = <<"first_word", "pipeline_rest", "and_or_rest", "separator", "parse_list">>
    BY <1>9 DEF WordTo, Made
  <2> DEFINE front == <<"parse_command", "pipeline_rest", "and_or_rest", "separator", "parse_list">>
  <2>2. front \in Seq(Symbols) /\ front # <<>> /\ front[1] = "parse_command"
        /\ Tail(front) = <<"pipeline_rest", "and_or_rest", "separator", "parse_list">>
    BY <1>0, Tuple5
  <2>3. <<"first_word">> \o <<"pipeline_rest", "and_or_rest", "separator", "parse_list">>
          = <<"first_word", "pipeline_rest", "and_or_rest", "separator", "parse_list">>
    BY <1>0, Join5
  <2> QED
    BY <2>1, <2>2, <2>3
<1> QED
  BY <1>6, <1>7, <1>8, <1>9 DEF Commands

LEMMA WordGoes ==
  ASSUME NEW rest \in Seq(Symbols), rest # <<>>, rest[1] \in Commands
  PROVE  /\ Called(Called(Called(rest, "x"), "x"), "x") = WordTo(rest[1]) \o Tail(rest)
         /\ ~Returns(rest[1], "x")
<1> DEFINE tail == Tail(rest)
<1>1. rest = <<rest[1]>> \o tail /\ tail \in Seq(Symbols)
  BY FirstIs, HeadTailProperties
<1>2. \A symbol \in Commands : LET front == WordTo(symbol) IN
        Called(front \o tail, "x") = front \o tail
  BY <1>1, StaysOn, WordToIs
<1> HIDE DEF tail
<1>3. CASE rest[1] = "parse_command"
  <2>1. rest = WordTo("parse_command") \o tail
    BY <1>1, <1>3 DEF WordTo
  <2>2. Called(rest, "x") = rest
    BY <1>2, <2>1 DEF Commands
  <2>3. Rule("parse_command", "x", 0) # Pass(<<>>)
    BY WordRules, Kinds
  <2> QED
    BY <1>3, <2>1, <2>2, <2>3 DEF Returns, tail
<1>4. CASE rest[1] = "parse_pipeline"
  <2>1. Called(rest, "x") = WordTo("parse_pipeline") \o tail
    BY <1>1, <1>4, WordCalls DEF WordTo
  <2>2. Called(WordTo("parse_pipeline") \o tail, "x") = WordTo("parse_pipeline") \o tail
    BY <1>2 DEF Commands
  <2>3. ~Returns("parse_pipeline", "x")
    BY WordRules, EmptyOrNot DEF Returns
  <2> QED
    BY <1>4, <2>1, <2>2, <2>3 DEF tail
<1>5. CASE rest[1] = "parse_and_or"
  <2>1. Called(Called(rest, "x"), "x") = WordTo("parse_and_or") \o tail
    BY <1>1, <1>5, WordCalls DEF WordTo
  <2>2. Called(WordTo("parse_and_or") \o tail, "x") = WordTo("parse_and_or") \o tail
    BY <1>2 DEF Commands
  <2>3. ~Returns("parse_and_or", "x")
    BY WordRules, EmptyOrNot DEF Returns
  <2> QED
    BY <1>5, <2>1, <2>2, <2>3 DEF tail
<1>6. CASE rest[1] = "parse_body"
  <2>1. Called(Called(Called(rest, "x"), "x"), "x") = WordTo("parse_body") \o tail
    BY <1>1, <1>6, WordCalls DEF WordTo
  <2>2. ~Returns("parse_body", "x")
    BY WordRules, EmptyOrNot DEF Returns
  <2> QED
    BY <1>6, <2>1, <2>2 DEF tail
<1> QED
  BY <1>3, <1>4, <1>5, <1>6 DEF Commands

(* A word ends what is on top, and starts a command.                       *)
LEMMA ShiftWord ==
  ASSUME NEW q, NEW r, NEW rest, Over(q, r, rest, "x"), rest[1] \in Commands
  PROVE  /\ Shift(q, "x") \in ParseType /\ ~Shift(q, "x").failed
         /\ Shift(q, "x").stack = Made(rest[1]) \o Tail(rest)
<1> DEFINE front == WordTo(rest[1])
           tail == Tail(rest)
           top == front \o tail
           word == <<"first_word">>
<1>1. rest \in Seq(Symbols) /\ rest # <<>> /\ tail \in Seq(Symbols)
  BY HeadTailProperties DEF Over
<1>2. front \in Seq(Symbols) /\ front # <<>> /\ front[1] = "parse_command"
      /\ word \o Tail(front) = Made(rest[1])
  BY WordToIs
<1>3. word \in Seq(Symbols)
  BY DEF Symbols, Simple
<1>4. Called(Called(Called(rest, "x"), "x"), "x") = top /\ ~Returns(rest[1], "x")
  BY <1>1, WordGoes
<1>5. \A d : Rule("parse_command", "x", d) = Take(word)
  BY WordRules
<1> HIDE DEF front, tail, word
<1>6. top \in Seq(Symbols) /\ top # <<>> /\ top[1] = "parse_command" /\ Tail(top) = Tail(front) \o tail
      /\ Tail(front) \in Seq(Symbols)
  BY <1>1, <1>2, FrontOf
<1> HIDE DEF top
<1>7. Reaches(rest, "x", top, word)
  BY <1>3, <1>4, <1>5, <1>6 DEF Reaches
<1>8. Shift(q, "x") \in ParseType /\ ~Shift(q, "x").failed /\ Shift(q, "x").stack = word \o Tail(top)
  BY <1>7, ShiftOver
<1> DEFINE behind == Tail(front)
<1>9. behind \in Seq(Symbols) /\ Tail(top) = behind \o tail /\ word \o behind = Made(rest[1])
  BY <1>2, <1>6
<1> HIDE DEF behind
<1>11. word \in Seq(Symbols) /\ behind \in Seq(Symbols) /\ tail \in Seq(Symbols)
  BY <1>1, <1>3, <1>9
<1>10. word \o (behind \o tail) = (word \o behind) \o tail
  BY <1>11, JoinAgain
<1> QED
  BY <1>8, <1>9, <1>10 DEF tail

-----------------------------------------------------------------------------
(* What would end the calls in progress.                                   *)

\* Calls that return when what ends the calls beneath them comes.
Enders == Simple \union {"pipeline_rest", "and_or_rest", "leave", "trailing_redirects"}

Passive == Enders \union {"parse_list", "skip_newlines"}

\* a may be on top of c when c is to end, and leaves to c the token that ends it.
Lies(a, c) ==
  \/ a \in Enders /\ c \in {"pipeline_rest", "and_or_rest", "separator", "leave", "trailing_redirects"}
  \/ a = "parse_list" /\ c \in {"}", ")", "then", "fi", "do", "done", "branches", "arm_end"}
  \/ a = "skip_newlines" /\ c \in {"do", "in", "for_in", "parse_pipeline", "parse_command"}

(* What does not have to be ended.                                         *)
LEMMA PassiveLies ==
  ASSUME NEW c \in Passive, NEW next \in Below(c)
  PROVE  /\ c \notin DOMAIN Ending
         /\ Lies(c, next)
         /\ \A a : Lies(a, c) => Lies(a, next)
<1>1. c \notin DOMAIN Ending
  BY DEF Passive, Enders, Simple, Ending
<1>2. CASE c \in Simple \union {"trailing_redirects"}
  <2>1. next \in {"pipeline_rest", "leave"}
    BY <1>2, BelowFacts
  <2>2. Lies(c, next)
    BY <1>2, <2>1 DEF Lies, Enders
  <2>3. \A a : Lies(a, c) => a \in Enders
    BY <1>2 DEF Lies, Simple
  <2> QED
    BY <1>1, <2>1, <2>2, <2>3 DEF Lies
<1>3. CASE c \in {"pipeline_rest", "and_or_rest", "leave"}
  <2>1. next \in {"pipeline_rest", "and_or_rest", "separator", "leave", "trailing_redirects"}
    BY <1>3, BelowFacts, ZenonT(60)
  <2>2. Lies(c, next)
    BY <1>3, <2>1 DEF Lies, Enders
  <2>3. \A a : Lies(a, c) => a \in Enders
    BY <1>3 DEF Lies
  <2> QED
    BY <1>1, <2>1, <2>2, <2>3 DEF Lies
<1>4. CASE c = "parse_list"
  <2>1. next \in {"}", ")", "then", "fi", "do", "done", "branches", "arm_end"}
    BY <1>4, BelowFacts
  <2>2. \A a : ~Lies(a, c)
    BY <1>4 DEF Lies
  <2> QED
    BY <1>1, <1>4, <2>1, <2>2 DEF Lies
<1>5. CASE c = "skip_newlines"
  <2>1. next \in {"do", "in", "for_in", "parse_pipeline", "parse_command"}
    BY <1>5, BelowFacts
  <2>2. \A a : ~Lies(a, c)
    BY <1>5 DEF Lies
  <2> QED
    BY <1>1, <1>5, <2>1, <2>2 DEF Lies
<1> QED
  BY <1>2, <1>3, <1>4, <1>5 DEF Passive, Enders

(* What returns on the tokens that end the others.                         *)
LEMMA EndersReturn ==
  ASSUME NEW a \in Enders
  PROVE  Returns(a, ";")
<1>1. ";" \notin WordTokens \union Redirections /\ ";" # "(" /\ ";" \notin {"&&", "||"} /\ ";" # "|"
  BY DEF WordTokens, Redirections, Reserved
<1> DEFINE t == ";"
<1>2. t \notin WordTokens \union Redirections /\ t # "(" /\ t \notin {"&&", "||"} /\ t # "|"
  BY <1>1
<1> HIDE DEF t
<1>3. CASE a \in Simple
  <2>1. Rule(a, t, 0) = SimpleRule(a, t)
    BY <1>3, RuleCases
  <2>2. SimpleRule(a, t) = Pass(<<>>)
    BY <1>2 DEF SimpleRule
  <2> QED
    BY <2>1, <2>2 DEF Returns, t
<1>4. CASE a \in {"pipeline_rest", "and_or_rest"}
  <2>1. Rule(a, t, 0) = PipelineRule(a, t)
    BY <1>4, RuleCases, ZenonT(60)
  <2>2. PipelineRule(a, t) = Pass(<<>>)
    BY <1>2, <1>4 DEF PipelineRule
  <2> QED
    BY <2>1, <2>2 DEF Returns, t
<1>5. CASE a \in {"leave", "trailing_redirects"}
  <2>1. Rule(a, t, 0) = Pass(<<>>)
    <3>1. Rule("leave", t, 0) = Pass(<<>>) /\ Rule("trailing_redirects", t, 0) = Pass(<<>>)
      BY <1>2, RuleCases, ZenonT(60)
    <3> QED
      BY <1>5, <3>1
  <2> QED
    BY <2>1 DEF Returns, t
<1> QED
  BY <1>3, <1>4, <1>5 DEF Enders

LEMMA ListReturns ==
  ASSUME NEW t \in ListEnd
  PROVE  Returns("parse_list", t)
<1>1. Rule("parse_list", t, 0) = ListRule("parse_list", t)
  BY RuleCases
<1>2. t # "newline"
  BY DEF ListEnd, End
<1>3. ListRule("parse_list", t) = Pass(<<>>)
  BY <1>2 DEF ListRule
<1> QED
  BY <1>1, <1>3 DEF Returns

LEMMA SkippingReturns ==
  ASSUME NEW t, t # "newline"
  PROVE  Returns("skip_newlines", t)
BY RuleCases DEF Returns

\* Ended by one token that they take.
Closed == {"separator", "parse_redirect", "parse_here_doc", "for_name", "for_in", "for_words", "case_word",
           "parse_case_arms", "arm_end", "branches", "in", "then", "do", "done", "fi", "}", ")"}

\* t ends c, and what lies on c returns on it.
EndedBy(t, c) ==
  /\ c \in DOMAIN Ending /\ Ending[c] = <<t>>
  /\ \A d : Rule(c, t, d) = Take(<<>>)
  /\ \A a : Lies(a, c) => Returns(a, t)

(* Ending, case by case.                                                   *)
LEMMA EndingIs ==
  /\ Closed \union Commands \subseteq DOMAIN Ending
  /\ \A c \in DOMAIN Ending :
       Ending[c] = CASE c = "parse_body" -> <<"x", ";">>
                     [] c \in {"separator", "for_in", "for_words"} -> <<";">>
                     [] c = "pattern_end" -> <<")">>
                     [] c \in {"parse_case_arms", "arm_end"} -> <<"esac">>
                     [] c = "branches" -> <<"fi">>
                     [] c \in Reserved \union {")"} -> <<c>>
                     [] OTHER -> <<"x">>
BY DEF Ending, Closed, Commands

LEMMA EndingTokens ==
  /\ \A c \in {"separator", "for_in", "for_words"} : Ending[c] = <<";">>
  /\ \A c \in {"for_name", "case_word"} \union Redirecting : Ending[c] = <<"x">>
  /\ \A c \in {"parse_case_arms", "arm_end"} : Ending[c] = <<"esac">>
  /\ \A c \in {"branches", "fi"} : Ending[c] = <<"fi">>
  /\ \A c \in {"in", "then", "do", "done", "}", ")"} : Ending[c] = <<c>>
  /\ \A c \in Commands \ {"parse_body"} : Ending[c] = <<"x">>
  /\ Ending["parse_body"] = <<"x", ";">>
<1>1. ASSUME NEW c \in {"separator", "for_in", "for_words"} PROVE Ending[c] = <<";">>
  <2>1. c \in DOMAIN Ending /\ c # "parse_body"
    BY EndingIs DEF Closed
  <2> QED
    BY <2>1, EndingIs DEF Reserved
<1>2. ASSUME NEW c \in {"for_name", "case_word"} \union Redirecting PROVE Ending[c] = <<"x">>
  <2>1. c \in DOMAIN Ending /\ c \notin Reserved
    BY EndingIs DEF Closed, Redirecting, Reserved
  <2> QED
    BY <2>1, EndingIs DEF Redirecting
<1>3. ASSUME NEW c \in {"parse_case_arms", "arm_end"} PROVE Ending[c] = <<"esac">>
  <2>1. c \in DOMAIN Ending /\ c \notin Reserved
    BY EndingIs DEF Closed, Reserved
  <2> QED
    BY <2>1, EndingIs DEF Reserved
<1>4. ASSUME NEW c \in {"branches", "fi"} PROVE Ending[c] = <<"fi">>
  <2>1. c \in DOMAIN Ending /\ (c = "fi" => c \in Reserved)
    BY EndingIs DEF Closed, Reserved
  <2> QED
    BY <2>1, EndingIs DEF Reserved
<1>5. ASSUME NEW c \in {"in", "then", "do", "done", "}", ")"} PROVE Ending[c] = <<c>>
  <2>1. c \in DOMAIN Ending /\ c \in Reserved \union {")"}
    BY EndingIs DEF Closed, Reserved
  <2> QED
    BY <2>1, EndingIs DEF Reserved
<1>6. ASSUME NEW c \in Commands \ {"parse_body"} PROVE Ending[c] = <<"x">>
  <2>1. c \in DOMAIN Ending /\ c \notin Reserved
    BY EndingIs DEF Commands, Reserved
  <2> QED
    BY <2>1, EndingIs DEF Commands
<1>7. Ending["parse_body"] = <<"x", ";">>
  <2>1. "parse_body" \in DOMAIN Ending
    BY EndingIs DEF Commands
  <2> QED
    BY <2>1, EndingIs DEF Reserved
<1> QED
  BY <1>1, <1>2, <1>3, <1>4, <1>5, <1>6, <1>7

LEMMA SeparatorEnds == EndedBy(";", "separator")
<1>1. "separator" \in DOMAIN Ending /\ Ending["separator"] = <<";">>
  BY EndingIs, EndingTokens DEF Closed
<1>5. \A t : t \in {";", "&"} => SeparatorRule(t) = Take(<<>>)
  BY DEF SeparatorRule, ListEnd, End
<1>2. SeparatorRule(";") = Take(<<>>)
  BY <1>5
<1>3. \A a : Lies(a, "separator") => a \in Enders
  BY DEF Lies
<1>4. \A d : Rule("separator", ";", d) = SeparatorRule(";")
  BY RuleCases
<1> QED
  BY <1>1, <1>2, <1>3, <1>4, EndersReturn DEF EndedBy

LEMMA ForEnds ==
  ASSUME NEW c \in {"for_in", "for_words"}
  PROVE  EndedBy(";", c)
<1>1. c \in DOMAIN Ending /\ Ending[c] = <<";">>
  BY EndingIs, EndingTokens DEF Closed, Redirecting
<1>2. ForRule(c, ";") = Take(<<>>)
  <2>1. ";" \notin WordTokens /\ ";" # "in"
    BY DEF WordTokens, Reserved
  <2>2. \A t : t = ";" /\ t \notin WordTokens /\ t # "in" => ForRule(c, t) = Take(<<>>)
    BY DEF ForRule, WordTokens, Reserved, End
  <2> QED
    BY <2>1, <2>2
<1>3. \A a : Lies(a, c) => a = "skip_newlines"
  BY DEF Lies
<1>4. \A d : Rule(c, ";", d) = ForRule(c, ";")
  BY RuleCases
<1>5. ";" # "newline"
  OBVIOUS
<1> QED
  BY <1>1, <1>2, <1>3, <1>4, <1>5, SkippingReturns DEF EndedBy

LEMMA WordEnds ==
  ASSUME NEW c \in {"for_name", "case_word"} \union Redirecting
  PROVE  EndedBy("x", c)
<1>1. c \in DOMAIN Ending /\ Ending[c] = <<"x">>
  BY EndingIs, EndingTokens DEF Closed, Redirecting
<1>2. WordRule(c, "x") = Take(<<>>)
  BY DEF WordRule, WordTokens, Names
<1>3. \A a : ~Lies(a, c)
  BY DEF Lies, Redirecting
<1>5. c \in {"for_name", "case_word", "case_pattern"} \union Redirecting
  OBVIOUS
<1>4. \A d : Rule(c, "x", d) = WordRule(c, "x")
  BY <1>5, RuleCases
<1> QED
  BY <1>1, <1>2, <1>3, <1>4 DEF EndedBy

LEMMA ArmsEnd ==
  ASSUME NEW c \in {"parse_case_arms", "arm_end"}
  PROVE  EndedBy("esac", c)
<1>1. c \in DOMAIN Ending /\ Ending[c] = <<"esac">>
  BY EndingIs, EndingTokens DEF Closed, Redirecting
<1>2. CaseRule(c, "esac") = Take(<<>>)
  BY DEF CaseRule, Expect
<1>3. \A a : Lies(a, c) => a = "parse_list"
  BY DEF Lies
<1>4. \A d : Rule(c, "esac", d) = CaseRule(c, "esac")
  BY RuleCases, ZenonT(60) DEF Arms
<1>5. "esac" \in ListEnd
  BY DEF ListEnd
<1> QED
  BY <1>1, <1>2, <1>3, <1>4, <1>5, ListReturns DEF EndedBy

LEMMA BranchesEnd ==
  ASSUME NEW c \in {"branches", "fi"}
  PROVE  EndedBy("fi", c)
<1>1. c \in DOMAIN Ending /\ Ending[c] = <<"fi">>
  BY EndingIs, EndingTokens DEF Closed, Redirecting
<1>2. BranchRule(c, "fi") = Take(<<>>)
  BY DEF BranchRule, Expect
<1>3. \A a : Lies(a, c) => a = "parse_list"
  BY DEF Lies
<1>4. \A d : Rule(c, "fi", d) = BranchRule(c, "fi")
  BY RuleCases
<1>5. "fi" \in ListEnd
  BY DEF ListEnd
<1> QED
  BY <1>1, <1>2, <1>3, <1>4, <1>5, ListReturns DEF EndedBy

LEMMA ExpectedEnds ==
  ASSUME NEW c \in {"in", "then", "do", "done", "}", ")"}
  PROVE  EndedBy(c, c)
<1>1. c \in DOMAIN Ending /\ Ending[c] = <<c>>
  BY EndingIs, EndingTokens DEF Closed, Redirecting
<1>2. Expect(c, c) = Take(<<>>)
  BY DEF Expect
<1>3. \A a : Lies(a, c) => (a = "parse_list" /\ c \in ListEnd) \/ a = "skip_newlines"
  BY DEF Lies, ListEnd
<1>4. \A d : Rule(c, c, d) = Expect(c, c)
  BY RuleCases
<1>5. c # "newline"
  OBVIOUS
<1> QED
  BY <1>1, <1>2, <1>3, <1>4, <1>5, ListReturns, SkippingReturns DEF EndedBy

(* Each of them has its token.                                             *)
LEMMA ClosedEnds ==
  ASSUME NEW c \in Closed
  PROVE  \E t : EndedBy(t, c)
<1>1. \/ c = "separator" \/ c \in {"for_in", "for_words"} \/ c \in {"for_name", "case_word"} \union Redirecting
      \/ c \in {"parse_case_arms", "arm_end"} \/ c \in {"branches", "fi"}
      \/ c \in {"in", "then", "do", "done", "}", ")"}
  BY DEF Closed, Redirecting
<1> QED
  BY <1>1, SeparatorEnds, ForEnds, WordEnds, ArmsEnd, BranchesEnd, ExpectedEnds

(* What a word leaves behind lies on the calls beneath.                    *)
LEMMA CommandEnds ==
  ASSUME NEW c \in Commands
  PROVE  /\ c \in DOMAIN Ending
         /\ Ending[c] = (IF c = "parse_body" THEN <<"x", ";">> ELSE <<"x">>)
         /\ \A a : Lies(a, c) => Returns(a, "x")
<1>1. c \in DOMAIN Ending /\ Ending[c] = (IF c = "parse_body" THEN <<"x", ";">> ELSE <<"x">>)
  BY EndingIs, EndingTokens DEF Commands
<1>2. \A a : Lies(a, c) => a = "skip_newlines"
  BY DEF Lies, Commands
<1>3. "x" # "newline"
  OBVIOUS
<1> QED
  BY <1>1, <1>2, <1>3, SkippingReturns

-----------------------------------------------------------------------------
(* One call is ended after the other.                                      *)

\* What `Finished' does with one of the calls, and all the tokens that end it.
EndOne(ctx, q, symbol) ==
  IF symbol \in DOMAIN Ending THEN FoldLeft(Shift, q, Ending[symbol]) ELSE q

Finishing == INSTANCE Folding WITH Op <- EndOne

(* Both folds of Finished are folds of one step.                           *)
LEMMA EndingFolds ==
  ASSUME NEW q, NEW seq
  PROVE  FoldLeft(Shift, q, seq) = Shifting!Fold(0, q, seq)
BY DEF ShiftOne, FoldLeft, MapThenFoldSet, Max, Shifting!Fold, Shifting!FoldLeft,
       Shifting!MapThenFoldSet, Shifting!Max

LEMMA FinishedFolds ==
  ASSUME NEW p
  PROVE  Finished(p) = Finishing!Fold(0, p, p.stack)
BY DEF Finished, EndOne, FoldLeft, MapThenFoldSet, Max, Finishing!Fold, Finishing!FoldLeft,
       Finishing!MapThenFoldSet, Finishing!Max

LEMMA ShiftsOne ==
  ASSUME NEW q, NEW t
  PROVE  FoldLeft(Shift, q, <<t>>) = Shift(q, t)
<1>1. <<t>> \in Seq({t}) /\ Len(<<t>>) = 1 /\ <<t>>[1] = t
  OBVIOUS
<1> DEFINE seq == <<t>>
<1>2. seq \in Seq({t}) /\ Len(seq) = 1 /\ seq[1] = t
  BY <1>1
<1> HIDE DEF seq
<1>3. PICK h : /\ h[0] = q
               /\ \A i \in 1 .. Len(seq) : h[i] = ShiftOne(0, h[i - 1], seq[i])
               /\ Shifting!Fold(0, q, seq) = h[Len(seq)]
  BY <1>2, Shifting!FoldTrace
<1>4. 1 \in 1 .. Len(seq) /\ 1 - 1 = 0
  BY <1>2
<1>5. h[1] = Shift(q, t)
  BY <1>2, <1>3, <1>4 DEF ShiftOne
<1>6. FoldLeft(Shift, q, seq) = h[1]
  BY <1>2, <1>3, EndingFolds
<1> QED
  BY <1>5, <1>6 DEF seq

LEMMA ShiftsTwo ==
  ASSUME NEW q, NEW D, NEW seq \in Seq(D), Len(seq) = 2
  PROVE  FoldLeft(Shift, q, seq) = Shift(Shift(q, seq[1]), seq[2])
<1>1. PICK h : /\ h[0] = q
               /\ \A i \in 1 .. Len(seq) : h[i] = ShiftOne(0, h[i - 1], seq[i])
               /\ Shifting!Fold(0, q, seq) = h[Len(seq)]
  BY Shifting!FoldTrace
<1>2. 1 \in 1 .. Len(seq) /\ 1 - 1 = 0 /\ 2 \in 1 .. Len(seq) /\ 2 - 1 = 1
  OBVIOUS
<1>3. h[1] = Shift(q, seq[1]) /\ h[2] = Shift(h[1], seq[2])
  BY <1>1, <1>2 DEF ShiftOne
<1>4. FoldLeft(Shift, q, seq) = h[2]
  BY <1>1, EndingFolds
<1> QED
  BY <1>3, <1>4

(* The text has been ended up to the calls in rest: all that is still on   *)
(* top of them returns by itself.                                          *)
Ended(q, rest) ==
  /\ q \in ParseType /\ ~q.failed /\ rest \in Seq(Symbols) /\ rest # <<>>
  /\ \E r \in Seq(Symbols) : /\ \A n \in 1 .. Len(r) : Lies(r[n], rest[1])
                             /\ q.stack = r \o rest

LEMMA LiesOne ==
  ASSUME NEW c \in Symbols, NEW next, Lies(c, next)
  PROVE  <<c>> \in Seq(Symbols) /\ \A n \in 1 .. Len(<<c>>) : Lies(<<c>>[n], next)
<1>1. <<c>> \in Seq(Symbols) /\ Len(<<c>>) = 1 /\ <<c>>[1] = c
  OBVIOUS
<1> DEFINE seq == <<c>>
<1>2. Len(seq) = 1 /\ seq[1] = c
  BY <1>1
<1> HIDE DEF seq
<1>3. \A n \in 1 .. Len(seq) : n = 1
  BY <1>2
<1> QED
  BY <1>1, <1>2, <1>3 DEF seq

(* What lies on a call may be put together.                                *)
LEMMA LiesJoin ==
  ASSUME NEW next, NEW a \in Seq(Symbols), NEW b \in Seq(Symbols),
         \A n \in 1 .. Len(a) : Lies(a[n], next), \A n \in 1 .. Len(b) : Lies(b[n], next)
  PROVE  a \o b \in Seq(Symbols) /\ \A n \in 1 .. Len(a \o b) : Lies((a \o b)[n], next)
<1> DEFINE all == a \o b
           k == Len(a)
           l == Len(b)
<1>1. /\ all \in Seq(Symbols) /\ Len(all) = k + l /\ k \in Nat /\ l \in Nat
      /\ \A n \in 1 .. k + l : all[n] = IF n <= k THEN a[n] ELSE b[n - k]
  BY ConcatProperties
<1> HIDE DEF all, k, l
<1>2. ASSUME NEW n \in 1 .. k + l PROVE Lies(all[n], next)
  <2>1. CASE n <= k
    <3>1. n \in 1 .. k /\ all[n] = a[n]
      BY <1>1, <2>1
    <3> QED
      BY <3>1 DEF k
  <2>2. CASE ~(n <= k)
    <3>1. n - k \in 1 .. l /\ all[n] = b[n - k]
      BY <1>1, <2>2
    <3> QED
      BY <3>1 DEF l
  <2> QED
    BY <2>1, <2>2
<1> QED
  BY <1>1, <1>2 DEF all

LEMMA LiesThree ==
  ASSUME NEW next \in {"separator", "and_or_rest", "pipeline_rest", "leave"}
  PROVE  \A a \in {"first_word", "pipeline_rest", "and_or_rest"} : Lies(a, next)
BY DEF Lies, Enders, Simple

(* What a word has left of a command lies on what is beneath.              *)
LEMMA MadeLies ==
  ASSUME NEW c \in Commands, c # "parse_body", NEW next \in Below(c)
  PROVE  Made(c) \in Seq(Symbols) /\ \A n \in 1 .. Len(Made(c)) : Lies(Made(c)[n], next)
<1> DEFINE S == {"first_word", "pipeline_rest", "and_or_rest"}
<1>1. S \subseteq Symbols
  BY DEF Symbols, Simple
<1>2. next \in {"separator", "and_or_rest", "pipeline_rest", "leave"}
  <2>1. /\ Below("parse_command") = {"pipeline_rest", "leave"}
        /\ Below("parse_pipeline") = {"and_or_rest"} /\ Below("parse_and_or") = {"separator"}
    BY BelowFacts
  <2> QED
    BY <2>1 DEF Commands
<1>3. Made(c) \in Seq(S)
  <2>1. <<"first_word">> \in Seq(S) /\ <<"first_word", "pipeline_rest">> \in Seq(S)
        /\ <<"first_word", "pipeline_rest", "and_or_rest">> \in Seq(S)
    OBVIOUS
  <2> HIDE DEF S
  <2> QED
    BY <2>1 DEF Made, Commands
<1>4. \A a \in S : Lies(a, next)
  BY <1>2, LiesThree
<1> HIDE DEF S
<1>5. \A n \in 1 .. Len(Made(c)) : Made(c)[n] \in S
  BY <1>3
<1>6. Made(c) \in Seq(Symbols)
  BY <1>1, <1>3
<1> QED
  BY <1>4, <1>5, <1>6

(* One of the calls after the other.                                       *)
LEMMA EndPassive ==
  ASSUME NEW q, NEW rest, Ended(q, rest), rest[1] \in Passive, Tail(rest) # <<>>,
         Tail(rest)[1] \in Below(rest[1])
  PROVE  Ended(EndOne(0, q, rest[1]), Tail(rest))
<1> DEFINE c == rest[1]
           tail == Tail(rest)
<1>1. /\ q \in ParseType /\ ~q.failed /\ rest \in Seq(Symbols) /\ rest # <<>>
      /\ rest = <<c>> \o tail /\ c \in Symbols /\ tail \in Seq(Symbols)
  BY FirstIs, HeadTailProperties DEF Ended
<1>2. PICK r \in Seq(Symbols) : (\A n \in 1 .. Len(r) : Lies(r[n], c)) /\ q.stack = r \o rest
  BY DEF Ended
<1> DEFINE next == tail[1]
<1>3. c \notin DOMAIN Ending /\ Lies(c, next) /\ \A a : Lies(a, c) => Lies(a, next)
  BY PassiveLies
<1> HIDE DEF c, tail, next
<1>4. EndOne(0, q, c) = q
  BY <1>3 DEF EndOne
<1> DEFINE one == <<c>>
           all == r \o one
<1>5. one \in Seq(Symbols) /\ \A n \in 1 .. Len(one) : Lies(one[n], next)
  BY <1>1, <1>3, LiesOne
<1>6. \A n \in 1 .. Len(r) : Lies(r[n], next)
  BY <1>2, <1>3
<1>7. rest = one \o tail
  BY <1>1
<1> HIDE DEF one
<1>8. all \in Seq(Symbols) /\ \A n \in 1 .. Len(all) : Lies(all[n], next)
  BY <1>5, <1>6, LiesJoin
<1>9. q.stack = all \o tail
  <2>1. (r \o one) \o tail = r \o (one \o tail)
    <3>1. r \in Seq(Symbols) /\ one \in Seq(Symbols) /\ tail \in Seq(Symbols)
      BY <1>1, <1>5
    <3> QED
      BY <3>1, JoinAgain
  <2> QED
    BY <1>2, <1>7, <2>1
<1> HIDE DEF all
<1>10. Ended(q, tail)
  BY <1>1, <1>8, <1>9 DEF Ended, next, tail
<1> QED
  BY <1>4, <1>10 DEF c, tail

(* What lies on top returns on the token that ends the call beneath.       *)
LEMMA OverEnded ==
  ASSUME NEW q, NEW rest, Ended(q, rest), NEW t, \A a : Lies(a, rest[1]) => Returns(a, t)
  PROVE  \E r : Over(q, r, rest, t)
BY DEF Ended, Over

(* Nothing is on top.                                                      *)
LEMMA NothingOn ==
  ASSUME NEW q, NEW rest, q \in ParseType, ~q.failed, rest \in Seq(Symbols), rest # <<>>, q.stack = rest
  PROVE  Ended(q, rest)
<1> DEFINE none == <<>>
<1>1. none \in Seq(Symbols) /\ Len(none) = 0
  OBVIOUS
<1>2. none \o rest = rest
  BY NoneBefore
<1> HIDE DEF none
<1>3. \A n \in 1 .. Len(none) : Lies(none[n], rest[1])
  BY <1>1
<1> QED
  BY <1>1, <1>2, <1>3 DEF Ended

(* A call that a token ends: nothing is left on the next.                  *)
LEMMA EndClosed ==
  ASSUME NEW q, NEW rest, Ended(q, rest), rest[1] \in Closed, Tail(rest) # <<>>
  PROVE  Ended(EndOne(0, q, rest[1]), Tail(rest))
<1> DEFINE c == rest[1]
<1>1. PICK t : EndedBy(t, c)
  BY ClosedEnds
<1>2. c \in DOMAIN Ending /\ Ending[c] = <<t>> /\ (\A d : Rule(c, t, d) = Take(<<>>))
      /\ \A a : Lies(a, c) => Returns(a, t)
  BY <1>1 DEF EndedBy
<1>3. EndOne(0, q, c) = Shift(q, t)
  BY <1>2, ShiftsOne DEF EndOne
<1>4. PICK r : Over(q, r, rest, t)
  BY <1>2, OverEnded
<1>5. Shift(q, t) \in ParseType /\ ~Shift(q, t).failed /\ Shift(q, t).stack = Tail(rest)
  BY <1>2, <1>4, ShiftEnding
<1>6. Tail(rest) \in Seq(Symbols)
  BY HeadTailProperties DEF Ended
<1>7. Ended(Shift(q, t), Tail(rest))
  BY <1>5, <1>6, NothingOn
<1> QED
  BY <1>3, <1>7

(* A command that is looked for: a word is left, which ends by itself.     *)
LEMMA EndCommand ==
  ASSUME NEW q, NEW rest, Ended(q, rest), rest[1] \in Commands \ {"parse_body"}, Tail(rest) # <<>>,
         Tail(rest)[1] \in Below(rest[1])
  PROVE  Ended(EndOne(0, q, rest[1]), Tail(rest))
<1> DEFINE c == rest[1]
<1>1. c \in DOMAIN Ending /\ Ending[c] = <<"x">> /\ \A a : Lies(a, c) => Returns(a, "x")
  BY CommandEnds, EndingTokens
<1>2. EndOne(0, q, c) = Shift(q, "x")
  BY <1>1, ShiftsOne DEF EndOne
<1>3. PICK r : Over(q, r, rest, "x")
  BY <1>1, OverEnded
<1>4. Shift(q, "x") \in ParseType /\ ~Shift(q, "x").failed /\ Shift(q, "x").stack = Made(c) \o Tail(rest)
  BY <1>3, ShiftWord
<1>5. Made(c) \in Seq(Symbols) /\ \A n \in 1 .. Len(Made(c)) : Lies(Made(c)[n], Tail(rest)[1])
  BY MadeLies
<1>6. Tail(rest) \in Seq(Symbols)
  BY HeadTailProperties DEF Ended
<1>7. Ended(Shift(q, "x"), Tail(rest))
  BY <1>4, <1>5, <1>6 DEF Ended
<1> QED
  BY <1>2, <1>7

(* A word and a separator end a list that has to have a command.           *)
LEMMA BodyMade ==
  /\ Made("parse_body") = <<"first_word", "pipeline_rest", "and_or_rest">> \o <<"separator", "parse_list">>
  /\ <<"first_word", "pipeline_rest", "and_or_rest">> \in Seq(Symbols)
  /\ <<"separator", "parse_list">> \in Seq(Symbols) /\ <<"separator", "parse_list">> # <<>>
  /\ <<"separator", "parse_list">>[1] = "separator" /\ Tail(<<"separator", "parse_list">>) = <<"parse_list">>
<1>0. {"separator", "parse_list", "and_or_rest", "pipeline_rest", "first_word"} \subseteq Symbols
  BY DEF Symbols, Simple
<1> DEFINE a == <<"first_word", "pipeline_rest">>
           b == <<"and_or_rest">>
           two == <<"separator", "parse_list">>
<1>1. a \in Seq(Symbols) /\ b \in Seq(Symbols) /\ two \in Seq(Symbols)
  BY <1>0, Tuple1, Tuple2
<1>2. a \o b = <<"first_word", "pipeline_rest", "and_or_rest">>
  BY <1>0, Joint3
<1>3. b \o two = <<"and_or_rest", "separator", "parse_list">>
  BY <1>0, Join3
<1>4. a \o <<"and_or_rest", "separator", "parse_list">>
        = <<"first_word", "pipeline_rest", "and_or_rest", "separator", "parse_list">>
  BY <1>0, Joint5
<1>5. (a \o b) \o two = a \o (b \o two)
  <2> HIDE DEF a, b, two
  <2> QED
    BY <1>1, ConcatAssociative
<1>6. Made("parse_body") = <<"first_word", "pipeline_rest", "and_or_rest", "separator", "parse_list">>
  BY DEF Made
<1>7. <<"first_word", "pipeline_rest", "and_or_rest">> \in Seq(Symbols)
  BY <1>0, Tuple3
<1>8. two # <<>> /\ two[1] = "separator" /\ Tail(two) = <<"parse_list">>
  BY <1>0, Tuple2
<1> QED
  BY <1>1, <1>2, <1>3, <1>4, <1>5, <1>6, <1>7, <1>8

LEMMA EndsInTwo ==
  ASSUME NEW q, NEW c, NEW t, NEW u, c \in DOMAIN Ending, Ending[c] = <<t, u>>
  PROVE  EndOne(0, q, c) = Shift(Shift(q, t), u)
<1> DEFINE seq == Ending[c]
<1>1. seq \in Seq({t, u}) /\ Len(seq) = 2 /\ seq[1] = t /\ seq[2] = u
  OBVIOUS
<1>2. EndOne(0, q, c) = FoldLeft(Shift, q, seq)
  BY DEF EndOne
<1> HIDE DEF seq
<1>3. FoldLeft(Shift, q, seq) = Shift(Shift(q, seq[1]), seq[2])
  BY <1>1, ShiftsTwo
<1> QED
  BY <1>1, <1>2, <1>3

(* A list that has to have a command: the separator leaves the list to be  *)
(* ended by the next.                                                      *)
LEMMA EndBody ==
  ASSUME NEW q, NEW rest, Ended(q, rest), rest[1] = "parse_body", Tail(rest) # <<>>,
         Tail(rest)[1] \in Below("parse_body")
  PROVE  Ended(EndOne(0, q, rest[1]), Tail(rest))
<1> DEFINE tail == Tail(rest)
           three == <<"first_word", "pipeline_rest", "and_or_rest">>
           two == <<"separator", "parse_list">>
           rest2 == two \o tail
           q1 == Shift(q, "x")
           q2 == Shift(q1, ";")
<1>1. /\ "parse_body" \in DOMAIN Ending /\ Ending["parse_body"] = <<"x", ";">>
      /\ \A a : Lies(a, "parse_body") => Returns(a, "x")
  BY CommandEnds, EndingTokens DEF Commands
<1>2. EndOne(0, q, "parse_body") = q2
  <2>1. "parse_body" \in DOMAIN Ending
    BY <1>1
  <2>2. Ending["parse_body"] = <<"x", ";">>
    BY <1>1
  <2>3. \A d, t, u : d \in DOMAIN Ending /\ Ending[d] = <<t, u>> => EndOne(0, q, d) = Shift(Shift(q, t), u)
    BY EndsInTwo
  <2> QED
    BY <2>1, <2>2, <2>3
<1>3. PICK r : Over(q, r, rest, "x")
  BY <1>1, OverEnded
<1>4. q1 \in ParseType /\ ~q1.failed /\ q1.stack = Made("parse_body") \o tail
  BY <1>3, ShiftWord DEF Commands
<1>5. tail \in Seq(Symbols)
  BY HeadTailProperties DEF Ended
<1>6. /\ three \in Seq(Symbols) /\ two \in Seq(Symbols) /\ two # <<>> /\ two[1] = "separator"
      /\ Tail(two) = <<"parse_list">> /\ Made("parse_body") = three \o two
  BY BodyMade
<1>7. \A n \in 1 .. Len(three) : Returns(three[n], ";")
  <2>1. \A a \in {"first_word", "pipeline_rest", "and_or_rest"} : Returns(a, ";")
    BY EndersReturn DEF Enders, Simple
  <2> DEFINE S == {"first_word", "pipeline_rest", "and_or_rest"}
  <2>2. three \in Seq(S)
    OBVIOUS
  <2> HIDE DEF S, three
  <2>3. \A n \in 1 .. Len(three) : three[n] \in S
    BY <2>2
  <2> QED
    BY <2>1, <2>3 DEF S
<1> HIDE DEF three, two, tail
<1>8. /\ rest2 \in Seq(Symbols) /\ rest2 # <<>> /\ rest2[1] = "separator"
      /\ Tail(rest2) = <<"parse_list">> \o tail
  <2>1. /\ two \o tail \in Seq(Symbols) /\ two \o tail # <<>> /\ (two \o tail)[1] = two[1]
        /\ Tail(two \o tail) = Tail(two) \o tail
    BY <1>5, <1>6, FrontOf, SMTT(30)
  <2> QED
    BY <1>6, <2>1
<1>9. (three \o two) \o tail = three \o (two \o tail)
  BY <1>5, <1>6, JoinAgain
<1> HIDE DEF rest2, q1, q2
<1>10. q1.stack = three \o rest2
  BY <1>4, <1>6, <1>9 DEF rest2
<1>11. Over(q1, three, rest2, ";")
  BY <1>4, <1>6, <1>7, <1>8, <1>10 DEF Over
<1>12. \A d : Rule(rest2[1], ";", d) = Take(<<>>)
  BY <1>8, SeparatorEnds DEF EndedBy
<1>13. q2 \in ParseType /\ ~q2.failed /\ q2.stack = Tail(rest2)
  BY <1>11, <1>12, ShiftEnding DEF q2
<1>14. Lies("parse_list", tail[1])
  <2>1. tail[1] \in Below("parse_list")
    BY BelowFacts DEF tail
  <2> QED
    BY <2>1, PassiveLies DEF Passive
<1>15. "parse_list" \in Symbols
  BY DEF Symbols
<1>16. tail # <<>>
  BY DEF tail
<1> DEFINE one == <<"parse_list">>
<1>17. one \in Seq(Symbols) /\ \A n \in 1 .. Len(one) : Lies(one[n], tail[1])
  BY <1>14, <1>15, LiesOne
<1> HIDE DEF one
<1>18. q2.stack = one \o tail
  BY <1>8, <1>13 DEF one
<1>19. Ended(q2, tail)
  BY <1>5, <1>13, <1>16, <1>17, <1>18 DEF Ended
<1> QED
  BY <1>2, <1>19 DEF tail

(* In any case the next call can be ended.                                 *)
LEMMA EndStep ==
  ASSUME NEW q, NEW rest, Ended(q, rest), Tail(rest) # <<>>, Tail(rest)[1] \in Below(rest[1]),
         rest[1] \notin {"pattern_end", "case_pattern", "parse_function"}
  PROVE  Ended(EndOne(0, q, rest[1]), Tail(rest))
<1>1. rest[1] \in Symbols
  BY HeadTailProperties DEF Ended
<1>2. rest[1] # "top_level"
  BY BelowFacts
<1>3. \A c \in Symbols \ {"pattern_end", "case_pattern", "parse_function", "top_level"} :
        c \in Passive \union Closed \union Commands
  BY DEF Symbols, Passive, Enders, Closed, Commands, Arms, Redirecting, Simple
<1>4. rest[1] \in Passive \union Closed \union Commands
  BY <1>1, <1>2, <1>3
<1> QED
  BY <1>4, EndPassive, EndClosed, EndCommand, EndBody

(* What has been ended down to the list of the whole text is complete.     *)
LEMMA EndedComplete ==
  ASSUME NEW q, NEW rest, Ended(q, rest), Len(rest) = 1, rest[1] = "top_level"
  PROVE  Verdict(q) = "complete"
<1>1. PICK r \in Seq(Symbols) : (\A n \in 1 .. Len(r) : Lies(r[n], "top_level")) /\ q.stack = r \o rest
  BY DEF Ended
<1>2. \A a : ~Lies(a, "top_level")
  BY DEF Lies
<1>3. Len(r) = 0
  <2>1. Len(r) \in Nat
    OBVIOUS
  <2> SUFFICES ASSUME Len(r) # 0 PROVE FALSE
    OBVIOUS
  <2>2. 1 \in 1 .. Len(r)
    BY <2>1
  <2> QED
    BY <1>1, <1>2, <2>2
<1>4. q \in ParseType /\ ~q.failed /\ rest \in Seq(Symbols)
  BY DEF Ended
<1>5. q.stack \in Seq(Symbols) /\ Len(q.stack) = 1 /\ q.stack[1] = "top_level"
  <2>1. /\ r \o rest \in Seq(Symbols) /\ Len(r \o rest) = Len(r) + Len(rest)
        /\ \A n \in 1 .. Len(r) + Len(rest) :
             (r \o rest)[n] = IF n <= Len(r) THEN r[n] ELSE rest[n - Len(r)]
    BY <1>4, ConcatProperties
  <2> DEFINE all == r \o rest
  <2> HIDE DEF all
  <2>2. Len(all) = 1 /\ all \in Seq(Symbols)
    BY <1>3, <2>1 DEF all
  <2>3. all[1] = rest[1]
    <3>1. 1 \in 1 .. Len(r) + Len(rest) /\ ~(1 <= Len(r)) /\ 1 - Len(r) = 1
      BY <1>3
    <3> QED
      BY <2>1, <3>1 DEF all
  <2> QED
    BY <1>1, <2>2, <2>3 DEF all
<1>6. Returns("top_level", End)
  <2>1. Rule("top_level", End, 0) = ListRule("top_level", End)
    BY RuleCases
  <2>2. End \in ListEnd /\ End # "newline"
    BY DEF ListEnd, End
  <2>3. ListRule("top_level", End) = Pass(<<>>)
    BY <2>2 DEF ListRule
  <2> QED
    BY <2>1, <2>3 DEF Returns
<1>7. Staying(q, End) = {}
  <2>1. \A n \in DOMAIN q.stack : n = 1
    BY <1>5
  <2> QED
    BY <1>5, <1>6, <2>1 DEF Staying
<1>8. Reached(q, End).stack = <<>>
  BY <1>4, <1>7, ReachedIs
<1> QED
  BY <1>4, <1>8 DEF Verdict, EndVerdict

(* A text that is taken for unfinished can be finished.                    *)
LEMMA FinishedComplete ==
  ASSUME NEW p, Parsed(p), Verdict(p) = "incomplete"
  PROVE  Verdict(Finished(p)) = "complete"
<1> DEFINE stack == p.stack
           l == Len(stack)
           From(i) == SubSeq(stack, i + 1, l)
<1>1. ~p.failed /\ p \in ParseType /\ Shape(stack)
  BY WhenRejected DEF Parsed
<1>2. /\ stack \in Seq(Symbols) /\ stack # <<>> /\ l \in Nat /\ l > 0 /\ stack[l] = "top_level"
      /\ \A n \in 1 .. l - 1 : stack[n + 1] \in Below(stack[n])
  BY <1>1, ShapeTop DEF Shape
<1>3. PICK h : /\ h[0] = p
               /\ \A i \in 1 .. l : h[i] = EndOne(0, h[i - 1], stack[i])
               /\ Finishing!Fold(0, p, stack) = h[l]
  BY <1>2, Finishing!FoldTrace
<1>4. Finished(p) = h[l]
  BY <1>3, FinishedFolds
<1>5. \A i \in 0 .. l - 1 : From(i)[1] = stack[i + 1] /\ Len(From(i)) = l - i
                            /\ (i + 1 < l => Tail(From(i)) = SubSeq(stack, i + 2, l))
                            /\ (i = 0 => From(i) = stack)
  BY <1>1, RestOf
<1>6. \A n \in 1 .. l : stack[n] \notin {"pattern_end", "case_pattern", "parse_function"}
  BY NoPatternOpen
<1> HIDE DEF stack, l, From
<1> DEFINE Good == {i \in 0 .. l - 1 : Ended(h[i], From(i))}
<1>7. 0 \in Good
  <2>1. From(0) = stack /\ 0 \in 0 .. l - 1
    BY <1>2, <1>5
  <2>2. Ended(p, stack)
    BY <1>1, <1>2, NothingOn DEF stack
  <2> QED
    BY <1>3, <2>1, <2>2
<1>8. ASSUME NEW i \in 1 .. l - 1, i - 1 \in Good PROVE i \in Good
  <2> DEFINE m == i - 1
             rest == From(m)
  <2>1. m \in 0 .. l - 1 /\ m + 1 = i /\ m + 2 = i + 1 /\ m + 1 < l /\ i \in 1 .. l /\ i \in 0 .. l - 1
    BY <1>2
  <2>2. Ended(h[m], rest)
    BY <1>8
  <2> HIDE DEF m, Good
  <2>3. rest[1] = stack[i] /\ Tail(rest) = From(i)
    BY <1>5, <2>1 DEF From
  <2>4. From(i)[1] = stack[i + 1] /\ Len(From(i)) = l - i
    BY <1>5, <2>1
  <2>5. Tail(rest) # <<>>
    <3>1. Len(From(i)) # 0 /\ Len(<<>>) = 0
      BY <1>2, <2>1, <2>4
    <3> QED
      BY <2>3, <3>1
  <2>6. Tail(rest)[1] \in Below(rest[1])
    BY <1>2, <2>3, <2>4
  <2>7. rest[1] \notin {"pattern_end", "case_pattern", "parse_function"}
    BY <1>6, <2>1, <2>3
  <2> HIDE DEF rest
  <2>8. Ended(EndOne(0, h[m], rest[1]), Tail(rest))
    BY <2>2, <2>5, <2>6, <2>7, EndStep
  <2>9. h[i] = EndOne(0, h[m], stack[i])
    BY <1>3, <2>1 DEF m
  <2> QED
    BY <2>1, <2>3, <2>8, <2>9 DEF Good
<1>9. l - 1 \in Nat /\ l - 1 \in 0 .. l - 1
  BY <1>2
<1>10. \A i \in 0 .. l - 1 : i \in Good
  <2> HIDE DEF Good
  <2> QED
    BY <1>7, <1>8, <1>9, Shifting!UpTo
<1> DEFINE k == l - 1
<1>11. Ended(h[k], From(k)) /\ From(k)[1] = "top_level" /\ Len(From(k)) = 1
  <2>1. k + 1 = l /\ l - k = 1 /\ k \in 0 .. l - 1
    BY <1>2
  <2>2. From(k)[1] = stack[k + 1] /\ Len(From(k)) = l - k
    BY <1>5, <2>1
  <2>3. Ended(h[k], From(k))
    BY <1>10, <2>1
  <2> QED
    BY <1>2, <2>1, <2>2, <2>3
<1>12. h[l] = h[k]
  <2>1. l \in 1 .. l
    BY <1>2
  <2>2. h[l] = EndOne(0, h[k], "top_level")
    BY <1>2, <1>3, <2>1
  <2>3. "top_level" \notin DOMAIN Ending
    BY DEF Ending
  <2> QED
    BY <2>2, <2>3 DEF EndOne
<1> HIDE DEF k
<1>13. Verdict(h[k]) = "complete"
  BY <1>11, EndedComplete
<1> QED
  BY <1>4, <1>12, <1>13

-----------------------------------------------------------------------------
(* Lines.                                                                  *)

LEMMA DecideKeepsParsed ==
  ASSUME NEW p, Parsed(p), NEW s, NEW unread, Decide(p, s, unread)
  PROVE  Parsed(parse)'
<1>1. parse' = IF LineResult(p, unread, FALSE) = "incomplete" THEN p ELSE Start
  BY DEF Decide
<1>2. Parsed(parse')
  BY <1>1, StartParsed
<1> QED
  BY <1>2 DEF Parsed

(* No step of the reader disturbs the parse.                               *)
LEMMA LinesParsed ==
  ASSUME Parsed(parse), [LinesNext]_lines
  PROVE  Parsed(parse)'
<1>1. ASSUME NEW t \in Tokens \ {"newline"}, Token(t) PROVE Parsed(parse)'
  <2>1. parse' = Shift(parse, t)
    BY <1>1 DEF Token
  <2>2. Parsed(Shift(parse, t))
    BY ShiftParsed
  <2> QED
    BY <2>1, <2>2 DEF Parsed
<1>2. ASSUME LineEnding PROVE Parsed(parse)'
  <2>1. Parsed(Shift(parse, "newline"))
    BY NewlineIs, ShiftParsed
  <2> QED
    BY <1>2, <2>1, DecideKeepsParsed DEF LineEnding
<1>3. ASSUME NEW line, BodyLine(line) PROVE Parsed(parse)'
  BY <1>3, DecideKeepsParsed DEF BodyLine
<1>4. ASSUME EndOfInput PROVE Parsed(parse)'
  BY <1>4 DEF EndOfInput, Parsed
<1>5. ASSUME UNCHANGED lines PROVE Parsed(parse)'
  BY <1>5 DEF lines, Parsed
<1> QED
  BY <1>1, <1>2, <1>3, <1>4, <1>5 DEF LinesNext

(* UnfinishedCanBeFinished, for every MAX_DEPTH and every text: at a line  *)
(* ending a text that has had no wrong token is complete or unfinished,    *)
(* and what is taken for unfinished (Verdict) has an end that completes    *)
(* it. This is `linebreak_at' of parser/mod.rs: skip_newlines is called at *)
(* all the places where a text may go on, and at no other.                 *)
THEOREM UnfinishedEnds == LinesSpec => []UnfinishedCanBeFinished
<1>1. LinesInit => Parsed(parse)
  BY StartParsed DEF LinesInit, NothingPending
<1>2. Parsed(parse) /\ [LinesNext]_lines => Parsed(parse)'
  BY LinesParsed
<1>3. Parsed(parse) => UnfinishedCanBeFinished
  BY LineEnds, FinishedComplete DEF UnfinishedCanBeFinished
<1> QED
  BY <1>1, <1>2, <1>3, PTL DEF LinesSpec

-----------------------------------------------------------------------------
(* The scanner.                                                            *)

(* The parentheses and cases that are open do not end without their token. *)
LEMMA OpenersStay ==
  ASSUME NEW symbol \in {")"} \union Arms, NEW t
  PROVE  ~Returns(symbol, t)
<1>1. ASSUME NEW symbols PROVE Pass(<<>>) # Take(symbols) /\ Pass(<<>>) # Fail
  BY Kinds
<1>2. CASE symbol = ")"
  <2>1. Rule(symbol, t, 0) = Expect(symbol, t)
    BY <1>2, RuleCases
  <2> QED
    BY <1>1, <2>1 DEF Expect, Returns
<1>3. CASE symbol \in Arms
  <2>1. Rule(symbol, t, 0) = CaseRule(symbol, t)
    BY <1>3, RuleCases
  <2>2. CaseRule(symbol, t) \in {Take(<<"case_pattern", "pattern_end">>), Pass(<<"case_pattern", "pattern_end">>),
                                 Take(<<"parse_list", "arm_end">>), Take(<<"parse_case_arms">>), Take(<<>>), Fail}
    BY <1>3 DEF CaseRule, Arms, Expect
  <2> QED
    BY <1>1, <2>1, <2>2, EmptyOrNot DEF Returns
<1> QED
  BY <1>2, <1>3

-----------------------------------------------------------------------------
(* What the scanner has to know when a symbol looks at t.                  *)

Expectations == {"nothing", "for_name", "for_after_name", "case_word", "case_in"}

(* The states of the scanner.                                              *)
ScanType ==
  [command_position : BOOLEAN, pattern_position : BOOLEAN, pattern_start : BOOLEAN,
   command_prefix_seen : BOOLEAN, after_compound : BOOLEAN, after_redirect : BOOLEAN,
   want_delimiter : BOOLEAN, expect : Expectations, parens : Nat, case_stack : Seq(Nat)]

(* Nothing is expected but commands and words.                             *)
Still(s, e) == ~s.pattern_position /\ ~s.after_redirect /\ ~s.want_delimiter /\ s.expect = e

Ready(s)    == Still(s, "nothing") /\ s.command_position /\ ~s.command_prefix_seen

InPattern(s) == /\ s.pattern_position /\ ~s.after_redirect /\ ~s.want_delimiter
                /\ s.expect = "nothing" /\ ~s.command_prefix_seen

\* Where a command may start, or has ended.
Quiet(s, t) == Still(s, "nothing") /\ (t \in WordTokens \union Redirections => Ready(s))

(* What the scanner knows when this symbol is the first to look at t.      *)
Mood(symbol, s, t) ==
  CASE symbol = "prefix" -> Still(s, "nothing") /\ s.command_position /\ s.command_prefix_seen
    [] symbol \in {"first_word", "parse_simple", "for_words"} ->
         Still(s, "nothing") /\ ~s.command_position
    [] symbol = "parse_function" -> Still(s, "nothing") /\ ~s.command_position /\ t = "("
    [] symbol = "for_name"  -> Still(s, "for_name") /\ ~s.command_prefix_seen
    [] symbol = "for_in"    -> Still(s, "for_after_name") /\ ~s.command_prefix_seen
    [] symbol = "case_word" -> Still(s, "case_word") /\ ~s.command_prefix_seen
    [] symbol = "in"        -> Still(s, "case_in") /\ ~s.command_prefix_seen
    [] symbol = "parse_case_arms" -> InPattern(s) /\ s.pattern_start
    [] symbol \in {"case_pattern", "pattern_end"} ->
         InPattern(s) /\ (t = "esac" => ~s.pattern_start)
    [] symbol \in {"leave", "trailing_redirects"} ->
         Quiet(s, t) /\ (t \in Redirections => s.after_compound)
    [] symbol = "do" -> Quiet(s, t) \/ (Still(s, "for_after_name") /\ ~s.command_prefix_seen)
    [] OTHER -> Quiet(s, t)

\* The same if any token may come next.
Mooded(symbol, s) == \A t \in Tokens : Mood(symbol, s, t)

Redirected(s) == [s EXCEPT !.after_redirect = FALSE, !.want_delimiter = FALSE]

(* The scanner is right for the calls in progress: for the innermost, or   *)
(* for the one behind the line endings or the redirection it is at.        *)
Fits(stack, s, t) ==
  /\ stack[1] = "skip_newlines" => Mood(stack[2], s, t)
  /\ stack[1] \in Redirecting =>
       /\ s.after_redirect /\ (s.want_delimiter <=> stack[1] = "parse_here_doc")
       /\ Mooded(stack[2], Redirected(s))
  /\ stack[1] \notin Redirecting \union {"skip_newlines"} => Mood(stack[1], s, t)

-----------------------------------------------------------------------------
(* What tokens do to the scanner.                                          *)

SameNest(s, s1) == s1.parens = s.parens /\ s1.case_stack = s.case_stack

LEMMA ScanNewline ==
  ASSUME NEW s \in ScanType
  PROVE  LET s1 == Scan(s, "newline") IN
         /\ s1 = after_newline(s)
         /\ s1 \in ScanType /\ SameNest(s, s1)
         /\ s1.command_position = (s.command_position \/ ~s.pattern_position)
         /\ ~s1.after_redirect /\ ~s1.want_delimiter /\ ~s1.command_prefix_seen
         /\ s1.pattern_position = s.pattern_position /\ s1.pattern_start = s.pattern_start
         /\ s1.expect = s.expect
<1>1. "newline" \notin WordTokens
  BY DEF WordTokens, Reserved
<1>2. Scan(s, "newline") = after_newline(s)
  BY <1>1 DEF Scan
<1> QED
  BY <1>2 DEF after_newline, ScanType, SameNest

LEMMA ScanIsOperator ==
  ASSUME NEW s, NEW t \in Operators \ {")"}
  PROVE  Scan(s, t) = after_operator(s, t)
<1>1. t \notin WordTokens /\ t \notin {"newline", ")"}
  BY DEF Operators, Redirections, WordTokens, Reserved
<1> QED
  BY <1>1 DEF Scan

(* A separator, a pipe and the like.                                       *)
LEMMA ScanOperator ==
  ASSUME NEW s \in ScanType, ~s.pattern_position, NEW t \in {";", "&", "&&", "||", "|"}
  PROVE  Scan(s, t) \in ScanType /\ SameNest(s, Scan(s, t)) /\ Ready(Scan(s, t))
<1>1. t \notin Redirections /\ t # "(" /\ t # ";;" /\ t \in Operators \ {")"}
  BY DEF Redirections, Operators
<1>2. Scan(s, t) = after_operator(s, t)
  BY <1>1, ScanIsOperator
<1> DEFINE s1 == after_operator(s, t)
<1> DEFINE bare == [s EXCEPT !.after_redirect = FALSE, !.want_delimiter = FALSE,
                              !.expect = "nothing", !.command_prefix_seen = FALSE,
                              !.after_compound = FALSE]
<1>3. s1 = [bare EXCEPT !.command_position = TRUE]
  BY <1>1 DEF after_operator
<1>4. s1 \in ScanType /\ SameNest(s, s1) /\ Ready(s1)
  BY <1>3 DEF ScanType, Expectations, SameNest, Ready, Still
<1> QED
  BY <1>2, <1>4

LEMMA ScanOpenParen ==
  ASSUME NEW s \in ScanType
  PROVE  LET s1 == Scan(s, "(") IN
         /\ s1 \in ScanType /\ s1.case_stack = s.case_stack
         /\ ~s.pattern_position => Ready(s1) /\ s1.parens = s.parens + 1
         /\ InPattern(s) => InPattern(s1) /\ ~s1.pattern_start /\ s1.parens = s.parens
<1>1. "(" \notin Redirections /\ "(" \in Operators \ {")"}
  BY DEF Redirections, Operators
<1>2. Scan(s, "(") = after_operator(s, "(")
  BY <1>1, ScanIsOperator
<1> DEFINE s1 == after_operator(s, "(")
<1> DEFINE bare == [s EXCEPT !.after_redirect = FALSE, !.want_delimiter = FALSE,
                              !.expect = "nothing", !.command_prefix_seen = FALSE,
                              !.after_compound = FALSE]
           opened == [bare EXCEPT !.parens = @ + 1]
<1>0. bare \in ScanType
  BY DEF ScanType, Expectations
<1>7. opened \in ScanType
  <2> HIDE DEF bare
  <2> QED
    BY <1>0, SMTT(30) DEF ScanType
<1>3. s1 \in ScanType
  <2>1. s1 = IF s.pattern_position THEN [bare EXCEPT !.pattern_start = FALSE]
             ELSE [opened EXCEPT !.command_position = TRUE]
    BY <1>1 DEF after_operator
  <2> HIDE DEF s1, bare, opened
  <2> QED
    BY <1>0, <1>7, <2>1 DEF ScanType
<1>4. s1.case_stack = s.case_stack
  BY <1>1 DEF after_operator, ScanType
<1>5. ~s.pattern_position => Ready(s1) /\ s1.parens = s.parens + 1
  BY <1>1 DEF after_operator, ScanType, Ready, Still
<1>6. InPattern(s) => InPattern(s1) /\ ~s1.pattern_start /\ s1.parens = s.parens
  BY <1>1 DEF after_operator, ScanType, InPattern
<1> QED
  BY <1>2, <1>3, <1>4, <1>5, <1>6

LEMMA ScanBar ==
  ASSUME NEW s \in ScanType, InPattern(s)
  PROVE  LET s1 == Scan(s, "|") IN
         s1 \in ScanType /\ SameNest(s, s1) /\ InPattern(s1) /\ ~s1.pattern_start
<1>1. "|" \notin Redirections /\ "|" \in Operators \ {")"}
  BY DEF Redirections, Operators
<1>2. Scan(s, "|") = after_operator(s, "|")
  BY <1>1, ScanIsOperator
<1> DEFINE s1 == after_operator(s, "|")
<1>3. s1 \in ScanType
  BY <1>1 DEF after_operator, ScanType, Expectations
<1>4. SameNest(s, s1) /\ InPattern(s1) /\ ~s1.pattern_start
  BY <1>1 DEF after_operator, ScanType, InPattern, SameNest
<1> QED
  BY <1>2, <1>3, <1>4

LEMMA ScanEndOfArm ==
  ASSUME NEW s \in ScanType, ~s.pattern_position, InCase(s)
  PROVE  LET s1 == Scan(s, ";;") IN
         s1 \in ScanType /\ SameNest(s, s1) /\ InPattern(s1) /\ s1.pattern_start
<1>1. ";;" \notin Redirections /\ ";;" \in Operators \ {")"}
  BY DEF Redirections, Operators
<1>2. Scan(s, ";;") = after_operator(s, ";;")
  BY <1>1, ScanIsOperator
<1> DEFINE s1 == after_operator(s, ";;")
<1>3. InCase([s EXCEPT !.after_redirect = FALSE, !.want_delimiter = FALSE, !.expect = "nothing",
                         !.command_prefix_seen = FALSE, !.after_compound = FALSE])
  BY DEF InCase, ScanType
<1>4. s1 \in ScanType
  BY <1>1 DEF after_operator, enter_pattern, ScanType, Expectations
<1>5. SameNest(s, s1) /\ InPattern(s1) /\ s1.pattern_start
  BY <1>1 DEF after_operator, enter_pattern, ScanType, InPattern, SameNest
<1> QED
  BY <1>2, <1>4, <1>5

LEMMA ScanRedirect ==
  ASSUME NEW s \in ScanType, NEW t \in Redirections
  PROVE  LET s1 == Scan(s, t) IN
         /\ s1 \in ScanType /\ SameNest(s, s1)
         /\ s1.after_redirect /\ s1.want_delimiter = (t = "<<")
         /\ s1.command_prefix_seen = (s.command_prefix_seen \/ (s.command_position /\ ~s.after_compound))
         /\ s1.command_position = s.command_position /\ s1.after_compound = s.after_compound
         /\ s1.pattern_position = s.pattern_position /\ s1.expect = s.expect
<1>1. t \in Operators \ {")"}
  BY DEF Redirections, Operators
<1>2. Scan(s, t) = after_operator(s, t)
  BY <1>1, ScanIsOperator
<1>3. t \notin {"(", ";;"}
  BY DEF Redirections
<1>4. after_operator(s, t)
        = [s EXCEPT !.after_redirect = TRUE, !.want_delimiter = t = "<<",
                    !.command_prefix_seen = @ \/ (s.command_position /\ ~s.after_compound)]
  BY <1>3 DEF after_operator
<1>5. (t = "<<") \in BOOLEAN
  OBVIOUS
<1>6. after_operator(s, t) \in ScanType
  BY <1>4, <1>5 DEF ScanType
<1>7. SameNest(s, after_operator(s, t))
  BY <1>4 DEF ScanType, SameNest
<1> QED
  BY <1>2, <1>4, <1>6, <1>7 DEF ScanType

(* The `)' of a pattern, and of a subshell or a function.                  *)
LEMMA ScanCloseParen ==
  ASSUME NEW s \in ScanType
  PROVE  LET s1 == Scan(s, ")") IN
         /\ InPattern(s) /\ AtPatternEnd(s) => s1 \in ScanType /\ Ready(s1) /\ SameNest(s, s1)
         /\ Still(s, "nothing") /\ ~AtPatternEnd(s) /\ s.parens > 0 =>
              /\ s1 \in ScanType /\ Ready(s1) /\ s1.after_compound
              /\ s1.parens = s.parens - 1 /\ s1.case_stack = s.case_stack
<1>1. ")" \notin WordTokens
  BY DEF WordTokens, Reserved
<1>2. Scan(s, ")") = close_paren(s)
  BY <1>1 DEF Scan
<1> DEFINE after == [s EXCEPT !.after_redirect = FALSE, !.want_delimiter = FALSE,
                              !.command_prefix_seen = FALSE, !.after_compound = TRUE,
                              !.command_position = TRUE]
<1>3. after \in ScanType /\ SameNest(s, after) /\ after.command_position /\ after.after_compound
      /\ ~after.after_redirect /\ ~after.want_delimiter /\ ~after.command_prefix_seen
      /\ after.expect = s.expect /\ after.pattern_position = s.pattern_position
  BY DEF ScanType, SameNest
<1>4. AtPatternEnd(s) => close_paren(s) = [after EXCEPT !.pattern_position = FALSE]
  BY DEF close_paren
<1>5. ~AtPatternEnd(s) /\ s.parens > 0 => close_paren(s) = [after EXCEPT !.parens = @ - 1]
  BY DEF close_paren
<1> HIDE DEF after
<1>6. ASSUME InPattern(s), AtPatternEnd(s)
      PROVE  LET s1 == close_paren(s) IN s1 \in ScanType /\ Ready(s1) /\ SameNest(s, s1)
  BY <1>3, <1>4, <1>6 DEF ScanType, SameNest, Ready, Still, InPattern
<1>7. ASSUME Still(s, "nothing"), ~AtPatternEnd(s), s.parens > 0
      PROVE  LET s1 == close_paren(s) IN
             /\ s1 \in ScanType /\ Ready(s1) /\ s1.after_compound
             /\ s1.parens = s.parens - 1 /\ s1.case_stack = s.case_stack
  BY <1>3, <1>5, <1>7 DEF ScanType, SameNest, Ready, Still
<1> QED
  BY <1>2, <1>6, <1>7

LEMMA ScanWord ==
  ASSUME NEW s \in ScanType, NEW w \in WordTokens
  PROVE  Scan(s, w) = classify(s, w).state
<1>1. w \notin {"newline", ")"}
  BY DEF WordTokens, Reserved
<1> QED
  BY <1>1 DEF Scan

LEMMA AsIs ==
  ASSUME NEW class, NEW s
  PROVE  As(class, s).class = class /\ As(class, s).state = s
BY DEF As

(* `esac', and what it does to the list of the open cases.                 *)
LEMMA CloseCase ==
  ASSUME NEW s \in ScanType, Ready(s) \/ InPattern(s), InCase(s)
  PROVE  LET s1 == close_case(s) IN
         /\ s1 \in ScanType /\ Ready(s1) /\ s1.after_compound
         /\ s1.parens = s.parens /\ s1.case_stack = Front(s.case_stack)
<1>1. Front(s.case_stack) \in Seq(Nat)
  BY DEF Front, InCase, ScanType
<1>2. close_case(s) = [s EXCEPT !.case_stack = Front(s.case_stack), !.pattern_position = FALSE,
                                !.command_position = TRUE, !.after_compound = TRUE]
  BY DEF close_case, InCase
<1> QED
  BY <1>1, <1>2 DEF ScanType, Ready, Still, InPattern

(* A word where a command could start.                                     *)
LEMMA WordAtStart ==
  ASSUME NEW s \in ScanType, Ready(s), NEW w \in WordTokens
  PROVE  LET s1 == classify(s, w).state
             class == classify(s, w).class
         IN /\ w \in Reserved => class = "keyword"
            /\ w \in Reserved \ {"for", "case", "esac"} =>
                 s1 \in ScanType /\ SameNest(s, s1) /\ Ready(s1)
            /\ w \in {"fi", "done", "}"} => s1.after_compound
            /\ w = "for" => /\ s1 \in ScanType /\ SameNest(s, s1)
                            /\ Still(s1, "for_name") /\ ~s1.command_prefix_seen
            /\ w = "case" => /\ s1 \in ScanType /\ s1.parens = s.parens
                             /\ s1.case_stack = Append(s.case_stack, s.parens)
                             /\ Still(s1, "case_word") /\ ~s1.command_prefix_seen
            /\ w = "esac" /\ InCase(s) =>
                 /\ s1 \in ScanType /\ Ready(s1) /\ s1.after_compound
                 /\ s1.parens = s.parens /\ s1.case_stack = Front(s.case_stack)
            /\ w = "X=1" => /\ class = "assignment" /\ s1 \in ScanType /\ SameNest(s, s1)
                            /\ Still(s1, "nothing") /\ s1.command_position
                            /\ s1.command_prefix_seen
            /\ w \in {"x", "-"} => /\ class = "command" /\ s1 \in ScanType /\ SameNest(s, s1)
                                   /\ Still(s1, "nothing") /\ ~s1.command_position
<1>1. classify(s, w) = classify_command(s, w)
  BY DEF classify, Ready, Still
<1> DEFINE at == [s EXCEPT !.after_compound = FALSE]
<1>2. at \in ScanType /\ SameNest(s, at) /\ Ready(at) /\ InCase(at) = InCase(s)
  BY DEF ScanType, SameNest, Ready, Still, InCase
<1>3. w \in Reserved \ {"for", "case", "esac", "fi", "done", "}"}
        => classify_command(s, w) = As("keyword", at)
  BY DEF classify_command, Ready
<1>4. w \in {"fi", "done", "}"}
        => classify_command(s, w) = As("keyword", [at EXCEPT !.after_compound = TRUE])
  BY DEF classify_command, Ready, Reserved
<1>5. w = "for" => classify_command(s, w)
                     = As("keyword", [at EXCEPT !.expect = "for_name", !.command_position = FALSE])
  BY DEF classify_command, Ready, Reserved
<1>6. w = "case" => classify_command(s, w)
                      = As("keyword", [at EXCEPT !.expect = "case_word", !.command_position = FALSE,
                                                 !.case_stack = Append(@, s.parens)])
  BY DEF classify_command, Ready, Reserved
<1>7. w = "esac" => classify_command(s, w) = As("keyword", close_case(at))
  BY DEF classify_command, Ready, Reserved
<1>8. w = "X=1" => classify_command(s, w) = As("assignment", [at EXCEPT !.command_prefix_seen = TRUE])
  BY DEF classify_command, Reserved
<1>9. w \in {"x", "-"} => classify_command(s, w) = As("command", [at EXCEPT !.command_position = FALSE])
  BY DEF classify_command, Reserved
<1> HIDE DEF at
<1>10. CASE w \in Reserved \ {"for", "case", "esac", "fi", "done", "}"}
  <2>0. classify(s, w) = As("keyword", at)
    BY <1>1, <1>3, <1>10
  <2>1. classify(s, w).state = at /\ classify(s, w).class = "keyword"
    BY <2>0, AsIs
  <2> QED
    BY <1>2, <1>10, <2>1 DEF Reserved
<1>11. CASE w \in {"fi", "done", "}"}
  <2> DEFINE next == [at EXCEPT !.after_compound = TRUE]
  <2>0. classify(s, w) = As("keyword", next)
    BY <1>1, <1>4, <1>11
  <2>1. classify(s, w).state = next /\ classify(s, w).class = "keyword"
    BY <2>0, AsIs
  <2>2. next \in ScanType /\ SameNest(s, next) /\ Ready(next) /\ next.after_compound
    BY <1>2 DEF ScanType, SameNest, Ready, Still
  <2> QED
    BY <1>11, <2>1, <2>2
<1>12. CASE w = "for"
  <2> DEFINE next == [at EXCEPT !.expect = "for_name", !.command_position = FALSE]
  <2>1. classify(s, w).state = next /\ classify(s, w).class = "keyword"
    BY <1>1, <1>5, <1>12, AsIs
  <2>2. next \in ScanType /\ SameNest(s, next) /\ Still(next, "for_name") /\ ~next.command_prefix_seen
    BY <1>2 DEF ScanType, SameNest, Ready, Still, Expectations
  <2> QED
    BY <1>12, <2>1, <2>2
<1>13. CASE w = "case"
  <2> DEFINE next == [at EXCEPT !.expect = "case_word", !.command_position = FALSE,
                                !.case_stack = Append(@, s.parens)]
  <2>1. classify(s, w).state = next /\ classify(s, w).class = "keyword"
    BY <1>1, <1>6, <1>13, AsIs
  <2>2. Append(at.case_stack, s.parens) \in Seq(Nat)
    BY <1>2 DEF ScanType
  <2>3. next \in ScanType /\ next.parens = s.parens /\ next.case_stack = Append(s.case_stack, s.parens)
        /\ Still(next, "case_word") /\ ~next.command_prefix_seen
    BY <1>2, <2>2 DEF ScanType, SameNest, Ready, Still, Expectations
  <2> QED
    BY <1>13, <2>1, <2>3
<1>14. CASE w = "esac"
  <2>1. classify(s, w).state = close_case(at) /\ classify(s, w).class = "keyword"
    BY <1>1, <1>7, <1>14, AsIs
  <2> QED
    BY <1>2, <1>14, <2>1, CloseCase DEF SameNest
<1>15. CASE w = "X=1"
  <2> DEFINE next == [at EXCEPT !.command_prefix_seen = TRUE]
  <2>1. classify(s, w).state = next /\ classify(s, w).class = "assignment"
    BY <1>1, <1>8, <1>15, AsIs
  <2>2. next \in ScanType /\ SameNest(s, next) /\ Still(next, "nothing") /\ next.command_position
        /\ next.command_prefix_seen
    BY <1>2 DEF ScanType, SameNest, Ready, Still
  <2> QED
    BY <1>15, <2>1, <2>2 DEF Reserved
<1>16. CASE w \in {"x", "-"}
  <2> DEFINE next == [at EXCEPT !.command_position = FALSE]
  <2>1. classify(s, w).state = next /\ classify(s, w).class = "command"
    BY <1>1, <1>9, <1>16, AsIs
  <2>2. next \in ScanType /\ SameNest(s, next) /\ Still(next, "nothing") /\ ~next.command_position
    BY <1>2 DEF ScanType, SameNest, Ready, Still
  <2> QED
    BY <1>16, <2>1, <2>2 DEF Reserved
<1> QED
  BY <1>10, <1>11, <1>12, <1>13, <1>14, <1>15, <1>16 DEF WordTokens

(* A word behind assignments, a word of a command, and one after a         *)
(* redirection.                                                            *)
LEMMA WordAfterAssignment ==
  ASSUME NEW s \in ScanType, Mood("prefix", s, "x"), NEW w \in WordTokens
  PROVE  LET s1 == classify(s, w).state
             class == classify(s, w).class
         IN /\ s1 \in ScanType /\ SameNest(s, s1) /\ Still(s1, "nothing")
            /\ IF w = "X=1" THEN class = "assignment" /\ s1.command_position /\ s1.command_prefix_seen
               ELSE class = "command" /\ ~s1.command_position
<1>1. Still(s, "nothing") /\ s.command_position /\ s.command_prefix_seen
  BY DEF Mood
<1>2. classify(s, w) = classify_command(s, w)
  BY <1>1 DEF classify, Still
<1> DEFINE at == [s EXCEPT !.after_compound = FALSE]
<1>3. w = "X=1" => classify_command(s, w) = As("assignment", [at EXCEPT !.command_prefix_seen = TRUE])
  BY <1>1 DEF classify_command
<1>4. w # "X=1" => classify_command(s, w) = As("command", [at EXCEPT !.command_position = FALSE])
  BY <1>1 DEF classify_command
<1>5. CASE w = "X=1"
  <2> DEFINE next == [at EXCEPT !.command_prefix_seen = TRUE]
  <2>1. classify(s, w).state = next /\ classify(s, w).class = "assignment"
    BY <1>2, <1>3, <1>5, AsIs
  <2>2. next \in ScanType /\ SameNest(s, next) /\ Still(next, "nothing") /\ next.command_position
        /\ next.command_prefix_seen
    BY <1>1 DEF ScanType, SameNest, Still
  <2> QED
    BY <1>5, <2>1, <2>2
<1>6. CASE w # "X=1"
  <2> DEFINE next == [at EXCEPT !.command_position = FALSE]
  <2>1. classify(s, w).state = next /\ classify(s, w).class = "command"
    BY <1>2, <1>4, <1>6, AsIs
  <2>2. next \in ScanType /\ SameNest(s, next) /\ Still(next, "nothing") /\ ~next.command_position
    BY <1>1 DEF ScanType, SameNest, Still
  <2> QED
    BY <1>6, <2>1, <2>2
<1> QED
  BY <1>5, <1>6

LEMMA WordAsArgument ==
  ASSUME NEW s \in ScanType, Still(s, "nothing"), ~s.command_position, NEW w
  PROVE  classify(s, w) = As("plain", s)
BY DEF classify, Still

LEMMA WordRedirected ==
  ASSUME NEW s \in ScanType, s.after_redirect, NEW w
  PROVE  /\ classify(s, w).class = IF s.want_delimiter THEN "delimiter" ELSE "plain"
         /\ classify(s, w).state = Redirected(s)
         /\ Redirected(s) \in ScanType /\ SameNest(s, Redirected(s))
<1>1. classify(s, w) = IF s.want_delimiter
                         THEN As("delimiter", [s EXCEPT !.after_redirect = FALSE, !.want_delimiter = FALSE])
                       ELSE As("plain", [s EXCEPT !.after_redirect = FALSE])
  BY DEF classify
<1>2. ~s.want_delimiter => [s EXCEPT !.after_redirect = FALSE] = Redirected(s)
  BY DEF Redirected, ScanType
<1>3. classify(s, w).state = Redirected(s)
  <2>1. s.want_delimiter => classify(s, w) = As("delimiter", Redirected(s))
    BY <1>1 DEF Redirected
  <2>2. ~s.want_delimiter => classify(s, w) = As("plain", Redirected(s))
    BY <1>1, <1>2
  <2> QED
    BY <2>1, <2>2, AsIs
<1>4. classify(s, w).class = IF s.want_delimiter THEN "delimiter" ELSE "plain"
  <2>1. s.want_delimiter => classify(s, w).class = "delimiter"
    BY <1>1, AsIs
  <2>2. ~s.want_delimiter => classify(s, w).class = "plain"
    BY <1>1, AsIs
  <2> QED
    BY <2>1, <2>2
<1>5. Redirected(s) \in ScanType /\ SameNest(s, Redirected(s))
  BY DEF Redirected, ScanType, SameNest
<1> QED
  BY <1>3, <1>4, <1>5

(* The words of the constructs.                                            *)
LEMMA WordExpected ==
  ASSUME NEW s \in ScanType, NEW e \in Expectations \ {"nothing"}, Still(s, e),
         ~s.command_prefix_seen, NEW w \in WordTokens
  PROVE  LET s1 == classify(s, w).state
             class == classify(s, w).class
         IN /\ s1 \in ScanType /\ SameNest(s, s1) /\ ~s1.command_prefix_seen
            /\ e = "for_name" => class = "plain" /\ Still(s1, "for_after_name")
            /\ e = "case_word" => class = "plain" /\ Still(s1, "case_in")
            /\ e = "case_in" /\ w = "in" =>
                 class = "keyword" /\ InPattern(s1) /\ s1.pattern_start
            /\ e = "for_after_name" /\ w \in {"in", "do"} =>
                 /\ class = "keyword" /\ Still(s1, "nothing")
                 /\ s1.command_position = (s.command_position \/ w = "do")
<1>1. classify(s, w) = classify_expected(s, w)
  BY DEF classify, Still, Expectations
<1>2. CASE e = "for_name"
  <2>1. classify_expected(s, w) = As("plain", [s EXCEPT !.expect = "for_after_name"])
    BY <1>2 DEF classify_expected, Still
  <2> QED
    BY <1>1, <1>2, <2>1, AsIs DEF ScanType, SameNest, Still, Expectations
<1>3. CASE e = "case_word"
  <2>1. classify_expected(s, w) = As("plain", [s EXCEPT !.expect = "case_in"])
    BY <1>3 DEF classify_expected, Still
  <2> QED
    BY <1>1, <1>3, <2>1, AsIs DEF ScanType, SameNest, Still, Expectations
<1>4. CASE e = "for_after_name"
  <2>1. classify_expected(s, w)
          = As(IF w \in {"in", "do"} THEN "keyword" ELSE "plain",
               [s EXCEPT !.expect = "nothing", !.command_position = @ \/ w = "do"])
    BY <1>4 DEF classify_expected, Still
  <2>2. (s.command_position \/ w = "do") \in BOOLEAN
    OBVIOUS
  <2>3. [s EXCEPT !.expect = "nothing", !.command_position = @ \/ w = "do"] \in ScanType
    BY <2>2 DEF ScanType, Expectations
  <2> DEFINE next == [s EXCEPT !.expect = "nothing", !.command_position = @ \/ w = "do"]
  <2>4. SameNest(s, next) /\ ~next.command_prefix_seen /\ Still(next, "nothing")
        /\ next.command_position = (s.command_position \/ w = "do")
    BY <1>4 DEF ScanType, SameNest, Still
  <2>5. classify(s, w).state = next
    BY <1>1, <2>1, AsIs
  <2>6. w \in {"in", "do"} => classify(s, w).class = "keyword"
    BY <1>1, <2>1, AsIs
  <2> QED
    BY <1>4, <2>3, <2>4, <2>5, <2>6
<1>5. CASE e = "case_in"
  <2> DEFINE over == [s EXCEPT !.expect = "nothing"]
  <2>1. over \in ScanType /\ SameNest(s, over) /\ ~over.command_prefix_seen /\ Still(over, "nothing")
    BY <1>5 DEF ScanType, SameNest, Still, Expectations
  <2>2. /\ w = "in" => classify_expected(s, w) = As("keyword", enter_pattern(over))
        /\ w # "in" => classify_expected(s, w) = As("plain", over)
    BY <1>5 DEF classify_expected, Still
  <2> HIDE DEF over
  <2>3. LET s1 == enter_pattern(over) IN
        s1 \in ScanType /\ SameNest(s, s1) /\ InPattern(s1) /\ s1.pattern_start
    BY <2>1 DEF enter_pattern, ScanType, SameNest, Still, InPattern
  <2>4. w = "in" => classify(s, w).class = "keyword" /\ classify(s, w).state = enter_pattern(over)
    BY <1>1, <2>2, AsIs
  <2>5. w # "in" => classify(s, w).state = over
    BY <1>1, <2>2, AsIs
  <2> QED
    BY <1>5, <2>1, <2>3, <2>4, <2>5 DEF InPattern
<1> QED
  BY <1>2, <1>3, <1>4, <1>5 DEF Expectations

LEMMA WordInPattern ==
  ASSUME NEW s \in ScanType, InPattern(s), NEW w \in WordTokens
  PROVE  LET s1 == classify(s, w).state
             class == classify(s, w).class
         IN /\ w = "esac" /\ s.pattern_start /\ InCase(s) =>
                 /\ class = "keyword" /\ s1 \in ScanType /\ Ready(s1) /\ s1.after_compound
                 /\ s1.parens = s.parens /\ s1.case_stack = Front(s.case_stack)
            /\ ~(w = "esac" /\ s.pattern_start) =>
                 /\ class = "plain" /\ s1 \in ScanType /\ SameNest(s, s1)
                 /\ InPattern(s1) /\ ~s1.pattern_start
<1>1. classify(s, w) = IF s.pattern_start /\ w = "esac" THEN As("keyword", close_case(s))
                       ELSE As("plain", [s EXCEPT !.pattern_start = FALSE])
  BY DEF classify, InPattern
<1>2. w = "esac" /\ s.pattern_start /\ InCase(s) => classify(s, w) = As("keyword", close_case(s))
  BY <1>1
<1>3. ~(w = "esac" /\ s.pattern_start) => classify(s, w) = As("plain", [s EXCEPT !.pattern_start = FALSE])
  BY <1>1
<1>4. [s EXCEPT !.pattern_start = FALSE] \in ScanType /\ SameNest(s, [s EXCEPT !.pattern_start = FALSE])
      /\ InPattern([s EXCEPT !.pattern_start = FALSE])
      /\ ~[s EXCEPT !.pattern_start = FALSE].pattern_start
  BY DEF ScanType, SameNest, InPattern
<1>5. CASE w = "esac" /\ s.pattern_start
  <2>1. classify(s, w).class = "keyword" /\ classify(s, w).state = close_case(s)
    BY <1>1, <1>5, AsIs
  <2> QED
    BY <1>5, <2>1, CloseCase
<1>6. CASE ~(w = "esac" /\ s.pattern_start)
  <2>1. classify(s, w).class = "plain" /\ classify(s, w).state = [s EXCEPT !.pattern_start = FALSE]
    BY <1>3, <1>6, AsIs
  <2> QED
    BY <1>4, <1>6, <2>1
<1> QED
  BY <1>5, <1>6

-----------------------------------------------------------------------------
(* Calls that return or look through others leave the scanner right.       *)

(* The symbols at which nothing but the start or the end of a command      *)
(* counts.                                                                 *)
Plain == {"top_level", "parse_list", "parse_body", "separator", "parse_and_or", "and_or_rest",
          "parse_pipeline", "pipeline_rest", "parse_command", "then", "done", "fi", "}", ")",
          "branches", "arm_end"}

LEMMA MoodCases ==
  ASSUME NEW s, NEW t
  PROVE  /\ \A symbol \in Plain : Mood(symbol, s, t) <=> Quiet(s, t)
         /\ Mood("prefix", s, t) <=> (Still(s, "nothing") /\ s.command_position /\ s.command_prefix_seen)
         /\ \A symbol \in {"first_word", "parse_simple", "for_words"} :
              Mood(symbol, s, t) <=> (Still(s, "nothing") /\ ~s.command_position)
         /\ Mood("parse_function", s, t) <=> (Still(s, "nothing") /\ ~s.command_position /\ t = "(")
         /\ Mood("for_name", s, t) <=> (Still(s, "for_name") /\ ~s.command_prefix_seen)
         /\ Mood("for_in", s, t) <=> (Still(s, "for_after_name") /\ ~s.command_prefix_seen)
         /\ Mood("case_word", s, t) <=> (Still(s, "case_word") /\ ~s.command_prefix_seen)
         /\ Mood("in", s, t) <=> (Still(s, "case_in") /\ ~s.command_prefix_seen)
         /\ Mood("parse_case_arms", s, t) <=> (InPattern(s) /\ s.pattern_start)
         /\ \A symbol \in {"case_pattern", "pattern_end"} :
              Mood(symbol, s, t) <=> (InPattern(s) /\ (t = "esac" => ~s.pattern_start))
         /\ \A symbol \in {"leave", "trailing_redirects"} :
              Mood(symbol, s, t) <=> (Quiet(s, t) /\ (t \in Redirections => s.after_compound))
         /\ Mood("do", s, t) <=> (Quiet(s, t) \/ (Still(s, "for_after_name") /\ ~s.command_prefix_seen))
BY DEF Mood, Plain

LEMMA FitsPlain ==
  ASSUME NEW stack, NEW s, NEW t, stack[1] \notin Redirecting \union {"skip_newlines"}
  PROVE  Fits(stack, s, t) <=> Mood(stack[1], s, t)
BY DEF Fits

(* A call that returns leaves the scanner right for its caller.            *)
LEMMA FitsTail ==
  ASSUME NEW stack, Shape(stack), NEW s, NEW t, Fits(stack, s, t), Leaves(stack[1], t),
         t # End
  PROVE  Fits(Tail(stack), s, t)
<1> DEFINE first == stack[1]
           second == stack[2]
<1>7. \A n \in Nat : n > 0 /\ n # 1 => n > 1 /\ 1 \in 1 .. n - 1
  OBVIOUS
<1>1. first # "top_level" /\ second \in Below(first) /\ Tail(stack)[1] = second /\ Len(stack) > 1
  <2>1. first # "top_level"
    BY DEF Leaves, Simple
  <2>5. Len(stack) \in Nat /\ Len(stack) > 0 /\ Len(stack) # 1
    BY <2>1, ShapeTop
  <2>2. Len(stack) \in Nat /\ Len(stack) > 1
    BY <1>7, <2>5
  <2>3. 1 \in 1 .. Len(stack) - 1
    BY <1>7, <2>5
  <2>4. Tail(stack)[1] = stack[1 + 1]
    BY <2>3, ShapeTop
  <2> QED
    BY <2>1, <2>2, <2>4, ShapeTail
<1>2. first \notin Redirecting
  BY DEF Leaves, Simple, Redirecting
<1>3. second \notin Redirecting
  BY <1>1 DEF Leaves, Below, Simple, Arms, Redirecting
<1>4. CASE first = "skip_newlines"
  <2>1. Mood(second, s, t)
    BY <1>4 DEF Fits
  <2>2. second # "skip_newlines"
    BY <1>1, <1>4 DEF Below, Simple, Arms, Redirecting
  <2> QED
    BY <1>1, <1>3, <2>1, <2>2, FitsPlain
<1>5. CASE first = "for_in"
  <2>1. second = "skip_newlines"
    BY <1>1, <1>5 DEF Below, Simple, Arms, Redirecting
  <2>2. Mood("for_in", s, t)
    BY <1>5, FitsPlain DEF Redirecting
  <2>3. Tail(stack)[2] = "do"
    <3> DEFINE rest == Tail(stack)
    <3>1. Shape(rest) /\ rest[1] = "skip_newlines" /\ Len(rest) = Len(stack) - 1 /\ Len(stack) \in Nat
      BY <1>1, <2>1, ShapeTail, ShapeTop
    <3>2. \A n \in 1 .. Len(stack) - 1 : rest[n] = stack[n + 1]
      BY ShapeTop
    <3>3. stack[1] = "for_in" /\ stack[2] = "skip_newlines"
      BY <1>5, <2>1
    <3> HIDE DEF rest, first, second
    <3>4. Len(rest) \in Nat /\ Len(rest) > 0 /\ Len(rest) # 1
      BY <3>1, ShapeTop
    <3>5. 1 \in 1 .. Len(stack) - 2 /\ 2 \in 1 .. Len(stack) - 1
      BY <3>1, <3>4
    <3>6. stack[1 + 1] = "skip_newlines" => stack[1 + 2] \in Behind(stack[1])
      BY <3>5 DEF Shape
    <3>7. stack[3] \in Behind("for_in")
      BY <3>3, <3>6
    <3>8. rest[2] = stack[3]
      BY <3>2, <3>5
    <3>9. rest[2] = "do"
      BY <3>7, <3>8 DEF Behind
    <3> QED
      BY <3>9 DEF rest
  <2>4. Mood("do", s, t)
    BY <2>2, MoodCases
  <2> QED
    BY <1>1, <2>1, <2>3, <2>4 DEF Fits, Redirecting
<1>6. CASE first \notin {"skip_newlines", "for_in"}
  <2>1. Mood(first, s, t)
    BY <1>2, <1>6, FitsPlain
  <2>2. Quiet(s, t) /\ (first = "leave" /\ t \in Redirections => s.after_compound)
    <3>1. CASE first \in {"parse_list", "separator", "and_or_rest", "pipeline_rest"}
      <4>1. first \in Plain /\ first # "leave"
        BY <3>1 DEF Plain
      <4> QED
        BY <2>1, <4>1, MoodCases
    <3>2. CASE first \in Simple /\ t \notin WordTokens \union Redirections
      <4>1. first \in {"prefix", "first_word", "parse_simple"}
        BY <3>2 DEF Simple
      <4>2. Still(s, "nothing")
        BY <2>1, <4>1, MoodCases
      <4> QED
        BY <3>2, <4>1, <4>2 DEF Quiet
    <3>3. CASE first \in {"leave", "trailing_redirects"}
      BY <2>1, <3>3, MoodCases
    <3> QED
      BY <1>6, <3>1, <3>2, <3>3 DEF Leaves
  <2>3. second \in Plain \union {"leave", "trailing_redirects", "do"}
    BY <1>1, <1>6 DEF Leaves, Below, Simple, Arms, Redirecting, Plain
  <2>4. second \in {"leave", "trailing_redirects"} => (t \in Redirections => s.after_compound)
    <3>1. second \in {"leave", "trailing_redirects"} => first \in Simple \union {"leave", "trailing_redirects"}
      BY <1>1, <1>6 DEF Leaves, Below, Simple, Arms, Redirecting
    <3>2. first \in Simple \union {"trailing_redirects"} => t \notin Redirections
      BY <1>6 DEF Leaves, Simple
    <3> QED
      BY <2>2, <3>1, <3>2
  <2>5. Mood(second, s, t)
    BY <2>2, <2>3, <2>4, MoodCases
  <2>6. second # "skip_newlines"
    BY <2>3 DEF Plain
  <2> QED
    BY <1>1, <1>3, <2>5, <2>6, FitsPlain
<1> QED
  BY <1>4, <1>5, <1>6

(* A call that looks at t through another leaves the scanner right.        *)
LEMMA FitsCalled ==
  ASSUME NEW stack, Shape(stack), NEW s, NEW t, Fits(stack, s, t), ~Returns(stack[1], t)
  PROVE  Fits(Called(stack, t), s, t)
<1> DEFINE next == Called(stack, t)
<1>1. CASE Rule(stack[1], t, 0).does # "pass"
  BY <1>1, CallsThrough
<1>2. CASE Rule(stack[1], t, 0).does = "pass"
  <2>1. Through(stack[1], next[1])
    BY <1>2, CallsThrough
  <2>2. next[1] # stack[1]
    BY <2>1 DEF Through
  <2>3. /\ stack[1] = "parse_case_arms" => t \notin {"newline", "esac", "("}
        /\ stack[1] = "first_word" => t = "("
    BY <2>2, CallsThrough
  <2>4. /\ stack[1] \notin Redirecting \union {"skip_newlines"}
        /\ next[1] \notin Redirecting \union {"skip_newlines"}
    BY <2>1 DEF Through, Redirecting
  <2>5. Mood(stack[1], s, t)
    BY <2>4, FitsPlain
  <2>6. CASE stack[1] \in Plain /\ next[1] \in Plain
    <3>1. Mood(next[1], s, t)
      BY <2>5, <2>6, MoodCases
    <3> QED
      BY <2>4, <3>1, FitsPlain
  <2>7. CASE stack[1] = "first_word" /\ next[1] = "parse_function"
    <3>1. Mood(next[1], s, t)
      BY <2>3, <2>5, <2>7, MoodCases
    <3> QED
      BY <2>4, <3>1, FitsPlain
  <2>8. CASE stack[1] = "parse_case_arms" /\ next[1] = "case_pattern"
    <3>1. Mood(next[1], s, t)
      BY <2>3, <2>5, <2>8, MoodCases
    <3> QED
      BY <2>4, <3>1, FitsPlain
  <2> QED
    BY <2>1, <2>6, <2>7, <2>8 DEF Through, Plain
<1> QED
  BY <1>1, <1>2

-----------------------------------------------------------------------------
(* The parentheses and cases that are open, by the calls in progress.      *)

Opens == {open \in [parens : Nat, case_stack : Seq(Nat)] :
            \A n \in 1 .. Len(open.case_stack) : open.case_stack[n] <= open.parens}

(* The parentheses and cases that are open on top of a symbol.             *)
Opened(symbol, open) ==
  CASE symbol = ")"    -> [parens |-> open.parens + 1, case_stack |-> open.case_stack]
    [] symbol \in Arms -> [parens |-> open.parens, case_stack |-> Append(open.case_stack, open.parens)]
    [] OTHER           -> open

Openers == {")"} \union Arms

NoneOpen == [parens |-> 0, case_stack |-> <<>>]

OpenIn(s) == [parens |-> s.parens, case_stack |-> s.case_stack]

Labels(nest, stack) ==
  /\ nest \in [1 .. Len(stack) + 1 -> Opens]
  /\ nest[Len(stack) + 1] = NoneOpen
  /\ \A n \in 1 .. Len(stack) : nest[n] = Opened(stack[n], nest[n + 1])

(* What is open is what the calls in progress have opened.                 *)
Nested(stack, open) == \E nest : Labels(nest, stack) /\ nest[1] = open

LEMMA OpenedIs ==
  ASSUME NEW symbol, NEW open \in Opens
  PROVE  /\ Opened(symbol, open) \in Opens
         /\ symbol \notin Openers => Opened(symbol, open) = open
         /\ symbol \in Arms => Opened(symbol, open) =
              [parens |-> open.parens, case_stack |-> Append(open.case_stack, open.parens)]
         /\ symbol = ")" => Opened(symbol, open) =
              [parens |-> open.parens + 1, case_stack |-> open.case_stack]
<1>0. open.parens \in Nat /\ open.case_stack \in Seq(Nat) /\ Len(open.case_stack) \in Nat
      /\ \A n \in 1 .. Len(open.case_stack) : open.case_stack[n] <= open.parens
  BY DEF Opens
<1>1. symbol \notin Openers => Opened(symbol, open) = open
  BY DEF Opened, Openers
<1>2. symbol \in Arms => Opened(symbol, open) =
        [parens |-> open.parens, case_stack |-> Append(open.case_stack, open.parens)]
  BY DEF Opened, Arms
<1>3. symbol = ")" => Opened(symbol, open) = [parens |-> open.parens + 1, case_stack |-> open.case_stack]
  BY DEF Opened, Arms
<1>4. [parens |-> open.parens + 1, case_stack |-> open.case_stack] \in Opens
  <2>1. \A n \in 1 .. Len(open.case_stack) : open.case_stack[n] <= open.parens + 1
    <3> SUFFICES ASSUME NEW n \in 1 .. Len(open.case_stack) PROVE open.case_stack[n] <= open.parens + 1
      OBVIOUS
    <3>1. open.case_stack[n] \in Nat
      BY <1>0
    <3> QED
      BY <1>0, <3>1
  <2> QED
    BY <1>0, <2>1 DEF Opens
<1>5. [parens |-> open.parens, case_stack |-> Append(open.case_stack, open.parens)] \in Opens
  <2> DEFINE more == Append(open.case_stack, open.parens)
  <2>1. more \in Seq(Nat) /\ Len(more) = Len(open.case_stack) + 1
    BY <1>0
  <2>2. \A n \in 1 .. Len(more) : more[n] <= open.parens
    BY <1>0
  <2> DEFINE next == [parens |-> open.parens, case_stack |-> more]
  <2>3. next \in [parens : Nat, case_stack : Seq(Nat)] /\ next.parens = open.parens /\ next.case_stack = more
    BY <1>0, <2>1
  <2> HIDE DEF more, next
  <2>4. next \in Opens
    BY <2>2, <2>3 DEF Opens
  <2> QED
    BY <2>4 DEF more, next
<1> QED
  BY <1>1, <1>2, <1>3, <1>4, <1>5 DEF Openers

LEMMA NestedNothing ==
  Nested(<<>>, NoneOpen)
<1> DEFINE nest == [n \in {1} |-> NoneOpen]
<1>1. NoneOpen \in Opens
  BY DEF NoneOpen, Opens
<1>2. Len(<<>>) = 0 /\ 1 .. 0 = {} /\ 1 .. 0 + 1 = {1}
  OBVIOUS
<1>3. Labels(nest, <<>>)
  BY <1>1, <1>2 DEF Labels
<1> QED
  BY <1>3 DEF Nested

(* The innermost call takes what it opened with it.                        *)
LEMMA NestedTail ==
  ASSUME NEW stack \in Seq(Symbols), stack # <<>>, NEW open, Nested(stack, open)
  PROVE  \E under \in Opens : Nested(Tail(stack), under) /\ open = Opened(stack[1], under)
<1>1. PICK nest : Labels(nest, stack) /\ nest[1] = open
  BY DEF Nested
<1> DEFINE rest == Tail(stack)
           l == Len(stack) - 1
           labels == [n \in 1 .. l + 1 |-> nest[n + 1]]
<1>2. /\ l \in Nat /\ Len(stack) = l + 1 /\ Len(rest) = l
      /\ \A n \in 1 .. l : rest[n] = stack[n + 1]
  OBVIOUS
<1>3. /\ nest \in [1 .. l + 2 -> Opens] /\ nest[l + 2] = NoneOpen
      /\ \A n \in 1 .. l + 1 : nest[n] = Opened(stack[n], nest[n + 1])
  <2>1. Len(stack) + 1 = l + 2
    BY <1>2
  <2> QED
    BY <1>1, <1>2, <2>1 DEF Labels
<1> HIDE DEF rest, l
<1>4. /\ labels \in [1 .. Len(rest) + 1 -> Opens]
      /\ labels[Len(rest) + 1] = NoneOpen
      /\ \A n \in 1 .. Len(rest) : labels[n] = Opened(rest[n], labels[n + 1])
  BY <1>2, <1>3
<1>5. labels[1] = nest[2] /\ nest[2] \in Opens /\ nest[1] = Opened(stack[1], nest[2])
  BY <1>2, <1>3
<1> HIDE DEF labels
<1>6. Nested(rest, nest[2])
  BY <1>4, <1>5 DEF Nested, Labels
<1> QED
  BY <1>1, <1>5, <1>6 DEF rest

(* Calls of which at most one, the m-th, opens something.                  *)
LEMMA NestedPush ==
  ASSUME NEW rest \in Seq(Symbols), NEW under, Nested(rest, under),
         NEW symbols \in Seq(Symbols), NEW m \in 1 .. Len(symbols),
         \A n \in 1 .. Len(symbols) : n # m => symbols[n] \notin Openers
  PROVE  Nested(symbols \o rest, Opened(symbols[m], under))
<1>1. PICK nest : Labels(nest, rest) /\ nest[1] = under
  BY DEF Nested
<1> DEFINE k == Len(symbols)
           l == Len(rest)
           next == symbols \o rest
           over == Opened(symbols[m], under)
           labels == [n \in 1 .. k + l + 1 |-> IF n <= m THEN over
                                               ELSE IF n <= k THEN under ELSE nest[n - k]]
<1>2. k \in Nat /\ l \in Nat /\ m \in Nat /\ 1 <= m /\ m <= k
  OBVIOUS
<1>3. /\ next \in Seq(Symbols) /\ Len(next) = k + l
      /\ \A n \in 1 .. k : next[n] = symbols[n]
      /\ \A n \in k + 1 .. k + l : next[n] = rest[n - k]
  <2>1. /\ next \in Seq(Symbols) /\ Len(next) = k + l
        /\ \A n \in 1 .. k + l : next[n] = IF n <= k THEN symbols[n] ELSE rest[n - k]
    BY ConcatProperties
  <2> HIDE DEF next, k, l
  <2> QED
    BY <1>2, <2>1
<1>4. /\ nest \in [1 .. l + 1 -> Opens] /\ nest[l + 1] = NoneOpen
      /\ \A n \in 1 .. l : nest[n] = Opened(rest[n], nest[n + 1])
  BY <1>1 DEF Labels
<1>5. under \in Opens /\ over \in Opens
  BY <1>1, <1>2, <1>4, OpenedIs
<1>6. \A n \in 1 .. k : n # m => symbols[n] \notin Openers
  OBVIOUS
<1>7. over = Opened(symbols[m], under)
  OBVIOUS
<1> HIDE DEF k, l, next, over
<1>8. /\ labels \in [1 .. k + l + 1 -> Opens] /\ labels[k + l + 1] = NoneOpen /\ labels[1] = over
  <2>1. ASSUME NEW n \in 1 .. k + l + 1, ~(n <= m), ~(n <= k) PROVE nest[n - k] \in Opens
    <3>1. n - k \in 1 .. l + 1
      BY <1>2, <2>1
    <3> QED
      BY <1>4, <3>1
  <2>2. labels \in [1 .. k + l + 1 -> Opens]
    BY <1>5, <2>1
  <2>3. labels[k + l + 1] = nest[l + 1]
    <3>1. k + l + 1 \in 1 .. k + l + 1 /\ ~(k + l + 1 <= m) /\ ~(k + l + 1 <= k) /\ (k + l + 1) - k = l + 1
      BY <1>2
    <3> QED
      BY <3>1
  <2>4. labels[1] = over
    BY <1>2
  <2> QED
    BY <1>4, <2>2, <2>3, <2>4
<1>9. ASSUME NEW n \in 1 .. k + l PROVE labels[n] = Opened(next[n], labels[n + 1])
  <2>0. n \in 1 .. k + l + 1 /\ n + 1 \in 1 .. k + l + 1 /\ n \in Int
    BY <1>2
  <2>1. CASE n < m
    <3>1. labels[n] = over /\ labels[n + 1] = over /\ next[n] = symbols[n] /\ symbols[n] \notin Openers
      BY <1>2, <1>3, <1>6, <2>0, <2>1
    <3> QED
      BY <1>5, <3>1, OpenedIs
  <2>2. CASE n = m
    <3>1. labels[n] = over /\ next[n] = symbols[m]
      BY <1>2, <1>3, <2>0, <2>2
    <3>2. labels[n + 1] = under
      <4>1. n = k => labels[n + 1] = nest[1]
        BY <1>2, <2>0, <2>2
      <4>2. n < k => labels[n + 1] = under
        BY <1>2, <2>0, <2>2
      <4> QED
        BY <1>1, <1>2, <2>2, <4>1, <4>2
    <3> QED
      BY <1>7, <3>1, <3>2
  <2>3. CASE m < n /\ n < k
    <3>1. labels[n] = under /\ labels[n + 1] = under /\ next[n] = symbols[n] /\ symbols[n] \notin Openers
      BY <1>2, <1>3, <1>6, <2>0, <2>3
    <3> QED
      BY <1>5, <3>1, OpenedIs
  <2>4. CASE m < n /\ n = k
    <3>1. labels[n] = under /\ next[n] = symbols[n] /\ symbols[n] \notin Openers
      BY <1>2, <1>3, <1>6, <2>0, <2>4
    <3>2. labels[n + 1] = nest[1]
      <4>1. ~(n + 1 <= m) /\ ~(n + 1 <= k) /\ (n + 1) - k = 1
        BY <1>2, <2>0, <2>4
      <4> QED
        BY <2>0, <4>1
    <3> QED
      BY <1>1, <1>5, <3>1, <3>2, OpenedIs
  <2>5. CASE k < n
    <3>3. ~(n <= m) /\ ~(n <= k) /\ ~(n + 1 <= m) /\ ~(n + 1 <= k) /\ n \in k + 1 .. k + l
      BY <1>2, <2>0, <2>5
    <3>1. labels[n] = nest[n - k] /\ labels[n + 1] = nest[(n + 1) - k] /\ next[n] = rest[n - k]
      BY <1>3, <2>0, <3>3
    <3>2. n - k \in 1 .. l /\ (n + 1) - k = (n - k) + 1
      BY <1>2, <2>0, <2>5
    <3> QED
      BY <1>4, <3>1, <3>2
  <2> QED
    BY <1>2, <2>0, <2>1, <2>2, <2>3, <2>4, <2>5
<1> HIDE DEF labels
<1>10. Labels(labels, next)
  BY <1>3, <1>8, <1>9 DEF Labels
<1> QED
  BY <1>8, <1>10 DEF Nested, next, over

LEMMA NestedPlain ==
  ASSUME NEW stack \in Seq(Symbols), NEW open, Nested(stack, open),
         \A n \in 1 .. Len(stack) : stack[n] \notin Openers
  PROVE  open = NoneOpen
<1>1. PICK nest : Labels(nest, stack) /\ nest[1] = open
  BY DEF Nested
<1> DEFINE l == Len(stack)
           same == {i \in 0 .. l : nest[(l + 1) - i] = NoneOpen}
<1>2. l \in Nat /\ nest \in [1 .. l + 1 -> Opens] /\ nest[l + 1] = NoneOpen
      /\ \A n \in 1 .. l : nest[n] = Opened(stack[n], nest[n + 1]) /\ stack[n] \notin Openers
  BY <1>1 DEF Labels
<1> HIDE DEF l
<1>3. 0 \in same
  BY <1>2
<1>4. ASSUME NEW i \in 1 .. l, i - 1 \in same PROVE i \in same
  <2> DEFINE n == (l + 1) - i
  <2>1. n \in 1 .. l /\ n + 1 = (l + 1) - (i - 1) /\ n + 1 \in 1 .. l + 1 /\ i \in 0 .. l
    BY <1>2
  <2>2. nest[n + 1] = NoneOpen
    BY <1>4, <2>1
  <2>3. nest[n] = nest[n + 1]
    <3> HIDE DEF n
    <3>1. nest[n] = Opened(stack[n], nest[n + 1]) /\ stack[n] \notin Openers /\ nest[n + 1] \in Opens
      BY <1>2, <2>1
    <3> QED
      BY <3>1, OpenedIs
  <2> QED
    BY <2>1, <2>2, <2>3
<1>5. \A i \in 0 .. l : i \in same
  <2> HIDE DEF same
  <2> QED
    BY <1>2, <1>3, <1>4, Shifting!UpTo
<1>6. l \in 0 .. l /\ (l + 1) - l = 1
  BY <1>2
<1> QED
  BY <1>1, <1>5, <1>6

(* One of the calls is in set, and no other opens a parenthesis or a case. *)
OneIn(symbols, set) ==
  \E m \in 1 .. Len(symbols) :
    symbols[m] \in set /\ \A n \in 1 .. Len(symbols) : n # m => symbols[n] \notin Openers

OpensParen(symbol, t) == symbol = "parse_function" \/ (symbol = "parse_command" /\ t = "(")

OpensCase(symbol, t)  == symbol = "parse_command" /\ t = "case"

LEMMA OneOf ==
  ASSUME NEW set
  PROVE  /\ \A a \in set : OneIn(<<a>>, set)
         /\ \A a \in set : \A b : b \notin Openers => OneIn(<<a, b>>, set)
         /\ \A a : \A b \in set : a \notin Openers => OneIn(<<a, b>>, set)
         /\ \A a \in set : \A b, c : {b, c} \cap Openers = {} => OneIn(<<a, b, c>>, set)
         /\ \A a \in set : \A b, c, e : {b, c, e} \cap Openers = {} => OneIn(<<a, b, c, e>>, set)
<1>1. ASSUME NEW a \in set PROVE OneIn(<<a>>, set)
  <2>1. Len(<<a>>) = 1 /\ <<a>>[1] \in set /\ 1 \in 1 .. 1 /\ \A n \in 1 .. 1 : n = 1
    OBVIOUS
  <2> QED
    BY <2>1 DEF OneIn
<1>2. ASSUME NEW a \in set, NEW b, b \notin Openers PROVE OneIn(<<a, b>>, set)
  <2>1. Len(<<a, b>>) = 2 /\ <<a, b>>[1] \in set /\ 1 \in 1 .. 2
        /\ \A n \in 1 .. 2 : n # 1 => <<a, b>>[n] \notin Openers
    BY <1>2
  <2> QED
    BY <2>1 DEF OneIn
<1>3. ASSUME NEW a, NEW b \in set, a \notin Openers PROVE OneIn(<<a, b>>, set)
  <2>1. Len(<<a, b>>) = 2 /\ <<a, b>>[2] \in set /\ 2 \in 1 .. 2
        /\ \A n \in 1 .. 2 : n # 2 => <<a, b>>[n] \notin Openers
    BY <1>3
  <2> QED
    BY <2>1 DEF OneIn
<1>4. ASSUME NEW a \in set, NEW b, NEW c, b \notin Openers, c \notin Openers
      PROVE  OneIn(<<a, b, c>>, set)
  <2>1. Len(<<a, b, c>>) = 3 /\ <<a, b, c>>[1] \in set /\ 1 \in 1 .. 3
        /\ \A n \in 1 .. 3 : n # 1 => <<a, b, c>>[n] \notin Openers
    BY <1>4
  <2> QED
    BY <2>1 DEF OneIn
<1>5. ASSUME NEW a \in set, NEW b, NEW c, NEW e, b \notin Openers, c \notin Openers, e \notin Openers
      PROVE  OneIn(<<a, b, c, e>>, set)
  <2>1. Len(<<a, b, c, e>>) = 4 /\ <<a, b, c, e>>[1] \in set /\ 1 \in 1 .. 4
        /\ \A n \in 1 .. 4 : n # 1 => <<a, b, c, e>>[n] \notin Openers
    BY <1>5
  <2> QED
    BY <2>1 DEF OneIn
<1> QED
  BY <1>1, <1>2, <1>3, <1>4, <1>5

LEMMA SecondOf4 ==
  ASSUME NEW set, NEW a, NEW b \in set, NEW c, NEW e,
         {a, c, e} \cap Openers = {}
  PROVE  OneIn(<<a, b, c, e>>, set)
<1> DEFINE calls == <<a, b, c, e>>
<1>1. Len(calls) = 4 /\ calls[2] \in set /\ 2 \in 1 .. 4
      /\ \A n \in 1 .. 4 : n # 2 => calls[n] \notin Openers
  OBVIOUS
<1> HIDE DEF calls
<1>2. OneIn(calls, set)
  BY <1>1 DEF OneIn
<1> QED
  BY <1>2 DEF calls

LEMMA FirstOf4 ==
  ASSUME NEW set, NEW a \in set, NEW b, NEW c, NEW e,
         {b, c, e} \cap Openers = {}
  PROVE  OneIn(<<a, b, c, e>>, set)
<1> DEFINE calls == <<a, b, c, e>>
<1>1. Len(calls) = 4 /\ calls[1] \in set /\ 1 \in 1 .. 4
      /\ \A n \in 1 .. 4 : n # 1 => calls[n] \notin Openers
  OBVIOUS
<1> HIDE DEF calls
<1>2. OneIn(calls, set)
  BY <1>1 DEF OneIn
<1> QED
  BY <1>2 DEF calls

LEMMA FirstOf6 ==
  ASSUME NEW set, NEW a \in set, NEW b, NEW c, NEW e, NEW f, NEW g,
         {b, c, e, f, g} \cap Openers = {}
  PROVE  OneIn(<<a, b, c, e, f, g>>, set)
<1> DEFINE calls == <<a, b, c, e, f, g>>
<1>1. Len(calls) = 6 /\ calls[1] \in set /\ 1 \in 1 .. 6
      /\ \A n \in 1 .. 6 : n # 1 => calls[n] \notin Openers
  OBVIOUS
<1> HIDE DEF calls
<1>2. OneIn(calls, set)
  BY <1>1 DEF OneIn
<1> QED
  BY <1>2 DEF calls

LEMMA FourthOf6 ==
  ASSUME NEW set, NEW a, NEW b, NEW c, NEW e \in set, NEW f, NEW g,
         {a, b, c, f, g} \cap Openers = {}
  PROVE  OneIn(<<a, b, c, e, f, g>>, set)
<1> DEFINE calls == <<a, b, c, e, f, g>>
<1>1. Len(calls) = 6 /\ calls[4] \in set /\ 4 \in 1 .. 6
      /\ \A n \in 1 .. 6 : n # 4 => calls[n] \notin Openers
  OBVIOUS
<1> HIDE DEF calls
<1>2. OneIn(calls, set)
  BY <1>1 DEF OneIn
<1> QED
  BY <1>2 DEF calls

LEMMA FirstOf9 ==
  ASSUME NEW set, NEW a \in set, NEW b, NEW c, NEW e, NEW f, NEW g, NEW h, NEW i, NEW j,
         {b, c, e, f, g, h, i, j} \cap Openers = {}
  PROVE  OneIn(<<a, b, c, e, f, g, h, i, j>>, set)
<1> DEFINE calls == <<a, b, c, e, f, g, h, i, j>>
<1>1. Len(calls) = 9 /\ calls[1] \in set /\ 1 \in 1 .. 9
      /\ \A n \in 1 .. 9 : n # 1 => calls[n] \notin Openers
  OBVIOUS
<1> HIDE DEF calls
<1>2. OneIn(calls, set)
  BY <1>1 DEF OneIn
<1> QED
  BY <1>2 DEF calls

LEMMA CompoundOpens ==
  ASSUME NEW t \in {"if", "while", "for", "case", "{", "("}
  PROVE  /\ t = "(" => OneIn(Compound(t), {")"})
         /\ t = "case" => OneIn(Compound(t), Arms)
         /\ t \notin {"(", "case"} => OneIn(Compound(t), Symbols \ Openers)
<1> DEFINE P == Symbols \ Openers
<1>1. "parse_body" \in P /\ "for_name" \in P /\ "parse_case_arms" \in Arms
  BY DEF Symbols, Openers, Arms
<1>2. /\ {"then", "parse_body", "branches", "leave", "trailing_redirects"} \cap Openers = {}
      /\ {"do", "parse_body", "done", "leave", "trailing_redirects"} \cap Openers = {}
      /\ {"skip_newlines", "for_in", "skip_newlines", "do", "parse_body", "done", "leave",
          "trailing_redirects"} \cap Openers = {}
      /\ {"case_word", "skip_newlines", "in", "leave", "trailing_redirects"} \cap Openers = {}
      /\ {"}", "leave", "trailing_redirects"} \cap Openers = {}
      /\ {"parse_body", "leave", "trailing_redirects"} \cap Openers = {}
  BY DEF Openers, Arms
<1> HIDE DEF P
<1>3. CASE t = "if"
  <2>1. Compound(t) = <<"parse_body", "then", "parse_body", "branches", "leave", "trailing_redirects">>
    BY <1>3 DEF Compound
  <2>2. OneIn(Compound(t), P)
    BY <1>1, <1>2, <2>1, FirstOf6
  <2> QED
    BY <1>3, <2>2 DEF P
<1>4. CASE t = "while"
  <2>1. Compound(t) = <<"parse_body", "do", "parse_body", "done", "leave", "trailing_redirects">>
    BY <1>4 DEF Compound
  <2>2. OneIn(Compound(t), P)
    BY <1>1, <1>2, <2>1, FirstOf6
  <2> QED
    BY <1>4, <2>2 DEF P
<1>5. CASE t = "for"
  <2>1. Compound(t) = <<"for_name", "skip_newlines", "for_in", "skip_newlines", "do", "parse_body",
                        "done", "leave", "trailing_redirects">>
    BY <1>5 DEF Compound
  <2>2. OneIn(Compound(t), P)
    BY <1>1, <1>2, <2>1, FirstOf9
  <2> QED
    BY <1>5, <2>2 DEF P
<1>6. CASE t = "case"
  <2>1. Compound(t) = <<"case_word", "skip_newlines", "in", "parse_case_arms", "leave",
                        "trailing_redirects">>
    BY <1>6 DEF Compound
  <2>2. OneIn(Compound(t), Arms)
    BY <1>1, <1>2, <2>1, FourthOf6
  <2> QED
    BY <1>6, <2>2
<1>7. CASE t = "{"
  <2>1. Compound(t) = <<"parse_body", "}", "leave", "trailing_redirects">>
    BY <1>7 DEF Compound
  <2>2. OneIn(Compound(t), P)
    BY <1>1, <1>2, <2>1, FirstOf4
  <2> QED
    BY <1>7, <2>2 DEF P
<1>8. CASE t = "("
  <2>1. Compound(t) = <<"parse_body", ")", "leave", "trailing_redirects">>
    BY <1>8 DEF Compound
  <2> DEFINE paren == {")"}
  <2>2. ")" \in paren
    OBVIOUS
  <2> HIDE DEF paren
  <2>3. OneIn(Compound(t), paren)
    BY <1>2, <2>1, <2>2, SecondOf4
  <2> QED
    BY <1>8, <2>3 DEF paren
<1> QED
  BY <1>3, <1>4, <1>5, <1>6, <1>7, <1>8

LEMMA RuleOpens ==
  ASSUME NEW symbol \in Symbols, NEW t, NEW d,
         Rule(symbol, t, d).does # "fail", Rule(symbol, t, d).symbols # <<>>
  PROVE  LET symbols == Rule(symbol, t, d).symbols IN
         /\ symbol # ")"
         /\ symbol \in Arms => OneIn(symbols, Arms)
         /\ OpensParen(symbol, t) => OneIn(symbols, {")"})
         /\ OpensCase(symbol, t) => OneIn(symbols, Arms)
         /\ symbol \notin Arms /\ ~OpensParen(symbol, t) /\ ~OpensCase(symbol, t)
              => OneIn(symbols, Symbols \ Openers)
<1> DEFINE symbols == Rule(symbol, t, d).symbols
           P == Symbols \ Openers
<1>1. Symbols \ ({")"} \union Arms) = P /\ P \cap Openers = {}
  BY DEF Openers
<1>2. {"parse_list", "parse_body", "top_level", "parse_and_or", "separator", "parse_pipeline",
       "and_or_rest", "skip_newlines", "parse_command", "pipeline_rest", "parse_function",
       "for_words", "then", "branches", "fi", "leave", "arm_end", "case_pattern"}
        \union Simple \union Redirecting \union {"trailing_redirects"} \subseteq P \union {"arm_end"}
  BY DEF Symbols, Openers, Arms, Simple, Redirecting
<1>3. symbol \notin {"parse_command", "parse_function"} => ~OpensParen(symbol, t) /\ ~OpensCase(symbol, t)
  BY DEF OpensParen, OpensCase
<1>4. \A a \in P : OneIn(<<a>>, P)
  BY OneOf
<1>5. \A a, b \in P : OneIn(<<a, b>>, P)
  <2> SUFFICES ASSUME NEW a \in P, NEW b \in P PROVE OneIn(<<a, b>>, P)
    OBVIOUS
  <2>1. b \notin Openers
    OBVIOUS
  <2> HIDE DEF P
  <2> QED
    BY <2>1, OneOf
<1>6. \A a, b, c \in P : OneIn(<<a, b, c>>, P)
  <2> SUFFICES ASSUME NEW a \in P, NEW b \in P, NEW c \in P PROVE OneIn(<<a, b, c>>, P)
    OBVIOUS
  <2>1. {b, c} \cap Openers = {}
    OBVIOUS
  <2> HIDE DEF P
  <2> QED
    BY <2>1, OneOf
<1>7. \A a, b, c, e \in P : OneIn(<<a, b, c, e>>, P)
  <2> SUFFICES ASSUME NEW a \in P, NEW b \in P, NEW c \in P, NEW e \in P PROVE OneIn(<<a, b, c, e>>, P)
    OBVIOUS
  <2>1. {b, c, e} \cap Openers = {}
    OBVIOUS
  <2> HIDE DEF P
  <2> QED
    BY <2>1, OneOf
<1>8. Arms \subseteq Openers /\ ")" \in Openers /\ ")" \notin Arms
  BY DEF Openers, Arms
<1> HIDE DEF P
<1>9. CASE symbol \in {"parse_list", "parse_body", "top_level"}
  <2>1. Rule(symbol, t, d) = ListRule(symbol, t)
    BY <1>9, RuleCases
  <2>2. ListRule(symbol, t) \in {Take(<<symbol>>), Pass(<<>>), Fail,
                                 Pass(<<"parse_and_or", "separator", "top_level">>),
                                 Pass(<<"parse_and_or", "separator", "parse_list">>)}
    BY DEF ListRule, ListEnd, End
  <2>3. OneIn(<<symbol>>, P) /\ OneIn(<<"parse_and_or", "separator", "top_level">>, P)
        /\ OneIn(<<"parse_and_or", "separator", "parse_list">>, P)
    BY <1>2, <1>4, <1>6, <1>9
  <2>4. symbol \notin {")"} \union Arms
    BY <1>9 DEF Arms
  <2> QED
    BY <1>3, <1>9, <2>1, <2>2, <2>3, <2>4, Kinds DEF P
<1>10. CASE symbol \in {"separator", "for_name", "case_word", "case_pattern", "leave",
                        "in", "then", "do", "done", "}", ")"} \union Redirecting
  <2>1. SeparatorRule(t) \in {Take(<<>>), Pass(<<>>), Fail}
    BY DEF SeparatorRule, ListEnd, End
  <2>2. WordRule(symbol, t) \in {Take(<<>>), Fail}
    BY DEF WordRule
  <2>3. Expect(symbol, t) \in {Take(<<>>), Fail}
    BY DEF Expect
  <2>4. Rule(symbol, t, d) \in {Take(<<>>), Pass(<<>>), Fail}
    <3>1. CASE symbol = "separator"
      BY <2>1, <3>1, RuleCases
    <3>2. CASE symbol \in {"for_name", "case_word", "case_pattern"} \union Redirecting
      <4>1. Rule(symbol, t, d) = WordRule(symbol, t)
        BY <3>2, RuleCases
      <4> QED
        BY <2>2, <4>1
    <3>3. CASE symbol = "leave"
      BY <3>3, RuleCases
    <3>4. CASE symbol \in {"in", "then", "do", "done", "}", ")"}
      <4>1. Rule(symbol, t, d) = Expect(symbol, t)
        BY <3>4, RuleCases
      <4> QED
        BY <2>3, <4>1
    <3> QED
      BY <1>10, <3>1, <3>2, <3>3, <3>4
  <2> QED
    BY <2>4, Kinds
<1>11. CASE symbol \in {"parse_and_or", "and_or_rest", "parse_pipeline", "pipeline_rest"}
  <2> DEFINE a == <<"parse_pipeline", "and_or_rest">>
             b == <<"skip_newlines", "parse_pipeline", "and_or_rest">>
             c == <<"parse_command", "pipeline_rest">>
             e == <<"skip_newlines", "parse_command", "pipeline_rest">>
  <2>1. Rule(symbol, t, d) = PipelineRule(symbol, t)
    BY <1>11, RuleCases
  <2>2. PipelineRule(symbol, t) \in {Pass(a), Take(b), Pass(<<>>), Take(c), Pass(c), Take(e)}
    BY <1>11 DEF PipelineRule
  <2>3. OneIn(a, P) /\ OneIn(b, P) /\ OneIn(c, P) /\ OneIn(e, P)
    BY <1>2, <1>5, <1>6
  <2>4. symbol \notin {")"} \union Arms /\ symbol \notin {"parse_command", "parse_function"}
    BY <1>11 DEF Arms
  <2> HIDE DEF a, b, c, e
  <2> QED
    BY <1>3, <2>1, <2>2, <2>3, <2>4, Kinds DEF P
<1>12. CASE symbol = "parse_command"
  <2>0. symbol \notin {")"} \union Arms /\ (OpensParen(symbol, t) <=> t = "(")
        /\ (OpensCase(symbol, t) <=> t = "case")
    BY <1>12 DEF Arms, OpensParen, OpensCase
  <2>1. Rule(symbol, t, d) = CommandRule(t, d)
    BY <1>12, RuleCases
  <2>2. CASE t \in {"if", "while", "for", "case", "{", "("}
    <3>1. CommandRule(t, d) \in {Take(Compound(t)), Fail}
      BY <2>2 DEF CommandRule, WordTokens, Redirections, Reserved
    <3>2. symbols = Compound(t)
      BY <2>1, <3>1, Kinds
    <3>3. /\ t = "(" => OneIn(symbols, {")"})
          /\ t = "case" => OneIn(symbols, Arms)
          /\ t \notin {"(", "case"} => OneIn(symbols, P)
      BY <2>2, <3>2, CompoundOpens DEF P
    <3> HIDE DEF symbols
    <3> QED
      BY <2>0, <3>3 DEF P, symbols
  <2>3. CASE t \in {"x", "-", "X=1"}
    <3> DEFINE word == CASE t = "x"   -> "first_word"
                         [] t = "-"   -> "parse_simple"
                         [] t = "X=1" -> "prefix"
    <3>1. CommandRule(t, d) = Take(<<word>>)
      BY <2>3 DEF CommandRule, WordTokens, Redirections, Reserved
    <3>2. word \in Simple
      BY <2>3 DEF Simple
    <3> HIDE DEF word
    <3>3. OneIn(<<word>>, P)
      BY <1>2, <1>4, <3>2 DEF Simple
    <3> QED
      BY <2>0, <2>1, <2>3, <3>1, <3>3, Kinds DEF P
  <2>4. CASE t \in Redirections
    <3> DEFINE redirect == IF t = "<<" THEN "parse_here_doc" ELSE "parse_redirect"
    <3>1. CommandRule(t, d) = SimpleRule("prefix", t)
      BY <2>4 DEF CommandRule, WordTokens, Redirections, Reserved
    <3>2. SimpleRule("prefix", t) = Take(<<redirect, "prefix">>)
      BY <2>4, RedirectReplaces DEF Simple
    <3>3. OneIn(<<redirect, "prefix">>, P)
      <4>1. redirect \in Redirecting /\ "prefix" \in Simple /\ "arm_end" \notin Redirecting \union Simple
        BY DEF Redirecting, Simple
      <4> HIDE DEF redirect
      <4> QED
        BY <1>2, <1>5, <4>1
    <3>4. t \notin {"(", "case"}
      BY <2>4 DEF Redirections
    <3> HIDE DEF redirect
    <3> QED
      BY <2>0, <2>1, <3>1, <3>2, <3>3, <3>4, Kinds DEF P
  <2>5. CASE t \notin {"if", "while", "for", "case", "{", "(", "x", "-", "X=1"} \union Redirections
    <3>1. CommandRule(t, d) = Fail
      BY <2>5 DEF CommandRule, WordTokens
    <3> QED
      BY <2>1, <3>1, Kinds
  <2> QED
    BY <2>2, <2>3, <2>4, <2>5
<1>13. CASE symbol \in Simple
  <2>0. symbol \notin {")"} \union Arms /\ symbol \notin {"parse_command", "parse_function"}
    BY <1>13 DEF Arms, Simple
  <2>1. Rule(symbol, t, d) = SimpleRule(symbol, t)
    BY <1>13, RuleCases
  <2> DEFINE a == <<"parse_here_doc", "parse_simple">>
             b == <<"parse_redirect", "parse_simple">>
             c == <<"parse_here_doc", symbol>>
             e == <<"parse_redirect", symbol>>
             f == <<"prefix">>
             g == <<"parse_simple">>
             h == <<"parse_function">>
  <2>2. SimpleRule(symbol, t) \in {Take(a), Take(b), Take(c), Take(e), Take(f), Take(g), Pass(h), Pass(<<>>)}
    BY DEF SimpleRule
  <2>3. {"parse_here_doc", "parse_redirect", symbol, "parse_simple", "prefix", "parse_function"} \subseteq P
    BY <1>2, <1>13 DEF Simple, Redirecting
  <2>4. OneIn(a, P) /\ OneIn(b, P) /\ OneIn(c, P) /\ OneIn(e, P) /\ OneIn(f, P) /\ OneIn(g, P) /\ OneIn(h, P)
    BY <1>4, <1>5, <2>3
  <2> HIDE DEF a, b, c, e, f, g, h
  <2> QED
    BY <1>3, <2>0, <2>1, <2>2, <2>4, Kinds DEF P
<1>14. CASE symbol = "parse_function"
  <2> DEFINE more == <<")", "skip_newlines", "parse_command", "leave">>
  <2>1. Rule(symbol, t, d) = FunctionRule(d)
    BY <1>14, RuleCases
  <2>2. FunctionRule(d) \in {Take(more), Fail}
    BY DEF FunctionRule
  <2>3. OneIn(more, {")"})
    <3>1. {"skip_newlines", "parse_command", "leave"} \cap Openers = {}
      BY DEF Openers, Arms
    <3> QED
      BY <3>1, OneOf
  <2>4. symbol \notin {")"} \union Arms /\ OpensParen(symbol, t) /\ ~OpensCase(symbol, t)
    BY <1>14 DEF Arms, OpensParen, OpensCase
  <2> HIDE DEF more
  <2> QED
    BY <2>1, <2>2, <2>3, <2>4, Kinds
<1>15. CASE symbol = "trailing_redirects"
  <2> DEFINE redirect == IF t = "<<" THEN "parse_here_doc" ELSE "parse_redirect"
  <2>1. t \in Redirections => Rule(symbol, t, d) = SimpleRule("trailing_redirects", t)
    BY <1>15, RuleCases
  <2>2. t \notin Redirections => Rule(symbol, t, d) = Pass(<<>>)
    BY <1>15, RuleCases
  <2>3. t \in Redirections => SimpleRule("trailing_redirects", t) = Take(<<redirect, "trailing_redirects">>)
    BY RedirectReplaces
  <2>4. OneIn(<<redirect, "trailing_redirects">>, P)
    <3>1. redirect \in Redirecting /\ "arm_end" \notin Redirecting \union {"trailing_redirects"}
      BY DEF Redirecting
    <3> HIDE DEF redirect
    <3> QED
      BY <1>2, <1>5, <3>1
  <2>5. symbol \notin {")"} \union Arms /\ symbol \notin {"parse_command", "parse_function"}
    BY <1>15 DEF Arms
  <2> HIDE DEF redirect
  <2> QED
    BY <1>3, <2>1, <2>2, <2>3, <2>4, <2>5, Kinds DEF P
<1>16. CASE symbol \in {"branches", "fi"}
  <2> DEFINE elif == <<"parse_body", "then", "parse_body", "branches">>
             else == <<"parse_body", "fi">>
  <2>1. Rule(symbol, t, d) = BranchRule(symbol, t)
    BY <1>16, RuleCases
  <2>2. BranchRule(symbol, t) \in {Take(elif), Take(else), Take(<<>>), Fail}
    BY DEF BranchRule, Expect
  <2>3. OneIn(elif, P) /\ OneIn(else, P)
    BY <1>2, <1>5, <1>7
  <2>4. symbol \notin {")"} \union Arms /\ symbol \notin {"parse_command", "parse_function"}
    BY <1>16 DEF Arms
  <2> HIDE DEF elif, else
  <2> QED
    BY <1>3, <2>1, <2>2, <2>3, <2>4, Kinds DEF P
<1>17. CASE symbol \in {"for_in", "for_words"}
  <2>1. Rule(symbol, t, d) = ForRule(symbol, t)
    BY <1>17, RuleCases
  <2>2. ForRule(symbol, t) \in {Take(<<"for_words">>), Take(<<>>), Pass(<<>>), Fail}
    BY <1>17 DEF ForRule, WordTokens, Reserved, End
  <2>3. OneIn(<<"for_words">>, P)
    BY <1>2, <1>4
  <2>4. symbol \notin {")"} \union Arms /\ symbol \notin {"parse_command", "parse_function"}
    BY <1>17 DEF Arms
  <2> QED
    BY <1>3, <2>1, <2>2, <2>3, <2>4, Kinds DEF P
<1>18. CASE symbol \in Arms
  <2> DEFINE pattern == <<"case_pattern", "pattern_end">>
             arm == <<"parse_list", "arm_end">>
             next == <<"parse_case_arms">>
  <2>1. Rule(symbol, t, d) = CaseRule(symbol, t)
    BY <1>18, RuleCases
  <2>2. CaseRule(symbol, t) \in {Take(pattern), Pass(pattern), Take(arm), Take(next), Take(<<>>), Fail}
    BY <1>18 DEF CaseRule, Arms, Expect
  <2>3. OneIn(pattern, Arms) /\ OneIn(arm, Arms) /\ OneIn(next, Arms)
    <3>1. "case_pattern" \notin Openers /\ "parse_list" \notin Openers
          /\ {"pattern_end", "arm_end", "parse_case_arms"} \subseteq Arms
      BY DEF Openers, Arms
    <3> QED
      BY <3>1, OneOf
  <2>4. symbol # ")" /\ symbol \notin {"parse_command", "parse_function"}
    BY <1>18 DEF Arms
  <2> HIDE DEF pattern, arm, next
  <2> QED
    BY <1>3, <1>18, <2>1, <2>2, <2>3, <2>4, Kinds
<1>19. CASE symbol = "skip_newlines"
  <2>1. Rule(symbol, t, d) \in {Take(<<"skip_newlines">>), Pass(<<>>)}
    BY <1>19, RuleCases
  <2>2. OneIn(<<"skip_newlines">>, P)
    BY <1>2, <1>4
  <2>3. symbol \notin {")"} \union Arms /\ symbol \notin {"parse_command", "parse_function"}
    BY <1>19 DEF Arms
  <2> QED
    BY <1>3, <2>1, <2>2, <2>3, Kinds DEF P
<1> QED
  BY <1>9, <1>10, <1>11, <1>12, <1>13, <1>14, <1>15, <1>16, <1>17, <1>18, <1>19 DEF Symbols

(* What a rule does to the parentheses and cases that are open.            *)
LEMMA NestedStep ==
  ASSUME NEW stack, Shape(stack), NEW open, Nested(stack, open), NEW t, NEW d,
         Rule(stack[1], t, d).does # "fail"
  PROVE  LET rule == Rule(stack[1], t, d)
             next == rule.symbols \o Tail(stack)
         IN \E under \in Opens :
              /\ open = Opened(stack[1], under)
              /\ rule.symbols = <<>> => Nested(next, under)
              /\ rule.symbols # <<>> /\ stack[1] \in Arms => Nested(next, open)
              /\ rule.symbols # <<>> /\ OpensParen(stack[1], t) =>
                   Nested(next, [parens |-> open.parens + 1, case_stack |-> open.case_stack])
              /\ rule.symbols # <<>> /\ OpensCase(stack[1], t) =>
                   Nested(next, [parens |-> open.parens,
                                 case_stack |-> Append(open.case_stack, open.parens)])
              /\ stack[1] \notin Openers /\ ~OpensParen(stack[1], t) /\ ~OpensCase(stack[1], t) =>
                   Nested(next, open)
<1> DEFINE symbol == stack[1]
           rest == Tail(stack)
           symbols == Rule(stack[1], t, d).symbols
           next == symbols \o rest
<1>1. symbol \in Symbols /\ rest \in Seq(Symbols) /\ stack \in Seq(Symbols) /\ stack # <<>>
  BY ShapeTop DEF Shape
<1>2. PICK under \in Opens : Nested(rest, under) /\ open = Opened(symbol, under)
  BY <1>1, NestedTail
<1>3. symbol \notin Openers => open = under
  BY <1>2, OpenedIs
<1>4. symbols = <<>> => next = rest
  BY <1>1, NoneBefore
<1>5. symbols # <<>> =>
        /\ symbols \in Seq(Symbols)
        /\ symbol # ")"
        /\ symbol \in Arms => OneIn(symbols, Arms)
        /\ OpensParen(symbol, t) => OneIn(symbols, {")"})
        /\ OpensCase(symbol, t) => OneIn(symbols, Arms)
        /\ symbol \notin Arms /\ ~OpensParen(symbol, t) /\ ~OpensCase(symbol, t)
             => OneIn(symbols, Symbols \ Openers)
  BY <1>1, RuleReplaces, RuleOpens DEF Replaces, Chain
<1> HIDE DEF symbols, rest
<1>6. ASSUME NEW set, symbols \in Seq(Symbols), OneIn(symbols, set)
      PROVE  \E opener \in set : Nested(next, Opened(opener, under))
  BY <1>1, <1>2, <1>6, NestedPush DEF OneIn
<1> HIDE DEF next
<1>7. symbols # <<>> /\ symbol \in Arms => Nested(next, open)
  <2> SUFFICES ASSUME symbols # <<>>, symbol \in Arms PROVE Nested(next, open)
    OBVIOUS
  <2>1. PICK opener \in Arms : Nested(next, Opened(opener, under))
    BY <1>5, <1>6
  <2>2. Opened(opener, under) = open
    BY <1>2, OpenedIs
  <2> QED
    BY <2>1, <2>2
<1>8. symbols # <<>> /\ OpensParen(symbol, t) =>
        Nested(next, [parens |-> open.parens + 1, case_stack |-> open.case_stack])
  <2> SUFFICES ASSUME symbols # <<>>, OpensParen(symbol, t)
               PROVE  Nested(next, [parens |-> open.parens + 1, case_stack |-> open.case_stack])
    OBVIOUS
  <2>1. Nested(next, Opened(")", under))
    BY <1>5, <1>6
  <2>2. symbol \notin Openers
    BY DEF OpensParen, Openers, Arms
  <2> QED
    BY <1>3, <2>1, <2>2, OpenedIs
<1>9. symbols # <<>> /\ OpensCase(symbol, t) =>
        Nested(next, [parens |-> open.parens, case_stack |-> Append(open.case_stack, open.parens)])
  <2> SUFFICES ASSUME symbols # <<>>, OpensCase(symbol, t)
               PROVE  Nested(next, [parens |-> open.parens,
                                    case_stack |-> Append(open.case_stack, open.parens)])
    OBVIOUS
  <2>1. PICK opener \in Arms : Nested(next, Opened(opener, under))
    BY <1>5, <1>6
  <2>2. symbol \notin Openers
    BY DEF OpensCase, Openers, Arms
  <2> QED
    BY <1>3, <2>1, <2>2, OpenedIs
<1>10. symbol \notin Openers /\ ~OpensParen(symbol, t) /\ ~OpensCase(symbol, t) => Nested(next, open)
  <2> SUFFICES ASSUME symbol \notin Openers, ~OpensParen(symbol, t), ~OpensCase(symbol, t)
               PROVE  Nested(next, open)
    OBVIOUS
  <2>1. CASE symbols = <<>>
    BY <1>2, <1>3, <1>4, <2>1
  <2>2. CASE symbols # <<>>
    <3>1. PICK opener \in Symbols \ Openers : Nested(next, Opened(opener, under))
      BY <1>5, <1>6, <2>2 DEF Openers
    <3>2. Opened(opener, under) = open
      BY <1>3, OpenedIs
    <3> QED
      BY <3>1, <3>2
  <2> QED
    BY <2>1, <2>2
<1>11. symbols = <<>> => Nested(next, under)
  BY <1>2, <1>4
<1> HIDE DEF symbol
<1> QED
  BY <1>2, <1>7, <1>8, <1>9, <1>10, <1>11 DEF symbol, symbols, next, rest

(* Looking at t through another call opens and closes nothing.             *)
LEMMA NestedCalled ==
  ASSUME NEW stack, Shape(stack), NEW open, Nested(stack, open), NEW t,
         ~Returns(stack[1], t)
  PROVE  Nested(Called(stack, t), open)
<1>1. CASE Rule(stack[1], t, 0).does # "pass"
  BY <1>1, CallsThrough
<1>2. CASE Rule(stack[1], t, 0).does = "pass"
  <2>1. stack[1] \in Symbols /\ Head(stack) = stack[1]
    BY ShapeTop
  <2>2. Called(stack, t) = Rule(stack[1], t, 0).symbols \o Tail(stack)
    BY <1>2, <2>1 DEF Called, CalledBy
  <2>3. Rule(stack[1], t, 0).symbols # <<>> /\ Through(stack[1], Rule(stack[1], t, 0).symbols[1])
    BY <1>2, <2>1, WhoCalls
  <2>4. ~OpensParen(stack[1], t) /\ ~OpensCase(stack[1], t)
        /\ (stack[1] \in Arms \/ stack[1] \notin Openers)
    BY <2>3 DEF Through, OpensParen, OpensCase, Openers
  <2>5. Rule(stack[1], t, 0).does # "fail"
    BY <1>2
  <2> DEFINE next == Rule(stack[1], t, 0).symbols \o Tail(stack)
  <2>6. \E under \in Opens :
          /\ Rule(stack[1], t, 0).symbols # <<>> /\ stack[1] \in Arms => Nested(next, open)
          /\ stack[1] \notin Openers /\ ~OpensParen(stack[1], t) /\ ~OpensCase(stack[1], t) =>
               Nested(next, open)
    BY <2>5, NestedStep
  <2> HIDE DEF next
  <2>7. Nested(next, open)
    BY <2>3, <2>4, <2>6
  <2> QED
    BY <2>2, <2>7 DEF next
<1> QED
  BY <1>1, <1>2

(* A call that returns had opened nothing.                                 *)
LEMMA NestedReturn ==
  ASSUME NEW stack, Shape(stack), NEW open, Nested(stack, open), NEW t, Leaves(stack[1], t)
  PROVE  Nested(Tail(stack), open)
<1>1. stack \in Seq(Symbols) /\ stack # <<>>
  BY DEF Shape
<1>2. stack[1] \notin Openers
  BY DEF Leaves, Openers, Arms, Simple
<1>3. PICK under \in Opens : Nested(Tail(stack), under) /\ open = Opened(stack[1], under)
  BY <1>1, NestedTail
<1> QED
  BY <1>2, <1>3, OpenedIs

(* The scanner is right for these calls.                                   *)
Knows(stack, s, t) == Fits(stack, s, t) /\ Nested(stack, OpenIn(s))

(* The scanner stays right for the call that is reached.                   *)
LEMMA ReachedKnows ==
  ASSUME NEW p \in ParseType, Shape(p.stack), p.stack[1] # "parse_function",
         NEW t, t # End, NEW s, Knows(p.stack, s, t)
  PROVE  Knows(Reached(p, t).stack, s, t)
<1> DEFINE K == {stack \in Seq(Symbols) : Knows(stack, s, t)}
<1>1. ASSUME NEW stack \in K, Shape(stack), Leaves(stack[1], t) PROVE Tail(stack) \in K
  <2>1. Tail(stack) \in Seq(Symbols)
    BY <1>1, ShapeTop
  <2> QED
    BY <1>1, <2>1, FitsTail, NestedReturn DEF Knows
<1>2. ASSUME NEW stack \in K, Shape(stack), ~Returns(stack[1], t) PROVE Called(stack, t) \in K
  <2>1. Called(stack, t) \in Seq(Symbols)
    BY <1>2, CallsThrough DEF Shape
  <2> QED
    BY <1>2, <2>1, FitsCalled, NestedCalled DEF Knows
<1>3. p.stack \in K
  BY DEF Shape
<1> HIDE DEF K
<1>4. Lasting(K, t)
  BY <1>1, <1>2 DEF Lasting
<1>5. Reached(p, t).stack \in K
  BY <1>3, <1>4, ReachedHolds
<1> QED
  BY <1>5 DEF K

-----------------------------------------------------------------------------
(* A symbol takes a token: what becomes of the scanner.                    *)

(* A symbol takes t: what is to hold of the stack and the scanner before   *)
(* and after.                                                              *)
Taking(stack, s, t, d) ==
  /\ Shape(stack) /\ Settled(stack, t) /\ t \in Tokens
  /\ s \in ScanType /\ Knows(stack, s, t)
  /\ Rule(stack[1], t, d).does = "take"

(* The scanner is right for the calls that are left when t is taken.       *)
Kept(stack, s, t, d) ==
  LET next == Rule(stack[1], t, d).symbols \o Tail(stack) IN
  /\ Scan(s, t) \in ScanType
  /\ \A u \in Tokens : Fits(next, Scan(s, t), u)
  /\ Nested(next, OpenIn(Scan(s, t)))

\* The scanner is right for the calls that take the place of the innermost one.
Goes(symbols, s) ==
  \/ symbols[1] \notin Redirecting \union {"skip_newlines"} /\ Mooded(symbols[1], s)
  \/ symbols[1] = "skip_newlines" /\ Len(symbols) > 1 /\ Mooded(symbols[2], s)
  \/ /\ symbols[1] \in Redirecting /\ Len(symbols) > 1
     /\ s.after_redirect /\ (s.want_delimiter <=> symbols[1] = "parse_here_doc")
     /\ Mooded(symbols[2], Redirected(s))

\* The scanner is right for the caller of the innermost call, which has ended.
Ends(stack, s) ==
  /\ stack[2] # "skip_newlines" => Mooded(stack[2], s)
  /\ stack[2] = "skip_newlines" => \A symbol \in Behind(stack[1]) : Mooded(symbol, s)

LEMMA GoesFits ==
  ASSUME NEW stack, Shape(stack), NEW symbols, Replaces(symbols, stack[1]), NEW s, Goes(symbols, s)
  PROVE  \A u \in Tokens : Fits(symbols \o Tail(stack), s, u)
<1> DEFINE next == symbols \o Tail(stack)
<1>0. next = Pushed(symbols, stack)
  BY DEF Pushed
<1> HIDE DEF next
<1>1. next[1] = symbols[1] /\ (Len(symbols) > 1 => next[2] = symbols[2])
  BY <1>0, ShapePush
<1> SUFFICES ASSUME NEW u \in Tokens PROVE Fits(next, s, u)
  BY DEF next
<1>2. CASE symbols[1] \notin Redirecting \union {"skip_newlines"} /\ Mooded(symbols[1], s)
  <2>1. next[1] \notin Redirecting \union {"skip_newlines"} /\ Mood(next[1], s, u)
    BY <1>1, <1>2 DEF Mooded
  <2> QED
    BY <2>1, FitsPlain
<1>3. CASE symbols[1] = "skip_newlines" /\ Len(symbols) > 1 /\ Mooded(symbols[2], s)
  <2>1. next[1] = "skip_newlines" /\ Mood(next[2], s, u) /\ next[1] \notin Redirecting
    BY <1>1, <1>3 DEF Mooded, Redirecting
  <2> QED
    BY <2>1 DEF Fits
<1>4. CASE /\ symbols[1] \in Redirecting /\ Len(symbols) > 1
           /\ s.after_redirect /\ (s.want_delimiter <=> symbols[1] = "parse_here_doc")
           /\ Mooded(symbols[2], Redirected(s))
  <2>1. next[1] \in Redirecting /\ next[1] # "skip_newlines"
        /\ (s.want_delimiter <=> next[1] = "parse_here_doc") /\ Mooded(next[2], Redirected(s))
    BY <1>1, <1>4 DEF Redirecting
  <2> QED
    BY <1>4, <2>1 DEF Fits
<1> QED
  BY <1>2, <1>3, <1>4 DEF Goes

LEMMA Caller ==
  ASSUME NEW stack, Shape(stack), stack[1] # "top_level"
  PROVE  /\ stack[2] \in Below(stack[1]) /\ stack[2] \notin Redirecting
         /\ Tail(stack)[1] = stack[2] /\ Shape(Tail(stack))
         /\ stack[2] = "skip_newlines" =>
              Tail(stack)[2] = stack[3] /\ stack[3] \in Behind(stack[1]) /\ stack[3] \in Below("skip_newlines")
<1> DEFINE rest == Tail(stack)
<1>1. Shape(rest) /\ rest[1] \in Below(stack[1])
  BY ShapeTail
<1>2. Len(stack) \in Nat /\ Len(stack) > 0 /\ Len(stack) # 1 /\ Len(rest) = Len(stack) - 1
      /\ \A n \in 1 .. Len(stack) - 1 : rest[n] = stack[n + 1]
  BY ShapeTop
<1> HIDE DEF rest
<1>3. rest[1] = stack[2]
  BY <1>2
<1>4. \A symbol : Below(symbol) \cap Redirecting = {}
  <2>1. \A symbol : "parse_redirect" \notin Below(symbol)
    BY DEF Below, Simple, Arms, Redirecting
  <2>2. \A symbol : "parse_here_doc" \notin Below(symbol)
    BY DEF Below, Simple, Arms, Redirecting
  <2> QED
    BY <2>1, <2>2 DEF Redirecting
<1>5. ASSUME stack[2] = "skip_newlines"
      PROVE  rest[2] = stack[3] /\ stack[3] \in Behind(stack[1]) /\ stack[3] \in Below("skip_newlines")
  <2>1. Len(rest) \in Nat /\ Len(rest) # 1 /\ Len(rest) > 0
    BY <1>1, <1>3, <1>5, ShapeTop
  <2>2. 1 \in 1 .. Len(stack) - 2 /\ 2 \in 1 .. Len(stack) - 1
    BY <1>2, <2>1
  <2>3. stack[1 + 1] = "skip_newlines" => stack[1 + 2] \in Behind(stack[1])
    BY <2>2 DEF Shape
  <2>4. stack[3] \in Behind(stack[1])
    BY <1>5, <2>3
  <2>5. stack[2 + 1] \in Below(stack[2])
    BY <2>2 DEF Shape
  <2>6. stack[3] \in Below("skip_newlines")
    BY <1>5, <2>5
  <2> QED
    BY <1>2, <2>2, <2>4, <2>6
<1> QED
  BY <1>1, <1>3, <1>4, <1>5 DEF rest

LEMMA EndsFits ==
  ASSUME NEW stack, Shape(stack), stack[1] # "top_level", NEW s, Ends(stack, s)
  PROVE  \A u \in Tokens : Fits(Tail(stack), s, u)
<1> SUFFICES ASSUME NEW u \in Tokens PROVE Fits(Tail(stack), s, u)
  OBVIOUS
<1>1. /\ stack[2] \notin Redirecting /\ Tail(stack)[1] = stack[2]
      /\ stack[2] = "skip_newlines" => Tail(stack)[2] = stack[3] /\ stack[3] \in Behind(stack[1])
  BY Caller
<1>2. CASE stack[2] # "skip_newlines"
  <2>1. Mood(Tail(stack)[1], s, u) /\ Tail(stack)[1] \notin Redirecting \union {"skip_newlines"}
    BY <1>1, <1>2 DEF Ends, Mooded
  <2> QED
    BY <2>1, FitsPlain
<1>3. CASE stack[2] = "skip_newlines"
  <2>1. Mood(Tail(stack)[2], s, u) /\ Tail(stack)[1] = "skip_newlines"
    BY <1>1, <1>3 DEF Ends, Mooded
  <2> QED
    BY <2>1 DEF Fits, Redirecting
<1> QED
  BY <1>2, <1>3

(* What is open when a symbol that closes it is on top.                    *)
LEMMA OpenAtTop ==
  ASSUME NEW stack, Shape(stack), NEW s \in ScanType, Nested(stack, OpenIn(s))
  PROVE  /\ stack[1] = ")" => s.parens > 0 /\ ~AtPatternEnd(s)
         /\ stack[1] \in Arms => InCase(s) /\ AtPatternEnd(s)
<1>1. PICK under \in Opens : OpenIn(s) = Opened(stack[1], under)
  BY NestedTail DEF Shape
<1>2. under.parens \in Nat /\ under.case_stack \in Seq(Nat) /\ Len(under.case_stack) \in Nat
      /\ \A n \in 1 .. Len(under.case_stack) : under.case_stack[n] <= under.parens
  BY DEF Opens
<1>3. ASSUME stack[1] = ")" PROVE s.parens > 0 /\ ~AtPatternEnd(s)
  <2>1. OpenIn(s) = [parens |-> under.parens + 1, case_stack |-> under.case_stack]
    BY <1>1, <1>3, OpenedIs
  <2>2. s.parens = under.parens + 1 /\ s.case_stack = under.case_stack
    BY <2>1 DEF OpenIn
  <2>3. ASSUME AtPatternEnd(s) PROVE FALSE
    <3>1. s.case_stack # <<>> /\ s.case_stack[Len(s.case_stack)] = s.parens
      BY <2>3 DEF AtPatternEnd, InCase, Last
    <3>2. Len(under.case_stack) \in 1 .. Len(under.case_stack)
      BY <1>2, <2>2, <3>1
    <3>3. under.case_stack[Len(under.case_stack)] <= under.parens
      BY <1>2, <3>2
    <3> QED
      BY <1>2, <2>2, <3>1, <3>3
  <2> QED
    BY <1>2, <2>2, <2>3
<1>4. ASSUME stack[1] \in Arms PROVE InCase(s) /\ AtPatternEnd(s)
  <2>1. OpenIn(s) = [parens |-> under.parens, case_stack |-> Append(under.case_stack, under.parens)]
    BY <1>1, <1>4, OpenedIs
  <2>2. s.parens = under.parens /\ s.case_stack = Append(under.case_stack, under.parens)
    BY <2>1 DEF OpenIn
  <2>3. Len(Append(under.case_stack, under.parens)) = Len(under.case_stack) + 1
        /\ Append(under.case_stack, under.parens)[Len(under.case_stack) + 1] = under.parens
    BY <1>2
  <2>4. Append(under.case_stack, under.parens) # <<>>
    BY <1>2
  <2> QED
    BY <2>2, <2>3, <2>4 DEF AtPatternEnd, InCase, Last
<1> QED
  BY <1>3, <1>4

(* A call that goes on, with what t opens.                                 *)
LEMMA KeptGoing ==
  ASSUME NEW stack, NEW s, NEW t, NEW d, Taking(stack, s, t, d), Rule(stack[1], t, d).symbols # <<>>,
         Scan(s, t) \in ScanType, Goes(Rule(stack[1], t, d).symbols, Scan(s, t)),
         \/ SameNest(s, Scan(s, t)) /\ ~OpensParen(stack[1], t) /\ ~OpensCase(stack[1], t)
         \/ /\ OpensParen(stack[1], t) /\ Scan(s, t).parens = s.parens + 1
            /\ Scan(s, t).case_stack = s.case_stack
         \/ /\ OpensCase(stack[1], t) /\ Scan(s, t).parens = s.parens
            /\ Scan(s, t).case_stack = Append(s.case_stack, s.parens)
  PROVE  Kept(stack, s, t, d)
<1> DEFINE rule == Rule(stack[1], t, d)
           next == rule.symbols \o Tail(stack)
           s1 == Scan(s, t)
<1>1. Shape(stack) /\ stack[1] \in Symbols /\ t \in Tokens /\ rule.does # "fail"
      /\ Nested(stack, OpenIn(s))
  BY ShapeTop DEF Taking, Knows
<1>2. Replaces(rule.symbols, stack[1]) /\ stack[1] # ")"
  BY <1>1, RuleReplaces, RuleOpens
<1>3. \A u \in Tokens : Fits(next, s1, u)
  BY <1>1, <1>2, GoesFits
<1>4. /\ stack[1] \in Arms => Nested(next, OpenIn(s))
      /\ OpensParen(stack[1], t) =>
           Nested(next, [parens |-> OpenIn(s).parens + 1, case_stack |-> OpenIn(s).case_stack])
      /\ OpensCase(stack[1], t) =>
           Nested(next, [parens |-> OpenIn(s).parens,
                         case_stack |-> Append(OpenIn(s).case_stack, OpenIn(s).parens)])
      /\ stack[1] \notin Openers /\ ~OpensParen(stack[1], t) /\ ~OpensCase(stack[1], t) =>
           Nested(next, OpenIn(s))
  BY <1>1, NestedStep
<1>5. OpenIn(s).parens = s.parens /\ OpenIn(s).case_stack = s.case_stack
  BY DEF OpenIn
<1> HIDE DEF next, s1
<1>6. Nested(next, OpenIn(s1))
  <2>1. CASE SameNest(s, s1) /\ ~OpensParen(stack[1], t) /\ ~OpensCase(stack[1], t)
    <3>1. OpenIn(s1) = OpenIn(s)
      BY <2>1 DEF SameNest, OpenIn
    <3>2. stack[1] \in Arms \/ stack[1] \notin Openers
      BY <1>2 DEF Openers
    <3> QED
      BY <1>4, <2>1, <3>1, <3>2
  <2>2. CASE OpensParen(stack[1], t) /\ s1.parens = s.parens + 1 /\ s1.case_stack = s.case_stack
    <3>1. OpenIn(s1) = [parens |-> s.parens + 1, case_stack |-> s.case_stack]
      BY <2>2 DEF OpenIn
    <3> QED
      BY <1>4, <1>5, <2>2, <3>1
  <2>3. CASE /\ OpensCase(stack[1], t) /\ s1.parens = s.parens
             /\ s1.case_stack = Append(s.case_stack, s.parens)
    <3>1. OpenIn(s1) = [parens |-> s.parens, case_stack |-> Append(s.case_stack, s.parens)]
      BY <2>3 DEF OpenIn
    <3> QED
      BY <1>4, <1>5, <2>3, <3>1
  <2> QED
    BY <2>1, <2>2, <2>3 DEF s1
<1> QED
  BY <1>3, <1>6 DEF Kept, next, s1

(* A call that ends, with what t closes.                                   *)
LEMMA KeptEnding ==
  ASSUME NEW stack, NEW s, NEW t, NEW d, Taking(stack, s, t, d), Rule(stack[1], t, d).symbols = <<>>,
         stack[1] # "top_level", Scan(s, t) \in ScanType, Ends(stack, Scan(s, t)),
         \/ SameNest(s, Scan(s, t)) /\ stack[1] \notin Openers
         \/ /\ stack[1] = ")" /\ Scan(s, t).parens = s.parens - 1
            /\ Scan(s, t).case_stack = s.case_stack
         \/ /\ stack[1] \in Arms /\ Scan(s, t).parens = s.parens
            /\ Scan(s, t).case_stack = Front(s.case_stack)
  PROVE  Kept(stack, s, t, d)
<1> DEFINE s1 == Scan(s, t)
<1>1. Shape(stack) /\ stack[1] \in Symbols /\ t \in Tokens /\ Nested(stack, OpenIn(s))
      /\ stack \in Seq(Symbols) /\ stack # <<>> /\ Tail(stack) \in Seq(Symbols)
  BY ShapeTop DEF Taking, Knows, Shape
<1>2. Rule(stack[1], t, d).symbols \o Tail(stack) = Tail(stack)
  BY <1>1, NoneBefore
<1>3. \A u \in Tokens : Fits(Tail(stack), s1, u)
  BY <1>1, EndsFits
<1>4. PICK under \in Opens : Nested(Tail(stack), under) /\ OpenIn(s) = Opened(stack[1], under)
  BY <1>1, NestedTail
<1>5. under = [parens |-> under.parens, case_stack |-> under.case_stack]
      /\ under.parens \in Nat /\ under.case_stack \in Seq(Nat)
  BY DEF Opens
<1> HIDE DEF s1
<1>6. OpenIn(s1) = under
  <2>1. CASE SameNest(s, s1) /\ stack[1] \notin Openers
    <3>1. OpenIn(s1) = OpenIn(s)
      BY <2>1 DEF SameNest, OpenIn
    <3> QED
      BY <1>4, <2>1, <3>1, OpenedIs
  <2>2. CASE stack[1] = ")" /\ s1.parens = s.parens - 1 /\ s1.case_stack = s.case_stack
    <3>1. OpenIn(s) = [parens |-> under.parens + 1, case_stack |-> under.case_stack]
      BY <1>4, <2>2, OpenedIs
    <3>2. s.parens = under.parens + 1 /\ s.case_stack = under.case_stack
      BY <3>1 DEF OpenIn
    <3>3. s1.parens = under.parens /\ s1.case_stack = under.case_stack
      BY <1>5, <2>2, <3>2
    <3> QED
      BY <1>5, <3>3 DEF OpenIn
  <2>3. CASE stack[1] \in Arms /\ s1.parens = s.parens /\ s1.case_stack = Front(s.case_stack)
    <3>1. OpenIn(s) = [parens |-> under.parens, case_stack |-> Append(under.case_stack, under.parens)]
      BY <1>4, <2>3, OpenedIs
    <3>2. s.parens = under.parens /\ s.case_stack = Append(under.case_stack, under.parens)
      BY <3>1 DEF OpenIn
    <3>3. Front(Append(under.case_stack, under.parens)) = under.case_stack
      <4> DEFINE more == Append(under.case_stack, under.parens)
      <4>1. /\ more \in Seq(Nat) /\ Len(more) = Len(under.case_stack) + 1 /\ Len(under.case_stack) \in Nat
            /\ \A n \in 1 .. Len(under.case_stack) : more[n] = under.case_stack[n]
        BY <1>5
      <4> HIDE DEF more
      <4>2. Len(more) - 1 = Len(under.case_stack)
        BY <4>1
      <4>3. Front(more) = SubSeq(more, 1, Len(under.case_stack))
        BY <4>2 DEF Front
      <4>4. /\ Front(more) \in Seq(Nat) /\ Len(Front(more)) = Len(under.case_stack)
            /\ \A n \in 1 .. Len(under.case_stack) : Front(more)[n] = more[n]
        BY <4>1, <4>3, SubSeqProperties
      <4>5. Front(more) = under.case_stack
        BY <1>5, <4>1, <4>4, SeqEqual
      <4> QED
        BY <4>5 DEF more
    <3> QED
      BY <1>5, <2>3, <3>2, <3>3 DEF OpenIn
  <2> QED
    BY <2>1, <2>2, <2>3 DEF s1
<1> QED
  BY <1>2, <1>3, <1>4, <1>6 DEF Kept, s1

LEMMA ReadyMoods ==
  ASSUME NEW s, Ready(s)
  PROVE  /\ \A symbol \in Plain \union {"do"} : Mooded(symbol, s)
         /\ s.after_compound => Mooded("leave", s) /\ Mooded("trailing_redirects", s)
<1>1. \A u : Quiet(s, u)
  BY DEF Ready, Quiet
<1> QED
  BY <1>1, MoodCases DEF Mooded

-----------------------------------------------------------------------------
(* What a word is to the parser and to the scanner, symbol by symbol.      *)

(* Role, when the symbol that takes the word is known.                     *)
RoleOf(symbol, t) ==
  CASE symbol \in {"parse_command", "prefix"} /\ t = "X=1"       -> "assignment"
    [] symbol = "prefix" /\ t # "X=1"                            -> "command"
    [] symbol = "parse_command" /\ t \notin Reserved \union {"X=1"} -> "command"
    [] symbol = "parse_here_doc"                                 -> "delimiter"
    [] symbol \in {"parse_simple", "first_word", "parse_redirect", "for_name", "case_word",
                   "case_pattern", "pattern_end", "for_words"}   -> "plain"
    [] OTHER                                                     -> "keyword"

(* ScannerGap, when the symbol that takes the token is known.              *)
Gap(symbol, s, t) ==
  \/ t \in Redirections /\ s.after_compound /\ symbol = "parse_command"
  \/ t = "in" /\ s.expect = "for_after_name" /\ s.command_position

(* The scanner sees in t what the parser takes it for, and stays right     *)
(* unless it is one of the gaps.                                           *)
Agrees(stack, s, t, d) ==
  /\ ~Gap(stack[1], s, t) => Kept(stack, s, t, d)
  /\ t \in WordTokens => classify(s, t).class = RoleOf(stack[1], t)
  /\ t = ")" => ~Unclaimed(s)

LEMMA RoleCases ==
  ASSUME NEW t
  PROVE  /\ \A symbol \in {"parse_simple", "first_word", "parse_redirect", "for_name", "case_word",
                           "case_pattern", "pattern_end", "for_words"} : RoleOf(symbol, t) = "plain"
         /\ RoleOf("parse_here_doc", t) = "delimiter"
         /\ RoleOf("prefix", t) = IF t = "X=1" THEN "assignment" ELSE "command"
         /\ t = "X=1" => RoleOf("parse_command", t) = "assignment"
         /\ t \notin Reserved \union {"X=1"} => RoleOf("parse_command", t) = "command"
         /\ t \in Reserved /\ t # "X=1" => RoleOf("parse_command", t) = "keyword"
BY DEF RoleOf

LEMMA RoleKeyword ==
  ASSUME NEW t,
         NEW symbol \in {"parse_pipeline", "branches", "fi", "for_in", "parse_case_arms", "arm_end",
                        "in", "then", "do", "done"}
  PROVE  RoleOf(symbol, t) = "keyword"
BY DEF RoleOf

LEMMA TokenKinds ==
  /\ \A t \in Operators \union {"newline"} : t \notin WordTokens
  /\ Redirections \subseteq Operators /\ Reserved \subseteq WordTokens
  /\ {";", "&", "&&", "||", "|", "(", ")", ";;"} \subseteq Operators
  /\ "newline" \notin Operators /\ ")" \notin Redirections /\ "X=1" \notin Reserved
  /\ \A t \in WordTokens : t \in Reserved \/ t = "X=1" \/ t \in {"x", "-"}
  /\ "x" \notin Reserved /\ "-" \notin Reserved
BY DEF Operators, Redirections, WordTokens, Reserved

(* What a symbol that takes a token can count on.                          *)
LEMMA TakingFacts ==
  ASSUME NEW stack, NEW s, NEW t, NEW d, Taking(stack, s, t, d)
  PROVE  /\ Shape(stack) /\ stack[1] \in Symbols /\ t \in Tokens /\ s \in ScanType
         /\ stack[1] \notin Redirecting \union {"skip_newlines"} => Mood(stack[1], s, t)
         /\ stack[1] # "top_level" => stack[2] \in Below(stack[1])
         /\ stack[1] = ")" => s.parens > 0 /\ ~AtPatternEnd(s)
         /\ stack[1] \in Arms => InCase(s) /\ AtPatternEnd(s)
<1>1. Shape(stack) /\ t \in Tokens /\ s \in ScanType /\ Fits(stack, s, t) /\ Nested(stack, OpenIn(s))
  BY DEF Taking, Knows
<1>2. stack[1] \in Symbols
  BY <1>1, ShapeTop
<1> QED
  BY <1>1, <1>2, FitsPlain, Caller, OpenAtTop

LEMMA TakenNotPassed ==
  ASSUME NEW rule, rule.does = "take", NEW symbols
  PROVE  rule # Pass(symbols) /\ rule # Fail /\ (rule = Take(symbols) => rule.symbols = symbols)
BY Kinds

LEMMA NewlineReady ==
  ASSUME NEW s \in ScanType, Still(s, "nothing")
  PROVE  Scan(s, "newline") \in ScanType /\ SameNest(s, Scan(s, "newline")) /\ Ready(Scan(s, "newline"))
BY ScanNewline DEF Still, Ready

LEMMA GoesOn ==
  ASSUME NEW s, NEW symbols, symbols[1] \notin Redirecting \union {"skip_newlines"}, Mooded(symbols[1], s)
  PROVE  Goes(symbols, s)
BY DEF Goes

LEMMA TakeList ==
  ASSUME NEW stack, NEW s, NEW t, NEW d, Taking(stack, s, t, d),
         stack[1] \in {"parse_list", "parse_body", "top_level"}
  PROVE  Agrees(stack, s, t, d)
<1> DEFINE symbol == stack[1]
           rule == Rule(symbol, t, d)
<1>1. rule = ListRule(symbol, t) /\ rule.does = "take"
  BY RuleCases DEF Taking
<1>2. t = "newline"
  <2>1. t # "newline" => ListRule(symbol, t) = Fail \/ \E symbols : ListRule(symbol, t) = Pass(symbols)
    BY DEF ListRule
  <2> HIDE DEF rule
  <2> QED
    BY <1>1, <2>1, TakenNotPassed
<1>3. rule = Take(<<symbol>>)
  BY <1>1, <1>2 DEF ListRule, ListEnd, End
<1>4. rule.symbols = <<symbol>> /\ <<symbol>> # <<>> /\ <<symbol>>[1] = symbol
  BY <1>3, Kinds, Chain1 DEF Chain
<1>5. Still(s, "nothing") /\ s \in ScanType
  <2>1. Mood(symbol, s, t)
    BY TakingFacts DEF Redirecting
  <2> QED
    BY <2>1, TakingFacts, MoodCases DEF Plain, Quiet
<1>6. /\ Scan(s, t) \in ScanType /\ SameNest(s, Scan(s, t)) /\ Ready(Scan(s, t))
  BY <1>2, <1>5, NewlineReady
<1>7. Goes(<<symbol>>, Scan(s, t))
  <2>1. Mooded(symbol, Scan(s, t)) /\ symbol \notin Redirecting \union {"skip_newlines"}
    BY <1>6, ReadyMoods DEF Plain, Redirecting
  <2> QED
    BY <1>4, <2>1, GoesOn
<1>8. ~OpensParen(symbol, t) /\ ~OpensCase(symbol, t)
  BY DEF OpensParen, OpensCase
<1>9. Kept(stack, s, t, d)
  BY <1>4, <1>6, <1>7, <1>8, KeptGoing
<1> QED
  BY <1>2, <1>9, TokenKinds DEF Agrees

LEMMA TakeSeparator ==
  ASSUME NEW stack, NEW s, NEW t, NEW d, Taking(stack, s, t, d), stack[1] = "separator"
  PROVE  Agrees(stack, s, t, d)
<1> DEFINE rule == Rule(stack[1], t, d)
<1>1. rule = SeparatorRule(t) /\ rule.does = "take"
  BY RuleCases DEF Taking
<1>2. t \in {";", "&"}
  <2>1. t \notin {";", "&"} => SeparatorRule(t) \in {Pass(<<>>), Fail}
    BY DEF SeparatorRule
  <2> HIDE DEF rule
  <2> QED
    BY <1>1, <2>1, TakenNotPassed
<1>3. rule.symbols = <<>>
  <2>1. SeparatorRule(t) = Take(<<>>)
    BY <1>2 DEF SeparatorRule, ListEnd, End
  <2> QED
    BY <1>1, <2>1, Kinds
<1>4. Still(s, "nothing") /\ s \in ScanType
  <2>1. Mood("separator", s, t)
    BY TakingFacts DEF Redirecting
  <2> QED
    BY <2>1, TakingFacts, MoodCases DEF Plain, Quiet
<1>5. Scan(s, t) \in ScanType /\ SameNest(s, Scan(s, t)) /\ Ready(Scan(s, t))
  BY <1>2, <1>4, ScanOperator DEF Still
<1>6. Ends(stack, Scan(s, t))
  <2>1. stack[2] \in {"parse_list", "top_level"}
    BY TakingFacts DEF Below, Simple, Arms, Redirecting
  <2>2. stack[2] # "skip_newlines" /\ stack[2] \in Plain
    BY <2>1 DEF Plain
  <2> QED
    BY <1>5, <2>2, ReadyMoods DEF Ends
<1>7. stack[1] # "top_level" /\ stack[1] \notin Openers
  BY DEF Openers, Arms
<1>8. Kept(stack, s, t, d)
  BY <1>3, <1>5, <1>6, <1>7, KeptEnding
<1> QED
  BY <1>2, <1>8, TokenKinds DEF Agrees

LEMMA TakePipeline ==
  ASSUME NEW stack, NEW s, NEW t, NEW d, Taking(stack, s, t, d),
         stack[1] \in {"parse_and_or", "and_or_rest", "parse_pipeline", "pipeline_rest"}
  PROVE  Agrees(stack, s, t, d)
<1> DEFINE symbol == stack[1]
           rule == Rule(symbol, t, d)
<1>1. rule = PipelineRule(symbol, t) /\ rule.does = "take"
  BY RuleCases DEF Taking
<1>2. Quiet(s, t) /\ s \in ScanType
  <2>1. symbol \notin Redirecting \union {"skip_newlines"} /\ symbol \in Plain
    BY DEF Redirecting, Plain
  <2> QED
    BY <2>1, TakingFacts, MoodCases
<1>3. ~OpensParen(symbol, t) /\ ~OpensCase(symbol, t)
  BY DEF OpensParen, OpensCase
<1>4. CASE symbol \in {"and_or_rest", "pipeline_rest"}
  <2> DEFINE a == <<"skip_newlines", "parse_pipeline", "and_or_rest">>
             b == <<"skip_newlines", "parse_command", "pipeline_rest">>
  <2>1. t \in {"&&", "||", "|"} /\ rule.symbols \in {a, b}
    <3>1. CASE symbol = "and_or_rest"
      <4>1. PipelineRule(symbol, t) = IF t \in {"&&", "||"} THEN Take(a) ELSE Pass(<<>>)
        BY <3>1 DEF PipelineRule
      <4> HIDE DEF rule, a, b
      <4> QED
        BY <1>1, <4>1, TakenNotPassed
    <3>2. CASE symbol = "pipeline_rest"
      <4>1. PipelineRule(symbol, t) = IF t = "|" THEN Take(b) ELSE Pass(<<>>)
        BY <3>2 DEF PipelineRule
      <4> HIDE DEF rule, a, b
      <4> QED
        BY <1>1, <4>1, TakenNotPassed
    <3> QED
      BY <1>4, <3>1, <3>2
  <2>2. Scan(s, t) \in ScanType /\ SameNest(s, Scan(s, t)) /\ Ready(Scan(s, t))
    <3>1. t \in {";", "&", "&&", "||", "|"} /\ ~s.pattern_position
      BY <1>2, <2>1 DEF Quiet, Still
    <3> QED
      BY <1>2, <3>1, ScanOperator
  <2>3. Goes(a, Scan(s, t)) /\ Goes(b, Scan(s, t)) /\ a # <<>> /\ b # <<>>
    <3>1. Mooded("parse_pipeline", Scan(s, t)) /\ Mooded("parse_command", Scan(s, t))
      BY <2>2, ReadyMoods DEF Plain
    <3>2. Len(a) = 3 /\ Len(b) = 3 /\ a[1] = "skip_newlines" /\ b[1] = "skip_newlines"
          /\ a[2] = "parse_pipeline" /\ b[2] = "parse_command" /\ Len(<<>>) = 0
      OBVIOUS
    <3> HIDE DEF a, b
    <3>3. Len(a) > 1 /\ Len(b) > 1 /\ a # <<>> /\ b # <<>>
      BY <3>2
    <3> QED
      BY <3>1, <3>2, <3>3 DEF Goes
  <2>4. rule.symbols # <<>> /\ Goes(rule.symbols, Scan(s, t))
    BY <2>1, <2>3
  <2>5. Kept(stack, s, t, d)
    BY <1>3, <2>2, <2>4, KeptGoing
  <2>6. t \in Operators /\ t # ")"
    BY <2>1, TokenKinds
  <2> QED
    BY <2>5, <2>6, TokenKinds DEF Agrees
<1>5. CASE symbol = "parse_pipeline"
  <2> DEFINE more == <<"parse_command", "pipeline_rest">>
  <2>1. t = "!" /\ rule.symbols = more
    <3>1. PipelineRule(symbol, t) = IF t = "!" THEN Take(more) ELSE Pass(more)
      BY <1>5 DEF PipelineRule
    <3> HIDE DEF rule, more
    <3> QED
      BY <1>1, <3>1, TakenNotPassed
  <2>2. t \in WordTokens /\ t \in Reserved \ {"for", "case", "esac"}
    BY <2>1 DEF WordTokens, Reserved
  <2>3. Ready(s)
    BY <1>2, <2>2 DEF Quiet
  <2>4. classify(s, t).class = "keyword"
        /\ Scan(s, t) \in ScanType /\ SameNest(s, Scan(s, t)) /\ Ready(Scan(s, t))
    BY <1>2, <2>2, <2>3, WordAtStart, ScanWord, ZenonT(60)
  <2>5. Goes(more, Scan(s, t)) /\ more # <<>>
    <3>1. Mooded("parse_command", Scan(s, t))
      BY <2>4, ReadyMoods DEF Plain
    <3>2. more[1] = "parse_command" /\ more[1] \notin Redirecting \union {"skip_newlines"}
      BY DEF Redirecting
    <3>3. Len(more) = 2 /\ Len(<<>>) = 0
      OBVIOUS
    <3> HIDE DEF more
    <3> QED
      BY <3>1, <3>2, <3>3, GoesOn
  <2>6. Kept(stack, s, t, d)
    <3> HIDE DEF more
    <3> QED
      BY <1>3, <2>1, <2>4, <2>5, KeptGoing
  <2>7. RoleOf(symbol, t) = "keyword"
    BY <1>5, RoleKeyword
  <2> QED
    BY <2>1, <2>4, <2>6, <2>7 DEF Agrees
<1>6. CASE symbol = "parse_and_or"
  <2>1. PipelineRule(symbol, t) = Pass(<<"parse_pipeline", "and_or_rest">>)
    BY <1>6 DEF PipelineRule
  <2> QED
    BY <1>1, <2>1, TakenNotPassed
<1> QED
  BY <1>4, <1>5, <1>6

(* A redirection: the word behind it, and what then goes on.               *)
LEMMA TakeRedirect ==
  ASSUME NEW stack, NEW s, NEW t, NEW d, Taking(stack, s, t, d), t \in Redirections,
         stack[1] \in Simple \union {"trailing_redirects", "parse_command"},
         stack[1] = "parse_command" => ~s.after_compound
  PROVE  Agrees(stack, s, t, d)
<1> DEFINE symbol == stack[1]
           rule == Rule(symbol, t, d)
           redirect == IF t = "<<" THEN "parse_here_doc" ELSE "parse_redirect"
           behind == IF symbol = "first_word" THEN "parse_simple"
                     ELSE IF symbol = "parse_command" THEN "prefix" ELSE symbol
           symbols == <<redirect, behind>>
           s1 == Scan(s, t)
           s2 == Redirected(s1)
<1>1. rule.symbols = symbols
  <2>1. CASE symbol = "parse_command"
    <3>1. rule = CommandRule(t, d) /\ rule.does = "take"
      BY <2>1, RuleCases DEF Taking
    <3> QED
      BY <2>1, <3>1, CommandTakes DEF Taking
  <2>2. CASE symbol \in Simple
    <3>1. rule = SimpleRule(symbol, t) /\ symbol # "parse_command"
      BY <2>2, RuleCases DEF Simple
    <3>2. SimpleRule(symbol, t) = Take(symbols)
      BY <2>2, <3>1, RedirectReplaces
    <3> QED
      BY <3>1, <3>2, Kinds
  <2>3. CASE symbol = "trailing_redirects"
    <3>1. rule = SimpleRule("trailing_redirects", t)
      BY <2>3, RuleCases
    <3>2. SimpleRule("trailing_redirects", t) = Take(symbols)
      BY <2>3, RedirectReplaces
    <3> QED
      BY <3>1, <3>2, Kinds
  <2> QED
    BY <2>1, <2>2, <2>3
<1>2. /\ Still(s, "nothing") /\ s \in ScanType
      /\ symbol \in {"parse_command", "trailing_redirects"} => Ready(s)
      /\ symbol = "trailing_redirects" => s.after_compound
      /\ symbol = "prefix" => s.command_prefix_seen /\ s.command_position
      /\ symbol \in {"first_word", "parse_simple"} => ~s.command_position
  <2>1. s \in ScanType /\ Mood(symbol, s, t)
    <3>1. symbol \notin Redirecting \union {"skip_newlines"}
      BY DEF Redirecting, Simple
    <3> QED
      BY <3>1, TakingFacts
  <2>2. CASE symbol \in {"parse_command", "trailing_redirects"}
    <3>1. Quiet(s, t) /\ (symbol = "trailing_redirects" => s.after_compound)
      BY <2>1, <2>2, MoodCases DEF Plain
    <3> QED
      BY <2>1, <2>2, <3>1 DEF Quiet, Ready
  <2>3. CASE symbol \in Simple
    BY <2>1, <2>3, MoodCases DEF Simple
  <2> QED
    BY <2>2, <2>3
<1>3. /\ s1 \in ScanType /\ SameNest(s, s1) /\ s1.after_redirect /\ s1.want_delimiter = (t = "<<")
      /\ s1.command_prefix_seen = (s.command_prefix_seen \/ (s.command_position /\ ~s.after_compound))
      /\ s1.command_position = s.command_position /\ s1.after_compound = s.after_compound
      /\ s1.pattern_position = s.pattern_position /\ s1.expect = s.expect
  BY <1>2, ScanRedirect
<1> HIDE DEF s1
<1>4. /\ s2.command_prefix_seen = s1.command_prefix_seen /\ s2.command_position = s1.command_position
      /\ s2.after_compound = s1.after_compound /\ Still(s2, "nothing")
  BY <1>2, <1>3 DEF Redirected, ScanType, Still
<1> HIDE DEF s2
<1>5. Mooded(behind, s2)
  <2>1. CASE symbol \in {"parse_command", "prefix"}
    <3>1. s2.command_position /\ s2.command_prefix_seen
      BY <1>2, <1>3, <1>4, <2>1 DEF Ready
    <3>2. behind = "prefix"
      BY <2>1
    <3> QED
      BY <1>4, <3>1, <3>2, MoodCases DEF Mooded
  <2>2. CASE symbol = "trailing_redirects"
    <3>1. s2.command_position /\ ~s2.command_prefix_seen /\ s2.after_compound
      BY <1>2, <1>3, <1>4, <2>2 DEF Ready, ScanType
    <3>2. behind = "trailing_redirects" /\ Ready(s2)
      BY <1>4, <2>2, <3>1 DEF Ready
    <3> QED
      BY <3>1, <3>2, ReadyMoods
  <2>3. CASE symbol \in {"first_word", "parse_simple"}
    <3>1. ~s2.command_position /\ behind = "parse_simple"
      BY <1>2, <1>3, <1>4, <2>3
    <3> QED
      BY <1>4, <3>1, MoodCases DEF Mooded
  <2> QED
    BY <2>1, <2>2, <2>3 DEF Simple
<1>6. redirect \in Redirecting /\ (redirect = "parse_here_doc" <=> t = "<<")
  BY DEF Redirecting
<1> HIDE DEF redirect, behind
<1>7. Goes(symbols, s1) /\ symbols # <<>>
  <2>1. Len(symbols) = 2 /\ symbols[1] = redirect /\ symbols[2] = behind /\ Len(<<>>) = 0
    OBVIOUS
  <2>2. s1.want_delimiter <=> t = "<<"
    BY <1>3
  <2>3. Len(symbols) > 1 /\ symbols # <<>>
    BY <2>1
  <2> HIDE DEF symbols
  <2> QED
    BY <1>3, <1>5, <1>6, <2>1, <2>2, <2>3 DEF Goes, s2
<1>8. ~OpensParen(symbol, t) /\ ~OpensCase(symbol, t)
  <2>1. t \notin {"(", "case"}
    BY DEF Redirections
  <2>2. symbol # "parse_function"
    BY DEF Simple
  <2> QED
    BY <2>1, <2>2 DEF OpensParen, OpensCase
<1>9. Kept(stack, s, t, d)
  <2> HIDE DEF symbols, rule
  <2> QED
    BY <1>1, <1>3, <1>7, <1>8, KeptGoing DEF s1, rule
<1> QED
  BY <1>9, TokenParts, TokenKinds DEF Agrees

LEMMA TakeCommand ==
  ASSUME NEW stack, NEW s, NEW t, NEW d, Taking(stack, s, t, d), stack[1] = "parse_command"
  PROVE  Agrees(stack, s, t, d)
<1> DEFINE rule == Rule(stack[1], t, d)
           s1 == Scan(s, t)
<1>1. rule = CommandRule(t, d) /\ rule.does = "take" /\ t \in Tokens
  BY RuleCases DEF Taking
<1>2. Quiet(s, t) /\ s \in ScanType
  <2>1. Mood("parse_command", s, t) /\ s \in ScanType
    BY TakingFacts DEF Redirecting
  <2> QED
    BY <2>1, MoodCases DEF Plain
<1>3. t \in WordTokens => Ready(s) /\ s1 = classify(s, t).state
  BY <1>2, ScanWord DEF Quiet
<1>4. OpensParen(stack[1], t) = (t = "(") /\ OpensCase(stack[1], t) = (t = "case")
  BY DEF OpensParen, OpensCase
<1> HIDE DEF s1, rule
<1>5. CASE t \in Bodies
  <2>1. t \in WordTokens /\ t \in Reserved \ {"for", "case", "esac"} /\ t # "(" /\ t # "case"
    BY <1>5, TokenParts, TokenKinds
  <2>2. classify(s, t).class = "keyword" /\ s1 \in ScanType /\ SameNest(s, s1) /\ Ready(s1)
    BY <1>2, <1>3, <2>1, WordAtStart, ZenonT(60)
  <2>3. rule.symbols[1] = "parse_body" /\ rule.symbols # <<>>
    BY <1>1, <1>5, CommandTakes, CompoundFirst
  <2>4. Goes(rule.symbols, s1)
    <3>1. "parse_body" \notin Redirecting \union {"skip_newlines"} /\ Mooded("parse_body", s1)
      BY <2>2, ReadyMoods DEF Redirecting, Plain
    <3> QED
      BY <2>3, <3>1, GoesOn
  <2>5. Kept(stack, s, t, d)
    BY <1>4, <2>1, <2>2, <2>3, <2>4, KeptGoing DEF rule, s1
  <2>6. RoleOf(stack[1], t) = "keyword" /\ t # ")"
    <3>1. t # "X=1" /\ t # ")"
      BY <2>1, TokenKinds, TokenParts
    <3> QED
      BY <2>1, <3>1, RoleCases
  <2> QED
    BY <2>2, <2>5, <2>6 DEF Agrees
<1>6. CASE t = "("
  <2>1. t \notin WordTokens
    BY <1>6, TokenParts
  <2>2. s1 \in ScanType /\ s1.case_stack = s.case_stack /\ Ready(s1) /\ s1.parens = s.parens + 1
    BY <1>2, <1>6, ScanOpenParen DEF s1, Quiet, Still
  <2>3. rule.symbols[1] = "parse_body" /\ rule.symbols # <<>>
    BY <1>1, <1>6, CommandTakes, CompoundFirst
  <2>4. Goes(rule.symbols, s1)
    <3>1. "parse_body" \notin Redirecting \union {"skip_newlines"} /\ Mooded("parse_body", s1)
      BY <2>2, ReadyMoods DEF Redirecting, Plain
    <3> QED
      BY <2>3, <3>1, GoesOn
  <2>5. Kept(stack, s, t, d)
    BY <1>4, <1>6, <2>2, <2>3, <2>4, KeptGoing DEF rule, s1
  <2> QED
    BY <1>6, <2>1, <2>5 DEF Agrees
<1>7. CASE t = "for"
  <2>1. t \in WordTokens /\ t \in Reserved
    BY <1>7, TokenParts, TokenKinds
  <2>2. classify(s, t).class = "keyword" /\ s1 \in ScanType /\ SameNest(s, s1)
        /\ Still(s1, "for_name") /\ ~s1.command_prefix_seen
    BY <1>2, <1>3, <1>7, <2>1, WordAtStart, ZenonT(60)
  <2>3. rule.symbols[1] = "for_name" /\ rule.symbols # <<>>
    BY <1>1, <1>7, CommandTakes, CompoundFirst
  <2>4. Goes(rule.symbols, s1)
    <3>1. "for_name" \notin Redirecting \union {"skip_newlines"} /\ Mooded("for_name", s1)
      BY <2>2, MoodCases DEF Redirecting, Mooded
    <3> QED
      BY <2>3, <3>1, GoesOn
  <2>5. Kept(stack, s, t, d)
    BY <1>4, <1>7, <2>2, <2>3, <2>4, KeptGoing DEF rule, s1
  <2>6. RoleOf(stack[1], t) = "keyword"
    BY <1>7, <2>1, RoleCases
  <2> QED
    BY <1>7, <2>2, <2>5, <2>6 DEF Agrees
<1>8. CASE t = "case"
  <2>1. t \in WordTokens /\ t \in Reserved
    BY <1>8, TokenParts, TokenKinds
  <2>2. classify(s, t).class = "keyword" /\ s1 \in ScanType /\ s1.parens = s.parens
        /\ s1.case_stack = Append(s.case_stack, s.parens)
        /\ Still(s1, "case_word") /\ ~s1.command_prefix_seen
    <3> DEFINE s2 == classify(s, t).state
    <3>1. classify(s, t).class = "keyword" /\ s2 \in ScanType /\ s2.parens = s.parens
          /\ s2.case_stack = Append(s.case_stack, s.parens)
          /\ Still(s2, "case_word") /\ ~s2.command_prefix_seen
      BY <1>2, <1>3, <1>8, <2>1, WordAtStart
    <3> QED
      BY <1>3, <2>1, <3>1
  <2>3. rule.symbols[1] = "case_word" /\ rule.symbols # <<>>
    BY <1>1, <1>8, CommandTakes, CompoundFirst
  <2>4. Goes(rule.symbols, s1)
    <3>1. "case_word" \notin Redirecting \union {"skip_newlines"} /\ Mooded("case_word", s1)
      BY <2>2, MoodCases DEF Redirecting, Mooded
    <3> QED
      BY <2>3, <3>1, GoesOn
  <2>5. Kept(stack, s, t, d)
    BY <1>4, <1>8, <2>2, <2>3, <2>4, KeptGoing DEF rule, s1
  <2>6. RoleOf(stack[1], t) = "keyword"
    BY <1>8, <2>1, RoleCases
  <2> QED
    BY <1>8, <2>2, <2>5, <2>6 DEF Agrees
<1>9. CASE t \in {"x", "-"}
  <2>1. t \in WordTokens /\ t \notin Reserved \union {"X=1"} /\ t \notin {"(", ")", "case"}
    BY <1>9, TokenParts, TokenKinds
  <2>2. classify(s, t).class = "command" /\ s1 \in ScanType /\ SameNest(s, s1)
        /\ Still(s1, "nothing") /\ ~s1.command_position
    BY <1>2, <1>3, <1>9, <2>1, WordAtStart, ZenonT(60)
  <2>3. rule.symbols \in {<<"first_word">>, <<"parse_simple">>}
    BY <1>1, <1>9, CommandTakes
  <2>4. rule.symbols # <<>> /\ Goes(rule.symbols, s1)
    <3>1. /\ <<"first_word">> # <<>> /\ <<"parse_simple">> # <<>>
          /\ <<"first_word">>[1] = "first_word" /\ <<"parse_simple">>[1] = "parse_simple"
      OBVIOUS
    <3>2. /\ {"first_word", "parse_simple"} \cap (Redirecting \union {"skip_newlines"}) = {}
          /\ Mooded("first_word", s1) /\ Mooded("parse_simple", s1)
      BY <2>2, MoodCases DEF Redirecting, Mooded
    <3> QED
      BY <2>3, <3>1, <3>2, GoesOn
  <2>5. Kept(stack, s, t, d)
    BY <1>4, <2>1, <2>2, <2>4, KeptGoing DEF rule, s1
  <2>6. RoleOf(stack[1], t) = "command"
    BY <2>1, RoleCases
  <2> QED
    BY <2>1, <2>2, <2>5, <2>6 DEF Agrees
<1>10. CASE t = "X=1"
  <2>1. t \in WordTokens
    BY <1>10, TokenParts
  <2>2. classify(s, t).class = "assignment" /\ s1 \in ScanType /\ SameNest(s, s1)
        /\ Still(s1, "nothing") /\ s1.command_position /\ s1.command_prefix_seen
    BY <1>2, <1>3, <1>10, <2>1, WordAtStart
  <2>3. rule.symbols = <<"prefix">>
    BY <1>1, <1>10, CommandTakes
  <2>4. rule.symbols # <<>> /\ Goes(rule.symbols, s1)
    <3>1. <<"prefix">> # <<>> /\ <<"prefix">>[1] = "prefix"
      OBVIOUS
    <3>2. "prefix" \notin Redirecting \union {"skip_newlines"} /\ Mooded("prefix", s1)
      BY <2>2, MoodCases DEF Redirecting, Mooded
    <3> QED
      BY <2>3, <3>1, <3>2, GoesOn
  <2>5. Kept(stack, s, t, d)
    BY <1>4, <1>10, <2>2, <2>4, KeptGoing DEF rule, s1
  <2>6. RoleOf(stack[1], t) = "assignment"
    BY <1>10, RoleCases
  <2> QED
    BY <1>10, <2>2, <2>5, <2>6 DEF Agrees
<1>11. CASE t \in Redirections
  <2>1. CASE s.after_compound
    <3>1. Gap(stack[1], s, t)
      BY <1>11, <2>1 DEF Gap
    <3> QED
      BY <1>11, <3>1, TokenParts, TokenKinds DEF Agrees
  <2>2. CASE ~s.after_compound
    BY <1>11, <2>2, TakeRedirect
  <2> QED
    BY <2>1, <2>2
<1> QED
  BY <1>1, <1>5, <1>6, <1>7, <1>8, <1>9, <1>10, <1>11, CommandTakes

(* Assignments, words and redirections.                                    *)
LEMMA TakeSimple ==
  ASSUME NEW stack, NEW s, NEW t, NEW d, Taking(stack, s, t, d), stack[1] \in Simple
  PROVE  Agrees(stack, s, t, d)
<1> DEFINE symbol == stack[1]
           rule == Rule(symbol, t, d)
           s1 == Scan(s, t)
<1>1. rule = SimpleRule(symbol, t) /\ rule.does = "take"
  BY RuleCases DEF Taking
<1>2. CASE t \in Redirections
  <2>1. symbol # "parse_command"
    BY DEF Simple
  <2> QED
    BY <1>2, <2>1, TakeRedirect
<1>3. CASE t \notin Redirections
  <2> DEFINE word == IF symbol = "prefix" /\ t = "X=1" THEN "prefix" ELSE "parse_simple"
  <2>1. t \in WordTokens
    <3>1. t \notin WordTokens => SimpleRule(symbol, t) \in {Pass(<<"parse_function">>), Pass(<<>>)}
      BY <1>3 DEF SimpleRule
    <3> HIDE DEF rule
    <3> QED
      BY <1>1, <3>1, TakenNotPassed
  <2>2. rule.symbols = <<word>>
    <3>1. t # "("
      BY <2>1, TokenParts
    <3>2. SimpleRule(symbol, t) = Take(<<word>>)
      BY <1>3, <2>1, <3>1 DEF SimpleRule
    <3> QED
      BY <1>1, <3>2, Kinds
  <2>3. Mood(symbol, s, t) /\ s \in ScanType
    BY TakingFacts DEF Redirecting, Simple
  <2>4. /\ s1 \in ScanType /\ SameNest(s, s1) /\ Mooded(word, s1)
        /\ classify(s, t).class = RoleOf(symbol, t)
    <3>1. CASE symbol = "prefix"
      <4>1. Still(s, "nothing") /\ s.command_position /\ s.command_prefix_seen
        BY <2>3, <3>1, MoodCases
      <4>2. Mood("prefix", s, "x")
        BY <4>1, MoodCases
      <4>3. /\ s1 \in ScanType /\ SameNest(s, s1) /\ Still(s1, "nothing")
            /\ IF t = "X=1" THEN /\ classify(s, t).class = "assignment"
                                 /\ s1.command_position /\ s1.command_prefix_seen
               ELSE classify(s, t).class = "command" /\ ~s1.command_position
        BY <2>1, <2>3, <4>2, WordAfterAssignment, ScanWord
      <4>4. Mooded(word, s1)
        BY <3>1, <4>3, MoodCases DEF Mooded
      <4>5. RoleOf(symbol, t) = IF t = "X=1" THEN "assignment" ELSE "command"
        BY <3>1, RoleCases
      <4> QED
        BY <4>3, <4>4, <4>5
    <3>2. CASE symbol \in {"first_word", "parse_simple"}
      <4>1. Still(s, "nothing") /\ ~s.command_position
        BY <2>3, <3>2, MoodCases
      <4>2. s1 = s /\ classify(s, t).class = "plain"
        BY <2>1, <2>3, <4>1, WordAsArgument, ScanWord, AsIs
      <4>3. word = "parse_simple" /\ RoleOf(symbol, t) = "plain"
        BY <3>2, RoleCases
      <4>4. Mooded(word, s1)
        BY <4>1, <4>2, <4>3, MoodCases DEF Mooded
      <4> QED
        BY <2>3, <4>2, <4>3, <4>4 DEF SameNest
    <3> QED
      BY <3>1, <3>2 DEF Simple
  <2>5. <<word>> # <<>> /\ <<word>>[1] = word /\ word \notin Redirecting \union {"skip_newlines"}
    BY DEF Redirecting
  <2>6. ~OpensParen(symbol, t) /\ ~OpensCase(symbol, t)
    BY DEF OpensParen, OpensCase, Simple
  <2> HIDE DEF word, s1, rule
  <2>7. rule.symbols # <<>> /\ Goes(rule.symbols, s1)
    BY <2>2, <2>4, <2>5, GoesOn
  <2>8. Kept(stack, s, t, d)
    BY <2>4, <2>6, <2>7, KeptGoing DEF s1, rule
  <2> QED
    BY <2>1, <2>4, <2>8, TokenParts DEF Agrees
<1> QED
  BY <1>2, <1>3

LEMMA TakeFunction ==
  ASSUME NEW stack, NEW s, NEW t, NEW d, Taking(stack, s, t, d), stack[1] = "parse_function"
  PROVE  Agrees(stack, s, t, d)
<1> DEFINE rule == Rule(stack[1], t, d)
           symbols == <<")", "skip_newlines", "parse_command", "leave">>
           s1 == Scan(s, t)
<1>0. Rule("parse_function", t, d) = FunctionRule(d)
  BY RuleCases
<1>1. t = "(" /\ rule.does = "take" /\ rule = FunctionRule(d)
  BY <1>0 DEF Taking, Settled
<1>2. rule.symbols = symbols
  <2>1. FunctionRule(d) \in {Take(symbols), Fail}
    BY DEF FunctionRule
  <2> HIDE DEF symbols, rule
  <2> QED
    BY <1>1, <2>1, Kinds
<1>3. Still(s, "nothing") /\ s \in ScanType
  <2>1. Mood("parse_function", s, t) /\ s \in ScanType
    BY TakingFacts DEF Redirecting
  <2> QED
    BY <2>1, MoodCases
<1>4. s1 \in ScanType /\ s1.case_stack = s.case_stack /\ Ready(s1) /\ s1.parens = s.parens + 1
  BY <1>1, <1>3, ScanOpenParen DEF Still
<1>5. Goes(symbols, s1) /\ symbols # <<>>
  <2>1. symbols[1] = ")" /\ Len(symbols) = 4 /\ Len(<<>>) = 0
    OBVIOUS
  <2>2. ")" \notin Redirecting \union {"skip_newlines"} /\ Mooded(")", s1)
    BY <1>4, ReadyMoods DEF Redirecting, Plain
  <2> HIDE DEF symbols, s1
  <2> QED
    BY <2>1, <2>2, GoesOn
<1>6. OpensParen(stack[1], t)
  BY DEF OpensParen
<1>7. Kept(stack, s, t, d)
  <2> HIDE DEF symbols, rule, s1
  <2> QED
    BY <1>2, <1>4, <1>5, <1>6, KeptGoing DEF rule, s1
<1> QED
  BY <1>1, <1>7, TokenParts DEF Agrees

LEMMA TakeTrailing ==
  ASSUME NEW stack, NEW s, NEW t, NEW d, Taking(stack, s, t, d), stack[1] = "trailing_redirects"
  PROVE  Agrees(stack, s, t, d)
<1>1. Rule("trailing_redirects", t, d) = IF t \in Redirections THEN SimpleRule("trailing_redirects", t) ELSE Pass(<<>>)
  BY RuleCases
<1>2. t \in Redirections
  BY <1>1, TakenNotPassed DEF Taking
<1> QED
  BY <1>2, TakeRedirect

(* A word that ends its call.                                              *)
LEMMA WordTaken ==
  ASSUME NEW stack, NEW s, NEW t, NEW d, Taking(stack, s, t, d),
         stack[1] \in {"for_name", "case_word", "case_pattern"} \union Redirecting
  PROVE  /\ t \in WordTokens /\ Rule(stack[1], t, d).symbols = <<>>
         /\ Scan(s, t) = classify(s, t).state /\ t # ")"
         /\ stack[1] \notin Openers /\ stack[1] # "top_level"
<1> DEFINE rule == Rule(stack[1], t, d)
<1>1. rule = WordRule(stack[1], t) /\ rule.does = "take" /\ s \in ScanType
  BY RuleCases DEF Taking
<1>2. t \in WordTokens
  <2>1. t \notin WordTokens => WordRule(stack[1], t) = Fail
    BY DEF WordRule
  <2> HIDE DEF rule
  <2> QED
    BY <1>1, <2>1, TakenNotPassed
<1>3. WordRule(stack[1], t) \in {Take(<<>>), Fail}
  BY DEF WordRule
<1>4. rule.symbols = <<>>
  BY <1>1, <1>3, Kinds
<1>5. stack[1] \notin Openers /\ stack[1] # "top_level"
  BY DEF Openers, Arms, Redirecting
<1> QED
  BY <1>1, <1>2, <1>4, <1>5, ScanWord, TokenParts

LEMMA TakeRedirected ==
  ASSUME NEW stack, NEW s, NEW t, NEW d, Taking(stack, s, t, d), stack[1] \in Redirecting
  PROVE  Agrees(stack, s, t, d)
<1>1. /\ t \in WordTokens /\ Rule(stack[1], t, d).symbols = <<>>
      /\ Scan(s, t) = classify(s, t).state /\ t # ")"
      /\ stack[1] \notin Openers /\ stack[1] # "top_level"
  BY WordTaken
<1>2. /\ s \in ScanType /\ s.after_redirect /\ (s.want_delimiter <=> stack[1] = "parse_here_doc")
      /\ Mooded(stack[2], Redirected(s))
  BY DEF Taking, Knows, Fits
<1>3. /\ Scan(s, t) = Redirected(s) /\ Scan(s, t) \in ScanType /\ SameNest(s, Scan(s, t))
      /\ classify(s, t).class = IF s.want_delimiter THEN "delimiter" ELSE "plain"
  BY <1>1, <1>2, WordRedirected
<1>4. stack[2] # "skip_newlines"
  <2>1. stack[2] \in Below(stack[1])
    BY <1>1, TakingFacts
  <2>2. stack[2] \in {"prefix", "parse_simple", "trailing_redirects"}
    BY <2>1 DEF Below, Simple, Arms, Redirecting
  <2> QED
    BY <2>2
<1>5. Ends(stack, Scan(s, t))
  BY <1>2, <1>3, <1>4 DEF Ends
<1>6. Kept(stack, s, t, d)
  BY <1>1, <1>3, <1>5, KeptEnding
<1>7. RoleOf(stack[1], t) = IF stack[1] = "parse_here_doc" THEN "delimiter" ELSE "plain"
  BY RoleCases DEF Redirecting
<1> QED
  BY <1>1, <1>2, <1>3, <1>6, <1>7 DEF Agrees

(* The words of `for NAME' and `case WORD'.                                *)
LEMMA TakeName ==
  ASSUME NEW stack, NEW s, NEW t, NEW d, Taking(stack, s, t, d), stack[1] \in {"for_name", "case_word"}
  PROVE  Agrees(stack, s, t, d)
<1> DEFINE s1 == Scan(s, t)
<1>1. /\ t \in WordTokens /\ Rule(stack[1], t, d).symbols = <<>>
      /\ s1 = classify(s, t).state /\ t # ")"
      /\ stack[1] \notin Openers /\ stack[1] # "top_level"
  BY WordTaken
<1>2. Mood(stack[1], s, t) /\ s \in ScanType
  BY TakingFacts DEF Redirecting
<1>3. Still(s, stack[1]) /\ ~s.command_prefix_seen /\ stack[1] \in Expectations \ {"nothing"}
  BY <1>2, MoodCases DEF Expectations
<1>4. /\ s1 \in ScanType /\ SameNest(s, s1) /\ ~s1.command_prefix_seen
      /\ stack[1] = "for_name" => Still(s1, "for_after_name")
      /\ stack[1] = "case_word" => Still(s1, "case_in")
      /\ classify(s, t).class = "plain"
  BY <1>1, <1>2, <1>3, WordExpected
<1> HIDE DEF s1
<1>5. Ends(stack, s1)
  <2>1. stack[2] = "skip_newlines"
    <3>1. stack[2] \in Below(stack[1])
      BY <1>1, TakingFacts
    <3> QED
      BY <3>1 DEF Below, Simple, Arms, Redirecting
  <2>2. Behind(stack[1]) = IF stack[1] = "for_name" THEN {"for_in"} ELSE {"in"}
    BY DEF Behind
  <2>3. /\ stack[1] = "for_name" => Mooded("for_in", s1)
        /\ stack[1] = "case_word" => Mooded("in", s1)
    BY <1>4, MoodCases DEF Mooded
  <2> QED
    BY <2>1, <2>2, <2>3 DEF Ends
<1>6. Kept(stack, s, t, d)
  BY <1>1, <1>4, <1>5, KeptEnding DEF s1
<1>7. RoleOf(stack[1], t) = "plain"
  BY RoleCases
<1> QED
  BY <1>1, <1>4, <1>6, <1>7 DEF Agrees

LEMMA TakePattern ==
  ASSUME NEW stack, NEW s, NEW t, NEW d, Taking(stack, s, t, d), stack[1] = "case_pattern"
  PROVE  Agrees(stack, s, t, d)
<1> DEFINE s1 == Scan(s, t)
<1>1. /\ t \in WordTokens /\ Rule(stack[1], t, d).symbols = <<>>
      /\ s1 = classify(s, t).state /\ t # ")"
      /\ stack[1] \notin Openers /\ stack[1] # "top_level"
  BY WordTaken
<1>2. Mood("case_pattern", s, t) /\ s \in ScanType
  BY TakingFacts DEF Redirecting
<1>3. InPattern(s) /\ ~(t = "esac" /\ s.pattern_start)
  BY <1>2, MoodCases
<1>4. /\ s1 \in ScanType /\ SameNest(s, s1) /\ InPattern(s1) /\ ~s1.pattern_start
      /\ classify(s, t).class = "plain"
  BY <1>1, <1>2, <1>3, WordInPattern
<1> HIDE DEF s1
<1>5. Ends(stack, s1)
  <2>1. stack[2] = "pattern_end"
    <3>1. stack[2] \in Below(stack[1])
      BY <1>1, TakingFacts
    <3> QED
      BY <3>1 DEF Below, Simple, Arms, Redirecting
  <2>2. Mooded("pattern_end", s1)
    BY <1>4, MoodCases DEF Mooded
  <2> QED
    BY <2>1, <2>2 DEF Ends
<1>6. Kept(stack, s, t, d)
  BY <1>1, <1>4, <1>5, KeptEnding DEF s1
<1>7. RoleOf(stack[1], t) = "plain"
  BY RoleCases
<1> QED
  BY <1>1, <1>4, <1>6, <1>7 DEF Agrees

Closers == {"fi", "done", "}"}

(* A reserved word that neither opens nor closes a `case' or a `for'.      *)
LEMMA WordReserved ==
  ASSUME NEW s \in ScanType, Ready(s), NEW w \in Reserved \ {"for", "case", "esac"}
  PROVE  LET s1 == Scan(s, w) IN
         /\ classify(s, w).class = "keyword"
         /\ s1 \in ScanType /\ SameNest(s, s1) /\ Ready(s1)
         /\ w \in Closers => s1.after_compound
<1>1. w \in WordTokens
  BY TokenKinds
<1>2. Scan(s, w) = classify(s, w).state
  BY <1>1, ScanWord
<1>3. LET s1 == classify(s, w).state IN
      /\ classify(s, w).class = "keyword"
      /\ s1 \in ScanType /\ SameNest(s, s1) /\ Ready(s1)
      /\ w \in Closers => s1.after_compound
  BY <1>1, WordAtStart DEF Closers
<1> QED
  BY <1>2, <1>3

(* A word that closes a part of a compound command.                        *)
LEMMA TakeReserved ==
  ASSUME NEW stack, NEW s, NEW t, NEW d, Taking(stack, s, t, d), Rule(stack[1], t, d).symbols = <<>>,
         t \in Reserved \ {"for", "case", "esac"}, Ready(s),
         stack[1] \notin Openers, stack[1] # "top_level", RoleOf(stack[1], t) = "keyword",
         stack[2] \in {"leave", "parse_body"}, stack[2] = "leave" => t \in Closers
  PROVE  Agrees(stack, s, t, d)
<1> DEFINE s1 == Scan(s, t)
<1>1. s \in ScanType /\ t \in WordTokens /\ t # ")"
  BY TakingFacts, TokenKinds, TokenParts
<1>2. classify(s, t).class = "keyword" /\ s1 \in ScanType /\ SameNest(s, s1) /\ Ready(s1)
      /\ (t \in Closers => s1.after_compound)
  BY <1>1, WordReserved
<1> HIDE DEF s1
<1>3. Ends(stack, s1)
  <2>1. stack[2] # "skip_newlines"
    OBVIOUS
  <2>2. Mooded(stack[2], s1)
    BY <1>2, ReadyMoods DEF Plain
  <2> QED
    BY <2>1, <2>2 DEF Ends
<1>4. Kept(stack, s, t, d)
  BY <1>2, <1>3, KeptEnding DEF s1
<1> QED
  BY <1>1, <1>2, <1>4 DEF Agrees

LEMMA ExpectTaken ==
  ASSUME NEW symbol, NEW t, Expect(symbol, t).does = "take"
  PROVE  t = symbol /\ Expect(symbol, t).symbols = <<>>
<1>1. t = symbol
  BY Kinds DEF Expect
<1> QED
  BY <1>1, Kinds DEF Expect

LEMMA TakeBranches ==
  ASSUME NEW stack, NEW s, NEW t, NEW d, Taking(stack, s, t, d), stack[1] \in {"branches", "fi"}
  PROVE  Agrees(stack, s, t, d)
<1> DEFINE symbol == stack[1]
           rule == Rule(symbol, t, d)
           elif == <<"parse_body", "then", "parse_body", "branches">>
           else == <<"parse_body", "fi">>
           s1 == Scan(s, t)
<1>1. rule = BranchRule(symbol, t) /\ rule.does = "take"
  BY RuleCases DEF Taking
<1>2. (t = "fi" /\ rule.symbols = <<>>) \/ (t \in {"elif", "else"} /\ rule.symbols \in {elif, else})
  <2>1. CASE symbol = "branches" /\ t = "elif"
    <3>1. BranchRule(symbol, t) = Take(elif)
      BY <2>1 DEF BranchRule
    <3> QED
      BY <1>1, <2>1, <3>1, Kinds
  <2>2. CASE symbol = "branches" /\ t = "else"
    <3>1. BranchRule(symbol, t) = Take(else)
      BY <2>2 DEF BranchRule
    <3> QED
      BY <1>1, <2>2, <3>1, Kinds
  <2>3. CASE ~(symbol = "branches" /\ t \in {"elif", "else"})
    <3>1. BranchRule(symbol, t) = Expect("fi", t)
      BY <2>3 DEF BranchRule
    <3> QED
      BY <1>1, <3>1, ExpectTaken
  <2> QED
    BY <2>1, <2>2, <2>3
<1>3. t \in Reserved \ {"for", "case", "esac"} /\ (t = "fi" => t \in Closers)
  BY <1>2 DEF Reserved, Closers
<1>4. Ready(s) /\ s \in ScanType
  <2>1. Mood(symbol, s, t) /\ s \in ScanType
    BY TakingFacts DEF Redirecting
  <2>2. t \in WordTokens
    BY <1>3, TokenKinds
  <2> QED
    BY <2>1, <2>2, MoodCases DEF Plain, Quiet
<1>5. RoleOf(symbol, t) = "keyword" /\ symbol \notin Openers /\ symbol # "top_level"
      /\ ~OpensParen(symbol, t) /\ ~OpensCase(symbol, t)
  BY RoleKeyword DEF Openers, Arms, OpensParen, OpensCase
<1> HIDE DEF rule
<1>6. CASE t = "fi" /\ rule.symbols = <<>>
  <2>1. stack[2] = "leave"
    <3>1. stack[2] \in Below(symbol)
      BY <1>5, TakingFacts
    <3> QED
      BY <3>1 DEF Below, Simple, Arms, Redirecting
  <2> QED
    BY <1>3, <1>4, <1>5, <1>6, <2>1, TakeReserved DEF rule
<1>7. CASE t \in {"elif", "else"} /\ rule.symbols \in {elif, else}
  <2>1. classify(s, t).class = "keyword" /\ s1 \in ScanType /\ SameNest(s, s1) /\ Ready(s1)
    BY <1>3, <1>4, WordReserved
  <2>2. rule.symbols # <<>> /\ rule.symbols[1] = "parse_body"
    <3>1. elif[1] = "parse_body" /\ else[1] = "parse_body" /\ Len(elif) = 4 /\ Len(else) = 2 /\ Len(<<>>) = 0
      OBVIOUS
    <3> HIDE DEF elif, else
    <3>2. elif # <<>> /\ else # <<>>
      BY <3>1
    <3> QED
      BY <1>7, <3>1, <3>2
  <2> HIDE DEF s1
  <2>3. Goes(rule.symbols, s1)
    <3>1. "parse_body" \notin Redirecting \union {"skip_newlines"} /\ Mooded("parse_body", s1)
      BY <2>1, ReadyMoods DEF Redirecting, Plain
    <3> QED
      BY <2>2, <3>1, GoesOn
  <2>4. Kept(stack, s, t, d)
    BY <1>5, <2>1, <2>2, <2>3, KeptGoing DEF rule, s1
  <2> QED
    BY <1>5, <1>7, <2>1, <2>4 DEF Agrees
<1> QED
  BY <1>2, <1>6, <1>7

LEMMA TakeThen ==
  ASSUME NEW stack, NEW s, NEW t, NEW d, Taking(stack, s, t, d), stack[1] \in {"then", "done"}
  PROVE  Agrees(stack, s, t, d)
<1> DEFINE rule == Rule(stack[1], t, d)
<1>0. rule = Expect(stack[1], t)
  <2>1. stack[1] \in {"in", "then", "do", "done", "}", ")"}
    OBVIOUS
  <2> QED
    BY <2>1, RuleCases
<1>1. t = stack[1] /\ rule.symbols = <<>>
  BY <1>0, ExpectTaken DEF Taking
<1>2. t \in Reserved \ {"for", "case", "esac"} /\ (t = "done" => t \in Closers)
  BY <1>1 DEF Reserved, Closers
<1>3. Ready(s)
  <2>1. Mood(stack[1], s, t)
    BY TakingFacts DEF Redirecting
  <2>2. t \in WordTokens
    BY <1>2, TokenKinds
  <2> QED
    BY <2>1, <2>2, MoodCases DEF Plain, Quiet
<1>4. RoleOf(stack[1], t) = "keyword" /\ stack[1] \notin Openers /\ stack[1] # "top_level"
  BY RoleKeyword DEF Openers, Arms
<1>5. stack[2] \in {"leave", "parse_body"} /\ (stack[2] = "leave" => t \in Closers)
  <2>1. stack[2] \in Below(stack[1])
    BY <1>4, TakingFacts
  <2>2. Below("then") = {"parse_body"} /\ Below("done") = {"leave"}
    BY DEF Below, Simple, Arms, Redirecting
  <2> QED
    BY <1>1, <1>2, <2>1, <2>2
<1> QED
  BY <1>1, <1>2, <1>3, <1>4, <1>5, TakeReserved

LEMMA TakeBrace ==
  ASSUME NEW stack, NEW s, NEW t, NEW d, Taking(stack, s, t, d), stack[1] = "}"
  PROVE  Agrees(stack, s, t, d)
<1>0. Rule(stack[1], t, d) = Expect(stack[1], t)
  BY RuleCases
<1>1. t = stack[1] /\ Rule(stack[1], t, d).symbols = <<>>
  BY <1>0, ExpectTaken DEF Taking
<1>2. t \in Reserved \ {"for", "case", "esac"} /\ t \in Closers
  BY <1>1 DEF Reserved, Closers
<1>3. Ready(s)
  <2>1. stack[1] \in Plain /\ stack[1] \notin Redirecting \union {"skip_newlines"}
    BY DEF Plain, Redirecting
  <2>2. Mood(stack[1], s, t)
    BY <2>1, TakingFacts
  <2>3. t \in WordTokens
    BY <1>2, TokenKinds
  <2> QED
    BY <2>1, <2>2, <2>3, MoodCases DEF Quiet
<1>4. RoleOf(stack[1], t) = "keyword"
  BY DEF RoleOf
<1>5. stack[1] \notin Openers /\ stack[1] # "top_level"
  BY DEF Openers, Arms
<1>6. stack[2] = "leave"
  <2>1. stack[2] \in Below(stack[1])
    BY <1>5, TakingFacts
  <2>2. Below("}") = {"leave"}
    BY DEF Below, Simple, Arms, Redirecting
  <2> QED
    BY <2>1, <2>2
<1>7. stack[2] \in {"leave", "parse_body"}
  BY <1>6
<1> QED
  BY <1>1, <1>2, <1>3, <1>4, <1>5, <1>6, <1>7, TakeReserved

LEMMA ExpectRule ==
  ASSUME NEW t, NEW d
  PROVE  /\ Rule("in", t, d) = Expect("in", t)
         /\ Rule("do", t, d) = Expect("do", t)
         /\ Rule(")", t, d) = Expect(")", t)
<1>1. ASSUME NEW symbol \in {"in", "then", "do", "done", "}", ")"}
      PROVE Rule(symbol, t, d) = Expect(symbol, t)
  BY RuleCases
<1> QED
  BY <1>1

LEMMA TakeDo ==
  ASSUME NEW stack, NEW s, NEW t, NEW d, Taking(stack, s, t, d), stack[1] = "do"
  PROVE  Agrees(stack, s, t, d)
<1> DEFINE rule == Rule(stack[1], t, d)
           s1 == Scan(s, t)
<1>1. t = "do" /\ rule.symbols = <<>>
  BY ExpectRule, ExpectTaken DEF Taking
<1>2. t \in Reserved \ {"for", "case", "esac"} /\ t \in WordTokens
  BY <1>1 DEF Reserved, WordTokens
<1>3. Mood("do", s, t) /\ s \in ScanType
  BY TakingFacts DEF Redirecting
<1>4. RoleOf(stack[1], t) = "keyword" /\ stack[1] \notin Openers /\ stack[1] # "top_level"
  BY RoleKeyword DEF Openers, Arms
<1>5. stack[2] = "parse_body"
  <2>1. stack[2] \in Below(stack[1])
    BY <1>4, TakingFacts
  <2> QED
    BY <2>1 DEF Below, Simple, Arms, Redirecting
<1>6. CASE Quiet(s, t)
  <2>1. Ready(s)
    BY <1>2, <1>6 DEF Quiet
  <2> QED
    BY <1>1, <1>2, <1>4, <1>5, <2>1, TakeReserved
<1>7. CASE Still(s, "for_after_name") /\ ~s.command_prefix_seen
  <2>1. "for_after_name" \in Expectations \ {"nothing"}
    BY DEF Expectations
  <2>2. /\ s1 \in ScanType /\ SameNest(s, s1) /\ ~s1.command_prefix_seen
        /\ classify(s, t).class = "keyword" /\ Still(s1, "nothing")
        /\ s1.command_position = (s.command_position \/ t = "do")
    BY <1>1, <1>2, <1>3, <1>7, <2>1, WordExpected, ScanWord
  <2>3. Ready(s1)
    BY <1>1, <2>2 DEF Ready
  <2> HIDE DEF s1
  <2>4. Ends(stack, s1)
    <3>1. Mooded("parse_body", s1)
      BY <2>3, ReadyMoods DEF Plain
    <3> QED
      BY <1>5, <3>1 DEF Ends
  <2>5. Kept(stack, s, t, d)
    BY <1>1, <1>4, <2>2, <2>4, KeptEnding DEF s1
  <2> QED
    BY <1>1, <1>4, <2>2, <2>5 DEF Agrees
<1> QED
  BY <1>3, <1>6, <1>7, MoodCases

LEMMA TakeIn ==
  ASSUME NEW stack, NEW s, NEW t, NEW d, Taking(stack, s, t, d), stack[1] = "in"
  PROVE  Agrees(stack, s, t, d)
<1> DEFINE rule == Rule(stack[1], t, d)
           s1 == Scan(s, t)
<1>1. t = "in" /\ rule.symbols = <<>>
  BY ExpectRule, ExpectTaken DEF Taking
<1>2. t \in WordTokens /\ "case_in" \in Expectations \ {"nothing"}
  BY <1>1 DEF Reserved, WordTokens, Expectations
<1>3. s \in ScanType /\ Still(s, "case_in") /\ ~s.command_prefix_seen
  <2>1. Mood("in", s, t) /\ s \in ScanType
    BY TakingFacts DEF Redirecting
  <2> QED
    BY <2>1, MoodCases
<1>4. RoleOf(stack[1], t) = "keyword" /\ stack[1] \notin Openers /\ stack[1] # "top_level"
  BY RoleKeyword DEF Openers, Arms
<1>5. /\ s1 \in ScanType /\ SameNest(s, s1) /\ classify(s, t).class = "keyword"
      /\ InPattern(s1) /\ s1.pattern_start
  BY <1>1, <1>2, <1>3, WordExpected, ScanWord
<1> HIDE DEF s1
<1>6. Ends(stack, s1)
  <2>1. stack[2] = "parse_case_arms"
    <3>1. stack[2] \in Below(stack[1])
      BY <1>4, TakingFacts
    <3> QED
      BY <3>1 DEF Below, Simple, Arms, Redirecting
  <2>2. Mooded("parse_case_arms", s1)
    BY <1>5, MoodCases DEF Mooded
  <2> QED
    BY <2>1, <2>2 DEF Ends
<1>7. Kept(stack, s, t, d)
  BY <1>1, <1>4, <1>5, <1>6, KeptEnding DEF s1
<1> QED
  BY <1>1, <1>4, <1>5, <1>7 DEF Agrees

LEMMA TakeParen ==
  ASSUME NEW stack, NEW s, NEW t, NEW d, Taking(stack, s, t, d), stack[1] = ")"
  PROVE  Agrees(stack, s, t, d)
<1> DEFINE rule == Rule(stack[1], t, d)
           s1 == Scan(s, t)
<1>1. t = ")" /\ rule.symbols = <<>>
  BY ExpectRule, ExpectTaken DEF Taking
<1>2. s \in ScanType /\ Still(s, "nothing") /\ s.parens > 0 /\ ~AtPatternEnd(s)
  <2>1. Mood(")", s, t) /\ s \in ScanType /\ s.parens > 0 /\ ~AtPatternEnd(s)
    BY TakingFacts DEF Redirecting
  <2> QED
    BY <2>1, MoodCases DEF Plain, Quiet
<1>3. /\ s1 \in ScanType /\ Ready(s1) /\ s1.after_compound
      /\ s1.parens = s.parens - 1 /\ s1.case_stack = s.case_stack
  BY <1>1, <1>2, ScanCloseParen
<1> HIDE DEF s1
<1>4. Ends(stack, s1)
  <2>1. stack[2] \in {"leave", "skip_newlines"}
    <3>1. stack[2] \in Below(stack[1])
      BY TakingFacts
    <3> QED
      BY <3>1 DEF Below, Simple, Arms, Redirecting
  <2>2. Mooded("leave", s1) /\ Mooded("parse_command", s1)
    BY <1>3, ReadyMoods DEF Plain
  <2>3. Behind(")") = {"parse_command"}
    BY DEF Behind
  <2> QED
    BY <2>1, <2>2, <2>3 DEF Ends
<1>5. Kept(stack, s, t, d)
  BY <1>1, <1>3, <1>4, KeptEnding DEF s1
<1>6. ~Unclaimed(s)
  <2>1. s.parens # 0
    BY <1>2
  <2> QED
    BY <2>1 DEF Unclaimed
<1> QED
  BY <1>1, <1>5, <1>6, TokenParts DEF Agrees

LEMMA TakeFor ==
  ASSUME NEW stack, NEW s, NEW t, NEW d, Taking(stack, s, t, d), stack[1] \in {"for_in", "for_words"}
  PROVE  Agrees(stack, s, t, d)
<1> DEFINE symbol == stack[1]
           rule == Rule(symbol, t, d)
           s1 == Scan(s, t)
           more == <<"for_words">>
<1>1. rule = ForRule(symbol, t) /\ rule.does = "take" /\ t \in Tokens
  BY RuleCases DEF Taking
<1>2. /\ symbol = "for_in" => \/ t = "in" /\ rule.symbols = more
                              \/ t = ";" /\ rule.symbols = <<>>
      /\ symbol = "for_words" => \/ t \in WordTokens /\ rule.symbols = more
                                 \/ t \in {"newline", ";"} /\ rule.symbols = <<>>
  <2>1. CASE symbol = "for_in"
    <3>1. ForRule(symbol, t) = IF t = "in" THEN Take(more) ELSE IF t = ";" THEN Take(<<>>) ELSE Pass(<<>>)
      BY <2>1 DEF ForRule
    <3> HIDE DEF more, rule
    <3> QED
      BY <1>1, <2>1, <3>1, Kinds
  <2>2. CASE symbol = "for_words"
    <3>1. t \in WordTokens => ForRule(symbol, t) = Take(more)
      BY <2>2 DEF ForRule, WordTokens, Reserved, End
    <3>2. t \in {"newline", ";"} => ForRule(symbol, t) = Take(<<>>)
      BY <2>2 DEF ForRule, WordTokens, Reserved, End
    <3>3. t \notin WordTokens \union {"newline", ";"} => ForRule(symbol, t) \in {Pass(<<>>), Fail}
      BY <2>2 DEF ForRule
    <3> HIDE DEF more, rule
    <3> QED
      BY <1>1, <2>2, <3>1, <3>2, <3>3, Kinds
  <2> QED
    BY <2>1, <2>2
<1>3. /\ s \in ScanType
      /\ symbol = "for_in" => Still(s, "for_after_name") /\ ~s.command_prefix_seen
      /\ symbol = "for_words" => Still(s, "nothing") /\ ~s.command_position
  <2>1. Mood(symbol, s, t) /\ s \in ScanType
    BY TakingFacts DEF Redirecting
  <2> QED
    BY <2>1, MoodCases
<1>4. symbol \notin Openers /\ symbol # "top_level" /\ ~OpensParen(symbol, t) /\ ~OpensCase(symbol, t)
      /\ RoleOf(symbol, t) = IF symbol = "for_in" THEN "keyword" ELSE "plain"
  <2>1. RoleOf("for_in", t) = "keyword" /\ RoleOf("for_words", t) = "plain"
    BY RoleKeyword, RoleCases
  <2>2. symbol \notin Openers /\ ~OpensParen(symbol, t) /\ ~OpensCase(symbol, t)
    BY DEF Openers, Arms, OpensParen, OpensCase
  <2> QED
    BY <2>1, <2>2
<1>5. more # <<>> /\ more[1] = "for_words"
  OBVIOUS
<1> HIDE DEF rule, more
<1>6. CASE t \in {"newline", ";"} /\ rule.symbols = <<>>
  <2>1. s1 \in ScanType /\ SameNest(s, s1) /\ Ready(s1)
    <3>1. CASE t = ";"
      <4>1. ~s.pattern_position
        BY <1>3 DEF Still
      <4> QED
        BY <1>3, <3>1, <4>1, ScanOperator
    <3>2. CASE t = "newline"
      <4>1. symbol = "for_words"
        <5>1. t # "in" /\ t # ";"
          BY <3>2
        <5> QED
          BY <1>2, <5>1
      <4> QED
        BY <1>3, <3>2, <4>1, NewlineReady
    <3> QED
      BY <1>6, <3>1, <3>2
  <2> HIDE DEF s1
  <2>2. Ends(stack, s1)
    <3>1. stack[2] = "skip_newlines"
      <4>1. stack[2] \in Below(symbol)
        BY <1>4, TakingFacts
      <4> QED
        BY <4>1 DEF Below, Simple, Arms, Redirecting
    <3>2. Mooded("do", s1) /\ Behind(symbol) = {"do"}
      BY <2>1, ReadyMoods DEF Behind
    <3> QED
      BY <3>1, <3>2 DEF Ends
  <2>3. Kept(stack, s, t, d)
    BY <1>4, <1>6, <2>1, <2>2, KeptEnding DEF rule, s1
  <2>4. t \notin WordTokens /\ t # ")"
    BY <1>6, TokenKinds
  <2> QED
    BY <2>3, <2>4 DEF Agrees
<1>7. CASE symbol = "for_words" /\ t \in WordTokens /\ rule.symbols = more
  <2>1. s1 = s /\ classify(s, t).class = "plain"
    BY <1>3, <1>7, WordAsArgument, ScanWord, AsIs
  <2>2. Mooded("for_words", s1)
    BY <1>3, <1>7, <2>1, MoodCases DEF Mooded
  <2> HIDE DEF s1
  <2>3. Goes(rule.symbols, s1)
    <3>1. "for_words" \notin Redirecting \union {"skip_newlines"}
      BY DEF Redirecting
    <3> QED
      BY <1>5, <1>7, <2>2, <3>1, GoesOn
  <2>4. Kept(stack, s, t, d)
    BY <1>3, <1>4, <1>5, <1>7, <2>1, <2>3, KeptGoing DEF rule, s1, SameNest
  <2> QED
    BY <1>4, <1>7, <2>1, <2>4, TokenParts DEF Agrees
<1>8. CASE symbol = "for_in" /\ t = "in" /\ rule.symbols = more
  <2>1. t \in WordTokens /\ "for_after_name" \in Expectations \ {"nothing"}
    BY <1>8 DEF Expectations, WordTokens, Reserved
  <2>2. /\ s1 \in ScanType /\ SameNest(s, s1) /\ classify(s, t).class = "keyword" /\ Still(s1, "nothing")
        /\ s1.command_position = (s.command_position \/ t = "do")
    BY <1>3, <1>8, <2>1, WordExpected, ScanWord
  <2>3. ASSUME ~Gap(symbol, s, t) PROVE Kept(stack, s, t, d)
    <3>1. ~s.command_position
      BY <1>3, <1>8, <2>3 DEF Gap, Still
    <3>2. ~s1.command_position
      BY <1>8, <2>2, <3>1
    <3>3. Mooded("for_words", s1)
      BY <2>2, <3>2, MoodCases DEF Mooded
    <3> HIDE DEF s1
    <3>4. Goes(rule.symbols, s1)
      <4>1. "for_words" \notin Redirecting \union {"skip_newlines"}
        BY DEF Redirecting
      <4> QED
        BY <1>5, <1>8, <3>3, <4>1, GoesOn
    <3> QED
      BY <1>4, <1>5, <1>8, <2>2, <3>4, KeptGoing DEF rule, s1
  <2> QED
    BY <1>4, <1>8, <2>2, <2>3 DEF Agrees
<1> QED
  BY <1>2, <1>6, <1>7, <1>8

(* `esac' closes the case.                                                 *)
LEMMA TakeEsac ==
  ASSUME NEW stack, NEW s, NEW t, NEW d, Taking(stack, s, t, d),
         stack[1] \in {"parse_case_arms", "arm_end"}, t = "esac", Rule(stack[1], t, d).symbols = <<>>
  PROVE  Agrees(stack, s, t, d)
<1> DEFINE s1 == Scan(s, t)
<1>1. t \in WordTokens /\ t \in Reserved /\ t # ")"
  BY DEF Reserved, WordTokens
<1>2. s \in ScanType /\ InCase(s) /\ Mood(stack[1], s, t) /\ s1 = classify(s, t).state
  BY <1>1, TakingFacts, ScanWord DEF Redirecting, Arms
<1>3. /\ s1 \in ScanType /\ Ready(s1) /\ s1.after_compound
      /\ s1.parens = s.parens /\ s1.case_stack = Front(s.case_stack)
      /\ classify(s, t).class = "keyword"
  <2>1. CASE stack[1] = "parse_case_arms"
    <3>1. InPattern(s) /\ s.pattern_start
      BY <1>2, <2>1, MoodCases
    <3> QED
      BY <1>1, <1>2, <3>1, WordInPattern
  <2>2. CASE stack[1] = "arm_end"
    <3>1. Ready(s)
      BY <1>1, <1>2, <2>2, MoodCases DEF Plain, Quiet
    <3> DEFINE s2 == classify(s, t).state
    <3>2. /\ s2 \in ScanType /\ Ready(s2) /\ s2.after_compound
          /\ s2.parens = s.parens /\ s2.case_stack = Front(s.case_stack)
          /\ classify(s, t).class = "keyword"
      BY <1>1, <1>2, <3>1, WordAtStart
    <3> QED
      BY <1>2, <3>2
  <2> QED
    BY <2>1, <2>2
<1>4. RoleOf(stack[1], t) = "keyword" /\ stack[1] \in Arms /\ stack[1] # "top_level"
  BY RoleKeyword DEF Arms
<1> HIDE DEF s1
<1>5. Ends(stack, s1)
  <2>1. stack[2] = "leave"
    <3>1. stack[2] \in Below(stack[1])
      BY <1>4, TakingFacts
    <3> QED
      BY <3>1 DEF Below, Simple, Arms, Redirecting
  <2>2. Mooded("leave", s1)
    BY <1>3, ReadyMoods
  <2> QED
    BY <2>1, <2>2 DEF Ends
<1>6. Kept(stack, s, t, d)
  BY <1>3, <1>4, <1>5, KeptEnding DEF s1
<1> QED
  BY <1>1, <1>3, <1>4, <1>6 DEF Agrees

(* The alternatives of a `case': an operator that goes on with symbols.    *)
LEMMA TakeArm ==
  ASSUME NEW stack, NEW s, NEW t, NEW d, Taking(stack, s, t, d), stack[1] \in Arms,
         Rule(stack[1], t, d).symbols # <<>>, t \notin WordTokens, t = ")" => stack[1] = "pattern_end",
         Rule(stack[1], t, d).symbols[1] \notin Redirecting \union {"skip_newlines"},
         Scan(s, t) \in ScanType, SameNest(s, Scan(s, t)),
         Mooded(Rule(stack[1], t, d).symbols[1], Scan(s, t))
  PROVE  Agrees(stack, s, t, d)
<1>1. ~OpensParen(stack[1], t) /\ ~OpensCase(stack[1], t)
  BY DEF OpensParen, OpensCase, Arms
<1>2. Goes(Rule(stack[1], t, d).symbols, Scan(s, t))
  BY GoesOn
<1>3. Kept(stack, s, t, d)
  BY <1>1, <1>2, KeptGoing
<1>4. ~Unclaimed(s)
  BY TakingFacts DEF Unclaimed
<1> QED
  BY <1>3, <1>4 DEF Agrees

LEMMA TakeArms ==
  ASSUME NEW stack, NEW s, NEW t, NEW d, Taking(stack, s, t, d), stack[1] = "parse_case_arms"
  PROVE  Agrees(stack, s, t, d)
<1> DEFINE rule == Rule(stack[1], t, d)
           more == <<"case_pattern", "pattern_end">>
           again == <<"parse_case_arms">>
           s1 == Scan(s, t)
<1>0. CASE t = "esac"
  <2>1. rule = CaseRule(stack[1], t) /\ stack[1] = "parse_case_arms"
    BY RuleCases, ZenonT(60) DEF Arms
  <2>2. CaseRule(stack[1], t) = Take(<<>>)
    BY <1>0 DEF CaseRule
  <2> QED
    BY <1>0, <2>1, <2>2, Kinds, TakeEsac
<1>1. /\ t # "esac" => t \in {"newline", "("}
      /\ t = "newline" => rule.symbols = again
      /\ t = "(" => rule.symbols = more
  <2>1. rule = CaseRule(stack[1], t) /\ rule.does = "take"
    BY RuleCases, ZenonT(60) DEF Taking, Arms
  <2>2. /\ t = "newline" => CaseRule(stack[1], t) = Take(again)
        /\ t = "(" => CaseRule(stack[1], t) = Take(more)
        /\ t \notin {"newline", "esac", "("} => CaseRule(stack[1], t) = Pass(more)
    BY DEF CaseRule
  <2> HIDE DEF rule, more, again
  <2> QED
    BY <2>1, <2>2, Kinds
<1>2. s \in ScanType /\ InPattern(s) /\ s.pattern_start /\ stack[1] \in Arms
  <2>1. Mood("parse_case_arms", s, t) /\ s \in ScanType
    BY TakingFacts DEF Redirecting
  <2> QED
    BY <2>1, MoodCases DEF Arms
<1>3. /\ again # <<>> /\ again[1] = "parse_case_arms" /\ more # <<>> /\ more[1] = "case_pattern"
      /\ "parse_case_arms" \notin Redirecting \union {"skip_newlines"}
      /\ "case_pattern" \notin Redirecting \union {"skip_newlines"}
  <2>1. more[1] = "case_pattern" /\ Len(more) = 2 /\ Len(<<>>) = 0
    OBVIOUS
  <2> HIDE DEF more
  <2>2. more # <<>>
    BY <2>1
  <2> QED
    BY <2>1, <2>2 DEF Redirecting
<1> HIDE DEF rule, more, again
<1>4. CASE t = "newline"
  <2>1. /\ s1 \in ScanType /\ SameNest(s, s1) /\ ~s1.after_redirect /\ ~s1.want_delimiter
        /\ ~s1.command_prefix_seen /\ s1.pattern_position = s.pattern_position
        /\ s1.pattern_start = s.pattern_start /\ s1.expect = s.expect
    BY <1>2, <1>4, ScanNewline
  <2> HIDE DEF s1
  <2>2. Mooded("parse_case_arms", s1)
    BY <1>2, <2>1, MoodCases DEF Mooded, InPattern
  <2> QED
    BY <1>1, <1>2, <1>3, <1>4, <2>1, <2>2, TakeArm, TokenKinds DEF rule, s1
<1>5. CASE t = "("
  <2>1. s1 \in ScanType /\ SameNest(s, s1) /\ InPattern(s1) /\ ~s1.pattern_start
    BY <1>2, <1>5, ScanOpenParen DEF SameNest
  <2> HIDE DEF s1
  <2>2. Mooded("case_pattern", s1)
    BY <2>1, MoodCases DEF Mooded
  <2> QED
    BY <1>1, <1>2, <1>3, <1>5, <2>1, <2>2, TakeArm, TokenParts DEF rule, s1
<1> QED
  BY <1>0, <1>1, <1>4, <1>5

LEMMA TakePatternEnd ==
  ASSUME NEW stack, NEW s, NEW t, NEW d, Taking(stack, s, t, d), stack[1] = "pattern_end"
  PROVE  Agrees(stack, s, t, d)
<1> DEFINE rule == Rule(stack[1], t, d)
           more == <<"case_pattern", "pattern_end">>
           arm == <<"parse_list", "arm_end">>
           s1 == Scan(s, t)
<1>1. (t = "|" /\ rule.symbols = more) \/ (t = ")" /\ rule.symbols = arm)
  <2>1. rule = CaseRule(stack[1], t) /\ rule.does = "take"
    BY RuleCases, ZenonT(60) DEF Taking, Arms
  <2>2. CaseRule(stack[1], t) = IF t = "|" THEN Take(more) ELSE IF t = ")" THEN Take(arm) ELSE Fail
    BY DEF CaseRule
  <2> HIDE DEF rule, more, arm
  <2> QED
    BY <2>1, <2>2, Kinds
<1>2. s \in ScanType /\ InPattern(s) /\ AtPatternEnd(s) /\ stack[1] \in Arms
  <2>1. Mood("pattern_end", s, t) /\ s \in ScanType /\ stack[1] \in Arms
    BY TakingFacts DEF Redirecting, Arms
  <2> QED
    BY <2>1, TakingFacts, MoodCases
<1>3. /\ more[1] = "case_pattern" /\ more # <<>> /\ arm[1] = "parse_list" /\ arm # <<>>
      /\ "parse_list" \notin Redirecting \union {"skip_newlines"}
      /\ "case_pattern" \notin Redirecting \union {"skip_newlines"}
  <2>1. more[1] = "case_pattern" /\ Len(more) = 2 /\ arm[1] = "parse_list" /\ Len(arm) = 2 /\ Len(<<>>) = 0
    OBVIOUS
  <2> HIDE DEF more, arm
  <2>2. more # <<>> /\ arm # <<>>
    BY <2>1
  <2> QED
    BY <2>1, <2>2 DEF Redirecting
<1> HIDE DEF rule, more, arm
<1>4. CASE t = "|" /\ rule.symbols = more
  <2>1. s1 \in ScanType /\ SameNest(s, s1) /\ InPattern(s1) /\ ~s1.pattern_start
    BY <1>2, <1>4, ScanBar
  <2> HIDE DEF s1
  <2>2. Mooded("case_pattern", s1)
    BY <2>1, MoodCases DEF Mooded
  <2>3. t \notin WordTokens /\ t # ")"
    BY <1>4, TokenKinds
  <2> QED
    BY <1>2, <1>3, <1>4, <2>1, <2>2, <2>3, TakeArm DEF rule, s1
<1>5. CASE t = ")" /\ rule.symbols = arm
  <2>1. s1 \in ScanType /\ SameNest(s, s1) /\ Ready(s1)
    BY <1>2, <1>5, ScanCloseParen
  <2> HIDE DEF s1
  <2>2. Mooded("parse_list", s1)
    BY <2>1, ReadyMoods DEF Plain
  <2> QED
    BY <1>2, <1>3, <1>5, <2>1, <2>2, TakeArm, TokenParts DEF rule, s1
<1> QED
  BY <1>1, <1>4, <1>5

LEMMA TakeArmEnd ==
  ASSUME NEW stack, NEW s, NEW t, NEW d, Taking(stack, s, t, d), stack[1] = "arm_end"
  PROVE  Agrees(stack, s, t, d)
<1> DEFINE rule == Rule(stack[1], t, d)
           again == <<"parse_case_arms">>
           s1 == Scan(s, t)
<1>1. rule = CaseRule(stack[1], t) /\ rule.does = "take"
  BY RuleCases, ZenonT(60) DEF Taking, Arms
<1>2. CASE t = ";;"
  <2>1. rule.symbols = again
    <3>1. CaseRule(stack[1], t) = Take(again)
      BY <1>2 DEF CaseRule
    <3> QED
      BY <1>1, <3>1, Kinds
  <2>2. s \in ScanType /\ InCase(s) /\ ~s.pattern_position /\ stack[1] \in Arms
    <3>1. Mood("arm_end", s, t) /\ s \in ScanType /\ stack[1] \in Arms
      BY TakingFacts DEF Redirecting, Arms
    <3>2. Quiet(s, t)
      BY <3>1, MoodCases DEF Plain
    <3> QED
      BY <3>1, <3>2, TakingFacts DEF Quiet, Still
  <2>3. s1 \in ScanType /\ SameNest(s, s1) /\ InPattern(s1) /\ s1.pattern_start
    BY <1>2, <2>2, ScanEndOfArm
  <2>4. again # <<>> /\ again[1] = "parse_case_arms"
        /\ "parse_case_arms" \notin Redirecting \union {"skip_newlines"}
    BY DEF Redirecting
  <2> HIDE DEF s1, rule, again
  <2>5. Mooded("parse_case_arms", s1)
    BY <2>3, MoodCases DEF Mooded
  <2>6. t \notin WordTokens /\ t # ")"
    BY <1>2, TokenKinds
  <2> QED
    BY <2>1, <2>2, <2>3, <2>4, <2>5, <2>6, TakeArm DEF rule, s1
<1>3. CASE t # ";;"
  <2>1. CaseRule(stack[1], t) = Expect("esac", t)
    BY <1>3 DEF CaseRule
  <2>2. t = "esac" /\ rule.symbols = <<>>
    BY <1>1, <2>1, ExpectTaken
  <2> QED
    BY <2>2, TakeEsac
<1> QED
  BY <1>2, <1>3

LEMMA NewlineKept ==
  ASSUME NEW s \in ScanType, NEW symbol \in {"do", "in", "for_in", "parse_pipeline", "parse_command"},
         Mood(symbol, s, "newline")
  PROVE  Mooded(symbol, Scan(s, "newline"))
<1> DEFINE s1 == Scan(s, "newline")
<1>1. /\ s1.command_position = (s.command_position \/ ~s.pattern_position)
      /\ ~s1.after_redirect /\ ~s1.want_delimiter /\ ~s1.command_prefix_seen
      /\ s1.pattern_position = s.pattern_position /\ s1.expect = s.expect
  BY ScanNewline
<1> HIDE DEF s1
<1>2. \A e : Still(s, e) => Still(s1, e)
  BY <1>1 DEF Still
<1>3. Still(s, "nothing") => Ready(s1)
  BY <1>1 DEF Still, Ready
<1>4. Quiet(s, "newline") => Still(s, "nothing")
  BY DEF Quiet
<1>5. CASE symbol \in {"parse_pipeline", "parse_command"}
  <2>1. Mooded(symbol, s1)
    BY <1>3, <1>4, <1>5, MoodCases, ReadyMoods DEF Plain
  <2> QED
    BY <2>1 DEF s1
<1>6. CASE symbol = "in"
  <2>1. Mooded("in", s1)
    BY <1>1, <1>2, <1>6, MoodCases DEF Mooded
  <2> QED
    BY <1>6, <2>1 DEF s1
<1>7. CASE symbol = "for_in"
  <2>1. Mooded("for_in", s1)
    BY <1>1, <1>2, <1>7, MoodCases DEF Mooded
  <2> QED
    BY <1>7, <2>1 DEF s1
<1>8. CASE symbol = "do"
  <2>1. CASE Quiet(s, "newline")
    <3>1. Mooded("do", s1)
      BY <1>3, <1>4, <2>1, ReadyMoods
    <3> QED
      BY <1>8, <3>1 DEF s1
  <2>2. CASE Still(s, "for_after_name") /\ ~s.command_prefix_seen
    <3>1. Mooded("do", s1)
      BY <1>1, <1>2, <2>2, MoodCases DEF Mooded
    <3> QED
      BY <1>8, <3>1 DEF s1
  <2> QED
    BY <1>8, <2>1, <2>2, MoodCases
<1> QED
  BY <1>5, <1>6, <1>7, <1>8

LEMMA TakeSkip ==
  ASSUME NEW stack, NEW s, NEW t, NEW d, Taking(stack, s, t, d), stack[1] = "skip_newlines"
  PROVE  Agrees(stack, s, t, d)
<1> DEFINE again == <<"skip_newlines">>
           next == Pushed(again, stack)
           s1 == Scan(s, t)
<1>1. t = "newline" /\ Rule(stack[1], t, d).symbols = again
  <2>1. Rule("skip_newlines", t, d) = IF t = "newline" THEN Take(again) ELSE Pass(<<>>)
    BY RuleCases
  <2>2. Rule("skip_newlines", t, d).does = "take"
    BY DEF Taking
  <2> HIDE DEF again
  <2> QED
    BY <2>1, <2>2, Kinds
<1>2. /\ Shape(stack) /\ s \in ScanType /\ t \in Tokens /\ stack[2] \in Below("skip_newlines")
      /\ Mood(stack[2], s, t) /\ Nested(stack, OpenIn(s)) /\ Rule(stack[1], t, d).does # "fail"
  BY TakingFacts DEF Taking, Knows, Fits
<1>3. s1 \in ScanType /\ SameNest(s, s1)
  BY <1>1, <1>2, ScanNewline
<1>4. Mooded(stack[2], s1)
  <2>1. stack[2] \in {"do", "in", "for_in", "parse_pipeline", "parse_command"}
    BY <1>2 DEF Below, Simple, Arms, Redirecting
  <2> QED
    BY <1>1, <1>2, <2>1, NewlineKept
<1>5. next[1] = "skip_newlines" /\ next[2] = stack[2]
  <2>1. again # <<>> /\ Len(again) = 1 /\ again[1] = "skip_newlines"
    OBVIOUS
  <2>2. stack[1] \in Symbols
    BY <1>2, ShapeTop
  <2> HIDE DEF again
  <2>3. Replaces(again, stack[1])
    BY <1>1, <1>2, <2>1, <2>2, RuleReplaces
  <2>4. 2 \in 2 .. Len(stack)
    <3>1. Len(stack) \in Nat /\ Len(stack) > 0 /\ Len(stack) # 1
      BY <1>2, ShapeTop
    <3> QED
      BY <3>1
  <2> QED
    BY <1>2, <2>1, <2>3, <2>4, ShapePush
<1>6. \A u \in Tokens : Fits(next, s1, u)
  <2> SUFFICES ASSUME NEW u \in Tokens PROVE Fits(next, s1, u)
    OBVIOUS
  <2> HIDE DEF next, s1
  <2> QED
    BY <1>4, <1>5 DEF Fits, Redirecting, Mooded
<1>7. Nested(next, OpenIn(s1))
  <2>1. stack[1] \notin Openers /\ ~OpensParen(stack[1], t) /\ ~OpensCase(stack[1], t)
    BY DEF Openers, Arms, OpensParen, OpensCase
  <2>2. \E under \in Opens :
          stack[1] \notin Openers /\ ~OpensParen(stack[1], t) /\ ~OpensCase(stack[1], t) =>
            Nested(Rule(stack[1], t, d).symbols \o Tail(stack), OpenIn(s))
    BY <1>2, NestedStep
  <2>3. OpenIn(s1) = OpenIn(s)
    BY <1>3 DEF SameNest, OpenIn
  <2>4. next = Rule(stack[1], t, d).symbols \o Tail(stack)
    BY <1>1 DEF Pushed
  <2> HIDE DEF next, s1
  <2> QED
    BY <2>1, <2>2, <2>3, <2>4
<1>8. Kept(stack, s, t, d)
  <2>1. next = Rule(stack[1], t, d).symbols \o Tail(stack)
    BY <1>1 DEF Pushed
  <2> HIDE DEF next, s1
  <2> QED
    BY <1>3, <1>6, <1>7, <2>1 DEF Kept, s1
<1> QED
  BY <1>1, <1>8, TokenKinds DEF Agrees

LEMMA LeaveTakesNothing ==
  ASSUME NEW stack, NEW s, NEW t, NEW d, Taking(stack, s, t, d)
  PROVE  stack[1] # "leave"
<1>1. Rule("leave", t, d) = Pass(<<>>)
  BY RuleCases
<1> QED
  BY <1>1, TakenNotPassed DEF Taking

(* Whatever symbol takes a token, the scanner goes on as the parser does.  *)
LEMMA Takes ==
  ASSUME NEW stack, NEW s, NEW t, NEW d, Taking(stack, s, t, d)
  PROVE  Agrees(stack, s, t, d)
<1>1. stack[1] \in Symbols /\ stack[1] # "leave"
  BY TakingFacts, LeaveTakesNothing
<1>2. stack[1] \in {"parse_list", "parse_body", "top_level"} => Agrees(stack, s, t, d)
  BY TakeList
<1>3. stack[1] = "separator" => Agrees(stack, s, t, d)
  BY TakeSeparator
<1>4. stack[1] \in {"parse_and_or", "and_or_rest", "parse_pipeline", "pipeline_rest"}
        => Agrees(stack, s, t, d)
  BY TakePipeline
<1>5. stack[1] \in {"parse_command", "parse_function", "trailing_redirects"} => Agrees(stack, s, t, d)
  BY TakeCommand, TakeFunction, TakeTrailing
<1>6. stack[1] \in Simple \union Redirecting => Agrees(stack, s, t, d)
  BY TakeSimple, TakeRedirected
<1>7. stack[1] \in {"for_name", "case_word", "case_pattern"} => Agrees(stack, s, t, d)
  BY TakeName, TakePattern
<1>8. stack[1] \in {"branches", "fi", "then", "done"} => Agrees(stack, s, t, d)
  BY TakeBranches, TakeThen
<1>9. stack[1] = "}" => Agrees(stack, s, t, d)
  BY TakeBrace
<1>10. stack[1] \in {"do", "in", ")", "for_in", "for_words"} => Agrees(stack, s, t, d)
  BY TakeDo, TakeIn, TakeParen, TakeFor
<1>11. stack[1] \in Arms => Agrees(stack, s, t, d)
  BY TakeArms, TakePatternEnd, TakeArmEnd DEF Arms
<1>12. stack[1] = "skip_newlines" => Agrees(stack, s, t, d)
  BY TakeSkip
<1> HIDE DEF Agrees
<1> QED
  BY <1>1, <1>2, <1>3, <1>4, <1>5, <1>6, <1>7, <1>8, <1>9, <1>10, <1>11, <1>12 DEF Symbols

-----------------------------------------------------------------------------
(* The parse and the scan of a text.                                       *)

(* What the scanner has to know when any token may come next.              *)
KnowsAll(p, s) ==
  /\ s \in ScanType
  /\ \A t \in Tokens : Fits(p.stack, s, t)
  /\ Nested(p.stack, OpenIn(s))

LEMMA StartKnows == KnowsAll(Start, NewState)
<1> DEFINE s == NewState
           stack == Start.stack
<1>1. s \in ScanType
  <2>1. <<>> \in Seq(Nat) /\ 0 \in Nat
    OBVIOUS
  <2> QED
    BY <2>1 DEF NewState, ScanType, Expectations
<1>2. Ready(s)
  BY DEF NewState, Ready, Still
<1>3. stack = <<"top_level">>
  BY DEF Start
<1>4. stack \in Seq(Symbols) /\ stack[1] = "top_level" /\ Len(stack) = 1
  BY <1>3 DEF Symbols
<1>5. ASSUME NEW t \in Tokens PROVE Fits(stack, s, t)
  <2>1. "top_level" \in Plain
    BY DEF Plain
  <2>2. Mooded("top_level", s)
    BY <1>2, <2>1, ReadyMoods
  <2>3. Mood(stack[1], s, t) /\ stack[1] \notin Redirecting \union {"skip_newlines"}
    BY <1>4, <2>2 DEF Mooded, Redirecting
  <2> QED
    BY <2>3, FitsPlain
<1>6. OpenIn(s) = NoneOpen
  BY DEF OpenIn, NoneOpen, NewState
<1>7. Nested(stack, NoneOpen)
  <2>1. NoneOpen \in Opens
    BY DEF NoneOpen, Opens
  <2>2. 1 \in 1 .. Len(stack) /\ \A n \in 1 .. Len(stack) : n # 1 => stack[n] \notin Openers
    BY <1>4
  <2>3. Nested(stack \o <<>>, Opened(stack[1], NoneOpen))
    <3>1. <<>> \in Seq(Symbols)
      OBVIOUS
    <3> QED
      BY <1>4, <2>2, <3>1, NestedNothing, NestedPush
  <2>4. Opened(stack[1], NoneOpen) = NoneOpen
    <3>1. stack[1] \notin Openers
      BY <1>4 DEF Openers, Arms
    <3> QED
      BY <2>1, <3>1, OpenedIs
  <2>5. stack \o <<>> = stack
    BY <1>4
  <2> QED
    BY <2>3, <2>4, <2>5
<1> QED
  BY <1>1, <1>5, <1>6, <1>7 DEF KnowsAll

(* A token that the parser takes.                                          *)
LEMMA StepKnows ==
  ASSUME NEW p, Parsed(p), ~p.failed, NEW s, KnowsAll(p, s), NEW t \in Tokens, ~Shift(p, t).failed
  PROVE  /\ ~Gap(Taker(p, t), s, t) => KnowsAll(Shift(p, t), Scan(s, t))
         /\ t \in WordTokens => classify(s, t).class = Role(p, t)
         /\ t = ")" => ~Unclaimed(s)
<1> DEFINE q == Reached(p, t)
           d == Depth(q.stack)
           rule == Rule(q.stack[1], t, d)
           next == Shift(p, t)
           linebreak == t = "newline" /\ q.stack[1] \in SkipsNewlines
<1>1. /\ Shape(q.stack) /\ Settled(q.stack, t) /\ Taker(p, t) = q.stack[1]
      /\ rule.does \in {"take", "fail"}
      /\ rule.does = "take" => next = ParseOf(rule.symbols \o Tail(q.stack), FALSE, linebreak)
      /\ rule.does = "fail" => next = ParseOf(q.stack, TRUE, q.at_linebreak)
  BY ShiftIs
<1>2. Knows(q.stack, s, t)
  <2>1. Knows(p.stack, s, t)
    BY DEF KnowsAll, Knows
  <2>2. p \in ParseType /\ Shape(p.stack) /\ p.stack[1] # "parse_function" /\ t # End
    BY TokenNotEnd DEF Parsed
  <2> QED
    BY <2>1, <2>2, ReachedKnows
<1> HIDE DEF linebreak, q, next
<1>3. rule.does = "take"
  <2> HIDE DEF rule
  <2> SUFFICES ASSUME rule.does = "fail" PROVE FALSE
    BY <1>1
  <2>1. next = ParseOf(q.stack, TRUE, q.at_linebreak)
    BY <1>1
  <2>2. next.failed = TRUE
    BY <2>1 DEF ParseOf
  <2> QED
    BY <2>2 DEF next
<1>4. next.stack = rule.symbols \o Tail(q.stack)
  <2> HIDE DEF rule
  <2>1. next = ParseOf(rule.symbols \o Tail(q.stack), FALSE, linebreak)
    BY <1>1, <1>3
  <2> QED
    BY <2>1 DEF ParseOf
<1>5. Taking(q.stack, s, t, d)
  BY <1>1, <1>2, <1>3 DEF Taking, KnowsAll
<1>6. Agrees(q.stack, s, t, d)
  BY <1>5, Takes
<1>7. ASSUME ~Gap(Taker(p, t), s, t) PROVE KnowsAll(next, Scan(s, t))
  BY <1>1, <1>4, <1>6, <1>7 DEF Agrees, Kept, KnowsAll
<1>8. RoleOf(q.stack[1], t) = Role(p, t)
  BY <1>1 DEF Role, RoleOf
<1> QED
  BY <1>6, <1>7, <1>8 DEF Agrees, next

(* The calls in progress from the i-th on.                                 *)
LEMMA ShapeFrom ==
  ASSUME NEW stack, Shape(stack), NEW i \in 1 .. Len(stack)
  PROVE  LET rest == SubSeq(stack, i, Len(stack)) IN
         Shape(rest) /\ rest[1] = stack[i]
<1> DEFINE l == Len(stack)
           from == {j \in 0 .. l - 1 : Shape(SubSeq(stack, j + 1, l))}
<1>1. l \in Nat /\ l > 0
  BY ShapeTop
<1>2. 0 \in from
  <2>1. 0 \in 0 .. l - 1 /\ 0 + 1 = 1
    BY <1>1
  <2> QED
    BY <2>1, RestOf
<1>3. ASSUME NEW j \in 1 .. i - 1, j - 1 \in from PROVE j \in from
  <2> DEFINE before == SubSeq(stack, (j - 1) + 1, l)
  <2>1. j - 1 \in 0 .. l - 1 /\ (j - 1) + 1 < l /\ (j - 1) + 2 = j + 1 /\ j \in 0 .. l - 1
        /\ l - (j - 1) # 1
    BY <1>1
  <2>2. Shape(before)
    BY <1>3
  <2>3. Len(before) = l - (j - 1) /\ Tail(before) = SubSeq(stack, j + 1, l)
    BY <2>1, RestOf
  <2> HIDE DEF before
  <2>4. before[1] # "top_level"
    BY <2>1, <2>2, <2>3, ShapeTop
  <2>5. Shape(Tail(before))
    BY <2>2, <2>4, ShapeTail
  <2> QED
    BY <2>1, <2>3, <2>5
<1>4. i - 1 \in Nat /\ i - 1 \in 0 .. i - 1 /\ (i - 1) + 1 = i /\ i - 1 \in 0 .. l - 1
  BY <1>1
<1> HIDE DEF from
<1>5. i - 1 \in from
  BY <1>2, <1>3, <1>4, Shifting!UpTo
<1>6. SubSeq(stack, (i - 1) + 1, l)[1] = stack[(i - 1) + 1]
  BY <1>4, RestOf
<1> QED
  BY <1>4, <1>5, <1>6 DEF from

(* The text is complete only where every call in progress may end.         *)
LEMMA CompleteIs ==
  ASSUME NEW p, Parsed(p)
  PROVE  Verdict(p) = "complete" <=> ~p.failed /\ Staying(p, End) = {}
<1> DEFINE q == Reached(p, End)
           l == Len(p.stack)
           m == Min(Staying(p, End))
           left == SubSeq(p.stack, m, l)
<1>1. Verdict(p) = "complete" <=> ~p.failed /\ q.stack = <<>>
  BY DEF Verdict, EndVerdict
<1>2. p \in ParseType
  BY DEF Parsed
<1>3. Staying(p, End) = {} => q.stack = <<>>
  BY <1>2, ReachedIs
<1>4. ASSUME ~p.failed, Staying(p, End) # {} PROVE q.stack # <<>>
  <2>1. Shape(p.stack)
    BY <1>4 DEF Parsed
  <2>2. l \in Nat /\ l > 0 /\ DOMAIN p.stack = 1 .. l
    BY <2>1, ShapeTop DEF Shape
  <2>3. m \in 1 .. l /\ ~Returns(p.stack[m], End)
    <3>1. Staying(p, End) \subseteq 1 .. l /\ Staying(p, End) \subseteq Nat
      BY <2>2 DEF Staying
    <3>2. m \in Staying(p, End)
      BY <1>4, <3>1, LeastIsMin
    <3> QED
      BY <3>1, <3>2 DEF Staying
  <2>4. Shape(left) /\ left[1] = p.stack[m]
    BY <2>1, <2>3, ShapeFrom
  <2>5. q.stack = Called(Called(Called(left, End), End), End)
    <3>1. left # <<>>
      BY <2>4 DEF Shape
    <3> QED
      BY <1>2, <1>4, <3>1, ReachedIs
  <2> HIDE DEF left
  <2> DEFINE one == Called(left, End)
             two == Called(one, End)
  <2>6. Shape(one) /\ ~Returns(one[1], End)
    BY <2>3, <2>4, CallsThrough
  <2> HIDE DEF one
  <2>7. Shape(two) /\ ~Returns(two[1], End)
    BY <2>6, CallsThrough
  <2> HIDE DEF two
  <2>8. Shape(Called(two, End))
    BY <2>7, CallsThrough
  <2> QED
    BY <2>5, <2>8 DEF Shape, one, two
<1> QED
  BY <1>1, <1>3, <1>4

(* At the end of a complete text nothing is open.                          *)
LEMMA CompleteKnows ==
  ASSUME NEW p, Parsed(p), NEW s, KnowsAll(p, s), Verdict(p) = "complete"
  PROVE  Unclaimed(s)
<1>1. Staying(p, End) = {} /\ Shape(p.stack)
  BY CompleteIs DEF Parsed
<1>2. p.stack \in Seq(Symbols) /\ DOMAIN p.stack = 1 .. Len(p.stack)
  BY <1>1 DEF Shape
<1>3. ASSUME NEW n \in 1 .. Len(p.stack) PROVE p.stack[n] \notin Openers
  <2>1. Returns(p.stack[n], End)
    BY <1>1, <1>2 DEF Staying
  <2> QED
    BY <2>1, OpenersStay DEF Openers
<1>4. OpenIn(s) = NoneOpen
  BY <1>2, <1>3, NestedPlain DEF KnowsAll
<1>5. s.parens = 0 /\ s.case_stack = <<>>
  BY <1>4 DEF OpenIn, NoneOpen
<1> QED
  BY <1>5 DEF Unclaimed, AtPatternEnd, InCase

-----------------------------------------------------------------------------
(* Lines.                                                                  *)

\* The parse of the pending lines, and what the scanner knows of it.
LinesInv == Parsed(parse) /\ (~parse.failed => KnowsAll(parse, scan))

LEMMA DecideParsed ==
  ASSUME NEW p, Parsed(p), NEW s, ~p.failed => KnowsAll(p, s), NEW unread, Decide(p, s, unread)
  PROVE  LinesInv'
<1> DEFINE r == LineResult(p, unread, FALSE)
<1>1. parse' = (IF r = "incomplete" THEN p ELSE Start) /\ scan' = (IF r = "incomplete" THEN s ELSE NewState)
  BY DEF Decide
<1>2. r = "incomplete" => ~p.failed
  BY DEF LineResult
<1> HIDE DEF r
<1>3. CASE r = "incomplete"
  BY <1>1, <1>2, <1>3 DEF LinesInv, KnowsAll
<1>4. CASE r # "incomplete"
  BY <1>1, <1>4, StartParsed, StartKnows DEF LinesInv, KnowsAll
<1> QED
  BY <1>3, <1>4

LEMMA NewlineScan ==
  ASSUME NEW s
  PROVE  Scan(s, "newline") = after_newline(s) /\ \A symbol : ~Gap(symbol, s, "newline")
<1>1. "newline" \notin Redirections /\ "newline" # "in"
  BY DEF Redirections
<1> QED
  BY <1>1 DEF Scan, Gap, WordTokens, Reserved

LEMMA LinesInit_Inv == LinesInit => LinesInv
BY StartParsed, StartKnows DEF LinesInit, NothingPending, LinesInv, KnowsAll

LEMMA LinesNext_Inv ==
  ASSUME LinesInv, [LinesNext]_lines, ~ScannerGaps
  PROVE  LinesInv'
<1>1. ASSUME NEW t \in Tokens \ {"newline"}, Token(t) PROVE LinesInv'
  <2>1. ~parse.failed /\ ~ScannerGap(t) /\ parse' = Shift(parse, t) /\ scan' = Scan(scan, t)
    BY <1>1 DEF Token
  <2>2. ~Gap(Taker(parse, t), scan, t)
    BY <2>1 DEF ScannerGap, Gap
  <2>3. Parsed(parse) /\ KnowsAll(parse, scan)
    BY <2>1 DEF LinesInv
  <2>4. Parsed(Shift(parse, t))
    BY <2>3, ShiftParsed
  <2>5. ~Shift(parse, t).failed => KnowsAll(Shift(parse, t), Scan(scan, t))
    BY <2>1, <2>2, <2>3, StepKnows
  <2> QED
    BY <2>1, <2>4, <2>5 DEF LinesInv, KnowsAll
<1>2. ASSUME LineEnding PROVE LinesInv'
  <2> DEFINE p == Shift(parse, "newline")
             s == after_newline(scan)
  <2>1. Parsed(p)
    BY NewlineIs, ShiftParsed DEF LinesInv
  <2>2. ASSUME ~p.failed PROVE KnowsAll(p, s)
    <3>1. ~parse.failed
      BY <2>2 DEF Shift
    <3> QED
      BY <2>2, <3>1, NewlineIs, NewlineScan, StepKnows DEF LinesInv
  <2>3. Decide(p, s, docs)
    BY <1>2 DEF LineEnding
  <2> HIDE DEF p, s
  <2> QED
    BY <2>1, <2>2, <2>3, DecideParsed
<1>3. ASSUME NEW line, BodyLine(line) PROVE LinesInv'
  BY <1>3, DecideParsed DEF BodyLine, LinesInv
<1>4. ASSUME EndOfInput PROVE LinesInv'
  BY <1>4 DEF EndOfInput, LinesInv, KnowsAll
<1>5. ASSUME UNCHANGED lines PROVE LinesInv'
  BY <1>5 DEF lines, LinesInv, KnowsAll
<1> QED
  BY <1>1, <1>2, <1>3, <1>4, <1>5 DEF LinesNext

(* The invariant is what ScannerAgrees needs.                              *)
LEMMA LinesInv_Agrees == LinesInv => ScannerAgrees
<1> SUFFICES ASSUME LinesInv, ~parse.failed PROVE ScannerAgrees
  BY DEF ScannerAgrees
<1>1. Parsed(parse) /\ KnowsAll(parse, scan)
  BY DEF LinesInv
<1>2. ASSUME NEW w \in WordTokens, ~Shift(parse, w).failed
      PROVE  classify(scan, w).class = Role(parse, w)
  BY <1>1, <1>2, StepKnows DEF Tokens
<1>3. ASSUME ~Shift(parse, ")").failed PROVE ~Unclaimed(scan)
  <2>1. ")" \in Tokens
    BY DEF Tokens, Operators
  <2> QED
    BY <1>1, <1>3, <2>1, StepKnows
<1>4. ASSUME Verdict(parse) = "complete" PROVE Unclaimed(scan)
  BY <1>1, <1>4, CompleteKnows
<1> QED
  BY <1>2, <1>3, <1>4 DEF ScannerAgrees

(* ScannerAgrees, for every MAX_DEPTH, every number of here-documents and  *)
(* every text of any length that has none of the gaps the model names      *)
(* (ScannerGap): the state machine of scanner/state.rs, which does not     *)
(* know the grammar, tells reserved words, commands, assignments,          *)
(* delimiters and arguments apart exactly as the parser does, and knows    *)
(* which `)' is its own.                                                   *)
THEOREM ScannerKnowsTheGrammar ==
  ASSUME ~ScannerGaps
  PROVE  LinesSpec => []ScannerAgrees
<1>1. LinesInit => LinesInv
  BY LinesInit_Inv
<1>2. LinesInv /\ [LinesNext]_lines => LinesInv'
  BY LinesNext_Inv
<1>3. LinesInv => ScannerAgrees
  BY LinesInv_Agrees
<1> QED
  BY <1>1, <1>2, <1>3, PTL DEF LinesSpec

=============================================================================
