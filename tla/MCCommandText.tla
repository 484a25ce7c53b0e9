----------------------------- MODULE MCCommandText -----------------------------
EXTENDS CommandText, FiniteSets

MCOrder == <<"!", "*", "-", ".", "/", "?", "[", "]", "a", "b", ":", " ", "~">>
MCHome == <<"h", " ">>

Upto(n, S) == UNION {[1 .. k -> S] : k \in 0 .. n}
Active1(c) == [c |-> c, active |-> TRUE]
Quoted1(c) == [c |-> c, active |-> FALSE]

\* Patterns of up to four characters, all that can be active in one, and two that are not.
PatternQuestions ==
  [about : {"pattern"},
   pattern : Upto(4, {Active1(c) : c \in {"a", "*", "?", "[", "!", "-", "]"}}
                      \union {Quoted1("]"), Quoted1("*")})]
MCSubjects == Upto(3, {"a", "]", "*"})

\* Fields of up to four pieces, and files of which some are hidden and one is a `['.
Pieces == {<<>>, <<Quoted1("*")>>}
          \union {[i \in DOMAIN p |-> Active1(p[i])] :
                    p \in {<<"a">>, <<"b">>, <<"*">>, <<".", "*">>, <<"[", "a", "]">>, <<"[">>,
                           <<"?", "a">>}}
PathnameQuestions ==
  {[about |-> "pathname", pieces |-> p] : p \in {q \in Upto(4, Pieces) : q # <<>> /\ q[1] # <<>>}}
MCFiles == {<<<<"a">>>>, <<<<"a">>, <<"b">>>>, <<<<"a">>, <<".", "a">>>>, <<<<"b">>>>,
            <<<<".", "a">>>>, <<<<".", "a">>, <<"a">>>>, <<<<"[">>>>,
            <<<<"a">>, <<"b">>, <<"a">>>>, <<<<"*">>>>}

\* Lines of up to four characters for one to three variables.
ReadQuestions ==
  [about : {"read"},
   line : Upto(4, [c : {"a", " ", ":"}, kind : {"Expanded"}] \union [c : {" ", ":"}, kind : {"Quoted"}]),
   ifs : {{}, {" "}, {":", " "}}, count : 1 .. 3]

\* Words of up to two parts: every operator, in and out of quotes.
Lit(text)  == [kind |-> "Literal", text |-> text]
Single(text) == [kind |-> "SingleQuoted", text |-> text]
Double(parts) == [kind |-> "DoubleQuoted", inner |-> parts]
Par(name, op, arg) == [kind |-> "Parameter", name |-> name, op |-> op, arg |-> arg]

Inner == {Lit(<<"a">>), Lit(<<"~">>), Single(<<" ">>),
          Par("x", "", <<>>), Par("@", "", <<>>), Par("*", "", <<>>)}
Simple ==
  Inner
  \union {Par("x", op, <<arg>>) : op \in HandlesUnset \union Trims,
                                  arg \in {Lit(<<"*">>), Single(<<" ">>), Par("@", "", <<>>), Double(<<>>)}}
  \union {Par("@", "#", <<Lit(<<"*">>)>>), Par("@", ":-", <<Lit(<<"*">>)>>), Par("1", ":=", <<Lit(<<"a">>)>>),
          Par("x", "length", <<>>), Par("@", "length", <<>>),
          Par("x", "?", <<Par("x", ":=", <<Lit(<<"a">>)>>)>>),
          Par("x", "#", <<Par("x", ":=", <<Lit(<<"a">>)>>)>>)}
Parts == Simple \union {Double(<<p>>) : p \in {s \in Simple : s.kind # "SingleQuoted"}}
                \union {Double(<<>>), Double(<<Par("x", "", <<>>), Par("@", "", <<>>)>>)}
WordQuestions ==
  [about : {"word"},
   parts : {<<p>> : p \in Parts} \union {<<p, q>> : p \in Inner, q \in Parts},
   sh : [x : {<<>>, <<<<>>>>, <<<<"a", ":">>>>, <<<<" ", "b">>>>},
         params : {<<>>, <<<<>>, <<"b">>>>},
         ifs : {<<>>, <<<<>>>>, <<<<":", " ">>>>},
         nounset : BOOLEAN]]

\* Expressions of three operators in a row or one inside the other, with numbers of 4 bits.
Leaves == {Leaf(Number(0)), Leaf(Number(3)), Leaf(Name)}
BinaryOps == {"||", "&&", "|", "==", "<", "<<", "-", "/"}
Ones(S) == {Unary(op, e) : op \in {"-", "!", "~"}, e \in S}
           \union {Assign(op, e) : op \in {"=", "-="}, e \in S}
Twos(S, T) == {Binary(op, e, f) : op \in BinaryOps, e \in S, f \in T}
Threes(S, T, U) == {Cond(e, f, g) : e \in S, f \in T, g \in U}
Small == Ones(Leaves) \union Twos(Leaves, Leaves) \union Threes(Leaves, Leaves, Leaves)
Large == Ones(Small) \union Twos(Small, Leaves) \union Twos(Leaves, Small)
         \union Threes(Small, Leaves, Leaves) \union Threes(Leaves, Small, Leaves)
         \union Threes(Leaves, Leaves, Small)
ArithQuestions ==
  [about : {"arith"}, expression : Leaves \union Small \union Large, x : {<<>>, <<-8>>, <<2>>}]

TestQuestions ==
  [about : {"test"}, operands : Upto(4, {"!", "(", ")", "-a", "-n", "=", "w", ""})]

PrintfQuestions ==
  [about : {"printf"}, format : Upto(3, DOMAIN Takes) \ {<<>>}, args : Upto(3, {"7", "w", "\\c"})]

MCQuestions == PatternQuestions \union PathnameQuestions \union ReadQuestions \union WordQuestions
               \union ArithQuestions \union TestQuestions \union PrintfQuestions

=============================================================================
