------------------------------- MODULE Patterns -------------------------------
(***************************************************************************)
(* Patterns (expand/pattern.rs), what `#', `##', `%' and `%%' cut off      *)
(* (expand/param.rs), and pathname expansion (expand/pathname.rs).         *)
(*                                                                         *)
(* A text is a sequence of characters, a pattern a sequence of characters  *)
(* that each may be active or, when quoted, not.  `!' also stands for the  *)
(* `^' that negates a set, and character classes `[:alpha:]' are left out. *)
(***************************************************************************)
EXTENDS Naturals, Sequences, SequencesExt, FiniteSetsExt

CONSTANT Order      \* the characters, from the lowest to the highest

ASSUME OrderAssumption == Order \in Seq(STRING) /\ IsInjective(Order)

Code(c) == CHOOSE n \in DOMAIN Order : Order[n] = c
Between(low, high) == {c \in Range(Order) : Code(low) <= Code(c) /\ Code(c) <= Code(high)}

Is(p, i, c) == i \in DOMAIN p /\ p[i].active /\ p[i].c = c

-----------------------------------------------------------------------------
(* `Pattern::new'.                                                          *)

Char(c)        == [is |-> "char", of |-> {c}]
AnyOne         == [is |-> "any_one", of |-> {}]
AnyMany        == [is |-> "any_many", of |-> {}]
Set(negate, s) == [is |-> IF negate THEN "none_of" ELSE "one_of", of |-> s]

RECURSIVE parse_members(_, _, _, _)

\* The loop of `parse_set': the set and the place behind its `]', or <<>> if there is no `]'.
parse_members(p, i, first, members) ==
  IF i > Len(p) THEN <<>>
  ELSE IF Is(p, i, "]") /\ i > first THEN <<members, i + 1>>
  ELSE IF i + 2 <= Len(p) /\ Is(p, i + 1, "-") /\ ~Is(p, i + 2, "]")
         THEN parse_members(p, i + 3, first, members \union Between(p[i].c, p[i + 2].c))
  ELSE parse_members(p, i + 1, first, members \union {p[i].c})

parse_set(p, start) ==
  LET negate == Is(p, start, "!")
      first == IF negate THEN start + 1 ELSE start
      found == parse_members(p, first, first, {})
  IN IF found = <<>> THEN <<>> ELSE <<Set(negate, found[1]), found[2]>>

RECURSIVE Compiled(_, _, _)

\* The items of p from i on, behind those in `items'.
Compiled(p, i, items) ==
  IF i > Len(p) THEN items
  ELSE LET found == IF Is(p, i, "[") THEN parse_set(p, i + 1) ELSE <<>>
       IN CASE found # <<>>   -> Compiled(p, found[2], Append(items, found[1]))
            [] Is(p, i, "*")  -> Compiled(p, i + 1, IF items # <<>> /\ Last(items) = AnyMany THEN items
                                                    ELSE Append(items, AnyMany))
            [] Is(p, i, "?")  -> Compiled(p, i + 1, Append(items, AnyOne))
            [] OTHER          -> Compiled(p, i + 1, Append(items, Char(p[i].c)))

new(p) == Compiled(p, 1, <<>>)

is_literal(items) == \A i \in DOMAIN items : items[i].is = "char"
starts_with_dot(items) == items # <<>> /\ items[1] = Char(".")

-----------------------------------------------------------------------------
(* `Pattern::matches': one loop, which remembers the last `*' only.         *)

Steps(item, c) ==
  \/ item.is = "any_one"
  \/ item.is \in {"char", "one_of"} /\ c \in item.of
  \/ item.is = "none_of" /\ c \notin item.of

RECURSIVE Matching(_, _, _), Matching_stuck(_, _, _)

\* Mutant: the star is tried with one character more without starting again behind it.
Matching_stuck(items, text, at) ==
  IF at.ti > Len(text) THEN \A i \in at.pi .. Len(items) : items[i] = AnyMany
  ELSE IF at.pi <= Len(items) /\ items[at.pi] = AnyMany
         THEN Matching_stuck(items, text, [at EXCEPT !.pi = @ + 1, !.star = <<at.pi, at.ti>>])
  ELSE IF at.pi <= Len(items) /\ Steps(items[at.pi], text[at.ti])
         THEN Matching_stuck(items, text, [at EXCEPT !.pi = @ + 1, !.ti = @ + 1])
  ELSE IF at.star # <<>>
         THEN Matching_stuck(items, text, [at EXCEPT !.ti = @ + 1])
  ELSE FALSE

Matching(items, text, at) ==
  IF at.ti > Len(text) THEN \A i \in at.pi .. Len(items) : items[i] = AnyMany
  ELSE IF at.pi <= Len(items) /\ items[at.pi] = AnyMany
         THEN Matching(items, text, [at EXCEPT !.pi = @ + 1, !.star = <<at.pi, at.ti>>])
  ELSE IF at.pi <= Len(items) /\ Steps(items[at.pi], text[at.ti])
         THEN Matching(items, text, [at EXCEPT !.pi = @ + 1, !.ti = @ + 1])
  ELSE IF at.star # <<>>
         THEN Matching(items, text, [pi |-> at.star[1] + 1, ti |-> at.star[2] + 1,
                                     star |-> <<at.star[1], at.star[2] + 1>>])
  ELSE FALSE

matches(items, text) == Matching(items, text, [pi |-> 1, ti |-> 1, star |-> <<>>])

\* `shortest_prefix' and its like: how much of the text is cut off.
MatchingPrefixes(items, text) == {n \in 0 .. Len(text) : matches(items, SubSeq(text, 1, n))}
MatchingSuffixes(items, text) == {n \in 0 .. Len(text) : matches(items, SubSeq(text, Len(text) - n + 1, Len(text)))}

trim(items, op, text) ==
  LET lengths == IF op \in {"#", "##"} THEN MatchingPrefixes(items, text) ELSE MatchingSuffixes(items, text)
      n == CASE lengths = {}                            -> 0
             [] lengths # {} /\ op \in {"#", "%"}       -> Min(lengths)
             [] OTHER                                   -> Max(lengths)
  IN IF op \in {"#", "##"} THEN SubSeq(text, n + 1, Len(text)) ELSE SubSeq(text, 1, Len(text) - n)

-----------------------------------------------------------------------------
(* Pathname expansion, of a field that is given as the pieces between its   *)
(* slashes.  The files are a set of paths, sequences of names from the      *)
(* working directory; a path is a directory if another one goes on from it. *)

HasPattern(pieces) ==
  \E n \in DOMAIN pieces : \E i \in DOMAIN pieces[n] : \E c \in {"*", "?", "["} : Is(pieces[n], i, c)

TextOf(p) == [i \in DOMAIN p |-> p[i].c]

IsDir(files, path) == path = <<>> \/ \E f \in files : IsStrictPrefix(path, f)

\* A path as it is written, with the empty pieces of doubled slashes and of a slash at the end.
NamesOf(written) == SelectSeq(written, LAMBDA name : name # <<>>)

\* What `symlink_metadata' finds: a slash at the end asks for a directory.
Exists(files, written) ==
  /\ NamesOf(written) \in files \/ NamesOf(written) = <<>>
  /\ Last(written) = <<>> => IsDir(files, NamesOf(written))

\* One piece: what was found so far, longer by it.
Piece(files, s, p) ==
  LET items == new(p)
      Listed(written) == {f \in files : Len(f) = Len(NamesOf(written)) + 1 /\ IsPrefix(NamesOf(written), f)}
  IN CASE p = <<>> ->
            [found |-> {Append(w, <<>>) : w \in s.found}, check_at_end |-> TRUE]
       [] p # <<>> /\ is_literal(items) ->
            [found |-> {Append(w, TextOf(p)) : w \in s.found}, check_at_end |-> TRUE]
       [] OTHER ->
            [found |-> UNION {{Append(w, Last(f)) : f \in
                {g \in Listed(w) : /\ Last(g)[1] = "." => starts_with_dot(items)
                                   /\ matches(items, Last(g))}} : w \in s.found},
             check_at_end |-> FALSE]

\* Mutant: a name that holds no pattern is taken to be there.
expand_unchecked(files, pieces) ==
  IF ~HasPattern(pieces) THEN {}
  ELSE FoldLeft(LAMBDA s, p : Piece(files, s, p), [found |-> {<<>>}, check_at_end |-> FALSE], pieces).found

\* `expand'.
expand(files, pieces) ==
  LET s == FoldLeft(LAMBDA q, p : Piece(files, q, p), [found |-> {<<>>}, check_at_end |-> FALSE], pieces)
  IN IF ~HasPattern(pieces) THEN {}
     ELSE {w \in s.found : s.check_at_end => Exists(files, w)}

-----------------------------------------------------------------------------
(* What they promise, by the standard's words.                              *)

\* Where the bracket expression that starts at the first character ends.
BracketEnd(p) ==
  LET first == IF Is(p, 2, "!") THEN 3 ELSE 2
      ends == {i \in DOMAIN p : i > first /\ Is(p, i, "]")}
  IN IF Is(p, 1, "[") /\ ends # {} THEN Min(ends) ELSE 0

RECURSIVE Stands(_)

\* The characters that the inside of a bracket expression stands for.
Stands(p) ==
  CASE p = <<>>                         -> {}
    [] Len(p) >= 3 /\ Is(p, 2, "-")     -> Between(p[1].c, p[3].c) \union Stands(SubSeq(p, 4, Len(p)))
    [] OTHER                            -> {p[1].c} \union Stands(Tail(p))

InBracket(inside, c) ==
  IF Is(inside, 1, "!") THEN c \notin Stands(Tail(inside)) ELSE c \in Stands(inside)

RECURSIVE Matched(_, _)

\* A pattern matches a text if the text can be divided so that each part fits its piece.
Matched(p, text) ==
  LET end == BracketEnd(p)
      Rest(n) == SubSeq(p, n, Len(p))
  IN CASE p = <<>>      -> text = <<>>
       [] Is(p, 1, "*") -> \E n \in 0 .. Len(text) : Matched(Tail(p), SubSeq(text, n + 1, Len(text)))
       [] OTHER -> /\ text # <<>>
                   /\ CASE Is(p, 1, "?") -> TRUE
                        [] end # 0       -> InBracket(SubSeq(p, 2, end - 1), Head(text))
                        [] OTHER         -> p[1].c = Head(text)
                   /\ Matched(IF end # 0 THEN Rest(end + 1) ELSE Tail(p), Tail(text))

\* The paths that a field with a pattern stands for: those that are there, of as many names as
\* the field has, each of which matches its piece.
Found(files, pieces) ==
  LET wanted == SelectSeq(pieces, LAMBDA p : p # <<>>) IN
  {f \in files :
    /\ HasPattern(pieces)
    /\ Len(f) = Len(wanted)
    /\ \A n \in DOMAIN wanted :
         /\ Matched(wanted[n], f[n])
         /\ f[n][1] = "." => wanted[n][1].c = "."
    /\ Last(pieces) = <<>> => IsDir(files, f)}

===============================================================================
