-------------------------------- MODULE Paths --------------------------------
(***************************************************************************)
(* Names of directories and files as the shell and as the kernel read      *)
(* them, and the search of PATH with its cache.                            *)
(*                                                                         *)
(* A path is the sequence of its components; an absolute one starts with   *)
(* "/".  The shell removes ".." by reading the text (`lexical' in cd.rs),  *)
(* the kernel by following every symbolic link on the way: the two differ  *)
(* behind a link, which is what cd has to get right.  A search path is the *)
(* sequence of its entries: "" is the current directory, any other entry a *)
(* directory of the root.                                                  *)
(***************************************************************************)
EXTENDS Naturals, Sequences, SequencesExt

CONSTANTS None,      \* no value
          Links      \* the symbolic links: from the path of each to its target

Root == <<"/">>

IsAbsolute(p) == p # <<>> /\ Head(p) = "/"

Joined(base, p) == IF IsAbsolute(p) THEN p ELSE base \o p

Parent(p) == IF Len(p) > 1 THEN Front(p) ELSE p

\* `lexical': ".." takes back the component before it, whatever that is.
Lexical(p) ==
  FoldLeft(LAMBDA out, name : IF name = ".." THEN Parent(out) ELSE Append(out, name),
           Root, Tail(p))

\* One component as the kernel follows it.
Follow(out, name) ==
  LET to == Append(out, name)
  IN IF name = ".." THEN Parent(out) ELSE IF to \in DOMAIN Links THEN Links[to] ELSE to

\* The path without links that p stands for, whether it exists or not.
Resolved(p) == FoldLeft(Follow, Root, Tail(p))

\* The directory p leads to, or None: every component has to be a directory.
Reached(dirs, p) ==
  FoldLeft(LAMBDA out, name : IF out # None /\ Follow(out, name) \in dirs
                              THEN Follow(out, name) ELSE None,
           Root, Tail(p))

-----------------------------------------------------------------------------
(* PathCache.  `programs' are the entries of the search path that hold an   *)
(* executable file of this name now, `regular' those that hold any file.    *)

Place(here, entry, name) ==
  Append(IF entry = "" THEN here ELSE Append(Root, entry), name)

EmptyCache == [path |-> <<>>, found |-> <<>>]

Remembered(found, name, entry) ==
  [n \in DOMAIN found \union {name} |-> IF n = name THEN entry ELSE found[n]]

\* Mutant: what was found once is taken to be there.
Lookup_trusting(cache, name, path, programs, regular) ==
  LET kept  == IF cache.path # path THEN <<>> ELSE cache.found
      first == SelectInSeq(path, LAMBDA entry : entry \in programs)
      answer(kind, entry, found) ==
        [kind |-> kind, entry |-> entry, cache |-> [path |-> path, found |-> found]]
  IN IF name \in DOMAIN kept THEN answer("found", kept[name], kept)
     ELSE IF first # 0 THEN answer("found", path[first], Remembered(kept, name, path[first]))
     ELSE answer("missing", None, kept)

Lookup(cache, name, path, programs, regular) ==
  LET kept  == IF cache.path # path THEN <<>> ELSE cache.found
      hit   == name \in DOMAIN kept /\ kept[name] \in programs
      first == SelectInSeq(path, LAMBDA entry : entry \in programs)
      answer(kind, entry, found) ==
        [kind |-> kind, entry |-> entry, cache |-> [path |-> path, found |-> found]]
  IN CASE hit                  -> answer("found", kept[name], kept)
       [] ~hit /\ first # 0     -> answer("found", path[first], Remembered(kept, name, path[first]))
       [] ~hit /\ first = 0     -> answer(IF ToSet(path) \intersect regular # {} THEN "denied" ELSE "missing",
                                         None, Restrict(kept, DOMAIN kept \ {name}))

=============================================================================
