----------------------------- MODULE MCShellState -----------------------------
(* ShellState with five scripts of commands that bear on one another.        *)
EXTENDS ShellState

CONSTANTS main, c1, c2

AllNames == {"x", "t", "PATH", "PWD", "OLDPWD", "HOME", "CDPATH"}
Path(a) == <<"/", a>>
AllDirs == {Root, Path("d"), <<"/", "d", "e">>, Path("b1"), Path("b2")}
TheLinks == (Path("l") :> <<"/", "d", "e">>)

Env(pwd) == [n \in AllNames |->
  CASE n = "PWD"  -> [value |-> pwd, exported |-> TRUE, readonly |-> FALSE]
    [] n = "HOME" -> [value |-> Path("d"), exported |-> TRUE, readonly |-> FALSE]
    [] n = "PATH" -> [value |-> <<"b1", "">>, exported |-> TRUE, readonly |-> FALSE]
    [] OTHER      -> Absent]

\* Simple commands.
Plain(words) == [assignments |-> <<>>, via |-> "none", words |-> words, redirects |-> <<>>]
Word(name) == << <<name>> >>
With(assignments, s) == [s EXCEPT !.assignments = assignments]
Via(via, s) == [s EXCEPT !.via = via]
To(redirects, s) == [s EXCEPT !.redirects = redirects]
Is(name, value) == [name |-> name, value |-> value]
Open(fd, file) == [fd |-> fd, op |-> "open", target |-> file]
Dup(fd, from) == [fd |-> fd, op |-> "dup", target |-> from]
Close(fd) == [fd |-> fd, op |-> "close", target |-> ""]

Nothing == [length |-> 4, commands |-> {}, groups |-> {}, functions |-> {}, copies |-> FALSE,
            removable |-> {}, installable |-> {}, files |-> <<>>, starts |-> {Root}]

Variables == [Nothing EXCEPT
  !.length = 6, !.functions = {"f"}, !.copies = TRUE,
  !.commands = {With(<<Is("x", <<"a">>)>>, Plain(<<>>)),
                With(<<Is("t", <<"a">>), Is("x", <<"b">>)>>, Plain(Word("f") \o Word("v"))),
                With(<<Is("t", <<"b">>)>>, Via("command -p", Plain(Word("eval")))),
                With(<<Is("t", <<"a">>)>>, Plain(Word("p"))),
                Plain(Word("export") \o << <<"x", "=", "c">> >>),
                Plain(Word("readonly") \o Word("x")),
                Plain(Word("unset") \o Word("t") \o Word("x")),
                Plain(Word("shift")), Plain(Word("return"))}]

Options == [Nothing EXCEPT
  !.length = 5, !.copies = TRUE, !.functions = {"umask"},
  !.commands = {Plain(Word("set") \o << <<"-", "C">>, <<"-", "q">> >>),
                Plain(Word("set") \o << <<"-", "C", "o", "f">>, <<"xtrace">>, <<"+", "o">>,
                                     <<"noglob">>, <<"a">> >>),
                Plain(Word("set") \o << <<"+", "C">>, <<"-", "-">> >>),
                Plain(Word("set") \o << <<"-", "x">>, <<"-", "o">> >>),
                Plain(Word("set") \o << <<"-">>, <<"b">> >>),
                Plain(Word("alias") \o Word("w")), Plain(Word("unalias") \o Word("w")),
                Plain(Word("umask") \o Word("077")), Plain(Word("umask") \o Word("022")),
                Plain(Word("unset") \o Word("-f") \o Word("umask"))}]

Directories == [Nothing EXCEPT
  !.copies = TRUE, !.removable = {<<"/", "d", "e">>, Path("d")}, !.starts = {Root, <<"/", "d", "e">>},
  !.functions = {"f"},
  !.commands = {Plain(Word("cd")), Plain(Word("cd") \o Word("-")), Plain(Word("cd") \o Word("..")),
                Plain(Word("cd") \o Word("e")), Plain(Word("cd") \o << <<"/", "l">> >>),
                Plain(Word("cd") \o Word("-P") \o << <<"/", "l">> >>),
                With(<<Is("CDPATH", <<"", "d">>)>>, Plain(<<>>)),
                Plain(Word("readonly") \o Word("PWD")), Plain(Word("unset") \o Word("PWD"))}]

Descriptors == [Nothing EXCEPT
  !.length = 6, !.copies = TRUE, !.functions = {"f"},
  !.groups = {<<Open("3", "g")>>, <<Open("2", "h"), Dup("1", "2")>>},
  !.commands = {To(<<Open("3", "f")>>, Plain(Word("exec"))),
                To(<<Dup("1", "3"), Close("3")>>, Plain(Word("exec"))),
                With(<<Is("x", <<"a">>)>>, To(<<Dup("2", "1")>>, Via("command", Plain(Word("exec"))))),
                Plain(Word("readonly") \o Word("x")),
                To(<<Dup("1", "3")>>, Plain(Word("f"))),
                To(<<Open("3", "g")>>, Plain(Word("eval"))),
                Plain(Word("return"))}]

Search == [Nothing EXCEPT
  !.length = 5, !.copies = TRUE, !.functions = {"p"}, !.starts = {Root, Path("d")},
  !.installable = {<<"/", "b1", "p">>, <<"/", "d", "p">>},
  !.files = (<<"/", "b2", "p">> :> "program" @@ <<"/", "d", "p">> :> "plain"),
  !.commands = {Plain(Word("p")), Via("command -p", Plain(Word("eval"))),
                Plain(Word("hash") \o Word("p")), Plain(Word("hash") \o Word("-r")),
                Plain(Word("command") \o Word("-pv") \o Word("p")),
                Plain(Word("type") \o Word("p")), Plain(Word("alias") \o Word("p")),
                With(<<Is("PATH", <<"b2">>)>>, Plain(Word("p"))),
                With(<<Is("PATH", <<"", "b2">>)>>, Plain(<<>>)),
                Plain(Word("unset") \o Word("PATH")),
                Plain(Word("cd") \o Word("d"))}]

AllScripts == [variables |-> Variables, options |-> Options, directories |-> Directories,
               descriptors |-> Descriptors, search |-> Search]
TheCopies == {c1, c2}
TheEnvironments == {Env(None), Env(Path("l"))}
AllFds == {"0", "1", "2", "3"}
AllFiles == {"terminal", "closed", "f", "g", "h"}
TheDefault == <<"b2">>

Symmetry == Permutations(TheCopies)
=============================================================================
