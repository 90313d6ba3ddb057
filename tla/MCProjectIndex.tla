--------------------------- MODULE MCProjectIndex ---------------------------
(* Three index requests over a root that changes between a tree without    *)
(* edges, a package, a tree of plain files and one whose files import only *)
(* members of each other.                                                  *)
EXTENDS ProjectIndex

Import(name, as) == [level |-> 0, from |-> << >>, name |-> name, as |-> as]
From(level, from, name) == [level |-> level, from |-> from, name |-> <<name>>, as |-> ""]

File(dir, stem, imports, defs) ==
    [dir |-> dir, stem |-> stem, package |-> FALSE, broken |-> FALSE,
     imports |-> imports, defs |-> defs]

Def(name, calls) ==
    [kind |-> "function", name |-> name, bases |-> {}, calls |-> calls, methods |-> << >>]
Class(name, bases, methods) ==
    [kind |-> "class", name |-> name, bases |-> bases, calls |-> {}, methods |-> methods]

\* One file without imports or calls.
Alone == <<File(<< >>, "m", << >>, <<Def("f", {})>>)>>

\* pkg/__init__.py imports from .m (one level too high for the extractor),
\* pkg/m.py takes n from its package and pkg/n.py is the end of the line.
Package ==
    <<[File(<<"pkg">>, "", <<From(1, <<"m">>, "f")>>, << >>) EXCEPT !.package = TRUE],
      File(<<"pkg">>, "m", <<From(1, << >>, "n")>>, <<Def("f", {<<"n", "g">>})>>),
      File(<<"pkg">>, "n", << >>, <<Def("g", {<<"g">>})>>)>>

\* Plain files: a chain of imports through a package, a class whose method
\* calls into another file, a file that does not parse and one on its own.
Plain ==
    <<File(<<"pkg">>, "a", <<From(1, << >>, "b")>>,
           <<Class("C", {<<"b", "D">>},
                   <<[name |-> "m", calls |-> {<<"b", "h">>, <<"b", "D">>}]>>)>>),
      File(<<"pkg">>, "b", <<Import(<<"c">>, "x")>>,
           <<Class("D", {}, << >>), Def("h", {<<"x", "k">>, <<"x", "l">>})>>),
      File(<< >>, "c", <<From(0, <<"pkg">>, "d")>>, <<Def("k", {}), Def("l", {})>>),
      [File(<<"pkg">>, "d", <<Import(<<"e">>, "")>>, << >>) EXCEPT !.broken = TRUE],
      File(<< >>, "e", << >>, << >>)>>

\* The first two files import a function of each other, which no edge shows;
\* the third names the first whole.
Members ==
    <<File(<< >>, "m", <<From(0, <<"n">>, "h")>>, <<Def("f", {<<"h">>})>>),
      File(<< >>, "n", <<From(0, <<"m">>, "f")>>, <<Def("h", {<<"f">>})>>),
      File(<< >>, "o", <<Import(<<"m">>, "")>>, << >>)>>

MCContent == [t \in Trees |->
    CASE t = "alone" -> Alone [] t = "package" -> Package
      [] t = "plain" -> Plain [] t = "members" -> Members]

Symmetric == Permutations(Passes)
=============================================================================
