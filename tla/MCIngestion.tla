----------------------------- MODULE MCIngestion -----------------------------
(* Two requests over two files: the first holds a document of any language, *)
(* the second a short one whose text the first may contain too.             *)
EXTENDS Ingestion

CONSTANTS f1, f2

Doc(lang, lines) == [lang |-> lang, lines |-> lines]

MCContents == [f \in Files |->
    IF f = f2 THEN {Doc("text", <<"text">>)}
    ELSE {Doc("text", <<"text", "blank", "head", "text", "text">>),
          Doc("text", <<"text", "blank", "blank", "blank", "text", "head">>),
          Doc("markdown", <<"text", "head", "text", "head">>),
          Doc("markdown", <<"blank", "text", "blank">>),
          Doc("javascript", <<"head", "text", "head", "text">>),
          Doc("python", <<"docstring", "class", "method", "inner", "method", "inner">>),
          Doc("python", <<"def", "inner", "blank", "inner", "text", "def", "inner">>),
          Doc("python", <<"text", "docstring", "docstring", "docstring", "docstring",
                          "docstring", "text">>),
          Doc("python", <<"broken", "text", "text", "text">>),
          Doc("json", <<"head", "text">>),
          Doc("json", <<"text", "text">>),
          Doc("ignored", <<"text">>),
          Doc("text", << >>)}]

Symmetric == Permutations(Ingests) \cup Permutations(Projects)
=============================================================================
