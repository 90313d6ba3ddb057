---------------------------- MODULE PythonGraph ----------------------------
(***************************************************************************)
(* What project/ast_python.py extracts from the Python files of a tree,    *)
(* and what project/indexer.py stores of it.                               *)
(*                                                                         *)
(* A dotted name is the sequence of its parts.  A file is a record         *)
(*   dir, stem  its place: pkg/sub/m.py has dir <<"pkg", "sub">>, stem "m" *)
(*   package    it is an __init__.py (and stem counts for nothing)         *)
(*   broken     ast.parse refuses it                                       *)
(*   imports    one record per imported name, in the order of ast.walk:    *)
(*              level (0 when absolute), from (the module of a from-import,*)
(*              or <<>>), name (a sequence) and as ("" without an as)      *)
(*   defs       its top-level functions and classes: kind, name, bases     *)
(*              (dotted names), calls (dotted names called inside) and     *)
(*              methods (a sequence of name and calls)                     *)
(* and a tree is the sequence of its files in the order of the walk.       *)
(* Signatures, docstrings and line numbers are left out.                   *)
(***************************************************************************)
EXTENDS Integers, Sequences, FiniteSets, SequencesExt

Names == Seq(STRING)
SomeOf(S) == {s \in SUBSET S : IsFiniteSet(s)}

ImportedNames == [level : Nat, from : Names, name : Names \ {<< >>}, as : STRING]
Methods == [name : STRING, calls : SomeOf(Names \ {<< >>})]
Definitions ==
    [kind : {"function", "class"}, name : STRING, bases : SomeOf(Names \ {<< >>}),
     calls : SomeOf(Names \ {<< >>}), methods : Seq(Methods)]
SourceFiles ==
    [dir : Names, stem : STRING, package : BOOLEAN, broken : BOOLEAN,
     imports : Seq(ImportedNames), defs : Seq(Definitions)]

----------------------------------------------------------------------------
\* _module_qname: pkg/__init__.py is pkg, and the root's is __init__.
QName(file) ==
    IF ~file.package THEN Append(file.dir, file.stem)
    ELSE IF file.dir = << >> THEN <<"__init__">> ELSE file.dir

\* Mutant: a relative import starts at the module itself.
BaseAtModule(file, level) == QName(file)

\* A relative import drops `level` parts of the module's own name.
Base(file, level) ==
    LET q == QName(file) IN SubSeq(q, 1, Len(q) - level)

Target(file, i) ==
    (IF i.level = 0 THEN i.from ELSE Base(file, i.level) \o i.from) \o i.name

\* The name an import binds, and what it stands for: the last import wins,
\* and `import a.b` binds a to the whole of a.b.
Local(i) == IF i.as # "" THEN i.as ELSE Head(i.name)

Aliases(file) ==
    [n \in {Local(file.imports[k]) : k \in DOMAIN file.imports} |->
        Target(file, file.imports[CHOOSE k \in DOMAIN file.imports :
            /\ Local(file.imports[k]) = n
            /\ \A j \in k + 1 .. Len(file.imports) : Local(file.imports[j]) # n])]

\* _resolve: only a leading alias is expanded.
Resolve(name, aliases) ==
    IF Head(name) \in DOMAIN aliases THEN aliases[Head(name)] \o Tail(name)
    ELSE name

----------------------------------------------------------------------------
(* The symbols of a file, in the order they are emitted.                   *)

SymbolsOf(def, module, file) ==
    LET own == Append(module, def.name)
    IN  <<[kind |-> def.kind, qname |-> own, file |-> file]>>
        \o [m \in DOMAIN def.methods |->
               [kind |-> "method", qname |-> Append(own, def.methods[m].name),
                file |-> file]]

FileSymbols(file, f) ==
    <<[kind |-> "module", qname |-> QName(file), file |-> f]>>
    \o IF file.broken THEN << >>
       ELSE FlattenSeq([d \in DOMAIN file.defs |->
                SymbolsOf(file.defs[d], QName(file), f)])

\* The edges of a file, between names.
Edge(src, rel, dst) == [src |-> src, rel |-> rel, dst |-> dst]

ImportEdges(file) ==
    {Edge(QName(file), "imports", Target(file, file.imports[k])) :
        k \in DOMAIN file.imports}

DefEdges(file, def) ==
    LET own == Append(QName(file), def.name)
        al  == Aliases(file)
    IN  {Edge(own, "inherits", Resolve(b, al)) : b \in def.bases}
        \cup {Edge(own, "calls", Resolve(c, al)) : c \in def.calls}
        \cup UNION {{Edge(Append(own, def.methods[m].name), "calls", Resolve(c, al)) :
                        c \in def.methods[m].calls} : m \in DOMAIN def.methods}

FileEdges(file) ==
    IF file.broken THEN {}
    ELSE ImportEdges(file)
         \cup UNION {DefEdges(file, file.defs[d]) : d \in DOMAIN file.defs}

----------------------------------------------------------------------------
(* What the indexer stores.  A symbol is known by its position among the   *)
(* symbols of the tree; of two with one qualified name the later one is    *)
(* the one edges find.  0 is the NULL of an edge that stays unresolved.    *)

TreeSymbols(tree) ==
    FlattenSeq([f \in DOMAIN tree |-> FileSymbols(tree[f], f)])

IdOf(symbols, qname) ==
    LET same == {s \in DOMAIN symbols : symbols[s].qname = qname}
    IN  IF same = {} THEN 0 ELSE Max(same)

\* A source without a symbol falls back on the name it is nested in.
Source(symbols, qname) ==
    IF IdOf(symbols, qname) # 0 \/ Len(qname) < 2 THEN IdOf(symbols, qname)
    ELSE IdOf(symbols, Front(qname))

TreeEdges(tree) ==
    LET symbols == TreeSymbols(tree)
        raw     == UNION {FileEdges(tree[f]) : f \in DOMAIN tree}
    IN  {e \in {Edge(Source(symbols, r.src), r.rel, IdOf(symbols, r.dst)) : r \in raw} :
            e.src # 0}

=============================================================================
