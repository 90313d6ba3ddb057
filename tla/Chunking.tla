------------------------------- MODULE Chunking -------------------------------
(***************************************************************************)
(* The chunkers of rag/chunking.py, as functions of a document.  A document*)
(* is a language and its lines, and of a line only what a chunker looks at *)
(* is kept:                                                                *)
(*   "blank", "text"                                                       *)
(*   "head"          a Markdown heading, a JavaScript declaration          *)
(*   "def", "class"  a top-level Python function or class                  *)
(*   "method"        a def inside one, "inner" any other indented line     *)
(*   "docstring"     a line of the module's docstring                      *)
(*   "broken"        what neither ast.parse nor json.loads accepts, or the *)
(*                   empty JSON object                                     *)
(* Another JSON object has a line per key, the first a "head".  Names are  *)
(* what lines of the same kind share, so that only the place of a chunk,   *)
(* or the key of a JSON chunk, tells it from another: a name is a pair of  *)
(* what is shared and the key's number.                                    *)
(***************************************************************************)
EXTENDS Integers, Sequences, FiniteSets, SequencesExt, FiniteSetsExt

CONSTANTS
    WindowLines,  \* lines_per_chunk of _chunk_window
    Overlap       \* its overlap

ASSUME ChunkingAssumption == WindowLines \in Nat \ {0} /\ Overlap \in Nat

Solid(lines) == {k \in DOMAIN lines : lines[k] # "blank"}

\* str.strip() of some lines joined.
Strip(lines) ==
    IF Solid(lines) = {} THEN << >>
    ELSE SubSeq(lines, Min(Solid(lines)), Max(Solid(lines)))

Chunk(kind, name, first, last, text) ==
    [kind |-> kind, name |-> name, first |-> first, last |-> last, text |-> text]
Named(word) == <<word, 0>>
Key(k)      == <<"key", k>>

\* The chunk of the lines from first to last.
Piece(lines, kind, name, first, last) ==
    Chunk(kind, Named(name), first, last, Strip(SubSeq(lines, first, last)))

\* A finite set of numbers as a sequence that rises.
InOrder(indices) ==
    [k \in 1 .. Cardinality(indices) |->
        CHOOSE n \in indices : Cardinality({m \in indices : m < n}) = k - 1]

-----------------------------------------------------------------------------
(* _chunk_window: overlapping windows, the blank ones left out, none after *)
(* the first that reaches the end.                                         *)

\* Mutant: the overlap is skipped instead of repeated.
StepOver == WindowLines + Overlap

Step == IF WindowLines > Overlap THEN WindowLines - Overlap ELSE 1

WindowAt(lines, start) ==
    LET n == Len(lines)
    IN  Piece(lines, "window", "", start + 1,
              IF start + WindowLines < n THEN start + WindowLines ELSE n)

Windows(lines) ==
    LET starts  == {s \in 0 .. Len(lines) - 1 : s % Step = 0}
        Full(s) == WindowAt(lines, s).text # << >>
        kept    == {s \in starts : Full(s) /\ \A e \in starts :
                        e < s /\ Full(e) => e + WindowLines < Len(lines)}
    IN  [k \in 1 .. Cardinality(kept) |-> WindowAt(lines, InOrder(kept)[k])]

-----------------------------------------------------------------------------
(* _chunk_python.                                                          *)

\* The last line of the definition that line `at` begins.
EndLine(lines, at) ==
    Max({j \in at .. Len(lines) :
           /\ j = at \/ lines[j] # "blank"
           /\ \A k \in at + 1 .. j :
                lines[k] \in {"inner", "blank"}
                             \cup (IF lines[at] = "method" THEN {} ELSE {"method"})})

\* A method is a chunk of its own when it is in a class, not in a function.
InClass(lines, at) ==
    \E c \in 1 .. at - 1 : lines[c] = "class" /\ EndLine(lines, c) >= at

Definitions(lines) ==
    {k \in DOMAIN lines : \/ lines[k] \in {"def", "class"}
                          \/ lines[k] = "method" /\ InClass(lines, k)}

\* The module's docstring, whose place is always the first five lines.
Docstring(lines) ==
    LET at == InOrder({k \in DOMAIN lines : lines[k] = "docstring"})
    IN  [n \in DOMAIN at |-> lines[at[n]]]
ModuleDoc(lines) ==
    IF Docstring(lines) = << >> THEN << >>
    ELSE <<Chunk("doc", Named("<module>"), 1,
                 IF Len(lines) < 5 THEN Len(lines) ELSE 5, Docstring(lines))>>

Python(lines) ==
    IF "broken" \in Range(lines) THEN << >>
    ELSE LET defs == InOrder(Definitions(lines))
         IN  ModuleDoc(lines) \o [k \in DOMAIN defs |->
                Piece(lines, IF lines[defs[k]] = "class" THEN "class" ELSE "function",
                      lines[defs[k]], defs[k], EndLine(lines, defs[k]))]

-----------------------------------------------------------------------------
(* _chunk_markdown and _chunk_jsts cut at headings and at declarations and *)
(* leave out what stands before the first.                                 *)

Heads(lines) == InOrder({k \in DOMAIN lines : lines[k] = "head"})

Sections(lines, kind) ==
    LET heads == Heads(lines)
    IN  [k \in DOMAIN heads |->
            Piece(lines, kind, "head", heads[k],
                  IF k < Len(heads) THEN heads[k + 1] - 1 ELSE Len(lines))]

Markdown(lines) ==
    IF Heads(lines) # << >> THEN Sections(lines, "section")
    ELSE IF Solid(lines) = {} THEN << >>
    ELSE <<Piece(lines, "section", "<stem>", 1, Len(lines))>>

-----------------------------------------------------------------------------
(* _chunk_json: a chunk per key without a place, one for what is no object.*)

Json(lines) ==
    IF "broken" \in Range(lines) \/ Solid(lines) = {} THEN << >>
    ELSE IF lines[1] = "head"
    THEN [k \in DOMAIN lines |-> Chunk("toplevel", Key(k), 0, 0, <<ToString(k), lines[k]>>)]
    ELSE <<Chunk("toplevel", Named(""), 0, 0, Strip(lines))>>

-----------------------------------------------------------------------------
(* chunk: by language, windows when the chunker finds nothing.             *)

Structure(doc) ==
    CASE doc.lang = "python"     -> Python(doc.lines)
      [] doc.lang = "markdown"   -> Markdown(doc.lines)
      [] doc.lang = "javascript" -> Sections(doc.lines, "toplevel")
      [] doc.lang = "json"       -> Json(doc.lines)
      [] OTHER                   -> << >>

Chunks(doc) ==
    IF doc.lines = << >> THEN << >>
    ELSE IF Structure(doc) # << >> THEN Structure(doc) ELSE Windows(doc.lines)
=============================================================================
