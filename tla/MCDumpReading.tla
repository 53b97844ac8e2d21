--------------------------- MODULE MCDumpReading ---------------------------
(***************************************************************************)
(* Schemas of two databases with two tables each.                          *)
(***************************************************************************)
EXTENDS DumpReading

CONSTANTS d1, d2, a, b

MCDbs      == {d1, d2}
MCNames    == {a, b}
MCKeyLists == {<< >>, <<b>>, <<b, a>>}
MCBlocks   == {<<{Bare(a)}>>, <<{Bare(a), Bare(b)}>>, <<{Bare(a), <<d2, a>>}>>,
               <<{Bare(a)}, {Bare(b)}>>}
=============================================================================
