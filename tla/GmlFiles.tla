------------------------------ MODULE GmlFiles ------------------------------
(***************************************************************************)
(* GraphFiles with a second file: the graph is written as GML too.  The    *)
(* reader follows the writer, character by character; what it would give   *)
(* if the file ended here is compared with the graph that is meant.        *)
(***************************************************************************)
EXTENDS GraphFiles, GmlText

CONSTANT GmlTo  \* bound: graphs of at most so many nodes are read twice

VARIABLE reader  \* the reader after what is written

gmlVars == <<vars, reader>>

ASSUME GmlAssumption == GmlTo \in Nat

-----------------------------------------------------------------------------
(* The file.                                                               *)

Heading == <<"Creator", "\"", "graph", "[", "\"", "graph", "\n", "[">>

\* Different writers break lines and comment differently.
Gap(i) == CASE i % 3 = 0 -> <<" ">>
            [] i % 3 = 1 -> <<"\n", "\t">>
            [] i % 3 = 2 -> <<"#", "]", "\"", "\n">>

\* The id of node i, a number of two digits, some of them negative.
Id(i) ==
  LET n == 11 * i - 22
      m == IF n < 0 THEN -n ELSE n
  IN  <<IF n < 0 THEN "-" ELSE "+">> \o <<ToString(m \div 10), ToString(m % 10)>>

\* Nodes and edges have fields that mean nothing to the loader, among them
\* some of the names that do.
NodeText(i) ==
  <<"node">> \o Gap(i) \o <<"[", "id", "\"", "]", "#", "\"", "graphics">>
  \o Gap(i) \o <<"[", "id">> \o Gap(i) \o Id(i + 1) \o <<"]", "id">>
  \o Gap(i) \o Id(i) \o Gap(i + 1) \o <<"id">> \o Gap(i) \o Id(i + 2) \o <<"]">>
EdgeText(e) ==
  <<"e", "dge", "[", "target">> \o Gap(e[1]) \o Id(e[2])
  \o <<"value", " ", "1", ".", "5", "e", "-", "3", "source">>
  \o Gap(e[2]) \o Id(e[1]) \o <<"]">>

NodesText(n)  == [i \in 1..n |-> NodeText(i)]
EdgesText(es) == [i \in DOMAIN es |-> EdgeText(Written(es)[i])]
ReadAll(r, texts) == FoldLeft(ReadText, r, texts)

\* The file as it is read when it ends here, or after the end of its graph.
Ended(r)  == GmlOf(r.parser)
Closed(r) == Ended(ReadText(r, <<"]">>))

-----------------------------------------------------------------------------

GmlInit == Init /\ reader = ReadText(StartText, Heading)

WriteNodeEntry == WriteNode /\ reader' = ReadText(reader, NodeText(size + 1))
WriteEdgeEntry == WriteEdge /\ reader' = ReadText(reader, EdgeText(Last(Written(edges'))))

DivideGraph == Divide /\ UNCHANGED reader

GmlNext == WriteNodeEntry \/ WriteEdgeEntry \/ DivideGraph

GmlSpec == GmlInit /\ [][GmlNext]_gmlVars

-----------------------------------------------------------------------------
(* Properties.                                                             *)

\* Small enough to be read once more.
ReadAgain == part = << >> /\ size <= GmlTo

\* A GML file gives its nodes and edges, loops and parallel edges included,
\* whatever other fields surround them.
GmlFaithful == part = << >> => Loaded(Closed(reader)) = {graph}

\* A GML file that repeats all its nodes and edges gives two separate copies: an
\* edge joins the latest nodes of its ids, and those written before stay.
GmlRepeatedIds ==
  ReadAgain =>
    LET twice == ReadAll(reader, NodesText(size) \o EdgesText(edges))
        again == [k \in DOMAIN edges |-> <<edges[k][1] + size, edges[k][2] + size>>]
    IN  Loaded(Closed(twice)) = {Meant(2 * size, edges \o again)}

\* Ids that are no numbers of i64: the first too large, one with a fraction, a
\* sign without digits.
NoIds == {<<"1", "0", "0">>, <<"4", "4", ".", "0">>, <<"-">>}

\* A GML file cut anywhere before the end of its graph, with an id that is no
\* integer, or with its edges before its nodes, is refused: nobody gets a part
\* of the graph.
GmlWholeOrNone ==
  part = << >> =>
    /\ \A entry \in {NodeText(1), EdgeText(<<1, 1>>)} : \A k \in 0..(Len(entry) - 1) :
          Ended(ReadText(reader, SubSeq(entry, 1, k))) = {}
    /\ \A id \in NoIds :
          Closed(ReadText(reader, <<"node", "[", "id", " ">> \o id \o <<"]">>)) = {}
    /\ ReadAgain /\ edges # << >> =>
          Closed(ReadAll(StartText, <<Heading>> \o EdgesText(edges) \o NodesText(size))) = {}
=============================================================================
