-------------------------------- MODULE Gml --------------------------------
(***************************************************************************)
(* The loader of GML files, from the tokens on.  A token is a record: tok  *)
(* is "key", "int", "scalar", "[" or "]", key the name of a "key" and int  *)
(* the number of an "int".  A value is a record too: kind is "int",        *)
(* "scalar" or "list", and fields the pairs of key and value in a list.    *)
(* Nodes are numbered as they are minted.                                  *)
(***************************************************************************)
EXTENDS Graph, TLC

Scalar    == [kind |-> "scalar", int |-> 0, fields |-> << >>]
IntOf(i)  == [kind |-> "int", int |-> i, fields |-> << >>]
ListOf(f) == [kind |-> "list", int |-> 0, fields |-> f]

-----------------------------------------------------------------------------
(* parse_value and parse_list, one token per step: open holds the fields   *)
(* of the lists that are open, keys the keys whose values are awaited.     *)

Start == [status |-> "key", open |-> << >>, keys |-> << >>, graph |-> << >>]

Fail(p) == [p EXCEPT !.status = "failed"]

\* The awaited value is there.  At the top only graph matters, and only as a
\* list; the rest of the file is not read.
Deliver(p, value) ==
  LET key  == Last(p.keys)
      rest == [p EXCEPT !.keys = Front(@), !.status = "key"]
  IN  IF p.open # << >>
      THEN [rest EXCEPT !.open = Append(Front(@), Append(Last(@), <<key, value>>))]
      ELSE IF key # "graph" THEN rest
      ELSE IF value.kind = "list"
      THEN [rest EXCEPT !.status = "done", !.graph = value.fields]
      ELSE Fail(p)

AtKey(p, token) ==
  IF token.tok = "key" THEN [p EXCEPT !.keys = Append(@, token.key), !.status = "value"]
  ELSE IF token.tok = "]" /\ p.open # << >>
  THEN Deliver([p EXCEPT !.open = Front(@)], ListOf(Last(p.open)))
  ELSE Fail(p)

AtValue(p, token) ==
  CASE token.tok = "int"    -> Deliver(p, IntOf(token.int))
    [] token.tok = "scalar" -> Deliver(p, Scalar)
    [] token.tok = "["      -> [p EXCEPT !.open = Append(@, << >>), !.status = "key"]
    [] OTHER                -> Fail(p)

Step(p, token) ==
  IF p.status = "key" THEN AtKey(p, token)
  ELSE IF p.status = "value" THEN AtValue(p, token)
  ELSE p

\* Mutant: the end of the input closes the graph.
EndCloses(p) ==
  IF p.status = "key" /\ Len(p.open) = 1 THEN {p.open[1]}
  ELSE IF p.status = "done" THEN {p.graph} ELSE {}

\* At the end of the input only a graph that is closed counts.
AtEnd(p) == IF p.status = "done" THEN {p.graph} ELSE {}

-----------------------------------------------------------------------------
(* The walk over the entries of the graph.                                 *)

\* Mutant: the first field of the name, whatever its value.
FirstField(fields, key) ==
  LET at == SelectSeq(fields, LAMBDA f : f[1] = key)
  IN  IF at = << >> THEN {} ELSE {Head(at)[2].int}

\* find_int: the first field of the name with an integer value.
FindInt(fields, key) ==
  LET at == SelectSeq(fields, LAMBDA f : f[1] = key /\ f[2].kind = "int")
  IN  IF at = << >> THEN {} ELSE {Head(at)[2].int}

Refuse(w) == [w EXCEPT !.ok = FALSE]

\* Mutant: the first node of an id keeps it.
FirstKeeps(w, fields) ==
  LET id  == FindInt(fields, "id")
      new == Len(w.nodes) + 1
  IN  IF id = {} THEN Refuse(w)
      ELSE [w EXCEPT !.nodes = Append(@, new), !.minted = @ @@ [i \in id |-> new]]

\* A second node of the same id takes the edges that follow.
WalkNode(w, fields) ==
  LET id  == FindInt(fields, "id")
      new == Len(w.nodes) + 1
  IN  IF id = {} THEN Refuse(w)
      ELSE [w EXCEPT !.nodes = Append(@, new), !.minted = [i \in id |-> new] @@ @]

\* Both ends must be nodes of entries before this one.
WalkEdge(w, fields) ==
  LET s == FindInt(fields, "source")
      t == FindInt(fields, "target")
  IN  IF s = {} \/ t = {} \/ ~(s \cup t \subseteq DOMAIN w.minted) THEN Refuse(w)
      ELSE [w EXCEPT !.edges =
              @ \o <<<<w.minted[CHOOSE i \in s : TRUE], w.minted[CHOOSE i \in t : TRUE]>>>>]

Walk(w, entry) ==
  IF ~w.ok \/ entry[1] \notin {"node", "edge"} THEN w
  ELSE IF entry[2].kind # "list" THEN Refuse(w)
  ELSE IF entry[1] = "node" THEN WalkNode(w, entry[2].fields)
  ELSE WalkEdge(w, entry[2].fields)

\* from_str of an input at whose end the parser is p: the one source, or none.
\* GML labels are not kept.
GmlOf(p) ==
  LET walks == {FoldLeft(Walk, [ok |-> TRUE, minted |-> << >>, nodes |-> << >>,
                                edges |-> << >>], entries) : entries \in AtEnd(p)}
  IN  {[nodes |-> w.nodes, edges |-> w.edges, label |-> << >>] : w \in {x \in walks : x.ok}}
=============================================================================
