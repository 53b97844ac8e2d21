---------------------------- MODULE DumpReading ----------------------------
(***************************************************************************)
(* A program like mysqldump writes a schema, statement by statement, and   *)
(* SqlDump reads its lines.  The writer keeps what it meant: which tables  *)
(* there are, which foreign keys, and how many routines join two tables.   *)
(***************************************************************************)
EXTENDS SqlDump

CONSTANTS
  Dbs,          \* the databases
  Names,        \* the tables, by their names within a database
  KeyLists,     \* the lists of referred tables that a CREATE TABLE may have
  OneLineKeys,  \* the most foreign keys in a CREATE TABLE on a single line
  Blocks,       \* the routines between one pair of delimiters: sequences of the
                \* sets of names (pairs) that a routine may mention
  MaxStatements \* bound: statements in a dump

VARIABLES
  pending,  \* lines written and not yet read
  written,  \* statements so far
  own,      \* the database the writer is in
  declared, \* the tables it wrote
  keys,     \* how many foreign keys from one table to another
  joined,   \* how many routines mention both tables of a pair
  shared    \* the pairs that a block of several routines mentions

writerVars == <<pending, written, own, declared, keys, joined, shared>>
vars       == <<dumpVars, writerVars>>

\* A table's name is spelt with or without its database.
Spellings == (Dbs \cup {NoDb}) \X Names

ASSUME NamesAssumption ==
  IsFiniteSet(Dbs) /\ IsFiniteSet(Names) /\ NoDb \notin Dbs /\ NoName \notin Spellings
ASSUME StatementsAssumption ==
  /\ KeyLists \subseteq Seq(Names) /\ OneLineKeys \in Nat
  /\ Blocks \subseteq Seq(SUBSET Spellings)

-----------------------------------------------------------------------------
(* Lines.                                                                  *)

Blank ==
  [use |-> NoDb, delimiter |-> "none", routine |-> FALSE, create |-> NoName,
   alter |-> NoName, refs |-> << >>, closes |-> FALSE, mentions |-> {}]

Bare(t)     == <<NoDb, t>>
Bares(list) == [i \in DOMAIN list |-> Bare(list[i])]

UseLine(db)  == [Blank EXCEPT !.use = db]
KeyLine(t)   == [Blank EXCEPT !.refs = <<Bare(t)>>]
CreateLine(t) == [Blank EXCEPT !.create = Bare(t)]
ClosingLine  == [Blank EXCEPT !.closes = TRUE]
AlterLine(t, r) == [KeyLine(r) EXCEPT !.alter = Bare(t)]
MentionLine(name) == [Blank EXCEPT !.mentions = {name}]
\* CREATE of a routine, a trigger, an event or a view.
NonTableLine(names) == [Blank EXCEPT !.routine = TRUE, !.mentions = names]

OneLine(t, refs) ==
  <<[CreateLine(t) EXCEPT !.refs = Bares(refs), !.closes = TRUE]>>
ManyLines(t, refs) ==
  <<CreateLine(t)>> \o [i \in DOMAIN refs |-> KeyLine(refs[i])] \o <<ClosingLine>>

\* A routine: its first line, a line per mention, and the temporary table it
\* creates, which is none of the schema's.
RoutineLines(body, t) ==
  <<NonTableLine({})>>
  \o [i \in 1..Cardinality(body) |-> MentionLine(SetToSeq(body)[i])]
  \o OneLine(t, <<t>>)

BlockLines(block, t) ==
  <<[Blank EXCEPT !.delimiter = "begin"]>>
  \o FlattenSeq([i \in DOMAIN block |-> RoutineLines(block[i], t)])
  \o <<[Blank EXCEPT !.delimiter = "end"]>>

-----------------------------------------------------------------------------
Init ==
  /\ DumpInit
  /\ pending = << >> /\ written = 0 /\ own = NoDb
  /\ declared = {} /\ keys = << >> /\ joined = << >> /\ shared = {}

Counted(bag, x) == IF x \in DOMAIN bag THEN bag[x] ELSE 0
Times(list, x)  == Cardinality({i \in DOMAIN list : list[i] = x})
AddEach(bag, list) == [x \in DOMAIN bag \cup Range(list) |-> Counted(bag, x) + Times(list, x)]
AddAll(bag, S)  == [x \in DOMAIN bag \cup S |->
                      Counted(bag, x) + (IF x \in S THEN 1 ELSE 0)]

Write(lines) ==
  /\ pending = << >> /\ mode # "done" /\ written < MaxStatements
  /\ pending' = lines /\ written' = written + 1
  /\ UNCHANGED dumpVars

WriteUse ==
  \E db \in Dbs \ {own} :
    /\ Write(<<UseLine(db)>>)
    /\ own' = db /\ UNCHANGED <<declared, keys, joined, shared>>

WriteTable ==
  \E t \in Names, refs \in KeyLists, short \in BOOLEAN :
    /\ <<own, t>> \notin declared
    /\ short => Len(refs) <= OneLineKeys
    /\ Write(IF short THEN OneLine(t, refs) ELSE ManyLines(t, refs))
    /\ declared' = declared \cup {<<own, t>>}
    /\ keys' = AddEach(keys, [i \in DOMAIN refs |-> <<<<own, t>>, <<own, refs[i]>>>>])
    /\ UNCHANGED <<own, joined, shared>>

WriteAlter ==
  \E t, r \in Names :
    /\ Write(<<AlterLine(t, r)>>)
    /\ keys' = AddAll(keys, {<<<<own, t>>, <<own, r>>>>})
    /\ UNCHANGED <<own, declared, joined, shared>>

WriteView ==
  /\ Write(<<NonTableLine(UNION {UNION Range(block) : block \in Blocks})>>)
  /\ UNCHANGED <<own, declared, keys, joined, shared>>

Meant(n) == <<IF n[1] = NoDb THEN own ELSE n[1], n[2]>>

MeantIn(body) == {Meant(n) : n \in body}

\* The pairs that some routine of the block mentions, and those that the block
\* mentions as a whole.
PairsEach(block) == UNION {PairsOf(MeantIn(block[i])) : i \in DOMAIN block}
PairsAll(block)  == PairsOf(MeantIn(UNION Range(block)))

\* How many routines of the block mention all of S.
Mentioning(block, S) == Cardinality({i \in DOMAIN block : S \subseteq MeantIn(block[i])})

\* One after the other or with others in one block, as a dump edited by hand has
\* them.
WriteRoutines ==
  \E block \in Blocks, t \in Names :
    /\ Write(BlockLines(block, t))
    /\ joined' = [S \in DOMAIN joined \cup PairsEach(block) |->
                    Counted(joined, S) + Mentioning(block, S)]
    /\ shared' = IF Len(block) <= 1 THEN shared ELSE shared \cup PairsAll(block)
    /\ UNCHANGED <<own, declared, keys>>

ReadLine ==
  /\ pending # << >>
  /\ Read(Head(pending)) /\ pending' = Tail(pending)
  /\ UNCHANGED <<written, own, declared, keys, joined, shared>>

End ==
  /\ pending = << >> /\ mode # "done"
  /\ Finish /\ UNCHANGED writerVars

Next ==
  \/ WriteUse \/ WriteTable \/ WriteAlter \/ WriteView \/ WriteRoutines
  \/ ReadLine \/ End

Spec == Init /\ [][Next]_vars

-----------------------------------------------------------------------------
(* Properties.                                                             *)

\* Between two statements the reader is outside any table or routine, in the
\* database the writer is in, and owes no routine its pairs.
InStep ==
  pending = << >> /\ mode # "done" =>
    mode = "outside" /\ current_db = own /\ mentioned = {}

\* The nodes of the source are the tables of the schema, each once; what a
\* routine creates and a table of the same name elsewhere make no difference.
TablesFaithful ==
  mode = "done" =>
    ToSet(tables) = declared /\ Len(tables) = Cardinality(declared)

\* How many of the edges join exactly these two.
EdgesFrom(edges, p) == Times(edges, p)
EdgesOf(edges, S)   == Cardinality({i \in DOMAIN edges : {edges[i][1], edges[i][2]} = S})

\* "One edge per foreign key" between tables of the dump, and no others.
OneEdgePerForeignKey ==
  mode = "done" =>
    \A t, r \in declared : EdgesFrom(FkEdges, <<t, r>>) = Counted(keys, <<t, r>>)

\* "For a pair (A, B) co-mentioned in N routines, emit N separate Edge instances",
\* and no other edge joins two tables: of the pairs that are mentioned only where
\* each routine has its own delimiters, as mysqldump writes them.
OneEdgePerRoutine ==
  mode = "done" =>
    \A S \in PairsOf(declared) \ shared : EdgesOf(PairEdges, S) = Counted(joined, S)

\* The same of every pair, as the comments in from_sql have it: a routine counts
\* for itself also in a block with others.
EveryRoutineCounts ==
  mode = "done" =>
    \A S \in PairsOf(declared) : EdgesOf(PairEdges, S) = Counted(joined, S)

\* The index accepts the source: from_source finds both ends of every edge,
\* whatever the schema refers to without declaring it.
SourceAccepted == mode = "done" => ~Dangling(SourceOf)
=============================================================================
