------------------------------ MODULE SqlDump ------------------------------
(***************************************************************************)
(* The reader of SQL dumps, one line per step, and the graph source it     *)
(* makes of what it has read.                                              *)
(*                                                                         *)
(* A line is what the reader's string tests find in it:                    *)
(*   use       the database of a USE statement, or NoDb                    *)
(*   delimiter "begin" for DELIMITER with any mark but ;, "end" with ;,    *)
(*             else "none"                                                 *)
(*   routine   whether it begins a CREATE of something else than a table   *)
(*   create    the table name of a CREATE TABLE, or NoName                 *)
(*   alter     the table name of an ALTER TABLE, or NoName                 *)
(*   refs      the table names after REFERENCES, in order                  *)
(*   closes    whether it ends the body of a CREATE TABLE                  *)
(*   mentions  the table names after FROM, JOIN, INTO and UPDATE           *)
(* Empty lines and comments are left out.  A table name is a pair of the   *)
(* database it spells out, or NoDb, and the table.                         *)
(***************************************************************************)
EXTENDS Graph

CONSTANTS NoDb, NoName

VARIABLES
  mode,         \* "outside", "table", "routine", or "done" after the last line
  current_db,   \* the database in use
  inTable,      \* in mode "table": the table whose body is read
  tables,       \* tables in the order of their first CREATE TABLE
  foreign_keys, \* pairs of a table and the table it refers to
  mentioned,    \* tables mentioned since the routine began
  pairs         \* for pairs of tables, the routines that mention both

dumpVars == <<mode, current_db, inTable, tables, foreign_keys, mentioned, pairs>>

\* Mutant: the database in use is left out.
AsSpelt(db, name) == name

\* qualify_table_name: a name without a database is one of the one in use.
Qualify(db, name) == IF name[1] = NoDb THEN <<db, name[2]>> ELSE name

\* The unordered pairs of distinct tables; the code keeps them in name order.
PairsOf(S) == {p \in SUBSET S : Cardinality(p) = 2}

DumpInit ==
  /\ mode = "outside" /\ current_db = NoDb /\ inTable = NoName
  /\ tables = << >> /\ foreign_keys = << >>
  /\ mentioned = {} /\ pairs = << >>

ReadUse(line) ==
  /\ line.use # NoDb
  /\ current_db' = line.use
  /\ UNCHANGED <<mode, inTable, tables, foreign_keys, mentioned, pairs>>

\* Mutant: the mentions of a routine are carried into the next.
CarriesMentions(line) ==
  /\ line.use = NoDb /\ line.delimiter # "none"
  /\ IF line.delimiter = "end"
     THEN /\ mode' = "outside"
          /\ pairs' = [p \in DOMAIN pairs \cup PairsOf(mentioned) |->
                         (IF p \in DOMAIN pairs THEN pairs[p] ELSE 0)
                         + (IF p \subseteq mentioned THEN 1 ELSE 0)]
     ELSE mode' = "routine" /\ UNCHANGED pairs
  /\ UNCHANGED <<current_db, inTable, tables, foreign_keys, mentioned>>

\* At the end of a routine its mentions join the pairs; in any mode.
ReadDelimiter(line) ==
  /\ line.use = NoDb /\ line.delimiter # "none"
  /\ mentioned' = {}
  /\ IF line.delimiter = "end"
     THEN /\ mode' = "outside"
          /\ pairs' = [p \in DOMAIN pairs \cup PairsOf(mentioned) |->
                         (IF p \in DOMAIN pairs THEN pairs[p] ELSE 0)
                         + (IF p \subseteq mentioned THEN 1 ELSE 0)]
     ELSE mode' = "routine" /\ UNCHANGED pairs
  /\ UNCHANGED <<current_db, inTable, tables, foreign_keys>>

Plain(line) == line.use = NoDb /\ line.delimiter = "none"

ReadRoutine(line) ==
  /\ mode = "routine" /\ Plain(line)
  /\ mentioned' = mentioned \cup {Qualify(current_db, t) : t \in line.mentions}
  /\ UNCHANGED <<mode, current_db, inTable, tables, foreign_keys, pairs>>

\* Of the body of table t on this line: at most one foreign key, and the end.
ReadBody(t, line) ==
  /\ foreign_keys' = IF line.refs = << >> THEN foreign_keys
                     ELSE Append(foreign_keys,
                                 <<t, Qualify(current_db, Head(line.refs))>>)
  /\ mode' = IF line.closes THEN "outside" ELSE "table"
  /\ inTable' = t

\* Mutant: the rest of the line is not read as part of the body.
StartsOnly(line) ==
  /\ mode = "outside" /\ Plain(line) /\ ~line.routine /\ line.create # NoName
  /\ LET t == Qualify(current_db, line.create)
     IN  /\ tables' = IF t \in ToSet(tables) THEN tables ELSE Append(tables, t)
         /\ mode' = "table" /\ inTable' = t
  /\ UNCHANGED <<current_db, foreign_keys, mentioned, pairs>>

\* The line that starts a table may hold its whole body.
ReadCreate(line) ==
  /\ mode = "outside" /\ Plain(line) /\ ~line.routine /\ line.create # NoName
  /\ LET t == Qualify(current_db, line.create)
     IN  /\ tables' = IF t \in ToSet(tables) THEN tables ELSE Append(tables, t)
         /\ ReadBody(t, line)
  /\ UNCHANGED <<current_db, mentioned, pairs>>

ReadOutside(line) ==
  /\ mode = "outside" /\ Plain(line) /\ (line.routine \/ line.create = NoName)
  /\ foreign_keys' =
       IF line.routine \/ line.alter = NoName \/ line.refs = << >> THEN foreign_keys
       ELSE Append(foreign_keys, <<Qualify(current_db, line.alter),
                                   Qualify(current_db, Head(line.refs))>>)
  /\ UNCHANGED <<mode, current_db, inTable, tables, mentioned, pairs>>

ReadTable(line) ==
  /\ mode = "table" /\ Plain(line)
  /\ ReadBody(inTable, line)
  /\ UNCHANGED <<current_db, tables, mentioned, pairs>>

Read(line) ==
  \/ ReadUse(line) \/ ReadDelimiter(line) \/ ReadRoutine(line)
  \/ ReadCreate(line) \/ ReadOutside(line) \/ ReadTable(line)

\* After the last line; mentions of a routine without an end are dropped.
Finish ==
  /\ mode' = "done"
  /\ UNCHANGED <<current_db, inTable, tables, foreign_keys, mentioned, pairs>>

-----------------------------------------------------------------------------
(* from_sql: the source.  Tables are its nodes, with their names as labels.*)

\* Mutant: only the table that refers must be in the dump.
ReferrerKnown(p) == p[1] \in ToSet(tables)

BothKnown(p) == {p[1], p[2]} \subseteq ToSet(tables)

FkEdges == Chosen(foreign_keys, {i \in DOMAIN foreign_keys : BothKnown(foreign_keys[i])})

\* One edge per routine that mentions both tables, in either direction.
PairEdges ==
  LET Known == {p \in DOMAIN pairs : BothKnown(SetToSeq(p))}
      slots == SetToSeq(UNION {{p} \X (1..pairs[p]) : p \in Known})
  IN  [k \in DOMAIN slots |-> SetToSeq(slots[k][1])]

SourceOf ==
  [nodes |-> tables, edges |-> FkEdges \o PairEdges,
   label |-> [t \in ToSet(tables) |-> t]]
=============================================================================
