-------------------------------- MODULE Catalog --------------------------------
(***************************************************************************)
(* The tools that look at the catalog of the database: list_tables and     *)
(* desc_table of query_handlers.go, and inspect_handlers.go.  A query is   *)
(* modelled by the rows it selects and by what the text made of a row      *)
(* tells of an object.  Other sessions create and drop objects meanwhile,  *)
(* also between the queries of one call.                                   *)
(*                                                                         *)
(* The default schema - public on Postgres, the current database on        *)
(* MariaDB - is called "home".  Arguments have passed their checks; the    *)
(* name of a routine is none of a column of information_schema.routines,   *)
(* and in the search path no schema before public has a table of a name    *)
(* that is asked for.  MariaDB tells the capitals in names apart, as it    *)
(* does on Linux.  A result that is cut short is the subject of ToolCalls. *)
(*                                                                         *)
(* A definition marked "Mutant" is a mistake that could be made in the     *)
(* definition after it; PROJECT.json says which property detects it.       *)
(***************************************************************************)
EXTENDS Naturals, Sequences, SequencesExt

CONSTANTS
  Objects,     \* the objects that may be in the database
  Calls,       \* the calls a client may make
  Lower,       \* the names with capitals, each with what it is in lower case
  MaxObjects,  \* bound: objects there at a time
  MaxChanges   \* bound: objects created or dropped during a call

(***************************************************************************)
(* Objects of the catalog, by what the queries tell apart.  Names and      *)
(* argument signatures are numbers, which have an order; 0 stands for an   *)
(* empty signature, and for a parameter that is not given: parseString-    *)
(* Param does not let a client ask for the empty one.                      *)
(***************************************************************************)
Absent  == 0
Schemas == {"home", "away", "system"}
Events  == {"INSERT", "UPDATE", "DELETE", "TRUNCATE"}

Table ==
  [is : {"table"}, schema : Schemas, name : Nat, base : BOOLEAN,
   columns : SUBSET Nat, key : SUBSET Nat, pkey : BOOLEAN]  \* pkey: the key is called ..._pkey

Routine == [is : {"routine"}, schema : Schemas, name : Nat, args : Nat,
            kind : {"f", "p", "a", "w"}]

Trigger ==
  [is : {"trigger"}, schema : Schemas, table : Nat, name : Nat, internal : BOOLEAN,
   timing : {"BEFORE", "AFTER", "INSTEAD OF"}, row : BOOLEAN, events : SUBSET Events,
   long : BOOLEAN]  \* long: its statement is longer than the sql_mode it was made in

EventTrigger == [is : {"event trigger"}, name : Nat]
Sequence     == [is : {"sequence"}, schema : Schemas, name : Nat]

Object == Table \cup Routine \cup Trigger \cup EventTrigger \cup Sequence

ListTools == {"list_tables", "list_functions", "list_triggers", "list_sequences"}
DescTools == {"desc_table", "desc_function", "desc_trigger"}

Call == [tool : ListTools \cup DescTools, schema : {"absent", "home", "away"},
         name : Nat, table : Nat, args : Nat]

ASSUME CatalogAssumption ==
  /\ \A o \in Objects : o \in Object
  /\ Calls \subseteq Call /\ Calls # {}
  /\ DOMAIN Lower \subseteq Nat \ {Absent}
  /\ Lower \in [DOMAIN Lower -> Nat \ DOMAIN Lower]
  /\ MaxObjects \in Nat
  /\ MaxChanges \in Nat

VARIABLES
  dialect,  \* "postgres" or "mariadb"
  catalog,  \* the objects in the database
  call,     \* the call in progress
  status,   \* "idle", the query that comes next, or what the client got
  todo,     \* list_sequences on MariaDB: the sequences yet to be shown
  lines,    \* the answer so far
  stable,   \* history: the objects there were all through the call
  ever,     \* history: the objects there were at some time in it
  changes   \* changes during the call

objects == <<catalog, stable, ever, changes>>
vars == <<dialect, call, status, todo, lines, objects>>

Postgres == dialect = "postgres"
MariaDB  == dialect = "mariadb"

(* A line of an answer: the objects it was made from, and what it shows.   *)
Line(of, shows) == [of |-> of, shows |-> shows]

-----------------------------------------------------------------------------
(* The database server. *)

(* What a server of this dialect has. *)
Possible(o) ==
  MariaDB =>
    CASE o.is = "event trigger" -> FALSE
      [] o.is = "routine" -> o.kind \in {"f", "p"}
      [] o.is = "trigger" -> /\ o.row /\ ~o.internal /\ o.timing # "INSTEAD OF"
                             /\ Cardinality(o.events) = 1
      [] OTHER -> TRUE

(* No two objects have the same identity. *)
Identity(o) ==
  CASE o.is = "event trigger" -> <<o.is, o.name>>
    [] o.is = "routine" -> <<o.is, o.schema, o.name, IF Postgres THEN o.args ELSE o.kind>>
    [] o.is = "trigger" -> <<o.is, o.schema, o.name, IF Postgres THEN o.table ELSE Absent>>
    [] OTHER -> <<"relation", o.schema, o.name>>

Legal(cat) ==
  /\ IsFiniteSet(cat)
  /\ \A o \in cat : Possible(o)
  /\ \A o, p \in cat : Identity(o) = Identity(p) => o = p

(* to_regclass reads its text as SQL reads a name without quotes. *)
ToRegclass(n) == IF n \in DOMAIN Lower THEN Lower[n] ELSE n

(* pg_trigger.tgtype: the bits set in it. *)
TgType(t) ==
  (IF t.row THEN {1} ELSE {}) \cup
  (IF t.timing = "BEFORE" THEN {2} ELSE IF t.timing = "INSTEAD OF" THEN {64} ELSE {}) \cup
  {CASE e = "INSERT" -> 4 [] e = "DELETE" -> 8 [] e = "UPDATE" -> 16 [] e = "TRUNCATE" -> 32
     : e \in t.events}

-----------------------------------------------------------------------------
(* Rows. *)

Of(kind) == {o \in catalog : o.is = kind}

SchemaAsked == IF call.schema = "absent" THEN "home" ELSE call.schema

(* ORDER BY; rows that tie come in any order. *)
SortKey(o) ==
  IF o.is = "trigger" THEN <<o.table, o.name>>
  ELSE IF o.is = "routine" THEN <<o.name, o.args>>
  ELSE <<o.name, 0>>

Before(o, p) ==
  \/ SortKey(o)[1] < SortKey(p)[1]
  \/ SortKey(o)[1] = SortKey(p)[1] /\ SortKey(o)[2] < SortKey(p)[2]

Ordered(rows) ==
  {s \in SetToSeqs(rows) : \A i, j \in 1..Len(s) : i < j => ~Before(s[j], s[i])}

TableRows ==
  {t \in Of("table") : t.schema = "home" /\ (MariaDB => t.base)}

FunctionRows == {f \in Of("routine") : f.schema = SchemaAsked}

TriggerRows ==
  {t \in Of("trigger") :
     ~t.internal /\ t.schema # "system" /\ call.table \in {Absent, t.table}}

SequenceRows ==
  {s \in Of("sequence") : s.schema = IF MariaDB THEN "home" ELSE SchemaAsked}

-----------------------------------------------------------------------------
(* What the text shows of a row. *)

TableLine(t) == Line({t}, t.name)

FunctionLine(f) == Line({f}, [name |-> f.name, kind |-> f.kind, args |-> f.args])

(* On Postgres the columns are computed from the bits of tgtype. *)
TriggerLine(t) ==
  LET bits   == TgType(t)
      timing == IF 2 \notin bits THEN "BEFORE" ELSE "AFTER"
      events == {e \in Events : CASE e = "INSERT" -> 16 \in bits [] e = "DELETE" -> 32 \in bits
                                  [] e = "UPDATE" -> 64 \in bits [] e = "TRUNCATE" -> 128 \in bits}
  IN  Line({t}, IF Postgres THEN [timing |-> timing, row |-> 1 \in bits, events |-> events]
                ELSE [timing |-> t.timing, row |-> TRUE, events |-> t.events])

EventTriggerLine(e) == Line({e}, e.name)

SequenceLine(s) == Line({s}, "definition")
BareLine(s)     == Line({s}, "name")

(* How often each name occurs in the sets of names that f gives to S. *)
Occurrences(S, f(_)) ==
  [n \in UNION {f(o) : o \in S} |-> Cardinality({o \in S : n \in f(o)})]

Null == [null |-> TRUE]

(* The statement of desc_table.  On Postgres tables are joined with columns *)
(* and keys by the name of the table alone, and without a key called       *)
(* ..._pkey the text is NULL, which prints as <nil>.                       *)
DescTableLine(same) ==
  LET columns == Occurrences(same, LAMBDA t : t.columns)
      keyed   == {t \in same : t.key # {} /\ (MariaDB \/ t.pkey)}
      key     == Occurrences(keyed, LAMBDA t : t.key)
  IN  Line(same,
           IF Postgres /\ keyed = {} THEN Null
           ELSE [columns |-> [n \in DOMAIN columns |-> Cardinality(same) * columns[n]],
                 key |-> key])

-----------------------------------------------------------------------------
Busy == {"querying", "events", "showing"}

Init ==
  /\ dialect \in {"postgres", "mariadb"}
  /\ catalog = {}
  /\ call = CHOOSE c \in Calls : TRUE
  /\ status = "idle"
  /\ todo = <<>> /\ lines = <<>>
  /\ stable = {} /\ ever = {} /\ changes = 0

(* The kinds of object the tool of a call selects. *)
Kinds(c) ==
  IF c.tool \in {"list_tables", "desc_table"} THEN {"table"}
  ELSE IF c.tool \in {"list_functions", "desc_function"} THEN {"routine"}
  ELSE IF c.tool = "list_sequences" THEN {"sequence"}
  ELSE {"trigger", "event trigger"}

(* A call, on a database that holds anything; objects that the tool does   *)
(* not select are left out.                                                *)
Holdings(c) ==
  UNION {kSubset(n, {o \in Objects : o.is \in Kinds(c)}) : n \in 0..MaxObjects}

Ask(c) ==
  /\ status = "idle"
  /\ call' = c
  /\ status' = "querying"
  /\ catalog' \in {cat \in Holdings(c) : Legal(cat)}
  /\ stable' = catalog' /\ ever' = catalog'
  /\ UNCHANGED <<dialect, todo, lines, changes>>

Return ==
  /\ status \notin Busy \cup {"idle"}
  /\ call' = CHOOSE c \in Calls : TRUE
  /\ status' = "idle"
  /\ lines' = <<>>
  /\ catalog' = {} /\ stable' = {} /\ ever' = {} /\ changes' = 0
  /\ UNCHANGED <<dialect, todo>>

Tool(t)  == status = "querying" /\ call.tool = t /\ UNCHANGED <<dialect, call, objects>>
Got(k, ls) == status' = k /\ lines' = ls /\ UNCHANGED todo

Map(s, f(_)) == [i \in 1..Len(s) |-> f(s[i])]

HandleListTable ==
  /\ Tool("list_tables")
  /\ \E s \in Ordered(TableRows) : Got("ok", Map(s, TableLine))

HandleDescTable ==
  LET same == {t \in Of("table") :
                 t.name = call.table /\ (MariaDB => t.schema = "home")}
  IN  /\ Tool("desc_table")
      /\ IF same = {} THEN Got("not found", <<>>)
         ELSE Got("ok", <<DescTableLine(same)>>)

(* The alias schema is a reserved word of MariaDB. *)
HandleListFunctions ==
  /\ Tool("list_functions")
  /\ IF MariaDB THEN Got("error", <<>>)
     ELSE \E s \in Ordered(FunctionRows) : Got("ok", Map(s, FunctionLine))

(* Mutant: the first overload is taken for the one asked for. *)
DescFirstFunction ==
  LET rows == {f \in FunctionRows : f.name = call.name}
  IN  /\ Tool("desc_function")
      /\ \E f \in rows : Got("ok", <<Line({f}, f)>>)

(***************************************************************************)
(* pg_get_functiondef fails for an aggregate.  On MariaDB the name of the  *)
(* routine stands in backquotes, which make it the name of a column.       *)
(***************************************************************************)
HandleDescFunction ==
  LET rows    == {f \in FunctionRows : f.name = call.name}
      matched == {f \in rows : call.args \in {Absent, f.args}}
      choices == Map(SetToSeq(rows), LAMBDA f : Line({f}, f.args))
  IN  /\ Tool("desc_function")
      /\ IF MariaDB \/ \E f \in rows : f.kind = "a" THEN Got("error", <<>>)
         ELSE IF rows = {} THEN Got("not found", <<>>)
         ELSE IF matched = {} THEN Got("no overload", choices)
         ELSE IF Cardinality(matched) > 1 THEN Got("choices", choices)
         ELSE \E f \in matched : Got("ok", <<Line({f}, f)>>)

(* Mutant: event triggers are asked for in both dialects. *)
ListTriggersOfBoth ==
  /\ Tool("list_triggers")
  /\ \E s \in Ordered(TriggerRows) : Got("events", Map(s, TriggerLine))

HandleListTriggers ==
  /\ Tool("list_triggers")
  /\ \E s \in Ordered(TriggerRows) :
       Got(IF Postgres THEN "events" ELSE "ok", Map(s, TriggerLine))

(* Mutant: the second query's rows replace the first one's. *)
ListEventTriggersOnly ==
  /\ status = "events"
  /\ \E s \in Ordered(Of("event trigger")) : Got("ok", Map(s, EventTriggerLine))
  /\ UNCHANGED <<dialect, call, objects>>

ListEventTriggers ==
  /\ status = "events"
  /\ \E s \in Ordered(Of("event trigger")) : Got("ok", lines \o Map(s, EventTriggerLine))
  /\ UNCHANGED <<dialect, call, objects>>

(* On MariaDB the table is not looked at, SHOW CREATE TRIGGER fails for a  *)
(* trigger that is not there, and the longest of its columns is taken for  *)
(* the statement.                                                          *)
HandleDescTrigger ==
  LET rows == {t \in Of("trigger") :
                 /\ t.name = call.name /\ t.schema = "home"
                 /\ Postgres => t.table = ToRegclass(call.table)}
  IN  /\ Tool("desc_trigger")
      /\ IF rows = {} THEN Got(IF Postgres THEN "not found" ELSE "error", <<>>)
         ELSE \E t \in rows :
                Got("ok", <<Line({t}, IF Postgres \/ t.long THEN t ELSE "sql_mode")>>)

HandleListSequences ==
  /\ Tool("list_sequences")
  /\ \E s \in Ordered(SequenceRows) :
       IF Postgres \/ s = <<>> THEN Got("ok", Map(s, SequenceLine))
       ELSE status' = "showing" /\ todo' = s /\ UNCHANGED lines

(* Mutant: a sequence that is gone fails the call. *)
ShowSequenceOrFail ==
  /\ status = "showing"
  /\ todo' = Tail(todo)
  /\ IF Head(todo) \in catalog
     THEN /\ lines' = Append(lines, SequenceLine(Head(todo)))
          /\ status' = IF todo' = <<>> THEN "ok" ELSE "showing"
     ELSE status' = "error" /\ UNCHANGED lines
  /\ UNCHANGED <<dialect, call, objects>>

(* Mutant: the lines come out in reverse. *)
ShowSequencePrepending ==
  /\ status = "showing"
  /\ todo' = Tail(todo)
  /\ lines' = <<SequenceLine(Head(todo))>> \o lines
  /\ status' = IF todo' = <<>> THEN "ok" ELSE "showing"
  /\ UNCHANGED <<dialect, call, objects>>

(* SHOW CREATE SEQUENCE, for one sequence after the other; if it fails     *)
(* because the sequence or the connection is gone, the name has to do.     *)
ShowSequence ==
  /\ status = "showing"
  /\ todo' = Tail(todo)
  /\ \/ /\ Head(todo) \in catalog
        /\ lines' = Append(lines, SequenceLine(Head(todo)))
     \/ lines' = Append(lines, BareLine(Head(todo)))
  /\ status' = IF todo' = <<>> THEN "ok" ELSE "showing"
  /\ UNCHANGED <<dialect, call, objects>>

(* The query cannot be sent, or fails. *)
Lose ==
  /\ status \in {"querying", "events"}
  /\ Got("lost", <<>>)
  /\ UNCHANGED <<dialect, call, objects>>

(* Other sessions, while a call is in progress. *)
Change(cat) ==
  /\ status \in Busy
  /\ changes < MaxChanges
  /\ Cardinality(cat) <= MaxObjects /\ Legal(cat)
  /\ catalog' = cat
  /\ stable' = stable \cap cat
  /\ ever' = ever \cup cat
  /\ changes' = changes + 1
  /\ UNCHANGED <<dialect, call, status, todo, lines>>

Create(o) == o \notin catalog /\ o.is \in Kinds(call) /\ Change(catalog \cup {o})
Drop(o)   == o \in catalog /\ Change(catalog \ {o})

Next ==
  \/ \E c \in Calls : Ask(c)
  \/ HandleListTable \/ HandleDescTable
  \/ HandleListFunctions \/ HandleDescFunction
  \/ HandleListTriggers \/ ListEventTriggers \/ HandleDescTrigger
  \/ HandleListSequences \/ ShowSequence
  \/ Lose
  \/ Return
  \/ \E o \in Objects : Create(o) \/ Drop(o)

Spec == Init /\ [][Next]_vars

-----------------------------------------------------------------------------
(* Properties. *)

(* Every variable stays in its type, the second queries of a call with     *)
(* the dialect that has them.                                              *)
TypeOK ==
  /\ dialect \in {"postgres", "mariadb"}
  /\ catalog \subseteq Objects /\ Legal(catalog)
  /\ call \in Calls
  /\ status \in Busy \cup {"idle", "ok", "choices", "no overload", "not found", "error", "lost"}
  /\ \A i \in 1..Len(todo) : todo[i] \in Sequence
  /\ (todo # <<>> <=> status = "showing") /\ (status = "showing" => MariaDB)
  /\ status = "events" => Postgres
  /\ \A i \in 1..Len(lines) : lines[i].of \subseteq ever
  /\ stable \subseteq catalog /\ catalog \subseteq ever
  /\ changes \in 0..MaxChanges

(* The objects a list call is to show, of those there are at some time.    *)
Scope ==
  CASE call.tool = "list_tables" ->
         {o \in ever : o.is = "table" /\ o.schema = "home" /\ (MariaDB => o.base)}
    [] call.tool = "list_functions" ->
         {o \in ever : o.is = "routine" /\ o.schema = SchemaAsked}
    [] call.tool = "list_triggers" ->
         {o \in ever : \/ o.is = "event trigger"
                       \/ /\ o.is = "trigger" /\ ~o.internal /\ o.schema # "system"
                          /\ call.table \in {Absent, o.table}}
    [] call.tool = "list_sequences" ->
         {o \in ever : o.is = "sequence" /\ o.schema = IF MariaDB THEN "home" ELSE SchemaAsked}

Lists == status = "ok" /\ call.tool \in ListTools

(* Whatever other sessions create and drop between the queries of a call,  *)
(* a list has one line for every object that was there all the time, and   *)
(* none for one that never was.                                            *)
ListsWhatIsThere ==
  Lists =>
    /\ \A o \in stable \cap Scope :
         Cardinality({i \in 1..Len(lines) : lines[i].of = {o}}) = 1
    /\ \A i \in 1..Len(lines) : \E o \in Scope : lines[i].of = {o}

(* inspect_handlers.go: lists are "sorted" for comparison: an object never *)
(* follows one of its kind that it should precede.                         *)
SortedByName ==
  Lists =>
    \A i, j \in 1..Len(lines) :
      \A o \in lines[i].of, p \in lines[j].of :
        i < j /\ o.is = p.is => ~Before(p, o)

(* The objects that a desc call names, if its table is the one given. *)
NamedIn(o, table) ==
  CASE call.tool = "desc_table" -> o.is = "table" /\ o.schema = "home" /\ o.name = table
    [] call.tool = "desc_function" ->
         o.is = "routine" /\ o.schema = SchemaAsked /\ o.name = call.name
    [] call.tool = "desc_trigger" ->
         /\ o.is = "trigger" /\ o.schema = "home"
         /\ o.name = call.name /\ o.table = table
    [] OTHER -> FALSE

Named(o) == NamedIn(o, call.table)
Only(o)  == \A p \in ever : Named(p) => p = o

(* The table that the database takes the one of the call for. *)
TableTaken ==
  IF Postgres /\ call.tool = "desc_trigger" THEN ToRegclass(call.table) ELSE call.table

(* What a list shows can be described: an object that was there all the    *)
(* time and that the call names is described, or offered as a choice; and  *)
(* described if its arguments are given, or if it is the only one there    *)
(* was.  An overload without arguments is never more than a choice, and a  *)
(* trigger of a table with capitals in its name is out of reach on         *)
(* Postgres.  There nothing is described but what the call names, where    *)
(* the trigger of a table with capitals is taken for that of the table in  *)
(* lower case.                                                             *)
ListedIsDescribed ==
  status \in {"ok", "choices", "no overload", "not found"} =>
    /\ \A o \in stable :
         Named(o) /\ TableTaken = call.table =>
           /\ status = "ok" \/ \E i \in 1..Len(lines) : o \in lines[i].of
           /\ (call.tool = "desc_function" /\ o.args # Absent /\ call.args = o.args)
                \/ (Only(o) /\ call.args = Absent)
              => status = "ok" /\ o \in lines[1].of
    /\ Postgres /\ status = "ok" /\ call.tool \in {"desc_function", "desc_trigger"} =>
         \A o \in lines[1].of : NamedIn(o, TableTaken) /\ o \in ever

(* Whatever is dropped in the middle of a call, a query fails while the    *)
(* connection lasts only where the statement is none of the dialect        *)
(* (list_functions and desc_function on MariaDB), for a trigger that       *)
(* MariaDB did not have all the time, and for the overloads of an          *)
(* aggregate.                                                              *)
ErrorsHaveCauses ==
  status = "error" =>
    \/ MariaDB /\ call.tool \in {"list_functions", "desc_function"}
    \/ MariaDB /\ call.tool = "desc_trigger"
         /\ \A o \in stable : ~(o.is = "trigger" /\ o.schema = "home" /\ o.name = call.name)
    \/ call.tool = "desc_function" /\ \E o \in ever : Named(o) /\ o.kind = "a"

(* README.md: list_triggers shows "All table triggers (timing, scope,      *)
(* events ...)".  (finding)                                                *)
TriggersAsDefined ==
  Lists =>
    \A i \in 1..Len(lines) : \A o \in lines[i].of :
      o.is = "trigger" =>
        lines[i].shows = [timing |-> o.timing, row |-> o.row, events |-> o.events]

(* tools.go: desc_table is to "Describe table structure including column   *)
(* names, types, nullability, defaults, and primary key info".  (finding)  *)
TablesAsDefined ==
  status = "ok" /\ call.tool = "desc_table" =>
    \A o \in stable :
      Only(o) /\ Named(o) =>
        lines[1].shows = [columns |-> [n \in o.columns |-> 1], key |-> [n \in o.key |-> 1]]
=============================================================================
