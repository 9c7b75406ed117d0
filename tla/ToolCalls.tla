------------------------------ MODULE ToolCalls ------------------------------
(***************************************************************************)
(* The tool calls of pkg/handler: CallTool dispatches a call to its        *)
(* handler, the handler checks the arguments and the read-only flag, and   *)
(* sends its statements to the database one after the other.  The database *)
(* is one table that write statements add a row to; other sessions change  *)
(* it as well.  How a pool is found is the subject of DBPool, how rows     *)
(* become text that of ResultText.                                         *)
(*                                                                         *)
(* A call's query is one statement, with no word of EXPLAIN in front; that *)
(* other texts get past EXPLAIN is in README.md.                           *)
(*                                                                         *)
(* A definition marked "Mutant" is a mistake that could be made in the     *)
(* definition after it; PROJECT.json says which property detects it.       *)
(***************************************************************************)
EXTENDS Naturals, Sequences, SequencesExt

CONSTANTS
  PrefixFlags,   \* values of --prefix; a name is the sequence of its words
  Arguments,     \* the arguments a client may send
  MaxRows,       \* bound: rows in the table
  MaxSequences   \* bound: sequences list_sequences finds on MariaDB

(***************************************************************************)
(* What the code tells apart about an argument: it is missing, null, no    *)
(* string, or the empty string; as a name, it is an SQL identifier or      *)
(* another text; as a query, it reads, writes, or is refused by the        *)
(* database; as a flag, it is a boolean, or a text that strconv.ParseBool  *)
(* accepts.                                                                *)
(***************************************************************************)
Absent      == {"missing", "null"}
Unusable    == Absent \cup {"no string", "empty"}
Statements  == {"read", "write", "refused"}
NameParam   == Unusable \cup {"identifier", "text"}
QueryParam  == Unusable \cup Statements
BoolParam   == {"missing", "true", "false", "text true", "text false", "other"}

Argument ==
  [database : NameParam, table : NameParam, function : NameParam,
   trigger : NameParam, schema : NameParam, args : NameParam,
   query : QueryParam, explain : BoolParam]

ASSUME ToolCallsAssumption ==
  /\ PrefixFlags \subseteq Seq(STRING)
  /\ Arguments \subseteq Argument /\ Arguments # {}
  /\ MaxRows \in Nat
  /\ MaxSequences \in Nat

VARIABLES
  prefix, readOnly, dialect,  \* the handler's configuration
  rows,      \* rows in the table
  name, tool, args,  \* the call: the name it used, the tool it got, its arguments
  todo,      \* the statements its handler has yet to send
  applied,   \* how often it changed the table
  whole,     \* no result it received was cut short
  answer     \* what the client got

config == <<prefix, readOnly, dialect>>
call   == <<name, tool, args>>
vars   == <<config, rows, call, todo, applied, whole, answer>>

-----------------------------------------------------------------------------
(* Names. *)

ReadTools ==
  {<<"list", "tables">>, <<"desc", "table">>, <<"select", "query">>,
   <<"count", "query">>, <<"list", "functions">>, <<"desc", "function">>,
   <<"list", "triggers">>, <<"desc", "trigger">>, <<"list", "sequences">>}

DDLTools ==
  {<<"create", "table">>, <<"alter", "table">>,
   <<"create", "function">>, <<"create", "trigger">>}

DMLTools == {<<"insert", "query">>, <<"update", "query">>, <<"delete", "query">>}

WriteTools == DDLTools \cup DMLTools
Tools      == ReadTools \cup WriteTools

(* buildTools *)
Listed == {prefix \o t : t \in ReadTools \cup (IF readOnly THEN {} ELSE WriteTools)}

TrimPrefix(n) ==
  IF IsPrefix(prefix, n) THEN SubSeq(n, Len(prefix) + 1, Len(n)) ELSE n

(* Mutant: a prefix is removed as long as there is one. *)
TrimAll(n) == TrimPrefix(TrimPrefix(n))

ActualToolName(n) == TrimPrefix(n)

-----------------------------------------------------------------------------
(* Arguments. *)

Required(t) ==
  {"database"} \cup
  (IF t \in WriteTools \cup {<<"select", "query">>} THEN {"query"}
   ELSE IF t \in {<<"desc", "table">>, <<"count", "query">>} THEN {"table"}
   ELSE IF t = <<"desc", "function">> THEN {"function"}
   ELSE IF t = <<"desc", "trigger">> THEN {"table", "trigger"}
   ELSE {})

Optional(t) ==
  IF t \in {<<"list", "functions">>, <<"list", "sequences">>} THEN {"schema"}
  ELSE IF t = <<"desc", "function">> THEN {"schema", "args"}
  ELSE IF t = <<"list", "triggers">> THEN {"table"}
  ELSE {}

(* parseStringParam, and isSQLIdentifier for the parameters it guards. *)
ParseString(p, v) ==
  /\ v \notin Unusable
  /\ p \in {"table", "function", "trigger", "schema"} => v = "identifier"

(* On MariaDB the default of schema is the database, and is checked too. *)
Accepted(t, a) ==
  /\ \A p \in Required(t) : ParseString(p, a[p])
  /\ \A p \in Optional(t) : a[p] \in Absent \/ ParseString(p, a[p])
  /\ "schema" \in Optional(t) /\ a.schema \in Absent /\ dialect = "mariadb"
       => ParseString("schema", a.database)

(* parseBoolParam, whose errors every caller drops. *)
Explains(a) == a.explain \in {"true", "text true"}

-----------------------------------------------------------------------------
(* Handlers: the statements they send. *)

Stmt(how, sql) == [how |-> how, sql |-> sql]

Begin(w) == todo' = w /\ answer' = "pending"
Refuse(k) == todo' = <<>> /\ answer' = k

Analysis(sql, a) == IF Explains(a) THEN <<Stmt("analyze", sql)>> ELSE <<>>

HandleDDL(t, a) ==
  t \in DDLTools /\ Begin(<<Stmt("exec", a.query)>>)

(* Mutant: the plan of a write is made with ANALYZE. *)
RunDLQueryAnalyzing(t, a) ==
  t \in DMLTools /\ Begin(<<Stmt(IF Explains(a) THEN "analyze" ELSE "exec", a.query)>>)

(* Mutant: the plan comes first, and the statement is executed as well. *)
RunDLQueryTwice(t, a) ==
  t \in DMLTools /\ Begin(<<Stmt("exec", a.query)>> \o Analysis(a.query, a))

RunDLQuery(t, a) ==
  t \in DMLTools /\ Begin(<<Stmt(IF Explains(a) THEN "explain" ELSE "exec", a.query)>>)

HandleSelectQuery(t, a) ==
  /\ t = <<"select", "query">>
  /\ Begin(<<Stmt("query", a.query)>> \o Analysis(a.query, a))

HandleCountQuery(t, a) ==
  /\ t = <<"count", "query">>
  /\ Begin(<<Stmt("query", "read")>> \o Analysis("read", a))

(* The others read the catalog; most need one query. *)
Inspect(n) == Begin([i \in 1..n |-> Stmt("query", "read")])

HandleListTable(t)     == t = <<"list", "tables">> /\ Inspect(1)
HandleDescTable(t)     == t = <<"desc", "table">> /\ Inspect(1)
HandleListFunctions(t) == t = <<"list", "functions">> /\ Inspect(1)
HandleDescTrigger(t)   == t = <<"desc", "trigger">> /\ Inspect(1)

(* On Postgres a second query lists the event triggers. *)
HandleListTriggers(t) ==
  t = <<"list", "triggers">> /\ Inspect(IF dialect = "postgres" THEN 2 ELSE 1)

(* On MariaDB a second query follows for a routine whose body is NULL. *)
HandleDescFunction(t) ==
  /\ t = <<"desc", "function">>
  /\ Inspect(1) \/ (dialect = "mariadb" /\ Inspect(2))

(* On MariaDB one SHOW follows for each sequence found; if it cannot be    *)
(* had, the bare name stands in for it.                                    *)
HandleListSequences(t) ==
  /\ t = <<"list", "sequences">>
  /\ \E n \in 0..MaxSequences :
       /\ n > 0 => dialect = "mariadb"
       /\ Begin(<<Stmt("query", "read")>> \o [i \in 1..n |-> Stmt("show", "read")])

(* Mutant: only the DDL handlers look at the flag. *)
GatedDDL(t) == readOnly /\ t \in DDLTools

Gated(t) == readOnly /\ t \in WriteTools

NoArguments == CHOOSE a \in Arguments : TRUE

Init ==
  /\ prefix \in PrefixFlags
  /\ readOnly \in BOOLEAN
  /\ dialect \in {"postgres", "mariadb"}
  /\ rows = 0
  /\ name = <<>> /\ tool = <<>> /\ args = NoArguments
  /\ todo = <<>>
  /\ applied = 0
  /\ whole = TRUE
  /\ answer = "none"

(* CallTool up to the handler's first statement. *)
CallTool(n, a) ==
  LET t == ActualToolName(n) IN
  /\ answer = "none"
  /\ name' = n /\ tool' = t /\ args' = a
  /\ \/ t \notin Tools /\ Refuse("unknown tool")
     \/ t \in Tools /\ ~Accepted(t, a) /\ Refuse("bad argument")
     \/ t \in Tools /\ Accepted(t, a) /\ Gated(t) /\ Refuse("read-only")
     \/ /\ t \in Tools /\ Accepted(t, a) /\ ~Gated(t)
        /\ \/ HandleDDL(t, a) \/ RunDLQuery(t, a)
           \/ HandleSelectQuery(t, a) \/ HandleCountQuery(t, a)
           \/ HandleListTable(t) \/ HandleDescTable(t)
           \/ HandleListFunctions(t) \/ HandleDescFunction(t)
           \/ HandleListTriggers(t) \/ HandleDescTrigger(t)
           \/ HandleListSequences(t)
  /\ UNCHANGED <<config, rows, applied, whole>>

-----------------------------------------------------------------------------
(* The statement in front of todo meets the database. *)

Current == Head(todo)
Sending == answer = "pending"

(* EXPLAIN alone plans a statement, everything else executes it. *)
Apply ==
  IF Current.sql = "write" /\ Current.how # "explain"
  THEN rows < MaxRows /\ rows' = rows + 1 /\ applied' = applied + 1
  ELSE UNCHANGED <<rows, applied>>

Proceed ==
  /\ todo' = Tail(todo)
  /\ answer' = IF todo' = <<>> THEN "ok" ELSE "pending"

Completes ==
  /\ Sending
  /\ Current.sql # "refused"
  /\ Apply
  /\ Proceed
  /\ UNCHANGED <<config, call, whole>>

(* Mutant: the other statements are not given up. *)
FailsAndGoesOn ==
  /\ Sending
  /\ todo' = Tail(todo)
  /\ answer' = "error"
  /\ UNCHANGED <<config, rows, call, applied, whole>>

(* There is no connection, or the database refuses the statement. *)
Fails ==
  /\ Sending
  /\ IF Current.how = "show" THEN Proceed ELSE Refuse("error")
  /\ UNCHANGED <<config, rows, call, applied, whole>>

(* Mutant: ExplainPlan does not look at rows.Err(). *)
BreaksUnnoticed ==
  /\ Sending
  /\ Current.sql # "refused"
  /\ Apply \/ UNCHANGED <<rows, applied>>
  /\ IF Current.how \in {"query", "show", "explain"} THEN Proceed ELSE Refuse("error")
  /\ whole' = (whole /\ Current.how \notin {"query", "explain"})
  /\ UNCHANGED <<config, call>>

(* The statement fails or the connection is lost after the first part of   *)
(* the result is there.  DoQuery does not look at rows.Err() and takes the *)
(* part for the whole; the others report an error, though the statement    *)
(* may have taken effect.                                                  *)
Breaks ==
  /\ Sending
  /\ Current.sql # "refused"
  /\ Apply \/ UNCHANGED <<rows, applied>>
  /\ IF Current.how \in {"query", "show"} THEN Proceed ELSE Refuse("error")
  /\ whole' = (whole /\ Current.how # "query")
  /\ UNCHANGED <<config, call>>

(* A desc tool gets no row. *)
NotFound ==
  /\ Sending
  /\ tool \in {<<"desc", "table">>, <<"desc", "function">>, <<"desc", "trigger">>}
  /\ Refuse("not found")
  /\ UNCHANGED <<config, rows, call, applied, whole>>

(* CallTool has returned; handlers keep nothing for the next call.         *)
Return ==
  /\ answer \notin {"none", "pending"}
  /\ name' = <<>> /\ tool' = <<>> /\ args' = NoArguments
  /\ applied' = 0
  /\ whole' = TRUE
  /\ answer' = "none"
  /\ UNCHANGED <<config, rows, todo>>

OtherSession ==
  /\ rows' \in 0..MaxRows
  /\ UNCHANGED <<config, call, todo, applied, whole, answer>>

Names == {<<"bogus", "tool">>} \cup Tools \cup {prefix \o t : t \in Tools}

Next ==
  \/ \E n \in Names, a \in Arguments : CallTool(n, a)
  \/ Completes \/ Fails \/ Breaks \/ NotFound \/ Return
  \/ OtherSession

Spec == Init /\ [][Next]_vars

-----------------------------------------------------------------------------
(* Properties. *)

Answers == {"none", "pending", "ok", "unknown tool", "bad argument",
            "read-only", "error", "not found"}

(* Every variable stays in its type; a call with an answer sends nothing. *)
TypeOK ==
  /\ prefix \in PrefixFlags /\ readOnly \in BOOLEAN
  /\ dialect \in {"postgres", "mariadb"}
  /\ rows \in 0..MaxRows
  /\ name \in Names \cup {<<>>}
  /\ tool \in {ActualToolName(n) : n \in Names} \cup {<<>>}
  /\ args \in Arguments
  /\ todo \in Seq([how : {"exec", "query", "explain", "analyze", "show"},
                   sql : Statements])
  /\ applied \in 0..2 /\ whole \in BOOLEAN
  /\ answer \in Answers
  /\ answer = "pending" <=> todo # <<>>

(* The list in tools.go, the switch of CallTool and the read-only checks   *)
(* of the handlers agree: what is listed is dispatched and not refused,    *)
(* whatever the prefix.                                                    *)
ListedToolsWork ==
  name \in Listed => tool \in Tools /\ answer \notin {"unknown tool", "read-only"}

(* A read-only server executes no write tool, under any of its names, even *)
(* if a client calls it without having it listed.                          *)
ReadOnlyRefuses ==
  readOnly /\ tool \in WriteTools =>
    answer \in {"bad argument", "read-only"} /\ applied = 0

(* A write with explain shows its plan "INSTEAD of executing": nothing     *)
(* that happens to the connection makes it change the table.               *)
PreviewNeverExecutes ==
  tool \in DMLTools /\ Explains(args) => applied = 0

(* How often the call's query changes the table if nothing goes wrong.     *)
Executions ==
  IF args.query # "write" \/ (tool \in DMLTools /\ Explains(args)) THEN 0
  ELSE IF tool \in WriteTools THEN 1
  ELSE IF tool = <<"select", "query">> THEN (IF Explains(args) THEN 2 ELSE 1)
  ELSE 0

(* No failure makes a call execute its statement once more, and a tool     *)
(* that does not take a query changes nothing.  What a write tool reports  *)
(* as done was done.  Only select_query with explain executes a statement  *)
(* twice: EXPLAIN ANALYZE runs it again.                                   *)
WritesOnce ==
  /\ applied <= Executions
  /\ answer = "ok" /\ tool \in WriteTools => applied = Executions

(* A plan that is shown instead of executing is the whole plan. *)
PreviewIsWhole ==
  tool \in DMLTools /\ answer = "ok" => whole

(* tools.go: list_tables is to "List all tables in the database", DoQuery  *)
(* to return "the raw result rows".  (finding)                             *)
ResultsAreWhole == answer = "ok" => whole
=============================================================================
