---------------------------- MODULE ToolCallsProofs ----------------------------
(***************************************************************************)
(* What a call may do to the database, whatever prefixes the program is    *)
(* started with, whatever a client sends and however statements fail.      *)
(***************************************************************************)
EXTENDS ToolCalls, TLAPS

(* What the handler of a tool may have in front of it, and what it did so  *)
(* far: a write tool has one statement, select_query its query and perhaps *)
(* the analysis that runs it again, and the others only read.              *)
WriteStmt == Stmt(IF tool \in DMLTools /\ Explains(args) THEN "explain" ELSE "exec", args.query)
Query     == Stmt("query", args.query)
Analyze   == Stmt("analyze", args.query)

Select == <<"select", "query">>
ReadStmts == [how : {"query", "show", "analyze"}, sql : {"read"}]

Plan ==
  /\ tool \in WriteTools =>
       ~readOnly /\ todo = <<WriteStmt>> /\ applied = 0 /\ whole = TRUE
  /\ tool = Select =>
       \/ todo = <<Query>> /\ ~Explains(args) /\ applied = 0
       \/ todo = <<Query, Analyze>> /\ Explains(args) /\ applied = 0
       \/ /\ todo = <<Analyze>> /\ Explains(args)
          /\ applied \in (IF args.query = "write" THEN {0, 1} ELSE {0})
  /\ tool \notin WriteTools \cup {Select} =>
       todo \in Seq(ReadStmts) /\ todo # <<>> /\ applied = 0

(* What a call did when it has its answer. *)
Done ==
  /\ readOnly /\ tool \in WriteTools => answer \in {"bad argument", "read-only"} /\ applied = 0
  /\ applied \in 0..Executions
  /\ answer = "ok" /\ tool \in WriteTools => applied = Executions
  /\ answer = "ok" /\ tool \in DMLTools => whole = TRUE

(* Between calls nothing is left of the last one. *)
Fresh == applied = 0 /\ whole = TRUE /\ tool = <<>>

Inv ==
  /\ answer = "none" => Fresh
  /\ answer = "pending" => Plan
  /\ answer \notin {"none", "pending"} => Done

-----------------------------------------------------------------------------
(* Tool names. *)

LEMMA Tools3 ==
  /\ DDLTools \cap DMLTools = {} /\ Select \notin WriteTools
  /\ <<>> \notin WriteTools /\ <<>> # Select
  /\ WriteTools \subseteq Tools
BY DEF DDLTools, DMLTools, WriteTools, Select, Tools

(* What a write tool, or the query of a call, may do in all. *)
LEMMA ExecutionFacts ==
  /\ Executions \in {0, 1, 2}
  /\ tool \in WriteTools => 
       Executions = IF args.query = "write" /\ WriteStmt.how # "explain" THEN 1 ELSE 0
  /\ tool = Select =>
       Executions = IF args.query # "write" THEN 0 ELSE IF Explains(args) THEN 2 ELSE 1
<1>1. DMLTools \subseteq WriteTools
  BY DEF WriteTools
<1> QED BY <1>1, Tools3 DEF Executions, WriteStmt, Stmt, Select

(* The statements of the tools that only read. *)
LEMMA Inspections ==
  ASSUME NEW n \in Nat
  PROVE  /\ [i \in 1..n |-> Stmt("query", "read")] \in Seq(ReadStmts)
         /\ [i \in 1..n |-> Stmt("show", "read")] \in Seq(ReadStmts)
         /\ <<Stmt("query", "read")>> \in Seq(ReadStmts)
         /\ <<Stmt("analyze", "read")>> \in Seq(ReadStmts)
         /\ n > 0 => [i \in 1..n |-> Stmt("query", "read")] # <<>>
<1>1. /\ Stmt("query", "read") \in ReadStmts
      /\ Stmt("show", "read") \in ReadStmts
      /\ Stmt("analyze", "read") \in ReadStmts
  BY DEF Stmt, ReadStmts
<1>2. /\ [i \in 1..n |-> Stmt("query", "read")] \in [1..n -> ReadStmts]
      /\ [i \in 1..n |-> Stmt("show", "read")] \in [1..n -> ReadStmts]
  BY <1>1
<1>3. n > 0 => [i \in 1..n |-> Stmt("query", "read")] # <<>>
  <2> DEFINE s == [i \in 1..n |-> Stmt("query", "read")]
  <2> SUFFICES ASSUME n > 0 PROVE s # <<>>
    OBVIOUS
  <2>1. s \in Seq(ReadStmts) /\ Len(s) = n
    BY <1>2
  <2> QED BY <2>1
<1> QED BY <1>1, <1>2, <1>3

LEMMA Tuples ==
  ASSUME NEW x, NEW y
  PROVE  /\ <<x>> \o <<>> = <<x>> /\ <<x>> \o <<y>> = <<x, y>>
         /\ Head(<<x>>) = x /\ Tail(<<x>>) = <<>>
         /\ Head(<<x, y>>) = x /\ Tail(<<x, y>>) = <<y>>
         /\ <<x>> # <<>> /\ <<x, y>> # <<>>
<1> DEFINE S == {x, y}
<1>1. <<x>> \in Seq(S) /\ <<y>> \in Seq(S) /\ <<x, y>> \in Seq(S) /\ <<>> \in Seq(S)
  OBVIOUS
<1>2. <<x>> \o <<>> = <<x>>
  BY <1>1
<1>3. <<x>> \o <<y>> = <<x, y>>
  <2> DEFINE c == <<x>> \o <<y>>
  <2>1. c \in Seq(S) /\ Len(c) = 2
    BY <1>1
  <2>2. c[1] = x /\ c[2] = y
    BY <1>1
  <2> HIDE DEF c
  <2>3. c = <<x, y>>
    BY <1>1, <2>1, <2>2
  <2> QED BY <2>3 DEF c
<1>4. Head(<<x>>) = x /\ Tail(<<x>>) = <<>>
  OBVIOUS
<1>5. Head(<<x, y>>) = x /\ Tail(<<x, y>>) = <<y>>
  OBVIOUS
<1>6. <<x>> # <<>> /\ <<x, y>> # <<>>
  OBVIOUS
<1> QED BY <1>2, <1>3, <1>4, <1>5, <1>6

LEMMA Appended ==
  ASSUME NEW S, NEW s \in Seq(S), NEW t \in Seq(S)
  PROVE  /\ s \o t \in Seq(S)
         /\ s # <<>> => s \o t # <<>>
<1>1. s \o t \in Seq(S) /\ Len(s \o t) = Len(s) + Len(t)
  OBVIOUS
<1>2. s # <<>> => Len(s) > 0
  OBVIOUS
<1> QED BY <1>1, <1>2

(* What a tool that takes no query of the client begins with. *)
LEMMA InspectReads ==
  ASSUME NEW n \in Nat \ {0}, Inspect(n)
  PROVE  answer' = "pending" /\ todo' \in Seq(ReadStmts) /\ todo' # <<>>
BY Inspections DEF Inspect, Begin

-----------------------------------------------------------------------------
(* The steps of a call. *)

LEMMA CallInit == Init => Inv
BY DEF Init, Inv, Fresh

(* What a handler sets out to do is a plan for its tool. *)
LEMMA CallBegins ==
  ASSUME Fresh, NEW n, NEW a, CallTool(n, a)
  PROVE  Inv'
<1> DEFINE t == ActualToolName(n)
<1>1. /\ tool' = t /\ args' = a
      /\ applied' = 0 /\ whole' = TRUE /\ readOnly' = readOnly
  BY DEF CallTool, Fresh, config
<1>a. applied' \in 0..Executions'
  <2>1. Executions' \in {0, 1, 2}
    BY DEF Executions
  <2>2. 0 \in 0..Executions'
    BY <2>1
  <2> QED BY <1>1, <2>2
<1>2. CASE t \notin Tools /\ Refuse("unknown tool")
  <2>1. tool' \notin WriteTools /\ tool' \notin DMLTools
    BY <1>1, <1>2, Tools3 DEF WriteTools
  <2>2. answer' = "unknown tool"
    BY <1>2 DEF Refuse
  <2> QED BY <1>a, <2>1, <2>2 DEF Inv, Done
<1>3. CASE t \in Tools /\ ~Accepted(t, a) /\ Refuse("bad argument")
  <2>1. answer' = "bad argument"
    BY <1>3 DEF Refuse
  <2> QED BY <1>1, <1>a, <2>1 DEF Inv, Done
<1>4. CASE Gated(t) /\ Refuse("read-only")
  <2>1. answer' = "read-only"
    BY <1>4 DEF Refuse
  <2> QED BY <1>1, <1>a, <2>1 DEF Inv, Done
<1>5. CASE ~Gated(t) /\ HandleDDL(t, a)
  <2>1. t \in WriteTools /\ t \notin DMLTools /\ t # Select /\ ~readOnly
    BY <1>5, Tools3 DEF HandleDDL, WriteTools, Gated
  <2>2. answer' = "pending" /\ todo' = <<Stmt("exec", a.query)>>
    BY <1>5 DEF HandleDDL, Begin
  <2> QED BY <1>1, <2>1, <2>2 DEF Inv, Plan, WriteStmt
<1>6. CASE ~Gated(t) /\ RunDLQuery(t, a)
  <2>1. t \in WriteTools /\ t \in DMLTools /\ t # Select /\ ~readOnly
    BY <1>6, Tools3 DEF RunDLQuery, WriteTools, Gated
  <2>2. /\ answer' = "pending"
        /\ todo' = <<Stmt(IF Explains(a) THEN "explain" ELSE "exec", a.query)>>
    BY <1>6 DEF RunDLQuery, Begin
  <2> QED BY <1>1, <2>1, <2>2 DEF Inv, Plan, WriteStmt
<1>7. CASE HandleSelectQuery(t, a)
  <2>1. t = Select /\ t \notin WriteTools
    BY <1>7, Tools3 DEF HandleSelectQuery, Select
  <2>2. answer' = "pending" /\ todo' = <<Stmt("query", a.query)>> \o Analysis(a.query, a)
    BY <1>7 DEF HandleSelectQuery, Begin
  <2>3. /\ Explains(a) => todo' = <<Stmt("query", a.query), Stmt("analyze", a.query)>>
        /\ ~Explains(a) => todo' = <<Stmt("query", a.query)>>
    BY <2>2, Tuples DEF Analysis
  <2> QED BY <1>1, <2>1, <2>2, <2>3 DEF Inv, Plan, Query, Analyze
<1>8. ASSUME t \in ReadTools \ {Select},
             answer' = "pending", todo' \in Seq(ReadStmts), todo' # <<>>
      PROVE  Inv'
  <2>1. t \notin WriteTools \cup {Select}
    BY <1>8 DEF ReadTools, WriteTools, DDLTools, DMLTools, Select
  <2> QED BY <1>1, <1>8, <2>1 DEF Inv, Plan
<1>9. CASE HandleCountQuery(t, a)
  <2>1. t \in ReadTools \ {Select}
    BY <1>9 DEF HandleCountQuery, ReadTools, Select
  <2>2. answer' = "pending" /\ todo' = <<Stmt("query", "read")>> \o Analysis("read", a)
    BY <1>9 DEF HandleCountQuery, Begin
  <2>3. Analysis("read", a) \in Seq(ReadStmts)
    BY Inspections, 0 \in Nat DEF Analysis
  <2>4. <<Stmt("query", "read")>> \in Seq(ReadStmts) /\ <<Stmt("query", "read")>> # <<>>
    BY Inspections, 0 \in Nat
  <2> QED BY <1>8, <2>1, <2>2, <2>3, <2>4, Appended
<1>10. CASE \/ HandleListTable(t) \/ HandleDescTable(t)
            \/ HandleListFunctions(t) \/ HandleDescTrigger(t)
  <2>1. t \in ReadTools \ {Select} /\ Inspect(1)
    BY <1>10 DEF HandleListTable, HandleDescTable, HandleListFunctions,
                 HandleDescTrigger, ReadTools, Select
  <2> QED BY <1>8, <2>1, InspectReads
<1>11. CASE HandleListTriggers(t) \/ HandleDescFunction(t)
  <2>1. t \in ReadTools \ {Select} /\ (Inspect(1) \/ Inspect(2))
    BY <1>11 DEF HandleListTriggers, HandleDescFunction, ReadTools, Select
  <2> QED BY <1>8, <2>1, InspectReads
<1>12. CASE HandleListSequences(t)
  <2>1. t \in ReadTools \ {Select}
    BY <1>12 DEF HandleListSequences, ReadTools, Select
  <2>2. PICK m \in 0..MaxSequences :
          Begin(<<Stmt("query", "read")>> \o [i \in 1..m |-> Stmt("show", "read")])
    BY <1>12 DEF HandleListSequences
  <2>3. <<Stmt("query", "read")>> \in Seq(ReadStmts) /\ <<Stmt("query", "read")>> # <<>>
    BY Inspections, 0 \in Nat
  <2>4. m \in Nat
    BY <2>2
  <2>5. [i \in 1..m |-> Stmt("show", "read")] \in Seq(ReadStmts)
    BY <2>4, Inspections
  <2> QED BY <1>8, <2>1, <2>2, <2>3, <2>5, Appended DEF Begin
<1> QED
  BY <1>2, <1>3, <1>4, <1>5, <1>6, <1>7, <1>9, <1>10, <1>11, <1>12 DEF CallTool

(* What every statement leaves alone, and what it may do to the table. *)
LEMMA Statement ==
  ASSUME Completes \/ Fails \/ Breaks \/ NotFound
  PROVE  /\ readOnly' = readOnly /\ tool' = tool /\ args' = args
         /\ Executions' = Executions
         /\ \/ applied' = applied
            \/ /\ Current.sql = "write" /\ Current.how # "explain"
               /\ applied' = applied + 1
<1>1. readOnly' = readOnly /\ tool' = tool /\ args' = args
  BY DEF Completes, Fails, Breaks, NotFound, config, call
<1>2. Executions' = Executions
  BY <1>1 DEF Executions
<1>3. Apply => \/ applied' = applied
               \/ /\ Current.sql = "write" /\ Current.how # "explain"
                  /\ applied' = applied + 1
  BY DEF Apply
<1> QED BY <1>1, <1>2, <1>3 DEF Completes, Fails, Breaks, NotFound

(* The one statement of a write tool decides its answer. *)
LEMMA WriteEnds ==
  ASSUME answer = "pending", Plan, tool \in WriteTools,
         Completes \/ Fails \/ Breaks \/ NotFound
  PROVE  Inv'
<1>1. /\ ~readOnly /\ applied = 0 /\ whole = TRUE
      /\ Current = WriteStmt /\ Tail(todo) = <<>>
  BY Tuples DEF Plan, Current
<1>2. /\ Current.how \in {"exec", "explain"}
      /\ Current.sql = args.query
  BY <1>1 DEF WriteStmt, Stmt
<1>3. applied' = 0 \/ applied' = Executions
  <2>1. CASE applied' = applied
    BY <1>1, <2>1
  <2>2. CASE /\ Current.sql = "write" /\ Current.how # "explain"
             /\ applied' = applied + 1
    <3>1. Executions = 1
      BY <1>1, <1>2, <2>2, ExecutionFacts
    <3> QED BY <1>1, <2>2, <3>1
  <2> QED BY <2>1, <2>2, Statement
<1>4. applied' \in 0..Executions
  BY <1>3, ExecutionFacts
<1>5. answer' \in {"ok", "error", "not found"}
  BY <1>1, <1>2 DEF Completes, Fails, Breaks, NotFound, Proceed, Refuse
<1>6. ASSUME answer' = "ok" PROVE applied' = Executions /\ whole' = TRUE
  <2>1. Completes
    BY <1>2, <1>6 DEF Fails, Breaks, NotFound, Refuse
  <2>2. Apply /\ whole' = TRUE
    BY <1>1, <2>1 DEF Completes
  <2>3. CASE Current.sql = "write" /\ Current.how # "explain"
    <3>1. applied' = applied + 1
      BY <2>2, <2>3 DEF Apply
    <3>2. Executions = 1
      BY <1>1, <1>2, <2>3, ExecutionFacts
    <3> QED BY <1>1, <2>2, <3>1, <3>2
  <2>4. CASE ~(Current.sql = "write" /\ Current.how # "explain")
    <3>1. applied' = applied
      BY <2>2, <2>4 DEF Apply
    <3>2. Executions = 0
      BY <1>1, <1>2, <2>4, ExecutionFacts
    <3> QED BY <1>1, <2>2, <3>1, <3>2
  <2> QED BY <2>3, <2>4
<1>7. ~readOnly' /\ applied' \in 0..Executions'
  BY <1>1, <1>4, Statement
<1>8. answer' = "ok" => applied' = Executions' /\ whole' = TRUE
  BY <1>6, Statement
<1> QED BY <1>5, <1>7, <1>8 DEF Inv, Done

(* select_query goes from its query to the analysis that runs it again, or *)
(* has its answer.                                                         *)
LEMMA SelectGoesOn ==
  ASSUME answer = "pending", Plan, tool = Select,
         Completes \/ Fails \/ Breaks \/ NotFound
  PROVE  Inv'
<1>1. tool \notin WriteTools /\ tool \notin DMLTools
  BY Tools3 DEF WriteTools
<1>2. /\ tool' = tool /\ args' = args /\ Executions' = Executions
      /\ Explains(args)' = Explains(args)
      /\ Analyze' = Analyze
  BY Statement DEF Explains, Analyze
<1>3. /\ Query.sql = args.query /\ Query.how = "query"
      /\ Analyze.sql = args.query /\ Analyze.how = "analyze"
  BY DEF Query, Analyze, Stmt
<1>4. ASSUME answer' \notin {"none", "pending"}, applied' \in 0..Executions
      PROVE  Inv'
  BY <1>1, <1>2, <1>4 DEF Inv, Done
<1>5. CASE todo = <<Query>> /\ ~Explains(args) /\ applied = 0
  <2>1. Current = Query /\ Tail(todo) = <<>>
    BY <1>5, Tuples DEF Current
  <2>2. answer' \in {"ok", "error", "not found"}
    BY <2>1 DEF Completes, Fails, Breaks, NotFound, Proceed, Refuse
  <2>3. applied' = 0 \/ (args.query = "write" /\ applied' = 1)
    BY <1>3, <1>5, <2>1, Statement
  <2>4. applied' \in 0..Executions
    BY <1>5, <2>3, ExecutionFacts
  <2> QED BY <1>4, <2>2, <2>4
<1>6. CASE todo = <<Query, Analyze>> /\ Explains(args) /\ applied = 0
  <2>1. Current = Query /\ Tail(todo) = <<Analyze>> /\ Tail(todo) # <<>>
    BY <1>6, Tuples DEF Current
  <2>2. applied' = 0 \/ (args.query = "write" /\ applied' = 1)
    BY <1>3, <1>6, <2>1, Statement
  <2>3. \/ answer' \in {"error", "not found"}
        \/ todo' = <<Analyze>> /\ answer' = "pending"
    BY <2>1 DEF Completes, Fails, Breaks, NotFound, Proceed, Refuse
  <2>4. applied' \in 0..Executions
    BY <1>6, <2>2, ExecutionFacts
  <2>5. CASE answer' \in {"error", "not found"}
    BY <1>4, <2>4, <2>5
  <2>6. CASE todo' = <<Analyze>> /\ answer' = "pending"
    <3>1. applied' \in (IF args.query = "write" THEN {0, 1} ELSE {0})
      BY <2>2
    <3>2. Plan'
      BY <1>1, <1>2, <1>6, <2>6, <3>1 DEF Plan
    <3> QED BY <2>6, <3>2 DEF Inv
  <2> QED BY <2>3, <2>5, <2>6
<1>7. CASE /\ todo = <<Analyze>> /\ Explains(args)
           /\ applied \in (IF args.query = "write" THEN {0, 1} ELSE {0})
  <2>1. Current = Analyze /\ Tail(todo) = <<>>
    BY <1>7, Tuples DEF Current
  <2>2. answer' \in {"ok", "error", "not found"}
    BY <2>1 DEF Completes, Fails, Breaks, NotFound, Proceed, Refuse
  <2>3. applied' = applied \/ (args.query = "write" /\ applied' = applied + 1)
    BY <1>3, <2>1, Statement
  <2>4. CASE args.query = "write"
    <3>1. Executions = 2 /\ applied' \in {0, 1, 2}
      BY <1>7, <2>3, <2>4, ExecutionFacts
    <3>2. applied' \in 0..Executions
      BY <3>1
    <3> QED BY <1>4, <2>2, <3>2
  <2>5. CASE args.query # "write"
    <3>1. applied' = 0 /\ Executions = 0
      BY <1>7, <2>3, <2>5, ExecutionFacts
    <3>2. applied' \in 0..Executions
      BY <3>1
    <3> QED BY <1>4, <2>2, <3>2
  <2> QED BY <2>4, <2>5
<1> QED BY <1>5, <1>6, <1>7 DEF Plan

(* The other tools read until their statements are used up. *)
LEMMA ReadingGoesOn ==
  ASSUME answer = "pending", Plan, tool \notin WriteTools \cup {Select},
         Completes \/ Fails \/ Breaks \/ NotFound
  PROVE  Inv'
<1>1. todo \in Seq(ReadStmts) /\ todo # <<>> /\ applied = 0
  BY DEF Plan
<1>2. Current \in ReadStmts /\ Tail(todo) \in Seq(ReadStmts)
  BY <1>1 DEF Current
<1>3. Current.sql # "write"
  BY <1>2 DEF ReadStmts
<1>4. applied' = 0
  BY <1>1, <1>3, Statement
<1>5. tool' = tool /\ tool \notin DMLTools /\ Executions' = Executions
  BY Statement DEF WriteTools
<1>6. applied' \in 0..Executions
  BY <1>4, ExecutionFacts
<1>7. CASE Proceed
  <2>1. CASE Tail(todo) = <<>>
    <3>1. answer' = "ok"
      BY <1>7, <2>1 DEF Proceed
    <3> QED BY <1>5, <1>6, <3>1 DEF Inv, Done
  <2>2. CASE Tail(todo) # <<>>
    <3>1. answer' = "pending" /\ todo' = Tail(todo)
      BY <1>7, <2>2 DEF Proceed
    <3> QED BY <1>2, <1>4, <1>5, <2>2, <3>1 DEF Inv, Plan
  <2> QED BY <2>1, <2>2
<1>8. CASE Refuse("error") \/ Refuse("not found")
  <2>1. answer' \in {"error", "not found"}
    BY <1>8 DEF Refuse
  <2> QED BY <1>5, <1>6, <2>1 DEF Inv, Done
<1> QED BY <1>7, <1>8 DEF Completes, Fails, Breaks, NotFound

LEMMA StatementKeeps ==
  ASSUME Inv, Completes \/ Fails \/ Breaks \/ NotFound
  PROVE  Inv'
<1>1. answer = "pending" /\ Plan
  BY DEF Inv, Completes, Fails, Breaks, NotFound, Sending
<1> QED BY <1>1, WriteEnds, SelectGoesOn, ReadingGoesOn

LEMMA InvNext ==
  ASSUME Inv, [Next]_vars
  PROVE  Inv'
<1>1. ASSUME NEW n \in Names, NEW a \in Arguments, CallTool(n, a) PROVE Inv'
  <2>1. Fresh
    BY <1>1 DEF Inv, CallTool
  <2> QED BY <1>1, <2>1, CallBegins
<1>2. CASE Completes \/ Fails \/ Breaks \/ NotFound
  BY <1>2, StatementKeeps
<1>3. CASE Return
  BY <1>3 DEF Return, Inv, Fresh
<1>4. CASE OtherSession \/ UNCHANGED vars
  <2>1. UNCHANGED <<readOnly, tool, args, todo, applied, whole, answer>>
    BY <1>4 DEF OtherSession, vars, config, call
  <2>2. Executions' = Executions /\ Fresh' = Fresh
    BY <2>1 DEF Executions, Fresh
  <2>3. Plan' = Plan
    BY <2>1 DEF Plan, WriteStmt, Query, Analyze
  <2>4. Done' = Done
    BY <2>1, <2>2 DEF Done
  <2> QED BY <2>1, <2>2, <2>3, <2>4 DEF Inv
<1> QED BY <1>1, <1>2, <1>3, <1>4 DEF Next

LEMMA InvAlways == Spec => []Inv
BY CallInit, InvNext, PTL DEF Spec

(* A read-only server executes no write tool, whatever the prefix, the     *)
(* name the client used and the arguments it sent.                         *)
THEOREM ReadOnlyServersOnlyRead == Spec => []ReadOnlyRefuses
<1>1. Inv => ReadOnlyRefuses
  BY Tools3 DEF Inv, Fresh, Plan, Done, ReadOnlyRefuses
<1> QED BY <1>1, InvAlways, PTL

LEMMA AppliedBounded == ASSUME Inv PROVE applied \in 0..Executions
<1>1. CASE answer = "none"
  BY <1>1, ExecutionFacts DEF Inv, Fresh
<1>2. CASE answer = "pending" /\ tool \in WriteTools
  BY <1>2, ExecutionFacts DEF Inv, Plan
<1>3. CASE answer = "pending" /\ tool = Select
  <2>1. \/ applied = 0
        \/ args.query = "write" /\ Explains(args) /\ applied = 1
    BY <1>3 DEF Inv, Plan
  <2> QED BY <1>3, <2>1, ExecutionFacts
<1>4. CASE answer = "pending" /\ tool \notin WriteTools \cup {Select}
  BY <1>4, ExecutionFacts DEF Inv, Plan
<1>5. CASE answer \notin {"none", "pending"}
  BY <1>5 DEF Inv, Done
<1> QED BY <1>1, <1>2, <1>3, <1>4, <1>5

(* No call executes its statement more often than it has to, and a write   *)
(* that is reported as done was done once.                                 *)
THEOREM WritesAreExecutedOnce == Spec => []WritesOnce
<1>1. Inv => applied \in 0..Executions
  BY AppliedBounded
<1>2. Inv => (answer = "ok" /\ tool \in WriteTools => applied = Executions)
  BY DEF Inv, Done
<1>3. Inv => WritesOnce
  BY <1>1, <1>2, ExecutionFacts DEF WritesOnce
<1> QED BY <1>3, InvAlways, PTL

(* A write tool that is asked for the plan never executes its statement.   *)
THEOREM PlansAreNotExecuted == Spec => []PreviewNeverExecutes
<1>1. WritesOnce /\ Inv => PreviewNeverExecutes
  <2> SUFFICES ASSUME WritesOnce, Inv, tool \in DMLTools, Explains(args)
               PROVE  applied = 0
    BY DEF PreviewNeverExecutes
  <2>1. tool \in WriteTools
    BY DEF WriteTools
  <2>2. Executions = 0
    BY DEF Executions
  <2>3. CASE answer \in {"none", "pending"}
    BY <2>1, <2>3 DEF Inv, Fresh, Plan
  <2>4. CASE answer \notin {"none", "pending"}
    <3>1. applied \in 0..Executions
      BY <2>4 DEF Inv, Done
    <3> QED BY <2>2, <3>1
  <2> QED BY <2>3, <2>4
<1> QED BY <1>1, WritesAreExecutedOnce, InvAlways, PTL

(* The plan a write tool shows is never a part of it.                      *)
THEOREM PlansAreWhole == Spec => []PreviewIsWhole
<1>1. Inv => PreviewIsWhole
  BY DEF Inv, Done, PreviewIsWhole
<1> QED BY <1>1, InvAlways, PTL

-----------------------------------------------------------------------------
(* Names and prefixes. *)

(* A name leads to a tool, and a refusal has its cause.                    *)
Named ==
  /\ prefix \in PrefixFlags
  /\ answer = "none" => name = <<>>
  /\ answer # "none" => tool = ActualToolName(name)
  /\ answer = "unknown tool" => tool \notin Tools
  /\ answer = "read-only" => Gated(tool)

LEMMA NamedInit == Init => Named
BY DEF Init, Named

LEMMA NamedNext ==
  ASSUME Named, [Next]_vars
  PROVE  Named'
<1>1. ASSUME NEW n \in Names, NEW a \in Arguments, CallTool(n, a) PROVE Named'
  <2>1. /\ tool' = ActualToolName(n) /\ name' = n /\ prefix' = prefix
        /\ readOnly' = readOnly
    BY <1>1 DEF CallTool, config
  <2>2. tool' = ActualToolName(name)'
    BY <2>1 DEF ActualToolName, TrimPrefix
  <2>3. \/ answer' = "unknown tool" /\ tool' \notin Tools
        \/ answer' = "bad argument"
        \/ answer' = "read-only" /\ Gated(tool)'
        \/ answer' = "pending"
    BY <1>1, <2>1
    DEF CallTool, Gated, Refuse, Begin, Inspect, HandleDDL, RunDLQuery,
        HandleSelectQuery, HandleCountQuery, HandleListTable, HandleDescTable,
        HandleListFunctions, HandleDescFunction, HandleListTriggers,
        HandleDescTrigger, HandleListSequences
  <2> QED BY <2>1, <2>2, <2>3 DEF Named
<1>2. CASE Completes \/ Fails \/ Breaks \/ NotFound
  <2>1. /\ prefix' = prefix /\ name' = name /\ tool' = tool
        /\ ActualToolName(name)' = ActualToolName(name)
    BY <1>2 DEF Completes, Fails, Breaks, NotFound, config, call,
                ActualToolName, TrimPrefix
  <2>2. answer = "pending" /\ answer' \in {"ok", "pending", "error", "not found"}
    BY <1>2 DEF Completes, Fails, Breaks, NotFound, Sending, Proceed, Refuse
  <2> QED BY <2>1, <2>2 DEF Named
<1>3. CASE Return
  BY <1>3 DEF Return, Named, config
<1>4. CASE OtherSession \/ UNCHANGED vars
  <2>1. UNCHANGED <<prefix, readOnly, name, tool, answer>>
    BY <1>4 DEF OtherSession, vars, config, call
  <2> QED BY <2>1 DEF Named, ActualToolName, TrimPrefix, Gated
<1> QED BY <1>1, <1>2, <1>3, <1>4 DEF Next

LEMMA NamedAlways == Spec => []Named
BY NamedInit, NamedNext, PTL DEF Spec

(* Taking a prefix away undoes putting it there.                           *)
LEMMA TrimPrepended ==
  ASSUME NEW W, prefix \in Seq(W), NEW t \in Seq(W)
  PROVE  TrimPrefix(prefix \o t) = t
<1> DEFINE n == prefix \o t
<1>1. n \in Seq(W) /\ Len(n) = Len(prefix) + Len(t)
  OBVIOUS
<1>2. SubSeq(prefix, 1, Len(prefix)) = SubSeq(n, 1, Len(prefix))
  <2>1. \A i \in 1..Len(prefix) : prefix[i] = n[i]
    OBVIOUS
  <2>2. SubSeq(n, 1, Len(prefix)) = prefix
    BY <1>1, <2>1
  <2>3. SubSeq(prefix, 1, Len(prefix)) = prefix
    OBVIOUS
  <2> QED BY <2>2, <2>3
<1>3. IsPrefix(prefix, n)
  BY <1>1, <1>2 DEF IsPrefix
<1>4. SubSeq(n, Len(prefix) + 1, Len(n)) = t
  <2>1. \A i \in 1..Len(t) : n[Len(prefix) + i] = t[i]
    OBVIOUS
  <2> QED BY <1>1, <2>1
<1> QED BY <1>3, <1>4 DEF TrimPrefix

LEMMA Prepended ==
  ASSUME NEW W, NEW s \in Seq(W), NEW t \in Seq(W), t # <<>>
  PROVE  s \o t # <<>>
<1>1. Len(s \o t) = Len(s) + Len(t) /\ Len(s) \in Nat /\ Len(t) > 0
  OBVIOUS
<1> QED BY <1>1

LEMMA Widened ==
  ASSUME NEW A, NEW B, A \subseteq B, NEW s \in Seq(A)
  PROVE  s \in Seq(B)
<1>1. Len(s) \in Nat /\ s \in [1..Len(s) -> B]
  OBVIOUS
<1> QED BY <1>1

(* Every tool of the list is dispatched to its handler, and the handler    *)
(* does not refuse it: no prefix, not even one that is a word of a tool's  *)
(* name, turns it into another name.                                       *)
THEOREM EveryListedToolWorks == Spec => []ListedToolsWork
<1>1. Named => ListedToolsWork
  <2> SUFFICES ASSUME Named, name \in Listed
               PROVE  tool \in Tools /\ answer \notin {"unknown tool", "read-only"}
    BY DEF ListedToolsWork
  <2>1. PICK t \in ReadTools \cup (IF readOnly THEN {} ELSE WriteTools) : name = prefix \o t
    BY DEF Listed
  <2> DEFINE W == STRING \cup
        {"list", "tables", "desc", "table", "select", "query", "count", "functions",
         "function", "triggers", "trigger", "sequences", "create", "alter", "insert",
         "update", "delete"}
  <2>2. \A x, y \in W : <<x, y>> \in Seq(W) /\ Len(<<x, y>>) = 2
    OBVIOUS
  <2>3. t \in Seq(W) /\ Len(t) = 2
    <3>1. \E x, y \in W : t = <<x, y>>
      BY <2>1 DEF ReadTools, WriteTools, DDLTools, DMLTools
    <3> QED BY <2>2, <3>1
  <2>4. prefix \in Seq(W)
    <3>1. prefix \in Seq(STRING)
      BY ToolCallsAssumption DEF Named
    <3>2. STRING \subseteq W
      OBVIOUS
    <3> QED BY <3>1, <3>2, Widened
  <2> HIDE DEF W
  <2>5. name # <<>>
    <3>1. t # <<>>
      BY <2>3
    <3> QED BY <2>1, <2>3, <2>4, <3>1, Prepended
  <2>6. TrimPrefix(name) = t
    BY <2>1, <2>3, <2>4, TrimPrepended
  <2>7. tool = t
    BY <2>5, <2>6 DEF Named, ActualToolName
  <2>8. t \in Tools /\ ~Gated(t)
    <3>1. t \in ReadTools => t \notin WriteTools
      BY DEF ReadTools, WriteTools, DDLTools, DMLTools
    <3> QED BY <2>1, <3>1 DEF Tools, Gated
  <2> QED BY <2>7, <2>8 DEF Named
<1> QED BY <1>1, NamedAlways, PTL

-----------------------------------------------------------------------------
(* Types. *)

Sent == [how : {"exec", "query", "explain", "analyze", "show"}, sql : Statements]

Typed ==
  /\ prefix \in PrefixFlags /\ readOnly \in BOOLEAN
  /\ dialect \in {"postgres", "mariadb"}
  /\ rows \in 0..MaxRows
  /\ name \in Names \cup {<<>>}
  /\ tool \in {ActualToolName(n) : n \in Names} \cup {<<>>}
  /\ args \in Arguments
  /\ todo \in Seq(Sent)
  /\ whole \in BOOLEAN
  /\ answer \in Answers
  /\ answer = "pending" <=> todo # <<>>

LEMMA TypedInit == Init => Typed
<1>1. NoArguments \in Arguments
  BY ToolCallsAssumption DEF NoArguments
<1>2. 0 \in 0..MaxRows
  BY ToolCallsAssumption
<1> QED BY <1>1, <1>2 DEF Init, Typed, Answers

(* What a handler may send: a query only if it is one.                     *)
LEMMA QueryIsStatement ==
  ASSUME NEW t \in WriteTools \cup {Select}, NEW a \in Arguments, Accepted(t, a)
  PROVE  a.query \in Statements
<1>1. "query" \in Required(t)
  BY DEF Required, Select
<1>2. a.query \notin Unusable
  BY <1>1 DEF Accepted, ParseString
<1>3. a.query \in QueryParam
  BY ToolCallsAssumption DEF Argument
<1> QED BY <1>2, <1>3 DEF QueryParam

LEMMA EmptySeq == ASSUME NEW S PROVE <<>> \in Seq(S)
OBVIOUS

LEMMA OneStmt ==
  ASSUME NEW how \in {"exec", "query", "explain", "analyze", "show"}, NEW sql \in Statements
  PROVE  <<Stmt(how, sql)>> \in Seq(Sent) /\ <<Stmt(how, sql)>> # <<>>
<1>1. Stmt(how, sql) \in Sent
  BY DEF Stmt, Sent
<1> QED BY <1>1

(* A call begins with statements to send, or has its answer.               *)
LEMMA CallTyped ==
  ASSUME NEW n \in Names, NEW a \in Arguments, CallTool(n, a)
  PROVE  \/ answer' = "pending" /\ todo' \in Seq(Sent) /\ todo' # <<>>
         \/ answer' \in Answers \ {"none", "pending"} /\ todo' = <<>>
<1> DEFINE t == ActualToolName(n)
<1>0. ReadStmts \subseteq Sent
  BY DEF ReadStmts, Sent, Statements
<1>1. ASSUME t \in Tools, Accepted(t, a), HandleDDL(t, a) \/ RunDLQuery(t, a)
      PROVE  answer' = "pending" /\ todo' \in Seq(Sent) /\ todo' # <<>>
  <2>1. PICK how \in {"exec", "explain"} :
          answer' = "pending" /\ todo' = <<Stmt(how, a.query)>>
    BY <1>1 DEF HandleDDL, RunDLQuery, Begin
  <2>2. a.query \in Statements
    BY <1>1, QueryIsStatement DEF HandleDDL, RunDLQuery, WriteTools
  <2> QED BY <2>1, <2>2, OneStmt
<1>2. ASSUME Accepted(t, a), HandleSelectQuery(t, a)
      PROVE  answer' = "pending" /\ todo' \in Seq(Sent) /\ todo' # <<>>
  <2>1. /\ answer' = "pending"
        /\ todo' = <<Stmt("query", a.query)>> \o Analysis(a.query, a)
    BY <1>2 DEF HandleSelectQuery, Begin
  <2>2. a.query \in Statements
    BY <1>2, QueryIsStatement DEF HandleSelectQuery, Select
  <2>3. Analysis(a.query, a) \in Seq(Sent)
    BY <2>2, OneStmt DEF Analysis
  <2>4. <<Stmt("query", a.query)>> \in Seq(Sent) /\ <<Stmt("query", a.query)>> # <<>>
    BY <2>2, OneStmt
  <2> QED BY <2>1, <2>3, <2>4, Appended
<1>3. ASSUME HandleCountQuery(t, a)
      PROVE  answer' = "pending" /\ todo' \in Seq(Sent) /\ todo' # <<>>
  <2>1. "read" \in Statements
    BY DEF Statements
  <2>2. /\ answer' = "pending"
        /\ todo' = <<Stmt("query", "read")>> \o Analysis("read", a)
    BY <1>3 DEF HandleCountQuery, Begin
  <2>3. Analysis("read", a) \in Seq(Sent)
    BY <2>1, OneStmt DEF Analysis
  <2>4. <<Stmt("query", "read")>> \in Seq(Sent) /\ <<Stmt("query", "read")>> # <<>>
    BY <2>1, OneStmt
  <2> QED BY <2>2, <2>3, <2>4, Appended
<1>4. ASSUME Inspect(1) \/ Inspect(2)
      PROVE  answer' = "pending" /\ todo' \in Seq(Sent) /\ todo' # <<>>
  BY <1>0, <1>4, InspectReads, Widened
<1>5. ASSUME HandleListSequences(t)
      PROVE  answer' = "pending" /\ todo' \in Seq(Sent) /\ todo' # <<>>
  <2>1. PICK m \in 0..MaxSequences :
          /\ answer' = "pending"
          /\ todo' = <<Stmt("query", "read")>> \o [i \in 1..m |-> Stmt("show", "read")]
    BY <1>5 DEF HandleListSequences, Begin
  <2>2. <<Stmt("query", "read")>> \in Seq(Sent) /\ <<Stmt("query", "read")>> # <<>>
    BY OneStmt DEF Statements
  <2>3. m \in Nat
    BY <2>1
  <2>4. [i \in 1..m |-> Stmt("show", "read")] \in Seq(Sent)
    BY <1>0, <2>3, Inspections, Widened
  <2> QED BY <2>1, <2>2, <2>4, Appended
<1>6. ASSUME \/ HandleListTable(t) \/ HandleDescTable(t)
             \/ HandleListFunctions(t) \/ HandleDescFunction(t)
             \/ HandleListTriggers(t) \/ HandleDescTrigger(t)
      PROVE  Inspect(1) \/ Inspect(2)
  BY <1>6 DEF HandleListTable, HandleDescTable, HandleListFunctions, HandleDescFunction,
         HandleListTriggers, HandleDescTrigger
<1>7. ASSUME NEW k \in {"unknown tool", "bad argument", "read-only"}, Refuse(k)
      PROVE  answer' \in Answers \ {"none", "pending"} /\ todo' = <<>>
  BY <1>7 DEF Refuse, Answers
<1>8. \/ \E k \in {"unknown tool", "bad argument", "read-only"} : Refuse(k)
      \/ t \in Tools /\ Accepted(t, a) /\ (HandleDDL(t, a) \/ RunDLQuery(t, a))
      \/ Accepted(t, a) /\ HandleSelectQuery(t, a)
      \/ HandleCountQuery(t, a)
      \/ Inspect(1) \/ Inspect(2)
      \/ HandleListSequences(t)
  BY <1>6 DEF CallTool
<1> HIDE DEF t
<1> QED BY <1>1, <1>2, <1>3, <1>4, <1>5, <1>7, <1>8

(* A statement leaves the rest to send, or the call has its answer.        *)
LEMMA StatementTyped ==
  ASSUME Typed, Completes \/ Fails \/ Breaks \/ NotFound
  PROVE  /\ todo' \in Seq(Sent)
         /\ answer' \in Answers /\ (answer' = "pending" <=> todo' # <<>>)
         /\ rows' \in 0..MaxRows /\ whole' \in BOOLEAN
<1>1. todo \in Seq(Sent) /\ todo # <<>>
  BY DEF Typed, Completes, Fails, Breaks, NotFound, Sending
<1>2. Proceed => /\ todo' \in Seq(Sent)
                 /\ answer' \in Answers /\ (answer' = "pending" <=> todo' # <<>>)
  <2>1. Tail(todo) \in Seq(Sent)
    BY <1>1
  <2> QED BY <2>1 DEF Proceed, Answers
<1>3. ASSUME NEW k \in {"error", "not found"}, Refuse(k)
      PROVE  /\ todo' \in Seq(Sent)
             /\ answer' \in Answers /\ (answer' = "pending" <=> todo' # <<>>)
  <2>1. todo' = <<>> /\ answer' = k
    BY <1>3 DEF Refuse
  <2>2. answer' \in Answers /\ answer' # "pending"
    BY <2>1 DEF Answers
  <2>3. <<>> \in Seq(Sent)
    BY EmptySeq
  <2> QED BY <2>1, <2>2, <2>3, Zenon
<1>4. Apply \/ UNCHANGED <<rows, applied>> => rows' \in 0..MaxRows
  BY ToolCallsAssumption DEF Apply, Typed
<1>5. whole' \in BOOLEAN
  BY DEF Completes, Fails, Breaks, NotFound, Typed
<1> QED BY <1>2, <1>3, <1>4, <1>5 DEF Completes, Fails, Breaks, NotFound

LEMMA SamePrefix ==
  ASSUME prefix' = prefix
  PROVE  /\ Names' = Names
         /\ {ActualToolName(n) : n \in Names}' = {ActualToolName(n) : n \in Names}
BY DEF Names, ActualToolName, TrimPrefix

LEMMA TypedNext ==
  ASSUME Typed, [Next]_vars
  PROVE  Typed'
<1>1. UNCHANGED config
  BY DEF Next, CallTool, Completes, Fails, Breaks, NotFound, Return, OtherSession, vars
<1>2. /\ prefix' \in PrefixFlags /\ readOnly' \in BOOLEAN
      /\ dialect' \in {"postgres", "mariadb"}
      /\ Names' = Names
      /\ {ActualToolName(n) : n \in Names}' = {ActualToolName(n) : n \in Names}
  BY <1>1, SamePrefix DEF config, Typed
<1>3. ASSUME NEW n \in Names, NEW a \in Arguments, CallTool(n, a) PROVE Typed'
  <2>1. /\ name' \in Names /\ tool' \in {ActualToolName(m) : m \in Names}
        /\ args' \in Arguments /\ UNCHANGED <<rows, whole>>
    BY <1>3 DEF CallTool
  <2>2. /\ todo' \in Seq(Sent)
        /\ answer' \in Answers /\ (answer' = "pending" <=> todo' # <<>>)
    <3>1. CASE answer' = "pending" /\ todo' \in Seq(Sent) /\ todo' # <<>>
      BY <3>1, Zenon DEF Answers
    <3>2. CASE answer' \in Answers \ {"none", "pending"} /\ todo' = <<>>
      <4>1. todo' \in Seq(Sent) /\ answer' \in Answers /\ answer' # "pending"
        BY <3>2
      <4> QED BY <3>2, <4>1, Zenon
    <3> QED BY <1>3, <3>1, <3>2, CallTyped
  <2>3. rows' \in 0..MaxRows /\ whole' \in BOOLEAN
    BY <2>1 DEF Typed
  <2> QED BY <1>2, <2>1, <2>2, <2>3 DEF Typed
<1>4. CASE Completes \/ Fails \/ Breaks \/ NotFound
  <2>1. UNCHANGED call
    BY <1>4 DEF Completes, Fails, Breaks, NotFound
  <2> QED BY <1>2, <1>4, <2>1, StatementTyped DEF Typed, call
<1>5. CASE Return
  <2>1. NoArguments \in Arguments
    BY ToolCallsAssumption DEF NoArguments
  <2>2. answer # "pending" /\ answer' = "none" /\ UNCHANGED todo
    BY <1>5 DEF Return
  <2> QED BY <1>2, <1>5, <2>1, <2>2 DEF Return, Typed, Answers
<1>6. CASE OtherSession \/ UNCHANGED vars
  <2>1. rows' \in 0..MaxRows /\ UNCHANGED <<name, tool, args, todo, whole, answer>>
    BY <1>6 DEF OtherSession, vars, call, Typed
  <2> QED BY <1>2, <2>1 DEF Typed
<1> QED BY <1>3, <1>4, <1>5, <1>6 DEF Next

(* Every variable keeps its type for any prefixes and arguments: a handler *)
(* sends what was checked to be a query, no call changes the table more    *)
(* than twice, and a call that has its answer sends nothing.               *)
THEOREM TypeCorrect == Spec => []TypeOK
<1>1. Typed /\ Inv => TypeOK
  <2> SUFFICES ASSUME Typed, Inv PROVE TypeOK
    OBVIOUS
  <2>1. applied \in 0..2
    <3>1. applied \in 0..Executions
      BY AppliedBounded
    <3> QED BY <3>1, ExecutionFacts
  <2> QED BY <2>1 DEF Typed, TypeOK, Sent
<1>2. Spec => []Typed
  BY TypedInit, TypedNext, PTL DEF Spec
<1> QED BY <1>1, <1>2, InvAlways, PTL

=============================================================================
