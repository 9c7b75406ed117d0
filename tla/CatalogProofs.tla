----------------------------- MODULE CatalogProofs -----------------------------
(***************************************************************************)
(* Proofs about Catalog: that its types are kept, that a list has what was *)
(* there all through the call, once each, and nothing that never was, that *)
(* it is sorted, that what a desc call names is described or offered, and  *)
(* that an error has one of the known causes.                              *)
(*                                                                         *)
(* The first three rest on an invariant in two parts.  Types says of every *)
(* stage of a call what its status, its lines and the sequences still to   *)
(* be shown have to do with each other.  Listing says what the lines and   *)
(* the sequences to come amount to together: one sequence of objects,      *)
(* complete, without repetition and in order, for the kinds of object      *)
(* asked for so far.  Create and Drop, which come between the queries of a *)
(* call, only widen ever and narrow stable, and that spoils neither.       *)
(***************************************************************************)
EXTENDS Catalog, FiniteSetTheorems, TLAPS

(* A sequence, of whatever it holds. *)
IsSeq(s) == s \in Seq({s[i] : i \in 1..Len(s)})

(* Each of the lines ls was made of objects in S. *)
Made(ls, S) == IsSeq(ls) /\ \A i \in 1..Len(ls) : ls[i].of \subseteq S

(* What there is in the database, and was during the call. *)
Objective ==
  /\ dialect \in {"postgres", "mariadb"}
  /\ catalog \subseteq Objects /\ Legal(catalog)
  /\ call \in Calls
  /\ stable \subseteq catalog /\ catalog \subseteq ever /\ ever \subseteq Objects
  /\ changes \in 0..MaxChanges

(* How a call ends. *)
Finished == {"ok", "choices", "no overload", "not found", "error", "lost"}

(* How far the answer is. *)
Answering ==
  /\ status \in Busy \cup {"idle"} \cup Finished
  /\ Made(lines, ever)
  /\ status \in {"idle", "querying"} => lines = <<>>
  /\ todo \in Seq(Sequence \cap ever)
  /\ todo # <<>> <=> status = "showing"
  /\ status = "showing" => MariaDB /\ call.tool = "list_sequences"
  /\ status = "events" => Postgres /\ call.tool = "list_triggers"

Types == Objective /\ Answering

(* q lists the objects of the kinds K: all there were all the time, none   *)
(* that never was, none twice, each kind in order.                         *)
Follows(q, K) ==
  /\ \A i \in DOMAIN q : q[i] \in Scope /\ q[i].is \in K
  /\ \A i, j \in DOMAIN q : i # j => q[i] # q[j]
  /\ \A o \in stable \cap Scope : o.is \in K => \E i \in DOMAIN q : q[i] = o
  /\ \A i, j \in DOMAIN q : i < j /\ q[i].is = q[j].is => ~Before(q[j], q[i])

(* The lines and the sequences to come list the objects of the kinds K.    *)
Listed(K) ==
  \E q \in [1..(Len(lines) + Len(todo)) -> ever] :
    /\ Follows(q, K)
    /\ \A i \in 1..Len(lines) : lines[i].of = {q[i]}
    /\ \A j \in 1..Len(todo) : todo[j] = q[Len(lines) + j]

Listing ==
  /\ status = "events" => Listed({"trigger"})
  /\ status = "showing" => Listed({"sequence"})
  /\ Lists => Listed(Kinds(call))

-----------------------------------------------------------------------------
(* Sequences. *)

LEMMA SeqIsSeq == ASSUME NEW S, NEW s \in Seq(S) PROVE IsSeq(s)
<1>1. Len(s) \in Nat /\ s = [i \in 1..Len(s) |-> s[i]]
  OBVIOUS
<1>2. s \in [1..Len(s) -> {s[i] : i \in 1..Len(s)}]
  BY <1>1
<1> QED BY <1>1, <1>2 DEF IsSeq

LEMMA FunctionIsSeq ==
  ASSUME NEW n \in Nat, NEW s, s = [i \in 1..n |-> s[i]]
  PROVE  IsSeq(s) /\ Len(s) = n
<1>1. s \in [1..n -> {s[i] : i \in 1..n}]
  OBVIOUS
<1>2. s \in Seq({s[i] : i \in 1..n}) /\ Len(s) = n
  BY <1>1
<1> QED BY <1>2 DEF IsSeq

LEMMA AppendSeq ==
  ASSUME NEW s, IsSeq(s), NEW e
  PROVE  /\ IsSeq(Append(s, e)) /\ Len(Append(s, e)) = Len(s) + 1 /\ Len(s) \in Nat
         /\ \A i \in 1..Len(s) : Append(s, e)[i] = s[i]
         /\ Append(s, e)[Len(s) + 1] = e
<1> DEFINE S == {s[i] : i \in 1..Len(s)} \cup {e}
<1>1. s \in Seq(S)
  <2>1. Len(s) \in Nat /\ s = [i \in 1..Len(s) |-> s[i]]
    BY DEF IsSeq
  <2>2. s \in [1..Len(s) -> S]
    BY <2>1
  <2> QED BY <2>1, <2>2
<1>2. e \in S
  OBVIOUS
<1> HIDE DEF S
<1>3. Append(s, e) \in Seq(S)
  BY <1>1, <1>2
<1>4. IsSeq(Append(s, e))
  BY <1>3, SeqIsSeq
<1>5. /\ Len(Append(s, e)) = Len(s) + 1 /\ Len(s) \in Nat
      /\ \A i \in 1..Len(s) : Append(s, e)[i] = s[i]
      /\ Append(s, e)[Len(s) + 1] = e
  BY <1>1, <1>2
<1> QED BY <1>4, <1>5

LEMMA ConcatSeq ==
  ASSUME NEW s, IsSeq(s), NEW t, IsSeq(t)
  PROVE  /\ IsSeq(s \o t) /\ Len(s \o t) = Len(s) + Len(t)
         /\ Len(s) \in Nat /\ Len(t) \in Nat
         /\ \A i \in 1..Len(s) : (s \o t)[i] = s[i]
         /\ \A i \in 1..Len(t) : (s \o t)[Len(s) + i] = t[i]
<1> DEFINE S == {s[i] : i \in 1..Len(s)} \cup {t[i] : i \in 1..Len(t)}
<1>1. s \in Seq(S) /\ t \in Seq(S)
  <2>1. /\ Len(s) \in Nat /\ s = [i \in 1..Len(s) |-> s[i]]
        /\ Len(t) \in Nat /\ t = [i \in 1..Len(t) |-> t[i]]
    BY DEF IsSeq
  <2>2. s \in [1..Len(s) -> S] /\ t \in [1..Len(t) -> S]
    BY <2>1
  <2> QED BY <2>1, <2>2
<1> HIDE DEF S
<1>2. s \o t \in Seq(S)
  BY <1>1
<1>3. IsSeq(s \o t)
  BY <1>2, SeqIsSeq
<1>4. /\ Len(s \o t) = Len(s) + Len(t)
      /\ Len(s) \in Nat /\ Len(t) \in Nat
      /\ \A i \in 1..Len(s) : (s \o t)[i] = s[i]
      /\ \A i \in 1..Len(t) : (s \o t)[Len(s) + i] = t[i]
  BY <1>1
<1> QED BY <1>3, <1>4

LEMMA EmptyIsSeq == IsSeq(<<>>) /\ Len(<<>>) = 0
BY DEF IsSeq

LEMMA OneIsSeq == ASSUME NEW e PROVE IsSeq(<<e>>) /\ Len(<<e>>) = 1 /\ <<e>>[1] = e
<1>1. <<e>> \in Seq({e})
  OBVIOUS
<1> QED BY <1>1, SeqIsSeq

(* The rows of a query in an order: each comes once, and none before one   *)
(* that goes before it.                                                    *)
LEMMA OrderedFacts ==
  ASSUME NEW rows, IsFiniteSet(rows), NEW s \in Ordered(rows)
  PROVE  /\ Len(s) \in Nat /\ s \in [1..Len(s) -> rows] /\ s \in Seq(rows)
         /\ \A i, j \in 1..Len(s) : i # j => s[i] # s[j]
         /\ \A o \in rows : \E i \in 1..Len(s) : s[i] = o
         /\ \A i, j \in 1..Len(s) : i < j => ~Before(s[j], s[i])
<1> DEFINE n == Cardinality(rows)
<1>1. n \in Nat /\ Cardinality(1..n) = n
  <2>1. n \in Nat
    BY FS_CardinalityType
  <2> QED BY <2>1, FS_Interval
<1>2. /\ s \in [1..n -> rows]
      /\ \A i, j \in 1..n : i # j => s[i] # s[j]
      /\ \A i, j \in 1..Len(s) : i < j => ~Before(s[j], s[i])
  BY DEF Ordered, SetToSeqs
<1>3. Len(s) = n
  BY <1>1, <1>2
<1>4. s \in Injection(1..n, rows)
  BY <1>2 DEF Injection, IsInjective
<1>5. s \in Surjection(1..n, rows)
  BY <1>1, <1>4, FS_Injection
<1>6. \A o \in rows : \E i \in 1..n : s[i] = o
  BY <1>5 DEF Surjection
<1>7. s \in Seq(rows)
  BY <1>1, <1>2
<1> QED BY <1>1, <1>2, <1>3, <1>6, <1>7

(* SetToSeq puts every row in one place. *)
LEMMA SetToSeqFacts ==
  ASSUME NEW rows, IsFiniteSet(rows)
  PROVE  /\ SetToSeq(rows) \in Seq(rows)
         /\ \A o \in rows : \E i \in 1..Len(SetToSeq(rows)) : SetToSeq(rows)[i] = o
<1> DEFINE n == Cardinality(rows)
<1>1. n \in Nat /\ ExistsBijection(1..n, rows)
  BY FS_CardinalityType
<1>2. PICK f \in [1..n -> rows] : IsInjective(f)
  BY <1>1 DEF ExistsBijection, Bijection, Injection
<1>3. SetToSeq(rows) \in [1..n -> rows] /\ IsInjective(SetToSeq(rows))
  BY <1>2 DEF SetToSeq
<1>4. SetToSeq(rows) \in Injection(1..n, rows)
  BY <1>3 DEF Injection
<1>5. Cardinality(1..n) = n
  BY <1>1, FS_Interval
<1>6. SetToSeq(rows) \in Surjection(1..n, rows)
  BY <1>4, <1>5, FS_Injection
<1>7. SetToSeq(rows) \in Seq(rows) /\ Len(SetToSeq(rows)) = n
  BY <1>1, <1>3
<1> QED BY <1>6, <1>7 DEF Surjection

-----------------------------------------------------------------------------
(* What the handlers do. *)

(* The lines ls were made of the objects s, one of each. *)
Shows(ls, s) ==
  IsSeq(ls) /\ Len(ls) = Len(s) /\ \A i \in 1..Len(s) : ls[i].of = {s[i]}

LEMMA MapShows ==
  ASSUME NEW S, NEW s \in Seq(S)
  PROVE  /\ Shows(Map(s, TableLine), s)
         /\ Shows(Map(s, FunctionLine), s)
         /\ Shows(Map(s, TriggerLine), s)
         /\ Shows(Map(s, EventTriggerLine), s)
         /\ Shows(Map(s, SequenceLine), s)
<1>n. Len(s) \in Nat
  OBVIOUS
<1>1. Shows(Map(s, TableLine), s)
  BY <1>n, FunctionIsSeq DEF Map, TableLine, Line, Shows
<1>2. Shows(Map(s, FunctionLine), s)
  BY <1>n, FunctionIsSeq DEF Map, FunctionLine, Line, Shows
<1>3. Shows(Map(s, TriggerLine), s)
  BY <1>n, FunctionIsSeq DEF Map, TriggerLine, Line, Shows
<1>4. Shows(Map(s, EventTriggerLine), s)
  BY <1>n, FunctionIsSeq DEF Map, EventTriggerLine, Line, Shows
<1>5. Shows(Map(s, SequenceLine), s)
  BY <1>n, FunctionIsSeq DEF Map, SequenceLine, Line, Shows
<1> QED BY <1>1, <1>2, <1>3, <1>4, <1>5

(* The rows a query for objects of the kinds K is to select. *)
RowsOf(K) == {o \in catalog : o \in Scope /\ o.is \in K}

LEMMA RowsFinite == ASSUME Types, NEW K PROVE IsFiniteSet(RowsOf(K)) /\ RowsOf(K) \subseteq catalog
<1>1. IsFiniteSet(catalog)
  BY DEF Types, Objective, Legal
<1> QED BY <1>1, FS_Subset DEF RowsOf

LEMMA ScopeIs ==
  /\ call.tool = "list_tables" =>
       Scope = {o \in ever : o.is = "table" /\ o.schema = "home" /\ (MariaDB => o.base)}
  /\ call.tool = "list_functions" =>
       Scope = {o \in ever : o.is = "routine" /\ o.schema = SchemaAsked}
  /\ call.tool = "list_triggers" =>
       Scope = {o \in ever : \/ o.is = "event trigger"
                             \/ /\ o.is = "trigger" /\ ~o.internal /\ o.schema # "system"
                                /\ call.table \in {Absent, o.table}}
  /\ call.tool = "list_sequences" =>
       Scope = {o \in ever : o.is = "sequence"
                               /\ o.schema = IF MariaDB THEN "home" ELSE SchemaAsked}
BY DEF Scope

LEMMA QueriesSelect ==
  ASSUME Types
  PROVE  /\ call.tool = "list_tables" => TableRows = RowsOf({"table"})
         /\ call.tool = "list_functions" => FunctionRows = RowsOf({"routine"})
         /\ call.tool = "list_triggers" => TriggerRows = RowsOf({"trigger"})
         /\ call.tool = "list_triggers" => Of("event trigger") = RowsOf({"event trigger"})
         /\ call.tool = "list_sequences" => SequenceRows = RowsOf({"sequence"})
<1>0. catalog \subseteq ever
  BY DEF Types, Objective
<1>1. CASE call.tool = "list_tables"
  BY <1>0, <1>1, ScopeIs DEF TableRows, Of, RowsOf
<1>2. CASE call.tool = "list_functions"
  BY <1>0, <1>2, ScopeIs DEF FunctionRows, Of, RowsOf
<1>3. CASE call.tool = "list_triggers"
  <2>1. TriggerRows = RowsOf({"trigger"})
    BY <1>0, <1>3, ScopeIs DEF TriggerRows, Of, RowsOf
  <2>2. Of("event trigger") = RowsOf({"event trigger"})
    BY <1>0, <1>3, ScopeIs DEF Of, RowsOf
  <2> QED BY <1>3, <2>1, <2>2
<1>4. CASE call.tool = "list_sequences"
  BY <1>0, <1>4, ScopeIs DEF SequenceRows, Of, RowsOf
<1> QED BY <1>1, <1>2, <1>3, <1>4

(* A MariaDB server has no event triggers. *)
LEMMA NoEventTriggers ==
  ASSUME Types, MariaDB
  PROVE  RowsOf({"trigger"}) = RowsOf({"trigger", "event trigger"})
<1>1. \A o \in catalog : Possible(o)
  BY DEF Types, Objective, Legal
<1>2. \A o \in catalog : o.is # "event trigger"
  BY <1>1 DEF Possible
<1> QED BY <1>2 DEF RowsOf

ListHandler ==
  \/ HandleListTable \/ (~MariaDB /\ HandleListFunctions)
  \/ HandleListTriggers \/ HandleListSequences

(* A query fails: the connection does, or MariaDB refuses the statement.   *)
Failing == Lose \/ (MariaDB /\ HandleListFunctions)

LEMMA FailingStep ==
  ASSUME Failing
  PROVE  /\ status \in {"querying", "events"} /\ lines' = <<>>
         /\ status' = "lost" \/ (status' = "error" /\ MariaDB /\ call.tool = "list_functions")
         /\ UNCHANGED <<dialect, call, objects, todo>>
BY DEF Failing, Lose, HandleListFunctions, Tool, Got

(* A list handler makes one line of each row it is to select; after one,   *)
(* a second query or the SHOW statements may follow.                       *)
LEMMA ListHandlers ==
  ASSUME Types, ListHandler
  PROVE  /\ status = "querying" /\ call.tool \in ListTools
         /\ UNCHANGED <<dialect, call, objects>>
         /\ \E K \in SUBSET {"table", "routine", "trigger", "event trigger", "sequence"} :
            \E s \in Ordered(RowsOf(K)) :
              \/ /\ status' = "ok" /\ K = Kinds(call)
                 /\ UNCHANGED todo /\ Shows(lines', s)
              \/ /\ status' = "events" /\ K = {"trigger"} /\ Postgres
                 /\ call.tool = "list_triggers"
                 /\ UNCHANGED todo /\ Shows(lines', s)
              \/ /\ status' = "showing" /\ K = {"sequence"} /\ MariaDB
                 /\ call.tool = "list_sequences" /\ s # <<>>
                 /\ todo' = s /\ UNCHANGED lines
<1>0. /\ status = "querying" /\ call.tool \in ListTools
      /\ UNCHANGED <<dialect, call, objects>>
  BY DEF ListHandler, HandleListTable, HandleListFunctions, HandleListTriggers,
         HandleListSequences, Tool, ListTools
<1> DEFINE Kind == {"table", "routine", "trigger", "event trigger", "sequence"}
           Ok(K, s) == status' = "ok" /\ K = Kinds(call) /\ UNCHANGED todo /\ Shows(lines', s)
           FirstHalf(K, s) == /\ status' = "events" /\ K = {"trigger"} /\ Postgres
                              /\ call.tool = "list_triggers"
                              /\ UNCHANGED todo /\ Shows(lines', s)
           Showing(K, s) == /\ status' = "showing" /\ K = {"sequence"} /\ MariaDB
                            /\ call.tool = "list_sequences" /\ s # <<>>
                            /\ todo' = s /\ UNCHANGED lines
           Goal == \E K \in SUBSET Kind : \E s \in Ordered(RowsOf(K)) :
                     Ok(K, s) \/ FirstHalf(K, s) \/ Showing(K, s)
<1> SUFFICES Goal
  BY <1>0
<1>g. ASSUME NEW K \in SUBSET Kind, NEW s \in Ordered(RowsOf(K)),
             Ok(K, s) \/ FirstHalf(K, s) \/ Showing(K, s)
      PROVE  Goal
  BY <1>g
<1>k. \A k \in Kind : {k} \in SUBSET Kind
  OBVIOUS
<1> HIDE DEF Goal
<1>s. \A K : \A s \in Ordered(RowsOf(K)) : s \in Seq(RowsOf(K))
  BY RowsFinite, OrderedFacts
<1>1. CASE HandleListTable
  <2>1. call.tool = "list_tables"
    BY <1>1 DEF HandleListTable, Tool
  <2> PICK s \in Ordered(TableRows) : Got("ok", Map(s, TableLine))
    BY <1>1 DEF HandleListTable
  <2>2. s \in Ordered(RowsOf({"table"}))
    BY <2>1, QueriesSelect
  <2>3. Kinds(call) = {"table"}
    BY <2>1 DEF Kinds
  <2>4. Ok({"table"}, s)
    BY <1>s, <2>2, <2>3, MapShows DEF Got
  <2> QED BY <1>g, <2>2, <2>4
<1>2. CASE ~MariaDB /\ HandleListFunctions
  <2>1. call.tool = "list_functions"
    BY <1>2 DEF HandleListFunctions, Tool
  <2> PICK s \in Ordered(FunctionRows) : Got("ok", Map(s, FunctionLine))
    BY <1>2 DEF HandleListFunctions
  <2>2. s \in Ordered(RowsOf({"routine"}))
    BY <2>1, QueriesSelect
  <2>3. Kinds(call) = {"routine"}
    BY <2>1 DEF Kinds
  <2>4. Ok({"routine"}, s)
    BY <1>s, <2>2, <2>3, MapShows DEF Got
  <2> QED BY <1>g, <2>2, <2>4
<1>3. CASE HandleListTriggers
  <2>1. call.tool = "list_triggers"
    BY <1>3 DEF HandleListTriggers, Tool
  <2> PICK s \in Ordered(TriggerRows) :
        Got(IF Postgres THEN "events" ELSE "ok", Map(s, TriggerLine))
    BY <1>3 DEF HandleListTriggers
  <2>2. s \in Ordered(RowsOf({"trigger"}))
    BY <2>1, QueriesSelect
  <2>3. Shows(Map(s, TriggerLine), s)
    BY <1>s, <2>2, MapShows
  <2>4. CASE Postgres
    <3>1. FirstHalf({"trigger"}, s)
      BY <2>1, <2>3, <2>4 DEF Got
    <3> QED BY <1>g, <2>2, <3>1
  <2>5. CASE ~Postgres
    <3>1. MariaDB
      BY <2>5 DEF Types, Objective, Postgres, MariaDB
    <3>2. Kinds(call) = {"trigger", "event trigger"}
      BY <2>1 DEF Kinds
    <3>3. Ok({"trigger", "event trigger"}, s)
      BY <2>3, <2>5, <3>2 DEF Got
    <3>4. s \in Ordered(RowsOf({"trigger", "event trigger"}))
      BY <2>2, <3>1, NoEventTriggers
    <3> QED BY <1>g, <3>3, <3>4
  <2> QED BY <2>4, <2>5
<1>4. CASE HandleListSequences
  <2>1. call.tool = "list_sequences"
    BY <1>4 DEF HandleListSequences, Tool
  <2> PICK s \in Ordered(SequenceRows) :
        IF Postgres \/ s = <<>> THEN Got("ok", Map(s, SequenceLine))
        ELSE status' = "showing" /\ todo' = s /\ UNCHANGED lines
    BY <1>4 DEF HandleListSequences
  <2>2. s \in Ordered(RowsOf({"sequence"}))
    BY <2>1, QueriesSelect
  <2>3. CASE Postgres \/ s = <<>>
    <3>1. Kinds(call) = {"sequence"}
      BY <2>1 DEF Kinds
    <3>2. Ok({"sequence"}, s)
      BY <1>s, <2>2, <2>3, <3>1, MapShows DEF Got
    <3> QED BY <1>g, <2>2, <3>2
  <2>4. CASE ~(Postgres \/ s = <<>>)
    <3>1. MariaDB
      BY <2>4 DEF Types, Objective, Postgres, MariaDB
    <3>2. Showing({"sequence"}, s)
      BY <2>1, <2>4, <3>1
    <3> QED BY <1>g, <2>2, <3>2
  <2> QED BY <2>3, <2>4
<1> QED BY <1>1, <1>2, <1>3, <1>4 DEF ListHandler

DescHandler == HandleDescTable \/ HandleDescFunction \/ HandleDescTrigger

LEMMA RowsOfCatalog ==
  ASSUME Types
  PROVE  /\ IsFiniteSet(catalog)
         /\ \A S : S \subseteq catalog => IsFiniteSet(S)
<1>1. IsFiniteSet(catalog)
  BY DEF Types, Objective, Legal
<1> QED BY <1>1, FS_Subset

(* The choices offered for a routine are lines of the routines found. *)
LEMMA ChoicesFacts ==
  ASSUME Types, NEW rows \in SUBSET catalog
  PROVE  /\ Shows(Map(SetToSeq(rows), LAMBDA f : Line({f}, f.args)), SetToSeq(rows))
         /\ SetToSeq(rows) \in Seq(rows)
         /\ \A o \in rows : \E i \in 1..Len(SetToSeq(rows)) : SetToSeq(rows)[i] = o
<1>1. /\ SetToSeq(rows) \in Seq(rows)
      /\ \A o \in rows : \E i \in 1..Len(SetToSeq(rows)) : SetToSeq(rows)[i] = o
  BY RowsOfCatalog, SetToSeqFacts
<1>2. Len(SetToSeq(rows)) \in Nat
  BY <1>1
<1>3. Shows(Map(SetToSeq(rows), LAMBDA f : Line({f}, f.args)), SetToSeq(rows))
  BY <1>2, FunctionIsSeq DEF Map, Line, Shows
<1> QED BY <1>1, <1>3

(* A desc handler answers at once, with lines made of what is there.       *)
LEMMA DescHandlers ==
  ASSUME Types, DescHandler
  PROVE  /\ status = "querying" /\ call.tool \in DescTools
         /\ UNCHANGED <<dialect, call, objects, todo>>
         /\ status' \in {"ok", "choices", "no overload", "not found", "error"}
         /\ Made(lines', catalog)
<1>0. /\ status = "querying" /\ call.tool \in DescTools
      /\ UNCHANGED <<dialect, call, objects>>
  BY DEF DescHandler, HandleDescTable, HandleDescFunction, HandleDescTrigger, Tool, DescTools
<1>1. ASSUME NEW S \in SUBSET catalog, NEW x, lines' = <<Line(S, x)>>
      PROVE  Made(lines', catalog)
  <2>1. IsSeq(lines') /\ Len(lines') = 1 /\ lines'[1] = Line(S, x)
    BY <1>1, OneIsSeq
  <2>2. Line(S, x).of = S
    BY DEF Line
  <2> QED BY <2>1, <2>2 DEF Made
<1>2. ASSUME lines' = <<>>
      PROVE  Made(lines', catalog)
  BY <1>2, EmptyIsSeq DEF Made
<1>3. ASSUME NEW s, NEW rows \in SUBSET catalog, s \in Seq(rows), Shows(lines', s)
      PROVE  Made(lines', catalog)
  BY <1>3 DEF Shows, Made
<1> DEFINE Goal == /\ UNCHANGED todo
                   /\ status' \in {"ok", "choices", "no overload", "not found", "error"}
                   /\ Made(lines', catalog)
<1> SUFFICES Goal
  BY <1>0
<1>4. CASE HandleDescTable
  <2> DEFINE same == {t \in Of("table") :
                        t.name = call.table /\ (MariaDB => t.schema = "home")}
  <2>1. IF same = {} THEN Got("not found", <<>>) ELSE Got("ok", <<DescTableLine(same)>>)
    BY <1>4 DEF HandleDescTable
  <2>2. same \in SUBSET catalog
    BY DEF Of
  <2>3. \E x : DescTableLine(same) = Line(same, x)
    BY DEF DescTableLine
  <2> HIDE DEF same
  <2> QED BY <1>1, <1>2, <2>1, <2>2, <2>3 DEF Got
<1>5. CASE HandleDescFunction
  <2> DEFINE rows    == {f \in FunctionRows : f.name = call.name}
             matched == {f \in rows : call.args \in {Absent, f.args}}
             choices == Map(SetToSeq(rows), LAMBDA f : Line({f}, f.args))
  <2>1. /\ call.tool = "desc_function"
        /\ \/ Got("error", <<>>) \/ Got("not found", <<>>)
           \/ Got("no overload", choices) \/ Got("choices", choices)
           \/ \E f \in matched : Got("ok", <<Line({f}, f)>>)
    BY <1>5 DEF HandleDescFunction, Tool
  <2>2. rows \in SUBSET catalog /\ \A f \in matched : {f} \in SUBSET catalog
    BY DEF FunctionRows, Of
  <2>3. Shows(choices, SetToSeq(rows)) /\ SetToSeq(rows) \in Seq(rows)
    BY <2>2, ChoicesFacts
  <2> HIDE DEF rows, matched, choices
  <2>4. CASE Got("error", <<>>) \/ Got("not found", <<>>)
    BY <1>2, <2>1, <2>4 DEF Got
  <2>5. CASE Got("no overload", choices) \/ Got("choices", choices)
    BY <1>3, <2>2, <2>3, <2>5 DEF Got
  <2>6. CASE \E f \in matched : Got("ok", <<Line({f}, f)>>)
    BY <1>1, <2>2, <2>6 DEF Got
  <2> QED BY <2>1, <2>4, <2>5, <2>6
<1>6. CASE HandleDescTrigger
  <2>1. \/ Got("not found", <<>>) \/ Got("error", <<>>)
        \/ \E t \in Of("trigger") : \E x : Got("ok", <<Line({t}, x)>>)
    BY <1>6 DEF HandleDescTrigger
  <2>2. \A t \in Of("trigger") : {t} \in SUBSET catalog
    BY DEF Of
  <2> QED BY <1>1, <1>2, <2>1, <2>2 DEF Got
<1> QED BY <1>4, <1>5, <1>6 DEF DescHandler

-----------------------------------------------------------------------------
(* Types. *)

LEMMA IsSequence ==
  ASSUME NEW o \in Objects, o.is = "sequence"
  PROVE  o \in Sequence
BY CatalogAssumption DEF Object, Table, Routine, Trigger, EventTrigger

LEMMA ACall == (CHOOSE c \in Calls : TRUE) \in Calls
BY CatalogAssumption


LEMMA MadeEmpty == ASSUME NEW S PROVE Made(<<>>, S)
BY EmptyIsSeq DEF Made

LEMMA MadeShows ==
  ASSUME NEW S, NEW s \in Seq(S), NEW ls, Shows(ls, s)
  PROVE  Made(ls, S)
BY DEF Shows, Made

LEMMA MadeWider == ASSUME NEW ls, NEW S, NEW T, S \subseteq T, Made(ls, S) PROVE Made(ls, T)
BY DEF Made

LEMMA MadeAppend ==
  ASSUME NEW ls, NEW S, Made(ls, S), NEW l, l.of \subseteq S
  PROVE  Made(Append(ls, l), S)
<1> DEFINE n == Append(ls, l)
<1>1. /\ IsSeq(n) /\ Len(n) = Len(ls) + 1 /\ Len(ls) \in Nat
      /\ \A i \in 1..Len(ls) : n[i] = ls[i]
      /\ n[Len(ls) + 1] = l
  BY AppendSeq DEF Made
<1> HIDE DEF n
<1>2. \A i \in 1..Len(n) : i \in 1..Len(ls) \/ i = Len(ls) + 1
  BY <1>1
<1>3. Made(n, S)
  BY <1>1, <1>2 DEF Made
<1> QED BY <1>3 DEF n

LEMMA MadeConcat ==
  ASSUME NEW ls, NEW S, Made(ls, S), NEW ms, Made(ms, S)
  PROVE  Made(ls \o ms, S)
<1> DEFINE n == ls \o ms
<1>1. /\ IsSeq(n) /\ Len(n) = Len(ls) + Len(ms)
      /\ Len(ls) \in Nat /\ Len(ms) \in Nat
      /\ \A i \in 1..Len(ls) : n[i] = ls[i]
      /\ \A i \in 1..Len(ms) : n[Len(ls) + i] = ms[i]
  BY ConcatSeq DEF Made
<1> HIDE DEF n
<1>2. \A i \in 1..Len(n) :
        i \in 1..Len(ls) \/ \E j \in 1..Len(ms) : i = Len(ls) + j
  <2> TAKE i \in 1..Len(n)
  <2>1. CASE i > Len(ls)
    <3>1. i - Len(ls) \in 1..Len(ms) /\ i = Len(ls) + (i - Len(ls))
      BY <1>1, <2>1
    <3> QED BY <3>1
  <2> QED BY <1>1, <2>1
<1>3. Made(n, S)
  BY <1>1, <1>2 DEF Made
<1> QED BY <1>3 DEF n

LEMMA TailSeq ==
  ASSUME NEW S, NEW s \in Seq(S), s # <<>>
  PROVE  /\ Tail(s) \in Seq(S) /\ Head(s) \in S /\ Head(s) = s[1]
         /\ Len(s) \in Nat /\ Len(s) >= 1 /\ Len(Tail(s)) = Len(s) - 1
         /\ \A i \in 1..Len(Tail(s)) : Tail(s)[i] = s[i + 1]
OBVIOUS

LEMMA WiderSeq == ASSUME NEW S, NEW T, S \subseteq T, NEW s \in Seq(S) PROVE s \in Seq(T)
<1>1. Len(s) \in Nat /\ s \in [1..Len(s) -> T]
  OBVIOUS
<1> QED BY <1>1

(***************************************************************************)
(* Objective: what there is in the database and was during the call.       *)
(***************************************************************************)
LEMMA LegalKept ==
  ASSUME UNCHANGED dialect, Legal(catalog') PROVE Legal(catalog)'
BY DEF Legal, Possible, Identity, MariaDB, Postgres

LEMMA ObjectiveSame ==
  ASSUME Objective, UNCHANGED <<dialect, call, objects>>
  PROVE  Objective'
<1>1. UNCHANGED <<dialect, call, catalog, stable, ever, changes>>
  BY DEF objects
<1>2. Legal(catalog)'
  BY <1>1, LegalKept DEF Objective
<1> QED BY <1>1, <1>2 DEF Objective

LEMMA Changes ==
  ASSUME Objective, NEW o \in Objects, Create(o) \/ Drop(o)
  PROVE  /\ catalog' \subseteq Objects /\ Legal(catalog') /\ status \in Busy
         /\ stable' = stable \cap catalog' /\ ever' = ever \cup catalog'
         /\ changes < MaxChanges /\ changes' = changes + 1
         /\ UNCHANGED <<dialect, call, status, todo, lines>>
BY DEF Create, Drop, Change, Objective

LEMMA ObjectiveChanges ==
  ASSUME Objective, NEW o \in Objects, Create(o) \/ Drop(o)
  PROVE  Objective'
<1>1. Legal(catalog)'
  BY Changes, LegalKept
<1>2. changes' \in 0..MaxChanges
  <2>1. changes \in Nat /\ MaxChanges \in Nat
    BY CatalogAssumption DEF Objective
  <2> QED BY <2>1, Changes
<1>3. stable' \subseteq catalog' /\ catalog' \subseteq ever' /\ ever' \subseteq Objects
  BY Changes DEF Objective
<1> QED BY <1>1, <1>2, <1>3, Changes DEF Objective

LEMMA ObjectiveAsk == ASSUME Objective, NEW c \in Calls, Ask(c) PROVE Objective'
<1>1. /\ catalog' \subseteq Objects /\ Legal(catalog')
      /\ stable' = catalog' /\ ever' = catalog' /\ call' = c
      /\ UNCHANGED <<dialect, changes>>
  BY DEF Ask, Holdings, kSubset
<1>2. Legal(catalog)'
  BY <1>1, LegalKept
<1> QED BY <1>1, <1>2 DEF Objective

LEMMA ObjectiveReturn == ASSUME Objective, Return PROVE Objective'
<1>1. /\ catalog' = {} /\ stable' = {} /\ ever' = {} /\ changes' = 0
      /\ call' \in Calls /\ UNCHANGED dialect
  BY ACall DEF Return
<1>2. Legal(catalog)' /\ 0 \in 0..MaxChanges
  BY <1>1, FS_EmptySet, CatalogAssumption DEF Legal
<1> QED BY <1>1, <1>2 DEF Objective

(***************************************************************************)
(* Answering: the status, the lines and the sequences to come agree.       *)
(***************************************************************************)
LEMMA AnsweringFrom ==
  ASSUME UNCHANGED dialect,
         status' \in Busy \cup {"idle"} \cup Finished,
         Made(lines', ever'),
         status' \in {"idle", "querying"} => lines' = <<>>,
         todo' \in Seq(Sequence \cap ever'),
         todo' # <<>> <=> status' = "showing",
         status' = "showing" => MariaDB /\ call'.tool = "list_sequences",
         status' = "events" => Postgres /\ call'.tool = "list_triggers"
  PROVE  Answering'
BY DEF Answering, MariaDB, Postgres, Made, IsSeq, Busy, Finished

LEMMA NothingTodo ==
  ASSUME Types, status # "showing"
  PROVE  todo = <<>> /\ todo \in Seq(Sequence \cap ever')
<1>1. todo = <<>>
  BY DEF Types, Answering
<1> QED BY <1>1

LEMMA AnsweringAsk == ASSUME Types, NEW c \in Calls, Ask(c) PROVE Answering'
<1>1. /\ status = "idle" /\ status' = "querying" /\ UNCHANGED <<dialect, todo, lines>>
  BY DEF Ask
<1>2. lines' = <<>>
  BY <1>1 DEF Types, Answering
<1>3. todo' = <<>> /\ todo' \in Seq(Sequence \cap ever')
  BY <1>1, NothingTodo
<1>4. Made(lines', ever')
  BY <1>2, MadeEmpty
<1> QED BY <1>1, <1>2, <1>3, <1>4, AnsweringFrom DEF Busy

LEMMA AnsweringListHandler == ASSUME Types, ListHandler PROVE Answering'
<1>0. /\ status = "querying" /\ UNCHANGED <<dialect, call, objects>>
      /\ UNCHANGED ever
  BY ListHandlers DEF objects
<1>1. todo = <<>> /\ todo \in Seq(Sequence \cap ever') /\ lines = <<>>
  BY <1>0, NothingTodo DEF Types, Answering
<1>2. PICK K, s :
        /\ s \in Ordered(RowsOf(K))
        /\ \/ status' = "ok" /\ UNCHANGED todo /\ Shows(lines', s)
           \/ /\ status' = "events" /\ K = {"trigger"} /\ Postgres
              /\ call.tool = "list_triggers"
              /\ UNCHANGED todo /\ Shows(lines', s)
           \/ /\ status' = "showing" /\ K = {"sequence"} /\ MariaDB
              /\ call.tool = "list_sequences" /\ s # <<>>
              /\ todo' = s /\ UNCHANGED lines
  BY ListHandlers
<1>3. s \in Seq(RowsOf(K)) /\ RowsOf(K) \subseteq catalog
  BY <1>2, RowsFinite, OrderedFacts
<1>4. catalog \subseteq ever /\ ever \subseteq Objects
  BY DEF Types, Objective
<1>5. CASE /\ \/ status' = "ok"
              \/ status' = "events" /\ Postgres /\ call.tool = "list_triggers"
           /\ UNCHANGED todo /\ Shows(lines', s)
  <2>1. Made(lines', ever')
    BY <1>0, <1>3, <1>4, <1>5, MadeShows, MadeWider
  <2>2. /\ todo' = <<>> /\ todo' \in Seq(Sequence \cap ever')
        /\ status' \in Busy \cup {"idle"} \cup Finished
    BY <1>1, <1>5 DEF Busy, Finished
  <2> QED BY <1>0, <1>5, <2>1, <2>2, AnsweringFrom
<1>6. CASE /\ status' = "showing" /\ K = {"sequence"} /\ MariaDB
           /\ call.tool = "list_sequences" /\ s # <<>>
           /\ todo' = s /\ UNCHANGED lines
  <2>1. RowsOf(K) \subseteq Sequence \cap ever'
    BY <1>0, <1>3, <1>4, <1>6, IsSequence DEF RowsOf
  <2>2. todo' \in Seq(Sequence \cap ever')
    BY <1>3, <1>6, <2>1, WiderSeq
  <2>3. Made(lines', ever')
    BY <1>1, <1>6, MadeEmpty
  <2> QED BY <1>0, <1>6, <2>2, <2>3, AnsweringFrom DEF Busy
<1> QED BY <1>2, <1>5, <1>6

LEMMA AnsweringDescHandler == ASSUME Types, DescHandler PROVE Answering'
<1>0. /\ status = "querying" /\ UNCHANGED <<dialect, call, objects, todo>>
      /\ UNCHANGED ever
      /\ status' \in {"ok", "choices", "no overload", "not found", "error"}
      /\ Made(lines', catalog)
  BY DescHandlers DEF objects
<1>1. todo' = <<>> /\ todo' \in Seq(Sequence \cap ever')
  BY <1>0, NothingTodo
<1>2. Made(lines', ever')
  BY <1>0, MadeWider DEF Types, Objective
<1>3. status' \in Finished /\ status' \notin {"idle", "querying", "events", "showing"}
  BY <1>0 DEF Finished
<1> QED BY <1>0, <1>1, <1>2, <1>3, AnsweringFrom

(* The event triggers come after the triggers. *)
LEMMA EventsStep ==
  ASSUME Types, ListEventTriggers
  PROVE  /\ status = "events" /\ status' = "ok" /\ UNCHANGED <<dialect, call, objects, todo>>
         /\ call.tool = "list_triggers" /\ Kinds(call) = {"trigger", "event trigger"}
         /\ \E s \in Ordered(RowsOf({"event trigger"})) : \E ls :
              Shows(ls, s) /\ lines' = lines \o ls
<1>1. /\ status = "events" /\ UNCHANGED <<dialect, call, objects>>
      /\ \E s \in Ordered(Of("event trigger")) : Got("ok", lines \o Map(s, EventTriggerLine))
  BY DEF ListEventTriggers
<1>2. call.tool = "list_triggers"
  BY <1>1 DEF Types, Answering
<1>3. Of("event trigger") = RowsOf({"event trigger"})
  BY <1>2, QueriesSelect
<1>4. PICK s \in Ordered(RowsOf({"event trigger"})) :
        Got("ok", lines \o Map(s, EventTriggerLine))
  BY <1>1, <1>3
<1>5. Shows(Map(s, EventTriggerLine), s)
  BY <1>4, RowsFinite, OrderedFacts, MapShows
<1> DEFINE m == Map(s, EventTriggerLine)
<1>6. Shows(m, s) /\ lines' = lines \o m
  BY <1>4, <1>5 DEF Got
<1> HIDE DEF m
<1>7. Kinds(call) = {"trigger", "event trigger"}
  BY <1>2 DEF Kinds
<1>8. status' = "ok" /\ UNCHANGED todo
  BY <1>4 DEF Got
<1> QED BY <1>1, <1>2, <1>6, <1>7, <1>8

LEMMA AnsweringEvents == ASSUME Types, ListEventTriggers PROVE Answering'
<1>0. /\ status = "events" /\ status' = "ok" /\ UNCHANGED <<dialect, call, objects, todo>>
      /\ UNCHANGED ever
  BY EventsStep DEF objects
<1>1. PICK s, ls : s \in Ordered(RowsOf({"event trigger"})) /\ Shows(ls, s)
                   /\ lines' = lines \o ls
  BY EventsStep
<1>2. s \in Seq(RowsOf({"event trigger"})) /\ RowsOf({"event trigger"}) \subseteq catalog
  BY <1>1, RowsFinite, OrderedFacts
<1>3. Made(ls, ever) /\ Made(lines, ever)
  BY <1>1, <1>2, MadeShows, MadeWider DEF Types, Objective, Answering
<1>4. Made(lines', ever')
  BY <1>0, <1>1, <1>3, MadeConcat
<1>5. todo' = <<>> /\ todo' \in Seq(Sequence \cap ever')
  BY <1>0, NothingTodo
<1> QED BY <1>0, <1>4, <1>5, AnsweringFrom DEF Finished

(* The first of the sequences to come becomes a line. *)
LEMMA ShowingStep ==
  ASSUME Types, ShowSequence
  PROVE  /\ status = "showing" /\ MariaDB /\ call.tool = "list_sequences"
         /\ UNCHANGED <<dialect, call, objects>>
         /\ todo \in Seq(Sequence \cap ever) /\ todo # <<>> /\ todo' = Tail(todo)
         /\ status' = IF todo' = <<>> THEN "ok" ELSE "showing"
         /\ \E l : l.of = {Head(todo)} /\ lines' = Append(lines, l)
<1>1. /\ status = "showing" /\ UNCHANGED <<dialect, call, objects>>
      /\ todo' = Tail(todo)
      /\ status' = IF todo' = <<>> THEN "ok" ELSE "showing"
      /\ \/ lines' = Append(lines, SequenceLine(Head(todo)))
         \/ lines' = Append(lines, BareLine(Head(todo)))
  BY DEF ShowSequence
<1>2. /\ MariaDB /\ call.tool = "list_sequences"
      /\ todo \in Seq(Sequence \cap ever) /\ todo # <<>>
  BY <1>1 DEF Types, Answering
<1>3. SequenceLine(Head(todo)).of = {Head(todo)} /\ BareLine(Head(todo)).of = {Head(todo)}
  BY DEF SequenceLine, BareLine, Line
<1> QED BY <1>1, <1>2, <1>3

LEMMA AnsweringShow == ASSUME Types, ShowSequence PROVE Answering'
<1>0. /\ status = "showing" /\ MariaDB /\ call.tool = "list_sequences"
      /\ UNCHANGED <<dialect, call, objects>> /\ UNCHANGED ever
      /\ todo \in Seq(Sequence \cap ever) /\ todo # <<>> /\ todo' = Tail(todo)
      /\ status' = IF todo' = <<>> THEN "ok" ELSE "showing"
  BY ShowingStep DEF objects
<1>1. PICK l : l.of = {Head(todo)} /\ lines' = Append(lines, l)
  BY ShowingStep
<1>2. todo' \in Seq(Sequence \cap ever') /\ Head(todo) \in ever
  BY <1>0, TailSeq
<1>3. Made(lines', ever')
  <2>1. Made(lines, ever)
    BY DEF Types, Answering
  <2>2. Made(Append(lines, l), ever)
    BY <1>1, <1>2, <2>1, MadeAppend
  <2> QED BY <1>0, <1>1, <2>2
<1>4. /\ todo' # <<>> <=> status' = "showing"
      /\ status' \in {"ok", "showing"}
  BY <1>0
<1> QED BY <1>0, <1>2, <1>3, <1>4, AnsweringFrom DEF Busy, Finished

LEMMA AnsweringFailing == ASSUME Types, Failing PROVE Answering'
<1>0. /\ status \in {"querying", "events"} /\ status' \in {"lost", "error"} /\ lines' = <<>>
      /\ UNCHANGED <<dialect, call, objects, todo>>
  BY FailingStep
<1>1. todo' = <<>> /\ todo' \in Seq(Sequence \cap ever') /\ Made(lines', ever')
  BY <1>0, NothingTodo, MadeEmpty
<1> QED BY <1>0, <1>1, AnsweringFrom DEF Finished

LEMMA AnsweringReturn == ASSUME Types, Return PROVE Answering'
<1>0. /\ status \notin Busy \cup {"idle"} /\ status' = "idle" /\ lines' = <<>>
      /\ UNCHANGED <<dialect, todo>>
  BY DEF Return
<1>1. todo' = <<>> /\ todo' \in Seq(Sequence \cap ever') /\ Made(lines', ever')
  BY <1>0, NothingTodo, MadeEmpty DEF Busy
<1> QED BY <1>0, <1>1, AnsweringFrom

LEMMA AnsweringChange ==
  ASSUME Types, NEW o \in Objects, Create(o) \/ Drop(o) PROVE Answering'
<1>0. /\ ever \subseteq ever' /\ UNCHANGED <<dialect, call, status, todo, lines>>
  BY Changes DEF Types
<1>1. Sequence \cap ever \subseteq Sequence \cap ever' /\ todo \in Seq(Sequence \cap ever)
  BY <1>0 DEF Types, Answering
<1>2. todo' \in Seq(Sequence \cap ever')
  BY <1>0, <1>1, WiderSeq
<1>3. Made(lines, ever')
  BY <1>0, MadeWider DEF Types, Answering
<1>4. Made(lines', ever')
  BY <1>0, <1>3
<1> QED BY <1>0, <1>2, <1>4, AnsweringFrom DEF Types, Answering

(***************************************************************************)
(* The two together, at the start and along every step.                    *)
(***************************************************************************)
LEMMA TypesInit == ASSUME Init PROVE Types
<1>1. Objective
  <2>1. Legal({})
    BY FS_EmptySet DEF Legal
  <2> QED BY <2>1, ACall, CatalogAssumption DEF Init, Objective
<1>2. Answering
  BY MadeEmpty DEF Init, Answering
<1> QED BY <1>1, <1>2 DEF Types

LEMMA Steps ==
  ASSUME [Next]_vars
  PROVE  \/ \E c \in Calls : Ask(c)
         \/ ListHandler \/ DescHandler \/ ListEventTriggers \/ ShowSequence
         \/ Failing \/ Return
         \/ \E o \in Objects : Create(o) \/ Drop(o)
         \/ UNCHANGED vars
BY DEF Next, ListHandler, DescHandler, Failing

LEMMA TypesNext == ASSUME Types, [Next]_vars PROVE Types'
<1>0. Objective
  BY DEF Types
<1>1. ASSUME NEW c \in Calls, Ask(c) PROVE Types'
  BY <1>0, <1>1, ObjectiveAsk, AnsweringAsk DEF Types
<1>2. CASE ListHandler
  <2>1. UNCHANGED <<dialect, call, objects>>
    BY <1>2, ListHandlers
  <2> QED BY <1>0, <1>2, <2>1, ObjectiveSame, AnsweringListHandler DEF Types
<1>3. CASE DescHandler
  <2>1. UNCHANGED <<dialect, call, objects>>
    BY <1>3, DescHandlers
  <2> QED BY <1>0, <1>3, <2>1, ObjectiveSame, AnsweringDescHandler DEF Types
<1>4. CASE ListEventTriggers
  <2>1. UNCHANGED <<dialect, call, objects>>
    BY <1>4 DEF ListEventTriggers
  <2> QED BY <1>0, <1>4, <2>1, ObjectiveSame, AnsweringEvents DEF Types
<1>5. CASE ShowSequence
  <2>1. UNCHANGED <<dialect, call, objects>>
    BY <1>5 DEF ShowSequence
  <2> QED BY <1>0, <1>5, <2>1, ObjectiveSame, AnsweringShow DEF Types
<1>6. CASE Failing
  <2>1. UNCHANGED <<dialect, call, objects>>
    BY <1>6, FailingStep
  <2> QED BY <1>0, <1>6, <2>1, ObjectiveSame, AnsweringFailing DEF Types
<1>7. CASE Return
  BY <1>0, <1>7, ObjectiveReturn, AnsweringReturn DEF Types
<1>8. ASSUME NEW o \in Objects, Create(o) \/ Drop(o) PROVE Types'
  BY <1>0, <1>8, ObjectiveChanges, AnsweringChange DEF Types
<1>9. CASE UNCHANGED vars
  <2>1. UNCHANGED <<dialect, call, status, todo, lines, objects, ever>>
    BY <1>9 DEF vars, objects
  <2>2. Objective'
    BY <1>0, <2>1, ObjectiveSame
  <2>3. Answering'
    <3>1. /\ status \in Busy \cup {"idle"} \cup Finished
          /\ Made(lines, ever)
          /\ status \in {"idle", "querying"} => lines = <<>>
          /\ todo \in Seq(Sequence \cap ever)
          /\ todo # <<>> <=> status = "showing"
          /\ status = "showing" => MariaDB /\ call.tool = "list_sequences"
          /\ status = "events" => Postgres /\ call.tool = "list_triggers"
      BY DEF Types, Answering
    <3> QED BY <2>1, <3>1, AnsweringFrom
  <2> QED BY <2>2, <2>3 DEF Types
<1> QED BY <1>1, <1>2, <1>3, <1>4, <1>5, <1>6, <1>7, <1>8, <1>9, Steps

LEMMA TypesGiveTypeOK == ASSUME Types PROVE TypeOK
<1>1. \A i \in 1..Len(todo) : todo[i] \in Sequence
  BY DEF Types, Answering
<1> QED BY <1>1 DEF Types, Objective, Answering, TypeOK, Made, Finished

(* The objects known of a call, its status, its answer and what there is   *)
(* left to show always agree in type: the SHOW statements follow only on   *)
(* MariaDB, the event triggers only on Postgres, and a line is made of     *)
(* objects there were during the call.                                     *)
THEOREM TypeCorrect == Spec => []TypeOK
<1>1. Spec => []Types
  BY TypesInit, TypesNext, PTL DEF Spec
<1>2. Types => TypeOK
  BY TypesGiveTypeOK
<1> QED BY <1>1, <1>2, PTL

-----------------------------------------------------------------------------
(* Errors. *)

LEMMA NamedSame ==
  ASSUME UNCHANGED <<dialect, call>>, NEW CONSTANT o
  PROVE  /\ \A t : NamedIn(o, t)' <=> NamedIn(o, t)
         /\ Named(o)' <=> Named(o)
         /\ TableTaken' = TableTaken
BY DEF Named, NamedIn, SchemaAsked, TableTaken, Postgres

(* Only a handler, or one of the queries that follow it, ends a call. *)
LEMMA Ends ==
  ASSUME Types, [Next]_vars, status' \notin Busy \cup {"idle"}
  PROVE  \/ ListHandler \/ DescHandler \/ ListEventTriggers \/ ShowSequence
         \/ Failing \/ UNCHANGED vars
<1>1. ASSUME NEW c \in Calls, Ask(c) PROVE FALSE
  BY <1>1 DEF Ask, Busy
<1>2. ASSUME Return PROVE FALSE
  BY <1>2 DEF Return
<1>3. ASSUME NEW o \in Objects, Create(o) \/ Drop(o) PROVE FALSE
  BY <1>3, Changes DEF Types
<1> QED BY <1>1, <1>2, <1>3, Steps

(* The causes of an error, for a call in progress. *)
Refused ==
  \/ MariaDB /\ call.tool \in {"list_functions", "desc_function"}
  \/ MariaDB /\ call.tool = "desc_trigger"
       /\ \A o \in stable : ~(o.is = "trigger" /\ o.schema = "home" /\ o.name = call.name)
  \/ call.tool = "desc_function" /\ \E o \in ever : Named(o) /\ o.kind = "a"

LEMMA RefusedKept ==
  ASSUME UNCHANGED <<dialect, call>>, UNCHANGED <<stable, ever>>, Refused
  PROVE  Refused'
<1>1. /\ MariaDB' <=> MariaDB
      /\ \A o \in ever : Named(o)' <=> Named(o)
  BY NamedSame DEF MariaDB
<1> QED BY <1>1 DEF Refused

LEMMA FunctionRefused ==
  ASSUME Types, HandleDescFunction, status' = "error"
  PROVE  Refused
<1> DEFINE rows    == {f \in FunctionRows : f.name = call.name}
           matched == {f \in rows : call.args \in {Absent, f.args}}
           choices == Map(SetToSeq(rows), LAMBDA f : Line({f}, f.args))
<1>1. call.tool = "desc_function"
  BY DEF HandleDescFunction, Tool
<1>2. IF MariaDB \/ \E f \in rows : f.kind = "a" THEN Got("error", <<>>)
      ELSE \/ Got("not found", <<>>)
           \/ Got("no overload", choices) \/ Got("choices", choices)
           \/ \E f \in matched : Got("ok", <<Line({f}, f)>>)
  BY DEF HandleDescFunction
<1>3. \A f \in rows : f \in ever /\ Named(f)
  BY <1>1 DEF FunctionRows, Of, Named, NamedIn, Types, Objective
<1> HIDE DEF rows, matched, choices
<1>4. MariaDB \/ \E f \in rows : f.kind = "a"
  BY <1>2 DEF Got
<1> QED BY <1>1, <1>3, <1>4 DEF Refused

LEMMA TriggerRefused ==
  ASSUME Types, HandleDescTrigger, status' = "error"
  PROVE  Refused
<1> DEFINE rows == {t \in Of("trigger") :
                      /\ t.name = call.name /\ t.schema = "home"
                      /\ Postgres => t.table = ToRegclass(call.table)}
<1>1. /\ call.tool = "desc_trigger"
      /\ IF rows = {} THEN Got(IF Postgres THEN "not found" ELSE "error", <<>>)
         ELSE \E t \in rows :
                Got("ok", <<Line({t}, IF Postgres \/ t.long THEN t ELSE "sql_mode")>>)
  BY DEF HandleDescTrigger, Tool
<1>2. \A o \in stable : o.is = "trigger" /\ o.schema = "home" /\ o.name = call.name
        => Postgres \/ o \in rows
  BY DEF Of, Types, Objective
<1> HIDE DEF rows
<1>3. rows = {} /\ ~Postgres
  BY <1>1 DEF Got
<1>4. MariaDB
  BY <1>3 DEF Types, Objective, Postgres, MariaDB
<1> QED BY <1>1, <1>2, <1>3, <1>4 DEF Refused

LEMMA ErrorHere ==
  ASSUME Types, DescHandler, status' = "error"
  PROVE  Refused
<1>1. ~HandleDescTable
  BY DEF HandleDescTable, Got
<1> QED BY <1>1, FunctionRefused, TriggerRefused DEF DescHandler

LEMMA ErrorsNext == ASSUME Types, ErrorsHaveCauses, [Next]_vars PROVE ErrorsHaveCauses'
<1> SUFFICES ASSUME status' = "error"
             PROVE  Refused'
  BY DEF ErrorsHaveCauses, Refused
<1>0. status' \notin Busy \cup {"idle"}
  BY DEF Busy
<1>1. CASE DescHandler
  <2>1. UNCHANGED <<dialect, call>> /\ UNCHANGED <<stable, ever>>
    BY <1>1, DescHandlers DEF objects
  <2> QED BY <1>1, <2>1, ErrorHere, RefusedKept
<1>2. CASE UNCHANGED vars
  <2>1. /\ UNCHANGED <<dialect, call>> /\ UNCHANGED <<stable, ever>>
        /\ status = "error"
    BY <1>2 DEF vars, objects
  <2> QED BY <2>1, RefusedKept DEF Refused, ErrorsHaveCauses
<1>3. ~ListHandler
  BY ListHandlers
<1>4. ~ListEventTriggers
  BY EventsStep
<1>5. ~ShowSequence
  BY ShowingStep
<1>6. CASE Failing
  <2>1. UNCHANGED <<dialect, call>> /\ UNCHANGED <<stable, ever>>
    BY <1>6, FailingStep DEF objects
  <2>2. Refused
    BY <1>6, FailingStep DEF Refused
  <2> QED BY <2>1, <2>2, RefusedKept
<1> QED BY <1>0, <1>1, <1>2, <1>3, <1>4, <1>5, <1>6, Ends

(* Dropping objects in the middle of a call does not fail it, but for the  *)
(* trigger that desc_trigger asks MariaDB for: any other error comes of    *)
(* list_functions or desc_function on MariaDB, or of an aggregate that has *)
(* the name desc_function was asked for.                                   *)
THEOREM NoOtherErrors == Spec => []ErrorsHaveCauses
<1>1. Init => Types /\ ErrorsHaveCauses
  BY TypesInit DEF Init, ErrorsHaveCauses
<1>2. Types /\ ErrorsHaveCauses /\ [Next]_vars => (Types /\ ErrorsHaveCauses)'
  BY TypesNext, ErrorsNext
<1> QED BY <1>1, <1>2, PTL DEF Spec

-----------------------------------------------------------------------------
(* Lists. *)

(* Scope grows with ever, but an object of it stays what it is. *)
LEMMA ScopeKept ==
  ASSUME call.tool \in ListTools, UNCHANGED <<dialect, call>>,
         ever \subseteq ever', NEW CONSTANT o, o \in ever
  PROVE  o \in Scope <=> o \in Scope'
<1>1. CASE call.tool = "list_tables"
  BY <1>1 DEF Scope, MariaDB
<1>2. CASE call.tool = "list_functions"
  BY <1>2 DEF Scope, SchemaAsked
<1>3. CASE call.tool = "list_triggers"
  BY <1>3 DEF Scope
<1>4. CASE call.tool = "list_sequences"
  BY <1>4 DEF Scope, SchemaAsked, MariaDB
<1> QED BY <1>1, <1>2, <1>3, <1>4 DEF ListTools

LEMMA BeforeSame ==
  ASSUME UNCHANGED dialect, NEW CONSTANT o, NEW CONSTANT p
  PROVE  Before(o, p)' <=> Before(o, p)
BY DEF Before, SortKey, Postgres

LEMMA FollowsKept ==
  ASSUME Types, call.tool \in ListTools, UNCHANGED <<dialect, call>>,
         ever \subseteq ever', stable' \subseteq stable,
         NEW CONSTANT K, NEW CONSTANT n \in Nat, NEW CONSTANT q,
         q \in [1..n -> ever], Follows(q, K)
  PROVE  Follows(q, K)'
<1>0. stable \subseteq ever
  BY DEF Types, Objective
<1>1. \A o \in ever : o \in Scope <=> o \in Scope'
  BY ScopeKept
<1>2. \A i \in DOMAIN q : q[i] \in Scope' /\ q[i].is \in K
  BY <1>1 DEF Follows
<1>3. \A o \in stable' \cap Scope' : o.is \in K => \E i \in DOMAIN q : q[i] = o
  BY <1>0, <1>1 DEF Follows
<1>4. \A i, j \in DOMAIN q : i < j /\ q[i].is = q[j].is => ~Before(q[j], q[i])'
  BY BeforeSame DEF Follows
<1>5. \A i, j \in DOMAIN q : i # j => q[i] # q[j]
  BY DEF Follows
<1> QED BY <1>2, <1>3, <1>4, <1>5 DEF Follows

LEMMA ListedFrom ==
  ASSUME NEW CONSTANT K, NEW CONSTANT q,
         q \in [1..(Len(lines') + Len(todo')) -> ever'], Follows(q, K)',
         \A i \in 1..Len(lines') : lines'[i].of = {q[i]},
         \A j \in 1..Len(todo') : todo'[j] = q[Len(lines') + j]
  PROVE  Listed(K)'
BY DEF Listed

LEMMA Lengths ==
  ASSUME Types
  PROVE  IsSeq(lines) /\ Len(lines) \in Nat /\ Len(todo) \in Nat
<1>1. IsSeq(lines) /\ todo \in Seq(Sequence \cap ever)
  BY DEF Types, Answering, Made
<1>2. Len(lines) \in Nat
  BY <1>1 DEF IsSeq
<1> QED BY <1>1, <1>2

(* What was listed stays so when objects come and go. *)
LEMMA ListedKept ==
  ASSUME Types, call.tool \in ListTools, UNCHANGED <<dialect, call, lines, todo>>,
         ever \subseteq ever', stable' \subseteq stable,
         NEW CONSTANT K, Listed(K)
  PROVE  Listed(K)'
<1>1. PICK q \in [1..(Len(lines) + Len(todo)) -> ever] :
        /\ Follows(q, K)
        /\ \A i \in 1..Len(lines) : lines[i].of = {q[i]}
        /\ \A j \in 1..Len(todo) : todo[j] = q[Len(lines) + j]
  BY DEF Listed
<1>2. Len(lines) + Len(todo) \in Nat
  BY Lengths
<1>3. PICK n \in Nat : n = Len(lines) + Len(todo)
  BY <1>2
<1>4. Follows(q, K)'
  BY <1>1, <1>3, FollowsKept
<1>5. q \in [1..(Len(lines') + Len(todo')) -> ever']
  BY <1>1
<1> QED BY <1>1, <1>4, <1>5, ListedFrom

(* The rows of one query, as they come. *)
LEMMA RowsFollow ==
  ASSUME Types, NEW K, NEW s \in Ordered(RowsOf(K))
  PROVE  /\ Len(s) \in Nat /\ s \in [1..Len(s) -> ever] /\ DOMAIN s = 1..Len(s)
         /\ Follows(s, K)
<1>1. /\ Len(s) \in Nat /\ s \in [1..Len(s) -> RowsOf(K)]
      /\ \A i, j \in 1..Len(s) : i # j => s[i] # s[j]
      /\ \A o \in RowsOf(K) : \E i \in 1..Len(s) : s[i] = o
      /\ \A i, j \in 1..Len(s) : i < j => ~Before(s[j], s[i])
  BY RowsFinite, OrderedFacts
<1>2. RowsOf(K) \subseteq ever /\ stable \subseteq catalog
  BY RowsFinite DEF Types, Objective
<1>3. DOMAIN s = 1..Len(s) /\ s \in [1..Len(s) -> ever]
  BY <1>1, <1>2
<1>4. \A i \in DOMAIN s : s[i] \in Scope /\ s[i].is \in K
  BY <1>1 DEF RowsOf
<1>5. \A o \in stable \cap Scope : o.is \in K => \E i \in DOMAIN s : s[i] = o
  BY <1>1, <1>2, <1>3 DEF RowsOf
<1> QED BY <1>1, <1>3, <1>4, <1>5 DEF Follows

LEMMA ListingListHandler == ASSUME Types, ListHandler PROVE Listing'
<1>0. /\ status = "querying" /\ call.tool \in ListTools
      /\ UNCHANGED <<dialect, call>> /\ UNCHANGED ever /\ UNCHANGED stable
  BY ListHandlers DEF objects
<1>1. todo = <<>> /\ lines = <<>>
  BY <1>0, NothingTodo DEF Types, Answering
<1>2. PICK K, s :
        /\ s \in Ordered(RowsOf(K))
        /\ \/ /\ status' = "ok" /\ K = Kinds(call)
              /\ UNCHANGED todo /\ Shows(lines', s)
           \/ /\ status' = "events" /\ K = {"trigger"}
              /\ UNCHANGED todo /\ Shows(lines', s)
           \/ /\ status' = "showing" /\ K = {"sequence"}
              /\ todo' = s /\ UNCHANGED lines
  BY ListHandlers
<1>3. Len(s) \in Nat /\ s \in [1..Len(s) -> ever] /\ Follows(s, K)
  BY <1>2, RowsFollow
<1>4. Follows(s, K)'
  BY <1>0, <1>3, FollowsKept
<1>5. Listed(K)'
  <2>1. CASE UNCHANGED todo /\ Shows(lines', s)
    <3>1. Len(lines') = Len(s) /\ Len(todo') = 0 /\ todo' = <<>>
      BY <1>1, <2>1 DEF Shows
    <3>2. s \in [1..(Len(lines') + Len(todo')) -> ever']
      BY <1>0, <1>3, <3>1
    <3>3. /\ \A i \in 1..Len(lines') : lines'[i].of = {s[i]}
          /\ \A j \in 1..Len(todo') : todo'[j] = s[Len(lines') + j]
      BY <2>1, <3>1 DEF Shows
    <3> QED BY <1>4, <3>2, <3>3, ListedFrom
  <2>2. CASE todo' = s /\ UNCHANGED lines
    <3>1. Len(lines') = 0 /\ lines' = <<>> /\ Len(todo') = Len(s)
      BY <1>1, <2>2
    <3>2. s \in [1..(Len(lines') + Len(todo')) -> ever']
      BY <1>0, <1>3, <3>1
    <3>3. /\ \A i \in 1..Len(lines') : lines'[i].of = {s[i]}
          /\ \A j \in 1..Len(todo') : todo'[j] = s[Len(lines') + j]
      BY <1>3, <2>2, <3>1
    <3> QED BY <1>4, <3>2, <3>3, ListedFrom
  <2> QED BY <1>2, <2>1, <2>2
<1>6. Kinds(call)' = Kinds(call)
  BY <1>0 DEF Kinds
<1>7. CASE status' = "ok" /\ K = Kinds(call)
  <2>1. Listed(Kinds(call))'
    BY <1>5, <1>6, <1>7 DEF Listed, Follows
  <2> QED BY <1>7, <2>1 DEF Listing
<1>8. CASE status' = "events" /\ K = {"trigger"}
  BY <1>5, <1>8 DEF Listing, Lists
<1>9. CASE status' = "showing" /\ K = {"sequence"}
  BY <1>5, <1>9 DEF Listing, Lists
<1> QED BY <1>2, <1>7, <1>8, <1>9

(* r is q, of length n, and after it s, of length m. *)
Joins(r, q, n, s, m) ==
  /\ n \in Nat /\ m \in Nat
  /\ DOMAIN q = 1..n /\ DOMAIN s = 1..m /\ DOMAIN r = 1..(n + m)
  /\ \A i \in 1..n : r[i] = q[i]
  /\ \A i \in 1..m : r[n + i] = s[i]

(* Lists of different kinds of object, one after the other, are a list.    *)
LEMMA FollowsBoth ==
  ASSUME NEW K, NEW L, NEW M, K \cap L = {}, M = K \cup L,
         NEW q, Follows(q, K), NEW s, Follows(s, L),
         NEW n, NEW m, NEW r, Joins(r, q, n, s, m)
  PROVE  Follows(r, M)
<1>1. /\ n \in Nat /\ m \in Nat
      /\ DOMAIN q = 1..n /\ DOMAIN s = 1..m /\ DOMAIN r = 1..(n + m)
      /\ \A i \in 1..n : r[i] = q[i]
      /\ \A i \in 1..m : r[n + i] = s[i]
  BY DEF Joins
<1>2. \A i \in 1..(n + m) : i \in 1..n \/ (i > n /\ i - n \in 1..m /\ r[i] = s[i - n])
  <2> TAKE i \in 1..(n + m)
  <2>1. CASE i \notin 1..n
    <3>1. i > n /\ i - n \in 1..m /\ n + (i - n) = i
      BY <1>1, <2>1
    <3> QED BY <1>1, <3>1
  <2> QED BY <2>1
<1>3. \A i \in 1..(n + m) :
        /\ r[i] \in Scope
        /\ i \in 1..n => r[i] = q[i] /\ r[i].is \in K
        /\ i \notin 1..n => r[i] = s[i - n] /\ r[i].is \in L
  BY <1>1, <1>2 DEF Follows
<1>4. ASSUME NEW i \in 1..(n + m), NEW j \in 1..(n + m), i # j PROVE r[i] # r[j]
  <2>1. CASE i \in 1..n /\ j \in 1..n
    BY <1>1, <1>3, <1>4, <2>1 DEF Follows
  <2>2. CASE i \notin 1..n /\ j \notin 1..n
    <3>1. i - n \in 1..m /\ j - n \in 1..m /\ i - n # j - n
      BY <1>1, <1>2, <1>4, <2>2
    <3> QED BY <1>1, <1>3, <2>2, <3>1 DEF Follows
  <2>3. CASE (i \in 1..n /\ j \notin 1..n) \/ (i \notin 1..n /\ j \in 1..n)
    <3>1. r[i].is # r[j].is
      BY <1>3, <2>3
    <3> QED BY <3>1
  <2> QED BY <2>1, <2>2, <2>3
<1>5. ASSUME NEW i \in 1..(n + m), NEW j \in 1..(n + m), i < j, r[i].is = r[j].is
      PROVE  ~Before(r[j], r[i])
  <2>1. CASE i \in 1..n /\ j \in 1..n
    BY <1>1, <1>3, <1>5, <2>1 DEF Follows
  <2>2. CASE i \notin 1..n /\ j \notin 1..n
    <3>1. i - n \in 1..m /\ j - n \in 1..m /\ i - n < j - n
      BY <1>1, <1>2, <1>5, <2>2
    <3>2. r[i] = s[i - n] /\ r[j] = s[j - n]
      BY <1>3, <2>2
    <3>3. s[i - n].is = s[j - n].is
      BY <1>5, <3>2
    <3>4. ~Before(s[j - n], s[i - n])
      BY <1>1, <3>1, <3>3 DEF Follows
    <3> QED BY <3>2, <3>4
  <2>3. CASE (i \in 1..n /\ j \notin 1..n) \/ (i \notin 1..n /\ j \in 1..n)
    BY <1>3, <1>5, <2>3
  <2> QED BY <2>1, <2>2, <2>3
<1>6. ASSUME NEW o \in stable \cap Scope, o.is \in K \cup L
      PROVE  \E i \in 1..(n + m) : r[i] = o
  <2>1. CASE o.is \in K
    <3>1. PICK i \in 1..n : q[i] = o
      BY <1>1, <2>1 DEF Follows
    <3>2. i \in 1..(n + m)
      BY <1>1
    <3> QED BY <1>1, <3>1, <3>2
  <2>2. CASE o.is \in L
    <3>1. PICK i \in 1..m : s[i] = o
      BY <1>1, <2>2 DEF Follows
    <3>2. n + i \in 1..(n + m)
      BY <1>1
    <3> QED BY <1>1, <3>1, <3>2
  <2> QED BY <1>6, <2>1, <2>2
<1>7. DOMAIN r = 1..(n + m)
  BY <1>1
<1>8. \A i \in DOMAIN r : r[i] \in Scope /\ r[i].is \in K \cup L
  BY <1>3, <1>7
<1> QED BY <1>4, <1>5, <1>6, <1>7, <1>8 DEF Follows

LEMMA ListingEvents == ASSUME Types, Listing, ListEventTriggers PROVE Listing'
<1>0. /\ status = "events" /\ status' = "ok" /\ UNCHANGED <<dialect, call, todo>>
      /\ UNCHANGED ever /\ UNCHANGED stable
      /\ call.tool \in ListTools /\ Kinds(call) = {"trigger", "event trigger"}
  BY EventsStep DEF objects, ListTools
<1>1. todo = <<>>
  BY <1>0, NothingTodo
<1>2. PICK evs, ms : evs \in Ordered(RowsOf({"event trigger"})) /\ Shows(ms, evs)
                   /\ lines' = lines \o ms
  BY EventsStep
<1>3. /\ Len(evs) \in Nat /\ evs \in [1..Len(evs) -> ever] /\ Follows(evs, {"event trigger"})
  BY <1>2, RowsFollow
<1>4. PICK trs :
        /\ trs \in [1..(Len(lines) + Len(todo)) -> ever]
        /\ Follows(trs, {"trigger"})
        /\ \A i \in 1..Len(lines) : lines[i].of = {trs[i]}
  BY <1>0 DEF Listing, Listed
<1>5. IsSeq(lines) /\ Len(lines) \in Nat /\ trs \in [1..Len(lines) -> ever]
  BY <1>1, <1>4, Lengths
<1>n. PICK a : a \in Nat /\ a = Len(lines)
  BY <1>5
<1>m. PICK b : b \in Nat /\ b = Len(evs)
  BY <1>3
<1>q. /\ trs \in [1..a -> ever] /\ evs \in [1..b -> ever]
      /\ \A i \in 1..a : lines[i].of = {trs[i]}
      /\ \A i \in 1..b : ms[i].of = {evs[i]}
  BY <1>2, <1>3, <1>4, <1>5, <1>n, <1>m DEF Shows
<1>d. PICK T, E : T = {"trigger"} /\ E = {"event trigger"}
  OBVIOUS
<1>e. /\ T \cap E = {}
      /\ Follows(trs, T) /\ Follows(evs, E)
  BY <1>3, <1>4, <1>d
<1>6. PICK both :
        /\ both \in [1..(a + b) -> ever]
        /\ Follows(both, T \cup E)
        /\ \A i \in 1..a : both[i] = trs[i]
        /\ \A i \in 1..b : both[a + i] = evs[i]
  <2> DEFINE f == [i \in 1..(a + b) |-> IF i <= a THEN trs[i] ELSE evs[i - a]]
  <2>1. a \in Nat /\ b \in Nat /\ trs \in [1..a -> ever] /\ evs \in [1..b -> ever]
    BY <1>n, <1>m, <1>q
  <2>2. PICK both : both = f
    OBVIOUS
  <2>3. /\ both \in [1..(a + b) -> ever]
        /\ \A i \in 1..a : both[i] = trs[i]
        /\ \A i \in 1..b : both[a + i] = evs[i]
    BY <2>1, <2>2
  <2> HIDE DEF f
  <2>4. T \cap E = {}
    BY <1>e
  <2>5. Follows(trs, T) /\ Follows(evs, E)
    BY <1>e
  <2>6. Joins(both, trs, a, evs, b)
    BY <2>1, <2>3 DEF Joins
  <2>7. Follows(both, T \cup E)
    BY <2>4, <2>5, <2>6, FollowsBoth
  <2> QED BY <2>3, <2>7
<1>7. T \cup E = Kinds(call)
  BY <1>0, <1>d
<1>8. Kinds(call)' = Kinds(call)
  BY <1>0 DEF Kinds
<1>9. PICK K : K = Kinds(call)
  OBVIOUS
<1>10. Follows(both, K)'
  <2>1. PICK k \in Nat : k = a + b
    <3>1. a + b \in Nat
      BY <1>n, <1>m
    <3> QED BY <3>1
  <2>2. Follows(both, K)
    BY <1>6, <1>7, <1>9
  <2> QED BY <1>0, <1>6, <2>1, <2>2, FollowsKept
<1>11. /\ Len(lines') = a + b
       /\ \A i \in 1..a : lines'[i] = lines[i]
       /\ \A i \in 1..b : lines'[a + i] = ms[i]
  <2>1. IsSeq(ms) /\ IsSeq(lines)
    BY <1>2, <1>5 DEF Shows
  <2>2. PICK us : us = lines
    OBVIOUS
  <2>3. /\ Len(us \o ms) = Len(us) + Len(ms)
        /\ \A i \in 1..Len(us) : (us \o ms)[i] = us[i]
        /\ \A i \in 1..Len(ms) : (us \o ms)[Len(us) + i] = ms[i]
    <3>1. IsSeq(us)
      BY <2>1, <2>2
    <3>2. IsSeq(ms)
      BY <2>1
    <3> QED BY <3>1, <3>2, ConcatSeq
  <2>4. lines' = us \o ms /\ Len(us) = a /\ Len(ms) = b
    BY <1>2, <1>n, <1>m, <2>2 DEF Shows
  <2> QED BY <2>2, <2>3, <2>4
<1>12. \A i \in 1..Len(lines') : lines'[i].of = {both[i]}
  <2> SUFFICES ASSUME NEW i \in 1..(a + b) PROVE lines'[i].of = {both[i]}
    BY <1>11
  <2>1. CASE i \in 1..a
    BY <1>q, <1>6, <1>11, <2>1
  <2>2. CASE i \notin 1..a
    <3>1. PICK j \in 1..b : i = a + j
      <4>1. i - a \in 1..b /\ i = a + (i - a)
        BY <1>n, <1>m, <2>2
      <4> QED BY <4>1
    <3>2. lines'[i] = ms[j] /\ both[i] = evs[j]
      BY <1>6, <1>11, <3>1
    <3> QED BY <1>q, <3>1, <3>2
  <2> QED BY <2>1, <2>2
<1>13. Listed(K)'
  <2>1. Len(todo') = 0
    BY <1>0, <1>1
  <2>2. Len(lines') + Len(todo') = a + b
    BY <1>11, <2>1
  <2>3. both \in [1..(Len(lines') + Len(todo')) -> ever']
    BY <1>0, <1>6, <2>2
  <2>4. \A j \in 1..Len(todo') : todo'[j] = both[Len(lines') + j]
    BY <2>1
  <2> QED BY <1>10, <1>12, <2>3, <2>4, ListedFrom
<1>14. Listed(Kinds(call))'
  BY <1>8, <1>9, <1>13 DEF Listed, Follows
<1> QED BY <1>0, <1>14 DEF Listing

LEMMA ListingShow == ASSUME Types, Listing, ShowSequence PROVE Listing'
<1>0. /\ status = "showing" /\ call.tool = "list_sequences" /\ call.tool \in ListTools
      /\ UNCHANGED <<dialect, call>> /\ UNCHANGED ever /\ UNCHANGED stable
      /\ todo \in Seq(Sequence \cap ever) /\ todo # <<>> /\ todo' = Tail(todo)
      /\ status' = IF todo' = <<>> THEN "ok" ELSE "showing"
  BY ShowingStep DEF objects, ListTools
<1>1. PICK l : l.of = {Head(todo)} /\ lines' = Append(lines, l)
  BY ShowingStep
<1>2. PICK q :
        /\ q \in [1..(Len(lines) + Len(todo)) -> ever]
        /\ Follows(q, {"sequence"})
        /\ \A i \in 1..Len(lines) : lines[i].of = {q[i]}
        /\ \A j \in 1..Len(todo) : todo[j] = q[Len(lines) + j]
  BY <1>0 DEF Listing, Listed
<1>3. PICK n, m : n = Len(lines) /\ m = Len(todo)
  OBVIOUS
<1>4. /\ n \in Nat /\ m \in Nat /\ m >= 1 /\ IsSeq(lines)
      /\ Head(todo) = todo[1] /\ Len(todo') = m - 1
      /\ \A j \in 1..(m - 1) : todo'[j] = todo[j + 1]
  BY <1>0, <1>3, Lengths, TailSeq
<1>5. /\ Len(lines') = n + 1
      /\ \A i \in 1..n : lines'[i] = lines[i]
      /\ lines'[n + 1] = l
  BY <1>1, <1>3, <1>4, AppendSeq
<1>6. Len(lines') + Len(todo') = n + m
  BY <1>4, <1>5
<1>7. q \in [1..(n + m) -> ever]
  BY <1>2, <1>3
<1>8. q \in [1..(Len(lines') + Len(todo')) -> ever']
  BY <1>0, <1>6, <1>7
<1>9. \A i \in 1..Len(lines') : lines'[i].of = {q[i]}
  <2> SUFFICES ASSUME NEW i \in 1..(n + 1) PROVE lines'[i].of = {q[i]}
    BY <1>5
  <2>1. CASE i \in 1..n
    BY <1>2, <1>3, <1>5, <2>1
  <2>2. CASE i = n + 1
    <3>1. todo[1] = q[n + 1]
      BY <1>2, <1>3, <1>4
    <3> QED BY <1>1, <1>4, <1>5, <2>2, <3>1
  <2> QED BY <1>4, <2>1, <2>2
<1>10. \A j \in 1..Len(todo') : todo'[j] = q[Len(lines') + j]
  <2> SUFFICES ASSUME NEW j \in 1..(m - 1) PROVE todo'[j] = q[n + 1 + j]
    BY <1>4, <1>5
  <2>1. todo'[j] = todo[j + 1] /\ j + 1 \in 1..m
    BY <1>4
  <2>2. todo[j + 1] = q[n + (j + 1)] /\ n + (j + 1) = n + 1 + j
    BY <1>2, <1>3, <1>4, <2>1
  <2> QED BY <2>1, <2>2
<1>11. PICK K : K = {"sequence"}
  OBVIOUS
<1>12. Follows(q, K)'
  <2>1. PICK k \in Nat : k = n + m
    <3>1. n + m \in Nat
      BY <1>4
    <3> QED BY <3>1
  <2>2. q \in [1..k -> ever] /\ Follows(q, K)
    BY <1>2, <1>7, <1>11, <2>1
  <2> QED BY <1>0, <2>2, FollowsKept
<1>13. Listed(K)'
  BY <1>8, <1>9, <1>10, <1>12, ListedFrom
<1>14. Kinds(call)' = K
  BY <1>0, <1>11 DEF Kinds
<1>15. Listed({"sequence"})' /\ Listed(Kinds(call))'
  BY <1>11, <1>13, <1>14 DEF Listed, Follows
<1>16. status' # "events"
  BY <1>0
<1> QED BY <1>15, <1>16 DEF Listing

(* A change between two queries leaves what was to be listed in order. *)
LEMMA ListingChange ==
  ASSUME Types, Listing, NEW o \in Objects, Create(o) \/ Drop(o) PROVE Listing'
<1>1. /\ ever \subseteq ever' /\ stable' \subseteq stable /\ status \in Busy
      /\ UNCHANGED <<dialect, call, status, todo, lines>>
  BY Changes DEF Types
<1>2. status' # "ok"
  BY <1>1 DEF Busy
<1>3. ASSUME status' = "events" PROVE Listed({"trigger"})'
  <2>1. PICK K : K = {"trigger"}
    OBVIOUS
  <2>2. Listed(K) /\ call.tool \in ListTools
    BY <1>1, <1>3, <2>1 DEF Listing, Types, Answering, ListTools
  <2>3. Listed(K)'
    BY <1>1, <2>2, ListedKept
  <2> QED BY <2>1, <2>3
<1>4. ASSUME status' = "showing" PROVE Listed({"sequence"})'
  <2>1. PICK K : K = {"sequence"}
    OBVIOUS
  <2>2. Listed(K) /\ call.tool \in ListTools
    BY <1>1, <1>4, <2>1 DEF Listing, Types, Answering, ListTools
  <2>3. Listed(K)'
    BY <1>1, <2>2, ListedKept
  <2> QED BY <2>1, <2>3
<1> QED BY <1>2, <1>3, <1>4 DEF Listing, Lists

LEMMA ListingStutter == ASSUME Types, Listing, UNCHANGED vars PROVE Listing'
<1>1. /\ UNCHANGED <<dialect, call, status, todo, lines>>
      /\ ever \subseteq ever' /\ stable' \subseteq stable
  BY DEF vars, objects
<1>2. ASSUME status' = "events" PROVE Listed({"trigger"})'
  <2>1. PICK K : K = {"trigger"}
    OBVIOUS
  <2>2. Listed(K) /\ call.tool \in ListTools
    BY <1>1, <1>2, <2>1 DEF Listing, Types, Answering, ListTools
  <2>3. Listed(K)'
    BY <1>1, <2>2, ListedKept
  <2> QED BY <2>1, <2>3
<1>3. ASSUME status' = "showing" PROVE Listed({"sequence"})'
  <2>1. PICK K : K = {"sequence"}
    OBVIOUS
  <2>2. Listed(K) /\ call.tool \in ListTools
    BY <1>1, <1>3, <2>1 DEF Listing, Types, Answering, ListTools
  <2>3. Listed(K)'
    BY <1>1, <2>2, ListedKept
  <2> QED BY <2>1, <2>3
<1>4. ASSUME Lists' PROVE Listed(Kinds(call))'
  <2>1. Lists
    BY <1>1, <1>4 DEF Lists
  <2>2. PICK K : K = Kinds(call)
    OBVIOUS
  <2>3. Kinds(call)' = K
    BY <1>1, <2>2 DEF Kinds
  <2>4. Listed(K) /\ call.tool \in ListTools
    BY <2>1, <2>2 DEF Listing, Lists
  <2>5. Listed(K)'
    BY <1>1, <2>4, ListedKept
  <2> QED BY <2>3, <2>5 DEF Listed, Follows
<1> QED BY <1>2, <1>3, <1>4 DEF Listing

LEMMA ListingNext == ASSUME Types, Listing, [Next]_vars PROVE Listing'
<1>1. ASSUME NEW c \in Calls, Ask(c) PROVE Listing'
  BY <1>1 DEF Ask, Listing, Lists
<1>2. CASE DescHandler
  <2>1. /\ call'.tool \in DescTools
        /\ status' \in {"ok", "choices", "no overload", "not found", "error"}
    BY <1>2, DescHandlers
  <2>2. ~Lists'
    BY <2>1 DEF Lists, ListTools, DescTools
  <2> QED BY <2>1, <2>2 DEF Listing
<1>3. CASE Failing
  BY <1>3, FailingStep DEF Listing, Lists
<1>4. CASE Return
  BY <1>4 DEF Return, Listing, Lists
<1> QED BY <1>1, <1>2, <1>3, <1>4, ListingListHandler, ListingEvents, ListingShow,
           ListingChange, ListingStutter, Steps

LEMMA ListingInit == ASSUME Init PROVE Listing
BY DEF Init, Listing, Lists

LEMMA ListingHolds == Spec => [](Types /\ Listing)
<1>1. Init => Types /\ Listing
  BY TypesInit, ListingInit
<1>2. Types /\ Listing /\ [Next]_vars => (Types /\ Listing)'
  BY TypesNext, ListingNext
<1> QED BY <1>1, <1>2, PTL DEF Spec

(* What a tool is to list is of the kinds it selects. *)
LEMMA ScopeKinds ==
  ASSUME call.tool \in ListTools, NEW o \in Scope
  PROVE  o.is \in Kinds(call)
<1>1. CASE call.tool = "list_tables"
  BY <1>1, ScopeIs DEF Kinds
<1>2. CASE call.tool = "list_functions"
  BY <1>2, ScopeIs DEF Kinds
<1>3. CASE call.tool = "list_triggers"
  BY <1>3, ScopeIs DEF Kinds
<1>4. CASE call.tool = "list_sequences"
  BY <1>4, ScopeIs DEF Kinds
<1> QED BY <1>1, <1>2, <1>3, <1>4 DEF ListTools

LEMMA ListOfAnswer ==
  ASSUME Types, Listing, Lists
  PROVE  \E q : /\ DOMAIN q = 1..Len(lines)
                /\ Follows(q, Kinds(call))
                /\ \A i \in 1..Len(lines) : lines[i].of = {q[i]}
<1>1. todo = <<>>
  BY DEF Types, Answering, Lists
<1>2. PICK q \in [1..(Len(lines) + Len(todo)) -> ever] :
        /\ Follows(q, Kinds(call))
        /\ \A i \in 1..Len(lines) : lines[i].of = {q[i]}
  BY DEF Listing, Listed
<1>3. DOMAIN q = 1..Len(lines)
  BY <1>1, <1>2, Lengths
<1> QED BY <1>2, <1>3

LEMMA ListingGivesWhatIsThere == ASSUME Types, Listing PROVE ListsWhatIsThere
<1> SUFFICES ASSUME Lists
             PROVE  /\ \A o \in stable \cap Scope :
                         Cardinality({i \in 1..Len(lines) : lines[i].of = {o}}) = 1
                    /\ \A i \in 1..Len(lines) : \E o \in Scope : lines[i].of = {o}
  BY DEF ListsWhatIsThere
<1>1. PICK q : /\ DOMAIN q = 1..Len(lines)
               /\ Follows(q, Kinds(call))
               /\ \A i \in 1..Len(lines) : lines[i].of = {q[i]}
  BY ListOfAnswer
<1>2. \A i \in 1..Len(lines) : \E o \in Scope : lines[i].of = {o}
  BY <1>1 DEF Follows
<1>3. ASSUME NEW o \in stable \cap Scope
      PROVE  Cardinality({i \in 1..Len(lines) : lines[i].of = {o}}) = 1
  <2>1. o.is \in Kinds(call)
    BY ScopeKinds DEF Lists
  <2>2. PICK i \in 1..Len(lines) : q[i] = o
    BY <1>1, <2>1 DEF Follows
  <2>3. {j \in 1..Len(lines) : lines[j].of = {o}} = {i}
    BY <1>1, <2>2 DEF Follows
  <2> QED BY <2>3, FS_Singleton
<1> QED BY <1>2, <1>3

LEMMA ListingGivesSorted == ASSUME Types, Listing PROVE SortedByName
<1> SUFFICES ASSUME Lists, NEW i \in 1..Len(lines), NEW j \in 1..Len(lines),
                    NEW o \in lines[i].of, NEW p \in lines[j].of,
                    i < j, o.is = p.is
             PROVE  ~Before(p, o)
  BY DEF SortedByName
<1>1. PICK q : /\ DOMAIN q = 1..Len(lines)
               /\ Follows(q, Kinds(call))
               /\ \A k \in 1..Len(lines) : lines[k].of = {q[k]}
  BY ListOfAnswer
<1>2. o = q[i] /\ p = q[j]
  BY <1>1
<1> QED BY <1>1, <1>2 DEF Follows

(* Whatever other sessions create and drop meanwhile, a list has one line  *)
(* for each object that was there all through the call and none for an     *)
(* object that never was, in one query, two, or one and a SHOW per row.    *)
THEOREM ListsAreComplete == Spec => []ListsWhatIsThere
<1>1. Types /\ Listing => ListsWhatIsThere
  BY ListingGivesWhatIsThere
<1> QED BY <1>1, ListingHolds, PTL

(* A list is sorted, each kind of object for itself. *)
THEOREM ListsAreSorted == Spec => []SortedByName
<1>1. Types /\ Listing => SortedByName
  BY ListingGivesSorted
<1> QED BY <1>1, ListingHolds, PTL

-----------------------------------------------------------------------------
(* Descriptions. *)

LEMMA OnlySame ==
  ASSUME UNCHANGED <<dialect, call>>, UNCHANGED ever, NEW CONSTANT o
  PROVE  Only(o)' <=> Only(o)
BY NamedSame DEF Only

(* What ListedIsDescribed asks of an answer k of the lines ls. *)
Describes(k, ls) ==
  /\ \A o \in stable :
       Named(o) /\ TableTaken = call.table =>
         /\ k = "ok" \/ \E i \in 1..Len(ls) : o \in ls[i].of
         /\ (call.tool = "desc_function" /\ o.args # Absent /\ call.args = o.args)
              \/ (Only(o) /\ call.args = Absent)
            => k = "ok" /\ o \in ls[1].of
  /\ Postgres /\ k = "ok" /\ call.tool \in {"desc_function", "desc_trigger"} =>
       \A o \in ls[1].of : NamedIn(o, TableTaken) /\ o \in ever

LEMMA DescribesSame ==
  ASSUME UNCHANGED <<dialect, call>>, UNCHANGED <<stable, ever>>,
         NEW CONSTANT k, NEW CONSTANT ls, Describes(k, ls)
  PROVE  Describes(k, ls)'
<1>1. \A o \in stable : Named(o)' <=> Named(o)
  BY NamedSame
<1>2. \A o \in stable : Only(o)' <=> Only(o)
  BY OnlySame
<1>3. /\ \A o \in stable' :
           Named(o)' /\ TableTaken' = call'.table =>
             /\ k = "ok" \/ \E i \in 1..Len(ls) : o \in ls[i].of
             /\ (call'.tool = "desc_function" /\ o.args # Absent /\ call'.args = o.args)
                  \/ (Only(o)' /\ call'.args = Absent)
                => k = "ok" /\ o \in ls[1].of
  BY <1>1, <1>2, NamedSame DEF Describes
<1>4. Postgres' /\ k = "ok" /\ call'.tool \in {"desc_function", "desc_trigger"} =>
        \A o \in ls[1].of : NamedIn(o, TableTaken)' /\ o \in ever'
  BY NamedSame DEF Describes, Postgres
<1> QED BY <1>3, <1>4 DEF Describes

LEMMA DescribedFrom ==
  ASSUME UNCHANGED <<dialect, call>>, UNCHANGED <<stable, ever>>,
         Describes(status', lines')
  PROVE  ListedIsDescribed'
<1>1. PICK k, ls : k = status' /\ ls = lines'
  OBVIOUS
<1>2. Describes(k, ls)'
  BY <1>1, DescribesSame
<1> QED BY <1>1, <1>2 DEF Describes, ListedIsDescribed

(* One line of the set S of objects, that holds every object asked for. *)
LEMMA DescribesOne ==
  ASSUME NEW S, NEW x,
         \A o \in stable :
           Named(o) /\ TableTaken = call.table
           /\ (call.tool = "desc_function" => call.args \in {Absent, o.args}) =>
             o \in S,
         Postgres /\ call.tool \in {"desc_function", "desc_trigger"} =>
           \A o \in S : NamedIn(o, TableTaken) /\ o \in ever
  PROVE  Describes("ok", <<Line(S, x)>>)
<1>1. <<Line(S, x)>>[1].of = S
  BY DEF Line
<1>2. PICK ls : ls = <<Line(S, x)>> /\ ls[1].of = S
  BY <1>1
<1>3. Describes("ok", ls)
  BY <1>2 DEF Describes
<1> QED BY <1>2, <1>3

LEMMA DescTableDescribes == ASSUME Types, HandleDescTable PROVE Describes(status', lines')
<1> DEFINE same == {t \in Of("table") :
                      t.name = call.table /\ (MariaDB => t.schema = "home")}
<1>0. /\ call.tool = "desc_table"
      /\ IF same = {} THEN Got("not found", <<>>) ELSE Got("ok", <<DescTableLine(same)>>)
  BY DEF HandleDescTable, Tool
<1>1. \A o \in stable : Named(o) => o \in same
  BY <1>0 DEF Named, NamedIn, Of, Types, Objective
<1>2. PICK x : DescTableLine(same) = Line(same, x)
  BY DEF DescTableLine
<1> HIDE DEF same
<1>3. CASE same = {}
  BY <1>0, <1>1, <1>3 DEF Describes, Got
<1>4. CASE same # {}
  <2>1. Describes("ok", <<Line(same, x)>>)
    BY <1>0, <1>1, DescribesOne
  <2> QED BY <1>0, <1>2, <1>4, <2>1 DEF Got
<1> QED BY <1>3, <1>4

LEMMA DescTriggerDescribes == ASSUME Types, HandleDescTrigger PROVE Describes(status', lines')
<1> DEFINE rows == {t \in Of("trigger") :
                      /\ t.name = call.name /\ t.schema = "home"
                      /\ Postgres => t.table = ToRegclass(call.table)}
<1>0. /\ call.tool = "desc_trigger"
      /\ IF rows = {} THEN Got(IF Postgres THEN "not found" ELSE "error", <<>>)
         ELSE \E t \in rows :
                Got("ok", <<Line({t}, IF Postgres \/ t.long THEN t ELSE "sql_mode")>>)
  BY DEF HandleDescTrigger, Tool
<1>t. Postgres => TableTaken = ToRegclass(call.table)
  BY <1>0 DEF TableTaken
<1>1. \A o \in stable : Named(o) /\ TableTaken = call.table => o \in rows
  BY <1>0, <1>t DEF Named, NamedIn, Of, Types, Objective
<1>2. \A t \in rows : Postgres => NamedIn(t, TableTaken) /\ t \in ever
  BY <1>0, <1>t DEF NamedIn, Of, Types, Objective
<1>3. \A t, u \in rows : t = u
  <2>1. \A t, u \in rows : /\ t \in catalog /\ u \in catalog
                           /\ Identity(t) = Identity(u)
    BY DEF Of, Identity
  <2> QED BY <2>1 DEF Types, Objective, Legal
<1> HIDE DEF rows
<1>4. CASE rows = {}
  BY <1>0, <1>1, <1>4 DEF Describes, Got
<1>5. CASE rows # {}
  <2>1. PICK t \in rows : \E x : Got("ok", <<Line({t}, x)>>)
    BY <1>0, <1>5
  <2>2. PICK x : Got("ok", <<Line({t}, x)>>)
    BY <2>1
  <2>3. \A o \in stable : Named(o) /\ TableTaken = call.table => o \in {t}
    BY <1>1, <1>3
  <2>4. Describes("ok", <<Line({t}, x)>>)
    BY <1>0, <1>2, <2>3, DescribesOne
  <2> QED BY <2>2, <2>4 DEF Got
<1> QED BY <1>4, <1>5

LEMMA DescFunctionDescribes ==
  ASSUME Types, HandleDescFunction, status' # "error"
  PROVE  Describes(status', lines')
<1> DEFINE rows    == {f \in FunctionRows : f.name = call.name}
           matched == {f \in rows : call.args \in {Absent, f.args}}
           choices == Map(SetToSeq(rows), LAMBDA f : Line({f}, f.args))
<1>0. /\ call.tool = "desc_function"
      /\ IF MariaDB \/ \E f \in rows : f.kind = "a" THEN Got("error", <<>>)
         ELSE IF rows = {} THEN Got("not found", <<>>)
         ELSE IF matched = {} THEN Got("no overload", choices)
         ELSE IF Cardinality(matched) > 1 THEN Got("choices", choices)
         ELSE \E f \in matched : Got("ok", <<Line({f}, f)>>)
  BY DEF HandleDescFunction, Tool
<1>1. \A o \in stable : Named(o) => o \in rows
  BY <1>0 DEF Named, NamedIn, FunctionRows, Of, Types, Objective
<1>2. \A f \in rows : Named(f) /\ f \in ever /\ f \in catalog
  BY <1>0 DEF Named, NamedIn, FunctionRows, Of, Types, Objective
<1>3. \A f, g \in rows : Postgres /\ f.args = g.args => f = g
  <2>1. ASSUME Postgres, NEW f \in rows, NEW g \in rows, f.args = g.args
        PROVE  Identity(f) = Identity(g)
    BY <2>1 DEF FunctionRows, Of, Identity
  <2> QED BY <1>2, <2>1 DEF Types, Objective, Legal
<1>4. \A f \in rows : f \in matched <=> call.args \in {Absent, f.args}
  OBVIOUS
<1>5. matched \subseteq rows
  OBVIOUS
<1>6. /\ Shows(choices, SetToSeq(rows)) /\ SetToSeq(rows) \in Seq(rows)
      /\ \A o \in rows : \E i \in 1..Len(SetToSeq(rows)) : SetToSeq(rows)[i] = o
  <2>1. rows \in SUBSET catalog
    BY DEF FunctionRows, Of
  <2> QED BY <2>1, ChoicesFacts
<1> HIDE DEF rows, matched, choices
<1>7. ~MariaDB /\ Postgres
  BY <1>0 DEF Got, Types, Objective, MariaDB, Postgres
<1>8. \A o \in rows : \E i \in 1..Len(choices) : o \in choices[i].of
  BY <1>6 DEF Shows
<1>9. ASSUME NEW k, Got(k, choices), k # "ok",
              \A o \in stable : Named(o) =>
                ~ \/ o.args # Absent /\ call.args = o.args
                  \/ Only(o) /\ call.args = Absent
       PROVE  Describes(status', lines')
  <2>1. status' = k /\ lines' = choices
    BY <1>9 DEF Got
  <2>2. Describes(k, choices)
    BY <1>1, <1>8, <1>9 DEF Describes
  <2> QED BY <2>1, <2>2
<1>10. CASE rows = {}
  <2>1. status' = "not found" /\ lines' = <<>>
    BY <1>0, <1>10 DEF Got
  <2> QED BY <1>1, <1>10, <2>1 DEF Describes
<1>11. CASE rows # {} /\ matched = {}
  <2>1. Got("no overload", choices)
    BY <1>0, <1>11 DEF Got
  <2>2. \A o \in stable : Named(o) =>
          ~ \/ o.args # Absent /\ call.args = o.args
            \/ Only(o) /\ call.args = Absent
    BY <1>1, <1>4, <1>11
  <2> QED BY <1>9, <2>1, <2>2
<1>12. CASE rows # {} /\ matched # {} /\ Cardinality(matched) > 1
  <2>1. Got("choices", choices)
    BY <1>0, <1>12 DEF Got
  <2>2. ASSUME NEW o \in stable, Named(o),
               \/ o.args # Absent /\ call.args = o.args
               \/ Only(o) /\ call.args = Absent
        PROVE  FALSE
    <3>1. o \in rows /\ o \in matched
      BY <1>1, <1>4, <2>2
    <3>2. \A f \in matched : f = o
      <4>1. CASE o.args # Absent /\ call.args = o.args
        BY <1>3, <1>4, <1>5, <1>7, <3>1, <4>1
      <4>2. CASE Only(o) /\ call.args = Absent
        BY <1>2, <1>5, <4>2 DEF Only
      <4> QED BY <2>2, <4>1, <4>2
    <3>3. matched = {o}
      BY <3>1, <3>2
    <3>4. Cardinality(matched) = 1
      BY <3>3, FS_Singleton
    <3> QED BY <1>12, <3>4
  <2> QED BY <1>9, <2>1, <2>2
<1>13. CASE rows # {} /\ matched # {} /\ ~(Cardinality(matched) > 1)
  <2>1. PICK f \in matched : Got("ok", <<Line({f}, f)>>)
    BY <1>0, <1>13 DEF Got
  <2>2. \A o \in matched : o = f
    <3>1. IsFiniteSet(matched)
      BY <1>2, <1>5, RowsOfCatalog
    <3>2. ASSUME NEW o \in matched, o # f PROVE FALSE
      <4>1. {o, f} \subseteq matched
        BY <3>2
      <4>2. Cardinality({o, f}) <= Cardinality(matched)
        BY <3>1, <4>1, FS_Subset
      <4>3. Cardinality({o, f}) = 2
        <5>1. /\ IsFiniteSet({f}) /\ Cardinality({f}) = 1
              /\ o \notin {f} /\ {o, f} = {f} \cup {o}
          BY <3>2, FS_Singleton
        <5>2. Cardinality({f} \cup {o}) = Cardinality({f}) + 1
          BY <5>1, FS_AddElement
        <5> QED BY <5>1, <5>2
      <4>4. Cardinality(matched) \in Nat
        BY <3>1, FS_CardinalityType
      <4> QED BY <1>13, <4>2, <4>3, <4>4
    <3> QED BY <3>2
  <2>3. \A o \in stable : Named(o) /\ call.args \in {Absent, o.args} => o \in {f}
    BY <1>1, <1>4, <2>2
  <2>4. \A o \in {f} : NamedIn(o, TableTaken) /\ o \in ever
    BY <1>0, <1>2, <1>5 DEF Named, TableTaken
  <2>5. Describes("ok", <<Line({f}, f)>>)
    BY <1>0, <1>1, <2>3, <2>4, DescribesOne
  <2> QED BY <2>1, <2>5 DEF Got
<1> QED BY <1>10, <1>11, <1>12, <1>13

(* A call that lists names nothing. *)
LEMMA ListDescribes ==
  ASSUME call.tool \in ListTools, NEW k, NEW ls
  PROVE  Describes(k, ls)
BY DEF Describes, Named, NamedIn, ListTools

LEMMA DescribedNext == ASSUME Types, ListedIsDescribed, [Next]_vars PROVE ListedIsDescribed'
<1> SUFFICES ASSUME status' \in {"ok", "choices", "no overload", "not found"}
             PROVE  ListedIsDescribed'
  BY DEF ListedIsDescribed
<1>0. status' \notin Busy \cup {"idle"}
  BY DEF Busy
<1>1. CASE ListHandler
  <2>1. /\ call.tool \in ListTools
        /\ UNCHANGED <<dialect, call>> /\ UNCHANGED <<stable, ever>>
    BY <1>1, ListHandlers DEF objects
  <2> QED BY <2>1, ListDescribes, DescribedFrom
<1>2. CASE DescHandler
  <2>1. UNCHANGED <<dialect, call>> /\ UNCHANGED <<stable, ever>>
    BY <1>2, DescHandlers DEF objects
  <2>2. Describes(status', lines')
    BY <1>2, DescTableDescribes, DescTriggerDescribes, DescFunctionDescribes DEF DescHandler
  <2> QED BY <2>1, <2>2, DescribedFrom
<1>3. CASE ListEventTriggers
  <2>1. /\ call.tool \in ListTools
        /\ UNCHANGED <<dialect, call>> /\ UNCHANGED <<stable, ever>>
    BY <1>3, EventsStep DEF objects, ListTools
  <2> QED BY <2>1, ListDescribes, DescribedFrom
<1>4. CASE ShowSequence
  <2>1. /\ call.tool \in ListTools
        /\ UNCHANGED <<dialect, call>> /\ UNCHANGED <<stable, ever>>
    BY <1>4, ShowingStep DEF objects, ListTools
  <2> QED BY <2>1, ListDescribes, DescribedFrom
<1>5. ~Failing
  BY FailingStep
<1>6. CASE UNCHANGED vars
  <2>1. UNCHANGED <<dialect, call, status, lines>> /\ UNCHANGED <<stable, ever>>
    BY <1>6 DEF vars, objects
  <2>2. Describes(status', lines')
    BY <2>1 DEF ListedIsDescribed, Describes
  <2> QED BY <2>1, <2>2, DescribedFrom
<1> QED BY <1>0, <1>1, <1>2, <1>3, <1>4, <1>5, <1>6, Ends

(* An object that was there all through the call and that the call names   *)
(* is described, or offered as one of several of its name, unless it is a  *)
(* trigger of a table with capitals in its name on Postgres; and a         *)
(* description is, on Postgres, of what the call names, the name of a      *)
(* trigger's table read in lower case.                                     *)
THEOREM NamedIsDescribed == Spec => []ListedIsDescribed
<1>1. Init => Types /\ ListedIsDescribed
  BY TypesInit DEF Init, ListedIsDescribed
<1>2. Types /\ ListedIsDescribed /\ [Next]_vars => (Types /\ ListedIsDescribed)'
  BY TypesNext, DescribedNext
<1> QED BY <1>1, <1>2, PTL DEF Spec

================================================================================
