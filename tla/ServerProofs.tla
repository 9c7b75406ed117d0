------------------------------ MODULE ServerProofs ------------------------------
(***************************************************************************)
(* Proofs about the whole program, for every set of requests, every number *)
(* of messages, of calls side by side and of lines in the pipe: the type   *)
(* invariant, the order of the statements when calls run one after the     *)
(* other, and that the program is the service that Service promises.  What *)
(* DBPoolProofs proves of the pools is used for the messages as callers.   *)
(***************************************************************************)
EXTENDS Server, FiniteSetTheorems, TLAPS

PoolP == INSTANCE DBPoolProofs WITH Callers <- Messages

(* What DBPoolProofs assumes of its constants holds here. *)
LEMMA PoolConstants ==
  /\ Existing \subseteq Databases
  /\ Dsns \subseteq PoolP!Dsn
  /\ MaxPools \in Nat
BY PoolAssumption DEF Pool!Dsn, PoolP!Dsn

(* The pools of Server and those of DBPoolProofs are the same. *)
LEMMA SamePools ==
  /\ Pool!Init <=> PoolP!Init
  /\ Pool!TypeOK <=> PoolP!TypeOK
  /\ Pool!Crash <=> PoolP!Crash
  /\ Pool!Toggle <=> PoolP!Toggle
  /\ \A n \in Messages :
       /\ \A d \in Databases : Pool!Call(n, d) <=> PoolP!Call(n, d)
       /\ Pool!NilCheck(n) <=> PoolP!NilCheck(n)
       /\ Pool!MakeMap(n) <=> PoolP!MakeMap(n)
       /\ Pool!Lookup(n) <=> PoolP!Lookup(n)
       /\ Pool!Connect(n) <=> PoolP!Connect(n)
       /\ Pool!ConnectFails(n) <=> PoolP!ConnectFails(n)
       /\ Pool!Store(n) <=> PoolP!Store(n)
BY DEF Pool!Init, PoolP!Init, Pool!TypeOK, PoolP!TypeOK, Pool!Labels, PoolP!Labels,
   Pool!Outside, PoolP!Outside, Pool!Crash, PoolP!Crash, Pool!Toggle, PoolP!Toggle,
   Pool!Call, PoolP!Call, Pool!NilCheck, PoolP!NilCheck, Pool!MakeMap, PoolP!MakeMap,
   Pool!Lookup, PoolP!Lookup, Pool!Connect, PoolP!Connect, Pool!ConnectFails,
   PoolP!ConnectFails, Pool!Store, PoolP!Store, Pool!Goto, PoolP!Goto, Pool!Stored,
   PoolP!Stored, Pool!Reachable, PoolP!Reachable, Pool!Understood, PoolP!Understood,
   Pool!PoolDsn, PoolP!PoolDsn, Pool!DialectFromDSN, PoolP!DialectFromDSN,
   Pool!ReplaceDatabaseName, PoolP!ReplaceDatabaseName, Pool!ToMariaDBDSN,
   PoolP!ToMariaDBDSN, Pool!SchemesOf, PoolP!SchemesOf

(***************************************************************************)
(* The invariant.                                                          *)
(***************************************************************************)
(* The types, for the program and for the pools. *)
Types ==
  /\ TypeOK
  /\ PoolP!Types
  /\ crashed => ~Running

(* What a handler may have before it. *)
Rest(r) ==
  IF r.op = "write" THEN {<<"DB", "exec">>, <<"exec">>}
  ELSE IF r.op = "read" THEN {<<"DB", "query">>, <<"query">>}
  ELSE {<<"DB", "query", "DB", "analyze">>, <<"query", "DB", "analyze">>,
        <<"DB", "analyze">>, <<"analyze">>}

Wrote(n) == \E i \in 1..Len(log) : log[i].msg = n /\ log[i].how = "exec"

(* A call that has a write before it has not written, one that reports a   *)
(* write has, and a statement goes to the database the call asked for.     *)
Plan ==
  \A n \in Calls :
    /\ outcome[n] = "none" =>
         /\ todo[n] \in Rest(req[n])
         /\ ~Refused(req[n])
         /\ Head(todo[n]) # "DB" => arg[n] = req[n].db
         /\ req[n].op = "write" => ~Wrote(n)
    /\ outcome[n] = "ok" /\ req[n].op = "write" => Wrote(n)

(* What was executed belongs to messages that left the hand of readLoop. *)
Past == \A i \in 1..Len(log) : log[i].msg \in 1..Len(stage) /\ stage[log[i].msg] # "held"

(* A serial server has one call in progress, the last that executed        *)
(* anything.                                                               *)
OneCall ==
  serial =>
    /\ \A m, n \in Calls : m = n
    /\ \A n \in Calls : \A i \in 1..Len(log) : log[i].msg <= n

-----------------------------------------------------------------------------
(* Sequences. *)

(* One more element at the end of a sequence. *)
LEMMA AppendFacts ==
  ASSUME NEW S, NEW s \in Seq(S), NEW e \in S, NEW t, t = Append(s, e)
  PROVE  /\ t \in Seq(S)
         /\ Len(t) = Len(s) + 1 /\ Len(s) \in Nat
         /\ \A i \in 1..Len(s) : t[i] = s[i] /\ i \in 1..Len(t) /\ i # Len(t)
         /\ t[Len(t)] = e /\ Len(t) \in 1..Len(t)
         /\ \A i \in 1..Len(t) : i \in 1..Len(s) \/ i = Len(t)
<1>1. t \in Seq(S) /\ Len(t) = Len(s) + 1 /\ Len(s) \in Nat
  OBVIOUS
<1>2. \A i \in 1..Len(s) : t[i] = s[i]
  OBVIOUS
<1>3. t[Len(s) + 1] = e
  OBVIOUS
<1> QED BY <1>1, <1>2, <1>3

(* The last element of a sequence replaced. *)
LEMMA LastReplaced ==
  ASSUME NEW S, NEW s \in Seq(S), s # <<>>, NEW e \in S, NEW t,
         t = [s EXCEPT ![Len(s)] = e]
  PROVE  /\ t \in Seq(S) /\ Len(t) = Len(s) /\ Len(s) \in 1..Len(s)
         /\ t[Len(s)] = e
         /\ \A i \in 1..Len(s) : i # Len(s) => t[i] = s[i]
<1>1. Len(s) \in 1..Len(s)
  OBVIOUS
<1>2. t \in Seq(S) /\ Len(t) = Len(s)
  BY <1>1
<1>3. t[Len(s)] = e
  BY <1>1
<1>4. \A i \in 1..Len(s) : i # Len(s) => t[i] = s[i]
  OBVIOUS
<1> QED BY <1>1, <1>2, <1>3, <1>4

(* The sequences of steps, taken apart. *)
LEMMA Tuples ==
  ASSUME NEW a, NEW b, NEW c, NEW d
  PROVE  /\ Len(<<a>>) = 1 /\ Head(<<a>>) = a /\ Tail(<<a>>) = <<>>
         /\ Len(<<a, b>>) = 2 /\ Head(<<a, b>>) = a /\ Tail(<<a, b>>) = <<b>>
         /\ Len(<<a, b, c>>) = 3 /\ Head(<<a, b, c>>) = a /\ Tail(<<a, b, c>>) = <<b, c>>
         /\ Len(<<a, b, c, d>>) = 4 /\ Head(<<a, b, c, d>>) = a
         /\ Tail(<<a, b, c, d>>) = <<b, c, d>>
OBVIOUS

LEMMA TuplesTyped ==
  ASSUME NEW S, NEW a \in S, NEW b \in S, NEW c \in S, NEW d \in S
  PROVE  /\ <<a>> \in Seq(S) /\ <<a>> # <<>>
         /\ <<a, b>> \in Seq(S) /\ <<a, b>> # <<>>
         /\ <<a, b, c>> \in Seq(S) /\ <<a, b, c>> # <<>>
         /\ <<a, b, c, d>> \in Seq(S) /\ <<a, b, c, d>> # <<>>
OBVIOUS

LEMMA RestFacts ==
  ASSUME NEW r \in Request, NEW t \in Rest(r)
  PROVE  /\ t \in Seq(Statements \cup {"DB"}) /\ t # <<>>
         /\ Head(t) = "DB" => Len(t) # 1 /\ Head(Tail(t)) # "DB"
         /\ Len(t) # 1 => Tail(t) \in Rest(r)
         /\ Head(t) = "exec" => r.op = "write"
         /\ r.op = "write" /\ Head(t) # "DB" => Head(t) = "exec" /\ Len(t) = 1
<1> DEFINE S == Statements \cup {"DB"}
<1>0. "DB" \in S /\ "exec" \in S /\ "query" \in S /\ "analyze" \in S
  BY DEF Statements
<1> HIDE DEF S
<1>1. CASE r.op = "write"
  <2>1. t = <<"DB", "exec">> \/ t = <<"exec">>
    BY <1>1 DEF Rest
  <2>2. t \in Seq(S) /\ t # <<>>
    BY <1>0, <2>1, TuplesTyped
  <2>3. CASE t = <<"DB", "exec">>
    <3>1. Head(t) = "DB" /\ Len(t) = 2 /\ Tail(t) = <<"exec">> /\ Head(Tail(t)) = "exec"
      BY <2>3, Tuples
    <3> QED BY <1>1, <2>2, <3>1 DEF Rest, S
  <2>4. CASE t = <<"exec">>
    <3>1. Head(t) = "exec" /\ Len(t) = 1
      BY <2>4, Tuples
    <3> QED BY <1>1, <2>2, <3>1 DEF Rest, S
  <2> QED BY <2>1, <2>3, <2>4
<1>2. CASE r.op = "read"
  <2>1. t = <<"DB", "query">> \/ t = <<"query">>
    BY <1>2 DEF Rest
  <2>2. t \in Seq(S) /\ t # <<>>
    BY <1>0, <2>1, TuplesTyped
  <2>3. CASE t = <<"DB", "query">>
    <3>1. Head(t) = "DB" /\ Len(t) = 2 /\ Tail(t) = <<"query">> /\ Head(Tail(t)) = "query"
      BY <2>3, Tuples
    <3> QED BY <1>2, <2>2, <3>1 DEF Rest, S
  <2>4. CASE t = <<"query">>
    <3>1. Head(t) = "query" /\ Len(t) = 1
      BY <2>4, Tuples
    <3> QED BY <1>2, <2>2, <3>1 DEF Rest, S
  <2> QED BY <2>1, <2>3, <2>4
<1>3. CASE r.op \notin {"read", "write"}
  <2>1. \/ t = <<"DB", "query", "DB", "analyze">> \/ t = <<"query", "DB", "analyze">>
        \/ t = <<"DB", "analyze">> \/ t = <<"analyze">>
    BY <1>3 DEF Rest
  <2>2. t \in Seq(S) /\ t # <<>>
    BY <1>0, <2>1, TuplesTyped
  <2>3. CASE t = <<"DB", "query", "DB", "analyze">>
    <3>1. /\ Head(t) = "DB" /\ Len(t) = 4 /\ Tail(t) = <<"query", "DB", "analyze">>
          /\ Head(Tail(t)) = "query"
      BY <2>3, Tuples
    <3> QED BY <1>3, <2>2, <3>1 DEF Rest, S
  <2>4. CASE t = <<"query", "DB", "analyze">>
    <3>1. Head(t) = "query" /\ Len(t) = 3 /\ Tail(t) = <<"DB", "analyze">>
      BY <2>4, Tuples
    <3> QED BY <1>3, <2>2, <3>1 DEF Rest, S
  <2>5. CASE t = <<"DB", "analyze">>
    <3>1. /\ Head(t) = "DB" /\ Len(t) = 2 /\ Tail(t) = <<"analyze">>
          /\ Head(Tail(t)) = "analyze"
      BY <2>5, Tuples
    <3> QED BY <1>3, <2>2, <3>1 DEF Rest, S
  <2>6. CASE t = <<"analyze">>
    <3>1. Head(t) = "analyze" /\ Len(t) = 1
      BY <2>6, Tuples
    <3> QED BY <1>3, <2>2, <3>1 DEF Rest, S
  <2> QED BY <2>1, <2>3, <2>4, <2>5, <2>6
<1> QED BY <1>1, <1>2, <1>3

LEMMA StepsFacts ==
  ASSUME NEW r \in Request
  PROVE  Steps(r) \in Rest(r) /\ Head(Steps(r)) = "DB"
BY Tuples DEF Steps, Rest

-----------------------------------------------------------------------------
(* What the actions do to the session and the log. *)

LEMMA CallFacts ==
  ASSUME TypeOK, NEW n \in Calls
  PROVE  /\ n \in 1..Len(stage) /\ stage[n] = "served" /\ n \in Messages /\ n \in Nat
         /\ req[n] \in Request /\ req[n].db \in Databases
<1>1. n \in 1..Len(stage) /\ stage[n] = "served"
  BY DEF Calls
<1>2. req \in Seq(Request) /\ Len(req) = Len(stage) /\ Len(req) <= MaxMessages
  BY DEF TypeOK
<1>3. req[n] \in Request
  BY <1>1, <1>2
<1>4. Len(req) \in Nat /\ MaxMessages \in Nat
  BY <1>2, ServerAssumption
<1>5. n \in Messages /\ n \in Nat
  BY <1>1, <1>2, <1>4 DEF Messages
<1> QED BY <1>1, <1>3, <1>5 DEF Request

(* The message in hand moves on to stage s. *)
LEMMA SettleFacts ==
  ASSUME TypeOK, NEW s \in Session!Stages, Session!HoldingOne,
         stage' = [stage EXCEPT ![Len(stage)] = s]
  PROVE  /\ InHand \in 1..Len(stage) /\ InHand \in Messages /\ stage[InHand] = "held"
         /\ stage' \in Seq(Session!Stages) /\ Len(stage') = Len(stage)
         /\ stage'[InHand] = s
         /\ \A n \in 1..Len(stage) : n # InHand => stage'[n] = stage[n]
         /\ req[InHand] \in Request
<1>1. stage \in Seq(Session!Stages) /\ stage # <<>> /\ stage[Len(stage)] = "held"
  BY DEF TypeOK, Session!HoldingOne
<1>2. /\ stage' \in Seq(Session!Stages) /\ Len(stage') = Len(stage)
      /\ Len(stage) \in 1..Len(stage) /\ stage'[Len(stage)] = s
      /\ \A n \in 1..Len(stage) : n # Len(stage) => stage'[n] = stage[n]
  BY <1>1, LastReplaced
<1>3. req \in Seq(Request) /\ Len(req) = Len(stage) /\ Len(req) <= MaxMessages
  BY DEF TypeOK
<1> PICK k \in 1..Len(req) : k = Len(stage)
  BY <1>2, <1>3
<1>4. req[k] \in Request
  BY <1>3
<1>5. Len(req) \in Nat /\ MaxMessages \in Nat
  BY <1>3, ServerAssumption
<1>6. k \in Messages
  BY <1>3, <1>5 DEF Messages
<1> QED BY <1>1, <1>2, <1>4, <1>6 DEF InHand

(* A call is answered. *)
LEMMA AnswerFacts ==
  ASSUME TypeOK, NEW n \in Calls, Session!Answer(n)
  PROVE  /\ stage' \in Seq(Session!Stages) /\ Len(stage') = Len(stage)
         /\ stage'[n] = "answered"
         /\ \A m \in 1..Len(stage) : m # n => stage'[m] = stage[m]
<1>1. n \in 1..Len(stage)
  BY CallFacts
<1>2. stage' = [stage EXCEPT ![n] = "answered"]
  BY DEF Session!Answer
<1>3. stage \in Seq(Session!Stages) /\ "answered" \in Session!Stages
  BY DEF TypeOK, Session!Stages
<1>4. stage' \in Seq(Session!Stages) /\ Len(stage') = Len(stage)
  BY <1>1, <1>2, <1>3
<1>5. stage'[n] = "answered"
  BY <1>1, <1>2, <1>3
<1>6. \A m \in 1..Len(stage) : m # n => stage'[m] = stage[m]
  BY <1>2, <1>3
<1> QED BY <1>4, <1>5, <1>6

LogEntry == [msg : Messages, db : Databases, how : Statements]

(* A statement of call n is executed, in the database of its pool. *)
LEMMA ExecutedFacts ==
  ASSUME Types, NEW n \in Calls, Head(todo[n]) \in Statements, pc[n] = "done",
         log' = Executed(n)
  PROVE  /\ log' \in Seq(LogEntry)
         /\ Len(log') = Len(log) + 1 /\ Len(log) \in Nat
         /\ \A i \in 1..Len(log) : log'[i] = log[i] /\ i \in 1..Len(log') /\ i # Len(log')
         /\ Len(log') \in 1..Len(log')
         /\ \A i \in 1..Len(log') : i \in 1..Len(log) \/ i = Len(log')
         /\ log'[Len(log')].msg = n
         /\ log'[Len(log')].how = Head(todo[n])
         /\ log'[Len(log')].db = pools[result[n]]
<1> DEFINE e == [msg |-> n, db |-> pools[result[n]], how |-> Head(todo[n])]
<1>1. n \in Messages
  BY CallFacts DEF Types
<1>2. pools \in Seq(Databases) /\ result[n] \in 0..Len(pools) /\ result[n] # 0
  BY <1>1 DEF Types, PoolP!Types, PoolP!TypeOK, PoolP!Opened
<1>3. result[n] \in 1..Len(pools)
  BY <1>2
<1>4. e \in LogEntry
  BY <1>1, <1>2, <1>3 DEF LogEntry
<1>5. log \in Seq(LogEntry) /\ log' = Append(log, e)
  BY DEF Types, TypeOK, LogEntry, Executed
<1>6. e.msg = n /\ e.how = Head(todo[n]) /\ e.db = pools[result[n]]
  OBVIOUS
<1> HIDE DEF e
<1> QED BY <1>4, <1>5, <1>6, AppendFacts

-----------------------------------------------------------------------------
(* The pools. *)

(* Whatever the program does, to the pools it is a step of theirs. *)
LEMMA PoolSteps == Types /\ [Next]_vars => [PoolP!Next]_(PoolP!vars)
<1> SUFFICES ASSUME Types, [Next]_vars PROVE [PoolP!Next]_(PoolP!vars)
  OBVIOUS
<1>1. ASSUME UNCHANGED poolVars PROVE [PoolP!Next]_(PoolP!vars)
  BY <1>1 DEF poolVars, PoolP!vars
<1>2. Running => ~crashed
  BY DEF Types
<1>3. ASSUME NEW n \in Messages, EnterDB(n) PROVE PoolP!Next
  <2>1. n \in Calls /\ Running
    BY <1>3 DEF EnterDB, At
  <2>2. req[n].db \in Databases
    BY <2>1, CallFacts DEF Types
  <2>3. PoolP!Call(n, req[n].db)
    BY <1>3, <2>2, SamePools DEF EnterDB
  <2> QED BY <1>2, <2>1, <2>2, <2>3 DEF PoolP!Next
<1>4. ASSUME NEW n \in Messages, InDB(n) PROVE PoolP!Next
  <2>1. Running
    BY <1>4 DEF InDB, At
  <2>2. \/ PoolP!NilCheck(n) \/ PoolP!MakeMap(n) \/ PoolP!Lookup(n)
        \/ PoolP!Connect(n) \/ PoolP!ConnectFails(n) \/ PoolP!Store(n)
    BY <1>4, SamePools DEF InDB
  <2> QED BY <1>2, <2>1, <2>2 DEF PoolP!Next
<1>5. CASE Crash \/ Toggle
  BY <1>2, <1>5, SamePools DEF Crash, Toggle, PoolP!Next
<1>6. ASSUME NEW n \in Messages, DBFails(n) \/ Succeeds(n) \/ Breaks(n) \/ Answer(n)
      PROVE  UNCHANGED poolVars
  BY <1>6 DEF DBFails, Succeeds, Breaks, Answer
<1>7. CASE \/ (\E r \in Requests : TakeUp(r)) \/ Reject \/ Serve \/ Close \/ Drop \/ Exit
           \/ ClientReads \/ Terminated \/ UNCHANGED vars
  BY <1>1, <1>7 DEF TakeUp, Reject, Serve, Close, Drop, Exit, ClientReads, Terminated, vars
<1> QED BY <1>1, <1>3, <1>4, <1>5, <1>6, <1>7 DEF Next, Handler

LEMMA PoolTypesNext == Types /\ [Next]_vars => PoolP!Types' /\ Pool!TypeOK'
<1> SUFFICES ASSUME Types, [Next]_vars PROVE PoolP!Types' /\ Pool!TypeOK'
  OBVIOUS
<1>1. PoolP!Types /\ [PoolP!Next]_(PoolP!vars)
  BY PoolSteps DEF Types
<1>2. PoolP!Types'
  BY <1>1, PoolConstants, PoolP!TypesNext
<1>3. PoolP!TypeOK'
  BY <1>2 DEF PoolP!Types
<1>4. Pool!TypeOK'
  BY <1>3 DEF Pool!TypeOK, PoolP!TypeOK, Pool!Labels, PoolP!Labels, Pool!Outside,
              PoolP!Outside
<1> QED BY <1>2, <1>4

-----------------------------------------------------------------------------
(* Types. *)

(* The types of what is not the pools'. *)
OwnTypes ==
  /\ stage \in Seq(Session!Stages)
  /\ req \in Seq(Request) /\ Len(req) = Len(stage) /\ Len(req) <= MaxMessages
  /\ todo \in [Messages -> Seq(Statements \cup {"DB"})]
  /\ outcome \in [Messages -> {"none", "ok", "error"}]
  /\ \A n \in Messages : outcome[n] # "none" => todo[n] = <<>>
  /\ log \in Seq(LogEntry)
  /\ unread \in 0..Capacity
  /\ open \in BOOLEAN /\ readOnly \in BOOLEAN /\ process \in {"running", "ended"}

LEMMA TypeOKIs == TypeOK <=> OwnTypes /\ Pool!TypeOK
BY DEF TypeOK, OwnTypes, LogEntry

LEMMA TypesInit == ASSUME Databases # {} PROVE Init => Types
<1> SUFFICES ASSUME Init PROVE Types
  OBVIOUS
<1>1. PoolP!Init
  BY SamePools DEF Init
<1>2. PoolP!Types
  BY <1>1, PoolConstants, PoolP!TypesInit
<1>3. Pool!TypeOK
  BY <1>2, SamePools DEF PoolP!Types
<1>4. stage = <<>> /\ open = TRUE /\ req = <<>> /\ log = <<>>
  BY DEF Init, Session!Init
<1>5. stage \in Seq(Session!Stages) /\ req \in Seq(Request) /\ log \in Seq(LogEntry)
      /\ Len(req) = Len(stage) /\ Len(req) <= MaxMessages
  BY <1>4, ServerAssumption
<1>6. todo \in [Messages -> Seq(Statements \cup {"DB"})]
  BY DEF Init
<1>7. unread \in 0..Capacity
  BY ServerAssumption DEF Init
<1>8. readOnly \in BOOLEAN
  BY ServerAssumption DEF Init, Environment
<1>9. OwnTypes
  BY <1>4, <1>5, <1>6, <1>7, <1>8 DEF OwnTypes, Init
<1>10. ~crashed
  BY <1>1 DEF PoolP!Init
<1> QED BY <1>2, <1>3, <1>9, <1>10, TypeOKIs DEF Types

(* One line more in the pipe. *)
LEMMA SendFacts == ASSUME unread \in 0..Capacity, Send PROVE unread' \in 0..Capacity
BY ServerAssumption DEF Send

(* A handler that is done. *)
LEMMA FinishFacts ==
  ASSUME OwnTypes, NEW n \in Messages, NEW k \in {"none", "ok", "error"}, Finish(n, k)
  PROVE  /\ todo' \in [Messages -> Seq(Statements \cup {"DB"})]
         /\ outcome' \in [Messages -> {"none", "ok", "error"}]
         /\ \A m \in Messages : outcome'[m] # "none" => todo'[m] = <<>>
         /\ outcome'[n] = k /\ todo'[n] = <<>>
         /\ \A m \in Messages : m # n => outcome'[m] = outcome[m] /\ todo'[m] = todo[m]
<1>1. <<>> \in Seq(Statements \cup {"DB"})
  OBVIOUS
<1> QED BY <1>1 DEF Finish, OwnTypes

(* A handler that goes on to its next step. *)
LEMMA TailFacts ==
  ASSUME OwnTypes, NEW n \in Messages, todo[n] # <<>>,
         todo' = [todo EXCEPT ![n] = Tail(todo[n])], UNCHANGED outcome
  PROVE  /\ todo' \in [Messages -> Seq(Statements \cup {"DB"})]
         /\ \A m \in Messages : outcome'[m] # "none" => todo'[m] = <<>>
         /\ todo'[n] = Tail(todo[n])
         /\ \A m \in Messages : m # n => todo'[m] = todo[m]
<1>1. Tail(todo[n]) \in Seq(Statements \cup {"DB"})
  BY DEF OwnTypes
<1> DEFINE t == Tail(todo[n])
<1> HIDE DEF t
<1>2. t \in Seq(Statements \cup {"DB"}) /\ todo' = [todo EXCEPT ![n] = t]
  BY <1>1 DEF t
<1>3. outcome[n] = "none"
  BY DEF OwnTypes
<1>4. /\ todo' \in [Messages -> Seq(Statements \cup {"DB"})]
      /\ todo'[n] = t /\ \A m \in Messages : m # n => todo'[m] = todo[m]
  BY <1>2 DEF OwnTypes
<1> QED BY <1>3, <1>4 DEF OwnTypes, t

(* A call begins: with its steps before it, or refused. *)
LEMMA ServeFacts ==
  ASSUME TypeOK, Serve
  PROVE  /\ Session!HoldingOne /\ stage' = [stage EXCEPT ![Len(stage)] = "served"]
         /\ InHand \in Messages /\ InHand \in 1..Len(stage)
         /\ req[InHand] \in Request /\ req[InHand].op # "malformed"
         /\ todo' \in [Messages -> Seq(Statements \cup {"DB"})]
         /\ outcome' \in [Messages -> {"none", "ok", "error"}]
         /\ \A m \in Messages : outcome'[m] # "none" => todo'[m] = <<>>
         /\ ~Refused(req[InHand]) => todo'[InHand] = Steps(req[InHand]) /\ outcome'[InHand] = "none"
         /\ Refused(req[InHand]) => outcome'[InHand] = "error"
         /\ \A m \in Messages : m # InHand => outcome'[m] = outcome[m] /\ todo'[m] = todo[m]
<1>0. "served" \in Session!Stages
  BY DEF Session!Stages
<1>1. Session!HoldingOne /\ stage' = [stage EXCEPT ![Len(stage)] = "served"]
  BY DEF Serve, Session!Serve, Session!Settle
<1>2. /\ InHand \in Messages /\ InHand \in 1..Len(stage) /\ req[InHand] \in Request
      /\ req[InHand].op # "malformed"
  BY <1>0, <1>1, SettleFacts DEF Serve
<1> DEFINE t == IF Refused(req[InHand]) THEN <<>> ELSE Steps(req[InHand])
           o == IF Refused(req[InHand]) THEN "error" ELSE "none"
<1>3. t \in Seq(Statements \cup {"DB"})
  <2>1. Steps(req[InHand]) \in Seq(Statements \cup {"DB"})
    BY <1>2, StepsFacts, RestFacts
  <2>2. <<>> \in Seq(Statements \cup {"DB"})
    OBVIOUS
  <2> QED BY <2>1, <2>2
<1>4. todo' = [todo EXCEPT ![InHand] = t] /\ outcome' = [outcome EXCEPT ![InHand] = o]
  BY DEF Serve
<1>5. o \in {"none", "ok", "error"} /\ (o # "none" => t = <<>>)
  OBVIOUS
<1>6. OwnTypes
  BY TypeOKIs
<1>7. /\ ~Refused(req[InHand]) => t = Steps(req[InHand]) /\ o = "none"
      /\ Refused(req[InHand]) => o = "error"
  OBVIOUS
<1> HIDE DEF t, o
<1>8. /\ todo' \in [Messages -> Seq(Statements \cup {"DB"})]
      /\ todo'[InHand] = t /\ \A m \in Messages : m # InHand => todo'[m] = todo[m]
  BY <1>2, <1>3, <1>4, <1>6 DEF OwnTypes
<1>9. /\ outcome' \in [Messages -> {"none", "ok", "error"}]
      /\ outcome'[InHand] = o /\ \A m \in Messages : m # InHand => outcome'[m] = outcome[m]
  BY <1>2, <1>4, <1>5, <1>6 DEF OwnTypes
<1> QED BY <1>1, <1>2, <1>5, <1>6, <1>7, <1>8, <1>9 DEF OwnTypes

LEMMA OwnTypesNext == Types /\ [Next]_vars => OwnTypes'
<1> SUFFICES ASSUME Types, [Next]_vars PROVE OwnTypes'
  OBVIOUS
<1>o. TypeOK /\ OwnTypes
  BY TypeOKIs DEF Types
<1>s. {"held", "served", "answered", "rejected", "dropped"} \subseteq Session!Stages
  BY DEF Session!Stages
<1>1. ASSUME UNCHANGED <<stage, req, todo, outcome, log>>,
             open' \in BOOLEAN, UNCHANGED readOnly,
             unread' \in 0..Capacity, process' \in {"running", "ended"}
      PROVE  OwnTypes'
  BY <1>o, <1>1 DEF OwnTypes
<1>2. ASSUME NEW r \in Requests, TakeUp(r) PROVE OwnTypes'
  <2>1. /\ stage' = Append(stage, "held") /\ req' = Append(req, r)
        /\ Len(stage) < MaxMessages
        /\ UNCHANGED <<open, readOnly, todo, outcome, log, unread, process>>
    BY <1>2 DEF TakeUp, Session!TakeUp
  <2>2. stage' \in Seq(Session!Stages) /\ Len(stage') = Len(stage) + 1 /\ Len(stage) \in Nat
    BY <1>o, <1>s, <2>1, AppendFacts DEF OwnTypes
  <2>3. r \in Request
    BY ServerAssumption
  <2>4. req' \in Seq(Request) /\ Len(req') = Len(req) + 1
    BY <1>o, <2>1, <2>3, AppendFacts DEF OwnTypes
  <2>5. Len(req) = Len(stage) /\ MaxMessages \in Nat
    BY <1>o, ServerAssumption DEF OwnTypes
  <2>6. Len(req') = Len(stage') /\ Len(req') <= MaxMessages
    BY <2>1, <2>2, <2>4, <2>5
  <2> QED BY <1>o, <2>1, <2>2, <2>4, <2>6 DEF OwnTypes
<1>3. ASSUME NEW s \in {"rejected", "dropped"}, Session!HoldingOne,
             stage' = [stage EXCEPT ![Len(stage)] = s], open' \in BOOLEAN,
             UNCHANGED <<readOnly, callVars, process>>, unread' \in 0..Capacity
      PROVE  OwnTypes'
  <2>1. stage' \in Seq(Session!Stages) /\ Len(stage') = Len(stage)
    BY <1>o, <1>s, <1>3, SettleFacts
  <2> QED BY <1>o, <1>3, <2>1 DEF OwnTypes, callVars
<1>4. CASE Reject
  <2>1. /\ Session!HoldingOne /\ stage' = [stage EXCEPT ![Len(stage)] = "rejected"]
        /\ UNCHANGED <<open, readOnly, callVars, process>>
    BY <1>4 DEF Reject, Session!Reject, Session!Settle
  <2>2. unread' \in 0..Capacity
    BY <1>o, <1>4, SendFacts DEF Reject, OwnTypes
  <2> QED BY <1>o, <1>3, <2>1, <2>2 DEF OwnTypes
<1>5. CASE Serve
  <2>1. /\ UNCHANGED <<open, readOnly, req, log, unread, process>>
    BY <1>5 DEF Serve, Session!Serve, Session!Settle
  <2>2. stage' \in Seq(Session!Stages) /\ Len(stage') = Len(stage)
    BY <1>o, <1>s, <1>5, ServeFacts, SettleFacts
  <2>3. /\ todo' \in [Messages -> Seq(Statements \cup {"DB"})]
        /\ outcome' \in [Messages -> {"none", "ok", "error"}]
        /\ \A m \in Messages : outcome'[m] # "none" => todo'[m] = <<>>
    BY <1>o, <1>5, ServeFacts
  <2> QED BY <1>o, <2>1, <2>2, <2>3 DEF OwnTypes
<1>6. ASSUME NEW n \in Messages, EnterDB(n) PROVE OwnTypes'
  <2>1. /\ todo[n] # <<>> /\ todo' = [todo EXCEPT ![n] = Tail(todo[n])]
        /\ UNCHANGED <<stage, open, readOnly, req, outcome, log, unread, process>>
    BY <1>6 DEF EnterDB, At, sessionVars
  <2>2. /\ todo' \in [Messages -> Seq(Statements \cup {"DB"})]
        /\ \A m \in Messages : outcome'[m] # "none" => todo'[m] = <<>>
    BY <1>o, <2>1, TailFacts
  <2> QED BY <1>o, <2>1, <2>2 DEF OwnTypes
<1>7. ASSUME NEW n \in Messages, InDB(n) PROVE OwnTypes'
  BY <1>o, <1>1, <1>7 DEF InDB, sessionVars, callVars, OwnTypes
<1>8. ASSUME NEW n \in Messages, DBFails(n) \/ Succeeds(n) \/ Breaks(n) PROVE OwnTypes'
  <2>1. /\ n \in Calls /\ todo[n] # <<>> /\ Head(todo[n]) \in Statements
        /\ UNCHANGED <<stage, open, readOnly, req, unread, process>>
    BY <1>8 DEF DBFails, Succeeds, Breaks, At, sessionVars
  <2>2. log' \in Seq(LogEntry)
    <3>1. UNCHANGED log \/ (pc[n] = "done" /\ log' = Executed(n))
      BY <1>8 DEF DBFails, Succeeds, Breaks
    <3> QED BY <1>o, <2>1, <3>1, ExecutedFacts DEF OwnTypes
  <2>3. /\ todo' \in [Messages -> Seq(Statements \cup {"DB"})]
        /\ outcome' \in [Messages -> {"none", "ok", "error"}]
        /\ \A m \in Messages : outcome'[m] # "none" => todo'[m] = <<>>
    <3>1. CASE \E k \in {"ok", "error"} : Finish(n, k)
      BY <1>o, <3>1, FinishFacts
    <3>2. CASE todo' = [todo EXCEPT ![n] = Tail(todo[n])] /\ UNCHANGED outcome
      BY <1>o, <2>1, <3>2, TailFacts DEF OwnTypes
    <3> QED BY <1>8, <3>1, <3>2 DEF DBFails, Succeeds, Breaks
  <2> QED BY <1>o, <2>1, <2>2, <2>3 DEF OwnTypes
<1>9. ASSUME NEW n \in Messages, Answer(n) PROVE OwnTypes'
  <2>1. /\ n \in Calls /\ Session!Answer(n)
        /\ UNCHANGED <<open, readOnly, req, todo, outcome, log, process>>
    BY <1>9 DEF Answer, Session!Answer, callVars
  <2>2. unread' \in 0..Capacity
    BY <1>o, <1>9, SendFacts DEF Answer, OwnTypes
  <2>3. stage' \in Seq(Session!Stages) /\ Len(stage') = Len(stage)
    BY <1>o, <2>1, AnswerFacts
  <2> QED BY <1>o, <2>1, <2>2, <2>3 DEF OwnTypes
<1>10. CASE Close
  <2>1. UNCHANGED <<readOnly, callVars, unread, process>> /\ open' \in BOOLEAN
    BY <1>10 DEF Close, Session!Close
  <2>2. CASE UNCHANGED stage
    BY <1>o, <1>1, <2>1, <2>2 DEF callVars, OwnTypes
  <2>3. CASE Session!HoldingOne /\ stage' = [stage EXCEPT ![Len(stage)] = "dropped"]
    BY <1>o, <1>3, <2>1, <2>3 DEF OwnTypes
  <2> QED BY <1>10, <2>2, <2>3 DEF Close, Session!Close
<1>11. CASE Drop
  <2>1. /\ UNCHANGED <<open, readOnly, callVars, unread, process>>
        /\ Session!HoldingOne /\ stage' = [stage EXCEPT ![Len(stage)] = "dropped"]
    BY <1>11 DEF Drop, Session!Drop, Session!Settle
  <2> QED BY <1>o, <1>3, <2>1 DEF OwnTypes
<1>12. CASE Exit \/ Crash \/ Toggle
  <2>1. /\ UNCHANGED <<stage, open, readOnly, req, todo, outcome, log, unread>>
        /\ process' \in {"running", "ended"}
    BY <1>o, <1>12 DEF Exit, Crash, Toggle, sessionVars, callVars, OwnTypes
  <2> QED BY <1>o, <1>1, <2>1 DEF OwnTypes
<1>13. CASE ClientReads
  <2>1. /\ UNCHANGED <<stage, open, readOnly, req, todo, outcome, log, process>>
        /\ unread > 0 /\ unread' = unread - 1
    BY <1>13 DEF ClientReads, sessionVars, callVars
  <2>2. unread' \in 0..Capacity
    BY <1>o, <2>1, ServerAssumption DEF OwnTypes
  <2> QED BY <1>o, <1>1, <2>1, <2>2 DEF OwnTypes
<1>14. CASE Terminated \/ UNCHANGED vars
  BY <1>o, <1>1, <1>14 DEF Terminated, vars, sessionVars, callVars, OwnTypes
<1> QED
  BY <1>2, <1>4, <1>5, <1>6, <1>7, <1>8, <1>9, <1>10, <1>11, <1>12, <1>13, <1>14
     DEF Next, Handler

LEMMA TypesNext == Types /\ [Next]_vars => Types'
<1> SUFFICES ASSUME Types, [Next]_vars PROVE Types'
  OBVIOUS
<1>1. OwnTypes' /\ PoolP!Types' /\ Pool!TypeOK'
  BY OwnTypesNext, PoolTypesNext
<1>2. TypeOK'
  BY <1>1 DEF TypeOK, OwnTypes, LogEntry
<1>3. crashed' => ~Running'
  <2>1. crashed' = crashed \/ Crash
    BY DEF Next, vars, poolVars, TakeUp, Reject, Serve, Close, Drop, Exit, ClientReads,
       Toggle, Terminated, Handler, EnterDB, InDB, DBFails, Succeeds, Breaks, Answer,
       Pool!Call, Pool!NilCheck, Pool!MakeMap, Pool!Lookup, Pool!Connect,
       Pool!ConnectFails, Pool!Store, Pool!Toggle
  <2>2. process' = "running" => process = "running"
    BY DEF Next, vars, TakeUp, Reject, Serve, Close, Drop, Exit, Crash, ClientReads,
       Toggle, Terminated, Handler, EnterDB, InDB, DBFails, Succeeds, Breaks, Answer,
       Running
  <2>3. Crash => process' = "ended"
    BY DEF Crash
  <2> QED BY <2>1, <2>2, <2>3 DEF Types, Running
<1> QED BY <1>1, <1>2, <1>3 DEF Types

(* Every variable of the program keeps its type, and a call that has its   *)
(* outcome has nothing left to do.                                         *)
THEOREM TypeCorrect == ASSUME Databases # {} PROVE Spec => []TypeOK
<1>1. Init => Types
  BY TypesInit
<1>2. Types => TypeOK
  BY DEF Types
<1> QED BY <1>1, <1>2, TypesNext, PTL DEF Spec

-----------------------------------------------------------------------------
(* What every step leaves as it was. *)

(* The steps that leave the stages of the messages alone. *)
LEMMA StageKept ==
  [Next]_vars =>
    \/ UNCHANGED stage
    \/ \E r \in Requests : TakeUp(r)
    \/ Reject \/ Serve \/ Drop
    \/ Close /\ Session!HoldingOne /\ stage' = [stage EXCEPT ![Len(stage)] = "dropped"]
    \/ \E n \in Calls : Answer(n)
BY DEF Next, vars, Handler, sessionVars, EnterDB, InDB, DBFails, Succeeds, Breaks, Answer,
   Close, Session!Close, Exit, Crash, ClientReads, Toggle, Terminated

(* A message that left the hand of readLoop never comes back to it, and    *)
(* only Serve makes a call.                                                *)
LEMMA StageSteps ==
  ASSUME Types, [Next]_vars
  PROVE  /\ \A n \in 1..Len(stage) :
              /\ n \in 1..Len(stage')
              /\ stage[n] # "held" => stage'[n] # "held"
         /\ Serve => Calls' = Calls \cup {InHand}
         /\ ~Serve => Calls' \subseteq Calls
<1>o. TypeOK /\ stage \in Seq(Session!Stages) /\ Len(stage) \in Nat
  BY DEF Types, TypeOK
<1>s. {"held", "served", "answered", "rejected", "dropped"} \subseteq Session!Stages
  BY DEF Session!Stages
<1>1. CASE UNCHANGED stage /\ ~Serve
  BY <1>1 DEF Calls
<1>2. ASSUME NEW r \in Requests, TakeUp(r)
      PROVE  /\ \A n \in 1..Len(stage) :
                  n \in 1..Len(stage') /\ (stage[n] # "held" => stage'[n] # "held")
             /\ Calls' \subseteq Calls
  <2>1. stage' = Append(stage, "held")
    BY <1>2 DEF TakeUp
  <2>2. /\ \A n \in 1..Len(stage) : stage'[n] = stage[n] /\ n \in 1..Len(stage')
        /\ stage'[Len(stage')] = "held"
        /\ \A n \in 1..Len(stage') : n \in 1..Len(stage) \/ n = Len(stage')
    BY <1>o, <1>s, <2>1, AppendFacts
  <2> QED BY <2>2 DEF Calls
<1>3. ASSUME NEW s \in {"served", "rejected", "dropped"}, Session!HoldingOne,
             stage' = [stage EXCEPT ![Len(stage)] = s]
      PROVE  /\ \A n \in 1..Len(stage) :
                  n \in 1..Len(stage') /\ (stage[n] # "held" => stage'[n] # "held")
             /\ s = "served" => Calls' = Calls \cup {InHand}
             /\ s # "served" => Calls' \subseteq Calls
  <2>1. /\ InHand \in 1..Len(stage) /\ stage[InHand] = "held"
        /\ Len(stage') = Len(stage)
        /\ stage'[InHand] = s
        /\ \A n \in 1..Len(stage) : n # InHand => stage'[n] = stage[n]
    BY <1>o, <1>s, <1>3, SettleFacts
  <2> QED BY <2>1 DEF Calls
<1>4. CASE Serve
  <2>1. Session!HoldingOne /\ stage' = [stage EXCEPT ![Len(stage)] = "served"]
    BY <1>o, <1>4, ServeFacts
  <2> QED BY <1>3, <1>4, <2>1
<1>5. CASE ~Serve /\ \/ Reject \/ Drop
                     \/ Session!HoldingOne /\ stage' = [stage EXCEPT ![Len(stage)] = "dropped"]
  <2>1. PICK s \in {"rejected", "dropped"} :
          Session!HoldingOne /\ stage' = [stage EXCEPT ![Len(stage)] = s]
    BY <1>5 DEF Reject, Session!Reject, Drop, Session!Drop, Session!Settle
  <2> QED BY <1>3, <1>5, <2>1
<1>6. ASSUME NEW n \in Calls, Answer(n)
      PROVE  /\ \A m \in 1..Len(stage) :
                  m \in 1..Len(stage') /\ (stage[m] # "held" => stage'[m] # "held")
             /\ Calls' \subseteq Calls
  <2>1. /\ Len(stage') = Len(stage) /\ stage'[n] = "answered"
        /\ \A m \in 1..Len(stage) : m # n => stage'[m] = stage[m]
    BY <1>o, <1>6, AnswerFacts DEF Answer
  <2> QED BY <2>1 DEF Calls
<1> QED BY <1>1, <1>2, <1>4, <1>5, <1>6, StageKept

(* The log grows by a statement of a call, while the stages stay. *)
LEMMA LogSteps ==
  [Next]_vars =>
    \/ UNCHANGED log
    \/ \E n \in Calls : /\ Succeeds(n) \/ Breaks(n)
                        /\ log' = Executed(n)
                        /\ Head(todo[n]) \in Statements /\ pc[n] = "done"
                        /\ UNCHANGED <<stage, req, readOnly>>
BY DEF Next, vars, Handler, callVars, sessionVars, TakeUp, Reject, Serve, EnterDB, InDB,
   DBFails, Succeeds, Breaks, Answer, Close, Drop, Exit, Crash, ClientReads, Toggle,
   Terminated, At

-----------------------------------------------------------------------------
(* The order of the statements. *)

LEMMA PastInit == Init => Past
BY DEF Init, Past

LEMMA PastNext == Types /\ Past /\ [Next]_vars => Past'
<1> SUFFICES ASSUME Types, Past, [Next]_vars PROVE Past'
  OBVIOUS
<1>1. \A n \in 1..Len(stage) :
        n \in 1..Len(stage') /\ (stage[n] # "held" => stage'[n] # "held")
  BY StageSteps
<1>2. CASE UNCHANGED log
  BY <1>1, <1>2 DEF Past
<1>3. ASSUME NEW n \in Calls, log' = Executed(n),
             Head(todo[n]) \in Statements, pc[n] = "done", UNCHANGED stage
      PROVE  Past'
  <2>1. /\ \A i \in 1..Len(log) : log'[i] = log[i]
        /\ \A i \in 1..Len(log') : i \in 1..Len(log) \/ i = Len(log')
        /\ log'[Len(log')].msg = n
    BY <1>3, ExecutedFacts
  <2>2. n \in 1..Len(stage) /\ stage[n] # "held"
    BY DEF Calls
  <2> QED BY <1>3, <2>1, <2>2 DEF Past
<1> QED BY <1>2, <1>3, LogSteps

(* A server without a free slot serves nothing: with one slot, there is no *)
(* call in progress when the next one begins.                              *)
LEMMA NoCallBefore == ASSUME Types, serial, Serve PROVE Calls = {}
<1>1. Cardinality(Calls) < 1
  BY DEF Serve, Slots
<1>2. Len(stage) \in Nat
  BY DEF Types, TypeOK
<1>3. IsFiniteSet(1..Len(stage))
  BY <1>2, FS_Interval
<1>4. IsFiniteSet(Calls)
  BY <1>3, FS_Subset DEF Calls
<1>5. Cardinality(Calls) \in Nat
  BY <1>4, FS_CardinalityType
<1>6. Cardinality(Calls) = 0
  BY <1>1, <1>5
<1> QED BY <1>4, <1>6, FS_EmptySet

LEMMA OneCallInit == Init => OneCall /\ InMessageOrder
BY DEF Init, OneCall, InMessageOrder, Calls, Session!Init

LEMMA SerialFixed == [Next]_vars => UNCHANGED serial
BY DEF Next, vars, poolVars, TakeUp, Reject, Serve, Close, Drop, Exit, Crash, ClientReads,
   Toggle, Terminated, Handler, EnterDB, InDB, DBFails, Succeeds, Breaks, Answer,
   Pool!Call, Pool!NilCheck, Pool!MakeMap, Pool!Lookup, Pool!Connect, Pool!ConnectFails,
   Pool!Store, Pool!Crash, Pool!Toggle

LEMMA OrderNext ==
  Types /\ Past /\ OneCall /\ InMessageOrder /\ [Next]_vars => OneCall' /\ InMessageOrder'
<1> SUFFICES ASSUME Types, Past, OneCall, InMessageOrder, [Next]_vars, serial, serial'
             PROVE  OneCall' /\ InMessageOrder'
  BY SerialFixed DEF OneCall, InMessageOrder
<1>0. /\ Len(stage) \in Nat
      /\ \A i \in 1..Len(log) : log[i].msg \in Nat
      /\ \A i \in 1..Len(log) : log[i].msg \in 1..Len(stage)
  BY DEF Past, Types, TypeOK
<1>1. ASSUME UNCHANGED log, Calls' \subseteq Calls PROVE OneCall' /\ InMessageOrder'
  BY <1>1 DEF OneCall, InMessageOrder
<1>2. CASE Serve
  <2>1. Calls' = {InHand}
    BY <1>2, NoCallBefore, StageSteps
  <2>2. UNCHANGED log
    BY <1>2 DEF Serve
  <2>3. \A i \in 1..Len(log) : log[i].msg <= Len(stage)
    BY <1>0
  <2> QED BY <2>1, <2>2, <2>3 DEF OneCall, InMessageOrder, InHand
<1>3. ASSUME NEW n \in Calls, log' = Executed(n),
             Head(todo[n]) \in Statements, pc[n] = "done", UNCHANGED stage
      PROVE  OneCall' /\ InMessageOrder'
  <2>1. /\ Len(log') = Len(log) + 1 /\ Len(log) \in Nat
        /\ \A i \in 1..Len(log) : log'[i] = log[i] /\ i # Len(log')
        /\ \A i \in 1..Len(log') : i \in 1..Len(log) \/ i = Len(log')
        /\ log'[Len(log')].msg = n
    BY <1>3, ExecutedFacts
  <2>2. Calls' = Calls /\ \A m \in Calls : m = n
    BY <1>3 DEF OneCall, Calls
  <2>3. n \in Nat /\ \A i \in 1..Len(log) : log[i].msg <= n
    BY CallFacts DEF OneCall, Types
  <2>4. \A i \in 1..Len(log') : log'[i].msg <= n
    BY <2>1, <2>3
  <2>5. OneCall'
    BY <2>2, <2>4 DEF OneCall
  <2>6. InMessageOrder'
    <3> SUFFICES ASSUME NEW i \in 1..Len(log'), NEW j \in 1..Len(log'), i < j
                 PROVE  log'[i].msg <= log'[j].msg
      BY DEF InMessageOrder
    <3>1. CASE j = Len(log')
      BY <2>1, <2>4, <3>1
    <3>2. CASE j \in 1..Len(log)
      <4>1. i \in 1..Len(log)
        BY <2>1, <3>2
      <4> QED BY <2>1, <3>2, <4>1 DEF InMessageOrder
    <3> QED BY <2>1, <3>1, <3>2
  <2> QED BY <2>5, <2>6
<1>4. CASE ~Serve /\ UNCHANGED log
  BY <1>1, <1>4, StageSteps
<1> QED BY <1>2, <1>3, <1>4, LogSteps

(* A server that runs one call after the other executes the statements in  *)
(* the order of the messages, for any requests and any way the databases   *)
(* and the session fail.                                                   *)
THEOREM StatementsInOrder == ASSUME Databases # {} PROVE Spec => []InMessageOrder
<1>1. Init => Types
  BY TypesInit
<1> QED
  BY <1>1, TypesNext, PastInit, PastNext, OneCallInit, OrderNext, PTL DEF Spec

-----------------------------------------------------------------------------
(* What the calls have before them. *)

LEMMA PlanInit == Init => Plan
BY DEF Init, Plan, Calls, Session!Init

(* What call n has before it depends on little. *)
PlanOf(n) ==
  /\ outcome[n] = "none" =>
       /\ todo[n] \in Rest(req[n])
       /\ ~Refused(req[n])
       /\ Head(todo[n]) # "DB" => arg[n] = req[n].db
       /\ req[n].op = "write" => ~Wrote(n)
  /\ outcome[n] = "ok" /\ req[n].op = "write" => Wrote(n)

LEMMA PlanIs == Plan <=> \A n \in Calls : PlanOf(n)
BY DEF Plan, PlanOf

LEMMA PlanKept ==
  ASSUME NEW n, PlanOf(n), Wrote(n)' <=> Wrote(n), UNCHANGED readOnly,
         todo'[n] = todo[n], outcome'[n] = outcome[n], req'[n] = req[n], arg'[n] = arg[n]
  PROVE  PlanOf(n)'
BY DEF PlanOf, Refused

(* One more statement, of call n. *)
LEMMA WroteAfter ==
  ASSUME Types, NEW n \in Calls, Head(todo[n]) \in Statements, pc[n] = "done",
         log' = Executed(n)
  PROVE  /\ \A m : Wrote(m)' <=> Wrote(m) \/ (m = n /\ Head(todo[n]) = "exec")
<1>1. /\ \A i \in 1..Len(log) : log'[i] = log[i] /\ i \in 1..Len(log')
      /\ Len(log') \in 1..Len(log')
      /\ \A i \in 1..Len(log') : i \in 1..Len(log) \/ i = Len(log')
      /\ log'[Len(log')].msg = n
      /\ log'[Len(log')].how = Head(todo[n])
  BY ExecutedFacts
<1> QED BY <1>1 DEF Wrote

LEMMA PlanNext == Types /\ Past /\ Plan /\ [Next]_vars => Plan'
<1> SUFFICES ASSUME Types, Past, \A n \in Calls : PlanOf(n), [Next]_vars,
                    NEW m \in Calls'
             PROVE  PlanOf(m)'
  <2>1. Plan' <=> \A n \in Calls' : PlanOf(n)'
    BY DEF Plan, PlanOf
  <2> QED BY <2>1, PlanIs
<1>o. TypeOK /\ OwnTypes
  BY TypeOKIs DEF Types
<1>c. ~Serve => m \in Calls
  BY StageSteps
<1>w. UNCHANGED log => (Wrote(m)' <=> Wrote(m))
  BY DEF Wrote
<1>1. ASSUME NEW r \in Requests, TakeUp(r) PROVE PlanOf(m)'
  <2>1. ~Serve /\ UNCHANGED <<todo, outcome, log, readOnly, arg>> /\ req' = Append(req, r)
    <3>1. Len(stage') = Len(stage) + 1
      BY <1>o, <1>1, <1>o, AppendFacts DEF TakeUp, OwnTypes, Session!Stages
    <3>2. Serve => Len(stage') = Len(stage)
      BY <1>o, ServeFacts, SettleFacts DEF Session!Stages
    <3>3. Len(stage) \in Nat
      BY <1>o DEF OwnTypes
    <3>4. ~Serve
      BY <3>1, <3>2, <3>3
    <3> QED BY <1>1, <3>4 DEF TakeUp, poolVars
  <2>2. m \in Calls /\ m \in 1..Len(stage)
    BY <1>c, <2>1 DEF Calls
  <2>3. req'[m] = req[m]
    <3>1. r \in Request /\ req \in Seq(Request) /\ Len(req) = Len(stage)
      BY <1>o, ServerAssumption DEF OwnTypes
    <3> QED BY <2>1, <2>2, <3>1, AppendFacts
  <2> QED BY <1>w, <2>1, <2>2, <2>3, PlanKept
<1>2. CASE Serve
  <2> PICK c \in Messages : c = InHand
    BY <1>o, <1>2, ServeFacts
  <2>1. /\ stage[c] = "held" /\ req[c] \in Request
        /\ ~Refused(req[c]) => todo'[c] = Steps(req[c]) /\ outcome'[c] = "none"
        /\ Refused(req[c]) => outcome'[c] = "error"
        /\ \A k \in Messages : k # c => outcome'[k] = outcome[k] /\ todo'[k] = todo[k]
    BY <1>o, <1>2, ServeFacts, SettleFacts DEF Session!Stages
  <2>2. UNCHANGED <<req, log, readOnly, arg>>
    BY <1>2 DEF Serve, poolVars
  <2>3. CASE m = c
    <3>1. ~Wrote(m)'
      BY <1>w, <2>1, <2>2, <2>3 DEF Past, Wrote
    <3>2. CASE Refused(req[c])
      BY <2>1, <2>3, <3>2 DEF PlanOf
    <3>3. CASE ~Refused(req[c])
      <4>1. todo'[c] \in Rest(req[c]) /\ Head(todo'[c]) = "DB" /\ outcome'[c] = "none"
        BY <2>1, <3>3, StepsFacts
      <4>2. ~Refused(req[c])'
        BY <2>2, <3>3 DEF Refused
      <4> QED BY <2>2, <2>3, <3>1, <4>1, <4>2 DEF PlanOf
    <3> QED BY <3>2, <3>3
  <2>4. CASE m # c
    <3>1. m \in Calls
      BY <1>2, <2>4, StageSteps
    <3>2. m \in Messages
      BY <1>o, <3>1, CallFacts
    <3> QED BY <1>w, <2>1, <2>2, <2>4, <3>1, <3>2, PlanKept
  <2> QED BY <2>3, <2>4
<1>3. ASSUME NEW n \in Messages, EnterDB(n), ~Serve PROVE PlanOf(m)'
  <2>1. /\ n \in Calls /\ todo[n] # <<>> /\ Head(todo[n]) = "DB"
        /\ todo' = [todo EXCEPT ![n] = Tail(todo[n])]
        /\ arg' = [arg EXCEPT ![n] = req[n].db]
        /\ UNCHANGED <<readOnly, req, outcome, log>>
    BY <1>3 DEF EnterDB, At, Pool!Call
  <2>2. /\ todo'[n] = Tail(todo[n])
        /\ \A k \in Messages : k # n => todo'[k] = todo[k]
    BY <1>o, <2>1, TailFacts
  <2>3. arg \in [Messages -> Databases]
    BY DEF Types, PoolP!Types, PoolP!TypeOK
  <2>4. m \in Calls /\ m \in Messages
    BY <1>c, <1>o, <1>3, CallFacts
  <2>5. CASE m = n
    <3>1. outcome[n] = "none" /\ PlanOf(n) /\ req[n] \in Request
      BY <1>o, <2>1, <2>4, CallFacts DEF OwnTypes
    <3>2. todo[n] \in Rest(req[n]) /\ ~Refused(req[n]) /\ (req[n].op = "write" => ~Wrote(n))
      BY <3>1 DEF PlanOf
    <3>3. todo'[n] \in Rest(req[n]) /\ arg'[n] = req[n].db
      BY <2>1, <2>2, <2>3, <3>1, <3>2, RestFacts
    <3>4. ~Refused(req[n])' /\ (Wrote(n)' <=> Wrote(n))
      BY <2>1, <3>2 DEF Refused, Wrote
    <3> QED BY <2>1, <2>5, <3>1, <3>2, <3>3, <3>4 DEF PlanOf
  <2>6. CASE m # n
    BY <1>w, <2>1, <2>2, <2>3, <2>4, <2>6, PlanKept
  <2> QED BY <2>5, <2>6
<1>4. ASSUME NEW n \in Messages, DBFails(n) \/ Succeeds(n) \/ Breaks(n), ~Serve
      PROVE  PlanOf(m)'
  <2>1. /\ n \in Calls /\ todo[n] # <<>> /\ Head(todo[n]) \in Statements
        /\ UNCHANGED <<stage, req, readOnly, arg>>
    BY <1>4 DEF DBFails, Succeeds, Breaks, At, sessionVars, poolVars
  <2>2. m \in Calls /\ m \in Messages
    BY <1>c, <1>o, <1>4, CallFacts
  <2>3. \A k \in Messages : k # n => outcome'[k] = outcome[k] /\ todo'[k] = todo[k]
    <3>1. CASE \E k \in {"ok", "error"} : Finish(n, k)
      BY <1>o, <3>1, FinishFacts
    <3>2. CASE todo' = [todo EXCEPT ![n] = Tail(todo[n])] /\ UNCHANGED outcome
      BY <1>o, <2>1, <3>2, TailFacts
    <3> QED BY <1>4, <3>1, <3>2 DEF DBFails, Succeeds, Breaks
  <2>4. m # n => (Wrote(m)' <=> Wrote(m))
    <3>1. UNCHANGED log \/ (pc[n] = "done" /\ log' = Executed(n))
      BY <1>4 DEF DBFails, Succeeds, Breaks
    <3> QED BY <1>w, <2>1, <3>1, WroteAfter
  <2>5. CASE m # n
    BY <2>1, <2>2, <2>3, <2>4, <2>5, PlanKept
  <2>6. CASE m = n /\ (DBFails(n) \/ Breaks(n))
    <3>1. Finish(n, "error")
      BY <2>6 DEF DBFails, Breaks
    <3>2. outcome'[n] = "error"
      BY <1>o, <3>1, FinishFacts
    <3> QED BY <2>6, <3>2 DEF PlanOf
  <2>7. CASE m = n /\ Succeeds(n)
    <3>1. pc[n] = "done" /\ log' = Executed(n)
      BY <2>7 DEF Succeeds
    <3>2. Wrote(n)' <=> Wrote(n) \/ Head(todo[n]) = "exec"
      BY <2>1, <3>1, WroteAfter
    <3>3. outcome[n] = "none" /\ PlanOf(n) /\ req[n] \in Request /\ Head(todo[n]) # "DB"
      BY <1>o, <2>1, <2>2, <2>7, CallFacts DEF OwnTypes, Statements
    <3>4. /\ todo[n] \in Rest(req[n]) /\ ~Refused(req[n]) /\ arg[n] = req[n].db
      BY <3>3 DEF PlanOf
    <3>5. /\ Len(todo[n]) # 1 => Tail(todo[n]) \in Rest(req[n])
          /\ req[n].op = "write" => Head(todo[n]) = "exec" /\ Len(todo[n]) = 1
      BY <3>3, <3>4, RestFacts
    <3>6. CASE Len(todo[n]) = 1
      <4>1. Finish(n, "ok")
        BY <2>7, <3>6 DEF Succeeds
      <4>2. outcome'[n] = "ok"
        BY <1>o, <4>1, FinishFacts
      <4> QED BY <2>1, <2>7, <3>2, <3>5, <4>2 DEF PlanOf
    <3>7. CASE Len(todo[n]) # 1
      <4>1. todo' = [todo EXCEPT ![n] = Tail(todo[n])] /\ UNCHANGED outcome
        BY <2>7, <3>7 DEF Succeeds
      <4>2. todo'[n] = Tail(todo[n]) /\ outcome'[n] = "none"
        BY <1>o, <2>1, <3>3, <4>1, TailFacts
      <4>3. ~Refused(req[n])' /\ req[n].op # "write"
        BY <2>1, <3>4, <3>5, <3>7 DEF Refused
      <4> QED BY <2>1, <2>7, <3>4, <3>5, <3>7, <4>2, <4>3 DEF PlanOf
    <3> QED BY <3>6, <3>7
  <2> QED BY <1>4, <2>5, <2>6, <2>7
<1>5. CASE ~Serve /\ UNCHANGED <<req, todo, outcome, log, readOnly, arg>>
  BY <1>5, <1>c, <1>w, PlanKept
<1>6. ASSUME NEW n \in Messages, InDB(n) \/ Answer(n)
      PROVE  UNCHANGED <<req, todo, outcome, log, readOnly, arg>>
  BY <1>6 DEF InDB, Answer, callVars, poolVars, Pool!NilCheck, Pool!MakeMap, Pool!Lookup,
     Pool!Connect, Pool!ConnectFails, Pool!Store
<1>7. CASE Reject \/ Close \/ Drop \/ Exit \/ Crash \/ ClientReads \/ Toggle \/ Terminated
           \/ UNCHANGED vars
  <2>1. UNCHANGED <<req, todo, outcome, log, readOnly, arg>>
    BY <1>7 DEF Reject, Close, Drop, Exit, Crash, ClientReads, Toggle, Terminated, vars,
       callVars, poolVars, Pool!Crash, Pool!Toggle
  <2> QED BY <1>2, <1>5, <2>1
<1> QED BY <1>1, <1>2, <1>3, <1>4, <1>5, <1>6, <1>7 DEF Next, Handler

-----------------------------------------------------------------------------
(***************************************************************************)
(* The program implements Service.  ToldNow and EffectsNow are the values  *)
(* the refinement mapping gives to told and effects.                       *)
(***************************************************************************)
ToldNow    == [n \in 1..Len(stage) |-> Told(n)]
EffectsNow == [i \in Writes |-> [msg |-> log[i].msg, db |-> log[i].db]]

ServiceStep == [Promise!Next]_(Promise!vars)

LEMMA ServiceInit == Init => Promise!Init
<1> SUFFICES ASSUME Init PROVE Promise!Init
  OBVIOUS
<1>1. stage = <<>> /\ req = <<>> /\ log = <<>>
  BY DEF Init, Session!Init
<1>2. 1..Len(stage) = {} /\ Writes = {}
  BY <1>1 DEF Writes
<1>3. ToldNow = <<>> /\ EffectsNow = <<>>
  BY <1>2 DEF ToldNow, EffectsNow
<1>4. readOnly \in BOOLEAN
  BY ServerAssumption DEF Init, Environment
<1> QED BY <1>1, <1>3, <1>4 DEF Promise!Init, ToldNow, EffectsNow

LEMMA HappenedIsWrote == \A n : Promise!Happened(n) <=> Wrote(n)
<1>1. \A n : (\E t \in DOMAIN EffectsNow : EffectsNow[t].msg = n) <=> Wrote(n)
  BY DEF EffectsNow, Writes, Wrote
<1> QED BY <1>1 DEF Promise!Happened, EffectsNow

LEMMA Unseen ==
  UNCHANGED <<readOnly, req>> /\ ToldNow' = ToldNow /\ EffectsNow' = EffectsNow => ServiceStep
BY DEF ServiceStep, Promise!vars, ToldNow, EffectsNow

LEMMA SameEffects == UNCHANGED log => EffectsNow' = EffectsNow
BY DEF EffectsNow, Writes

(* The client hears nothing new while no message is answered. *)
LEMMA SameTold ==
  ASSUME Len(stage') = Len(stage),
         \A n \in 1..Len(stage) : Told(n)' = Told(n)
  PROVE  ToldNow' = ToldNow
BY DEF ToldNow

LEMMA ToldKept ==
  ASSUME NEW n \in 1..Len(stage),
         \/ /\ stage'[n] = stage[n]
            /\ stage[n] = "answered" => outcome'[n] = outcome[n]
         \/ {stage[n], stage'[n]} \cap {"answered", "rejected"} = {}
  PROVE  Told(n)' = Told(n)
BY DEF Told

(* Message n hears k. *)
LEMMA Tells ==
  ASSUME TypeOK, NEW n \in 1..Len(stage), NEW k \in {"ok", "error"},
         UNCHANGED <<readOnly, req, log>>, Len(stage') = Len(stage),
         Told(n) = "nothing", Told(n)' = k,
         \A m \in 1..Len(stage) : m # n => Told(m)' = Told(m),
         k = "ok" /\ req[n].op = "write" => Wrote(n)
  PROVE  ServiceStep
<1>1. ToldNow[n] = "nothing"
  BY DEF ToldNow
<1>2. ToldNow' = [ToldNow EXCEPT ![n] = k]
  BY DEF ToldNow
<1>3. EffectsNow' = EffectsNow
  BY SameEffects
<1>4. Promise!Tell(n, k)
  BY <1>1, <1>2, <1>3, HappenedIsWrote DEF Promise!Tell, ToldNow, EffectsNow
<1>5. n \in 1..Len(req)
  BY DEF TypeOK
<1> QED BY <1>4, <1>5 DEF ServiceStep, Promise!Next

(* A statement that is no write is not seen; a write that is allowed,      *)
(* unanswered and the first of its message, in its database, is a Write.   *)
LEMMA Executes ==
  ASSUME Types, NEW n \in Calls, Head(todo[n]) \in Statements, pc[n] = "done",
         log' = Executed(n), UNCHANGED <<readOnly, req, stage>>, ToldNow' = ToldNow,
         Head(todo[n]) = "exec" =>
           ~readOnly /\ req[n].op = "write" /\ ~Wrote(n) /\ pools[result[n]] = req[n].db
  PROVE  ServiceStep
<1> PICK t : t = Len(log')
  OBVIOUS
<1>1. /\ Len(log) \in Nat /\ t = Len(log) + 1
      /\ \A i \in 1..Len(log) : log'[i] = log[i] /\ i \in 1..Len(log') /\ i # t
      /\ t \in 1..Len(log')
      /\ \A i \in 1..Len(log') : i \in 1..Len(log) \/ i = t
      /\ log'[t].msg = n
      /\ log'[t].how = Head(todo[n])
      /\ log'[t].db = pools[result[n]]
  BY ExecutedFacts
<1>2. CASE Head(todo[n]) # "exec"
  <2>1. Writes' = Writes
    BY <1>1, <1>2 DEF Writes
  <2>2. EffectsNow' = EffectsNow
    BY <1>1, <2>1 DEF EffectsNow, Writes
  <2> QED BY <2>2, Unseen
<1>3. CASE Head(todo[n]) = "exec"
  <2>1. Writes' = Writes \cup {t}
    BY <1>1, <1>3 DEF Writes
  <2>2. \A s \in Writes : s < t /\ s # t /\ log'[s] = log[s]
    BY <1>1 DEF Writes
  <2>3. /\ DOMAIN EffectsNow = Writes /\ DOMAIN EffectsNow' = Writes'
        /\ \A s \in Writes : EffectsNow[s] = [msg |-> log[s].msg, db |-> log[s].db]
    BY DEF EffectsNow
  <2>4. EffectsNow' = [s \in DOMAIN EffectsNow \cup {t} |->
                         IF s = t THEN [msg |-> n, db |-> req[n].db] ELSE EffectsNow[s]]
    <3>1. EffectsNow' = [s \in Writes \cup {t} |-> [msg |-> log'[s].msg, db |-> log'[s].db]]
      BY <2>1 DEF EffectsNow
    <3>2. \A s \in Writes \cup {t} :
            [msg |-> log'[s].msg, db |-> log'[s].db] =
              IF s = t THEN [msg |-> n, db |-> req[n].db] ELSE EffectsNow[s]
      BY <1>1, <1>3, <2>2, <2>3
    <3> QED BY <2>3, <3>1, <3>2
  <2>5. n \in 1..Len(stage) /\ ToldNow[n] = "nothing"
    BY DEF Calls, ToldNow, Told
  <2>6. t \in DOMAIN EffectsNow' /\ \A s \in DOMAIN EffectsNow : s < t
    BY <2>1, <2>2, <2>3
  <2>7. Promise!Write(n)
    BY <1>3, <2>4, <2>5, <2>6, HappenedIsWrote DEF Promise!Write, ToldNow, EffectsNow
  <2>8. n \in 1..Len(req)
    BY <2>5 DEF Types, TypeOK
  <2> QED BY <2>7, <2>8 DEF ServiceStep, Promise!Next
<1> QED BY <1>2, <1>3

LEMMA OneMore ==
  ASSUME NEW S, NEW n \in Nat, NEW f \in [1..n -> S], NEW g \in [1..n+1 -> S],
         \A i \in 1..n : g[i] = f[i]
  PROVE  g = Append(f, g[n + 1])
OBVIOUS

LEMMA ServiceSteps ==
  Types /\ PoolP!Right /\ Past /\ Plan /\ [Next]_vars => ServiceStep
<1> SUFFICES ASSUME Types, PoolP!Right, Plan, [Next]_vars PROVE ServiceStep
  OBVIOUS
<1>o. TypeOK /\ OwnTypes
  BY TypeOKIs DEF Types
<1>s. {"held", "served", "answered", "rejected", "dropped"} \subseteq Session!Stages
  BY DEF Session!Stages
<1>1. ASSUME UNCHANGED <<stage, req, readOnly>>,
             \A n \in 1..Len(stage) : stage[n] = "answered" => outcome'[n] = outcome[n]
      PROVE  ToldNow' = ToldNow
  BY <1>1, ToldKept, SameTold
<1>2. CASE UNCHANGED <<stage, req, readOnly, outcome, log>>
  BY <1>1, <1>2, SameEffects, Unseen
<1>3. ASSUME NEW r \in Requests, TakeUp(r) PROVE ServiceStep
  <2>1. /\ stage' = Append(stage, "held") /\ req' = Append(req, r)
        /\ UNCHANGED <<readOnly, outcome, log>>
    BY <1>3 DEF TakeUp
  <2> PICK c : c = Len(stage')
    OBVIOUS
  <2>2. /\ Len(stage) \in Nat /\ c = Len(stage) + 1
        /\ \A n \in 1..Len(stage) : stage'[n] = stage[n] /\ n \in 1..Len(stage')
        /\ stage'[c] = "held" /\ c \in 1..Len(stage')
        /\ \A n \in 1..Len(stage') : n \in 1..Len(stage) \/ n = c
    BY <1>o, <1>s, <2>1, AppendFacts DEF OwnTypes
  <2>3. \A n \in 1..Len(stage) : Told(n)' = Told(n)
    BY <2>1, <2>2, ToldKept
  <2>4. Told(c)' = "nothing"
    BY <2>2 DEF Told
  <2>5. ToldNow' = Append(ToldNow, "nothing")
    <3> DEFINE K == {"none", "ok", "error", "nothing"}
    <3>1. \A n \in 1..Len(stage) : Told(n) \in K
      <4> TAKE n \in 1..Len(stage)
      <4>1. n \in Messages
        BY <1>o, ServerAssumption DEF OwnTypes, Messages
      <4> QED BY <1>o, <4>1 DEF Told, OwnTypes
    <3>2. ToldNow \in [1..Len(stage) -> K]
      BY <3>1 DEF ToldNow
    <3>3. /\ \A n \in 1..c : Told(n)' \in K
          /\ 1..c = 1..Len(stage)+1
      BY <2>2, <2>3, <2>4, <3>1
    <3>4. /\ ToldNow' \in [1..Len(stage)+1 -> K] /\ ToldNow'[Len(stage)+1] = "nothing"
          /\ \A n \in 1..Len(stage) : ToldNow'[n] = ToldNow[n]
      BY <2>2, <2>3, <2>4, <3>3 DEF ToldNow
    <3> HIDE DEF K
    <3> QED BY <2>2, <3>2, <3>4, OneMore
  <2>6. r \in Request
    BY ServerAssumption
  <2>7. Promise!Ask
    BY <2>1, <2>5, <2>6, SameEffects DEF Promise!Ask, ToldNow, EffectsNow
  <2> QED BY <2>7 DEF ServiceStep, Promise!Next
<1>4. ASSUME NEW s \in {"served", "dropped"}, Session!HoldingOne,
             stage' = [stage EXCEPT ![Len(stage)] = s], UNCHANGED <<readOnly, req, log>>,
             \A m \in Messages : m # InHand => outcome'[m] = outcome[m]
      PROVE  ServiceStep
  <2>1. /\ stage[InHand] = "held" /\ stage'[InHand] = s
        /\ Len(stage') = Len(stage)
        /\ \A n \in 1..Len(stage) : n # InHand => stage'[n] = stage[n]
    BY <1>o, <1>s, <1>4, SettleFacts
  <2>2. \A n \in 1..Len(stage) : n \in Messages
    BY <1>o, ServerAssumption DEF OwnTypes, Messages
  <2>3. \A n \in 1..Len(stage) : Told(n)' = Told(n)
    <3> TAKE n \in 1..Len(stage)
    <3>1. CASE n = InHand
      BY <2>1, <3>1, ToldKept
    <3>2. CASE n # InHand
      BY <1>4, <2>1, <2>2, <3>2, ToldKept
    <3> QED BY <3>1, <3>2
  <2> QED BY <1>4, <2>1, <2>3, SameTold, SameEffects, Unseen
<1>5. CASE Reject
  <2>1. /\ Session!HoldingOne /\ stage' = [stage EXCEPT ![Len(stage)] = "rejected"]
        /\ UNCHANGED <<readOnly, req, outcome, log>>
    BY <1>5 DEF Reject, Session!Reject, Session!Settle, callVars
  <2> PICK c \in 1..Len(stage) : c = InHand
    BY <1>o, <1>s, <2>1, SettleFacts
  <2>2. /\ stage[c] = "held" /\ stage'[c] = "rejected"
        /\ Len(stage') = Len(stage)
        /\ \A n \in 1..Len(stage) : n # c => stage'[n] = stage[n]
    BY <1>o, <1>s, <2>1, SettleFacts
  <2>3. Told(c) = "nothing" /\ Told(c)' = "error"
    BY <2>2 DEF Told
  <2>4. \A n \in 1..Len(stage) : n # c => Told(n)' = Told(n)
    BY <2>1, <2>2, ToldKept
  <2> PICK k \in {"ok", "error"} : k = "error"
    OBVIOUS
  <2>5. Told(c)' = k /\ k # "ok"
    BY <2>3
  <2> QED BY <1>o, <2>1, <2>2, <2>3, <2>4, <2>5, Tells
<1>6. CASE Serve
  <2>1. /\ Session!HoldingOne /\ stage' = [stage EXCEPT ![Len(stage)] = "served"]
        /\ \A m \in Messages : m # InHand => outcome'[m] = outcome[m]
    BY <1>o, <1>6, ServeFacts
  <2>2. UNCHANGED <<readOnly, req, log>>
    BY <1>6 DEF Serve
  <2> QED BY <1>4, <2>1, <2>2
<1>7. CASE Drop \/ Close
  <2>1. UNCHANGED <<readOnly, req, outcome, log>>
    BY <1>7 DEF Drop, Close, callVars
  <2>2. \/ UNCHANGED stage
        \/ Session!HoldingOne /\ stage' = [stage EXCEPT ![Len(stage)] = "dropped"]
    BY <1>7 DEF Drop, Session!Drop, Session!Settle, Close, Session!Close
  <2> QED BY <1>2, <1>4, <2>1, <2>2
<1>8. ASSUME NEW n \in Messages, EnterDB(n) \/ InDB(n) PROVE ServiceStep
  <2>1. UNCHANGED <<stage, req, readOnly, outcome, log>>
    BY <1>8 DEF EnterDB, InDB, sessionVars, callVars
  <2> QED BY <1>2, <2>1
<1>9. ASSUME NEW n \in Messages, DBFails(n) \/ Succeeds(n) \/ Breaks(n) PROVE ServiceStep
  <2>1. /\ n \in Calls /\ todo[n] # <<>> /\ Head(todo[n]) \in Statements
        /\ UNCHANGED <<stage, req, readOnly>>
    BY <1>9 DEF DBFails, Succeeds, Breaks, At, sessionVars
  <2>2. \A m \in Messages : m # n => outcome'[m] = outcome[m]
    <3>1. CASE \E k \in {"ok", "error"} : Finish(n, k)
      BY <1>o, <3>1, FinishFacts
    <3>2. CASE UNCHANGED outcome
      BY <3>2
    <3> QED BY <1>9, <3>1, <3>2 DEF DBFails, Succeeds, Breaks
  <2>3. stage[n] = "served" /\ \A m \in 1..Len(stage) : m \in Messages
    BY <1>o, <2>1, ServerAssumption DEF OwnTypes, Messages, Calls
  <2>4. ToldNow' = ToldNow
    BY <1>1, <2>1, <2>2, <2>3
  <2>5. CASE UNCHANGED log
    BY <2>1, <2>4, <2>5, SameEffects, Unseen
  <2>6. CASE pc[n] = "done" /\ log' = Executed(n)
    <3>1. outcome[n] = "none" /\ n \in Messages /\ req[n] \in Request
      BY <1>o, <2>1, CallFacts DEF OwnTypes
    <3>2. /\ todo[n] \in Rest(req[n]) /\ ~Refused(req[n])
          /\ arg[n] = req[n].db
          /\ req[n].op = "write" => ~Wrote(n)
      BY <2>1, <3>1 DEF Plan, Statements
    <3>3. pools[result[n]] = req[n].db
      BY <2>6, <3>1, <3>2 DEF PoolP!Right
    <3>4. Head(todo[n]) = "exec" => req[n].op = "write" /\ ~readOnly
      BY <3>1, <3>2, RestFacts DEF Refused
    <3> QED BY <2>1, <2>4, <2>6, <3>2, <3>3, <3>4, Executes
  <2> QED BY <1>9, <2>5, <2>6 DEF DBFails, Succeeds, Breaks
<1>10. ASSUME NEW n \in Messages, Answer(n) PROVE ServiceStep
  <2>1. /\ n \in Calls /\ Session!Answer(n) /\ outcome[n] # "none"
        /\ UNCHANGED <<readOnly, req, outcome, log>>
    BY <1>10 DEF Answer, callVars
  <2>2. /\ Len(stage') = Len(stage) /\ stage'[n] = "answered" /\ stage[n] = "served"
        /\ n \in 1..Len(stage)
        /\ \A m \in 1..Len(stage) : m # n => stage'[m] = stage[m]
    BY <1>o, <2>1, AnswerFacts, CallFacts
  <2> PICK k \in {"ok", "error"} : k = outcome[n]
    BY <1>o, <2>1 DEF OwnTypes
  <2>3. Told(n) = "nothing" /\ Told(n)' = k
    BY <2>1, <2>2 DEF Told
  <2>4. \A m \in 1..Len(stage) : m # n => Told(m)' = Told(m)
    BY <2>1, <2>2, ToldKept
  <2>5. k = "ok" /\ req[n].op = "write" => Wrote(n)
    BY <2>1 DEF Plan
  <2> QED BY <1>o, <2>1, <2>2, <2>3, <2>4, <2>5, Tells
<1>11. CASE Exit \/ Crash \/ ClientReads \/ Toggle \/ Terminated \/ UNCHANGED vars
  <2>1. UNCHANGED <<stage, req, readOnly, outcome, log>>
    BY <1>11 DEF Exit, Crash, ClientReads, Toggle, Terminated, vars, sessionVars, callVars
  <2> QED BY <1>2, <2>1
<1> QED
  BY <1>3, <1>5, <1>6, <1>7, <1>8, <1>9, <1>10, <1>11 DEF Next, Handler

(* With a DSN of a supported form, the program is the service that Service *)
(* promises, however calls, look-ups of pools, failures of the database    *)
(* and the end of the session interleave: a write happens at most once, in *)
(* the database its message names, on no read-only server and before its   *)
(* message is answered, and is reported as done only if it was done.       *)
THEOREM ProgramImplementsService ==
  ASSUME Databases # {}, PoolP!SupportedDsns
  PROVE  Spec => ImplementsService
<1> DEFINE Inv == Types /\ PoolP!Right /\ Past /\ Plan
<1>1. Init => Inv
  <2>1. Init => PoolP!Right
    BY SamePools, PoolConstants, PoolP!RightInit DEF Init
  <2> QED BY <2>1, TypesInit, PastInit, PlanInit
<1>2. Inv /\ [Next]_vars => Inv'
  <2> SUFFICES ASSUME Inv, [Next]_vars PROVE Inv'
    OBVIOUS
  <2>1. [PoolP!Next]_(PoolP!vars) /\ PoolP!Types
    BY PoolSteps DEF Types
  <2>2. PoolP!Right'
    BY <2>1, PoolConstants, PoolP!RightNext
  <2> QED BY <2>2, TypesNext, PastNext, PlanNext
<1>3. Inv /\ [Next]_vars => [Promise!Next]_(Promise!vars)
  BY ServiceSteps DEF ServiceStep
<1> QED
  BY <1>1, <1>2, <1>3, ServiceInit, PTL DEF Spec, ImplementsService, Promise!Spec

=============================================================================
