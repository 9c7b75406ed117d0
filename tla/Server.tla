--------------------------------- MODULE Server ---------------------------------
(***************************************************************************)
(* The whole program: messages come in as in RpcSession, which Transport   *)
(* implements; a tool call is served by a handler, which asks DBPool for a *)
(* pool before each of its statements, as ToolCalls describes; answers and *)
(* errors go to one pipe, which blocks when it is full; the process ends   *)
(* by the end of input, by Stop, or when the Go runtime finds overlapping  *)
(* accesses of dbPools.  A message is a caller of DBPool.                  *)
(*                                                                         *)
(* The server of the mcp SDK runs one call after the other (serial) or up  *)
(* to MaxHandlers side by side.                                            *)
(*                                                                         *)
(* A definition marked "Mutant" is a mistake that could be made in the     *)
(* definition after it; PROJECT.json says which property detects it.       *)
(***************************************************************************)
EXTENDS Naturals, Sequences, FiniteSets

CONSTANTS
  Databases, Existing, Dsns, MaxPools,  \* as in DBPool
  NoDsn,         \* an empty flag or environment variable
  Environments,  \* flags and environment variables at start-up
  Requests,      \* what the client may ask for: op, on database db
  MaxMessages,   \* bound: messages in one session
  MaxHandlers,   \* calls the server runs at the same time
  Capacity       \* lines that the pipe to the client holds

Op == {"read", "explained read", "write", "malformed"}
Request == [op : Op, db : Databases]

Environment == [dsn : Dsns \cup {NoDsn}, pgDsn : Dsns \cup {NoDsn},
                mariadbDsn : Dsns \cup {NoDsn}, readOnly : BOOLEAN]

ASSUME ServerAssumption ==
  /\ Requests \subseteq Request
  /\ Environments \subseteq Environment
  /\ MaxMessages \in Nat
  /\ MaxHandlers \in Nat \ {0}
  /\ Capacity \in Nat \ {0}

VARIABLES
  open, stage,  \* as in RpcSession
  serial, dsn, up, made, dbPools, pools, pc, arg, opened, result, crashed,  \* as in DBPool
  readOnly,     \* the handler's flag
  req,          \* req[n]: what message n asks for
  todo,         \* todo[n]: what its handler has yet to do
  outcome,      \* outcome[n]: what the handler returned
  log,          \* the statements the databases executed, in order
  unread,       \* lines in the pipe to the client
  process       \* "running" or "ended"

sessionVars == <<open, stage>>
poolVars    == <<serial, dsn, up, made, dbPools, pools, pc, arg, opened, result, crashed>>
callVars    == <<req, todo, outcome, log>>
vars        == <<sessionVars, poolVars, readOnly, callVars, unread, process>>

Messages == 1..MaxMessages

Session == INSTANCE RpcSession
Pool    == INSTANCE DBPool WITH Callers <- Messages

ASSUME PoolAssumption ==
  /\ Existing \subseteq Databases
  /\ Dsns \subseteq Pool!Dsn
  /\ MaxPools \in Nat

-----------------------------------------------------------------------------
(* main: the flag comes before the environment, and without a DSN the      *)
(* program exits before it reads anything.                                 *)
Configured(e) ==
  IF e.dsn # NoDsn THEN e.dsn ELSE IF e.pgDsn # NoDsn THEN e.pgDsn ELSE e.mariadbDsn

Init ==
  /\ Session!Init
  /\ Pool!Init
  /\ \E e \in Environments : dsn = Configured(e) /\ readOnly = e.readOnly
  /\ req = <<>>
  /\ todo = [n \in Messages |-> <<>>]
  /\ outcome = [n \in Messages |-> "none"]
  /\ log = <<>>
  /\ unread = 0
  /\ process = "running"

Running == process = "running"

(* A line is written to stdout. *)
Send == unread < Capacity /\ unread' = unread + 1

-----------------------------------------------------------------------------
(* The session. *)

InHand == Len(stage)
Calls  == {n \in 1..Len(stage) : stage[n] = "served"}
Slots  == IF serial THEN 1 ELSE MaxHandlers

(* readLoop carves a message; it may still do so after Stop began. *)
TakeUp(r) ==
  /\ Running
  /\ Len(stage) < MaxMessages
  /\ Session!TakeUp
  /\ stage' = Append(stage, "held")
  /\ req' = Append(req, r)
  /\ UNCHANGED <<poolVars, readOnly, todo, outcome, log, unread, process>>

(* readLoop or route answers what cannot be read. *)
Reject ==
  /\ Running
  /\ Session!Reject
  /\ req[InHand].op = "malformed"
  /\ Send
  /\ UNCHANGED <<poolVars, readOnly, callVars, process>>

Steps(r) ==
  IF r.op = "write" THEN <<"DB", "exec">>
  ELSE IF r.op = "read" THEN <<"DB", "query">>
  ELSE <<"DB", "query", "DB", "analyze">>

(* The read-only checks of the write handlers. *)
Refused(r) == readOnly /\ r.op = "write"

(* Mutant: a call starts in the background, whatever else is in progress. *)
ServeAtOnce ==
  /\ Running /\ open
  /\ Session!Serve
  /\ req[InHand].op # "malformed"
  /\ LET r == req[InHand] IN
     /\ todo' = [todo EXCEPT ![InHand] = IF Refused(r) THEN <<>> ELSE Steps(r)]
     /\ outcome' = [outcome EXCEPT ![InHand] = IF Refused(r) THEN "error" ELSE "none"]
  /\ UNCHANGED <<poolVars, readOnly, req, log, unread, process>>

(* The server receives the message and calls CallTool. *)
Serve ==
  /\ Running /\ open
  /\ Session!Serve
  /\ req[InHand].op # "malformed"
  /\ Cardinality(Calls) < Slots
  /\ LET r == req[InHand] IN
     /\ todo' = [todo EXCEPT ![InHand] = IF Refused(r) THEN <<>> ELSE Steps(r)]
     /\ outcome' = [outcome EXCEPT ![InHand] = IF Refused(r) THEN "error" ELSE "none"]
  /\ UNCHANGED <<poolVars, readOnly, req, log, unread, process>>

-----------------------------------------------------------------------------
(* A call. *)

At(n, steps) == Running /\ n \in Calls /\ todo[n] # <<>> /\ Head(todo[n]) \in steps
Statements == {"query", "exec", "analyze"}

EnterDB(n) ==
  /\ At(n, {"DB"})
  /\ Pool!Call(n, req[n].db)
  /\ todo' = [todo EXCEPT ![n] = Tail(@)]
  /\ UNCHANGED <<sessionVars, readOnly, req, outcome, log, unread, process>>

InDB(n) ==
  /\ At(n, Statements)
  /\ \/ Pool!NilCheck(n) \/ Pool!MakeMap(n) \/ Pool!Lookup(n)
     \/ Pool!Connect(n) \/ Pool!ConnectFails(n) \/ Pool!Store(n)
  /\ UNCHANGED <<sessionVars, readOnly, callVars, unread, process>>

Finish(n, k) ==
  /\ todo' = [todo EXCEPT ![n] = <<>>]
  /\ outcome' = [outcome EXCEPT ![n] = k]

(* Mutant: the handler returns neither a response nor an error. *)
DBFailsSilently(n) ==
  /\ At(n, Statements)
  /\ pc[n] = "failed"
  /\ Finish(n, "none")
  /\ UNCHANGED <<sessionVars, poolVars, readOnly, req, log, unread, process>>

DBFails(n) ==
  /\ At(n, Statements)
  /\ pc[n] = "failed"
  /\ Finish(n, "error")
  /\ UNCHANGED <<sessionVars, poolVars, readOnly, req, log, unread, process>>

Executed(n) ==
  Append(log, [msg |-> n, db |-> pools[result[n]], how |-> Head(todo[n])])

Succeeds(n) ==
  /\ At(n, Statements)
  /\ pc[n] = "done" /\ up
  /\ log' = Executed(n)
  /\ IF Len(todo[n]) = 1 THEN Finish(n, "ok")
     ELSE todo' = [todo EXCEPT ![n] = Tail(@)] /\ UNCHANGED outcome
  /\ UNCHANGED <<sessionVars, poolVars, readOnly, req, unread, process>>

(* Mutant: a statement whose connection broke is sent again. *)
BreaksAndRepeats(n) ==
  /\ At(n, Statements)
  /\ pc[n] = "done"
  /\ \/ up /\ log' = Executed(n) /\ UNCHANGED <<todo, outcome>>
     \/ UNCHANGED log /\ Finish(n, "error")
  /\ UNCHANGED <<sessionVars, poolVars, readOnly, req, unread, process>>

(* Mutant: the steps after it are not given up. *)
BreaksAndGoesOn(n) ==
  /\ At(n, Statements)
  /\ pc[n] = "done"
  /\ UNCHANGED log
  /\ todo' = [todo EXCEPT ![n] = Tail(@)]
  /\ outcome' = [outcome EXCEPT ![n] = "error"]
  /\ UNCHANGED <<sessionVars, poolVars, readOnly, req, unread, process>>

(* The statement fails, or its connection breaks before or after the       *)
(* database executed it.                                                   *)
Breaks(n) ==
  /\ At(n, Statements)
  /\ pc[n] = "done"
  /\ UNCHANGED log \/ (up /\ log' = Executed(n))
  /\ Finish(n, "error")
  /\ UNCHANGED <<sessionVars, poolVars, readOnly, req, unread, process>>

(* The server writes what the handler returned. *)
Answer(n) ==
  /\ Running
  /\ n \in Calls /\ outcome[n] # "none"
  /\ Session!Answer(n)
  /\ Send
  /\ UNCHANGED <<poolVars, readOnly, callVars, process>>

-----------------------------------------------------------------------------
(* The end. *)

(* End of input, between two messages; or Stop, at any moment. *)
Close ==
  /\ Running
  /\ Session!Close
  /\ UNCHANGED <<poolVars, readOnly, callVars, unread, process>>

Drop ==
  /\ Running
  /\ Session!Drop
  /\ UNCHANGED <<poolVars, readOnly, callVars, unread, process>>

(* Run returns, and main: calls in progress are lost, whatever their       *)
(* statements did.                                                         *)
Exit ==
  /\ Running /\ ~open
  /\ process' = "ended"
  /\ UNCHANGED <<sessionVars, poolVars, readOnly, callVars, unread>>

Crash ==
  /\ Running
  /\ Pool!Crash
  /\ process' = "ended"
  /\ UNCHANGED <<sessionVars, readOnly, callVars, unread>>

-----------------------------------------------------------------------------
(* The client reads stdout, and the database server comes and goes. *)

ClientReads ==
  /\ unread > 0
  /\ unread' = unread - 1
  /\ UNCHANGED <<sessionVars, poolVars, readOnly, callVars, process>>

Toggle ==
  /\ Running
  /\ Pool!Toggle
  /\ UNCHANGED <<sessionVars, readOnly, callVars, unread, process>>

Handler(n) ==
  \/ EnterDB(n) \/ InDB(n) \/ DBFails(n)
  \/ Succeeds(n) \/ Breaks(n)
  \/ Answer(n)

Terminated == ~Running /\ unread = 0 /\ UNCHANGED vars

Next ==
  \/ \E r \in Requests : TakeUp(r)
  \/ Reject \/ Serve
  \/ \E n \in Messages : Handler(n)
  \/ Close \/ Drop \/ Exit \/ Crash
  \/ ClientReads \/ Toggle
  \/ Terminated

Spec == Init /\ [][Next]_vars

(***************************************************************************)
(* Assumed is that every statement returns, in whatever way, for no        *)
(* timeout of the code makes it; that the client reads; and that the Go    *)
(* scheduler runs every handler that can run.                              *)
(***************************************************************************)
Fairness ==
  /\ \A n \in Messages : WF_vars(Handler(n))
  /\ WF_vars(Serve) /\ WF_vars(Reject)
  /\ WF_vars(ClientReads)

FairSpec == Spec /\ Fairness

-----------------------------------------------------------------------------
(* Properties. *)

(* Every variable stays in its type; a call that has its outcome is done.  *)
TypeOK ==
  /\ stage \in Seq(Session!Stages)
  /\ Pool!TypeOK
  /\ req \in Seq(Request) /\ Len(req) = Len(stage) /\ Len(req) <= MaxMessages
  /\ todo \in [Messages -> Seq(Statements \cup {"DB"})]
  /\ outcome \in [Messages -> {"none", "ok", "error"}]
  /\ \A n \in Messages : outcome[n] # "none" => todo[n] = <<>>
  /\ log \in Seq([msg : Messages, db : Databases, how : Statements])
  /\ unread \in 0..Capacity
  /\ open \in BOOLEAN /\ readOnly \in BOOLEAN /\ process \in {"running", "ended"}

(* A server that runs one call after the other executes the statements in  *)
(* the order of the messages, so that a read sees what the messages before *)
(* it wrote.                                                               *)
InMessageOrder ==
  serial => \A i, j \in 1..Len(log) : i < j => log[i].msg <= log[j].msg

Told(n) ==
  IF stage[n] = "answered" THEN outcome[n]
  ELSE IF stage[n] = "rejected" THEN "error" ELSE "nothing"

Writes == {i \in 1..Len(log) : log[i].how = "exec"}

Promise == INSTANCE Service WITH
  asked <- req,
  told <- [n \in 1..Len(stage) |-> Told(n)],
  effects <- [i \in Writes |-> [msg |-> log[i].msg, db |-> log[i].db]]

(* However calls, look-ups of pools, failures of the database and the end  *)
(* of the session interleave, the client gets what Service promises.       *)
ImplementsService == Promise!Spec

(* As long as statements return and the client reads, every call that is   *)
(* served is answered, or the process ends.                                *)
EveryCallAnswered ==
  \A n \in Messages :
    (n \in Calls) ~> (n \notin Calls \/ ~Running)
=============================================================================
