------------------------------ MODULE Transport ------------------------------
(***************************************************************************)
(* The stdio transport of cmd/stdiotransport.go at the level of whole      *)
(* messages: the readLoop goroutine, the four channels it shares with the  *)
(* server, and finish(), which closes them from whichever side ends first. *)
(*                                                                         *)
(* The server that owns the other end (server.Run of the mcp SDK) is not   *)
(* part of the repository.  It is modelled by what the Transport interface *)
(* lets it do: receive from the channels, write replies with Send, and     *)
(* call Stop once, at any moment.                                          *)
(*                                                                         *)
(* How bytes become messages is the subject of FrameReader.                *)
(*                                                                         *)
(* A definition marked "Mutant" is a mistake that could be made in the     *)
(* definition after it; PROJECT.json says which property detects it.       *)
(***************************************************************************)
EXTENDS Naturals, Sequences, FiniteSets

CONSTANTS
  Messages,        \* the shapes of message the client may write
  MaxMessages,     \* bound: messages in one session
  MaxHandlers,     \* tool calls the server runs at the same time
  ReadsResponses   \* whether the server drains Responses()

(***************************************************************************)
(* What the code distinguishes about a message: it is only white space     *)
(* (blank), it stays below maxBuffer (fits), json.Valid accepts it         *)
(* (valid), it decodes into the envelope struct of route (envelope), it    *)
(* has a method or a result/error, it decodes into protocol.Request or     *)
(* protocol.Response (typed), and it carries an id.                        *)
(***************************************************************************)
Shape == [blank : BOOLEAN, fits : BOOLEAN, valid : BOOLEAN, envelope : BOOLEAN,
          method : BOOLEAN, result : BOOLEAN, typed : BOOLEAN, id : BOOLEAN]

ASSUME TransportAssumption ==
  /\ Messages \subseteq Shape
  /\ MaxMessages \in Nat
  /\ MaxHandlers \in Nat \ {0}
  /\ ReadsResponses \in BOOLEAN

VARIABLES
  seen,       \* the messages carved from stdin so far; a message's index is its name
  rpc,        \* where the readLoop goroutine is
  nclosed,    \* how many channels of CloseOrder are closed
  finisher,   \* who is inside stopOnce.Do, or was first: "none", "reader", "server"
  errs,       \* number of errors buffered in the errors channel
  srv,        \* the server: "serving", "stopping" (inside Stop) or "exited"
  delivered,  \* the messages the server received, in the order of receipt
  inflight,   \* the requests a handler is working on
  replies     \* everything written to stdout, in order

readerVars == <<seen, rpc>>
chanVars   == <<nclosed, finisher, errs>>
serverVars == <<srv, delivered, inflight>>
vars == <<readerVars, chanVars, serverVars, replies>>

ErrorCapacity == 16

(* Mutant: done is not closed first. *)
RequestsFirst == <<"requests", "done", "responses", "errors">>

(* The order in which finish() closes the channels. *)
CloseOrder == <<"done", "requests", "responses", "errors">>

Closed(c) == \E i \in 1..nclosed : CloseOrder[i] = c

Channels == {"requests", "responses"}

(* What handleValue and route decide about a message. *)
Verdict(m) ==
  IF m.blank THEN "skip"
  ELSE IF ~m.valid \/ ~m.envelope THEN "parse error"
  ELSE IF ~m.method /\ ~m.result THEN "invalid"
  ELSE IF ~m.typed THEN "invalid"
  ELSE IF m.method THEN "requests" ELSE "responses"

Rejections == {"parse error", "invalid"}

(* The message readLoop has in hand, and the channel route offers it on. *)
Current == Len(seen)
Channel == Verdict(seen[Current])

(* A line on stdout: the message it answers (0 for none) and what it says. *)
Reply(n, k) == [re |-> n, kind |-> k]
ReplySet == [re : 0..MaxMessages, kind : Rejections \cup {"result"}]

Running == srv # "exited" /\ rpc # "crashed"
Idle == Cardinality(inflight) < MaxHandlers

Init ==
  /\ seen = <<>>
  /\ rpc = "top"
  /\ nclosed = 0
  /\ finisher = "none"
  /\ errs = 0
  /\ srv = "serving"
  /\ delivered = <<>>
  /\ inflight = {}
  /\ replies = <<>>

-----------------------------------------------------------------------------
(* readLoop and what it calls. *)

(* The head of the loop: doneClosed(). *)
CheckDone ==
  /\ rpc = "top"
  /\ rpc' = IF Closed("done") THEN "finish" ELSE "read"
  /\ UNCHANGED <<seen, chanVars, serverVars, replies>>

(* A complete value was carved from the buffer. *)
NextValue(m) ==
  /\ rpc = "read"
  /\ m.fits
  /\ Len(seen) < MaxMessages
  /\ seen' = Append(seen, m)
  /\ rpc' = "handle"
  /\ UNCHANGED <<chanVars, serverVars, replies>>

(* The buffer passed maxBuffer before a value was complete. *)
Overflow(m) ==
  /\ rpc = "read"
  /\ ~m.fits
  /\ Len(seen) < MaxMessages
  /\ seen' = Append(seen, m)
  /\ replies' = Append(replies, Reply(Len(seen'), "parse error"))
  /\ rpc' = "top"
  /\ UNCHANGED <<chanVars, serverVars>>

(* End of input, with or without a truncated value in the buffer. *)
EndOfInput ==
  /\ rpc = "read"
  /\ \/ replies' = Append(replies, Reply(0, "parse error"))
     \/ UNCHANGED replies
  /\ rpc' = "finish"
  /\ UNCHANGED <<seen, chanVars, serverVars>>

(* Mutant: the shutdown starts before the error is offered. *)
FinishThenReport ==
  /\ rpc = "read"
  /\ rpc' = "senderr"
  /\ finisher' = IF finisher = "none" THEN "reader" ELSE finisher
  /\ UNCHANGED <<seen, nclosed, errs, serverVars, replies>>

(* Any other read error: readLoop offers it on the errors channel. *)
ReadError ==
  /\ rpc = "read"
  /\ rpc' = "senderr"
  /\ UNCHANGED <<seen, chanVars, serverVars, replies>>

SendError ==
  /\ rpc = "senderr"
  /\ \/ /\ ~Closed("errors") /\ errs < ErrorCapacity
        /\ errs' = errs + 1
        /\ rpc' = "finish"
     \/ /\ Closed("done")
        /\ rpc' = "finish"
        /\ UNCHANGED errs
     \/ /\ Closed("errors")
        /\ rpc' = "panicking"
        /\ UNCHANGED errs
  /\ UNCHANGED <<seen, nclosed, finisher, serverVars, replies>>

(* Mutant: a value that is answered with an error is not consumed. *)
RejectWithoutConsuming ==
  /\ rpc = "handle"
  /\ \/ /\ Channel = "skip"
        /\ rpc' = "top"
        /\ UNCHANGED replies
     \/ /\ Channel \in Rejections
        /\ replies' = Append(replies, Reply(Current, Channel))
        /\ rpc' = "handle"
     \/ /\ Channel \in Channels
        /\ rpc' = "select"
        /\ UNCHANGED replies
  /\ UNCHANGED <<seen, chanVars, serverVars>>

(* Mutant: a value that cannot be routed is dropped without an answer. *)
RejectSilently ==
  /\ rpc = "handle"
  /\ rpc' = IF Channel \in Channels THEN "select" ELSE "top"
  /\ UNCHANGED <<seen, chanVars, serverVars, replies>>

(* handleValue: drop white space, answer what cannot be routed, or go on   *)
(* to the select statement of route.                                       *)
Handle ==
  /\ rpc = "handle"
  /\ \/ /\ Channel = "skip"
        /\ rpc' = "top"
        /\ UNCHANGED replies
     \/ /\ Channel \in Rejections
        /\ replies' = Append(replies, Reply(Current, Channel))
        /\ rpc' = "top"
     \/ /\ Channel \in Channels
        /\ rpc' = "select"
        /\ UNCHANGED replies
  /\ UNCHANGED <<seen, chanVars, serverVars>>

(* Mutant: the value is still at the head of the buffer after delivery. *)
DeliverWithoutConsuming ==
  /\ rpc \in {"select", "parked"}
  /\ srv = "serving"
  /\ Idle
  /\ ~Closed(Channel)
  /\ Channel = "responses" => ReadsResponses
  /\ delivered' = Append(delivered, Current)
  /\ inflight' = IF Channel = "requests" THEN inflight \cup {Current} ELSE inflight
  /\ rpc' = "handle"
  /\ UNCHANGED <<seen, chanVars, srv, replies>>

(* Mutant: a readLoop that parked is not woken by the next receive. *)
DeliverOnArrivalOnly ==
  /\ rpc = "select"
  /\ srv = "serving"
  /\ Idle
  /\ ~Closed(Channel)
  /\ Channel = "responses" => ReadsResponses
  /\ delivered' = Append(delivered, Current)
  /\ inflight' = IF Channel = "requests" THEN inflight \cup {Current} ELSE inflight
  /\ rpc' = "top"
  /\ UNCHANGED <<seen, chanVars, srv, replies>>

(***************************************************************************)
(* The select of route.  Deliver is the rendezvous with a receiving        *)
(* server, possible on arrival and while parked.  On arrival a closed done *)
(* and a closed target channel are both ready cases, and Go picks either:  *)
(* return, or panic with "send on closed channel".  With no ready case the *)
(* goroutine parks.                                                        *)
(***************************************************************************)
Deliver ==
  /\ rpc \in {"select", "parked"}
  /\ srv = "serving"
  /\ Idle
  /\ ~Closed(Channel)
  /\ Channel = "responses" => ReadsResponses
  /\ delivered' = Append(delivered, Current)
  /\ inflight' = IF Channel = "requests" THEN inflight \cup {Current} ELSE inflight
  /\ rpc' = "top"
  /\ UNCHANGED <<seen, chanVars, srv, replies>>

(* Mutant: the select has a default case instead of a case for done. *)
SelectDefault ==
  /\ rpc = "select"
  /\ rpc' = "top"
  /\ UNCHANGED <<seen, chanVars, serverVars, replies>>

SelectDone ==
  /\ rpc = "select"
  /\ Closed("done")
  /\ rpc' = "top"
  /\ UNCHANGED <<seen, chanVars, serverVars, replies>>

SelectPanics ==
  /\ rpc = "select"
  /\ Closed(Channel)
  /\ rpc' = "panicking"
  /\ UNCHANGED <<seen, chanVars, serverVars, replies>>

Park ==
  /\ rpc = "select"
  /\ ~Closed("done")
  /\ ~Closed(Channel)
  /\ rpc' = "parked"
  /\ UNCHANGED <<seen, chanVars, serverVars, replies>>

-----------------------------------------------------------------------------
(* finish(), run once, by the deferred call of readLoop or by Stop. *)

(* Mutant: finish() is not deferred but runs only when readLoop panics. *)
FinishOnPanicOnly ==
  /\ rpc = "panicking"
  /\ finisher = "none"
  /\ finisher' = "reader"
  /\ UNCHANGED <<readerVars, nclosed, errs, serverVars, replies>>

(* The deferred finish() reaches stopOnce.Do, also while panicking. *)
ReaderFinishes ==
  /\ rpc \in {"finish", "panicking"}
  /\ finisher = "none"
  /\ finisher' = "reader"
  /\ UNCHANGED <<readerVars, nclosed, errs, serverVars, replies>>

(* One close() of finish().  A goroutine parked in the select of route is  *)
(* woken by the first close that concerns it: by done it returns, by the   *)
(* channel it sends on it panics.                                          *)
CloseNext ==
  /\ finisher # "none"
  /\ nclosed < Len(CloseOrder)
  /\ nclosed' = nclosed + 1
  /\ LET c == CloseOrder[nclosed + 1] IN
     rpc' = IF rpc = "parked" /\ c = "done" THEN "top"
            ELSE IF rpc = "parked" /\ c = Channel THEN "panicking"
            ELSE rpc
  /\ UNCHANGED <<seen, finisher, errs, serverVars, replies>>

AllClosed == nclosed = Len(CloseOrder)

(* stopOnce.Do has returned to readLoop: the goroutine ends, or the panic  *)
(* it carries ends the process.                                            *)
ReaderEnds ==
  /\ rpc \in {"finish", "panicking"}
  /\ AllClosed
  /\ rpc' = IF rpc = "panicking" THEN "crashed" ELSE "ended"
  /\ UNCHANGED <<seen, chanVars, serverVars, replies>>

-----------------------------------------------------------------------------
(* The server of the SDK (external). *)

(* A handler is done.  Only a message with an id gets an answer. *)
HandlerReturns(n) ==
  /\ n \in inflight
  /\ inflight' = inflight \ {n}
  /\ replies' = IF seen[n].id THEN Append(replies, Reply(n, "result")) ELSE replies
  /\ UNCHANGED <<readerVars, chanVars, srv, delivered>>

(* Mutant: the closed errors channel still counts as holding an error. *)
TakeErrorFromClosed ==
  /\ srv = "serving" /\ Idle
  /\ errs > 0 \/ Closed("errors")
  /\ errs' = errs - 1
  /\ UNCHANGED <<readerVars, nclosed, finisher, serverVars, replies>>

TakeError ==
  /\ srv = "serving" /\ Idle
  /\ errs > 0
  /\ errs' = errs - 1
  /\ UNCHANGED <<readerVars, nclosed, finisher, serverVars, replies>>

(* Receive() is closed: Run returns and main ends the process. *)
SeeClosed ==
  /\ srv = "serving" /\ Idle
  /\ Closed("requests")
  /\ srv' = "exited"
  /\ UNCHANGED <<readerVars, chanVars, delivered, inflight, replies>>

(* Stop is called: finish(), unless readLoop already runs it. *)
StopBegins ==
  /\ srv = "serving"
  /\ srv' = "stopping"
  /\ finisher' = IF finisher = "none" THEN "server" ELSE finisher
  /\ UNCHANGED <<readerVars, nclosed, errs, delivered, inflight, replies>>

StopReturns ==
  /\ srv = "stopping"
  /\ AllClosed
  /\ srv' = "exited"
  /\ UNCHANGED <<readerVars, chanVars, delivered, inflight, replies>>

-----------------------------------------------------------------------------
Input ==
  \/ \E m \in Messages : NextValue(m) \/ Overflow(m)
  \/ EndOfInput
  \/ ReadError

Reader ==
  \/ CheckDone
  \/ SendError
  \/ Handle
  \/ SelectDone
  \/ SelectPanics
  \/ Park
  \/ ReaderFinishes
  \/ ReaderEnds

Server ==
  \/ \E n \in inflight : HandlerReturns(n)
  \/ TakeError
  \/ SeeClosed
  \/ StopReturns

Terminated == ~Running /\ UNCHANGED vars

Next ==
  \/ Running /\ (Input \/ Reader \/ Deliver \/ CloseNext \/ Server \/ StopBegins)
  \/ Terminated

Spec == Init /\ [][Next]_vars

(***************************************************************************)
(* The Go scheduler runs every goroutine that can run and a select with a  *)
(* ready case proceeds.  Nothing is assumed of the client, of the call of  *)
(* Stop, or of the database: no Input action, no StopBegins and no         *)
(* HandlerReturns is fair.                                                 *)
(***************************************************************************)
Fairness ==
  /\ WF_vars(Running /\ Reader)
  /\ WF_vars(Running /\ Deliver)
  /\ WF_vars(Running /\ CloseNext)
  /\ WF_vars(Running /\ (TakeError \/ SeeClosed \/ StopReturns))

FairSpec == Spec /\ Fairness

-----------------------------------------------------------------------------
(* Properties. *)

ReaderStates == {"top", "read", "handle", "senderr", "select", "parked",
                 "finish", "panicking", "ended", "crashed"}

Holding == {"handle", "select", "parked"}

(* Every variable stays in its type, the errors channel within its buffer. *)
TypeOK ==
  /\ seen \in Seq(Messages)
  /\ rpc \in ReaderStates
  /\ nclosed \in 0..Len(CloseOrder)
  /\ finisher \in {"none", "reader", "server"}
  /\ errs \in 0..ErrorCapacity
  /\ srv \in {"serving", "stopping", "exited"}
  /\ delivered \in Seq(1..MaxMessages)
  /\ inflight \subseteq 1..MaxMessages
  /\ replies \in Seq(ReplySet)

Delivered(n) == \E i \in 1..Len(delivered) : delivered[i] = n
Replied(n, k) == \E i \in 1..Len(replies) : replies[i] = Reply(n, k)

(* Message n reached its end in the transport: it was handed to the        *)
(* server, or answered with the error that route or readLoop owes it, or   *)
(* it was white space.                                                     *)
Settled(n) ==
  LET m == seen[n] IN
  \/ ~m.fits /\ Replied(n, "parse error")
  \/ m.fits /\ Verdict(m) \in Rejections /\ Replied(n, Verdict(m))
  \/ m.fits /\ Verdict(m) \in Channels /\ Delivered(n)
  \/ m.fits /\ Verdict(m) = "skip"

(* No message is lost behind a later one, whatever is malformed before it  *)
(* and however the session ends: only the last message carved can be       *)
(* unsettled, and only while readLoop holds it or once done is closed.     *)
NothingSkipped ==
  \A n \in 1..Len(seen) :
    \/ Settled(n)
    \/ n = Len(seen) /\ (rpc \in Holding \/ Closed("done"))

(* The server receives messages in the order in which they were written,   *)
(* each at most once.                                                      *)
InOrder ==
  \A i, j \in 1..Len(delivered) : i < j => delivered[i] < delivered[j]

(* No message gets two replies, be it from readLoop and a handler, which   *)
(* write to stdout concurrently, or from two of them.                      *)
OneReplyEach ==
  \A i, j \in 1..Len(replies) :
    replies[i].re = replies[j].re /\ replies[i].re # 0 => i = j

(* A session that ends by end of input or a read error never panics: a     *)
(* send on a closed channel needs a Stop that overtakes readLoop between   *)
(* its look at done and its select.                                        *)
PanicNeedsStop ==
  rpc \in {"panicking", "crashed"} => finisher = "server"

(* Closing done before the channels wakes a readLoop parked in route, so   *)
(* that no close can make it panic there.                                  *)
ParkedIsSafe ==
  [][rpc = "parked" => rpc' # "panicking"]_vars

(* What the client sees is a session of RpcSession. *)
Stage(n) ==
  IF n = Len(seen) /\ rpc \in Holding THEN "held"
  ELSE IF Replied(n, "result") THEN "answered"
  ELSE IF Delivered(n) THEN "served"
  ELSE IF \E k \in Rejections : Replied(n, k) THEN "rejected"
  ELSE IF Verdict(seen[n]) = "skip" THEN "ignored"
  ELSE "dropped"

Session == INSTANCE RpcSession WITH
  open <- ~Closed("done"), stage <- [n \in 1..Len(seen) |-> Stage(n)]

(* The goroutines and channels of the transport implement RpcSession:      *)
(* messages are settled one at a time and in order, a message is dropped   *)
(* only once done is closed, and an answer is given once.                  *)
ImplementsSession == Session!Spec

(* The tool calls return often enough to free the server: no timeout of    *)
(* the code makes them.                                                    *)
CallsReturn == []<>Idle

(* As long as tool calls return, a message that can be routed reaches the  *)
(* server, unless the session is shutting down: no rendezvous is missed.   *)
EventuallyDelivered ==
  CallsReturn =>
    \A n \in 1..MaxMessages :
      (n <= Len(seen) /\ seen[n].fits /\ Verdict(seen[n]) \in Channels)
        ~> (Delivered(n) \/ Closed("done") \/ ~Running)

(* As long as tool calls return, a shutdown begun by either side completes *)
(* without further input: Stop does not wait for a readLoop that is        *)
(* blocked reading stdin, and the end of input stops the server.           *)
ShutdownCompletes ==
  CallsReturn => ((rpc = "finish" \/ srv = "stopping") ~> ~Running)

=============================================================================
