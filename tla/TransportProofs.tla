--------------------------- MODULE TransportProofs ---------------------------
(***************************************************************************)
(* Proofs, for every set of messages, every bound on the session and every *)
(* number of handlers, of the safety properties of Transport.  The         *)
(* inductive invariant is built in layers, each proved with the help of    *)
(* those below it:                                                         *)
(*                                                                         *)
(*   Types      the type invariant, and what readLoop holds in its hand    *)
(*   Shutdown   who closed the channels and where readLoop can then be     *)
(*   Order      what was delivered lies behind what is in hand             *)
(*   Progress   everything behind the message in hand is settled           *)
(*   Answers    a reply and a message still in work exclude each other     *)
(***************************************************************************)
EXTENDS Transport, TLAPS

Types ==
  /\ TypeOK
  /\ Len(seen) <= MaxMessages
  /\ rpc \in Holding => Len(seen) >= 1 /\ seen[Current].fits
  /\ rpc \in {"select", "parked"} => Channel \in Channels

Shutdown ==
  /\ finisher = "none" => nclosed = 0
  /\ rpc = "parked" => nclosed = 0
  /\ finisher = "reader" => rpc \in {"finish", "ended"}
  /\ PanicNeedsStop

Order ==
  /\ \A i \in 1..Len(delivered) :
       /\ delivered[i] <= Len(seen)
       /\ rpc \in Holding => delivered[i] < Len(seen)
  /\ InOrder

Progress ==
  \A n \in 1..Len(seen) :
    \/ Settled(n)
    \/ n = Len(seen) /\ rpc \in Holding
    \/ n = Len(seen) /\ nclosed >= 1
       /\ rpc \in {"top", "finish", "panicking", "ended", "crashed"}

Consistent(r) ==
  /\ r.re <= Len(seen)
  /\ rpc \in Holding => r.re < Len(seen)
  /\ r.kind = "result" => Delivered(r.re) /\ r.re \notin inflight
  /\ r.kind \in Rejections => ~Delivered(r.re)

Answers ==
  /\ \A n \in inflight : Delivered(n)
  /\ \A i \in 1..Len(replies) : Consistent(replies[i])
  /\ OneReplyEach

-----------------------------------------------------------------------------
(* Which channels are closed after nclosed steps of finish(). *)
LEMMA ClosedFacts ==
  ASSUME nclosed \in 0..Len(CloseOrder)
  PROVE  /\ Len(CloseOrder) = 4
         /\ Closed("done") <=> nclosed >= 1
         /\ Closed("requests") <=> nclosed >= 2
         /\ Closed("responses") <=> nclosed >= 3
         /\ Closed("errors") <=> nclosed >= 4
<1>1. Len(CloseOrder) = 4
  BY DEF CloseOrder
<1>2. nclosed \in {0, 1, 2, 3, 4}
  BY <1>1
<1> QED BY <1>1, <1>2 DEF Closed, CloseOrder

(* One more element at the end of a sequence. *)
LEMMA AppendFacts ==
  ASSUME NEW S, NEW s \in Seq(S), NEW e \in S
  PROVE  /\ Append(s, e) \in Seq(S)
         /\ Len(Append(s, e)) = Len(s) + 1
         /\ \A i \in 1..Len(s) : Append(s, e)[i] = s[i]
         /\ Append(s, e)[Len(s) + 1] = e
OBVIOUS

LEMMA ParseError == "parse error" \in Rejections \cup {"result"}
BY DEF Rejections

(* One more error, if there is room, or none, in a buffer of any capacity. *)
LEMMA BufferFacts ==
  ASSUME NEW cap \in Nat, NEW e \in 0..cap, NEW f, f = e \/ (e < cap /\ f = e + 1)
  PROVE  f \in 0..cap
OBVIOUS

(* One more line on stdout keeps replies in its type. *)
LEMMA ReplyAppended ==
  ASSUME replies \in Seq(ReplySet), NEW n \in 0..MaxMessages,
         NEW k \in Rejections \cup {"result"}
  PROVE  Append(replies, Reply(n, k)) \in Seq(ReplySet)
<1>1. Reply(n, k) \in ReplySet
  BY DEF Reply, ReplySet
<1> QED BY <1>1, AppendFacts

-----------------------------------------------------------------------------
LEMMA TypesInit == Init => Types
BY TransportAssumption DEF Init, Types, TypeOK, ReaderStates, Holding,
   ErrorCapacity, CloseOrder

LEMMA TypesNext == Types /\ [Next]_vars => Types'
<1> SUFFICES ASSUME Types, [Next]_vars PROVE Types'
  OBVIOUS
<1> USE TransportAssumption DEF Types, TypeOK, ReaderStates, Holding, Current, Channel,
        readerVars, chanVars, serverVars
<1>1. CASE UNCHANGED vars
  BY <1>1 DEF vars
<1>2. CASE CheckDone
  BY <1>2 DEF CheckDone
<1>3. ASSUME NEW m \in Messages, NextValue(m) PROVE Types'
  BY <1>3 DEF NextValue
<1>4. ASSUME NEW m \in Messages, Overflow(m) PROVE Types'
  <2>1. seen' \in Seq(Messages) /\ Len(seen') = Len(seen) + 1
    <3>1. seen' = Append(seen, m)
      BY <1>4 DEF Overflow
    <3> QED BY <3>1, AppendFacts
  <2>2. Len(seen) < MaxMessages /\ Len(seen') \in 0..MaxMessages
    <3>1. Len(seen) < MaxMessages
      BY <1>4 DEF Overflow
    <3>2. Len(seen) \in Nat /\ MaxMessages \in Nat
      OBVIOUS
    <3> QED BY <3>1, <3>2, <2>1
  <2>3. replies' \in Seq(ReplySet)
    <3>1. replies' = Append(replies, Reply(Len(seen'), "parse error"))
      BY <1>4 DEF Overflow
    <3> QED BY <3>1, <2>2, ParseError, ReplyAppended
  <2>4. /\ rpc' = "top"
        /\ UNCHANGED <<nclosed, finisher, errs, srv, delivered, inflight>>
    BY <1>4 DEF Overflow
  <2> QED BY <2>1, <2>2, <2>3, <2>4
<1>5. CASE EndOfInput
  <2>1. 0 \in 0..MaxMessages
    OBVIOUS
  <2>2. replies' \in Seq(ReplySet)
    BY <1>5, <2>1, ParseError, ReplyAppended DEF EndOfInput
  <2> QED BY <1>5, <2>2 DEF EndOfInput
<1>6. CASE ReadError
  BY <1>6 DEF ReadError
<1>7. CASE SendError
  <2>1. errs' \in 0..ErrorCapacity
    <3>1. ErrorCapacity \in Nat /\ errs \in 0..ErrorCapacity
      BY DEF ErrorCapacity
    <3>2. errs' = errs \/ (errs < ErrorCapacity /\ errs' = errs + 1)
      BY <1>7 DEF SendError
    <3> QED BY ONLY <3>1, <3>2, BufferFacts
  <2>2. rpc' \in {"finish", "panicking"}
    BY <1>7 DEF SendError
  <2> QED BY <1>7, <2>1, <2>2 DEF SendError
<1>8. CASE Handle
  <2>1. Current \in 1..MaxMessages
    BY <1>8 DEF Handle
  <2>2. replies' \in Seq(ReplySet)
    BY <1>8, <2>1, ReplyAppended DEF Handle
  <2> QED BY <1>8, <2>2 DEF Handle
<1>9. CASE Deliver
  <2>1. Current \in 1..MaxMessages
    BY <1>9 DEF Deliver
  <2>2. delivered' \in Seq(1..MaxMessages)
    BY <1>9, <2>1, AppendFacts DEF Deliver
  <2>3. inflight' \subseteq 1..MaxMessages
    BY <1>9, <2>1 DEF Deliver
  <2> QED BY <1>9, <2>2, <2>3 DEF Deliver
<1>10. CASE SelectDone
  BY <1>10 DEF SelectDone
<1>11. CASE SelectPanics
  BY <1>11 DEF SelectPanics
<1>12. CASE Park
  BY <1>12 DEF Park
<1>13. CASE ReaderFinishes
  BY <1>13 DEF ReaderFinishes
<1>14. CASE CloseNext
  BY <1>14, ClosedFacts DEF CloseNext
<1>15. CASE ReaderEnds
  BY <1>15 DEF ReaderEnds
<1>16. ASSUME NEW n \in inflight, HandlerReturns(n) PROVE Types'
  <2>1. replies' \in Seq(ReplySet)
    BY <1>16, ReplyAppended DEF HandlerReturns
  <2> QED BY <1>16, <2>1 DEF HandlerReturns
<1>17. CASE TakeError
  BY <1>17 DEF TakeError, ErrorCapacity
<1>18. CASE SeeClosed
  BY <1>18 DEF SeeClosed
<1>19. CASE StopBegins
  BY <1>19 DEF StopBegins
<1>20. CASE StopReturns
  BY <1>20 DEF StopReturns
<1> QED
  BY <1>1, <1>2, <1>3, <1>4, <1>5, <1>6, <1>7, <1>8, <1>9, <1>10, <1>11, <1>12, <1>13,
     <1>14, <1>15, <1>16, <1>17, <1>18, <1>19, <1>20
     DEF Next, Input, Reader, Server, Terminated

(* Every variable of the transport stays in its type, whatever the client  *)
(* writes and whenever Stop is called.                                     *)
THEOREM TypeCorrect == Spec => []TypeOK
<1>1. Types => TypeOK
  BY DEF Types
<1> QED BY <1>1, TypesInit, TypesNext, PTL DEF Spec

-----------------------------------------------------------------------------
(* The first close that a parked readLoop meets is that of done. *)
LEMMA FirstClose == CloseOrder[1] = "done"
BY DEF CloseOrder

LEMMA ShutdownInit == Init => Shutdown
BY DEF Init, Shutdown, PanicNeedsStop

LEMMA ShutdownNext == Types /\ Shutdown /\ [Next]_vars => Shutdown'
<1> SUFFICES ASSUME Types, Shutdown, [Next]_vars PROVE Shutdown'
  OBVIOUS
<1> USE DEF Shutdown, PanicNeedsStop, readerVars, chanVars, serverVars
<1>a. /\ nclosed \in 0..Len(CloseOrder)
      /\ finisher \in {"none", "reader", "server"}
  BY DEF Types, TypeOK
<1>1. CASE UNCHANGED vars
  BY <1>1 DEF vars
<1>2. CASE CheckDone
  BY <1>2, <1>a DEF CheckDone
<1>3. ASSUME NEW m \in Messages, NextValue(m) PROVE Shutdown'
  BY <1>3 DEF NextValue
<1>4. ASSUME NEW m \in Messages, Overflow(m) PROVE Shutdown'
  BY <1>4 DEF Overflow
<1>5. CASE EndOfInput
  BY <1>5 DEF EndOfInput
<1>6. CASE ReadError
  BY <1>6 DEF ReadError
<1>7. CASE SendError
  BY <1>7, <1>a, ClosedFacts DEF SendError
<1>8. CASE Handle
  BY <1>8 DEF Handle
<1>9. CASE Deliver
  BY <1>9 DEF Deliver
<1>10. CASE SelectDone
  BY <1>10 DEF SelectDone
<1>11. CASE SelectPanics
  <2>1. Channel \in Channels
    BY <1>11 DEF SelectPanics, Types
  <2>2. nclosed >= 2
    BY <1>11, <1>a, <2>1, ClosedFacts DEF SelectPanics, Channels
  <2> QED BY <1>11, <1>a, <2>2 DEF SelectPanics
<1>12. CASE Park
  BY <1>12, <1>a, ClosedFacts DEF Park
<1>13. CASE ReaderFinishes
  BY <1>13 DEF ReaderFinishes
<1>14. CASE CloseNext
  <2>1. rpc = "parked" => rpc' = "top"
    BY <1>14, FirstClose DEF CloseNext
  <2>2. rpc # "parked" => rpc' = rpc
    BY <1>14 DEF CloseNext
  <2> QED BY <1>14, <2>1, <2>2 DEF CloseNext
<1>15. CASE ReaderEnds
  BY <1>15 DEF ReaderEnds
<1>16. ASSUME NEW n \in inflight, HandlerReturns(n) PROVE Shutdown'
  BY <1>16 DEF HandlerReturns
<1>17. CASE TakeError
  BY <1>17 DEF TakeError
<1>18. CASE SeeClosed
  BY <1>18 DEF SeeClosed
<1>19. CASE StopBegins
  BY <1>19, <1>a DEF StopBegins
<1>20. CASE StopReturns
  BY <1>20 DEF StopReturns
<1> QED
  BY <1>1, <1>2, <1>3, <1>4, <1>5, <1>6, <1>7, <1>8, <1>9, <1>10, <1>11, <1>12, <1>13,
     <1>14, <1>15, <1>16, <1>17, <1>18, <1>19, <1>20
     DEF Next, Input, Reader, Server, Terminated

(* A send on a closed channel needs a Stop of the server: a session that   *)
(* ends by itself never panics.                                            *)
THEOREM PanicsOnlyAfterStop == Spec => []PanicNeedsStop
<1>1. Shutdown => PanicNeedsStop
  BY DEF Shutdown
<1> QED BY <1>1, TypesInit, TypesNext, ShutdownInit, ShutdownNext, PTL DEF Spec

(* No close wakes a readLoop parked in route into a panic. *)
THEOREM ParkedNeverPanics == Spec => ParkedIsSafe
<1>1. Types /\ Shutdown /\ [Next]_vars => [rpc = "parked" => rpc' # "panicking"]_vars
  <2> SUFFICES ASSUME Shutdown, Next, rpc = "parked" PROVE rpc' # "panicking"
    BY DEF Next, Terminated, vars, readerVars
  <2>1. nclosed = 0
    BY DEF Shutdown
  <2>2. CASE CloseNext
    BY <2>1, <2>2, FirstClose DEF CloseNext
  <2>3. CASE Deliver
    BY <2>3 DEF Deliver
  <2>4. CASE Input \/ Reader
    BY <2>4 DEF Input, Reader, NextValue, Overflow, EndOfInput, ReadError, CheckDone,
       SendError, Handle, SelectDone, SelectPanics, Park, ReaderFinishes, ReaderEnds
  <2>5. CASE Server \/ StopBegins \/ Terminated
    BY <2>5 DEF Server, HandlerReturns, TakeError, SeeClosed, StopReturns, StopBegins,
       Terminated, readerVars, vars
  <2> QED BY <2>2, <2>3, <2>4, <2>5 DEF Next
<1> QED
  BY <1>1, TypesInit, TypesNext, ShutdownInit, ShutdownNext, PTL DEF Spec, ParkedIsSafe

-----------------------------------------------------------------------------
(***************************************************************************)
(* The histories only grow: every step leaves seen, delivered and replies  *)
(* alone or appends one element.                                           *)
(***************************************************************************)
(* The steps that touch none of the three. *)
Quiet ==
  \/ CheckDone \/ ReadError \/ SendError \/ SelectDone \/ SelectPanics \/ Park
  \/ ReaderFinishes \/ ReaderEnds \/ CloseNext \/ TakeError \/ SeeClosed
  \/ StopBegins \/ StopReturns \/ UNCHANGED vars

LEMMA QuietSteps == Quiet => UNCHANGED <<seen, delivered, replies>>
BY DEF Quiet, CheckDone, ReadError, SendError, SelectDone, SelectPanics, Park,
   ReaderFinishes, ReaderEnds, CloseNext, TakeError, SeeClosed, StopBegins, StopReturns,
   vars, readerVars, chanVars, serverVars

(* What is left when the quiet steps are set aside. *)
LEMMA StepCases ==
  [Next]_vars =>
    \/ Quiet
    \/ \E m \in Messages : NextValue(m) \/ Overflow(m)
    \/ EndOfInput \/ Handle \/ Deliver
    \/ \E n \in inflight : HandlerReturns(n)
BY DEF Next, Input, Reader, Server, Terminated, Quiet

LEMMA SettledStays ==
  ASSUME Types, NEW n \in 1..Len(seen), Settled(n),
         seen'[n] = seen[n],
         Delivered(n) => Delivered(n)',
         \A k : Replied(n, k) => Replied(n, k)'
  PROVE  Settled(n)'
BY DEF Settled

(* A message the server has received stays received. *)
LEMMA DeliveredAppended ==
  ASSUME Types, NEW c \in 1..MaxMessages, delivered' = Append(delivered, c)
  PROVE  /\ \A n : Delivered(n) => Delivered(n)'
         /\ Delivered(c)'
         /\ \A n : Delivered(n)' => Delivered(n) \/ n = c
         /\ Len(delivered') = Len(delivered) + 1
         /\ \A i \in 1..Len(delivered) : delivered'[i] = delivered[i]
         /\ delivered'[Len(delivered) + 1] = c
<1>1. delivered \in Seq(1..MaxMessages)
  BY DEF Types, TypeOK
<1>2. /\ Len(delivered') = Len(delivered) + 1
      /\ \A i \in 1..Len(delivered) : delivered'[i] = delivered[i]
      /\ delivered'[Len(delivered) + 1] = c
      /\ Len(delivered) \in Nat
  BY <1>1, AppendFacts
<1> QED BY <1>2 DEF Delivered

(* A line written to stdout stays written. *)
LEMMA RepliesAppended ==
  ASSUME Types, NEW c \in 0..MaxMessages, NEW k \in Rejections \cup {"result"},
         replies' = Append(replies, Reply(c, k))
  PROVE  /\ \A n, q : Replied(n, q) => Replied(n, q)'
         /\ Replied(c, k)'
         /\ Len(replies') = Len(replies) + 1
         /\ \A i \in 1..Len(replies) : replies'[i] = replies[i]
         /\ replies'[Len(replies) + 1] = Reply(c, k)
<1>1. replies \in Seq(ReplySet) /\ Reply(c, k) \in ReplySet
  BY DEF Types, TypeOK, Reply, ReplySet
<1>2. /\ Len(replies') = Len(replies) + 1
      /\ \A i \in 1..Len(replies) : replies'[i] = replies[i]
      /\ replies'[Len(replies) + 1] = Reply(c, k)
      /\ Len(replies) \in Nat
  BY <1>1, AppendFacts
<1> QED BY <1>2 DEF Replied

(* A message carved from stdin keeps its index. *)
LEMMA SeenAppended ==
  ASSUME Types, NEW m \in Messages, seen' = Append(seen, m)
  PROVE  /\ Len(seen') = Len(seen) + 1
         /\ Len(seen) \in Nat
         /\ \A n \in 1..Len(seen) : seen'[n] = seen[n]
         /\ seen'[Len(seen')] = m
         /\ \A n \in 1..Len(seen') : n \in 1..Len(seen) \/ n = Len(seen')
<1>1. seen \in Seq(Messages)
  BY DEF Types, TypeOK
<1> QED BY <1>1, AppendFacts

-----------------------------------------------------------------------------
LEMMA OrderInit == Init => Order
BY DEF Init, Order, InOrder, Holding

LEMMA OrderNext == Types /\ Order /\ [Next]_vars => Order'
<1> SUFFICES ASSUME Types, Order, [Next]_vars PROVE Order'
  OBVIOUS
<1>a. /\ delivered \in Seq(1..MaxMessages)
      /\ Len(seen) \in Nat
      /\ \A i \in 1..Len(delivered) : delivered[i] \in Nat
  <2>1. delivered \in Seq(1..MaxMessages) /\ seen \in Seq(Messages)
    BY DEF Types, TypeOK
  <2> QED BY <2>1, TransportAssumption
<1>1. CASE Quiet
  <2>1. rpc' \in Holding => rpc \in Holding
    BY <1>1 DEF Quiet, Holding, CheckDone, ReadError, SendError, SelectDone, SelectPanics,
       Park, ReaderFinishes, ReaderEnds, CloseNext, TakeError, SeeClosed, StopBegins,
       StopReturns, vars, readerVars
  <2> QED BY <1>1, <2>1, QuietSteps DEF Order, InOrder
<1>2. ASSUME NEW m \in Messages, NextValue(m) \/ Overflow(m) PROVE Order'
  <2>1. Len(seen') = Len(seen) + 1
    BY <1>2, SeenAppended DEF NextValue, Overflow
  <2>2. delivered' = delivered
    BY <1>2 DEF NextValue, Overflow, serverVars
  <2> QED BY <1>a, <2>1, <2>2 DEF Order, InOrder
<1>3. CASE EndOfInput
  BY <1>3 DEF EndOfInput, Order, InOrder, Holding, serverVars
<1>4. CASE Handle
  BY <1>4 DEF Handle, Order, InOrder, Holding, serverVars
<1>5. CASE Deliver
  <2>1. Current \in 1..MaxMessages /\ delivered' = Append(delivered, Current)
    BY <1>5, TransportAssumption DEF Deliver, Types, TypeOK, Holding, Current
  <2>2. /\ Len(delivered') = Len(delivered) + 1
        /\ \A i \in 1..Len(delivered) : delivered'[i] = delivered[i]
        /\ delivered'[Len(delivered) + 1] = Len(seen)
    BY <2>1, DeliveredAppended DEF Current
  <2>3. /\ \A i \in 1..Len(delivered) : delivered[i] < Len(seen)
        /\ seen' = seen /\ rpc' \notin Holding
    BY <1>5 DEF Deliver, Order, Holding
  <2>4. InOrder'
    <3> SUFFICES ASSUME NEW i \in 1..Len(delivered'), NEW j \in 1..Len(delivered'), i < j
                 PROVE  delivered'[i] < delivered'[j]
      BY DEF InOrder
    <3>1. Len(delivered) \in Nat /\ i \in 1..Len(delivered)
      BY <1>a, <2>2
    <3>2. CASE j \in 1..Len(delivered)
      BY <2>2, <3>1, <3>2 DEF Order, InOrder
    <3>3. CASE j = Len(delivered) + 1
      BY <2>2, <2>3, <3>1, <3>3
    <3> QED BY <2>2, <3>1, <3>2, <3>3
  <2> QED BY <1>a, <2>2, <2>3, <2>4 DEF Order
<1>6. ASSUME NEW n \in inflight, HandlerReturns(n) PROVE Order'
  BY <1>6 DEF HandlerReturns, readerVars, Order, InOrder
<1> QED
  BY <1>1, <1>2, <1>3, <1>4, <1>5, <1>6, StepCases

(* The server receives messages in the order in which they were written,   *)
(* each at most once, in every session.                                    *)
THEOREM DeliveredInOrder == Spec => []InOrder
<1>1. Order => InOrder
  BY DEF Order
<1> QED BY <1>1, TypesInit, TypesNext, OrderInit, OrderNext, PTL DEF Spec

-----------------------------------------------------------------------------
LEMMA ProgressInit == Init => Progress
BY DEF Init, Progress

LEMMA ProgressNext == Types /\ Shutdown /\ Progress /\ [Next]_vars => Progress'
<1> SUFFICES ASSUME Types, Shutdown, Progress, [Next]_vars,
                    NEW n \in 1..Len(seen')
             PROVE  \/ Settled(n)'
                    \/ n = Len(seen') /\ rpc' \in Holding
                    \/ n = Len(seen') /\ nclosed' >= 1
                       /\ rpc' \in {"top", "finish", "panicking", "ended", "crashed"}
  BY DEF Progress
<1> DEFINE After == {"top", "finish", "panicking", "ended", "crashed"}
<1>a. /\ nclosed \in 0..4
      /\ Len(seen) \in Nat
      /\ Closed("done") <=> nclosed >= 1
      /\ Closed("requests") => nclosed >= 1
      /\ Closed("responses") => nclosed >= 1
      /\ Closed("errors") => nclosed >= 1
  <2>1. nclosed \in 0..Len(CloseOrder) /\ seen \in Seq(Messages)
    BY DEF Types, TypeOK
  <2> QED BY <2>1, ClosedFacts
<1>1. CASE Quiet
  <2>1. UNCHANGED <<seen, delivered, replies>>
    BY <1>1, QuietSteps
  <2>2. Settled(n) => Settled(n)'
    BY <2>1 DEF Settled, Replied, Delivered
  <2>3. rpc \in Holding => rpc' \in Holding \/ (nclosed' >= 1 /\ rpc' \in After)
    <3>1. CASE SelectPanics
      <4>1. Channel \in {"requests", "responses"}
        BY <3>1 DEF SelectPanics, Types, Channels
      <4> QED BY <3>1, <4>1, <1>a DEF SelectPanics, chanVars
    <3>2. CASE CloseNext
      BY <3>2, <1>a, FirstClose DEF CloseNext, Holding, Shutdown
    <3>3. CASE SelectDone
      BY <3>3, <1>a DEF SelectDone, chanVars
    <3> QED
      BY <1>1, <3>1, <3>2, <3>3 DEF Quiet, Holding, CheckDone, ReadError, SendError, Park,
         ReaderFinishes, ReaderEnds, TakeError, SeeClosed, StopBegins, StopReturns, vars,
         readerVars
  <2>4. rpc \in After /\ nclosed >= 1 => rpc' \in After /\ nclosed' >= 1
    BY <1>1, <1>a DEF Quiet, CheckDone, ReadError, SendError, SelectDone, SelectPanics,
       Park, ReaderFinishes, ReaderEnds, CloseNext, TakeError, SeeClosed, StopBegins,
       StopReturns, vars, readerVars, chanVars
  <2> QED BY <2>1, <2>2, <2>3, <2>4 DEF Progress
<1>2. ASSUME NEW m \in Messages, NextValue(m)
      PROVE  \/ n = Len(seen') /\ rpc' \in Holding
             \/ Settled(n)'
  <2>1. /\ Len(seen') = Len(seen) + 1
        /\ \A k \in 1..Len(seen) : seen'[k] = seen[k]
        /\ n \in 1..Len(seen) \/ n = Len(seen')
    BY <1>2, SeenAppended DEF NextValue
  <2>2. rpc' \in Holding /\ UNCHANGED <<delivered, replies>>
    BY <1>2 DEF NextValue, Holding, serverVars
  <2>3. n \in 1..Len(seen) => Settled(n)
    BY <1>2 DEF NextValue, Progress, Holding
  <2>4. n \in 1..Len(seen) => Settled(n)'
    BY <2>1, <2>2, <2>3 DEF Settled, Replied, Delivered
  <2> QED BY <2>1, <2>2, <2>4
<1>3. ASSUME NEW m \in Messages, Overflow(m) PROVE Settled(n)'
  <2>1. /\ Len(seen') = Len(seen) + 1
        /\ \A k \in 1..Len(seen) : seen'[k] = seen[k]
        /\ seen'[Len(seen')] = m
        /\ n \in 1..Len(seen) \/ n = Len(seen')
    BY <1>3, SeenAppended DEF Overflow
  <2>2. Len(seen') \in 0..MaxMessages
    <3>1. Len(seen) < MaxMessages
      BY <1>3 DEF Overflow
    <3> QED BY <1>a, <2>1, <3>1, TransportAssumption
  <2>3. /\ \A k, q : Replied(k, q) => Replied(k, q)'
        /\ \E i \in 1..Len(replies') : replies'[i] = Reply(Len(seen'), "parse error")
    <3>1. replies' = Append(replies, Reply(Len(seen'), "parse error"))
      BY <1>3 DEF Overflow
    <3>2. PICK c \in 0..MaxMessages : c = Len(seen')
      BY <2>2
    <3>3. replies' = Append(replies, Reply(c, "parse error"))
      BY <3>1, <3>2
    <3>4. /\ \A k, q : Replied(k, q) => Replied(k, q)'
          /\ Replied(c, "parse error")'
      BY <3>3, ParseError, RepliesAppended
    <3> QED BY <3>2, <3>4 DEF Replied
  <2>4. delivered' = delivered /\ ~m.fits
    BY <1>3 DEF Overflow, serverVars
  <2>5. n \in 1..Len(seen) => Settled(n)'
    <3>1. n \in 1..Len(seen) => Settled(n)
      BY <1>3 DEF Overflow, Progress, Holding
    <3> QED BY <3>1, <2>1, <2>3, <2>4, SettledStays DEF Delivered
  <2>6. n = Len(seen') => Settled(n)'
    BY <2>1, <2>3, <2>4 DEF Settled, Replied
  <2> QED BY <2>1, <2>5, <2>6
<1>4. CASE EndOfInput
  <2>1. \A k, q : Replied(k, q) => Replied(k, q)'
    <3>1. CASE UNCHANGED replies
      BY <3>1 DEF Replied
    <3>2. CASE replies' = Append(replies, Reply(0, "parse error"))
      <4>1. 0 \in 0..MaxMessages
        BY TransportAssumption
      <4> QED BY <3>2, <4>1, ParseError, RepliesAppended
    <3> QED BY <1>4, <3>1, <3>2 DEF EndOfInput
  <2>2. seen' = seen /\ delivered' = delivered
    BY <1>4 DEF EndOfInput, serverVars
  <2>3. Settled(n)
    BY <1>4, <2>2 DEF EndOfInput, Progress, Holding
  <2> QED BY <2>1, <2>2, <2>3, SettledStays DEF Delivered
<1>5. CASE Handle
  <2>1. seen' = seen /\ delivered' = delivered /\ rpc = "handle"
    BY <1>5 DEF Handle, serverVars
  <2> PICK c \in 0..MaxMessages : c = Current
    BY TransportAssumption DEF Types, TypeOK, Current
  <2> PICK v : v = Channel
    OBVIOUS
  <2>2. /\ \A k, q : Replied(k, q) => Replied(k, q)'
        /\ v \in Rejections => Replied(c, v)'
    <3>1. CASE UNCHANGED replies /\ Channel \notin Rejections
      BY <3>1 DEF Replied
    <3>2. CASE Channel \in Rejections /\ replies' = Append(replies, Reply(Current, Channel))
      <4>1. v \in Rejections \cup {"result"} /\ replies' = Append(replies, Reply(c, v))
        BY <3>2
      <4> QED BY <4>1, RepliesAppended
    <3>3. {"skip"} \cap Rejections = {} /\ Channels \cap Rejections = {}
      BY DEF Rejections, Channels
    <3> QED BY <1>5, <3>1, <3>2, <3>3 DEF Handle
  <2>3. CASE n # Current
    <3>1. Settled(n)
      BY <2>1, <2>3 DEF Progress, Current
    <3> QED BY <2>1, <2>2, <3>1, SettledStays DEF Delivered
  <2>4. CASE n = Current /\ Channel \in Channels
    BY <1>5, <2>1, <2>4 DEF Handle, Channels, Rejections, Holding, Current
  <2>5. CASE n = Current /\ Channel \in Rejections \cup {"skip"}
    <3>1. seen[n].fits /\ Verdict(seen[n]) = Channel
      BY <2>1, <2>5 DEF Types, Current, Channel, Holding
    <3> QED BY <2>1, <2>2, <2>5, <3>1 DEF Settled
  <2> QED BY <1>5, <2>3, <2>4, <2>5 DEF Handle
<1>6. CASE Deliver
  <2> PICK c \in 1..MaxMessages : c = Current
    BY <1>6, TransportAssumption DEF Deliver, Types, TypeOK, Holding, Current
  <2>1. delivered' = Append(delivered, c)
    BY <1>6 DEF Deliver
  <2>2. /\ \A k : Delivered(k) => Delivered(k)'
        /\ Delivered(c)'
    BY <2>1, DeliveredAppended
  <2>3. seen' = seen /\ replies' = replies /\ rpc \in Holding
    BY <1>6 DEF Deliver, Holding
  <2>4. CASE n # Current
    <3>1. Settled(n)
      BY <1>6, <2>3, <2>4 DEF Deliver, Progress, Current
    <3> QED BY <2>2, <2>3, <3>1, SettledStays DEF Replied
  <2>5. CASE n = Current
    <3>1. seen[n].fits /\ Verdict(seen[n]) \in Channels
      BY <1>6, <2>5 DEF Deliver, Types, Holding, Current, Channel
    <3> QED BY <2>2, <2>3, <2>5, <3>1 DEF Settled
  <2> QED BY <2>4, <2>5
<1>7. ASSUME NEW k \in inflight, HandlerReturns(k)
      PROVE  /\ Settled(n) => Settled(n)'
             /\ UNCHANGED <<seen, rpc, nclosed>>
  <2>1. UNCHANGED <<seen, rpc, nclosed, delivered>>
    BY <1>7 DEF HandlerReturns, readerVars, chanVars
  <2>2. \A j, q : Replied(j, q) => Replied(j, q)'
    <3>1. k \in 0..MaxMessages
      BY DEF Types, TypeOK
    <3>2. CASE UNCHANGED replies
      BY <3>2 DEF Replied
    <3>3. CASE replies' = Append(replies, Reply(k, "result"))
      BY <3>1, <3>3, RepliesAppended
    <3> QED BY <1>7, <3>2, <3>3 DEF HandlerReturns
  <2> QED BY <2>1, <2>2, SettledStays DEF Delivered
<1> QED
  BY <1>1, <1>2, <1>3, <1>4, <1>5, <1>6, <1>7, StepCases DEF Progress

(* No message is lost behind a later one: whatever is malformed before it, *)
(* every message but the one in hand is delivered, answered or blank.      *)
THEOREM NoMessageSkipped == Spec => []NothingSkipped
<1>1. Types /\ Progress => NothingSkipped
  BY ClosedFacts DEF Types, TypeOK, Progress, NothingSkipped
<1> QED
  BY <1>1, TypesInit, TypesNext, ShutdownInit, ShutdownNext, ProgressInit, ProgressNext,
     PTL DEF Spec

-----------------------------------------------------------------------------
LEMMA AnswersInit == Init => Answers
BY DEF Init, Answers, OneReplyEach

LEMMA RepliesTyped ==
  ASSUME Types
  PROVE  \A i \in 1..Len(replies) :
           /\ replies[i].re \in 0..MaxMessages
           /\ replies[i].re \in Nat
           /\ replies[i].kind \in Rejections \cup {"result"}
<1>1. replies \in Seq(ReplySet)
  BY DEF Types, TypeOK
<1> SUFFICES ASSUME NEW i \in 1..Len(replies)
             PROVE  /\ replies[i].re \in 0..MaxMessages
                    /\ replies[i].re \in Nat
                    /\ replies[i].kind \in Rejections \cup {"result"}
  OBVIOUS
<1>2. replies[i] \in ReplySet
  BY <1>1
<1> QED BY <1>2, TransportAssumption DEF ReplySet

(***************************************************************************)
(* One more line answering message c: allowed when no line answers c yet,  *)
(* and when what it says agrees with what became of c.                     *)
(***************************************************************************)
LEMMA OneMoreReply ==
  ASSUME Types, Answers, NEW c \in 0..MaxMessages, NEW k \in Rejections \cup {"result"},
         replies' = Append(replies, Reply(c, k)),
         c # 0 => \A i \in 1..Len(replies) : replies[i].re # c,
         UNCHANGED delivered,
         inflight' \subseteq inflight,
         c <= Len(seen'), Len(seen) <= Len(seen'),
         Len(seen') \in Nat,
         rpc' \in Holding => c < Len(seen') /\ rpc \in Holding,
         k = "result" => Delivered(c) /\ c \notin inflight',
         k \in Rejections => ~Delivered(c)
  PROVE  Answers'
<1>1. /\ Len(replies') = Len(replies) + 1
      /\ \A i \in 1..Len(replies) : replies'[i] = replies[i]
      /\ replies'[Len(replies) + 1] = Reply(c, k)
  BY RepliesAppended
<1>2. /\ Reply(c, k).re = c /\ Reply(c, k).kind = k
      /\ "result" \notin Rejections
  BY DEF Reply, Rejections
<1>3. Len(replies) \in Nat /\ Len(seen) \in Nat
  BY DEF Types, TypeOK
<1>4. /\ \A n : Delivered(n)' <=> Delivered(n)
  BY DEF Delivered
<1>5. \A i \in 1..Len(replies) : replies[i].re \in Nat
  BY RepliesTyped
<1>6. \A n \in inflight' : Delivered(n)'
  BY <1>4 DEF Answers
<1>7. ASSUME NEW i \in 1..Len(replies')
      PROVE  /\ replies'[i].re <= Len(seen')
             /\ rpc' \in Holding => replies'[i].re < Len(seen')
             /\ replies'[i].kind = "result" =>
                  Delivered(replies'[i].re) /\ replies'[i].re \notin inflight'
             /\ replies'[i].kind \in Rejections => ~Delivered(replies'[i].re)
  <2>1. CASE i \in 1..Len(replies)
    <3>1. replies'[i] = replies[i]
      BY <1>1, <2>1
    <3>2. Consistent(replies[i]) /\ replies[i].re \in Nat
      BY <1>5, <2>1 DEF Answers
    <3> QED BY <1>3, <3>1, <3>2 DEF Consistent
  <2>2. CASE i = Len(replies) + 1
    <3>1. replies'[i] = Reply(c, k)
      BY <1>1, <2>2
    <3>2. replies'[i].re = c /\ replies'[i].kind = k
      BY <1>2, <3>1
    <3> QED BY <1>2, <3>2
  <2> QED BY <1>1, <1>3, <2>1, <2>2
<1>8. OneReplyEach'
  <2> SUFFICES ASSUME NEW i \in 1..Len(replies'), NEW j \in 1..Len(replies'),
                      replies'[i].re = replies'[j].re, replies'[i].re # 0
               PROVE  i = j
    BY DEF OneReplyEach
  <2>1. /\ i \in 1..Len(replies) \/ i = Len(replies) + 1
        /\ j \in 1..Len(replies) \/ j = Len(replies) + 1
    BY <1>1, <1>3
  <2>2. CASE i \in 1..Len(replies) /\ j \in 1..Len(replies)
    BY <1>1, <2>2 DEF Answers, OneReplyEach
  <2>3. CASE i \in 1..Len(replies) /\ j = Len(replies) + 1
    BY <1>1, <1>2, <2>3
  <2>4. CASE i = Len(replies) + 1 /\ j \in 1..Len(replies)
    BY <1>1, <1>2, <2>4
  <2> QED BY <2>1, <2>2, <2>3, <2>4
<1>9. \A i \in 1..Len(replies') : Consistent(replies[i])'
  BY <1>4, <1>7 DEF Consistent, Delivered
<1> QED BY <1>6, <1>8, <1>9 DEF Answers

LEMMA AnswersNext == Types /\ Order /\ Answers /\ [Next]_vars => Answers'
<1> SUFFICES ASSUME Types, Order, Answers, [Next]_vars PROVE Answers'
  OBVIOUS
<1>n. Len(seen) \in Nat /\ Len(replies) \in Nat /\ MaxMessages \in Nat
  BY TransportAssumption DEF Types, TypeOK
<1>a. /\ \A i \in 1..Len(replies) : replies[i].re \in Nat
      /\ \A i \in 1..Len(delivered) : delivered[i] \in Nat
      /\ \A n : Delivered(n) => n \in 1..MaxMessages
  <2>1. delivered \in Seq(1..MaxMessages)
    BY DEF Types, TypeOK
  <2>2. ASSUME NEW i \in 1..Len(delivered) PROVE delivered[i] \in 1..MaxMessages
    BY <2>1, TransportAssumption
  <2>3. \A i \in 1..Len(replies) : replies[i].re \in Nat
    BY RepliesTyped
  <2> QED BY <2>2, <2>3, TransportAssumption DEF Delivered
<1>1. CASE Quiet
  <2>1. /\ rpc' \in Holding => rpc \in Holding
        /\ inflight' = inflight
    BY <1>1 DEF Quiet, Holding, CheckDone, ReadError, SendError, SelectDone, SelectPanics,
       Park, ReaderFinishes, ReaderEnds, CloseNext, TakeError, SeeClosed, StopBegins,
       StopReturns, vars, readerVars, chanVars, serverVars
  <2> QED BY <1>1, <2>1, QuietSteps DEF Answers, Consistent, OneReplyEach, Delivered
<1>2. ASSUME NEW m \in Messages, NextValue(m) PROVE Answers'
  <2>1. Len(seen') = Len(seen) + 1
    BY <1>2, SeenAppended DEF NextValue
  <2>2. UNCHANGED <<delivered, inflight, replies>>
    BY <1>2 DEF NextValue, serverVars
  <2> QED BY <1>n, <1>a, <2>1, <2>2 DEF Answers, Consistent, OneReplyEach, Delivered
<1>3. ASSUME NEW m \in Messages, Overflow(m) PROVE Answers'
  <2>1. Len(seen') = Len(seen) + 1
    BY <1>3, SeenAppended DEF Overflow
  <2>0. Len(seen) <= Len(seen') /\ Len(seen') \in Nat
    BY <1>n, <2>1
  <2>2. /\ UNCHANGED <<delivered, inflight>>
        /\ rpc' \notin Holding
        /\ Len(seen) < MaxMessages
        /\ replies' = Append(replies, Reply(Len(seen'), "parse error"))
    BY <1>3 DEF Overflow, serverVars, Holding
  <2> PICK c \in 0..MaxMessages : c = Len(seen')
    <3>1. Len(seen) \in Nat /\ MaxMessages \in Nat
      BY <1>n
    <3>2. Len(seen) < MaxMessages
      BY <2>2
    <3>3. Len(seen) + 1 \in 0..MaxMessages
      BY <3>1, <3>2
    <3>4. Len(seen') \in 0..MaxMessages
      BY <3>3, <2>1
    <3> QED BY <3>4
  <2>7. c <= Len(seen')
    BY <2>0
  <2>3. \A i \in 1..Len(replies) : replies[i].re # c
    BY <1>n, <1>a, <2>1 DEF Answers, Consistent
  <2>4. ~Delivered(c)
    BY <1>n, <1>a, <2>1 DEF Order, Delivered
  <2> PICK k \in Rejections : k = "parse error"
    BY DEF Rejections
  <2>5. k # "result" /\ k \in Rejections \cup {"result"}
    BY DEF Rejections
  <2>6. replies' = Append(replies, Reply(c, k))
    BY <2>2
  <2>8. UNCHANGED delivered /\ inflight' \subseteq inflight /\ rpc' \notin Holding
    BY <2>2
  <2> QED BY <2>0, <2>3, <2>4, <2>5, <2>6, <2>7, <2>8, OneMoreReply
<1>4. CASE EndOfInput
  <2>1. /\ UNCHANGED <<seen, delivered, inflight>>
        /\ rpc' \notin Holding
    BY <1>4 DEF EndOfInput, serverVars, Holding
  <2>0. Len(seen) <= Len(seen') /\ Len(seen') \in Nat /\ 0 <= Len(seen')
    BY <1>n, <2>1
  <2>2. CASE UNCHANGED replies
    BY <2>1, <2>2 DEF Answers, Consistent, OneReplyEach, Delivered
  <2>3. CASE replies' = Append(replies, Reply(0, "parse error"))
    <3>1. ~Delivered(0)
      BY <1>n, <1>a
    <3> PICK c \in 0..MaxMessages : c = 0
      BY <1>n, <1>a
    <3> PICK k \in Rejections : k = "parse error"
      BY DEF Rejections
    <3>2. k # "result" /\ k \in Rejections \cup {"result"}
      BY DEF Rejections
    <3>3. replies' = Append(replies, Reply(c, k))
      BY <2>3
    <3>4. c <= Len(seen')
      BY <2>0
    <3> QED BY <2>0, <2>1, <3>1, <3>2, <3>3, <3>4, OneMoreReply
  <2> QED BY <1>4, <2>2, <2>3 DEF EndOfInput
<1>5. CASE Handle
  <2>1. /\ UNCHANGED <<seen, delivered, inflight>>
        /\ rpc \in Holding
    BY <1>5 DEF Handle, serverVars, Holding
  <2>2. CASE UNCHANGED replies
    BY <2>1, <2>2 DEF Answers, Consistent, OneReplyEach, Delivered
  <2>3. CASE /\ Channel \in Rejections
             /\ rpc' = "top"
             /\ replies' = Append(replies, Reply(Current, Channel))
    <3> PICK c \in 0..MaxMessages : c = Current
      BY <1>n, <1>a DEF Types, Current
    <3> PICK v \in Rejections : v = Channel
      BY <2>3
    <3>1. \A i \in 1..Len(replies) : replies[i].re # c
      BY <1>n, <1>a, <2>1 DEF Answers, Consistent, Current
    <3>2. ~Delivered(c)
      BY <1>n, <1>a, <2>1 DEF Order, Delivered, Current
    <3>3. v # "result" /\ v \in Rejections \cup {"result"} /\ "top" \notin Holding
      BY DEF Rejections, Holding
    <3> QED BY <1>n, <1>a, <2>1, <2>3, <3>1, <3>2, <3>3, OneMoreReply DEF Current
  <2> QED BY <1>5, <2>2, <2>3 DEF Handle
<1>6. CASE Deliver
  <2> PICK c \in 1..MaxMessages : c = Current
    BY <1>6, <1>a DEF Deliver, Types, Holding, Current
  <2>1. delivered' = Append(delivered, c)
    BY <1>6 DEF Deliver
  <2>2. /\ \A n : Delivered(n) => Delivered(n)'
        /\ Delivered(c)'
        /\ \A n : Delivered(n)' => Delivered(n) \/ n = c
    BY <2>1, DeliveredAppended
  <2>3. /\ UNCHANGED <<seen, replies>>
        /\ rpc \in Holding /\ rpc' \notin Holding
        /\ inflight' \subseteq inflight \cup {c}
    BY <1>6 DEF Deliver, Holding
  <2>4. \A i \in 1..Len(replies) : replies[i].re # c
    BY <1>n, <1>a, <2>3 DEF Answers, Consistent, Current
  <2> QED BY <2>2, <2>3, <2>4 DEF Answers, Consistent, OneReplyEach
<1>7. ASSUME NEW n \in inflight, HandlerReturns(n) PROVE Answers'
  <2>1. /\ UNCHANGED <<seen, rpc, delivered>>
        /\ inflight' = inflight \ {n}
        /\ Delivered(n)
    BY <1>7 DEF HandlerReturns, readerVars, Answers
  <2>2. CASE UNCHANGED replies
    BY <2>1, <2>2 DEF Answers, Consistent, OneReplyEach, Delivered
  <2>3. CASE replies' = Append(replies, Reply(n, "result"))
    <3>1. \A i \in 1..Len(replies) : replies[i].re # n
      <4> SUFFICES ASSUME NEW i \in 1..Len(replies), replies[i].re = n PROVE FALSE
        OBVIOUS
      <4>1. replies[i].kind \in Rejections \cup {"result"}
        BY RepliesTyped
      <4> QED BY <2>1, <4>1 DEF Answers, Consistent
    <3>2. n \in 0..MaxMessages /\ n <= Len(seen) /\ (rpc \in Holding => n < Len(seen))
      BY <1>n, <1>a, <2>1 DEF Types, TypeOK, Delivered, Order
    <3>3. "result" \notin Rejections
      BY DEF Rejections
    <3> QED BY <1>n, <1>a, <2>1, <2>3, <3>1, <3>2, <3>3, OneMoreReply
  <2> QED BY <1>7, <2>2, <2>3 DEF HandlerReturns
<1> QED
  BY <1>1, <1>2, <1>3, <1>4, <1>5, <1>6, <1>7, StepCases

(* No message gets two replies, whatever readLoop and the handlers write   *)
(* to stdout at the same time.                                             *)
THEOREM AnsweredOnce == Spec => []OneReplyEach
<1>1. Answers => OneReplyEach
  BY DEF Answers
<1> QED
  BY <1>1, TypesInit, TypesNext, OrderInit, OrderNext, AnswersInit, AnswersNext, PTL DEF Spec

-----------------------------------------------------------------------------
(***************************************************************************)
(* The transport implements RpcSession.  StageNow is the abstract stage of *)
(* every message, the value the refinement mapping gives to stage.         *)
(***************************************************************************)
StageNow == [n \in 1..Len(seen) |-> Stage(n)]

StageNames == {"held", "served", "answered", "rejected", "ignored", "dropped"}

(* A sequence given element by element, and one more element behind it. *)
LEMMA Pointwise ==
  ASSUME NEW S, NEW n \in Nat, NEW f \in [1..n -> S]
  PROVE  /\ f \in Seq(S)
         /\ Len(f) = n
         /\ f = <<>> <=> n = 0
OBVIOUS

LEMMA OneMore ==
  ASSUME NEW S, NEW n \in Nat, NEW f \in [1..n -> S], NEW g \in [1..n+1 -> S],
         \A i \in 1..n : g[i] = f[i]
  PROVE  g = Append(f, g[n + 1])
OBVIOUS

LEMMA StagesTyped ==
  ASSUME Types
  PROVE  /\ StageNow \in [1..Len(seen) -> StageNames]
         /\ StageNow \in Seq(StageNames)
         /\ Len(StageNow) = Len(seen)
         /\ StageNow = <<>> <=> Len(seen) = 0
         /\ Len(seen) \in Nat
         /\ \A n \in 1..Len(seen) : StageNow[n] = Stage(n)
<1>1. Len(seen) \in Nat
  BY DEF Types, TypeOK
<1>2. StageNow \in [1..Len(seen) -> StageNames]
  BY DEF StageNow, Stage, StageNames
<1> QED BY <1>1, <1>2, Pointwise DEF StageNow

(* RpcSession holds a message exactly when readLoop does. *)
LEMMA HoldingIsHolding ==
  ASSUME Types
  PROVE  Session!HoldingOne <=> rpc \in Holding
<1>1. StageNow # <<>> /\ StageNow[Len(StageNow)] = "held" <=> rpc \in Holding
  <2>1. CASE rpc \in Holding
    <3>1. Len(seen) \in 1..Len(seen)
      BY <2>1, StagesTyped DEF Types
    <3>2. Stage(Len(seen)) = "held"
      BY <2>1 DEF Stage
    <3> QED BY <2>1, <3>1, <3>2, StagesTyped
  <2>2. CASE rpc \notin Holding
    BY <2>2, StagesTyped DEF Stage
  <2> QED BY <2>1, <2>2
<1> QED BY <1>1 DEF Session!HoldingOne, StageNow

(* The message in hand is neither delivered nor answered. *)
LEMMA InHandIsUntouched ==
  ASSUME Types, Order, Answers, rpc \in Holding
  PROVE  /\ Current \in 1..Len(seen)
         /\ ~Delivered(Current)
         /\ \A k : ~Replied(Current, k)
<1>1. Len(seen) \in Nat /\ Current \in 1..Len(seen)
  BY DEF Types, TypeOK, Current
<1>2. ~Delivered(Current)
  BY <1>1 DEF Order, Delivered, Current, Types, TypeOK
<1>3. \A k : ~Replied(Current, k)
  <2>1. \A i \in 1..Len(replies) : replies[i].re # Current
    BY <1>1, RepliesTyped DEF Answers, Consistent, Current
  <2> QED BY <2>1 DEF Replied, Reply
<1> QED BY <1>1, <1>2, <1>3

(* A step that changes the stage of one message at most. *)
LEMMA OneStageChanges ==
  ASSUME Types, Types', NEW c \in 1..Len(seen), UNCHANGED seen,
         \A n \in 1..Len(seen) : n # c => Stage(n)' = Stage(n)
  PROVE  StageNow' = [StageNow EXCEPT ![c] = Stage(c)']
BY DEF StageNow

LEMMA NoStageChanges ==
  ASSUME UNCHANGED seen, \A n \in 1..Len(seen) : Stage(n)' = Stage(n)
  PROVE  StageNow' = StageNow
BY DEF StageNow

LEMMA OneStageAppended ==
  ASSUME Types, Types', NEW c, c = Len(seen) + 1, Len(seen') = c,
         \A n \in 1..Len(seen) : Stage(n)' = Stage(n)
  PROVE  StageNow' = Append(StageNow, Stage(c)')
<1>1. /\ StageNow \in [1..Len(seen) -> StageNames]
      /\ Len(seen) \in Nat
      /\ \A n \in 1..Len(seen) : StageNow[n] = Stage(n)
  BY StagesTyped
<1>2. StageNow' \in [1..Len(seen') -> StageNames]
  BY DEF StageNow, Stage, StageNames
<1>3. StageNow' \in [1..Len(seen)+1 -> StageNames]
  BY <1>2
<1>4. \A n \in 1..c : StageNow'[n] = Stage(n)'
  BY DEF StageNow
<1>5. \A n \in 1..Len(seen) : StageNow'[n] = StageNow[n]
  <2> TAKE n \in 1..Len(seen)
  <2>1. n \in 1..c
    BY <1>1
  <2>2. StageNow'[n] = Stage(n)'
    BY <1>4, <2>1
  <2>3. Stage(n)' = Stage(n) /\ StageNow[n] = Stage(n)
    BY <1>1
  <2> QED BY <2>2, <2>3
<1>6. StageNow' = Append(StageNow, StageNow'[Len(seen) + 1])
  BY <1>1, <1>3, <1>5, OneMore
<1>7. c \in 1..c
  BY <1>1
<1>8. StageNow'[c] = Stage(c)'
  BY <1>4, <1>7
<1> QED BY <1>6, <1>8

-----------------------------------------------------------------------------
(* What of a message decides its stage, when readLoop does not hold it. *)
LEMMA StageKept ==
  ASSUME NEW n \in 1..Len(seen), seen'[n] = seen[n],
         Delivered(n)' <=> Delivered(n),
         \A k : Replied(n, k)' <=> Replied(n, k),
         (n = Len(seen') /\ rpc' \in Holding) <=> (n = Len(seen) /\ rpc \in Holding)
  PROVE  Stage(n)' = Stage(n)
BY DEF Stage

(* A message leaves the hand of readLoop for its final stage. *)
LEMMA InHandSettles ==
  ASSUME Types, Order, Answers, Types', UNCHANGED seen, rpc \in Holding, rpc' \notin Holding,
         NEW c, c = Current,
         \A n \in 1..Len(seen) : n # c =>
           (Delivered(n)' <=> Delivered(n)) /\ \A k : Replied(n, k)' <=> Replied(n, k)
  PROVE  /\ Session!HoldingOne
         /\ Len(StageNow) = c
         /\ StageNow' = [StageNow EXCEPT ![Len(StageNow)] = Stage(c)']
<1>1. Session!HoldingOne
  BY HoldingIsHolding
<1>2. c \in 1..Len(seen) /\ c = Len(seen)
  BY InHandIsUntouched DEF Current
<1>3. Len(StageNow) = c
  BY <1>2, StagesTyped
<1>4. \A n \in 1..Len(seen) : n # c => Stage(n)' = Stage(n)
  BY <1>2, StageKept
<1>5. StageNow' = [StageNow EXCEPT ![c] = Stage(c)']
  BY <1>2, <1>4, OneStageChanges
<1> QED BY <1>1, <1>3, <1>5

-----------------------------------------------------------------------------
(* The state of the transport in which nothing changes for RpcSession. *)
SameSession == StageNow' = StageNow /\ (Closed("done"))' = Closed("done")

(* One step of the transport is one step of RpcSession or none. *)
SessionStep == [Session!Next]_(Session!vars)

LEMMA Stutters == SameSession => SessionStep
BY DEF SameSession, SessionStep, Session!vars, StageNow

LEMMA TakesUp ==
  ASSUME Types, rpc \notin Holding, UNCHANGED Closed("done"), NEW s \in {"held", "rejected"},
         StageNow' = Append(StageNow, s)
  PROVE  SessionStep
<1>1. ~Session!HoldingOne
  BY HoldingIsHolding
<1>2. Session!TakeUp
  BY <1>1 DEF Session!TakeUp, StageNow
<1> QED BY <1>2 DEF SessionStep, Session!Next

(* The message in hand settles for s, which it may do for "dropped" only   *)
(* when the session is closing.                                            *)
LEMMA Settles ==
  ASSUME Types, Session!HoldingOne, UNCHANGED Closed("done"),
         NEW s \in {"served", "rejected", "ignored", "dropped"},
         StageNow' = [StageNow EXCEPT ![Len(StageNow)] = s],
         s = "dropped" => Closed("done")
  PROVE  SessionStep
<1>1. Session!Settle(s)
  BY DEF Session!Settle, StageNow
<1>2. Session!Serve \/ Session!Reject \/ Session!Ignore \/ Session!Drop
  BY <1>1 DEF Session!Serve, Session!Reject, Session!Ignore, Session!Drop
<1> QED BY <1>2 DEF SessionStep, Session!Next

LEMMA AnswersOne ==
  ASSUME Types, UNCHANGED Closed("done"), NEW n \in 1..Len(seen), Stage(n) = "served",
         StageNow' = [StageNow EXCEPT ![n] = "answered"]
  PROVE  SessionStep
<1>1. StageNow[n] = "served" /\ n \in 1..Len(StageNow)
  BY StagesTyped
<1>2. Session!Answer(n)
  BY <1>1 DEF Session!Answer, StageNow
<1> QED BY <1>1, <1>2 DEF SessionStep, Session!Next, StageNow

LEMMA Closes ==
  ASSUME Types, ~Closed("done"), (Closed("done"))',
         \/ StageNow' = StageNow
         \/ Session!HoldingOne /\ StageNow' = [StageNow EXCEPT ![Len(StageNow)] = "dropped"]
  PROVE  SessionStep
<1>1. Session!Close
  BY DEF Session!Close, StageNow
<1> QED BY <1>1 DEF SessionStep, Session!Next

-----------------------------------------------------------------------------
(* What stdout says after one more line. *)
LEMMA RepliedAfter ==
  ASSUME Types, NEW c \in 0..MaxMessages, NEW k \in Rejections \cup {"result"},
         replies' = Append(replies, Reply(c, k))
  PROVE  \A n, q : Replied(n, q)' <=> Replied(n, q) \/ (n = c /\ q = k)
<1>1. /\ Len(replies') = Len(replies) + 1
      /\ \A i \in 1..Len(replies) : replies'[i] = replies[i]
      /\ replies'[Len(replies) + 1] = Reply(c, k)
      /\ \A n, q : Replied(n, q) => Replied(n, q)'
      /\ Replied(c, k)'
  BY RepliesAppended
<1>2. Len(replies) \in Nat
  BY DEF Types, TypeOK
<1> SUFFICES ASSUME NEW n, NEW q, Replied(n, q)', ~Replied(n, q)
             PROVE  n = c /\ q = k
  BY <1>1
<1>3. PICK i \in 1..Len(replies') : replies'[i] = Reply(n, q)
  BY DEF Replied
<1>4. i = Len(replies) + 1
  BY <1>1, <1>2, <1>3 DEF Replied
<1>5. Reply(c, k) = Reply(n, q)
  BY <1>1, <1>3, <1>4
<1> QED BY <1>5 DEF Reply

LEMMA SessionInit == Init => Session!Init
BY DEF Init, Session!Init, Closed

(* A message that route gives up, instead of handing it to the server, is  *)
(* dropped.                                                                *)
LEMMA Dropped ==
  ASSUME Types, Order, Answers, Types', UNCHANGED <<seen, delivered, replies>>,
         rpc \in {"select", "parked"}, rpc' \notin Holding
  PROVE  /\ Session!HoldingOne
         /\ StageNow' = [StageNow EXCEPT ![Len(StageNow)] = "dropped"]
<1>1. rpc \in Holding
  BY DEF Holding
<1> PICK c : c = Current
  OBVIOUS
<1>2. \A n : (Delivered(n)' <=> Delivered(n)) /\ \A k : Replied(n, k)' <=> Replied(n, k)
  BY DEF Delivered, Replied
<1>3. /\ Session!HoldingOne
      /\ StageNow' = [StageNow EXCEPT ![Len(StageNow)] = Stage(c)']
  BY <1>1, <1>2, InHandSettles
<1>4. Stage(c)' = "dropped"
  <2>1. ~Delivered(c) /\ (\A k : ~Replied(c, k)) /\ seen'[c] = seen[c]
    BY <1>1, InHandIsUntouched
  <2>2. Verdict(seen[c]) # "skip"
    BY DEF Types, Channel, Channels
  <2> QED BY <1>2, <2>1, <2>2 DEF Stage
<1> QED BY <1>3, <1>4

LEMMA SessionSteps == Types /\ Shutdown /\ Order /\ Answers /\ [Next]_vars => SessionStep
<1> SUFFICES ASSUME Types, Shutdown, Order, Answers, [Next]_vars PROVE SessionStep
  OBVIOUS
<1>t. Types'
  BY TypesNext
<1>n. /\ Len(seen) \in Nat /\ MaxMessages \in Nat
      /\ nclosed \in 0..Len(CloseOrder) /\ nclosed' \in 0..Len(CloseOrder)
  BY <1>t, TransportAssumption DEF Types, TypeOK
<1>k. Closed("done") <=> nclosed >= 1
  BY <1>n, ClosedFacts
<1>d. UNCHANGED nclosed => UNCHANGED Closed("done")
  BY DEF Closed
<1>s. ASSUME UNCHANGED <<seen, delivered, replies, nclosed>>, rpc' \in Holding <=> rpc \in Holding
      PROVE  SessionStep
  <2>1. \A n \in 1..Len(seen) : Stage(n)' = Stage(n)
    <3> TAKE n \in 1..Len(seen)
    <3>1. (Delivered(n)' <=> Delivered(n)) /\ \A k : Replied(n, k)' <=> Replied(n, k)
      BY <1>s DEF Delivered, Replied
    <3> QED BY <1>s, <3>1, StageKept
  <2> QED BY <1>s, <1>d, <2>1, NoStageChanges, Stutters DEF SameSession
<1>1. CASE Quiet
  <2>1. UNCHANGED <<seen, delivered, replies>>
    BY <1>1, QuietSteps
  <2>2. CASE \/ CheckDone \/ ReadError \/ SendError \/ Park \/ ReaderFinishes \/ ReaderEnds
             \/ TakeError \/ SeeClosed \/ StopBegins \/ StopReturns \/ UNCHANGED vars
    <3>1. UNCHANGED nclosed /\ (rpc' \in Holding <=> rpc \in Holding)
      BY <2>2 DEF CheckDone, ReadError, SendError, Park, ReaderFinishes, ReaderEnds,
         TakeError, SeeClosed, StopBegins, StopReturns, vars, readerVars, chanVars,
         serverVars, Holding
    <3> QED BY <1>s, <2>1, <3>1
  <2>3. CASE SelectDone \/ SelectPanics
    <3>1. UNCHANGED nclosed /\ rpc = "select" /\ rpc' \notin Holding
      BY <2>3 DEF SelectDone, SelectPanics, chanVars, Holding
    <3>2. Closed("done")
      <4>1. CASE SelectDone
        BY <4>1 DEF SelectDone
      <4>2. CASE SelectPanics
        <5>1. Channel \in Channels /\ Closed(Channel)
          BY <3>1, <4>2 DEF SelectPanics, Types
        <5> QED BY <1>n, <5>1, ClosedFacts DEF Channels
      <4> QED BY <2>3, <4>1, <4>2
    <3>3. /\ Session!HoldingOne
          /\ StageNow' = [StageNow EXCEPT ![Len(StageNow)] = "dropped"]
      BY <1>t, <2>1, <3>1, Dropped
    <3> QED BY <1>d, <3>1, <3>2, <3>3, Settles
  <2>4. CASE CloseNext
    <3>1. nclosed' = nclosed + 1
      BY <2>4 DEF CloseNext
    <3>2. (Closed("done"))' <=> nclosed' >= 1
      <4>1. Len(CloseOrder)' = Len(CloseOrder) /\ CloseOrder[1] = "done"
        BY DEF CloseOrder
      <4> QED BY <1>n, <3>1, <4>1 DEF Closed, CloseOrder
    <3>3. (Closed("done"))'
      BY <1>n, <3>1, <3>2
    <3>4. CASE rpc = "parked"
      <4>1. nclosed = 0 /\ rpc' = "top"
        BY <2>4, <3>4, FirstClose DEF CloseNext, Shutdown
      <4>2. /\ Session!HoldingOne
            /\ StageNow' = [StageNow EXCEPT ![Len(StageNow)] = "dropped"]
        BY <1>t, <2>1, <3>4, <4>1, Dropped DEF Holding
      <4> QED BY <1>k, <3>3, <4>1, <4>2, Closes
    <3>5. CASE rpc # "parked"
      <4>1. rpc' = rpc
        BY <2>4, <3>5 DEF CloseNext
      <4>2. StageNow' = StageNow
        <5>1. \A n \in 1..Len(seen) : Stage(n)' = Stage(n)
          BY <2>1, <4>1, StageKept DEF Delivered, Replied
        <5> QED BY <2>1, <5>1, NoStageChanges
      <4>3. CASE Closed("done")
        BY <3>3, <4>2, <4>3, Stutters DEF SameSession
      <4>4. CASE ~Closed("done")
        BY <3>3, <4>2, <4>4, Closes
      <4> QED BY <4>3, <4>4
    <3> QED BY <3>4, <3>5
  <2> QED BY <1>1, <2>2, <2>3, <2>4 DEF Quiet
<1>2. ASSUME NEW m \in Messages, NextValue(m) PROVE SessionStep
  <2>1. /\ seen' = Append(seen, m)
        /\ UNCHANGED <<delivered, replies, nclosed>>
        /\ rpc \notin Holding /\ rpc' \in Holding
    BY <1>2 DEF NextValue, Holding, chanVars, serverVars
  <2> PICK c \in Nat : c = Len(seen) + 1
    BY <1>n
  <2>2. Len(seen') = c /\ \A n \in 1..Len(seen) : seen'[n] = seen[n] /\ n # c
    BY <1>n, <2>1, SeenAppended
  <2>3. \A n \in 1..Len(seen) : Stage(n)' = Stage(n)
    BY <2>1, <2>2, StageKept DEF Delivered, Replied
  <2>4. Stage(c)' = "held"
    BY <2>1, <2>2 DEF Stage
  <2>5. StageNow' = Append(StageNow, "held")
    BY <1>t, <2>2, <2>3, <2>4, OneStageAppended
  <2> QED BY <1>d, <2>1, <2>5, TakesUp
<1>3. ASSUME NEW m \in Messages, Overflow(m) PROVE SessionStep
  <2>1. /\ seen' = Append(seen, m)
        /\ replies' = Append(replies, Reply(Len(seen'), "parse error"))
        /\ UNCHANGED <<delivered, nclosed>>
        /\ rpc \notin Holding /\ rpc' \notin Holding
        /\ Len(seen) < MaxMessages
    BY <1>3 DEF Overflow, Holding, chanVars, serverVars
  <2> PICK c \in 0..MaxMessages : c = Len(seen) + 1
    <3>1. Len(seen) + 1 \in 0..MaxMessages
      <4>1. Len(seen) < MaxMessages /\ Len(seen) \in Nat /\ MaxMessages \in Nat
        BY <1>n, <2>1
      <4> QED BY ONLY <4>1
    <3> QED BY <3>1
  <2>2. Len(seen') = c /\ \A n \in 1..Len(seen) : seen'[n] = seen[n] /\ n # c
    <3>1. seen' = Append(seen, m)
      BY <2>1
    <3>2. Len(seen') = Len(seen) + 1 /\ \A n \in 1..Len(seen) : seen'[n] = seen[n]
      BY <3>1, SeenAppended
    <3> QED BY <1>n, <3>2
  <2>3. replies' = Append(replies, Reply(c, "parse error"))
    BY <2>1, <2>2
  <2>4. /\ Replied(c, "parse error")'
        /\ \A n, k : Replied(n, k)' <=> Replied(n, k) \/ (n = c /\ k = "parse error")
    BY <2>3, ParseError, RepliedAfter
  <2>5. \A n \in 1..Len(seen) : Stage(n)' = Stage(n)
    BY <2>1, <2>2, <2>4, StageKept DEF Delivered
  <2>6. ~Delivered(c)' /\ ~Replied(c, "result")
    <3>1. ~Delivered(c)'
      <4>1. \A i \in 1..Len(delivered) : delivered[i] <= Len(seen)
        BY DEF Order
      <4>2. ~Delivered(c)
        BY <1>n, <4>1 DEF Delivered
      <4> QED BY <2>1, <4>2 DEF Delivered
    <3>2. \A i \in 1..Len(replies) : replies[i].re # c
      BY <1>n, RepliesTyped DEF Answers, Consistent
    <3> QED BY <3>1, <3>2 DEF Replied, Reply
  <2>7. Stage(c)' = "rejected"
    <3>1. /\ rpc' \notin Holding /\ ~Delivered(c)' /\ Replied(c, "parse error")'
          /\ "parse error" \in Rejections /\ "parse error" # "result"
      BY <2>1, <2>4, <2>6 DEF Rejections
    <3>2. ~Replied(c, "result")'
      BY <2>4, <2>6, <3>1
    <3> QED BY <3>1, <3>2 DEF Stage
  <2>8. StageNow' = Append(StageNow, "rejected")
    BY <1>t, <2>2, <2>5, <2>7, OneStageAppended
  <2> QED BY <1>d, <2>1, <2>8, TakesUp
<1>4. CASE EndOfInput
  <2>1. /\ UNCHANGED <<seen, delivered, nclosed>>
        /\ rpc \notin Holding /\ rpc' \notin Holding
    BY <1>4 DEF EndOfInput, Holding, chanVars, serverVars
  <2>2. \A n \in 1..Len(seen) : \A k : Replied(n, k)' <=> Replied(n, k)
    <3>1. CASE UNCHANGED replies
      BY <3>1 DEF Replied
    <3>2. CASE replies' = Append(replies, Reply(0, "parse error"))
      <4>1. 0 \in 0..MaxMessages
        BY <1>n
      <4>2. \A n, k : Replied(n, k)' <=> Replied(n, k) \/ (n = 0 /\ k = "parse error")
        BY <3>2, <4>1, ParseError, RepliedAfter
      <4>3. \A n \in 1..Len(seen) : n # 0
        BY <1>n
      <4> QED BY <4>2, <4>3
    <3> QED BY <1>4, <3>1, <3>2 DEF EndOfInput
  <2>3. \A n \in 1..Len(seen) : Stage(n)' = Stage(n)
    BY <2>1, <2>2, StageKept DEF Delivered
  <2> QED BY <1>d, <2>1, <2>3, NoStageChanges, Stutters DEF SameSession
<1>5. CASE Handle
  <2>1. /\ UNCHANGED <<seen, delivered, nclosed>>
        /\ rpc \in Holding
    BY <1>5 DEF Handle, Holding, chanVars, serverVars
  <2> PICK c \in 0..MaxMessages : c = Current
    BY <1>n DEF Types, Current
  <2>h. ~Delivered(c) /\ (\A k : ~Replied(c, k)) /\ c \in 1..Len(seen)
    BY <2>1, InHandIsUntouched
  <2>2. CASE Channel \in Channels /\ rpc' = "select" /\ UNCHANGED replies
    BY <1>s, <2>1, <2>2 DEF Holding
  <2>3. CASE Channel = "skip" /\ rpc' = "top" /\ UNCHANGED replies
    <3>1. /\ Session!HoldingOne
          /\ StageNow' = [StageNow EXCEPT ![Len(StageNow)] = Stage(c)']
      BY <1>t, <2>1, <2>3, InHandSettles DEF Holding, Delivered, Replied
    <3>2. Stage(c)' = "ignored"
      BY <2>1, <2>3, <2>h DEF Stage, Holding, Delivered, Replied, Channel
    <3> QED BY <1>d, <2>1, <3>1, <3>2, Settles
  <2>4. CASE /\ Channel \in Rejections /\ rpc' = "top"
             /\ replies' = Append(replies, Reply(Current, Channel))
    <3> PICK v \in Rejections : v = Channel
      BY <2>4
    <3>1. replies' = Append(replies, Reply(c, v)) /\ v \in Rejections \cup {"result"}
      BY <2>4
    <3>2. /\ Replied(c, v)'
          /\ \A n, k : Replied(n, k)' <=> Replied(n, k) \/ (n = c /\ k = v)
      BY <3>1, RepliedAfter
    <3>3. /\ Session!HoldingOne
          /\ StageNow' = [StageNow EXCEPT ![Len(StageNow)] = Stage(c)']
      BY <1>t, <2>1, <2>4, <3>2, InHandSettles DEF Holding, Delivered
    <3>4. Stage(c)' = "rejected"
      <4>1. rpc' \notin Holding /\ ~Delivered(c)' /\ ~Replied(c, "result")'
        <5>1. v # "result" /\ "top" \notin Holding
          BY DEF Rejections, Holding
        <5>2. ~Delivered(c)'
          BY <2>1, <2>h DEF Delivered
        <5> QED BY <2>4, <2>h, <3>2, <5>1, <5>2
      <4> QED BY <3>2, <4>1 DEF Stage
    <3> QED BY <1>d, <2>1, <3>3, <3>4, Settles
  <2> QED BY <1>5, <2>2, <2>3, <2>4 DEF Handle
<1>6. CASE Deliver
  <2>1. /\ UNCHANGED <<seen, replies, nclosed>>
        /\ rpc \in Holding /\ rpc' \notin Holding
        /\ delivered' = Append(delivered, Current)
    BY <1>6 DEF Deliver, Holding, chanVars
  <2> PICK c \in 1..MaxMessages : c = Current
    BY <1>n, <2>1 DEF Types, Current
  <2>h. \A k : ~Replied(c, k)
    BY <2>1, InHandIsUntouched
  <2>2. Delivered(c)' /\ \A n : Delivered(n)' <=> Delivered(n) \/ n = c
    BY <2>1, DeliveredAppended
  <2>3. /\ Session!HoldingOne
        /\ StageNow' = [StageNow EXCEPT ![Len(StageNow)] = Stage(c)']
    BY <1>t, <2>1, <2>2, InHandSettles DEF Replied
  <2>4. Stage(c)' = "served"
    BY <2>1, <2>2, <2>h DEF Stage, Replied
  <2> QED BY <1>d, <2>1, <2>3, <2>4, Settles
<1>7. ASSUME NEW n \in inflight, HandlerReturns(n) PROVE SessionStep
  <2>1. /\ UNCHANGED <<seen, delivered, nclosed, rpc>>
        /\ Delivered(n)
    BY <1>7 DEF HandlerReturns, readerVars, chanVars, Answers
  <2>2. n \in 0..MaxMessages /\ n \in 1..Len(seen) /\ (rpc \in Holding => n < Len(seen))
    BY <1>n, <2>1 DEF Types, TypeOK, Delivered, Order
  <2>3. CASE UNCHANGED replies
    BY <1>s, <2>1, <2>3
  <2>4. CASE replies' = Append(replies, Reply(n, "result"))
    <3>1. /\ Replied(n, "result")'
          /\ \A i, k : Replied(i, k)' <=> Replied(i, k) \/ (i = n /\ k = "result")
      BY <2>2, <2>4, RepliedAfter
    <3>2. ~Replied(n, "result")
      BY <1>7 DEF Answers, Consistent, Replied, Reply
    <3>3. ~(n = Len(seen) /\ rpc \in Holding)
      BY <1>n, <2>2
    <3>4. Stage(n) = "served" /\ Stage(n)' = "answered"
      BY <2>1, <3>1, <3>2, <3>3 DEF Stage
    <3>5. \A i \in 1..Len(seen) : i # n => Stage(i)' = Stage(i)
      BY <2>1, <3>1, StageKept DEF Delivered
    <3>6. StageNow' = [StageNow EXCEPT ![n] = "answered"]
      BY <1>t, <2>1, <2>2, <3>4, <3>5, OneStageChanges
    <3> QED BY <1>d, <2>1, <2>2, <3>4, <3>6, AnswersOne
  <2> QED BY <1>7, <2>3, <2>4 DEF HandlerReturns
<1> QED
  BY <1>1, <1>2, <1>3, <1>4, <1>5, <1>6, <1>7, StepCases

(* The goroutines and channels of the transport implement RpcSession: a    *)
(* message is dropped only once done is closed, and answered once.         *)
THEOREM TransportImplementsSession == Spec => ImplementsSession
<1>1. Types /\ Shutdown /\ Order /\ Answers /\ [Next]_vars
        => [Session!Next]_(Session!vars)
  BY SessionSteps DEF SessionStep
<1> QED
  BY <1>1, SessionInit, TypesInit, TypesNext, ShutdownInit, ShutdownNext, OrderInit,
     OrderNext, AnswersInit, AnswersNext, PTL DEF Spec, ImplementsSession, Session!Spec
=============================================================================
