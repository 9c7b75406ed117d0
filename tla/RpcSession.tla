------------------------------ MODULE RpcSession ------------------------------
(***************************************************************************)
(* What the transport of cmd/stdiotransport.go promises to the client at   *)
(* the other end of stdin and stdout, with no channel and no goroutine in  *)
(* sight: messages are taken up one at a time, in the order in which they  *)
(* were written; each one is served, rejected with an error or ignored;    *)
(* one is dropped only in a session that is closing; and what is served is *)
(* answered at most once.                                                  *)
(***************************************************************************)
EXTENDS Naturals, Sequences

VARIABLES
  open,    \* no shutdown has begun
  stage    \* stage[n]: what became of the n-th message

vars == <<open, stage>>

Stages == {"held", "served", "answered", "rejected", "ignored", "dropped"}

Init ==
  /\ open = TRUE
  /\ stage = <<>>

HoldingOne == stage # <<>> /\ stage[Len(stage)] = "held"

(* The next message is read; one that outgrows the buffer is rejected      *)
(* there and then.                                                         *)
TakeUp ==
  /\ ~HoldingOne
  /\ \E s \in {"held", "rejected"} : stage' = Append(stage, s)
  /\ UNCHANGED open

Settle(s) ==
  /\ HoldingOne
  /\ stage' = [stage EXCEPT ![Len(stage)] = s]
  /\ UNCHANGED open

Serve  == Settle("served")
Reject == Settle("rejected")
Ignore == Settle("ignored")
Drop   == ~open /\ Settle("dropped")

Answer(n) ==
  /\ stage[n] = "served"
  /\ stage' = [stage EXCEPT ![n] = "answered"]
  /\ UNCHANGED open

(* A shutdown begins; the message in hand may go down with it. *)
Close ==
  /\ open
  /\ open' = FALSE
  /\ \/ UNCHANGED stage
     \/ HoldingOne /\ stage' = [stage EXCEPT ![Len(stage)] = "dropped"]

Next ==
  \/ TakeUp \/ Serve \/ Reject \/ Ignore \/ Drop \/ Close
  \/ \E n \in 1..Len(stage) : Answer(n)

Spec == Init /\ [][Next]_vars
=============================================================================
