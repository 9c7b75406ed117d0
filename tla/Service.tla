-------------------------------- MODULE Service --------------------------------
(***************************************************************************)
(* What the whole server promises to a client that asks for reads and      *)
(* writes: a write happens at most once, in the database the message       *)
(* names, only while the client has no answer, and on no read-only server; *)
(* it is reported as done only if it was done.  An error tells nothing: a  *)
(* write may have happened or not.  A write is the statement of a write    *)
(* tool; what the SQL given to select_query does is not looked at.         *)
(***************************************************************************)
EXTENDS Naturals, Sequences

CONSTANT Request   \* what a message may ask for: an op on a db

VARIABLES
  readOnly,  \* no write tool is executed
  asked,     \* the messages of the client
  told,      \* told[n]: "nothing" yet, "ok" or "error"
  effects    \* effects[t]: the write that happened at moment t

vars == <<readOnly, asked, told, effects>>

Init ==
  /\ readOnly \in BOOLEAN
  /\ asked = <<>> /\ told = <<>> /\ effects = <<>>

Happened(n) == \E t \in DOMAIN effects : effects[t].msg = n

(* What cannot be read is answered at once. *)
Ask ==
  /\ \E r \in Request : asked' = Append(asked, r)
  /\ \E k \in {"nothing", "error"} : told' = Append(told, k)
  /\ UNCHANGED <<readOnly, effects>>

Write(n) ==
  /\ ~readOnly
  /\ asked[n].op = "write" /\ told[n] = "nothing" /\ ~Happened(n)
  /\ \E t \in DOMAIN effects' :
       /\ \A s \in DOMAIN effects : s < t
       /\ effects' = [s \in DOMAIN effects \cup {t} |->
                        IF s = t THEN [msg |-> n, db |-> asked[n].db] ELSE effects[s]]
  /\ UNCHANGED <<readOnly, asked, told>>

Tell(n, k) ==
  /\ told[n] = "nothing"
  /\ k = "ok" /\ asked[n].op = "write" => Happened(n)
  /\ told' = [told EXCEPT ![n] = k]
  /\ UNCHANGED <<readOnly, asked, effects>>

Next ==
  \/ Ask
  \/ \E n \in 1..Len(asked) : Write(n) \/ \E k \in {"ok", "error"} : Tell(n, k)

Spec == Init /\ [][Next]_vars
=============================================================================
