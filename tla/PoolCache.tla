------------------------------ MODULE PoolCache ------------------------------
(***************************************************************************)
(* What DB of pkg/handler/db.go promises to one caller after another: the  *)
(* first call for a database that succeeds fixes the pool of that database *)
(* for good, every later call gets the same one, and a call that fails     *)
(* leaves no trace.                                                        *)
(***************************************************************************)
EXTENDS Naturals

CONSTANTS Callers, Databases

VARIABLES
  cache,   \* from the databases with a pool to their pools
  answer   \* answer[c]: what c's last call returned: a pool, or 0 for none

vars == <<cache, answer>>

Used == {cache[n] : n \in DOMAIN cache}

Init ==
  /\ cache = <<>>
  /\ answer = [c \in Callers |-> 0]

Ask(c) == answer' = [answer EXCEPT ![c] = 0] /\ UNCHANGED cache

Hit(c, n) ==
  /\ n \in DOMAIN cache
  /\ answer' = [answer EXCEPT ![c] = cache[n]]
  /\ UNCHANGED cache

Open(c, n, p) ==
  /\ n \notin DOMAIN cache
  /\ p \notin Used
  /\ cache' = [m \in DOMAIN cache \cup {n} |-> IF m = n THEN p ELSE cache[m]]
  /\ answer' = [answer EXCEPT ![c] = p]

Next ==
  \E c \in Callers :
    \/ Ask(c)
    \/ \E n \in Databases : Hit(c, n) \/ \E p \in {answer'[c]} \ {0} : Open(c, n, p)

Spec == Init /\ [][Next]_vars
=============================================================================
