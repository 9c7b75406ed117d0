---------------------------- MODULE MessageStream ----------------------------
(***************************************************************************)
(* What reading stdin promises: whatever the client writes is handled one  *)
(* message at a time, in the order written, each message once and as what  *)
(* it is - a value passed on whole, or an error for what is malformed.     *)
(***************************************************************************)
EXTENDS Naturals, Sequences

CONSTANT Entry  \* what can become of a message

VARIABLES
  sent,     \* what the client is owed, in the order written
  handled   \* what readLoop did

vars == <<sent, handled>>

Init == sent = <<>> /\ handled = <<>>

Send ==
  /\ \E e \in Entry : sent' = Append(sent, e)
  /\ UNCHANGED handled

Handle ==
  /\ Len(handled) < Len(sent)
  /\ handled' = Append(handled, sent[Len(handled) + 1])
  /\ UNCHANGED sent

Spec == Init /\ [][Send \/ Handle]_vars
=============================================================================
