----------------------------- MODULE MCTransport -----------------------------
(***************************************************************************)
(* The instance of Transport that TLC checks: one message shape for every  *)
(* branch of readLoop, handleValue and route.                              *)
(***************************************************************************)
EXTENDS Transport

Good == [blank |-> FALSE, fits |-> TRUE, valid |-> TRUE, envelope |-> TRUE,
         method |-> TRUE, result |-> FALSE, typed |-> TRUE, id |-> TRUE]

Request      == Good
Notification == [Good EXCEPT !.id = FALSE]
Response     == [Good EXCEPT !.method = FALSE, !.result = TRUE]
BadRequest   == [Good EXCEPT !.typed = FALSE]
BadResponse  == [Response EXCEPT !.typed = FALSE]
Neither      == [Good EXCEPT !.method = FALSE]
NotAnObject  == [Neither EXCEPT !.envelope = FALSE]
Garbage      == [NotAnObject EXCEPT !.valid = FALSE]
White        == [Garbage EXCEPT !.blank = TRUE]
Huge         == [Request EXCEPT !.fits = FALSE]

AllShapes == {Request, Notification, Response, BadRequest, BadResponse,
              Neither, NotAnObject, Garbage, White, Huge}
=============================================================================
