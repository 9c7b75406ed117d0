----------------------------- MODULE FrameReader -----------------------------
(***************************************************************************)
(* readLoop of cmd/stdiotransport.go at the level of bytes: a client       *)
(* writes messages to stdin, readLoop reads them in chunks of any size and *)
(* cuts the chunks into messages again.  What route does with a message    *)
(* is the subject of Transport.                                            *)
(*                                                                         *)
(* A definition marked "Mutant" is a mistake that could be made in the     *)
(* definition after it; PROJECT.json says which property detects it.       *)
(***************************************************************************)
EXTENDS Framing

CONSTANTS
  Docs,        \* JSON values a client may write
  Junk,        \* malformed messages a client may write
  Separators,  \* what it may write after a message
  MaxWrites,   \* bound: messages in one session
  ReadSize,    \* len(tmp), 8192 in the code
  MaxBuffer,   \* maxBuffer, 16 MiB in the code
  Valid        \* the byte strings that json.Valid accepts

ASSUME FrameReaderAssumption ==
  /\ Docs \cup Junk \cup Separators \subseteq Seq(Byte)
  /\ MaxWrites \in Nat
  /\ ReadSize \in Nat \ {0}
  /\ MaxBuffer \in Nat

VARIABLES
  stdin,   \* the bytes in the pipe
  owed,    \* per message written, what the client should get for it
  hungUp,  \* the client closed stdin
  buf,     \* readLoop's buffer
  log,     \* what readLoop passed to route or answered, in order
  ended    \* readLoop returned

clientVars == <<owed, hungUp>>
vars == <<stdin, clientVars, buf, log, ended>>

(* What can be made of a message: it is passed on, or answered with one of *)
(* the parse errors.                                                       *)
Passed(v) == [kind |-> "passed", bytes |-> v]
Error(k)  == [kind |-> k, bytes |-> <<>>]
Errors    == {"invalid", "incomplete", "too large"}
Handling  == [kind : Errors \cup {"passed"}, bytes : Seq(Byte)]
Entry     == {Passed(v) : v \in Docs} \cup {Error(k) : k \in Errors}

Init ==
  /\ stdin = <<>>
  /\ owed = <<>>
  /\ hungUp = FALSE
  /\ buf = <<>>
  /\ log = <<>>
  /\ ended = FALSE

-----------------------------------------------------------------------------
(* The client. *)

Write(bytes, e) ==
  /\ ~hungUp
  /\ Len(owed) < MaxWrites
  /\ stdin' = stdin \o bytes
  /\ owed' = Append(owed, e)
  /\ UNCHANGED <<buf, log, ended>>

WriteDoc(d, s)  == Write(d \o s, Passed(d)) /\ UNCHANGED hungUp
WriteJunk(j, s) == Write(j \o s, Error("invalid")) /\ UNCHANGED hungUp

(* The client dies in the middle of a message. *)
WritePart(d, n) == Write(SubSeq(d, 1, n), Error("incomplete")) /\ hungUp' = TRUE

HangUp ==
  /\ ~hungUp
  /\ hungUp' = TRUE
  /\ UNCHANGED <<stdin, owed, buf, log, ended>>

-----------------------------------------------------------------------------
(* readLoop. *)

(* handleValue: white space is ignored, invalid JSON answered. *)
Handled(v) ==
  IF Blank(v) THEN <<>>
  ELSE IF v \in Valid THEN <<Passed(v)>>
  ELSE <<Error("invalid")>>

Carve ==
  LET next == ExtractNext(buf) IN
  /\ ~ended
  /\ next.complete
  /\ buf' = next.rest
  /\ log' = log \o Handled(next.value)
  /\ UNCHANGED <<stdin, clientVars, ended>>

(* readLoop is in a read: the buffer holds no complete value. *)
Reading == ~ended /\ ~ExtractNext(buf).complete

(* Mutant: the buffer is not bounded. *)
ReadUnbounded(n) ==
  /\ Reading
  /\ n <= Len(stdin)
  /\ stdin' = SubSeq(stdin, n + 1, Len(stdin))
  /\ buf' = buf \o SubSeq(stdin, 1, n)
  /\ UNCHANGED <<clientVars, log, ended>>

(* Mutant: what outgrows the buffer is dropped without an error. *)
ReadDropping(n) ==
  LET grown == buf \o SubSeq(stdin, 1, n) IN
  /\ Reading
  /\ n <= Len(stdin)
  /\ stdin' = SubSeq(stdin, n + 1, Len(stdin))
  /\ buf' = IF Len(grown) <= MaxBuffer THEN grown ELSE <<>>
  /\ UNCHANGED <<clientVars, log, ended>>

(* A read returns n bytes of the pipe, in whatever portions they arrive.   *)
(* The length is checked before the new bytes are looked at.               *)
Read(n) ==
  LET grown == buf \o SubSeq(stdin, 1, n) IN
  /\ Reading
  /\ n <= Len(stdin)
  /\ stdin' = SubSeq(stdin, n + 1, Len(stdin))
  /\ \/ /\ Len(grown) <= MaxBuffer
        /\ buf' = grown
        /\ UNCHANGED log
     \/ /\ Len(grown) > MaxBuffer
        /\ buf' = <<>>
        /\ log' = Append(log, Error("too large"))
  /\ UNCHANGED <<clientVars, ended>>

ReadEOF ==
  /\ Reading
  /\ stdin = <<>> /\ hungUp
  /\ log' = IF Blank(buf) THEN log ELSE Append(log, Error("incomplete"))
  /\ ended' = TRUE
  /\ UNCHANGED <<stdin, clientVars, buf>>

-----------------------------------------------------------------------------
Client ==
  \/ \E s \in Separators :
       \/ \E d \in Docs : WriteDoc(d, s)
       \/ \E j \in Junk : WriteJunk(j, s)
  \/ \E d \in Docs : \E n \in 1..(Len(d) - 1) : WritePart(d, n)
  \/ HangUp

ReadLoop == Carve \/ (\E n \in 1..ReadSize : Read(n)) \/ ReadEOF

Terminated == ended /\ UNCHANGED vars

Next == Client \/ ReadLoop \/ Terminated

Spec == Init /\ [][Next]_vars

-----------------------------------------------------------------------------
(* What the client may write.  A message is one value by extractNext's own *)
(* rule when it stands alone, or longer than the buffer; what stands       *)
(* between two messages is white space, and a byte of it that extractNext  *)
(* takes for the start of a line has the end of that line behind it.       *)

White == {"space", "newline", "vtab"}

Gap(b, lo, hi) ==
  \A i \in lo..hi :
    /\ b[i] \in White
    /\ b[i] = "vtab" => \E j \in i..hi : b[j] = "newline"

StandsAlone(p) ==
  /\ Len(p) > 0 /\ p[1] \notin White
  /\ IF ExtractNext(p).complete THEN ExtractNext(p).value = p ELSE Len(p) > MaxBuffer

WellFramed ==
  /\ \A p \in Docs \cup Junk : StandsAlone(p)
  /\ Docs \subseteq Valid
  /\ Junk \cap Valid = {}
  /\ \A s \in Separators : Gap(s, 1, Len(s))

-----------------------------------------------------------------------------
(* Properties. *)

(* Every variable stays in its type, the buffer within its bound: what     *)
(* never closes cannot grow without limit.                                 *)
TypeOK ==
  /\ stdin \in Seq(Byte)
  /\ owed \in Seq(Entry)
  /\ hungUp \in BOOLEAN
  /\ buf \in Seq(Byte) /\ Len(buf) <= MaxBuffer
  /\ log \in Seq(Handling)
  /\ ended \in BOOLEAN

(* What became of the messages up to the first overflow. *)
BeforeOverflow ==
  LET cut == {i \in 1..Len(log) : log[i] = Error("too large")} IN
  IF cut = {} THEN log ELSE SubSeq(log, 1, Min(cut) - 1)

Stream == INSTANCE MessageStream WITH sent <- owed, handled <- BeforeOverflow

(* However the pipe cuts and joins the bytes, they are framed again as the *)
(* messages written, in order, pretty-printed or on one line; a malformed  *)
(* or truncated one costs one error and nothing else.  What never closes   *)
(* ends this: the buffer that outgrows its bound may hold parts of others. *)
FramesMessages == Stream!Spec

(* readLoop has come to the end of what there is to read. *)
CaughtUp == stdin = <<>> /\ (ended \/ (Reading /\ ~hungUp))

(* cmd/main.go: "a single malformed line is answered with a JSON-RPC error *)
(* and never breaks processing of the next line."  (finding)               *)
EveryDocPassed ==
  CaughtUp =>
    \A i \in 1..Len(owed) :
      owed[i].kind = "passed" => \E j \in 1..Len(log) : log[j] = owed[i]

(* No message waits for the bytes after it, and what readLoop drops it     *)
(* reports: when the pipe is empty and readLoop is in a read, or has seen  *)
(* the end, every message was passed on or answered with its own error,    *)
(* unless one went down in an overflow that was answered.                  *)
LossIsReported ==
  CaughtUp =>
    \/ log = owed
    \/ \E i \in 1..Len(log) : log[i] = Error("too large")
=============================================================================
