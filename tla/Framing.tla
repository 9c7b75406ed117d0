------------------------------- MODULE Framing -------------------------------
(***************************************************************************)
(* extractNext of cmd/stdiotransport.go and its helpers: how a buffer of   *)
(* bytes is cut into top-level JSON values.                                *)
(*                                                                         *)
(* A byte is represented by what the code tells apart.  "x" stands for     *)
(* every byte without a meaning of its own to the scanner; "space" for     *)
(* blank, tab and carriage return; "vtab" for a byte that bytes.TrimSpace  *)
(* takes for white space and firstNonWS does not.                          *)
(***************************************************************************)
EXTENDS Naturals, Sequences, FiniteSetsExt

Opening == {"{", "["}
Closing == {"}", "]"}
Byte == Opening \cup Closing \cup
        {"quote", "backslash", "newline", "space", "vtab", "x"}

(* bytes.TrimSpace(s) == nil. *)
Blank(s) == \A i \in 1..Len(s) : s[i] \in {"space", "newline", "vtab"}

(* The first position in P, 0 if there is none: the -1 of the code. *)
First(P) == IF P = {} THEN 0 ELSE Min(P)

FirstNonWS(buf) == First({i \in 1..Len(buf) : buf[i] \notin {"space", "newline"}})

(* The state of findValueEnd's loop, and one turn of it. *)
ScanStart == [depth |-> 0, inString |-> FALSE, escaped |-> FALSE]

(* Mutant: a quote ends the string also after a backslash. *)
ScanByteNoEscapes(s, c) ==
  IF c = "quote" THEN [s EXCEPT !.inString = ~@]
  ELSE IF s.inString THEN s
  ELSE IF c \in Opening THEN [s EXCEPT !.depth = @ + 1]
  ELSE IF c \in Closing THEN [s EXCEPT !.depth = @ - 1]
  ELSE s

ScanByte(s, c) ==
  IF s.inString THEN
    [s EXCEPT !.escaped = ~@ /\ c = "backslash",
              !.inString = s.escaped \/ c # "quote"]
  ELSE IF c = "quote" THEN [s EXCEPT !.inString = TRUE]
  ELSE IF c \in Opening THEN [s EXCEPT !.depth = @ + 1]
  ELSE IF c \in Closing THEN [s EXCEPT !.depth = @ - 1]
  ELSE s

(* The end of the value that starts with the bracket at buf[i]. *)
FindValueEnd(buf, i) ==
  LET scan[j \in (i - 1)..Len(buf)] ==
        IF j < i THEN ScanStart ELSE ScanByte(scan[j - 1], buf[j])
  IN  First({j \in i..Len(buf) : scan[j].depth = 0})

(* The end of the line that holds buf[i]. *)
LineEnd(buf, i) == First({j \in i..Len(buf) : buf[j] = "newline"})

Incomplete(buf) == [complete |-> FALSE, value |-> <<>>, rest |-> buf]

ExtractNext(buf) ==
  LET i == FirstNonWS(buf)
      end == IF i = 0 THEN 0
             ELSE IF buf[i] \in Opening THEN FindValueEnd(buf, i) ELSE LineEnd(buf, i)
  IN  IF end = 0 THEN Incomplete(buf)
      ELSE [complete |-> TRUE,
            value |-> SubSeq(buf, i, end),
            rest |-> SubSeq(buf, end + 1, Len(buf))]
=============================================================================
