-------------------------- MODULE FrameReaderProofs --------------------------
(***************************************************************************)
(* Proofs about FrameReader for every alphabet of messages, every size of  *)
(* a read and every bound on the buffer: whatever the client writes, what  *)
(* readLoop keeps is bounded by maxBuffer; and whatever pieces the bytes   *)
(* come in, the messages are handled as written, none of them late, up to  *)
(* the first that is too long.                                             *)
(***************************************************************************)
EXTENDS FrameReader, FramingProofs

(* A part of a sequence of bytes is one. *)
LEMMA PartOfBytes ==
  ASSUME NEW b \in Seq(Byte), NEW m \in 1..(Len(b) + 1), NEW n \in 0..Len(b)
  PROVE  /\ SubSeq(b, m, n) \in Seq(Byte)
         /\ Len(SubSeq(b, m, n)) <= Len(b)
<1>1. Len(b) \in Nat /\ m \in Int /\ n \in Int
  OBVIOUS
<1>2. \A i \in m..n : b[i] \in Byte
  BY <1>1
<1>3. /\ SubSeq(b, m, n) \in Seq(Byte)
      /\ Len(SubSeq(b, m, n)) = IF m <= n THEN n - m + 1 ELSE 0
  BY <1>1, <1>2, SubSeqProperties
<1> QED BY <1>1, <1>3

LEMMA FirstBytes ==
  ASSUME NEW b \in Seq(Byte), NEW n \in 0..Len(b)
  PROVE  /\ SubSeq(b, 1, n) \in Seq(Byte)
         /\ Len(SubSeq(b, 1, n)) = n
         /\ \A i \in 1..n : SubSeq(b, 1, n)[i] = b[i]
<1>1. 1 \in Int /\ n \in Int /\ n >= 0 /\ n - 1 + 1 = n /\ \A i \in 1..n : b[i] \in Byte
  OBVIOUS
<1>2. PICK v : v = SubSeq(b, 1, n)
  OBVIOUS
<1>3. /\ v \in Seq(Byte) /\ Len(v) = IF 1 <= n THEN n - 1 + 1 ELSE 0
      /\ \A i \in 1..(n - 1 + 1) : v[i] = b[1 + i - 1]
  BY <1>1, <1>2, SubSeqProperties
<1>4. Len(v) = n
  BY <1>1, <1>3
<1>5. ASSUME NEW i \in 1..n PROVE v[i] = b[i]
  <2>1. i \in 1..(n - 1 + 1) /\ 1 + i - 1 = i
    BY <1>1
  <2> QED BY <1>3, <2>1
<1> QED BY <1>2, <1>3, <1>4, <1>5

LEMMA OtherBytes ==
  ASSUME NEW b \in Seq(Byte), NEW n \in 0..Len(b)
  PROVE  /\ SubSeq(b, n + 1, Len(b)) \in Seq(Byte)
         /\ Len(SubSeq(b, n + 1, Len(b))) = Len(b) - n
         /\ \A i \in 1..(Len(b) - n) : SubSeq(b, n + 1, Len(b))[i] = b[n + i]
<1>1. PICK k : k = Len(b)
  OBVIOUS
<1>2. /\ n + 1 \in Int /\ k \in Int /\ n \in Nat /\ n <= k
      /\ k - (n + 1) + 1 = k - n
      /\ \A i \in (n + 1)..k : b[i] \in Byte
  BY <1>1
<1>3. PICK v : v = SubSeq(b, n + 1, k)
  OBVIOUS
<1>4. /\ v \in Seq(Byte) /\ Len(v) = IF n + 1 <= k THEN k - (n + 1) + 1 ELSE 0
      /\ \A i \in 1..(k - (n + 1) + 1) : v[i] = b[n + 1 + i - 1]
  BY <1>2, <1>3, SubSeqProperties
<1>5. Len(v) = k - n
  BY <1>2, <1>4
<1>6. ASSUME NEW i \in 1..(k - n) PROVE v[i] = b[n + i]
  <2>1. i \in 1..(k - (n + 1) + 1) /\ n + 1 + i - 1 = n + i
    BY <1>2
  <2> QED BY <1>4, <2>1
<1> QED BY <1>1, <1>3, <1>4, <1>5, <1>6

(* One more error on stdout. *)
LEMMA LogGrows ==
  ASSUME log \in Seq(Handling), NEW k \in Errors
  PROVE  Append(log, Error(k)) \in Seq(Handling)
<1>1. Error(k) \in Handling
  <2>1. <<>> \in Seq(Byte)
    BY EmptySeq
  <2> QED BY <2>1 DEF Error, Handling
<1> QED BY <1>1

LEMMA TypeInit == Init => TypeOK
<1>1. <<>> \in Seq(Byte) /\ <<>> \in Seq(Entry) /\ <<>> \in Seq(Handling) /\ Len(<<>>) = 0
  BY EmptySeq
<1>2. 0 <= MaxBuffer
  BY FrameReaderAssumption
<1> QED BY <1>1, <1>2 DEF Init, TypeOK

(* What the client writes are bytes, and it is owed one entry for it. *)
LEMMA WriteTypes ==
  ASSUME TypeOK, NEW w \in Seq(Byte), NEW e \in Entry, Write(w, e), hungUp' \in BOOLEAN
  PROVE  TypeOK'
<1>1. stdin' \in Seq(Byte)
  BY ConcatProperties DEF TypeOK, Write
<1>2. owed' \in Seq(Entry)
  BY DEF TypeOK, Write
<1> QED BY <1>1, <1>2 DEF TypeOK, Write

LEMMA TypeNext == TypeOK /\ [Next]_vars => TypeOK'
<1> SUFFICES ASSUME TypeOK, [Next]_vars PROVE TypeOK'
  OBVIOUS
<1>a. ASSUME NEW d \in Docs PROVE d \in Seq(Byte) /\ Passed(d) \in Entry
  BY FrameReaderAssumption DEF Entry
<1>b. ASSUME NEW k \in Errors PROVE Error(k) \in Entry /\ Error(k) \in Handling
  BY DEF Entry, Error, Handling
<1>1. CASE UNCHANGED vars
  BY <1>1 DEF TypeOK, vars, clientVars
<1>2. ASSUME NEW s \in Separators, NEW d \in Docs, WriteDoc(d, s) PROVE TypeOK'
  <2>1. d \o s \in Seq(Byte) /\ Passed(d) \in Entry
    BY <1>a, ConcatProperties, FrameReaderAssumption
  <2>2. Write(d \o s, Passed(d)) /\ hungUp' \in BOOLEAN
    BY <1>2 DEF WriteDoc, TypeOK
  <2> QED BY <2>1, <2>2, WriteTypes
<1>3. ASSUME NEW s \in Separators, NEW j \in Junk, WriteJunk(j, s) PROVE TypeOK'
  <2>1. j \o s \in Seq(Byte) /\ Error("invalid") \in Entry
    BY <1>b, ConcatProperties, FrameReaderAssumption DEF Errors
  <2>2. Write(j \o s, Error("invalid")) /\ hungUp' \in BOOLEAN
    BY <1>3 DEF WriteJunk, TypeOK
  <2> QED BY <2>1, <2>2, WriteTypes
<1>4. ASSUME NEW d \in Docs, NEW n \in 1..(Len(d) - 1), WritePart(d, n) PROVE TypeOK'
  <2>0. d \in Seq(Byte) /\ Len(d) \in Nat /\ n \in 0..Len(d) /\ 1 \in 1..(Len(d) + 1)
    BY <1>a
  <2>1. SubSeq(d, 1, n) \in Seq(Byte)
    BY <2>0, PartOfBytes
  <2>2. Error("incomplete") \in Entry
    BY <1>b DEF Errors
  <2>3. Write(SubSeq(d, 1, n), Error("incomplete")) /\ hungUp' \in BOOLEAN
    BY <1>4 DEF WritePart
  <2> QED BY <2>1, <2>2, <2>3, WriteTypes
<1>5. CASE HangUp
  BY <1>5 DEF HangUp, TypeOK
<1>6. CASE Carve
  <2>1. buf \in Seq(Byte) /\ ExtractNext(buf).complete
    BY <1>6 DEF Carve, TypeOK
  <2>2. PICK i \in 1..Len(buf), end \in 1..Len(buf) :
               /\ ExtractNext(buf).value = SubSeq(buf, i, end)
               /\ ExtractNext(buf).rest = SubSeq(buf, end + 1, Len(buf))
    BY <2>1, ExtractFacts
  <2>3. Len(buf) \in Nat
    BY <2>1
  <2>4. ExtractNext(buf).value \in Seq(Byte)
    BY <2>1, <2>2, <2>3, PartOfBytes
  <2>5. ExtractNext(buf).rest \in Seq(Byte) /\ Len(ExtractNext(buf).rest) <= Len(buf)
    <3>1. end + 1 \in 1..(Len(buf) + 1) /\ Len(buf) \in 0..Len(buf)
      BY <2>3
    <3> QED BY <2>1, <2>2, <3>1, PartOfBytes
  <2>6. Handled(ExtractNext(buf).value) \in Seq(Handling)
    <3>1. Passed(ExtractNext(buf).value) \in Handling
      BY <2>4 DEF Passed, Handling
    <3>2. Error("invalid") \in Handling
      BY <1>b DEF Errors
    <3> QED BY <3>1, <3>2 DEF Handled
  <2>7. log' \in Seq(Handling)
    BY <1>6, <2>6, ConcatProperties DEF Carve, TypeOK
  <2>8. buf' = ExtractNext(buf).rest /\ UNCHANGED <<stdin, owed, hungUp, ended>>
    BY <1>6 DEF Carve, clientVars
  <2> QED BY <2>3, <2>5, <2>7, <2>8, FrameReaderAssumption, LenProperties DEF TypeOK
<1>7. ASSUME NEW n \in 1..ReadSize, Read(n) PROVE TypeOK'
  <2> DEFINE chunk == SubSeq(stdin, 1, n)
  <2>0. /\ n <= Len(stdin)
        /\ stdin' = SubSeq(stdin, n + 1, Len(stdin))
        /\ UNCHANGED <<owed, hungUp, ended>>
        /\ \/ Len(buf \o chunk) <= MaxBuffer /\ buf' = buf \o chunk /\ log' = log
           \/ buf' = <<>> /\ log' = Append(log, Error("too large"))
    BY <1>7 DEF Read, clientVars
  <2>1. stdin \in Seq(Byte) /\ Len(stdin) \in Nat /\ n \in 1..Len(stdin)
    <3>1. stdin \in Seq(Byte) /\ Len(stdin) \in Nat
      BY DEF TypeOK
    <3>2. n \in Nat /\ n >= 1
      BY FrameReaderAssumption
    <3>3. n <= Len(stdin)
      BY <2>0
    <3> HIDE DEF chunk
    <3> QED BY <3>1, <3>2, <3>3
  <2>2. stdin' \in Seq(Byte)
    <3>1. n + 1 \in 1..(Len(stdin) + 1) /\ Len(stdin) \in 0..Len(stdin)
      BY <2>1
    <3> QED BY <2>0, <2>1, <3>1, PartOfBytes
  <2>3. chunk \in Seq(Byte)
    <3>1. 1 \in 1..(Len(stdin) + 1) /\ n \in 0..Len(stdin)
      BY <2>1
    <3> QED BY <2>1, <3>1, PartOfBytes
  <2>4. buf \o chunk \in Seq(Byte)
    BY <2>3, ConcatProperties DEF TypeOK
  <2>5. buf' \in Seq(Byte) /\ Len(buf') <= MaxBuffer
    <3>1. <<>> \in Seq(Byte) /\ Len(<<>>) <= MaxBuffer
      BY EmptySeq, FrameReaderAssumption
    <3>2. CASE Len(buf \o chunk) <= MaxBuffer /\ buf' = buf \o chunk
      BY <2>4, <3>2
    <3>3. CASE buf' = <<>>
      BY <3>1, <3>3
    <3> QED BY <2>0, <3>2, <3>3
  <2>6. log' \in Seq(Handling)
    BY <2>0, LogGrows DEF TypeOK, Errors
  <2>7. owed \in Seq(Entry) /\ hungUp \in BOOLEAN /\ ended \in BOOLEAN
    BY DEF TypeOK
  <2> QED BY <2>0, <2>2, <2>5, <2>6, <2>7 DEF TypeOK
<1>8. CASE ReadEOF
  <2>1. /\ log' = log \/ log' = Append(log, Error("incomplete"))
        /\ ended' = TRUE
        /\ UNCHANGED <<stdin, owed, hungUp, buf>>
    BY <1>8 DEF ReadEOF, clientVars
  <2>2. log' \in Seq(Handling)
    BY <2>1, LogGrows DEF TypeOK, Errors
  <2> QED BY <2>1, <2>2 DEF TypeOK
<1> QED
  BY <1>1, <1>2, <1>3, <1>4, <1>5, <1>6, <1>7, <1>8
     DEF Next, Client, ReadLoop, Terminated

(* Whatever the client writes, readLoop never keeps more than maxBuffer    *)
(* bytes from one step to the next, and every state is well typed.         *)
THEOREM BufferBounded == Spec => []TypeOK
BY TypeInit, TypeNext, PTL DEF Spec

-----------------------------------------------------------------------------
(***************************************************************************)
(* The bytes that were written and not carved yet, in the buffer and in    *)
(* the pipe: some white space, and then each message not handled yet, with *)
(* the white space after it.  The end of the client may have cut the last. *)
(***************************************************************************)
Whole(b, lo, hi, e) ==
  \E p \in Docs \cup Junk :
    /\ Handled(p) = <<e>>
    /\ lo + Len(p) <= hi
    /\ Starts(b, lo, p, Len(p))
    /\ Gap(b, lo + Len(p) + 1, hi)

Part(b, lo, hi, e) ==
  /\ e = Error("incomplete")
  /\ lo < hi
  /\ \E p \in Docs : hi - lo < Len(p) /\ Starts(b, lo, p, hi - lo)

(* cut[k] is the last byte of the k-th message, n messages are handled.    *)
Cuts(b, ow, n, last, cut) ==
  /\ cut \in [n..Len(ow) -> 0..Len(b)]
  /\ cut[Len(ow)] = Len(b)
  /\ \A j, k \in n..Len(ow) : j <= k => cut[j] <= cut[k]
  /\ Gap(b, 1, cut[n])
  /\ \A k \in (n + 1)..Len(ow) :
       \/ Whole(b, cut[k - 1], cut[k], ow[k])
       \/ last /\ k = Len(ow) /\ Part(b, cut[k - 1], cut[k], ow[k])

Unread(b, ow, n, last) == \E cut : Cuts(b, ow, n, last, cut)

(* Bytes mean the same elsewhere: b2 has those of b, d further on. *)
Moved(b, lo, hi, b2, d) == \A i \in lo..hi : b2[i + d] = b[i]

LEMMA GapMoves ==
  ASSUME NEW b, NEW b2, NEW d \in Int, NEW lo \in Int, NEW hi \in Int,
         NEW lo2, NEW hi2, lo2 = lo + d, hi2 = hi + d,
         Moved(b, lo, hi, b2, d), Gap(b, lo, hi)
  PROVE  Gap(b2, lo2, hi2)
<1> SUFFICES ASSUME NEW i \in (lo + d)..(hi + d)
             PROVE  /\ b2[i] \in White
                    /\ b2[i] = "vtab" => \E j \in i..(hi + d) : b2[j] = "newline"
  BY DEF Gap
<1>1. i - d \in lo..hi /\ (i - d) + d = i
  OBVIOUS
<1>2. b2[i] = b[i - d]
  BY <1>1 DEF Moved
<1>3. ASSUME b2[i] = "vtab" PROVE \E j \in i..(hi + d) : b2[j] = "newline"
  <2>1. PICK j \in (i - d)..hi : b[j] = "newline"
    BY <1>1, <1>2, <1>3 DEF Gap
  <2>2. j \in lo..hi /\ j + d \in i..(hi + d)
    BY <1>1
  <2>3. b2[j + d] = "newline"
    BY <2>1, <2>2 DEF Moved
  <2> QED BY <2>2, <2>3
<1> QED BY <1>1, <1>2, <1>3 DEF Gap

LEMMA MessageMoves ==
  ASSUME NEW b, NEW b2, NEW d \in Int, NEW lo \in Int, NEW hi \in Int, NEW e,
         NEW lo2, NEW hi2, lo2 = lo + d, hi2 = hi + d,
         Moved(b, lo + 1, hi, b2, d)
  PROVE  /\ Whole(b, lo, hi, e) => Whole(b2, lo2, hi2, e)
         /\ Part(b, lo, hi, e) => Part(b2, lo2, hi2, e)
<1>0. ASSUME NEW p, NEW m \in Nat, lo + m <= hi, Starts(b, lo, p, m)
      PROVE  Starts(b2, lo + d, p, m)
  <2> SUFFICES ASSUME NEW i \in 1..m PROVE b2[(lo + d) + i] = p[i]
    BY DEF Starts
  <2>1. lo + i \in (lo + 1)..hi /\ (lo + i) + d = (lo + d) + i
    BY <1>0
  <2>2. b[lo + i] = p[i]
    BY <1>0 DEF Starts
  <2> QED BY <2>1, <2>2 DEF Moved
<1>1. ASSUME Whole(b, lo, hi, e) PROVE Whole(b2, lo + d, hi + d, e)
  <2>1. PICK p \in Docs \cup Junk :
          /\ Handled(p) = <<e>>
          /\ lo + Len(p) <= hi
          /\ Starts(b, lo, p, Len(p))
          /\ Gap(b, lo + Len(p) + 1, hi)
    BY <1>1 DEF Whole
  <2>2. Len(p) \in Nat
    BY FrameReaderAssumption
  <2>3. Starts(b2, lo + d, p, Len(p))
    BY <1>0, <2>1, <2>2
  <2>4. Gap(b2, (lo + Len(p) + 1) + d, hi + d)
    <3>1. lo + Len(p) + 1 \in Int /\ Moved(b, lo + Len(p) + 1, hi, b2, d)
      BY <2>2 DEF Moved
    <3> QED BY <2>1, <3>1, GapMoves
  <2>5. (lo + Len(p) + 1) + d = (lo + d) + Len(p) + 1 /\ (lo + d) + Len(p) <= hi + d
    BY <2>1, <2>2
  <2> QED BY <2>1, <2>3, <2>4, <2>5 DEF Whole
<1>2. ASSUME Part(b, lo, hi, e) PROVE Part(b2, lo + d, hi + d, e)
  <2>1. PICK p \in Docs : hi - lo < Len(p) /\ Starts(b, lo, p, hi - lo)
    BY <1>2 DEF Part
  <2>2. lo < hi /\ hi - lo \in Nat /\ lo + (hi - lo) <= hi /\ (hi + d) - (lo + d) = hi - lo
    BY <1>2 DEF Part
  <2>3. Starts(b2, lo + d, p, hi - lo)
    BY <1>0, <2>1, <2>2
  <2>4. lo + d < hi + d
    BY <2>2
  <2> QED BY <1>2, <2>1, <2>2, <2>3, <2>4 DEF Part
<1> QED BY <1>1, <1>2

-----------------------------------------------------------------------------
(* What extractNext finds in the buffer, the first bytes of those unread.  *)

Heads(c, b) ==
  /\ c \in Seq(Byte) /\ b \in Seq(Byte)
  /\ Len(c) <= Len(b)
  /\ \A i \in 1..Len(c) : c[i] = b[i]

(* In the white space before a message it finds white space.               *)
LEMMA GapHead ==
  ASSUME NEW b, NEW c, Heads(c, b), NEW g \in 0..Len(b), Gap(b, 1, g),
         FirstNonWS(c) \in 1..g
  PROVE  /\ EndOf(c) <= g
         /\ g <= Len(c) => EndOf(c) # 0
<1> DEFINE i == FirstNonWS(c)
           P == {j \in i..Len(c) : c[j] = "newline"}
<1>0. Len(b) \in Nat /\ Len(c) \in Nat /\ c \in Seq(Byte) /\ Len(c) <= Len(b)
  BY DEF Heads
<1>1. i \in 1..Len(c) /\ c[i] \notin {"space", "newline"}
  BY <1>0, FirstNonWSFacts
<1>2. c[i] = b[i] /\ b[i] \in White
  BY <1>1 DEF Heads, Gap
<1>3. c[i] = "vtab"
  BY <1>1, <1>2 DEF White
<1>4. EndOf(c) = First(P)
  BY <1>1, <1>3 DEF EndOf, LineEnd, Opening
<1>5. PICK j : j \in i..g /\ b[j] = "newline"
  BY <1>2, <1>3 DEF Gap
<1>6. P \in SUBSET Nat
  BY <1>1
<1>7. /\ First(P) \in P \cup {0}
      /\ P # {} => First(P) \in P
      /\ \A x \in P : First(P) <= x
  <2> HIDE DEF P
  <2> QED BY <1>6, FirstFacts
<1>8. CASE j <= Len(c)
  <2>1. j \in 1..Len(c) /\ j \in i..Len(c)
    BY <1>0, <1>1, <1>5, <1>8
  <2>2. j \in P
    BY <1>5, <2>1 DEF Heads
  <2>3. First(P) <= j /\ First(P) \in P
    <3> HIDE DEF P
    <3> QED BY <1>7, <2>2
  <2>4. First(P) \in i..Len(c)
    BY <2>3
  <2> HIDE DEF P
  <2> QED BY <1>1, <1>4, <1>5, <2>3, <2>4
<1>9. CASE ~(j <= Len(c))
  <2>1. First(P) \in 0..Len(c)
    BY <1>0, <1>1, <1>7
  <2> HIDE DEF P
  <2> QED BY <1>0, <1>1, <1>4, <1>5, <1>9, <2>1
<1> QED BY <1>8, <1>9

(* A message that stands alone ends at its last byte, or not at all. *)
LEMMA AloneFacts ==
  ASSUME NEW p \in Seq(Byte), StandsAlone(p)
  PROVE  /\ FirstNonWS(p) = 1
         /\ EndOf(p) = Len(p) \/ (EndOf(p) = 0 /\ Len(p) > MaxBuffer)
<1>0. Len(p) \in Nat /\ 1 \in 1..Len(p) /\ p[1] \notin {"space", "newline"}
  BY DEF StandsAlone, White
<1>1. FirstNonWS(p) = 1
  BY <1>0, FirstNonWSIs
<1>2. CASE ~ExtractNext(p).complete
  BY <1>1, <1>2, ExtractIs DEF StandsAlone
<1>3. CASE ExtractNext(p).complete
  <2>1. EndOf(p) # 0 /\ EndOf(p) \in 0..Len(p) /\ SubSeq(p, 1, EndOf(p)) = p
    BY <1>1, <1>3, ExtractIs, EndFacts DEF StandsAlone
  <2>2. Len(SubSeq(p, 1, EndOf(p))) = EndOf(p)
    BY <1>0, <2>1, LenProperties, SubSeqProperties
  <2> QED BY <1>1, <2>1, <2>2
<1> QED BY <1>2, <1>3

(* In front of a message it finds that message, as soon as it is whole.    *)
LEMMA MessageHead ==
  ASSUME NEW b, NEW c, Heads(c, b), NEW p \in Seq(Byte), StandsAlone(p),
         NEW o \in Nat, NEW m \in 1..Len(p), o + m <= Len(b), Starts(b, o, p, m),
         \A j \in 1..o : c[j] \in {"space", "newline"}, o < Len(c)
  PROVE  /\ FirstNonWS(c) = o + 1
         /\ Len(c) < o + Len(p) /\ Len(c) <= o + m => EndOf(c) = 0
         /\ m = Len(p) /\ o + m <= Len(c) /\ m <= MaxBuffer =>
              /\ EndOf(c) = o + m
              /\ SubSeq(c, o + 1, o + m) = p
<1>0. /\ Len(b) \in Nat /\ Len(c) \in Nat /\ Len(p) \in Nat /\ m \in Nat \ {0}
      /\ c \in Seq(Byte) /\ b \in Seq(Byte) /\ Len(c) <= Len(b)
  BY DEF Heads
<1>1. FirstNonWS(c) = o + 1
  <2>1. o + 1 \in 1..Len(c) /\ (o + 1) - 1 = o /\ 1 \in 1..m
    BY <1>0
  <2>2. c[o + 1] = p[1]
    BY <2>1 DEF Heads, Starts
  <2>3. c[o + 1] \notin {"space", "newline"}
    BY <2>2 DEF StandsAlone, White
  <2> QED BY <1>0, <2>1, <2>3, FirstNonWSIs
<1>2. FirstNonWS(p) = 1 /\ (EndOf(p) = Len(p) \/ (EndOf(p) = 0 /\ Len(p) > MaxBuffer))
  BY AloneFacts
<1>3. ASSUME NEW k \in Nat, k <= m, o + k <= Len(c) PROVE Starts(c, o, p, k)
  <2> SUFFICES ASSUME NEW i \in 1..k PROVE c[o + i] = p[i]
    BY DEF Starts
  <2>1. o + i \in 1..Len(c) /\ i \in 1..m
    BY <1>0, <1>3
  <2> QED BY <2>1 DEF Heads, Starts
<1>4. ASSUME Len(c) < o + Len(p), Len(c) <= o + m PROVE EndOf(c) = 0
  <2>1. Len(c) - o \in Nat \ {0} /\ Len(c) - o <= m /\ Len(c) - o < Len(p) /\ o + (Len(c) - o) = Len(c)
    BY <1>0, <1>4
  <2>2. PICK k : k \in Nat \ {0} /\ k <= m /\ k < Len(p) /\ o + k = Len(c)
    BY <2>1
  <2>3. Starts(c, o, p, k)
    <3>1. k \in Nat /\ o + k <= Len(c)
      BY <1>0, <2>2
    <3> QED BY <1>3, <2>2, <3>1
  <2>4. EndOf(p) = 0 \/ EndOf(p) > k
    BY <1>0, <1>2, <2>2
  <2>5. k \in Nat \ {0} /\ o + k <= Len(c) /\ k <= Len(p) /\ Len(c) = o + k
    BY <1>0, <2>2
  <2>6. FirstNonWS(p) = 1
    BY <1>2
  <2> QED BY <1>0, <1>1, <2>3, <2>4, <2>5, <2>6, EndAgrees
<1>5. ASSUME m = Len(p), o + m <= Len(c), m <= MaxBuffer
      PROVE  EndOf(c) = o + m /\ SubSeq(c, o + 1, o + m) = p
  <2>1. EndOf(p) = m
    BY <1>0, <1>2, <1>5, FrameReaderAssumption
  <2>2. Starts(c, o, p, m)
    BY <1>0, <1>3, <1>5
  <2>3. EndOf(c) = o + m
    <3>1. EndOf(p) \in 1..m /\ m <= Len(p)
      BY <1>0, <1>5, <2>1
    <3>2. EndOf(c) = o + EndOf(p)
      BY <1>0, <1>1, <1>2, <1>5, <2>2, <3>1, EndAgrees
    <3> QED BY <2>1, <3>2
  <2>4. SubSeq(c, o + 1, o + m) = p
    <3> DEFINE v == SubSeq(c, o + 1, o + m)
    <3>1. /\ o + 1 \in Int /\ o + m \in Int /\ o + 1 <= o + m
          /\ \A i \in (o + 1)..(o + m) : c[i] \in Byte
          /\ (o + m) - (o + 1) + 1 = m
      BY <1>0, <1>5
    <3>2. /\ v \in Seq(Byte)
          /\ Len(v) = m
          /\ \A i \in 1..m : v[i] = c[o + 1 + i - 1]
      <4>1. PICK from, to : from = o + 1 /\ to = o + m
        OBVIOUS
      <4>2. /\ from \in Int /\ to \in Int /\ from <= to /\ to - from + 1 = m
            /\ \A i \in from..to : c[i] \in Byte
        BY <3>1, <4>1
      <4>3. PICK u : u = SubSeq(c, from, to)
        OBVIOUS
      <4>4. /\ u \in Seq(Byte)
            /\ Len(u) = IF from <= to THEN to - from + 1 ELSE 0
            /\ \A i \in 1..(to - from + 1) : u[i] = c[from + i - 1]
        BY <4>2, <4>3, SubSeqProperties
      <4> QED BY <4>1, <4>2, <4>3, <4>4
    <3>3. \A i \in 1..m : v[i] = p[i]
      <4> TAKE i \in 1..m
      <4>1. o + 1 + i - 1 = o + i
        BY <1>0
      <4> QED BY <2>2, <3>2, <4>1 DEF Starts
    <3> HIDE DEF v
    <3>4. v = p
      <4>1. Len(v) = Len(p) /\ \A i \in 1..Len(v) : v[i] = p[i]
        BY <1>5, <3>2, <3>3
      <4>2. v \in Seq(Byte)
        BY <3>2
      <4> QED BY <4>1, <4>2, SeqEqual
    <3> QED BY <3>4 DEF v
  <2> QED BY <2>3, <2>4
<1> QED BY <1>1, <1>4, <1>5

-----------------------------------------------------------------------------
(* How the unread bytes change. *)

LEMMA NothingUnread == Unread(<<>>, <<>>, 0, FALSE)
<1> DEFINE cut == [k \in 0..0 |-> 0]
<1>1. Len(<<>>) = 0
  OBVIOUS
<1>2. cut \in [0..0 -> 0..0] /\ cut[0] = 0 /\ \A j, k \in 0..0 : cut[j] <= cut[k]
  OBVIOUS
<1>3. Gap(<<>>, 1, 0)
  BY DEF Gap
<1> HIDE DEF cut
<1>4. Cuts(<<>>, <<>>, 0, FALSE, cut)
  BY <1>1, <1>2, <1>3 DEF Cuts
<1> QED BY <1>4 DEF Unread

(* A message comes in behind what is there. *)
LEMMA OneMoreUnread ==
  ASSUME NEW b \in Seq(Byte), NEW w \in Seq(Byte), NEW ow \in Seq(Entry), NEW e \in Entry,
         NEW n \in 0..Len(ow), NEW last,
         Unread(b, ow, n, FALSE),
         \/ Whole(w, 0, Len(w), e)
         \/ last /\ Part(w, 0, Len(w), e)
  PROVE  Unread(b \o w, Append(ow, e), n, last)
<1>1. PICK cut : Cuts(b, ow, n, FALSE, cut)
  BY DEF Unread
<1>2. /\ Len(b) \in Nat /\ Len(w) \in Nat /\ Len(ow) \in Nat /\ n \in Nat /\ n <= Len(ow)
      /\ Len(b \o w) = Len(b) + Len(w)
      /\ \A i \in 1..Len(b) : (b \o w)[i] = b[i]
      /\ \A i \in 1..Len(w) : (b \o w)[i + Len(b)] = w[i]
  <2>1. \A i \in 1..Len(b) + Len(w) :
          (b \o w)[i] = IF i <= Len(b) THEN b[i] ELSE w[i - Len(b)]
    BY ConcatProperties
  <2>2. Len(b \o w) = Len(b) + Len(w) /\ Len(b) \in Nat /\ Len(w) \in Nat
    BY ConcatProperties
  <2>3. ASSUME NEW i \in 1..Len(w) PROVE (b \o w)[i + Len(b)] = w[i]
    <3>1. i + Len(b) \in 1..Len(b) + Len(w) /\ ~(i + Len(b) <= Len(b)) /\ (i + Len(b)) - Len(b) = i
      BY <2>2
    <3> QED BY <2>1, <3>1
  <2>4. ASSUME NEW i \in 1..Len(b) PROVE (b \o w)[i] = b[i]
    <3>1. i \in 1..Len(b) + Len(w) /\ i <= Len(b)
      BY <2>2
    <3> QED BY <2>1, <3>1
  <2> QED BY <2>2, <2>3, <2>4
<1>3. PICK B, L, O :
        /\ B = b \o w /\ L = Len(b) /\ O = Append(ow, e)
  OBVIOUS
<1>4. /\ Len(B) = L + Len(w)
      /\ \A i \in 1..L : B[i + 0] = b[i]
      /\ \A i \in 1..Len(w) : B[i + L] = w[i]
      /\ L \in Nat /\ Len(w) \in Nat
  BY <1>2, <1>3
<1>5. /\ Len(O) = Len(ow) + 1
      /\ \A k \in 1..Len(ow) : O[k] = ow[k]
      /\ O[Len(ow) + 1] = e
  BY <1>3
<1>6. /\ cut \in [n..Len(ow) -> 0..L]
      /\ cut[Len(ow)] = L
      /\ \A j, k \in n..Len(ow) : j <= k => cut[j] <= cut[k]
      /\ Gap(b, 1, cut[n])
      /\ \A k \in (n + 1)..Len(ow) : Whole(b, cut[k - 1], cut[k], ow[k])
  BY <1>1, <1>3 DEF Cuts
<1>7. PICK new : new = [k \in n..(Len(ow) + 1) |-> IF k <= Len(ow) THEN cut[k] ELSE Len(B)]
  OBVIOUS
<1>8. /\ \A k \in n..Len(ow) : new[k] = cut[k] /\ new[k] \in 0..L
      /\ new[Len(ow) + 1] = L + Len(w)
  <2>1. ASSUME NEW k \in n..Len(ow) PROVE new[k] = cut[k] /\ new[k] \in 0..L
    <3>1. k \in n..(Len(ow) + 1) /\ k <= Len(ow)
      BY <1>2
    <3> QED BY <1>6, <1>7, <3>1
  <2>2. Len(ow) + 1 \in n..(Len(ow) + 1) /\ ~(Len(ow) + 1 <= Len(ow))
    BY <1>2
  <2> QED BY <1>4, <1>7, <2>1, <2>2
<1>9. new \in [n..Len(O) -> 0..Len(B)]
  <2>1. ASSUME NEW k \in n..(Len(ow) + 1) PROVE new[k] \in 0..Len(B)
    <3>1. CASE k <= Len(ow)
      <4>1. k \in n..Len(ow)
        BY <1>2, <3>1
      <4>2. new[k] \in 0..L
        BY <1>8, <4>1
      <4> QED BY <1>4, <4>2
    <3>2. CASE ~(k <= Len(ow))
      <4>1. k = Len(ow) + 1
        BY <1>2, <3>2
      <4> QED BY <1>4, <1>8, <4>1
    <3> QED BY <3>1, <3>2
  <2> QED BY <1>5, <1>7, <2>1
<1>10. new[Len(O)] = Len(B)
  BY <1>4, <1>5, <1>8
<1>11. ASSUME NEW j \in n..Len(O), NEW k \in n..Len(O), j <= k PROVE new[j] <= new[k]
  <2>1. CASE k <= Len(ow)
    <3>1. j \in n..Len(ow) /\ k \in n..Len(ow)
      BY <1>2, <1>11, <2>1
    <3> QED BY <1>6, <1>8, <1>11, <3>1
  <2>2. CASE ~(k <= Len(ow))
    <3>1. k = Len(O)
      BY <1>2, <1>5, <2>2
    <3>2. new[j] \in 0..Len(B) /\ Len(B) \in Nat
      BY <1>4, <1>9
    <3> QED BY <1>10, <3>1, <3>2
  <2> QED BY <2>1, <2>2
<1>12. Gap(B, 1, new[n])
  <2>1. n \in n..Len(ow) /\ cut[n] \in 0..L /\ cut[n] = new[n]
    BY <1>2, <1>6, <1>8
  <2>2. Moved(b, 1, cut[n], B, 0)
    BY <1>4, <2>1 DEF Moved
  <2>3. 1 = 1 + 0 /\ cut[n] = cut[n] + 0 /\ cut[n] \in Int /\ 0 \in Int
    BY <2>1
  <2>4. Gap(B, 1, cut[n])
    BY <1>6, <2>2, <2>3, GapMoves
  <2> QED BY <2>1, <2>4
<1>13. ASSUME NEW k \in (n + 1)..Len(ow) PROVE Whole(B, new[k - 1], new[k], O[k])
  <2>1. /\ k \in n..Len(ow) /\ k - 1 \in n..Len(ow) /\ k \in 1..Len(ow)
    BY <1>2
  <2>2. PICK lo, hi : lo = cut[k - 1] /\ hi = cut[k]
    OBVIOUS
  <2>3. lo \in 0..L /\ hi \in 0..L /\ lo = new[k - 1] /\ hi = new[k]
    BY <1>8, <2>1, <2>2
  <2>4. Whole(b, lo, hi, ow[k])
    BY <1>6, <2>2
  <2>5. Moved(b, lo + 1, hi, B, 0)
    BY <1>4, <2>3 DEF Moved
  <2>6. lo = lo + 0 /\ hi = hi + 0 /\ lo \in Int /\ hi \in Int /\ 0 \in Int
    BY <2>3
  <2>7. Whole(B, lo, hi, ow[k])
    BY <2>4, <2>5, <2>6, MessageMoves
  <2>8. O[k] = ow[k]
    BY <1>5, <2>1
  <2> QED BY <2>3, <2>7, <2>8
<1>14. \/ Whole(B, new[Len(O) - 1], new[Len(O)], O[Len(O)])
       \/ last /\ Part(B, new[Len(O) - 1], new[Len(O)], O[Len(O)])
  <2>1. Len(O) - 1 = Len(ow) /\ new[Len(ow)] = L /\ new[Len(O)] = Len(w) + L /\ O[Len(O)] = e
    <3>1. Len(ow) \in n..Len(ow)
      BY <1>2
    <3> QED BY <1>2, <1>4, <1>5, <1>6, <1>8, <3>1
  <2>2. Moved(w, 0 + 1, Len(w), B, L)
    BY <1>4 DEF Moved
  <2>3. PICK z, v, hi : z = 0 /\ v = Len(w) /\ hi = Len(w) + L
    OBVIOUS
  <2>4. /\ L = z + L /\ hi = v + L
        /\ L \in Int /\ z \in Int /\ v \in Int
        /\ Moved(w, z + 1, v, B, L)
    BY <1>4, <2>2, <2>3
  <2>5. /\ Whole(w, z, v, e) => Whole(B, L, hi, e)
        /\ Part(w, z, v, e) => Part(B, L, hi, e)
    BY <2>4, MessageMoves
  <2> QED BY <2>1, <2>3, <2>5
<1>15. ASSUME NEW k \in (n + 1)..Len(O)
       PROVE  \/ Whole(B, new[k - 1], new[k], O[k])
              \/ last /\ k = Len(O) /\ Part(B, new[k - 1], new[k], O[k])
  <2>1. CASE k <= Len(ow)
    <3>1. k \in (n + 1)..Len(ow)
      BY <1>2, <2>1
    <3> QED BY <1>13, <3>1
  <2>2. CASE ~(k <= Len(ow))
    <3>1. k = Len(O)
      BY <1>2, <1>5, <2>2
    <3> QED BY <1>14, <3>1
  <2> QED BY <2>1, <2>2
<1>16. Cuts(B, O, n, last, new)
  BY <1>9, <1>10, <1>11, <1>12, <1>15 DEF Cuts
<1> QED BY <1>3, <1>16 DEF Unread

LEMMA StillUnread ==
  ASSUME NEW b, NEW ow, NEW n, NEW last, Unread(b, ow, n, FALSE)
  PROVE  Unread(b, ow, n, last)
BY DEF Unread, Cuts

(* d bytes are read off, which stood before the end of message n2. *)
LEMMA FewerUnread ==
  ASSUME NEW b \in Seq(Byte), NEW ow \in Seq(Entry), NEW n \in Nat, NEW last, NEW cut,
         Cuts(b, ow, n, last, cut),
         NEW n2 \in n..Len(ow), NEW d \in 0..cut[n2], Gap(b, d + 1, cut[n2])
  PROVE  Unread(SubSeq(b, d + 1, Len(b)), ow, n2, last)
<1>1. Len(b) \in Nat /\ Len(ow) \in Nat /\ n2 \in Nat /\ n <= n2 /\ n2 <= Len(ow)
  OBVIOUS
<1>2. /\ cut \in [n..Len(ow) -> 0..Len(b)]
      /\ cut[Len(ow)] = Len(b)
      /\ \A j, k \in n..Len(ow) : j <= k => cut[j] <= cut[k]
      /\ \A k \in (n + 1)..Len(ow) :
           \/ Whole(b, cut[k - 1], cut[k], ow[k])
           \/ last /\ k = Len(ow) /\ Part(b, cut[k - 1], cut[k], ow[k])
  BY DEF Cuts
<1>3. /\ d \in Nat /\ d <= Len(b)
      /\ \A k \in n2..Len(ow) : k \in n..Len(ow) /\ cut[k] \in d..Len(b)
  <2>1. cut[n2] \in 0..Len(b)
    BY <1>2
  <2>2. d \in Nat /\ d <= cut[n2] /\ d <= Len(b)
    BY <1>1, <2>1
  <2>3. ASSUME NEW k \in n2..Len(ow) PROVE k \in n..Len(ow) /\ cut[k] \in d..Len(b)
    <3>1. k \in n..Len(ow) /\ n2 <= k
      BY <1>1
    <3>2. cut[n2] <= cut[k] /\ cut[k] \in 0..Len(b)
      BY <1>2, <3>1
    <3> QED BY <2>1, <2>2, <3>1, <3>2
  <2> QED BY <2>2, <2>3
<1>4. PICK B : B = SubSeq(b, d + 1, Len(b))
  OBVIOUS
<1>5. /\ Len(B) = Len(b) - d
      /\ \A i \in (d + 1)..Len(b) : B[i + (-d)] = b[i]
  <2>1. /\ Len(B) = Len(b) - d
        /\ \A i \in 1..(Len(b) - d) : B[i] = b[d + i]
    <3>1. d \in 0..Len(b)
      BY <1>1, <1>3
    <3> QED BY <1>4, <3>1, OtherBytes
  <2>2. ASSUME NEW i \in (d + 1)..Len(b) PROVE B[i + (-d)] = b[i]
    <3>1. i + (-d) \in 1..(Len(b) - d) /\ d + (i + (-d)) = i
      BY <1>1, <1>3
    <3> QED BY <2>1, <3>1
  <2> QED BY <2>1, <2>2
<1>6. PICK new : new = [k \in n2..Len(ow) |-> cut[k] + (-d)]
  OBVIOUS
<1>7. ASSUME NEW k \in n2..Len(ow)
      PROVE  new[k] = cut[k] + (-d) /\ new[k] \in 0..Len(B) /\ cut[k] \in d..Len(b)
  BY <1>1, <1>3, <1>5, <1>6
<1>8. new \in [n2..Len(ow) -> 0..Len(B)]
  BY <1>6, <1>7
<1>9. new[Len(ow)] = Len(B)
  <2>1. Len(ow) \in n2..Len(ow)
    BY <1>1
  <2> QED BY <1>1, <1>2, <1>3, <1>5, <1>7, <2>1
<1>10. ASSUME NEW j \in n2..Len(ow), NEW k \in n2..Len(ow), j <= k PROVE new[j] <= new[k]
  <2>1. cut[j] <= cut[k]
    BY <1>2, <1>3, <1>10
  <2> QED BY <1>1, <1>3, <1>7, <2>1
<1>11. Gap(B, 1, new[n2])
  <2>1. n2 \in n2..Len(ow)
    BY <1>1
  <2>2. new[n2] = cut[n2] + (-d) /\ cut[n2] \in d..Len(b)
    BY <1>7, <2>1
  <2>3. Moved(b, d + 1, cut[n2], B, -d)
    BY <1>1, <1>3, <1>5, <2>2 DEF Moved
  <2>4. -d \in Int /\ d + 1 \in Int /\ cut[n2] \in Int /\ 1 = (d + 1) + (-d)
    BY <1>3, <2>2
  <2> QED BY <2>2, <2>3, <2>4, GapMoves
<1>12. ASSUME NEW k \in (n2 + 1)..Len(ow)
       PROVE  \/ Whole(B, new[k - 1], new[k], ow[k])
              \/ last /\ k = Len(ow) /\ Part(B, new[k - 1], new[k], ow[k])
  <2>1. k \in n2..Len(ow) /\ k - 1 \in n2..Len(ow) /\ k \in (n + 1)..Len(ow)
    BY <1>1
  <2>2. PICK lo, hi : lo = cut[k - 1] /\ hi = cut[k]
    OBVIOUS
  <2>3. /\ lo \in d..Len(b) /\ hi \in d..Len(b)
        /\ new[k - 1] = lo + (-d) /\ new[k] = hi + (-d)
    BY <1>7, <2>1, <2>2
  <2>4. \/ Whole(b, lo, hi, ow[k])
        \/ last /\ k = Len(ow) /\ Part(b, lo, hi, ow[k])
    BY <1>2, <2>1, <2>2
  <2>5. -d \in Int /\ lo \in Int /\ hi \in Int
    BY <1>3, <2>3
  <2>6. Moved(b, lo + 1, hi, B, -d)
    <3> SUFFICES ASSUME NEW i \in (lo + 1)..hi PROVE B[i + (-d)] = b[i]
      BY DEF Moved
    <3>1. i \in (d + 1)..Len(b)
      BY <1>1, <1>3, <2>3, <2>5
    <3> QED BY <1>5, <3>1
  <2>7. /\ Whole(b, lo, hi, ow[k]) => Whole(B, new[k - 1], new[k], ow[k])
        /\ Part(b, lo, hi, ow[k]) => Part(B, new[k - 1], new[k], ow[k])
    BY <2>3, <2>5, <2>6, MessageMoves
  <2> QED BY <2>4, <2>7
<1>13. Cuts(B, ow, n2, last, new)
  BY <1>8, <1>9, <1>10, <1>11, <1>12 DEF Cuts
<1> QED BY <1>4, <1>13 DEF Unread

-----------------------------------------------------------------------------
(* What readLoop makes of the unread bytes. *)

(* The message after the white space, whole or cut short. *)
LEMMA NextMessage ==
  ASSUME WellFramed, NEW b \in Seq(Byte), NEW ow \in Seq(Entry), NEW n \in 0..Len(ow), NEW last,
         NEW cut, Cuts(b, ow, n, last, cut), n < Len(ow)
  PROVE  \E p, m :
           /\ p \in Seq(Byte) /\ StandsAlone(p)
           /\ m \in 1..Len(p)
           /\ cut[n] + m <= Len(b)
           /\ Starts(b, cut[n], p, m)
           /\ \/ /\ m = Len(p)
                 /\ Handled(p) = <<ow[n + 1]>>
                 /\ cut[n] + m \in 0..cut[n + 1]
                 /\ Gap(b, cut[n] + m + 1, cut[n + 1])
              \/ /\ last /\ n + 1 = Len(ow) /\ ow[n + 1] = Error("incomplete")
                 /\ m < Len(p)
                 /\ cut[n] + m = Len(b)
<1>1. /\ n + 1 \in (n + 1)..Len(ow) /\ (n + 1) - 1 = n
      /\ n \in n..Len(ow) /\ n + 1 \in n..Len(ow)
  OBVIOUS
<1>2. PICK lo, hi : lo = cut[n] /\ hi = cut[n + 1]
  OBVIOUS
<1>3. lo \in 0..Len(b) /\ hi \in 0..Len(b) /\ Len(b) \in Nat /\ cut[Len(ow)] = Len(b)
  BY <1>1, <1>2 DEF Cuts
<1>4. \/ Whole(b, lo, hi, ow[n + 1])
      \/ last /\ n + 1 = Len(ow) /\ Part(b, lo, hi, ow[n + 1])
  BY <1>1, <1>2 DEF Cuts
<1>5. CASE Whole(b, lo, hi, ow[n + 1])
  <2>1. PICK p : /\ p \in Docs \cup Junk
                 /\ Handled(p) = <<ow[n + 1]>>
                 /\ lo + Len(p) <= hi
                 /\ Starts(b, lo, p, Len(p))
                 /\ Gap(b, lo + Len(p) + 1, hi)
    BY <1>5 DEF Whole
  <2>2. p \in Seq(Byte) /\ StandsAlone(p) /\ Len(p) \in Nat /\ Len(p) > 0
    BY <2>1, FrameReaderAssumption DEF WellFramed, StandsAlone
  <2>3. Len(p) \in 1..Len(p) /\ lo + Len(p) <= Len(b) /\ lo + Len(p) \in 0..hi
    BY <1>3, <2>1, <2>2
  <2> QED BY <1>2, <2>1, <2>2, <2>3
<1>6. CASE last /\ n + 1 = Len(ow) /\ Part(b, lo, hi, ow[n + 1])
  <2>1. PICK p : p \in Docs /\ hi - lo < Len(p) /\ Starts(b, lo, p, hi - lo)
    BY <1>6 DEF Part
  <2>2. p \in Seq(Byte) /\ StandsAlone(p) /\ Len(p) \in Nat
    BY <2>1, FrameReaderAssumption DEF WellFramed
  <2>3. lo < hi /\ ow[n + 1] = Error("incomplete")
    BY <1>6 DEF Part
  <2>4. hi = Len(b)
    BY <1>2, <1>3, <1>6
  <2>5. hi - lo \in 1..Len(p) /\ lo + (hi - lo) <= Len(b) /\ lo + (hi - lo) = Len(b)
    BY <1>3, <2>1, <2>2, <2>3, <2>4
  <2> QED BY <1>2, <1>6, <2>1, <2>2, <2>3, <2>5
<1> QED BY <1>4, <1>5, <1>6

(* What stands before the first byte that is not white space for the scan  *)
(* is white space for it; a message is found where the white space ends.   *)
LEMMA AtMessage ==
  ASSUME WellFramed, NEW b \in Seq(Byte), NEW ow \in Seq(Entry), NEW n \in 0..Len(ow), NEW last,
         NEW cut, Cuts(b, ow, n, last, cut),
         NEW c, Heads(c, b), FirstNonWS(c) # 0, FirstNonWS(c) > cut[n]
  PROVE  /\ n < Len(ow)
         /\ cut[n] \in Nat /\ cut[n] < Len(c)
         /\ \A j \in 1..cut[n] : c[j] \in {"space", "newline"}
<1>1. /\ Len(b) \in Nat /\ Len(c) \in Nat /\ Len(c) <= Len(b) /\ c \in Seq(Byte)
  BY DEF Heads
<1>2. n \in n..Len(ow)
  OBVIOUS
<1>3. cut[n] \in 0..Len(b) /\ cut[Len(ow)] = Len(b)
  BY <1>2 DEF Cuts
<1>4. FirstNonWS(c) \in 1..Len(c)
  BY <1>1, FirstNonWSFacts
<1>5. n < Len(ow) /\ cut[n] < Len(c) /\ cut[n] \in Nat
  <2>1. cut[n] \in Nat /\ cut[n] < Len(c)
    BY <1>1, <1>3, <1>4
  <2>2. n # Len(ow)
    BY <1>1, <1>3, <2>1
  <2> QED BY <2>1, <2>2
<1>6. ASSUME NEW j \in 1..cut[n] PROVE c[j] \in {"space", "newline"}
  <2>1. j \in 1..Len(c) /\ j < FirstNonWS(c)
    BY <1>1, <1>4, <1>5
  <2> QED BY <1>1, <2>1, FirstNonWSFacts
<1> QED BY <1>5, <1>6

(* A part of a buffer that is white space is ignored. *)
LEMMA WhiteValue ==
  ASSUME NEW b, NEW c, Heads(c, b), NEW g \in 0..Len(b), Gap(b, 1, g),
         NEW i \in 1..Len(c), NEW end \in i..Len(c), end <= g
  PROVE  Blank(SubSeq(c, i, end))
<1>1. Len(c) \in Nat /\ c \in Seq(Byte)
  BY DEF Heads
<1>2. i \in Int /\ end \in Int /\ \A j \in i..end : c[j] \in Byte
  BY <1>1
<1>3. /\ Len(SubSeq(c, i, end)) = end - i + 1
      /\ \A j \in 1..(end - i + 1) : SubSeq(c, i, end)[j] = c[i + j - 1]
  BY <1>2, SubSeqProperties
<1>4. ASSUME NEW j \in 1..(end - i + 1) PROVE c[i + j - 1] \in {"space", "newline", "vtab"}
  <2>1. i + j - 1 \in 1..Len(c) /\ i + j - 1 \in 1..g
    BY <1>1
  <2> QED BY <2>1 DEF Heads, Gap, White
<1> QED BY <1>3, <1>4 DEF Blank

(* A value carved off the buffer is white space, or the next message: then *)
(* it is handled as what it is.                                            *)
LEMMA CarvedIsNext ==
  ASSUME WellFramed, NEW b \in Seq(Byte), NEW ow \in Seq(Entry), NEW n \in 0..Len(ow), NEW last,
         Unread(b, ow, n, last),
         NEW c, Heads(c, b), Len(c) <= MaxBuffer, ExtractNext(c).complete
  PROVE  LET d == EndOf(c)
             v == ExtractNext(c).value
             left == SubSeq(b, d + 1, Len(b))
         IN  \/ Handled(v) = <<>> /\ Unread(left, ow, n, last)
             \/ /\ n < Len(ow)
                /\ Handled(v) = <<ow[n + 1]>>
                /\ Unread(left, ow, n + 1, last)
<1>1. PICK cut : Cuts(b, ow, n, last, cut)
  BY DEF Unread
<1>2. /\ Len(b) \in Nat /\ Len(c) \in Nat /\ Len(c) <= Len(b) /\ c \in Seq(Byte)
      /\ n \in Nat /\ n \in n..Len(ow)
  BY DEF Heads
<1>3. cut[n] \in 0..Len(b) /\ Gap(b, 1, cut[n])
  BY <1>1, <1>2 DEF Cuts
<1>4. EndOf(c) # 0 /\ ExtractNext(c).value = SubSeq(c, FirstNonWS(c), EndOf(c))
  BY ExtractIs
<1>5. EndOf(c) \in 1..Len(c) /\ FirstNonWS(c) \in 1..EndOf(c)
  BY <1>2, <1>4, EndFacts
<1>6. CASE FirstNonWS(c) <= cut[n]
  <2>1. FirstNonWS(c) \in 1..cut[n]
    BY <1>2, <1>3, <1>5, <1>6
  <2>2. EndOf(c) <= cut[n]
    BY <1>3, <2>1, GapHead
  <2>3. FirstNonWS(c) \in 1..Len(c) /\ EndOf(c) \in FirstNonWS(c)..Len(c)
    BY <1>2, <1>5
  <2>4. Blank(ExtractNext(c).value)
    BY <1>3, <1>4, <2>2, <2>3, WhiteValue
  <2>5. Handled(ExtractNext(c).value) = <<>>
    BY <2>4 DEF Handled
  <2>6. EndOf(c) \in 0..cut[n]
    BY <1>2, <1>3, <1>5, <2>2
  <2>7. Gap(b, EndOf(c) + 1, cut[n])
    BY <1>3, <2>6 DEF Gap
  <2>8. Unread(SubSeq(b, EndOf(c) + 1, Len(b)), ow, n, last)
    BY <1>1, <1>2, <2>6, <2>7, FewerUnread
  <2> QED BY <2>5, <2>8
<1>7. CASE ~(FirstNonWS(c) <= cut[n])
  <2>1. FirstNonWS(c) # 0 /\ FirstNonWS(c) > cut[n]
    BY <1>2, <1>3, <1>5, <1>7
  <2>2. /\ n < Len(ow)
        /\ cut[n] \in Nat /\ cut[n] < Len(c)
        /\ \A j \in 1..cut[n] : c[j] \in {"space", "newline"}
    BY <1>1, <2>1, AtMessage
  <2>3. PICK p, m :
           /\ p \in Seq(Byte) /\ StandsAlone(p)
           /\ m \in 1..Len(p)
           /\ cut[n] + m <= Len(b)
           /\ Starts(b, cut[n], p, m)
           /\ \/ /\ m = Len(p)
                 /\ Handled(p) = <<ow[n + 1]>>
                 /\ cut[n] + m \in 0..cut[n + 1]
                 /\ Gap(b, cut[n] + m + 1, cut[n + 1])
              \/ /\ last /\ n + 1 = Len(ow) /\ ow[n + 1] = Error("incomplete")
                 /\ m < Len(p)
                 /\ cut[n] + m = Len(b)
    BY <1>1, <2>2, NextMessage
  <2>4. PICK o : o = cut[n] /\ o \in Nat
    BY <2>2
  <2>5. /\ FirstNonWS(c) = o + 1
        /\ Len(c) < o + Len(p) /\ Len(c) <= o + m => EndOf(c) = 0
        /\ m = Len(p) /\ o + m <= Len(c) /\ m <= MaxBuffer =>
              /\ EndOf(c) = o + m
              /\ SubSeq(c, o + 1, o + m) = p
    <3>1. /\ o + m <= Len(b) /\ Starts(b, o, p, m)
          /\ (\A j \in 1..o : c[j] \in {"space", "newline"}) /\ o < Len(c)
      BY <2>2, <2>3, <2>4
    <3>2. p \in Seq(Byte) /\ StandsAlone(p) /\ m \in 1..Len(p)
      BY <2>3
    <3> QED BY <2>4, <3>1, <3>2, MessageHead
  <2>6. Len(p) \in Nat /\ m \in Nat /\ m <= Len(p)
    BY <2>3
  <2>7. ~(Len(c) < o + Len(p) /\ Len(c) <= o + m)
    BY <1>4, <2>5
  <2>8. m = Len(p) /\ o + m <= Len(c)
    BY <1>2, <2>3, <2>4, <2>6, <2>7
  <2>9. m <= MaxBuffer
    BY <1>2, <2>4, <2>6, <2>8, FrameReaderAssumption
  <2>10. EndOf(c) = o + m /\ ExtractNext(c).value = p
    BY <1>4, <2>5, <2>8, <2>9
  <2>11. /\ Handled(p) = <<ow[n + 1]>>
         /\ EndOf(c) \in 0..cut[n + 1]
         /\ Gap(b, EndOf(c) + 1, cut[n + 1])
    BY <2>3, <2>4, <2>6, <2>8, <2>10
  <2>12. n + 1 \in n..Len(ow)
    BY <1>2, <2>2
  <2>13. Unread(SubSeq(b, EndOf(c) + 1, Len(b)), ow, n + 1, last)
    BY <1>1, <1>2, <2>11, <2>12, FewerUnread
  <2> QED BY <2>2, <2>10, <2>11, <2>13
<1> QED BY <1>6, <1>7

(* When all that is unread is in the buffer and extractNext finds nothing, *)
(* there is nothing left but white space, or a message that was cut short. *)
LEMMA StuckIsDone ==
  ASSUME WellFramed, NEW b \in Seq(Byte), NEW ow \in Seq(Entry), NEW n \in 0..Len(ow), NEW last,
         Unread(b, ow, n, last), Len(b) <= MaxBuffer, ~ExtractNext(b).complete
  PROVE  \/ n = Len(ow) /\ Blank(b)
         \/ last /\ n + 1 = Len(ow) /\ ow[n + 1] = Error("incomplete") /\ ~Blank(b)
<1>1. PICK cut : Cuts(b, ow, n, last, cut)
  BY DEF Unread
<1>2. Len(b) \in Nat /\ n \in Nat /\ n \in n..Len(ow) /\ Heads(b, b)
  BY DEF Heads
<1>3. cut[n] \in 0..Len(b) /\ Gap(b, 1, cut[n])
  BY <1>1, <1>2 DEF Cuts
<1>4. EndOf(b) = 0
  BY ExtractIs
<1>5. FirstNonWS(b) \in 0..Len(b)
  BY FirstNonWSFacts
<1>6. CASE FirstNonWS(b) = 0
  <2>1. \A j \in 1..Len(b) : b[j] \in {"space", "newline"}
    BY <1>6, FirstNonWSFacts
  <2>2. Blank(b)
    BY <2>1 DEF Blank
  <2>3. n = Len(ow)
    <3>1. SUFFICES ASSUME n < Len(ow) PROVE FALSE
      OBVIOUS
    <3>2. PICK p, m :
           /\ p \in Seq(Byte) /\ StandsAlone(p)
           /\ m \in 1..Len(p)
           /\ cut[n] + m <= Len(b)
           /\ Starts(b, cut[n], p, m)
      BY <1>1, <3>1, NextMessage
    <3>3. 1 \in 1..m /\ cut[n] + 1 \in 1..Len(b)
      BY <1>2, <1>3, <3>2
    <3>4. b[cut[n] + 1] = p[1]
      BY <3>2, <3>3 DEF Starts
    <3> QED BY <2>1, <3>2, <3>3, <3>4 DEF StandsAlone, White
  <2> QED BY <2>2, <2>3
<1>7. CASE FirstNonWS(b) # 0 /\ FirstNonWS(b) <= cut[n]
  <2>1. FirstNonWS(b) \in 1..cut[n] /\ cut[n] <= Len(b)
    BY <1>2, <1>3, <1>5, <1>7
  <2> QED BY <1>2, <1>3, <1>4, <2>1, GapHead
<1>8. CASE FirstNonWS(b) # 0 /\ FirstNonWS(b) > cut[n]
  <2>2. /\ n < Len(ow)
        /\ cut[n] \in Nat /\ cut[n] < Len(b)
        /\ \A j \in 1..cut[n] : b[j] \in {"space", "newline"}
    BY <1>1, <1>2, <1>8, AtMessage
  <2>3. PICK p, m :
           /\ p \in Seq(Byte) /\ StandsAlone(p)
           /\ m \in 1..Len(p)
           /\ cut[n] + m <= Len(b)
           /\ Starts(b, cut[n], p, m)
           /\ \/ m = Len(p)
              \/ last /\ n + 1 = Len(ow) /\ ow[n + 1] = Error("incomplete")
    BY <1>1, <2>2, NextMessage
  <2>4. PICK o : o = cut[n] /\ o \in Nat
    BY <2>2
  <2>5. m = Len(p) /\ o + m <= Len(b) /\ m <= MaxBuffer => EndOf(b) = o + m
    <3>1. /\ o + m <= Len(b) /\ Starts(b, o, p, m)
          /\ (\A j \in 1..o : b[j] \in {"space", "newline"}) /\ o < Len(b)
      BY <2>2, <2>3, <2>4
    <3>2. p \in Seq(Byte) /\ StandsAlone(p) /\ m \in 1..Len(p)
      BY <2>3
    <3> QED BY <1>2, <2>4, <3>1, <3>2, MessageHead
  <2>6. m \in Nat \ {0}
    BY <2>3
  <2>7. m # Len(p)
    <3>1. o + m <= Len(b) /\ m <= MaxBuffer /\ o + m # 0
      BY <1>2, <2>3, <2>4, <2>6, FrameReaderAssumption
    <3> QED BY <1>4, <2>5, <3>1
  <2>8. ~Blank(b)
    <3>1. 1 \in 1..m /\ o + 1 \in 1..Len(b)
      BY <1>2, <2>2, <2>4, <2>6
    <3>2. b[o + 1] = p[1]
      BY <2>3, <2>4, <3>1 DEF Starts
    <3> QED BY <2>3, <3>1, <3>2 DEF StandsAlone, White, Blank
  <2> QED BY <2>3, <2>7, <2>8
<1> QED BY <1>2, <1>3, <1>5, <1>6, <1>7, <1>8

-----------------------------------------------------------------------------
(* Bytes change hands: from the pipe to the buffer, and from the buffer to *)
(* a message.                                                              *)

LEMMA ReadJoins ==
  ASSUME NEW x \in Seq(Byte), NEW y \in Seq(Byte), NEW n \in 1..Len(y)
  PROVE  (x \o SubSeq(y, 1, n)) \o SubSeq(y, n + 1, Len(y)) = x \o y
<1>0. Len(y) \in Nat /\ n \in Nat /\ n <= Len(y) /\ n \in 0..Len(y)
  OBVIOUS
<1>1. PICK y1, y2 : y1 = SubSeq(y, 1, n) /\ y2 = SubSeq(y, n + 1, Len(y))
  OBVIOUS
<1>2. /\ y1 \in Seq(Byte) /\ Len(y1) = n
      /\ \A i \in 1..n : y1[i] = y[i]
  BY <1>0, <1>1, FirstBytes
<1>3. /\ y2 \in Seq(Byte) /\ Len(y2) = Len(y) - n
      /\ \A i \in 1..(Len(y) - n) : y2[i] = y[n + i]
  BY <1>0, <1>1, OtherBytes
<1>4. y1 \o y2 = y
  <2>1. /\ y1 \o y2 \in Seq(Byte)
        /\ Len(y1 \o y2) = Len(y1) + Len(y2)
        /\ \A i \in 1..Len(y1) + Len(y2) :
             (y1 \o y2)[i] = IF i <= Len(y1) THEN y1[i] ELSE y2[i - Len(y1)]
    BY <1>2, <1>3, ConcatProperties
  <2>2. Len(y1 \o y2) = Len(y)
    BY <1>0, <1>2, <1>3, <2>1
  <2>3. ASSUME NEW i \in 1..Len(y) PROVE (y1 \o y2)[i] = y[i]
    <3>1. i \in 1..Len(y1) + Len(y2) /\ i \in Nat
      BY <1>0, <1>2, <1>3
    <3>2. CASE i <= n
      <4>1. i \in 1..n /\ i <= Len(y1)
        BY <1>0, <1>2, <3>2
      <4> QED BY <1>2, <2>1, <3>1, <4>1
    <3>3. CASE ~(i <= n)
      <4>1. i - n \in 1..(Len(y) - n) /\ n + (i - n) = i /\ ~(i <= Len(y1)) /\ i - Len(y1) = i - n
        BY <1>0, <1>2, <3>3
      <4> QED BY <1>3, <2>1, <3>1, <4>1
    <3> QED BY <3>2, <3>3
  <2> QED BY <2>1, <2>2, <2>3, SeqEqual
<1>5. y1 \in Seq(Byte) /\ y2 \in Seq(Byte)
  BY <1>2, <1>3
<1>6. (x \o y1) \o y2 = x \o (y1 \o y2)
  BY <1>5, ConcatAssociative
<1> QED BY <1>1, <1>4, <1>6

LEMMA CarveLeaves ==
  ASSUME NEW x \in Seq(Byte), NEW y \in Seq(Byte), NEW d \in 1..Len(x)
  PROVE  SubSeq(x, d + 1, Len(x)) \o y = SubSeq(x \o y, d + 1, Len(x \o y))
<1>1. PICK z, x2, z2 :
        z = x \o y /\ x2 = SubSeq(x, d + 1, Len(x)) /\ z2 = SubSeq(z, d + 1, Len(z))
  OBVIOUS
<1>2. Len(x) \in Nat /\ Len(y) \in Nat /\ d \in Nat /\ d <= Len(x)
  OBVIOUS
<1>3. /\ z \in Seq(Byte)
      /\ Len(z) = Len(x) + Len(y)
      /\ \A i \in 1..Len(x) + Len(y) : z[i] = IF i <= Len(x) THEN x[i] ELSE y[i - Len(x)]
  BY <1>1, ConcatProperties
<1>4. /\ x2 \in Seq(Byte) /\ Len(x2) = Len(x) - d
      /\ \A i \in 1..(Len(x) - d) : x2[i] = x[d + i]
  <2>1. d \in 0..Len(x)
    BY <1>2
  <2> QED BY <1>1, <2>1, OtherBytes
<1>5. /\ z2 \in Seq(Byte) /\ Len(z2) = Len(z) - d
      /\ \A i \in 1..(Len(z) - d) : z2[i] = z[d + i]
  <2>1. d \in 0..Len(z) /\ z \in Seq(Byte)
    BY <1>2, <1>3
  <2> QED BY <1>1, <2>1, OtherBytes
<1>6. /\ x2 \o y \in Seq(Byte)
      /\ Len(x2 \o y) = Len(x2) + Len(y)
      /\ \A i \in 1..Len(x2) + Len(y) : (x2 \o y)[i] = IF i <= Len(x2) THEN x2[i] ELSE y[i - Len(x2)]
  BY <1>4, ConcatProperties
<1>7. PICK v : v = x2 \o y
  OBVIOUS
<1>8. Len(v) = Len(z2)
  BY <1>2, <1>3, <1>4, <1>5, <1>6, <1>7
<1>9. ASSUME NEW i \in 1..Len(v) PROVE v[i] = z2[i]
  <2>1. /\ i \in 1..Len(x2) + Len(y) /\ i \in 1..(Len(z) - d) /\ i \in Nat
        /\ d + i \in 1..Len(x) + Len(y)
    BY <1>2, <1>3, <1>4, <1>6, <1>7
  <2>2. z2[i] = z[d + i]
    BY <1>5, <2>1
  <2>3. CASE i <= Len(x2)
    <3>1. i \in 1..(Len(x) - d) /\ d + i <= Len(x)
      BY <1>2, <1>4, <2>1, <2>3
    <3>2. v[i] = x2[i] /\ x2[i] = x[d + i] /\ z[d + i] = x[d + i]
      BY <1>3, <1>4, <1>6, <1>7, <2>1, <2>3, <3>1
    <3> QED BY <2>2, <3>2
  <2>4. CASE ~(i <= Len(x2))
    <3>1. ~(d + i <= Len(x)) /\ (d + i) - Len(x) = i - Len(x2)
      BY <1>2, <1>4, <2>1, <2>4
    <3>2. v[i] = y[i - Len(x2)] /\ z[d + i] = y[(d + i) - Len(x)]
      BY <1>3, <1>6, <1>7, <2>1, <2>4, <3>1
    <3> QED BY <2>2, <3>1, <3>2
  <2> QED BY <2>3, <2>4
<1>10. v = z2
  <2>1. v \in Seq(Byte) /\ z2 \in Seq(Byte)
    BY <1>5, <1>6, <1>7
  <2> QED BY <1>8, <1>9, <2>1, SeqEqual
<1> QED BY <1>1, <1>7, <1>10

LEMMA BufferHeads ==
  ASSUME NEW x \in Seq(Byte), NEW y \in Seq(Byte)
  PROVE  Heads(x, x \o y) /\ x \o y \in Seq(Byte)
<1>1. /\ x \o y \in Seq(Byte)
      /\ Len(x \o y) = Len(x) + Len(y)
      /\ \A i \in 1..Len(x) + Len(y) : (x \o y)[i] = IF i <= Len(x) THEN x[i] ELSE y[i - Len(x)]
      /\ Len(x) \in Nat /\ Len(y) \in Nat
  BY ConcatProperties
<1>2. Len(x) <= Len(x \o y)
  BY <1>1
<1>3. ASSUME NEW i \in 1..Len(x) PROVE x[i] = (x \o y)[i]
  <2>1. i \in 1..Len(x) + Len(y) /\ i <= Len(x)
    BY <1>1
  <2> QED BY <1>1, <2>1
<1> QED BY <1>1, <1>2, <1>3 DEF Heads

-----------------------------------------------------------------------------
(***************************************************************************)
(* The invariant: as long as nothing was too large, what readLoop did is   *)
(* what the client is owed for its first messages, and the bytes unread    *)
(* are those of the others; at the end there are no others.                *)
(***************************************************************************)
Overflow == Error("too large")

NoOverflow(l) == \A i \in 1..Len(l) : l[i] # Overflow

Begins(l, ow) == Len(l) <= Len(ow) /\ \A i \in 1..Len(l) : l[i] = ow[i]

AtTheEnd == ended => hungUp /\ stdin = <<>>

Exact ==
  NoOverflow(log) =>
    /\ Begins(log, owed)
    /\ ended => log = owed
    /\ ~ended => Unread(buf \o stdin, owed, Len(log), hungUp)

LEMMA Nonblank ==
  ASSUME NEW p, StandsAlone(p), Len(p) \in Nat
  PROVE  ~Blank(p)
<1>1. 1 \in 1..Len(p)
  BY DEF StandsAlone
<1> QED BY <1>1 DEF StandsAlone, White, Blank

(* What the client writes is a message with white space after it. *)
LEMMA WritesWhole ==
  ASSUME WellFramed, NEW p \in Docs \cup Junk, NEW s \in Separators, NEW e, Handled(p) = <<e>>
  PROVE  Whole(p \o s, 0, Len(p \o s), e) /\ p \o s \in Seq(Byte)
<1>1. p \in Seq(Byte) /\ s \in Seq(Byte)
  BY FrameReaderAssumption
<1>2. PICK w, l, m : w = p \o s /\ l = Len(p) /\ m = Len(s)
  OBVIOUS
<1>3. /\ w \in Seq(Byte) /\ Len(w) = l + m /\ l \in Nat /\ m \in Nat
      /\ \A i \in 1..l + m : w[i] = IF i <= l THEN p[i] ELSE s[i - l]
  BY <1>1, <1>2, ConcatProperties
<1>4. Starts(w, 0, p, Len(p))
  <2> SUFFICES ASSUME NEW i \in 1..l PROVE w[0 + i] = p[i]
    BY <1>2 DEF Starts
  <2>1. i \in 1..l + m /\ i <= l /\ 0 + i = i
    BY <1>3
  <2> QED BY <1>3, <2>1
<1>5. Gap(w, 0 + Len(p) + 1, Len(w))
  <2>1. Gap(s, 1, m)
    BY <1>2 DEF WellFramed
  <2>2. Moved(s, 1, m, w, l)
    <3> SUFFICES ASSUME NEW i \in 1..m PROVE w[i + l] = s[i]
      BY DEF Moved
    <3>1. i + l \in 1..l + m /\ ~(i + l <= l) /\ (i + l) - l = i
      BY <1>3
    <3> QED BY <1>3, <3>1
  <2>3. l \in Int /\ 1 \in Int /\ m \in Int /\ 0 + Len(p) + 1 = 1 + l /\ Len(w) = m + l
    BY <1>2, <1>3
  <2> QED BY <2>1, <2>2, <2>3, GapMoves
<1>6. 0 + Len(p) <= Len(w)
  BY <1>2, <1>3
<1> QED BY <1>2, <1>3, <1>4, <1>5, <1>6 DEF Whole

LEMMA WritesPart ==
  ASSUME NEW d \in Docs, NEW n \in 1..(Len(d) - 1)
  PROVE  /\ Part(SubSeq(d, 1, n), 0, Len(SubSeq(d, 1, n)), Error("incomplete"))
         /\ SubSeq(d, 1, n) \in Seq(Byte)
<1>1. d \in Seq(Byte) /\ Len(d) \in Nat /\ n \in Nat \ {0} /\ n < Len(d)
  BY FrameReaderAssumption
<1>2. PICK w : w = SubSeq(d, 1, n)
  OBVIOUS
<1>3. w \in Seq(Byte) /\ Len(w) = n /\ \A i \in 1..n : w[i] = d[i]
  <2>1. n \in 0..Len(d)
    BY <1>1
  <2> QED BY <1>1, <1>2, <2>1, FirstBytes
<1>4. Starts(w, 0, d, Len(w) - 0)
  <2>1. ASSUME NEW i \in 1..(Len(w) - 0) PROVE w[0 + i] = d[i]
    BY <1>1, <1>3
  <2> QED BY <2>1 DEF Starts
<1>5. Len(w) - 0 < Len(d) /\ 0 < Len(w)
  BY <1>1, <1>3
<1> QED BY <1>2, <1>3, <1>4, <1>5 DEF Part

LEMMA NoOverflowBefore ==
  ASSUME NEW l \in Seq(Handling), NEW t \in Seq(Handling), NoOverflow(l \o t)
  PROVE  NoOverflow(l)
<1>1. /\ Len(l \o t) = Len(l) + Len(t) /\ Len(l) \in Nat /\ Len(t) \in Nat
      /\ \A i \in 1..Len(l) + Len(t) : (l \o t)[i] = IF i <= Len(l) THEN l[i] ELSE t[i - Len(l)]
  BY ConcatProperties
<1>2. ASSUME NEW i \in 1..Len(l) PROVE l[i] # Overflow
  <2>1. i \in 1..Len(l) + Len(t) /\ i <= Len(l) /\ i \in 1..Len(l \o t)
    BY <1>1
  <2>2. (l \o t)[i] = l[i]
    BY <1>1, <2>1
  <2> QED BY <2>1, <2>2 DEF NoOverflow
<1> QED BY <1>2 DEF NoOverflow

LEMMA BeginsMore ==
  ASSUME NEW l \in Seq(Handling), NEW ow \in Seq(Entry), NEW e,
         Begins(l, ow), Len(l) < Len(ow), ow[Len(l) + 1] = e
  PROVE  /\ Begins(Append(l, e), ow)
         /\ Len(Append(l, e)) = Len(l) + 1
<1>1. PICK m, k : m = Append(l, e) /\ k = Len(l)
  OBVIOUS
<1>2. Len(m) = k + 1 /\ k \in Nat /\ m[k + 1] = e /\ \A i \in 1..k : m[i] = l[i]
  BY <1>1
<1>3. k + 1 <= Len(ow)
  BY <1>1, <1>2
<1>4. ASSUME NEW i \in 1..(k + 1) PROVE m[i] = ow[i]
  <2>1. i \in 1..k \/ i = k + 1
    BY <1>2
  <2> QED BY <1>1, <1>2, <2>1 DEF Begins
<1> QED BY <1>1, <1>2, <1>3, <1>4 DEF Begins

LEMMA BeginsStill ==
  ASSUME NEW l \in Seq(Handling), NEW ow \in Seq(Entry), NEW e, Begins(l, ow)
  PROVE  Begins(l, Append(ow, e))
<1>1. Len(ow) \in Nat /\ Len(l) \in Nat /\ Len(l) <= Len(ow)
  BY DEF Begins
<1>2. ASSUME NEW i \in 1..Len(l) PROVE l[i] = Append(ow, e)[i]
  <2>1. i \in 1..Len(ow)
    BY <1>1
  <2> QED BY <2>1 DEF Begins
<1> QED BY <1>1, <1>2 DEF Begins

LEMMA BeginsAll ==
  ASSUME NEW l \in Seq(Handling), NEW ow \in Seq(Entry), Begins(l, ow), Len(l) = Len(ow)
  PROVE  l = ow
<1>1. l \in Seq(Handling \cup Entry) /\ ow \in Seq(Handling \cup Entry)
  OBVIOUS
<1> QED BY <1>1, SeqEqual DEF Begins

LEMMA ExactInit == Init => AtTheEnd /\ Exact
<1> SUFFICES ASSUME Init PROVE AtTheEnd /\ Exact
  OBVIOUS
<1>1. /\ stdin = <<>> /\ owed = <<>> /\ hungUp = FALSE /\ buf = <<>> /\ log = <<>> /\ ended = FALSE
  BY DEF Init
<1>2. buf \o stdin = <<>> /\ Len(log) = 0
  BY <1>1
<1>3. Unread(buf \o stdin, owed, Len(log), hungUp)
  BY <1>1, <1>2, NothingUnread
<1>4. Begins(log, owed)
  BY <1>1 DEF Begins
<1> QED BY <1>1, <1>3, <1>4 DEF AtTheEnd, Exact

LEMMA AtTheEndNext == AtTheEnd /\ [Next]_vars => AtTheEnd'
<1> SUFFICES ASSUME AtTheEnd, [Next]_vars PROVE AtTheEnd'
  OBVIOUS
<1>1. CASE UNCHANGED vars
  BY <1>1 DEF AtTheEnd, vars, clientVars
<1>2. ASSUME NEW w, NEW e, Write(w, e) PROVE AtTheEnd'
  BY <1>2 DEF AtTheEnd, Write
<1>3. CASE HangUp
  BY <1>3 DEF AtTheEnd, HangUp
<1>4. CASE ReadLoop
  BY <1>4 DEF AtTheEnd, ReadLoop, Carve, Read, ReadEOF, Reading, clientVars
<1> QED
  BY <1>1, <1>2, <1>3, <1>4 DEF Next, Client, WriteDoc, WriteJunk, WritePart, Terminated

LEMMA WriteKeepsExact ==
  ASSUME TypeOK, AtTheEnd, Exact, NEW w \in Seq(Byte), NEW e \in Entry, Write(w, e),
         \/ Whole(w, 0, Len(w), e)
         \/ hungUp' /\ Part(w, 0, Len(w), e)
  PROVE  Exact'
<1>1. /\ hungUp = FALSE /\ ended = FALSE
      /\ stdin' = stdin \o w /\ owed' = Append(owed, e)
      /\ buf' = buf /\ log' = log /\ ended' = ended
  BY DEF TypeOK, AtTheEnd, Write
<1>2. /\ stdin \in Seq(Byte) /\ buf \in Seq(Byte) /\ owed \in Seq(Entry) /\ log \in Seq(Handling)
  BY DEF TypeOK
<1>3. SUFFICES ASSUME NoOverflow(log)
               PROVE  /\ Begins(log, Append(owed, e))
                      /\ Unread(buf \o (stdin \o w), Append(owed, e), Len(log), hungUp')
  BY <1>1 DEF Exact
<1>4. Begins(log, owed) /\ Unread(buf \o stdin, owed, Len(log), FALSE)
  BY <1>1, <1>3 DEF Exact
<1>5. Begins(log, Append(owed, e))
  BY <1>2, <1>4, BeginsStill
<1>6. PICK b, h : b = buf \o stdin /\ h = hungUp'
  OBVIOUS
<1>7. b \in Seq(Byte) /\ Len(log) \in 0..Len(owed)
  <2>1. b \in Seq(Byte)
    BY <1>2, <1>6, ConcatProperties
  <2> QED BY <1>2, <1>4, <2>1 DEF Begins
<1>8. Unread(b \o w, Append(owed, e), Len(log), h)
  BY <1>2, <1>4, <1>6, <1>7, OneMoreUnread
<1>9. b \o w = buf \o (stdin \o w)
  BY <1>2, <1>6, ConcatAssociative
<1> QED BY <1>5, <1>6, <1>8, <1>9

LEMMA CarveKeepsExact ==
  ASSUME WellFramed, TypeOK, Exact, Carve
  PROVE  Exact'
<1>1. /\ stdin \in Seq(Byte) /\ buf \in Seq(Byte) /\ owed \in Seq(Entry) /\ log \in Seq(Handling)
      /\ Len(buf) <= MaxBuffer
  BY DEF TypeOK
<1>2. /\ ExtractNext(buf).complete /\ ended = FALSE
      /\ buf' = ExtractNext(buf).rest
      /\ log' = log \o Handled(ExtractNext(buf).value)
      /\ stdin' = stdin /\ owed' = owed /\ hungUp' = hungUp /\ ended' = ended
  BY DEF Carve, clientVars, TypeOK
<1>3. PICK b, v, d : b = buf \o stdin /\ v = ExtractNext(buf).value /\ d = EndOf(buf)
  OBVIOUS
<1>4. d # 0 /\ ExtractNext(buf).rest = SubSeq(buf, d + 1, Len(buf))
  BY <1>2, <1>3, ExtractIs
<1>5. d \in 1..Len(buf)
  <2>1. d \in 0..Len(buf)
    BY <1>1, <1>3, EndFacts
  <2> QED BY <1>1, <1>4, <2>1
<1>6. buf' \o stdin' = SubSeq(b, d + 1, Len(b))
  BY <1>1, <1>2, <1>3, <1>4, <1>5, CarveLeaves
<1>7. Handled(v) \in Seq(Handling)
  <2>1. v \in Seq(Byte)
    <3>1. PICK i \in 1..Len(buf), end \in 1..Len(buf) : v = SubSeq(buf, i, end)
      BY <1>1, <1>2, <1>3, ExtractFacts
    <3>2. i \in 1..(Len(buf) + 1) /\ end \in 0..Len(buf)
      BY <1>1
    <3> QED BY <1>1, <3>1, <3>2, PartOfBytes
  <2>2. Passed(v) \in Handling /\ Error("invalid") \in Handling
    <3>1. <<>> \in Seq(Byte)
      BY EmptySeq
    <3> QED BY <2>1, <3>1 DEF Passed, Error, Handling, Errors
  <2> QED BY <2>2 DEF Handled
<1>8. SUFFICES ASSUME NoOverflow(log \o Handled(v))
               PROVE  /\ Begins(log', owed)
                      /\ Unread(SubSeq(b, d + 1, Len(b)), owed, Len(log'), hungUp)
  BY <1>2, <1>3, <1>6 DEF Exact
<1>9. Begins(log, owed) /\ Unread(b, owed, Len(log), hungUp)
  <2>1. NoOverflow(log)
    BY <1>1, <1>7, <1>8, NoOverflowBefore
  <2> QED BY <1>2, <1>3, <2>1 DEF Exact
<1>10. Len(log) \in 0..Len(owed) /\ b \in Seq(Byte) /\ Heads(buf, b)
  <2>1. b \in Seq(Byte) /\ Heads(buf, b)
    BY <1>1, <1>3, BufferHeads
  <2> QED BY <1>1, <1>9, <2>1 DEF Begins
<1>11. PICK n : n = Len(log)
  OBVIOUS
<1>12. \/ Handled(v) = <<>> /\ Unread(SubSeq(b, d + 1, Len(b)), owed, n, hungUp)
       \/ /\ n < Len(owed)
          /\ Handled(v) = <<owed[n + 1]>>
          /\ Unread(SubSeq(b, d + 1, Len(b)), owed, n + 1, hungUp)
  <2>1. Unread(b, owed, n, hungUp) /\ n \in 0..Len(owed)
    BY <1>9, <1>10, <1>11
  <2> QED BY <1>1, <1>2, <1>3, <1>10, <2>1, CarvedIsNext
<1>13. CASE Handled(v) = <<>> /\ Unread(SubSeq(b, d + 1, Len(b)), owed, n, hungUp)
  <2>1. log' = log
    BY <1>1, <1>2, <1>3, <1>13, ConcatEmptySeq
  <2> QED BY <1>9, <1>11, <1>13, <2>1
<1>14. CASE /\ n < Len(owed)
            /\ Handled(v) = <<owed[n + 1]>>
            /\ Unread(SubSeq(b, d + 1, Len(b)), owed, n + 1, hungUp)
  <2>1. log' = Append(log, owed[n + 1])
    <3>1. log' = log \o <<owed[n + 1]>>
      BY <1>2, <1>3, <1>14
    <3>2. owed[n + 1] \in Handling
      BY <1>7, <1>14
    <3> QED BY <1>1, <3>1, <3>2, AppendIsConcat
  <2>2. PICK e : e = owed[n + 1]
    OBVIOUS
  <2>3. Begins(Append(log, e), owed) /\ Len(Append(log, e)) = Len(log) + 1
    BY <1>1, <1>9, <1>11, <1>14, <2>2, BeginsMore
  <2> QED BY <1>11, <1>14, <2>1, <2>2, <2>3
<1> QED BY <1>12, <1>13, <1>14

LEMMA Overflowed ==
  ASSUME NEW l \in Seq(Handling)
  PROVE  ~NoOverflow(Append(l, Overflow))
<1>1. Len(l) + 1 \in 1..Len(Append(l, Overflow)) /\ Append(l, Overflow)[Len(l) + 1] = Overflow
  OBVIOUS
<1> QED BY <1>1 DEF NoOverflow

LEMMA ReadKeepsExact ==
  ASSUME TypeOK, Exact, NEW n \in 1..ReadSize, Read(n)
  PROVE  Exact'
<1>1. /\ stdin \in Seq(Byte) /\ buf \in Seq(Byte) /\ log \in Seq(Handling)
  BY DEF TypeOK
<1>2. /\ n <= Len(stdin) /\ ended = FALSE
      /\ stdin' = SubSeq(stdin, n + 1, Len(stdin))
      /\ owed' = owed /\ hungUp' = hungUp /\ ended' = ended
      /\ \/ buf' = buf \o SubSeq(stdin, 1, n) /\ log' = log
         \/ log' = Append(log, Overflow)
  BY DEF Read, Reading, clientVars, TypeOK, Overflow
<1>3. n \in 1..Len(stdin)
  <2>1. n \in Nat \ {0}
    BY FrameReaderAssumption
  <2>2. n <= Len(stdin) /\ Len(stdin) \in Nat
    <3>1. Len(stdin) \in Nat
      BY <1>1
    <3>2. n <= Len(stdin)
      BY DEF Read
    <3> QED BY <3>1, <3>2
  <2> QED BY <2>1, <2>2
<1>4. CASE buf' = buf \o SubSeq(stdin, 1, n) /\ log' = log
  <2>1. buf' \o stdin' = buf \o stdin
    BY <1>1, <1>2, <1>3, <1>4, ReadJoins
  <2> QED BY <1>2, <1>4, <2>1 DEF Exact
<1>5. CASE log' = Append(log, Overflow)
  <2>1. ~NoOverflow(log')
    BY <1>1, <1>5, Overflowed
  <2> QED BY <2>1 DEF Exact
<1> QED BY <1>2, <1>4, <1>5

LEMMA EOFKeepsExact ==
  ASSUME WellFramed, TypeOK, Exact, ReadEOF
  PROVE  Exact'
<1>1. /\ stdin \in Seq(Byte) /\ buf \in Seq(Byte) /\ owed \in Seq(Entry) /\ log \in Seq(Handling)
      /\ Len(buf) <= MaxBuffer
  BY DEF TypeOK
<1>2. /\ ~ExtractNext(buf).complete /\ ended = FALSE
      /\ stdin = <<>>
      /\ log' = IF Blank(buf) THEN log ELSE Append(log, Error("incomplete"))
      /\ ended' = TRUE
      /\ owed' = owed
  BY DEF ReadEOF, Reading, clientVars, TypeOK
<1>3. SUFFICES ASSUME NoOverflow(log') PROVE Begins(log', owed) /\ log' = owed
  BY <1>2 DEF Exact
<1>4. NoOverflow(log)
  <2>1. CASE Blank(buf)
    BY <1>2, <1>3, <2>1
  <2>2. CASE ~Blank(buf)
    <3>1. Error("incomplete") \in Handling
      <4>1. <<>> \in Seq(Byte)
        BY EmptySeq
      <4> QED BY <4>1 DEF Error, Handling, Errors
    <3>2. log' = log \o <<Error("incomplete")>> /\ <<Error("incomplete")>> \in Seq(Handling)
      BY <1>1, <1>2, <2>2, <3>1, AppendIsConcat
    <3> QED BY <1>1, <1>3, <3>2, NoOverflowBefore
  <2> QED BY <2>1, <2>2
<1>5. Begins(log, owed) /\ Unread(buf, owed, Len(log), hungUp)
  <2>1. buf \o stdin = buf
    BY <1>1, <1>2, ConcatEmptySeq
  <2> QED BY <1>2, <1>4, <2>1 DEF Exact
<1>6. PICK n : n = Len(log)
  OBVIOUS
<1>7. n \in 0..Len(owed)
  BY <1>1, <1>5, <1>6 DEF Begins
<1>8. \/ n = Len(owed) /\ Blank(buf)
      \/ hungUp /\ n + 1 = Len(owed) /\ owed[n + 1] = Error("incomplete") /\ ~Blank(buf)
  BY <1>1, <1>2, <1>5, <1>6, <1>7, StuckIsDone
<1>9. Begins(log', owed) /\ Len(log') = Len(owed) /\ log' \in Seq(Handling)
  <2>1. CASE n = Len(owed) /\ Blank(buf)
    BY <1>1, <1>2, <1>5, <1>6, <2>1
  <2>2. CASE n + 1 = Len(owed) /\ owed[n + 1] = Error("incomplete") /\ ~Blank(buf)
    <3>1. log' = Append(log, Error("incomplete"))
      BY <1>2, <2>2
    <3>2. PICK e : e = Error("incomplete")
      OBVIOUS
    <3>3. Len(log) < Len(owed) /\ owed[Len(log) + 1] = e
      BY <1>1, <1>6, <1>7, <2>2, <3>2
    <3>4. Begins(Append(log, e), owed) /\ Len(Append(log, e)) = Len(log) + 1
      BY <1>1, <1>5, <3>3, BeginsMore
    <3>5. Append(log, Error("incomplete")) \in Seq(Handling)
      BY <1>1, LogGrows DEF Errors
    <3> QED BY <1>6, <2>2, <3>1, <3>2, <3>4, <3>5
  <2> QED BY <1>8, <2>1, <2>2
<1>10. PICK l : l = log'
  OBVIOUS
<1>11. l = owed
  BY <1>1, <1>9, <1>10, BeginsAll
<1> QED BY <1>9, <1>10, <1>11

LEMMA ExactNext ==
  ASSUME WellFramed, TypeOK, AtTheEnd, Exact, [Next]_vars
  PROVE  Exact'
<1>1. CASE UNCHANGED vars
  <2>1. /\ stdin' = stdin /\ owed' = owed /\ hungUp' = hungUp
        /\ buf' = buf /\ log' = log /\ ended' = ended
    BY <1>1 DEF vars, clientVars
  <2> QED BY <2>1 DEF Exact
<1>2. ASSUME NEW s \in Separators, NEW d \in Docs, WriteDoc(d, s) PROVE Exact'
  <2>1. Handled(d) = <<Passed(d)>> /\ Passed(d) \in Entry
    <3>1. StandsAlone(d) /\ Len(d) \in Nat /\ d \in Valid
      BY FrameReaderAssumption DEF WellFramed
    <3>2. ~Blank(d)
      BY <3>1, Nonblank
    <3> QED BY <3>1, <3>2 DEF Handled, Entry
  <2>2. Whole(d \o s, 0, Len(d \o s), Passed(d)) /\ d \o s \in Seq(Byte)
    <3>1. d \in Docs \cup Junk
      OBVIOUS
    <3> QED BY <2>1, <3>1, WritesWhole
  <2>3. Write(d \o s, Passed(d))
    BY <1>2 DEF WriteDoc
  <2> QED BY <2>1, <2>2, <2>3, WriteKeepsExact
<1>3. ASSUME NEW s \in Separators, NEW j \in Junk, WriteJunk(j, s) PROVE Exact'
  <2>1. Handled(j) = <<Error("invalid")>> /\ Error("invalid") \in Entry
    <3>1. StandsAlone(j) /\ Len(j) \in Nat /\ j \notin Valid
      BY FrameReaderAssumption DEF WellFramed
    <3>2. ~Blank(j)
      BY <3>1, Nonblank
    <3> QED BY <3>1, <3>2 DEF Handled, Entry, Errors
  <2>2. Whole(j \o s, 0, Len(j \o s), Error("invalid")) /\ j \o s \in Seq(Byte)
    <3>1. j \in Docs \cup Junk
      OBVIOUS
    <3> QED BY <2>1, <3>1, WritesWhole
  <2>3. Write(j \o s, Error("invalid"))
    BY <1>3 DEF WriteJunk
  <2> QED BY <2>1, <2>2, <2>3, WriteKeepsExact
<1>4. ASSUME NEW d \in Docs, NEW n \in 1..(Len(d) - 1), WritePart(d, n) PROVE Exact'
  <2>1. /\ Part(SubSeq(d, 1, n), 0, Len(SubSeq(d, 1, n)), Error("incomplete"))
        /\ SubSeq(d, 1, n) \in Seq(Byte)
    BY WritesPart
  <2>2. Write(SubSeq(d, 1, n), Error("incomplete")) /\ hungUp'
    BY <1>4 DEF WritePart
  <2>3. Error("incomplete") \in Entry
    BY DEF Entry, Errors
  <2> QED BY <2>1, <2>2, <2>3, WriteKeepsExact
<1>5. CASE HangUp
  <2>1. /\ hungUp = FALSE
        /\ stdin' = stdin /\ owed' = owed /\ buf' = buf /\ log' = log /\ ended' = ended
    BY <1>5 DEF HangUp, TypeOK
  <2>2. PICK h : h = hungUp'
    OBVIOUS
  <2>3. Unread(buf \o stdin, owed, Len(log), FALSE) => Unread(buf \o stdin, owed, Len(log), h)
    BY StillUnread
  <2> QED BY <2>1, <2>2, <2>3 DEF Exact
<1>6. CASE Carve
  BY <1>6, CarveKeepsExact
<1>7. ASSUME NEW n \in 1..ReadSize, Read(n) PROVE Exact'
  BY <1>7, ReadKeepsExact
<1>8. CASE ReadEOF
  BY <1>8, EOFKeepsExact
<1> QED
  BY <1>1, <1>2, <1>3, <1>4, <1>5, <1>6, <1>7, <1>8
     DEF Next, Client, ReadLoop, Terminated

LEMMA ExactAlways ==
  ASSUME WellFramed
  PROVE  Spec => [](TypeOK /\ AtTheEnd /\ Exact)
<1>1. Init => TypeOK /\ AtTheEnd /\ Exact
  BY TypeInit, ExactInit
<1>2. (TypeOK /\ AtTheEnd /\ Exact) /\ [Next]_vars => (TypeOK /\ AtTheEnd /\ Exact)'
  BY TypeNext, AtTheEndNext, ExactNext
<1> QED BY <1>1, <1>2, PTL DEF Spec

(* When readLoop has nothing to read, it has handled all there was, unless *)
(* something overflowed and was answered: the last byte of a message is    *)
(* enough, no message waits for the next.                                  *)
LEMMA AllHandled ==
  ASSUME WellFramed, TypeOK, AtTheEnd, Exact
  PROVE  LossIsReported
<1> SUFFICES ASSUME CaughtUp, NoOverflow(log) PROVE log = owed
  BY DEF LossIsReported, NoOverflow, Overflow
<1>1. CASE ended
  BY <1>1 DEF Exact
<1>2. CASE stdin = <<>> /\ Reading /\ ~hungUp
  <2>1. /\ buf \in Seq(Byte) /\ owed \in Seq(Entry) /\ log \in Seq(Handling)
        /\ Len(buf) <= MaxBuffer
        /\ hungUp \in BOOLEAN
    BY DEF TypeOK
  <2>2. ~ended /\ ~ExtractNext(buf).complete
    BY <1>2 DEF Reading
  <2>3. Begins(log, owed) /\ Unread(buf, owed, Len(log), hungUp)
    <3>1. buf \o stdin = buf
      BY <1>2, <2>1, ConcatEmptySeq
    <3> QED BY <2>2, <3>1 DEF Exact
  <2>4. PICK n : n = Len(log)
    OBVIOUS
  <2>5. n \in 0..Len(owed)
    BY <2>1, <2>3, <2>4 DEF Begins
  <2>6. n = Len(owed)
    BY <1>2, <2>1, <2>2, <2>3, <2>4, <2>5, StuckIsDone
  <2> QED BY <2>1, <2>3, <2>4, <2>6, BeginsAll
<1> QED BY <1>1, <1>2 DEF CaughtUp

(* However the bytes are cut into reads, whatever the client writes and    *)
(* whenever it hangs up: readLoop loses nothing without an answer, and     *)
(* holds nothing back that is complete.                                    *)
THEOREM NothingIsLostSilently ==
  ASSUME WellFramed
  PROVE  Spec => []LossIsReported
BY ExactAlways, AllHandled, PTL

-----------------------------------------------------------------------------
(* The refinement: what was done before the first overflow.                *)

UpToOverflow(l) ==
  LET cut == {i \in 1..Len(l) : l[i] = Overflow} IN
  IF cut = {} THEN l ELSE SubSeq(l, 1, Min(cut) - 1)

LEMMA UpToNone ==
  ASSUME NEW l, NoOverflow(l)
  PROVE  UpToOverflow(l) = l
BY DEF UpToOverflow, NoOverflow

(* Nothing after an overflow changes what was before it. *)
LEMMA UpToFixed ==
  ASSUME NEW l \in Seq(Handling), NEW x \in Handling, ~NoOverflow(l)
  PROVE  UpToOverflow(Append(l, x)) = UpToOverflow(l)
<1>1. PICK m, k : m = Append(l, x) /\ k = Len(l)
  OBVIOUS
<1>2. Len(m) = k + 1 /\ k \in Nat /\ \A i \in 1..k : m[i] = l[i]
  BY <1>1
<1> DEFINE P == {i \in 1..k : l[i] = Overflow}
           Q == {i \in 1..(k + 1) : m[i] = Overflow}
<1>3. /\ P # {} /\ P \in SUBSET Nat /\ Q \in SUBSET Nat /\ P \subseteq Q
      /\ \A i \in Q : i \in P \/ i = k + 1
      /\ \A i \in P : i <= k /\ i # 0
  <2>1. P # {}
    BY <1>1 DEF NoOverflow
  <2>2. P \in SUBSET Nat /\ Q \in SUBSET Nat /\ \A i \in P : i <= k /\ i # 0
    BY <1>2
  <2>3. P \subseteq Q
    BY <1>2
  <2>4. ASSUME NEW i \in Q PROVE i \in P \/ i = k + 1
    BY <1>2
  <2> HIDE DEF P, Q
  <2> QED BY <2>1, <2>2, <2>3, <2>4
<1>4. UpToOverflow(l) = SubSeq(l, 1, Min(P) - 1)
  BY <1>1, <1>3 DEF UpToOverflow
<1>5. UpToOverflow(m) = SubSeq(m, 1, Min(Q) - 1)
  <2>1. Q = {i \in 1..Len(m) : m[i] = Overflow} /\ Q # {}
    BY <1>2, <1>3
  <2> HIDE DEF P, Q
  <2> QED BY <2>1 DEF UpToOverflow
<1> HIDE DEF P, Q
<1>6. /\ Min(P) \in P /\ \A y \in P : Min(P) <= y
      /\ Min(Q) \in Q /\ \A y \in Q : Min(Q) <= y
  <2>1. Q # {}
    BY <1>3
  <2> QED BY <1>3, <2>1, NatMin
<1>7. Min(Q) = Min(P) /\ Min(P) \in Nat /\ Min(P) <= k /\ Min(P) # 0
  <2>1. Min(P) \in Q /\ Min(P) <= k /\ Min(P) \in Nat /\ Min(Q) \in Nat
    BY <1>3, <1>6
  <2>2. Min(Q) <= Min(P)
    BY <1>6, <2>1
  <2>3. Min(Q) \in P
    <3>1. Min(Q) # k + 1
      BY <1>2, <2>1, <2>2
    <3> QED BY <1>3, <1>6, <3>1
  <2>4. Min(P) <= Min(Q)
    BY <1>6, <2>3
  <2>5. Min(P) # 0
    BY <1>3, <1>6
  <2> QED BY <2>1, <2>2, <2>4, <2>5
<1>8. SubSeq(m, 1, Min(P) - 1) = SubSeq(l, 1, Min(P) - 1)
  <2>1. PICK n : n = Min(P) - 1 /\ n \in Nat /\ n <= k
    BY <1>2, <1>7
  <2>2. /\ 1 \in Int /\ n \in Int
        /\ \A i \in 1..n : l[i] \in Handling
        /\ \A i \in 1..n : m[i] = l[i]
    BY <1>1, <1>2, <2>1
  <2>3. \A i \in 1..n : m[i] \in Handling
    BY <2>2
  <2>4. PICK u, v : u = SubSeq(m, 1, n) /\ v = SubSeq(l, 1, n)
    OBVIOUS
  <2>5. /\ u \in Seq(Handling) /\ Len(u) = IF 1 <= n THEN n - 1 + 1 ELSE 0
        /\ \A i \in 1..(n - 1 + 1) : u[i] = m[1 + i - 1]
    BY <2>2, <2>3, <2>4, SubSeqProperties
  <2>6. /\ v \in Seq(Handling) /\ Len(v) = IF 1 <= n THEN n - 1 + 1 ELSE 0
        /\ \A i \in 1..(n - 1 + 1) : v[i] = l[1 + i - 1]
    BY <2>2, <2>4, SubSeqProperties
  <2>7. ASSUME NEW i \in 1..n PROVE u[i] = v[i]
    <3>1. i \in 1..(n - 1 + 1) /\ 1 + i - 1 = i
      BY <2>1
    <3> QED BY <2>2, <2>5, <2>6, <3>1
  <2>8. Len(u) = n /\ Len(v) = n
    BY <2>1, <2>5, <2>6
  <2>9. u = v
    BY <2>5, <2>6, <2>7, <2>8, SeqEqual
  <2> QED BY <2>1, <2>4, <2>9
<1> QED BY <1>1, <1>4, <1>5, <1>7, <1>8

LEMMA UpToFirst ==
  ASSUME NEW l \in Seq(Handling), NoOverflow(l)
  PROVE  UpToOverflow(Append(l, Overflow)) = l
<1>1. PICK e : e = Overflow
  OBVIOUS
<1>2. PICK m, k : m = Append(l, e) /\ k = Len(l)
  OBVIOUS
<1>3. Len(m) = k + 1 /\ k \in Nat /\ m[k + 1] = e /\ \A i \in 1..k : m[i] = l[i]
  BY <1>2
<1>4. \A i \in 1..k : m[i] # e
  BY <1>1, <1>2, <1>3 DEF NoOverflow
<1>5. {i \in 1..Len(m) : m[i] = e} = {k + 1}
  BY <1>3, <1>4
<1>6. Min({k + 1}) = k + 1
  BY <1>3 DEF Min
<1>7. UpToOverflow(m) = SubSeq(m, 1, k)
  <2>1. (k + 1) - 1 = k
    BY <1>3
  <2> QED BY <1>1, <1>5, <1>6, <2>1 DEF UpToOverflow
<1>8. SubSeq(m, 1, k) = l
  <2>1. 1 \in Int /\ k \in Int /\ \A i \in 1..k : m[i] \in Handling
    BY <1>2, <1>3
  <2>2. PICK u : u = SubSeq(m, 1, k)
    OBVIOUS
  <2>3. /\ u \in Seq(Handling) /\ Len(u) = IF 1 <= k THEN k - 1 + 1 ELSE 0
        /\ \A i \in 1..(k - 1 + 1) : u[i] = m[1 + i - 1]
    BY <2>1, <2>2, SubSeqProperties
  <2>4. Len(u) = Len(l)
    BY <1>2, <1>3, <2>3
  <2>5. ASSUME NEW i \in 1..Len(u) PROVE u[i] = l[i]
    <3>1. i \in 1..k /\ i \in 1..(k - 1 + 1) /\ 1 + i - 1 = i
      BY <1>2, <1>3, <2>4
    <3> QED BY <1>3, <2>3, <3>1
  <2>6. u = l
    BY <2>3, <2>4, <2>5, SeqEqual
  <2> QED BY <2>2, <2>6
<1> QED BY <1>1, <1>2, <1>7, <1>8

LEMMA Mapped == BeforeOverflow = UpToOverflow(log)
BY DEF BeforeOverflow, UpToOverflow, Overflow

StreamStep == [Stream!Send \/ Stream!Handle]_(Stream!vars)

(* One more entry, that is not an overflow. *)
LEMMA OneMoreHandled ==
  ASSUME NEW l \in Seq(Handling), NEW x \in Handling, x # Overflow
  PROVE  /\ NoOverflow(l) => NoOverflow(Append(l, x))
         /\ \A ow \in Seq(Entry) :
              Begins(Append(l, x), ow) => Len(l) < Len(ow) /\ x = ow[Len(l) + 1]
<1>1. PICK m, k : m = Append(l, x) /\ k = Len(l)
  OBVIOUS
<1>2. Len(m) = k + 1 /\ k \in Nat /\ m[k + 1] = x /\ \A i \in 1..k : m[i] = l[i]
  BY <1>1
<1>3. ASSUME NoOverflow(l) PROVE NoOverflow(m)
  <2> SUFFICES ASSUME NEW i \in 1..Len(m) PROVE m[i] # Overflow
    BY DEF NoOverflow
  <2>1. i \in 1..k \/ i = k + 1
    BY <1>2
  <2> QED BY <1>1, <1>2, <1>3, <2>1 DEF NoOverflow
<1>4. ASSUME NEW ow \in Seq(Entry), Begins(m, ow) PROVE k < Len(ow) /\ x = ow[k + 1]
  <2>1. k + 1 <= Len(ow) /\ Len(ow) \in Nat /\ k + 1 \in 1..Len(m)
    BY <1>2, <1>4 DEF Begins
  <2> QED BY <1>2, <1>4, <2>1 DEF Begins
<1> QED BY <1>1, <1>3, <1>4

(* Whatever is handled in order is a step of the stream. *)
LEMMA HandleSteps ==
  ASSUME TypeOK, Exact', owed' = owed,
         NEW x \in Handling, x # Overflow, log' = Append(log, x)
  PROVE  StreamStep
<1>1. PICK l : l = log' /\ l = Append(log, x)
  OBVIOUS
<1>2. log \in Seq(Handling) /\ owed \in Seq(Entry)
  BY DEF TypeOK
<1>3. /\ NoOverflow(log) => NoOverflow(l)
      /\ Begins(l, owed) => Len(log) < Len(owed) /\ x = owed[Len(log) + 1]
  BY <1>1, <1>2, OneMoreHandled
<1>4. BeforeOverflow' = UpToOverflow(l)
  BY <1>1 DEF BeforeOverflow, UpToOverflow, Overflow
<1>5. CASE ~NoOverflow(log)
  <2>1. UpToOverflow(l) = UpToOverflow(log)
    BY <1>1, <1>2, <1>5, UpToFixed
  <2> QED BY <1>4, <2>1, Mapped DEF StreamStep, Stream!vars
<1>6. CASE NoOverflow(log)
  <2>1. NoOverflow(l)
    BY <1>3, <1>6
  <2>2. BeforeOverflow = log /\ BeforeOverflow' = l
    BY <1>4, <1>6, <2>1, Mapped, UpToNone
  <2>3. Begins(l, owed)
    BY <1>1, <2>1 DEF Exact
  <2>4. Len(log) < Len(owed) /\ x = owed[Len(log) + 1]
    BY <1>3, <2>3
  <2>5. Stream!Handle
    BY <1>1, <2>2, <2>4 DEF Stream!Handle
  <2> QED BY <2>5 DEF StreamStep
<1> QED BY <1>5, <1>6

LEMMA StreamSteps ==
  ASSUME WellFramed, TypeOK, AtTheEnd, Exact, [Next]_vars
  PROVE  StreamStep
<1>0. log \in Seq(Handling) /\ Exact'
  BY ExactNext DEF TypeOK
<1>a. ASSUME owed' = owed, log' = log PROVE StreamStep
  BY <1>a DEF StreamStep, Stream!vars, BeforeOverflow
<1>b. ASSUME NEW w, NEW e \in Entry, Write(w, e) PROVE StreamStep
  <2>1. owed' = Append(owed, e) /\ BeforeOverflow' = BeforeOverflow
    BY <1>b DEF Write, BeforeOverflow
  <2>2. Stream!Send
    BY <2>1 DEF Stream!Send
  <2> QED BY <2>2 DEF StreamStep
<1>1. CASE UNCHANGED vars
  BY <1>1, <1>a DEF vars, clientVars
<1>2. ASSUME NEW s \in Separators, NEW d \in Docs, WriteDoc(d, s) PROVE StreamStep
  <2>1. Passed(d) \in Entry /\ Write(d \o s, Passed(d))
    BY <1>2 DEF Entry, WriteDoc
  <2> QED BY <1>b, <2>1
<1>3. ASSUME NEW s \in Separators, NEW j \in Junk, WriteJunk(j, s) PROVE StreamStep
  <2>1. Error("invalid") \in Entry /\ Write(j \o s, Error("invalid"))
    BY <1>3 DEF Entry, Errors, WriteJunk
  <2> QED BY <1>b, <2>1
<1>4. ASSUME NEW d \in Docs, NEW n \in 1..(Len(d) - 1), WritePart(d, n) PROVE StreamStep
  <2>1. Error("incomplete") \in Entry /\ Write(SubSeq(d, 1, n), Error("incomplete"))
    BY <1>4 DEF Entry, Errors, WritePart
  <2> QED BY <1>b, <2>1
<1>5. CASE HangUp
  BY <1>5, <1>a DEF HangUp
<1>c. \A k \in Errors : Error(k) \in Handling
  <2>1. <<>> \in Seq(Byte)
    BY EmptySeq
  <2> QED BY <2>1 DEF Error, Handling
<1>6. CASE Carve
  <2>1. PICK v : v = ExtractNext(buf).value
    OBVIOUS
  <2>2. owed' = owed /\ log' = log \o Handled(v)
    BY <1>6, <2>1 DEF Carve, clientVars
  <2>3. CASE Handled(v) = <<>>
    <3>1. log' = log
      BY <1>0, <2>2, <2>3, ConcatEmptySeq
    <3> QED BY <1>a, <2>2, <3>1
  <2>4. CASE Handled(v) # <<>>
    <3>1. v \in Seq(Byte)
      <4>1. buf \in Seq(Byte) /\ ExtractNext(buf).complete
        BY <1>6 DEF Carve, TypeOK
      <4>2. PICK i \in 1..Len(buf), end \in 1..Len(buf) : v = SubSeq(buf, i, end)
        BY <2>1, <4>1, ExtractFacts
      <4>3. i \in 1..(Len(buf) + 1) /\ end \in 0..Len(buf)
        BY <4>1
      <4> QED BY <4>1, <4>2, <4>3, PartOfBytes
    <3>2. Passed(v) \in Handling /\ Passed(v) # Overflow
      BY <3>1 DEF Passed, Handling, Error, Overflow
    <3>3. Error("invalid") \in Handling /\ Error("invalid") # Overflow
      BY <1>c DEF Error, Errors, Overflow
    <3>4. PICK x \in Handling : x # Overflow /\ Handled(v) = <<x>>
      BY <2>4, <3>2, <3>3 DEF Handled
    <3>5. log' = Append(log, x)
      BY <1>0, <2>2, <3>4, AppendIsConcat
    <3> QED BY <1>0, <2>2, <3>4, <3>5, HandleSteps
  <2> QED BY <2>3, <2>4
<1>7. ASSUME NEW n \in 1..ReadSize, Read(n) PROVE StreamStep
  <2>1. owed' = owed /\ (log' = log \/ log' = Append(log, Overflow))
    BY <1>7 DEF Read, clientVars, Overflow
  <2>2. CASE log' = Append(log, Overflow)
    <3>1. PICK l : l = log' /\ l = Append(log, Overflow)
      BY <2>2
    <3>2. BeforeOverflow' = UpToOverflow(l)
      BY <3>1 DEF BeforeOverflow, UpToOverflow, Overflow
    <3>3. UpToOverflow(l) = UpToOverflow(log)
      <4>1. CASE NoOverflow(log)
        BY <1>0, <3>1, <4>1, UpToFirst, UpToNone
      <4>2. CASE ~NoOverflow(log)
        <5>1. Overflow \in Handling
          BY <1>c DEF Errors, Overflow
        <5> QED BY <1>0, <3>1, <4>2, <5>1, UpToFixed
      <4> QED BY <4>1, <4>2
    <3> QED BY <2>1, <3>2, <3>3, Mapped DEF StreamStep, Stream!vars
  <2> QED BY <1>a, <2>1, <2>2
<1>8. CASE ReadEOF
  <2>1. owed' = owed /\ (log' = log \/ log' = Append(log, Error("incomplete")))
    BY <1>8 DEF ReadEOF, clientVars
  <2>2. CASE log' = Append(log, Error("incomplete"))
    <3>1. PICK x : x = Error("incomplete")
      OBVIOUS
    <3>2. x \in Handling /\ x # Overflow
      BY <1>c, <3>1 DEF Error, Errors, Overflow
    <3> QED BY <1>0, <2>1, <2>2, <3>1, <3>2, HandleSteps
  <2> QED BY <1>a, <2>1, <2>2
<1> QED
  BY <1>1, <1>2, <1>3, <1>4, <1>5, <1>6, <1>7, <1>8
     DEF Next, Client, ReadLoop, Terminated

LEMMA StreamInit == Init => Stream!Init
<1> SUFFICES ASSUME Init PROVE Stream!Init
  OBVIOUS
<1>1. owed = <<>> /\ log = <<>>
  BY DEF Init
<1>2. NoOverflow(log)
  <2>1. \A i \in 1..0 : FALSE
    OBVIOUS
  <2>2. Len(log) = 0
    BY <1>1
  <2> QED BY <2>1, <2>2 DEF NoOverflow
<1> QED BY <1>1, <1>2, Mapped, UpToNone DEF Stream!Init

(* The reader implements the stream: up to the first overflow, every       *)
(* message is handled once, whole, in its order and as what it is, for     *)
(* every way the bytes can be cut into reads.                              *)
THEOREM ReaderImplementsStream ==
  ASSUME WellFramed
  PROVE  Spec => FramesMessages
<1>1. (TypeOK /\ AtTheEnd /\ Exact) /\ [Next]_vars => [Stream!Send \/ Stream!Handle]_(Stream!vars)
  BY StreamSteps DEF StreamStep
<1> QED
  BY <1>1, ExactAlways, StreamInit, PTL DEF Spec, FramesMessages, Stream!Spec
=============================================================================
