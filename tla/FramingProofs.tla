---------------------------- MODULE FramingProofs ----------------------------
(***************************************************************************)
(* Facts about Framing for every buffer: what extractNext returns is a     *)
(* part of the buffer, and where a value ends depends on the bytes of the  *)
(* value alone, not on what stands around it in the buffer.                *)
(***************************************************************************)
EXTENDS Framing, TLAPS, WellFoundedInduction, SequenceTheorems

LEMMA NatMin ==
  ASSUME NEW P \in SUBSET Nat, P # {}
  PROVE  Min(P) \in P /\ \A y \in P : Min(P) <= y
<1>1. PICK x \in P : \A y \in P : ~(<<y, x>> \in OpToRel(<, Nat))
  BY NatLessThanWellFounded, WFMin
<1>2. \A y \in P : x <= y
  <2> SUFFICES ASSUME NEW y \in P PROVE x <= y
    OBVIOUS
  <2>1. ~(y < x)
    BY <1>1 DEF OpToRel
  <2> QED BY <2>1
<1> QED BY <1>2 DEF Min

(* Induction over the natural numbers, for a set instead of a predicate. *)
LEMMA SetInduction ==
  ASSUME NEW T, 0 \in T, \A n \in Nat : n \in T => n + 1 \in T
  PROVE  Nat \subseteq T
<1> DEFINE U == Nat \ T
<1>1. SUFFICES ASSUME U # {} PROVE FALSE
  OBVIOUS
<1>2. U \in SUBSET Nat
  OBVIOUS
<1> HIDE DEF U
<1>3. Min(U) \in U /\ \A y \in U : Min(U) <= y
  BY <1>1, <1>2, NatMin
<1>4. PICK x : x \in U /\ \A y \in U : x <= y
  BY <1>3
<1> USE DEF U
<1>5. x \in Nat /\ x # 0
  BY <1>4
<1>6. x - 1 \in Nat /\ (x - 1) + 1 = x /\ ~(x <= x - 1)
  BY <1>5
<1>7. x - 1 \in U
  BY <1>4, <1>6
<1> QED BY <1>4, <1>6, <1>7

(* The first position in a set of positions. *)
LEMMA FirstFacts ==
  ASSUME NEW P \in SUBSET Nat
  PROVE  /\ First(P) \in P \cup {0}
         /\ P # {} => First(P) \in P
         /\ \A x \in P : First(P) <= x
BY NatMin DEF First

LEMMA FirstIs ==
  ASSUME NEW P \in SUBSET Nat, NEW x \in P, \A y \in P : x <= y
  PROVE  First(P) = x
<1>1. First(P) \in P /\ First(P) <= x
  BY FirstFacts
<1>2. x <= First(P) /\ First(P) \in Nat /\ x \in Nat
  BY <1>1
<1> QED BY <1>1, <1>2

(* Two sets of positions that agree, o apart, on 1..m. *)
LEMMA FirstShifted ==
  ASSUME NEW o \in Nat, NEW m \in Nat, NEW P \in SUBSET Nat, NEW Q \in SUBSET Nat,
         \A x \in P : x > o, \A y \in Q : y > 0,
         \A j \in 1..m : o + j \in P <=> j \in Q
  PROVE  /\ First(Q) \in 1..m => First(P) = o + First(Q)
         /\ (First(Q) = 0 \/ First(Q) > m) /\ (\A x \in P : x <= o + m) => First(P) = 0
<1>1. ASSUME First(Q) \in 1..m PROVE First(P) = o + First(Q)
  <2>1. First(Q) \in Q /\ \A y \in Q : First(Q) <= y
    <3>1. First(Q) # 0
      BY <1>1
    <3> QED BY <3>1, FirstFacts
  <2>2. o + First(Q) \in P
    BY <1>1, <2>1
  <2>3. ASSUME NEW x \in P PROVE o + First(Q) <= x
    <3>1. x - o \in Nat \ {0} /\ o + (x - o) = x /\ First(Q) \in Nat
      BY <1>1
    <3>2. CASE x - o <= m
      <4>1. x - o \in 1..m
        BY <3>1, <3>2
      <4>2. x - o \in Q
        BY <3>1, <4>1
      <4>3. First(Q) <= x - o
        BY <2>1, <4>2
      <4> QED BY <3>1, <4>3
    <3>3. CASE ~(x - o <= m)
      BY <1>1, <3>1, <3>3
    <3> QED BY <3>2, <3>3
  <2> QED BY <2>2, <2>3, FirstIs
<1>2. ASSUME First(Q) = 0 \/ First(Q) > m, \A x \in P : x <= o + m
      PROVE  First(P) = 0
  <2>1. SUFFICES ASSUME P # {} PROVE FALSE
    BY DEF First
  <2>2. PICK x : x \in P
    BY <2>1
  <2>3. x - o \in 1..m /\ o + (x - o) = x /\ x - o \in Nat
    BY <1>2, <2>2
  <2>4. x - o \in Q
    BY <2>2, <2>3
  <2>5. First(Q) \in Q /\ First(Q) <= x - o
    BY <2>4, FirstFacts
  <2>6. First(Q) > 0 /\ First(Q) \in Nat
    BY <2>5
  <2>7. First(Q) <= m
    BY <2>3, <2>5, <2>6
  <2> QED BY <1>2, <2>6, <2>7
<1> QED BY <1>1, <1>2

-----------------------------------------------------------------------------
(* The scan of findValueEnd exists: a state before the first byte, and one *)
(* after each.                                                             *)
ScanFrom(b, i, n, f) ==
  f = [j \in (i - 1)..n |-> IF j < i THEN ScanStart ELSE ScanByte(f[j - 1], b[j])]

LEMMA ScanExists ==
  ASSUME NEW b, NEW i \in Nat \ {0}, NEW n \in Nat
  PROVE  \E f : ScanFrom(b, i, n, f)
<1> DEFINE T == {m \in Nat : \E f : ScanFrom(b, i, m, f)}
<1>1. 0 \in T
  <2> DEFINE f == [j \in (i - 1)..0 |-> ScanStart]
  <2>1. ScanFrom(b, i, 0, f)
    BY DEF ScanFrom
  <2> QED BY <2>1
<1>2. ASSUME NEW m \in Nat, m \in T PROVE m + 1 \in T
  <2>1. PICK f : ScanFrom(b, i, m, f)
    BY <1>2
  <2> DEFINE g == [j \in (i - 1)..(m + 1) |->
                    IF j < i THEN ScanStart
                    ELSE IF j <= m THEN f[j] ELSE ScanByte(f[m], b[m + 1])]
  <2>2. ASSUME NEW j \in (i - 1)..(m + 1), ~(j < i), j <= m
        PROVE  g[j] = ScanByte(g[j - 1], b[j])
    <3>1. f[j] = ScanByte(f[j - 1], b[j])
      <4>1. j \in (i - 1)..m
        BY <2>2
      <4> QED BY <2>1, <2>2, <4>1 DEF ScanFrom
    <3>2. g[j - 1] = f[j - 1]
      <4>1. j - 1 \in (i - 1)..(m + 1) /\ j - 1 \in (i - 1)..m /\ j - 1 <= m
        BY <2>2
      <4>2. CASE j - 1 < i
        <5>1. f[j - 1] = ScanStart
          BY <2>1, <4>1, <4>2 DEF ScanFrom
        <5> QED BY <4>1, <4>2, <5>1
      <4>3. CASE ~(j - 1 < i)
        BY <4>1, <4>3
      <4> QED BY <4>2, <4>3
    <3>3. g[j] = f[j]
      BY <2>2
    <3> QED BY <3>1, <3>2, <3>3
  <2>3. ASSUME NEW j \in (i - 1)..(m + 1), ~(j < i), ~(j <= m)
        PROVE  g[j] = ScanByte(g[j - 1], b[j])
    <3>1. j = m + 1 /\ j - 1 = m /\ m \in (i - 1)..(m + 1) /\ m \in (i - 1)..m
      BY <2>3
    <3>2. g[m] = f[m]
      <4>1. CASE m < i
        <5>1. f[m] = ScanStart
          BY <2>1, <3>1, <4>1 DEF ScanFrom
        <5> QED BY <3>1, <4>1, <5>1
      <4>2. CASE ~(m < i)
        BY <3>1, <4>2
      <4> QED BY <4>1, <4>2
    <3>3. g[j] = ScanByte(f[m], b[m + 1])
      BY <2>3
    <3> QED BY <3>1, <3>2, <3>3
  <2>4. \A j \in (i - 1)..(m + 1) :
          g[j] = IF j < i THEN ScanStart ELSE ScanByte(g[j - 1], b[j])
    BY <2>2, <2>3
  <2>5. g = [j \in DOMAIN g |-> g[j]] /\ DOMAIN g = (i - 1)..(m + 1)
    OBVIOUS
  <2>6. ScanFrom(b, i, m + 1, g)
    <3> HIDE DEF g
    <3> QED BY <2>4, <2>5 DEF ScanFrom
  <2> QED BY <2>6
<1>3. Nat \subseteq T
  <2> HIDE DEF T
  <2> QED BY <1>1, <1>2, SetInduction
<1> QED BY <1>3

(* What findValueEnd looks at: the states of a scan, and in them the first *)
(* that has as many brackets closed as opened.                             *)
Scan(b, i, s) ==
  /\ s[i - 1] = ScanStart
  /\ \A j \in i..Len(b) : s[j] = ScanByte(s[j - 1], b[j])
  /\ FindValueEnd(b, i) = First({j \in i..Len(b) : s[j].depth = 0})

LEMMA ScanFacts ==
  ASSUME NEW b \in Seq(Byte), NEW i \in 1..Len(b)
  PROVE  \E s : Scan(b, i, s)
<1> DEFINE scan[j \in (i - 1)..Len(b)] ==
             IF j < i THEN ScanStart ELSE ScanByte(scan[j - 1], b[j])
<1>1. Len(b) \in Nat /\ i \in Nat \ {0}
  OBVIOUS
<1>2. \E f : ScanFrom(b, i, Len(b), f)
  BY <1>1, ScanExists
<1>3. scan = [j \in (i - 1)..Len(b) |-> IF j < i THEN ScanStart ELSE ScanByte(scan[j - 1], b[j])]
  BY <1>2 DEF ScanFrom
<1>4. FindValueEnd(b, i) = First({j \in i..Len(b) : scan[j].depth = 0})
  BY DEF FindValueEnd
<1> HIDE DEF scan
<1>5. scan[i - 1] = ScanStart
  <2>1. i - 1 \in (i - 1)..Len(b) /\ i - 1 < i
    BY <1>1
  <2> QED BY <1>3, <2>1
<1>6. ASSUME NEW j \in i..Len(b) PROVE scan[j] = ScanByte(scan[j - 1], b[j])
  <2>1. j \in (i - 1)..Len(b) /\ ~(j < i)
    BY <1>1
  <2> QED BY <1>3, <2>1
<1> QED BY <1>4, <1>5, <1>6 DEF Scan

(* The scan knows nothing of where in the buffer it is.  b holds the first *)
(* m bytes of p behind position o.                                         *)
Starts(b, o, p, m) == \A i \in 1..m : b[o + i] = p[i]

LEMMA ScanAgrees ==
  ASSUME NEW b \in Seq(Byte), NEW p \in Seq(Byte), NEW o \in Nat, NEW m \in Nat \ {0},
         o + m <= Len(b), m <= Len(p), Starts(b, o, p, m),
         NEW s, NEW t, Scan(b, o + 1, s), Scan(p, 1, t)
  PROVE  \A j \in 1..m : s[o + j] = t[j]
<1> DEFINE T == {n \in Nat : n <= m => s[o + n] = t[n]}
<1>0. Len(b) \in Nat /\ Len(p) \in Nat
  OBVIOUS
<1>1. 0 \in T
  BY DEF Scan
<1>2. ASSUME NEW n \in Nat, n \in T PROVE n + 1 \in T
  <2> SUFFICES ASSUME n + 1 <= m PROVE s[o + (n + 1)] = t[n + 1]
    OBVIOUS
  <2>1. s[o + n] = t[n]
    BY <1>2
  <2>2. /\ o + (n + 1) \in (o + 1)..Len(b) /\ (o + (n + 1)) - 1 = o + n
        /\ n + 1 \in 1..Len(p) /\ (n + 1) - 1 = n
        /\ n + 1 \in 1..m
    BY <1>0
  <2>3. b[o + (n + 1)] = p[n + 1]
    BY <2>2 DEF Starts
  <2>4. s[o + (n + 1)] = ScanByte(s[o + n], b[o + (n + 1)])
    BY <2>2 DEF Scan
  <2>5. t[n + 1] = ScanByte(t[n], p[n + 1])
    BY <2>2 DEF Scan
  <2> QED BY <2>1, <2>3, <2>4, <2>5
<1>3. Nat \subseteq T
  <2> HIDE DEF T
  <2> QED BY <1>1, <1>2, SetInduction
<1> QED BY <1>3

-----------------------------------------------------------------------------
(* extractNext. *)

(* Where the value ends that ExtractNext cuts off, 0 if it is not complete. *)
EndOf(b) ==
  LET i == FirstNonWS(b) IN
  IF i = 0 THEN 0 ELSE IF b[i] \in Opening THEN FindValueEnd(b, i) ELSE LineEnd(b, i)

LEMMA FirstNonWSFacts ==
  ASSUME NEW b \in Seq(Byte)
  PROVE  /\ FirstNonWS(b) \in 0..Len(b)
         /\ FirstNonWS(b) # 0 => b[FirstNonWS(b)] \notin {"space", "newline"}
         /\ \A j \in 1..Len(b) :
              FirstNonWS(b) = 0 \/ j < FirstNonWS(b) => b[j] \in {"space", "newline"}
<1> DEFINE P == {k \in 1..Len(b) : b[k] \notin {"space", "newline"}}
<1>0. Len(b) \in Nat
  OBVIOUS
<1>1. P \in SUBSET Nat
  BY <1>0
<1>2. FirstNonWS(b) = First(P)
  BY DEF FirstNonWS
<1>3. /\ First(P) \in P \cup {0}
      /\ P # {} => First(P) \in P
      /\ \A x \in P : First(P) <= x
  <2> HIDE DEF P
  <2> QED BY <1>1, FirstFacts
<1>4. FirstNonWS(b) \in 0..Len(b)
  BY <1>0, <1>2, <1>3
<1>5. FirstNonWS(b) # 0 => b[FirstNonWS(b)] \notin {"space", "newline"}
  BY <1>2, <1>3
<1>6. ASSUME NEW j \in 1..Len(b), FirstNonWS(b) = 0 \/ j < FirstNonWS(b),
             b[j] \notin {"space", "newline"}
      PROVE  FALSE
  <2>1. j \in P
    BY <1>6
  <2>2. First(P) \in P /\ First(P) <= j
    <3> HIDE DEF P
    <3> QED BY <1>3, <2>1
  <2>3. FirstNonWS(b) # 0 /\ FirstNonWS(b) <= j
    BY <1>2, <2>2
  <2>4. FirstNonWS(b) \in Nat /\ j \in Nat
    BY <1>0, <1>4
  <2> QED BY <1>6, <2>3, <2>4
<1> QED BY <1>4, <1>5, <1>6

LEMMA FirstNonWSIs ==
  ASSUME NEW b \in Seq(Byte), NEW i \in 1..Len(b), b[i] \notin {"space", "newline"},
         \A j \in 1..(i - 1) : b[j] \in {"space", "newline"}
  PROVE  FirstNonWS(b) = i
<1>0. Len(b) \in Nat /\ i \in Nat
  OBVIOUS
<1>1. FirstNonWS(b) # 0 /\ ~(i < FirstNonWS(b)) /\ FirstNonWS(b) \in Nat
  BY <1>0, FirstNonWSFacts
<1>2. ~(FirstNonWS(b) < i)
  <2>1. SUFFICES ASSUME FirstNonWS(b) < i PROVE FALSE
    OBVIOUS
  <2>2. FirstNonWS(b) \in 1..(i - 1)
    BY <1>0, <1>1, <2>1
  <2> QED BY <1>1, <2>2, FirstNonWSFacts
<1> QED BY <1>0, <1>1, <1>2

(* The ends that are possible: the set of which EndOf takes the first. *)
LEMMA EndFacts ==
  ASSUME NEW b \in Seq(Byte)
  PROVE  /\ EndOf(b) \in 0..Len(b)
         /\ EndOf(b) # 0 => FirstNonWS(b) \in 1..EndOf(b)
<1> DEFINE i == FirstNonWS(b)
<1>0. Len(b) \in Nat /\ i \in 0..Len(b)
  BY FirstNonWSFacts
<1>1. CASE i = 0
  BY <1>0, <1>1 DEF EndOf
<1>2. CASE i # 0
  <2>0. i \in 1..Len(b)
    BY <1>0, <1>2
  <2>1. FindValueEnd(b, i) \in (i..Len(b)) \cup {0}
    <3>1. PICK s : Scan(b, i, s)
      BY <2>0, ScanFacts
    <3>2. {j \in i..Len(b) : s[j].depth = 0} \in SUBSET Nat
      BY <2>0
    <3> QED BY <3>1, <3>2, FirstFacts DEF Scan
  <2>2. LineEnd(b, i) \in (i..Len(b)) \cup {0}
    <3>1. {j \in i..Len(b) : b[j] = "newline"} \in SUBSET Nat
      BY <2>0
    <3> QED BY <3>1, FirstFacts DEF LineEnd
  <2>3. EndOf(b) \in (i..Len(b)) \cup {0}
    BY <1>2, <2>1, <2>2 DEF EndOf
  <2> QED BY <1>0, <2>0, <2>3
<1> QED BY <1>1, <1>2

(* extractNext returns a contiguous part of the buffer and keeps exactly   *)
(* what follows it.                                                        *)
LEMMA ExtractIs ==
  ASSUME NEW b
  PROVE  /\ ExtractNext(b).complete <=> EndOf(b) # 0
         /\ EndOf(b) # 0 =>
              /\ ExtractNext(b).value = SubSeq(b, FirstNonWS(b), EndOf(b))
              /\ ExtractNext(b).rest = SubSeq(b, EndOf(b) + 1, Len(b))
BY DEF ExtractNext, EndOf, Incomplete

(* It always makes progress. *)
LEMMA ExtractFacts ==
  ASSUME NEW b \in Seq(Byte), ExtractNext(b).complete
  PROVE  \E i \in 1..Len(b), end \in 1..Len(b) :
           /\ i <= end
           /\ ExtractNext(b).value = SubSeq(b, i, end)
           /\ ExtractNext(b).rest = SubSeq(b, end + 1, Len(b))
<1>1. EndOf(b) # 0
  BY ExtractIs
<1>2. EndOf(b) \in 1..Len(b) /\ FirstNonWS(b) \in 1..Len(b) /\ FirstNonWS(b) <= EndOf(b)
  <2>1. Len(b) \in Nat
    OBVIOUS
  <2> QED BY <1>1, <2>1, EndFacts
<1> QED BY <1>1, <1>2, ExtractIs

(***************************************************************************)
(* A value in a buffer ends where it would end on its own: when p stands   *)
(* behind o bytes of white space, its end is found as soon as it is in the *)
(* buffer, at the same byte, and no end before that.                       *)
(***************************************************************************)
THEOREM EndAgrees ==
  ASSUME NEW b \in Seq(Byte), NEW p \in Seq(Byte), NEW o \in Nat, NEW m \in Nat \ {0},
         o + m <= Len(b), m <= Len(p), Starts(b, o, p, m),
         FirstNonWS(b) = o + 1, FirstNonWS(p) = 1
  PROVE  /\ EndOf(p) \in 1..m => EndOf(b) = o + EndOf(p)
         /\ (EndOf(p) = 0 \/ EndOf(p) > m) /\ Len(b) = o + m => EndOf(b) = 0
<1>0. Len(b) \in Nat /\ Len(p) \in Nat /\ o + 1 \in 1..Len(b) /\ 1 \in 1..Len(p)
  OBVIOUS
<1>1. b[o + 1] = p[1]
  BY DEF Starts
<1>2. \E P \in SUBSET ((o + 1)..Len(b)), Q \in SUBSET (1..Len(p)) :
        /\ EndOf(b) = First(P)
        /\ EndOf(p) = First(Q)
        /\ \A j \in 1..m : o + j \in P <=> j \in Q
  <2>0. \A j \in 1..m : o + j \in (o + 1)..Len(b) /\ j \in 1..Len(p)
    BY <1>0
  <2>1. CASE p[1] \in Opening
    <3>1. PICK s : Scan(b, o + 1, s)
      BY <1>0, ScanFacts
    <3>2. PICK t : Scan(p, 1, t)
      BY <1>0, ScanFacts
    <3>3. \A j \in 1..m : s[o + j] = t[j]
      BY <3>1, <3>2, ScanAgrees
    <3> DEFINE P == {j \in (o + 1)..Len(b) : s[j].depth = 0}
               Q == {j \in 1..Len(p) : t[j].depth = 0}
    <3>4. EndOf(b) = First(P) /\ EndOf(p) = First(Q)
      BY <1>0, <1>1, <2>1, <3>1, <3>2 DEF EndOf, Scan
    <3>5. \A j \in 1..m : o + j \in P <=> j \in Q
      BY <2>0, <3>3
    <3>6. P \in SUBSET ((o + 1)..Len(b)) /\ Q \in SUBSET (1..Len(p))
      OBVIOUS
    <3> HIDE DEF P, Q
    <3> QED BY <3>4, <3>5, <3>6
  <2>2. CASE p[1] \notin Opening
    <3> DEFINE P == {j \in (o + 1)..Len(b) : b[j] = "newline"}
               Q == {j \in 1..Len(p) : p[j] = "newline"}
    <3>1. EndOf(b) = First(P) /\ EndOf(p) = First(Q)
      BY <1>0, <1>1, <2>2 DEF EndOf, LineEnd
    <3>2. \A j \in 1..m : o + j \in P <=> j \in Q
      BY <2>0 DEF Starts
    <3>3. P \in SUBSET ((o + 1)..Len(b)) /\ Q \in SUBSET (1..Len(p))
      OBVIOUS
    <3> HIDE DEF P, Q
    <3> QED BY <3>1, <3>2, <3>3
  <2> QED BY <2>1, <2>2
<1>3. PICK P, Q :
        /\ P \in SUBSET ((o + 1)..Len(b)) /\ Q \in SUBSET (1..Len(p))
        /\ EndOf(b) = First(P)
        /\ EndOf(p) = First(Q)
        /\ \A j \in 1..m : o + j \in P <=> j \in Q
  BY <1>2
<1>4. /\ P \in SUBSET Nat /\ Q \in SUBSET Nat
      /\ \A x \in P : x > o /\ x <= Len(b)
      /\ \A y \in Q : y > 0
  BY <1>0, <1>3
<1>5. /\ First(Q) \in 1..m => First(P) = o + First(Q)
      /\ (First(Q) = 0 \/ First(Q) > m) /\ (\A x \in P : x <= o + m) => First(P) = 0
  BY <1>3, <1>4, FirstShifted
<1> QED BY <1>3, <1>4, <1>5
=============================================================================
