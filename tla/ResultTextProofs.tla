--------------------------- MODULE ResultTextProofs ---------------------------
(***************************************************************************)
(* What becomes of the rows of a query, whatever the columns, the cells    *)
(* and the number of rows: every variable keeps its type, two columns of   *)
(* one name included, and with distinct names rows come out as they went   *)
(* in.                                                                     *)
(***************************************************************************)
EXTENDS ResultText, WellFoundedInduction, TLAPS

(* No column list names two columns alike. *)
DistinctHeaders ==
  \A h \in Headers : \A i, j \in 1..Len(h) : h[i] = h[j] => i = j

Row == [1..Len(cols) -> Cells]

(***************************************************************************)
(* The inductive invariant: the maps hold the cells of the rows sent, and  *)
(* what is written so far is the header and one record per map.            *)
(***************************************************************************)
Types ==
  /\ cols \in Headers
  /\ sent \in Seq(Row)
  /\ result \in Seq([Names -> Cells])
  /\ out \in Seq([1..Len(cols) -> Texts])
  /\ stage \in {"reading", "writing", "done"}

Kept ==
  /\ Len(result) = Len(sent)
  /\ \A i \in 1..Len(sent), j \in 1..Len(cols) : result[i][cols[j]] = sent[i][j]

Written ==
  /\ stage = "reading" => out = <<>>
  /\ stage # "reading" =>
       /\ 1 <= Len(out) /\ Len(out) <= Len(result) + 1
       /\ out[1] = cols
       /\ \A i \in 1..(Len(out) - 1) : out[i + 1] = Record(result[i])
  /\ stage = "done" => Len(out) = Len(result) + 1

-----------------------------------------------------------------------------
(* The one element of a set is its maximum. *)
LEMMA MaxOfOne == ASSUME NEW k \in Nat PROVE Max({k}) = k
BY DEF Max

(* A bounded set of numbers has a maximum. *)
LEMMA MaxOfBounded ==
  ASSUME NEW k \in Nat, NEW S, S \subseteq 1..k, S # {}
  PROVE  Max(S) \in S
<1> DEFINE R == OpToRel(<, Nat)
           T == {k - i : i \in S}
<1>1. T \subseteq Nat /\ T # {}
  <2>1. \A i \in S : i \in Nat /\ i <= k /\ k - i \in Nat
    OBVIOUS
  <2> QED BY <2>1
<1>2. IsWellFoundedOn(R, Nat)
  BY NatLessThanWellFounded
<1>3. \E m \in T : \A x \in T : ~(<<x, m>> \in R)
  <2> HIDE DEF R, T
  <2> QED BY <1>1, <1>2, WFMin
<1>4. PICK i \in S : \A j \in S : ~(<<k - j, k - i>> \in R)
  BY <1>3
<1>5. ASSUME NEW j \in S PROVE i >= j
  <2>1. i \in Nat /\ j \in Nat /\ k - i \in Nat /\ k - j \in Nat
    OBVIOUS
  <2>2. ~(k - j < k - i)
    BY <1>4, <2>1 DEF OpToRel
  <2> QED BY <2>1, <2>2
<1> QED BY <1>5 DEF Max

LEMMA AppendFacts ==
  ASSUME NEW S, NEW s \in Seq(S), NEW e \in S
  PROVE  /\ Append(s, e) \in Seq(S)
         /\ Len(Append(s, e)) = Len(s) + 1
         /\ \A i \in 1..Len(s) : Append(s, e)[i] = s[i]
         /\ Append(s, e)[Len(s) + 1] = e
OBVIOUS

LEMMA ColumnTypes ==
  ASSUME cols \in Headers
  PROVE  /\ cols \in Seq(Texts) /\ Len(cols) \in Nat
         /\ \A j \in 1..Len(cols) : cols[j] \in Names /\ cols[j] \in Texts
BY ResultTextAssumption DEF Names

(* The map of a row holds cells, also where a name has several columns. *)
LEMMA RowMapTyped ==
  ASSUME cols \in Headers, NEW row \in Row
  PROVE  RowMap(row) \in [Names -> Cells]
<1>1. ASSUME NEW n \in Names
      PROVE  row[Max({i \in 1..Len(cols) : cols[i] = n})] \in Cells
  <2> DEFINE S == {i \in 1..Len(cols) : cols[i] = n}
  <2>1. S \subseteq 1..Len(cols) /\ S # {} /\ Len(cols) \in Nat
    BY ColumnTypes DEF Names
  <2>2. Max(S) \in S
    BY <2>1, MaxOfBounded
  <2> QED BY <2>2 DEF Row
<1> QED BY <1>1 DEF RowMap

(* With distinct names, every cell is found under the name of its column. *)
LEMMA RowMapFacts ==
  ASSUME DistinctHeaders, cols \in Headers, NEW row \in Row
  PROVE  \A j \in 1..Len(cols) : RowMap(row)[cols[j]] = row[j]
<1>1. ASSUME NEW j \in 1..Len(cols)
      PROVE  Max({i \in 1..Len(cols) : cols[i] = cols[j]}) = j
  <2>1. {i \in 1..Len(cols) : cols[i] = cols[j]} = {j}
    BY DEF DistinctHeaders
  <2> QED BY <2>1, MaxOfOne, ColumnTypes
<1> QED BY <1>1, ColumnTypes DEF RowMap

LEMMA FieldIsText == ASSUME NEW c \in Cells PROVE Field(c) \in Texts
<1>1. c \in [nil : {TRUE}] \/ c \in [nil : {FALSE}, text : Texts]
  BY ResultTextAssumption DEF Cell
<1>2. CASE c \in [nil : {TRUE}]
  <2>1. c.nil = TRUE
    BY <1>2
  <2>2. Field(c) = "NULL"
    BY <2>1, Zenon DEF Field
  <2>3. "NULL" \in Texts
    BY ResultTextAssumption
  <2> QED BY <2>2, <2>3, Zenon
<1>3. CASE c \in [nil : {FALSE}, text : Texts]
  <2>1. c.nil = FALSE /\ c.text \in Texts
    BY <1>3
  <2>2. Field(c) = c.text
    BY <2>1, Zenon DEF Field
  <2> QED BY <2>1, <2>2, Zenon
<1> QED BY <1>1, <1>2, <1>3

LEMMA RecordTypes ==
  ASSUME cols \in Headers, NEW map \in [Names -> Cells]
  PROVE  Record(map) \in [1..Len(cols) -> Texts]
BY ColumnTypes, FieldIsText DEF Record

-----------------------------------------------------------------------------
LEMMA InitInv == Init => Types /\ Kept /\ Written
BY DEF Init, Types, Kept, Written

(* The header is written before the rows. *)
Begun == stage # "reading" => 1 <= Len(out)

(* Every step keeps the types, for any column lists. *)
LEMMA TypesNext == ASSUME Types, Begun, [Next]_vars PROVE Types' /\ Begun'
<1>1. ASSUME NEW row \in Row, NextRow(row) PROVE Types' /\ Begun'
  <2>1. /\ cols' = cols /\ out' = out /\ stage' = stage
        /\ sent' = Append(sent, row) /\ result' = Append(result, RowMap(row))
    BY <1>1 DEF NextRow, AppendRow
  <2>2. RowMap(row) \in [Names -> Cells]
    BY RowMapTyped DEF Types
  <2>3. sent' \in Seq(Row) /\ result' \in Seq([Names -> Cells])
    BY <2>1, <2>2, AppendFacts DEF Types
  <2> QED BY <2>1, <2>3 DEF Types, Begun, Row, Names
<1>2. CASE NoMoreRows
  <2>1. /\ stage' = "writing" /\ out' = <<cols>>
        /\ cols' = cols /\ sent' = sent /\ result' = result
    BY <1>2 DEF NoMoreRows
  <2>2. out' \in Seq([1..Len(cols) -> Texts]) /\ Len(out') = 1
    BY <2>1, ColumnTypes DEF Types
  <2> QED BY <2>1, <2>2 DEF Types, Begun, Row, Names
<1>3. CASE WriteRecord
  <2> DEFINE k == Len(out)
  <2>1. /\ stage = "writing" /\ stage' = stage /\ out' = Append(out, Record(result[k]))
        /\ k <= Len(result) /\ cols' = cols /\ sent' = sent /\ result' = result
    BY <1>3 DEF WriteRecord
  <2>2. k \in 1..Len(result)
    BY <2>1 DEF Types, Begun
  <2>3. Record(result[k]) \in [1..Len(cols) -> Texts]
    BY <2>2, RecordTypes DEF Types
  <2>4. out' \in Seq([1..Len(cols) -> Texts]) /\ Len(out') = k + 1
    BY <2>1, <2>3, AppendFacts DEF Types
  <2> QED BY <2>1, <2>4 DEF Types, Begun, Row, Names
<1>4. CASE Flush \/ Terminated \/ UNCHANGED vars
  <2>1. /\ UNCHANGED <<cols, sent, result, out>>
        /\ \/ stage' = stage
           \/ stage = "writing" /\ stage' = "done"
    BY <1>4 DEF Flush, Terminated, vars
  <2> QED BY <2>1 DEF Types, Begun, Row, Names
<1> QED BY <1>1, <1>2, <1>3, <1>4 DEF Next, Row

LEMMA NextInv ==
  ASSUME DistinctHeaders, Types /\ Kept /\ Written, [Next]_vars
  PROVE  (Types /\ Kept /\ Written)'
<1>0. Types'
  <2>1. Begun
    BY DEF Types, Written, Begun
  <2> QED BY <2>1, TypesNext
<1>1. CASE UNCHANGED vars
  BY <1>0, <1>1 DEF vars, Kept, Written, Record
<1>2. ASSUME NEW row \in Row, NextRow(row) PROVE (Types /\ Kept /\ Written)'
  <2>1. /\ stage = "reading" /\ stage' = "reading" /\ cols' = cols /\ out' = out
        /\ sent' = Append(sent, row) /\ result' = Append(result, RowMap(row))
    BY <1>2 DEF NextRow, AppendRow
  <2>2. /\ RowMap(row) \in [Names -> Cells]
        /\ \A j \in 1..Len(cols) : RowMap(row)[cols[j]] = row[j]
    BY RowMapFacts, RowMapTyped DEF Types
  <2>3. /\ sent' \in Seq(Row) /\ Len(sent') = Len(sent) + 1
        /\ \A i \in 1..Len(sent) : sent'[i] = sent[i]
        /\ sent'[Len(sent) + 1] = row
    BY <2>1, AppendFacts DEF Types
  <2>4. /\ result' \in Seq([Names -> Cells]) /\ Len(result') = Len(result) + 1
        /\ \A i \in 1..Len(result) : result'[i] = result[i]
        /\ result'[Len(result) + 1] = RowMap(row)
    BY <2>1, <2>2, AppendFacts DEF Types
  <2>5. Kept'
    <3>1. Len(sent) \in Nat /\ Len(result) = Len(sent)
      BY DEF Types, Kept
    <3>2. ASSUME NEW i \in 1..Len(sent'), NEW j \in 1..Len(cols)
          PROVE  result'[i][cols[j]] = sent'[i][j]
      <4>1. i \in 1..Len(sent) \/ i = Len(sent) + 1
        BY <2>3, <3>1
      <4>2. CASE i \in 1..Len(sent)
        BY <4>2, <2>3, <2>4, <3>1 DEF Kept
      <4>3. CASE i = Len(sent) + 1
        BY <4>3, <2>2, <2>3, <2>4, <3>1
      <4> QED BY <4>1, <4>2, <4>3
    <3> QED BY <2>1, <2>3, <2>4, <3>1, <3>2 DEF Kept
  <2>6. Written'
    BY <2>1 DEF Written
  <2> QED BY <1>0, <2>5, <2>6
<1>3. CASE NoMoreRows
  <2>1. /\ stage = "reading" /\ stage' = "writing" /\ out' = <<cols>>
        /\ cols' = cols /\ sent' = sent /\ result' = result
    BY <1>3 DEF NoMoreRows
  <2>2. Len(out') = 1 /\ out'[1] = cols
    BY <2>1
  <2>3. Len(result) \in Nat
    BY DEF Types
  <2> QED BY <1>0, <2>1, <2>2, <2>3 DEF Kept, Written
<1>4. CASE WriteRecord
  <2> DEFINE k == Len(out)
  <2>1. /\ stage = "writing" /\ stage' = stage /\ out' = Append(out, Record(result[k]))
        /\ k <= Len(result) /\ cols' = cols /\ sent' = sent /\ result' = result
    BY <1>4 DEF WriteRecord
  <2>2. k \in 1..Len(result) /\ k \in Nat /\ Len(result) \in Nat /\ out[1] = cols
    BY <2>1 DEF Types, Written
  <2>3. Record(result[k]) \in [1..Len(cols) -> Texts]
    BY <2>2, RecordTypes DEF Types
  <2>4. /\ Len(out') = k + 1
        /\ \A i \in 1..k : out'[i] = out[i]
        /\ out'[k + 1] = Record(result[k])
    BY <2>1, <2>3, AppendFacts DEF Types
  <2>5. Kept'
    BY <2>1 DEF Kept
  <2>6. ASSUME NEW i \in 1..(Len(out') - 1) PROVE out'[i + 1] = Record(result[i])
    <3>1. i \in 1..(k - 1) \/ i = k
      BY <2>2, <2>4
    <3>2. CASE i \in 1..(k - 1)
      <4>1. out[i + 1] = Record(result[i])
        BY <3>2, <2>1 DEF Written
      <4>2. i + 1 \in 1..k
        BY <3>2, <2>2
      <4> QED BY <4>1, <4>2, <2>4
    <3>3. CASE i = k
      BY <3>3, <2>4
    <3> QED BY <3>1, <3>2, <3>3
  <2>7. 1 <= Len(out') /\ Len(out') <= Len(result) + 1 /\ out'[1] = cols
    BY <2>1, <2>2, <2>4
  <2>8. Written'
    BY <2>1, <2>6, <2>7 DEF Written, Record
  <2> QED BY <1>0, <2>5, <2>8
<1>5. CASE Flush
  BY <1>0, <1>5 DEF Flush, Kept, Written, Record
<1>6. CASE Terminated
  BY <1>0, <1>6 DEF Terminated, vars, Kept, Written, Record
<1> QED BY <1>1, <1>2, <1>3, <1>4, <1>5, <1>6 DEF Next, Row

LEMMA InvImpliesFaithful == Types /\ Kept /\ Written => Faithful
<1> SUFFICES ASSUME Types, Kept, Written, stage = "done" PROVE Faithful
  BY DEF Faithful
<1>1. Len(out) = Len(sent) + 1 /\ out[1] = cols /\ Len(sent) \in Nat
  BY DEF Types, Kept, Written
<1>2. ASSUME NEW i \in 1..Len(sent), NEW j \in 1..Len(cols)
      PROVE  out[i + 1][j] = Field(sent[i][j])
  <2>1. i \in 1..(Len(out) - 1)
    BY <1>1
  <2>2. out[i + 1] = Record(result[i])
    BY <2>1 DEF Written
  <2>3. result[i][cols[j]] = sent[i][j]
    BY DEF Kept
  <2> QED BY <2>2, <2>3 DEF Record
<1> QED BY <1>1, <1>2 DEF Faithful

(***************************************************************************)
(* DoQuery and MapToCSV keep every row and every cell of a query without   *)
(* duplicate column names, for any columns, cells and number of rows.      *)
(***************************************************************************)
THEOREM FaithfulResults == ASSUME DistinctHeaders PROVE Spec => []Faithful
<1>1. Init => Types /\ Kept /\ Written
  BY InitInv
<1>2. (Types /\ Kept /\ Written) /\ [Next]_vars => (Types /\ Kept /\ Written)'
  BY NextInv
<1>3. Types /\ Kept /\ Written => Faithful
  BY InvImpliesFaithful
<1> QED BY <1>1, <1>2, <1>3, PTL DEF Spec

(* Every variable keeps its type, for any columns, cells and number of     *)
(* rows: the maps hold a cell under every name of a column, and every      *)
(* record has as many fields as the header, also when columns share names. *)
THEOREM TypeCorrect == Spec => []TypeOK
<1>1. Init => Types /\ Begun
  BY DEF Init, Types, Begun
<1>2. Types /\ Begun /\ [Next]_vars => Types' /\ Begun'
  BY TypesNext
<1>3. Types => TypeOK
  BY DEF Types, TypeOK, Row
<1> QED BY <1>1, <1>2, <1>3, PTL DEF Spec
=============================================================================
