------------------------------ MODULE ResultText ------------------------------
(***************************************************************************)
(* How the rows of a query become the text of an answer: DoQuery of        *)
(* pkg/handler/db.go makes a map of every row the driver delivers, and     *)
(* MapToCSV makes records of the maps again.  Quoting is left to           *)
(* encoding/csv: a record is the sequence of its fields.                   *)
(*                                                                         *)
(* A definition marked "Mutant" is a mistake that could be made in the     *)
(* definition after it; PROJECT.json says which property detects it.       *)
(***************************************************************************)
EXTENDS Naturals, Sequences, FiniteSetsExt

CONSTANTS
  Texts,     \* texts: column names and what values print as
  Headers,   \* the column lists a query may have
  Cells,     \* the values a cell may have
  MaxRows    \* bound: rows of a result

(* A cell is nil, or a value that prints as its text. *)
Cell == [nil : {TRUE}] \cup [nil : {FALSE}, text : Texts]

ASSUME ResultTextAssumption ==
  /\ "NULL" \in Texts
  /\ Headers \subseteq Seq(Texts)
  /\ Cells \subseteq Cell
  /\ MaxRows \in Nat

VARIABLES
  cols,     \* the column names
  sent,     \* the rows the driver delivered
  result,   \* the maps DoQuery made of them
  out,      \* the records MapToCSV wrote
  stage     \* "reading" (DoQuery), "writing" (MapToCSV) or "done"

vars == <<cols, sent, result, out, stage>>

Names == {cols[i] : i \in 1..Len(cols)}

Init ==
  /\ cols \in Headers
  /\ sent = <<>>
  /\ result = <<>>
  /\ out = <<>>
  /\ stage = "reading"

(* Mutant: NULL cells are left out of the map. *)
RowMapWithoutNulls(row) ==
  LET cell == [n \in Names |-> row[Max({i \in 1..Len(cols) : cols[i] = n})]]
  IN  [n \in {m \in Names : ~cell[m].nil} |-> cell[n]]

(* Of two columns with one name the later overwrites the earlier. *)
RowMap(row) ==
  [n \in Names |-> row[Max({i \in 1..Len(cols) : cols[i] = n})]]

(* Mutant: one map serves all rows. *)
AppendShared(row) == [i \in 1..(Len(result) + 1) |-> RowMap(row)]

AppendRow(row) == Append(result, RowMap(row))

(* One turn of the loop of DoQuery. *)
NextRow(row) ==
  /\ stage = "reading"
  /\ Len(sent) < MaxRows
  /\ sent' = Append(sent, row)
  /\ result' = AppendRow(row)
  /\ UNCHANGED <<cols, out, stage>>

NoMoreRows ==
  /\ stage = "reading"
  /\ stage' = "writing"
  /\ out' = <<cols>>
  /\ UNCHANGED <<cols, sent, result>>

Field(cell) == IF cell.nil THEN "NULL" ELSE cell.text

Record(map) == [i \in 1..Len(cols) |-> Field(map[cols[i]])]

(* One turn of the loop of MapToCSV. *)
WriteRecord ==
  /\ stage = "writing"
  /\ Len(out) <= Len(result)
  /\ out' = Append(out, Record(result[Len(out)]))
  /\ UNCHANGED <<cols, sent, result, stage>>

Flush ==
  /\ stage = "writing"
  /\ Len(out) = Len(result) + 1
  /\ stage' = "done"
  /\ UNCHANGED <<cols, sent, result, out>>

Terminated == stage = "done" /\ UNCHANGED vars

Next ==
  \/ \E row \in [1..Len(cols) -> Cells] : NextRow(row)
  \/ NoMoreRows \/ WriteRecord \/ Flush
  \/ Terminated

Spec == Init /\ [][Next]_vars

-----------------------------------------------------------------------------
(* Properties. *)

(* Every variable stays in its type. *)
TypeOK ==
  /\ cols \in Headers
  /\ sent \in Seq([1..Len(cols) -> Cells])
  /\ result \in Seq([Names -> Cells])
  /\ out \in Seq([1..Len(cols) -> Texts])
  /\ stage \in {"reading", "writing", "done"}

(* The text shows the rows the database sent, each under its columns and   *)
(* in the order sent, after the header and with nothing left out.          *)
Faithful ==
  stage = "done" =>
    /\ Len(out) = Len(sent) + 1
    /\ out[1] = cols
    /\ \A i \in 1..Len(sent), j \in 1..Len(cols) :
         out[i + 1][j] = Field(sent[i][j])
=============================================================================
