------------------------------- MODULE MCCatalog -------------------------------
(***************************************************************************)
(* Instances of Catalog for TLC: per kind of object a handful that share   *)
(* names across schemas, tables and kinds.  Table 3 has capitals in its    *)
(* name, which is that of table 1 otherwise.                               *)
(***************************************************************************)
EXTENDS Catalog

Capitals == 3 :> 1

T(s, n, b, k, p) == [is |-> "table", schema |-> s, name |-> n, base |-> b,
                     columns |-> {1, 2}, key |-> k, pkey |-> p]
F(s, n, a, k) == [is |-> "routine", schema |-> s, name |-> n, args |-> a, kind |-> k]
G(s, t, n, i, m, r, e, l) ==
  [is |-> "trigger", schema |-> s, table |-> t, name |-> n, internal |-> i,
   timing |-> m, row |-> r, events |-> e, long |-> l]
S(s, n) == [is |-> "sequence", schema |-> s, name |-> n]

TablePool ==
  {T("home", 1, TRUE, {1}, TRUE), T("home", 2, TRUE, {}, FALSE), T("home", 3, FALSE, {}, FALSE),
   T("home", 4, TRUE, {2}, FALSE), T("away", 1, TRUE, {2}, TRUE), T("system", 2, TRUE, {1}, TRUE)}

HomeTables == {t \in TablePool : t.schema = "home" /\ t.base}

RoutinePool ==
  {F("home", 1, 0, "f"), F("home", 1, 1, "f"), F("home", 1, 2, "p"), F("home", 1, 3, "a"),
   F("home", 2, 1, "w"), F("home", 2, 0, "p"), F("away", 1, 1, "f")}

TriggerPool ==
  {G("home", 1, 1, FALSE, "AFTER", TRUE, {"INSERT"}, FALSE),
   G("home", 1, 2, FALSE, "BEFORE", TRUE, {"UPDATE"}, TRUE),
   G("home", 2, 1, FALSE, "INSTEAD OF", TRUE, {"DELETE", "INSERT"}, TRUE),
   G("home", 3, 1, FALSE, "BEFORE", FALSE, {"DELETE"}, TRUE),
   G("home", 1, 3, TRUE, "AFTER", FALSE, {"TRUNCATE"}, TRUE),
   G("away", 1, 1, FALSE, "AFTER", TRUE, {"DELETE"}, TRUE),
   [is |-> "event trigger", name |-> 1], [is |-> "event trigger", name |-> 2]}

SequencePool == {S("home", 1), S("home", 2), S("home", 3), S("away", 1)}

AnyObject == TablePool \cup RoutinePool \cup TriggerPool \cup SequencePool

C(t) == [tool |-> t, schema |-> "absent", name |-> 0, table |-> 0, args |-> 0]

AnyCall ==
  {C(t) : t \in ListTools}
  \cup {[C(t) EXCEPT !.schema = "away"] : t \in {"list_functions", "list_sequences"}}
  \cup {[C("list_triggers") EXCEPT !.table = 1]}
  \cup {[C("desc_table") EXCEPT !.table = n] : n \in 1..2}
  \cup {[C("desc_function") EXCEPT !.name = n, !.args = a, !.schema = s] :
          n \in 1..2, a \in 0..1, s \in {"absent", "away"}}
  \cup {[C("desc_trigger") EXCEPT !.table = n, !.name = m] : n \in 1..3, m \in 1..2}

TriggerCalls == {C("list_triggers"), [C("list_triggers") EXCEPT !.table = 1]}

TableCalls == {[C("desc_table") EXCEPT !.table = n] : n \in 1..4}
=============================================================================
