----------------------------- MODULE MCToolCalls -----------------------------
(***************************************************************************)
(* Instances of ToolCalls for TLC: prefixes with and without a word in     *)
(* common with a tool name, and arguments with one defect at a time.       *)
(***************************************************************************)
EXTENDS ToolCalls

Plain    == {<<>>, <<"pg">>}
Clashing == {<<"list">>}
AnyPrefix == Plain \cup Clashing

Good == [database |-> "identifier", table |-> "identifier", query |-> "read",
         function |-> "identifier", trigger |-> "identifier",
         schema |-> "missing", args |-> "missing", explain |-> "missing"]

Writing == {[Good EXCEPT !.query = q, !.explain = e] :
              q \in Statements, e \in BoolParam}

Defects ==
  {[Good EXCEPT !.database = v] : v \in {"missing", "empty", "no string", "text"}} \cup
  {[Good EXCEPT !.table = v] : v \in {"missing", "null", "text"}} \cup
  {[Good EXCEPT !.query = v] : v \in {"null", "empty"}} \cup
  {[Good EXCEPT !.trigger = "text"], [Good EXCEPT !.function = "text"]} \cup
  {[Good EXCEPT !.schema = v] : v \in {"null", "empty", "identifier", "text"}} \cup
  {[Good EXCEPT !.args = "text"], [Good EXCEPT !.args = "no string"]}

AllArguments == Writing \cup Defects
FewArguments == {Good, [Good EXCEPT !.database = "text"]}
=============================================================================
