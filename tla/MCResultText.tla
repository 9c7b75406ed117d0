---------------------------- MODULE MCResultText ----------------------------
(***************************************************************************)
(* Instances of ResultText for TLC.                                        *)
(***************************************************************************)
EXTENDS ResultText

AllTexts == {"a", "b", "id", "x", "y", "NULL"}

Distinct  == {<<>>, <<"a">>, <<"a", "b">>, <<"b", "a">>}
Duplicate == {<<"id", "id">>}

Null    == [nil |-> TRUE]
Text(s) == [nil |-> FALSE, text |-> s]

FewCells == {Null, Text("x"), Text("y")}
=============================================================================
