------------------------------- MODULE MCDBPool -------------------------------
(***************************************************************************)
(* Instances of DBPool for TLC: the DSN names database "a"; "c" does not   *)
(* exist.                                                                  *)
(***************************************************************************)
EXTENDS DBPool

Names == {"a", "b", "c"}
Real  == {"a", "b"}

Url(s) == [form |-> "url", scheme |-> s, db |-> "a"]

Urls == {Url("postgres"), Url("postgresql"), Url("mysql"), Url("mariadb")}
=============================================================================
