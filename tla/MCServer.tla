-------------------------------- MODULE MCServer --------------------------------
(***************************************************************************)
(* The instance of Server for TLC: two databases, and three ways to start. *)
(***************************************************************************)
EXTENDS Server

Names == {"a", "b"}

Url(s) == [form |-> "url", scheme |-> s, db |-> "a"]
Pg     == Url("postgres")
Maria  == Url("mariadb")
Urls   == {Pg, Maria}

Start(d, p, m, r) == [dsn |-> d, pgDsn |-> p, mariadbDsn |-> m, readOnly |-> r]

Starts == {Start(Pg, NoDsn, Maria, FALSE), Start(NoDsn, NoDsn, Maria, FALSE),
           Start(NoDsn, Pg, Maria, TRUE)}

Asked == {[op |-> "write", db |-> "a"], [op |-> "write", db |-> "b"],
          [op |-> "explained read", db |-> "b"], [op |-> "malformed", db |-> "a"]}
=============================================================================
