-------------------------------- MODULE DBPool --------------------------------
(***************************************************************************)
(* The connection pools of pkg/handler/db.go: DB(dbName) looks a pool up   *)
(* in the map dbPools or opens one, with the database name swapped into    *)
(* the configured DSN.  Nothing guards dbPools; whether tool calls run one *)
(* after the other or side by side is decided by the mcp SDK, so both are  *)
(* modelled.                                                               *)
(*                                                                         *)
(* SetDB, which lets a test inject a pool, is left out.                    *)
(*                                                                         *)
(* A definition marked "Mutant" is a mistake that could be made in the     *)
(* definition after it; PROJECT.json says which property detects it.       *)
(***************************************************************************)
EXTENDS Naturals, Sequences

CONSTANTS
  Callers,    \* tool calls that may be in progress together
  Databases,  \* the names they ask for
  Existing,   \* the databases that exist on the server
  Dsns,       \* the DSNs the program may be started with
  MaxPools    \* bound: pools opened in one run

(***************************************************************************)
(* A DSN is a URL with a scheme, or something else that only the driver    *)
(* understands (form "driver"); either way it names a database.            *)
(***************************************************************************)
Dsn == [form : {"url", "driver"},
        scheme : {"postgres", "postgresql", "mysql", "mariadb", "other"},
        db : Databases]

ASSUME DBPoolAssumption ==
  /\ Existing \subseteq Databases
  /\ Dsns \subseteq Dsn
  /\ MaxPools \in Nat

VARIABLES
  serial,   \* the SDK runs one tool call after the other
  dsn,      \* the configured DSN
  up,       \* the database server accepts connections
  made,     \* dbPools is not the nil map
  dbPools,  \* from database names to pools
  pools,    \* pools[p]: the database that pool p is connected to
  pc, arg,  \* per caller: its place in DB, and the database it asked for
  opened,   \* per caller: the pool it just opened
  result,   \* per caller: the pool DB returned, 0 for none
  crashed   \* the Go runtime found unsynchronised map accesses

vars == <<serial, dsn, up, made, dbPools, pools, pc, arg, opened, result, crashed>>

-----------------------------------------------------------------------------
(* From the configured DSN to the one a driver gets. *)

SchemesOf(dialect) ==
  IF dialect = "mariadb" THEN {"mysql", "mariadb"} ELSE {"postgres", "postgresql"}

DialectFromDSN(d) ==
  IF d.form = "url" /\ d.scheme \in {"mysql", "mariadb"} THEN "mariadb" ELSE "postgres"

(* Mutant: the database of the configured DSN is kept. *)
KeepDatabaseName(dialect, d, name) == d

ReplaceDatabaseName(dialect, d, name) ==
  IF d.form = "url" /\ d.scheme \in SchemesOf(dialect) THEN [d EXCEPT !.db = name] ELSE d

(* Mutant: the MariaDB driver gets the URL. *)
KeepURL(d) == d

ToMariaDBDSN(d) == [d EXCEPT !.form = "driver"]

PoolDsn(d, name) ==
  LET replaced == ReplaceDatabaseName(DialectFromDSN(d), d, name) IN
  IF DialectFromDSN(d) = "mariadb" THEN ToMariaDBDSN(replaced) ELSE replaced

(* The drivers: lib/pq takes URLs of its own schemes and its key=value     *)
(* format, go-sql-driver/mysql only its own format.                        *)
Understood(dialect, d) ==
  d.form = "driver" \/ (dialect = "postgres" /\ d.scheme \in SchemesOf("postgres"))

Reachable(d) == up /\ Understood(DialectFromDSN(dsn), d) /\ d.db \in Existing

-----------------------------------------------------------------------------
Outside == {"idle", "done", "failed"}

Init ==
  /\ serial \in BOOLEAN
  /\ dsn \in Dsns
  /\ up \in BOOLEAN
  /\ made = FALSE
  /\ dbPools = <<>>
  /\ pools = <<>>
  /\ pc = [c \in Callers |-> "idle"]
  /\ arg \in [Callers -> {CHOOSE n \in Databases : TRUE}]
  /\ opened = [c \in Callers |-> 0]
  /\ result = [c \in Callers |-> 0]
  /\ crashed = FALSE

Goto(c, label) == pc' = [pc EXCEPT ![c] = label]

Stored(n, p) == [m \in DOMAIN dbPools \cup {n} |-> IF m = n THEN p ELSE dbPools[m]]

(* A tool call enters DB(n). *)
Call(c, n) ==
  /\ \A d \in (IF serial THEN Callers ELSE {c}) : pc[d] \in Outside
  /\ arg' = [arg EXCEPT ![c] = n]
  /\ result' = [result EXCEPT ![c] = 0]
  /\ Goto(c, "nil check")
  /\ UNCHANGED <<serial, dsn, up, made, dbPools, pools, opened, crashed>>

(* Mutant: every call makes the map anew. *)
AlwaysMake(c) ==
  /\ pc[c] = "nil check"
  /\ Goto(c, "make")
  /\ UNCHANGED <<serial, dsn, up, made, dbPools, pools, arg, opened, result, crashed>>

NilCheck(c) ==
  /\ pc[c] = "nil check"
  /\ Goto(c, IF made THEN "lookup" ELSE "make")
  /\ UNCHANGED <<serial, dsn, up, made, dbPools, pools, arg, opened, result, crashed>>

MakeMap(c) ==
  /\ pc[c] = "make"
  /\ made' = TRUE
  /\ dbPools' = <<>>
  /\ Goto(c, "lookup")
  /\ UNCHANGED <<serial, dsn, up, pools, arg, opened, result, crashed>>

Lookup(c) ==
  /\ pc[c] = "lookup"
  /\ \/ /\ arg[c] \in DOMAIN dbPools
        /\ result' = [result EXCEPT ![c] = dbPools[arg[c]]]
        /\ Goto(c, "done")
     \/ /\ arg[c] \notin DOMAIN dbPools
        /\ Goto(c, "connect")
        /\ UNCHANGED result
  /\ UNCHANGED <<serial, dsn, up, made, dbPools, pools, arg, opened, crashed>>

(* sqlx.Connect opens a pool and pings the server through it. *)
Connect(c) ==
  /\ pc[c] = "connect"
  /\ Reachable(PoolDsn(dsn, arg[c]))
  /\ Len(pools) < MaxPools
  /\ pools' = Append(pools, PoolDsn(dsn, arg[c]).db)
  /\ opened' = [opened EXCEPT ![c] = Len(pools')]
  /\ Goto(c, "store")
  /\ UNCHANGED <<serial, dsn, up, made, dbPools, arg, result, crashed>>

(* Mutant: the map gets its entry before the error is looked at. *)
StoreFailure(c) ==
  /\ pc[c] = "connect"
  /\ ~Reachable(PoolDsn(dsn, arg[c]))
  /\ dbPools' = Stored(arg[c], 0)
  /\ Goto(c, "failed")
  /\ UNCHANGED <<serial, dsn, up, made, pools, arg, opened, result, crashed>>

ConnectFails(c) ==
  /\ pc[c] = "connect"
  /\ ~Reachable(PoolDsn(dsn, arg[c]))
  /\ Goto(c, "failed")
  /\ UNCHANGED <<serial, dsn, up, made, dbPools, pools, arg, opened, result, crashed>>

(* Mutant: the pool is returned but not kept. *)
ReturnOnly(c) ==
  /\ pc[c] = "store"
  /\ result' = [result EXCEPT ![c] = opened[c]]
  /\ Goto(c, "done")
  /\ UNCHANGED <<serial, dsn, up, made, dbPools, pools, arg, opened, crashed>>

Store(c) ==
  /\ pc[c] = "store"
  /\ dbPools' = Stored(arg[c], opened[c])
  /\ result' = [result EXCEPT ![c] = opened[c]]
  /\ Goto(c, "done")
  /\ UNCHANGED <<serial, dsn, up, made, pools, arg, opened, crashed>>

(* The Go runtime may notice a write to dbPools that overlaps another      *)
(* access, and then ends the process.                                      *)
Crash ==
  /\ \E c, d \in Callers :
       c # d /\ pc[c] = "store" /\ pc[d] \in {"lookup", "store"}
  /\ crashed' = TRUE
  /\ UNCHANGED <<serial, dsn, up, made, dbPools, pools, pc, arg, opened, result>>

(* The database server stops or comes back. *)
Toggle ==
  /\ up' = ~up
  /\ UNCHANGED <<serial, dsn, made, dbPools, pools, pc, arg, opened, result, crashed>>

Next ==
  /\ ~crashed
  /\ \/ \E c \in Callers :
          \/ \E n \in Databases : Call(c, n)
          \/ NilCheck(c) \/ MakeMap(c) \/ Lookup(c)
          \/ Connect(c) \/ ConnectFails(c) \/ Store(c)
     \/ Crash
     \/ Toggle

Spec == Init /\ [][Next]_vars

-----------------------------------------------------------------------------
(* Properties. *)

Labels == Outside \cup {"nil check", "make", "lookup", "connect", "store"}

(* Every variable stays in its type: no entry of dbPools is a nil pool.    *)
TypeOK ==
  /\ serial \in BOOLEAN
  /\ dsn \in Dsns
  /\ up \in BOOLEAN /\ made \in BOOLEAN /\ crashed \in BOOLEAN
  /\ pools \in Seq(Databases)
  /\ DOMAIN dbPools \subseteq Databases
  /\ \A n \in DOMAIN dbPools : dbPools[n] \in 1..Len(pools)
  /\ pc \in [Callers -> Labels]
  /\ arg \in [Callers -> Databases]
  /\ opened \in [Callers -> 0..Len(pools)]
  /\ result \in [Callers -> 0..Len(pools)]

(* A call that returns a pool returns one that is connected to the         *)
(* database it asked for, however calls interleave.                        *)
RightDatabase ==
  \A c \in Callers :
    pc[c] = "done" => result[c] # 0 /\ pools[result[c]] = arg[c]

(* A call fails only if the server or the database is unreachable now: no  *)
(* failure is remembered, and every DSN of a supported form works.         *)
ErrorsAreCurrent ==
  [][\A c \in Callers :
       pc[c] # "failed" /\ pc'[c] = "failed" => ~up \/ arg[c] \notin Existing]_vars

(* Calls that follow one another never open two pools to one database: the *)
(* pools, none of which is ever closed, are as few as the names used.      *)
OnePoolEach ==
  serial => \A p, q \in 1..Len(pools) : pools[p] = pools[q] => p = q

Cache == INSTANCE PoolCache WITH
  cache <- IF serial THEN dbPools ELSE <<>>,
  answer <- IF serial THEN result ELSE [c \in Callers |-> 0]

(* Calls that follow one another see the pools as PoolCache describes.     *)
ImplementsCache == Cache!Spec
=============================================================================
