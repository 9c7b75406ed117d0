----------------------------- MODULE DBPoolProofs -----------------------------
(***************************************************************************)
(* However many tool calls run DB at once, and though nothing guards       *)
(* dbPools, a call gets a pool of the database it named - for the DSNs     *)
(* that replaceDatabaseName understands.  If they come one at a time, no   *)
(* database gets a second pool, and the map is the cache that PoolCache    *)
(* describes; and when one fails, it has a cause.                          *)
(***************************************************************************)
EXTENDS DBPool, TLAPS

(* Every DSN is a URL of a supported dialect. *)
SupportedDsns ==
  \A d \in Dsns :
    d.form = "url" /\ d.scheme \in {"postgres", "postgresql", "mysql", "mariadb"}

(* A caller about to store a pool has opened it, and one that returned a   *)
(* pool has one.                                                           *)
Opened ==
  \A c \in Callers :
    (pc[c] = "store" => opened[c] # 0) /\ (pc[c] = "done" => result[c] # 0)

Types == TypeOK /\ Opened

(* Wherever a pool is held, it belongs to the database it is held for: in  *)
(* the map, in a caller about to store it, and in a caller that returned.  *)
Right ==
  /\ \A n \in DOMAIN dbPools : pools[dbPools[n]] = n
  /\ \A c \in Callers : pc[c] = "store" => pools[opened[c]] = arg[c]
  /\ \A c \in Callers : pc[c] = "done" => result[c] # 0 /\ pools[result[c]] = arg[c]

-----------------------------------------------------------------------------
(* The DSN of a pool names a database, that of the caller if the           *)
(* configured DSN is supported.                                            *)
LEMMA PoolDsnNames ==
  ASSUME NEW d \in Dsns, NEW n \in Databases
  PROVE  /\ PoolDsn(d, n).db \in Databases
         /\ SupportedDsns => PoolDsn(d, n).db = n
<1> DEFINE dialect == DialectFromDSN(d)
           r == ReplaceDatabaseName(dialect, d, n)
<1>1. d \in Dsn
  BY DBPoolAssumption
<1>2. r \in Dsn /\ r.db \in {d.db, n}
  BY <1>1 DEF ReplaceDatabaseName, Dsn
<1>3. SupportedDsns => r.db = n
  BY <1>1 DEF ReplaceDatabaseName, Dsn, SupportedDsns, SchemesOf, DialectFromDSN
<1>4. ToMariaDBDSN(r).db = r.db
  BY <1>2 DEF ToMariaDBDSN, Dsn
<1>5. PoolDsn(d, n).db = r.db
  BY <1>4 DEF PoolDsn
<1>6. d.db \in Databases
  BY <1>1 DEF Dsn
<1> QED BY <1>2, <1>3, <1>5, <1>6

(* One more pool leaves the others as they are. *)
LEMMA AppendFacts ==
  ASSUME NEW S, NEW s \in Seq(S), NEW e \in S
  PROVE  /\ Append(s, e) \in Seq(S)
         /\ Len(Append(s, e)) = Len(s) + 1 /\ Len(s) \in Nat
         /\ \A i \in 1..Len(s) : Append(s, e)[i] = s[i]
         /\ Append(s, e)[Len(s) + 1] = e
OBVIOUS

-----------------------------------------------------------------------------
(* Types. *)

LEMMA TypesInit == ASSUME Databases # {} PROVE Init => Types
<1> SUFFICES ASSUME Init PROVE Types
  OBVIOUS
<1>1. (CHOOSE n \in Databases : TRUE) \in Databases
  OBVIOUS
<1>2. arg \in [Callers -> Databases]
  BY <1>1 DEF Init
<1>3. pools \in Seq(Databases) /\ Len(pools) = 0 /\ DOMAIN dbPools = {}
  BY DEF Init
<1>4. opened \in [Callers -> 0..Len(pools)] /\ result \in [Callers -> 0..Len(pools)]
  BY <1>3 DEF Init
<1>5. pc \in [Callers -> Labels] /\ Opened
  BY DEF Init, Labels, Outside, Opened
<1> QED BY <1>2, <1>3, <1>4, <1>5 DEF Init, Types, TypeOK

LEMMA TypesNext == Types /\ [Next]_vars => Types'
<1> SUFFICES ASSUME Types, [Next]_vars PROVE Types'
  OBVIOUS
<1> USE DEF Labels, Outside, Goto
<1>0. Len(pools) \in Nat /\ 1..Len(pools) \subseteq 0..Len(pools)
  <2>1. pools \in Seq(Databases)
    BY DEF Types, TypeOK
  <2>2. Len(pools) \in Nat
    BY ONLY <2>1
  <2> QED BY ONLY <2>2
<1>1. CASE UNCHANGED vars
  BY <1>1 DEF vars, Types, TypeOK, Opened
<1>2. ASSUME NEW c \in Callers, NEW n \in Databases, Call(c, n) PROVE Types'
  <2>1. /\ arg' = [arg EXCEPT ![c] = n] /\ result' = [result EXCEPT ![c] = 0]
        /\ pc' = [pc EXCEPT ![c] = "nil check"]
        /\ UNCHANGED <<serial, dsn, up, made, dbPools, pools, opened, crashed>>
    BY <1>2 DEF Call
  <2>2. 0 \in 0..Len(pools)
    BY ONLY <1>0
  <2>3. arg' \in [Callers -> Databases] /\ result' \in [Callers -> 0..Len(pools)]
    BY <2>1, <2>2 DEF Types, TypeOK
  <2>4. pc' \in [Callers -> Labels] /\ Opened'
    BY <2>1 DEF Types, TypeOK, Opened
  <2> QED BY <2>1, <2>3, <2>4 DEF Types, TypeOK
<1>3. ASSUME NEW c \in Callers, NilCheck(c) PROVE Types'
  BY <1>3 DEF NilCheck, Types, TypeOK, Opened
<1>4. ASSUME NEW c \in Callers, MakeMap(c) PROVE Types'
  <2>1. /\ made' = TRUE /\ dbPools' = <<>> /\ pc' = [pc EXCEPT ![c] = "lookup"]
        /\ UNCHANGED <<serial, dsn, up, pools, arg, opened, result, crashed>>
    BY <1>4 DEF MakeMap
  <2>2. DOMAIN dbPools' = {}
    BY <2>1
  <2>3. pc' \in [Callers -> Labels] /\ Opened'
    BY <2>1 DEF Types, TypeOK, Opened
  <2> QED BY <2>1, <2>2, <2>3 DEF Types, TypeOK
<1>5. ASSUME NEW c \in Callers, Lookup(c) PROVE Types'
  <2>1. UNCHANGED <<serial, dsn, up, made, dbPools, pools, arg, opened, crashed>>
    BY <1>5 DEF Lookup
  <2>2. CASE arg[c] \in DOMAIN dbPools
    <3> DEFINE p == dbPools[arg[c]]
    <3>0. p \in 1..Len(pools)
      BY <2>2 DEF Types, TypeOK
    <3>1. p \in 0..Len(pools) /\ p # 0
      BY ONLY <1>0, <3>0
    <3>2. pc' = [pc EXCEPT ![c] = "done"] /\ result' = [result EXCEPT ![c] = p]
      BY <1>5, <2>2 DEF Lookup
    <3> HIDE DEF p
    <3>3. result' \in [Callers -> 0..Len(pools)] /\ pc' \in [Callers -> Labels]
      BY <3>1, <3>2 DEF Types, TypeOK
    <3>4. Opened'
      BY <2>1, <3>1, <3>2 DEF Types, TypeOK, Opened
    <3> QED BY <2>1, <3>3, <3>4 DEF Types, TypeOK
  <2>3. CASE arg[c] \notin DOMAIN dbPools
    <3>1. pc' = [pc EXCEPT ![c] = "connect"] /\ UNCHANGED result
      BY <1>5, <2>3 DEF Lookup
    <3>2. pc' \in [Callers -> Labels] /\ Opened'
      BY <2>1, <3>1 DEF Types, TypeOK, Opened
    <3> QED BY <2>1, <3>1, <3>2 DEF Types, TypeOK
  <2> QED BY <2>2, <2>3
<1>6. ASSUME NEW c \in Callers, Connect(c) PROVE Types'
  <2> DEFINE name == PoolDsn(dsn, arg[c]).db
  <2>1. name \in Databases
    BY PoolDsnNames DEF Types, TypeOK
  <2>2. /\ pools' = Append(pools, name) /\ opened' = [opened EXCEPT ![c] = Len(pools')]
        /\ pc' = [pc EXCEPT ![c] = "store"]
        /\ UNCHANGED <<serial, dsn, up, made, dbPools, arg, result, crashed>>
    BY <1>6 DEF Connect
  <2> HIDE DEF name
  <2>3. pools \in Seq(Databases)
    BY DEF Types, TypeOK
  <2>4. /\ pools' \in Seq(Databases) /\ Len(pools') = Len(pools) + 1
        /\ Len(pools') \in 1..Len(pools')
    BY ONLY <1>0, <2>1, <2>2, <2>3, AppendFacts
  <2>5. /\ 1..Len(pools) \subseteq 1..Len(pools') /\ 0..Len(pools) \subseteq 0..Len(pools')
        /\ Len(pools') \in 0..Len(pools') /\ Len(pools') # 0
    BY ONLY <1>0, <2>4
  <2>6. \A m \in DOMAIN dbPools' : dbPools'[m] \in 1..Len(pools')
    BY <2>2, <2>5 DEF Types, TypeOK
  <2>7. opened' \in [Callers -> 0..Len(pools')] /\ result' \in [Callers -> 0..Len(pools')]
    BY <2>2, <2>5 DEF Types, TypeOK
  <2>8. pc' \in [Callers -> Labels] /\ Opened'
    BY <2>2, <2>5 DEF Types, TypeOK, Opened
  <2> QED BY <2>2, <2>4, <2>6, <2>7, <2>8 DEF Types, TypeOK
<1>7. ASSUME NEW c \in Callers, ConnectFails(c) PROVE Types'
  BY <1>7 DEF ConnectFails, Types, TypeOK, Opened
<1>8. ASSUME NEW c \in Callers, Store(c) PROVE Types'
  <2>1. opened[c] \in 0..Len(pools) /\ opened[c] # 0 /\ arg[c] \in Databases
    BY <1>8 DEF Store, Types, TypeOK, Opened
  <2>2. opened[c] \in 1..Len(pools)
    BY <1>0, <2>1
  <2>3. /\ pc' = [pc EXCEPT ![c] = "done"]
        /\ result' = [result EXCEPT ![c] = opened[c]]
        /\ dbPools' = Stored(arg[c], opened[c])
        /\ UNCHANGED <<serial, dsn, up, made, pools, arg, opened, crashed>>
    BY <1>8 DEF Store
  <2>4. /\ DOMAIN dbPools' = DOMAIN dbPools \cup {arg[c]}
        /\ \A m \in DOMAIN dbPools' : dbPools'[m] \in 1..Len(pools)
    BY <2>2, <2>3 DEF Stored, Types, TypeOK
  <2>5. result' \in [Callers -> 0..Len(pools)]
    BY <2>1, <2>3 DEF Types, TypeOK
  <2>6. pc' \in [Callers -> Labels] /\ Opened'
    BY <2>1, <2>3 DEF Types, TypeOK, Opened
  <2>7. DOMAIN dbPools' \subseteq Databases
    BY <2>1, <2>4 DEF Types, TypeOK
  <2> QED BY <2>3, <2>4, <2>5, <2>6, <2>7 DEF Types, TypeOK
<1>9. CASE Crash
  BY <1>9 DEF Crash, Types, TypeOK, Opened
<1>10. CASE Toggle
  BY <1>10 DEF Toggle, Types, TypeOK, Opened
<1> QED BY <1>1, <1>2, <1>3, <1>4, <1>5, <1>6, <1>7, <1>8, <1>9, <1>10 DEF Next

(* Every variable keeps its type: no call of DB leaves a nil pool in the   *)
(* map, however calls interleave.                                          *)
THEOREM TypeCorrect == ASSUME Databases # {} PROVE Spec => []TypeOK
<1>1. Init => Types
  BY TypesInit
<1>2. Types /\ [Next]_vars => Types'
  BY TypesNext
<1>3. Types => TypeOK
  BY DEF Types
<1> QED BY <1>1, <1>2, <1>3, PTL DEF Spec

-----------------------------------------------------------------------------
(* Right databases. *)

LEMMA RightInit == Init => Right
BY DEF Init, Right

LEMMA RightNext ==
  ASSUME SupportedDsns, Types, Right, [Next]_vars
  PROVE  Right'
<1> USE DEF Types, TypeOK, Opened, Right, Goto
<1>1. CASE UNCHANGED vars
  BY <1>1 DEF vars
<1>2. ASSUME NEW c \in Callers, NEW n \in Databases, Call(c, n) PROVE Right'
  BY <1>2 DEF Call, Outside
<1>3. ASSUME NEW c \in Callers, NilCheck(c) PROVE Right'
  BY <1>3 DEF NilCheck
<1>4. ASSUME NEW c \in Callers, MakeMap(c) PROVE Right'
  BY <1>4 DEF MakeMap
<1>5. ASSUME NEW c \in Callers, Lookup(c) PROVE Right'
  <2>1. UNCHANGED <<dbPools, pools, arg, opened>>
    BY <1>5 DEF Lookup
  <2>2. \A d \in Callers : pc'[d] = "store" => pc[d] = "store"
    BY <1>5 DEF Lookup
  <2>3. CASE arg[c] \in DOMAIN dbPools
    <3>1. /\ pc' = [pc EXCEPT ![c] = "done"]
          /\ result' = [result EXCEPT ![c] = dbPools[arg[c]]]
      BY <1>5, <2>3 DEF Lookup
    <3>2. dbPools[arg[c]] # 0 /\ pools[dbPools[arg[c]]] = arg[c]
      BY <2>3
    <3> QED BY <2>1, <2>2, <3>1, <3>2
  <2>4. CASE arg[c] \notin DOMAIN dbPools
    <3>1. pc' = [pc EXCEPT ![c] = "connect"] /\ UNCHANGED result
      BY <1>5, <2>4 DEF Lookup
    <3> QED BY <2>1, <2>2, <3>1
  <2> QED BY <2>3, <2>4
<1>6. ASSUME NEW c \in Callers, Connect(c) PROVE Right'
  <2> DEFINE name == PoolDsn(dsn, arg[c]).db
  <2>1. name \in Databases /\ name = arg[c]
    BY PoolDsnNames
  <2>2. /\ pools' = Append(pools, name) /\ opened' = [opened EXCEPT ![c] = Len(pools')]
        /\ pc' = [pc EXCEPT ![c] = "store"]
        /\ UNCHANGED <<dbPools, arg, result>>
    BY <1>6 DEF Connect
  <2> HIDE DEF name
  <2>3. /\ Len(pools') = Len(pools) + 1 /\ Len(pools) \in Nat
        /\ \A p \in 1..Len(pools) : pools'[p] = pools[p]
        /\ pools'[Len(pools')] = arg[c]
    BY <2>1, <2>2, AppendFacts
  <2>4. \A n \in DOMAIN dbPools' : pools'[dbPools'[n]] = n
    BY <2>2, <2>3
  <2>5. \A d \in Callers : pc'[d] = "store" => pools'[opened'[d]] = arg'[d]
    BY <2>2, <2>3
  <2>6. \A d \in Callers : pc'[d] = "done" => result'[d] # 0 /\ pools'[result'[d]] = arg'[d]
    BY <2>2, <2>3
  <2> QED BY <2>4, <2>5, <2>6
<1>7. ASSUME NEW c \in Callers, ConnectFails(c) PROVE Right'
  BY <1>7 DEF ConnectFails
<1>8. ASSUME NEW c \in Callers, Store(c) PROVE Right'
  <2>1. /\ pc[c] = "store" /\ opened[c] # 0 /\ pools[opened[c]] = arg[c]
        /\ pools' = pools /\ arg' = arg /\ opened' = opened
        /\ pc' = [pc EXCEPT ![c] = "done"] /\ result' = [result EXCEPT ![c] = opened[c]]
    BY <1>8 DEF Store
  <2>2. \A n \in DOMAIN dbPools' : pools'[dbPools'[n]] = n
    BY <1>8, <2>1 DEF Store, Stored
  <2> QED BY <2>1, <2>2
<1>9. CASE Crash
  BY <1>9 DEF Crash
<1>10. CASE Toggle
  BY <1>10 DEF Toggle
<1> QED BY <1>1, <1>2, <1>3, <1>4, <1>5, <1>6, <1>7, <1>8, <1>9, <1>10 DEF Next

(* A call that returns a pool returns one of the database it asked for,    *)
(* for any number of callers, databases and supported DSNs.                *)
THEOREM PoolsOfTheRightDatabase ==
  ASSUME Databases # {}, SupportedDsns
  PROVE  Spec => []RightDatabase
<1>1. Init => Types /\ Right
  BY TypesInit, RightInit
<1>2. (Types /\ Right) /\ [Next]_vars => (Types /\ Right)'
  BY TypesNext, RightNext
<1>3. Right => RightDatabase
  BY DEF Right, RightDatabase
<1> QED BY <1>1, <1>2, <1>3, PTL DEF Spec

-----------------------------------------------------------------------------
(* One pool for each database. *)

Inside(c) == pc[c] \in {"nil check", "make", "lookup", "connect", "store"}

(* With one caller inside DB at a time, the map is made once, and a pool   *)
(* that is opened is for a name, and is itself, not in the map.            *)
Single ==
  /\ \A c, d \in Callers : Inside(c) /\ Inside(d) => c = d
  /\ \A c \in Callers :
       /\ pc[c] = "make" => ~made
       /\ pc[c] \in {"lookup", "connect", "store"} => made
       /\ pc[c] \in {"connect", "store"} => arg[c] \notin DOMAIN dbPools
       /\ pc[c] = "store" => \A n \in DOMAIN dbPools : dbPools[n] # opened[c]
  /\ ~made => dbPools = <<>>

SerialSingle == serial => Single

LEMMA SingleInit == Init => SerialSingle
BY DEF Init, SerialSingle, Single, Inside

LEMMA SerialFixed == [Next]_vars => UNCHANGED serial
BY DEF Next, vars, Call, NilCheck, MakeMap, Lookup, Connect, ConnectFails, Store,
       Crash, Toggle

LEMMA SingleNext ==
  ASSUME Types, SerialSingle, [Next]_vars
  PROVE  SerialSingle'
<1> SUFFICES ASSUME serial' PROVE Single'
  BY DEF SerialSingle
<1>0. Single
  BY SerialFixed DEF SerialSingle
<1> USE DEF Goto, Inside
<1>a. pc \in [Callers -> Labels] /\ arg \in [Callers -> Databases]
  BY DEF Types, TypeOK
<1>1. CASE UNCHANGED vars
  BY <1>0, <1>1 DEF vars, Single
<1>2. ASSUME NEW c \in Callers, NEW n \in Databases, Call(c, n) PROVE Single'
  <2>1. /\ \A d \in Callers : pc[d] \in Outside
        /\ pc' = [pc EXCEPT ![c] = "nil check"]
        /\ UNCHANGED <<made, dbPools, pools, opened>>
    BY <1>0, <1>2, SerialFixed DEF Call
  <2>2. \A d \in Callers : pc[d] # "store" /\ pc'[d] \in Outside \cup {"nil check"}
    BY <1>a, <2>1 DEF Outside
  <2>3. \A d \in Callers : Inside(d)' => d = c
    BY <1>a, <2>1 DEF Outside
  <2> QED BY <1>0, <2>1, <2>2, <2>3 DEF Single, Outside
<1>3. ASSUME NEW c \in Callers, NilCheck(c) PROVE Single'
  BY <1>0, <1>a, <1>3 DEF NilCheck, Single
<1>4. ASSUME NEW c \in Callers, MakeMap(c) PROVE Single'
  <2>1. /\ pc[c] = "make" /\ pc' = [pc EXCEPT ![c] = "lookup"]
        /\ made' = TRUE /\ dbPools' = <<>> /\ UNCHANGED <<pools, arg, opened>>
    BY <1>4 DEF MakeMap
  <2>2. DOMAIN dbPools' = {}
    BY <2>1
  <2> QED BY <1>0, <1>a, <2>1, <2>2 DEF Single
<1>5. ASSUME NEW c \in Callers, Lookup(c) PROVE Single'
  BY <1>0, <1>a, <1>5 DEF Lookup, Single
<1>6. ASSUME NEW c \in Callers, Connect(c) PROVE Single'
  <2> DEFINE name == PoolDsn(dsn, arg[c]).db
  <2>1. name \in Databases
    BY PoolDsnNames DEF Types, TypeOK
  <2>2. /\ pc[c] = "connect" /\ pc' = [pc EXCEPT ![c] = "store"]
        /\ pools' = Append(pools, name) /\ opened' = [opened EXCEPT ![c] = Len(pools')]
        /\ UNCHANGED <<made, dbPools, arg>>
    BY <1>6 DEF Connect
  <2> HIDE DEF name
  <2>3. Len(pools') = Len(pools) + 1 /\ Len(pools) \in Nat
    BY <2>1, <2>2, AppendFacts DEF Types, TypeOK
  <2>4. Len(pools') \notin 1..Len(pools)
    BY ONLY <2>3
  <2>5. \A n \in DOMAIN dbPools : dbPools[n] # Len(pools')
    BY <2>4 DEF Types, TypeOK
  <2>6. \A d \in Callers : d # c => pc[d] # "store"
    BY <1>0, <2>2 DEF Single
  <2>7. opened'[c] = Len(pools')
    BY <2>2 DEF Types, TypeOK
  <2>8. \A d \in Callers : pc'[d] = "store" => \A n \in DOMAIN dbPools' : dbPools'[n] # opened'[d]
    BY <1>a, <2>2, <2>5, <2>6, <2>7
  <2> QED BY <1>0, <1>a, <2>2, <2>8 DEF Single
<1>7. ASSUME NEW c \in Callers, ConnectFails(c) PROVE Single'
  BY <1>0, <1>a, <1>7 DEF ConnectFails, Single
<1>8. ASSUME NEW c \in Callers, Store(c) PROVE Single'
  <2>1. /\ pc[c] = "store" /\ pc' = [pc EXCEPT ![c] = "done"]
        /\ UNCHANGED <<made, pools, arg, opened>>
    BY <1>8 DEF Store
  <2>2. \A d \in Callers : ~Inside(d)'
    BY <1>0, <1>a, <2>1 DEF Single
  <2>3. made
    BY <1>0, <2>1 DEF Single
  <2> QED BY <2>1, <2>2, <2>3 DEF Single
<1>9. CASE Crash
  BY <1>0, <1>9 DEF Crash, Single
<1>10. CASE Toggle
  BY <1>0, <1>10 DEF Toggle, Single
<1> QED BY <1>1, <1>2, <1>3, <1>4, <1>5, <1>6, <1>7, <1>8, <1>9, <1>10 DEF Next

(* Moreover, a pool is in the map or about to be stored there. *)
Kept ==
  /\ ~made => Len(pools) = 0
  /\ \A p \in 1..Len(pools) :
       \/ pools[p] \in DOMAIN dbPools /\ dbPools[pools[p]] = p
       \/ \E c \in Callers : pc[c] = "store" /\ opened[c] = p

Once == Single /\ Kept

SerialOnce == serial => Once

LEMMA OnceInit == Init => SerialOnce
BY DEF Init, SerialOnce, Once, Single, Kept, Inside

LEMMA OnceNext ==
  ASSUME SupportedDsns, Types, Right, SerialOnce, [Next]_vars
  PROVE  SerialOnce'
<1> SUFFICES ASSUME serial' PROVE Once'
  BY DEF SerialOnce
<1>0. Single /\ Kept
  BY SerialFixed DEF SerialOnce, Once
<1>s. Single'
  BY <1>0, SingleNext DEF SerialSingle
<1> SUFFICES Kept'
  BY <1>s DEF Once
<1> USE DEF Goto, Inside
<1>a. pc \in [Callers -> Labels] /\ arg \in [Callers -> Databases]
  BY DEF Types, TypeOK
<1>1. CASE UNCHANGED vars
  BY <1>0, <1>1 DEF vars, Kept
<1>2. ASSUME NEW c \in Callers, NEW n \in Databases, Call(c, n) PROVE Kept'
  <2>1. /\ \A d \in Callers : pc[d] \in Outside
        /\ UNCHANGED <<made, dbPools, pools, opened>>
    BY <1>2, SerialFixed DEF Call
  <2>2. \A d \in Callers : pc[d] # "store"
    BY <2>1 DEF Outside
  <2> QED BY <1>0, <2>1, <2>2 DEF Kept
<1>3. ASSUME NEW c \in Callers, NilCheck(c) PROVE Kept'
  BY <1>0, <1>a, <1>3 DEF NilCheck, Kept
<1>4. ASSUME NEW c \in Callers, MakeMap(c) PROVE Kept'
  <2>1. pc[c] = "make" /\ made' = TRUE /\ UNCHANGED pools
    BY <1>4 DEF MakeMap
  <2>2. Len(pools) = 0
    BY <1>0, <2>1 DEF Single, Kept
  <2>3. 1..Len(pools') = {}
    BY <2>1, <2>2
  <2> QED BY <2>1, <2>3 DEF Kept
<1>5. ASSUME NEW c \in Callers, Lookup(c) PROVE Kept'
  BY <1>0, <1>a, <1>5 DEF Lookup, Kept
<1>6. ASSUME NEW c \in Callers, Connect(c) PROVE Kept'
  <2> DEFINE name == PoolDsn(dsn, arg[c]).db
  <2>1. name \in Databases
    BY PoolDsnNames DEF Types, TypeOK
  <2>2. /\ pc[c] = "connect" /\ pc' = [pc EXCEPT ![c] = "store"]
        /\ pools' = Append(pools, name) /\ opened' = [opened EXCEPT ![c] = Len(pools')]
        /\ UNCHANGED <<made, dbPools, arg>>
    BY <1>6 DEF Connect
  <2> HIDE DEF name
  <2>3. /\ Len(pools') = Len(pools) + 1 /\ Len(pools) \in Nat
        /\ \A p \in 1..Len(pools) : pools'[p] = pools[p]
    BY <2>1, <2>2, AppendFacts DEF Types, TypeOK
  <2>4. \A d \in Callers : pc[d] # "store"
    BY <1>0, <2>2 DEF Single
  <2>5. \A p \in 1..Len(pools) : pools[p] \in DOMAIN dbPools /\ dbPools[pools[p]] = p
    BY <1>0, <2>4 DEF Kept
  <2>6. \A p \in 1..Len(pools') : p \in 1..Len(pools) \/ p = Len(pools')
    BY ONLY <2>3
  <2>7. opened \in [Callers -> 0..Len(pools)]
    BY DEF Types, TypeOK
  <2>8. pc'[c] = "store" /\ opened'[c] = Len(pools')
    BY <1>a, <2>2, <2>7
  <2>9. \A p \in 1..Len(pools') :
          \/ pools'[p] \in DOMAIN dbPools' /\ dbPools'[pools'[p]] = p
          \/ \E d \in Callers : pc'[d] = "store" /\ opened'[d] = p
    BY <2>2, <2>3, <2>5, <2>6, <2>8
  <2>10. made
    BY <1>0, <2>2 DEF Single
  <2> QED BY <2>2, <2>9, <2>10 DEF Kept
<1>7. ASSUME NEW c \in Callers, ConnectFails(c) PROVE Kept'
  BY <1>0, <1>a, <1>7 DEF ConnectFails, Kept
<1>8. ASSUME NEW c \in Callers, Store(c) PROVE Kept'
  <2>1. /\ pc[c] = "store" /\ pc' = [pc EXCEPT ![c] = "done"]
        /\ dbPools' = Stored(arg[c], opened[c])
        /\ UNCHANGED <<made, pools, arg, opened>>
    BY <1>8 DEF Store
  <2>2. pools[opened[c]] = arg[c] /\ arg[c] \notin DOMAIN dbPools /\ made
    BY <1>0, <2>1 DEF Right, Single
  <2>3. \A n \in DOMAIN dbPools : n \in DOMAIN dbPools' /\ dbPools'[n] = dbPools[n]
    BY <2>1, <2>2 DEF Stored
  <2>4. arg[c] \in DOMAIN dbPools' /\ dbPools'[arg[c]] = opened[c]
    BY <2>1 DEF Stored
  <2>5. \A d \in Callers : d # c => ~Inside(d)
    BY <1>0, <2>1 DEF Single
  <2>6. \A p \in 1..Len(pools') : pools'[p] \in DOMAIN dbPools' /\ dbPools'[pools'[p]] = p
    BY <1>0, <2>1, <2>2, <2>3, <2>4, <2>5 DEF Kept
  <2> QED BY <2>1, <2>2, <2>6 DEF Kept
<1>9. CASE Crash
  BY <1>0, <1>9 DEF Crash, Kept
<1>10. CASE Toggle
  BY <1>0, <1>10 DEF Toggle, Kept
<1> QED BY <1>1, <1>2, <1>3, <1>4, <1>5, <1>6, <1>7, <1>8, <1>9, <1>10 DEF Next

LEMMA OnceGivesOne == Types /\ Right /\ SerialOnce => OnePoolEach
<1> SUFFICES ASSUME Types, Right, Once,
                    NEW p \in 1..Len(pools), NEW q \in 1..Len(pools), pools[p] = pools[q]
             PROVE  p = q
  BY DEF SerialOnce, OnePoolEach
<1>1. \A r \in 1..Len(pools) :
        \/ dbPools[pools[r]] = r /\ pools[r] \in DOMAIN dbPools
        \/ \E c \in Callers : /\ pc[c] = "store" /\ opened[c] = r
                             /\ pools[r] \notin DOMAIN dbPools
  BY DEF Once, Single, Kept, Right
<1>2. CASE dbPools[pools[p]] = p /\ dbPools[pools[q]] = q
  BY <1>2
<1>3. CASE \E c \in Callers : pc[c] = "store" /\ opened[c] = p /\ pools[p] \notin DOMAIN dbPools
  <2>1. PICK c \in Callers : pc[c] = "store" /\ opened[c] = p
    BY <1>3
  <2>2. PICK d \in Callers : pc[d] = "store" /\ opened[d] = q
    BY <1>1, <1>3
  <2>3. c = d
    BY <2>1, <2>2 DEF Once, Single, Inside
  <2> QED BY ONLY <2>1, <2>2, <2>3
<1> QED BY <1>1, <1>2, <1>3

(* Calls that follow one another open one pool for each database, for any  *)
(* number of them and any supported DSN.                                   *)
THEOREM OnePoolPerDatabase ==
  ASSUME Databases # {}, SupportedDsns
  PROVE  Spec => []OnePoolEach
<1> DEFINE Inv == Types /\ Right /\ SerialOnce
<1>1. Init => Inv
  BY TypesInit, RightInit, OnceInit
<1>2. Inv /\ [Next]_vars => Inv'
  BY TypesNext, RightNext, OnceNext
<1>3. Inv => OnePoolEach
  BY OnceGivesOne
<1> QED BY <1>1, <1>2, <1>3, PTL DEF Spec

-----------------------------------------------------------------------------
(* Errors. *)

(* With a supported DSN the driver understands what it gets. *)
LEMMA DriverUnderstands ==
  ASSUME SupportedDsns, NEW d \in Dsns, NEW n \in Databases
  PROVE  Understood(DialectFromDSN(d), PoolDsn(d, n))
<1> DEFINE r == ReplaceDatabaseName(DialectFromDSN(d), d, n)
<1>1. d \in Dsn /\ d.form = "url" /\ d.scheme \in {"postgres", "postgresql", "mysql", "mariadb"}
  BY DBPoolAssumption DEF SupportedDsns
<1>2. r \in Dsn /\ r.form = "url" /\ r.scheme = d.scheme
  BY <1>1 DEF ReplaceDatabaseName, Dsn
<1>3. CASE DialectFromDSN(d) = "mariadb"
  <2>1. PoolDsn(d, n).form = "driver"
    BY <1>2, <1>3 DEF PoolDsn, ToMariaDBDSN, Dsn
  <2> QED BY <2>1 DEF Understood
<1>4. CASE DialectFromDSN(d) = "postgres"
  <2>1. PoolDsn(d, n) = r
    BY <1>4 DEF PoolDsn
  <2>2. d.scheme \in SchemesOf("postgres")
    BY <1>1, <1>4 DEF DialectFromDSN, SchemesOf
  <2> QED BY <1>2, <1>4, <2>1, <2>2 DEF Understood
<1> QED BY <1>3, <1>4 DEF DialectFromDSN

LEMMA FailsForACause ==
  ASSUME SupportedDsns, Types, [Next]_vars, NEW c \in Callers,
         pc[c] # "failed", pc'[c] = "failed"
  PROVE  ~up \/ arg[c] \notin Existing
<1>1. pc \in [Callers -> Labels] /\ dsn \in Dsns /\ arg[c] \in Databases
  BY DEF Types, TypeOK
<1>2. ConnectFails(c)
  BY <1>1 DEF Next, vars, Goto, Call, NilCheck, MakeMap, Lookup, Connect, ConnectFails, Store,
              Crash, Toggle
<1>3. ~Reachable(PoolDsn(dsn, arg[c]))
  BY <1>2 DEF ConnectFails
<1>4. SupportedDsns => PoolDsn(dsn, arg[c]).db = arg[c]
  BY <1>1, PoolDsnNames
<1>5. Understood(DialectFromDSN(dsn), PoolDsn(dsn, arg[c]))
  BY <1>1, DriverUnderstands
<1> QED BY <1>3, <1>4, <1>5 DEF Reachable

(* A call of DB fails only while the server or the database is out of      *)
(* reach, for any number of callers and supported DSNs: no failure is      *)
(* remembered.                                                             *)
THEOREM FailuresAreCurrent ==
  ASSUME Databases # {}, SupportedDsns
  PROVE  Spec => ErrorsAreCurrent
<1> DEFINE Caused ==
      \A c \in Callers :
        pc[c] # "failed" /\ pc'[c] = "failed" => ~up \/ arg[c] \notin Existing
<1>1. Init => Types
  BY TypesInit
<1>2. Types /\ [Next]_vars => Types' /\ [Caused]_vars
  BY TypesNext, FailsForACause
<1>3. Spec => [][Caused]_vars
  BY <1>1, <1>2, PTL DEF Spec
<1> QED BY <1>3 DEF ErrorsAreCurrent

-----------------------------------------------------------------------------
(***************************************************************************)
(* Calls that follow one another use the pools as PoolCache says: the map  *)
(* only grows, and what a call returns is in it.  The mapping shows no map *)
(* and no answers when calls overlap, where PoolCache promises nothing.    *)
(***************************************************************************)
CacheStep == [Cache!Next]_(Cache!vars)

LEMMA CacheInit == Init => Cache!Init
BY DEF Init, Cache!Init

(* Calls side by side: nothing that PoolCache sees. *)
LEMMA ConcurrentIsUnseen == ~serial /\ UNCHANGED serial => CacheStep
BY DEF CacheStep, Cache!vars

LEMMA Unseen == UNCHANGED <<serial, dbPools, result>> => CacheStep
BY DEF CacheStep, Cache!vars

LEMMA CacheSteps == Types /\ SerialSingle /\ [Next]_vars => CacheStep
<1> SUFFICES ASSUME Types, Single, serial, serial', [Next]_vars PROVE CacheStep
  BY SerialFixed, ConcurrentIsUnseen DEF SerialSingle, Types, TypeOK
<1> USE DEF Goto
<1>a. result \in [Callers -> 0..Len(pools)] /\ arg \in [Callers -> Databases]
  BY DEF Types, TypeOK
<1>1. CASE UNCHANGED vars
  BY <1>1, Unseen DEF vars
<1>2. ASSUME NEW c \in Callers, NEW n \in Databases, Call(c, n) PROVE CacheStep
  <2>1. Cache!Ask(c)
    BY <1>2 DEF Call, Cache!Ask
  <2> QED BY <2>1 DEF CacheStep, Cache!Next
<1>3. ASSUME NEW c \in Callers, NilCheck(c) \/ Connect(c) \/ ConnectFails(c) PROVE CacheStep
  BY <1>3, Unseen DEF NilCheck, Connect, ConnectFails
<1>4. ASSUME NEW c \in Callers, MakeMap(c) PROVE CacheStep
  <2>1. pc[c] = "make" /\ dbPools' = <<>> /\ result' = result
    BY <1>4 DEF MakeMap
  <2>2. dbPools = <<>>
    BY <2>1 DEF Single
  <2> QED BY <2>1, <2>2, Unseen
<1>5. ASSUME NEW c \in Callers, Lookup(c) PROVE CacheStep
  <2>1. CASE arg[c] \in DOMAIN dbPools
    <3>1. Cache!Hit(c, arg[c])
      BY <1>5, <2>1 DEF Lookup, Cache!Hit
    <3> QED BY <1>a, <3>1 DEF CacheStep, Cache!Next
  <2>2. CASE arg[c] \notin DOMAIN dbPools
    <3>1. UNCHANGED <<dbPools, result>>
      BY <1>5, <2>2 DEF Lookup
    <3> QED BY <3>1, Unseen
  <2> QED BY <2>1, <2>2
<1>6. ASSUME NEW c \in Callers, Store(c) PROVE CacheStep
  <2>1. /\ pc[c] = "store"
        /\ dbPools' = Stored(arg[c], opened[c])
        /\ result' = [result EXCEPT ![c] = opened[c]]
    BY <1>6 DEF Store
  <2>2. arg[c] \notin DOMAIN dbPools /\ opened[c] # 0 /\ result'[c] = opened[c]
    BY <1>a, <2>1 DEF Single, Types, Opened
  <2>3. \A n \in DOMAIN dbPools : dbPools[n] # opened[c]
    BY <2>1 DEF Single
  <2>4. opened[c] \notin Cache!Used
    BY <2>3 DEF Cache!Used
  <2>5. Cache!Open(c, arg[c], opened[c])
    BY <2>1, <2>2, <2>4 DEF Cache!Open, Stored
  <2> QED BY <1>a, <2>2, <2>5 DEF CacheStep, Cache!Next
<1>7. CASE Crash \/ Toggle
  BY <1>7, Unseen DEF Crash, Toggle
<1> QED BY <1>1, <1>2, <1>3, <1>4, <1>5, <1>6, <1>7 DEF Next

(* Calls of DB that follow one another see the pools as PoolCache says: a  *)
(* pool, once fixed for a database, is what every later call for it gets,  *)
(* and a call that fails leaves no trace, whatever the DSN.                *)
THEOREM PoolsImplementCache ==
  ASSUME Databases # {}
  PROVE  Spec => ImplementsCache
<1>1. Init => Types /\ SerialSingle
  BY TypesInit, SingleInit
<1>2. (Types /\ SerialSingle) /\ [Next]_vars => (Types /\ SerialSingle)'
  BY TypesNext, SingleNext
<1>3. Types /\ SerialSingle /\ [Next]_vars => [Cache!Next]_(Cache!vars)
  BY CacheSteps DEF CacheStep
<1> QED
  BY <1>1, <1>2, <1>3, CacheInit, PTL DEF Spec, ImplementsCache, Cache!Spec
=============================================================================
