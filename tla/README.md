# Verification of mcp-postgres-server

TLA+ modules that model the server in `cmd/` and `pkg/handler/`, TLC runs that
check them on small instances, and TLAPS proofs of the main results for every
instance. `PROJECT.json` lists the runs, the mutants (plausible mistakes in a
modelled definition, each of which makes one property fail), the map from
definitions to source lines, the hazards, the findings and the theorems.

    tlc -workers 2 -config Transport.cfg MCTransport     # a run
    tlapm TransportProofs.tla                            # a proof

Paths below are relative to the repository's root.

## 1. The system

A client (an editor, an agent) starts the program and speaks JSON-RPC with it
over stdin and stdout. The program answers `tools/list` and `tools/call` with
the help of a PostgreSQL or MariaDB server.

    client --stdin--> readLoop --requests/responses/errors--> server.Run (mcp SDK)
       ^                 |                                          | one call
       |                 | respError                                v
       +-----stdout------+<------------- Send <-------- PostgresHandler.CallTool
                                                                    |
                                            DB(name) -> pool --> database server

| component | state | operations | module |
|---|---|---|---|
| framing (`cmd/stdiotransport.go`: `readLoop`, `extractNext`, `findValueEnd`) | the bytes read and not yet framed | read a chunk, cut off a value, give up on a value that is too long, end of input | `Framing`, `FrameReader` |
| transport (`cmd/stdiotransport.go`: `readLoop`, `handleValue`, `route`, `finish`, `Start`, `Stop`, `Send`) | the goroutine, the channels `requests`, `responses`, `errors`, `done`, `stopOnce`, stdout | deliver, reject, shut down from either side | `Transport` |
| pools (`pkg/handler/db.go`: `DB`; `dialect.go`) | `dbPools`, the DSN | look a pool up, open one | `DBPool` |
| tool calls (`postgres.go`, `params.go`, `tools.go`, the three `*_handlers.go`) | the prefix, the read-only flag, the dialect; nothing between calls | list, dispatch, check arguments, send statements | `ToolCalls` |
| results (`db.go`: `DoQuery`, `MapToCSV`) | the rows of one query | rows to maps to CSV records | `ResultText` |
| catalog (`list_tables`, `desc_table`, `inspect_handlers.go`) | none; the catalog of the database, which others change | seven tools of one or several queries each, and the lines made of their rows | `Catalog` |
| start-up (`cmd/main.go`) | flags and environment | read once | `Server` (DSN, dialect, read-only), `ToolCalls` (prefix) |
| the program as a whole | all of the above, the two pipes, the process | | `Server` |
| mcp SDK (`server`, `handler`, `protocol`) | not in this repository | | external |

How they interact: `readLoop` and the server meet on unbuffered channels;
`finish()` closes the channels from whichever side ends first; error replies of
`readLoop` and results of handlers go to the same stdout; handlers share the
unguarded map `dbPools`; a handler sends statements one after the other and
turns the rows into text.

What is hard here, and the properties that say it went well:

- *Framing.* A read may end anywhere: inside a string, after a backslash,
  between two brackets. Messages come back as written, in order
  (`FramesMessages`), the buffer is bounded (`TypeOK`), none waits for the
  bytes after it and nothing is dropped without an error (`LossIsReported`).
- *Shutdown.* `Stop`, end of input and read errors race with `readLoop`: a send
  on a closed channel panics and ends the process (`PanicNeedsStop`,
  `ParkedIsSafe`); neither side may wait for ever (`ShutdownCompletes`); no
  message is lost behind a malformed one (`NothingSkipped`), reordered
  (`InOrder`), answered twice (`OneReplyEach`) or stuck (`EventuallyDelivered`).
- *Pools.* Two calls of `DB` may overlap; a connect may fail and later succeed;
  URLs reach two drivers with different ideas of a DSN (`RightDatabase`,
  `ErrorsAreCurrent`, `OnePoolEach`, `ImplementsCache`).
- *Tool calls.* The list of tools, the dispatch and the read-only checks are
  kept apart (`ListedToolsWork`, `ReadOnlyRefuses`); a previewed write must not
  be executed whatever fails (`PreviewNeverExecutes`), an executed one only
  once (`WritesOnce`).
- *Results.* Rows pass through Go maps (`Faithful`) and a loop that ends on
  errors too (`PreviewIsWhole`, `ResultsAreWhole`).
- *Catalog.* A call may send several queries while other sessions create and
  drop objects (`ListsWhatIsThere`, `ErrorsHaveCauses`); objects share names
  across schemas, kinds and overloads (`ListedIsDescribed`, `TablesAsDefined`);
  lists are meant to be compared (`SortedByName`); bits are decoded by hand
  (`TriggersAsDefined`).
- *The whole.* A call may lose its connection or its process before or after
  its statement took effect (`ImplementsService`), calls share pools and one
  pipe (`EveryCallAnswered`), a read should see the writes before it
  (`InMessageOrder`).

## 2. The modules

Every module that models code has constants with a named `ASSUME`, one action
per operation, and no `RECURSIVE` operator (a scan is a recursive function), so
that it can be proved about. `MC...` modules only give values to constants.
Definitions marked "Mutant" are not part of a specification.

**`Transport`** - the transport at the level of whole messages. A message is
the record of what the code distinguishes about it (`Shape`: blank, fits the
buffer, valid JSON, decodes into the envelope, has a method, has a result, has
the typed form, has an id).

| variable | code |
|---|---|
| `seen` | the messages `readLoop` has carved; an index names a message |
| `rpc` | the place of the goroutine in `readLoop`, `handleValue`, `route` |
| `nclosed`, `finisher` | how far `finish()` is in closing `done`, `requests`, `responses`, `errors`, and who called it |
| `errs` | errors in the buffered channel `errors` |
| `srv`, `delivered`, `inflight` | the server: serving, inside `Stop`, or gone; what it received; what its handlers work on |
| `replies` | everything written to stdout |

A `select` is one step when a case is ready; otherwise the goroutine is parked
(`Park`) and whatever makes a case ready wakes it. A send on a closed channel
is an outcome the code can choose: when `done` and `requests` are both closed Go
picks either case (`SelectDone`, `SelectPanics`). The server is what the
`Transport` interface lets it be: it receives, runs at most `MaxHandlers` calls,
replies, and calls `Stop` at any moment, once.

**`RpcSession`** - the abstract specification of `Transport`: messages are
taken up one at a time and in order; each is served, rejected or ignored; one
is dropped only in a session that is closing; what is served is answered at
most once. The refinement mapping (`Stage`) computes the fate of a message from
the transport's channels and replies.

**`Framing`** - `extractNext` and its helpers as operators on sequences of
bytes (brackets, quote, backslash, white space, other): `FirstNonWS`,
`FindValueEnd` (a fold of `ScanByte`, the loop body), `LineEnd`, `ExtractNext`.

**`FrameReader`** - `readLoop`'s buffer: the client writes values, junk and
separators to the pipe, or dies half-way; `Read` takes any part of the pipe up
to `ReadSize`, `Carve` cuts off a value, `ReadEOF` ends. `json.Valid` is a
parameter (`Valid`). As in the code, the length is checked before the new bytes
are looked at.

**`MessageStream`** - the abstract specification of `FrameReader`: what the
client is owed is handled, one message at a time and in order. `FrameReader`
implements it up to the first overflow (`BeforeOverflow`): what outgrows the
buffer may take parts of other messages with it.

**`DBPool`** - `DB(name)`, one action per step that another caller can come
between: the nil check, making the map, the look-up, connecting, storing.
Whether calls overlap is decided by the SDK, so `serial` is a variable that
starts as either value and never changes. A DSN is its
form (a URL, or only the driver understands it), its scheme and its database;
`ReplaceDatabaseName`, `ToMariaDBDSN` and `DialectFromDSN` work on those. The
map accesses that overlap may end the process (`Crash`), as the Go runtime's
check does.

**`PoolCache`** - the abstract specification of `DBPool` for callers that
follow one another: the first success fixes a pool for good, a failure leaves
no trace. For overlapping callers the mapping is constant: they may lose pools,
and nothing is claimed of them but `RightDatabase` and `ErrorsAreCurrent`.

**`ToolCalls`** - `CallTool` and the sixteen handlers. A tool name is a
sequence of words, so that a prefix can clash with a name; an argument is what
the parsers and the checks after them tell apart (`NameParam` for a name or
signature, `QueryParam` for a statement, by what it does). A call becomes the list of statements its handler sends
(`todo`), each `how` (Exec, Queryx, EXPLAIN, EXPLAIN ANALYZE, the SHOW of
`list_sequences`) and `sql` (reads, writes, refused). A statement completes,
fails, or breaks off after a part of its result, with or without having taken
effect; `whole` records that no part was taken for a whole. Other sessions
change the table meanwhile. A `query` is one statement, and a statement that is
sent once reaches the database at most once; see 5 for what that leaves out.

**`ResultText`** - `DoQuery`'s loop and `MapToCSV`'s loop, over columns that
may repeat names and cells that may be nil. A record is the sequence of its
fields; quoting is `encoding/csv`'s.

**`Catalog`** - the tools that read the catalog. The database holds objects of
five kinds (tables, routines, triggers, event triggers, sequences), as records
of what the queries tell apart; names and signatures are numbers. A query is
the rows it selects (`TableRows`, `FunctionRows`, `TriggerRows`,
`SequenceRows`), in any order that its ORDER BY allows (`Ordered`); a line of
the answer is the objects it was made from and what it shows of them. `status`
is the query that comes next: `list_triggers` sends a second one on Postgres,
`list_sequences` one per sequence on MariaDB. `Create` and `Drop` are other
sessions in the middle of a call; `stable` and `ever` record what was there
all the time and at some time. A database holds finitely many objects
(`Legal`). Of some names the constant `Lower` says that they have capitals, and
what they are in lower case: to `ToRegclass`, by which `desc_trigger` finds the
table on Postgres, both are one, to every other query they are two. What
PostgreSQL and MariaDB do is external: that folding, the bits of
`pg_trigger.tgtype`, which objects a dialect has, which names are unique. Three
statements fail on MariaDB whatever the connection does: `list_functions` (its
alias `schema` is a reserved word), `desc_function` (the name stands in
backquotes) and `SHOW CREATE TRIGGER` for a trigger that is not there.

**`Server`** - the composition. A session is that of `RpcSession`, which
`Transport` implements; the pools are `DBPool`'s, with messages for callers; a
call is the steps of its handler, each entry of `DB` followed by the statement,
as `ToolCalls` lists them for the read, the explained read and the write.
`log` is what the databases executed, in order. New here: stdout holds
`Capacity` lines, and both `readLoop`'s errors and the answers wait for room; a
statement may fail with or without having taken effect; the process ends by end of
input, `Stop` or the Go runtime's check of `dbPools`, with calls in progress.
`Configured` and `Init` are `main`: the flag before `PG_DSN` before `MARIADB_DSN`.
Responses of the client (`RpcSession`'s `Ignore`) are left to `Transport`.

**`Service`** - the abstract specification of `Server`, as a client sees it: a
write happens at most once, in the database it names, before its answer, and
never on a read-only server; it is reported as done only if it was. `effects`
gives each moment at which a write happened that write; `Server` maps to it the
places of its `log` that hold one (`Writes`). `PoolAssumption` is `DBPool`'s
assumption, stated again for the constants of `Server`.

## 3. The runs

| run | bounds | states | shows |
|---|---|---|---|
| `transport` | 3 messages of 10 shapes, 2 handlers | 246,056 | safety, `ImplementsSession` and both liveness properties |
| `framing` | 3 messages of 13, reads of 1 to 3 bytes, buffer of 14 bytes, one value of 15 | 2,382,230 | `TypeOK`, `LossIsReported`, `FramesMessages` |
| `pool` | 2 callers, 3 databases of which 2 exist, 4 URL schemes, 3 pools | 157,128 | `TypeOK`, `RightDatabase`, `OnePoolEach`, `ErrorsAreCurrent`, `ImplementsCache` |
| `tools` | 3 prefixes, 2 modes, 2 dialects, 35 argument records, 17 or 33 names, 2 rows | 107,472 | `TypeOK`, `ListedToolsWork`, `ReadOnlyRefuses`, `PreviewNeverExecutes`, `WritesOnce`, `PreviewIsWhole` |
| `result_faithful` | 4 column lists, 3 cells, 3 rows | 9,876 | `TypeOK`, `Faithful` |
| `catalog` | 25 objects of which up to 3 exist, 2 changes in a call, 23 calls, 2 dialects | 162,656 | `TypeOK`, `ListsWhatIsThere`, `SortedByName`, `ListedIsDescribed`, `ErrorsHaveCauses` |
| `server` | 2 messages of 4 kinds on 2 databases, 3 ways to start, 1 or 2 calls at a time, 1 line of stdout | 365,234 | `TypeOK`, `InMessageOrder`, `ImplementsService`, `EveryCallAnswered` |

Why the bounds are enough. Three messages let a malformed one stand between two
good ones and a session end at each of them; every branch of `readLoop`,
`handleValue` and `route` has a shape. The framing values have brackets and
escaped quotes inside strings, an escaped backslash before the closing quote,
white space and line breaks inside, nesting, and balanced, mismatched and stray
junk around; reads of up to three bytes cut all of them everywhere. Two callers
are enough for every race on one map, since the property relates one caller to
the map. `MaxRows`, `MaxSequences`, `MaxPools`, `MaxMessages`, `MaxWrites`
bound only how long a run goes on. Three objects let two share a name in any way
beside a third, and two changes replace one object by another between two
queries; of the three names of tables with triggers one has capitals and is
another of them in lower case. In `server` every property relates at most two messages, and the one
line of stdout is full whenever a call waits behind another answer; a third
message takes the run beyond what can be checked. `pool` does not check for
deadlock: its model stops when the process has crashed.

*Findings* - runs that show the code doing otherwise than the repository says:

| run | what |
|---|---|
| `framing_unclosed` | a line that opens a bracket and never closes it swallows the lines after it, though `main.go` says a malformed line "never breaks processing of the next line" |
| `tools_truncated` | `DoQuery` never looks at `rows.Err()`: a connection lost half-way gives a short result and no error |
| `result_duplicate` | of two result columns with one name both show the second's values |
| `catalog_triggers` | `list_triggers` on Postgres tests the wrong bits of `tgtype`: AFTER is listed as BEFORE and BEFORE as AFTER, INSERT as nothing, UPDATE as INSERT |
| `catalog_table` | `desc_table` on Postgres answers `<nil>` for a table without a primary key named `..._pkey`; the run has only base tables of the default schema, so no other table has its name |

Seen while modelling, and not the subject of a run of its own:

- A DSN in key=value form keeps its own database whatever a call names.
- With a prefix like `list_` the bare names that begin with it are not
  understood (`ListedToolsWork` is about listed names).
- NULL and the text NULL print alike.
- `readLoop` blocks in `route` while the server is busy, so "never blocks the
  read loop" in the comment of `handleValue` holds only for the parse error.
- A message no longer than `maxBuffer` is dropped when the read that completes
  it brings enough of the next one: the length is checked before the new bytes
  are looked at.
- On MariaDB the default of `schema` is the database and passes the check for
  SQL identifiers: on a database called `my-db` the tools that have the
  parameter work only with a schema (`Accepted` in `ToolCalls`).
- On Postgres `desc_table` also mixes tables of one name in two schemas
  (`DescTableLine`), for it joins by the name of the table alone
  (`query_handlers.go:123`): with the tables of other schemas in its instance,
  `TablesAsDefined` fails for two tables with a `..._pkey` key each.
- MariaDB: `list_functions` fails, for its alias `schema` is a reserved word
  (`inspect_handlers.go:107`), though `testing/test-list_functions.sh` expects a
  list; were it renamed, parameters would be joined by the routine's name alone,
  so that a function and a procedure of one name show each other's, and
  `returns` looks for a PARAMETER_MODE that information_schema does not use.
  `desc_function` compares with a name in backquotes, which is a column, and
  fails; `list_triggers` shows the triggers of all databases; `list_sequences`
  checks `schema` and then uses the database; `desc_trigger` ignores the table,
  falls back to the longest column, which may be sql_mode, and for a trigger
  that is not there passes on MariaDB's error (its own "not found" is for an
  answer without rows, which does not come).
- `desc_trigger` on Postgres finds the table with `to_regclass`
  (`inspect_handlers.go:515`), which reads the name in lower case and looks in
  the search path, while `list_triggers` shows and filters by the name as it is,
  in all schemas. The trigger of a table `"MyTable"` is listed and cannot be
  described; if `mytable` has one of the same name, that is described in its
  place, without a word. `ListedIsDescribed` excepts such tables
  (`TableTaken = call.table`) from what can be described, and says what is
  described then (`NamedIn(o, TableTaken)`).
- An overload without arguments cannot be picked, for an empty `args` is
  refused; one aggregate of the name makes `desc_function` fail for all of its
  overloads.

*Fairness*. In `Transport`, weak fairness of `readLoop`, of a ready
rendezvous, of the closing of the channels and of the server's receive loop:
the Go scheduler runs what can run, and a `select` with a ready case proceeds.
Nothing is assumed of the client, of the call of `Stop` or of the database:
the liveness properties have the premise `CallsReturn`, that the server is free
again and again, because no statement of this code has a timeout.
`ReadsResponses` is TRUE: a server that never drained `Responses()` would park
`readLoop` on the first response a client sends.

In `Server`, weak fairness of each handler, of the server's receive loop, of
`readLoop`'s rejections and of the client reading stdout. Here the premise is in the
model: a statement that was sent comes back, in whatever way (`Succeeds` or
`Breaks`); nothing is assumed of the database being up, of the end of input or
of the order in which handlers run.

## 4. The proofs

Each is about every value of the constants that the named `ASSUME` of its module
allows; TLC evaluates those on each run. Further hypotheses are in the theorems
themselves and named below. An invariant that a proof needs beyond the
properties was checked by TLC on a small instance before it was proved.

**`TransportProofs`** - `TypeCorrect`, `PanicsOnlyAfterStop`,
`ParkedNeverPanics`, `DeliveredInOrder`, `NoMessageSkipped`, `AnsweredOnce`,
`TransportImplementsSession`. The properties are not inductive on their own. The
invariant is built in layers, each proved with those below it: `Types`;
`Shutdown` (a parked `readLoop` means that nothing is closed, and a finish by
`readLoop` that it has left its loop: hence no panic without `Stop`); `Order`
(what was delivered lies before the message in hand); `Progress` (all messages
before the one in hand are settled); `Answers` (a message with a result was
delivered and is not in work any more, a rejected one was never delivered: hence
no second reply). The action property `ParkedIsSafe` follows from `done` being
the first channel closed. The refinement is shown action by action: each step
of the transport is one step of `RpcSession` under the mapping `Stage`, or
changes the stage of no message.

**`FramingProofs`** - where `ExtractNext` finds the end of a value. The scan is a
recursive function, so its existence comes first (`ScanExists`, an induction
over the bytes with a set in place of a predicate, `SetInduction`); two scans
over the same bytes go through the same states wherever in the buffer these
stand (`ScanAgrees`); hence `EndAgrees`, which everything about chunks rests on:
behind white space a value ends at the byte where it ends alone, and before that
byte is in the buffer no end is found. `ExtractFacts`: what is returned is a
contiguous part of the buffer, and the rest is exactly what follows it.

**`FrameReaderProofs`** - `BufferBounded`: the buffer never exceeds `MaxBuffer`
and the types hold, for any messages, any read size and any bound. For
`NothingIsLostSilently` (`LossIsReported`) and `ReaderImplementsStream`
(`FramesMessages`) it is assumed that the client writes messages (`WellFramed`):
each, standing alone, is one value to `ExtractNext` or longer than the buffer;
`Valid` holds of what is called a document and of no junk; what is written
between messages is white space, in which a vertical tab is followed by a
newline. The constants of the run `framing` satisfy it (checked with TLC); those
of `framing_unclosed` do not, which is that run's point. The invariant `Exact`
relates bytes to messages: as long as nothing overflowed, the log is what is
owed for the first messages, and the bytes in the buffer and the pipe together
consist of some white space and then, message for message, those not handled
yet, the last perhaps cut short (`Unread`). A read moves bytes from the pipe to
the buffer and changes nothing in that; what is carved is white space or exactly
the first of those messages (`CarvedIsNext`); and when all the bytes are in the
buffer and nothing can be carved, none is left but a truncated one
(`StuckIsDone`), which the end of input reports.

**`DBPoolProofs`** - five results about `DB`. Assumed in all of them: there is a
database; in those marked *, every DSN is a URL of a supported scheme
(`SupportedDsns`).

- `TypeCorrect`, and `PoolsOfTheRightDatabase`*: for any number of callers with
  nothing guarding the map, a call that returns a pool returns one of the
  database it named. The invariant `Right` adds the places a pool passes
  through: the map, and a caller about to store one.
- `OnePoolPerDatabase`*: while calls are serial no database gets a second pool.
  The invariant `SerialOnce` says that at most one caller is inside `DB`, that
  it opens a pool only for a name the map does not have, and that every pool
  opened so far is in the map or about to be stored there.
- `FailuresAreCurrent`*: a call fails only while the server or the database is
  out of reach (`FailsForACause`), for the driver understands the DSN of every
  pool (`DriverUnderstands`).
- `PoolsImplementCache`: for serial calls and whatever the DSN, `DBPool`
  implements `PoolCache`. `SerialSingle` says that while calls are serial one
  caller at most is inside `DB`, and that one about to store a pool has a name
  the map does not have; so a store never replaces a pool, and is the only step
  that fixes one.

**`ToolCallsProofs`** - `TypeCorrect`, `ReadOnlyServersOnlyRead`,
`WritesAreExecutedOnce`, `PlansAreNotExecuted`, `PlansAreWhole`: for every set of
prefixes and arguments, whatever statements do and other sessions change. None
is inductive: what a call may still do depends on the statements in front of it.
`Inv` says what those are for each kind of tool while a call is pending (`Plan`:
one statement for a write tool, which a read-only server never gets to; the
query and perhaps its analysis for `select_query`; only reads for the others),
what a call has done when it has its answer (`Done`), and that nothing is left
after it (`Fresh`). `EveryListedToolWorks` needs only `Named` (a name leads to
its tool) and `TrimPrepended`, that taking a prefix away undoes putting it there.
The proof of `TypeCorrect` found the type of an argument too wide: it admitted as
`query` what only a name can be, which the instances of the runs never
contained; `NameParam` and `QueryParam` tell the two apart.

**`ResultTextProofs`** - `TypeCorrect`, and `FaithfulResults`: if no column list
repeats a name (`DistinctHeaders`), every cell is in its place, for any rows.
The invariant says what the maps hold while reading (`Kept`) and what is written
so far (`Written`). `TypeCorrect` needs no such hypothesis: every record has as
many fields as the header has (`Begun`).

**`CatalogProofs`** - `TypeCorrect`, `ListsAreComplete`, `ListsAreSorted`,
`NamedIsDescribed`, `NoOtherErrors`: for any objects and calls, whatever other
sessions create and drop. `Types` says what the status of a call has to do with
its answer and the sequences still to be shown. For the lists the invariant is
`Listing`: the lines written so far followed by the sequences to come stand for
one sequence of objects that has everything there was all through the call,
nothing that never was, nothing twice, and each kind in order - of triggers
alone before the second query, of both kinds after it. A change in the middle
of the call keeps it, for it widens `ever` and narrows `stable` and no more.
`ListHandlers` and `DescHandlers` sum up what the handlers do, and `OrderedFacts`
and `SetToSeqFacts` what the community modules' sequences of a set hold.
`NamedIsDescribed` is established by the handler of a desc call (identities are
unique in a legal catalog, so what is named and what was found are the same
object) and kept since nothing changes after it; nothing is assumed of `Lower`
but that lower case has no capitals. `NoOtherErrors` follows each failing
statement to its cause (`Refused`): `Failing` joins the lost connection and the
statement MariaDB does not understand, `FunctionRefused` and `TriggerRefused`
treat the desc handlers.

**`ServerProofs`** - the whole program, for any requests, messages, calls side by
side and lines in the pipe. Assumed: there is a database; in
`ProgramImplementsService` also `SupportedDsns`. What `DBPoolProofs` proves is
used by `INSTANCE` with messages for callers (`SamePools` says that both
instances of `DBPool` are one).

- `TypeCorrect`.
- `StatementsInOrder`: when calls run one after the other, statements are
  executed in the order of their messages. `OneCall`: at most one call is in
  work, and what was executed is of messages no later than it.
- `ProgramImplementsService`: every step of the program is one of `Service`, or
  none. `Plan` says what is left of a handler, and that a write still to be sent
  was not executed; `Past`, that what was executed has left `readLoop`'s hand.
  That the database is the right one is `PoolsOfTheRightDatabase`.

Only model-checked: liveness (`EventuallyDelivered`, `ShutdownCompletes`,
`EveryCallAnswered`), which is beyond the prover. That JSON documents are
`WellFramed` - that brackets in strings and after backslashes do not count - is a
fact about each document, which TLC computes for those of the run: what the scan
makes of every document of the JSON grammar would be an induction over the
grammar.

## 5. Not modelled

- The SDK: its source is not in the repository. What it may do with the
  transport is external to `Transport`; whether calls overlap is a parameter of
  `DBPool`.
- The wording of the catalog tools' lines, and the columns that are copied into
  them as they are (owner, language, data types, enabled, sequence parameters).
- In `Catalog`, results that are cut short: `ToolCalls` has them.
- The decoding of JSON and the quoting of CSV: the standard library's.
- A `query` that is more than one statement. The handlers put it behind
  `EXPLAIN ` as it is, so `ANALYZE DELETE ...`, or on `lib/pq` a second statement
  behind a semicolon, is executed by what looks like a preview:
  `PreviewNeverExecutes` and `PlansAreNotExecuted` are about a single statement
  without a word of EXPLAIN in front.
- What SQL `select_query` is given: it runs whatever it gets, on a read-only
  server too (`project_context.md`, gotchas 3 and 4). `ReadOnlyRefuses` is about
  the write tools, and `Server` takes `select_query` for a read, so "never on a
  read-only server" in `Service` is about writes by the write tools.
- What `database/sql` does on `ErrBadConn`: it may send a statement again on
  another connection, when the driver says that the first did not take it.
  `ToolCalls` and `Server` take a statement as sent once; `WritesOnce` and
  `ImplementsService` say that this program does not repeat one.
- Pools are never closed; the models do not count connections.
- In `Catalog`, names longer than an identifier of the database may be, tables
  that hide another of their name in the search path before `public`, and names
  of triggers and tables on a MariaDB that does not tell capitals apart.
- A bare scalar that no newline follows: `extractNext` holds it until the line
  ends. The documents of the runs and theorems end where `ExtractNext` sees it.
- `SetDB`, which nothing calls; the query parameters that `toMariaDBDSN` drops.
- A statement that never returns: it blocks its call, for there is no timeout
  in the code; the liveness properties assume that it does return.
- `-version`, the log level, the server's name and all logging.
- The scripts under `testing/`.

## 6. Plan

Done, in the order of importance: `Transport` with `RpcSession`; `FrameReader`
with `MessageStream`; `DBPool` with `PoolCache`; `ToolCalls`; `ResultText`;
`Catalog`; `Server` with `Service`. Every safety property of a run that passes is a
theorem.

What remains is beyond the prover (liveness, see 4) or outside the code (see 5).
