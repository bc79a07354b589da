# rokishi-back: a TLA+ model

rokishi-back is the HTTP API of a 3D printing and cutting shop: machines with a
history of states, rates and materials, quotes, orders whose works are run on
machines, metrics, and user accounts. It is a Go program over PostgreSQL; but
for the failures of log in and the life of its own process it keeps no state in memory. Each request is a goroutine that runs a few
SQL statements, some in a transaction at READ COMMITTED, most by themselves.
What can go wrong is therefore what several requests do *between* their
statements, and that is what these modules model.

## The parts of the system

| Part | State it keeps | Operations | Where it is modelled |
|---|---|---|---|
| Production floor | `trabajos`, `intentos_trabajo`, `pedidos.estado` | assign a machine, start, finish with success or failure; read an order or a work | `Floor`, `FloorTx`, `OrderView`; what they promise in `Allocation` |
| Machine state history | `historial_estados_maquina` | change the state by hand; start and finish write it too; current state and history | `Floor`, `FloorTx`, `Metrics` |
| Catalogs, machines | `locaciones`, `tipos_maquina`, `maquinas` | POST, PATCH (a write of the whole row read before) | `Registry`; what production reads of a machine, in `Floor`, `FloorTx` |
| Quotes | `cotizaciones`, `conceptos_cotizacion` | calculate, create, change of status | `Quotes`, `QuotesTx`; the arithmetic of prices in `Money`, `QuoteDocument` |
| Quote document | none: a PDF per request | discount and tax, page layout | `Money`, `QuoteDocument` |
| Order entry | `pedidos`, `trabajos` | convert a quote, enter a direct order | `Quotes`, `QuotesTx` |
| Rates, materials, customers | `tarifas_*`, `materiales`, `clientes` | POST, PATCH; PUT and GET of a rate | `Registry`; what quotes and orders read of them, in `Quotes`, `QuotesTx` |
| Metrics | none | the report of a window of time | `Metrics` |
| Accounts and sessions | `usuarios`, `sesiones` | initial set-up, log in, authenticate, log out, create and update a user | `Accounts` |
| Log in limiter | a map behind a mutex | `Allow`, `Failure`, `Reset` | `LoginLimiter` |
| Audit trail | `auditoria` | one INSERT after the answer of a successful request; of a set-up or a log in (`recordAccess`), before it | `Server` |
| Server | listener, pool | serve, shutdown with a limit, close the pool | `Server` |
| Configuration, CORS, health, deployment | | | not modelled, see below |

How they interact. An accepted quote becomes an order, with a work for each
concept. A work is run on a machine: starting it closes the machine's open
period and opens one in TRABAJANDO that names the work, and opens an attempt;
finishing it closes both, opens a period in DISPONIBLE, sets the work to
COMPLETADO or back to PENDIENTE, and decides the status of the order. Operators
change states by hand on the same rows. Metrics read the history and the
attempts. Everything but log in and set-up goes through the session of an
account; the administration of accounts goes through an administrator's.

What each part has to keep right:

* floor and history: one open period a machine; a running work, its open attempt
  and that period agree; time is tiled; the past is not rewritten; an order is
  reported complete when, and only when, its works are; requests that wait for
  each other's row locks all end;
* quotes and orders: the status follows its table; an order stands on an
  accepted quote, once, with a work for each concept; totals are those of the
  stored concepts although rates change meanwhile; refusals tell the truth;
* metrics: what is reported adds up, over states, over windows and between the
  two tables it reads;
* quote document: a price is the exact one but for rounding, whatever is stored or printed adds up to
  the cent, and the pages read from top to bottom with nothing missing;
* accounts: set-up happens once; the last administrator is not lost but to a race of
  updates; a revoked account's sessions end;
* lists of the shop: what the service lets through fits the table; a PATCH changes
  the columns it names; a rate is put whole; refusals tell the truth;
* what is read in several statements (an order, its works, their attempts) does not
  claim at the top what is not so below;
* server and audit trail: a clean exit leaves no request without its answer and no
  change without its entry; an entry is never of what was not done; a shutdown ends once the database answers what nothing cancels, and
  requests do not starve each other of connections;
* limiter: guesses of a password are few, however many are sent at once.

The behaviours that are hard to test, each at its line and with the properties
that would catch it, are the `hazards` of `PROJECT.json`.

## Modules

Two levels. `Floor` and `Quotes` have one atomic action for each operation: what
the tables look like when operations commit one after the other. `FloorTx` and
`QuotesTx` extend them with the requests in service, statement by statement, and
are shown to implement them: `ImplementsFloor == Spec` and
`ImplementsQuotes == Spec`, with the tables as the refinement mapping, so that a
statement before the commit is a stutter and a commit is one operation. Above `Floor` there is
`Allocation`: who makes what, and what is done; `Floor` implements it through a refinement
mapping that computes both from attempts and works. Beside it `OrderView` adds a reader,
whose statements see what `Floor` has committed between them. `Accounts` has one level, because
none of its operations is a transaction. In `Metrics` a report
is one SQL statement, thus an operator of one state of `Floor`; it extends `OrderView`, whose reader may ask for one. `LoginLimiter` composes: its handlers
call `Accounts`' actions between two calls of the limiter. `Registry` has one level
too, and `Server` has requests in general, of which it matters what they need of the pool and
whether they change something. `QuoteDocument` follows
one quote from its prices to its PDF, with the arithmetic of `Money`; it needs nothing of
`Quotes`, as a PDF is made from what one request has read.

| Module | Code |
|---|---|
| `Floor` | `repository/production.go`, `repository/machine_states.go`, `repository/machines.go`, migrations 1, 2, 4 |
| `FloorTx` | the same, with `service/production.go`, `service/machine_states.go`, `service/machines.go` |
| `Quotes` | `repository/quotes.go`, `repository/production.go` (creation of orders), migrations 3, 5 |
| `QuotesTx` | the same, with `service/quotes.go`, `service/production.go` |
| `Accounts` | `service/security.go`, `repository/security.go`, `http/router/security.go`, migration 6 |
| `LoginLimiter` | `http/handlers/security.go` (the limiter and its callers), the restart in `cmd/api/main.go` |
| `Allocation` | what `StartWork` and `FinishWork` of `repository/production.go` promise together |
| `OrderView` | `GetOrder`, `GetWork` and `listAttempts` of `repository/production.go` |
| `Registry` | `service/` and `repository/` of catalogs, machines, costs, customers, their handlers, migration 1 |
| `Server` | `cmd/api/main.go`, `http/router/security.go` (audit), `http/handlers/security.go` (`recordAccess`), `http/router/router.go`, `database/postgres.go` |
| `Metrics` | `service/metrics.go`, `repository/metrics.go`, the reads of `repository/machine_states.go` |
| `Money` | `service/quotes.go` (rounding, percentages), `models/quotes.go` |
| `QuoteDocument` | `service/quotes.go`, `document/quote_pdf.go`, migration 3 |
| `*_proofs` | theorems about the module of that name; those of `QuotesTx` are in `Quotes_proofs`, of `OrderView` in `Metrics_proofs`, of `LoginLimiter` in `Accounts_proofs` |
| `MC*` | instances for TLC: symmetry sets and constant functions |

A definition named in a comment as a *variant* is a plausible slip in the code
(a dropped check, a stale value, a swapped order). No module uses it; it is there
to be put in the place of the definition after it, to see that a property
notices.

### Floor

`machine`, `work`, `order` are the columns of their rows that production reads or
writes; `attempts` and `history` are sets of rows, an open one having `end = Open`
(NULL). `AssignMachine`, `StartWork`, `FinishWork`, `ChangeState` and
`UpdateMachine` are the operations; `ReplacePeriod`, `BeginAttempt` and
`EndAttempt` are the writes they share with `FloorTx`. Times are any members of
`Times`, in any order that the code's comparisons let through: the server's
clock is read before the locks are taken and a client may send its own time.
Works and orders exist from the start, as their creation is another component.

`FinishWork` may store EN_PRODUCCION although the order's works are all
complete, because that is what the program can do (see Findings); a commit that
stores COMPLETADO needs all works complete.

`Allocation` knows machines and works only: a free machine takes a work that nobody makes
and that is not done, lets it go, or completes it. `ImplementsAllocation` maps `making[m]` to
the work of the open attempt on `m` and `done` to the works in COMPLETADO: numbers, times,
history and orders disappear, and every operation of `Floor` is one step of it or none.

### OrderView

GET /pedidos/{id} runs a SELECT of the order with its count of completed works, one of
its works and one of the attempts of each work, and GET /trabajos/{id} the last two. Each is a
step on the tables of that moment, `at` is the next one and `view` what has been read; any
operation of the floor may come in between. What is shown was then never the state of the tables at one
time, but as it is read from the top down it is not ahead of itself.

### FloorTx

A slot is a request: a goroutine and its connection. `Begin` includes the
service's check on rows read outside the transaction. (Before an assignment it reads the work
and the machine in two statements; the first may be of any earlier moment, and as every work has been pending
it leaves no condition, so `Begin` is the second.) `Stamp` is `s.now()`. After
that there is one action for each statement that matters:

* a locking read is two steps: `ReadAttempt` and `ReadPeriod` take what the
  statement's snapshot holds, `LockWork` and `LockPeriod` wait for the row and
  evaluate the condition again on the row as it then is;
* `LockMachine` is SELECT ... FOR UPDATE of the machine in a start or a change;
* `InsertPeriod` waits on an uncommitted entry of the partial unique indexes and
  fails on a committed one;
* `CheckForeignKey` is the KEY SHARE lock that inserting a row with `maquina_id`
  takes: a finish takes it late, and so can meet a start head on;
* `ReadOrder` and `LockOrder` are the UPDATE of the order: the snapshot its NOT
  EXISTS sees is taken before the wait for the row;
* `Commit` publishes all the writes, `Cancel` is a client that went away, a broken
  connection or a server that stops, at any statement, and `DeadlockVictim` is
  PostgreSQL failing a statement of a cycle of waits.

Lock modes are FOR UPDATE, NO KEY UPDATE and KEY SHARE with PostgreSQL's conflict
table restricted to them. The lock manager, the snapshot rules and the deadlock
detector are PostgreSQL's: they are modelled from its documented behaviour and
marked external in the map.

### Quotes and QuotesTx

`Quotes` keeps `customer` and `machine` as other handlers write them at any time,
`quote` with its concepts and `order` with its works. A concept's price is the
machine's rate, a member of a small set: the arithmetic of a price (fractions,
rounding) is abstracted, what is kept is that each concept is priced by a
statement of its own, at the rate of that moment. `QuotesTx` has a step for each
statement of the four requests. The conversion is the only one that holds a row
lock between statements: `ReadQuote` is the snapshot of SELECT ... FOR UPDATE OF q
and its joins, `LockQuote` the re-check at READ COMMITTED. A creation writes only
new rows, invisible until it commits, so it is one step at its end. `answers`
collects the refusals that claim something about a quote ("conflict", "not
found"), to compare them with the truth.

### Accounts

`user` and `session` are the rows; `pc`, `req` and `read` a request's statement,
arguments and Go variables. INSERT ... SELECT ... WHERE NOT EXISTS is two steps,
snapshot and insert, the second one against the unique index on
`es_usuario_inicial`. A PATCH is read, count of administrators (when the code
counts), whole-row update, deletion of sessions, answer, and other requests may
come between any two. Expiry of a session is a step that may happen at any time.
`Asked` are the requests that clients send, so that an instance may leave some out.
Two things are kept only to be compared: the administrators that were counted (`counted`) and the sessions
the account had at its update (`ended`). `Overtaken` says that one of the former is none any more, or that the row which the
update writes back has changed since it was read.

### Registry

`table[t]` has the rows of a table, a row the columns `Named[t]` that the instance tells
apart, each of a `Kind`: text, required or not, defaulted, checked, a flag, a reference or a date. A value is
one of a few that the code treats differently: `Invalid` stands for whatever the service's
validation refuses, `Unstorable` for what it accepts and PostgreSQL does not: the date 0000-01-01 and a text
with a NUL. `known` remembers of which tables the row was there when the request came: for a rate, its own and its
owner's, which is the one a 404 is about. POST, PATCH, PUT and GET of a rate are `Begin` with
the handler's decoding, one step for each statement of the service, with the overlay of the
named columns and the validation in the steps where the code has them, and `Respond`. `Store`
is the table's constraints: what they refuse becomes the outcome the handler answers with.

### Server

`phase` is where `run` of main is, `serve` the goroutine of `server.Serve`, `pc` a request's
stage: the check of its session, its handler, reading back what it wrote, and its audit
entry, of the middleware after the answer (`audit`) or, in a set-up or a log in (`access`), of
`recordAccess` between the commit and the answer (`record`, `answer`). `held` are the requests that hold a connection of the pool. What a request does in
its statements is left to the other modules; here it is read, changed, answered or failed.
`LimitPasses` is the end of `Shutdown`'s limit with `server.Close`, `cut` what that breaks;
`ClosePool` and `Exit` are the deferred `pool.Close`, which refuses newcomers and waits for what is
held. `AuditFails` is the two seconds of the entry's own context, whichever of the two it is. `conns` are the connections of
clients, which bring requests after `Serve` has failed too, until Shutdown or Close ends them; `unread` are the requests of whose body
something is still to be read: net/http notices a broken connection only when it has been read to its end, which is after
the check of the session.

### LoginLimiter

`attempts` is the map, `handler` what the handler of each slot is about to do: the
call to make (`allow`, `serve`, `fail`, `reset`) and, for the limiter's calls, which
of its keys is next. A log in has two keys, the address and the account, and calls each method once for each; a
set-up has one. Each method is one step, because it holds the mutex from beginning to end. `serve`
runs `Accounts`' statements for the slot: `WrongPassword` is the `Refuse` of
`ReadCredential` that `Accounts` counts as a cancellation, as it has no passwords. An error is
a failure for the limiter as the code has it: any error of a set-up, and
only `ErrUnauthorized` of a log in. Requests that the limiter has no part in are `Other`. `Tick` moves the
clock up to `Horizon`; `Restart` empties the map between requests.

### Money and QuoteDocument

`Money` has the rounding of `moneyFromRat`, the cut of `Int64()` to the width of an integer
(`HalfRange` stands for 2^63) and the percentages, in basis points of `Whole` (10000
in the code). `QuoteDocument` has a step for each concept that is priced, one for
the INSERTs, one for the service's part of the PDF and one for each part that is
drawn. A mark is what was drawn, on which page and from where to where in points; the horizontal layout,
fonts and wording are left out. A text is paragraphs of words, a word the number of its
characters, each of width one; `wrap` and `splitWord` are the code's loops as folds.
Other requests do not appear: the calculation and the PDF share nothing while they run.

### Metrics

Operators over `Floor`'s tables: `Windows` are the windows a request may get
(`hasta` clipped to now, 30 days by default), `Counted`, `Length`, `Ended`,
`PaidFor` the WHERE, FILTER and clipping clauses of the query, `Figures` a row of
the report and `Summary` its total. `History` and `Current` are the two queries of
`repository/machine_states.go` that show the same rows to a person. `ReadReport` is the reader of
`OrderView` asking for any of them; their properties are of the floor as it then is, which is any of its states.

## What is checked

| Run | Instance | What it shows |
|---|---|---|
| `floor_metrics` | 2 machines alike, 2 works of an order, one quoted and one direct, instants 1..3, every window over 0, 2, 4, one reader | the invariants of `Floor`; `Floor` implements `Allocation`; figures of the report add up over states, windows and tables, and the history shows what they count; what is shown of an order or a work is not ahead of what is shown below it |
| `floor_tx` | 2 machines, 2 works, 2 slots, instants 1..2 | commits are atomic operations when two works of one order are served at once; what was read of a machine stays true until commit (`ReadIsCurrent`); the only deadlock is finish against start or change |
| `floor_tx_live` | 1 machine, 1 work, 2 types, 2 slots, instants 1..3, one sent by clients | commits are atomic operations with a retry, client times and a machine whose type and activity change; every request ends |
| `floor_tx_skew` | 2 machines, 2 works, 2 slots | `OrderCompletes` fails (Findings) |
| `quotes_tx_price` | 1 slot, 2 rates, rows changing at any time | totals are those of the stored concepts; creation implements `Quotes` |
| `quotes_tx_convert` | 2 slots, 1 quote, 2 orders | an order has the works of its quote, once; a conversion is alone on an accepted quote; refusals are true, but for one 404; status and conversion implement `Quotes`, so that the lifecycle and what else is proved of `Quotes` holds |
| `accounts` | 2 users, 2 tokens, 2 slots, either of which may update, a column at a time | set-up is once, the last administrator is lost only by an update that another one has overtaken, updates end sessions |
| `accounts_two_updates` | the same | `AdminRemains` fails (Findings) |
| `registry` | 2 slots, 2 locations, a type, a machine with its location, its date of purchase and the flag that deactivates it, its rate | what the service lets through the table takes, but for the year zero; 404 and null are true; a column a PATCH does not name changes only when the row was written after it was read |
| `server` | 2 requests of any kind, a pool of 1, a database that answers | a clean exit keeps answers and audit entries; entries are true; the pool outlives the requests; a shutdown ends if what nothing cancels returns; every request ends: nobody waits for a connection for ever |
| `login_limiter` | 1 account, 2 addresses, 2 slots, maximum 1, window 1, clock 0..2, sweep above 1 | a key's failures stay below the maximum plus the requests in service |
| `quote_document` | up to 3 concepts, `HalfRange` 128, `Whole` 100, `ColumnLimit` 60, texts of 1 to 60 lines | prices, totals and the PDF's figures; the layout of every page |

Why the bounds are enough. A machine has at most one open period and a work at
most one open attempt, so what two requests can disagree about lies on one
machine, one work or one order: two of each give every pair, equal or
different. A third request could only queue behind the rows one of them holds: a request waits for
one lock at a time, and those of a transaction are of one work, one machine and one order. Two works let an
order be half done. Three instants let a work be started, fail and be started
again, and end on another machine, whose times are its own. Two concepts are the fewest
for which a rate can change in between; two orders the fewest for which a quote
could be ordered twice. Two users are the fewest for which "the last administrator" is
a question, and one administrator can demote the other; an update of one column is enough to take a right
away, or to write another one back, and an update of several is left to the proof. One slot is enough in
`quotes_tx_price` because requests share nothing with a calculation but the rows
that `Elsewhere` changes at any time.

In `login_limiter` the bound of `LimitHolds` is reached: two requests pass `Allow` before
either fails. Two addresses make keys that only one of the requests counts for beside the account's, that both
do; any number of either is left to the proof. `quote_document`
has a width of 8 bits, in which a price, a sum of three concepts and the guard's own
subtraction can each overflow; its texts are a little below and a little above what a page holds.

In `registry` two slots are two requests on one row, or one on a row and one on what it refers
to; two locations let a machine be moved. Materials,
customers and types go through the same operators with other columns; no two rows of the instance have a
UNIQUE column, whose refusal says what is so. The columns of a row are few because each multiplies the states:
those of a machine have a reference, a flag and a value that PostgreSQL refuses, and are the ones a PATCH can undo; the
second reference, which is looked up as the first is, and the other columns are left to the proof. A pool of one connection is the smallest
that can be exhausted, and two requests the fewest that can exhaust it.

Deadlock is checked in every run but `quote_document`, where a request ends, and `server`, where the process does: elsewhere rows can always be patched, requests
cancelled or sent, so no state is without a step. Symmetry is not used where liveness is
checked.

Fairness. `FairTxSpec` assumes that a request in service goes on:
strong fairness of its statements, since a lock that is released again and again is granted
in turn (PostgreSQL queues the waiters of a row), and weak fairness of the
deadlock detector, which runs after `deadlock_timeout`. Nobody has to send or
cancel a request. Under it `RequestsEnd` holds; it relies on every end of a
transaction, refusals included, releasing its locks (the deferred `Rollback`).

`Server`'s `Fairness` assumes that main goes on, that a request whose connection was broken by
`server.Close` notices if its body has been read to the end, that the INSERT of an audit entry ends by its own limit of time, after
which a set-up or a log in is answered, and that a closed pool answers at once; nothing of the database. `Close` cancels no context:
net/http does when it reads the end of the connection, which it looks for only behind the body. A POST that waits for its session in
`authenticationMiddleware` is therefore cancelled by nobody, and `ShutdownEnds` is an implication: its premise `UncancelledReturn`
says that the database answers such requests. Without it TLC finds a shutdown that waits in `pool.Close` for ever.
`RequestsAreServed` is an implication: its premise `Answering` says what it needs of the
database: statements that return, waiters for a connection served in turn (strong fairness of
`Acquire`: pgxpool queues them) and
handlers of a finite number of statements (strong fairness of `Handle`, which `Read` precedes any number
of times).

## What is proved

With TLAPS, for every value of the constants that satisfies the named assumptions. They say that
constants such as `Open` or `NoMachine` are not also values (`FloorAssumption`, `FloorTxAssumption`,
`QuotesAssumption`, `NoQuoteAssumption`, `QuotesTxAssumption`, `AccountsAssumption`, `RegistryAssumption`,
`NoRowAssumption`, `MetricsAssumption`, `ServerAssumption`), that times and amounts are numbers, that limits are positive and
requests served at once finitely many (`LimiterAssumption`, `HalfRangeAssumption`, `WholeAssumption`,
`ColumnsAssumption`), that a text is paragraphs of words (`TextsAssumption`), and two bounds of the
schema: an amount that is stored fits its column, which is half as wide as int64
or less (`ColumnLimitAssumption`: NUMERIC(12, 2)), and what a concept costs but for its
electricity fits in int64 (`ItemsAssumption`: its rates are NUMERIC(12, 2), and `service/quotes.go:304`
and 416 bound grams and minutes). Electricity, which is the product that may not fit, has no bound.

`Floor_proofs`: `FloorTypeCorrect`, `OnePeriodIsOpen`, `RunningWorkAgrees`,
`TablesMatch`, `HistoryIsTiled`, `AttemptsAreNumbered`, `SuccessCompletes`,
`CompleteOrdersAreDone` and, from the same invariant, the action properties
`ThePastIsKept` and `AttemptAndPeriodEndTogether`. No property is inductive
alone: that a finish finds the period its attempt opened needs `RunningWork`,
which needs that the history matches the attempts, and replacing a period keeps
time tiled only while exactly one is open. `FloorInv` is the conjunction.
`ReplaceKeepsHistory` is the lemma for start, finish and change alike (each
closes the open period, if there is one, and opens the next), and there is one
lemma for each action. `FloorImplementsAllocation` is the refinement: `RunningWork` gives each machine at most
one open attempt, so that what a machine makes is a function of the tables.

`FloorTx_proofs`, for any number of requests: `ReadsAreCurrent`, `TransactionsImplementFloor` and
`CyclesAreOfTwo`. `TxInv` says for each statement which locks a transaction holds, and that what
it read of the rows they cover is what is stored. It needs the other direction as well: every lock was taken by a
statement the transaction has passed (`LocksAreExplained`), so that two transactions at the same row
are told apart by where they are. The refinement is then a case for each
statement: all are stutters but `Commit`, whose writes, on rows that have not moved since they were read, are those of
the operation. It carries what is proved of `Floor` over to the transactions
(`FloorHoldsUnderTransactions`). For the cycles, `LocksOrigin` says what one waiter can want of
another: work before machine before period before order, but for the key of a
machine that a finish takes late. A cycle has a waiter that goes against that order, so a finish at its foreign key, and the
machine's holder that it waits for waits in turn for what only that finish can hold.

`Quotes_proofs`: `QuotesTypeCorrect`, `OrdersStandOnAccepted`,
`ConceptsBecomeWorks`, `TotalsAreSums`, and `QuotesFollowTable` for the lifecycle. That acceptance
is never withdrawn rests on ACEPTADA having no outgoing entry in `Targets`. Of `QuotesTx`, for any number of
requests: `RequestsImplementQuotes`, `ConversionsAreAlone` and `RefusalsStayTrue`. `QuotesTx`'s
`TxInv` says that a conversion that has locked its quote holds an accepted one that nobody changes, and that a quote's
status only moves on along the table: what a statement's snapshot said of it may have been overtaken in one way only, so
that a refusal is true when it is given, or is the 404 of the findings.

`OrdersAgree` and `WorksAgree`, in `Metrics_proofs`, are of the reader of an order, for finitely many works. `ViewInv` says
at each statement that what was read is a lower bound of what the next one will read: completed works stay
so and keep their attempts (`WorkStays`), and an order that was complete stays complete.

`Metrics_proofs` has the report too: `HoursAreElapsed`, `ReportsAddUp`, `HoursHoldAttempts`,
`WorksAreCountedOnce` and `HistoriesAgree`, for any window and finitely many machines and works. `TablesInv` adds
to `FloorInv` that attempts and history are finite and that no two attempts of a machine
start at the same instant. That the hours of a machine's states leave nothing out is a sum that telescopes
along the tiling: the periods are taken away one by one from the last, and of any number of periods for which the sum failed
there would be a smallest.

`Accounts_proofs`: `AccountsTypeCorrect` and `SetupIsOnce` (`OneInitial`), for any
number of concurrent requests, updates included. The strengthening, `Serving`, says for each statement
what the request at it has read and who it acts for: an early user cannot exist
before the initial one, because whoever creates it was authenticated by a
session, and sessions belong to accounts. `UpdatesEndSessions` and `OnlyARaceLosesTheLastAdmin` rest on `UpdateInv`:
an update that takes the power to administer away has counted somebody else, and the sessions it is to end
are the account's until they are deleted. None of the three has a bound on how many updates overlap. That an
administrator simply remains is not so (Findings): the theorem says that when the last one goes, the update that takes
the role away had counted somebody who is no administrator any more, or read a row that has changed since.

Of `LoginLimiter`, at the end of `Accounts_proofs`: `LimitIsKept`, for any maximum, window and number of requests. The
bound is not inductive: what grows is not the number of requests but that of failures, and
a request that `Allow` has let through for a key may still report one. `Counted` adds these
requests (`Holders`) to the failures of the key: `Allow` adds a holder only while the failures are
below the maximum, a failure takes one away when it is counted. `LimiterImplementsAccounts`
says that `LimiterSpec` implies `Accounts`' `Spec`, so that what is proved there holds behind the
limiter too (`SetupIsOnceBehindTheLimiter`, and `LimiterTypeCorrect` with it).

`Registry_proofs`, for any tables, columns, rows and number of requests: `ServiceKeepsTheTable`,
`RefusalsOfListsAreTrue` and `UndoingIsARace`. All of it rests on rows never going away: what a request has found in
one statement is there in the next, only its columns may have moved, and so that what was not there when it was looked up was not there when the request came (`known`).

`Server_proofs`: `ServerTypeCorrect`, `TrailIsKept`, `PoolIsClosedLast` and `AuditTellsTheTruth`, for
any number of requests and any size of the pool. `MainInv` has a clean exit close the connections, so that no request comes
after it; `RequestInv` says what a request has done at each stage, with its entry before or after its answer.

`QuoteDocument_proofs`, for any width of the integers: rounding is to the nearest for every fraction
(`NearestIsNearest`), and a percentage of an amount is within it (`PercentageWithin`). Hence
`PricesAreExact`, for every price but those whose electricity does not fit; `QuotesAddUp`, for any number of concepts, where the guard of
`Create` is exact although it subtracts in int64: as the totals are never negative, it refuses what would leave int64 and
every concept that is negative; and `FiguresAlwaysAddUp` for every PDF. The layout: `PagesRead` and
`OnlyTheOversizedSpill`, for any number of concepts, any texts and any height of them, requests that fail half
way included. `PageInv` says of the page being drawn that `y` is under all its marks (`Laid`), that a page left behind
has its footer, and that whatever goes over the footer is one of the exceptions (`Spilled`); each part of the
document is drawn by `ensureSpace` and a mark, with one lemma for a new page and one for each kind
of mark. And `LinesAreTight`, for any text: no setting of its words has fewer lines than the loop makes. `Placed`, the invariant of
the loop, says that the lines that are full and the fewest for what is from the current line on are together the fewest for the
paragraph; it is kept because what begins later never needs more lines.

The provers do not take induction as a rule (its theorem has an operator as parameter), so sums over sequences and
finite sets are proved by the smallest number of elements for which they would fail, from
`WellFoundedInduction`, and a recursive function of the model by showing that one such function exists.

The type invariants are proved and not run (the abstract modules' tables are those of the detailed ones, whose
refinement would notice a value out of its domain), and so are `OnePeriodIsOpen`, `AttemptsAreNumbered`,
`SuccessCompletes`, `CompleteOrdersAreDone`, `ThePastIsKept`, `AttemptAndPeriodEndTogether`, `OrdersStandOnAccepted`
and `QuotesFollowTable`: the properties that are run would notice the same slips.

Only model-checked: liveness (`RequestsEnd`, `ShutdownEnds`, `RequestsAreServed`), which rests on fairness and so on
ENABLED, out of the provers' reach.

## Findings

* **An order may never be completed** (`repository/production.go:416`, run
  `floor_tx_skew`). The UPDATE that completes an order decides with NOT EXISTS over
  the works, in the snapshot of its own statement. Two finishes of the last two
  works at the same time each see the other's work in process and both store
  EN_PRODUCCION. Nothing touches the order afterwards. The README says the order is
  completed when all its works end successfully. Locking the order first (SELECT
  ... FOR UPDATE) would order the two. The opposite error cannot happen (`CompleteOrdersAreDone`).
* **The last administrators may demote each other** (`service/security.go:213`, run
  `accounts_two_updates`). The count and the update are separate statements: two
  updates each count two administrators and none is left, although the message
  at line 219 says one must remain. An update that names neither the role nor the flag can do it too: it
  writes back a row it had read before the account was made an administrator.
  `LastAdminIsLostByARace` says that there is no other way.

Three disagreements that no run shows by itself, because a property of a passing run excepts just that case
and says it is the only one:

* A quote that exists is reported missing (`repository/production.go:82`). A conversion that waits for a
  change of status to commit gets no row, because the join with the old status is evaluated again, and answers
  404 instead of converting the quote that has just been accepted (`RefusalsAreTrue` of `QuotesTx`).
* A deactivated machine comes back (`service/machines.go:122`). A PATCH reads the row and writes all of it
  back in another statement; one that names another column and has read the machine before it was deactivated
  makes it active again, although the README says machines are deactivated with PATCH. Materials,
  customers and catalogs do the same (`OnlyRacesUndo` of `Registry`).
* The year zero is an internal error (`service/machines.go:229`). `time.Parse` accepts the date of purchase
  0000-01-01, DATE does not, and a text with a NUL passes every check of length; the answer is 500 where the README promises 422 (`ServiceIsAsStrict` of `Registry`).

Four things worth knowing that contradict no promise: a deadlock between a finish and a
start or manual change of the same machine is possible and surfaces as an internal
error (`CyclesAreFinishAgainstMachine` says it is the only one), and a client may
set `fecha_inicio` in the future, after which no start on that machine succeeds
until then. The largest power, duration and energy rate that are accepted give a cost of
electricity beyond int64, which `moneyFromRat` cuts in silence and which may be stored as a small
price (`service/quotes.go:437`); `PriceIsExact` excepts that case and says there is no other. And a row of the PDF that
is higher than a page, or contact data that fill the first one, are drawn over the footer
(`OnlyOversizedSpills` says nothing else is).

## What is not modelled

Text (names, notes, descriptions), the form of answers, hashing and tokens: no property
is about them. The lists (one SELECT each, with its filters). Material stock is not read or
written by production. Profit, grams, percentages and rounding of the report. Session cookies and
the clock of their expiry. Configuration is read once, CORS and the health check have no state,
down migrations and deployment are not part of the running program. Of the PDF, fonts, colours and
the placing of text in a row: wrapping is right by the widths it measures, but the code measures in the font that was set
last, so that the first row after a table header is measured in bold 8 (`document/quote_pdf.go:82`, 285) and drawn in regular
8.5 (317). Two updates of one account that overlap undo each other, as those of a machine do; the code promises
nothing about them, and the one property is `LastAdminIsLostByARace`. A session that is made between
the update of a password and the deletion of sessions may stay, and all do when the request is cancelled there; `UpdateEndsSessions` is
of the sessions there were at the update, and of updates that answer with success.

After a failure of `Serve`, main closes the pool without `Shutdown` or `server.Close` and waits for
every statement in service; nothing bounds that wait and nothing promises that it ends, so `ShutdownEnds`
starts from the signal. Connections go on bringing requests meanwhile (`Accept`), and meet the closed pool.

## Plan

The order was: the floor first, as the part with the most shared state, then quotes and order entry,
accounts, the reports that depend on the floor's invariants, the arithmetic of a quote with its
document, the limiter, the server with its audit trail, the lists of the shop, and the
reads of an order; then the proofs, of the abstract modules first and of those that refine them after.
Every safety property that a passing run checks has its theorem.
