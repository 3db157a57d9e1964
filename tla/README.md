# Ticket reservation service: TLA+ models and proofs

The repository is a Go API on PostgreSQL that sells tickets of an event by
quantity and by seat. Clients hold inventory for `RESERVATION_TTL`, then confirm
or cancel; a worker process expires what is overdue. Many API processes and
workers share one database, and all coordination happens there: row locks,
unique indexes, atomic UPDATEs. This directory models that coordination.

## 1. Inventory

| Part | State | Operations | Interacts with |
|---|---|---|---|
| reservation service (`modules/reservations`) | `reservations`, `reservation_items`, `reservation_seats`, counters of `ticket_types` | ReserveQuantity, ReserveSeats, GetReservation, CancelReservation, ConfirmReservation, ExpireExpiredReservations | transaction helper, queries; called by handler and worker |
| queries (`db/queries`, `internal/sqlc`) | none | 22 statements, some with FOR UPDATE, SKIP LOCKED, ORDER BY | PostgreSQL |
| transaction helper (`db/tx.go`) | one open transaction per call | begin, commit, rollback on error or cancellation | PostgreSQL |
| expiration worker (`internal/worker`, `cmd/worker`) | ticker, signal context | ProcessOnce, Run, SIGTERM | reservation service |
| sessions, auth (`modules/sessions`, `modules/auth`) | `visitor_sessions`, `users`, the browser's cookie | create, look up, touch, attach user, register, login, logout | every reservation handler reads the session first |
| events (`modules/events`) | `events`, `ticket_types`, `seats` | create event, ticket type, seats; get; inventory | reads the reservations' tables |
| stress administration (`modules/stressadmin`) | the same tables | seed, reset, consistency report | deletes rows the reservation service is using |
| processes (`cmd/api`, `cmd/worker`, `internal/config`, health, adapters) | configuration, listener, signal context, timers | load, connect, serve, readiness check, drain, poll, exit | PostgreSQL, Redis, the operating system |

What is hard here: transactions that interleave statement by statement at READ
COMMITTED; values read before a lock wait and used after it; retries that overlap
the original; commits whose acknowledgement is lost; deadlines that pass in the
middle of an operation; deadlocks over seats, headers, ticket rows and unique
keys; batches that succeed or fail as a whole; shutdown in the middle of one; a
Reset that deletes what requests are working on; reports and inventories read in
several statements; operations that are not transactional at all (seat batches,
login); sessions that change hands while a request runs; start-up and shutdown
with dependencies that hang.
`PROJECT.json` lists each of these at its line under `hazards`, with the property
that watches over it.

What makes the parts correct:

* inventory: counters equal what reservations hold, nothing is oversold, a seat
  has one active holder, finished reservations never change;
* idempotency: one reservation per session and key, retries get the original;
* lifecycle answers: an acknowledged confirmation or cancellation is never lost,
  a header and its children tell the same story;
* worker: overdue holds are released, once, whatever else is going on;
* requests: every one is answered;
* administration: what is committed is whole whatever a Reset deletes, and its
  report raises no false alarm;
* sessions: a user is attached to a session only by a login with the password,
  and a reservation is shown to its owner and to nobody else;
* processes: each starts or gives up, ends when told and not otherwise, and cuts
  requests off only when time is up.

## 2. Modules

| Module | Models |
|---|---|
| `ReservationLedger` | what the service promises: one atomic step per committed transaction |
| `ReservationLedgerProofs` | TLAPS proofs about the ledger |
| `ReservationTx` | the service, its queries, the transaction helper and the worker, statement by statement; implements the ledger |
| `ReservationTxProofs` | TLAPS proofs about the transactions |
| `ReservationTxRefinement` | TLAPS proof that the transactions implement the ledger |
| `ReservationTxDeadlocks` | TLAPS proof of when the transactions cannot deadlock |
| `StressAdmin` | seed, reset and report against the row locks of the reservation service and the worker |
| `StressAdminProofs` | TLAPS proofs about the administration |
| `SessionAuth` | sessions, cookies, users, and who may see a reservation |
| `SessionAuthProofs` | TLAPS proofs about sessions |
| `EventCatalog` | events, ticket types, seats and the inventory, without transactions |
| `EventCatalogProofs` | TLAPS proofs about the catalogue |
| `ProcessLifecycle` | configuration, start-up, shutdown and loops of the two processes, readiness |
| `ProcessLifecycleProofs` | TLAPS proofs about the processes |
| `MC...` | an instance of each for TLC |

Definitions marked "Variant" are mutations of the definition that follows them:
`PROJECT.json` pairs each property with one that breaks it.

### ReservationLedger

`book[r]` is a reservation with its children (status, session and key, deadline,
units per ticket type, seats); `sold` and `reserved` are the counters of
`ticket_types`; `now` is the clock. `CreateQuantity`, `CreateSeats`, `Confirm`,
`Cancel` and `Expire` are the effects of the commits of the five operations that
write. `CreateSeats` expires the overdue holds it finds on the wanted seats and,
as the code, leaves the ticket stock alone. A deadline is any time up to
`now + TTL` because the code fixes it before the transaction waits for locks.
`Confirm` has no upper bound in time: the code compares the deadline under the
header lock and may commit later.

### ReservationTx

State: `db` the committed tables, `pend[p]` the rows process `p` has written and
not committed, `locks[p]` its row locks, `pc`, `req`, `loc`, `resp` the goroutine
(next statement, request, locals, result of the service call). A statement reads
`View(p)`, the committed rows under its own writes. The queries are operators
with the names they have in `reservations.sql`.

| Code | Actions |
|---|---|
| handler: decode and validate, `expires_at` fixed | `BeginRequest` |
| `ReserveQuantity` | `QuantityLookup`, `QuantityUpdate`, `QuantityHeader` (header and item), `QuantityReplay` |
| `ReserveSeats` | `SeatLookup`, `SeatLock` (a step per row), `SeatList`, `SeatExpire` (a step per header), `SeatHeader`, `SeatInsert` (a step per seat), `SeatReplay` |
| `CancelReservation`, `ConfirmReservation` | `TransitionLock`, `TransitionApply` |
| `GetReservation` | `GetHeader`, `GetChildren` (two statements, no transaction) |
| `ExpireExpiredReservations` | `WorkerScan`, `WorkerApply` (a step per reservation) |
| `db.WithTx` | `Commit`, `Fail` inside the actions; `CommitLost`, `Interrupt` |
| worker `Run`, `cmd/worker` | `Shutdown`, `Start` |
| PostgreSQL | `Blockers`, `DeadlockAbort` |

Statements share a step when the later one can neither wait nor be observed
before the commit: after a header is locked and the ticket row is obtained,
the status updates and the reads for the response follow in one step. A statement
that waits for a lock is a disabled action: `Blockers(p)` names the
transactions it waits for. An INSERT waits for uncommitted rows with its unique
key. An UPDATE whose WHERE clause is false in its snapshot waits for nobody.
`WaitsFor(p)` is the least set with `Blockers(p)` that is closed under `Blockers`.
`resp` is what the service call returns; for a refused transition the HTTP
handler keeps only the error code.

Assumptions about what is outside the repository:

* PostgreSQL at READ COMMITTED, its default; a single-row conflict is re-evaluated
  after the wait; one victim of each wait cycle is aborted;
* foreign-key checks take KEY SHARE locks on rows that the service locks only with
  NO KEY UPDATE strength or that the same transaction owns, so they never wait;
* all processes read one clock;
* the connection pool is large enough;
* a session keeps its user during the run (`UserOf` is constant; what happens
  when it does not is the subject of `SessionAuth`).

A handler serves one request; a client's retry is another handler with the same
request.

### The refinement

`ImplementsLedger` is `Ledger!Spec`, with `book` computed from the committed tables
by `Book`, and `sold`, `reserved` from `ticket_types`. It is written with the steps
that change neither `db` nor `now` named first: they leave the ledger's variables
alone, and TLC then looks for a ledger step only where something was committed.
Only `Commit` and `CommitLost` change committed tables, so the property says that
the writes of one transaction, decided statement by statement on views that
others were changing, add up to one ledger step from the state they are committed to.

### StressAdmin

A row is a table name and an id, `db` maps committed rows to values, `tx[p]` is an
open transaction (writes, deletions, row locks, key-share locks). The transactions
of the reservation service appear with the rows they lock, in their order; keys,
replays and requests for several seats are left to `ReservationTx`. One seat stands
for the seats of an event, and the rows a handler creates are named after it. The
worker locks a batch of up to `BatchSize` reservations and keeps them and the ticket
rows it has changed to its commit.

| Code | Actions |
|---|---|
| `isLocal`, dispatch | `BeginRequest` |
| `ReserveQuantity`, `ReserveSeats` | `QuantityUpdate`, `SeatLock`, `SeatList`, `SeatLockHold`, `SeatExpire`, `Header`, `SeatInsert` |
| confirm, cancel, get, the worker | `LifecycleLock`, `LifecycleStock`, `LifecycleChild`, `GetHeader`, `GetChildren`, `WorkerScan` |
| `Seed` | `SeedEvent`, `SeedTicket`, `SeedSeats` |
| `Reset` | `ResetList`, `DeleteBegin` and `DeleteRow` (a step per row, cascades included), `ResetRestrict` |
| `AssertConsistency` | `AssertCheck` (a step per query, each on the committed rows of its moment) |
| the rest | `Commit`, `CommitLost`, `Interrupt`, `DeadlockAbort`, `Tick` |

Assumed of PostgreSQL: a DELETE takes its snapshot at its start and waits row by row,
in any order (`DeleteGoesOn`); ON DELETE CASCADE deletes what refers to the row,
waiting for it too; ON DELETE RESTRICT on `reservations.event_id` fails when a
reservation has appeared; an INSERT takes a KEY SHARE lock on what it refers to. Reset
takes items, then headers, then the event; reservations take the ticket row and then
the event, transitions the header and then the item: they really deadlock. A Reset
that finds a new reservation answers `STRESS_RESET_FAILED`.

`CyclesNeedResetOrWorkers` says that the administration adds no other deadlocks: where
every request takes one seat at most and has a key of its own, each cycle has a Reset
or two workers in it. It says nothing of the cycles over shared keys and several
seats, which this module cannot have and the code can: run `liveness` and theorem
`TransactionsNeverDeadlock` are about those, run `two_workers` about batches.

The units behind a counter are a set with an element per unit
(`Units`), and whom a process waits for in the end is the least set that is closed
under `Blockers` (`WaitsFor`), so that neither needs recursion.

### SessionAuth

`users`, `sessions`, `reservations` are tables, `jar[b]` the cookie of browser `b`
and how long it lives, `cookie[h]` the cookie request `h` came with, `before[h]` the
requests that were answered when it was sent. A token stands for itself, its hash
and its row: tokens are not guessed and hashing is injective. `Normal` is the
trimmed and lowered email, `Unusable` the passwords that validation refuses.

| Code | Actions |
|---|---|
| handler, cookie | `BeginRequest`, `Respond` (`BuildCookie`, `ClearCookie`), `Lost` |
| `CreateAnonymousSession` | `CreateAnonymousSession` |
| `GetCurrentSession` | `LookupSession`, `TouchSession` (two statements) |
| `Register` | `Register`: the unique email decides; other errors also answer 400 |
| `Login` | `Credentials`, `LookupSession` and `TouchSession` or, without a session, `CreateAnonymousSession`, then `AttachUser` |
| `Logout` | clears the cookie and leaves the session |
| reservation handler | `InsertReservation`, `ReadReservation` with `CanAccessReservation` |
| a failing database call | `DBError` |

A call that fails may have been committed. `DBError` at the statement after it is
that case, and after the last statement it turns an answer that was about to be OK
into a failure: a session, a user or a reservation stays of which the client knows
nothing. `OrphanIsUnreachable` says that nobody comes to use such a session.

No step here waits for a lock, and nothing runs in a transaction, so each
statement is a step. Bodies that are not JSON are not told apart from
invalid ones.

### EventCatalog

`events`, `tickets`, `seats` and `holds` (rows of `reservation_seats`). Nothing in
`modules/events` runs in a transaction: `GetEvent`, `CreateEvent`, `CreateTicketType`,
`CreateSeat` (a step per seat of the batch), `ListTickets` and `ListSeats` are one
step each. A statement fails without an effect (`DBError`) or, as every INSERT is
committed on its own, after it (`InsertLost`): `BatchIsPrefix` allows a failed batch
the seat of that INSERT, be it the last one. Of the reservation service only the
committed effects appear (`ReserveSeat`, `SettleSeat`, `MoveUnits`), of the
administration only the events that disappear (`Reset`). `Trimmed` maps a seat as
typed to the seat it names.

### ProcessLifecycle

`env` is what the environment says, `cfg[p]` the loaded configuration, `label[p]`
where `main` is, `ctxDone[p]` the signal context, `late[p]` that the current time
limit has passed, `dep` whether PostgreSQL and Redis are up, refuse or hang.

| Code | Actions |
|---|---|
| `config.Load`, `main` of both | `LoadConfig`, `OpenPostgres`, `OpenRedis`, `Timeout` |
| signals | `Signal`: caught while `NotifyContext` is in force, deadly otherwise |
| `cmd/api` | `Listen`, `ListenFails`, `BeginShutdown`, `Drain` |
| requests, `health/handler.go` | `Arrive`, `ReadyPostgres`, `ReadyRedis`, `Work`, `ReadinessTimeout`, `Disconnect` |
| `worker.Run`, `cmd/worker` | `StartTicker`, `Poll`, `Wait` |
| the world | `DepChange` |

Assumed: `pgx` ends a ping when its context is done; `go-redis`, whose
`ContextTimeoutEnabled` is not set, looks at the context before it sends and then
waits up to read timeouts and retries of its own, so a ping of a silent Redis may
fail at any time and one that is answered late may succeed; `select` picks
either branch when both are ready; `time.NewTicker` panics for an interval that is
not positive; a timeout that is not positive is a context that is done at once.
`int32()` is scaled to `Bits` bits. When the listener fails, `main` stops listening
for signals, drains and exits with 0, so a signal is deadly again. The branch of
`cmd/worker` for an error of `Run` is unreachable: `Run` returns only when its
context is done. `Started` says which process a behaviour has; they meet only in
the database, which the other modules model.

## 3. Runs

All bounds are constants of the `.cfg` files. `TTL = 1` and `MaxTime = 2` let a
hold be running, exactly at its deadline and overdue, which is all that the
comparisons tell apart. Three handlers are enough for a reservation, a competitor
and a third that interferes with both; two units and quantities 1 and 2 give
success, exhaustion and both orders; seats 1 and 2 give overlap and lock order,
seat 3 belongs to another event. `HandlerSymmetry` permutes handlers where all may
get the same requests and no liveness is checked.

Several workloads share a run. They are explored side by side and not mixed: a
CONSTRAINT of the MC module (`OneWorkload`, `SecondHandler`) keeps the states whose
requests so far belong to one of them. It cuts only requests that no one has to
send (and, in the workloads without faults, faults), so neither a safety nor a
liveness property holds because of it that would fail in a workload on its own.

| Run | Asks | Distinct states |
|---|---|---|
| `ledger` | do the ledger's steps keep `Conservation`, `NotOversold`, `SeatExclusive`, `HistoryIsFinal`? Deadlock is not checked: ids and clock run out | 51 thousand |
| `reservations` | does stock move exactly once per reservation when reserve, confirm, cancel, get and the worker race (quantities, pairs of seats in opposite orders, one key for both kinds)? are answers coherent, lasting and for the owner, also when statements fail, acknowledgements are lost and the worker restarts? is every commit a ledger step? | 310 thousand |
| `liveness` | is every request answered and every overdue hold released, in a workload that reaches the deadlock over one key and a pair of overdue seats? | 110 thousand |
| `stress` | is what is committed whole, and a half-done Reset invisible, when Resets, Seeds and reports run against reservations and the worker? does a Reset only add deadlocks that it is part of? are reported holds late? | 450 thousand |
| `reset_liveness` | is everybody answered although Reset deadlocks with reservations, and does the worker get to each of three overdue holds with batches of two? | 41 thousand |
| `sessions` | who may see a reservation after logins before, between and after it? is a login remembered, a failed one without effect on others, a cookie alive to the last second of its session, an email unique? | 5.1 million |
| `catalog` | what do overlapping and failing seat batches leave behind, and what does an inventory read in three statements show? | 790 thousand |
| `processes` | how do the processes start, end and recover, in every kind of environment? | 430 thousand |

Deadlock checking is on in every run but `ledger`: the only state without a step
is the one in which everything is done, which stutters.

`stress` has no tolerance (`Tolerance = 0`), so that a hold is stale for the report one
tick after its deadline, and one worker, so that every cycle there has a Reset.
`sessions` has `TTL = 3` with `Second = 2`, a second and a half: `int(ttl.Seconds())`
cuts the half, the cookie ends before the session, and at `MaxTime = 4` the session
is over while a request that carries it is still being served.
`processes` has a second handler only in the default environment.

Four runs refute a statement of the repository:

* `last_unit`: README and a race test say that a retry with the same key gets the
  existing reservation. `ReserveQuantity` updates the stock before it inserts the
  key, so a retry that overlaps the original for the last unit gets 409
  `INSUFFICIENT_STOCK`. For seats the header is inserted before the seats, and
  `KeyAnswersAreRight` holds.
* `two_workers`: the comment at the batch query says that workers do not wait for
  each other. They skip each other's reservations, then meet on `ticket_types`
  rows, in orders given by their batches, and can deadlock; PostgreSQL rolls one
  batch back and a later poll repeats it. The run explores only behaviours that
  serve requests one at a time (`OneRequestAtATime`) to find the state quickly.
* `lookalike`: the comment at `Reset` says that manual events are not deleted. The
  prefix `__stress_seed__:` is a LIKE pattern in which an underscore matches any
  character. Without such names `ManualRowsStay` holds (run `stress`).
* `batch_size`: the configuration checks the batch size as an int and truncates it
  to int32 afterwards; a worker may poll for ever with a size it refuses.

Two more disagreements are visible in the models without a run of their own. The
comment at `worker.Run` says that shutdown does not interrupt a transaction
midway; the signal context is the statements' context, so it does (`Shutdown` in
`ReservationTx`), and run `reservations` shows that nothing is lost by it. The
comment at the readiness check says that a server shutdown cancels its pings;
`http.Server.Shutdown` leaves the contexts of requests alone and no BaseContext is
set, so a check that is being served goes on (`ReadyRedis` in `ProcessLifecycle`).

### Fairness

`ReservationTx`: weak fairness of the next step of every handler that has a
request (an unblocked statement completes), of the worker's steps (the ticker polls
for ever, a stopped container is restarted), of commits, of `DeadlockAbort`
(PostgreSQL looks for cycles after `deadlock_timeout`) and of time. No fairness is
assumed of faults or of a client sending a request. In `liveness` there are no
faults: a connection that breaks for ever would keep the worker from finishing,
and the code has no answer to that.

`StressAdmin`: strong fairness of the steps of a handler with a request, because a
transaction that waits for a row is woken when the holder ends and the worker
takes the row again only after its poll interval; weak fairness of the worker and
of `DeadlockAbort`. Time need not pass.

`ProcessLifecycle`: weak fairness of what the processes do on their own and of
their timers. Nothing is assumed of requests, signals, PostgreSQL or Redis, which
may hang for ever; `WorkerRecovers` speaks of a PostgreSQL that stays up.

## 4. Proofs

Each proof module proves its results for every value of the constants that the
named assumptions allow: any number of handlers and workers, any requests,
inventory, deadlines and time bound, and any faults.

### ReservationLedgerProofs

| Theorem | States |
|---|---|
| `LedgerInvariant` | `Spec => []Inv`, the inductive invariant |
| `LedgerTypes` | `Spec => []TypeOK` |
| `CountersAreConserved` | `Spec => []Conservation` |
| `NothingIsOversold` | `Spec => []NotOversold` |
| `SeatsAreExclusive` | `Spec => []SeatExclusive` |
| `HistoryNeverChanges` | `Spec => HistoryIsFinal` |

Assumptions: `LedgerAssumption` (stock, TTL and bounds are natural numbers, the
set of ids is finite).

The argument. `Held(b, st, t)` is the set of pairs of a reservation and a unit
number, so that "how many units" is a cardinality and no sum over a recursive
function is needed. `NotOversold` is not inductive alone: a new hold compares the
counters, so `Conservation` must tie the counters to the reservations.
`Conservation` needs `SeatHoldsHaveNoUnits`, because `CreateSeats` expires holds
without touching the counters. `TypeOK` needs `Conservation`: that a release does
not make `reserved` negative follows from the released units being among those
counted. `BlockSize` and `UnitsOfOne` give the size of one reservation's units,
`CreateCount` what a new booking adds to a count, `MarkCount` what a change of
status moves from one count to another; `MoveInv` uses them for confirm, cancel
and expire alike.

### ReservationTxProofs

| Theorem | States |
|---|---|
| `Invariance` | `Spec => []Inv`, the inductive invariant |
| `TypeCorrect` | `Spec => []TypeOK` |
| `ChildrenAlwaysAgree` | `Spec => []ChildrenAgree` |
| `AnswersAlwaysTrue` | `Spec => []AnswersStayTrue` |
| `AnswersAlwaysCoherent` | `Spec => []AnswersCoherent` |
| `KeysAnsweredRight` | `Spec => KeyAnswersAreRight` |
| `SeatRefusalsAreJust` | `Spec => SeatRefusalIsJust` |

Assumptions: `TxAssumption` (the types of the constants, finitely many reservation
ids and at least as many as handlers) and `RequestAssumption` (the quantity of a
request is an int, bounded by `MaxQuantity`).

The argument. What is committed is right because what every open transaction is
about to commit is right, so `Inv` speaks about the open transactions. It has
`Types`, `Committed` (a reservation has the children of its type and no others,
with its status) and for each process:

* `Writes`: its uncommitted rows relative to the committed tables. A reservation it
  moves is reserved in the tables and its header is locked (`MovedRows`); one it
  creates has a key nobody has committed (`CreatedRows`); children go with their
  headers (`ItemRows`, `SeatRows`); ticket rows are locked (`TicketRows`);
* what it has decided at its label: `QuantityFits`, `SeatsFit`, `TransitionFits`,
  `BatchFits`, `ReplayFits`. This is where a value that was read before a lock wait
  and is used after it must be shown to be still good: the stock is the one of the
  locked row, the listed holds are still overdue, the header is still reserved;
* what it answers or has answered (`AnswerFits`);

and, for each pair, `Apart`: no row is locked twice, no id or key is created twice.
A step changes one transaction, so each action has a lemma about the process that
takes it, and `BystanderInv` carries the invariant of the others over: a commit
changes only rows whose locks nobody else has, or adds rows with new ids and keys.
The two action properties follow from `Inv` at the step that answers.

### ReservationTxRefinement

| Theorem | States |
|---|---|
| `RefinementInvariance` | `Spec => []RefInv`, the invariant of the refinement |
| `TransactionsImplementLedger` | `Spec => ImplementsLedger` |
| `NeverFoundInconsistent` | `Spec => []NeverInconsistent` |
| `TablesKeepLedgerPromises` | the tables keep `Conservation`, `NotOversold`, `SeatExclusive` and `KeyUnique` of the ledger |

`RefInv` is `Inv` of `ReservationTxProofs`, `StockInv` and the invariant of the ledger
on the tables. `StockInv`: the counters that a transition or a batch is about to
publish are the committed ones less the units of the reservations it moves, added
to the sold ones if they are confirmed. A batch writes the same ticket row several
times, one reservation after the other, so this too is a cardinality (`Units`).
Every step either leaves the committed tables alone (`Private`) or publishes one
transaction (`Publishes`), and a commit of each of the kinds is the ledger step of
its kind. A worker's batch is one `Expire`. The ledger's conservation law then
answers a question about the transactions: `ErrReservationInvariantBroken` is never
met, because the counters cover what is reserved and what the batch has already
taken. `ImplementsLedger` has no liveness part.

### ReservationTxDeadlocks

| Theorem | States |
|---|---|
| `LocksInOrder` | `Spec => []OrderInv`, the order in which rows are locked |
| `TransactionsNeverDeadlock` | `Spec => []NoWaitCycle`, when `KeysNameRequests` and `WorkersApart` |

The service does deadlock in general, so the theorem says under which conditions it
does not:

* `KeysNameRequests`: a client that sends a key again sends the same request. Without
  it, one key for two different seats deadlocks (the workload of run `liveness`), and
  so does one key for a quantity and a seat request: the quantity request holds the
  ticket row and waits for the key, the seat request has inserted the key and waits
  for a hold that a worker is expiring, the worker waits for the ticket row.
* `WorkersApart`: one worker process, or one ticket type. Run `two_workers` has the
  deadlock of two batches over two ticket types.

Nothing is assumed of the number of handlers, of the seats or of their order in the
requests, of retries, or of faults.

The argument. `Ahead(p, o)` says that `o` is further on than `p`: at a higher `Level`
(kind of statement), at the same one with a higher id to lock, or, where both insert
seats, with an expired hold that ended later than all those of `p` (`ExpiredLater`).
It is transitive and irreflexive, and whoever waits for one that waits itself waits
for one that is ahead (`WaitsUpward`), so the waits of `p` never lead back to `p`
(`NoCircle`). Three parts need more than `Inv`, and are `OrderInv`:

* row locks: `LocksFit`, seats before reservations before ticket types, and ids
  upwards in `LockEventSeats` and `LockReservationsByID`;
* the INSERT of a header takes no row lock, it waits for a key. `Origins` says that a
  committed reservation is what some request asked for; under `KeysNameRequests` a
  seat request that has the key, as a new header or as an expired one, wants a seat
  that the waiting request has locked, which it cannot;
* a worker batch that has the key of a quantity request still holds the ticket row of
  the item (`ItemsLocked`), which the waiting request holds.

The INSERT of a seat waits for one who has just expired a hold of the seat. That hold
was still running when the waiting request listed the stale ones, so it ends later
than all those: this is the second half of `OthersRun` in `Inv`.

### SessionAuthProofs

| Theorem | States |
|---|---|
| `SessionInvariant` | `Spec => []Inv`, the inductive invariant |
| `SessionTypes` | `Spec => []TypeOK` |
| `EmailsAreUnique` | `Spec => []OneUserPerEmail` |
| `LinksHaveCredentials` | `Spec => []CredentialsBehindLink` |
| `AccessIsJustified` | `Spec => []AccessJustified` |
| `OwnersKeepAccess` | `Spec => []OwnerKeepsAccess` |
| `MemoryInvariant` | `Spec => []Memory`, a second inductive invariant |
| `LoginsAreRemembered` | `Spec => []LoginIsRemembered` |
| `CookiesLastToTheSecond` | `Spec => []CookieLastsToTheSecond` |

Assumptions: `SessionAssumption` (the constants have their types, registered users
have distinct ids and emails, new ids and tokens are new, the TTL is at least a
second: below that the cookie has no Max-Age).

The argument. That a session's user comes from a login is true only if it is
already true of what the handlers carry in their locals between two statements:
the user `Credentials` found, the session `LookupSession` read, the owner a
reservation will be written with. `Inv` therefore has, beside `TypeOK`,
`EmailsUnique`, `SessionsLinked` and `ReservationsLinked`, a part for each handler:
`LabelFits` and `CodeFits` (which operation may be where, with which answer),
`LoginUser`, `SessionFits`, `OwnerLinked`, `ViewFits`, `RegisterFits` and `MadeOnce`.
`Linked(t, u)` is monotone: the request and the cookie of a handler change only when
it is idle, and users are never deleted. So a step has to be examined only for the
handler that takes it; `OthersKeep` carries the parts of the others over, and each
action has a lemma.

`Memory` is about what lasts. A session is made once and then never loses its row,
its end or (once it has one) a user, which is `Lasts`; a touch writes
only timestamps and returns the row as it then is, and a login writes a user
over a user. A request that was sent
after a login was answered therefore looks the session up when the user is
there (`Remembers`). A cookie is written when its session has at most a TTL to live
(`SessionMade`) and lives for `MaxAge`, which is less than a second short of the TTL
(`MaxAgeFits`, `CookieFits`).

### EventCatalogProofs

| Theorem | States |
|---|---|
| `CatalogInvariant` | `Spec => []Inv`, the inductive invariant |
| `CatalogTypeCorrect` | `Spec => []TypeOK` |
| `BatchesArePrefixes` | `Spec => []BatchIsPrefix` |
| `InventoriesAreExact` | `Spec => []InventoryIsExact` |
| `SalesStaySold` | `Spec => []SoldStaysSold` |

Assumptions: `CatalogAssumption` and `RequestAssumption` (a body that is JSON decodes
to a list of places or an int).

The argument. Without transactions, what an operation has read may be gone when it
goes on. But an event that was deleted never comes back (`Known`: an id belongs to a
request that was answered), so a fact about the rows of an event, once true, stays
true as long as the event exists; `Lasting` says so of every step, the resets
included. `Batch` counts how many seats of its list a handler has inserted, which
must be exactly those it created, also when another batch inserts the same
places; only a batch that has failed may have one more, the seat whose INSERT was not
acknowledged. `Inventory` says of an inventory, finished or half read, that it covers what
earlier requests created and saw: the ticket lines were read before the seat lines,
and sold counters and confirmed holds only grow. That the lines add up needs
`sold + reserved <= total` of the ticket table.

### ProcessLifecycleProofs

| Theorem | States |
|---|---|
| `ProcessInvariant` | `Spec => []Inv`, the inductive invariant |
| `ExitsAlwaysJustified` | `Spec => []ExitsAreJustified` |
| `ReadinessAlwaysHonest` | `Spec => []ReadyIsHonest` |

Assumption: `ProcessAssumption`. `ApiInv`: requests are in flight only after start-up,
where a signal is caught unless the listener has failed, so that only the two
justified exits cut them off. `WorkerInv`: only a signal ends the worker's context,
and a start-up that fails has polled nothing. `RequestInv`: a request has seen
every state of PostgreSQL and Redis since it arrived, and has seen PostgreSQL up
when it pings Redis; a Redis that is reported was seen refusing or silent, or the
time limit had passed.

### StressAdminProofs

| Theorem | States |
|---|---|
| `StressInvariant` | `Spec => []Inv`, the inductive invariant |
| `FixturesAreWhole` | `Spec => []FixturesWhole` |
| `ResetsAreComplete` | `Spec => []ResetIsComplete` |
| `ResetsAreAtomic` | `Spec => []ResetNeverSeenHalfway` |
| `ReportsAreSound` | `Spec => []NoFalseAlarm` |
| `EveryCycleHasResetOrWorkers` | `Spec => []CyclesNeedResetOrWorkers` |
| `OnlyMatchingRowsGo` | rows are deleted only in a local environment, and only those of events that match the LIKE pattern |
| `ManualRowsAreKept` | `Spec => ManualRowsStay`, when `Lookalikes = {}` |

Assumptions: `StressAssumption` (the types of the constants; a handler's id, after which
the rows it creates are named, is not an id that is already in use; finitely many
handlers and initial reservations), `RequestAssumption` (validated quantities are
positive, transitions and reads name a reservation) and `HoldsAssumption` (the
reservations there are at the start oversell nothing and hold no seat twice).
`ManualRowsAreKept` also assumes that there are no `Lookalikes`; run `lookalike` shows
that it is false otherwise.

The argument. `Inv` has `Whole`, which is `FixturesWhole` with what keeps it true (the
child tells the same as its header, one active hold per seat, nothing oversold), and
for each process what its transaction has written, locked and decided at its label.
A transaction of the reservation service has locked every row it changes, so its
commit finds them as it left them. What it relies on without having locked it
(the event it refers to, the hold it has listed) is safe because of its key-share
lock, or is looked at again under the lock. `Lasting` says of every step what
it leaves alone for the others.

A Reset decides stage by stage on rows it has not locked yet, and new rows may appear
behind it. `ResetFits` says what the finished stages have made sure of: the children
of deleted headers are deleted (`ChildrenGone`), then the listed events (`EventsGone`),
then their ticket types and seats (`InventoryGone`), and the RESTRICT check at the end
finds that no header is left (`ReservationsGone`). A header that came in between
holds a key-share lock on its event, so the DELETE of the event waits for it and the
check then fails the Reset. `Known` has every id that was ever in the database:
none is used again, so what is deleted stays deleted.

The counters are cardinalities of `Units`, and each kind of commit has a lemma on
what it adds to a set of units or moves from one to another.

A worker moves the reservations of its batch one after the other, several of them
perhaps on one ticket type. `BatchFits` keeps the account: the row a batch has written
lacks the units of the items it has expired so far and, between stock and child,
those of the one on the way.

For `CyclesNeedResetOrWorkers`, the transactions of the service wait at increasing
levels (`Level`): seats, headers, inserts of holds, ticket types, children and the
rest. A handler that waits for a ticket row holds none yet; a worker in the middle of
its batch does, and so has a level of its own above the handlers that wait for one.
Whoever waits, waits for a Reset, for a process at a higher level that waits itself,
or, one worker for another, at the same level (`WaitsUpward`); this rests on which
rows a transaction can have locked at its label (`LockFits`). If the circle of `p` had
neither a Reset nor two workers, the processes that do not wait for `p` in turn or are
at a higher level than `p` would be closed under `Blockers` without `p` being among
them.

### Only model-checked

* Liveness: `RequestsAreAnswered`, `OverdueHoldsAreReleased`, `EveryoneAnswered`,
  `OverdueHandled`, `ProcessesStartAndEnd` and `WorkerRecovers`, which need fairness
  and ENABLED.
* `NoWaitCycle` for requests that share a key: run `reservations` also checks a
  workload outside `KeysNameRequests`, in which no cycle is reached.
* The four runs that refute a statement of the repository.

## 5. Not modelled

HTTP routing, middleware, encoding and logging, which hold no state that the
properties speak of; the conversions of the database adapters; Redis beyond its
ping; the size of the connection pool; clock differences between processes; the
lengths of intervals and timeouts, which may pass at any time; load tests and the
API collection, which are clients. `GetOptionalUser`, `GetCurrentUser`,
`ListSeatsByEvent`, `ListTicketTypesByEvent` and `GetReservationByIdempotencyKey`
have no caller.

## 6. Plan

1. Done: the ledger, `ReservationTx` with the worker and faults, `SessionAuth`,
   `EventCatalog`, `ProcessLifecycle` and `StressAdmin`, with the proofs of section 4.
2. A composition of `SessionAuth` and `ReservationTx` in which `UserOf` is state, so
   that a login may commit while a lifecycle request waits for a lock.
