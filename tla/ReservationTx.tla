----------------------------- MODULE ReservationTx -----------------------------
(***************************************************************************)
(* The reservation service statement by statement.                         *)
(*                                                                         *)
(* Every HTTP request runs in a goroutine of its own (a handler) and every *)
(* expiration batch in a worker process.  Each opens one PostgreSQL        *)
(* transaction at READ COMMITTED: a statement reads the committed tables   *)
(* overlaid with the transaction's own writes, takes row locks, waits for  *)
(* the locks and the unpublished unique keys of the others, and publishes  *)
(* its writes at commit.  Statements that can neither wait nor be seen by  *)
(* another transaction before commit share a step with the one before.     *)
(***************************************************************************)
EXTENDS Integers, FiniteSets, Sequences, FiniteSetsExt, Functions

CONSTANTS
    TicketTypes, Total, TicketEvent,  \* ticket_types: total_quantity, event_id
    Seats, SeatEvent,                 \* seats (ids are ordered): event_id
    UserOf, NoUser,                   \* visitor_sessions: user_id, or NULL
    BlankKey,                         \* an idempotency key that trims to ""
    Malformed,                        \* a string that is not a UUID
    ReservationIds,                   \* the ids gen_random_uuid() may return
    MaxQuantity,
    TTL, MaxTime,
    BatchSize,                        \* EXPIRATION_WORKER_BATCH_SIZE
    Requests,                         \* Requests[h]: the requests handler h may get
    Handlers, Workers,                \* request goroutines, worker processes
    Faulty                            \* processes whose context or connection may break

ASSUME TxAssumption ==
    /\ Total \in [TicketTypes -> Nat]
    /\ Seats \subseteq Nat
    /\ ReservationIds \subseteq Nat
    /\ IsFiniteSet(ReservationIds)
    /\ Cardinality(Handlers) <= Cardinality(ReservationIds)
    /\ MaxQuantity \in Nat /\ TTL \in Nat /\ MaxTime \in Nat
    /\ BatchSize \in Nat \ {0}
    /\ Handlers \cap Workers = {}
    /\ DOMAIN Requests = Handlers
    /\ Faulty \subseteq Handlers \cup Workers

\* The quantity of a request is decoded into an int; MaxQuantity bounds it.
ASSUME RequestAssumption ==
    \A h \in Handlers : \A rq \in Requests[h] :
        rq.op = "quantity" => rq.quantity \in Int /\ rq.quantity <= MaxQuantity

VARIABLES
    db,     \* the committed tables
    pend,   \* pend[p]: the rows p's open transaction has written
    locks,  \* locks[p]: the row locks p's open transaction holds
    now,    \* the wall clock
    pc,     \* pc[p]: the statement p runs next
    req,    \* req[h]: the request handler h serves
    loc,    \* loc[p]: the local variables of p's service call
    resp    \* resp[h]: the answer handler h gave

vars == <<db, pend, locks, now, pc, req, loc, resp>>

Procs == Handlers \cup Workers

--------------------------------------------------------------------------------
(* Tables, transactions and row locks *)

NoRows == [x \in {} |-> x]

\* A table with one row.
OneRow(id, row) == [x \in {id} |-> row]

\* The rows of f, and those of g under other ids.
Patch(f, g) == [x \in DOMAIN f \cup DOMAIN g |-> IF x \in DOMAIN f THEN f[x] ELSE g[x]]

\* The writes of a transaction that has written nothing.
NoWrites ==
    [ticket_types |-> NoRows, reservations |-> NoRows,
     reservation_items |-> NoRows, reservation_seats |-> NoRows]

\* The tables d with the rows of w written over them.
Overlay(w, d) == [table \in DOMAIN d |-> Patch(w[table], d[table])]

\* What a statement of p's transaction reads.
View(p) == Overlay(pend[p], db)

TicketRow(t) == <<"ticket_types", t>>
ReservationRow(r) == <<"reservations", r>>
SeatRow(s) == <<"seats", s>>

\* The transactions other than p's that hold the lock of a row.
Holders(p, row) == {o \in Procs \ {p} : row \in locks[o]}

--------------------------------------------------------------------------------
(* The queries, on the tables v a statement reads *)

IsFree(v, s, k) ==
    \A r \in DOMAIN v.reservations :
        <<v.reservations[r].session, v.reservations[r].key>> # <<s, k>>

\* The reservations of one type under an idempotency key, joined with their
\* children.
GetQuantityReservationByIdempotencyKey(v, s, k) ==
    {r \in DOMAIN v.reservations :
        /\ v.reservations[r].session = s /\ v.reservations[r].key = k
        /\ v.reservations[r].type = "quantity"
        /\ r \in DOMAIN v.reservation_items}

\* Variant: the lookup sees active reservations only.
GetActiveSeatReservation(v, s, k) ==
    {r \in DOMAIN v.reservations :
        /\ v.reservations[r].session = s /\ v.reservations[r].key = k
        /\ v.reservations[r].type = "seats"
        /\ v.reservations[r].status = "reserved"}

GetSeatReservationByIdempotencyKey(v, s, k) ==
    {r \in DOMAIN v.reservations :
        /\ v.reservations[r].session = s /\ v.reservations[r].key = k
        /\ v.reservations[r].type = "seats"
        /\ \E i \in DOMAIN v.reservation_seats : i[1] = r}

\* Variant: off by one, the last unit counts twice.
HasStockOffByOne(v, t, e, q) ==
    /\ t \in TicketTypes /\ TicketEvent[t] = e
    /\ Total[t] - v.ticket_types[t].sold - v.ticket_types[t].reserved >= q - 1

\* The WHERE clause of the atomic stock UPDATE.
HasStock(v, t, e, q) ==
    /\ t \in TicketTypes /\ TicketEvent[t] = e
    /\ Total[t] - v.ticket_types[t].sold - v.ticket_types[t].reserved >= q

ReserveTicketQuantity(v, t, q) ==
    [NoWrites EXCEPT !.ticket_types =
        OneRow(t, [v.ticket_types[t] EXCEPT !.reserved = @ + q])]

ReleaseTicketQuantity(v, t, q) ==
    [NoWrites EXCEPT !.ticket_types =
        OneRow(t, [v.ticket_types[t] EXCEPT !.reserved = @ - q])]

ConfirmTicketQuantity(v, t, q) ==
    [NoWrites EXCEPT !.ticket_types =
        OneRow(t, [v.ticket_types[t] EXCEPT !.reserved = @ - q, !.sold = @ + q])]

CreateReservation(r, s, k, e, type, expires) ==
    [NoWrites EXCEPT !.reservations =
        OneRow(r, [session |-> s, key |-> k, event |-> e, user |-> UserOf[s],
                   type |-> type, status |-> "reserved", expires |-> expires])]

CreateReservationItem(r, t, q) ==
    [NoWrites EXCEPT !.reservation_items =
        OneRow(r, [ticket |-> t, quantity |-> q, status |-> "reserved"])]

CreateReservationSeat(r, s, expires) ==
    [NoWrites EXCEPT !.reservation_seats =
        OneRow(<<r, s>>, [status |-> "reserved", expires |-> expires])]

\* uq_active_reservation_seat has an entry for seat s.
IsTaken(v, s) ==
    \E i \in DOMAIN v.reservation_seats :
        i[2] = s /\ v.reservation_seats[i].status \in {"reserved", "confirmed"}

\* The seat rows a LockEventSeats finds.
EventSeats(e, wanted) == {s \in wanted \cap Seats : SeatEvent[s] = e}

\* Variant: strictly before the deadline, as the worker's query has it.
ListStrictlyExpired(v, wanted) ==
    {i[1] : i \in {j \in DOMAIN v.reservation_seats :
                      /\ j[2] \in wanted
                      /\ v.reservation_seats[j].status = "reserved"
                      /\ v.reservation_seats[j].expires < now}}

ListExpiredActiveReservationIDsForSeats(v, wanted) ==
    {i[1] : i \in {j \in DOMAIN v.reservation_seats :
                      /\ j[2] \in wanted
                      /\ v.reservation_seats[j].status = "reserved"
                      /\ v.reservation_seats[j].expires <= now}}

\* The rows of a status column that are still 'reserved' and whose id is in I.
Marked(rows, I, status) ==
    [i \in {j \in DOMAIN rows \cap I : rows[j].status = "reserved"} |->
        [rows[i] EXCEPT !.status = status]]

SeatRowsOf(v, R) == {i \in DOMAIN v.reservation_seats : i[1] \in R}

ExpireReservationSeatsByReservationIDs(v, R) ==
    [NoWrites EXCEPT !.reservation_seats =
        Marked(v.reservation_seats, SeatRowsOf(v, R), "expired")]

ExpireReservationsByIDs(v, R) ==
    [NoWrites EXCEPT !.reservations = Marked(v.reservations, R, "expired")]

\* Variant: the items are forgotten.
ItemsKeepStatus(v, r, status) == NoWrites

UpdateReservationItemsStatus(v, r, status) ==
    [NoWrites EXCEPT !.reservation_items = Marked(v.reservation_items, {r}, status)]

UpdateReservationSeatsStatus(v, r, status) ==
    [NoWrites EXCEPT !.reservation_seats =
        Marked(v.reservation_seats, SeatRowsOf(v, {r}), status)]

UpdateReservationStatus(v, r, status) ==
    [NoWrites EXCEPT !.reservations =
        OneRow(r, [v.reservations[r] EXCEPT !.status = status])]

\* ORDER BY expires_at, id
Earlier(r1, r2) ==
    LET e1 == db.reservations[r1].expires
        e2 == db.reservations[r2].expires
    IN  e1 < e2 \/ (e1 = e2 /\ r1 < r2)

\* Variant: LIMIT is off by one.
ListOneExpiredReservationLess(w) ==
    LET due == {r \in DOMAIN db.reservations :
                  /\ db.reservations[r].status = "reserved"
                  /\ db.reservations[r].expires < now
                  /\ Holders(w, ReservationRow(r)) = {}}
    IN  {r \in due : Cardinality({o \in due : Earlier(o, r)}) < BatchSize - 1}

\* Variant: no FOR UPDATE SKIP LOCKED.
ListExpiredReservations(w) ==
    LET due == {r \in DOMAIN db.reservations :
                  db.reservations[r].status = "reserved" /\ db.reservations[r].expires < now}
    IN  {r \in due : Cardinality({o \in due : Earlier(o, r)}) < BatchSize}

\* FOR UPDATE SKIP LOCKED LIMIT BatchSize
ListExpiredReservationsForUpdate(w) ==
    LET due == {r \in DOMAIN db.reservations :
                  /\ db.reservations[r].status = "reserved"
                  /\ db.reservations[r].expires < now
                  /\ Holders(w, ReservationRow(r)) = {}}
    IN  {r \in due : Cardinality({o \in due : Earlier(o, r)}) < BatchSize}

\* The statuses of the item or the seats of a reservation, as a response
\* lists them.
ChildStatuses(v, r) ==
    IF v.reservations[r].type = "quantity"
    THEN {v.reservation_items[i].status : i \in DOMAIN v.reservation_items \cap {r}}
    ELSE {v.reservation_seats[i].status : i \in SeatRowsOf(v, {r})}

--------------------------------------------------------------------------------
(* Moving a locked reservation to its next status *)

\* releaseReservedQuantityItems and confirmReservedQuantityItems find no item
\* to move, or fewer reserved units than the item holds.
InvariantBroken(v, r) ==
    /\ v.reservations[r].type = "quantity"
    /\ \/ r \notin DOMAIN v.reservation_items
       \/ v.reservation_items[r].status # "reserved"
       \/ v.ticket_types[v.reservation_items[r].ticket].reserved
             < v.reservation_items[r].quantity

MoveStock(v, r, status) ==
    LET item == v.reservation_items[r]
    IN  IF status = "confirmed"
        THEN ConfirmTicketQuantity(v, item.ticket, item.quantity)
        ELSE ReleaseTicketQuantity(v, item.ticket, item.quantity)

\* cancelLockedReservation, confirmLockedReservation, expireLockedReservation
TransitionLocked(v, r, status) ==
    Overlay(UpdateReservationStatus(v, r, status),
        IF v.reservations[r].type = "quantity"
        THEN Overlay(MoveStock(v, r, status), UpdateReservationItemsStatus(v, r, status))
        ELSE UpdateReservationSeatsStatus(v, r, status))

CanAccessReservation(header, session) ==
    \/ header.session = session
    \/ header.user # NoUser /\ header.user = UserOf[session]

ReservationExpired(header) == header.expires <= now

--------------------------------------------------------------------------------
(* Who a transaction waits for *)

\* Variant: the seats are locked in the order the client sent them.
NextIdAsSent(p) ==
    IF pc[p] = "s_lock"
    THEN req[p].seats[Min({i \in DOMAIN req[p].seats : req[p].seats[i] \in loc[p].todo})]
    ELSE Min(loc[p].todo)

\* The smallest id left: LockEventSeats, LockReservationsByID and the loop over
\* the locked seats all go in id order.
NextId(p) == Min(loc[p].todo)

\* The reservation a transition or a worker batch handles next.
Current(p) ==
    IF p \in Workers
    THEN CHOOSE r \in loc[p].todo : \A o \in loc[p].todo \ {r} : Earlier(r, o)
    ELSE req[p].id

\* The lock of the ticket row that moving reservation r needs; an UPDATE whose
\* WHERE clause does not hold waits for nobody.
StockBlockers(p, r) ==
    IF View(p).reservations[r].type = "quantity" /\ ~InvariantBroken(View(p), r)
    THEN Holders(p, TicketRow(View(p).reservation_items[r].ticket))
    ELSE {}

\* An INSERT waits for every transaction with an unpublished row of its key.
KeyBlockers(p) ==
    {o \in Procs \ {p} : ~IsFree(pend[o], req[p].session, req[p].key)}

SeatKeyBlockers(p, s) ==
    {o \in Procs \ {p} : \E i \in DOMAIN pend[o].reservation_seats : i[2] = s}

\* The transactions that keep the next statement of p from completing.
Blockers(p) ==
    CASE pc[p] = "q_update" ->
            IF HasStock(db, req[p].ticket, req[p].event, req[p].quantity)
            THEN Holders(p, TicketRow(req[p].ticket)) ELSE {}
      [] pc[p] \in {"q_header", "s_header"} -> KeyBlockers(p)
      [] pc[p] = "s_lock" -> Holders(p, SeatRow(NextId(p)))
      [] pc[p] = "s_expire" -> Holders(p, ReservationRow(NextId(p)))
      [] pc[p] = "s_insert" -> SeatKeyBlockers(p, NextId(p))
      [] pc[p] = "t_lock" -> Holders(p, ReservationRow(req[p].id))
      [] pc[p] \in {"t_apply", "w_apply"} -> StockBlockers(p, Current(p))
      [] OTHER -> {}

\* A set of processes with everyone they wait for.
WaitsInside(S) == \A o \in S : Blockers(o) \subseteq S

\* Everyone p waits for, directly or through others.
WaitsFor(p) ==
    {o \in Procs : \A S \in SUBSET Procs : Blockers(p) \subseteq S /\ WaitsInside(S) => o \in S}

\* p waits, through others, for itself.
InWaitCycle(p) == Blockers(p) # {} /\ p \in WaitsFor(p)

--------------------------------------------------------------------------------
(* How a service call starts, goes on and ends *)

NoAnswer == [code |-> "none", id |-> 0, status |-> "none", children |-> {}]

NoLocals == [expires |-> 0, todo |-> {}, listed |-> {}, target |-> "none", answer |-> NoAnswer]

Answer(code, r, status, children) ==
    [code |-> code, id |-> r, status |-> status, children |-> children]

Failure(code) == [NoAnswer EXCEPT !.code = code]

\* Variant: the children are read outside the transaction.
BuildStaleResponse(code, v, r) ==
    Answer(code, r, v.reservations[r].status,
           IF r \in DOMAIN db.reservations THEN ChildStatuses(db, r) ELSE {})

\* The answer that shows reservation r as v has it (buildReservationResponse).
BuildReservationResponse(code, v, r) ==
    Answer(code, r, v.reservations[r].status, ChildStatuses(v, r))

Goto(p, label) == pc' = [pc EXCEPT ![p] = label]

Write(p, writes) == pend' = [pend EXCEPT ![p] = Overlay(writes, @)]

Lock(p, rows) == locks' = [locks EXCEPT ![p] = @ \cup rows]

\* Variant: the transaction is left open.
LeaveTxOpen(p) ==
    /\ pend' = [pend EXCEPT ![p] = NoWrites]
    /\ UNCHANGED locks

\* The transaction is over; its locks go with it.
EndTx(p) ==
    /\ pend' = [pend EXCEPT ![p] = NoWrites]
    /\ locks' = [locks EXCEPT ![p] = {}]

\* A handler answers and its goroutine ends; a worker goes back to its loop.
Finish(p, answer) ==
    /\ loc' = [loc EXCEPT ![p] = NoLocals]
    /\ IF p \in Handlers
       THEN /\ resp' = [resp EXCEPT ![p] = answer]
            /\ Goto(p, "done")
       ELSE /\ Goto(p, "idle")
            /\ UNCHANGED resp

\* fn returned an error: WithTx rolls back.
Fail(p, code) ==
    /\ EndTx(p)
    /\ Finish(p, Failure(code))
    /\ UNCHANGED <<db, now, req>>

\* Go on to the statement at a label, the locals become l.
Continue(p, label, l) ==
    /\ Goto(p, label)
    /\ loc' = [loc EXCEPT ![p] = l]
    /\ UNCHANGED <<db, now, req, resp>>

\* A read: only the locals change.
Read(p, label, l) == Continue(p, label, l) /\ UNCHANGED <<pend, locks>>

At(p, label) == pc[p] = label /\ Blockers(p) = {}

FreshIds ==
    ReservationIds \ (DOMAIN db.reservations
                        \cup UNION {DOMAIN pend[o].reservations : o \in Procs})

--------------------------------------------------------------------------------
(* Requests *)

\* parseQuantityInput, parseSeatInput and the id check of the lifecycle routes.
IsInvalid(rq) ==
    CASE rq.op = "quantity" ->
            rq.quantity <= 0 \/ rq.key = BlankKey \/ Malformed \in {rq.event, rq.ticket}
      [] rq.op = "seats" ->
            \/ rq.key = BlankKey \/ rq.event = Malformed \/ rq.seats = <<>>
            \/ Malformed \in Range(rq.seats) \/ ~IsInjective(rq.seats)
      [] OTHER -> rq.id = Malformed

FirstStatement(op) ==
    CASE op = "quantity" -> "q_lookup"
      [] op = "seats" -> "s_lookup"
      [] op = "get" -> "g_header"
      [] OTHER -> "t_lock"

\* The handler decodes and validates the request; expires_at is fixed here,
\* before the transaction starts to wait for anything.
BeginRequest(h) ==
    /\ pc[h] = "idle"
    /\ \E rq \in Requests[h] :
          /\ req' = [req EXCEPT ![h] = rq]
          /\ IF IsInvalid(rq)
             THEN Finish(h, Failure("INVALID"))
             ELSE /\ Goto(h, FirstStatement(rq.op))
                  /\ loc' = [loc EXCEPT ![h].expires = now + TTL]
                  /\ UNCHANGED resp
    /\ UNCHANGED <<db, pend, locks, now>>

--------------------------------------------------------------------------------
(* ReserveQuantity *)

QuantityLookup(h) ==
    /\ At(h, "q_lookup")
    /\ LET found == GetQuantityReservationByIdempotencyKey(db, req[h].session, req[h].key)
       IN  IF found = {}
           THEN Read(h, "q_update", loc[h])
           ELSE \E r \in found :
                   Read(h, "commit",
                        [loc[h] EXCEPT !.answer = BuildReservationResponse("OK", db, r)])

QuantityUpdate(h) ==
    LET rq == req[h]
    IN  /\ At(h, "q_update")
        /\ IF HasStock(db, rq.ticket, rq.event, rq.quantity)
           THEN /\ Lock(h, {TicketRow(rq.ticket)})
                /\ Write(h, ReserveTicketQuantity(View(h), rq.ticket, rq.quantity))
                /\ Continue(h, "q_header", loc[h])
           ELSE Fail(h, "INSUFFICIENT_STOCK")

\* Header and item; a unique violation rolls back and replays.
QuantityHeader(h) ==
    LET rq == req[h]
    IN  /\ At(h, "q_header")
        /\ IF IsFree(View(h), rq.session, rq.key)
           THEN \E r \in FreshIds :
                   LET rows == Overlay(
                                 CreateReservation(r, rq.session, rq.key, rq.event,
                                                   "quantity", loc[h].expires),
                                 CreateReservationItem(r, rq.ticket, rq.quantity))
                   IN  /\ Write(h, rows)
                       /\ Continue(h, "commit",
                            [loc[h] EXCEPT !.answer = BuildReservationResponse("OK", rows, r)])
                       /\ UNCHANGED locks
           ELSE EndTx(h) /\ Continue(h, "q_replay", loc[h])

\* replayQuantity, replaySeats: outside the transaction
Replay(h, found) ==
    /\ IF found = {}
       THEN Finish(h, Failure("IDEMPOTENCY_KEY_CONFLICT"))
       ELSE \E r \in found : Finish(h, BuildReservationResponse("OK", db, r))
    /\ UNCHANGED <<db, pend, locks, now, req>>

QuantityReplay(h) ==
    /\ At(h, "q_replay")
    /\ Replay(h, GetQuantityReservationByIdempotencyKey(db, req[h].session, req[h].key))

--------------------------------------------------------------------------------
(* ReserveSeats *)

SeatLookup(h) ==
    LET rq == req[h]
        found == GetSeatReservationByIdempotencyKey(db, rq.session, rq.key)
        rows == EventSeats(rq.event, Range(rq.seats))
    IN  /\ At(h, "s_lookup")
        /\ \/ \E r \in found :
                 Read(h, "commit",
                      [loc[h] EXCEPT !.answer = BuildReservationResponse("OK", db, r)])
           \/ found = {} /\ rows # {} /\ Read(h, "s_lock", [loc[h] EXCEPT !.todo = rows])
           \/ found = {} /\ rows = {} /\ Fail(h, "SEATS_NOT_FOUND")

\* LockEventSeats locks the rows it finds one by one, in the order of their ids.
SeatLock(h) ==
    LET s == NextId(h)
        rest == loc[h].todo \ {s}
        wanted == Range(req[h].seats)
    IN  /\ At(h, "s_lock")
        /\ \/ /\ rest # {} \/ EventSeats(req[h].event, wanted) = wanted
              /\ Lock(h, {SeatRow(s)})
              /\ Continue(h, IF rest = {} THEN "s_list" ELSE "s_lock",
                          [loc[h] EXCEPT !.todo = rest])
              /\ UNCHANGED pend
           \/ /\ rest = {} /\ EventSeats(req[h].event, wanted) # wanted
              /\ Fail(h, "SEATS_NOT_FOUND")

SeatList(h) ==
    LET stale == ListExpiredActiveReservationIDsForSeats(View(h), Range(req[h].seats))
    IN  /\ At(h, "s_list")
        /\ Read(h, IF stale = {} THEN "s_header" ELSE "s_expire",
                [loc[h] EXCEPT !.todo = stale, !.listed = stale])

\* LockReservationsByID, again in id order; under the last lock the holds that
\* are still reserved are expired.
SeatExpire(h) ==
    LET r == NextId(h)
        rest == loc[h].todo \ {r}
    IN  /\ At(h, "s_expire")
        /\ Lock(h, {ReservationRow(r)})
        /\ IF rest = {}
           THEN /\ Write(h, Overlay(ExpireReservationsByIDs(View(h), loc[h].listed),
                                    ExpireReservationSeatsByReservationIDs(View(h), loc[h].listed)))
                /\ Continue(h, "s_header", [loc[h] EXCEPT !.todo = {}, !.listed = {}])
           ELSE /\ Continue(h, "s_expire", [loc[h] EXCEPT !.todo = rest])
                /\ UNCHANGED pend

SeatHeader(h) ==
    LET rq == req[h]
    IN  /\ At(h, "s_header")
        /\ IF IsFree(View(h), rq.session, rq.key)
           THEN \E r \in FreshIds :
                   /\ Write(h, CreateReservation(r, rq.session, rq.key, rq.event,
                                                 "seats", loc[h].expires))
                   /\ Continue(h, "s_insert",
                        [loc[h] EXCEPT !.todo = Range(rq.seats), !.answer.id = r])
                   /\ UNCHANGED locks
           ELSE EndTx(h) /\ Continue(h, "s_replay", loc[h])

\* One INSERT per seat, in id order, against uq_active_reservation_seat.
SeatInsert(h) ==
    LET s == NextId(h)
        rest == loc[h].todo \ {s}
        r == loc[h].answer.id
    IN  /\ At(h, "s_insert")
        /\ IF IsTaken(View(h), s)
           THEN Fail(h, "SEAT_UNAVAILABLE")
           ELSE /\ Write(h, CreateReservationSeat(r, s, loc[h].expires))
                /\ IF rest = {}
                   THEN Continue(h, "commit",
                          [loc[h] EXCEPT !.todo = {},
                                         !.answer = Answer("OK", r, "reserved", {"reserved"})])
                   ELSE Continue(h, "s_insert", [loc[h] EXCEPT !.todo = rest])
                /\ UNCHANGED locks

SeatReplay(h) ==
    /\ At(h, "s_replay")
    /\ Replay(h, GetSeatReservationByIdempotencyKey(db, req[h].session, req[h].key))

--------------------------------------------------------------------------------
(* ConfirmReservation, CancelReservation, GetReservation *)

Target(op) == IF op = "confirm" THEN "confirmed" ELSE "cancelled"

Refusal(op) == IF op = "confirm" THEN "CANNOT_BE_CONFIRMED" ELSE "CANNOT_BE_CANCELLED"

Visible(h) ==
    /\ req[h].id \in DOMAIN db.reservations
    /\ CanAccessReservation(db.reservations[req[h].id], req[h].session)

\* Lock the header, then decide under the lock what to do with it.
TransitionLock(h) ==
    LET r == req[h].id
        op == req[h].op
        header == db.reservations[r]
        lockedGoto(label, l) ==
            /\ Lock(h, {ReservationRow(r)})
            /\ Continue(h, label, l)
            /\ UNCHANGED pend
    IN  /\ At(h, "t_lock")
        /\ \/ ~Visible(h) /\ Fail(h, "NOT_FOUND")
           \/ /\ Visible(h) /\ header.status # "reserved"
              /\ lockedGoto("commit",
                   [loc[h] EXCEPT !.answer = BuildReservationResponse(
                        IF header.status = Target(op) THEN "OK" ELSE Refusal(op), db, r)])
           \/ /\ Visible(h) /\ header.status = "reserved"
              /\ lockedGoto("t_apply",
                   [loc[h] EXCEPT !.target = IF ReservationExpired(header)
                                             THEN "expired" ELSE Target(op)])

TransitionApply(h) ==
    LET r == req[h].id
        target == loc[h].target
        writes == TransitionLocked(View(h), r, target)
        code == IF target = "expired" THEN Refusal(req[h].op) ELSE "OK"
    IN  /\ At(h, "t_apply")
        /\ IF InvariantBroken(View(h), r)
           THEN Fail(h, "INCONSISTENT")
           ELSE /\ Write(h, writes)
                /\ Lock(h, {TicketRow(t) : t \in DOMAIN writes.ticket_types})
                /\ Continue(h, "commit",
                     [loc[h] EXCEPT !.answer =
                        BuildReservationResponse(code, Overlay(writes, View(h)), r)])

\* GetReservation is not transactional: header and children are two reads.
GetHeader(h) ==
    LET r == req[h].id
    IN  /\ At(h, "g_header")
        /\ IF Visible(h)
           THEN Read(h, "g_children",
                     [loc[h] EXCEPT !.answer = Answer("OK", r, db.reservations[r].status, {})])
           ELSE Fail(h, "NOT_FOUND")

GetChildren(h) ==
    /\ At(h, "g_children")
    /\ Finish(h, [loc[h].answer EXCEPT !.children = ChildStatuses(db, req[h].id)])
    /\ UNCHANGED <<db, pend, locks, now, req>>

--------------------------------------------------------------------------------
(* The expiration worker *)

\* A poll that finds something; one that finds nothing changes nothing.
WorkerScan(w) ==
    LET batch == ListExpiredReservationsForUpdate(w)
    IN  /\ pc[w] = "idle"
        /\ batch # {}
        /\ Lock(w, {ReservationRow(r) : r \in batch})
        /\ Continue(w, "w_apply", [loc[w] EXCEPT !.todo = batch])
        /\ UNCHANGED pend

\* expireLockedReservation for the next reservation of the batch; an error
\* rolls the whole batch back.
WorkerApply(w) ==
    LET r == Current(w)
        rest == loc[w].todo \ {r}
        writes == TransitionLocked(View(w), r, "expired")
    IN  /\ At(w, "w_apply")
        /\ IF InvariantBroken(View(w), r)
           THEN Fail(w, "INCONSISTENT")
           ELSE /\ Write(w, writes)
                /\ Lock(w, {TicketRow(t) : t \in DOMAIN writes.ticket_types})
                /\ Continue(w, IF rest = {} THEN "commit" ELSE "w_apply",
                            [loc[w] EXCEPT !.todo = rest])

\* SIGTERM cancels the context of the loop and of the statement it is in.
Shutdown(w) ==
    /\ w \in Faulty
    /\ pc[w] # "down"
    /\ EndTx(w)
    /\ Goto(w, "down")
    /\ loc' = [loc EXCEPT ![w] = NoLocals]
    /\ UNCHANGED <<db, now, req, resp>>

Start(w) ==
    /\ pc[w] = "down"
    /\ Goto(w, "idle")
    /\ UNCHANGED <<db, pend, locks, now, req, loc, resp>>

--------------------------------------------------------------------------------
(* How a transaction ends, and what can go wrong with it *)

Commit(p) ==
    /\ pc[p] = "commit"
    /\ db' = View(p)
    /\ EndTx(p)
    /\ Finish(p, loc[p].answer)
    /\ UNCHANGED <<now, req>>

\* The server commits, the acknowledgement is lost.
CommitLost(p) ==
    /\ p \in Faulty
    /\ pc[p] = "commit"
    /\ db' = View(p)
    /\ EndTx(p)
    /\ Finish(p, Failure("FAILED"))
    /\ UNCHANGED <<now, req>>

\* Variant: the error of Commit is ignored.
InterruptUnnoticed(p) ==
    /\ p \in Faulty
    /\ pc[p] \notin {"idle", "done", "down"}
    /\ EndTx(p)
    /\ Finish(p, loc[p].answer)
    /\ UNCHANGED <<db, now, req>>

\* The client goes away, the request times out or the connection breaks.
Interrupt(p) ==
    /\ p \in Faulty
    /\ pc[p] \notin {"idle", "done", "down"}
    /\ Fail(p, "FAILED")

\* PostgreSQL picks a victim among the transactions of a wait cycle.
DeadlockAbort(p) ==
    /\ InWaitCycle(p)
    /\ Fail(p, "FAILED")

Tick ==
    /\ now < MaxTime
    /\ now' = now + 1
    /\ UNCHANGED <<db, pend, locks, pc, req, loc, resp>>

--------------------------------------------------------------------------------
Init ==
    /\ db = [NoWrites EXCEPT !.ticket_types =
                [t \in TicketTypes |-> [sold |-> 0, reserved |-> 0]]]
    /\ pend = [p \in Procs |-> NoWrites]
    /\ locks = [p \in Procs |-> {}]
    /\ now = 0
    /\ pc = [p \in Procs |-> "idle"]
    /\ req = [h \in Handlers |-> NoRows]
    /\ loc = [p \in Procs |-> NoLocals]
    /\ resp = [h \in Handlers |-> NoAnswer]

HandlerStep(h) ==
    \/ BeginRequest(h)
    \/ QuantityLookup(h) \/ QuantityUpdate(h) \/ QuantityHeader(h) \/ QuantityReplay(h)
    \/ SeatLookup(h) \/ SeatLock(h) \/ SeatList(h) \/ SeatExpire(h)
    \/ SeatHeader(h) \/ SeatInsert(h) \/ SeatReplay(h)
    \/ TransitionLock(h) \/ TransitionApply(h)
    \/ GetHeader(h) \/ GetChildren(h)

WorkerStep(w) == WorkerScan(w) \/ WorkerApply(w) \/ Start(w)

\* Every request is answered, the clock has reached its bound and no worker has
\* anything left to do.
AllQuiet ==
    /\ \A h \in Handlers : pc[h] = "done"
    /\ \A w \in Workers : pc[w] = "idle"
    /\ now = MaxTime
    /\ UNCHANGED vars

Next ==
    \/ \E h \in Handlers : HandlerStep(h)
    \/ \E w \in Workers : WorkerStep(w)
    \/ \E w \in Workers : Shutdown(w)
    \/ \E p \in Procs : Commit(p) \/ DeadlockAbort(p)
    \/ \E p \in Procs : CommitLost(p) \/ Interrupt(p)
    \/ Tick
    \/ AllQuiet

Spec == Init /\ [][Next]_vars

--------------------------------------------------------------------------------
(* Properties *)

TxLabels ==
    {"q_lookup", "q_update", "q_header", "s_lookup", "s_lock", "s_list", "s_expire",
     "s_header", "s_insert", "t_lock", "t_apply", "w_apply", "commit"}

\* The tables, the open transactions and the program counters have their
\* types; rows are written and locked only inside a transaction, and the
\* children of a header never precede it.
TypeOK ==
    /\ now \in 0..MaxTime
    /\ DOMAIN db.ticket_types = TicketTypes
    /\ DOMAIN db.reservations \subseteq ReservationIds
    /\ DOMAIN db.reservation_items \subseteq DOMAIN db.reservations
    /\ \A i \in DOMAIN db.reservation_seats :
          i[1] \in DOMAIN db.reservations /\ i[2] \in Seats
    /\ \A p \in Procs :
          /\ pc[p] \in TxLabels \cup {"idle", "done", "down", "q_replay", "s_replay",
                                      "g_header", "g_children"}
          /\ pc[p] \notin TxLabels => pend[p] = NoWrites /\ locks[p] = {}

\* What the committed tables say of reservation r, in the ledger's terms.
BookingOf(r) ==
    LET header == db.reservations[r]
        units(t) == IF r \in DOMAIN db.reservation_items /\ db.reservation_items[r].ticket = t
                    THEN db.reservation_items[r].quantity ELSE 0
    IN  [status |-> header.status, operation |-> <<header.session, header.key>>,
         expires |-> header.expires,
         units |-> [t \in TicketTypes |-> units(t)],
         seats |-> {i[2] : i \in SeatRowsOf(db, {r})}]

NoBooking ==
    [status |-> "none", operation |-> <<>>, expires |-> 0,
     units |-> [t \in TicketTypes |-> 0], seats |-> {}]

Book ==
    [r \in ReservationIds |->
        IF r \in DOMAIN db.reservations THEN BookingOf(r) ELSE NoBooking]

\* The logical operations behind the requests that create reservations.
Operations ==
    {<<rq.session, rq.key>> :
        rq \in {x \in UNION Range(Requests) : x.op \in {"quantity", "seats"}}}

Ledger == INSTANCE ReservationLedger WITH
    book <- Book,
    sold <- [t \in TicketTypes |-> db.ticket_types[t].sold],
    reserved <- [t \in TicketTypes |-> db.ticket_types[t].reserved]

\* Whatever the transactions interleave, commit, lose or abort, the committed
\* tables only ever take the atomic steps of the ledger: stock moves once per
\* status change, nothing is oversold, a seat has one active holder, a key one
\* reservation, and only overdue holds expire.  This is Ledger!Spec, with the
\* steps that stutter in the ledger because they change neither db nor now named
\* first.
ImplementsLedger == Ledger!Init /\ [][UNCHANGED <<db, now>> \/ Ledger!Next]_vars

\* The status of a committed header is the status of each of its children, and
\* no header is without children: lifecycle transitions, worker batches and the
\* expiry inside ReserveSeats update both tables or neither.
ChildrenAgree ==
    \A r \in DOMAIN db.reservations :
        /\ ChildStatuses(db, r) = {db.reservations[r].status}
        /\ \A i \in SeatRowsOf(db, {r}) :
              db.reservation_seats[i].expires = db.reservations[r].expires

\* A transaction that has locked a reserved header and is about to move its
\* stock finds the item reserved and enough units to move: neither a client
\* (RESERVATION_INCONSISTENT) nor a worker (the whole batch rolled back) ever
\* meets ErrReservationInvariantBroken.
NeverInconsistent ==
    \A p \in Procs :
        pc[p] \in {"t_apply", "w_apply"} =>
            /\ View(p).reservations[Current(p)].status = "reserved"
            /\ ~InvariantBroken(View(p), Current(p))

Answered(h, op, code) == pc[h] = "done" /\ req[h].op = op /\ resp[h].code = code

\* An answer stays true: a confirmation or cancellation that was acknowledged
\* is never lost or undone, a refused one was refused for good, and a created
\* reservation is committed under the caller's session and key.
AnswersStayTrue ==
    \A h \in Handlers :
        LET status == db.reservations[resp[h].id].status
        IN  /\ Answered(h, "confirm", "OK") => status = "confirmed"
            /\ Answered(h, "cancel", "OK") => status = "cancelled"
            /\ Answered(h, "confirm", "CANNOT_BE_CONFIRMED") => status \in {"cancelled", "expired"}
            /\ Answered(h, "cancel", "CANNOT_BE_CANCELLED") => status \in {"confirmed", "expired"}
            /\ \A type \in {"quantity", "seats"} : Answered(h, type, "OK") =>
                  /\ resp[h].id \in DOMAIN db.reservations
                  /\ db.reservations[resp[h].id].session = req[h].session
                  /\ db.reservations[resp[h].id].key = req[h].key
                  /\ db.reservations[resp[h].id].type = type

\* What an answer shows is shown to the session that made the reservation or to
\* another session of the same user (two anonymous sessions have no user in
\* common), and its status agrees with the children it lists, although header and
\* children are read one after the other while transitions commit.  Only
\* GetReservation, outside a transaction, may show children that are newer than
\* a reserved header; they are never older than a final one.
AnswersCoherent ==
    \A h \in Handlers : (pc[h] = "done" /\ resp[h].status # "none") =>
        LET owner == db.reservations[resp[h].id].session
        IN  /\ \/ owner = req[h].session
               \/ UserOf[owner] # NoUser /\ UserOf[owner] = UserOf[req[h].session]
            /\ \/ resp[h].children = {resp[h].status}
               \/ req[h].op = "get" /\ resp[h].status = "reserved"

\* h answers in this step, with the code given.
Answers(h, code) == pc[h] # "done" /\ pc'[h] = "done" /\ resp'[h].code = code

\* The reservations committed under the key of h's request.
Previous(h, type) ==
    {r \in DOMAIN db.reservations :
        /\ db.reservations[r].session = req[h].session
        /\ db.reservations[r].key = req[h].key
        /\ db.reservations[r].type = type}

\* A seat request whose reservation is already committed is never told that the
\* seats are unavailable, even when a retry runs concurrently with the original
\* (the header goes in before the seats), and IDEMPOTENCY_KEY_CONFLICT is
\* answered only when the key belongs to a reservation of the other type.
KeyAnswersAreRight ==
    [][\A h \in Handlers : req[h] # NoRows =>
          /\ Answers(h, "SEAT_UNAVAILABLE") => Previous(h, "seats") = {}
          /\ Answers(h, "IDEMPOTENCY_KEY_CONFLICT") =>
                Previous(h, IF req[h].op = "seats" THEN "quantity" ELSE "seats") # {}]_vars

\* A seat request is refused for a confirmed seat or for a hold that was still
\* running when the request arrived, never for one that was overdue by then and
\* only waits for the worker.
SeatRefusalIsJust ==
    [][\A h \in Handlers : (req[h] # NoRows /\ Answers(h, "SEAT_UNAVAILABLE")) =>
          \E i \in DOMAIN db.reservation_seats :
              /\ i[2] \in Range(req[h].seats)
              /\ \/ db.reservation_seats[i].status = "confirmed"
                 \/ /\ db.reservation_seats[i].status = "reserved"
                    /\ db.reservation_seats[i].expires > loc[h].expires - TTL]_vars

\* A retry of a quantity request whose reservation is already committed is
\* never told that the stock is gone.
QuantityRetryIsReplayed ==
    [][\A h \in Handlers :
          (req[h] # NoRows /\ req[h].op = "quantity" /\ Answers(h, "INSUFFICIENT_STOCK"))
              => Previous(h, "quantity") = {}]_vars

\* No transactions wait for each other in a circle.
NoWaitCycle == \A p \in Procs : ~InWaitCycle(p)

\* Two workers share the queue of overdue reservations without waiting for each
\* other in turn.
WorkersNeverDeadlock ==
    \A v, w \in Workers : v # w => ~(w \in WaitsFor(v) /\ v \in WaitsFor(w))

--------------------------------------------------------------------------------
(* Liveness.  A statement that is not blocked completes, PostgreSQL aborts a  *)
(* victim of every wait cycle, workers keep polling and are restarted, and    *)
(* time passes.  No client has to send a request.                             *)

Fairness ==
    /\ \A h \in Handlers : WF_vars(pc[h] # "idle" /\ HandlerStep(h))
    /\ \A w \in Workers : WF_vars(WorkerStep(w))
    /\ \A p \in Procs : WF_vars(Commit(p)) /\ WF_vars(DeadlockAbort(p))
    /\ WF_vars(Tick)

FairSpec == Spec /\ Fairness

\* Every request is answered: no lock, unique-key wait, deadlock or lost
\* connection keeps a handler waiting for ever.
RequestsAreAnswered ==
    \A h \in Handlers : (pc[h] # "idle") ~> (pc[h] = "done")

\* Every hold that is overdue is released, whoever reserved it and whatever
\* other requests are doing with the same rows.
OverdueHoldsAreReleased ==
    \A r \in ReservationIds :
        (r \in DOMAIN db.reservations /\ db.reservations[r].expires < now)
            ~> (r \in DOMAIN db.reservations /\ db.reservations[r].status # "reserved")

================================================================================
