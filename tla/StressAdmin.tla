------------------------------ MODULE StressAdmin ------------------------------
(***************************************************************************)
(* The stress administration (seed, reset, assert-consistency) while       *)
(* reservation requests and the expiration worker run on the same events.  *)
(*                                                                         *)
(* A row is a table name and an id; the tables are one function from rows  *)
(* to values.  An open transaction keeps what it wrote and deleted and the *)
(* rows it locked.  The transactions of the reservation service appear     *)
(* here with the rows they lock, in their order; what they do beyond that  *)
(* (keys, replays, access) is in ReservationTx.  An event has the ticket   *)
(* type and the seats Seed gives it; one seat stands for its seats, and a  *)
(* row of either is named by its event.                                    *)
(***************************************************************************)
EXTENDS Integers, FiniteSets, Functions

CONSTANTS
    StressEvents, ManualEvents,  \* the events there are, with and without the prefix
    Lookalikes,                  \* those without it whose name matches its LIKE pattern
    Total,                       \* total_quantity of every ticket type
    Holds,                       \* Holds[r]: the reservations there are
    Handlers, Requests,          \* request goroutines and what each may be asked
    Workers, BatchSize,          \* expiration workers, EXPIRATION_WORKER_BATCH_SIZE
    Faulty,                      \* handlers whose client or connection may break
    Locals,                      \* whether APP_ENV may be a local one
    TTL, Tolerance, MaxTime

ASSUME StressAssumption ==
    /\ StressEvents \cap ManualEvents = {} /\ Lookalikes \subseteq ManualEvents
    /\ BatchSize \in Nat \ {0}
    /\ Total \in Nat /\ TTL \in Nat /\ Tolerance \in Nat /\ MaxTime \in Nat
    /\ Handlers \cap (Workers \cup DOMAIN Holds \cup StressEvents \cup ManualEvents) = {}
    /\ IsFiniteSet(Handlers) /\ IsFiniteSet(DOMAIN Holds)
    /\ Faulty \subseteq Handlers
    /\ Locals \subseteq BOOLEAN
    /\ DOMAIN Requests = Handlers

\* The handlers validate the quantity, and a transition or a read names a
\* reservation.
ASSUME RequestAssumption ==
    \A h \in Handlers : \A rq \in Requests[h] :
        /\ rq.op \in {"quantity", "seats", "cancel", "confirm", "get", "seed", "reset", "assert"}
        /\ rq.op = "quantity" => rq.quantity \in Nat \ {0}
        /\ rq.op \in {"cancel", "confirm", "get"} => "id" \in DOMAIN rq

VARIABLES
    db,     \* the committed rows
    tx,     \* tx[p]: the open transaction of p
    now,    \* the wall clock
    local,  \* APP_ENV is development, local or test
    pc, req, loc, resp

vars == <<db, tx, now, local, pc, req, loc, resp>>

Procs == Handlers \cup Workers

--------------------------------------------------------------------------------
(* Rows and transactions *)

EventRow(e) == <<"events", e>>
TicketRow(e) == <<"ticket_types", e>>
SeatRow(e) == <<"seats", e>>
ReservationRow(r) == <<"reservations", r>>
ItemRow(r) == <<"reservation_items", r>>
HoldRow(r) == <<"reservation_seats", r>>

RowsOf(d, table) == {x \in DOMAIN d : x[1] = table}

NoRows == [x \in {} |-> x]

OneRow(x, value) == [y \in {x} |-> value]

\* The rows of f, and those of g that f does not have.
Patch(f, g) == [x \in DOMAIN f \cup DOMAIN g |-> IF x \in DOMAIN f THEN f[x] ELSE g[x]]

NoTx == [writes |-> NoRows, dels |-> {}, locks |-> {}, shares |-> {}]

\* What p's transaction would leave if it committed now.
View(p) ==
    LET all == Patch(tx[p].writes, db)
    IN  Restrict(all, DOMAIN all \ tx[p].dels)

\* Those who updated, deleted or selected the row FOR UPDATE.
Holders(p, row) == {o \in Procs \ {p} : row \in tx[o].locks}

\* Those who inserted a row that refers to this one (FOR KEY SHARE).
Sharers(p, row) == {o \in Procs \ {p} : row \in tx[o].shares}

Lock(t, row) == [t EXCEPT !.locks = @ \cup {row}]

Put(t, rows) ==
    [t EXCEPT !.writes = Patch(rows, @), !.locks = @ \cup DOMAIN rows]

--------------------------------------------------------------------------------
(* The statements of the reservation service, by the rows they need *)

HasStock(e, q) ==
    /\ TicketRow(e) \in DOMAIN db
    /\ Total - db[TicketRow(e)].sold - db[TicketRow(e)].reserved >= q

IsActive(status) == status \in {"reserved", "confirmed"}

\* The entries of uq_active_reservation_seat for the seat of e.
ActiveHolds(d, e) ==
    {x \in RowsOf(d, "reservation_seats") : d[x].event = e /\ IsActive(d[x].status)}

ListExpiredActive(e) ==
    {x[2] : x \in {y \in ActiveHolds(db, e) :
                      db[y].status = "reserved" /\ db[y].expires <= now}}

ChildRow(r) == IF db[ReservationRow(r)].type = "quantity" THEN ItemRow(r) ELSE HoldRow(r)

\* What ReserveQuantity adds to the units of a ticket type, and what a
\* transition moves.
MovedTicket(ticket, target, q) ==
    CASE target = "reserved" -> [ticket EXCEPT !.reserved = @ + q]
      [] target = "confirmed" -> [ticket EXCEPT !.reserved = @ - q, !.sold = @ + q]
      [] OTHER -> [ticket EXCEPT !.reserved = @ - q]

--------------------------------------------------------------------------------
(* Reset: which rows each of its statements finds *)

\* Variant: every event, whatever its name.
ListAllEventIDs == {x[2] : x \in RowsOf(db, "events")}

\* name LIKE '__stress_seed__:%', where each underscore stands for any character.
ListStressEventIDs ==
    {x[2] : x \in RowsOf(db, "events")} \ (ManualEvents \ Lookalikes)

ReservationsOf(d, E) == {x[2] : x \in {y \in RowsOf(d, "reservations") : d[y].event \in E}}

DeleteStages ==
    {"del_holds", "del_items", "del_reservations", "cascade_children",
     "del_events", "cascade_inventory"}

AfterStage(stage) ==
    CASE stage = "del_holds" -> "del_items"
      [] stage = "del_items" -> "del_reservations"
      [] stage = "del_reservations" -> "cascade_children"
      [] stage = "cascade_children" -> "del_events"
      [] stage = "del_events" -> "cascade_inventory"
      [] stage = "cascade_inventory" -> "restrict"

\* The rows a DELETE, or the cascade of one, sees when it starts.
FoundRows(p, stage) ==
    LET v == View(p)
        mine == ReservationsOf(v, loc[p].ids)
        gone(table) == {x[2] : x \in {y \in tx[p].dels : y[1] = table}}
        rows == CASE stage = "del_holds" -> {HoldRow(r) : r \in mine}
                  [] stage = "del_items" -> {ItemRow(r) : r \in mine}
                  [] stage = "del_reservations" -> {ReservationRow(r) : r \in mine}
                  [] stage = "cascade_children" ->
                        UNION {{HoldRow(r), ItemRow(r)} : r \in gone("reservations")}
                  [] stage = "del_events" -> {EventRow(e) : e \in loc[p].ids}
                  [] stage = "cascade_inventory" ->
                        UNION {{TicketRow(e), SeatRow(e)} : e \in gone("events")}
    IN  rows \cap DOMAIN v

\* A DELETE goes through its rows in some order and waits at one of them.
NextRow(p) == loc[p].row

--------------------------------------------------------------------------------
(* Who a transaction waits for *)

\* Variant: a transition locks the seats too.
ChildAndSeatBlockers(p) ==
    Holders(p, ChildRow(loc[p].res))
    \cup Holders(p, SeatRow(db[ReservationRow(loc[p].res)].event))

\* An UPDATE of the children of a locked header.
ChildBlockers(p) == Holders(p, ChildRow(loc[p].res))

Blockers(p) ==
    CASE pc[p] = "q_update" ->
            IF HasStock(req[p].event, req[p].quantity)
            THEN Holders(p, TicketRow(req[p].event)) ELSE {}
      [] pc[p] = "s_lock" -> Holders(p, SeatRow(req[p].event))
      [] pc[p] \in {"s_lockhold", "l_lock"} -> Holders(p, ReservationRow(loc[p].res))
      [] pc[p] = "s_expire" ->
            IF HoldRow(loc[p].res) \in DOMAIN db /\ db[HoldRow(loc[p].res)].status = "reserved"
            THEN Holders(p, HoldRow(loc[p].res)) ELSE {}
      [] pc[p] = "header" -> Holders(p, EventRow(req[p].event))
      [] pc[p] = "s_insert" -> UNION {Holders(p, x) : x \in ActiveHolds(db, req[p].event)}
      [] pc[p] = "l_stock" -> Holders(p, TicketRow(db[ReservationRow(loc[p].res)].event))
      [] pc[p] = "l_child" -> ChildBlockers(p)
      [] pc[p] \in DeleteStages /\ loc[p].todo # {} ->
            Holders(p, NextRow(p)) \cup Sharers(p, NextRow(p))
      [] pc[p] = "restrict" ->
            UNION {Holders(p, ReservationRow(r)) : r \in ReservationsOf(View(p), loc[p].ids)}
      [] OTHER -> {}

\* A set of processes with everyone they wait for.
Closed(S) == \A o \in S : Blockers(o) \subseteq S

\* Everyone p waits for, directly or through others.
WaitsFor(p) ==
    {o \in Procs : \A S \in SUBSET Procs : Blockers(p) \subseteq S /\ Closed(S) => o \in S}

InWaitCycle(p) == Blockers(p) # {} /\ p \in WaitsFor(p)

--------------------------------------------------------------------------------
(* How a service call starts, goes on and ends *)

NoAnswer == [code |-> "none", events |-> {}, deleted |-> 0, failed |-> {}, children |-> {}]

NoLocals ==
    [ids |-> {}, todo |-> {}, row |-> <<>>, res |-> "none", expires |-> 0, target |-> "none",
     check |-> 0, answer |-> NoAnswer]

Ok == [NoAnswer EXCEPT !.code = "OK"]

At(p, label) == pc[p] = label /\ Blockers(p) = {}

Continue(p, label, t, l) ==
    /\ pc' = [pc EXCEPT ![p] = label]
    /\ tx' = [tx EXCEPT ![p] = t]
    /\ loc' = [loc EXCEPT ![p] = l]
    /\ UNCHANGED <<db, now, local, req, resp>>

\* The transaction is over; a handler answers, a worker goes back to its loop.
Finish(p, answer) ==
    /\ tx' = [tx EXCEPT ![p] = NoTx]
    /\ loc' = [loc EXCEPT ![p] = NoLocals]
    /\ IF p \in Handlers
       THEN resp' = [resp EXCEPT ![p] = answer] /\ pc' = [pc EXCEPT ![p] = "done"]
       ELSE pc' = [pc EXCEPT ![p] = "idle"] /\ UNCHANGED resp
    /\ UNCHANGED <<now, local, req>>

\* Variant: no deferred Rollback.
FailLeavesTxOpen(p, code) ==
    /\ pc' = [pc EXCEPT ![p] = "done"]
    /\ resp' = IF p \in Handlers THEN [resp EXCEPT ![p].code = code] ELSE resp
    /\ UNCHANGED <<db, tx, now, local, req, loc>>

\* Variant: the worker does not poll again after an error.
FailStopsWorker(p, code) ==
    /\ tx' = [tx EXCEPT ![p] = NoTx]
    /\ pc' = [pc EXCEPT ![p] = "done"]
    /\ resp' = IF p \in Handlers THEN [resp EXCEPT ![p].code = code] ELSE resp
    /\ UNCHANGED <<db, now, local, req, loc>>

Fail(p, code) == Finish(p, [NoAnswer EXCEPT !.code = code]) /\ UNCHANGED db

Commit(p) ==
    /\ pc[p] = "commit"
    /\ db' = View(p)
    /\ Finish(p, loc[p].answer)

FirstStatement(op) ==
    CASE op = "quantity" -> "q_update"
      [] op = "seats" -> "s_lock"
      [] op \in {"cancel", "confirm"} -> "l_lock"
      [] op = "get" -> "g_header"
      [] op = "seed" -> "e_event"
      [] op = "reset" -> "r_list"
      [] op = "assert" -> "check"

AdminOps == {"seed", "reset", "assert"}

\* Outside a local environment the admin endpoints answer 404.
BeginRequest(h) ==
    /\ pc[h] = "idle"
    /\ \E rq \in Requests[h] :
          /\ req' = [req EXCEPT ![h] = rq]
          /\ IF rq.op \in AdminOps /\ ~local
             THEN /\ resp' = [resp EXCEPT ![h].code = "DISABLED"]
                  /\ pc' = [pc EXCEPT ![h] = "done"]
                  /\ UNCHANGED loc
             ELSE /\ pc' = [pc EXCEPT ![h] = FirstStatement(rq.op)]
                  /\ loc' = [loc EXCEPT ![h].expires = now + TTL,
                                        ![h].check = 1,
                                        ![h].res = IF "id" \in DOMAIN rq THEN rq.id ELSE "none"]
                  /\ UNCHANGED resp
    /\ UNCHANGED <<db, tx, now, local>>

--------------------------------------------------------------------------------
(* ReserveQuantity and ReserveSeats *)

\* A ticket row that is gone and one without stock look the same.
QuantityUpdate(h) ==
    LET e == req[h].event
        q == req[h].quantity
    IN  /\ At(h, "q_update")
        /\ IF HasStock(e, q)
           THEN Continue(h, "header",
                  Put(tx[h], OneRow(TicketRow(e), MovedTicket(db[TicketRow(e)], "reserved", q))),
                  loc[h])
           ELSE Fail(h, "INSUFFICIENT_STOCK")

SeatLock(h) ==
    LET e == req[h].event
    IN  /\ At(h, "s_lock")
        /\ IF SeatRow(e) \in DOMAIN db
           THEN Continue(h, "s_list", Lock(tx[h], SeatRow(e)), loc[h])
           ELSE Fail(h, "SEATS_NOT_FOUND")

SeatList(h) ==
    LET stale == ListExpiredActive(req[h].event)
    IN  /\ At(h, "s_list")
        /\ \/ stale = {} /\ Continue(h, "header", tx[h], loc[h])
           \/ \E r \in stale : Continue(h, "s_lockhold", tx[h], [loc[h] EXCEPT !.res = r])

SeatLockHold(h) ==
    /\ At(h, "s_lockhold")
    /\ Continue(h, "s_expire", Lock(tx[h], ReservationRow(loc[h].res)), loc[h])

\* The hold and its header, where they are still there and still reserved.
SeatExpire(h) ==
    LET r == loc[h].res
        due == {x \in {HoldRow(r), ReservationRow(r)} \cap DOMAIN db : db[x].status = "reserved"}
    IN  /\ At(h, "s_expire")
        /\ Continue(h, "header",
              Put(tx[h], [x \in due |-> [db[x] EXCEPT !.status = "expired"]]), loc[h])

\* The header and, for a quantity, its item.  The foreign key to the event
\* needs a key share lock on it.
Header(h) ==
    LET e == req[h].event
        new == OneRow(ReservationRow(h),
                  [event |-> e, type |-> req[h].op, status |-> "reserved",
                   expires |-> loc[h].expires])
        item == OneRow(ItemRow(h),
                  [event |-> e, quantity |-> req[h].quantity, status |-> "reserved"])
        t == [tx[h] EXCEPT !.shares = @ \cup {EventRow(e)}]
    IN  /\ At(h, "header")
        /\ IF EventRow(e) \notin DOMAIN db
           THEN Fail(h, "DANGLING")
           ELSE IF req[h].op = "quantity"
           THEN Continue(h, "commit", Put(t, Patch(new, item)), [loc[h] EXCEPT !.answer = Ok])
           ELSE Continue(h, "s_insert", Put(t, new), loc[h])

SeatInsert(h) ==
    LET e == req[h].event
    IN  /\ At(h, "s_insert")
        /\ IF ActiveHolds(View(h), e) # {}
           THEN Fail(h, "SEAT_UNAVAILABLE")
           ELSE Continue(h, "commit",
                  Put(tx[h], OneRow(HoldRow(h), [event |-> e, status |-> "reserved",
                                                 expires |-> loc[h].expires])),
                  [loc[h] EXCEPT !.answer = Ok])

--------------------------------------------------------------------------------
(* ConfirmReservation, CancelReservation, the worker and GetReservation *)

Target(op) == IF op = "confirm" THEN "confirmed" ELSE "cancelled"

\* The first statement for a reservation whose header is locked.
FirstMove(row) == IF db[row].type = "quantity" THEN "l_stock" ELSE "l_child"

\* Under the lock of the header p goes on to move it to target.
StartTransition(p, row, target) ==
    Continue(p, FirstMove(row), Lock(tx[p], row),
             [loc[p] EXCEPT !.res = row[2], !.target = target])

LifecycleLock(h) ==
    LET row == ReservationRow(loc[h].res)
        target == Target(req[h].op)
    IN  /\ At(h, "l_lock")
        /\ \/ row \notin DOMAIN db /\ Fail(h, "NOT_FOUND")
           \/ /\ row \in DOMAIN db /\ db[row].status = "reserved"
              /\ StartTransition(h, row, IF db[row].expires <= now THEN "expired" ELSE target)
           \/ /\ row \in DOMAIN db /\ db[row].status # "reserved"
              /\ Continue(h, "commit", Lock(tx[h], row),
                    [loc[h] EXCEPT !.answer =
                        IF db[row].status = target THEN Ok ELSE [Ok EXCEPT !.code = "REFUSED"]])

\* The batches ListExpiredReservationsForUpdate may lock: those of the overdue
\* reservations that nobody has locked (SKIP LOCKED) with the earliest deadlines,
\* up to the limit.
ExpiredBatches(w) ==
    LET due == {x \in RowsOf(db, "reservations") :
                  /\ db[x].status = "reserved" /\ db[x].expires < now
                  /\ Holders(w, x) = {}}
    IN  {batch \in SUBSET due \ {{}} :
           /\ Cardinality(batch) <= BatchSize
           /\ batch = due \/ Cardinality(batch) = BatchSize
           /\ \A x \in batch, y \in due \ batch : db[x].expires <= db[y].expires}

\* The worker goes on with the reservation of the earliest deadline.
NextOfBatch(w, t, left) ==
    \E row \in left :
        /\ \A y \in left : db[row].expires <= db[y].expires
        /\ Continue(w, FirstMove(row), t,
              [loc[w] EXCEPT !.res = row[2], !.target = "expired", !.todo = left \ {row}])

WorkerScan(w) ==
    /\ pc[w] = "idle"
    /\ \E batch \in ExpiredBatches(w) :
          NextOfBatch(w, [tx[w] EXCEPT !.locks = @ \cup batch], batch)

\* The item is listed and its units are moved; a batch may have moved others of
\* the same ticket type.
LifecycleStock(p) ==
    LET v == View(p)
        item == ItemRow(loc[p].res)
        ticket == TicketRow(db[ReservationRow(loc[p].res)].event)
    IN  /\ At(p, "l_stock")
        /\ IF /\ item \in DOMAIN v /\ v[item].status = "reserved"
              /\ ticket \in DOMAIN v /\ v[ticket].reserved >= v[item].quantity
           THEN Continue(p, "l_child",
                  Put(tx[p], OneRow(ticket, MovedTicket(v[ticket], loc[p].target, v[item].quantity))),
                  loc[p])
           ELSE Fail(p, "INCONSISTENT")

\* The children and the header; a worker goes on with the rest of its batch.
LifecycleChild(p) ==
    LET r == loc[p].res
        due == {x \in {ChildRow(r), ReservationRow(r)} \cap DOMAIN db : db[x].status = "reserved"}
        t == Put(tx[p], [x \in due |-> [db[x] EXCEPT !.status = loc[p].target]])
    IN  /\ At(p, "l_child")
        /\ IF loc[p].todo = {}
           THEN Continue(p, "commit", t,
                  [loc[p] EXCEPT !.answer =
                      IF loc[p].target = "expired" THEN [Ok EXCEPT !.code = "REFUSED"] ELSE Ok])
           ELSE NextOfBatch(p, t, loc[p].todo)

\* Not transactional: the header first, then the children.
GetHeader(h) ==
    /\ At(h, "g_header")
    /\ IF ReservationRow(loc[h].res) \in DOMAIN db
       THEN Continue(h, "g_children", tx[h], loc[h])
       ELSE Fail(h, "NOT_FOUND")

GetChildren(h) ==
    /\ At(h, "g_children")
    /\ Finish(h, [Ok EXCEPT !.children = {ItemRow(loc[h].res), HoldRow(loc[h].res)} \cap DOMAIN db])
    /\ UNCHANGED db

--------------------------------------------------------------------------------
(* Seed *)

\* Variant: no transaction, the event is visible at once.
SeedEventAtOnce(h) ==
    /\ At(h, "e_event")
    /\ db' = Patch(db, OneRow(EventRow(h), [event |-> h]))
    /\ pc' = [pc EXCEPT ![h] = "e_ticket"]
    /\ UNCHANGED <<tx, now, local, req, loc, resp>>

\* The new rows wait in the transaction; nobody can block them or see them.
SeedEvent(h) ==
    /\ At(h, "e_event")
    /\ Continue(h, "e_ticket", Put(tx[h], OneRow(EventRow(h), [event |-> h])), loc[h])

SeedTicket(h) ==
    /\ At(h, "e_ticket")
    /\ Continue(h, "e_seats",
          Put(tx[h], OneRow(TicketRow(h), [event |-> h, sold |-> 0, reserved |-> 0])), loc[h])

SeedSeats(h) ==
    /\ At(h, "e_seats")
    /\ Continue(h, "commit", Put(tx[h], OneRow(SeatRow(h), [event |-> h])),
                [loc[h] EXCEPT !.answer = [Ok EXCEPT !.events = {h}]])

--------------------------------------------------------------------------------
(* Reset *)

ResetList(h) ==
    /\ At(h, "r_list")
    /\ IF ListStressEventIDs = {}
       THEN Continue(h, "commit", tx[h], [loc[h] EXCEPT !.answer = Ok])
       ELSE Continue(h, "del_holds", tx[h], [loc[h] EXCEPT !.ids = ListStressEventIDs])

\* It goes on with any of the rows that are left, and after the last one with
\* the next stage.
DeleteGoesOn(h, t, left) ==
    \/ left = {} /\ Continue(h, AfterStage(pc[h]), t, [loc[h] EXCEPT !.todo = {}, !.row = <<>>])
    \/ \E x \in left : Continue(h, pc[h], t, [loc[h] EXCEPT !.todo = left, !.row = x])

\* A DELETE takes its snapshot; one that finds nothing is over.
DeleteBegin(h) ==
    /\ pc[h] \in DeleteStages /\ loc[h].todo = {}
    /\ DeleteGoesOn(h, tx[h], FoundRows(h, pc[h]))

\* Variant: no transaction, every DELETE is visible at once.
DeleteAtOnce(h) ==
    LET x == NextRow(h)
        rest == loc[h].todo \ {x}
    IN  /\ pc[h] \in DeleteStages /\ loc[h].todo # {} /\ Blockers(h) = {}
        /\ db' = Restrict(db, DOMAIN db \ {x})
        /\ tx' = [tx EXCEPT ![h].dels = @ \cup {x}]
        /\ pc' = [pc EXCEPT ![h] = IF rest = {} THEN AfterStage(pc[h]) ELSE pc[h]]
        /\ \E y \in rest \cup {x} :
              /\ rest # {} => y # x
              /\ loc' = [loc EXCEPT ![h].todo = rest, ![h].row = y]
        /\ UNCHANGED <<now, local, req, resp>>

\* It waits for the holders of its next row, and skips a row that another
\* transaction deleted meanwhile.
DeleteRow(h) ==
    LET x == NextRow(h)
        t == IF x \in DOMAIN db
             THEN [Lock(tx[h], x) EXCEPT !.dels = @ \cup {x}]
             ELSE tx[h]
    IN  /\ pc[h] \in DeleteStages /\ loc[h].todo # {} /\ Blockers(h) = {}
        /\ DeleteGoesOn(h, t, loc[h].todo \ {x})

\* DeleteStressEvents returns the rows it affected.
EventsDeleted(h) == Cardinality({x \in tx[h].dels : x[1] = "events"})

\* Variant: reservations.event_id does not restrict.
ResetUnrestricted(h) ==
    /\ At(h, "restrict")
    /\ Continue(h, "commit", tx[h],
          [loc[h] EXCEPT !.answer =
              [Ok EXCEPT !.events = loc[h].ids, !.deleted = EventsDeleted(h)]])

\* ON DELETE RESTRICT: a reservation that was committed since DELETE FROM
\* reservations took its snapshot keeps the event, and Reset rolls back.
ResetRestrict(h) ==
    LET deleted == {x[2] : x \in {y \in tx[h].dels : y[1] = "events"}}
    IN  /\ At(h, "restrict")
        /\ IF ReservationsOf(View(h), deleted) # {}
           THEN Fail(h, "RESTRICTED")
           ELSE Continue(h, "commit", tx[h],
                  [loc[h] EXCEPT !.answer =
                      [Ok EXCEPT !.events = loc[h].ids, !.deleted = EventsDeleted(h)]])

--------------------------------------------------------------------------------
(* AssertConsistency *)

ListNegativeTicketQuantityViolations ==
    {x \in RowsOf(db, "ticket_types") : db[x].sold < 0 \/ db[x].reserved < 0 \/ Total < 0}

ListOversoldTicketQuantityViolations ==
    {x \in RowsOf(db, "ticket_types") : db[x].sold + db[x].reserved > Total}

ListDuplicateActiveSeatViolations ==
    {x \in RowsOf(db, "reservation_seats") : Cardinality(ActiveHolds(db, db[x].event)) > 1
                                             /\ IsActive(db[x].status)}

ListOrphanViolations(table) ==
    {x \in RowsOf(db, table) : ReservationRow(x[2]) \notin DOMAIN db}

\* Variant: the threshold itself counts as late.
ListStaleAtThreshold(threshold) ==
    {x \in RowsOf(db, "reservations") : db[x].status = "reserved" /\ db[x].expires <= threshold}

ListStaleExpiredActiveReservationViolations(threshold) ==
    {x \in RowsOf(db, "reservations") : db[x].status = "reserved" /\ db[x].expires < threshold}

\* The rows the next query of a report finds.
CheckedRows(h) ==
    CASE loc[h].check = 1 -> ListNegativeTicketQuantityViolations
      [] loc[h].check = 2 -> ListOversoldTicketQuantityViolations
      [] loc[h].check = 3 -> ListDuplicateActiveSeatViolations
      [] loc[h].check = 4 -> ListOrphanViolations("reservation_items")
      [] loc[h].check = 5 -> ListOrphanViolations("reservation_seats")
      [] loc[h].check = 6 -> {}
      [] loc[h].check = 7 -> ListStaleExpiredActiveReservationViolations(loc[h].expires)

LastCheck == 7

\* One query per step, each on what is committed then; step 6 reads the clock
\* for the threshold of the last query.
AssertCheck(h) ==
    LET n == loc[h].check
        failed == loc[h].answer.failed \cup ({n} \X CheckedRows(h))
        answer == [Ok EXCEPT !.failed = failed]
    IN  /\ At(h, "check")
        /\ IF n = LastCheck
           THEN Finish(h, answer) /\ UNCHANGED db
           ELSE Continue(h, "check", tx[h],
                  [loc[h] EXCEPT !.answer = answer, !.check = n + 1,
                                 !.expires = IF n = 6 THEN now - Tolerance ELSE @])

--------------------------------------------------------------------------------
(* What can go wrong *)

\* The client goes away or the connection breaks; the transaction is rolled back.
Interrupt(h) ==
    /\ h \in Faulty
    /\ pc[h] \notin {"idle", "done"}
    /\ Fail(h, "FAILED")

\* The server commits, the acknowledgement is lost.
CommitLost(h) ==
    /\ h \in Faulty
    /\ pc[h] = "commit"
    /\ db' = View(h)
    /\ Finish(h, [NoAnswer EXCEPT !.code = "FAILED"])

\* PostgreSQL picks a victim among the transactions of a wait cycle.
DeadlockAbort(p) == InWaitCycle(p) /\ Fail(p, "DEADLOCK")

Tick ==
    /\ now < MaxTime
    /\ now' = now + 1
    /\ UNCHANGED <<db, tx, local, pc, req, loc, resp>>

--------------------------------------------------------------------------------
Events == StressEvents \cup ManualEvents

\* The units of an event's ticket type in the items of d with a status, one
\* element per unit; no item has more than all units.
Units(d, e, status) ==
    {u \in RowsOf(d, "reservation_items") \X (1..Total) :
        d[u[1]].event = e /\ d[u[1]].status = status /\ u[2] <= d[u[1]].quantity}

HoldsOfType(t) == {r \in DOMAIN Holds : Holds[r].type = t}

InitialItems ==
    [x \in {ItemRow(r) : r \in HoldsOfType("quantity")} |->
        [event |-> Holds[x[2]].event, quantity |-> Holds[x[2]].quantity,
         status |-> Holds[x[2]].status]]

InitialHolds ==
    [x \in {HoldRow(r) : r \in HoldsOfType("seats")} |->
        [event |-> Holds[x[2]].event, status |-> Holds[x[2]].status,
         expires |-> Holds[x[2]].expires]]

InitialReservations ==
    [x \in {ReservationRow(r) : r \in DOMAIN Holds} |->
        [event |-> Holds[x[2]].event, type |-> Holds[x[2]].type,
         status |-> Holds[x[2]].status, expires |-> Holds[x[2]].expires]]

InitialTickets ==
    [x \in {TicketRow(e) : e \in Events} |->
        [event |-> x[2],
         sold |-> Cardinality(Units(InitialItems, x[2], "confirmed")),
         reserved |-> Cardinality(Units(InitialItems, x[2], "reserved"))]]

InitialFixtures ==
    [x \in {EventRow(e) : e \in Events} \cup {SeatRow(e) : e \in Events} |-> [event |-> x[2]]]

InitialRows ==
    Patch(InitialFixtures, Patch(InitialTickets,
        Patch(InitialReservations, Patch(InitialItems, InitialHolds))))

\* The reservations there are were made by this program: nothing is oversold and a
\* seat has one active hold.
ASSUME HoldsAssumption ==
    /\ \A r \in DOMAIN Holds :
          /\ Holds[r].event \in Events /\ Holds[r].type \in {"quantity", "seats"}
          /\ Holds[r].status \in {"reserved", "confirmed", "cancelled", "expired"}
          /\ Holds[r].expires \in Nat
          /\ Holds[r].type = "quantity" => Holds[r].quantity \in 1..Total
    /\ \A e \in Events :
          Cardinality(Units(InitialItems, e, "confirmed"))
              + Cardinality(Units(InitialItems, e, "reserved")) <= Total
    /\ \A x, y \in DOMAIN InitialHolds :
          /\ InitialHolds[x].event = InitialHolds[y].event
          /\ IsActive(InitialHolds[x].status) /\ IsActive(InitialHolds[y].status)
          => x = y

Init ==
    /\ db = InitialRows
    /\ tx = [p \in Procs |-> NoTx]
    /\ now = 0
    /\ local \in Locals
    /\ pc = [p \in Procs |-> "idle"]
    /\ req = [h \in Handlers |-> NoRows]
    /\ loc = [p \in Procs |-> NoLocals]
    /\ resp = [h \in Handlers |-> NoAnswer]

HandlerStep(h) ==
    \/ BeginRequest(h)
    \/ QuantityUpdate(h) \/ SeatLock(h) \/ SeatList(h) \/ SeatLockHold(h) \/ SeatExpire(h)
    \/ Header(h) \/ SeatInsert(h)
    \/ LifecycleLock(h) \/ LifecycleStock(h) \/ LifecycleChild(h)
    \/ GetHeader(h) \/ GetChildren(h)
    \/ SeedEvent(h) \/ SeedTicket(h) \/ SeedSeats(h)
    \/ ResetList(h) \/ DeleteBegin(h) \/ DeleteRow(h) \/ ResetRestrict(h)
    \/ AssertCheck(h)
    \/ Commit(h)

WorkerStep(w) == WorkerScan(w) \/ LifecycleStock(w) \/ LifecycleChild(w) \/ Commit(w)

\* Every request is answered, the clock has reached its bound and the worker
\* has nothing left to do.
AllQuiet ==
    /\ \A h \in Handlers : pc[h] = "done"
    /\ \A w \in Workers : pc[w] = "idle"
    /\ now = MaxTime
    /\ UNCHANGED vars

Next ==
    \/ \E h \in Handlers : HandlerStep(h)
    \/ \E w \in Workers : WorkerStep(w)
    \/ \E p \in Procs : DeadlockAbort(p)
    \/ \E h \in Handlers : Interrupt(h) \/ CommitLost(h)
    \/ Tick
    \/ AllQuiet

Spec == Init /\ [][Next]_vars

\* Goroutines and workers keep running and PostgreSQL looks for deadlocks.  A
\* handler that waits for a row is woken when the holder's transaction ends, and
\* a worker polls again only after its interval: a waiting handler is not passed
\* for ever.  No client has to send, nobody has to break, and the clock need not
\* move.
FairSpec ==
    /\ Spec
    /\ \A h \in Handlers : SF_vars(pc[h] # "idle" /\ HandlerStep(h))
    /\ \A w \in Workers : WF_vars(WorkerStep(w))
    /\ WF_vars(\E p \in Procs : DeadlockAbort(p))

--------------------------------------------------------------------------------
(* Properties *)

\* Whatever Seed, Reset and the reservation requests do at the same time, what
\* is committed is whole: an event has its ticket type and its seats, a
\* reservation has its event and its item or hold, a child has its header, and
\* the counters of every ticket type count the units of the items that are left.
FixturesWhole ==
    /\ \A x \in DOMAIN db :
          CASE x[1] = "events" -> {TicketRow(x[2]), SeatRow(x[2])} \subseteq DOMAIN db
            [] x[1] \in {"ticket_types", "seats"} -> EventRow(x[2]) \in DOMAIN db
            [] x[1] = "reservations" ->
                  {EventRow(db[x].event), ChildRow(x[2])} \subseteq DOMAIN db
            [] OTHER -> ReservationRow(x[2]) \in DOMAIN db
    /\ \A x \in RowsOf(db, "ticket_types") :
          /\ db[x].reserved = Cardinality(Units(db, x[2], "reserved"))
          /\ db[x].sold = Cardinality(Units(db, x[2], "confirmed"))

\* Once Reset has answered 200, no row of an event it listed exists, and none
\* ever appears again: not the reservation that was waiting for the event, nor
\* one whose transaction began before Reset.
ResetIsComplete ==
    \A h \in Handlers :
        pc[h] = "done" /\ req[h].op = "reset" /\ resp[h].code = "OK" =>
            \A x \in DOMAIN db : db[x].event \notin resp[h].events

\* No request ever runs into a half-done Reset: no transition finds its header
\* without the item (ErrReservationInvariantBroken), no header is inserted for an
\* event that is gone (a foreign key violation), and GetReservation, which reads
\* header and children in two statements, shows a reservation without children
\* only if that was deleted meanwhile.
ResetNeverSeenHalfway ==
    \A h \in Handlers :
        /\ resp[h].code \notin {"INCONSISTENT", "DANGLING"}
        /\ pc[h] = "done" /\ req[h].op = "get" /\ resp[h].code = "OK" /\ resp[h].children = {} =>
              ReservationRow(req[h].id) \notin DOMAIN db

\* Where every request takes one seat at most and has a key of its own, the
\* transactions of the reservation service deadlock only with a Reset or between
\* workers: every wait cycle has a Reset or two workers in it.  Requests and
\* transitions take seats, header, stock and children in one order; a Reset
\* deletes children first and inventory last, and a worker goes through the
\* ticket types of its batch in the order of the deadlines.
CyclesNeedResetOrWorkers ==
    \A p \in Procs : InWaitCycle(p) =>
        LET cycle == {o \in WaitsFor(p) : p \in WaitsFor(o)}
        IN  \/ \E o \in cycle \cap Handlers : req[o].op = "reset"
            \/ \E v, w \in cycle \cap Workers : v # w

\* assert-consistency never raises a false alarm although its queries run one
\* after the other on moving tables: the five structural checks find nothing, and
\* a reservation that is reported as stale is one whose own deadline is past by
\* more than the tolerance.
NoFalseAlarm ==
    \A h \in Handlers : \A v \in resp[h].failed :
        LET row == v[2]
        IN  /\ v[1] = LastCheck
            /\ row \in DOMAIN db => db[row].expires + Tolerance < now
            /\ row[2] \in DOMAIN Holds => Holds[row[2]].expires + Tolerance < now

\* "manual events created while exploring the API are not deleted accidentally"
\* (stressadmin/service.go): only Reset, in a local environment, deletes rows, and
\* only rows of events with the prefix.
ManualRowsStay ==
    [][\A x \in DOMAIN db \ DOMAIN db' : local /\ db[x].event \notin ManualEvents]_vars

\* Every request is answered: Reset, the reservations it deadlocks with, and
\* the reports.
EveryoneAnswered == \A h \in Handlers : pc[h] # "idle" ~> pc[h] = "done"

\* The worker goes on under resets and deadlocks: an overdue hold does not stay
\* reserved, so a report that is asked for later is ok again.
OverdueHandled ==
    \A r \in DOMAIN Holds :
        LET overdue == /\ ReservationRow(r) \in DOMAIN db
                       /\ db[ReservationRow(r)].status = "reserved"
                       /\ db[ReservationRow(r)].expires < now
        IN  overdue ~> ~overdue

================================================================================
