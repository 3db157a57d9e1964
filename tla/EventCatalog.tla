------------------------------ MODULE EventCatalog -----------------------------
(***************************************************************************)
(* The event catalogue: events, ticket types and seats are created, and    *)
(* the inventory is read, while reservations change what it shows and a    *)
(* stress reset may delete an event.                                       *)
(*                                                                         *)
(* No operation of the catalogue runs in a transaction: every statement is *)
(* a step of its own, and a batch of seats is inserted one by one.  Of the *)
(* reservation service only the committed effect on holds and counters is  *)
(* here (ReservationTx has the rest), of Reset only the events it deletes  *)
(* (StressAdmin has the rest).  Rows are named after the handler that      *)
(* created them.                                                           *)
(***************************************************************************)
EXTENDS Integers, FiniteSets, Sequences, Functions

CONSTANTS
    Handlers,      \* request goroutines
    Requests,      \* Requests[h]: what handler h may be asked
    GivenEvents,   \* the events there are
    StressEvents,  \* the events whose name has the prefix of the fixtures
    Malformed,     \* an event id that is no UUID, a body that is no JSON
    Blank,         \* a name or a place that is empty once it is trimmed
    Trimmed,       \* Trimmed[s]: the place of a seat without spaces around
    HoldIds,       \* reservation_seats rows the reservation service may add
    Faulty         \* handlers whose database call may fail

ASSUME CatalogAssumption ==
    /\ DOMAIN Requests = Handlers
    /\ GivenEvents \cap Handlers = {} /\ Malformed \notin GivenEvents \cup Handlers
    /\ Faulty \subseteq Handlers
    /\ IsFiniteSet(HoldIds)

\* A body that is JSON decodes to a list of places or to an int.
ASSUME RequestAssumption ==
    \A h \in Handlers : \A rq \in Requests[h] : rq.body # Malformed =>
        /\ rq.op = "seats" => rq.body \in Seq(DOMAIN Trimmed)
        /\ rq.op = "ticket" => rq.body.total \in Int

VARIABLES
    events,   \* the ids of the events
    tickets,  \* tickets[t]: the ticket types
    seats,    \* the rows of seats
    holds,    \* the rows of reservation_seats
    pc, req,
    before,   \* before[h]: the requests answered before that of h was sent
    loc,      \* loc[h]: the answer so far, and the seats of a batch still to do
    resp

db == <<events, tickets, seats, holds>>
vars == <<events, tickets, seats, holds, pc, req, before, loc, resp>>

NoAnswer == [code |-> "none", todo |-> <<>>, tickets |-> {}, seats |-> {}]

--------------------------------------------------------------------------------
(* Requests *)

\* What the service refuses before it asks the database.
IsInvalid(rq) ==
    CASE rq.op = "event" -> \/ rq.body.name = Blank \/ 0 \in {rq.body.starts, rq.body.ends}
                            \/ ~(rq.body.ends > rq.body.starts)
      [] rq.op = "ticket" -> rq.body.name = Blank \/ rq.body.total < 0
      [] rq.op = "seats" -> rq.body = <<>>
      [] OTHER -> FALSE

Answer(h, a) ==
    /\ resp' = [resp EXCEPT ![h] = a]
    /\ pc' = [pc EXCEPT ![h] = "done"]
    /\ UNCHANGED <<req, before, loc>>

Refuse(h, code) == Answer(h, [loc[h] EXCEPT !.code = code])

Continue(h, label, l) ==
    /\ pc' = [pc EXCEPT ![h] = label]
    /\ loc' = [loc EXCEPT ![h] = l]
    /\ UNCHANGED <<req, before, resp>>

\* The path, the body and the input are checked in this order.
BeginRequest(h) ==
    /\ pc[h] = "idle"
    /\ \E rq \in Requests[h] :
          LET bad == rq.event = Malformed \/ rq.body = Malformed \/ IsInvalid(rq)
          IN  /\ req' = [req EXCEPT ![h] = rq]
              /\ before' = [before EXCEPT ![h] = {o \in Handlers : pc[o] = "done"}]
              /\ pc' = [pc EXCEPT ![h] = CASE bad -> "done"
                                           [] ~bad /\ rq.op = "event" -> "insert_event"
                                           [] OTHER -> "get_event"]
              /\ resp' = IF bad THEN [resp EXCEPT ![h].code = "INVALID"] ELSE resp
    /\ UNCHANGED <<db, loc>>

\* GetEvent, as an answer or as the check before the other operations.
GetEvent(h) ==
    LET op == req[h].op
    IN  /\ pc[h] = "get_event"
        /\ \/ req[h].event \notin events /\ Refuse(h, "NOT_FOUND")
           \/ /\ req[h].event \in events /\ op = "get"
              /\ Answer(h, [loc[h] EXCEPT !.code = "OK"])
           \/ /\ req[h].event \in events /\ op = "ticket"
              /\ Continue(h, "insert_ticket", loc[h])
           \/ /\ req[h].event \in events /\ op = "seats"
              /\ Continue(h, "insert_seat", [loc[h] EXCEPT !.todo = req[h].body])
           \/ /\ req[h].event \in events /\ op = "inventory"
              /\ Continue(h, "list_tickets", loc[h])
        /\ UNCHANGED db

--------------------------------------------------------------------------------
(* Creating *)

InsertEvent(h) == events' = events \cup {h} /\ UNCHANGED <<tickets, seats, holds>>

CreateEvent(h) ==
    /\ pc[h] = "insert_event"
    /\ InsertEvent(h)
    /\ Answer(h, [loc[h] EXCEPT !.code = "CREATED"])

InsertTicket(h) ==
    /\ tickets' = [t \in DOMAIN tickets \cup {h} |->
          IF t = h THEN [event |-> req[h].event, total |-> req[h].body.total,
                         sold |-> 0, reserved |-> 0]
          ELSE tickets[t]]
    /\ UNCHANGED <<events, seats, holds>>

\* The event may be gone since GetEvent: then the foreign key fails.
CreateTicketType(h) ==
    /\ pc[h] = "insert_ticket"
    /\ \/ /\ req[h].event \in events
          /\ InsertTicket(h)
          /\ Answer(h, [loc[h] EXCEPT !.code = "CREATED"])
       \/ /\ req[h].event \notin events
          /\ Refuse(h, "FAILED")
          /\ UNCHANGED db

\* Variant: the unique constraint is on the place as it was typed.
IsFreeAsTyped(e, place) ==
    \A s \in seats : s.event = e /\ s.typed = place => s.place # Trimmed[place]

\* uq_seats_event_section_row_seat has no entry.
IsFree(e, place) == \A s \in seats : s.event = e => s.place # Trimmed[place]

NewSeat(h, place) ==
    [by |-> h, event |-> req[h].event, place |-> Trimmed[place], typed |-> place]

\* The place of the next seat of the batch is not empty.
NextIsValid(h) == Trimmed[Head(loc[h].todo)] # Blank

\* Neither the foreign key nor the unique constraint is in its way.
NextIsFree(h) == req[h].event \in events /\ IsFree(req[h].event, Head(loc[h].todo))

InsertSeat(h) ==
    /\ seats' = seats \cup {NewSeat(h, Head(loc[h].todo))}
    /\ UNCHANGED <<events, tickets, holds>>

\* Variant: seats that cannot be created are skipped.
CreateSeatOrSkip(h) ==
    LET rest == Tail(loc[h].todo)
        ok == NextIsValid(h) /\ NextIsFree(h)
    IN  /\ pc[h] = "insert_seat"
        /\ IF ok THEN InsertSeat(h) ELSE UNCHANGED db
        /\ IF rest = <<>>
           THEN Answer(h, [loc[h] EXCEPT !.code = IF ok THEN "CREATED" ELSE "FAILED", !.todo = rest])
           ELSE Continue(h, "insert_seat", [loc[h] EXCEPT !.todo = rest])

\* One seat of a batch: it is checked and inserted, and the first that fails
\* ends the batch; the ones before it stay.
CreateSeat(h) ==
    LET rest == Tail(loc[h].todo)
    IN  /\ pc[h] = "insert_seat"
        /\ \/ ~NextIsValid(h) /\ Refuse(h, "INVALID") /\ UNCHANGED db
           \/ NextIsValid(h) /\ ~NextIsFree(h) /\ Refuse(h, "FAILED") /\ UNCHANGED db
           \/ /\ NextIsValid(h) /\ NextIsFree(h)
              /\ InsertSeat(h)
              /\ IF rest = <<>>
                 THEN Answer(h, [loc[h] EXCEPT !.code = "CREATED", !.todo = rest])
                 ELSE Continue(h, "insert_seat", [loc[h] EXCEPT !.todo = rest])

--------------------------------------------------------------------------------
(* GetInventory: two more reads *)

TicketInventory(e) ==
    {[id |-> t, total |-> tickets[t].total, sold |-> tickets[t].sold,
      reserved |-> tickets[t].reserved,
      available |-> tickets[t].total - tickets[t].sold - tickets[t].reserved]
        : t \in {u \in DOMAIN tickets : tickets[u].event = e}}

ListTickets(h) ==
    /\ pc[h] = "list_tickets"
    /\ Continue(h, "list_seats", [loc[h] EXCEPT !.tickets = TicketInventory(req[h].event)])
    /\ UNCHANGED db

IsActive(hold) == hold.status \in {"reserved", "confirmed"}

\* Variant: the join takes cancelled and expired rows too.
JoinedWithHistory(s) == {k \in holds : k.seat = s}

\* The rows of reservation_seats the LEFT JOIN finds for a seat.
JoinedHolds(s) == {k \in holds : k.seat = s /\ IsActive(k)}

\* One line per seat and joined hold; a seat with none is available.
SeatInventory(e) ==
    UNION {IF JoinedHolds(s) = {}
           THEN {[seat |-> s, hold |-> "none", status |-> "available"]}
           ELSE {[seat |-> s, hold |-> k.id,
                  status |-> IF IsActive(k) THEN k.status ELSE "available"] : k \in JoinedHolds(s)}
             : s \in {x \in seats : x.event = e}}

ListSeats(h) ==
    /\ pc[h] = "list_seats"
    /\ Answer(h, [loc[h] EXCEPT !.code = "OK", !.seats = SeatInventory(req[h].event)])
    /\ UNCHANGED db

--------------------------------------------------------------------------------
(* What happens around the catalogue *)

\* The client is gone or the connection breaks, and the statement had no effect.
DBError(h) ==
    /\ h \in Faulty
    /\ pc[h] \notin {"idle", "done"}
    /\ pc[h] = "insert_seat" => NextIsValid(h)
    /\ Refuse(h, "FAILED")
    /\ UNCHANGED db

\* An INSERT is a transaction of its own: it is committed and the answer lost.
InsertLost(h) ==
    /\ h \in Faulty
    /\ \/ pc[h] = "insert_event" /\ InsertEvent(h)
       \/ pc[h] = "insert_ticket" /\ req[h].event \in events /\ InsertTicket(h)
       \/ pc[h] = "insert_seat" /\ NextIsValid(h) /\ NextIsFree(h) /\ InsertSeat(h)
    /\ Refuse(h, "FAILED")

\* A committed ReserveSeats: the row locks and the partial index let one active
\* hold through.
ReserveSeat ==
    /\ \E k \in HoldIds \ {x.id : x \in holds}, s \in seats :
          /\ \A x \in holds : x.seat = s => ~IsActive(x)
          /\ holds' = holds \cup {[id |-> k, seat |-> s, status |-> "reserved"]}
    /\ UNCHANGED <<events, tickets, seats, pc, req, before, loc, resp>>

\* Variant: a confirmed hold can be cancelled.
SettleAnySeat ==
    /\ \E k \in holds, status \in {"confirmed", "cancelled"} :
          /\ IsActive(k)
          /\ holds' = (holds \ {k}) \cup {[k EXCEPT !.status = status]}
    /\ UNCHANGED <<events, tickets, seats, pc, req, before, loc, resp>>

\* A committed confirmation, cancellation or expiration of a hold.
SettleSeat ==
    /\ \E k \in holds, status \in {"confirmed", "cancelled"} :
          /\ k.status = "reserved"
          /\ holds' = (holds \ {k}) \cup {[k EXCEPT !.status = status]}
    /\ UNCHANGED <<events, tickets, seats, pc, req, before, loc, resp>>

\* A committed ReserveQuantity of one unit, its confirmation, and its release.
MoveUnits ==
    /\ \E t \in DOMAIN tickets :
          \/ /\ tickets[t].total - tickets[t].sold - tickets[t].reserved >= 1
             /\ tickets' = [tickets EXCEPT ![t].reserved = @ + 1]
          \/ /\ tickets[t].reserved >= 1
             /\ tickets' = [tickets EXCEPT ![t].reserved = @ - 1, ![t].sold = @ + 1]
          \/ /\ tickets[t].reserved >= 1
             /\ tickets' = [tickets EXCEPT ![t].reserved = @ - 1]
    /\ UNCHANGED <<events, seats, holds, pc, req, before, loc, resp>>

\* A committed Reset: the fixtures go with everything that refers to them.
Reset ==
    /\ events \cap StressEvents # {}
    /\ events' = events \ StressEvents
    /\ tickets' = Restrict(tickets, {t \in DOMAIN tickets : tickets[t].event \notin StressEvents})
    /\ seats' = {s \in seats : s.event \notin StressEvents}
    /\ holds' = {k \in holds : k.seat.event \notin StressEvents}
    /\ UNCHANGED <<pc, req, before, loc, resp>>

--------------------------------------------------------------------------------
Init ==
    /\ events = GivenEvents
    /\ tickets = [t \in {} |-> t]
    /\ seats = {} /\ holds = {}
    /\ pc = [h \in Handlers |-> "idle"]
    /\ req = [h \in Handlers |-> [op |-> "none"]]
    /\ before = [h \in Handlers |-> {}]
    /\ loc = [h \in Handlers |-> NoAnswer]
    /\ resp = [h \in Handlers |-> NoAnswer]

Step(h) ==
    \/ GetEvent(h) \/ CreateEvent(h) \/ CreateTicketType(h) \/ CreateSeat(h)
    \/ ListTickets(h) \/ ListSeats(h)

\* All requests are answered; reservations may go on or not.
AllQuiet == (\A h \in Handlers : pc[h] = "done") /\ UNCHANGED vars

Next ==
    \/ \E h \in Handlers : BeginRequest(h) \/ Step(h) \/ DBError(h) \/ InsertLost(h)
    \/ ReserveSeat \/ SettleSeat \/ MoveUnits
    \/ Reset
    \/ AllQuiet

Spec == Init /\ [][Next]_vars

--------------------------------------------------------------------------------
(* Properties *)

\* The tables keep their types and their constraints: everything belongs to an
\* event that exists, also when the event is deleted between GetEvent and the
\* INSERT, and a physical seat exists once per event, whatever batches run at the
\* same time and however its place is typed.
TypeOK ==
    /\ \A t \in DOMAIN tickets :
          /\ tickets[t].event \in events
          /\ {tickets[t].total, tickets[t].sold, tickets[t].reserved} \subseteq Nat
    /\ \A s \in seats : s.event \in events
    /\ \A k \in holds : k.seat \in seats
    /\ \A s, t \in seats : s.event = t.event /\ s.place = t.place => s = t

\* The places of the seats handler h created.
CreatedBy(h) == {s.typed : s \in {x \in seats : x.by = h}}

\* The answer of a broken connection.
IsLost(h) == h \in Faulty /\ resp[h].code = "FAILED"

\* CreateSeats is not atomic.  As long as the event is there, 201 means every
\* seat of the batch was created by this very request, and any other answer
\* leaves the seats before some seat of the list and no other; all of them are
\* there without a 201 only where the last INSERT was committed and its
\* acknowledgement lost.
BatchIsPrefix ==
    \A h \in Handlers :
        /\ pc[h] = "done" /\ req[h].op = "seats" /\ req[h].body # Malformed
        /\ req[h].event \in events
        => LET body == req[h].body
           IN  IF resp[h].code = "CREATED"
               THEN CreatedBy(h) = Range(body)
               ELSE \E n \in 0..Len(body) :
                       /\ CreatedBy(h) = Range(SubSeq(body, 1, n))
                       /\ n < Len(body) \/ body = <<>> \/ IsLost(h)

\* The inventory, read in three statements, shows each seat on one line though a
\* seat has a row of reservation_seats for each of its past holds; the units of a
\* ticket type add up; and what was created before the inventory was asked for is
\* in it, unless a reset deleted the event meanwhile.
InventoryIsExact ==
    \A h \in Handlers :
        /\ \A x, y \in resp[h].seats : x.seat = y.seat => x = y
        /\ \A t \in resp[h].tickets :
              /\ t.available >= 0 /\ t.sold >= 0 /\ t.reserved >= 0
              /\ t.available + t.sold + t.reserved = t.total
        /\ \A o \in before[h] :
              /\ req[h].op = "inventory" /\ resp[h].code = "OK"
              /\ req[o].op \in {"seats", "ticket"} /\ resp[o].code = "CREATED"
              /\ req[o].event = req[h].event /\ req[h].event \in events
              => IF req[o].op = "ticket"
                 THEN \E t \in resp[h].tickets : t.id = o
                 ELSE Range(req[o].body) \subseteq {x.seat.typed : x \in resp[h].seats}

\* Between two inventories of an event, one asked for after the other was
\* answered, no confirmed seat is available again and no sold unit comes back.
SoldStaysSold ==
    \A h \in Handlers : \A o \in before[h] :
        /\ req[h].op = "inventory" /\ resp[h].code = "OK"
        /\ req[o].op = "inventory" /\ resp[o].code = "OK"
        /\ req[o].event = req[h].event /\ req[h].event \in events
        => /\ \A x \in resp[o].seats : x.status = "confirmed" => x \in resp[h].seats
           /\ \A t \in resp[o].tickets : \E u \in resp[h].tickets : u.id = t.id /\ u.sold >= t.sold

================================================================================
