--------------------------- MODULE ReservationLedger ---------------------------
(***************************************************************************)
(* What the reservation service promises about inventory, one atomic step  *)
(* per committed transaction.                                              *)
(*                                                                         *)
(* The ledger keeps, for every reservation that was ever committed, what   *)
(* it holds (units of ticket types, or seats) and its lifecycle status,    *)
(* and the two counters ticket_types keeps per ticket type.  How the       *)
(* statements of several transactions interleave to produce these steps is *)
(* the business of module ReservationTx, which implements this one.        *)
(***************************************************************************)
EXTENDS Integers, FiniteSets

CONSTANTS
    TicketTypes,     \* rows of ticket_types
    Total,           \* total_quantity of every ticket type
    Seats,           \* rows of seats
    Operations,      \* logical client operations: a visitor session with a key
    ReservationIds,  \* ids the reservations table may hand out
    MaxQuantity,     \* bound on the quantity of one request
    TTL,             \* RESERVATION_TTL, in clock ticks
    MaxTime          \* bound on the clock

ASSUME LedgerAssumption ==
    /\ Total \in [TicketTypes -> Nat]
    /\ IsFiniteSet(ReservationIds)
    /\ MaxQuantity \in Nat
    /\ TTL \in Nat
    /\ MaxTime \in Nat

VARIABLES
    book,      \* every reservation id and what it holds
    sold,      \* ticket_types.sold_quantity
    reserved,  \* ticket_types.reserved_quantity
    now        \* the clock every process reads

vars == <<book, sold, reserved, now>>

--------------------------------------------------------------------------------
Statuses == {"reserved", "confirmed", "cancelled", "expired"}

\* The statuses a reservation never leaves.
Terminal == Statuses \ {"reserved"}

\* The statuses uq_active_reservation_seat counts.
Active == {"reserved", "confirmed"}

NoOperation == <<>>

\* A reservation header with its children: units of ticket types or seats.
Booking ==
    [status : Statuses \cup {"none"},
     operation : Operations \cup {NoOperation},
     expires : Nat,
     units : [TicketTypes -> 0..MaxQuantity],
     seats : SUBSET Seats]

NoUnits == [t \in TicketTypes |-> 0]

\* An id that gen_random_uuid() has not handed out yet.
NoBooking ==
    [status |-> "none", operation |-> NoOperation, expires |-> 0,
     units |-> NoUnits, seats |-> {}]

\* The units of ticket type t that the bookings in b with status st hold, as a
\* set with one element per unit.
Held(b, st, t) ==
    {u \in ReservationIds \X (1..MaxQuantity) :
        b[u[1]].status = st /\ u[2] <= b[u[1]].units[t]}

\* The units of ticket type t held by the reservations in R.
UnitsOf(R, t) ==
    {u \in R \X (1..MaxQuantity) : u[2] <= book[u[1]].units[t]}

Overdue(r) == book[r].status = "reserved" /\ book[r].expires <= now

Marked(b, R, st) ==
    [r \in ReservationIds |-> IF r \in R THEN [b[r] EXCEPT !.status = st] ELSE b[r]]

\* The unique constraint on (visitor_session_id, idempotency_key).
KeyIsFree(op) == \A r \in ReservationIds : book[r].operation # op

Fresh == {r \in ReservationIds : book[r].status = "none"}

--------------------------------------------------------------------------------
Init ==
    /\ book = [r \in ReservationIds |-> NoBooking]
    /\ sold = [t \in TicketTypes |-> 0]
    /\ reserved = [t \in TicketTypes |-> 0]
    /\ now = 0

Tick ==
    /\ now < MaxTime
    /\ now' = now + 1
    /\ UNCHANGED <<book, sold, reserved>>

\* Variant: off by one, the last unit counts twice.
CreateQuantityOffByOne(r, op, t, q, expires) ==
    /\ KeyIsFree(op)
    /\ Total[t] - sold[t] - reserved[t] >= q - 1
    /\ book' = [book EXCEPT ![r] =
                  [status |-> "reserved", operation |-> op, expires |-> expires,
                   units |-> [NoUnits EXCEPT ![t] = q], seats |-> {}]]
    /\ reserved' = [reserved EXCEPT ![t] = @ + q]
    /\ UNCHANGED <<sold, now>>

\* A committed ReserveQuantity: q units of t move from available to reserved.
\* The deadline was computed when the request arrived, at most TTL from now.
CreateQuantity(r, op, t, q, expires) ==
    /\ Total[t] - sold[t] - reserved[t] >= q
    /\ reserved' = [reserved EXCEPT ![t] = @ + q]
    /\ UNCHANGED <<sold, now>>
    /\ KeyIsFree(op)
    /\ book' = [book EXCEPT ![r] =
                  [status |-> "reserved", operation |-> op, expires |-> expires,
                   units |-> [NoUnits EXCEPT ![t] = q], seats |-> {}]]

\* Variant: confirmed seats do not count as taken.
CreateSeatsOverConfirmed(r, op, wanted, X, expires) ==
    /\ KeyIsFree(op)
    /\ \A x \in X : book[x].seats \cap wanted # {}
    /\ \A o \in ReservationIds \ X :
          book[o].status = "reserved" => book[o].seats \cap wanted = {}
    /\ book' = [Marked(book, X, "expired") EXCEPT ![r] =
                  [status |-> "reserved", operation |-> op, expires |-> expires,
                   units |-> NoUnits, seats |-> wanted]]
    /\ UNCHANGED <<sold, reserved, now>>

\* A committed ReserveSeats: the overdue holds X on the wanted seats are
\* expired first.  Their ticket stock is not touched, as in the code.
CreateSeats(r, op, wanted, X, expires) ==
    /\ UNCHANGED <<sold, reserved, now>>
    /\ KeyIsFree(op)
    /\ \A x \in X : book[x].seats \cap wanted # {}
    /\ \A o \in ReservationIds \ X :
          book[o].status \in Active => book[o].seats \cap wanted = {}
    /\ book' = [Marked(book, X, "expired") EXCEPT ![r] =
                  [status |-> "reserved", operation |-> op, expires |-> expires,
                   units |-> NoUnits, seats |-> wanted]]

\* Variant: confirming again moves the stock again.
ConfirmAgain(r) ==
    /\ book[r].status \in Active
    /\ book' = Marked(book, {r}, "confirmed")
    /\ reserved' = [t \in TicketTypes |-> reserved[t] - book[r].units[t]]
    /\ sold' = [t \in TicketTypes |-> sold[t] + book[r].units[t]]
    /\ UNCHANGED now

\* A committed confirmation.  The deadline was checked under the header lock,
\* the commit may fall after it.
Confirm(r) ==
    /\ book[r].status = "reserved"
    /\ book' = Marked(book, {r}, "confirmed")
    /\ reserved' = [t \in TicketTypes |-> reserved[t] - book[r].units[t]]
    /\ sold' = [t \in TicketTypes |-> sold[t] + book[r].units[t]]
    /\ UNCHANGED now

\* Variants: a confirmed purchase can be cancelled; the stock is not released.
CancelConfirmed(r) ==
    /\ book[r].status \in Active
    /\ book' = Marked(book, {r}, "cancelled")
    /\ UNCHANGED <<sold, reserved, now>>

CancelKeepsStock(r) ==
    /\ book[r].status = "reserved"
    /\ book' = Marked(book, {r}, "cancelled")
    /\ UNCHANGED <<sold, reserved, now>>

\* A committed cancellation.
Cancel(r) ==
    /\ book[r].status = "reserved"
    /\ book' = Marked(book, {r}, "cancelled")
    /\ reserved' = [t \in TicketTypes |-> reserved[t] - book[r].units[t]]
    /\ UNCHANGED <<sold, now>>

\* A committed expiration: one worker batch, or the single overdue hold that a
\* late confirm or cancel ran into.
Expire(B) ==
    /\ B # {}
    /\ book' = Marked(book, B, "expired")
    /\ reserved' = [t \in TicketTypes |-> reserved[t] - Cardinality(UnitsOf(B, t))]
    /\ UNCHANGED <<sold, now>>

Next ==
    \/ Tick
    \/ \E r \in ReservationIds : Confirm(r)
    \/ \E r \in ReservationIds : Cancel(r)
    \/ \E B \in SUBSET {x \in ReservationIds : Overdue(x)} : Expire(B)
    \/ \E r \in Fresh, op \in Operations, e \in 0..(now + TTL) :
          \/ \E t \in TicketTypes, q \in 1..MaxQuantity : CreateQuantity(r, op, t, q, e)
          \/ \E S \in (SUBSET Seats) \ {{}}, X \in SUBSET {x \in ReservationIds : Overdue(x)} :
                CreateSeats(r, op, S, X, e)

Spec == Init /\ [][Next]_vars

--------------------------------------------------------------------------------
(* Properties *)

\* Every variable has its type; the counters of ticket_types are never negative.
TypeOK ==
    /\ book \in [ReservationIds -> Booking]
    /\ sold \in [TicketTypes -> Nat]
    /\ reserved \in [TicketTypes -> Nat]
    /\ now \in Nat

\* The counters of ticket_types count exactly the units of the reservations:
\* reserved_quantity those of the reserved ones, sold_quantity those of the
\* confirmed ones (ReserveTicketQuantity, ConfirmTicketQuantity and
\* ReleaseTicketQuantity move a unit exactly once per status change).
Conservation ==
    \A t \in TicketTypes :
        /\ reserved[t] = Cardinality(Held(book, "reserved", t))
        /\ sold[t] = Cardinality(Held(book, "confirmed", t))

\* No ticket type is sold or held beyond total_quantity, counted over the
\* reservations themselves and not over the counters.
NotOversold ==
    \A t \in TicketTypes :
        Cardinality(Held(book, "reserved", t)) + Cardinality(Held(book, "confirmed", t))
            <= Total[t]

\* Two active reservations never share a seat (what uq_active_reservation_seat
\* and the seat row locks are for).
SeatExclusive ==
    \A r1, r2 \in ReservationIds :
        (r1 # r2 /\ book[r1].status \in Active /\ book[r2].status \in Active)
            => book[r1].seats \cap book[r2].seats = {}

\* One logical operation (visitor session and idempotency key) has at most one
\* reservation.
KeyUnique ==
    \A r1, r2 \in ReservationIds :
        (r1 # r2 /\ book[r1].operation # NoOperation) => book[r1].operation # book[r2].operation

\* No reservation holds both seats and units: ReserveSeats expires holds without
\* releasing ticket stock, which keeps the counters right only because of this.
SeatHoldsHaveNoUnits ==
    \A r \in ReservationIds : book[r].seats # {} => book[r].units = NoUnits

\* A reservation that was confirmed, cancelled or expired keeps its status, its
\* owner and what it held for ever, whoever retries or races with it.
HistoryIsFinal ==
    [][\A r \in ReservationIds :
          book[r].status \in Terminal => book'[r] = book[r]]_vars

================================================================================
