-------------------------- MODULE ReservationTxProofs --------------------------
(***************************************************************************)
(* The transactions of the reservation service for every inventory, every  *)
(* set of requests and any number of handlers, workers and faults.         *)
(*                                                                         *)
(* The inductive invariant says of every open transaction what it has      *)
(* written relative to the committed tables, and that the locks it holds   *)
(* cover what it relies on.  A step of a transaction then concerns that    *)
(* transaction alone, and a commit changes only rows whose locks nobody    *)
(* else has: what the others have written and read stays true.             *)
(***************************************************************************)
EXTENDS ReservationTx, WellFoundedInduction, TLAPS

--------------------------------------------------------------------------------
(* Types *)

Final == {"confirmed", "cancelled", "expired"}

Status == {"reserved"} \cup Final

\* The requests that create reservations.
Creating == {rq \in UNION {Requests[h] : h \in Handlers} : rq.op \in {"quantity", "seats"}}

Header ==
    [session : {rq.session : rq \in Creating}, key : {rq.key : rq \in Creating},
     event : {rq.event : rq \in Creating}, user : {UserOf[rq.session] : rq \in Creating},
     type : {"quantity", "seats"}, status : Status, expires : Nat]

Item == [ticket : TicketTypes, quantity : 1..MaxQuantity, status : Status]

Hold == [status : Status, expires : Nat]

Ticket == [sold : Nat, reserved : Nat]

Tables == {"ticket_types", "reservations", "reservation_items", "reservation_seats"}

IsDatabase(d) == d = [table \in Tables |-> d[table]]

\* d is a set of tables, committed or written by a transaction.
WellTyped(d) ==
    /\ IsDatabase(d)
    /\ d.ticket_types \in [DOMAIN d.ticket_types -> Ticket]
    /\ DOMAIN d.ticket_types \subseteq TicketTypes
    /\ d.reservations \in [DOMAIN d.reservations -> Header]
    /\ DOMAIN d.reservations \subseteq ReservationIds
    /\ d.reservation_items \in [DOMAIN d.reservation_items -> Item]
    /\ d.reservation_seats \in [DOMAIN d.reservation_seats -> Hold]
    /\ DOMAIN d.reservation_seats \subseteq ReservationIds \X Seats

\* The codes of the answers that carry no reservation, and all codes.
FailureCodes ==
    {"none", "FAILED", "INVALID", "NOT_FOUND", "INCONSISTENT", "INSUFFICIENT_STOCK",
     "SEATS_NOT_FOUND", "SEAT_UNAVAILABLE", "IDEMPOTENCY_KEY_CONFLICT"}

Codes == FailureCodes \cup {"OK", "CANNOT_BE_CONFIRMED", "CANNOT_BE_CANCELLED"}

AnswerType ==
    [code : Codes, id : ReservationIds \cup {0}, status : Status \cup {"none"},
     children : SUBSET Status]

Locals ==
    [expires : Nat, todo : SUBSET Nat, listed : SUBSET ReservationIds,
     target : Status \cup {"none"}, answer : AnswerType]

HandlerLabels ==
    {"idle", "done", "q_lookup", "q_update", "q_header", "q_replay", "s_lookup", "s_lock",
     "s_list", "s_expire", "s_header", "s_insert", "s_replay", "t_lock", "t_apply",
     "g_header", "g_children", "commit"}

WorkerLabels == {"idle", "down", "w_apply", "commit"}

\* The variables have their types.
Types ==
    /\ WellTyped(db) /\ DOMAIN db.ticket_types = TicketTypes
    /\ now \in 0..MaxTime
    /\ DOMAIN pend = Procs /\ \A p \in Procs : WellTyped(pend[p])
    /\ DOMAIN locks = Procs
    /\ DOMAIN pc = Procs
    /\ \A h \in Handlers : pc[h] \in HandlerLabels
    /\ \A w \in Workers : pc[w] \in WorkerLabels
    /\ DOMAIN req = Handlers
    /\ loc \in [Procs -> Locals]
    /\ resp \in [Handlers -> AnswerType]

--------------------------------------------------------------------------------
(* The committed tables *)

\* A reservation has the children of its type and no others, with its status.
ChildrenOf(d, r) ==
    LET header == d.reservations[r]
    IN  IF header.type = "quantity"
        THEN /\ r \in DOMAIN d.reservation_items
             /\ d.reservation_items[r].status = header.status
             /\ \A i \in DOMAIN d.reservation_seats : i[1] # r
        ELSE /\ r \notin DOMAIN d.reservation_items
             /\ \E i \in DOMAIN d.reservation_seats : i[1] = r
             /\ \A i \in DOMAIN d.reservation_seats : i[1] = r =>
                   /\ d.reservation_seats[i].status = header.status
                   /\ d.reservation_seats[i].expires = header.expires

Committed ==
    /\ \A r \in DOMAIN db.reservations :
          /\ ChildrenOf(db, r)
          /\ db.reservations[r].user = UserOf[db.reservations[r].session]
    /\ DOMAIN db.reservation_items \subseteq DOMAIN db.reservations
    /\ \A i \in DOMAIN db.reservation_seats : i[1] \in DOMAIN db.reservations

--------------------------------------------------------------------------------
(* What an open transaction has written *)

\* The reservations p moves to a final status, and the one it creates.
Moved(p) == DOMAIN pend[p].reservations \cap DOMAIN db.reservations
Created(p) == DOMAIN pend[p].reservations \ DOMAIN db.reservations

\* p moves a reserved reservation it has locked, with all its children.
MovedRow(p, r) ==
    LET header == pend[p].reservations[r]
    IN  /\ ReservationRow(r) \in locks[p]
        /\ db.reservations[r].status = "reserved"
        /\ header.status \in Final
        /\ header = [db.reservations[r] EXCEPT !.status = header.status]
        /\ r \in DOMAIN db.reservation_items => r \in DOMAIN pend[p].reservation_items
        /\ \A i \in DOMAIN db.reservation_seats :
              i[1] = r => i \in DOMAIN pend[p].reservation_seats

MovedRows(p) == \A r \in Moved(p) : MovedRow(p, r)

\* What p creates is a reserved reservation whose key nobody has committed.
CreatedRows(p) ==
    \A r \in Created(p) :
        LET header == pend[p].reservations[r]
        IN  /\ header.status = "reserved"
            /\ header.user = UserOf[header.session]
            /\ IsFree(db, header.session, header.key)

\* The children p writes belong to headers it writes.
ItemRows(p) ==
    \A r \in DOMAIN pend[p].reservation_items :
        LET item == pend[p].reservation_items[r]
        IN  /\ r \in DOMAIN pend[p].reservations
            /\ pend[p].reservations[r].type = "quantity"
            /\ item.status = pend[p].reservations[r].status
            /\ r \in DOMAIN db.reservations =>
                  /\ r \in DOMAIN db.reservation_items
                  /\ item.ticket = db.reservation_items[r].ticket
                  /\ item.quantity = db.reservation_items[r].quantity

SeatRows(p) ==
    \A i \in DOMAIN pend[p].reservation_seats :
        LET hold == pend[p].reservation_seats[i]
        IN  /\ i[1] \in DOMAIN pend[p].reservations
            /\ pend[p].reservations[i[1]].type = "seats"
            /\ hold.status = pend[p].reservations[i[1]].status
            /\ hold.expires = pend[p].reservations[i[1]].expires
            /\ IF i[1] \in DOMAIN db.reservations
               THEN i \in DOMAIN db.reservation_seats
               ELSE SeatRow(i[2]) \in locks[p]

TicketRows(p) == \A t \in DOMAIN pend[p].ticket_types : TicketRow(t) \in locks[p]

\* A transaction commits a reservation only with children.
CreatedWhole(p) ==
    pc[p] = "commit" =>
        \A r \in Created(p) :
            \/ r \in DOMAIN pend[p].reservation_items
            \/ \E i \in DOMAIN pend[p].reservation_seats : i[1] = r

Writes(p) ==
    /\ MovedRows(p) /\ CreatedRows(p) /\ ItemRows(p) /\ SeatRows(p) /\ TicketRows(p)
    /\ CreatedWhole(p)

\* Labels before the first write.
ReadLabels ==
    {"q_lookup", "q_update", "s_lookup", "s_lock", "s_list", "s_expire", "t_lock", "t_apply"}

Closed(p) ==
    /\ pc[p] \notin TxLabels => pend[p] = NoWrites /\ locks[p] = {}
    /\ pc[p] \in ReadLabels => pend[p] = NoWrites
    /\ loc[p].expires <= now + TTL

--------------------------------------------------------------------------------
(* What each kind of transaction has done so far *)

\* The label, the request and its validity fit together.
RequestFits(h) ==
    /\ pc[h] # "idle" => req[h] \in Requests[h]
    /\ pc[h] \notin {"idle", "done"} => ~IsInvalid(req[h])
    /\ pc[h] \in {"q_lookup", "q_update", "q_header", "q_replay"} => req[h].op = "quantity"
    /\ pc[h] \in {"s_lookup", "s_lock", "s_list", "s_expire", "s_header", "s_insert", "s_replay"}
          => req[h].op = "seats"
    /\ pc[h] \in {"g_header", "g_children"} => req[h].op = "get"
    /\ pc[h] \in {"t_lock", "t_apply"} => req[h].op \notin {"quantity", "seats", "get"}
    /\ pc[h] = "commit" => req[h].op # "get"

\* The header of a reservation that h's request asks for.
IsHeaderOf(h, header, type) ==
    /\ header.session = req[h].session /\ header.key = req[h].key
    /\ header.type = type /\ header.expires = loc[h].expires

\* The stock is taken under the lock of the ticket row.
StockTaken(h) ==
    LET t == req[h].ticket
    IN  /\ t \in TicketTypes
        /\ DOMAIN pend[h].ticket_types = {t}
        /\ pend[h].ticket_types[t] =
              [db.ticket_types[t] EXCEPT !.reserved = @ + req[h].quantity]
        /\ HasStock(db, t, req[h].event, req[h].quantity)

QuantityFits(h) ==
    /\ pc[h] = "q_header" =>
          /\ StockTaken(h)
          /\ DOMAIN pend[h].reservations = {}
    /\ pc[h] = "commit" /\ req[h].op = "quantity" /\ pend[h] # NoWrites =>
          LET r == loc[h].answer.id
          IN  /\ StockTaken(h)
              /\ DOMAIN pend[h].reservations = {r} /\ r \notin DOMAIN db.reservations
              /\ IsHeaderOf(h, pend[h].reservations[r], "quantity")
              /\ DOMAIN pend[h].reservation_items = {r}
              /\ pend[h].reservation_items[r].ticket = req[h].ticket
              /\ pend[h].reservation_items[r].quantity = req[h].quantity

Wanted(h) == Range(req[h].seats)

\* The wanted seats exist, and their rows are locked.
SeatsLocked(h) ==
    /\ Wanted(h) # {} /\ Wanted(h) \subseteq Seats
    /\ \A s \in Wanted(h) : SeatRow(s) \in locks[h]

\* r is an overdue reservation of a wanted seat.
IsStale(h, r) ==
    /\ r \in DOMAIN db.reservations
    /\ db.reservations[r].type = "seats"
    /\ db.reservations[r].expires <= now
    /\ \E i \in DOMAIN db.reservation_seats : i[1] = r /\ i[2] \in Wanted(h)

\* The holds on wanted seats, but for those in R, were running when h arrived, and
\* end later than those in R.
OthersRun(h, R) ==
    \A i \in DOMAIN db.reservation_seats :
        /\ i[2] \in Wanted(h) /\ i[1] \notin R
        /\ db.reservation_seats[i].status = "reserved"
        => /\ db.reservation_seats[i].expires > loc[h].expires - TTL
           /\ \A r \in R : db.reservations[r].expires < db.reservation_seats[i].expires

\* h has expired stale holds and touches no stock.
HoldsExpired(h) ==
    /\ SeatsLocked(h)
    /\ DOMAIN pend[h].ticket_types = {}
    /\ \A r \in Moved(h) : IsStale(h, r) /\ pend[h].reservations[r].status = "expired"
    /\ OthersRun(h, Moved(h))

\* h has created its header and the holds of all wanted seats but those to do;
\* nobody else has an active hold on the seats done.
HoldsCreated(h) ==
    LET r == loc[h].answer.id
    IN  /\ HoldsExpired(h)
        /\ Created(h) = {r}
        /\ IsHeaderOf(h, pend[h].reservations[r], "seats")
        /\ loc[h].todo \subseteq Wanted(h)
        /\ \A s \in Seats :
              <<r, s>> \in DOMAIN pend[h].reservation_seats <=> s \in Wanted(h) \ loc[h].todo
        /\ \A i \in DOMAIN db.reservation_seats :
              /\ i[2] \in Wanted(h) \ loc[h].todo
              /\ db.reservation_seats[i].status \in {"reserved", "confirmed"}
              => i[1] \in Moved(h)

SeatsFit(h) ==
    /\ pc[h] = "s_lock" =>
          /\ loc[h].todo # {} /\ loc[h].todo \subseteq EventSeats(req[h].event, Wanted(h))
          /\ \A s \in EventSeats(req[h].event, Wanted(h)) \ loc[h].todo : SeatRow(s) \in locks[h]
    /\ pc[h] = "s_list" => SeatsLocked(h)
    /\ pc[h] = "s_expire" =>
          /\ SeatsLocked(h)
          /\ loc[h].todo # {} /\ loc[h].todo \subseteq loc[h].listed
          /\ \A r \in loc[h].listed : IsStale(h, r)
          /\ \A r \in loc[h].listed \ loc[h].todo : ReservationRow(r) \in locks[h]
          /\ OthersRun(h, loc[h].listed)
    /\ pc[h] = "s_header" => HoldsExpired(h) /\ Created(h) = {}
    /\ pc[h] = "s_insert" => HoldsCreated(h) /\ loc[h].todo # {}
    /\ pc[h] = "commit" /\ req[h].op = "seats" /\ pend[h] # NoWrites =>
          HoldsCreated(h) /\ loc[h].todo = {}

\* A replay looks for a key that was committed.
ReplayFits(h) ==
    pc[h] \in {"q_replay", "s_replay"} => ~IsFree(db, req[h].session, req[h].key)

Lifecycle(h) == req[h].op \notin {"quantity", "seats", "get"}

\* h holds the lock of a header it may see.
HeaderLocked(h) == Visible(h) /\ ReservationRow(req[h].id) \in locks[h]

TransitionFits(h) ==
    /\ pc[h] = "t_apply" =>
          /\ HeaderLocked(h)
          /\ db.reservations[req[h].id].status = "reserved"
          /\ loc[h].target \in {Target(req[h].op), "expired"}
          /\ loc[h].target = "expired" => db.reservations[req[h].id].expires <= now
    /\ pc[h] = "commit" /\ Lifecycle(h) =>
          /\ HeaderLocked(h)
          /\ DOMAIN pend[h].reservations \subseteq {req[h].id}
          /\ pend[h] # NoWrites =>
                LET status == pend[h].reservations[req[h].id].status
                IN  /\ DOMAIN pend[h].reservations = {req[h].id}
                    /\ status \in {Target(req[h].op), "expired"}
                    /\ status = "expired" => db.reservations[req[h].id].expires <= now

\* A worker expires what is overdue, reservation by reservation.
BatchFits(w) ==
    /\ \A r \in DOMAIN pend[w].reservations :
          /\ r \in DOMAIN db.reservations
          /\ pend[w].reservations[r].status = "expired"
          /\ db.reservations[r].expires < now
    /\ pc[w] = "w_apply" =>
          /\ loc[w].todo # {}
          /\ \A r \in loc[w].todo :
                /\ r \in DOMAIN db.reservations
                /\ ReservationRow(r) \in locks[w]
                /\ db.reservations[r].status = "reserved"
                /\ db.reservations[r].expires < now
                /\ r \notin DOMAIN pend[w].reservations
    /\ pc[w] = "commit" => DOMAIN pend[w].reservations # {}

--------------------------------------------------------------------------------
(* The answers *)

\* An answer about a reservation that the tables d have under h's key.
IsOwn(h, d, answer) ==
    /\ answer.code = "OK"
    /\ answer.id \in DOMAIN d.reservations
    /\ d.reservations[answer.id].session = req[h].session
    /\ d.reservations[answer.id].key = req[h].key
    /\ d.reservations[answer.id].type = req[h].op
    /\ answer.status \in Status
    /\ answer.children = {answer.status}

\* An answer about a transition, once d is committed.
IsTransition(h, d, answer) ==
    /\ answer.id = req[h].id
    /\ answer.id \in DOMAIN d.reservations
    /\ CanAccessReservation(d.reservations[answer.id], req[h].session)
    /\ answer.status = d.reservations[answer.id].status
    /\ answer.children = {answer.status}
    /\ answer.status \in Final
    /\ answer.code = IF answer.status = Target(req[h].op) THEN "OK" ELSE Refusal(req[h].op)

\* What GetReservation shows.
IsShown(h, d, answer) ==
    /\ answer.code = "OK"
    /\ answer.id = req[h].id
    /\ answer.id \in DOMAIN d.reservations
    /\ CanAccessReservation(d.reservations[answer.id], req[h].session)
    /\ answer.status = "reserved" \/ answer.status = d.reservations[answer.id].status

IsFailure(answer) == answer.status = "none" /\ answer.code \in FailureCodes

AnswerFits(h) ==
    /\ pc[h] = "commit" =>
          IF Lifecycle(h) THEN IsTransition(h, View(h), loc[h].answer)
                          ELSE IsOwn(h, View(h), loc[h].answer)
    /\ pc[h] = "g_children" => IsShown(h, db, loc[h].answer)
    /\ pc[h] = "done" =>
          \/ IsFailure(resp[h])
          \/ req[h].op \in {"quantity", "seats"} /\ IsOwn(h, db, resp[h])
          \/ /\ req[h].op = "get" /\ IsShown(h, db, resp[h])
             /\ resp[h].status # "reserved" => resp[h].children = {resp[h].status}
          \/ Lifecycle(h) /\ IsTransition(h, db, resp[h])

--------------------------------------------------------------------------------
(* The inductive invariant *)

HandlerInv(h) ==
    /\ RequestFits(h) /\ QuantityFits(h) /\ SeatsFit(h) /\ ReplayFits(h) /\ TransitionFits(h)
    /\ AnswerFits(h)

ProcInv(p) ==
    /\ Writes(p) /\ Closed(p)
    /\ p \in Handlers => HandlerInv(p)
    /\ p \in Workers => BatchFits(p)

\* Two transactions never lock the same row, create the same reservation or
\* write headers with the same key.
Apart(p, o) ==
    /\ locks[p] \cap locks[o] = {}
    /\ \A r \in Created(p), x \in DOMAIN pend[o].reservations :
          /\ r # x
          /\ <<pend[p].reservations[r].session, pend[p].reservations[r].key>>
                # <<pend[o].reservations[x].session, pend[o].reservations[x].key>>

Inv ==
    /\ Types /\ Committed
    /\ \A p \in Procs : ProcInv(p)
    /\ \A p, o \in Procs : p # o => Apart(p, o)

--------------------------------------------------------------------------------
(* Tables *)

\* o is d with the rows of w written over it.
IsPatched(o, w, d) ==
    /\ DOMAIN o = DOMAIN w \cup DOMAIN d
    /\ \A x \in DOMAIN w : o[x] = w[x]
    /\ \A x \in DOMAIN d : x \notin DOMAIN w => o[x] = d[x]

IsOverlay(o, w, d) ==
    /\ IsPatched(o.ticket_types, w.ticket_types, d.ticket_types)
    /\ IsPatched(o.reservations, w.reservations, d.reservations)
    /\ IsPatched(o.reservation_items, w.reservation_items, d.reservation_items)
    /\ IsPatched(o.reservation_seats, w.reservation_seats, d.reservation_seats)

\* An overlay has the new rows of each table and, under the other ids, the old
\* ones.
LEMMA OverlayRows ==
    ASSUME NEW w, NEW d, WellTyped(d)
    PROVE  IsOverlay(Overlay(w, d), w, d) /\ IsDatabase(Overlay(w, d))
<1>1. DOMAIN d = Tables
  BY DEF WellTyped, IsDatabase
<1>2. Overlay(w, d) = [table \in Tables |-> Patch(w[table], d[table])]
  BY <1>1 DEF Overlay
<1>3. IsDatabase(Overlay(w, d))
  BY <1>2 DEF Tables, IsDatabase
<1>4. /\ Overlay(w, d).ticket_types = Patch(w.ticket_types, d.ticket_types)
      /\ Overlay(w, d).reservations = Patch(w.reservations, d.reservations)
      /\ Overlay(w, d).reservation_items = Patch(w.reservation_items, d.reservation_items)
      /\ Overlay(w, d).reservation_seats = Patch(w.reservation_seats, d.reservation_seats)
  BY <1>2 DEF Tables
<1>5. ASSUME NEW f, NEW g PROVE IsPatched(Patch(f, g), f, g)
  BY DEF Patch, IsPatched
<1> QED
  BY <1>3, <1>4, <1>5 DEF IsOverlay

\* Typed writes over typed tables give typed tables.
LEMMA OverlayTyped ==
    ASSUME NEW w, NEW d, WellTyped(w), WellTyped(d)
    PROVE  WellTyped(Overlay(w, d))
<1> DEFINE o == Overlay(w, d)
<1>1. DOMAIN d = Tables
  BY DEF WellTyped, IsDatabase
<1>2. o = [table \in Tables |-> Patch(w[table], d[table])]
  BY <1>1 DEF Overlay
<1>3. IsDatabase(o) /\ IsOverlay(o, w, d)
  BY OverlayRows
<1>4. /\ o.ticket_types = Patch(w.ticket_types, d.ticket_types)
      /\ o.reservations = Patch(w.reservations, d.reservations)
      /\ o.reservation_items = Patch(w.reservation_items, d.reservation_items)
      /\ o.reservation_seats = Patch(w.reservation_seats, d.reservation_seats)
  BY <1>2 DEF Tables
<1> HIDE DEF o
<1>5. o.ticket_types \in [DOMAIN o.ticket_types -> Ticket]
  BY <1>4 DEF WellTyped, Patch
<1>6. o.reservations \in [DOMAIN o.reservations -> Header]
  BY <1>4 DEF WellTyped, Patch
<1>7. o.reservation_items \in [DOMAIN o.reservation_items -> Item]
  BY <1>4 DEF WellTyped, Patch
<1>8. o.reservation_seats \in [DOMAIN o.reservation_seats -> Hold]
  BY <1>4 DEF WellTyped, Patch
<1>9. /\ DOMAIN o.ticket_types \subseteq TicketTypes
      /\ DOMAIN o.reservations \subseteq ReservationIds
      /\ DOMAIN o.reservation_seats \subseteq ReservationIds \X Seats
  BY <1>3 DEF IsOverlay, IsPatched, WellTyped
<1> QED
  BY <1>3, <1>5, <1>6, <1>7, <1>8, <1>9 DEF WellTyped, o

\* The columns of a row have their types.
LEMMA RowTypes ==
    ASSUME NEW d, WellTyped(d)
    PROVE  /\ \A t \in DOMAIN d.ticket_types :
                 /\ t \in TicketTypes
                 /\ d.ticket_types[t].sold \in Nat /\ d.ticket_types[t].reserved \in Nat
           /\ \A r \in DOMAIN d.reservations :
                 /\ r \in ReservationIds
                 /\ d.reservations[r].status \in Status
                 /\ d.reservations[r].type \in {"quantity", "seats"}
                 /\ d.reservations[r].expires \in Nat
           /\ \A r \in DOMAIN d.reservation_items :
                 /\ d.reservation_items[r].ticket \in TicketTypes
                 /\ d.reservation_items[r].quantity \in 1..MaxQuantity
                 /\ d.reservation_items[r].status \in Status
           /\ \A i \in DOMAIN d.reservation_seats :
                 /\ i = <<i[1], i[2]>> /\ i[1] \in ReservationIds /\ i[2] \in Seats
                 /\ d.reservation_seats[i].status \in Status
                 /\ d.reservation_seats[i].expires \in Nat
<1>1. ASSUME NEW t \in DOMAIN d.ticket_types
      PROVE  d.ticket_types[t] \in Ticket /\ t \in TicketTypes
  BY DEF WellTyped
<1>2. ASSUME NEW r \in DOMAIN d.reservations
      PROVE  d.reservations[r] \in Header /\ r \in ReservationIds
  BY DEF WellTyped
<1>3. ASSUME NEW r \in DOMAIN d.reservation_items
      PROVE  d.reservation_items[r] \in Item
  BY DEF WellTyped
<1>4. ASSUME NEW i \in DOMAIN d.reservation_seats
      PROVE  d.reservation_seats[i] \in Hold /\ i \in ReservationIds \X Seats
  BY DEF WellTyped
<1>5. \A i \in DOMAIN d.reservation_seats :
         i = <<i[1], i[2]>> /\ i[1] \in ReservationIds /\ i[2] \in Seats
  BY <1>4
<1>6. \A t \in DOMAIN d.ticket_types :
         /\ t \in TicketTypes
         /\ d.ticket_types[t].sold \in Nat /\ d.ticket_types[t].reserved \in Nat
  BY <1>1 DEF Ticket
<1>7. \A r \in DOMAIN d.reservations :
         /\ r \in ReservationIds
         /\ d.reservations[r].status \in Status
         /\ d.reservations[r].type \in {"quantity", "seats"}
         /\ d.reservations[r].expires \in Nat
  BY <1>2 DEF Header
<1>8. \A r \in DOMAIN d.reservation_items :
         /\ d.reservation_items[r].ticket \in TicketTypes
         /\ d.reservation_items[r].quantity \in 1..MaxQuantity
         /\ d.reservation_items[r].status \in Status
  BY <1>3 DEF Item
<1>9. \A i \in DOMAIN d.reservation_seats :
         d.reservation_seats[i].status \in Status /\ d.reservation_seats[i].expires \in Nat
  BY <1>4 DEF Hold
<1> QED
  BY <1>5, <1>6, <1>7, <1>8, <1>9

\* The four tables of a transaction that has written nothing are empty.
LEMMA NothingWritten ==
    /\ WellTyped(NoWrites)
    /\ DOMAIN NoWrites.ticket_types = {} /\ DOMAIN NoWrites.reservations = {}
    /\ DOMAIN NoWrites.reservation_items = {} /\ DOMAIN NoWrites.reservation_seats = {}
<1>1. /\ IsDatabase(NoWrites)
      /\ NoWrites.ticket_types = NoRows /\ NoWrites.reservations = NoRows
      /\ NoWrites.reservation_items = NoRows /\ NoWrites.reservation_seats = NoRows
  BY DEF NoWrites, Tables, IsDatabase
<1>2. DOMAIN NoRows = {} /\ \A V : NoRows \in [{} -> V]
  BY DEF NoRows
<1> QED
  BY <1>1, <1>2 DEF WellTyped

\* Writes to one table, and of one row.
WriteTickets(rows) == [NoWrites EXCEPT !.ticket_types = rows]

\* Writes to ticket_types alone touch that table only.
LEMMA TicketWrites ==
    ASSUME NEW rows, rows \in [DOMAIN rows -> Ticket], DOMAIN rows \subseteq TicketTypes
    PROVE  /\ WellTyped(WriteTickets(rows)) /\ WriteTickets(rows).ticket_types = rows
           /\ DOMAIN WriteTickets(rows).reservations = {}
           /\ DOMAIN WriteTickets(rows).reservation_items = {}
           /\ DOMAIN WriteTickets(rows).reservation_seats = {}
<1> DEFINE w == WriteTickets(rows)
<1>1. /\ IsDatabase(w) /\ w.ticket_types = rows
      /\ w.reservations = NoWrites.reservations
      /\ w.reservation_items = NoWrites.reservation_items
      /\ w.reservation_seats = NoWrites.reservation_seats
  BY DEF WriteTickets, NoWrites, Tables, IsDatabase
<1> QED
  BY <1>1, NothingWritten DEF WellTyped

\* One written ticket row.
LEMMA OneTicket ==
    ASSUME NEW t \in TicketTypes, NEW row \in Ticket, NEW w, w = WriteTickets(OneRow(t, row))
    PROVE  /\ WellTyped(w) /\ DOMAIN w.ticket_types = {t} /\ w.ticket_types[t] = row
           /\ DOMAIN w.reservations = {} /\ DOMAIN w.reservation_items = {}
           /\ DOMAIN w.reservation_seats = {}
<1> DEFINE rows == OneRow(t, row)
<1>1. /\ rows \in [DOMAIN rows -> Ticket] /\ DOMAIN rows = {t} /\ rows[t] = row
      /\ DOMAIN rows \subseteq TicketTypes
  BY DEF OneRow
<1>2. w = WriteTickets(rows)
  OBVIOUS
<1> HIDE DEF rows
<1> QED
  BY <1>1, <1>2, TicketWrites

WriteHeaders(rows) == [NoWrites EXCEPT !.reservations = rows]

\* Writes to reservations alone touch that table only.
LEMMA HeaderWrites ==
    ASSUME NEW rows, rows \in [DOMAIN rows -> Header], DOMAIN rows \subseteq ReservationIds
    PROVE  /\ WellTyped(WriteHeaders(rows)) /\ WriteHeaders(rows).reservations = rows
           /\ DOMAIN WriteHeaders(rows).ticket_types = {}
           /\ DOMAIN WriteHeaders(rows).reservation_items = {}
           /\ DOMAIN WriteHeaders(rows).reservation_seats = {}
<1> DEFINE w == WriteHeaders(rows)
<1>1. /\ IsDatabase(w) /\ w.reservations = rows
      /\ w.ticket_types = NoWrites.ticket_types
      /\ w.reservation_items = NoWrites.reservation_items
      /\ w.reservation_seats = NoWrites.reservation_seats
  BY DEF WriteHeaders, NoWrites, Tables, IsDatabase
<1> QED
  BY <1>1, NothingWritten DEF WellTyped

\* One written header.
LEMMA OneHeader ==
    ASSUME NEW r \in ReservationIds, NEW row \in Header, NEW w, w = WriteHeaders(OneRow(r, row))
    PROVE  /\ WellTyped(w) /\ DOMAIN w.reservations = {r} /\ w.reservations[r] = row
           /\ DOMAIN w.ticket_types = {} /\ DOMAIN w.reservation_items = {}
           /\ DOMAIN w.reservation_seats = {}
<1> DEFINE rows == OneRow(r, row)
<1>1. /\ rows \in [DOMAIN rows -> Header] /\ DOMAIN rows = {r} /\ rows[r] = row
      /\ DOMAIN rows \subseteq ReservationIds
  BY DEF OneRow
<1>2. w = WriteHeaders(rows)
  OBVIOUS
<1> HIDE DEF rows
<1> QED
  BY <1>1, <1>2, HeaderWrites

WriteItems(rows) == [NoWrites EXCEPT !.reservation_items = rows]

\* Writes to reservation_items alone touch that table only.
LEMMA ItemWrites ==
    ASSUME NEW rows, rows \in [DOMAIN rows -> Item]
    PROVE  /\ WellTyped(WriteItems(rows)) /\ WriteItems(rows).reservation_items = rows
           /\ DOMAIN WriteItems(rows).ticket_types = {}
           /\ DOMAIN WriteItems(rows).reservations = {}
           /\ DOMAIN WriteItems(rows).reservation_seats = {}
<1> DEFINE w == WriteItems(rows)
<1>1. /\ IsDatabase(w) /\ w.reservation_items = rows
      /\ w.ticket_types = NoWrites.ticket_types
      /\ w.reservations = NoWrites.reservations
      /\ w.reservation_seats = NoWrites.reservation_seats
  BY DEF WriteItems, NoWrites, Tables, IsDatabase
<1> QED
  BY <1>1, NothingWritten DEF WellTyped

\* One written item.
LEMMA OneItem ==
    ASSUME NEW r \in ReservationIds, NEW row \in Item, NEW w, w = WriteItems(OneRow(r, row))
    PROVE  /\ WellTyped(w) /\ DOMAIN w.reservation_items = {r} /\ w.reservation_items[r] = row
           /\ DOMAIN w.ticket_types = {} /\ DOMAIN w.reservations = {}
           /\ DOMAIN w.reservation_seats = {}
<1> DEFINE rows == OneRow(r, row)
<1>1. /\ rows \in [DOMAIN rows -> Item] /\ DOMAIN rows = {r} /\ rows[r] = row
  BY DEF OneRow
<1>2. w = WriteItems(rows)
  OBVIOUS
<1> HIDE DEF rows
<1> QED
  BY <1>1, <1>2, ItemWrites

WriteHolds(rows) == [NoWrites EXCEPT !.reservation_seats = rows]

\* Writes to reservation_seats alone touch that table only.
LEMMA HoldWrites ==
    ASSUME NEW rows, rows \in [DOMAIN rows -> Hold], DOMAIN rows \subseteq ReservationIds \X Seats
    PROVE  /\ WellTyped(WriteHolds(rows)) /\ WriteHolds(rows).reservation_seats = rows
           /\ DOMAIN WriteHolds(rows).ticket_types = {}
           /\ DOMAIN WriteHolds(rows).reservations = {}
           /\ DOMAIN WriteHolds(rows).reservation_items = {}
<1> DEFINE w == WriteHolds(rows)
<1>1. /\ IsDatabase(w) /\ w.reservation_seats = rows
      /\ w.ticket_types = NoWrites.ticket_types
      /\ w.reservations = NoWrites.reservations
      /\ w.reservation_items = NoWrites.reservation_items
  BY DEF WriteHolds, NoWrites, Tables, IsDatabase
<1> QED
  BY <1>1, NothingWritten DEF WellTyped

\* One written seat row.
LEMMA OneHold ==
    ASSUME NEW r \in ReservationIds, NEW s \in Seats, NEW row \in Hold, NEW w, w = WriteHolds(OneRow(<<r, s>>, row))
    PROVE  /\ WellTyped(w) /\ DOMAIN w.reservation_seats = {<<r, s>>} /\ w.reservation_seats[<<r, s>>] = row
           /\ DOMAIN w.ticket_types = {} /\ DOMAIN w.reservations = {}
           /\ DOMAIN w.reservation_items = {}
<1> DEFINE rows == OneRow(<<r, s>>, row)
<1>1. /\ rows \in [DOMAIN rows -> Hold] /\ DOMAIN rows = {<<r, s>>} /\ rows[<<r, s>>] = row
      /\ DOMAIN rows \subseteq ReservationIds \X Seats
  BY DEF OneRow
<1>2. w = WriteHolds(rows)
  OBVIOUS
<1> HIDE DEF rows
<1> QED
  BY <1>1, <1>2, HoldWrites

\* A transaction that has written nothing reads the committed tables.
LEMMA OverlayNothing ==
    ASSUME NEW d, WellTyped(d)
    PROVE  Overlay(NoWrites, d) = d
<1>1. \A f : f = [x \in DOMAIN f |-> f[x]] => Patch(NoRows, f) = f
  BY DEF Patch, NoRows
<1>2. \A table \in Tables : NoWrites[table] = NoRows
  BY DEF NoWrites, Tables
<1>3. \A table \in Tables : d[table] = [x \in DOMAIN d[table] |-> d[table][x]]
  BY DEF WellTyped, Tables
<1>4. DOMAIN d = Tables /\ d = [table \in Tables |-> d[table]]
  BY DEF WellTyped, IsDatabase
<1> QED
  BY <1>1, <1>2, <1>3, <1>4 DEF Overlay

\* The rows that the statements write.
LEMMA ReserveTicketQuantityRows ==
    ASSUME NEW v, WellTyped(v), NEW t \in DOMAIN v.ticket_types, NEW q \in Nat
    PROVE  LET w == ReserveTicketQuantity(v, t, q)
           IN  /\ WellTyped(w) /\ DOMAIN w.ticket_types = {t}
               /\ w.ticket_types[t] = [v.ticket_types[t] EXCEPT !.reserved = @ + q]
               /\ DOMAIN w.reservations = {} /\ DOMAIN w.reservation_items = {}
               /\ DOMAIN w.reservation_seats = {}
<1> DEFINE row == [v.ticket_types[t] EXCEPT !.reserved = @ + q]
           w == ReserveTicketQuantity(v, t, q)
<1>1. t \in TicketTypes
  BY DEF WellTyped
<1>2. row \in Ticket
  <2>1. v.ticket_types[t] \in Ticket
    BY DEF WellTyped
  <2> QED
    BY <2>1 DEF Ticket
<1>3. w = WriteTickets(OneRow(t, row))
  BY DEF ReserveTicketQuantity, WriteTickets
<1> HIDE DEF row, w
<1>4. /\ WellTyped(w) /\ DOMAIN w.ticket_types = {t} /\ w.ticket_types[t] = row
      /\ DOMAIN w.reservations = {} /\ DOMAIN w.reservation_items = {}
      /\ DOMAIN w.reservation_seats = {}
  BY <1>1, <1>2, <1>3, OneTicket
<1> QED
  BY <1>4 DEF row, w

\* The INSERT of a header writes one reserved row.
LEMMA CreateReservationRows ==
    ASSUME NEW r \in ReservationIds, NEW s, NEW k, NEW e, NEW type, NEW expires,
           UserOf[s] \in {UserOf[rq.session] : rq \in Creating},
           s \in {rq.session : rq \in Creating}, k \in {rq.key : rq \in Creating},
           e \in {rq.event : rq \in Creating}, type \in {"quantity", "seats"}, expires \in Nat
    PROVE  LET w == CreateReservation(r, s, k, e, type, expires)
           IN  /\ WellTyped(w) /\ DOMAIN w.reservations = {r}
               /\ w.reservations[r] = [session |-> s, key |-> k, event |-> e, user |-> UserOf[s],
                                       type |-> type, status |-> "reserved", expires |-> expires]
               /\ DOMAIN w.ticket_types = {} /\ DOMAIN w.reservation_items = {}
               /\ DOMAIN w.reservation_seats = {}
<1> DEFINE row == [session |-> s, key |-> k, event |-> e, user |-> UserOf[s],
                   type |-> type, status |-> "reserved", expires |-> expires]
           w == CreateReservation(r, s, k, e, type, expires)
<1>1. row \in Header
  BY DEF Header, Status
<1>2. w = WriteHeaders(OneRow(r, row))
  BY DEF CreateReservation, WriteHeaders
<1> HIDE DEF row, w
<1>3. /\ WellTyped(w) /\ DOMAIN w.reservations = {r} /\ w.reservations[r] = row
      /\ DOMAIN w.ticket_types = {} /\ DOMAIN w.reservation_items = {}
      /\ DOMAIN w.reservation_seats = {}
  BY <1>1, <1>2, OneHeader
<1> QED
  BY <1>3 DEF row, w

\* The INSERT of an item writes one reserved row.
LEMMA CreateReservationItemRows ==
    ASSUME NEW r \in ReservationIds, NEW t \in TicketTypes, NEW q \in 1..MaxQuantity
    PROVE  LET w == CreateReservationItem(r, t, q)
           IN  /\ WellTyped(w) /\ DOMAIN w.reservation_items = {r}
               /\ w.reservation_items[r] = [ticket |-> t, quantity |-> q, status |-> "reserved"]
               /\ DOMAIN w.ticket_types = {} /\ DOMAIN w.reservations = {}
               /\ DOMAIN w.reservation_seats = {}
<1> DEFINE row == [ticket |-> t, quantity |-> q, status |-> "reserved"]
           w == CreateReservationItem(r, t, q)
<1>1. row \in Item
  BY DEF Item, Status
<1>2. w = WriteItems(OneRow(r, row))
  BY DEF CreateReservationItem, WriteItems
<1> HIDE DEF row, w
<1>3. /\ WellTyped(w) /\ DOMAIN w.reservation_items = {r} /\ w.reservation_items[r] = row
      /\ DOMAIN w.ticket_types = {} /\ DOMAIN w.reservations = {}
      /\ DOMAIN w.reservation_seats = {}
  BY <1>1, <1>2, OneItem
<1> QED
  BY <1>3 DEF row, w

\* The INSERT of a seat writes one reserved row.
LEMMA CreateReservationSeatRows ==
    ASSUME NEW r \in ReservationIds, NEW s \in Seats, NEW expires \in Nat
    PROVE  LET w == CreateReservationSeat(r, s, expires)
           IN  /\ WellTyped(w) /\ DOMAIN w.reservation_seats = {<<r, s>>}
               /\ w.reservation_seats[<<r, s>>] = [status |-> "reserved", expires |-> expires]
               /\ DOMAIN w.ticket_types = {} /\ DOMAIN w.reservations = {}
               /\ DOMAIN w.reservation_items = {}
<1> DEFINE row == [status |-> "reserved", expires |-> expires]
           w == CreateReservationSeat(r, s, expires)
<1>1. row \in Hold
  BY DEF Hold, Status
<1>2. w = WriteHolds(OneRow(<<r, s>>, row))
  BY DEF CreateReservationSeat, WriteHolds
<1> HIDE DEF row, w
<1>3. /\ WellTyped(w) /\ DOMAIN w.reservation_seats = {<<r, s>>} /\ w.reservation_seats[<<r, s>>] = row
      /\ DOMAIN w.ticket_types = {} /\ DOMAIN w.reservations = {}
      /\ DOMAIN w.reservation_items = {}
  BY <1>1, <1>2, OneHold
<1> QED
  BY <1>3 DEF row, w

\* The rows of type V have a status column, and status is a value of it.
HasStatus(V, status) == \A row \in V : [row EXCEPT !.status = status] \in V

\* The rows that a status UPDATE marks.
LEMMA MarkedRows ==
    ASSUME NEW rows, NEW I, NEW status, NEW V, rows \in [DOMAIN rows -> V], HasStatus(V, status)
    PROVE  /\ Marked(rows, I, status) \in [DOMAIN Marked(rows, I, status) -> V]
           /\ DOMAIN Marked(rows, I, status) \subseteq DOMAIN rows
           /\ \A i : i \in DOMAIN Marked(rows, I, status) <=>
                        i \in DOMAIN rows /\ i \in I /\ rows[i].status = "reserved"
           /\ \A i \in DOMAIN Marked(rows, I, status) :
                 Marked(rows, I, status)[i] = [rows[i] EXCEPT !.status = status]
BY DEF Marked, HasStatus

\* The headers that are still reserved expire, the others stay.
LEMMA ExpireReservationsByIDsRows ==
    ASSUME NEW v, WellTyped(v), NEW R
    PROVE  LET w == ExpireReservationsByIDs(v, R)
           IN  /\ WellTyped(w)
               /\ \A r : r \in DOMAIN w.reservations <=>
                     r \in DOMAIN v.reservations /\ r \in R /\ v.reservations[r].status = "reserved"
               /\ \A r \in DOMAIN w.reservations :
                     w.reservations[r] = [v.reservations[r] EXCEPT !.status = "expired"]
               /\ DOMAIN w.ticket_types = {} /\ DOMAIN w.reservation_items = {}
               /\ DOMAIN w.reservation_seats = {}
<1> DEFINE rows == v.reservations
           marked == Marked(rows, R, "expired")
           w == ExpireReservationsByIDs(v, R)
<1>1. rows \in [DOMAIN rows -> Header] /\ DOMAIN rows \subseteq ReservationIds
  BY DEF WellTyped
<1>2. HasStatus(Header, "expired")
  BY DEF HasStatus, Header, Status, Final
<1>3. w = WriteHeaders(marked)
  BY DEF ExpireReservationsByIDs, WriteHeaders
<1> HIDE DEF rows
<1>4. /\ marked \in [DOMAIN marked -> Header]
      /\ DOMAIN marked \subseteq DOMAIN rows
      /\ \A i : i \in DOMAIN marked <=> i \in DOMAIN rows /\ i \in R /\ rows[i].status = "reserved"
      /\ \A i \in DOMAIN marked : marked[i] = [rows[i] EXCEPT !.status = "expired"]
  BY <1>1, <1>2, MarkedRows
<1> HIDE DEF marked, w
<1>5. /\ WellTyped(w) /\ w.reservations = marked
      /\ DOMAIN w.ticket_types = {} /\ DOMAIN w.reservation_items = {}
      /\ DOMAIN w.reservation_seats = {}
  BY <1>1, <1>3, <1>4, HeaderWrites
<1> QED
  BY <1>4, <1>5 DEF rows, w

\* The seat rows that are still reserved expire with their reservations.
LEMMA ExpireSeatsRows ==
    ASSUME NEW v, WellTyped(v), NEW R
    PROVE  LET w == ExpireReservationSeatsByReservationIDs(v, R)
           IN  /\ WellTyped(w)
               /\ \A i : i \in DOMAIN w.reservation_seats <=>
                     /\ i \in DOMAIN v.reservation_seats /\ i[1] \in R
                     /\ v.reservation_seats[i].status = "reserved"
               /\ \A i \in DOMAIN w.reservation_seats :
                     w.reservation_seats[i] = [v.reservation_seats[i] EXCEPT !.status = "expired"]
               /\ DOMAIN w.ticket_types = {} /\ DOMAIN w.reservations = {}
               /\ DOMAIN w.reservation_items = {}
<1> DEFINE rows == v.reservation_seats
           I == SeatRowsOf(v, R)
           marked == Marked(rows, I, "expired")
           w == ExpireReservationSeatsByReservationIDs(v, R)
<1>1. rows \in [DOMAIN rows -> Hold] /\ DOMAIN rows \subseteq ReservationIds \X Seats
  BY DEF WellTyped
<1>2. HasStatus(Hold, "expired")
  BY DEF HasStatus, Hold, Status, Final
<1>3. w = WriteHolds(marked)
  BY DEF ExpireReservationSeatsByReservationIDs, WriteHolds
<1>4. \A i : i \in I <=> i \in DOMAIN rows /\ i[1] \in R
  BY DEF SeatRowsOf
<1> HIDE DEF rows, I
<1>5. /\ marked \in [DOMAIN marked -> Hold]
      /\ DOMAIN marked \subseteq DOMAIN rows
      /\ \A i : i \in DOMAIN marked <=> i \in DOMAIN rows /\ i \in I /\ rows[i].status = "reserved"
      /\ \A i \in DOMAIN marked : marked[i] = [rows[i] EXCEPT !.status = "expired"]
  BY <1>1, <1>2, MarkedRows
<1> HIDE DEF marked, w
<1>6. /\ WellTyped(w) /\ w.reservation_seats = marked
      /\ DOMAIN w.ticket_types = {} /\ DOMAIN w.reservations = {}
      /\ DOMAIN w.reservation_items = {}
  BY <1>1, <1>3, <1>5, HoldWrites
<1> QED
  BY <1>4, <1>5, <1>6 DEF rows, w

\* The header gets the status whatever it was.
LEMMA UpdateReservationStatusRows ==
    ASSUME NEW v, WellTyped(v), NEW r \in DOMAIN v.reservations, NEW status \in Status
    PROVE  LET w == UpdateReservationStatus(v, r, status)
           IN  /\ WellTyped(w) /\ DOMAIN w.reservations = {r}
               /\ w.reservations[r] = [v.reservations[r] EXCEPT !.status = status]
               /\ DOMAIN w.ticket_types = {} /\ DOMAIN w.reservation_items = {}
               /\ DOMAIN w.reservation_seats = {}
<1> DEFINE row == [v.reservations[r] EXCEPT !.status = status]
           w == UpdateReservationStatus(v, r, status)
<1>1. r \in ReservationIds
  BY DEF WellTyped
<1>2. row \in Header
  <2>1. v.reservations[r] \in Header
    BY DEF WellTyped
  <2> QED
    BY <2>1 DEF Header
<1>3. w = WriteHeaders(OneRow(r, row))
  BY DEF UpdateReservationStatus, WriteHeaders
<1> HIDE DEF row, w
<1>4. /\ WellTyped(w) /\ DOMAIN w.reservations = {r} /\ w.reservations[r] = row
      /\ DOMAIN w.ticket_types = {} /\ DOMAIN w.reservation_items = {}
      /\ DOMAIN w.reservation_seats = {}
  BY <1>1, <1>2, <1>3, OneHeader
<1> QED
  BY <1>4 DEF row, w

\* The item gets the status if it is still reserved.
LEMMA UpdateReservationItemsStatusRows ==
    ASSUME NEW v, WellTyped(v), NEW r, NEW status \in Status
    PROVE  LET w == UpdateReservationItemsStatus(v, r, status)
           IN  /\ WellTyped(w)
               /\ \A x : x \in DOMAIN w.reservation_items <=>
                     /\ x = r /\ r \in DOMAIN v.reservation_items
                     /\ v.reservation_items[r].status = "reserved"
               /\ \A x \in DOMAIN w.reservation_items :
                     w.reservation_items[x] = [v.reservation_items[x] EXCEPT !.status = status]
               /\ DOMAIN w.ticket_types = {} /\ DOMAIN w.reservations = {}
               /\ DOMAIN w.reservation_seats = {}
<1> DEFINE rows == v.reservation_items
           I == {r}
           marked == Marked(rows, I, status)
           w == UpdateReservationItemsStatus(v, r, status)
<1>1. rows \in [DOMAIN rows -> Item]
  BY DEF WellTyped
<1>2. HasStatus(Item, status)
  BY DEF HasStatus, Item
<1>3. w = WriteItems(marked)
  BY DEF UpdateReservationItemsStatus, WriteItems
<1>4. \A x : x \in I <=> x = r
  OBVIOUS
<1> HIDE DEF rows, I
<1>5. /\ marked \in [DOMAIN marked -> Item]
      /\ \A i : i \in DOMAIN marked <=> i \in DOMAIN rows /\ i \in I /\ rows[i].status = "reserved"
      /\ \A i \in DOMAIN marked : marked[i] = [rows[i] EXCEPT !.status = status]
  BY <1>1, <1>2, MarkedRows
<1> HIDE DEF marked, w
<1>6. /\ WellTyped(w) /\ w.reservation_items = marked
      /\ DOMAIN w.ticket_types = {} /\ DOMAIN w.reservations = {}
      /\ DOMAIN w.reservation_seats = {}
  BY <1>3, <1>5, ItemWrites
<1> QED
  BY <1>4, <1>5, <1>6 DEF rows, w

\* The seat rows that are still reserved get the status.
LEMMA UpdateReservationSeatsStatusRows ==
    ASSUME NEW v, WellTyped(v), NEW r, NEW status \in Status
    PROVE  LET w == UpdateReservationSeatsStatus(v, r, status)
           IN  /\ WellTyped(w)
               /\ \A i : i \in DOMAIN w.reservation_seats <=>
                     /\ i \in DOMAIN v.reservation_seats /\ i[1] = r
                     /\ v.reservation_seats[i].status = "reserved"
               /\ \A i \in DOMAIN w.reservation_seats :
                     w.reservation_seats[i] = [v.reservation_seats[i] EXCEPT !.status = status]
               /\ DOMAIN w.ticket_types = {} /\ DOMAIN w.reservations = {}
               /\ DOMAIN w.reservation_items = {}
<1> DEFINE rows == v.reservation_seats
           I == SeatRowsOf(v, {r})
           marked == Marked(rows, I, status)
           w == UpdateReservationSeatsStatus(v, r, status)
<1>1. rows \in [DOMAIN rows -> Hold] /\ DOMAIN rows \subseteq ReservationIds \X Seats
  BY DEF WellTyped
<1>2. HasStatus(Hold, status)
  BY DEF HasStatus, Hold
<1>3. w = WriteHolds(marked)
  BY DEF UpdateReservationSeatsStatus, WriteHolds
<1>4. \A i : i \in I <=> i \in DOMAIN rows /\ i[1] = r
  BY DEF SeatRowsOf
<1> HIDE DEF rows, I
<1>5. /\ marked \in [DOMAIN marked -> Hold]
      /\ DOMAIN marked \subseteq DOMAIN rows
      /\ \A i : i \in DOMAIN marked <=> i \in DOMAIN rows /\ i \in I /\ rows[i].status = "reserved"
      /\ \A i \in DOMAIN marked : marked[i] = [rows[i] EXCEPT !.status = status]
  BY <1>1, <1>2, MarkedRows
<1> HIDE DEF marked, w
<1>6. /\ WellTyped(w) /\ w.reservation_seats = marked
      /\ DOMAIN w.ticket_types = {} /\ DOMAIN w.reservations = {}
      /\ DOMAIN w.reservation_items = {}
  BY <1>1, <1>3, <1>5, HoldWrites
<1> QED
  BY <1>4, <1>5, <1>6 DEF rows, w

\* The ticket row after q reserved units are confirmed or released.
TicketMoved(row, q, status) ==
    [sold |-> IF status = "confirmed" THEN row.sold + q ELSE row.sold,
     reserved |-> row.reserved - q]

\* Confirming or releasing an item writes its ticket row and never below zero.
LEMMA MoveStockRows ==
    ASSUME NEW v, WellTyped(v), NEW r \in DOMAIN v.reservation_items, NEW t, NEW status,
           t = v.reservation_items[r].ticket, t \in DOMAIN v.ticket_types,
           v.reservation_items[r].quantity <= v.ticket_types[t].reserved
    PROVE  LET w == MoveStock(v, r, status)
           IN  /\ WellTyped(w) /\ DOMAIN w.ticket_types = {t}
               /\ w.ticket_types[t] =
                     TicketMoved(v.ticket_types[t], v.reservation_items[r].quantity, status)
               /\ DOMAIN w.reservations = {} /\ DOMAIN w.reservation_items = {}
               /\ DOMAIN w.reservation_seats = {}
<1> DEFINE q == v.reservation_items[r].quantity
           old == v.ticket_types[t]
           row == TicketMoved(old, q, status)
           w == MoveStock(v, r, status)
<1>1. q \in Nat /\ old \in Ticket /\ old.reserved \in Nat /\ old.sold \in Nat /\ t \in TicketTypes
  BY RowTypes, TxAssumption DEF WellTyped
<1>2. row \in Ticket
  BY <1>1 DEF TicketMoved, Ticket
<1>3. row = IF status = "confirmed"
            THEN [old EXCEPT !.reserved = @ - q, !.sold = @ + q]
            ELSE [old EXCEPT !.reserved = @ - q]
  BY <1>1 DEF TicketMoved, Ticket
<1>4. w = WriteTickets(OneRow(t, row))
  <2> HIDE DEF row
  <2> QED
    BY <1>3 DEF MoveStock, ConfirmTicketQuantity, ReleaseTicketQuantity, WriteTickets
<1> HIDE DEF row, w
<1>5. /\ WellTyped(w) /\ DOMAIN w.ticket_types = {t} /\ w.ticket_types[t] = row
      /\ DOMAIN w.reservations = {} /\ DOMAIN w.reservation_items = {}
      /\ DOMAIN w.reservation_seats = {}
  <2>1. t \in TicketTypes
    BY <1>1
  <2> QED
    BY <1>2, <1>4, <2>1, OneTicket
<1> QED
  BY <1>5 DEF row, w

\* The writes w move reservation r of the tables v to status: the header, all its
\* reserved children and the stock of its item.
Moves(v, w, r, status) ==
    /\ DOMAIN w.reservations = {r}
    /\ w.reservations[r] = [v.reservations[r] EXCEPT !.status = status]
    /\ v.reservations[r].type = "quantity" =>
          LET item == v.reservation_items[r]
          IN  /\ r \in DOMAIN v.reservation_items
              /\ item.quantity <= v.ticket_types[item.ticket].reserved
              /\ DOMAIN w.ticket_types = {item.ticket}
              /\ w.ticket_types[item.ticket] =
                    TicketMoved(v.ticket_types[item.ticket], item.quantity, status)
              /\ DOMAIN w.reservation_items = {r}
              /\ w.reservation_items[r] = [item EXCEPT !.status = status]
              /\ DOMAIN w.reservation_seats = {}
    /\ v.reservations[r].type # "quantity" =>
          /\ DOMAIN w.ticket_types = {} /\ DOMAIN w.reservation_items = {}
          /\ \A i : i \in DOMAIN w.reservation_seats <=>
                /\ i \in DOMAIN v.reservation_seats /\ i[1] = r
                /\ v.reservation_seats[i].status = "reserved"
          /\ \A i \in DOMAIN w.reservation_seats :
                w.reservation_seats[i] = [v.reservation_seats[i] EXCEPT !.status = status]

\* What cancelLockedReservation, confirmLockedReservation and
\* expireLockedReservation write.
LEMMA TransitionLockedRows ==
    ASSUME NEW v, WellTyped(v), DOMAIN v.ticket_types = TicketTypes,
           NEW r \in DOMAIN v.reservations, NEW status \in Status, ~InvariantBroken(v, r)
    PROVE  /\ WellTyped(TransitionLocked(v, r, status))
           /\ Moves(v, TransitionLocked(v, r, status), r, status)
<1> DEFINE head == UpdateReservationStatus(v, r, status)
           items == UpdateReservationItemsStatus(v, r, status)
           seats == UpdateReservationSeatsStatus(v, r, status)
           stock == MoveStock(v, r, status)
           w == TransitionLocked(v, r, status)
<1>1. /\ WellTyped(head) /\ DOMAIN head.reservations = {r}
      /\ head.reservations[r] = [v.reservations[r] EXCEPT !.status = status]
      /\ DOMAIN head.ticket_types = {} /\ DOMAIN head.reservation_items = {}
      /\ DOMAIN head.reservation_seats = {}
  BY UpdateReservationStatusRows
<1>2. CASE v.reservations[r].type = "quantity"
  <2> DEFINE t == v.reservation_items[r].ticket
             both == Overlay(stock, items)
  <2>1. /\ r \in DOMAIN v.reservation_items
        /\ v.reservation_items[r].status = "reserved"
        /\ ~(v.ticket_types[t].reserved < v.reservation_items[r].quantity)
    BY <1>2 DEF InvariantBroken
  <2>2. t \in DOMAIN v.ticket_types
    BY <2>1, RowTypes
  <2>3. v.reservation_items[r].quantity <= v.ticket_types[t].reserved
    <3>1. v.reservation_items[r].quantity \in Int /\ v.ticket_types[t].reserved \in Int
      BY <2>1, <2>2, RowTypes, TxAssumption
    <3> QED
      BY <2>1, <3>1
  <2>4. /\ WellTyped(stock) /\ DOMAIN stock.ticket_types = {t}
        /\ stock.ticket_types[t] =
              TicketMoved(v.ticket_types[t], v.reservation_items[r].quantity, status)
        /\ DOMAIN stock.reservations = {} /\ DOMAIN stock.reservation_items = {}
        /\ DOMAIN stock.reservation_seats = {}
    BY <2>1, <2>2, <2>3, MoveStockRows
  <2>5. /\ WellTyped(items)
        /\ \A x : x \in DOMAIN items.reservation_items <=>
              /\ x = r /\ r \in DOMAIN v.reservation_items
              /\ v.reservation_items[r].status = "reserved"
        /\ \A x \in DOMAIN items.reservation_items :
              items.reservation_items[x] = [v.reservation_items[x] EXCEPT !.status = status]
        /\ DOMAIN items.ticket_types = {} /\ DOMAIN items.reservations = {}
        /\ DOMAIN items.reservation_seats = {}
    BY UpdateReservationItemsStatusRows
  <2>6. /\ DOMAIN items.reservation_items = {r}
        /\ items.reservation_items[r] = [v.reservation_items[r] EXCEPT !.status = status]
    BY <2>1, <2>5
  <2>7. w = Overlay(head, both)
    BY <1>2 DEF TransitionLocked
  <2> HIDE DEF head, items, stock, w
  <2>8. WellTyped(both) /\ IsOverlay(both, stock, items)
    BY <2>4, <2>5, OverlayRows, OverlayTyped
  <2> HIDE DEF both
  <2>9. WellTyped(w) /\ IsOverlay(w, head, both)
    BY <1>1, <2>7, <2>8, OverlayRows, OverlayTyped
  <2>10. /\ DOMAIN w.reservations = {r} /\ w.reservations[r] = head.reservations[r]
         /\ DOMAIN w.reservation_seats = {}
    BY <1>1, <2>4, <2>5, <2>8, <2>9 DEF IsOverlay, IsPatched
  <2>11. /\ DOMAIN w.ticket_types = {t} /\ w.ticket_types[t] = stock.ticket_types[t]
    BY <1>1, <2>4, <2>5, <2>8, <2>9 DEF IsOverlay, IsPatched
  <2>12. /\ DOMAIN w.reservation_items = {r}
         /\ w.reservation_items[r] = items.reservation_items[r]
    BY <1>1, <2>4, <2>6, <2>8, <2>9 DEF IsOverlay, IsPatched
  <2> QED
    BY <1>1, <1>2, <2>1, <2>3, <2>4, <2>6, <2>9, <2>10, <2>11, <2>12 DEF w, Moves
<1>3. CASE v.reservations[r].type # "quantity"
  <2>1. /\ WellTyped(seats)
        /\ \A i : i \in DOMAIN seats.reservation_seats <=>
              /\ i \in DOMAIN v.reservation_seats /\ i[1] = r
              /\ v.reservation_seats[i].status = "reserved"
        /\ \A i \in DOMAIN seats.reservation_seats :
              seats.reservation_seats[i] = [v.reservation_seats[i] EXCEPT !.status = status]
        /\ DOMAIN seats.ticket_types = {} /\ DOMAIN seats.reservations = {}
        /\ DOMAIN seats.reservation_items = {}
    BY UpdateReservationSeatsStatusRows
  <2>2. w = Overlay(head, seats)
    BY <1>3 DEF TransitionLocked
  <2> HIDE DEF head, seats, w
  <2>3. WellTyped(w) /\ IsOverlay(w, head, seats)
    BY <1>1, <2>1, <2>2, OverlayRows, OverlayTyped
  <2>4. /\ DOMAIN w.reservations = {r} /\ w.reservations[r] = head.reservations[r]
        /\ DOMAIN w.ticket_types = {} /\ DOMAIN w.reservation_items = {}
        /\ DOMAIN w.reservation_seats = DOMAIN seats.reservation_seats
        /\ \A i \in DOMAIN w.reservation_seats :
              w.reservation_seats[i] = seats.reservation_seats[i]
    BY <1>1, <2>1, <2>3 DEF IsOverlay, IsPatched
  <2> QED
    BY <1>1, <1>3, <2>1, <2>3, <2>4 DEF w, Moves
<1> QED
  BY <1>2, <1>3

\* What a transaction reads.
LEMMA ViewRows ==
    ASSUME Types, NEW p \in Procs
    PROVE  /\ WellTyped(View(p)) /\ IsOverlay(View(p), pend[p], db)
           /\ pend[p] = NoWrites => View(p) = db
<1>1. WellTyped(db) /\ WellTyped(pend[p])
  BY DEF Types
<1> QED
  BY <1>1, OverlayRows, OverlayTyped, OverlayNothing DEF View

--------------------------------------------------------------------------------
(* What a step leaves alone *)

\* A step of somebody else.
Quiet(o) ==
    /\ pend'[o] = pend[o] /\ locks'[o] = locks[o] /\ pc'[o] = pc[o] /\ loc'[o] = loc[o]
    /\ o \in Handlers => req'[o] = req[o] /\ resp'[o] = resp[o]

\* The committed tables change only as the locks and the unpublished rows of o
\* allow.
Unaffected(o) ==
    /\ now <= now'
    /\ DOMAIN db.reservations \subseteq DOMAIN db'.reservations
    /\ \A r \in DOMAIN db.reservations :
          LET old == db.reservations[r]
              new == db'.reservations[r]
          IN  /\ new.session = old.session /\ new.key = old.key /\ new.event = old.event
              /\ new.user = old.user /\ new.type = old.type /\ new.expires = old.expires
              /\ new.status = old.status \/ (old.status = "reserved" /\ new.status \in Final)
              /\ ReservationRow(r) \in locks[o] => new = old
              /\ r \in DOMAIN db'.reservation_items <=> r \in DOMAIN db.reservation_items
              /\ r \in DOMAIN db.reservation_items =>
                    /\ db'.reservation_items[r].ticket = db.reservation_items[r].ticket
                    /\ db'.reservation_items[r].quantity = db.reservation_items[r].quantity
    /\ \A r \in DOMAIN db'.reservations \ DOMAIN db.reservations :
          /\ r \notin DOMAIN pend[o].reservations
          /\ \A x \in Created(o) :
                <<db'.reservations[r].session, db'.reservations[r].key>>
                   # <<pend[o].reservations[x].session, pend[o].reservations[x].key>>
    /\ DOMAIN db.reservation_seats \subseteq DOMAIN db'.reservation_seats
    /\ \A i \in DOMAIN db'.reservation_seats \ DOMAIN db.reservation_seats :
          i[1] \notin DOMAIN db.reservations /\ SeatRow(i[2]) \notin locks[o]
    /\ \A t \in TicketTypes :
          TicketRow(t) \in locks[o] => db'.ticket_types[t] = db.ticket_types[t]

\* The state before and after a step that leaves o alone.
Bystander(o) ==
    /\ Types /\ Committed /\ Types' /\ Committed' /\ o \in Procs /\ ProcInv(o)
    /\ Quiet(o) /\ Unaffected(o)

\* What a bystander has written is still to be published or still locked.
LEMMA SameRows ==
    ASSUME NEW o, Bystander(o)
    PROVE  Moved(o)' = Moved(o) /\ Created(o)' = Created(o)
BY DEF Bystander, Quiet, Unaffected, Moved, Created

\* A step of somebody else leaves what o has written as the invariant has it.
LEMMA WritesStay ==
    ASSUME NEW o, Bystander(o)
    PROVE  Writes(o)' /\ Closed(o)'
<1> USE SameRows
<1>1. MovedRows(o)'
  <2> SUFFICES ASSUME NEW r \in Moved(o)
               PROVE  MovedRow(o, r)'
    BY DEF MovedRows
  <2>1. MovedRow(o, r) /\ r \in DOMAIN db.reservations
    BY DEF Bystander, ProcInv, Writes, MovedRows, Moved
  <2>2. db'.reservations[r] = db.reservations[r]
    BY <2>1 DEF Bystander, Unaffected, MovedRow
  <2> QED
    BY <2>1, <2>2 DEF Bystander, Quiet, Unaffected, MovedRow
<1>2. CreatedRows(o)'
  BY DEF Bystander, Quiet, Unaffected, ProcInv, Writes, CreatedRows, IsFree
<1>3. ItemRows(o)'
  BY DEF Bystander, Quiet, Unaffected, ProcInv, Writes, ItemRows
<1>4. SeatRows(o)'
  BY DEF Bystander, Quiet, Unaffected, ProcInv, Writes, SeatRows
<1>5. TicketRows(o)'
  BY DEF Bystander, Quiet, Unaffected, ProcInv, Writes, TicketRows
<1>6. CreatedWhole(o)'
  BY DEF Bystander, Quiet, ProcInv, Writes, CreatedWhole
<1>7. Closed(o)'
  BY TxAssumption DEF Bystander, Quiet, Unaffected, ProcInv, Closed, Types, Locals
<1> QED
  BY <1>1, <1>2, <1>3, <1>4, <1>5, <1>6, <1>7 DEF Writes

\* A step of somebody else leaves what a handler relies on as it was.
LEMMA HandlerStays ==
    ASSUME NEW o \in Handlers, Bystander(o)
    PROVE  HandlerInv(o)'
<1> USE SameRows
<1>t. /\ \A r \in DOMAIN db.reservations : db.reservations[r].expires \in Nat
      /\ now \in Nat /\ now' \in Nat /\ now <= now'
  BY RowTypes, TxAssumption DEF Bystander, Types, Unaffected
<1>1. HandlerInv(o) /\ Writes(o)
  BY DEF Bystander, ProcInv
<1>2. Writes(o)'
  BY WritesStay
<1>3. RequestFits(o)'
  BY <1>1 DEF HandlerInv, RequestFits, Bystander, Quiet
<1>4. ASSUME StockTaken(o) PROVE StockTaken(o)'
  BY <1>1, <1>4 DEF StockTaken, HasStock, Writes, TicketRows, Bystander, Quiet, Unaffected
<1>5. QuantityFits(o)'
  BY <1>1, <1>4 DEF HandlerInv, QuantityFits, IsHeaderOf, Bystander, Quiet, Unaffected
<1>6. ASSUME SeatsLocked(o) PROVE SeatsLocked(o)'
  BY <1>6 DEF SeatsLocked, Wanted, Bystander, Quiet
<1>7. ASSUME NEW r, IsStale(o, r) PROVE IsStale(o, r)'
  <2>1. /\ r \in DOMAIN db'.reservations
        /\ db'.reservations[r].type = "seats"
        /\ db'.reservations[r].expires <= now'
    BY <1>t, <1>7 DEF IsStale, Bystander, Unaffected
  <2>2. \E i \in DOMAIN db'.reservation_seats : i[1] = r /\ i[2] \in Wanted(o)
    BY <1>7 DEF IsStale, Bystander, Unaffected
  <2> QED
    BY <2>1, <2>2 DEF IsStale, Wanted, Bystander, Quiet
<1>8. ASSUME NEW i \in DOMAIN db'.reservation_seats, SeatRow(i[2]) \in locks[o]
      PROVE  /\ i \in DOMAIN db.reservation_seats
             /\ db'.reservation_seats[i].expires = db.reservation_seats[i].expires
             /\ \/ db'.reservation_seats[i].status = db.reservation_seats[i].status
                \/ /\ db.reservation_seats[i].status = "reserved"
                   /\ db'.reservation_seats[i].status \in Final
  <2>1. i \in DOMAIN db.reservation_seats
    BY <1>8 DEF Bystander, Unaffected
  <2>2. i[1] \in DOMAIN db.reservations /\ i[1] \in DOMAIN db'.reservations
    BY <2>1 DEF Bystander, Committed
  <2>3. /\ db.reservation_seats[i].expires = db.reservations[i[1]].expires
        /\ db.reservation_seats[i].status = db.reservations[i[1]].status
    BY <2>1, <2>2 DEF Bystander, Committed, ChildrenOf
  <2>4. /\ db'.reservation_seats[i].expires = db'.reservations[i[1]].expires
        /\ db'.reservation_seats[i].status = db'.reservations[i[1]].status
    BY <2>1, <2>2 DEF Bystander, Committed, ChildrenOf
  <2>5. /\ db'.reservations[i[1]].expires = db.reservations[i[1]].expires
        /\ \/ db'.reservations[i[1]].status = db.reservations[i[1]].status
           \/ /\ db.reservations[i[1]].status = "reserved"
              /\ db'.reservations[i[1]].status \in Final
    BY <2>2 DEF Bystander, Unaffected
  <2> QED
    BY <2>1, <2>3, <2>4, <2>5
<1>9. ASSUME NEW R, R \subseteq DOMAIN db.reservations, SeatsLocked(o), OthersRun(o, R)
      PROVE  OthersRun(o, R)'
  <2>1. \A r \in R : db'.reservations[r].expires = db.reservations[r].expires
    BY <1>9 DEF Bystander, Unaffected
  <2> QED
    BY <1>8, <1>9, <2>1 DEF SeatsLocked, OthersRun, Wanted, Bystander, Quiet, Final
<1>10. ASSUME HoldsExpired(o) PROVE HoldsExpired(o)'
  <2>1. Moved(o) \subseteq DOMAIN db.reservations
    BY DEF Moved
  <2> QED
    BY <1>6, <1>7, <1>9, <1>10, <2>1 DEF HoldsExpired, Bystander, Quiet
<1>11. ASSUME HoldsCreated(o) PROVE HoldsCreated(o)'
  <2>1. HoldsExpired(o)' /\ SeatsLocked(o)
    BY <1>10, <1>11 DEF HoldsCreated, HoldsExpired
  <2>2. \A i \in DOMAIN db'.reservation_seats :
              /\ i[2] \in Wanted(o) \ loc[o].todo
              /\ db'.reservation_seats[i].status \in {"reserved", "confirmed"}
              => i[1] \in Moved(o)
    BY <1>8, <2>1, <1>11 DEF HoldsCreated, SeatsLocked, Final
  <2> QED
    BY <2>1, <2>2, <1>11 DEF HoldsCreated, IsHeaderOf, Wanted, Bystander, Quiet
<1>12. SeatsFit(o)'
  <2>1. ASSUME pc[o] = "s_expire" PROVE loc[o].listed \subseteq DOMAIN db.reservations
    BY <1>1, <2>1 DEF HandlerInv, SeatsFit, IsStale
  <2> QED
    BY <1>1, <1>6, <1>7, <1>9, <1>10, <1>11, <2>1
       DEF HandlerInv, SeatsFit, Wanted, Bystander, Quiet
<1>13. ReplayFits(o)'
  BY <1>1 DEF HandlerInv, ReplayFits, IsFree, Bystander, Quiet, Unaffected
<1>14. ASSUME HeaderLocked(o)
       PROVE  /\ HeaderLocked(o)'
              /\ db'.reservations[req[o].id] = db.reservations[req[o].id]
              /\ req'[o] = req[o]
  BY <1>14 DEF HeaderLocked, Visible, CanAccessReservation, Bystander, Quiet, Unaffected
<1>15. TransitionFits(o)'
  <2>1. pc'[o] = pc[o] /\ loc'[o] = loc[o] /\ pend'[o] = pend[o] /\ req'[o] = req[o]
    BY DEF Bystander, Quiet
  <2>2. TransitionFits(o)
    BY <1>1 DEF HandlerInv
  <2>3. ASSUME HeaderLocked(o), db.reservations[req[o].id].expires <= now
        PROVE  db'.reservations[req[o].id].expires <= now'
    <3>1. db.reservations[req[o].id].expires \in Nat
      BY <1>t, <2>3 DEF HeaderLocked, Visible
    <3> QED
      BY <1>t, <1>14, <2>3, <3>1
  <2> QED
    BY <1>14, <2>1, <2>2, <2>3 DEF TransitionFits, Lifecycle
<1>16. AnswerFits(o)'
  <2>1. /\ pc'[o] = pc[o] /\ loc'[o] = loc[o] /\ pend'[o] = pend[o] /\ req'[o] = req[o]
        /\ resp'[o] = resp[o]
    BY DEF Bystander, Quiet
  <2>2. IsOverlay(View(o), pend[o], db) /\ IsOverlay(View(o), pend[o], db)'
    BY OverlayRows DEF Bystander, Types, View
  <2>3. ASSUME NEW a, IsOwn(o, db, a) PROVE IsOwn(o, db, a)'
    BY <2>1, <2>3 DEF IsOwn, Bystander, Unaffected
  <2>4. ASSUME NEW a, IsOwn(o, View(o), a) PROVE IsOwn(o, View(o), a)'
    BY <2>1, <2>2, <2>4 DEF IsOwn, Bystander, Unaffected, IsOverlay, IsPatched
  <2>5. ASSUME NEW a, IsShown(o, db, a) PROVE IsShown(o, db, a)'
    BY <2>1, <2>5 DEF IsShown, Bystander, Unaffected, CanAccessReservation
  <2>6. ASSUME NEW a, IsTransition(o, db, a) PROVE IsTransition(o, db, a)'
    BY <2>1, <2>6 DEF IsTransition, Bystander, Unaffected, CanAccessReservation, Final
  <2>7. ASSUME NEW a, HeaderLocked(o), IsTransition(o, View(o), a)
        PROVE  IsTransition(o, View(o), a)'
    <3>1. /\ db'.reservations[a.id] = db.reservations[a.id]
          /\ a.id \in DOMAIN db.reservations /\ a.id \in DOMAIN db'.reservations
      BY <1>14, <2>7 DEF IsTransition, HeaderLocked, Visible
    <3>2. View(o)'.reservations[a.id] = View(o).reservations[a.id]
      BY <2>1, <2>2, <3>1 DEF IsOverlay, IsPatched
    <3>3. a.id \in DOMAIN View(o)'.reservations
      BY <2>2, <3>1 DEF IsOverlay, IsPatched
    <3> QED
      BY <2>1, <2>7, <3>2, <3>3 DEF IsTransition, CanAccessReservation
  <2>8. AnswerFits(o) /\ TransitionFits(o)
    BY <1>1 DEF HandlerInv
  <2>9. pc[o] = "commit" /\ Lifecycle(o) => HeaderLocked(o)
    BY <2>8 DEF TransitionFits
  <2> QED
    BY <2>1, <2>3, <2>4, <2>5, <2>6, <2>7, <2>8, <2>9 DEF AnswerFits, Lifecycle
<1> QED
  BY <1>3, <1>5, <1>12, <1>13, <1>15, <1>16 DEF HandlerInv

\* A step of somebody else leaves the batch of a worker as it was.
LEMMA BatchStays ==
    ASSUME NEW o \in Workers, Bystander(o)
    PROVE  BatchFits(o)'
<1>1. /\ \A r \in DOMAIN db.reservations : db.reservations[r].expires \in Nat
      /\ now \in Nat /\ now' \in Nat /\ now <= now'
  BY RowTypes, TxAssumption DEF Bystander, Types, Unaffected
<1>2. ASSUME NEW r \in DOMAIN db.reservations, db.reservations[r].expires < now
      PROVE  r \in DOMAIN db'.reservations /\ db'.reservations[r].expires < now'
  BY <1>1, <1>2 DEF Bystander, Unaffected
<1>3. BatchFits(o)
  BY DEF Bystander, ProcInv
<1>4. pc'[o] = pc[o] /\ loc'[o] = loc[o] /\ pend'[o] = pend[o] /\ locks'[o] = locks[o]
  BY DEF Bystander, Quiet
<1> QED
  BY <1>2, <1>3, <1>4 DEF Bystander, Unaffected, BatchFits

\* What a transaction relies on survives the steps of the others.
LEMMA BystanderInv ==
    ASSUME NEW o, Bystander(o)
    PROVE  ProcInv(o)'
BY WritesStay, HandlerStays, BatchStays DEF ProcInv, Bystander

\* Time passing affects nobody.
LEMMA NothingCommitted ==
    ASSUME Types, Committed, db' = db, now <= now', NEW o \in Procs
    PROVE  Unaffected(o) /\ Committed'
<1>1. Committed'
  BY DEF Committed, ChildrenOf
<1> QED
  BY <1>1 DEF Unaffected

--------------------------------------------------------------------------------
(* A commit *)

\* The writes of a transaction that commits keep header and children together,
\* and change no row that another transaction has locked.
LEMMA CommitWhole ==
    ASSUME Inv, NEW p \in Procs, pc[p] = "commit", db' = View(p)
    PROVE  WellTyped(db') /\ DOMAIN db'.ticket_types = TicketTypes /\ Committed'
<1>1. WellTyped(db') /\ IsOverlay(db', pend[p], db) /\ WellTyped(pend[p]) /\ WellTyped(db)
  BY ViewRows DEF Inv, Types
<1>2. DOMAIN db'.ticket_types = TicketTypes
  BY <1>1 DEF Inv, Types, IsOverlay, IsPatched, WellTyped
<1>3. Writes(p) /\ Committed
  BY DEF Inv, ProcInv
<1>4. IsPatched(db'.reservations, pend[p].reservations, db.reservations)
  BY <1>1 DEF IsOverlay
<1>5. IsPatched(db'.reservation_items, pend[p].reservation_items, db.reservation_items)
  BY <1>1 DEF IsOverlay
<1>6. IsPatched(db'.reservation_seats, pend[p].reservation_seats, db.reservation_seats)
  BY <1>1 DEF IsOverlay
<1>7. /\ DOMAIN db'.reservation_items \subseteq DOMAIN db'.reservations
      /\ \A i \in DOMAIN db'.reservation_seats : i[1] \in DOMAIN db'.reservations
  BY <1>3, <1>4, <1>5, <1>6 DEF IsPatched, Committed, Writes, ItemRows, SeatRows
<1>8. ASSUME NEW r \in DOMAIN db'.reservations
      PROVE  ChildrenOf(db', r) /\ db'.reservations[r].user = UserOf[db'.reservations[r].session]
  <2>1. CASE r \in Created(p)
    <3>1. /\ r \in DOMAIN pend[p].reservations /\ r \notin DOMAIN db.reservations
          /\ db'.reservations[r] = pend[p].reservations[r]
      BY <2>1, <1>4 DEF Created, IsPatched
    <3>2. /\ r \notin DOMAIN db.reservation_items
          /\ \A i \in DOMAIN db.reservation_seats : i[1] # r
      BY <1>3, <3>1 DEF Committed
    <3>3. /\ r \in DOMAIN db'.reservation_items <=> r \in DOMAIN pend[p].reservation_items
          /\ r \in DOMAIN pend[p].reservation_items =>
                db'.reservation_items[r] = pend[p].reservation_items[r]
      BY <3>2, <1>5 DEF IsPatched
    <3>4. \A i \in DOMAIN db'.reservation_seats : i[1] = r =>
             /\ i \in DOMAIN pend[p].reservation_seats
             /\ db'.reservation_seats[i] = pend[p].reservation_seats[i]
      BY <3>2, <1>6 DEF IsPatched
    <3>5. DOMAIN pend[p].reservation_seats \subseteq DOMAIN db'.reservation_seats
      BY <1>6 DEF IsPatched
    <3>6. \/ r \in DOMAIN pend[p].reservation_items
          \/ \E i \in DOMAIN pend[p].reservation_seats : i[1] = r
      BY <1>3, <2>1 DEF Writes, CreatedWhole
    <3>7. /\ db'.reservations[r].type \in {"quantity", "seats"}
          /\ db'.reservations[r].user = UserOf[db'.reservations[r].session]
      BY <1>1, <1>3, <2>1, <3>1, RowTypes DEF Writes, CreatedRows
    <3> QED
      BY <1>3, <3>1, <3>3, <3>4, <3>5, <3>6, <3>7 DEF ChildrenOf, Writes, ItemRows, SeatRows
  <2>2. CASE r \in Moved(p)
    <3>1. /\ r \in DOMAIN pend[p].reservations /\ r \in DOMAIN db.reservations
          /\ db'.reservations[r] = pend[p].reservations[r]
          /\ MovedRow(p, r) /\ ChildrenOf(db, r)
          /\ db.reservations[r].user = UserOf[db.reservations[r].session]
      BY <2>2, <1>3, <1>4 DEF Moved, IsPatched, Writes, MovedRows, Committed
    <3>2. /\ db.reservations[r] \in Header
          /\ db.reservations[r].type \in {"quantity", "seats"}
      BY <1>1, <3>1, RowTypes DEF WellTyped
    <3>3. /\ db'.reservations[r].type = db.reservations[r].type
          /\ db'.reservations[r].session = db.reservations[r].session
          /\ db'.reservations[r].user = db.reservations[r].user
          /\ db'.reservations[r].expires = db.reservations[r].expires
      BY <3>1, <3>2 DEF MovedRow, Header
    <3>4. CASE db.reservations[r].type = "quantity"
      <4>1. /\ r \in DOMAIN pend[p].reservation_items
            /\ db'.reservation_items[r] = pend[p].reservation_items[r]
            /\ r \in DOMAIN db'.reservation_items
        BY <3>1, <3>4, <1>5 DEF ChildrenOf, MovedRow, IsPatched
      <4>2. \A i \in DOMAIN db'.reservation_seats : i[1] # r
        BY <3>1, <3>3, <3>4, <1>3, <1>6 DEF ChildrenOf, IsPatched, Writes, SeatRows
      <4> QED
        BY <4>1, <4>2, <3>1, <3>3, <3>4, <1>3 DEF ChildrenOf, Writes, ItemRows
    <3>5. CASE db.reservations[r].type = "seats"
      <4>1. r \notin DOMAIN db'.reservation_items
        BY <3>1, <3>3, <3>5, <1>3, <1>5 DEF ChildrenOf, IsPatched, Writes, ItemRows
      <4>2. \E i \in DOMAIN db'.reservation_seats : i[1] = r
        BY <3>1, <3>5, <1>6 DEF ChildrenOf, IsPatched
      <4>3. \A i \in DOMAIN db'.reservation_seats : i[1] = r =>
               /\ i \in DOMAIN pend[p].reservation_seats
               /\ db'.reservation_seats[i] = pend[p].reservation_seats[i]
        BY <3>1, <1>6 DEF MovedRow, IsPatched
      <4> QED
        BY <4>1, <4>2, <4>3, <3>1, <3>3, <3>5, <1>3 DEF ChildrenOf, Writes, SeatRows
    <3> QED
      BY <3>2, <3>4, <3>5
  <2>3. CASE r \notin DOMAIN pend[p].reservations
    <3>1. r \in DOMAIN db.reservations /\ db'.reservations[r] = db.reservations[r]
      BY <2>3, <1>4 DEF IsPatched
    <3>2. /\ r \notin DOMAIN pend[p].reservation_items
          /\ \A i \in DOMAIN pend[p].reservation_seats : i[1] # r
      BY <2>3, <1>3 DEF Writes, ItemRows, SeatRows
    <3>3. /\ r \in DOMAIN db'.reservation_items <=> r \in DOMAIN db.reservation_items
          /\ r \in DOMAIN db.reservation_items =>
                db'.reservation_items[r] = db.reservation_items[r]
      BY <3>2, <1>5 DEF IsPatched
    <3>4. \A i : i[1] = r =>
             /\ i \in DOMAIN db'.reservation_seats <=> i \in DOMAIN db.reservation_seats
             /\ i \in DOMAIN db.reservation_seats =>
                   db'.reservation_seats[i] = db.reservation_seats[i]
      BY <3>2, <1>6 DEF IsPatched
    <3>5. ChildrenOf(db, r) /\ db.reservations[r].user = UserOf[db.reservations[r].session]
      BY <1>3, <3>1 DEF Committed
    <3> QED
      BY <3>1, <3>3, <3>4, <3>5 DEF ChildrenOf
  <2> QED
    BY <2>1, <2>2, <2>3 DEF Created, Moved
<1> QED
  BY <1>1, <1>2, <1>7, <1>8 DEF Committed

\* A commit changes nothing that another open transaction relies on.
LEMMA CommitApart ==
    ASSUME Inv, NEW p \in Procs, pc[p] = "commit", db' = View(p), now' = now,
           NEW o \in Procs, o # p
    PROVE  Unaffected(o)
<1>1. IsOverlay(db', pend[p], db) /\ WellTyped(pend[p]) /\ WellTyped(db)
  BY ViewRows DEF Inv, Types
<1>2. Writes(p) /\ Committed /\ Apart(p, o) /\ now \in Nat
  BY DEF Inv, ProcInv, Types
<1>3. IsPatched(db'.reservations, pend[p].reservations, db.reservations)
  BY <1>1 DEF IsOverlay
<1>4. IsPatched(db'.reservation_items, pend[p].reservation_items, db.reservation_items)
  BY <1>1 DEF IsOverlay
<1>5. IsPatched(db'.reservation_seats, pend[p].reservation_seats, db.reservation_seats)
  BY <1>1 DEF IsOverlay
<1>6. IsPatched(db'.ticket_types, pend[p].ticket_types, db.ticket_types)
  BY <1>1 DEF IsOverlay
<1> DEFINE old(r) == db.reservations[r]
           new(r) == db'.reservations[r]
<1>7. ASSUME NEW r \in DOMAIN db.reservations
      PROVE  /\ new(r).session = old(r).session /\ new(r).key = old(r).key
             /\ new(r).event = old(r).event /\ new(r).user = old(r).user
             /\ new(r).type = old(r).type /\ new(r).expires = old(r).expires
             /\ \/ new(r).status = old(r).status
                \/ old(r).status = "reserved" /\ new(r).status \in Final
             /\ ReservationRow(r) \in locks[o] => new(r) = old(r)
  <2>1. CASE r \in DOMAIN pend[p].reservations
    <3>1. MovedRow(p, r) /\ new(r) = pend[p].reservations[r]
      BY <2>1, <1>2, <1>3 DEF Writes, MovedRows, Moved, IsPatched
    <3>2. old(r) \in Header
      BY <1>1 DEF WellTyped
    <3>3. ReservationRow(r) \notin locks[o]
      BY <3>1, <1>2 DEF MovedRow, Apart
    <3> QED
      BY <3>1, <3>2, <3>3 DEF MovedRow, Header
  <2>2. CASE r \notin DOMAIN pend[p].reservations
    BY <2>2, <1>3 DEF IsPatched
  <2> QED
    BY <2>1, <2>2
<1>8. ASSUME NEW r \in DOMAIN db.reservations
      PROVE  /\ r \in DOMAIN db'.reservation_items <=> r \in DOMAIN db.reservation_items
             /\ r \in DOMAIN db.reservation_items =>
                   /\ db'.reservation_items[r].ticket = db.reservation_items[r].ticket
                   /\ db'.reservation_items[r].quantity = db.reservation_items[r].quantity
  BY <1>2, <1>4 DEF IsPatched, Writes, ItemRows
<1>9. ASSUME NEW r \in DOMAIN db'.reservations \ DOMAIN db.reservations
      PROVE  /\ r \notin DOMAIN pend[o].reservations
             /\ \A x \in Created(o) :
                   <<db'.reservations[r].session, db'.reservations[r].key>>
                      # <<pend[o].reservations[x].session, pend[o].reservations[x].key>>
  <2>1. r \in Created(p) /\ db'.reservations[r] = pend[p].reservations[r]
    BY <1>3 DEF IsPatched, Created
  <2>2. Created(o) \subseteq DOMAIN pend[o].reservations
    BY DEF Created
  <2> QED
    BY <2>1, <2>2, <1>2 DEF Apart
<1>10. ASSUME NEW i \in DOMAIN db'.reservation_seats \ DOMAIN db.reservation_seats
       PROVE  i[1] \notin DOMAIN db.reservations /\ SeatRow(i[2]) \notin locks[o]
  <2>1. i \in DOMAIN pend[p].reservation_seats
    BY <1>5 DEF IsPatched
  <2>2. i[1] \notin DOMAIN db.reservations /\ SeatRow(i[2]) \in locks[p]
    BY <2>1, <1>2 DEF Writes, SeatRows
  <2> QED
    BY <2>2, <1>2 DEF Apart
<1>11. ASSUME NEW t \in TicketTypes, TicketRow(t) \in locks[o]
       PROVE  db'.ticket_types[t] = db.ticket_types[t]
  <2>1. t \notin DOMAIN pend[p].ticket_types
    BY <1>2, <1>11 DEF Writes, TicketRows, Apart
  <2>2. t \in DOMAIN db.ticket_types
    BY DEF Inv, Types
  <2> QED
    BY <2>1, <2>2, <1>6 DEF IsPatched
<1>12. /\ DOMAIN db.reservations \subseteq DOMAIN db'.reservations
       /\ DOMAIN db.reservation_seats \subseteq DOMAIN db'.reservation_seats
  BY <1>3, <1>5 DEF IsPatched
<1> QED
  BY <1>2, <1>7, <1>8, <1>9, <1>10, <1>11, <1>12 DEF Unaffected

--------------------------------------------------------------------------------
(* The steps of one transaction *)

\* Only p's entry of f changes, to v.
Becomes(f, g, p, v) ==
    /\ DOMAIN g = DOMAIN f
    /\ g[p] = v
    /\ \A o \in DOMAIN f : o # p => g[o] = f[o]

\* p writes, locks and goes on; nothing is committed.
OwnStep(p, w, rows, label, l) ==
    /\ Becomes(pend, pend', p, w)
    /\ Becomes(locks, locks', p, rows)
    /\ Becomes(pc, pc', p, label)
    /\ loc' = [loc EXCEPT ![p] = l]
    /\ DOMAIN req' = DOMAIN req /\ \A o \in DOMAIN req : o # p => req'[o] = req[o]
    /\ UNCHANGED <<db, now, resp>>

\* A statement that goes on is a step of its process alone.
LEMMA IsOwnStep ==
    ASSUME Types, NEW p \in Procs, NEW w, NEW rows, NEW label, NEW l,
           Continue(p, label, l),
           pend' = [pend EXCEPT ![p] = w] \/ (pend' = pend /\ w = pend[p]),
           locks' = [locks EXCEPT ![p] = rows] \/ (locks' = locks /\ rows = locks[p])
    PROVE  OwnStep(p, w, rows, label, l)
<1>1. DOMAIN pend = Procs /\ DOMAIN locks = Procs /\ DOMAIN pc = Procs
  BY DEF Types
<1>2. Becomes(pend, pend', p, w)
  BY <1>1 DEF Becomes
<1>3. Becomes(locks, locks', p, rows)
  BY <1>1 DEF Becomes
<1>4. Becomes(pc, pc', p, label)
  BY <1>1 DEF Becomes, Continue, Goto
<1> QED
  BY <1>2, <1>3, <1>4 DEF OwnStep, Continue

LabelFits(p, label) ==
    /\ p \in Handlers => label \in HandlerLabels
    /\ p \in Workers => label \in WorkerLabels

\* A header that p may write: one it has written, one of a committed
\* reservation, or a new one whose key no other transaction has written.
MayWrite(p, r, header) ==
    \/ /\ r \in DOMAIN pend[p].reservations
       /\ header.session = pend[p].reservations[r].session
       /\ header.key = pend[p].reservations[r].key
    \/ /\ r \in DOMAIN db.reservations
       /\ header.session = db.reservations[r].session
       /\ header.key = db.reservations[r].key
    \/ /\ r \in FreshIds
       /\ \A o \in Procs \ {p} : IsFree(pend[o], header.session, header.key)

\* A step of p keeps the invariant if it keeps what concerns p.
LEMMA OwnStepInv ==
    ASSUME Inv, NEW p \in Procs, NEW w, NEW rows, NEW label, NEW l,
           OwnStep(p, w, rows, label, l),
           WellTyped(w), LabelFits(p, label), l \in Locals,
           \A row \in rows \ locks[p] : Holders(p, row) = {},
           \A r \in DOMAIN w.reservations : MayWrite(p, r, w.reservations[r]),
           ProcInv(p)'
    PROVE  Inv'
<1>1. /\ DOMAIN pend = Procs /\ DOMAIN locks = Procs /\ DOMAIN pc = Procs /\ DOMAIN loc = Procs
      /\ DOMAIN req = Handlers
  BY DEF Inv, Types
<1>2. Types'
  <2>1. loc' \in [Procs -> Locals]
    BY DEF Inv, Types, OwnStep
  <2>2. \A q \in Procs : WellTyped(pend'[q])
    BY <1>1 DEF Inv, Types, OwnStep, Becomes
  <2>3. /\ \A h \in Handlers : pc'[h] \in HandlerLabels
        /\ \A q \in Workers : pc'[q] \in WorkerLabels
    BY <1>1 DEF Inv, Types, OwnStep, Becomes, LabelFits, Procs
  <2> QED
    BY <1>1, <2>1, <2>2, <2>3 DEF Inv, Types, OwnStep, Becomes
<1>3. now <= now'
  BY TxAssumption DEF Inv, Types, OwnStep
<1>4. Committed'
  BY <1>3, NothingCommitted DEF OwnStep, Inv
<1>5. ASSUME NEW o \in Procs, o # p PROVE ProcInv(o)'
  <2>1. Quiet(o)
    BY <1>1, <1>5 DEF Quiet, OwnStep, Becomes
  <2>2. Unaffected(o)
    BY <1>3, NothingCommitted DEF OwnStep, Inv
  <2> QED
    BY <1>2, <1>4, <2>1, <2>2, BystanderInv DEF Bystander, Inv
<1>6. ASSUME NEW o \in Procs, o # p PROVE Apart(p, o)' /\ Apart(o, p)'
  <2>1. Apart(p, o) /\ Apart(o, p) /\ CreatedRows(o)
    BY <1>6 DEF Inv, ProcInv, Writes
  <2>2. /\ pend'[p] = w /\ pend'[o] = pend[o] /\ locks'[p] = rows /\ locks'[o] = locks[o]
        /\ db' = db
    BY <1>1, <1>6 DEF OwnStep, Becomes
  <2>3. rows \cap locks[o] = {}
    BY <1>6, <2>1 DEF Apart, Holders
  <2>4. ASSUME NEW r \in DOMAIN w.reservations, r \notin DOMAIN db.reservations,
               NEW x \in DOMAIN pend[o].reservations
        PROVE  /\ r # x
               /\ <<w.reservations[r].session, w.reservations[r].key>>
                     # <<pend[o].reservations[x].session, pend[o].reservations[x].key>>
    <3>1. CASE r \in DOMAIN pend[p].reservations
      <4>1. r \in Created(p)
        BY <3>1, <2>4 DEF Created
      <4>2. r \notin FreshIds
        BY <3>1 DEF FreshIds
      <4> QED
        BY <4>1, <4>2, <2>1, <2>4 DEF Apart, MayWrite
    <3>2. CASE r \notin DOMAIN pend[p].reservations
      <4>1. r \in FreshIds /\ IsFree(pend[o], w.reservations[r].session, w.reservations[r].key)
        BY <1>6, <3>2, <2>4 DEF MayWrite
      <4>2. r \notin DOMAIN pend[o].reservations
        BY <4>1 DEF FreshIds
      <4> QED
        BY <4>1, <4>2 DEF IsFree
    <3> QED
      BY <3>1, <3>2
  <2>5. ASSUME NEW r \in DOMAIN w.reservations, NEW x \in Created(o)
        PROVE  /\ r # x
               /\ <<w.reservations[r].session, w.reservations[r].key>>
                     # <<pend[o].reservations[x].session, pend[o].reservations[x].key>>
    <3>1. x \in DOMAIN pend[o].reservations /\ x \notin DOMAIN db.reservations
      BY DEF Created
    <3>2. CASE r \notin DOMAIN db.reservations
      BY <3>1, <3>2, <2>4
    <3>3. CASE r \in DOMAIN db.reservations /\ r \in DOMAIN pend[p].reservations
      <4>1. r \notin FreshIds
        BY <3>3 DEF FreshIds
      <4>2. \/ /\ w.reservations[r].session = pend[p].reservations[r].session
               /\ w.reservations[r].key = pend[p].reservations[r].key
            \/ /\ w.reservations[r].session = db.reservations[r].session
               /\ w.reservations[r].key = db.reservations[r].key
        BY <4>1 DEF MayWrite
      <4>3. IsFree(db, pend[o].reservations[x].session, pend[o].reservations[x].key)
        BY <2>1 DEF CreatedRows
      <4> QED
        BY <3>1, <3>3, <4>2, <4>3, <2>1 DEF Apart, IsFree
    <3>4. CASE r \in DOMAIN db.reservations /\ r \notin DOMAIN pend[p].reservations
      <4>1. r \notin FreshIds
        BY <3>4 DEF FreshIds
      <4>2. /\ w.reservations[r].session = db.reservations[r].session
            /\ w.reservations[r].key = db.reservations[r].key
        BY <3>4, <4>1 DEF MayWrite
      <4>3. IsFree(db, pend[o].reservations[x].session, pend[o].reservations[x].key)
        BY <2>1 DEF CreatedRows
      <4> QED
        BY <3>1, <3>4, <4>2, <4>3 DEF IsFree
    <3> QED
      BY <3>2, <3>3, <3>4
  <2>6. Created(p)' = DOMAIN w.reservations \ DOMAIN db.reservations /\ Created(o)' = Created(o)
    BY <2>2 DEF Created
  <2> QED
    BY <2>2, <2>3, <2>4, <2>5, <2>6 DEF Apart
<1>7. ASSUME NEW q \in Procs, NEW o \in Procs, q # o, q # p, o # p PROVE Apart(q, o)'
  <2>1. Apart(q, o)
    BY <1>7 DEF Inv
  <2>2. /\ pend'[q] = pend[q] /\ pend'[o] = pend[o]
        /\ locks'[q] = locks[q] /\ locks'[o] = locks[o] /\ db' = db
    BY <1>1, <1>7 DEF OwnStep, Becomes
  <2> QED
    BY <2>1, <2>2 DEF Apart, Created
<1> QED
  BY <1>2, <1>4, <1>5, <1>6, <1>7 DEF Inv

\* What holds of a transaction that has written nothing.
LEMMA NothingHeld ==
    ASSUME NEW p, pend'[p] = NoWrites
    PROVE  Writes(p)' /\ Moved(p)' = {} /\ Created(p)' = {}
<1>1. /\ DOMAIN pend'[p].ticket_types = {} /\ DOMAIN pend'[p].reservations = {}
      /\ DOMAIN pend'[p].reservation_items = {} /\ DOMAIN pend'[p].reservation_seats = {}
  BY NothingWritten
<1>2. Moved(p)' = {} /\ Created(p)' = {}
  BY <1>1 DEF Moved, Created
<1> QED
  BY <1>1, <1>2
     DEF Writes, MovedRows, CreatedRows, ItemRows, SeatRows, TicketRows, CreatedWhole

\* p's transaction is over and its locals are gone; a handler may have answered.
EndStep(p, label, answer) ==
    /\ Becomes(pend, pend', p, NoWrites)
    /\ Becomes(locks, locks', p, {})
    /\ Becomes(pc, pc', p, label)
    /\ loc' = [loc EXCEPT ![p] = NoLocals]
    /\ resp' = IF p \in Handlers THEN [resp EXCEPT ![p] = answer] ELSE resp
    /\ DOMAIN req' = DOMAIN req /\ \A o \in DOMAIN req : o # p => req'[o] = req[o]

\* The end of a transaction keeps the invariant if the answer fits.
LEMMA EndStepInv ==
    ASSUME Inv, NEW p \in Procs, NEW label, NEW answer,
           EndStep(p, label, answer), label \in {"idle", "done", "down"}, LabelFits(p, label),
           p \in Handlers => answer \in AnswerType /\ RequestFits(p)' /\ AnswerFits(p)',
           WellTyped(db'), DOMAIN db'.ticket_types = TicketTypes, now' \in 0..MaxTime,
           Committed', \A o \in Procs : o # p => Unaffected(o)
    PROVE  Inv'
<1>1. /\ DOMAIN pend = Procs /\ DOMAIN locks = Procs /\ DOMAIN pc = Procs /\ DOMAIN loc = Procs
      /\ DOMAIN req = Handlers
  BY DEF Inv, Types
<1>2. NoLocals \in Locals /\ NoLocals.expires = 0 /\ NoLocals.todo = {}
  <2>1. NoAnswer \in AnswerType
    BY DEF NoAnswer, AnswerType, Codes, FailureCodes
  <2> QED
    BY <2>1 DEF NoLocals, Locals
<1>3. Types'
  <2>1. loc' \in [Procs -> Locals] /\ resp' \in [Handlers -> AnswerType]
    BY <1>2 DEF Inv, Types, EndStep
  <2>2. \A q \in Procs : WellTyped(pend'[q])
    BY <1>1, NothingWritten DEF Inv, Types, EndStep, Becomes
  <2>3. /\ \A h \in Handlers : pc'[h] \in HandlerLabels
        /\ \A q \in Workers : pc'[q] \in WorkerLabels
    BY <1>1 DEF Inv, Types, EndStep, Becomes, LabelFits, Procs
  <2> QED
    BY <1>1, <2>1, <2>2, <2>3 DEF Inv, Types, EndStep, Becomes
<1>4. ASSUME NEW o \in Procs, o # p PROVE Bystander(o)
  <2>1. Quiet(o)
    BY <1>1, <1>4 DEF Quiet, EndStep, Becomes, Inv, Types
  <2> QED
    BY <1>3, <1>4, <2>1 DEF Bystander, Inv
<1>5. ProcInv(p)'
  <2>1. /\ pend'[p] = NoWrites /\ locks'[p] = {} /\ pc'[p] = label /\ loc'[p] = NoLocals
    BY <1>1 DEF EndStep, Becomes
  <2>2. Writes(p)' /\ Moved(p)' = {} /\ Created(p)' = {} /\ DOMAIN pend'[p].reservations = {}
    BY <2>1, NothingHeld, NothingWritten
  <2>3. Closed(p)'
    BY <1>2, <2>1, TxAssumption DEF Closed, ReadLabels
  <2>4. p \in Handlers => HandlerInv(p)'
    BY <2>1 DEF HandlerInv, QuantityFits, SeatsFit, ReplayFits, TransitionFits
  <2>5. p \in Workers => BatchFits(p)'
    BY <2>1, <2>2 DEF BatchFits
  <2> QED
    BY <2>2, <2>3, <2>4, <2>5 DEF ProcInv
<1>6. ASSUME NEW o \in Procs, o # p PROVE Apart(p, o)' /\ Apart(o, p)'
  <2>1. pend'[p] = NoWrites /\ locks'[p] = {}
    BY DEF EndStep, Becomes
  <2>2. Created(p)' = {} /\ DOMAIN pend'[p].reservations = {}
    BY <2>1, NothingHeld, NothingWritten
  <2> QED
    BY <2>1, <2>2 DEF Apart
<1>7. ASSUME NEW q \in Procs, NEW o \in Procs, q # o, q # p, o # p PROVE Apart(q, o)'
  <2>1. Apart(q, o)
    BY <1>7 DEF Inv
  <2>2. Created(q)' = Created(q) /\ Quiet(q) /\ Quiet(o)
    BY <1>4, <1>7, SameRows DEF Bystander
  <2> QED
    BY <2>1, <2>2 DEF Apart, Quiet
<1> QED
  BY <1>3, <1>4, <1>5, <1>6, <1>7, BystanderInv DEF Inv

\* A rollback keeps the invariant.
LEMMA FailInv ==
    ASSUME Inv, NEW p \in Procs, NEW code \in FailureCodes,
           pc[p] # "idle", Fail(p, code)
    PROVE  Inv'
<1> DEFINE label == IF p \in Handlers THEN "done" ELSE "idle"
<1>1. /\ DOMAIN pend = Procs /\ DOMAIN locks = Procs /\ DOMAIN pc = Procs
      /\ DOMAIN req = Handlers /\ DOMAIN resp = Handlers
  BY DEF Inv, Types
<1>2. EndStep(p, label, Failure(code))
  BY <1>1 DEF EndStep, Becomes, Fail, EndTx, Finish, Goto
<1>3. Failure(code) \in AnswerType /\ IsFailure(Failure(code))
  <2>1. Failure(code) = [code |-> code, id |-> 0, status |-> "none", children |-> {}]
    BY DEF Failure, NoAnswer
  <2> QED
    BY <2>1 DEF AnswerType, IsFailure, Codes
<1>4. LabelFits(p, label) /\ label \in {"idle", "done", "down"}
  BY TxAssumption DEF LabelFits, HandlerLabels, WorkerLabels
<1>5. db' = db /\ now' = now /\ req' = req
  BY DEF Fail
<1>6. ASSUME p \in Handlers PROVE RequestFits(p)' /\ AnswerFits(p)'
  <2>1. pc'[p] = "done" /\ resp'[p] = Failure(code)
    BY <1>1, <1>6 DEF Fail, Finish, Goto
  <2>2. req'[p] \in Requests[p]
    BY <1>5, <1>6 DEF Inv, ProcInv, HandlerInv, RequestFits
  <2> QED
    BY <1>3, <2>1, <2>2 DEF RequestFits, AnswerFits
<1>7. now <= now'
  BY <1>5, TxAssumption DEF Inv, Types
<1>8. Committed' /\ \A o \in Procs : o # p => Unaffected(o)
  BY <1>5, <1>7, NothingCommitted DEF Inv
<1> HIDE DEF label
<1> QED
  BY <1>2, <1>3, <1>4, <1>5, <1>6, <1>8, EndStepInv DEF Inv, Types

\* A step after which p has written nothing keeps the invariant if the locals
\* fit the label.
LEMMA QuietStepInv ==
    ASSUME Inv, NEW p \in Procs, NEW rows, NEW label, NEW l,
           OwnStep(p, NoWrites, rows, label, l),
           LabelFits(p, label), l \in Locals, l.expires <= now + TTL,
           label \notin TxLabels => rows = {},
           \A row \in rows \ locks[p] : Holders(p, row) = {},
           p \in Handlers => HandlerInv(p)',
           p \in Workers => BatchFits(p)'
    PROVE  Inv'
<1>1. DOMAIN pend = Procs /\ DOMAIN locks = Procs /\ DOMAIN pc = Procs /\ DOMAIN loc = Procs
  BY DEF Inv, Types
<1>2. /\ pend'[p] = NoWrites /\ locks'[p] = rows /\ pc'[p] = label /\ loc'[p] = l /\ now' = now
  BY <1>1 DEF OwnStep, Becomes
<1>3. Writes(p)'
  BY <1>2, NothingHeld
<1>4. Closed(p)'
  BY <1>2 DEF Closed
<1>5. WellTyped(NoWrites) /\ DOMAIN NoWrites.reservations = {}
  BY NothingWritten
<1>6. ProcInv(p)'
  BY <1>3, <1>4 DEF ProcInv
<1> QED
  BY <1>5, <1>6, OwnStepInv

\* Header and children that agree show one status.
LEMMA OneStatus ==
    ASSUME NEW d, NEW r \in DOMAIN d.reservations, WellTyped(d), ChildrenOf(d, r)
    PROVE  ChildStatuses(d, r) = {d.reservations[r].status}
<1>1. d.reservations[r].type \in {"quantity", "seats"}
  BY RowTypes
<1>2. CASE d.reservations[r].type = "quantity"
  <2>1. DOMAIN d.reservation_items \cap {r} = {r}
    BY <1>2 DEF ChildrenOf
  <2> QED
    BY <1>2, <2>1 DEF ChildrenOf, ChildStatuses
<1>3. CASE d.reservations[r].type = "seats"
  BY <1>3 DEF ChildrenOf, ChildStatuses, SeatRowsOf
<1> QED
  BY <1>1, <1>2, <1>3

\* The fields of an answer, and of locals with that answer.
LEMMA AnswerFields ==
    ASSUME NEW l \in Locals, NEW code \in Codes, NEW r \in ReservationIds,
           NEW status \in Status, NEW children \in SUBSET Status
    PROVE  LET a == Answer(code, r, status, children)
               m == [l EXCEPT !.answer = a]
           IN  /\ a.code = code /\ a.id = r /\ a.status = status /\ a.children = children
               /\ a \in AnswerType
               /\ m \in Locals /\ m.answer = a /\ m.expires = l.expires /\ m.todo = l.todo
               /\ m.target = l.target /\ m.listed = l.listed
BY DEF Answer, AnswerType, Locals

\* What buildReservationResponse makes of a committed reservation.
LEMMA CommittedResponse ==
    ASSUME Inv, NEW code \in Codes, NEW r \in DOMAIN db.reservations,
           NEW a, a = BuildReservationResponse(code, db, r)
    PROVE  /\ a.code = code /\ a.id = r /\ a.status = db.reservations[r].status
           /\ a.children = {a.status} /\ a.status \in Status
           /\ a \in AnswerType
<1>1. WellTyped(db) /\ ChildrenOf(db, r)
  BY DEF Inv, Types, Committed
<1>2. /\ r \in ReservationIds /\ db.reservations[r].status \in Status
      /\ ChildStatuses(db, r) = {db.reservations[r].status}
  BY <1>1, RowTypes, OneStatus
<1> QED
  BY <1>2 DEF BuildReservationResponse, Answer, AnswerType

--------------------------------------------------------------------------------
(* The steps of a handler *)

\* The request is in the set h may get, and h's locals have their types.
LEMMA HandlerFacts ==
    ASSUME Inv, NEW h \in Handlers
    PROVE  /\ h \in Procs /\ h \notin Workers
           /\ loc[h] \in Locals /\ loc[h].expires \in Nat /\ now \in Nat
           /\ loc[h].expires <= now + TTL
           /\ DOMAIN pend = Procs /\ DOMAIN locks = Procs /\ DOMAIN pc = Procs
           /\ DOMAIN loc = Procs /\ DOMAIN req = Handlers /\ DOMAIN resp = Handlers
           /\ WellTyped(db) /\ WellTyped(pend[h]) /\ Writes(h) /\ Closed(h) /\ HandlerInv(h)
<1>1. h \in Procs /\ h \notin Workers
  BY TxAssumption DEF Procs
<1> QED
  BY <1>1, TxAssumption DEF Inv, Types, ProcInv, Closed, Locals

\* A valid request starts its call, an invalid one is answered.
LEMMA BeginRequestInv ==
    ASSUME Inv, NEW h \in Handlers, BeginRequest(h)
    PROVE  Inv'
<1> USE HandlerFacts
<1>1. PICK rq \in Requests[h] :
         /\ req' = [req EXCEPT ![h] = rq]
         /\ IF IsInvalid(rq)
            THEN Finish(h, Failure("INVALID"))
            ELSE /\ Goto(h, FirstStatement(rq.op))
                 /\ loc' = [loc EXCEPT ![h].expires = now + TTL]
                 /\ UNCHANGED resp
  BY DEF BeginRequest
<1>2. /\ pc[h] = "idle" /\ pend[h] = NoWrites /\ locks[h] = {}
      /\ UNCHANGED <<db, pend, locks, now>>
  BY DEF BeginRequest, Closed, TxLabels
<1>3. req'[h] = rq
  BY <1>1
<1>4. CASE IsInvalid(rq)
  <2>1. EndStep(h, "done", Failure("INVALID"))
    BY <1>1, <1>2, <1>4 DEF EndStep, Becomes, Finish, Goto
  <2>2. Failure("INVALID") \in AnswerType /\ IsFailure(Failure("INVALID"))
    <3>1. Failure("INVALID") = [code |-> "INVALID", id |-> 0, status |-> "none", children |-> {}]
      BY DEF Failure, NoAnswer
    <3> QED
      BY <3>1 DEF AnswerType, IsFailure, Codes, FailureCodes
  <2>3. pc'[h] = "done" /\ resp'[h] = Failure("INVALID")
    BY <2>1 DEF EndStep, Becomes
  <2>4. RequestFits(h)' /\ AnswerFits(h)'
    BY <1>3, <2>2, <2>3 DEF RequestFits, AnswerFits
  <2>5. LabelFits(h, "done")
    BY DEF LabelFits, HandlerLabels
  <2>6. Committed' /\ \A o \in Procs : o # h => Unaffected(o)
    BY <1>2, NothingCommitted DEF Inv
  <2> QED
    BY <1>2, <2>1, <2>2, <2>4, <2>5, <2>6, EndStepInv DEF Inv, Types
<1>5. CASE ~IsInvalid(rq)
  <2> DEFINE l == [loc[h] EXCEPT !.expires = now + TTL]
             label == FirstStatement(rq.op)
  <2>1. OwnStep(h, NoWrites, {}, label, l)
    BY <1>1, <1>2, <1>5 DEF OwnStep, Becomes, Goto
  <2>2. l \in Locals /\ l.expires <= now + TTL
    BY TxAssumption DEF Locals
  <2>3. pc'[h] = label
    BY <2>1 DEF OwnStep, Becomes
  <2>4. label \in {"q_lookup", "s_lookup", "g_header", "t_lock"}
    BY DEF FirstStatement
  <2>5. LabelFits(h, label)
    BY <2>4 DEF LabelFits, HandlerLabels
  <2>6. RequestFits(h)'
    BY <1>3, <1>5, <2>3 DEF RequestFits, FirstStatement
  <2>7. HandlerInv(h)'
    BY <2>3, <2>4, <2>6
       DEF HandlerInv, QuantityFits, SeatsFit, ReplayFits, TransitionFits, AnswerFits
  <2> HIDE DEF l, label
  <2> QED
    BY <2>1, <2>2, <2>5, <2>7, QuietStepInv
<1> QED
  BY <1>4, <1>5

\* What a statement that is not blocked knows of the others.
LEMMA Unblocked ==
    ASSUME NEW p, Blockers(p) = {}
    PROVE  /\ pc[p] = "q_update" /\ HasStock(db, req[p].ticket, req[p].event, req[p].quantity)
                 => Holders(p, TicketRow(req[p].ticket)) = {}
           /\ pc[p] \in {"q_header", "s_header"} => KeyBlockers(p) = {}
           /\ pc[p] = "s_lock" => Holders(p, SeatRow(NextId(p))) = {}
           /\ pc[p] = "s_expire" => Holders(p, ReservationRow(NextId(p))) = {}
           /\ pc[p] = "s_insert" => SeatKeyBlockers(p, NextId(p)) = {}
           /\ pc[p] = "t_lock" => Holders(p, ReservationRow(req[p].id)) = {}
           /\ pc[p] \in {"t_apply", "w_apply"} => StockBlockers(p, Current(p)) = {}
BY DEF Blockers

\* A lookup that finds the reservation of a retry goes on to commit.
LEMMA FoundInv ==
    ASSUME Inv, NEW h \in Handlers, pc[h] \in {"q_lookup", "s_lookup"},
           NEW r \in DOMAIN db.reservations,
           db.reservations[r].session = req[h].session, db.reservations[r].key = req[h].key,
           db.reservations[r].type = req[h].op,
           Read(h, "commit", [loc[h] EXCEPT !.answer = BuildReservationResponse("OK", db, r)])
    PROVE  Inv'
<1> USE HandlerFacts
<1> DEFINE a == BuildReservationResponse("OK", db, r)
           l == [loc[h] EXCEPT !.answer = a]
<1>1. pend[h] = NoWrites /\ ~IsInvalid(req[h]) /\ req[h] \in Requests[h]
  BY DEF Closed, ReadLabels, HandlerInv, RequestFits
<1>2. req[h].op \in {"quantity", "seats"}
  BY DEF HandlerInv, RequestFits
<1>3. OwnStep(h, NoWrites, locks[h], "commit", l) /\ req' = req
  BY <1>1, IsOwnStep DEF Read, Continue, Inv
<1>4. a = BuildReservationResponse("OK", db, r) /\ "OK" \in Codes
  BY DEF Codes
<1> HIDE DEF a
<1>41. /\ a.code = "OK" /\ a.id = r /\ a.children = {a.status} /\ a.status \in Status
      /\ a \in AnswerType
  BY <1>4, CommittedResponse
<1>5. l \in Locals /\ l.answer = a /\ l.expires = loc[h].expires
  BY <1>41 DEF Locals
<1>6. IsOwn(h, db, a)
  BY <1>41 DEF IsOwn
<1>7. pc'[h] = "commit" /\ loc'[h] = l /\ pend'[h] = NoWrites /\ db' = db
  BY <1>3 DEF OwnStep, Becomes
<1> HIDE DEF l
<1>8. View(h)' = db
  BY <1>7, OverlayNothing DEF View
<1>9. HandlerInv(h)'
  BY <1>1, <1>2, <1>3, <1>5, <1>6, <1>7, <1>8
     DEF HandlerInv, RequestFits, QuantityFits, SeatsFit, ReplayFits, TransitionFits, AnswerFits,
         IsOwn, Lifecycle
<1> QED
  BY <1>3, <1>5, <1>9, QuietStepInv DEF LabelFits, HandlerLabels, TxLabels

\* The lookup of a quantity request finds the retried reservation or goes on.
LEMMA QuantityLookupInv ==
    ASSUME Inv, NEW h \in Handlers, QuantityLookup(h)
    PROVE  Inv'
<1> USE HandlerFacts
<1> DEFINE found == GetQuantityReservationByIdempotencyKey(db, req[h].session, req[h].key)
<1>1. pc[h] = "q_lookup" /\ pend[h] = NoWrites /\ req[h].op = "quantity" /\ ~IsInvalid(req[h])
  BY DEF QuantityLookup, At, Closed, ReadLabels, HandlerInv, RequestFits
<1>2. req[h] \in Requests[h]
  BY <1>1 DEF HandlerInv, RequestFits
<1>3. CASE found = {}
  <2>1. Read(h, "q_update", loc[h])
    BY <1>3 DEF QuantityLookup
  <2>2. OwnStep(h, NoWrites, locks[h], "q_update", loc[h]) /\ req' = req
    BY <1>1, <2>1, IsOwnStep DEF Read, Continue, Inv
  <2>3. pc'[h] = "q_update"
    BY <2>2 DEF OwnStep, Becomes
  <2>4. HandlerInv(h)'
    BY <1>1, <1>2, <2>2, <2>3
       DEF HandlerInv, RequestFits, QuantityFits, SeatsFit, ReplayFits, TransitionFits, AnswerFits
  <2> QED
    BY <2>2, <2>4, QuietStepInv DEF LabelFits, HandlerLabels, TxLabels
<1>4. CASE found # {}
  <2>1. PICK r \in found :
           Read(h, "commit", [loc[h] EXCEPT !.answer = BuildReservationResponse("OK", db, r)])
    BY <1>4 DEF QuantityLookup
  <2>2. /\ r \in DOMAIN db.reservations
        /\ db.reservations[r].session = req[h].session /\ db.reservations[r].key = req[h].key
        /\ db.reservations[r].type = req[h].op
    BY <1>1 DEF GetQuantityReservationByIdempotencyKey
  <2> QED
    BY <1>1, <2>1, <2>2, FoundInv
<1> QED
  BY <1>3, <1>4

\* The stock UPDATE takes the units under the lock of the ticket row, or fails.
LEMMA QuantityUpdateInv ==
    ASSUME Inv, NEW h \in Handlers, QuantityUpdate(h)
    PROVE  Inv'
<1> USE HandlerFacts
<1> DEFINE t == req[h].ticket
           q == req[h].quantity
<1>1. /\ pc[h] = "q_update" /\ pend[h] = NoWrites /\ req[h].op = "quantity"
      /\ ~IsInvalid(req[h]) /\ req[h] \in Requests[h]
  BY DEF QuantityUpdate, At, Closed, ReadLabels, HandlerInv, RequestFits
<1>2. CASE ~HasStock(db, t, req[h].event, q)
  <2>1. Fail(h, "INSUFFICIENT_STOCK")
    BY <1>2 DEF QuantityUpdate
  <2> QED
    BY <1>1, <2>1, FailInv DEF FailureCodes
<1>3. CASE HasStock(db, t, req[h].event, q)
  <2> DEFINE w == ReserveTicketQuantity(db, t, q)
             new == Overlay(w, NoWrites)
             rows == locks[h] \cup {TicketRow(t)}
  <2>1. Holders(h, TicketRow(t)) = {}
    BY <1>1, <1>3, Unblocked DEF QuantityUpdate, At
  <2>2. View(h) = db
    BY <1>1, ViewRows DEF Inv
  <2>3. t \in DOMAIN db.ticket_types /\ t \in TicketTypes /\ q \in 1..MaxQuantity
    <3>1. t \in TicketTypes
      BY <1>3 DEF HasStock
    <3>2. q \in Int /\ q <= MaxQuantity /\ ~(q <= 0)
      BY <1>1, RequestAssumption DEF IsInvalid
    <3>3. t \in DOMAIN db.ticket_types
      BY <3>1 DEF Inv, Types
    <3> QED
      BY <3>1, <3>2, <3>3, TxAssumption
  <2>6. /\ WellTyped(w) /\ DOMAIN w.ticket_types = {t}
        /\ w.ticket_types[t] = [db.ticket_types[t] EXCEPT !.reserved = @ + q]
        /\ DOMAIN w.reservations = {} /\ DOMAIN w.reservation_items = {}
        /\ DOMAIN w.reservation_seats = {}
    <3>1. q \in Nat
      BY <2>3, TxAssumption
    <3> HIDE DEF t, q
    <3> QED
      BY <2>3, <3>1, ReserveTicketQuantityRows DEF Inv, Types
  <2> HIDE DEF w
  <2>7. WellTyped(new) /\ IsOverlay(new, w, NoWrites)
    BY <2>6, NothingWritten, OverlayTyped, OverlayRows
  <2>8. /\ DOMAIN new.ticket_types = {t} /\ new.ticket_types[t] = [db.ticket_types[t] EXCEPT !.reserved = @ + q]
        /\ DOMAIN new.reservations = {} /\ DOMAIN new.reservation_items = {}
        /\ DOMAIN new.reservation_seats = {}
    BY <2>6, <2>7, NothingWritten DEF IsOverlay, IsPatched
  <2>9. OwnStep(h, new, rows, "q_header", loc[h]) /\ req' = req
    <3>1. /\ Lock(h, {TicketRow(t)}) /\ Continue(h, "q_header", loc[h])
          /\ Write(h, ReserveTicketQuantity(View(h), t, q))
      BY <1>3 DEF QuantityUpdate
    <3>2. pend' = [pend EXCEPT ![h] = new] /\ locks' = [locks EXCEPT ![h] = rows]
      BY <1>1, <2>2, <3>1 DEF Write, Lock, w
    <3> QED
      BY <3>1, <3>2, IsOwnStep DEF Inv, Continue
  <2>10. /\ pc'[h] = "q_header" /\ loc'[h] = loc[h] /\ pend'[h] = new /\ locks'[h] = rows
         /\ db' = db /\ now' = now
    BY <2>9 DEF OwnStep, Becomes
  <2> HIDE DEF new, rows
  <2>11. Writes(h)'
    <3>1. TicketRow(t) \in locks'[h]
      BY <2>10 DEF rows
    <3> QED
      BY <2>8, <2>10, <3>1
         DEF Writes, MovedRows, Moved, CreatedRows, Created, ItemRows, SeatRows, TicketRows,
             CreatedWhole
  <2>12. Closed(h)'
    BY <2>10 DEF Closed, TxLabels, ReadLabels
  <2>13. StockTaken(h)'
    BY <1>3, <2>3, <2>8, <2>9, <2>10 DEF StockTaken
  <2>14. HandlerInv(h)'
    BY <1>1, <2>8, <2>9, <2>10, <2>13
       DEF HandlerInv, RequestFits, QuantityFits, SeatsFit, ReplayFits, TransitionFits, AnswerFits
  <2>15. ProcInv(h)'
    BY <2>11, <2>12, <2>14 DEF ProcInv
  <2>16. \A x \in rows \ locks[h] : Holders(h, x) = {}
    BY <2>1 DEF rows
  <2> QED
    BY <2>7, <2>8, <2>9, <2>15, <2>16, OwnStepInv DEF LabelFits, HandlerLabels
<1> QED
  BY <1>2, <1>3

\* The columns of a reservation that h's request creates have their types.
LEMMA RequestColumns ==
    ASSUME NEW h \in Handlers, req[h] \in Requests[h], req[h].op \in {"quantity", "seats"}
    PROVE  /\ UserOf[req[h].session] \in {UserOf[rq.session] : rq \in Creating}
           /\ req[h].session \in {rq.session : rq \in Creating}
           /\ req[h].key \in {rq.key : rq \in Creating}
           /\ req[h].event \in {rq.event : rq \in Creating}
<1>1. req[h] \in Creating
  BY DEF Creating
<1> QED
  BY <1>1

\* A unique violation rolls back and goes on to replay the request.
LEMMA ReplayLabelInv ==
    ASSUME Inv, NEW h \in Handlers,
           \/ pc[h] = "q_header" /\ Continue(h, "q_replay", loc[h])
           \/ pc[h] = "s_header" /\ Continue(h, "s_replay", loc[h]),
           EndTx(h), ~IsFree(db, req[h].session, req[h].key)
    PROVE  Inv'
<1> USE HandlerFacts
<1>1. PICK label \in {"q_replay", "s_replay"} :
         /\ Continue(h, label, loc[h])
         /\ label = "q_replay" => pc[h] = "q_header"
         /\ label = "s_replay" => pc[h] = "s_header"
  OBVIOUS
<1>2. OwnStep(h, NoWrites, {}, label, loc[h]) /\ req' = req
  BY <1>1, IsOwnStep DEF EndTx, Continue, Inv
<1>3. pc'[h] = label /\ db' = db
  BY <1>2 DEF OwnStep, Becomes
<1>4. HandlerInv(h)'
  BY <1>1, <1>2, <1>3
     DEF HandlerInv, RequestFits, QuantityFits, SeatsFit, ReplayFits, TransitionFits, AnswerFits
<1> QED
  BY <1>2, <1>4, QuietStepInv DEF LabelFits, HandlerLabels, TxLabels

\* Header and item go in under a fresh id and a free key, or the call replays.
LEMMA QuantityHeaderInv ==
    ASSUME Inv, NEW h \in Handlers, QuantityHeader(h)
    PROVE  Inv'
<1> USE HandlerFacts
<1> DEFINE ss == req[h].session
           k == req[h].key
           t == req[h].ticket
           q == req[h].quantity
           e == req[h].event
           x == loc[h].expires
<1>1. /\ pc[h] = "q_header" /\ req[h].op = "quantity" /\ ~IsInvalid(req[h])
      /\ req[h] \in Requests[h] /\ StockTaken(h) /\ DOMAIN pend[h].reservations = {}
  BY DEF QuantityHeader, At, HandlerInv, RequestFits, QuantityFits
<1>2. DOMAIN pend[h].reservation_items = {} /\ DOMAIN pend[h].reservation_seats = {}
  BY <1>1 DEF Writes, ItemRows, SeatRows
<1>3. DOMAIN View(h).reservations = DOMAIN db.reservations
      /\ \A r \in DOMAIN db.reservations : View(h).reservations[r] = db.reservations[r]
  BY <1>1, ViewRows DEF Inv, IsOverlay, IsPatched
<1>4. IsFree(View(h), ss, k) <=> IsFree(db, ss, k)
  BY <1>3 DEF IsFree
<1>5. CASE ~IsFree(db, ss, k)
  <2>1. EndTx(h) /\ Continue(h, "q_replay", loc[h])
    BY <1>4, <1>5 DEF QuantityHeader
  <2> QED
    BY <1>1, <1>5, <2>1, ReplayLabelInv
<1>6. CASE IsFree(db, ss, k)
  <2>1. PICK r \in FreshIds :
           LET rows == Overlay(CreateReservation(r, ss, k, e, "quantity", x),
                               CreateReservationItem(r, t, q))
           IN  /\ Write(h, rows)
               /\ Continue(h, "commit",
                    [loc[h] EXCEPT !.answer = BuildReservationResponse("OK", rows, r)])
               /\ UNCHANGED locks
    BY <1>4, <1>6 DEF QuantityHeader
  <2> DEFINE header == CreateReservation(r, ss, k, e, "quantity", x)
             item == CreateReservationItem(r, t, q)
             rows == Overlay(header, item)
             a == BuildReservationResponse("OK", rows, r)
             l == [loc[h] EXCEPT !.answer = a]
             new == Overlay(rows, pend[h])
  <2>2. r \in ReservationIds /\ r \notin DOMAIN db.reservations
    BY DEF FreshIds
  <2>3. t \in TicketTypes /\ q \in 1..MaxQuantity
    <3>1. q \in Int /\ q <= MaxQuantity /\ ~(q <= 0)
      BY <1>1, RequestAssumption DEF IsInvalid
    <3> QED
      BY <1>1, <3>1, TxAssumption DEF StockTaken
  <2>4. /\ WellTyped(header) /\ DOMAIN header.reservations = {r}
        /\ header.reservations[r] =
              [session |-> ss, key |-> k, event |-> e, user |-> UserOf[ss],
               type |-> "quantity", status |-> "reserved", expires |-> x]
        /\ DOMAIN header.ticket_types = {} /\ DOMAIN header.reservation_items = {}
        /\ DOMAIN header.reservation_seats = {}
    <3>1. /\ UserOf[ss] \in {UserOf[rq.session] : rq \in Creating}
          /\ ss \in {rq.session : rq \in Creating}
          /\ k \in {rq.key : rq \in Creating}
          /\ e \in {rq.event : rq \in Creating}
      BY <1>1, RequestColumns
    <3>2. x \in Nat /\ "quantity" \in {"quantity", "seats"}
      OBVIOUS
    <3> HIDE DEF ss, k, e, x
    <3> QED
      BY <2>2, <3>1, <3>2, CreateReservationRows
  <2>5. /\ WellTyped(item) /\ DOMAIN item.reservation_items = {r}
        /\ item.reservation_items[r] = [ticket |-> t, quantity |-> q, status |-> "reserved"]
        /\ DOMAIN item.ticket_types = {} /\ DOMAIN item.reservations = {}
        /\ DOMAIN item.reservation_seats = {}
    <3> HIDE DEF t, q
    <3> QED
      BY <2>2, <2>3, CreateReservationItemRows
  <2> HIDE DEF header, item
  <2>6. /\ WellTyped(rows) /\ IsOverlay(rows, header, item)
    BY <2>4, <2>5, OverlayRows, OverlayTyped
  <2> HIDE DEF rows
  <2>7. /\ DOMAIN rows.reservations = {r} /\ rows.reservations[r] = header.reservations[r]
        /\ DOMAIN rows.reservation_items = {r}
        /\ rows.reservation_items[r] = item.reservation_items[r]
        /\ DOMAIN rows.ticket_types = {} /\ DOMAIN rows.reservation_seats = {}
    BY <2>4, <2>5, <2>6 DEF IsOverlay, IsPatched
  <2>8. a.code = "OK" /\ a.id = r /\ a.status = "reserved" /\ a.children = {"reserved"}
    <3>1. ChildrenOf(rows, r) /\ rows.reservations[r].status = "reserved"
      BY <2>4, <2>5, <2>7 DEF ChildrenOf
    <3>2. ChildStatuses(rows, r) = {"reserved"}
      BY <2>6, <2>7, <3>1, OneStatus
    <3> QED
      BY <3>1, <3>2 DEF BuildReservationResponse, Answer
  <2>9. a \in AnswerType
    BY <2>2, <2>8 DEF BuildReservationResponse, Answer, AnswerType, Codes, Status
  <2> HIDE DEF a
  <2>10. l \in Locals /\ l.answer = a /\ l.expires = x
    BY <2>9 DEF Locals
  <2>11. WellTyped(new) /\ IsOverlay(new, rows, pend[h])
    BY <2>6, OverlayRows, OverlayTyped
  <2>12. OwnStep(h, new, locks[h], "commit", l) /\ req' = req
    <3>1. Write(h, rows) /\ Continue(h, "commit", l) /\ UNCHANGED locks
      BY <2>1 DEF rows, header, item, a
    <3>2. pend' = [pend EXCEPT ![h] = new]
      BY <3>1 DEF Write
    <3> QED
      BY <3>1, <3>2, IsOwnStep DEF Inv, Continue
  <2> HIDE DEF new, l
  <2>13. /\ DOMAIN new.reservations = {r} /\ new.reservations[r] = header.reservations[r]
         /\ DOMAIN new.reservation_items = {r}
         /\ new.reservation_items[r] = item.reservation_items[r]
         /\ DOMAIN new.ticket_types = DOMAIN pend[h].ticket_types
         /\ \A y \in DOMAIN new.ticket_types : new.ticket_types[y] = pend[h].ticket_types[y]
         /\ DOMAIN new.reservation_seats = {}
    BY <1>1, <1>2, <2>7, <2>11 DEF IsOverlay, IsPatched
  <2>14. /\ pc'[h] = "commit" /\ loc'[h] = l /\ pend'[h] = new /\ locks'[h] = locks[h]
         /\ db' = db /\ now' = now
    BY <2>12 DEF OwnStep, Becomes
  <2>15. Moved(h)' = {} /\ Created(h)' = {r}
    BY <2>2, <2>13, <2>14 DEF Moved, Created
  <2>16. Writes(h)'
    <3>1. MovedRows(h)' /\ CreatedRows(h)'
      BY <1>6, <2>4, <2>13, <2>14, <2>15 DEF MovedRows, CreatedRows
    <3>2. ItemRows(h)' /\ SeatRows(h)'
      BY <2>2, <2>4, <2>5, <2>13, <2>14 DEF ItemRows, SeatRows
    <3>3. TicketRows(h)' /\ CreatedWhole(h)'
      BY <2>13, <2>14, <2>15 DEF TicketRows, CreatedWhole, Writes
    <3> QED
      BY <3>1, <3>2, <3>3 DEF Writes
  <2>17. Closed(h)'
    BY <2>10, <2>14 DEF Closed, TxLabels, ReadLabels
  <2>18. StockTaken(h)'
    BY <1>1, <2>12, <2>13, <2>14 DEF StockTaken
  <2>19. IsHeaderOf(h, pend[h].reservations[r], "quantity")'
    BY <2>4, <2>10, <2>12, <2>13, <2>14 DEF IsHeaderOf
  <2>20. QuantityFits(h)'
    BY <2>2, <2>5, <2>8, <2>10, <2>12, <2>13, <2>14, <2>18, <2>19 DEF QuantityFits
  <2>21. IsOwn(h, View(h), loc[h].answer)'
    <3>1. IsOverlay(View(h)', new, db)
      BY <2>14, OverlayRows DEF View
    <3>2. r \in DOMAIN View(h)'.reservations /\ View(h)'.reservations[r] = header.reservations[r]
      BY <2>13, <3>1 DEF IsOverlay, IsPatched
    <3> QED
      BY <1>1, <2>4, <2>8, <2>10, <2>12, <2>14, <3>2 DEF IsOwn, Status
  <2>22. HandlerInv(h)'
    BY <1>1, <2>12, <2>14, <2>20, <2>21
       DEF HandlerInv, RequestFits, SeatsFit, ReplayFits, TransitionFits, AnswerFits, Lifecycle
  <2>23. ProcInv(h)'
    BY <2>16, <2>17, <2>22 DEF ProcInv
  <2>24. MayWrite(h, r, new.reservations[r])
    <3>1. KeyBlockers(h) = {}
      BY <1>1, Unblocked DEF QuantityHeader, At
    <3> QED
      BY <2>4, <2>13, <3>1 DEF KeyBlockers, MayWrite
  <2> QED
    BY <2>10, <2>11, <2>12, <2>13, <2>23, <2>24, OwnStepInv DEF LabelFits, HandlerLabels
<1> QED
  BY <1>5, <1>6

\* A handler that is not in a transaction answers.
LEMMA AnswerInv ==
    ASSUME Inv, NEW h \in Handlers, pc[h] \notin TxLabels, pc[h] # "idle", NEW a \in AnswerType,
           Finish(h, a), UNCHANGED <<db, pend, locks, now, req>>,
           \/ IsFailure(a)
           \/ req[h].op \in {"quantity", "seats"} /\ IsOwn(h, db, a)
           \/ /\ req[h].op = "get" /\ IsShown(h, db, a)
              /\ a.status # "reserved" => a.children = {a.status}
    PROVE  Inv'
<1> USE HandlerFacts
<1>1. pend[h] = NoWrites /\ locks[h] = {} /\ req[h] \in Requests[h]
  BY DEF Closed, HandlerInv, RequestFits
<1>2. EndStep(h, "done", a)
  BY <1>1 DEF EndStep, Becomes, Finish, Goto
<1>3. pc'[h] = "done" /\ resp'[h] = a /\ req'[h] = req[h]
  BY <1>2 DEF EndStep, Becomes
<1>4. AnswerFits(h)'
  BY <1>3 DEF AnswerFits, IsOwn, IsShown
<1>5. RequestFits(h)'
  BY <1>1, <1>3 DEF RequestFits
<1>6. Committed' /\ \A o \in Procs : o # h => Unaffected(o)
  BY NothingCommitted DEF Inv
<1>7. LabelFits(h, "done")
  BY DEF LabelFits, HandlerLabels
<1> QED
  BY <1>2, <1>4, <1>5, <1>6, <1>7, EndStepInv DEF Inv, Types

\* replayQuantity and replaySeats answer with what was committed, or refuse.
LEMMA ReplayInv ==
    ASSUME Inv, NEW h \in Handlers, pc[h] \in {"q_replay", "s_replay"}, NEW found, Replay(h, found),
           found \subseteq Previous(h, req[h].op)
    PROVE  Inv'
<1> USE HandlerFacts
<1>1. req[h].op \in {"quantity", "seats"} /\ pc[h] \notin TxLabels
  BY DEF HandlerInv, RequestFits, TxLabels
<1>2. UNCHANGED <<db, pend, locks, now, req>>
  BY DEF Replay
<1>3. CASE found = {}
  <2> DEFINE a == Failure("IDEMPOTENCY_KEY_CONFLICT")
  <2>1. Finish(h, a)
    BY <1>3 DEF Replay
  <2>2. a = [code |-> "IDEMPOTENCY_KEY_CONFLICT", id |-> 0, status |-> "none", children |-> {}]
    BY DEF Failure, NoAnswer
  <2>3. a \in AnswerType /\ IsFailure(a)
    BY <2>2 DEF AnswerType, IsFailure, Codes, FailureCodes
  <2> HIDE DEF a
  <2> QED
    BY <1>1, <1>2, <2>1, <2>3, AnswerInv
<1>4. CASE found # {}
  <2>1. PICK r \in found : Finish(h, BuildReservationResponse("OK", db, r))
    BY <1>4 DEF Replay
  <2> DEFINE a == BuildReservationResponse("OK", db, r)
  <2>2. /\ r \in DOMAIN db.reservations
        /\ db.reservations[r].session = req[h].session /\ db.reservations[r].key = req[h].key
        /\ db.reservations[r].type = req[h].op
    BY DEF Previous
  <2>3. a = BuildReservationResponse("OK", db, r) /\ "OK" \in Codes
    BY DEF Codes
  <2> HIDE DEF a
  <2>4. /\ a.code = "OK" /\ a.id = r /\ a.children = {a.status} /\ a.status \in Status
        /\ a \in AnswerType
    BY <2>2, <2>3, CommittedResponse
  <2>5. IsOwn(h, db, a)
    BY <2>2, <2>4 DEF IsOwn
  <2> QED
    BY <1>1, <1>2, <2>1, <2>3, <2>4, <2>5, AnswerInv
<1> QED
  BY <1>3, <1>4

\* The replay of a quantity request answers from the committed tables.
LEMMA QuantityReplayInv ==
    ASSUME Inv, NEW h \in Handlers, QuantityReplay(h)
    PROVE  Inv'
<1> DEFINE found == GetQuantityReservationByIdempotencyKey(db, req[h].session, req[h].key)
<1>1. pc[h] = "q_replay" /\ req[h].op = "quantity" /\ Replay(h, found)
  BY HandlerFacts DEF QuantityReplay, At, HandlerInv, RequestFits
<1>2. found \subseteq Previous(h, req[h].op)
  BY <1>1 DEF GetQuantityReservationByIdempotencyKey, Previous
<1> QED
  BY <1>1, <1>2, ReplayInv

\* The replay of a seat request answers from the committed tables.
LEMMA SeatReplayInv ==
    ASSUME Inv, NEW h \in Handlers, SeatReplay(h)
    PROVE  Inv'
<1> DEFINE found == GetSeatReservationByIdempotencyKey(db, req[h].session, req[h].key)
<1>1. pc[h] = "s_replay" /\ req[h].op = "seats" /\ Replay(h, found)
  BY HandlerFacts DEF SeatReplay, At, HandlerInv, RequestFits
<1>2. found \subseteq Previous(h, req[h].op)
  BY <1>1 DEF GetSeatReservationByIdempotencyKey, Previous
<1> QED
  BY <1>1, <1>2, ReplayInv

\* The smallest element of a set of naturals.
LEMMA MinLeast ==
    ASSUME NEW S, S \subseteq Nat, S # {}
    PROVE  Min(S) \in S /\ \A x \in S : Min(S) <= x
<1> DEFINE R == {ss \in Nat \X Nat : ss[1] < ss[2]}
<1>1. IsWellFoundedOn(R, Nat)
  BY NatLessThanWellFounded DEF OpToRel
<1>2. PICK x \in S : \A y \in S : <<y, x>> \notin R
  <2> HIDE DEF R
  <2> QED
    BY <1>1, WFMin
<1>3. ASSUME NEW y \in S PROVE x <= y
  <2>1. <<y, x>> \in Nat \X Nat /\ <<y, x>> \notin R
    BY <1>2
  <2>2. ~(y < x)
    BY <2>1
  <2> QED
    BY <2>2
<1> QED
  BY <1>3 DEF Min

\* The lookup of a seat request finds the retried reservation or goes on.
LEMMA SeatLookupInv ==
    ASSUME Inv, NEW h \in Handlers, SeatLookup(h)
    PROVE  Inv'
<1> USE HandlerFacts
<1> DEFINE found == GetSeatReservationByIdempotencyKey(db, req[h].session, req[h].key)
           rows == EventSeats(req[h].event, Range(req[h].seats))
           l == [loc[h] EXCEPT !.todo = rows]
<1>1. /\ pc[h] = "s_lookup" /\ pend[h] = NoWrites /\ req[h].op = "seats" /\ ~IsInvalid(req[h])
      /\ req[h] \in Requests[h]
  BY DEF SeatLookup, At, Closed, ReadLabels, HandlerInv, RequestFits
<1>2. CASE \E r \in found :
         Read(h, "commit", [loc[h] EXCEPT !.answer = BuildReservationResponse("OK", db, r)])
  <2>1. PICK r \in found :
           Read(h, "commit", [loc[h] EXCEPT !.answer = BuildReservationResponse("OK", db, r)])
    BY <1>2
  <2>2. /\ r \in DOMAIN db.reservations
        /\ db.reservations[r].session = req[h].session /\ db.reservations[r].key = req[h].key
        /\ db.reservations[r].type = req[h].op
    BY <1>1 DEF GetSeatReservationByIdempotencyKey
  <2> QED
    BY <1>1, <2>1, <2>2, FoundInv
<1>3. CASE rows # {} /\ Read(h, "s_lock", l)
  <2>1. OwnStep(h, NoWrites, locks[h], "s_lock", l) /\ req' = req
    BY <1>1, <1>3, IsOwnStep DEF Read, Continue, Inv
  <2>2. rows \subseteq Nat
    BY TxAssumption DEF EventSeats
  <2>3. l \in Locals /\ l.todo = rows /\ l.expires = loc[h].expires
    BY <2>2 DEF Locals
  <2>4. pc'[h] = "s_lock" /\ loc'[h] = l /\ locks'[h] = locks[h] /\ db' = db
    BY <2>1 DEF OwnStep, Becomes
  <2>5. SeatsFit(h)'
    BY <1>1, <1>3, <2>1, <2>3, <2>4 DEF SeatsFit, Wanted
  <2> HIDE DEF l, rows
  <2>6. HandlerInv(h)'
    BY <1>1, <2>1, <2>4, <2>5
       DEF HandlerInv, RequestFits, QuantityFits, ReplayFits, TransitionFits, AnswerFits
  <2> QED
    BY <2>1, <2>3, <2>6, QuietStepInv DEF LabelFits, HandlerLabels, TxLabels
<1>4. CASE Fail(h, "SEATS_NOT_FOUND")
  BY <1>1, <1>4, FailInv DEF FailureCodes
<1> QED
  BY <1>2, <1>3, <1>4 DEF SeatLookup

\* The seat or the reservation whose lock comes next is one of those left.
LEMMA NextIdIn ==
    ASSUME Inv, NEW h \in Handlers, loc[h].todo # {}
    PROVE  NextId(h) \in loc[h].todo /\ loc[h].todo \subseteq Nat
<1> DEFINE todo == loc[h].todo
<1>1. todo \subseteq Nat /\ todo # {}
  BY HandlerFacts DEF Locals
<1> HIDE DEF todo
<1>2. Min(todo) \in todo
  BY <1>1, MinLeast
<1> QED
  BY <1>1, <1>2 DEF todo, NextId

\* LockEventSeats takes one more seat row, or finds too few.
LEMMA SeatLockInv ==
    ASSUME Inv, NEW h \in Handlers, SeatLock(h)
    PROVE  Inv'
<1> USE HandlerFacts
<1> DEFINE s == NextId(h)
           rest == loc[h].todo \ {s}
           found == EventSeats(req[h].event, Wanted(h))
           l == [loc[h] EXCEPT !.todo = rest]
           rows == locks[h] \cup {SeatRow(s)}
           label == IF rest = {} THEN "s_list" ELSE "s_lock"
<1>1. /\ pc[h] = "s_lock" /\ pend[h] = NoWrites /\ req[h].op = "seats" /\ ~IsInvalid(req[h])
      /\ req[h] \in Requests[h] /\ loc[h].todo # {} /\ loc[h].todo \subseteq found
      /\ \A x \in found \ loc[h].todo : SeatRow(x) \in locks[h]
  BY DEF SeatLock, At, Closed, ReadLabels, HandlerInv, RequestFits, SeatsFit
<1>2. s \in loc[h].todo /\ loc[h].todo \subseteq Nat
  BY <1>1, NextIdIn
<1>3. CASE Fail(h, "SEATS_NOT_FOUND")
  BY <1>1, <1>3, FailInv DEF FailureCodes
<1>4. CASE /\ rest # {} \/ found = Wanted(h)
           /\ Lock(h, {SeatRow(s)}) /\ Continue(h, label, l) /\ UNCHANGED pend
  <2>1. OwnStep(h, NoWrites, rows, label, l) /\ req' = req
    BY <1>1, <1>4, IsOwnStep DEF Lock, Continue, Inv
  <2>2. l \in Locals /\ l.todo = rest /\ l.expires = loc[h].expires
    BY <1>2 DEF Locals
  <2>3. pc'[h] = label /\ loc'[h] = l /\ locks'[h] = rows /\ db' = db
    BY <2>1 DEF OwnStep, Becomes
  <2>4. \A x \in rows \ locks[h] : Holders(h, x) = {}
    BY <1>1, Unblocked DEF SeatLock, At
  <2>5. label \in {"s_list", "s_lock"}
    OBVIOUS
  <2> HIDE DEF l
  <2>6. SeatsFit(h)'
    <3>1. CASE rest # {}
      BY <1>1, <2>1, <2>2, <2>3, <3>1 DEF SeatsFit, Wanted
    <3>2. CASE rest = {} /\ found = Wanted(h)
      <4>1. Wanted(h) # {} /\ Wanted(h) \subseteq Seats
        BY <1>1, <3>2 DEF EventSeats
      <4>2. \A x \in Wanted(h) : SeatRow(x) \in rows
        BY <1>1, <3>2
      <4>3. SeatsLocked(h)'
        BY <2>1, <2>3, <4>1, <4>2 DEF SeatsLocked, Wanted
      <4> QED
        BY <2>3, <3>2, <4>3 DEF SeatsFit
    <3> QED
      BY <1>4, <3>1, <3>2
  <2> HIDE DEF label, rows
  <2>7. HandlerInv(h)'
    BY <1>1, <2>1, <2>3, <2>5, <2>6
       DEF HandlerInv, RequestFits, QuantityFits, ReplayFits, TransitionFits, AnswerFits
  <2> QED
    BY <2>1, <2>2, <2>4, <2>5, <2>7, QuietStepInv DEF LabelFits, HandlerLabels, TxLabels
<1> QED
  BY <1>3, <1>4 DEF SeatLock, Wanted

\* The overdue holds are listed under the locks of the seats.
LEMMA SeatListInv ==
    ASSUME Inv, NEW h \in Handlers, SeatList(h)
    PROVE  Inv'
<1> USE HandlerFacts
<1> DEFINE stale == ListExpiredActiveReservationIDsForSeats(db, Wanted(h))
           l == [loc[h] EXCEPT !.todo = stale, !.listed = stale]
           label == IF stale = {} THEN "s_header" ELSE "s_expire"
<1>1. /\ pc[h] = "s_list" /\ pend[h] = NoWrites /\ req[h].op = "seats" /\ ~IsInvalid(req[h])
      /\ req[h] \in Requests[h] /\ SeatsLocked(h)
  BY DEF SeatList, At, Closed, ReadLabels, HandlerInv, RequestFits, SeatsFit
<1>2. View(h) = db
  BY <1>1, ViewRows DEF Inv
<1>3. OwnStep(h, NoWrites, locks[h], label, l) /\ req' = req
  BY <1>1, <1>2, IsOwnStep DEF SeatList, Read, Continue, Inv, Wanted
<1>4. \A i \in DOMAIN db.reservation_seats :
         /\ i[1] \in DOMAIN db.reservations /\ i[1] \in ReservationIds
         /\ db.reservations[i[1]].type = "seats"
         /\ db.reservation_seats[i].status = db.reservations[i[1]].status
         /\ db.reservation_seats[i].expires = db.reservations[i[1]].expires
         /\ db.reservation_seats[i].expires \in Nat
  BY RowTypes DEF Inv, Committed, ChildrenOf
<1>5. \A r \in stale : r \in ReservationIds /\ IsStale(h, r)
  BY <1>4 DEF ListExpiredActiveReservationIDsForSeats, IsStale
<1>6. OthersRun(h, stale)
  <2> SUFFICES ASSUME NEW i \in DOMAIN db.reservation_seats,
                      i[2] \in Wanted(h), i[1] \notin stale,
                      db.reservation_seats[i].status = "reserved"
               PROVE  /\ db.reservation_seats[i].expires > loc[h].expires - TTL
                      /\ \A r \in stale :
                            db.reservations[r].expires < db.reservation_seats[i].expires
    BY DEF OthersRun
  <2>1. ~(db.reservation_seats[i].expires <= now)
    BY DEF ListExpiredActiveReservationIDsForSeats
  <2>2. db.reservation_seats[i].expires \in Nat
    BY <1>4
  <2>3. \A r \in stale : db.reservations[r].expires \in Nat /\ db.reservations[r].expires <= now
    BY <1>5, RowTypes DEF IsStale
  <2> QED
    BY <2>1, <2>2, <2>3, TxAssumption
<1>7. stale \subseteq ReservationIds /\ stale \subseteq Nat
  BY <1>5, TxAssumption
<1> HIDE DEF stale
<1>8. l \in Locals /\ l.todo = stale /\ l.listed = stale /\ l.expires = loc[h].expires
  BY <1>7 DEF Locals
<1>9. /\ pc'[h] = label /\ loc'[h] = l /\ locks'[h] = locks[h] /\ pend'[h] = NoWrites
      /\ db' = db /\ now' = now
  BY <1>3 DEF OwnStep, Becomes
<1> HIDE DEF l
<1>10. SeatsLocked(h)' /\ OthersRun(h, stale)'
  <2> SUFFICES OthersRun(h, stale)'
    BY <1>1, <1>3, <1>9 DEF SeatsLocked, Wanted
  <2>1. stale' = stale
    BY <1>3, <1>9 DEF stale, ListExpiredActiveReservationIDsForSeats, Wanted
  <2> QED
    BY <1>3, <1>6, <1>8, <1>9, <2>1 DEF OthersRun, Wanted
<1>11. SeatsFit(h)'
  <2>1. stale' = stale
    BY <1>3, <1>9 DEF stale, ListExpiredActiveReservationIDsForSeats, Wanted
  <2>2. CASE stale = {}
    <3>1. /\ Moved(h)' = {} /\ Created(h)' = {} /\ DOMAIN pend'[h].ticket_types = {}
      BY <1>9, NothingHeld, NothingWritten
    <3> QED
      BY <1>9, <1>10, <2>1, <2>2, <3>1 DEF SeatsFit, HoldsExpired
  <2>3. CASE stale # {}
    BY <1>3, <1>5, <1>8, <1>9, <1>10, <2>1, <2>3 DEF SeatsFit, IsStale, Wanted
  <2> QED
    BY <2>2, <2>3
<1>12. label \in {"s_header", "s_expire"}
  OBVIOUS
<1> HIDE DEF label
<1>13. HandlerInv(h)'
  BY <1>1, <1>3, <1>9, <1>11, <1>12
     DEF HandlerInv, RequestFits, QuantityFits, ReplayFits, TransitionFits, AnswerFits
<1> QED
  BY <1>3, <1>8, <1>12, <1>13, QuietStepInv DEF LabelFits, HandlerLabels, TxLabels

\* The listed reservations are locked, and expired under the last lock.
LEMMA SeatExpireInv ==
    ASSUME Inv, NEW h \in Handlers, SeatExpire(h)
    PROVE  Inv'
<1> USE HandlerFacts
<1> DEFINE r0 == NextId(h)
           rest == loc[h].todo \ {r0}
           listed == loc[h].listed
           rows == locks[h] \cup {ReservationRow(r0)}
<1>1. /\ pc[h] = "s_expire" /\ pend[h] = NoWrites /\ req[h].op = "seats" /\ ~IsInvalid(req[h])
      /\ req[h] \in Requests[h] /\ SeatsLocked(h)
      /\ loc[h].todo # {} /\ loc[h].todo \subseteq listed
      /\ \A r \in listed : IsStale(h, r)
      /\ \A r \in listed \ loc[h].todo : ReservationRow(r) \in locks[h]
      /\ OthersRun(h, listed)
  BY DEF SeatExpire, At, Closed, ReadLabels, HandlerInv, RequestFits, SeatsFit
<1>2. r0 \in loc[h].todo /\ loc[h].todo \subseteq Nat
  BY <1>1, NextIdIn
<1>3. View(h) = db
  BY <1>1, ViewRows DEF Inv
<1>4. \A x \in rows \ locks[h] : Holders(h, x) = {}
  BY <1>1, Unblocked DEF SeatExpire, At
<1>5. \A r \in listed \ rest : ReservationRow(r) \in rows
  BY <1>1
<1>6. CASE rest # {}
  <2> DEFINE l == [loc[h] EXCEPT !.todo = rest]
  <2>1. OwnStep(h, NoWrites, rows, "s_expire", l) /\ req' = req
    BY <1>1, <1>6, IsOwnStep DEF SeatExpire, Lock, Continue, Inv
  <2>2. l \in Locals /\ l.todo = rest /\ l.listed = listed /\ l.expires = loc[h].expires
    BY <1>2 DEF Locals
  <2>3. /\ pc'[h] = "s_expire" /\ loc'[h] = l /\ locks'[h] = rows /\ db' = db /\ now' = now
    BY <2>1 DEF OwnStep, Becomes
  <2> HIDE DEF l, rows, rest
  <2>4. SeatsLocked(h)'
    BY <1>1, <2>1, <2>3 DEF SeatsLocked, Wanted, rows
  <2>5. /\ OthersRun(h, loc[h].listed)'
        /\ \A r \in listed : IsStale(h, r)'
    BY <1>1, <2>1, <2>2, <2>3 DEF OthersRun, IsStale, Wanted
  <2>6. SeatsFit(h)'
    BY <1>1, <1>5, <1>6, <2>2, <2>3, <2>4, <2>5 DEF SeatsFit, rest
  <2>7. HandlerInv(h)'
    BY <1>1, <2>1, <2>3, <2>6
       DEF HandlerInv, RequestFits, QuantityFits, ReplayFits, TransitionFits, AnswerFits
  <2> QED
    BY <1>4, <2>1, <2>2, <2>7, QuietStepInv DEF LabelFits, HandlerLabels, TxLabels
<1>7. CASE rest = {}
  <2> DEFINE l == [loc[h] EXCEPT !.todo = {}, !.listed = {}]
             heads == ExpireReservationsByIDs(db, listed)
             holds == ExpireReservationSeatsByReservationIDs(db, listed)
             w == Overlay(heads, holds)
             new == Overlay(w, NoWrites)
  <2>1. OwnStep(h, new, rows, "s_header", l) /\ req' = req
    <3>1. Write(h, w) /\ Lock(h, {ReservationRow(r0)}) /\ Continue(h, "s_header", l)
      BY <1>3, <1>7 DEF SeatExpire
    <3>2. pend' = [pend EXCEPT ![h] = new] /\ locks' = [locks EXCEPT ![h] = rows]
      BY <1>1, <3>1 DEF Write, Lock
    <3> QED
      BY <3>1, <3>2, IsOwnStep DEF Continue, Inv
  <2>2. l \in Locals /\ l.expires = loc[h].expires
    BY DEF Locals
  <2>3. /\ pc'[h] = "s_header" /\ loc'[h] = l /\ locks'[h] = rows /\ pend'[h] = new
        /\ db' = db /\ now' = now
    BY <2>1 DEF OwnStep, Becomes
  <2> HIDE DEF l, rows
  <2> DEFINE R == {r \in listed : db.reservations[r].status = "reserved"}
  <2>4. /\ WellTyped(heads)
        /\ \A r : r \in DOMAIN heads.reservations <=>
              /\ r \in DOMAIN db.reservations /\ r \in listed
              /\ db.reservations[r].status = "reserved"
        /\ \A r \in DOMAIN heads.reservations :
              heads.reservations[r] = [db.reservations[r] EXCEPT !.status = "expired"]
        /\ DOMAIN heads.ticket_types = {} /\ DOMAIN heads.reservation_items = {}
        /\ DOMAIN heads.reservation_seats = {}
    <3> HIDE DEF listed
    <3> QED
      BY ExpireReservationsByIDsRows
  <2>5. /\ WellTyped(holds)
        /\ \A i : i \in DOMAIN holds.reservation_seats <=>
              /\ i \in DOMAIN db.reservation_seats /\ i[1] \in listed
              /\ db.reservation_seats[i].status = "reserved"
        /\ \A i \in DOMAIN holds.reservation_seats :
              holds.reservation_seats[i] = [db.reservation_seats[i] EXCEPT !.status = "expired"]
        /\ DOMAIN holds.ticket_types = {} /\ DOMAIN holds.reservations = {}
        /\ DOMAIN holds.reservation_items = {}
    <3> HIDE DEF listed
    <3> QED
      BY ExpireSeatsRows
  <2> HIDE DEF heads, holds
  <2>6. WellTyped(w) /\ IsOverlay(w, heads, holds)
    BY <2>4, <2>5, OverlayRows, OverlayTyped
  <2> HIDE DEF w
  <2>7. WellTyped(new) /\ IsOverlay(new, w, NoWrites)
    BY <2>6, NothingWritten, OverlayRows, OverlayTyped
  <2> HIDE DEF new
  <2>8. \A i \in DOMAIN db.reservation_seats :
           /\ i[1] \in DOMAIN db.reservations
           /\ db.reservations[i[1]].type = "seats"
           /\ db.reservation_seats[i].status = db.reservations[i[1]].status
           /\ db.reservation_seats[i].expires = db.reservations[i[1]].expires
           /\ db.reservation_seats[i] \in Hold
    BY RowTypes DEF Inv, Committed, ChildrenOf, WellTyped
  <2>9. /\ DOMAIN new.reservations = R
        /\ \A r \in R : /\ r \in DOMAIN db.reservations
                        /\ new.reservations[r] = [db.reservations[r] EXCEPT !.status = "expired"]
        /\ DOMAIN new.ticket_types = {} /\ DOMAIN new.reservation_items = {}
    <3>1. DOMAIN new.reservations = DOMAIN heads.reservations
      BY <2>5, <2>6, <2>7, NothingWritten DEF IsOverlay, IsPatched
    <3>2. \A r \in DOMAIN heads.reservations : new.reservations[r] = heads.reservations[r]
      BY <2>6, <2>7 DEF IsOverlay, IsPatched
    <3>3. DOMAIN new.ticket_types = {} /\ DOMAIN new.reservation_items = {}
      BY <2>4, <2>5, <2>6, <2>7, NothingWritten DEF IsOverlay, IsPatched
    <3>4. \A r \in listed : r \in DOMAIN db.reservations
      BY <1>1 DEF IsStale
    <3> QED
      BY <2>4, <3>1, <3>2, <3>3, <3>4
  <2>10. /\ \A i : i \in DOMAIN new.reservation_seats <=>
               i \in DOMAIN db.reservation_seats /\ i[1] \in R
         /\ \A i \in DOMAIN new.reservation_seats :
               new.reservation_seats[i] = [db.reservation_seats[i] EXCEPT !.status = "expired"]
    <3>1. DOMAIN new.reservation_seats = DOMAIN holds.reservation_seats
      BY <2>4, <2>6, <2>7, NothingWritten DEF IsOverlay, IsPatched
    <3>2. \A i \in DOMAIN holds.reservation_seats :
             new.reservation_seats[i] = holds.reservation_seats[i]
      BY <2>4, <2>6, <2>7 DEF IsOverlay, IsPatched
    <3> QED
      BY <2>5, <2>8, <3>1, <3>2
  <2>11. \A r \in R :
            /\ db.reservations[r] \in Header
            /\ new.reservations[r].status = "expired" /\ new.reservations[r].type = "seats"
            /\ new.reservations[r].session = db.reservations[r].session
            /\ new.reservations[r].key = db.reservations[r].key
            /\ new.reservations[r].expires = db.reservations[r].expires
    <3> SUFFICES ASSUME NEW r \in R
                 PROVE  /\ db.reservations[r] \in Header
                        /\ new.reservations[r].status = "expired"
                        /\ new.reservations[r].type = "seats"
                        /\ new.reservations[r].session = db.reservations[r].session
                        /\ new.reservations[r].key = db.reservations[r].key
                        /\ new.reservations[r].expires = db.reservations[r].expires
      OBVIOUS
    <3>1. db.reservations[r] \in Header /\ db.reservations[r].type = "seats"
      BY <1>1, <2>9 DEF WellTyped, IsStale
    <3> QED
      BY <2>9, <3>1 DEF Header
  <2> HIDE DEF R
  <2>12. Moved(h)' = R /\ Created(h)' = {}
    BY <2>3, <2>9 DEF Moved, Created
  <2>13. Writes(h)'
    <3>1. ASSUME NEW r \in R PROVE MovedRow(h, r)'
      <4>1. ReservationRow(r) \in rows /\ db.reservations[r].status = "reserved"
        BY <1>5, <1>7, <3>1 DEF R
      <4>2. r \notin DOMAIN db.reservation_items
        BY <1>1 DEF R, IsStale, Inv, Committed, ChildrenOf
      <4>3. \A i \in DOMAIN db.reservation_seats : i[1] = r => i \in DOMAIN new.reservation_seats
        BY <2>10
      <4>4. new.reservations[r] = [db.reservations[r] EXCEPT !.status = new.reservations[r].status]
        BY <2>9, <2>11
      <4> QED
        BY <2>3, <2>11, <4>1, <4>2, <4>3, <4>4 DEF MovedRow, Final
    <3>2. MovedRows(h)' /\ CreatedRows(h)'
      BY <2>12, <3>1 DEF MovedRows, CreatedRows
    <3>3. ItemRows(h)' /\ TicketRows(h)' /\ CreatedWhole(h)'
      BY <2>3, <2>9 DEF ItemRows, TicketRows, CreatedWhole
    <3>4. SeatRows(h)'
      <4> SUFFICES ASSUME NEW i \in DOMAIN new.reservation_seats
                   PROVE  /\ i[1] \in R /\ i \in DOMAIN db.reservation_seats
                          /\ i[1] \in DOMAIN db.reservations
                          /\ new.reservation_seats[i].status = "expired"
                          /\ new.reservation_seats[i].expires = db.reservations[i[1]].expires
        BY <2>3, <2>9, <2>11 DEF SeatRows
      <4>1. i[1] \in R /\ i \in DOMAIN db.reservation_seats
        BY <2>10
      <4> QED
        BY <2>8, <2>10, <4>1 DEF Hold
    <3> QED
      BY <3>2, <3>3, <3>4 DEF Writes
  <2>14. Closed(h)'
    BY <2>2, <2>3 DEF Closed, TxLabels, ReadLabels
  <2>15. HoldsExpired(h)'
    <3>1. SeatsLocked(h)'
      BY <1>1, <2>1, <2>3 DEF SeatsLocked, Wanted, rows
    <3>2. \A r \in R : IsStale(h, r)'
      BY <1>1, <2>1, <2>3 DEF IsStale, Wanted, R
    <3>3. OthersRun(h, Moved(h))'
      <4>1. \A i \in DOMAIN db.reservation_seats :
               db.reservation_seats[i].status = "reserved" /\ i[1] \notin R => i[1] \notin listed
        BY <2>8 DEF R
      <4>2. R \subseteq listed
        BY DEF R
      <4> QED
        BY <1>1, <2>1, <2>2, <2>3, <2>12, <4>1, <4>2 DEF OthersRun, Wanted
    <3> QED
      BY <2>3, <2>9, <2>11, <2>12, <3>1, <3>2, <3>3 DEF HoldsExpired
  <2>16. HandlerInv(h)'
    BY <1>1, <2>1, <2>3, <2>12, <2>15
       DEF HandlerInv, RequestFits, QuantityFits, SeatsFit, ReplayFits, TransitionFits, AnswerFits
  <2>17. ProcInv(h)'
    BY <2>13, <2>14, <2>16 DEF ProcInv
  <2>18. \A r \in DOMAIN new.reservations : MayWrite(h, r, new.reservations[r])
    BY <2>9, <2>11 DEF MayWrite
  <2> QED
    BY <1>4, <2>1, <2>2, <2>7, <2>17, <2>18, OwnStepInv DEF LabelFits, HandlerLabels, rows
<1> QED
  BY <1>6, <1>7

\* The header goes in under a fresh id and a free key, or the call replays.
LEMMA SeatHeaderInv ==
    ASSUME Inv, NEW h \in Handlers, SeatHeader(h)
    PROVE  Inv'
<1> USE HandlerFacts
<1> DEFINE ss == req[h].session
           k == req[h].key
           e == req[h].event
           x == loc[h].expires
<1>1. /\ pc[h] = "s_header" /\ req[h].op = "seats" /\ ~IsInvalid(req[h])
      /\ req[h] \in Requests[h] /\ HoldsExpired(h) /\ Created(h) = {}
  BY DEF SeatHeader, At, HandlerInv, RequestFits, SeatsFit
<1>2. DOMAIN pend[h].reservations \subseteq DOMAIN db.reservations
  BY <1>1 DEF Created
<1>3. \A r \in DOMAIN pend[h].reservations :
         /\ r \in Moved(h) /\ MovedRow(h, r)
         /\ pend[h].reservations[r].session = db.reservations[r].session
         /\ pend[h].reservations[r].key = db.reservations[r].key
  <2> SUFFICES ASSUME NEW r \in DOMAIN pend[h].reservations
               PROVE  /\ r \in Moved(h) /\ MovedRow(h, r)
                      /\ pend[h].reservations[r].session = db.reservations[r].session
                      /\ pend[h].reservations[r].key = db.reservations[r].key
    OBVIOUS
  <2>1. r \in Moved(h) /\ MovedRow(h, r) /\ db.reservations[r] \in Header
    BY <1>2 DEF Moved, Writes, MovedRows, WellTyped
  <2> QED
    BY <2>1 DEF MovedRow, Header
<1>4. IsFree(View(h), ss, k) <=> IsFree(db, ss, k)
  <2>1. IsPatched(View(h).reservations, pend[h].reservations, db.reservations)
    BY ViewRows DEF Inv, IsOverlay
  <2>2. DOMAIN View(h).reservations = DOMAIN db.reservations
    BY <1>2, <2>1 DEF IsPatched
  <2>3. \A r \in DOMAIN db.reservations :
           /\ View(h).reservations[r].session = db.reservations[r].session
           /\ View(h).reservations[r].key = db.reservations[r].key
    BY <1>3, <2>1 DEF IsPatched
  <2> QED
    BY <2>2, <2>3 DEF IsFree
<1>5. CASE ~IsFree(db, ss, k)
  <2>1. EndTx(h) /\ Continue(h, "s_replay", loc[h])
    BY <1>4, <1>5 DEF SeatHeader
  <2> QED
    BY <1>1, <1>5, <2>1, ReplayLabelInv
<1>6. CASE IsFree(db, ss, k)
  <2>1. PICK r \in FreshIds :
           /\ Write(h, CreateReservation(r, ss, k, e, "seats", x))
           /\ Continue(h, "s_insert", [loc[h] EXCEPT !.todo = Wanted(h), !.answer.id = r])
           /\ UNCHANGED locks
    BY <1>4, <1>6 DEF SeatHeader, Wanted
  <2> DEFINE header == CreateReservation(r, ss, k, e, "seats", x)
             l == [loc[h] EXCEPT !.todo = Wanted(h), !.answer.id = r]
             new == Overlay(header, pend[h])
  <2>2. r \in ReservationIds /\ r \notin DOMAIN db.reservations /\ r \notin DOMAIN pend[h].reservations
    BY DEF FreshIds
  <2>3. /\ WellTyped(header) /\ DOMAIN header.reservations = {r}
        /\ header.reservations[r] =
              [session |-> ss, key |-> k, event |-> e, user |-> UserOf[ss],
               type |-> "seats", status |-> "reserved", expires |-> x]
        /\ DOMAIN header.ticket_types = {} /\ DOMAIN header.reservation_items = {}
        /\ DOMAIN header.reservation_seats = {}
    <3>1. /\ UserOf[ss] \in {UserOf[rq.session] : rq \in Creating}
          /\ ss \in {rq.session : rq \in Creating}
          /\ k \in {rq.key : rq \in Creating}
          /\ e \in {rq.event : rq \in Creating}
      BY <1>1, RequestColumns
    <3>2. x \in Nat /\ "seats" \in {"quantity", "seats"}
      OBVIOUS
    <3> HIDE DEF ss, k, e, x
    <3> QED
      BY <2>2, <3>1, <3>2, CreateReservationRows
  <2> HIDE DEF header
  <2>4. WellTyped(new) /\ IsOverlay(new, header, pend[h])
    BY <2>3, OverlayRows, OverlayTyped
  <2>5. OwnStep(h, new, locks[h], "s_insert", l) /\ req' = req
    <3>1. pend' = [pend EXCEPT ![h] = new]
      BY <2>1 DEF Write, header
    <3> QED
      BY <2>1, <3>1, IsOwnStep DEF Inv, Continue
  <2>6. Wanted(h) # {} /\ Wanted(h) \subseteq Seats /\ Seats \subseteq Nat
    BY <1>1, TxAssumption DEF HoldsExpired, SeatsLocked
  <2>7. l \in Locals /\ l.todo = Wanted(h) /\ l.answer.id = r /\ l.expires = x
    <3>1. loc[h].answer \in AnswerType
      BY DEF Locals
    <3>2. [loc[h].answer EXCEPT !.id = r] \in AnswerType
      BY <2>2, <3>1 DEF AnswerType
    <3>3. [loc[h].answer EXCEPT !.id = r].id = r
      BY <3>1 DEF AnswerType
    <3> QED
      BY <2>6, <3>2, <3>3 DEF Locals
  <2> HIDE DEF new, l
  <2>8. /\ DOMAIN new.reservations = DOMAIN pend[h].reservations \cup {r}
        /\ new.reservations[r] = header.reservations[r]
        /\ \A y \in DOMAIN pend[h].reservations : new.reservations[y] = pend[h].reservations[y]
    BY <2>2, <2>3, <2>4 DEF IsOverlay, IsPatched
  <2>9. /\ DOMAIN new.ticket_types = DOMAIN pend[h].ticket_types
        /\ DOMAIN new.reservation_items = DOMAIN pend[h].reservation_items
        /\ \A y \in DOMAIN new.reservation_items :
              new.reservation_items[y] = pend[h].reservation_items[y]
        /\ DOMAIN new.reservation_seats = DOMAIN pend[h].reservation_seats
        /\ \A y \in DOMAIN new.reservation_seats :
              new.reservation_seats[y] = pend[h].reservation_seats[y]
    BY <2>3, <2>4 DEF IsOverlay, IsPatched
  <2>10. /\ pc'[h] = "s_insert" /\ loc'[h] = l /\ pend'[h] = new /\ locks'[h] = locks[h]
         /\ db' = db /\ now' = now
    BY <2>5 DEF OwnStep, Becomes
  <2>11. Moved(h)' = Moved(h) /\ Created(h)' = {r}
    BY <1>2, <2>2, <2>8, <2>10 DEF Moved, Created
  <2>12. Writes(h)'
    <3>1. MovedRows(h)'
      <4> SUFFICES ASSUME NEW y \in Moved(h) PROVE MovedRow(h, y)'
        BY <2>11 DEF MovedRows
      <4>1. MovedRow(h, y) /\ y \in DOMAIN pend[h].reservations
        BY DEF Writes, MovedRows, Moved
      <4>2. new.reservations[y] = pend[h].reservations[y]
        BY <2>8, <4>1
      <4> QED
        BY <2>9, <2>10, <4>1, <4>2 DEF MovedRow
    <3>2. CreatedRows(h)'
      BY <1>6, <2>3, <2>8, <2>10, <2>11 DEF CreatedRows
    <3>3. ItemRows(h)' /\ SeatRows(h)'
      BY <2>8, <2>9, <2>10 DEF Writes, ItemRows, SeatRows
    <3>4. TicketRows(h)' /\ CreatedWhole(h)'
      BY <2>9, <2>10 DEF Writes, TicketRows, CreatedWhole
    <3> QED
      BY <3>1, <3>2, <3>3, <3>4 DEF Writes
  <2>13. Closed(h)'
    BY <2>7, <2>10 DEF Closed, TxLabels, ReadLabels
  <2>14. HoldsExpired(h)'
    <3>1. SeatsLocked(h)'
      BY <1>1, <2>5, <2>10 DEF HoldsExpired, SeatsLocked, Wanted
    <3>2. \A y \in Moved(h) : IsStale(h, y)' /\ new.reservations[y].status = "expired"
      BY <1>1, <2>5, <2>8, <2>10 DEF HoldsExpired, IsStale, Wanted, Moved
    <3>3. OthersRun(h, Moved(h))'
      BY <1>1, <2>5, <2>7, <2>10, <2>11 DEF HoldsExpired, OthersRun, Wanted
    <3> QED
      BY <1>1, <2>9, <2>10, <2>11, <3>1, <3>2, <3>3 DEF HoldsExpired
  <2>15. HoldsCreated(h)'
    <3>1. IsHeaderOf(h, pend[h].reservations[r], "seats")'
      BY <2>3, <2>5, <2>7, <2>8, <2>10 DEF IsHeaderOf
    <3>2. \A y \in Seats : <<r, y>> \notin DOMAIN new.reservation_seats
      BY <2>2, <2>9 DEF Writes, SeatRows
    <3>3. loc'[h].answer.id = r /\ loc'[h].todo = Wanted(h) /\ Wanted(h)' = Wanted(h)
      BY <2>5, <2>7, <2>10 DEF Wanted
    <3> QED
      BY <2>10, <2>11, <2>14, <3>1, <3>2, <3>3 DEF HoldsCreated
  <2>16. HandlerInv(h)'
    BY <1>1, <2>5, <2>6, <2>7, <2>10, <2>15
       DEF HandlerInv, RequestFits, QuantityFits, SeatsFit, ReplayFits, TransitionFits, AnswerFits
  <2>17. ProcInv(h)'
    BY <2>12, <2>13, <2>16 DEF ProcInv
  <2>18. \A y \in DOMAIN new.reservations : MayWrite(h, y, new.reservations[y])
    <3>1. KeyBlockers(h) = {}
      BY <1>1, Unblocked DEF SeatHeader, At
    <3>2. MayWrite(h, r, new.reservations[r])
      BY <2>3, <2>8, <3>1 DEF KeyBlockers, MayWrite
    <3> QED
      BY <2>8, <3>2 DEF MayWrite
  <2> QED
    BY <2>4, <2>5, <2>7, <2>17, <2>18, OwnStepInv DEF LabelFits, HandlerLabels
<1> QED
  BY <1>5, <1>6

\* One more seat is held, or it is taken and the call fails.
LEMMA SeatInsertInv ==
    ASSUME Inv, NEW h \in Handlers, SeatInsert(h)
    PROVE  Inv'
<1> USE HandlerFacts
<1> DEFINE s == NextId(h)
           rest == loc[h].todo \ {s}
           r == loc[h].answer.id
           x == loc[h].expires
           l == IF rest = {}
                THEN [loc[h] EXCEPT !.todo = {},
                                    !.answer = Answer("OK", r, "reserved", {"reserved"})]
                ELSE [loc[h] EXCEPT !.todo = rest]
           label == IF rest = {} THEN "commit" ELSE "s_insert"
<1>1. /\ pc[h] = "s_insert" /\ req[h].op = "seats" /\ ~IsInvalid(req[h])
      /\ req[h] \in Requests[h] /\ HoldsCreated(h) /\ loc[h].todo # {}
  BY DEF SeatInsert, At, HandlerInv, RequestFits, SeatsFit
<1>2. s \in loc[h].todo /\ loc[h].todo \subseteq Nat
  BY <1>1, NextIdIn
<1>3. CASE IsTaken(View(h), s)
  <2>1. Fail(h, "SEAT_UNAVAILABLE")
    BY <1>3 DEF SeatInsert
  <2> QED
    BY <1>1, <2>1, FailInv DEF FailureCodes
<1>4. CASE ~IsTaken(View(h), s)
  <2> DEFINE w == CreateReservationSeat(r, s, x)
             new == Overlay(w, pend[h])
  <2>1. Write(h, w) /\ Continue(h, label, l) /\ UNCHANGED locks
    BY <1>4 DEF SeatInsert
  <2>2. /\ HoldsExpired(h) /\ SeatsLocked(h) /\ Created(h) = {r}
        /\ r \in DOMAIN pend[h].reservations /\ r \notin DOMAIN db.reservations
        /\ IsHeaderOf(h, pend[h].reservations[r], "seats")
        /\ s \in Wanted(h) /\ s \in Seats /\ SeatRow(s) \in locks[h]
        /\ loc[h].todo \subseteq Wanted(h)
    BY <1>1, <1>2 DEF HoldsCreated, HoldsExpired, SeatsLocked, Created
  <2>3. r \in ReservationIds /\ pend[h].reservations[r].status = "reserved"
    BY <2>2 DEF WellTyped, Writes, CreatedRows
  <2>4. /\ WellTyped(w) /\ DOMAIN w.reservation_seats = {<<r, s>>}
        /\ w.reservation_seats[<<r, s>>] = [status |-> "reserved", expires |-> x]
        /\ DOMAIN w.ticket_types = {} /\ DOMAIN w.reservations = {}
        /\ DOMAIN w.reservation_items = {}
    <3>1. x \in Nat
      OBVIOUS
    <3> HIDE DEF r, s, x
    <3> QED
      BY <2>2, <2>3, <3>1, CreateReservationSeatRows
  <2> HIDE DEF w
  <2>5. WellTyped(new) /\ IsOverlay(new, w, pend[h])
    BY <2>4, OverlayRows, OverlayTyped
  <2>6. OwnStep(h, new, locks[h], label, l) /\ req' = req
    <3>1. pend' = [pend EXCEPT ![h] = new]
      BY <2>1 DEF Write
    <3> QED
      BY <2>1, <3>1, IsOwnStep DEF Inv, Continue
  <2>7. /\ l \in Locals /\ l.todo = rest /\ l.answer.id = r /\ l.expires = x
        /\ rest = {} => l.answer = [code |-> "OK", id |-> r, status |-> "reserved",
                                    children |-> {"reserved"}]
    <3>1. loc[h].answer \in AnswerType
      BY DEF Locals
    <3>2. Answer("OK", r, "reserved", {"reserved"}) \in AnswerType
      BY <2>3 DEF Answer, AnswerType, Codes, Status
    <3>3. rest \subseteq Nat
      BY <1>2
    <3>4. CASE rest = {}
      BY <3>2, <3>4 DEF Locals, Answer
    <3>5. CASE rest # {}
      BY <3>3, <3>5 DEF Locals
    <3> QED
      BY <3>4, <3>5
  <2>8. label \in {"commit", "s_insert"}
    OBVIOUS
  <2> HIDE DEF new, l
  <2>9. /\ DOMAIN new.reservations = DOMAIN pend[h].reservations
        /\ \A y \in DOMAIN new.reservations : new.reservations[y] = pend[h].reservations[y]
        /\ DOMAIN new.ticket_types = DOMAIN pend[h].ticket_types
        /\ DOMAIN new.reservation_items = DOMAIN pend[h].reservation_items
        /\ \A y \in DOMAIN new.reservation_items :
              new.reservation_items[y] = pend[h].reservation_items[y]
    BY <2>4, <2>5 DEF IsOverlay, IsPatched
  <2>10. /\ DOMAIN new.reservation_seats = DOMAIN pend[h].reservation_seats \cup {<<r, s>>}
         /\ new.reservation_seats[<<r, s>>] = w.reservation_seats[<<r, s>>]
         /\ \A y \in DOMAIN pend[h].reservation_seats :
               y # <<r, s>> => new.reservation_seats[y] = pend[h].reservation_seats[y]
    BY <2>4, <2>5 DEF IsOverlay, IsPatched
  <2>11. /\ pc'[h] = label /\ loc'[h] = l /\ pend'[h] = new /\ locks'[h] = locks[h]
         /\ db' = db /\ now' = now
    BY <2>6 DEF OwnStep, Becomes
  <2>12. Moved(h)' = Moved(h) /\ Created(h)' = Created(h) /\ Wanted(h)' = Wanted(h)
    BY <2>6, <2>9, <2>11 DEF Moved, Created, Wanted
  <2> HIDE DEF label
  <2>13. Writes(h)'
    <3>1. MovedRows(h)'
      <4> SUFFICES ASSUME NEW y \in Moved(h) PROVE MovedRow(h, y)'
        BY <2>12 DEF MovedRows
      <4>1. MovedRow(h, y) /\ new.reservations[y] = pend[h].reservations[y]
        BY <2>9 DEF Writes, MovedRows, Moved
      <4> QED
        BY <2>9, <2>10, <2>11, <4>1 DEF MovedRow
    <3>2. CreatedRows(h)' /\ TicketRows(h)'
      BY <2>9, <2>11, <2>12 DEF Writes, CreatedRows, Created, TicketRows
    <3>3. ItemRows(h)'
      BY <2>9, <2>11 DEF Writes, ItemRows
    <3>4. SeatRows(h)'
      <4>1. ASSUME NEW i \in DOMAIN pend[h].reservation_seats, i # <<r, s>>
            PROVE  new.reservation_seats[i] = pend[h].reservation_seats[i]
        BY <2>10, <4>1
      <4>2. /\ <<r, s>>[1] = r /\ <<r, s>>[2] = s
            /\ new.reservation_seats[<<r, s>>].status = new.reservations[r].status
            /\ new.reservation_seats[<<r, s>>].expires = new.reservations[r].expires
            /\ new.reservations[r].type = "seats"
        BY <2>2, <2>3, <2>4, <2>9, <2>10 DEF IsHeaderOf
      <4>3. ASSUME NEW i \in DOMAIN new.reservation_seats
            PROVE  /\ i[1] \in DOMAIN new.reservations
                   /\ new.reservations[i[1]].type = "seats"
                   /\ new.reservation_seats[i].status = new.reservations[i[1]].status
                   /\ new.reservation_seats[i].expires = new.reservations[i[1]].expires
                   /\ IF i[1] \in DOMAIN db.reservations
                      THEN i \in DOMAIN db.reservation_seats
                      ELSE SeatRow(i[2]) \in locks[h]
        <5>1. CASE i = <<r, s>>
          BY <2>2, <2>9, <4>2, <5>1
        <5>2. CASE i # <<r, s>>
          <6>1. /\ i \in DOMAIN pend[h].reservation_seats
                /\ new.reservation_seats[i] = pend[h].reservation_seats[i]
            BY <2>10, <4>1, <5>2
          <6> QED
            BY <2>9, <6>1 DEF Writes, SeatRows
        <5> QED
          BY <5>1, <5>2
      <4> QED
        BY <2>11, <4>3 DEF SeatRows
    <3>5. CreatedWhole(h)'
      BY <2>2, <2>10, <2>11, <2>12 DEF CreatedWhole
    <3> QED
      BY <3>1, <3>2, <3>3, <3>4, <3>5 DEF Writes
  <2>14. Closed(h)'
    BY <2>7, <2>8, <2>11 DEF Closed, TxLabels, ReadLabels
  <2>15. HoldsExpired(h)'
    <3>1. SeatsLocked(h)'
      BY <2>2, <2>11, <2>12 DEF SeatsLocked
    <3>2. \A y \in Moved(h) : IsStale(h, y)' /\ new.reservations[y].status = "expired"
      BY <2>2, <2>9, <2>11, <2>12 DEF HoldsExpired, IsStale, Moved
    <3>3. OthersRun(h, Moved(h))'
      BY <2>2, <2>7, <2>11, <2>12 DEF HoldsExpired, OthersRun
    <3> QED
      BY <2>2, <2>9, <2>11, <2>12, <3>1, <3>2, <3>3 DEF HoldsExpired
  <2>16. HoldsCreated(h)'
    <3>1. IsHeaderOf(h, pend[h].reservations[r], "seats")' /\ loc'[h].answer.id = r
      BY <2>2, <2>6, <2>7, <2>9, <2>11 DEF IsHeaderOf
    <3>2. \A y \in Seats : <<r, y>> \in DOMAIN new.reservation_seats <=> y \in Wanted(h) \ rest
      BY <1>1, <2>2, <2>10 DEF HoldsCreated
    <3>3. ASSUME NEW i \in DOMAIN db.reservation_seats, i[2] \in Wanted(h) \ rest,
                 db.reservation_seats[i].status \in {"reserved", "confirmed"}
          PROVE  i[1] \in Moved(h)
      <4>1. CASE i[2] # s
        BY <1>1, <3>3, <4>1 DEF HoldsCreated
      <4>2. CASE i[2] = s
        <5>1. IsPatched(View(h).reservation_seats, pend[h].reservation_seats, db.reservation_seats)
          BY ViewRows DEF Inv, IsOverlay
        <5>2. i \in DOMAIN pend[h].reservation_seats
          BY <1>4, <3>3, <4>2, <5>1 DEF IsTaken, IsPatched
        <5>3. i[1] \in DOMAIN pend[h].reservations /\ i[1] \in DOMAIN db.reservations
          BY <5>2 DEF Writes, SeatRows, Inv, Committed
        <5> QED
          BY <5>3 DEF Moved
      <4> QED
        BY <4>1, <4>2
    <3> QED
      BY <2>2, <2>7, <2>11, <2>12, <2>15, <3>1, <3>2, <3>3 DEF HoldsCreated
  <2>17. SeatsFit(h)'
    BY <2>7, <2>8, <2>11, <2>16 DEF SeatsFit, label
  <2>18. AnswerFits(h)'
    <3> SUFFICES ASSUME label = "commit"
                 PROVE  IsOwn(h, View(h), loc[h].answer)'
      BY <1>1, <2>6, <2>8, <2>11 DEF AnswerFits, Lifecycle
    <3>1. rest = {}
      BY DEF label
    <3>2. IsOverlay(View(h)', new, db)
      BY <2>11, OverlayRows DEF View
    <3>3. /\ r \in DOMAIN View(h)'.reservations
          /\ View(h)'.reservations[r] = pend[h].reservations[r]
      BY <2>2, <2>9, <3>2 DEF IsOverlay, IsPatched
    <3> QED
      BY <1>1, <2>2, <2>6, <2>7, <2>11, <3>1, <3>3 DEF IsOwn, IsHeaderOf, Status
  <2>19. HandlerInv(h)'
    BY <1>1, <2>6, <2>8, <2>11, <2>17, <2>18
       DEF HandlerInv, RequestFits, QuantityFits, ReplayFits, TransitionFits, Lifecycle
  <2>20. ProcInv(h)'
    BY <2>13, <2>14, <2>19 DEF ProcInv
  <2>21. \A y \in DOMAIN new.reservations : MayWrite(h, y, new.reservations[y])
    BY <2>9 DEF MayWrite
  <2> QED
    BY <2>5, <2>6, <2>7, <2>8, <2>20, <2>21, OwnStepInv DEF LabelFits, HandlerLabels
<1> QED
  BY <1>3, <1>4

--------------------------------------------------------------------------------
(* Moving a reservation to its next status *)

\* p may move reservation r: it holds the lock, and r is still reserved.
MayMove(p, r) ==
    /\ r \in DOMAIN db.reservations /\ r \notin DOMAIN pend[p].reservations
    /\ db.reservations[r].status = "reserved"
    /\ ReservationRow(r) \in locks[p]
    /\ Created(p) = {}

\* A transaction reads the committed rows of a reservation it may move.
LEMMA MayMoveReads ==
    ASSUME Inv, NEW p \in Procs, NEW r, MayMove(p, r)
    PROVE  /\ WellTyped(View(p)) /\ DOMAIN View(p).ticket_types = TicketTypes
           /\ r \in DOMAIN View(p).reservations
           /\ View(p).reservations[r] = db.reservations[r]
           /\ db.reservations[r] \in Header /\ db.reservations[r].type \in {"quantity", "seats"}
           /\ r \in DOMAIN View(p).reservation_items <=> r \in DOMAIN db.reservation_items
           /\ r \in DOMAIN db.reservation_items =>
                 View(p).reservation_items[r] = db.reservation_items[r]
           /\ \A i : i[1] = r =>
                 /\ i \in DOMAIN View(p).reservation_seats <=> i \in DOMAIN db.reservation_seats
                 /\ i \in DOMAIN db.reservation_seats =>
                       View(p).reservation_seats[i] = db.reservation_seats[i]
<1>1. /\ WellTyped(View(p)) /\ IsOverlay(View(p), pend[p], db) /\ WellTyped(db)
      /\ DOMAIN db.ticket_types = TicketTypes /\ WellTyped(pend[p])
  BY ViewRows DEF Inv, Types
<1>2. Writes(p)
  BY DEF Inv, ProcInv
<1>3. DOMAIN View(p).ticket_types = TicketTypes
  BY <1>1 DEF IsOverlay, IsPatched, WellTyped
<1>4. /\ r \in DOMAIN View(p).reservations /\ View(p).reservations[r] = db.reservations[r]
  BY <1>1 DEF IsOverlay, IsPatched, MayMove
<1>5. /\ db.reservations[r] \in Header /\ db.reservations[r].type \in {"quantity", "seats"}
  BY <1>1, RowTypes DEF MayMove, WellTyped
<1>6. /\ r \notin DOMAIN pend[p].reservation_items
      /\ \A i \in DOMAIN pend[p].reservation_seats : i[1] # r
  BY <1>2 DEF Writes, ItemRows, SeatRows, MayMove
<1>7. /\ r \in DOMAIN View(p).reservation_items <=> r \in DOMAIN db.reservation_items
      /\ r \in DOMAIN db.reservation_items =>
            View(p).reservation_items[r] = db.reservation_items[r]
  BY <1>1, <1>6 DEF IsOverlay, IsPatched
<1>8. \A i : i[1] = r =>
         /\ i \in DOMAIN View(p).reservation_seats <=> i \in DOMAIN db.reservation_seats
         /\ i \in DOMAIN db.reservation_seats =>
               View(p).reservation_seats[i] = db.reservation_seats[i]
  BY <1>1, <1>6 DEF IsOverlay, IsPatched
<1> QED
  BY <1>1, <1>3, <1>4, <1>5, <1>7, <1>8

\* With the writes w of the transition, p has written exactly the rows of r, its
\* stock and what it had written before: new.
Adds(p, r, status, w, new) ==
    /\ DOMAIN new.reservations = DOMAIN pend[p].reservations \cup {r}
    /\ new.reservations[r] = [db.reservations[r] EXCEPT !.status = status]
    /\ \A y \in DOMAIN pend[p].reservations : new.reservations[y] = pend[p].reservations[y]
    /\ DOMAIN new.reservation_items =
          DOMAIN pend[p].reservation_items \cup (DOMAIN db.reservation_items \cap {r})
    /\ r \in DOMAIN db.reservation_items =>
          new.reservation_items[r] = [db.reservation_items[r] EXCEPT !.status = status]
    /\ \A y \in DOMAIN pend[p].reservation_items :
          y # r /\ new.reservation_items[y] = pend[p].reservation_items[y]
    /\ DOMAIN new.reservation_seats =
          DOMAIN pend[p].reservation_seats \cup {i \in DOMAIN db.reservation_seats : i[1] = r}
    /\ \A i \in DOMAIN db.reservation_seats : i[1] = r =>
          new.reservation_seats[i] = [db.reservation_seats[i] EXCEPT !.status = status]
    /\ \A i \in DOMAIN pend[p].reservation_seats :
          i[1] # r /\ new.reservation_seats[i] = pend[p].reservation_seats[i]
    /\ DOMAIN new.ticket_types = DOMAIN pend[p].ticket_types \cup DOMAIN w.ticket_types
    /\ DOMAIN w.ticket_types =
          IF db.reservations[r].type = "quantity" THEN {db.reservation_items[r].ticket} ELSE {}
    /\ \A t \in DOMAIN w.ticket_types :
          /\ new.ticket_types[t] =
                TicketMoved(View(p).ticket_types[t], db.reservation_items[r].quantity, status)
          /\ db.reservation_items[r].quantity <= View(p).ticket_types[t].reserved
    /\ \A t \in DOMAIN pend[p].ticket_types :
          t \notin DOMAIN w.ticket_types => new.ticket_types[t] = pend[p].ticket_types[t]

\* What a transition adds to the writes of its transaction.
LEMMA MoveRows ==
    ASSUME Inv, NEW p \in Procs, NEW r, MayMove(p, r), NEW status \in Final,
           ~InvariantBroken(View(p), r),
           NEW w, w = TransitionLocked(View(p), r, status),
           NEW new, new = Overlay(w, pend[p])
    PROVE  WellTyped(w) /\ WellTyped(new) /\ Adds(p, r, status, w, new)
<1> DEFINE v == View(p)
<1>1. /\ WellTyped(v) /\ DOMAIN v.ticket_types = TicketTypes
      /\ r \in DOMAIN v.reservations /\ v.reservations[r] = db.reservations[r]
      /\ db.reservations[r].type \in {"quantity", "seats"}
      /\ r \in DOMAIN v.reservation_items <=> r \in DOMAIN db.reservation_items
      /\ r \in DOMAIN db.reservation_items => v.reservation_items[r] = db.reservation_items[r]
      /\ \A i : i[1] = r =>
            /\ i \in DOMAIN v.reservation_seats <=> i \in DOMAIN db.reservation_seats
            /\ i \in DOMAIN db.reservation_seats =>
                  v.reservation_seats[i] = db.reservation_seats[i]
  BY MayMoveReads
<1>2. w = TransitionLocked(v, r, status) /\ ~InvariantBroken(v, r) /\ status \in Status
  BY DEF Status
<1>3. WellTyped(pend[p]) /\ Writes(p) /\ ChildrenOf(db, r) /\ db.reservations[r].status = "reserved"
  BY DEF Inv, Types, ProcInv, Committed, MayMove
<1>4. /\ r \notin DOMAIN pend[p].reservations
      /\ r \notin DOMAIN pend[p].reservation_items
      /\ \A i \in DOMAIN pend[p].reservation_seats : i[1] # r
  BY <1>3 DEF Writes, ItemRows, SeatRows, MayMove
<1> HIDE DEF v
<1>5. WellTyped(w) /\ Moves(v, w, r, status)
  BY <1>1, <1>2, TransitionLockedRows
<1>6. WellTyped(new) /\ IsOverlay(new, w, pend[p])
  BY <1>3, <1>5, OverlayRows, OverlayTyped
<1>7. /\ DOMAIN new.reservations = DOMAIN pend[p].reservations \cup {r}
      /\ new.reservations[r] = [db.reservations[r] EXCEPT !.status = status]
      /\ \A y \in DOMAIN pend[p].reservations : new.reservations[y] = pend[p].reservations[y]
  BY <1>1, <1>4, <1>5, <1>6 DEF IsOverlay, IsPatched, Moves
<1>8. /\ DOMAIN w.reservation_items = DOMAIN db.reservation_items \cap {r}
      /\ r \in DOMAIN db.reservation_items =>
            w.reservation_items[r] = [db.reservation_items[r] EXCEPT !.status = status]
  BY <1>1, <1>3, <1>5 DEF ChildrenOf, Moves
<1>9. /\ DOMAIN w.reservation_seats = {i \in DOMAIN db.reservation_seats : i[1] = r}
      /\ \A i \in DOMAIN db.reservation_seats : i[1] = r =>
            w.reservation_seats[i] = [db.reservation_seats[i] EXCEPT !.status = status]
  <2>1. CASE db.reservations[r].type = "quantity"
    BY <1>1, <1>3, <1>5, <2>1 DEF ChildrenOf, Moves
  <2>2. CASE db.reservations[r].type = "seats"
    <3>1. \A i \in DOMAIN db.reservation_seats :
             i[1] = r => db.reservation_seats[i].status = "reserved"
      BY <1>3, <2>2 DEF ChildrenOf
    <3>2. \A i : i \in DOMAIN w.reservation_seats <=>
             i \in DOMAIN db.reservation_seats /\ i[1] = r
      BY <1>1, <1>5, <2>2, <3>1 DEF Moves
    <3> QED
      BY <1>1, <1>5, <2>2, <3>2 DEF Moves
  <2> QED
    BY <1>1, <2>1, <2>2
<1>10. /\ DOMAIN w.ticket_types =
             IF db.reservations[r].type = "quantity" THEN {db.reservation_items[r].ticket} ELSE {}
       /\ \A t \in DOMAIN w.ticket_types :
             /\ w.ticket_types[t] =
                   TicketMoved(v.ticket_types[t], db.reservation_items[r].quantity, status)
             /\ db.reservation_items[r].quantity <= v.ticket_types[t].reserved
  BY <1>1, <1>5 DEF Moves
<1>11. /\ DOMAIN new.reservation_items =
             DOMAIN pend[p].reservation_items \cup (DOMAIN db.reservation_items \cap {r})
       /\ r \in DOMAIN db.reservation_items =>
             new.reservation_items[r] = [db.reservation_items[r] EXCEPT !.status = status]
       /\ \A y \in DOMAIN pend[p].reservation_items :
             y # r /\ new.reservation_items[y] = pend[p].reservation_items[y]
  BY <1>4, <1>6, <1>8 DEF IsOverlay, IsPatched
<1>12. /\ DOMAIN new.reservation_seats =
             DOMAIN pend[p].reservation_seats \cup {i \in DOMAIN db.reservation_seats : i[1] = r}
       /\ \A i \in DOMAIN db.reservation_seats : i[1] = r =>
             new.reservation_seats[i] = [db.reservation_seats[i] EXCEPT !.status = status]
       /\ \A i \in DOMAIN pend[p].reservation_seats :
             i[1] # r /\ new.reservation_seats[i] = pend[p].reservation_seats[i]
  BY <1>4, <1>6, <1>9 DEF IsOverlay, IsPatched
<1>13. /\ DOMAIN new.ticket_types = DOMAIN pend[p].ticket_types \cup DOMAIN w.ticket_types
       /\ \A t \in DOMAIN w.ticket_types : new.ticket_types[t] = w.ticket_types[t]
       /\ \A t \in DOMAIN pend[p].ticket_types :
             t \notin DOMAIN w.ticket_types => new.ticket_types[t] = pend[p].ticket_types[t]
  BY <1>6 DEF IsOverlay, IsPatched
<1> QED
  BY <1>5, <1>6, <1>7, <1>10, <1>11, <1>12, <1>13 DEF v, Adds

\* After the transition p has still written whole reservations under its locks,
\* and has the lock of every ticket row it needs.
LEMMA MoveWrites ==
    ASSUME Inv, NEW p \in Procs, NEW r, MayMove(p, r), NEW status \in Final,
           ~InvariantBroken(View(p), r), StockBlockers(p, r) = {},
           NEW w, w = TransitionLocked(View(p), r, status),
           NEW new, new = Overlay(w, pend[p]),
           NEW rows, rows = locks[p] \cup {TicketRow(t) : t \in DOMAIN w.ticket_types},
           NEW label, NEW l, OwnStep(p, new, rows, label, l)
    PROVE  /\ Writes(p)' /\ Moved(p)' = Moved(p) \cup {r} /\ Created(p)' = {}
           /\ \A y \in DOMAIN new.reservations : MayWrite(p, y, new.reservations[y])
           /\ \A row \in rows \ locks[p] : Holders(p, row) = {}
<1>1. WellTyped(w) /\ WellTyped(new) /\ Adds(p, r, status, w, new)
  BY MoveRows
<1>2. Writes(p) /\ Committed /\ WellTyped(db)
  BY DEF Inv, ProcInv, Types
<1>3. /\ DOMAIN pend = Procs /\ DOMAIN locks = Procs /\ DOMAIN pc = Procs
  BY DEF Inv, Types
<1>4. pend'[p] = new /\ locks'[p] = rows /\ db' = db
  BY <1>3 DEF OwnStep, Becomes
<1>5. /\ Moved(p)' = Moved(p) \cup {r} /\ Created(p)' = {}
      /\ DOMAIN pend[p].reservations = Moved(p)
  BY <1>1, <1>4 DEF Moved, Created, MayMove, Adds
<1>6. /\ db.reservations[r] \in Header /\ db.reservations[r].type \in {"quantity", "seats"}
      /\ ChildrenOf(db, r) /\ r \in DOMAIN db.reservations
  BY <1>2, RowTypes DEF MayMove, Committed, WellTyped
<1>7. /\ new.reservations[r].status = status
      /\ new.reservations[r].type = db.reservations[r].type
      /\ new.reservations[r].session = db.reservations[r].session
      /\ new.reservations[r].key = db.reservations[r].key
      /\ new.reservations[r].expires = db.reservations[r].expires
  BY <1>1, <1>6 DEF Adds, Header
<1>8. MovedRows(p)'
  <2> SUFFICES ASSUME NEW y \in Moved(p)' PROVE MovedRow(p, y)'
    BY DEF MovedRows
  <2>1. CASE y = r
    <3>1. /\ ReservationRow(r) \in rows /\ db.reservations[r].status = "reserved"
          /\ new.reservations[r] = [db.reservations[r] EXCEPT !.status = new.reservations[r].status]
          /\ r \in DOMAIN db.reservation_items => r \in DOMAIN new.reservation_items
          /\ \A i \in DOMAIN db.reservation_seats :
                i[1] = r => i \in DOMAIN new.reservation_seats
      BY <1>1, <1>7 DEF MayMove, Adds
    <3> QED
      BY <1>4, <1>7, <2>1, <3>1 DEF MovedRow
  <2>2. CASE y \in Moved(p)
    <3>1. MovedRow(p, y) /\ new.reservations[y] = pend[p].reservations[y]
      BY <1>1, <1>2, <2>2 DEF Writes, MovedRows, Moved, Adds
    <3>2. /\ DOMAIN pend[p].reservation_items \subseteq DOMAIN new.reservation_items
          /\ DOMAIN pend[p].reservation_seats \subseteq DOMAIN new.reservation_seats
      BY <1>1 DEF Adds
    <3> QED
      BY <1>4, <3>1, <3>2 DEF MovedRow
  <2> QED
    BY <1>5, <2>1, <2>2
<1>9. CreatedRows(p)' /\ CreatedWhole(p)'
  BY <1>5 DEF CreatedRows, CreatedWhole
<1>10. ItemRows(p)'
  <2> SUFFICES ASSUME NEW y \in DOMAIN new.reservation_items
               PROVE  /\ y \in DOMAIN new.reservations
                      /\ new.reservations[y].type = "quantity"
                      /\ new.reservation_items[y].status = new.reservations[y].status
                      /\ y \in DOMAIN db.reservations =>
                            /\ y \in DOMAIN db.reservation_items
                            /\ new.reservation_items[y].ticket = db.reservation_items[y].ticket
                            /\ new.reservation_items[y].quantity
                                  = db.reservation_items[y].quantity
    BY <1>4 DEF ItemRows
  <2>1. CASE y \in DOMAIN pend[p].reservation_items
    <3>1. /\ new.reservation_items[y] = pend[p].reservation_items[y]
          /\ y \in DOMAIN pend[p].reservations
          /\ new.reservations[y] = pend[p].reservations[y] /\ y \in DOMAIN new.reservations
      BY <1>1, <1>2, <2>1 DEF Adds, Writes, ItemRows
    <3> QED
      BY <1>2, <2>1, <3>1 DEF Writes, ItemRows
  <2>2. CASE y = r /\ r \in DOMAIN db.reservation_items
    <3>1. db.reservation_items[r] \in Item
      BY <1>2, <2>2 DEF WellTyped
    <3>2. new.reservation_items[r] = [db.reservation_items[r] EXCEPT !.status = status]
      BY <1>1, <2>2 DEF Adds
    <3>3. db.reservations[r].type = "quantity" /\ r \in DOMAIN new.reservations
      BY <1>1, <1>6, <2>2 DEF ChildrenOf, Adds
    <3> QED
      BY <1>7, <2>2, <3>1, <3>2, <3>3 DEF Item
  <2> QED
    BY <1>1, <2>1, <2>2 DEF Adds
<1>11. SeatRows(p)'
  <2> SUFFICES ASSUME NEW i \in DOMAIN new.reservation_seats
               PROVE  /\ i[1] \in DOMAIN new.reservations
                      /\ new.reservations[i[1]].type = "seats"
                      /\ new.reservation_seats[i].status = new.reservations[i[1]].status
                      /\ new.reservation_seats[i].expires = new.reservations[i[1]].expires
                      /\ i[1] \in DOMAIN db.reservations /\ i \in DOMAIN db.reservation_seats
    BY <1>4 DEF SeatRows
  <2>1. CASE i \in DOMAIN pend[p].reservation_seats
    <3>1. /\ new.reservation_seats[i] = pend[p].reservation_seats[i]
          /\ i[1] \in DOMAIN pend[p].reservations
          /\ new.reservations[i[1]] = pend[p].reservations[i[1]] /\ i[1] \in DOMAIN new.reservations
      BY <1>1, <1>2, <2>1 DEF Adds, Writes, SeatRows
    <3>2. i[1] \in DOMAIN db.reservations
      BY <1>5, <3>1 DEF Moved
    <3> QED
      BY <1>2, <2>1, <3>1, <3>2 DEF Writes, SeatRows
  <2>2. CASE i[1] = r /\ i \in DOMAIN db.reservation_seats
    <3>1. db.reservation_seats[i] \in Hold
      BY <1>2, <2>2 DEF WellTyped
    <3>2. new.reservation_seats[i] = [db.reservation_seats[i] EXCEPT !.status = status]
      BY <1>1, <2>2 DEF Adds
    <3>3. /\ db.reservations[r].type = "seats" /\ r \in DOMAIN new.reservations
          /\ db.reservation_seats[i].expires = db.reservations[r].expires
      BY <1>1, <1>6, <2>2 DEF ChildrenOf, Adds
    <3> QED
      BY <1>6, <1>7, <2>2, <3>1, <3>2, <3>3 DEF Hold
  <2> QED
    BY <1>1, <2>1, <2>2 DEF Adds
<1>12. TicketRows(p)'
  BY <1>1, <1>2, <1>4 DEF Writes, TicketRows, Adds
<1>13. \A y \in DOMAIN new.reservations : MayWrite(p, y, new.reservations[y])
  BY <1>1, <1>6, <1>7 DEF MayWrite, Adds
<1>14. \A row \in rows \ locks[p] : Holders(p, row) = {}
  <2>1. CASE db.reservations[r].type = "quantity"
    <3>1. /\ View(p).reservations[r].type = "quantity"
          /\ View(p).reservation_items[r] = db.reservation_items[r]
      BY <1>6, <2>1, MayMoveReads DEF ChildrenOf
    <3>2. Holders(p, TicketRow(db.reservation_items[r].ticket)) = {}
      BY <3>1 DEF StockBlockers
    <3> QED
      BY <1>1, <2>1, <3>2 DEF Adds
  <2>2. CASE db.reservations[r].type # "quantity"
    BY <1>1, <2>2 DEF Adds
  <2> QED
    BY <2>1, <2>2
<1> QED
  BY <1>5, <1>8, <1>9, <1>10, <1>11, <1>12, <1>13, <1>14 DEF Writes

\* The answer to a transition that finds the header decided.
LEMMA DecidedInv ==
    ASSUME Inv, NEW h \in Handlers, NEW r, r = req[h].id,
           pc[h] = "t_lock", Visible(h), db.reservations[r].status # "reserved",
           NEW code, code = (IF db.reservations[r].status = Target(req[h].op)
                             THEN "OK" ELSE Refusal(req[h].op)),
           NEW a, a = BuildReservationResponse(code, db, r),
           Holders(h, ReservationRow(r)) = {},
           Lock(h, {ReservationRow(r)}), UNCHANGED pend,
           Continue(h, "commit", [loc[h] EXCEPT !.answer = a])
    PROVE  Inv'
<1> USE HandlerFacts
<1> DEFINE l == [loc[h] EXCEPT !.answer = a]
           rows == locks[h] \cup {ReservationRow(r)}
<1>1. /\ pend[h] = NoWrites /\ ~IsInvalid(req[h]) /\ req[h] \in Requests[h]
      /\ req[h].op \notin {"quantity", "seats", "get"} /\ Lifecycle(h)
  BY DEF Closed, ReadLabels, HandlerInv, RequestFits, Lifecycle
<1>2. code \in Codes
  BY DEF Codes, Refusal
<1>3. r \in DOMAIN db.reservations /\ CanAccessReservation(db.reservations[r], req[h].session)
  BY DEF Visible
<1>4. /\ a.code = code /\ a.id = r /\ a.status = db.reservations[r].status
      /\ a.children = {a.status} /\ a.status \in Status /\ a \in AnswerType
  BY <1>2, <1>3, CommittedResponse
<1>5. OwnStep(h, NoWrites, rows, "commit", l) /\ req' = req
  BY <1>1, IsOwnStep DEF Lock, Continue, Inv
<1>6. l \in Locals /\ l.answer = a /\ l.expires = loc[h].expires
  BY <1>4 DEF Locals
<1> HIDE DEF l
<1>7. pc'[h] = "commit" /\ loc'[h] = l /\ pend'[h] = NoWrites /\ db' = db /\ locks'[h] = rows
  BY <1>5 DEF OwnStep, Becomes
<1>8. View(h)' = db /\ DOMAIN pend'[h].reservations = {}
  BY <1>7, OverlayNothing, NothingWritten DEF View
<1>9. IsTransition(h, db, a)
  BY <1>3, <1>4 DEF IsTransition, Status
<1>10. AnswerFits(h)'
  <2>1. IsTransition(h, View(h), loc[h].answer)'
    BY <1>5, <1>6, <1>7, <1>8, <1>9 DEF IsTransition
  <2>2. Lifecycle(h)'
    BY <1>1, <1>5 DEF Lifecycle
  <2> QED
    BY <1>7, <2>1, <2>2 DEF AnswerFits
<1>11. TransitionFits(h)'
  BY <1>5, <1>7, <1>8 DEF TransitionFits, HeaderLocked, Visible
<1>12. HandlerInv(h)'
  BY <1>1, <1>5, <1>7, <1>10, <1>11 DEF HandlerInv, RequestFits, QuantityFits, SeatsFit, ReplayFits
<1> HIDE DEF rows
<1>13. \A row \in rows \ locks[h] : Holders(h, row) = {}
  BY DEF rows
<1> QED
  BY <1>5, <1>6, <1>12, <1>13, QuietStepInv DEF LabelFits, HandlerLabels, TxLabels

\* A transition that finds the header reserved goes on under its lock.
LEMMA UndecidedInv ==
    ASSUME Inv, NEW h \in Handlers, NEW r, r = req[h].id,
           pc[h] = "t_lock", Visible(h), db.reservations[r].status = "reserved",
           NEW target, target = (IF ReservationExpired(db.reservations[r])
                                 THEN "expired" ELSE Target(req[h].op)),
           Holders(h, ReservationRow(r)) = {},
           Lock(h, {ReservationRow(r)}), UNCHANGED pend,
           Continue(h, "t_apply", [loc[h] EXCEPT !.target = target])
    PROVE  Inv'
<1> USE HandlerFacts
<1> DEFINE l == [loc[h] EXCEPT !.target = target]
           rows == locks[h] \cup {ReservationRow(r)}
<1>1. /\ pend[h] = NoWrites /\ ~IsInvalid(req[h]) /\ req[h] \in Requests[h]
      /\ req[h].op \notin {"quantity", "seats", "get"}
  BY DEF Closed, ReadLabels, HandlerInv, RequestFits
<1>2. target \in Status /\ target \in {Target(req[h].op), "expired"}
  BY DEF Status, Final, Target
<1>3. target = "expired" => db.reservations[r].expires <= now
  BY DEF ReservationExpired, Target
<1>5. OwnStep(h, NoWrites, rows, "t_apply", l) /\ req' = req
  BY <1>1, IsOwnStep DEF Lock, Continue, Inv
<1>6. l \in Locals /\ l.target = target /\ l.expires = loc[h].expires
  BY <1>2 DEF Locals
<1> HIDE DEF l
<1>7. /\ pc'[h] = "t_apply" /\ loc'[h] = l /\ db' = db /\ locks'[h] = rows /\ now' = now
  BY <1>5 DEF OwnStep, Becomes
<1>8. TransitionFits(h)'
  BY <1>2, <1>3, <1>5, <1>6, <1>7 DEF TransitionFits, HeaderLocked, Visible
<1>9. HandlerInv(h)'
  BY <1>1, <1>5, <1>7, <1>8
     DEF HandlerInv, RequestFits, QuantityFits, SeatsFit, ReplayFits, AnswerFits
<1> HIDE DEF rows
<1>10. \A row \in rows \ locks[h] : Holders(h, row) = {}
  BY DEF rows
<1> QED
  BY <1>5, <1>6, <1>9, <1>10, QuietStepInv DEF LabelFits, HandlerLabels, TxLabels

\* Confirm and cancel decide under the lock of the header.
LEMMA TransitionLockInv ==
    ASSUME Inv, NEW h \in Handlers, TransitionLock(h)
    PROVE  Inv'
<1> DEFINE r == req[h].id
           code == IF db.reservations[r].status = Target(req[h].op)
                   THEN "OK" ELSE Refusal(req[h].op)
           a == BuildReservationResponse(code, db, r)
           target == IF ReservationExpired(db.reservations[r])
                     THEN "expired" ELSE Target(req[h].op)
<1>1. pc[h] = "t_lock" /\ Holders(h, ReservationRow(r)) = {}
  BY Unblocked DEF TransitionLock, At
<1>2. CASE Fail(h, "NOT_FOUND")
  BY <1>1, <1>2, FailInv DEF FailureCodes, Procs
<1>3. CASE /\ Visible(h) /\ db.reservations[r].status # "reserved"
           /\ Lock(h, {ReservationRow(r)}) /\ UNCHANGED pend
           /\ Continue(h, "commit", [loc[h] EXCEPT !.answer = a])
  <2> HIDE DEF a, code, r
  <2>1. a = BuildReservationResponse(code, db, r) /\ r = req[h].id
        /\ code = (IF db.reservations[r].status = Target(req[h].op)
                   THEN "OK" ELSE Refusal(req[h].op))
    BY DEF a, code, r
  <2> QED
    BY <1>1, <1>3, <2>1, DecidedInv
<1>4. CASE /\ Visible(h) /\ db.reservations[r].status = "reserved"
           /\ Lock(h, {ReservationRow(r)}) /\ UNCHANGED pend
           /\ Continue(h, "t_apply", [loc[h] EXCEPT !.target = target])
  <2> HIDE DEF target, r
  <2>1. /\ r = req[h].id
        /\ target = IF ReservationExpired(db.reservations[r])
                    THEN "expired" ELSE Target(req[h].op)
    BY DEF target, r
  <2> QED
    BY <1>1, <1>4, <2>1, UndecidedInv
<1> QED
  BY <1>2, <1>3, <1>4 DEF TransitionLock

\* After the writes of a transition the reservation and its children have the
\* new status.
LEMMA MovedChildren ==
    ASSUME NEW d, WellTyped(d), NEW r \in DOMAIN d.reservations, ChildrenOf(d, r),
           d.reservations[r].status = "reserved", NEW status \in Status,
           NEW w, WellTyped(w), Moves(d, w, r, status), NEW o, o = Overlay(w, d)
    PROVE  /\ WellTyped(o) /\ r \in DOMAIN o.reservations
           /\ o.reservations[r].status = status /\ ChildrenOf(o, r)
<1>1. WellTyped(o) /\ IsOverlay(o, w, d)
  BY OverlayRows, OverlayTyped
<1>2. d.reservations[r] \in Header /\ d.reservations[r].type \in {"quantity", "seats"}
  BY RowTypes DEF WellTyped
<1>3. /\ r \in DOMAIN o.reservations
      /\ o.reservations[r] = [d.reservations[r] EXCEPT !.status = status]
  BY <1>1 DEF IsOverlay, IsPatched, Moves
<1>4. /\ o.reservations[r].status = status
      /\ o.reservations[r].type = d.reservations[r].type
      /\ o.reservations[r].expires = d.reservations[r].expires
  BY <1>2, <1>3 DEF Header
<1>5. CASE d.reservations[r].type = "quantity"
  <2>1. /\ DOMAIN w.reservation_items = {r} /\ DOMAIN w.reservation_seats = {}
        /\ w.reservation_items[r] = [d.reservation_items[r] EXCEPT !.status = status]
        /\ r \in DOMAIN d.reservation_items
    BY <1>5 DEF Moves
  <2>2. d.reservation_items[r] \in Item
    BY <2>1 DEF WellTyped
  <2>3. w.reservation_items[r].status = status
    BY <2>1, <2>2 DEF Item
  <2>4. /\ r \in DOMAIN o.reservation_items /\ o.reservation_items[r].status = status
        /\ DOMAIN o.reservation_seats = DOMAIN d.reservation_seats
    BY <1>1, <2>1, <2>3 DEF IsOverlay, IsPatched
  <2>5. \A i \in DOMAIN d.reservation_seats : i[1] # r
    BY <1>5 DEF ChildrenOf
  <2> QED
    BY <1>1, <1>3, <1>4, <1>5, <2>4, <2>5 DEF ChildrenOf
<1>6. CASE d.reservations[r].type = "seats"
  <2>1. /\ r \notin DOMAIN d.reservation_items
        /\ \E i \in DOMAIN d.reservation_seats : i[1] = r
        /\ \A i \in DOMAIN d.reservation_seats : i[1] = r =>
              /\ d.reservation_seats[i].status = "reserved"
              /\ d.reservation_seats[i].expires = d.reservations[r].expires
    BY <1>6 DEF ChildrenOf
  <2>2. /\ DOMAIN w.reservation_items = {}
        /\ \A i : i \in DOMAIN w.reservation_seats <=> i \in DOMAIN d.reservation_seats /\ i[1] = r
        /\ \A i \in DOMAIN w.reservation_seats :
              w.reservation_seats[i] = [d.reservation_seats[i] EXCEPT !.status = status]
    BY <1>6, <2>1 DEF Moves
  <2>3. /\ r \notin DOMAIN o.reservation_items
        /\ DOMAIN o.reservation_seats = DOMAIN d.reservation_seats
        /\ \A i \in DOMAIN w.reservation_seats : o.reservation_seats[i] = w.reservation_seats[i]
    BY <1>1, <2>1, <2>2 DEF IsOverlay, IsPatched
  <2>4. \A i \in DOMAIN d.reservation_seats : d.reservation_seats[i] \in Hold
    BY DEF WellTyped
  <2>5. ASSUME NEW i \in DOMAIN o.reservation_seats, i[1] = r
        PROVE  /\ o.reservation_seats[i].status = status
               /\ o.reservation_seats[i].expires = d.reservations[r].expires
    <3>1. /\ o.reservation_seats[i] = [d.reservation_seats[i] EXCEPT !.status = status]
          /\ d.reservation_seats[i] \in Hold
      BY <2>2, <2>3, <2>4, <2>5
    <3> QED
      BY <2>1, <2>3, <2>5, <3>1 DEF Hold
  <2> QED
    BY <1>1, <1>3, <1>4, <1>6, <2>1, <2>3, <2>5 DEF ChildrenOf
<1> QED
  BY <1>2, <1>5, <1>6

\* A lifecycle transaction applies its transition.
LEMMA AppliedInv ==
    ASSUME Inv, NEW h \in Handlers, NEW r, r = req[h].id,
           pc[h] = "t_apply", ~InvariantBroken(View(h), r), StockBlockers(h, r) = {},
           NEW target, target = loc[h].target,
           NEW w, w = TransitionLocked(View(h), r, target),
           NEW code, code = (IF target = "expired" THEN Refusal(req[h].op) ELSE "OK"),
           NEW a, a = BuildReservationResponse(code, Overlay(w, View(h)), r),
           Write(h, w), Lock(h, {TicketRow(t) : t \in DOMAIN w.ticket_types}),
           Continue(h, "commit", [loc[h] EXCEPT !.answer = a])
    PROVE  Inv'
<1> USE HandlerFacts
<1> DEFINE l == [loc[h] EXCEPT !.answer = a]
           rows == locks[h] \cup {TicketRow(t) : t \in DOMAIN w.ticket_types}
           new == Overlay(w, pend[h])
           d == Overlay(w, db)
<1>1. /\ pend[h] = NoWrites /\ ~IsInvalid(req[h]) /\ req[h] \in Requests[h]
      /\ req[h].op \notin {"quantity", "seats", "get"} /\ Lifecycle(h)
      /\ HeaderLocked(h) /\ db.reservations[r].status = "reserved"
      /\ target \in {Target(req[h].op), "expired"}
      /\ target = "expired" => db.reservations[r].expires <= now
  BY DEF Closed, ReadLabels, HandlerInv, RequestFits, TransitionFits, Lifecycle
<1>2. View(h) = db
  BY <1>1, ViewRows DEF Inv
<1>3. target \in Final /\ target \in Status
  BY <1>1 DEF Target, Final, Status
<1>4. MayMove(h, r) /\ Moved(h) = {}
  BY <1>1, NothingWritten DEF MayMove, HeaderLocked, Visible, Created, Moved
<1>5. OwnStep(h, new, rows, "commit", l) /\ req' = req
  BY IsOwnStep DEF Write, Lock, Continue, Inv
<1>6. WellTyped(w) /\ WellTyped(new) /\ Adds(h, r, target, w, new)
  <2>1. new = Overlay(w, pend[h])
    OBVIOUS
  <2> HIDE DEF new
  <2> QED
    BY <1>3, <1>4, <2>1, MoveRows
<1>7. DOMAIN db.ticket_types = TicketTypes /\ r \in DOMAIN db.reservations /\ ChildrenOf(db, r)
  BY <1>4 DEF Inv, Types, Committed, MayMove
<1>8. Moves(db, w, r, target)
  BY <1>2, <1>3, <1>7, TransitionLockedRows
<1>9. /\ WellTyped(d) /\ r \in DOMAIN d.reservations
      /\ d.reservations[r].status = target /\ ChildrenOf(d, r)
  <2>1. d = Overlay(w, db)
    OBVIOUS
  <2> HIDE DEF d
  <2> QED
    BY <1>1, <1>3, <1>6, <1>7, <1>8, <2>1, MovedChildren
<1>10. ChildStatuses(d, r) = {target} /\ r \in ReservationIds
  <2> HIDE DEF d
  <2> QED
    BY <1>7, <1>9, OneStatus, RowTypes
<1>11. a = Answer(code, r, target, {target}) /\ code \in Codes
  <2>1. a = BuildReservationResponse(code, d, r)
    BY <1>2
  <2> HIDE DEF d
  <2> QED
    BY <1>9, <1>10, <2>1 DEF BuildReservationResponse, Codes, Refusal
<1>12. a.code = code /\ a.id = r /\ a.status = target /\ a.children = {target} /\ a \in AnswerType
  BY <1>3, <1>10, <1>11 DEF Answer, AnswerType
<1>13. l \in Locals /\ l.answer = a /\ l.expires = loc[h].expires
  BY <1>12 DEF Locals
<1> HIDE DEF l, new, d
<1>14. pc'[h] = "commit" /\ loc'[h] = l /\ pend'[h] = new /\ db' = db /\ locks'[h] = rows /\ now' = now
  BY <1>5 DEF OwnStep, Becomes
<1>15. /\ DOMAIN new.reservations = {r}
       /\ new.reservations[r] = [db.reservations[r] EXCEPT !.status = target]
       /\ new.reservations[r].status = target
       /\ new.reservations[r].session = db.reservations[r].session
       /\ new.reservations[r].user = db.reservations[r].user
  <2>1. db.reservations[r] \in Header
    BY <1>4, MayMoveReads
  <2>2. /\ DOMAIN new.reservations = {r}
        /\ new.reservations[r] = [db.reservations[r] EXCEPT !.status = target]
    BY <1>1, <1>6, NothingWritten DEF Adds
  <2> QED
    BY <2>1, <2>2 DEF Header
<1>16. View(h)' = Overlay(new, db)
  BY <1>14 DEF View
<1>17. /\ r \in DOMAIN Overlay(new, db).reservations
       /\ Overlay(new, db).reservations[r] = new.reservations[r]
  BY <1>15, OverlayRows DEF IsOverlay, IsPatched
<1>18. IsTransition(h, View(h), loc[h].answer)'
  <2>1. CanAccessReservation(new.reservations[r], req[h].session)
    BY <1>1, <1>15 DEF HeaderLocked, Visible, CanAccessReservation
  <2>2. code = IF target = Target(req[h].op) THEN "OK" ELSE Refusal(req[h].op)
    BY <1>1 DEF Target
  <2>3. req'[h] = req[h] /\ loc'[h].answer = a
    BY <1>5, <1>13, <1>14
  <2> QED
    BY <1>3, <1>12, <1>15, <1>16, <1>17, <2>1, <2>2, <2>3 DEF IsTransition
<1>19. AnswerFits(h)'
  <2>1. Lifecycle(h)'
    BY <1>1, <1>5 DEF Lifecycle
  <2> QED
    BY <1>14, <1>18, <2>1 DEF AnswerFits
<1>20. TransitionFits(h)'
  <2>1. HeaderLocked(h)'
    BY <1>1, <1>5, <1>14 DEF HeaderLocked, Visible
  <2> QED
    BY <1>1, <1>5, <1>14, <1>15, <2>1 DEF TransitionFits
<1>21. HandlerInv(h)'
  BY <1>1, <1>5, <1>14, <1>19, <1>20 DEF HandlerInv, RequestFits, QuantityFits, SeatsFit, ReplayFits
<1>22. rows = locks[h] \cup {TicketRow(t) : t \in DOMAIN w.ticket_types}
  OBVIOUS
<1>23. new = Overlay(w, pend[h])
  BY DEF new
<1> HIDE DEF rows
<1>24. /\ Writes(h)'
       /\ \A y \in DOMAIN new.reservations : MayWrite(h, y, new.reservations[y])
       /\ \A row \in rows \ locks[h] : Holders(h, row) = {}
  BY <1>3, <1>4, <1>5, <1>22, <1>23, MoveWrites
<1>25. Closed(h)'
  BY <1>13, <1>14 DEF Closed, TxLabels, ReadLabels
<1>26. ProcInv(h)'
  BY <1>21, <1>24, <1>25 DEF ProcInv
<1> QED
  BY <1>5, <1>6, <1>13, <1>24, <1>26, OwnStepInv DEF LabelFits, HandlerLabels

\* Confirm and cancel move header, children and stock together.
LEMMA TransitionApplyInv ==
    ASSUME Inv, NEW h \in Handlers, TransitionApply(h)
    PROVE  Inv'
<1> DEFINE r == req[h].id
           target == loc[h].target
           w == TransitionLocked(View(h), r, target)
           code == IF target = "expired" THEN Refusal(req[h].op) ELSE "OK"
           a == BuildReservationResponse(code, Overlay(w, View(h)), r)
<1>1. pc[h] = "t_apply" /\ StockBlockers(h, r) = {}
  <2>1. pc[h] = "t_apply" /\ Current(h) = r
    BY TxAssumption DEF TransitionApply, At, Current
  <2> QED
    BY <2>1, Unblocked DEF TransitionApply, At
<1>2. CASE Fail(h, "INCONSISTENT")
  BY <1>1, <1>2, FailInv DEF FailureCodes, Procs
<1>3. CASE /\ ~InvariantBroken(View(h), r)
           /\ Write(h, w) /\ Lock(h, {TicketRow(t) : t \in DOMAIN w.ticket_types})
           /\ Continue(h, "commit", [loc[h] EXCEPT !.answer = a])
  <2> HIDE DEF a, code, w, target, r
  <2>1. /\ a = BuildReservationResponse(code, Overlay(w, View(h)), r) /\ r = req[h].id
        /\ code = (IF target = "expired" THEN Refusal(req[h].op) ELSE "OK")
        /\ w = TransitionLocked(View(h), r, target) /\ target = loc[h].target
    BY DEF a, code, r, target, w
  <2> QED
    BY <1>1, <1>3, <2>1, AppliedInv
<1> QED
  BY <1>2, <1>3 DEF TransitionApply

\* GetReservation reads a header the caller may see.
LEMMA GetHeaderInv ==
    ASSUME Inv, NEW h \in Handlers, GetHeader(h)
    PROVE  Inv'
<1> USE HandlerFacts
<1> DEFINE r == req[h].id
           a == Answer("OK", r, db.reservations[r].status, {})
           l == [loc[h] EXCEPT !.answer = a]
<1>1. /\ pc[h] = "g_header" /\ pend[h] = NoWrites /\ locks[h] = {} /\ req[h].op = "get"
      /\ ~IsInvalid(req[h]) /\ req[h] \in Requests[h]
  BY DEF GetHeader, At, Closed, TxLabels, HandlerInv, RequestFits
<1>2. CASE Visible(h) /\ Read(h, "g_children", l)
  <2>1. /\ r \in DOMAIN db.reservations /\ CanAccessReservation(db.reservations[r], req[h].session)
        /\ r \in ReservationIds /\ db.reservations[r].status \in Status
    BY <1>2, RowTypes DEF Visible
  <2>2. /\ a.code = "OK" /\ a.id = r /\ a.status = db.reservations[r].status /\ a \in AnswerType
    BY <2>1 DEF Answer, AnswerType, Codes
  <2>3. OwnStep(h, NoWrites, {}, "g_children", l) /\ req' = req
    BY <1>1, <1>2, IsOwnStep DEF Read, Continue, Inv
  <2> HIDE DEF a
  <2>4. l \in Locals /\ l.answer = a /\ l.expires = loc[h].expires
    BY <2>2 DEF Locals
  <2> HIDE DEF l
  <2>5. pc'[h] = "g_children" /\ loc'[h] = l /\ db' = db
    BY <2>3 DEF OwnStep, Becomes
  <2>6. AnswerFits(h)'
    BY <2>1, <2>2, <2>3, <2>4, <2>5 DEF AnswerFits, IsShown
  <2>7. HandlerInv(h)'
    BY <1>1, <2>3, <2>5, <2>6
       DEF HandlerInv, RequestFits, QuantityFits, SeatsFit, ReplayFits, TransitionFits
  <2> QED
    BY <2>3, <2>4, <2>7, QuietStepInv DEF LabelFits, HandlerLabels, TxLabels
<1>3. CASE Fail(h, "NOT_FOUND")
  BY <1>1, <1>3, FailInv DEF FailureCodes
<1> QED
  BY <1>2, <1>3 DEF GetHeader

\* GetReservation reads the children later than the header.
LEMMA GetChildrenInv ==
    ASSUME Inv, NEW h \in Handlers, GetChildren(h)
    PROVE  Inv'
<1> USE HandlerFacts
<1> DEFINE r == req[h].id
           old == loc[h].answer
           a == [old EXCEPT !.children = ChildStatuses(db, r)]
<1>1. /\ pc[h] = "g_children" /\ req[h].op = "get" /\ IsShown(h, db, old) /\ old \in AnswerType
  BY DEF GetChildren, At, HandlerInv, RequestFits, AnswerFits, Locals
<1>2. r \in DOMAIN db.reservations /\ ChildrenOf(db, r)
  BY <1>1 DEF IsShown, Inv, Committed
<1>3. ChildStatuses(db, r) = {db.reservations[r].status} /\ db.reservations[r].status \in Status
  <2> HIDE DEF r
  <2> QED
    BY <1>2, OneStatus, RowTypes
<1>4. /\ a \in AnswerType /\ a.code = old.code /\ a.id = old.id /\ a.status = old.status
      /\ a.children = {db.reservations[r].status}
  BY <1>1, <1>3 DEF AnswerType
<1>5. Finish(h, a) /\ UNCHANGED <<db, pend, locks, now, req>>
  BY DEF GetChildren
<1> HIDE DEF a
<1>6. IsShown(h, db, a) /\ (a.status # "reserved" => a.children = {a.status})
  BY <1>1, <1>4 DEF IsShown
<1>7. pc[h] \notin TxLabels /\ pc[h] # "idle"
  BY <1>1 DEF TxLabels
<1> QED
  BY <1>1, <1>4, <1>5, <1>6, <1>7, AnswerInv

--------------------------------------------------------------------------------
(* The worker *)

\* What the invariant says of a worker.
LEMMA WorkerFacts ==
    ASSUME Inv, NEW w \in Workers
    PROVE  /\ w \in Procs /\ w \notin Handlers
           /\ loc[w] \in Locals /\ loc[w].expires \in Nat /\ now \in Nat
           /\ loc[w].expires <= now + TTL
           /\ DOMAIN pend = Procs /\ DOMAIN locks = Procs /\ DOMAIN pc = Procs
           /\ DOMAIN loc = Procs /\ DOMAIN req = Handlers /\ DOMAIN resp = Handlers
           /\ WellTyped(db) /\ WellTyped(pend[w]) /\ Writes(w) /\ Closed(w) /\ BatchFits(w)
<1>1. w \in Procs /\ w \notin Handlers
  BY TxAssumption DEF Procs
<1> QED
  BY <1>1, TxAssumption DEF Inv, Types, ProcInv, Closed, Locals

\* The reservation a worker handles next is one of its batch: the order of the
\* batch has a first element.
LEMMA CurrentIn ==
    ASSUME Inv, NEW w \in Workers, pc[w] = "w_apply"
    PROVE  Current(w) \in loc[w].todo
<1> DEFINE S == loc[w].todo
           Due(r) == db.reservations[r].expires
           E == {Due(r) : r \in S}
           F == {r \in S : Due(r) = Min(E)}
<1>1. S \subseteq Nat /\ S # {} /\ \A r \in S : r \in DOMAIN db.reservations
  BY WorkerFacts DEF BatchFits, Locals
<1>2. \A r \in S : Due(r) \in Nat
  BY <1>1, WorkerFacts, RowTypes
<1> HIDE DEF S, Due
<1>3. E \subseteq Nat /\ E # {}
  BY <1>1, <1>2
<1> HIDE DEF E
<1>4. Min(E) \in E /\ \A x \in E : Min(E) <= x
  BY <1>3, MinLeast
<1>5. F \subseteq Nat /\ F # {}
  BY <1>1, <1>4 DEF E
<1> HIDE DEF F
<1>6. Min(F) \in F /\ \A x \in F : Min(F) <= x
  BY <1>5, MinLeast
<1>7. ASSUME NEW o \in S \ {Min(F)} PROVE Earlier(Min(F), o)
  <2>1. Min(F) \in S /\ Due(Min(F)) = Min(E) /\ Due(o) \in Nat /\ o \in Nat /\ Min(E) \in Nat
        /\ Min(F) \in Nat
    BY <1>1, <1>2, <1>3, <1>4, <1>6 DEF F
  <2>2. Min(E) <= Due(o)
    BY <1>4 DEF E
  <2>3. Due(o) = Min(E) => Min(F) <= o
    BY <1>6 DEF F
  <2> QED
    BY <2>1, <2>2, <2>3 DEF Earlier, Due
<1>8. \E r \in S : \A o \in S \ {r} : Earlier(r, o)
  BY <1>6, <1>7 DEF F
<1> QED
  BY <1>8 DEF Current, S

\* A worker locks a batch of overdue reservations nobody else has locked.
LEMMA WorkerScanInv ==
    ASSUME Inv, NEW w \in Workers, WorkerScan(w)
    PROVE  Inv'
<1> USE WorkerFacts
<1> DEFINE batch == ListExpiredReservationsForUpdate(w)
           rows == locks[w] \cup {ReservationRow(r) : r \in batch}
           l == [loc[w] EXCEPT !.todo = batch]
<1>1. pc[w] = "idle" /\ pend[w] = NoWrites /\ locks[w] = {} /\ batch # {}
  BY DEF WorkerScan, Closed, TxLabels
<1>2. \A r \in batch : /\ r \in DOMAIN db.reservations
                       /\ db.reservations[r].status = "reserved"
                       /\ db.reservations[r].expires < now
                       /\ Holders(w, ReservationRow(r)) = {}
  BY DEF ListExpiredReservationsForUpdate
<1>3. OwnStep(w, NoWrites, rows, "w_apply", l)
  BY <1>1, IsOwnStep DEF WorkerScan, Lock, Continue, Inv
<1> HIDE DEF batch
<1>4. batch \subseteq Nat
  BY <1>2, RowTypes, TxAssumption
<1>5. l \in Locals /\ l.todo = batch /\ l.expires = loc[w].expires
  BY <1>4 DEF Locals
<1> HIDE DEF l
<1>6. /\ pc'[w] = "w_apply" /\ loc'[w] = l /\ pend'[w] = NoWrites /\ db' = db /\ now' = now
      /\ locks'[w] = rows
  BY <1>3 DEF OwnStep, Becomes
<1>7. BatchFits(w)'
  BY <1>1, <1>2, <1>5, <1>6, NothingWritten DEF BatchFits
<1>8. \A row \in rows \ locks[w] : Holders(w, row) = {}
  BY <1>2
<1> HIDE DEF rows
<1> QED
  BY <1>3, <1>5, <1>7, <1>8, QuietStepInv DEF LabelFits, WorkerLabels, TxLabels

\* A worker expires the next reservation of its batch.
LEMMA ExpiredInv ==
    ASSUME Inv, NEW p \in Workers, NEW r, r = Current(p),
           pc[p] = "w_apply", ~InvariantBroken(View(p), r), StockBlockers(p, r) = {},
           NEW w, w = TransitionLocked(View(p), r, "expired"),
           NEW rest, rest = loc[p].todo \ {r},
           NEW label, label = (IF rest = {} THEN "commit" ELSE "w_apply"),
           Write(p, w), Lock(p, {TicketRow(t) : t \in DOMAIN w.ticket_types}),
           Continue(p, label, [loc[p] EXCEPT !.todo = rest])
    PROVE  Inv'
<1> USE WorkerFacts
<1> DEFINE l == [loc[p] EXCEPT !.todo = rest]
           rows == locks[p] \cup {TicketRow(t) : t \in DOMAIN w.ticket_types}
           new == Overlay(w, pend[p])
<1>1. r \in loc[p].todo
  BY CurrentIn
<1>2. /\ r \in DOMAIN db.reservations /\ ReservationRow(r) \in locks[p]
      /\ db.reservations[r].status = "reserved" /\ db.reservations[r].expires < now
      /\ r \notin DOMAIN pend[p].reservations
      /\ DOMAIN pend[p].reservations \subseteq DOMAIN db.reservations
  BY <1>1 DEF BatchFits
<1>3. MayMove(p, r)
  BY <1>2 DEF MayMove, Created
<1>4. OwnStep(p, new, rows, label, l)
  BY IsOwnStep DEF Write, Lock, Continue, Inv
<1>5. l \in Locals /\ l.todo = rest /\ l.expires = loc[p].expires
  BY DEF Locals
<1> HIDE DEF l
<1>6. new = Overlay(w, pend[p])
  OBVIOUS
<1>7. rows = locks[p] \cup {TicketRow(t) : t \in DOMAIN w.ticket_types}
  OBVIOUS
<1>8. locks[p] \subseteq rows
  OBVIOUS
<1> HIDE DEF new, rows
<1>9. "expired" \in Final
  BY DEF Final
<1>10. WellTyped(new) /\ Adds(p, r, "expired", w, new)
  BY <1>3, <1>6, <1>9, MoveRows
<1>11. /\ Writes(p)'
       /\ \A y \in DOMAIN new.reservations : MayWrite(p, y, new.reservations[y])
       /\ \A row \in rows \ locks[p] : Holders(p, row) = {}
  BY <1>3, <1>4, <1>6, <1>7, <1>9, MoveWrites
<1>12. /\ pc'[p] = label /\ loc'[p] = l /\ pend'[p] = new /\ db' = db /\ locks'[p] = rows
       /\ now' = now /\ label \in {"commit", "w_apply"}
  BY <1>4 DEF OwnStep, Becomes
<1>13. Closed(p)'
  BY <1>5, <1>12 DEF Closed, TxLabels, ReadLabels
<1>14. /\ DOMAIN new.reservations = DOMAIN pend[p].reservations \cup {r}
       /\ \A y \in DOMAIN pend[p].reservations : new.reservations[y] = pend[p].reservations[y]
       /\ new.reservations[r].status = "expired"
  <2>1. db.reservations[r] \in Header
    BY <1>3, MayMoveReads
  <2> QED
    BY <1>10, <2>1 DEF Adds, Header
<1>15. BatchFits(p)'
  <2>1. ASSUME NEW y \in DOMAIN new.reservations
        PROVE  /\ y \in DOMAIN db.reservations /\ new.reservations[y].status = "expired"
               /\ db.reservations[y].expires < now
    <3>1. CASE y = r
      BY <1>2, <1>14, <3>1
    <3>2. CASE y \in DOMAIN pend[p].reservations
      BY <1>14, <3>2 DEF BatchFits
    <3> QED
      BY <1>14, <3>1, <3>2
  <2>2. ASSUME NEW y \in rest
        PROVE  /\ y \in DOMAIN db.reservations /\ ReservationRow(y) \in rows
               /\ db.reservations[y].status = "reserved" /\ db.reservations[y].expires < now
               /\ y \notin DOMAIN new.reservations
    BY <1>8, <1>14 DEF BatchFits
  <2> QED
    BY <1>5, <1>12, <1>14, <2>1, <2>2 DEF BatchFits
<1>16. ProcInv(p)'
  BY <1>11, <1>13, <1>15 DEF ProcInv
<1> QED
  BY <1>4, <1>5, <1>10, <1>11, <1>12, <1>16, OwnStepInv DEF LabelFits, WorkerLabels

\* A worker expires the first reservation left, or rolls its batch back.
LEMMA WorkerApplyInv ==
    ASSUME Inv, NEW w \in Workers, WorkerApply(w)
    PROVE  Inv'
<1> DEFINE r == Current(w)
           rest == loc[w].todo \ {r}
           writes == TransitionLocked(View(w), r, "expired")
           label == IF rest = {} THEN "commit" ELSE "w_apply"
<1>1. pc[w] = "w_apply" /\ StockBlockers(w, r) = {}
  BY Unblocked DEF WorkerApply, At
<1>2. CASE Fail(w, "INCONSISTENT")
  BY <1>1, <1>2, FailInv DEF FailureCodes, Procs
<1>3. CASE /\ ~InvariantBroken(View(w), r)
           /\ Write(w, writes) /\ Lock(w, {TicketRow(t) : t \in DOMAIN writes.ticket_types})
           /\ Continue(w, label, [loc[w] EXCEPT !.todo = rest])
  <2> HIDE DEF r, rest, writes, label
  <2>1. /\ r = Current(w) /\ rest = loc[w].todo \ {r}
        /\ writes = TransitionLocked(View(w), r, "expired")
        /\ label = (IF rest = {} THEN "commit" ELSE "w_apply")
    BY DEF r, rest, writes, label
  <2> QED
    BY <1>1, <1>3, <2>1, ExpiredInv
<1> QED
  BY <1>2, <1>3 DEF WorkerApply

\* SIGTERM rolls back what the worker was doing.
LEMMA ShutdownInv ==
    ASSUME Inv, NEW w \in Workers, Shutdown(w)
    PROVE  Inv'
<1> USE WorkerFacts
<1>1. EndStep(w, "down", NoAnswer)
  BY DEF EndStep, Becomes, Shutdown, EndTx, Goto
<1>2. db' = db /\ now' = now
  BY DEF Shutdown
<1>3. Committed' /\ \A o \in Procs : o # w => Unaffected(o)
  BY <1>2, NothingCommitted DEF Inv
<1>4. LabelFits(w, "down")
  BY DEF LabelFits, WorkerLabels
<1> QED
  BY <1>1, <1>2, <1>3, <1>4, EndStepInv DEF Inv, Types

\* A restarted worker has nothing open.
LEMMA StartInv ==
    ASSUME Inv, NEW w \in Workers, Start(w)
    PROVE  Inv'
<1> USE WorkerFacts
<1>1. pc[w] = "down" /\ pend[w] = NoWrites /\ locks[w] = {}
  BY DEF Start, Closed, TxLabels
<1>2. loc \in [Procs -> Locals]
  BY DEF Inv, Types
<1>3. OwnStep(w, NoWrites, {}, "idle", loc[w])
  BY <1>1, <1>2 DEF OwnStep, Becomes, Start, Goto
<1>4. pc'[w] = "idle" /\ pend'[w] = NoWrites
  BY <1>3 DEF OwnStep, Becomes
<1>5. BatchFits(w)'
  BY <1>4, NothingWritten DEF BatchFits
<1> QED
  BY <1>3, <1>5, QuietStepInv DEF LabelFits, WorkerLabels

--------------------------------------------------------------------------------
(* Commits, faults and time *)

\* A committed transaction ends with the answer that was computed under its
\* locks, or with none.
LEMMA CommittedInv ==
    ASSUME Inv, NEW p \in Procs, pc[p] = "commit", db' = View(p), EndTx(p),
           NEW a, a \in {loc[p].answer, Failure("FAILED")}, Finish(p, a),
           UNCHANGED <<now, req>>
    PROVE  Inv'
<1> DEFINE label == IF p \in Handlers THEN "done" ELSE "idle"
<1>1. /\ DOMAIN pend = Procs /\ DOMAIN locks = Procs /\ DOMAIN pc = Procs
      /\ DOMAIN req = Handlers /\ DOMAIN resp = Handlers
  BY DEF Inv, Types
<1>2. EndStep(p, label, a)
  BY <1>1 DEF EndStep, Becomes, EndTx, Finish, Goto
<1>3. LabelFits(p, label) /\ label \in {"idle", "done", "down"}
  BY TxAssumption DEF LabelFits, HandlerLabels, WorkerLabels
<1>4. WellTyped(db') /\ DOMAIN db'.ticket_types = TicketTypes /\ Committed'
  BY CommitWhole
<1>5. \A o \in Procs : o # p => Unaffected(o)
  BY CommitApart
<1>6. Failure("FAILED") \in AnswerType /\ IsFailure(Failure("FAILED"))
  <2>1. Failure("FAILED") = [code |-> "FAILED", id |-> 0, status |-> "none", children |-> {}]
    BY DEF Failure, NoAnswer
  <2> QED
    BY <2>1 DEF AnswerType, IsFailure, Codes, FailureCodes
<1>7. a \in AnswerType
  BY <1>6 DEF Inv, Types, Locals
<1>8. ASSUME p \in Handlers PROVE RequestFits(p)' /\ AnswerFits(p)'
  <2>1. pc'[p] = "done" /\ resp'[p] = a /\ req'[p] = req[p]
    BY <1>1, <1>8 DEF Finish, Goto
  <2>2. HandlerInv(p)
    BY <1>8 DEF Inv, ProcInv
  <2>3. RequestFits(p)'
    BY <2>1, <2>2 DEF HandlerInv, RequestFits
  <2>4. CASE IsFailure(a)
    BY <2>1, <2>3, <2>4 DEF AnswerFits
  <2>5. CASE a = loc[p].answer /\ Lifecycle(p)
    <3>1. IsTransition(p, View(p), a)
      BY <2>2, <2>5 DEF HandlerInv, AnswerFits
    <3>2. IsTransition(p, db, resp[p])'
      BY <2>1, <3>1 DEF IsTransition
    <3> QED
      BY <2>1, <2>3, <2>5, <3>2 DEF AnswerFits, Lifecycle
  <2>6. CASE a = loc[p].answer /\ ~Lifecycle(p)
    <3>1. IsOwn(p, View(p), a) /\ req[p].op \in {"quantity", "seats"}
      BY <2>2, <2>6 DEF HandlerInv, AnswerFits, Lifecycle, RequestFits
    <3>2. IsOwn(p, db, resp[p])'
      BY <2>1, <3>1 DEF IsOwn
    <3> QED
      BY <2>1, <2>3, <3>1, <3>2 DEF AnswerFits
  <2> QED
    BY <1>6, <2>4, <2>5, <2>6
<1> HIDE DEF label
<1> QED
  BY <1>2, <1>3, <1>4, <1>5, <1>7, <1>8, EndStepInv DEF Inv, Types

\* A commit publishes what was written, whether or not the client hears of it.
LEMMA CommitInv ==
    ASSUME Inv, NEW p \in Procs, Commit(p) \/ CommitLost(p)
    PROVE  Inv'
<1>1. CASE Commit(p)
  <2> DEFINE a == loc[p].answer
  <2>1. a \in {loc[p].answer, Failure("FAILED")} /\ Finish(p, a)
    BY <1>1 DEF Commit
  <2> HIDE DEF a
  <2> QED
    BY <1>1, <2>1, CommittedInv DEF Commit
<1>2. CASE CommitLost(p)
  <2> DEFINE a == Failure("FAILED")
  <2>1. a \in {loc[p].answer, Failure("FAILED")} /\ Finish(p, a)
    BY <1>2 DEF CommitLost
  <2> HIDE DEF a
  <2> QED
    BY <1>2, <2>1, CommittedInv DEF CommitLost
<1> QED
  BY <1>1, <1>2

\* A broken connection or a deadlock rolls back.
LEMMA AbortInv ==
    ASSUME Inv, NEW p \in Procs, Interrupt(p) \/ DeadlockAbort(p)
    PROVE  Inv'
<1>1. pc[p] # "idle" /\ Fail(p, "FAILED")
  BY DEF Interrupt, DeadlockAbort, InWaitCycle, Blockers
<1> QED
  BY <1>1, FailInv DEF FailureCodes

\* Time passing, and nothing happening.
LEMMA TimeInv ==
    ASSUME Inv, UNCHANGED <<db, pend, locks, pc, req, loc, resp>>, now <= now', now' \in 0..MaxTime
    PROVE  Inv'
<1>1. Types'
  BY DEF Inv, Types
<1>2. ASSUME NEW o \in Procs PROVE Unaffected(o) /\ Committed'
  BY NothingCommitted DEF Inv
<1>3. Committed'
  BY DEF Inv, Committed, ChildrenOf
<1>4. ASSUME NEW o \in Procs PROVE Bystander(o)
  BY <1>1, <1>2, <1>3 DEF Bystander, Quiet, Inv
<1>5. ASSUME NEW p \in Procs, NEW o \in Procs, p # o PROVE Apart(p, o)'
  BY <1>5 DEF Inv, Apart, Created
<1> QED
  BY <1>1, <1>3, <1>4, <1>5, BystanderInv DEF Inv

--------------------------------------------------------------------------------
(* The invariant holds *)

\* The invariant holds of the empty service.
LEMMA InitInv == Init => Inv
<1> SUFFICES ASSUME Init PROVE Inv
  OBVIOUS
<1> DEFINE rows == [t \in TicketTypes |-> [sold |-> 0, reserved |-> 0]]
<1>1. rows \in [TicketTypes -> Ticket]
  BY DEF Ticket
<1>2. db = WriteTickets(rows)
  BY DEF Init, WriteTickets
<1> HIDE DEF rows
<1>3. DOMAIN rows = TicketTypes /\ rows \in [DOMAIN rows -> Ticket]
  BY <1>1
<1>4. /\ WellTyped(db) /\ DOMAIN db.ticket_types = TicketTypes /\ DOMAIN db.reservations = {}
      /\ DOMAIN db.reservation_items = {} /\ DOMAIN db.reservation_seats = {}
  BY <1>2, <1>3, TicketWrites
<1>5. NoAnswer \in AnswerType
  BY DEF NoAnswer, AnswerType, Codes, FailureCodes
<1>6. NoLocals \in Locals /\ NoLocals.expires = 0
  BY <1>5 DEF NoLocals, Locals
<1>7. Types
  <2>1. \A p \in Procs : WellTyped(pend[p])
    BY NothingWritten DEF Init
  <2> QED
    BY <1>4, <1>5, <1>6, <2>1, TxAssumption DEF Types, Init, HandlerLabels, WorkerLabels, Procs
<1>8. Committed
  BY <1>4 DEF Committed
<1>9. ASSUME NEW p \in Procs
      PROVE  /\ pend[p] = NoWrites /\ locks[p] = {} /\ pc[p] = "idle" /\ loc[p] = NoLocals
             /\ DOMAIN pend[p].reservations = {} /\ Created(p) = {} /\ Moved(p) = {}
  BY NothingWritten DEF Init, Created, Moved
<1>10. ASSUME NEW p \in Procs PROVE ProcInv(p)
  <2>1. Writes(p)
    BY <1>9, NothingWritten
       DEF Writes, MovedRows, CreatedRows, ItemRows, SeatRows, TicketRows, CreatedWhole
  <2>2. Closed(p)
    BY <1>6, <1>9, TxAssumption DEF Closed, ReadLabels, Init
  <2>3. p \in Handlers => HandlerInv(p)
    BY <1>9 DEF HandlerInv, RequestFits, QuantityFits, SeatsFit, ReplayFits, TransitionFits,
                AnswerFits
  <2>4. p \in Workers => BatchFits(p)
    BY <1>9 DEF BatchFits
  <2> QED
    BY <2>1, <2>2, <2>3, <2>4 DEF ProcInv
<1>11. ASSUME NEW p \in Procs, NEW o \in Procs PROVE Apart(p, o)
  BY <1>9 DEF Apart
<1> QED
  BY <1>7, <1>8, <1>10, <1>11 DEF Inv

\* Every statement of a request keeps the invariant.
LEMMA HandlerStepInv ==
    ASSUME Inv, NEW h \in Handlers, HandlerStep(h)
    PROVE  Inv'
BY BeginRequestInv, QuantityLookupInv, QuantityUpdateInv, QuantityHeaderInv, QuantityReplayInv,
   SeatLookupInv, SeatLockInv, SeatListInv, SeatExpireInv, SeatHeaderInv, SeatInsertInv,
   SeatReplayInv, TransitionLockInv, TransitionApplyInv, GetHeaderInv, GetChildrenInv
   DEF HandlerStep

\* Every step keeps the invariant.
LEMMA NextInv ==
    ASSUME Inv, [Next]_vars
    PROVE  Inv'
<1>1. ASSUME NEW h \in Handlers, HandlerStep(h) PROVE Inv'
  BY <1>1, HandlerStepInv
<1>2. ASSUME NEW w \in Workers, WorkerStep(w) \/ Shutdown(w) PROVE Inv'
  BY <1>2, WorkerScanInv, WorkerApplyInv, StartInv, ShutdownInv DEF WorkerStep
<1>3. ASSUME NEW p \in Procs, \/ Commit(p) \/ CommitLost(p)
                              \/ DeadlockAbort(p) \/ Interrupt(p)
      PROVE  Inv'
  BY <1>3, CommitInv, AbortInv
<1>4. CASE Tick
  BY <1>4, TimeInv, TxAssumption DEF Tick, Inv, Types
<1>5. CASE UNCHANGED vars
  BY <1>5, TimeInv, TxAssumption DEF vars, Inv, Types
<1> QED
  BY <1>1, <1>2, <1>3, <1>4, <1>5 DEF Next, AllQuiet

\* Every reachable state of the reservation service satisfies the invariant:
\* what each open transaction has written agrees with the committed tables and is
\* covered by its locks, and no two transactions overlap.
THEOREM Invariance == Spec => []Inv
<1>1. Init => Inv
  BY InitInv
<1>2. Inv /\ [Next]_vars => Inv'
  BY NextInv
<1> QED
  BY <1>1, <1>2, PTL DEF Spec

--------------------------------------------------------------------------------
(* What follows from the invariant in every state *)

\* The tables, the open transactions and the program counters of the service
\* have their types, rows are written and locked only inside a transaction, and
\* children never precede their header, for every inventory and every request.
THEOREM TypeCorrect == Spec => []TypeOK
<1>1. Inv => TypeOK
  <2> SUFFICES ASSUME Inv PROVE TypeOK
    OBVIOUS
  <2>1. /\ now \in 0..MaxTime /\ DOMAIN db.ticket_types = TicketTypes
        /\ DOMAIN db.reservations \subseteq ReservationIds
        /\ DOMAIN db.reservation_items \subseteq DOMAIN db.reservations
    BY DEF Inv, Types, WellTyped, Committed
  <2>2. \A i \in DOMAIN db.reservation_seats :
           i[1] \in DOMAIN db.reservations /\ i[2] \in Seats
    BY RowTypes DEF Inv, Types, Committed
  <2>3. \A p \in Procs :
           /\ pc[p] \in TxLabels \cup {"idle", "done", "down", "q_replay", "s_replay",
                                       "g_header", "g_children"}
           /\ pc[p] \notin TxLabels => pend[p] = NoWrites /\ locks[p] = {}
    BY DEF Inv, Types, ProcInv, Closed, Procs, TxLabels, HandlerLabels, WorkerLabels
  <2> QED
    BY <2>1, <2>2, <2>3 DEF TypeOK
<1> QED
  BY <1>1, Invariance, PTL

\* Header and children of a committed reservation agree whatever the requests,
\* the worker batches and the faults interleave: every transition writes both
\* tables under the lock of the header.
THEOREM ChildrenAlwaysAgree == Spec => []ChildrenAgree
<1>1. Inv => ChildrenAgree
  <2> SUFFICES ASSUME Inv, NEW r \in DOMAIN db.reservations
               PROVE  /\ ChildStatuses(db, r) = {db.reservations[r].status}
                      /\ \A i \in SeatRowsOf(db, {r}) :
                            db.reservation_seats[i].expires = db.reservations[r].expires
    BY DEF ChildrenAgree
  <2>1. WellTyped(db) /\ ChildrenOf(db, r)
    BY DEF Inv, Types, Committed
  <2>2. ChildStatuses(db, r) = {db.reservations[r].status}
    BY <2>1, OneStatus
  <2>3. \A i \in SeatRowsOf(db, {r}) :
           db.reservation_seats[i].expires = db.reservations[r].expires
    BY <2>1 DEF ChildrenOf, SeatRowsOf
  <2> QED
    BY <2>2, <2>3
<1> QED
  BY <1>1, Invariance, PTL

\* What the invariant says of a handler that has answered.
LEMMA AnswerKinds ==
    ASSUME Inv, NEW h \in Handlers, pc[h] = "done"
    PROVE  \/ IsFailure(resp[h])
           \/ req[h].op \in {"quantity", "seats"} /\ IsOwn(h, db, resp[h])
           \/ /\ req[h].op = "get" /\ IsShown(h, db, resp[h])
              /\ resp[h].status # "reserved" => resp[h].children = {resp[h].status}
           \/ Lifecycle(h) /\ IsTransition(h, db, resp[h])
BY HandlerFacts DEF HandlerInv, AnswerFits

\* No answer is ever taken back: an acknowledged confirmation or cancellation is
\* committed and never undone, a refusal was final when it was given, and a
\* created reservation is committed under the caller's session and key.
THEOREM AnswersAlwaysTrue == Spec => []AnswersStayTrue
<1>1. Inv => AnswersStayTrue
  <2> SUFFICES ASSUME Inv, NEW h \in Handlers, pc[h] = "done"
               PROVE  LET status == db.reservations[resp[h].id].status
                          op == req[h].op
                          code == resp[h].code
                      IN  /\ op = "confirm" /\ code = "OK" => status = "confirmed"
                          /\ op = "cancel" /\ code = "OK" => status = "cancelled"
                          /\ op = "confirm" /\ code = "CANNOT_BE_CONFIRMED" =>
                                status \in {"cancelled", "expired"}
                          /\ op = "cancel" /\ code = "CANNOT_BE_CANCELLED" =>
                                status \in {"confirmed", "expired"}
                          /\ \A type \in {"quantity", "seats"} : op = type /\ code = "OK" =>
                                /\ resp[h].id \in DOMAIN db.reservations
                                /\ db.reservations[resp[h].id].session = req[h].session
                                /\ db.reservations[resp[h].id].key = req[h].key
                                /\ db.reservations[resp[h].id].type = type
    BY DEF AnswersStayTrue, Answered
  <2>1. CASE IsFailure(resp[h])
    BY <2>1 DEF IsFailure, FailureCodes
  <2>2. CASE req[h].op \in {"quantity", "seats"} /\ IsOwn(h, db, resp[h])
    BY <2>2 DEF IsOwn
  <2>3. CASE req[h].op = "get"
    BY <2>3
  <2>4. CASE Lifecycle(h) /\ IsTransition(h, db, resp[h])
    BY <2>4 DEF IsTransition, Lifecycle, Target, Refusal, Final
  <2> QED
    BY <2>1, <2>2, <2>3, <2>4, AnswerKinds
<1> QED
  BY <1>1, Invariance, PTL

\* Every reservation an answer shows belongs to the caller or to another session
\* of the same user, and the children it lists have the status it shows, unless
\* GetReservation read the header while it was still reserved.
THEOREM AnswersAlwaysCoherent == Spec => []AnswersCoherent
<1>1. Inv => AnswersCoherent
  <2> SUFFICES ASSUME Inv, NEW h \in Handlers, pc[h] = "done", resp[h].status # "none"
               PROVE  LET owner == db.reservations[resp[h].id].session
                      IN  /\ \/ owner = req[h].session
                             \/ UserOf[owner] # NoUser /\ UserOf[owner] = UserOf[req[h].session]
                          /\ \/ resp[h].children = {resp[h].status}
                             \/ req[h].op = "get" /\ resp[h].status = "reserved"
    BY DEF AnswersCoherent
  <2>1. CASE IsFailure(resp[h])
    BY <2>1 DEF IsFailure
  <2>2. CASE IsOwn(h, db, resp[h])
    BY <2>2 DEF IsOwn
  <2>3. ASSUME resp[h].id \in DOMAIN db.reservations,
               CanAccessReservation(db.reservations[resp[h].id], req[h].session)
        PROVE  LET owner == db.reservations[resp[h].id].session
               IN  \/ owner = req[h].session
                   \/ UserOf[owner] # NoUser /\ UserOf[owner] = UserOf[req[h].session]
    BY <2>3 DEF CanAccessReservation, Inv, Committed
  <2>4. CASE /\ req[h].op = "get" /\ IsShown(h, db, resp[h])
             /\ resp[h].status # "reserved" => resp[h].children = {resp[h].status}
    BY <2>3, <2>4 DEF IsShown
  <2>5. CASE IsTransition(h, db, resp[h])
    BY <2>3, <2>5 DEF IsTransition
  <2> QED
    BY <2>1, <2>2, <2>4, <2>5, AnswerKinds
<1> QED
  BY <1>1, Invariance, PTL

--------------------------------------------------------------------------------
(* What a step may answer *)

\* The codes of refusals that need a reason in the tables.
Refusals == {"SEAT_UNAVAILABLE", "IDEMPOTENCY_KEY_CONFLICT"}

\* h ends a call that is refused for a taken seat or a used key.
Refused(h, code) ==
    \/ code = "SEAT_UNAVAILABLE" /\ pc[h] = "s_insert" /\ IsTaken(View(h), NextId(h))
    \/ /\ code = "IDEMPOTENCY_KEY_CONFLICT" /\ pc[h] = "q_replay"
       /\ GetQuantityReservationByIdempotencyKey(db, req[h].session, req[h].key) = {}
    \/ /\ code = "IDEMPOTENCY_KEY_CONFLICT" /\ pc[h] = "s_replay"
       /\ GetSeatReservationByIdempotencyKey(db, req[h].session, req[h].key) = {}

\* A step that goes on answers nothing.
LEMMA GoesOn ==
    ASSUME Inv, NEW h \in Handlers, NEW code, Answers(h, code), NEW p, NEW label,
           label # "done"
    PROVE  ~Goto(p, label)
BY HandlerFacts DEF Goto, Answers

\* Only the process that ends its call answers, and with the answer given.
LEMMA EndsWith ==
    ASSUME Inv, NEW h \in Handlers, NEW code, Answers(h, code), NEW p, NEW a, Finish(p, a)
    PROVE  p = h /\ a.code = code
BY HandlerFacts, GoesOn DEF Finish, Goto, Answers

\* A rollback answers with its code.
LEMMA FailsWith ==
    ASSUME Inv, NEW h \in Handlers, NEW code, Answers(h, code), NEW p, NEW c, Fail(p, c)
    PROVE  p = h /\ c = code
<1>1. Failure(c).code = c
  BY DEF Failure, NoAnswer
<1> QED
  BY <1>1, EndsWith DEF Fail

\* The answer of a transaction that commits is no refusal.
LEMMA CommitsWith ==
    ASSUME Inv, NEW h \in Handlers, pc[h] = "commit"
    PROVE  loc[h].answer.code \notin Refusals
BY HandlerFacts DEF HandlerInv, AnswerFits, IsTransition, IsOwn, Refusals, Refusal

\* A seat is refused only by the INSERT that finds it taken, and a key only by a
\* replay that finds no reservation of the type.
LEMMA RefusalSteps ==
    ASSUME Inv, Next, NEW h \in Handlers, NEW code \in Refusals, Answers(h, code)
    PROVE  Refused(h, code)
<1> USE GoesOn, EndsWith, FailsWith DEF Refusals
<1>1. ASSUME NEW p \in Handlers, HandlerStep(p) PROVE Refused(h, code)
  <2>1. CASE BeginRequest(p)
    <3>1. Failure("INVALID").code = "INVALID"
      BY DEF Failure, NoAnswer
    <3>2. \A op : FirstStatement(op) # "done"
      BY DEF FirstStatement
    <3> QED
      BY <2>1, <3>1, <3>2 DEF BeginRequest
  <2>2. CASE QuantityLookup(p)
    BY <2>2 DEF QuantityLookup, Read, Continue
  <2>3. CASE QuantityUpdate(p)
    BY <2>3 DEF QuantityUpdate, Continue
  <2>4. CASE QuantityHeader(p)
    BY <2>4 DEF QuantityHeader, Continue
  <2>5. ASSUME NEW found, Replay(p, found), found \subseteq DOMAIN db.reservations
        PROVE  p = h /\ code = "IDEMPOTENCY_KEY_CONFLICT" /\ found = {}
    <3>1. Failure("IDEMPOTENCY_KEY_CONFLICT").code = "IDEMPOTENCY_KEY_CONFLICT"
      BY DEF Failure, NoAnswer
    <3>2. \A r : BuildReservationResponse("OK", db, r).code = "OK"
      BY DEF BuildReservationResponse, Answer
    <3> QED
      BY <2>5, <3>1, <3>2 DEF Replay
  <2>6. CASE QuantityReplay(p)
    <3> DEFINE found == GetQuantityReservationByIdempotencyKey(db, req[p].session, req[p].key)
    <3>1. Replay(p, found) /\ pc[p] = "q_replay" /\ found \subseteq DOMAIN db.reservations
      BY <2>6 DEF QuantityReplay, At, GetQuantityReservationByIdempotencyKey
    <3> HIDE DEF found
    <3>2. p = h /\ code = "IDEMPOTENCY_KEY_CONFLICT" /\ found = {}
      BY <2>5, <3>1
    <3> QED
      BY <3>1, <3>2 DEF Refused, found
  <2>7. CASE SeatLookup(p)
    BY <2>7 DEF SeatLookup, Read, Continue
  <2>8. CASE SeatLock(p)
    BY <2>8 DEF SeatLock, Continue
  <2>9. CASE SeatList(p)
    BY <2>9 DEF SeatList, Read, Continue
  <2>10. CASE SeatExpire(p)
    BY <2>10 DEF SeatExpire, Continue
  <2>11. CASE SeatHeader(p)
    BY <2>11 DEF SeatHeader, Continue
  <2>12. CASE SeatInsert(p)
    BY <2>12 DEF SeatInsert, At, Continue, Refused
  <2>13. CASE SeatReplay(p)
    <3> DEFINE found == GetSeatReservationByIdempotencyKey(db, req[p].session, req[p].key)
    <3>1. Replay(p, found) /\ pc[p] = "s_replay" /\ found \subseteq DOMAIN db.reservations
      BY <2>13 DEF SeatReplay, At, GetSeatReservationByIdempotencyKey
    <3> HIDE DEF found
    <3>2. p = h /\ code = "IDEMPOTENCY_KEY_CONFLICT" /\ found = {}
      BY <2>5, <3>1
    <3> QED
      BY <3>1, <3>2 DEF Refused, found
  <2>14. CASE TransitionLock(p)
    BY <2>14 DEF TransitionLock, Continue
  <2>15. CASE TransitionApply(p)
    BY <2>15 DEF TransitionApply, Continue
  <2>16. CASE GetHeader(p)
    BY <2>16 DEF GetHeader, Read, Continue
  <2>17. CASE GetChildren(p)
    <3> DEFINE a == [loc[p].answer EXCEPT !.children = ChildStatuses(db, req[p].id)]
    <3>1. pc[p] = "g_children" /\ Finish(p, a)
      BY <2>17 DEF GetChildren, At
    <3>2. loc[p].answer \in AnswerType /\ loc[p].answer.code = "OK"
      BY <3>1, HandlerFacts DEF HandlerInv, AnswerFits, IsShown, Locals
    <3>3. a.code = "OK"
      BY <3>2 DEF AnswerType
    <3> HIDE DEF a
    <3> QED
      BY <3>1, <3>3
  <2> QED
    BY <1>1, <2>1, <2>2, <2>3, <2>4, <2>6, <2>7, <2>8, <2>9, <2>10, <2>11, <2>12, <2>13,
       <2>14, <2>15, <2>16, <2>17 DEF HandlerStep
<1>2. ASSUME NEW w \in Workers, WorkerStep(w) \/ Shutdown(w) PROVE Refused(h, code)
  <2>1. w # h
    BY TxAssumption
  <2>2. CASE WorkerScan(w)
    BY <2>2 DEF WorkerScan, Continue
  <2>3. CASE WorkerApply(w)
    BY <2>1, <2>3 DEF WorkerApply, Continue
  <2>4. CASE Start(w)
    BY <2>4 DEF Start
  <2>5. CASE Shutdown(w)
    BY <2>5 DEF Shutdown
  <2> QED
    BY <1>2, <2>2, <2>3, <2>4, <2>5 DEF WorkerStep
<1>3. ASSUME NEW p \in Procs, Commit(p) \/ DeadlockAbort(p) \/ CommitLost(p) \/ Interrupt(p)
      PROVE  Refused(h, code)
  <2>1. CASE Commit(p)
    <3>1. Finish(p, loc[p].answer) /\ pc[p] = "commit"
      BY <2>1 DEF Commit
    <3>2. p = h /\ loc[p].answer.code = code
      BY <3>1
    <3> QED
      BY <3>1, <3>2, CommitsWith
  <2>2. CASE DeadlockAbort(p)
    BY <2>2 DEF DeadlockAbort
  <2>3. CASE CommitLost(p)
    <3>1. Failure("FAILED").code = "FAILED"
      BY DEF Failure, NoAnswer
    <3> QED
      BY <2>3, <3>1 DEF CommitLost
  <2>4. CASE Interrupt(p)
    BY <2>4 DEF Interrupt
  <2> QED
    BY <1>3, <2>1, <2>2, <2>3, <2>4
<1>4. CASE Tick
  BY <1>4 DEF Tick, Answers
<1>5. CASE AllQuiet
  BY <1>5 DEF AllQuiet, vars, Answers
<1> QED
  BY <1>1, <1>2, <1>3, <1>4, <1>5 DEF Next

\* A seat request that reaches its INSERTs has the key to itself.
LEMMA KeyIsNew ==
    ASSUME Inv, NEW h \in Handlers, pc[h] = "s_insert"
    PROVE  IsFree(db, req[h].session, req[h].key)
<1>1. HoldsCreated(h) /\ CreatedRows(h)
  BY HandlerFacts DEF HandlerInv, SeatsFit, Writes
<1> QED
  BY <1>1 DEF HoldsCreated, CreatedRows, IsHeaderOf

\* A seat retry is never refused for the seats of its own reservation, and a key
\* is refused only when a reservation of the other type has it.
THEOREM KeysAnsweredRight == Spec => KeyAnswersAreRight
<1> DEFINE A == \A h \in Handlers : req[h] # NoRows =>
                  /\ Answers(h, "SEAT_UNAVAILABLE") => Previous(h, "seats") = {}
                  /\ Answers(h, "IDEMPOTENCY_KEY_CONFLICT") =>
                        Previous(h, IF req[h].op = "seats" THEN "quantity" ELSE "seats") # {}
<1>1. ASSUME Inv, [Next]_vars PROVE [A]_vars
  <2> SUFFICES ASSUME Next PROVE A
    BY <1>1
  <2>1. ASSUME NEW h \in Handlers, Answers(h, "SEAT_UNAVAILABLE")
        PROVE  Previous(h, "seats") = {}
    <3>1. pc[h] = "s_insert"
      BY <1>1, <2>1, RefusalSteps DEF Refusals, Refused
    <3> QED
      BY <1>1, <3>1, KeyIsNew DEF IsFree, Previous
  <2>2. ASSUME NEW h \in Handlers, Answers(h, "IDEMPOTENCY_KEY_CONFLICT")
        PROVE  Previous(h, IF req[h].op = "seats" THEN "quantity" ELSE "seats") # {}
    <3>1. Refused(h, "IDEMPOTENCY_KEY_CONFLICT") /\ pc[h] \in {"q_replay", "s_replay"}
      BY <1>1, <2>2, RefusalSteps DEF Refusals, Refused
    <3>2. ~IsFree(db, req[h].session, req[h].key)
      BY <1>1, <3>1, HandlerFacts DEF HandlerInv, ReplayFits
    <3>3. PICK r \in DOMAIN db.reservations :
             db.reservations[r].session = req[h].session /\ db.reservations[r].key = req[h].key
      BY <3>2 DEF IsFree
    <3>4. db.reservations[r].type \in {"quantity", "seats"} /\ ChildrenOf(db, r)
      BY <1>1, RowTypes DEF Inv, Types, Committed
    <3>5. CASE pc[h] = "q_replay"
      <4>1. /\ req[h].op = "quantity"
            /\ GetQuantityReservationByIdempotencyKey(db, req[h].session, req[h].key) = {}
        BY <1>1, <3>1, <3>5, HandlerFacts DEF Refused, HandlerInv, RequestFits
      <4>2. db.reservations[r].type = "seats"
        BY <3>3, <3>4, <4>1 DEF GetQuantityReservationByIdempotencyKey, ChildrenOf
      <4> QED
        BY <3>3, <4>1, <4>2 DEF Previous
    <3>6. CASE pc[h] = "s_replay"
      <4>1. /\ req[h].op = "seats"
            /\ GetSeatReservationByIdempotencyKey(db, req[h].session, req[h].key) = {}
        BY <1>1, <3>1, <3>6, HandlerFacts DEF Refused, HandlerInv, RequestFits
      <4>2. db.reservations[r].type = "quantity"
        BY <3>3, <3>4, <4>1 DEF GetSeatReservationByIdempotencyKey, ChildrenOf
      <4> QED
        BY <3>3, <4>1, <4>2 DEF Previous
    <3> QED
      BY <3>1, <3>5, <3>6
  <2> QED
    BY <2>1, <2>2
<1>2. Spec => [][A]_vars
  <2>1. Inv /\ [Next]_vars => [A]_vars
    BY <1>1
  <2> HIDE DEF A
  <2> QED
    BY <2>1, Invariance, PTL DEF Spec
<1> QED
  BY <1>2 DEF KeyAnswersAreRight

\* A seat that is refused is confirmed, or held by a reservation that was still
\* running when the request arrived: expired holds never stand in the way.
THEOREM SeatRefusalsAreJust == Spec => SeatRefusalIsJust
<1> DEFINE A == \A h \in Handlers : (req[h] # NoRows /\ Answers(h, "SEAT_UNAVAILABLE")) =>
                  \E i \in DOMAIN db.reservation_seats :
                      /\ i[2] \in Range(req[h].seats)
                      /\ \/ db.reservation_seats[i].status = "confirmed"
                         \/ /\ db.reservation_seats[i].status = "reserved"
                            /\ db.reservation_seats[i].expires > loc[h].expires - TTL
<1>1. ASSUME Inv, [Next]_vars PROVE [A]_vars
  <2> SUFFICES ASSUME Next, NEW h \in Handlers, Answers(h, "SEAT_UNAVAILABLE")
               PROVE  \E i \in DOMAIN db.reservation_seats :
                         /\ i[2] \in Wanted(h)
                         /\ \/ db.reservation_seats[i].status = "confirmed"
                            \/ /\ db.reservation_seats[i].status = "reserved"
                               /\ db.reservation_seats[i].expires > loc[h].expires - TTL
    BY <1>1 DEF Wanted
  <2> DEFINE s == NextId(h)
             r == loc[h].answer.id
  <2>1. pc[h] = "s_insert" /\ IsTaken(View(h), s)
    BY <1>1, RefusalSteps DEF Refusals, Refused
  <2>2. HoldsCreated(h) /\ loc[h].todo # {} /\ Writes(h)
    BY <1>1, <2>1, HandlerFacts DEF HandlerInv, SeatsFit
  <2>3. s \in loc[h].todo /\ s \in Wanted(h) /\ s \in Seats
    BY <1>1, <2>2, NextIdIn DEF HoldsCreated, HoldsExpired, SeatsLocked
  <2>4. PICK i \in DOMAIN View(h).reservation_seats :
           i[2] = s /\ View(h).reservation_seats[i].status \in {"reserved", "confirmed"}
    BY <2>1 DEF IsTaken
  <2>5. WellTyped(View(h)) /\ IsOverlay(View(h), pend[h], db) /\ WellTyped(pend[h])
    BY <1>1, HandlerFacts, ViewRows DEF Inv
  <2>6. i \notin DOMAIN pend[h].reservation_seats
    <3> SUFFICES ASSUME i \in DOMAIN pend[h].reservation_seats PROVE FALSE
      OBVIOUS
    <3>1. /\ i[1] \in DOMAIN pend[h].reservations
          /\ pend[h].reservation_seats[i].status = pend[h].reservations[i[1]].status
          /\ View(h).reservation_seats[i] = pend[h].reservation_seats[i]
          /\ i = <<i[1], s>>
      BY <2>2, <2>4, <2>5, RowTypes DEF Writes, SeatRows, IsOverlay, IsPatched
    <3>2. i[1] \notin Moved(h)
      BY <2>2, <2>4, <3>1 DEF HoldsCreated, HoldsExpired
    <3>3. i[1] = r
      BY <2>2, <3>1, <3>2 DEF HoldsCreated, Moved, Created
    <3> QED
      BY <2>2, <2>3, <3>1, <3>3 DEF HoldsCreated
  <2>7. /\ i \in DOMAIN db.reservation_seats
        /\ db.reservation_seats[i].status \in {"reserved", "confirmed"}
    BY <2>4, <2>5, <2>6 DEF IsOverlay, IsPatched
  <2>8. i[1] \notin Moved(h)
    BY <2>2, <2>6, <2>7 DEF Writes, MovedRows, MovedRow
  <2>9. db.reservation_seats[i].status = "reserved" =>
           db.reservation_seats[i].expires > loc[h].expires - TTL
    BY <2>2, <2>3, <2>4, <2>7, <2>8 DEF HoldsCreated, HoldsExpired, OthersRun
  <2> QED
    BY <2>3, <2>4, <2>7, <2>9
<1>2. Spec => [][A]_vars
  <2>1. Inv /\ [Next]_vars => [A]_vars
    BY <1>1
  <2> HIDE DEF A
  <2> QED
    BY <2>1, Invariance, PTL DEF Spec
<1> QED
  BY <1>2 DEF SeatRefusalIsJust

================================================================================
