------------------------ MODULE ReservationTxRefinement ------------------------
(***************************************************************************)
(* The transactions of the reservation service implement the ledger.       *)
(*                                                                         *)
(* To the invariant of ReservationTxProofs this module adds what the open  *)
(* transactions have done to the stock: the counters a transaction is      *)
(* about to publish are the committed ones less the units of the           *)
(* reservations it moves.  Then every commit is one step of the ledger,    *)
(* and everything proved of the ledger holds of the committed tables.      *)
(***************************************************************************)
EXTENDS ReservationTxProofs, FiniteSetTheorems

LP == INSTANCE ReservationLedgerProofs WITH
    book <- Book,
    sold <- [t \in TicketTypes |-> db.ticket_types[t].sold],
    reserved <- [t \in TicketTypes |-> db.ticket_types[t].reserved]

--------------------------------------------------------------------------------
(* The ledger that the tables show *)

\* The units of every ticket type that reservation r of the tables d holds.
ItemUnits(d, r) ==
    [t \in TicketTypes |->
        IF r \in DOMAIN d.reservation_items /\ d.reservation_items[r].ticket = t
        THEN d.reservation_items[r].quantity ELSE 0]

HeldSeats(d, r) == {i[2] : i \in {j \in DOMAIN d.reservation_seats : j[1] = r}}

Entry(header, units, seats) ==
    [status |-> header.status, operation |-> <<header.session, header.key>>,
     expires |-> header.expires, units |-> units, seats |-> seats]

\* The library's finite sets and those of the ledger are the same.
LEMMA SameFinite == \A S : IsFiniteSet(S) <=> LP!IsFiniteSet(S)
BY DEF IsFiniteSet, LP!IsFiniteSet

\* So are its cardinalities.
LEMMA SameCardinality == \A S : Cardinality(S) = LP!Cardinality(S)
BY DEF Cardinality, LP!Cardinality

\* What the book says of a reservation.
LEMMA BookEntries ==
    /\ DOMAIN Book = ReservationIds
    /\ \A r \in ReservationIds :
          Book[r] = IF r \in DOMAIN db.reservations
                    THEN Entry(db.reservations[r], ItemUnits(db, r), HeldSeats(db, r))
                    ELSE NoBooking
<1>1. ASSUME NEW r
      PROVE  BookingOf(r) = Entry(db.reservations[r], ItemUnits(db, r), HeldSeats(db, r))
  <2>1. HeldSeats(db, r) = {i[2] : i \in SeatRowsOf(db, {r})}
    BY DEF HeldSeats, SeatRowsOf
  <2> QED
    BY <2>1 DEF BookingOf, Entry, ItemUnits
<1> QED
  BY <1>1 DEF Book

\* The same after a step.
LEMMA BookEntriesNext ==
    /\ DOMAIN Book' = ReservationIds
    /\ \A r \in ReservationIds :
          Book'[r] = IF r \in DOMAIN db'.reservations
                     THEN Entry(db'.reservations[r], ItemUnits(db', r), HeldSeats(db', r))
                     ELSE NoBooking
<1>1. ASSUME NEW r
      PROVE  BookingOf(r)' = Entry(db'.reservations[r], ItemUnits(db', r), HeldSeats(db', r))
  <2>1. HeldSeats(db', r) = {i[2] : i \in SeatRowsOf(db', {r})}
    BY DEF HeldSeats, SeatRowsOf
  <2> QED
    BY <2>1 DEF BookingOf, Entry, ItemUnits
<1> QED
  BY <1>1 DEF Book

\* Only the items of a reservation decide what units it holds.
LEMMA SameUnits ==
    ASSUME NEW d, NEW o, NEW r,
           r \in DOMAIN o.reservation_items <=> r \in DOMAIN d.reservation_items,
           r \in DOMAIN d.reservation_items =>
              /\ o.reservation_items[r].ticket = d.reservation_items[r].ticket
              /\ o.reservation_items[r].quantity = d.reservation_items[r].quantity
    PROVE  ItemUnits(o, r) = ItemUnits(d, r)
BY DEF ItemUnits

\* Only the ids of the seat rows decide what seats a reservation holds.
LEMMA SameSeats ==
    ASSUME NEW d, NEW o, NEW r,
           \A i : i[1] = r =>
              (i \in DOMAIN o.reservation_seats <=> i \in DOMAIN d.reservation_seats)
    PROVE  HeldSeats(o, r) = HeldSeats(d, r)
BY DEF HeldSeats

\* A change of status changes the status of the entry.
LEMMA EntryStatus ==
    ASSUME NEW header \in Header, NEW status, NEW units, NEW seats
    PROVE  /\ Entry([header EXCEPT !.status = status], units, seats)
                = [Entry(header, units, seats) EXCEPT !.status = status]
           /\ Entry(header, units, seats).units = units
           /\ Entry(header, units, seats).seats = seats
           /\ Entry(header, units, seats).status = header.status
           /\ Entry(header, units, seats).expires = header.expires
           /\ Entry(header, units, seats).operation = <<header.session, header.key>>
BY DEF Entry, Header

--------------------------------------------------------------------------------
(* Counting units *)

\* The units of ticket type t that the reservations in R hold, one element per
\* unit.
Units(d, R, t) == {u \in R \X (1..MaxQuantity) : u[2] <= ItemUnits(d, u[1])[t]}

\* A reservation holds the quantity of its item, of the type of its item.
LEMMA UnitsOfItem ==
    ASSUME NEW d, WellTyped(d), NEW r, NEW t \in TicketTypes
    PROVE  /\ ItemUnits(d, r)[t] \in 0..MaxQuantity
           /\ r \in DOMAIN d.reservation_items =>
                 ItemUnits(d, r)[t] = IF d.reservation_items[r].ticket = t
                                      THEN d.reservation_items[r].quantity ELSE 0
           /\ r \notin DOMAIN d.reservation_items => ItemUnits(d, r)[t] = 0
<1>1. \A x \in DOMAIN d.reservation_items : d.reservation_items[x].quantity \in 1..MaxQuantity
  BY RowTypes
<1> QED
  BY <1>1, TxAssumption DEF ItemUnits

\* The units of a type can be counted.
LEMMA UnitsAreFinite ==
    ASSUME NEW d, NEW R, R \subseteq ReservationIds, NEW t
    PROVE  IsFiniteSet(Units(d, R, t)) /\ Cardinality(Units(d, R, t)) \in Nat
<1>1. IsFiniteSet(1..MaxQuantity)
  BY FS_Interval, TxAssumption
<1>2. IsFiniteSet(R)
  BY FS_Subset, TxAssumption
<1>3. IsFiniteSet(R \X (1..MaxQuantity))
  BY <1>1, <1>2, FS_Product
<1>4. Units(d, R, t) \in SUBSET (R \X (1..MaxQuantity))
  BY DEF Units
<1> QED
  BY <1>3, <1>4, FS_Subset, FS_CardinalityType

\* Nothing holds no units.
LEMMA UnitsOfNone ==
    ASSUME NEW d, NEW t
    PROVE  Cardinality(Units(d, {}, t)) = 0
<1>1. Units(d, {}, t) = {}
  BY DEF Units
<1> QED
  BY <1>1, FS_EmptySet

\* One more reservation adds the units of its item.
LEMMA UnitsOfOneMore ==
    ASSUME NEW d, WellTyped(d), NEW R, R \subseteq ReservationIds,
           NEW r \in ReservationIds, r \notin R, NEW t \in TicketTypes
    PROVE  Cardinality(Units(d, R \cup {r}, t)) = Cardinality(Units(d, R, t)) + ItemUnits(d, r)[t]
<1> DEFINE n == ItemUnits(d, r)[t]
           block == {r} \X (1..n)
           old == Units(d, R, t)
<1>1. n \in 0..MaxQuantity /\ n \in Nat /\ MaxQuantity \in Nat
  BY UnitsOfItem, TxAssumption
<1>2. IsFiniteSet(block) /\ Cardinality(block) = n
  <2>1. IsFiniteSet(1..n) /\ Cardinality(1..n) = n
    <3> HIDE DEF n
    <3> QED
      BY <1>1, FS_Interval
  <2>2. IsFiniteSet({r}) /\ Cardinality({r}) = 1
    BY FS_Singleton
  <2> HIDE DEF n
  <2>3. IsFiniteSet(block) /\ Cardinality(block) = 1 * n
    BY <2>1, <2>2, FS_Product
  <2> QED
    BY <1>1, <2>3
<1>3. Units(d, R \cup {r}, t) = old \cup block
  BY <1>1 DEF Units
<1>4. old \cap block = {}
  BY DEF Units
<1>5. IsFiniteSet(old) /\ Cardinality(old) \in Nat
  BY UnitsAreFinite
<1> HIDE DEF old, block, n
<1>6. Cardinality(old \cup block) = Cardinality(old) + n - Cardinality({})
  BY <1>2, <1>4, <1>5, FS_Union
<1>7. Cardinality(old \cup block) = Cardinality(old) + n
  BY <1>1, <1>5, <1>6, FS_EmptySet
<1> QED
  BY <1>3, <1>7 DEF old, n

\* The units the ledger counts are those of the items.
LEMMA LedgerUnits ==
    ASSUME Types, NEW R, R \subseteq DOMAIN db.reservations, NEW t \in TicketTypes
    PROVE  LP!UnitsOf(R, t) = Units(db, R, t)
<1>1. \A r \in R : r \in ReservationIds /\ db.reservations[r] \in Header
  BY DEF Types, WellTyped
<1>2. ASSUME NEW r \in R PROVE Book[r].units = ItemUnits(db, r)
  <2>1. Book[r] = Entry(db.reservations[r], ItemUnits(db, r), HeldSeats(db, r))
    BY <1>1, BookEntries
  <2> QED
    BY <2>1 DEF Entry
<1> QED
  BY <1>2 DEF LP!UnitsOf, Units

--------------------------------------------------------------------------------
(* What the open transactions have done to the stock *)

\* The units that p takes out of the reserved ones.
Taken(p, t) == Cardinality(Units(db, Moved(p), t))

Sells(p) == \E r \in Moved(p) : pend[p].reservations[r].status = "confirmed"

\* p has written the ticket rows of all it moves: the committed counters less the
\* units moved, which are sold if they are confirmed.
Stock(p) ==
    /\ \A r \in Moved(p) : r \in DOMAIN db.reservation_items =>
          db.reservation_items[r].ticket \in DOMAIN pend[p].ticket_types
    /\ \A t \in DOMAIN pend[p].ticket_types :
          pend[p].ticket_types[t] =
             TicketMoved(db.ticket_types[t], Taken(p, t),
                         IF Sells(p) THEN "confirmed" ELSE "expired")

\* The workers, and the lifecycle calls that are about to commit.
Mover(p) == p \in Workers \/ (pc[p] = "commit" /\ Lifecycle(p))

StockInv == \A p \in Procs : Mover(p) => Stock(p)

\* A transaction that has written nothing has moved no stock.
LEMMA StockOfNothing ==
    ASSUME NEW p, pend'[p] = NoWrites
    PROVE  Stock(p)'
BY NothingHeld, NothingWritten DEF Stock

\* A step of somebody else leaves the stock that o has locked alone.
LEMMA StockStays ==
    ASSUME NEW o, Bystander(o), Mover(o) => Stock(o)
    PROVE  Mover(o)' => Stock(o)'
<1> SUFFICES ASSUME Mover(o)' PROVE Stock(o)'
  OBVIOUS
<1>1. pend'[o] = pend[o] /\ pc'[o] = pc[o] /\ (o \in Handlers => req'[o] = req[o]) /\ o \in Procs
  BY DEF Bystander, Quiet
<1>2. Stock(o)
  BY <1>1 DEF Mover, Lifecycle, Procs
<1>3. Moved(o)' = Moved(o) /\ (Sells(o)' <=> Sells(o))
  BY <1>1, SameRows DEF Sells
<1>4. /\ WellTyped(pend[o]) /\ Writes(o) /\ Unaffected(o)
  BY DEF Bystander, Types, ProcInv
<1>5. \A r \in Moved(o) :
         /\ r \in DOMAIN db'.reservation_items <=> r \in DOMAIN db.reservation_items
         /\ r \in DOMAIN db.reservation_items =>
               /\ db'.reservation_items[r].ticket = db.reservation_items[r].ticket
               /\ db'.reservation_items[r].quantity = db.reservation_items[r].quantity
  BY <1>4 DEF Moved, Unaffected
<1>6. ASSUME NEW t PROVE Taken(o, t)' = Taken(o, t)
  <2>1. \A r \in Moved(o) : ItemUnits(db', r) = ItemUnits(db, r)
    BY <1>5, SameUnits
  <2>2. Units(db', Moved(o), t) = Units(db, Moved(o), t)
    BY <2>1 DEF Units
  <2> QED
    BY <1>3, <2>2 DEF Taken
<1>7. \A t \in DOMAIN pend[o].ticket_types : db'.ticket_types[t] = db.ticket_types[t]
  BY <1>4 DEF WellTyped, Writes, TicketRows, Unaffected
<1> QED
  BY <1>1, <1>2, <1>3, <1>5, <1>6, <1>7 DEF Stock

\* A transition moves the units of its reservation.
LEMMA StockMoved ==
    ASSUME Inv, NEW p \in Procs, NEW r, MayMove(p, r), NEW status \in Final,
           ~InvariantBroken(View(p), r),
           NEW w, w = TransitionLocked(View(p), r, status),
           pend'[p] = Overlay(w, pend[p]), db' = db,
           Stock(p), Moved(p) = {} \/ (status = "expired" /\ ~Sells(p))
    PROVE  Stock(p)'
<1> DEFINE new == Overlay(w, pend[p])
           item == db.reservation_items[r]
           kind == IF Sells(p)' THEN "confirmed" ELSE "expired"
<1>1. WellTyped(w) /\ WellTyped(new) /\ Adds(p, r, status, w, new)
  <2>1. new = Overlay(w, pend[p])
    OBVIOUS
  <2> HIDE DEF new
  <2> QED
    BY <2>1, MoveRows
<1>2. pend'[p] = new
  OBVIOUS
<1> HIDE DEF new
<1>3. /\ WellTyped(db) /\ DOMAIN db.ticket_types = TicketTypes /\ WellTyped(pend[p])
      /\ IsOverlay(View(p), pend[p], db) /\ ChildrenOf(db, r) /\ Created(p) = {}
      /\ r \in DOMAIN db.reservations /\ r \notin DOMAIN pend[p].reservations
  BY ViewRows DEF Inv, Types, Committed, MayMove
<1>4. /\ Moved(p)' = Moved(p) \cup {r} /\ r \notin Moved(p) /\ Moved(p) \subseteq ReservationIds
      /\ r \in ReservationIds /\ r \in Moved(p)'
  BY <1>1, <1>2, <1>3 DEF Moved, Adds, WellTyped
<1>5. \A t \in TicketTypes : Taken(p, t)' = Taken(p, t) + ItemUnits(db, r)[t]
  BY <1>3, <1>4, UnitsOfOneMore DEF Taken
<1>6. \A t \in TicketTypes : Taken(p, t) \in Nat
  BY <1>4, UnitsAreFinite DEF Taken
<1>7. status = "confirmed" <=> Sells(p)'
  <2>1. /\ new.reservations[r] = [db.reservations[r] EXCEPT !.status = status]
        /\ db.reservations[r] \in Header
        /\ \A y \in Moved(p) : new.reservations[y] = pend[p].reservations[y]
    BY <1>1, MayMoveReads DEF Adds, Moved
  <2>2. new.reservations[r].status = status
    BY <2>1 DEF Header
  <2>3. Sells(p)' <=> status = "confirmed" \/ \E y \in Moved(p) :
                          pend[p].reservations[y].status = "confirmed"
    BY <1>2, <1>4, <2>1, <2>2 DEF Sells
  <2> QED
    BY <2>3 DEF Sells
<1>8. ASSUME NEW t \in DOMAIN pend[p].ticket_types
      PROVE  /\ t \in TicketTypes /\ View(p).ticket_types[t] = pend[p].ticket_types[t]
             /\ pend[p].ticket_types[t] =
                   TicketMoved(db.ticket_types[t], Taken(p, t),
                               IF Sells(p) THEN "confirmed" ELSE "expired")
  BY <1>3 DEF Stock, WellTyped, IsOverlay, IsPatched
<1>9. ASSUME NEW t \in TicketTypes, t \notin DOMAIN pend[p].ticket_types
      PROVE  View(p).ticket_types[t] = db.ticket_types[t] /\ Taken(p, t) = 0
  <2>1. View(p).ticket_types[t] = db.ticket_types[t]
    BY <1>3, <1>9 DEF IsOverlay, IsPatched
  <2>2. \A y \in Moved(p) : ItemUnits(db, y)[t] = 0
    BY <1>3, <1>9, UnitsOfItem DEF Stock
  <2>3. Units(db, Moved(p), t) = {}
    BY <2>2 DEF Units
  <2> QED
    BY <2>1, <2>3, FS_EmptySet DEF Taken
<1>10. \A t \in TicketTypes : db.ticket_types[t].sold \in Nat /\ db.ticket_types[t].reserved \in Nat
  BY <1>3, RowTypes
<1>11. r \in DOMAIN db.reservation_items =>
          item.ticket \in TicketTypes /\ item.quantity \in Nat /\ DOMAIN w.ticket_types = {item.ticket}
  <2>1. r \in DOMAIN db.reservation_items => db.reservations[r].type = "quantity"
    BY <1>3 DEF ChildrenOf
  <2> QED
    BY <1>1, <1>3, <2>1, RowTypes, TxAssumption DEF Adds
<1>12. r \notin DOMAIN db.reservation_items => DOMAIN w.ticket_types = {}
  BY <1>1, <1>3 DEF ChildrenOf, Adds
<1>13. \A y \in Moved(p)' : y \in DOMAIN db.reservation_items =>
          db.reservation_items[y].ticket \in DOMAIN new.ticket_types
  BY <1>1, <1>4, <1>11 DEF Stock, Adds
<1>14. ASSUME NEW t \in DOMAIN new.ticket_types
       PROVE  new.ticket_types[t] = TicketMoved(db.ticket_types[t], Taken(p, t)', kind)
  <2>1. CASE t \in DOMAIN w.ticket_types
    <3>1. r \in DOMAIN db.reservation_items /\ t = item.ticket /\ t \in TicketTypes /\ item.quantity \in Nat
      BY <1>11, <1>12, <2>1
    <3>2. new.ticket_types[t] = TicketMoved(View(p).ticket_types[t], item.quantity, status)
      BY <1>1, <2>1 DEF Adds
    <3>3. Taken(p, t)' = Taken(p, t) + item.quantity
      BY <1>3, <1>5, <3>1, UnitsOfItem
    <3>4. CASE t \in DOMAIN pend[p].ticket_types
      <4>1. Moved(p) # {} \/ Taken(p, t) = 0
        BY UnitsOfNone DEF Taken
      <4>2. ~Sells(p)
        BY DEF Sells
      <4>3. View(p).ticket_types[t] = TicketMoved(db.ticket_types[t], Taken(p, t), "expired")
        BY <1>8, <3>4, <4>2
      <4>4. (Moved(p) = {} \/ status = "expired") /\ (status = "confirmed" => Taken(p, t) = 0)
        BY <4>1
      <4> QED
        BY <1>6, <1>7, <1>10, <3>1, <3>2, <3>3, <4>3, <4>4 DEF TicketMoved
    <3>5. CASE t \notin DOMAIN pend[p].ticket_types
      BY <1>7, <1>9, <1>10, <3>1, <3>2, <3>3, <3>5 DEF TicketMoved
    <3> QED
      BY <3>4, <3>5
  <2>2. CASE t \notin DOMAIN w.ticket_types
    <3>1. t \in DOMAIN pend[p].ticket_types /\ new.ticket_types[t] = pend[p].ticket_types[t]
      BY <1>1, <2>2 DEF Adds
    <3>2. t \in TicketTypes /\ ItemUnits(db, r)[t] = 0
      BY <1>3, <1>8, <1>11, <2>2, <3>1, UnitsOfItem
    <3>3. Taken(p, t)' = Taken(p, t) /\ Taken(p, t) \in Nat
      BY <1>5, <1>6, <3>2
    <3>4. Moved(p) = {} => Taken(p, t) = 0
      BY UnitsOfNone DEF Taken
    <3>5. ~Sells(p)
      BY DEF Sells
    <3>6. pend[p].ticket_types[t] = TicketMoved(db.ticket_types[t], Taken(p, t), "expired")
      BY <1>8, <3>1, <3>5
    <3> QED
      BY <1>7, <1>10, <3>1, <3>2, <3>3, <3>4, <3>6 DEF TicketMoved
  <2> QED
    BY <2>1, <2>2
<1> QED
  BY <1>2, <1>13, <1>14 DEF Stock

--------------------------------------------------------------------------------
(* A step is a step of one process, and only commits change the tables *)

\* p's step concerns p alone.
Alone(p) == \A o \in Procs : o # p => Quiet(o)

\* p's step moves no stock: either p moves none, or it has nothing written.
NoStock(p) == Mover(p)' => pend'[p] = NoWrites

\* p has moved one more reservation to status.
Moving(p) ==
    \E r \in ReservationIds, status \in Final :
        /\ MayMove(p, r) /\ ~InvariantBroken(View(p), r)
        /\ pend'[p] = Overlay(TransitionLocked(View(p), r, status), pend[p])
        /\ p \in Workers => status = "expired"
        /\ p \in Handlers => pc[p] = "t_apply"

\* A step of p that commits nothing.
Private(p) ==
    /\ Alone(p) /\ UNCHANGED <<db, now>>
    /\ NoStock(p) \/ Moving(p)

\* A commit of p.
Publishes(p) ==
    /\ Alone(p) /\ pc[p] = "commit" /\ db' = View(p) /\ now' = now /\ pend'[p] = NoWrites

\* A rollback and a call that ends concern one process, and leave nothing
\* written.
LEMMA FailIsPrivate ==
    ASSUME Inv, NEW p \in Procs, NEW code, Fail(p, code)
    PROVE  Private(p)
<1>1. /\ DOMAIN pend = Procs /\ DOMAIN locks = Procs /\ DOMAIN pc = Procs /\ DOMAIN loc = Procs
      /\ DOMAIN resp = Handlers
  BY DEF Inv, Types
<1>2. pend'[p] = NoWrites
  BY <1>1 DEF Fail, EndTx
<1>3. ASSUME NEW o \in Procs, o # p PROVE Quiet(o)
  BY <1>1, <1>3 DEF Fail, EndTx, Finish, Goto, Quiet
<1> QED
  BY <1>2, <1>3 DEF Private, Alone, NoStock, Fail

\* A statement of a call that goes on concerns one process.
LEMMA ContinueIsAlone ==
    ASSUME Inv, NEW p \in Procs, NEW label, NEW l, Continue(p, label, l),
           (\E w : Write(p, w)) \/ pend' = pend \/ EndTx(p),
           (\E rows : Lock(p, rows)) \/ locks' = locks \/ EndTx(p)
    PROVE  Alone(p) /\ UNCHANGED <<db, now>> /\ pc'[p] = label /\ req' = req
<1>1. DOMAIN pc = Procs /\ DOMAIN loc = Procs /\ DOMAIN pend = Procs /\ DOMAIN locks = Procs
  BY DEF Inv, Types
<1>2. pc'[p] = label /\ req' = req /\ UNCHANGED <<db, now>>
  BY <1>1 DEF Continue, Goto
<1>3. ASSUME NEW o \in Procs, o # p PROVE Quiet(o)
  <2>1. pend'[o] = pend[o]
    BY <1>1, <1>3 DEF Write, EndTx
  <2>2. locks'[o] = locks[o]
    BY <1>1, <1>3 DEF Lock, EndTx
  <2> QED
    BY <1>1, <1>3, <2>1, <2>2 DEF Continue, Goto, Quiet
<1> QED
  BY <1>2, <1>3 DEF Alone

\* A call that ends outside a transaction concerns one handler.
LEMMA FinishIsPrivate ==
    ASSUME Inv, NEW h \in Handlers, NEW a, Finish(h, a), UNCHANGED <<db, pend, locks, now>>,
           \A o \in Handlers : o # h => req'[o] = req[o]
    PROVE  Private(h)
<1>1. pc'[h] = "done" /\ h \in Procs /\ h \notin Workers
  BY HandlerFacts DEF Finish, Goto
<1>2. ASSUME NEW o \in Procs, o # h PROVE Quiet(o)
  BY <1>2, HandlerFacts DEF Finish, Goto, Quiet
<1> QED
  BY <1>1, <1>2 DEF Private, Alone, NoStock, Mover

\* A statement of a creating call moves no stock of committed reservations.
LEMMA CreatingIsPrivate ==
    ASSUME Inv, NEW h \in Handlers, NEW label, NEW l, Continue(h, label, l),
           (\E w : Write(h, w)) \/ pend' = pend \/ EndTx(h),
           (\E rows : Lock(h, rows)) \/ locks' = locks \/ EndTx(h),
           label # "commit" \/ req[h].op \in {"quantity", "seats", "get"}
    PROVE  Private(h)
<1>1. h \in Procs /\ h \notin Workers
  BY HandlerFacts
<1>2. Alone(h) /\ UNCHANGED <<db, now>> /\ pc'[h] = label /\ req' = req
  BY <1>1, ContinueIsAlone
<1>3. ~Mover(h)'
  BY <1>1, <1>2 DEF Mover, Lifecycle
<1> QED
  BY <1>2, <1>3 DEF Private, NoStock

\* A transition decided by the header moves nothing.
LEMMA TransitionLockIsPrivate ==
    ASSUME Inv, NEW h \in Handlers, TransitionLock(h)
    PROVE  Private(h)
<1>1. h \in Procs /\ pend[h] = NoWrites
  BY HandlerFacts DEF TransitionLock, At, Closed, ReadLabels
<1>2. CASE Fail(h, "NOT_FOUND")
  BY <1>1, <1>2, FailIsPrivate
<1>3. ASSUME NEW label, NEW l, NEW rows, Lock(h, rows), Continue(h, label, l), UNCHANGED pend
      PROVE  Private(h)
  BY <1>1, <1>3, ContinueIsAlone DEF Private, NoStock
<1> QED
  BY <1>2, <1>3 DEF TransitionLock

\* A transition moves its reservation.
LEMMA TransitionApplyIsPrivate ==
    ASSUME Inv, NEW h \in Handlers, TransitionApply(h)
    PROVE  Private(h)
<1> DEFINE r == req[h].id
           target == loc[h].target
           w == TransitionLocked(View(h), r, target)
<1> USE HandlerFacts
<1>1. /\ pc[h] = "t_apply" /\ pend[h] = NoWrites /\ HeaderLocked(h) /\ db.reservations[r].status = "reserved"
      /\ target \in {Target(req[h].op), "expired"}
  BY DEF TransitionApply, At, Closed, ReadLabels, HandlerInv, TransitionFits
<1>2. target \in Final
  BY <1>1 DEF Target, Final
<1>3. MayMove(h, r)
  BY <1>1, NothingWritten DEF MayMove, HeaderLocked, Visible, Created
<1>31. r \in ReservationIds
  BY <1>1, RowTypes DEF HeaderLocked, Visible
<1>4. CASE Fail(h, "INCONSISTENT")
  BY <1>4, FailIsPrivate
<1>5. ASSUME ~InvariantBroken(View(h), r), Write(h, w), NEW rows, Lock(h, rows),
             NEW l, Continue(h, "commit", l)
      PROVE  Private(h)
  <2>1. Alone(h) /\ UNCHANGED <<db, now>>
    BY <1>5, ContinueIsAlone
  <2>2. pend'[h] = Overlay(w, pend[h])
    BY <1>5 DEF Write
  <2> HIDE DEF r, target
  <2>3. Moving(h)
    BY <1>1, <1>2, <1>3, <1>31, <1>5, <2>2 DEF Moving
  <2> QED
    BY <2>1, <2>3 DEF Private
<1> QED
  BY <1>4, <1>5 DEF TransitionApply

\* Every statement of a request is a step of its handler.
LEMMA HandlerStepIsPrivate ==
    ASSUME Inv, NEW h \in Handlers, HandlerStep(h)
    PROVE  Private(h)
<1> USE HandlerFacts, FailIsPrivate, CreatingIsPrivate DEF Read
<1>1. CASE BeginRequest(h)
  <2>1. \A op : FirstStatement(op) # "commit"
    BY DEF FirstStatement
  <2>2. PICK rq \in Requests[h] :
          /\ req' = [req EXCEPT ![h] = rq]
          /\ \/ Finish(h, Failure("INVALID"))
             \/ /\ Goto(h, FirstStatement(rq.op))
                /\ loc' = [loc EXCEPT ![h].expires = now + TTL]
                /\ UNCHANGED resp
    BY <1>1 DEF BeginRequest
  <2>3. UNCHANGED <<db, pend, locks, now>>
    BY <1>1 DEF BeginRequest
  <2>4. CASE Finish(h, Failure("INVALID"))
    BY <2>2, <2>3, <2>4, FinishIsPrivate
  <2>5. CASE /\ Goto(h, FirstStatement(rq.op))
             /\ loc' = [loc EXCEPT ![h].expires = now + TTL]
             /\ UNCHANGED resp
    <3>1. pc'[h] # "commit"
      BY <2>1, <2>5 DEF Goto
    <3>2. Alone(h)
      BY <2>2, <2>3, <2>5 DEF Alone, Quiet, Goto
    <3> QED
      BY <2>3, <3>1, <3>2 DEF Private, NoStock, Mover
  <2> QED
    BY <2>2, <2>4, <2>5
<1>2. CASE QuantityLookup(h)
  <2>1. req[h].op = "quantity"
    BY <1>2 DEF QuantityLookup, At, HandlerInv, RequestFits
  <2> QED
    BY <1>2, <2>1 DEF QuantityLookup
<1>3. CASE QuantityUpdate(h)
  BY <1>3 DEF QuantityUpdate
<1>4. CASE QuantityHeader(h)
  <2>1. req[h].op = "quantity"
    BY <1>4 DEF QuantityHeader, At, HandlerInv, RequestFits
  <2> QED
    BY <1>4, <2>1 DEF QuantityHeader
<1>5. ASSUME NEW found, Replay(h, found) PROVE Private(h)
  BY <1>5, FinishIsPrivate DEF Replay
<1>6. CASE QuantityReplay(h)
  BY <1>5, <1>6 DEF QuantityReplay
<1>7. CASE SeatLookup(h)
  <2>1. req[h].op = "seats"
    BY <1>7 DEF SeatLookup, At, HandlerInv, RequestFits
  <2> QED
    BY <1>7, <2>1 DEF SeatLookup
<1>8. CASE SeatLock(h)
  BY <1>8 DEF SeatLock
<1>9. CASE SeatList(h)
  BY <1>9 DEF SeatList
<1>10. CASE SeatExpire(h)
  BY <1>10 DEF SeatExpire
<1>11. CASE SeatHeader(h)
  <2>1. CASE IsFree(View(h), req[h].session, req[h].key)
    <3>1. PICK w, l : Write(h, w) /\ Continue(h, "s_insert", l) /\ UNCHANGED locks
      BY <1>11, <2>1 DEF SeatHeader
    <3> QED
      BY <3>1
  <2>2. CASE ~IsFree(View(h), req[h].session, req[h].key)
    BY <1>11, <2>2 DEF SeatHeader
  <2> QED
    BY <2>1, <2>2
<1>12. CASE SeatInsert(h)
  <2>1. req[h].op = "seats"
    BY <1>12 DEF SeatInsert, At, HandlerInv, RequestFits
  <2> QED
    BY <1>12, <2>1 DEF SeatInsert
<1>13. CASE SeatReplay(h)
  BY <1>5, <1>13 DEF SeatReplay
<1>14. CASE TransitionLock(h)
  BY <1>14, TransitionLockIsPrivate
<1>15. CASE TransitionApply(h)
  BY <1>15, TransitionApplyIsPrivate
<1>16. CASE GetHeader(h)
  BY <1>16 DEF GetHeader
<1>17. CASE GetChildren(h)
  BY <1>17, FinishIsPrivate DEF GetChildren
<1> QED
  BY <1>1, <1>2, <1>3, <1>4, <1>6, <1>7, <1>8, <1>9, <1>10, <1>11, <1>12, <1>13, <1>14,
     <1>15, <1>16, <1>17 DEF HandlerStep

\* Every step of a worker before its commit concerns that worker.
LEMMA WorkerStepIsPrivate ==
    ASSUME Inv, NEW w \in Workers, WorkerStep(w) \/ Shutdown(w)
    PROVE  Private(w)
<1> USE WorkerFacts
<1>1. CASE WorkerScan(w)
  <2>1. pend[w] = NoWrites
    BY <1>1 DEF WorkerScan, Closed, TxLabels
  <2>2. Alone(w) /\ UNCHANGED <<db, now>> /\ pend' = pend
    BY <1>1, ContinueIsAlone DEF WorkerScan
  <2> QED
    BY <2>1, <2>2 DEF Private, NoStock
<1>2. CASE WorkerApply(w)
  <2> DEFINE r == Current(w)
             writes == TransitionLocked(View(w), r, "expired")
  <2>1. pc[w] = "w_apply"
    BY <1>2 DEF WorkerApply, At
  <2>2. CASE Fail(w, "INCONSISTENT")
    BY <2>2, FailIsPrivate
  <2>3. ASSUME ~InvariantBroken(View(w), r), Write(w, writes), NEW rows, Lock(w, rows),
               NEW label, NEW l, Continue(w, label, l)
        PROVE  Private(w)
    <3>1. Alone(w) /\ UNCHANGED <<db, now>>
      BY <2>3, ContinueIsAlone
    <3>2. pend'[w] = Overlay(writes, pend[w])
      BY <2>3 DEF Write
    <3>3. r \in loc[w].todo
      BY <2>1, CurrentIn
    <3> HIDE DEF r
    <3>4. MayMove(w, r)
      BY <2>1, <3>3 DEF BatchFits, MayMove, Created
    <3>5. Moving(w)
      <4>1. r \in ReservationIds
        BY <3>4, RowTypes DEF MayMove
      <4> QED
        BY <2>3, <3>2, <3>4, <4>1 DEF Moving, Final
    <3> QED
      BY <3>1, <3>5 DEF Private
  <2> QED
    BY <1>2, <2>2, <2>3 DEF WorkerApply
<1>3. CASE Start(w)
  <2>1. pend[w] = NoWrites
    BY <1>3 DEF Start, Closed, TxLabels
  <2>2. Alone(w)
    BY <1>3 DEF Alone, Start, Goto, Quiet
  <2> QED
    BY <1>3, <2>1, <2>2 DEF Private, NoStock, Start
<1>4. CASE Shutdown(w)
  <2>1. pend'[w] = NoWrites
    BY <1>4 DEF Shutdown, EndTx
  <2>2. Alone(w)
    BY <1>4 DEF Alone, Shutdown, EndTx, Goto, Quiet
  <2> QED
    BY <1>4, <2>1, <2>2 DEF Private, NoStock, Shutdown
<1> QED
  BY <1>1, <1>2, <1>3, <1>4 DEF WorkerStep

\* Every step is a private step of one process, a commit, or time passing.
LEMMA StepKinds ==
    ASSUME Inv, [Next]_vars
    PROVE  \/ \E p \in Procs : Private(p) \/ Publishes(p)
           \/ Tick
           \/ UNCHANGED vars
<1>1. ASSUME NEW h \in Handlers, HandlerStep(h) PROVE \E p \in Procs : Private(p)
  BY <1>1, HandlerStepIsPrivate, HandlerFacts
<1>2. ASSUME NEW w \in Workers, WorkerStep(w) \/ Shutdown(w) PROVE \E p \in Procs : Private(p)
  BY <1>2, WorkerStepIsPrivate, WorkerFacts
<1>3. ASSUME NEW p \in Procs, Commit(p) \/ CommitLost(p) PROVE Publishes(p)
  <2>1. pc[p] = "commit" /\ db' = View(p) /\ now' = now /\ EndTx(p) /\ req' = req
    BY <1>3 DEF Commit, CommitLost
  <2>2. PICK a : Finish(p, a)
    BY <1>3 DEF Commit, CommitLost
  <2>3. /\ DOMAIN pend = Procs /\ DOMAIN locks = Procs /\ DOMAIN pc = Procs
        /\ DOMAIN loc = Procs /\ DOMAIN resp = Handlers
    BY DEF Inv, Types
  <2>4. Alone(p) /\ pend'[p] = NoWrites
    BY <2>1, <2>2, <2>3 DEF Alone, Quiet, EndTx, Finish, Goto
  <2> QED
    BY <2>1, <2>4 DEF Publishes
<1>4. ASSUME NEW p \in Procs, DeadlockAbort(p) \/ Interrupt(p) PROVE Private(p)
  BY <1>4, FailIsPrivate DEF DeadlockAbort, Interrupt
<1> QED
  BY <1>1, <1>2, <1>3, <1>4 DEF Next, AllQuiet

\* The transactions keep their books of the stock they move.
LEMMA StockStep ==
    ASSUME Inv, StockInv, [Next]_vars
    PROVE  StockInv'
<1>1. Inv'
  BY NextInv
<1>2. ASSUME NEW o \in Procs, Quiet(o), Unaffected(o) PROVE Mover(o)' => Stock(o)'
  <2>1. Bystander(o)
    BY <1>1, <1>2 DEF Bystander, Inv
  <2> QED
    BY <2>1, StockStays DEF StockInv
<1>3. ASSUME NEW p \in Procs, Private(p) PROVE StockInv'
  <2>1. ASSUME NEW o \in Procs PROVE Unaffected(o)
    BY <1>3, NothingCommitted, TxAssumption DEF Private, Inv, Types
  <2>2. ASSUME Moving(p) PROVE Mover(p)' => Stock(p)'
    <3>1. PICK r \in ReservationIds, status \in Final :
             /\ MayMove(p, r) /\ ~InvariantBroken(View(p), r)
             /\ pend'[p] = Overlay(TransitionLocked(View(p), r, status), pend[p])
             /\ p \in Workers => status = "expired"
             /\ p \in Handlers => pc[p] = "t_apply"
      BY <2>2 DEF Moving
    <3>2. CASE p \in Workers
      <4>1. Stock(p) /\ ~Sells(p)
        BY <3>2, WorkerFacts DEF StockInv, Mover, Sells, BatchFits, Moved
      <4> DEFINE w == TransitionLocked(View(p), r, status)
      <4>2. w = TransitionLocked(View(p), r, status) /\ pend'[p] = Overlay(w, pend[p])
        BY <3>1
      <4> HIDE DEF w
      <4> QED
        BY <1>3, <3>1, <3>2, <4>1, <4>2, StockMoved DEF Private
    <3>3. CASE p \in Handlers
      <4>1. pend[p] = NoWrites
        BY <3>1, <3>3, HandlerFacts DEF Closed, ReadLabels
      <4>2. Moved(p) = {} /\ Stock(p)
        BY <4>1, NothingWritten DEF Moved, Stock
      <4> DEFINE w == TransitionLocked(View(p), r, status)
      <4>3. w = TransitionLocked(View(p), r, status) /\ pend'[p] = Overlay(w, pend[p])
        BY <3>1
      <4> HIDE DEF w
      <4> QED
        BY <1>3, <3>1, <4>2, <4>3, StockMoved DEF Private
    <3> QED
      BY <3>2, <3>3 DEF Procs
  <2>3. Mover(p)' => Stock(p)'
    BY <1>3, <2>2, StockOfNothing DEF Private, NoStock
  <2> QED
    BY <1>2, <1>3, <2>1, <2>3 DEF StockInv, Private, Alone
<1>4. ASSUME NEW p \in Procs, Publishes(p) PROVE StockInv'
  <2>1. ASSUME NEW o \in Procs, o # p PROVE Mover(o)' => Stock(o)'
    BY <1>2, <1>4, <2>1, CommitApart DEF Publishes, Alone
  <2>2. Stock(p)'
    BY <1>4, StockOfNothing DEF Publishes
  <2> QED
    BY <2>1, <2>2 DEF StockInv
<1>5. CASE Tick \/ UNCHANGED vars
  <2>1. /\ UNCHANGED <<db, pend, locks, pc, req, loc, resp>> /\ now <= now'
    BY <1>5, TxAssumption DEF Tick, vars, Inv, Types
  <2>2. ASSUME NEW o \in Procs PROVE Quiet(o) /\ Unaffected(o)
    BY <2>1, NothingCommitted DEF Quiet, Inv
  <2> QED
    BY <1>2, <2>2 DEF StockInv
<1> QED
  BY <1>3, <1>4, <1>5, StepKinds

--------------------------------------------------------------------------------
(* What a commit publishes *)

\* A commit changes the entries of the reservations it moves and creates.
LEMMA PublishedBook ==
    ASSUME Inv, NEW p \in Procs, pc[p] = "commit", db' = View(p), NEW r \in ReservationIds
    PROVE  /\ r \in Moved(p) =>
                 Book'[r] = [Book[r] EXCEPT !.status = pend[p].reservations[r].status]
           /\ r \in Created(p) =>
                 /\ Book'[r] = Entry(pend[p].reservations[r], ItemUnits(pend[p], r),
                                     HeldSeats(pend[p], r))
                 /\ Book[r] = NoBooking
           /\ r \notin DOMAIN pend[p].reservations => Book'[r] = Book[r]
<1>1. /\ WellTyped(db) /\ WellTyped(pend[p]) /\ Writes(p) /\ Committed
      /\ IsOverlay(db', pend[p], db)
  BY ViewRows DEF Inv, Types, ProcInv
<1>2. ASSUME r \in Moved(p)
      PROVE  Book'[r] = [Book[r] EXCEPT !.status = pend[p].reservations[r].status]
  <2> DEFINE status == pend[p].reservations[r].status
  <2>1. /\ r \in DOMAIN db.reservations /\ r \in DOMAIN db'.reservations
        /\ db'.reservations[r] = [db.reservations[r] EXCEPT !.status = status]
        /\ db.reservations[r] \in Header
    BY <1>1, <1>2 DEF Moved, IsOverlay, IsPatched, Writes, MovedRows, MovedRow, WellTyped
  <2>2. /\ r \in DOMAIN db'.reservation_items <=> r \in DOMAIN db.reservation_items
        /\ r \in DOMAIN db.reservation_items =>
              /\ db'.reservation_items[r].ticket = db.reservation_items[r].ticket
              /\ db'.reservation_items[r].quantity = db.reservation_items[r].quantity
    BY <1>1, <2>1 DEF IsOverlay, IsPatched, Writes, ItemRows
  <2>3. \A i : i[1] = r =>
           (i \in DOMAIN db'.reservation_seats <=> i \in DOMAIN db.reservation_seats)
    BY <1>1, <2>1 DEF IsOverlay, IsPatched, Writes, SeatRows
  <2>4. ItemUnits(db', r) = ItemUnits(db, r)
    BY <2>2, SameUnits
  <2>5. HeldSeats(db', r) = HeldSeats(db, r)
    BY <2>3, SameSeats
  <2>6. Book[r] = Entry(db.reservations[r], ItemUnits(db, r), HeldSeats(db, r))
    BY <2>1, BookEntries
  <2>7. Book'[r] = Entry([db.reservations[r] EXCEPT !.status = status], ItemUnits(db, r),
                         HeldSeats(db, r))
    BY <2>1, <2>4, <2>5, BookEntriesNext
  <2> HIDE DEF status
  <2>8. Book'[r] = [Book[r] EXCEPT !.status = status]
    BY <2>1, <2>6, <2>7, EntryStatus
  <2> QED
    BY <2>8 DEF status
<1>3. ASSUME r \in Created(p)
      PROVE  /\ Book'[r] = Entry(pend[p].reservations[r], ItemUnits(pend[p], r),
                                 HeldSeats(pend[p], r))
             /\ Book[r] = NoBooking
  <2>1. /\ r \notin DOMAIN db.reservations /\ r \in DOMAIN db'.reservations
        /\ db'.reservations[r] = pend[p].reservations[r]
        /\ r \notin DOMAIN db.reservation_items
        /\ \A i \in DOMAIN db.reservation_seats : i[1] # r
    BY <1>1, <1>3 DEF Created, IsOverlay, IsPatched, Committed
  <2>2. ItemUnits(db', r) = ItemUnits(pend[p], r)
    <3>1. /\ r \in DOMAIN db'.reservation_items <=> r \in DOMAIN pend[p].reservation_items
          /\ r \in DOMAIN pend[p].reservation_items =>
                db'.reservation_items[r] = pend[p].reservation_items[r]
      BY <1>1, <2>1 DEF IsOverlay, IsPatched
    <3> QED
      BY <3>1, SameUnits
  <2>3. HeldSeats(db', r) = HeldSeats(pend[p], r)
    <3>1. \A i : i[1] = r =>
             (i \in DOMAIN db'.reservation_seats <=> i \in DOMAIN pend[p].reservation_seats)
      BY <1>1, <2>1 DEF IsOverlay, IsPatched
    <3> QED
      BY <3>1, SameSeats
  <2> QED
    BY <2>1, <2>2, <2>3, BookEntries, BookEntriesNext
<1>4. ASSUME r \notin DOMAIN pend[p].reservations PROVE Book'[r] = Book[r]
  <2>1. /\ r \notin DOMAIN pend[p].reservation_items
        /\ \A i \in DOMAIN pend[p].reservation_seats : i[1] # r
    BY <1>1, <1>4 DEF Writes, ItemRows, SeatRows
  <2>2. /\ r \in DOMAIN db'.reservations <=> r \in DOMAIN db.reservations
        /\ r \in DOMAIN db.reservations => db'.reservations[r] = db.reservations[r]
        /\ r \in DOMAIN db'.reservation_items <=> r \in DOMAIN db.reservation_items
        /\ r \in DOMAIN db.reservation_items =>
              db'.reservation_items[r] = db.reservation_items[r]
    BY <1>1, <1>4, <2>1 DEF IsOverlay, IsPatched
  <2>3. \A i : i[1] = r =>
           (i \in DOMAIN db'.reservation_seats <=> i \in DOMAIN db.reservation_seats)
    BY <1>1, <2>1 DEF IsOverlay, IsPatched
  <2>4. ItemUnits(db', r) = ItemUnits(db, r)
    BY <2>2, SameUnits
  <2>5. HeldSeats(db', r) = HeldSeats(db, r)
    BY <2>3, SameSeats
  <2> QED
    BY <2>2, <2>4, <2>5, BookEntries, BookEntriesNext
<1> QED
  BY <1>2, <1>3, <1>4

\* A transaction reads, and its commit publishes, the stock it has kept.
LEMMA StockRead ==
    ASSUME Inv, NEW p \in Procs, Stock(p), NEW v, v = View(p), NEW t \in TicketTypes
    PROVE  /\ v.ticket_types[t].reserved = db.ticket_types[t].reserved - Taken(p, t)
           /\ v.ticket_types[t].sold =
                 IF Sells(p) THEN db.ticket_types[t].sold + Taken(p, t) ELSE db.ticket_types[t].sold
           /\ Taken(p, t) \in Nat
<1>1. /\ WellTyped(db) /\ WellTyped(pend[p]) /\ IsOverlay(v, pend[p], db)
      /\ DOMAIN db.ticket_types = TicketTypes
  BY ViewRows DEF Inv, Types
<1>2. db.ticket_types[t].sold \in Nat /\ db.ticket_types[t].reserved \in Nat
  BY <1>1, RowTypes
<1>3. Taken(p, t) \in Nat
  BY <1>1, UnitsAreFinite DEF Taken, Moved, WellTyped
<1>4. CASE t \in DOMAIN pend[p].ticket_types
  <2>1. v.ticket_types[t] = TicketMoved(db.ticket_types[t], Taken(p, t),
                                          IF Sells(p) THEN "confirmed" ELSE "expired")
    BY <1>1, <1>4 DEF IsOverlay, IsPatched, Stock
  <2> QED
    BY <1>2, <1>3, <2>1 DEF TicketMoved
<1>5. CASE t \notin DOMAIN pend[p].ticket_types
  <2>1. v.ticket_types[t] = db.ticket_types[t]
    BY <1>1, <1>5 DEF IsOverlay, IsPatched
  <2>2. \A y \in Moved(p) : ItemUnits(db, y)[t] = 0
    BY <1>1, <1>5, UnitsOfItem DEF Stock
  <2>3. Units(db, Moved(p), t) = {}
    BY <2>2 DEF Units
  <2>4. Taken(p, t) = 0
    BY <2>3, FS_EmptySet DEF Taken
  <2> QED
    BY <1>2, <2>1, <2>4
<1> QED
  BY <1>3, <1>4, <1>5

\* The entry of a reservation that p moves.
LEMMA MovedEntry ==
    ASSUME Inv, NEW p \in Procs, NEW r \in Moved(p)
    PROVE  /\ r \in ReservationIds /\ r \in DOMAIN db.reservations
           /\ Book[r].status = "reserved" /\ Book[r].expires = db.reservations[r].expires
           /\ Book[r].units = ItemUnits(db, r) /\ Book[r].seats = HeldSeats(db, r)
<1>1. /\ r \in DOMAIN db.reservations /\ r \in ReservationIds
      /\ db.reservations[r].status = "reserved"
  BY DEF Inv, Types, WellTyped, ProcInv, Writes, MovedRows, MovedRow, Moved
<1>2. Book[r] = Entry(db.reservations[r], ItemUnits(db, r), HeldSeats(db, r))
  BY <1>1, BookEntries
<1> QED
  BY <1>1, <1>2 DEF Entry

\* A commit that only moves reservations marks them in the ledger.
LEMMA PublishedMarks ==
    ASSUME Inv, NEW p \in Procs, pc[p] = "commit", db' = View(p), Created(p) = {}, NEW status,
           \A r \in Moved(p) : pend[p].reservations[r].status = status
    PROVE  Book' = LP!Marked(Book, Moved(p), status)
<1> DEFINE m == LP!Marked(Book, Moved(p), status)
<1>1. /\ DOMAIN m = ReservationIds
      /\ \A r \in ReservationIds :
            m[r] = IF r \in Moved(p) THEN [Book[r] EXCEPT !.status = status] ELSE Book[r]
  BY DEF LP!Marked
<1>2. DOMAIN Book' = ReservationIds /\ Book' = [r \in ReservationIds |-> Book'[r]]
  BY DEF Book
<1>3. m = [r \in ReservationIds |-> m[r]]
  BY DEF LP!Marked
<1> HIDE DEF m
<1>4. ASSUME NEW r \in ReservationIds PROVE Book'[r] = m[r]
  <2>1. CASE r \in Moved(p)
    BY <1>1, <2>1, PublishedBook
  <2>2. CASE r \notin Moved(p)
    <3>1. r \notin DOMAIN pend[p].reservations
      BY <2>2 DEF Moved, Created
    <3> QED
      BY <1>1, <2>2, <3>1, PublishedBook
  <2> QED
    BY <2>1, <2>2
<1>5. Book' = m
  BY <1>2, <1>3, <1>4
<1> QED
  BY <1>5 DEF m

\* An expired batch of overdue reservations is a step of the ledger.
LEMMA LedgerExpires ==
    ASSUME NEW B \in SUBSET {x \in ReservationIds : LP!Overdue(x)}, LP!Expire(B)
    PROVE  LP!Next
BY DEF LP!Next

\* A confirmation is a step of the ledger.
LEMMA LedgerConfirms ==
    ASSUME NEW r \in ReservationIds, LP!Confirm(r)
    PROVE  LP!Next
BY DEF LP!Next

\* A cancellation is a step of the ledger.
LEMMA LedgerCancels ==
    ASSUME NEW r \in ReservationIds, LP!Cancel(r)
    PROVE  LP!Next
BY DEF LP!Next

\* A reservation of units is a step of the ledger.
LEMMA LedgerTakesUnits ==
    ASSUME NEW r \in LP!Fresh, NEW op \in Operations, NEW e \in 0..(now + TTL),
           NEW t \in TicketTypes, NEW q \in 1..MaxQuantity, LP!CreateQuantity(r, op, t, q, e)
    PROVE  LP!Next
BY DEF LP!Next

\* A reservation of seats is a step of the ledger.
LEMMA LedgerTakesSeats ==
    ASSUME NEW r \in LP!Fresh, NEW op \in Operations, NEW e \in 0..(now + TTL),
           NEW S \in (SUBSET Seats) \ {{}},
           NEW X \in SUBSET {x \in ReservationIds : LP!Overdue(x)},
           LP!CreateSeats(r, op, S, X, e)
    PROVE  LP!Next
BY DEF LP!Next

\* An expired batch is one step of the ledger.
LEMMA ExpireStep ==
    ASSUME Inv, NEW p \in Procs, Publishes(p), Stock(p), Created(p) = {}, Moved(p) # {},
           \A r \in Moved(p) : /\ pend[p].reservations[r].status = "expired"
                               /\ db.reservations[r].expires <= now
    PROVE  LP!Next
<1>0. PICK B : B = Moved(p)
  OBVIOUS
<1>1. Book' = LP!Marked(Book, B, "expired")
  BY <1>0, PublishedMarks DEF Publishes
<1>2. ~Sells(p)
  BY DEF Sells
<1>3. \A t \in TicketTypes :
         /\ db'.ticket_types[t].reserved = db.ticket_types[t].reserved - LP!Cardinality(LP!UnitsOf(B, t))
         /\ db'.ticket_types[t].sold = db.ticket_types[t].sold
  <2> SUFFICES ASSUME NEW t \in TicketTypes
               PROVE  /\ db'.ticket_types[t].reserved =
                            db.ticket_types[t].reserved - LP!Cardinality(LP!UnitsOf(B, t))
                      /\ db'.ticket_types[t].sold = db.ticket_types[t].sold
    OBVIOUS
  <2>1. LP!UnitsOf(B, t) = Units(db, B, t)
    BY <1>0, LedgerUnits DEF Inv, Moved
  <2>2. LP!Cardinality(LP!UnitsOf(B, t)) = Taken(p, t)
    BY <1>0, <2>1, SameCardinality DEF Taken
  <2> QED
    BY <1>2, <2>2, StockRead DEF Publishes
<1>4. B \in SUBSET {x \in ReservationIds : LP!Overdue(x)}
  BY <1>0, MovedEntry DEF LP!Overdue
<1>5. LP!Expire(B)
  BY <1>0, <1>1, <1>3 DEF LP!Expire, Publishes
<1> QED
  BY <1>4, <1>5, LedgerExpires

\* A committed transition is one step of the ledger.
LEMMA TransitionStep ==
    ASSUME Inv, NEW h \in Handlers, Publishes(h), Stock(h), Lifecycle(h), pend[h] # NoWrites
    PROVE  LP!Next
<1> USE HandlerFacts
<1>0. PICK r : r = req[h].id
  OBVIOUS
<1> DEFINE status == pend[h].reservations[r].status
<1>1. /\ DOMAIN pend[h].reservations = {r} /\ r \in DOMAIN db.reservations
      /\ status \in {Target(req[h].op), "expired"}
      /\ status = "expired" => db.reservations[r].expires <= now
  BY <1>0 DEF Publishes, HandlerInv, TransitionFits, HeaderLocked, Visible
<1>2. Moved(h) = {r} /\ Created(h) = {}
  BY <1>1 DEF Moved, Created
<1>3. CASE status = "expired"
  BY <1>1, <1>2, <1>3, ExpireStep
<1>4. r \in ReservationIds /\ Book[r].status = "reserved" /\ Book[r].units = ItemUnits(db, r)
  BY <1>2, MovedEntry
<1>5. ASSUME NEW t \in TicketTypes PROVE Taken(h, t) = Book[r].units[t] /\ Taken(h, t) \in Nat
  <2>1. Cardinality(Units(db, {} \cup {r}, t)) = Cardinality(Units(db, {}, t)) + ItemUnits(db, r)[t]
    BY <1>4, UnitsOfOneMore
  <2>2. ItemUnits(db, r)[t] \in Nat
    BY UnitsOfItem
  <2>3. {} \cup {r} = {r}
    OBVIOUS
  <2> QED
    BY <1>2, <1>4, <2>1, <2>2, <2>3, UnitsOfNone DEF Taken
<1>6. Book' = LP!Marked(Book, {r}, status)
  <2>1. \A x \in Moved(h) : pend[h].reservations[x].status = status
    BY <1>2
  <2> HIDE DEF status
  <2> QED
    BY <1>2, <2>1, PublishedMarks DEF Publishes
<1>7. Sells(h) <=> status = "confirmed"
  BY <1>2 DEF Sells
<1>8. \A t \in TicketTypes :
         /\ db'.ticket_types[t].reserved = db.ticket_types[t].reserved - Book[r].units[t]
         /\ db'.ticket_types[t].sold =
               IF status = "confirmed" THEN db.ticket_types[t].sold + Book[r].units[t]
                                       ELSE db.ticket_types[t].sold
  <2> HIDE DEF status
  <2> QED
    BY <1>5, <1>7, StockRead DEF Publishes
<1>9. CASE status = "confirmed"
  <2>1. LP!Confirm(r)
    BY <1>4, <1>6, <1>8, <1>9 DEF LP!Confirm, Publishes
  <2> QED
    BY <1>4, <2>1, LedgerConfirms
<1>10. CASE status = "cancelled"
  <2>1. LP!Cancel(r)
    BY <1>4, <1>6, <1>8, <1>10 DEF LP!Cancel, Publishes
  <2> QED
    BY <1>4, <2>1, LedgerCancels
<1> QED
  BY <1>1, <1>3, <1>9, <1>10 DEF Target

\* The key of what a transaction creates is new to the ledger, and so is its id.
LEMMA NewEntry ==
    ASSUME Inv, NEW p \in Procs, NEW r \in Created(p), NEW s, NEW k,
           pend[p].reservations[r].session = s, pend[p].reservations[r].key = k
    PROVE  r \in LP!Fresh /\ LP!KeyIsFree(<<s, k>>)
<1>1. /\ r \in ReservationIds /\ r \notin DOMAIN db.reservations /\ IsFree(db, s, k)
  BY DEF Inv, Types, WellTyped, ProcInv, Writes, CreatedRows, Created
<1>2. Book[r] = NoBooking
  BY <1>1, BookEntries
<1>3. r \in LP!Fresh
  BY <1>1, <1>2 DEF LP!Fresh, NoBooking
<1>4. ASSUME NEW x \in ReservationIds PROVE Book[x].operation # <<s, k>>
  <2>1. CASE x \in DOMAIN db.reservations
    <3>1. Book[x].operation = <<db.reservations[x].session, db.reservations[x].key>>
      BY <2>1, BookEntries DEF Entry
    <3> QED
      BY <1>1, <2>1, <3>1 DEF IsFree
  <2>2. CASE x \notin DOMAIN db.reservations
    <3>1. Book[x].operation = << >>
      BY <2>2, BookEntries DEF NoBooking
    <3>2. << >> # <<s, k>>
      OBVIOUS
    <3> QED
      BY <3>1, <3>2
  <2> QED
    BY <2>1, <2>2
<1>5. LP!KeyIsFree(<<s, k>>)
  BY <1>4 DEF LP!KeyIsFree
<1> QED
  BY <1>3, <1>5

\* A request that creates a reservation is one of the ledger's operations.
LEMMA RequestedOperation ==
    ASSUME Inv, NEW h \in Handlers, pc[h] # "idle", req[h].op \in {"quantity", "seats"}
    PROVE  <<req[h].session, req[h].key>> \in Operations
<1>1. req[h] \in Requests[h]
  BY HandlerFacts DEF HandlerInv, RequestFits
<1>2. Requests[h] \in Range(Requests)
  BY TxAssumption DEF Range
<1>3. req[h] \in UNION Range(Requests)
  BY <1>1, <1>2
<1> QED
  BY <1>3 DEF Operations

\* A committed reservation of units is one step of the ledger.
LEMMA QuantityStep ==
    ASSUME Inv, NEW h \in Handlers, Publishes(h), req[h].op = "quantity", pend[h] # NoWrites
    PROVE  LP!Next
<1> USE HandlerFacts
<1>0. PICK r, s, k, t, q, e : /\ r = loc[h].answer.id
                              /\ s = req[h].session /\ k = req[h].key
                              /\ t = req[h].ticket /\ q = req[h].quantity /\ e = loc[h].expires
  OBVIOUS
<1>1. /\ StockTaken(h) /\ Closed(h) /\ RequestFits(h)
      /\ DOMAIN pend[h].reservations = {r} /\ r \notin DOMAIN db.reservations
      /\ IsHeaderOf(h, pend[h].reservations[r], "quantity")
      /\ DOMAIN pend[h].reservation_items = {r}
      /\ pend[h].reservation_items[r].ticket = t
      /\ pend[h].reservation_items[r].quantity = q
  BY <1>0 DEF Publishes, HandlerInv, QuantityFits
<1>2. Moved(h) = {} /\ Created(h) = {r}
  BY <1>1 DEF Moved, Created
<1>3. /\ WellTyped(db) /\ WellTyped(pend[h]) /\ Writes(h) /\ IsOverlay(db', pend[h], db)
      /\ DOMAIN db.ticket_types = TicketTypes /\ now \in Nat /\ e \in Nat
      /\ pend[h].reservations[r].status = "reserved" /\ r \in ReservationIds
  <2>1. e \in Nat
    BY <1>0 DEF Inv, Types, Locals, Procs
  <2> QED
    BY <1>1, <1>2, <2>1, ViewRows, TxAssumption
       DEF Publishes, Inv, Types, ProcInv, Writes, CreatedRows, WellTyped
<1>4. /\ r \in LP!Fresh /\ LP!KeyIsFree(<<s, k>>)
  BY <1>0, <1>1, <1>2, NewEntry DEF IsHeaderOf
<1>5. <<s, k>> \in Operations
  BY <1>0, RequestedOperation DEF Publishes
<1>6. e \in 0..(now + TTL)
  BY <1>0, <1>1, <1>3, TxAssumption DEF Closed
<1>7. t \in TicketTypes /\ q \in 1..MaxQuantity
  BY <1>0, <1>1, <1>3, RowTypes DEF StockTaken
<1>8. ItemUnits(pend[h], r) = [LP!NoUnits EXCEPT ![t] = q]
  BY <1>1, <1>7 DEF ItemUnits, LP!NoUnits
<1>9. HeldSeats(pend[h], r) = {}
  <2>1. \A i \in DOMAIN pend[h].reservation_seats : i[1] # r
    BY <1>1, <1>3 DEF Writes, SeatRows, IsHeaderOf
  <2> QED
    BY <2>1 DEF HeldSeats
<1>10. Book'[r] = [status |-> "reserved", operation |-> <<s, k>>, expires |-> e,
                   units |-> [LP!NoUnits EXCEPT ![t] = q], seats |-> {}]
  <2>1. Book'[r] = Entry(pend[h].reservations[r], ItemUnits(pend[h], r), HeldSeats(pend[h], r))
    BY <1>2, <1>3, PublishedBook DEF Publishes
  <2> QED
    BY <1>0, <1>1, <1>3, <1>8, <1>9, <2>1 DEF Entry, IsHeaderOf
<1>11. ASSUME NEW x \in ReservationIds, x # r PROVE Book'[x] = Book[x]
  BY <1>1, <1>11, PublishedBook DEF Publishes
<1>12. Book' = [Book EXCEPT ![r] =
                   [status |-> "reserved", operation |-> <<s, k>>, expires |-> e,
                    units |-> [LP!NoUnits EXCEPT ![t] = q], seats |-> {}]]
  <2> DEFINE row == [status |-> "reserved", operation |-> <<s, k>>, expires |-> e,
                     units |-> [LP!NoUnits EXCEPT ![t] = q], seats |-> {}]
  <2>1. Book' = [x \in ReservationIds |-> Book'[x]] /\ Book = [x \in ReservationIds |-> Book[x]]
    BY DEF Book
  <2>2. Book'[r] = row
    BY <1>10
  <2> HIDE DEF row
  <2>3. Book' = [Book EXCEPT ![r] = row]
    BY <1>3, <1>11, <2>1, <2>2
  <2> QED
    BY <2>3 DEF row
<1>13. /\ db'.ticket_types[t].reserved = db.ticket_types[t].reserved + q
       /\ db'.ticket_types[t].sold = db.ticket_types[t].sold
       /\ \A x \in TicketTypes : x # t => db'.ticket_types[x] = db.ticket_types[x]
  <2>1. /\ db'.ticket_types[t] = pend[h].ticket_types[t]
        /\ \A x \in TicketTypes : x # t => db'.ticket_types[x] = db.ticket_types[x]
    BY <1>0, <1>1, <1>3, <1>7 DEF StockTaken, IsOverlay, IsPatched
  <2>2. db.ticket_types[t] \in Ticket
    BY <1>3, <1>7 DEF WellTyped
  <2>3. pend[h].ticket_types[t] = [db.ticket_types[t] EXCEPT !.reserved = @ + q]
    BY <1>0, <1>1 DEF StockTaken
  <2> QED
    BY <2>1, <2>2, <2>3 DEF Ticket
<1>14. Total[t] - db.ticket_types[t].sold - db.ticket_types[t].reserved >= q
  BY <1>0, <1>1 DEF StockTaken, HasStock
<1>15. LP!CreateQuantity(r, <<s, k>>, t, q, e)
  BY <1>4, <1>7, <1>12, <1>13, <1>14 DEF LP!CreateQuantity, Publishes
<1> QED
  BY <1>4, <1>5, <1>6, <1>7, <1>15, LedgerTakesUnits

\* A reservation holds the seats of its rows.
LEMMA SeatsOfRows ==
    ASSUME NEW d, NEW r, NEW s
    PROVE  s \in HeldSeats(d, r) <=> \E i \in DOMAIN d.reservation_seats : i[1] = r /\ i[2] = s
BY DEF HeldSeats

\* A committed reservation of seats, with the expiry of the overdue holds on
\* them, is one step of the ledger.
LEMMA SeatsStep ==
    ASSUME Inv, NEW h \in Handlers, Publishes(h), req[h].op = "seats", pend[h] # NoWrites
    PROVE  LP!Next
<1> USE HandlerFacts
<1>0. PICK r, s, k, S, X, e : /\ r = loc[h].answer.id
                              /\ s = req[h].session /\ k = req[h].key
                              /\ S = Wanted(h) /\ X = Moved(h) /\ e = loc[h].expires
  OBVIOUS
<1>1. HoldsCreated(h) /\ loc[h].todo = {} /\ Closed(h)
  BY DEF Publishes, HandlerInv, SeatsFit
<1>2. /\ Created(h) = {r} /\ r \notin X /\ IsHeaderOf(h, pend[h].reservations[r], "seats")
      /\ S # {} /\ S \subseteq Seats
      /\ DOMAIN pend[h].ticket_types = {}
      /\ \A x \in X : IsStale(h, x) /\ pend[h].reservations[x].status = "expired"
      /\ \A x \in Seats : <<r, x>> \in DOMAIN pend[h].reservation_seats <=> x \in S
      /\ \A i \in DOMAIN db.reservation_seats :
            /\ i[2] \in S
            /\ db.reservation_seats[i].status \in {"reserved", "confirmed"}
            => i[1] \in X
  BY <1>0, <1>1 DEF HoldsCreated, HoldsExpired, SeatsLocked, Created, Moved
<1>3. /\ WellTyped(db) /\ WellTyped(pend[h]) /\ Writes(h) /\ IsOverlay(db', pend[h], db)
      /\ DOMAIN db.ticket_types = TicketTypes /\ now \in Nat /\ e \in Nat /\ Committed
      /\ pend[h].reservations[r].status = "reserved" /\ r \in ReservationIds
  <2>1. e \in Nat
    BY <1>0 DEF Inv, Types, Locals, Procs
  <2>2. r \in Created(h)
    BY <1>2
  <2> QED
    BY <2>1, <2>2, ViewRows, TxAssumption
       DEF Publishes, Inv, Types, ProcInv, Writes, CreatedRows, WellTyped, Created
<1>4. /\ r \in LP!Fresh /\ LP!KeyIsFree(<<s, k>>)
  BY <1>0, <1>2, NewEntry DEF IsHeaderOf
<1>5. <<s, k>> \in Operations
  BY <1>0, RequestedOperation DEF Publishes
<1>6. e \in 0..(now + TTL)
  BY <1>0, <1>1, <1>3, TxAssumption DEF Closed
<1>7. ASSUME NEW x \in X
      PROVE  /\ x \in ReservationIds /\ LP!Overdue(x)
             /\ Book[x].seats \cap S # {}
  <2>1. /\ x \in ReservationIds /\ Book[x].status = "reserved"
        /\ Book[x].expires = db.reservations[x].expires /\ Book[x].seats = HeldSeats(db, x)
    BY <1>0, MovedEntry
  <2>2. PICK i \in DOMAIN db.reservation_seats : i[1] = x /\ i[2] \in S
    BY <1>0, <1>2 DEF IsStale
  <2>3. i[2] \in HeldSeats(db, x)
    BY <2>2, SeatsOfRows
  <2> QED
    BY <1>2, <2>1, <2>2, <2>3 DEF LP!Overdue, IsStale
<1>8. ASSUME NEW o \in ReservationIds \ X, Book[o].status \in LP!Active
      PROVE  Book[o].seats \cap S = {}
  <2>1. o \in DOMAIN db.reservations
    BY <1>8, BookEntries DEF NoBooking, LP!Active
  <2>2. Book[o].status = db.reservations[o].status /\ Book[o].seats = HeldSeats(db, o)
    BY <2>1, BookEntries DEF Entry
  <2>3. ASSUME NEW x \in HeldSeats(db, o) PROVE x \notin S
    <3>1. PICK i \in DOMAIN db.reservation_seats : i[1] = o /\ i[2] = x
      BY <2>3, SeatsOfRows
    <3>2. db.reservation_seats[i].status = db.reservations[o].status
      BY <1>3, <2>1, <3>1 DEF Committed, ChildrenOf
    <3> QED
      BY <1>2, <1>8, <2>2, <3>1, <3>2 DEF LP!Active
  <2> QED
    BY <2>2, <2>3
<1>9. ItemUnits(pend[h], r) = LP!NoUnits
  <2>1. r \notin DOMAIN pend[h].reservation_items
    BY <1>2, <1>3 DEF Writes, ItemRows, IsHeaderOf
  <2> QED
    BY <2>1 DEF ItemUnits, LP!NoUnits
<1>10. HeldSeats(pend[h], r) = S
  <2>1. ASSUME NEW x PROVE x \in HeldSeats(pend[h], r) <=> x \in S
    <3>1. \A i \in DOMAIN pend[h].reservation_seats : i = <<i[1], i[2]>> /\ i[2] \in Seats
      BY <1>3, RowTypes
    <3>2. ASSUME x \in S PROVE \E i \in DOMAIN pend[h].reservation_seats : i[1] = r /\ i[2] = x
      BY <1>2, <3>2
    <3>3. ASSUME NEW i \in DOMAIN pend[h].reservation_seats, i[1] = r, i[2] = x PROVE x \in S
      BY <1>2, <3>1, <3>3
    <3> QED
      BY <3>2, <3>3, SeatsOfRows
  <2> QED
    BY <2>1
<1>11. Book'[r] = [status |-> "reserved", operation |-> <<s, k>>, expires |-> e,
                   units |-> LP!NoUnits, seats |-> S]
  <2>1. r \in Created(h)
    BY <1>2
  <2>2. Book'[r] = Entry(pend[h].reservations[r], ItemUnits(pend[h], r), HeldSeats(pend[h], r))
    BY <1>3, <2>1, PublishedBook DEF Publishes
  <2> QED
    BY <1>0, <1>2, <1>3, <1>9, <1>10, <2>2 DEF Entry, IsHeaderOf
<1>12. ASSUME NEW x \in ReservationIds, x # r
       PROVE  Book'[x] = IF x \in X THEN [Book[x] EXCEPT !.status = "expired"] ELSE Book[x]
  <2>1. CASE x \in X
    BY <1>0, <1>2, <2>1, PublishedBook DEF Publishes
  <2>2. CASE x \notin X
    <3>1. x \notin DOMAIN pend[h].reservations
      BY <1>0, <1>2, <1>12, <2>2 DEF Created, Moved
    <3> QED
      BY <2>2, <3>1, PublishedBook DEF Publishes
  <2> QED
    BY <2>1, <2>2
<1>13. Book' = [LP!Marked(Book, X, "expired") EXCEPT ![r] =
                   [status |-> "reserved", operation |-> <<s, k>>, expires |-> e,
                    units |-> LP!NoUnits, seats |-> S]]
  <2> DEFINE row == [status |-> "reserved", operation |-> <<s, k>>, expires |-> e,
                     units |-> LP!NoUnits, seats |-> S]
             m == LP!Marked(Book, X, "expired")
  <2>1. Book' = [x \in ReservationIds |-> Book'[x]]
    BY DEF Book
  <2>2. /\ m = [x \in ReservationIds |-> m[x]]
        /\ \A x \in ReservationIds :
              m[x] = IF x \in X THEN [Book[x] EXCEPT !.status = "expired"] ELSE Book[x]
    BY DEF LP!Marked
  <2>3. Book'[r] = row
    BY <1>11
  <2> HIDE DEF row, m
  <2>4. \A x \in ReservationIds : x # r => Book'[x] = m[x]
    BY <1>12, <2>2
  <2>5. Book' = [m EXCEPT ![r] = row]
    BY <1>3, <2>1, <2>2, <2>3, <2>4
  <2> QED
    BY <2>5 DEF row, m
<1>14. \A t \in TicketTypes : db'.ticket_types[t] = db.ticket_types[t]
  BY <1>2, <1>3 DEF IsOverlay, IsPatched
<1>15. LP!CreateSeats(r, <<s, k>>, S, X, e)
  BY <1>4, <1>7, <1>8, <1>13, <1>14 DEF LP!CreateSeats, Publishes
<1>16. S \in (SUBSET Seats) \ {{}} /\ X \in SUBSET {x \in ReservationIds : LP!Overdue(x)}
  BY <1>2, <1>7
<1> QED
  BY <1>4, <1>5, <1>6, <1>15, <1>16, LedgerTakesSeats

\* The ledger changes with the tables and the clock only.
LEMMA SameBook ==
    ASSUME db' = db
    PROVE  Book' = Book
<1>1. /\ Book' = [r \in ReservationIds |-> Book'[r]] /\ Book = [r \in ReservationIds |-> Book[r]]
  BY DEF Book
<1>2. \A r \in ReservationIds : Book'[r] = Book[r]
  BY BookEntries, BookEntriesNext
<1> QED
  BY <1>1, <1>2

\* Every step of the service that changes the tables or the clock is a step of
\* the ledger.
LEMMA StepRefines ==
    ASSUME Inv, StockInv, [Next]_vars
    PROVE  UNCHANGED <<db, now>> \/ LP!Next
<1>1. ASSUME NEW p \in Procs, Publishes(p), pend[p] = NoWrites PROVE UNCHANGED <<db, now>>
  BY <1>1, ViewRows DEF Publishes, Inv
<1>2. ASSUME NEW w \in Workers, Publishes(w) PROVE LP!Next
  <2>1. BatchFits(w) /\ w \in Procs /\ now \in Nat /\ WellTyped(db)
    BY WorkerFacts
  <2>2. /\ Created(w) = {} /\ Moved(w) # {} /\ Stock(w)
        /\ \A r \in Moved(w) : /\ pend[w].reservations[r].status = "expired"
                               /\ db.reservations[r].expires < now
    BY <1>2, <2>1 DEF BatchFits, Created, Moved, Publishes, StockInv, Mover
  <2>3. \A r \in Moved(w) : db.reservations[r].expires <= now
    BY <2>1, <2>2, RowTypes DEF Moved
  <2> QED
    BY <1>2, <2>1, <2>2, <2>3, ExpireStep
<1>3. ASSUME NEW h \in Handlers, Publishes(h), pend[h] # NoWrites PROVE LP!Next
  <2>1. h \in Procs /\ req[h].op # "get"
    BY <1>3, HandlerFacts DEF Publishes, HandlerInv, RequestFits
  <2>2. CASE req[h].op = "quantity"
    BY <1>3, <2>2, QuantityStep
  <2>3. CASE req[h].op = "seats"
    BY <1>3, <2>3, SeatsStep
  <2>4. CASE Lifecycle(h)
    <3>1. Stock(h)
      BY <1>3, <2>1, <2>4 DEF StockInv, Mover, Publishes
    <3> QED
      BY <1>3, <2>4, <3>1, TransitionStep
  <2> QED
    BY <2>1, <2>2, <2>3, <2>4 DEF Lifecycle
<1>4. CASE Tick
  <2>1. LP!Tick
    BY <1>4, SameBook DEF Tick, LP!Tick
  <2> QED
    BY <2>1 DEF LP!Next
<1>5. ASSUME NEW p \in Procs, Publishes(p) PROVE UNCHANGED <<db, now>> \/ LP!Next
  BY <1>1, <1>2, <1>3, <1>5 DEF Procs
<1> QED
  BY <1>4, <1>5, StepKinds DEF Private, vars

\* The two instances of the ledger are one: the properties name the first, the
\* theorems about the ledger come with the second.
LEMMA SameLedger == Ledger!Next <=> LP!Next
<1>1. \A S : Ledger!Cardinality(S) = LP!Cardinality(S)
  BY DEF Ledger!Cardinality, LP!Cardinality
<1>2. Ledger!Tick <=> LP!Tick
  BY DEF Ledger!Tick, LP!Tick
<1>3. \A r \in ReservationIds : Ledger!Confirm(r) <=> LP!Confirm(r)
  BY DEF Ledger!Confirm, LP!Confirm, Ledger!Marked, LP!Marked
<1>4. \A r \in ReservationIds : Ledger!Cancel(r) <=> LP!Cancel(r)
  BY DEF Ledger!Cancel, LP!Cancel, Ledger!Marked, LP!Marked
<1>5. \A B : Ledger!Expire(B) <=> LP!Expire(B)
  BY <1>1 DEF Ledger!Expire, LP!Expire, Ledger!Marked, LP!Marked, Ledger!UnitsOf, LP!UnitsOf
<1> QED
  BY <1>2, <1>3, <1>4, <1>5
     DEF Ledger!Next, LP!Next, Ledger!Fresh, LP!Fresh, Ledger!Overdue, LP!Overdue,
         Ledger!CreateQuantity, LP!CreateQuantity, Ledger!CreateSeats, LP!CreateSeats,
         Ledger!NoUnits, LP!NoUnits, Ledger!KeyIsFree, LP!KeyIsFree,
         Ledger!Active, LP!Active, Ledger!Marked, LP!Marked

--------------------------------------------------------------------------------
(* The invariant of the refinement *)

\* The service, the stock of its open transactions and the ledger they show.
RefInv == Inv /\ StockInv /\ LP!Inv

\* The empty tables show the empty ledger.
LEMMA InitRefines == Init => RefInv /\ LP!Init /\ Ledger!Init
<1> SUFFICES ASSUME Init PROVE RefInv /\ LP!Init /\ Ledger!Init
  OBVIOUS
<1>1. Inv
  BY InitInv
<1>2. StockInv
  <2>1. \A p \in Procs : pend[p] = NoWrites
    BY DEF Init
  <2> QED
    BY <2>1, NothingWritten DEF StockInv, Stock, Moved
<1>3. DOMAIN db.reservations = {}
  BY DEF Init, NoWrites, NoRows
<1>4. Book = [r \in ReservationIds |-> NoBooking]
  BY <1>3 DEF Book
<1>5. \A t \in TicketTypes : db.ticket_types[t].sold = 0 /\ db.ticket_types[t].reserved = 0
  BY DEF Init, NoWrites
<1>6. NoBooking = LP!NoBooking /\ NoBooking = Ledger!NoBooking
  BY DEF NoBooking, LP!NoBooking, LP!NoUnits, LP!NoOperation,
         Ledger!NoBooking, Ledger!NoUnits, Ledger!NoOperation
<1>7. LP!Init
  BY <1>4, <1>5, <1>6 DEF LP!Init, Init
<1>8. Ledger!Init
  BY <1>4, <1>5, <1>6 DEF Ledger!Init, Init
<1>9. LP!Inv
  BY <1>7, LP!InitInv, TxAssumption, SameFinite
<1> QED
  BY <1>1, <1>2, <1>7, <1>8, <1>9 DEF RefInv

\* The steps of the ledger keep its invariant.
LEMMA LedgerStep ==
    ASSUME LP!Inv, [LP!Next]_LP!vars
    PROVE  LP!Inv'
BY LP!NextInv, TxAssumption, SameFinite

\* Every step keeps it.
LEMMA StepRefInv ==
    ASSUME RefInv, [Next]_vars
    PROVE  RefInv'
<1>1. Inv' /\ StockInv'
  BY NextInv, StockStep DEF RefInv
<1>2. ASSUME LP!Next PROVE LP!Inv'
  <2>1. [LP!Next]_LP!vars
    BY <1>2
  <2>2. LP!Inv
    BY DEF RefInv
  <2> QED
    BY <2>1, <2>2, LedgerStep
<1>3. ASSUME UNCHANGED <<db, now>> PROVE LP!Inv'
  <2>1. UNCHANGED LP!vars
    BY <1>3, SameBook DEF LP!vars
  <2>2. [LP!Next]_LP!vars
    BY <2>1
  <2>3. LP!Inv
    BY DEF RefInv
  <2> QED
    BY <2>2, <2>3, LedgerStep
<1>4. LP!Inv'
  BY <1>2, <1>3, StepRefines DEF RefInv
<1> QED
  BY <1>1, <1>4 DEF RefInv

\* The tables always show a state that the ledger can be in, and the open
\* transactions have kept their books.
THEOREM RefinementInvariance == Spec => []RefInv
<1>1. Init => RefInv
  BY InitRefines
<1>2. RefInv /\ [Next]_vars => RefInv'
  BY StepRefInv
<1> QED
  BY <1>1, <1>2, PTL DEF Spec

\* The reservation service implements the ledger: whatever statements interleave,
\* whatever transactions wait, fail or lose their acknowledgement, each step
\* changes the committed tables as one atomic step of the ledger does, or not at
\* all.
THEOREM TransactionsImplementLedger == Spec => ImplementsLedger
<1> DEFINE A == UNCHANGED <<db, now>> \/ Ledger!Next
<1>1. Init => Ledger!Init
  BY InitRefines
<1>2. RefInv /\ [Next]_vars => [A]_vars
  BY StepRefines, SameLedger DEF RefInv
<1>3. ImplementsLedger <=> Ledger!Init /\ [][A]_vars
  BY DEF ImplementsLedger
<1> HIDE DEF A
<1> QED
  BY <1>1, <1>2, <1>3, RefinementInvariance, PTL DEF Spec

--------------------------------------------------------------------------------
(* Enough stock to move *)

\* The committed counter covers the units of any reserved reservations.
LEMMA CounterCovers ==
    ASSUME Types, LP!Conservation, NEW R, R \subseteq DOMAIN db.reservations,
           \A r \in R : db.reservations[r].status = "reserved", NEW t \in TicketTypes
    PROVE  Cardinality(Units(db, R, t)) <= db.ticket_types[t].reserved
<1> DEFINE held == LP!Held(Book, "reserved", t)
<1>1. db.ticket_types[t].reserved = Cardinality(held)
  BY SameCardinality DEF LP!Conservation
<1>2. R \subseteq ReservationIds
  BY DEF Types, WellTyped
<1>3. ASSUME NEW r \in R PROVE Book[r].status = "reserved" /\ Book[r].units = ItemUnits(db, r)
  <2>1. Book[r] = Entry(db.reservations[r], ItemUnits(db, r), HeldSeats(db, r))
    BY <1>2, BookEntries
  <2> QED
    BY <2>1 DEF Entry
<1>4. Units(db, R, t) \in SUBSET held
  BY <1>2, <1>3 DEF Units, LP!Held
<1>5. IsFiniteSet(held)
  BY LP!HeldIsFinite, TxAssumption, SameFinite
<1> HIDE DEF held
<1> QED
  BY <1>1, <1>4, <1>5, FS_Subset

\* A transaction that may move a reservation finds what it needs to move it.
LEMMA MayMoveWhole ==
    ASSUME RefInv, NEW p \in Procs, Stock(p), NEW r, MayMove(p, r)
    PROVE  /\ View(p).reservations[r].status = "reserved"
           /\ ~InvariantBroken(View(p), r)
<1> DEFINE v == View(p)
<1>1. /\ Inv /\ Types /\ Committed /\ Writes(p) /\ WellTyped(db) /\ LP!Conservation
      /\ r \in ReservationIds
  BY DEF RefInv, Inv, ProcInv, LP!Inv, Types, WellTyped, MayMove
<1>2. /\ v.reservations[r] = db.reservations[r]
      /\ r \in DOMAIN v.reservation_items <=> r \in DOMAIN db.reservation_items
      /\ r \in DOMAIN db.reservation_items => v.reservation_items[r] = db.reservation_items[r]
  BY <1>1, MayMoveReads
<1>3. ASSUME db.reservations[r].type = "quantity"
      PROVE  /\ r \in DOMAIN db.reservation_items
             /\ db.reservation_items[r].status = "reserved"
             /\ v.ticket_types[db.reservation_items[r].ticket].reserved
                   >= db.reservation_items[r].quantity
  <2>1. r \in DOMAIN db.reservation_items /\ db.reservation_items[r].status = "reserved"
    BY <1>1, <1>3 DEF Committed, ChildrenOf, MayMove
  <2>2. PICK t, q : t = db.reservation_items[r].ticket /\ q = db.reservation_items[r].quantity
    OBVIOUS
  <2>3. t \in TicketTypes /\ q \in Nat
    BY <1>1, <2>1, <2>2, RowTypes, TxAssumption
  <2>4. ItemUnits(db, r)[t] = q
    BY <1>1, <2>1, <2>2, <2>3, UnitsOfItem
  <2>5. PICK R : R = Moved(p)
    OBVIOUS
  <2>6. /\ r \notin R /\ R \subseteq ReservationIds
        /\ R \cup {r} \subseteq DOMAIN db.reservations
        /\ \A x \in R \cup {r} : db.reservations[x].status = "reserved"
    BY <1>1, <2>5 DEF Moved, MayMove, Writes, MovedRows, MovedRow, WellTyped
  <2>7. Cardinality(Units(db, R \cup {r}, t)) = Taken(p, t) + q
    BY <1>1, <2>3, <2>4, <2>5, <2>6, UnitsOfOneMore DEF Taken
  <2>8. Cardinality(Units(db, R \cup {r}, t)) <= db.ticket_types[t].reserved
    BY <1>1, <2>3, <2>6, CounterCovers
  <2>9. v.ticket_types[t].reserved = db.ticket_types[t].reserved - Taken(p, t) /\ Taken(p, t) \in Nat
    BY <1>1, <2>3, StockRead
  <2>10. db.ticket_types[t].reserved \in Nat
    BY <1>1, <2>3, RowTypes DEF Types
  <2>11. v.ticket_types[t].reserved >= q
    BY <2>3, <2>7, <2>8, <2>9, <2>10
  <2> QED
    BY <2>1, <2>2, <2>11
<1>4. v.reservations[r].status = "reserved"
  BY <1>2 DEF MayMove
<1>5. CASE db.reservations[r].type # "quantity"
  BY <1>2, <1>4, <1>5 DEF InvariantBroken
<1>6. CASE db.reservations[r].type = "quantity"
  <2>1. /\ v.ticket_types[db.reservation_items[r].ticket].reserved
               >= db.reservation_items[r].quantity
        /\ v.ticket_types[db.reservation_items[r].ticket].reserved \in Int
        /\ db.reservation_items[r].quantity \in Int
        /\ v.reservation_items[r] = db.reservation_items[r]
        /\ r \in DOMAIN v.reservation_items /\ db.reservation_items[r].status = "reserved"
    <3>1. WellTyped(v) /\ DOMAIN v.ticket_types = TicketTypes
      BY <1>1, MayMoveReads
    <3>2. db.reservation_items[r].ticket \in TicketTypes /\ db.reservation_items[r].quantity \in Int
      BY <1>1, <1>3, <1>6, RowTypes, TxAssumption
    <3>3. v.ticket_types[db.reservation_items[r].ticket].reserved \in Int
      BY <3>1, <3>2, RowTypes
    <3> QED
      BY <1>2, <1>3, <1>6, <3>2, <3>3
  <2> HIDE DEF v
  <2>2. ~InvariantBroken(v, r)
    BY <2>1 DEF InvariantBroken
  <2> QED
    BY <1>4, <2>2 DEF v
<1> QED
  BY <1>5, <1>6

\* No transaction that has locked a reserved reservation ever meets
\* ErrReservationInvariantBroken: the item is still reserved, and the counters
\* the transaction reads, its own earlier writes included, cover its quantity.
THEOREM NeverFoundInconsistent == Spec => []NeverInconsistent
<1>1. RefInv => NeverInconsistent
  <2> SUFFICES ASSUME RefInv, NEW p \in Procs, pc[p] \in {"t_apply", "w_apply"}
               PROVE  /\ View(p).reservations[Current(p)].status = "reserved"
                      /\ ~InvariantBroken(View(p), Current(p))
    BY DEF NeverInconsistent
  <2>0. Inv
    BY DEF RefInv
  <2>1. PICK r : r = Current(p)
    OBVIOUS
  <2>2. CASE p \in Workers
    <3>1. BatchFits(p) /\ pc[p] = "w_apply"
      BY <2>0, <2>2, WorkerFacts DEF Inv, Types, WorkerLabels
    <3>2. r \in loc[p].todo
      BY <2>0, <2>1, <2>2, <3>1, CurrentIn
    <3>3. MayMove(p, r)
      BY <3>1, <3>2 DEF BatchFits, MayMove, Created
    <3>4. Stock(p)
      BY <2>2 DEF RefInv, StockInv, Mover
    <3> QED
      BY <2>1, <3>3, <3>4, MayMoveWhole
  <2>3. CASE p \in Handlers
    <3>1. HandlerInv(p) /\ Closed(p) /\ p \notin Workers /\ pc[p] = "t_apply"
      BY <2>0, <2>3, HandlerFacts DEF Inv, Types, HandlerLabels
    <3>2. pend[p] = NoWrites /\ r = req[p].id
      BY <2>1, <3>1 DEF Closed, ReadLabels, Current
    <3>3. Moved(p) = {} /\ Created(p) = {} /\ DOMAIN pend[p].reservations = {}
      BY <3>2, NothingWritten DEF Moved, Created
    <3>4. Stock(p)
      BY <3>2, <3>3, NothingWritten DEF Stock
    <3>5. MayMove(p, r)
      BY <3>1, <3>2, <3>3 DEF HandlerInv, TransitionFits, HeaderLocked, Visible, MayMove
    <3> QED
      BY <2>1, <3>4, <3>5, MayMoveWhole
  <2> QED
    BY <2>2, <2>3 DEF Procs
<1> QED
  BY <1>1, RefinementInvariance, PTL

--------------------------------------------------------------------------------
(* What the ledger promises, of the committed tables *)

\* The committed tables keep every promise of the ledger at every moment: the
\* counters of ticket_types count exactly the units of the committed reservations,
\* nothing is oversold, no seat has two active reservations and no key two.
THEOREM TablesKeepLedgerPromises ==
    Spec => [](/\ Ledger!Conservation /\ Ledger!NotOversold
               /\ Ledger!SeatExclusive /\ Ledger!KeyUnique)
<1>1. \A S : Ledger!Cardinality(S) = LP!Cardinality(S)
  BY DEF Ledger!Cardinality, LP!Cardinality
<1>2. LP!Conservation => Ledger!Conservation
  BY <1>1 DEF LP!Conservation, Ledger!Conservation, LP!Held, Ledger!Held
<1>3. LP!NotOversold => Ledger!NotOversold
  BY <1>1 DEF LP!NotOversold, Ledger!NotOversold, LP!Held, Ledger!Held
<1>4. LP!SeatExclusive => Ledger!SeatExclusive
  BY DEF LP!SeatExclusive, Ledger!SeatExclusive, LP!Active, Ledger!Active
<1>5. LP!KeyUnique => Ledger!KeyUnique
  BY DEF LP!KeyUnique, Ledger!KeyUnique, LP!NoOperation, Ledger!NoOperation
<1>6. RefInv => /\ Ledger!Conservation /\ Ledger!NotOversold
                /\ Ledger!SeatExclusive /\ Ledger!KeyUnique
  BY <1>2, <1>3, <1>4, <1>5 DEF RefInv, LP!Inv
<1> QED
  BY <1>6, RefinementInvariance, PTL

================================================================================
