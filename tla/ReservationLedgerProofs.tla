------------------------ MODULE ReservationLedgerProofs ------------------------
(***************************************************************************)
(* The ledger's safety properties for every inventory, every number of     *)
(* reservations and every clock bound.                                     *)
(*                                                                         *)
(* Units are counted as sets of pairs <<reservation, i>>, so that a status *)
(* change moves a block of pairs from one set to another and the counters  *)
(* follow from the cardinalities of finite unions and differences.         *)
(***************************************************************************)
EXTENDS ReservationLedger, FiniteSetTheorems, TLAPS

\* The inductive invariant.  Conservation alone is not inductive: releasing
\* stock must not go below zero (TypeOK), and expiring seat holds must not
\* forget stock (SeatHoldsHaveNoUnits).
Inv ==
    /\ TypeOK
    /\ Conservation
    /\ NotOversold
    /\ SeatExclusive
    /\ KeyUnique
    /\ SeatHoldsHaveNoUnits

Books == [ReservationIds -> Booking]

--------------------------------------------------------------------------------
(* Counting units *)

\* The units behind a counter of ticket_types are finitely many.
LEMMA HeldIsFinite ==
    ASSUME NEW b, NEW st, NEW t
    PROVE  IsFiniteSet(Held(b, st, t))
<1>1. IsFiniteSet(1..MaxQuantity)
  BY FS_Interval, LedgerAssumption
<1>2. IsFiniteSet(ReservationIds \X (1..MaxQuantity))
  BY <1>1, FS_Product, LedgerAssumption
<1>3. Held(b, st, t) \in SUBSET (ReservationIds \X (1..MaxQuantity))
  BY DEF Held
<1> QED  BY <1>2, <1>3, FS_Subset

\* One reservation of q units contributes q pairs.
LEMMA BlockSize ==
    ASSUME NEW r, NEW q \in Nat
    PROVE  /\ IsFiniteSet({r} \X (1..q))
           /\ Cardinality({r} \X (1..q)) = q
<1>1. IsFiniteSet(1..q) /\ Cardinality(1..q) = q
  BY FS_Interval
<1>2. IsFiniteSet({r}) /\ Cardinality({r}) = 1
  BY FS_Singleton
<1> QED  BY <1>1, <1>2, FS_Product

\* A new reserved booking adds its own units and nothing else.
LEMMA CreateCount ==
    ASSUME NEW b \in Books, NEW r \in ReservationIds, b[r].status = "none",
           NEW e \in Booking, e.status = "reserved", NEW t \in TicketTypes
    PROVE  LET c == [b EXCEPT ![r] = e]
           IN  /\ Cardinality(Held(c, "reserved", t))
                    = Cardinality(Held(b, "reserved", t)) + e.units[t]
               /\ Cardinality(Held(c, "confirmed", t)) = Cardinality(Held(b, "confirmed", t))
<1> DEFINE c == [b EXCEPT ![r] = e]
           block == {r} \X (1..e.units[t])
<1>1. e.units[t] \in 0..MaxQuantity /\ e.units[t] \in Nat /\ MaxQuantity \in Nat
  BY LedgerAssumption DEF Booking
<1>2. Held(c, "reserved", t) = Held(b, "reserved", t) \cup block
  BY <1>1 DEF Held, Books
<1>3. Held(b, "reserved", t) \cap block = {}
  BY DEF Held
<1>4. Held(c, "confirmed", t) = Held(b, "confirmed", t)
  BY DEF Held, Books
<1>5. IsFiniteSet(block) /\ Cardinality(block) = e.units[t]
  BY <1>1, BlockSize
<1>6. IsFiniteSet(Held(b, "reserved", t)) /\ Cardinality(Held(b, "reserved", t)) \in Nat
  BY HeldIsFinite, FS_CardinalityType
<1>7. Cardinality(Held(c, "reserved", t))
        = Cardinality(Held(b, "reserved", t)) + e.units[t] - Cardinality({})
  BY <1>2, <1>3, <1>5, <1>6, FS_Union
<1> QED  BY <1>1, <1>4, <1>6, <1>7, FS_EmptySet

\* The units of a single reservation.
LEMMA UnitsOfOne ==
    ASSUME book \in Books, NEW r \in ReservationIds, NEW t \in TicketTypes
    PROVE  Cardinality(UnitsOf({r}, t)) = book[r].units[t]
<1>1. book[r].units[t] \in 0..MaxQuantity /\ book[r].units[t] \in Nat /\ MaxQuantity \in Nat
  BY LedgerAssumption DEF Books, Booking
<1>2. UnitsOf({r}, t) = {r} \X (1..book[r].units[t])
  BY <1>1 DEF UnitsOf
<1> QED  BY <1>1, <1>2, BlockSize

\* Moving reserved bookings to a final status takes exactly their units out of
\* the reserved ones, and into the confirmed ones if they are confirmed.
LEMMA MarkCount ==
    ASSUME book \in Books, NEW B \in SUBSET ReservationIds,
           \A r \in B : book[r].status = "reserved",
           NEW st \in Terminal, NEW t \in TicketTypes
    PROVE  /\ Cardinality(UnitsOf(B, t)) \in Nat
           /\ Cardinality(UnitsOf(B, t)) <= Cardinality(Held(book, "reserved", t))
           /\ Cardinality(Held(Marked(book, B, st), "reserved", t))
                = Cardinality(Held(book, "reserved", t)) - Cardinality(UnitsOf(B, t))
           /\ Cardinality(Held(Marked(book, B, st), "confirmed", t))
                = Cardinality(Held(book, "confirmed", t))
                    + (IF st = "confirmed" THEN Cardinality(UnitsOf(B, t)) ELSE 0)
<1> DEFINE m == Marked(book, B, st)
           U == UnitsOf(B, t)
<1>0. st # "reserved" /\ st # "none"
  BY DEF Terminal, Statuses
<1>1. \A r \in ReservationIds : /\ m[r].status = (IF r \in B THEN st ELSE book[r].status)
                                /\ m[r].units = book[r].units
  BY DEF Marked, Books, Booking
<1>2. U \in SUBSET Held(book, "reserved", t)
  BY DEF UnitsOf, Held
<1>3. Held(m, "reserved", t) = Held(book, "reserved", t) \ U
  BY <1>0, <1>1 DEF UnitsOf, Held
<1>4. Held(m, "confirmed", t)
        = IF st = "confirmed" THEN Held(book, "confirmed", t) \cup U
                              ELSE Held(book, "confirmed", t)
  BY <1>0, <1>1 DEF UnitsOf, Held
<1>5. Held(book, "confirmed", t) \cap U = {}
  BY DEF UnitsOf, Held
<1>6. /\ IsFiniteSet(Held(book, "reserved", t)) /\ IsFiniteSet(Held(book, "confirmed", t))
      /\ Cardinality(Held(book, "reserved", t)) \in Nat
      /\ Cardinality(Held(book, "confirmed", t)) \in Nat
  BY HeldIsFinite, FS_CardinalityType
<1>7. IsFiniteSet(U) /\ Cardinality(U) \in Nat
      /\ Cardinality(U) <= Cardinality(Held(book, "reserved", t))
  BY <1>2, <1>6, FS_Subset, FS_CardinalityType
<1>8. Held(book, "reserved", t) \cap U = U
  BY <1>2
<1>9. Cardinality(Held(m, "reserved", t))
        = Cardinality(Held(book, "reserved", t)) - Cardinality(U)
  BY <1>3, <1>6, <1>8, FS_Difference
<1>10. Cardinality(Held(book, "confirmed", t) \cup U)
        = Cardinality(Held(book, "confirmed", t)) + Cardinality(U) - Cardinality({})
  BY <1>5, <1>6, <1>7, FS_Union
<1>11. Cardinality(Held(m, "confirmed", t))
        = Cardinality(Held(book, "confirmed", t))
            + (IF st = "confirmed" THEN Cardinality(U) ELSE 0)
  <2>1. CASE st = "confirmed"
    <3>1. Held(m, "confirmed", t) = Held(book, "confirmed", t) \cup U
      BY <2>1, <1>4
    <3>2. Cardinality({}) = 0
      BY FS_EmptySet
    <3>3. Cardinality(Held(m, "confirmed", t))
            = Cardinality(Held(book, "confirmed", t)) + Cardinality(U) - 0
      BY <3>1, <3>2, <1>10
    <3>4. Cardinality(Held(m, "confirmed", t))
            = Cardinality(Held(book, "confirmed", t)) + Cardinality(U)
      BY <3>3, <1>6, <1>7
    <3> QED  BY <2>1, <3>4
  <2>2. CASE st # "confirmed"
    BY <2>2, <1>4, <1>6
  <2> QED  BY <2>1, <2>2
<1> QED  BY <1>7, <1>9, <1>11

--------------------------------------------------------------------------------
(* Each action preserves the invariant *)

\* The empty ledger satisfies the invariant.
LEMMA InitInv == Init => Inv
<1> SUFFICES ASSUME Init PROVE Inv
  OBVIOUS
<1>1. NoBooking \in Booking
  BY LedgerAssumption DEF NoBooking, Booking, NoUnits
<1>2. TypeOK
  BY <1>1 DEF Init, TypeOK
<1>3. \A st \in {"reserved", "confirmed"}, t \in TicketTypes : Held(book, st, t) = {}
  BY DEF Init, Held, NoBooking
<1>4. Conservation
  BY <1>3, FS_EmptySet DEF Init, Conservation
<1>5. NotOversold
  BY <1>3, FS_EmptySet, LedgerAssumption DEF NotOversold
<1>6. SeatExclusive /\ KeyUnique /\ SeatHoldsHaveNoUnits
  BY DEF Init, SeatExclusive, KeyUnique, SeatHoldsHaveNoUnits, NoBooking
<1> QED  BY <1>2, <1>4, <1>5, <1>6 DEF Inv

\* Time alone changes nothing.
LEMMA SameBook ==
    ASSUME Inv, book' = book, sold' = sold, reserved' = reserved, now' \in Nat
    PROVE  Inv'
<1>1. TypeOK'
  BY DEF Inv, TypeOK
<1>2. Conservation' /\ NotOversold'
  BY DEF Inv, Conservation, NotOversold
<1>3. SeatExclusive' /\ KeyUnique' /\ SeatHoldsHaveNoUnits'
  BY DEF Inv, SeatExclusive, KeyUnique, SeatHoldsHaveNoUnits
<1> QED  BY <1>1, <1>2, <1>3 DEF Inv

\* ReserveQuantity.
LEMMA CreateQuantityInv ==
    ASSUME Inv, NEW r \in Fresh, NEW op \in Operations, NEW e \in 0..(now + TTL),
           NEW t \in TicketTypes, NEW q \in 1..MaxQuantity,
           CreateQuantity(r, op, t, q, e)
    PROVE  Inv'
<1> DEFINE new == [status |-> "reserved", operation |-> op, expires |-> e,
                   units |-> [NoUnits EXCEPT ![t] = q], seats |-> {}]
<1>1. /\ book \in Books /\ sold \in [TicketTypes -> Nat]
      /\ reserved \in [TicketTypes -> Nat] /\ now \in Nat
  BY DEF Inv, TypeOK, Books
<1>2. r \in ReservationIds /\ book[r].status = "none"
  BY DEF Fresh
<1>3. /\ new \in Booking
      /\ \A u \in TicketTypes : new.units[u] = IF u = t THEN q ELSE 0
  BY <1>1, LedgerAssumption DEF Booking, NoUnits, Statuses
<1>4. book' = [book EXCEPT ![r] = new]
  BY DEF CreateQuantity
<1>5. book' \in Books
  BY <1>1, <1>2, <1>3, <1>4 DEF Books
<1>6. \A u \in TicketTypes :
        /\ Cardinality(Held(book', "reserved", u))
             = Cardinality(Held(book, "reserved", u)) + new.units[u]
        /\ Cardinality(Held(book', "confirmed", u)) = Cardinality(Held(book, "confirmed", u))
  <2> HIDE DEF new
  <2> TAKE u \in TicketTypes
  <2>1. new.status = "reserved"
    BY DEF new
  <2> QED  BY <2>1, <1>1, <1>2, <1>3, <1>4, CreateCount
<1>7. /\ sold' = sold /\ now' = now
      /\ \A u \in TicketTypes : reserved'[u] = reserved[u] + new.units[u]
      /\ reserved' \in [TicketTypes -> Nat]
  BY <1>1, <1>3 DEF CreateQuantity
<1>8. Conservation'
  BY <1>6, <1>7 DEF Inv, Conservation
<1>9. TypeOK'
  BY <1>1, <1>5, <1>7 DEF TypeOK, Books
<1>10. NotOversold'
  <2> SUFFICES ASSUME NEW u \in TicketTypes
               PROVE  reserved'[u] + sold'[u] <= Total[u]
    BY <1>8 DEF NotOversold, Conservation
  <2>1. reserved[u] + sold[u] <= Total[u]
    BY DEF Inv, NotOversold, Conservation
  <2>2. CASE u = t
    <3>1. Total[t] - sold[t] - reserved[t] >= q
      BY DEF CreateQuantity
    <3> QED  BY <2>2, <3>1, <1>1, <1>3, <1>7, LedgerAssumption
  <2>3. CASE u # t
    BY <2>1, <2>3, <1>1, <1>3, <1>7
  <2> QED  BY <2>2, <2>3
<1>11. SeatExclusive'
  BY <1>1, <1>2, <1>4 DEF Inv, SeatExclusive, Books
<1>12. KeyUnique'
  <2>1. \A o \in ReservationIds : book[o].operation # op
    BY DEF CreateQuantity, KeyIsFree
  <2> QED  BY <2>1, <1>1, <1>2, <1>4 DEF Inv, KeyUnique, Books
<1>13. SeatHoldsHaveNoUnits'
  BY <1>1, <1>2, <1>4 DEF Inv, SeatHoldsHaveNoUnits, Books
<1> QED  BY <1>8, <1>9, <1>10, <1>11, <1>12, <1>13 DEF Inv

\* Confirming, cancelling and expiring only change statuses: seats stay
\* exclusive and keys unique.
LEMMA MarkedBook ==
    ASSUME Inv, NEW B \in SUBSET ReservationIds,
           \A r \in B : book[r].status = "reserved",
           NEW st \in Terminal
    PROVE  /\ Marked(book, B, st) \in Books
           /\ \A r \in ReservationIds :
                 LET m == Marked(book, B, st)[r]
                 IN  /\ m.status = (IF r \in B THEN st ELSE book[r].status)
                     /\ m.operation = book[r].operation
                     /\ m.expires = book[r].expires
                     /\ m.units = book[r].units
                     /\ m.seats = book[r].seats
           /\ book' = Marked(book, B, st) =>
                 /\ SeatExclusive' /\ KeyUnique' /\ SeatHoldsHaveNoUnits'
<1>1. book \in Books
  BY DEF Inv, TypeOK, Books
<1>2. Marked(book, B, st) \in Books
  BY <1>1 DEF Marked, Books, Booking, Terminal
<1>3. \A r \in ReservationIds :
        LET m == Marked(book, B, st)[r]
        IN  /\ m.status = (IF r \in B THEN st ELSE book[r].status)
            /\ m.operation = book[r].operation
            /\ m.expires = book[r].expires
            /\ m.units = book[r].units
            /\ m.seats = book[r].seats
  BY <1>1 DEF Marked, Books, Booking
<1>4. ASSUME book' = Marked(book, B, st)
      PROVE  SeatExclusive' /\ KeyUnique' /\ SeatHoldsHaveNoUnits'
  <2>1. \A r \in ReservationIds : book'[r].status \in Active => book[r].status \in Active
    BY <1>3, <1>4 DEF Active
  <2>2. SeatExclusive'
    BY <2>1, <1>3, <1>4 DEF Inv, SeatExclusive
  <2>3. KeyUnique'
    BY <1>3, <1>4 DEF Inv, KeyUnique
  <2>4. SeatHoldsHaveNoUnits'
    BY <1>3, <1>4 DEF Inv, SeatHoldsHaveNoUnits
  <2> QED  BY <2>2, <2>3, <2>4
<1> QED  BY <1>2, <1>3, <1>4

\* A status change whose counters follow the units it moves preserves the
\* invariant.
LEMMA MoveInv ==
    ASSUME Inv, NEW B \in SUBSET ReservationIds,
           \A r \in B : book[r].status = "reserved",
           NEW st \in Terminal,
           book' = Marked(book, B, st),
           reserved' = [t \in TicketTypes |-> reserved[t] - Cardinality(UnitsOf(B, t))],
           sold' = [t \in TicketTypes |->
                      sold[t] + (IF st = "confirmed" THEN Cardinality(UnitsOf(B, t)) ELSE 0)],
           now' = now
    PROVE  Inv'
<1>1. /\ book \in Books /\ sold \in [TicketTypes -> Nat]
      /\ reserved \in [TicketTypes -> Nat] /\ now \in Nat
  BY DEF Inv, TypeOK, Books
<1>2. book' \in Books /\ SeatExclusive' /\ KeyUnique' /\ SeatHoldsHaveNoUnits'
  BY MarkedBook
<1>3. ASSUME NEW t \in TicketTypes
      PROVE  /\ reserved'[t] = Cardinality(Held(book', "reserved", t))
             /\ sold'[t] = Cardinality(Held(book', "confirmed", t))
             /\ reserved'[t] \in Nat
             /\ sold'[t] \in Nat
             /\ reserved'[t] + sold'[t] <= Total[t]
  <2> DEFINE n == Cardinality(UnitsOf(B, t))
  <2>1. /\ n \in Nat
        /\ n <= Cardinality(Held(book, "reserved", t))
        /\ Cardinality(Held(book', "reserved", t)) = Cardinality(Held(book, "reserved", t)) - n
        /\ Cardinality(Held(book', "confirmed", t))
             = Cardinality(Held(book, "confirmed", t)) + (IF st = "confirmed" THEN n ELSE 0)
    BY <1>1, MarkCount
  <2>2. /\ reserved[t] = Cardinality(Held(book, "reserved", t))
        /\ sold[t] = Cardinality(Held(book, "confirmed", t))
        /\ reserved[t] + sold[t] <= Total[t]
    BY DEF Inv, Conservation, NotOversold
  <2>3. /\ reserved'[t] = reserved[t] - n
        /\ sold'[t] = sold[t] + (IF st = "confirmed" THEN n ELSE 0)
    OBVIOUS
  <2>4. reserved[t] \in Nat /\ sold[t] \in Nat /\ Total[t] \in Nat
    BY <1>1, LedgerAssumption
  <2> HIDE DEF n
  <2>5. CASE st = "confirmed"
    BY <2>1, <2>2, <2>3, <2>4, <2>5
  <2>6. CASE st # "confirmed"
    BY <2>1, <2>2, <2>3, <2>4, <2>6
  <2> QED  BY <2>5, <2>6
<1>4. Conservation' /\ NotOversold'
  BY <1>3 DEF Conservation, NotOversold
<1>5. TypeOK'
  BY <1>1, <1>2, <1>3 DEF TypeOK, Books
<1> QED  BY <1>2, <1>4, <1>5 DEF Inv

\* ConfirmReservation.
LEMMA ConfirmInv ==
    ASSUME Inv, NEW r \in ReservationIds, Confirm(r)
    PROVE  Inv'
<1>1. book \in Books /\ book[r].status = "reserved" /\ "confirmed" \in Terminal
  BY DEF Inv, TypeOK, Books, Confirm, Terminal, Statuses
<1>2. \A t \in TicketTypes : Cardinality(UnitsOf({r}, t)) = book[r].units[t]
  BY <1>1, UnitsOfOne
<1>3. reserved' = [t \in TicketTypes |-> reserved[t] - Cardinality(UnitsOf({r}, t))]
  BY <1>2 DEF Confirm
<1>4. sold' = [t \in TicketTypes |->
                 sold[t] + (IF "confirmed" = "confirmed" THEN Cardinality(UnitsOf({r}, t)) ELSE 0)]
  BY <1>2 DEF Confirm
<1>5. book' = Marked(book, {r}, "confirmed") /\ now' = now
  BY DEF Confirm
<1> QED  BY <1>1, <1>3, <1>4, <1>5, MoveInv

\* CancelReservation.
LEMMA CancelInv ==
    ASSUME Inv, NEW r \in ReservationIds, Cancel(r)
    PROVE  Inv'
<1>1. book \in Books /\ book[r].status = "reserved" /\ "cancelled" \in Terminal
  BY DEF Inv, TypeOK, Books, Cancel, Terminal, Statuses
<1>2. \A t \in TicketTypes : Cardinality(UnitsOf({r}, t)) = book[r].units[t]
  BY <1>1, UnitsOfOne
<1>3. reserved' = [t \in TicketTypes |-> reserved[t] - Cardinality(UnitsOf({r}, t))]
  BY <1>2 DEF Cancel
<1>4. sold' = [t \in TicketTypes |->
                 sold[t] + (IF "cancelled" = "confirmed" THEN Cardinality(UnitsOf({r}, t)) ELSE 0)]
  BY DEF Cancel, Inv, TypeOK
<1>5. book' = Marked(book, {r}, "cancelled") /\ now' = now
  BY DEF Cancel
<1> QED  BY <1>1, <1>3, <1>4, <1>5, MoveInv

\* A worker batch, or an expiration inside confirm or cancel.
LEMMA ExpireInv ==
    ASSUME Inv, NEW B \in SUBSET {x \in ReservationIds : Overdue(x)}, Expire(B)
    PROVE  Inv'
<1>1. /\ B \in SUBSET ReservationIds /\ \A r \in B : book[r].status = "reserved"
      /\ "expired" \in Terminal
  BY DEF Overdue, Terminal, Statuses
<1>2. reserved' = [t \in TicketTypes |-> reserved[t] - Cardinality(UnitsOf(B, t))]
  BY DEF Expire
<1>3. sold' = [t \in TicketTypes |->
                 sold[t] + (IF "expired" = "confirmed" THEN Cardinality(UnitsOf(B, t)) ELSE 0)]
  BY DEF Expire, Inv, TypeOK
<1>4. book' = Marked(book, B, "expired") /\ now' = now
  BY DEF Expire
<1> QED  BY <1>1, <1>2, <1>3, <1>4, MoveInv

\* ReserveSeats.  The holds it expires have no units, so leaving the counters
\* alone is right.
LEMMA CreateSeatsInv ==
    ASSUME Inv, NEW r \in Fresh, NEW op \in Operations, NEW e \in 0..(now + TTL),
           NEW wanted \in (SUBSET Seats) \ {{}},
           NEW X \in SUBSET {x \in ReservationIds : Overdue(x)},
           CreateSeats(r, op, wanted, X, e)
    PROVE  Inv'
<1> DEFINE m == Marked(book, X, "expired")
           new == [status |-> "reserved", operation |-> op, expires |-> e,
                   units |-> NoUnits, seats |-> wanted]
<1>1. /\ book \in Books /\ sold \in [TicketTypes -> Nat]
      /\ reserved \in [TicketTypes -> Nat] /\ now \in Nat
  BY DEF Inv, TypeOK, Books
<1>2. /\ X \in SUBSET ReservationIds /\ \A x \in X : book[x].status = "reserved"
      /\ "expired" \in Terminal
  BY DEF Overdue, Terminal, Statuses
<1>3. r \in ReservationIds /\ book[r].status = "none" /\ r \notin X
  BY <1>2 DEF Fresh
<1>4. /\ m \in Books
      /\ \A o \in ReservationIds :
            /\ m[o].status = (IF o \in X THEN "expired" ELSE book[o].status)
            /\ m[o].operation = book[o].operation
            /\ m[o].units = book[o].units
            /\ m[o].seats = book[o].seats
  BY <1>2, MarkedBook
<1>5. /\ new \in Booking
      /\ \A t \in TicketTypes : new.units[t] = 0
  BY <1>1, LedgerAssumption DEF Booking, NoUnits, Statuses
<1>6. book' = [m EXCEPT ![r] = new]
  BY DEF CreateSeats
<1>7. sold' = sold /\ reserved' = reserved /\ now' = now
  BY DEF CreateSeats
<1> HIDE DEF m
<1>8. book' \in Books
  BY <1>3, <1>4, <1>5, <1>6 DEF Books
<1>9. \A o \in ReservationIds : book'[o] = IF o = r THEN new ELSE m[o]
  BY <1>3, <1>4, <1>6 DEF Books
<1>10. ASSUME NEW t \in TicketTypes
       PROVE  /\ Cardinality(Held(book', "reserved", t)) = Cardinality(Held(book, "reserved", t))
              /\ Cardinality(Held(book', "confirmed", t)) = Cardinality(Held(book, "confirmed", t))
  <2>1. \A x \in X : book[x].units = NoUnits
    <3>1. \A x \in X : book[x].seats # {}
      BY DEF CreateSeats
    <3> QED  BY <3>1, <1>2 DEF Inv, SeatHoldsHaveNoUnits
  <2>2. UnitsOf(X, t) = {}
    BY <2>1, <1>2, LedgerAssumption DEF UnitsOf, NoUnits
  <2>3. Cardinality(UnitsOf(X, t)) = 0
    BY <2>2, FS_EmptySet
  <2>4. /\ Cardinality(Held(m, "reserved", t))
             = Cardinality(Held(book, "reserved", t)) - Cardinality(UnitsOf(X, t))
        /\ Cardinality(Held(m, "confirmed", t)) = Cardinality(Held(book, "confirmed", t)) + 0
    BY <1>1, <1>2, MarkCount DEF m
  <2>5. /\ Cardinality(Held(book, "reserved", t)) \in Nat
        /\ Cardinality(Held(book, "confirmed", t)) \in Nat
    BY HeldIsFinite, FS_CardinalityType
  <2>6. new.status = "reserved" /\ m[r].status = "none"
    BY <1>3, <1>4
  <2> HIDE DEF new
  <2>7. /\ Cardinality(Held(book', "reserved", t))
             = Cardinality(Held(m, "reserved", t)) + new.units[t]
        /\ Cardinality(Held(book', "confirmed", t)) = Cardinality(Held(m, "confirmed", t))
    BY <2>6, <1>3, <1>4, <1>5, <1>6, CreateCount
  <2>8. new.units[t] = 0
    BY <1>5
  <2> QED  BY <2>3, <2>4, <2>5, <2>7, <2>8
<1>11. Conservation' /\ NotOversold'
  BY <1>7, <1>10 DEF Inv, Conservation, NotOversold
<1>12. TypeOK'
  BY <1>1, <1>7, <1>8 DEF TypeOK, Books
<1>13. SeatExclusive'
  <2>1. \A o \in ReservationIds \ {r} :
          book'[o].status \in Active =>
             /\ o \notin X /\ book[o].status \in Active
             /\ book'[o].seats = book[o].seats
             /\ book[o].seats \cap wanted = {}
    <3> TAKE o \in ReservationIds \ {r}
    <3> HAVE book'[o].status \in Active
    <3>1. o \notin X /\ book[o].status \in Active /\ book'[o].seats = book[o].seats
      BY <1>4, <1>9 DEF Active
    <3> QED  BY <3>1 DEF CreateSeats
  <2>2. book'[r].seats = wanted
    BY <1>3, <1>9
  <2> SUFFICES ASSUME NEW r1 \in ReservationIds, NEW r2 \in ReservationIds, r1 # r2,
                      book'[r1].status \in Active, book'[r2].status \in Active
               PROVE  book'[r1].seats \cap book'[r2].seats = {}
    BY DEF SeatExclusive
  <2>3. CASE r1 = r
    BY <2>1, <2>2, <2>3
  <2>4. CASE r2 = r
    BY <2>1, <2>2, <2>4
  <2>5. CASE r1 # r /\ r2 # r
    BY <2>1, <2>5 DEF Inv, SeatExclusive
  <2> QED  BY <2>3, <2>4, <2>5
<1>14. KeyUnique'
  <2>1. \A o \in ReservationIds : book[o].operation # op
    BY DEF CreateSeats, KeyIsFree
  <2>2. \A o \in ReservationIds :
          book'[o].operation = IF o = r THEN op ELSE book[o].operation
    BY <1>4, <1>9
  <2> QED  BY <2>1, <2>2 DEF Inv, KeyUnique
<1>15. SeatHoldsHaveNoUnits'
  BY <1>4, <1>9 DEF Inv, SeatHoldsHaveNoUnits
<1> QED  BY <1>11, <1>12, <1>13, <1>14, <1>15 DEF Inv

\* Every step of the ledger keeps the invariant.
LEMMA NextInv ==
    ASSUME Inv, [Next]_vars
    PROVE  Inv'
<1>1. CASE UNCHANGED vars
  BY <1>1, SameBook DEF vars, Inv, TypeOK
<1>2. CASE Tick
  BY <1>2, SameBook DEF Tick, Inv, TypeOK
<1>3. ASSUME NEW r \in Fresh, NEW op \in Operations, NEW e \in 0..(now + TTL),
             NEW t \in TicketTypes, NEW q \in 1..MaxQuantity,
             CreateQuantity(r, op, t, q, e)
      PROVE  Inv'
  BY <1>3, CreateQuantityInv
<1>4. ASSUME NEW r \in Fresh, NEW op \in Operations, NEW e \in 0..(now + TTL),
             NEW S \in (SUBSET Seats) \ {{}},
             NEW X \in SUBSET {x \in ReservationIds : Overdue(x)},
             CreateSeats(r, op, S, X, e)
      PROVE  Inv'
  BY <1>4, CreateSeatsInv
<1>5. ASSUME NEW r \in ReservationIds, Confirm(r) PROVE Inv'
  BY <1>5, ConfirmInv
<1>6. ASSUME NEW r \in ReservationIds, Cancel(r) PROVE Inv'
  BY <1>6, CancelInv
<1>7. ASSUME NEW B \in SUBSET {x \in ReservationIds : Overdue(x)}, Expire(B) PROVE Inv'
  BY <1>7, ExpireInv
<1> QED  BY <1>1, <1>2, <1>3, <1>4, <1>5, <1>6, <1>7 DEF Next

--------------------------------------------------------------------------------
(* The theorems *)

\* The invariant holds in every reachable state of the ledger.
THEOREM LedgerInvariant == Spec => []Inv
<1>1. Inv /\ [Next]_vars => Inv'
  BY NextInv
<1> QED  BY <1>1, InitInv, PTL DEF Spec

\* Types: in particular no sequence of reservations, purchases, cancellations
\* and expirations drives a counter of ticket_types below zero.
THEOREM LedgerTypes == Spec => []TypeOK
<1>1. Inv => TypeOK
  BY DEF Inv
<1> QED  BY <1>1, LedgerInvariant, PTL

\* reserved_quantity and sold_quantity count exactly the units of the reserved
\* and of the confirmed reservations.
THEOREM CountersAreConserved == Spec => []Conservation
<1>1. Inv => Conservation
  BY DEF Inv
<1> QED  BY <1>1, LedgerInvariant, PTL

\* No ticket type is ever sold or held beyond its total quantity.
THEOREM NothingIsOversold == Spec => []NotOversold
<1>1. Inv => NotOversold
  BY DEF Inv
<1> QED  BY <1>1, LedgerInvariant, PTL

\* No seat ever has two active reservations.
THEOREM SeatsAreExclusive == Spec => []SeatExclusive
<1>1. Inv => SeatExclusive
  BY DEF Inv
<1> QED  BY <1>1, LedgerInvariant, PTL

\* A reservation that was confirmed, cancelled or expired never changes again.
THEOREM HistoryNeverChanges == Spec => HistoryIsFinal
<1>1. TypeOK /\ [Next]_vars
        => [\A r \in ReservationIds : book[r].status \in Terminal => book'[r] = book[r]]_vars
  <2> SUFFICES ASSUME TypeOK, Next, NEW x \in ReservationIds, book[x].status \in Terminal
               PROVE  book'[x] = book[x]
    OBVIOUS
  <2>1. book[x].status # "none" /\ book[x].status # "reserved"
    BY DEF Terminal, Statuses
  <2>2. ASSUME NEW B, x \notin B, NEW st
        PROVE  Marked(book, B, st)[x] = book[x]
    BY <2>2 DEF Marked
  <2>3. CASE Tick
    BY <2>3 DEF Tick
  <2>4. ASSUME NEW r \in Fresh, NEW op \in Operations, NEW e \in 0..(now + TTL),
               NEW t \in TicketTypes, NEW q \in 1..MaxQuantity,
               CreateQuantity(r, op, t, q, e)
        PROVE  book'[x] = book[x]
    BY <2>1, <2>4 DEF Fresh, CreateQuantity, TypeOK
  <2>5. ASSUME NEW r \in Fresh, NEW op \in Operations, NEW e \in 0..(now + TTL),
               NEW S \in (SUBSET Seats) \ {{}},
               NEW X \in SUBSET {y \in ReservationIds : Overdue(y)},
               CreateSeats(r, op, S, X, e)
        PROVE  book'[x] = book[x]
    <3>1. x # r /\ x \notin X
      BY <2>1 DEF Fresh, Overdue
    <3>2. book'[x] = Marked(book, X, "expired")[x]
      BY <2>5, <3>1 DEF CreateSeats, Marked
    <3> QED  BY <2>2, <3>1, <3>2
  <2>6. ASSUME NEW r \in ReservationIds, Confirm(r) \/ Cancel(r)
        PROVE  book'[x] = book[x]
    BY <2>1, <2>2, <2>6 DEF Confirm, Cancel
  <2>7. ASSUME NEW B \in SUBSET {y \in ReservationIds : Overdue(y)}, Expire(B)
        PROVE  book'[x] = book[x]
    BY <2>1, <2>2, <2>7 DEF Expire, Overdue
  <2> QED  BY <2>3, <2>4, <2>5, <2>6, <2>7 DEF Next
<1> QED  BY <1>1, LedgerTypes, PTL DEF Spec, HistoryIsFinal

================================================================================
