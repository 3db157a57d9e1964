------------------------- MODULE ReservationTxDeadlocks ------------------------
(***************************************************************************)
(* When the transactions of the reservation service cannot deadlock.       *)
(*                                                                         *)
(* Deadlocks exist: two workers whose batches meet on two ticket types,    *)
(* and clients that use an idempotency key for different requests.  Without *)
(* these two, every transaction waits only for transactions that are       *)
(* further on: at a later kind of statement, at a later id of the same     *)
(* statement, or with holds that ended later.  Such waits cannot close a   *)
(* circle.                                                                 *)
(***************************************************************************)
EXTENDS ReservationTxProofs

--------------------------------------------------------------------------------
(* What excludes a deadlock *)

\* A key names one request: whoever sends it again sends the same request.
KeysNameRequests ==
    \A a, b \in Creating :
        a.session = b.session /\ a.key = b.key =>
            /\ a.op = b.op
            /\ a.op = "quantity" => a.ticket = b.ticket
            /\ a.op = "seats" => Range(a.seats) = Range(b.seats)

\* There is one worker, or one ticket type.
WorkersApart ==
    (\A v, w \in Workers : v = w) \/ (\A t, u \in TicketTypes : t = u)

--------------------------------------------------------------------------------
(* What a transaction has locked where it waits *)

\* Rows are locked in the order seats, reservations, ticket types, and the rows of
\* the first two in the order of their ids; todo are the ids left.
InOrder(label, rows, todo) ==
    /\ label \in {"q_lookup", "q_update", "s_lookup", "t_lock"} => rows = {}
    /\ label = "s_lock" => \A x \in rows : x = SeatRow(x[2]) /\ \A n \in todo : x[2] < n
    /\ label = "s_list" => \A x \in rows : x = SeatRow(x[2])
    /\ label = "s_expire" =>
          \A x \in rows : \/ x = SeatRow(x[2])
                          \/ x = ReservationRow(x[2]) /\ \A n \in todo : x[2] < n
    /\ label \in {"s_header", "s_insert"} =>
          \A x \in rows : x = SeatRow(x[2]) \/ x = ReservationRow(x[2])
    /\ label = "t_apply" => \A x \in rows : x = ReservationRow(x[2])

LocksFit(p) == InOrder(pc[p], locks[p], loc[p].todo)

\* A batch keeps the ticket rows of the items it has moved.
ItemsLocked(w) ==
    \A r \in DOMAIN pend[w].reservation_items :
        TicketRow(pend[w].reservation_items[r].ticket) \in locks[w]

\* Reservation r is what the request rq asked for.
IsOf(r, rq) ==
    /\ rq.session = db.reservations[r].session /\ rq.key = db.reservations[r].key
    /\ rq.op = db.reservations[r].type
    /\ r \in DOMAIN db.reservation_items => db.reservation_items[r].ticket = rq.ticket
    /\ \A i \in DOMAIN db.reservation_seats : i[1] = r => i[2] \in Range(rq.seats)

Origins == \A r \in DOMAIN db.reservations : \E rq \in Creating : IsOf(r, rq)

OrderInv ==
    /\ \A p \in Procs : LocksFit(p)
    /\ \A w \in Workers : ItemsLocked(w)
    /\ Origins

--------------------------------------------------------------------------------
(* Who is further on *)

Level(label) ==
    CASE label \in {"q_update", "t_lock"} -> 0
      [] label = "s_lock" -> 1
      [] label = "s_expire" -> 2
      [] label = "s_insert" -> 3
      [] label = "s_header" -> 4
      [] label = "t_apply" -> 5
      [] label = "w_apply" -> 6
      [] OTHER -> 7

\* o has expired a hold that ended later than all those p has expired.
ExpiredLater(p, o) ==
    \E r \in Moved(o) : \A x \in Moved(p) : db.reservations[x].expires < db.reservations[r].expires

\* o is further on than p.
Ahead(p, o) ==
    \/ Level(pc[p]) < Level(pc[o])
    \/ pc[p] = pc[o] /\ pc[p] \in {"s_lock", "s_expire"} /\ NextId(p) < NextId(o)
    \/ pc[p] = pc[o] /\ pc[p] = "s_insert" /\ ExpiredLater(p, o)

--------------------------------------------------------------------------------
(* The order of the locks is kept *)

\* A step of p changes nobody else's transaction.
Alone(p) ==
    \A o \in Procs : o # p =>
        pend'[o] = pend[o] /\ locks'[o] = locks[o] /\ pc'[o] = pc[o] /\ loc'[o] = loc[o]

\* A step of p keeps the order if p does.
LEMMA AloneOrder ==
    ASSUME OrderInv, NEW p \in Procs, Alone(p), InOrder(pc'[p], locks'[p], loc'[p].todo),
           p \in Workers => ItemsLocked(p)', Origins'
    PROVE  OrderInv'
<1>1. ASSUME NEW o \in Procs PROVE LocksFit(o)'
  <2>1. CASE o = p
    BY <2>1 DEF LocksFit
  <2>2. CASE o # p
    <3>1. LocksFit(o) /\ pc'[o] = pc[o] /\ locks'[o] = locks[o] /\ loc'[o] = loc[o]
      BY <2>2 DEF OrderInv, Alone
    <3> QED
      BY <3>1 DEF LocksFit
  <2> QED
    BY <2>1, <2>2
<1>2. ASSUME NEW w \in Workers PROVE ItemsLocked(w)'
  <2>1. CASE w = p
    BY <2>1
  <2>2. CASE w # p
    <3>1. ItemsLocked(w) /\ pend'[w] = pend[w] /\ locks'[w] = locks[w]
      BY <2>2 DEF OrderInv, Alone, Procs
    <3> QED
      BY <3>1 DEF ItemsLocked
  <2> QED
    BY <2>1, <2>2
<1> QED
  BY <1>1, <1>2 DEF OrderInv

\* What was asked for does not change as long as nothing is committed.
LEMMA SameOrigins ==
    ASSUME Origins, db' = db
    PROVE  Origins'
BY DEF Origins, IsOf

\* Nothing is out of order where nothing is locked, and at the other labels.
LEMMA InOrderAt ==
    ASSUME NEW label, NEW rows, NEW todo,
           \/ rows = {}
           \/ label \in {"idle", "done", "down", "commit", "q_header", "q_replay", "s_replay",
                         "g_header", "g_children", "w_apply"}
    PROVE  InOrder(label, rows, todo)
BY DEF InOrder

\* A step that goes on keeps the order if the new locks fit the new label.
LEMMA OwnStepOrder ==
    ASSUME Inv, OrderInv, NEW p \in Procs, NEW w, NEW rows, NEW label, NEW l,
           OwnStep(p, w, rows, label, l), InOrder(label, rows, l.todo),
           p \in Workers => ItemsLocked(p)'
    PROVE  OrderInv'
<1>1. DOMAIN pend = Procs /\ DOMAIN locks = Procs /\ DOMAIN pc = Procs /\ DOMAIN loc = Procs
  BY DEF Inv, Types
<1>2. /\ Alone(p) /\ pc'[p] = label /\ locks'[p] = rows /\ loc'[p] = l /\ db' = db
  BY <1>1 DEF Alone, OwnStep, Becomes
<1>3. Origins'
  BY <1>2, SameOrigins DEF OrderInv
<1> QED
  BY <1>2, <1>3, AloneOrder

\* The end of a transaction keeps it.
LEMMA EndOrder ==
    ASSUME Inv, OrderInv, NEW p \in Procs, EndTx(p), NEW a, Finish(p, a), Origins'
    PROVE  OrderInv'
<1>1. DOMAIN pend = Procs /\ DOMAIN locks = Procs /\ DOMAIN pc = Procs /\ DOMAIN loc = Procs
  BY DEF Inv, Types
<1>2. /\ Alone(p) /\ pc'[p] \in {"done", "idle"} /\ locks'[p] = {} /\ pend'[p] = NoWrites
  BY <1>1 DEF Alone, EndTx, Finish, Goto
<1>3. ItemsLocked(p)'
  BY <1>2, NothingWritten DEF ItemsLocked
<1> QED
  BY <1>2, <1>3, AloneOrder, InOrderAt

\* A rollback keeps it.
LEMMA FailOrder ==
    ASSUME Inv, OrderInv, NEW p \in Procs, NEW code, Fail(p, code)
    PROVE  OrderInv'
<1>1. Origins' /\ EndTx(p) /\ Finish(p, Failure(code))
  BY SameOrigins DEF Fail, OrderInv
<1> QED
  BY <1>1, EndOrder

\* An answer outside a transaction keeps it.
LEMMA AnswerOrder ==
    ASSUME Inv, OrderInv, NEW h \in Handlers, NEW a, Finish(h, a), UNCHANGED <<db, pend, locks>>
    PROVE  OrderInv'
<1>1. DOMAIN pc = Procs /\ DOMAIN loc = Procs /\ h \in Procs /\ h \notin Workers
  BY HandlerFacts
<1>2. Alone(h) /\ pc'[h] = "done" /\ Origins'
  BY <1>1, SameOrigins DEF Alone, Finish, Goto, OrderInv
<1> QED
  BY <1>1, <1>2, AloneOrder, InOrderAt

\* A statement of a handler that goes on with the locks rows.
LEMMA ContinueOrder ==
    ASSUME Inv, OrderInv, NEW h \in Handlers, NEW w, NEW rows, NEW label, NEW l,
           Continue(h, label, l),
           pend' = [pend EXCEPT ![h] = w] \/ (pend' = pend /\ w = pend[h]),
           locks' = [locks EXCEPT ![h] = rows] \/ (locks' = locks /\ rows = locks[h]),
           InOrder(label, rows, l.todo)
    PROVE  OrderInv'
<1>1. h \in Procs /\ h \notin Workers /\ Types
  BY HandlerFacts DEF Inv
<1>2. OwnStep(h, w, rows, label, l)
  BY <1>1, IsOwnStep
<1> QED
  BY <1>1, <1>2, OwnStepOrder

\* A read of a handler keeps it at a label that fits its locks.
LEMMA ReadOrder ==
    ASSUME Inv, OrderInv, NEW h \in Handlers, NEW label, NEW l, Read(h, label, l),
           InOrder(label, locks[h], l.todo)
    PROVE  OrderInv'
<1> DEFINE w == pend[h]
           rows == locks[h]
<1>1. /\ Continue(h, label, l) /\ pend' = pend /\ locks' = locks /\ w = pend[h] /\ rows = locks[h]
      /\ InOrder(label, rows, l.todo)
  BY DEF Read
<1> HIDE DEF w, rows
<1> QED
  BY <1>1, ContinueOrder

--------------------------------------------------------------------------------
(* The statements of a request *)

\* A request starts without locks.
LEMMA BeginRequestOrder ==
    ASSUME Inv, OrderInv, NEW h \in Handlers, BeginRequest(h)
    PROVE  OrderInv'
<1> USE HandlerFacts
<1>1. locks[h] = {} /\ UNCHANGED <<db, pend, locks>>
  BY DEF BeginRequest, Closed, TxLabels
<1>2. CASE \E a : Finish(h, a)
  BY <1>1, <1>2, AnswerOrder
<1>3. CASE \E label, time : Goto(h, label) /\ loc' = [loc EXCEPT ![h].expires = time]
  <2>1. Alone(h) /\ Origins' /\ locks'[h] = {}
    BY <1>1, <1>3, SameOrigins DEF Alone, Goto, OrderInv
  <2> QED
    BY <2>1, AloneOrder, InOrderAt
<1> QED
  BY <1>2, <1>3 DEF BeginRequest

\* The lookup locks nothing.
LEMMA QuantityLookupOrder ==
    ASSUME Inv, OrderInv, NEW h \in Handlers, QuantityLookup(h)
    PROVE  OrderInv'
<1>1. pc[h] = "q_lookup" /\ h \in Procs
  BY HandlerFacts DEF QuantityLookup, At
<1>2. locks[h] = {}
  BY <1>1 DEF OrderInv, LocksFit, InOrder
<1>3. PICK label, l : Read(h, label, l)
  BY DEF QuantityLookup
<1> QED
  BY <1>2, <1>3, ReadOrder, InOrderAt

\* The stock UPDATE takes the ticket row, after which nothing is locked any more.
LEMMA QuantityUpdateOrder ==
    ASSUME Inv, OrderInv, NEW h \in Handlers, QuantityUpdate(h)
    PROVE  OrderInv'
<1>1. CASE Fail(h, "INSUFFICIENT_STOCK")
  BY <1>1, FailOrder, HandlerFacts
<1>2. CASE \E w, rows : Write(h, w) /\ Lock(h, rows) /\ Continue(h, "q_header", loc[h])
  <2>1. PICK w, new : Write(h, w) /\ Lock(h, new) /\ Continue(h, "q_header", loc[h])
    BY <1>2
  <2> DEFINE all == Overlay(w, pend[h])
             rows == locks[h] \cup new
             l == loc[h]
  <2>2. /\ pend' = [pend EXCEPT ![h] = all] /\ locks' = [locks EXCEPT ![h] = rows]
        /\ Continue(h, "q_header", l)
    BY <2>1 DEF Write, Lock
  <2>3. InOrder("q_header", rows, l.todo)
    BY InOrderAt
  <2> HIDE DEF all, rows, l
  <2> QED
    BY <2>2, <2>3, ContinueOrder
<1> QED
  BY <1>1, <1>2 DEF QuantityUpdate

\* A statement that writes and leaves the locks alone.
LEMMA WriteOrder ==
    ASSUME Inv, OrderInv, NEW h \in Handlers, NEW w, NEW label, NEW l,
           Write(h, w), UNCHANGED locks, Continue(h, label, l), InOrder(label, locks[h], l.todo)
    PROVE  OrderInv'
<1> DEFINE all == Overlay(w, pend[h])
           rows == locks[h]
<1>1. /\ pend' = [pend EXCEPT ![h] = all] /\ locks' = locks /\ rows = locks[h]
      /\ InOrder(label, rows, l.todo)
  BY DEF Write
<1> HIDE DEF all, rows
<1> QED
  BY <1>1, ContinueOrder

\* A rollback that goes on with a replay.
LEMMA RollbackOrder ==
    ASSUME Inv, OrderInv, NEW h \in Handlers, NEW label, NEW l, EndTx(h), Continue(h, label, l)
    PROVE  OrderInv'
<1> DEFINE none == {}
<1>1. /\ pend' = [pend EXCEPT ![h] = NoWrites] /\ locks' = [locks EXCEPT ![h] = none]
      /\ InOrder(label, none, l.todo)
  BY InOrderAt DEF EndTx
<1> HIDE DEF none
<1> QED
  BY <1>1, ContinueOrder

\* The header and the item take no row lock, a key conflict releases the ticket row.
LEMMA QuantityHeaderOrder ==
    ASSUME Inv, OrderInv, NEW h \in Handlers, QuantityHeader(h)
    PROVE  OrderInv'
<1>1. CASE EndTx(h) /\ Continue(h, "q_replay", loc[h])
  BY <1>1, RollbackOrder
<1>2. CASE \E w, l : Write(h, w) /\ Continue(h, "commit", l) /\ UNCHANGED locks
  BY <1>2, WriteOrder, InOrderAt
<1> QED
  BY <1>1, <1>2 DEF QuantityHeader

\* A replay runs outside the transaction.
LEMMA ReplayOrder ==
    ASSUME Inv, OrderInv, NEW h \in Handlers, NEW found, Replay(h, found)
    PROVE  OrderInv'
BY AnswerOrder DEF Replay

\* The lookup of a seat request locks nothing.
LEMMA SeatLookupOrder ==
    ASSUME Inv, OrderInv, NEW h \in Handlers, SeatLookup(h)
    PROVE  OrderInv'
<1>1. pc[h] = "s_lookup" /\ h \in Procs
  BY HandlerFacts DEF SeatLookup, At
<1>2. locks[h] = {}
  BY <1>1 DEF OrderInv, LocksFit, InOrder
<1>3. CASE \E label, l : Read(h, label, l)
  BY <1>2, <1>3, ReadOrder, InOrderAt
<1>4. CASE Fail(h, "SEATS_NOT_FOUND")
  BY <1>1, <1>4, FailOrder
<1> QED
  BY <1>3, <1>4 DEF SeatLookup

\* The next id is the least of those left.
LEMMA NextIdLeast ==
    ASSUME Inv, NEW h \in Handlers, loc[h].todo # {}
    PROVE  /\ NextId(h) \in loc[h].todo /\ loc[h].todo \subseteq Nat
           /\ \A n \in loc[h].todo \ {NextId(h)} : NextId(h) < n
<1> DEFINE todo == loc[h].todo
<1>1. todo \subseteq Nat /\ todo # {}
  BY HandlerFacts DEF Locals
<1> HIDE DEF todo
<1>2. Min(todo) \in todo /\ \A n \in todo : Min(todo) <= n
  BY <1>1, MinLeast
<1>3. \A n \in todo : n \in Nat
  BY <1>1
<1>4. \A n \in todo \ {Min(todo)} : Min(todo) < n
  BY <1>2, <1>3
<1> QED
  BY <1>1, <1>2, <1>4 DEF todo, NextId

\* LockEventSeats goes in the order of the ids.
LEMMA SeatLockOrder ==
    ASSUME Inv, OrderInv, NEW h \in Handlers, SeatLock(h)
    PROVE  OrderInv'
<1> USE HandlerFacts
<1> DEFINE s == NextId(h)
           rest == loc[h].todo \ {s}
           l == [loc[h] EXCEPT !.todo = rest]
           rows == locks[h] \cup {SeatRow(s)}
           label == IF rest = {} THEN "s_list" ELSE "s_lock"
           w == pend[h]
<1>1. /\ pc[h] = "s_lock" /\ loc[h].todo # {}
  BY DEF SeatLock, At, HandlerInv, SeatsFit
<1>2. \A x \in locks[h] : x = SeatRow(x[2]) /\ \A n \in loc[h].todo : x[2] < n
  BY <1>1 DEF OrderInv, LocksFit, InOrder
<1>3. \A n \in rest : s < n
  BY <1>1, NextIdLeast
<1>4. CASE Fail(h, "SEATS_NOT_FOUND")
  BY <1>4, FailOrder
<1>5. CASE Lock(h, {SeatRow(s)}) /\ Continue(h, label, l) /\ UNCHANGED pend
  <2>1. l.todo = rest
    BY DEF Locals
  <2>2. ASSUME NEW x \in rows PROVE x = SeatRow(x[2]) /\ \A n \in rest : x[2] < n
    <3>1. CASE x \in locks[h]
      BY <1>2, <3>1
    <3>2. CASE x = SeatRow(s)
      BY <1>3, <3>2 DEF SeatRow
    <3> QED
      BY <3>1, <3>2
  <2>3. InOrder(label, rows, l.todo)
    <3>1. label \in {"s_list", "s_lock"}
      OBVIOUS
    <3> HIDE DEF label, rows, l
    <3> QED
      BY <2>1, <2>2, <3>1 DEF InOrder
  <2>4. /\ locks' = [locks EXCEPT ![h] = rows] /\ pend' = pend /\ w = pend[h]
        /\ Continue(h, label, l)
    BY <1>5 DEF Lock
  <2> HIDE DEF l, rows, label, w
  <2> QED
    BY <2>3, <2>4, ContinueOrder
<1> QED
  BY <1>4, <1>5 DEF SeatLock

\* Listing the stale holds keeps the seat rows.
LEMMA SeatListOrder ==
    ASSUME Inv, OrderInv, NEW h \in Handlers, SeatList(h)
    PROVE  OrderInv'
<1>1. pc[h] = "s_list" /\ h \in Procs
  BY HandlerFacts DEF SeatList, At
<1>2. \A x \in locks[h] : x = SeatRow(x[2])
  BY <1>1 DEF OrderInv, LocksFit, InOrder
<1>3. PICK label, l : Read(h, label, l) /\ label \in {"s_header", "s_expire"}
  BY DEF SeatList
<1>4. InOrder(label, locks[h], l.todo)
  BY <1>2, <1>3 DEF InOrder
<1> QED
  BY <1>3, <1>4, ReadOrder

\* LockReservationsByID too.
LEMMA SeatExpireOrder ==
    ASSUME Inv, OrderInv, NEW h \in Handlers, SeatExpire(h)
    PROVE  OrderInv'
<1> USE HandlerFacts
<1> DEFINE r == NextId(h)
           rest == loc[h].todo \ {r}
           rows == locks[h] \cup {ReservationRow(r)}
<1>1. /\ pc[h] = "s_expire" /\ loc[h].todo # {}
  BY DEF SeatExpire, At, HandlerInv, SeatsFit
<1>2. \A x \in locks[h] :
         x = SeatRow(x[2]) \/ (x = ReservationRow(x[2]) /\ \A n \in loc[h].todo : x[2] < n)
  BY <1>1 DEF OrderInv, LocksFit, InOrder
<1>3. \A n \in rest : r < n
  BY <1>1, NextIdLeast
<1>4. ASSUME NEW x \in rows
      PROVE  x = SeatRow(x[2]) \/ (x = ReservationRow(x[2]) /\ \A n \in rest : x[2] < n)
  <2>1. CASE x \in locks[h]
    BY <1>2, <2>1
  <2>2. CASE x = ReservationRow(r)
    BY <1>3, <2>2 DEF ReservationRow
  <2> QED
    BY <2>1, <2>2
<1>5. locks' = [locks EXCEPT ![h] = rows]
  BY DEF SeatExpire, Lock
<1>6. CASE rest = {}
  <2>1. PICK w, l : Write(h, w) /\ Continue(h, "s_header", l)
    BY <1>6 DEF SeatExpire
  <2> DEFINE all == Overlay(w, pend[h])
  <2>2. InOrder("s_header", rows, l.todo)
    <3> HIDE DEF rows
    <3> QED
      BY <1>4 DEF InOrder
  <2>3. pend' = [pend EXCEPT ![h] = all]
    BY <2>1 DEF Write
  <2> HIDE DEF all, rows
  <2> QED
    BY <1>5, <2>1, <2>2, <2>3, ContinueOrder
<1>7. CASE rest # {}
  <2> DEFINE l == [loc[h] EXCEPT !.todo = rest]
             w == pend[h]
  <2>1. Continue(h, "s_expire", l) /\ pend' = pend /\ w = pend[h]
    BY <1>7 DEF SeatExpire
  <2>2. l.todo = rest
    BY DEF Locals
  <2> HIDE DEF l, rows, w
  <2>3. InOrder("s_expire", rows, l.todo)
    BY <1>4, <2>2 DEF InOrder
  <2> QED
    BY <1>5, <2>1, <2>3, ContinueOrder
<1> QED
  BY <1>6, <1>7

\* The header of a seat reservation goes in with the seats and the stale holds locked.
LEMMA SeatHeaderOrder ==
    ASSUME Inv, OrderInv, NEW h \in Handlers, SeatHeader(h)
    PROVE  OrderInv'
<1>1. pc[h] = "s_header" /\ h \in Procs
  BY HandlerFacts DEF SeatHeader, At
<1>2. \A x \in locks[h] : x = SeatRow(x[2]) \/ x = ReservationRow(x[2])
  BY <1>1 DEF OrderInv, LocksFit, InOrder
<1>3. CASE EndTx(h) /\ Continue(h, "s_replay", loc[h])
  BY <1>3, RollbackOrder
<1>4. CASE \E w, l : Write(h, w) /\ Continue(h, "s_insert", l) /\ UNCHANGED locks
  <2>1. PICK w, l : Write(h, w) /\ Continue(h, "s_insert", l) /\ UNCHANGED locks
    BY <1>4
  <2>2. InOrder("s_insert", locks[h], l.todo)
    BY <1>2 DEF InOrder
  <2> QED
    BY <2>1, <2>2, WriteOrder
<1> QED
  BY <1>3, <1>4 DEF SeatHeader

\* So do its seats.
LEMMA SeatInsertOrder ==
    ASSUME Inv, OrderInv, NEW h \in Handlers, SeatInsert(h)
    PROVE  OrderInv'
<1>1. pc[h] = "s_insert" /\ h \in Procs
  BY HandlerFacts DEF SeatInsert, At
<1>2. \A x \in locks[h] : x = SeatRow(x[2]) \/ x = ReservationRow(x[2])
  BY <1>1 DEF OrderInv, LocksFit, InOrder
<1>3. CASE Fail(h, "SEAT_UNAVAILABLE")
  BY <1>1, <1>3, FailOrder
<1>4. CASE \E w, label, l : /\ Write(h, w) /\ Continue(h, label, l) /\ UNCHANGED locks
                            /\ label \in {"commit", "s_insert"}
  <2>1. PICK w, label, l : /\ Write(h, w) /\ Continue(h, label, l) /\ UNCHANGED locks
                           /\ label \in {"commit", "s_insert"}
    BY <1>4
  <2>2. InOrder(label, locks[h], l.todo)
    BY <1>2, <2>1 DEF InOrder
  <2> QED
    BY <2>1, <2>2, WriteOrder
<1> QED
  BY <1>3, <1>4 DEF SeatInsert

\* A transition locks one header before it needs a ticket row.
LEMMA TransitionLockOrder ==
    ASSUME Inv, OrderInv, NEW h \in Handlers, TransitionLock(h)
    PROVE  OrderInv'
<1> DEFINE r == req[h].id
           rows == locks[h] \cup {ReservationRow(r)}
           w == pend[h]
<1>1. pc[h] = "t_lock" /\ h \in Procs
  BY HandlerFacts DEF TransitionLock, At
<1>2. locks[h] = {}
  BY <1>1 DEF OrderInv, LocksFit, InOrder
<1>3. CASE Fail(h, "NOT_FOUND")
  BY <1>1, <1>3, FailOrder
<1>4. CASE \E label, l : /\ Lock(h, {ReservationRow(r)}) /\ Continue(h, label, l) /\ UNCHANGED pend
                         /\ label \in {"commit", "t_apply"}
  <2>1. PICK label, l : /\ Lock(h, {ReservationRow(r)}) /\ Continue(h, label, l) /\ UNCHANGED pend
                        /\ label \in {"commit", "t_apply"}
    BY <1>4
  <2>2. \A x \in rows : x = ReservationRow(x[2])
    BY <1>2 DEF ReservationRow
  <2>3. locks' = [locks EXCEPT ![h] = rows] /\ pend' = pend /\ w = pend[h]
    BY <2>1 DEF Lock
  <2> HIDE DEF rows, w
  <2>4. InOrder(label, rows, l.todo)
    BY <2>1, <2>2 DEF InOrder
  <2> QED
    BY <2>1, <2>3, <2>4, ContinueOrder
<1> QED
  BY <1>3, <1>4 DEF TransitionLock

\* The ticket row is the last row a transition locks.
LEMMA TransitionApplyOrder ==
    ASSUME Inv, OrderInv, NEW h \in Handlers, TransitionApply(h)
    PROVE  OrderInv'
<1>1. CASE Fail(h, "INCONSISTENT")
  BY <1>1, FailOrder, HandlerFacts
<1>2. CASE \E w, new, l : Write(h, w) /\ Lock(h, new) /\ Continue(h, "commit", l)
  <2>1. PICK w, new, l : Write(h, w) /\ Lock(h, new) /\ Continue(h, "commit", l)
    BY <1>2
  <2> DEFINE all == Overlay(w, pend[h])
             rows == locks[h] \cup new
  <2>2. pend' = [pend EXCEPT ![h] = all] /\ locks' = [locks EXCEPT ![h] = rows]
    BY <2>1 DEF Write, Lock
  <2>3. InOrder("commit", rows, l.todo)
    BY InOrderAt
  <2> HIDE DEF all, rows
  <2> QED
    BY <2>1, <2>2, <2>3, ContinueOrder
<1> QED
  BY <1>1, <1>2 DEF TransitionApply

\* GetReservation locks nothing.
LEMMA GetOrder ==
    ASSUME Inv, OrderInv, NEW h \in Handlers, GetHeader(h) \/ GetChildren(h)
    PROVE  OrderInv'
<1>1. CASE \E l : Read(h, "g_children", l)
  BY <1>1, ReadOrder, InOrderAt
<1>2. CASE Fail(h, "NOT_FOUND")
  BY <1>2, FailOrder, HandlerFacts
<1>3. CASE \E a : Finish(h, a) /\ UNCHANGED <<db, pend, locks>>
  BY <1>3, AnswerOrder
<1> QED
  BY <1>1, <1>2, <1>3 DEF GetHeader, GetChildren

\* Every statement of a request keeps the order.
LEMMA HandlerStepOrder ==
    ASSUME Inv, OrderInv, NEW h \in Handlers, HandlerStep(h)
    PROVE  OrderInv'
<1>1. CASE QuantityReplay(h) \/ SeatReplay(h)
  BY <1>1, ReplayOrder DEF QuantityReplay, SeatReplay
<1> QED
  BY <1>1, BeginRequestOrder, QuantityLookupOrder, QuantityUpdateOrder, QuantityHeaderOrder,
     SeatLookupOrder, SeatLockOrder, SeatListOrder, SeatExpireOrder, SeatHeaderOrder,
     SeatInsertOrder, TransitionLockOrder, TransitionApplyOrder, GetOrder
     DEF HandlerStep

--------------------------------------------------------------------------------
(* The worker, the commits and time *)

\* A worker starts its batch with reservation rows.
LEMMA WorkerScanOrder ==
    ASSUME Inv, OrderInv, NEW w \in Workers, WorkerScan(w)
    PROVE  OrderInv'
<1> USE WorkerFacts
<1>1. pend'[w] = NoWrites /\ Alone(w) /\ pc'[w] = "w_apply" /\ db' = db
  BY DEF WorkerScan, Closed, TxLabels, Alone, Lock, Continue, Goto
<1>2. ItemsLocked(w)' /\ Origins'
  BY <1>1, NothingWritten, SameOrigins DEF ItemsLocked, OrderInv
<1> QED
  BY <1>1, <1>2, AloneOrder, InOrderAt

\* It locks the ticket row of every item it moves.
LEMMA ExpiredOrder ==
    ASSUME Inv, OrderInv, NEW p \in Workers, NEW r, r = Current(p),
           pc[p] = "w_apply", ~InvariantBroken(View(p), r),
           NEW w, w = TransitionLocked(View(p), r, "expired"), NEW label, NEW l,
           Write(p, w), Lock(p, {TicketRow(t) : t \in DOMAIN w.ticket_types}),
           Continue(p, label, l), label \in {"commit", "w_apply"}
    PROVE  OrderInv'
<1> USE WorkerFacts
<1> DEFINE rows == locks[p] \cup {TicketRow(t) : t \in DOMAIN w.ticket_types}
           new == Overlay(w, pend[p])
<1>1. MayMove(p, r)
  BY CurrentIn DEF BatchFits, MayMove, Created
<1>2. OwnStep(p, new, rows, label, l)
  BY IsOwnStep DEF Write, Lock, Inv
<1>3. new = Overlay(w, pend[p])
  OBVIOUS
<1>4. locks[p] \subseteq rows /\ \A t \in DOMAIN w.ticket_types : TicketRow(t) \in rows
  OBVIOUS
<1> HIDE DEF new, rows
<1>5. "expired" \in Final
  BY DEF Final
<1>6. Adds(p, r, "expired", w, new)
  BY <1>1, <1>3, <1>5, MoveRows
<1>7. pend'[p] = new /\ locks'[p] = rows
  BY <1>2 DEF OwnStep, Becomes
<1>8. ASSUME NEW y \in DOMAIN new.reservation_items
      PROVE  TicketRow(new.reservation_items[y].ticket) \in rows
  <2>1. CASE y \in DOMAIN pend[p].reservation_items
    BY <1>4, <1>6, <2>1 DEF Adds, OrderInv, ItemsLocked
  <2>2. CASE y = r /\ r \in DOMAIN db.reservation_items
    <3>1. db.reservations[r].type = "quantity"
      BY <1>1, <2>2, MayMoveReads DEF Inv, Committed, ChildrenOf, MayMove
    <3>2. db.reservation_items[r] \in Item
      BY <2>2 DEF WellTyped
    <3>3. new.reservation_items[y].ticket = db.reservation_items[r].ticket
      BY <1>6, <2>2, <3>2 DEF Adds, Item
    <3>4. db.reservation_items[r].ticket \in DOMAIN w.ticket_types
      BY <1>6, <3>1 DEF Adds
    <3> QED
      BY <1>4, <3>3, <3>4
  <2> QED
    BY <1>6, <2>1, <2>2 DEF Adds
<1>9. ItemsLocked(p)'
  BY <1>7, <1>8 DEF ItemsLocked
<1> QED
  BY <1>2, <1>9, OwnStepOrder, InOrderAt

\* A worker moves the next reservation of its batch, or rolls the batch back.
LEMMA WorkerApplyOrder ==
    ASSUME Inv, OrderInv, NEW w \in Workers, WorkerApply(w)
    PROVE  OrderInv'
<1> DEFINE r == Current(w)
           rest == loc[w].todo \ {r}
           writes == TransitionLocked(View(w), r, "expired")
           label == IF rest = {} THEN "commit" ELSE "w_apply"
           l == [loc[w] EXCEPT !.todo = rest]
<1>1. pc[w] = "w_apply"
  BY DEF WorkerApply, At
<1>2. CASE Fail(w, "INCONSISTENT")
  BY <1>2, FailOrder, WorkerFacts
<1>3. CASE /\ ~InvariantBroken(View(w), r)
           /\ Write(w, writes) /\ Lock(w, {TicketRow(t) : t \in DOMAIN writes.ticket_types})
           /\ Continue(w, label, l)
  <2>1. label \in {"commit", "w_apply"}
    OBVIOUS
  <2> HIDE DEF r, writes, label, l
  <2>2. r = Current(w) /\ writes = TransitionLocked(View(w), r, "expired")
    BY DEF r, writes
  <2> QED
    BY <1>1, <1>3, <2>1, <2>2, ExpiredOrder
<1> QED
  BY <1>2, <1>3 DEF WorkerApply

\* SIGTERM releases everything, and a restart has nothing.
LEMMA RestartOrder ==
    ASSUME Inv, OrderInv, NEW w \in Workers, Shutdown(w) \/ Start(w)
    PROVE  OrderInv'
<1> USE WorkerFacts
<1>1. /\ pend'[w] = NoWrites /\ Alone(w) /\ pc'[w] \in {"down", "idle"} /\ db' = db
  BY DEF Shutdown, Start, EndTx, Closed, TxLabels, Alone, Goto
<1>2. ItemsLocked(w)' /\ Origins'
  BY <1>1, NothingWritten, SameOrigins DEF ItemsLocked, OrderInv
<1> QED
  BY <1>1, <1>2, AloneOrder, InOrderAt

\* A broken connection or a deadlock rolls back.
LEMMA AbortOrder ==
    ASSUME Inv, OrderInv, NEW p \in Procs, Interrupt(p) \/ DeadlockAbort(p)
    PROVE  OrderInv'
BY FailOrder DEF Interrupt, DeadlockAbort

\* Time moves nobody.
LEMMA TimeOrder ==
    ASSUME OrderInv, UNCHANGED <<db, pend, locks, pc, loc>>
    PROVE  OrderInv'
BY DEF OrderInv, LocksFit, ItemsLocked, Origins, IsOf

\* What is committed of a reservation that was there already: its status.
LEMMA MovedOrigin ==
    ASSUME Inv, NEW p \in Procs, db' = View(p), NEW r \in DOMAIN db.reservations, NEW rq, IsOf(r, rq)
    PROVE  IsOf(r, rq)'
<1>1. IsOverlay(db', pend[p], db)
  BY ViewRows DEF Inv
<1>2. Writes(p) /\ WellTyped(db)
  BY DEF Inv, ProcInv, Types
<1>3. /\ db'.reservations[r].session = db.reservations[r].session
      /\ db'.reservations[r].key = db.reservations[r].key
      /\ db'.reservations[r].type = db.reservations[r].type
  <2>1. CASE r \in DOMAIN pend[p].reservations
    <3>1. MovedRow(p, r) /\ db.reservations[r] \in Header
      BY <1>2, <2>1 DEF Writes, MovedRows, Moved, WellTyped
    <3>2. db'.reservations[r] = pend[p].reservations[r]
      BY <1>1, <2>1 DEF IsOverlay, IsPatched
    <3> QED
      BY <3>1, <3>2 DEF MovedRow, Header
  <2>2. CASE r \notin DOMAIN pend[p].reservations
    BY <1>1, <2>2 DEF IsOverlay, IsPatched
  <2> QED
    BY <2>1, <2>2
<1>4. ASSUME r \in DOMAIN db'.reservation_items PROVE db'.reservation_items[r].ticket = rq.ticket
  <2>1. CASE r \in DOMAIN pend[p].reservation_items
    BY <1>1, <1>2, <2>1 DEF IsOverlay, IsPatched, Writes, ItemRows, IsOf
  <2>2. CASE r \notin DOMAIN pend[p].reservation_items
    BY <1>1, <1>4, <2>2 DEF IsOverlay, IsPatched, IsOf
  <2> QED
    BY <2>1, <2>2
<1>5. ASSUME NEW i \in DOMAIN db'.reservation_seats, i[1] = r PROVE i[2] \in Range(rq.seats)
  <2>1. i \in DOMAIN db.reservation_seats
    BY <1>1, <1>2, <1>5 DEF IsOverlay, IsPatched, Writes, SeatRows
  <2> QED
    BY <1>5, <2>1 DEF IsOf
<1> QED
  BY <1>3, <1>4, <1>5 DEF IsOf

\* What is committed of a new reservation: what was asked for.
LEMMA CreatedOrigin ==
    ASSUME Inv, NEW p \in Procs, pc[p] = "commit", db' = View(p), NEW r \in Created(p)
    PROVE  \E rq \in Creating : IsOf(r, rq)'
<1>1. IsOverlay(db', pend[p], db)
  BY ViewRows DEF Inv
<1>2. /\ Writes(p) /\ Committed /\ WellTyped(pend[p])
      /\ r \in DOMAIN pend[p].reservations /\ r \notin DOMAIN db.reservations
  BY DEF Inv, ProcInv, Types, Created
<1>3. p \in Handlers /\ HandlerInv(p)
  BY <1>2 DEF Inv, ProcInv, BatchFits, Procs
<1>4. req[p] \in Requests[p] /\ req[p].op # "get"
  BY <1>3 DEF HandlerInv, RequestFits
<1>5. pend[p] # NoWrites
  BY <1>2, NothingWritten
<1>6. ~Lifecycle(p)
  BY <1>2, <1>3 DEF HandlerInv, TransitionFits, HeaderLocked, Visible
<1>7. PICK rq \in Creating : rq = req[p]
  BY <1>3, <1>4, <1>6 DEF Creating, Lifecycle
<1>8. /\ db'.reservations[r] = pend[p].reservations[r]
      /\ r \in DOMAIN db'.reservation_items =>
            /\ r \in DOMAIN pend[p].reservation_items
            /\ db'.reservation_items[r] = pend[p].reservation_items[r]
      /\ \A i \in DOMAIN db'.reservation_seats :
            i[1] = r => i \in DOMAIN pend[p].reservation_seats
  BY <1>1, <1>2 DEF IsOverlay, IsPatched, Committed
<1>9. CASE rq.op = "quantity"
  <2>1. /\ IsHeaderOf(p, pend[p].reservations[r], "quantity")
        /\ r \in DOMAIN pend[p].reservation_items => pend[p].reservation_items[r].ticket = rq.ticket
    BY <1>2, <1>3, <1>5, <1>7, <1>9 DEF HandlerInv, QuantityFits
  <2>2. \A i \in DOMAIN db'.reservation_seats : i[1] # r
    BY <1>2, <1>8, <2>1 DEF Writes, SeatRows, IsHeaderOf
  <2>3. IsOf(r, rq)'
    BY <1>7, <1>8, <1>9, <2>1, <2>2 DEF IsOf, IsHeaderOf
  <2> QED
    BY <2>3
<1>10. CASE rq.op = "seats"
  <2>1. HoldsCreated(p) /\ r = loc[p].answer.id
    BY <1>3, <1>5, <1>7, <1>10 DEF HandlerInv, SeatsFit, HoldsCreated
  <2>2. IsHeaderOf(p, pend[p].reservations[r], "seats")
    BY <2>1 DEF HoldsCreated
  <2>3. r \notin DOMAIN db'.reservation_items
    BY <1>2, <1>8, <2>2 DEF Writes, ItemRows, IsHeaderOf
  <2>4. ASSUME NEW i \in DOMAIN db'.reservation_seats, i[1] = r PROVE i[2] \in Range(rq.seats)
    <3>1. i \in DOMAIN pend[p].reservation_seats /\ i \in ReservationIds \X Seats
      BY <1>2, <1>8, <2>4 DEF WellTyped
    <3>2. i = <<r, i[2]>> /\ i[2] \in Seats
      BY <2>4, <3>1
    <3>3. i[2] \in Wanted(p)
      BY <2>1, <3>1, <3>2 DEF HoldsCreated
    <3> QED
      BY <1>7, <3>3 DEF Wanted
  <2>5. IsOf(r, rq)'
    BY <1>7, <1>8, <1>10, <2>2, <2>3, <2>4 DEF IsOf, IsHeaderOf
  <2> QED
    BY <2>5
<1> QED
  BY <1>9, <1>10 DEF Creating

\* A commit keeps the order and the origins.
LEMMA CommitOrder ==
    ASSUME Inv, OrderInv, NEW p \in Procs, Commit(p) \/ CommitLost(p)
    PROVE  OrderInv'
<1>1. pc[p] = "commit" /\ db' = View(p) /\ EndTx(p) /\ \E a : Finish(p, a)
  BY DEF Commit, CommitLost
<1>2. IsOverlay(db', pend[p], db)
  BY <1>1, ViewRows DEF Inv
<1>3. ASSUME NEW r \in DOMAIN db'.reservations PROVE \E rq \in Creating : IsOf(r, rq)'
  <2>1. CASE r \in DOMAIN db.reservations
    BY <1>1, <2>1, MovedOrigin DEF OrderInv, Origins
  <2>2. CASE r \in Created(p)
    BY <1>1, <2>2, CreatedOrigin
  <2> QED
    BY <1>2, <2>1, <2>2 DEF IsOverlay, IsPatched, Created
<1>4. Origins'
  BY <1>3 DEF Origins
<1> QED
  BY <1>1, <1>4, EndOrder

\* The order holds of the empty service.
LEMMA InitOrder == Init => OrderInv
<1> SUFFICES ASSUME Init PROVE OrderInv
  OBVIOUS
<1>1. ASSUME NEW p \in Procs PROVE pend[p] = NoWrites /\ locks[p] = {}
  BY DEF Init
<1>2. DOMAIN db.reservations = {}
  BY DEF Init, NoWrites, NoRows
<1>3. ASSUME NEW p \in Procs PROVE LocksFit(p)
  BY <1>1, InOrderAt DEF LocksFit
<1>4. ASSUME NEW w \in Workers PROVE ItemsLocked(w)
  BY <1>1, NothingWritten DEF ItemsLocked, Procs
<1> QED
  BY <1>2, <1>3, <1>4 DEF OrderInv, Origins

\* Every step keeps the order.
LEMMA NextOrder ==
    ASSUME Inv, OrderInv, [Next]_vars
    PROVE  OrderInv'
<1>1. ASSUME NEW h \in Handlers, HandlerStep(h) PROVE OrderInv'
  BY <1>1, HandlerStepOrder
<1>2. ASSUME NEW w \in Workers, WorkerStep(w) \/ Shutdown(w) PROVE OrderInv'
  BY <1>2, WorkerScanOrder, WorkerApplyOrder, RestartOrder DEF WorkerStep
<1>3. ASSUME NEW p \in Procs, \/ Commit(p) \/ CommitLost(p)
                              \/ DeadlockAbort(p) \/ Interrupt(p)
      PROVE  OrderInv'
  BY <1>3, CommitOrder, AbortOrder
<1>4. CASE Tick
  BY <1>4, TimeOrder DEF Tick
<1>5. CASE UNCHANGED vars
  BY <1>5, TimeOrder DEF vars
<1> QED
  BY <1>1, <1>2, <1>3, <1>4, <1>5 DEF Next, AllQuiet

\* Every transaction of the reservation service takes its row locks in the order
\* seats, reservations, ticket types, and those of seats and stale reservations in
\* the order of their ids; a worker batch keeps the ticket rows of the items it has
\* moved; and every committed reservation is one that some request asked for, with
\* that request's ticket type or seats.
THEOREM LocksInOrder == Spec => []OrderInv
<1>1. Init => Inv /\ OrderInv
  BY InitInv, InitOrder
<1>2. Inv /\ OrderInv /\ [Next]_vars => (Inv /\ OrderInv)'
  BY NextInv, NextOrder
<1> QED
  BY <1>1, <1>2, PTL DEF Spec

--------------------------------------------------------------------------------
(* Who waits for whom *)

\* The statements that can wait.
WaitLabels ==
    {"q_update", "q_header", "s_lock", "s_expire", "s_header", "s_insert", "t_lock", "t_apply",
     "w_apply"}

\* Who keeps a transaction waiting, statement by statement.
LEMMA BlockersAt ==
    ASSUME NEW p
    PROVE  /\ pc[p] = "q_update" => Blockers(p) \subseteq Holders(p, TicketRow(req[p].ticket))
           /\ pc[p] \in {"q_header", "s_header"} => Blockers(p) = KeyBlockers(p)
           /\ pc[p] = "s_lock" => Blockers(p) = Holders(p, SeatRow(NextId(p)))
           /\ pc[p] = "s_expire" => Blockers(p) = Holders(p, ReservationRow(NextId(p)))
           /\ pc[p] = "s_insert" => Blockers(p) = SeatKeyBlockers(p, NextId(p))
           /\ pc[p] = "t_lock" => Blockers(p) = Holders(p, ReservationRow(req[p].id))
           /\ pc[p] \in {"t_apply", "w_apply"} => Blockers(p) = StockBlockers(p, Current(p))
           /\ pc[p] \notin WaitLabels => Blockers(p) = {}
BY DEF Blockers, WaitLabels

\* A transaction waits for other processes.
LEMMA BlockersAreProcs ==
    ASSUME NEW p, NEW o \in Blockers(p)
    PROVE  o \in Procs \ {p} /\ pc[p] \in WaitLabels
<1>1. pc[p] \in WaitLabels
  BY BlockersAt
<1>2. CASE pc[p] \in {"q_header", "s_header"}
  BY <1>1, <1>2, BlockersAt DEF KeyBlockers
<1>3. CASE pc[p] \in {"q_update", "s_lock", "s_expire", "t_lock"}
  BY <1>1, <1>3, BlockersAt DEF Holders
<1>4. CASE pc[p] = "s_insert"
  BY <1>1, <1>4, BlockersAt DEF SeatKeyBlockers
<1>5. CASE pc[p] \in {"t_apply", "w_apply"}
  BY <1>1, <1>5, BlockersAt DEF StockBlockers, Holders
<1> QED
  BY <1>1, <1>2, <1>3, <1>4, <1>5 DEF WaitLabels

\* The level of every label.
LEMMA LevelAt ==
    ASSUME NEW label
    PROVE  /\ label \in {"q_update", "t_lock"} => Level(label) = 0
           /\ label = "s_lock" => Level(label) = 1
           /\ label = "s_expire" => Level(label) = 2
           /\ label = "s_insert" => Level(label) = 3
           /\ label = "s_header" => Level(label) = 4
           /\ label = "t_apply" => Level(label) = 5
           /\ label = "w_apply" => Level(label) = 6
           /\ label = "q_header" => Level(label) = 7
           /\ Level(label) \in 0..7
BY DEF Level

\* A worker and a handler are told apart by their labels.
LEMMA LabelsTell ==
    ASSUME Inv, NEW p \in Procs
    PROVE  /\ pc[p] \in WaitLabels \ {"w_apply"} => p \in Handlers
           /\ pc[p] = "w_apply" => p \in Workers
BY DEF Inv, Types, Procs, HandlerLabels, WorkerLabels, WaitLabels

\* No row is locked twice.
LEMMA LockedOnce ==
    ASSUME Inv, NEW p \in Procs, NEW o \in Procs, p # o, NEW row, row \in locks[p], row \in locks[o]
    PROVE  FALSE
BY DEF Inv, Apart

\* Ids left to do are numbers.
LEMMA NextIdNat ==
    ASSUME Inv, NEW p \in Procs, pc[p] \in {"s_lock", "s_expire"}
    PROVE  p \in Handlers /\ NextId(p) \in loc[p].todo /\ NextId(p) \in Nat
<1>1. p \in Handlers
  BY LabelsTell DEF WaitLabels
<1>2. loc[p].todo # {}
  BY <1>1, HandlerFacts DEF HandlerInv, SeatsFit
<1> QED
  BY <1>1, <1>2, NextIdLeast

\* Nobody is further on than itself.
LEMMA NotAhead ==
    ASSUME Inv, NEW p \in Procs
    PROVE  ~Ahead(p, p)
<1>1. ~(Level(pc[p]) < Level(pc[p]))
  BY LevelAt
<1>2. pc[p] \in {"s_lock", "s_expire"} => ~(NextId(p) < NextId(p))
  BY NextIdNat
<1>3. ~ExpiredLater(p, p)
  <2>1. ASSUME NEW r \in Moved(p) PROVE ~(db.reservations[r].expires < db.reservations[r].expires)
    <3>1. db.reservations[r].expires \in Nat
      BY RowTypes DEF Moved, Inv, Types
    <3> QED
      BY <3>1
  <2> QED
    BY <2>1 DEF ExpiredLater
<1> QED
  BY <1>1, <1>2, <1>3 DEF Ahead

\* Who is ahead of one that is ahead is ahead.
LEMMA AheadOfAhead ==
    ASSUME Inv, NEW p \in Procs, NEW o \in Procs, NEW x \in Procs, Ahead(p, o), Ahead(o, x)
    PROVE  Ahead(p, x)
<1>1. Level(pc[p]) \in 0..7 /\ Level(pc[o]) \in 0..7 /\ Level(pc[x]) \in 0..7
  BY LevelAt
<1>2. CASE Level(pc[p]) < Level(pc[o]) \/ Level(pc[o]) < Level(pc[x])
  <2>1. Level(pc[p]) <= Level(pc[o]) /\ Level(pc[o]) <= Level(pc[x])
    BY <1>1 DEF Ahead
  <2>2. Level(pc[p]) < Level(pc[x])
    BY <1>1, <1>2, <2>1
  <2> QED
    BY <2>2 DEF Ahead
<1>3. CASE /\ pc[p] = pc[o] /\ pc[o] = pc[x] /\ pc[p] \in {"s_lock", "s_expire"}
           /\ NextId(p) < NextId(o) /\ NextId(o) < NextId(x)
  <2>1. NextId(p) \in Nat /\ NextId(o) \in Nat /\ NextId(x) \in Nat
    BY <1>3, NextIdNat
  <2>2. NextId(p) < NextId(x)
    BY <1>3, <2>1
  <2> QED
    BY <1>3, <2>2 DEF Ahead
<1>4. CASE /\ pc[p] = pc[o] /\ pc[o] = pc[x] /\ pc[p] = "s_insert"
           /\ ExpiredLater(p, o) /\ ExpiredLater(o, x)
  <2>1. PICK r \in Moved(o) :
           \A y \in Moved(p) : db.reservations[y].expires < db.reservations[r].expires
    BY <1>4 DEF ExpiredLater
  <2>2. PICK z \in Moved(x) :
           \A y \in Moved(o) : db.reservations[y].expires < db.reservations[z].expires
    BY <1>4 DEF ExpiredLater
  <2>3. \A y \in DOMAIN db.reservations : db.reservations[y].expires \in Nat
    BY RowTypes DEF Inv, Types
  <2>4. ASSUME NEW y \in Moved(p) PROVE db.reservations[y].expires < db.reservations[z].expires
    <3>1. /\ db.reservations[y].expires \in Nat /\ db.reservations[r].expires \in Nat
          /\ db.reservations[z].expires \in Nat
      BY <2>3 DEF Moved
    <3>2. /\ db.reservations[y].expires < db.reservations[r].expires
          /\ db.reservations[r].expires < db.reservations[z].expires
      BY <2>1, <2>2
    <3> QED
      BY <3>1, <3>2
  <2>5. ExpiredLater(p, x)
    BY <2>4 DEF ExpiredLater
  <2> QED
    BY <1>4, <2>5 DEF Ahead
<1> QED
  BY <1>2, <1>3, <1>4 DEF Ahead

--------------------------------------------------------------------------------
(* Waiting for row locks *)

\* Who holds a seat row is past the statements that lock nothing, and at the seats
\* with higher ids if it is still locking seats.
LEMMA SeatHolder ==
    ASSUME Inv, OrderInv, NEW o \in Procs, NEW n, SeatRow(n) \in locks[o]
    PROVE  /\ pc[o] \notin {"q_update", "t_lock"}
           /\ pc[o] = "s_lock" => n < NextId(o)
<1>1. InOrder(pc[o], locks[o], loc[o].todo)
  BY DEF OrderInv, LocksFit
<1>2. pc[o] = "s_lock" => NextId(o) \in loc[o].todo
  BY NextIdNat
<1>3. SeatRow(n)[2] = n
  BY DEF SeatRow
<1> QED
  BY <1>1, <1>2, <1>3 DEF InOrder

\* Who holds a reservation row has all its seats, and is at the reservations with
\* higher ids if it is still locking those.
LEMMA ReservationHolder ==
    ASSUME Inv, OrderInv, NEW o \in Procs, NEW n, ReservationRow(n) \in locks[o]
    PROVE  /\ pc[o] \notin {"q_update", "t_lock", "s_lock"}
           /\ pc[o] = "s_expire" => n < NextId(o)
<1>1. InOrder(pc[o], locks[o], loc[o].todo)
  BY DEF OrderInv, LocksFit
<1>2. pc[o] = "s_expire" => NextId(o) \in loc[o].todo
  BY NextIdNat
<1>3. ReservationRow(n)[2] = n /\ \A m : ReservationRow(n) # SeatRow(m)
  BY DEF ReservationRow, SeatRow
<1> QED
  BY <1>1, <1>2, <1>3 DEF InOrder

\* Who holds a ticket row and waits is a quantity request at its header or a
\* worker.
LEMMA TicketHolder ==
    ASSUME Inv, OrderInv, NEW o \in Procs, NEW t, TicketRow(t) \in locks[o], pc[o] \in WaitLabels
    PROVE  pc[o] \in {"q_header", "w_apply"}
<1>1. InOrder(pc[o], locks[o], loc[o].todo)
  BY DEF OrderInv, LocksFit
<1>2. \A m : TicketRow(t) # SeatRow(m) /\ TicketRow(t) # ReservationRow(m)
  BY DEF TicketRow, ReservationRow, SeatRow
<1> QED
  BY <1>1, <1>2 DEF InOrder, WaitLabels

\* The ticket row a transition or a worker waits for.
LEMMA StockWait ==
    ASSUME Inv, NEW p \in Procs, pc[p] \in {"t_apply", "w_apply"}, NEW o \in Blockers(p)
    PROVE  \E t \in TicketTypes : o \in Holders(p, TicketRow(t))
<1> DEFINE r == Current(p)
           v == View(p)
<1>1. o \in StockBlockers(p, r)
  BY BlockersAt
<1>2. /\ v.reservations[r].type = "quantity" /\ ~InvariantBroken(v, r)
      /\ o \in Holders(p, TicketRow(v.reservation_items[r].ticket))
  BY <1>1 DEF StockBlockers
<1>3. r \in DOMAIN v.reservation_items
  BY <1>2 DEF InvariantBroken
<1>4. WellTyped(v)
  BY ViewRows DEF Inv
<1> HIDE DEF r, v
<1>5. v.reservation_items[r].ticket \in TicketTypes
  BY <1>3, <1>4, RowTypes
<1> QED
  BY <1>2, <1>5

\* Workers wait for handlers only, if there is one worker or one ticket type.
LEMMA WorkerWait ==
    ASSUME Inv, WorkersApart, NEW p \in Procs, NEW o \in Blockers(p),
           pc[p] = "w_apply", pc[o] = "w_apply"
    PROVE  Blockers(o) = {}
<1> SUFFICES ASSUME NEW x \in Blockers(o) PROVE FALSE
  OBVIOUS
<1>1. o \in Procs /\ o # p /\ x \in Procs /\ x # o
  BY BlockersAreProcs
<1>2. o \in Workers /\ p \in Workers
  BY <1>1, LabelsTell
<1>3. PICK t \in TicketTypes : o \in Holders(p, TicketRow(t))
  BY StockWait
<1>4. PICK u \in TicketTypes : x \in Holders(o, TicketRow(u))
  BY <1>1, StockWait
<1>5. t = u
  BY <1>1, <1>2 DEF WorkersApart
<1>6. TicketRow(t) \in locks[o] /\ TicketRow(t) \in locks[x]
  BY <1>3, <1>4, <1>5 DEF Holders
<1> QED
  BY <1>1, <1>6, LockedOnce

\* Waits for a row lock go upward.
LEMMA RowWait ==
    ASSUME Inv, OrderInv, WorkersApart, NEW p \in Procs, NEW o \in Blockers(p), Blockers(o) # {},
           pc[p] \in {"q_update", "t_lock", "s_lock", "s_expire", "t_apply", "w_apply"}
    PROVE  Ahead(p, o)
<1>1. o \in Procs /\ o # p /\ pc[o] \in WaitLabels
  BY BlockersAreProcs
<1>2. CASE pc[p] = "q_update"
  <2>1. TicketRow(req[p].ticket) \in locks[o]
    BY <1>2, BlockersAt DEF Holders
  <2>2. pc[o] \in {"q_header", "w_apply"}
    BY <1>1, <2>1, TicketHolder
  <2> QED
    BY <1>2, <2>2, LevelAt DEF Ahead
<1>3. CASE pc[p] = "t_lock"
  <2>1. ReservationRow(req[p].id) \in locks[o]
    BY <1>3, BlockersAt DEF Holders
  <2>2. pc[o] \in WaitLabels \ {"q_update", "t_lock"}
    BY <1>1, <2>1, ReservationHolder
  <2>3. Level(pc[p]) = 0 /\ Level(pc[o]) > 0
    BY <1>3, <2>2, LevelAt DEF WaitLabels
  <2> QED
    BY <2>3 DEF Ahead
<1>4. CASE pc[p] = "s_lock"
  <2>1. SeatRow(NextId(p)) \in locks[o]
    BY <1>4, BlockersAt DEF Holders
  <2>2. pc[o] \notin {"q_update", "t_lock"} /\ (pc[o] = "s_lock" => NextId(p) < NextId(o))
    BY <1>1, <2>1, SeatHolder
  <2>3. Level(pc[p]) = 1 /\ (pc[o] # "s_lock" => Level(pc[o]) > 1)
    BY <1>1, <1>4, <2>2, LevelAt DEF WaitLabels
  <2> QED
    BY <1>4, <2>2, <2>3 DEF Ahead
<1>5. CASE pc[p] = "s_expire"
  <2>1. ReservationRow(NextId(p)) \in locks[o]
    BY <1>5, BlockersAt DEF Holders
  <2>2. /\ pc[o] \notin {"q_update", "t_lock", "s_lock"}
        /\ pc[o] = "s_expire" => NextId(p) < NextId(o)
    BY <1>1, <2>1, ReservationHolder
  <2>3. Level(pc[p]) = 2 /\ (pc[o] # "s_expire" => Level(pc[o]) > 2)
    BY <1>1, <1>5, <2>2, LevelAt DEF WaitLabels
  <2> QED
    BY <1>5, <2>2, <2>3 DEF Ahead
<1>6. CASE pc[p] \in {"t_apply", "w_apply"}
  <2>1. PICK t \in TicketTypes : o \in Holders(p, TicketRow(t))
    BY <1>6, StockWait
  <2>2. pc[o] \in {"q_header", "w_apply"}
    BY <1>1, <2>1, TicketHolder DEF Holders
  <2>3. ~(pc[p] = "w_apply" /\ pc[o] = "w_apply")
    BY WorkerWait
  <2>4. Level(pc[p]) < Level(pc[o])
    BY <1>6, <2>2, <2>3, LevelAt
  <2> QED
    BY <2>4 DEF Ahead
<1> QED
  BY <1>2, <1>3, <1>4, <1>5, <1>6

--------------------------------------------------------------------------------
(* Waiting for unpublished keys *)

\* Who has written and waits is at one of four statements.
LEMMA WriterWaits ==
    ASSUME Inv, NEW o \in Procs, pend[o] # NoWrites, pc[o] \in WaitLabels
    PROVE  pc[o] \in {"q_header", "s_header", "s_insert", "w_apply"}
BY DEF Inv, ProcInv, Closed, ReadLabels, WaitLabels

\* A request that waits with seats locked wants some and has all of them.
LEMMA SeatWaiter ==
    ASSUME Inv, NEW h \in Procs, pc[h] \in {"s_header", "s_insert"}
    PROVE  /\ h \in Handlers /\ req[h] \in Creating /\ req[h].op = "seats"
           /\ HoldsExpired(h) /\ SeatsLocked(h) /\ Wanted(h) # {}
           /\ pc[h] = "s_header" => Created(h) = {}
           /\ pc[h] = "s_insert" => HoldsCreated(h) /\ loc[h].todo # {}
<1>1. h \in Handlers
  BY LabelsTell DEF WaitLabels
<1>2. req[h] \in Requests[h] /\ req[h].op = "seats"
  BY <1>1, HandlerFacts DEF HandlerInv, RequestFits
<1>3. HoldsExpired(h) /\ (pc[h] = "s_header" => Created(h) = {})
      /\ (pc[h] = "s_insert" => HoldsCreated(h) /\ loc[h].todo # {})
  BY <1>1, HandlerFacts DEF HandlerInv, SeatsFit, HoldsCreated
<1> QED
  BY <1>1, <1>2, <1>3 DEF Creating, HoldsExpired, SeatsLocked

\* A quantity request that waits for its key holds the ticket row.
LEMMA QuantityWaiter ==
    ASSUME Inv, NEW h \in Procs, pc[h] = "q_header"
    PROVE  /\ h \in Handlers /\ req[h] \in Creating /\ req[h].op = "quantity"
           /\ TicketRow(req[h].ticket) \in locks[h] /\ DOMAIN pend[h].reservations = {}
<1>1. h \in Handlers
  BY LabelsTell DEF WaitLabels
<1>2. req[h] \in Requests[h] /\ req[h].op = "quantity"
  BY <1>1, HandlerFacts DEF HandlerInv, RequestFits
<1>3. req[h].ticket \in DOMAIN pend[h].ticket_types /\ DOMAIN pend[h].reservations = {}
  BY <1>1, HandlerFacts DEF HandlerInv, QuantityFits, StockTaken
<1> QED
  BY <1>1, <1>2, <1>3, HandlerFacts DEF Creating, Writes, TicketRows

\* Two requests that have locked their seats want no seat in common.
LEMMA SeatsApart ==
    ASSUME Inv, NEW p \in Procs, NEW o \in Procs, p # o, SeatsLocked(p), SeatsLocked(o)
    PROVE  Wanted(p) \cap Wanted(o) = {}
BY LockedOnce DEF SeatsLocked

\* The INSERT of a seat waits for one who inserts too, and has expired holds that
\* ended later, or for one that is further on.
LEMMA InsertWait ==
    ASSUME Inv, NEW p \in Procs, NEW o \in Blockers(p), Blockers(o) # {}, pc[p] = "s_insert"
    PROVE  Ahead(p, o)
<1>1. o \in Procs /\ o # p /\ pc[o] \in WaitLabels
  BY BlockersAreProcs
<1>2. PICK i \in DOMAIN pend[o].reservation_seats : i[2] = NextId(p)
  BY BlockersAt DEF SeatKeyBlockers
<1>3. pc[o] \in {"q_header", "s_header", "s_insert", "w_apply"}
  BY <1>1, <1>2, WriterWaits, NothingWritten
<1>4. CASE pc[o] # "s_insert"
  BY <1>3, <1>4, LevelAt DEF Ahead
<1>5. CASE pc[o] = "s_insert"
  <2>1. HoldsCreated(p) /\ loc[p].todo # {} /\ OthersRun(p, Moved(p)) /\ p \in Handlers
    BY SeatWaiter DEF HoldsExpired
  <2>2. i[2] \in Wanted(p) /\ SeatRow(i[2]) \in locks[p]
    BY <1>2, <2>1, NextIdLeast DEF HoldsCreated, HoldsExpired, SeatsLocked
  <2>3. Writes(o) /\ Writes(p) /\ Committed /\ WellTyped(db)
    BY <1>1 DEF Inv, ProcInv, Types
  <2>4. i[1] \in DOMAIN db.reservations
    BY <1>1, <2>2, <2>3, LockedOnce DEF Writes, SeatRows
  <2>5. /\ i \in DOMAIN db.reservation_seats /\ i[1] \in Moved(o)
        /\ pend[o].reservations[i[1]].type = "seats"
    BY <2>3, <2>4 DEF Writes, SeatRows, Moved
  <2>6. MovedRow(o, i[1]) /\ db.reservations[i[1]] \in Header
    BY <2>3, <2>4, <2>5 DEF Writes, MovedRows, WellTyped
  <2>7. db.reservations[i[1]].status = "reserved" /\ db.reservations[i[1]].type = "seats"
    BY <2>5, <2>6 DEF MovedRow, Header
  <2>8. ReservationRow(i[1]) \in locks[o]
    BY <2>6 DEF MovedRow
  <2>9. i[1] \notin Moved(p)
    BY <1>1, <2>3, <2>8, LockedOnce DEF Writes, MovedRows, MovedRow
  <2>10. /\ db.reservation_seats[i].status = "reserved"
         /\ db.reservation_seats[i].expires = db.reservations[i[1]].expires
    BY <2>3, <2>4, <2>5, <2>7 DEF Committed, ChildrenOf
  <2>11. \A r \in Moved(p) : db.reservations[r].expires < db.reservations[i[1]].expires
    BY <2>1, <2>2, <2>5, <2>9, <2>10 DEF OthersRun
  <2>12. ExpiredLater(p, o)
    BY <2>5, <2>11 DEF ExpiredLater
  <2> QED
    BY <1>5, <2>12 DEF Ahead
<1> QED
  BY <1>4, <1>5

\* A committed reservation under the key of a request is what the request asks
\* for.
LEMMA SameRequest ==
    ASSUME Inv, OrderInv, KeysNameRequests, NEW rq \in Creating, NEW r \in DOMAIN db.reservations,
           db.reservations[r].session = rq.session, db.reservations[r].key = rq.key
    PROVE  /\ db.reservations[r].type = rq.op
           /\ rq.op = "quantity" /\ r \in DOMAIN db.reservation_items =>
                 db.reservation_items[r].ticket = rq.ticket
           /\ rq.op = "seats" =>
                 \A i \in DOMAIN db.reservation_seats : i[1] = r => i[2] \in Range(rq.seats)
<1>1. PICK a \in Creating : IsOf(r, a)
  BY DEF OrderInv, Origins
<1>2. a.session = rq.session /\ a.key = rq.key
  BY <1>1 DEF IsOf
<1>3. /\ a.op = rq.op /\ (a.op = "quantity" => a.ticket = rq.ticket)
      /\ (a.op = "seats" => Range(a.seats) = Range(rq.seats))
  BY <1>2 DEF KeysNameRequests
<1> QED
  BY <1>1, <1>3 DEF IsOf

\* Nobody who waits with seats locked has written the key another one waits for.
LEMMA SeatsShareNoKey ==
    ASSUME Inv, OrderInv, KeysNameRequests, NEW p \in Procs, NEW o \in Procs, p # o,
           pc[p] \in {"q_header", "s_header"}, pc[o] \in {"s_header", "s_insert"},
           NEW r \in DOMAIN pend[o].reservations,
           pend[o].reservations[r].session = req[p].session,
           pend[o].reservations[r].key = req[p].key
    PROVE  FALSE
<1>1. /\ o \in Handlers /\ req[o] \in Creating /\ req[o].op = "seats" /\ HoldsExpired(o)
      /\ SeatsLocked(o) /\ Wanted(o) # {}
  BY SeatWaiter
<1>2. req[p] \in Creating
  BY SeatWaiter, QuantityWaiter
<1>3. CASE r \in Moved(o)
  <2>1. MovedRow(o, r) /\ r \in DOMAIN db.reservations /\ db.reservations[r] \in Header
    BY <1>3 DEF Inv, ProcInv, Writes, MovedRows, Moved, Types, WellTyped
  <2>2. /\ db.reservations[r].session = req[p].session
        /\ db.reservations[r].key = req[p].key
    BY <2>1 DEF MovedRow, Header
  <2>3. IsStale(o, r)
    BY <1>1, <1>3 DEF HoldsExpired
  <2>4. req[p].op = "seats"
    BY <1>2, <2>1, <2>2, <2>3, SameRequest DEF IsStale
  <2>5. \E s \in Wanted(o) : s \in Wanted(p)
    BY <1>2, <2>1, <2>2, <2>3, <2>4, SameRequest DEF IsStale, Wanted
  <2>6. pc[p] = "s_header"
    BY <2>4, QuantityWaiter
  <2> QED
    BY <1>1, <2>5, <2>6, SeatWaiter, SeatsApart
<1>4. CASE r \notin Moved(o)
  <2>1. r \in Created(o)
    BY <1>4 DEF Moved, Created
  <2>2. pc[o] = "s_insert"
    BY <2>1, SeatWaiter
  <2>3. IsHeaderOf(o, pend[o].reservations[r], "seats")
    BY <2>1, <2>2, SeatWaiter DEF HoldsCreated
  <2>4. req[o].session = req[p].session /\ req[o].key = req[p].key
    BY <2>3 DEF IsHeaderOf
  <2>5. req[p].op = "seats" /\ Wanted(p) = Wanted(o)
    BY <1>1, <1>2, <2>4 DEF KeysNameRequests, Wanted
  <2>6. pc[p] = "s_header"
    BY <2>5, QuantityWaiter
  <2> QED
    BY <1>1, <2>5, <2>6, SeatWaiter, SeatsApart
<1> QED
  BY <1>3, <1>4

\* No worker that waits has expired a reservation whose key a quantity request
\* waits for: both would hold the same ticket row.
LEMMA WorkerSharesNoKey ==
    ASSUME Inv, OrderInv, KeysNameRequests, NEW p \in Procs, NEW o \in Procs, p # o,
           pc[p] = "q_header", pc[o] = "w_apply",
           NEW r \in DOMAIN pend[o].reservations,
           pend[o].reservations[r].session = req[p].session,
           pend[o].reservations[r].key = req[p].key
    PROVE  FALSE
<1>1. o \in Workers /\ BatchFits(o) /\ Writes(o) /\ Committed /\ WellTyped(db)
  BY LabelsTell, WorkerFacts DEF Inv
<1>2. r \in DOMAIN db.reservations
  BY <1>1 DEF BatchFits
<1>3. MovedRow(o, r) /\ db.reservations[r] \in Header
  BY <1>1, <1>2 DEF Writes, MovedRows, Moved, WellTyped
<1>4. /\ db.reservations[r].session = req[p].session
      /\ db.reservations[r].key = req[p].key
  BY <1>3 DEF MovedRow, Header
<1>5. req[p] \in Creating /\ req[p].op = "quantity" /\ TicketRow(req[p].ticket) \in locks[p]
  BY QuantityWaiter
<1>6. db.reservations[r].type = "quantity"
  BY <1>2, <1>4, <1>5, SameRequest
<1>7. r \in DOMAIN db.reservation_items
  BY <1>1, <1>2, <1>6 DEF Committed, ChildrenOf
<1>8. db.reservation_items[r].ticket = req[p].ticket
  BY <1>2, <1>4, <1>5, <1>7, SameRequest
<1>9. r \in DOMAIN pend[o].reservation_items
  BY <1>3, <1>7 DEF MovedRow
<1>10. pend[o].reservation_items[r].ticket = req[p].ticket
  BY <1>1, <1>2, <1>8, <1>9 DEF Writes, ItemRows
<1>11. TicketRow(req[p].ticket) \in locks[o]
  BY <1>1, <1>9, <1>10 DEF OrderInv, ItemsLocked
<1> QED
  BY <1>5, <1>11, LockedOnce

\* The INSERT of a header waits, if at all, for one that is further on.
LEMMA HeaderWait ==
    ASSUME Inv, OrderInv, KeysNameRequests, NEW p \in Procs, NEW o \in Blockers(p),
           Blockers(o) # {}, pc[p] \in {"q_header", "s_header"}
    PROVE  Ahead(p, o)
<1>1. o \in Procs /\ o # p /\ pc[o] \in WaitLabels
  BY BlockersAreProcs
<1>2. ~IsFree(pend[o], req[p].session, req[p].key)
  BY BlockersAt DEF KeyBlockers
<1>3. PICK r \in DOMAIN pend[o].reservations :
         /\ pend[o].reservations[r].session = req[p].session
         /\ pend[o].reservations[r].key = req[p].key
  BY <1>2 DEF IsFree
<1>4. pc[o] \in {"q_header", "s_header", "s_insert", "w_apply"}
  BY <1>1, <1>3, WriterWaits, NothingWritten
<1>5. pc[o] # "q_header"
  BY <1>1, <1>3, QuantityWaiter
<1>6. pc[o] \notin {"s_header", "s_insert"}
  BY <1>1, <1>3, SeatsShareNoKey
<1>7. pc[o] = "w_apply"
  BY <1>4, <1>5, <1>6
<1>8. pc[p] = "s_header"
  BY <1>1, <1>3, <1>7, WorkerSharesNoKey
<1> QED
  BY <1>7, <1>8, LevelAt DEF Ahead

--------------------------------------------------------------------------------
(* No circle *)

\* Every wait for one that waits itself goes upward.
LEMMA WaitsUpward ==
    ASSUME Inv, OrderInv, KeysNameRequests, WorkersApart, NEW p \in Procs, NEW o \in Blockers(p),
           Blockers(o) # {}
    PROVE  Ahead(p, o)
<1>1. pc[p] \in WaitLabels
  BY BlockersAreProcs
<1> QED
  BY <1>1, RowWait, InsertWait, HeaderWait DEF WaitLabels

\* Waits that go upward never come back.
LEMMA NoCircle ==
    ASSUME Inv, OrderInv, KeysNameRequests, WorkersApart
    PROVE  NoWaitCycle
<1> SUFFICES ASSUME NEW p \in Procs, Blockers(p) # {}, p \in WaitsFor(p) PROVE FALSE
  BY DEF NoWaitCycle, InWaitCycle
<1> DEFINE S == {o \in Procs : Ahead(p, o) \/ Blockers(o) = {}}
<1>1. S \in SUBSET Procs
  OBVIOUS
<1>2. Blockers(p) \subseteq S
  BY WaitsUpward, BlockersAreProcs
<1>3. ASSUME NEW o \in S, NEW x \in Blockers(o) PROVE x \in S
  <2>1. o \in Procs /\ x \in Procs /\ Ahead(p, o)
    BY BlockersAreProcs
  <2>2. CASE Blockers(x) = {}
    BY <2>1, <2>2
  <2>3. CASE Blockers(x) # {}
    <3>1. Ahead(o, x)
      BY <2>1, <2>3, WaitsUpward
    <3>2. Ahead(p, x)
      BY <2>1, <3>1, AheadOfAhead
    <3> QED
      BY <2>1, <3>2
  <2> QED
    BY <2>2, <2>3
<1>4. p \notin S
  BY NotAhead
<1> HIDE DEF S
<1>5. WaitsInside(S)
  BY <1>3 DEF WaitsInside
<1> QED
  BY <1>1, <1>2, <1>4, <1>5 DEF WaitsFor

\* The transactions of the reservation service never wait for each other in a
\* circle, so PostgreSQL never has to abort one of them, for any number of handlers,
\* workers, seats and ticket types, provided that a client that repeats an
\* idempotency key repeats the request, and that there is one worker process or one
\* ticket type.  LockEventSeats and LockReservationsByID lock in the order of their
\* ids, the ticket row comes last, and the keys that are inserted without a lock of
\* their own belong to rows that are locked.
THEOREM TransactionsNeverDeadlock ==
    ASSUME KeysNameRequests, WorkersApart
    PROVE  Spec => []NoWaitCycle
<1>1. Spec => []Inv
  BY Invariance
<1>2. Spec => []OrderInv
  BY LocksInOrder
<1>3. Inv /\ OrderInv => NoWaitCycle
  BY NoCircle
<1> QED
  BY <1>1, <1>2, <1>3, PTL

================================================================================
