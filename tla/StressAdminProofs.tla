---------------------------- MODULE StressAdminProofs --------------------------
(***************************************************************************)
(* Proofs about the stress administration: what a Reset may do to the rows *)
(* that reservation requests and workers are using.                        *)
(*                                                                         *)
(* What is committed is whole because every transaction that is about to   *)
(* commit leaves it whole: it has locked every row it changes, and what it *)
(* has read of them stays true.  A Reset is different, since it decides    *)
(* stage by stage on rows it has not locked yet; its invariant says what   *)
(* each finished stage has made sure of.  A worker's batch is accounted    *)
(* for row by row: a ticket type lacks the units of the items that are     *)
(* expired so far.  Ids are not used twice (Known), so that what a Reset   *)
(* deletes does not come back.                                             *)
(***************************************************************************)
EXTENDS StressAdmin, FiniteSetTheorems, TLAPS

--------------------------------------------------------------------------------
(* Rows *)

Statuses == {"reserved", "confirmed", "cancelled", "expired"}

Final == {"confirmed", "cancelled", "expired"}

Tables == {"events", "ticket_types", "seats", "reservations", "reservation_items",
           "reservation_seats"}

Fixtures == {"events", "ticket_types", "seats"}

\* The ids that are, or were, in the database.
Known == Events \cup DOMAIN Holds \cup {h \in Handlers : pc[h] = "done"}

\* A deadline is the one it was given at the start, or a TTL from some later time.
DeadlineFits(r, expires) ==
    IF r \in Handlers THEN expires >= TTL ELSE expires = Holds[r].expires

\* The columns of the row x.
Fits(x, v) ==
    /\ x[1] \in Tables /\ x = <<x[1], x[2]>>
    /\ x[1] \in Fixtures => v.event = x[2]
    /\ x[1] = "ticket_types" =>
          /\ DOMAIN v = {"event", "sold", "reserved"}
          /\ v.sold \in Nat /\ v.reserved \in Nat
    /\ x[1] \notin Fixtures =>
          /\ x[2] \in DOMAIN Holds \cup Handlers
          /\ v.status \in Statuses
    /\ x[1] = "reservations" =>
          /\ DOMAIN v = {"event", "type", "status", "expires"}
          /\ v.type \in {"quantity", "seats"} /\ v.expires \in Nat
          /\ DeadlineFits(x[2], v.expires)
    /\ x[1] = "reservation_items" =>
          /\ DOMAIN v = {"event", "quantity", "status"}
          /\ v.quantity \in 1..Total
    /\ x[1] = "reservation_seats" => DOMAIN v = {"event", "status", "expires"}

AllFit(d) == \A x \in DOMAIN d : Fits(x, d[x])

--------------------------------------------------------------------------------
(* The committed rows *)

\* An event has its ticket type and its seats, and they have their event.
EventWhole(d) ==
    \A x \in DOMAIN d : x[1] \in Fixtures =>
        {EventRow(x[2]), TicketRow(x[2]), SeatRow(x[2])} \subseteq DOMAIN d

ChildIn(d, r) == IF d[ReservationRow(r)].type = "quantity" THEN ItemRow(r) ELSE HoldRow(r)

\* A reservation has its event and the child of its type, which tells the same.
ReservationWhole(d) ==
    \A x \in RowsOf(d, "reservations") :
        LET child == ChildIn(d, x[2])
        IN  /\ EventRow(d[x].event) \in DOMAIN d
            /\ child \in DOMAIN d
            /\ d[child].event = d[x].event /\ d[child].status = d[x].status

\* A child has a header of its type.
ChildWhole(d) ==
    \A x \in RowsOf(d, "reservation_items") \cup RowsOf(d, "reservation_seats") :
        ReservationRow(x[2]) \in DOMAIN d /\ ChildIn(d, x[2]) = x

OneHolder(d) ==
    \A x, y \in RowsOf(d, "reservation_seats") :
        d[x].event = d[y].event /\ IsActive(d[x].status) /\ IsActive(d[y].status) => x = y

Counted(d) ==
    \A x \in RowsOf(d, "ticket_types") :
        /\ d[x].reserved = Cardinality(Units(d, x[2], "reserved"))
        /\ d[x].sold = Cardinality(Units(d, x[2], "confirmed"))
        /\ d[x].sold + d[x].reserved <= Total

Structure(d) == AllFit(d) /\ EventWhole(d) /\ ReservationWhole(d) /\ ChildWhole(d)

Whole(d) == Structure(d) /\ OneHolder(d) /\ Counted(d)

--------------------------------------------------------------------------------
(* The processes *)

ResetLabels == DeleteStages \cup {"restrict"}

LabelsOf(op) ==
    CASE op = "quantity" -> {"q_update", "header", "commit"}
      [] op = "seats" -> {"s_lock", "s_list", "s_lockhold", "s_expire", "header", "s_insert",
                          "commit"}
      [] op \in {"cancel", "confirm"} -> {"l_lock", "l_stock", "l_child", "commit"}
      [] op = "get" -> {"g_header", "g_children"}
      [] op = "seed" -> {"e_event", "e_ticket", "e_seats", "commit"}
      [] op = "reset" -> {"r_list", "commit"} \cup ResetLabels
      [] op = "assert" -> {"check"}

\* Where there is no transaction, or one that has done nothing.
Blank == {"idle", "done", "q_update", "s_lock", "l_lock", "g_header", "g_children", "check",
          "e_event", "r_list"}

Busy(p) == pc[p] \notin {"idle", "done"}

Runs(h, op) == h \in Handlers /\ Busy(h) /\ req[h].op = op

LocalNames == {"ids", "todo", "row", "res", "expires", "target", "check", "answer"}

TxNames == {"writes", "dels", "locks", "shares"}

Types ==
    /\ now \in Nat
    /\ DOMAIN tx = Procs /\ DOMAIN pc = Procs /\ DOMAIN loc = Procs
    /\ DOMAIN req = Handlers /\ DOMAIN resp = Handlers
    /\ \A p \in Procs : DOMAIN tx[p] = TxNames /\ DOMAIN loc[p] = LocalNames
    /\ \A h \in Handlers :
          /\ pc[h] # "idle" => req[h] \in Requests[h]
          /\ Busy(h) => pc[h] \in LabelsOf(req[h].op)
          /\ Busy(h) /\ req[h].op \in AdminOps => local
    /\ \A w \in Workers : pc[w] \in {"idle", "l_stock", "l_child", "commit"}

\* A transaction locks what it writes and deletes; the ids it locks are known or
\* its own.
TxFits(p) ==
    LET t == tx[p]
    IN  /\ pc[p] \in Blank => t = NoTx
        /\ pc[p] = "idle" => loc[p] = NoLocals
        /\ AllFit(t.writes) /\ DOMAIN t.writes \subseteq t.locks /\ t.dels \subseteq t.locks
        /\ \A x \in t.locks : x = <<x[1], x[2]>> /\ x[2] \in Known \cup {p}
        /\ \A x \in t.shares : x = <<"events", x[2]>> /\ x \in DOMAIN db

\* No row is locked twice, or locked and shared.
Apart(p, o) == tx[p].locks \cap (tx[o].locks \cup tx[o].shares) = {}

QuantityFits(h) ==
    Runs(h, "quantity") =>
        LET e == req[h].event
            t == tx[h]
            rows == {ReservationRow(h), ItemRow(h)}
        IN  /\ loc[h].expires \in Nat /\ loc[h].expires >= TTL
            /\ pc[h] \in {"header", "commit"} =>
                  /\ t.dels = {} /\ t.locks = DOMAIN t.writes
                  /\ TicketRow(e) \in DOMAIN t.writes
                  /\ HasStock(e, req[h].quantity)
                  /\ t.writes[TicketRow(e)] =
                        MovedTicket(db[TicketRow(e)], "reserved", req[h].quantity)
            /\ pc[h] = "header" => t.shares = {} /\ DOMAIN t.writes = {TicketRow(e)}
            /\ pc[h] = "commit" =>
                  /\ t.shares = {EventRow(e)} /\ DOMAIN t.writes = {TicketRow(e)} \cup rows
                  /\ t.writes[ReservationRow(h)].event = e
                  /\ t.writes[ReservationRow(h)].type = "quantity"
                  /\ t.writes[ItemRow(h)].event = e
                  /\ t.writes[ItemRow(h)].quantity = req[h].quantity
                  /\ \A x \in rows : t.writes[x].status = "reserved"

\* The row x of a transaction t moves from reserved to status.
Moves(t, x, status) ==
    /\ x \in DOMAIN t.writes /\ x \in DOMAIN db
    /\ db[x].status = "reserved" /\ t.writes[x] = [db[x] EXCEPT !.status = status]

\* The hold r, if it is still there, is one of the event e.
IsHold(r, e) ==
    /\ r \in Known
    /\ ReservationRow(r) \in DOMAIN db =>
          db[ReservationRow(r)].type = "seats" /\ db[ReservationRow(r)].event = e

SeatsFit(h) ==
    Runs(h, "seats") =>
        LET e == req[h].event
            r == loc[h].res
            t == tx[h]
        IN  /\ loc[h].expires \in Nat /\ loc[h].expires >= TTL
            /\ pc[h] \in LabelsOf("seats") \ {"s_lock"} =>
                  t.dels = {} /\ SeatRow(e) \in DOMAIN db /\ SeatRow(e) \in t.locks
            /\ pc[h] \in {"s_list", "s_lockhold", "s_expire"} => DOMAIN t.writes = {}
            /\ pc[h] \in {"s_list", "s_lockhold"} => t.locks = {SeatRow(e)}
            /\ pc[h] \in {"s_lockhold", "s_expire"} => IsHold(r, e)
            /\ pc[h] = "s_expire" => t.locks = {SeatRow(e), ReservationRow(r)}
            /\ pc[h] \in {"s_list", "s_lockhold", "s_expire", "header"} => t.shares = {}
            /\ pc[h] \in {"s_insert", "commit"} =>
                  /\ t.shares = {EventRow(e)}
                  /\ ReservationRow(h) \in DOMAIN t.writes
                  /\ t.writes[ReservationRow(h)].event = e
                  /\ t.writes[ReservationRow(h)].type = "seats"
                  /\ t.writes[ReservationRow(h)].status = "reserved"
            /\ pc[h] \in {"header", "s_insert", "commit"} =>
                  /\ \A x \in DOMAIN t.writes \cap DOMAIN db :
                        /\ db[x].event = e
                        /\ \/ x = ReservationRow(x[2]) /\ db[x].type = "seats"
                           \/ x = HoldRow(x[2])
                        /\ Moves(t, ReservationRow(x[2]), "expired")
                        /\ Moves(t, HoldRow(x[2]), "expired")
                  /\ \A x \in DOMAIN t.writes \ DOMAIN db :
                        \/ x = ReservationRow(h) /\ pc[h] # "header"
                        \/ x = HoldRow(h) /\ pc[h] = "commit"
                  /\ \A x \in t.locks : x[1] \in {"seats", "reservations", "reservation_seats"}
                  /\ \A x \in t.locks : x = HoldRow(x[2]) =>
                        x \in DOMAIN t.writes /\ ReservationRow(x[2]) \in t.locks
            /\ pc[h] = "commit" =>
                  /\ HoldRow(h) \in DOMAIN t.writes
                  /\ t.writes[HoldRow(h)].event = e /\ t.writes[HoldRow(h)].status = "reserved"
                  /\ ActiveHolds(db, e) \subseteq DOMAIN t.writes

\* A confirmation or a cancellation.
Transits(p) == Runs(p, "cancel") \/ Runs(p, "confirm")

\* The stock of the reservation r moves to target with it.
StockMoves(t, r, target) ==
    LET ticket == TicketRow(db[ReservationRow(r)].event)
    IN  /\ ticket \in DOMAIN t.writes
        /\ t.writes[ticket] = MovedTicket(db[ticket], target, db[ItemRow(r)].quantity)

TransitionFits(p) ==
    Transits(p) =>
        LET r == loc[p].res
            t == tx[p]
            row == ReservationRow(r)
            child == ChildRow(r)
            stock == IF db[row].type = "quantity" THEN {TicketRow(db[row].event)} ELSE {}
        IN  /\ loc[p].todo = {}
            /\ pc[p] \in {"l_stock", "l_child", "commit"} =>
                  t.dels = {} /\ t.shares = {} /\ t.locks = DOMAIN t.writes \cup {row}
            /\ pc[p] \in {"l_stock", "l_child"} \/ (pc[p] = "commit" /\ DOMAIN t.writes # {}) =>
                  /\ row \in DOMAIN db /\ db[row].status = "reserved"
                  /\ loc[p].target \in Final
            /\ pc[p] = "l_stock" => db[row].type = "quantity" /\ DOMAIN t.writes = {}
            /\ pc[p] = "l_child" =>
                  /\ DOMAIN t.writes = stock
                  /\ db[row].type = "quantity" => StockMoves(t, r, loc[p].target)
            /\ pc[p] = "commit" /\ DOMAIN t.writes # {} =>
                  /\ DOMAIN t.writes = stock \cup {row, child}
                  /\ db[row].type = "quantity" => StockMoves(t, r, loc[p].target)
                  /\ Moves(t, row, loc[p].target) /\ Moves(t, child, loc[p].target)

\* The units a worker has taken off the ticket type of e and not yet off the item.
OnTheWay(w, e) ==
    LET row == ReservationRow(loc[w].res)
    IN  IF pc[w] = "l_child" /\ db[row].type = "quantity" /\ db[row].event = e
        THEN db[ItemRow(loc[w].res)].quantity ELSE 0

\* A row that a batch has written: a ticket type without the units that are expired
\* or, these n, on the way; or a reservation or a child that is expired together
\* with the other.
BatchRow(t, x, n) ==
    \/ /\ x = TicketRow(x[2]) /\ x \in DOMAIN db
       /\ t.writes[x].sold = db[x].sold
       /\ t.writes[x].reserved + Cardinality(Units(t.writes, x[2], "expired")) + n
             = db[x].reserved
    \/ /\ x = ReservationRow(x[2]) \/ x = ChildRow(x[2])
       /\ Moves(t, ReservationRow(x[2]), "expired") /\ Moves(t, ChildRow(x[2]), "expired")
       /\ x = ItemRow(x[2]) => TicketRow(db[x].event) \in DOMAIN t.writes

\* The headers of a batch that are locked and not yet written.
Left(w) ==
    loc[w].todo \cup (IF pc[w] = "commit" THEN {} ELSE {ReservationRow(loc[w].res)})

BatchFits(w) ==
    pc[w] # "idle" =>
        LET t == tx[w]
            row == ReservationRow(loc[w].res)
        IN  /\ t.dels = {} /\ t.shares = {} /\ t.locks = DOMAIN t.writes \cup Left(w)
            /\ loc[w].target = "expired" /\ row \notin loc[w].todo
            /\ \A x \in Left(w) : /\ x = ReservationRow(x[2]) /\ x \in DOMAIN db
                                 /\ x \notin DOMAIN t.writes /\ db[x].status = "reserved"
            /\ \A x \in DOMAIN t.writes : BatchRow(t, x, OnTheWay(w, x[2]))
            /\ pc[w] = "l_stock" => db[row].type = "quantity"
            /\ pc[w] = "l_child" /\ db[row].type = "quantity" =>
                  TicketRow(db[row].event) \in DOMAIN t.writes
            /\ pc[w] = "commit" => loc[w].todo = {}

LifecycleFits(p) == TransitionFits(p) /\ (p \in Workers => BatchFits(p))

SeedFits(h) ==
    Runs(h, "seed") =>
        LET t == tx[h]
        IN  /\ t.dels = {} /\ t.shares = {} /\ t.locks = DOMAIN t.writes
            /\ pc[h] = "e_ticket" => DOMAIN t.writes = {EventRow(h)}
            /\ pc[h] = "e_seats" => DOMAIN t.writes = {EventRow(h), TicketRow(h)}
            /\ pc[h] = "commit" => DOMAIN t.writes = {EventRow(h), TicketRow(h), SeatRow(h)}
            /\ TicketRow(h) \in DOMAIN t.writes =>
                  t.writes[TicketRow(h)].sold = 0 /\ t.writes[TicketRow(h)].reserved = 0

--------------------------------------------------------------------------------
(* A Reset, stage by stage *)

\* What the cascade from reservations, the DELETE of events and the cascade from
\* events have to delete; D is what is deleted or about to be.
ChildrenGone(D) ==
    \A x \in D : x[1] = "reservations" =>
        {ItemRow(x[2]), HoldRow(x[2])} \cap DOMAIN db \subseteq D

EventsGone(h, D) == \A e \in loc[h].ids : EventRow(e) \in DOMAIN db => EventRow(e) \in D

InventoryGone(D) ==
    \A x \in D : x[1] = "events" =>
        {TicketRow(x[2]), SeatRow(x[2])} \cap DOMAIN db \subseteq D

ReservationsGone(h, D) ==
    \A x \in RowsOf(db, "reservations") : db[x].event \in loc[h].ids => x \in D

ResetFits(h) ==
    Runs(h, "reset") =>
        LET t == tx[h]
            ids == loc[h].ids
            todo == loc[h].todo
            both == t.dels \cup todo
        IN  /\ ids \subseteq Known /\ ids \cap (ManualEvents \ Lookalikes) = {}
            /\ pc[h] = "r_list" => ids = {}
            /\ DOMAIN t.writes = {} /\ t.shares = {} /\ t.locks = t.dels
            /\ \A x \in t.dels : x \in DOMAIN db /\ db[x].event \in ids
            /\ \A x \in todo : /\ x = <<x[1], x[2]>> /\ x[2] \in Known
                               /\ x \in DOMAIN db => db[x].event \in ids
            /\ pc[h] \notin DeleteStages => todo = {}
            /\ todo # {} => loc[h].row \in todo
            /\ pc[h] \in {"del_events", "cascade_inventory", "restrict", "commit"}
                  \/ (pc[h] = "cascade_children" /\ todo # {}) => ChildrenGone(both)
            /\ pc[h] \in {"cascade_inventory", "restrict", "commit"}
                  \/ (pc[h] = "del_events" /\ todo # {}) => EventsGone(h, both)
            /\ pc[h] \in {"restrict", "commit"}
                  \/ (pc[h] = "cascade_inventory" /\ todo # {}) => InventoryGone(both)
            /\ pc[h] = "commit" => ReservationsGone(h, t.dels) /\ loc[h].answer.events = ids

--------------------------------------------------------------------------------
(* Reports, reads and answers *)

ReportFits(h) ==
    Runs(h, "assert") =>
        /\ loc[h].check \in 1..LastCheck /\ loc[h].answer.failed = {}
        /\ loc[h].check = LastCheck => loc[h].expires \in Int /\ loc[h].expires <= now - Tolerance

ReadFits(h) ==
    /\ Runs(h, "get") \/ pc[h] = "l_lock" => loc[h].res = req[h].id
    /\ pc[h] = "g_children" => loc[h].res \in Known

\* The row is one of a reservation whose deadline is past by more than the tolerance.
IsLate(row) ==
    /\ row[1] = "reservations" /\ row[2] \in Known
    /\ row \in DOMAIN db => db[row].expires + Tolerance < now
    /\ row[2] \in DOMAIN Holds => Holds[row[2]].expires + Tolerance < now

OnlyLate(failed) == \A v \in failed : v[1] = LastCheck /\ IsLate(v[2])

AnswerFits(h) ==
    LET a == resp[h]
    IN  /\ pc[h] # "done" => a = NoAnswer
        /\ a.code \notin {"INCONSISTENT", "DANGLING"}
        /\ OnlyLate(a.failed)
        /\ pc[h] = "commit" =>
              loc[h].answer.code \in {"OK", "REFUSED"} /\ loc[h].answer.failed = {}
        /\ pc[h] = "done" /\ req[h].op = "get" /\ a.code = "OK" /\ a.children = {} =>
              req[h].id \in Known /\ ReservationRow(req[h].id) \notin DOMAIN db
        /\ pc[h] = "done" /\ req[h].op = "reset" /\ a.code = "OK" =>
              \A e \in a.events : e \in Known /\ EventRow(e) \notin DOMAIN db

HandlerFits(h) ==
    /\ QuantityFits(h) /\ SeatsFit(h) /\ SeedFits(h) /\ ResetFits(h) /\ ReportFits(h)
    /\ ReadFits(h) /\ AnswerFits(h)

Inv ==
    /\ Types
    /\ \A x \in DOMAIN db : x[2] \in Known
    /\ Whole(db)
    /\ \A p \in Procs : TxFits(p) /\ LifecycleFits(p)
    /\ \A p, o \in Procs : p # o => Apart(p, o)
    /\ \A h \in Handlers : HandlerFits(h)

--------------------------------------------------------------------------------
(* Rows and transactions *)

\* Rows of different tables or with different ids are different.
LEMMA RowFacts ==
    /\ \A e : EventRow(e)[1] = "events" /\ EventRow(e)[2] = e
    /\ \A e : TicketRow(e)[1] = "ticket_types" /\ TicketRow(e)[2] = e
    /\ \A e : SeatRow(e)[1] = "seats" /\ SeatRow(e)[2] = e
    /\ \A r : ReservationRow(r)[1] = "reservations" /\ ReservationRow(r)[2] = r
    /\ \A r : ItemRow(r)[1] = "reservation_items" /\ ItemRow(r)[2] = r
    /\ \A r : HoldRow(r)[1] = "reservation_seats" /\ HoldRow(r)[2] = r
BY DEF EventRow, TicketRow, SeatRow, ReservationRow, ItemRow, HoldRow

\* A row is named by its table and its id.
LEMMA RowNames ==
    ASSUME NEW x, x = <<x[1], x[2]>>
    PROVE  /\ x[1] = "events" => x = EventRow(x[2])
           /\ x[1] = "ticket_types" => x = TicketRow(x[2])
           /\ x[1] = "seats" => x = SeatRow(x[2])
           /\ x[1] = "reservations" => x = ReservationRow(x[2])
           /\ x[1] = "reservation_items" => x = ItemRow(x[2])
           /\ x[1] = "reservation_seats" => x = HoldRow(x[2])
BY DEF EventRow, TicketRow, SeatRow, ReservationRow, ItemRow, HoldRow

\* Rows are pairs.
LEMMA RowPairs ==
    ASSUME NEW i
    PROVE  /\ EventRow(i) = <<"events", i>> /\ TicketRow(i) = <<"ticket_types", i>>
           /\ SeatRow(i) = <<"seats", i>> /\ ReservationRow(i) = <<"reservations", i>>
           /\ ItemRow(i) = <<"reservation_items", i>>
           /\ HoldRow(i) = <<"reservation_seats", i>>
BY DEF EventRow, TicketRow, SeatRow, ReservationRow, ItemRow, HoldRow

\* What a transaction would leave.
LEMMA ViewRows ==
    ASSUME NEW p
    PROVE  /\ DOMAIN View(p) = (DOMAIN tx[p].writes \cup DOMAIN db) \ tx[p].dels
           /\ \A x \in DOMAIN View(p) :
                 /\ x \in DOMAIN tx[p].writes => View(p)[x] = tx[p].writes[x]
                 /\ x \notin DOMAIN tx[p].writes => View(p)[x] = db[x]
BY DEF View, Restrict, Patch

\* One row.
LEMMA OneRowIs ==
    ASSUME NEW x, NEW v
    PROVE  DOMAIN OneRow(x, v) = {x} /\ OneRow(x, v)[x] = v
BY DEF OneRow

\* Rows written over others.
LEMMA PatchRows ==
    ASSUME NEW f, NEW g
    PROVE  /\ DOMAIN Patch(f, g) = DOMAIN f \cup DOMAIN g
           /\ \A x \in DOMAIN f : Patch(f, g)[x] = f[x]
           /\ \A x \in DOMAIN g \ DOMAIN f : Patch(f, g)[x] = g[x]
BY DEF Patch

\* A transaction that writes rows.
LEMMA PutTx ==
    ASSUME NEW t, DOMAIN t = TxNames, NEW rows
    PROVE  LET u == Put(t, rows)
           IN  /\ DOMAIN u = TxNames /\ u.dels = t.dels /\ u.shares = t.shares
               /\ u.locks = t.locks \cup DOMAIN rows
               /\ DOMAIN u.writes = DOMAIN rows \cup DOMAIN t.writes
               /\ \A x \in DOMAIN rows : u.writes[x] = rows[x]
               /\ \A x \in DOMAIN t.writes \ DOMAIN rows : u.writes[x] = t.writes[x]
<1> DEFINE all == Patch(rows, t.writes)
<1>1. /\ DOMAIN all = DOMAIN rows \cup DOMAIN t.writes
      /\ \A x \in DOMAIN rows : all[x] = rows[x]
      /\ \A x \in DOMAIN t.writes \ DOMAIN rows : all[x] = t.writes[x]
  BY PatchRows
<1>2. Put(t, rows) = [t EXCEPT !.writes = all, !.locks = @ \cup DOMAIN rows]
  BY DEF Put
<1> HIDE DEF all
<1>3. /\ DOMAIN Put(t, rows) = TxNames
      /\ Put(t, rows).dels = t.dels /\ Put(t, rows).shares = t.shares
      /\ Put(t, rows).writes = all /\ Put(t, rows).locks = t.locks \cup DOMAIN rows
  BY <1>2 DEF TxNames
<1> QED
  BY <1>1, <1>3

\* A transaction that locks a row.
LEMMA LockTx ==
    ASSUME NEW t, DOMAIN t = TxNames, NEW x
    PROVE  LET u == Lock(t, x)
           IN  /\ DOMAIN u = TxNames /\ u.dels = t.dels /\ u.shares = t.shares
               /\ u.locks = t.locks \cup {x} /\ u.writes = t.writes
BY DEF Lock, TxNames

\* A transaction that has done nothing.
LEMMA BlankTx ==
    /\ DOMAIN NoTx = TxNames /\ DOMAIN NoTx.writes = {} /\ NoTx.dels = {}
    /\ NoTx.locks = {} /\ NoTx.shares = {}
BY DEF NoTx, TxNames, NoRows

\* Locals that say nothing.
LEMMA BlankLocals ==
    /\ DOMAIN NoLocals = LocalNames /\ NoLocals.ids = {} /\ NoLocals.todo = {}
    /\ NoLocals.answer = NoAnswer
BY DEF NoLocals, LocalNames

\* Answers.
LEMMA Answers ==
    /\ NoAnswer.code = "none" /\ NoAnswer.failed = {} /\ NoAnswer.events = {}
    /\ NoAnswer.children = {}
    /\ Ok.code = "OK" /\ Ok.failed = {} /\ Ok.events = {} /\ Ok.children = {}
    /\ \A code : LET a == [NoAnswer EXCEPT !.code = code]
                 IN  a.code = code /\ a.failed = {} /\ a.events = {} /\ a.children = {}
    /\ \A code : LET a == [Ok EXCEPT !.code = code]
                 IN  a.code = code /\ a.failed = {} /\ a.events = {} /\ a.children = {}
BY DEF NoAnswer, Ok

\* A status is written over another one.
LEMMA StatusMoved ==
    ASSUME NEW v, NEW s, NEW x, Fits(x, v), x[1] \notin Fixtures, s \in Statuses
    PROVE  LET w == [v EXCEPT !.status = s]
           IN  /\ Fits(x, w) /\ w.status = s /\ w.event = v.event
               /\ x[1] = "reservations" => w.type = v.type /\ w.expires = v.expires
               /\ x[1] = "reservation_items" => w.quantity = v.quantity
<1>1. x[1] \in {"reservations", "reservation_items", "reservation_seats"}
  BY DEF Fits, Tables, Fixtures
<1>2. CASE x[1] = "reservations"
  BY <1>2 DEF Fits, Tables, Fixtures
<1>3. CASE x[1] = "reservation_items"
  BY <1>3 DEF Fits, Tables, Fixtures
<1>4. CASE x[1] = "reservation_seats"
  BY <1>4 DEF Fits, Tables, Fixtures
<1> QED
  BY <1>1, <1>2, <1>3, <1>4

\* The units of a ticket row move.
LEMMA TicketMoves ==
    ASSUME NEW v, DOMAIN v = {"event", "sold", "reserved"}, v.sold \in Nat, v.reserved \in Nat,
           NEW q \in Nat, NEW s \in Statuses
    PROVE  LET w == MovedTicket(v, s, q)
           IN  /\ DOMAIN w = {"event", "sold", "reserved"} /\ w.event = v.event
               /\ s = "reserved" => w.reserved = v.reserved + q /\ w.sold = v.sold
               /\ s = "confirmed" => w.reserved = v.reserved - q /\ w.sold = v.sold + q
               /\ s \in {"cancelled", "expired"} => w.reserved = v.reserved - q /\ w.sold = v.sold
BY DEF MovedTicket, Statuses

--------------------------------------------------------------------------------
(* What a step of somebody else leaves alone *)

\* Nothing about o changes.
Quiet(o) ==
    /\ tx'[o] = tx[o] /\ pc'[o] = pc[o] /\ loc'[o] = loc[o]
    /\ o \in Handlers => req'[o] = req[o] /\ resp'[o] = resp[o]

\* x is the same reservation, item or hold as before.
SameKind(x) ==
    /\ db'[x].event = db[x].event
    /\ x[1] = "reservations" => db'[x].type = db[x].type /\ db'[x].expires = db[x].expires
    /\ x[1] = "reservation_items" => db'[x].quantity = db[x].quantity

\* The rows, as far as o relies on them.
Lasting(o) ==
    /\ \A x \in tx[o].locks :
          /\ x \in DOMAIN db' <=> x \in DOMAIN db
          /\ x \in DOMAIN db => db'[x] = db[x]
    /\ \A x \in tx[o].shares : x \in DOMAIN db'
    /\ \A x \in DOMAIN db' :
          \/ x \in DOMAIN db /\ SameKind(x)
          \/ x \notin DOMAIN db /\ x[2] \notin Known
    /\ \A x \in RowsOf(db', "reservation_seats") :
          IsActive(db'[x].status) /\ SeatRow(db'[x].event) \in tx[o].locks =>
              x \in DOMAIN db /\ IsActive(db[x].status)
    /\ \A x \in RowsOf(db', "reservations") :
          x \in DOMAIN db \/ EventRow(db'[x].event) \notin tx[o].locks

\* Time and what is known go on.
Onward == now' \in Nat /\ now' >= now /\ Known \subseteq Known' /\ local' = local

\* A step that leaves the tables alone.
LEMMA TablesLast ==
    ASSUME Inv, db' = db, NEW o \in Procs
    PROVE  Lasting(o)
<1>1. \A x \in tx[o].shares : x \in DOMAIN db
  BY DEF Inv, TxFits
<1> QED
  BY <1>1 DEF Lasting, SameKind, RowsOf

\* The rows of a reservation, or of an event, are known together.
LEMMA KnownRows ==
    ASSUME Inv, NEW o \in Procs, Lasting(o), NEW x, x \in DOMAIN db', x[2] \in Known
    PROVE  x \in DOMAIN db /\ SameKind(x)
BY DEF Lasting

\* A transaction that does nothing keeps its shape.
LEMMA TxStays ==
    ASSUME Inv, NEW o \in Procs, Quiet(o), Lasting(o), Onward
    PROVE  TxFits(o)'
<1>1. TxFits(o)
  BY DEF Inv
<1>2. \A x \in tx[o].locks : x[2] \in Known' \cup {o}
  BY <1>1 DEF TxFits, Onward
<1>3. \A x \in tx[o].shares : x = <<"events", x[2]>> /\ x \in DOMAIN db'
  BY <1>1 DEF TxFits, Lasting
<1> QED
  BY <1>1, <1>2, <1>3 DEF TxFits, Quiet

\* A reservation whose header is locked keeps its event, its type, its status and
\* the quantity of its item.
LEMMA LockedReservation ==
    ASSUME Inv, NEW o \in Procs, Lasting(o), Structure(db'), NEW r,
           ReservationRow(r) \in tx[o].locks, ReservationRow(r) \in DOMAIN db
    PROVE  /\ ReservationRow(r) \in DOMAIN db'
           /\ db'[ReservationRow(r)] = db[ReservationRow(r)]
           /\ db[ReservationRow(r)].type = "quantity" =>
                 db'[ItemRow(r)].quantity = db[ItemRow(r)].quantity
<1>1. /\ ReservationRow(r) \in DOMAIN db' /\ db'[ReservationRow(r)] = db[ReservationRow(r)]
  BY DEF Lasting
<1>2. r \in Known
  BY RowFacts DEF Inv
<1>3. ASSUME db[ReservationRow(r)].type = "quantity"
      PROVE  db'[ItemRow(r)].quantity = db[ItemRow(r)].quantity
  <2>1. ReservationRow(r) \in RowsOf(db', "reservations")
    BY <1>1, RowFacts DEF RowsOf
  <2>2. ChildIn(db', r) = ItemRow(r)
    BY <1>1, <1>3 DEF ChildIn
  <2>3. ItemRow(r) \in DOMAIN db'
    BY <2>1, <2>2, RowFacts DEF Structure, ReservationWhole
  <2>4. SameKind(ItemRow(r))
    BY <1>2, <2>3, KnownRows, RowFacts
  <2> QED
    BY <2>4, RowFacts DEF SameKind
<1> QED
  BY <1>1, <1>3

\* A transition keeps what it has locked.
LEMMA TransitionStays ==
    ASSUME Inv, NEW o \in Procs, Quiet(o), Lasting(o), Structure(db')
    PROVE  TransitionFits(o)'
<1> SUFFICES ASSUME Transits(o)' PROVE TransitionFits(o)'
  BY DEF TransitionFits
<1>0. Transits(o)
  BY DEF Transits, Runs, Busy, Quiet
<1>1. TransitionFits(o)
  BY DEF Inv, LifecycleFits
<1>2. tx'[o] = tx[o] /\ pc'[o] = pc[o] /\ loc'[o] = loc[o]
  BY DEF Quiet
<1> DEFINE r == loc[o].res
           row == ReservationRow(r)
<1>3. CASE pc[o] \in {"l_stock", "l_child"} \/ (pc[o] = "commit" /\ DOMAIN tx[o].writes # {})
  <2>1. /\ row \in DOMAIN db /\ row \in tx[o].locks
    BY <1>0, <1>1, <1>3 DEF TransitionFits
  <2>2. /\ row \in DOMAIN db' /\ db'[row] = db[row]
        /\ db[row].type = "quantity" => db'[ItemRow(r)].quantity = db[ItemRow(r)].quantity
    BY <2>1, LockedReservation
  <2>3. ChildRow(r)' = ChildRow(r)
    BY <1>2, <2>2 DEF ChildRow
  <2>4. /\ \A x \in DOMAIN tx[o].writes : x \in tx[o].locks
    BY <1>0, <1>1, <1>3 DEF TransitionFits
  <2>5. \A x \in tx[o].locks : /\ x \in DOMAIN db' <=> x \in DOMAIN db
                               /\ x \in DOMAIN db => db'[x] = db[x]
    BY DEF Lasting
  <2>6. \A x, s : Moves(tx[o], x, s) => Moves(tx[o], x, s)'
    BY <1>2, <2>4, <2>5 DEF Moves
  <2>7. \A s : /\ StockMoves(tx[o], r, s) /\ db[row].type = "quantity"
               /\ TicketRow(db[row].event) \in DOMAIN db
               => StockMoves(tx[o], r, s)'
    BY <1>2, <2>2, <2>4, <2>5 DEF StockMoves
  <2>8. TicketRow(db[row].event) \in DOMAIN db
    <3>1. row \in RowsOf(db, "reservations")
      BY <2>1, RowFacts DEF RowsOf
    <3>2. EventRow(db[row].event) \in DOMAIN db
      BY <3>1 DEF Inv, Whole, Structure, ReservationWhole
    <3> QED
      BY <3>2, RowFacts DEF Inv, Whole, Structure, EventWhole, Fixtures
  <2> QED
    BY <1>0, <1>1, <1>2, <1>3, <2>2, <2>3, <2>6, <2>7, <2>8 DEF TransitionFits
<1>4. CASE ~(pc[o] \in {"l_stock", "l_child"} \/ (pc[o] = "commit" /\ DOMAIN tx[o].writes # {}))
  BY <1>0, <1>1, <1>2, <1>4 DEF TransitionFits
<1> QED
  BY <1>3, <1>4

\* So does a worker, of all reservations of its batch.
LEMMA BatchStays ==
    ASSUME Inv, NEW o \in Workers, Quiet(o), Lasting(o), Structure(db')
    PROVE  BatchFits(o)'
<1>0. o \in Procs
  BY DEF Procs
<1> SUFFICES ASSUME pc'[o] # "idle" PROVE BatchFits(o)'
  BY DEF BatchFits
<1>1. BatchFits(o)
  BY <1>0 DEF Inv, LifecycleFits
<1>2. tx'[o] = tx[o] /\ pc'[o] = pc[o] /\ loc'[o] = loc[o]
  BY <1>0 DEF Quiet
<1> DEFINE t == tx[o]
           r == loc[o].res
           row == ReservationRow(r)
<1>3. \A x \in t.locks : /\ x \in DOMAIN db' <=> x \in DOMAIN db
                         /\ x \in DOMAIN db => db'[x] = db[x]
  BY DEF Lasting
<1>4. t.locks = DOMAIN t.writes \cup Left(o) /\ Left(o)' = Left(o)
  BY <1>1, <1>2 DEF BatchFits, Left
<1>5. \A x \in Left(o) : /\ x = ReservationRow(x[2]) /\ x \in DOMAIN db' /\ x \in DOMAIN db
                         /\ x \notin DOMAIN t.writes /\ db'[x].status = "reserved"
                         /\ db'[x] = db[x]
  BY <1>1, <1>2, <1>3, <1>4 DEF BatchFits
<1>6. ASSUME pc[o] # "commit"
      PROVE  /\ row \in DOMAIN db /\ row \in DOMAIN db' /\ db'[row] = db[row]
             /\ db[row].type = "quantity" => db'[ItemRow(r)].quantity = db[ItemRow(r)].quantity
  <2>1. row \in Left(o)
    BY <1>6 DEF Left
  <2>2. row \in t.locks /\ row \in DOMAIN db
    BY <1>4, <1>5, <2>1
  <2> QED
    BY <1>0, <1>5, <2>1, <2>2, LockedReservation
<1>7. \A e : OnTheWay(o, e)' = OnTheWay(o, e)
  <2>1. CASE pc[o] = "l_child"
    BY <1>2, <1>6, <2>1 DEF OnTheWay
  <2>2. CASE pc[o] # "l_child"
    BY <1>2, <2>2 DEF OnTheWay
  <2> QED
    BY <2>1, <2>2
<1>8. ASSUME NEW x \in DOMAIN t.writes, NEW n, BatchRow(t, x, n)
      PROVE  BatchRow(t, x, n)'
  <2>0. x \in t.locks
    BY <1>4
  <2>1. CASE /\ x = TicketRow(x[2]) /\ x \in DOMAIN db
             /\ t.writes[x].sold = db[x].sold
             /\ t.writes[x].reserved + Cardinality(Units(t.writes, x[2], "expired")) + n
                   = db[x].reserved
    BY <1>2, <1>3, <2>0, <2>1 DEF BatchRow
  <2>2. CASE /\ x = ReservationRow(x[2]) \/ x = ChildRow(x[2])
             /\ Moves(t, ReservationRow(x[2]), "expired") /\ Moves(t, ChildRow(x[2]), "expired")
             /\ x = ItemRow(x[2]) => TicketRow(db[x].event) \in DOMAIN t.writes
    <3>1. \A y \in {ReservationRow(x[2]), ChildRow(x[2]), x} :
             y \in DOMAIN db /\ y \in DOMAIN db' /\ db'[y] = db[y]
      BY <1>3, <1>4, <2>2 DEF Moves
    <3>2. ChildRow(x[2])' = ChildRow(x[2])
      BY <3>1 DEF ChildRow
    <3>3. \A y \in {ReservationRow(x[2]), ChildRow(x[2])} : Moves(t, y, "expired")'
      BY <1>2, <2>2, <3>1 DEF Moves
    <3> QED
      BY <1>2, <2>2, <3>1, <3>2, <3>3 DEF BatchRow
  <2> QED
    BY <1>8, <2>1, <2>2 DEF BatchRow
<1>9. \A x \in DOMAIN t.writes : BatchRow(t, x, OnTheWay(o, x[2]))'
  <2> SUFFICES ASSUME NEW x \in DOMAIN t.writes PROVE BatchRow(t, x, OnTheWay(o, x[2]))'
    OBVIOUS
  <2>1. PICK n : n = OnTheWay(o, x[2])
    OBVIOUS
  <2>2. BatchRow(t, x, n)
    BY <1>1, <1>2, <2>1 DEF BatchFits
  <2>3. BatchRow(t, x, n)'
    BY <1>8, <2>2
  <2> QED
    BY <1>7, <2>1, <2>3
<1>10. /\ t.dels = {} /\ t.shares = {} /\ loc[o].target = "expired" /\ row \notin loc[o].todo
       /\ pc[o] = "commit" => loc[o].todo = {}
       /\ pc[o] = "l_stock" => db[row].type = "quantity"
       /\ pc[o] = "l_child" /\ db[row].type = "quantity" =>
             TicketRow(db[row].event) \in DOMAIN t.writes
  BY <1>1, <1>2 DEF BatchFits
<1>11. /\ pc[o] = "l_stock" => db'[row].type = "quantity"
       /\ pc[o] = "l_child" /\ db'[row].type = "quantity" =>
             TicketRow(db'[row].event) \in DOMAIN t.writes
  BY <1>6, <1>10
<1> QED
  BY <1>2, <1>4, <1>5, <1>9, <1>10, <1>11 DEF BatchFits

\* So does a request for units.
LEMMA QuantityStays ==
    ASSUME Inv, NEW o \in Handlers, Quiet(o), Lasting(o)
    PROVE  QuantityFits(o)'
<1>1. QuantityFits(o) /\ o \in Procs
  BY DEF Inv, HandlerFits, Procs
<1>2. tx'[o] = tx[o] /\ pc'[o] = pc[o] /\ loc'[o] = loc[o] /\ req'[o] = req[o]
  BY DEF Quiet
<1>3. Runs(o, "quantity")' => Runs(o, "quantity")
  BY <1>2 DEF Runs, Busy
<1>4. CASE Runs(o, "quantity") /\ pc[o] \in {"header", "commit"}
  <2> DEFINE ticket == TicketRow(req[o].event)
  <2>1. ticket \in tx[o].locks /\ ticket \in DOMAIN db
    BY <1>1, <1>4 DEF QuantityFits, HasStock
  <2>2. ticket \in DOMAIN db' /\ db'[ticket] = db[ticket]
    BY <2>1 DEF Lasting
  <2>3. \A q : HasStock(req[o].event, q) => HasStock(req[o].event, q)'
    BY <1>2, <2>2 DEF HasStock
  <2> QED
    BY <1>1, <1>2, <1>4, <2>2, <2>3 DEF QuantityFits
<1> QED
  BY <1>1, <1>2, <1>3, <1>4 DEF QuantityFits

\* So does a request for seats; nobody else takes the seats it has locked.
LEMMA SeatsStay ==
    ASSUME Inv, NEW o \in Handlers, Quiet(o), Lasting(o), Onward
    PROVE  SeatsFit(o)'
<1>1. SeatsFit(o) /\ o \in Procs
  BY DEF Inv, HandlerFits, Procs
<1>2. tx'[o] = tx[o] /\ pc'[o] = pc[o] /\ loc'[o] = loc[o] /\ req'[o] = req[o]
  BY DEF Quiet
<1>3. Runs(o, "seats")' => Runs(o, "seats")
  BY <1>2 DEF Runs, Busy
<1> SUFFICES ASSUME Runs(o, "seats"), Runs(o, "seats")' PROVE SeatsFit(o)'
  BY <1>3 DEF SeatsFit
<1>4. \A x \in tx[o].locks : /\ x \in DOMAIN db' <=> x \in DOMAIN db
                             /\ x \in DOMAIN db => db'[x] = db[x]
  BY DEF Lasting
<1>5. \A x \in DOMAIN tx[o].writes : x \in tx[o].locks
  BY <1>1 DEF Inv, TxFits
<1>6. \A x, s : Moves(tx[o], x, s) => Moves(tx[o], x, s)'
  BY <1>2, <1>4, <1>5 DEF Moves
<1>7. \A r, e : IsHold(r, e) => IsHold(r, e)'
  <2> SUFFICES ASSUME NEW r, NEW e, IsHold(r, e), ReservationRow(r) \in DOMAIN db'
               PROVE  /\ r \in Known' /\ db'[ReservationRow(r)].type = "seats"
                      /\ db'[ReservationRow(r)].event = e
    BY DEF IsHold, Onward
  <2>1. r \in Known /\ r \in Known'
    BY DEF IsHold, Onward
  <2>2. ReservationRow(r) \in DOMAIN db /\ SameKind(ReservationRow(r))
    BY <1>1, <2>1, KnownRows, RowFacts
  <2> QED
    BY <2>1, <2>2, RowFacts DEF SameKind, IsHold
<1>8. SeatRow(req[o].event) \in tx[o].locks =>
        ActiveHolds(db', req[o].event) \subseteq ActiveHolds(db, req[o].event)
  <2> SUFFICES ASSUME SeatRow(req[o].event) \in tx[o].locks,
                      NEW x \in ActiveHolds(db', req[o].event)
               PROVE  x \in ActiveHolds(db, req[o].event)
    OBVIOUS
  <2>1. x \in RowsOf(db', "reservation_seats") /\ IsActive(db'[x].status)
        /\ db'[x].event = req[o].event
    BY DEF ActiveHolds
  <2>2. x \in DOMAIN db /\ IsActive(db[x].status)
    BY <2>1 DEF Lasting
  <2>3. x \in DOMAIN db' /\ x[1] = "reservation_seats"
    BY <2>1 DEF RowsOf
  <2>4. SameKind(x)
    BY <2>2, <2>3 DEF Lasting
  <2> QED
    BY <2>1, <2>2, <2>3, <2>4 DEF ActiveHolds, RowsOf, SameKind
<1>9. CASE pc[o] = "s_lock"
  BY <1>1, <1>2, <1>9 DEF SeatsFit
<1>10. CASE pc[o] # "s_lock"
  <2>1. pc[o] \in LabelsOf("seats") \ {"s_lock"}
    BY <1>10 DEF Inv, Types, Runs
  <2>2. SeatRow(req[o].event) \in DOMAIN db /\ SeatRow(req[o].event) \in tx[o].locks
    BY <1>1, <2>1 DEF SeatsFit
  <2>3. SeatRow(req[o].event) \in DOMAIN db'
    BY <1>4, <2>2
  <2>4. CASE pc[o] \in {"s_list", "s_lockhold", "s_expire"}
    BY <1>1, <1>2, <1>7, <2>1, <2>2, <2>3, <2>4 DEF SeatsFit
  <2>5. CASE pc[o] \notin {"s_list", "s_lockhold", "s_expire"}
    <3>1. pc[o] \in {"header", "s_insert", "commit"}
      BY <2>1, <2>5 DEF LabelsOf
    <3>2. \A x \in DOMAIN tx[o].writes : x \in DOMAIN db' <=> x \in DOMAIN db
      BY <1>4, <1>5
    <3>3. \A x \in DOMAIN tx[o].writes \cap DOMAIN db' :
             /\ db'[x].event = req[o].event
             /\ \/ x = ReservationRow(x[2]) /\ db'[x].type = "seats"
                \/ x = HoldRow(x[2])
             /\ Moves(tx[o], ReservationRow(x[2]), "expired")'
             /\ Moves(tx[o], HoldRow(x[2]), "expired")'
      BY <1>1, <1>4, <1>5, <1>6, <3>1 DEF SeatsFit
    <3>4. \A x \in DOMAIN tx[o].writes \ DOMAIN db' :
             \/ x = ReservationRow(o) /\ pc[o] # "header"
             \/ x = HoldRow(o) /\ pc[o] = "commit"
      BY <1>1, <3>1, <3>2 DEF SeatsFit
    <3> QED
      BY <1>1, <1>2, <1>8, <2>1, <2>2, <2>3, <2>5, <3>1, <3>3, <3>4 DEF SeatsFit
  <2> QED
    BY <2>4, <2>5
<1> QED
  BY <1>9, <1>10

\* So does a Seed.
LEMMA SeedStays ==
    ASSUME Inv, NEW o \in Handlers, Quiet(o)
    PROVE  SeedFits(o)'
<1>1. SeedFits(o)
  BY DEF Inv, HandlerFits
<1> QED
  BY <1>1 DEF SeedFits, Quiet, Runs, Busy

\* Rows a Reset has listed or deleted, and what belongs to them, do not come back,
\* and no reservation appears for an event it has deleted.
LEMMA ResetStays ==
    ASSUME Inv, NEW o \in Handlers, Quiet(o), Lasting(o), Onward, Structure(db')
    PROVE  ResetFits(o)'
<1>1. ResetFits(o) /\ o \in Procs
  BY DEF Inv, HandlerFits, Procs
<1>2. tx'[o] = tx[o] /\ pc'[o] = pc[o] /\ loc'[o] = loc[o] /\ req'[o] = req[o]
  BY DEF Quiet
<1>3. Runs(o, "reset")' => Runs(o, "reset")
  BY <1>2 DEF Runs, Busy
<1> SUFFICES ASSUME Runs(o, "reset"), Runs(o, "reset")' PROVE ResetFits(o)'
  BY <1>3 DEF ResetFits
<1> DEFINE dels == tx[o].dels
           todo == loc[o].todo
           both == dels \cup todo
           ids == loc[o].ids
<1>4. /\ ids \subseteq Known /\ ids \cap (ManualEvents \ Lookalikes) = {}
      /\ pc[o] = "r_list" => ids = {}
      /\ DOMAIN tx[o].writes = {} /\ tx[o].shares = {} /\ tx[o].locks = dels
      /\ \A x \in dels : x \in DOMAIN db /\ db[x].event \in ids
      /\ \A x \in todo : /\ x = <<x[1], x[2]>> /\ x[2] \in Known
                         /\ x \in DOMAIN db => db[x].event \in ids
      /\ pc[o] \notin DeleteStages => todo = {}
      /\ todo # {} => loc[o].row \in todo
  BY <1>1 DEF ResetFits
<1>5. ids \subseteq Known' /\ \A x \in todo : x[2] \in Known'
  BY <1>4 DEF Onward
<1>6. \A x \in dels : x \in DOMAIN db' /\ db'[x].event \in ids
  BY <1>4 DEF Lasting
<1>7. \A x \in todo : x \in DOMAIN db' => db'[x].event \in ids
  <2> SUFFICES ASSUME NEW x \in todo, x \in DOMAIN db' PROVE db'[x].event \in ids
    OBVIOUS
  <2>1. x \in DOMAIN db /\ SameKind(x)
    BY <1>1, <1>4, KnownRows
  <2> QED
    BY <1>4, <2>1 DEF SameKind
<1>8. \A x \in both : x[2] \in Known
  BY <1>4 DEF Inv
<1>9. ChildrenGone(both) => ChildrenGone(both)'
  <2> SUFFICES ASSUME ChildrenGone(both), NEW x \in both, x[1] = "reservations",
                      NEW y \in {ItemRow(x[2]), HoldRow(x[2])}, y \in DOMAIN db'
               PROVE  y \in both
    BY <1>2 DEF ChildrenGone
  <2>1. y[2] = x[2] /\ x[2] \in Known
    BY <1>8, RowFacts
  <2>2. y \in DOMAIN db
    BY <1>1, <2>1, KnownRows
  <2> QED
    BY <2>2 DEF ChildrenGone
<1>10. EventsGone(o, both) => EventsGone(o, both)'
  <2> SUFFICES ASSUME EventsGone(o, both), NEW e \in ids, EventRow(e) \in DOMAIN db'
               PROVE  EventRow(e) \in both
    BY <1>2 DEF EventsGone
  <2>1. EventRow(e) \in DOMAIN db
    BY <1>1, <1>4, KnownRows, RowFacts
  <2> QED
    BY <2>1 DEF EventsGone
<1>11. InventoryGone(both) => InventoryGone(both)'
  <2> SUFFICES ASSUME InventoryGone(both), NEW x \in both, x[1] = "events",
                      NEW y \in {TicketRow(x[2]), SeatRow(x[2])}, y \in DOMAIN db'
               PROVE  y \in both
    BY <1>2 DEF InventoryGone
  <2>1. y[2] = x[2] /\ x[2] \in Known
    BY <1>8, RowFacts
  <2>2. y \in DOMAIN db
    BY <1>1, <2>1, KnownRows
  <2> QED
    BY <2>2 DEF InventoryGone
<1>12. ASSUME pc[o] = "commit" PROVE ReservationsGone(o, dels)'
  <2>1. ReservationsGone(o, dels) /\ EventsGone(o, both) /\ todo = {}
    BY <1>1, <1>12 DEF ResetFits, DeleteStages
  <2> SUFFICES ASSUME NEW x \in RowsOf(db', "reservations"), db'[x].event \in ids
               PROVE  x \in dels
    BY <1>2 DEF ReservationsGone
  <2>2. CASE x \in DOMAIN db
    <3>1. x \in RowsOf(db, "reservations") /\ x \in DOMAIN db'
      BY <2>2 DEF RowsOf
    <3>2. SameKind(x)
      BY <2>2, <3>1 DEF Lasting
    <3> QED
      BY <2>1, <3>1, <3>2 DEF SameKind, ReservationsGone
  <2>3. CASE x \notin DOMAIN db
    <3>1. EventRow(db'[x].event) \in DOMAIN db'
      BY DEF Structure, ReservationWhole
    <3>2. EventRow(db'[x].event) \in DOMAIN db
      BY <1>1, <1>4, <3>1, KnownRows, RowFacts
    <3>3. EventRow(db'[x].event) \in tx[o].locks
      BY <1>4, <2>1, <3>2 DEF EventsGone
    <3> QED
      BY <2>3, <3>3 DEF Lasting
  <2> QED
    BY <2>2, <2>3
<1> HIDE DEF dels, todo, both, ids
<1>13. /\ pc[o] \in {"del_events", "cascade_inventory", "restrict", "commit"}
             \/ (pc[o] = "cascade_children" /\ todo # {}) => ChildrenGone(both)
       /\ pc[o] \in {"cascade_inventory", "restrict", "commit"}
             \/ (pc[o] = "del_events" /\ todo # {}) => EventsGone(o, both)
       /\ pc[o] \in {"restrict", "commit"}
             \/ (pc[o] = "cascade_inventory" /\ todo # {}) => InventoryGone(both)
       /\ pc[o] = "commit" => loc[o].answer.events = ids
  BY <1>1 DEF ResetFits, dels, todo, both, ids
<1>14. /\ pc[o] \in {"del_events", "cascade_inventory", "restrict", "commit"}
             \/ (pc[o] = "cascade_children" /\ todo # {}) => ChildrenGone(both)'
       /\ pc[o] \in {"cascade_inventory", "restrict", "commit"}
             \/ (pc[o] = "del_events" /\ todo # {}) => EventsGone(o, both)'
       /\ pc[o] \in {"restrict", "commit"}
             \/ (pc[o] = "cascade_inventory" /\ todo # {}) => InventoryGone(both)'
       /\ pc[o] = "commit" => loc[o].answer.events = ids /\ ReservationsGone(o, dels)'
  BY <1>9, <1>10, <1>11, <1>12, <1>13
<1> QED
  BY <1>2, <1>4, <1>5, <1>6, <1>7, <1>14 DEF ResetFits, dels, todo, both, ids

\* Reports, reads and answers are kept, and what an answer says is gone stays gone.
LEMMA AnswersStay ==
    ASSUME Inv, NEW o \in Handlers, Quiet(o), Lasting(o), Onward
    PROVE  ReportFits(o)' /\ ReadFits(o)' /\ AnswerFits(o)'
<1>1. ReportFits(o) /\ ReadFits(o) /\ AnswerFits(o) /\ o \in Procs
  BY DEF Inv, HandlerFits, Procs
<1>2. /\ pc'[o] = pc[o] /\ loc'[o] = loc[o] /\ req'[o] = req[o] /\ resp'[o] = resp[o]
  BY DEF Quiet
<1>3. now \in Nat /\ now' \in Nat /\ now' >= now /\ TTL \in Nat /\ Tolerance \in Nat
  BY StressAssumption DEF Inv, Types, Onward
<1>4. ReportFits(o)'
  BY <1>1, <1>2, <1>3 DEF ReportFits, Runs, Busy
<1>5. ReadFits(o)'
  BY <1>1, <1>2 DEF ReadFits, Runs, Busy, Onward
<1>6. ASSUME NEW x, IsLate(x) PROVE IsLate(x)'
  <2>1. x[2] \in DOMAIN Holds => Holds[x[2]].expires \in Nat
    BY HoldsAssumption
  <2>2. ASSUME x \in DOMAIN db'
        PROVE  /\ x \in DOMAIN db /\ db'[x].expires = db[x].expires /\ db[x].expires \in Nat
               /\ db[x].expires + Tolerance < now
    <3>1. x[1] = "reservations" /\ x[2] \in Known
      BY <1>6 DEF IsLate
    <3>2. x \in DOMAIN db /\ SameKind(x)
      BY <1>1, <2>2, <3>1, KnownRows
    <3>3. Fits(x, db[x])
      BY <3>2 DEF Inv, Whole, Structure, AllFit
    <3> QED
      BY <1>6, <3>1, <3>2, <3>3 DEF IsLate, SameKind, Fits
  <2>3. x[2] \in DOMAIN Holds => Holds[x[2]].expires + Tolerance < now'
    BY <1>3, <1>6, <2>1 DEF IsLate
  <2>4. x \in DOMAIN db' => db'[x].expires + Tolerance < now'
    BY <1>3, <2>2
  <2> QED
    BY <1>6, <2>3, <2>4 DEF IsLate, Onward
<1>7. \A r : r \in Known /\ ReservationRow(r) \notin DOMAIN db =>
             r \in Known' /\ ReservationRow(r) \notin DOMAIN db'
  BY <1>1, KnownRows, RowFacts DEF Onward
<1>8. \A e : e \in Known /\ EventRow(e) \notin DOMAIN db =>
             e \in Known' /\ EventRow(e) \notin DOMAIN db'
  BY <1>1, KnownRows, RowFacts DEF Onward
<1>9. AnswerFits(o)'
  BY <1>1, <1>2, <1>6, <1>7, <1>8 DEF AnswerFits, OnlyLate
<1> QED
  BY <1>4, <1>5, <1>9

\* A process that does nothing keeps all it relies on.
LEMMA OthersStay ==
    ASSUME Inv, NEW o \in Procs, Quiet(o), Lasting(o), Onward, Structure(db')
    PROVE  TxFits(o)' /\ LifecycleFits(o)' /\ (o \in Handlers => HandlerFits(o)')
<1>1. TxFits(o)' /\ LifecycleFits(o)'
  BY TxStays, TransitionStays, BatchStays DEF LifecycleFits
<1>2. ASSUME o \in Handlers PROVE HandlerFits(o)'
  BY <1>2, QuantityStays, SeatsStay, SeedStays, ResetStays, AnswersStay DEF HandlerFits
<1> QED
  BY <1>1, <1>2

--------------------------------------------------------------------------------
(* A step of one process *)

\* Everybody else does nothing.
Alone(p) ==
    /\ \A o \in Procs : o # p => Quiet(o)
    /\ DOMAIN tx' = Procs /\ DOMAIN pc' = Procs /\ DOMAIN loc' = Procs
    /\ DOMAIN req' = Handlers /\ DOMAIN resp' = Handlers

\* The types of p's part.
TypesOf(p) ==
    /\ DOMAIN tx[p] = TxNames /\ DOMAIN loc[p] = LocalNames
    /\ p \in Handlers =>
          /\ pc[p] # "idle" => req[p] \in Requests[p]
          /\ Busy(p) => pc[p] \in LabelsOf(req[p].op)
          /\ Busy(p) /\ req[p].op \in AdminOps => local
    /\ p \in Workers => pc[p] \in {"idle", "l_stock", "l_child", "commit"}

\* p has taken no lock that somebody else has, or shares.
FreshLocks(p) ==
    \A o \in Procs : o # p =>
        /\ tx'[p].locks \cap (tx[o].locks \cup tx[o].shares) = {}
        /\ tx'[p].shares \cap tx[o].locks = {}

\* What p has to keep for the invariant to hold after its step.
LEMMA StepInv ==
    ASSUME Inv, NEW p \in Procs, Alone(p), Onward, Whole(db'), TypesOf(p)',
           \A o \in Procs : o # p => Lasting(o),
           \A x \in DOMAIN db' : x[2] \in Known',
           FreshLocks(p), TxFits(p)', LifecycleFits(p)', p \in Handlers => HandlerFits(p)'
    PROVE  Inv'
<1>1. Types'
  <2>1. \A o \in Procs : TypesOf(o)'
    <3> SUFFICES ASSUME NEW o \in Procs, o # p PROVE TypesOf(o)'
      OBVIOUS
    <3>1. TypesOf(o)
      BY DEF Inv, Types, TypesOf
    <3> QED
      BY <3>1 DEF Alone, Quiet, TypesOf, Onward, Busy
  <2>2. now' \in Nat
    BY DEF Onward
  <2> QED
    BY <2>1, <2>2 DEF Types, TypesOf, Alone, Procs
<1>2. \A o \in Procs : TxFits(o)' /\ LifecycleFits(o)' /\ (o \in Handlers => HandlerFits(o)')
  <2> SUFFICES ASSUME NEW o \in Procs, o # p
               PROVE  TxFits(o)' /\ LifecycleFits(o)' /\ (o \in Handlers => HandlerFits(o)')
    OBVIOUS
  <2>1. Quiet(o) /\ Lasting(o) /\ Structure(db')
    BY DEF Alone, Whole
  <2> QED
    BY <2>1, OthersStay
<1>3. \A q, o \in Procs : q # o => Apart(q, o)'
  <2> SUFFICES ASSUME NEW q \in Procs, NEW o \in Procs, q # o
               PROVE  tx'[q].locks \cap (tx'[o].locks \cup tx'[o].shares) = {}
    BY DEF Apart
  <2>1. tx[q].locks \cap (tx[o].locks \cup tx[o].shares) = {}
        /\ tx[o].locks \cap (tx[q].locks \cup tx[q].shares) = {}
    BY DEF Inv, Apart
  <2>2. \A i \in Procs : i # p => tx'[i] = tx[i]
    BY DEF Alone, Quiet
  <2> QED
    BY <2>1, <2>2 DEF FreshLocks
<1>4. \A h \in Handlers : HandlerFits(h)'
  BY <1>2 DEF Procs
<1> QED
  BY <1>1, <1>2, <1>3, <1>4 DEF Inv

--------------------------------------------------------------------------------
(* How a step goes on, and how it ends *)

\* Nobody else has locked the row x, or shares it.
Free(p, x) == \A o \in Procs : o # p => x \notin tx[o].locks /\ x \notin tx[o].shares

\* Only events are shared.
LEMMA FreeRow ==
    ASSUME Inv, NEW p \in Procs, NEW x, Holders(p, x) = {}, x[1] # "events"
    PROVE  Free(p, x)
<1>1. \A o \in Procs : \A y \in tx[o].shares : y[1] = "events"
  BY DEF Inv, TxFits
<1> QED
  BY <1>1 DEF Free, Holders

\* Nobody else has heard of a row a handler makes.
LEMMA OwnRow ==
    ASSUME Inv, NEW h \in Handlers, pc[h] # "done", NEW x, x[2] = h
    PROVE  Free(h, x) /\ h \notin Known /\ x \notin DOMAIN db
<1>1. h \notin Known
  BY StressAssumption DEF Known, Events
<1>2. \A o \in Procs : /\ \A y \in tx[o].locks : y[2] \in Known \cup {o}
                       /\ \A y \in tx[o].shares : y \in DOMAIN db
  BY DEF Inv, TxFits
<1>3. \A y \in DOMAIN db : y[2] \in Known
  BY DEF Inv
<1> QED
  BY <1>1, <1>2, <1>3 DEF Free

\* What a step that goes on changes.
LEMMA Continued ==
    ASSUME Inv, NEW p \in Procs, pc[p] # "done", NEW label, NEW t, NEW l,
           Continue(p, label, t, l), label \notin {"idle", "done"}
    PROVE  /\ Alone(p) /\ Onward /\ db' = db /\ Known' = Known
           /\ tx'[p] = t /\ pc'[p] = label /\ loc'[p] = l /\ now' = now /\ local' = local
           /\ req' = req /\ resp' = resp
<1>1. /\ DOMAIN tx = Procs /\ DOMAIN pc = Procs /\ DOMAIN loc = Procs
      /\ DOMAIN req = Handlers /\ DOMAIN resp = Handlers /\ now \in Nat
  BY DEF Inv, Types
<1>2. /\ pc' = [pc EXCEPT ![p] = label] /\ tx' = [tx EXCEPT ![p] = t]
      /\ loc' = [loc EXCEPT ![p] = l] /\ UNCHANGED <<db, now, local, req, resp>>
  BY DEF Continue
<1>3. /\ tx'[p] = t /\ pc'[p] = label /\ loc'[p] = l
  BY <1>1, <1>2
<1>4. \A o \in Procs : o # p => Quiet(o)
  BY <1>1, <1>2 DEF Quiet
<1>5. Alone(p)
  BY <1>1, <1>2, <1>4 DEF Alone
<1>6. \A h \in Handlers : pc'[h] = "done" <=> pc[h] = "done"
  BY <1>3, <1>4 DEF Quiet, Procs
<1>7. Known' = Known
  BY <1>6 DEF Known
<1> QED
  BY <1>1, <1>2, <1>3, <1>5, <1>7 DEF Onward

\* A step that goes on keeps the invariant when what it adds to its transaction is
\* free.
LEMMA GoesOn ==
    ASSUME Inv, NEW p \in Procs, pc[p] # "done", NEW label, NEW t, NEW l,
           Continue(p, label, t, l), label \notin {"idle", "done"},
           p \in Handlers => Busy(p) /\ label \in LabelsOf(req[p].op),
           p \in Workers => label \in {"l_stock", "l_child", "commit"},
           label \in Blank => t = NoTx,
           DOMAIN t = TxNames, DOMAIN l = LocalNames,
           AllFit(t.writes), DOMAIN t.writes \subseteq t.locks, t.dels \subseteq t.locks,
           \A x \in t.locks \ tx[p].locks :
              x = <<x[1], x[2]>> /\ x[2] \in Known \cup {p} /\ Free(p, x),
           \A x \in t.shares \ tx[p].shares :
              /\ x = <<"events", x[2]>> /\ x \in DOMAIN db
              /\ \A o \in Procs : o # p => x \notin tx[o].locks,
           LifecycleFits(p)', p \in Handlers => HandlerFits(p)'
    PROVE  Inv'
<1>1. /\ Alone(p) /\ Onward /\ db' = db /\ Known' = Known
      /\ tx'[p] = t /\ pc'[p] = label /\ loc'[p] = l /\ now' = now /\ local' = local
      /\ req' = req /\ resp' = resp
  BY Continued
<1>2. Whole(db') /\ \A x \in DOMAIN db' : x[2] \in Known'
  BY <1>1 DEF Inv
<1>3. \A o \in Procs : Lasting(o)
  BY <1>1, TablesLast
<1>4. TypesOf(p)'
  BY <1>1 DEF TypesOf, Inv, Types, Busy
<1>5. FreshLocks(p)
  <2>1. \A o \in Procs : o # p => /\ tx[p].locks \cap (tx[o].locks \cup tx[o].shares) = {}
                                  /\ tx[o].locks \cap (tx[p].locks \cup tx[p].shares) = {}
    BY DEF Inv, Apart
  <2> QED
    BY <1>1, <2>1 DEF FreshLocks, Free
<1>6. TxFits(p)'
  <2>1. TxFits(p)
    BY DEF Inv
  <2>2. /\ \A x \in t.locks : x = <<x[1], x[2]>> /\ x[2] \in Known' \cup {p}
        /\ \A x \in t.shares : x = <<"events", x[2]>> /\ x \in DOMAIN db'
    BY <1>1, <2>1 DEF TxFits
  <2> QED
    BY <1>1, <2>2 DEF TxFits
<1> QED
  BY <1>1, <1>2, <1>3, <1>4, <1>5, <1>6, StepInv

\* While a request runs there is no answer.
LEMMA AnswersWait ==
    ASSUME Inv, NEW h \in Handlers, pc[h] # "done", resp'[h] = resp[h], pc'[h] # "done",
           pc'[h] = "commit" =>
              loc'[h].answer.code \in {"OK", "REFUSED"} /\ loc'[h].answer.failed = {}
    PROVE  AnswerFits(h)'
<1>1. resp[h] = NoAnswer
  BY DEF Inv, HandlerFits, AnswerFits
<1> QED
  BY <1>1, Answers DEF AnswerFits, OnlyLate

\* What a request keeps depends on what it asks for.
LEMMA OneRequest ==
    ASSUME NEW h \in Handlers, pc'[h] \notin {"idle", "done"}, req'[h] \in Requests[h],
           pc'[h] \in LabelsOf(req'[h].op), AnswerFits(h)'
    PROVE  /\ req'[h].op = "quantity" /\ QuantityFits(h)' => LifecycleFits(h)' /\ HandlerFits(h)'
           /\ req'[h].op = "seats" /\ SeatsFit(h)' => LifecycleFits(h)' /\ HandlerFits(h)'
           /\ req'[h].op \in {"cancel", "confirm"} /\ LifecycleFits(h)' /\ pc'[h] # "l_lock" =>
                 HandlerFits(h)'
           /\ req'[h].op = "get" /\ ReadFits(h)' => LifecycleFits(h)' /\ HandlerFits(h)'
           /\ req'[h].op = "seed" /\ SeedFits(h)' => LifecycleFits(h)' /\ HandlerFits(h)'
           /\ req'[h].op = "reset" /\ ResetFits(h)' => LifecycleFits(h)' /\ HandlerFits(h)'
           /\ req'[h].op = "assert" /\ ReportFits(h)' => LifecycleFits(h)' /\ HandlerFits(h)'
<1>1. h \notin Workers
  BY StressAssumption
<1>2. \A op : Runs(h, op)' <=> req'[h].op = op
  BY DEF Runs, Busy
<1>3. ReadFits(h)' \/ pc'[h] \in {"l_lock", "g_children"} \/ req'[h].op = "get"
  BY <1>2 DEF ReadFits
<1>0. req'[h].op \in {"quantity", "seats", "cancel", "confirm", "get", "seed", "reset", "assert"}
  BY RequestAssumption
<1>4. pc'[h] = "l_lock" => req'[h].op \in {"cancel", "confirm"}
  BY <1>0 DEF LabelsOf, ResetLabels, DeleteStages
<1>5. pc'[h] = "g_children" => req'[h].op = "get"
  BY <1>0 DEF LabelsOf, ResetLabels, DeleteStages
<1> QED
  BY <1>1, <1>2, <1>3, <1>4, <1>5 DEF LifecycleFits, TransitionFits, Transits, HandlerFits, QuantityFits,
     SeatsFit, SeedFits, ResetFits, ReportFits

\* The end of a transaction keeps the invariant when what it leaves is whole, the
\* others can go on and the answer is true.
LEMMA Finished ==
    ASSUME Inv, NEW p \in Procs, Busy(p), NEW a, Finish(p, a), Whole(db'),
           \A o \in Procs : o # p => Lasting(o),
           \A x \in DOMAIN db' : x[2] \in Known \/ (x[2] = p /\ p \in Handlers),
           p \in Handlers =>
              /\ a.code \notin {"INCONSISTENT", "DANGLING"}
              /\ a.failed = {} \/ (db' = db /\ OnlyLate(a.failed))
              /\ req[p].op = "get" /\ a.code = "OK" /\ a.children = {} =>
                    req[p].id \in Known /\ ReservationRow(req[p].id) \notin DOMAIN db'
              /\ req[p].op = "reset" /\ a.code = "OK" =>
                    \A e \in a.events : e \in Known /\ EventRow(e) \notin DOMAIN db'
    PROVE  Inv'
<1>1. /\ DOMAIN tx = Procs /\ DOMAIN pc = Procs /\ DOMAIN loc = Procs
      /\ DOMAIN req = Handlers /\ DOMAIN resp = Handlers /\ now \in Nat
  BY DEF Inv, Types
<1>2. /\ tx' = [tx EXCEPT ![p] = NoTx] /\ loc' = [loc EXCEPT ![p] = NoLocals]
      /\ p \in Handlers => resp' = [resp EXCEPT ![p] = a] /\ pc' = [pc EXCEPT ![p] = "done"]
      /\ p \notin Handlers => pc' = [pc EXCEPT ![p] = "idle"] /\ resp' = resp
      /\ now' = now /\ local' = local /\ req' = req
  BY DEF Finish
<1>3. /\ tx'[p] = NoTx /\ loc'[p] = NoLocals /\ now' = now /\ local' = local /\ req' = req
      /\ p \in Handlers => resp'[p] = a /\ pc'[p] = "done"
      /\ p \notin Handlers => pc'[p] = "idle"
  BY <1>1, <1>2
<1>4. \A o \in Procs : o # p => Quiet(o)
  BY <1>1, <1>2 DEF Quiet
<1>5. Alone(p)
  BY <1>1, <1>2, <1>4 DEF Alone
<1>6. Known \subseteq Known' /\ (p \in Handlers => p \in Known')
  <2>1. \A h \in Handlers : pc[h] = "done" => pc'[h] = "done"
    BY <1>3, <1>4 DEF Quiet, Procs, Busy
  <2> QED
    BY <1>3, <2>1 DEF Known
<1>7. Onward
  BY <1>1, <1>3, <1>6 DEF Onward
<1>8. \A x \in DOMAIN db' : x[2] \in Known'
  BY <1>6
<1>9. TypesOf(p)'
  BY <1>3, BlankTx, BlankLocals, StressAssumption DEF TypesOf, Busy, Inv, Types, Procs
<1>10. FreshLocks(p)
  BY <1>3, BlankTx DEF FreshLocks
<1>11. TxFits(p)'
  BY <1>3, BlankTx DEF TxFits, AllFit, Blank
<1>12. LifecycleFits(p)'
  BY <1>3, StressAssumption DEF LifecycleFits, TransitionFits, BatchFits, Transits, Runs, Busy,
     Procs
<1>13. ASSUME p \in Handlers PROVE HandlerFits(p)'
  <2>1. \A op : ~Runs(p, op)'
    BY <1>3, <1>13 DEF Runs, Busy
  <2>2. AnswerFits(p)'
    <3>1. OnlyLate(a.failed)'
      BY <1>3, <1>6, <1>13 DEF OnlyLate, IsLate
    <3> QED
      BY <1>3, <1>6, <1>13, <3>1 DEF AnswerFits
  <2> QED
    BY <1>3, <1>13, <2>1, <2>2 DEF HandlerFits, QuantityFits, SeatsFit, SeedFits, ResetFits,
       ReportFits, ReadFits
<1> QED
  BY <1>5, <1>7, <1>8, <1>9, <1>10, <1>11, <1>12, <1>13, StepInv

\* The end of a transaction that leaves the tables alone.
LEMMA FinishedQuietly ==
    ASSUME Inv, NEW p \in Procs, Busy(p), NEW a, Finish(p, a), db' = db,
           p \in Handlers =>
              /\ a.code \notin {"INCONSISTENT", "DANGLING"}
              /\ OnlyLate(a.failed)
              /\ req[p].op = "get" /\ a.code = "OK" /\ a.children = {} =>
                    req[p].id \in Known /\ ReservationRow(req[p].id) \notin DOMAIN db
              /\ req[p].op = "reset" /\ a.code = "OK" =>
                    \A e \in a.events : e \in Known /\ EventRow(e) \notin DOMAIN db
    PROVE  Inv'
<1>1. Whole(db') /\ \A x \in DOMAIN db' : x[2] \in Known
  BY DEF Inv
<1>2. \A o \in Procs : Lasting(o)
  BY TablesLast
<1> QED
  BY <1>1, <1>2, Finished

\* A transaction that fails is rolled back.
LEMMA FailInv ==
    ASSUME Inv, NEW p \in Procs, Busy(p), NEW code, Fail(p, code),
           code \notin {"INCONSISTENT", "DANGLING", "OK"}
    PROVE  Inv'
<1>1. PICK a : a = [NoAnswer EXCEPT !.code = code]
  OBVIOUS
<1>2. a.code = code /\ a.failed = {}
  BY <1>1, Answers
<1>3. Finish(p, a) /\ db' = db
  BY <1>1 DEF Fail
<1> QED
  BY <1>2, <1>3, FinishedQuietly DEF OnlyLate

--------------------------------------------------------------------------------
(* The steps before a commit *)

\* The label of a request says what was asked.
LEMMA WhoRuns ==
    ASSUME Inv, NEW h \in Handlers, Busy(h)
    PROVE  /\ req[h] \in Requests[h] /\ pc[h] \in LabelsOf(req[h].op)
           /\ req[h].op \in {"quantity", "seats", "cancel", "confirm", "get", "seed", "reset",
                             "assert"}
           /\ pc[h] = "q_update" => req[h].op = "quantity"
           /\ pc[h] \in {"s_lock", "s_list", "s_lockhold", "s_expire", "s_insert"} =>
                 req[h].op = "seats"
           /\ pc[h] = "header" => req[h].op \in {"quantity", "seats"}
           /\ pc[h] \in {"l_lock", "l_stock", "l_child"} => req[h].op \in {"cancel", "confirm"}
           /\ pc[h] \in {"g_header", "g_children"} => req[h].op = "get"
           /\ pc[h] \in {"e_event", "e_ticket", "e_seats"} => req[h].op = "seed"
           /\ pc[h] \in {"r_list", "restrict"} \cup DeleteStages => req[h].op = "reset"
           /\ pc[h] = "check" => req[h].op = "assert"
<1>1. req[h] \in Requests[h] /\ pc[h] \in LabelsOf(req[h].op)
  BY DEF Inv, Types, Busy
<1>2. req[h].op \in {"quantity", "seats", "cancel", "confirm", "get", "seed", "reset", "assert"}
  BY <1>1, RequestAssumption
<1> QED
  BY <1>1, <1>2 DEF LabelsOf, ResetLabels, DeleteStages

\* A process at a label of a running request runs.
LEMMA AtBusy ==
    ASSUME NEW p, NEW label, At(p, label), label \notin {"idle", "done"}
    PROVE  Busy(p) /\ pc[p] = label /\ Blockers(p) = {}
BY DEF At, Busy

\* A request starts, or is refused outside a local environment.
LEMMA BeginInv ==
    ASSUME Inv, NEW h \in Handlers, BeginRequest(h)
    PROVE  Inv'
<1>0. h \in Procs /\ h \notin Workers
  BY StressAssumption DEF Procs
<1>1. /\ DOMAIN tx = Procs /\ DOMAIN pc = Procs /\ DOMAIN loc = Procs
      /\ DOMAIN req = Handlers /\ DOMAIN resp = Handlers /\ now \in Nat
      /\ DOMAIN tx[h] = TxNames /\ DOMAIN loc[h] = LocalNames
  BY <1>0 DEF Inv, Types
<1>2. PICK rq \in Requests[h] :
          /\ req' = [req EXCEPT ![h] = rq]
          /\ IF rq.op \in AdminOps /\ ~local
             THEN /\ resp' = [resp EXCEPT ![h].code = "DISABLED"]
                  /\ pc' = [pc EXCEPT ![h] = "done"]
                  /\ UNCHANGED loc
             ELSE /\ pc' = [pc EXCEPT ![h] = FirstStatement(rq.op)]
                  /\ loc' = [loc EXCEPT ![h].expires = now + TTL,
                                        ![h].check = 1,
                                        ![h].res = IF "id" \in DOMAIN rq THEN rq.id ELSE "none"]
                  /\ UNCHANGED resp
  BY DEF BeginRequest
<1>3. pc[h] = "idle" /\ db' = db /\ tx' = tx /\ now' = now /\ local' = local
  BY DEF BeginRequest
<1>4. req'[h] = rq /\ DOMAIN req' = Handlers
  BY <1>1, <1>2
<1>5. tx[h] = NoTx /\ loc[h] = NoLocals /\ resp[h] = NoAnswer
  BY <1>0, <1>3 DEF Inv, TxFits, HandlerFits, AnswerFits, Blank
<1>6. Alone(h)
  <2>1. CASE rq.op \in AdminOps /\ ~local
    BY <1>1, <1>2, <1>3, <2>1 DEF Alone, Quiet
  <2>2. CASE ~(rq.op \in AdminOps /\ ~local)
    BY <1>1, <1>2, <1>3, <2>2 DEF Alone, Quiet
  <2> QED
    BY <2>1, <2>2
<1>7. Known \subseteq Known'
  BY <1>0, <1>3, <1>6 DEF Known, Alone, Quiet, Procs
<1>8. Onward
  BY <1>1, <1>3, <1>7 DEF Onward
<1>9. Whole(db') /\ \A x \in DOMAIN db' : x[2] \in Known'
  BY <1>3, <1>7 DEF Inv
<1>10. \A o \in Procs : Lasting(o)
  BY <1>3, TablesLast
<1>11. FreshLocks(h)
  BY <1>3, <1>5, BlankTx DEF FreshLocks
<1>12. CASE rq.op \in AdminOps /\ ~local
  <2>1. pc'[h] = "done" /\ loc'[h] = loc[h] /\ resp'[h] = [NoAnswer EXCEPT !.code = "DISABLED"]
    BY <1>0, <1>1, <1>2, <1>5, <1>12
  <2>2. TypesOf(h)'
    BY <1>0, <1>1, <1>3, <1>4, <2>1 DEF TypesOf, Busy
  <2>3. TxFits(h)'
    BY <1>3, <1>5, <2>1, BlankTx DEF TxFits, AllFit
  <2>4. \A op : ~Runs(h, op)'
    BY <2>1 DEF Runs, Busy
  <2>5. LifecycleFits(h)'
    BY <1>0, <2>4 DEF LifecycleFits, TransitionFits, Transits
  <2>6. AnswerFits(h)'
    BY <2>1, Answers DEF AnswerFits, OnlyLate
  <2>7. HandlerFits(h)'
    BY <2>1, <2>4, <2>6 DEF HandlerFits, QuantityFits, SeatsFit, SeedFits, ResetFits,
       ReportFits, ReadFits
  <2> QED
    BY <1>0, <1>6, <1>8, <1>9, <1>10, <1>11, <2>2, <2>3, <2>5, <2>7, StepInv
<1>13. CASE ~(rq.op \in AdminOps /\ ~local)
  <2>1. /\ pc'[h] = FirstStatement(rq.op) /\ resp'[h] = resp[h]
        /\ loc'[h] = [loc[h] EXCEPT !.expires = now + TTL, !.check = 1,
                                    !.res = IF "id" \in DOMAIN rq THEN rq.id ELSE "none"]
    BY <1>0, <1>1, <1>2, <1>13
  <2>2. /\ DOMAIN loc'[h] = LocalNames /\ loc'[h].expires = now + TTL /\ loc'[h].check = 1
        /\ loc'[h].ids = {} /\ loc'[h].todo = {} /\ loc'[h].answer = NoAnswer
        /\ "id" \in DOMAIN rq => loc'[h].res = rq.id
    BY <1>1, <1>5, <2>1, BlankLocals DEF LocalNames
  <2>3. rq.op \in {"quantity", "seats", "cancel", "confirm", "get", "seed", "reset", "assert"}
        /\ (rq.op \in {"cancel", "confirm", "get"} => "id" \in DOMAIN rq)
    BY RequestAssumption
  <2>4. /\ FirstStatement(rq.op) \in LabelsOf(rq.op)
        /\ FirstStatement(rq.op) \in Blank \ {"idle", "done", "g_children"}
    BY <2>3 DEF FirstStatement, LabelsOf, Blank
  <2>5. TypesOf(h)'
    BY <1>0, <1>1, <1>3, <1>4, <1>13, <2>1, <2>2, <2>4 DEF TypesOf, Busy
  <2>6. TxFits(h)'
    BY <1>3, <1>5, <2>1, <2>4, BlankTx DEF TxFits, AllFit
  <2>7. AnswerFits(h)'
    BY <1>3, <2>1, <2>4, AnswersWait DEF Blank
  <2>8. \A op : Runs(h, op)' <=> rq.op = op
    BY <1>4, <2>1, <2>4 DEF Runs, Busy
  <2>9. LifecycleFits(h)'
    BY <1>0, <2>1, <2>2, <2>4 DEF LifecycleFits, TransitionFits, Blank
  <2>10. ReadFits(h)'
    BY <1>4, <2>1, <2>2, <2>3, <2>4, <2>8 DEF ReadFits, LabelsOf, FirstStatement
  <2>11. now + TTL \in Nat /\ now + TTL >= TTL
    BY <1>1, StressAssumption
  <2>12. QuantityFits(h)'
    BY <2>1, <2>2, <2>4, <2>11 DEF QuantityFits, Blank
  <2>13. SeatsFit(h)'
    BY <2>1, <2>2, <2>4, <2>11 DEF SeatsFit, LabelsOf, Blank
  <2>14. SeedFits(h)'
    BY <1>3, <1>5, <2>1, <2>4, BlankTx DEF SeedFits, Blank
  <2>15. ResetFits(h)'
    BY <1>3, <1>5, <2>1, <2>2, <2>4, BlankTx DEF ResetFits, Blank, DeleteStages
  <2>16. ReportFits(h)'
    BY <2>2, Answers DEF ReportFits, LastCheck
  <2>17. HandlerFits(h)'
    BY <2>7, <2>10, <2>12, <2>13, <2>14, <2>15, <2>16 DEF HandlerFits
  <2> QED
    BY <1>0, <1>6, <1>8, <1>9, <1>10, <1>11, <2>5, <2>6, <2>9, <2>17, StepInv
<1> QED
  BY <1>12, <1>13

\* Who a process waits for, by its label.
LEMMA BlockersAt ==
    ASSUME NEW p
    PROVE  /\ pc[p] = "q_update" /\ HasStock(req[p].event, req[p].quantity) =>
                 Blockers(p) = Holders(p, TicketRow(req[p].event))
           /\ pc[p] = "q_update" /\ ~HasStock(req[p].event, req[p].quantity) => Blockers(p) = {}
           /\ pc[p] = "s_lock" => Blockers(p) = Holders(p, SeatRow(req[p].event))
           /\ pc[p] \in {"s_lockhold", "l_lock"} =>
                 Blockers(p) = Holders(p, ReservationRow(loc[p].res))
           /\ pc[p] = "s_expire" =>
                 /\ Blockers(p) \in SUBSET Holders(p, HoldRow(loc[p].res))
                 /\ HoldRow(loc[p].res) \in DOMAIN db /\ db[HoldRow(loc[p].res)].status = "reserved" =>
                       Blockers(p) = Holders(p, HoldRow(loc[p].res))
           /\ pc[p] = "header" => Blockers(p) = Holders(p, EventRow(req[p].event))
           /\ pc[p] = "s_insert" =>
                 Blockers(p) = UNION {Holders(p, x) : x \in ActiveHolds(db, req[p].event)}
           /\ pc[p] = "l_stock" =>
                 Blockers(p) = Holders(p, TicketRow(db[ReservationRow(loc[p].res)].event))
           /\ pc[p] = "l_child" => Blockers(p) = Holders(p, ChildRow(loc[p].res))
           /\ pc[p] \in DeleteStages /\ loc[p].todo # {} =>
                 Blockers(p) = Holders(p, NextRow(p)) \cup Sharers(p, NextRow(p))
           /\ pc[p] = "restrict" =>
                 Blockers(p) = UNION {Holders(p, ReservationRow(r)) :
                                         r \in ReservationsOf(View(p), loc[p].ids)}
           /\ pc[p] \in {"idle", "done", "s_list", "g_header", "g_children", "e_event", "e_ticket",
                         "e_seats", "r_list", "check", "commit"} => Blockers(p) = {}
           /\ pc[p] \in DeleteStages /\ loc[p].todo = {} => Blockers(p) = {}
BY DEF Blockers, DeleteStages, ChildBlockers

\* Locals that change in one place.
LEMMA LocalsSet ==
    ASSUME NEW l, DOMAIN l = LocalNames, NEW v
    PROVE  /\ LET m == [l EXCEPT !.res = v]
              IN  /\ DOMAIN m = LocalNames /\ m.res = v /\ m.ids = l.ids /\ m.todo = l.todo /\ m.row = l.row
                  /\ m.expires = l.expires /\ m.target = l.target /\ m.answer = l.answer
           /\ LET m == [l EXCEPT !.answer = v]
              IN  /\ DOMAIN m = LocalNames /\ m.res = l.res /\ m.ids = l.ids /\ m.todo = l.todo /\ m.row = l.row
                  /\ m.expires = l.expires /\ m.target = l.target /\ m.answer = v
           /\ LET m == [l EXCEPT !.ids = v]
              IN  /\ DOMAIN m = LocalNames /\ m.res = l.res /\ m.ids = v /\ m.todo = l.todo /\ m.row = l.row
                  /\ m.expires = l.expires /\ m.target = l.target /\ m.answer = l.answer
           /\ LET m == [l EXCEPT !.todo = v]
              IN  /\ DOMAIN m = LocalNames /\ m.res = l.res /\ m.ids = l.ids /\ m.todo = v /\ m.row = l.row
                  /\ m.expires = l.expires /\ m.target = l.target /\ m.answer = l.answer
BY DEF LocalNames

\* The parts of a process.
LEMMA PartsOf ==
    ASSUME Inv, NEW p \in Procs
    PROVE  /\ DOMAIN tx[p] = TxNames /\ DOMAIN loc[p] = LocalNames /\ TxFits(p) /\ LifecycleFits(p)
           /\ p \in Handlers => HandlerFits(p) /\ p \notin Workers
BY StressAssumption DEF Inv, Types

\* A committed row fits, and so do those it belongs to.
LEMMA CommittedRow ==
    ASSUME Inv, NEW x \in DOMAIN db
    PROVE  Fits(x, db[x]) /\ x[2] \in Known /\ x = <<x[1], x[2]>>
BY DEF Inv, Whole, Structure, AllFit, Fits

\* Taking units of a ticket type.
LEMMA QuantityUpdateInv ==
    ASSUME Inv, NEW h \in Handlers, QuantityUpdate(h)
    PROVE  Inv'
<1>0. h \in Procs
  BY DEF Procs
<1> DEFINE e == req[h].event
           q == req[h].quantity
           x == TicketRow(e)
<1>1. Busy(h) /\ pc[h] = "q_update" /\ Blockers(h) = {} /\ req[h].op = "quantity"
  BY AtBusy, WhoRuns DEF QuantityUpdate
<1>2. CASE ~HasStock(e, q)
  BY <1>0, <1>1, <1>2, FailInv DEF QuantityUpdate
<1>3. CASE HasStock(e, q)
  <2>1. Holders(h, x) = {}
    BY <1>1, <1>3, BlockersAt
  <2>2. x \in DOMAIN db /\ x[1] = "ticket_types" /\ x[2] = e
    BY <1>3, RowFacts DEF HasStock
  <2>3. Fits(x, db[x]) /\ e \in Known /\ x = <<x[1], x[2]>>
    BY <2>2, CommittedRow
  <2>4. PICK v : v = MovedTicket(db[x], "reserved", q)
    OBVIOUS
  <2>5. q \in Nat
    BY <1>1, WhoRuns, RequestAssumption
  <2>6. Fits(x, v)
    BY <2>2, <2>3, <2>4, <2>5, TicketMoves DEF Fits, Tables, Fixtures, Statuses
  <2>7. PICK t : t = Put(tx[h], OneRow(x, v))
    OBVIOUS
  <2>8. tx[h] = NoTx /\ DOMAIN loc[h] = LocalNames /\ QuantityFits(h) /\ h \notin Workers
    BY <1>0, <1>1, PartsOf DEF TxFits, Blank, HandlerFits
  <2>9. /\ DOMAIN t = TxNames /\ t.dels = {} /\ t.shares = {} /\ t.locks = {x}
        /\ DOMAIN t.writes = {x} /\ t.writes[x] = v
    <3>1. DOMAIN OneRow(x, v) = {x} /\ OneRow(x, v)[x] = v
      BY OneRowIs
    <3> HIDE DEF x
    <3>2. PICK rows : rows = OneRow(x, v)
      OBVIOUS
    <3> QED
      BY <2>7, <2>8, <3>1, <3>2, PutTx, BlankTx
  <2>10. Continue(h, "header", t, loc[h])
    BY <1>3, <2>4, <2>7 DEF QuantityUpdate
  <2>11. /\ db' = db /\ tx'[h] = t /\ pc'[h] = "header" /\ loc'[h] = loc[h] /\ req' = req
         /\ resp' = resp
    BY <1>0, <1>1, <2>10, Continued DEF Busy
  <2>12. AnswerFits(h)'
    BY <1>1, <2>11, AnswersWait DEF Busy
  <2>13. Runs(h, "quantity")
    BY <1>1 DEF Runs
  <2>14. QuantityFits(h)'
    BY <1>3, <2>4, <2>8, <2>9, <2>11, <2>13 DEF QuantityFits, HasStock
  <2>15. "header" \in LabelsOf(req[h].op)
    BY <1>1 DEF LabelsOf
  <2>16. LifecycleFits(h)' /\ HandlerFits(h)'
    BY <1>1, <2>11, <2>12, <2>14, <2>15, WhoRuns, OneRequest
  <2>17. Free(h, x)
    BY <1>0, <2>1, <2>2, FreeRow
  <2>18. AllFit(t.writes)
    BY <2>6, <2>9 DEF AllFit
  <2> HIDE DEF x, e, q
  <2> QED
    BY <1>0, <1>1, <2>2, <2>3, <2>8, <2>9, <2>10, <2>15, <2>16, <2>17, <2>18, GoesOn
       DEF Busy, Blank
<1> QED
  BY <1>2, <1>3

\* Locking the seats.
LEMMA SeatLockInv ==
    ASSUME Inv, NEW h \in Handlers, SeatLock(h)
    PROVE  Inv'
<1>0. h \in Procs
  BY DEF Procs
<1> DEFINE x == SeatRow(req[h].event)
<1>1. Busy(h) /\ pc[h] = "s_lock" /\ Blockers(h) = {} /\ req[h].op = "seats"
  BY AtBusy, WhoRuns DEF SeatLock
<1>2. CASE x \notin DOMAIN db
  BY <1>0, <1>1, <1>2, FailInv DEF SeatLock
<1>3. CASE x \in DOMAIN db
  <2>1. Holders(h, x) = {}
    BY <1>1, <1>3, BlockersAt
  <2>2. x[1] = "seats" /\ x[2] \in Known /\ x = <<x[1], x[2]>>
    BY <1>3, RowFacts, CommittedRow
  <2>3. PICK t : t = Lock(tx[h], x)
    OBVIOUS
  <2>4. tx[h] = NoTx /\ DOMAIN loc[h] = LocalNames /\ SeatsFit(h) /\ h \notin Workers
    BY <1>0, <1>1, PartsOf DEF TxFits, Blank, HandlerFits
  <2>5. /\ DOMAIN t = TxNames /\ t.dels = {} /\ t.shares = {} /\ t.locks = {x}
        /\ DOMAIN t.writes = {}
    BY <2>3, <2>4, LockTx, BlankTx
  <2>6. Continue(h, "s_list", t, loc[h])
    BY <1>3, <2>3 DEF SeatLock
  <2>7. /\ db' = db /\ tx'[h] = t /\ pc'[h] = "s_list" /\ loc'[h] = loc[h] /\ req' = req
        /\ resp' = resp
    BY <1>0, <1>1, <2>6, Continued DEF Busy
  <2>8. AnswerFits(h)'
    BY <1>1, <2>7, AnswersWait DEF Busy
  <2>9. SeatsFit(h)'
    BY <1>1, <1>3, <2>4, <2>5, <2>7 DEF SeatsFit, Runs
  <2>10. "s_list" \in LabelsOf(req[h].op)
    BY <1>1 DEF LabelsOf
  <2>11. LifecycleFits(h)' /\ HandlerFits(h)'
    BY <1>1, <2>7, <2>8, <2>9, <2>10, WhoRuns, OneRequest
  <2>12. Free(h, x)
    BY <1>0, <2>1, <2>2, FreeRow
  <2>13. AllFit(t.writes)
    BY <2>5 DEF AllFit
  <2> HIDE DEF x
  <2> QED
    BY <1>0, <1>1, <2>2, <2>4, <2>5, <2>6, <2>10, <2>11, <2>12, <2>13, GoesOn DEF Busy, Blank
<1> QED
  BY <1>2, <1>3

\* Looking for expired holds.
LEMMA SeatListInv ==
    ASSUME Inv, NEW h \in Handlers, SeatList(h)
    PROVE  Inv'
<1>0. h \in Procs
  BY DEF Procs
<1>1. Busy(h) /\ pc[h] = "s_list" /\ Blockers(h) = {} /\ req[h].op = "seats"
  BY AtBusy, WhoRuns DEF SeatList
<1>2. /\ DOMAIN tx[h] = TxNames /\ DOMAIN loc[h] = LocalNames /\ SeatsFit(h) /\ h \notin Workers
      /\ TxFits(h)
  BY <1>0, PartsOf DEF HandlerFits
<1>3. PICK label, l :
         /\ Continue(h, label, tx[h], l) /\ DOMAIN l = LocalNames /\ l.expires = loc[h].expires
         /\ label = "header" \/ (label = "s_lockhold" /\ IsHold(l.res, req[h].event))
  <2>1. CASE Continue(h, "header", tx[h], loc[h])
    BY <1>2, <2>1
  <2>2. CASE \E r \in ListExpiredActive(req[h].event) :
                Continue(h, "s_lockhold", tx[h], [loc[h] EXCEPT !.res = r])
    <3>1. PICK r \in ListExpiredActive(req[h].event) :
                Continue(h, "s_lockhold", tx[h], [loc[h] EXCEPT !.res = r])
      BY <2>2
    <3>2. PICK l : l = [loc[h] EXCEPT !.res = r]
      OBVIOUS
    <3>3. DOMAIN l = LocalNames /\ l.expires = loc[h].expires /\ l.res = r
      BY <1>2, <3>2, LocalsSet
    <3>4. PICK x \in DOMAIN db :
             x[1] = "reservation_seats" /\ x[2] = r /\ db[x].event = req[h].event
      BY DEF ListExpiredActive, ActiveHolds, RowsOf
    <3>5. r \in Known /\ x = HoldRow(r)
      BY <3>4, CommittedRow, RowNames
    <3>6. ReservationRow(r) \in DOMAIN db => db[ReservationRow(r)].type = "seats"
      <4>1. ChildIn(db, r) = HoldRow(r)
        BY <3>4, <3>5 DEF Inv, Whole, Structure, ChildWhole, RowsOf
      <4>2. db[ReservationRow(r)].type # "quantity"
        BY <4>1, RowPairs DEF ChildIn
      <4>3. ReservationRow(r) \in DOMAIN db =>
               Fits(ReservationRow(r), db[ReservationRow(r)])
        BY CommittedRow
      <4> QED
        BY <4>2, <4>3, RowFacts DEF Fits
    <3>7. ReservationRow(r) \in DOMAIN db => db[ReservationRow(r)].event = req[h].event
      <4>1. x \in RowsOf(db, "reservation_seats") /\ ChildIn(db, r) = x
        BY <3>4, <3>5 DEF Inv, Whole, Structure, ChildWhole, RowsOf
      <4>2. ReservationRow(r) \in DOMAIN db => db[x].event = db[ReservationRow(r)].event
        BY <4>1, RowFacts DEF Inv, Whole, Structure, ReservationWhole, RowsOf
      <4> QED
        BY <3>4, <4>2
    <3> QED
      BY <3>1, <3>2, <3>3, <3>5, <3>6, <3>7 DEF IsHold
  <2> QED
    BY <2>1, <2>2 DEF SeatList
<1>4. /\ db' = db /\ tx'[h] = tx[h] /\ pc'[h] = label /\ loc'[h] = l /\ req' = req
      /\ resp' = resp /\ Known' = Known
  BY <1>0, <1>1, <1>3, Continued DEF Busy
<1>5. AnswerFits(h)'
  BY <1>1, <1>3, <1>4, AnswersWait DEF Busy
<1>6. /\ tx[h].dels = {} /\ SeatRow(req[h].event) \in DOMAIN db
      /\ tx[h].locks = {SeatRow(req[h].event)} /\ tx[h].shares = {} /\ DOMAIN tx[h].writes = {}
      /\ loc[h].expires \in Nat /\ loc[h].expires >= TTL
  BY <1>1, <1>2 DEF SeatsFit, Runs, LabelsOf
<1>7. IsHold(l.res, req[h].event)' <=> IsHold(l.res, req[h].event)
  BY <1>4 DEF IsHold
<1>8. SeatsFit(h)'
  BY <1>3, <1>4, <1>6, <1>7, RowPairs DEF SeatsFit
<1>9. label \in LabelsOf(req[h].op) /\ label \notin Blank
  BY <1>1, <1>3 DEF LabelsOf, Blank
<1>10. label \notin {"idle", "done"}
  BY <1>3
<1>11. LifecycleFits(h)' /\ HandlerFits(h)'
  BY <1>1, <1>4, <1>5, <1>8, <1>9, <1>10, WhoRuns, OneRequest
<1>12. AllFit(tx[h].writes)
  BY <1>6 DEF AllFit
<1> QED
  BY <1>0, <1>1, <1>2, <1>3, <1>6, <1>9, <1>10, <1>11, <1>12, GoesOn DEF Busy

\* Locking an expired hold.
LEMMA SeatLockHoldInv ==
    ASSUME Inv, NEW h \in Handlers, SeatLockHold(h)
    PROVE  Inv'
<1>0. h \in Procs
  BY DEF Procs
<1>1. Busy(h) /\ pc[h] = "s_lockhold" /\ Blockers(h) = {} /\ req[h].op = "seats"
  BY AtBusy, WhoRuns DEF SeatLockHold
<1> DEFINE r == loc[h].res
           x == ReservationRow(r)
           e == req[h].event
<1>2. /\ DOMAIN tx[h] = TxNames /\ DOMAIN loc[h] = LocalNames /\ SeatsFit(h) /\ h \notin Workers
  BY <1>0, PartsOf DEF HandlerFits
<1>3. /\ tx[h].dels = {} /\ SeatRow(e) \in DOMAIN db
      /\ tx[h].locks = {SeatRow(e)} /\ tx[h].shares = {} /\ DOMAIN tx[h].writes = {}
      /\ loc[h].expires \in Nat /\ loc[h].expires >= TTL /\ IsHold(r, e)
  BY <1>1, <1>2 DEF SeatsFit, Runs, LabelsOf
<1>4. PICK t : t = Lock(tx[h], x)
  OBVIOUS
<1>5. /\ DOMAIN t = TxNames /\ t.dels = {} /\ t.shares = {} /\ t.locks = {SeatRow(e), x}
      /\ DOMAIN t.writes = {}
  BY <1>2, <1>3, <1>4, LockTx
<1>6. Continue(h, "s_expire", t, loc[h])
  BY <1>4 DEF SeatLockHold
<1>7. /\ db' = db /\ tx'[h] = t /\ pc'[h] = "s_expire" /\ loc'[h] = loc[h] /\ req' = req
      /\ resp' = resp /\ Known' = Known
  BY <1>0, <1>1, <1>6, Continued DEF Busy
<1>8. AnswerFits(h)'
  BY <1>1, <1>7, AnswersWait DEF Busy
<1>9. IsHold(r, e)'
  BY <1>3, <1>7 DEF IsHold
<1>10. SeatsFit(h)'
  BY <1>3, <1>5, <1>7, <1>9 DEF SeatsFit
<1>11. "s_expire" \in LabelsOf(req[h].op)
  BY <1>1 DEF LabelsOf
<1>12. LifecycleFits(h)' /\ HandlerFits(h)'
  BY <1>1, <1>7, <1>8, <1>10, <1>11, WhoRuns, OneRequest
<1>13. Free(h, x)
  BY <1>0, <1>1, FreeRow, RowFacts, BlockersAt
<1>14. AllFit(t.writes)
  BY <1>5 DEF AllFit
<1>15. x = <<x[1], x[2]>> /\ x[2] \in Known
  BY <1>3, RowPairs DEF IsHold
<1> HIDE DEF x, e, r
<1> QED
  BY <1>0, <1>1, <1>2, <1>3, <1>5, <1>6, <1>11, <1>12, <1>13, <1>14, <1>15, GoesOn
     DEF Busy, Blank

\* A transaction that writes one row.
LEMMA PutOne ==
    ASSUME NEW t, DOMAIN t = TxNames, NEW x, NEW v
    PROVE  LET u == Put(t, OneRow(x, v))
           IN  /\ DOMAIN u = TxNames /\ u.dels = t.dels /\ u.shares = t.shares
               /\ u.locks = t.locks \cup {x} /\ DOMAIN u.writes = {x} \cup DOMAIN t.writes
               /\ u.writes[x] = v
               /\ \A y \in DOMAIN t.writes \ {x} : u.writes[y] = t.writes[y]
<1>1. PICK rows : rows = OneRow(x, v)
  OBVIOUS
<1>2. DOMAIN rows = {x} /\ rows[x] = v
  BY <1>1, OneRowIs
<1> QED
  BY <1>1, <1>2, PutTx

\* The header of a hold is reserved exactly as long as the hold.
LEMMA HoldAndHeader ==
    ASSUME Inv, NEW r
    PROVE  /\ HoldRow(r) \in DOMAIN db =>
                 /\ ReservationRow(r) \in DOMAIN db
                 /\ db[ReservationRow(r)].status = db[HoldRow(r)].status
                 /\ db[ReservationRow(r)].event = db[HoldRow(r)].event
                 /\ db[ReservationRow(r)].type = "seats"
           /\ ItemRow(r) \in DOMAIN db =>
                 /\ ReservationRow(r) \in DOMAIN db
                 /\ db[ReservationRow(r)].status = db[ItemRow(r)].status
                 /\ db[ReservationRow(r)].event = db[ItemRow(r)].event
                 /\ db[ReservationRow(r)].type = "quantity"
           /\ ReservationRow(r) \in DOMAIN db =>
                 /\ ChildRow(r) \in DOMAIN db
                 /\ ChildRow(r) = ChildIn(db, r)
                 /\ db[ReservationRow(r)].status = db[ChildRow(r)].status
                 /\ db[ReservationRow(r)].event = db[ChildRow(r)].event
                 /\ db[ReservationRow(r)].type \in {"quantity", "seats"}
                 /\ EventRow(db[ReservationRow(r)].event) \in DOMAIN db
                 /\ TicketRow(db[ReservationRow(r)].event) \in DOMAIN db
<1>0. ChildRow(r) = ChildIn(db, r)
  BY DEF ChildRow, ChildIn
<1>1. ReservationRow(r) \in DOMAIN db =>
         /\ ReservationRow(r) \in RowsOf(db, "reservations")
         /\ db[ReservationRow(r)].type \in {"quantity", "seats"}
  BY CommittedRow, RowFacts DEF RowsOf, Fits
<1>2. ReservationRow(r) \in DOMAIN db =>
         LET child == ChildIn(db, r)
             e == db[ReservationRow(r)].event
         IN  /\ child \in DOMAIN db /\ db[child].status = db[ReservationRow(r)].status
             /\ db[child].event = e /\ EventRow(e) \in DOMAIN db
  BY <1>1, RowFacts DEF Inv, Whole, Structure, ReservationWhole
<1>3. HoldRow(r) \in DOMAIN db => ReservationRow(r) \in DOMAIN db /\ ChildIn(db, r) = HoldRow(r)
  BY RowFacts DEF Inv, Whole, Structure, ChildWhole, RowsOf
<1>4. ItemRow(r) \in DOMAIN db => ReservationRow(r) \in DOMAIN db /\ ChildIn(db, r) = ItemRow(r)
  BY RowFacts DEF Inv, Whole, Structure, ChildWhole, RowsOf
<1>5. HoldRow(r) # ItemRow(r)
  BY RowFacts
<1>6. \A e : EventRow(e) \in DOMAIN db => TicketRow(e) \in DOMAIN db /\ SeatRow(e) \in DOMAIN db
  BY RowFacts DEF Inv, Whole, Structure, EventWhole, Fixtures
<1> QED
  BY <1>0, <1>1, <1>2, <1>3, <1>4, <1>5, <1>6 DEF ChildIn

\* Expiring a hold.
LEMMA SeatExpireInv ==
    ASSUME Inv, NEW h \in Handlers, SeatExpire(h)
    PROVE  Inv'
<1>0. h \in Procs
  BY DEF Procs
<1>1. Busy(h) /\ pc[h] = "s_expire" /\ Blockers(h) = {} /\ req[h].op = "seats"
  BY AtBusy, WhoRuns DEF SeatExpire
<1> DEFINE r == loc[h].res
           e == req[h].event
           due == {x \in {HoldRow(r), ReservationRow(r)} \cap DOMAIN db : db[x].status = "reserved"}
           new == [x \in due |-> [db[x] EXCEPT !.status = "expired"]]
<1>2. /\ DOMAIN tx[h] = TxNames /\ DOMAIN loc[h] = LocalNames /\ SeatsFit(h) /\ h \notin Workers
  BY <1>0, PartsOf DEF HandlerFits
<1>3. /\ tx[h].dels = {} /\ SeatRow(e) \in DOMAIN db
      /\ tx[h].locks = {SeatRow(e), ReservationRow(r)} /\ tx[h].shares = {}
      /\ DOMAIN tx[h].writes = {}
      /\ loc[h].expires \in Nat /\ loc[h].expires >= TTL /\ IsHold(r, e)
  BY <1>1, <1>2 DEF SeatsFit, Runs, LabelsOf
<1>4. PICK rows : rows = new
  OBVIOUS
<1>5. DOMAIN rows = due /\ \A x \in due : rows[x] = [db[x] EXCEPT !.status = "expired"]
  BY <1>4
<1>6. PICK t : t = Put(tx[h], rows)
  OBVIOUS
<1>7. /\ DOMAIN t = TxNames /\ t.dels = {} /\ t.shares = {}
      /\ t.locks = {SeatRow(e), ReservationRow(r)} \cup due
      /\ DOMAIN t.writes = due /\ \A x \in due : t.writes[x] = [db[x] EXCEPT !.status = "expired"]
  BY <1>2, <1>3, <1>5, <1>6, PutTx
<1>8. Continue(h, "header", t, loc[h])
  BY <1>4, <1>6 DEF SeatExpire
<1>9. /\ db' = db /\ tx'[h] = t /\ pc'[h] = "header" /\ loc'[h] = loc[h] /\ req' = req
      /\ resp' = resp /\ Known' = Known
  BY <1>0, <1>1, <1>8, Continued DEF Busy
<1>10. AnswerFits(h)'
  BY <1>1, <1>9, AnswersWait DEF Busy
<1>11. \A x \in due : /\ x \in {HoldRow(r), ReservationRow(r)} /\ x \in DOMAIN db
                      /\ db[x].status = "reserved"
  OBVIOUS
<1>12. \/ due = {}
       \/ /\ due = {HoldRow(r), ReservationRow(r)} /\ db[ReservationRow(r)].type = "seats"
          /\ db[ReservationRow(r)].event = e /\ db[HoldRow(r)].event = e
  <2>1. ReservationRow(r) \in DOMAIN db =>
           db[ReservationRow(r)].type = "seats" /\ db[ReservationRow(r)].event = e
    BY <1>3 DEF IsHold
  <2>2. HoldRow(r) \in due <=> ReservationRow(r) \in due
    BY <2>1, HoldAndHeader DEF ChildRow
  <2>3. HoldRow(r) \in DOMAIN db => db[HoldRow(r)].event = e
    BY <2>1, HoldAndHeader
  <2> QED
    BY <1>11, <2>1, <2>2, <2>3
<1>13. AllFit(t.writes)
  <2>1. \A x \in due : Fits(x, [db[x] EXCEPT !.status = "expired"])
    <3> SUFFICES ASSUME NEW x \in due PROVE Fits(x, [db[x] EXCEPT !.status = "expired"])
      OBVIOUS
    <3>1. Fits(x, db[x]) /\ x[1] \notin Fixtures
      BY <1>11, CommittedRow, RowFacts DEF Fixtures
    <3> QED
      BY <3>1, StatusMoved DEF Statuses
  <2> QED
    BY <1>7, <2>1 DEF AllFit
<1>14. \A x \in due : Free(h, x) \/ x = ReservationRow(r)
  BY <1>0, <1>1, <1>11, FreeRow, BlockersAt, RowFacts
<1>15. \A x \in due : x = <<x[1], x[2]>> /\ x[2] = r /\ r \in Known
  BY <1>3, <1>11, RowPairs, RowFacts DEF IsHold
<1> HIDE DEF due, new
<1>16. \A x \in due : Moves(t, x, "expired")'
  BY <1>7, <1>9, <1>11 DEF Moves
<1>17. SeatsFit(h)'
  <2>1. \A x \in DOMAIN t.writes \cap DOMAIN db :
           /\ db[x].event = e
           /\ \/ x = ReservationRow(x[2]) /\ db[x].type = "seats"
              \/ x = HoldRow(x[2])
           /\ Moves(t, ReservationRow(x[2]), "expired")'
           /\ Moves(t, HoldRow(x[2]), "expired")'
    BY <1>7, <1>11, <1>12, <1>15, <1>16
  <2>2. DOMAIN t.writes \subseteq DOMAIN db
    BY <1>7, <1>11
  <2>3. /\ \A x \in t.locks : x[1] \in {"seats", "reservations", "reservation_seats"}
        /\ \A x \in t.locks : x = HoldRow(x[2]) =>
              x \in DOMAIN t.writes /\ ReservationRow(x[2]) \in t.locks
    <3>1. \A x \in t.locks : x \in {SeatRow(e), ReservationRow(r)} \/ x = HoldRow(r)
      BY <1>7, <1>11
    <3>2. \A x \in t.locks : x[1] \in {"seats", "reservations", "reservation_seats"}
      BY <3>1, RowFacts
    <3>3. \A x \in t.locks : x = HoldRow(x[2]) => x = HoldRow(r) /\ x[2] = r
      BY <3>1, RowFacts
    <3>4. HoldRow(r) \in t.locks => HoldRow(r) \in due
      BY <1>7, RowFacts
    <3> QED
      BY <1>7, <3>2, <3>3, <3>4
  <2> QED
    BY <1>3, <1>7, <1>9, <2>1, <2>2, <2>3 DEF SeatsFit
<1>18. "header" \in LabelsOf(req[h].op)
  BY <1>1 DEF LabelsOf
<1>19. LifecycleFits(h)' /\ HandlerFits(h)'
  BY <1>1, <1>9, <1>10, <1>17, <1>18, WhoRuns, OneRequest
<1>20. \A x \in t.locks \ tx[h].locks : x \in due /\ x # ReservationRow(r)
  BY <1>3, <1>7
<1> HIDE DEF e, r
<1> QED
  BY <1>0, <1>1, <1>2, <1>7, <1>8, <1>13, <1>14, <1>15, <1>18, <1>19, <1>20, GoesOn
     DEF Busy, Blank

\* Inserting the header of a reservation for units, with its item.
LEMMA QuantityHeaderInv ==
    ASSUME Inv, NEW h \in Handlers, Header(h), req[h].op = "quantity"
    PROVE  Inv'
<1>0. h \in Procs
  BY DEF Procs
<1>1. Busy(h) /\ pc[h] = "header" /\ Blockers(h) = {}
  BY AtBusy DEF Header
<1> DEFINE e == req[h].event
           q == req[h].quantity
           top == [event |-> e, type |-> req[h].op, status |-> "reserved",
                   expires |-> loc[h].expires]
           bottom == [event |-> e, quantity |-> q, status |-> "reserved"]
<1>2. /\ DOMAIN tx[h] = TxNames /\ DOMAIN loc[h] = LocalNames /\ QuantityFits(h)
      /\ h \notin Workers /\ TxFits(h)
  BY <1>0, PartsOf DEF HandlerFits
<1>3. /\ tx[h].dels = {} /\ tx[h].locks = {TicketRow(e)} /\ tx[h].shares = {}
      /\ DOMAIN tx[h].writes = {TicketRow(e)} /\ HasStock(e, q)
      /\ tx[h].writes[TicketRow(e)] = MovedTicket(db[TicketRow(e)], "reserved", q)
      /\ loc[h].expires \in Nat /\ loc[h].expires >= TTL
  BY <1>1, <1>2 DEF QuantityFits, Runs
<1>4. TicketRow(e) \in DOMAIN db
  BY <1>3 DEF HasStock
<1>5. EventRow(e) \in DOMAIN db
  BY <1>4, RowFacts DEF Inv, Whole, Structure, EventWhole, Fixtures
<1>6. q \in 1..Total
  <2>1. q \in Nat \ {0}
    BY <1>1, WhoRuns, RequestAssumption
  <2>2. db[TicketRow(e)].sold \in Nat /\ db[TicketRow(e)].reserved \in Nat
    BY <1>4, CommittedRow, RowFacts DEF Fits
  <2>3. Total - db[TicketRow(e)].sold - db[TicketRow(e)].reserved >= q
    BY <1>3 DEF HasStock
  <2>4. Total \in Nat
    BY StressAssumption
  <2> QED
    BY <2>1, <2>2, <2>3, <2>4
<1>7. PICK t1 : t1 = [tx[h] EXCEPT !.shares = @ \cup {EventRow(e)}]
  OBVIOUS
<1>8. /\ DOMAIN t1 = TxNames /\ t1.dels = tx[h].dels /\ t1.locks = tx[h].locks
      /\ t1.writes = tx[h].writes /\ t1.shares = {EventRow(e)}
  BY <1>2, <1>3, <1>7 DEF TxNames
<1>9. PICK v, w, f, g, rows :
         /\ v = top /\ w = bottom
         /\ f = OneRow(ReservationRow(h), v) /\ g = OneRow(ItemRow(h), w) /\ rows = Patch(f, g)
  OBVIOUS
<1>10. /\ DOMAIN rows = {ReservationRow(h), ItemRow(h)}
       /\ rows[ReservationRow(h)] = v /\ rows[ItemRow(h)] = w
  <2> HIDE DEF top, bottom
  <2>1. DOMAIN f = {ReservationRow(h)} /\ f[ReservationRow(h)] = v
    BY <1>9, OneRowIs
  <2>2. DOMAIN g = {ItemRow(h)} /\ g[ItemRow(h)] = w
    BY <1>9, OneRowIs
  <2>3. ReservationRow(h) # ItemRow(h)
    BY RowFacts
  <2>0. rows = Patch(f, g)
    BY <1>9
  <2>4. /\ DOMAIN Patch(f, g) = DOMAIN f \cup DOMAIN g
        /\ \A x \in DOMAIN f : Patch(f, g)[x] = f[x]
        /\ \A x \in DOMAIN g \ DOMAIN f : Patch(f, g)[x] = g[x]
    BY PatchRows
  <2> QED
    BY <2>0, <2>1, <2>2, <2>3, <2>4
<1>11. PICK t : t = Put(t1, rows)
  OBVIOUS
<1>12. PICK l : l = [loc[h] EXCEPT !.answer = Ok]
  OBVIOUS
<1>13. Continue(h, "commit", t, l)
  BY <1>5, <1>7, <1>9, <1>11, <1>12 DEF Header
<1>14. TicketRow(e) \notin DOMAIN rows
  BY <1>10, RowFacts
<1>15. /\ DOMAIN t = TxNames /\ t.dels = {} /\ t.shares = {EventRow(e)}
       /\ t.locks = DOMAIN t.writes
       /\ DOMAIN t.writes = {TicketRow(e), ReservationRow(h), ItemRow(h)}
       /\ t.writes[ReservationRow(h)] = v /\ t.writes[ItemRow(h)] = w
       /\ t.writes[TicketRow(e)] = tx[h].writes[TicketRow(e)]
  <2> HIDE DEF top, bottom
  <2>1. /\ DOMAIN t = TxNames /\ t.dels = t1.dels /\ t.shares = t1.shares
        /\ t.locks = t1.locks \cup DOMAIN rows
        /\ DOMAIN t.writes = DOMAIN rows \cup DOMAIN t1.writes
        /\ \A x \in DOMAIN rows : t.writes[x] = rows[x]
        /\ \A x \in DOMAIN t1.writes \ DOMAIN rows : t.writes[x] = t1.writes[x]
    BY <1>8, <1>11, PutTx
  <2> QED
    BY <1>3, <1>8, <1>10, <1>14, <2>1
<1>16. DOMAIN l = LocalNames /\ l.answer = Ok /\ l.expires = loc[h].expires
  BY <1>2, <1>12, LocalsSet
<1>17. /\ db' = db /\ tx'[h] = t /\ pc'[h] = "commit" /\ loc'[h] = l /\ req' = req
       /\ resp' = resp /\ Known' = Known
  BY <1>0, <1>1, <1>13, Continued DEF Busy
<1>18. AnswerFits(h)'
  BY <1>1, <1>16, <1>17, AnswersWait, Answers DEF Busy
<1>19. HasStock(e, q)'
  BY <1>3, <1>17 DEF HasStock
<1>20. QuantityFits(h)'
  <2>1. /\ v.event = e /\ v.type = "quantity" /\ v.status = "reserved"
        /\ w.event = e /\ w.quantity = q /\ w.status = "reserved"
    BY <1>9
  <2>2. /\ t.writes[ReservationRow(h)].event = e
        /\ t.writes[ReservationRow(h)].type = "quantity"
        /\ t.writes[ItemRow(h)].event = e /\ t.writes[ItemRow(h)].quantity = q
        /\ \A x \in {ReservationRow(h), ItemRow(h)} : t.writes[x].status = "reserved"
    BY <1>15, <2>1
  <2>3. t.writes[TicketRow(e)] = MovedTicket(db[TicketRow(e)], "reserved", q)'
    BY <1>3, <1>15, <1>17
  <2>4. DOMAIN t.writes = {TicketRow(e)} \cup {ReservationRow(h), ItemRow(h)}
    BY <1>15
  <2> QED
    BY <1>3, <1>15, <1>16, <1>17, <1>19, <2>2, <2>3, <2>4 DEF QuantityFits
<1>21. "commit" \in LabelsOf(req[h].op)
  BY DEF LabelsOf
<1>22. LifecycleFits(h)' /\ HandlerFits(h)'
  BY <1>1, <1>17, <1>18, <1>20, <1>21, WhoRuns, OneRequest
<1>23. Fits(ReservationRow(h), top)
  BY <1>3, RowFacts, RowPairs DEF Fits, Tables, Fixtures, Statuses, DeadlineFits
<1>24. Fits(ItemRow(h), bottom)
  BY <1>6, RowFacts, RowPairs DEF Fits, Tables, Fixtures, Statuses
<1>25. AllFit(t.writes)
  BY <1>2, <1>3, <1>9, <1>15, <1>23, <1>24 DEF AllFit, TxFits
<1>26. /\ Free(h, ReservationRow(h)) /\ Free(h, ItemRow(h))
       /\ ReservationRow(h) = <<ReservationRow(h)[1], ReservationRow(h)[2]>>
       /\ ItemRow(h) = <<ItemRow(h)[1], ItemRow(h)[2]>>
       /\ ReservationRow(h)[2] = h /\ ItemRow(h)[2] = h
  BY <1>1, OwnRow, RowFacts, RowPairs DEF Busy
<1>27. \A x \in t.locks \ tx[h].locks : x \in {ReservationRow(h), ItemRow(h)}
  BY <1>3, <1>15
<1>28. \A o \in Procs : o # h => EventRow(e) \notin tx[o].locks
  BY <1>1, BlockersAt DEF Holders
<1>29. EventRow(e) = <<"events", EventRow(e)[2]>>
  BY RowPairs
<1> HIDE DEF e, q, top, bottom
<1> QED
  BY <1>0, <1>1, <1>2, <1>5, <1>13, <1>15, <1>16, <1>21, <1>22, <1>25, <1>26, <1>27, <1>28,
     <1>29, GoesOn DEF Busy, Blank

\* What a transaction writes stays written when it writes other rows.
LEMMA MovesKept ==
    ASSUME NEW t, NEW u, NEW x, x \in DOMAIN u.writes, u.writes[x] = t.writes[x], db' = db,
           NEW s, Moves(t, x, s)
    PROVE  Moves(u, x, s)'
BY DEF Moves

\* Inserting the header of a reservation for seats.
LEMMA SeatsHeaderInv ==
    ASSUME Inv, NEW h \in Handlers, Header(h), req[h].op = "seats"
    PROVE  Inv'
<1>0. h \in Procs
  BY DEF Procs
<1>1. Busy(h) /\ pc[h] = "header" /\ Blockers(h) = {} /\ Runs(h, "seats")
  BY AtBusy DEF Header, Runs
<1> DEFINE e == req[h].event
           new == ReservationRow(h)
           top == [event |-> e, type |-> req[h].op, status |-> "reserved",
                   expires |-> loc[h].expires]
<1>2. /\ DOMAIN tx[h] = TxNames /\ DOMAIN loc[h] = LocalNames /\ SeatsFit(h)
      /\ h \notin Workers /\ TxFits(h)
  BY <1>0, PartsOf DEF HandlerFits
<1>3. /\ tx[h].dels = {} /\ SeatRow(e) \in DOMAIN db /\ SeatRow(e) \in tx[h].locks
      /\ tx[h].shares = {} /\ loc[h].expires \in Nat /\ loc[h].expires >= TTL
      /\ \A x \in DOMAIN tx[h].writes : x \in DOMAIN db
      /\ \A x \in DOMAIN tx[h].writes :
            /\ db[x].event = e
            /\ \/ x = ReservationRow(x[2]) /\ db[x].type = "seats"
               \/ x = HoldRow(x[2])
            /\ Moves(tx[h], ReservationRow(x[2]), "expired")
            /\ Moves(tx[h], HoldRow(x[2]), "expired")
      /\ \A x \in tx[h].locks : x[1] \in {"seats", "reservations", "reservation_seats"}
      /\ \A x \in tx[h].locks : x = HoldRow(x[2]) =>
            x \in DOMAIN tx[h].writes /\ ReservationRow(x[2]) \in tx[h].locks
  BY <1>1, <1>2 DEF SeatsFit, LabelsOf
<1>4. EventRow(e) \in DOMAIN db
  BY <1>3, RowFacts DEF Inv, Whole, Structure, EventWhole, Fixtures
<1>5. PICK t1 : t1 = [tx[h] EXCEPT !.shares = @ \cup {EventRow(e)}]
  OBVIOUS
<1>6. /\ DOMAIN t1 = TxNames /\ t1.dels = tx[h].dels /\ t1.locks = tx[h].locks
      /\ t1.writes = tx[h].writes /\ t1.shares = {EventRow(e)}
  BY <1>2, <1>3, <1>5 DEF TxNames
<1>7. PICK v : v = top
  OBVIOUS
<1>8. PICK t : t = Put(t1, OneRow(new, v))
  OBVIOUS
<1>9. Continue(h, "s_insert", t, loc[h])
  BY <1>4, <1>5, <1>7, <1>8 DEF Header
<1>10. /\ Free(h, new) /\ h \notin Known /\ new \notin DOMAIN db
  BY <1>1, OwnRow, RowFacts DEF Busy
<1>11. /\ DOMAIN t = TxNames /\ t.dels = {} /\ t.shares = {EventRow(e)}
       /\ t.locks = tx[h].locks \cup {new} /\ DOMAIN t.writes = {new} \cup DOMAIN tx[h].writes
       /\ t.writes[new] = v
       /\ \A x \in DOMAIN tx[h].writes \ {new} : t.writes[x] = tx[h].writes[x]
  BY <1>3, <1>6, <1>8, PutOne
<1>12. \A x \in DOMAIN tx[h].writes : x # new
  BY <1>3, <1>10
<1>13. /\ db' = db /\ tx'[h] = t /\ pc'[h] = "s_insert" /\ loc'[h] = loc[h] /\ req' = req
       /\ resp' = resp /\ Known' = Known
  BY <1>0, <1>1, <1>9, Continued DEF Busy
<1>14. AnswerFits(h)'
  BY <1>1, <1>13, AnswersWait DEF Busy
<1>15. \A x, s : Moves(tx[h], x, s) => Moves(t, x, s)'
  <2> SUFFICES ASSUME NEW x, NEW s, Moves(tx[h], x, s) PROVE Moves(t, x, s)'
    OBVIOUS
  <2>1. x \in DOMAIN tx[h].writes
    BY DEF Moves
  <2>2. x \in DOMAIN t.writes /\ t.writes[x] = tx[h].writes[x]
    BY <1>11, <1>12, <2>1
  <2> HIDE DEF new, top, e
  <2> QED
    BY <1>13, <2>2, MovesKept
<1>16. v.event = e /\ v.type = "seats" /\ v.status = "reserved"
  BY <1>7
<1>17. SeatsFit(h)'
  <2>1. \A x \in DOMAIN t.writes \cap DOMAIN db :
           /\ db[x].event = e
           /\ \/ x = ReservationRow(x[2]) /\ db[x].type = "seats"
              \/ x = HoldRow(x[2])
           /\ Moves(t, ReservationRow(x[2]), "expired")'
           /\ Moves(t, HoldRow(x[2]), "expired")'
    BY <1>3, <1>10, <1>11, <1>15
  <2>2. \A x \in DOMAIN t.writes \ DOMAIN db : x = new
    BY <1>3, <1>11
  <2>3. /\ \A x \in t.locks : x[1] \in {"seats", "reservations", "reservation_seats"}
        /\ \A x \in t.locks : x = HoldRow(x[2]) =>
              x \in DOMAIN t.writes /\ ReservationRow(x[2]) \in t.locks
    BY <1>3, <1>11, RowFacts
  <2>4. /\ new \in DOMAIN t.writes /\ t.writes[new].event = e /\ t.writes[new].type = "seats"
        /\ t.writes[new].status = "reserved"
    BY <1>11, <1>16
  <2> HIDE DEF top
  <2> QED
    BY <1>3, <1>11, <1>13, <2>1, <2>2, <2>3, <2>4 DEF SeatsFit
<1>18. "s_insert" \in LabelsOf(req[h].op)
  BY DEF LabelsOf
<1>19. LifecycleFits(h)' /\ HandlerFits(h)'
  BY <1>1, <1>13, <1>14, <1>17, <1>18, WhoRuns, OneRequest
<1>20. Fits(new, v)
  BY <1>3, <1>7, RowFacts, RowPairs DEF Fits, Tables, Fixtures, Statuses, DeadlineFits
<1>21. AllFit(t.writes)
  BY <1>2, <1>11, <1>12, <1>20 DEF AllFit, TxFits
<1>22. DOMAIN t.writes \subseteq t.locks
  BY <1>2, <1>11 DEF TxFits
<1>23. new = <<new[1], new[2]>> /\ new[2] = h
  BY RowFacts, RowPairs
<1>24. \A o \in Procs : o # h => EventRow(e) \notin tx[o].locks
  BY <1>1, BlockersAt DEF Holders
<1>25. EventRow(e) = <<"events", EventRow(e)[2]>>
  BY RowPairs
<1> HIDE DEF e, new, top
<1> QED
  BY <1>0, <1>1, <1>2, <1>4, <1>9, <1>10, <1>11, <1>18, <1>19, <1>21, <1>22, <1>23, <1>24,
     <1>25, GoesOn DEF Busy, Blank

\* The header is inserted; the event is there.
LEMMA HeaderInv ==
    ASSUME Inv, NEW h \in Handlers, Header(h)
    PROVE  Inv'
<1>1. Busy(h) /\ pc[h] = "header"
  BY AtBusy DEF Header
<1> QED
  BY <1>1, WhoRuns, QuantityHeaderInv, SeatsHeaderInv

\* Inserting the hold.
LEMMA SeatInsertInv ==
    ASSUME Inv, NEW h \in Handlers, SeatInsert(h)
    PROVE  Inv'
<1>0. h \in Procs
  BY DEF Procs
<1>1. Busy(h) /\ pc[h] = "s_insert" /\ Blockers(h) = {} /\ req[h].op = "seats" /\ Runs(h, "seats")
  BY AtBusy, WhoRuns DEF SeatInsert, Runs
<1> DEFINE e == req[h].event
           new == HoldRow(h)
           low == [event |-> e, status |-> "reserved", expires |-> loc[h].expires]
<1>2. CASE ActiveHolds(View(h), e) # {}
  BY <1>0, <1>1, <1>2, FailInv DEF SeatInsert
<1>3. CASE ActiveHolds(View(h), e) = {}
  <2>2. /\ DOMAIN tx[h] = TxNames /\ DOMAIN loc[h] = LocalNames /\ SeatsFit(h)
        /\ h \notin Workers /\ TxFits(h)
    BY <1>0, PartsOf DEF HandlerFits
  <2>3. /\ tx[h].dels = {} /\ SeatRow(e) \in DOMAIN db /\ SeatRow(e) \in tx[h].locks
        /\ tx[h].shares = {EventRow(e)} /\ loc[h].expires \in Nat /\ loc[h].expires >= TTL
        /\ ReservationRow(h) \in DOMAIN tx[h].writes
        /\ tx[h].writes[ReservationRow(h)].event = e
        /\ tx[h].writes[ReservationRow(h)].type = "seats"
        /\ tx[h].writes[ReservationRow(h)].status = "reserved"
        /\ \A x \in DOMAIN tx[h].writes \ DOMAIN db : x = ReservationRow(h)
        /\ \A x \in DOMAIN tx[h].writes \cap DOMAIN db :
              /\ db[x].event = e
              /\ \/ x = ReservationRow(x[2]) /\ db[x].type = "seats"
                 \/ x = HoldRow(x[2])
              /\ Moves(tx[h], ReservationRow(x[2]), "expired")
              /\ Moves(tx[h], HoldRow(x[2]), "expired")
        /\ \A x \in tx[h].locks : x[1] \in {"seats", "reservations", "reservation_seats"}
        /\ \A x \in tx[h].locks : x = HoldRow(x[2]) =>
              x \in DOMAIN tx[h].writes /\ ReservationRow(x[2]) \in tx[h].locks
    BY <1>1, <2>2 DEF SeatsFit, LabelsOf
  <2>4. PICK v, l : v = low /\ l = [loc[h] EXCEPT !.answer = Ok]
    OBVIOUS
  <2>5. PICK t : t = Put(tx[h], OneRow(new, v))
    OBVIOUS
  <2>6. Continue(h, "commit", t, l)
    BY <1>3, <2>4, <2>5 DEF SeatInsert
  <2>7. /\ Free(h, new) /\ h \notin Known /\ new \notin DOMAIN db
    BY <1>1, OwnRow, RowFacts DEF Busy
  <2>8. /\ DOMAIN t = TxNames /\ t.dels = {} /\ t.shares = {EventRow(e)}
        /\ t.locks = tx[h].locks \cup {new} /\ DOMAIN t.writes = {new} \cup DOMAIN tx[h].writes
        /\ t.writes[new] = v
        /\ \A x \in DOMAIN tx[h].writes \ {new} : t.writes[x] = tx[h].writes[x]
    BY <2>2, <2>3, <2>5, PutOne
  <2>9. \A x \in DOMAIN tx[h].writes : x # new
    BY <2>3, <2>7, RowFacts
  <2>10. DOMAIN l = LocalNames /\ l.answer = Ok /\ l.expires = loc[h].expires
    BY <2>2, <2>4, LocalsSet
  <2>11. /\ db' = db /\ tx'[h] = t /\ pc'[h] = "commit" /\ loc'[h] = l /\ req' = req
         /\ resp' = resp /\ Known' = Known
    BY <1>0, <1>1, <2>6, Continued DEF Busy
  <2>12. AnswerFits(h)'
    BY <1>1, <2>10, <2>11, AnswersWait, Answers DEF Busy
  <2>13. \A x, s : Moves(tx[h], x, s) => Moves(t, x, s)'
    <3> SUFFICES ASSUME NEW x, NEW s, Moves(tx[h], x, s) PROVE Moves(t, x, s)'
      OBVIOUS
    <3>1. x \in DOMAIN tx[h].writes
      BY DEF Moves
    <3>2. x \in DOMAIN t.writes /\ t.writes[x] = tx[h].writes[x]
      BY <2>8, <2>9, <3>1
    <3> HIDE DEF new, low, e
    <3> QED
      BY <2>11, <3>2, MovesKept
  <2>14. v.event = e /\ v.status = "reserved"
    BY <2>4
  <2>15. ActiveHolds(db, e) \subseteq DOMAIN tx[h].writes
    <3> SUFFICES ASSUME NEW x \in ActiveHolds(db, e), x \notin DOMAIN tx[h].writes PROVE FALSE
      OBVIOUS
    <3>1. /\ x \in DOMAIN db /\ x[1] = "reservation_seats" /\ db[x].event = e
          /\ IsActive(db[x].status)
      BY DEF ActiveHolds, RowsOf
    <3>2. x \in DOMAIN View(h) /\ View(h)[x] = db[x]
      <4>1. /\ DOMAIN View(h) = (DOMAIN tx[h].writes \cup DOMAIN db) \ tx[h].dels
            /\ \A y \in DOMAIN View(h) : y \notin DOMAIN tx[h].writes => View(h)[y] = db[y]
        BY ViewRows
      <4> QED
        BY <2>3, <3>1, <4>1
    <3>3. x \in ActiveHolds(View(h), e)
      BY <3>1, <3>2 DEF ActiveHolds, RowsOf
    <3> QED
      BY <1>3, <3>3
  <2>16. SeatsFit(h)'
    <3>1. \A x \in DOMAIN t.writes \cap DOMAIN db :
             /\ db[x].event = e
             /\ \/ x = ReservationRow(x[2]) /\ db[x].type = "seats"
                \/ x = HoldRow(x[2])
             /\ Moves(t, ReservationRow(x[2]), "expired")'
             /\ Moves(t, HoldRow(x[2]), "expired")'
      BY <2>3, <2>7, <2>8, <2>13
    <3>2. \A x \in DOMAIN t.writes \ DOMAIN db : x = ReservationRow(h) \/ x = new
      BY <2>3, <2>8
    <3>3. /\ \A x \in t.locks : x[1] \in {"seats", "reservations", "reservation_seats"}
          /\ \A x \in t.locks : x = HoldRow(x[2]) =>
                x \in DOMAIN t.writes /\ ReservationRow(x[2]) \in t.locks
      <4>1. ReservationRow(h) \in tx[h].locks
        BY <2>2, <2>3 DEF TxFits
      <4> QED
        BY <2>3, <2>8, <4>1, RowFacts
    <3>4. /\ ReservationRow(h) \in DOMAIN t.writes
          /\ t.writes[ReservationRow(h)].event = e
          /\ t.writes[ReservationRow(h)].type = "seats"
          /\ t.writes[ReservationRow(h)].status = "reserved"
      BY <2>3, <2>8, <2>9
    <3>5. new \in DOMAIN t.writes /\ t.writes[new].event = e /\ t.writes[new].status = "reserved"
          /\ ActiveHolds(db, e) \subseteq DOMAIN t.writes
      BY <2>8, <2>14, <2>15
    <3> HIDE DEF low
    <3> QED
      BY <2>3, <2>8, <2>10, <2>11, <3>1, <3>2, <3>3, <3>4, <3>5 DEF SeatsFit
  <2>17. "commit" \in LabelsOf(req[h].op)
    BY <1>1 DEF LabelsOf
  <2>18. LifecycleFits(h)' /\ HandlerFits(h)'
    BY <1>1, <2>11, <2>12, <2>16, <2>17, WhoRuns, OneRequest
  <2>19. Fits(new, v)
    BY <2>3, <2>4, RowFacts, RowPairs DEF Fits, Tables, Fixtures, Statuses
  <2>20. AllFit(t.writes)
    BY <2>2, <2>8, <2>9, <2>19 DEF AllFit, TxFits
  <2>21. DOMAIN t.writes \subseteq t.locks
    BY <2>2, <2>8 DEF TxFits
  <2>22. new = <<new[1], new[2]>> /\ new[2] = h
    BY RowFacts, RowPairs
  <2> HIDE DEF e, new, low
  <2> QED
    BY <1>0, <1>1, <2>2, <2>3, <2>6, <2>7, <2>8, <2>10, <2>17, <2>18, <2>20, <2>21, <2>22, GoesOn
       DEF Busy, Blank
<1> QED
  BY <1>2, <1>3

\* A transition starts under the lock of the header of a reserved reservation.
LEMMA StartInv ==
    ASSUME Inv, NEW p \in Handlers, pc[p] = "l_lock", NEW r, NEW target,
           StartTransition(p, ReservationRow(r), target), target \in Final,
           ReservationRow(r) \in DOMAIN db, db[ReservationRow(r)].status = "reserved",
           Holders(p, ReservationRow(r)) = {}
    PROVE  Inv'
<1> DEFINE x == ReservationRow(r)
<1>0. p \in Procs /\ p \notin Workers /\ x[2] = r
  BY StressAssumption, RowFacts DEF Procs
<1>1. PICK label : label = IF db[x].type = "quantity" THEN "l_stock" ELSE "l_child"
  OBVIOUS
<1>2. PICK t, l : t = Lock(tx[p], x) /\ l = [loc[p] EXCEPT !.res = r, !.target = target]
  OBVIOUS
<1>3. Continue(p, label, t, l)
  BY <1>0, <1>1, <1>2 DEF StartTransition, FirstMove
<1>10. Busy(p) /\ req[p].op \in {"cancel", "confirm"} /\ req[p] \in Requests[p]
  BY WhoRuns DEF Busy
<1>4. /\ DOMAIN tx[p] = TxNames /\ DOMAIN loc[p] = LocalNames /\ tx[p] = NoTx
      /\ loc[p].todo = {}
  BY <1>0, <1>10, PartsOf DEF TxFits, Blank, LifecycleFits, TransitionFits, Transits, Runs
<1>5. /\ DOMAIN t = TxNames /\ t.dels = {} /\ t.shares = {} /\ t.locks = {x}
      /\ DOMAIN t.writes = {}
  BY <1>2, <1>4, LockTx, BlankTx
<1>6. DOMAIN l = LocalNames /\ l.res = r /\ l.target = target /\ l.todo = {}
  BY <1>2, <1>4 DEF LocalNames
<1>7. label \in {"l_stock", "l_child"}
  BY <1>1
<1>8. /\ db' = db /\ tx'[p] = t /\ pc'[p] = label /\ loc'[p] = l /\ req' = req
      /\ resp' = resp /\ Known' = Known
  BY <1>0, <1>3, <1>7, Continued
<1>9. LifecycleFits(p)'
  BY <1>0, <1>1, <1>5, <1>6, <1>8 DEF LifecycleFits, TransitionFits
<1>13. label \in LabelsOf(req[p].op)
  BY <1>7, <1>10 DEF LabelsOf
<1>14. AnswerFits(p)'
  BY <1>7, <1>8, <1>10, AnswersWait DEF Busy
<1>15. HandlerFits(p)'
  BY <1>7, <1>8, <1>9, <1>10, <1>13, <1>14, OneRequest
<1>11. Free(p, x) /\ x = <<x[1], x[2]>> /\ x[2] \in Known
  BY <1>0, FreeRow, RowFacts, CommittedRow
<1>12. AllFit(t.writes)
  BY <1>5 DEF AllFit
<1> HIDE DEF x
<1> QED
  BY <1>0, <1>3, <1>5, <1>6, <1>7, <1>9, <1>10, <1>11, <1>12, <1>13, <1>15, GoesOn DEF Blank

\* Locking the header for a confirmation or a cancellation.
LEMMA LifecycleLockInv ==
    ASSUME Inv, NEW h \in Handlers, LifecycleLock(h)
    PROVE  Inv'
<1>0. h \in Procs
  BY DEF Procs
<1>1. /\ Busy(h) /\ pc[h] = "l_lock" /\ Blockers(h) = {} /\ req[h].op \in {"cancel", "confirm"}
      /\ req[h] \in Requests[h]
  BY AtBusy, WhoRuns DEF LifecycleLock
<1> DEFINE r == loc[h].res
           x == ReservationRow(r)
           target == Target(req[h].op)
<1>2. Holders(h, x) = {}
  BY <1>1, BlockersAt
<1>3. CASE Fail(h, "NOT_FOUND")
  BY <1>0, <1>1, <1>3, FailInv
<1>4. CASE /\ x \in DOMAIN db /\ db[x].status = "reserved"
           /\ StartTransition(h, x, IF db[x].expires <= now THEN "expired" ELSE target)
  <2>1. PICK tg : tg = IF db[x].expires <= now THEN "expired" ELSE target
    OBVIOUS
  <2>2. tg \in Final
    BY <2>1 DEF Target, Final
  <2>3. StartTransition(h, ReservationRow(r), tg)
    BY <1>4, <2>1
  <2> QED
    BY <1>0, <1>1, <1>2, <1>4, <2>2, <2>3, StartInv
<1>5. CASE /\ x \in DOMAIN db /\ db[x].status # "reserved"
           /\ Continue(h, "commit", Lock(tx[h], x),
                 [loc[h] EXCEPT !.answer =
                     IF db[x].status = target THEN Ok ELSE [Ok EXCEPT !.code = "REFUSED"]])
  <2>1. PICK a : a = IF db[x].status = target THEN Ok ELSE [Ok EXCEPT !.code = "REFUSED"]
    OBVIOUS
  <2>2. PICK t, l : t = Lock(tx[h], x) /\ l = [loc[h] EXCEPT !.answer = a]
    OBVIOUS
  <2>3. Continue(h, "commit", t, l)
    BY <1>5, <2>1, <2>2
  <2>4. a.code \in {"OK", "REFUSED"} /\ a.failed = {}
    BY <2>1, Answers
  <2>5. /\ DOMAIN tx[h] = TxNames /\ DOMAIN loc[h] = LocalNames /\ tx[h] = NoTx
        /\ h \notin Workers /\ loc[h].todo = {}
    BY <1>0, <1>1, PartsOf DEF TxFits, Blank, LifecycleFits, TransitionFits, Transits, Runs
  <2>6. /\ DOMAIN t = TxNames /\ t.dels = {} /\ t.shares = {} /\ t.locks = {x}
        /\ DOMAIN t.writes = {}
    BY <2>2, <2>5, LockTx, BlankTx
  <2>7. DOMAIN l = LocalNames /\ l.res = r /\ l.answer = a /\ l.todo = {}
    BY <2>2, <2>5, LocalsSet
  <2>8. /\ db' = db /\ tx'[h] = t /\ pc'[h] = "commit" /\ loc'[h] = l /\ req' = req
        /\ resp' = resp /\ Known' = Known
    BY <1>0, <1>1, <2>3, Continued DEF Busy
  <2>9. LifecycleFits(h)'
    BY <2>5, <2>6, <2>7, <2>8 DEF LifecycleFits, TransitionFits
  <2>10. AnswerFits(h)'
    BY <1>1, <2>4, <2>7, <2>8, AnswersWait DEF Busy
  <2>11. "commit" \in LabelsOf(req[h].op)
    BY <1>1 DEF LabelsOf
  <2>12. HandlerFits(h)'
    BY <1>1, <2>8, <2>9, <2>10, <2>11, OneRequest
  <2>13. Free(h, x) /\ x = <<x[1], x[2]>> /\ x[2] \in Known
    BY <1>0, <1>2, <1>5, FreeRow, RowFacts, CommittedRow
  <2>14. AllFit(t.writes)
    BY <2>6 DEF AllFit
  <2> HIDE DEF x, r, target
  <2> QED
    BY <1>0, <1>1, <2>3, <2>5, <2>6, <2>7, <2>9, <2>11, <2>12, <2>13, <2>14, GoesOn
       DEF Busy, Blank
<1> QED
  BY <1>3, <1>4, <1>5 DEF LifecycleLock

--------------------------------------------------------------------------------
(* Counting units *)

\* The item y is one of the event e with that status.
ItemOf(d, y, e, status) ==
    y \in RowsOf(d, "reservation_items") /\ d[y].event = e /\ d[y].status = status

\* As far as the units of e with a status go, y is the same in d and in f.
SameItem(d, f, y, e, status) ==
    /\ ItemOf(d, y, e, status) <=> ItemOf(f, y, e, status)
    /\ ItemOf(d, y, e, status) => d[y].quantity = f[y].quantity

\* There are finitely many units.
LEMMA UnitsAreFinite ==
    ASSUME NEW d, AllFit(d), NEW e, NEW status
    PROVE  IsFiniteSet(Units(d, e, status)) /\ Cardinality(Units(d, e, status)) \in Nat
<1> DEFINE ids == DOMAIN Holds \cup Handlers
           names == {"reservation_items"} \X ids
<1>1. IsFiniteSet(ids)
  BY StressAssumption, FS_Union
<1>2. IsFiniteSet(names)
  BY <1>1, FS_Singleton, FS_Product
<1>3. IsFiniteSet(1..Total)
  BY StressAssumption, FS_Interval
<1>4. IsFiniteSet(names \X (1..Total))
  BY <1>2, <1>3, FS_Product
<1>5. RowsOf(d, "reservation_items") \subseteq names
  BY DEF RowsOf, AllFit, Fits, Fixtures
<1>6. Units(d, e, status) \in SUBSET (names \X (1..Total))
  BY <1>5 DEF Units
<1> QED
  BY <1>4, <1>6, FS_Subset, FS_CardinalityType

\* An item has as many units as its quantity.
LEMMA BlockSize ==
    ASSUME NEW x, NEW q \in Nat
    PROVE  IsFiniteSet({x} \X (1..q)) /\ Cardinality({x} \X (1..q)) = q
<1>1. IsFiniteSet(1..q) /\ Cardinality(1..q) = q
  BY FS_Interval
<1>2. IsFiniteSet({x}) /\ Cardinality({x}) = 1
  BY FS_Singleton
<1> QED
  BY <1>1, <1>2, FS_Product

\* Items that stay the same have the same units.
LEMMA UnitsKept ==
    ASSUME NEW d, NEW f, NEW e, NEW status, \A y : SameItem(d, f, y, e, status)
    PROVE  Units(f, e, status) = Units(d, e, status)
BY DEF Units, SameItem, ItemOf

\* One item more has its quantity of units more.
LEMMA UnitsAdded ==
    ASSUME NEW d, NEW f, AllFit(d), AllFit(f), NEW e, NEW status, NEW x,
           ItemOf(f, x, e, status), ~ItemOf(d, x, e, status),
           \A y : y # x => SameItem(d, f, y, e, status)
    PROVE  /\ f[x].quantity \in Nat
           /\ Cardinality(Units(f, e, status)) = Cardinality(Units(d, e, status)) + f[x].quantity
<1>1. f[x].quantity \in 1..Total /\ f[x].quantity \in Nat /\ Total \in Nat
  BY StressAssumption DEF ItemOf, RowsOf, AllFit, Fits
<1> DEFINE U == Units(d, e, status)
           V == Units(f, e, status)
           B == {x} \X (1..f[x].quantity)
<1>2. \A u \in U : u \in V
  BY DEF Units, SameItem, ItemOf
<1>3. \A u \in B : u \in V
  BY <1>1 DEF Units, ItemOf
<1>4. \A u \in V : u \in U \/ u \in B
  BY <1>1 DEF Units, SameItem, ItemOf
<1>5. U \cap B = {}
  BY DEF Units, ItemOf
<1>6. IsFiniteSet(B) /\ Cardinality(B) = f[x].quantity
  BY <1>1, BlockSize
<1>7. IsFiniteSet(U) /\ Cardinality(U) \in Nat
  BY UnitsAreFinite
<1>8. V = U \cup B
  BY <1>2, <1>3, <1>4
<1> HIDE DEF U, V, B
<1>9. Cardinality(U \cup B) = Cardinality(U) + Cardinality(B) - Cardinality(U \cap B)
  BY <1>6, <1>7, FS_Union
<1>10. Cardinality(U \cap B) = 0
  BY <1>5, FS_EmptySet
<1>11. Cardinality(V) = Cardinality(U) + f[x].quantity
  BY <1>1, <1>6, <1>7, <1>8, <1>9, <1>10
<1> QED
  BY <1>1, <1>11 DEF U, V

\* The units of an item.
LEMMA ItemUnits ==
    ASSUME NEW d, AllFit(d), NEW x, NEW e, NEW status, ItemOf(d, x, e, status)
    PROVE  d[x].quantity \in Nat /\ {x} \X (1..d[x].quantity) \in SUBSET Units(d, e, status)
<1>1. d[x].quantity \in 1..Total /\ d[x].quantity \in Nat /\ Total \in Nat
  BY StressAssumption DEF ItemOf, RowsOf, AllFit, Fits
<1>2. {x} \X (1..d[x].quantity) \in SUBSET Units(d, e, status)
  BY <1>1 DEF Units, ItemOf
<1> QED
  BY <1>1, <1>2

\* A reserved item is counted.
LEMMA ItemCounted ==
    ASSUME NEW d, AllFit(d), NEW x, NEW e, NEW status, ItemOf(d, x, e, status)
    PROVE  d[x].quantity \in Nat /\ d[x].quantity <= Cardinality(Units(d, e, status))
<1>1. d[x].quantity \in Nat
  BY ItemUnits
<1>2. {x} \X (1..d[x].quantity) \in SUBSET Units(d, e, status)
  BY ItemUnits
<1>3. Cardinality({x} \X (1..d[x].quantity)) = d[x].quantity
  BY <1>1, BlockSize
<1>4. IsFiniteSet(Units(d, e, status))
  BY UnitsAreFinite
<1> QED
  BY <1>1, <1>2, <1>3, <1>4, FS_Subset

\* Moving the units of an item: it is reserved and its ticket type counts it.
LEMMA LifecycleStockInv ==
    ASSUME Inv, NEW p \in Handlers, LifecycleStock(p)
    PROVE  Inv'
<1>0. p \in Procs /\ p \notin Workers
  BY StressAssumption DEF Procs
<1>1. Busy(p) /\ pc[p] = "l_stock" /\ Blockers(p) = {}
  BY AtBusy DEF LifecycleStock
<1> DEFINE r == loc[p].res
           row == ReservationRow(r)
           item == ItemRow(r)
           e == db[row].event
           x == TicketRow(e)
<1>2. DOMAIN tx[p] = TxNames /\ DOMAIN loc[p] = LocalNames /\ TxFits(p) /\ LifecycleFits(p)
  BY <1>0, PartsOf
<1>3. Transits(p)
  BY <1>1, WhoRuns DEF Transits, Runs, Procs
<1>4. /\ tx[p].dels = {} /\ tx[p].shares = {} /\ tx[p].locks = {row} /\ DOMAIN tx[p].writes = {}
      /\ row \in DOMAIN db /\ db[row].status = "reserved" /\ db[row].type = "quantity"
      /\ loc[p].target \in Final /\ loc[p].todo = {}
  BY <1>1, <1>2, <1>3 DEF LifecycleFits, TransitionFits
<1>5. /\ item \in DOMAIN db /\ db[item].status = "reserved" /\ db[item].event = e
      /\ x \in DOMAIN db
  BY <1>4, HoldAndHeader DEF ChildRow
<1>6. /\ db[item].quantity \in Nat
      /\ db[item].quantity <= db[x].reserved
      /\ db[x].reserved \in Nat /\ db[x].sold \in Nat
  <2>1. ItemOf(db, item, e, "reserved")
    BY <1>5, RowFacts DEF ItemOf, RowsOf
  <2>2. AllFit(db)
    BY DEF Inv, Whole, Structure
  <2>3. x \in RowsOf(db, "ticket_types") /\ x[2] = e
    BY <1>5, RowFacts DEF RowsOf
  <2>4. db[x].reserved = Cardinality(Units(db, e, "reserved"))
    BY <2>3 DEF Inv, Whole, Counted
  <2>5. db[x].reserved \in Nat /\ db[x].sold \in Nat
    BY <1>5, CommittedRow, RowFacts DEF Fits
  <2> QED
    BY <2>1, <2>2, <2>4, <2>5, ItemCounted
<1>7. PICK v : v = MovedTicket(db[x], loc[p].target, db[item].quantity)
  OBVIOUS
<1>8. PICK t : t = Put(tx[p], OneRow(x, v))
  OBVIOUS
<1>9. Continue(p, "l_child", t, loc[p])
  <2>1. db[x].reserved >= db[item].quantity
    BY <1>6
  <2>2. /\ item \in DOMAIN View(p) /\ View(p)[item] = db[item]
        /\ x \in DOMAIN View(p) /\ View(p)[x] = db[x]
    BY <1>4, <1>5, ViewRows
  <2> QED
    BY <1>5, <1>7, <1>8, <2>1, <2>2 DEF LifecycleStock
<1>10. /\ DOMAIN t = TxNames /\ t.dels = {} /\ t.shares = {} /\ t.locks = {row} \cup {x}
       /\ DOMAIN t.writes = {x} /\ t.writes[x] = v
  <2> HIDE DEF x, row
  <2> QED
    BY <1>2, <1>4, <1>8, PutOne
<1>11. Fits(x, v)
  <2>1. Fits(x, db[x]) /\ x[1] = "ticket_types" /\ x[2] = e
    BY <1>5, CommittedRow, RowFacts
  <2>2. DOMAIN db[x] = {"event", "sold", "reserved"} /\ db[x].event = e
    BY <2>1 DEF Fits, Fixtures
  <2>3. loc[p].target \in Statuses /\ loc[p].target # "reserved"
    BY <1>4 DEF Final, Statuses
  <2>4. /\ DOMAIN v = {"event", "sold", "reserved"} /\ v.event = e
        /\ v.reserved = db[x].reserved - db[item].quantity
        /\ v.sold \in {db[x].sold, db[x].sold + db[item].quantity}
    <3>1. PICK old, q, s : old = db[x] /\ q = db[item].quantity /\ s = loc[p].target
      OBVIOUS
    <3>2. v = MovedTicket(old, s, q)
      BY <1>7, <3>1
    <3>3. /\ DOMAIN old = {"event", "sold", "reserved"} /\ old.event = e
          /\ old.sold \in Nat /\ old.reserved \in Nat /\ q \in Nat
      BY <1>6, <2>2, <3>1
    <3>4. s \in Statuses /\ s # "reserved"
      BY <2>3, <3>1
    <3>5. /\ DOMAIN v = {"event", "sold", "reserved"} /\ v.event = old.event
          /\ s = "confirmed" => v.reserved = old.reserved - q /\ v.sold = old.sold + q
          /\ s \in {"cancelled", "expired"} => v.reserved = old.reserved - q /\ v.sold = old.sold
      BY <3>2, <3>3, <3>4, TicketMoves
    <3>6. s \in {"confirmed", "cancelled", "expired"}
      BY <3>4 DEF Statuses
    <3> QED
      BY <3>1, <3>3, <3>5, <3>6
  <2>5. v.reserved \in Nat /\ v.sold \in Nat
    <3> HIDE DEF x, item, e
    <3> QED
      BY <1>6, <2>4
  <2> QED
    BY <2>1, <2>4, <2>5 DEF Fits, Tables, Fixtures
<1>12. /\ db' = db /\ tx'[p] = t /\ pc'[p] = "l_child" /\ loc'[p] = loc[p] /\ req' = req
       /\ resp' = resp /\ Known' = Known
  BY <1>0, <1>1, <1>9, Continued DEF Busy
<1>13. LifecycleFits(p)'
  <2>1. StockMoves(t, r, loc[p].target)'
    BY <1>7, <1>10, <1>12 DEF StockMoves
  <2> QED
    BY <1>0, <1>4, <1>10, <1>12, <2>1 DEF LifecycleFits, TransitionFits
<1>14. ASSUME p \in Handlers
       PROVE  Busy(p) /\ "l_child" \in LabelsOf(req[p].op) /\ HandlerFits(p)'
  <2>1. req[p].op \in {"cancel", "confirm"} /\ req[p] \in Requests[p]
    BY <1>1, <1>14, WhoRuns
  <2>2. "l_child" \in LabelsOf(req[p].op)
    BY <2>1 DEF LabelsOf
  <2>3. AnswerFits(p)'
    BY <1>1, <1>12, <1>14, AnswersWait DEF Busy
  <2> QED
    BY <1>1, <1>12, <1>13, <1>14, <2>1, <2>2, <2>3, OneRequest
<1>15. Free(p, x) /\ x = <<x[1], x[2]>> /\ x[2] \in Known
  BY <1>0, <1>1, <1>5, BlockersAt, FreeRow, RowFacts, CommittedRow
<1>16. AllFit(t.writes)
  BY <1>10, <1>11 DEF AllFit
<1> HIDE DEF x, row, item, e, r
<1> QED
  BY <1>0, <1>1, <1>2, <1>4, <1>9, <1>10, <1>13, <1>14, <1>15, <1>16, GoesOn DEF Busy, Blank

\* Moving the header and its child.
LEMMA LifecycleChildInv ==
    ASSUME Inv, NEW p \in Handlers, LifecycleChild(p)
    PROVE  Inv'
<1>0. p \in Procs /\ p \notin Workers
  BY StressAssumption DEF Procs
<1>1. Busy(p) /\ pc[p] = "l_child" /\ Blockers(p) = {}
  BY AtBusy DEF LifecycleChild
<1> DEFINE r == loc[p].res
           row == ReservationRow(r)
           child == ChildRow(r)
           due == {x \in {child, row} \cap DOMAIN db : db[x].status = "reserved"}
           target == loc[p].target
           stock == IF db[row].type = "quantity" THEN {TicketRow(db[row].event)} ELSE {}
<1>2. DOMAIN tx[p] = TxNames /\ DOMAIN loc[p] = LocalNames /\ TxFits(p) /\ LifecycleFits(p)
  BY <1>0, PartsOf
<1>3. Transits(p)
  BY <1>1, WhoRuns DEF Transits, Runs, Procs
<1>4. /\ tx[p].dels = {} /\ tx[p].shares = {} /\ tx[p].locks = stock \cup {row}
      /\ DOMAIN tx[p].writes = stock
      /\ row \in DOMAIN db /\ db[row].status = "reserved"
      /\ db[row].type = "quantity" => StockMoves(tx[p], r, target)
      /\ target \in Final /\ loc[p].todo = {}
  BY <1>1, <1>2, <1>3 DEF LifecycleFits, TransitionFits
<1>5. /\ child \in DOMAIN db /\ db[child].status = "reserved"
      /\ child \in {ItemRow(r), HoldRow(r)}
  BY <1>4, HoldAndHeader DEF ChildRow
<1>6. due = {child, row}
  BY <1>4, <1>5
<1>7. PICK rows : rows = [x \in due |-> [db[x] EXCEPT !.status = target]]
  OBVIOUS
<1>8. DOMAIN rows = {child, row} /\ \A x \in {child, row} : rows[x] = [db[x] EXCEPT !.status = target]
  <2> HIDE DEF due, child, row
  <2> QED
    BY <1>6, <1>7
<1>9. PICK t, a : /\ t = Put(tx[p], rows)
                  /\ a = IF target = "expired" THEN [Ok EXCEPT !.code = "REFUSED"] ELSE Ok
  OBVIOUS
<1>10. PICK l : l = [loc[p] EXCEPT !.answer = a]
  OBVIOUS
<1>11. Continue(p, "commit", t, l)
  BY <1>4, <1>7, <1>9, <1>10 DEF LifecycleChild
<1> HIDE DEF due
<1>12. \A x \in stock : x # child /\ x # row
  BY <1>5, RowFacts
<1>13. /\ DOMAIN t = TxNames /\ t.dels = {} /\ t.shares = {}
       /\ t.locks = stock \cup {row, child} /\ DOMAIN t.writes = stock \cup {row, child}
       /\ \A x \in {child, row} : t.writes[x] = [db[x] EXCEPT !.status = target]
       /\ \A x \in stock : t.writes[x] = tx[p].writes[x]
  <2> HIDE DEF stock, row, child
  <2>1. /\ DOMAIN t = TxNames /\ t.dels = tx[p].dels /\ t.shares = tx[p].shares
        /\ t.locks = tx[p].locks \cup DOMAIN rows
        /\ DOMAIN t.writes = DOMAIN rows \cup DOMAIN tx[p].writes
        /\ \A x \in DOMAIN rows : t.writes[x] = rows[x]
        /\ \A x \in DOMAIN tx[p].writes \ DOMAIN rows : t.writes[x] = tx[p].writes[x]
    BY <1>2, <1>9, PutTx
  <2> QED
    BY <1>4, <1>8, <1>12, <2>1
<1>14. /\ DOMAIN l = LocalNames /\ l.res = r /\ l.target = target /\ l.answer = a
       /\ l.todo = {}
  BY <1>2, <1>4, <1>10, LocalsSet
<1>15. a.code \in {"OK", "REFUSED"} /\ a.failed = {}
  BY <1>9, Answers
<1>16. /\ db' = db /\ tx'[p] = t /\ pc'[p] = "commit" /\ loc'[p] = l /\ req' = req
       /\ resp' = resp /\ Known' = Known
  BY <1>0, <1>1, <1>11, Continued DEF Busy
<1>17. LifecycleFits(p)'
  <2>0. r' = r /\ target' = target /\ row' = row
    BY <1>14, <1>16
  <2>3. child' = child
    BY <1>16, <2>0 DEF ChildRow
  <2>1. Moves(t, child, target)' /\ Moves(t, row, target)'
    BY <1>4, <1>5, <1>13, <1>16, <2>0, <2>3 DEF Moves
  <2>2. db[row].type = "quantity" => StockMoves(t, r, target)'
    BY <1>4, <1>13, <1>16, <2>0 DEF StockMoves
  <2> QED
    BY <1>0, <1>4, <1>13, <1>14, <1>16, <2>1, <2>2, <2>3 DEF LifecycleFits, TransitionFits
<1>18. ASSUME p \in Handlers
       PROVE  Busy(p) /\ "commit" \in LabelsOf(req[p].op) /\ HandlerFits(p)'
  <2>1. req[p].op \in {"cancel", "confirm"} /\ req[p] \in Requests[p]
    BY <1>1, <1>18, WhoRuns
  <2>2. "commit" \in LabelsOf(req[p].op)
    BY <2>1 DEF LabelsOf
  <2>3. AnswerFits(p)'
    BY <1>1, <1>14, <1>15, <1>16, <1>18, AnswersWait DEF Busy
  <2> QED
    BY <1>1, <1>16, <1>17, <1>18, <2>1, <2>2, <2>3, OneRequest
<1>19. Free(p, child) /\ child = <<child[1], child[2]>> /\ child[2] \in Known
  BY <1>0, <1>1, <1>5, BlockersAt, FreeRow, RowFacts, CommittedRow
<1>20. \A x \in {child, row} : Fits(x, [db[x] EXCEPT !.status = target])
  <2> SUFFICES ASSUME NEW x \in {child, row} PROVE Fits(x, [db[x] EXCEPT !.status = target])
    OBVIOUS
  <2>1. Fits(x, db[x]) /\ x[1] \notin Fixtures
    BY <1>4, <1>5, CommittedRow, RowFacts DEF Fixtures
  <2>2. target \in Statuses
    BY <1>4 DEF Final, Statuses
  <2> QED
    BY <2>1, <2>2, StatusMoved
<1>21. AllFit(t.writes)
  <2>1. \A x \in stock : Fits(x, tx[p].writes[x])
    BY <1>2, <1>4 DEF TxFits, AllFit
  <2> HIDE DEF stock, row, child
  <2> QED
    BY <1>13, <1>20, <2>1 DEF AllFit
<1> HIDE DEF stock, row, child, r, target
<1> QED
  BY <1>0, <1>1, <1>2, <1>4, <1>11, <1>13, <1>14, <1>17, <1>18, <1>19, <1>21, GoesOn, PartsOf
     DEF Busy, Blank

--------------------------------------------------------------------------------
(* A worker and its batch *)

\* The row x is written with the event, the type, the deadline and the quantity it has.
KeptKind(t, x) ==
    /\ x \in DOMAIN db /\ t.writes[x].event = db[x].event
    /\ x[1] = "reservations" =>
          t.writes[x].type = db[x].type /\ t.writes[x].expires = db[x].expires
    /\ x[1] = "reservation_items" => t.writes[x].quantity = db[x].quantity

\* A row that only moves keeps its kind.
LEMMA MovedRow ==
    ASSUME Inv, NEW t, NEW x, NEW s \in Statuses, Moves(t, x, s), x[1] \notin Fixtures
    PROVE  KeptKind(t, x) /\ t.writes[x].status = s
<1>1. x \in DOMAIN db /\ t.writes[x] = [db[x] EXCEPT !.status = s]
  BY DEF Moves
<1>2. Fits(x, db[x])
  BY <1>1, CommittedRow
<1>3. PICK v, u : v = db[x] /\ u = [v EXCEPT !.status = s]
  OBVIOUS
<1>4. /\ u.status = s /\ u.event = v.event
      /\ x[1] = "reservations" => u.type = v.type /\ u.expires = v.expires
      /\ x[1] = "reservation_items" => u.quantity = v.quantity
  BY <1>2, <1>3, StatusMoved
<1>5. t.writes[x] = u
  BY <1>1, <1>3
<1> QED
  BY <1>1, <1>3, <1>4, <1>5 DEF KeptKind

\* What a worker has when it is not idle, taken apart.
LEMMA BatchParts ==
    ASSUME Inv, NEW w \in Workers, pc[w] # "idle"
    PROVE  LET t == tx[w]
               row == ReservationRow(loc[w].res)
           IN  /\ w \in Procs /\ w \notin Handlers /\ Busy(w) /\ BatchFits(w)
               /\ DOMAIN t = TxNames /\ DOMAIN loc[w] = LocalNames /\ AllFit(t.writes)
               /\ t.dels = {} /\ t.shares = {} /\ t.locks = DOMAIN t.writes \cup Left(w)
               /\ loc[w].target = "expired" /\ row \notin loc[w].todo
               /\ \A x \in Left(w) : /\ x = ReservationRow(x[2]) /\ x \in DOMAIN db
                                    /\ x \notin DOMAIN t.writes /\ db[x].status = "reserved"
               /\ \A x \in DOMAIN t.writes : BatchRow(t, x, OnTheWay(w, x[2]))
               /\ pc[w] = "commit" => loc[w].todo = {}
<1>1. w \in Procs /\ w \notin Handlers /\ pc[w] # "done"
  BY StressAssumption DEF Procs, Inv, Types
<1>2. BatchFits(w) /\ DOMAIN tx[w] = TxNames /\ DOMAIN loc[w] = LocalNames /\ AllFit(tx[w].writes)
  BY <1>1, PartsOf DEF LifecycleFits, TxFits
<1> QED
  BY <1>1, <1>2 DEF BatchFits, Busy

\* A row of a batch that is not a ticket type is expired, and so are its header and
\* its child.
LEMMA ExpiredRow ==
    ASSUME Inv, NEW t, NEW x, NEW n, x = <<x[1], x[2]>>, x[1] # "ticket_types", BatchRow(t, x, n)
    PROVE  /\ x = ReservationRow(x[2]) \/ x = ChildRow(x[2])
           /\ Moves(t, ReservationRow(x[2]), "expired") /\ Moves(t, ChildRow(x[2]), "expired")
           /\ x \in DOMAIN db /\ db[x].status = "reserved" /\ x[1] \notin Fixtures
           /\ KeptKind(t, x) /\ t.writes[x].status = "expired"
           /\ x[1] = "reservation_items" =>
                 x = ItemRow(x[2]) /\ TicketRow(db[x].event) \in DOMAIN t.writes
<1>1. /\ x = ReservationRow(x[2]) \/ x = ChildRow(x[2])
      /\ Moves(t, ReservationRow(x[2]), "expired") /\ Moves(t, ChildRow(x[2]), "expired")
      /\ x = ItemRow(x[2]) => TicketRow(db[x].event) \in DOMAIN t.writes
  BY RowFacts DEF BatchRow
<1>2. x[1] = "reservation_items" => x = ItemRow(x[2])
  BY RowNames
<1>3. Moves(t, x, "expired")
  BY <1>1
<1>4. x[1] \notin Fixtures
  BY <1>1, RowFacts DEF Fixtures, ChildRow
<1>5. KeptKind(t, x) /\ t.writes[x].status = "expired"
  BY <1>3, <1>4, MovedRow DEF Statuses
<1> QED
  BY <1>1, <1>2, <1>3, <1>4, <1>5 DEF Moves

\* A row of a batch stays one when the ticket types keep their numbers, or have the
\* units that were on the way counted, and the other rows are as before.
LEMMA BatchRowKept ==
    ASSUME NEW t, NEW u, NEW x, NEW m, NEW n, BatchRow(t, x, m),
           DOMAIN t.writes \subseteq DOMAIN u.writes,
           \A y \in DOMAIN t.writes : u.writes[y] = t.writes[y],
           x \in DOMAIN t.writes,
           x[1] = "ticket_types" =>
              Cardinality(Units(u.writes, x[2], "expired")) + n
                 = Cardinality(Units(t.writes, x[2], "expired")) + m,
           t.writes[x].reserved \in Int \/ x[1] # "ticket_types",
           m \in Int, n \in Int,
           Cardinality(Units(u.writes, x[2], "expired")) \in Int,
           Cardinality(Units(t.writes, x[2], "expired")) \in Int
    PROVE  BatchRow(u, x, n)
<1>1. u.writes[x] = t.writes[x]
  OBVIOUS
<1>2. CASE /\ x = TicketRow(x[2]) /\ x \in DOMAIN db
           /\ t.writes[x].sold = db[x].sold
           /\ t.writes[x].reserved + Cardinality(Units(t.writes, x[2], "expired")) + m
                 = db[x].reserved
  <2>1. x[1] = "ticket_types"
    BY <1>2, RowFacts
  <2>2. u.writes[x].reserved + Cardinality(Units(u.writes, x[2], "expired")) + n = db[x].reserved
    BY <1>1, <1>2, <2>1
  <2> QED
    BY <1>1, <1>2, <2>2 DEF BatchRow
<1>3. CASE /\ x = ReservationRow(x[2]) \/ x = ChildRow(x[2])
           /\ Moves(t, ReservationRow(x[2]), "expired") /\ Moves(t, ChildRow(x[2]), "expired")
           /\ x = ItemRow(x[2]) => TicketRow(db[x].event) \in DOMAIN t.writes
  <2>1. Moves(u, ReservationRow(x[2]), "expired") /\ Moves(u, ChildRow(x[2]), "expired")
    BY <1>3 DEF Moves
  <2>2. x = ItemRow(x[2]) => TicketRow(db[x].event) \in DOMAIN u.writes
    BY <1>3
  <2> QED
    BY <1>3, <2>1, <2>2 DEF BatchRow
<1> QED
  BY <1>2, <1>3 DEF BatchRow

\* The next reservation of a batch: its header is locked and nothing is on the way.
LEMMA BatchGoesOn ==
    ASSUME Inv, NEW w \in Workers, NEW t, NEW left, NextOfBatch(w, t, left),
           DOMAIN t = TxNames, AllFit(t.writes), t.dels = {}, t.shares = {},
           t.locks = DOMAIN t.writes \cup left,
           \A x \in t.locks \ tx[w].locks : x = <<x[1], x[2]>> /\ x[2] \in Known /\ Free(w, x),
           \A x \in left : /\ x = ReservationRow(x[2]) /\ x \in DOMAIN db
                           /\ x \notin DOMAIN t.writes /\ db[x].status = "reserved",
           \A x \in DOMAIN t.writes : BatchRow(t, x, 0)
    PROVE  Inv'
<1>0. w \in Procs /\ w \notin Handlers /\ pc[w] # "done" /\ DOMAIN loc[w] = LocalNames
  BY StressAssumption, PartsOf DEF Procs, Inv, Types
<1>1. PICK x \in left :
          Continue(w, FirstMove(x), t,
             [loc[w] EXCEPT !.res = x[2], !.target = "expired", !.todo = left \ {x}])
  BY DEF NextOfBatch
<1>2. PICK l, label : /\ l = [loc[w] EXCEPT !.res = x[2], !.target = "expired", !.todo = left \ {x}]
                      /\ label = FirstMove(x)
  OBVIOUS
<1>3. DOMAIN l = LocalNames /\ l.res = x[2] /\ l.target = "expired" /\ l.todo = left \ {x}
  BY <1>0, <1>2 DEF LocalNames
<1>4. /\ label \in {"l_stock", "l_child"}
      /\ label = "l_stock" <=> db[x].type = "quantity"
  BY <1>2 DEF FirstMove
<1>5. Continue(w, label, t, l)
  BY <1>1, <1>2
<1>6. db' = db /\ tx'[w] = t /\ pc'[w] = label /\ loc'[w] = l
  BY <1>0, <1>4, <1>5, Continued
<1>7. x = ReservationRow(l.res) /\ x \in DOMAIN db
  BY <1>3
<1>8. Left(w)' = left
  BY <1>3, <1>4, <1>6, <1>7 DEF Left
<1>9. \A e : OnTheWay(w, e)' = 0
  BY <1>4, <1>6, <1>7 DEF OnTheWay
<1>10. \A y \in DOMAIN t.writes : BatchRow(t, y, 0)'
  <2> SUFFICES ASSUME NEW y \in DOMAIN t.writes PROVE BatchRow(t, y, 0)'
    OBVIOUS
  <2>1. BatchRow(t, y, 0)
    OBVIOUS
  <2>2. ChildRow(y[2])' = ChildRow(y[2])
    BY <1>6 DEF ChildRow
  <2>3. \A z : Moves(t, z, "expired")' <=> Moves(t, z, "expired")
    BY <1>6 DEF Moves
  <2> QED
    BY <1>6, <2>1, <2>2, <2>3 DEF BatchRow
<1>11. BatchFits(w)'
  <2>1. \A y \in DOMAIN t.writes : BatchRow(t, y, OnTheWay(w, y[2]))'
    BY <1>9, <1>10
  <2> QED
    BY <1>3, <1>4, <1>6, <1>7, <1>8, <2>1 DEF BatchFits
<1>12. LifecycleFits(w)'
  BY <1>0, <1>11 DEF LifecycleFits, TransitionFits, Transits, Runs
<1> QED
  BY <1>0, <1>3, <1>4, <1>5, <1>12, GoesOn DEF Blank

\* A worker locks the overdue reservations that nobody has locked.
LEMMA WorkerScanInv ==
    ASSUME Inv, NEW w \in Workers, WorkerScan(w)
    PROVE  Inv'
<1>0. w \in Procs /\ pc[w] = "idle"
  BY DEF Procs, WorkerScan
<1>1. PICK batch \in ExpiredBatches(w) :
          NextOfBatch(w, [tx[w] EXCEPT !.locks = @ \cup batch], batch)
  BY DEF WorkerScan
<1>2. \A x \in batch : /\ x \in DOMAIN db /\ x[1] = "reservations" /\ db[x].status = "reserved"
                       /\ Holders(w, x) = {}
  BY DEF ExpiredBatches, RowsOf
<1>3. \A x \in batch : x = ReservationRow(x[2]) /\ x = <<x[1], x[2]>> /\ x[2] \in Known
  BY <1>2, CommittedRow, RowNames
<1>4. \A x \in batch : Free(w, x)
  BY <1>0, <1>2, FreeRow
<1>5. PICK t : t = [tx[w] EXCEPT !.locks = @ \cup batch]
  OBVIOUS
<1>6. tx[w] = NoTx
  BY <1>0, PartsOf DEF TxFits, Blank
<1>7. /\ DOMAIN t = TxNames /\ DOMAIN t.writes = {} /\ t.dels = {} /\ t.shares = {}
      /\ t.locks = batch
  BY <1>5, <1>6, BlankTx DEF TxNames
<1>8. AllFit(t.writes)
  BY <1>7 DEF AllFit
<1>9. NextOfBatch(w, t, batch)
  BY <1>1, <1>5
<1> QED
  BY <1>2, <1>3, <1>4, <1>7, <1>8, <1>9, BatchGoesOn

\* The units that a batch has expired were reserved.
LEMMA ExpiredUnits ==
    ASSUME Inv, NEW w \in Workers, pc[w] # "idle", NEW e
    PROVE  /\ Units(tx[w].writes, e, "expired") \subseteq Units(db, e, "reserved")
           /\ \A u \in Units(tx[w].writes, e, "expired") :
                 u[1] \in DOMAIN tx[w].writes /\ TicketRow(e) \in DOMAIN tx[w].writes
<1> DEFINE t == tx[w]
<1>1. AllFit(t.writes) /\ \A x \in DOMAIN t.writes : BatchRow(t, x, OnTheWay(w, x[2]))
  BY BatchParts
<1>2. ASSUME NEW u \in Units(t.writes, e, "expired")
      PROVE  u \in Units(db, e, "reserved") /\ u[1] \in DOMAIN t.writes /\ TicketRow(e) \in DOMAIN t.writes
  <2>1. PICK x, i : u = <<x, i>> /\ x \in RowsOf(t.writes, "reservation_items") /\ i \in 1..Total
    BY DEF Units
  <2>2. /\ t.writes[x].event = e /\ i <= t.writes[x].quantity
        /\ x \in DOMAIN t.writes /\ x[1] = "reservation_items"
    BY <2>1 DEF Units, RowsOf
  <2>3. x = <<x[1], x[2]>>
    BY <1>1, <2>2 DEF AllFit, Fits
  <2>4. PICK n : BatchRow(t, x, n)
    BY <1>1, <2>2
  <2>5. /\ x \in DOMAIN db /\ db[x].status = "reserved" /\ KeptKind(t, x)
        /\ TicketRow(db[x].event) \in DOMAIN t.writes
    BY <2>2, <2>3, <2>4, ExpiredRow
  <2>6. db[x].event = e /\ db[x].quantity = t.writes[x].quantity
    BY <2>2, <2>5 DEF KeptKind
  <2> QED
    BY <2>1, <2>2, <2>5, <2>6 DEF Units, RowsOf
<1> QED
  BY <1>2

\* The reservation a batch is at is reserved, and neither it nor its child is written.
LEMMA BatchAt ==
    ASSUME Inv, NEW w \in Workers, pc[w] \in {"l_stock", "l_child"}
    PROVE  LET r == loc[w].res
               row == ReservationRow(r)
           IN  /\ row \in DOMAIN db /\ db[row].status = "reserved" /\ row \in Left(w)
               /\ row \notin DOMAIN tx[w].writes /\ ChildRow(r) \notin DOMAIN tx[w].writes
               /\ ItemRow(r) \notin DOMAIN tx[w].writes
               /\ ChildRow(r) \in DOMAIN db /\ db[ChildRow(r)].status = "reserved"
               /\ db[ChildRow(r)].event = db[row].event /\ TicketRow(db[row].event) \in DOMAIN db
               /\ db[row].type = "quantity" => ChildRow(r) = ItemRow(r)
               /\ db[row].type # "quantity" => ChildRow(r) = HoldRow(r)
<1> DEFINE r == loc[w].res
           row == ReservationRow(r)
           t == tx[w]
<1>1. row \in Left(w)
  BY DEF Left
<1>2. /\ row \in DOMAIN db /\ db[row].status = "reserved" /\ row \notin DOMAIN t.writes
      /\ AllFit(t.writes) /\ \A x \in DOMAIN t.writes : BatchRow(t, x, OnTheWay(w, x[2]))
  BY <1>1, BatchParts
<1>3. ASSUME NEW x \in {ItemRow(r), HoldRow(r)} PROVE x \notin DOMAIN t.writes
  <2> SUFFICES ASSUME x \in DOMAIN t.writes PROVE FALSE
    OBVIOUS
  <2>1. x[2] = r /\ x[1] # "ticket_types"
    BY RowFacts
  <2>2. x = <<x[1], x[2]>>
    BY <1>2 DEF AllFit, Fits
  <2>3. PICK n : BatchRow(t, x, n)
    BY <1>2
  <2>4. Moves(t, ReservationRow(x[2]), "expired")
    BY <2>1, <2>2, <2>3, ExpiredRow
  <2> QED
    BY <1>2, <2>1, <2>4 DEF Moves
<1>4. /\ db[row].type = "quantity" => ChildRow(r) = ItemRow(r)
      /\ db[row].type # "quantity" => ChildRow(r) = HoldRow(r)
  BY DEF ChildRow
<1>5. /\ ChildRow(r) \in DOMAIN db /\ db[ChildRow(r)].status = "reserved"
      /\ db[ChildRow(r)].event = db[row].event /\ TicketRow(db[row].event) \in DOMAIN db
  BY <1>2, HoldAndHeader
<1> QED
  BY <1>1, <1>2, <1>3, <1>4, <1>5

\* A worker takes the units of an item off its ticket type, where units of other
\* items of its batch may be missing already.
LEMMA BatchStockInv ==
    ASSUME Inv, NEW w \in Workers, LifecycleStock(w)
    PROVE  Inv'
<1>1. Busy(w) /\ pc[w] = "l_stock" /\ Blockers(w) = {} /\ pc[w] # "idle"
  BY AtBusy DEF LifecycleStock
<1> DEFINE t == tx[w]
           r == loc[w].res
           row == ReservationRow(r)
           item == ItemRow(r)
           e == db[row].event
           x == TicketRow(e)
           U == Units(t.writes, e, "expired")
<1>2. /\ w \in Procs /\ w \notin Handlers /\ BatchFits(w)
      /\ DOMAIN t = TxNames /\ DOMAIN loc[w] = LocalNames /\ AllFit(t.writes)
      /\ t.dels = {} /\ t.shares = {} /\ t.locks = DOMAIN t.writes \cup Left(w)
      /\ loc[w].target = "expired" /\ row \notin loc[w].todo
      /\ \A y \in Left(w) : /\ y = ReservationRow(y[2]) /\ y \in DOMAIN db
                           /\ y \notin DOMAIN t.writes /\ db[y].status = "reserved"
      /\ \A y \in DOMAIN t.writes : BatchRow(t, y, OnTheWay(w, y[2]))
  BY <1>1, BatchParts
<1>3. db[row].type = "quantity"
  BY <1>1, <1>2 DEF BatchFits
<1>4. /\ row \in DOMAIN db /\ item \notin DOMAIN t.writes /\ item \in DOMAIN db
      /\ db[item].status = "reserved" /\ db[item].event = e /\ x \in DOMAIN db
  BY <1>1, <1>3, BatchAt
<1>5. /\ x[1] = "ticket_types" /\ x[2] = e /\ item[1] = "reservation_items" /\ item[2] = r
      /\ row[1] = "reservations" /\ x = <<x[1], x[2]>> /\ e \in Known
  BY <1>4, RowFacts, CommittedRow
<1>6. /\ db[x].reserved \in Nat /\ db[x].sold \in Nat /\ DOMAIN db[x] = {"event", "sold", "reserved"}
      /\ db[x].event = e
  BY <1>4, <1>5, CommittedRow DEF Fits, Fixtures
<1>7. AllFit(db) /\ db[x].reserved = Cardinality(Units(db, e, "reserved"))
  <2>1. x \in RowsOf(db, "ticket_types")
    BY <1>4, <1>5 DEF RowsOf
  <2> QED
    BY <1>5, <2>1 DEF Inv, Whole, Structure, Counted
<1>8. PICK q : q = db[item].quantity
  OBVIOUS
<1>9. q \in Nat /\ q \in 1..Total
  BY <1>4, <1>5, <1>8, CommittedRow, StressAssumption DEF Fits
<1>10. \A f : OnTheWay(w, f) = 0
  BY <1>1 DEF OnTheWay
<1>11. IsFiniteSet(U) /\ Cardinality(U) \in Nat
  BY <1>2, UnitsAreFinite
<1>12. PICK old : old = View(w)[x]
  OBVIOUS
<1>13. /\ x \in DOMAIN View(w) /\ item \in DOMAIN View(w) /\ View(w)[item] = db[item]
       /\ x \in DOMAIN t.writes => old = t.writes[x]
       /\ x \notin DOMAIN t.writes => old = db[x]
  BY <1>2, <1>4, <1>12, ViewRows
<1>14. /\ DOMAIN old = {"event", "sold", "reserved"} /\ old.event = e /\ old.reserved \in Nat
       /\ old.sold = db[x].sold /\ old.reserved + Cardinality(U) = db[x].reserved
  <2>1. CASE x \in DOMAIN t.writes
    <3>1. Fits(x, old)
      BY <1>2, <1>13, <2>1 DEF AllFit
    <3>2. BatchRow(t, x, 0)
      BY <1>2, <1>10, <2>1
    <3>3. /\ t.writes[x].sold = db[x].sold
          /\ t.writes[x].reserved + Cardinality(U) + 0 = db[x].reserved
      BY <1>5, <3>2, RowFacts DEF BatchRow, ChildRow
    <3>4. /\ DOMAIN old = {"event", "sold", "reserved"} /\ old.event = e /\ old.reserved \in Nat
      BY <1>5, <3>1 DEF Fits, Fixtures
    <3> QED
      BY <1>11, <1>13, <2>1, <3>3, <3>4
  <2>2. CASE x \notin DOMAIN t.writes
    <3>1. U = {}
      BY <1>1, <2>2, ExpiredUnits
    <3>2. Cardinality(U) = 0
      BY <3>1, FS_EmptySet
    <3> QED
      BY <1>6, <1>13, <2>2, <3>2
  <2> QED
    BY <2>1, <2>2
<1>15. q <= old.reserved
  <2> DEFINE B == {item} \X (1..q)
             R == Units(db, e, "reserved")
  <2>1. IsFiniteSet(B) /\ Cardinality(B) = q
    BY <1>9, BlockSize
  <2>2. B \subseteq R
    <3>1. ItemOf(db, item, e, "reserved")
      BY <1>4, <1>5 DEF ItemOf, RowsOf
    <3>2. {item} \X (1..db[item].quantity) \in SUBSET R
      BY <1>7, <3>1, ItemUnits
    <3> QED
      BY <1>8, <3>2
  <2>3. U \subseteq R /\ \A u \in U : u[1] \in DOMAIN t.writes
    BY <1>1, ExpiredUnits
  <2>4. U \cap B = {}
    BY <1>4, <2>3
  <2>5. IsFiniteSet(R) /\ Cardinality(R) \in Nat
    BY <1>7, UnitsAreFinite
  <2> HIDE DEF B, R, U
  <2>6. Cardinality(U \cup B) = Cardinality(U) + Cardinality(B) - Cardinality(U \cap B)
    BY <1>11, <2>1, FS_Union
  <2>7. Cardinality(U \cap B) = 0
    BY <2>4, FS_EmptySet
  <2>8. Cardinality(U \cup B) <= Cardinality(R)
    BY <2>2, <2>3, <2>5, FS_Subset
  <2>9. db[x].reserved = Cardinality(R)
    BY <1>7 DEF R
  <2> HIDE DEF x
  <2> QED
    BY <1>9, <1>11, <1>14, <2>1, <2>6, <2>7, <2>8, <2>9
<1>16. PICK v : v = MovedTicket(old, "expired", q)
  OBVIOUS
<1>17. /\ DOMAIN v = {"event", "sold", "reserved"} /\ v.event = e /\ v.sold = db[x].sold
       /\ v.reserved = old.reserved - q
  BY <1>6, <1>9, <1>14, <1>16, TicketMoves DEF Statuses
<1>18. Fits(x, v)
  <2>1. v.reserved \in Nat /\ v.sold \in Nat
    BY <1>6, <1>9, <1>14, <1>15, <1>17
  <2> QED
    BY <1>5, <1>17, <2>1 DEF Fits, Tables, Fixtures
<1>19. PICK u : u = Put(t, OneRow(x, v))
  OBVIOUS
<1>20. Continue(w, "l_child", u, loc[w])
  <2>1. old.reserved >= q
    BY <1>9, <1>14, <1>15
  <2> QED
    BY <1>2, <1>4, <1>8, <1>12, <1>13, <1>16, <1>19, <2>1 DEF LifecycleStock
<1>21. /\ DOMAIN u = TxNames /\ u.dels = {} /\ u.shares = {} /\ u.locks = t.locks \cup {x}
       /\ DOMAIN u.writes = {x} \cup DOMAIN t.writes /\ u.writes[x] = v
       /\ \A y \in DOMAIN t.writes \ {x} : u.writes[y] = t.writes[y]
  <2> HIDE DEF x
  <2> QED
    BY <1>2, <1>19, PutOne
<1>22. AllFit(u.writes)
  BY <1>2, <1>18, <1>21 DEF AllFit
<1>23. \A f : Units(u.writes, f, "expired") = Units(t.writes, f, "expired")
  <2> SUFFICES ASSUME NEW f, NEW y PROVE SameItem(t.writes, u.writes, y, f, "expired")
    BY UnitsKept
  <2> QED
    BY <1>5, <1>21 DEF SameItem, ItemOf, RowsOf
<1>24. /\ db' = db /\ tx'[w] = u /\ pc'[w] = "l_child" /\ loc'[w] = loc[w]
  BY <1>1, <1>2, <1>20, Continued DEF Busy
<1>25. \A f : OnTheWay(w, f)' = IF f = e THEN q ELSE 0
  BY <1>3, <1>8, <1>24 DEF OnTheWay
<1>26. \A y \in DOMAIN u.writes : BatchRow(u, y, IF y[2] = e /\ y[1] = "ticket_types" THEN q ELSE 0)
  <2> SUFFICES ASSUME NEW y \in DOMAIN u.writes
               PROVE  BatchRow(u, y, IF y[2] = e /\ y[1] = "ticket_types" THEN q ELSE 0)
    OBVIOUS
  <2>1. CASE y = x
    <3>1. v.reserved + Cardinality(Units(u.writes, e, "expired")) + q = db[x].reserved
      BY <1>6, <1>9, <1>11, <1>14, <1>17, <1>23
    <3> QED
      BY <1>4, <1>5, <1>17, <1>21, <2>1, <3>1 DEF BatchRow
  <2>2. CASE y # x
    <3>1. y \in DOMAIN t.writes /\ u.writes[y] = t.writes[y] /\ BatchRow(t, y, 0)
      BY <1>2, <1>10, <1>21, <2>2
    <3>2. y = <<y[1], y[2]>>
      BY <1>2, <3>1 DEF AllFit, Fits
    <3>3. ~(y[2] = e /\ y[1] = "ticket_types")
      BY <1>5, <2>2, <3>2
    <3>4. BatchRow(u, y, 0)
      <4>1. CASE y = TicketRow(y[2])
        BY <1>23, <3>1, <4>1, RowFacts DEF BatchRow, ChildRow
      <4>2. CASE y # TicketRow(y[2])
        <5>1. /\ y = ReservationRow(y[2]) \/ y = ChildRow(y[2])
              /\ Moves(t, ReservationRow(y[2]), "expired") /\ Moves(t, ChildRow(y[2]), "expired")
              /\ y = ItemRow(y[2]) => TicketRow(db[y].event) \in DOMAIN t.writes
          BY <3>1, <4>2 DEF BatchRow
        <5>2. x # ReservationRow(y[2]) /\ x # ChildRow(y[2])
          BY <1>5, RowFacts DEF ChildRow
        <5>3. Moves(u, ReservationRow(y[2]), "expired") /\ Moves(u, ChildRow(y[2]), "expired")
          BY <1>21, <5>1, <5>2 DEF Moves
        <5> QED
          BY <1>21, <5>1, <5>3 DEF BatchRow
      <4> QED
        BY <4>1, <4>2
    <3> QED
      BY <3>3, <3>4
  <2> QED
    BY <2>1, <2>2
<1>27. \A y \in DOMAIN u.writes : BatchRow(u, y, OnTheWay(w, y[2]))'
  <2> SUFFICES ASSUME NEW y \in DOMAIN u.writes PROVE BatchRow(u, y, OnTheWay(w, y[2]))'
    OBVIOUS
  <2>1. ChildRow(y[2])' = ChildRow(y[2])
    BY <1>24 DEF ChildRow
  <2>2. \A z : Moves(u, z, "expired")' <=> Moves(u, z, "expired")
    BY <1>24 DEF Moves
  <2>3. PICK n : n = IF y[2] = e /\ y[1] = "ticket_types" THEN q ELSE 0
    OBVIOUS
  <2>4. BatchRow(u, y, n)
    BY <1>26, <2>3
  <2>5. y = TicketRow(y[2]) => n = OnTheWay(w, y[2])'
    BY <1>25, <2>3, RowFacts
  <2> QED
    BY <1>24, <2>1, <2>2, <2>4, <2>5 DEF BatchRow
<1>28. BatchFits(w)'
  <2>1. Left(w)' = Left(w)
    BY <1>1, <1>24 DEF Left
  <2>2. \A y \in Left(w) : y \notin DOMAIN u.writes
    BY <1>2, <1>5, <1>21, RowFacts
  <2> HIDE DEF x, t
  <2> QED
    BY <1>2, <1>21, <1>24, <1>27, <2>1, <2>2 DEF BatchFits, x, t
<1>29. LifecycleFits(w)'
  BY <1>2, <1>28 DEF LifecycleFits, TransitionFits, Transits, Runs
<1>30. Free(w, x)
  BY <1>1, <1>2, <1>5, BlockersAt, FreeRow
<1> HIDE DEF x, row, item, e, r, U
<1> QED
  BY <1>1, <1>2, <1>5, <1>20, <1>21, <1>22, <1>29, <1>30, GoesOn DEF Busy, Blank

\* A worker expires the child and the header, and goes on with its batch or commits.
LEMMA BatchChildInv ==
    ASSUME Inv, NEW w \in Workers, LifecycleChild(w)
    PROVE  Inv'
<1>1. Busy(w) /\ pc[w] = "l_child" /\ Blockers(w) = {} /\ pc[w] # "idle"
  BY AtBusy DEF LifecycleChild
<1> DEFINE t == tx[w]
           r == loc[w].res
           row == ReservationRow(r)
           child == ChildRow(r)
           e == db[row].event
           todo == loc[w].todo
           due == {x \in {child, row} \cap DOMAIN db : db[x].status = "reserved"}
<1>2. /\ w \in Procs /\ w \notin Handlers /\ BatchFits(w)
      /\ DOMAIN t = TxNames /\ DOMAIN loc[w] = LocalNames /\ AllFit(t.writes)
      /\ t.dels = {} /\ t.shares = {} /\ t.locks = DOMAIN t.writes \cup todo \cup {row}
      /\ loc[w].target = "expired" /\ row \notin todo
      /\ \A y \in todo : /\ y = ReservationRow(y[2]) /\ y \in DOMAIN db
                         /\ y \notin DOMAIN t.writes /\ db[y].status = "reserved"
      /\ \A y \in DOMAIN t.writes : BatchRow(t, y, OnTheWay(w, y[2]))
  <2>1. Left(w) = todo \cup {row}
    BY <1>1 DEF Left
  <2> QED
    BY <1>1, <2>1, BatchParts
<1>3. /\ row \in DOMAIN db /\ db[row].status = "reserved"
      /\ row \notin DOMAIN t.writes /\ child \notin DOMAIN t.writes
      /\ child \in DOMAIN db /\ db[child].status = "reserved" /\ db[child].event = e
      /\ db[row].type = "quantity" => child = ItemRow(r)
      /\ db[row].type # "quantity" => child = HoldRow(r)
  BY <1>1, BatchAt
<1>4. /\ row[1] = "reservations" /\ row[2] = r /\ child[2] = r
      /\ child[1] \in {"reservation_items", "reservation_seats"}
      /\ child[1] = "reservation_items" <=> db[row].type = "quantity"
      /\ row = <<row[1], row[2]>> /\ child = <<child[1], child[2]>> /\ r \in Known
  BY <1>3, RowFacts, CommittedRow
<1>5. db[row].type = "quantity" => TicketRow(e) \in DOMAIN t.writes
  BY <1>1, <1>2 DEF BatchFits
<1>6. due = {child, row}
  BY <1>3
<1>7. PICK rows : rows = [x \in due |-> [db[x] EXCEPT !.status = "expired"]]
  OBVIOUS
<1>8. DOMAIN rows = {child, row} /\ \A x \in {child, row} : rows[x] = [db[x] EXCEPT !.status = "expired"]
  <2> HIDE DEF due, child, row
  <2> QED
    BY <1>6, <1>7
<1>9. PICK u : u = Put(t, rows)
  OBVIOUS
<1>10. \/ /\ todo = {}
          /\ Continue(w, "commit", u, [loc[w] EXCEPT !.answer = [Ok EXCEPT !.code = "REFUSED"]])
       \/ todo # {} /\ NextOfBatch(w, u, todo)
  BY <1>2, <1>7, <1>9 DEF LifecycleChild
<1> HIDE DEF due
<1>11. /\ DOMAIN u = TxNames /\ u.dels = {} /\ u.shares = {}
       /\ u.locks = t.locks \cup {child, row}
       /\ DOMAIN u.writes = {child, row} \cup DOMAIN t.writes
       /\ \A x \in {child, row} : u.writes[x] = [db[x] EXCEPT !.status = "expired"]
       /\ \A x \in DOMAIN t.writes : u.writes[x] = t.writes[x]
  <2> HIDE DEF row, child
  <2>1. /\ DOMAIN u = TxNames /\ u.dels = t.dels /\ u.shares = t.shares
        /\ u.locks = t.locks \cup DOMAIN rows
        /\ DOMAIN u.writes = DOMAIN rows \cup DOMAIN t.writes
        /\ \A x \in DOMAIN rows : u.writes[x] = rows[x]
        /\ \A x \in DOMAIN t.writes \ DOMAIN rows : u.writes[x] = t.writes[x]
    BY <1>2, <1>9, PutTx
  <2> QED
    BY <1>2, <1>3, <1>8, <2>1
<1>12. \A x \in {child, row} : Moves(u, x, "expired")
  BY <1>3, <1>11 DEF Moves
<1>13. \A x \in {child, row} : Fits(x, u.writes[x])
  <2> SUFFICES ASSUME NEW x \in {child, row} PROVE Fits(x, u.writes[x])
    OBVIOUS
  <2>1. Fits(x, db[x]) /\ x[1] \notin Fixtures /\ "expired" \in Statuses
    BY <1>3, <1>4, CommittedRow DEF Fixtures, Statuses
  <2>2. Fits(x, [db[x] EXCEPT !.status = "expired"])
    BY <2>1, StatusMoved
  <2> QED
    BY <1>11, <2>2
<1>14. AllFit(u.writes)
  <2> HIDE DEF row, child
  <2> QED
    BY <1>2, <1>11, <1>13 DEF AllFit
<1>15. \A f : /\ Cardinality(Units(t.writes, f, "expired")) \in Nat
              /\ Cardinality(Units(u.writes, f, "expired")) \in Nat
  BY <1>2, <1>14, UnitsAreFinite
<1>16. ASSUME NEW f
       PROVE  /\ OnTheWay(w, f) \in Nat
              /\ Cardinality(Units(u.writes, f, "expired"))
                    = Cardinality(Units(t.writes, f, "expired")) + OnTheWay(w, f)
  <2>1. \A y : y # child => SameItem(t.writes, u.writes, y, f, "expired")
    <3> SUFFICES ASSUME NEW y, y # child PROVE SameItem(t.writes, u.writes, y, f, "expired")
      OBVIOUS
    <3> HIDE DEF child, row
    <3> QED
      BY <1>4, <1>11 DEF SameItem, ItemOf, RowsOf
  <2>2. CASE db[row].type = "quantity" /\ e = f
    <3>1. OnTheWay(w, f) = db[child].quantity
      BY <1>1, <1>3, <2>2 DEF OnTheWay
    <3>2. /\ u.writes[child].quantity = db[child].quantity /\ u.writes[child].event = f
          /\ u.writes[child].status = "expired"
      <4>1. KeptKind(u, child) /\ u.writes[child].status = "expired"
        <5>1. child[1] \notin Fixtures /\ "expired" \in Statuses
          BY <1>4 DEF Fixtures, Statuses
        <5> HIDE DEF child
        <5> QED
          BY <1>12, <5>1, MovedRow
      <4> QED
        BY <1>3, <1>4, <2>2, <4>1 DEF KeptKind
    <3>3. ItemOf(u.writes, child, f, "expired") /\ ~ItemOf(t.writes, child, f, "expired")
      BY <1>3, <1>4, <1>11, <2>2, <3>2 DEF ItemOf, RowsOf
    <3> HIDE DEF child, t
    <3>4. /\ u.writes[child].quantity \in Nat
          /\ Cardinality(Units(u.writes, f, "expired"))
                = Cardinality(Units(t.writes, f, "expired")) + u.writes[child].quantity
      BY <1>2, <1>14, <2>1, <3>3, UnitsAdded DEF t
    <3> QED
      BY <3>1, <3>2, <3>4
  <2>3. CASE ~(db[row].type = "quantity" /\ e = f)
    <3>1. OnTheWay(w, f) = 0
      BY <2>3 DEF OnTheWay
    <3>2. SameItem(t.writes, u.writes, child, f, "expired")
      <4>1. ~ItemOf(t.writes, child, f, "expired")
        BY <1>3 DEF ItemOf, RowsOf
      <4>2. ~ItemOf(u.writes, child, f, "expired")
        <5>1. CASE db[row].type # "quantity"
          BY <1>4, <5>1 DEF ItemOf, RowsOf
        <5>2. CASE e # f
          <6>1. KeptKind(u, child)
            <7>1. child[1] \notin Fixtures /\ "expired" \in Statuses
              BY <1>4 DEF Fixtures, Statuses
            <7> HIDE DEF child
            <7> QED
              BY <1>12, <7>1, MovedRow
          <6>2. u.writes[child].event = e
            BY <1>3, <6>1 DEF KeptKind
          <6> QED
            BY <5>2, <6>2 DEF ItemOf
        <5> QED
          BY <2>3, <5>1, <5>2
      <4> QED
        BY <4>1, <4>2 DEF SameItem
    <3>3. Units(u.writes, f, "expired") = Units(t.writes, f, "expired")
      BY <2>1, <3>2, UnitsKept
    <3> QED
      BY <1>15, <3>1, <3>3
  <2> QED
    BY <2>2, <2>3
<1>17. \A y \in DOMAIN u.writes : BatchRow(u, y, 0)
  <2> SUFFICES ASSUME NEW y \in DOMAIN u.writes PROVE BatchRow(u, y, 0)
    OBVIOUS
  <2>1. CASE y \in {child, row}
    <3>1. y[2] = r /\ (y = ReservationRow(r) \/ y = ChildRow(r))
      BY <1>4, <2>1
    <3>2. y = ItemRow(r) => TicketRow(db[y].event) \in DOMAIN u.writes
      BY <1>3, <1>4, <1>5, <1>11, <2>1, RowFacts
    <3> QED
      BY <1>12, <3>1, <3>2 DEF BatchRow
  <2>2. CASE y \notin {child, row}
    <3>1. y \in DOMAIN t.writes
      BY <1>11, <2>2
    <3>2. PICK m : m = OnTheWay(w, y[2])
      OBVIOUS
    <3>3. /\ BatchRow(t, y, m) /\ m \in Nat
          /\ Cardinality(Units(u.writes, y[2], "expired")) \in Nat
          /\ Cardinality(Units(t.writes, y[2], "expired")) \in Nat
          /\ Cardinality(Units(u.writes, y[2], "expired")) + 0
                = Cardinality(Units(t.writes, y[2], "expired")) + m
      BY <1>2, <1>15, <1>16, <3>1, <3>2
    <3>4. t.writes[y].reserved \in Int \/ y[1] # "ticket_types"
      BY <1>2, <3>1 DEF AllFit, Fits
    <3>5. DOMAIN t.writes \subseteq DOMAIN u.writes
      BY <1>11
    <3> HIDE DEF t
    <3> QED
      BY <1>11, <3>1, <3>3, <3>4, <3>5, BatchRowKept
  <2> QED
    BY <2>1, <2>2
<1>18. Free(w, child)
  BY <1>1, <1>2, <1>3, <1>4, BlockersAt, FreeRow
<1>19. \A x \in u.locks \ t.locks : x = <<x[1], x[2]>> /\ x[2] \in Known /\ Free(w, x)
  BY <1>2, <1>4, <1>11, <1>18
<1>20. u.locks = DOMAIN u.writes \cup todo
  BY <1>2, <1>11
<1>21. CASE todo # {} /\ NextOfBatch(w, u, todo)
  <2>1. \A y \in todo : y \notin DOMAIN u.writes
    <3>1. \A y \in todo : y # row /\ y # child
      BY <1>2, <1>4, RowFacts
    <3> QED
      BY <1>2, <1>11, <3>1
  <2> HIDE DEF todo, row, child, t
  <2> QED
    BY <1>2, <1>11, <1>14, <1>17, <1>19, <1>20, <1>21, <2>1, BatchGoesOn DEF t
<1>22. CASE /\ todo = {}
            /\ Continue(w, "commit", u, [loc[w] EXCEPT !.answer = [Ok EXCEPT !.code = "REFUSED"]])
  <2>1. PICK l, a : a = [Ok EXCEPT !.code = "REFUSED"] /\ l = [loc[w] EXCEPT !.answer = a]
    OBVIOUS
  <2>2. Continue(w, "commit", u, l)
    BY <1>22, <2>1
  <2>3. DOMAIN l = LocalNames /\ l.res = r /\ l.todo = {} /\ l.target = "expired"
    BY <1>2, <1>22, <2>1, LocalsSet
  <2>4. db' = db /\ tx'[w] = u /\ pc'[w] = "commit" /\ loc'[w] = l
    BY <1>1, <1>2, <2>2, Continued DEF Busy
  <2>5. Left(w)' = {} /\ \A f : OnTheWay(w, f)' = 0
    BY <2>3, <2>4 DEF Left, OnTheWay
  <2>6. \A y \in DOMAIN u.writes : BatchRow(u, y, OnTheWay(w, y[2]))'
    <3> SUFFICES ASSUME NEW y \in DOMAIN u.writes PROVE BatchRow(u, y, 0)'
      BY <2>5
    <3>1. ChildRow(y[2])' = ChildRow(y[2])
      BY <2>4 DEF ChildRow
    <3>2. \A z : Moves(u, z, "expired")' <=> Moves(u, z, "expired")
      BY <2>4 DEF Moves
    <3>3. BatchRow(u, y, 0)
      BY <1>17
    <3> QED
      BY <2>4, <3>1, <3>2, <3>3 DEF BatchRow
  <2>7. u.locks = DOMAIN u.writes
    BY <1>20, <1>22
  <2>8. BatchFits(w)'
    BY <1>11, <2>3, <2>4, <2>5, <2>6, <2>7 DEF BatchFits
  <2>9. LifecycleFits(w)'
    BY <1>2, <2>8 DEF LifecycleFits, TransitionFits, Transits, Runs
  <2> HIDE DEF row, child, t, todo
  <2> QED
    BY <1>1, <1>2, <1>11, <1>14, <1>19, <2>2, <2>3, <2>7, <2>9, GoesOn DEF Busy, Blank, t
<1> QED
  BY <1>10, <1>21, <1>22

--------------------------------------------------------------------------------
(* Reading and seeding *)

\* Reading the header.
LEMMA GetHeaderInv ==
    ASSUME Inv, NEW h \in Handlers, GetHeader(h)
    PROVE  Inv'
<1>0. h \in Procs
  BY DEF Procs
<1>1. Busy(h) /\ pc[h] = "g_header" /\ req[h].op = "get"
  BY AtBusy, WhoRuns DEF GetHeader
<1> DEFINE x == ReservationRow(loc[h].res)
<1>2. CASE x \notin DOMAIN db
  BY <1>0, <1>1, <1>2, FailInv DEF GetHeader
<1>3. CASE x \in DOMAIN db
  <2>1. Continue(h, "g_children", tx[h], loc[h])
    BY <1>3 DEF GetHeader
  <2>2. DOMAIN loc[h] = LocalNames /\ tx[h] = NoTx /\ h \notin Workers /\ ReadFits(h)
    BY <1>0, <1>1, PartsOf DEF TxFits, Blank, HandlerFits
  <2>3. /\ pc'[h] = "g_children" /\ loc'[h] = loc[h] /\ req' = req /\ resp' = resp
        /\ Known' = Known
    BY <1>0, <1>1, <2>1, Continued DEF Busy
  <2>4. loc[h].res \in Known
    BY <1>3, CommittedRow, RowFacts
  <2>5. ReadFits(h)'
    BY <1>1, <2>2, <2>3, <2>4 DEF ReadFits, Runs
  <2>6. AnswerFits(h)'
    BY <1>1, <2>3, AnswersWait DEF Busy
  <2>7. "g_children" \in LabelsOf(req[h].op)
    BY <1>1 DEF LabelsOf
  <2>8. LifecycleFits(h)' /\ HandlerFits(h)'
    BY <1>1, <2>3, <2>5, <2>6, <2>7, WhoRuns, OneRequest
  <2>9. AllFit(tx[h].writes) /\ DOMAIN tx[h].writes = {} /\ tx[h].dels = {} /\ DOMAIN tx[h] = TxNames
    BY <2>2, BlankTx DEF AllFit
  <2> QED
    BY <1>0, <1>1, <2>1, <2>2, <2>7, <2>8, <2>9, GoesOn DEF Busy
<1> QED
  BY <1>2, <1>3

\* Reading the children; without any, the reservation is gone by now.
LEMMA GetChildrenInv ==
    ASSUME Inv, NEW h \in Handlers, GetChildren(h)
    PROVE  Inv'
<1>0. h \in Procs
  BY DEF Procs
<1>1. Busy(h) /\ pc[h] = "g_children" /\ req[h].op = "get"
  BY AtBusy, WhoRuns DEF GetChildren
<1> DEFINE r == loc[h].res
           found == {ItemRow(r), HoldRow(r)} \cap DOMAIN db
<1>2. PICK a : a = [Ok EXCEPT !.children = found]
  OBVIOUS
<1>3. a.code = "OK" /\ a.failed = {} /\ a.children = found
  BY <1>2 DEF Ok, NoAnswer
<1>4. Finish(h, a) /\ db' = db
  BY <1>2 DEF GetChildren
<1>5. r = req[h].id /\ r \in Known
  BY <1>0, <1>1, PartsOf DEF HandlerFits, ReadFits, Runs
<1>6. found = {} => ReservationRow(r) \notin DOMAIN db
  BY HoldAndHeader DEF ChildRow
<1> QED
  BY <1>0, <1>1, <1>3, <1>4, <1>5, <1>6, FinishedQuietly DEF OnlyLate

\* A Seed adds a row of its own to its transaction.
LEMMA SeedRowInv ==
    ASSUME Inv, NEW h \in Handlers, Busy(h), req[h].op = "seed", NEW label, NEW x, NEW v, NEW l,
           Continue(h, label, Put(tx[h], OneRow(x, v)), l), DOMAIN l = LocalNames,
           x \in {EventRow(h), TicketRow(h), SeatRow(h)}, Fits(x, v),
           x = TicketRow(h) => v.sold = 0 /\ v.reserved = 0,
           \/ pc[h] = "e_event" /\ label = "e_ticket" /\ x = EventRow(h)
           \/ pc[h] = "e_ticket" /\ label = "e_seats" /\ x = TicketRow(h)
           \/ pc[h] = "e_seats" /\ label = "commit" /\ x = SeatRow(h),
           label = "commit" => l.answer.code = "OK" /\ l.answer.failed = {}
    PROVE  Inv'
<1>0. h \in Procs
  BY DEF Procs
<1>1. /\ DOMAIN tx[h] = TxNames /\ TxFits(h) /\ SeedFits(h) /\ h \notin Workers
  BY <1>0, PartsOf DEF HandlerFits
<1>2. /\ tx[h].dels = {} /\ tx[h].shares = {} /\ tx[h].locks = DOMAIN tx[h].writes
      /\ pc[h] = "e_event" => DOMAIN tx[h].writes = {}
      /\ pc[h] = "e_ticket" => DOMAIN tx[h].writes = {EventRow(h)}
      /\ pc[h] = "e_seats" => DOMAIN tx[h].writes = {EventRow(h), TicketRow(h)}
      /\ TicketRow(h) \in DOMAIN tx[h].writes =>
            tx[h].writes[TicketRow(h)].sold = 0 /\ tx[h].writes[TicketRow(h)].reserved = 0
  BY <1>1, BlankTx DEF SeedFits, Runs, TxFits, Blank
<1>3. PICK t : t = Put(tx[h], OneRow(x, v))
  OBVIOUS
<1>4. /\ DOMAIN t = TxNames /\ t.dels = {} /\ t.shares = {}
      /\ t.locks = tx[h].locks \cup {x} /\ DOMAIN t.writes = {x} \cup DOMAIN tx[h].writes
      /\ t.writes[x] = v
      /\ \A y \in DOMAIN tx[h].writes \ {x} : t.writes[y] = tx[h].writes[y]
  BY <1>1, <1>2, <1>3, PutOne
<1>5. Continue(h, label, t, l) /\ label \notin {"idle", "done"} /\ label \notin Blank
  BY <1>3 DEF Blank
<1>6. /\ db' = db /\ tx'[h] = t /\ pc'[h] = label /\ loc'[h] = l /\ req' = req /\ resp' = resp
  BY <1>0, <1>5, Continued DEF Busy
<1>7. SeedFits(h)'
  <2>1. TicketRow(h) \in DOMAIN t.writes =>
           t.writes[TicketRow(h)].sold = 0 /\ t.writes[TicketRow(h)].reserved = 0
    BY <1>2, <1>4
  <2>2. /\ label = "e_ticket" => DOMAIN t.writes = {EventRow(h)}
        /\ label = "e_seats" => DOMAIN t.writes = {EventRow(h), TicketRow(h)}
        /\ label = "commit" => DOMAIN t.writes = {EventRow(h), TicketRow(h), SeatRow(h)}
    BY <1>2, <1>4
  <2> QED
    BY <1>2, <1>4, <1>6, <2>1, <2>2 DEF SeedFits
<1>8. AnswerFits(h)'
  BY <1>5, <1>6, AnswersWait DEF Busy
<1>9. label \in LabelsOf(req[h].op)
  BY DEF LabelsOf
<1>10. LifecycleFits(h)' /\ HandlerFits(h)'
  BY <1>5, <1>6, <1>7, <1>8, <1>9, WhoRuns, OneRequest
<1>11. x = <<x[1], x[2]>> /\ x[2] = h
  BY RowPairs, RowFacts
<1>12. Free(h, x)
  BY <1>11, OwnRow DEF Busy
<1>13. AllFit(t.writes)
  BY <1>1, <1>4 DEF AllFit, TxFits
<1> QED
  BY <1>0, <1>1, <1>2, <1>4, <1>5, <1>9, <1>10, <1>11, <1>12, <1>13, GoesOn DEF Busy

\* Seed: the event, the ticket type and the seats.
LEMMA SeedInv ==
    ASSUME Inv, NEW h \in Handlers, SeedEvent(h) \/ SeedTicket(h) \/ SeedSeats(h)
    PROVE  Inv'
<1>0. DOMAIN loc[h] = LocalNames
  BY PartsOf DEF Procs
<1>1. CASE SeedEvent(h)
  <2>1. Busy(h) /\ pc[h] = "e_event" /\ req[h].op = "seed"
    BY <1>1, AtBusy, WhoRuns DEF SeedEvent
  <2>2. PICK v : v = [event |-> h]
    OBVIOUS
  <2>3. Continue(h, "e_ticket", Put(tx[h], OneRow(EventRow(h), v)), loc[h])
    BY <1>1, <2>2 DEF SeedEvent
  <2>4. Fits(EventRow(h), v)
    BY <2>2, RowFacts, RowPairs DEF Fits, Tables, Fixtures
  <2>5. EventRow(h) # TicketRow(h)
    BY RowFacts
  <2> QED
    BY <1>0, <2>1, <2>3, <2>4, <2>5, SeedRowInv
<1>2. CASE SeedTicket(h)
  <2>1. Busy(h) /\ pc[h] = "e_ticket" /\ req[h].op = "seed"
    BY <1>2, AtBusy, WhoRuns DEF SeedTicket
  <2>2. PICK v : v = [event |-> h, sold |-> 0, reserved |-> 0]
    OBVIOUS
  <2>3. Continue(h, "e_seats", Put(tx[h], OneRow(TicketRow(h), v)), loc[h])
    BY <1>2, <2>2 DEF SeedTicket
  <2>4. Fits(TicketRow(h), v) /\ v.sold = 0 /\ v.reserved = 0
    BY <2>2, RowFacts, RowPairs DEF Fits, Tables, Fixtures
  <2> QED
    BY <1>0, <2>1, <2>3, <2>4, SeedRowInv
<1>3. CASE SeedSeats(h)
  <2>1. Busy(h) /\ pc[h] = "e_seats" /\ req[h].op = "seed"
    BY <1>3, AtBusy, WhoRuns DEF SeedSeats
  <2>2. PICK v, a : v = [event |-> h] /\ a = [Ok EXCEPT !.events = {h}]
    OBVIOUS
  <2>3. PICK l : l = [loc[h] EXCEPT !.answer = a]
    OBVIOUS
  <2>4. Continue(h, "commit", Put(tx[h], OneRow(SeatRow(h), v)), l)
    BY <1>3, <2>2, <2>3 DEF SeedSeats
  <2>5. Fits(SeatRow(h), v)
    BY <2>2, RowFacts, RowPairs DEF Fits, Tables, Fixtures
  <2>6. SeatRow(h) # TicketRow(h)
    BY RowFacts
  <2>7. DOMAIN l = LocalNames /\ l.answer = a
    BY <1>0, <2>3, LocalsSet
  <2>8. a.code = "OK" /\ a.failed = {}
    BY <2>2 DEF Ok, NoAnswer
  <2> QED
    BY <2>1, <2>4, <2>5, <2>6, <2>7, <2>8, SeedRowInv
<1> QED
  BY <1>1, <1>2, <1>3

\* A step of a Reset that goes on.
LEMMA ResetGoesOn ==
    ASSUME Inv, NEW h \in Handlers, Busy(h), req[h].op = "reset", NEW label, NEW t, NEW l,
           Continue(h, label, t, l), label \in ResetLabels \cup {"commit"},
           DOMAIN t = TxNames, DOMAIN l = LocalNames,
           DOMAIN t.writes = {}, t.dels = t.locks, t.shares = {},
           \A x \in t.locks \ tx[h].locks :
              x = <<x[1], x[2]>> /\ x[2] \in Known /\ Free(h, x),
           label = "commit" => l.answer.code = "OK" /\ l.answer.failed = {},
           ResetFits(h)'
    PROVE  Inv'
<1>0. h \in Procs /\ h \notin Workers
  BY StressAssumption DEF Procs
<1>1. label \notin {"idle", "done"} /\ label \notin Blank
  BY DEF ResetLabels, DeleteStages, Blank
<1>2. /\ pc'[h] = label /\ loc'[h] = l /\ req' = req /\ resp' = resp
  BY <1>0, <1>1, Continued DEF Busy
<1>3. AnswerFits(h)'
  BY <1>1, <1>2, AnswersWait DEF Busy
<1>4. label \in LabelsOf(req[h].op)
  BY DEF LabelsOf
<1>5. LifecycleFits(h)' /\ HandlerFits(h)'
  BY <1>1, <1>2, <1>3, <1>4, WhoRuns, OneRequest
<1>6. AllFit(t.writes)
  BY DEF AllFit
<1> QED
  BY <1>0, <1>1, <1>4, <1>5, <1>6, GoesOn DEF Busy

\* What a Reset has, taken apart.
LEMMA ResetParts ==
    ASSUME Inv, NEW h \in Handlers, Busy(h), req[h].op = "reset"
    PROVE  LET t == tx[h]
               ids == loc[h].ids
               todo == loc[h].todo
               both == t.dels \cup todo
           IN  /\ DOMAIN t = TxNames /\ DOMAIN loc[h] = LocalNames
               /\ ids \subseteq Known /\ ids \cap (ManualEvents \ Lookalikes) = {}
               /\ pc[h] = "r_list" => ids = {}
               /\ DOMAIN t.writes = {} /\ t.shares = {} /\ t.locks = t.dels
               /\ \A x \in t.dels : x \in DOMAIN db /\ db[x].event \in ids
               /\ \A x \in todo : /\ x = <<x[1], x[2]>> /\ x[2] \in Known
                                  /\ x \in DOMAIN db => db[x].event \in ids
               /\ pc[h] \notin DeleteStages => todo = {}
               /\ todo # {} => loc[h].row \in todo
               /\ pc[h] \in {"del_events", "cascade_inventory", "restrict", "commit"}
                     \/ (pc[h] = "cascade_children" /\ todo # {}) => ChildrenGone(both)
               /\ pc[h] \in {"cascade_inventory", "restrict", "commit"}
                     \/ (pc[h] = "del_events" /\ todo # {}) => EventsGone(h, both)
               /\ pc[h] \in {"restrict", "commit"}
                     \/ (pc[h] = "cascade_inventory" /\ todo # {}) => InventoryGone(both)
<1>1. ResetFits(h) /\ DOMAIN tx[h] = TxNames /\ DOMAIN loc[h] = LocalNames
  BY PartsOf DEF HandlerFits, Procs
<1> QED
  BY <1>1 DEF ResetFits, Runs

\* Listing the events.
LEMMA ResetListInv ==
    ASSUME Inv, NEW h \in Handlers, ResetList(h)
    PROVE  Inv'
<1>0. h \in Procs
  BY DEF Procs
<1>1. Busy(h) /\ pc[h] = "r_list" /\ req[h].op = "reset"
  BY AtBusy, WhoRuns DEF ResetList
<1>2. /\ tx[h] = NoTx /\ DOMAIN loc[h] = LocalNames /\ loc[h].ids = {} /\ loc[h].todo = {}
  BY <1>0, <1>1, PartsOf, ResetParts DEF TxFits, Blank, DeleteStages
<1>3. /\ DOMAIN tx[h] = TxNames /\ DOMAIN tx[h].writes = {} /\ tx[h].dels = {}
      /\ tx[h].locks = {} /\ tx[h].shares = {}
  BY <1>2, BlankTx
<1>4. CASE ListStressEventIDs = {}
  <2>1. PICK l : l = [loc[h] EXCEPT !.answer = Ok]
    OBVIOUS
  <2>2. DOMAIN l = LocalNames /\ l.ids = {} /\ l.todo = {} /\ l.answer = Ok
    BY <1>2, <2>1, LocalsSet
  <2>3. Continue(h, "commit", tx[h], l)
    BY <1>4, <2>1 DEF ResetList
  <2>4. /\ db' = db /\ tx'[h] = tx[h] /\ pc'[h] = "commit" /\ loc'[h] = l
    BY <1>0, <1>1, <2>3, Continued DEF Busy
  <2>5. ResetFits(h)'
    BY <1>3, <2>2, <2>4, Answers DEF ResetFits, DeleteStages, ChildrenGone, EventsGone,
       InventoryGone, ReservationsGone
  <2> QED
    BY <1>1, <1>3, <2>2, <2>3, <2>5, ResetGoesOn, Answers
<1>5. CASE ListStressEventIDs # {}
  <2>1. PICK l, ids : ids = ListStressEventIDs /\ l = [loc[h] EXCEPT !.ids = ids]
    OBVIOUS
  <2>2. DOMAIN l = LocalNames /\ l.ids = ids /\ l.todo = {}
    BY <1>2, <2>1, LocalsSet
  <2>3. Continue(h, "del_holds", tx[h], l)
    BY <1>5, <2>1 DEF ResetList
  <2>4. /\ db' = db /\ tx'[h] = tx[h] /\ pc'[h] = "del_holds" /\ loc'[h] = l /\ Known' = Known
    BY <1>0, <1>1, <2>3, Continued DEF Busy
  <2>5. ids \subseteq Known /\ ids \cap (ManualEvents \ Lookalikes) = {}
    <3>1. \A x \in DOMAIN db : x[2] \in Known
      BY DEF Inv
    <3> QED
      BY <2>1, <3>1 DEF ListStressEventIDs, RowsOf
  <2>6. ResetFits(h)'
    BY <1>3, <2>2, <2>4, <2>5 DEF ResetFits
  <2>7. "del_holds" \in ResetLabels
    BY DEF ResetLabels, DeleteStages
  <2> QED
    BY <1>1, <1>3, <2>2, <2>3, <2>6, <2>7, ResetGoesOn
<1> QED
  BY <1>4, <1>5

\* A Reset sees the committed rows it has not deleted.
LEMMA ResetView ==
    ASSUME Inv, NEW h \in Handlers, Busy(h), req[h].op = "reset"
    PROVE  /\ DOMAIN View(h) = DOMAIN db \ tx[h].dels
           /\ \A x \in DOMAIN View(h) : View(h)[x] = db[x]
           /\ \A E, r : r \in ReservationsOf(View(h), E) =>
                 /\ ReservationRow(r) \in DOMAIN db /\ db[ReservationRow(r)].event \in E
                 /\ ReservationRow(r) \notin tx[h].dels
           /\ \A E : \A x \in RowsOf(db, "reservations") :
                 x \notin tx[h].dels /\ db[x].event \in E => x[2] \in ReservationsOf(View(h), E)
<1>1. PICK v : v = View(h)
  OBVIOUS
<1>2. DOMAIN tx[h].writes = {}
  BY ResetParts
<1>3. /\ DOMAIN View(h) = (DOMAIN tx[h].writes \cup DOMAIN db) \ tx[h].dels
      /\ \A x \in DOMAIN View(h) : x \notin DOMAIN tx[h].writes => View(h)[x] = db[x]
  BY ViewRows
<1>4. DOMAIN v = DOMAIN db \ tx[h].dels /\ \A x \in DOMAIN v : v[x] = db[x]
  BY <1>1, <1>2, <1>3
<1>5. \A x \in DOMAIN db : x[1] = "reservations" => x = ReservationRow(x[2])
  BY CommittedRow, RowNames
<1>6. \A E, r : r \in ReservationsOf(v, E) =>
         /\ ReservationRow(r) \in DOMAIN db /\ db[ReservationRow(r)].event \in E
         /\ ReservationRow(r) \notin tx[h].dels
  <2> SUFFICES ASSUME NEW E, NEW r \in ReservationsOf(v, E)
               PROVE  /\ ReservationRow(r) \in DOMAIN db /\ db[ReservationRow(r)].event \in E
                      /\ ReservationRow(r) \notin tx[h].dels
    OBVIOUS
  <2>1. PICK y \in DOMAIN v : y[1] = "reservations" /\ v[y].event \in E /\ y[2] = r
    BY DEF ReservationsOf, RowsOf
  <2> QED
    BY <1>4, <1>5, <2>1
<1>7. \A E : \A x \in RowsOf(db, "reservations") :
         x \notin tx[h].dels /\ db[x].event \in E => x[2] \in ReservationsOf(v, E)
  <2> SUFFICES ASSUME NEW E, NEW x \in RowsOf(db, "reservations"), x \notin tx[h].dels,
                      db[x].event \in E
               PROVE  x[2] \in ReservationsOf(v, E)
    OBVIOUS
  <2>1. x \in DOMAIN db /\ x[1] = "reservations"
    BY DEF RowsOf
  <2>2. x \in DOMAIN v /\ v[x].event \in E
    BY <1>4, <2>1
  <2> QED
    BY <2>1, <2>2 DEF ReservationsOf, RowsOf
<1> QED
  BY <1>1, <1>4, <1>6, <1>7

\* What the statements of a Reset find.
LEMMA FoundRowsAre ==
    ASSUME Inv, NEW h \in Handlers, Busy(h), req[h].op = "reset", pc[h] \in DeleteStages
    PROVE  LET rows == FoundRows(h, pc[h])
               dels == tx[h].dels
               ids == loc[h].ids
           IN  /\ \A x \in rows : x \in DOMAIN db /\ db[x].event \in ids
               /\ pc[h] = "cascade_children" =>
                     /\ \A x \in rows : x[1] # "reservations"
                     /\ \A x \in dels : x[1] = "reservations" =>
                           {ItemRow(x[2]), HoldRow(x[2])} \cap DOMAIN db \subseteq dels \cup rows
               /\ pc[h] = "del_events" =>
                     /\ \A x \in rows : x[1] # "reservations"
                     /\ \A e \in ids : EventRow(e) \in DOMAIN db => EventRow(e) \in dels \cup rows
               /\ pc[h] = "cascade_inventory" =>
                     /\ \A x \in rows : x[1] # "reservations" /\ x[1] # "events"
                     /\ \A x \in dels : x[1] = "events" =>
                           {TicketRow(x[2]), SeatRow(x[2])} \cap DOMAIN db \subseteq dels \cup rows
<1> DEFINE rows == FoundRows(h, pc[h])
           dels == tx[h].dels
           ids == loc[h].ids
           mine == ReservationsOf(View(h), ids)
           gone(table) == {x[2] : x \in {y \in dels : y[1] = table}}
<1>1. PICK live : live = DOMAIN View(h)
  OBVIOUS
<1>2. live = DOMAIN db \ dels
  BY <1>1, ResetView
<1>3. \A x \in dels : x \in DOMAIN db /\ db[x].event \in ids
  BY ResetParts
<1>4. \A r \in mine : ReservationRow(r) \in DOMAIN db /\ db[ReservationRow(r)].event \in ids
  BY ResetView
<1>5. \A r : ReservationRow(r) \in DOMAIN db /\ db[ReservationRow(r)].event \in ids =>
         \A x \in {HoldRow(r), ItemRow(r)} : x \in DOMAIN db => db[x].event \in ids
  BY HoldAndHeader
<1>6. \A r \in gone("reservations") :
         ReservationRow(r) \in DOMAIN db /\ db[ReservationRow(r)].event \in ids
  <2>1. \A x \in dels : x[1] = "reservations" => x = ReservationRow(x[2])
    BY <1>3, CommittedRow, RowNames
  <2> QED
    BY <1>3, <2>1
<1>7. \A e \in gone("events") : e \in ids
  <2>1. \A x \in dels : x[1] = "events" => db[x].event = x[2]
    BY <1>3, CommittedRow DEF Fits, Fixtures
  <2> QED
    BY <1>3, <2>1
<1>8. \A e : \A x \in {EventRow(e), TicketRow(e), SeatRow(e)} : x \in DOMAIN db => db[x].event = e
  BY CommittedRow, RowFacts DEF Fits, Fixtures
<1>9. CASE pc[h] = "del_holds"
  <2>1. rows = {HoldRow(r) : r \in mine} \cap live
    BY <1>1, <1>9 DEF FoundRows
  <2> HIDE DEF rows, mine, gone
  <2> QED
    BY <1>2, <1>4, <1>5, <1>9, <2>1 DEF rows
<1>10. CASE pc[h] = "del_items"
  <2>1. rows = {ItemRow(r) : r \in mine} \cap live
    BY <1>1, <1>10 DEF FoundRows
  <2> HIDE DEF rows, mine, gone
  <2> QED
    BY <1>2, <1>4, <1>5, <1>10, <2>1 DEF rows
<1>11. CASE pc[h] = "del_reservations"
  <2>1. rows = {ReservationRow(r) : r \in mine} \cap live
    BY <1>1, <1>11 DEF FoundRows
  <2> HIDE DEF rows, mine, gone
  <2> QED
    BY <1>2, <1>4, <1>11, <2>1 DEF rows
<1>12. CASE pc[h] = "cascade_children"
  <2>1. rows = (UNION {{HoldRow(r), ItemRow(r)} : r \in gone("reservations")}) \cap live
    BY <1>1, <1>12 DEF FoundRows
  <2>2. \A x \in rows : \E r \in gone("reservations") : x \in {HoldRow(r), ItemRow(r)}
    BY <2>1
  <2>3. \A x \in dels : x[1] = "reservations" => x[2] \in gone("reservations")
    OBVIOUS
  <2>4. \A r \in gone("reservations") : {HoldRow(r), ItemRow(r)} \cap live \subseteq rows
    BY <2>1
  <2>5. \A x \in rows : x \in DOMAIN db
    BY <1>2, <2>1
  <2> HIDE DEF rows, mine, gone
  <2>6. \A x \in rows : x[1] # "reservations"
    BY <2>2, RowFacts
  <2>7. \A x \in rows : db[x].event \in ids
    BY <1>5, <1>6, <2>2, <2>5
  <2>8. \A x \in dels : x[1] = "reservations" =>
           {ItemRow(x[2]), HoldRow(x[2])} \cap DOMAIN db \subseteq dels \cup rows
    BY <1>2, <2>3, <2>4
  <2> QED
    BY <1>12, <2>5, <2>6, <2>7, <2>8 DEF rows
<1>13. CASE pc[h] = "del_events"
  <2>1. rows = {EventRow(e) : e \in ids} \cap live
    BY <1>1, <1>13 DEF FoundRows
  <2> HIDE DEF rows, mine, gone
  <2>2. \A x \in rows : x \in DOMAIN db /\ \E e \in ids : x = EventRow(e)
    BY <1>2, <2>1
  <2>3. \A x \in rows : x[1] # "reservations" /\ db[x].event \in ids
    BY <1>8, <2>2, RowFacts
  <2>4. \A e \in ids : EventRow(e) \in DOMAIN db => EventRow(e) \in dels \cup rows
    BY <1>2, <2>1
  <2> QED
    BY <1>13, <2>2, <2>3, <2>4 DEF rows
<1>14. CASE pc[h] = "cascade_inventory"
  <2>1. rows = (UNION {{TicketRow(e), SeatRow(e)} : e \in gone("events")}) \cap live
    BY <1>1, <1>14 DEF FoundRows
  <2>2. \A x \in rows : \E e \in gone("events") : x \in {TicketRow(e), SeatRow(e)}
    BY <2>1
  <2>3. \A x \in dels : x[1] = "events" => x[2] \in gone("events")
    OBVIOUS
  <2>4. \A e \in gone("events") : {TicketRow(e), SeatRow(e)} \cap live \subseteq rows
    BY <2>1
  <2>5. \A x \in rows : x \in DOMAIN db
    BY <1>2, <2>1
  <2> HIDE DEF rows, mine, gone
  <2>6. \A x \in rows : x[1] # "reservations" /\ x[1] # "events"
    BY <2>2, RowFacts
  <2>7. \A x \in rows : db[x].event \in ids
    BY <1>7, <1>8, <2>2, <2>5
  <2>8. \A x \in dels : x[1] = "events" =>
           {TicketRow(x[2]), SeatRow(x[2])} \cap DOMAIN db \subseteq dels \cup rows
    BY <1>2, <2>3, <2>4
  <2> QED
    BY <1>14, <2>5, <2>6, <2>7, <2>8 DEF rows
<1> QED
  BY <1>9, <1>10, <1>11, <1>12, <1>13, <1>14 DEF DeleteStages

\* The next stage.
LEMMA NextStage ==
    ASSUME NEW stage \in DeleteStages
    PROVE  /\ AfterStage(stage) \in ResetLabels \ {"del_holds"}
           /\ AfterStage(stage) = "del_items" <=> stage = "del_holds"
           /\ AfterStage(stage) = "del_reservations" <=> stage = "del_items"
           /\ AfterStage(stage) = "cascade_children" <=> stage = "del_reservations"
           /\ AfterStage(stage) = "del_events" <=> stage = "cascade_children"
           /\ AfterStage(stage) = "cascade_inventory" <=> stage = "del_events"
           /\ AfterStage(stage) = "restrict" <=> stage = "cascade_inventory"
BY DEF AfterStage, DeleteStages, ResetLabels

\* A DELETE goes on with one of the rows that are left.
LEMMA RowsLeft ==
    ASSUME NEW h, NEW t, NEW left, DeleteGoesOn(h, t, left), DOMAIN loc[h] = LocalNames
    PROVE  \E label, l :
              /\ Continue(h, label, t, l) /\ DOMAIN l = LocalNames
              /\ l.ids = loc[h].ids /\ l.todo = left /\ (left # {} => l.row \in left)
              /\ IF left = {} THEN label = AfterStage(pc[h]) ELSE label = pc[h]
<1>1. CASE left = {} /\ Continue(h, AfterStage(pc[h]), t, [loc[h] EXCEPT !.todo = {}, !.row = <<>>])
  <2>1. PICK l : l = [loc[h] EXCEPT !.todo = {}, !.row = <<>>]
    OBVIOUS
  <2>2. DOMAIN l = LocalNames /\ l.ids = loc[h].ids /\ l.todo = left
    BY <1>1, <2>1 DEF LocalNames
  <2> QED
    BY <1>1, <2>1, <2>2
<1>2. CASE \E x \in left : Continue(h, pc[h], t, [loc[h] EXCEPT !.todo = left, !.row = x])
  <2>1. PICK x \in left : Continue(h, pc[h], t, [loc[h] EXCEPT !.todo = left, !.row = x])
    BY <1>2
  <2>2. PICK l : l = [loc[h] EXCEPT !.todo = left, !.row = x]
    OBVIOUS
  <2>3. DOMAIN l = LocalNames /\ l.ids = loc[h].ids /\ l.todo = left /\ l.row = x
    BY <2>2 DEF LocalNames
  <2> QED
    BY <2>1, <2>2, <2>3
<1> QED
  BY <1>1, <1>2 DEF DeleteGoesOn

\* A statement of a Reset starts.
LEMMA DeleteBeginInv ==
    ASSUME Inv, NEW h \in Handlers, DeleteBegin(h)
    PROVE  Inv'
<1>0. h \in Procs
  BY DEF Procs
<1>1. pc[h] \in DeleteStages /\ loc[h].todo = {} /\ Busy(h)
  BY DEF DeleteBegin, Busy, DeleteStages
<1>2. req[h].op = "reset"
  BY <1>1, WhoRuns
<1> DEFINE dels == tx[h].dels
           ids == loc[h].ids
<1>3. PICK rows : rows = FoundRows(h, pc[h])
  OBVIOUS
<1>4. /\ \A x \in rows : x \in DOMAIN db /\ db[x].event \in ids
      /\ pc[h] = "cascade_children" =>
            /\ \A x \in rows : x[1] # "reservations"
            /\ \A x \in dels : x[1] = "reservations" =>
                  {ItemRow(x[2]), HoldRow(x[2])} \cap DOMAIN db \subseteq dels \cup rows
      /\ pc[h] = "del_events" =>
            /\ \A x \in rows : x[1] # "reservations"
            /\ \A e \in ids : EventRow(e) \in DOMAIN db => EventRow(e) \in dels \cup rows
      /\ pc[h] = "cascade_inventory" =>
            /\ \A x \in rows : x[1] # "reservations" /\ x[1] # "events"
            /\ \A x \in dels : x[1] = "events" =>
                  {TicketRow(x[2]), SeatRow(x[2])} \cap DOMAIN db \subseteq dels \cup rows
  BY <1>1, <1>2, <1>3, FoundRowsAre
<1>5. /\ DOMAIN tx[h] = TxNames /\ DOMAIN loc[h] = LocalNames
      /\ ids \subseteq Known /\ ids \cap (ManualEvents \ Lookalikes) = {}
      /\ DOMAIN tx[h].writes = {} /\ tx[h].shares = {} /\ tx[h].locks = dels
      /\ \A x \in dels : x \in DOMAIN db /\ db[x].event \in ids
      /\ pc[h] \in {"del_events", "cascade_inventory"} => ChildrenGone(dels)
      /\ pc[h] = "cascade_inventory" => EventsGone(h, dels)
  <2>1. dels \cup loc[h].todo = dels
    BY <1>1
  <2> QED
    BY <1>1, <1>2, <2>1, ResetParts
<1>6. /\ pc[h] \in {"cascade_children", "del_events", "cascade_inventory"} =>
            ChildrenGone(dels \cup rows)
      /\ pc[h] \in {"del_events", "cascade_inventory"} => EventsGone(h, dels \cup rows)
      /\ pc[h] = "cascade_inventory" => InventoryGone(dels \cup rows)
  BY <1>4, <1>5 DEF ChildrenGone, EventsGone, InventoryGone
<1>7. \A x \in rows : x = <<x[1], x[2]>> /\ x[2] \in Known
  BY <1>4, CommittedRow
<1>8. PICK label, l :
         /\ Continue(h, label, tx[h], l) /\ DOMAIN l = LocalNames /\ l.ids = ids /\ l.todo = rows
         /\ rows # {} => l.row \in rows
         /\ IF rows = {} THEN label = AfterStage(pc[h]) ELSE label = pc[h]
  <2>1. DeleteGoesOn(h, tx[h], rows)
    BY <1>3 DEF DeleteBegin
  <2> QED
    BY <1>5, <2>1, RowsLeft
<1>9. label \in ResetLabels /\ label \notin {"idle", "done", "commit", "r_list"}
  BY <1>1, <1>8, NextStage DEF ResetLabels, DeleteStages
<1>10. /\ db' = db /\ tx'[h] = tx[h] /\ pc'[h] = label /\ loc'[h] = l /\ Known' = Known
  BY <1>0, <1>1, <1>8, <1>9, Continued DEF Busy
<1>11. /\ label \in {"del_events", "cascade_inventory", "restrict"}
             \/ (label = "cascade_children" /\ rows # {}) => ChildrenGone(dels \cup rows)
       /\ label \in {"cascade_inventory", "restrict"}
             \/ (label = "del_events" /\ rows # {}) => EventsGone(h, dels \cup rows)
       /\ label = "restrict"
             \/ (label = "cascade_inventory" /\ rows # {}) => InventoryGone(dels \cup rows)
       /\ label \notin DeleteStages => rows = {}
  BY <1>1, <1>6, <1>8, NextStage DEF DeleteStages
<1>12. /\ ChildrenGone(dels \cup rows) => ChildrenGone(dels \cup rows)'
       /\ EventsGone(h, dels \cup rows) => EventsGone(h, dels \cup rows)'
       /\ InventoryGone(dels \cup rows) => InventoryGone(dels \cup rows)'
  BY <1>8, <1>10 DEF ChildrenGone, EventsGone, InventoryGone
<1>13. ResetFits(h)'
  <2>1. dels' = dels /\ ids' = ids
    BY <1>8, <1>10
  <2> QED
    BY <1>4, <1>5, <1>7, <1>8, <1>9, <1>10, <1>11, <1>12, <2>1 DEF ResetFits
<1> QED
  BY <1>1, <1>2, <1>5, <1>8, <1>9, <1>13, ResetGoesOn

\* A Reset deletes its next row, or skips it.
LEMMA DeleteRowInv ==
    ASSUME Inv, NEW h \in Handlers, DeleteRow(h)
    PROVE  Inv'
<1>0. h \in Procs
  BY DEF Procs
<1>1. pc[h] \in DeleteStages /\ loc[h].todo # {} /\ Blockers(h) = {} /\ Busy(h)
  BY DEF DeleteRow, Busy, DeleteStages
<1>2. req[h].op = "reset"
  BY <1>1, WhoRuns
<1> DEFINE dels == tx[h].dels
           ids == loc[h].ids
           todo == loc[h].todo
           both == dels \cup todo
<1>3. PICK x : x = NextRow(h)
  OBVIOUS
<1>4. x \in todo
  BY <1>1, <1>2, <1>3, ResetParts DEF NextRow
<1>5. Free(h, x)
  <2>1. Holders(h, x) = {} /\ Sharers(h, x) = {}
    BY <1>1, <1>3, BlockersAt
  <2> QED
    BY <2>1 DEF Free, Holders, Sharers
<1>6. /\ DOMAIN tx[h] = TxNames /\ DOMAIN loc[h] = LocalNames
      /\ ids \subseteq Known /\ ids \cap (ManualEvents \ Lookalikes) = {}
      /\ DOMAIN tx[h].writes = {} /\ tx[h].shares = {} /\ tx[h].locks = dels
      /\ \A y \in dels : y \in DOMAIN db /\ db[y].event \in ids
      /\ \A y \in todo : /\ y = <<y[1], y[2]>> /\ y[2] \in Known
                         /\ y \in DOMAIN db => db[y].event \in ids
      /\ pc[h] \in {"cascade_children", "del_events", "cascade_inventory"} => ChildrenGone(both)
      /\ pc[h] \in {"del_events", "cascade_inventory"} => EventsGone(h, both)
      /\ pc[h] = "cascade_inventory" => InventoryGone(both)
  BY <1>1, <1>2, ResetParts
<1>7. PICK t : t = IF x \in DOMAIN db THEN [Lock(tx[h], x) EXCEPT !.dels = @ \cup {x}] ELSE tx[h]
  OBVIOUS
<1>8. /\ DOMAIN t = TxNames /\ DOMAIN t.writes = {} /\ t.shares = {} /\ t.locks = t.dels
      /\ t.dels = IF x \in DOMAIN db THEN dels \cup {x} ELSE dels
  <2>1. CASE x \in DOMAIN db
    <3>1. PICK u : u = Lock(tx[h], x)
      OBVIOUS
    <3>2. /\ DOMAIN u = TxNames /\ u.dels = dels /\ u.shares = {} /\ u.locks = dels \cup {x}
          /\ u.writes = tx[h].writes
      BY <1>6, <3>1, LockTx
    <3>3. t = [u EXCEPT !.dels = @ \cup {x}]
      BY <1>7, <2>1, <3>1
    <3> HIDE DEF dels
    <3> QED
      BY <1>6, <2>1, <3>2, <3>3 DEF TxNames
  <2>2. CASE x \notin DOMAIN db
    BY <1>6, <1>7, <2>2
  <2> QED
    BY <2>1, <2>2
<1>9. PICK rest : rest = todo \ {x}
  OBVIOUS
<1>10. PICK label, l :
          /\ Continue(h, label, t, l) /\ DOMAIN l = LocalNames /\ l.ids = ids /\ l.todo = rest
          /\ rest # {} => l.row \in rest
          /\ IF rest = {} THEN label = AfterStage(pc[h]) ELSE label = pc[h]
  <2>1. DeleteGoesOn(h, t, rest)
    BY <1>3, <1>7, <1>9 DEF DeleteRow
  <2> QED
    BY <1>6, <2>1, RowsLeft
<1>11. l.ids = ids /\ l.todo = rest
  BY <1>10
<1>12. label \in ResetLabels /\ label \notin {"idle", "done", "commit", "r_list"}
  BY <1>1, <1>10, NextStage DEF ResetLabels, DeleteStages
<1>13. /\ db' = db /\ tx'[h] = t /\ pc'[h] = label /\ loc'[h] = l /\ Known' = Known
  BY <1>0, <1>1, <1>10, <1>12, Continued DEF Busy
<1>14. PICK new : new = t.dels \cup rest
  OBVIOUS
<1>15. new \subseteq both /\ \A y \in both : y \in DOMAIN db => y \in new
  BY <1>4, <1>8, <1>9, <1>14
<1>16. /\ ChildrenGone(both) => ChildrenGone(new)'
       /\ EventsGone(h, both) => EventsGone(h, new)'
       /\ InventoryGone(both) => InventoryGone(new)'
  BY <1>11, <1>13, <1>15 DEF ChildrenGone, EventsGone, InventoryGone
<1>17. /\ label \in {"del_events", "cascade_inventory", "restrict"}
             \/ (label = "cascade_children" /\ rest # {}) => ChildrenGone(new)'
       /\ label \in {"cascade_inventory", "restrict"}
             \/ (label = "del_events" /\ rest # {}) => EventsGone(h, new)'
       /\ label = "restrict"
             \/ (label = "cascade_inventory" /\ rest # {}) => InventoryGone(new)'
       /\ label \notin DeleteStages => rest = {}
  BY <1>1, <1>6, <1>10, <1>16, NextStage DEF DeleteStages
<1>18. \A y \in t.dels : y \in DOMAIN db /\ db[y].event \in ids
  BY <1>4, <1>6, <1>8
<1>19. \A y \in rest : /\ y = <<y[1], y[2]>> /\ y[2] \in Known
                       /\ y \in DOMAIN db => db[y].event \in ids
  BY <1>6, <1>9
<1>20. ResetFits(h)'
  BY <1>6, <1>8, <1>10, <1>12, <1>13, <1>14, <1>17, <1>18, <1>19 DEF ResetFits
<1>21. \A y \in t.locks \ tx[h].locks : y = <<y[1], y[2]>> /\ y[2] \in Known /\ Free(h, y)
  BY <1>4, <1>5, <1>6, <1>8
<1> QED
  BY <1>1, <1>2, <1>8, <1>10, <1>11, <1>12, <1>20, <1>21, ResetGoesOn

\* A Reset is restricted by a reservation of a deleted event, or may commit.
LEMMA ResetRestrictInv ==
    ASSUME Inv, NEW h \in Handlers, ResetRestrict(h)
    PROVE  Inv'
<1>0. h \in Procs
  BY DEF Procs
<1>1. Busy(h) /\ pc[h] = "restrict" /\ req[h].op = "reset"
  BY AtBusy, WhoRuns DEF ResetRestrict
<1> DEFINE dels == tx[h].dels
           ids == loc[h].ids
           deleted == {x[2] : x \in {y \in dels : y[1] = "events"}}
<1>2. CASE ReservationsOf(View(h), deleted) # {}
  BY <1>0, <1>1, <1>2, FailInv DEF ResetRestrict
<1>3. CASE ReservationsOf(View(h), deleted) = {}
  <2>1. PICK a : a = [Ok EXCEPT !.events = ids, !.deleted = EventsDeleted(h)]
    OBVIOUS
  <2>2. PICK l : l = [loc[h] EXCEPT !.answer = a]
    OBVIOUS
  <2>3. Continue(h, "commit", tx[h], l)
    BY <1>3, <2>1, <2>2 DEF ResetRestrict
  <2>4. a.code = "OK" /\ a.failed = {} /\ a.events = ids
    BY <2>1 DEF Ok, NoAnswer
  <2>5. /\ DOMAIN tx[h] = TxNames /\ DOMAIN loc[h] = LocalNames
        /\ ids \subseteq Known /\ ids \cap (ManualEvents \ Lookalikes) = {}
        /\ DOMAIN tx[h].writes = {} /\ tx[h].shares = {} /\ tx[h].locks = dels
        /\ \A x \in dels : x \in DOMAIN db /\ db[x].event \in ids
        /\ loc[h].todo = {}
        /\ ChildrenGone(dels) /\ EventsGone(h, dels) /\ InventoryGone(dels)
    <3>1. loc[h].todo = {}
      BY <1>1, ResetParts DEF DeleteStages
    <3>2. dels \cup loc[h].todo = dels
      BY <3>1
    <3> QED
      BY <1>1, <3>1, <3>2, ResetParts
  <2>6. DOMAIN l = LocalNames /\ l.ids = ids /\ l.todo = {} /\ l.answer = a
    BY <2>2, <2>5, LocalsSet
  <2>7. /\ db' = db /\ tx'[h] = tx[h] /\ pc'[h] = "commit" /\ loc'[h] = l /\ Known' = Known
    BY <1>0, <1>1, <2>3, Continued DEF Busy
  <2>8. \A x \in RowsOf(db, "reservations") : db[x].event \in ids => x \in dels
    <3> SUFFICES ASSUME NEW x \in RowsOf(db, "reservations"), db[x].event \in ids, x \notin dels
                 PROVE  FALSE
      OBVIOUS
    <3>1. EventRow(db[x].event) \in DOMAIN db
      BY DEF Inv, Whole, Structure, ReservationWhole
    <3>2. EventRow(db[x].event) \in dels
      BY <2>5, <3>1 DEF EventsGone
    <3>3. db[x].event \in deleted
      BY <3>2, RowFacts
    <3>4. x[2] \in ReservationsOf(View(h), deleted)
      BY <1>1, <3>3, ResetView
    <3> QED
      BY <1>3, <3>4
  <2>9. /\ ChildrenGone(dels)' /\ EventsGone(h, dels)' /\ InventoryGone(dels)'
        /\ ReservationsGone(h, dels)'
    BY <2>5, <2>6, <2>7, <2>8 DEF ChildrenGone, EventsGone, InventoryGone, ReservationsGone
  <2>10. dels \cup {} = dels
    OBVIOUS
  <2>11. ResetFits(h)'
    BY <2>4, <2>5, <2>6, <2>7, <2>9, <2>10 DEF ResetFits
  <2> QED
    BY <1>1, <2>3, <2>4, <2>5, <2>6, <2>11, ResetGoesOn
<1> QED
  BY <1>2, <1>3

\* The five structural checks find nothing, and the last one nothing that is not late.
LEMMA ChecksPass ==
    ASSUME Inv, NEW h \in Handlers, Runs(h, "assert")
    PROVE  /\ loc[h].check # LastCheck => CheckedRows(h) = {}
           /\ loc[h].check = LastCheck => \A x \in CheckedRows(h) : IsLate(x)
<1>1. ReportFits(h)
  BY DEF Inv, HandlerFits
<1>2. loc[h].check \in 1..7
  BY <1>1 DEF ReportFits, LastCheck
<1>3. /\ Total \in Nat /\ TTL \in Nat /\ Tolerance \in Nat /\ now \in Nat
  BY StressAssumption DEF Inv, Types
<1>4. \A x \in RowsOf(db, "ticket_types") :
         db[x].sold \in Nat /\ db[x].reserved \in Nat /\ db[x].sold + db[x].reserved <= Total
  <2>1. \A x \in RowsOf(db, "ticket_types") : db[x].sold + db[x].reserved <= Total
    BY DEF Inv, Whole, Counted
  <2>2. \A x \in RowsOf(db, "ticket_types") : db[x].sold \in Nat /\ db[x].reserved \in Nat
    BY CommittedRow DEF RowsOf, Fits
  <2> QED
    BY <2>1, <2>2
<1>5. ListNegativeTicketQuantityViolations = {}
  BY <1>3, <1>4 DEF ListNegativeTicketQuantityViolations
<1>6. ListOversoldTicketQuantityViolations = {}
  BY <1>3, <1>4 DEF ListOversoldTicketQuantityViolations
<1>7. ListDuplicateActiveSeatViolations = {}
  <2> SUFFICES ASSUME NEW x \in RowsOf(db, "reservation_seats"), IsActive(db[x].status),
                      Cardinality(ActiveHolds(db, db[x].event)) > 1
               PROVE  FALSE
    BY DEF ListDuplicateActiveSeatViolations
  <2>1. ActiveHolds(db, db[x].event) = {x}
    BY DEF ActiveHolds, Inv, Whole, OneHolder
  <2>2. Cardinality(ActiveHolds(db, db[x].event)) = 1
    BY <2>1, FS_Singleton
  <2> QED
    BY <2>2
<1>8. /\ ListOrphanViolations("reservation_items") = {}
      /\ ListOrphanViolations("reservation_seats") = {}
  BY DEF ListOrphanViolations, Inv, Whole, Structure, ChildWhole
<1>9. CASE loc[h].check # LastCheck
  <2>1. CheckedRows(h) = {}
    BY <1>2, <1>5, <1>6, <1>7, <1>8, <1>9 DEF CheckedRows, LastCheck
  <2> QED
    BY <1>9, <2>1
<1>10. CASE loc[h].check = LastCheck
  <2>1. CheckedRows(h) = ListStaleExpiredActiveReservationViolations(loc[h].expires)
    BY <1>10 DEF CheckedRows, LastCheck
  <2> SUFFICES ASSUME NEW x \in CheckedRows(h) PROVE IsLate(x)
    BY <1>10
  <2>2. x \in RowsOf(db, "reservations") /\ db[x].expires < loc[h].expires
    BY <2>1 DEF ListStaleExpiredActiveReservationViolations
  <2>3. loc[h].expires \in Int /\ loc[h].expires <= now - Tolerance
    BY <1>1, <1>10 DEF ReportFits
  <2>4. /\ x \in DOMAIN db /\ x[1] = "reservations" /\ x[2] \in Known
        /\ x[2] \in DOMAIN Holds \cup Handlers /\ db[x].expires \in Nat
        /\ DeadlineFits(x[2], db[x].expires)
    BY <2>2, CommittedRow DEF RowsOf, Fits, Fixtures
  <2>5. db[x].expires + Tolerance < now
    BY <1>3, <2>2, <2>3, <2>4
  <2>6. x[2] \in DOMAIN Holds => Holds[x[2]].expires = db[x].expires
    BY <2>4, StressAssumption DEF DeadlineFits
  <2> QED
    BY <2>4, <2>5, <2>6 DEF IsLate
<1> QED
  BY <1>9, <1>10

\* One query of a report.
LEMMA AssertCheckInv ==
    ASSUME Inv, NEW h \in Handlers, AssertCheck(h)
    PROVE  Inv'
<1>0. h \in Procs
  BY DEF Procs
<1>1. Busy(h) /\ pc[h] = "check" /\ req[h].op = "assert" /\ Runs(h, "assert")
  BY AtBusy, WhoRuns DEF AssertCheck, Runs
<1>2. /\ DOMAIN loc[h] = LocalNames /\ tx[h] = NoTx /\ ReportFits(h) /\ h \notin Workers
  BY <1>0, <1>1, PartsOf DEF TxFits, Blank, HandlerFits
<1> DEFINE n == loc[h].check
<1>3. PICK failed : failed = loc[h].answer.failed \cup ({n} \X CheckedRows(h))
  OBVIOUS
<1>4. PICK a : a = [Ok EXCEPT !.failed = failed]
  OBVIOUS
<1>5. a.code = "OK" /\ a.failed = failed
  BY <1>4 DEF Ok, NoAnswer
<1>6. /\ n \in 1..LastCheck /\ loc[h].answer.failed = {}
  BY <1>1, <1>2 DEF ReportFits
<1>7. CASE n = LastCheck
  <2>1. Finish(h, a) /\ db' = db
    BY <1>3, <1>4, <1>7 DEF AssertCheck
  <2>2. OnlyLate(failed)
    BY <1>1, <1>3, <1>6, <1>7, ChecksPass DEF OnlyLate
  <2> QED
    BY <1>0, <1>1, <1>5, <2>1, <2>2, FinishedQuietly
<1>8. CASE n # LastCheck
  <2>1. PICK l : l = [loc[h] EXCEPT !.answer = a, !.check = n + 1,
                                    !.expires = IF n = 6 THEN now - Tolerance ELSE @]
    OBVIOUS
  <2>2. Continue(h, "check", tx[h], l)
    BY <1>3, <1>4, <1>8, <2>1 DEF AssertCheck
  <2>3. /\ DOMAIN l = LocalNames /\ l.answer = a /\ l.check = n + 1
        /\ n = 6 => l.expires = now - Tolerance
    BY <1>2, <2>1 DEF LocalNames
  <2>4. failed = {}
    BY <1>1, <1>3, <1>6, <1>8, ChecksPass
  <2>5. /\ pc'[h] = "check" /\ loc'[h] = l /\ req' = req /\ resp' = resp /\ now' = now
    BY <1>0, <1>1, <2>2, Continued DEF Busy
  <2>6. now \in Nat /\ Tolerance \in Nat
    BY StressAssumption DEF Inv, Types
  <2>7. ReportFits(h)'
    <3>1. n + 1 \in 1..LastCheck /\ (n + 1 = LastCheck => n = 6)
      BY <1>6, <1>8 DEF LastCheck
    <3>2. now - Tolerance \in Int /\ now - Tolerance <= now - Tolerance
      BY <2>6
    <3> QED
      BY <1>5, <2>3, <2>4, <2>5, <3>1, <3>2 DEF ReportFits
  <2>8. AnswerFits(h)'
    BY <1>1, <2>5, AnswersWait DEF Busy
  <2>9. "check" \in LabelsOf(req[h].op)
    BY <1>1 DEF LabelsOf
  <2>10. LifecycleFits(h)' /\ HandlerFits(h)'
    BY <1>1, <2>5, <2>7, <2>8, <2>9, WhoRuns, OneRequest
  <2>11. AllFit(tx[h].writes) /\ DOMAIN tx[h].writes = {} /\ tx[h].dels = {} /\ DOMAIN tx[h] = TxNames
    BY <1>2, BlankTx DEF AllFit
  <2> QED
    BY <1>0, <1>1, <1>2, <2>2, <2>3, <2>9, <2>10, <2>11, GoesOn DEF Busy
<1> QED
  BY <1>7, <1>8

\* A broken connection and a deadlock roll back.
LEMMA AbortInv ==
    ASSUME Inv, NEW p \in Procs, DeadlockAbort(p) \/ (p \in Handlers /\ Interrupt(p))
    PROVE  Inv'
<1>1. CASE DeadlockAbort(p)
  <2>1. Blockers(p) # {} /\ Fail(p, "DEADLOCK")
    BY <1>1 DEF DeadlockAbort, InWaitCycle
  <2>2. Busy(p)
    BY <2>1, BlockersAt DEF Busy
  <2> QED
    BY <2>1, <2>2, FailInv
<1>2. CASE p \in Handlers /\ Interrupt(p)
  BY <1>2, FailInv DEF Interrupt, Busy
<1> QED
  BY <1>1, <1>2

\* Nobody does anything; time may pass.
LEMMA IdleInv ==
    ASSUME Inv, UNCHANGED <<db, tx, local, pc, req, loc, resp>>, now' = now \/ now' = now + 1
    PROVE  Inv'
<1>1. now \in Nat /\ now' \in Nat /\ now' >= now
  BY DEF Inv, Types
<1>2. Known' = Known
  BY DEF Known
<1>3. Onward
  BY <1>1, <1>2 DEF Onward
<1>4. \A o \in Procs : Quiet(o) /\ Lasting(o)
  BY TablesLast DEF Quiet
<1>5. Whole(db') /\ Structure(db')
  BY DEF Inv, Whole
<1>6. \A o \in Procs : TxFits(o)' /\ LifecycleFits(o)' /\ (o \in Handlers => HandlerFits(o)')
  BY <1>3, <1>4, <1>5, OthersStay
<1>7. Types'
  BY <1>1 DEF Inv, Types, Busy
<1>8. \A p, o \in Procs : p # o => Apart(p, o)'
  BY DEF Inv, Apart
<1>9. \A h \in Handlers : HandlerFits(h)'
  BY <1>6 DEF Procs
<1> QED
  BY <1>2, <1>5, <1>6, <1>7, <1>8, <1>9 DEF Inv

--------------------------------------------------------------------------------
(* Commits *)

\* d is what the transaction of p leaves.
Leaves(p, d) ==
    /\ DOMAIN d = (DOMAIN tx[p].writes \cup DOMAIN db) \ tx[p].dels
    /\ \A x \in DOMAIN d : d[x] = IF x \in DOMAIN tx[p].writes THEN tx[p].writes[x] ELSE db[x]

\* What p writes is new and p's own, or keeps its kind; a new reservation shares its
\* event, and a hold becomes active only under the lock of the seats.
WritesFit(p) ==
    LET t == tx[p]
    IN  /\ \A x \in DOMAIN t.writes :
              KeptKind(t, x) \/ (x \notin DOMAIN db /\ x[2] = p /\ p \in Handlers)
        /\ \A x \in DOMAIN t.writes \ DOMAIN db :
              x[1] = "reservations" => EventRow(t.writes[x].event) \in t.shares
        /\ \A x \in DOMAIN t.writes : x[1] = "reservation_seats" /\ IsActive(t.writes[x].status) =>
              (x \in DOMAIN db /\ IsActive(db[x].status)) \/ SeatRow(t.writes[x].event) \in t.locks

\* A reservation and its child are written together and tell the same.
PairsFit(p) ==
    LET w == tx[p].writes
    IN  \A r :
          /\ ReservationRow(r) \in DOMAIN w =>
                LET child == IF w[ReservationRow(r)].type = "quantity" THEN ItemRow(r)
                                                                      ELSE HoldRow(r)
                IN  /\ child \in DOMAIN w
                    /\ w[child].event = w[ReservationRow(r)].event
                    /\ w[child].status = w[ReservationRow(r)].status
                    /\ EventRow(w[ReservationRow(r)].event) \in DOMAIN db
          /\ ItemRow(r) \in DOMAIN w =>
                ReservationRow(r) \in DOMAIN w /\ w[ReservationRow(r)].type = "quantity"
          /\ HoldRow(r) \in DOMAIN w =>
                ReservationRow(r) \in DOMAIN w /\ w[ReservationRow(r)].type # "quantity"

\* A commit leaves the view.
LEMMA ViewLeaves ==
    ASSUME NEW p
    PROVE  Leaves(p, View(p))
<1>1. /\ DOMAIN View(p) = (DOMAIN tx[p].writes \cup DOMAIN db) \ tx[p].dels
      /\ \A x \in DOMAIN View(p) :
            /\ x \in DOMAIN tx[p].writes => View(p)[x] = tx[p].writes[x]
            /\ x \notin DOMAIN tx[p].writes => View(p)[x] = db[x]
  BY ViewRows
<1> QED
  BY <1>1 DEF Leaves

\* A commit leaves the others what they rely on.
LEMMA CommitLasts ==
    ASSUME Inv, NEW p \in Procs, Busy(p), Leaves(p, db'), WritesFit(p)
    PROVE  /\ \A o \in Procs : o # p => Lasting(o)
           /\ \A x \in DOMAIN db' : x[2] \in Known \/ (x[2] = p /\ p \in Handlers)
<1> DEFINE t == tx[p]
           w == t.writes
<1>1. /\ DOMAIN db' = (DOMAIN w \cup DOMAIN db) \ t.dels
      /\ \A x \in DOMAIN db' : x \in DOMAIN w => db'[x] = w[x]
      /\ \A x \in DOMAIN db' : x \notin DOMAIN w => db'[x] = db[x] /\ x \in DOMAIN db
  BY DEF Leaves
<1>2. DOMAIN w \subseteq t.locks /\ t.dels \subseteq t.locks
  BY DEF Inv, TxFits
<1>3. \A x \in DOMAIN db : x[2] \in Known
  BY DEF Inv
<1>4. p \in Handlers => p \notin Known
  BY StressAssumption DEF Known, Busy, Events
<1>5. \A x \in DOMAIN db' : x[2] \in Known \/ (x[2] = p /\ p \in Handlers)
  BY <1>1, <1>3 DEF WritesFit, KeptKind
<1>6. ASSUME NEW o \in Procs, o # p PROVE Lasting(o)
  <2>1. t.locks \cap (tx[o].locks \cup tx[o].shares) = {} /\ tx[o].locks \cap t.shares = {}
    BY <1>6 DEF Inv, Apart
  <2>2. \A x \in tx[o].locks : x \notin DOMAIN w /\ x \notin t.dels
    BY <1>2, <2>1
  <2>3. \A x \in tx[o].locks : /\ x \in DOMAIN db' <=> x \in DOMAIN db
                               /\ x \in DOMAIN db => db'[x] = db[x]
    BY <1>1, <2>2
  <2>4. \A x \in tx[o].shares : x \in DOMAIN db'
    <3>1. \A x \in tx[o].shares : x \in DOMAIN db /\ x \notin t.dels
      BY <1>2, <1>6, <2>1 DEF Inv, TxFits
    <3> QED
      BY <1>1, <3>1
  <2>5. \A x \in DOMAIN db' : \/ x \in DOMAIN db /\ SameKind(x)
                              \/ x \notin DOMAIN db /\ x[2] \notin Known
    <3> SUFFICES ASSUME NEW x \in DOMAIN db'
                 PROVE  \/ x \in DOMAIN db /\ SameKind(x)
                        \/ x \notin DOMAIN db /\ x[2] \notin Known
      OBVIOUS
    <3>1. CASE x \notin DOMAIN w
      BY <1>1, <3>1 DEF SameKind
    <3>2. CASE x \in DOMAIN w
      <4>1. KeptKind(t, x) \/ (x \notin DOMAIN db /\ x[2] = p /\ p \in Handlers)
        BY <3>2 DEF WritesFit
      <4> QED
        BY <1>1, <1>4, <3>2, <4>1 DEF SameKind, KeptKind
    <3> QED
      BY <3>1, <3>2
  <2>6. \A x \in RowsOf(db', "reservation_seats") :
           IsActive(db'[x].status) /\ SeatRow(db'[x].event) \in tx[o].locks =>
              x \in DOMAIN db /\ IsActive(db[x].status)
    <3> SUFFICES ASSUME NEW x \in DOMAIN db', x[1] = "reservation_seats",
                        IsActive(db'[x].status), SeatRow(db'[x].event) \in tx[o].locks
                 PROVE  x \in DOMAIN db /\ IsActive(db[x].status)
      BY DEF RowsOf
    <3>1. CASE x \notin DOMAIN w
      BY <1>1, <3>1
    <3>2. CASE x \in DOMAIN w
      <4>1. db'[x] = w[x]
        BY <1>1, <3>2
      <4>2. (x \in DOMAIN db /\ IsActive(db[x].status)) \/ SeatRow(w[x].event) \in t.locks
        BY <3>2, <4>1 DEF WritesFit
      <4> QED
        BY <2>1, <4>1, <4>2
    <3> QED
      BY <3>1, <3>2
  <2>7. \A x \in RowsOf(db', "reservations") :
           x \in DOMAIN db \/ EventRow(db'[x].event) \notin tx[o].locks
    <3> SUFFICES ASSUME NEW x \in DOMAIN db', x[1] = "reservations", x \notin DOMAIN db
                 PROVE  EventRow(db'[x].event) \notin tx[o].locks
      BY DEF RowsOf
    <3>1. x \in DOMAIN w /\ db'[x] = w[x]
      BY <1>1
    <3>2. EventRow(w[x].event) \in t.shares
      BY <3>1 DEF WritesFit
    <3> QED
      BY <2>1, <3>1, <3>2
  <2> QED
    BY <2>3, <2>4, <2>5, <2>6, <2>7 DEF Lasting
<1> QED
  BY <1>5, <1>6

\* The rows fit.
LEMMA LeavesFit ==
    ASSUME Inv, NEW p \in Procs, NEW d, Leaves(p, d)
    PROVE  AllFit(d)
<1>1. AllFit(tx[p].writes) /\ AllFit(db)
  BY DEF Inv, TxFits, Whole, Structure
<1> QED
  BY <1>1 DEF Leaves, AllFit

\* Reservations and children that are written in pairs leave the structure whole.
LEMMA PairsLeaveStructure ==
    ASSUME Inv, NEW p \in Procs, NEW d, Leaves(p, d), tx[p].dels = {}, WritesFit(p), PairsFit(p),
           \A x \in DOMAIN tx[p].writes \ DOMAIN db : x[1] \notin Fixtures
    PROVE  Structure(d)
<1> DEFINE w == tx[p].writes
<1>1. /\ DOMAIN d = DOMAIN w \cup DOMAIN db
      /\ \A x \in DOMAIN w : d[x] = w[x]
      /\ \A x \in DOMAIN db \ DOMAIN w : d[x] = db[x]
  BY DEF Leaves
<1>2. AllFit(d) /\ AllFit(db)
  BY LeavesFit DEF Inv, Whole, Structure
<1>3. \A x \in DOMAIN d : /\ x = <<x[1], x[2]>>
                          /\ x[1] = "reservations" => x = ReservationRow(x[2])
                          /\ x[1] = "reservation_items" => x = ItemRow(x[2])
                          /\ x[1] = "reservation_seats" => x = HoldRow(x[2])
  BY <1>2, RowNames DEF AllFit, Fits
<1>4. EventWhole(d)
  <2> SUFFICES ASSUME NEW x \in DOMAIN d, x[1] \in Fixtures
               PROVE  {EventRow(x[2]), TicketRow(x[2]), SeatRow(x[2])} \subseteq DOMAIN d
    BY DEF EventWhole
  <2>1. x \in DOMAIN db
    BY <1>1
  <2>2. {EventRow(x[2]), TicketRow(x[2]), SeatRow(x[2])} \subseteq DOMAIN db
    BY <2>1 DEF Inv, Whole, Structure, EventWhole
  <2> QED
    BY <1>1, <2>2
<1>5. ReservationWhole(d)
  <2> SUFFICES ASSUME NEW r, ReservationRow(r) \in DOMAIN d
               PROVE  LET x == ReservationRow(r)
                          child == ChildIn(d, r)
                      IN  /\ EventRow(d[x].event) \in DOMAIN d /\ child \in DOMAIN d
                          /\ d[child].event = d[x].event /\ d[child].status = d[x].status
    BY <1>3 DEF ReservationWhole, RowsOf
  <2> DEFINE x == ReservationRow(r)
  <2>1. CASE x \in DOMAIN w
    <3>1. PICK child : child = IF w[x].type = "quantity" THEN ItemRow(r) ELSE HoldRow(r)
      OBVIOUS
    <3>2. /\ child \in DOMAIN w /\ w[child].event = w[x].event /\ w[child].status = w[x].status
          /\ EventRow(w[x].event) \in DOMAIN db
      BY <2>1, <3>1 DEF PairsFit
    <3>3. ChildIn(d, r) = child
      BY <1>1, <2>1, <3>1 DEF ChildIn
    <3> QED
      BY <1>1, <2>1, <3>2, <3>3
  <2>2. CASE x \notin DOMAIN w
    <3>1. x \in DOMAIN db /\ d[x] = db[x]
      BY <1>1, <2>2
    <3>2. PICK child : child = ChildRow(r)
      OBVIOUS
    <3>3. /\ child \in DOMAIN db /\ db[child].event = db[x].event
          /\ db[child].status = db[x].status /\ EventRow(db[x].event) \in DOMAIN db
      BY <3>1, <3>2, HoldAndHeader
    <3>4. child \in {ItemRow(r), HoldRow(r)}
      BY <3>2 DEF ChildRow
    <3>5. child \notin DOMAIN w
      BY <2>2, <3>4 DEF PairsFit
    <3>6. ChildIn(d, r) = child
      BY <3>1, <3>2 DEF ChildIn, ChildRow
    <3> QED
      BY <1>1, <3>1, <3>3, <3>5, <3>6
  <2> QED
    BY <2>1, <2>2
<1>6. ChildWhole(d)
  <2> SUFFICES ASSUME NEW x \in DOMAIN d, NEW r,
                      x = ItemRow(r) \/ x = HoldRow(r)
               PROVE  ReservationRow(r) \in DOMAIN d /\ ChildIn(d, r) = x
    BY <1>3 DEF ChildWhole, RowsOf
  <2>1. CASE x \in DOMAIN w
    <3>1. /\ ReservationRow(r) \in DOMAIN w
          /\ x = ItemRow(r) => w[ReservationRow(r)].type = "quantity"
          /\ x = HoldRow(r) => w[ReservationRow(r)].type # "quantity"
      BY <2>1 DEF PairsFit
    <3> QED
      BY <1>1, <3>1 DEF ChildIn
  <2>2. CASE x \notin DOMAIN w
    <3>1. x \in DOMAIN db
      BY <1>1, <2>2
    <3>2. /\ ReservationRow(r) \in DOMAIN db
          /\ x = ItemRow(r) => db[ReservationRow(r)].type = "quantity"
          /\ x = HoldRow(r) => db[ReservationRow(r)].type = "seats"
      BY <3>1, HoldAndHeader
    <3>3. ReservationRow(r) \notin DOMAIN w
      <4> SUFFICES ASSUME ReservationRow(r) \in DOMAIN w PROVE FALSE
        OBVIOUS
      <4>1. w[ReservationRow(r)].type = db[ReservationRow(r)].type
        BY <3>2, RowFacts DEF WritesFit, KeptKind
      <4>2. x \in DOMAIN w
        BY <3>2, <4>1 DEF PairsFit
      <4> QED
        BY <2>2, <4>2
    <3> QED
      BY <1>1, <3>2, <3>3 DEF ChildIn
  <2> QED
    BY <2>1, <2>2
<1> QED
  BY <1>2, <1>4, <1>5, <1>6 DEF Structure

\* The counters of the event e count its units.
CountsAt(d, e) ==
    TicketRow(e) \in DOMAIN d =>
        /\ d[TicketRow(e)].reserved = Cardinality(Units(d, e, "reserved"))
        /\ d[TicketRow(e)].sold = Cardinality(Units(d, e, "confirmed"))
        /\ d[TicketRow(e)].sold + d[TicketRow(e)].reserved <= Total

\* All counters count, one by one.
LEMMA CountedOneByOne ==
    ASSUME NEW d, AllFit(d)
    PROVE  Counted(d) <=> \A e : CountsAt(d, e)
<1>1. \A x \in DOMAIN d : x[1] = "ticket_types" => x = TicketRow(x[2])
  BY RowNames DEF AllFit, Fits
<1>2. \A e : TicketRow(e) \in DOMAIN d => TicketRow(e) \in RowsOf(d, "ticket_types")
  BY RowFacts DEF RowsOf
<1>3. ASSUME Counted(d), NEW e PROVE CountsAt(d, e)
  BY <1>2, <1>3, RowFacts DEF Counted, CountsAt
<1>4. ASSUME \A e : CountsAt(d, e) PROVE Counted(d)
  BY <1>1, <1>4 DEF Counted, CountsAt, RowsOf
<1> QED
  BY <1>3, <1>4

\* So do those of an event whose items and ticket type are left alone.
LEMMA CountsKept ==
    ASSUME Inv, NEW p \in Procs, NEW d, Leaves(p, d), NEW e, TicketRow(e) \notin DOMAIN tx[p].writes,
           \A x \in DOMAIN tx[p].writes \cup tx[p].dels : x[1] = "reservation_items" =>
              /\ x \in DOMAIN db => db[x].event # e
              /\ x \in DOMAIN tx[p].writes => tx[p].writes[x].event # e
    PROVE  CountsAt(d, e)
<1> DEFINE w == tx[p].writes
<1>1. /\ DOMAIN d = (DOMAIN w \cup DOMAIN db) \ tx[p].dels
      /\ \A x \in DOMAIN d : x \in DOMAIN w => d[x] = w[x]
      /\ \A x \in DOMAIN d : x \notin DOMAIN w => d[x] = db[x]
  BY DEF Leaves
<1>2. \A y, s : SameItem(db, d, y, e, s)
  BY <1>1 DEF SameItem, ItemOf, RowsOf
<1>3. \A s : Units(d, e, s) = Units(db, e, s)
  BY <1>2, UnitsKept
<1>4. CountsAt(db, e)
  BY CountedOneByOne DEF Inv, Whole, Structure
<1>5. TicketRow(e) \in DOMAIN d => TicketRow(e) \in DOMAIN db /\ d[TicketRow(e)] = db[TicketRow(e)]
  BY <1>1
<1> QED
  BY <1>3, <1>4, <1>5 DEF CountsAt

\* A seat keeps at most one holder when no hold becomes active.
LEMMA HoldersKept ==
    ASSUME Inv, NEW d,
           \A x \in DOMAIN d : x[1] = "reservation_seats" /\ IsActive(d[x].status) =>
              x \in DOMAIN db /\ IsActive(db[x].status) /\ db[x].event = d[x].event
    PROVE  OneHolder(d)
<1>1. OneHolder(db)
  BY DEF Inv, Whole
<1> QED
  BY <1>1 DEF OneHolder, RowsOf

\* A transaction that wrote and deleted nothing leaves everything whole.
LEMMA NothingWritten ==
    ASSUME Inv, NEW p \in Procs, NEW d, Leaves(p, d), DOMAIN tx[p].writes = {}, tx[p].dels = {}
    PROVE  WritesFit(p) /\ Whole(d)
<1>1. WritesFit(p)
  BY DEF WritesFit
<1>2. PairsFit(p)
  BY DEF PairsFit
<1>3. Structure(d)
  BY <1>1, <1>2, PairsLeaveStructure
<1>4. \A e : CountsAt(d, e)
  BY CountsKept
<1>5. Counted(d)
  BY <1>3, <1>4, CountedOneByOne DEF Structure
<1>6. OneHolder(d)
  BY HoldersKept DEF Leaves
<1> QED
  BY <1>1, <1>3, <1>5, <1>6 DEF Whole

\* What a reservation of units commits.
LEMMA QuantityCommit ==
    ASSUME Inv, NEW h \in Handlers, Runs(h, "quantity"), pc[h] = "commit", NEW d, Leaves(h, d)
    PROVE  WritesFit(h) /\ Whole(d)
<1>0. h \in Procs /\ h \notin Known
  BY OwnRow, RowFacts DEF Procs
<1> DEFINE e == req[h].event
           q == req[h].quantity
           t == tx[h]
           w == t.writes
           ticket == TicketRow(e)
           top == ReservationRow(h)
           item == ItemRow(h)
<1>1. /\ t.dels = {} /\ t.shares = {EventRow(e)}
      /\ DOMAIN w = {ticket, top, item} /\ HasStock(e, q)
      /\ w[ticket] = MovedTicket(db[ticket], "reserved", q)
      /\ w[top].event = e /\ w[top].type = "quantity" /\ w[top].status = "reserved"
      /\ w[item].event = e /\ w[item].quantity = q /\ w[item].status = "reserved"
  <2>1. QuantityFits(h)
    BY DEF Inv, HandlerFits
  <2> QED
    BY <2>1 DEF QuantityFits
<1>2. /\ ticket \in DOMAIN db /\ top \notin DOMAIN db /\ item \notin DOMAIN db
      /\ Total - db[ticket].sold - db[ticket].reserved >= q
  BY <1>1, OwnRow, RowFacts DEF HasStock
<1>3. /\ ticket[1] = "ticket_types" /\ top[1] = "reservations" /\ item[1] = "reservation_items"
      /\ ticket[2] = e /\ top[2] = h /\ item[2] = h
  BY RowFacts
<1>4. /\ q \in Nat /\ DOMAIN db[ticket] = {"event", "sold", "reserved"}
      /\ db[ticket].sold \in Nat /\ db[ticket].reserved \in Nat /\ Total \in Nat
  BY <1>2, <1>3, CommittedRow, WhoRuns, RequestAssumption, StressAssumption DEF Fits, Runs
<1>5. /\ w[ticket].event = db[ticket].event /\ w[ticket].reserved = db[ticket].reserved + q
      /\ w[ticket].sold = db[ticket].sold
  <2>1. PICK old, n, v : old = db[ticket] /\ n = q /\ v = w[ticket]
    OBVIOUS
  <2>2. v = MovedTicket(old, "reserved", n) /\ "reserved" \in Statuses
    BY <1>1, <2>1 DEF Statuses
  <2>3. /\ DOMAIN old = {"event", "sold", "reserved"} /\ old.sold \in Nat /\ old.reserved \in Nat
        /\ n \in Nat
    BY <1>4, <2>1
  <2>4. v.event = old.event /\ v.reserved = old.reserved + n /\ v.sold = old.sold
    BY <2>2, <2>3, TicketMoves
  <2> QED
    BY <2>1, <2>4
<1>6. WritesFit(h)
  <2>1. KeptKind(t, ticket)
    BY <1>2, <1>3, <1>5 DEF KeptKind
  <2> HIDE DEF ticket, top, item, e, q
  <2> QED
    BY <1>1, <1>2, <1>3, <2>1 DEF WritesFit
<1>7. EventRow(e) \in DOMAIN db
  BY <1>2, RowFacts DEF Inv, Whole, Structure, EventWhole, Fixtures
<1>8. PairsFit(h)
  <2> SUFFICES ASSUME NEW r
               PROVE  /\ ReservationRow(r) \in DOMAIN w =>
                            /\ w[ReservationRow(r)].type = "quantity" /\ ItemRow(r) \in DOMAIN w
                            /\ w[ItemRow(r)].event = w[ReservationRow(r)].event
                            /\ w[ItemRow(r)].status = w[ReservationRow(r)].status
                            /\ EventRow(w[ReservationRow(r)].event) \in DOMAIN db
                      /\ ItemRow(r) \in DOMAIN w =>
                            /\ ReservationRow(r) \in DOMAIN w
                            /\ w[ReservationRow(r)].type = "quantity"
                      /\ HoldRow(r) \notin DOMAIN w
    BY DEF PairsFit
  <2>1. ReservationRow(r) \in DOMAIN w \/ ItemRow(r) \in DOMAIN w => r = h
    BY <1>1, RowFacts
  <2>2. HoldRow(r) \notin DOMAIN w
    BY <1>1, RowFacts
  <2> QED
    BY <1>1, <1>7, <2>1, <2>2
<1>9. Structure(d)
  BY <1>0, <1>1, <1>2, <1>3, <1>6, <1>8, PairsLeaveStructure DEF Fixtures
<1>10. AllFit(d) /\ AllFit(db)
  BY <1>9 DEF Structure, Inv, Whole
<1>11. /\ DOMAIN d = DOMAIN w \cup DOMAIN db
       /\ \A x \in DOMAIN w : d[x] = w[x]
       /\ \A x \in DOMAIN db \ DOMAIN w : d[x] = db[x]
  BY <1>1 DEF Leaves
<1>12. \A s, y : y # item => SameItem(db, d, y, e, s)
  <2> SUFFICES ASSUME NEW s, NEW y, y # item PROVE SameItem(db, d, y, e, s)
    OBVIOUS
  <2>1. y \in DOMAIN w => y[1] # "reservation_items"
    BY <1>1, <1>3
  <2>2. y[1] = "reservation_items" => /\ y \in DOMAIN d <=> y \in DOMAIN db
                                      /\ y \in DOMAIN d => d[y] = db[y]
    BY <1>11, <2>1
  <2> QED
    BY <2>2 DEF SameItem, ItemOf, RowsOf
<1>13. ItemOf(d, item, e, "reserved") /\ \A s : ~ItemOf(db, item, e, s)
  BY <1>1, <1>2, <1>3, <1>11 DEF ItemOf, RowsOf
<1>14. ~ItemOf(d, item, e, "confirmed")
  BY <1>1, <1>11 DEF ItemOf
<1>15. Cardinality(Units(d, e, "reserved")) = Cardinality(Units(db, e, "reserved")) + q
  <2>1. d[item].quantity = q
    BY <1>1, <1>11
  <2> HIDE DEF item, e, q
  <2> QED
    BY <1>10, <1>12, <1>13, <2>1, UnitsAdded
<1>16. Units(d, e, "confirmed") = Units(db, e, "confirmed")
  <2>1. \A y : SameItem(db, d, y, e, "confirmed")
    BY <1>12, <1>13, <1>14 DEF SameItem
  <2> HIDE DEF e
  <2> QED
    BY <2>1, UnitsKept
<1>17. CountsAt(d, e)
  <2>1. CountsAt(db, e)
    BY <1>10, CountedOneByOne DEF Inv, Whole
  <2>2. d[ticket] = w[ticket]
    BY <1>1, <1>11
  <2>3. /\ db[ticket].reserved = Cardinality(Units(db, e, "reserved"))
        /\ db[ticket].sold = Cardinality(Units(db, e, "confirmed"))
    BY <1>2, <2>1 DEF CountsAt
  <2>4. /\ d[ticket].reserved = Cardinality(Units(d, e, "reserved"))
        /\ d[ticket].sold = Cardinality(Units(d, e, "confirmed"))
    BY <1>5, <1>15, <1>16, <2>2, <2>3
  <2>5. d[ticket].sold + d[ticket].reserved <= Total
    BY <1>2, <1>4, <1>5, <2>2
  <2> QED
    BY <2>4, <2>5 DEF CountsAt
<1>18. ASSUME NEW f, f # e PROVE CountsAt(d, f)
  <2>1. TicketRow(f) \notin DOMAIN w
    BY <1>1, <1>18, RowFacts
  <2>2. \A x \in DOMAIN w \cup t.dels : x[1] = "reservation_items" =>
           x = item /\ x \notin DOMAIN db /\ w[x].event # f
    BY <1>1, <1>2, <1>3, <1>18
  <2> QED
    BY <1>0, <2>1, <2>2, CountsKept
<1>19. Counted(d)
  BY <1>10, <1>17, <1>18, CountedOneByOne
<1>20. OneHolder(d)
  <2>1. \A x \in DOMAIN d : x[1] = "reservation_seats" => x \in DOMAIN db /\ d[x] = db[x]
    BY <1>1, <1>3, <1>11
  <2> QED
    BY <2>1, HoldersKept
<1> QED
  BY <1>6, <1>9, <1>19, <1>20 DEF Whole

\* What a reservation of seats commits.
LEMMA SeatsCommit ==
    ASSUME Inv, NEW h \in Handlers, Runs(h, "seats"), pc[h] = "commit", NEW d, Leaves(h, d)
    PROVE  WritesFit(h) /\ Whole(d)
<1>0. h \in Procs /\ h \notin Known
  BY OwnRow, RowFacts DEF Procs
<1> DEFINE e == req[h].event
           t == tx[h]
           w == t.writes
           top == ReservationRow(h)
           hold == HoldRow(h)
<1>1. /\ t.dels = {} /\ t.shares = {EventRow(e)} /\ SeatRow(e) \in t.locks
      /\ top \in DOMAIN w /\ hold \in DOMAIN w
      /\ w[top].event = e /\ w[top].type = "seats" /\ w[top].status = "reserved"
      /\ w[hold].event = e /\ w[hold].status = "reserved"
      /\ ActiveHolds(db, e) \subseteq DOMAIN w
      /\ \A x \in DOMAIN w \cap DOMAIN db :
            /\ \/ x = ReservationRow(x[2]) /\ db[x].type = "seats"
               \/ x = HoldRow(x[2])
            /\ Moves(t, ReservationRow(x[2]), "expired")
            /\ Moves(t, HoldRow(x[2]), "expired")
      /\ \A x \in DOMAIN w \ DOMAIN db : x = top \/ x = hold
  <2>1. SeatsFit(h)
    BY DEF Inv, HandlerFits
  <2> QED
    BY <2>1 DEF SeatsFit, LabelsOf
<1>2. /\ top \notin DOMAIN db /\ hold \notin DOMAIN db
      /\ top[1] = "reservations" /\ hold[1] = "reservation_seats" /\ top[2] = h /\ hold[2] = h
  BY OwnRow, RowFacts
<1>3. EventRow(e) \in DOMAIN db
  BY <1>0, <1>1 DEF Inv, TxFits
<1>4. \A x \in DOMAIN w \cap DOMAIN db :
         /\ KeptKind(t, x) /\ w[x].status = "expired"
         /\ x[1] \in {"reservations", "reservation_seats"} /\ x[2] # h
  <2> SUFFICES ASSUME NEW x \in DOMAIN w, x \in DOMAIN db
               PROVE  /\ KeptKind(t, x) /\ w[x].status = "expired"
                      /\ x[1] \in {"reservations", "reservation_seats"} /\ x[2] # h
    OBVIOUS
  <2>1. /\ x = ReservationRow(x[2]) \/ x = HoldRow(x[2])
        /\ Moves(t, ReservationRow(x[2]), "expired") /\ Moves(t, HoldRow(x[2]), "expired")
    BY <1>1
  <2>2. Moves(t, x, "expired") /\ x[1] \in {"reservations", "reservation_seats"}
    BY <2>1, RowFacts
  <2>3. x[1] \notin Fixtures /\ "expired" \in Statuses
    BY <2>2 DEF Fixtures, Statuses
  <2>4. KeptKind(t, x) /\ w[x].status = "expired"
    BY <2>2, <2>3, MovedRow
  <2>5. x[2] \in Known
    BY DEF Inv
  <2> QED
    BY <1>0, <2>2, <2>4, <2>5
<1> HIDE DEF top, hold, e
<1>5. \A x \in DOMAIN w : x \in DOMAIN db \/ x = top \/ x = hold
  BY <1>1
<1>6. WritesFit(h)
  <2>1. \A x \in DOMAIN w : KeptKind(t, x) \/ (x \notin DOMAIN db /\ x[2] = h)
    BY <1>2, <1>4, <1>5
  <2>2. \A x \in DOMAIN w \ DOMAIN db : x[1] = "reservations" => EventRow(w[x].event) \in t.shares
    BY <1>1, <1>2, <1>5
  <2>3. \A x \in DOMAIN w : x[1] = "reservation_seats" /\ IsActive(w[x].status) =>
           SeatRow(w[x].event) \in t.locks
    BY <1>1, <1>2, <1>4, <1>5 DEF IsActive
  <2> QED
    BY <2>1, <2>2, <2>3 DEF WritesFit
<1>7. PairsFit(h)
  <2> SUFFICES ASSUME NEW r
               PROVE  /\ ReservationRow(r) \in DOMAIN w =>
                            /\ w[ReservationRow(r)].type # "quantity" /\ HoldRow(r) \in DOMAIN w
                            /\ w[HoldRow(r)].event = w[ReservationRow(r)].event
                            /\ w[HoldRow(r)].status = w[ReservationRow(r)].status
                            /\ EventRow(w[ReservationRow(r)].event) \in DOMAIN db
                      /\ HoldRow(r) \in DOMAIN w => ReservationRow(r) \in DOMAIN w
                      /\ ItemRow(r) \notin DOMAIN w
    BY DEF PairsFit
  <2>1. ItemRow(r) \notin DOMAIN w
    BY <1>2, <1>4, <1>5, RowFacts
  <2>2. CASE r = h
    BY <1>1, <1>3, <2>1, <2>2 DEF top, hold
  <2>3. ASSUME r # h, ReservationRow(r) \in DOMAIN w \/ HoldRow(r) \in DOMAIN w
        PROVE  /\ ReservationRow(r) \in DOMAIN w /\ HoldRow(r) \in DOMAIN w
               /\ w[ReservationRow(r)].type # "quantity"
               /\ w[HoldRow(r)].event = w[ReservationRow(r)].event
               /\ w[HoldRow(r)].status = w[ReservationRow(r)].status
               /\ EventRow(w[ReservationRow(r)].event) \in DOMAIN db
    <3>1. PICK x : x \in DOMAIN w /\ x[2] = r
      BY <2>3, RowFacts
    <3>2. x \in DOMAIN db
      BY <1>2, <1>5, <2>3, <3>1
    <3>3. /\ ReservationRow(r) \in DOMAIN w /\ HoldRow(r) \in DOMAIN w
          /\ ReservationRow(r) \in DOMAIN db /\ HoldRow(r) \in DOMAIN db
      BY <1>1, <3>1, <3>2 DEF Moves
    <3>4. /\ db[ReservationRow(r)].event = db[HoldRow(r)].event
          /\ db[ReservationRow(r)].type = "seats"
          /\ EventRow(db[ReservationRow(r)].event) \in DOMAIN db
      BY <3>3, HoldAndHeader
    <3>5. /\ KeptKind(t, ReservationRow(r)) /\ w[ReservationRow(r)].status = "expired"
          /\ KeptKind(t, HoldRow(r)) /\ w[HoldRow(r)].status = "expired"
      BY <1>4, <3>3
    <3>6. /\ w[ReservationRow(r)].event = db[ReservationRow(r)].event
          /\ w[ReservationRow(r)].type = db[ReservationRow(r)].type
          /\ w[HoldRow(r)].event = db[HoldRow(r)].event
      BY <3>5, RowFacts DEF KeptKind
    <3> QED
      BY <3>3, <3>4, <3>5, <3>6
  <2> QED
    BY <2>1, <2>2, <2>3
<1>8. Structure(d)
  BY <1>0, <1>1, <1>2, <1>5, <1>6, <1>7, PairsLeaveStructure DEF Fixtures
<1>9. /\ DOMAIN d = DOMAIN w \cup DOMAIN db
      /\ \A x \in DOMAIN w : d[x] = w[x]
      /\ \A x \in DOMAIN db \ DOMAIN w : d[x] = db[x]
  BY <1>1 DEF Leaves
<1>10. Counted(d)
  <2>1. \A x \in DOMAIN w : x[1] # "ticket_types" /\ x[1] # "reservation_items"
    BY <1>2, <1>4, <1>5
  <2>2. \A f : TicketRow(f) \notin DOMAIN w
    BY <2>1, RowFacts
  <2>3. \A f : CountsAt(d, f)
    BY <1>0, <1>1, <2>1, <2>2, CountsKept
  <2> QED
    BY <1>8, <2>3, CountedOneByOne DEF Structure
<1>11. OneHolder(d)
  <2>1. ASSUME NEW x \in DOMAIN d, x[1] = "reservation_seats", IsActive(d[x].status)
        PROVE  x = hold \/ (x \in DOMAIN db /\ d[x] = db[x] /\ d[x].event # e)
    <3>1. CASE x \in DOMAIN w
      BY <1>2, <1>4, <1>5, <1>9, <2>1, <3>1 DEF IsActive
    <3>2. CASE x \notin DOMAIN w
      <4>1. x \in DOMAIN db /\ d[x] = db[x]
        BY <1>9, <3>2
      <4>2. x \notin ActiveHolds(db, e)
        BY <1>1, <3>2
      <4> QED
        BY <2>1, <4>1, <4>2 DEF ActiveHolds, RowsOf
    <3> QED
      BY <3>1, <3>2
  <2>2. OneHolder(db)
    BY DEF Inv, Whole
  <2>3. d[hold].event = e
    BY <1>1, <1>9
  <2> SUFFICES ASSUME NEW x \in DOMAIN d, NEW y \in DOMAIN d, x[1] = "reservation_seats",
                      y[1] = "reservation_seats", d[x].event = d[y].event,
                      IsActive(d[x].status), IsActive(d[y].status)
               PROVE  x = y
    BY DEF OneHolder, RowsOf
  <2>4. /\ x = hold \/ (x \in DOMAIN db /\ d[x] = db[x] /\ d[x].event # e)
        /\ y = hold \/ (y \in DOMAIN db /\ d[y] = db[y] /\ d[y].event # e)
    BY <2>1
  <2>5. CASE x = hold \/ y = hold
    BY <2>3, <2>4, <2>5
  <2>6. CASE x # hold /\ y # hold
    BY <2>2, <2>4, <2>6 DEF OneHolder, RowsOf
  <2> QED
    BY <2>5, <2>6
<1> QED
  BY <1>6, <1>8, <1>10, <1>11 DEF Whole

\* What a transition commits, or a refusal that has only locked its header.
LEMMA LifecycleCommit ==
    ASSUME Inv, NEW p \in Procs, Transits(p), pc[p] = "commit", NEW d, Leaves(p, d)
    PROVE  WritesFit(p) /\ Whole(d)
<1> DEFINE r == loc[p].res
           t == tx[p]
           w == t.writes
           row == ReservationRow(r)
           target == loc[p].target
           e == db[row].event
           ticket == TicketRow(e)
           item == ItemRow(r)
<1>1. t.dels = {}
  BY PartsOf DEF LifecycleFits, TransitionFits
<1>2. CASE DOMAIN w = {}
  BY <1>1, <1>2, NothingWritten
<1>3. CASE DOMAIN w # {}
  <2>1. PICK child : child = ChildRow(r)
    OBVIOUS
  <2>2. /\ row \in DOMAIN db /\ db[row].status = "reserved" /\ target \in Final
        /\ db[row].type = "quantity" => DOMAIN w = {ticket, row, child} /\ StockMoves(t, r, target)
        /\ db[row].type # "quantity" => DOMAIN w = {row, child}
        /\ Moves(t, row, target) /\ Moves(t, child, target)
    <3>1. LifecycleFits(p)
      BY PartsOf
    <3> QED
      BY <1>3, <2>1, <3>1 DEF LifecycleFits, TransitionFits
  <2>3. /\ child \in DOMAIN db /\ db[child].status = "reserved" /\ db[child].event = e
        /\ db[row].type \in {"quantity", "seats"} /\ EventRow(e) \in DOMAIN db
        /\ db[row].type = "quantity" => child = item
        /\ db[row].type # "quantity" => child = HoldRow(r)
    BY <2>1, <2>2, HoldAndHeader DEF ChildRow
  <2>4. /\ row[1] = "reservations" /\ ticket[1] = "ticket_types" /\ item[1] = "reservation_items"
        /\ row[2] = r /\ ticket[2] = e /\ item[2] = r
        /\ child[1] \in {"reservation_items", "reservation_seats"} /\ child[2] = r
    BY <2>3, RowFacts
  <2>5. target \in Statuses
    BY <2>2 DEF Final, Statuses
  <2>6. KeptKind(t, row) /\ w[row].status = target /\ KeptKind(t, child) /\ w[child].status = target
    <3>1. row[1] \notin Fixtures /\ child[1] \notin Fixtures
      BY <2>4 DEF Fixtures
    <3> HIDE DEF row, target, t
    <3> QED
      BY <2>2, <2>5, <3>1, MovedRow DEF t
  <2>7. /\ w[row].event = e /\ w[row].type = db[row].type /\ w[child].event = e
        /\ child = item => w[item].quantity = db[item].quantity
    BY <2>3, <2>4, <2>6 DEF KeptKind
  <2>8. ASSUME db[row].type = "quantity"
        PROVE  /\ ticket \in DOMAIN db /\ w[ticket].event = db[ticket].event
               /\ db[ticket].sold \in Nat /\ db[ticket].reserved \in Nat
               /\ db[item].quantity \in Nat
               /\ w[ticket].reserved = db[ticket].reserved - db[item].quantity
               /\ target = "confirmed" => w[ticket].sold = db[ticket].sold + db[item].quantity
               /\ target # "confirmed" => w[ticket].sold = db[ticket].sold
    <3>1. ticket \in DOMAIN db
      BY <2>3, RowFacts DEF Inv, Whole, Structure, EventWhole, Fixtures
    <3>2. /\ DOMAIN db[ticket] = {"event", "sold", "reserved"}
          /\ db[ticket].sold \in Nat /\ db[ticket].reserved \in Nat
      BY <2>4, <3>1, CommittedRow DEF Fits
    <3>3. db[item].quantity \in Nat
      <4>1. item \in DOMAIN db
        BY <2>3, <2>8
      <4>2. db[item].quantity \in 1..Total
        BY <2>4, <4>1, CommittedRow DEF Fits
      <4> QED
        BY <4>2, StressAssumption
    <3>4. w[ticket] = MovedTicket(db[ticket], target, db[item].quantity)
      BY <2>2, <2>8 DEF StockMoves
    <3>5. PICK old, n, s, v : old = db[ticket] /\ n = db[item].quantity /\ s = target /\ v = w[ticket]
      OBVIOUS
    <3>6. /\ v = MovedTicket(old, s, n) /\ DOMAIN old = {"event", "sold", "reserved"}
          /\ old.sold \in Nat /\ old.reserved \in Nat /\ n \in Nat /\ s \in Statuses
      BY <2>5, <3>2, <3>3, <3>4, <3>5
    <3>7. /\ v.event = old.event
          /\ s = "confirmed" => v.reserved = old.reserved - n /\ v.sold = old.sold + n
          /\ s \in {"cancelled", "expired"} => v.reserved = old.reserved - n /\ v.sold = old.sold
      <4>1. /\ MovedTicket(old, s, n).event = old.event
            /\ s = "confirmed" => /\ MovedTicket(old, s, n).reserved = old.reserved - n
                                  /\ MovedTicket(old, s, n).sold = old.sold + n
            /\ s \in {"cancelled", "expired"} => /\ MovedTicket(old, s, n).reserved = old.reserved - n
                                                 /\ MovedTicket(old, s, n).sold = old.sold
        BY <3>6, TicketMoves
      <4> QED
        BY <3>6, <4>1
    <3>8. s = "confirmed" \/ s \in {"cancelled", "expired"}
      BY <2>2, <3>5 DEF Final
    <3> QED
      BY <3>1, <3>2, <3>3, <3>5, <3>7, <3>8
  <2>9. WritesFit(p)
    <3>1. db[row].type = "quantity" => KeptKind(t, ticket)
      BY <2>4, <2>8 DEF KeptKind
    <3>2. \A x \in DOMAIN w : KeptKind(t, x)
      BY <2>2, <2>6, <3>1
    <3>3. \A x \in DOMAIN w : x[1] = "reservation_seats" => x \in DOMAIN db /\ IsActive(db[x].status)
      BY <2>2, <2>3, <2>4 DEF IsActive
    <3> QED
      BY <3>2, <3>3 DEF WritesFit, KeptKind
  <2> HIDE DEF row, target, e, ticket, item
  <2>10. PairsFit(p)
    <3> SUFFICES ASSUME NEW u
                 PROVE  /\ ReservationRow(u) \in DOMAIN w => u = r
                        /\ ItemRow(u) \in DOMAIN w => u = r /\ db[row].type = "quantity"
                        /\ HoldRow(u) \in DOMAIN w => u = r /\ db[row].type # "quantity"
      <4>1. ReservationRow(r) = row /\ ItemRow(r) = item /\ row \in DOMAIN w /\ child \in DOMAIN w
        BY <2>2 DEF row, item
      <4> QED
        BY <2>3, <2>6, <2>7, <4>1 DEF PairsFit
    <3>1. \A x \in DOMAIN w : \/ x = row \/ x = child \/ x = ticket
      BY <2>2
    <3> QED
      BY <2>3, <2>4, <3>1, RowFacts
  <2>11. Structure(d)
    BY <1>1, <2>9, <2>10, PairsLeaveStructure, <2>2, <2>3, <2>8
  <2>12. AllFit(d) /\ AllFit(db)
    BY <2>11 DEF Structure, Inv, Whole
  <2>13. /\ DOMAIN d = DOMAIN w \cup DOMAIN db
         /\ \A x \in DOMAIN w : d[x] = w[x]
         /\ \A x \in DOMAIN db \ DOMAIN w : d[x] = db[x]
    BY <1>1 DEF Leaves
  <2>14. OneHolder(d)
    <3>1. \A x \in DOMAIN d : x[1] = "reservation_seats" /\ IsActive(d[x].status) =>
             x \in DOMAIN db /\ IsActive(db[x].status) /\ db[x].event = d[x].event
      <4> SUFFICES ASSUME NEW x \in DOMAIN d, x[1] = "reservation_seats", IsActive(d[x].status)
                   PROVE  x \in DOMAIN db /\ IsActive(db[x].status) /\ db[x].event = d[x].event
        OBVIOUS
      <4>1. CASE x \in DOMAIN w
        <5>1. x = child
          BY <2>2, <2>4, <4>1
        <5> QED
          BY <2>3, <2>7, <2>13, <4>1, <5>1 DEF IsActive
      <4>2. CASE x \notin DOMAIN w
        BY <2>13, <4>2
      <4> QED
        BY <4>1, <4>2
    <3> QED
      BY <3>1, HoldersKept
  <2>15. ASSUME NEW f, f # e \/ db[row].type # "quantity" PROVE CountsAt(d, f)
    <3>1. TicketRow(f) \notin DOMAIN w
      BY <2>2, <2>4, <2>15, RowFacts
    <3>2. \A x \in DOMAIN w : x[1] = "reservation_items" =>
             x = child /\ db[x].event # f /\ w[x].event # f
      BY <2>2, <2>3, <2>4, <2>7, <2>15, RowFacts
    <3> QED
      BY <1>1, <3>1, <3>2, CountsKept
  <2>16. ASSUME db[row].type = "quantity" PROVE CountsAt(d, e)
    <3>1. /\ child = item /\ item \in DOMAIN db /\ item \in DOMAIN w /\ d[item] = w[item]
          /\ ticket \in DOMAIN w /\ d[ticket] = w[ticket]
          /\ DOMAIN w = {ticket, row, item}
      BY <2>2, <2>3, <2>13, <2>16
    <3>2. \A s, y : y # item => SameItem(db, d, y, e, s)
      <4> SUFFICES ASSUME NEW s, NEW y, y # item PROVE SameItem(db, d, y, e, s)
        OBVIOUS
      <4>1. y \in DOMAIN w => y[1] # "reservation_items"
        BY <2>4, <3>1
      <4>2. y[1] = "reservation_items" => /\ y \in DOMAIN d <=> y \in DOMAIN db
                                          /\ y \in DOMAIN d => d[y] = db[y]
        BY <2>13, <4>1
      <4> QED
        BY <4>2 DEF SameItem, ItemOf, RowsOf
    <3>3. \A s, y : y # item => SameItem(d, db, y, e, s)
      BY <3>2 DEF SameItem
    <3>4. /\ ItemOf(db, item, e, "reserved") /\ ~ItemOf(db, item, e, "confirmed")
          /\ ~ItemOf(d, item, e, "reserved")
          /\ ItemOf(d, item, e, "confirmed") <=> target = "confirmed"
      BY <2>2, <2>3, <2>4, <2>6, <2>7, <2>13, <3>1 DEF ItemOf, RowsOf, Final
    <3>5. Cardinality(Units(db, e, "reserved")) =
             Cardinality(Units(d, e, "reserved")) + db[item].quantity
      BY <2>12, <3>3, <3>4, UnitsAdded
    <3>6. CASE target = "confirmed"
      <4>1. Cardinality(Units(d, e, "confirmed")) =
               Cardinality(Units(db, e, "confirmed")) + db[item].quantity
        <5>1. d[item].quantity = db[item].quantity
          BY <2>7, <3>1
        <5>2. Cardinality(Units(d, e, "confirmed")) =
                 Cardinality(Units(db, e, "confirmed")) + d[item].quantity
          BY <2>12, <3>2, <3>4, <3>6, UnitsAdded
        <5> QED
          BY <5>1, <5>2
      <4>2. /\ db[ticket].reserved = Cardinality(Units(db, e, "reserved"))
            /\ db[ticket].sold = Cardinality(Units(db, e, "confirmed"))
            /\ db[ticket].sold + db[ticket].reserved <= Total
        <5>1. CountsAt(db, e)
          BY <2>12, CountedOneByOne DEF Inv, Whole
        <5> QED
          BY <2>8, <2>16, <5>1 DEF CountsAt, ticket
      <4>3. Cardinality(Units(d, e, "reserved")) \in Nat
        BY <2>12, UnitsAreFinite
      <4>4. /\ d[ticket].reserved = db[ticket].reserved - db[item].quantity
            /\ d[ticket].sold = db[ticket].sold + db[item].quantity
            /\ db[item].quantity \in Nat /\ db[ticket].reserved \in Nat /\ db[ticket].sold \in Nat
        BY <2>8, <2>16, <3>1, <3>6
      <4>5. d[ticket].reserved = Cardinality(Units(d, e, "reserved"))
        BY <3>5, <4>2, <4>3, <4>4
      <4>6. d[ticket].sold = Cardinality(Units(d, e, "confirmed"))
        BY <4>1, <4>2, <4>4
      <4>7. d[ticket].sold + d[ticket].reserved <= Total
        BY <4>2, <4>4, StressAssumption
      <4> QED
        BY <4>5, <4>6, <4>7 DEF CountsAt, ticket
    <3>7. CASE target # "confirmed"
      <4>1. Units(d, e, "confirmed") = Units(db, e, "confirmed")
        <5>1. \A y : SameItem(db, d, y, e, "confirmed")
          BY <3>2, <3>4, <3>7 DEF SameItem
        <5> QED
          BY <5>1, UnitsKept
      <4>2. /\ db[ticket].reserved = Cardinality(Units(db, e, "reserved"))
            /\ db[ticket].sold = Cardinality(Units(db, e, "confirmed"))
            /\ db[ticket].sold + db[ticket].reserved <= Total
        <5>1. CountsAt(db, e)
          BY <2>12, CountedOneByOne DEF Inv, Whole
        <5> QED
          BY <2>8, <2>16, <5>1 DEF CountsAt, ticket
      <4>3. Cardinality(Units(d, e, "reserved")) \in Nat
        BY <2>12, UnitsAreFinite
      <4>4. /\ d[ticket].reserved = db[ticket].reserved - db[item].quantity
            /\ d[ticket].sold = db[ticket].sold
            /\ db[item].quantity \in Nat /\ db[ticket].reserved \in Nat /\ db[ticket].sold \in Nat
        BY <2>8, <2>16, <3>1, <3>7
      <4>5. d[ticket].reserved = Cardinality(Units(d, e, "reserved"))
        BY <3>5, <4>2, <4>3, <4>4
      <4>6. d[ticket].sold = Cardinality(Units(d, e, "confirmed"))
        BY <4>1, <4>2, <4>4
      <4>7. d[ticket].sold + d[ticket].reserved <= Total
        BY <4>2, <4>4, StressAssumption
      <4> QED
        BY <4>5, <4>6, <4>7 DEF CountsAt, ticket
    <3> QED
      BY <3>6, <3>7
  <2>17. Counted(d)
    BY <2>12, <2>15, <2>16, CountedOneByOne
  <2> QED
    BY <2>9, <2>11, <2>14, <2>17 DEF Whole
<1> QED
  BY <1>2, <1>3

\* What a batch commits.
LEMMA BatchCommit ==
    ASSUME Inv, NEW p \in Workers, pc[p] = "commit", NEW d, Leaves(p, d)
    PROVE  WritesFit(p) /\ Whole(d)
<1> DEFINE t == tx[p]
           w == t.writes
<1>1. /\ p \in Procs /\ AllFit(w) /\ t.dels = {} /\ t.locks = DOMAIN w
      /\ \A x \in DOMAIN w : BatchRow(t, x, 0)
  <2>1. Left(p) = loc[p].todo /\ \A e : OnTheWay(p, e) = 0
    BY DEF Left, OnTheWay
  <2>2. /\ p \in Procs /\ AllFit(w) /\ t.dels = {} /\ t.locks = DOMAIN w \cup Left(p)
        /\ loc[p].todo = {} /\ \A x \in DOMAIN w : BatchRow(t, x, OnTheWay(p, x[2]))
    BY BatchParts
  <2>3. ASSUME NEW x \in DOMAIN w PROVE BatchRow(t, x, 0)
    <3>1. OnTheWay(p, x[2]) = 0
      BY <2>1
    <3>2. PICK n : n = OnTheWay(p, x[2])
      OBVIOUS
    <3>3. BatchRow(t, x, n) /\ n = 0
      BY <2>2, <3>1, <3>2
    <3> QED
      BY <3>3
  <2> QED
    BY <2>1, <2>2, <2>3
<1>2. \A x \in DOMAIN w : x = <<x[1], x[2]>>
  BY <1>1 DEF AllFit, Fits
<1>3. ASSUME NEW x \in DOMAIN w, x[1] # "ticket_types"
      PROVE  /\ x = ReservationRow(x[2]) \/ x = ChildRow(x[2])
             /\ Moves(t, ReservationRow(x[2]), "expired") /\ Moves(t, ChildRow(x[2]), "expired")
             /\ x \in DOMAIN db /\ db[x].status = "reserved" /\ x[1] \notin Fixtures
             /\ KeptKind(t, x) /\ w[x].status = "expired"
             /\ x[1] = "reservation_items" =>
                   x = ItemRow(x[2]) /\ TicketRow(db[x].event) \in DOMAIN w
  <2>1. BatchRow(t, x, 0) /\ x = <<x[1], x[2]>>
    BY <1>1, <1>2
  <2> HIDE DEF t
  <2>2. /\ x = ReservationRow(x[2]) \/ x = ChildRow(x[2])
        /\ Moves(t, ReservationRow(x[2]), "expired") /\ Moves(t, ChildRow(x[2]), "expired")
        /\ x \in DOMAIN db /\ db[x].status = "reserved" /\ x[1] \notin Fixtures
        /\ KeptKind(t, x) /\ t.writes[x].status = "expired"
        /\ x[1] = "reservation_items" =>
              x = ItemRow(x[2]) /\ TicketRow(db[x].event) \in DOMAIN t.writes
    BY <1>3, <2>1, ExpiredRow
  <2> QED
    BY <2>2
<1>4. ASSUME NEW x \in DOMAIN w, x[1] = "ticket_types"
      PROVE  /\ x = TicketRow(x[2]) /\ x \in DOMAIN db /\ w[x].sold = db[x].sold
             /\ w[x].reserved + Cardinality(Units(w, x[2], "expired")) = db[x].reserved
             /\ w[x].reserved \in Nat /\ db[x].reserved \in Nat /\ db[x].sold \in Nat
             /\ KeptKind(t, x)
  <2>1. /\ x = TicketRow(x[2]) /\ x \in DOMAIN db /\ w[x].sold = db[x].sold
        /\ w[x].reserved + Cardinality(Units(w, x[2], "expired")) + 0 = db[x].reserved
    BY <1>1, <1>4, RowFacts DEF BatchRow, ChildRow
  <2>2. Fits(x, w[x]) /\ Fits(x, db[x])
    BY <1>1, <2>1, CommittedRow DEF AllFit
  <2>3. /\ w[x].reserved \in Nat /\ db[x].reserved \in Nat /\ db[x].sold \in Nat
        /\ w[x].event = x[2] /\ db[x].event = x[2]
    BY <1>4, <2>2 DEF Fits, Fixtures
  <2>4. Cardinality(Units(w, x[2], "expired")) \in Nat
    BY <1>1, UnitsAreFinite
  <2>5. KeptKind(t, x)
    BY <1>4, <2>1, <2>3 DEF KeptKind
  <2> QED
    BY <2>1, <2>3, <2>4, <2>5
<1>5. WritesFit(p)
  <2>1. \A x \in DOMAIN w : KeptKind(t, x)
    BY <1>3, <1>4
  <2>2. \A x \in DOMAIN w : x[1] = "reservation_seats" => ~IsActive(w[x].status)
    BY <1>3 DEF IsActive
  <2> QED
    BY <2>1, <2>2 DEF WritesFit, KeptKind
<1>6. ASSUME NEW r
      PROVE  /\ ReservationRow(r) \in DOMAIN w =>
                   /\ ReservationRow(r) \in DOMAIN db /\ ChildRow(r) \in DOMAIN w
                   /\ w[ReservationRow(r)].type = db[ReservationRow(r)].type
                   /\ w[ReservationRow(r)].event = db[ReservationRow(r)].event
                   /\ w[ReservationRow(r)].status = "expired"
                   /\ w[ChildRow(r)].event = db[ReservationRow(r)].event
                   /\ w[ChildRow(r)].status = "expired"
                   /\ EventRow(db[ReservationRow(r)].event) \in DOMAIN db
             /\ \A x \in {ItemRow(r), HoldRow(r)} : x \in DOMAIN w =>
                   ReservationRow(r) \in DOMAIN w /\ x = ChildRow(r)
  <2>1. ASSUME ReservationRow(r) \in DOMAIN w
        PROVE  /\ ReservationRow(r) \in DOMAIN db /\ ChildRow(r) \in DOMAIN w
               /\ w[ReservationRow(r)].type = db[ReservationRow(r)].type
               /\ w[ReservationRow(r)].event = db[ReservationRow(r)].event
               /\ w[ReservationRow(r)].status = "expired"
               /\ w[ChildRow(r)].event = db[ReservationRow(r)].event
               /\ w[ChildRow(r)].status = "expired"
               /\ EventRow(db[ReservationRow(r)].event) \in DOMAIN db
    <3> DEFINE x == ReservationRow(r)
    <3>1. x[1] = "reservations" /\ x[2] = r
      BY RowFacts
    <3>2. /\ Moves(t, ChildRow(r), "expired") /\ KeptKind(t, x) /\ w[x].status = "expired"
      BY <1>3, <2>1, <3>1
    <3>3. PICK y : y = ChildRow(r)
      OBVIOUS
    <3>4. y \in DOMAIN w /\ y[1] # "ticket_types" /\ y[2] = r
      BY <3>2, <3>3, RowFacts DEF Moves, ChildRow
    <3>5. KeptKind(t, y) /\ w[y].status = "expired"
      BY <1>3, <3>4
    <3>6. x \in DOMAIN db /\ db[y].event = db[x].event /\ EventRow(db[x].event) \in DOMAIN db
      BY <3>2, <3>3, HoldAndHeader DEF KeptKind
    <3> QED
      BY <3>1, <3>2, <3>3, <3>4, <3>5, <3>6 DEF KeptKind
  <2>2. ASSUME NEW x \in {ItemRow(r), HoldRow(r)}, x \in DOMAIN w
        PROVE  ReservationRow(r) \in DOMAIN w /\ x = ChildRow(r)
    <3>1. x[1] # "ticket_types" /\ x[2] = r /\ x # ReservationRow(r)
      BY RowFacts
    <3>2. (x = ReservationRow(r) \/ x = ChildRow(r)) /\ Moves(t, ReservationRow(r), "expired")
      BY <1>3, <2>2, <3>1
    <3> QED
      BY <3>1, <3>2 DEF Moves
  <2> QED
    BY <2>1, <2>2
<1>7. PairsFit(p)
  <2> SUFFICES ASSUME NEW r
               PROVE  /\ ReservationRow(r) \in DOMAIN w =>
                            LET child == IF w[ReservationRow(r)].type = "quantity" THEN ItemRow(r)
                                                                                  ELSE HoldRow(r)
                            IN  /\ child \in DOMAIN w
                                /\ w[child].event = w[ReservationRow(r)].event
                                /\ w[child].status = w[ReservationRow(r)].status
                                /\ EventRow(w[ReservationRow(r)].event) \in DOMAIN db
                      /\ ItemRow(r) \in DOMAIN w =>
                            ReservationRow(r) \in DOMAIN w /\ w[ReservationRow(r)].type = "quantity"
                      /\ HoldRow(r) \in DOMAIN w =>
                            ReservationRow(r) \in DOMAIN w /\ w[ReservationRow(r)].type # "quantity"
    BY DEF PairsFit
  <2>1. /\ db[ReservationRow(r)].type = "quantity" => ChildRow(r) = ItemRow(r)
        /\ db[ReservationRow(r)].type # "quantity" => ChildRow(r) = HoldRow(r)
    BY DEF ChildRow
  <2>2. ItemRow(r) # HoldRow(r)
    BY RowFacts
  <2> QED
    BY <1>6, <2>1, <2>2
<1>8. \A x \in DOMAIN w : x \in DOMAIN db
  BY <1>3, <1>4
<1>9. Structure(d)
  BY <1>1, <1>5, <1>7, <1>8, PairsLeaveStructure
<1>10. AllFit(d) /\ AllFit(db)
  BY <1>9 DEF Structure, Inv, Whole
<1>11. /\ DOMAIN d = DOMAIN db
       /\ \A x \in DOMAIN w : d[x] = w[x]
       /\ \A x \in DOMAIN db \ DOMAIN w : d[x] = db[x]
  BY <1>1, <1>8 DEF Leaves
<1>12. OneHolder(d)
  <2>1. \A x \in DOMAIN d : x[1] = "reservation_seats" /\ IsActive(d[x].status) =>
           x \in DOMAIN db /\ IsActive(db[x].status) /\ db[x].event = d[x].event
    BY <1>3, <1>11 DEF IsActive
  <2> QED
    BY <2>1, HoldersKept
<1>13. ASSUME NEW e PROVE CountsAt(d, e)
  <2>1. CASE TicketRow(e) \notin DOMAIN w
    <3>1. \A x \in DOMAIN w \cup t.dels : x[1] = "reservation_items" =>
             /\ x \in DOMAIN db => db[x].event # e
             /\ x \in DOMAIN w => w[x].event # e
      BY <1>1, <1>3, <2>1 DEF KeptKind
    <3> QED
      BY <1>1, <2>1, <3>1, CountsKept
  <2>2. CASE TicketRow(e) \in DOMAIN w
    <3> DEFINE x == TicketRow(e)
               U == Units(w, e, "expired")
               R == Units(d, e, "reserved")
               O == Units(db, e, "reserved")
    <3>1. x[1] = "ticket_types" /\ x[2] = e
      BY RowFacts
    <3>2. /\ x \in DOMAIN db /\ d[x] = w[x] /\ w[x].sold = db[x].sold
          /\ w[x].reserved + Cardinality(U) = db[x].reserved
          /\ w[x].reserved \in Nat /\ db[x].reserved \in Nat /\ db[x].sold \in Nat
      BY <1>4, <1>11, <2>2, <3>1
    <3>3. \A y \in RowsOf(d, "reservation_items") :
             /\ y \in DOMAIN db /\ d[y].event = db[y].event /\ d[y].quantity = db[y].quantity
             /\ y \in DOMAIN w => /\ db[y].status = "reserved" /\ d[y].status = "expired"
                                  /\ w[y] = d[y]
             /\ y \notin DOMAIN w => d[y] = db[y]
      BY <1>3, <1>11 DEF RowsOf, KeptKind
    <3>4. /\ RowsOf(d, "reservation_items") = RowsOf(db, "reservation_items")
          /\ RowsOf(w, "reservation_items") = RowsOf(d, "reservation_items") \cap DOMAIN w
      BY <1>8, <1>11 DEF RowsOf
    <3>5. Units(d, e, "confirmed") = Units(db, e, "confirmed")
      <4>1. \A y : SameItem(db, d, y, e, "confirmed")
        BY <3>3, <3>4 DEF SameItem, ItemOf
      <4> QED
        BY <4>1, UnitsKept
    <3>6. R \cup U = O /\ R \cap U = {}
      <4>1. \A u \in R : u \in O /\ u \notin U
        BY <3>3, <3>4 DEF Units
      <4>2. \A u \in U : u \in O
        BY <3>3, <3>4 DEF Units
      <4>3. \A u \in O : u \in R \/ u \in U
        BY <3>3, <3>4 DEF Units
      <4> QED
        BY <4>1, <4>2, <4>3
    <3>7. /\ IsFiniteSet(R) /\ Cardinality(R) \in Nat /\ IsFiniteSet(U) /\ Cardinality(U) \in Nat
      BY <1>1, <1>10, UnitsAreFinite
    <3>8. /\ db[x].reserved = Cardinality(O)
          /\ db[x].sold = Cardinality(Units(db, e, "confirmed"))
          /\ db[x].sold + db[x].reserved <= Total
      <4>1. CountsAt(db, e)
        BY <1>10, CountedOneByOne DEF Inv, Whole
      <4> QED
        BY <3>2, <4>1 DEF CountsAt
    <3> HIDE DEF R, U, O
    <3>9. Cardinality(R \cup U) = Cardinality(R) + Cardinality(U) - Cardinality(R \cap U)
      BY <3>7, FS_Union
    <3>10. Cardinality(R \cap U) = 0
      BY <3>6, FS_EmptySet
    <3>11. Cardinality(O) = Cardinality(R) + Cardinality(U)
      <4>1. Cardinality(R \cup U) = Cardinality(O)
        BY <3>6
      <4> QED
        BY <3>7, <3>9, <3>10, <4>1
    <3> HIDE DEF x
    <3>12. /\ d[x].reserved = Cardinality(R)
           /\ d[x].sold = Cardinality(Units(d, e, "confirmed"))
           /\ d[x].sold + d[x].reserved <= Total
      BY <3>2, <3>5, <3>7, <3>8, <3>11, StressAssumption
    <3> QED
      BY <3>12 DEF CountsAt, x, R
  <2> QED
    BY <2>1, <2>2
<1>14. Counted(d)
  BY <1>10, <1>13, CountedOneByOne
<1> QED
  BY <1>5, <1>9, <1>12, <1>14 DEF Whole

\* Every row has its event.
LEMMA RowsHaveEvents ==
    ASSUME Inv, NEW x \in DOMAIN db
    PROVE  EventRow(db[x].event) \in DOMAIN db
<1>1. Fits(x, db[x]) /\ x = <<x[1], x[2]>>
  BY CommittedRow
<1>2. CASE x[1] \in Fixtures
  BY <1>1, <1>2 DEF Fits, Inv, Whole, Structure, EventWhole
<1>3. CASE x[1] \notin Fixtures
  <2>1. x = ReservationRow(x[2]) \/ x = ItemRow(x[2]) \/ x = HoldRow(x[2])
    BY <1>1, <1>3, RowNames DEF Fits, Fixtures, Tables
  <2>2. /\ ReservationRow(x[2]) \in DOMAIN db
        /\ db[x].event = db[ReservationRow(x[2])].event
    BY <2>1, HoldAndHeader
  <2> QED
    BY <2>2, HoldAndHeader
<1> QED
  BY <1>2, <1>3

\* What a Seed commits.
LEMMA SeedCommit ==
    ASSUME Inv, NEW h \in Handlers, Runs(h, "seed"), pc[h] = "commit", NEW d, Leaves(h, d)
    PROVE  WritesFit(h) /\ Whole(d)
<1>0. h \in Procs /\ h \notin Known
  BY OwnRow, RowFacts DEF Procs
<1> DEFINE t == tx[h]
           w == t.writes
<1>1. /\ t.dels = {} /\ DOMAIN w = {EventRow(h), TicketRow(h), SeatRow(h)}
      /\ w[TicketRow(h)].sold = 0 /\ w[TicketRow(h)].reserved = 0
  <2>1. SeedFits(h)
    BY DEF Inv, HandlerFits
  <2> QED
    BY <2>1 DEF SeedFits
<1>2. \A x \in DOMAIN w : x \notin DOMAIN db /\ x[2] = h /\ x[1] \in Fixtures
  <2>1. \A x \in DOMAIN w : x[2] = h /\ x[1] \in Fixtures
    BY <1>1, RowFacts DEF Fixtures
  <2> QED
    BY <2>1, OwnRow
<1>3. /\ DOMAIN d = DOMAIN w \cup DOMAIN db
      /\ \A x \in DOMAIN w : d[x] = w[x]
      /\ \A x \in DOMAIN db : d[x] = db[x]
      /\ \A x \in DOMAIN d : x[1] \notin Fixtures => x \in DOMAIN db
  BY <1>1, <1>2 DEF Leaves
<1>4. WritesFit(h)
  BY <1>2 DEF WritesFit, Fixtures
<1>5. AllFit(d)
  BY <1>0, LeavesFit
<1>6. EventWhole(db) /\ ReservationWhole(db) /\ ChildWhole(db) /\ OneHolder(db) /\ AllFit(db)
  BY DEF Inv, Whole, Structure
<1>7. EventWhole(d)
  <2> SUFFICES ASSUME NEW x \in DOMAIN d, x[1] \in Fixtures
               PROVE  {EventRow(x[2]), TicketRow(x[2]), SeatRow(x[2])} \subseteq DOMAIN d
    BY DEF EventWhole
  <2>1. CASE x \in DOMAIN w
    BY <1>1, <1>2, <1>3, <2>1
  <2>2. CASE x \in DOMAIN db
    BY <1>3, <1>6, <2>2 DEF EventWhole
  <2> QED
    BY <1>3, <2>1, <2>2
<1>8. \A r : ReservationRow(r) \in DOMAIN db => ChildIn(d, r) = ChildIn(db, r)
  BY <1>3 DEF ChildIn
<1>9. ReservationWhole(d)
  <2> SUFFICES ASSUME NEW x \in DOMAIN d, x[1] = "reservations"
               PROVE  LET child == ChildIn(d, x[2])
                      IN  /\ EventRow(d[x].event) \in DOMAIN d
                          /\ child \in DOMAIN d
                          /\ d[child].event = d[x].event /\ d[child].status = d[x].status
    BY DEF ReservationWhole, RowsOf
  <2>1. x \in DOMAIN db /\ x = ReservationRow(x[2])
    BY <1>3, CommittedRow, RowNames DEF Fixtures
  <2>2. PICK child : child = ChildIn(db, x[2])
    OBVIOUS
  <2>3. /\ EventRow(db[x].event) \in DOMAIN db /\ child \in DOMAIN db
        /\ db[child].event = db[x].event /\ db[child].status = db[x].status
    BY <1>6, <2>1, <2>2 DEF ReservationWhole, RowsOf
  <2>4. ChildIn(d, x[2]) = child
    BY <1>8, <2>1, <2>2
  <2> QED
    BY <1>3, <2>1, <2>3, <2>4
<1>10. ChildWhole(d)
  <2> SUFFICES ASSUME NEW x \in DOMAIN d, x[1] \in {"reservation_items", "reservation_seats"}
               PROVE  ReservationRow(x[2]) \in DOMAIN d /\ ChildIn(d, x[2]) = x
    BY DEF ChildWhole, RowsOf
  <2>1. x \in DOMAIN db
    BY <1>3 DEF Fixtures
  <2>2. ReservationRow(x[2]) \in DOMAIN db /\ ChildIn(db, x[2]) = x
    BY <1>6, <2>1 DEF ChildWhole, RowsOf
  <2> QED
    BY <1>3, <1>8, <2>2
<1>11. OneHolder(d)
  <2>1. \A x \in DOMAIN d : x[1] = "reservation_seats" => x \in DOMAIN db /\ d[x] = db[x]
    BY <1>3 DEF Fixtures
  <2> QED
    BY <2>1, HoldersKept
<1>12. CountsAt(d, h)
  <2>1. ASSUME NEW s PROVE Units(d, h, s) = {}
    <3> SUFFICES ASSUME NEW x \in DOMAIN d, x[1] = "reservation_items", d[x].event = h
                 PROVE  FALSE
      BY DEF Units, RowsOf
    <3>1. x \in DOMAIN db /\ db[x].event = h
      BY <1>3 DEF Fixtures
    <3>2. EventRow(h) \in DOMAIN db
      BY <3>1, RowsHaveEvents
    <3> QED
      BY <1>1, <1>2, <3>2
  <2>2. Cardinality(Units(d, h, "reserved")) = 0 /\ Cardinality(Units(d, h, "confirmed")) = 0
    BY <2>1, FS_EmptySet
  <2>3. d[TicketRow(h)].sold = 0 /\ d[TicketRow(h)].reserved = 0
    BY <1>1, <1>3
  <2> QED
    BY <2>2, <2>3, StressAssumption DEF CountsAt
<1>13. ASSUME NEW f, f # h PROVE CountsAt(d, f)
  <2>1. TicketRow(f) \notin DOMAIN w
    BY <1>2, <1>13, RowFacts
  <2>2. \A x \in DOMAIN w \cup t.dels : x[1] # "reservation_items"
    BY <1>1, <1>2 DEF Fixtures
  <2> QED
    BY <1>0, <2>1, <2>2, CountsKept
<1>14. Counted(d)
  BY <1>5, <1>12, <1>13, CountedOneByOne
<1> QED
  BY <1>4, <1>5, <1>7, <1>9, <1>10, <1>11, <1>14 DEF Whole, Structure

\* What a Reset commits: the rows of its events are gone, and nothing else.
LEMMA ResetCommit ==
    ASSUME Inv, NEW h \in Handlers, Runs(h, "reset"), pc[h] = "commit", NEW d, Leaves(h, d)
    PROVE  /\ WritesFit(h) /\ Whole(d)
           /\ \A e \in loc[h].answer.events : e \in Known /\ EventRow(e) \notin DOMAIN d
<1>0. h \in Procs
  BY DEF Procs
<1> DEFINE t == tx[h]
           dels == t.dels
           ids == loc[h].ids
<1>1. /\ DOMAIN t.writes = {} /\ ids \subseteq Known
      /\ \A x \in dels : x \in DOMAIN db /\ db[x].event \in ids
      /\ ChildrenGone(dels) /\ EventsGone(h, dels) /\ InventoryGone(dels)
      /\ ReservationsGone(h, dels) /\ loc[h].answer.events = ids
  <2>1. ResetFits(h)
    BY DEF Inv, HandlerFits
  <2>2. pc[h] \notin DeleteStages
    BY DEF DeleteStages
  <2>3. dels \cup {} = dels
    OBVIOUS
  <2> QED
    BY <2>1, <2>2, <2>3 DEF ResetFits
<1>2. /\ DOMAIN d = DOMAIN db \ dels
      /\ \A x \in DOMAIN d : d[x] = db[x]
  BY <1>1 DEF Leaves
<1>3. WritesFit(h)
  BY <1>1 DEF WritesFit
<1>4. AllFit(d)
  BY <1>0, LeavesFit
<1>5. EventWhole(db) /\ ReservationWhole(db) /\ ChildWhole(db) /\ OneHolder(db) /\ AllFit(db)
  BY DEF Inv, Whole, Structure
<1>6. \A e : e \in ids => EventRow(e) \notin DOMAIN d
  BY <1>1, <1>2 DEF EventsGone
<1>7. \A x \in DOMAIN d : db[x].event \notin ids
  <2> SUFFICES ASSUME NEW x \in DOMAIN d, db[x].event \in ids PROVE FALSE
    OBVIOUS
  <2>1. x \in DOMAIN db /\ x \notin dels /\ Fits(x, db[x]) /\ x = <<x[1], x[2]>>
    BY <1>2, CommittedRow
  <2>2. PICK e : e = db[x].event
    OBVIOUS
  <2>3. EventRow(e) \in dels
    BY <1>1, <2>1, <2>2, RowsHaveEvents DEF EventsGone
  <2>4. CASE x[1] \in Fixtures
    <3>1. x[2] = e
      BY <2>1, <2>2, <2>4 DEF Fits
    <3>2. x \in {EventRow(e), TicketRow(e), SeatRow(e)}
      BY <2>1, <2>4, <3>1, RowNames DEF Fixtures
    <3> QED
      BY <1>1, <2>1, <2>3, <3>2, RowFacts DEF InventoryGone
  <2>5. CASE x[1] \notin Fixtures
    <3>1. x = ReservationRow(x[2]) \/ x = ItemRow(x[2]) \/ x = HoldRow(x[2])
      BY <2>1, <2>5, RowNames DEF Fits, Fixtures, Tables
    <3>2. /\ ReservationRow(x[2]) \in DOMAIN db
          /\ db[x].event = db[ReservationRow(x[2])].event
      BY <2>1, <3>1, HoldAndHeader
    <3>3. ReservationRow(x[2]) \in dels
      BY <1>1, <3>2, RowFacts DEF ReservationsGone, RowsOf
    <3> QED
      BY <1>1, <2>1, <3>1, <3>3, RowFacts DEF ChildrenGone
  <2> QED
    BY <2>4, <2>5
<1>8. \A x \in DOMAIN db : db[x].event \notin ids => x \in DOMAIN d
  BY <1>1, <1>2
<1>9. EventWhole(d)
  <2> SUFFICES ASSUME NEW x \in DOMAIN d, x[1] \in Fixtures, NEW y,
                      y \in {EventRow(x[2]), TicketRow(x[2]), SeatRow(x[2])}
               PROVE  y \in DOMAIN d
    BY DEF EventWhole
  <2>1. x \in DOMAIN db /\ db[x].event \notin ids /\ db[x].event = x[2]
    BY <1>2, <1>7, CommittedRow DEF Fits
  <2>2. y \in DOMAIN db
    BY <1>5, <2>1 DEF EventWhole
  <2>3. y[1] \in Fixtures /\ y[2] = x[2]
    BY RowFacts DEF Fixtures
  <2>4. db[y].event = x[2]
    BY <2>2, <2>3, CommittedRow DEF Fits
  <2> QED
    BY <1>8, <2>1, <2>2, <2>4
<1>10. \A r : ReservationRow(r) \in DOMAIN d => ChildIn(d, r) = ChildIn(db, r)
  BY <1>2 DEF ChildIn
<1>11. ReservationWhole(d)
  <2> SUFFICES ASSUME NEW x \in DOMAIN d, x[1] = "reservations"
               PROVE  LET child == ChildIn(d, x[2])
                      IN  /\ EventRow(d[x].event) \in DOMAIN d
                          /\ child \in DOMAIN d
                          /\ d[child].event = d[x].event /\ d[child].status = d[x].status
    BY DEF ReservationWhole, RowsOf
  <2>1. x \in DOMAIN db /\ x = ReservationRow(x[2]) /\ d[x] = db[x] /\ db[x].event \notin ids
    BY <1>2, <1>7, CommittedRow, RowNames
  <2>2. PICK child : child = ChildIn(db, x[2])
    OBVIOUS
  <2>3. /\ EventRow(db[x].event) \in DOMAIN db /\ child \in DOMAIN db
        /\ db[child].event = db[x].event /\ db[child].status = db[x].status
    BY <1>5, <2>1, <2>2 DEF ReservationWhole, RowsOf
  <2>4. ChildIn(d, x[2]) = child
    BY <1>10, <2>1, <2>2
  <2>5. db[EventRow(db[x].event)].event = db[x].event
    <3>1. PICK e : e = db[x].event
      OBVIOUS
    <3>2. EventRow(e)[1] \in Fixtures /\ EventRow(e)[2] = e
      BY RowFacts DEF Fixtures
    <3> QED
      BY <2>3, <3>1, <3>2, CommittedRow DEF Fits
  <2> QED
    BY <1>2, <1>8, <2>1, <2>3, <2>4, <2>5
<1>12. ChildWhole(d)
  <2> SUFFICES ASSUME NEW x \in DOMAIN d, x[1] \in {"reservation_items", "reservation_seats"}
               PROVE  ReservationRow(x[2]) \in DOMAIN d /\ ChildIn(d, x[2]) = x
    BY DEF ChildWhole, RowsOf
  <2>1. x \in DOMAIN db /\ db[x].event \notin ids
    BY <1>2, <1>7
  <2>2. ReservationRow(x[2]) \in DOMAIN db /\ ChildIn(db, x[2]) = x
    BY <1>5, <2>1 DEF ChildWhole, RowsOf
  <2>3. x = ItemRow(x[2]) \/ x = HoldRow(x[2])
    BY <2>1, CommittedRow, RowNames
  <2>4. db[ReservationRow(x[2])].event = db[x].event
    BY <2>1, <2>3, HoldAndHeader
  <2> QED
    BY <1>8, <1>10, <2>1, <2>2, <2>4
<1>13. OneHolder(d)
  BY <1>2, HoldersKept
<1>14. ASSUME NEW f PROVE CountsAt(d, f)
  <2>1. CASE f \in ids
    <3>1. TicketRow(f) \in DOMAIN d => EventRow(f) \in DOMAIN d
      BY <1>9, RowFacts DEF EventWhole, Fixtures
    <3> QED
      BY <1>6, <2>1, <3>1 DEF CountsAt
  <2>2. CASE f \notin ids
    BY <1>0, <1>1, <2>2, CountsKept
  <2> QED
    BY <2>1, <2>2
<1>15. Counted(d)
  BY <1>4, <1>14, CountedOneByOne
<1> QED
  BY <1>1, <1>3, <1>4, <1>6, <1>9, <1>11, <1>12, <1>13, <1>15 DEF Whole, Structure

\* What a transaction commits is whole and fits the others.
LEMMA CommitLeavesWhole ==
    ASSUME Inv, NEW p \in Procs, pc[p] = "commit", NEW d, Leaves(p, d)
    PROVE  /\ WritesFit(p) /\ Whole(d)
           /\ p \in Handlers /\ req[p].op = "reset" =>
                 \A e \in loc[p].answer.events : e \in Known /\ EventRow(e) \notin DOMAIN d
           /\ p \in Handlers => req[p].op # "get"
<1>1. Busy(p)
  BY DEF Busy
<1>2. CASE p \in Workers
  <2>1. p \notin Handlers
    BY <1>2, StressAssumption
  <2> QED
    BY <1>2, <2>1, BatchCommit
<1>3. CASE p \in Handlers
  <2>1. req[p].op \in {"quantity", "seats", "cancel", "confirm", "seed", "reset"}
    BY <1>1, <1>3, WhoRuns DEF LabelsOf
  <2>2. CASE req[p].op = "quantity"
    BY <1>1, <1>3, <2>2, QuantityCommit DEF Runs
  <2>3. CASE req[p].op = "seats"
    BY <1>1, <1>3, <2>3, SeatsCommit DEF Runs
  <2>4. CASE req[p].op \in {"cancel", "confirm"}
    BY <1>1, <1>3, <2>4, LifecycleCommit DEF Runs, Transits
  <2>5. CASE req[p].op = "seed"
    BY <1>1, <1>3, <2>5, SeedCommit DEF Runs
  <2>6. CASE req[p].op = "reset"
    BY <1>1, <1>3, <2>6, ResetCommit DEF Runs
  <2> QED
    BY <2>1, <2>2, <2>3, <2>4, <2>5, <2>6
<1> QED
  BY <1>2, <1>3 DEF Procs

\* A commit, whether or not its acknowledgement arrives.
LEMMA CommitInv ==
    ASSUME Inv, NEW p \in Procs, Commit(p) \/ (p \in Handlers /\ CommitLost(p))
    PROVE  Inv'
<1>1. PICK a : /\ Finish(p, a)
               /\ a = loc[p].answer \/ (p \in Handlers /\ a = [NoAnswer EXCEPT !.code = "FAILED"])
  BY DEF Commit, CommitLost
<1>2. pc[p] = "commit" /\ db' = View(p)
  BY DEF Commit, CommitLost
<1>3. PICK d : d = View(p)
  OBVIOUS
<1>4. Leaves(p, d)
  BY <1>3, ViewLeaves
<1>5. /\ WritesFit(p) /\ Whole(d)
      /\ p \in Handlers /\ req[p].op = "reset" =>
            \A e \in loc[p].answer.events : e \in Known /\ EventRow(e) \notin DOMAIN d
      /\ p \in Handlers => req[p].op # "get"
  BY <1>2, <1>4, CommitLeavesWhole
<1>6. Busy(p)
  BY <1>2 DEF Busy
<1>7. Whole(db') /\ Leaves(p, db') /\ db' = d
  <2>1. db' = d
    BY <1>2, <1>3
  <2> QED
    BY <1>4, <1>5, <2>1
<1>8. /\ \A o \in Procs : o # p => Lasting(o)
      /\ \A x \in DOMAIN db' : x[2] \in Known \/ (x[2] = p /\ p \in Handlers)
  BY <1>5, <1>6, <1>7, CommitLasts
<1>9. ASSUME p \in Handlers
      PROVE  /\ a.code \in {"OK", "REFUSED", "FAILED"} /\ a.failed = {}
             /\ a.code = "OK" => a = loc[p].answer
  <2>1. AnswerFits(p)
    BY <1>9, PartsOf DEF HandlerFits
  <2>2. loc[p].answer.code \in {"OK", "REFUSED"} /\ loc[p].answer.failed = {}
    BY <1>2, <2>1 DEF AnswerFits
  <2> QED
    BY <1>1, <2>2, Answers
<1> QED
  BY <1>1, <1>5, <1>6, <1>7, <1>8, <1>9, Finished

--------------------------------------------------------------------------------
(* The invariant *)

\* The rows there are at the start, table by table.
LEMMA InitialParts ==
    /\ DOMAIN InitialFixtures = {EventRow(e) : e \in Events} \cup {SeatRow(e) : e \in Events}
    /\ \A x \in DOMAIN InitialFixtures : InitialFixtures[x].event = x[2]
    /\ DOMAIN InitialTickets = {TicketRow(e) : e \in Events}
    /\ \A x \in DOMAIN InitialTickets :
          /\ InitialTickets[x].event = x[2]
          /\ DOMAIN InitialTickets[x] = {"event", "sold", "reserved"}
          /\ InitialTickets[x].sold = Cardinality(Units(InitialItems, x[2], "confirmed"))
          /\ InitialTickets[x].reserved = Cardinality(Units(InitialItems, x[2], "reserved"))
    /\ DOMAIN InitialReservations = {ReservationRow(r) : r \in DOMAIN Holds}
    /\ \A x \in DOMAIN InitialReservations :
          /\ InitialReservations[x].event = Holds[x[2]].event
          /\ InitialReservations[x].type = Holds[x[2]].type
          /\ InitialReservations[x].status = Holds[x[2]].status
          /\ InitialReservations[x].expires = Holds[x[2]].expires
          /\ DOMAIN InitialReservations[x] = {"event", "type", "status", "expires"}
    /\ DOMAIN InitialItems = {ItemRow(r) : r \in HoldsOfType("quantity")}
    /\ \A x \in DOMAIN InitialItems :
          /\ InitialItems[x].event = Holds[x[2]].event
          /\ InitialItems[x].quantity = Holds[x[2]].quantity
          /\ InitialItems[x].status = Holds[x[2]].status
          /\ DOMAIN InitialItems[x] = {"event", "quantity", "status"}
    /\ DOMAIN InitialHolds = {HoldRow(r) : r \in HoldsOfType("seats")}
    /\ \A x \in DOMAIN InitialHolds :
          /\ InitialHolds[x].event = Holds[x[2]].event
          /\ InitialHolds[x].status = Holds[x[2]].status
          /\ DOMAIN InitialHolds[x] = {"event", "status", "expires"}
<1>1. /\ DOMAIN InitialFixtures = {EventRow(e) : e \in Events} \cup {SeatRow(e) : e \in Events}
      /\ \A x \in DOMAIN InitialFixtures : InitialFixtures[x].event = x[2]
  BY DEF InitialFixtures
<1>2. /\ DOMAIN InitialTickets = {TicketRow(e) : e \in Events}
      /\ \A x \in DOMAIN InitialTickets :
            /\ InitialTickets[x].event = x[2]
            /\ DOMAIN InitialTickets[x] = {"event", "sold", "reserved"}
            /\ InitialTickets[x].sold = Cardinality(Units(InitialItems, x[2], "confirmed"))
            /\ InitialTickets[x].reserved = Cardinality(Units(InitialItems, x[2], "reserved"))
  BY DEF InitialTickets
<1>3. /\ DOMAIN InitialReservations = {ReservationRow(r) : r \in DOMAIN Holds}
      /\ \A x \in DOMAIN InitialReservations :
            /\ InitialReservations[x].event = Holds[x[2]].event
            /\ InitialReservations[x].type = Holds[x[2]].type
            /\ InitialReservations[x].status = Holds[x[2]].status
            /\ InitialReservations[x].expires = Holds[x[2]].expires
            /\ DOMAIN InitialReservations[x] = {"event", "type", "status", "expires"}
  BY DEF InitialReservations
<1>4. /\ DOMAIN InitialItems = {ItemRow(r) : r \in HoldsOfType("quantity")}
      /\ \A x \in DOMAIN InitialItems :
            /\ InitialItems[x].event = Holds[x[2]].event
            /\ InitialItems[x].quantity = Holds[x[2]].quantity
            /\ InitialItems[x].status = Holds[x[2]].status
            /\ DOMAIN InitialItems[x] = {"event", "quantity", "status"}
  BY DEF InitialItems
<1>5. /\ DOMAIN InitialHolds = {HoldRow(r) : r \in HoldsOfType("seats")}
      /\ \A x \in DOMAIN InitialHolds :
            /\ InitialHolds[x].event = Holds[x[2]].event
            /\ InitialHolds[x].status = Holds[x[2]].status
            /\ DOMAIN InitialHolds[x] = {"event", "status", "expires"}
  BY DEF InitialHolds
<1> QED
  BY <1>1, <1>2, <1>3, <1>4, <1>5

\* The tables of these rows.
LEMMA InitialTables ==
    /\ \A x \in DOMAIN InitialFixtures :
          /\ x = <<x[1], x[2]>> /\ x[1] \in {"events", "seats"} /\ x[2] \in Events
    /\ \A x \in DOMAIN InitialTickets :
          /\ x = <<x[1], x[2]>> /\ x[1] = "ticket_types" /\ x[2] \in Events
    /\ \A x \in DOMAIN InitialReservations :
          /\ x = <<x[1], x[2]>> /\ x[1] = "reservations" /\ x[2] \in DOMAIN Holds
    /\ \A x \in DOMAIN InitialItems :
          /\ x = <<x[1], x[2]>> /\ x[1] = "reservation_items" /\ x[2] \in DOMAIN Holds
          /\ Holds[x[2]].type = "quantity"
    /\ \A x \in DOMAIN InitialHolds :
          /\ x = <<x[1], x[2]>> /\ x[1] = "reservation_seats" /\ x[2] \in DOMAIN Holds
          /\ Holds[x[2]].type = "seats"
<1>1. \A x \in DOMAIN InitialFixtures :
         /\ x = <<x[1], x[2]>> /\ x[1] \in {"events", "seats"} /\ x[2] \in Events
  BY InitialParts DEF EventRow, SeatRow
<1>2. \A x \in DOMAIN InitialTickets :
         /\ x = <<x[1], x[2]>> /\ x[1] = "ticket_types" /\ x[2] \in Events
  BY InitialParts DEF TicketRow
<1>3. \A x \in DOMAIN InitialReservations :
         /\ x = <<x[1], x[2]>> /\ x[1] = "reservations" /\ x[2] \in DOMAIN Holds
  BY InitialParts DEF ReservationRow
<1>4. \A x \in DOMAIN InitialItems :
         /\ x = <<x[1], x[2]>> /\ x[1] = "reservation_items" /\ x[2] \in DOMAIN Holds
         /\ Holds[x[2]].type = "quantity"
  BY InitialParts DEF ItemRow, HoldsOfType
<1>5. \A x \in DOMAIN InitialHolds :
         /\ x = <<x[1], x[2]>> /\ x[1] = "reservation_seats" /\ x[2] \in DOMAIN Holds
         /\ Holds[x[2]].type = "seats"
  BY InitialParts DEF HoldRow, HoldsOfType
<1> QED
  BY <1>1, <1>2, <1>3, <1>4, <1>5

\* All of them together.
LEMMA InitialRowsAre ==
    /\ DOMAIN InitialRows = DOMAIN InitialFixtures \cup DOMAIN InitialTickets
          \cup DOMAIN InitialReservations \cup DOMAIN InitialItems \cup DOMAIN InitialHolds
    /\ \A x \in DOMAIN InitialFixtures : InitialRows[x] = InitialFixtures[x]
    /\ \A x \in DOMAIN InitialTickets : InitialRows[x] = InitialTickets[x]
    /\ \A x \in DOMAIN InitialReservations : InitialRows[x] = InitialReservations[x]
    /\ \A x \in DOMAIN InitialItems : InitialRows[x] = InitialItems[x]
    /\ \A x \in DOMAIN InitialHolds : InitialRows[x] = InitialHolds[x]
<1>1. PICK F, T, R, I, H : /\ F = InitialFixtures /\ T = InitialTickets
                           /\ R = InitialReservations /\ I = InitialItems /\ H = InitialHolds
  OBVIOUS
<1>2. /\ \A x \in DOMAIN F : x[1] \in {"events", "seats"}
      /\ \A x \in DOMAIN T : x[1] = "ticket_types"
      /\ \A x \in DOMAIN R : x[1] = "reservations"
      /\ \A x \in DOMAIN I : x[1] = "reservation_items"
      /\ \A x \in DOMAIN H : x[1] = "reservation_seats"
  BY <1>1, InitialTables
<1>3. PICK P, Q, S, V : P = Patch(I, H) /\ Q = Patch(R, P) /\ S = Patch(T, Q) /\ V = Patch(F, S)
  OBVIOUS
<1>4. InitialRows = V
  BY <1>1, <1>3 DEF InitialRows
<1>5. /\ DOMAIN P = DOMAIN I \cup DOMAIN H
      /\ \A x \in DOMAIN I : P[x] = I[x]
      /\ \A x \in DOMAIN H \ DOMAIN I : P[x] = H[x]
  <2>1. /\ DOMAIN Patch(I, H) = DOMAIN I \cup DOMAIN H
        /\ \A x \in DOMAIN I : Patch(I, H)[x] = I[x]
        /\ \A x \in DOMAIN H \ DOMAIN I : Patch(I, H)[x] = H[x]
    BY PatchRows
  <2> QED
    BY <1>3, <2>1
<1>6. /\ DOMAIN Q = DOMAIN R \cup DOMAIN P
      /\ \A x \in DOMAIN R : Q[x] = R[x]
      /\ \A x \in DOMAIN P \ DOMAIN R : Q[x] = P[x]
  <2>1. /\ DOMAIN Patch(R, P) = DOMAIN R \cup DOMAIN P
        /\ \A x \in DOMAIN R : Patch(R, P)[x] = R[x]
        /\ \A x \in DOMAIN P \ DOMAIN R : Patch(R, P)[x] = P[x]
    BY PatchRows
  <2> QED
    BY <1>3, <2>1
<1>7. /\ DOMAIN S = DOMAIN T \cup DOMAIN Q
      /\ \A x \in DOMAIN T : S[x] = T[x]
      /\ \A x \in DOMAIN Q \ DOMAIN T : S[x] = Q[x]
  <2>1. /\ DOMAIN Patch(T, Q) = DOMAIN T \cup DOMAIN Q
        /\ \A x \in DOMAIN T : Patch(T, Q)[x] = T[x]
        /\ \A x \in DOMAIN Q \ DOMAIN T : Patch(T, Q)[x] = Q[x]
    BY PatchRows
  <2> QED
    BY <1>3, <2>1
<1>8. /\ DOMAIN V = DOMAIN F \cup DOMAIN S
      /\ \A x \in DOMAIN F : V[x] = F[x]
      /\ \A x \in DOMAIN S \ DOMAIN F : V[x] = S[x]
  <2>1. /\ DOMAIN Patch(F, S) = DOMAIN F \cup DOMAIN S
        /\ \A x \in DOMAIN F : Patch(F, S)[x] = F[x]
        /\ \A x \in DOMAIN S \ DOMAIN F : Patch(F, S)[x] = S[x]
    BY PatchRows
  <2> QED
    BY <1>3, <2>1
<1>9. DOMAIN V = DOMAIN F \cup DOMAIN T \cup DOMAIN R \cup DOMAIN I \cup DOMAIN H
  BY <1>5, <1>6, <1>7, <1>8
<1>10. \A x \in DOMAIN T : V[x] = T[x]
  BY <1>2, <1>7, <1>8
<1>11. \A x \in DOMAIN R : V[x] = R[x]
  <2> SUFFICES ASSUME NEW x \in DOMAIN R PROVE V[x] = R[x]
    OBVIOUS
  <2>1. Q[x] = R[x] /\ S[x] = Q[x] /\ V[x] = S[x]
    BY <1>2, <1>6, <1>7, <1>8
  <2> QED
    BY <2>1
<1>12. \A x \in DOMAIN I : V[x] = I[x]
  <2> SUFFICES ASSUME NEW x \in DOMAIN I PROVE V[x] = I[x]
    OBVIOUS
  <2>1. P[x] = I[x] /\ Q[x] = P[x] /\ S[x] = Q[x] /\ V[x] = S[x]
    BY <1>2, <1>5, <1>6, <1>7, <1>8
  <2> QED
    BY <2>1
<1>13. \A x \in DOMAIN H : V[x] = H[x]
  <2> SUFFICES ASSUME NEW x \in DOMAIN H PROVE V[x] = H[x]
    OBVIOUS
  <2>1. P[x] = H[x] /\ Q[x] = P[x] /\ S[x] = Q[x] /\ V[x] = S[x]
    BY <1>2, <1>5, <1>6, <1>7, <1>8
  <2> QED
    BY <2>1
<1> QED
  BY <1>1, <1>4, <1>8, <1>9, <1>10, <1>11, <1>12, <1>13

\* The tables are whole at the start.
LEMMA InitialWhole ==
    /\ Whole(InitialRows)
    /\ \A x \in DOMAIN InitialRows : x[2] \in Events \cup DOMAIN Holds
<1> DEFINE d == InitialRows
<1>1. \A x \in DOMAIN d :
         \/ x \in DOMAIN InitialFixtures \/ x \in DOMAIN InitialTickets
         \/ x \in DOMAIN InitialReservations \/ x \in DOMAIN InitialItems
         \/ x \in DOMAIN InitialHolds
  BY InitialRowsAre
<1>2. \A x \in DOMAIN d : x = <<x[1], x[2]>> /\ x[2] \in Events \cup DOMAIN Holds
  BY <1>1, InitialTables
<1>3. /\ \A x \in DOMAIN d : x[1] \in {"events", "seats"} => x \in DOMAIN InitialFixtures
      /\ \A x \in DOMAIN d : x[1] = "ticket_types" => x \in DOMAIN InitialTickets
      /\ \A x \in DOMAIN d : x[1] = "reservations" => x \in DOMAIN InitialReservations
      /\ \A x \in DOMAIN d : x[1] = "reservation_items" => x \in DOMAIN InitialItems
      /\ \A x \in DOMAIN d : x[1] = "reservation_seats" => x \in DOMAIN InitialHolds
  BY <1>1, InitialTables
<1>4. \A e \in Events : {EventRow(e), TicketRow(e), SeatRow(e)} \subseteq DOMAIN d
  BY InitialParts, InitialRowsAre
<1>5. /\ \A r : ReservationRow(r) \in DOMAIN d <=> r \in DOMAIN Holds
      /\ \A r \in DOMAIN Holds :
            /\ d[ReservationRow(r)].event = Holds[r].event
            /\ d[ReservationRow(r)].type = Holds[r].type
            /\ d[ReservationRow(r)].status = Holds[r].status
      /\ \A r \in DOMAIN Holds : Holds[r].type = "quantity" =>
            /\ ItemRow(r) \in DOMAIN InitialItems /\ ItemRow(r) \in DOMAIN d
            /\ d[ItemRow(r)].event = Holds[r].event /\ d[ItemRow(r)].status = Holds[r].status
      /\ \A r \in DOMAIN Holds : Holds[r].type = "seats" =>
            /\ HoldRow(r) \in DOMAIN InitialHolds /\ HoldRow(r) \in DOMAIN d
            /\ d[HoldRow(r)].event = Holds[r].event /\ d[HoldRow(r)].status = Holds[r].status
  <2>1. \A r : ReservationRow(r) \in DOMAIN d <=> r \in DOMAIN Holds
    <3>1. ASSUME NEW r, ReservationRow(r) \in DOMAIN d PROVE r \in DOMAIN Holds
      BY <1>3, <3>1, InitialTables, RowFacts
    <3>2. ASSUME NEW r \in DOMAIN Holds PROVE ReservationRow(r) \in DOMAIN d
      BY InitialParts, InitialRowsAre
    <3> QED
      BY <3>1, <3>2
  <2>2. ASSUME NEW r \in DOMAIN Holds
        PROVE  /\ d[ReservationRow(r)].event = Holds[r].event
               /\ d[ReservationRow(r)].type = Holds[r].type
               /\ d[ReservationRow(r)].status = Holds[r].status
    <3>1. ReservationRow(r) \in DOMAIN InitialReservations /\ ReservationRow(r)[2] = r
      BY InitialParts, RowFacts
    <3> QED
      BY <3>1, InitialParts, InitialRowsAre
  <2>3. ASSUME NEW r \in DOMAIN Holds, Holds[r].type = "quantity"
        PROVE  /\ ItemRow(r) \in DOMAIN InitialItems /\ ItemRow(r) \in DOMAIN d
               /\ d[ItemRow(r)].event = Holds[r].event /\ d[ItemRow(r)].status = Holds[r].status
    <3>1. ItemRow(r) \in DOMAIN InitialItems /\ ItemRow(r)[2] = r
      BY <2>3, InitialParts, RowFacts DEF HoldsOfType
    <3> QED
      BY <3>1, InitialParts, InitialRowsAre
  <2>4. ASSUME NEW r \in DOMAIN Holds, Holds[r].type = "seats"
        PROVE  /\ HoldRow(r) \in DOMAIN InitialHolds /\ HoldRow(r) \in DOMAIN d
               /\ d[HoldRow(r)].event = Holds[r].event /\ d[HoldRow(r)].status = Holds[r].status
    <3>1. HoldRow(r) \in DOMAIN InitialHolds /\ HoldRow(r)[2] = r
      BY <2>4, InitialParts, RowFacts DEF HoldsOfType
    <3> QED
      BY <3>1, InitialParts, InitialRowsAre
  <2> QED
    BY <2>1, <2>2, <2>3, <2>4
<1>6. \A r \in DOMAIN Holds :
         /\ Holds[r].event \in Events /\ Holds[r].type \in {"quantity", "seats"}
         /\ Holds[r].status \in Statuses /\ Holds[r].expires \in Nat /\ r \notin Handlers
         /\ Holds[r].type = "quantity" => Holds[r].quantity \in 1..Total
  BY HoldsAssumption, StressAssumption DEF Statuses
<1>7. AllFit(InitialItems)
  <2> SUFFICES ASSUME NEW x \in DOMAIN InitialItems PROVE Fits(x, InitialItems[x])
    BY DEF AllFit
  <2>1. x = <<x[1], x[2]>> /\ x[1] = "reservation_items" /\ x[2] \in DOMAIN Holds
        /\ Holds[x[2]].type = "quantity"
    BY InitialTables
  <2>2. /\ DOMAIN InitialItems[x] = {"event", "quantity", "status"}
        /\ InitialItems[x].quantity \in 1..Total /\ InitialItems[x].status \in Statuses
    BY <1>6, <2>1, InitialParts
  <2> QED
    BY <2>1, <2>2 DEF Fits, Tables, Fixtures
<1>8. AllFit(d)
  <2> SUFFICES ASSUME NEW x \in DOMAIN d PROVE Fits(x, d[x])
    BY DEF AllFit
  <2>1. CASE x \in DOMAIN InitialFixtures
    <3>1. x = <<x[1], x[2]>> /\ x[1] \in {"events", "seats"} /\ d[x].event = x[2]
      BY <2>1, InitialTables, InitialParts, InitialRowsAre
    <3> QED
      BY <3>1 DEF Fits, Tables, Fixtures
  <2>2. CASE x \in DOMAIN InitialTickets
    <3>1. /\ x = <<x[1], x[2]>> /\ x[1] = "ticket_types" /\ d[x].event = x[2]
          /\ DOMAIN d[x] = {"event", "sold", "reserved"}
          /\ d[x].sold = Cardinality(Units(InitialItems, x[2], "confirmed"))
          /\ d[x].reserved = Cardinality(Units(InitialItems, x[2], "reserved"))
      BY <2>2, InitialTables, InitialParts, InitialRowsAre
    <3>2. d[x].sold \in Nat /\ d[x].reserved \in Nat
      BY <1>7, <3>1, UnitsAreFinite
    <3> QED
      BY <3>1, <3>2 DEF Fits, Tables, Fixtures
  <2>3. CASE x \in DOMAIN InitialReservations
    <3>1. /\ x = <<x[1], x[2]>> /\ x[1] = "reservations" /\ x[2] \in DOMAIN Holds
          /\ d[x] = InitialReservations[x]
      BY <2>3, InitialTables, InitialRowsAre
    <3>2. /\ DOMAIN d[x] = {"event", "type", "status", "expires"}
          /\ d[x].type = Holds[x[2]].type /\ d[x].status = Holds[x[2]].status
          /\ d[x].expires = Holds[x[2]].expires
      BY <2>3, <3>1, InitialParts
    <3>3. /\ d[x].type \in {"quantity", "seats"} /\ d[x].status \in Statuses
          /\ d[x].expires \in Nat /\ DeadlineFits(x[2], d[x].expires)
      BY <1>6, <3>1, <3>2 DEF DeadlineFits
    <3> QED
      BY <3>1, <3>2, <3>3 DEF Fits, Tables, Fixtures
  <2>4. CASE x \in DOMAIN InitialItems
    BY <1>7, <2>4, InitialRowsAre DEF AllFit
  <2>5. CASE x \in DOMAIN InitialHolds
    <3>1. /\ x = <<x[1], x[2]>> /\ x[1] = "reservation_seats" /\ x[2] \in DOMAIN Holds
          /\ d[x] = InitialHolds[x]
      BY <2>5, InitialTables, InitialRowsAre
    <3>2. DOMAIN d[x] = {"event", "status", "expires"} /\ d[x].status \in Statuses
      BY <1>6, <2>5, <3>1, InitialParts
    <3> QED
      BY <3>1, <3>2 DEF Fits, Tables, Fixtures
  <2> QED
    BY <1>1, <2>1, <2>2, <2>3, <2>4, <2>5
<1>9. EventWhole(d)
  <2> SUFFICES ASSUME NEW x \in DOMAIN d, x[1] \in Fixtures
               PROVE  {EventRow(x[2]), TicketRow(x[2]), SeatRow(x[2])} \subseteq DOMAIN d
    BY DEF EventWhole
  <2>1. x[2] \in Events
    BY <1>3, InitialTables DEF Fixtures
  <2> QED
    BY <1>4, <2>1
<1>10. ReservationWhole(d)
  <2> SUFFICES ASSUME NEW x \in DOMAIN d, x[1] = "reservations"
               PROVE  LET child == ChildIn(d, x[2])
                      IN  /\ EventRow(d[x].event) \in DOMAIN d
                          /\ child \in DOMAIN d
                          /\ d[child].event = d[x].event /\ d[child].status = d[x].status
    BY DEF ReservationWhole, RowsOf
  <2>1. PICK r : r = x[2] /\ x = ReservationRow(r)
    BY <1>2, RowNames
  <2>2. r \in DOMAIN Holds
    BY <1>5, <2>1
  <2>3. /\ d[x].event = Holds[r].event /\ d[x].type = Holds[r].type
        /\ d[x].status = Holds[r].status
    BY <1>5, <2>1, <2>2
  <2>4. EventRow(d[x].event) \in DOMAIN d
    BY <1>4, <1>6, <2>2, <2>3
  <2>5. CASE Holds[r].type = "quantity"
    <3>1. ChildIn(d, r) = ItemRow(r)
      BY <2>1, <2>3, <2>5 DEF ChildIn
    <3> QED
      BY <1>5, <2>1, <2>2, <2>3, <2>4, <2>5, <3>1
  <2>6. CASE Holds[r].type = "seats"
    <3>1. ChildIn(d, r) = HoldRow(r)
      BY <2>1, <2>3, <2>6 DEF ChildIn
    <3> QED
      BY <1>5, <2>1, <2>2, <2>3, <2>4, <2>6, <3>1
  <2> QED
    BY <1>6, <2>2, <2>5, <2>6
<1>11. ChildWhole(d)
  <2> SUFFICES ASSUME NEW x \in DOMAIN d, x[1] \in {"reservation_items", "reservation_seats"}
               PROVE  ReservationRow(x[2]) \in DOMAIN d /\ ChildIn(d, x[2]) = x
    BY DEF ChildWhole, RowsOf
  <2>1. /\ x[2] \in DOMAIN Holds
        /\ x[1] = "reservation_items" => Holds[x[2]].type = "quantity"
        /\ x[1] = "reservation_seats" => Holds[x[2]].type = "seats"
    BY <1>3, InitialTables
  <2>2. /\ x[1] = "reservation_items" => x = ItemRow(x[2])
        /\ x[1] = "reservation_seats" => x = HoldRow(x[2])
    BY <1>2, RowNames
  <2>3. /\ ReservationRow(x[2]) \in DOMAIN d
        /\ d[ReservationRow(x[2])].type = Holds[x[2]].type
    BY <1>5, <2>1
  <2> QED
    BY <2>1, <2>2, <2>3 DEF ChildIn
<1>12. OneHolder(d)
  <2> SUFFICES ASSUME NEW x \in DOMAIN InitialHolds, NEW y \in DOMAIN InitialHolds,
                      d[x].event = d[y].event, IsActive(d[x].status), IsActive(d[y].status)
               PROVE  x = y
    BY <1>3 DEF OneHolder, RowsOf
  <2>1. d[x] = InitialHolds[x] /\ d[y] = InitialHolds[y]
    BY InitialRowsAre
  <2> QED
    BY <2>1, HoldsAssumption
<1>13. ASSUME NEW e, NEW s PROVE Units(d, e, s) = Units(InitialItems, e, s)
  <2>1. \A y : ItemOf(InitialItems, y, e, s) => y \in DOMAIN InitialItems
    BY DEF ItemOf, RowsOf
  <2>2. \A y : ItemOf(d, y, e, s) => y \in DOMAIN InitialItems
    BY <1>3 DEF ItemOf, RowsOf
  <2>3. \A y \in DOMAIN InitialItems : y \in DOMAIN d /\ d[y] = InitialItems[y]
    BY InitialRowsAre
  <2>4. \A y : SameItem(InitialItems, d, y, e, s)
    BY <2>1, <2>2, <2>3 DEF SameItem, ItemOf, RowsOf
  <2> QED
    BY <2>4, UnitsKept
<1>14. Counted(d)
  <2> SUFFICES ASSUME NEW x \in DOMAIN InitialTickets
               PROVE  /\ d[x].reserved = Cardinality(Units(d, x[2], "reserved"))
                      /\ d[x].sold = Cardinality(Units(d, x[2], "confirmed"))
                      /\ d[x].sold + d[x].reserved <= Total
    BY <1>3 DEF Counted, RowsOf
  <2>1. /\ x[2] \in Events
        /\ d[x].sold = Cardinality(Units(InitialItems, x[2], "confirmed"))
        /\ d[x].reserved = Cardinality(Units(InitialItems, x[2], "reserved"))
    BY InitialTables, InitialParts, InitialRowsAre
  <2>2. Cardinality(Units(InitialItems, x[2], "confirmed"))
           + Cardinality(Units(InitialItems, x[2], "reserved")) <= Total
    BY <2>1, HoldsAssumption
  <2>3. d[x].sold + d[x].reserved <= Total
    BY <2>1, <2>2
  <2> QED
    BY <1>13, <2>1, <2>3
<1> QED
  BY <1>2, <1>8, <1>9, <1>10, <1>11, <1>12, <1>14 DEF Whole, Structure

\* The invariant holds at the start.
LEMMA InitInv ==
    ASSUME Init
    PROVE  Inv
<1>1. db = InitialRows /\ now = 0
  BY DEF Init
<1>2. \A p \in Procs : tx[p] = NoTx /\ pc[p] = "idle" /\ loc[p] = NoLocals
  BY DEF Init
<1>3. \A h \in Handlers : resp[h] = NoAnswer
  BY DEF Init
<1>4. /\ DOMAIN tx = Procs /\ DOMAIN pc = Procs /\ DOMAIN loc = Procs
      /\ DOMAIN req = Handlers /\ DOMAIN resp = Handlers
  BY DEF Init
<1>5. Types
  BY <1>1, <1>2, <1>4, BlankTx, BlankLocals DEF Types, Procs, Busy
<1>6. Whole(db) /\ \A x \in DOMAIN db : x[2] \in Known
  BY <1>1, InitialWhole DEF Known
<1>7. \A p \in Procs : TxFits(p) /\ LifecycleFits(p)
  <2> SUFFICES ASSUME NEW p \in Procs PROVE TxFits(p) /\ LifecycleFits(p)
    OBVIOUS
  <2>1. TxFits(p)
    BY <1>2, BlankTx DEF TxFits, AllFit
  <2>2. LifecycleFits(p)
    BY <1>2 DEF LifecycleFits, TransitionFits, BatchFits, Transits, Runs, Busy
  <2> QED
    BY <2>1, <2>2
<1>8. \A p, o \in Procs : p # o => Apart(p, o)
  BY <1>2, BlankTx DEF Apart
<1>9. ASSUME NEW h \in Handlers PROVE HandlerFits(h)
  <2>1. pc[h] = "idle" /\ resp[h] = NoAnswer
    BY <1>2, <1>3 DEF Procs
  <2>2. \A op : ~Runs(h, op)
    BY <2>1 DEF Runs, Busy
  <2>3. AnswerFits(h)
    BY <2>1, Answers DEF AnswerFits, OnlyLate
  <2> QED
    BY <2>1, <2>2, <2>3 DEF HandlerFits, QuantityFits, SeatsFit, SeedFits, ResetFits,
       ReportFits, ReadFits
<1> QED
  BY <1>5, <1>6, <1>7, <1>8, <1>9 DEF Inv

\* Every step keeps the invariant.
LEMMA NextInv ==
    ASSUME Inv, [Next]_vars
    PROVE  Inv'
<1>1. ASSUME NEW h \in Handlers, HandlerStep(h) PROVE Inv'
  <2>1. h \in Procs
    BY DEF Procs
  <2> QED
    BY <1>1, <2>1, BeginInv, QuantityUpdateInv, SeatLockInv, SeatListInv, SeatLockHoldInv,
       SeatExpireInv, HeaderInv, SeatInsertInv, LifecycleLockInv, LifecycleStockInv,
       LifecycleChildInv, GetHeaderInv, GetChildrenInv, SeedInv, ResetListInv, DeleteBeginInv,
       DeleteRowInv, ResetRestrictInv, AssertCheckInv, CommitInv DEF HandlerStep
<1>2. ASSUME NEW w \in Workers, WorkerStep(w) PROVE Inv'
  <2>1. w \in Procs
    BY DEF Procs
  <2> QED
    BY <1>2, <2>1, WorkerScanInv, BatchStockInv, BatchChildInv, CommitInv DEF WorkerStep
<1>3. ASSUME NEW p \in Procs, DeadlockAbort(p) PROVE Inv'
  BY <1>3, AbortInv
<1>4. ASSUME NEW h \in Handlers, Interrupt(h) \/ CommitLost(h) PROVE Inv'
  BY <1>4, AbortInv, CommitInv DEF Procs
<1>5. CASE Tick
  BY <1>5, IdleInv DEF Tick
<1>6. CASE UNCHANGED vars
  BY <1>6, IdleInv DEF vars
<1>7. CASE AllQuiet
  BY <1>6, <1>7 DEF AllQuiet
<1> QED
  BY <1>1, <1>2, <1>3, <1>4, <1>5, <1>6, <1>7 DEF Next

--------------------------------------------------------------------------------
(* Who waits for whom *)

\* A Reset, running or over.
IsReset(o) == o \in Handlers /\ req[o].op = "reset"

\* The order in which the transactions of the reservation service take their rows.  A
\* worker has ticket types of its batch when it asks for the next one.
Level(p) ==
    CASE pc[p] = "s_lock" -> 1
      [] pc[p] \in {"s_lockhold", "l_lock"} -> 2
      [] pc[p] = "s_insert" -> 3
      [] pc[p] = "q_update" -> 4
      [] pc[p] = "l_stock" -> IF p \in Workers THEN 5 ELSE 4
      [] OTHER -> 6

\* The levels, label by label.
LEMMA LevelAt ==
    ASSUME NEW p
    PROVE  /\ Level(p) \in 1..6
           /\ pc[p] = "s_lock" => Level(p) = 1
           /\ pc[p] \in {"s_lockhold", "l_lock"} => Level(p) = 2
           /\ pc[p] = "s_insert" => Level(p) = 3
           /\ pc[p] = "q_update" => Level(p) = 4
           /\ pc[p] = "l_stock" /\ p \in Workers => Level(p) = 5
           /\ pc[p] = "l_stock" /\ p \notin Workers => Level(p) = 4
           /\ pc[p] \in {"s_expire", "header", "l_child"} => Level(p) = 6
BY DEF Level

\* Only processes are waited for.
LEMMA BlockersAreProcs ==
    ASSUME Inv, NEW p \in Procs
    PROVE  Blockers(p) \subseteq Procs
<1>1. \A x : Holders(p, x) \subseteq Procs /\ Sharers(p, x) \subseteq Procs
  BY DEF Holders, Sharers
<1>2. CASE p \in Handlers /\ Busy(p)
  <2>1. pc[p] \in {"q_update", "s_lock", "s_lockhold", "l_lock", "s_expire", "header", "s_insert",
                   "l_stock", "l_child", "restrict", "s_list", "g_header", "g_children", "e_event",
                   "e_ticket", "e_seats", "r_list", "check", "commit"} \cup DeleteStages
    BY <1>2, WhoRuns DEF LabelsOf, ResetLabels
  <2> QED
    BY <1>1, <2>1, BlockersAt
<1>3. CASE p \in Handlers /\ ~Busy(p)
  BY <1>3, BlockersAt DEF Busy
<1>4. CASE p \in Workers
  <2>1. pc[p] \in {"idle", "l_stock", "l_child", "commit"}
    BY <1>4 DEF Inv, Types
  <2> QED
    BY <1>1, <2>1, BlockersAt
<1> QED
  BY <1>2, <1>3, <1>4 DEF Procs

\* Everyone p waits for directly is one it waits for, and so are those they wait for.
LEMMA WaitsForBlockers ==
    ASSUME Inv, NEW p \in Procs
    PROVE  Blockers(p) \subseteq WaitsFor(p) /\ Closed(WaitsFor(p)) /\ WaitsFor(p) \subseteq Procs
<1>1. \A o \in Procs : Blockers(o) \subseteq Procs
  BY BlockersAreProcs
<1>2. WaitsFor(p) \subseteq Procs /\ Blockers(p) \subseteq WaitsFor(p)
  BY <1>1 DEF WaitsFor
<1>3. ASSUME NEW o \in WaitsFor(p), NEW b \in Blockers(o) PROVE b \in WaitsFor(p)
  <2>1. b \in Procs
    BY <1>1, <1>2
  <2>2. ASSUME NEW S \in SUBSET Procs, Blockers(p) \subseteq S, Closed(S) PROVE b \in S
    <3>1. o \in S
      BY <2>2 DEF WaitsFor
    <3> QED
      BY <2>2, <3>1 DEF Closed
  <2> QED
    BY <2>1, <2>2 DEF WaitsFor
<1> QED
  BY <1>2, <1>3 DEF Closed

\* Nobody else is.
LEMMA WaitsForLeast ==
    ASSUME NEW p, NEW S \in SUBSET Procs, Blockers(p) \subseteq S, Closed(S)
    PROVE  WaitsFor(p) \subseteq S
BY DEF WaitsFor

\* Waiting is transitive.
LEMMA WaitsForChain ==
    ASSUME Inv, NEW p \in Procs, NEW o \in WaitsFor(p)
    PROVE  WaitsFor(o) \subseteq WaitsFor(p)
<1>1. PICK S : S = WaitsFor(p)
  OBVIOUS
<1>2. S \in SUBSET Procs /\ Closed(S)
  BY <1>1, WaitsForBlockers
<1>3. Blockers(o) \subseteq S
  BY <1>1, <1>2 DEF Closed
<1>4. WaitsFor(o) \subseteq S
  BY <1>2, <1>3, WaitsForLeast
<1> QED
  BY <1>1, <1>4

\* The labels at which a process of the reservation service may wait.
LEMMA WaitLabels ==
    ASSUME Inv, NEW p \in Procs, ~IsReset(p), Blockers(p) # {}
    PROVE  /\ pc[p] \in {"q_update", "s_lock", "s_lockhold", "l_lock", "s_expire", "header",
                         "s_insert", "l_stock", "l_child"}
           /\ Busy(p)
           /\ p \notin Handlers => p \in Workers /\ pc[p] \in {"l_stock", "l_child"}
<1>1. Busy(p)
  BY BlockersAt DEF Busy
<1>2. CASE p \in Handlers
  <2>1. pc[p] \in LabelsOf(req[p].op) /\ req[p].op # "reset"
    BY <1>1, <1>2, WhoRuns DEF IsReset
  <2>2. pc[p] \in {"q_update", "s_lock", "s_lockhold", "l_lock", "s_expire", "header", "s_insert",
                   "l_stock", "l_child", "s_list", "g_header", "g_children", "e_event",
                   "e_ticket", "e_seats", "check", "commit"}
    BY <1>1, <1>2, <2>1, WhoRuns DEF LabelsOf
  <2> QED
    BY <1>1, <1>2, <2>2, BlockersAt
<1>3. CASE p \notin Handlers
  <2>1. p \in Workers /\ pc[p] \in {"idle", "l_stock", "l_child", "commit"}
    BY <1>3 DEF Inv, Types, Procs
  <2> QED
    BY <1>1, <1>3, <2>1, BlockersAt
<1> QED
  BY <1>2, <1>3

\* The rows a service transaction has while it waits, and how far it is.
LockFits(o, x) ==
    /\ x[1] \in {"seats", "reservations", "ticket_types", "reservation_items",
                 "reservation_seats"}
    /\ x[1] = "seats" => Level(o) > 1
    /\ x[1] = "reservations" => Level(o) > 2
    /\ x[1] = "ticket_types" => Level(o) > 4
    /\ x[1] = "ticket_types" /\ o \notin Workers => Level(o) > 5
    /\ x[1] \in {"reservation_items", "reservation_seats"} =>
          /\ ReservationRow(x[2]) \in tx[o].locks
          /\ o \in Workers => Level(o) > 3
          /\ o \notin Workers /\ x \in DOMAIN db => SeatRow(db[x].event) \in tx[o].locks

\* What a waiting worker has locked.
LEMMA LockedByWorker ==
    ASSUME Inv, NEW o \in Workers, pc[o] \in {"l_stock", "l_child"}, NEW x \in tx[o].locks
    PROVE  LockFits(o, x)
<1> DEFINE t == tx[o]
<1>1. /\ o \in Procs /\ t.locks = DOMAIN t.writes \cup Left(o)
      /\ \A y \in Left(o) : y = ReservationRow(y[2])
      /\ \A y \in DOMAIN t.writes : BatchRow(t, y, OnTheWay(o, y[2]))
  BY BatchParts
<1>2. Level(o) > 4
  BY LevelAt
<1>3. CASE x \in Left(o)
  <2>1. x[1] = "reservations"
    BY <1>1, <1>3, RowFacts
  <2> QED
    BY <1>2, <2>1, LevelAt DEF LockFits
<1>4. CASE x \in DOMAIN t.writes /\ x[1] = "ticket_types"
  BY <1>2, <1>4 DEF LockFits
<1>5. CASE x \in DOMAIN t.writes /\ x[1] # "ticket_types"
  <2>1. PICK n : n = OnTheWay(o, x[2])
    OBVIOUS
  <2>2. BatchRow(t, x, n)
    BY <1>1, <1>5, <2>1
  <2>3. x = <<x[1], x[2]>>
    BY <1>1, PartsOf DEF TxFits
  <2>4. /\ x = ReservationRow(x[2]) \/ x = ChildRow(x[2])
        /\ Moves(t, ReservationRow(x[2]), "expired")
    <3> HIDE DEF t
    <3> QED
      BY <1>5, <2>2, <2>3, ExpiredRow
  <2>5. ReservationRow(x[2]) \in t.locks
    BY <1>1, <2>4 DEF Moves
  <2>6. x[1] \in {"reservations", "reservation_items", "reservation_seats"}
    BY <2>4, RowFacts DEF ChildRow
  <2> QED
    BY <1>2, <2>5, <2>6, LevelAt DEF LockFits
<1> QED
  BY <1>1, <1>3, <1>4, <1>5

\* What a waiting handler of the reservation service has locked.
LEMMA LockedByHandler ==
    ASSUME Inv, NEW o \in Handlers, ~IsReset(o), Blockers(o) # {}, NEW x \in tx[o].locks
    PROVE  LockFits(o, x)
<1>0. o \in Procs /\ o \notin Workers
  BY StressAssumption DEF Procs
<1>1. /\ pc[o] \in {"q_update", "s_lock", "s_lockhold", "l_lock", "s_expire", "header",
                    "s_insert", "l_stock", "l_child"}
      /\ Busy(o)
  BY <1>0, WaitLabels
<1>2. TxFits(o) /\ TransitionFits(o) /\ HandlerFits(o)
  BY <1>0, PartsOf DEF LifecycleFits
<1>3. x = <<x[1], x[2]>>
  BY <1>2 DEF TxFits
<1>4. CASE pc[o] \in {"q_update", "s_lock", "l_lock"}
  BY <1>2, <1>4, BlankTx DEF TxFits, Blank
<1>5. CASE pc[o] \in {"s_lockhold", "s_expire"}
  <2>1. Runs(o, "seats")
    BY <1>0, <1>1, <1>5, WhoRuns DEF Runs
  <2>2. /\ pc[o] = "s_lockhold" => x = SeatRow(req[o].event)
        /\ pc[o] = "s_expire" => x \in {SeatRow(req[o].event), ReservationRow(loc[o].res)}
    BY <1>2, <1>5, <2>1 DEF HandlerFits, SeatsFit, Runs
  <2>3. x[1] = "seats" \/ (x[1] = "reservations" /\ pc[o] = "s_expire")
    BY <1>5, <2>2, RowFacts
  <2> QED
    BY <1>5, <2>3, LevelAt DEF LockFits
<1>6. CASE pc[o] \in {"header", "s_insert"}
  <2>1. Runs(o, "quantity") \/ Runs(o, "seats")
    BY <1>0, <1>1, <1>6, WhoRuns DEF Runs
  <2>2. Level(o) > 2 /\ (pc[o] = "header" => Level(o) = 6)
    BY <1>6, LevelAt
  <2>3. CASE Runs(o, "quantity")
    <3>1. pc[o] = "header"
      BY <1>0, <1>1, <1>6, <2>3, WhoRuns DEF Runs
    <3>2. x = TicketRow(req[o].event)
      BY <1>2, <2>3, <3>1 DEF HandlerFits, QuantityFits, Runs
    <3>3. x[1] = "ticket_types"
      BY <3>2, RowFacts
    <3> QED
      BY <2>2, <3>1, <3>3 DEF LockFits
  <2>4. CASE Runs(o, "seats")
    <3>1. SeatsFit(o)
      BY <1>2, <2>4 DEF HandlerFits, Runs
    <3>2. /\ x[1] \in {"seats", "reservations", "reservation_seats"}
          /\ x = HoldRow(x[2]) => x \in DOMAIN tx[o].writes /\ ReservationRow(x[2]) \in tx[o].locks
          /\ SeatRow(req[o].event) \in tx[o].locks
          /\ \A y \in DOMAIN tx[o].writes \cap DOMAIN db : db[y].event = req[o].event
      BY <1>6, <2>4, <3>1 DEF SeatsFit, LabelsOf
    <3>3. x[1] = "reservation_seats" => x = HoldRow(x[2])
      BY <1>3, RowNames
    <3>4. Level(o) \in 1..6
      BY LevelAt
    <3> QED
      BY <1>0, <2>2, <3>2, <3>3, <3>4 DEF LockFits
  <2> QED
    BY <2>1, <2>3, <2>4
<1>7. CASE pc[o] \in {"l_stock", "l_child"}
  <2>1. Transits(o)
    BY <1>0, <1>1, <1>7, WhoRuns DEF Transits, Runs
  <2>2. PICK row, ticket : /\ row = ReservationRow(loc[o].res)
                           /\ ticket = TicketRow(db[ReservationRow(loc[o].res)].event)
    OBVIOUS
  <2>3. /\ pc[o] = "l_stock" => x = row
        /\ pc[o] = "l_child" => x \in {row, ticket}
    BY <1>2, <1>7, <2>1, <2>2 DEF TransitionFits
  <2>4. row[1] = "reservations" /\ ticket[1] = "ticket_types"
    BY <2>2, RowFacts
  <2>5. Level(o) > 3 /\ (pc[o] = "l_child" => Level(o) = 6)
    BY <1>0, <1>7, LevelAt
  <2>6. Level(o) \in 1..6
    BY LevelAt
  <2>7. x[1] = "reservations" \/ (x[1] = "ticket_types" /\ Level(o) = 6)
    BY <1>7, <2>3, <2>4, <2>5
  <2> QED
    BY <2>5, <2>6, <2>7 DEF LockFits
<1> QED
  BY <1>1, <1>4, <1>5, <1>6, <1>7

\* What a waiting process of the reservation service has locked.
LEMMA LockedWhileWaiting ==
    ASSUME Inv, NEW o \in Procs, ~IsReset(o), Blockers(o) # {}, NEW x \in tx[o].locks
    PROVE  LockFits(o, x)
<1>1. CASE o \in Handlers
  BY <1>1, LockedByHandler
<1>2. CASE o \notin Handlers
  BY <1>2, WaitLabels, LockedByWorker
<1> QED
  BY <1>1, <1>2

\* Between transactions of the reservation service, two workers apart, waiting goes up
\* the levels.
LEMMA WaitsUpward ==
    ASSUME Inv, NEW q \in Procs, NEW o \in Blockers(q), ~IsReset(q), ~IsReset(o), Blockers(o) # {},
           q \in Workers /\ o \in Workers => q = o
    PROVE  Level(o) > Level(q)
<1>1. /\ pc[q] \in {"q_update", "s_lock", "s_lockhold", "l_lock", "s_expire", "header",
                    "s_insert", "l_stock", "l_child"}
      /\ Busy(q)
      /\ q \notin Handlers => q \in Workers /\ pc[q] \in {"l_stock", "l_child"}
  BY WaitLabels
<1>2. o \in Procs
  BY BlockersAreProcs
<1>3. \A x \in tx[o].locks : LockFits(o, x)
  BY <1>2, LockedWhileWaiting
<1>4. \A x : o \in Holders(q, x) => x \in tx[o].locks /\ o # q
  BY DEF Holders
<1>5. o # q => Apart(q, o)
  BY <1>2 DEF Inv
<1>6. TxFits(q) /\ LifecycleFits(q) /\ (q \in Handlers => HandlerFits(q))
  BY PartsOf
<1>7. CASE pc[q] \in {"q_update", "l_stock"}
  <2>1. PICK e : TicketRow(e) \in tx[o].locks /\ o # q
    BY <1>4, <1>7, BlockersAt
  <2>2. Level(o) > 4 /\ (o \notin Workers => Level(o) > 5)
    BY <1>3, <2>1, RowFacts DEF LockFits
  <2>3. Level(q) = 4 \/ (Level(q) = 5 /\ q \in Workers)
    BY <1>7, LevelAt
  <2> QED
    BY <2>1, <2>2, <2>3
<1>8. CASE pc[q] = "s_lock"
  <2>1. SeatRow(req[q].event) \in tx[o].locks
    BY <1>4, <1>8, BlockersAt
  <2> QED
    BY <1>3, <1>8, <2>1, RowFacts, LevelAt DEF LockFits
<1>9. CASE pc[q] \in {"s_lockhold", "l_lock"}
  <2>1. ReservationRow(loc[q].res) \in tx[o].locks
    BY <1>4, <1>9, BlockersAt
  <2> QED
    BY <1>3, <1>9, <2>1, RowFacts, LevelAt DEF LockFits
<1>10. CASE pc[q] = "s_expire"
  <2>1. HoldRow(loc[q].res) \in tx[o].locks /\ o # q
    BY <1>4, <1>10, BlockersAt
  <2>2. ReservationRow(loc[q].res) \in tx[o].locks
    BY <1>3, <2>1, RowFacts DEF LockFits
  <2>3. ReservationRow(loc[q].res) \in tx[q].locks
    BY <1>1, <1>6, <1>10, WhoRuns DEF HandlerFits, SeatsFit, Runs
  <2> QED
    BY <1>5, <2>1, <2>2, <2>3 DEF Apart
<1>11. CASE pc[q] = "header"
  <2>1. EventRow(req[q].event) \in tx[o].locks
    BY <1>4, <1>11, BlockersAt
  <2> QED
    BY <1>3, <2>1, RowFacts DEF LockFits
<1>12. CASE pc[q] = "s_insert"
  <2>1. PICK x \in ActiveHolds(db, req[q].event) : o \in Holders(q, x)
    BY <1>12, BlockersAt
  <2>2. /\ x \in DOMAIN db /\ x[1] = "reservation_seats" /\ db[x].event = req[q].event
        /\ x \in tx[o].locks /\ o # q
    BY <1>4, <2>1 DEF ActiveHolds, RowsOf
  <2>3. CASE o \in Workers
    BY <1>3, <1>12, <2>2, <2>3, LevelAt DEF LockFits
  <2>4. CASE o \notin Workers
    <3>1. SeatRow(req[q].event) \in tx[o].locks
      BY <1>3, <2>2, <2>4 DEF LockFits
    <3>2. SeatRow(req[q].event) \in tx[q].locks
      BY <1>1, <1>6, <1>12, WhoRuns DEF HandlerFits, SeatsFit, Runs, LabelsOf
    <3> QED
      BY <1>5, <2>2, <3>1, <3>2 DEF Apart
  <2> QED
    BY <2>3, <2>4
<1>13. CASE pc[q] = "l_child"
  <2>1. ChildRow(loc[q].res) \in tx[o].locks /\ o # q
    BY <1>4, <1>13, BlockersAt
  <2>2. ChildRow(loc[q].res) \in {ItemRow(loc[q].res), HoldRow(loc[q].res)}
    BY DEF ChildRow
  <2>3. ReservationRow(loc[q].res) \in tx[o].locks
    BY <1>3, <2>1, <2>2, RowFacts DEF LockFits
  <2>4. ReservationRow(loc[q].res) \in tx[q].locks
    <3>1. CASE q \in Handlers
      <4>1. Transits(q)
        BY <1>1, <1>13, <3>1, WhoRuns DEF Transits, Runs
      <4> QED
        BY <1>6, <1>13, <4>1 DEF LifecycleFits, TransitionFits
    <3>2. CASE q \notin Handlers
      <4>1. q \in Workers /\ pc[q] # "idle"
        BY <1>1, <3>2
      <4>2. tx[q].locks = DOMAIN tx[q].writes \cup Left(q)
        BY <4>1, BatchParts
      <4> QED
        BY <1>13, <4>2 DEF Left
    <3> QED
      BY <3>1, <3>2
  <2> QED
    BY <1>5, <2>1, <2>3, <2>4 DEF Apart
<1> QED
  BY <1>1, <1>7, <1>8, <1>9, <1>10, <1>11, <1>12, <1>13

\* A cycle needs a Reset or two workers: without them its levels would go up for ever.
LEMMA CyclesAreOfResetOrWorkers ==
    ASSUME Inv
    PROVE  CyclesNeedResetOrWorkers
<1> SUFFICES ASSUME NEW p \in Procs, p \in WaitsFor(p), Blockers(p) # {},
                    \A o \in WaitsFor(p) \cap Handlers : p \in WaitsFor(o) => req[o].op # "reset",
                    \A v, w \in WaitsFor(p) \cap Workers :
                       p \in WaitsFor(v) /\ p \in WaitsFor(w) => v = w
             PROVE  FALSE
  BY DEF CyclesNeedResetOrWorkers, InWaitCycle
<1>1. WaitsFor(p) \subseteq Procs /\ Blockers(p) \subseteq WaitsFor(p) /\ Closed(WaitsFor(p))
  BY WaitsForBlockers
<1>2. ASSUME NEW o \in WaitsFor(p), p \in WaitsFor(o) PROVE ~IsReset(o) /\ Blockers(o) # {}
  <2>1. Blockers(o) # {}
    <3> SUFFICES ASSUME Blockers(o) = {} PROVE FALSE
      OBVIOUS
    <3>1. {} \in SUBSET Procs /\ Closed({})
      BY DEF Closed
    <3>2. WaitsFor(o) \subseteq {}
      BY <3>1, WaitsForLeast
    <3> QED
      BY <1>2, <3>2
  <2> QED
    BY <1>2, <2>1 DEF IsReset
<1>3. ~IsReset(p)
  BY <1>2
<1>4. \A o : Level(o) \in 1..6
  BY LevelAt
<1> DEFINE S == {o \in WaitsFor(p) : p \notin WaitsFor(o) \/ Level(o) > Level(p)}
<1>5. S \in SUBSET Procs
  BY <1>1
<1>6. Blockers(p) \subseteq S
  <2> SUFFICES ASSUME NEW o \in Blockers(p), p \in WaitsFor(o) PROVE Level(o) > Level(p)
    BY <1>1
  <2>1. o \in WaitsFor(p)
    BY <1>1
  <2>2. ~IsReset(o) /\ Blockers(o) # {}
    BY <1>2, <2>1
  <2>3. p \in Workers /\ o \in Workers => p = o
    BY <2>1
  <2> QED
    BY <1>3, <2>2, <2>3, WaitsUpward
<1>7. Closed(S)
  <2> SUFFICES ASSUME NEW o \in S, NEW b \in Blockers(o) PROVE b \in S
    BY DEF Closed
  <2>1. o \in WaitsFor(p) /\ b \in WaitsFor(p) /\ o \in Procs /\ b \in Procs
    BY <1>1 DEF Closed
  <2> SUFFICES ASSUME p \in WaitsFor(b) PROVE Level(b) > Level(p)
    BY <2>1
  <2>2. b \in WaitsFor(o)
    BY <2>1, WaitsForBlockers
  <2>3. p \in WaitsFor(o)
    BY <2>1, <2>2, WaitsForChain
  <2>4. Level(o) > Level(p)
    BY <2>3
  <2>5. ~IsReset(o) /\ ~IsReset(b) /\ Blockers(b) # {}
    BY <1>2, <2>1, <2>3
  <2>6. o \in Workers /\ b \in Workers => o = b
    BY <2>1, <2>3
  <2>7. Level(b) > Level(o)
    BY <2>1, <2>5, <2>6, WaitsUpward
  <2> QED
    BY <1>4, <2>1, <2>4, <2>7
<1>8. WaitsFor(p) \subseteq S
  <2> HIDE DEF S
  <2> QED
    BY <1>5, <1>6, <1>7, WaitsForLeast
<1> QED
  BY <1>4, <1>8

--------------------------------------------------------------------------------
(* The properties *)

\* The committed rows are whole.
LEMMA InvFixturesWhole ==
    ASSUME Inv
    PROVE  FixturesWhole
<1>1. EventWhole(db) /\ Counted(db)
  BY DEF Inv, Whole, Structure
<1>2. ASSUME NEW x \in DOMAIN db
      PROVE  CASE x[1] = "events" -> {TicketRow(x[2]), SeatRow(x[2])} \subseteq DOMAIN db
               [] x[1] \in {"ticket_types", "seats"} -> EventRow(x[2]) \in DOMAIN db
               [] x[1] = "reservations" ->
                     {EventRow(db[x].event), ChildRow(x[2])} \subseteq DOMAIN db
               [] OTHER -> ReservationRow(x[2]) \in DOMAIN db
  <2>1. Fits(x, db[x]) /\ x = <<x[1], x[2]>>
    BY CommittedRow
  <2>2. CASE x[1] \in Fixtures
    <3>1. {EventRow(x[2]), TicketRow(x[2]), SeatRow(x[2])} \subseteq DOMAIN db
      BY <1>1, <2>2 DEF EventWhole
    <3> QED
      BY <2>2, <3>1 DEF Fixtures
  <2>3. CASE x[1] = "reservations"
    <3>1. x = ReservationRow(x[2])
      BY <2>1, <2>3, RowNames
    <3>2. EventRow(db[x].event) \in DOMAIN db /\ ChildRow(x[2]) \in DOMAIN db
      BY <3>1, HoldAndHeader, RowsHaveEvents
    <3> QED
      BY <2>3, <3>2
  <2>4. CASE x[1] \in {"reservation_items", "reservation_seats"}
    <3>1. x = ItemRow(x[2]) \/ x = HoldRow(x[2])
      BY <2>1, <2>4, RowNames
    <3>2. ReservationRow(x[2]) \in DOMAIN db
      BY <3>1, HoldAndHeader
    <3> QED
      BY <2>4, <3>2
  <2>5. x[1] \in Tables
    BY <2>1 DEF Fits
  <2> QED
    BY <2>2, <2>3, <2>4, <2>5 DEF Tables, Fixtures
<1>3. ASSUME NEW x \in RowsOf(db, "ticket_types")
      PROVE  /\ db[x].reserved = Cardinality(Units(db, x[2], "reserved"))
             /\ db[x].sold = Cardinality(Units(db, x[2], "confirmed"))
  BY <1>1 DEF Counted
<1> QED
  BY <1>2, <1>3 DEF FixturesWhole

\* Answers tell the truth.
LEMMA InvAnswers ==
    ASSUME Inv
    PROVE  ResetIsComplete /\ ResetNeverSeenHalfway /\ NoFalseAlarm
<1>1. \A h \in Handlers : AnswerFits(h)
  BY DEF Inv, HandlerFits
<1>2. ResetIsComplete
  <2> SUFFICES ASSUME NEW h \in Handlers, pc[h] = "done", req[h].op = "reset",
                      resp[h].code = "OK", NEW x \in DOMAIN db
               PROVE  db[x].event \notin resp[h].events
    BY DEF ResetIsComplete
  <2>1. \A e \in resp[h].events : EventRow(e) \notin DOMAIN db
    BY <1>1 DEF AnswerFits
  <2> QED
    BY <2>1, RowsHaveEvents
<1>3. ResetNeverSeenHalfway
  BY <1>1 DEF ResetNeverSeenHalfway, AnswerFits
<1>4. NoFalseAlarm
  BY <1>1 DEF NoFalseAlarm, AnswerFits, OnlyLate, IsLate
<1> QED
  BY <1>2, <1>3, <1>4

\* The tables change only when a transaction commits.
LEMMA OnlyCommitsChangeTables ==
    ASSUME [Next]_vars
    PROVE  db' = db \/ \E p \in Procs : pc[p] = "commit" /\ db' = View(p)
<1>1. ASSUME NEW h \in Handlers, HandlerStep(h)
      PROVE  db' = db \/ (pc[h] = "commit" /\ db' = View(h))
  <2>1. CASE BeginRequest(h)
    BY <2>1 DEF BeginRequest
  <2>2. CASE QuantityUpdate(h) \/ SeatLock(h) \/ SeatList(h) \/ SeatLockHold(h) \/ SeatExpire(h)
    BY <2>2 DEF QuantityUpdate, SeatLock, SeatList, SeatLockHold, SeatExpire, Continue, Fail
  <2>3. CASE Header(h) \/ SeatInsert(h)
    BY <2>3 DEF Header, SeatInsert, Continue, Fail
  <2>4. CASE LifecycleLock(h) \/ LifecycleStock(h) \/ LifecycleChild(h)
    BY <2>4 DEF LifecycleLock, LifecycleStock, LifecycleChild, StartTransition,
       NextOfBatch, Continue, Fail
  <2>5. CASE GetHeader(h) \/ GetChildren(h)
    BY <2>5 DEF GetHeader, GetChildren, Continue, Fail
  <2>6. CASE SeedEvent(h) \/ SeedTicket(h) \/ SeedSeats(h)
    BY <2>6 DEF SeedEvent, SeedTicket, SeedSeats, Continue
  <2>7. CASE ResetList(h) \/ DeleteBegin(h) \/ DeleteRow(h) \/ ResetRestrict(h)
    BY <2>7 DEF ResetList, DeleteBegin, DeleteRow, DeleteGoesOn, ResetRestrict, Continue, Fail
  <2>8. CASE AssertCheck(h)
    BY <2>8 DEF AssertCheck, Continue
  <2>9. CASE Commit(h)
    BY <2>9 DEF Commit
  <2> QED
    BY <1>1, <2>1, <2>2, <2>3, <2>4, <2>5, <2>6, <2>7, <2>8, <2>9 DEF HandlerStep
<1>2. ASSUME NEW w \in Workers, WorkerStep(w)
      PROVE  db' = db \/ (pc[w] = "commit" /\ db' = View(w))
  BY <1>2 DEF WorkerStep, WorkerScan, LifecycleStock, LifecycleChild, Commit, NextOfBatch,
     Continue, Fail
<1>3. ASSUME NEW p \in Procs, DeadlockAbort(p) PROVE db' = db
  BY <1>3 DEF DeadlockAbort, Fail
<1>4. ASSUME NEW h \in Handlers, Interrupt(h) \/ CommitLost(h)
      PROVE  db' = db \/ (pc[h] = "commit" /\ db' = View(h))
  BY <1>4 DEF Interrupt, CommitLost, Fail
<1>5. CASE Tick \/ AllQuiet \/ UNCHANGED vars
  BY <1>5 DEF Tick, AllQuiet, vars
<1> QED
  BY <1>1, <1>2, <1>3, <1>4, <1>5 DEF Next, Procs

\* Only a Reset deletes, and only rows of the events it has listed.
LEMMA OnlyListedRowsGo ==
    ASSUME Inv, [Next]_vars, NEW x \in DOMAIN db \ DOMAIN db'
    PROVE  local /\ db[x].event \notin ManualEvents \ Lookalikes
<1>1. PICK p \in Procs : pc[p] = "commit" /\ db' = View(p)
  BY OnlyCommitsChangeTables
<1>2. x \in tx[p].dels
  <2>1. DOMAIN View(p) = (DOMAIN tx[p].writes \cup DOMAIN db) \ tx[p].dels
    BY ViewRows
  <2> QED
    BY <1>1, <2>1
<1>3. Busy(p)
  BY <1>1 DEF Busy
<1>4. ~Transits(p) /\ p \notin Workers
  <2>1. LifecycleFits(p)
    BY PartsOf
  <2> QED
    BY <1>1, <1>2, <2>1 DEF LifecycleFits, TransitionFits, BatchFits
<1>5. p \in Handlers /\ HandlerFits(p)
  BY <1>4, PartsOf DEF Procs
<1>6. req[p].op = "reset"
  <2>1. req[p].op \in {"quantity", "seats", "cancel", "confirm", "seed", "reset"}
    BY <1>1, <1>3, <1>5, WhoRuns DEF LabelsOf
  <2>2. req[p].op # "quantity"
    BY <1>1, <1>2, <1>3, <1>5 DEF HandlerFits, QuantityFits, Runs
  <2>3. req[p].op # "seats"
    BY <1>1, <1>2, <1>3, <1>5 DEF HandlerFits, SeatsFit, Runs, LabelsOf
  <2>4. req[p].op \notin {"cancel", "confirm"}
    BY <1>3, <1>4, <1>5 DEF Transits, Runs
  <2>5. req[p].op # "seed"
    BY <1>1, <1>2, <1>3, <1>5 DEF HandlerFits, SeedFits, Runs
  <2> QED
    BY <2>1, <2>2, <2>3, <2>4, <2>5
<1>7. local
  BY <1>3, <1>5, <1>6 DEF Inv, Types, AdminOps
<1>8. loc[p].ids \cap (ManualEvents \ Lookalikes) = {} /\ db[x].event \in loc[p].ids
  BY <1>2, <1>3, <1>5, <1>6, ResetParts
<1> QED
  BY <1>7, <1>8

\* The committed rows and the processes fit together (the inductive invariant).
THEOREM StressInvariant == Spec => []Inv
<1>1. Init => Inv
  BY InitInv
<1>2. Inv /\ [Next]_vars => Inv'
  BY NextInv
<1> QED
  BY <1>1, <1>2, PTL DEF Spec

\* Whatever Seed, Reset, the reservation requests and the workers do at the same time,
\* what is committed is whole: no event without inventory, no reservation without its
\* event and child, no orphan, and counters that count the items there are.
THEOREM FixturesAreWhole == Spec => []FixturesWhole
<1>1. Inv => FixturesWhole
  BY InvFixturesWhole
<1> QED
  BY <1>1, StressInvariant, PTL

\* Once Reset has answered 200, no row of an event it listed exists or comes back.
THEOREM ResetsAreComplete == Spec => []ResetIsComplete
<1>1. Inv => ResetIsComplete
  BY InvAnswers
<1> QED
  BY <1>1, StressInvariant, PTL

\* No request runs into a half-done Reset: neither a broken invariant nor a foreign
\* key violation, and GetReservation shows no children only if the reservation is gone.
THEOREM ResetsAreAtomic == Spec => []ResetNeverSeenHalfway
<1>1. Inv => ResetNeverSeenHalfway
  BY InvAnswers
<1> QED
  BY <1>1, StressInvariant, PTL

\* assert-consistency, which reads moving tables query by query, reports nothing but
\* reservations whose own deadline is past by more than the tolerance.
THEOREM ReportsAreSound == Spec => []NoFalseAlarm
<1>1. Inv => NoFalseAlarm
  BY InvAnswers
<1> QED
  BY <1>1, StressInvariant, PTL

\* Where every request takes one seat at most and has a key of its own, every wait cycle
\* has a Reset or two workers in it, whatever the number of handlers and workers and
\* the size of a batch: the others take seats, headers, ticket types and children in
\* this order.
THEOREM EveryCycleHasResetOrWorkers == Spec => []CyclesNeedResetOrWorkers
<1>1. Inv => CyclesNeedResetOrWorkers
  BY CyclesAreOfResetOrWorkers
<1> QED
  BY <1>1, StressInvariant, PTL

\* Rows are deleted only in a local environment, and only those of events whose name
\* matches the LIKE pattern of ListStressEventIDs.
THEOREM OnlyMatchingRowsGo ==
    Spec => [][\A x \in DOMAIN db \ DOMAIN db' :
                  local /\ db[x].event \notin ManualEvents \ Lookalikes]_vars
<1>1. Inv /\ [Next]_vars =>
         [\A x \in DOMAIN db \ DOMAIN db' :
             local /\ db[x].event \notin ManualEvents \ Lookalikes]_vars
  BY OnlyListedRowsGo
<1> QED
  BY <1>1, StressInvariant, PTL DEF Spec

\* "manual events created while exploring the API are not deleted accidentally": so it is
\* as long as no manual event has a name that the pattern mistakes for the prefix.
THEOREM ManualRowsAreKept ==
    ASSUME Lookalikes = {}
    PROVE  Spec => ManualRowsStay
<1>1. Inv /\ [Next]_vars =>
         [\A x \in DOMAIN db \ DOMAIN db' : local /\ db[x].event \notin ManualEvents]_vars
  BY OnlyListedRowsGo
<1> QED
  BY <1>1, StressInvariant, PTL DEF Spec, ManualRowsStay

================================================================================
