------------------------- MODULE EventCatalogProofs ----------------------------
(***************************************************************************)
(* Proofs about the event catalogue.                                       *)
(*                                                                         *)
(* No operation of the catalogue is a transaction, so everything an        *)
(* operation has read may be gone when it goes on.  The argument is that   *)
(* an event that is deleted never comes back (Known): what was true of the *)
(* rows of an event when they were read stays true as long as the event    *)
(* exists.                                                                 *)
(***************************************************************************)
EXTENDS EventCatalog, TLAPS

Answered(h) == pc[h] = "done"

\* The events that exist or existed: a handler's event is inserted when it
\* answers.
Known == GivenEvents \cup {h \in Handlers : Answered(h)}

\* The columns of an answer, and of the answer so far.
IsAnswer(a) == DOMAIN a = {"code", "todo", "tickets", "seats"}

Labels ==
    {"idle", "done", "get_event", "insert_event", "insert_ticket", "insert_seat",
     "list_tickets", "list_seats"}

\* The labels behind GetEvent, and the operation each belongs to.
OpOf == [insert_ticket |-> "ticket", insert_seat |-> "seats",
         list_tickets |-> "inventory", list_seats |-> "inventory"]

Behind == DOMAIN OpOf

Types ==
    /\ DOMAIN pc = Handlers /\ DOMAIN req = Handlers /\ DOMAIN before = Handlers
    /\ DOMAIN loc = Handlers /\ DOMAIN resp = Handlers
    /\ \A h \in Handlers :
          /\ pc[h] \in Labels
          /\ pc[h] # "idle" => req[h] \in Requests[h]
          /\ IsAnswer(loc[h]) /\ IsAnswer(resp[h]) /\ loc[h].seats = {}
          /\ \A o \in before[h] : o \in Handlers /\ Answered(o)

Ticket == [event : events, total : Nat, sold : Nat, reserved : Nat]

Hold == [id : HoldIds, seat : seats, status : {"reserved", "confirmed", "cancelled"}]

\* The tables and their constraints; rows are named after requests that came so
\* far as to insert them.
TicketTable ==
    /\ tickets \in [DOMAIN tickets -> Ticket]
    /\ \A t \in DOMAIN tickets :
          /\ t \in Handlers /\ Answered(t)
          /\ tickets[t].sold + tickets[t].reserved <= tickets[t].total

SeatTable ==
    /\ \A s \in seats :
          /\ s.event \in events
          /\ s.by \in Handlers /\ s.event = req[s.by].event /\ pc[s.by] \in {"insert_seat", "done"}
    /\ \A s, t \in seats : s.event = t.event /\ s.place = t.place => s = t

HoldTable ==
    /\ holds \subseteq Hold
    /\ \A j, k \in holds : j.seat = k.seat /\ IsActive(j) /\ IsActive(k) => j = k

Tables == events \subseteq Known /\ TicketTable /\ SeatTable /\ HoldTable

\* The answer of a request that found its event.
Found(h) == Answered(h) /\ resp[h].code \in {"OK", "CREATED"} /\ req[h].op # "event"

\* A request behind GetEvent is valid and has found its event.
Path(h) ==
    /\ pc[h] = "get_event" => req[h].event # Malformed /\ req[h].body # Malformed
                              /\ ~IsInvalid(req[h])
    /\ pc[h] = "insert_event" => req[h].op = "event"
    /\ pc[h] \in Behind =>
          /\ req[h].body # Malformed /\ ~IsInvalid(req[h])
          /\ req[h].op = OpOf[pc[h]] /\ req[h].event \in Known
    /\ Found(h) => req[h].body # Malformed /\ req[h].event \in Known
    /\ ~Answered(h) => resp[h].code = "none"

\* The first n places of a batch have been created by h.
HasCreated(h, n) == CreatedBy(h) = {req[h].body[i] : i \in 1..n}

Batch(h) ==
    LET body == req[h].body
        todo == loc[h].todo
    IN  /\ pc[h] = "insert_seat" =>
              \E n \in 0..(Len(body) - 1) :
                  /\ todo \in Seq(DOMAIN Trimmed) /\ Len(todo) = Len(body) - n
                  /\ \A i \in 1..Len(todo) : todo[i] = body[n + i]
                  /\ req[h].event \in events => HasCreated(h, n)
        /\ Answered(h) /\ req[h].op = "seats" /\ body # Malformed /\ req[h].event \in events =>
              IF resp[h].code = "CREATED"
              THEN HasCreated(h, Len(body))
              ELSE \E n \in 0..Len(body) :
                      HasCreated(h, n) /\ (n < Len(body) \/ body = <<>> \/ IsLost(h))

\* The ticket type of an answered request is there as long as its event.
TicketCreated(h) ==
    /\ Answered(h) /\ req[h].op = "ticket" /\ resp[h].code = "CREATED" /\ req[h].event \in events
    => h \in DOMAIN tickets /\ tickets[h].event = req[h].event

--------------------------------------------------------------------------------
(* What an inventory shows *)

AddsUp(T) ==
    \A t \in T :
        /\ {t.available, t.sold, t.reserved, t.total} \subseteq Nat
        /\ t.available + t.sold + t.reserved = t.total

\* The lines T are about ticket types of h's event, whose units sold have not
\* come back.
StillSold(h, T) ==
    \A t \in T : /\ t.id \in DOMAIN tickets /\ tickets[t.id].event = req[h].event
                 /\ tickets[t.id].sold >= t.sold

IsInventory(h) == Answered(h) /\ req[h].op = "inventory" /\ resp[h].code = "OK"

\* The lines T show what o has created or seen before.
CoversTickets(h, o, T) ==
    req[o].event = req[h].event =>
        /\ req[o].op = "ticket" /\ resp[o].code = "CREATED" => \E t \in T : t.id = o
        /\ IsInventory(o) =>
              \A t \in resp[o].tickets : \E u \in T : u.id = t.id /\ u.sold >= t.sold

ShowsTickets(h, T) == StillSold(h, T) /\ \A o \in before[h] : CoversTickets(h, o, T)

\* A confirmed line is about a confirmed hold.
StillConfirmed(h) ==
    \A x \in resp[h].seats : x.status = "confirmed" =>
        /\ x = [seat |-> x.seat, hold |-> x.hold, status |-> x.status]
        /\ x.seat.event = req[h].event
        /\ [id |-> x.hold, seat |-> x.seat, status |-> "confirmed"] \in holds

CoversSeats(h, o) ==
    req[o].event = req[h].event =>
        /\ req[o].op = "seats" /\ resp[o].code = "CREATED" =>
              Range(req[o].body) \subseteq {x.seat.typed : x \in resp[h].seats}
        /\ IsInventory(o) =>
              \A x \in resp[o].seats : x.status = "confirmed" => x \in resp[h].seats

ShowsSeats(h) == StillConfirmed(h) /\ \A o \in before[h] : CoversSeats(h, o)

Inventory(h) ==
    /\ AddsUp(loc[h].tickets) /\ AddsUp(resp[h].tickets)
    /\ \A x, y \in resp[h].seats : x.seat = y.seat => x = y
    /\ pc[h] = "list_seats" /\ req[h].event \in events => ShowsTickets(h, loc[h].tickets)
    /\ IsInventory(h) /\ req[h].event \in events =>
          ShowsTickets(h, resp[h].tickets) /\ ShowsSeats(h)

HandlerInv(h) == Path(h) /\ Batch(h) /\ TicketCreated(h) /\ Inventory(h)

Inv == Types /\ Tables /\ \A h \in Handlers : HandlerInv(h)

--------------------------------------------------------------------------------
(* What a step leaves alone *)

\* Nothing about o changes.
Same(o) ==
    /\ pc'[o] = pc[o] /\ req'[o] = req[o] /\ before'[o] = before[o]
    /\ loc'[o] = loc[o] /\ resp'[o] = resp[o]

\* A deleted event never comes back, what was answered stays answered, and as long
\* as its event exists a row stays, with what it has sold.
Lasting ==
    /\ \A q \in Handlers : Answered(q) => Same(q)
    /\ \A e \in Known : e \in events' => e \in events
    /\ \A t \in DOMAIN tickets : tickets[t].event \in events' =>
          /\ t \in DOMAIN tickets' /\ tickets'[t].event = tickets[t].event
          /\ tickets'[t].sold >= tickets[t].sold
    /\ \A s \in seats : s.event \in events' => s \in seats'
    /\ \A k \in holds : k.status = "confirmed" /\ k.seat.event \in events' => k \in holds'

\* h takes a step and nobody else does.
Alone(h) ==
    /\ pc[h] # "done" /\ \A o \in Handlers : o # h => Same(o)
    /\ pc[h] = "insert_seat" => pc'[h] \in {"insert_seat", "done"} /\ req'[h] = req[h]

\* What exists goes on being known.
LEMMA KnownGrows ==
    ASSUME Lasting
    PROVE  Known \subseteq Known'
BY DEF Lasting, Known, Answered, Same

\* The seats of o are the same when no seat of o is added or removed.
LEMMA SameCreated ==
    ASSUME NEW o, req'[o] = req[o], \A s : s.by = o => (s \in seats' <=> s \in seats)
    PROVE  /\ CreatedBy(o)' = CreatedBy(o)
           /\ \A n : HasCreated(o, n)' <=> HasCreated(o, n)
<1>1. CreatedBy(o)' = CreatedBy(o)
  BY DEF CreatedBy
<1> QED
  BY <1>1 DEF HasCreated

\* A request that has no seats has created the first none of its batch.
LEMMA NoneCreated ==
    ASSUME NEW o, \A s \in seats : s.by # o
    PROVE  HasCreated(o, 0)
BY DEF HasCreated, CreatedBy

\* The same after a step.
LEMMA NoneCreatedNext ==
    ASSUME NEW o, \A s \in seats' : s.by # o
    PROVE  HasCreated(o, 0)'
BY DEF HasCreated, CreatedBy

\* A batch is a list of places.
LEMMA BodyIsList ==
    ASSUME Types, NEW h \in Handlers, pc[h] # "idle", req[h].op = "seats", req[h].body # Malformed
    PROVE  req[h].body \in Seq(DOMAIN Trimmed) /\ Len(req[h].body) \in Nat
           /\ (req[h].body # <<>> => Len(req[h].body) > 0)
<1>1. req[h].body \in Seq(DOMAIN Trimmed)
  BY RequestAssumption DEF Types
<1> QED
  BY <1>1

\* What holds of a handler goes on holding when others take lasting steps.
LEMMA BystanderInv ==
    ASSUME Inv, Tables', Lasting, NEW o \in Handlers, Same(o),
           \A s \in seats' : s.by = o => s \in seats
    PROVE  HandlerInv(o)'
<1>1. Known \subseteq Known'
  BY KnownGrows
<1>2. /\ Path(o) /\ Batch(o) /\ TicketCreated(o) /\ Inventory(o) /\ Types /\ Tables
      /\ \A q \in before[o] : q \in Handlers /\ Answered(q)
  BY DEF Inv, HandlerInv, Types
<1>3. Path(o)'
  BY <1>1, <1>2 DEF Path, Same, Found, Answered
<1>4. ASSUME req[o].event \in Known, req'[o].event \in events'
      PROVE  /\ req[o].event \in events
             /\ \A n : HasCreated(o, n)' <=> HasCreated(o, n)
  <2>1. req[o].event \in events
    BY <1>4 DEF Lasting, Same
  <2>2. \A s : s.by = o => (s \in seats' <=> s \in seats)
    BY <1>2, <1>4 DEF Tables, SeatTable, Lasting, Same
  <2> QED
    BY <2>1, <2>2, SameCreated DEF Same
<1>5. Batch(o)'
  <2>1. CASE pc[o] = "insert_seat"
    <3>1. req[o].event \in Known
      BY <1>2, <2>1 DEF Path, Behind, OpOf
    <3>2. PICK n \in 0..(Len(req[o].body) - 1) :
             /\ loc[o].todo \in Seq(DOMAIN Trimmed) /\ Len(loc[o].todo) = Len(req[o].body) - n
             /\ \A i \in 1..Len(loc[o].todo) : loc[o].todo[i] = req[o].body[n + i]
             /\ req[o].event \in events => HasCreated(o, n)
      BY <1>2, <2>1 DEF Batch
    <3>3. req'[o].event \in events' => HasCreated(o, n)'
      BY <1>4, <3>1, <3>2
    <3> QED
      BY <2>1, <3>2, <3>3 DEF Batch, Same, Answered
  <2>2. CASE pc[o] # "insert_seat"
    <3> SUFFICES ASSUME Answered(o), req[o].op = "seats", req[o].body # Malformed,
                        req[o].event \in events'
                 PROVE  IF resp[o].code = "CREATED"
                        THEN HasCreated(o, Len(req[o].body))'
                        ELSE \E n \in 0..Len(req[o].body) :
                                /\ HasCreated(o, n)'
                                /\ n < Len(req[o].body) \/ req[o].body = <<>> \/ IsLost(o)
      BY <2>2 DEF Batch, Same, Answered, IsLost
    <3>1. CASE req[o].event \in Known
      BY <1>2, <1>4, <3>1 DEF Batch, Same
    <3>2. CASE req[o].event \notin Known
      <4>1. resp[o].code # "CREATED"
        BY <1>2, <3>2 DEF Path, Found
      <4>2. \A s \in seats' : s.by # o
        BY <1>2, <3>2 DEF Tables, SeatTable
      <4>3. HasCreated(o, 0)'
        BY <4>2, NoneCreatedNext
      <4>4. Len(req[o].body) \in Nat /\ (req[o].body # <<>> => Len(req[o].body) > 0)
        BY <1>2, BodyIsList DEF Answered
      <4> QED
        BY <4>1, <4>3, <4>4
    <3> QED
      BY <3>1, <3>2
  <2> QED
    BY <2>1, <2>2
<1>6. TicketCreated(o)'
  BY <1>2, <1>4 DEF TicketCreated, Path, Found, Same, Answered, Lasting
<1>7. ASSUME NEW T, AddsUp(T), req[o].event \in Known, req'[o].event \in events', ShowsTickets(o, T)
      PROVE  ShowsTickets(o, T)'
  <2>1. StillSold(o, T)'
    <3>1. ASSUME NEW t \in T
          PROVE  /\ t.id \in DOMAIN tickets' /\ tickets'[t.id].event = req'[o].event
                 /\ tickets'[t.id].sold >= t.sold
      <4>1. /\ t.id \in DOMAIN tickets /\ tickets[t.id].event = req[o].event
            /\ tickets[t.id].sold >= t.sold
        BY <1>7 DEF ShowsTickets, StillSold
      <4>2. /\ t.id \in DOMAIN tickets' /\ tickets'[t.id].event = req'[o].event
            /\ tickets'[t.id].sold >= tickets[t.id].sold
        BY <1>7, <4>1 DEF Lasting, Same
      <4>3. t.sold \in Nat /\ tickets[t.id].sold \in Nat /\ tickets'[t.id].sold \in Nat
        BY <1>2, <1>7, <4>1, <4>2 DEF AddsUp, Tables, TicketTable, Ticket
      <4> QED
        BY <4>1, <4>2, <4>3
    <3> QED
      BY <3>1 DEF StillSold
  <2>2. ASSUME NEW q \in before[o] PROVE CoversTickets(o, q, T)'
    <3>1. CoversTickets(o, q, T) /\ Same(q)
      BY <1>2, <1>7 DEF ShowsTickets, Lasting
    <3> QED
      BY <3>1 DEF CoversTickets, Same, IsInventory, Answered
  <2> QED
    BY <2>1, <2>2 DEF ShowsTickets, Same
<1>8. ASSUME req[o].event \in Known, req'[o].event \in events', ShowsSeats(o)
      PROVE  ShowsSeats(o)'
  <2>1. StillConfirmed(o)'
    BY <1>8 DEF ShowsSeats, StillConfirmed, Lasting, Same
  <2>2. ASSUME NEW q \in before[o] PROVE CoversSeats(o, q)'
    <3>1. CoversSeats(o, q) /\ Same(q)
      BY <1>2, <1>8 DEF ShowsSeats, Lasting
    <3> QED
      BY <3>1 DEF CoversSeats, Same, IsInventory, Answered
  <2> QED
    BY <2>1, <2>2 DEF ShowsSeats, Same
<1>9. Inventory(o)'
  <2>1. ASSUME pc[o] = "list_seats" \/ IsInventory(o) PROVE req[o].event \in Known
    BY <1>2, <2>1 DEF Path, Behind, OpOf, Found, IsInventory, Answered
  <2>2. IsInventory(o)' <=> IsInventory(o)
    BY DEF IsInventory, Answered, Same
  <2>3. ASSUME pc[o] = "list_seats", req'[o].event \in events'
        PROVE  ShowsTickets(o, loc[o].tickets)'
    <3>1. PICK T : T = loc[o].tickets
      OBVIOUS
    <3>2. ShowsTickets(o, T) /\ AddsUp(T) /\ req[o].event \in Known /\ T = loc'[o].tickets
      BY <1>2, <1>4, <2>1, <2>3, <3>1 DEF Inventory, Same
    <3>3. ShowsTickets(o, T)'
      BY <1>7, <2>3, <3>2
    <3> QED
      BY <3>2, <3>3 DEF ShowsTickets, StillSold, CoversTickets
  <2>4. ASSUME IsInventory(o), req'[o].event \in events'
        PROVE  ShowsTickets(o, resp[o].tickets)' /\ ShowsSeats(o)'
    <3>1. PICK T : T = resp[o].tickets
      OBVIOUS
    <3>2. /\ ShowsTickets(o, T) /\ ShowsSeats(o) /\ AddsUp(T)
          /\ req[o].event \in Known /\ T = resp'[o].tickets
      BY <1>2, <1>4, <2>1, <2>4, <3>1 DEF Inventory, Same
    <3>3. ShowsTickets(o, T)' /\ ShowsSeats(o)'
      BY <1>7, <1>8, <2>4, <3>2
    <3> QED
      BY <3>2, <3>3 DEF ShowsTickets, StillSold, CoversTickets
  <2> QED
    BY <1>2, <2>2, <2>3, <2>4 DEF Inventory, Same, AddsUp
<1> QED
  BY <1>3, <1>5, <1>6, <1>9 DEF HandlerInv

--------------------------------------------------------------------------------
(* Steps of one handler *)

\* A step of one handler that leaves the tables alone.
LEMMA TablesAlone ==
    ASSUME Inv, NEW h \in Handlers, Alone(h), UNCHANGED db
    PROVE  Tables' /\ Lasting
<1>1. UNCHANGED <<events, tickets, seats, holds>>
  BY DEF db
<1>2. \A q \in Handlers : Answered(q) => Same(q)
  BY DEF Alone, Answered
<1>3. Tables /\ \A t \in DOMAIN tickets : tickets[t].sold \in Nat
  BY DEF Inv, Tables, TicketTable, Ticket
<1>4. Lasting
  BY <1>1, <1>2, <1>3 DEF Lasting
<1>5. Known \subseteq Known'
  BY <1>4, KnownGrows
<1>6. TicketTable'
  BY <1>1, <1>2, <1>3 DEF Tables, TicketTable, Ticket, Answered, Same
<1>7. \A s \in seats : req'[s.by] = req[s.by] /\ pc'[s.by] \in {"insert_seat", "done"}
  BY <1>2, <1>3 DEF Tables, SeatTable, Alone, Same
<1>8. SeatTable'
  BY <1>1, <1>3, <1>7 DEF Tables, SeatTable
<1>9. HoldTable'
  BY <1>1, <1>3 DEF Tables, HoldTable, Hold, IsActive
<1> QED
  BY <1>1, <1>3, <1>4, <1>5, <1>6, <1>8, <1>9 DEF Tables

\* A step of h keeps the invariant when it keeps the tables and h's part.
LEMMA StepInv ==
    ASSUME Inv, NEW h \in Handlers, Alone(h), Types', Tables', Lasting, HandlerInv(h)',
           \A s \in seats' : s.by # h => s \in seats
    PROVE  Inv'
<1>1. ASSUME NEW o \in Handlers, o # h PROVE HandlerInv(o)'
  BY <1>1, BystanderInv DEF Alone
<1> QED
  BY <1>1 DEF Inv

\* h goes on to a label with the locals l, or ends with the answer a.
Moves(h, label, l, a) ==
    /\ pc'[h] = label /\ loc'[h] = l /\ resp'[h] = a /\ req'[h] = req[h] /\ before'[h] = before[h]
    /\ DOMAIN pc' = Handlers /\ DOMAIN req' = Handlers /\ DOMAIN before' = Handlers
    /\ DOMAIN loc' = Handlers /\ DOMAIN resp' = Handlers
    /\ \A o \in Handlers : o # h => Same(o)

\* What such a step changes.
LEMMA MovesAlone ==
    ASSUME Inv, NEW h \in Handlers, pc[h] \notin {"idle", "done"},
           NEW label \in Labels \ {"idle"}, NEW l, NEW a, Moves(h, label, l, a),
           pc[h] = "insert_seat" => label \in {"insert_seat", "done"},
           IsAnswer(l), IsAnswer(a), l.seats = {}
    PROVE  Alone(h) /\ Types'
<1>1. Types
  BY DEF Inv
<1>2. Alone(h)
  BY DEF Alone, Moves
<1>3. \A o \in Handlers : Answered(o) => Answered(o)'
  BY DEF Same, Answered, Moves
<1>4. ASSUME NEW o \in Handlers
      PROVE  /\ pc'[o] \in Labels /\ (pc'[o] # "idle" => req'[o] \in Requests[o])
             /\ IsAnswer(loc'[o]) /\ IsAnswer(resp'[o]) /\ loc'[o].seats = {}
             /\ \A q \in before'[o] : q \in Handlers /\ Answered(q)'
  <2>1. CASE o = h
    BY <1>1, <1>3, <2>1 DEF Types, Moves
  <2>2. CASE o # h
    BY <1>1, <1>3, <2>2 DEF Types, Moves, Same
  <2> QED
    BY <2>1, <2>2
<1>5. Types'
  BY <1>4 DEF Types, IsAnswer, Moves
<1> QED
  BY <1>2, <1>5

\* An answer that is no inventory and creates nothing is such a step.
LEMMA AnswerMoves ==
    ASSUME Inv, NEW h \in Handlers, pc[h] \notin {"idle", "done"}, NEW l, l = loc[h],
           NEW a, IsAnswer(a), resp' = [resp EXCEPT ![h] = a], pc' = [pc EXCEPT ![h] = "done"],
           UNCHANGED <<req, before, loc>>
    PROVE  Moves(h, "done", l, a) /\ Alone(h) /\ Types'
<1>1. Moves(h, "done", l, a)
  BY DEF Moves, Same, Inv, Types
<1>2. IsAnswer(l) /\ l.seats = {}
  BY DEF Inv, Types
<1> QED
  BY <1>1, <1>2, MovesAlone DEF Labels

\* So is a step to the next statement.
LEMMA ContinueMoves ==
    ASSUME Inv, NEW h \in Handlers, pc[h] \notin {"idle", "done"}, NEW a, a = resp[h],
           NEW label \in Labels \ {"idle"}, pc[h] = "insert_seat" => label = "insert_seat",
           NEW l, IsAnswer(l), l.seats = {},
           loc' = [loc EXCEPT ![h] = l], pc' = [pc EXCEPT ![h] = label],
           UNCHANGED <<req, before, resp>>
    PROVE  Moves(h, label, l, a) /\ Alone(h) /\ Types'
<1>1. Moves(h, label, l, a)
  BY DEF Moves, Same, Inv, Types
<1>2. IsAnswer(a)
  BY DEF Inv, Types
<1> QED
  BY <1>1, <1>2, MovesAlone

\* A request that is refused, or whose statement fails, leaves the tables as they
\* are.
LEMMA RefuseInv ==
    ASSUME Inv, NEW h \in Handlers, pc[h] \notin {"idle", "done"},
           NEW code \in {"NOT_FOUND", "INVALID", "FAILED"}, Refuse(h, code), UNCHANGED db
    PROVE  Inv'
<1>1. PICK l, a : l = loc[h] /\ a = [loc[h] EXCEPT !.code = code]
  OBVIOUS
<1>2. /\ IsAnswer(l) /\ l.seats = {} /\ Path(h) /\ Batch(h) /\ Inventory(h) /\ Tables /\ Types
      /\ pc[h] \in Labels
  BY <1>1 DEF Inv, Types, HandlerInv
<1>3. IsAnswer(a) /\ a.code = code /\ a.todo = l.todo /\ a.tickets = l.tickets /\ a.seats = {}
  BY <1>1, <1>2 DEF IsAnswer
<1>4. Moves(h, "done", l, a) /\ Alone(h) /\ Types'
  BY <1>1, <1>3, AnswerMoves DEF Refuse, Answer
<1>5. Tables' /\ Lasting
  BY <1>4, TablesAlone
<1>6. events' = events /\ seats' = seats /\ req'[h] = req[h] /\ resp'[h] = a /\ loc'[h] = l
      /\ pc'[h] = "done"
  BY <1>4 DEF db, Moves
<1>7. Path(h)'
  BY <1>3, <1>6 DEF Path, Found, Behind, OpOf, Answered
<1>8. Batch(h)'
  <2> SUFFICES ASSUME req[h].op = "seats", req[h].body # Malformed, req[h].event \in events
               PROVE  \E n \in 0..Len(req[h].body) :
                         HasCreated(h, n)' /\ (n < Len(req[h].body) \/ req[h].body = <<>>)
    BY <1>3, <1>6 DEF Batch, Answered
  <2>1. \A n : HasCreated(h, n)' <=> HasCreated(h, n)
    BY <1>6, SameCreated
  <2>2. Len(req[h].body) \in Nat /\ (req[h].body # <<>> => Len(req[h].body) > 0)
    BY <1>2, BodyIsList
  <2>3. CASE pc[h] = "insert_seat"
    <3>1. PICK n \in 0..(Len(req[h].body) - 1) : HasCreated(h, n)
      BY <1>2, <2>3 DEF Batch
    <3> QED
      BY <2>1, <2>2, <3>1
  <2>4. CASE pc[h] # "insert_seat"
    <3>1. HasCreated(h, 0)
      BY <1>2, <2>4, NoneCreated DEF Tables, SeatTable
    <3> QED
      BY <2>1, <2>2, <3>1
  <2> QED
    BY <2>3, <2>4
<1>9. TicketCreated(h)'
  BY <1>3, <1>6 DEF TicketCreated
<1>10. Inventory(h)'
  BY <1>1, <1>2, <1>3, <1>6 DEF Inventory, IsInventory, AddsUp
<1>11. HandlerInv(h)'
  BY <1>7, <1>8, <1>9, <1>10 DEF HandlerInv
<1> QED
  BY <1>4, <1>5, <1>6, <1>11, StepInv

\* A request is taken and found valid, or refused at once.
LEMMA BeginRequestInv ==
    ASSUME Inv, NEW h \in Handlers, BeginRequest(h)
    PROVE  Inv'
<1>1. PICK rq \in Requests[h] :
         LET bad == rq.event = Malformed \/ rq.body = Malformed \/ IsInvalid(rq)
         IN  /\ req' = [req EXCEPT ![h] = rq]
             /\ before' = [before EXCEPT ![h] = {o \in Handlers : pc[o] = "done"}]
             /\ pc' = [pc EXCEPT ![h] = CASE bad -> "done"
                                          [] ~bad /\ rq.op = "event" -> "insert_event"
                                          [] OTHER -> "get_event"]
             /\ resp' = IF bad THEN [resp EXCEPT ![h].code = "INVALID"] ELSE resp
  BY DEF BeginRequest
<1> DEFINE bad == rq.event = Malformed \/ rq.body = Malformed \/ IsInvalid(rq)
<1>2. Types /\ Tables /\ Path(h) /\ Batch(h) /\ Inventory(h) /\ IsAnswer(loc[h]) /\ IsAnswer(resp[h])
  BY DEF Inv, Types, HandlerInv
<1>3. pc[h] = "idle" /\ loc' = loc /\ UNCHANGED db
  BY DEF BeginRequest
<1>4. PICK a : a = IF bad THEN [resp[h] EXCEPT !.code = "INVALID"] ELSE resp[h]
  OBVIOUS
<1>5. /\ IsAnswer(a) /\ a.tickets = resp[h].tickets /\ a.seats = resp[h].seats
      /\ a.code = IF bad THEN "INVALID" ELSE "none"
  <2>1. resp[h].code = "none"
    BY <1>2, <1>3 DEF Path, Answered
  <2> QED
    BY <1>2, <1>4, <2>1 DEF IsAnswer
<1>6. PICK label : label = CASE bad -> "done"
                             [] ~bad /\ rq.op = "event" -> "insert_event"
                             [] OTHER -> "get_event"
  OBVIOUS
<1>7. /\ bad => label = "done"
      /\ ~bad => label = IF rq.op = "event" THEN "insert_event" ELSE "get_event"
      /\ label \in Labels \ {"idle"}
  BY <1>6 DEF Labels
<1>8. /\ pc' = [pc EXCEPT ![h] = label]
      /\ DOMAIN resp' = Handlers /\ resp'[h] = a /\ \A o \in Handlers : o # h => resp'[o] = resp[o]
  <2>1. pc' = [pc EXCEPT ![h] = label]
    BY <1>1, <1>6
  <2>2. resp' = IF bad THEN [resp EXCEPT ![h].code = "INVALID"] ELSE resp
    BY <1>1
  <2>3. CASE bad
    BY <1>2, <1>4, <2>1, <2>2, <2>3 DEF Types
  <2>4. CASE ~bad
    BY <1>2, <1>4, <2>1, <2>2, <2>4 DEF Types
  <2> QED
    BY <2>3, <2>4
<1>9. /\ pc'[h] = label /\ resp'[h] = a /\ req'[h] = rq /\ loc'[h] = loc[h]
      /\ before'[h] = {o \in Handlers : pc[o] = "done"}
      /\ \A o \in Handlers : o # h => Same(o)
  BY <1>1, <1>2, <1>3, <1>8 DEF Types, Same
<1> HIDE DEF bad
<1>10. Alone(h)
  BY <1>3, <1>9 DEF Alone
<1>11. Types'
  <2>1. \A o \in Handlers : Answered(o) => Answered(o)'
    BY <1>3, <1>9 DEF Same, Answered
  <2>2. ASSUME NEW o \in Handlers
        PROVE  /\ pc'[o] \in Labels /\ (pc'[o] # "idle" => req'[o] \in Requests[o])
               /\ IsAnswer(loc'[o]) /\ IsAnswer(resp'[o]) /\ loc'[o].seats = {}
               /\ \A q \in before'[o] : q \in Handlers /\ Answered(q)'
    <3>1. CASE o = h
      BY <1>1, <1>2, <1>5, <1>7, <1>9, <2>1, <3>1 DEF Types, Answered
    <3>2. CASE o # h
      BY <1>2, <1>9, <2>1, <3>2 DEF Types, Same
    <3> QED
      BY <3>1, <3>2
  <2> QED
    BY <1>1, <1>2, <1>3, <1>8, <2>2 DEF Types, IsAnswer
<1>12. Tables' /\ Lasting
  BY <1>3, <1>10, TablesAlone
<1>13. seats' = seats /\ \A s \in seats : s.by # h
  BY <1>2, <1>3 DEF db, Tables, SeatTable
<1>14. Path(h)'
  BY <1>5, <1>7, <1>9 DEF Path, Found, Behind, OpOf, Answered, IsInvalid, bad
<1>15. Batch(h)'
  <2> SUFFICES ASSUME rq.op = "seats", rq.body # Malformed
               PROVE  \E n \in 0..Len(rq.body) :
                         HasCreated(h, n)' /\ (n < Len(rq.body) \/ rq.body = <<>>)
    BY <1>5, <1>7, <1>9 DEF Batch, Answered
  <2>1. rq.body \in Seq(DOMAIN Trimmed)
    BY RequestAssumption
  <2>2. Len(rq.body) \in Nat /\ (rq.body # <<>> => Len(rq.body) > 0)
    BY <2>1
  <2>3. HasCreated(h, 0)'
    BY <1>13, NoneCreatedNext
  <2> QED
    BY <2>2, <2>3
<1>16. TicketCreated(h)'
  BY <1>5, <1>9 DEF TicketCreated
<1>17. Inventory(h)'
  BY <1>2, <1>5, <1>7, <1>9 DEF Inventory, IsInventory, AddsUp
<1>18. HandlerInv(h)'
  BY <1>14, <1>15, <1>16, <1>17 DEF HandlerInv
<1> QED
  BY <1>10, <1>11, <1>12, <1>13, <1>18, StepInv

\* The event is read: it is the answer, or the request goes on.
LEMMA GetEventInv ==
    ASSUME Inv, NEW h \in Handlers, GetEvent(h)
    PROVE  Inv'
<1>1. pc[h] = "get_event" /\ UNCHANGED db
  BY DEF GetEvent
<1>2. /\ Types /\ Tables /\ Path(h) /\ Batch(h) /\ Inventory(h) /\ IsAnswer(loc[h])
      /\ IsAnswer(resp[h]) /\ loc[h].seats = {}
  BY DEF Inv, Types, HandlerInv
<1>3. req[h].event # Malformed /\ req[h].body # Malformed /\ ~IsInvalid(req[h])
  BY <1>1, <1>2 DEF Path
<1>4. seats' = seats /\ events' = events /\ \A s \in seats : s.by # h
  BY <1>1, <1>2 DEF db, Tables, SeatTable
<1>5. CASE req[h].event \notin events /\ Refuse(h, "NOT_FOUND")
  BY <1>1, <1>5, RefuseInv
<1>6. CASE req[h].event \in events /\ req[h].op = "get" /\ Answer(h, [loc[h] EXCEPT !.code = "OK"])
  <2>1. PICK l, a : l = loc[h] /\ a = [loc[h] EXCEPT !.code = "OK"]
    OBVIOUS
  <2>2. IsAnswer(a) /\ a.tickets = loc[h].tickets /\ a.seats = {} /\ a.code = "OK"
    BY <1>2, <2>1 DEF IsAnswer
  <2>3. Moves(h, "done", l, a) /\ Alone(h) /\ Types'
    BY <1>1, <1>6, <2>1, <2>2, AnswerMoves DEF Answer
  <2>4. Tables' /\ Lasting /\ Known \subseteq Known'
    BY <1>1, <2>3, TablesAlone, KnownGrows
  <2>5. /\ req'[h] = req[h] /\ resp'[h] = a /\ loc'[h] = l /\ pc'[h] = "done"
    BY <2>3 DEF Moves
  <2>6. Path(h)'
    BY <1>2, <1>3, <1>6, <2>4, <2>5 DEF Path, Found, Behind, OpOf, Answered, Tables
  <2>7. Batch(h)' /\ TicketCreated(h)'
    BY <1>6, <2>5 DEF Batch, TicketCreated, Answered
  <2>8. Inventory(h)'
    BY <1>2, <1>6, <2>1, <2>2, <2>5 DEF Inventory, IsInventory, AddsUp
  <2>9. HandlerInv(h)'
    BY <2>6, <2>7, <2>8 DEF HandlerInv
  <2> QED
    BY <1>4, <2>3, <2>4, <2>9, StepInv
<1>7. ASSUME NEW label \in {"insert_ticket", "insert_seat", "list_tickets"}, NEW l,
             req[h].event \in events, req[h].op = OpOf[label], Continue(h, label, l),
             IsAnswer(l), l.seats = {}, l.tickets = loc[h].tickets,
             label = "insert_seat" => l.todo = req[h].body
      PROVE  Inv'
  <2>1. PICK a : a = resp[h]
    OBVIOUS
  <2>2. Moves(h, label, l, a) /\ Alone(h) /\ Types'
    BY <1>1, <1>7, <2>1, ContinueMoves DEF Continue, Labels
  <2>3. Tables' /\ Lasting /\ Known \subseteq Known'
    BY <1>1, <2>2, TablesAlone, KnownGrows
  <2>4. /\ req'[h] = req[h] /\ resp'[h] = a /\ loc'[h] = l /\ pc'[h] = label
    BY <2>2 DEF Moves
  <2>5. Path(h)'
    BY <1>1, <1>2, <1>3, <1>7, <2>1, <2>3, <2>4 DEF Path, Found, Behind, OpOf, Answered, Tables
  <2>6. Batch(h)'
    <3> SUFFICES ASSUME label = "insert_seat"
                 PROVE  \E n \in 0..(Len(req[h].body) - 1) :
                  /\ l.todo \in Seq(DOMAIN Trimmed) /\ Len(l.todo) = Len(req[h].body) - n
                  /\ \A i \in 1..Len(l.todo) : l.todo[i] = req[h].body[n + i]
                  /\ req[h].event \in events' => HasCreated(h, n)'
      BY <1>7, <2>4 DEF Batch, Answered
    <3>1. req[h].op = "seats"
      BY <1>7 DEF OpOf
    <3>2. req[h].body # <<>>
      BY <1>3, <3>1 DEF IsInvalid
    <3>3. req[h].body \in Seq(DOMAIN Trimmed) /\ Len(req[h].body) \in Nat /\ Len(req[h].body) > 0
      BY <1>1, <1>2, <1>3, <3>1, <3>2, BodyIsList
    <3>4. HasCreated(h, 0)'
      BY <1>4, NoneCreatedNext
    <3> QED
      BY <1>7, <3>3, <3>4
  <2>7. TicketCreated(h)'
    BY <1>7, <2>4 DEF TicketCreated, Answered
  <2>8. Inventory(h)'
    BY <1>2, <1>7, <2>1, <2>4 DEF Inventory, IsInventory, AddsUp, Answered
  <2>9. HandlerInv(h)'
    BY <2>5, <2>6, <2>7, <2>8 DEF HandlerInv
  <2> QED
    BY <1>4, <2>2, <2>3, <2>9, StepInv
<1>8. CASE req[h].event \in events /\ req[h].op = "ticket" /\ Continue(h, "insert_ticket", loc[h])
  <2>1. PICK l : l = loc[h]
    OBVIOUS
  <2>2. Continue(h, "insert_ticket", l)
    BY <1>8, <2>1
  <2> QED
    BY <1>2, <1>7, <1>8, <2>1, <2>2 DEF OpOf
<1>9. CASE /\ req[h].event \in events /\ req[h].op = "seats"
           /\ Continue(h, "insert_seat", [loc[h] EXCEPT !.todo = req[h].body])
  <2>1. PICK l : l = [loc[h] EXCEPT !.todo = req[h].body]
    OBVIOUS
  <2>2. Continue(h, "insert_seat", l)
    BY <1>9, <2>1
  <2>3. IsAnswer(l) /\ l.todo = req[h].body /\ l.tickets = loc[h].tickets /\ l.seats = {}
    BY <1>2, <2>1 DEF IsAnswer
  <2> QED
    BY <1>7, <1>9, <2>2, <2>3 DEF OpOf
<1>10. CASE req[h].event \in events /\ req[h].op = "inventory" /\ Continue(h, "list_tickets", loc[h])
  <2>1. PICK l : l = loc[h]
    OBVIOUS
  <2>2. Continue(h, "list_tickets", l)
    BY <1>10, <2>1
  <2> QED
    BY <1>2, <1>7, <1>10, <2>1, <2>2 DEF OpOf
<1> QED
  BY <1>5, <1>6, <1>8, <1>9, <1>10 DEF GetEvent

\* The name of a request that is not answered names no event and no ticket type.
LEMMA FreshName ==
    ASSUME Inv, NEW h \in Handlers, pc[h] # "done"
    PROVE  h \notin Known /\ h \notin DOMAIN tickets
BY CatalogAssumption DEF Inv, Tables, TicketTable, Known, Answered

\* The seats and holds of a step of h that touches neither, and keeps the events.
LEMMA SeatsAlone ==
    ASSUME Inv, NEW h \in Handlers, Alone(h), UNCHANGED <<seats, holds>>, events \subseteq events'
    PROVE  SeatTable' /\ HoldTable'
<1>1. SeatTable /\ HoldTable
  BY DEF Inv, Tables
<1>2. \A s \in seats : req'[s.by] = req[s.by] /\ pc'[s.by] \in {"insert_seat", "done"}
  BY <1>1 DEF SeatTable, Alone, Same
<1>3. SeatTable'
  BY <1>1, <1>2 DEF SeatTable
<1>4. HoldTable'
  BY <1>1 DEF HoldTable, Hold, IsActive
<1> QED
  BY <1>3, <1>4

\* An event is inserted under a name that no event had.
LEMMA InsertEventInv ==
    ASSUME Inv, NEW h \in Handlers, pc[h] = "insert_event", InsertEvent(h),
           NEW code \in {"CREATED", "FAILED"}, Answer(h, [loc[h] EXCEPT !.code = code])
    PROVE  Inv'
<1>1. pc[h] = "insert_event" /\ events' = events \cup {h} /\ UNCHANGED <<tickets, seats, holds>>
  BY DEF InsertEvent
<1>2. /\ Types /\ Tables /\ Path(h) /\ Inventory(h) /\ IsAnswer(loc[h])
      /\ loc[h].seats = {} /\ req[h].op = "event"
  BY <1>1 DEF Inv, Types, HandlerInv, Path
<1>3. PICK l, a : l = loc[h] /\ a = [loc[h] EXCEPT !.code = code]
  OBVIOUS
<1>4. IsAnswer(a) /\ a.tickets = loc[h].tickets /\ a.seats = {} /\ a.code = code
  BY <1>2, <1>3 DEF IsAnswer
<1>5. Moves(h, "done", l, a) /\ Alone(h) /\ Types'
  BY <1>1, <1>3, <1>4, AnswerMoves DEF Answer
<1>6. /\ req'[h] = req[h] /\ resp'[h] = a /\ loc'[h] = l /\ pc'[h] = "done"
  BY <1>5 DEF Moves
<1>7. Lasting
  <2>1. \A q \in Handlers : Answered(q) => Same(q)
    BY <1>5 DEF Alone, Answered
  <2>2. h \notin Known
    BY <1>1, FreshName
  <2>3. \A t \in DOMAIN tickets : tickets[t].sold \in Nat
    BY <1>2 DEF Tables, TicketTable, Ticket
  <2> QED
    BY <1>1, <2>1, <2>2, <2>3 DEF Lasting
<1>8. Tables'
  <2>1. Known \subseteq Known' /\ h \in Known'
    BY <1>6, <1>7, KnownGrows DEF Known, Answered
  <2>2. TicketTable'
    BY <1>1, <1>2, <1>7 DEF Tables, TicketTable, Ticket, Answered, Same, Lasting
  <2> QED
    BY <1>1, <1>2, <1>5, <2>1, <2>2, SeatsAlone DEF Tables
<1>9. Path(h)' /\ Batch(h)' /\ TicketCreated(h)'
  BY <1>2, <1>4, <1>6 DEF Path, Found, Behind, OpOf, Batch, TicketCreated, Answered
<1>10. Inventory(h)'
  BY <1>2, <1>3, <1>4, <1>6 DEF Inventory, IsInventory, AddsUp
<1>11. HandlerInv(h)'
  BY <1>9, <1>10 DEF HandlerInv
<1> QED
  BY <1>1, <1>5, <1>7, <1>8, <1>11, StepInv

\* A ticket type is inserted, acknowledged or not.
LEMMA InsertTicketInv ==
    ASSUME Inv, NEW h \in Handlers, pc[h] = "insert_ticket", req[h].event \in events,
           InsertTicket(h),
           NEW code \in {"CREATED", "FAILED"}, Answer(h, [loc[h] EXCEPT !.code = code])
    PROVE  Inv'
<1>1. pc[h] = "insert_ticket" /\ UNCHANGED <<events, seats, holds>>
  BY DEF InsertTicket
<1>2. req[h].event \in events
  OBVIOUS
<1>3. Inv'
  <2>1. /\ Types /\ Tables /\ Path(h) /\ Inventory(h) /\ IsAnswer(loc[h]) /\ loc[h].seats = {}
        /\ req[h] \in Requests[h] /\ req[h].body # Malformed /\ ~IsInvalid(req[h])
        /\ req[h].op = "ticket" /\ req[h].event \in Known
    BY <1>1 DEF Inv, Types, HandlerInv, Path, Behind, OpOf
  <2>2. PICK r : r = [event |-> req[h].event, total |-> req[h].body.total, sold |-> 0, reserved |-> 0]
    OBVIOUS
  <2>3. r \in Ticket /\ r.event = req[h].event /\ r.sold = 0 /\ r.reserved = 0
    <3>1. req[h].body.total \in Int
      BY <2>1, RequestAssumption
    <3>2. ~(req[h].body.total < 0)
      BY <2>1 DEF IsInvalid
    <3>3. req[h].body.total \in Nat
      BY <3>1, <3>2
    <3> QED
      BY <1>2, <2>2, <3>3 DEF Ticket
  <2>4. /\ tickets' = [t \in DOMAIN tickets \cup {h} |-> IF t = h THEN r ELSE tickets[t]]
        /\ Answer(h, [loc[h] EXCEPT !.code = code])
    BY <1>2, <2>2 DEF InsertTicket
  <2>5. /\ DOMAIN tickets' = DOMAIN tickets \cup {h} /\ tickets'[h] = r
        /\ \A t \in DOMAIN tickets : t # h /\ tickets'[t] = tickets[t]
    <3>1. h \notin DOMAIN tickets
      BY <1>1, FreshName
    <3> QED
      BY <2>4, <3>1
  <2>6. PICK l, a : l = loc[h] /\ a = [loc[h] EXCEPT !.code = code]
    OBVIOUS
  <2>7. IsAnswer(a) /\ a.tickets = loc[h].tickets /\ a.seats = {} /\ a.code = code
    BY <2>1, <2>6 DEF IsAnswer
  <2>8. Moves(h, "done", l, a) /\ Alone(h) /\ Types'
    BY <1>1, <2>4, <2>6, <2>7, AnswerMoves DEF Answer
  <2>9. /\ req'[h] = req[h] /\ resp'[h] = a /\ loc'[h] = l /\ pc'[h] = "done"
    BY <2>8 DEF Moves
  <2>10. Lasting
    <3>1. \A q \in Handlers : Answered(q) => Same(q)
      BY <2>8 DEF Alone, Answered
    <3>2. \A t \in DOMAIN tickets : tickets[t].sold \in Nat
      BY <2>1 DEF Tables, TicketTable, Ticket
    <3> QED
      BY <1>1, <2>5, <3>1, <3>2 DEF Lasting
  <2>11. Tables'
    <3>1. Known \subseteq Known'
      BY <2>10, KnownGrows
    <3>2. Ticket' = Ticket
      BY <1>1 DEF Ticket
    <3>3. tickets' \in [DOMAIN tickets' -> Ticket]
      BY <2>1, <2>3, <2>4, <2>5 DEF Tables, TicketTable
    <3>4. ASSUME NEW t \in DOMAIN tickets'
          PROVE  /\ t \in Handlers /\ Answered(t)'
                 /\ tickets'[t].sold + tickets'[t].reserved <= tickets'[t].total
      <4>1. CASE t = h
        BY <2>3, <2>5, <2>9, <4>1 DEF Ticket, Answered
      <4>2. CASE t # h
        BY <2>1, <2>5, <2>10, <4>2 DEF Tables, TicketTable, Lasting, Same, Answered
      <4> QED
        BY <4>1, <4>2
    <3>5. TicketTable'
      BY <3>2, <3>3, <3>4 DEF TicketTable
    <3> QED
      BY <1>1, <2>1, <2>8, <3>1, <3>5, SeatsAlone DEF Tables
  <2>12. Path(h)' /\ Batch(h)'
    <3>1. Known \subseteq Known'
      BY <2>10, KnownGrows
    <3> QED
      BY <2>1, <2>7, <2>9, <3>1 DEF Path, Found, Behind, OpOf, Batch, Answered
  <2>13. TicketCreated(h)'
    BY <2>3, <2>5, <2>9 DEF TicketCreated
  <2>14. Inventory(h)'
    BY <2>1, <2>6, <2>7, <2>9 DEF Inventory, IsInventory, AddsUp
  <2>15. HandlerInv(h)'
    BY <2>12, <2>13, <2>14 DEF HandlerInv
  <2> QED
    BY <1>1, <2>8, <2>10, <2>11, <2>15, StepInv
<1> QED
  BY <1>3

\* The event that is created, and the ticket type unless its event is gone.
LEMMA CreateEventInv ==
    ASSUME Inv, NEW h \in Handlers, CreateEvent(h) \/ CreateTicketType(h)
    PROVE  Inv'
<1>1. CASE CreateEvent(h)
  BY <1>1, InsertEventInv DEF CreateEvent
<1>2. CASE CreateTicketType(h)
  BY <1>2, InsertTicketInv, RefuseInv DEF CreateTicketType
<1> QED
  BY <1>1, <1>2

\* One more seat of a batch.
LEMMA CreatedOneMore ==
    ASSUME NEW h, NEW r, r.by = h, seats' = seats \cup {r}, req'[h] = req[h],
           NEW n \in Nat, HasCreated(h, n), r.typed = req[h].body[n + 1]
    PROVE  HasCreated(h, n + 1)'
<1>1. CreatedBy(h)' = CreatedBy(h) \cup {r.typed}
  BY DEF CreatedBy
<1>2. \A i : i \in 1..(n + 1) <=> i \in 1..n \/ i = n + 1
  OBVIOUS
<1>3. {req[h].body[i] : i \in 1..(n + 1)} = {req[h].body[i] : i \in 1..n} \cup {req[h].body[n + 1]}
  BY <1>2
<1> QED
  BY <1>1, <1>3 DEF HasCreated

\* How the request goes on after a seat.
AfterSeat(h, rest) ==
    \/ rest = <<>> /\ Answer(h, [loc[h] EXCEPT !.code = "CREATED", !.todo = rest])
    \/ rest # <<>> /\ Continue(h, "insert_seat", [loc[h] EXCEPT !.todo = rest])
    \/ h \in Faulty /\ Refuse(h, "FAILED")

\* A seat is inserted where the unique constraint lets it, acknowledged or not.
LEMMA InsertSeatInv ==
    ASSUME Inv, NEW h \in Handlers, pc[h] = "insert_seat", NextIsFree(h), InsertSeat(h),
           AfterSeat(h, Tail(loc[h].todo))
    PROVE  Inv'
<1>1. pc[h] = "insert_seat" /\ UNCHANGED <<events, tickets, holds>>
  BY DEF InsertSeat
<1>2. PICK place, rest : place = Head(loc[h].todo) /\ rest = Tail(loc[h].todo)
  OBVIOUS
<1>3. /\ req[h].event \in events /\ IsFree(req[h].event, place)
      /\ seats' = seats \cup {NewSeat(h, place)}
  BY <1>2 DEF NextIsFree, InsertSeat
<1>4. AfterSeat(h, rest)
  BY <1>2
<1>5. Inv'
  <2>1. /\ Types /\ Tables /\ Path(h) /\ Batch(h) /\ Inventory(h) /\ IsAnswer(loc[h])
        /\ IsAnswer(resp[h]) /\ loc[h].seats = {}
        /\ req[h] \in Requests[h] /\ req[h].body # Malformed /\ ~IsInvalid(req[h])
        /\ req[h].op = "seats" /\ req[h].event \in Known
    BY <1>1 DEF Inv, Types, HandlerInv, Path, Behind, OpOf
  <2>2. PICK r : r = NewSeat(h, place)
    OBVIOUS
  <2>3. /\ r.by = h /\ r.event = req[h].event /\ r.place = Trimmed[place] /\ r.typed = place
        /\ seats' = seats \cup {r}
    BY <1>3, <2>2 DEF NewSeat
  <2>4. PICK n \in 0..(Len(req[h].body) - 1) :
           /\ loc[h].todo \in Seq(DOMAIN Trimmed) /\ Len(loc[h].todo) = Len(req[h].body) - n
           /\ \A i \in 1..Len(loc[h].todo) : loc[h].todo[i] = req[h].body[n + i]
           /\ req[h].event \in events => HasCreated(h, n)
    BY <1>1, <2>1 DEF Batch
  <2>5. Len(req[h].body) \in Nat
    BY <1>1, <2>1, BodyIsList
  <2>6. /\ place = req[h].body[n + 1] /\ rest \in Seq(DOMAIN Trimmed)
        /\ Len(rest) = Len(req[h].body) - (n + 1) /\ n \in Nat
        /\ \A i \in 1..Len(rest) : rest[i] = req[h].body[(n + 1) + i]
    <3>1. PICK todo : todo = loc[h].todo
      OBVIOUS
    <3>2. todo \in Seq(DOMAIN Trimmed) /\ Len(todo) \in Nat /\ Len(todo) > 0 /\ n \in Nat
      BY <2>4, <2>5, <3>1
    <3>3. /\ Head(todo) = todo[1] /\ Tail(todo) \in Seq(DOMAIN Trimmed)
          /\ Len(Tail(todo)) = Len(todo) - 1
          /\ \A i \in 1..(Len(todo) - 1) : Tail(todo)[i] = todo[i + 1]
      BY <3>2
    <3>4. ASSUME NEW i \in 1..Len(rest) PROVE rest[i] = req[h].body[(n + 1) + i]
      <4>1. i \in Nat /\ i + 1 \in 1..Len(todo) /\ i \in 1..(Len(todo) - 1)
        BY <1>2, <3>1, <3>2, <3>3
      <4>2. rest[i] = todo[i + 1] /\ todo[i + 1] = req[h].body[n + (i + 1)]
        BY <1>2, <2>4, <3>1, <3>3, <4>1
      <4>3. n + (i + 1) = (n + 1) + i
        BY <3>2, <4>1
      <4> QED
        BY <4>2, <4>3
    <3>5. place = req[h].body[n + 1]
      <4>1. 1 \in 1..Len(todo)
        BY <3>2
      <4> QED
        BY <1>2, <2>4, <3>1, <3>3, <4>1
    <3>6. Len(rest) = Len(req[h].body) - (n + 1)
      BY <1>2, <2>4, <2>5, <3>1, <3>2, <3>3
    <3> QED
      BY <1>2, <3>1, <3>2, <3>3, <3>4, <3>5, <3>6
  <2>7. \A s \in seats : s.event = r.event => s.place # r.place
    BY <1>3, <2>3 DEF IsFree
  <2>8. HasCreated(h, n + 1)' \/ req'[h] # req[h]
    BY <1>3, <2>3, <2>4, <2>6, CreatedOneMore
  <2>9. ASSUME Alone(h), req'[h] = req[h], pc'[h] \in {"insert_seat", "done"}
        PROVE  Lasting /\ Tables' /\ Known \subseteq Known'
    <3>1. \A q \in Handlers : Answered(q) => Same(q)
      BY <2>9 DEF Alone, Answered
    <3>2. \A t \in DOMAIN tickets : tickets[t].sold \in Nat
      BY <2>1 DEF Tables, TicketTable, Ticket
    <3>3. Lasting
      BY <1>1, <2>3, <3>1, <3>2 DEF Lasting
    <3>4. Known \subseteq Known'
      BY <3>3, KnownGrows
    <3>5. TicketTable'
      BY <1>1, <2>1, <3>1 DEF Tables, TicketTable, Ticket, Answered, Same
    <3>6. \A s \in seats : req'[s.by] = req[s.by] /\ pc'[s.by] \in {"insert_seat", "done"}
      BY <2>1, <2>9, <3>1 DEF Tables, SeatTable, Answered, Same, Alone
    <3>7. SeatTable'
      BY <1>1, <1>3, <2>1, <2>3, <2>7, <2>9, <3>6 DEF Tables, SeatTable
    <3>8. HoldTable'
      BY <1>1, <2>1, <2>3 DEF Tables, HoldTable, Hold, IsActive
    <3> QED
      BY <1>1, <2>1, <3>3, <3>4, <3>5, <3>7, <3>8 DEF Tables
  <2>10. CASE rest = <<>> /\ Answer(h, [loc[h] EXCEPT !.code = "CREATED", !.todo = rest])
    <3>1. PICK l, a : l = loc[h] /\ a = [loc[h] EXCEPT !.code = "CREATED", !.todo = rest]
      OBVIOUS
    <3>2. IsAnswer(a) /\ a.tickets = loc[h].tickets /\ a.seats = {} /\ a.code = "CREATED"
      BY <2>1, <3>1 DEF IsAnswer
    <3>3. Moves(h, "done", l, a) /\ Alone(h) /\ Types'
      BY <1>1, <1>3, <2>10, <3>1, <3>2, AnswerMoves DEF Answer
    <3>4. /\ req'[h] = req[h] /\ resp'[h] = a /\ loc'[h] = l /\ pc'[h] = "done"
      BY <3>3 DEF Moves
    <3>5. Lasting /\ Tables' /\ Known \subseteq Known'
      BY <2>9, <3>3, <3>4
    <3>6. Path(h)' /\ TicketCreated(h)'
      BY <2>1, <3>2, <3>4, <3>5 DEF Path, Found, Behind, OpOf, TicketCreated, Answered
    <3>7. Batch(h)'
      <4>1. n + 1 = Len(req[h].body)
        BY <2>4, <2>5, <2>6, <2>10
      <4>2. HasCreated(h, Len(req[h].body))'
        BY <2>8, <3>4, <4>1 DEF HasCreated
      <4> QED
        BY <3>2, <3>4, <4>2 DEF Batch, HasCreated
    <3>8. Inventory(h)'
      BY <2>1, <3>1, <3>2, <3>4 DEF Inventory, IsInventory, AddsUp
    <3>9. HandlerInv(h)'
      BY <3>6, <3>7, <3>8 DEF HandlerInv
    <3> QED
      BY <2>3, <3>3, <3>5, <3>9, StepInv
  <2>11. CASE rest # <<>> /\ Continue(h, "insert_seat", [loc[h] EXCEPT !.todo = rest])
    <3>1. PICK l, a : l = [loc[h] EXCEPT !.todo = rest] /\ a = resp[h]
      OBVIOUS
    <3>2. IsAnswer(l) /\ l.tickets = loc[h].tickets /\ l.seats = {} /\ l.todo = rest
      BY <2>1, <3>1 DEF IsAnswer
    <3>3. Moves(h, "insert_seat", l, a) /\ Alone(h) /\ Types'
      BY <1>1, <1>3, <2>11, <3>1, <3>2, ContinueMoves DEF Continue, Labels
    <3>4. /\ req'[h] = req[h] /\ resp'[h] = a /\ loc'[h] = l /\ pc'[h] = "insert_seat"
      BY <3>3 DEF Moves
    <3>5. Lasting /\ Tables' /\ Known \subseteq Known'
      BY <2>9, <3>3, <3>4
    <3>6. Path(h)' /\ TicketCreated(h)'
      BY <1>1, <2>1, <3>1, <3>4, <3>5 DEF Path, Found, Behind, OpOf, TicketCreated, Answered
    <3>7. Batch(h)'
      <4>1. n + 1 \in 0..(Len(req[h].body) - 1)
        <5>1. Len(rest) \in Nat /\ Len(rest) > 0
          BY <2>6, <2>11
        <5> QED
          BY <2>4, <2>5, <2>6, <5>1
      <4>2. HasCreated(h, n + 1)'
        BY <2>8, <3>4
      <4> QED
        BY <2>6, <3>2, <3>4, <4>1, <4>2 DEF Batch, Answered
    <3>8. Inventory(h)'
      BY <2>1, <3>1, <3>2, <3>4 DEF Inventory, IsInventory, AddsUp, Answered
    <3>9. HandlerInv(h)'
      BY <3>6, <3>7, <3>8 DEF HandlerInv
    <3> QED
      BY <2>3, <3>3, <3>5, <3>9, StepInv
  <2>12. CASE h \in Faulty /\ Refuse(h, "FAILED")
    <3>1. PICK l, a : l = loc[h] /\ a = [loc[h] EXCEPT !.code = "FAILED"]
      OBVIOUS
    <3>2. IsAnswer(a) /\ a.tickets = loc[h].tickets /\ a.seats = {} /\ a.code = "FAILED"
      BY <2>1, <3>1 DEF IsAnswer
    <3>3. Moves(h, "done", l, a) /\ Alone(h) /\ Types'
      BY <1>1, <2>12, <3>1, <3>2, AnswerMoves DEF Refuse, Answer
    <3>4. /\ req'[h] = req[h] /\ resp'[h] = a /\ loc'[h] = l /\ pc'[h] = "done"
      BY <3>3 DEF Moves
    <3>5. Lasting /\ Tables' /\ Known \subseteq Known'
      BY <2>9, <3>3, <3>4
    <3>6. Path(h)' /\ TicketCreated(h)'
      BY <2>1, <3>2, <3>4, <3>5 DEF Path, Found, Behind, OpOf, TicketCreated, Answered
    <3>7. Batch(h)'
      <4>1. n + 1 \in 0..Len(req[h].body)
        BY <2>4, <2>5, <2>6
      <4>2. HasCreated(h, n + 1)' /\ IsLost(h)'
        BY <2>8, <2>12, <3>2, <3>4 DEF IsLost
      <4> QED
        BY <3>2, <3>4, <4>1, <4>2 DEF Batch, Answered
    <3>8. Inventory(h)'
      BY <2>1, <3>1, <3>2, <3>4 DEF Inventory, IsInventory, AddsUp
    <3>9. HandlerInv(h)'
      BY <3>6, <3>7, <3>8 DEF HandlerInv
    <3> QED
      BY <2>3, <3>3, <3>5, <3>9, StepInv
  <2> QED
    BY <1>4, <2>10, <2>11, <2>12 DEF AfterSeat
<1> QED
  BY <1>5

\* The next seat of a batch is inserted, or the batch ends.
LEMMA CreateSeatInv ==
    ASSUME Inv, NEW h \in Handlers, CreateSeat(h)
    PROVE  Inv'
<1>1. CASE UNCHANGED db /\ (Refuse(h, "INVALID") \/ Refuse(h, "FAILED"))
  BY <1>1, RefuseInv DEF CreateSeat
<1>2. CASE NextIsFree(h) /\ InsertSeat(h) /\ AfterSeat(h, Tail(loc[h].todo))
  BY <1>2, InsertSeatInv DEF CreateSeat
<1> QED
  BY <1>1, <1>2 DEF CreateSeat, AfterSeat

--------------------------------------------------------------------------------
(* Reading the inventory *)

\* The lines of a ticket inventory are about the ticket types of the event.
LEMMA TicketInventoryExact ==
    ASSUME TicketTable, NEW e
    PROVE  /\ AddsUp(TicketInventory(e))
           /\ \A t \in TicketInventory(e) :
                 t.id \in DOMAIN tickets /\ tickets[t.id].event = e /\ t.sold = tickets[t.id].sold
           /\ \A u \in DOMAIN tickets : tickets[u].event = e =>
                 \E t \in TicketInventory(e) : t.id = u /\ t.sold = tickets[u].sold
<1> DEFINE Line(u) == [id |-> u, total |-> tickets[u].total, sold |-> tickets[u].sold,
                       reserved |-> tickets[u].reserved,
                       available |-> tickets[u].total - tickets[u].sold - tickets[u].reserved]
<1>1. TicketInventory(e) = {Line(u) : u \in {v \in DOMAIN tickets : tickets[v].event = e}}
  BY DEF TicketInventory
<1>2. ASSUME NEW u \in DOMAIN tickets
      PROVE  /\ Line(u).id = u /\ Line(u).sold = tickets[u].sold
             /\ {Line(u).available, Line(u).sold, Line(u).reserved, Line(u).total} \subseteq Nat
             /\ Line(u).available + Line(u).sold + Line(u).reserved = Line(u).total
  <2>1. /\ tickets[u].total \in Nat /\ tickets[u].sold \in Nat /\ tickets[u].reserved \in Nat
        /\ tickets[u].sold + tickets[u].reserved <= tickets[u].total
    BY DEF TicketTable, Ticket
  <2>2. tickets[u].total - tickets[u].sold - tickets[u].reserved \in Nat
    BY <2>1
  <2> QED
    BY <2>1, <2>2
<1> HIDE DEF Line
<1>3. \A t \in TicketInventory(e) : \E u \in DOMAIN tickets : tickets[u].event = e /\ t = Line(u)
  BY <1>1
<1>4. \A u \in DOMAIN tickets : tickets[u].event = e => Line(u) \in TicketInventory(e)
  BY <1>1
<1>5. AddsUp(TicketInventory(e))
  BY <1>2, <1>3 DEF AddsUp
<1>6. \A t \in TicketInventory(e) :
         t.id \in DOMAIN tickets /\ tickets[t.id].event = e /\ t.sold = tickets[t.id].sold
  BY <1>2, <1>3
<1>7. \A u \in DOMAIN tickets : tickets[u].event = e =>
         \E t \in TicketInventory(e) : t.id = u /\ t.sold = tickets[u].sold
  BY <1>2, <1>4
<1> QED
  BY <1>5, <1>6, <1>7

\* The ticket types are read.
LEMMA ListTicketsInv ==
    ASSUME Inv, NEW h \in Handlers, ListTickets(h)
    PROVE  Inv'
<1>1. pc[h] = "list_tickets" /\ UNCHANGED db
  BY DEF ListTickets
<1>2. /\ Types /\ Tables /\ Path(h) /\ Inventory(h) /\ IsAnswer(loc[h])
      /\ IsAnswer(resp[h]) /\ loc[h].seats = {}
      /\ req[h].body # Malformed /\ ~IsInvalid(req[h])
      /\ req[h].op = "inventory" /\ req[h].event \in Known
      /\ \A o \in before[h] : o \in Handlers /\ Answered(o)
  BY <1>1 DEF Inv, Types, HandlerInv, Path, Behind, OpOf
<1>3. PICK T, l, a : /\ T = TicketInventory(req[h].event) /\ l = [loc[h] EXCEPT !.tickets = T]
                     /\ a = resp[h]
  OBVIOUS
<1>4. IsAnswer(l) /\ l.tickets = T /\ l.seats = {}
  BY <1>2, <1>3 DEF IsAnswer
<1>5. Moves(h, "list_seats", l, a) /\ Alone(h) /\ Types'
  BY <1>1, <1>3, <1>4, ContinueMoves DEF ListTickets, Continue, Labels
<1>6. Tables' /\ Lasting /\ Known \subseteq Known'
  BY <1>1, <1>5, TablesAlone, KnownGrows
<1>7. /\ req'[h] = req[h] /\ resp'[h] = a /\ loc'[h] = l /\ pc'[h] = "list_seats"
      /\ before'[h] = before[h]
  BY <1>5 DEF Moves
<1>8. /\ AddsUp(T)
      /\ \A t \in T : t.id \in DOMAIN tickets /\ tickets[t.id].event = req[h].event
                      /\ t.sold = tickets[t.id].sold
      /\ \A u \in DOMAIN tickets : tickets[u].event = req[h].event =>
            \E t \in T : t.id = u /\ t.sold = tickets[u].sold
  BY <1>2, <1>3, TicketInventoryExact DEF Tables
<1>9. Path(h)' /\ Batch(h)' /\ TicketCreated(h)'
  BY <1>1, <1>2, <1>3, <1>6, <1>7 DEF Path, Found, Behind, OpOf, Batch, TicketCreated, Answered
<1>10. ASSUME req[h].event \in events
       PROVE  ShowsTickets(h, T)'
  <2>1. UNCHANGED <<tickets, events>> /\ \A t \in DOMAIN tickets : tickets[t].sold \in Nat
    BY <1>1, <1>2 DEF db, Tables, TicketTable, Ticket
  <2>2. StillSold(h, T)'
    BY <1>7, <1>8, <2>1 DEF StillSold
  <2>3. ASSUME NEW o \in before[h] PROVE CoversTickets(h, o, T)'
    <3>1. o \in Handlers /\ Answered(o) /\ Same(o) /\ HandlerInv(o)
      BY <1>2, <1>6 DEF Lasting, Inv
    <3>2. ASSUME req[o].event = req[h].event, req[o].op = "ticket", resp[o].code = "CREATED"
          PROVE  \E t \in T : t.id = o
      BY <1>8, <1>10, <3>1, <3>2 DEF HandlerInv, TicketCreated
    <3>3. ASSUME req[o].event = req[h].event, IsInventory(o), NEW t \in resp[o].tickets
          PROVE  \E u \in T : u.id = t.id /\ u.sold >= t.sold
      <4>1. /\ t.id \in DOMAIN tickets /\ tickets[t.id].event = req[h].event
            /\ tickets[t.id].sold >= t.sold
        BY <1>10, <3>1, <3>3 DEF HandlerInv, Inventory, ShowsTickets, StillSold
      <4>2. PICK u \in T : u.id = t.id /\ u.sold = tickets[t.id].sold
        BY <1>8, <4>1
      <4> QED
        BY <4>1, <4>2
    <3> QED
      BY <1>7, <3>1, <3>2, <3>3 DEF CoversTickets, Same, IsInventory, Answered
  <2> QED
    BY <1>7, <2>2, <2>3 DEF ShowsTickets
<1>11. Inventory(h)'
  <2>1. events' = events
    BY <1>1 DEF db
  <2>2. req[h].event \in events => ShowsTickets(h, loc[h].tickets)'
    BY <1>4, <1>7, <1>10 DEF ShowsTickets, StillSold, CoversTickets
  <2>3. ~IsInventory(h)'
    BY <1>7 DEF IsInventory, Answered
  <2> QED
    BY <1>2, <1>3, <1>4, <1>7, <1>8, <2>1, <2>2, <2>3 DEF Inventory, AddsUp
<1>12. HandlerInv(h)'
  BY <1>9, <1>11 DEF HandlerInv
<1> QED
  BY <1>1, <1>5, <1>6, <1>12, StepInv DEF db

\* The lines of a seat inventory: one for each seat of the event, and a confirmed
\* one for each confirmed hold.
LEMMA SeatInventoryExact ==
    ASSUME HoldTable, NEW e
    PROVE  /\ \A x \in SeatInventory(e) :
                 /\ x = [seat |-> x.seat, hold |-> x.hold, status |-> x.status]
                 /\ x.seat \in seats /\ x.seat.event = e
                 /\ x.status = "confirmed" =>
                       [id |-> x.hold, seat |-> x.seat, status |-> "confirmed"] \in holds
           /\ \A x, y \in SeatInventory(e) : x.seat = y.seat => x = y
           /\ \A s \in seats : s.event = e => \E x \in SeatInventory(e) : x.seat = s
           /\ \A k \in holds : k.status = "confirmed" /\ k.seat.event = e =>
                 [seat |-> k.seat, hold |-> k.id, status |-> "confirmed"] \in SeatInventory(e)
<1> DEFINE Free(s) == [seat |-> s, hold |-> "none", status |-> "available"]
           Held(s, k) == [seat |-> s, hold |-> k.id,
                          status |-> IF IsActive(k) THEN k.status ELSE "available"]
           Lines(s) == IF JoinedHolds(s) = {} THEN {Free(s)} ELSE {Held(s, k) : k \in JoinedHolds(s)}
<1>1. \A x : x \in SeatInventory(e) <=> \E s \in seats : s.event = e /\ x \in Lines(s)
  BY DEF SeatInventory
<1>2. \A s, x : x \in Lines(s) =>
         /\ x = [seat |-> x.seat, hold |-> x.hold, status |-> x.status] /\ x.seat = s
         /\ \/ JoinedHolds(s) = {} /\ x = Free(s)
            \/ \E k \in JoinedHolds(s) : x = Held(s, k)
  OBVIOUS
<1>3. \A s : \A k \in JoinedHolds(s) : Held(s, k) \in Lines(s)
  OBVIOUS
<1>4. \A s : JoinedHolds(s) = {} => Free(s) \in Lines(s)
  OBVIOUS
<1>5. \A s : \A k \in JoinedHolds(s) :
         k \in holds /\ k.seat = s /\ IsActive(k) /\ k.status \in {"reserved", "confirmed"}
  BY DEF JoinedHolds, IsActive
<1>6. \A s : \A k \in JoinedHolds(s) : Held(s, k) = [seat |-> s, hold |-> k.id, status |-> k.status]
  BY <1>5
<1>7. \A s : Free(s).status # "confirmed"
  OBVIOUS
<1> HIDE DEF Free, Held, Lines
<1>8. \A s : \A j, k \in JoinedHolds(s) : j = k
  BY <1>5 DEF HoldTable
<1>9. \A k \in holds : k = [id |-> k.id, seat |-> k.seat, status |-> k.status] /\ k.seat \in seats
  BY DEF HoldTable, Hold
<1>10. ASSUME NEW x \in SeatInventory(e)
       PROVE  /\ x = [seat |-> x.seat, hold |-> x.hold, status |-> x.status]
              /\ x.seat \in seats /\ x.seat.event = e
              /\ x.status = "confirmed" =>
                    [id |-> x.hold, seat |-> x.seat, status |-> "confirmed"] \in holds
  <2>1. PICK s \in seats : s.event = e /\ x \in Lines(s)
    BY <1>1
  <2>2. x = [seat |-> x.seat, hold |-> x.hold, status |-> x.status] /\ x.seat = s
    BY <1>2, <2>1
  <2>3. ASSUME x.status = "confirmed"
        PROVE  [id |-> x.hold, seat |-> x.seat, status |-> "confirmed"] \in holds
    <3>1. PICK k \in JoinedHolds(s) : x = Held(s, k)
      BY <1>2, <1>7, <2>1, <2>3
    <3>2. k \in holds /\ k.seat = s /\ x = [seat |-> s, hold |-> k.id, status |-> k.status]
      BY <1>5, <1>6, <3>1
    <3>3. x.hold = k.id /\ x.status = k.status /\ x.seat = k.seat
      BY <3>2
    <3> QED
      BY <1>9, <2>3, <3>2, <3>3
  <2> QED
    BY <2>1, <2>2, <2>3
<1>11. ASSUME NEW x \in SeatInventory(e), NEW y \in SeatInventory(e), x.seat = y.seat
       PROVE  x = y
  <2>1. PICK s \in seats : x \in Lines(s)
    BY <1>1
  <2>2. PICK t \in seats : y \in Lines(t)
    BY <1>1
  <2>3. s = t
    BY <1>2, <1>11, <2>1, <2>2
  <2>4. \/ JoinedHolds(s) = {} /\ x = Free(s)
        \/ \E k \in JoinedHolds(s) : x = Held(s, k)
    BY <1>2, <2>1
  <2>5. \/ JoinedHolds(s) = {} /\ y = Free(s)
        \/ \E k \in JoinedHolds(s) : y = Held(s, k)
    BY <1>2, <2>2, <2>3
  <2> QED
    BY <1>8, <2>4, <2>5
<1>12. ASSUME NEW s \in seats, s.event = e
       PROVE  \E x \in SeatInventory(e) : x.seat = s
  <2>1. \E x : x \in Lines(s)
    BY <1>3, <1>4
  <2> QED
    BY <1>1, <1>2, <1>12, <2>1
<1>13. ASSUME NEW k \in holds, k.status = "confirmed", k.seat.event = e
       PROVE  [seat |-> k.seat, hold |-> k.id, status |-> "confirmed"] \in SeatInventory(e)
  <2>1. k \in JoinedHolds(k.seat)
    BY <1>13 DEF JoinedHolds, IsActive
  <2>2. Held(k.seat, k) = [seat |-> k.seat, hold |-> k.id, status |-> "confirmed"]
    BY <1>6, <1>13, <2>1
  <2> QED
    BY <1>1, <1>3, <1>9, <1>13, <2>1, <2>2
<1> QED
  BY <1>10, <1>11, <1>12, <1>13

\* The seats are read, and the inventory is answered.
LEMMA ListSeatsInv ==
    ASSUME Inv, NEW h \in Handlers, ListSeats(h)
    PROVE  Inv'
<1>1. pc[h] = "list_seats" /\ UNCHANGED db
  BY DEF ListSeats
<1>2. /\ Types /\ Tables /\ Path(h) /\ Inventory(h) /\ IsAnswer(loc[h]) /\ loc[h].seats = {}
      /\ req[h].body # Malformed /\ req[h].op = "inventory" /\ req[h].event \in Known
      /\ \A o \in before[h] : o \in Handlers /\ Answered(o)
  BY <1>1 DEF Inv, Types, HandlerInv, Path, Behind, OpOf
<1>3. PICK S, l, a : /\ S = SeatInventory(req[h].event) /\ l = loc[h]
                     /\ a = [loc[h] EXCEPT !.code = "OK", !.seats = S]
  OBVIOUS
<1>4. IsAnswer(a) /\ a.tickets = l.tickets /\ a.seats = S /\ a.code = "OK"
  BY <1>2, <1>3 DEF IsAnswer
<1>5. Moves(h, "done", l, a) /\ Alone(h) /\ Types'
  BY <1>1, <1>3, <1>4, AnswerMoves DEF ListSeats, Answer
<1>6. Tables' /\ Lasting /\ Known \subseteq Known'
  BY <1>1, <1>5, TablesAlone, KnownGrows
<1>7. /\ req'[h] = req[h] /\ resp'[h] = a /\ loc'[h] = l /\ pc'[h] = "done"
      /\ before'[h] = before[h] /\ UNCHANGED <<events, tickets, seats, holds>>
  BY <1>1, <1>5 DEF Moves, db
<1>8. /\ \A x \in S :
            /\ x = [seat |-> x.seat, hold |-> x.hold, status |-> x.status]
            /\ x.seat \in seats /\ x.seat.event = req[h].event
            /\ x.status = "confirmed" =>
                  [id |-> x.hold, seat |-> x.seat, status |-> "confirmed"] \in holds
      /\ \A x, y \in S : x.seat = y.seat => x = y
      /\ \A s \in seats : s.event = req[h].event => \E x \in S : x.seat = s
      /\ \A k \in holds : k.status = "confirmed" /\ k.seat.event = req[h].event =>
            [seat |-> k.seat, hold |-> k.id, status |-> "confirmed"] \in S
  BY <1>2, <1>3, SeatInventoryExact DEF Tables
<1>9. Path(h)' /\ Batch(h)' /\ TicketCreated(h)'
  BY <1>2, <1>6, <1>7 DEF Path, Found, Behind, OpOf, Batch, TicketCreated, Answered
<1>10. ASSUME req[h].event \in events
       PROVE  ShowsTickets(h, l.tickets)'
  <2>1. PICK T : T = l.tickets
    OBVIOUS
  <2>2. ShowsTickets(h, T)
    BY <1>1, <1>2, <1>3, <1>10, <2>1 DEF Inventory
  <2>3. ASSUME NEW o \in before[h] PROVE CoversTickets(h, o, T)'
    <3>1. CoversTickets(h, o, T) /\ Same(o)
      BY <1>2, <1>6, <2>2 DEF Lasting, ShowsTickets
    <3> QED
      BY <1>7, <3>1 DEF CoversTickets, Same, IsInventory, Answered
  <2> QED
    BY <1>7, <2>1, <2>2, <2>3 DEF ShowsTickets, StillSold, CoversTickets
<1>11. ASSUME req[h].event \in events
       PROVE  ShowsSeats(h)'
  <2>1. StillConfirmed(h)'
    BY <1>4, <1>7, <1>8 DEF StillConfirmed
  <2>2. ASSUME NEW o \in before[h] PROVE CoversSeats(h, o)'
    <3>1. o \in Handlers /\ Answered(o) /\ Same(o) /\ HandlerInv(o)
      BY <1>2, <1>6 DEF Lasting, Inv
    <3>2. ASSUME req[o].event = req[h].event, req[o].op = "seats", resp[o].code = "CREATED",
                 NEW p \in Range(req[o].body)
          PROVE  \E x \in S : p = x.seat.typed
      <4>1. req[o].body # Malformed
        BY <3>1, <3>2 DEF HandlerInv, Path, Found
      <4>2. HasCreated(o, Len(req[o].body))
        BY <1>11, <3>1, <3>2, <4>1 DEF HandlerInv, Batch
      <4>3. req[o].body \in Seq(DOMAIN Trimmed)
        BY <1>2, <3>1, <3>2, <4>1, BodyIsList DEF Answered
      <4>4. PICK i \in 1..Len(req[o].body) : p = req[o].body[i]
        BY <3>2, <4>3 DEF Range
      <4>5. PICK s \in seats : s.by = o /\ s.typed = p
        BY <4>2, <4>4 DEF HasCreated, CreatedBy
      <4>6. s.event = req[h].event
        BY <1>2, <3>2, <4>5 DEF Tables, SeatTable
      <4> QED
        BY <1>8, <4>5, <4>6
    <3>3. ASSUME req[o].event = req[h].event, IsInventory(o), NEW x \in resp[o].seats,
                 x.status = "confirmed"
          PROVE  x \in S
      <4>1. /\ x = [seat |-> x.seat, hold |-> x.hold, status |-> x.status]
            /\ x.seat.event = req[h].event
            /\ [id |-> x.hold, seat |-> x.seat, status |-> "confirmed"] \in holds
        BY <1>11, <3>1, <3>3 DEF HandlerInv, Inventory, ShowsSeats, StillConfirmed
      <4>2. PICK k \in holds : k = [id |-> x.hold, seat |-> x.seat, status |-> "confirmed"]
        BY <4>1
      <4>3. k.id = x.hold /\ k.seat = x.seat /\ k.status = "confirmed"
        BY <4>2
      <4>4. [seat |-> x.seat, hold |-> x.hold, status |-> "confirmed"] \in S
        BY <1>8, <4>1, <4>3
      <4> QED
        BY <3>3, <4>1, <4>4
    <3> QED
      BY <1>4, <1>7, <3>1, <3>2, <3>3 DEF CoversSeats, Same, IsInventory, Answered
  <2> QED
    BY <1>7, <2>1, <2>2 DEF ShowsSeats
<1>12. Inventory(h)'
  <2>1. req[h].event \in events => ShowsTickets(h, resp[h].tickets)'
    BY <1>4, <1>7, <1>10 DEF ShowsTickets, StillSold, CoversTickets
  <2> QED
    BY <1>2, <1>3, <1>4, <1>7, <1>8, <1>11, <2>1 DEF Inventory, AddsUp
<1>13. HandlerInv(h)'
  BY <1>9, <1>12 DEF HandlerInv
<1> QED
  BY <1>5, <1>6, <1>7, <1>13, StepInv

--------------------------------------------------------------------------------
(* What happens around the catalogue *)

\* A database call that fails, with or without effect.
LEMMA DBErrorInv ==
    ASSUME Inv, NEW h \in Handlers, DBError(h) \/ InsertLost(h)
    PROVE  Inv'
<1>1. CASE DBError(h)
  BY <1>1, RefuseInv DEF DBError
<1>2. CASE InsertLost(h)
  <2>1. Answer(h, [loc[h] EXCEPT !.code = "FAILED"]) /\ AfterSeat(h, Tail(loc[h].todo))
    BY <1>2 DEF InsertLost, Refuse, AfterSeat
  <2> QED
    BY <1>2, <2>1, InsertEventInv, InsertTicketInv, InsertSeatInv DEF InsertLost
<1> QED
  BY <1>1, <1>2

\* A step that is no handler's keeps the invariant when it keeps the tables.
LEMMA OthersInv ==
    ASSUME Inv, UNCHANGED <<pc, req, before, loc, resp>>, Tables', Lasting, seats' \subseteq seats
    PROVE  Inv'
<1>1. ASSUME NEW o \in Handlers PROVE HandlerInv(o)'
  BY BystanderInv DEF Same
<1>2. Types'
  BY DEF Inv, Types, IsAnswer, Answered
<1> QED
  BY <1>1, <1>2 DEF Inv

\* A seat without an active hold is reserved.
LEMMA ReserveSeatInv ==
    ASSUME Inv, ReserveSeat
    PROVE  Inv'
<1>1. PICK k \in HoldIds \ {x.id : x \in holds}, s \in seats :
         /\ \A x \in holds : x.seat = s => ~IsActive(x)
         /\ holds' = holds \cup {[id |-> k, seat |-> s, status |-> "reserved"]}
  BY DEF ReserveSeat
<1>2. UNCHANGED <<events, tickets, seats, pc, req, before, loc, resp>>
  BY DEF ReserveSeat
<1>3. Tables /\ \A t \in DOMAIN tickets : tickets[t].sold \in Nat
  BY DEF Inv, Tables, TicketTable, Ticket
<1>4. PICK r : r = [id |-> k, seat |-> s, status |-> "reserved"]
  OBVIOUS
<1>5. holds' = holds \cup {r} /\ r \in Hold /\ r.seat = s
  BY <1>1, <1>4 DEF Hold
<1>6. HoldTable'
  BY <1>1, <1>2, <1>3, <1>5 DEF Tables, HoldTable, Hold, IsActive
<1>7. TicketTable' /\ SeatTable' /\ Known' = Known
  BY <1>2, <1>3 DEF Tables, TicketTable, SeatTable, Ticket, Answered, Known
<1>8. Tables'
  BY <1>2, <1>3, <1>6, <1>7 DEF Tables
<1>9. Lasting
  BY <1>2, <1>3, <1>5 DEF Lasting, Same
<1> QED
  BY <1>2, <1>8, <1>9, OthersInv

\* A hold that is not confirmed is settled.
LEMMA SettleSeatInv ==
    ASSUME Inv, SettleSeat
    PROVE  Inv'
<1>1. PICK k \in holds, status \in {"confirmed", "cancelled"} :
         /\ k.status = "reserved"
         /\ holds' = (holds \ {k}) \cup {[k EXCEPT !.status = status]}
  BY DEF SettleSeat
<1>2. UNCHANGED <<events, tickets, seats, pc, req, before, loc, resp>>
  BY DEF SettleSeat
<1>3. Tables /\ \A t \in DOMAIN tickets : tickets[t].sold \in Nat
  BY DEF Inv, Tables, TicketTable, Ticket
<1>4. PICK r : r = [k EXCEPT !.status = status]
  OBVIOUS
<1>5. holds' = (holds \ {k}) \cup {r} /\ r \in Hold /\ r.seat = k.seat
  BY <1>1, <1>3, <1>4 DEF Tables, HoldTable, Hold
<1>6. HoldTable'
  <2>1. IsActive(k) /\ \A j \in holds : j.seat = k.seat /\ IsActive(j) => j = k
    BY <1>1, <1>3 DEF Tables, HoldTable, IsActive
  <2>2. \A j \in holds' : j = r \/ (j \in holds /\ j # k)
    BY <1>5
  <2>3. \A i, j \in holds' : i.seat = j.seat /\ IsActive(i) /\ IsActive(j) => i = j
    BY <1>3, <1>5, <2>1, <2>2 DEF Tables, HoldTable
  <2>4. holds' \subseteq Hold' 
    BY <1>2, <1>3, <1>5 DEF Tables, HoldTable, Hold
  <2> QED
    BY <2>3, <2>4 DEF HoldTable, IsActive
<1>7. TicketTable' /\ SeatTable' /\ Known' = Known
  BY <1>2, <1>3 DEF Tables, TicketTable, SeatTable, Ticket, Answered, Known
<1>8. Tables'
  BY <1>2, <1>3, <1>6, <1>7 DEF Tables
<1>9. Lasting
  BY <1>1, <1>2, <1>3, <1>5 DEF Lasting, Same
<1> QED
  BY <1>2, <1>8, <1>9, OthersInv

\* Units of a ticket type are reserved, confirmed or released.
LEMMA MoveUnitsInv ==
    ASSUME Inv, MoveUnits
    PROVE  Inv'
<1>1. PICK t \in DOMAIN tickets :
         \/ /\ tickets[t].total - tickets[t].sold - tickets[t].reserved >= 1
            /\ tickets' = [tickets EXCEPT ![t].reserved = @ + 1]
         \/ /\ tickets[t].reserved >= 1
            /\ tickets' = [tickets EXCEPT ![t].reserved = @ - 1, ![t].sold = @ + 1]
         \/ /\ tickets[t].reserved >= 1
            /\ tickets' = [tickets EXCEPT ![t].reserved = @ - 1]
  BY DEF MoveUnits
<1>2. UNCHANGED <<events, seats, holds, pc, req, before, loc, resp>>
  BY DEF MoveUnits
<1>3. Tables /\ Ticket' = Ticket /\ tickets \in [DOMAIN tickets -> Ticket]
  BY <1>2 DEF Inv, Tables, TicketTable, Ticket
<1>4. \E r : /\ tickets' = [tickets EXCEPT ![t] = r] /\ r \in Ticket /\ r.event = tickets[t].event
             /\ r.sold >= tickets[t].sold /\ r.sold + r.reserved <= r.total
  <2>1. PICK c : c = tickets[t]
    OBVIOUS
  <2>2. c \in Ticket /\ c.sold + c.reserved <= c.total
    BY <1>3, <2>1 DEF Tables, TicketTable
  <2>3. c.total \in Nat /\ c.sold \in Nat /\ c.reserved \in Nat /\ c.event \in events
    BY <2>2 DEF Ticket
  <2>4. CASE /\ c.total - c.sold - c.reserved >= 1
             /\ tickets' = [tickets EXCEPT ![t].reserved = @ + 1]
    <3>1. PICK r : r = [c EXCEPT !.reserved = c.reserved + 1]
      OBVIOUS
    <3>2. /\ r \in Ticket /\ r.event = c.event /\ r.sold = c.sold /\ r.reserved = c.reserved + 1
          /\ r.total = c.total
      BY <2>2, <2>3, <3>1 DEF Ticket
    <3>3. r.sold >= c.sold /\ r.sold + r.reserved <= r.total
      BY <2>2, <2>3, <2>4, <3>2
    <3>4. tickets' = [tickets EXCEPT ![t] = r]
      BY <1>3, <2>1, <2>4, <3>1
    <3> QED
      BY <2>1, <3>2, <3>3, <3>4
  <2>5. CASE /\ c.reserved >= 1
             /\ tickets' = [tickets EXCEPT ![t].reserved = @ - 1, ![t].sold = @ + 1]
    <3>1. PICK r : r = [c EXCEPT !.reserved = c.reserved - 1, !.sold = c.sold + 1]
      OBVIOUS
    <3>2. /\ r \in Ticket /\ r.event = c.event /\ r.sold = c.sold + 1
          /\ r.reserved = c.reserved - 1 /\ r.total = c.total
      <4>1. PICK u, v : u = c.reserved - 1 /\ v = c.sold + 1
        OBVIOUS
      <4>2. u \in Nat /\ v \in Nat
        BY <2>3, <2>5, <4>1
      <4>3. r = [c EXCEPT !.reserved = u, !.sold = v]
        BY <3>1, <4>1
      <4> QED
        BY <2>2, <4>1, <4>2, <4>3 DEF Ticket
    <3>3. r.sold >= c.sold /\ r.sold + r.reserved <= r.total
      BY <2>2, <2>3, <2>5, <3>2
    <3>4. tickets' = [tickets EXCEPT ![t] = r]
      BY <1>3, <2>1, <2>5, <3>1
    <3> QED
      BY <2>1, <3>2, <3>3, <3>4
  <2>6. CASE /\ c.reserved >= 1
             /\ tickets' = [tickets EXCEPT ![t].reserved = @ - 1]
    <3>1. PICK r : r = [c EXCEPT !.reserved = c.reserved - 1]
      OBVIOUS
    <3>2. /\ r \in Ticket /\ r.event = c.event /\ r.sold = c.sold /\ r.reserved = c.reserved - 1
          /\ r.total = c.total
      BY <2>2, <2>3, <2>6, <3>1 DEF Ticket
    <3>3. r.sold >= c.sold /\ r.sold + r.reserved <= r.total
      BY <2>2, <2>3, <2>6, <3>2
    <3>4. tickets' = [tickets EXCEPT ![t] = r]
      BY <1>3, <2>1, <2>6, <3>1
    <3> QED
      BY <2>1, <3>2, <3>3, <3>4
  <2> QED
    BY <1>1, <2>1, <2>4, <2>5, <2>6
<1>5. PICK r : /\ tickets' = [tickets EXCEPT ![t] = r] /\ r \in Ticket /\ r.event = tickets[t].event
               /\ r.sold >= tickets[t].sold /\ r.sold + r.reserved <= r.total
  BY <1>4
<1>6. /\ DOMAIN tickets' = DOMAIN tickets /\ tickets' \in [DOMAIN tickets' -> Ticket]
      /\ \A u \in DOMAIN tickets :
            /\ tickets'[u].event = tickets[u].event /\ tickets'[u].sold >= tickets[u].sold
            /\ tickets'[u].sold + tickets'[u].reserved <= tickets'[u].total
  <2>1. \A u \in DOMAIN tickets : tickets[u] \in Ticket
                /\ tickets[u].sold + tickets[u].reserved <= tickets[u].total
    BY <1>3 DEF Tables, TicketTable
  <2>2. \A u \in DOMAIN tickets : tickets[u].sold >= tickets[u].sold
    BY <2>1 DEF Ticket
  <2> QED
    BY <1>3, <1>5, <2>1, <2>2
<1>7. TicketTable'
  BY <1>2, <1>3, <1>6 DEF Tables, TicketTable, Answered
<1>8. HoldTable' /\ SeatTable' /\ Known' = Known
  BY <1>2, <1>3 DEF Tables, SeatTable, HoldTable, Hold, IsActive, Known, Answered
<1>9. Tables'
  BY <1>2, <1>3, <1>7, <1>8 DEF Tables
<1>10. Lasting
  BY <1>2, <1>6 DEF Lasting, Same
<1> QED
  BY <1>2, <1>9, <1>10, OthersInv

\* The fixtures are deleted with all that belongs to them.
LEMMA ResetInv ==
    ASSUME Inv, Reset
    PROVE  Inv'
<1>1. /\ events' = events \ StressEvents
      /\ seats' = {s \in seats : s.event \notin StressEvents}
      /\ holds' = {k \in holds : k.seat.event \notin StressEvents}
      /\ UNCHANGED <<pc, req, before, loc, resp>>
  BY DEF Reset
<1>2. Tables
  BY DEF Inv
<1>3. /\ DOMAIN tickets' = {t \in DOMAIN tickets : tickets[t].event \notin StressEvents}
      /\ \A t \in DOMAIN tickets' : tickets'[t] = tickets[t]
      /\ tickets' = [t \in DOMAIN tickets' |-> tickets[t]]
  BY DEF Reset, Restrict
<1>4. \A t \in DOMAIN tickets : tickets[t] \in Ticket
  BY <1>2 DEF Tables, TicketTable
<1>5. \A t \in DOMAIN tickets' : tickets[t] \in Ticket'
  BY <1>1, <1>3, <1>4 DEF Ticket
<1>6. TicketTable'
  <2>1. tickets' \in [DOMAIN tickets' -> Ticket']
    BY <1>3, <1>5
  <2> QED
    BY <1>1, <1>2, <1>3, <2>1 DEF Tables, TicketTable, Answered
<1>7. SeatTable' /\ Known' = Known
  BY <1>1, <1>2 DEF Tables, SeatTable, Known, Answered
<1>8. HoldTable'
  BY <1>1, <1>2 DEF Tables, HoldTable, Hold, IsActive
<1>9. Tables'
  BY <1>1, <1>2, <1>6, <1>7, <1>8 DEF Tables
<1>10. Lasting
  <2>1. \A t \in DOMAIN tickets : tickets[t].sold \in Nat
    BY <1>4 DEF Ticket
  <2> QED
    BY <1>1, <1>3, <2>1 DEF Lasting, Same
<1> QED
  BY <1>1, <1>9, <1>10, OthersInv

--------------------------------------------------------------------------------
(* The theorems *)

\* Nothing is created and nothing asked.
LEMMA InitInv == Init => Inv
<1> SUFFICES ASSUME Init PROVE Inv
  OBVIOUS
<1>1. Types
  BY DEF Init, Types, Labels, IsAnswer, NoAnswer
<1>2. Tables
  BY DEF Init, Tables, TicketTable, SeatTable, HoldTable, Known
<1>3. ASSUME NEW h \in Handlers PROVE HandlerInv(h)
  <2>1. pc[h] = "idle" /\ loc[h] = NoAnswer /\ resp[h] = NoAnswer
    BY DEF Init
  <2>2. Path(h) /\ Batch(h) /\ TicketCreated(h)
    BY <2>1 DEF Path, Found, Behind, OpOf, Batch, TicketCreated, Answered, NoAnswer
  <2>3. Inventory(h)
    BY <2>1 DEF Inventory, IsInventory, Answered, AddsUp, NoAnswer
  <2> QED
    BY <2>2, <2>3 DEF HandlerInv
<1> QED
  BY <1>1, <1>2, <1>3 DEF Inv

\* Every step keeps the invariant.
LEMMA NextInv == Inv /\ [Next]_vars => Inv'
<1> SUFFICES ASSUME Inv, [Next]_vars PROVE Inv'
  OBVIOUS
<1>1. CASE UNCHANGED vars
  <2>1. UNCHANGED db /\ UNCHANGED <<pc, req, before, loc, resp>>
        /\ UNCHANGED <<events, tickets, seats, holds>>
    BY <1>1 DEF vars, db
  <2>2. Tables /\ \A t \in DOMAIN tickets : tickets[t].sold \in Nat
    BY DEF Inv, Tables, TicketTable, Ticket
  <2>3. Tables'
    BY <2>1, <2>2 DEF Tables, TicketTable, SeatTable, HoldTable, Ticket, Hold, IsActive, Known, Answered
  <2>4. Lasting
    BY <2>1, <2>2 DEF Lasting, Same
  <2> QED
    BY <2>1, <2>3, <2>4, OthersInv
<1>2. ASSUME NEW h \in Handlers, BeginRequest(h) \/ Step(h) \/ DBError(h) \/ InsertLost(h)
      PROVE  Inv'
  BY <1>2, BeginRequestInv, GetEventInv, CreateEventInv, CreateSeatInv,
     ListTicketsInv, ListSeatsInv, DBErrorInv DEF Step
<1>3. CASE ReserveSeat \/ SettleSeat \/ MoveUnits \/ Reset
  BY <1>3, ReserveSeatInv, SettleSeatInv, MoveUnitsInv, ResetInv
<1> QED
  BY <1>1, <1>2, <1>3 DEF Next, AllQuiet

\* The inductive invariant of the catalogue: as long as an event exists, its rows
\* are those its answered requests created, and every answered inventory is still
\* true of what it says was sold.
THEOREM CatalogInvariant == Spec => []Inv
<1>1. Init => Inv
  BY InitInv
<1>2. Inv /\ [Next]_vars => Inv'
  BY NextInv
<1> QED
  BY <1>1, <1>2, PTL DEF Spec

\* The foreign keys and the unique constraint on places hold in every state,
\* though an event may be deleted between GetEvent and the INSERT.
THEOREM CatalogTypeCorrect == Spec => []TypeOK
<1>1. Inv => TypeOK
  BY DEF Inv, Tables, TicketTable, SeatTable, HoldTable, Ticket, Hold, TypeOK
<1> QED
  BY <1>1, CatalogInvariant, PTL

\* The prefix of a list, as a set.
LEMMA RangeOfPrefix ==
    ASSUME NEW S, NEW body \in Seq(S), NEW n \in 0..Len(body)
    PROVE  Range(SubSeq(body, 1, n)) = {body[i] : i \in 1..n} /\ Range(body) = {body[i] : i \in 1..Len(body)}
<1>1. Len(body) \in Nat /\ DOMAIN body = 1..Len(body)
  OBVIOUS
<1>2. SubSeq(body, 1, n) = [i \in 1..n |-> body[i]]
  BY <1>1
<1> QED
  BY <1>1, <1>2 DEF Range

\* A batch of seats leaves a prefix of what was asked for, and all of it when it
\* answers CREATED, whatever other batches, resets and failures do in between; an
\* INSERT that is committed and not acknowledged counts as created.
THEOREM BatchesArePrefixes == Spec => []BatchIsPrefix
<1>1. Inv => BatchIsPrefix
  <2> SUFFICES ASSUME Inv, NEW h \in Handlers, pc[h] = "done", req[h].op = "seats",
                      req[h].body # Malformed, req[h].event \in events
               PROVE  IF resp[h].code = "CREATED"
                      THEN CreatedBy(h) = Range(req[h].body)
                      ELSE \E n \in 0..Len(req[h].body) :
                              /\ CreatedBy(h) = Range(SubSeq(req[h].body, 1, n))
                              /\ n < Len(req[h].body) \/ req[h].body = <<>> \/ IsLost(h)
    BY DEF BatchIsPrefix
  <2>1. req[h].body \in Seq(DOMAIN Trimmed)
    BY BodyIsList DEF Inv
  <2>2. \A n \in 0..Len(req[h].body) :
           /\ Range(SubSeq(req[h].body, 1, n)) = {req[h].body[i] : i \in 1..n}
           /\ Range(req[h].body) = {req[h].body[i] : i \in 1..Len(req[h].body)}
    BY <2>1, RangeOfPrefix
  <2>3. Len(req[h].body) \in 0..Len(req[h].body)
    BY <2>1
  <2>4. IF resp[h].code = "CREATED"
        THEN HasCreated(h, Len(req[h].body))
        ELSE \E n \in 0..Len(req[h].body) :
                HasCreated(h, n) /\ (n < Len(req[h].body) \/ req[h].body = <<>> \/ IsLost(h))
    BY DEF Inv, HandlerInv, Batch, Answered
  <2> QED
    BY <2>2, <2>3, <2>4 DEF HasCreated
<1> QED
  BY <1>1, CatalogInvariant, PTL

\* An inventory shows each seat once, units that add up, and everything created
\* before it was asked for.
THEOREM InventoriesAreExact == Spec => []InventoryIsExact
<1>1. Inv => InventoryIsExact
  <2> SUFFICES ASSUME Inv, NEW h \in Handlers
               PROVE  /\ \A x, y \in resp[h].seats : x.seat = y.seat => x = y
                      /\ \A t \in resp[h].tickets :
                            /\ t.available >= 0 /\ t.sold >= 0 /\ t.reserved >= 0
                            /\ t.available + t.sold + t.reserved = t.total
                      /\ \A o \in before[h] :
                            /\ req[h].op = "inventory" /\ resp[h].code = "OK"
                            /\ req[o].op \in {"seats", "ticket"} /\ resp[o].code = "CREATED"
                            /\ req[o].event = req[h].event /\ req[h].event \in events
                            => IF req[o].op = "ticket"
                               THEN \E t \in resp[h].tickets : t.id = o
                               ELSE Range(req[o].body) \subseteq {x.seat.typed : x \in resp[h].seats}
    BY DEF InventoryIsExact
  <2>1. Inventory(h)
    BY DEF Inv, HandlerInv
  <2>2. \A t \in resp[h].tickets :
           /\ t.available >= 0 /\ t.sold >= 0 /\ t.reserved >= 0
           /\ t.available + t.sold + t.reserved = t.total
    BY <2>1 DEF Inventory, AddsUp
  <2>3. ASSUME NEW o \in before[h], req[h].op = "inventory", resp[h].code = "OK",
               req[o].op \in {"seats", "ticket"}, resp[o].code = "CREATED",
               req[o].event = req[h].event, req[h].event \in events
        PROVE  IF req[o].op = "ticket"
               THEN \E t \in resp[h].tickets : t.id = o
               ELSE Range(req[o].body) \subseteq {x.seat.typed : x \in resp[h].seats}
    <3>1. IsInventory(h)
      BY <2>3 DEF IsInventory, Inv, HandlerInv, Path
    <3>2. CoversTickets(h, o, resp[h].tickets) /\ CoversSeats(h, o)
      BY <2>1, <2>3, <3>1 DEF Inventory, ShowsTickets, ShowsSeats
    <3> QED
      BY <2>3, <3>2 DEF CoversTickets, CoversSeats
  <2> QED
    BY <2>1, <2>2, <2>3 DEF Inventory
<1> QED
  BY <1>1, CatalogInvariant, PTL

\* Of two inventories of an event, the later one shows what the earlier one shows
\* as sold.
THEOREM SalesStaySold == Spec => []SoldStaysSold
<1>1. Inv => SoldStaysSold
  <2> SUFFICES ASSUME Inv, NEW h \in Handlers, NEW o \in before[h],
                      req[h].op = "inventory", resp[h].code = "OK",
                      req[o].op = "inventory", resp[o].code = "OK",
                      req[o].event = req[h].event, req[h].event \in events
               PROVE  /\ \A x \in resp[o].seats : x.status = "confirmed" => x \in resp[h].seats
                      /\ \A t \in resp[o].tickets :
                            \E u \in resp[h].tickets : u.id = t.id /\ u.sold >= t.sold
    BY DEF SoldStaysSold
  <2>1. Inventory(h) /\ o \in Handlers /\ Answered(o)
    BY DEF Inv, HandlerInv, Types
  <2>2. IsInventory(h) /\ IsInventory(o)
    BY <2>1 DEF IsInventory, Inv, HandlerInv, Path
  <2>3. CoversTickets(h, o, resp[h].tickets) /\ CoversSeats(h, o)
    BY <2>1, <2>2 DEF Inventory, ShowsTickets, ShowsSeats
  <2> QED
    BY <2>2, <2>3 DEF CoversTickets, CoversSeats
<1> QED
  BY <1>1, CatalogInvariant, PTL

================================================================================
