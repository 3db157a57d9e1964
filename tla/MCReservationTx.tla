--------------------------- MODULE MCReservationTx ---------------------------
(***************************************************************************)
(* Instances of ReservationTx.  A .cfg picks the inventory, the handlers,  *)
(* the workers, the bounds and one of the sets of requests below.          *)
(***************************************************************************)
EXTENDS ReservationTx, TLC

\* ann and bob are two sessions of one user, guest and stranger are anonymous.
MCSessions == {"ann", "bob", "guest", "stranger"}
MCUserOf == [s \in MCSessions |-> IF s \in {"ann", "bob"} THEN "user" ELSE NoUser]

OneUnit == [t \in TicketTypes |-> 1]
TwoUnits == [t \in TicketTypes |-> 2]
MCTicketEvent == [t \in TicketTypes |-> "show"]

\* Seats 1 and 2 belong to the show, seat 3 to another event.
MCSeatEvent == [s \in Seats |-> IF s = 3 THEN "gala" ELSE "show"]

HandlerSymmetry == Permutations(Handlers)

--------------------------------------------------------------------------------
Quantity(s, k, t, q) ==
    [op |-> "quantity", session |-> s, key |-> k, event |-> "show",
     ticket |-> t, quantity |-> q]
SeatRequest(s, k, seats) ==
    [op |-> "seats", session |-> s, key |-> k, event |-> "show", seats |-> seats]
On(op, s, r) == [op |-> op, session |-> s, id |-> r]

\* Every handler may get any of these requests.
Everyone(requests) == [h \in Handlers |-> requests]

\* Every handler may get what it gets in one of the workloads.
Join(workloads) == [h \in Handlers |-> UNION {w[h] : w \in workloads}]

\* Two keys compete for two units, and every lifecycle operation on the first
\* reservation, by its owner and by another session of the same user.
QuantityRequests == Everyone(
    {Quantity("ann", "k1", "ga", 1), Quantity("ann", "k2", "ga", 2),
     On("confirm", "ann", 1), On("cancel", "bob", 1), On("get", "ann", 1)})

\* Overlapping seat requests under keys of their own, and the lifecycle of the
\* first reservation.
SeatRequests == Everyone(
    {SeatRequest("ann", "k1", <<2, 1>>), SeatRequest("guest", "k2", <<1, 2>>),
     On("confirm", "ann", 1), On("cancel", "bob", 1)})

\* One key used for both kinds of reservation, and a hold of each kind that a
\* worker batch may find overdue.
MixedRequests == Everyone(
    {Quantity("ann", "k1", "ga", 1), SeatRequest("ann", "k1", <<1>>),
     Quantity("guest", "k2", "ga", 2)})

\* What validation and lookups refuse, and strangers' attempts on somebody
\* else's reservation.
RefusedRequests == Everyone(
    {SeatRequest("guest", "k2", <<1>>), SeatRequest("guest", BlankKey, <<1>>),
     SeatRequest("guest", "k2", <<>>), SeatRequest("guest", "k2", <<1, 1>>),
     SeatRequest("guest", "k2", <<Malformed>>), SeatRequest("guest", "k2", <<1, 3>>),
     Quantity("guest", BlankKey, "ga", 1), Quantity("guest", "k1", "ga", 0),
     Quantity("guest", "k1", Malformed, 1),
     [Quantity("guest", "k1", "ga", 1) EXCEPT !.event = "gala"],
     On("get", "guest", Malformed), On("get", "stranger", 1),
     On("cancel", "stranger", 1), On("confirm", "ann", 1)})

\* A request and its retry, and the confirmation that may or may not follow.
RetryRequests == Everyone(
    {Quantity("ann", "k1", "ga", 1), On("confirm", "ann", 1), On("cancel", "ann", 1)})

\* A client sends the same key for the only unit again.
LastUnitRequests == Everyone({Quantity("ann", "k1", "ga", 1)})

CONSTANTS h1, h2, h3, h4, w1, w2

\* A pair of seats, then one key for two different single seats, the second of
\* which may be a retry of the first, or a confirmation of the pair.
KeyReuse ==
    (h1 :> {SeatRequest("guest", "k1", <<1, 2>>)})
        @@ (h2 :> {SeatRequest("ann", "k2", <<1>>)})
        @@ (h3 :> {SeatRequest("ann", "k2", <<2>>), SeatRequest("ann", "k2", <<1>>),
                   On("confirm", "guest", 1)})

\* Four holds on two ticket types.
FourHolds ==
    (h1 :> {Quantity("ann", "k1", "ga", 1)}) @@ (h2 :> {Quantity("ann", "k2", "vip", 1)})
        @@ (h3 :> {Quantity("ann", "k3", "vip", 1)}) @@ (h4 :> {Quantity("ann", "k4", "ga", 1)})

\* Explore only behaviours whose requests are served one after the other; a
\* violation found among them is one of the specification.
OneRequestAtATime ==
    Cardinality({h \in Handlers : pc[h] \notin {"idle", "done"}}) <= 1

\* The workloads of one run are explored side by side and not mixed: the requests
\* so far, of at most n handlers, all belong to one of them.  A violation found
\* under such a constraint is one of the specification.
Workload(requests, n) ==
    /\ \A h \in Handlers : req[h] = NoRows \/ req[h] \in requests[h]
    /\ Cardinality({h \in Handlers : req[h] # NoRows}) <= n

\* Nothing has failed so far.
NoFault ==
    /\ \A h \in Handlers : resp[h].code # "FAILED"
    /\ \A w \in Workers : pc[w] # "down"

AllWorkloads ==
    Join({QuantityRequests, SeatRequests, MixedRequests, RefusedRequests, RetryRequests})
OneWorkload ==
    \/ NoFault /\ \/ Workload(QuantityRequests, 3) \/ Workload(SeatRequests, 3)
                  \/ Workload(MixedRequests, 3) \/ Workload(RefusedRequests, 2)
    \/ Workload(RetryRequests, 3)

================================================================================
