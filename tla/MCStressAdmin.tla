----------------------------- MODULE MCStressAdmin -----------------------------
(* Small instances of StressAdmin. *)
EXTENDS StressAdmin, TLC

Hold(type, e, q, expires) ==
    [event |-> e, type |-> type, quantity |-> q, status |-> "reserved", expires |-> expires]

Reserve(op, e, q) == [op |-> op, event |-> e, quantity |-> q]
On(op, r) == [op |-> op, id |-> r]
Admin(op) == [op |-> op]

\* Two overdue holds on the stress event, one of each kind, a batch together.
MCHolds == "r0" :> Hold("quantity", "s1", 1, 0) @@ "r1" :> Hold("seats", "s1", 0, 0)

\* A third one: one more than a batch has.
MCThreeHolds == MCHolds @@ "r2" :> Hold("quantity", "s1", 1, 0)

\* A Reset against a new quantity reservation, a transition or a read of the one
\* there is, and the worker.
QuantityRequests ==
    "h1" :> {Reserve("quantity", "s1", 2), Reserve("quantity", "m1", 1)}
    @@ "h2" :> {On("confirm", "r0"), On("cancel", "r0"), On("get", "r0")}
    @@ "h3" :> {Admin("reset")}

\* The same with seats.
SeatRequests ==
    "h1" :> {Reserve("seats", "s1", 0)}
    @@ "h2" :> {Reserve("seats", "s1", 0), On("cancel", "r1"), On("get", "r1")}
    @@ "h3" :> {Admin("reset")}

\* Two resets, a seed that may break, and a report.
AdminRequests ==
    "h1" :> {Admin("assert"), Admin("seed"), On("get", "r0")}
    @@ "h2" :> {Admin("reset")}
    @@ "h3" :> {Admin("reset"), Admin("seed")}

\* A report next to whoever changes what it reads; the quantity request sells
\* the stress event out.
ReportRequests ==
    "h1" :> {Admin("assert")}
    @@ "h2" :> {Reserve("quantity", "s1", 2), Reserve("seats", "m1", 0)}
    @@ "h3" :> {Admin("reset"), On("cancel", "r1")}

\* A Reset against a request of each kind.
LivenessRequests ==
    "h2" :> {Reserve("quantity", "s1", 2), Reserve("seats", "s1", 0),
             On("confirm", "r0"), On("cancel", "r1")}
    @@ "h3" :> {Admin("reset")}

AllRequests ==
    [h \in Handlers |-> UNION {w[h] : w \in {QuantityRequests, SeatRequests, AdminRequests,
                                             ReportRequests}}]

\* The workloads are explored side by side and not mixed; what differs between
\* environments is only in the one of the admin endpoints.
Workload(requests, locals) ==
    /\ \A h \in Handlers : req[h] = NoRows \/ req[h] \in requests[h]
    /\ local \in locals

OneWorkload ==
    \/ Workload(QuantityRequests, {TRUE})
    \/ Workload(SeatRequests, {TRUE})
    \/ Workload(AdminRequests, BOOLEAN)
    \/ Workload(ReportRequests, {TRUE})

================================================================================
