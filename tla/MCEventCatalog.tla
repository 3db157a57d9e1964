---------------------------- MODULE MCEventCatalog -----------------------------
(* Small instances of EventCatalog. *)
EXTENDS EventCatalog, TLC

CONSTANTS Bad, Empty

Places == {"A1", " A1", "A2", "  "}
MCTrimmed == "A1" :> "A1" @@ " A1" :> "A1" @@ "A2" :> "A2" @@ "  " :> Empty

Ask(op, e) == [op |-> op, event |-> e, body |-> <<>>]
Seats(e, list) == [op |-> "seats", event |-> e, body |-> list]
Ticket(e, name, total) == [op |-> "ticket", event |-> e, body |-> [name |-> name, total |-> total]]
Event(name, starts, ends) ==
    [op |-> "event", event |-> "new", body |-> [name |-> name, starts |-> starts, ends |-> ends]]

\* Batches that overlap, are invalid in the middle, or race with a reset.
BatchRequests ==
    "h1" :> {Seats("e1", <<"A1", "A2">>), Seats("s1", <<"A1", "A2">>)}
    @@ "h2" :> {Seats("e1", <<"A2", " A1">>), Seats("e1", <<"A2", "  ", "A1">>),
                Seats("e1", <<>>), Seats("e1", Bad), Seats("e1", <<"A1", " A1">>)}
    @@ "h3" :> {Ticket("s1", "t", 1), Ticket("e1", "t", -1), Ticket(Bad, "t", 1),
                Event("n", 1, 2), Event("n", 1, 1), Event("n", 0, 2), Ask("get", "h3"), Ask("get", "e1")}

\* Inventories before, during and after changes.
InventoryRequests ==
    "h1" :> {Seats("e1", <<"A1">>), Ticket("e1", "t", 1)}
    @@ "h2" :> {Seats("e1", <<"A2">>), Ask("inventory", "e1")}
    @@ "h3" :> {Ask("inventory", "e1")}

AllRequests == [h \in Handlers |-> BatchRequests[h] \cup InventoryRequests[h]]

\* The workloads are explored side by side and not mixed; one hold is enough for
\* the batches.
Workload(requests) == \A h \in Handlers : pc[h] = "idle" \/ req[h] \in requests[h]

OneWorkload ==
    \/ Workload(BatchRequests) /\ Cardinality(holds) <= 1
    \/ Workload(InventoryRequests)

================================================================================
