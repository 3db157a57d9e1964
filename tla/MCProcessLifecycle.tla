--------------------------- MODULE MCProcessLifecycle --------------------------
(* Small instances of ProcessLifecycle. *)
EXTENDS ProcessLifecycle, TLC

Defaults == [startup |-> Unset, readiness |-> Unset, shutdown |-> Unset, interval |-> Unset,
             batch |-> Unset, others |-> Unset, url |-> "url", addr |-> "addr"]

\* Every way to be refused, and timeouts and intervals that are not positive.
AllEnvironments ==
    {Defaults}
    \cup {[Defaults EXCEPT !.startup = x] : x \in {Malformed, 0}}
    \cup {[Defaults EXCEPT !.readiness = 0], [Defaults EXCEPT !.shutdown = 0]}
    \cup {[Defaults EXCEPT !.interval = x] : x \in {0, 2}}
    \cup {[Defaults EXCEPT !.batch = x] : x \in {Malformed, -1, 0, 3}}
    \cup {[Defaults EXCEPT !.others = Malformed], [Defaults EXCEPT !.addr = Unset]}
    \cup {[Defaults EXCEPT !.url = x] : x \in {Unset, Malformed}}

\* Batch sizes around the limits of the scaled int32.
BatchSizes == {[Defaults EXCEPT !.batch = n] : n \in 1..9}

\* The second handler does not check readiness, and serves in the default
\* environment only.
MCKinds == "h1" :> {"ready", "work"} @@ "h2" :> {"work"}
SecondHandler == env = Defaults \/ pc["h2"] = "idle"
NoKinds == [h \in Handlers |-> {}]

================================================================================
