------------------------- MODULE ProcessLifecycleProofs ------------------------
(***************************************************************************)
(* Proofs about the two processes: how they end, and what the readiness    *)
(* check says.                                                             *)
(*                                                                         *)
(* The exits are justified because a request is accepted only by a process *)
(* that catches its signals or whose listener has failed, because only a   *)
(* signal ends the context of the worker, and because the worker polls     *)
(* only after start-up.  The answers of the readiness check are honest     *)
(* because a request that is being served has seen every state of          *)
(* PostgreSQL and Redis since it arrived.                                  *)
(***************************************************************************)
EXTENDS ProcessLifecycle, TLAPS

\* Where main of each process can be, and the part of it before any request is
\* accepted.
ApiLabels == {"off", "load", "postgres", "redis", "serve", "drain", "exited"}
WorkerLabels == {"off", "load", "postgres", "redis", "run", "poll", "wait", "exited"}
Starting == {"off", "load", "postgres", "redis"}

\* The variables are functions on the processes, the dependencies and the
\* handlers.
Types ==
    /\ DOMAIN cfg = Procs /\ DOMAIN label = Procs /\ DOMAIN code = Procs /\ DOMAIN sent = Procs
    /\ DOMAIN caught = Procs /\ DOMAIN ctxDone = Procs /\ DOMAIN late = Procs
    /\ DOMAIN dep = Deps
    /\ DOMAIN pc = Handlers /\ DOMAIN resp = Handlers /\ DOMAIN gone = Handlers
    /\ DOMAIN expired = Handlers /\ DOMAIN during = Handlers
    /\ label["api"] \in ApiLabels /\ label["worker"] \in WorkerLabels

\* Requests are accepted after start-up; from the configuration on, only a failed
\* listener gives a signal its deadly meaning back.
ApiInv ==
    /\ label["api"] \in Starting => InFlight = {}
    /\ label["api"] \in {"postgres", "redis", "serve", "drain"} =>
          caught["api"] \/ listener = "failed"
    /\ label["api"] = "exited" /\ InFlight # {} =>
          \/ code["api"] = "error" /\ late["api"]
          \/ code["api"] = "killed" /\ listener = "failed"

\* Only a signal ends the worker's context, and nothing was polled before Run.
WorkerInv ==
    /\ ctxDone["worker"] => sent["worker"]
    /\ code["worker"] = "ok" => sent["worker"]
    /\ label["worker"] \in Starting \cup {"run"} => lastPoll = "none"
    /\ code["worker"] \in {"error", "panic"} => label["worker"] = "exited" /\ lastPoll = "none"

\* What a request has seen of PostgreSQL and Redis, and what it answers.
RequestInv(h) ==
    /\ resp[h] # "none" => pc[h] = "done"
    /\ pc[h] \notin {"idle", "done"} => \A d \in Deps : Now(d) \in during[h]
    /\ pc[h] = "ping_redis" => <<"postgres", "up">> \in during[h]
    /\ resp[h] = "ready" => {<<"postgres", "up">>, <<"redis", "up">>} \subseteq during[h]
    /\ resp[h] = "POSTGRES_UNAVAILABLE" => expired[h] \/ <<"postgres", "refused">> \in during[h]
    /\ resp[h] = "REDIS_UNAVAILABLE" =>
          expired[h] \/ {<<"redis", "refused">>, <<"redis", "silent">>} \cap during[h] # {}

Inv == Types /\ ApiInv /\ WorkerInv /\ \A h \in Handlers : RequestInv(h)

--------------------------------------------------------------------------------
\* A step that leaves the requests, PostgreSQL and Redis alone.
LEMMA RequestsAlone ==
    ASSUME Inv, UNCHANGED <<dep, requests>>
    PROVE  /\ \A h \in Handlers : RequestInv(h)'
           /\ InFlight' = InFlight
BY DEF Inv, RequestInv, InFlight, Now, requests

\* A step that leaves the processes alone and starts no request outside serve.
LEMMA ProcessesAlone ==
    ASSUME Inv, UNCHANGED <<procs, sent>>, Serving \/ InFlight' = InFlight
    PROVE  ApiInv' /\ WorkerInv'
<1>1. label' = label /\ code' = code /\ caught' = caught /\ ctxDone' = ctxDone /\ late' = late
      /\ listener' = listener /\ lastPoll' = lastPoll /\ sent' = sent
  BY DEF procs
<1>2. ApiInv'
  BY <1>1 DEF Inv, ApiInv, Serving, Starting
<1>3. WorkerInv'
  BY <1>1 DEF Inv, WorkerInv
<1> QED
  BY <1>2, <1>3

\* The start-up of a process.
LEMMA MainInv ==
    ASSUME Inv, NEW p \in Procs, Main(p)
    PROVE  Inv'
<1>1. UNCHANGED <<dep, requests, sent>>
  BY DEF Main, LoadConfig, OpenPostgres, OpenRedis, outside
<1>2. (\A h \in Handlers : RequestInv(h)') /\ InFlight' = InFlight
  BY <1>1, RequestsAlone
<1>3. Types'
  BY <1>1 DEF Main, LoadConfig, OpenPostgres, OpenRedis, Exit, Go, Inv, Types, Procs,
              ApiLabels, WorkerLabels, requests
<1>4. ApiInv'
  BY <1>2 DEF Main, LoadConfig, OpenPostgres, OpenRedis, Exit, Go, Inv, Types, Procs,
              ApiInv, Starting
<1>5. WorkerInv'
  BY <1>1 DEF Main, LoadConfig, OpenPostgres, OpenRedis, Exit, Go, Inv, Types, Procs,
              WorkerInv, Starting
<1> QED
  BY <1>2, <1>3, <1>4, <1>5 DEF Inv

\* Timers and signals.
LEMMA SignalInv ==
    ASSUME Inv, NEW p \in Procs, Timeout(p) \/ Signal(p)
    PROVE  Inv'
<1>1. UNCHANGED <<dep, requests>>
  BY DEF Timeout, Signal, outside
<1>2. (\A h \in Handlers : RequestInv(h)') /\ InFlight' = InFlight
  BY <1>1, RequestsAlone
<1>3. Types'
  BY <1>1 DEF Timeout, Signal, Exit, Inv, Types, Procs, ApiLabels, WorkerLabels, requests
<1>4. ApiInv'
  BY <1>2 DEF Timeout, Signal, Exit, Inv, Types, Procs, ApiInv, Starting, ApiLabels
<1>5. WorkerInv'
  BY <1>1 DEF Timeout, Signal, Exit, Inv, Types, Procs, WorkerInv, Starting
<1> QED
  BY <1>2, <1>3, <1>4, <1>5 DEF Inv

\* The server of the API, from its listener to the end of its shutdown.
LEMMA ServerInv ==
    ASSUME Inv, Listen \/ ListenFails \/ BeginShutdown \/ Drain
    PROVE  Inv'
<1>1. UNCHANGED <<dep, requests, sent>>
  BY DEF Listen, ListenFails, BeginShutdown, Drain, outside
<1>2. (\A h \in Handlers : RequestInv(h)') /\ InFlight' = InFlight
  BY <1>1, RequestsAlone
<1>3. Types'
  BY <1>1 DEF Listen, ListenFails, BeginShutdown, Drain, Exit, Inv, Types, Procs,
              ApiLabels, WorkerLabels, requests
<1>4. ApiInv'
  BY <1>2 DEF Listen, ListenFails, BeginShutdown, Drain, Exit, Inv, Types, Procs, ApiInv, Starting
<1>5. WorkerInv'
  BY <1>1 DEF Listen, ListenFails, BeginShutdown, Drain, Exit, Inv, Types, Procs, WorkerInv, Starting
<1> QED
  BY <1>2, <1>3, <1>4, <1>5 DEF Inv

\* The loop of the worker.
LEMMA LoopInv ==
    ASSUME Inv, Loop
    PROVE  Inv'
<1>1. UNCHANGED <<dep, requests, sent>>
  BY DEF Loop, StartTicker, Poll, Wait, outside
<1>2. (\A h \in Handlers : RequestInv(h)') /\ InFlight' = InFlight
  BY <1>1, RequestsAlone
<1>3. Types'
  BY <1>1 DEF Loop, StartTicker, Poll, Wait, Polled, Exit, Go, Inv, Types, Procs,
              ApiLabels, WorkerLabels, requests
<1>4. ApiInv'
  BY <1>2 DEF Loop, StartTicker, Poll, Wait, Polled, Exit, Go, Inv, Types, Procs, ApiInv
<1>5. WorkerInv'
  BY <1>1 DEF Loop, StartTicker, Poll, Wait, Polled, Exit, Go, Inv, Types, Procs, WorkerInv,
              Starting
<1> QED
  BY <1>2, <1>3, <1>4, <1>5 DEF Inv

\* A request, step by step.
RequestStep(h) ==
    \/ Arrive(h) \/ ReadyPostgres(h) \/ ReadyRedis(h) \/ Work(h)
    \/ ReadinessTimeout(h) \/ Disconnect(h)

\* What a request does.
LEMMA RequestStepInv ==
    ASSUME Inv, NEW h \in Handlers, RequestStep(h)
    PROVE  Inv'
<1>1. UNCHANGED <<outside, procs, sent>> /\ Serving
  BY DEF RequestStep, Arrive, ReadyPostgres, ReadyRedis, Work, ReadinessTimeout, Disconnect, Serving
<1>2. ApiInv' /\ WorkerInv'
  BY <1>1, ProcessesAlone
<1>3. Types'
  BY <1>1 DEF RequestStep, Arrive, ReadyPostgres, ReadyRedis, Work, ReadinessTimeout, Disconnect,
              Answer, Inv, Types, outside, procs
<1>4. dep' = dep
  BY <1>1 DEF outside
<1>5. ASSUME NEW o \in Handlers, o # h PROVE RequestInv(o)'
  BY <1>4, <1>5 DEF RequestStep, Arrive, ReadyPostgres, ReadyRedis, Work, ReadinessTimeout,
                    Disconnect, Answer, Inv, Types, RequestInv, Now
<1>6. ASSUME Arrive(h) PROVE RequestInv(h)'
  BY <1>4, <1>6 DEF Arrive, Inv, Types, RequestInv, Now
<1>7. ASSUME ReadyPostgres(h) PROVE RequestInv(h)'
  BY <1>4, <1>7 DEF ReadyPostgres, Answer, Inv, Types, RequestInv, Now, PingSucceeds, PingFails,
                    PingDone, Deps
<1>8. ASSUME ReadyRedis(h) PROVE RequestInv(h)'
  BY <1>4, <1>8 DEF ReadyRedis, Answer, Inv, Types, RequestInv, Now, PingSucceeds, PingFails,
                    PingDone, Deps
<1>9. ASSUME Work(h) \/ ReadinessTimeout(h) \/ Disconnect(h) PROVE RequestInv(h)'
  BY <1>4, <1>9 DEF Work, ReadinessTimeout, Disconnect, Answer, Inv, Types, RequestInv, Now, InFlight
<1> QED
  BY <1>2, <1>3, <1>5, <1>6, <1>7, <1>8, <1>9 DEF Inv, RequestStep

\* PostgreSQL or Redis comes or goes.
LEMMA DepChangeInv ==
    ASSUME Inv, DepChange
    PROVE  Inv'
<1>1. UNCHANGED <<procs, sent, pc, resp, gone, expired>>
  BY DEF DepChange
<1>2. InFlight' = InFlight
  BY <1>1 DEF InFlight
<1>3. ApiInv' /\ WorkerInv'
  BY <1>1, <1>2, ProcessesAlone
<1>4. Types'
  BY <1>1 DEF DepChange, Inv, Types, procs
<1>5. ASSUME NEW h \in Handlers PROVE RequestInv(h)'
  <2>1. PICK d \in Deps, s \in {"up", "refused", "silent"} :
           /\ dep' = [dep EXCEPT ![d] = s]
           /\ during'[h] = IF h \in InFlight THEN during[h] \cup {<<d, s>>} ELSE during[h]
    BY DEF DepChange
  <2>2. during[h] \subseteq during'[h]
    BY <2>1
  <2>3. ASSUME pc[h] \notin {"idle", "done"}, NEW x \in Deps PROVE Now(x)' \in during'[h]
    BY <2>1, <2>3 DEF Inv, Types, RequestInv, Now, InFlight
  <2> QED
    BY <1>1, <2>2, <2>3 DEF Inv, RequestInv
<1> QED
  BY <1>3, <1>4, <1>5 DEF Inv

\* The invariant holds at the start.
LEMMA InitInv == Init => Inv
<1> SUFFICES ASSUME Init PROVE Inv
  OBVIOUS
<1>1. Types
  BY DEF Init, Types, Procs, ApiLabels, WorkerLabels
<1>2. ApiInv
  BY DEF Init, ApiInv, InFlight, Procs
<1>3. WorkerInv
  BY DEF Init, WorkerInv, Procs
<1>4. \A h \in Handlers : RequestInv(h)
  BY DEF Init, RequestInv
<1> QED
  BY <1>1, <1>2, <1>3, <1>4 DEF Inv

\* Every step keeps the invariant.
LEMMA NextInv ==
    ASSUME Inv, [Next]_vars
    PROVE  Inv'
<1>1. CASE UNCHANGED vars
  BY <1>1, RequestsAlone, ProcessesAlone DEF vars, outside, requests, procs, Inv, Types
<1> QED
  BY <1>1, MainInv, SignalInv, ServerInv, RequestStepInv, LoopInv, DepChangeInv
     DEF Next, RequestStep, Ended

\* The invariant of the two processes.
THEOREM ProcessInvariant == Spec => []Inv
<1>1. Inv /\ [Next]_vars => Inv'
  BY NextInv
<1> QED
  BY <1>1, InitInv, PTL DEF Spec

\* In every environment and for every order of signals, failures of the listener,
\* timeouts and failing batches, a process ends the way it should.
THEOREM ExitsAlwaysJustified == Spec => []ExitsAreJustified
<1>1. Inv => ExitsAreJustified
  BY DEF Inv, ApiInv, WorkerInv, ExitsAreJustified
<1> QED
  BY <1>1, ProcessInvariant, PTL

\* The readiness check reports what PostgreSQL and Redis were like while it ran,
\* however often they come and go.
THEOREM ReadinessAlwaysHonest == Spec => []ReadyIsHonest
<1>1. Inv => ReadyIsHonest
  BY DEF Inv, RequestInv, ReadyIsHonest
<1> QED
  BY <1>1, ProcessInvariant, PTL

================================================================================
