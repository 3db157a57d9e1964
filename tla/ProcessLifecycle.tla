---------------------------- MODULE ProcessLifecycle ---------------------------
(***************************************************************************)
(* The two processes of the system, from their environment variables to    *)
(* their exit codes: configuration, start-up against PostgreSQL and Redis, *)
(* the HTTP server with the readiness check and its graceful shutdown, the *)
(* loop of the expiration worker.                                          *)
(*                                                                         *)
(* What requests and batches do to the tables is in the other modules; a   *)
(* request here is a readiness check or some work of unknown length, a     *)
(* batch succeeds, fails or hangs with the database.  A context is a flag  *)
(* that says whether it is done.                                           *)
(***************************************************************************)
EXTENDS Integers, FiniteSets

CONSTANTS
    Started,        \* sets of processes, one of which is started
    Environments,   \* the environments the processes may be started in
    Unset,          \* a variable that is not set or empty
    Malformed,      \* a text that cannot be parsed
    Bits,           \* the width of int32, scaled down
    Handlers,       \* request goroutines
    Kinds,          \* Kinds[h]: what handler h may be asked
    MaxChanges      \* how often PostgreSQL or Redis comes or goes

Procs == {"api", "worker"}
Deps == {"postgres", "redis"}

ASSUME ProcessAssumption ==
    /\ Started \subseteq SUBSET Procs
    /\ Bits \in Nat \ {0} /\ MaxChanges \in Nat
    /\ DOMAIN Kinds = Handlers

VARIABLES
    env,        \* the environment variables
    cfg,        \* cfg[p]: the Config p has loaded
    label,      \* label[p]: where main of p is
    code,       \* code[p]: how p ended
    sent,       \* sent[p]: p was sent SIGTERM
    caught,     \* caught[p]: the signal is caught, not deadly
    ctxDone,    \* ctxDone[p]: the root context is done
    late,       \* late[p]: the time to start up, or to shut down, is over
    listener,   \* of the API: none, open, failed or closed
    lastPoll,   \* how the worker's last batch ended
    dep,        \* dep[d]: up, refused or silent
    changes,    \* how often dep has changed
    pc, resp,   \* pc[h], resp[h]: a request and its answer
    gone,       \* gone[h]: the client of h has left
    expired,    \* expired[h]: the time for the pings of h is over
    during      \* during[h]: the states of PostgreSQL and Redis while h ran

outside == <<env, dep, changes>>
procs == <<cfg, label, code, caught, ctxDone, late, listener, lastPoll>>
requests == <<pc, resp, gone, expired, during>>
vars == <<outside, procs, sent, requests>>

--------------------------------------------------------------------------------
(* Configuration *)

\* getenvInt and getenvDuration
Getenv(raw, fallback) == IF raw = Unset THEN fallback ELSE raw

\* The conversion int32(n).
Int32(n) == ((n + 2^(Bits - 1)) % 2^Bits) - 2^(Bits - 1)

NoConfig == [ok |-> FALSE, startup |-> 0, readiness |-> 0, shutdown |-> 0, interval |-> 0,
             batch |-> 0]

\* Load: every variable parses, the batch size is positive as an int, and the
\* addresses are given.  A duration may be anything.
Load ==
    LET raw == {env.startup, env.readiness, env.shutdown, env.interval, env.batch, env.others}
        batch == Getenv(env.batch, 1)
    IN  IF Malformed \in raw \/ Unset \in {env.url, env.addr}
        THEN NoConfig
        ELSE IF batch <= 0 THEN NoConfig
        ELSE [ok |-> TRUE,
              startup |-> Getenv(env.startup, 1), readiness |-> Getenv(env.readiness, 1),
              shutdown |-> Getenv(env.shutdown, 1), interval |-> Getenv(env.interval, 1),
              batch |-> Int32(batch)]

--------------------------------------------------------------------------------
(* Start-up *)

Exit(p, c) ==
    /\ label' = [label EXCEPT ![p] = "exited"]
    /\ code' = [code EXCEPT ![p] = c]
    /\ UNCHANGED <<cfg, caught, ctxDone, late, listener, lastPoll>>

Go(p, l) ==
    /\ label' = [label EXCEPT ![p] = l]
    /\ UNCHANGED <<cfg, code, caught, ctxDone, late, listener, lastPoll>>

\* The configuration is read, signals are caught from then on and the time to
\* start up begins.
LoadConfig(p) ==
    /\ label[p] = "load"
    /\ \/ ~Load.ok /\ Exit(p, "error")
       \/ /\ Load.ok
          /\ cfg' = [cfg EXCEPT ![p] = Load]
          /\ caught' = [caught EXCEPT ![p] = TRUE]
          /\ late' = [late EXCEPT ![p] = Load.startup <= 0]
          /\ label' = [label EXCEPT ![p] = "postgres"]
          /\ UNCHANGED <<code, ctxDone, listener, lastPoll>>
    /\ UNCHANGED <<outside, sent, requests>>

\* startupCtx is done.
StartupDone(p) == late[p] \/ ctxDone[p]

\* pgx ends a ping when its context is done.  go-redis looks at the context only
\* before it sends (ContextTimeoutEnabled is not set), and gives up on an answer
\* by a timeout of its own.
PingSucceeds(d, done) == dep[d] = "up" /\ (d = "redis" \/ ~done)
PingFails(d, done) == dep[d] = "refused" \/ done \/ (d = "redis" /\ dep[d] = "silent")

OpenPostgres(p) ==
    /\ label[p] = "postgres"
    /\ \/ /\ env.url # Malformed /\ PingSucceeds("postgres", StartupDone(p))
          /\ Go(p, "redis")
       \/ /\ env.url = Malformed \/ PingFails("postgres", StartupDone(p))
          /\ Exit(p, "error")
    /\ UNCHANGED <<outside, sent, requests>>

OpenRedis(p) ==
    /\ label[p] = "redis"
    /\ \/ /\ PingSucceeds("redis", StartupDone(p))
          /\ Go(p, IF p = "api" THEN "serve" ELSE "run")
       \/ PingFails("redis", StartupDone(p)) /\ Exit(p, "error")
    /\ UNCHANGED <<outside, sent, requests>>

\* The time to start up, or to shut down, is over.
Timeout(p) ==
    /\ label[p] \in {"postgres", "redis", "drain"}
    /\ late' = [late EXCEPT ![p] = TRUE]
    /\ UNCHANGED <<outside, cfg, label, code, sent, caught, ctxDone, listener, lastPoll, requests>>

\* SIGTERM: it ends the root context, or the process when nobody catches it.
Signal(p) ==
    /\ label[p] \notin {"off", "exited"}
    /\ sent' = [sent EXCEPT ![p] = TRUE]
    /\ \/ /\ caught[p]
          /\ ctxDone' = [ctxDone EXCEPT ![p] = TRUE]
          /\ UNCHANGED <<cfg, label, code, caught, late, listener, lastPoll>>
       \/ ~caught[p] /\ Exit(p, "killed")
    /\ UNCHANGED <<outside, requests>>

--------------------------------------------------------------------------------
(* The API process *)

InFlight == {h \in Handlers : pc[h] \notin {"idle", "done"}}

\* The goroutine of ListenAndServe; it does nothing once Shutdown was called.
Listen ==
    /\ label["api"] = "serve" /\ listener = "none"
    /\ listener' = "open"
    /\ UNCHANGED <<outside, cfg, label, code, sent, caught, ctxDone, late, lastPoll, requests>>

\* ListenAndServe fails, at once or later: stop() ends the root context and
\* gives the signal back its deadly meaning.
ListenFails ==
    /\ label["api"] = "serve" /\ listener \in {"none", "open"}
    /\ listener' = "failed"
    /\ ctxDone' = [ctxDone EXCEPT !["api"] = TRUE]
    /\ caught' = [caught EXCEPT !["api"] = FALSE]
    /\ UNCHANGED <<outside, cfg, label, code, sent, late, lastPoll, requests>>

\* Variant: main ends with its root context.
ExitAtOnce ==
    /\ label["api"] = "serve" /\ ctxDone["api"]
    /\ Exit("api", "ok")
    /\ UNCHANGED <<outside, sent, requests>>

\* Shutdown closes the listener; if no request is being served it is over.
BeginShutdown ==
    /\ label["api"] = "serve" /\ ctxDone["api"]
    /\ listener' = IF listener = "failed" THEN listener ELSE "closed"
    /\ late' = [late EXCEPT !["api"] = cfg["api"].shutdown <= 0]
    /\ label' = [label EXCEPT !["api"] = IF InFlight = {} THEN "exited" ELSE "drain"]
    /\ code' = IF InFlight = {} THEN [code EXCEPT !["api"] = "ok"] ELSE code
    /\ UNCHANGED <<outside, cfg, sent, caught, ctxDone, lastPoll, requests>>

\* Variant: Shutdown waits without a limit.
DrainForEver ==
    /\ label["api"] = "drain"
    /\ InFlight = {} /\ Exit("api", "ok")
    /\ UNCHANGED <<outside, sent, requests>>

\* Shutdown waits for the requests, and no longer than shutdownCtx.
Drain ==
    /\ label["api"] = "drain"
    /\ \/ InFlight = {} /\ Exit("api", "ok")
       \/ late["api"] /\ Exit("api", "error")
    /\ UNCHANGED <<outside, sent, requests>>

--------------------------------------------------------------------------------
(* Requests *)

Serving == label["api"] \in {"serve", "drain"}

Now(d) == <<d, dep[d]>>

\* A request arrives; a readiness check starts its own time limit.
Arrive(h) ==
    /\ label["api"] = "serve" /\ listener = "open"
    /\ pc[h] = "idle"
    /\ \E kind \in Kinds[h] :
          pc' = [pc EXCEPT ![h] = IF kind = "ready" THEN "ping_postgres" ELSE "work"]
    /\ expired' = [expired EXCEPT ![h] = cfg["api"].readiness <= 0]
    /\ during' = [during EXCEPT ![h] = {Now(d) : d \in Deps}]
    /\ UNCHANGED <<outside, procs, sent, resp, gone>>

Answer(h, a) ==
    /\ pc' = [pc EXCEPT ![h] = "done"]
    /\ resp' = [resp EXCEPT ![h] = IF gone[h] THEN "lost" ELSE a]
    /\ UNCHANGED <<gone, expired, during>>

\* The context of the pings: the request's, with a time limit.  The server's
\* shutdown has no part in it.
PingDone(h) == gone[h] \/ expired[h]

ReadyPostgres(h) ==
    /\ Serving /\ pc[h] = "ping_postgres"
    /\ \/ /\ PingSucceeds("postgres", PingDone(h))
          /\ pc' = [pc EXCEPT ![h] = "ping_redis"]
          /\ UNCHANGED <<resp, gone, expired, during>>
       \/ PingFails("postgres", PingDone(h)) /\ Answer(h, "POSTGRES_UNAVAILABLE")
    /\ UNCHANGED <<outside, procs, sent>>

\* Variant: an error of the Redis ping is ignored.
ReadyAnyway(h) ==
    /\ Serving /\ pc[h] = "ping_redis"
    /\ PingSucceeds("redis", PingDone(h)) \/ PingFails("redis", PingDone(h))
    /\ Answer(h, "ready")
    /\ UNCHANGED <<outside, procs, sent>>

ReadyRedis(h) ==
    /\ Serving /\ pc[h] = "ping_redis"
    /\ \/ PingSucceeds("redis", PingDone(h)) /\ Answer(h, "ready")
       \/ PingFails("redis", PingDone(h)) /\ Answer(h, "REDIS_UNAVAILABLE")
    /\ UNCHANGED <<outside, procs, sent>>

\* Any other request ends when it ends.
Work(h) ==
    /\ Serving /\ pc[h] = "work"
    /\ Answer(h, "served")
    /\ UNCHANGED <<outside, procs, sent>>

ReadinessTimeout(h) ==
    /\ Serving /\ pc[h] \in {"ping_postgres", "ping_redis"}
    /\ expired' = [expired EXCEPT ![h] = TRUE]
    /\ UNCHANGED <<outside, procs, sent, pc, resp, gone, during>>

Disconnect(h) ==
    /\ Serving /\ h \in InFlight
    /\ gone' = [gone EXCEPT ![h] = TRUE]
    /\ UNCHANGED <<outside, procs, sent, pc, resp, expired, during>>

--------------------------------------------------------------------------------
(* The worker process *)

\* Run: NewTicker panics unless the interval is positive.
StartTicker ==
    /\ label["worker"] = "run"
    /\ IF cfg["worker"].interval <= 0 THEN Exit("worker", "panic") ELSE Go("worker", "poll")
    /\ UNCHANGED <<outside, sent, requests>>

BatchSucceeds == cfg["worker"].batch > 0 /\ PingSucceeds("postgres", ctxDone["worker"])

BatchFails == cfg["worker"].batch <= 0 \/ PingFails("postgres", ctxDone["worker"])

Polled(result) ==
    /\ lastPoll' = result
    /\ label' = [label EXCEPT !["worker"] = "wait"]
    /\ UNCHANGED <<cfg, code, caught, ctxDone, late, listener>>

\* Variant: an error ends the process.
PollOrQuit ==
    /\ label["worker"] = "poll"
    /\ \/ BatchSucceeds /\ Polled("ok")
       \/ /\ BatchFails
          /\ lastPoll' = "failed"
          /\ label' = [label EXCEPT !["worker"] = "exited"]
          /\ code' = [code EXCEPT !["worker"] = "error"]
          /\ UNCHANGED <<cfg, caught, ctxDone, late, listener>>
    /\ UNCHANGED <<outside, sent, requests>>

\* ProcessOnce and what Run makes of it: an error ends the loop only when the
\* root context is done.
Poll ==
    /\ label["worker"] = "poll"
    /\ \/ BatchSucceeds /\ Polled("ok")
       \/ BatchFails /\ ~ctxDone["worker"] /\ Polled("failed")
       \/ BatchFails /\ ctxDone["worker"] /\ Exit("worker", "ok")
    /\ UNCHANGED <<outside, sent, requests>>

\* The select: of a tick and a done context that are both there, either is taken.
Wait ==
    /\ label["worker"] = "wait"
    /\ \/ Go("worker", "poll")
       \/ ctxDone["worker"] /\ Exit("worker", "ok")
    /\ UNCHANGED <<outside, sent, requests>>

--------------------------------------------------------------------------------
\* PostgreSQL or Redis comes, refuses connections or stops answering.
DepChange ==
    /\ changes < MaxChanges
    /\ changes' = changes + 1
    /\ \E d \in Deps, s \in {"up", "refused", "silent"} :
          /\ s # dep[d]
          /\ dep' = [dep EXCEPT ![d] = s]
          /\ during' = [h \in Handlers |->
                IF h \in InFlight THEN during[h] \cup {<<d, s>>} ELSE during[h]]
    /\ UNCHANGED <<env, procs, sent, pc, resp, gone, expired>>

Ended == (\A p \in Procs : label[p] \in {"off", "exited"}) /\ UNCHANGED vars

Init ==
    /\ env \in Environments
    /\ cfg = [p \in Procs |-> NoConfig]
    /\ \E P \in Started : label = [p \in Procs |-> IF p \in P THEN "load" ELSE "off"]
    /\ code = [p \in Procs |-> "none"]
    /\ sent = [p \in Procs |-> FALSE]
    /\ caught = [p \in Procs |-> FALSE]
    /\ ctxDone = [p \in Procs |-> FALSE]
    /\ late = [p \in Procs |-> FALSE]
    /\ listener = "none"
    /\ lastPoll = "none"
    /\ dep = [d \in Deps |-> "up"]
    /\ changes = 0
    /\ pc = [h \in Handlers |-> "idle"]
    /\ resp = [h \in Handlers |-> "none"]
    /\ gone = [h \in Handlers |-> FALSE]
    /\ expired = [h \in Handlers |-> FALSE]
    /\ during = [h \in Handlers |-> {}]

\* What main does on its own.
Main(p) == LoadConfig(p) \/ OpenPostgres(p) \/ OpenRedis(p)

Loop == StartTicker \/ Poll \/ Wait

Next ==
    \/ \E p \in Procs : Main(p) \/ Timeout(p) \/ Signal(p)
    \/ Listen \/ ListenFails \/ BeginShutdown \/ Drain
    \/ \E h \in Handlers : \/ Arrive(h) \/ ReadyPostgres(h) \/ ReadyRedis(h) \/ Work(h)
                           \/ ReadinessTimeout(h) \/ Disconnect(h)
    \/ Loop
    \/ DepChange
    \/ Ended

Spec == Init /\ [][Next]_vars

\* The processes run and their timers go off.  Nothing is assumed of requests,
\* signals, PostgreSQL and Redis.
FairSpec ==
    /\ Spec
    /\ \A p \in Procs : WF_vars(Main(p)) /\ WF_vars(Timeout(p))
    /\ WF_vars(BeginShutdown) /\ WF_vars(Drain)
    /\ WF_vars(StartTicker) /\ WF_vars(Poll) /\ WF_vars(Wait)

--------------------------------------------------------------------------------
(* Properties *)

\* A process ends the way it should.  The API cuts an accepted request off only
\* when the time for a graceful shutdown is over, or by a signal after the
\* listener failed: never by a second SIGTERM during a graceful shutdown, and
\* never by an exit that reports success.  The worker ends with success only
\* when it was told to stop, whatever batches fail, and ends on its own only over
\* its configuration or at start-up.
ExitsAreJustified ==
    /\ label["api"] = "exited" /\ InFlight # {} =>
          \/ code["api"] = "error" /\ late["api"]
          \/ code["api"] = "killed" /\ listener = "failed"
    /\ code["worker"] = "ok" => sent["worker"]
    /\ code["worker"] \in {"error", "panic"} => lastPoll = "none"

\* "ready" means that PostgreSQL and Redis were both up at some time during the
\* request, and 503 that the one it names was not, or that time ran out.
ReadyIsHonest ==
    \A h \in Handlers :
        /\ resp[h] = "ready" => {<<"postgres", "up">>, <<"redis", "up">>} \subseteq during[h]
        /\ resp[h] = "POSTGRES_UNAVAILABLE" =>
              expired[h] \/ <<"postgres", "refused">> \in during[h]
        /\ resp[h] = "REDIS_UNAVAILABLE" =>
              expired[h] \/ {<<"redis", "refused">>, <<"redis", "silent">>} \cap during[h] # {}

\* A start-up does not hang on PostgreSQL or Redis, and a process that was sent
\* SIGTERM ends, although requests may hang and PostgreSQL may not answer.
ProcessesStartAndEnd ==
    \A p \in Procs :
        /\ label[p] = "load" ~> label[p] \notin {"load", "postgres", "redis"}
        /\ sent[p] ~> label[p] = "exited"

\* After a failed batch the worker succeeds again once PostgreSQL is up for good.
WorkerRecovers ==
    lastPoll = "failed" /\ cfg["worker"].batch > 0 ~>
        lastPoll = "ok" \/ dep["postgres"] # "up" \/ sent["worker"]

\* "EXPIRATION_WORKER_BATCH_SIZE must be greater than zero" (config.go): a
\* worker that polls was given a batch size it can work with.
BatchSizeIsPositive == label["worker"] = "poll" => cfg["worker"].batch > 0

================================================================================
