--------------------------- MODULE MonolithProcess ---------------------------
(***************************************************************************)
(* main and internal/app: how the monolith boots, serves and shuts down.   *)
(* Resources are acquired in order and each is registered with whoever     *)
(* closes it: the closers of buildDependencies or a deferred call of Run.  *)
(* The poller, the saga reply consumer, the saga reaper and the limiter's  *)
(* cleanup are goroutines beside the HTTP server; only the poller is       *)
(* waited for.  shutdownTimeout is a clock that may run out at any time.   *)
(***************************************************************************)
EXTENDS Naturals, Sequences, Functions

CONSTANTS
  Requests,  \* HTTP requests
  MaxFaults  \* bound on failed boot steps and listener errors

\* What Run and buildDependencies acquire, in this order.
Acquired == <<"db", "redis", "subRepo", "repoStore", "notifier", "saga">>

\* The steps that are given the process context, which a signal cancels.
UnderContext == {"db", "subRepo", "repoStore"}

\* The resources whose close is deferred by Run itself.
DeferredByRun == {"db", "redis"}

Goroutines == {"poller", "replies", "reaper", "limiter"}

VARIABLES
  phase,     \* boot, serve, drain (srv.Shutdown), await (the poller), close, exited
  held,      \* resources acquired and not yet closed
  closers,   \* the closers of the dependencies that have not run, in order
  defers,    \* the deferred closes of Run that have not run, last one first
  goroutine, \* "off", "running" or "stopped"
  request,   \* "new", "open", "answered", or "cut" by the end of the process
  signaled,  \* SIGINT or SIGTERM arrived: the process context is done
  canceled,  \* cancelPoller was called
  expired,   \* shutdownTimeout has passed
  code,      \* the exit code
  faults     \* failed boot steps and listener errors so far

resources == <<held, closers, defers>>
vars == <<phase, held, closers, defers, goroutine, request, signaled, canceled, expired,
          code, faults>>

TypeOK ==
  /\ phase \in {"boot", "serve", "drain", "await", "close", "exited"}
  /\ held \subseteq Range(Acquired)
  /\ closers \in Seq(Range(Acquired)) /\ defers \in Seq(DeferredByRun)
  /\ goroutine \in [Goroutines -> {"off", "running", "stopped"}]
  /\ request \in [Requests -> {"new", "open", "answered", "cut"}]
  /\ signaled \in BOOLEAN /\ canceled \in BOOLEAN /\ expired \in BOOLEAN
  /\ code \in {0, 1}
  /\ faults \in 0..MaxFaults

Init ==
  /\ phase = "boot"
  /\ held = {} /\ closers = <<>> /\ defers = <<>>
  /\ goroutine = [g \in Goroutines |-> "off"]
  /\ request = [r \in Requests |-> "new"]
  /\ signaled = FALSE /\ canceled = FALSE /\ expired = FALSE
  /\ code = 0
  /\ faults = 0

-----------------------------------------------------------------------------
Open == {r \in Requests : request[r] = "open"}

Fault ==
  /\ faults < MaxFaults
  /\ faults' = faults + 1

\* The step of the boot sequence that is due.
Due(x) ==
  /\ phase = "boot"
  /\ \E i \in DOMAIN Acquired :
       /\ Acquired[i] = x
       /\ x \notin held
       /\ \A j \in 1..(i - 1) : Acquired[j] \in held

\* Mutant: the closer of the saga's broker connection is not appended.
AcquireUnregistered(x) ==
  /\ Due(x)
  /\ signaled => x \notin UnderContext
  /\ held' = held \cup {x}
  /\ IF x \in DeferredByRun THEN defers' = <<x>> \o defers /\ UNCHANGED closers
       ELSE /\ closers' = IF x = "saga" THEN closers ELSE Append(closers, x)
            /\ UNCHANGED defers
  /\ UNCHANGED <<phase, goroutine, request, signaled, canceled, expired, code, faults>>

\* The next resource is opened, prepared or built, and registered for closing.
Acquire(x) ==
  /\ Due(x)
  /\ signaled => x \notin UnderContext
  /\ held' = held \cup {x}
  /\ IF x \in DeferredByRun THEN defers' = <<x>> \o defers /\ UNCHANGED closers
                             ELSE closers' = Append(closers, x) /\ UNCHANGED defers
  /\ UNCHANGED <<phase, goroutine, request, signaled, canceled, expired, code, faults>>

\* Migrations run on a pool of their own, then the long-lived pool is pinged.
OpenDb == Acquire("db")
NewRedisClient == Acquire("redis")

\* The repositories prepare their statements.
NewRepo == Acquire("subRepo")
NewStore == Acquire("repoStore")

\* Broker publishers are built; they connect on their first Publish.
BuildNotificationPublisher == Acquire("notifier")
BuildSagaOrchestrator == Acquire("saga")

\* The due step fails, or its context is done; or what is built from the
\* resources fails.  Run returns the error; the closers and deferred calls run.
AbortBoot ==
  /\ phase = "boot"
  /\ ~Due("redis")
  /\ \/ Fault
     \/ \E x \in UnderContext : Due(x) /\ signaled /\ UNCHANGED faults
  /\ phase' = "close"
  /\ code' = 1
  /\ UNCHANGED <<resources, goroutine, request, signaled, canceled, expired>>

\* runHTTPServer starts the goroutines and the server.
StartServer ==
  /\ phase = "boot"
  /\ held = Range(Acquired)
  /\ phase' = "serve"
  /\ goroutine' = [g \in Goroutines |-> "running"]
  /\ UNCHANGED <<resources, request, signaled, canceled, expired, code, faults>>

-----------------------------------------------------------------------------
\* A request is accepted, and answered by its handler.
Arrive(r) ==
  /\ phase = "serve"
  /\ request[r] = "new"
  /\ request' = [request EXCEPT ![r] = "open"]
  /\ UNCHANGED <<phase, resources, goroutine, signaled, canceled, expired, code, faults>>

Answer(r) ==
  /\ phase # "exited"
  /\ request[r] = "open"
  /\ request' = [request EXCEPT ![r] = "answered"]
  /\ UNCHANGED <<phase, resources, goroutine, signaled, canceled, expired, code, faults>>

\* A goroutine ends when it sees pollerCtx done, a child of the process context.
StopGoroutine(g) ==
  /\ phase # "exited"
  /\ g # "limiter"
  /\ goroutine[g] = "running"
  /\ signaled \/ canceled
  /\ goroutine' = [goroutine EXCEPT ![g] = "stopped"]
  /\ UNCHANGED <<phase, resources, request, signaled, canceled, expired, code, faults>>

-----------------------------------------------------------------------------
Signal ==
  /\ ~signaled
  /\ phase # "exited"
  /\ signaled' = TRUE
  /\ UNCHANGED <<phase, resources, goroutine, request, canceled, expired, code, faults>>

\* ListenAndServe failed: the goroutines are cancelled, the poller is awaited,
\* and requests are not drained.
ServerError ==
  /\ phase = "serve"
  /\ Fault
  /\ phase' = "await"
  /\ canceled' = TRUE
  /\ code' = 1
  /\ UNCHANGED <<resources, goroutine, request, signaled, expired>>

\* The signal: cancelPoller, then srv.Shutdown.
BeginShutdown ==
  /\ phase = "serve"
  /\ signaled
  /\ phase' = "drain"
  /\ canceled' = TRUE
  /\ UNCHANGED <<resources, goroutine, request, signaled, expired, code, faults>>

\* shutdownTimeout passes; srv.Shutdown and the wait for the poller share it.
Expire ==
  /\ phase \in {"drain", "await"}
  /\ ~expired
  /\ expired' = TRUE
  /\ UNCHANGED <<phase, resources, goroutine, request, signaled, canceled, code, faults>>

\* Mutant: the error of srv.Shutdown is not returned.
DrainedSilently ==
  /\ phase = "drain"
  /\ Open = {} \/ expired
  /\ phase' = "await"
  /\ UNCHANGED <<resources, goroutine, request, signaled, canceled, expired, code, faults>>

\* srv.Shutdown returns nil when no request is open, or its context's error.
Drained ==
  /\ phase = "drain"
  /\ \/ Open = {} /\ UNCHANGED code
     \/ expired /\ code' = 1
  /\ phase' = "await"
  /\ UNCHANGED <<resources, goroutine, request, signaled, canceled, expired, faults>>

\* waitForPoller returns, and runHTTPServer with its deferred Stop.
PollerAwaited ==
  /\ phase = "await"
  /\ goroutine["poller"] = "stopped" \/ expired
  /\ phase' = "close"
  /\ goroutine' = [goroutine EXCEPT !["limiter"] = "stopped"]
  /\ UNCHANGED <<resources, request, signaled, canceled, expired, code, faults>>

\* The closers of the dependencies run in order; an error of one is joined or
\* logged and the next one follows.
CloseDependency ==
  /\ phase = "close"
  /\ closers # <<>>
  /\ held' = held \ {Head(closers)}
  /\ closers' = Tail(closers)
  /\ UNCHANGED <<phase, defers, goroutine, request, signaled, canceled, expired, code, faults>>

\* Then the deferred calls of Run, each of them closeQuietly.
CloseDeferred ==
  /\ phase = "close"
  /\ closers = <<>> /\ defers # <<>>
  /\ held' = held \ {Head(defers)}
  /\ defers' = Tail(defers)
  /\ UNCHANGED <<phase, closers, goroutine, request, signaled, canceled, expired, code, faults>>

\* main calls os.Exit; whatever still runs ends with the process.
Exit ==
  /\ phase = "close"
  /\ closers = <<>> /\ defers = <<>>
  /\ phase' = "exited"
  /\ request' = [r \in Requests |-> IF r \in Open THEN "cut" ELSE request[r]]
  /\ UNCHANGED <<resources, goroutine, signaled, canceled, expired, code, faults>>

\* The main goroutine.
Run ==
  \/ OpenDb \/ NewRedisClient \/ NewRepo \/ NewStore
  \/ BuildNotificationPublisher \/ BuildSagaOrchestrator \/ AbortBoot
  \/ StartServer \/ ServerError \/ BeginShutdown \/ Drained \/ PollerAwaited
  \/ CloseDependency \/ CloseDeferred \/ Exit

Next ==
  \/ Run \/ Signal \/ Expire
  \/ \E r \in Requests : Arrive(r) \/ Answer(r)
  \/ \E g \in Goroutines : StopGoroutine(g)

Spec == Init /\ [][Next]_vars

-----------------------------------------------------------------------------
\* Whatever fails while booting, serving or shutting down, the process ends
\* with every resource closed and the limiter's goroutine stopped.
NothingLeftOpen ==
  phase = "exited" => held = {} /\ goroutine["limiter"] # "running"

\* Exit code 0 is honest: Run returns nil only if every accepted request was
\* answered.
CleanExitAnswered ==
  phase = "exited" /\ code = 0 => \A r \in Requests : request[r] # "cut"

\* "Drain poller regardless of Shutdown outcome": until shutdownTimeout has
\* passed, no resource is closed under a running poller.
PollerDrained ==
  goroutine["poller"] = "running" /\ ~expired => held = Range(Acquired)

\* The inductive invariant: whatever is held is registered with a closer; main
\* holds everything as long as it serves, drains or waits for the poller; it
\* closes only what no goroutine in time uses; and an open request at the end
\* costs the exit code.
IInv ==
  /\ TypeOK
  /\ held \subseteq Range(closers) \cup Range(defers)
  /\ phase = "boot" => \A g \in Goroutines : goroutine[g] = "off"
  /\ phase \in {"serve", "drain", "await"} => held = Range(Acquired)
  /\ phase \in {"close", "exited"} =>
       /\ goroutine["limiter"] # "running"
       /\ goroutine["poller"] = "running" => expired
  /\ phase = "exited" => closers = <<>> /\ defers = <<>>
  /\ phase # "exited" => \A r \in Requests : request[r] # "cut"
  /\ phase \in {"await", "close", "exited"} /\ code = 0 =>
       \A r \in Requests : request[r] \notin {"open", "cut"}

\* A signal ends the process, even if handlers or the poller hang.
MonolithExits ==
  signaled ~> phase = "exited"
==============================================================================
