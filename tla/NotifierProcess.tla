--------------------------- MODULE NotifierProcess ---------------------------
(***************************************************************************)
(* services/notification/app and messaging.RunConsumer: the notifier boots,*)
(* runs a gRPC server, a REST server and two queue consumers, and stops    *)
(* them together.  Each worker returns once; the first to return cancels   *)
(* the context of the others, and the resources are closed after all four. *)
(* A server has at most one call in progress; a consumer handles one       *)
(* delivery at a time and reconnects when its session drops.               *)
(***************************************************************************)
EXTENDS Naturals, Sequences

CONSTANT MaxFaults  \* bound on failed boot steps, listeners, dials and sessions

Servers == {"grpc", "rest"}
Consumers == {"email", "saga"}
Workers == Servers \cup Consumers

Resources == {"db", "ledger", "replies"}

VARIABLES
  phase,    \* boot, serve, close, exited
  held,     \* resources opened and not yet closed
  closers,  \* closes still to run, in order
  worker,   \* where a worker is (see TypeOK)
  busy,     \* workers with a handler in progress
  failed,   \* workers that returned an error
  signaled, \* SIGINT or SIGTERM arrived
  canceled, \* a worker returned: the shared context is done
  expired,  \* restShutdownTimeout has passed
  code,     \* the exit code
  faults    \* failures so far

process == <<phase, held, closers, code>>
vars == <<phase, held, closers, worker, busy, failed, signaled, canceled, expired, code, faults>>

TypeOK ==
  /\ phase \in {"boot", "serve", "close", "exited"}
  /\ held \subseteq Resources
  /\ closers \in Seq(Resources)
  /\ DOMAIN worker = Workers
  /\ \A s \in Servers : worker[s] \in {"off", "listen", "serve", "drain", "done"}
  /\ \A c \in Consumers : worker[c] \in {"off", "dial", "session", "sleep", "done"}
  /\ busy \subseteq Workers /\ failed \subseteq Servers
  /\ signaled \in BOOLEAN /\ canceled \in BOOLEAN /\ expired \in BOOLEAN
  /\ code \in {0, 1}
  /\ faults \in 0..MaxFaults

Init ==
  /\ phase = "boot"
  /\ held = {} /\ closers = <<>>
  /\ worker = [w \in Workers |-> "off"]
  /\ busy = {} /\ failed = {}
  /\ signaled = FALSE /\ canceled = FALSE /\ expired = FALSE
  /\ code = 0
  /\ faults = 0

-----------------------------------------------------------------------------
Fault ==
  /\ faults < MaxFaults
  /\ faults' = faults + 1

\* The context of the four workers.
Done == signaled \/ canceled

\* The database is opened and its close deferred.
OpenDb ==
  /\ phase = "boot"
  /\ held = {} /\ ~signaled
  /\ held' = {"db"}
  /\ closers' = <<"db">>
  /\ UNCHANGED <<phase, worker, busy, failed, signaled, canceled, expired, code, faults>>

\* The ledger's statements are prepared; the mailer, the service, the e-mail
\* consumer and the gRPC service are built from them.
OpenLedger ==
  /\ phase = "boot"
  /\ held = {"db"} /\ ~signaled
  /\ held' = held \cup {"ledger"}
  /\ UNCHANGED <<phase, closers, worker, busy, failed, signaled, canceled, expired, code, faults>>

\* The publisher of saga replies is built; it connects on its first Publish.
OpenReplies ==
  /\ phase = "boot"
  /\ held = {"db", "ledger"}
  /\ held' = held \cup {"replies"}
  /\ UNCHANGED <<phase, closers, worker, busy, failed, signaled, canceled, expired, code, faults>>

\* What buildDependencies closes itself when a step after the publisher's fails.
ClosedBy == [participant |-> {"replies", "ledger"}, rest |-> {"replies", "ledger"}]

\* A boot step fails, or its context is done, and Run returns the error.  Opening
\* the database or the ledger leaves nothing of its own behind; the steps up to
\* NewPublisher leave the ledger to the deferred function (which closes it a
\* second time after NewPublisher's failure), the last two close both before it.
AbortBoot ==
  /\ phase = "boot"
  /\ \/ /\ held \in {{}, {"db"}}
        /\ Fault \/ (signaled /\ UNCHANGED faults)
        /\ held' = held
     \/ /\ held = {"db", "ledger"}
        /\ Fault
        /\ held' = held \ {"ledger"}
     \/ /\ held = Resources
        /\ Fault
        /\ \E step \in DOMAIN ClosedBy : held' = (held \ ClosedBy[step]) \ {"ledger"}
  /\ phase' = "close"
  /\ code' = 1
  /\ UNCHANGED <<closers, worker, busy, failed, signaled, canceled, expired>>

\* buildDependencies returns: its deferred function closes the ledger, because
\* depsReady is never set.  runServers starts the workers.
StartWorkers ==
  /\ phase = "boot"
  /\ held = Resources
  /\ phase' = "serve"
  /\ held' = held \ {"ledger"}
  /\ closers' = <<"replies", "ledger">> \o closers
  /\ worker' = [w \in Workers |-> IF w \in Servers THEN "listen" ELSE "dial"]
  /\ UNCHANGED <<busy, failed, signaled, canceled, expired, code, faults>>

-----------------------------------------------------------------------------
\* A worker goes on to another place, within its function.
Goto(w, place) ==
  /\ worker' = [worker EXCEPT ![w] = place]
  /\ UNCHANGED <<process, busy, signaled, canceled, expired>>

\* Mutant: the deferred cancel of runServers is missing.
ReturnAlone(w, bad) ==
  /\ worker' = [worker EXCEPT ![w] = "done"]
  /\ failed' = IF bad THEN failed \cup {w} ELSE failed
  /\ UNCHANGED <<process, busy, signaled, canceled, expired>>

\* A worker returns, with or without an error, and cancels the context.
Return(w, bad) ==
  /\ worker' = [worker EXCEPT ![w] = "done"]
  /\ failed' = IF bad THEN failed \cup {w} ELSE failed
  /\ canceled' = TRUE
  /\ UNCHANGED <<process, busy, signaled, expired>>

Listen(s) ==
  /\ worker[s] = "listen"
  /\ \/ Goto(s, "serve") /\ UNCHANGED <<failed, faults>>
     \/ Fault /\ Return(s, TRUE)

\* A call arrives at a server.
Call(s) ==
  /\ worker[s] = "serve"
  /\ s \notin busy
  /\ busy' = busy \cup {s}
  /\ UNCHANGED <<process, worker, failed, signaled, canceled, expired, faults>>

\* Serve fails: the worker returns without waiting for handlers.
ServeError(s) ==
  /\ worker[s] = "serve"
  /\ Fault
  /\ Return(s, TRUE)

\* The context is done: GracefulStop or Shutdown begins.
Drain(s) ==
  /\ worker[s] = "serve"
  /\ Done
  /\ Goto(s, "drain")
  /\ UNCHANGED <<failed, faults>>

\* The server has drained.  After its timeout the REST server returns an error;
\* the gRPC server calls Stop, which cancels the handlers, and still waits.
Drained(s) ==
  /\ worker[s] = "drain"
  /\ \/ s \notin busy /\ Return(s, FALSE)
     \/ s = "rest" /\ expired /\ Return(s, TRUE)
  /\ UNCHANGED faults

Expire ==
  /\ worker["rest"] = "drain"
  /\ ~expired
  /\ expired' = TRUE
  /\ UNCHANGED <<process, worker, busy, failed, signaled, canceled, faults>>

-----------------------------------------------------------------------------
\* consumeSession dials, declares and consumes; it may fail, and may give up when
\* the context is done.  A failure is followed by a pause.
Dial(c) ==
  /\ worker[c] = "dial"
  /\ \/ Goto(c, "session") /\ UNCHANGED faults
     \/ Done /\ Goto(c, "sleep") /\ UNCHANGED faults
     \/ Fault /\ Goto(c, "sleep")
  /\ UNCHANGED failed

\* pump takes a delivery, even if the context is done too: select may choose it.
Deliver(c) ==
  /\ worker[c] = "session"
  /\ c \notin busy
  /\ busy' = busy \cup {c}
  /\ UNCHANGED <<process, worker, failed, signaled, canceled, expired, faults>>

\* The channel or the deliveries are closed.
SessionDrops(c) ==
  /\ worker[c] = "session"
  /\ c \notin busy
  /\ Fault
  /\ Goto(c, "sleep")
  /\ UNCHANGED failed

\* Mutant: the end of the context is returned as an error.
SessionEndsInError(c) ==
  /\ worker[c] = "session"
  /\ c \notin busy
  /\ Done
  /\ Return(c, TRUE)
  /\ UNCHANGED faults

\* pump sees the context done, and RunConsumer returns nil.
SessionEnds(c) ==
  /\ worker[c] = "session"
  /\ c \notin busy
  /\ Done
  /\ Return(c, FALSE)
  /\ UNCHANGED faults

\* Mutant: RunConsumer gives up when its session failed.
SleepGivesUp(c) ==
  /\ worker[c] = "sleep"
  /\ Return(c, FALSE)
  /\ UNCHANGED faults

\* The pause is over and the consumer dials again, or the context is done.
Sleep(c) ==
  /\ worker[c] = "sleep"
  /\ \/ ~Done /\ Goto(c, "dial") /\ UNCHANGED failed
     \/ Done /\ Return(c, FALSE)
  /\ UNCHANGED faults

\* A handler returns.
Handled(w) ==
  /\ phase # "exited"
  /\ w \in busy
  /\ busy' = busy \ {w}
  /\ UNCHANGED <<process, worker, failed, signaled, canceled, expired, faults>>

-----------------------------------------------------------------------------
Signal ==
  /\ ~signaled
  /\ phase # "exited"
  /\ signaled' = TRUE
  /\ UNCHANGED <<process, worker, busy, failed, canceled, expired, faults>>

\* Mutant: runServers waits for the two consumers only.
JoinConsumers ==
  /\ phase = "serve"
  /\ \A c \in Consumers : worker[c] = "done"
  /\ phase' = "close"
  /\ code' = IF failed = {} THEN 0 ELSE 1
  /\ UNCHANGED <<held, closers, worker, busy, failed, signaled, canceled, expired, faults>>

\* wg.Wait returns, and the errors are joined.
Join ==
  /\ phase = "serve"
  /\ \A w \in Workers : worker[w] = "done"
  /\ phase' = "close"
  /\ code' = IF failed = {} THEN 0 ELSE 1
  /\ UNCHANGED <<held, closers, worker, busy, failed, signaled, canceled, expired, faults>>

Close ==
  /\ phase = "close"
  /\ closers # <<>>
  /\ held' = held \ {Head(closers)}
  /\ closers' = Tail(closers)
  /\ UNCHANGED <<phase, worker, busy, failed, signaled, canceled, expired, code, faults>>

\* main calls os.Exit.
Exit ==
  /\ phase = "close"
  /\ closers = <<>>
  /\ phase' = "exited"
  /\ UNCHANGED <<held, closers, worker, busy, failed, signaled, canceled, expired, code, faults>>

\* The main goroutine.
Run == OpenDb \/ OpenLedger \/ OpenReplies \/ AbortBoot \/ StartWorkers \/ Join \/ Close \/ Exit

ServerSteps(s) == Listen(s) \/ ServeError(s) \/ Drain(s) \/ Drained(s)

ConsumerSteps(c) == Dial(c) \/ SessionDrops(c) \/ SessionEnds(c) \/ Sleep(c)

Next ==
  \/ Run \/ Signal \/ Expire
  \/ \E s \in Servers : ServerSteps(s) \/ Call(s)
  \/ \E c \in Consumers : ConsumerSteps(c) \/ Deliver(c)
  \/ \E w \in Workers : Handled(w)

Spec == Init /\ [][Next]_vars

-----------------------------------------------------------------------------
\* However it ends, also when booting fails half way, the process closes the
\* database, the ledger and the reply publisher.
NothingLeftOpen ==
  phase = "exited" => held = {}

\* A handler keeps the database and the reply publisher until it returns, unless
\* its server returned an error, and then the process does not exit with 0:
\* runServers joins all workers before the deferred closes.
HandlersKeepResources ==
  \A w \in busy :
    /\ w \in failed \/ {"db", "replies"} \subseteq held
    /\ w \in failed /\ phase \in {"close", "exited"} => code = 1

\* The inductive invariant: what the closers are at every phase; a handler in
\* progress has its worker at work, or its server returned an error; and the
\* closes begin when all workers returned, or none was started.
IInv ==
  /\ TypeOK
  /\ phase = "boot" =>
       /\ held \in {{}, {"db"}, {"db", "ledger"}, Resources}
       /\ closers = IF held = {} THEN <<>> ELSE <<"db">>
       /\ busy = {} /\ failed = {}
       /\ \A w \in Workers : worker[w] = "off"
  /\ phase = "serve" =>
       held = {"db", "replies"} /\ closers = <<"replies", "ledger", "db">>
  /\ phase \in {"close", "exited"} =>
       /\ held \subseteq {closers[i] : i \in DOMAIN closers}
       /\ (\A w \in Workers : worker[w] = "off") \/ (\A w \in Workers : worker[w] = "done")
       /\ failed # {} => code = 1
  /\ phase = "exited" => closers = <<>>
  /\ \A w \in busy :
       \/ worker[w] \in {"serve", "drain", "session"}
       \/ worker[w] = "done" /\ w \in failed

\* RunConsumer comes back: a consumer that lost its session, or has none yet, has
\* one again once the broker stays up, unless a signal or the error of a server
\* ends the process.  Only those end it: a consumer does not return because its
\* session failed.
ConsumersComeBack ==
  \A c \in Consumers :
    worker[c] \in {"dial", "sleep"} ~> worker[c] = "session" \/ signaled \/ failed # {}

\* "The first one to exit cancels the shared context so the others shut down
\* too": one worker returning, or a signal, ends the process.
StopsTogether ==
  (signaled \/ \E w \in Workers : worker[w] = "done") ~> phase = "exited"
==============================================================================
