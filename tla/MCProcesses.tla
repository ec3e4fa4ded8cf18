------------------------------ MODULE MCProcesses ------------------------------
(***************************************************************************)
(* What the two processes open and close: the lifecycle of each, the boot  *)
(* of several instances against one database, and the AMQP connection that *)
(* a Publisher keeps.  They share no state, so a behaviour is one of them. *)
(***************************************************************************)
EXTENDS BrokerPublisher

CONSTANTS Requests, MonolithFaults, NotifierFaults, Instances, Nobody, Last, MigrationFaults

VARIABLES
  which,  \* the part whose behaviour this is
  mphase, mheld, mclosers, mdefers, mgoroutine, mrequest, msignaled, mcanceled, mexpired,
  mcode, mfaults,
  nphase, nheld, nclosers, nworker, nbusy, nfailed, nsignaled, ncanceled, nexpired,
  ncode, nfaults,
  version, dirty, ran, lock, bpc, bsignaled, stopping, bfaults

Monolith == INSTANCE MonolithProcess WITH
  MaxFaults <- MonolithFaults, phase <- mphase, held <- mheld, closers <- mclosers,
  defers <- mdefers, goroutine <- mgoroutine, request <- mrequest, signaled <- msignaled,
  canceled <- mcanceled, expired <- mexpired, code <- mcode, faults <- mfaults

Notifier == INSTANCE NotifierProcess WITH
  MaxFaults <- NotifierFaults, phase <- nphase, held <- nheld, closers <- nclosers,
  worker <- nworker, busy <- nbusy, failed <- nfailed, signaled <- nsignaled,
  canceled <- ncanceled, expired <- nexpired, code <- ncode, faults <- nfaults

Boots == INSTANCE Migrations WITH
  MaxFaults <- MigrationFaults, pc <- bpc, signaled <- bsignaled, faults <- bfaults

ASSUME LifeAssumption ==
  MonolithFaults \in Nat /\ NotifierFaults \in Nat /\ Boots!BootAssumption

monolith == <<mphase, mheld, mclosers, mdefers, mgoroutine, mrequest, msignaled, mcanceled,
              mexpired, mcode, mfaults>>
notifier == <<nphase, nheld, nclosers, nworker, nbusy, nfailed, nsignaled, ncanceled,
              nexpired, ncode, nfaults>>
boots == <<version, dirty, ran, lock, bpc, bsignaled, stopping, bfaults>>
publisher == <<current, open, dialled, writer, pc, mine, accepted, given, stray, closed, faults>>
allVars == <<which, monolith, notifier, boots, publisher>>

LifeInit ==
  /\ which \in {"monolith", "notifier", "boots", "publisher"}
  /\ Monolith!Init
  /\ Notifier!Init
  /\ Boots!Init
  /\ Init

MonolithOnly == which = "monolith" /\ UNCHANGED <<which, notifier, boots, publisher>>
NotifierOnly == which = "notifier" /\ UNCHANGED <<which, monolith, boots, publisher>>
BootsOnly == which = "boots" /\ UNCHANGED <<which, monolith, notifier, publisher>>
PublisherOnly == which = "publisher" /\ UNCHANGED <<which, monolith, notifier, boots>>

LifeNext ==
  \/ MonolithOnly /\ Monolith!Next
  \/ NotifierOnly /\ Notifier!Next
  \/ BootsOnly /\ Boots!Next
  \/ PublisherOnly /\ Next

\* Goroutines run and time passes.  Handlers of the queues and of the gRPC server
\* return, as their calls have timeouts and contexts; other handlers may hang.
\* select chooses at random among the ready cases, so a consumer whose context
\* is done does not take deliveries for ever.  A free lock is eventually a
\* publisher's (sync.RWMutex starves nobody), and the broker answers in the end:
\* publishTimeout ends the wait for a confirm (a fault), but nothing ends that for
\* the calls that follow a dial.
LifeSpec ==
  /\ LifeInit /\ [][LifeNext]_allVars
  /\ WF_monolith(MonolithOnly /\ Monolith!Run) /\ WF_monolith(MonolithOnly /\ Monolith!Expire)
  /\ WF_notifier(NotifierOnly /\ Notifier!Run) /\ WF_notifier(NotifierOnly /\ Notifier!Expire)
  /\ \A s \in Notifier!Servers : WF_notifier(NotifierOnly /\ Notifier!ServerSteps(s))
  /\ \A c \in Notifier!Consumers :
       /\ WF_notifier(NotifierOnly /\ Notifier!ConsumerSteps(c))
       /\ SF_notifier(NotifierOnly /\ Notifier!SessionEnds(c))
  /\ \A w \in {"grpc", "email", "saga"} : WF_notifier(NotifierOnly /\ Notifier!Handled(w))
  /\ \A c \in Callers :
       /\ SF_publisher(PublisherOnly /\ Publish(c))
       /\ WF_publisher(PublisherOnly /\ Accept(c))
  /\ WF_publisher(PublisherOnly /\ DialLate) /\ WF_publisher(PublisherOnly /\ CloseStray)

-----------------------------------------------------------------------------
\* The invariant of every part, the types of its variables included.
PartsInv == Monolith!IInv /\ Notifier!IInv /\ Boots!IInv /\ IInv

\* Both processes end with every resource closed, whatever failed before, and the
\* monolith with its limiter's goroutine stopped.
NothingLeftOpen == Monolith!NothingLeftOpen /\ Notifier!NothingLeftOpen

\* The monolith exits with 0 only if every accepted request was answered.
CleanExitAnswered == Monolith!CleanExitAnswered

\* The monolith closes nothing under a running poller before shutdownTimeout, and
\* the notifier nothing under a running handler whose server did not fail.
WorkKeepsResources == Monolith!PollerDrained /\ Notifier!HandlersKeepResources

\* A consumer of the notifier that lost the broker has a session again once the
\* broker stays up, unless a signal or the error of a server ends the process.
ConsumersComeBack == Notifier!ConsumersComeBack

\* A signal ends the monolith, even if handlers or the poller hang; a signal or
\* the return of one worker ends the whole notifier.
ProcessesExit == Monolith!MonolithExits /\ Notifier!StopsTogether

\* A process serves only on the complete schema, each migration applied once.
SchemaBeforeServing == Boots!SchemaBeforeServing

\* Every Publish call returns: nobody waits for the lock or a confirm forever.
PublishCallsReturn == which = "publisher" => PublishReturns
================================================================================
