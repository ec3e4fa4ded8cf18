--------------------------- MODULE BrokerPublisher ---------------------------
(***************************************************************************)
(* internal/messaging.Publisher: concurrent Publish calls share one cached *)
(* AMQP channel, redial under a write lock when it has died, and drop it   *)
(* when a publish on it failed.  Channels are numbered in the order they   *)
(* are dialled; a channel stands for its connection too.                   *)
(***************************************************************************)
EXTENDS Naturals, FiniteSets

CONSTANTS
  Callers,   \* Publish calls
  NoCaller,  \* the write lock is free
  MaxFaults  \* bound on dial errors, publish errors and dropped connections

ASSUME PublisherAssumption ==
  IsFiniteSet(Callers) /\ NoCaller \notin Callers /\ MaxFaults \in Nat

NoChannel == 0

VARIABLES
  current,   \* p.ch
  open,      \* channels that are not closed
  dialled,   \* channels dialled so far
  writer,    \* who holds the write lock of p.mu
  pc,        \* where each call is
  mine,      \* the channel a call uses
  accepted,  \* calls whose message the broker has durably accepted
  given,     \* dials whose caller gave up and that are still under way
  stray,     \* channels that came of such dials
  closed,    \* Close was called
  faults     \* dial errors, publish errors and dropped connections so far

strayVars == <<given, stray>>
vars == <<current, open, dialled, writer, pc, mine, accepted, strayVars, closed, faults>>

TypeOK ==
  /\ current \in 0..dialled
  /\ open \in SUBSET (1..dialled)
  /\ dialled \in Nat
  /\ writer \in Callers \cup {NoCaller}
  /\ pc \in [Callers -> {"lookup", "redial", "dial", "publish", "wait", "reset",
                         "ok", "error"}]
  /\ mine \in [Callers -> 0..dialled]
  /\ \A c \in Callers : pc[c] \in {"publish", "wait", "reset"} => mine[c] # NoChannel
  /\ accepted \in SUBSET Callers
  /\ given \in Nat
  /\ stray \in SUBSET (1..dialled)
  /\ closed \in BOOLEAN
  /\ faults \in 0..MaxFaults

Init ==
  /\ current = NoChannel
  /\ open = {}
  /\ dialled = 0
  /\ writer = NoCaller
  /\ pc = [c \in Callers |-> "lookup"]
  /\ mine = [c \in Callers |-> NoChannel]
  /\ accepted = {}
  /\ given = 0
  /\ stray = {}
  /\ closed = FALSE
  /\ faults = 0

-----------------------------------------------------------------------------
Goto(c, from, to) ==
  /\ pc[c] = from
  /\ pc' = [pc EXCEPT ![c] = to]

Fault ==
  /\ faults < MaxFaults
  /\ faults' = faults + 1

Use(c, from) ==
  /\ Goto(c, from, "publish")
  /\ mine' = [mine EXCEPT ![c] = current]

\* getChannel, fast path: liveChannel under the read lock.
LiveChannel(c) ==
  /\ writer = NoCaller
  /\ IF current \in open
     THEN Use(c, "lookup")
     ELSE Goto(c, "lookup", "redial") /\ UNCHANGED mine
  /\ UNCHANGED <<current, open, dialled, writer, accepted, strayVars, closed, faults>>

\* Mutant: no re-check, so that the redial closes what another has just dialled.
RecheckMissing(c) ==
  /\ writer = NoCaller
  /\ Goto(c, "redial", "dial")
  /\ writer' = c
  /\ current' = NoChannel
  /\ open' = open \ {current}
  /\ UNCHANGED <<dialled, mine, accepted, strayVars, closed, faults>>

\* getChannel, slow path: the write lock, the re-check, and resetLocked.
Recheck(c) ==
  /\ writer = NoCaller
  /\ IF current \in open
     THEN Use(c, "redial") /\ UNCHANGED <<current, writer>>
     ELSE /\ Goto(c, "redial", "dial")
          /\ writer' = c
          /\ current' = NoChannel
          /\ UNCHANGED mine
  /\ UNCHANGED <<open, dialled, accepted, strayVars, closed, faults>>

\* Mutant: a failed dial returns with the lock held.
DialKeepsLock(c) ==
  /\ \/ /\ Goto(c, "dial", "publish")
        /\ dialled' = dialled + 1
        /\ open' = open \cup {dialled + 1}
        /\ current' = dialled + 1
        /\ mine' = [mine EXCEPT ![c] = dialled + 1]
        /\ writer' = NoCaller
        /\ UNCHANGED faults
     \/ /\ Fault
        /\ Goto(c, "dial", "error")
        /\ UNCHANGED <<dialled, open, current, mine, writer>>
  /\ UNCHANGED <<accepted, strayVars, closed>>

\* Dial, open the channel, enable confirms, declare the topology: a failure
\* closes what was opened and caches nothing.
Dial(c) ==
  /\ writer' = NoCaller
  /\ \/ /\ Goto(c, "dial", "publish")
        /\ dialled' = dialled + 1
        /\ open' = open \cup {dialled + 1}
        /\ current' = dialled + 1
        /\ mine' = [mine EXCEPT ![c] = dialled + 1]
        /\ UNCHANGED faults
     \/ /\ Fault
        /\ Goto(c, "dial", "error")
        /\ UNCHANGED <<dialled, open, current, mine>>
  /\ UNCHANGED <<accepted, strayVars, closed>>

\* dialContext: the caller's context is done; the dial goes on without it.
GiveUp(c) ==
  /\ Fault
  /\ Goto(c, "dial", "error")
  /\ writer' = NoCaller
  /\ given' = given + 1
  /\ UNCHANGED <<current, open, dialled, mine, accepted, stray, closed>>

\* The abandoned dial fails or succeeds ...
DialLate ==
  /\ given > 0
  /\ given' = given - 1
  /\ \/ UNCHANGED <<dialled, open, stray>>
     \/ /\ dialled' = dialled + 1
        /\ open' = open \cup {dialled + 1}
        /\ stray' = stray \cup {dialled + 1}
  /\ UNCHANGED <<current, writer, pc, mine, accepted, closed, faults>>

\* Mutant: nobody receives the result of the abandoned dial.
CloseStrayNever == UNCHANGED vars

\* ... and its connection is closed in the background.
CloseStray ==
  /\ stray # {}
  /\ open' = open \ stray
  /\ stray' = {}
  /\ UNCHANGED <<current, dialled, writer, pc, mine, accepted, given, closed, faults>>

\* PublishWithDeferredConfirmWithContext, outside the lock.
SendFrame(c) ==
  /\ \/ mine[c] \in open /\ Goto(c, "publish", "wait") /\ UNCHANGED faults
     \/ mine[c] \notin open /\ Goto(c, "publish", "reset") /\ UNCHANGED faults
     \/ Fault /\ Goto(c, "publish", "reset")
  /\ UNCHANGED <<current, open, dialled, writer, mine, accepted, strayVars, closed>>

\* The broker stores the message and, later, confirms it.
Accept(c) ==
  /\ pc[c] = "wait"
  /\ mine[c] \in open
  /\ accepted' = accepted \cup {c}
  /\ UNCHANGED <<current, open, dialled, writer, pc, mine, strayVars, closed, faults>>

\* WaitContext: the confirm; a nack or a timeout; a channel that closes nacks
\* what it has not confirmed.
AwaitConfirm(c) ==
  /\ \/ c \in accepted /\ Goto(c, "wait", "ok") /\ UNCHANGED faults
     \/ Fault /\ (Goto(c, "wait", "error") \/ Goto(c, "wait", "reset"))
     \/ mine[c] \notin open /\ Goto(c, "wait", "error") /\ UNCHANGED faults
  /\ UNCHANGED <<current, open, dialled, writer, mine, accepted, strayVars, closed>>

\* Mutant: the failed channel is closed, and whatever is cached is forgotten.
ResetForgets(c) ==
  /\ writer = NoCaller
  /\ Goto(c, "reset", "error")
  /\ current' = NoChannel
  /\ open' = open \ {mine[c]}
  /\ UNCHANGED <<dialled, writer, mine, accepted, strayVars, closed, faults>>

\* Mutant: whatever is cached is closed.
ResetAlways(c) ==
  /\ writer = NoCaller
  /\ Goto(c, "reset", "error")
  /\ current' = NoChannel
  /\ open' = open \ {current}
  /\ UNCHANGED <<dialled, writer, mine, accepted, strayVars, closed, faults>>

\* resetIfCurrent.
ResetIfCurrent(c) ==
  /\ writer = NoCaller
  /\ Goto(c, "reset", "error")
  /\ IF current = mine[c]
     THEN current' = NoChannel /\ open' = open \ {mine[c]}
     ELSE UNCHANGED <<current, open>>
  /\ UNCHANGED <<dialled, writer, mine, accepted, strayVars, closed, faults>>

\* Close, once, at shutdown; a later Publish dials again.
Close ==
  /\ ~closed
  /\ writer = NoCaller
  /\ closed' = TRUE
  /\ current' = NoChannel
  /\ open' = open \ {current}
  /\ UNCHANGED <<dialled, writer, pc, mine, accepted, strayVars, faults>>

\* The connection drops.
Drop(ch) ==
  /\ ch \in open
  /\ Fault
  /\ open' = open \ {ch}
  /\ UNCHANGED <<current, dialled, writer, pc, mine, accepted, strayVars, closed>>

Publish(c) ==
  \/ LiveChannel(c) \/ Recheck(c) \/ Dial(c) \/ GiveUp(c) \/ SendFrame(c) \/ AwaitConfirm(c)
  \/ ResetIfCurrent(c)

Next ==
  \/ \E c \in Callers : Publish(c) \/ Accept(c)
  \/ \E ch \in open : Drop(ch)
  \/ DialLate \/ CloseStray \/ Close

Spec == Init /\ [][Next]_vars

\* Callers run, a free lock is eventually theirs (sync.RWMutex starves nobody),
\* and the broker answers in the end (or publishTimeout ends the wait: a fault).
FairSpec ==
  /\ Spec
  /\ \A c \in Callers : SF_vars(Publish(c)) /\ WF_vars(Accept(c))
  /\ WF_vars(DialLate) /\ WF_vars(CloseStray)

-----------------------------------------------------------------------------
\* Callers that look up, wait for the lock, redial and publish at the same time do
\* each other no harm: a Publish call fails only if a call to the broker failed, a
\* connection dropped, or Close was called.
FailsForACause ==
  (\E c \in Callers : pc[c] \in {"reset", "error"}) => faults > 0 \/ closed

\* No connection leaks: an open channel is the cached one, or came of a dial its
\* caller gave up on, however redials, failed publishes, drops and Close
\* interleave.
NoLeak ==
  open \subseteq {current} \cup stray

\* While nothing has failed there has been one channel at most, which is cached, is
\* open, and is what everybody uses.
Undisturbed ==
  faults = 0 /\ ~closed =>
    /\ current = NoChannel \/ current \in open
    /\ given = 0 /\ stray = {}
    /\ \A c \in Callers : /\ pc[c] \in {"publish", "wait"} => mine[c] = current
                          /\ pc[c] \notin {"reset", "error"}

\* The inductive invariant: who holds the write lock is dialling, and no channel
\* is cached meanwhile; a failed call leaves at most one dial behind.
IInv ==
  /\ TypeOK
  /\ \A c \in Callers : pc[c] = "dial" <=> writer = c
  /\ writer # NoCaller => current = NoChannel
  /\ given <= Cardinality({c \in Callers : pc[c] = "error"})
  /\ NoLeak
  /\ Undisturbed

\* The connections of dials that were given up are all closed in the end.
StrayIsClosed == <>[](stray \cap open = {})

\* A failure on a channel that was already replaced does not undo the
\* replacement: a live cached channel is discarded only by Close, or by a call
\* that was itself using that channel and failed.
RedialKept ==
  [][(current \in open /\ current' # current) =>
       \/ closed' # closed
       \/ \E c \in Callers : mine[c] = current /\ pc[c] = "reset" /\ pc'[c] = "error"]_vars

\* Every Publish call returns: nobody waits for the lock or a confirm forever.
PublishReturns ==
  <>[](\A c \in Callers : pc[c] \in {"ok", "error"})
==============================================================================
