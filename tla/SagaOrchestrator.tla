-------------------------- MODULE SagaOrchestrator --------------------------
(***************************************************************************)
(* The subscribe saga's orchestrator (internal/saga): request goroutines   *)
(* blocked in StartAndWait, the single reply-consumer goroutine, the       *)
(* single reaper goroutine, the saga_instances table they share, and the   *)
(* two queues between the orchestrator and the notifier's participant.     *)
(*                                                                         *)
(* Every database call, broker call and channel operation is one step.     *)
(* Sagas are numbered in the order in which StartAndWait computed their    *)
(* deadlines, so ORDER BY timeout_at is the order of the numbers.          *)
(***************************************************************************)
EXTENDS Integers, FiniteSets

CONSTANTS
  N,            \* number of StartAndWait calls
  Consumer,     \* the reply-consumer goroutine
  Reaper,       \* the reaper goroutine
  ReaperBatch,  \* LIMIT of ListTimedOut
  Outcomes,     \* how a remote call may end, see CallOutcomes
  MaxFaults,    \* bound on failed calls and crashes
  MaxCopies     \* bound on copies of one reply in the queue

\* ok: the call took effect and returned; lost: it failed without effect;
\* late: it took effect, and the caller saw an error (connection or context gone).
CallOutcomes == {"ok", "lost", "late"}

ASSUME NAssumption == N \in Nat \ {0}
ASSUME GoroutineAssumption ==
  Consumer # Reaper /\ Consumer \notin 1..N /\ Reaper \notin 1..N
ASSUME BatchAssumption == ReaperBatch \in Nat \ {0}
ASSUME OutcomesAssumption == Outcomes \subseteq CallOutcomes /\ "ok" \in Outcomes
ASSUME BoundsAssumption == MaxFaults \in Nat /\ MaxCopies \in Nat \ {0}

Sagas == 1..N
Goroutines == Sagas \cup {Consumer, Reaper}
Replies == [saga : Sagas, type : {"sent", "failed"}]
NoDelivery == [saga |-> 1, type |-> "sent"]

VARIABLES
  sagaState,  \* saga_instances.state, "none" when there is no row
  waiters,    \* the waiters map: no entry, an empty channel, or the buffered state
  result,     \* what StartAndWait returned
  pc,         \* where each goroutine is
  delivery,   \* the reply the consumer is handling (NoDelivery when idle)
  batch,      \* ids the reaper listed and has not started on
  reaping,    \* the id the reaper is compensating
  published,  \* sagas whose SendConfirmation command reached the broker
  commands,   \* sagas whose SendConfirmation command is in the queue
  replies,    \* copies of each reply in the queue, the unacked one included
  expired,    \* sagas 1..expired are past timeout_at
  cancels,    \* sagas on whose behalf canceller.Cancel took effect
  faults,     \* failed calls and crashes so far
  misled      \* sagas whose command was queued, or which were completed, behind an
              \* error (history)

callerVars == <<waiters, result>>
workVars == <<delivery, batch, reaping>>
queueVars == <<published, commands, replies>>
faultVars == <<faults, misled>>
vars == <<sagaState, callerVars, pc, workVars, queueVars, expired, cancels, faultVars>>

States == {"none", "awaiting", "completed", "compensating", "failed"}
Waiters == {"none", "empty", "completed", "failed"}
Results == {"none", "ok", "failed", "timeout", "canceled", "error", "crashed"}
CompensateSteps == {"claim", "get", "cancel", "mark"}
RequestSteps == CompensateSteps \cup
  {"init", "create", "rollback", "publish", "confirm", "wait",
   "returnError", "returnFailed", "done"}
ConsumerSteps == CompensateSteps \cup {"idle", "complete", "signal", "ack", "requeue"}
ReaperSteps == CompensateSteps \cup {"idle", "reap"}

TypeOK ==
  /\ sagaState \in [Sagas -> States]
  /\ waiters \in [Sagas -> Waiters]
  /\ result \in [Sagas -> Results]
  /\ pc \in [Goroutines -> RequestSteps \cup ConsumerSteps \cup ReaperSteps]
  /\ \A s \in Sagas : pc[s] \in RequestSteps
  /\ pc[Consumer] \in ConsumerSteps
  /\ pc[Reaper] \in ReaperSteps
  /\ delivery \in Replies
  /\ batch \in SUBSET Sagas
  /\ reaping \in Sagas
  /\ published \in SUBSET Sagas
  /\ commands \in SUBSET Sagas
  /\ replies \in [Replies -> 0..MaxCopies]
  /\ expired \in 0..N
  /\ cancels \in SUBSET Sagas
  /\ faults \in 0..MaxFaults
  /\ misled \in SUBSET Sagas

Init ==
  /\ sagaState = [s \in Sagas |-> "none"]
  /\ waiters = [s \in Sagas |-> "none"]
  /\ result = [s \in Sagas |-> "none"]
  /\ pc = [g \in Goroutines |-> IF g \in Sagas THEN "init" ELSE "idle"]
  /\ delivery = NoDelivery
  /\ batch = {}
  /\ reaping = 1
  /\ published = {}
  /\ commands = {}
  /\ replies = [r \in Replies |-> 0]
  /\ expired = 0
  /\ cancels = {}
  /\ faults = 0
  /\ misled = {}

-----------------------------------------------------------------------------
\* A remote call ends with outcome out; anything but "ok" spends a fault.
Spend(out) ==
  /\ out # "ok" => faults < MaxFaults
  /\ faults' = IF out = "ok" THEN faults ELSE faults + 1

Call(out) == Spend(out) /\ UNCHANGED misled

\* A call whose error hides that saga s moved on.
HidingCall(s, moves, out) ==
  /\ Spend(out)
  /\ misled' = IF moves /\ out = "late" THEN misled \cup {s} ELSE misled

TookEffect(out) == out # "lost"

Goto(g, from, to) ==
  /\ pc[g] = from
  /\ pc' = [pc EXCEPT ![g] = to]

\* An UPDATE of one row guarded by its current state.
Transition(s, from, to, out) ==
  sagaState' = IF sagaState[s] = from /\ TookEffect(out)
               THEN [sagaState EXCEPT ![s] = to]
               ELSE sagaState

\* The deferred unregisterWaiter, and the return of StartAndWait.
Return(s, from, r) ==
  /\ Goto(s, from, "done")
  /\ result' = [result EXCEPT ![s] = r]
  /\ waiters' = [waiters EXCEPT ![s] = "none"]
  /\ UNCHANGED <<sagaState, workVars, queueVars, expired, cancels, faultVars>>

-----------------------------------------------------------------------------
\* StartAndWait

\* The saga id and the deadline are computed.
Start(s) ==
  /\ \A p \in 1..(s - 1) : pc[p] # "init"
  /\ Goto(s, "init", "create")
  /\ UNCHANGED <<sagaState, callerVars, workVars, queueVars, expired, cancels, faultVars>>

\* store.Create, then registerWaiter; after an error the rollback comes next.
Create(s, out) ==
  /\ Goto(s, "create", IF out = "ok" THEN "publish" ELSE "rollback")
  /\ Call(out)
  /\ Transition(s, "none", "awaiting", out)
  /\ waiters' = IF out = "ok" THEN [waiters EXCEPT ![s] = "empty"] ELSE waiters
  /\ UNCHANGED <<result, workVars, queueVars, expired, cancels>>

\* cancelQuietly: an error is only logged.
CancelQuietly(s, out) ==
  /\ Goto(s, "rollback", "returnError")
  /\ Call(out)
  /\ cancels' = IF TookEffect(out) THEN cancels \cup {s} ELSE cancels
  /\ UNCHANGED <<sagaState, callerVars, workVars, queueVars, expired>>

\* publishConfirmation: the command reaches the broker before Publish returns,
\* or Publish fails without it.
Publish(s, out) ==
  /\ out # "late"
  /\ Goto(s, "publish", IF out = "ok" THEN "confirm" ELSE "claim")
  /\ Call(out)
  /\ published' = IF out = "ok" THEN published \cup {s} ELSE published
  /\ commands' = IF out = "ok" THEN commands \cup {s} ELSE commands
  /\ UNCHANGED <<sagaState, callerVars, workVars, replies, expired, cancels>>

\* Mutant: registerWaiter runs after Publish, not before it.
PublishConfirmRegisters(s, out) ==
  /\ out # "lost"
  /\ Goto(s, "confirm", IF out = "ok" THEN "wait" ELSE "claim")
  /\ HidingCall(s, TRUE, out)
  /\ waiters' = [waiters EXCEPT ![s] = "empty"]
  /\ UNCHANGED <<sagaState, result, workVars, queueVars, expired, cancels>>

\* The broker's confirm arrives, or it does not and Publish fails although the
\* command is in the queue; every failure leads to compensateQuietly.
PublishConfirm(s, out) ==
  /\ out # "lost"
  /\ Goto(s, "confirm", IF out = "ok" THEN "wait" ELSE "claim")
  /\ HidingCall(s, TRUE, out)
  /\ UNCHANGED <<sagaState, callerVars, workVars, queueVars, expired, cancels>>

\* select: the outcome is in the channel.
ReceiveOutcome(s) ==
  /\ waiters[s] \in {"completed", "failed"}
  /\ Return(s, "wait", IF waiters[s] = "completed" THEN "ok" ELSE "failed")

\* Mutant: the time.After case is missing from the select.
TimeOutMissing(s) == s <= expired /\ FALSE

\* select: time.After fires, never before the deadline stored in the row.
TimeOut(s) ==
  /\ s <= expired
  /\ Return(s, "wait", "timeout")

\* select: the request context is done (the client went away).
Disconnect(s) == Return(s, "wait", "canceled")

ReturnError(s) ==
  \/ Return(s, "returnError", "error")
  \/ Return(s, "returnFailed", "failed")

-----------------------------------------------------------------------------
\* compensate, run by a request (compensateQuietly), the consumer or the reaper

Target(g) ==
  IF g = Consumer THEN delivery.saga ELSE IF g = Reaper THEN reaping ELSE g

\* Where compensate returns to: its caller looks at the error, or drops it.
AfterCompensate(g, ok) ==
  IF g = Reaper THEN "reap"
  ELSE IF g # Consumer THEN "returnFailed"
  ELSE IF ok THEN "signal" ELSE "requeue"

\* Mutant: the UPDATE of the claim has no condition on the state.
ClaimUnguarded(g, out) ==
  LET s == Target(g) IN
  /\ Goto(g, "claim", IF out # "ok" THEN AfterCompensate(g, FALSE) ELSE "cancel")
  /\ Call(out)
  /\ Transition(s, sagaState[s], "compensating", out)
  /\ UNCHANGED <<callerVars, workVars, queueVars, expired, cancels>>

\* Mutant: the saga is marked failed before its subscription is cancelled.
ClaimThenMark(g, out) ==
  LET s == Target(g) IN
  /\ Goto(g, "claim", IF out # "ok" THEN AfterCompensate(g, FALSE)
                      ELSE IF sagaState[s] = "awaiting" THEN "mark" ELSE "get")
  /\ Call(out)
  /\ Transition(s, "awaiting", "compensating", out)
  /\ UNCHANGED <<callerVars, workVars, queueVars, expired, cancels>>

ClaimCompensation(g, out) ==
  LET s == Target(g) IN
  /\ Goto(g, "claim", IF out # "ok" THEN AfterCompensate(g, FALSE)
                      ELSE IF sagaState[s] = "awaiting" THEN "cancel" ELSE "get")
  /\ Call(out)
  /\ Transition(s, "awaiting", "compensating", out)
  /\ UNCHANGED <<callerVars, workVars, queueVars, expired, cancels>>

\* The claim was lost: only a saga still in compensating is resumed.
Get(g, out) ==
  LET s == Target(g) IN
  /\ out # "late"
  /\ Goto(g, "get",
          IF out = "lost" THEN AfterCompensate(g, FALSE)
          ELSE IF sagaState[s] = "compensating" THEN "cancel"
          ELSE AfterCompensate(g, sagaState[s] # "none"))
  /\ Call(out)
  /\ UNCHANGED <<sagaState, callerVars, workVars, queueVars, expired, cancels>>

Cancel(g, out) ==
  /\ Goto(g, "cancel", IF out = "ok" THEN "mark" ELSE AfterCompensate(g, FALSE))
  /\ Call(out)
  /\ cancels' = IF TookEffect(out) THEN cancels \cup {Target(g)} ELSE cancels
  /\ UNCHANGED <<sagaState, callerVars, workVars, queueVars, expired>>

MarkCompensated(g, out) ==
  /\ Goto(g, "mark", AfterCompensate(g, out = "ok"))
  /\ Call(out)
  /\ Transition(Target(g), "compensating", "failed", out)
  /\ UNCHANGED <<callerVars, workVars, queueVars, expired, cancels>>

-----------------------------------------------------------------------------
\* The reply consumer: HandleReply inside messaging's pump and settle

\* Mutant: a failed reply signals the caller without compensating.
HandleReplySignals(r) ==
  /\ replies[r] > 0
  /\ Goto(Consumer, "idle", IF r.type = "sent" THEN "complete" ELSE "signal")
  /\ delivery' = r
  /\ UNCHANGED <<sagaState, callerVars, batch, reaping, queueVars, expired, cancels, faultVars>>

HandleReply(r) ==
  /\ replies[r] > 0
  /\ Goto(Consumer, "idle", IF r.type = "sent" THEN "complete" ELSE "claim")
  /\ delivery' = r
  /\ UNCHANGED <<sagaState, callerVars, batch, reaping, queueVars, expired, cancels, faultVars>>

\* Mutant: the caller is told of a completion that lost against a claim.
CompleteAlwaysSignals(out) ==
  /\ Goto(Consumer, "complete", IF out # "ok" THEN "requeue" ELSE "signal")
  /\ HidingCall(delivery.saga, sagaState[delivery.saga] = "awaiting", out)
  /\ Transition(delivery.saga, "awaiting", "completed", out)
  /\ UNCHANGED <<callerVars, workVars, queueVars, expired, cancels>>

\* onConfirmationSent: only the call that made the transition signals.
CompleteIfAwaiting(out) ==
  LET s == delivery.saga IN
  /\ Goto(Consumer, "complete",
          IF out # "ok" THEN "requeue"
          ELSE IF sagaState[s] = "awaiting" THEN "signal" ELSE "ack")
  /\ HidingCall(s, sagaState[s] = "awaiting", out)
  /\ Transition(s, "awaiting", "completed", out)
  /\ UNCHANGED <<callerVars, workVars, queueVars, expired, cancels>>

\* Non-blocking send on a channel of capacity one, if there is a waiter.
SignalWaiter ==
  LET s == delivery.saga IN
  /\ Goto(Consumer, "signal", "ack")
  /\ waiters' = IF waiters[s] = "empty"
                THEN [waiters EXCEPT ![s] =
                        IF delivery.type = "sent" THEN "completed" ELSE "failed"]
                ELSE waiters
  /\ UNCHANGED <<sagaState, result, workVars, queueVars, expired, cancels, faultVars>>

\* settle: an ack removes the delivery, unless it does not reach the broker.
Ack(out) ==
  /\ Goto(Consumer, "ack", "idle")
  /\ Call(out)
  /\ replies' = IF TookEffect(out) THEN [replies EXCEPT ![delivery] = @ - 1] ELSE replies
  /\ delivery' = NoDelivery
  /\ UNCHANGED <<sagaState, callerVars, batch, reaping, published, commands, expired, cancels>>

\* settle: a nack with requeue leaves it to be delivered again.
Requeue ==
  /\ Goto(Consumer, "requeue", "idle")
  /\ delivery' = NoDelivery
  /\ UNCHANGED <<sagaState, callerVars, batch, reaping, queueVars, expired, cancels, faultVars>>

-----------------------------------------------------------------------------
\* The reaper

\* Mutant: the SELECT has no condition on the state, and a finished saga stays in
\* front of the backlog.
TimedOutAnyState == {s \in Sagas : sagaState[s] # "none" /\ s <= expired}

TimedOut == {s \in Sagas : sagaState[s] = "awaiting" /\ s <= expired}

\* A tick: ListTimedOut returns the oldest ReaperBatch ids (none on an error).
Reap(out) ==
  /\ out # "late"
  /\ Goto(Reaper, "idle", "reap")
  /\ Call(out)
  /\ batch' = IF out = "lost" THEN {}
              ELSE {s \in TimedOut :
                      Cardinality({p \in TimedOut : p < s}) < ReaperBatch}
  /\ UNCHANGED <<sagaState, callerVars, delivery, reaping, queueVars, expired, cancels>>

ReapNext ==
  \E s \in batch :
    /\ \A p \in batch : s <= p
    /\ Goto(Reaper, "reap", "claim")
    /\ reaping' = s
    /\ batch' = batch \ {s}
    /\ UNCHANGED <<sagaState, callerVars, delivery, queueVars, expired, cancels, faultVars>>

ReapDone ==
  /\ batch = {}
  /\ Goto(Reaper, "reap", "idle")
  /\ reaping' = 1
  /\ UNCHANGED <<sagaState, callerVars, delivery, batch, queueVars, expired, cancels, faultVars>>

-----------------------------------------------------------------------------
\* The environment: the notifier's participant, the clock, a crash

\* Participant.Handle: the reply is published; the command is acked, or it is
\* requeued because Publish saw an error (or the ack was lost) although the
\* reply is in the queue.  A requeue without a reply changes nothing.
Participant(s, type, acked) ==
  LET r == [saga |-> s, type |-> type] IN
  /\ s \in commands
  /\ replies[r] < MaxCopies
  /\ replies' = [replies EXCEPT ![r] = @ + 1]
  /\ commands' = IF acked THEN commands \ {s} ELSE commands
  /\ UNCHANGED <<sagaState, callerVars, pc, workVars, published, expired, cancels, faultVars>>

\* The deadline of the next saga passes.
Expire ==
  /\ expired < N
  /\ pc[expired + 1] # "init"
  /\ expired' = expired + 1
  /\ UNCHANGED <<sagaState, callerVars, pc, workVars, queueVars, cancels, faultVars>>

\* The monolith dies and restarts: goroutines and waiters are gone, the unacked
\* delivery returns to the queue, the tables and queues stay.
Crash ==
  LET InFlight == {s \in Sagas : pc[s] \notin {"init", "done"}} IN
  /\ faults < MaxFaults
  /\ faults' = faults + 1
  /\ pc' = [g \in Goroutines |-> IF g \in InFlight THEN "done"
                                 ELSE IF g \in Sagas THEN pc[g] ELSE "idle"]
  /\ result' = [s \in Sagas |-> IF s \in InFlight THEN "crashed" ELSE result[s]]
  /\ waiters' = [s \in Sagas |-> "none"]
  /\ delivery' = NoDelivery
  /\ batch' = {}
  /\ reaping' = 1
  /\ UNCHANGED <<sagaState, queueVars, expired, cancels, misled>>

-----------------------------------------------------------------------------
\* A request under way: everything but its arrival and the client's departure.
Serve(s) ==
  \/ \E out \in Outcomes :
       Create(s, out) \/ CancelQuietly(s, out) \/ Publish(s, out) \/ PublishConfirm(s, out)
  \/ ReceiveOutcome(s) \/ TimeOut(s) \/ ReturnError(s)

Compensate(g) ==
  \E out \in Outcomes :
    ClaimCompensation(g, out) \/ Get(g, out) \/ Cancel(g, out) \/ MarkCompensated(g, out)

ConsumeReply ==
  \/ \E r \in Replies : HandleReply(r)
  \/ \E out \in Outcomes : CompleteIfAwaiting(out) \/ Ack(out)
  \/ SignalWaiter \/ Requeue

RunReaper == (\E out \in Outcomes : Reap(out)) \/ ReapNext \/ ReapDone

Notifier == \E s \in Sagas, type \in {"sent", "failed"}, acked \in BOOLEAN :
              Participant(s, type, acked)

Next ==
  \/ \E s \in Sagas : Start(s) \/ Serve(s) \/ Disconnect(s)
  \/ \E g \in Goroutines : Compensate(g)
  \/ ConsumeReply
  \/ RunReaper
  \/ Notifier
  \/ Expire
  \/ Crash

Spec == Init /\ [][Next]_vars

\* Goroutines that can run do run, and time passes.  Nothing is assumed of the
\* notifier, of clients and of crashes.
Fairness ==
  /\ \A s \in Sagas : WF_vars(Serve(s))
  /\ \A g \in Goroutines : WF_vars(Compensate(g))
  /\ WF_vars(ConsumeReply)
  /\ WF_vars(RunReaper)
  /\ WF_vars(Expire)

FairSpec == Spec /\ Fairness

-----------------------------------------------------------------------------
\* The orchestrator implements the promise of SagaLifecycle: whatever the
\* interleaving of requests, consumer, reaper, failed calls and crashes, a saga
\* is completed or undone and never both, it is failed only after its undo, and
\* StartAndWait returns nil only for a durably completed saga.
Lifecycle == INSTANCE SagaLifecycle
               WITH state <- sagaState, dispatched <- published,
                    undone <- cancels, answer <- result
ImplementsLifecycle == Lifecycle!Spec

\* The saga that StartAndWait reported as successful is completed and its
\* subscription was not cancelled on its behalf, now or later.
OkIsFinal ==
  \A s \in Sagas : result[s] = "ok" => sagaState[s] = "completed" /\ s \notin cancels

\* A reply can only be about a persisted saga, so compensate never meets
\* ErrNotFound and no reply is requeued forever: Create precedes Publish.
ReplyHasSaga ==
  \A r \in Replies : replies[r] > 0 => sagaState[r.saga] # "none"

\* A request that still waits on a completed saga will find the outcome in its
\* channel: it is there, or the consumer is about to put it there.  This is why
\* registerWaiter precedes Publish.  Only a CompleteIfAwaiting that took effect
\* and reported an error leaves the caller to its timeout.
NoLostWakeup ==
  \A s \in Sagas \ misled :
    pc[s] \in {"publish", "confirm", "wait"} /\ sagaState[s] = "completed" =>
      \/ waiters[s] = "completed"
      \/ pc[Consumer] = "signal" /\ delivery = [saga |-> s, type |-> "sent"]

\* ErrConfirmationFailed answers a saga that completed only when an error hid the
\* command that reached the broker, or the completion itself: whatever else
\* fails, crashes or overlaps, the failure that is reported is one.
FailedNotCompleted ==
  \A s \in Sagas \ misled : result[s] = "failed" => sagaState[s] # "completed"

\* "ErrConfirmationFailed is returned when the notifier reported a failure (or the
\* command could not be dispatched); the subscription was compensated": no saga
\* that StartAndWait reports so is completed.
FailedIsNoSuccess ==
  \A s \in Sagas : result[s] = "failed" => sagaState[s] # "completed"

\* Every caller of StartAndWait is answered, with the notifier down or up.
CallersReturn ==
  \A s \in Sagas : pc[s] \notin {"init", "done"} ~> pc[s] = "done"

\* No saga awaits its confirmation forever: a reply or the reaper moves it on.
AwaitingIsLeft ==
  \A s \in Sagas : sagaState[s] = "awaiting" ~> sagaState[s] # "awaiting"

\* Every saga reaches a final state, as the comment on compensate ("a saga stuck
\* in compensating is resumed") and the migration say.
EventuallyFinal ==
  \A s \in Sagas : sagaState[s] = "awaiting" ~> sagaState[s] \in {"completed", "failed"}

-----------------------------------------------------------------------------
(* The inductive invariant behind OkIsFinal and ImplementsLifecycle.        *)

\* A request that has not published, or that will not.
QuietRequest(s) ==
  pc[s] \in {"init", "create", "rollback", "returnError"} => s \notin published

\* Only a published saga can be the subject of a command, a reply or a completion.
PublishedFirst(s) ==
  \/ s \in commands
  \/ \E r \in Replies : r.saga = s /\ replies[r] > 0
  \/ sagaState[s] = "completed"
  => s \in published

\* Cancel is run for a claimed saga, or for one whose Create failed.
CancelJustified(s) ==
  s \in cancels =>
    \/ sagaState[s] \in {"compensating", "failed"}
    \/ s \notin published /\ pc[s] \in {"returnError", "done"}

FailedWasCancelled(s) == sagaState[s] = "failed" => s \in cancels

\* compensate gets past its claim only for a saga that lost its completion.
CompensatePast(g) ==
  /\ pc[g] \in {"cancel", "mark"} => sagaState[Target(g)] \in {"compensating", "failed"}
  /\ pc[g] = "mark" => Target(g) \in cancels

\* What the consumer is about to do agrees with the reply it holds.
ConsumerAgrees ==
  /\ pc[Consumer] \in CompensateSteps => delivery.type = "failed"
  /\ pc[Consumer] = "complete" => delivery.type = "sent"
  /\ pc[Consumer] = "signal" /\ delivery.type = "sent" =>
       sagaState[delivery.saga] = "completed"
  /\ pc[Consumer] # "idle" => replies[delivery] > 0

AnswerAgrees(s) ==
  /\ waiters[s] = "completed" => sagaState[s] = "completed"
  /\ result[s] = "ok" => sagaState[s] = "completed"
  /\ pc[s] # "done" => result[s] = "none"

\* Whatever is published is about a persisted saga.
Persisted(s) == pc[s] = "publish" \/ s \in published => sagaState[s] # "none"

\* The strengthening of OkIsFinal and ReplyHasSaga that every step preserves.
IInv ==
  /\ TypeOK
  /\ \A s \in Sagas :
       /\ QuietRequest(s)
       /\ PublishedFirst(s)
       /\ CancelJustified(s)
       /\ FailedWasCancelled(s)
       /\ AnswerAgrees(s)
       /\ Persisted(s)
  /\ \A g \in Goroutines : CompensatePast(g)
  /\ ConsumerAgrees

-----------------------------------------------------------------------------
(* What NoLostWakeup and FailedNotCompleted rest on besides IInv.           *)

\* The consumer signals a failure only of a saga that is final.
ConsumerHonest ==
  /\ pc[Consumer] = "get" => sagaState[delivery.saga] \notin {"none", "awaiting"}
  /\ pc[Consumer] = "signal" /\ delivery.type = "failed" =>
       sagaState[delivery.saga] \in {"completed", "failed"}

\* A request that waits has a channel; one that compensates has published nothing,
\* unless it was told so wrongly.
RequestHonest(s) ==
  /\ pc[s] \in {"publish", "confirm", "wait"} => waiters[s] # "none"
  /\ pc[s] = "publish" => s \notin published
  /\ pc[s] \in CompensateSteps \cup {"returnFailed"} => s \notin published \/ s \in misled

\* Where no error hid a success, a channel stays empty after the completion only
\* until the consumer signals, and a failure that is signalled or returned is one.
OutcomeHonest(s) ==
  \/ s \in misled
  \/ /\ waiters[s] = "empty" /\ sagaState[s] = "completed" =>
          pc[Consumer] = "signal" /\ delivery = [saga |-> s, type |-> "sent"]
     /\ waiters[s] = "failed" => sagaState[s] = "failed"
     /\ result[s] = "failed" => sagaState[s] = "failed" \/ s \notin published

HonestInv ==
  /\ ConsumerHonest
  /\ \A s \in Sagas : RequestHonest(s) /\ OutcomeHonest(s)
=============================================================================
