----------------------- MODULE SagaOrchestratorProofs -----------------------
(***************************************************************************)
(* For every number of sagas, every batch size and every bound on faults   *)
(* and duplicates: the orchestrator's safety invariants, and that it       *)
(* implements SagaLifecycle.  The inductive invariant IInv is defined in   *)
(* SagaOrchestrator.                                                       *)
(***************************************************************************)
EXTENDS SagaOrchestrator, TLAPS

\* The vocabulary: constants, and the sets the variables range over.
USE NAssumption, GoroutineAssumption, OutcomesAssumption, BoundsAssumption
    DEF Sagas, Goroutines, Replies, NoDelivery, CallOutcomes, CompensateSteps,
        RequestSteps, ConsumerSteps, ReaperSteps, States, Waiters, Results

\* The initial state satisfies the inductive invariant.
LEMMA InitInv == Init => IInv
<1> SUFFICES ASSUME Init PROVE IInv
  OBVIOUS
<1>1. /\ pc[Consumer] = "idle" /\ pc[Reaper] = "idle"
      /\ \A s \in Sagas : pc[s] = "init"
  BY Zenon DEF Init
<1>2. TypeOK
  BY <1>1 DEF Init, TypeOK
<1>3. ASSUME NEW s \in Sagas
      PROVE  /\ QuietRequest(s) /\ CancelJustified(s) /\ FailedWasCancelled(s)
             /\ AnswerAgrees(s) /\ Persisted(s) /\ PublishedFirst(s)
  BY <1>1 DEF Init, QuietRequest, CancelJustified, FailedWasCancelled, AnswerAgrees,
              Persisted, PublishedFirst
<1>4. (\A g \in Goroutines : CompensatePast(g)) /\ ConsumerAgrees
  BY <1>1 DEF CompensatePast, ConsumerAgrees
<1> QED
  BY <1>2, <1>3, <1>4 DEF IInv

\* The number of queued copies never grows by an ack and never drops below zero:
\* the delivery being acked is still counted.
LEMMA AckedCopies ==
  ASSUME IInv, NEW out \in Outcomes, Ack(out)
  PROVE  /\ replies' \in [Replies -> 0..MaxCopies]
         /\ \A r \in Replies : replies'[r] <= replies[r]
<1>1. /\ replies \in [Replies -> 0..MaxCopies]
      /\ delivery \in Replies
      /\ replies[delivery] > 0
  BY DEF IInv, TypeOK, ConsumerAgrees, Ack, Goto
<1>2. replies' = replies \/ replies' = [replies EXCEPT ![delivery] = @ - 1]
  BY DEF Ack
<1> HIDE DEF Replies
<1> QED
  BY <1>1, <1>2

\* A reply published by the participant adds one copy of a reply of its saga.
LEMMA RepliedCopies ==
  ASSUME IInv, NEW s \in Sagas, NEW type \in {"sent", "failed"}, NEW acked \in BOOLEAN,
         Participant(s, type, acked)
  PROVE  /\ replies' \in [Replies -> 0..MaxCopies]
         /\ \A q \in Replies : q.saga # s => replies'[q] = replies[q]
         /\ \A q \in Replies : replies'[q] >= replies[q]
<1> DEFINE r == [saga |-> s, type |-> type]
<1>1. r \in Replies /\ r.saga = s
  OBVIOUS
<1>2. /\ replies \in [Replies -> 0..MaxCopies]
      /\ replies[r] < MaxCopies
      /\ replies' = [replies EXCEPT ![r] = @ + 1]
  BY DEF IInv, TypeOK, Participant
<1> HIDE DEF Replies, r
<1> QED
  BY <1>1, <1>2

\* A crash leaves well-typed program counters, with both workers idle.
LEMMA CrashedPc ==
  ASSUME TypeOK, Crash
  PROVE  /\ pc' \in [Goroutines -> RequestSteps \cup ConsumerSteps \cup ReaperSteps]
         /\ pc'[Consumer] = "idle" /\ pc'[Reaper] = "idle"
         /\ \A s \in Sagas : pc'[s] \in {pc[s], "done"}
         /\ \A s \in Sagas : pc[s] = "done" => pc'[s] = "done"
<1>1. \A g \in Goroutines :
        pc'[g] = IF g \in {s \in Sagas : pc[s] \notin {"init", "done"}} THEN "done"
                 ELSE IF g \in Sagas THEN pc[g] ELSE "idle"
  BY DEF Crash
<1>2. DOMAIN pc' = Goroutines /\ pc' = [g \in Goroutines |-> pc'[g]]
  BY DEF Crash
<1>3. ASSUME NEW g \in Goroutines
      PROVE  pc'[g] \in RequestSteps \cup ConsumerSteps \cup ReaperSteps
  BY <1>1 DEF TypeOK
<1> QED
  BY <1>1, <1>2, <1>3

-----------------------------------------------------------------------------
(* What a step may do to each piece of the state.  Every action is shown to *)
(* keep to it, and the invariant to survive whatever keeps to it.           *)

RowMoves(s) ==
  \/ sagaState'[s] = sagaState[s]
  \/ sagaState[s] = "none" /\ sagaState'[s] = "awaiting"
  \/ sagaState[s] = "awaiting" /\ sagaState'[s] = "compensating"
  \/ /\ sagaState[s] = "awaiting" /\ sagaState'[s] = "completed"
     /\ pc[Consumer] = "complete" /\ delivery.saga = s
  \/ /\ sagaState[s] = "compensating" /\ sagaState'[s] = "failed"
     /\ \E g \in Goroutines : pc[g] = "mark" /\ Target(g) = s

CancelMoves(s) ==
  /\ s \in cancels => s \in cancels'
  /\ s \in cancels' =>
       \/ s \in cancels
       \/ pc[s] = "rollback" /\ pc'[s] = "returnError"
       \/ \E g \in Goroutines : pc[g] = "cancel" /\ Target(g) = s

QueueMoves(s) ==
  /\ s \in published => s \in published'
  /\ s \in published' => s \in published \/ pc[s] = "publish"
  /\ s \in commands' => s \in commands \/ s \in published'
  /\ \A r \in Replies : r.saga = s /\ replies'[r] > 0 => replies[r] > 0 \/ s \in commands

RequestMoves(s) ==
  /\ pc'[s] \in {"init", "create", "rollback", "returnError"} =>
       pc[s] \in {"init", "create", "rollback", "returnError"}
  /\ pc'[s] = "publish" => pc[s] = "publish" \/ sagaState'[s] # "none"
  /\ pc[s] \in {"returnError", "done"} => pc'[s] \in {"returnError", "done"}
  /\ pc'[s] # "done" => pc[s] # "done" /\ result'[s] = result[s]
  /\ result'[s] = "ok" => result[s] = "ok" \/ waiters[s] = "completed"
  /\ waiters'[s] = "completed" =>
       \/ waiters[s] = "completed"
       \/ pc[Consumer] = "signal" /\ delivery.saga = s /\ delivery.type = "sent"

CompensateMoves(g) ==
  /\ pc'[g] \in {"cancel", "mark"} =>
       \/ pc[g] \in {"cancel", "mark"} /\ Target(g)' = Target(g)
       \/ sagaState'[Target(g)'] \in {"compensating", "failed"}
  /\ pc'[g] = "mark" =>
       Target(g)' = Target(g) /\ (pc[g] = "mark" \/ Target(g) \in cancels')

ConsumerMoves ==
  /\ pc'[Consumer] \in CompensateSteps =>
       (pc[Consumer] \in CompensateSteps /\ delivery' = delivery) \/ delivery'.type = "failed"
  /\ pc'[Consumer] = "complete" =>
       (pc[Consumer] = "complete" /\ delivery' = delivery) \/ delivery'.type = "sent"
  /\ pc'[Consumer] = "signal" =>
       \/ pc[Consumer] \in CompensateSteps \cup {"signal"} /\ delivery' = delivery
       \/ sagaState'[delivery'.saga] = "completed"
  /\ pc'[Consumer] # "idle" =>
       \/ pc[Consumer] # "idle" /\ delivery' = delivery /\ (replies[delivery] > 0 => replies'[delivery] > 0)
       \/ replies'[delivery'] > 0

Moves ==
  /\ \A s \in Sagas : RowMoves(s) /\ CancelMoves(s) /\ QueueMoves(s) /\ RequestMoves(s)
  /\ \A g \in Goroutines : CompensateMoves(g)
  /\ ConsumerMoves

\* The invariant survives every step that keeps to Moves.
LEMMA MovesKeep ==
  ASSUME IInv, TypeOK', Moves
  PROVE  IInv'
<1>0. /\ TypeOK /\ ConsumerAgrees /\ ConsumerMoves
      /\ \A g \in Goroutines : CompensatePast(g) /\ CompensateMoves(g)
      /\ \A g \in Goroutines : Target(g) \in Sagas
  <2>1. \A g \in Goroutines : Target(g) \in Sagas
    BY DEF IInv, TypeOK, Target
  <2> QED
    BY Zenon, <2>1 DEF IInv, Moves
<1>1. ASSUME NEW s \in Sagas
      PROVE  /\ QuietRequest(s)' /\ PublishedFirst(s)' /\ CancelJustified(s)'
             /\ FailedWasCancelled(s)' /\ AnswerAgrees(s)' /\ Persisted(s)'
  <2>0. /\ QuietRequest(s) /\ PublishedFirst(s) /\ CancelJustified(s)
        /\ FailedWasCancelled(s) /\ AnswerAgrees(s) /\ Persisted(s)
    BY DEF IInv
  <2>1. RowMoves(s) /\ CancelMoves(s) /\ QueueMoves(s) /\ RequestMoves(s)
    BY DEF Moves
  <2>2. QuietRequest(s)'
    BY <2>0, <2>1 DEF QuietRequest, QueueMoves, RequestMoves
  <2>3. Persisted(s)'
    BY <2>0, <2>1 DEF Persisted, RowMoves, QueueMoves, RequestMoves
  <2>4. PublishedFirst(s)'
    <3>1. sagaState'[s] = "completed" => s \in published
      <4>1. pc[Consumer] = "complete" /\ delivery.saga = s => s \in published
        BY Zenon, <1>0, <2>0 DEF ConsumerAgrees, PublishedFirst, TypeOK
      <4> QED
        BY <2>0, <2>1, <4>1 DEF RowMoves, PublishedFirst
    <3> QED
      BY <2>0, <2>1, <3>1 DEF QueueMoves, PublishedFirst
  <2>5. CancelJustified(s)'
    <3>1. sagaState[s] \in {"compensating", "failed"} =>
            sagaState'[s] \in {"compensating", "failed"}
      BY <2>1 DEF RowMoves
    <3>2. ASSUME NEW g \in Goroutines, pc[g] = "cancel", Target(g) = s
          PROVE  sagaState[s] \in {"compensating", "failed"}
      BY <1>0, <3>2 DEF CompensatePast
    <3>3. pc[s] = "rollback" /\ pc'[s] = "returnError" => s \notin published'
      BY <2>2 DEF QuietRequest
    <3> QED
      BY <2>0, <2>1, <3>1, <3>2, <3>3 DEF CancelMoves, CancelJustified, QueueMoves, RequestMoves
  <2>6. FailedWasCancelled(s)'
    <3>1. ASSUME NEW g \in Goroutines, pc[g] = "mark", Target(g) = s PROVE s \in cancels
      BY <1>0, <3>1 DEF CompensatePast
    <3> QED
      BY <2>0, <2>1, <3>1 DEF RowMoves, CancelMoves, FailedWasCancelled
  <2>7. AnswerAgrees(s)'
    <3>1. sagaState[s] = "completed" => sagaState'[s] = "completed"
      BY <2>1 DEF RowMoves
    <3>2. pc[Consumer] = "signal" /\ delivery.saga = s /\ delivery.type = "sent" =>
            sagaState[s] = "completed"
      BY <1>0 DEF ConsumerAgrees
    <3> QED
      BY <2>0, <2>1, <3>1, <3>2 DEF AnswerAgrees, RequestMoves
  <2> QED
    BY <2>2, <2>3, <2>4, <2>5, <2>6, <2>7
<1>2. ASSUME NEW g \in Goroutines PROVE CompensatePast(g)'
  <2>1. /\ sagaState[Target(g)] \in {"compensating", "failed"} =>
             sagaState'[Target(g)] \in {"compensating", "failed"}
        /\ Target(g) \in cancels => Target(g) \in cancels'
    BY <1>0 DEF Moves, RowMoves, CancelMoves
  <2> QED
    BY <1>0, <2>1 DEF CompensatePast, CompensateMoves
<1>3. ConsumerAgrees'
  <2>1. delivery.saga \in Sagas
    BY <1>0 DEF TypeOK
  <2>2. sagaState[delivery.saga] = "completed" => sagaState'[delivery.saga] = "completed"
    BY <2>1 DEF Moves, RowMoves
  <2> QED
    BY <1>0, <2>2 DEF ConsumerAgrees, ConsumerMoves
<1> QED
  BY <1>1, <1>2, <1>3 DEF IInv

\* How one goroutine's step changes the program counters.
LEMMA PcMoves ==
  ASSUME TypeOK, NEW g \in Goroutines, NEW from, NEW to, Goto(g, from, to)
  PROVE  /\ pc[g] = from /\ pc'[g] = to
         /\ \A h \in Goroutines : h # g => pc'[h] = pc[h]
BY DEF Goto, TypeOK

\* They stay program counters of their goroutines.
LEMMA PcTyped ==
  ASSUME TypeOK, NEW g \in Goroutines, NEW from, NEW to, Goto(g, from, to),
         g \in Sagas => to \in RequestSteps,
         g = Consumer => to \in ConsumerSteps,
         g = Reaper => to \in ReaperSteps
  PROVE  /\ pc' \in [Goroutines -> RequestSteps \cup ConsumerSteps \cup ReaperSteps]
         /\ \A s \in Sagas : pc'[s] \in RequestSteps
         /\ pc'[Consumer] \in ConsumerSteps /\ pc'[Reaper] \in ReaperSteps
<1>1. to \in RequestSteps \cup ConsumerSteps \cup ReaperSteps
  OBVIOUS
<1>2. pc' = [pc EXCEPT ![g] = to]
  BY DEF Goto
<1> HIDE DEF RequestSteps, ConsumerSteps, ReaperSteps
<1> QED
  BY <1>1, <1>2, PcMoves DEF TypeOK

\* A failed call is counted up to the bound ...
LEMMA FaultsTyped ==
  ASSUME TypeOK, NEW out, Call(out)
  PROVE  faults' \in 0..MaxFaults /\ misled' \in SUBSET Sagas
BY DEF TypeOK, Call, Spend

\* ... and what its error hides is about a saga.
LEMMA HidingTyped ==
  ASSUME TypeOK, NEW out, NEW s \in Sagas, NEW moves, HidingCall(s, moves, out)
  PROVE  faults' \in 0..MaxFaults /\ misled' \in SUBSET Sagas
<1>1. faults' \in 0..MaxFaults
  BY DEF TypeOK, HidingCall, Spend
<1>2. misled' \in SUBSET Sagas
  BY DEF TypeOK, HidingCall
<1> QED
  BY <1>1, <1>2

\* A request's step that leaves the workers, the queues and the rows alone.
LEMMA RequestOnly ==
  ASSUME TypeOK, NEW s \in Sagas, NEW from \in RequestSteps \ {"done"}, NEW to \in RequestSteps,
         Goto(s, from, to), UNCHANGED <<sagaState, workVars, queueVars, cancels>>,
         RequestMoves(s), to \notin {"cancel", "mark"},
         \A t \in Sagas : t # s => waiters'[t] = waiters[t] /\ result'[t] = result[t]
  PROVE  Moves
<1>1. /\ pc[s] = from /\ pc'[s] = to
      /\ \A h \in Goroutines : h # s => pc'[h] = pc[h]
  BY PcMoves
<1>2. pc'[Consumer] = pc[Consumer]
  BY Zenon, <1>1
<1>3. ASSUME NEW t \in Sagas
      PROVE  RowMoves(t) /\ CancelMoves(t) /\ QueueMoves(t) /\ RequestMoves(t)
  <2>1. t # s => pc'[t] = pc[t]
    BY <1>1
  <2> QED
    BY <2>1 DEF RowMoves, CancelMoves, QueueMoves, RequestMoves, workVars, queueVars
<1>4. ASSUME NEW g \in Goroutines PROVE CompensateMoves(g)
  <2>1. Target(g)' = Target(g)
    BY DEF Target, workVars
  <2> QED
    BY <1>1, <2>1 DEF CompensateMoves
<1>5. ConsumerMoves
  BY <1>2 DEF ConsumerMoves, workVars, queueVars
<1> QED
  BY <1>3, <1>4, <1>5 DEF Moves

\* A return of StartAndWait is such a step.
LEMMA ReturnKeeps ==
  ASSUME TypeOK, NEW s \in Sagas, NEW from \in {"wait", "returnError", "returnFailed"},
         NEW a \in Results, Return(s, from, a), a = "ok" => waiters[s] = "completed"
  PROVE  TypeOK' /\ Moves
<1>1. pc[s] = from /\ pc'[s] = "done"
  BY PcMoves DEF Return
<1>2. /\ waiters' = [waiters EXCEPT ![s] = "none"] /\ result' = [result EXCEPT ![s] = a]
      /\ waiters \in [Sagas -> Waiters] /\ result \in [Sagas -> Results]
  BY DEF Return, TypeOK
<1>3. /\ waiters' \in [Sagas -> Waiters] /\ result' \in [Sagas -> Results]
      /\ waiters'[s] = "none" /\ result'[s] = a
      /\ \A t \in Sagas : t # s => waiters'[t] = waiters[t] /\ result'[t] = result[t]
  BY <1>2
<1>4. RequestMoves(s)
  BY <1>1, <1>3 DEF RequestMoves
<1>5. Moves
  BY <1>3, <1>4, RequestOnly DEF Return
<1>6. TypeOK'
  <2>1. /\ pc' \in [Goroutines -> RequestSteps \cup ConsumerSteps \cup ReaperSteps]
        /\ \A t \in Sagas : pc'[t] \in RequestSteps
        /\ pc'[Consumer] \in ConsumerSteps /\ pc'[Reaper] \in ReaperSteps
    BY PcTyped DEF Return
  <2>2. UNCHANGED <<sagaState, workVars, queueVars, expired, cancels, faultVars>>
    BY DEF Return
  <2> QED
    BY <1>3, <2>1, <2>2 DEF TypeOK, workVars, queueVars, faultVars
<1> QED
  BY <1>5, <1>6

\* Every step of a request goroutine outside compensate keeps to Moves.
LEMMA RequestKeeps ==
  ASSUME IInv, NEW s \in Sagas, Start(s) \/ Serve(s) \/ Disconnect(s)
  PROVE  TypeOK' /\ Moves
<1>0. TypeOK /\ s \in Goroutines /\ s # Consumer /\ s # Reaper
  BY DEF IInv
<1>1. CASE Start(s)
  <2>1. pc[s] = "init" /\ pc'[s] = "create"
    BY <1>0, <1>1, PcMoves DEF Start
  <2>2. RequestMoves(s)
    BY <1>1, <2>1 DEF Start, RequestMoves, callerVars
  <2>3. Moves
    BY <1>0, <1>1, <2>2, RequestOnly DEF Start, callerVars, faultVars
  <2>4. TypeOK'
    BY <1>0, <1>1, PcTyped DEF TypeOK, Start, callerVars, workVars, queueVars, faultVars
  <2> QED
    BY <2>3, <2>4
<1>2. ASSUME NEW out \in Outcomes, Create(s, out) PROVE TypeOK' /\ Moves
  <2> DEFINE to == IF out = "ok" THEN "publish" ELSE "rollback"
  <2>1. /\ pc[s] = "create" /\ pc'[s] = to
        /\ \A h \in Goroutines : h # s => pc'[h] = pc[h]
    BY <1>0, <1>2, PcMoves DEF Create
  <2>2. /\ sagaState' \in [Sagas -> States]
        /\ \A t \in Sagas : t # s => sagaState'[t] = sagaState[t]
        /\ sagaState'[s] = sagaState[s] \/ (sagaState[s] = "none" /\ sagaState'[s] = "awaiting")
        /\ out = "ok" => sagaState'[s] # "none"
    BY <1>0, <1>2 DEF Create, Transition, TookEffect, TypeOK
  <2>3. /\ waiters' \in [Sagas -> Waiters]
        /\ \A t \in Sagas : waiters'[t] \in {waiters[t], "empty"}
    BY <1>0, <1>2 DEF Create, TypeOK
  <2>4. UNCHANGED <<result, workVars, queueVars, cancels>>
    BY <1>2 DEF Create
  <2>5. TypeOK'
    <3>1. faults' \in 0..MaxFaults /\ misled' \in SUBSET Sagas
      BY <1>0, <1>2, FaultsTyped DEF Create
    <3>2. Goto(s, "create", to) /\ to \in RequestSteps /\ UNCHANGED expired
      BY <1>2 DEF Create
    <3> QED
      BY Zenon, <1>0, <2>2, <2>3, <2>4, <3>1, <3>2, PcTyped DEF TypeOK, workVars, queueVars, faultVars
  <2>6. ASSUME NEW t \in Sagas
        PROVE  RowMoves(t) /\ CancelMoves(t) /\ QueueMoves(t) /\ RequestMoves(t)
    <3>1. t # s => pc'[t] = pc[t]
      BY <2>1
    <3> QED
      BY <2>1, <2>2, <2>3, <2>4, <3>1 DEF RowMoves, CancelMoves, QueueMoves, RequestMoves, queueVars
  <2>7. ASSUME NEW g \in Goroutines PROVE CompensateMoves(g)
    BY <2>1, <2>4 DEF CompensateMoves, Target, workVars
  <2>8. ConsumerMoves
    <3>1. pc'[Consumer] = pc[Consumer]
      BY Zenon, <1>0, <2>1
    <3> QED
      BY <2>4, <3>1 DEF ConsumerMoves, workVars, queueVars
  <2> QED
    BY <2>5, <2>6, <2>7, <2>8 DEF Moves
<1>3. ASSUME NEW out \in Outcomes, CancelQuietly(s, out) PROVE TypeOK' /\ Moves
  <2>1. /\ pc[s] = "rollback" /\ pc'[s] = "returnError"
        /\ \A h \in Goroutines : h # s => pc'[h] = pc[h]
    BY <1>0, <1>3, PcMoves DEF CancelQuietly
  <2>2. cancels' = cancels \/ cancels' = cancels \cup {s}
    BY <1>3 DEF CancelQuietly
  <2>3. UNCHANGED <<sagaState, callerVars, workVars, queueVars>>
    BY <1>3 DEF CancelQuietly
  <2>4. TypeOK'
    <3>1. faults' \in 0..MaxFaults /\ misled' \in SUBSET Sagas
      BY <1>0, <1>3, FaultsTyped DEF CancelQuietly
    <3>2. Goto(s, "rollback", "returnError") /\ UNCHANGED expired
      BY <1>3 DEF CancelQuietly
    <3>3. cancels \in SUBSET Sagas
      BY <1>0 DEF TypeOK
    <3>4. cancels' \in SUBSET Sagas
      <4> HIDE DEF Sagas
      <4> QED
        BY <2>2, <3>3
    <3> QED
      BY Zenon, <1>0, <3>4, <2>3, <3>1, <3>2, PcTyped DEF TypeOK, callerVars, workVars, queueVars, faultVars
  <2>5. ASSUME NEW t \in Sagas
        PROVE  RowMoves(t) /\ CancelMoves(t) /\ QueueMoves(t) /\ RequestMoves(t)
    <3>1. t # s => pc'[t] = pc[t]
      BY <2>1
    <3> QED
      BY <2>1, <2>2, <2>3, <3>1
      DEF RowMoves, CancelMoves, QueueMoves, RequestMoves, callerVars, queueVars
  <2>6. ASSUME NEW g \in Goroutines PROVE CompensateMoves(g)
    BY <2>1, <2>2, <2>3 DEF CompensateMoves, Target, workVars
  <2>7. ConsumerMoves
    <3>1. pc'[Consumer] = pc[Consumer]
      BY Zenon, <1>0, <2>1
    <3> QED
      BY <2>3, <3>1 DEF ConsumerMoves, workVars, queueVars
  <2> QED
    BY <2>4, <2>5, <2>6, <2>7 DEF Moves
<1>4. ASSUME NEW out \in Outcomes, Publish(s, out) PROVE TypeOK' /\ Moves
  <2> DEFINE to == IF out = "ok" THEN "confirm" ELSE "claim"
  <2>1. /\ pc[s] = "publish" /\ pc'[s] = to
        /\ \A h \in Goroutines : h # s => pc'[h] = pc[h]
    BY <1>0, <1>4, PcMoves DEF Publish
  <2>2. \/ published' = published /\ commands' = commands
        \/ published' = published \cup {s} /\ commands' = commands \cup {s}
    BY <1>4 DEF Publish
  <2>3. UNCHANGED <<sagaState, callerVars, workVars, replies, cancels>>
    BY <1>4 DEF Publish
  <2>4. TypeOK'
    <3>1. faults' \in 0..MaxFaults /\ misled' \in SUBSET Sagas
      BY <1>0, <1>4, FaultsTyped DEF Publish
    <3>2. Goto(s, "publish", to) /\ to \in RequestSteps /\ UNCHANGED expired
      BY <1>4 DEF Publish
    <3>3. published \in SUBSET Sagas /\ commands \in SUBSET Sagas
      BY <1>0 DEF TypeOK
    <3>4. published' \in SUBSET Sagas /\ commands' \in SUBSET Sagas
      <4> HIDE DEF Sagas
      <4> QED
        BY <2>2, <3>3
    <3> QED
      BY Zenon, <1>0, <3>4, <2>3, <3>1, <3>2, PcTyped DEF TypeOK, callerVars, workVars, faultVars
  <2>5. ASSUME NEW t \in Sagas
        PROVE  RowMoves(t) /\ CancelMoves(t) /\ QueueMoves(t) /\ RequestMoves(t)
    <3>1. t # s => pc'[t] = pc[t]
      BY <2>1
    <3> QED
      BY <2>1, <2>2, <2>3, <3>1 DEF RowMoves, CancelMoves, QueueMoves, RequestMoves, callerVars
  <2>6. ASSUME NEW g \in Goroutines PROVE CompensateMoves(g)
    BY <2>1, <2>3 DEF CompensateMoves, Target, workVars
  <2>7. ConsumerMoves
    <3>1. pc'[Consumer] = pc[Consumer]
      BY Zenon, <1>0, <2>1
    <3> QED
      BY <2>3, <3>1 DEF ConsumerMoves, workVars
  <2> QED
    BY <2>4, <2>5, <2>6, <2>7 DEF Moves
<1>5. ASSUME NEW out \in Outcomes, PublishConfirm(s, out) PROVE TypeOK' /\ Moves
  <2> DEFINE to == IF out = "ok" THEN "wait" ELSE "claim"
  <2>1. Goto(s, "confirm", to) /\ to \in RequestSteps /\ to \notin {"cancel", "mark"}
    BY <1>5 DEF PublishConfirm
  <2>2. pc[s] = "confirm" /\ pc'[s] = to
    BY <1>0, <2>1, PcMoves
  <2>3. UNCHANGED <<sagaState, callerVars, workVars, queueVars, expired, cancels>>
    BY <1>5 DEF PublishConfirm
  <2>4. RequestMoves(s)
    BY <2>2, <2>3 DEF RequestMoves, callerVars
  <2>5. Moves
    <3> HIDE DEF to
    <3> QED
      BY <1>0, <2>1, <2>3, <2>4, RequestOnly DEF callerVars, faultVars
  <2>6. TypeOK'
    <3>1. faults' \in 0..MaxFaults /\ misled' \in SUBSET Sagas
      BY <1>0, <1>5, HidingTyped DEF PublishConfirm
    <3> QED
      BY Zenon, <1>0, <2>1, <2>3, <3>1, PcTyped DEF TypeOK, callerVars, workVars, queueVars, faultVars
  <2> QED
    BY <2>5, <2>6
<1>6. CASE ReceiveOutcome(s) \/ TimeOut(s) \/ Disconnect(s) \/ ReturnError(s)
  <2>1. \E from \in {"wait", "returnError", "returnFailed"}, a \in Results :
          Return(s, from, a) /\ (a = "ok" => waiters[s] = "completed")
    BY <1>6 DEF ReceiveOutcome, TimeOut, Disconnect, ReturnError
  <2> QED
    BY <1>0, <2>1, ReturnKeeps
<1> QED
  BY <1>1, <1>2, <1>3, <1>4, <1>5, <1>6 DEF Serve

\* What a step of compensate does to the row, the program counters and the rest.
LEMMA CompensateEffect ==
  ASSUME IInv, NEW g \in Goroutines, NEW out \in Outcomes,
         ClaimCompensation(g, out) \/ Get(g, out) \/ Cancel(g, out) \/ MarkCompensated(g, out)
  PROVE  /\ UNCHANGED <<callerVars, workVars, queueVars, expired>> /\ Call(out)
         /\ \E to : /\ Goto(g, pc[g], to)
                    /\ g \in Sagas => to \in {"get", "cancel", "mark", "returnFailed"}
                    /\ g = Consumer => to \in {"get", "cancel", "mark", "signal", "requeue"}
                    /\ g = Reaper => to \in {"get", "cancel", "mark", "reap"}
         /\ pc[g] \in CompensateSteps
         /\ sagaState' \in [Sagas -> States]
         /\ \A t \in Sagas : t # Target(g) => sagaState'[t] = sagaState[t]
         /\ \/ sagaState'[Target(g)] = sagaState[Target(g)]
            \/ sagaState[Target(g)] = "awaiting" /\ sagaState'[Target(g)] = "compensating"
            \/ /\ sagaState[Target(g)] = "compensating" /\ sagaState'[Target(g)] = "failed"
               /\ pc[g] = "mark"
<1> DEFINE s == Target(g)
<1>0. TypeOK /\ s \in Sagas
  BY DEF IInv, TypeOK, Target
<1>2. UNCHANGED <<callerVars, workVars, queueVars, expired>> /\ Call(out)
  BY Zenon DEF ClaimCompensation, Get, Cancel, MarkCompensated
<1>3. PICK from \in CompensateSteps,
           to \in {"get", "cancel", "mark", AfterCompensate(g, TRUE), AfterCompensate(g, FALSE)} :
        Goto(g, from, to)
  <2>1. CASE ClaimCompensation(g, out)
    BY Zenon, <2>1 DEF ClaimCompensation
  <2>2. CASE Get(g, out)
    BY <2>2 DEF Get, AfterCompensate
  <2>3. CASE Cancel(g, out)
    BY Zenon, <2>3 DEF Cancel
  <2>4. CASE MarkCompensated(g, out)
    BY <2>4 DEF MarkCompensated, AfterCompensate
  <2> QED
    BY Zenon, <2>1, <2>2, <2>3, <2>4
<1>4. /\ pc[g] = from /\ Goto(g, pc[g], to)
      /\ g \in Sagas => to \in {"get", "cancel", "mark", "returnFailed"}
      /\ g = Consumer => to \in {"get", "cancel", "mark", "signal", "requeue"}
      /\ g = Reaper => to \in {"get", "cancel", "mark", "reap"}
  BY <1>3 DEF AfterCompensate, Goto
<1>6. /\ sagaState' \in [Sagas -> States]
      /\ \A t \in Sagas : t # s => sagaState'[t] = sagaState[t]
      /\ \/ sagaState'[s] = sagaState[s]
         \/ sagaState[s] = "awaiting" /\ sagaState'[s] = "compensating"
         \/ sagaState[s] = "compensating" /\ sagaState'[s] = "failed" /\ pc[g] = "mark"
  <2>1. CASE ClaimCompensation(g, out)
    BY <1>0, <2>1 DEF ClaimCompensation, Transition, TypeOK
  <2>2. CASE Get(g, out) \/ Cancel(g, out)
    BY Zenon, <1>0, <2>2 DEF Get, Cancel, TypeOK
  <2>3. CASE MarkCompensated(g, out)
    BY <1>0, <2>3 DEF MarkCompensated, Transition, TypeOK, Goto
  <2> QED
    BY <2>1, <2>2, <2>3
<1> QED
  BY <1>2, <1>3, <1>4, <1>6

\* Every step of compensate keeps to Moves, whoever runs it.
LEMMA CompensateKeeps ==
  ASSUME IInv, NEW g \in Goroutines, Compensate(g)
  PROVE  TypeOK' /\ Moves
<1> DEFINE s == Target(g)
<1>0. TypeOK /\ s \in Sagas /\ CompensatePast(g) /\ ConsumerAgrees
  BY DEF IInv, TypeOK, Target
<1>1. PICK out \in Outcomes :
        ClaimCompensation(g, out) \/ Get(g, out) \/ Cancel(g, out) \/ MarkCompensated(g, out)
  BY DEF Compensate
<1>2. UNCHANGED <<callerVars, workVars, queueVars, expired>> /\ Call(out)
  BY <1>1, CompensateEffect
<1>3. PICK to : /\ Goto(g, pc[g], to)
                /\ g \in Sagas => to \in {"get", "cancel", "mark", "returnFailed"}
                /\ g = Consumer => to \in {"get", "cancel", "mark", "signal", "requeue"}
                /\ g = Reaper => to \in {"get", "cancel", "mark", "reap"}
  BY <1>1, CompensateEffect
<1>4. pc[g] \in CompensateSteps
  BY <1>1, CompensateEffect
<1>5. /\ pc'[g] = to
      /\ \A h \in Goroutines : h # g => pc'[h] = pc[h]
  BY <1>0, <1>3, PcMoves
<1>6. /\ sagaState' \in [Sagas -> States]
      /\ \A t \in Sagas : t # s => sagaState'[t] = sagaState[t]
      /\ \/ sagaState'[s] = sagaState[s]
         \/ sagaState[s] = "awaiting" /\ sagaState'[s] = "compensating"
         \/ sagaState[s] = "compensating" /\ sagaState'[s] = "failed" /\ pc[g] = "mark"
  BY <1>1, CompensateEffect
<1>7. /\ cancels' = cancels \/ (cancels' = cancels \cup {s} /\ pc[g] = "cancel")
      /\ pc'[g] = "mark" => pc[g] = "cancel" /\ s \in cancels'
      /\ pc'[g] = "cancel" => sagaState'[s] = "compensating"
  <2>1. CASE ClaimCompensation(g, out)
    <3>1. pc'[g] \in {"get", "cancel"} \cup {AfterCompensate(g, FALSE)} /\ cancels' = cancels
      BY Zenon, <1>0, <2>1, PcMoves DEF ClaimCompensation
    <3>2. pc'[g] = "cancel" => out = "ok" /\ sagaState[s] = "awaiting"
      BY <1>0, <2>1, PcMoves DEF ClaimCompensation, AfterCompensate
    <3>3. out = "ok" /\ sagaState[s] = "awaiting" => sagaState'[s] = "compensating"
      BY <1>0, <2>1 DEF ClaimCompensation, Transition, TookEffect, TypeOK
    <3> QED
      BY <3>1, <3>2, <3>3 DEF AfterCompensate
  <2>2. CASE Get(g, out)
    <3>1. /\ pc'[g] \in {"cancel", AfterCompensate(g, TRUE), AfterCompensate(g, FALSE)}
          /\ pc'[g] = "cancel" => sagaState[s] = "compensating"
      BY <1>0, <2>2, PcMoves DEF Get, AfterCompensate
    <3> QED
      BY <2>2, <3>1 DEF Get, AfterCompensate
  <2>3. CASE Cancel(g, out)
    <3>1. /\ pc[g] = "cancel"
          /\ pc'[g] = IF out = "ok" THEN "mark" ELSE AfterCompensate(g, FALSE)
      BY Zenon, <1>0, <2>3, PcMoves DEF Cancel
    <3> QED
      BY <2>3, <3>1 DEF Cancel, TookEffect, AfterCompensate
  <2>4. CASE MarkCompensated(g, out)
    <3>1. pc'[g] = AfterCompensate(g, out = "ok")
      BY <1>0, <2>4, PcMoves DEF MarkCompensated
    <3> QED
      BY <2>4, <3>1 DEF MarkCompensated, AfterCompensate
  <2> QED
    BY <1>1, <2>1, <2>2, <2>3, <2>4
<1>8. TypeOK'
  <2>1. faults' \in 0..MaxFaults /\ misled' \in SUBSET Sagas
    BY <1>0, <1>2, FaultsTyped
  <2>2. cancels' \in SUBSET Sagas
    <3>1. cancels \in SUBSET Sagas
      BY <1>0 DEF TypeOK
    <3> HIDE DEF Sagas, s
    <3> QED
      BY <1>0, <1>7, <3>1
  <2>3. /\ pc' \in [Goroutines -> RequestSteps \cup ConsumerSteps \cup ReaperSteps]
        /\ \A t \in Sagas : pc'[t] \in RequestSteps
        /\ pc'[Consumer] \in ConsumerSteps /\ pc'[Reaper] \in ReaperSteps
    BY <1>0, <1>3, <1>4, PcTyped
  <2> QED
    BY <1>0, <1>2, <1>6, <2>1, <2>2, <2>3 DEF TypeOK, callerVars, workVars, queueVars, faultVars
<1>9. \A h \in Goroutines : Target(h)' = Target(h)
  BY <1>2 DEF Target, workVars
<1>10. ASSUME NEW t \in Sagas
       PROVE  RowMoves(t) /\ CancelMoves(t) /\ QueueMoves(t) /\ RequestMoves(t)
  <2>1. t # g => pc'[t] = pc[t]
    BY <1>5
  <2>2. RowMoves(t)
    BY <1>6 DEF RowMoves
  <2>3. CancelMoves(t)
    BY <1>7 DEF CancelMoves
  <2>4. QueueMoves(t)
    BY <1>2 DEF QueueMoves, queueVars
  <2>5. RequestMoves(t)
    BY <1>2, <1>3, <1>4, <1>5, <2>1 DEF RequestMoves, callerVars
  <2> QED
    BY <2>2, <2>3, <2>4, <2>5
<1>11. ASSUME NEW h \in Goroutines PROVE CompensateMoves(h)
  <2>1. CASE h = g
    BY Zenon, <1>7, <1>9, <2>1, <1>5 DEF CompensateMoves, CompensatePast
  <2>2. CASE h # g
    BY <1>5, <1>9, <2>2 DEF CompensateMoves
  <2> QED
    BY <2>1, <2>2
<1>12. ConsumerMoves
  <2>1. CASE g = Consumer
    BY <1>2, <1>3, <1>4, <1>5, <2>1 DEF ConsumerMoves, workVars, queueVars
  <2>2. CASE g # Consumer
    <3>1. pc'[Consumer] = pc[Consumer]
      BY Zenon, <1>5, <2>2
    <3> QED
      BY <1>2, <3>1 DEF ConsumerMoves, workVars, queueVars
  <2> QED
    BY <2>1, <2>2
<1> QED
  BY <1>8, <1>10, <1>11, <1>12 DEF Moves

\* Every step of the reply consumer outside compensate keeps to Moves.
LEMMA ConsumerKeeps ==
  ASSUME IInv, ConsumeReply
  PROVE  TypeOK' /\ Moves
<1>0. TypeOK /\ ConsumerAgrees /\ delivery \in Replies /\ delivery.saga \in Sagas
      /\ Consumer \in Goroutines /\ Consumer \notin Sagas
  BY DEF IInv, TypeOK
<1>1. ASSUME NEW to \in ConsumerSteps \ {"cancel", "mark"}, NEW from, Goto(Consumer, from, to),
             UNCHANGED <<published, commands, cancels, batch, reaping, expired, result>>,
             faults' \in 0..MaxFaults, misled' \in SUBSET Sagas, delivery' \in Replies,
             sagaState' \in [Sagas -> States], waiters' \in [Sagas -> Waiters],
             replies' \in [Replies -> 0..MaxCopies],
             \A r \in Replies : replies'[r] > 0 => replies[r] > 0,
             \A t \in Sagas : RowMoves(t),
             \A t \in Sagas : waiters'[t] = "completed" =>
               \/ waiters[t] = "completed"
               \/ from = "signal" /\ delivery.saga = t /\ delivery.type = "sent",
             to = "claim" => delivery'.type = "failed",
             to = "complete" => delivery'.type = "sent",
             to = "signal" => sagaState'[delivery'.saga] = "completed",
             to # "idle" => replies'[delivery'] > 0,
             to # "get"
      PROVE  TypeOK' /\ Moves
  <2>1. /\ pc[Consumer] = from /\ pc'[Consumer] = to
        /\ \A h \in Goroutines : h # Consumer => pc'[h] = pc[h]
    BY Zenon, <1>0, <1>1, PcMoves
  <2>2. TypeOK'
    <3>1. /\ pc' \in [Goroutines -> RequestSteps \cup ConsumerSteps \cup ReaperSteps]
          /\ \A t \in Sagas : pc'[t] \in RequestSteps
          /\ pc'[Consumer] \in ConsumerSteps /\ pc'[Reaper] \in ReaperSteps
      BY Zenon, <1>0, <1>1, PcTyped
    <3> QED
      BY <1>0, <1>1, <3>1 DEF TypeOK
  <2>3. ASSUME NEW t \in Sagas
        PROVE  RowMoves(t) /\ CancelMoves(t) /\ QueueMoves(t) /\ RequestMoves(t)
    <3>1. pc'[t] = pc[t]
      BY <1>0, <2>1
    <3>2. RequestMoves(t)
      BY <1>1, <2>1, <3>1 DEF RequestMoves
    <3> QED
      BY <1>1, <3>1, <3>2 DEF CancelMoves, QueueMoves
  <2>4. ASSUME NEW g \in Goroutines PROVE CompensateMoves(g)
    <3>1. CASE g = Consumer
      BY <1>1, <2>1, <3>1 DEF CompensateMoves
    <3>2. CASE g # Consumer
      <4>1. pc'[g] = pc[g] /\ Target(g)' = Target(g)
        BY <1>1, <2>1, <3>2 DEF Target
      <4> QED
        BY <4>1 DEF CompensateMoves
    <3> QED
      BY <3>1, <3>2
  <2>5. ConsumerMoves
    BY <1>1, <2>1 DEF ConsumerMoves
  <2> QED
    BY <2>2, <2>3, <2>4, <2>5 DEF Moves
<1>2. /\ sagaState \in [Sagas -> States] /\ waiters \in [Sagas -> Waiters]
      /\ replies \in [Replies -> 0..MaxCopies] /\ faults \in 0..MaxFaults
      /\ misled \in SUBSET Sagas /\ NoDelivery \in Replies
  BY <1>0 DEF TypeOK
<1>3. ASSUME NEW r \in Replies, HandleReply(r) PROVE TypeOK' /\ Moves
  <2> DEFINE to == IF r.type = "sent" THEN "complete" ELSE "claim"
  <2>1. Goto(Consumer, "idle", to) /\ delivery' = r /\ replies[r] > 0
    BY <1>3 DEF HandleReply
  <2>2. UNCHANGED <<sagaState, callerVars, batch, reaping, queueVars, expired, cancels, faultVars>>
    BY <1>3 DEF HandleReply
  <2>3. r.type \in {"sent", "failed"}
    OBVIOUS
  <2>4. \A t \in Sagas : RowMoves(t)
    BY <2>2 DEF RowMoves
  <2> QED
    BY <1>1, <1>2, <2>1, <2>2, <2>3, <2>4 DEF callerVars, queueVars, faultVars
<1>4. ASSUME NEW out \in Outcomes, CompleteIfAwaiting(out) PROVE TypeOK' /\ Moves
  <2> DEFINE s == delivery.saga
             to == IF out # "ok" THEN "requeue"
                   ELSE IF sagaState[s] = "awaiting" THEN "signal" ELSE "ack"
  <2>1. /\ Goto(Consumer, "complete", to) /\ pc[Consumer] = "complete"
        /\ Transition(s, "awaiting", "completed", out)
    BY <1>4 DEF CompleteIfAwaiting, Goto
  <2>2. UNCHANGED <<callerVars, workVars, queueVars, expired, cancels>>
    BY <1>4 DEF CompleteIfAwaiting
  <2>3. /\ sagaState' \in [Sagas -> States] /\ (to = "signal" => sagaState'[s] = "completed")
        /\ \A t \in Sagas : RowMoves(t)
    BY <1>0, <1>2, <2>1 DEF Transition, TookEffect, RowMoves
  <2>4. faults' \in 0..MaxFaults /\ misled' \in SUBSET Sagas
    BY <1>0, <1>4, HidingTyped DEF CompleteIfAwaiting
  <2>5. replies[delivery] > 0
    BY <1>0, <2>1 DEF ConsumerAgrees
  <2>6. to \in {"requeue", "signal", "ack"}
    OBVIOUS
  <2> HIDE DEF to
  <2> QED
    BY Zenon, <1>0, <1>1, <1>2, <2>1, <2>2, <2>3, <2>4, <2>5, <2>6 DEF callerVars, workVars, queueVars, faultVars
<1>5. ASSUME NEW out \in Outcomes, Ack(out) PROVE TypeOK' /\ Moves
  <2>1. Goto(Consumer, "ack", "idle") /\ delivery' = NoDelivery
    BY <1>5 DEF Ack
  <2>2. UNCHANGED <<sagaState, callerVars, batch, reaping, published, commands, expired, cancels>>
    BY <1>5 DEF Ack
  <2>3. faults' \in 0..MaxFaults /\ misled' \in SUBSET Sagas
    BY <1>0, <1>5, FaultsTyped DEF Ack
  <2>4. /\ replies' \in [Replies -> 0..MaxCopies]
        /\ \A r \in Replies : replies'[r] <= replies[r]
    BY <1>5, AckedCopies
  <2>5. \A r \in Replies : replies'[r] > 0 => replies[r] > 0
    <3> HIDE DEF Replies
    <3> QED
      BY <1>2, <2>4
  <2>6. \A t \in Sagas : RowMoves(t)
    BY <2>2 DEF RowMoves
  <2> QED
    BY <1>1, <1>2, <2>1, <2>2, <2>3, <2>4, <2>5, <2>6 DEF callerVars, faultVars
<1>6. CASE SignalWaiter
  <2>1. Goto(Consumer, "signal", "ack") /\ pc[Consumer] = "signal"
    BY <1>6 DEF SignalWaiter, Goto
  <2>2. UNCHANGED <<sagaState, result, workVars, queueVars, expired, cancels, faultVars>>
    BY <1>6 DEF SignalWaiter
  <2>3. /\ waiters' \in [Sagas -> Waiters]
        /\ \A t \in Sagas : waiters'[t] = "completed" =>
             waiters[t] = "completed" \/ (delivery.saga = t /\ delivery.type = "sent")
    BY <1>0, <1>2, <1>6 DEF SignalWaiter
  <2>4. replies[delivery] > 0
    BY <1>0, <2>1 DEF ConsumerAgrees
  <2>5. \A t \in Sagas : RowMoves(t)
    BY <2>2 DEF RowMoves
  <2> QED
    BY <1>0, <1>1, <1>2, <2>1, <2>2, <2>3, <2>4, <2>5 DEF workVars, queueVars, faultVars
<1>7. CASE Requeue
  <2>1. Goto(Consumer, "requeue", "idle") /\ delivery' = NoDelivery
    BY <1>7 DEF Requeue
  <2>2. UNCHANGED <<sagaState, callerVars, batch, reaping, queueVars, expired, cancels, faultVars>>
    BY <1>7 DEF Requeue
  <2>3. \A t \in Sagas : RowMoves(t)
    BY <2>2 DEF RowMoves
  <2> QED
    BY <1>1, <1>2, <2>1, <2>2, <2>3 DEF callerVars, queueVars, faultVars
<1> QED
  BY <1>3, <1>4, <1>5, <1>6, <1>7 DEF ConsumeReply

\* Every step of the reaper outside compensate keeps to Moves.
LEMMA ReaperKeeps ==
  ASSUME IInv, RunReaper
  PROVE  TypeOK' /\ Moves
<1>0. TypeOK /\ Reaper \in Goroutines /\ Reaper \notin Sagas /\ Reaper # Consumer
  BY DEF IInv
<1>1. PICK from \in {"idle", "reap"}, to \in {"idle", "reap", "claim"} : Goto(Reaper, from, to)
  BY DEF RunReaper, Reap, ReapNext, ReapDone
<1>2. UNCHANGED <<sagaState, callerVars, delivery, queueVars, expired, cancels>>
  BY DEF RunReaper, Reap, ReapNext, ReapDone
<1>3. batch' \in SUBSET Sagas /\ reaping' \in Sagas /\ faults' \in 0..MaxFaults /\ misled' \in SUBSET Sagas
  <2>1. ASSUME NEW out \in Outcomes, Reap(out) PROVE <1>3!:
    BY <1>0, <2>1, FaultsTyped DEF Reap, TimedOut, TypeOK
  <2>2. CASE ReapNext
    BY <1>0, <2>2 DEF ReapNext, TypeOK, faultVars
  <2>3. CASE ReapDone
    BY <1>0, <2>3 DEF ReapDone, TypeOK, faultVars
  <2> QED
    BY <2>1, <2>2, <2>3 DEF RunReaper
<1>4. /\ pc[Reaper] = from /\ pc'[Reaper] = to
      /\ \A h \in Goroutines : h # Reaper => pc'[h] = pc[h]
  BY Zenon, <1>0, <1>1, PcMoves
<1>5. TypeOK'
  <2>1. /\ pc' \in [Goroutines -> RequestSteps \cup ConsumerSteps \cup ReaperSteps]
        /\ \A t \in Sagas : pc'[t] \in RequestSteps
        /\ pc'[Consumer] \in ConsumerSteps /\ pc'[Reaper] \in ReaperSteps
    BY Zenon, <1>0, <1>1, PcTyped
  <2> QED
    BY <1>0, <1>2, <1>3, <2>1 DEF TypeOK, callerVars, queueVars, faultVars
<1>6. ASSUME NEW t \in Sagas
      PROVE  RowMoves(t) /\ CancelMoves(t) /\ QueueMoves(t) /\ RequestMoves(t)
  <2>1. pc'[t] = pc[t]
    BY <1>0, <1>4
  <2> QED
    BY <1>2, <2>1 DEF RowMoves, CancelMoves, QueueMoves, RequestMoves, callerVars, queueVars
<1>7. ASSUME NEW g \in Goroutines PROVE CompensateMoves(g)
  <2>1. CASE g = Reaper
    BY <1>1, <1>4, <2>1 DEF CompensateMoves
  <2>2. CASE g # Reaper
    <3>1. pc'[g] = pc[g] /\ Target(g)' = Target(g)
      BY <1>2, <1>4, <2>2 DEF Target
    <3> QED
      BY <3>1 DEF CompensateMoves
  <2> QED
    BY <2>1, <2>2
<1>8. ConsumerMoves
  <2>1. pc'[Consumer] = pc[Consumer]
    BY Zenon, <1>0, <1>4
  <2> QED
    BY <1>2, <2>1 DEF ConsumerMoves, queueVars
<1> QED
  BY <1>5, <1>6, <1>7, <1>8 DEF Moves

\* The participant, the clock and a crash keep to Moves.
LEMMA EnvironmentKeeps ==
  ASSUME IInv, Notifier \/ Expire \/ Crash
  PROVE  TypeOK' /\ Moves
<1>0. TypeOK
  BY DEF IInv
<1>1. ASSUME NEW s \in Sagas, NEW type \in {"sent", "failed"}, NEW acked \in BOOLEAN,
             Participant(s, type, acked)
      PROVE  TypeOK' /\ Moves
  <2>1. /\ replies' \in [Replies -> 0..MaxCopies]
        /\ \A q \in Replies : q.saga # s => replies'[q] = replies[q]
        /\ \A q \in Replies : replies'[q] >= replies[q]
    BY <1>1, RepliedCopies
  <2>2. /\ UNCHANGED <<sagaState, callerVars, pc, workVars, published, expired, cancels, faultVars>>
        /\ s \in commands /\ (commands' = commands \/ commands' = commands \ {s})
    BY <1>1 DEF Participant
  <2>3. TypeOK'
    BY Zenon, <1>0, <2>1, <2>2 DEF TypeOK, callerVars, workVars, faultVars
  <2>4. delivery \in Replies /\ (replies[delivery] > 0 => replies'[delivery] > 0)
    <3>1. delivery \in Replies /\ replies \in [Replies -> 0..MaxCopies]
      BY <1>0 DEF TypeOK
    <3> HIDE DEF Replies
    <3> QED
      BY <2>1, <3>1
  <2>5. ASSUME NEW t \in Sagas
        PROVE  RowMoves(t) /\ CancelMoves(t) /\ QueueMoves(t) /\ RequestMoves(t)
    <3>1. \A r \in Replies : r.saga = t /\ replies'[r] > 0 => replies[r] > 0 \/ t \in commands
      <4> HIDE DEF Replies
      <4> QED
        BY Zenon, <2>1, <2>2
    <3>2. QueueMoves(t)
      BY <2>2, <3>1 DEF QueueMoves
    <3> QED
      BY <2>2, <3>2 DEF RowMoves, CancelMoves, RequestMoves, callerVars
  <2>6. ASSUME NEW g \in Goroutines PROVE CompensateMoves(g)
    BY <2>2 DEF CompensateMoves, Target, workVars
  <2>7. ConsumerMoves
    BY <2>2, <2>4 DEF ConsumerMoves, workVars
  <2> QED
    BY <2>3, <2>5, <2>6, <2>7 DEF Moves
<1>2. CASE Expire
  <2>1. UNCHANGED <<sagaState, callerVars, pc, workVars, queueVars, cancels, faultVars>>
    BY <1>2 DEF Expire
  <2>2. expired' \in 0..N
    BY <1>0, <1>2 DEF Expire, TypeOK
  <2>3. TypeOK'
    BY <1>0, <2>1, <2>2 DEF TypeOK, callerVars, workVars, queueVars, faultVars
  <2>4. Moves
    BY <2>1 DEF Moves, RowMoves, CancelMoves, QueueMoves, RequestMoves, CompensateMoves,
                ConsumerMoves, Target, callerVars, workVars, queueVars, faultVars
  <2> QED
    BY <2>3, <2>4
<1>3. CASE Crash
  <2>1. /\ pc' \in [Goroutines -> RequestSteps \cup ConsumerSteps \cup ReaperSteps]
        /\ pc'[Consumer] = "idle" /\ pc'[Reaper] = "idle"
        /\ \A s \in Sagas : pc'[s] \in {pc[s], "done"}
        /\ \A s \in Sagas : pc[s] = "done" => pc'[s] = "done"
    BY <1>0, <1>3, CrashedPc
  <2>2. /\ UNCHANGED <<sagaState, queueVars, expired, cancels>>
        /\ delivery' = NoDelivery /\ batch' = {} /\ reaping' = 1
    BY <1>3 DEF Crash
  <2>3. faults' \in 0..MaxFaults /\ misled' \in SUBSET Sagas
    BY <1>0, <1>3 DEF TypeOK, Crash
  <2>4. /\ waiters' = [s \in Sagas |-> "none"]
        /\ result' \in [Sagas -> Results]
        /\ \A s \in Sagas : pc[s] \in {"init", "done"} => result'[s] = result[s]
        /\ \A s \in Sagas : result'[s] = result[s] \/ result'[s] = "crashed"
        /\ \A s \in Sagas : pc[s] \notin {"init", "done"} => pc'[s] = "done"
    BY <1>0, <1>3 DEF TypeOK, Crash
  <2>5. TypeOK'
    BY <1>0, <2>1, <2>2, <2>3, <2>4 DEF TypeOK, queueVars, faultVars
  <2>6. ASSUME NEW t \in Sagas
        PROVE  RowMoves(t) /\ CancelMoves(t) /\ QueueMoves(t) /\ RequestMoves(t)
    <3>1. RequestMoves(t)
      BY <2>1, <2>4 DEF RequestMoves
    <3> QED
      BY <2>2, <3>1 DEF RowMoves, CancelMoves, QueueMoves, queueVars
  <2>7. ASSUME NEW g \in Goroutines PROVE CompensateMoves(g)
    <3>1. CASE g \in Sagas
      <4>1. pc'[g] \notin {"init", "done"} => FALSE
        BY <1>0, <2>1, <2>4, <3>1
      <4> QED
        BY <4>1 DEF CompensateMoves
    <3>2. CASE g \in {Consumer, Reaper}
      BY <2>1, <3>2 DEF CompensateMoves
    <3> QED
      BY <3>1, <3>2
  <2>8. ConsumerMoves
    BY <2>1 DEF ConsumerMoves
  <2> QED
    BY <2>5, <2>6, <2>7, <2>8 DEF Moves
<1> QED
  BY <1>1, <1>2, <1>3 DEF Notifier

\* The inductive invariant is preserved by every step.
LEMMA NextKeeps == IInv /\ [Next]_vars => IInv'
<1> SUFFICES ASSUME IInv, [Next]_vars PROVE IInv'
  OBVIOUS
<1>1. CASE Next
  <2>1. TypeOK' /\ Moves
    BY <1>1, RequestKeeps, CompensateKeeps, ConsumerKeeps, ReaperKeeps, EnvironmentKeeps DEF Next
  <2> QED
    BY <2>1, MovesKeep
<1>2. CASE UNCHANGED vars
  <2> USE <1>2 DEF vars, callerVars, workVars, queueVars, faultVars, IInv
  <2>1. TypeOK'
    BY DEF TypeOK
  <2>2. ASSUME NEW s \in Sagas
        PROVE  (QuietRequest(s) /\ CancelJustified(s) /\ FailedWasCancelled(s))'
    BY DEF QuietRequest, CancelJustified, FailedWasCancelled
  <2>3. ASSUME NEW s \in Sagas PROVE (AnswerAgrees(s) /\ Persisted(s) /\ PublishedFirst(s))'
    BY DEF AnswerAgrees, Persisted, PublishedFirst
  <2>4. (\A g \in Goroutines : CompensatePast(g)') /\ ConsumerAgrees'
    BY DEF CompensatePast, ConsumerAgrees, Target
  <2> QED
    BY <2>1, <2>2, <2>3, <2>4
<1> QED
  BY <1>1, <1>2

\* The inductive invariant holds in every reachable state.
THEOREM Inductive == Spec => []IInv
  BY InitInv, NextKeeps, PTL DEF Spec

\* The variables keep their types; in particular no ack drives the number of
\* queued copies of a reply below zero.
THEOREM TypeCorrect == Spec => []TypeOK
<1>1. IInv => TypeOK
  BY DEF IInv
<1> QED
  BY <1>1, Inductive, PTL

\* StartAndWait's nil is final: the saga is completed and stays so, and its
\* subscription is never cancelled on its behalf.
THEOREM OkIsFinalAlways == Spec => []OkIsFinal
<1>1. IInv => OkIsFinal
  BY DEF IInv, OkIsFinal, AnswerAgrees, CancelJustified, PublishedFirst
<1> QED
  BY <1>1, Inductive, PTL

\* HandleReply never meets a reply about a saga that is not in the table.
THEOREM ReplyHasSagaAlways == Spec => []ReplyHasSaga
<1>1. IInv => ReplyHasSaga
  BY DEF IInv, ReplyHasSaga, Persisted, PublishedFirst
<1> QED
  BY <1>1, Inductive, PTL

-----------------------------------------------------------------------------
(* Unless an error hid a success, nothing is signalled or answered that did *)
(* not happen.                                                              *)

\* A step of one request disturbs nothing about the others and the consumer.
LEMMA OneRequestHonestly ==
  ASSUME TypeOK, HonestInv, NEW s \in Sagas, NEW from, NEW to, Goto(s, from, to),
         UNCHANGED delivery,
         \A t \in Sagas \ {s} : /\ UNCHANGED <<sagaState[t], waiters[t], result[t]>>
                                /\ t \in published' => t \in published,
         misled \subseteq misled',
         sagaState'[s] = sagaState[s] \/ sagaState[s] = "none",
         RequestHonest(s)', OutcomeHonest(s)'
  PROVE  HonestInv'
<1>1. /\ pc'[Consumer] = pc[Consumer] /\ \A t \in Sagas \ {s} : pc'[t] = pc[t]
      /\ delivery.saga \in Sagas
  <2>1. s \in Goroutines /\ s # Consumer /\ \A t \in Sagas : t \in Goroutines
    OBVIOUS
  <2>2. \A h \in Goroutines : h # s => pc'[h] = pc[h]
    BY Zenon, <2>1, PcMoves
  <2> QED
    BY Zenon, <2>1, <2>2 DEF TypeOK
<1>2. ConsumerHonest'
  BY <1>1 DEF HonestInv, ConsumerHonest
<1>3. ASSUME NEW t \in Sagas \ {s} PROVE RequestHonest(t)' /\ OutcomeHonest(t)'
  <2>1. RequestHonest(t) /\ OutcomeHonest(t)
    BY DEF HonestInv
  <2> QED
    BY <1>1, <2>1 DEF RequestHonest, OutcomeHonest
<1> QED
  BY <1>2, <1>3 DEF HonestInv

\* A request's step keeps its channel while it waits, and compensates only what it
\* did not publish.
LEMMA RequestHonestly ==
  ASSUME IInv, HonestInv,
         NEW s \in Sagas, Start(s) \/ Serve(s) \/ Disconnect(s)
  PROVE  HonestInv'
<1>0. /\ TypeOK /\ QuietRequest(s) /\ PublishedFirst(s) /\ RequestHonest(s) /\ OutcomeHonest(s)
      /\ s \in Goroutines
      /\ sagaState \in [Sagas -> States] /\ waiters \in [Sagas -> Waiters]
      /\ result \in [Sagas -> Results]
  BY DEF IInv, HonestInv, TypeOK
<1>a. ASSUME NEW from, NEW to, Goto(s, from, to)
      PROVE  pc[s] = from /\ pc'[s] = to /\ pc'[Consumer] = pc[Consumer]
  BY Zenon, <1>0, <1>a, PcMoves
<1>1. CASE Start(s)
  <2>1. Goto(s, "init", "create") /\ UNCHANGED <<sagaState, waiters, result, delivery, published, misled>>
    BY <1>1 DEF Start, callerVars, workVars, queueVars, faultVars
  <2>2. RequestHonest(s)' /\ OutcomeHonest(s)'
    BY <1>0, <1>a, <2>1 DEF RequestHonest, OutcomeHonest
  <2> QED
    BY <1>0, <2>1, <2>2, OneRequestHonestly
<1>2. ASSUME NEW out \in Outcomes, Create(s, out) PROVE HonestInv'
  <2> DEFINE to == IF out = "ok" THEN "publish" ELSE "rollback"
  <2>1. Goto(s, "create", to) /\ UNCHANGED <<result, delivery, published, misled>>
    BY <1>2 DEF Create, Call, workVars, queueVars
  <2>2. /\ sagaState'[s] = sagaState[s] \/ (sagaState[s] = "none" /\ sagaState'[s] = "awaiting")
        /\ \A t \in Sagas \ {s} : sagaState'[t] = sagaState[t]
    BY <1>0, <1>2 DEF Create, Transition
  <2>3. /\ waiters'[s] = IF out = "ok" THEN "empty" ELSE waiters[s]
        /\ \A t \in Sagas \ {s} : waiters'[t] = waiters[t]
    BY <1>0, <1>2 DEF Create
  <2>4. pc[s] = "create" /\ pc'[s] = to /\ pc'[Consumer] = pc[Consumer]
    BY <1>a, <2>1
  <2>5. s \notin published /\ sagaState[s] # "completed"
    BY Zenon, <1>0, <2>4 DEF QuietRequest, PublishedFirst
  <2>6. RequestHonest(s)' /\ OutcomeHonest(s)'
    BY <1>0, <2>1, <2>2, <2>3, <2>4, <2>5 DEF RequestHonest, OutcomeHonest
  <2> HIDE DEF to
  <2> QED
    BY <1>0, <2>1, <2>2, <2>3, <2>6, OneRequestHonestly
<1>3. ASSUME NEW out \in Outcomes, CancelQuietly(s, out) PROVE HonestInv'
  <2>1. /\ Goto(s, "rollback", "returnError")
        /\ UNCHANGED <<sagaState, waiters, result, delivery, published, misled>>
    BY <1>3 DEF CancelQuietly, Call, callerVars, workVars, queueVars
  <2>2. RequestHonest(s)' /\ OutcomeHonest(s)'
    BY <1>0, <1>a, <2>1 DEF RequestHonest, OutcomeHonest
  <2> QED
    BY <1>0, <2>1, <2>2, OneRequestHonestly
<1>4. ASSUME NEW out \in Outcomes, Publish(s, out) PROVE HonestInv'
  <2> DEFINE to == IF out = "ok" THEN "confirm" ELSE "claim"
  <2>1. /\ Goto(s, "publish", to)
        /\ published' = IF out = "ok" THEN published \cup {s} ELSE published
        /\ UNCHANGED <<sagaState, waiters, result, delivery, misled>>
    BY <1>4 DEF Publish, Call, callerVars, workVars
  <2>2. pc[s] = "publish" /\ pc'[s] = to /\ pc'[Consumer] = pc[Consumer]
    BY <1>a, <2>1
  <2>3. s \notin published /\ result[s] = "none"
    BY <1>0, <2>2 DEF RequestHonest, IInv, AnswerAgrees
  <2>4. RequestHonest(s)' /\ OutcomeHonest(s)'
    BY <1>0, <2>1, <2>2, <2>3 DEF RequestHonest, OutcomeHonest
  <2> HIDE DEF to
  <2> QED
    BY <1>0, <2>1, <2>4, OneRequestHonestly
<1>5. ASSUME NEW out \in Outcomes, PublishConfirm(s, out) PROVE HonestInv'
  <2> DEFINE to == IF out = "ok" THEN "wait" ELSE "claim"
  <2>1. /\ Goto(s, "confirm", to)
        /\ UNCHANGED <<sagaState, waiters, result, delivery, published>>
    BY <1>5 DEF PublishConfirm, callerVars, workVars, queueVars
  <2>2. pc[s] = "confirm" /\ pc'[s] = to /\ pc'[Consumer] = pc[Consumer]
    BY <1>a, <2>1
  <2>3. misled' = IF out = "late" THEN misled \cup {s} ELSE misled
    BY <1>5 DEF PublishConfirm, HidingCall
  <2>4. out \in {"ok", "late"}
    BY <1>5 DEF PublishConfirm, CallOutcomes
  <2>5. RequestHonest(s)' /\ OutcomeHonest(s)'
    BY <1>0, <2>1, <2>2, <2>3, <2>4 DEF RequestHonest, OutcomeHonest
  <2> HIDE DEF to
  <2> QED
    BY <1>0, <2>1, <2>3, <2>5, OneRequestHonestly
<1>6. ASSUME NEW from, NEW a, Return(s, from, a),
             a = "failed" => sagaState[s] = "failed" \/ s \notin published \/ s \in misled
      PROVE  HonestInv'
  <2>1. /\ Goto(s, from, "done") /\ UNCHANGED <<sagaState, delivery, published, misled>>
        /\ waiters' = [waiters EXCEPT ![s] = "none"] /\ result' = [result EXCEPT ![s] = a]
    BY <1>6 DEF Return, workVars, queueVars, faultVars
  <2>2. /\ waiters'[s] = "none" /\ result'[s] = a
        /\ \A t \in Sagas \ {s} : waiters'[t] = waiters[t] /\ result'[t] = result[t]
    BY <1>0, <2>1
  <2>3. pc'[s] = "done"
    BY Zenon, <1>a, <2>1
  <2>4. RequestHonest(s)'
    BY <2>3 DEF RequestHonest
  <2>5. OutcomeHonest(s)'
    BY <1>6, <2>1, <2>2 DEF OutcomeHonest
  <2> QED
    BY <1>0, <2>1, <2>2, <2>4, <2>5, OneRequestHonestly
<1>7. CASE ReceiveOutcome(s)
  <2>1. waiters[s] = "failed" => sagaState[s] = "failed" \/ s \in misled
    BY <1>0 DEF OutcomeHonest
  <2> QED
    BY <1>6, <1>7, <2>1 DEF ReceiveOutcome
<1>8. CASE TimeOut(s) \/ Disconnect(s) \/ ReturnError(s)
  <2>1. \/ Return(s, "wait", "timeout") \/ Return(s, "wait", "canceled")
        \/ Return(s, "returnError", "error") \/ Return(s, "returnFailed", "failed")
    BY <1>8 DEF TimeOut, Disconnect, ReturnError
  <2>2. Return(s, "returnFailed", "failed") => s \notin published \/ s \in misled
    BY <1>0 DEF Return, Goto, RequestHonest
  <2> QED
    BY <1>6, <2>1, <2>2
<1> QED
  BY <1>1, <1>2, <1>3, <1>4, <1>5, <1>7, <1>8 DEF Serve

\* compensate returns to the consumer without an error only when the saga is final.
LEMMA CompensateHonestly ==
  ASSUME IInv, HonestInv, NEW g \in Goroutines, Compensate(g)
  PROVE  HonestInv'
<1> DEFINE s == Target(g)
<1>0. /\ TypeOK /\ ConsumerAgrees /\ CompensatePast(g) /\ ConsumerHonest
      /\ s \in Sagas /\ (g = Consumer => s = delivery.saga) /\ (g \in Sagas => s = g)
  BY DEF IInv, HonestInv, TypeOK, Target
<1>1. /\ pc[g] \in CompensateSteps
      /\ g \in Sagas => pc'[g] \in {"get", "cancel", "mark", "returnFailed"}
      /\ \A h \in Goroutines : h # g => pc'[h] = pc[h]
      /\ UNCHANGED <<waiters, result, delivery, published, misled>>
  <2>1. PICK out \in Outcomes :
          ClaimCompensation(g, out) \/ Get(g, out) \/ Cancel(g, out) \/ MarkCompensated(g, out)
    BY DEF Compensate
  <2>2. PICK to : Goto(g, pc[g], to) /\ (g \in Sagas => to \in {"get", "cancel", "mark", "returnFailed"})
    BY <2>1, CompensateEffect
  <2>3. UNCHANGED <<callerVars, workVars, queueVars, misled>> /\ pc[g] \in CompensateSteps
    BY <2>1, CompensateEffect DEF Call
  <2>4. pc'[g] = to /\ \A h \in Goroutines : h # g => pc'[h] = pc[h]
    BY <1>0, <2>2, PcMoves
  <2> QED
    BY <2>2, <2>3, <2>4 DEF callerVars, workVars, queueVars, faultVars
<1>2. /\ \A t \in Sagas : t # s => sagaState'[t] = sagaState[t]
      /\ \/ sagaState'[s] = sagaState[s]
         \/ sagaState[s] = "awaiting" /\ sagaState'[s] = "compensating"
         \/ sagaState[s] = "compensating" /\ sagaState'[s] = "failed"
  BY CompensateEffect DEF Compensate
<1>3. ASSUME NEW t \in Sagas PROVE RequestHonest(t)'
  <2>1. RequestHonest(t)
    BY DEF HonestInv
  <2>2. CASE t = g
    BY <1>1, <2>1, <2>2 DEF RequestHonest, AfterCompensate
  <2>3. CASE t # g
    BY <1>1, <2>1, <2>3 DEF RequestHonest
  <2> QED
    BY <2>2, <2>3
<1>4. ASSUME NEW t \in Sagas PROVE OutcomeHonest(t)'
  <2>1. OutcomeHonest(t)
    BY DEF HonestInv
  <2>2. pc[Consumer] = "signal" => pc'[Consumer] = "signal"
    BY Zenon, <1>0, <1>1
  <2>3. /\ sagaState'[t] = "completed" => sagaState[t] = "completed"
        /\ sagaState[t] = "failed" => sagaState'[t] = "failed"
    BY <1>2
  <2> QED
    BY <1>1, <2>1, <2>2, <2>3 DEF OutcomeHonest
<1>5. CASE g # Consumer
  <2>1. pc'[Consumer] = pc[Consumer]
    BY Zenon, <1>1, <1>5
  <2>2. /\ sagaState[delivery.saga] \notin {"none", "awaiting"} =>
             sagaState'[delivery.saga] \notin {"none", "awaiting"}
        /\ sagaState[delivery.saga] \in {"completed", "failed"} =>
             sagaState'[delivery.saga] \in {"completed", "failed"}
    BY <1>0, <1>2 DEF TypeOK
  <2>3. ConsumerHonest'
    BY <1>0, <1>1, <2>1, <2>2 DEF ConsumerHonest
  <2> QED
    BY <1>3, <1>4, <2>3 DEF HonestInv
<1>6. CASE g = Consumer
  <2>0. s = delivery.saga /\ sagaState[s] # "none"
    BY <1>0, <1>1, <1>6 DEF IInv, ConsumerAgrees, PublishedFirst, Persisted, TypeOK
  <2>1. ASSUME NEW out \in Outcomes, ClaimCompensation(g, out)
        PROVE  pc'[g] = "get" => sagaState'[s] \notin {"none", "awaiting"}
    BY <1>0, <1>6, <2>0, <2>1 DEF ClaimCompensation, Goto, Transition, AfterCompensate, TypeOK
  <2>2. ASSUME NEW out \in Outcomes, Get(g, out)
        PROVE  pc'[g] = "signal" => sagaState'[s] \in {"completed", "failed"}
    BY <1>0, <1>6, <2>0, <2>2 DEF Get, Goto, AfterCompensate, TypeOK, ConsumerHonest
  <2>3. ASSUME NEW out \in Outcomes, MarkCompensated(g, out)
        PROVE  pc'[g] = "signal" => sagaState'[s] = "failed"
    BY <1>0, <1>6, <2>0, <2>3 DEF MarkCompensated, Goto, Transition, TookEffect,
                                  AfterCompensate, TypeOK, CompensatePast
  <2>4. ASSUME NEW out \in Outcomes, ClaimCompensation(g, out) \/ Cancel(g, out)
        PROVE  pc'[g] # "signal"
    BY <1>0, <1>6, <2>4 DEF ClaimCompensation, Cancel, Goto, AfterCompensate, TypeOK
  <2>5. ASSUME NEW out \in Outcomes, Get(g, out) \/ Cancel(g, out) \/ MarkCompensated(g, out)
        PROVE  pc'[g] # "get"
    <3>1. PICK to \in {"cancel", "mark", AfterCompensate(g, TRUE), AfterCompensate(g, FALSE)} :
            Goto(g, pc[g], to)
      <4>1. CASE Get(g, out)
        BY <4>1 DEF Get, Goto, AfterCompensate
      <4>2. CASE Cancel(g, out)
        BY Zenon, <4>2 DEF Cancel, Goto
      <4>3. CASE MarkCompensated(g, out)
        BY <4>3 DEF MarkCompensated, Goto, AfterCompensate
      <4> QED
        BY Zenon, <2>5, <4>1, <4>2, <4>3
    <3>2. pc'[g] = to
      BY <1>0, <3>1, PcMoves
    <3> QED
      BY <1>6, <3>1, <3>2 DEF AfterCompensate
  <2>6. ConsumerHonest'
    <3>1. delivery' = delivery
      BY <1>1
    <3> HIDE DEF s
    <3> QED
      BY Zenon, <1>6, <2>0, <2>1, <2>2, <2>3, <2>4, <2>5, <3>1 DEF Compensate, ConsumerHonest
  <2> QED
    BY <1>3, <1>4, <2>6 DEF HonestInv
<1> QED
  BY <1>5, <1>6

\* The consumer completes a saga only when it also goes on to signal it.
LEMMA ConsumerHonestly ==
  ASSUME IInv, HonestInv, ConsumeReply
  PROVE  HonestInv'
<1>0. /\ TypeOK /\ ConsumerAgrees /\ ConsumerHonest /\ Consumer \in Goroutines /\ Consumer \notin Sagas
      /\ delivery \in Replies /\ delivery.saga \in Sagas
      /\ sagaState \in [Sagas -> States] /\ waiters \in [Sagas -> Waiters]
      /\ \A t \in Sagas : RequestHonest(t) /\ OutcomeHonest(t)
  BY DEF IInv, HonestInv, TypeOK
<1>a. ASSUME NEW from, NEW to, Goto(Consumer, from, to)
      PROVE  /\ pc[Consumer] = from /\ pc'[Consumer] = to
             /\ \A t \in Sagas : pc'[t] = pc[t]
  <2>1. pc[Consumer] = from /\ pc'[Consumer] = to
        /\ \A h \in Goroutines : h # Consumer => pc'[h] = pc[h]
    BY Zenon, <1>0, <1>a, PcMoves
  <2> QED
    BY <1>0, <2>1
<1>1. ASSUME NEW from \in ConsumerSteps \ {"signal"}, NEW to \in ConsumerSteps \ {"get", "signal"},
             Goto(Consumer, from, to),
             UNCHANGED <<sagaState, waiters, result, published, misled>>
      PROVE  HonestInv'
  <2>1. /\ pc[Consumer] = from /\ pc'[Consumer] = to
        /\ \A t \in Sagas : pc'[t] = pc[t]
    BY <1>1, <1>a
  <2>2. ConsumerHonest'
    BY <2>1 DEF ConsumerHonest
  <2>3. ASSUME NEW t \in Sagas PROVE RequestHonest(t)' /\ OutcomeHonest(t)'
    BY <1>0, <1>1, <2>1 DEF RequestHonest, OutcomeHonest
  <2> QED
    BY <2>2, <2>3 DEF HonestInv
<1>2. ASSUME NEW r \in Replies, HandleReply(r) PROVE HonestInv'
  BY <1>1, <1>2 DEF HandleReply, callerVars, queueVars, faultVars
<1>3. ASSUME NEW out \in Outcomes, CompleteIfAwaiting(out) PROVE HonestInv'
  <2> DEFINE s == delivery.saga
             to == IF out # "ok" THEN "requeue"
                   ELSE IF sagaState[s] = "awaiting" THEN "signal" ELSE "ack"
  <2>1. /\ Goto(Consumer, "complete", to) /\ UNCHANGED <<waiters, result, published, delivery>>
        /\ Transition(s, "awaiting", "completed", out)
    BY <1>3 DEF CompleteIfAwaiting, callerVars, workVars, queueVars, faultVars
  <2>2. /\ pc[Consumer] = "complete" /\ pc'[Consumer] = to
        /\ \A t \in Sagas : pc'[t] = pc[t]
    BY <1>a, <2>1
  <2>3. misled' = IF sagaState[s] = "awaiting" /\ out = "late" THEN misled \cup {s} ELSE misled
    BY <1>3 DEF CompleteIfAwaiting, HidingCall
  <2>4. \A t \in Sagas : \/ sagaState'[t] = sagaState[t]
                         \/ t = s /\ to = "signal" /\ sagaState[t] = "awaiting"
                         \/ t \in misled'
    <3>1. out \in {"ok", "lost", "late"}
      BY DEF CallOutcomes
    <3> QED
      BY <1>0, <2>1, <2>3, <3>1 DEF Transition, TookEffect
  <2>5. delivery.type = "sent" /\ delivery = [saga |-> s, type |-> "sent"]
    BY <1>0, <2>2 DEF ConsumerAgrees
  <2>6. ConsumerHonest'
    BY <2>1, <2>2, <2>5 DEF ConsumerHonest
  <2>7. ASSUME NEW t \in Sagas PROVE RequestHonest(t)' /\ OutcomeHonest(t)'
    <3>1. RequestHonest(t)'
      BY <1>0, <2>1, <2>2, <2>3 DEF RequestHonest
    <3>2. OutcomeHonest(t) /\ (pc[Consumer] # "signal") /\ (t \in misled => t \in misled')
      BY <1>0, <2>2, <2>3
    <3>3. OutcomeHonest(t)'
      <4> HIDE DEF to
      <4> QED
        BY <2>1, <2>2, <2>4, <2>5, <3>2 DEF OutcomeHonest
    <3> QED
      BY <3>1, <3>3
  <2> QED
    BY <2>6, <2>7 DEF HonestInv
<1>4. CASE SignalWaiter
  <2>1. /\ Goto(Consumer, "signal", "ack") /\ UNCHANGED <<sagaState, delivery, published, result, misled>>
    BY <1>4 DEF SignalWaiter, workVars, queueVars, faultVars
  <2>2. /\ pc[Consumer] = "signal" /\ pc'[Consumer] = "ack"
        /\ \A t \in Sagas : pc'[t] = pc[t]
    BY <1>a, <2>1
  <2>3. \A t \in Sagas : t # delivery.saga => waiters'[t] = waiters[t]
    BY <1>0, <1>4 DEF SignalWaiter
  <2>4. waiters'[delivery.saga] =
          IF waiters[delivery.saga] # "empty" THEN waiters[delivery.saga]
          ELSE IF delivery.type = "sent" THEN "completed" ELSE "failed"
    BY <1>0, <1>4 DEF SignalWaiter
  <2>5. \A t \in Sagas : delivery = [saga |-> t, type |-> "sent"] =>
          delivery.saga = t /\ delivery.type = "sent"
    OBVIOUS
  <2>6. ConsumerHonest'
    BY <2>2 DEF ConsumerHonest
  <2>7. ASSUME NEW t \in Sagas PROVE RequestHonest(t)' /\ OutcomeHonest(t)'
    <3>0. RequestHonest(t) /\ OutcomeHonest(t)
      BY <1>0
    <3>1. RequestHonest(t)'
      BY <2>1, <2>2, <2>3, <2>4, <3>0 DEF RequestHonest
    <3>2. CASE t = delivery.saga
      <4>1. delivery.type \in {"sent", "failed"}
        BY <1>0
      <4>2. delivery.type = "failed" => sagaState[t] \in {"completed", "failed"}
        BY <1>0, <2>2, <3>2 DEF ConsumerHonest
      <4>3. delivery.type = "failed" /\ waiters[t] = "empty" =>
              sagaState[t] # "completed" \/ t \in misled
        BY <2>5, <3>0, <3>2 DEF OutcomeHonest
      <4>4. OutcomeHonest(t)'
        BY <2>1, <2>2, <2>4, <3>0, <3>2, <4>1, <4>2, <4>3 DEF OutcomeHonest
      <4> QED
        BY <3>1, <4>4
    <3>3. CASE t # delivery.saga
      <4>1. OutcomeHonest(t)'
        BY <2>1, <2>2, <2>3, <2>5, <3>0, <3>3 DEF OutcomeHonest
      <4> QED
        BY <3>1, <4>1
    <3> QED
      BY <3>2, <3>3
  <2> QED
    BY <2>6, <2>7 DEF HonestInv
<1>5. ASSUME NEW out \in Outcomes, Ack(out) PROVE HonestInv'
  BY <1>1, <1>5 DEF Ack, Call, callerVars, faultVars
<1>6. CASE Requeue
  BY <1>1, <1>6 DEF Requeue, callerVars, queueVars, faultVars
<1> QED
  BY <1>2, <1>3, <1>4, <1>5, <1>6 DEF ConsumeReply

\* The reaper's listing, the notifier, the clock and a crash disturb none of it.
LEMMA OthersHonestly ==
  ASSUME IInv, HonestInv, RunReaper \/ Notifier \/ Expire \/ Crash
  PROVE  HonestInv'
<1>0. TypeOK /\ ConsumerHonest /\ \A s \in Sagas : RequestHonest(s) /\ OutcomeHonest(s)
  BY DEF IInv, HonestInv
<1>1. ASSUME UNCHANGED <<sagaState, waiters, result, delivery, published, misled>>,
             pc'[Consumer] = pc[Consumer], \A s \in Sagas : pc'[s] = pc[s]
      PROVE  HonestInv'
  BY <1>0, <1>1 DEF HonestInv, ConsumerHonest, RequestHonest, OutcomeHonest
<1>2. CASE RunReaper
  <2>1. PICK from, to : Goto(Reaper, from, to)
    BY Zenon, <1>2 DEF RunReaper, Reap, ReapNext, ReapDone
  <2>2. UNCHANGED <<sagaState, waiters, result, delivery, published, misled>>
    BY Zenon, <1>2 DEF RunReaper, Reap, ReapNext, ReapDone, Call, callerVars, queueVars, faultVars
  <2>3. Reaper \in Goroutines /\ Consumer \in Goroutines \ {Reaper}
        /\ Sagas \subseteq Goroutines \ {Reaper}
    OBVIOUS
  <2>4. \A g \in Goroutines : g # Reaper => pc'[g] = pc[g]
    BY Zenon, <1>0, <2>1, <2>3, PcMoves
  <2>5. pc'[Consumer] = pc[Consumer] /\ \A s \in Sagas : pc'[s] = pc[s]
    BY Zenon, <2>3, <2>4
  <2> QED
    BY <1>1, <2>2, <2>5
<1>3. CASE Notifier \/ Expire
  <2>1. UNCHANGED <<sagaState, callerVars, pc, workVars, published, misled>>
    BY Zenon, <1>3 DEF Notifier, Participant, Expire, queueVars, faultVars
  <2> QED
    BY Zenon, <1>1, <2>1 DEF callerVars, workVars, faultVars
<1>4. CASE Crash
  <2>1. pc'[Consumer] = "idle"
    BY <1>0, <1>4, CrashedPc
  <2>2. \A s \in Sagas : pc'[s] \in {"init", "done"}
    BY <1>0, <1>4 DEF Crash, TypeOK
  <2>3. /\ \A s \in Sagas : waiters'[s] = "none" /\ result'[s] \in {result[s], "crashed"}
        /\ UNCHANGED <<sagaState, published, misled>>
    BY <1>4 DEF Crash, queueVars, faultVars
  <2>4. ConsumerHonest'
    BY <2>1 DEF ConsumerHonest
  <2>5. ASSUME NEW s \in Sagas PROVE RequestHonest(s)' /\ OutcomeHonest(s)'
    BY <1>0, <2>2, <2>3 DEF RequestHonest, OutcomeHonest
  <2> QED
    BY <2>4, <2>5 DEF HonestInv
<1> QED
  BY <1>2, <1>3, <1>4

\* Every step keeps the invariant of honest errors.
LEMMA HonestKeeps == IInv /\ HonestInv /\ [Next]_vars => HonestInv'
<1> SUFFICES ASSUME IInv, HonestInv, [Next]_vars PROVE HonestInv'
  OBVIOUS
<1>1. CASE Next
  BY <1>1, RequestHonestly, CompensateHonestly, ConsumerHonestly, OthersHonestly DEF Next
<1>2. CASE UNCHANGED vars
  BY <1>2 DEF vars, callerVars, workVars, queueVars, faultVars, HonestInv, ConsumerHonest,
              RequestHonest, OutcomeHonest
<1> QED
  BY <1>1, <1>2

\* Both invariants hold in every reachable state.
THEOREM HonestInductive == Spec => [](IInv /\ HonestInv)
<1>1. Init => HonestInv
  BY DEF Init, HonestInv, ConsumerHonest, RequestHonest, OutcomeHonest
<1>2. IInv /\ HonestInv /\ [Next]_vars => HonestInv'
  BY HonestKeeps
<1> QED
  BY <1>1, <1>2, InitInv, NextKeeps, PTL DEF Spec

\* A request that waits on a completed saga finds the outcome in its channel, or the
\* consumer is about to put it there: registerWaiter precedes Publish.  However calls
\* end, the one exception is a completion that was reported as an error.
THEOREM NoLostWakeupAlways == Spec => []NoLostWakeup
<1>1. IInv /\ HonestInv => NoLostWakeup
  BY DEF IInv, TypeOK, HonestInv, RequestHonest, OutcomeHonest, NoLostWakeup
<1> QED
  BY <1>1, HonestInductive, PTL

\* ErrConfirmationFailed answers a saga that completed only when the error of a
\* publish or of a completion hid that it took effect.
THEOREM FailedNotCompletedAlways == Spec => []FailedNotCompleted
<1>1. IInv /\ HonestInv => FailedNotCompleted
  BY DEF IInv, PublishedFirst, HonestInv, OutcomeHonest, FailedNotCompleted
<1> QED
  BY <1>1, HonestInductive, PTL

-----------------------------------------------------------------------------
(* The orchestrator implements SagaLifecycle.                               *)

\* A request's step is a Begin, a Dispatch, an Undo or an Answer of its saga, or a stutter.
LEMMA RequestRefines ==
  ASSUME IInv, NEW s \in Sagas, Start(s) \/ Serve(s) \/ Disconnect(s)
  PROVE  [Lifecycle!Next]_(Lifecycle!vars)
<1> USE DEF Lifecycle!vars, Lifecycle!Next, callerVars, workVars, queueVars, faultVars
<1>0. /\ sagaState \in [Sagas -> States] /\ result \in [Sagas -> Results]
      /\ AnswerAgrees(s) /\ QuietRequest(s) /\ CancelJustified(s)
      /\ Persisted(s) /\ PublishedFirst(s)
  BY DEF IInv, TypeOK
<1>1. CASE Start(s)
  BY <1>1 DEF Start
<1>2. ASSUME NEW out \in Outcomes, Create(s, out)
      PROVE  [Lifecycle!Next]_(Lifecycle!vars)
  <2>1. sagaState' = sagaState \/ Lifecycle!Begin(s)
    BY <1>2 DEF Create, Transition, Lifecycle!Begin, Lifecycle!Move
  <2> QED
    BY <1>2, <2>1 DEF Create
<1>3. ASSUME NEW out \in Outcomes, CancelQuietly(s, out)
      PROVE  [Lifecycle!Next]_(Lifecycle!vars)
  <2>1. cancels' = cancels \/ Lifecycle!Undo(s)
    BY <1>0, <1>3 DEF CancelQuietly, Goto, QuietRequest, AnswerAgrees,
                      PublishedFirst, Lifecycle!Undo
  <2> QED
    BY <1>3, <2>1 DEF CancelQuietly
<1>4. ASSUME NEW out \in Outcomes, Publish(s, out)
      PROVE  [Lifecycle!Next]_(Lifecycle!vars)
  <2>1. published' = published \/ Lifecycle!Dispatch(s)
    BY <1>0, <1>4 DEF Publish, Goto, Persisted, CancelJustified, Lifecycle!Dispatch
  <2> QED
    BY <1>4, <2>1 DEF Publish
<1>6. ASSUME NEW out \in Outcomes, PublishConfirm(s, out)
      PROVE  [Lifecycle!Next]_(Lifecycle!vars)
  BY <1>6 DEF PublishConfirm
<1>5. ASSUME NEW from \in RequestSteps \ {"done"}, NEW a \in Results \ {"none"},
             Return(s, from, a), a = "ok" => waiters[s] = "completed"
      PROVE  [Lifecycle!Next]_(Lifecycle!vars)
  <2>1. Lifecycle!Answer(s, a)
    BY <1>0, <1>5 DEF Return, Goto, AnswerAgrees, Lifecycle!Answer
  <2> QED
    BY <2>1 DEF Lifecycle!Answers
<1> QED
  BY <1>1, <1>2, <1>3, <1>4, <1>5, <1>6
     DEF Serve, ReceiveOutcome, TimeOut, Disconnect, ReturnError

\* A step of compensate is a Claim, an Undo or a Fail, or a stutter.
LEMMA CompensateRefines ==
  ASSUME IInv, NEW g \in Goroutines, Compensate(g)
  PROVE  [Lifecycle!Next]_(Lifecycle!vars)
<1> USE DEF Lifecycle!vars, Lifecycle!Next, callerVars, workVars, queueVars, faultVars
<1>0. Target(g) \in Sagas /\ CompensatePast(g) /\ sagaState \in [Sagas -> States]
  BY DEF IInv, TypeOK, Target
<1>1. ASSUME NEW out \in Outcomes, ClaimCompensation(g, out)
      PROVE  [Lifecycle!Next]_(Lifecycle!vars)
  <2>1. sagaState' = sagaState \/ Lifecycle!Claim(Target(g))
    BY <1>1 DEF ClaimCompensation, Transition, Lifecycle!Claim, Lifecycle!Move
  <2> QED
    BY <1>0, <1>1, <2>1 DEF ClaimCompensation
<1>2. ASSUME NEW out \in Outcomes, Get(g, out)
      PROVE  [Lifecycle!Next]_(Lifecycle!vars)
  BY <1>2 DEF Get
<1>3. ASSUME NEW out \in Outcomes, Cancel(g, out)
      PROVE  [Lifecycle!Next]_(Lifecycle!vars)
  <2>1. cancels' = cancels \/ Lifecycle!Undo(Target(g))
    BY <1>0, <1>3 DEF Cancel, Goto, CompensatePast, Lifecycle!Undo
  <2> QED
    BY <1>0, <1>3, <2>1 DEF Cancel
<1>4. ASSUME NEW out \in Outcomes, MarkCompensated(g, out)
      PROVE  [Lifecycle!Next]_(Lifecycle!vars)
  <2>1. sagaState' = sagaState \/ Lifecycle!Fail(Target(g))
    BY <1>0, <1>4 DEF MarkCompensated, Goto, Transition, CompensatePast,
                      Lifecycle!Fail, Lifecycle!Move
  <2> QED
    BY <1>0, <1>4, <2>1 DEF MarkCompensated
<1> QED
  BY <1>1, <1>2, <1>3, <1>4 DEF Compensate

\* The consumer completes a saga that is not undone, or changes nothing abstract:
\* an undone saga that is still awaiting never had its command published.
LEMMA ConsumerRefines ==
  ASSUME IInv, ConsumeReply
  PROVE  [Lifecycle!Next]_(Lifecycle!vars)
<1> USE DEF Lifecycle!vars, Lifecycle!Next, callerVars, workVars, queueVars, faultVars
<1>1. ASSUME NEW out \in Outcomes, CompleteIfAwaiting(out)
      PROVE  [Lifecycle!Next]_(Lifecycle!vars)
  <2>0. /\ delivery.saga \in Sagas /\ CancelJustified(delivery.saga)
        /\ delivery.saga \in published
    BY <1>1 DEF IInv, TypeOK, CompleteIfAwaiting, Goto, ConsumerAgrees, PublishedFirst
  <2>1. sagaState' = sagaState \/ Lifecycle!Complete(delivery.saga)
    BY <1>1, <2>0 DEF CompleteIfAwaiting, Goto, Transition, CancelJustified,
                      Lifecycle!Complete, Lifecycle!Move
  <2> QED
    BY <1>1, <2>0, <2>1 DEF CompleteIfAwaiting
<1> QED
  BY Zenon, <1>1 DEF ConsumeReply, HandleReply, SignalWaiter, Ack, Requeue

\* A crash is a Crash; the reaper's listing, replies and time are stutters.
LEMMA OthersRefine ==
  ASSUME IInv, RunReaper \/ Notifier \/ Expire \/ Crash
  PROVE  [Lifecycle!Next]_(Lifecycle!vars)
<1> USE DEF Lifecycle!vars, Lifecycle!Next, callerVars, workVars, queueVars, faultVars
<1>1. CASE Crash
  <2> DEFINE InFlight == {s \in Sagas : pc[s] \notin {"init", "done"}}
  <2>1. InFlight \subseteq {s \in Sagas : result[s] = "none"}
    BY DEF IInv, AnswerAgrees
  <2>2. result' = [s \in Sagas |-> IF s \in InFlight THEN "crashed" ELSE result[s]]
    BY <1>1 DEF Crash
  <2>3. Lifecycle!Crash
    BY Zenon, <1>1, <2>1, <2>2 DEF Crash, Lifecycle!Crash
  <2> QED
    BY <2>3
<1> QED
  BY Zenon, <1>1 DEF RunReaper, Reap, ReapNext, ReapDone, Notifier, Participant, Expire

\* Every behaviour of the orchestrator is a behaviour of SagaLifecycle: a single
\* winner between completion and undo, a truthful "ok", failed only when undone.
THEOREM Refinement == Spec => ImplementsLifecycle
<1>1. Init => Lifecycle!Init
  BY DEF Init, Lifecycle!Init
<1>2. IInv /\ [Next]_vars => [Lifecycle!Next]_(Lifecycle!vars)
  <2> SUFFICES ASSUME IInv, [Next]_vars PROVE [Lifecycle!Next]_(Lifecycle!vars)
    OBVIOUS
  <2>1. CASE Next
    BY <2>1, RequestRefines, CompensateRefines, ConsumerRefines, OthersRefine DEF Next
  <2>2. CASE UNCHANGED vars
    BY <2>2 DEF vars, callerVars, queueVars, Lifecycle!vars
  <2> QED
    BY <2>1, <2>2
<1> QED
  BY <1>1, <1>2, Inductive, PTL DEF Spec, ImplementsLifecycle, Lifecycle!Spec
-----------------------------------------------------------------------------
(* What SagaLifecycle promises as an invariant and as an action property,   *)
(* and so what the orchestrator does.                                       *)

LEMMA WinnerInit == Lifecycle!Init => Lifecycle!TypeOK /\ Lifecycle!SingleWinner
BY DEF Lifecycle!Init, Lifecycle!TypeOK, Lifecycle!States, Lifecycle!Answers,
       Lifecycle!SingleWinner

\* A saga that moves, is undone or is answered keeps to the promise, and so do
\* the sagas beside it.
LEMMA WinnerStep ==
  ASSUME Lifecycle!TypeOK, Lifecycle!SingleWinner, Lifecycle!Next
  PROVE  /\ Lifecycle!TypeOK' /\ Lifecycle!SingleWinner'
         /\ \A s \in Sagas :
              /\ sagaState[s] \in {"completed", "failed"} => sagaState'[s] = sagaState[s]
              /\ s \in cancels => s \in cancels'
              /\ result[s] # "none" => result'[s] = result[s]
<1> USE DEF Lifecycle!TypeOK, Lifecycle!States, Lifecycle!Answers, Lifecycle!SingleWinner,
            Lifecycle!Move
<1>1. ASSUME NEW t \in Sagas, Lifecycle!Begin(t) \/ Lifecycle!Complete(t)
                               \/ Lifecycle!Claim(t) \/ Lifecycle!Fail(t)
      PROVE  /\ Lifecycle!TypeOK' /\ Lifecycle!SingleWinner'
             /\ \A s \in Sagas :
                  sagaState[s] \in {"completed", "failed"} => sagaState'[s] = sagaState[s]
             /\ cancels' = cancels /\ result' = result
  BY <1>1 DEF Lifecycle!Begin, Lifecycle!Complete, Lifecycle!Claim, Lifecycle!Fail
<1>2. ASSUME NEW t \in Sagas, Lifecycle!Dispatch(t) \/ Lifecycle!Undo(t)
      PROVE  /\ Lifecycle!TypeOK' /\ Lifecycle!SingleWinner'
             /\ sagaState' = sagaState /\ cancels \subseteq cancels' /\ result' = result
  BY <1>2 DEF Lifecycle!Dispatch, Lifecycle!Undo
<1>3. ASSUME NEW t \in Sagas, NEW a \in Lifecycle!Answers \ {"none"}, Lifecycle!Answer(t, a)
      PROVE  /\ Lifecycle!TypeOK' /\ Lifecycle!SingleWinner'
             /\ sagaState' = sagaState /\ cancels' = cancels
             /\ \A s \in Sagas : result[s] # "none" => result'[s] = result[s]
  BY <1>3 DEF Lifecycle!Answer
<1>4. ASSUME Lifecycle!Crash
      PROVE  /\ Lifecycle!TypeOK' /\ Lifecycle!SingleWinner'
             /\ sagaState' = sagaState /\ cancels' = cancels
             /\ \A s \in Sagas : result[s] # "none" => result'[s] = result[s]
  BY <1>4 DEF Lifecycle!Crash
<1> HIDE DEF Lifecycle!TypeOK, Lifecycle!SingleWinner
<1> QED
  BY <1>1, <1>2, <1>3, <1>4 DEF Lifecycle!Next

LEMMA WinnerKept ==
  Lifecycle!TypeOK /\ Lifecycle!SingleWinner /\ [Lifecycle!Next]_(Lifecycle!vars)
    => (Lifecycle!TypeOK /\ Lifecycle!SingleWinner)'
<1>1. ASSUME Lifecycle!TypeOK, Lifecycle!SingleWinner, UNCHANGED Lifecycle!vars
      PROVE  (Lifecycle!TypeOK /\ Lifecycle!SingleWinner)'
  BY <1>1 DEF Lifecycle!vars, Lifecycle!TypeOK, Lifecycle!SingleWinner
<1> QED
  BY <1>1, WinnerStep

\* Of the reply that completes a saga and the failure, timeout or reaper that undoes
\* it only one wins, whatever calls fail and processes die in between: no completed
\* saga's subscription is cancelled, and failed is written only after the cancel.
THEOREM SingleWinnerAlways == Spec => []Lifecycle!SingleWinner
BY WinnerInit, WinnerKept, Refinement, PTL DEF ImplementsLifecycle, Lifecycle!Spec

\* Whoever won has won for good: saga_instances never leaves completed or failed, no
\* cancel is taken back, and no StartAndWait call returns twice.
THEOREM WinnerIsFinalAlways == Spec => Lifecycle!WinnerIsFinal
<1>1. Lifecycle!TypeOK /\ Lifecycle!SingleWinner /\ [Lifecycle!Next]_(Lifecycle!vars)
        => [\A s \in Sagas :
              /\ sagaState[s] \in {"completed", "failed"} => sagaState'[s] = sagaState[s]
              /\ s \in cancels => s \in cancels'
              /\ result[s] # "none" => result'[s] = result[s]]_(Lifecycle!vars)
  BY WinnerStep
<1> QED
  BY <1>1, WinnerInit, WinnerKept, Refinement, PTL
     DEF ImplementsLifecycle, Lifecycle!Spec, Lifecycle!WinnerIsFinal
=============================================================================
