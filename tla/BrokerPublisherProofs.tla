------------------------ MODULE BrokerPublisherProofs ------------------------
(***************************************************************************)
(* For every set of Publish calls and every number of faults: callers do   *)
(* each other no harm, no connection leaks, and a failure on a replaced    *)
(* channel does not undo the replacement.  The inductive invariant IInv is *)
(* defined in BrokerPublisher.                                             *)
(***************************************************************************)
EXTENDS BrokerPublisher, FiniteSetTheorems, TLAPS

USE PublisherAssumption DEF NoChannel, strayVars

Errors == {c \in Callers : pc[c] = "error"}

\* Nothing was dialled.
LEMMA InitInv == Init => IInv
<1> SUFFICES ASSUME Init PROVE IInv
  OBVIOUS
<1>1. TypeOK
  <2>1. closed \in BOOLEAN
    BY DEF Init
  <2> QED
    BY <2>1 DEF Init, TypeOK
<1>2. {c \in Callers : pc[c] = "error"} = {}
  BY DEF Init
<1>3. Cardinality({}) = 0
  BY FS_EmptySet
<1>4. given <= Cardinality({c \in Callers : pc[c] = "error"})
  BY <1>2, <1>3 DEF Init
<1> QED
  BY <1>1, <1>4 DEF Init, IInv, NoLeak, Undisturbed

-----------------------------------------------------------------------------
\* Every step keeps the variables' types.
LEMMA TypeKept == TypeOK /\ [Next]_vars => TypeOK'
<1> SUFFICES ASSUME TypeOK, [Next]_vars PROVE TypeOK'
  OBVIOUS
<1> USE DEF TypeOK, Goto, Fault, Use
<1>1. ASSUME NEW c \in Callers, LiveChannel(c) PROVE TypeOK'
  BY <1>1 DEF LiveChannel
<1>2. ASSUME NEW c \in Callers, Recheck(c) PROVE TypeOK'
  BY <1>2 DEF Recheck
<1>3. ASSUME NEW c \in Callers, Dial(c) PROVE TypeOK'
  <2>1. /\ dialled' \in {dialled, dialled + 1} /\ dialled' \in Nat
        /\ pc' \in [Callers -> {"lookup", "redial", "dial", "publish", "wait", "reset",
                               "ok", "error"}]
        /\ writer' \in Callers \cup {NoCaller} /\ faults' \in 0..MaxFaults
        /\ UNCHANGED <<accepted, given, stray, closed>>
    BY <1>3 DEF Dial
  <2>2. 0..dialled \subseteq 0..dialled' /\ 1..dialled \subseteq 1..dialled'
    BY <2>1
  <2>3. /\ current' \in {current, dialled'} /\ open' \subseteq open \cup {dialled'}
        /\ dialled' = dialled => open' = open
        /\ \A d \in Callers : mine'[d] \in {mine[d], dialled'}
        /\ DOMAIN mine' = Callers /\ mine' = [d \in Callers |-> mine'[d]]
    BY <1>3 DEF Dial
  <2>4. \A n \in open' : n \in 1..dialled'
    BY <2>1, <2>2, <2>3
  <2>5. current' \in 0..dialled' /\ mine' \in [Callers -> 0..dialled']
    BY <2>1, <2>2, <2>3
  <2>6. \A d \in Callers : pc'[d] \in {"publish", "wait", "reset"} => mine'[d] # NoChannel
    BY <1>3 DEF Dial
  <2> QED
    BY <2>1, <2>2, <2>4, <2>5, <2>6
<1>4. ASSUME NEW c \in Callers, GiveUp(c) PROVE TypeOK'
  BY <1>4 DEF GiveUp
<1>5. ASSUME NEW c \in Callers, SendFrame(c) PROVE TypeOK'
  BY <1>5 DEF SendFrame
<1>6. ASSUME NEW c \in Callers, AwaitConfirm(c) PROVE TypeOK'
  BY <1>6 DEF AwaitConfirm
<1>7. ASSUME NEW c \in Callers, ResetIfCurrent(c) PROVE TypeOK'
  <2>1. /\ pc' \in [Callers -> {"lookup", "redial", "dial", "publish", "wait", "reset",
                               "ok", "error"}]
        /\ pc'[c] = "error" /\ \A d \in Callers : d # c => pc'[d] = pc[d]
        /\ UNCHANGED <<dialled, writer, mine, accepted, given, stray, closed, faults>>
    BY <1>7 DEF ResetIfCurrent
  <2>2. current' \in 0..dialled /\ open' \subseteq open
    BY <1>7 DEF ResetIfCurrent
  <2> QED
    BY <2>1, <2>2
<1>8. ASSUME NEW c \in Callers, Accept(c) PROVE TypeOK'
  BY <1>8 DEF Accept
<1>9. ASSUME NEW ch \in open, Drop(ch) PROVE TypeOK'
  BY <1>9 DEF Drop
<1>10. CASE DialLate
  <2>1. /\ dialled' \in {dialled, dialled + 1} /\ dialled' \in Nat /\ given' \in Nat
        /\ UNCHANGED <<current, writer, pc, mine, accepted, closed, faults>>
    BY <1>10 DEF DialLate
  <2>2. 0..dialled \subseteq 0..dialled' /\ 1..dialled \subseteq 1..dialled'
    BY <2>1
  <2>3. /\ open' \subseteq open \cup {dialled'} /\ (dialled' = dialled => open' = open)
        /\ stray' \subseteq stray \cup {dialled'} /\ (dialled' = dialled => stray' = stray)
    BY <1>10 DEF DialLate
  <2>4. \A n \in open' \cup stray' : n \in 1..dialled'
    BY <2>1, <2>2, <2>3
  <2>5. mine' \in [Callers -> 0..dialled']
    BY <2>1, <2>2
  <2> QED
    BY <2>1, <2>2, <2>4, <2>5
<1>11. CASE CloseStray
  BY <1>11 DEF CloseStray
<1>12. CASE Close
  BY <1>12 DEF Close
<1>13. CASE UNCHANGED vars
  BY <1>13 DEF vars
<1> QED
  BY <1>1, <1>2, <1>3, <1>4, <1>5, <1>6, <1>7, <1>8, <1>9, <1>10, <1>11, <1>12, <1>13
     DEF Next, Publish

\* The lock: its holder dials, and meanwhile nothing is cached; only Recheck takes
\* it, and only Dial and GiveUp let go of it.
LEMMA LockKept ==
  ASSUME IInv, [Next]_vars
  PROVE  /\ (\A c \in Callers : pc[c] = "dial" <=> writer = c)'
         /\ (writer # NoCaller => current = NoChannel)'
<1> USE DEF IInv, TypeOK, Goto, Fault, Use
<1>1. ASSUME NEW c \in Callers, Recheck(c) \/ LiveChannel(c)
      PROVE  /\ (\A d \in Callers : pc[d] = "dial" <=> writer = d)'
             /\ (writer # NoCaller => current = NoChannel)'
  BY <1>1 DEF Recheck, LiveChannel
<1>2. ASSUME NEW c \in Callers, Dial(c) \/ GiveUp(c)
      PROVE  /\ (\A d \in Callers : pc[d] = "dial" <=> writer = d)'
             /\ (writer # NoCaller => current = NoChannel)'
  BY <1>2 DEF Dial, GiveUp
<1>3. ASSUME NEW c \in Callers,
             SendFrame(c) \/ AwaitConfirm(c) \/ ResetIfCurrent(c) \/ Accept(c)
      PROVE  /\ (\A d \in Callers : pc[d] = "dial" <=> writer = d)'
             /\ (writer # NoCaller => current = NoChannel)'
  BY <1>3 DEF SendFrame, AwaitConfirm, ResetIfCurrent, Accept
<1>4. CASE DialLate \/ CloseStray \/ Close \/ UNCHANGED vars \/ \E ch \in open : Drop(ch)
  BY <1>4 DEF DialLate, CloseStray, Close, Drop, vars
<1> QED
  BY <1>1, <1>2, <1>3, <1>4 DEF Next, Publish

\* Every open channel is the cached one or a stray: a caller dials only once the
\* cached channel is gone.
LEMMA LeakKept ==
  ASSUME IInv, [Next]_vars
  PROVE  NoLeak'
<1> USE DEF IInv, TypeOK, NoLeak
<1>1. ASSUME NEW c \in Callers, Dial(c) PROVE NoLeak'
  <2>1. current = NoChannel /\ NoChannel \notin open
    BY <1>1 DEF Dial, Goto
  <2> QED
    BY <1>1, <2>1 DEF Dial
<1>2. ASSUME NEW c \in Callers,
             \/ LiveChannel(c) \/ Recheck(c) \/ GiveUp(c) \/ SendFrame(c)
             \/ AwaitConfirm(c) \/ ResetIfCurrent(c) \/ Accept(c)
      PROVE  NoLeak'
  BY <1>2 DEF LiveChannel, Recheck, GiveUp, SendFrame, AwaitConfirm, ResetIfCurrent, Accept
<1>3. CASE DialLate \/ CloseStray \/ Close \/ UNCHANGED vars \/ \E ch \in open : Drop(ch)
  BY <1>3 DEF DialLate, CloseStray, Close, Drop, vars
<1> QED
  BY <1>1, <1>2, <1>3 DEF Next, Publish

\* Without a fault or Close, a dial finds nobody on another channel, and nothing
\* closes the one that is cached.
LEMMA CauseKept ==
  ASSUME IInv, [Next]_vars
  PROVE  Undisturbed'
<1> USE DEF IInv, TypeOK, Undisturbed, Goto, Fault, Use
<1>1. ASSUME NEW c \in Callers, LiveChannel(c) PROVE Undisturbed'
  BY <1>1 DEF LiveChannel
<1>2. ASSUME NEW c \in Callers, Recheck(c) PROVE Undisturbed'
  BY <1>2 DEF Recheck
<1>3. ASSUME NEW c \in Callers, Dial(c) PROVE Undisturbed'
  <2>1. CASE faults' = 0 /\ ~closed
    <3>1. current = NoChannel /\ faults = 0
      BY <1>3, <2>1 DEF Dial
    <3>2. \A d \in Callers : pc[d] \notin {"publish", "wait", "reset", "error"}
      BY <2>1, <3>1
    <3> QED
      BY <1>3, <2>1, <3>1, <3>2 DEF Dial
  <2>2. CASE ~(faults' = 0 /\ ~closed)
    BY <1>3, <2>2 DEF Dial
  <2> QED
    BY <2>1, <2>2
<1>4. ASSUME NEW c \in Callers, GiveUp(c) PROVE Undisturbed'
  BY <1>4 DEF GiveUp
<1>5. ASSUME NEW c \in Callers, SendFrame(c) PROVE Undisturbed'
  BY <1>5 DEF SendFrame
<1>6. ASSUME NEW c \in Callers, AwaitConfirm(c) PROVE Undisturbed'
  BY <1>6 DEF AwaitConfirm
<1>7. ASSUME NEW c \in Callers, ResetIfCurrent(c) \/ Accept(c) PROVE Undisturbed'
  BY <1>7 DEF ResetIfCurrent, Accept
<1>8. CASE DialLate \/ CloseStray
  BY <1>8 DEF DialLate, CloseStray
<1>9. CASE Close
  BY <1>9 DEF Close
<1>10. ASSUME NEW ch \in open, Drop(ch) PROVE Undisturbed'
  BY <1>10 DEF Drop
<1>11. CASE UNCHANGED vars
  BY <1>11 DEF vars
<1> QED
  BY <1>1, <1>2, <1>3, <1>4, <1>5, <1>6, <1>7, <1>8, <1>9, <1>10, <1>11 DEF Next, Publish

\* Every dial that was given up belongs to a call of its own that failed, and a
\* failed call stays failed.
LEMMA GivenKept ==
  ASSUME IInv, [Next]_vars
  PROVE  given' <= Cardinality(Errors')
<1>1. IsFiniteSet(Errors) /\ IsFiniteSet(Errors')
  BY FS_Subset DEF Errors
<1>2. Cardinality(Errors) \in Nat /\ Cardinality(Errors') \in Nat
  BY <1>1, FS_CardinalityType
<1>3. given <= Cardinality(Errors) /\ given \in Nat
  BY DEF IInv, TypeOK, Errors
<1>4. ASSUME Errors \subseteq Errors', given' <= given, given' \in Nat
      PROVE  given' <= Cardinality(Errors')
  <2>1. Cardinality(Errors) <= Cardinality(Errors')
    BY <1>1, <1>4, FS_Subset
  <2> QED
    BY <1>2, <1>3, <1>4, <2>1
<1>5. ASSUME NEW c \in Callers, GiveUp(c) PROVE given' <= Cardinality(Errors')
  <2>1. c \notin Errors /\ Errors' = Errors \cup {c} /\ given' = given + 1
    BY <1>5 DEF GiveUp, Goto, Errors, IInv, TypeOK
  <2>2. Cardinality(Errors') = Cardinality(Errors) + 1
    BY <1>1, <2>1, FS_AddElement
  <2> QED
    BY <1>2, <1>3, <2>1, <2>2
<1>6. ASSUME NEW c \in Callers,
             \/ LiveChannel(c) \/ Recheck(c) \/ Dial(c) \/ SendFrame(c)
             \/ AwaitConfirm(c) \/ ResetIfCurrent(c) \/ Accept(c)
      PROVE  given' <= Cardinality(Errors')
  <2>1. given' = given /\ Errors \subseteq Errors'
    BY <1>6 DEF LiveChannel, Recheck, Dial, SendFrame, AwaitConfirm, ResetIfCurrent, Accept,
       Goto, Use, Errors, IInv, TypeOK
  <2> QED
    BY <1>3, <1>4, <2>1
<1>7. CASE DialLate \/ CloseStray \/ Close \/ UNCHANGED vars \/ \E ch \in open : Drop(ch)
  <2>1. given' \in {given, given - 1} /\ given' \in Nat /\ Errors' = Errors
    BY <1>3, <1>7 DEF DialLate, CloseStray, Close, Drop, vars, Errors
  <2> QED
    BY <1>3, <1>4, <2>1
<1> QED
  BY <1>5, <1>6, <1>7 DEF Next, Publish

LEMMA StepInv == IInv /\ [Next]_vars => IInv'
BY TypeKept, LockKept, LeakKept, CauseKept, GivenKept DEF IInv, Errors

\* The invariant holds of every behaviour of the publisher.
THEOREM Inductive == Spec => []IInv
BY InitInv, StepInv, PTL DEF Spec

\* A Publish call fails only if a call to the broker failed, a connection dropped, or
\* Close was called: concurrent callers never take each other's channel away.
THEOREM FailsForACauseAlways == Spec => []FailsForACause
<1>1. IInv => FailsForACause
  BY DEF IInv, TypeOK, Undisturbed, FailsForACause
<1> QED
  BY <1>1, Inductive, PTL

\* However redials, failed publishes, drops and Close interleave, every open
\* channel is the cached one, or came of a dial its caller gave up on.
THEOREM NoLeakAlways == Spec => []NoLeak
<1>1. IInv => NoLeak
  BY DEF IInv
<1> QED
  BY <1>1, Inductive, PTL

\* A live cached channel is discarded only by Close, or by a call that was itself
\* using that channel and failed (resetIfCurrent), whatever failed before.
THEOREM RedialKeptAlways == Spec => RedialKept
<1> DEFINE Kept ==
      (current \in open /\ current' # current) =>
        \/ closed' # closed
        \/ \E c \in Callers : mine[c] = current /\ pc[c] = "reset" /\ pc'[c] = "error"
<1>1. IInv /\ [Next]_vars => [Kept]_vars
  <2> SUFFICES ASSUME IInv, Next, current \in open, current' # current
               PROVE  \/ closed' # closed
                      \/ \E c \in Callers :
                           mine[c] = current /\ pc[c] = "reset" /\ pc'[c] = "error"
    OBVIOUS
  <2>1. ASSUME NEW c \in Callers, Dial(c) PROVE FALSE
    BY <2>1 DEF Dial, Goto, IInv, TypeOK
  <2>2. ASSUME NEW c \in Callers, ResetIfCurrent(c)
        PROVE  mine[c] = current /\ pc[c] = "reset" /\ pc'[c] = "error"
    BY <2>2 DEF ResetIfCurrent, Goto, IInv, TypeOK
  <2>3. ASSUME NEW c \in Callers,
               \/ LiveChannel(c) \/ Recheck(c) \/ GiveUp(c) \/ SendFrame(c)
               \/ AwaitConfirm(c) \/ Accept(c)
        PROVE  FALSE
    BY <2>3 DEF LiveChannel, Recheck, GiveUp, SendFrame, AwaitConfirm, Accept
  <2>4. CASE Close
    BY <2>4 DEF Close
  <2>5. CASE DialLate \/ CloseStray \/ \E ch \in open : Drop(ch)
    BY <2>5 DEF DialLate, CloseStray, Drop
  <2> QED
    BY <2>1, <2>2, <2>3, <2>4, <2>5 DEF Next, Publish
<1> QED
  BY <1>1, Inductive, PTL DEF Spec, RedialKept
==============================================================================
