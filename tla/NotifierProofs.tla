--------------------------- MODULE NotifierProofs ---------------------------
(***************************************************************************)
(* For every set of commands, calls and keys, every mixture of malformed   *)
(* input and every bound on faults: what the notification service reports  *)
(* as done has been mailed, and the service implements NotificationLedger. *)
(* The inductive invariant IInv is defined in Notifier.                    *)
(***************************************************************************)
EXTENDS Notifier, FiniteSetTheorems, TLAPS

USE DisjointAssumption, InputAssumption, EnvironmentAssumption
    DEF Commands, Tasks

\* Nothing is mailed, recorded or reported at the start.
LEMMA InitInv == Init => IInv
BY DEF Init, IInv, TypeOK, ReportedIsMailed, SentReplyIsTrue, SettledIsMailed,
       CallAnswerIsTrue

-----------------------------------------------------------------------------
\* Taking a task up leaves what was mailed and reported alone.
LEMMA TakeUpInv ==
  ASSUME IInv, NEW t \in Tasks, Deliver(t) \/ Serve(t) \/ GiveUp(t)
  PROVE  IInv'
<1> USE DEF IInv, TypeOK, ReportedIsMailed, SentReplyIsTrue, SettledIsMailed,
            CallAnswerIsTrue
<1>1. CASE Deliver(t)
  BY <1>1 DEF Deliver, Goto, Finish, Told, Gone
<1>2. CASE Serve(t)
  BY <1>2 DEF Serve, WellFormed, Goto, Finish, Told, Gone
<1>3. CASE GiveUp(t)
  BY <1>3 DEF GiveUp
<1> QED
  BY <1>1, <1>2, <1>3

\* reserveAndSend: the ledger refuses only a mailed key, and only a mailed key is
\* confirmed.
LEMMA ServiceInv ==
  ASSUME IInv, NEW t \in Tasks, NEW out \in Outcomes,
         Reserve(t, out) \/ Send(t, out) \/ Confirm(t, out)
  PROVE  IInv'
<1> USE DEF IInv, TypeOK, ReportedIsMailed, SentReplyIsTrue, SettledIsMailed,
            CallAnswerIsTrue, Fault, TookEffect
<1>1. CASE Reserve(t, out)
  BY <1>1 DEF Reserve, Goto, Finish, Told, Gone
<1>2. CASE Send(t, out)
  BY <1>2 DEF Send, Goto, Finish, Told, Gone
<1>3. CASE Confirm(t, out)
  BY <1>3 DEF Confirm, Finish, Told, Gone
<1> QED
  BY <1>1, <1>2, <1>3

\* A reply says what the outcome says; an ack follows the outcome; a crash only
\* forgets.
LEMMA SettleInv ==
  ASSUME IInv,
         \/ \E t \in Tasks, out \in Outcomes : Reply(t, out) \/ Settle(t, out)
         \/ Crash
  PROVE  IInv'
<1> USE DEF IInv, TypeOK, ReportedIsMailed, SentReplyIsTrue, SettledIsMailed,
            CallAnswerIsTrue, Fault, TookEffect
<1>1. ASSUME NEW t \in Tasks, NEW out \in Outcomes, Reply(t, out)
      PROVE  IInv'
  BY <1>1 DEF Reply, Goto
<1>2. ASSUME NEW t \in Tasks, NEW out \in Outcomes, Settle(t, out)
      PROVE  IInv'
  BY <1>2 DEF Settle
<1>3. CASE Crash
  BY <1>3 DEF Crash
<1> QED
  BY <1>1, <1>2, <1>3

\* Every step of the service keeps the inductive invariant.
LEMMA StepInv == IInv /\ [Next]_vars => IInv'
<1> SUFFICES ASSUME IInv, [Next]_vars PROVE IInv'
  OBVIOUS
<1>1. CASE UNCHANGED vars
  BY <1>1 DEF vars, workVars, IInv, TypeOK, ReportedIsMailed, SentReplyIsTrue,
              SettledIsMailed, CallAnswerIsTrue
<1>2. CASE Next
  BY <1>2, TakeUpInv, ServiceInv, SettleInv DEF Next, Work
<1> QED
  BY <1>1, <1>2

\* The strengthened invariant holds in every state of the service.
THEOREM Inductive == Spec => []IInv
BY InitInv, StepInv, PTL DEF Spec

\* No false report and no lost notification: a confirmation-sent reply, an ack and
\* a call's answer all mean that the SMTP server took the mail, however many
\* goroutines share the key and whatever fails, crashes or times out.
THEOREM ReportedIsMailedAlways == Spec => []ReportedIsMailed
<1>1. IInv => ReportedIsMailed
  BY DEF IInv
<1> QED
  BY <1>1, Inductive, PTL

-----------------------------------------------------------------------------
\* The tasks attempting a key are finitely many, as the tasks are.
LEMMA AttemptingFinite ==
  ASSUME NEW k
  PROVE  IsFiniteSet(Attempting(k)) /\ Cardinality(Attempting(k)) \in Nat
BY FiniteAssumption, FS_Subset, FS_CardinalityType DEF Attempting

\* A task that moves between two points of its handling, neither of them the
\* send, changes no attempt.
LEMMA SameAttempts ==
  ASSUME TypeOK, NEW t \in Tasks, NEW to, pc' = [pc EXCEPT ![t] = to],
         pc[t] # "send", to # "send", NEW k
  PROVE  Attempting(k)' = Attempting(k)
BY DEF Attempting, TypeOK

\* A task that reaches the send adds one attempt to its key.
LEMMA OneAttemptMore ==
  ASSUME TypeOK, NEW t \in Tasks, pc' = [pc EXCEPT ![t] = "send"], pc[t] # "send",
         NEW k
  PROVE  Cardinality(Attempting(k)') =
           IF k = KeyOf[t] THEN Cardinality(Attempting(k)) + 1
           ELSE Cardinality(Attempting(k))
<1>1. CASE k = KeyOf[t]
  <2>1. Attempting(k)' = Attempting(k) \cup {t} /\ t \notin Attempting(k)
    BY <1>1 DEF Attempting, TypeOK
  <2> QED
    BY <1>1, <2>1, AttemptingFinite, FS_AddElement
<1>2. CASE k # KeyOf[t]
  BY <1>2 DEF Attempting, TypeOK
<1> QED
  BY <1>1, <1>2

\* A task that leaves the send takes one attempt off its key.
LEMMA OneAttemptLess ==
  ASSUME TypeOK, NEW t \in Tasks, NEW to, pc' = [pc EXCEPT ![t] = to],
         pc[t] = "send", to # "send", NEW k
  PROVE  IF k = KeyOf[t]
         THEN /\ Cardinality(Attempting(k)) > 0
              /\ Cardinality(Attempting(k)') = Cardinality(Attempting(k)) - 1
         ELSE Cardinality(Attempting(k)') = Cardinality(Attempting(k))
<1>1. CASE k = KeyOf[t]
  <2>1. Attempting(k)' = Attempting(k) \ {t} /\ t \in Attempting(k)
    BY <1>1 DEF Attempting, TypeOK
  <2>2. Cardinality(Attempting(k)) # 0
    BY <2>1, AttemptingFinite, FS_EmptySet
  <2>3. Cardinality(Attempting(k) \ {t}) = Cardinality(Attempting(k)) - 1
    BY <2>1, AttemptingFinite, FS_RemoveElement
  <2> QED
    BY <1>1, <2>1, <2>2, <2>3, AttemptingFinite
<1>2. CASE k # KeyOf[t]
  BY <1>2 DEF Attempting, TypeOK
<1> QED
  BY <1>1, <1>2

\* Nothing is attempted, recorded or reported at the start.
LEMMA InitRefines == Init => Ledger!Init
<1> SUFFICES ASSUME Init PROVE Ledger!Init
  OBVIOUS
<1>1. ASSUME NEW k PROVE Attempting(k) = {}
  BY DEF Init, Attempting
<1>2. Reported = {}
  BY DEF Init, Reported
<1> QED
  BY <1>1, <1>2, FS_EmptySet DEF Init, Ledger!Init

\* Deliver, Serve and GiveUp are invisible: a malformed call is told an error.
LEMMA TakeUpRefines ==
  ASSUME IInv, NEW t \in Tasks, Deliver(t) \/ Serve(t) \/ GiveUp(t)
  PROVE  UNCHANGED Ledger!vars
<1>1. TypeOK
  BY DEF IInv
<1>2. UNCHANGED <<ledger, mails, queued, replies>>
  BY DEF Deliver, Serve, GiveUp
<1>3. ASSUME NEW k PROVE Attempting(k)' = Attempting(k)
  BY <1>1, SameAttempts DEF Deliver, Serve, GiveUp, Goto, Finish, Attempting
<1>4. ASSUME NEW c \in Calls
      PROVE  outcome'[c] \in {"delivered", "deduped"} <=>
             outcome[c] \in {"delivered", "deduped"}
  BY <1>1 DEF Deliver, Serve, GiveUp, Goto, Finish, Told, IInv, TypeOK
<1>5. UNCHANGED Reported
  BY <1>2, <1>4 DEF Reported
<1> QED
  BY <1>2, <1>3, <1>5 DEF Ledger!vars

\* Reserve starts an attempt, of a key that is not recorded, or reports a recorded
\* key to its caller, or is invisible.
LEMMA ReserveRefines ==
  ASSUME IInv, NEW t \in Tasks, NEW out \in Outcomes, Reserve(t, out)
  PROVE  Ledger!Next \/ UNCHANGED Ledger!vars
<1> DEFINE k == KeyOf[t]
<1>1. TypeOK /\ k \in Keys /\ pc[t] = "reserve" /\ UNCHANGED <<mails, queued, replies>>
  BY DEF IInv, Reserve, Goto, Finish
<1>2. {j \in Keys : ledger'[j] = "sent"} = {j \in Keys : ledger[j] = "sent"}
  BY <1>1 DEF Reserve, TypeOK
<1>3. CASE Goto(t, "reserve", "send") /\ ledger[k] # "sent"
  <2>1. pc' = [pc EXCEPT ![t] = "send"] /\ UNCHANGED outcome
    BY <1>3 DEF Goto
  <2>2. UNCHANGED Reported
    BY <1>1, <2>1 DEF Reported
  <2>3. ASSUME NEW j \in Keys
        PROVE  Cardinality(Attempting(j)') =
                 IF j = k THEN Cardinality(Attempting(j)) + 1
                 ELSE Cardinality(Attempting(j))
    BY <1>1, <2>1, OneAttemptMore
  <2>4. Ledger!Attempt(k)
    BY <1>1, <1>2, <1>3, <2>2, <2>3 DEF Ledger!Attempt
  <2> QED
    BY <1>1, <2>4 DEF Ledger!Next
<1>4. CASE \/ Finish(t, "reserve", "failed")
           \/ Finish(t, "reserve", "deduped") /\ ledger[k] = "sent"
  <2>1. ASSUME NEW j PROVE Attempting(j)' = Attempting(j)
    BY <1>1, <1>4, SameAttempts DEF Finish
  <2>2. ASSUME NEW c \in Calls
        PROVE  /\ c # t => outcome'[c] = outcome[c]
               /\ c = t => outcome[c] \notin {"delivered", "deduped"}
    BY <1>1, <1>4 DEF Finish, IInv, TypeOK
  <2>3. CASE t \in Calls /\ outcome'[t] \in {"delivered", "deduped"}
    <3>1. mails[k] > 0
      BY <1>1, <1>4, <2>3 DEF Finish, Told, IInv, TypeOK
    <3>2. Reported' = Reported \cup {k}
      BY <1>1, <2>2, <2>3 DEF Reported
    <3>3. Ledger!Report(k)
      BY <1>1, <1>2, <2>1, <3>1, <3>2 DEF Ledger!Report
    <3> QED
      BY <1>1, <3>3 DEF Ledger!Next
  <2>4. CASE ~(t \in Calls /\ outcome'[t] \in {"delivered", "deduped"})
    <3>1. UNCHANGED Reported
      BY <1>1, <2>2, <2>4 DEF Reported
    <3> QED
      BY <1>1, <1>2, <2>1, <3>1 DEF Ledger!vars
  <2> QED
    BY <2>3, <2>4
<1> QED
  BY <1>3, <1>4 DEF Reserve

\* Send mails an attempted key, or abandons the attempt.
LEMMA SendRefines ==
  ASSUME IInv, NEW t \in Tasks, NEW out \in Outcomes, Send(t, out)
  PROVE  Ledger!Next
<1> DEFINE k == KeyOf[t]
<1>1. TypeOK /\ k \in Keys /\ pc[t] = "send" /\ UNCHANGED <<ledger, queued, replies>>
  BY DEF IInv, Send, Goto, Finish
<1>2. \E to : to # "send" /\ pc' = [pc EXCEPT ![t] = to]
  BY DEF Send, Goto, Finish
<1>3. ASSUME NEW j \in Keys
      PROVE  IF j = k THEN /\ Cardinality(Attempting(j)) > 0
                           /\ Cardinality(Attempting(j)') = Cardinality(Attempting(j)) - 1
             ELSE Cardinality(Attempting(j)') = Cardinality(Attempting(j))
  BY <1>1, <1>2, OneAttemptLess
<1>4. ASSUME NEW c \in Calls
      PROVE  outcome'[c] \in {"delivered", "deduped"} <=>
             outcome[c] \in {"delivered", "deduped"}
  BY <1>1 DEF Send, Goto, Finish, Told, IInv, TypeOK
<1>5. UNCHANGED Reported
  BY <1>1, <1>4 DEF Reported
<1>6. CASE TookEffect(out)
  <2>1. mails' = [mails EXCEPT ![k] = @ + 1]
    BY <1>6 DEF Send
  <2>2. Ledger!Mail(k)
    BY <1>1, <1>3, <1>5, <2>1 DEF Ledger!Mail
  <2> QED
    BY <1>1, <2>2 DEF Ledger!Next
<1>7. CASE ~TookEffect(out)
  <2>1. UNCHANGED mails
    BY <1>7 DEF Send
  <2>2. ASSUME NEW j \in Keys
        PROVE  /\ Cardinality(Attempting(j)') \in Nat
               /\ Cardinality(Attempting(j)') <= Cardinality(Attempting(j))
    BY <1>3, AttemptingFinite
  <2>3. Ledger!Abandon
    BY <1>1, <1>5, <2>1, <2>2 DEF Ledger!Abandon
  <2> QED
    BY <2>3 DEF Ledger!Next
<1> QED
  BY <1>6, <1>7

\* Confirm records a mailed key, and answers the call that mailed it.
LEMMA ConfirmRefines ==
  ASSUME IInv, NEW t \in Tasks, NEW out \in Outcomes, Confirm(t, out)
  PROVE  Ledger!Next \/ UNCHANGED Ledger!vars
<1> DEFINE k == KeyOf[t]
<1>1. /\ TypeOK /\ k \in Keys /\ mails[k] > 0 /\ pc[t] = "confirm"
      /\ UNCHANGED <<mails, queued, replies>>
  BY DEF IInv, Confirm, Finish
<1>2. ASSUME NEW j PROVE Attempting(j)' = Attempting(j)
  BY <1>1, SameAttempts DEF Confirm, Finish
<1>3. ASSUME NEW c \in Calls
      PROVE  /\ c # t => outcome'[c] = outcome[c]
             /\ c = t => outcome[c] \notin {"delivered", "deduped"}
  BY <1>1 DEF Confirm, Finish, IInv, TypeOK
<1>4. Reported' \in {Reported, Reported \cup {k}}
  <2>1. CASE t \in Calls /\ outcome'[t] \in {"delivered", "deduped"}
    BY <1>1, <1>3, <2>1 DEF Reported
  <2>2. CASE ~(t \in Calls /\ outcome'[t] \in {"delivered", "deduped"})
    BY <1>1, <1>3, <2>2 DEF Reported
  <2> QED
    BY <2>1, <2>2
<1>5. CASE TookEffect(out)
  <2>1. {j \in Keys : ledger'[j] = "sent"} = {j \in Keys : ledger[j] = "sent"} \cup {k}
    BY <1>1, <1>5 DEF Confirm, TypeOK
  <2>2. Ledger!Record(k)
    BY <1>1, <1>2, <1>4, <2>1 DEF Ledger!Record
  <2> QED
    BY <1>1, <2>2 DEF Ledger!Next
<1>6. CASE ~TookEffect(out)
  <2>1. UNCHANGED ledger
    BY <1>6 DEF Confirm
  <2>2. Ledger!Report(k) \/ UNCHANGED Ledger!vars
    BY <1>1, <1>2, <1>4, <2>1 DEF Ledger!Report, Ledger!vars
  <2> QED
    BY <1>1, <2>2 DEF Ledger!Next
<1> QED
  BY <1>5, <1>6

\* A reply or an ack reports a key that was mailed, or reports nothing.
LEMMA SettleRefines ==
  ASSUME IInv, IInv', NEW t \in Tasks, NEW out \in Outcomes, Reply(t, out) \/ Settle(t, out)
  PROVE  Ledger!Next \/ UNCHANGED Ledger!vars
<1> DEFINE k == KeyOf[t]
<1>1. /\ TypeOK /\ k \in Keys /\ pc[t] \in {"reply", "ack", "drop", "requeue"}
      /\ UNCHANGED <<ledger, mails>>
  BY DEF IInv, Reply, Settle, Goto
<1>2. ASSUME NEW j PROVE Attempting(j)' = Attempting(j)
  BY <1>1, SameAttempts DEF Reply, Settle, Goto
<1>3. t \notin Calls /\ \A c \in Calls : outcome'[c] = outcome[c]
  BY <1>1 DEF Reply, Settle, Goto, IInv, TypeOK
<1>4. Reported' \in {Reported, Reported \cup {k}}
  <2>1. CASE Reply(t, out)
    BY <1>1, <1>3, <2>1 DEF Reply, Goto, Reported
  <2>2. CASE Settle(t, out)
    BY <1>1, <1>3, <2>2 DEF Settle, Reported
  <2> QED
    BY <2>1, <2>2
<1>5. \A j \in Reported' : mails[j] > 0
  BY <1>1 DEF IInv, ReportedIsMailed, SentReplyIsTrue, SettledIsMailed, CallAnswerIsTrue,
              Reported
<1>6. Ledger!Report(k) \/ UNCHANGED Ledger!vars
  BY <1>1, <1>2, <1>4, <1>5 DEF Ledger!Report, Ledger!vars
<1> QED
  BY <1>1, <1>6 DEF Ledger!Next

\* A crash abandons the attempts under way and takes no report back.
LEMMA CrashRefines ==
  ASSUME IInv, Crash
  PROVE  Ledger!Next
<1>1. TypeOK /\ UNCHANGED <<ledger, mails, queued, replies>>
  BY DEF IInv, Crash
<1>2. ASSUME NEW j \in Keys
      PROVE  /\ Cardinality(Attempting(j)') \in Nat
             /\ Cardinality(Attempting(j)') <= Cardinality(Attempting(j))
  <2>1. Attempting(j)' = {}
    BY DEF Crash, Attempting
  <2> QED
    BY <2>1, AttemptingFinite, FS_EmptySet
<1>3. ASSUME NEW c \in Calls
      PROVE  outcome'[c] \in {"delivered", "deduped"} <=>
             outcome[c] \in {"delivered", "deduped"}
  BY <1>1 DEF Crash, IInv, TypeOK
<1>4. UNCHANGED Reported
  BY <1>1, <1>3 DEF Reported
<1>5. Ledger!Abandon
  BY <1>1, <1>2, <1>4 DEF Ledger!Abandon
<1> QED
  BY <1>5 DEF Ledger!Next

\* The service implements NotificationLedger: whatever interleaves, fails or
\* crashes, no attempt to mail a confirmed key starts, and no record or report is
\* made before the mail or withdrawn after it.
THEOREM Refinement == Spec => ImplementsLedger
<1>1. IInv /\ IInv' /\ [Next]_vars => [Ledger!Next]_(Ledger!vars)
  <2> SUFFICES ASSUME IInv, IInv', [Next]_vars PROVE Ledger!Next \/ UNCHANGED Ledger!vars
    OBVIOUS
  <2>1. CASE UNCHANGED vars
    BY <2>1 DEF vars, workVars, Ledger!vars, Attempting, Reported
  <2>2. CASE Next
    BY <2>2, TakeUpRefines, ReserveRefines, SendRefines, ConfirmRefines, SettleRefines,
       CrashRefines DEF Next, Work
  <2> QED
    BY <2>1, <2>2
<1> QED
  BY <1>1, InitRefines, Inductive, PTL DEF Spec, ImplementsLedger, Ledger!Spec

-----------------------------------------------------------------------------
\* A goroutine is known by any of its tasks.
LEMMA WayOfTask ==
  ASSUME NEW t \in Tasks
  PROVE  /\ t \in Way(t)
         /\ \A u \in Way(t) : u \in Tasks /\ Way(u) = Way(t)
         /\ t \in Calls => Way(t) = {t}
         /\ \A u \in Tasks : Way(u) = Way(t) <=>
              \/ u = t
              \/ u \in SagaCommands /\ t \in SagaCommands
              \/ u \in EmailCommands /\ t \in EmailCommands
BY DEF Way

\* Only finitely many goroutines may mail a key, and those that can do so without
\* a fault are among them.
LEMMA WaysFinite ==
  ASSUME NEW k
  PROVE  /\ IsFiniteSet(Ways(k)) /\ Cardinality(Ways(k)) \in Nat
         /\ IsFiniteSet(Fresh(k)) /\ Cardinality(Fresh(k)) \in Nat
         /\ Cardinality(Fresh(k)) <= Cardinality(Ways(k))
<1> DEFINE S == {u \in Tasks : KeyOf[u] = k}
           f == [t \in S |-> Way(t)]
<1>1. IsFiniteSet(S)
  BY FiniteAssumption, FS_Subset
<1>2. f \in Surjection(S, Ways(k))
  BY DEF Surjection, Ways
<1>3. IsFiniteSet(Ways(k))
  BY <1>1, <1>2, FS_Surjection
<1>4. Fresh(k) \in SUBSET Ways(k)
  BY DEF Fresh
<1> QED
  BY <1>3, <1>4, FS_Subset, FS_CardinalityType

\* A fault pays for one more mail by each goroutine.
LEMMA FaultPays ==
  ASSUME NEW n \in Nat, NEW f \in Nat
  PROVE  n * (1 + f) \in Nat /\ n * (1 + (f + 1)) = n * (1 + f) + n
OBVIOUS

\* A step keeps Paid(k) when no mail is added and no goroutine becomes fresh, when
\* the goroutine that mails is fresh no more, or when a fault pays for it.
LEMMA PaidKept ==
  ASSUME TypeOK, TypeOK', NEW k \in Keys, Paid(k), faults' \in {faults, faults + 1},
         \/ mails'[k] = mails[k] /\ Fresh(k)' \subseteq Fresh(k)
         \/ /\ mails'[k] = mails[k] + 1
            /\ \E w \in Fresh(k) : Fresh(k)' \subseteq Fresh(k) \ {w}
         \/ /\ faults' = faults + 1
            /\ \/ mails'[k] = mails[k]
               \/ mails'[k] = mails[k] + 1 /\ Fresh(k)' \subseteq Fresh(k) /\ Ways(k) # {}
  PROVE  Paid(k)'
<1> DEFINE W == Cardinality(Ways(k))
           F == Cardinality(Fresh(k))
           G == Cardinality(Fresh(k)')
<1>1. /\ W \in Nat /\ F \in Nat /\ F <= W
      /\ faults \in Nat /\ mails[k] \in Nat
      /\ mails[k] + F <= W * (1 + faults)
  BY WaysFinite DEF TypeOK, Paid
<1>2. Ways(k)' = Ways(k)
  BY DEF Ways, Way
<1>3. IsFiniteSet(Fresh(k)') /\ G \in Nat /\ G <= W
  <2>1. Fresh(k)' \in SUBSET Ways(k)
    BY <1>2 DEF Fresh
  <2> QED
    BY <2>1, WaysFinite, FS_Subset, FS_CardinalityType
<1>4. Fresh(k)' \subseteq Fresh(k) => G <= F
  BY WaysFinite, FS_Subset
<1>5. ASSUME NEW w \in Fresh(k), Fresh(k)' \subseteq Fresh(k) \ {w}
      PROVE  G + 1 <= F
  <2>1. IsFiniteSet(Fresh(k) \ {w}) /\ Cardinality(Fresh(k) \ {w}) = F - 1
    BY WaysFinite, FS_RemoveElement
  <2>2. G <= Cardinality(Fresh(k) \ {w})
    BY <1>5, <2>1, FS_Subset
  <2> QED
    BY <1>1, <1>3, <2>1, <2>2
<1>6. Ways(k) # {} => W >= 1
  BY <1>1, WaysFinite, FS_EmptySet
<1>7. /\ W * (1 + faults) \in Nat
      /\ W * (1 + (faults + 1)) = W * (1 + faults) + W
  BY <1>1, FaultPays
<1>8. mails'[k] + G <= W * (1 + faults')
  <2> DEFINE P == W * (1 + faults)
  <2>1. W * (1 + faults') \in {P, P + W}
    BY <1>7
  <2>2. faults' = faults + 1 => W * (1 + faults') = P + W
    BY <1>7
  <2>3. P \in Nat /\ mails[k] + F <= P
    BY <1>1, <1>7
  <2> HIDE DEF P, W, F, G
  <2> QED
    BY <1>1, <1>3, <1>4, <1>5, <1>6, <2>1, <2>2, <2>3
<1> QED
  BY <1>2, <1>8 DEF Paid

\* Deliver waits for its queue's goroutine, and every call has its own.
LEMMA OneAtATimeKept ==
  ASSUME TypeOK, OneAtATime, [Next]_vars
  PROVE  OneAtATime'
<1> USE DEF OneAtATime, TypeOK
<1>1. ASSUME NEW t \in Tasks, NEW to, pc' = [pc EXCEPT ![t] = to],
             pc[t] # "idle" \/ to = "idle" \/ t \in Calls \/ Free(t),
             t \in Commands => to # "done"
      PROVE  OneAtATime'
  <2>1. ASSUME NEW u \in Tasks, Way(u) = Way(t), u # t, to # "idle" PROVE pc[u] = "idle"
    BY <1>1, <2>1, WayOfTask DEF Free
  <2>2. \A u, v \in Tasks : (Way(u) = Way(v))' <=> Way(u) = Way(v)
    BY DEF Way
  <2>3. \A u \in Tasks : u # t => pc'[u] = pc[u]
    BY <1>1
  <2>4. pc'[t] = to
    BY <1>1
  <2> QED
    BY <1>1, <2>1, <2>2, <2>3, <2>4
<1>2. ASSUME NEW t \in Tasks, Deliver(t) \/ Serve(t)
      PROVE  OneAtATime'
  BY <1>1, <1>2 DEF Deliver, Serve, Goto, Finish
<1>3. ASSUME NEW t \in Tasks, NEW out \in Outcomes,
             \/ Reserve(t, out) \/ Send(t, out) \/ Confirm(t, out)
             \/ Reply(t, out) \/ Settle(t, out)
      PROVE  OneAtATime'
  <2>1. CASE Reserve(t, out)
    BY <1>1, <2>1 DEF Reserve, Goto, Finish
  <2>2. CASE Send(t, out)
    BY <1>1, <2>2 DEF Send, Goto, Finish
  <2>3. CASE Confirm(t, out)
    BY <1>1, <2>3 DEF Confirm, Finish
  <2>4. CASE Reply(t, out)
    BY <1>1, <2>4 DEF Reply, Goto
  <2>5. CASE Settle(t, out)
    BY <1>1, <2>5 DEF Settle
  <2> QED
    BY <1>3, <2>1, <2>2, <2>3, <2>4, <2>5
<1>4. CASE Crash
  BY <1>4 DEF Crash, Way
<1>5. CASE UNCHANGED pc
  BY <1>5 DEF Way
<1> QED
  BY <1>2, <1>3, <1>4, <1>5 DEF Next, Work, GiveUp, vars, workVars

\* While a goroutine is at task t, its freshness for t's key is that of t.
LEMMA FreshAtTask ==
  ASSUME TypeOK, OneAtATime, NEW t \in Tasks, pc[t] # "idle" \/ t \in Calls
  PROVE  Way(t) \in Fresh(KeyOf[t]) <=>
           \/ pc[t] = "send"
           \/ ledger[KeyOf[t]] # "sent" /\ pc[t] \notin {"confirm", "done"}
<1>1. Way(t) \in Ways(KeyOf[t])
  BY DEF Ways
<1>2. ASSUME NEW u \in Way(t), u # t PROVE pc[u] = "idle"
  BY <1>2, WayOfTask DEF OneAtATime
<1>3. t \in Way(t)
  BY WayOfTask
<1> QED
  BY <1>1, <1>2, <1>3 DEF Fresh

\* The same of the next state.
LEMMA FreshAtTaskNext ==
  ASSUME TypeOK', OneAtATime', NEW t \in Tasks, pc'[t] # "idle" \/ t \in Calls
  PROVE  Way(t) \in Fresh(KeyOf[t])' <=>
           \/ pc'[t] = "send"
           \/ ledger'[KeyOf[t]] # "sent" /\ pc'[t] \notin {"confirm", "done"}
<1>1. Way(t) \in Ways(KeyOf[t])'
  BY DEF Ways, Way
<1>2. ASSUME NEW u \in Way(t), u # t PROVE pc'[u] = "idle"
  <2>1. u \in Tasks /\ Way(u) = Way(t) /\ Way(u)' = Way(u) /\ Way(t)' = Way(t)
    BY WayOfTask DEF Way
  <2> QED
    BY <1>2, <2>1, WayOfTask DEF OneAtATime
<1>3. t \in Way(t)
  BY WayOfTask
<1> QED
  BY <1>1, <1>2, <1>3 DEF Fresh

\* A step of task t leaves the freshness of other goroutines alone, and of its own
\* goroutine for other keys.
LEMMA FreshElsewhere ==
  ASSUME TypeOK, NEW t \in Tasks, NEW to, pc' = [pc EXCEPT ![t] = to],
         NEW k \in Keys, ledger'[k] = "sent" <=> ledger[k] = "sent",
         NEW w, w # Way(t) \/ k # KeyOf[t]
  PROVE  w \in Fresh(k)' <=> w \in Fresh(k)
<1>1. Ways(k)' = Ways(k)
  BY DEF Ways, Way
<1> SUFFICES ASSUME w \in Ways(k)
             PROVE  w \in Fresh(k)' <=> w \in Fresh(k)
  BY <1>1 DEF Fresh
<1>2. ASSUME NEW u \in w, KeyOf[u] = k PROVE pc'[u] = pc[u]
  <2>1. PICK v \in Tasks : w = Way(v)
    BY DEF Ways
  <2>2. u \in Tasks /\ Way(u) = w
    BY <2>1, WayOfTask
  <2> QED
    BY <1>2, <2>2 DEF TypeOK
<1> QED
  BY <1>1, <1>2 DEF Fresh

\* A task that is taken up, replied to or settled makes nothing fresh.
LEMMA BesidePaid ==
  ASSUME TypeOK, TypeOK', OneAtATime, OneAtATime', NEW t \in Tasks,
         \/ Deliver(t) \/ Serve(t) \/ GiveUp(t)
         \/ \E out \in Outcomes : Reply(t, out) \/ Settle(t, out),
         NEW k \in Keys, Paid(k)
  PROVE  Paid(k)'
<1>1. UNCHANGED <<ledger, mails>> /\ faults' \in {faults, faults + 1}
  BY DEF Deliver, Serve, GiveUp, Reply, Settle, Fault
<1>2. Fresh(k)' \subseteq Fresh(k)
  <2>1. CASE GiveUp(t)
    BY <2>1, <1>1 DEF GiveUp, Fresh, Ways, Way
  <2>2. CASE ~GiveUp(t)
    <3>1. PICK to : pc' = [pc EXCEPT ![t] = to] /\ to # "send"
      BY <2>2 DEF Deliver, Serve, Goto, Finish, Reply, Settle
    <3>2. Fresh(k)' \subseteq Fresh(k) \cup {Way(t)}
      BY <1>1, <3>1, FreshElsewhere
    <3>3. ASSUME k = KeyOf[t], Way(t) \in Fresh(k)' PROVE Way(t) \in Fresh(k)
      <4>1. Way(t) \in Ways(k) /\ pc[t] \in {"idle", "reply", "ack", "drop", "requeue"}
        BY <2>2, <3>3 DEF Ways, Deliver, Serve, Goto, Finish, Reply, Settle
      <4>2. ASSUME NEW u \in Way(t), u # t PROVE pc[u] = "idle" /\ pc'[u] = pc[u]
        <5>1. u \in Tasks /\ Way(u) = Way(t)
          BY WayOfTask
        <5>2. pc[t] = "idle" => t \in Calls \/ Free(t)
          BY <2>2 DEF Deliver, Serve, Reply, Settle, Goto
        <5>3. pc[u] = "idle"
          BY <4>2, <5>1, <5>2, WayOfTask DEF OneAtATime, Free
        <5> QED
          BY <3>1, <4>2, <5>1, <5>3 DEF TypeOK
      <4>3. ledger[k] # "sent"
        BY <1>1, <3>1, <3>3, <4>2 DEF Fresh, TypeOK
      <4> QED
        BY <4>1, <4>2, <4>3 DEF Fresh
    <3> QED
      BY <1>1, <3>1, <3>2, <3>3, FreshElsewhere
  <2> QED
    BY <2>1, <2>2
<1> QED
  BY <1>1, <1>2, PaidKept

\* Reserve lets only a goroutine through that was fresh already.
LEMMA ReservePaid ==
  ASSUME TypeOK, TypeOK', OneAtATime, OneAtATime', NEW t \in Tasks, NEW out \in Outcomes,
         Reserve(t, out), NEW k \in Keys, Paid(k)
  PROVE  Paid(k)'
<1>1. /\ UNCHANGED mails /\ faults' \in {faults, faults + 1}
      /\ pc[t] = "reserve" /\ KeyOf[t] \in Keys
      /\ \A j \in Keys : ledger'[j] = "sent" <=> ledger[j] = "sent"
  BY DEF Reserve, Fault, Goto, Finish, TypeOK
<1>2. PICK to : pc' = [pc EXCEPT ![t] = to] /\ to # "idle"
  BY DEF Reserve, Goto, Finish
<1>3. pc'[t] = to /\ (to = "send" => ledger[KeyOf[t]] # "sent")
  BY <1>1, <1>2 DEF Reserve, Goto, Finish, TypeOK
<1>4. Way(t) \in Fresh(KeyOf[t])' => Way(t) \in Fresh(KeyOf[t])
  BY <1>1, <1>2, <1>3, FreshAtTask, FreshAtTaskNext
<1>5. Fresh(k)' \subseteq Fresh(k)
  BY <1>1, <1>2, <1>4, FreshElsewhere
<1> QED
  BY <1>1, <1>5, PaidKept

\* A goroutine that mails was fresh; it is so no more, unless a fault pays for its
\* next mail.
LEMMA SendPaid ==
  ASSUME TypeOK, TypeOK', OneAtATime, OneAtATime', NEW t \in Tasks, NEW out \in Outcomes,
         Send(t, out), NEW k \in Keys, Paid(k)
  PROVE  Paid(k)'
<1>1. /\ UNCHANGED ledger /\ faults' \in {faults, faults + 1}
      /\ pc[t] = "send" /\ KeyOf[t] \in Keys
  BY DEF Send, Fault, Goto, Finish
<1>2. PICK to : pc' = [pc EXCEPT ![t] = to] /\ to \notin {"idle", "send"}
  BY DEF Send, Goto, Finish
<1>3. pc'[t] = to
  BY <1>2 DEF TypeOK
<1>4. Way(t) \in Fresh(KeyOf[t])
  BY <1>1, FreshAtTask
<1>5. Fresh(k)' \subseteq Fresh(k)
  BY <1>1, <1>2, <1>4, FreshElsewhere
<1>6. CASE k # KeyOf[t] \/ ~TookEffect(out)
  <2>1. mails'[k] = mails[k]
    BY <1>6 DEF Send, TypeOK
  <2> QED
    BY <1>1, <1>5, <2>1, PaidKept
<1>7. CASE k = KeyOf[t] /\ TookEffect(out)
  <2>1. mails'[k] = mails[k] + 1
    BY <1>7 DEF Send, TypeOK
  <2>2. CASE faults' = faults + 1
    <3>1. Ways(k) # {}
      BY <1>4, <1>7 DEF Fresh
    <3> QED
      BY <1>1, <1>5, <2>1, <2>2, <3>1, PaidKept
  <2>3. CASE faults' # faults + 1
    <3>1. to \in {"confirm", "done"}
      BY <1>2, <1>3, <2>3 DEF Send, Fault, Gone, Goto, Finish, TypeOK
    <3>2. Way(t) \notin Fresh(k)'
      BY <1>2, <1>3, <1>7, <3>1, FreshAtTaskNext
    <3>3. Fresh(k)' \subseteq Fresh(k) \ {Way(t)}
      BY <1>5, <3>2
    <3> QED
      BY <1>1, <1>4, <1>7, <2>1, <3>3, PaidKept
  <2> QED
    BY <2>2, <2>3
<1> QED
  BY <1>6, <1>7

\* A confirmed row leaves only the goroutines that have won the key fresh; a
\* Confirm that fails is a fault, or the end of a call.
LEMMA ConfirmPaid ==
  ASSUME TypeOK, TypeOK', OneAtATime, OneAtATime', NEW t \in Tasks, NEW out \in Outcomes,
         Confirm(t, out), NEW k \in Keys, Paid(k)
  PROVE  Paid(k)'
<1>1. /\ UNCHANGED mails /\ faults' \in {faults, faults + 1}
      /\ pc[t] = "confirm" /\ KeyOf[t] \in Keys
  BY DEF Confirm, Fault, Finish
<1> DEFINE to == IF t \in SagaCommands THEN "reply" ELSE IF t \in Calls THEN "done" ELSE "ack"
<1>2. pc' = [pc EXCEPT ![t] = to] /\ to \notin {"idle", "send"}
  BY DEF Confirm, Finish
<1>3. pc'[t] = to
  BY <1>2 DEF TypeOK
<1>4. CASE faults' = faults + 1
  BY <1>1, <1>4, PaidKept
<1>5. CASE faults' # faults + 1
  <2>1. CASE k # KeyOf[t]
    <3>1. ledger'[k] = ledger[k]
      BY <2>1 DEF Confirm, TypeOK
    <3>2. Fresh(k)' \subseteq Fresh(k)
      BY <1>2, <2>1, <3>1, FreshElsewhere
    <3> QED
      BY <1>1, <3>2, PaidKept
  <2>2. CASE k = KeyOf[t] /\ TookEffect(out)
    <3>1. ledger'[k] = "sent"
      BY <2>2 DEF Confirm, TypeOK
    <3>2. ASSUME NEW u \in Tasks, pc'[u] = "send" PROVE pc[u] = "send"
      BY <1>2, <3>2 DEF TypeOK
    <3>3. \A w \in Ways(k) : w \subseteq Tasks
      BY DEF Ways, Way
    <3>4. Ways(k)' = Ways(k)
      BY DEF Ways, Way
    <3>5. Fresh(k)' \subseteq Fresh(k)
      BY <3>1, <3>2, <3>3, <3>4 DEF Fresh
    <3> QED
      BY <1>1, <3>5, PaidKept
  <2>3. CASE k = KeyOf[t] /\ ~TookEffect(out)
    <3>1. t \in Calls /\ to = "done" /\ UNCHANGED ledger
      BY <1>3, <1>5, <2>3 DEF Confirm, Fault, TookEffect, Gone, Finish, TypeOK
    <3>2. Way(t) \notin Fresh(k)'
      BY <1>3, <2>3, <3>1, FreshAtTaskNext
    <3>3. Fresh(k)' \subseteq Fresh(k)
      BY <1>2, <3>1, <3>2, FreshElsewhere
    <3> QED
      BY <1>1, <3>3, PaidKept
  <2> QED
    BY <2>1, <2>2, <2>3
<1> QED
  BY <1>4, <1>5

\* A goroutine mails a key again only after a fault it paid for: with no failed call
\* and no crash every goroutine mails a key at most once, and each fault costs at
\* most one more mail per goroutine.
THEOREM DuplicatesPaidAlways == Spec => []DuplicatesPaid
<1>1. Init => PaidInv
  <2> SUFFICES ASSUME Init PROVE PaidInv
    OBVIOUS
  <2>1. OneAtATime
    BY DEF Init, OneAtATime
  <2>2. ASSUME NEW k \in Keys PROVE Paid(k)
    BY <2>2, WaysFinite DEF Init, Paid
  <2> QED
    BY <2>1, <2>2 DEF PaidInv
<1>2. IInv /\ IInv' /\ PaidInv /\ [Next]_vars => PaidInv'
  <2> SUFFICES ASSUME TypeOK, TypeOK', PaidInv, [Next]_vars PROVE PaidInv'
    BY DEF IInv
  <2>1. OneAtATime /\ OneAtATime'
    BY OneAtATimeKept DEF PaidInv
  <2>2. ASSUME NEW k \in Keys PROVE Paid(k)'
    <3>1. Paid(k)
      BY DEF PaidInv
    <3>2. CASE Crash
      BY <2>1, <3>1, <3>2, PaidKept DEF Crash
    <3>3. CASE \E t \in Tasks : Work(t)
      BY <2>1, <3>1, <3>3, BesidePaid, ReservePaid, SendPaid, ConfirmPaid DEF Work
    <3>4. CASE UNCHANGED vars
      BY <3>1, <3>4 DEF Paid, Fresh, Ways, Way, vars, workVars
    <3> QED
      BY <3>2, <3>3, <3>4 DEF Next
  <2> QED
    BY <2>1, <2>2 DEF PaidInv
<1>3. IInv /\ PaidInv => DuplicatesPaid
  <2> SUFFICES ASSUME TypeOK, PaidInv, NEW k \in Keys
               PROVE  mails[k] <= Cardinality(Ways(k)) * (1 + faults)
    BY DEF IInv, DuplicatesPaid
  <2>1. Cardinality(Ways(k)) * (1 + faults) \in Nat
    BY WaysFinite, FaultPays DEF TypeOK
  <2>2. /\ mails[k] \in Nat /\ Cardinality(Fresh(k)) \in Nat
        /\ mails[k] + Cardinality(Fresh(k)) <= Cardinality(Ways(k)) * (1 + faults)
    BY WaysFinite DEF TypeOK, PaidInv, Paid
  <2> QED
    BY <2>1, <2>2
<1> QED
  BY <1>1, <1>2, <1>3, Inductive, PTL DEF Spec
=============================================================================
