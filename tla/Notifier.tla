------------------------------ MODULE Notifier ------------------------------
(***************************************************************************)
(* services/notification: three ways into one application Service (the     *)
(* saga participant, the e-mail queue consumer, and the RPC and REST       *)
(* handlers) and the sent_notifications ledger that deduplicates what they *)
(* send.  Each queue has one goroutine that handles one delivery at a      *)
(* time; every RPC has its own, and a client that waits for it no longer   *)
(* than its timeout.                                                       *)
(***************************************************************************)
EXTENDS Naturals, FiniteSets

CONSTANTS
  SagaCommands,   \* messages of the saga command queue
  EmailCommands,  \* messages of notifications.email
  Calls,          \* RPC and REST calls
  Keys,           \* dedup keys
  KeyOf,          \* the dedup key of each of them
  Form,           \* "valid", "incomplete" (a field is missing) or "garbled"
  StatementsOpen, \* whether the ledger's prepared statements are open
  Outcomes,       \* how a remote call may end: "ok", "lost" or "late"
  MaxFaults       \* bound on failed calls and crashes

Commands == SagaCommands \cup EmailCommands
Tasks == Commands \cup Calls

ASSUME DisjointAssumption ==
  /\ SagaCommands \cap EmailCommands = {}
  /\ Commands \cap Calls = {}
ASSUME InputAssumption ==
  /\ KeyOf \in [Tasks -> Keys]
  /\ Form \in [Tasks -> {"valid", "incomplete", "garbled"}]
ASSUME FiniteAssumption == IsFiniteSet(Tasks)
ASSUME EnvironmentAssumption ==
  /\ StatementsOpen \in BOOLEAN
  /\ "ok" \in Outcomes /\ Outcomes \subseteq {"ok", "lost", "late"}
  /\ MaxFaults \in Nat

VARIABLES
  ledger,   \* per key: no row, a reserved row (sent_at NULL), or a sent one
  mails,    \* per key: how often the SMTP server accepted the mail
  queued,   \* commands the broker holds, the unacked ones included
  pc,       \* where the handling of each task is
  outcome,  \* what the Service returned for it, or what a call's client was told
  replies,  \* saga replies the broker accepted
  faults    \* failed calls and crashes so far

workVars == <<pc, outcome>>
vars == <<ledger, mails, queued, workVars, replies, faults>>

TypeOK ==
  /\ ledger \in [Keys -> {"none", "reserved", "sent"}]
  /\ mails \in [Keys -> Nat]
  /\ queued \in SUBSET Commands
  /\ pc \in [Tasks -> {"idle", "reserve", "send", "confirm", "reply",
                       "ack", "drop", "requeue", "done"}]
  /\ outcome \in [Tasks -> {"none", "delivered", "deduped", "failed"}]
  /\ replies \in SUBSET [command : SagaCommands, type : {"sent", "failed"}]
  /\ faults \in 0..MaxFaults

Init ==
  /\ ledger = [k \in Keys |-> "none"]
  /\ mails = [k \in Keys |-> 0]
  /\ queued = Commands
  /\ pc = [t \in Tasks |-> "idle"]
  /\ outcome = [t \in Tasks |-> "none"]
  /\ replies = {}
  /\ faults = 0

-----------------------------------------------------------------------------
\* The client of call t stopped waiting while the call is being served.
Gone(t) == t \in Calls /\ pc[t] \notin {"idle", "done"} /\ outcome[t] = "failed"

\* A remote call of the handling of t ends in out.  Once the client is gone the
\* handler's context is done, so that its calls may fail by themselves.
Fault(t, out) ==
  LET paid == out # "ok" /\ ~Gone(t) IN
  /\ paid => faults < MaxFaults
  /\ faults' = IF paid THEN faults + 1 ELSE faults

TookEffect(out) == out # "lost"

\* The goroutine of t's queue has nothing in hand.
Free(t) ==
  \A Q \in {SagaCommands, EmailCommands} :
    t \in Q => \A u \in Q : pc[u] = "idle"

\* What SendConfirmation, SendReleaseNotification or VerifyEmail of the client
\* returns: sent or deduped as the service says, or an error.
Told(t, res) == IF Gone(t) THEN "failed" ELSE res

\* The Service returned res: the participant replies, the consumer settles, a
\* call is answered.
Finish(t, from, res) ==
  /\ pc[t] = from
  /\ outcome' = [outcome EXCEPT ![t] = Told(t, res)]
  /\ pc' = [pc EXCEPT ![t] = IF t \in SagaCommands THEN "reply"
                             ELSE IF t \in Calls THEN "done"
                             ELSE IF res = "failed" THEN "requeue" ELSE "ack"]

Goto(t, from, to) ==
  /\ pc[t] = from
  /\ pc' = [pc EXCEPT ![t] = to]
  /\ UNCHANGED outcome

\* Mutant: bad input is requeued.
DeliverRequeuesBad(t) ==
  /\ t \in queued
  /\ Free(t)
  /\ Goto(t, "idle", IF Form[t] = "valid" THEN "reserve" ELSE "requeue")
  /\ UNCHANGED <<ledger, mails, queued, replies, faults>>

\* Handle: bad input is dropped, except that the participant reports a command
\* with a bad payload as failed.
Deliver(t) ==
  /\ t \in queued
  /\ Free(t)
  /\ \/ Form[t] = "valid" /\ Goto(t, "idle", "reserve")
     \/ Form[t] = "incomplete" /\ t \in SagaCommands /\ Finish(t, "idle", "failed")
     \/ /\ Form[t] = "garbled" \/ (Form[t] = "incomplete" /\ t \in EmailCommands)
        /\ Goto(t, "idle", "drop")
  /\ UNCHANGED <<ledger, mails, queued, replies, faults>>

\* The body of a call decodes and has all its fields.
WellFormed(t) == Form[t] = "valid"

\* SendConfirmation, SendReleaseNotification and VerifyEmail calls.
Serve(t) ==
  /\ t \in Calls
  /\ IF WellFormed(t) THEN Goto(t, "idle", "reserve") ELSE Finish(t, "idle", "failed")
  /\ UNCHANGED <<ledger, mails, queued, replies, faults>>

\* CallTimeout of the gRPC client or restTimeout of the REST one: an error for the
\* caller, and a done context for a handler that is still at work.
GiveUp(t) ==
  /\ t \in Calls
  /\ pc[t] \notin {"idle", "done"} /\ outcome[t] = "none"
  /\ outcome' = [outcome EXCEPT ![t] = "failed"]
  /\ UNCHANGED <<ledger, mails, queued, pc, replies, faults>>

\* Mutant: a reserved row counts as sent (the ledger of ADR 0015).
ReserveOnce(t, out) ==
  LET k == KeyOf[t] IN
  /\ Fault(t, out)
  /\ ledger' = IF TookEffect(out) /\ ledger[k] = "none"
               THEN [ledger EXCEPT ![k] = "reserved"] ELSE ledger
  /\ IF out # "ok" THEN Finish(t, "reserve", "failed")
     ELSE IF ledger[k] # "none" THEN Finish(t, "reserve", "deduped")
     ELSE Goto(t, "reserve", "send")
  /\ UNCHANGED <<mails, queued, replies>>

\* Mutant: the upsert's WHERE sent_at IS NULL is dropped.
ReserveAgain(t, out) ==
  LET k == KeyOf[t] IN
  /\ Fault(t, out)
  /\ ledger' = IF TookEffect(out) /\ ledger[k] = "none"
               THEN [ledger EXCEPT ![k] = "reserved"] ELSE ledger
  /\ IF out # "ok" THEN Finish(t, "reserve", "failed") ELSE Goto(t, "reserve", "send")
  /\ UNCHANGED <<mails, queued, replies>>

\* dedup.Reserve: wins unless the row is confirmed; an unconfirmed row is
\* reserved again.  A closed statement is an error of its own.
Reserve(t, out) ==
  LET k == KeyOf[t] IN
  /\ Fault(t, out)
  /\ ledger' = IF StatementsOpen /\ TookEffect(out) /\ ledger[k] = "none"
               THEN [ledger EXCEPT ![k] = "reserved"] ELSE ledger
  /\ IF out # "ok" \/ ~StatementsOpen THEN Finish(t, "reserve", "failed")
     ELSE IF ledger[k] = "sent" THEN Finish(t, "reserve", "deduped")
     ELSE Goto(t, "reserve", "send")
  /\ UNCHANGED <<mails, queued, replies>>

\* sender.Send...: the server may accept the mail and the session still fail.
Send(t, out) ==
  /\ Fault(t, out)
  /\ mails' = IF TookEffect(out) THEN [mails EXCEPT ![KeyOf[t]] = @ + 1] ELSE mails
  /\ IF out = "ok" THEN Goto(t, "send", "confirm") ELSE Finish(t, "send", "failed")
  /\ UNCHANGED <<ledger, queued, replies>>

\* Mutant: the row is not confirmed after the send.
ConfirmForgotten(t, out) ==
  /\ Fault(t, out)
  /\ Finish(t, "confirm", "delivered")
  /\ UNCHANGED <<ledger, mails, queued, replies>>

\* dedup.Confirm: an error is only logged.
Confirm(t, out) ==
  /\ Fault(t, out)
  /\ ledger' = IF TookEffect(out) THEN [ledger EXCEPT ![KeyOf[t]] = "sent"] ELSE ledger
  /\ Finish(t, "confirm", "delivered")
  /\ UNCHANGED <<mails, queued, replies>>

\* Participant.reply: a publish error requeues the command.
Reply(t, out) ==
  LET r == [command |-> t, type |-> IF outcome[t] = "failed" THEN "failed" ELSE "sent"] IN
  /\ Fault(t, out)
  /\ Goto(t, "reply", IF out = "ok" THEN "ack" ELSE "requeue")
  /\ replies' = IF TookEffect(out) THEN replies \cup {r} ELSE replies
  /\ UNCHANGED <<ledger, mails, queued>>

\* settle: Ack, or Nack with or without requeue; one that does not reach the
\* broker leaves the message to be delivered again.
Settle(t, out) ==
  /\ out # "late"
  /\ pc[t] \in {"ack", "drop", "requeue"}
  /\ Fault(t, out)
  /\ queued' = IF pc[t] # "requeue" /\ TookEffect(out) THEN queued \ {t} ELSE queued
  /\ pc' = [pc EXCEPT ![t] = "idle"]
  /\ outcome' = [outcome EXCEPT ![t] = "none"]
  /\ UNCHANGED <<ledger, mails, replies>>

\* The notifier dies and restarts; unacked commands go back to their queue.
Crash ==
  /\ faults < MaxFaults
  /\ faults' = faults + 1
  /\ pc' = [t \in Tasks |-> IF t \in Calls /\ pc[t] # "idle" THEN "done" ELSE "idle"]
  /\ outcome' = [t \in Tasks |->
                   IF t \in Commands THEN "none"
                   ELSE IF pc[t] \in {"idle", "done"} THEN outcome[t] ELSE "failed"]
  /\ UNCHANGED <<ledger, mails, queued, replies>>

-----------------------------------------------------------------------------
Work(t) ==
  \/ Deliver(t) \/ Serve(t) \/ GiveUp(t)
  \/ \E out \in Outcomes :
       Reserve(t, out) \/ Send(t, out) \/ Confirm(t, out) \/ Reply(t, out) \/ Settle(t, out)

Next == (\E t \in Tasks : Work(t)) \/ Crash

Spec == Init /\ [][Next]_vars

\* The two consumer goroutines keep running.  Nothing is assumed of calls.
Fairness ==
  /\ WF_vars(\E t \in SagaCommands : Work(t))
  /\ WF_vars(\E t \in EmailCommands : Work(t))

FairSpec == Spec /\ Fairness

-----------------------------------------------------------------------------
\* The goroutine that handles task t, named by the tasks it handles: one per queue,
\* one per call.  Those that may handle key k, possibly at the same time.
Way(t) == IF t \in SagaCommands THEN SagaCommands
          ELSE IF t \in EmailCommands THEN EmailCommands ELSE {t}

Ways(k) == {Way(t) : t \in {u \in Tasks : KeyOf[u] = k}}

\* confirmation-sent is never claimed of a mail that was not accepted, whoever
\* reserved, sent and confirmed the key: also when the participant was deduped.
SentReplyIsTrue ==
  \A r \in replies : r.type = "sent" => mails[KeyOf[r.command]] > 0

\* No notification is lost: a valid e-mail command leaves its queue only after
\* its mail was accepted, whatever fails or crashes on the way.
SettledIsMailed ==
  \A t \in EmailCommands \ queued : Form[t] = "valid" => mails[KeyOf[t]] > 0

\* A client that is told sent or deduped, and no error, has its mail.
CallAnswerIsTrue ==
  \A t \in Calls : outcome[t] \in {"delivered", "deduped"} => mails[KeyOf[t]] > 0

\* Whatever is reported as done has been mailed, by a saga reply, by an ack or by
\* the answer of a call: no false report and no lost notification.
ReportedIsMailed == SentReplyIsTrue /\ SettledIsMailed /\ CallAnswerIsTrue

\* The inductive invariant behind ReportedIsMailed.  reserveAndSend confirms and
\* reports a key only after the SMTP server took its mail, dedup.Reserve refuses
\* only a confirmed row, and an e-mail command reaches its ack, and a command
\* its reply, only with the outcome that goes with it.  A call has no broker to
\* settle with, and is told sent or deduped at its very end: an answer is final.
IInv ==
  /\ TypeOK
  /\ ReportedIsMailed
  /\ \A k \in Keys : ledger[k] = "sent" => mails[k] > 0
  /\ \A t \in Tasks :
       /\ pc[t] = "confirm" => mails[KeyOf[t]] > 0
       /\ outcome[t] \in {"delivered", "deduped"} => mails[KeyOf[t]] > 0
       /\ pc[t] = "reply" => t \in SagaCommands /\ outcome[t] # "none"
       /\ pc[t] = "drop" => Form[t] # "valid"
       /\ pc[t] = "ack" /\ t \in EmailCommands => outcome[t] \in {"delivered", "deduped"}
       /\ t \in Calls => pc[t] \notin {"ack", "drop", "requeue"}
       /\ t \in Calls /\ outcome[t] \in {"delivered", "deduped"} => pc[t] = "done"

\* Keys somebody was told are done.
Reported ==
  {KeyOf[r.command] : r \in {r \in replies : r.type = "sent"}}
    \cup {KeyOf[t] : t \in {t \in EmailCommands \ queued : Form[t] = "valid"}}
    \cup {KeyOf[t] : t \in {t \in Calls : outcome[t] \in {"delivered", "deduped"}}}

\* The tasks that have won key k and not yet mailed it.
Attempting(k) == {t \in Tasks : pc[t] = "send" /\ KeyOf[t] = k}

Ledger == INSTANCE NotificationLedger WITH
  attempts <- [k \in Keys |-> Cardinality(Attempting(k))],
  recorded <- {k \in Keys : ledger[k] = "sent"},
  reported <- Reported

\* The service implements NotificationLedger whatever interleaves, fails or
\* crashes: once the row of a key is confirmed (store.Confirm) no attempt to mail
\* it starts again, and no record or report is ever made before the mail or
\* withdrawn after it.
ImplementsLedger == Ledger!Spec

\* A goroutine mails a key again only after a failed call or a crash: redelivery
\* by itself sends nothing twice, and a crash costs one more mail per goroutine.
DuplicatesPaid ==
  \A k \in Keys : mails[k] <= Cardinality(Ways(k)) * (1 + faults)

\* The goroutines that can mail key k with no further fault: one that has won the
\* key, and, while the row is not confirmed, one that has not mailed it yet.
Fresh(k) ==
  {w \in Ways(k) :
     \/ \E t \in w : KeyOf[t] = k /\ pc[t] = "send"
     \/ ledger[k] # "sent" /\ \A t \in w : KeyOf[t] = k => pc[t] \notin {"confirm", "done"}}

\* A goroutine has one task in hand; only calls end.
OneAtATime ==
  /\ \A t, u \in Tasks :
       Way(t) = Way(u) /\ pc[t] # "idle" /\ pc[u] # "idle" => t = u
  /\ \A t \in Commands : pc[t] # "done"

\* The mails of key k sent, and those to come without a further fault, are paid for.
Paid(k) == mails[k] + Cardinality(Fresh(k)) <= Cardinality(Ways(k)) * (1 + faults)

\* The inductive invariant behind DuplicatesPaid.
PaidInv == OneAtATime /\ \A k \in Keys : Paid(k)

\* Every command of the queues is settled for good once calls stop failing; all of
\* them are queued at the start and settle is the only way out.
CommandsSettle == <>(queued = {})
=============================================================================
