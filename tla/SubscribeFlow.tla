---------------------------- MODULE SubscribeFlow ----------------------------
(***************************************************************************)
(* A subscription from the POST to the click on the emailed link: the      *)
(* subscriptions table and its service composed with the saga that each    *)
(* Subscribe call hands its row to.  The saga is taken at the level of     *)
(* SagaLifecycle, which SagaOrchestrator implements; its Undo and the      *)
(* cancelling of the row are one step, and so are the answer of            *)
(* StartAndWait and that of Subscribe.                                     *)
(***************************************************************************)
EXTENDS SubscriptionService

CONSTANT Returned  \* the ends of StartAndWait that are explored

VARIABLES
  sagaState,  \* saga_instances.state of the saga of each Subscribe call
  dispatched, \* its send-confirmation command left for the notifier
  undone,     \* its Cancel ran
  answer,     \* what StartAndWait returned
  emailed     \* tokens that were mailed to their subscriber

Saga == INSTANCE SagaLifecycle WITH Sagas <- Requests, state <- sagaState

ASSUME ReturnedAssumption == Returned \subseteq Saga!Answers \ {"none"}

sagaVars == <<sagaState, dispatched, undone, answer>>
serviceVars == <<callVars, rowVars, click>>
vars == <<serviceVars, sagaVars, emailed>>

TypeOK ==
  /\ ServiceTypeOK
  /\ Saga!TypeOK
  /\ emailed \in SUBSET Requests

Init ==
  /\ ServiceInit
  /\ Saga!Init
  /\ emailed = {}

-----------------------------------------------------------------------------
\* Subscribe up to the hand-off.
Reserving(r) ==
  /\ Reject(r) \/ Reserve(r) \/ UpdateToken(r) \/ Upsert(r) \/ Insert(r) \/ Abort(r)
  /\ UNCHANGED <<sagaVars, emailed>>

\* The saga's own progress; only a call that waits in StartAndWait begins one.
SagaProgress(r) ==
  /\ \/ pc[r] = "saga" /\ Saga!Begin(r)
     \/ Saga!Dispatch(r) \/ Saga!Claim(r) \/ Saga!Fail(r)
  /\ UNCHANGED <<serviceVars, emailed>>

\* The participant mails the confirmation link of the command's token ...
Email(r) ==
  /\ r \in dispatched
  /\ emailed' = emailed \cup {r}
  /\ UNCHANGED <<serviceVars, sagaVars>>

\* ... and only then reports confirmation-sent, which completes the saga.
Complete(r) ==
  /\ r \in emailed
  /\ Saga!Complete(r)
  /\ UNCHANGED <<serviceVars, emailed>>

\* Mutant: the compensation runs without having won the claim.
UndoUnclaimed(r) ==
  /\ undone' = undone \cup {r}
  /\ CancelRow(r)
  /\ UNCHANGED <<sagaState, dispatched, answer, emailed>>

\* The compensation: Cancel on the row the saga's data names.
Undo(r) ==
  /\ Saga!Undo(r)
  /\ CancelRow(r)
  /\ UNCHANGED emailed

\* StartAndWait returns and Subscribe with it, or the process dies.
Return(r, a) ==
  /\ Saga!Answer(r, a)
  /\ Goto(r, "saga", "done")
  /\ UNCHANGED <<pairOf, rowVars, seen, rowOf, code, click, emailed>>

\* A user follows a link of a mail they received.
Click(c) ==
  /\ (\E t \in emailed : ReadToken(c, t)) \/ WriteStatus(c) \/ AbortClick(c)
  /\ UNCHANGED <<sagaVars, emailed>>

Next ==
  \/ \E r \in Requests :
       Reserving(r) \/ SagaProgress(r) \/ Email(r) \/ Complete(r) \/ Undo(r)
  \/ \E r \in Requests, a \in Returned : Return(r, a)
  \/ \E c \in Clicks : Click(c)

Spec == Init /\ [][Next]_vars

-----------------------------------------------------------------------------
\* The two calls read the same row with the same token.
SawSame(q, r) == seen[q].row # NoRow /\ seen[q] = seen[r]

\* Calls that share the row of r.
Siblings(r) == {q \in Requests \ {r} : rowOf[q] = rowOf[r]}

\* An Unsubscribe call found row x.
UserLeft(x) == \E c \in Clicks : click[c].kind = "unsubscribe" /\ click[c].row = x

\* No (email, repository) pair ever has two live rows, whatever Subscribe,
\* Confirm, Unsubscribe and compensation calls overlap (idx on subscriptions).
AtMostOneLive ==
  \A x, y \in Requests :
    Live(x) /\ Live(y) /\ pairOf[x] = pairOf[y] => x = y

\* refreshPendingSubscription: of the Subscribe calls that found the same
\* pending row with the same token, at most one goes on to the saga and mails a
\* link; the others answer 409.
RefreshSingleWinner ==
  \A q, r \in Requests :
    SawSame(q, r) /\ rowOf[q] # NoRow /\ rowOf[r] # NoRow => q = r

\* Double opt-in: a row is active only if a token issued for this very row was
\* mailed, so nobody is subscribed without having been able to follow a link.
DoubleOptIn ==
  \A x \in Requests :
    status[x] = "active" => \E r \in emailed : rowOf[r] = x

\* A Subscribe call answered 200 whose row no other call refreshed and no user
\* unsubscribed leaves the row live: neither a late compensation nor the
\* reaper takes it away.
OkRowStays ==
  \A r \in Requests :
    answer[r] = "ok" /\ Siblings(r) = {} /\ ~UserLeft(rowOf[r]) => Live(rowOf[r])

\* A mailed link that still names its row (no later call refreshed the token)
\* and whose saga was not undone resolves to that row alone, and the row is live,
\* unless its user left or another saga took the shared row away: GetByToken
\* neither answers 404 nor finds somebody else's row.
LinkWorks ==
  \A r \in emailed :
    LET x == rowOf[r] IN
    token[x] = r /\ r \notin undone /\ Siblings(r) \cap undone = {} /\ ~UserLeft(x)
      => GetByToken(r) = {x} /\ Live(x)

-----------------------------------------------------------------------------
\* A call has its row from the moment it is handed to the saga, and the row exists.
CallAgrees(r) ==
  /\ pc[r] \in {"init", "refresh", "upsert", "insert"} => rowOf[r] = NoRow
  /\ pc[r] \in {"init", "upsert", "insert"} => seen[r].row = NoRow
  /\ pc[r] = "refresh" => seen[r].row # NoRow
  /\ pc[r] = "saga" \/ sagaState[r] # "none" \/ answer[r] # "none" => rowOf[r] # NoRow
  /\ rowOf[r] # NoRow => status[rowOf[r]] # "none"

\* What a call read: a row, and a token that some call had put there before.  Once
\* the call has replaced that token it is gone for good, since a call writes no
\* token but its own, and writes it once.
SeenAgrees(r) ==
  seen[r].row # NoRow =>
    /\ seen[r].token # NoRow
    /\ rowOf[seen[r].token] = seen[r].row
    /\ rowOf[r] # NoRow => /\ rowOf[r] = seen[r].row
                          /\ token[seen[r].row] # seen[r].token

\* A row was inserted by its own call and carries the token of a call that was
\* handed the row; it is live unless its user left or a saga undid it.
RowAgrees(x) ==
  /\ status[x] = "none" => token[x] = x
  /\ status[x] # "none" =>
       /\ rowOf[x] = x
       /\ rowOf[token[x]] = x
       /\ Live(x) \/ UserLeft(x) \/ \E q \in undone : rowOf[q] = x

\* A saga mails what it dispatched, and is not both completed and undone.
SagaAgrees(r) ==
  /\ r \in dispatched => sagaState[r] # "none"
  /\ r \in emailed => r \in dispatched
  /\ sagaState[r] = "completed" => r \notin undone
  /\ answer[r] = "ok" => sagaState[r] = "completed"

\* A click that is about to write has found its row through a token mailed for it.
ClickAgrees(c) ==
  /\ click[c].step = "init" => click[c].row = NoRow
  /\ click[c].step = "write" =>
       /\ click[c].row # NoRow
       /\ status[click[c].row] # "none"
       /\ \E r \in emailed : rowOf[r] = click[c].row

\* The inductive invariant: the safety properties above follow from it.
IInv ==
  /\ TypeOK
  /\ AtMostOneLive /\ RefreshSingleWinner /\ DoubleOptIn
  /\ \A r \in Requests : CallAgrees(r) /\ SeenAgrees(r) /\ RowAgrees(r) /\ SagaAgrees(r)
  /\ \A c \in Clicks : ClickAgrees(c)

-----------------------------------------------------------------------------
\* orchestrator.go says compensation undoes "the local pending row": no
\* compensation changes a row its user has already confirmed.
CompensatesPendingOnly ==
  [][\A r \in Requests :
       Undo(r) => status[rowOf[r]] # "active"]_vars

\* ADR 0008: the status moves pending -> active -> unsubscribed only, so an
\* unsubscribed row stays unsubscribed.
StatusMachine ==
  [][\A x \in Requests :
       status[x] = "unsubscribed" => status'[x] = "unsubscribed"]_vars
==============================================================================
