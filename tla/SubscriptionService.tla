------------------------- MODULE SubscriptionService -------------------------
(***************************************************************************)
(* internal/subscription: the subscriptions table and the service          *)
(* operations that change it (Subscribe up to its hand-off to the saga,    *)
(* Confirm, Unsubscribe, and the saga's Cancel), each database call a step *)
(* of its own.                                                             *)
(*                                                                         *)
(* A Subscribe call generates at most one token and inserts at most one    *)
(* row, so the call names both: row r is the row call r inserted, token r  *)
(* the token call r generated.                                             *)
(***************************************************************************)
CONSTANTS
  Requests,   \* Subscribe calls
  Clicks,     \* Confirm and Unsubscribe calls
  Pairs,      \* (email, repository) pairs
  NoRow       \* a call that has no row (yet)

ASSUME NoRowAssumption == NoRow \notin Requests

VARIABLES
  pairOf,     \* the pair a Subscribe call is about
  tracked,    \* pairs whose repository is in tracked_repositories
  status,     \* subscriptions.status of each row, "none" when not inserted
  token,      \* subscriptions.token of each row
  pc,         \* where each Subscribe call is
  seen,       \* the pending row a Subscribe call found, and its token then
  rowOf,      \* the row a Subscribe call handed to the saga
  code,       \* how a Subscribe call that never reached the saga was answered
  click       \* each Confirm or Unsubscribe call: kind, step, row, answer

rowVars == <<tracked, status, token>>
callVars == <<pairOf, pc, seen, rowOf, code>>

Statuses == {"none", "pending", "active", "unsubscribed"}
Kinds == {"confirm", "unsubscribe"}

ServiceTypeOK ==
  /\ pairOf \in [Requests -> Pairs]
  /\ tracked \in SUBSET Pairs
  /\ status \in [Requests -> Statuses]
  /\ token \in [Requests -> Requests]
  /\ pc \in [Requests -> {"init", "refresh", "upsert", "insert", "saga", "done"}]
  /\ seen \in [Requests -> [row : Requests \cup {NoRow}, token : Requests \cup {NoRow}]]
  /\ rowOf \in [Requests -> Requests \cup {NoRow}]
  /\ code \in [Requests -> {"none", "rejected", "conflict", "error"}]
  /\ click \in [Clicks -> [kind : Kinds, step : {"init", "write", "done"},
                           row : Requests \cup {NoRow},
                           answer : {"none", "ok", "notfound", "error"}]]

ServiceInit ==
  /\ pairOf \in [Requests -> Pairs]
  /\ tracked = {}
  /\ status = [r \in Requests |-> "none"]
  /\ token = [r \in Requests |-> r]
  /\ pc = [r \in Requests |-> "init"]
  /\ seen = [r \in Requests |-> [row |-> NoRow, token |-> NoRow]]
  /\ rowOf = [r \in Requests |-> NoRow]
  /\ code = [r \in Requests |-> "none"]
  /\ click \in [Clicks -> [kind : Kinds, step : {"init"}, row : {NoRow},
                           answer : {"none"}]]

-----------------------------------------------------------------------------
\* What the partial unique index ranges over.
Live(x) == status[x] \in {"pending", "active"}
LiveRows(p) == {x \in Requests : Live(x) /\ pairOf[x] = p}

Goto(r, from, to) ==
  /\ pc[r] = from
  /\ pc' = [pc EXCEPT ![r] = to]

Answer(r, from, c) ==
  /\ Goto(r, from, "done")
  /\ code' = [code EXCEPT ![r] = c]

\* Invalid input, or GitHub says no (or nothing): nothing is written.
Reject(r) ==
  /\ Answer(r, "init", "rejected")
  /\ UNCHANGED <<pairOf, rowVars, seen, rowOf, click>>

\* reserveSubscription: GetByEmailAndRepo and the switch on its result.
Reserve(r) ==
  /\ \/ /\ \E x \in LiveRows(pairOf[r]) : status[x] = "active"
        /\ Answer(r, "init", "conflict")
        /\ UNCHANGED seen
     \/ \E x \in LiveRows(pairOf[r]) :
          /\ status[x] = "pending"
          /\ Goto(r, "init", "refresh")
          /\ seen' = [seen EXCEPT ![r] = [row |-> x, token |-> token[x]]]
          /\ UNCHANGED code
     \/ /\ LiveRows(pairOf[r]) = {}
        /\ Goto(r, "init", "upsert")
        /\ UNCHANGED <<seen, code>>
  /\ UNCHANGED <<pairOf, rowVars, rowOf, click>>

\* Mutant: the token is overwritten without comparing the old one.
UpdateTokenBlindly(r) ==
  /\ Goto(r, "refresh", "saga")
  /\ token' = [token EXCEPT ![seen[r].row] = r]
  /\ rowOf' = [rowOf EXCEPT ![r] = seen[r].row]
  /\ UNCHANGED <<pairOf, tracked, status, seen, code, click>>

\* Mutant: the refresh stores the token it has read, not the new one.
UpdateTokenKeepsOld(r) ==
  /\ Goto(r, "refresh", "saga")
  /\ token[seen[r].row] = seen[r].token
  /\ rowOf' = [rowOf EXCEPT ![r] = seen[r].row]
  /\ UNCHANGED <<pairOf, rowVars, seen, code, click>>

\* refreshPendingSubscription: UpdateToken is a compare-and-set on the token.
UpdateToken(r) ==
  LET x == seen[r].row IN
  /\ pc[r] = "refresh"
  /\ IF token[x] = seen[r].token
     THEN /\ Goto(r, "refresh", "saga")
          /\ token' = [token EXCEPT ![x] = r]
          /\ rowOf' = [rowOf EXCEPT ![r] = x]
          /\ UNCHANGED code
     ELSE /\ Answer(r, "refresh", "conflict")
          /\ UNCHANGED <<token, rowOf>>
  /\ UNCHANGED <<pairOf, tracked, status, seen, click>>

\* createPendingSubscription: repos.Upsert ...
Upsert(r) ==
  /\ Goto(r, "upsert", "insert")
  /\ tracked' = tracked \cup {pairOf[r]}
  /\ UNCHANGED <<pairOf, status, token, seen, rowOf, code, click>>

\* Mutant: no unique index stands behind the insert.
InsertUnchecked(r) ==
  /\ Goto(r, "insert", "saga")
  /\ status' = [status EXCEPT ![r] = "pending"]
  /\ rowOf' = [rowOf EXCEPT ![r] = r]
  /\ UNCHANGED <<pairOf, tracked, token, seen, code, click>>

\* Mutant: the row is created active.
InsertActive(r) ==
  /\ LiveRows(pairOf[r]) = {}
  /\ Goto(r, "insert", "saga")
  /\ status' = [status EXCEPT ![r] = "active"]
  /\ rowOf' = [rowOf EXCEPT ![r] = r]
  /\ UNCHANGED <<pairOf, tracked, token, seen, code, click>>

\* ... then subs.Create, which the unique index refuses next to a live row.
Insert(r) ==
  /\ IF LiveRows(pairOf[r]) = {}
     THEN /\ Goto(r, "insert", "saga")
          /\ status' = [status EXCEPT ![r] = "pending"]
          /\ rowOf' = [rowOf EXCEPT ![r] = r]
          /\ UNCHANGED code
     ELSE /\ Answer(r, "insert", "conflict")
          /\ UNCHANGED <<status, rowOf>>
  /\ UNCHANGED <<pairOf, tracked, token, seen, click>>

\* A call that fails or a process that dies between two steps.
Abort(r) ==
  /\ \E from \in {"refresh", "upsert", "insert"} : Answer(r, from, "error")
  /\ UNCHANGED <<pairOf, rowVars, seen, rowOf, click>>

-----------------------------------------------------------------------------
\* UpdateStatus(id, s); a row may not become live next to another live row.
CanUpdateStatus(x, s) == s = "unsubscribed" \/ LiveRows(pairOf[x]) \subseteq {x}
UpdateStatus(x, s) == status' = [status EXCEPT ![x] = s]

\* Mutant: the row is found by its pair, not by its id.
CancelPair(r) ==
  /\ rowOf[r] # NoRow
  /\ status' = [x \in Requests |-> IF x \in LiveRows(pairOf[r]) THEN "unsubscribed"
                                   ELSE status[x]]
  /\ UNCHANGED <<callVars, tracked, token, click>>

\* SagaCanceller.Cancel: whatever the row's status is now.
CancelRow(r) ==
  /\ rowOf[r] # NoRow
  /\ UpdateStatus(rowOf[r], "unsubscribed")
  /\ UNCHANGED <<callVars, tracked, token, click>>

ClickTo(c, step, x, answer) ==
  click' = [click EXCEPT ![c] = [@ EXCEPT !.step = step, !.row = x, !.answer = answer]]

\* Repo.GetByToken: the row with this token, if there is one.
GetByToken(t) == {x \in Requests : status[x] # "none" /\ token[x] = t}

\* Confirm and Unsubscribe: GetByToken and the decision on the status it read.
ReadToken(c, t) ==
  /\ click[c].step = "init"
  /\ \/ /\ GetByToken(t) = {}
        /\ ClickTo(c, "done", NoRow, "notfound")
     \/ \E x \in GetByToken(t) :
          /\ \/ /\ click[c].kind = "confirm" /\ status[x] = "active"
                /\ ClickTo(c, "done", x, "ok")
             \/ /\ click[c].kind = "confirm" /\ status[x] = "unsubscribed"
                /\ ClickTo(c, "done", x, "notfound")
             \/ /\ click[c].kind = "unsubscribe" /\ status[x] = "unsubscribed"
                /\ ClickTo(c, "done", x, "ok")
             \/ /\ status[x] = "pending" \/ (click[c].kind = "unsubscribe" /\ Live(x))
                /\ ClickTo(c, "write", x, "none")
  /\ UNCHANGED <<callVars, rowVars>>

\* ... and the UpdateStatus that follows, by row id alone.
WriteStatus(c) ==
  LET x == click[c].row
      s == IF click[c].kind = "confirm" THEN "active" ELSE "unsubscribed"
  IN
  /\ click[c].step = "write"
  /\ IF CanUpdateStatus(x, s)
     THEN UpdateStatus(x, s) /\ ClickTo(c, "done", x, "ok")
     ELSE UNCHANGED status /\ ClickTo(c, "done", x, "error")
  /\ UNCHANGED <<callVars, tracked, token>>

\* The write fails, or the process dies before it.
AbortClick(c) ==
  /\ click[c].step = "write"
  /\ ClickTo(c, "done", click[c].row, "error")
  /\ UNCHANGED <<callVars, rowVars>>
==============================================================================
