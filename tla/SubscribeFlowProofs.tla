------------------------- MODULE SubscribeFlowProofs -------------------------
(***************************************************************************)
(* For every number of Subscribe calls, clicks and (email, repository)     *)
(* pairs: the safety properties of the subscriptions table and of the      *)
(* links that were mailed.  The inductive invariant IInv is defined in     *)
(* SubscribeFlow.                                                          *)
(***************************************************************************)
EXTENDS SubscribeFlow, TLAPS

USE NoRowAssumption, ReturnedAssumption
    DEF Statuses, Kinds, Saga!States, Saga!Answers, callVars, rowVars, serviceVars, sagaVars

\* The table is empty and nothing was mailed at the start.
LEMMA InitInv == Init => IInv
<1> SUFFICES ASSUME Init PROVE IInv
  OBVIOUS
<1> USE DEF Init, ServiceInit, Saga!Init
<1>1. TypeOK
  BY DEF TypeOK, ServiceTypeOK, Saga!TypeOK
<1>2. AtMostOneLive /\ RefreshSingleWinner /\ DoubleOptIn
  BY DEF AtMostOneLive, RefreshSingleWinner, SawSame, DoubleOptIn, Live
<1>3. ASSUME NEW r \in Requests
      PROVE  CallAgrees(r) /\ SeenAgrees(r) /\ RowAgrees(r) /\ SagaAgrees(r)
  BY DEF CallAgrees, SeenAgrees, RowAgrees, SagaAgrees
<1>4. ASSUME NEW c \in Clicks PROVE ClickAgrees(c)
  BY DEF ClickAgrees
<1> QED
  BY <1>1, <1>2, <1>3, <1>4 DEF IInv

-----------------------------------------------------------------------------
\* ClickTo changes the step, the row and the answer of one click, and nothing else.
LEMMA ClickMoves ==
  ASSUME ServiceTypeOK, NEW c \in Clicks, NEW step \in {"init", "write", "done"},
         NEW x \in Requests \cup {NoRow}, NEW a \in {"none", "ok", "notfound", "error"},
         ClickTo(c, step, x, a)
  PROVE  /\ click' \in [Clicks -> [kind : Kinds, step : {"init", "write", "done"},
                                  row : Requests \cup {NoRow},
                                  answer : {"none", "ok", "notfound", "error"}]]
         /\ click'[c].kind = click[c].kind /\ click'[c].step = step /\ click'[c].row = x
         /\ \A d \in Clicks : d # c => click'[d] = click[d]
<1> DEFINE R == [kind : Kinds, step : {"init", "write", "done"}, row : Requests \cup {NoRow},
                 answer : {"none", "ok", "notfound", "error"}]
           new == [click[c] EXCEPT !.step = step, !.row = x, !.answer = a]
<1>1. click \in [Clicks -> R] /\ click' = [click EXCEPT ![c] = new]
  BY DEF ServiceTypeOK, ClickTo
<1>2. click[c] \in R
  BY <1>1
<1>3. new \in R /\ new.kind = click[c].kind /\ new.step = step /\ new.row = x
  BY <1>2
<1> HIDE DEF R, new
<1>4. click' \in [Clicks -> R] /\ click'[c] = new /\ \A d \in Clicks : d # c => click'[d] = click[d]
  BY <1>1, <1>3
<1> QED
  BY <1>3, <1>4 DEF R

\* The same without the types.
LEMMA ClickGoes ==
  ASSUME ServiceTypeOK, NEW c \in Clicks, NEW step \in {"init", "write", "done"},
         NEW x \in Requests \cup {NoRow}, NEW a \in {"none", "ok", "notfound", "error"},
         ClickTo(c, step, x, a)
  PROVE  /\ click'[c].kind = click[c].kind /\ click'[c].step = step /\ click'[c].row = x
         /\ \A d \in Clicks : d # c => click'[d] = click[d]
BY ClickMoves

\* The last of them, with the row that it found.
LEMMA ClickEnds ==
  ASSUME ServiceTypeOK, NEW c \in Clicks, NEW x \in Requests,
         NEW a \in {"none", "ok", "notfound", "error"}, ClickTo(c, "done", x, a)
  PROVE  /\ click'[c].kind = click[c].kind /\ click'[c].step = "done" /\ click'[c].row = x
         /\ \A d \in Clicks : d # c => click'[d] = click[d]
<1> DEFINE step == "done"
<1>1. step \in {"init", "write", "done"} /\ x \in Requests \cup {NoRow} /\ ClickTo(c, step, x, a)
  OBVIOUS
<1> HIDE DEF step
<1>2. /\ click'[c].kind = click[c].kind /\ click'[c].step = step /\ click'[c].row = x
      /\ \A d \in Clicks : d # c => click'[d] = click[d]
  BY <1>1, ClickGoes
<1> QED
  BY <1>2, Zenon DEF step

\* What GetByEmailAndRepo found is noted with its token.
LEMMA SeenMoves ==
  ASSUME ServiceTypeOK, NEW r \in Requests, NEW x \in Requests,
         seen' = [seen EXCEPT ![r] = [row |-> x, token |-> token[x]]]
  PROVE  /\ seen' \in [Requests -> [row : Requests \cup {NoRow}, token : Requests \cup {NoRow}]]
         /\ seen'[r].row = x /\ seen'[r].token = token[x]
         /\ \A q \in Requests : q # r => seen'[q] = seen[q]
<1> DEFINE new == [row |-> x, token |-> token[x]]
<1>1. /\ new \in [row : Requests \cup {NoRow}, token : Requests \cup {NoRow}]
      /\ new.row = x /\ new.token = token[x]
  BY DEF ServiceTypeOK
<1> HIDE DEF new
<1> QED
  BY <1>1 DEF ServiceTypeOK, new

\* What a call saw is a row and a token, or nothing.
LEMMA SeenTyped ==
  ASSUME ServiceTypeOK, NEW r \in Requests
  PROVE  seen[r].row \in Requests \cup {NoRow} /\ seen[r].token \in Requests \cup {NoRow}
<1>1. seen[r] \in [row : Requests \cup {NoRow}, token : Requests \cup {NoRow}]
  BY DEF ServiceTypeOK
<1> QED
  BY <1>1

\* A click has a kind, and has found a row or not.
LEMMA ClickTyped ==
  ASSUME ServiceTypeOK, NEW c \in Clicks
  PROVE  click[c].kind \in Kinds /\ click[c].row \in Requests \cup {NoRow}
<1>1. click[c] \in [kind : Kinds, step : {"init", "write", "done"}, row : Requests \cup {NoRow},
                    answer : {"none", "ok", "notfound", "error"}]
  BY DEF ServiceTypeOK
<1> QED
  BY <1>1

\* The types of all variables are kept by every step.
LEMMA TypeKept == TypeOK /\ [Next]_vars => TypeOK'
<1> SUFFICES ASSUME TypeOK, [Next]_vars PROVE TypeOK'
  OBVIOUS
<1> USE DEF TypeOK, ServiceTypeOK, Saga!TypeOK, Goto, Answer
<1>1. ASSUME NEW r \in Requests, Reserving(r) PROVE TypeOK'
  <2>1. CASE Reject(r)
    BY <1>1, <2>1 DEF Reserving, Reject
  <2>2. CASE Reserve(r)
    <3>1. seen' \in [Requests -> [row : Requests \cup {NoRow}, token : Requests \cup {NoRow}]]
      BY <2>2, SeenMoves DEF Reserve, LiveRows
    <3>2. /\ UNCHANGED <<pairOf, rowVars, rowOf, click, sagaVars, emailed>>
          /\ \/ pc' = [pc EXCEPT ![r] = "done"] /\ code' = [code EXCEPT ![r] = "conflict"]
             \/ pc' = [pc EXCEPT ![r] = "refresh"] /\ UNCHANGED code
             \/ pc' = [pc EXCEPT ![r] = "upsert"] /\ UNCHANGED code
      BY <1>1, <2>2 DEF Reserving, Reserve
    <3>3. pc' \in [Requests -> {"init", "refresh", "upsert", "insert", "saga", "done"}]
      BY <3>2
    <3>4. code' \in [Requests -> {"none", "rejected", "conflict", "error"}]
      BY <3>2
    <3>5. Saga!TypeOK' /\ (emailed \in SUBSET Requests)'
      BY <3>2
    <3>6. ServiceTypeOK'
      BY <3>1, <3>2, <3>3, <3>4
    <3> HIDE DEF ServiceTypeOK, Saga!TypeOK
    <3> QED
      BY <3>5, <3>6, Zenon
  <2>3. CASE UpdateToken(r)
    <3>1. rowOf' \in [Requests -> Requests \cup {NoRow}] /\ token' \in [Requests -> Requests]
      <4>1. seen[r].row \in Requests \cup {NoRow}
        BY SeenTyped
      <4>2. rowOf' = rowOf \/ rowOf' = [rowOf EXCEPT ![r] = seen[r].row]
        BY <2>3 DEF UpdateToken
      <4>3. token' = token \/ token' = [token EXCEPT ![seen[r].row] = r]
        BY <2>3 DEF UpdateToken
      <4> QED
        BY <4>1, <4>2, <4>3
    <3>2. /\ UNCHANGED <<pairOf, tracked, status, seen, click, sagaVars, emailed>>
          /\ \/ pc' = [pc EXCEPT ![r] = "saga"] /\ UNCHANGED code
             \/ pc' = [pc EXCEPT ![r] = "done"] /\ code' = [code EXCEPT ![r] = "conflict"]
      BY <1>1, <2>3 DEF Reserving, UpdateToken
    <3> QED
      BY <3>1, <3>2
  <2>4. CASE Upsert(r)
    BY <1>1, <2>4 DEF Reserving, Upsert
  <2>5. CASE Insert(r)
    <3>1. /\ UNCHANGED <<pairOf, tracked, token, seen, click, sagaVars, emailed>>
          /\ \/ /\ pc' = [pc EXCEPT ![r] = "saga"] /\ status' = [status EXCEPT ![r] = "pending"]
                /\ rowOf' = [rowOf EXCEPT ![r] = r] /\ UNCHANGED code
             \/ /\ pc' = [pc EXCEPT ![r] = "done"] /\ code' = [code EXCEPT ![r] = "conflict"]
                /\ UNCHANGED <<status, rowOf>>
      BY <1>1, <2>5 DEF Reserving, Insert
    <3>2. status' \in [Requests -> Statuses]
      BY <3>1
    <3>3. rowOf' \in [Requests -> Requests \cup {NoRow}]
      BY <3>1
    <3>4. pc' \in [Requests -> {"init", "refresh", "upsert", "insert", "saga", "done"}]
      BY <3>1
    <3>5. code' \in [Requests -> {"none", "rejected", "conflict", "error"}]
      BY <3>1
    <3>6. Saga!TypeOK' /\ (emailed \in SUBSET Requests)'
      BY <3>1
    <3>7. ServiceTypeOK'
      BY <3>1, <3>2, <3>3, <3>4, <3>5
    <3> HIDE DEF ServiceTypeOK, Saga!TypeOK
    <3> QED
      BY <3>6, <3>7, Zenon
  <2>6. CASE Abort(r)
    BY <1>1, <2>6 DEF Reserving, Abort
  <2> QED
    BY <1>1, <2>1, <2>2, <2>3, <2>4, <2>5, <2>6 DEF Reserving
<1>2. ASSUME NEW r \in Requests, SagaProgress(r) \/ Email(r) \/ Complete(r) PROVE TypeOK'
  BY <1>2 DEF SagaProgress, Email, Complete, Saga!Begin, Saga!Dispatch, Saga!Claim,
              Saga!Fail, Saga!Complete, Saga!Move
<1>3. ASSUME NEW r \in Requests, Undo(r) PROVE TypeOK'
  BY <1>3 DEF Undo, Saga!Undo, CancelRow, UpdateStatus
<1>4. ASSUME NEW r \in Requests, NEW a \in Returned, Return(r, a) PROVE TypeOK'
  BY <1>4 DEF Return, Saga!Answer
<1>5. ASSUME NEW c \in Clicks, Click(c) PROVE TypeOK'
  <2>1. CASE \E t \in emailed : ReadToken(c, t)
    BY <1>5, <2>1, ClickMoves DEF Click, ReadToken, GetByToken
  <2>2. CASE WriteStatus(c)
    BY <1>5, <2>2, ClickMoves, ClickTyped DEF Click, WriteStatus, UpdateStatus
  <2>3. CASE AbortClick(c)
    BY <1>5, <2>3, ClickMoves, ClickTyped DEF Click, AbortClick
  <2> QED
    BY <1>5, <2>1, <2>2, <2>3 DEF Click
<1>6. CASE UNCHANGED vars
  BY <1>6 DEF vars
<1> QED
  BY <1>1, <1>2, <1>3, <1>4, <1>5, <1>6 DEF Next

-----------------------------------------------------------------------------
\* A call that moves on, or is answered, without touching the table.
LEMMA QuietInv ==
  ASSUME IInv, TypeOK', NEW r \in Requests, NEW to \in {"upsert", "insert", "done"},
         pc[r] \in {"init", "refresh", "upsert", "insert"},
         to # "done" => pc[r] # "refresh",
         pc' = [pc EXCEPT ![r] = to],
         UNCHANGED <<pairOf, status, token, seen, rowOf, click, sagaVars, emailed>>
  PROVE  IInv'
<1>1. AtMostOneLive' /\ RefreshSingleWinner' /\ DoubleOptIn'
  BY DEF IInv, AtMostOneLive, Live, RefreshSingleWinner, SawSame, DoubleOptIn
<1>2. ASSUME NEW q \in Requests PROVE CallAgrees(q)'
  BY DEF IInv, TypeOK, ServiceTypeOK, CallAgrees
<1>3. ASSUME NEW q \in Requests PROVE SeenAgrees(q)' /\ RowAgrees(q)' /\ SagaAgrees(q)'
  BY DEF IInv, SeenAgrees, RowAgrees, SagaAgrees, Live, UserLeft
<1>4. ASSUME NEW c \in Clicks PROVE ClickAgrees(c)'
  BY DEF IInv, ClickAgrees
<1> QED
  BY <1>1, <1>2, <1>3, <1>4 DEF IInv

\* GetByEmailAndRepo found a pending row: its token belongs to a call that was
\* handed this row.
LEMMA SeeInv ==
  ASSUME IInv, TypeOK', NEW r \in Requests, NEW x \in Requests,
         pc[r] = "init", status[x] # "none",
         pc' = [pc EXCEPT ![r] = "refresh"],
         seen' = [seen EXCEPT ![r] = [row |-> x, token |-> token[x]]],
         UNCHANGED <<pairOf, status, token, rowOf, click, sagaVars, emailed>>
  PROVE  IInv'
<1>1. /\ seen'[r].row = x /\ seen'[r].token = token[x]
      /\ \A q \in Requests : q # r => seen'[q] = seen[q]
      /\ rowOf[r] = NoRow
  <2>1. ServiceTypeOK /\ CallAgrees(r)
    BY DEF IInv, TypeOK
  <2>2. rowOf[r] = NoRow
    BY <2>1 DEF CallAgrees
  <2> QED
    BY <2>1, <2>2, SeenMoves
<1>2. AtMostOneLive' /\ DoubleOptIn'
  BY DEF IInv, AtMostOneLive, Live, DoubleOptIn
<1>3. RefreshSingleWinner'
  BY <1>1 DEF IInv, RefreshSingleWinner, SawSame
<1>4. ASSUME NEW q \in Requests PROVE CallAgrees(q)'
  BY <1>1 DEF IInv, TypeOK, ServiceTypeOK, CallAgrees
<1>5. ASSUME NEW q \in Requests PROVE SeenAgrees(q)'
  BY <1>1 DEF IInv, TypeOK, ServiceTypeOK, SeenAgrees, RowAgrees
<1>6. ASSUME NEW q \in Requests PROVE RowAgrees(q)' /\ SagaAgrees(q)'
  BY DEF IInv, RowAgrees, SagaAgrees, Live, UserLeft
<1>7. ASSUME NEW c \in Clicks PROVE ClickAgrees(c)'
  BY DEF IInv, ClickAgrees
<1> QED
  BY <1>2, <1>3, <1>4, <1>5, <1>6, <1>7 DEF IInv

\* The compare-and-set won: no call that had seen the same token won before, and
\* the new token was never in the table.
LEMMA WinInv ==
  ASSUME IInv, TypeOK', NEW r \in Requests, NEW x, x = seen[r].row,
         pc[r] = "refresh", token[x] = seen[r].token,
         pc' = [pc EXCEPT ![r] = "saga"],
         token' = [token EXCEPT ![x] = r],
         rowOf' = [rowOf EXCEPT ![r] = x],
         UNCHANGED <<pairOf, status, seen, click, sagaVars, emailed>>
  PROVE  IInv'
<1>1. /\ x \in Requests /\ rowOf[r] = NoRow
      /\ rowOf'[r] = x /\ \A q \in Requests : q # r => rowOf'[q] = rowOf[q]
      /\ token'[x] = r /\ \A y \in Requests : y # x => token'[y] = token[y]
  BY SeenTyped DEF IInv, TypeOK, ServiceTypeOK, CallAgrees
<1>2. /\ seen[r].token \in Requests /\ rowOf[seen[r].token] = x /\ status[x] # "none"
  BY <1>1, SeenTyped DEF IInv, TypeOK, CallAgrees, SeenAgrees
<1>3. AtMostOneLive' /\ DoubleOptIn'
  BY <1>1 DEF IInv, TypeOK, AtMostOneLive, Live, DoubleOptIn
<1>4. RefreshSingleWinner'
  BY <1>1 DEF IInv, RefreshSingleWinner, SawSame, SeenAgrees
<1>5. ASSUME NEW q \in Requests PROVE CallAgrees(q)'
  BY <1>1, <1>2 DEF IInv, TypeOK, ServiceTypeOK, CallAgrees
<1>6. ASSUME NEW q \in Requests PROVE SeenAgrees(q)'
  BY <1>1, <1>2, SeenTyped DEF IInv, TypeOK, SeenAgrees
<1>7. ASSUME NEW q \in Requests PROVE RowAgrees(q)'
  BY <1>1, <1>2 DEF IInv, TypeOK, ServiceTypeOK, Saga!TypeOK, RowAgrees, Live, UserLeft
<1>8. ASSUME NEW q \in Requests PROVE SagaAgrees(q)'
  BY DEF IInv, SagaAgrees
<1>9. ASSUME NEW c \in Clicks PROVE ClickAgrees(c)'
  BY <1>1, ClickTyped DEF IInv, TypeOK, ClickAgrees
<1> QED
  BY <1>3, <1>4, <1>5, <1>6, <1>7, <1>8, <1>9 DEF IInv

\* subs.Create: the row is new, its pair has no other live row.
LEMMA CreateInv ==
  ASSUME IInv, TypeOK', NEW r \in Requests,
         pc[r] = "insert", LiveRows(pairOf[r]) = {},
         pc' = [pc EXCEPT ![r] = "saga"],
         status' = [status EXCEPT ![r] = "pending"],
         rowOf' = [rowOf EXCEPT ![r] = r],
         UNCHANGED <<pairOf, token, seen, click, sagaVars, emailed>>
  PROVE  IInv'
<1>1. /\ rowOf[r] = NoRow /\ seen[r].row = NoRow
      /\ rowOf'[r] = r /\ \A q \in Requests : q # r => rowOf'[q] = rowOf[q]
      /\ status'[r] = "pending" /\ \A y \in Requests : y # r => status'[y] = status[y]
  BY DEF IInv, TypeOK, ServiceTypeOK, CallAgrees
<1>2. status[r] = "none" /\ token[r] = r
  BY <1>1 DEF IInv, RowAgrees
<1>3. AtMostOneLive'
  BY <1>1 DEF IInv, AtMostOneLive, Live, LiveRows
<1>4. DoubleOptIn' /\ RefreshSingleWinner'
  <2>1. DoubleOptIn'
    BY <1>1 DEF IInv, TypeOK, DoubleOptIn
  <2>2. RefreshSingleWinner'
    BY <1>1 DEF IInv, RefreshSingleWinner, SawSame
  <2> QED
    BY <2>1, <2>2
<1>5. ASSUME NEW q \in Requests PROVE CallAgrees(q)'
  <2>1. CallAgrees(q) /\ ServiceTypeOK
    BY DEF IInv, TypeOK
  <2> QED
    BY <1>1, <2>1 DEF ServiceTypeOK, CallAgrees
<1>6. ASSUME NEW q \in Requests PROVE SeenAgrees(q)'
  BY <1>1, SeenTyped DEF IInv, TypeOK, SeenAgrees
<1>7. ASSUME NEW q \in Requests PROVE RowAgrees(q)'
  BY <1>1, <1>2 DEF IInv, TypeOK, ServiceTypeOK, Saga!TypeOK, RowAgrees, Live, UserLeft
<1>8. ASSUME NEW q \in Requests PROVE SagaAgrees(q)'
  BY DEF IInv, SagaAgrees
<1>9. ASSUME NEW c \in Clicks PROVE ClickAgrees(c)'
  BY <1>1, ClickTyped DEF IInv, TypeOK, ClickAgrees
<1> QED
  BY <1>3, <1>4, <1>5, <1>6, <1>7, <1>8, <1>9 DEF IInv

\* Every step of Subscribe before the hand-off.
LEMMA ReservingInv ==
  ASSUME IInv, TypeOK', NEW r \in Requests, Reserving(r)
  PROVE  IInv'
<1> USE DEF Goto, Answer
<1>1. CASE Reject(r) \/ Upsert(r) \/ Abort(r)
  BY <1>1, QuietInv DEF Reserving, Reject, Upsert, Abort
<1>2. CASE Reserve(r)
  <2>1. CASE \E x \in LiveRows(pairOf[r]) :
               /\ status[x] = "pending"
               /\ Goto(r, "init", "refresh")
               /\ seen' = [seen EXCEPT ![r] = [row |-> x, token |-> token[x]]]
    BY <1>2, <2>1, SeeInv DEF Reserving, Reserve, LiveRows
  <2>2. CASE (Answer(r, "init", "conflict") \/ Goto(r, "init", "upsert")) /\ UNCHANGED seen
    BY <1>2, <2>2, QuietInv DEF Reserving, Reserve
  <2> QED
    BY <1>2, <2>1, <2>2 DEF Reserve
<1>3. CASE UpdateToken(r)
  BY <1>3, WinInv, QuietInv DEF Reserving, UpdateToken
<1>4. CASE Insert(r)
  BY <1>4, CreateInv, QuietInv DEF Reserving, Insert
<1> QED
  BY <1>1, <1>2, <1>3, <1>4 DEF Reserving

-----------------------------------------------------------------------------
\* The saga goes forward, mails its link, completes or is answered; the table and
\* the clicks stay as they are.
LEMMA SagaInv ==
  ASSUME IInv, TypeOK', NEW r \in Requests,
         \/ SagaProgress(r) \/ Email(r) \/ Complete(r)
         \/ \E a \in Returned : Return(r, a)
  PROVE  IInv'
<1> USE DEF SagaProgress, Email, Complete, Return, Goto, Saga!Begin, Saga!Dispatch,
            Saga!Claim, Saga!Fail, Saga!Complete, Saga!Move, Saga!Answer
<1>1. /\ UNCHANGED <<pairOf, rowVars, seen, rowOf, code, click, undone>>
      /\ emailed \subseteq emailed' /\ dispatched \subseteq dispatched'
      /\ pc' = pc \/ (pc[r] = "saga" /\ pc' = [pc EXCEPT ![r] = "done"])
  OBVIOUS
<1>2. AtMostOneLive' /\ RefreshSingleWinner' /\ DoubleOptIn'
  BY <1>1 DEF IInv, AtMostOneLive, Live, RefreshSingleWinner, SawSame, DoubleOptIn
<1>3. ASSUME NEW q \in Requests PROVE CallAgrees(q)'
  <2>1. CallAgrees(q) /\ ServiceTypeOK /\ Saga!TypeOK
    BY DEF IInv, TypeOK
  <2>2. /\ sagaState'[q] # sagaState[q] => sagaState[q] # "none" \/ pc[q] = "saga"
        /\ answer'[q] # answer[q] => pc[q] = "saga"
    BY <2>1 DEF Saga!TypeOK
  <2>3. pc'[q] = pc[q] \/ (pc[q] = "saga" /\ pc'[q] = "done")
    BY <1>1, <2>1 DEF ServiceTypeOK
  <2>4. UNCHANGED <<seen, rowOf, status>>
    BY <1>1
  <2> QED
    BY <2>1, <2>2, <2>3, <2>4 DEF CallAgrees
<1>4. ASSUME NEW q \in Requests PROVE SeenAgrees(q)' /\ RowAgrees(q)'
  <2>1. SeenAgrees(q) /\ RowAgrees(q)
    BY DEF IInv
  <2>2. UNCHANGED <<status, token, seen, rowOf, click, undone>>
    BY <1>1 DEF rowVars
  <2> QED
    BY <2>1, <2>2 DEF SeenAgrees, RowAgrees, Live, UserLeft
<1>5. ASSUME NEW q \in Requests PROVE SagaAgrees(q)'
  BY DEF IInv, TypeOK, Saga!TypeOK, SagaAgrees
<1>6. ASSUME NEW c \in Clicks PROVE ClickAgrees(c)'
  BY <1>1 DEF IInv, ClickAgrees
<1> QED
  BY <1>2, <1>3, <1>4, <1>5, <1>6 DEF IInv

\* The compensation takes the row of a saga away that will not complete.
LEMMA UndoInv ==
  ASSUME IInv, TypeOK', NEW r \in Requests, Undo(r)
  PROVE  IInv'
<1> DEFINE x == rowOf[r]
<1>1. /\ x \in Requests /\ status[x] # "none"
      /\ status'[x] = "unsubscribed" /\ \A y \in Requests : y # x => status'[y] = status[y]
      /\ undone' = undone \cup {r}
      /\ UNCHANGED <<callVars, tracked, token, click, sagaState, dispatched, answer, emailed>>
  <2>1. /\ CallAgrees(r) /\ status \in [Requests -> Statuses]
        /\ rowOf[r] \in Requests \cup {NoRow}
    BY DEF IInv, TypeOK, ServiceTypeOK
  <2>2. x \in Requests /\ status[x] # "none"
    BY <2>1 DEF Undo, CancelRow, CallAgrees
  <2>3. /\ status' = [status EXCEPT ![x] = "unsubscribed"]
        /\ undone' = undone \cup {r}
        /\ UNCHANGED <<callVars, tracked, token, click, sagaState, dispatched, answer, emailed>>
    BY DEF Undo, Saga!Undo, CancelRow, UpdateStatus
  <2> HIDE DEF x
  <2> QED
    BY <2>1, <2>2, <2>3
<1>2. sagaState[r] # "completed"
  BY DEF Undo, Saga!Undo
<1>3. AtMostOneLive' /\ RefreshSingleWinner' /\ DoubleOptIn'
  BY <1>1 DEF IInv, AtMostOneLive, Live, RefreshSingleWinner, SawSame, DoubleOptIn
<1>4. ASSUME NEW q \in Requests PROVE CallAgrees(q)' /\ SeenAgrees(q)'
  <2>1. CallAgrees(q) /\ SeenAgrees(q) /\ rowOf[q] \in Requests \cup {NoRow}
    BY DEF IInv, TypeOK, ServiceTypeOK
  <2>2. CallAgrees(q)'
    BY <1>1, <2>1 DEF CallAgrees
  <2>3. SeenAgrees(q)'
    BY <1>1, <2>1 DEF SeenAgrees
  <2> QED
    BY <2>2, <2>3
<1>5. ASSUME NEW q \in Requests PROVE RowAgrees(q)'
  BY <1>1 DEF IInv, RowAgrees, Live, UserLeft
<1>6. ASSUME NEW q \in Requests PROVE SagaAgrees(q)'
  BY <1>1, <1>2 DEF IInv, SagaAgrees
<1>7. ASSUME NEW c \in Clicks PROVE ClickAgrees(c)'
  BY <1>1, ClickTyped DEF IInv, TypeOK, ClickAgrees
<1> QED
  BY <1>3, <1>4, <1>5, <1>6, <1>7 DEF IInv

-----------------------------------------------------------------------------
\* A click that found a row keeps it.
LEMMA UserLeftStays ==
  ASSUME IInv, TypeOK', NEW c \in Clicks, NEW step \in {"write", "done"}, NEW y,
         y \in Requests \cup {NoRow}, NEW a \in {"none", "ok", "notfound", "error"},
         ClickTo(c, step, y, a), click[c].step = "init" \/ y = click[c].row,
         NEW x \in Requests, UserLeft(x)
  PROVE  UserLeft(x)'
<1>1. /\ click'[c].kind = click[c].kind /\ click'[c].row = y
      /\ \A d \in Clicks : d # c => click'[d] = click[d]
  <2>1. ServiceTypeOK /\ step \in {"init", "write", "done"}
    BY DEF IInv, TypeOK
  <2> QED
    BY <2>1, ClickGoes
<1>2. click[c].step = "init" => click[c].row = NoRow
  BY DEF IInv, ClickAgrees
<1> QED
  BY <1>1, <1>2 DEF UserLeft

\* GetByToken: the token was mailed, and belongs to a call that was handed the row.
LEMMA ReadInv ==
  ASSUME IInv, TypeOK', NEW c \in Clicks, NEW t \in emailed, ReadToken(c, t),
         UNCHANGED <<sagaVars, emailed>>
  PROVE  IInv'
<1>0. ServiceTypeOK /\ AtMostOneLive /\ RefreshSingleWinner /\ DoubleOptIn
  BY DEF IInv, TypeOK
<1>1. PICK x \in Requests \cup {NoRow}, step \in {"write", "done"},
           a \in {"none", "ok", "notfound", "error"} :
             /\ ClickTo(c, step, x, a)
             /\ step = "write" => x \in GetByToken(t)
  BY DEF ReadToken, GetByToken
<1>2. click[c].step = "init" /\ UNCHANGED <<callVars, rowVars>>
  BY DEF ReadToken
<1>3. /\ click'[c].step = step /\ click'[c].row = x
      /\ \A d \in Clicks : d # c => click'[d] = click[d]
  <2>1. ServiceTypeOK /\ step \in {"init", "write", "done"} /\ ClickTo(c, step, x, a)
    BY <1>0, <1>1
  <2> QED
    BY <2>1, ClickGoes
<1>4. AtMostOneLive' /\ RefreshSingleWinner' /\ DoubleOptIn'
  BY <1>0, <1>2 DEF AtMostOneLive, Live, RefreshSingleWinner, SawSame, DoubleOptIn
<1>5. ASSUME NEW q \in Requests PROVE CallAgrees(q)' /\ SeenAgrees(q)' /\ SagaAgrees(q)'
  BY <1>2 DEF IInv, CallAgrees, SeenAgrees, SagaAgrees
<1>6. ASSUME NEW q \in Requests PROVE RowAgrees(q)'
  <2>1. UserLeft(q) => UserLeft(q)'
    BY <1>1, <1>2, UserLeftStays
  <2>2. RowAgrees(q)
    BY DEF IInv
  <2> QED
    BY <1>2, <2>1, <2>2 DEF RowAgrees, Live
<1>7. ASSUME NEW d \in Clicks PROVE ClickAgrees(d)'
  <2>1. CASE d # c
    BY <1>2, <1>3, <2>1 DEF IInv, ClickAgrees
  <2>2. CASE d = c
    <3>1. ASSUME step = "write"
          PROVE  x \in Requests /\ status[x] # "none" /\ token[x] = t /\ rowOf[t] = x
      BY <1>1, <3>1 DEF IInv, RowAgrees, GetByToken
    <3>2. UNCHANGED <<status, rowOf, emailed>>
      BY <1>2
    <3> QED
      BY <1>3, <2>2, <3>1, <3>2 DEF ClickAgrees
  <2> QED
    BY <2>1, <2>2
<1> QED
  BY <1>4, <1>5, <1>6, <1>7 DEF IInv

\* UpdateStatus: nothing becomes live next to a live row, and active only through a
\* mailed link.
LEMMA WriteInv ==
  ASSUME IInv, TypeOK', NEW c \in Clicks, WriteStatus(c) \/ AbortClick(c),
         UNCHANGED <<sagaVars, emailed>>
  PROVE  IInv'
<1>0. /\ ServiceTypeOK /\ AtMostOneLive /\ RefreshSingleWinner /\ DoubleOptIn
      /\ ClickAgrees(c) /\ UNCHANGED <<callVars, tracked, token>>
      /\ click[c].step = "write" /\ click[c].kind \in Kinds
  BY ClickTyped DEF WriteStatus, AbortClick, IInv, TypeOK
<1>1. PICK x \in Requests : /\ x = click[c].row
                            /\ status[x] # "none"
                            /\ \E r \in emailed : rowOf[r] = x
  BY <1>0, ClickTyped DEF ClickAgrees
<1>2. PICK a \in {"none", "ok", "notfound", "error"} : ClickTo(c, "done", x, a)
  BY <1>1 DEF WriteStatus, AbortClick
<1>3. /\ click'[c].kind = click[c].kind /\ click'[c].step = "done" /\ click'[c].row = x
      /\ \A d \in Clicks : d # c => click'[d] = click[d]
  <2>1. ServiceTypeOK
    BY <1>0
  <2> QED
    BY <1>2, <2>1, ClickEnds
<1>4. /\ \A y \in Requests : y # x => status'[y] = status[y]
      /\ \/ status'[x] = status[x]
         \/ status'[x] = "active" /\ LiveRows(pairOf[x]) \subseteq {x}
         \/ status'[x] = "unsubscribed" /\ click[c].kind = "unsubscribe"
  <2>1. \/ UNCHANGED status
        \/ \E s \in {"active", "unsubscribed"} :
             /\ status' = [status EXCEPT ![x] = s]
             /\ s = "active" => LiveRows(pairOf[x]) \subseteq {x}
             /\ s = "unsubscribed" => click[c].kind = "unsubscribe"
    BY <1>0, <1>1 DEF WriteStatus, AbortClick, UpdateStatus, CanUpdateStatus
  <2>2. status \in [Requests -> Statuses]
    BY <1>0 DEF ServiceTypeOK
  <2> QED
    BY <2>1, <2>2
<1>5. AtMostOneLive'
  <2>1. ASSUME NEW y \in Requests, Live(y)', y # x, pairOf[y] = pairOf[x],
               status'[x] = "active", LiveRows(pairOf[x]) \subseteq {x}
        PROVE  FALSE
    <3>1. Live(y)
      BY <1>4, <2>1 DEF Live
    <3> QED
      BY <2>1, <3>1 DEF LiveRows
  <2>2. \A y \in Requests : y # x => (Live(y)' <=> Live(y))
    BY <1>4 DEF Live
  <2>3. Live(x)' => Live(x) \/ (status'[x] = "active" /\ LiveRows(pairOf[x]) \subseteq {x})
    BY <1>4 DEF Live
  <2>4. UNCHANGED pairOf
    BY <1>0
  <2> HIDE DEF callVars
  <2> SUFFICES ASSUME NEW y \in Requests, NEW z \in Requests,
                      Live(y)', Live(z)', pairOf[y] = pairOf[z]
               PROVE  y = z
    BY <2>4 DEF AtMostOneLive
  <2>5. CASE Live(x) \/ ~Live(x)'
    BY <1>0, <2>2, <2>5 DEF AtMostOneLive
  <2>6. CASE Live(x)' /\ ~Live(x)
    BY <1>0, <2>1, <2>2, <2>3, <2>6 DEF AtMostOneLive
  <2> QED
    BY <2>5, <2>6
<1>6. RefreshSingleWinner' /\ DoubleOptIn'
  BY <1>0, <1>1, <1>4 DEF RefreshSingleWinner, SawSame, DoubleOptIn
<1>7. ASSUME NEW q \in Requests PROVE CallAgrees(q)' /\ SeenAgrees(q)' /\ SagaAgrees(q)'
  <2>1. CallAgrees(q) /\ SeenAgrees(q) /\ SagaAgrees(q)
    BY DEF IInv
  <2>2. rowOf[q] \in Requests \cup {NoRow}
    BY <1>0 DEF ServiceTypeOK
  <2>3. CallAgrees(q)'
    BY <1>0, <1>1, <1>4, <2>1, <2>2 DEF CallAgrees
  <2>4. SeenAgrees(q)' /\ SagaAgrees(q)'
    BY <1>0, <2>1 DEF SeenAgrees, SagaAgrees
  <2> QED
    BY <2>3, <2>4
<1>8. ASSUME NEW q \in Requests PROVE RowAgrees(q)'
  <2>0. RowAgrees(q)
    BY DEF IInv
  <2>1. UserLeft(q) => UserLeft(q)'
    BY <1>1, <1>2, UserLeftStays
  <2>2. q = x /\ click[c].kind = "unsubscribe" => UserLeft(q)'
    BY <1>3 DEF UserLeft
  <2>3. CASE q # x
    BY <1>0, <1>4, <2>0, <2>1, <2>3 DEF RowAgrees, Live
  <2>4. CASE q = x
    BY <1>0, <1>1, <1>4, <2>0, <2>1, <2>2, <2>4 DEF RowAgrees, Live
  <2> QED
    BY <2>3, <2>4
<1>9. ASSUME NEW d \in Clicks PROVE ClickAgrees(d)'
  <2>1. ClickAgrees(d) /\ click[d].row \in Requests \cup {NoRow}
    BY <1>0, ClickTyped DEF IInv
  <2>2. CASE d = c
    BY <1>3, <2>2 DEF ClickAgrees
  <2>3. CASE d # c
    <3>1. click'[d] = click[d]
      BY <1>3, <2>3
    <3>2. \A y \in Requests : status[y] # "none" => status'[y] # "none"
      BY <1>1, <1>4
    <3>3. UNCHANGED <<rowOf, emailed>>
      BY <1>0
    <3> QED
      BY <2>1, <3>1, <3>2, <3>3 DEF ClickAgrees
  <2> QED
    BY <2>2, <2>3
<1> QED
  BY <1>5, <1>6, <1>7, <1>8, <1>9 DEF IInv

-----------------------------------------------------------------------------
\* Every step of the flow keeps the inductive invariant.
LEMMA StepInv == IInv /\ [Next]_vars => IInv'
<1> SUFFICES ASSUME IInv, [Next]_vars PROVE IInv'
  OBVIOUS
<1>1. TypeOK'
  BY TypeKept DEF IInv
<1>2. CASE UNCHANGED vars
  <2>1. AtMostOneLive' /\ RefreshSingleWinner' /\ DoubleOptIn'
    BY <1>2 DEF vars, IInv, AtMostOneLive, Live, RefreshSingleWinner, SawSame, DoubleOptIn
  <2>2. ASSUME NEW q \in Requests
        PROVE  CallAgrees(q)' /\ SeenAgrees(q)' /\ RowAgrees(q)' /\ SagaAgrees(q)'
    <3>1. CallAgrees(q) /\ SeenAgrees(q) /\ RowAgrees(q) /\ SagaAgrees(q)
      BY DEF IInv
    <3>2. CallAgrees(q)' /\ SeenAgrees(q)' /\ SagaAgrees(q)'
      BY <1>2, <3>1 DEF vars, CallAgrees, SeenAgrees, SagaAgrees
    <3>3. RowAgrees(q)'
      BY <1>2, <3>1 DEF vars, RowAgrees, Live, UserLeft
    <3> QED
      BY <3>2, <3>3
  <2>3. ASSUME NEW c \in Clicks PROVE ClickAgrees(c)'
    BY <1>2 DEF vars, IInv, ClickAgrees
  <2> QED
    BY <1>1, <2>1, <2>2, <2>3 DEF IInv
<1>3. CASE Next
  BY <1>1, <1>3, ReservingInv, SagaInv, UndoInv, ReadInv, WriteInv DEF Next, Click
<1> QED
  BY <1>2, <1>3

\* The strengthened invariant holds in every state of the flow.
THEOREM Inductive == Spec => []IInv
BY InitInv, StepInv, PTL DEF Spec

\* The partial unique index and the service's writes never leave an (email,
\* repository) pair with two live rows.
THEOREM AtMostOneLiveAlways == Spec => []AtMostOneLive
<1>1. IInv => AtMostOneLive
  BY DEF IInv
<1> QED
  BY <1>1, Inductive, PTL

\* refreshPendingSubscription's compare-and-set has one winner for each token it
\* replaces, among any number of concurrent Subscribe calls.
THEOREM RefreshSingleWinnerAlways == Spec => []RefreshSingleWinner
<1>1. IInv => RefreshSingleWinner
  BY DEF IInv
<1> QED
  BY <1>1, Inductive, PTL

\* Nobody is subscribed without a link that was mailed for this very row.
THEOREM DoubleOptInAlways == Spec => []DoubleOptIn
<1>1. IInv => DoubleOptIn
  BY DEF IInv
<1> QED
  BY <1>1, Inductive, PTL

\* The row of a Subscribe call that was answered 200 is not taken away by a
\* compensation, late or not: only its user or a call that refreshed it can.
THEOREM OkRowStaysAlways == Spec => []OkRowStays
<1>1. IInv => OkRowStays
  <2> SUFFICES ASSUME IInv, NEW r \in Requests, answer[r] = "ok", Siblings(r) = {},
                      ~UserLeft(rowOf[r])
               PROVE  Live(rowOf[r])
    BY DEF OkRowStays
  <2>1. rowOf[r] \in Requests /\ status[rowOf[r]] # "none" /\ r \notin undone
    <3>1. rowOf[r] \in Requests \cup {NoRow} /\ CallAgrees(r) /\ SagaAgrees(r)
      BY DEF IInv, TypeOK, ServiceTypeOK
    <3> QED
      BY <3>1 DEF CallAgrees, SagaAgrees
  <2>2. ASSUME NEW q \in undone, rowOf[q] = rowOf[r] PROVE FALSE
    BY <2>1, <2>2 DEF IInv, TypeOK, Saga!TypeOK, Siblings
  <2> QED
    BY <2>1, <2>2 DEF IInv, RowAgrees
<1> QED
  BY <1>1, Inductive, PTL

\* A mailed link resolves to its own row, and a live one, until its saga, a
\* sibling's saga or its user takes the row away.
THEOREM LinkWorksAlways == Spec => []LinkWorks
<1>1. IInv => LinkWorks
  <2> SUFFICES ASSUME IInv, NEW r \in emailed, token[rowOf[r]] = r, r \notin undone,
                      Siblings(r) \cap undone = {}, ~UserLeft(rowOf[r])
               PROVE  GetByToken(r) = {rowOf[r]} /\ Live(rowOf[r])
    BY DEF LinkWorks
  <2>1. r \in Requests /\ rowOf[r] \in Requests /\ status[rowOf[r]] # "none"
    <3>1. r \in Requests
      BY DEF IInv, TypeOK
    <3>2. rowOf[r] \in Requests \cup {NoRow} /\ CallAgrees(r) /\ SagaAgrees(r)
      BY <3>1 DEF IInv, TypeOK, ServiceTypeOK
    <3> QED
      BY <3>1, <3>2 DEF CallAgrees, SagaAgrees
  <2>2. ASSUME NEW q \in undone, rowOf[q] = rowOf[r] PROVE FALSE
    BY <2>1, <2>2 DEF IInv, TypeOK, Saga!TypeOK, Siblings
  <2>3. Live(rowOf[r])
    <3>1. RowAgrees(rowOf[r])
      BY <2>1 DEF IInv
    <3> QED
      BY <2>1, <2>2, <3>1 DEF RowAgrees
  <2>4. GetByToken(r) = {rowOf[r]}
    BY <2>1 DEF IInv, RowAgrees, GetByToken
  <2> QED
    BY <2>3, <2>4
<1> QED
  BY <1>1, Inductive, PTL
==============================================================================
