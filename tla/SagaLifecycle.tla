---------------------------- MODULE SagaLifecycle ----------------------------
(***************************************************************************)
(* What the subscribe saga promises, without saying how.  Each saga has a  *)
(* durable state, a flag that says whether its confirmation command was    *)
(* dispatched, one that says whether its subscription was cancelled (the   *)
(* compensation took effect), and the answer its caller was given.         *)
(*                                                                         *)
(* The promise is a single winner: a saga is either completed or undone,   *)
(* never both; a dispatched saga is undone only after the claim that rules *)
(* out its completion, and failed only after the undo; and the caller      *)
(* hears "ok" only about a saga that is durably completed.                 *)
(***************************************************************************)
CONSTANT Sagas

VARIABLES state, dispatched, undone, answer

vars == <<state, dispatched, undone, answer>>

States == {"none", "awaiting", "completed", "compensating", "failed"}
Answers == {"none", "ok", "failed", "timeout", "canceled", "error", "crashed"}

TypeOK ==
  /\ state \in [Sagas -> States]
  /\ dispatched \in SUBSET Sagas
  /\ undone \in SUBSET Sagas
  /\ answer \in [Sagas -> Answers]

Init ==
  /\ state = [s \in Sagas |-> "none"]
  /\ dispatched = {}
  /\ undone = {}
  /\ answer = [s \in Sagas |-> "none"]

Move(s, from, to) ==
  /\ state[s] = from
  /\ state' = [state EXCEPT ![s] = to]

Begin(s) ==
  /\ Move(s, "none", "awaiting")
  /\ UNCHANGED <<dispatched, undone, answer>>

\* The command leaves for the notifier.  A saga undone without a claim is over.
Dispatch(s) ==
  /\ state[s] # "none"
  /\ s \in undone => state[s] \in {"compensating", "failed"}
  /\ dispatched' = dispatched \cup {s}
  /\ UNCHANGED <<state, undone, answer>>

\* The confirmation was delivered.  An undone saga can no longer complete.
Complete(s) ==
  /\ s \in dispatched
  /\ s \notin undone
  /\ Move(s, "awaiting", "completed")
  /\ UNCHANGED <<dispatched, undone, answer>>

Claim(s) ==
  /\ Move(s, "awaiting", "compensating")
  /\ UNCHANGED <<dispatched, undone, answer>>

\* The subscription row is cancelled: after the claim, or by a caller that gives
\* up before any dispatch.
Undo(s) ==
  /\ \/ state[s] \in {"compensating", "failed"}
     \/ state[s] # "completed" /\ s \notin dispatched /\ answer[s] = "none"
  /\ undone' = undone \cup {s}
  /\ UNCHANGED <<state, dispatched, answer>>

Fail(s) ==
  /\ s \in undone
  /\ Move(s, "compensating", "failed")
  /\ UNCHANGED <<dispatched, undone, answer>>

\* The caller is answered once, and told "ok" only when the saga completed.
Answer(s, a) ==
  /\ answer[s] = "none"
  /\ a = "ok" => state[s] = "completed"
  /\ answer' = [answer EXCEPT ![s] = a]
  /\ UNCHANGED <<state, dispatched, undone>>

\* The process hosting the callers dies: the callers in flight, and only they,
\* lose their answer.
Crash ==
  /\ \E S \in SUBSET {s \in Sagas : answer[s] = "none"} :
       answer' = [s \in Sagas |-> IF s \in S THEN "crashed" ELSE answer[s]]
  /\ UNCHANGED <<state, dispatched, undone>>

Next ==
  \/ \E s \in Sagas :
       Begin(s) \/ Dispatch(s) \/ Complete(s) \/ Claim(s) \/ Undo(s) \/ Fail(s)
  \/ \E s \in Sagas, a \in Answers \ {"none"} : Answer(s, a)
  \/ Crash

Spec == Init /\ [][Next]_vars

-----------------------------------------------------------------------------
\* The single winner: a saga is never both completed and undone, nor completed
\* without a dispatch; one that was dispatched is undone only under the claim;
\* failed means undone; and "ok" means completed.
SingleWinner ==
  \A s \in Sagas :
    /\ state[s] = "completed" => s \in dispatched /\ s \notin undone
    /\ s \in dispatched /\ s \in undone => state[s] \in {"compensating", "failed"}
    /\ state[s] = "failed" => s \in undone
    /\ answer[s] = "ok" => state[s] = "completed"

\* The winner is final: completed and failed are never left, no compensation is
\* taken back, and no caller is answered twice.
WinnerIsFinal ==
  [][\A s \in Sagas :
       /\ state[s] \in {"completed", "failed"} => state'[s] = state[s]
       /\ s \in undone => s \in undone'
       /\ answer[s] # "none" => answer'[s] = answer[s]]_vars
==============================================================================
