------------------------- MODULE MCSagaOrchestrator -------------------------
EXTENDS SagaOrchestrator, FiniteSetsExt

\* Bound: the first saga is followed through every fault; once there are more,
\* nothing fails, no command is requeued, and one reply is in the queue at a time.
\* It cuts only arrivals, faults and replies, of which no fairness is assumed, so
\* no behaviour is cut short of what must happen.
OneOrCalm ==
  \/ \A s \in Sagas \ {1} : pc[s] = "init"
  \/ /\ faults = 0
     /\ MapThenSumSet(LAMBDA r : replies[r], Replies) <= 1
     /\ \A r \in Replies : replies[r] > 0 => r.saga \notin commands
=============================================================================
