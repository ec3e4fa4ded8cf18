----------------------------- MODULE MCRequestPath -----------------------------
(***************************************************************************)
(* What a request to the monolith passes: the limiter, the loggers it      *)
(* writes to, and the subscribe handler on its clock.  They share no       *)
(* state, so a behaviour is one of the three.                              *)
(***************************************************************************)
EXTENDS RateLimiter

CONSTANTS
  Messages, First, Thereafter, Interval, MaxWait, LogTime, MaxRecords,
  WriteTimeout, ShutdownTimeout, ClientTimeout, MaxRetries, MaxResetWait, MaxBackoffAttempt,
  DialTimeout, PublishTimeout, SagaTimeout, Lengths, Stalls, RetryAfters, Resets, MaxRequests,
  Parts  \* the parts a run is about

VARIABLES
  which,  \* the part whose behaviour this is
  lnow, windows, logged, written,
  pc, rnow, timer, attempt, stalled, exitAt, exists, cached, answer, heard, served

Sampler == INSTANCE LogSampler WITH
  Keys <- Messages, MaxTime <- LogTime, now <- lnow

Subscribe == INSTANCE SubscribeRequest WITH now <- rnow

ASSUME PathAssumption == Sampler!SamplerAssumption /\ Subscribe!RequestAssumption

limiter == <<now, visitors, admitted, refused, retryAt>>
sampler == <<lnow, windows, logged, written>>
subscribe == <<pc, rnow, timer, attempt, stalled, exitAt, exists, cached, answer, heard, served>>
allVars == <<which, limiter, sampler, subscribe>>

\* A reset in the past, at once, soon, and beyond the cap.
MCResets == {-30, 0, 1, 500}

PathInit ==
  /\ which \in Parts
  /\ Init
  /\ Sampler!Init
  /\ Subscribe!Init

PathNext ==
  \/ which = "limiter" /\ Next /\ UNCHANGED <<which, sampler, subscribe>>
  \/ which = "sampler" /\ Sampler!Next /\ UNCHANGED <<which, limiter, subscribe>>
  \/ which = "subscribe" /\ Subscribe!Next /\ UNCHANGED <<which, limiter, sampler>>

PathSpec == PathInit /\ [][PathNext]_allVars

-----------------------------------------------------------------------------
\* The inductive invariants of the parts, the types of their variables included.
PartsInv == IInv /\ Sampler!IInv /\ Subscribe!IInv

\* Both fixed windows bound what they let through in any stretch of one window's
\* length: requests of a client and records of a message.
WindowsBound == BurstBound /\ Sampler!FloodThinned

\* Neither window turns anything away too early: a client is refused, and a
\* record dropped, only after the limit was used up within one window's length.
TurnedAwayWasOver == RefusedWasOver /\ Sampler!DroppedWasFlood

\* The timeouts of GitHub, broker and saga bound the whole subscribe handler,
\* apart from how long Retry-After and the AMQP calls without a timeout take.
HandlerBounded == Subscribe!HandlerBounded

\* A client hears "not found" only of a repository GitHub does not have.
NotFoundIsTrue == Subscribe!NotFoundIsTrue

\* The outcome a subscribe request waited for reaches its client.
RealAnswer == Subscribe!RealAnswer
================================================================================
