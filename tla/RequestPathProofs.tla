-------------------------- MODULE RequestPathProofs --------------------------
(***************************************************************************)
(* For every setting of the limiter, of the sampler and of the timeouts,   *)
(* and every set of clients and messages: two windows' worth is the most   *)
(* that passes in the length of one, nothing is turned away before the     *)
(* limit was used up, Retry-After is honest, the timeouts bound the        *)
(* subscribe handler, and "not found" is true.  The inductive invariants   *)
(* are those of RateLimiter, LogSampler and SubscribeRequest.              *)
(***************************************************************************)
EXTENDS MCRequestPath, TLAPS

-----------------------------------------------------------------------------
(* The subscribe handler.                                                  *)

\* A wait between two attempts is a real one, and no longer than the longest.
LEMMA Waits ==
  /\ Subscribe!LongestWait \in Nat
  /\ \A h \in Subscribe!Headers, n \in Nat : Subscribe!NextWait(h, n) \in 1..Subscribe!LongestWait
<1> DEFINE All == RetryAfters \cup {MaxResetWait, 2 ^ MaxBackoffAttempt}
           backoff == 2 ^ MaxBackoffAttempt
<1> USE PathAssumption DEF Subscribe!RequestAssumption
<1>1. MaxBackoffAttempt \in Nat /\ backoff \in Nat /\ MaxResetWait \in Nat \ {0}
  BY DEF backoff
<1>2. PICK longest \in RetryAfters : \A d \in RetryAfters : d <= longest
  OBVIOUS
<1>3. \E m \in All : \A d \in All : m >= d
  <2>1. longest \in Int /\ RetryAfters \subseteq Int
    OBVIOUS
  <2> HIDE DEF backoff
  <2>2. All = RetryAfters \cup {MaxResetWait, backoff}
    BY DEF backoff
  <2> HIDE DEF All
  <2>3. CASE longest >= MaxResetWait /\ longest >= backoff
    BY <1>1, <1>2, <2>1, <2>2, <2>3
  <2>4. CASE MaxResetWait >= longest /\ MaxResetWait >= backoff
    BY <1>1, <1>2, <2>1, <2>2, <2>4
  <2>5. CASE backoff >= longest /\ backoff >= MaxResetWait
    BY <1>1, <1>2, <2>1, <2>2, <2>5
  <2> QED
    BY <1>1, <2>1, <2>3, <2>4, <2>5
<1>4. Subscribe!LongestWait \in All /\ \A d \in All : Subscribe!LongestWait >= d
  BY <1>3 DEF Subscribe!LongestWait, Subscribe!Max
<1>5. Subscribe!LongestWait \in Nat
  BY <1>1, <1>4
<1>6. ASSUME NEW h \in Subscribe!Headers, NEW n \in Nat
      PROVE  Subscribe!NextWait(h, n) \in 1..Subscribe!LongestWait
  <2>1. h.retryAfter \in RetryAfters /\ h.reset \in Int
    BY DEF Subscribe!Headers
  <2>2. CASE h.retryAfter > 0
    <3>1. h.retryAfter \in Int /\ Subscribe!LongestWait >= h.retryAfter
      BY <1>4, <2>1
    <3>2. Subscribe!NextWait(h, n) = h.retryAfter
      BY <2>2 DEF Subscribe!NextWait
    <3> QED
      BY <1>5, <2>2, <3>1, <3>2
  <2>3. CASE ~(h.retryAfter > 0) /\ h.reset > 0
    <3>1. Subscribe!Min({h.reset, MaxResetWait}) \in {h.reset, MaxResetWait}
          /\ Subscribe!Min({h.reset, MaxResetWait}) <= MaxResetWait
      BY <1>1, <2>1 DEF Subscribe!Min
    <3> QED
      BY <1>1, <1>4, <1>5, <2>1, <2>3, <3>1 DEF Subscribe!NextWait
  <2>4. CASE ~(h.retryAfter > 0) /\ ~(h.reset > 0)
    <3>1. Subscribe!Min({n, MaxBackoffAttempt}) \in 0..MaxBackoffAttempt
      BY <1>1 DEF Subscribe!Min
    <3>2. 2 ^ Subscribe!Min({n, MaxBackoffAttempt}) \in 1..backoff
      BY <3>1
    <3> QED
      BY <1>1, <1>4, <1>5, <2>4, <3>2 DEF Subscribe!NextWait
  <2> QED
    BY <2>2, <2>3, <2>4
<1> QED
  BY <1>5, <1>6

\* A later attempt ends later, by a call and a wait.
LEMMA Ends ==
  /\ \A n \in Nat : Subscribe!EndOf(n) \in Nat
  /\ \A n \in Nat : Subscribe!EndOf(n + 1) =
                      Subscribe!EndOf(n) + Subscribe!LongestWait + ClientTimeout
  /\ \A n \in 0..MaxRetries : Subscribe!EndOf(n) <= Subscribe!EndOf(MaxRetries)
  /\ Subscribe!EndOf(0) = ClientTimeout
<1> DEFINE W == Subscribe!LongestWait
           C == ClientTimeout
<1>1. W \in Nat /\ C \in Nat /\ MaxRetries \in Nat
  BY Waits, PathAssumption DEF Subscribe!RequestAssumption
<1> HIDE DEF W, C
<1>2. \A n \in Nat : Subscribe!EndOf(n) = (n + 1) * C + n * W
  BY DEF Subscribe!EndOf, W, C
<1>3. ASSUME NEW n \in Nat PROVE Subscribe!EndOf(n) \in Nat
  BY <1>1, <1>2
<1>4. ASSUME NEW n \in Nat PROVE Subscribe!EndOf(n + 1) = Subscribe!EndOf(n) + W + C
  BY <1>1, <1>2
<1>5. ASSUME NEW n \in 0..MaxRetries PROVE Subscribe!EndOf(n) <= Subscribe!EndOf(MaxRetries)
  <2>1. (n + 1) * C <= (MaxRetries + 1) * C /\ n * W <= MaxRetries * W
    BY <1>1
  <2> QED
    BY <1>1, <1>2, <2>1, SMTT(30)
<1>6. Subscribe!EndOf(0) = C
  BY <1>1, <1>2
<1> QED
  BY <1>3, <1>4, <1>5, <1>6 DEF W, C

LEMMA SubscribeInit == PathInit => Subscribe!IInv
<1> SUFFICES ASSUME PathInit PROVE Subscribe!IInv
  OBVIOUS
<1>1. Subscribe!Init
  BY DEF PathInit
<1>2. exists \in BOOLEAN
  BY <1>1 DEF Subscribe!Init
<1>3. MaxRetries \in Nat /\ MaxRequests \in Nat
  BY PathAssumption DEF Subscribe!RequestAssumption
<1>4. Subscribe!TypeOK
  BY <1>1, <1>2, <1>3 DEF Subscribe!Init, Subscribe!TypeOK, Subscribe!Answers, Subscribe!Never
<1>5. Subscribe!HandlerBounded
  <2>1. Subscribe!EndOf(MaxRetries) \in Nat
    BY <1>3, Ends
  <2> QED
    BY <1>1, <2>1, PathAssumption
       DEF Subscribe!Init, Subscribe!HandlerBounded, Subscribe!EndOf, Subscribe!RequestAssumption
<1> QED
  BY <1>1, <1>4, <1>5 DEF Subscribe!Init, Subscribe!IInv, Subscribe!NotFoundIsTrue, Subscribe!Running

\* The latest time at which the handler may still be running, the calls without a
\* timeout aside.
LastCall == Subscribe!EndOf(MaxRetries)
LastMoment == LastCall + DialTimeout + PublishTimeout + SagaTimeout

LEMMA Settings ==
  /\ {WriteTimeout, ShutdownTimeout, ClientTimeout, MaxRetries, DialTimeout, PublishTimeout,
      SagaTimeout, MaxRequests} \subseteq Nat
  /\ LastCall \in Nat /\ LastMoment \in Nat
  /\ stalled \in Stalls \cup {0} =>
       /\ stalled \in Nat
       /\ Subscribe!HandlerBounded <=>
            (pc = "wait" => timer > rnow) /\ rnow <= LastMoment + stalled
  /\ Lengths \subseteq Nat /\ Stalls \subseteq Nat
<1>1. /\ {WriteTimeout, ShutdownTimeout, ClientTimeout, MaxRetries, DialTimeout, PublishTimeout,
          SagaTimeout, MaxRequests} \subseteq Nat
      /\ Lengths \subseteq Nat /\ Stalls \subseteq Nat
  BY PathAssumption DEF Subscribe!RequestAssumption
<1>2. LastCall \in Nat
  BY <1>1, Ends DEF LastCall
<1>3. LastMoment \in Nat
  BY <1>1, <1>2 DEF LastMoment
<1>4. ASSUME stalled \in Stalls \cup {0}
      PROVE  /\ stalled \in Nat
             /\ Subscribe!HandlerBounded <=>
                  (pc = "wait" => timer > rnow) /\ rnow <= LastMoment + stalled
  <2>1. stalled \in Nat
    <3>1. Stalls \subseteq Nat
      BY <1>1
    <3> QED
      BY <1>4, <3>1
  <2>2. LastCall + DialTimeout + PublishTimeout + stalled + SagaTimeout = LastMoment + stalled
    BY <1>1, <1>2, <2>1 DEF LastMoment
  <2>3. Subscribe!HandlerBounded <=>
          /\ pc = "wait" => timer > rnow
          /\ rnow <= LastCall + DialTimeout + PublishTimeout + stalled + SagaTimeout
    BY Zenon DEF LastCall, Subscribe!EndOf, Subscribe!HandlerBounded
  <2> QED
    BY <2>1, <2>2, <2>3
<1> QED
  BY <1>1, <1>2, <1>3, <1>4

\* Where the handler is, and until when at the latest.
Deadline ==
  /\ pc = "call" => timer <= Subscribe!EndOf(attempt)
  /\ pc = "wait" => attempt < MaxRetries /\ timer <= Subscribe!EndOf(attempt) + Subscribe!LongestWait
  /\ pc = "reserve" => timer <= LastCall
  /\ pc \in {"cache", "call", "wait", "reserve"} => stalled = 0
  /\ pc = "publish" => timer <= LastCall + DialTimeout + PublishTimeout + stalled
  /\ pc = "await" => timer <= LastMoment + stalled

LEMMA InvParts ==
  Subscribe!IInv <=>
    /\ Subscribe!TypeOK
    /\ cached # "0" /\ Subscribe!NotFoundIsTrue
    /\ (pc = "wait" => timer > rnow) /\ rnow <= LastMoment + stalled
    /\ pc \notin {"idle", "done", "cut"} => rnow <= timer
    /\ pc = "cache" => rnow = 0 /\ timer = 0 /\ attempt = 0
    /\ Deadline
<1>1. ASSUME Subscribe!TypeOK PROVE stalled \in Stalls \cup {0}
  BY <1>1 DEF Subscribe!TypeOK
<1> QED
  BY <1>1, Settings DEF Subscribe!IInv, Subscribe!Running, Deadline, LastCall, LastMoment

\* A running handler moves on between the present and its timer, which does not go
\* beyond the last moment.
LEMMA TimerBound ==
  ASSUME Subscribe!IInv, pc \notin {"idle", "done", "cut"}
  PROVE  /\ rnow \in Nat /\ timer \in Nat /\ attempt \in 0..MaxRetries
         /\ rnow <= timer /\ timer <= LastMoment + stalled /\ stalled \in Nat
         /\ \A t \in Subscribe!Instants : t \in Nat /\ rnow <= t /\ t <= timer
<1>1. /\ rnow \in Nat /\ timer \in Nat /\ attempt \in 0..MaxRetries /\ rnow <= timer
      /\ pc \in {"cache", "call", "wait", "reserve", "publish", "await"}
      /\ Deadline /\ (pc = "cache" => timer = 0) /\ stalled \in Nat
  BY InvParts, Settings DEF Subscribe!TypeOK
<1>2. \A t \in Subscribe!Instants : t \in Nat /\ rnow <= t /\ t <= timer
  BY <1>1, Settings DEF Subscribe!Instants
<1>3. Subscribe!EndOf(attempt) \in Nat /\ Subscribe!EndOf(attempt) <= LastCall
  BY <1>1, Ends, Settings DEF LastCall
<1>4. pc = "wait" => Subscribe!EndOf(attempt) + Subscribe!LongestWait <= LastCall
  <2> SUFFICES ASSUME pc = "wait"
               PROVE  Subscribe!EndOf(attempt) + Subscribe!LongestWait <= LastCall
    OBVIOUS
  <2>1. attempt \in Nat /\ attempt + 1 \in 0..MaxRetries
    BY <1>1, Settings DEF Deadline
  <2>2. /\ Subscribe!EndOf(attempt + 1) <= LastCall
        /\ Subscribe!EndOf(attempt + 1) = Subscribe!EndOf(attempt) + Subscribe!LongestWait + ClientTimeout
    BY <2>1, Ends DEF LastCall
  <2> QED
    BY <1>3, <2>2, Waits, Settings
<1>5. timer <= LastMoment + stalled
  BY <1>1, <1>3, <1>4, Settings, Waits DEF Deadline, LastMoment
<1> QED
  BY <1>1, <1>2, <1>5

\* The handler answers: "not found" only of what GitHub does not have.
LEMMA AnswerInv ==
  ASSUME Subscribe!IInv, pc \notin {"idle", "done", "cut"},
         NEW res \in Subscribe!Answers, NEW t \in Nat, t <= timer, Subscribe!Answer(res, t),
         res = "notFound" => ~exists,
         cached' \in {cached, "1"}, UNCHANGED <<attempt, stalled, exitAt, exists, served>>
  PROVE  Subscribe!IInv'
<1>1. t <= LastMoment + stalled /\ stalled \in Nat
  BY TimerBound, Settings
<1>2. pc' = "done" /\ rnow' = t /\ timer' = timer /\ answer' = res /\ heard' \in {res, "none"}
  BY DEF Subscribe!Answer
<1>3. Subscribe!TypeOK'
  BY <1>2, InvParts DEF Subscribe!TypeOK
<1>4. Subscribe!NotFoundIsTrue'
  BY <1>2 DEF Subscribe!NotFoundIsTrue
<1>5. cached' # "0"
  BY InvParts
<1>6. Subscribe!HandlerBounded'
  BY <1>1, <1>2, Settings DEF Subscribe!HandlerBounded, LastMoment, LastCall, Subscribe!EndOf
<1> QED
  BY <1>2, <1>3, <1>4, <1>5, <1>6 DEF Subscribe!IInv, Subscribe!Running

\* The handler goes on with something that ends in time.
LEMMA GotoInv ==
  ASSUME Subscribe!IInv, pc \notin {"idle", "done", "cut"},
         NEW to \in {"call", "wait", "reserve", "publish", "await"},
         NEW t \in Nat, t <= timer, NEW d \in Nat, Subscribe!Goto(to, t, d),
         attempt' \in 0..MaxRetries, Deadline', to = "wait" => d > 0,
         cached' \in {cached, "1"}, UNCHANGED <<exitAt, exists, served>>,
         stalled' \in Stalls \cup {0}, stalled <= stalled'
  PROVE  Subscribe!IInv'
<1>1. t <= LastMoment + stalled /\ stalled \in Nat
  BY TimerBound, Settings
<1>2. pc' = to /\ rnow' = t /\ timer' = t + d /\ UNCHANGED <<answer, heard>>
  BY DEF Subscribe!Goto
<1>3. Subscribe!TypeOK'
  BY <1>2, InvParts DEF Subscribe!TypeOK
<1>4. Subscribe!NotFoundIsTrue' /\ cached' # "0"
  BY <1>2, InvParts DEF Subscribe!NotFoundIsTrue
<1>5. Subscribe!HandlerBounded'
  BY <1>1, <1>2, Settings DEF Subscribe!HandlerBounded, LastMoment, LastCall, Subscribe!EndOf
<1>6. LastCall + DialTimeout + PublishTimeout + stalled' + SagaTimeout = LastMoment + stalled'
  <2>1. Stalls \subseteq Nat
    BY Settings
  <2>2. stalled' \in Nat
    BY <2>1
  <2>3. /\ DialTimeout \in Nat /\ PublishTimeout \in Nat /\ SagaTimeout \in Nat
        /\ LastCall \in Nat
    BY Settings
  <2> QED
    BY <2>2, <2>3 DEF LastMoment
<1> QED
  BY <1>2, <1>3, <1>4, <1>5, <1>6
     DEF Subscribe!IInv, Subscribe!Running, Deadline, LastCall

\* The repository check: the cache, the calls to GitHub and the waits between them.
LEMMA CheckInv ==
  ASSUME Subscribe!IInv, Subscribe!CacheGet \/ Subscribe!CallGitHub \/ Subscribe!WaitOver
  PROVE  Subscribe!IInv'
<1>1. CASE Subscribe!CacheGet
  <2>1. /\ pc = "cache" /\ rnow = 0 /\ timer = 0 /\ attempt = 0 /\ cached \in {"none", "1"}
        /\ UNCHANGED <<attempt, exitAt, exists, cached, served>>
        /\ stalled = 0 /\ stalled' = 0
    BY <1>1, InvParts DEF Subscribe!CacheGet, Subscribe!TypeOK, Subscribe!world, Deadline
  <2>2. CASE Subscribe!Goto("reserve", rnow, 0)
    <3>1. Deadline'
      BY <2>1, <2>2, Settings DEF Deadline, Subscribe!Goto, LastCall
    <3> QED
      BY <2>1, <2>2, <3>1, Settings, GotoInv
  <2>3. CASE Subscribe!Goto("call", rnow, ClientTimeout)
    <3>1. Deadline'
      BY <2>1, <2>3, Settings, Ends DEF Deadline, Subscribe!Goto
    <3> QED
      BY <2>1, <2>3, <3>1, Settings, GotoInv
  <2> QED
    BY <1>1, <2>1, <2>2, <2>3 DEF Subscribe!CacheGet
<1>2. CASE Subscribe!CallGitHub
  <2>1. /\ pc = "call" /\ UNCHANGED <<attempt, stalled, exitAt, exists, served>>
        /\ stalled = 0 /\ stalled' = 0
    BY <1>2, InvParts DEF Subscribe!CallGitHub, Deadline
  <2>2. PICK t \in Subscribe!Instants :
          \/ Subscribe!Found(t) \/ Subscribe!GiveUp(t)
          \/ /\ attempt < MaxRetries
             /\ \E h \in Subscribe!Headers :
                  Subscribe!Goto("wait", t, Subscribe!NextWait(h, attempt))
             /\ UNCHANGED cached
    BY <1>2 DEF Subscribe!CallGitHub
  <2>3. /\ t \in Nat /\ t <= timer /\ timer \in Nat /\ attempt \in 0..MaxRetries
        /\ timer <= Subscribe!EndOf(attempt)
    BY <2>1, TimerBound, InvParts DEF Deadline
  <2>4. /\ Subscribe!EndOf(attempt) \in Nat /\ Subscribe!EndOf(attempt) <= LastCall
    BY <2>3, Ends, Settings DEF LastCall
  <2>5. CASE Subscribe!Found(t)
    <3>1. CASE exists /\ cached' \in {cached, "1"} /\ Subscribe!Goto("reserve", t, 0)
      <4>1. Deadline'
        BY <2>1, <2>3, <2>4, <3>1, Settings DEF Deadline, Subscribe!Goto, LastCall
      <4> QED
        BY <2>1, <2>3, <3>1, <4>1, GotoInv
    <3>2. CASE ~exists /\ UNCHANGED cached /\ Subscribe!Answer("notFound", t)
      BY <2>1, <2>3, <3>2, AnswerInv DEF Subscribe!Answers
    <3> QED
      BY <2>5, <3>1, <3>2 DEF Subscribe!Found
  <2>6. CASE Subscribe!GiveUp(t)
    BY <2>1, <2>3, <2>6, AnswerInv DEF Subscribe!GiveUp, Subscribe!Answers
  <2>7. ASSUME attempt < MaxRetries, NEW h \in Subscribe!Headers, UNCHANGED cached,
               Subscribe!Goto("wait", t, Subscribe!NextWait(h, attempt))
        PROVE  Subscribe!IInv'
    <3>1. /\ Subscribe!NextWait(h, attempt) \in 1..Subscribe!LongestWait
          /\ Subscribe!LongestWait \in Nat
      BY <2>3, Waits, Settings
    <3>2. Deadline'
      BY <2>1, <2>3, <2>4, <2>7, <3>1 DEF Deadline, Subscribe!Goto
    <3> QED
      BY <2>1, <2>3, <2>7, <3>1, <3>2, GotoInv
  <2> QED
    BY <2>2, <2>5, <2>6, <2>7
<1>3. CASE Subscribe!WaitOver
  <2>1. /\ pc = "wait" /\ Subscribe!Goto("call", timer, ClientTimeout)
        /\ attempt' = attempt + 1 /\ UNCHANGED <<exitAt, exists, cached, served>>
        /\ stalled = 0 /\ stalled' = 0
    BY <1>3, InvParts DEF Subscribe!WaitOver, Subscribe!world, Deadline
  <2>2. /\ timer \in Nat /\ attempt \in 0..MaxRetries /\ attempt < MaxRetries
        /\ timer <= Subscribe!EndOf(attempt) + Subscribe!LongestWait
    BY <2>1, TimerBound, InvParts DEF Deadline
  <2>3. /\ attempt \in Nat /\ attempt' \in 0..MaxRetries
        /\ Subscribe!EndOf(attempt) \in Nat /\ Subscribe!LongestWait \in Nat
        /\ Subscribe!EndOf(attempt') =
             Subscribe!EndOf(attempt) + Subscribe!LongestWait + ClientTimeout
    BY <2>1, <2>2, Ends, Waits, Settings
  <2>4. Deadline'
    BY <2>1, <2>2, <2>3, Settings DEF Deadline, Subscribe!Goto
  <2> QED
    BY <2>1, <2>2, <2>3, <2>4, Settings, GotoInv
<1> QED
  BY <1>1, <1>2, <1>3

\* The saga: the reservation, the publish and the wait for the outcome.
LEMMA SagaInv ==
  ASSUME Subscribe!IInv,
         Subscribe!Reserve \/ Subscribe!Publish \/ Subscribe!Reply \/ Subscribe!TimeOut
  PROVE  Subscribe!IInv'
<1>1. /\ pc \in {"reserve", "publish", "await"}
      /\ UNCHANGED <<attempt, exitAt, exists, cached, served>>
      /\ stalled \in Stalls \cup {0}
  BY InvParts DEF Subscribe!TypeOK, Subscribe!Reserve, Subscribe!Publish, Subscribe!Reply, Subscribe!TimeOut, Subscribe!world
<1>2. /\ rnow \in Nat /\ timer \in Nat /\ rnow <= timer /\ attempt \in 0..MaxRetries
      /\ \A t \in Subscribe!Instants : t \in Nat /\ t <= timer
      /\ Deadline /\ stalled \in Nat
  BY <1>1, TimerBound, InvParts
<1>3. ASSUME NEW t \in Nat, t <= timer, NEW res \in {"ok", "conflict", "unavailable", "internal"},
             Subscribe!Answer(res, t), UNCHANGED stalled
      PROVE  Subscribe!IInv'
  BY <1>1, <1>3, AnswerInv DEF Subscribe!Answers
<1>4. ASSUME pc = "reserve", stalled' \in Stalls,
             Subscribe!Goto("publish", rnow, DialTimeout + PublishTimeout + stalled')
      PROVE  Subscribe!IInv'
  <2>1. Deadline'
    BY <1>2, <1>4, Settings DEF Deadline, Subscribe!Goto, LastCall
  <2>2. DialTimeout + PublishTimeout + stalled' \in Nat /\ stalled <= stalled'
    BY <1>2, <1>4, Settings DEF Deadline
  <2> QED
    BY <1>1, <1>2, <1>4, <2>1, <2>2, GotoInv
<1>5. ASSUME pc = "publish", NEW t \in Subscribe!Instants, Subscribe!Goto("await", t, SagaTimeout),
             UNCHANGED stalled
      PROVE  Subscribe!IInv'
  <2>1. Deadline'
    BY <1>2, <1>5, Settings DEF Deadline, Subscribe!Goto, LastMoment, LastCall
  <2> QED
    BY <1>1, <1>2, <1>5, <2>1, Settings, GotoInv
<1>6. CASE Subscribe!Reserve
  BY <1>2, <1>3, <1>4, <1>6 DEF Subscribe!Reserve
<1>7. CASE Subscribe!Publish
  BY <1>2, <1>3, <1>5, <1>7 DEF Subscribe!Publish
<1>8. CASE Subscribe!Reply \/ Subscribe!TimeOut
  BY <1>2, <1>3, <1>8 DEF Subscribe!Reply, Subscribe!TimeOut
<1> QED
  BY <1>6, <1>7, <1>8

\* A new request, the signal and the end of the process.
LEMMA OutsideInv ==
  ASSUME Subscribe!IInv, Subscribe!Request \/ Subscribe!Signal \/ Subscribe!Exit
  PROVE  Subscribe!IInv'
<1>1. CASE Subscribe!Request
  <2>1. /\ pc' = "cache" /\ rnow' = 0 /\ timer' = 0 /\ attempt' = 0 /\ stalled' = 0
        /\ answer' = "none" /\ heard' = "none" /\ UNCHANGED exitAt
        /\ cached' \in {cached, "none"} /\ served' = served + 1 /\ served < MaxRequests
    BY <1>1 DEF Subscribe!Request
  <2>2. exists' \in BOOLEAN
    BY <1>1 DEF Subscribe!Request
  <2>3. Subscribe!TypeOK'
    BY <2>1, <2>2, InvParts, Settings DEF Subscribe!TypeOK
  <2>4. Subscribe!HandlerBounded'
    BY <2>1, Settings DEF Subscribe!HandlerBounded, LastMoment, LastCall, Subscribe!EndOf
  <2> QED
    BY <2>1, <2>3, <2>4, InvParts DEF Subscribe!IInv, Subscribe!NotFoundIsTrue
<1>2. CASE Subscribe!Signal
  <2>1. /\ pc \notin {"idle", "done", "cut"}
        /\ UNCHANGED <<pc, timer, attempt, stalled, exists, cached, served, answer, heard>>
        /\ rnow' = rnow \/ (pc = "await" /\ rnow' \in Subscribe!Instants)
        /\ exitAt' = rnow' + ShutdownTimeout
    BY <1>2 DEF Subscribe!Signal, Subscribe!Running, Subscribe!world
  <2>2. rnow' \in Nat /\ rnow' <= timer /\ rnow' <= LastMoment + stalled /\ stalled \in Nat
    BY <2>1, TimerBound, Settings
  <2>3. Subscribe!TypeOK'
    BY <2>1, <2>2, InvParts, Settings DEF Subscribe!TypeOK
  <2>4. Subscribe!HandlerBounded'
    BY <2>1, <2>2, InvParts, Settings
       DEF Subscribe!HandlerBounded, LastMoment, LastCall, Subscribe!EndOf
  <2> QED
    BY <2>1, <2>2, <2>3, <2>4, InvParts
       DEF Subscribe!IInv, Subscribe!NotFoundIsTrue, Subscribe!Running
<1>3. CASE Subscribe!Exit
  <2>1. /\ pc \notin {"idle", "done", "cut"} /\ pc' = "cut"
        /\ exitAt # -1 /\ exitAt <= timer /\ rnow' = exitAt
        /\ UNCHANGED <<timer, attempt, stalled, exitAt, exists, cached, served, answer, heard>>
    BY <1>3 DEF Subscribe!Exit, Subscribe!Running, Subscribe!world, Subscribe!Never
  <2>2. rnow' \in Nat /\ rnow' <= LastMoment + stalled /\ stalled \in Nat
    BY <2>1, TimerBound, InvParts, Settings DEF Subscribe!TypeOK, Subscribe!Never
  <2>3. Subscribe!TypeOK'
    BY <2>1, <2>2, InvParts DEF Subscribe!TypeOK
  <2>4. Subscribe!HandlerBounded'
    BY <2>1, <2>2, Settings
       DEF Subscribe!HandlerBounded, LastMoment, LastCall, Subscribe!EndOf
  <2> QED
    BY <2>1, <2>3, <2>4, InvParts DEF Subscribe!IInv, Subscribe!NotFoundIsTrue, Subscribe!Running
<1> QED
  BY <1>1, <1>2, <1>3

LEMMA SubscribeStep == Subscribe!IInv /\ [PathNext]_allVars => Subscribe!IInv'
<1> SUFFICES ASSUME Subscribe!IInv, [PathNext]_allVars PROVE Subscribe!IInv'
  OBVIOUS
<1>1. CASE Subscribe!Next
  BY <1>1, CheckInv, SagaInv, OutsideInv DEF Subscribe!Next, Subscribe!Handle
<1>2. CASE UNCHANGED subscribe
  <2>1. /\ pc' = pc /\ rnow' = rnow /\ timer' = timer /\ attempt' = attempt /\ exitAt' = exitAt
        /\ exists' = exists /\ cached' = cached /\ answer' = answer /\ heard' = heard
        /\ served' = served /\ stalled' = stalled
    BY <1>2 DEF subscribe
  <2> QED
    BY <2>1 DEF Subscribe!IInv, Subscribe!TypeOK, Subscribe!NotFoundIsTrue,
       Subscribe!HandlerBounded, Subscribe!Running
<1> QED
  BY <1>1, <1>2 DEF PathNext, allVars

\* The timeouts of GitHub's client, the broker and the saga bound the subscribe
\* handler as a whole, for as long as Retry-After and the AMQP calls without a
\* timeout take in addition, and no wait between two attempts of doRequest is empty.
THEOREM HandlerBoundedAlways == PathSpec => []HandlerBounded
<1>1. Subscribe!IInv => HandlerBounded
  BY DEF Subscribe!IInv, HandlerBounded
<1> QED
  BY <1>1, SubscribeInit, SubscribeStep, PTL DEF PathSpec

\* A client hears "not found" only of a repository GitHub does not have: CachedClient
\* never stores a 404.
THEOREM NotFoundIsTrueAlways == PathSpec => []NotFoundIsTrue
<1>1. Subscribe!IInv => NotFoundIsTrue
  BY DEF Subscribe!IInv, NotFoundIsTrue
<1> QED
  BY <1>1, SubscribeInit, SubscribeStep, PTL DEF PathSpec

-----------------------------------------------------------------------------
(* The sampler: what LogSamplerProofs shows of it alone holds of it here,  *)
(* because its steps are the same.                                         *)

SamplerProofs == INSTANCE LogSamplerProofs WITH
  Keys <- Messages, MaxTime <- LogTime, now <- lnow

\* Its invariant and its assumption are the ones that were proved about.
LEMMA SamplerSame ==
  /\ SamplerProofs!SamplerAssumption
  /\ SamplerProofs!IInv <=> Sampler!IInv
  /\ SamplerProofs!IInv' <=> Sampler!IInv'
<1>1. SamplerProofs!SamplerAssumption
  BY PathAssumption, Zenon DEF Sampler!SamplerAssumption, SamplerProofs!SamplerAssumption
<1>2. \A f, n : SamplerProofs!UpTo(f, n) = Sampler!UpTo(f, n)
  BY Zenon DEF SamplerProofs!UpTo, Sampler!UpTo
<1>3. \A at, f, w : SamplerProofs!WindowAgrees(at, f, w) <=> Sampler!WindowAgrees(at, f, w)
  <2> SUFFICES ASSUME NEW at, NEW f, NEW w
               PROVE  SamplerProofs!WindowAgrees(at, f, w) <=> Sampler!WindowAgrees(at, f, w)
    OBVIOUS
  <2> QED
    BY DEF SamplerProofs!WindowAgrees, Sampler!WindowAgrees, SamplerProofs!Absent, Sampler!Absent,
           SamplerProofs!UpTo, Sampler!UpTo, SamplerProofs!KeptOf, Sampler!KeptOf
<1>4. \A at, f : SamplerProofs!Thinned(at, f) <=> Sampler!Thinned(at, f)
  BY <1>2, Zenon DEF SamplerProofs!Thinned, Sampler!Thinned
<1>5. \A at, f : (SamplerProofs!Untouched(at, f) <=> Sampler!Untouched(at, f))
               /\ (SamplerProofs!Heard(f) <=> Sampler!Heard(f))
  BY <1>2, Zenon DEF SamplerProofs!Untouched, Sampler!Untouched, SamplerProofs!Heard, Sampler!Heard
<1>6. SamplerProofs!IInv <=> Sampler!IInv
  BY <1>2, <1>3, <1>4, <1>5, Zenon
     DEF SamplerProofs!IInv, Sampler!IInv, SamplerProofs!TypeOK, Sampler!TypeOK,
         SamplerProofs!Times, Sampler!Times, SamplerProofs!FloodThinned, Sampler!FloodThinned,
         SamplerProofs!DroppedWasFlood, Sampler!DroppedWasFlood
<1>7. SamplerProofs!IInv' <=> Sampler!IInv'
  BY <1>2, <1>3, <1>4, <1>5, Zenon
     DEF SamplerProofs!IInv, Sampler!IInv, SamplerProofs!TypeOK, Sampler!TypeOK,
         SamplerProofs!Times, Sampler!Times, SamplerProofs!FloodThinned, Sampler!FloodThinned,
         SamplerProofs!DroppedWasFlood, Sampler!DroppedWasFlood
<1> QED
  BY <1>1, <1>6, <1>7

LEMMA SamplerInit == PathInit => Sampler!IInv
<1>1. Sampler!Init => SamplerProofs!Init
  BY Zenon DEF Sampler!Init, SamplerProofs!Init, Sampler!Absent, SamplerProofs!Absent
<1> QED
  BY <1>1, SamplerProofs!SamplerInit, SamplerSame DEF PathInit

LEMMA SamplerStep == Sampler!IInv /\ [PathNext]_allVars => Sampler!IInv'
<1>1. [PathNext]_allVars => Sampler!Next \/ UNCHANGED sampler
  BY DEF PathNext, allVars
<1>2. Sampler!Next => SamplerProofs!Next
  BY Zenon
     DEF Sampler!Next, SamplerProofs!Next, Sampler!Handle, SamplerProofs!Handle,
         Sampler!Current, SamplerProofs!Current, Sampler!Keeps, SamplerProofs!Keeps,
         Sampler!UpTo, SamplerProofs!UpTo, Sampler!Absent, SamplerProofs!Absent,
         Sampler!Tick, SamplerProofs!Tick, Sampler!Times, SamplerProofs!Times
<1>3. UNCHANGED sampler => UNCHANGED SamplerProofs!vars
  BY DEF sampler, SamplerProofs!vars
<1> QED
  BY <1>1, <1>2, <1>3, SamplerProofs!SamplerStep, SamplerSame

-----------------------------------------------------------------------------
(* The limiter.                                                            *)

\* The seconds of Retry-After, rounded up by at least one tick, end after the
\* window, and at most one second after it.
LEMMA RetryAfterLate ==
  ASSUME NEW d \in Nat
  PROVE  /\ (d \div Second + 1) * Second > d
         /\ (d \div Second + 1) * Second <= d + Second
         /\ d \div Second \in Nat
BY LimiterAssumption

\* What admitted records of a client stays in order.
LEMMA SortedAppend ==
  ASSUME NEW M \in Nat, NEW a \in Seq(0..M), NEW t \in 0..M, Sorted(a),
         \A i \in 1..Len(a) : a[i] <= t
  PROVE  /\ Sorted(Append(a, t))
         /\ \A i \in 1..Len(Append(a, t)) : Append(a, t)[i] <= t
<1>1. \A b : SamplerProofs!Sorted(b) <=> Sorted(b)
  BY Zenon DEF Sorted, SamplerProofs!Sorted
<1> QED
  BY <1>1, SamplerProofs!SortedAppend, Zenon

Entries == [count : 0..Limit, resetAt : 0..(MaxTime + Window)]

\* A client's past, as the invariant has it.
Past(a, v) ==
  /\ a \in Seq(Times) /\ v \in Entries /\ now \in Times
  /\ Sorted(a) /\ \A i \in 1..Len(a) : a[i] <= now
  /\ EntryAgrees(a, v)

\* Where no window is open, the last one began more than a window ago: the request
\* Limit places before the next one was not after it.
LEMMA WindowOver ==
  ASSUME NEW a, NEW v, Past(a, v), v = Absent \/ now > v.resetAt
  PROVE  Len(a) >= Limit => now - a[Len(a) - Limit + 1] > Window
<1> DEFINE n == Len(a)
           first == n - v.count + 1
<1>1. CASE v = Absent
  BY <1>1 DEF Past, EntryAgrees
<1>2. CASE v # Absent
  <2>1. /\ n \in Nat /\ v.count \in 0..Limit /\ v.resetAt \in Nat /\ now \in Nat
        /\ \A i \in 1..n : a[i] \in Nat
    BY LimiterAssumption DEF Past, Entries, Times
  <2>2. v.count >= 1 /\ first >= 1 /\ a[first] = v.resetAt - Window
    BY <1>2 DEF Past, EntryAgrees
  <2>3. \A i, j \in 1..n : i <= j => a[i] <= a[j]
    BY DEF Past, Sorted
  <2>4. now > v.resetAt
    BY <1>2
  <2> HIDE DEF n
  <2>5. SUFFICES ASSUME n >= Limit PROVE now - a[n - Limit + 1] > Window
    BY DEF n
  <2>6. n - Limit + 1 \in 1..n /\ first \in 1..n /\ n - Limit + 1 <= first
    BY <2>1, <2>2, <2>5, LimiterAssumption
  <2>7. a[n - Limit + 1] <= a[first]
    BY <2>3, <2>6
  <2> QED
    BY <2>1, <2>2, <2>4, <2>6, <2>7, LimiterAssumption
<1> QED
  BY <1>1, <1>2

LEMMA AgreesIf ==
  ASSUME NEW b, NEW w, w # Absent, w.count >= 1, NEW first, first = Len(b) - w.count + 1,
         first >= 1, b[first] = w.resetAt - Window,
         first > Limit => b[first] - b[first - Limit] > Window
  PROVE  EntryAgrees(b, w)
BY DEF EntryAgrees

\* A request that opens a window.
LEMMA OpenAgrees ==
  ASSUME NEW a, NEW v, Past(a, v), v = Absent \/ now > v.resetAt
  PROVE  LET w == [count |-> 1, resetAt |-> now + Window]
         IN  w # Absent /\ Past(Append(a, now), w)
<1> DEFINE w == [count |-> 1, resetAt |-> now + Window]
           b == Append(a, now)
           n == Len(a)
<1>1. /\ n \in Nat /\ Len(b) = n + 1 /\ b[n + 1] = now
      /\ \A i \in 1..n : a[i] \in Times /\ b[i] = a[i]
      /\ b \in Seq(Times)
  <2>1. a \in Seq(Times) /\ now \in Times
    BY DEF Past
  <2> QED
    BY <2>1
<1>2. Sorted(b) /\ \A i \in 1..Len(b) : b[i] <= now
  BY SortedAppend, LimiterAssumption DEF Past, Times
<1>3. n >= Limit => now - a[n - Limit + 1] > Window
  BY WindowOver
<1>4. now \in 0..MaxTime
  BY DEF Past, Times
<1>5. w \in Entries /\ w.count = 1 /\ w.resetAt = now + Window /\ w # Absent
  BY <1>4, LimiterAssumption DEF Entries, Absent
<1> HIDE DEF b, n, w
<1>6. EntryAgrees(b, w)
  <2> DEFINE first == n + 1
  <2>1. first = Len(b) - w.count + 1 /\ first >= 1 /\ w.count >= 1
    BY <1>1, <1>5
  <2>2. b[first] = w.resetAt - Window
    BY <1>1, <1>4, <1>5, LimiterAssumption
  <2>3. ASSUME first > Limit PROVE b[first] - b[first - Limit] > Window
    <3>1. n - Limit + 1 \in 1..n /\ first - Limit = n - Limit + 1 /\ n >= Limit
      BY <1>1, <2>3, LimiterAssumption
    <3>2. b[first] = now /\ b[first - Limit] = a[n - Limit + 1]
      BY <1>1, <3>1
    <3> QED
      BY <1>3, <3>1, <3>2
  <2> HIDE DEF first
  <2> QED
    BY <1>5, <2>1, <2>2, <2>3, AgreesIf
<1> QED
  BY <1>1, <1>2, <1>4, <1>5, <1>6 DEF Past, Times, b, w

\* A request within an open window.
LEMMA CountAgrees ==
  ASSUME NEW a, NEW v, Past(a, v), v # Absent, v.count < Limit
  PROVE  LET w == [v EXCEPT !.count = @ + 1]
         IN  w # Absent /\ Past(Append(a, now), w)
<1> DEFINE w == [v EXCEPT !.count = @ + 1]
           b == Append(a, now)
           n == Len(a)
           first == n - v.count + 1
<1>1. /\ n \in Nat /\ Len(b) = n + 1 /\ b[n + 1] = now
      /\ \A i \in 1..n : a[i] \in Times /\ b[i] = a[i]
      /\ b \in Seq(Times)
  <2>1. a \in Seq(Times) /\ now \in Times
    BY DEF Past
  <2> QED
    BY <2>1
<1>2. Sorted(b) /\ \A i \in 1..Len(b) : b[i] <= now
  BY SortedAppend, LimiterAssumption DEF Past, Times
<1>3. v.count \in 0..Limit /\ v.count >= 1 /\ first >= 1
  BY DEF Past, EntryAgrees, Entries
<1>4. a[first] = v.resetAt - Window /\ (first > Limit => a[first] - a[first - Limit] > Window)
  BY DEF Past, EntryAgrees
<1>5. w \in Entries /\ w.count = v.count + 1 /\ w.resetAt = v.resetAt /\ w # Absent
  <2>1. v \in [count : 0..Limit, resetAt : 0..(MaxTime + Window)]
    BY DEF Past, Entries
  <2>2. w.count = v.count + 1 /\ w.resetAt = v.resetAt
    BY <2>1
  <2>3. v.count + 1 \in 0..Limit /\ v.count + 1 # 0
    BY <1>3, LimiterAssumption
  <2>4. w \in Entries
    BY <2>1, <2>3 DEF Entries
  <2> QED
    BY <2>2, <2>3, <2>4 DEF Absent
<1> HIDE DEF b, n, w
<1>6. EntryAgrees(b, w)
  <2>1. Len(b) - w.count + 1 = first /\ first \in 1..n
    BY <1>1, <1>3, <1>5
  <2>2. ASSUME first > Limit PROVE b[first] - b[first - Limit] > Window
    <3>1. first - Limit \in 1..n
      BY <2>1, <2>2, <1>1, LimiterAssumption
    <3> QED
      BY <1>1, <1>4, <2>1, <2>2, <3>1
  <2>3. w # Absent /\ w.count >= 1
    BY <1>3, <1>5
  <2>4. b[first] = w.resetAt - Window
    BY <1>1, <1>4, <1>5, <2>1
  <2> HIDE DEF first
  <2> QED
    BY <1>3, <2>1, <2>2, <2>3, <2>4, AgreesIf
<1> QED
  BY <1>1, <1>2, <1>5, <1>6 DEF Past, b, w

\* The last request of an open window came more than a window after the one
\* 2 * Limit places before it.
LEMMA TwoWindows ==
  ASSUME NEW a, NEW v, Past(a, v), v # Absent, Len(a) > 2 * Limit
  PROVE  a[Len(a)] - a[Len(a) - 2 * Limit] > Window
<1> DEFINE n == Len(a)
           first == n - v.count + 1
<1>1. n \in Nat /\ \A i \in 1..n : a[i] \in Nat
  BY LimiterAssumption DEF Past, Times
<1>2. v.count \in 1..Limit
  BY LimiterAssumption DEF Past, EntryAgrees, Entries
<1>3. first > Limit => a[first] - a[first - Limit] > Window
  BY DEF Past, EntryAgrees
<1>4. \A i, j \in 1..n : i <= j => a[i] <= a[j]
  BY DEF Past, Sorted
<1>5. n > 2 * Limit
  OBVIOUS
<1> HIDE DEF n
<1>6. /\ first \in 1..n /\ first > Limit /\ first - Limit \in 1..n
      /\ n - 2 * Limit \in 1..n /\ n - 2 * Limit <= first - Limit /\ n \in 1..n
  BY <1>1, <1>2, <1>5, LimiterAssumption
<1>7. a[first] <= a[n] /\ a[n - 2 * Limit] <= a[first - Limit]
  BY <1>4, <1>6
<1>8. a[n] - a[n - 2 * Limit] > Window
  <2> HIDE DEF first
  <2>1. /\ a[n] \in Nat /\ a[first] \in Nat
        /\ a[first - Limit] \in Nat /\ a[n - 2 * Limit] \in Nat
    BY <1>1, <1>6, Zenon
  <2>2. a[first] - a[first - Limit] > Window
    BY <1>3, <1>6, Zenon
  <2> DEFINE p == a[n]
             q == a[first]
             r == a[first - Limit]
             s == a[n - 2 * Limit]
  <2>3. p \in Nat /\ q \in Nat /\ r \in Nat /\ s \in Nat /\ q <= p /\ s <= r /\ q - r > Window
    BY <1>7, <2>1, <2>2, Zenon
  <2> HIDE DEF p, q, r, s
  <2>4. p - s > Window
    BY <2>3, LimiterAssumption
  <2> QED
    BY <2>4 DEF p, s
<1> QED
  BY <1>8 DEF n

LEMMA LimiterInit == PathInit => IInv
<1> SUFFICES ASSUME PathInit PROVE IInv
  OBVIOUS
<1>1. Init
  BY DEF PathInit
<1>2. TypeOK
  BY <1>1, LimiterAssumption DEF Init, TypeOK, Times, Absent
<1>3. \A ip \in IPs : Len(admitted[ip]) = 0 /\ visitors[ip] = Absent /\ ~refused[ip] /\ retryAt[ip] = -1
  BY <1>1, Zenon DEF Init
<1>4. BurstBound /\ RefusedWasOver
  <2>1. 1..(0 - 2 * Limit) = {}
    BY LimiterAssumption
  <2> QED
    BY <1>3, <2>1, Zenon DEF BurstBound, RefusedWasOver
<1>5. /\ 1..0 = {}
      /\ \A ip \in IPs : Sorted(admitted[ip])
  <2>1. 1..0 = {}
    OBVIOUS
  <2> QED
    BY <1>3, <2>1, Zenon DEF Sorted
<1>6. \A ip \in IPs : EntryAgrees(admitted[ip], visitors[ip])
  <2>1. ~(0 >= Limit)
    BY LimiterAssumption
  <2> QED
    BY <1>3, <2>1, Zenon DEF EntryAgrees
<1> QED
  BY <1>2, <1>3, <1>4, <1>5, <1>6, Zenon DEF IInv

\* A request that is served: the client's window is the present one, and the 429
\* before it, if any, is forgotten.
LEMMA ServeInv ==
  ASSUME IInv, NEW ip \in IPs, NEW w, w # Absent, Past(Append(admitted[ip], now), w),
         Serve(ip, w)
  PROVE  IInv'
<1> DEFINE a == admitted[ip]
           b == Append(a, now)
           n == Len(a)
<1>1. /\ visitors' = [visitors EXCEPT ![ip] = w] /\ retryAt' = [retryAt EXCEPT ![ip] = -1]
      /\ admitted' = [admitted EXCEPT ![ip] = b]
      /\ now' = now /\ refused' = refused
  BY DEF Serve
<1>2. now \in Times /\ a \in Seq(Times)
  BY DEF IInv, TypeOK
<1>3. /\ n \in Nat /\ Len(b) = n + 1 /\ b[n + 1] = now
      /\ \A i \in 1..n : a[i] \in Times /\ b[i] = a[i]
      /\ b \in Seq(Times)
  <2>1. n \in Nat /\ b \in Seq(Times)
    BY <1>2
  <2>2. Len(b) = n + 1 /\ b[n + 1] = now
    BY <1>2
  <2>3. ASSUME NEW i \in 1..n PROVE a[i] \in Times /\ b[i] = a[i]
    BY <1>2, <2>3
  <2> QED
    BY <2>1, <2>2, <2>3
<1>4. Sorted(a) /\ Sorted(b) /\ EntryAgrees(b, w) /\ \A i \in 1..Len(b) : b[i] <= now
  BY DEF Past, IInv
<1>5. Len(b) > 2 * Limit => b[Len(b)] - b[Len(b) - 2 * Limit] > Window
  BY TwoWindows, Zenon
<1>6. /\ \A i \in 1..(n - 2 * Limit) : a[i + 2 * Limit] - a[i] > Window
      /\ refused[ip] => n >= Limit /\ now - a[n - Limit + 1] <= Window
  BY DEF IInv, BurstBound, RefusedWasOver
<1>7. /\ admitted'[ip] = b /\ visitors'[ip] = w /\ retryAt'[ip] = -1
      /\ \A q \in IPs : q # ip => admitted'[q] = admitted[q] /\ visitors'[q] = visitors[q]
                                  /\ retryAt'[q] = retryAt[q]
  BY <1>1 DEF IInv, TypeOK
<1> HIDE DEF b, a, n
<1>8. TypeOK'
  <2>1. -1 \in -1..(MaxTime + Window + Second)
    BY LimiterAssumption
  <2>2. retryAt' \in [IPs -> -1..(MaxTime + Window + Second)]
    BY <1>1, <2>1 DEF IInv, TypeOK
  <2>3. visitors' \in [IPs -> [count : 0..Limit, resetAt : 0..(MaxTime + Window)]]
    BY <1>1 DEF IInv, TypeOK, Past, Entries
  <2>4. admitted' \in [IPs -> Seq(Times)]
    BY <1>1, <1>3 DEF IInv, TypeOK
  <2> QED
    BY <1>1, <2>2, <2>3, <2>4 DEF IInv, TypeOK
<1>9. \A i \in 1..(Len(b) - 2 * Limit) : b[i + 2 * Limit] - b[i] > Window
  <2> SUFFICES ASSUME NEW i \in 1..(Len(b) - 2 * Limit) PROVE b[i + 2 * Limit] - b[i] > Window
    OBVIOUS
  <2>1. CASE i = n + 1 - 2 * Limit
    <3>1. Len(b) > 2 * Limit /\ i + 2 * Limit = Len(b) /\ i = Len(b) - 2 * Limit
      BY <1>3, <2>1, LimiterAssumption
    <3> QED
      BY <1>5, <3>1
  <2>2. CASE i \in 1..(n - 2 * Limit)
    <3>1. i \in 1..n /\ i + 2 * Limit \in 1..n
      BY <1>3, <2>2, LimiterAssumption
    <3> QED
      BY <1>3, <1>6, <2>2, <3>1
  <2> QED
    BY <1>3, <2>1, <2>2, LimiterAssumption
<1>10. BurstBound'
  BY <1>7, <1>9, Zenon DEF IInv, BurstBound
<1>11. ASSUME refused[ip] PROVE Len(b) >= Limit /\ now - b[Len(b) - Limit + 1] <= Window
  <2>1. n >= Limit /\ now - a[n - Limit + 1] <= Window
    BY <1>6, <1>11
  <2>2. n - Limit + 1 \in 1..n /\ Len(b) - Limit + 1 = n - Limit + 2
    BY <1>3, <2>1, LimiterAssumption
  <2>3. b[n - Limit + 1] = a[n - Limit + 1]
    BY <1>3, <2>2
  <2>4. b[n - Limit + 1] <= b[n - Limit + 2] /\ b[n - Limit + 2] \in Int
    <3>1. n - Limit + 2 \in 1..Len(b) /\ n - Limit + 1 \in 1..Len(b) /\ n - Limit + 1 <= n - Limit + 2
      BY <1>3, <2>1, LimiterAssumption
    <3>2. \A i \in 1..Len(b) : b[i] \in Int
      BY <1>3, LimiterAssumption DEF Times
    <3> QED
      BY <1>4, <3>1, <3>2 DEF Sorted
  <2>5. b[n - Limit + 1] \in Int /\ now \in Int
    BY <1>2, <1>3, <2>2, LimiterAssumption DEF Times
  <2> QED
    BY <1>3, <2>1, <2>2, <2>3, <2>4, <2>5, LimiterAssumption
<1>12. RefusedWasOver'
  BY <1>1, <1>7, <1>11, Zenon DEF IInv, RefusedWasOver
<1>13. \A q \in IPs : /\ Sorted(admitted'[q]) /\ EntryAgrees(admitted[q], visitors[q])'
                      /\ \A i \in 1..Len(admitted'[q]) : admitted'[q][i] <= now'
  <2> SUFFICES ASSUME NEW q \in IPs
               PROVE  /\ Sorted(admitted'[q]) /\ EntryAgrees(admitted[q], visitors[q])'
                      /\ \A i \in 1..Len(admitted'[q]) : admitted'[q][i] <= now'
    OBVIOUS
  <2>1. CASE q = ip
    BY <1>1, <1>4, <1>7, <2>1, Zenon DEF EntryAgrees
  <2>2. CASE q # ip
    BY <1>1, <1>7, <2>2, Zenon DEF IInv, EntryAgrees
  <2> QED
    BY <2>1, <2>2
<1>14. \A q \in IPs : retryAt'[q] # -1 => Fresh(q)' \/ visitors'[q].resetAt < retryAt'[q]
  BY <1>1, <1>7, Zenon DEF IInv, Fresh
<1> QED
  BY <1>8, <1>10, <1>12, <1>13, <1>14, Zenon DEF IInv, Sorted

LEMMA LimitedInv ==
  ASSUME IInv, NEW ip \in IPs, Limited(ip)
  PROVE  IInv'
<1> DEFINE a == admitted[ip]
           v == visitors[ip]
<1>1. Past(a, v)
  BY DEF IInv, TypeOK, Past, Entries
<1>2. CASE Fresh(ip) /\ Serve(ip, [count |-> 1, resetAt |-> now + Window])
  <2>1. v = Absent \/ now > v.resetAt
    BY <1>2 DEF Fresh
  <2> QED
    BY <1>1, <1>2, <2>1, OpenAgrees, ServeInv
<1>3. CASE ~Fresh(ip) /\ v.count < Limit /\ Serve(ip, [v EXCEPT !.count = @ + 1])
  <2>1. v # Absent
    BY <1>3 DEF Fresh
  <2> QED
    BY <1>1, <1>3, <2>1, CountAgrees, ServeInv
<1>4. CASE /\ ~Fresh(ip) /\ v.count >= Limit
           /\ retryAt' = [retryAt EXCEPT ![ip] = now + RetryAfter(ip) * Second]
           /\ refused' = [refused EXCEPT ![ip] = TRUE]
           /\ UNCHANGED <<now, visitors, admitted>>
  <2> DEFINE d == v.resetAt - now
             told == now + RetryAfter(ip) * Second
             n == Len(a)
  <2>1. v \in Entries /\ now \in 0..MaxTime /\ v # Absent /\ ~(now > v.resetAt) /\ n \in Nat
    <3>1. a \in Seq(Times) /\ v \in Entries /\ now \in Times
      BY <1>1, Zenon DEF Past
    <3>2. n \in Nat
      BY <3>1
    <3> QED
      BY <1>4, <3>1, <3>2, Zenon DEF Times, Fresh
  <2>2. d \in Nat
    BY <2>1, LimiterAssumption DEF Entries
  <2>3. RetryAfter(ip) * Second > d /\ RetryAfter(ip) * Second <= d + Second /\ RetryAfter(ip) \in Nat
    BY <2>2, RetryAfterLate DEF RetryAfter
  <2>4. told > v.resetAt /\ told \in -1..(MaxTime + Window + Second)
    <3>1. v.resetAt \in 0..(MaxTime + Window)
      BY <2>1 DEF Entries
    <3> DEFINE more == RetryAfter(ip) * Second
    <3>2. more \in Nat
      BY <2>3, LimiterAssumption
    <3>3. more > d /\ more <= d + Second
      BY <2>3
    <3> HIDE DEF more
    <3>4. now + more > v.resetAt /\ now + more \in -1..(MaxTime + Window + Second)
      BY <2>1, <3>1, <3>2, <3>3, LimiterAssumption
    <3> QED
      BY <3>4 DEF more
  <2> HIDE DEF told
  <2>5. retryAt' = [retryAt EXCEPT ![ip] = told]
    BY <1>4 DEF told
  <2>6. TypeOK'
    BY <1>4, <2>4, <2>5 DEF IInv, TypeOK
  <2>7. n >= Limit /\ now - a[n - Limit + 1] <= Window
    <3>1. v.count = Limit
      BY <1>4, <2>1, LimiterAssumption DEF Entries
    <3>2. n - Limit + 1 >= 1 /\ a[n - Limit + 1] = v.resetAt - Window
      BY <1>1, <2>1, <3>1 DEF Past, EntryAgrees
    <3>3. v.resetAt \in Nat
      BY <2>1, LimiterAssumption DEF Entries
    <3>4. now - (v.resetAt - Window) <= Window
      BY <2>1, <3>3, LimiterAssumption
    <3>5. n >= Limit
      BY <2>1, <3>2, LimiterAssumption
    <3> QED
      BY <3>2, <3>4, <3>5, Zenon
  <2>8. BurstBound' /\ RefusedWasOver'
    BY <1>4, <2>7, Zenon DEF IInv, BurstBound, RefusedWasOver, TypeOK
  <2>9. \A q \in IPs : retryAt'[q] # -1 => Fresh(q)' \/ visitors'[q].resetAt < retryAt'[q]
    BY <1>4, <2>4, <2>5 DEF IInv, TypeOK, Fresh
  <2> QED
    BY <1>4, <2>6, <2>8, <2>9, Zenon DEF IInv, EntryAgrees
<1> QED
  BY <1>2, <1>3, <1>4 DEF Limited

\* The cleanup takes away only what is over.
LEMMA CleanupInv == IInv /\ Cleanup => IInv'
<1> SUFFICES ASSUME IInv, Cleanup PROVE IInv'
  OBVIOUS
<1>1. /\ visitors' = [ip \in IPs |-> IF now > visitors[ip].resetAt THEN Absent ELSE visitors[ip]]
      /\ now' = now /\ admitted' = admitted /\ refused' = refused /\ retryAt' = retryAt
  BY DEF Cleanup
<1>2. TypeOK'
  BY <1>1, LimiterAssumption DEF IInv, TypeOK, Absent
<1>3. BurstBound' /\ RefusedWasOver'
  BY <1>1, Zenon DEF IInv, BurstBound, RefusedWasOver
<1>4. \A ip \in IPs : EntryAgrees(admitted[ip], visitors[ip])'
  <2> SUFFICES ASSUME NEW ip \in IPs PROVE EntryAgrees(admitted[ip], visitors[ip])'
    OBVIOUS
  <2>1. Past(admitted[ip], visitors[ip])
    BY DEF IInv, TypeOK, Past, Entries
  <2>2. CASE now > visitors[ip].resetAt
    <3>1. visitors'[ip] = Absent
      BY <1>1, <2>2
    <3> QED
      BY <1>1, <2>1, <2>2, <3>1, WindowOver, Zenon DEF EntryAgrees
  <2>3. CASE ~(now > visitors[ip].resetAt)
    <3>1. visitors'[ip] = visitors[ip]
      BY <1>1, <2>3
    <3> QED
      BY <1>1, <2>1, <3>1, Zenon DEF EntryAgrees, Past
  <2> QED
    BY <2>2, <2>3
<1>5. \A q \in IPs : retryAt'[q] # -1 => Fresh(q)' \/ visitors'[q].resetAt < retryAt'[q]
  BY <1>1 DEF IInv, Fresh
<1> QED
  BY <1>1, <1>2, <1>3, <1>4, <1>5, Zenon DEF IInv

LEMMA TickInv == IInv /\ Tick => IInv'
<1> SUFFICES ASSUME IInv, Tick PROVE IInv'
  OBVIOUS
<1>1. /\ now \in Nat /\ now' = now + 1 /\ now < MaxTime
      /\ visitors' = visitors /\ admitted' = admitted /\ retryAt' = retryAt
      /\ refused' = [ip \in IPs |-> FALSE]
  BY LimiterAssumption DEF Tick, IInv, TypeOK, Times
<1>2. TypeOK'
  BY <1>1, LimiterAssumption DEF IInv, TypeOK, Times
<1>3. BurstBound' /\ RefusedWasOver'
  BY <1>1, Zenon DEF IInv, BurstBound, RefusedWasOver
<1>4. \A ip \in IPs : \A i \in 1..Len(admitted[ip]) : admitted[ip][i] \in Nat /\ admitted[ip][i] <= now
  <2> SUFFICES ASSUME NEW ip \in IPs, NEW i \in 1..Len(admitted[ip])
               PROVE  admitted[ip][i] \in Nat /\ admitted[ip][i] <= now
    OBVIOUS
  <2>1. admitted[ip] \in Seq(Times) /\ admitted[ip][i] <= now
    BY DEF IInv, TypeOK
  <2>2. admitted[ip][i] \in Times
    BY <2>1
  <2> QED
    BY <2>1, <2>2 DEF Times
<1>5. \A ip \in IPs : EntryAgrees(admitted[ip], visitors[ip])'
  <2> SUFFICES ASSUME NEW ip \in IPs PROVE EntryAgrees(admitted[ip], visitors[ip])'
    OBVIOUS
  <2> DEFINE a == admitted[ip]
             n == Len(a)
  <2>1. EntryAgrees(a, visitors[ip]) /\ n \in Nat
    BY DEF IInv, TypeOK
  <2>2. ASSUME n >= Limit, now - a[n - Limit + 1] > Window
        PROVE  now' - a[n - Limit + 1] > Window
    <3>1. n - Limit + 1 \in 1..n
      BY <2>1, <2>2, LimiterAssumption
    <3> QED
      BY <1>1, <1>4, <2>2, <3>1, LimiterAssumption
  <2> QED
    BY <1>1, <2>1, <2>2, Zenon DEF EntryAgrees
<1>6. \A q \in IPs : retryAt'[q] # -1 => Fresh(q)' \/ visitors'[q].resetAt < retryAt'[q]
  BY <1>1 DEF IInv, TypeOK, Fresh
<1>7. \A ip \in IPs : \A i \in 1..Len(admitted[ip]) : admitted[ip][i] <= now'
  BY <1>1, <1>4
<1> QED
  BY <1>1, <1>2, <1>3, <1>5, <1>6, <1>7, Zenon DEF IInv

LEMMA LimiterStep == IInv /\ [PathNext]_allVars => IInv'
<1> SUFFICES ASSUME IInv, [PathNext]_allVars PROVE IInv'
  OBVIOUS
<1>1. CASE UNCHANGED limiter
  <2>1. /\ now' = now /\ visitors' = visitors /\ admitted' = admitted /\ refused' = refused
        /\ retryAt' = retryAt
    BY <1>1 DEF limiter
  <2> QED
    BY <2>1, Zenon DEF IInv, TypeOK, BurstBound, RefusedWasOver, EntryAgrees, Fresh
<1> QED
  BY <1>1, LimitedInv, CleanupInv, TickInv DEF PathNext, Next, allVars

\* A client that waits as long as Retry-After of its last 429 says, or longer, is
\* admitted, whenever the cleanup runs.
THEOREM RetryAfterHonestAlways == PathSpec => []RetryAfterHonest
<1>1. IInv => RetryAfterHonest
  BY LimiterAssumption DEF IInv, TypeOK, Times, RetryAfterHonest, Fresh
<1> QED
  BY <1>1, LimiterInit, LimiterStep, PTL DEF PathSpec

-----------------------------------------------------------------------------
(* Both windows.                                                           *)

\* Whatever the limits, windows and settings, no stretch of one window's length
\* lets more than two windows' worth through: requests of a client in front of
\* POST /subscribe, whenever the cleanup runs, and records of a flooding message.
THEOREM WindowsBoundAlways == PathSpec => []WindowsBound
<1>1. IInv /\ Sampler!IInv => WindowsBound
  BY DEF IInv, Sampler!IInv, WindowsBound
<1> QED
  BY <1>1, LimiterInit, LimiterStep, SamplerInit, SamplerStep, PTL DEF PathSpec

\* A client is answered 429, and a record is dropped, only after the limit was
\* used up within one window's length; and of any Thereafter records in a row one
\* is written.
THEOREM TurnedAwayWasOverAlways == PathSpec => []TurnedAwayWasOver
<1>1. IInv /\ Sampler!IInv => TurnedAwayWasOver
  BY DEF IInv, Sampler!IInv, TurnedAwayWasOver
<1> QED
  BY <1>1, LimiterInit, LimiterStep, SamplerInit, SamplerStep, PTL DEF PathSpec

-----------------------------------------------------------------------------
(* All parts.                                                              *)

\* The inductive invariants of limiter, sampler and subscribe handler hold
\* together.
THEOREM PartsInductive == PathSpec => []PartsInv
<1>1. IInv /\ Sampler!IInv /\ Subscribe!IInv => PartsInv
  BY DEF PartsInv
<1> QED
  BY <1>1, LimiterInit, LimiterStep, SamplerInit, SamplerStep, SubscribeInit, SubscribeStep, PTL
     DEF PathSpec
==============================================================================
