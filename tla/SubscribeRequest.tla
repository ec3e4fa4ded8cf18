--------------------------- MODULE SubscribeRequest ---------------------------
(***************************************************************************)
(* POST /subscribe on a clock: the check of the repository on GitHub       *)
(* behind the Redis cache, with its 429 retries, the saga and its wait,    *)
(* and the two deadlines of the HTTP server, the write timeout and the one *)
(* of the shutdown.  Times are seconds since the server read the request's *)
(* header; calls to PostgreSQL and Redis take none.  The client stays, and *)
(* no other request keeps the publisher busy with a dial of its own.  What *)
(* the code leaves without a timeout is a length of its own (Stalls).      *)
(***************************************************************************)
EXTENDS Integers, FiniteSetsExt

CONSTANTS
  WriteTimeout, ShutdownTimeout,                  \* app/http.go
  ClientTimeout, MaxRetries,                      \* github/client.go
  MaxResetWait, MaxBackoffAttempt,                \* github/retry.go
  DialTimeout,                                    \* of amqp.Dial, in the library
  PublishTimeout,                                 \* messaging/messaging.go
  SagaTimeout,                                    \* SAGA_TIMEOUT
  Lengths,      \* how long a remote call may take, if its timeout is not shorter
  RetryAfters,  \* values of Retry-After; below 1 if missing, malformed or not positive
  Stalls,       \* how long the broker may keep the AMQP calls of one Publish that
                \* have neither a context nor a timeout
  Resets,       \* values of X-RateLimit-Reset, in seconds from now
  MaxRequests   \* bound on the requests, one after the other

\* The timeouts are what the code sets, a header's seconds are integers with a
\* largest one, and the backoff of a later attempt is no shorter.
RequestAssumption ==
  /\ {WriteTimeout, ShutdownTimeout, ClientTimeout, MaxRetries, MaxBackoffAttempt,
      DialTimeout, PublishTimeout, SagaTimeout, MaxRequests} \subseteq Nat
  /\ MaxResetWait \in Nat \ {0}
  /\ Lengths \subseteq Nat /\ Stalls \subseteq Nat
  /\ RetryAfters \subseteq Int /\ Resets \subseteq Int
  /\ \E longest \in RetryAfters : \A d \in RetryAfters : d <= longest
  /\ \A n \in 0..MaxBackoffAttempt : 2 ^ n \in 1..(2 ^ MaxBackoffAttempt)

Never == -1
Headers == [retryAfter : RetryAfters, reset : Resets]

VARIABLES
  pc,        \* where the handler is
  now,       \* the clock
  timer,     \* when the present call, wait or select ends at the latest
  attempt,   \* the attempt of doRequest
  stalled,   \* how long the broker keeps this request's calls without a timeout
  exitAt,    \* when a shutdown stops waiting for the handler, or Never
  exists,    \* whether GitHub has the repository
  cached,    \* the value Redis has for it, or "none"
  answer,    \* what the handler answered
  heard,     \* what of it reached the client
  served     \* requests so far

clock == <<now, timer, attempt, stalled>>
world == <<exists, cached, served>>
vars == <<pc, clock, exitAt, world, answer, heard>>

Answers == {"ok", "notFound", "conflict", "unavailable", "internal"}

TypeOK ==
  /\ pc \in {"idle", "cache", "call", "wait", "reserve", "publish", "await", "done", "cut"}
  /\ now \in Nat /\ timer \in Nat
  /\ attempt \in 0..MaxRetries
  /\ stalled \in Stalls \cup {0}
  /\ exitAt \in Nat \cup {Never}
  /\ exists \in BOOLEAN /\ cached \in {"none", "0", "1"}
  /\ answer \in Answers \cup {"none"}
  /\ heard \in Answers \cup {"none"}
  /\ served \in 0..MaxRequests

Init ==
  /\ pc = "idle"
  /\ now = 0 /\ timer = 0 /\ attempt = 0 /\ stalled = 0
  /\ exitAt = Never
  /\ exists = TRUE
  /\ cached = "none"
  /\ answer = "none" /\ heard = "none"
  /\ served = 0

-----------------------------------------------------------------------------
Running == pc \notin {"idle", "done", "cut"}

\* The instants at which something may happen before the timer, and before the
\* process is gone.
Instants ==
  {t \in {now + d : d \in Lengths} \cup {timer} :
     t <= timer /\ (exitAt # Never => t <= exitAt)}

\* The handler goes on at instant t with something that ends in at most d.
Goto(to, t, d) ==
  /\ pc' = to
  /\ now' = t /\ timer' = t + d
  /\ UNCHANGED <<answer, heard>>

\* The handler returns at instant t.  After the write timeout the answer stays in
\* the server's buffer and the connection is closed.
Answer(res, t) ==
  /\ pc' = "done"
  /\ now' = t
  /\ answer' = res
  /\ heard' = IF t < WriteTimeout THEN res ELSE "none"
  /\ UNCHANGED timer

\* The server reads a request; a server that shuts down takes none.  Between two
\* requests the repository may come or go and the cache entry may expire.
Request ==
  /\ pc \in {"idle", "done"}
  /\ exitAt = Never /\ served < MaxRequests
  /\ pc' = "cache"
  /\ now' = 0 /\ timer' = 0 /\ attempt' = 0 /\ stalled' = 0
  /\ answer' = "none" /\ heard' = "none"
  /\ exists' \in BOOLEAN
  /\ cached' \in {cached, "none"}
  /\ served' = served + 1
  /\ UNCHANGED exitAt

\* redis.Get: a hit, a miss or an error that counts as a miss.
CacheGet ==
  /\ pc = "cache"
  /\ \/ /\ cached # "none"
        /\ IF cached = "1" THEN Goto("reserve", now, 0) ELSE Answer("notFound", now)
     \/ Goto("call", now, ClientTimeout)
  /\ UNCHANGED <<attempt, stalled, exitAt, world>>

\* Mutant: a 404 is cached as well.
FoundCachesBoth(t) ==
  \/ exists /\ cached' \in {cached, "1"} /\ Goto("reserve", t, 0)
  \/ ~exists /\ cached' \in {cached, "0"} /\ Answer("notFound", t)

\* 200 or 404; only the first is cached, if redis.Set succeeds.
Found(t) ==
  \/ exists /\ cached' \in {cached, "1"} /\ Goto("reserve", t, 0)
  \/ ~exists /\ UNCHANGED cached /\ Answer("notFound", t)

\* Mutant: X-RateLimit-Reset is not capped.
NextWaitUncapped(h, n) ==
  IF h.retryAfter > 0 THEN h.retryAfter
  ELSE IF h.reset > 0 THEN h.reset
  ELSE 2 ^ Min({n, MaxBackoffAttempt})

\* HeaderAwareRetry.NextWait
NextWait(h, n) ==
  IF h.retryAfter > 0 THEN h.retryAfter
  ELSE IF h.reset > 0 THEN Min({h.reset, MaxResetWait})
  ELSE 2 ^ Min({n, MaxBackoffAttempt})

\* Another status than 200, 404 and 429, a transport error or the client's
\* timeout, none of which is retried, or the last 429.
GiveUp(t) == Answer("internal", t) /\ UNCHANGED cached

\* One GET of doRequest.
CallGitHub ==
  /\ pc = "call"
  /\ \E t \in Instants :
       \/ Found(t)
       \/ GiveUp(t)
       \/ /\ attempt < MaxRetries
          /\ \E h \in Headers : Goto("wait", t, NextWait(h, attempt))
          /\ UNCHANGED cached
  /\ UNCHANGED <<attempt, stalled, exitAt, exists, served>>

\* time.After(wait), and the next attempt.
WaitOver ==
  /\ pc = "wait"
  /\ timer \in Instants
  /\ Goto("call", timer, ClientTimeout)
  /\ attempt' = attempt + 1
  /\ UNCHANGED <<stalled, exitAt, world>>

\* reserveSubscription and store.Create: the row and the saga are there, or the
\* request ends.
Reserve ==
  /\ pc = "reserve"
  /\ \/ /\ stalled' \in Stalls
        /\ Goto("publish", now, DialTimeout + PublishTimeout + stalled')
     \/ /\ \E res \in {"conflict", "internal", "unavailable"} : Answer(res, now)
        /\ UNCHANGED stalled
  /\ UNCHANGED <<attempt, exitAt, world>>

\* publishConfirmation.  Without a live channel it dials; opening the channel,
\* confirm mode, the declarations, and the closes before a redial or after a
\* failure are calls the broker may keep as long as it likes.  The publish and
\* its confirm have publishTimeout.
Publish ==
  /\ pc = "publish"
  /\ \E t \in Instants : Goto("await", t, SagaTimeout) \/ Answer("unavailable", t)
  /\ UNCHANGED <<attempt, stalled, exitAt, world>>

\* The reply consumer, which stops at the signal, hands the outcome over.
Reply ==
  /\ pc = "await"
  /\ exitAt = Never
  /\ \E t \in Instants, res \in {"ok", "unavailable"} : Answer(res, t)
  /\ UNCHANGED <<attempt, stalled, exitAt, world>>

\* ErrConfirmationTimeout
TimeOut ==
  /\ pc = "await"
  /\ timer \in Instants
  /\ Answer("unavailable", timer)
  /\ UNCHANGED <<attempt, stalled, exitAt, world>>

\* SIGTERM: the reply consumer stops and srv.Shutdown waits for the handler.
Signal ==
  /\ Running /\ exitAt = Never
  /\ \E t \in IF pc = "await" THEN Instants ELSE {now} :
       now' = t /\ exitAt' = t + ShutdownTimeout
  /\ UNCHANGED <<pc, timer, attempt, stalled, world, answer, heard>>

\* The shutdown's deadline passes and the process ends under the handler.
Exit ==
  /\ Running /\ exitAt # Never /\ exitAt <= timer
  /\ pc' = "cut"
  /\ now' = exitAt
  /\ UNCHANGED <<timer, attempt, stalled, exitAt, world, answer, heard>>

Handle == CacheGet \/ CallGitHub \/ WaitOver \/ Reserve \/ Publish \/ Reply \/ TimeOut
Next == Request \/ Handle \/ Signal \/ Exit

Spec == Init /\ [][Next]_vars

-----------------------------------------------------------------------------
LongestWait == Max(RetryAfters \cup {MaxResetWait, 2 ^ MaxBackoffAttempt})

\* The timeouts of the parts bound the handler as a whole, and every wait between
\* two attempts is a real one: a reset in the past or far ahead neither spins nor
\* stalls it.  Two things move the bound, one for one: Retry-After, which is not
\* capped, and a broker that keeps the AMQP calls without a timeout.
HandlerBounded ==
  /\ pc = "wait" => timer > now
  /\ now <= (MaxRetries + 1) * ClientTimeout + MaxRetries * LongestWait
              + DialTimeout + PublishTimeout + stalled + SagaTimeout

\* A client is told that the repository does not exist only if GitHub does not
\* have it: neither the cache nor a failed call hides a repository that has just
\* been created.
NotFoundIsTrue ==
  pc = "done" /\ answer = "notFound" => ~exists

\* The latest end of an attempt of doRequest.
EndOf(n) == (n + 1) * ClientTimeout + n * LongestWait

\* The inductive invariant: how late the handler may be at each of its steps, and
\* no 404 in the cache.
IInv ==
  /\ TypeOK
  /\ cached # "0"
  /\ NotFoundIsTrue
  /\ HandlerBounded
  /\ Running => now <= timer
  /\ pc = "cache" => now = 0 /\ timer = 0 /\ attempt = 0
  /\ pc \in {"cache", "call", "wait", "reserve"} => stalled = 0
  /\ pc = "call" => timer <= EndOf(attempt)
  /\ pc = "wait" => attempt < MaxRetries /\ timer <= EndOf(attempt) + LongestWait
  /\ pc = "reserve" => timer <= EndOf(MaxRetries)
  /\ pc = "publish" => timer <= EndOf(MaxRetries) + DialTimeout + PublishTimeout + stalled
  /\ pc = "await" =>
       timer <= EndOf(MaxRetries) + DialTimeout + PublishTimeout + stalled + SagaTimeout

\* The request is blocked for the saga's outcome and the caller gets the real one:
\* the 200 or 503 that StartAndWait ends in reaches the client.
RealAnswer ==
  [][pc = "await" /\ pc' = "done" => heard' = answer']_vars
===============================================================================
