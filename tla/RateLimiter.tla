----------------------------- MODULE RateLimiter -----------------------------
(***************************************************************************)
(* internal/api/rest/middleware: the fixed-window rate limiter in front of *)
(* POST /subscribe.  Time advances in ticks finer than the whole seconds   *)
(* of Retry-After.                                                         *)
(***************************************************************************)
EXTENDS Integers, Sequences

CONSTANTS
  IPs,     \* clients
  Limit,   \* requests per window
  Window,  \* window length, in ticks
  Second,  \* ticks per second
  MaxTime  \* bound on the clock

ASSUME LimiterAssumption ==
  /\ Limit \in Nat \ {0} /\ Window \in Nat \ {0} /\ Second \in Nat \ {0}
  /\ MaxTime \in Nat

Times == 0..MaxTime
Absent == [count |-> 0, resetAt |-> 0]

VARIABLES
  now,       \* the clock
  visitors,  \* the visitors map, Absent where there is no entry
  admitted,  \* when the requests of each client that were let through came
  refused,   \* whether a request was answered 429 in this tick
  retryAt    \* when the last 429 told the client to come back, -1 if it did not

vars == <<now, visitors, admitted, refused, retryAt>>

TypeOK ==
  /\ now \in Times
  /\ visitors \in [IPs -> [count : 0..Limit, resetAt : 0..(MaxTime + Window)]]
  /\ admitted \in [IPs -> Seq(Times)]
  /\ refused \in [IPs -> BOOLEAN]
  /\ retryAt \in [IPs -> -1..(MaxTime + Window + Second)]

Init ==
  /\ now = 0
  /\ visitors = [ip \in IPs |-> Absent]
  /\ admitted = [ip \in IPs |-> <<>>]
  /\ refused = [ip \in IPs |-> FALSE]
  /\ retryAt = [ip \in IPs |-> -1]

-----------------------------------------------------------------------------
\* Mutant: only a missing entry starts a window.
FreshOnce(ip) == visitors[ip] = Absent

\* !exists || now.After(v.resetAt)
Fresh(ip) == visitors[ip] = Absent \/ now > visitors[ip].resetAt

\* Mutant: the seconds are rounded down.
RetryAfterFloor(ip) == (visitors[ip].resetAt - now) \div Second

\* int(time.Until(v.resetAt).Seconds()) + 1, in seconds
RetryAfter(ip) == (visitors[ip].resetAt - now) \div Second + 1

Serve(ip, v) ==
  /\ visitors' = [visitors EXCEPT ![ip] = v]
  /\ admitted' = [admitted EXCEPT ![ip] = Append(@, now)]
  /\ retryAt' = [retryAt EXCEPT ![ip] = -1]
  /\ UNCHANGED <<now, refused>>

\* Mutant: one request beyond the limit passes.
LimitedOffByOne(ip) ==
  \/ Fresh(ip) /\ Serve(ip, [count |-> 1, resetAt |-> now + Window])
  \/ /\ ~Fresh(ip)
     /\ visitors[ip].count <= Limit
     /\ Serve(ip, [visitors[ip] EXCEPT !.count = @ + 1])
  \/ /\ ~Fresh(ip)
     /\ visitors[ip].count > Limit
     /\ retryAt' = [retryAt EXCEPT ![ip] = now + RetryAfter(ip) * Second]
     /\ refused' = [refused EXCEPT ![ip] = TRUE]
     /\ UNCHANGED <<now, visitors, admitted>>

\* One request, all of it under the mutex.
Limited(ip) ==
  \/ Fresh(ip) /\ Serve(ip, [count |-> 1, resetAt |-> now + Window])
  \/ /\ ~Fresh(ip)
     /\ visitors[ip].count < Limit
     /\ Serve(ip, [visitors[ip] EXCEPT !.count = @ + 1])
  \/ /\ ~Fresh(ip)
     /\ visitors[ip].count >= Limit
     /\ retryAt' = [retryAt EXCEPT ![ip] = now + RetryAfter(ip) * Second]
     /\ refused' = [refused EXCEPT ![ip] = TRUE]
     /\ UNCHANGED <<now, visitors, admitted>>

\* Mutant: the cleanup drops every entry.
CleanupAll ==
  /\ visitors' = [ip \in IPs |-> Absent]
  /\ UNCHANGED <<now, admitted, refused, retryAt>>

\* The cleanup goroutine's tick.
Cleanup ==
  /\ visitors' = [ip \in IPs |-> IF now > visitors[ip].resetAt THEN Absent ELSE visitors[ip]]
  /\ UNCHANGED <<now, admitted, refused, retryAt>>

Tick ==
  /\ now < MaxTime
  /\ now' = now + 1
  /\ refused' = [ip \in IPs |-> FALSE]
  /\ UNCHANGED <<visitors, admitted, retryAt>>

Next == (\E ip \in IPs : Limited(ip)) \/ Cleanup \/ Tick

Spec == Init /\ [][Next]_vars

-----------------------------------------------------------------------------
\* A fixed window lets a client through at most 2 * Limit times in any stretch as
\* long as the window, wherever it starts and whenever the cleanup runs: 2 * Limit
\* requests later more than a window has passed.
BurstBound ==
  \A ip \in IPs : \A i \in 1..(Len(admitted[ip]) - 2 * Limit) :
    admitted[ip][i + 2 * Limit] - admitted[ip][i] > Window

\* The first Limit requests of a client pass, and none is refused before the
\* client was let through Limit times within the last window's length.
RefusedWasOver ==
  \A ip \in IPs :
    LET n == Len(admitted[ip]) IN
    refused[ip] => n >= Limit /\ now - admitted[ip][n - Limit + 1] <= Window

\* Retry-After is honest: a client that comes back then, or later, is admitted.
RetryAfterHonest ==
  \A ip \in IPs : retryAt[ip] # -1 /\ now >= retryAt[ip] => Fresh(ip)

\* The past of one client, a, and its entry v: the requests v counts are the last
\* ones, v.resetAt is one window after the first of them, and that one came more
\* than a window after the one Limit places before it.  Where there is no entry
\* the next request will.
Sorted(a) == \A i, j \in 1..Len(a) : i <= j => a[i] <= a[j]

EntryAgrees(a, v) ==
  LET n == Len(a)
      first == n - v.count + 1
  IN
  IF v = Absent
  THEN n >= Limit => now - a[n - Limit + 1] > Window
  ELSE /\ v.count >= 1 /\ first >= 1
       /\ a[first] = v.resetAt - Window
       /\ first > Limit => a[first] - a[first - Limit] > Window

\* The inductive invariant: the entries agree with the past, and a window that
\* refused somebody ends before the time they were told, or has ended.
IInv ==
  /\ TypeOK
  /\ BurstBound
  /\ RefusedWasOver
  /\ \A ip \in IPs :
       /\ Sorted(admitted[ip])
       /\ \A i \in 1..Len(admitted[ip]) : admitted[ip][i] <= now
       /\ EntryAgrees(admitted[ip], visitors[ip])
       /\ retryAt[ip] # -1 => Fresh(ip) \/ visitors[ip].resetAt < retryAt[ip]
==============================================================================
