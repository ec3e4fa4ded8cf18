------------------------- MODULE ReleasePollerProofs -------------------------
(***************************************************************************)
(* For every set of repositories and subscribers, every number of          *)
(* releases, workers, retries and faults: while Redis answers, the poller  *)
(* hands a notification to the broker at most once.  The inductive         *)
(* invariant IInv is defined in ReleasePoller.                             *)
(***************************************************************************)
EXTENDS ReleasePoller, TLAPS

USE PollerAssumption
    DEF Tags, NoTag, Outcomes, scanVars, fanVars, redisVars, NothingSeen

\* Nothing was released, cached or sent.
LEMMA InitInv == Init => IInv
<1> SUFFICES ASSUME Init PROVE IInv
  OBVIOUS
<1>1. TypeOK
  <2>1. cached \in BOOLEAN /\ canceled \in BOOLEAN /\ redisDown \in BOOLEAN
    BY DEF Init
  <2>2. commands \in [Repos \X Tags \X Emails -> 0..2]
    BY DEF Init
  <2> QED
    BY <2>1, <2>2 DEF Init, TypeOK
<1>2. OnceInv
  <2>1. cached
    BY DEF Init
  <2>2. \A r \in Repos, t \in Tags, e \in Emails : commands[<<r, t, e>>] = 0
    BY DEF Init
  <2> QED
    BY <2>1, <2>2 DEF Init, OnceInv, TagsOrdered, ScanAgrees, CommandsOnce
<1> QED
  BY <1>1, <1>2 DEF Init, IInv

-----------------------------------------------------------------------------
\* SendOne counts one more command for its email, and no other.
LEMMA AcceptedMoves ==
  ASSUME TypeOK, NEW e \in Emails
  PROVE  /\ Accepted(e) \in [Repos \X Tags \X Emails -> 0..2]
         /\ \A r \in Repos, t \in Tags, f \in Emails :
              IF r = repo /\ t = rel /\ f = e
              THEN commands[<<r, t, f>>] = 0 => Accepted(e)[<<r, t, f>>] = 1
              ELSE Accepted(e)[<<r, t, f>>] = commands[<<r, t, f>>]
<1> DEFINE D == Repos \X Tags \X Emails
           n == commands[<<repo, rel, e>>]
           new == IF n < 2 THEN n + 1 ELSE n
<1>1. commands \in [D -> 0..2] /\ Accepted(e) = [commands EXCEPT ![<<repo, rel, e>>] = new]
  BY DEF TypeOK, Accepted
<1>2. ASSUME NEW r \in Repos, NEW t \in Tags, NEW f \in Emails
      PROVE  /\ <<r, t, f>> \in D
             /\ <<r, t, f>> = <<repo, rel, e>> <=> r = repo /\ t = rel /\ f = e
  OBVIOUS
<1>3. <<repo, rel, e>> \in D => new \in 0..2 /\ (n = 0 => new = 1)
  BY <1>1
<1> HIDE DEF D, new, n
<1>4. Accepted(e) \in [D -> 0..2]
  BY <1>1, <1>3
<1>5. ASSUME NEW r \in Repos, NEW t \in Tags, NEW f \in Emails
      PROVE  IF r = repo /\ t = rel /\ f = e
             THEN commands[<<r, t, f>>] = 0 => Accepted(e)[<<r, t, f>>] = 1
             ELSE Accepted(e)[<<r, t, f>>] = commands[<<r, t, f>>]
  BY <1>1, <1>2, <1>3 DEF n
<1> QED
  BY <1>4, <1>5 DEF D

\* The types of all variables are kept, the retries stay bounded, and the workers
\* have jobs only during a fan-out.
LEMMA TypeKept ==
  ASSUME IInv, [Next]_vars
  PROVE  /\ TypeOK'
         /\ (pc = "backoff" => attempt < MaxRetries)'
         /\ (pc # "notify" => pending = {} /\ sending = {})'
<1> USE DEF IInv, TypeOK, Goto, Fault
<1>1. CASE \E out \in Outcomes : Scan(out)
  BY <1>1 DEF Scan, GetAll
<1>2. CASE \E out \in Outcomes : CacheGet(out)
  BY <1>2 DEF CacheGet
<1>3. CASE \E out \in Outcomes : GetLatestRelease(out)
  BY <1>3 DEF GetLatestRelease
<1>4. CASE \E out \in Outcomes : CacheSet(out)
  BY <1>4 DEF CacheSet
<1>5. CASE \E out \in Outcomes : UpdateLastSeen(out)
  BY <1>5 DEF UpdateLastSeen
<1>6. CASE \E out \in Outcomes : GetEmailsByRepo(out)
  BY <1>6 DEF GetEmailsByRepo
<1>7. CASE NextRepo
  BY <1>7 DEF NextRepo
<1>8. CASE RateLimited \/ Backoff
  <2>1. attempt' \in 0..MaxRetries /\ faults' \in 0..MaxFaults
    BY <1>8 DEF RateLimited, Backoff
  <2>2. /\ pc' \in {"next", "base", "backoff"} /\ pc # "notify"
        /\ pc' = "backoff" => attempt' < MaxRetries
    BY <1>8 DEF RateLimited, Backoff
  <2>3. UNCHANGED <<latest, redisVars, lastSeen, canceled, todo, snapshot, repo, rel, fanVars,
                    commands>>
    BY <1>8 DEF RateLimited, Backoff
  <2> QED
    BY <2>1, <2>2, <2>3
<1>9. CASE Decide \/ NotifyDone \/ Stop \/ Shutdown
  BY <1>9 DEF Decide, NotifyDone, Stop, Shutdown
<1>10. CASE \E e \in Emails : TakeJob(e)
  BY <1>10 DEF TakeJob
<1>11. ASSUME NEW e \in Emails, NEW out \in Outcomes, SendOne(e, out)
       PROVE  /\ TypeOK'
              /\ (pc = "backoff" => attempt < MaxRetries)'
              /\ (pc # "notify" => pending = {} /\ sending = {})'
  <2>1. commands' \in [Repos \X Tags \X Emails -> 0..2]
    BY <1>11, AcceptedMoves DEF SendOne
  <2>2. /\ faults' \in 0..MaxFaults /\ sending' = sending \ {e}
        /\ UNCHANGED <<latest, redisVars, lastSeen, canceled, pc, scanVars, pending>>
    BY <1>11 DEF SendOne
  <2> QED
    BY <2>1, <2>2
<1>12. CASE \E r \in Repos : Release(r) \/ Expire(r)
  <2>1. latest' \in [Repos -> Tags \cup {NoTag}] /\ cache' \in [Repos -> Tags \cup {NoTag}]
    BY <1>12 DEF Release, Expire
  <2>2. UNCHANGED <<cached, redisDown, lastSeen, canceled, pc, scanVars, fanVars, commands, faults>>
    BY <1>12 DEF Release, Expire
  <2> QED
    BY <2>1, <2>2
<1>13. CASE Restart
  <2>1. faults' \in 0..MaxFaults /\ attempt' = 0 /\ rel' = NoTag
    BY <1>13 DEF Restart
  <2>2. cached' \in BOOLEAN /\ canceled' \in BOOLEAN /\ redisDown' \in BOOLEAN
    BY <1>13 DEF Restart
  <2>3. /\ pc' = "idle" /\ todo' = {} /\ snapshot' = NothingSeen
        /\ pending' = {} /\ sending' = {}
        /\ UNCHANGED <<latest, cache, lastSeen, repo, commands>>
    BY <1>13 DEF Restart
  <2> QED
    BY <2>1, <2>2, <2>3
<1>14. CASE UNCHANGED vars
  BY <1>14 DEF vars
<1> QED
  BY <1>1, <1>2, <1>3, <1>4, <1>5, <1>6, <1>7, <1>8, <1>9, <1>10, <1>11, <1>12, <1>13, <1>14
     DEF Next, Poll, Worker

-----------------------------------------------------------------------------
\* The scan up to its decision: the release at hand is the cached one, or the
\* latest one after a miss.
LEMMA ScanOnce ==
  ASSUME TypeOK, OnceInv, ~redisDown', pending = {} /\ sending = {},
         \/ NextRepo \/ RateLimited \/ Backoff \/ Decide
         \/ \E out \in Outcomes :
              Scan(out) \/ CacheGet(out) \/ GetLatestRelease(out) \/ CacheSet(out)
  PROVE  OnceInv'
<1>1. /\ UNCHANGED <<latest, cached, lastSeen, fanVars, commands>> /\ pc' # "list"
      /\ cache' = cache \/ (pc = "set" /\ cache' = [cache EXCEPT ![repo] = rel])
  BY DEF NextRepo, RateLimited, Backoff, Decide, Scan, CacheGet, GetLatestRelease, CacheSet, Goto
<1>2. cached'
  BY <1>1 DEF OnceInv
<1>3. TagsOrdered'
  BY <1>1 DEF OnceInv, TagsOrdered, ScanAgrees, TypeOK
<1>4. CommandsOnce'
  BY <1>1 DEF OnceInv, CommandsOnce
<1>5. ScanAgrees'
  <2> USE DEF TypeOK, OnceInv, TagsOrdered, ScanAgrees, Goto, Fault
  <2>1. CASE \E out \in Outcomes : Scan(out)
    BY <2>1 DEF Scan, GetAll
  <2>2. CASE NextRepo
    BY <2>2 DEF NextRepo
  <2>3. CASE \E out \in Outcomes : CacheGet(out)
    <3>1. PICK out \in Outcomes : CacheGet(out)
      BY <2>3
    <3>2. out = "ok" \/ canceled
      BY <3>1 DEF CacheGet
    <3>3. CASE out = "ok" /\ cache[repo] # NoTag
      BY <3>1, <3>3 DEF CacheGet
    <3>4. CASE ~(out = "ok" /\ cache[repo] # NoTag)
      BY <3>1, <3>2, <3>4 DEF CacheGet
    <3> QED
      BY <3>3, <3>4
  <2>4. CASE \E out \in Outcomes : GetLatestRelease(out)
    BY <2>4 DEF GetLatestRelease
  <2>5. CASE RateLimited \/ Backoff
    BY <2>5 DEF RateLimited, Backoff
  <2>6. CASE \E out \in Outcomes : CacheSet(out)
    BY <2>6 DEF CacheSet
  <2>7. CASE Decide
    BY <2>7 DEF Decide
  <2> QED
    BY <2>1, <2>2, <2>3, <2>4, <2>5, <2>6, <2>7
<1> QED
  BY <1>2, <1>3, <1>4, <1>5 DEF OnceInv

\* A new release is persisted before anybody hears of it.
LEMMA PersistOnce ==
  ASSUME TypeOK, OnceInv, pending = {} /\ sending = {},
         NEW out \in Outcomes, UpdateLastSeen(out)
  PROVE  OnceInv'
<1>1. /\ pc = "persist" /\ lastSeen[repo] < rel /\ rel <= latest[repo]
      /\ cache[repo] \in {NoTag, rel} /\ rel \in Tags /\ repo \in Repos
  BY DEF UpdateLastSeen, Goto, OnceInv, ScanAgrees, TypeOK
<1>2. /\ pc' \in {"list", "next"}
      /\ pc' = "list" => lastSeen' = [lastSeen EXCEPT ![repo] = rel]
      /\ lastSeen' = [lastSeen EXCEPT ![repo] = rel] \/ UNCHANGED lastSeen
      /\ UNCHANGED <<latest, redisVars, canceled, scanVars, fanVars, commands>>
  BY DEF UpdateLastSeen, TookEffect, Goto
<1>3. \A r \in Repos : /\ lastSeen[r] <= lastSeen'[r] /\ lastSeen'[r] \in Nat
                       /\ r # repo => lastSeen'[r] = lastSeen[r]
  BY <1>1, <1>2 DEF TypeOK
<1>4. TagsOrdered' /\ cached'
  BY <1>1, <1>2 DEF OnceInv, TagsOrdered, TypeOK
<1>5. ScanAgrees'
  BY <1>1, <1>2, <1>3 DEF OnceInv, ScanAgrees, TypeOK
<1>6. CommandsOnce'
  <2>1. ASSUME NEW r \in Repos, NEW t \in Tags, NEW e \in Emails
        PROVE  /\ commands[<<r, t, e>>] \in Nat /\ commands[<<r, t, e>>] <= 1
               /\ commands[<<r, t, e>>] = 1 => t <= lastSeen[r]
               /\ lastSeen[r] \in Nat
    BY DEF OnceInv, CommandsOnce, TypeOK
  <2>2. ASSUME NEW e \in Emails PROVE commands[<<repo, rel, e>>] = 0
    BY <1>1, <2>1
  <2>3. ASSUME NEW r \in Repos, NEW t \in Tags, NEW e \in Emails
        PROVE  commands[<<r, t, e>>] = 1 => t <= lastSeen'[r]
    BY <1>3, <2>1
  <2> QED
    BY <1>2, <2>1, <2>2, <2>3 DEF CommandsOnce
<1> QED
  BY <1>4, <1>5, <1>6 DEF OnceInv

\* Every email of the fan-out is served once.
LEMMA NotifyOnce ==
  ASSUME TypeOK, OnceInv, pc # "notify" => pending = {} /\ sending = {},
         \/ \E out \in Outcomes : GetEmailsByRepo(out)
         \/ \E e \in Emails : Worker(e)
         \/ NotifyDone
  PROVE  OnceInv'
<1>1. /\ UNCHANGED <<latest, redisVars, lastSeen, canceled, scanVars>>
      /\ pc \in {"list", "notify"} /\ pc' \in {"notify", "next"}
      /\ pc = "list" => pc' \in {"notify", "next"}
  BY DEF GetEmailsByRepo, Worker, TakeJob, SendOne, NotifyDone, Goto, TypeOK
<1>2. cached' /\ TagsOrdered' /\ ScanAgrees'
  BY <1>1 DEF OnceInv, TagsOrdered, ScanAgrees
<1>3. CommandsOnce'
  <2> USE DEF OnceInv, CommandsOnce
  <2>1. CASE \E out \in Outcomes : GetEmailsByRepo(out)
    BY <1>1, <2>1 DEF GetEmailsByRepo, Goto
  <2>2. CASE \E e \in Emails : TakeJob(e)
    BY <1>1, <2>2 DEF TakeJob
  <2>3. ASSUME NEW e \in Emails, NEW out \in Outcomes, SendOne(e, out)
        PROVE  CommandsOnce'
    <3>1. /\ pc' = "notify" /\ e \in sending /\ e \notin pending
          /\ pending' = pending /\ sending' = sending \ {e}
          /\ rel \in Tags /\ rel = lastSeen[repo] /\ repo \in Repos
          /\ commands[<<repo, rel, e>>] = 0
      BY <1>1, <2>3 DEF SendOne, ScanAgrees, TypeOK
    <3>2. ASSUME NEW r \in Repos, NEW t \in Tags, NEW f \in Emails
          PROVE  IF r = repo /\ t = rel /\ f = e
                 THEN commands'[<<r, t, f>>] \in {0, 1}
                 ELSE commands'[<<r, t, f>>] = commands[<<r, t, f>>]
      BY <2>3, <3>1, AcceptedMoves DEF SendOne
    <3>3. ASSUME NEW r \in Repos, NEW t \in Tags, NEW f \in Emails
          PROVE  commands'[<<r, t, f>>] <= 1 /\ (commands'[<<r, t, f>>] = 1 => t <= lastSeen[r])
      <4>1. CASE r = repo /\ t = rel /\ f = e
        BY <3>1, <3>2, <4>1 DEF TypeOK
      <4>2. CASE ~(r = repo /\ t = rel /\ f = e)
        BY <3>2, <4>2
      <4> QED
        BY <4>1, <4>2
    <3>4. ASSUME NEW f \in pending' \cup sending' PROVE commands'[<<repo, rel, f>>] = 0
      BY <3>1, <3>2, <3>4 DEF TypeOK
    <3> QED
      BY <1>1, <3>1, <3>3, <3>4
  <2>4. CASE NotifyDone
    BY <1>1, <2>4 DEF NotifyDone, Goto
  <2> QED
    BY <2>1, <2>2, <2>3, <2>4 DEF Worker
<1> QED
  BY <1>2, <1>3 DEF OnceInv

\* Releases, expiries, a shutdown and a restart that finds Redis up.
LEMMA AroundOnce ==
  ASSUME TypeOK, OnceInv, ~redisDown',
         \/ Stop \/ Shutdown \/ Restart
         \/ \E r \in Repos : Release(r) \/ Expire(r)
  PROVE  OnceInv'
<1>1. CASE Stop \/ Shutdown
  BY <1>1 DEF Stop, Shutdown, Goto, OnceInv, TagsOrdered, ScanAgrees, CommandsOnce
<1>2. CASE Restart
  <2>1. cached'
    BY <1>2 DEF Restart
  <2>2. /\ pc' = "idle" /\ todo' = {} /\ pending' = {} /\ sending' = {}
        /\ UNCHANGED <<latest, cache, lastSeen, commands>>
    BY <1>2 DEF Restart
  <2> QED
    BY <2>1, <2>2 DEF OnceInv, TagsOrdered, ScanAgrees, CommandsOnce
<1>3. CASE \E r \in Repos : Release(r) \/ Expire(r)
  <2>1. /\ \A r \in Repos : latest[r] <= latest'[r] /\ cache'[r] \in {cache[r], NoTag}
        /\ UNCHANGED <<cached, lastSeen, canceled, pc, scanVars, fanVars, commands>>
    BY <1>3 DEF Release, Expire, TypeOK
  <2>2. latest' \in [Repos -> Nat] /\ cache' \in [Repos -> Nat]
    BY <1>3 DEF Release, Expire, TypeOK
  <2>3. TagsOrdered' /\ ScanAgrees'
    BY <2>1, <2>2 DEF OnceInv, TagsOrdered, ScanAgrees, TypeOK
  <2>4. cached' /\ CommandsOnce'
    BY <2>1 DEF OnceInv, CommandsOnce
  <2> QED
    BY <2>3, <2>4 DEF OnceInv
<1> QED
  BY <1>1, <1>2, <1>3

-----------------------------------------------------------------------------
\* Every step of the poller keeps the invariant.
LEMMA StepInv == IInv /\ [Next]_vars => IInv'
<1> SUFFICES ASSUME IInv, [Next]_vars, ~redisDown' PROVE OnceInv'
  BY TypeKept DEF IInv
<1>1. ~redisDown
  <2>1. CASE UNCHANGED vars
    BY <2>1 DEF vars
  <2>2. CASE Next
    BY <2>2 DEF Next, Poll, Worker, Scan, NextRepo, CacheGet, GetLatestRelease, RateLimited,
       Backoff, CacheSet, Decide, UpdateLastSeen, GetEmailsByRepo, TakeJob, SendOne,
       NotifyDone, Stop, Release, Expire, Shutdown, Restart
  <2> QED
    BY <2>1, <2>2
<1>2. TypeOK /\ OnceInv /\ (pc # "notify" => pending = {} /\ sending = {})
  BY <1>1 DEF IInv
<1>3. CASE Poll
  <2>1. CASE \/ NextRepo \/ RateLimited \/ Backoff \/ Decide
             \/ \E out \in Outcomes :
                  Scan(out) \/ CacheGet(out) \/ GetLatestRelease(out) \/ CacheSet(out)
    <3>1. pc # "notify"
      BY <2>1 DEF NextRepo, RateLimited, Backoff, Decide, Scan, CacheGet, GetLatestRelease,
         CacheSet, Goto
    <3> QED
      BY <1>2, <2>1, <3>1, ScanOnce
  <2>2. ASSUME NEW out \in Outcomes, UpdateLastSeen(out) PROVE OnceInv'
    <3>1. pc # "notify"
      BY <2>2 DEF UpdateLastSeen, Goto
    <3> QED
      BY <1>2, <2>2, <3>1, PersistOnce
  <2>3. CASE NotifyDone \/ \E out \in Outcomes : GetEmailsByRepo(out)
    BY <1>2, <2>3, NotifyOnce
  <2>4. CASE Stop
    BY <1>2, <2>4, AroundOnce
  <2> QED
    BY <1>3, <2>1, <2>2, <2>3, <2>4 DEF Poll
<1>4. CASE \E e \in Emails : Worker(e)
  BY <1>2, <1>4, NotifyOnce
<1>5. CASE Shutdown \/ Restart \/ \E r \in Repos : Release(r) \/ Expire(r)
  BY <1>2, <1>5, AroundOnce
<1>6. CASE UNCHANGED vars
  BY <1>2, <1>6 DEF vars, OnceInv, TagsOrdered, ScanAgrees, CommandsOnce
<1> QED
  BY <1>3, <1>4, <1>5, <1>6 DEF Next

\* The invariant holds of every behaviour of the poller.
THEOREM Inductive == Spec => []IInv
<1> QED
  BY InitInv, StepInv, PTL DEF Spec

\* The poller hands a release's notification to the broker at most once for every
\* subscriber, whatever crashes and restarts come between persisting last_seen_tag
\* and the fan-out, as long as Redis answered.
THEOREM AtMostOnceAlways == Spec => []AtMostOnce
<1>1. IInv => AtMostOnce
  <2> SUFFICES ASSUME IInv, ~redisDown, NEW c \in DOMAIN commands
               PROVE  commands[c] <= 1
    BY DEF AtMostOnce
  <2>1. c \in Repos \X Tags \X Emails
    BY DEF IInv, TypeOK
  <2>2. c[1] \in Repos /\ c[2] \in Tags /\ c[3] \in Emails /\ c = <<c[1], c[2], c[3]>>
    BY <2>1
  <2> QED
    BY <2>2 DEF IInv, OnceInv, CommandsOnce
<1> QED
  BY <1>1, Inductive, PTL
==============================================================================
