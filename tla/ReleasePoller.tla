---------------------------- MODULE ReleasePoller ----------------------------
(***************************************************************************)
(* internal/release: the poller goroutine, reading GitHub through the      *)
(* Redis cache of internal/client/github, persisting last_seen_tag, and    *)
(* fanning out one release command per active subscriber to the broker.    *)
(* The releases of a repository are numbered in the order they appear.     *)
(***************************************************************************)
EXTENDS Naturals, FiniteSets

CONSTANTS
  Repos,         \* tracked repositories
  Emails,        \* the active subscribers, numbered as GetEmailsByRepo lists them
  MaxTag,        \* bound on the releases of one repository
  NotifyWorkers, \* notifyWorkers
  MaxRetries,    \* maxRetries of the GitHub client
  MaxFaults      \* bound on failed calls and crashes

ASSUME PollerAssumption ==
  /\ Emails \subseteq Nat
  /\ MaxTag \in Nat \ {0} /\ NotifyWorkers \in Nat \ {0}
  /\ MaxRetries \in Nat /\ MaxFaults \in Nat

Tags == 1..MaxTag
NoTag == 0
Outcomes == {"ok", "lost", "late"}

VARIABLES
  latest,    \* the latest release on GitHub, or NoTag
  cache,     \* github:release:<repo> in Redis, NoTag when absent
  lastSeen,  \* tracked_repositories.last_seen_tag, NoTag when NULL
  cached,    \* selectGitHubClient found Redis up at boot
  canceled,  \* the poller's context is done
  pc,        \* where the poller is
  todo,      \* repositories the scan has yet to look at
  snapshot,  \* last_seen_tag as GetAll returned it
  repo,      \* the repository at hand
  rel,       \* the release at hand
  attempt,   \* requests to GitHub answered with 429 so far
  pending,   \* emails not yet given to a worker
  sending,   \* emails in the hands of a worker
  commands,  \* release commands the broker accepted, counted up to 2
  redisDown, \* a Redis call of this behaviour failed (history)
  faults     \* failed calls and crashes so far

scanVars == <<todo, snapshot, repo, rel, attempt>>
fanVars == <<pending, sending>>
redisVars == <<cache, cached, redisDown>>
vars == <<latest, redisVars, lastSeen, canceled, pc, scanVars, fanVars,
          commands, faults>>

TypeOK ==
  /\ latest \in [Repos -> Tags \cup {NoTag}]
  /\ cache \in [Repos -> Tags \cup {NoTag}]
  /\ lastSeen \in [Repos -> Tags \cup {NoTag}]
  /\ cached \in BOOLEAN /\ canceled \in BOOLEAN /\ redisDown \in BOOLEAN
  /\ pc \in {"idle", "next", "get", "base", "backoff", "set", "decide", "persist",
             "list", "notify", "stopped"}
  /\ todo \in SUBSET Repos
  /\ snapshot \in [Repos -> Tags \cup {NoTag}]
  /\ repo \in Repos
  /\ rel \in Tags \cup {NoTag}
  /\ attempt \in 0..MaxRetries
  /\ pending \in SUBSET Emails
  /\ sending \in SUBSET Emails
  /\ commands \in [Repos \X Tags \X Emails -> 0..2]
  /\ faults \in 0..MaxFaults

Init ==
  /\ latest = [r \in Repos |-> NoTag]
  /\ cache = [r \in Repos |-> NoTag]
  /\ lastSeen = [r \in Repos |-> NoTag]
  /\ cached = TRUE
  /\ redisDown = FALSE
  /\ canceled = FALSE
  /\ pc = "idle"
  /\ todo = {}
  /\ snapshot = lastSeen
  /\ repo \in Repos
  /\ rel = NoTag
  /\ attempt = 0
  /\ pending = {}
  /\ sending = {}
  /\ commands = [c \in Repos \X Tags \X Emails |-> 0]
  /\ faults = 0

-----------------------------------------------------------------------------
\* A remote call ends with outcome out.  One whose context is done fails; any
\* other failure spends a fault.
Fault(out) ==
  IF canceled
  THEN out # "ok" /\ UNCHANGED faults
  ELSE /\ out # "ok" => faults < MaxFaults
       /\ faults' = IF out = "ok" THEN faults ELSE faults + 1

TookEffect(out) == out # "lost"

Goto(from, to) ==
  /\ pc = from
  /\ pc' = to

NothingSeen == [r \in Repos |-> NoTag]

\* Store.GetAll: the tracked repositories with their last_seen_tag.
GetAll(out) ==
  /\ todo' = IF out = "ok" THEN Repos ELSE {}
  /\ snapshot' = IF out = "ok" THEN lastSeen ELSE NothingSeen

\* Start: a tick (or the first round) begins a scan.
Scan(out) ==
  /\ out # "late"
  /\ Goto("idle", IF out = "ok" THEN "next" ELSE "idle")
  /\ Fault(out)
  /\ GetAll(out)
  /\ UNCHANGED <<latest, redisVars, lastSeen, canceled, repo, rel, attempt, fanVars,
                 commands>>

\* The scan's loop, which gives up when the context is done.
NextRepo ==
  /\ \/ \E r \in todo :
          /\ ~canceled
          /\ Goto("next", IF cached THEN "get" ELSE "base")
          /\ repo' = r
          /\ todo' = todo \ {r}
          /\ UNCHANGED snapshot
     \/ /\ todo = {} \/ canceled
        /\ Goto("next", "idle")
        /\ todo' = {}
        /\ snapshot' = NothingSeen
        /\ UNCHANGED repo
  /\ rel' = NoTag
  /\ UNCHANGED <<latest, redisVars, lastSeen, canceled, attempt, fanVars, commands,
                 faults>>

\* CachedClient.GetLatestRelease: redis.Get; an error counts as a miss.
CacheGet(out) ==
  /\ out # "late"
  /\ Fault(out)
  /\ redisDown' = (redisDown \/ (out # "ok" /\ ~canceled))
  /\ IF out = "ok" /\ cache[repo] # NoTag
     THEN Goto("get", "decide") /\ rel' = cache[repo]
     ELSE Goto("get", "base") /\ UNCHANGED rel
  /\ UNCHANGED <<latest, cache, cached, lastSeen, canceled, todo, snapshot, repo,
                 attempt, fanVars, commands>>

\* doRequest answered with anything but 429, or failed: an error ends this
\* repository's turn.
GetLatestRelease(out) ==
  /\ out # "late"
  /\ Fault(out)
  /\ rel' = IF out = "ok" THEN latest[repo] ELSE NoTag
  /\ Goto("base", IF out # "ok" THEN "next"
                  ELSE IF cached /\ latest[repo] # NoTag THEN "set" ELSE "decide")
  /\ attempt' = 0
  /\ UNCHANGED <<latest, redisVars, lastSeen, canceled, todo, snapshot, repo, fanVars,
                 commands>>

\* doRequest answered with 429: the last attempt gives up, others wait.
RateLimited ==
  /\ ~canceled
  /\ Fault("lost")
  /\ IF attempt = MaxRetries
     THEN Goto("base", "next") /\ attempt' = 0
     ELSE Goto("base", "backoff") /\ UNCHANGED attempt
  /\ UNCHANGED <<latest, redisVars, lastSeen, canceled, todo, snapshot, repo, rel,
                 fanVars, commands>>

\* Mutant: the wait does not listen to the context.
BackoffDeaf ==
  /\ Goto("backoff", IF canceled THEN "backoff" ELSE "base")
  /\ attempt' = IF canceled THEN attempt ELSE attempt + 1
  /\ UNCHANGED <<latest, redisVars, lastSeen, canceled, todo, snapshot, repo, rel,
                 fanVars, commands, faults>>

\* The wait NextWait asks for is over, or the context is done.
Backoff ==
  /\ \/ Goto("backoff", "base") /\ attempt' = attempt + 1
     \/ canceled /\ Goto("backoff", "next") /\ attempt' = 0
  /\ UNCHANGED <<latest, redisVars, lastSeen, canceled, todo, snapshot, repo, rel,
                 fanVars, commands, faults>>

\* redis.Set: an error is only counted.
CacheSet(out) ==
  /\ Fault(out)
  /\ redisDown' = (redisDown \/ (out # "ok" /\ ~canceled))
  /\ Goto("set", "decide")
  /\ cache' = IF TookEffect(out) THEN [cache EXCEPT ![repo] = rel] ELSE cache
  /\ UNCHANGED <<latest, cached, lastSeen, canceled, scanVars, fanVars, commands>>

\* Mutant: a repository without a last_seen_tag counts as up to date.
DecideNullIsSeen ==
  /\ Goto("decide", IF rel = NoTag \/ snapshot[repo] \in {NoTag, rel} THEN "next"
                    ELSE "persist")
  /\ UNCHANGED <<latest, redisVars, lastSeen, canceled, scanVars, fanVars,
                 commands, faults>>

\* scanRepository: no release, or the one already seen, only updates
\* last_checked_at.
Decide ==
  /\ Goto("decide", IF rel \in {NoTag, snapshot[repo]} THEN "next" ELSE "persist")
  /\ UNCHANGED <<latest, redisVars, lastSeen, canceled, scanVars, fanVars,
                 commands, faults>>

\* Mutant: the tag of the snapshot is stored, not the one at hand.
UpdateLastSeenStale(out) ==
  /\ Fault(out)
  /\ Goto("persist", IF out = "ok" THEN "list" ELSE "next")
  /\ lastSeen' = IF TookEffect(out) THEN [lastSeen EXCEPT ![repo] = snapshot[repo]] ELSE lastSeen
  /\ UNCHANGED <<latest, redisVars, canceled, scanVars, fanVars, commands>>

\* Mutant: subscribers are notified although the tag was not persisted.
UpdateLastSeenIgnoresError(out) ==
  /\ Fault(out)
  /\ Goto("persist", "list")
  /\ lastSeen' = IF TookEffect(out) THEN [lastSeen EXCEPT ![repo] = rel] ELSE lastSeen
  /\ UNCHANGED <<latest, redisVars, canceled, scanVars, fanVars, commands>>

\* The tag is persisted before anybody is notified.
UpdateLastSeen(out) ==
  /\ Fault(out)
  /\ Goto("persist", IF out = "ok" THEN "list" ELSE "next")
  /\ lastSeen' = IF TookEffect(out) THEN [lastSeen EXCEPT ![repo] = rel] ELSE lastSeen
  /\ UNCHANGED <<latest, redisVars, canceled, scanVars, fanVars, commands>>

\* notifySubscribers: the active subscribers as of now.
GetEmailsByRepo(out) ==
  /\ out # "late"
  /\ Fault(out)
  /\ Goto("list", IF out = "ok" THEN "notify" ELSE "next")
  /\ pending' = IF out = "ok" THEN Emails ELSE {}
  /\ UNCHANGED <<latest, redisVars, lastSeen, canceled, scanVars, sending, commands>>

\* A worker takes the next email from the jobs channel.
TakeJob(e) ==
  /\ pc = "notify"
  /\ e \in pending /\ \A x \in pending : e <= x
  /\ Cardinality(sending) < NotifyWorkers
  /\ pending' = pending \ {e}
  /\ sending' = sending \cup {e}
  /\ UNCHANGED <<latest, redisVars, lastSeen, canceled, pc, scanVars, commands, faults>>

\* One more command for e; two are as bad as many.
Accepted(e) ==
  [commands EXCEPT ![<<repo, rel, e>>] = IF @ < 2 THEN @ + 1 ELSE @]

\* sendOne: the command is published; an error is only logged.
SendOne(e, out) ==
  /\ e \in sending
  /\ Fault(out)
  /\ sending' = sending \ {e}
  /\ commands' = IF TookEffect(out) THEN Accepted(e) ELSE commands
  /\ UNCHANGED <<latest, redisVars, lastSeen, canceled, pc, scanVars, pending>>

\* Mutant: the fan-out ends when the workers are idle, jobs left or not.
NotifyDoneEarly ==
  /\ sending = {}
  /\ Goto("notify", "next")
  /\ pending' = {}
  /\ UNCHANGED <<latest, redisVars, lastSeen, canceled, scanVars, sending,
                 commands, faults>>

\* wg.Wait after the last job, or after the context was done.
NotifyDone ==
  /\ pending = {} \/ canceled
  /\ sending = {}
  /\ Goto("notify", "next")
  /\ pending' = {}
  /\ UNCHANGED <<latest, redisVars, lastSeen, canceled, scanVars, sending,
                 commands, faults>>

\* Start returns and closes done.
Stop ==
  /\ canceled
  /\ Goto("idle", "stopped")
  /\ UNCHANGED <<latest, redisVars, lastSeen, canceled, scanVars, fanVars,
                 commands, faults>>

-----------------------------------------------------------------------------
\* A release is published; a cache entry reaches its TTL.
Release(r) ==
  /\ latest[r] < MaxTag
  /\ latest' = [latest EXCEPT ![r] = @ + 1]
  /\ UNCHANGED <<redisVars, lastSeen, canceled, pc, scanVars, fanVars,
                 commands, faults>>

Expire(r) ==
  /\ cache[r] # NoTag
  /\ cache' = [cache EXCEPT ![r] = NoTag]
  /\ UNCHANGED <<latest, cached, redisDown, lastSeen, canceled, pc, scanVars, fanVars,
                 commands, faults>>

\* SIGTERM: the context is canceled.
Shutdown ==
  /\ ~canceled
  /\ canceled' = TRUE
  /\ UNCHANGED <<latest, redisVars, lastSeen, pc, scanVars, fanVars,
                 commands, faults>>

\* The process dies, or has stopped, and starts again: selectGitHubClient pings
\* Redis once.  A crash and a failed ping are faults.
Restart ==
  /\ cached' \in BOOLEAN
  /\ faults' = faults + (IF pc = "stopped" THEN 0 ELSE 1) + (IF cached' THEN 0 ELSE 1)
  /\ faults' <= MaxFaults
  /\ redisDown' = (redisDown \/ ~cached')
  /\ canceled' = FALSE
  /\ pc' = "idle"
  /\ todo' = {} /\ snapshot' = NothingSeen /\ rel' = NoTag /\ attempt' = 0
  /\ pending' = {} /\ sending' = {}
  /\ UNCHANGED <<latest, cache, lastSeen, repo, commands>>

Poll ==
  \/ \E out \in Outcomes :
       \/ Scan(out) \/ CacheGet(out) \/ GetLatestRelease(out) \/ CacheSet(out)
       \/ UpdateLastSeen(out) \/ GetEmailsByRepo(out)
  \/ NextRepo \/ RateLimited \/ Backoff \/ Decide \/ NotifyDone \/ Stop

Worker(e) == TakeJob(e) \/ \E out \in Outcomes : SendOne(e, out)

Next ==
  \/ Poll
  \/ \E e \in Emails : Worker(e)
  \/ \E r \in Repos : Release(r) \/ Expire(r)
  \/ Shutdown \/ Restart

Spec == Init /\ [][Next]_vars

\* The poller and its workers keep running and cache entries reach their TTL.
Fairness ==
  /\ WF_vars(Poll)
  /\ \A e \in Emails : WF_vars(Worker(e))
  /\ \A r \in Repos : WF_vars(Expire(r))

FairSpec == Spec /\ Fairness

-----------------------------------------------------------------------------
\* Given the same release, the poller hands each subscriber's notification to
\* the broker at most once, whatever crashes: last_seen_tag is persisted first
\* and never moves back.  A Redis that fails between two hits of a stale entry
\* breaks this, so it is claimed as long as Redis answered.
AtMostOnce ==
  redisDown \/ \A c \in DOMAIN commands : commands[c] <= 1

\* What is cached or persisted was released, and a cache entry is never older than
\* last_seen_tag.
TagsOrdered ==
  \A r \in Repos :
    /\ lastSeen[r] <= latest[r] /\ cache[r] <= latest[r]
    /\ cache[r] # NoTag => lastSeen[r] <= cache[r]

\* The scan's snapshot of what it has yet to decide on is current, and the release
\* at hand is what the cache holds, or came of a miss: not older than
\* last_seen_tag either, and newer when it is persisted.
ScanAgrees ==
  /\ \A r \in todo : snapshot[r] = lastSeen[r]
  /\ pc \in {"get", "base", "backoff", "set", "decide", "persist"} =>
       repo \notin todo /\ snapshot[repo] = lastSeen[repo]
  /\ pc \in {"base", "backoff"} => canceled \/ cache[repo] = NoTag
  /\ pc = "set" => cache[repo] = NoTag /\ rel # NoTag
  /\ pc \in {"set", "decide", "persist"} /\ rel # NoTag =>
       /\ lastSeen[repo] <= rel /\ rel <= latest[repo]
       /\ cache[repo] \in {NoTag, rel}
  /\ pc = "persist" => lastSeen[repo] < rel
  /\ pc \in {"list", "notify"} => repo \notin todo /\ rel # NoTag /\ rel = lastSeen[repo]

\* No command is out for a release that is not persisted yet, nor for the emails
\* that the fan-out has still to serve.
CommandsOnce ==
  /\ \A r \in Repos, t \in Tags, e \in Emails :
       commands[<<r, t, e>>] <= 1 /\ (commands[<<r, t, e>>] = 1 => t <= lastSeen[r])
  /\ pc = "list" => \A e \in Emails : commands[<<repo, rel, e>>] = 0
  /\ \A e \in pending \cup sending : commands[<<repo, rel, e>>] = 0
  /\ pending \cap sending = {}

\* What AtMostOnce rests on while Redis answers.
OnceInv == cached /\ TagsOrdered /\ ScanAgrees /\ CommandsOnce

\* The inductive invariant.
IInv ==
  /\ TypeOK
  /\ pc = "backoff" => attempt < MaxRetries
  /\ pc # "notify" => pending = {} /\ sending = {}
  /\ redisDown \/ OnceInv

\* A release that stays the latest is eventually recorded as seen, stale cache
\* entries, failed calls and crashes notwithstanding, unless the process is asked
\* to stop.
EventuallySeen ==
  \A r \in Repos, t \in Tags :
    latest[r] = t ~> lastSeen[r] = t \/ latest[r] # t \/ canceled

\* Once a release is recorded as seen everybody who is active gets a command for
\* it, however the workers share the jobs, unless a call fails, the process
\* crashes or it is asked to stop.
SubscribersNotified ==
  \A r \in Repos, t \in Tags :
    pc = "list" /\ repo = r /\ rel = t
      ~> (\A e \in Emails : commands[<<r, t, e>>] > 0) \/ canceled \/ faults > 0

\* A cancelled poller drains its workers and closes done, which waitForPoller
\* waits for; the process may only be cut short by a crash.
PollerStops ==
  canceled ~> pc = "stopped" \/ ~canceled
==============================================================================
