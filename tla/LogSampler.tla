------------------------------ MODULE LogSampler ------------------------------
(***************************************************************************)
(* internal/platform/logger: the sampler that every logger of a process    *)
(* shares.  Of each (level, message) it keeps the first records of a       *)
(* window and then every so many-th.                                       *)
(***************************************************************************)
EXTENDS Integers, Sequences

CONSTANTS
  Keys,        \* pairs of level and message
  First,       \* records kept at the start of a window
  Thereafter,  \* one record in so many is kept afterwards
  Interval,    \* window length, in ticks
  MaxWait,     \* the longest a call waits for the mutex, in ticks
  MaxTime,     \* bound on the clock
  MaxRecords   \* bound on the records of one key

\* newSampler replaces a setting that is not positive by its default.
SamplerAssumption ==
  /\ First \in Nat \ {0} /\ Thereafter \in Nat \ {0} /\ Interval \in Nat \ {0}
  /\ MaxWait \in Nat /\ MaxTime \in Nat /\ MaxRecords \in Nat

Times == 0..MaxTime
Absent == [count |-> 0, resetAt |-> 0]

VARIABLES
  now,      \* the clock
  windows,  \* the windows map, Absent where there is no entry
  logged,   \* when the records of each key got the mutex
  written   \* how many of them had been written after each record

vars == <<now, windows, logged, written>>

TypeOK ==
  /\ now \in Times
  /\ windows \in [Keys -> [count : 0..MaxRecords, resetAt : 0..(MaxTime + Interval)]]
  /\ logged \in [Keys -> Seq(Times)]
  /\ written \in [Keys -> Seq(Nat)]

Init ==
  /\ now = 0
  /\ windows = [k \in Keys |-> Absent]
  /\ logged = [k \in Keys |-> <<>>]
  /\ written = [k \in Keys |-> <<>>]

-----------------------------------------------------------------------------
\* Mutant: the record that opens a window does not reset the count.
CurrentStale(k, t) ==
  IF windows[k] = Absent \/ t > windows[k].resetAt
  THEN [windows[k] EXCEPT !.resetAt = t + Interval]
  ELSE windows[k]

\* !ok || now.After(w.resetAt): the window this record falls into.
Current(k, t) ==
  IF windows[k] = Absent \/ t > windows[k].resetAt
  THEN [count |-> 0, resetAt |-> t + Interval]
  ELSE windows[k]

\* Mutant: one record in Thereafter is dropped, not kept.
KeepsInverted(n) == n <= First \/ (n - First) % Thereafter # 0

\* The n-th record of a window is written.
Keeps(n) == n <= First \/ (n - First) % Thereafter = 0

\* Of the first n records, how many the counts in f say were written.
UpTo(f, n) == IF n = 0 THEN 0 ELSE f[n]

\* sampler.allow and the handler that acts on it.  The call read the clock at t and
\* then waited for the mutex, so records that read it later may come before it.
Handle(k, t) ==
  LET w == [Current(k, t) EXCEPT !.count = @ + 1]
      n == Len(logged[k])
  IN
  /\ t <= now /\ now - t <= MaxWait
  /\ n < MaxRecords
  /\ windows' = [windows EXCEPT ![k] = w]
  /\ logged' = [logged EXCEPT ![k] = Append(@, now)]
  /\ written' = [written EXCEPT
       ![k] = Append(@, UpTo(@, n) + (IF Keeps(w.count) THEN 1 ELSE 0))]
  /\ UNCHANGED now

Tick ==
  /\ now < MaxTime
  /\ now' = now + 1
  /\ UNCHANGED <<windows, logged, written>>

Next == (\E k \in Keys, t \in Times : Handle(k, t)) \/ Tick

Spec == Init /\ [][Next]_vars

-----------------------------------------------------------------------------
\* A flood is thinned: records that come within Interval of each other, less what
\* the mutex may delay them, are of at most two windows, and beyond the First of
\* each only one in Thereafter is written.
Thinned(at, f) ==
  \A i, j \in 1..Len(at) :
    i <= j /\ at[j] - at[i] <= Interval - MaxWait =>
      UpTo(f, j) - UpTo(f, i - 1) <= 2 * First + (j - i + 1) \div Thereafter + 1

FloodThinned == \A k \in Keys : Thinned(logged[k], written[k])

\* Low-volume logging is untouched: a record is dropped only if more than First
\* of its kind, it included, came within Interval and that delay; and a flood is
\* never silenced, one of any Thereafter records in a row is written.
Untouched(at, f) ==
  \A j \in 1..Len(at) :
    UpTo(f, j) = UpTo(f, j - 1) => j > First /\ at[j] - at[j - First] <= Interval + MaxWait

Heard(f) ==
  \A i \in 0..(Len(f) - Thereafter) : UpTo(f, i + Thereafter) > UpTo(f, i)

DroppedWasFlood == \A k \in Keys : Untouched(logged[k], written[k]) /\ Heard(written[k])

\* How many of the first n records of a window are written.
KeptOf(n) == IF n <= First THEN n ELSE First + (n - First) \div Thereafter

\* The past of a key and its window w: the records w counts are the last ones, the
\* first of them opened it, and of them and of those shortly before it as many
\* were written as the rule says.
WindowAgrees(at, f, w) ==
  LET before == Len(at) - w.count
      start == w.resetAt - Interval
  IN
  /\ Len(f) = Len(at)
  /\ before >= 0
  /\ IF w = Absent
     THEN before = 0
     ELSE /\ w.count > 0 /\ start >= 0
          /\ start <= at[before + 1] /\ at[before + 1] - start <= MaxWait
  /\ \A m \in 0..w.count : UpTo(f, before + m) = UpTo(f, before) + KeptOf(m)
  /\ \A i \in 1..before :
       at[before + 1] - at[i] <= Interval - MaxWait =>
         UpTo(f, before) - UpTo(f, i - 1)
           <= First + (before - i + Thereafter) \div Thereafter

\* The inductive invariant.
IInv ==
  /\ TypeOK
  /\ FloodThinned
  /\ DroppedWasFlood
  /\ \A k \in Keys :
       /\ \A i, j \in 1..Len(logged[k]) : i <= j => logged[k][i] <= logged[k][j]
       /\ \A i \in 1..Len(logged[k]) : logged[k][i] <= now
       /\ \A i, j \in 0..Len(logged[k]) : i <= j => UpTo(written[k], i) <= UpTo(written[k], j)
       /\ WindowAgrees(logged[k], written[k], windows[k])
===============================================================================
