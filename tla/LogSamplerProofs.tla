--------------------------- MODULE LogSamplerProofs ---------------------------
(***************************************************************************)
(* For every setting of the sampler and every set of messages: a flood is  *)
(* thinned to what two windows keep, nothing is dropped that was not part  *)
(* of a flood, and no flood is silenced.  The inductive invariant IInv is  *)
(* defined in LogSampler.                                                  *)
(***************************************************************************)
EXTENDS LogSampler, TLAPS

Sorted(a) == \A i, j \in 1..Len(a) : i <= j => a[i] <= a[j]

\* A past with one more entry.
LEMMA Appended ==
  ASSUME NEW S, NEW a \in Seq(S), NEW e \in S
  PROVE  /\ Append(a, e) \in Seq(S) /\ Len(a) \in Nat /\ Len(Append(a, e)) = Len(a) + 1
         /\ \A i \in 1..Len(a) : a[i] \in S /\ Append(a, e)[i] = a[i]
         /\ Append(a, e)[Len(a) + 1] = e
OBVIOUS

\* A past stays in order when it grows.
LEMMA SortedAppend ==
  ASSUME NEW M \in Nat, NEW a \in Seq(0..M), NEW t \in 0..M, Sorted(a),
         \A i \in 1..Len(a) : a[i] <= t
  PROVE  /\ Sorted(Append(a, t))
         /\ \A i \in 1..Len(Append(a, t)) : Append(a, t)[i] <= t
<1> DEFINE b == Append(a, t)
           n == Len(a)
<1>1. /\ n \in Nat /\ Len(b) = n + 1 /\ b[n + 1] = t
      /\ \A i \in 1..n : a[i] \in 0..M /\ b[i] = a[i]
  BY Appended
<1> HIDE DEF b, n
<1>2. \A i, j \in 1..n : i <= j => a[i] <= a[j]
  BY DEF Sorted, n
<1>3. \A i \in 1..n : a[i] <= t
  BY DEF n
<1>4. Sorted(b)
  <2> SUFFICES ASSUME NEW i \in 1..(n + 1), NEW j \in 1..(n + 1), i <= j PROVE b[i] <= b[j]
    BY <1>1 DEF Sorted
  <2>1. CASE j \in 1..n
    BY <1>1, <1>2, <2>1
  <2>2. CASE j = n + 1 /\ i \in 1..n
    BY <1>1, <1>3, <2>2
  <2>3. CASE i = n + 1 /\ j = n + 1
    BY <1>1, <2>3
  <2> QED
    BY <1>1, <2>1, <2>2, <2>3
<1>5. \A i \in 1..Len(b) : b[i] <= t
  BY <1>1, <1>3
<1> QED
  BY <1>4, <1>5 DEF b

-----------------------------------------------------------------------------
(* Quotients.                                                              *)

LEMMA Quotient ==
  ASSUME NEW T \in Nat \ {0}, NEW x \in Nat
  PROVE  /\ x \div T \in Nat /\ T * (x \div T) \in Nat
         /\ T * (x \div T) <= x /\ x < T * (x \div T) + T
OBVIOUS

\* A bound on a quotient is a bound on what is divided.
LEMMA QuotientBelow ==
  ASSUME NEW T \in Nat \ {0}, NEW x \in Nat, NEW q \in Nat, x < T * q + T
  PROVE  x \div T <= q
<1> DEFINE p == x \div T
<1>1. p \in Nat /\ T * p <= x
  BY Quotient
<1> HIDE DEF p
<1>2. ASSUME p >= q + 1 PROVE FALSE
  <2>1. T * p >= T * (q + 1)
    BY <1>1, <1>2
  <2>2. T * (q + 1) = T * q + T
    OBVIOUS
  <2> QED
    BY <1>1, <2>1, <2>2
<1>3. p <= q
  BY <1>1, <1>2
<1> QED
  BY <1>3 DEF p

LEMMA QuotientAbove ==
  ASSUME NEW T \in Nat \ {0}, NEW x \in Nat, NEW q \in Nat, T * q <= x
  PROVE  q <= x \div T
<1> DEFINE p == x \div T
<1>1. p \in Nat /\ x < T * p + T
  BY Quotient
<1> HIDE DEF p
<1>2. ASSUME q >= p + 1 PROVE FALSE
  <2>1. T * q >= T * (p + 1)
    BY <1>1, <1>2
  <2>2. T * (p + 1) = T * p + T
    BY <1>1
  <2> QED
    BY <1>1, <2>1, <2>2
<1>3. q <= p
  BY <1>1, <1>2
<1> QED
  BY <1>3 DEF p

\* Quotients grow with what is divided, and a sum is divided almost like its parts.
LEMMA QuotientMonotone ==
  ASSUME NEW T \in Nat \ {0}, NEW x \in Nat, NEW y \in Nat, x <= y
  PROVE  x \div T <= y \div T
<1>1. x \div T \in Nat /\ T * (x \div T) <= y
  BY Quotient
<1> QED
  BY <1>1, QuotientAbove

LEMMA QuotientSum ==
  ASSUME NEW T \in Nat \ {0}, NEW x \in Nat, NEW y \in Nat
  PROVE  /\ x \div T + y \div T <= (x + y) \div T
         /\ (x + y) \div T <= x \div T + y \div T + 1
<1> DEFINE p == x \div T
           q == y \div T
<1>1. /\ p \in Nat /\ T * p \in Nat /\ T * p <= x /\ x < T * p + T
      /\ q \in Nat /\ T * q \in Nat /\ T * q <= y /\ y < T * q + T
  BY Quotient
<1> HIDE DEF p, q
<1>2. T * (p + q) = T * p + T * q
  BY <1>1
<1>3. T * (p + q + 1) = T * p + T * q + T
  BY <1>1
<1>4. p + q <= (x + y) \div T
  BY <1>1, <1>2, QuotientAbove
<1>5. (x + y) \div T <= p + q + 1
  BY <1>1, <1>3, QuotientBelow
<1> QED
  BY <1>4, <1>5 DEF p, q

\* One step up, and a whole divisor up.
LEMMA QuotientNext ==
  ASSUME NEW T \in Nat \ {0}, NEW x \in Nat
  PROVE  /\ (x + 1) \div T = x \div T + (IF (x + 1) % T = 0 THEN 1 ELSE 0)
         /\ (x + T) \div T = x \div T + 1
<1> DEFINE p == x \div T
           q == (x + 1) \div T
           r == (x + 1) % T
<1>1. /\ p \in Nat /\ T * p \in Nat /\ T * p <= x /\ x < T * p + T
      /\ q \in Nat /\ T * q \in Nat /\ T * q <= x + 1 /\ x + 1 < T * q + T
  BY Quotient
<1>2. x + 1 = T * q + r /\ r \in 0..(T - 1)
  OBVIOUS
<1>3. p <= q
  BY QuotientMonotone
<1>4. (x + T) \div T = p + 1
  <2>1. T * (p + 1) = T * p + T
    BY <1>1
  <2>2. x + T \in Nat /\ p + 1 \in Nat /\ T * (p + 1) <= x + T /\ x + T < T * (p + 1) + T
    BY <1>1, <2>1
  <2>3. (x + T) \div T \in Nat
    BY <2>2, Quotient
  <2>4. p + 1 <= (x + T) \div T
    BY <2>2, QuotientAbove
  <2>5. (x + T) \div T <= p + 1
    BY <2>2, QuotientBelow
  <2> HIDE DEF p
  <2> QED
    BY <1>1, <2>3, <2>4, <2>5
<1> HIDE DEF p, q, r
<1>5. q <= p + 1
  <2>1. ASSUME q >= p + 2 PROVE FALSE
    <3>1. T * q >= T * (p + 2)
      BY <1>1, <2>1
    <3>2. T * (p + 2) = T * p + T + T
      BY <1>1
    <3> QED
      BY <1>1, <3>1, <3>2
  <2> QED
    BY <1>1, <2>1
<1>6. CASE q = p
  <2>1. r # 0
    BY <1>1, <1>2, <1>6
  <2> QED
    BY <1>4, <1>6, <2>1, <1>1 DEF p, q, r
<1>7. CASE q = p + 1
  <2>1. T * q = T * p + T
    BY <1>1, <1>7
  <2>2. r = 0
    BY <1>1, <1>2, <2>1
  <2> QED
    BY <1>4, <1>7, <2>2 DEF p, q, r
<1> QED
  BY <1>1, <1>3, <1>5, <1>6, <1>7

-----------------------------------------------------------------------------
(* What a window keeps.                                                    *)

\* How many records of a window are written: what each record adds, that the first
\* is written, and that one of any Thereafter is.
LEMMA KeptOfStep ==
  ASSUME SamplerAssumption, NEW m \in Nat
  PROVE  /\ KeptOf(m) \in Nat
         /\ KeptOf(m + 1) = KeptOf(m) + (IF Keeps(m + 1) THEN 1 ELSE 0)
         /\ KeptOf(m + Thereafter) > KeptOf(m)
         /\ KeptOf(0) = 0
<1> DEFINE F == First
           T == Thereafter
<1> USE DEF SamplerAssumption
<1>1. CASE m < F
  <2>1. KeptOf(m) = m /\ KeptOf(m + 1) = m + 1 /\ Keeps(m + 1) /\ KeptOf(0) = 0
    BY <1>1 DEF KeptOf, Keeps
  <2>2. CASE m + T <= F
    BY <2>1, <2>2 DEF KeptOf
  <2>3. CASE m + T > F
    <3>1. (m + T - F) \div T \in Nat
      BY <2>3, Quotient
    <3> QED
      BY <1>1, <2>1, <2>3, <3>1 DEF KeptOf
  <2> QED
    BY <2>1, <2>2, <2>3
<1>2. CASE m >= F
  <2> DEFINE x == m - F
  <2>1. x \in Nat /\ x \div T \in Nat
    BY <1>2, Quotient
  <2>2. /\ (x + 1) \div T = x \div T + (IF (x + 1) % T = 0 THEN 1 ELSE 0)
        /\ (x + T) \div T = x \div T + 1
    BY <2>1, QuotientNext, Zenon
  <2>3. KeptOf(m) = F + x \div T
    <3>1. x = 0 => x \div T = 0
      BY <2>1, QuotientBelow
    <3> QED
      BY <1>2, <2>1, <3>1 DEF KeptOf
  <2>4. m + 1 - F = x + 1 /\ m + T - F = x + T /\ ~(m + 1 <= F) /\ ~(m + T <= F)
    BY <1>2
  <2>7. KeptOf(0) = 0
    BY DEF KeptOf
  <2> HIDE DEF x
  <2>5. KeptOf(m + 1) = F + (x + 1) \div T /\ KeptOf(m + T) = F + (x + T) \div T
    BY <2>4 DEF KeptOf
  <2>6. Keeps(m + 1) <=> (x + 1) % T = 0
    BY <2>4 DEF Keeps
  <2> QED
    BY <2>1, <2>2, <2>3, <2>5, <2>6, <2>7
<1> QED
  BY <1>1, <1>2

\* The records l + 1 to m of a window: beyond the first ones, one in Thereafter is
\* written, rounded up.
LEMMA KeptOfTail ==
  ASSUME SamplerAssumption, NEW l \in Nat, NEW m \in Nat, l <= m
  PROVE  /\ KeptOf(m) - KeptOf(l) <= First + (m - l + Thereafter - 1) \div Thereafter
         /\ KeptOf(l) <= KeptOf(m)
<1> DEFINE F == First
           T == Thereafter
           c == (m - l + T - 1) \div T
<1> USE DEF SamplerAssumption
<1>1. c \in Nat
  BY Quotient
<1>2. CASE m <= F
  BY <1>1, <1>2 DEF KeptOf
<1>3. CASE m > F /\ l <= F
  <2> DEFINE q == (m - F) \div T
  <2>1. m - F \in Nat /\ m - l + T - 1 \in Nat
    BY <1>3
  <2>2. q \in Nat
    BY <2>1, Quotient
  <2>3. CASE l = F
    <3>1. m - F <= m - l + T - 1
      BY <2>3
    <3>2. q <= c
      BY <2>1, <3>1, QuotientMonotone
    <3>3. KeptOf(m) = F + q /\ KeptOf(l) = F
      BY <1>3, <2>3 DEF KeptOf
    <3> HIDE DEF c, q
    <3>4. KeptOf(m) - KeptOf(l) <= F + c /\ KeptOf(l) <= KeptOf(m)
      BY <1>1, <2>2, <3>2, <3>3
    <3> QED
      BY <3>4 DEF c
  <2>4. CASE l < F
    <3>1. m - F <= m - l + T - 1
      BY <2>4
    <3>2. q <= c
      BY <2>1, <3>1, QuotientMonotone
    <3>3. KeptOf(m) = F + q /\ KeptOf(l) = l
      BY <1>3 DEF KeptOf
    <3> HIDE DEF c, q
    <3>4. KeptOf(m) - KeptOf(l) <= F + c /\ KeptOf(l) <= KeptOf(m)
      BY <1>1, <1>3, <2>2, <3>2, <3>3
    <3> QED
      BY <3>4 DEF c
  <2> QED
    BY <1>3, <2>3, <2>4
<1>4. CASE l > F
  <2> DEFINE p == (l - F) \div T
             q == (m - F) \div T
             d == (m - l) \div T
  <2>1. l - F \in Nat /\ m - F \in Nat /\ m - l \in Nat /\ l - F <= m - F /\ (l - F) + (m - l) = m - F
    BY <1>4
  <2>2. p \in Nat /\ q \in Nat /\ d \in Nat /\ p <= q
    BY <2>1, Quotient, QuotientMonotone
  <2>3. q <= p + d + 1
    BY <2>1, QuotientSum
  <2>4. KeptOf(m) = F + q /\ KeptOf(l) = F + p
    BY <1>4 DEF KeptOf
  <2>5. d <= c
    BY <2>1, QuotientMonotone
  <2> HIDE DEF c, p, q, d
  <2>6. KeptOf(m) - KeptOf(l) <= F + c /\ KeptOf(l) <= KeptOf(m)
    BY <1>1, <2>2, <2>3, <2>4, <2>5
  <2> QED
    BY <2>6 DEF c
<1> QED
  BY <1>2, <1>3, <1>4

\* Two windows together: the tail of one and the beginning of the next.
LEMMA KeptOfTwo ==
  ASSUME SamplerAssumption, NEW x \in Nat, NEW m \in Nat
  PROVE  /\ First + (x + Thereafter - 1) \div Thereafter + KeptOf(m)
              <= 2 * First + (x + m) \div Thereafter + 1
         /\ First + (x + Thereafter - 1) \div Thereafter
              <= 2 * First + x \div Thereafter + 1
<1> DEFINE F == First
           T == Thereafter
           c == (x + T - 1) \div T
           p == x \div T
           q == m \div T
           s == (x + m) \div T
<1> USE DEF SamplerAssumption
<1>1. c \in Nat /\ p \in Nat /\ q \in Nat /\ s \in Nat
  BY Quotient
<1>2. c <= p + 1
  <2>1. (x + T) \div T = p + 1
    BY QuotientNext, Zenon
  <2>2. x + T - 1 \in Nat /\ x + T \in Nat /\ x + T - 1 <= x + T
    OBVIOUS
  <2>3. c <= (x + T) \div T
    BY <2>2, QuotientMonotone
  <2> HIDE DEF c, p
  <2> QED
    BY <2>1, <2>3
<1>3. p + q <= s
  BY QuotientSum
<1>4. KeptOf(m) <= F + q /\ KeptOf(m) \in Nat
  <2>1. CASE m <= F
    <3>1. KeptOf(m) = m
      BY <2>1 DEF KeptOf
    <3> HIDE DEF q
    <3> QED
      BY <1>1, <2>1, <3>1
  <2>2. CASE m > F
    <3>1. m - F \in Nat /\ m - F <= m
      BY <2>2
    <3>2. (m - F) \div T <= q /\ (m - F) \div T \in Nat
      BY <3>1, QuotientMonotone, Quotient
    <3>3. KeptOf(m) = F + (m - F) \div T
      BY <2>2 DEF KeptOf
    <3> DEFINE k == (m - F) \div T
    <3> HIDE DEF q, k
    <3>4. k <= q /\ k \in Nat /\ KeptOf(m) = F + k
      BY <3>2, <3>3 DEF k
    <3> QED
      BY <1>1, <3>4
  <2> QED
    BY <2>1, <2>2
<1> HIDE DEF c, p, q, s
<1>5. F + c + KeptOf(m) <= 2 * F + s + 1 /\ F + c <= 2 * F + p + 1
  BY <1>1, <1>2, <1>3, <1>4
<1> QED
  BY <1>5 DEF c, p, s

\* A key's past and its window, as the invariant has them.
KeyPast(at, f, w) ==
  /\ at \in Seq(0..MaxTime) /\ f \in Seq(Nat) /\ now \in 0..MaxTime
  /\ w \in [count : 0..MaxRecords, resetAt : 0..(MaxTime + Interval)]
  /\ Sorted(at) /\ \A i \in 1..Len(at) : at[i] <= now
  /\ \A i, j \in 0..Len(at) : i <= j => UpTo(f, i) <= UpTo(f, j)
  /\ WindowAgrees(at, f, w)

\* The same, for a window of c records that began at start and is open; it is
\* about to get a record, which opens it if c is 0.
Opened(at, c) == IF c = 0 THEN now ELSE at[Len(at) - c + 1]

Ready(at, f, c, start) ==
  LET before == Len(at) - c IN
  /\ c \in Nat /\ before \in Nat /\ Len(f) = Len(at)
  /\ start \in Nat /\ start <= now /\ now - start <= Interval + MaxWait
  /\ start <= Opened(at, c) /\ Opened(at, c) - start <= MaxWait
  /\ \A m \in 0..c :
       UpTo(f, before + m) = UpTo(f, before) + KeptOf(m)
  /\ \A i \in 1..before :
       Opened(at, c) - at[i] <= Interval - MaxWait =>
         UpTo(f, before) - UpTo(f, i - 1)
           <= First + (before - i + Thereafter) \div Thereafter

\* What the counts are about.
LEMMA Counts ==
  ASSUME NEW f \in Seq(Nat)
  PROVE  /\ UpTo(f, 0) = 0
         /\ \A i \in 0..Len(f) : UpTo(f, i) \in Nat
BY DEF UpTo

LEMMA CountsAppend ==
  ASSUME NEW f \in Seq(Nat), NEW x \in Nat
  PROVE  /\ \A i \in 0..Len(f) : UpTo(Append(f, x), i) = UpTo(f, i)
         /\ UpTo(Append(f, x), Len(f) + 1) = x
<1> DEFINE g == Append(f, x)
           n == Len(f)
<1>1. n \in Nat /\ g[n + 1] = x /\ \A i \in 1..n : g[i] = f[i]
  BY Appended
<1> HIDE DEF g, n
<1>2. \A i \in 0..n : UpTo(g, i) = UpTo(f, i)
  <2> SUFFICES ASSUME NEW i \in 0..n PROVE UpTo(g, i) = UpTo(f, i)
    OBVIOUS
  <2>1. i = 0 \/ i \in 1..n
    BY <1>1
  <2> QED
    BY <1>1, <2>1 DEF UpTo
<1>3. UpTo(g, n + 1) = x
  BY <1>1 DEF UpTo
<1> QED
  BY <1>2, <1>3 DEF g, n

\* A record that comes after the window, or is the first, opens a new one: of the
\* records shortly before it, all in the old window, few enough were written.
LEMMA OpenReady ==
  ASSUME SamplerAssumption, NEW at, NEW f, NEW w, KeyPast(at, f, w),
         NEW t \in Nat, t <= now, now - t <= MaxWait, w = Absent \/ t > w.resetAt
  PROVE  Ready(at, f, 0, t)
<1> DEFINE n == Len(at)
           c == w.count
           before == n - c
           u(i) == UpTo(f, i)
<1> USE DEF SamplerAssumption
<1>1. n \in Nat /\ c \in Nat /\ now \in Nat /\ w.resetAt \in Nat /\ \A i \in 1..n : at[i] \in Nat
  BY DEF KeyPast
<1>2. Len(f) = n /\ before >= 0 /\ \A m \in 0..c : u(before + m) = u(before) + KeptOf(m)
  BY DEF KeyPast, WindowAgrees
<1>3. \A i \in 0..n : u(i) \in Nat
  BY <1>2, Counts DEF KeyPast
<1>4. \A i, j \in 1..n : i <= j => at[i] <= at[j]
  BY DEF KeyPast, Sorted
<1>5. KeptOf(0) = 0 /\ Opened(at, 0) = now /\ now - t <= Interval + MaxWait
  BY <1>1, KeptOfStep DEF Opened
<1>6. CASE w = Absent
  <2>1. n = 0
    <3>1. c = 0
      BY <1>6 DEF Absent
    <3>2. before = 0
      BY <1>6 DEF KeyPast, WindowAgrees
    <3> QED
      BY <1>1, <3>1, <3>2
  <2> HIDE DEF n, u
  <2>2. Len(at) = n /\ n - 0 = 0
    BY <2>1 DEF n
  <2>3. UpTo(f, 0) = UpTo(f, 0) + KeptOf(0)
    BY <1>5, Counts DEF KeyPast
  <2> QED
    BY <1>1, <1>2, <1>5, <2>1, <2>2, <2>3 DEF Ready
<1>7. CASE w # Absent
  <2>1. c > 0 /\ at[before + 1] - (w.resetAt - Interval) <= MaxWait /\ t > w.resetAt
    BY <1>7 DEF KeyPast, WindowAgrees
  <2> HIDE DEF n, u, c
  <2>2. ASSUME NEW i \in 1..n, now - at[i] <= Interval - MaxWait
        PROVE  u(n) - u(i - 1) <= First + (n - i + Thereafter) \div Thereafter
    <3>1. before + 1 \in 1..n
      BY <1>1, <1>2, <2>1
    <3>2. at[i] > at[before + 1]
      <4>1. at[i] \in Nat /\ at[before + 1] \in Nat
        BY <1>1, <2>2, <3>1
      <4> QED
        BY <1>1, <2>1, <2>2, <4>1
    <3>3. i > before + 1
      BY <1>1, <1>4, <2>2, <3>1, <3>2
    <3> DEFINE l == i - 1 - before
    <3>4. l \in 0..c /\ before + l = i - 1 /\ before + c = n /\ c - l + Thereafter - 1 = n - i + Thereafter
      BY <1>1, <1>2, <2>2, <3>3
    <3>5. /\ u(i - 1) = u(before) + KeptOf(l)
          /\ u(n) = u(before) + KeptOf(c)
      BY <1>1, <1>2, <3>4
    <3>6. KeptOf(c) - KeptOf(l) <= First + (n - i + Thereafter) \div Thereafter
      BY <1>1, <3>4, KeptOfTail
    <3>7. KeptOf(c) \in Nat /\ KeptOf(l) \in Nat /\ u(before) \in Nat
      <4>1. c \in Nat /\ l \in Nat /\ before \in 0..n
        BY <1>1, <1>2, <3>4
      <4>2. u(before) \in Nat
        BY <1>3, <4>1
      <4> HIDE DEF l
      <4> QED
        BY <4>1, <4>2, KeptOfStep
    <3>8. n - i + Thereafter \in Nat /\ (n - i + Thereafter) \div Thereafter \in Nat
      BY <1>1, <2>2, Quotient
    <3> HIDE DEF l, before
    <3> QED
      BY <3>5, <3>6, <3>7, <3>8
  <2>3. u(n + 0) = u(n) + KeptOf(0) /\ n - 0 = n /\ n + 0 = n
    <3>1. n + 0 = n /\ n - 0 = n /\ u(n) \in Nat
      BY <1>1, <1>3
    <3> QED
      BY <1>5, <3>1
  <2>4. \A m \in 0..0 : u(n + m) = u(n) + KeptOf(m)
    BY <2>3
  <2> QED
    BY <1>1, <1>2, <1>5, <2>2, <2>3, <2>4 DEF Ready, n, u
<1> QED
  BY <1>6, <1>7

\* A record that comes within the window.
LEMMA OpenedReady ==
  ASSUME SamplerAssumption, NEW at, NEW f, NEW w, KeyPast(at, f, w), w # Absent,
         NEW t \in Nat, now - t <= MaxWait, ~(t > w.resetAt)
  PROVE  Ready(at, f, w.count, w.resetAt - Interval)
<1> DEFINE n == Len(at)
           c == w.count
           before == n - c
           start == w.resetAt - Interval
<1> USE DEF SamplerAssumption
<1>1. n \in Nat /\ c \in Nat /\ now \in Nat /\ w.resetAt \in Nat /\ \A i \in 1..n : at[i] \in Nat
  BY DEF KeyPast
<1>2. /\ Len(f) = n /\ before >= 0 /\ c > 0 /\ start >= 0
      /\ start <= at[before + 1] /\ at[before + 1] - start <= MaxWait
  BY DEF KeyPast, WindowAgrees
<1>3. /\ \A m \in 0..c : UpTo(f, before + m) = UpTo(f, before) + KeptOf(m)
      /\ \A i \in 1..before :
           at[before + 1] - at[i] <= Interval - MaxWait =>
             UpTo(f, before) - UpTo(f, i - 1)
               <= First + (before - i + Thereafter) \div Thereafter
  BY DEF KeyPast, WindowAgrees
<1>4. before \in Nat /\ before + 1 \in 1..n
  BY <1>1, <1>2
<1>5. start \in Nat /\ start <= now /\ now - start <= Interval + MaxWait
  <2>1. start \in Nat
    BY <1>1, <1>2
  <2>2. now - start <= Interval + MaxWait
    BY <1>1
  <2>3. at[before + 1] <= now /\ at[before + 1] \in Nat
    BY <1>1, <1>4, Zenon DEF KeyPast
  <2> HIDE DEF start
  <2> QED
    BY <1>1, <1>2, <2>1, <2>2, <2>3
<1> HIDE DEF start, c
<1>6. Opened(at, c) = at[before + 1]
  BY <1>1, <1>2 DEF Opened
<1> QED
  BY <1>1, <1>2, <1>3, <1>4, <1>5, <1>6, Zenon DEF Ready, start, c

\* The record is counted, and written when its number in the window says so.
LEMMA RecordAgrees ==
  ASSUME SamplerAssumption, NEW at \in Seq(0..MaxTime), NEW f \in Seq(Nat), now \in 0..MaxTime,
         NEW c, NEW start, Ready(at, f, c, start),
         NEW w, w # Absent, w.count = c + 1, w.resetAt = start + Interval
  PROVE  WindowAgrees(Append(at, now),
           Append(f, UpTo(f, Len(at)) + (IF Keeps(w.count) THEN 1 ELSE 0)), w)
<1> DEFINE n == Len(at)
           before == n - c
           x == UpTo(f, n) + (IF Keeps(w.count) THEN 1 ELSE 0)
           bt == Append(at, now)
           g == Append(f, x)
<1> USE DEF SamplerAssumption
<1>1. n \in Nat /\ Len(f) = n /\ c \in Nat /\ before \in Nat /\ start \in Nat
  BY DEF Ready
<1>2. UpTo(f, n) \in Nat /\ x \in Nat
  <2>1. UpTo(f, n) \in Nat
    BY <1>1, Counts
  <2> QED
    BY <2>1
<1>3. Len(bt) = n + 1 /\ bt[n + 1] = now /\ \A i \in 1..n : bt[i] = at[i]
  BY Appended
<1>4. Len(g) = n + 1
  BY <1>1, <1>2, Appended
<1>5. (\A i \in 0..n : UpTo(g, i) = UpTo(f, i)) /\ UpTo(g, n + 1) = x
  BY <1>1, <1>2, CountsAppend
<1>6. start <= Opened(at, c) /\ Opened(at, c) - start <= MaxWait
  BY DEF Ready
<1>7. /\ \A m \in 0..c : UpTo(f, before + m) = UpTo(f, before) + KeptOf(m)
      /\ \A i \in 1..before :
           Opened(at, c) - at[i] <= Interval - MaxWait =>
             UpTo(f, before) - UpTo(f, i - 1)
               <= First + (before - i + Thereafter) \div Thereafter
  BY DEF Ready
<1>8. x = UpTo(f, n) + (IF Keeps(c + 1) THEN 1 ELSE 0)
  OBVIOUS
<1> HIDE DEF n, x, bt, g
<1>9. Len(bt) - w.count = before
  BY <1>1, <1>3
<1>10. bt[before + 1] = Opened(at, c)
  <2>1. CASE c = 0
    BY <1>1, <1>3, <2>1 DEF Opened
  <2>2. CASE c # 0
    <3>1. before + 1 \in 1..n
      BY <1>1, <2>2
    <3> QED
      BY <1>3, <2>2, <3>1 DEF Opened, n
  <2> QED
    BY <2>1, <2>2
<1>11. \A m \in 0..w.count : UpTo(g, before + m) = UpTo(g, before) + KeptOf(m)
  <2> SUFFICES ASSUME NEW m \in 0..(c + 1)
               PROVE  UpTo(g, before + m) = UpTo(g, before) + KeptOf(m)
    BY <1>1
  <2>1. before \in 0..n /\ UpTo(g, before) = UpTo(f, before)
    BY <1>1, <1>5
  <2>2. CASE m \in 0..c
    <3>1. before + m \in 0..n
      BY <1>1, <2>2
    <3> QED
      BY <1>5, <1>7, <2>1, <2>2, <3>1
  <2>3. CASE m = c + 1
    <3>1. before + m = n + 1 /\ before + c = n /\ c \in 0..c
      BY <1>1, <2>3
    <3>2. UpTo(f, n) = UpTo(f, before) + KeptOf(c)
      BY <1>7, <3>1
    <3>3. KeptOf(c + 1) = KeptOf(c) + (IF Keeps(c + 1) THEN 1 ELSE 0)
      BY <1>1, KeptOfStep
    <3>4. KeptOf(c) \in Nat /\ UpTo(f, before) \in Nat
      BY <1>1, <2>1, Counts, KeptOfStep, Zenon
    <3>5. UpTo(g, before + m) = x /\ KeptOf(m) = KeptOf(c + 1)
      BY <1>5, <2>3, <3>1, Zenon
    <3>6. x = UpTo(f, before) + KeptOf(c + 1)
      BY <1>8, <3>2, <3>3, <3>4
    <3> QED
      BY <2>1, <3>5, <3>6, Zenon
  <2> QED
    BY <1>1, <2>2, <2>3
<1>12. ASSUME NEW i \in 1..before, bt[before + 1] - bt[i] <= Interval - MaxWait
       PROVE  UpTo(g, before) - UpTo(g, i - 1)
                <= First + (before - i + Thereafter) \div Thereafter
  <2>1. i \in 1..n /\ i - 1 \in 0..n /\ before \in 0..n
    BY <1>1, <1>12
  <2>2. Opened(at, c) - at[i] <= Interval - MaxWait
    BY <1>3, <1>10, <1>12, <2>1
  <2> QED
    BY <1>5, <1>7, <1>12, <2>1, <2>2
<1>13. w.count > 0 /\ w.resetAt - Interval = start /\ start >= 0 /\ before >= 0
  BY <1>1
<1>14. WindowAgrees(bt, g, w)
  BY <1>3, <1>4, <1>6, <1>9, <1>10, <1>11, <1>12, <1>13, Zenon DEF WindowAgrees
<1> QED
  BY <1>14 DEF bt, g, x, n

\* The whole past of the key after the record.
LEMMA RecordPast ==
  ASSUME SamplerAssumption, NEW at, NEW f, NEW v, KeyPast(at, f, v), NEW c, NEW start, Ready(at, f, c, start),
         Len(at) < MaxRecords,
         NEW w, w = [count |-> c + 1, resetAt |-> start + Interval]
  PROVE  KeyPast(Append(at, now),
           Append(f, UpTo(f, Len(at)) + (IF Keeps(w.count) THEN 1 ELSE 0)), w)
<1> DEFINE n == Len(at)
           x == UpTo(f, n) + (IF Keeps(w.count) THEN 1 ELSE 0)
           bt == Append(at, now)
           g == Append(f, x)
<1> USE DEF SamplerAssumption
<1>1. /\ n \in Nat /\ Len(f) = n /\ c \in Nat /\ n - c \in Nat /\ n < MaxRecords
      /\ start \in Nat /\ start <= now
  BY DEF Ready
<1>2. at \in Seq(0..MaxTime) /\ f \in Seq(Nat) /\ now \in 0..MaxTime /\ Sorted(at)
      /\ \A i \in 1..n : at[i] <= now
  BY DEF KeyPast
<1>3. \A i \in 0..n : UpTo(f, i) \in Nat
  BY <1>1, <1>2, Counts
<1>4. x \in Nat /\ UpTo(f, n) \in Nat /\ x >= UpTo(f, n)
  <2>1. UpTo(f, n) \in Nat
    BY <1>1, <1>3
  <2> QED
    BY <2>1
<1>5. bt \in Seq(0..MaxTime) /\ g \in Seq(Nat) /\ Len(bt) = n + 1
  BY <1>2, <1>4, Appended
<1>6. Sorted(bt) /\ \A i \in 1..Len(bt) : bt[i] <= now
  BY <1>2, SortedAppend, Zenon
<1>7. w.count = c + 1 /\ w.resetAt = start + Interval
  OBVIOUS
<1>8. c + 1 \in 0..MaxRecords /\ start + Interval \in 0..(MaxTime + Interval) /\ c + 1 # 0
  BY <1>1, <1>2
<1>9. w \in [count : 0..MaxRecords, resetAt : 0..(MaxTime + Interval)] /\ w # Absent
  BY <1>7, <1>8 DEF Absent
<1>10. WindowAgrees(bt, g, w)
  BY <1>2, <1>7, <1>9, RecordAgrees, Zenon
<1>11. (\A i \in 0..n : UpTo(g, i) = UpTo(f, i)) /\ UpTo(g, n + 1) = x
  BY <1>1, <1>2, <1>4, CountsAppend
<1>12. \A i, j \in 0..n : i <= j => UpTo(f, i) <= UpTo(f, j)
  BY DEF KeyPast
<1> HIDE DEF bt, g, n, x
<1>13. \A i, j \in 0..Len(bt) : i <= j => UpTo(g, i) <= UpTo(g, j)
  <2> SUFFICES ASSUME NEW i \in 0..(n + 1), NEW j \in 0..(n + 1), i <= j
               PROVE  UpTo(g, i) <= UpTo(g, j)
    BY <1>5
  <2>1. CASE j \in 0..n
    <3>1. i \in 0..n
      BY <1>1, <2>1
    <3> QED
      BY <1>11, <1>12, <2>1, <3>1
  <2>2. CASE j = n + 1 /\ i \in 0..n
    <3>1. n \in 0..n /\ i <= n
      BY <1>1, <2>2
    <3>2. UpTo(f, i) <= UpTo(f, n)
      BY <1>12, <2>2, <3>1
    <3> QED
      BY <1>3, <1>4, <1>11, <2>2, <3>2
  <2>3. CASE j = n + 1 /\ i = n + 1
    BY <1>4, <1>11, <2>3
  <2> QED
    BY <1>1, <2>1, <2>2, <2>3
<1>14. KeyPast(bt, g, w)
  BY <1>2, <1>5, <1>6, <1>9, <1>10, <1>13, Zenon DEF KeyPast
<1> QED
  BY <1>14 DEF bt, g, x, n

\* What the invariant says of the last record of a key.
LEMMA LastRecord ==
  ASSUME SamplerAssumption, NEW at, NEW f, NEW w, KeyPast(at, f, w), w # Absent, NEW n, n = Len(at),
         at[n] <= w.resetAt + MaxWait
  PROVE  /\ n \in Nat \ {0}
         /\ \A i \in 1..n : at[n] - at[i] <= Interval - MaxWait =>
              UpTo(f, n) - UpTo(f, i - 1) <= 2 * First + (n - i + 1) \div Thereafter + 1
         /\ UpTo(f, n) = UpTo(f, n - 1) => n > First /\ at[n] - at[n - First] <= Interval + MaxWait
         /\ n >= Thereafter => UpTo(f, n) > UpTo(f, n - Thereafter)
<1> DEFINE c == w.count
           before == n - c
           u(i) == UpTo(f, i)
           K(m) == KeptOf(m)
<1> USE DEF SamplerAssumption
<1>1. n \in Nat /\ c \in Nat /\ w.resetAt \in Nat /\ \A i \in 1..n : at[i] \in Nat
  BY DEF KeyPast
<1>2. Len(f) = n /\ before >= 0 /\ c > 0 /\ w.resetAt - Interval <= at[before + 1]
  BY DEF KeyPast, WindowAgrees
<1>3. /\ \A m \in 0..c : u(before + m) = u(before) + K(m)
      /\ \A i \in 1..before :
           at[before + 1] - at[i] <= Interval - MaxWait =>
             u(before) - u(i - 1) <= First + (before - i + Thereafter) \div Thereafter
  BY DEF KeyPast, WindowAgrees
<1>4. \A i \in 0..n : u(i) \in Nat
  BY <1>2, Counts DEF KeyPast
<1>5. /\ \A i, j \in 1..n : i <= j => at[i] <= at[j]
      /\ \A i, j \in 0..n : i <= j => u(i) <= u(j)
  BY DEF KeyPast, Sorted
<1>6. \A m \in Nat : /\ K(m) \in Nat /\ K(m + Thereafter) > K(m)
                     /\ K(m + 1) = K(m) + (IF Keeps(m + 1) THEN 1 ELSE 0)
  BY KeptOfStep, Zenon
<1> HIDE DEF c, u, K
<1>7. before \in 0..n /\ before + c = n /\ n \in Nat \ {0} /\ before + 1 \in 1..n /\ c \in 0..c
  BY <1>1, <1>2
<1>8. u(n) = u(before) + K(c) /\ u(before) \in Nat /\ K(c) \in Nat
  BY <1>1, <1>3, <1>4, <1>6, <1>7, Zenon
<1>9. ASSUME NEW i \in 1..n, at[n] - at[i] <= Interval - MaxWait
      PROVE  u(n) - u(i - 1) <= 2 * First + (n - i + 1) \div Thereafter + 1
  <2>1. CASE i > before
    <3> DEFINE l == i - 1 - before
               y == n - i + 1
    <3>1. l \in 0..c /\ before + l = i - 1 /\ y \in Nat /\ c - l + Thereafter - 1 = y + Thereafter - 1
      BY <1>1, <1>7, <2>1
    <3> HIDE DEF l, before
    <3>2. u(i - 1) = u(before) + K(l) /\ K(l) \in Nat
      <4>1. l \in Nat
        BY <1>1, <3>1
      <4> QED
        BY <1>3, <1>6, <3>1, <4>1
    <3>3. K(c) - K(l) <= First + (y + Thereafter - 1) \div Thereafter
      <4>1. l \in Nat /\ c \in Nat /\ l <= c
        BY <1>1, <3>1
      <4>2. K(c) - K(l) <= First + (c - l + Thereafter - 1) \div Thereafter
        BY <4>1, KeptOfTail DEF K
      <4> QED
        BY <3>1, <4>2, Zenon
    <3>4. First + (y + Thereafter - 1) \div Thereafter <= 2 * First + y \div Thereafter + 1
      BY <3>1, KeptOfTwo, Zenon
    <3> HIDE DEF y
    <3>5. y \div Thereafter \in Nat /\ (y + Thereafter - 1) \div Thereafter \in Nat
      <4>1. y + Thereafter - 1 \in Nat
        BY <3>1
      <4> QED
        BY <3>1, <4>1, Quotient, Zenon
    <3> DEFINE p == (y + Thereafter - 1) \div Thereafter
               q == y \div Thereafter
    <3> HIDE DEF p, q
    <3>7. p \in Nat /\ q \in Nat /\ K(c) - K(l) <= First + p /\ First + p <= 2 * First + q + 1
      BY <3>3, <3>4, <3>5 DEF p, q
    <3>8. u(n) - u(i - 1) <= 2 * First + q + 1
      BY <1>8, <3>2, <3>7
    <3>6. u(n) - u(i - 1) <= 2 * First + y \div Thereafter + 1
      BY <3>8 DEF q
    <3> QED
      BY <3>6 DEF y
  <2>2. CASE i <= before
    <3> DEFINE y == before - i + 1
    <3>1. i \in 1..before /\ y \in Nat /\ before - i + Thereafter = y + Thereafter - 1 /\ y + c = n - i + 1
          /\ i - 1 \in 0..n
      BY <1>1, <1>7, <2>2
    <3>2. at[before + 1] <= at[n]
      BY <1>5, <1>7
    <3>3. at[before + 1] - at[i] <= Interval - MaxWait
      <4>1. at[n] \in Nat /\ at[i] \in Nat /\ at[before + 1] \in Nat
        BY <1>1, <1>7, <1>9
      <4> QED
        BY <1>9, <3>2, <4>1
    <3>4. u(before) - u(i - 1) <= First + (y + Thereafter - 1) \div Thereafter
      BY <1>3, <3>1, <3>3
    <3>5. First + (y + Thereafter - 1) \div Thereafter + K(c) <= 2 * First + (y + c) \div Thereafter + 1
      BY <1>1, <3>1, KeptOfTwo, Zenon DEF K
    <3> HIDE DEF before, y
    <3>6. /\ (y + c) \div Thereafter \in Nat /\ (y + Thereafter - 1) \div Thereafter \in Nat
          /\ u(i - 1) \in Nat
      <4>1. y + Thereafter - 1 \in Nat /\ y + c \in Nat
        BY <1>1, <3>1
      <4> QED
        BY <1>4, <3>1, <4>1, Quotient
    <3> DEFINE p == (y + Thereafter - 1) \div Thereafter
               q == (y + c) \div Thereafter
    <3> HIDE DEF p, q
    <3>8. /\ p \in Nat /\ q \in Nat /\ u(i - 1) \in Nat
          /\ u(before) - u(i - 1) <= First + p /\ First + p + K(c) <= 2 * First + q + 1
      BY <3>4, <3>5, <3>6 DEF p, q
    <3>9. u(n) - u(i - 1) <= 2 * First + q + 1
      BY <1>8, <3>8
    <3>7. u(n) - u(i - 1) <= 2 * First + (y + c) \div Thereafter + 1
      BY <3>9 DEF q
    <3> QED
      BY <3>1, <3>7
  <2> QED
    BY <1>1, <1>7, <2>1, <2>2
<1>10. ASSUME u(n) = u(n - 1) PROVE n > First /\ at[n] - at[n - First] <= Interval + MaxWait
  <2> DEFINE m == c - 1
  <2>1. m \in Nat /\ m \in 0..c /\ before + m = n - 1 /\ m + 1 = c
    BY <1>1, <1>2
  <2>2. u(n - 1) = u(before) + K(m)
    BY <1>3, <2>1
  <2> HIDE DEF m, before
  <2>8. K(m) \in Nat /\ K(c) = K(m) + (IF Keeps(c) THEN 1 ELSE 0)
    BY <1>6, <2>1, Zenon
  <2>3. K(m) = K(c)
    BY <1>8, <1>10, <2>2, <2>8
  <2>4. ~Keeps(c)
    BY <2>3, <2>8
  <2>5. c > First
    BY <1>1, <2>4 DEF Keeps
  <2>6. n > First /\ n - First \in 1..n /\ before + 1 <= n - First /\ n \in 1..n
    BY <1>1, <1>7, <2>5
  <2>7. at[before + 1] <= at[n - First]
    BY <1>5, <1>7, <2>6
  <2>9. at[n] \in Nat /\ at[n - First] \in Nat /\ at[before + 1] \in Nat
    BY <1>1, <1>7, <2>6
  <2>10. w.resetAt - Interval <= at[before + 1] /\ at[n] <= w.resetAt + MaxWait
    BY <1>2 DEF before
  <2>11. at[n] - at[n - First] <= Interval + MaxWait
    <3> DEFINE a == at[n]
               b == at[n - First]
               d == at[before + 1]
    <3>1. a \in Nat /\ b \in Nat /\ d \in Nat /\ d <= b
      BY <2>7, <2>9
    <3>2. w.resetAt - Interval <= d /\ a <= w.resetAt + MaxWait
      BY <2>10
    <3> HIDE DEF a, b, d
    <3>3. a - b <= Interval + MaxWait
      BY <1>1, <3>1, <3>2
    <3> QED
      BY <3>3 DEF a, b
  <2> QED
    BY <2>6, <2>11
<1>11. ASSUME n >= Thereafter PROVE u(n) > u(n - Thereafter)
  <2>1. CASE c >= Thereafter
    <3> DEFINE m == c - Thereafter
    <3>1. m \in Nat /\ m \in 0..c /\ before + m = n - Thereafter /\ m + Thereafter = c
      BY <1>1, <1>7, <2>1
    <3>2. u(n - Thereafter) = u(before) + K(m) /\ K(c) > K(m) /\ K(m) \in Nat
      BY <1>3, <1>6, <3>1
    <3> QED
      BY <1>8, <3>2
  <2>2. CASE c < Thereafter
    <3>1. n - Thereafter \in 0..n /\ n - Thereafter <= before
      BY <1>1, <1>7, <1>11, <2>2
    <3>2. u(n - Thereafter) <= u(before) /\ u(n - Thereafter) \in Nat
      BY <1>4, <1>5, <1>7, <3>1
    <3>3. K(c) >= K(1) /\ K(1) = 1
      <4>1. 1 <= c
        BY <1>1, <1>2
      <4>2. K(1) = 1
        BY DEF K, KeptOf
      <4>3. K(1) <= K(c)
        BY <1>1, <4>1, KeptOfTail DEF K
      <4> QED
        BY <1>8, <4>2, <4>3
    <3> QED
      BY <1>8, <3>2, <3>3
  <2> QED
    BY <1>1, <2>1, <2>2
<1> QED
  BY <1>7, <1>9, <1>10, <1>11 DEF u

\* The properties of the past survive the record.
LEMMA RecordKeeps ==
  ASSUME SamplerAssumption, NEW at, NEW f, NEW v, KeyPast(at, f, v), NEW x \in Nat, NEW w, w # Absent,
         KeyPast(Append(at, now), Append(f, x), w), now <= w.resetAt + MaxWait,
         Thinned(at, f), Untouched(at, f), Heard(f)
  PROVE  /\ Thinned(Append(at, now), Append(f, x))
         /\ Untouched(Append(at, now), Append(f, x))
         /\ Heard(Append(f, x))
<1> DEFINE n == Len(at)
           bt == Append(at, now)
           g == Append(f, x)
<1> USE DEF SamplerAssumption
<1>1. at \in Seq(0..MaxTime) /\ f \in Seq(Nat) /\ now \in 0..MaxTime /\ Len(f) = n
  BY DEF KeyPast, WindowAgrees
<1>2. /\ n \in Nat /\ Len(bt) = n + 1 /\ bt[n + 1] = now /\ \A i \in 1..n : bt[i] = at[i]
  BY <1>1, Appended
<1>3. Len(g) = n + 1
  BY <1>1, Appended
<1>4. (\A i \in 0..n : UpTo(g, i) = UpTo(f, i)) /\ UpTo(g, n + 1) = x
  <2>1. (\A i \in 0..Len(f) : UpTo(g, i) = UpTo(f, i)) /\ UpTo(g, Len(f) + 1) = x
    BY <1>1, CountsAppend, Zenon
  <2> QED
    BY <1>1, <2>1, Zenon
<1> HIDE DEF n, bt, g
<1>5. KeyPast(bt, g, w)
  BY DEF bt, g
<1>6. LET l == n + 1 IN
      /\ \A i \in 1..l : bt[l] - bt[i] <= Interval - MaxWait =>
           UpTo(g, l) - UpTo(g, i - 1) <= 2 * First + (l - i + 1) \div Thereafter + 1
      /\ UpTo(g, l) = UpTo(g, l - 1) => l > First /\ bt[l] - bt[l - First] <= Interval + MaxWait
      /\ l >= Thereafter => UpTo(g, l) > UpTo(g, l - Thereafter)
  <2> DEFINE l == n + 1
  <2>1. l = Len(bt) /\ bt[l] <= w.resetAt + MaxWait
    BY <1>2
  <2> HIDE DEF l
  <2>2. /\ \A i \in 1..l : bt[l] - bt[i] <= Interval - MaxWait =>
             UpTo(g, l) - UpTo(g, i - 1) <= 2 * First + (l - i + 1) \div Thereafter + 1
        /\ UpTo(g, l) = UpTo(g, l - 1) => l > First /\ bt[l] - bt[l - First] <= Interval + MaxWait
        /\ l >= Thereafter => UpTo(g, l) > UpTo(g, l - Thereafter)
    BY <1>5, <2>1, LastRecord, Zenon
  <2> QED
    BY <2>2 DEF l
<1>7. Thinned(bt, g)
  <2> SUFFICES ASSUME NEW i \in 1..(n + 1), NEW j \in 1..(n + 1), i <= j,
                      bt[j] - bt[i] <= Interval - MaxWait
               PROVE  UpTo(g, j) - UpTo(g, i - 1)
                        <= 2 * First + (j - i + 1) \div Thereafter + 1
    BY <1>2 DEF Thinned
  <2>1. CASE j = n + 1
    BY <1>6, <2>1
  <2>2. CASE j \in 1..n
    <3>1. i \in 1..n /\ i - 1 \in 0..n /\ j \in 0..n
      BY <1>2, <2>2
    <3>2. at[j] - at[i] <= Interval - MaxWait
      BY <1>2, <2>2, <3>1
    <3>3. UpTo(f, j) - UpTo(f, i - 1) <= 2 * First + (j - i + 1) \div Thereafter + 1
      BY <2>2, <3>1, <3>2 DEF Thinned, n
    <3> QED
      BY <1>4, <3>1, <3>3
  <2> QED
    BY <1>2, <2>1, <2>2
<1>8. Untouched(bt, g)
  <2> SUFFICES ASSUME NEW j \in 1..(n + 1), UpTo(g, j) = UpTo(g, j - 1)
               PROVE  j > First /\ bt[j] - bt[j - First] <= Interval + MaxWait
    BY <1>2 DEF Untouched
  <2>1. CASE j = n + 1
    BY <1>6, <2>1
  <2>2. CASE j \in 1..n
    <3>1. j - 1 \in 0..n /\ j \in 0..n
      BY <1>2, <2>2
    <3>2. UpTo(f, j) = UpTo(f, j - 1)
      BY <1>4, <3>1
    <3>3. j > First /\ at[j] - at[j - First] <= Interval + MaxWait
      BY <2>2, <3>2 DEF Untouched, n
    <3>4. j - First \in 1..n
      BY <1>2, <2>2, <3>3
    <3> QED
      BY <1>2, <2>2, <3>3, <3>4
  <2> QED
    BY <1>2, <2>1, <2>2
<1>9. Heard(g)
  <2> SUFFICES ASSUME NEW i \in 0..(Len(g) - Thereafter)
               PROVE  UpTo(g, i + Thereafter) > UpTo(g, i)
    BY DEF Heard
  <2>1. CASE i = n + 1 - Thereafter
    <3>1. i + Thereafter = n + 1 /\ n + 1 >= Thereafter /\ i = n + 1 - Thereafter
      BY <1>2, <2>1
    <3> QED
      BY <1>6, <3>1
  <2>2. CASE i \in 0..(n - Thereafter)
    <3>1. i \in 0..n /\ i + Thereafter \in 0..n
      BY <1>2, <2>2
    <3>2. UpTo(f, i + Thereafter) > UpTo(f, i)
      BY <1>1, <2>2 DEF Heard
    <3> QED
      BY <1>4, <3>1, <3>2
  <2> QED
    BY <1>2, <1>3, <2>1, <2>2
<1> QED
  BY <1>7, <1>8, <1>9 DEF bt, g

\* No record yet.
LEMMA SamplerInit == ASSUME SamplerAssumption, Init PROVE IInv
<1>1. TypeOK
  BY DEF SamplerAssumption, Init, TypeOK, Times, Absent
<1>2. \A k \in Keys : /\ logged[k] = <<>> /\ written[k] = <<>> /\ windows[k] = Absent
  BY DEF Init
<1>3. /\ Len(<<>>) = 0 /\ UpTo(<<>>, 0) = 0 /\ KeptOf(0) = 0 /\ Absent.count = 0
  BY KeptOfStep DEF UpTo, Absent
<1>4. WindowAgrees(<<>>, <<>>, Absent)
  <2>1. Len(<<>>) - Absent.count = 0
    BY <1>3
  <2>2. \A m \in 0..0 : UpTo(<<>>, 0 + m) = UpTo(<<>>, 0) + KeptOf(m)
    BY <1>3
  <2> QED
    BY <1>3, <2>1, <2>2 DEF WindowAgrees
<1>5. Thinned(<<>>, <<>>) /\ Untouched(<<>>, <<>>) /\ Heard(<<>>)
  <2>1. 0..(0 - Thereafter) = {} /\ 1..0 = {}
    BY DEF SamplerAssumption
  <2> QED
    BY <1>3, <2>1 DEF Thinned, Untouched, Heard
<1>6. \A k \in Keys :
        /\ \A i, j \in 1..Len(logged[k]) : i <= j => logged[k][i] <= logged[k][j]
        /\ \A i \in 1..Len(logged[k]) : logged[k][i] <= now
        /\ \A i, j \in 0..Len(logged[k]) : i <= j => UpTo(written[k], i) <= UpTo(written[k], j)
  <2>1. \A i, j \in 1..Len(<<>>) : FALSE
    BY <1>3
  <2>2. \A i \in 1..Len(<<>>) : FALSE
    BY <1>3
  <2>3. \A i, j \in 0..Len(<<>>) : UpTo(<<>>, i) <= UpTo(<<>>, j)
    BY <1>3
  <2> QED
    BY <1>2, <2>1, <2>2, <2>3, Zenon
<1> QED
  BY <1>1, <1>2, <1>4, <1>5, <1>6, Zenon
    DEF IInv, FloodThinned, DroppedWasFlood

\* The past of a key is what the invariant says of it.
LEMMA KeyPastOf ==
  ASSUME IInv, NEW k \in Keys
  PROVE  /\ KeyPast(logged[k], written[k], windows[k])
         /\ Thinned(logged[k], written[k])
         /\ Untouched(logged[k], written[k]) /\ Heard(written[k])
BY DEF IInv, TypeOK, Times, KeyPast, Sorted,
       FloodThinned, DroppedWasFlood

LEMMA OneMore ==
  ASSUME NEW A, NEW B, NEW v \in [count : A, resetAt : B]
  PROVE  [v EXCEPT !.count = @ + 1] = [count |-> v.count + 1, resetAt |-> v.resetAt]
OBVIOUS

LEMMA HandleInv ==
  ASSUME SamplerAssumption, IInv, NEW k \in Keys, NEW t \in Times, Handle(k, t)
  PROVE  IInv'
<1> DEFINE at == logged[k]
           f == written[k]
           v == windows[k]
           w == [Current(k, t) EXCEPT !.count = @ + 1]
           x == UpTo(f, Len(at)) + (IF Keeps(w.count) THEN 1 ELSE 0)
           bt == Append(at, now)
           g == Append(f, x)
<1> USE DEF SamplerAssumption
<1>1. /\ Len(at) < MaxRecords /\ t <= now /\ now - t <= MaxWait
      /\ windows' = [windows EXCEPT ![k] = w]
      /\ logged' = [logged EXCEPT ![k] = bt]
      /\ written' = [written EXCEPT ![k] = g]
      /\ now' = now
  BY DEF Handle
<1>2. /\ KeyPast(at, f, v) /\ Thinned(at, f) /\ Untouched(at, f) /\ Heard(f)
  BY KeyPastOf, Zenon
<1>3. at \in Seq(0..MaxTime) /\ f \in Seq(Nat) /\ now \in 0..MaxTime /\ Len(f) = Len(at)
      /\ v \in [count : 0..MaxRecords, resetAt : 0..(MaxTime + Interval)]
  BY <1>2, Zenon DEF KeyPast, WindowAgrees
<1>4. x \in Nat
  <2>1. Len(at) \in 0..Len(f)
    BY <1>3
  <2>2. \A i \in 0..Len(f) : UpTo(f, i) \in Nat
    BY <1>3, Counts, Zenon
  <2>3. UpTo(f, Len(at)) \in Nat
    BY <2>1, <2>2, Zenon
  <2> QED
    BY <2>3
<1>5. PICK c, start :
        w = [count |-> c + 1, resetAt |-> start + Interval] /\ Ready(at, f, c, start)
  <2>0. t \in Nat
    BY DEF Times
  <2>1. CASE v = Absent \/ t > v.resetAt
    <3>1. Current(k, t) = [count |-> 0, resetAt |-> t + Interval]
      BY <2>1 DEF Current
    <3>2. w = [count |-> 0 + 1, resetAt |-> t + Interval]
      BY <3>1
    <3>3. Ready(at, f, 0, t)
      BY <1>1, <1>2, <2>0, <2>1, OpenReady, Zenon
    <3> QED
      BY <3>2, <3>3, Zenon
  <2>2. CASE v # Absent /\ ~(t > v.resetAt)
    <3> DEFINE start == v.resetAt - Interval
    <3>1. Current(k, t) = v
      BY <2>2 DEF Current
    <3>2. Ready(at, f, v.count, start)
      BY <1>1, <1>2, <2>0, <2>2, OpenedReady, Zenon
    <3>3. start + Interval = v.resetAt
      BY <1>3
    <3>4. w = [count |-> v.count + 1, resetAt |-> start + Interval]
      <4>1. w = [v EXCEPT !.count = @ + 1]
        BY <3>1
      <4>2. w = [count |-> v.count + 1, resetAt |-> v.resetAt]
        BY <1>3, <4>1, OneMore
      <4> QED
        BY <3>3, <4>2
    <3> HIDE DEF start, w
    <3> QED
      BY <3>2, <3>4, Zenon
  <2> QED
    BY <2>1, <2>2
<1> HIDE DEF w
<1>6. w.count = c + 1 /\ w.resetAt = start + Interval /\ c \in Nat /\ start \in Nat
      /\ now - start <= Interval + MaxWait
  BY <1>5 DEF Ready
<1>7. KeyPast(bt, g, w)
  BY <1>1, <1>2, <1>5, RecordPast
<1>8. w # Absent /\ now <= w.resetAt + MaxWait
  <2>1. w.count # 0 /\ now <= w.resetAt + MaxWait
    BY <1>3, <1>6
  <2> QED
    BY <2>1 DEF Absent
<1>9. Thinned(bt, g) /\ Untouched(bt, g) /\ Heard(g)
  BY <1>2, <1>4, <1>7, <1>8, RecordKeeps, Zenon
<1> HIDE DEF x, bt, g
<1>10. bt \in Seq(0..MaxTime) /\ g \in Seq(Nat)
       /\ w \in [count : 0..MaxRecords, resetAt : 0..(MaxTime + Interval)]
  BY <1>7 DEF KeyPast
<1>11. /\ logged'[k] = bt /\ written'[k] = g /\ windows'[k] = w
       /\ \A q \in Keys : q # k =>
            logged'[q] = logged[q] /\ written'[q] = written[q] /\ windows'[q] = windows[q]
  BY <1>1 DEF IInv, TypeOK
<1>12. TypeOK'
  BY <1>1, <1>3, <1>10 DEF IInv, TypeOK, Times
<1>13. FloodThinned' /\ DroppedWasFlood'
  BY <1>9, <1>11, Zenon DEF IInv, FloodThinned, DroppedWasFlood
<1>14. \A q \in Keys : KeyPast(logged'[q], written'[q], windows'[q])
  BY <1>7, <1>11, KeyPastOf, Zenon
<1> QED
  BY <1>1, <1>12, <1>13, <1>14, Zenon DEF IInv, KeyPast, Sorted

LEMMA SamplerStep == ASSUME SamplerAssumption, IInv, [Next]_vars PROVE IInv'
<1>1. CASE Tick
  <2>1. /\ now \in 0..MaxTime /\ now < MaxTime /\ now' = now + 1
        /\ windows' = windows /\ logged' = logged /\ written' = written
    BY <1>1 DEF Tick, IInv, TypeOK, Times
  <2>2. TypeOK'
    <3>1. now' \in 0..MaxTime
      BY <2>1 DEF SamplerAssumption
    <3> QED
      BY <2>1, <3>1, Zenon DEF IInv, TypeOK, Times
  <2>3. FloodThinned' /\ DroppedWasFlood'
    BY <2>1, Zenon DEF IInv, FloodThinned, DroppedWasFlood
  <2>4. \A k \in Keys : \A i \in 1..Len(logged[k]) : logged[k][i] <= now'
    <3>1. \A k \in Keys : \A i \in 1..Len(logged[k]) : logged[k][i] \in 0..MaxTime /\ logged[k][i] <= now
      <4> SUFFICES ASSUME NEW k \in Keys
                   PROVE  \A i \in 1..Len(logged[k]) : logged[k][i] \in 0..MaxTime /\ logged[k][i] <= now
        OBVIOUS
      <4>1. logged[k] \in Seq(0..MaxTime) /\ \A i \in 1..Len(logged[k]) : logged[k][i] <= now
        BY KeyPastOf, Zenon DEF KeyPast
      <4>2. \A i \in 1..Len(logged[k]) : logged[k][i] \in 0..MaxTime
        BY <2>1, <4>1, Appended, Zenon
      <4> QED
        BY <4>1, <4>2, Zenon
    <3> QED
      BY <2>1, <3>1 DEF SamplerAssumption
  <2> QED
    BY <2>1, <2>2, <2>3, <2>4, Zenon DEF IInv
<1>2. CASE UNCHANGED vars
  <2>1. now' = now /\ windows' = windows /\ logged' = logged /\ written' = written
    BY <1>2 DEF vars
  <2> QED
    BY <2>1, Zenon DEF IInv, TypeOK, FloodThinned, DroppedWasFlood
<1> QED
  BY <1>1, <1>2, HandleInv DEF Next

\* Every logger's records, whatever their messages and times: the strengthened
\* invariant holds.
THEOREM SamplerInductive == ASSUME SamplerAssumption PROVE Spec => []IInv
<1>1. Init => IInv
  BY SamplerInit
<1>2. IInv /\ [Next]_vars => IInv'
  BY SamplerStep
<1> QED
  BY <1>1, <1>2, PTL DEF Spec
===============================================================================
