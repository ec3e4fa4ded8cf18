--------------------------- MODULE ProcessesProofs ---------------------------
(***************************************************************************)
(* For every set of HTTP requests and every number of faults: both         *)
(* processes end with everything closed, close nothing under work that is  *)
(* still in time, and exit with 0 only when they may; and they serve only  *)
(* on the complete schema.  The inductive invariant is PartsInv, the       *)
(* conjunction of the invariants of the four parts.                        *)
(***************************************************************************)
EXTENDS MCProcesses, SequenceTheorems, TLAPS

-----------------------------------------------------------------------------
\* What is in a sequence after Append, after <<x>> \o and after Tail.
LEMMA RangeAppend ==
  ASSUME NEW S, NEW s \in Seq(S), NEW x \in S
  PROVE  Append(s, x) \in Seq(S) /\ Monolith!Range(Append(s, x)) = Monolith!Range(s) \cup {x}
<1>1. /\ Append(s, x) \in Seq(S) /\ DOMAIN s = 1..Len(s) /\ Len(s) \in Nat
      /\ DOMAIN Append(s, x) = 1..(Len(s) + 1)
      /\ \A i \in 1..Len(s) : Append(s, x)[i] = s[i]
      /\ Append(s, x)[Len(s) + 1] = x
  OBVIOUS
<1> QED
  BY <1>1 DEF Monolith!Range

LEMMA RangePush ==
  ASSUME NEW S, NEW s \in Seq(S), NEW x \in S
  PROVE  <<x>> \o s \in Seq(S) /\ Monolith!Range(<<x>> \o s) = Monolith!Range(s) \cup {x}
<1>1. /\ <<x>> \in Seq(S) /\ Len(<<x>>) = 1 /\ <<x>>[1] = x
      /\ DOMAIN s = 1..Len(s) /\ Len(s) \in Nat
  OBVIOUS
<1> DEFINE t == <<x>> \o s
<1>2. /\ t \in Seq(S) /\ Len(t) = 1 + Len(s) /\ DOMAIN t = 1..(1 + Len(s))
      /\ \A i \in 1..(1 + Len(s)) : t[i] = IF i <= 1 THEN x ELSE s[i - 1]
  BY <1>1, ConcatProperties
<1>3. t[1] = x /\ \A i \in 1..Len(s) : t[i + 1] = s[i] /\ i + 1 \in 1..(1 + Len(s))
  BY <1>1, <1>2
<1> HIDE DEF t
<1>4. Monolith!Range(t) = Monolith!Range(s) \cup {x}
  <2>1. ASSUME NEW i \in DOMAIN t PROVE t[i] \in Monolith!Range(s) \cup {x}
    <3>1. CASE i = 1
      BY <1>3, <3>1
    <3>2. CASE i # 1
      <4>1. i - 1 \in DOMAIN s /\ t[i] = s[i - 1]
        BY <1>1, <1>2, <2>1, <3>2
      <4> QED
        BY <4>1 DEF Monolith!Range
    <3> QED
      BY <3>1, <3>2
  <2>2. ASSUME NEW i \in DOMAIN s PROVE s[i] \in Monolith!Range(t)
    <3>1. i + 1 \in DOMAIN t /\ t[i + 1] = s[i]
      BY <1>1, <1>2, <1>3, <2>2
    <3> QED
      BY <3>1 DEF Monolith!Range
  <2>3. x \in Monolith!Range(t)
    BY <1>1, <1>2, <1>3 DEF Monolith!Range
  <2> QED
    BY <2>1, <2>2, <2>3 DEF Monolith!Range
<1> QED
  BY <1>2, <1>4 DEF t

LEMMA RangeTail ==
  ASSUME NEW S, NEW s \in Seq(S), s # <<>>
  PROVE  /\ Tail(s) \in Seq(S)
         /\ Monolith!Range(s) \subseteq Monolith!Range(Tail(s)) \cup {Head(s)}
         /\ Monolith!Range(Tail(s)) \subseteq Monolith!Range(s)
<1>1. /\ Tail(s) \in Seq(S) /\ DOMAIN s = 1..Len(s) /\ Len(s) \in Nat /\ Len(s) >= 1
      /\ DOMAIN Tail(s) = 1..(Len(s) - 1) /\ Head(s) = s[1]
      /\ \A i \in 1..(Len(s) - 1) : Tail(s)[i] = s[i + 1]
  OBVIOUS
<1>2. ASSUME NEW i \in DOMAIN s PROVE s[i] \in Monolith!Range(Tail(s)) \cup {Head(s)}
  <2>1. CASE i = 1
    BY <1>1, <2>1
  <2>2. CASE i # 1
    <3>1. i - 1 \in DOMAIN Tail(s) /\ Tail(s)[i - 1] = s[i]
      BY <1>1, <1>2, <2>2
    <3> QED
      BY <3>1 DEF Monolith!Range
  <2> QED
    BY <2>1, <2>2
<1>3. ASSUME NEW i \in DOMAIN Tail(s) PROVE Tail(s)[i] \in Monolith!Range(s)
  <2>1. i + 1 \in DOMAIN s /\ Tail(s)[i] = s[i + 1]
    BY <1>1, <1>3
  <2> QED
    BY <2>1 DEF Monolith!Range
<1> QED
  BY <1>1, <1>2, <1>3 DEF Monolith!Range

-----------------------------------------------------------------------------
(* The monolith.                                                           *)

\* What boot acquires.
LEMMA AcquiredRange ==
  Monolith!Range(Monolith!Acquired) =
    {"db", "redis", "subRepo", "repoStore", "notifier", "saga"}
<1>1. DOMAIN Monolith!Acquired = 1..6
  BY DEF Monolith!Acquired
<1> QED
  BY <1>1 DEF Monolith!Acquired, Monolith!Range

LEMMA MonolithInit == LifeInit => Monolith!IInv
<1> SUFFICES ASSUME LifeInit PROVE Monolith!IInv
  OBVIOUS
<1>1. Monolith!Init
  BY DEF LifeInit
<1>2. msignaled \in BOOLEAN /\ mcanceled \in BOOLEAN /\ mexpired \in BOOLEAN
  BY <1>1 DEF Monolith!Init
<1>3. Monolith!TypeOK
  BY <1>1, <1>2, LifeAssumption DEF Monolith!Init, Monolith!TypeOK
<1> QED
  BY <1>1, <1>3 DEF Monolith!Init, Monolith!IInv

\* A resource that is acquired is registered with a closer or a deferred call.
LEMMA AcquireInv ==
  ASSUME Monolith!IInv, NEW x \in Monolith!Range(Monolith!Acquired), Monolith!Acquire(x)
  PROVE  Monolith!IInv'
<1>1. mphase = "boot"
  BY DEF Monolith!Acquire, Monolith!Due
<1>2. /\ mheld' = mheld \cup {x}
      /\ UNCHANGED <<mphase, mgoroutine, mrequest, msignaled, mcanceled, mexpired, mcode,
                     mfaults>>
  BY DEF Monolith!Acquire
<1>3. mclosers \in Seq(Monolith!Range(Monolith!Acquired)) /\ mdefers \in Seq(Monolith!DeferredByRun)
  BY DEF Monolith!IInv, Monolith!TypeOK
<1>4. CASE x \in Monolith!DeferredByRun
  <2>1. mdefers' = <<x>> \o mdefers /\ mclosers' = mclosers
    BY <1>4 DEF Monolith!Acquire
  <2>2. /\ mdefers' \in Seq(Monolith!DeferredByRun)
        /\ Monolith!Range(mdefers') = Monolith!Range(mdefers) \cup {x}
    BY <1>3, <1>4, <2>1, RangePush
  <2>3. Monolith!TypeOK'
    BY <1>2, <2>1, <2>2 DEF Monolith!IInv, Monolith!TypeOK
  <2> QED
    BY <1>1, <1>2, <2>1, <2>2, <2>3 DEF Monolith!IInv
<1>5. CASE x \notin Monolith!DeferredByRun
  <2>1. mclosers' = Append(mclosers, x) /\ mdefers' = mdefers
    BY <1>5 DEF Monolith!Acquire
  <2>2. /\ mclosers' \in Seq(Monolith!Range(Monolith!Acquired))
        /\ Monolith!Range(mclosers') = Monolith!Range(mclosers) \cup {x}
    BY <1>3, <2>1, RangeAppend
  <2>3. Monolith!TypeOK'
    BY <1>2, <2>1, <2>2 DEF Monolith!IInv, Monolith!TypeOK
  <2> QED
    BY <1>1, <1>2, <2>1, <2>2, <2>3 DEF Monolith!IInv
<1> QED
  BY <1>4, <1>5

\* A close takes its resource off the list.
LEMMA CloseInv ==
  ASSUME Monolith!IInv, Monolith!CloseDependency \/ Monolith!CloseDeferred
  PROVE  Monolith!IInv'
<1>1. /\ mphase = "close"
      /\ UNCHANGED <<mphase, mgoroutine, mrequest, msignaled, mcanceled, mexpired, mcode,
                     mfaults>>
  BY DEF Monolith!CloseDependency, Monolith!CloseDeferred
<1>2. mclosers \in Seq(Monolith!Range(Monolith!Acquired)) /\ mdefers \in Seq(Monolith!DeferredByRun)
  BY DEF Monolith!IInv, Monolith!TypeOK
<1>3. /\ mheld' \subseteq mheld
      /\ mclosers' \in Seq(Monolith!Range(Monolith!Acquired))
      /\ mdefers' \in Seq(Monolith!DeferredByRun)
      /\ mheld' \subseteq Monolith!Range(mclosers') \cup Monolith!Range(mdefers')
  <2>1. CASE Monolith!CloseDependency
    BY <1>2, <2>1, RangeTail DEF Monolith!CloseDependency, Monolith!IInv
  <2>2. CASE Monolith!CloseDeferred
    BY <1>2, <2>2, RangeTail DEF Monolith!CloseDeferred, Monolith!IInv
  <2> QED
    BY <2>1, <2>2
<1>4. Monolith!TypeOK'
  BY <1>1, <1>3 DEF Monolith!IInv, Monolith!TypeOK
<1> QED
  BY <1>1, <1>3, <1>4 DEF Monolith!IInv

\* The end of the boot: it fails, or everything is held and the goroutines start.
LEMMA BootInv ==
  ASSUME Monolith!IInv, Monolith!AbortBoot \/ Monolith!StartServer
  PROVE  Monolith!IInv'
<1>1. CASE Monolith!AbortBoot
  <2>1. /\ mphase = "boot" /\ mphase' = "close" /\ mcode' = 1
        /\ mfaults' \in 0..MonolithFaults
        /\ UNCHANGED <<mheld, mclosers, mdefers, mgoroutine, mrequest, msignaled, mcanceled,
                       mexpired>>
    BY <1>1, LifeAssumption
       DEF Monolith!AbortBoot, Monolith!Fault, Monolith!resources, Monolith!IInv, Monolith!TypeOK
  <2>2. Monolith!TypeOK'
    BY <2>1 DEF Monolith!IInv, Monolith!TypeOK
  <2> QED
    BY <2>1, <2>2 DEF Monolith!IInv, Monolith!Goroutines
<1>2. CASE Monolith!StartServer
  <2>1. /\ mphase = "boot" /\ mphase' = "serve"
        /\ mheld = Monolith!Range(Monolith!Acquired)
        /\ mgoroutine' = [g \in Monolith!Goroutines |-> "running"]
        /\ UNCHANGED <<mheld, mclosers, mdefers, mrequest, msignaled, mcanceled, mexpired,
                       mcode, mfaults>>
    BY <1>2 DEF Monolith!StartServer, Monolith!resources
  <2>2. Monolith!TypeOK'
    BY <2>1 DEF Monolith!IInv, Monolith!TypeOK
  <2> QED
    BY <2>1, <2>2 DEF Monolith!IInv
<1> QED
  BY <1>1, <1>2

\* Requests and goroutines: none begins once the server stopped accepting, and a
\* stopped goroutine stays stopped.
LEMMA WorkInv ==
  ASSUME Monolith!IInv,
         \/ \E r \in Requests : Monolith!Arrive(r) \/ Monolith!Answer(r)
         \/ \E g \in Monolith!Goroutines : Monolith!StopGoroutine(g)
  PROVE  Monolith!IInv'
<1> USE DEF Monolith!resources
<1>1. ASSUME NEW r \in Requests, Monolith!Arrive(r) \/ Monolith!Answer(r)
      PROVE  Monolith!IInv'
  <2>1. /\ mphase # "exited"
        /\ UNCHANGED <<mphase, mheld, mclosers, mdefers, mgoroutine, msignaled, mcanceled,
                       mexpired, mcode, mfaults>>
        /\ mrequest' \in [Requests -> {"new", "open", "answered", "cut"}]
        /\ \A q \in Requests : mrequest'[q] \in {mrequest[q], "open", "answered"}
        /\ mphase # "serve" =>
             \A q \in Requests : mrequest'[q] \in {mrequest[q], "answered"}
    BY <1>1 DEF Monolith!Arrive, Monolith!Answer, Monolith!IInv, Monolith!TypeOK
  <2>2. Monolith!TypeOK'
    BY <2>1 DEF Monolith!IInv, Monolith!TypeOK
  <2> QED
    BY <2>1, <2>2 DEF Monolith!IInv
<1>2. ASSUME NEW g \in Monolith!Goroutines, Monolith!StopGoroutine(g)
      PROVE  Monolith!IInv'
  <2>1. /\ mphase # "boot" /\ g # "limiter"
        /\ UNCHANGED <<mphase, mheld, mclosers, mdefers, mrequest, msignaled, mcanceled,
                       mexpired, mcode, mfaults>>
        /\ mgoroutine' \in [Monolith!Goroutines -> {"off", "running", "stopped"}]
        /\ \A h \in Monolith!Goroutines : mgoroutine'[h] \in {mgoroutine[h], "stopped"}
    BY <1>2 DEF Monolith!StopGoroutine, Monolith!IInv, Monolith!TypeOK
  <2>2. Monolith!TypeOK'
    BY <2>1 DEF Monolith!IInv, Monolith!TypeOK
  <2> QED
    BY <2>1, <2>2 DEF Monolith!IInv, Monolith!Goroutines
<1> QED
  BY <1>1, <1>2

\* From the signal or the listener's error to the exit.
LEMMA ShutdownInv ==
  ASSUME Monolith!IInv,
         \/ Monolith!Signal \/ Monolith!Expire \/ Monolith!ServerError
         \/ Monolith!BeginShutdown \/ Monolith!Drained \/ Monolith!PollerAwaited
         \/ Monolith!Exit
  PROVE  Monolith!IInv'
<1> USE LifeAssumption DEF Monolith!resources
<1>1. CASE Monolith!Signal \/ Monolith!Expire
  <2>1. /\ UNCHANGED <<mphase, mheld, mclosers, mdefers, mgoroutine, mrequest, mcanceled,
                       mcode, mfaults>>
        /\ mexpired => mexpired'
    BY <1>1 DEF Monolith!Signal, Monolith!Expire
  <2>2. msignaled' \in BOOLEAN /\ mexpired' \in BOOLEAN
    BY <1>1 DEF Monolith!Signal, Monolith!Expire, Monolith!IInv, Monolith!TypeOK
  <2>3. Monolith!TypeOK'
    BY <2>1, <2>2 DEF Monolith!IInv, Monolith!TypeOK
  <2> QED
    BY <2>1, <2>3 DEF Monolith!IInv
<1>2. CASE Monolith!ServerError \/ Monolith!BeginShutdown
  <2>1. /\ mphase = "serve"
        /\ (mphase' = "await" /\ mcode' = 1) \/ (mphase' = "drain" /\ mcode' = mcode)
        /\ mfaults' \in 0..MonolithFaults
        /\ UNCHANGED <<mheld, mclosers, mdefers, mgoroutine, mrequest, msignaled, mexpired>>
    BY <1>2 DEF Monolith!ServerError, Monolith!BeginShutdown, Monolith!Fault, Monolith!IInv,
       Monolith!TypeOK
  <2>2. mcanceled' \in BOOLEAN
    BY <1>2 DEF Monolith!ServerError, Monolith!BeginShutdown
  <2>3. Monolith!TypeOK'
    BY <2>1, <2>2 DEF Monolith!IInv, Monolith!TypeOK
  <2> QED
    BY <2>1, <2>3 DEF Monolith!IInv
<1>3. CASE Monolith!Drained
  <2>1. /\ mphase = "drain" /\ mphase' = "await"
        /\ mcode' = 1 \/ (mcode' = mcode /\ \A r \in Requests : mrequest[r] # "open")
        /\ UNCHANGED <<mheld, mclosers, mdefers, mgoroutine, mrequest, msignaled, mcanceled,
                       mexpired, mfaults>>
    BY <1>3 DEF Monolith!Drained, Monolith!Open
  <2>2. Monolith!TypeOK'
    BY <2>1 DEF Monolith!IInv, Monolith!TypeOK
  <2> QED
    BY <2>1, <2>2 DEF Monolith!IInv
<1>4. CASE Monolith!PollerAwaited
  <2>1. /\ mphase = "await" /\ mphase' = "close"
        /\ mgoroutine["poller"] = "stopped" \/ mexpired
        /\ mgoroutine' = [mgoroutine EXCEPT !["limiter"] = "stopped"]
        /\ UNCHANGED <<mheld, mclosers, mdefers, mrequest, msignaled, mcanceled, mexpired,
                       mcode, mfaults>>
    BY <1>4 DEF Monolith!PollerAwaited
  <2>2. Monolith!TypeOK'
    BY <2>1 DEF Monolith!IInv, Monolith!TypeOK
  <2> QED
    BY <2>1, <2>2 DEF Monolith!IInv, Monolith!TypeOK, Monolith!Goroutines
<1>5. CASE Monolith!Exit
  <2>1. /\ mphase = "close" /\ mphase' = "exited" /\ mclosers = <<>> /\ mdefers = <<>>
        /\ mrequest' = [r \in Requests |-> IF mrequest[r] = "open" THEN "cut" ELSE mrequest[r]]
        /\ UNCHANGED <<mheld, mclosers, mdefers, mgoroutine, msignaled, mcanceled, mexpired,
                       mcode, mfaults>>
    BY <1>5 DEF Monolith!Exit, Monolith!Open
  <2>2. Monolith!TypeOK'
    BY <2>1 DEF Monolith!IInv, Monolith!TypeOK
  <2> QED
    BY <2>1, <2>2 DEF Monolith!IInv
<1> QED
  BY <1>1, <1>2, <1>3, <1>4, <1>5

LEMMA MonolithStep == Monolith!IInv /\ [LifeNext]_allVars => Monolith!IInv'
<1> SUFFICES ASSUME Monolith!IInv, [LifeNext]_allVars PROVE Monolith!IInv'
  OBVIOUS
<1>1. CASE Monolith!Next
  <2>1. ASSUME \/ Monolith!OpenDb \/ Monolith!NewRedisClient \/ Monolith!NewRepo
               \/ Monolith!NewStore \/ Monolith!BuildNotificationPublisher
               \/ Monolith!BuildSagaOrchestrator
        PROVE  Monolith!IInv'
    BY <2>1, AcquireInv, AcquiredRange DEF Monolith!OpenDb, Monolith!NewRedisClient,
       Monolith!NewRepo, Monolith!NewStore, Monolith!BuildNotificationPublisher,
       Monolith!BuildSagaOrchestrator
  <2> QED
    BY <1>1, <2>1, BootInv, CloseInv, WorkInv, ShutdownInv DEF Monolith!Next, Monolith!Run
<1>2. CASE UNCHANGED monolith
  BY <1>2 DEF monolith, Monolith!IInv, Monolith!TypeOK
<1> QED
  BY <1>1, <1>2 DEF LifeNext, NotifierOnly, BootsOnly, PublisherOnly, allVars

-----------------------------------------------------------------------------
(* The notifier.                                                           *)

LEMMA NotifierInit == LifeInit => Notifier!IInv
<1> SUFFICES ASSUME LifeInit PROVE Notifier!IInv
  OBVIOUS
<1>1. Notifier!Init
  BY DEF LifeInit
<1>2. nsignaled \in BOOLEAN /\ ncanceled \in BOOLEAN /\ nexpired \in BOOLEAN
  BY <1>1 DEF Notifier!Init
<1>3. Notifier!TypeOK
  BY <1>1, <1>2, LifeAssumption
     DEF Notifier!Init, Notifier!TypeOK, Notifier!Workers, Notifier!Servers, Notifier!Consumers
<1> QED
  BY <1>1, <1>3 DEF Notifier!Init, Notifier!IInv

\* Boot: the closers are known at every step, and a failed boot closes what it
\* opened besides the database.
LEMMA NotifierBoot ==
  ASSUME Notifier!IInv,
         \/ Notifier!OpenDb \/ Notifier!OpenLedger \/ Notifier!OpenReplies
         \/ Notifier!AbortBoot \/ Notifier!StartWorkers
  PROVE  Notifier!IInv'
<1> USE DEF Notifier!Resources
<1>1. CASE Notifier!OpenDb \/ Notifier!OpenLedger \/ Notifier!OpenReplies
  <2>1. /\ nphase = "boot"
        /\ UNCHANGED <<nphase, nworker, nbusy, nfailed, nsignaled, ncanceled, nexpired,
                       ncode, nfaults>>
        /\ nheld' \in {{"db"}, {"db", "ledger"}, Notifier!Resources}
        /\ nclosers' = <<"db">>
    BY <1>1 DEF Notifier!OpenDb, Notifier!OpenLedger, Notifier!OpenReplies, Notifier!IInv
  <2>2. Notifier!TypeOK'
    BY <2>1 DEF Notifier!IInv, Notifier!TypeOK
  <2> QED
    BY <2>1, <2>2 DEF Notifier!IInv
<1>2. CASE Notifier!AbortBoot
  <2>1. /\ nphase = "boot" /\ nphase' = "close" /\ ncode' = 1
        /\ nheld' \subseteq nheld \cap {"db"}
        /\ nfaults' \in 0..NotifierFaults
        /\ UNCHANGED <<nclosers, nworker, nbusy, nfailed, nsignaled, ncanceled, nexpired>>
    <3>1. /\ nphase = "boot" /\ nphase' = "close" /\ ncode' = 1
          /\ UNCHANGED <<nclosers, nworker, nbusy, nfailed, nsignaled, ncanceled, nexpired>>
      BY <1>2 DEF Notifier!AbortBoot
    <3>2. nfaults' \in 0..NotifierFaults
      BY <1>2, LifeAssumption
         DEF Notifier!AbortBoot, Notifier!Fault, Notifier!IInv, Notifier!TypeOK
    <3>3. \A step \in DOMAIN Notifier!ClosedBy :
            Notifier!ClosedBy[step] = {"replies", "ledger"}
      BY DEF Notifier!ClosedBy
    <3>4. nheld' \subseteq nheld \cap {"db"}
      BY <1>2, <3>3 DEF Notifier!AbortBoot
    <3> QED
      BY <3>1, <3>2, <3>4
  <2>2. Notifier!TypeOK'
    BY <2>1 DEF Notifier!IInv, Notifier!TypeOK
  <2>3. nheld' \subseteq {nclosers[i] : i \in DOMAIN nclosers}
    <3>1. CASE nheld = {}
      BY <2>1, <3>1
    <3>2. CASE nheld # {}
      <4>1. nclosers = <<"db">> /\ nheld' \subseteq {"db"}
        BY <2>1, <3>2 DEF Notifier!IInv
      <4>2. DOMAIN <<"db">> = {1} /\ <<"db">>[1] = "db"
        OBVIOUS
      <4> QED
        BY <4>1, <4>2
    <3> QED
      BY <3>1, <3>2
  <2> QED
    BY <2>1, <2>2, <2>3 DEF Notifier!IInv
<1>3. CASE Notifier!StartWorkers
  <2>1. /\ nphase = "boot" /\ nphase' = "serve"
        /\ nheld' = {"db", "replies"} /\ nclosers = <<"db">>
        /\ nclosers' = <<"replies", "ledger">> \o nclosers
        /\ nworker' = [w \in Notifier!Workers |->
                        IF w \in Notifier!Servers THEN "listen" ELSE "dial"]
        /\ UNCHANGED <<nbusy, nfailed, nsignaled, ncanceled, nexpired, ncode, nfaults>>
    BY <1>3 DEF Notifier!StartWorkers, Notifier!IInv
  <2>2. nclosers' = <<"replies", "ledger", "db">>
    <3> DEFINE front == <<"replies", "ledger">>
               last == <<"db">>
               all == <<"replies", "ledger", "db">>
    <3>1. /\ front \in Seq(Notifier!Resources) /\ Len(front) = 2
          /\ last \in Seq(Notifier!Resources) /\ Len(last) = 1
          /\ all \in Seq(Notifier!Resources) /\ Len(all) = 3
          /\ all[1] = front[1] /\ all[2] = front[2] /\ all[3] = last[1]
      OBVIOUS
    <3> HIDE DEF front, last, all
    <3>2. /\ front \o last \in Seq(Notifier!Resources)
          /\ Len(front \o last) = Len(front) + Len(last)
          /\ \A i \in 1..(Len(front) + Len(last)) :
               (front \o last)[i] = IF i <= Len(front) THEN front[i] ELSE last[i - Len(front)]
      BY <3>1, ConcatProperties, Zenon
    <3>3. Len(front \o last) = 3 /\ \A i \in 1..3 : (front \o last)[i] = all[i]
      BY <3>1, <3>2
    <3>4. front \o last = all
      BY <3>1, <3>2, <3>3, SeqEqual
    <3> QED
      BY <2>1, <3>4 DEF front, last, all
  <2>3. Notifier!TypeOK'
    BY <2>1, <2>2 DEF Notifier!IInv, Notifier!TypeOK, Notifier!Workers, Notifier!Servers,
       Notifier!Consumers
  <2> QED
    BY <2>1, <2>2, <2>3 DEF Notifier!IInv
<1> QED
  BY <1>1, <1>2, <1>3

\* A worker's step: it was started and has not returned, so the process serves.
\* It leaves the process alone, and if it returns with a handler in progress it
\* returns an error.
LEMMA WorkerInv ==
  ASSUME Notifier!IInv,
         NEW w \in Notifier!Workers, NEW place, NEW bad \in BOOLEAN,
         nworker[w] \notin {"off", "done"},
         w \in Notifier!Servers =>
           place \in {"off", "listen", "serve", "drain", "done"},
         w \in Notifier!Consumers =>
           place \in {"off", "dial", "session", "sleep", "done"} /\ ~bad,
         w \in nbusy => place \in {"serve", "drain", "session"} \/ (place = "done" /\ bad),
         nworker' = [nworker EXCEPT ![w] = place],
         nfailed' = IF bad THEN nfailed \cup {w} ELSE nfailed,
         ncanceled' \in BOOLEAN, nfaults' \in 0..NotifierFaults,
         UNCHANGED <<nphase, nheld, nclosers, ncode, nbusy, nsignaled, nexpired>>
  PROVE  Notifier!IInv'
<1>1. nphase = "serve"
  BY DEF Notifier!IInv, Notifier!TypeOK
<1>2. DOMAIN nworker' = Notifier!Workers
  BY DEF Notifier!IInv, Notifier!TypeOK
<1>3. /\ \A s \in Notifier!Servers : nworker'[s] \in {"off", "listen", "serve", "drain", "done"}
      /\ \A c \in Notifier!Consumers : nworker'[c] \in {"off", "dial", "session", "sleep", "done"}
      /\ nfailed' \subseteq Notifier!Servers
  BY DEF Notifier!IInv, Notifier!TypeOK, Notifier!Workers
<1>4. Notifier!TypeOK'
  BY <1>2, <1>3 DEF Notifier!IInv, Notifier!TypeOK
<1>5. \A v \in nbusy : \/ nworker'[v] \in {"serve", "drain", "session"}
                       \/ nworker'[v] = "done" /\ v \in nfailed'
  BY DEF Notifier!IInv, Notifier!TypeOK
<1> QED
  BY <1>1, <1>4, <1>5 DEF Notifier!IInv

\* The two servers: a Serve that fails, and a Shutdown that times out, return an
\* error.
LEMMA ServerInv ==
  ASSUME Notifier!IInv, NEW s \in Notifier!Servers, Notifier!ServerSteps(s)
  PROVE  Notifier!IInv'
<1> DEFINE Moves(place, bad) ==
      /\ nworker' = [nworker EXCEPT ![s] = place]
      /\ nfailed' = IF bad THEN nfailed \cup {s} ELSE nfailed
      /\ nfaults' \in 0..NotifierFaults
      /\ UNCHANGED <<nphase, nheld, nclosers, ncode, nbusy, nsignaled, nexpired>>
<1>0. /\ nfaults \in 0..NotifierFaults /\ NotifierFaults \in Nat /\ ncanceled \in BOOLEAN
      /\ \A w \in nbusy : nworker[w] \in {"serve", "drain", "session", "done"}
  BY LifeAssumption DEF Notifier!IInv, Notifier!TypeOK
<1> USE <1>0 DEF Notifier!Fault, Notifier!Goto, Notifier!Return, Notifier!process
<1>1. s \in Notifier!Workers /\ s \notin Notifier!Consumers
  BY DEF Notifier!Workers, Notifier!Servers, Notifier!Consumers
<1>2. ncanceled' \in BOOLEAN
  BY DEF Notifier!ServerSteps, Notifier!Listen, Notifier!ServeError, Notifier!Drain,
     Notifier!Drained
<1>3. CASE Notifier!Listen(s)
  <2>1. nworker[s] = "listen" /\ s \notin nbusy
    BY <1>3 DEF Notifier!Listen
  <2>2. Moves("serve", FALSE) \/ Moves("done", TRUE)
    BY <1>3 DEF Notifier!Listen
  <2> QED
    BY <1>1, <1>2, <2>1, <2>2, WorkerInv
<1>4. CASE Notifier!ServeError(s)
  <2>1. nworker[s] = "serve" /\ Moves("done", TRUE)
    BY <1>4 DEF Notifier!ServeError
  <2> QED
    BY <1>1, <1>2, <2>1, WorkerInv
<1>5. CASE Notifier!Drain(s)
  <2>1. nworker[s] = "serve" /\ Moves("drain", FALSE)
    BY <1>5 DEF Notifier!Drain
  <2> QED
    BY <1>1, <1>2, <2>1, WorkerInv
<1>6. CASE Notifier!Drained(s)
  <2>1. nworker[s] = "drain" /\ ((s \notin nbusy /\ Moves("done", FALSE)) \/ Moves("done", TRUE))
    BY <1>6 DEF Notifier!Drained
  <2> QED
    BY <1>1, <1>2, <2>1, WorkerInv
<1> QED
  BY <1>3, <1>4, <1>5, <1>6 DEF Notifier!ServerSteps

\* The two consumers return without an error, and between two handlers only.
LEMMA ConsumerInv ==
  ASSUME Notifier!IInv, NEW c \in Notifier!Consumers, Notifier!ConsumerSteps(c)
  PROVE  Notifier!IInv'
<1> DEFINE Moves(place) ==
      /\ nworker' = [nworker EXCEPT ![c] = place]
      /\ nfailed' = nfailed
      /\ nfaults' \in 0..NotifierFaults
      /\ UNCHANGED <<nphase, nheld, nclosers, ncode, nbusy, nsignaled, nexpired>>
<1>0. /\ nfaults \in 0..NotifierFaults /\ NotifierFaults \in Nat /\ ncanceled \in BOOLEAN
      /\ \A w \in nbusy : nworker[w] \in {"serve", "drain", "session", "done"}
  BY LifeAssumption DEF Notifier!IInv, Notifier!TypeOK
<1> USE <1>0 DEF Notifier!Fault, Notifier!Goto, Notifier!Return, Notifier!process
<1>1. c \in Notifier!Workers /\ c \notin Notifier!Servers
  BY DEF Notifier!Workers, Notifier!Servers, Notifier!Consumers
<1>2. nworker[c] \in {"dial", "sleep", "session"} /\ c \notin nbusy
  BY DEF Notifier!ConsumerSteps, Notifier!Dial, Notifier!SessionDrops, Notifier!SessionEnds,
     Notifier!Sleep
<1>3. ncanceled' \in BOOLEAN
  BY DEF Notifier!ConsumerSteps, Notifier!Dial, Notifier!SessionDrops, Notifier!SessionEnds,
     Notifier!Sleep
<1>4. \E place \in {"session", "sleep", "dial", "done"} : Moves(place)
  <2>1. CASE Notifier!Dial(c)
    BY <2>1 DEF Notifier!Dial
  <2>2. CASE Notifier!SessionDrops(c)
    BY <2>2 DEF Notifier!SessionDrops
  <2>3. CASE Notifier!SessionEnds(c)
    BY <2>3 DEF Notifier!SessionEnds
  <2>4. CASE Notifier!Sleep(c)
    BY <2>4 DEF Notifier!Sleep
  <2> QED
    BY <2>1, <2>2, <2>3, <2>4 DEF Notifier!ConsumerSteps
<1> DEFINE bad == FALSE
<1>5. PICK place \in {"session", "sleep", "dial", "done"} : Moves(place)
  BY <1>4
<1>6. bad \in BOOLEAN /\ ~bad
  OBVIOUS
<1> QED
  BY <1>1, <1>2, <1>3, <1>5, <1>6, WorkerInv

\* Calls, deliveries, handlers, the signal and the timer.
LEMMA AroundInv ==
  ASSUME Notifier!IInv,
         \/ Notifier!Signal \/ Notifier!Expire
         \/ \E s \in Notifier!Servers : Notifier!Call(s)
         \/ \E c \in Notifier!Consumers : Notifier!Deliver(c)
         \/ \E w \in Notifier!Workers : Notifier!Handled(w)
  PROVE  Notifier!IInv'
<1> USE DEF Notifier!process
<1>1. CASE Notifier!Signal \/ Notifier!Expire
  <2>1. UNCHANGED <<nphase, nheld, nclosers, nworker, nbusy, nfailed, ncanceled, ncode, nfaults>>
    BY <1>1 DEF Notifier!Signal, Notifier!Expire
  <2>2. nsignaled' \in BOOLEAN /\ nexpired' \in BOOLEAN
    BY <1>1 DEF Notifier!Signal, Notifier!Expire, Notifier!IInv, Notifier!TypeOK
  <2>3. Notifier!TypeOK'
    BY <2>1, <2>2 DEF Notifier!IInv, Notifier!TypeOK
  <2> QED
    BY <2>1, <2>3 DEF Notifier!IInv
<1>2. CASE \/ \E s \in Notifier!Servers : Notifier!Call(s)
           \/ \E c \in Notifier!Consumers : Notifier!Deliver(c)
           \/ \E w \in Notifier!Workers : Notifier!Handled(w)
  <2>1. /\ UNCHANGED <<nphase, nheld, nclosers, nworker, nfailed, nsignaled, ncanceled,
                       nexpired, ncode, nfaults>>
        /\ \A w \in nbusy' : w \in nbusy \/ (w \in Notifier!Workers
                                               /\ nworker[w] \in {"serve", "session"})
    BY <1>2 DEF Notifier!Call, Notifier!Deliver, Notifier!Handled, Notifier!Workers
  <2>2. Notifier!TypeOK'
    BY <2>1 DEF Notifier!IInv, Notifier!TypeOK
  <2>3. nphase = "boot" => nbusy' = {}
    BY <2>1 DEF Notifier!IInv
  <2> QED
    BY <2>1, <2>2, <2>3 DEF Notifier!IInv
<1> QED
  BY <1>1, <1>2

\* The main goroutine joins all workers, closes and exits.
LEMMA EndInv ==
  ASSUME Notifier!IInv, Notifier!Join \/ Notifier!Close \/ Notifier!Exit
  PROVE  Notifier!IInv'
<1>1. CASE Notifier!Join
  <2>1. nheld = {"db", "replies"} /\ nclosers = <<"replies", "ledger", "db">>
    BY <1>1 DEF Notifier!Join, Notifier!IInv
  <2>2. nclosers[1] = "replies" /\ nclosers[3] = "db" /\ {1, 3} \subseteq DOMAIN nclosers
    BY <2>1
  <2>3. nheld \subseteq {nclosers[i] : i \in DOMAIN nclosers}
    BY <2>1, <2>2
  <2>4. Notifier!TypeOK'
    BY <1>1 DEF Notifier!Join, Notifier!IInv, Notifier!TypeOK
  <2> QED
    BY <1>1, <2>3, <2>4 DEF Notifier!Join, Notifier!IInv
<1>2. CASE Notifier!Close
  <2>1. nclosers \in Seq(Notifier!Resources) /\ nclosers # <<>> /\ nphase = "close"
    BY <1>2 DEF Notifier!Close, Notifier!IInv, Notifier!TypeOK
  <2>2. /\ Tail(nclosers) \in Seq(Notifier!Resources)
        /\ Monolith!Range(nclosers) \subseteq Monolith!Range(Tail(nclosers)) \cup {Head(nclosers)}
    BY <2>1, RangeTail
  <2>3. nheld' \subseteq {nclosers'[i] : i \in DOMAIN nclosers'}
    BY <1>2, <2>1, <2>2 DEF Notifier!Close, Notifier!IInv, Monolith!Range
  <2>4. Notifier!TypeOK'
    BY <1>2, <2>2 DEF Notifier!Close, Notifier!IInv, Notifier!TypeOK
  <2> QED
    BY <1>2, <2>1, <2>3, <2>4 DEF Notifier!Close, Notifier!IInv
<1>3. CASE Notifier!Exit
  <2>1. Notifier!TypeOK'
    BY <1>3 DEF Notifier!Exit, Notifier!IInv, Notifier!TypeOK
  <2> QED
    BY <1>3, <2>1 DEF Notifier!Exit, Notifier!IInv
<1> QED
  BY <1>1, <1>2, <1>3

LEMMA NotifierStep == Notifier!IInv /\ [LifeNext]_allVars => Notifier!IInv'
<1> SUFFICES ASSUME Notifier!IInv, [LifeNext]_allVars PROVE Notifier!IInv'
  OBVIOUS
<1>1. CASE Notifier!Next
  BY <1>1, NotifierBoot, ServerInv, ConsumerInv, AroundInv, EndInv
     DEF Notifier!Next, Notifier!Run
<1>2. CASE UNCHANGED notifier
  <2>1. /\ nphase' = nphase /\ nheld' = nheld /\ nclosers' = nclosers /\ nworker' = nworker
        /\ nbusy' = nbusy /\ nfailed' = nfailed /\ nsignaled' = nsignaled
        /\ ncanceled' = ncanceled /\ nexpired' = nexpired /\ ncode' = ncode /\ nfaults' = nfaults
    BY <1>2 DEF notifier
  <2>2. Notifier!TypeOK'
    BY <2>1 DEF Notifier!IInv, Notifier!TypeOK
  <2> QED
    BY <2>1, <2>2 DEF Notifier!IInv
<1> QED
  BY <1>1, <1>2 DEF LifeNext, MonolithOnly, BootsOnly, PublisherOnly, allVars

-----------------------------------------------------------------------------
\* The invariants of both processes hold of every behaviour.
THEOREM ProcessesInductive == LifeSpec => [](Monolith!IInv /\ Notifier!IInv)
BY MonolithInit, NotifierInit, MonolithStep, NotifierStep, PTL DEF LifeSpec

\* Whatever fails while booting, serving or shutting down, both processes end with
\* every resource closed, and the monolith with its limiter's goroutine stopped.
THEOREM NothingLeftOpenAlways == LifeSpec => []NothingLeftOpen
<1>1. Monolith!IInv => Monolith!NothingLeftOpen
  BY DEF Monolith!IInv, Monolith!NothingLeftOpen, Monolith!Range
<1>2. Notifier!IInv => Notifier!NothingLeftOpen
  BY DEF Notifier!IInv, Notifier!NothingLeftOpen
<1>3. Monolith!IInv /\ Notifier!IInv => NothingLeftOpen
  BY <1>1, <1>2 DEF NothingLeftOpen
<1> QED
  BY <1>3, ProcessesInductive, PTL

\* Run returns nil, and the monolith exits with 0, only if every accepted request
\* was answered.
THEOREM CleanExitAnsweredAlways == LifeSpec => []CleanExitAnswered
<1>1. Monolith!IInv => CleanExitAnswered
  BY DEF Monolith!IInv, CleanExitAnswered, Monolith!CleanExitAnswered
<1> QED
  BY <1>1, ProcessesInductive, PTL

\* The monolith closes nothing under a running poller before shutdownTimeout, and
\* the notifier nothing under a running handler whose server did not fail.
THEOREM WorkKeepsResourcesAlways == LifeSpec => []WorkKeepsResources
<1>1. Monolith!IInv => Monolith!PollerDrained
  BY DEF Monolith!IInv, Monolith!TypeOK, Monolith!PollerDrained, Monolith!Goroutines
<1>2. Notifier!IInv => Notifier!HandlersKeepResources
  BY DEF Notifier!IInv, Notifier!TypeOK, Notifier!HandlersKeepResources
<1>3. Monolith!IInv /\ Notifier!IInv => WorkKeepsResources
  BY <1>1, <1>2 DEF WorkKeepsResources
<1> QED
  BY <1>3, ProcessesInductive, PTL

-----------------------------------------------------------------------------
(* The boots against one database.                                         *)

LEMMA BootsConstants == Nobody \notin Instances /\ Last \in Nat /\ MigrationFaults \in Nat
BY LifeAssumption DEF Boots!BootAssumption

\* An empty database and nobody booting.
LEMMA BootsInit == LifeInit => Boots!IInv
<1> SUFFICES ASSUME Boots!Init PROVE Boots!IInv
  BY DEF LifeInit
<1>1. Boots!TypeOK
  <2>1. version \in 0..Last /\ bfaults \in 0..MigrationFaults
    BY BootsConstants DEF Boots!Init
  <2>2. ran \in [1..Last -> Nat] /\ dirty \in BOOLEAN
    BY DEF Boots!Init
  <2> QED
    BY <2>1, <2>2 DEF Boots!Init, Boots!TypeOK
<1>2. ~dirty /\ version = 0 /\ lock \notin Instances /\ \A i \in Instances : bpc[i] = "start"
  BY BootsConstants DEF Boots!Init
<1>3. \A m \in 1..Last : m > version /\ ran[m] = 0
  BY BootsConstants DEF Boots!Init
<1>4. Boots!SchemaAgrees
  BY <1>2, <1>3, BootsConstants DEF Boots!SchemaAgrees
<1>5. \A i \in Instances : Boots!BootAgrees(i)
  BY <1>2 DEF Boots!BootAgrees
<1> QED
  BY <1>1, <1>4, <1>5 DEF Boots!IInv

\* The steps that move one boot and leave the schema alone.
LEMMA BootsMove ==
  ASSUME Boots!IInv, NEW i \in Instances,
         \/ Boots!Begin(i) \/ Boots!Lock(i) \/ Boots!LockTimeout(i) \/ Boots!Stop(i) \/ Boots!Open(i)
         \/ Boots!Fail(i) \/ Boots!Shutdown(i) \/ Boots!Restart(i)
  PROVE  Boots!IInv'
<1> DEFINE Places == {"start", "lock", "next", "open", "serving", "down"}
           Moves(to) ==
             /\ bpc' = [bpc EXCEPT ![i] = to]
             /\ IF to = "next" THEN lock = Nobody /\ lock' = i /\ ~dirty
                ELSE lock' = IF lock = i THEN Nobody ELSE lock
             /\ to = "open" => i \in bsignaled' \/ (version = Last /\ ~dirty)
             /\ to = "serving" => version = Last /\ ~dirty
             /\ bsignaled' \subseteq bsignaled /\ stopping' \subseteq bsignaled'
             /\ \A j \in Instances : j # i => (j \in bsignaled' <=> j \in bsignaled)
             /\ bfaults' \in 0..MigrationFaults
<1>1. version' = version /\ dirty' = dirty /\ ran' = ran
  BY DEF Boots!Begin, Boots!Lock, Boots!LockTimeout, Boots!Stop, Boots!Open, Boots!Fail,
         Boots!Shutdown, Boots!Restart, Boots!schema
<1>2. /\ Boots!TypeOK /\ Boots!SchemaAgrees /\ Boots!BootAgrees(i)
      /\ \A j \in Instances : Boots!BootAgrees(j)
  BY DEF Boots!IInv
<1>3. /\ bsignaled \subseteq Instances /\ stopping \subseteq bsignaled
      /\ bfaults \in 0..MigrationFaults /\ lock \in Instances \cup {Nobody}
  BY <1>2, Zenon DEF Boots!TypeOK
<1>4. \E to \in Places : Moves(to)
  <2> USE BootsConstants, <1>2, <1>3 DEF Boots!Goto, Boots!BootAgrees
  <2>1. CASE Boots!Begin(i)
    <3>1. lock # i
      BY <2>1 DEF Boots!Begin
    <3> QED
      BY <2>1, <3>1 DEF Boots!Begin
  <2>2. CASE Boots!Lock(i)
    BY <2>2 DEF Boots!Lock
  <2>3. CASE Boots!LockTimeout(i)
    BY <2>3 DEF Boots!LockTimeout
  <2>4. CASE Boots!Stop(i)
    BY <2>4 DEF Boots!Stop, Boots!Unlock
  <2>5. CASE Boots!Open(i)
    BY <2>5 DEF Boots!Open
  <2>6. CASE Boots!Fail(i)
    <3>1. bfaults' \in 0..MigrationFaults
      BY <2>6 DEF Boots!Fail
    <3>2. bsignaled' = bsignaled /\ stopping' = stopping
      BY <2>6, Zenon DEF Boots!Fail
    <3>3. Moves("down")
      BY <2>6, <3>1, <3>2 DEF Boots!Fail, Boots!Unlock
    <3> QED
      BY <3>3
  <2>7. CASE Boots!Shutdown(i)
    BY <2>7 DEF Boots!Shutdown
  <2>8. CASE Boots!Restart(i)
    BY <2>8 DEF Boots!Restart
  <2> QED
    BY <2>1, <2>2, <2>3, <2>4, <2>5, <2>6, <2>7, <2>8
<1>5. PICK to \in Places : Moves(to)
  BY <1>4
<1>6. /\ bpc \in [Instances -> {"start", "lock", "next", "run", "clean", "open", "serving", "down"}]
      /\ bpc'[i] = to /\ \A j \in Instances : j # i => bpc'[j] = bpc[j]
  BY <1>2, <1>5 DEF Boots!TypeOK
<1>7. Boots!TypeOK'
  <2>1. lock' \in Instances \cup {Nobody}
    BY <1>3, <1>5
  <2>2. bpc' \in [Instances -> {"start", "lock", "next", "run", "clean", "open", "serving", "down"}]
    BY <1>5, <1>6
  <2>3. bsignaled' \in SUBSET Instances /\ stopping' \in SUBSET bsignaled'
    BY <1>3, <1>5
  <2> QED
    BY <1>1, <1>2, <1>5, <2>1, <2>2, <2>3 DEF Boots!TypeOK
<1>8. Boots!SchemaAgrees'
  BY <1>1, <1>2 DEF Boots!SchemaAgrees
<1>9. Boots!BootAgrees(i)'
  BY <1>1, <1>5, <1>6, BootsConstants DEF Boots!BootAgrees
<1>10. ASSUME NEW j \in Instances, j # i PROVE Boots!BootAgrees(j)'
  <2>1. Boots!BootAgrees(j) /\ bpc'[j] = bpc[j] /\ (j \in bsignaled' <=> j \in bsignaled)
    BY <1>2, <1>5, <1>6, <1>10
  <2>2. lock' = j <=> lock = j
    BY <1>5, <1>10, BootsConstants
  <2> QED
    BY <1>1, <2>1, <2>2 DEF Boots!BootAgrees
<1> QED
  BY <1>7, <1>8, <1>9, <1>10 DEF Boots!IInv

\* The steps of golang-migrate that change the schema, all under the lock.
LEMMA BootsMigrate ==
  ASSUME Boots!IInv, NEW i \in Instances, Boots!Mark(i) \/ Boots!Run(i) \/ Boots!Clean(i)
  PROVE  Boots!IInv'
<1>1. /\ Boots!TypeOK /\ Boots!SchemaAgrees /\ Boots!BootAgrees(i)
      /\ \A j \in Instances : Boots!BootAgrees(j)
  BY DEF Boots!IInv
<1>2. lock = i /\ lock' = lock /\ bsignaled' = bsignaled /\ bpc[i] \in {"next", "run", "clean"}
  BY <1>1 DEF Boots!BootAgrees, Boots!Mark, Boots!Run, Boots!Clean
<1>3. /\ version \in 0..Last /\ ran \in [1..Last -> Nat] /\ dirty \in BOOLEAN
      /\ bpc \in [Instances -> {"start", "lock", "next", "run", "clean", "open", "serving", "down"}]
  BY <1>1, Zenon DEF Boots!TypeOK
<1>4. version # Last \/ dirty
  BY <1>1, BootsConstants DEF Boots!Mark, Boots!Run, Boots!Clean, Boots!BootAgrees
<1>5. /\ version' \in 0..Last /\ ran' \in [1..Last -> Nat] /\ dirty' \in BOOLEAN
      /\ bpc' \in [Instances -> {"start", "lock", "next", "run", "clean", "open", "serving", "down"}]
      /\ \A j \in Instances : j # i => bpc'[j] = bpc[j]
  <2>1. /\ dirty' \in BOOLEAN
        /\ version' = version \/ (version' = version + 1 /\ version < Last)
    BY <1>3 DEF Boots!Mark, Boots!Run, Boots!Clean
  <2>2. ran' \in [1..Last -> Nat]
    BY <1>3 DEF Boots!Mark, Boots!Run, Boots!Clean
  <2>3. PICK to \in {"next", "run", "clean"} : bpc' = [bpc EXCEPT ![i] = to]
    BY DEF Boots!Mark, Boots!Run, Boots!Clean, Boots!Goto
  <2>4. version' \in 0..Last
    BY <1>3, <2>1, BootsConstants
  <2> QED
    BY <1>3, <2>1, <2>2, <2>3, <2>4
<1>6. Boots!TypeOK'
  BY <1>1, <1>5 DEF Boots!TypeOK, Boots!Mark, Boots!Run, Boots!Clean
<1>7. Boots!SchemaAgrees' /\ Boots!BootAgrees(i)'
  <2>1. CASE Boots!Mark(i)
    <3>1. /\ version' = version + 1 /\ dirty' /\ ran' = ran /\ ~dirty /\ version < Last
          /\ bpc'[i] = "run"
      BY <1>1, <1>3, <2>1 DEF Boots!Mark, Boots!Goto, Boots!BootAgrees
    <3>2. Boots!SchemaAgrees'
      BY <1>1, <1>3, <3>1, BootsConstants DEF Boots!SchemaAgrees
    <3>3. ran'[version'] = 0
      BY <1>1, <1>3, <3>1, BootsConstants DEF Boots!SchemaAgrees
    <3> QED
      BY <1>2, <3>1, <3>2, <3>3 DEF Boots!BootAgrees
  <2>2. CASE Boots!Run(i)
    <3>1. /\ version' = version /\ dirty' = dirty /\ dirty /\ ran' = [ran EXCEPT ![version] = @ + 1]
          /\ bpc'[i] = "clean" /\ ran[version] = 0 /\ version > 0
      BY <1>1, <1>3, <2>2 DEF Boots!Run, Boots!Goto, Boots!BootAgrees, Boots!SchemaAgrees
    <3>2. ran'[version] = 1 /\ \A m \in 1..Last : m # version => ran'[m] = ran[m]
      BY <1>3, <3>1, BootsConstants
    <3>3. Boots!SchemaAgrees'
      BY <1>1, <3>1, <3>2 DEF Boots!SchemaAgrees
    <3> QED
      BY <1>2, <3>1, <3>2, <3>3 DEF Boots!BootAgrees
  <2>3. CASE Boots!Clean(i)
    <3>1. version' = version /\ ~dirty' /\ ran' = ran /\ bpc'[i] = "next" /\ ran[version] = 1
      BY <1>1, <1>3, <2>3 DEF Boots!Clean, Boots!Goto, Boots!BootAgrees
    <3>2. Boots!SchemaAgrees'
      BY <1>1, <3>1 DEF Boots!SchemaAgrees
    <3> QED
      BY <1>2, <3>1, <3>2 DEF Boots!BootAgrees
  <2> QED
    BY <2>1, <2>2, <2>3
<1>8. ASSUME NEW j \in Instances, j # i PROVE Boots!BootAgrees(j)'
  <2>1. Boots!BootAgrees(j) /\ lock' # j /\ bpc'[j] = bpc[j] /\ bsignaled' = bsignaled
    BY <1>1, <1>2, <1>5, <1>8
  <2> QED
    BY <1>2, <1>4, <1>8, <2>1 DEF Boots!BootAgrees
<1> QED
  BY <1>6, <1>7, <1>8 DEF Boots!IInv

\* Signals are noted, and passed on to a run of migrations.
LEMMA BootsSignal ==
  ASSUME Boots!IInv, NEW i \in Instances, Boots!TellStop(i) \/ Boots!Signal(i)
  PROVE  Boots!IInv'
<1>1. /\ version' = version /\ dirty' = dirty /\ ran' = ran /\ lock' = lock /\ bpc' = bpc
      /\ bfaults' = bfaults
  BY DEF Boots!schema, Boots!TellStop, Boots!Signal
<1>2. Boots!TypeOK /\ Boots!SchemaAgrees /\ \A j \in Instances : Boots!BootAgrees(j)
  BY DEF Boots!IInv
<1>3. /\ bsignaled \subseteq bsignaled' /\ bsignaled' \subseteq Instances
      /\ stopping' \subseteq bsignaled'
  BY <1>2 DEF Boots!TypeOK, Boots!TellStop, Boots!Signal
<1>4. Boots!TypeOK'
  BY <1>1, <1>2, <1>3 DEF Boots!TypeOK
<1>5. Boots!SchemaAgrees'
  BY <1>1, <1>2 DEF Boots!SchemaAgrees
<1>6. ASSUME NEW j \in Instances PROVE Boots!BootAgrees(j)'
  BY <1>1, <1>2, <1>3 DEF Boots!BootAgrees
<1> QED
  BY <1>4, <1>5, <1>6 DEF Boots!IInv

LEMMA BootsStep == Boots!IInv /\ [LifeNext]_allVars => Boots!IInv'
<1>1. [LifeNext]_allVars => Boots!Next \/ UNCHANGED boots
  BY DEF LifeNext, MonolithOnly, NotifierOnly, PublisherOnly, allVars
<1>2. ASSUME Boots!IInv, UNCHANGED boots PROVE Boots!IInv'
  <2>1. /\ version' = version /\ dirty' = dirty /\ ran' = ran /\ lock' = lock /\ bpc' = bpc
        /\ bsignaled' = bsignaled /\ stopping' = stopping /\ bfaults' = bfaults
    BY <1>2 DEF boots
  <2>2. Boots!TypeOK'
    BY <1>2, <2>1 DEF Boots!IInv, Boots!TypeOK
  <2>3. Boots!SchemaAgrees'
    BY <1>2, <2>1 DEF Boots!IInv, Boots!SchemaAgrees
  <2>4. ASSUME NEW j \in Instances PROVE Boots!BootAgrees(j)'
    BY <1>2, <2>1 DEF Boots!IInv, Boots!BootAgrees
  <2> QED
    BY <2>2, <2>3, <2>4 DEF Boots!IInv
<1>3. Boots!IInv /\ Boots!Next => Boots!IInv'
  BY BootsMove, BootsMigrate, BootsSignal DEF Boots!Next, Boots!Boot
<1> QED
  BY <1>1, <1>2, <1>3

\* What an IInv state shows: the process that serves does so on the last version.
LEMMA BootsMigrated == ASSUME Boots!IInv PROVE Boots!SchemaBeforeServing
BY BootsConstants DEF Boots!IInv, Boots!TypeOK, Boots!BootAgrees, Boots!SchemaAgrees,
   Boots!SchemaBeforeServing

-----------------------------------------------------------------------------
(* The publisher: what BrokerPublisherProofs shows of it alone holds of it *)
(* here, because its steps are the same.                                   *)

PublisherProofs == INSTANCE BrokerPublisherProofs

\* A set has as many elements here as there.
LEMMA SameCardinality ==
  ASSUME NEW S PROVE PublisherProofs!Cardinality(S) = Cardinality(S)
BY Zenon DEF Cardinality, PublisherProofs!Cardinality

\* The publisher's invariant is the one that was proved of it.
LEMMA PublisherSame ==
  (PublisherProofs!IInv <=> IInv) /\ (PublisherProofs!IInv' <=> IInv')
<1>1. (PublisherProofs!TypeOK <=> TypeOK) /\ (PublisherProofs!TypeOK' <=> TypeOK')
  BY Zenon DEF TypeOK, PublisherProofs!TypeOK, NoChannel, PublisherProofs!NoChannel
<1>2. /\ PublisherProofs!Cardinality({c \in Callers : pc[c] = "error"}) =
           Cardinality({c \in Callers : pc[c] = "error"})
      /\ PublisherProofs!Cardinality({c \in Callers : pc'[c] = "error"}) =
           Cardinality({c \in Callers : pc'[c] = "error"})
  BY Zenon, SameCardinality
<1>3. PublisherProofs!IInv <=> IInv
  BY Zenon, <1>1, <1>2
     DEF PublisherProofs!IInv, IInv, Undisturbed, PublisherProofs!Undisturbed, NoLeak,
         PublisherProofs!NoLeak, NoChannel, PublisherProofs!NoChannel
<1>4. PublisherProofs!IInv' <=> IInv'
  BY Zenon, <1>1, <1>2
     DEF PublisherProofs!IInv, IInv, Undisturbed, PublisherProofs!Undisturbed, NoLeak,
         PublisherProofs!NoLeak, NoChannel, PublisherProofs!NoChannel
<1> QED
  BY <1>3, <1>4

LEMMA PublisherInit == LifeInit => IInv
<1>1. Init => PublisherProofs!Init
  BY Zenon DEF Init, PublisherProofs!Init, NoChannel, PublisherProofs!NoChannel
<1>2. PublisherProofs!Init => PublisherProofs!IInv
  BY Zenon, PublisherAssumption, PublisherProofs!InitInv
     DEF PublisherAssumption, IsFiniteSet, PublisherProofs!IsFiniteSet
<1> QED
  BY <1>1, <1>2, PublisherSame DEF LifeInit

LEMMA PublisherStep == IInv /\ [LifeNext]_allVars => IInv'
<1>1. [LifeNext]_allVars => Next \/ UNCHANGED publisher
  BY DEF LifeNext, MonolithOnly, NotifierOnly, BootsOnly, allVars
<1>2. Next => PublisherProofs!Next
  BY Zenon DEF Next, PublisherProofs!Next, Publish, PublisherProofs!Publish, LiveChannel,
                  PublisherProofs!LiveChannel, Recheck, PublisherProofs!Recheck,
                  Dial, PublisherProofs!Dial, GiveUp, PublisherProofs!GiveUp,
                  DialLate, PublisherProofs!DialLate, CloseStray,
                  PublisherProofs!CloseStray, SendFrame,
                  PublisherProofs!SendFrame, Accept, PublisherProofs!Accept,
                  AwaitConfirm, PublisherProofs!AwaitConfirm, ResetIfCurrent,
                  PublisherProofs!ResetIfCurrent, Close, PublisherProofs!Close,
                  Drop, PublisherProofs!Drop, Goto, PublisherProofs!Goto, Fault,
                  PublisherProofs!Fault, Use, PublisherProofs!Use, NoChannel,
                  PublisherProofs!NoChannel, strayVars, PublisherProofs!strayVars
<1>3. UNCHANGED publisher => UNCHANGED PublisherProofs!vars
  BY DEF publisher, PublisherProofs!vars, PublisherProofs!strayVars
<1>4. PublisherProofs!IInv /\ [PublisherProofs!Next]_(PublisherProofs!vars) => PublisherProofs!IInv'
  BY Zenon, PublisherAssumption, PublisherProofs!StepInv
     DEF PublisherAssumption, IsFiniteSet, PublisherProofs!IsFiniteSet
<1> QED
  BY <1>1, <1>2, <1>3, <1>4, PublisherSame

\* The invariants of all four parts hold of every behaviour.
THEOREM PartsInductive == LifeSpec => []PartsInv
<1>1. LifeInit => PartsInv
  BY MonolithInit, NotifierInit, BootsInit, PublisherInit DEF PartsInv
<1>2. PartsInv /\ [LifeNext]_allVars => PartsInv'
  BY MonolithStep, NotifierStep, BootsStep, PublisherStep DEF PartsInv
<1> QED
  BY <1>1, <1>2, PTL DEF LifeSpec

\* openAndMigrateDB: whatever instances boot, stop or die beside it, a process serves
\* only on the complete schema, and no migration is committed twice.
THEOREM SchemaBeforeServingAlways == LifeSpec => []SchemaBeforeServing
<1>1. PartsInv => SchemaBeforeServing
  BY BootsMigrated DEF PartsInv, SchemaBeforeServing
<1> QED
  BY <1>1, PartsInductive, PTL
==============================================================================
