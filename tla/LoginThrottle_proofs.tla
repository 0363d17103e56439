------------------------ MODULE LoginThrottle_proofs ------------------------
(***************************************************************************)
(* Proofs about module LoginThrottle, for any number of requests and keys, *)
(* any configuration the constructor accepts and any stall below a window. *)
(***************************************************************************)
EXTENDS LoginThrottle, FiniteSetTheorems, TLAPS

(* No bucket starts, and no request read the clock, in the future. *)
NothingFromTheFuture ==
    /\ \A k \in Held(buckets) : buckets[k].start <= clock
    /\ \A w \in Workers : work[w].now <= clock

IInv ==
    /\ TypeOK
    /\ BoundedAccounting
    /\ NothingFromTheFuture

-----------------------------------------------------------------------------
(* Rounding up to whole seconds never falls short.                         *)
LEMMA WholeSecondsFacts ==
    ASSUME NEW t \in 1..Window
    PROVE  /\ WholeSeconds(t) \in 1..WholeSeconds(Window)
           /\ TicksPerSecond * WholeSeconds(t) >= t
<1>. DEFINE p == TicksPerSecond
            q == (t + p - 1) \div p
            r == (Window + p - 1) \div p
<1>1. p \in Nat \ {0} /\ Window \in Nat \ {0} /\ t \in Nat /\ t <= Window
  BY ConfigurationAssumption, TimeAssumption
<1>2. q \in Nat /\ t + p - 1 < p * (q + 1)
  BY <1>1
<1>3. r \in Nat /\ Window + p - 1 < p * (r + 1) /\ p * r <= Window + p - 1
  BY <1>1
<1>4. p * q <= t + p - 1
  BY <1>1
<1>. HIDE DEF p, q, r
<1>5. p * (q + 1) = p * q + p
  BY <1>1, <1>2
<1>6. p * q >= t
  BY <1>1, <1>2, <1>5
<1>7. q >= 1
  <2>. SUFFICES ASSUME q = 0 PROVE FALSE
    BY <1>2
  <2>. QED
    BY <1>1, <1>6
<1>8. q <= r
  <2>. SUFFICES ASSUME r + 1 <= q PROVE FALSE
    BY <1>2, <1>3
  <2>1. p * (r + 1) <= p * q
    BY <1>1, <1>2, <1>3
  <2>2. /\ p * (r + 1) \in Nat /\ p * q \in Nat
    BY <1>1, <1>2, <1>3
  <2>3. ASSUME NEW x \in Nat, NEW y \in Nat, x <= y, y <= t + p - 1, Window + p - 1 < x
        PROVE  FALSE
    BY <2>3, <1>1
  <2>. QED
    BY <1>3, <1>4, <2>1, <2>2, <2>3
<1>9. WholeSeconds(t) = q /\ WholeSeconds(Window) = r
  BY <1>2, <1>3, <1>7, <1>8 DEF WholeSeconds, q, r, p
<1>. QED
  BY <1>2, <1>3, <1>6, <1>7, <1>8, <1>9 DEF p

(* The buckets that survive retain are old buckets inside their window.    *)
LEMMA RetainFacts ==
    ASSUME TypeOK, NEW now \in Nat
    PROVE  /\ Retain(now) \in [Keys -> Bucket \cup {NoBucket}]
           /\ Held(Retain(now)) \subseteq Held(buckets)
           /\ \A k \in Held(Retain(now)) :
                 /\ Retain(now)[k] = buckets[k]
                 /\ Retain(now)[k] \in Bucket
                 /\ Since(now, buckets[k].start) < Window
<1>1. buckets \in [Keys -> Bucket \cup {NoBucket}]
  BY DEF TypeOK
<1>2. \A k \in Keys : Retain(now)[k] \in {buckets[k], NoBucket}
  BY DEF Retain
<1>3. \A k \in Held(Retain(now)) :
         k \in Keys /\ buckets[k] # NoBucket /\ Retain(now)[k] = buckets[k]
  BY <1>2 DEF Held, Retain
<1>4. \A k \in Held(Retain(now)) : Since(now, buckets[k].start) < Window
  BY <1>3 DEF Held, Retain
<1>5. Retain(now) \in [Keys -> Bucket \cup {NoBucket}]
  BY <1>1 DEF Retain
<1>. QED
  BY <1>1, <1>3, <1>4, <1>5 DEF Held

(* The rest of a surviving window is positive and no more than a window,   *)
(* and whoever waits it out, from an instant at which the bucket is there  *)
(* and the request has arrived, comes back after the window.               *)
LEMMA RemainingFacts ==
    ASSUME TypeOK, NEW now \in Nat, NEW k \in Held(Retain(now)),
           NEW c \in Nat, now <= c, buckets[k].start <= c
    PROVE  /\ Remaining(Retain(now)[k], now) \in 1..Window
           /\ c + Remaining(Retain(now)[k], now) >= buckets[k].start + Window
<1>1. /\ buckets[k].start \in Nat
      /\ Retain(now)[k] = buckets[k]
      /\ Since(now, buckets[k].start) < Window
  BY RetainFacts DEF Bucket
<1>2. Since(now, buckets[k].start) \in Nat
  BY <1>1 DEF Since
<1>3. c >= buckets[k].start + Since(now, buckets[k].start)
  BY <1>1 DEF Since
<1>4. Remaining(Retain(now)[k], now) = Window - Since(now, buckets[k].start)
  BY <1>1 DEF Remaining
<1>. QED
  BY <1>1, <1>2, <1>3, <1>4, ConfigurationAssumption

(* Cardinalities of the sets of keys that hold a bucket.                   *)
LEMMA FiniteHeld ==
    ASSUME NEW map
    PROVE  IsFiniteSet(Held(map)) /\ Cardinality(Held(map)) \in Nat
BY KeysAssumption, FS_Subset, FS_CardinalityType DEF Held

LEMMA HeldShrinks ==
    ASSUME TypeOK, NEW now \in Nat
    PROVE  Cardinality(Held(Retain(now))) <= Cardinality(Held(buckets))
BY RetainFacts, FiniteHeld, FS_Subset

-----------------------------------------------------------------------------
LEMMA InitIInv ==
    Init => IInv
<1>. SUFFICES ASSUME Init PROVE IInv
  OBVIOUS
<1>1. WholeSeconds(Window) \in Nat
  BY WholeSecondsFacts, ConfigurationAssumption
<1>2. TypeOK
  BY <1>1, KeysAssumption DEF Init, TypeOK, Answered, Work
<1>3. Held(buckets) = {}
  BY DEF Init, Held
<1>4. BoundedAccounting
  BY <1>3, FS_EmptySet, ConfigurationAssumption DEF BoundedAccounting
<1>5. NothingFromTheFuture
  BY <1>3 DEF Init, NothingFromTheFuture, Answered
<1>. QED
  BY <1>2, <1>4, <1>5 DEF IInv

LEMMA ArriveIInv ==
    ASSUME IInv, NEW w \in Workers, NEW k \in Keys, Arrive(w, k)
    PROVE  IInv'
<1>. USE DEF IInv
<1>1. WholeSeconds(Window) \in Nat
  BY WholeSecondsFacts, ConfigurationAssumption
<1>2. TypeOK'
  BY <1>1 DEF TypeOK, Arrive, Work
<1>3. BoundedAccounting'
  BY DEF BoundedAccounting, Arrive
<1>4. NothingFromTheFuture'
  BY DEF NothingFromTheFuture, Arrive, TypeOK
<1>. QED
  BY <1>2, <1>3, <1>4

LEMMA TickIInv ==
    ASSUME IInv, Tick
    PROVE  IInv'
<1>. USE DEF IInv
<1>1. clock' \in Nat /\ clock <= clock'
  BY DEF Tick, TypeOK
<1>2. recent' \in [0..Window -> Nat]
  BY ConfigurationAssumption DEF Tick, TypeOK
<1>3. TypeOK'
  BY <1>1, <1>2 DEF TypeOK, Tick
<1>4. BoundedAccounting'
  BY DEF BoundedAccounting, Tick
<1>5. NothingFromTheFuture'
  BY <1>1 DEF NothingFromTheFuture, Tick, TypeOK, Bucket, Work, Held
<1>. QED
  BY <1>3, <1>4, <1>5

(* What an answer leaves behind, whichever of the two it is.               *)
Answering(w) ==
    /\ work' \in [Workers -> Work]
    /\ recent' \in [0..Window -> Nat]
    /\ \A v \in Workers : work'[v] = work[v] \/ (v = w /\ work'[v].now = 0)

LEMMA AdmitAnswers ==
    ASSUME TypeOK, NEW w \in Workers, NEW k \in Keys, Admit(w, k)
    PROVE  Answering(w) /\ work'[w].wait = 0
<1>1. WholeSeconds(Window) \in Nat
  BY WholeSecondsFacts, ConfigurationAssumption
<1>2. Answered(0) \in Work
  BY <1>1, KeysAssumption DEF Answered, Work
<1>3. work' = [work EXCEPT ![w] = Answered(0)]
  BY DEF Admit
<1>4. work' \in [Workers -> Work]
  BY <1>2, <1>3 DEF TypeOK
<1>5. \A v \in Workers : work'[v] = IF v = w THEN Answered(0) ELSE work[v]
  BY <1>3 DEF TypeOK
<1>6. recent' \in [0..Window -> Nat]
  BY ConfigurationAssumption DEF Admit, TypeOK
<1>. QED
  BY <1>4, <1>5, <1>6 DEF Answering, Answered

LEMMA RefuseAnswers ==
    ASSUME TypeOK, NEW w \in Workers, NEW rest \in 1..Window, Refuse(w, rest)
    PROVE  Answering(w) /\ work'[w].wait = WholeSeconds(rest)
<1>1. WholeSeconds(rest) \in 0..WholeSeconds(Window)
  <2>1. WholeSeconds(Window) \in Nat /\ WholeSeconds(rest) \in 1..WholeSeconds(Window)
    BY WholeSecondsFacts, ConfigurationAssumption
  <2>. QED
    BY <2>1
<1>2. Answered(WholeSeconds(rest)) \in Work
  BY <1>1, KeysAssumption DEF Answered, Work
<1>3. work' = [work EXCEPT ![w] = Answered(WholeSeconds(rest))]
  BY DEF Refuse
<1>4. work' \in [Workers -> Work]
  BY <1>2, <1>3 DEF TypeOK
<1>5. \A v \in Workers :
         work'[v] = IF v = w THEN Answered(WholeSeconds(rest)) ELSE work[v]
  BY <1>3 DEF TypeOK
<1>6. recent' \in [0..Window -> Nat]
  BY DEF Refuse, TypeOK
<1>. QED
  BY <1>4, <1>5, <1>6 DEF Answering, Answered

(* The four outcomes of Acquire, without its abbreviations.                *)
Sat(w, k, now) ==
    /\ k \in Held(Retain(now)) /\ Retain(now)[k].attempts >= Limit
    /\ buckets' = Retain(now)
    /\ Refuse(w, Remaining(Retain(now)[k], now))

Counted(w, k, now) ==
    /\ k \in Held(Retain(now)) /\ Retain(now)[k].attempts < Limit
    /\ buckets' = [Retain(now) EXCEPT ![k].attempts = @ + 1]
    /\ Admit(w, k)

CrowdedOut(w, k, now, j) ==
    /\ k \notin Held(Retain(now)) /\ j \in Held(Retain(now))
    /\ buckets' = Retain(now)
    /\ Refuse(w, Remaining(Retain(now)[j], now))

Opened(w, k, now) ==
    /\ k \notin Held(Retain(now))
    /\ Cardinality(Held(Retain(now))) < MaxKeys
    /\ buckets' = [Retain(now) EXCEPT ![k] = [start |-> now, attempts |-> 1]]
    /\ Admit(w, k)

LEMMA AcquireCases ==
    ASSUME IInv, NEW w \in Workers, Acquire(w)
    PROVE  \E k \in Keys, now \in Nat :
              /\ k = work[w].key /\ now = work[w].now /\ now <= clock
              /\ clock' = clock
              /\ \/ Sat(w, k, now)
                 \/ Counted(w, k, now)
                 \/ \E j \in Keys : CrowdedOut(w, k, now, j)
                 \/ Opened(w, k, now)
<1>1. PICK k \in Keys, now \in Nat : k = work[w].key /\ now = work[w].now
  BY DEF IInv, TypeOK, Work
<1>2. now <= clock
  BY <1>1 DEF IInv, NothingFromTheFuture
<1>3. k \in Held(Retain(now)) <=> Retain(now)[k] # NoBucket
  BY DEF Held
<1>4. \/ Sat(w, k, now)
      \/ Counted(w, k, now)
      \/ \E j \in Keys : CrowdedOut(w, k, now, j)
      \/ Opened(w, k, now)
  <2>1. CASE Retain(now)[k] # NoBucket /\ Retain(now)[k].attempts >= Limit
    BY <2>1, <1>1, <1>3, RetainFacts, ConfigurationAssumption
    DEF Acquire, Sat, IInv, Bucket
  <2>2. CASE Retain(now)[k] # NoBucket /\ Retain(now)[k].attempts < Limit
    BY <2>2, <1>1, <1>3, RetainFacts, ConfigurationAssumption
    DEF Acquire, Counted, IInv, Bucket
  <2>3. CASE Retain(now)[k] = NoBucket /\ Cardinality(Held(Retain(now))) >= MaxKeys
    <3>1. \E j \in Held(Retain(now)) :
             /\ buckets' = Retain(now)
             /\ Refuse(w, Remaining(Retain(now)[j], now))
      BY <2>3, <1>1, FiniteHeld, ConfigurationAssumption DEF Acquire
    <3>. QED
      BY <2>3, <3>1, <1>3 DEF CrowdedOut, Held
  <2>4. CASE Retain(now)[k] = NoBucket /\ Cardinality(Held(Retain(now))) < MaxKeys
    BY <2>4, <1>1, <1>3, FiniteHeld, ConfigurationAssumption DEF Acquire, Opened
  <2>5. k \in Held(Retain(now)) => Retain(now)[k].attempts \in Nat
    BY RetainFacts DEF IInv, Bucket
  <2>. QED
    BY <2>1, <2>2, <2>3, <2>4, <2>5, <1>3, FiniteHeld, ConfigurationAssumption
<1>. QED
  BY <1>1, <1>2, <1>4 DEF Acquire

(* Every outcome keeps the map bounded, its budgets unbroken and its       *)
(* starts out of the future, and answers the request.                      *)
GoodMap(map) ==
    /\ map \in [Keys -> Bucket \cup {NoBucket}]
    /\ Cardinality(Held(map)) <= MaxKeys
    /\ \A k \in Held(map) : map[k].attempts \in 1..Limit /\ map[k].start <= clock

LEMMA RetainedGood ==
    ASSUME IInv, NEW now \in Nat
    PROVE  GoodMap(Retain(now))
<1>1. \A k \in Held(Retain(now)) : k \in Held(buckets) /\ Retain(now)[k] = buckets[k]
  BY RetainFacts DEF IInv
<1>2. Cardinality(Held(Retain(now))) <= MaxKeys
  BY HeldShrinks, FiniteHeld, ConfigurationAssumption DEF IInv, BoundedAccounting
<1>. QED
  BY <1>1, <1>2, RetainFacts DEF IInv, BoundedAccounting, NothingFromTheFuture, GoodMap

LEMMA OutcomeFacts ==
    ASSUME IInv, NEW w \in Workers, NEW k \in Keys, NEW now \in Nat, now <= clock,
           \/ Sat(w, k, now)
           \/ Counted(w, k, now)
           \/ \E j \in Keys : CrowdedOut(w, k, now, j)
           \/ Opened(w, k, now)
    PROVE  GoodMap(buckets') /\ Answering(w)
<1>. DEFINE kept == Retain(now)
<1>1. GoodMap(kept)
  BY RetainedGood
<1>2. TypeOK /\ \A j \in Held(kept) : buckets[j].start \in Nat /\ buckets[j].start <= clock
  BY RetainFacts DEF IInv, NothingFromTheFuture, Bucket
<1>3. \A j \in Held(kept) : Remaining(kept[j], now) \in 1..Window
  BY <1>2, RemainingFacts DEF TypeOK
<1>4. CASE Sat(w, k, now)
  BY <1>1, <1>2, <1>3, <1>4, RefuseAnswers DEF Sat
<1>5. CASE \E j \in Keys : CrowdedOut(w, k, now, j)
  BY <1>1, <1>2, <1>3, <1>5, RefuseAnswers DEF CrowdedOut
<1>6. CASE Counted(w, k, now)
  <2>1. kept[k] \in Bucket /\ kept[k].attempts \in 1..Limit /\ kept[k].attempts < Limit
    BY <1>1, <1>2, <1>6, RetainFacts DEF Counted, GoodMap
  <2>2. PICK b : b = [kept[k] EXCEPT !.attempts = @ + 1]
    OBVIOUS
  <2>3. b \in Bucket /\ b.attempts \in 1..Limit /\ b.start = kept[k].start
    BY <2>1, <2>2, ConfigurationAssumption DEF Bucket
  <2>4. buckets' = [kept EXCEPT ![k] = b]
    BY <1>6, <2>2 DEF Counted
  <2>5. kept \in [Keys -> Bucket \cup {NoBucket}]
    BY <1>1 DEF GoodMap
  <2>6. \A j \in Keys : buckets'[j] = IF j = k THEN b ELSE kept[j]
    BY <2>4, <2>5
  <2>7. Held(buckets') = Held(kept)
    BY <1>6, <2>3, <2>6, NoBucketAssumption DEF Counted, Held
  <2>8. buckets' \in [Keys -> Bucket \cup {NoBucket}]
    BY <2>3, <2>4, <2>5
  <2>9. \A j \in Held(buckets') : buckets'[j].attempts \in 1..Limit /\ buckets'[j].start <= clock
    BY <1>1, <1>6, <2>3, <2>6, <2>7 DEF Counted, GoodMap, Held
  <2>. QED
    BY <1>1, <1>2, <1>6, <2>7, <2>8, <2>9, AdmitAnswers DEF Counted, GoodMap
<1>7. CASE Opened(w, k, now)
  <2>1. PICK b : b = [start |-> now, attempts |-> 1]
    OBVIOUS
  <2>2. b \in Bucket /\ b.attempts \in 1..Limit /\ b.start <= clock
    BY <2>1, ConfigurationAssumption DEF Bucket
  <2>3. kept \in [Keys -> Bucket \cup {NoBucket}]
    BY <1>1 DEF GoodMap
  <2>4. buckets' = [kept EXCEPT ![k] = b]
    BY <1>7, <2>1 DEF Opened
  <2>5. \A j \in Keys : buckets'[j] = IF j = k THEN b ELSE kept[j]
    BY <2>3, <2>4
  <2>6. Held(buckets') = Held(kept) \cup {k}
    BY <2>2, <2>5, NoBucketAssumption DEF Held
  <2>7. Cardinality(Held(buckets')) = Cardinality(Held(kept)) + 1
    BY <1>7, <2>6, FiniteHeld, FS_AddElement DEF Opened
  <2>8. Cardinality(Held(buckets')) <= MaxKeys
    BY <1>7, <2>7, FiniteHeld, ConfigurationAssumption DEF Opened
  <2>9. buckets' \in [Keys -> Bucket \cup {NoBucket}]
    BY <2>2, <2>3, <2>4
  <2>10. \A j \in Held(buckets') : buckets'[j].attempts \in 1..Limit /\ buckets'[j].start <= clock
    BY <1>1, <2>2, <2>5, <2>6 DEF GoodMap, Held
  <2>. QED
    BY <1>2, <1>7, <2>8, <2>9, <2>10, AdmitAnswers DEF Opened, GoodMap
<1>. QED
  BY <1>4, <1>5, <1>6, <1>7

LEMMA AcquireIInv ==
    ASSUME IInv, NEW w \in Workers, Acquire(w)
    PROVE  IInv'
<1>1. GoodMap(buckets') /\ Answering(w) /\ clock' = clock
  BY AcquireCases, OutcomeFacts
<1>2. TypeOK'
  BY <1>1 DEF GoodMap, Answering, TypeOK, IInv
<1>3. BoundedAccounting'
  BY <1>1 DEF GoodMap, BoundedAccounting
<1>4. NothingFromTheFuture'
  BY <1>1 DEF GoodMap, Answering, NothingFromTheFuture, IInv, TypeOK
<1>. QED
  BY <1>2, <1>3, <1>4 DEF IInv

LEMMA NextIInv ==
    ASSUME IInv, [Next]_vars
    PROVE  IInv'
<1>1. ASSUME NEW w \in Workers, NEW k \in Keys, Arrive(w, k) PROVE IInv'
  BY <1>1, ArriveIInv
<1>2. ASSUME NEW w \in Workers, Acquire(w) PROVE IInv'
  BY <1>2, AcquireIInv
<1>3. CASE Tick
  BY <1>3, TickIInv
<1>4. CASE UNCHANGED vars
  BY <1>4 DEF vars, IInv, TypeOK, BoundedAccounting, NothingFromTheFuture
<1>. QED
  BY <1>1, <1>2, <1>3, <1>4 DEF Next

LEMMA Inductive ==
    Spec => []IInv
<1>1. Init => IInv
  BY InitIInv
<1>2. IInv /\ [Next]_vars => IInv'
  BY NextIInv
<1>. QED
  BY <1>1, <1>2, PTL DEF Spec

-----------------------------------------------------------------------------
(* The variables of AxLoginThrottle keep their types: in particular a      *)
(* Retry-After is at most the window in seconds, rounded up.               *)
THEOREM TypeCorrect == Spec => []TypeOK
<1>1. IInv => TypeOK
  BY DEF IInv
<1>. QED
  BY <1>1, Inductive, PTL

(* The bucket map of acquire_at stays within max_keys, every budget within *)
(* the limit, for any number of concurrent requests.                       *)
THEOREM MapIsBounded == Spec => []BoundedAccounting
<1>1. IInv => BoundedAccounting
  BY DEF IInv
<1>. QED
  BY <1>1, Inductive, PTL

(* Nothing that acquire_at does takes a budget away before its window ends.*)
THEOREM BudgetsLast == Spec => BudgetsRunTheirWindow
<1>. DEFINE Kept(k) == \/ buckets'[k] = buckets[k]
                       \/ buckets'[k] = [buckets[k] EXCEPT !.attempts = @ + 1]
                       \/ clock >= buckets[k].start + Window
<1>1. ASSUME IInv, [Next]_vars PROVE \A k \in Held(buckets) : Kept(k)
  <2>. SUFFICES ASSUME NEW i \in Held(buckets), buckets'[i] # buckets[i] PROVE Kept(i)
    OBVIOUS
  <2>1. PICK w \in Workers : Acquire(w)
    BY <1>1 DEF Next, Arrive, Tick, vars
  <2>2. PICK k \in Keys, now \in Nat :
           /\ now <= clock
           /\ \/ Sat(w, k, now)
              \/ Counted(w, k, now)
              \/ \E j \in Keys : CrowdedOut(w, k, now, j)
              \/ Opened(w, k, now)
    BY <1>1, <2>1, AcquireCases
  <2>3. i \in Keys /\ buckets[i] \in Bucket /\ clock \in Nat
    BY <1>1 DEF IInv, TypeOK, Held
  <2>4. CASE i \notin Held(Retain(now))
    <3>1. ~ (Since(now, buckets[i].start) < Window)
      BY <2>3, <2>4, NoBucketAssumption DEF Held, Retain
    <3>. QED
      BY <2>2, <2>3, <3>1, ConfigurationAssumption DEF Since, Bucket
  <2>5. CASE i \in Held(Retain(now))
    <3>1. Retain(now)[i] = buckets[i] /\ Retain(now) \in [Keys -> Bucket \cup {NoBucket}]
      BY <1>1, <2>5, RetainFacts DEF IInv
    <3>2. ~ Sat(w, k, now) /\ ~ \E j \in Keys : CrowdedOut(w, k, now, j)
      BY <3>1 DEF Sat, CrowdedOut
    <3>3. CASE Counted(w, k, now)
      BY <2>3, <3>1, <3>3 DEF Counted
    <3>4. CASE Opened(w, k, now)
      BY <2>3, <2>5, <3>1, <3>4 DEF Opened
    <3>. QED
      BY <2>2, <3>2, <3>3, <3>4
  <2>. QED
    BY <2>4, <2>5
<1>2. IInv /\ [Next]_vars => [\A k \in Held(buckets) : Kept(k)]_vars
  BY <1>1
<1>. QED
  BY <1>2, Inductive, PTL DEF Spec, BudgetsRunTheirWindow

(* A client that comes back after the Retry-After of AxLoginThrottleError  *)
(* finds the window over that kept it out.                                 *)
THEOREM WaitingSuffices == Spec => RetryAfterIsEnough
<1>. DEFINE Over(k, wait) ==
              clock + TicksPerSecond * wait >= buckets'[k].start + Window
            Told(w) == IF work[w].key \in Held(buckets')
                         THEN Over(work[w].key, work'[w].wait)
                         ELSE \E k \in Held(buckets') : Over(k, work'[w].wait)
<1>1. ASSUME IInv, [Next]_vars, NEW w \in Workers,
             work[w].pc = "acquire", work'[w].pc = "idle", work'[w].wait > 0
      PROVE  Told(w)
  <2>1. work \in [Workers -> Work] /\ clock \in Nat
    BY <1>1 DEF IInv, TypeOK
  <2>2. Acquire(w)
    <3>1. work'[w] # work[w]
      BY <1>1
    <3>2. ~ Tick /\ ~ UNCHANGED vars
      BY <3>1 DEF Tick, vars
    <3>3. ASSUME NEW v \in Workers, NEW k \in Keys PROVE ~ Arrive(v, k)
      BY <1>1, <2>1, <3>1 DEF Arrive
    <3>4. PICK v \in Workers : Acquire(v)
      BY <1>1, <3>2, <3>3 DEF Next
    <3>5. Answering(v)
      BY <1>1, <3>4, AcquireCases, OutcomeFacts
    <3>. QED
      BY <3>1, <3>4, <3>5 DEF Answering
  <2>3. PICK k \in Keys, now \in Nat :
           /\ k = work[w].key /\ now <= clock
           /\ clock' = clock
           /\ \/ Sat(w, k, now)
              \/ Counted(w, k, now)
              \/ \E j \in Keys : CrowdedOut(w, k, now, j)
              \/ Opened(w, k, now)
    BY <1>1, <2>2, AcquireCases
  <2>4. ~ Counted(w, k, now) /\ ~ Opened(w, k, now)
    BY <1>1, <2>3, AdmitAnswers DEF IInv, Counted, Opened
  <2>5. ASSUME NEW j \in Held(Retain(now)), buckets' = Retain(now),
               Refuse(w, Remaining(Retain(now)[j], now))
        PROVE  j \in Held(buckets') /\ Over(j, work'[w].wait)
    <3>1. /\ buckets'[j] = buckets[j]
          /\ buckets[j].start \in Nat /\ buckets[j].start <= clock
      BY <1>1, <2>5, RetainFacts DEF IInv, NothingFromTheFuture, Bucket
    <3>2. PICK rest \in 1..Window :
             /\ rest = Remaining(Retain(now)[j], now)
             /\ clock + rest >= buckets[j].start + Window
      BY <1>1, <2>1, <2>3, <3>1, RemainingFacts DEF IInv
    <3>3. work'[w].wait = WholeSeconds(rest)
      BY <1>1, <2>5, <3>2, RefuseAnswers DEF IInv
    <3>4. PICK told \in Nat : told = TicksPerSecond * WholeSeconds(rest) /\ told >= rest
      <4>1. /\ WholeSeconds(Window) \in Nat
            /\ WholeSeconds(rest) \in 1..WholeSeconds(Window)
            /\ TicksPerSecond * WholeSeconds(rest) >= rest
        BY WholeSecondsFacts, ConfigurationAssumption
      <4>. QED
        BY <4>1, TimeAssumption
    <3>. QED
      BY <2>1, <2>5, <3>1, <3>2, <3>3, <3>4, ConfigurationAssumption
  <2>6. CASE Sat(w, k, now)
    BY <2>3, <2>5, <2>6 DEF Sat
  <2>7. CASE \E j \in Keys : CrowdedOut(w, k, now, j)
    BY <2>3, <2>5, <2>7 DEF CrowdedOut
  <2>. QED
    BY <2>3, <2>4, <2>6, <2>7
<1>2. IInv /\ [Next]_vars =>
        [\A w \in Workers :
            work[w].pc = "acquire" /\ work'[w].pc = "idle" /\ work'[w].wait > 0 =>
               Told(w)]_vars
  BY <1>1
<1>. HIDE DEF Told
<1>3. Spec => [][\A w \in Workers :
            work[w].pc = "acquire" /\ work'[w].pc = "idle" /\ work'[w].wait > 0 =>
               Told(w)]_vars
  BY <1>2, Inductive, PTL DEF Spec
<1>. QED
  BY <1>3 DEF RetryAfterIsEnough, Told

-----------------------------------------------------------------------------
(* Two budgets, never three.  A bucket made at instant t has its start at  *)
(* most a stall before t, so that it lasts Window - MaxStall ticks of real *)
(* time at least: of the admissions in as many ticks none is older than    *)
(* the bucket before the present one.                                      *)

(* The longest span of ticks before the present one that counts.           *)
Span == Window - MaxStall - 1

(* No request is held up for longer between the clock and the lock.        *)
StallsAreBounded == \A w \in Workers : work[w].pc = "acquire" => clock - work[w].now <= MaxStall

(* What was admitted of late, counts[i] in the last i ticks and this one,  *)
(* against b, the bucket of Watched: without a bucket, one budget at most; *)
(* with a bucket made at instant t, its own attempts and nothing else      *)
(* since t, and one budget more in the span before t.                      *)
MadeAt(b, counts, t) ==
    /\ t <= clock /\ t <= b.start + MaxStall
    /\ \A i \in 0..Window : i < clock - t => counts[i] <= b.attempts
    /\ \A i \in 0..Window : i <= clock - t + Span => counts[i] <= b.attempts + Limit

Spaced(b, counts) ==
    IF b = NoBucket THEN \A i \in 0..Span : counts[i] <= Limit
                    ELSE \E t \in Nat : MadeAt(b, counts, t)

Paced == StallsAreBounded /\ Spaced(buckets[Watched], recent)

LEMMA SpanFacts ==
    /\ Span \in Nat /\ Span < Window /\ 0..Span \subseteq 0..Window
    /\ Window \in Nat /\ MaxStall \in Nat /\ Limit \in Nat \ {0}
  BY ConfigurationAssumption, TimeAssumption DEF Span

(* A bucket that retain drops has been there for longer than the span.     *)
LEMMA RetainSpaced ==
    ASSUME IInv, Spaced(buckets[Watched], recent), NEW now \in Nat, now <= clock
    PROVE  Spaced(Retain(now)[Watched], recent)
<1>1. Watched \in Keys /\ clock \in Nat /\ recent \in [0..Window -> Nat]
      /\ buckets \in [Keys -> Bucket \cup {NoBucket}]
  BY KeysAssumption DEF IInv, TypeOK
<1>2. CASE Retain(now)[Watched] = buckets[Watched]
  BY <1>2
<1>3. CASE Retain(now)[Watched] # buckets[Watched]
  <2>1. /\ Retain(now)[Watched] = NoBucket /\ buckets[Watched] \in Bucket
        /\ ~ (Since(now, buckets[Watched].start) < Window)
    BY <1>1, <1>3 DEF Retain
  <2>2. PICK b \in Bucket : b = buckets[Watched]
    BY <2>1
  <2>3. b.start \in Nat /\ b.attempts \in Nat /\ b # NoBucket
    BY NoBucketAssumption DEF Bucket
  <2>4. now >= b.start + Window
    BY <2>1, <2>2, <2>3, SpanFacts, ConfigurationAssumption DEF Since
  <2>5. b.attempts <= Limit
    BY <1>1, <2>2, <2>3 DEF IInv, BoundedAccounting, Held
  <2>6. PICK t \in Nat : MadeAt(b, recent, t)
    BY <2>2, <2>3 DEF Spaced
  <2>7. Span < clock - t
    BY <1>1, <2>3, <2>4, <2>6, SpanFacts DEF MadeAt, Span
  <2>8. ASSUME NEW i \in 0..Span PROVE recent[i] <= Limit
    <3>1. i < clock - t /\ i \in 0..Window
      BY <1>1, <2>7, SpanFacts
    <3>2. recent[i] <= b.attempts /\ recent[i] \in Nat
      BY <1>1, <2>6, <3>1 DEF MadeAt
    <3>. QED
      BY <2>3, <2>5, <3>2, SpanFacts
  <2>. QED
    BY <2>1, <2>8 DEF Spaced
<1>. QED
  BY <1>2, <1>3

LEMMA CountedSpaced ==
    ASSUME NEW b \in Bucket, NEW counts \in [0..Window -> Nat], Spaced(b, counts),
           NEW more, more = [b EXCEPT !.attempts = @ + 1],
           NEW counts2, counts2 = [i \in 0..Window |-> counts[i] + 1]
    PROVE  Spaced(more, counts2)
<1>1. /\ b.start \in Nat /\ b.attempts \in Nat /\ b # NoBucket
      /\ more.start = b.start /\ more.attempts = b.attempts + 1 /\ more # NoBucket
  <2>1. more \in Bucket /\ more.start = b.start /\ more.attempts = b.attempts + 1
    BY DEF Bucket
  <2>. QED
    BY <2>1, NoBucketAssumption DEF Bucket
<1>2. PICK t \in Nat : MadeAt(b, counts, t)
  BY <1>1 DEF Spaced
<1>3. \A i \in 0..Window : counts2[i] = counts[i] + 1 /\ counts[i] \in Nat
  OBVIOUS
<1>4. MadeAt(more, counts2, t)
  <2>1. t <= clock /\ t <= more.start + MaxStall
    BY <1>1, <1>2 DEF MadeAt
  <2>2. ASSUME NEW i \in 0..Window, i < clock - t PROVE counts2[i] <= more.attempts
    <3>1. counts[i] <= b.attempts
      BY <1>2, <2>2 DEF MadeAt
    <3>. QED
      BY <1>1, <1>3, <3>1
  <2>3. ASSUME NEW i \in 0..Window, i <= clock - t + Span
        PROVE  counts2[i] <= more.attempts + Limit
    <3>1. counts[i] <= b.attempts + Limit
      BY <1>2, <2>3 DEF MadeAt
    <3>. QED
      BY <1>1, <1>3, <3>1, SpanFacts
  <2>. QED
    BY <2>1, <2>2, <2>3 DEF MadeAt
<1>. QED
  BY <1>1, <1>4 DEF Spaced

LEMMA OpenedSpaced ==
    ASSUME clock \in Nat, NEW counts \in [0..Window -> Nat], Spaced(NoBucket, counts),
           NEW now \in Nat, now <= clock, clock - now <= MaxStall,
           NEW made, made = [start |-> now, attempts |-> 1],
           NEW counts2, counts2 = [i \in 0..Window |-> counts[i] + 1]
    PROVE  Spaced(made, counts2)
<1>1. made # NoBucket /\ made.start = now /\ made.attempts = 1
  BY NoBucketAssumption DEF Bucket
<1>2. \A i \in 0..Window : counts2[i] = counts[i] + 1 /\ counts[i] \in Nat
  OBVIOUS
<1>3. \A i \in 0..Window : i <= Span => counts[i] <= Limit
  BY SpanFacts DEF Spaced
<1>4. MadeAt(made, counts2, clock)
  BY <1>1, <1>2, <1>3, SpanFacts DEF MadeAt
<1>. QED
  BY <1>1, <1>4 DEF Spaced

LEMMA AcquirePaced ==
    ASSUME IInv, Paced, NEW w \in Workers, Acquire(w)
    PROVE  Paced'
<1>1. Watched \in Keys /\ clock \in Nat /\ recent \in [0..Window -> Nat]
      /\ work \in [Workers -> Work]
  BY KeysAssumption DEF IInv, TypeOK
<1>2. PICK k \in Keys, now \in Nat :
         /\ k = work[w].key /\ now = work[w].now /\ now <= clock
         /\ clock' = clock
         /\ \/ Sat(w, k, now)
            \/ Counted(w, k, now)
            \/ \E j \in Keys : CrowdedOut(w, k, now, j)
            \/ Opened(w, k, now)
  BY AcquireCases
<1>3. Answering(w)
  BY <1>2, OutcomeFacts
<1>4. clock - now <= MaxStall
  BY <1>2 DEF Paced, StallsAreBounded, Acquire
<1>. DEFINE kept == Retain(now)
<1>5. Spaced(kept[Watched], recent)
  BY <1>2, RetainSpaced DEF Paced
<1>6. kept \in [Keys -> Bucket \cup {NoBucket}]
      /\ \A j \in Held(kept) : kept[j] \in Bucket
  BY RetainFacts DEF IInv
<1>. HIDE DEF kept
<1>7. StallsAreBounded'
  <2>1. work'[w].pc = "idle"
    BY <1>1, <1>2 DEF Sat, Counted, CrowdedOut, Opened, Admit, Refuse, Answered
  <2>2. \A v \in Workers : work'[v] = work[v] \/ v = w
    BY <1>3 DEF Answering
  <2>. QED
    BY <1>2, <2>1, <2>2 DEF Paced, StallsAreBounded
<1>8. CASE buckets' = kept /\ recent' = recent
  BY <1>2, <1>5, <1>7, <1>8 DEF Paced, Spaced, MadeAt
<1>9. CASE Sat(w, k, now) \/ \E j \in Keys : CrowdedOut(w, k, now, j)
  BY <1>8, <1>9 DEF Sat, CrowdedOut, Refuse, kept
<1>10. CASE k # Watched /\ (Counted(w, k, now) \/ Opened(w, k, now))
  <2>1. recent' = recent
    BY <1>10 DEF Counted, Opened, Admit
  <2>2. buckets'[Watched] = kept[Watched]
    BY <1>1, <1>6, <1>10 DEF Counted, Opened, kept
  <2>. QED
    BY <1>2, <1>5, <1>7, <2>1, <2>2 DEF Paced, Spaced, MadeAt
<1>11. CASE k = Watched /\ Counted(w, k, now)
  <2>1. PICK b \in Bucket : b = kept[Watched]
    BY <1>6, <1>11 DEF Counted, kept
  <2>2. PICK more : more = [b EXCEPT !.attempts = @ + 1]
    OBVIOUS
  <2>3. buckets'[Watched] = more
    BY <1>1, <1>6, <1>11, <2>1, <2>2 DEF Counted, kept
  <2>4. recent' = [i \in 0..Window |-> recent[i] + 1]
    BY <1>11 DEF Counted, Admit
  <2>5. Spaced(more, recent')
    BY <1>1, <1>5, <2>1, <2>2, <2>4, CountedSpaced
  <2>. QED
    BY <1>2, <1>7, <2>3, <2>5 DEF Paced, Spaced, MadeAt
<1>12. CASE k = Watched /\ Opened(w, k, now)
  <2>1. kept[Watched] = NoBucket
    BY <1>1, <1>12 DEF Opened, Held, kept
  <2>2. PICK made : made = [start |-> now, attempts |-> 1]
    OBVIOUS
  <2>3. buckets'[Watched] = made
    BY <1>1, <1>6, <1>12, <2>2 DEF Opened, kept
  <2>4. recent' = [i \in 0..Window |-> recent[i] + 1]
    BY <1>12 DEF Opened, Admit
  <2>5. Spaced(made, recent')
    BY <1>1, <1>2, <1>4, <1>5, <2>1, <2>2, <2>4, OpenedSpaced
  <2>. QED
    BY <1>2, <1>7, <2>3, <2>5 DEF Paced, Spaced, MadeAt
<1>. QED
  BY <1>2, <1>9, <1>10, <1>11, <1>12

LEMMA TickPaced ==
    ASSUME IInv, Paced, Tick
    PROVE  Paced'
<1>1. clock \in Nat /\ clock' = clock + 1 /\ recent \in [0..Window -> Nat]
      /\ UNCHANGED <<buckets, work>>
      /\ recent' = [i \in 0..Window |-> IF i = 0 THEN 0 ELSE recent[i - 1]]
  BY DEF IInv, TypeOK, Tick
<1>2. \A i \in 0..Window : recent'[i] \in Nat /\ (i > 0 => i - 1 \in 0..Window)
                           /\ recent'[i] = (IF i = 0 THEN 0 ELSE recent[i - 1])
  BY <1>1, SpanFacts
<1>3. StallsAreBounded'
  <2>1. /\ clock' = clock + 1 /\ work' = work
        /\ \A w \in Workers : work[w].pc = "acquire" => clock + 1 - work[w].now <= MaxStall
    BY DEF Tick
  <2>2. \A w \in Workers : work[w].now \in Nat
    BY DEF IInv, TypeOK, Work
  <2>3. ASSUME NEW w \in Workers, work'[w].pc = "acquire"
        PROVE  clock' - work'[w].now <= MaxStall
    <3>1. clock + 1 - work[w].now <= MaxStall
      BY <2>1, <2>3
    <3>. QED
      BY <1>1, <2>1, <2>2, <3>1
  <2>. QED
    BY <2>3 DEF StallsAreBounded
<1>4. CASE buckets[Watched] = NoBucket
  <2>1. \A i \in 0..Span : recent[i] <= Limit
    BY <1>4 DEF Paced, Spaced
  <2>2. \A i \in 0..Span : recent'[i] <= Limit
    BY <1>2, <2>1, SpanFacts
  <2>. QED
    BY <1>1, <1>3, <1>4, <2>2 DEF Paced, Spaced
<1>5. CASE buckets[Watched] # NoBucket
  <2>1. PICK b \in Bucket : b = buckets[Watched]
    BY <1>5, KeysAssumption DEF IInv, TypeOK
  <2>2. b.start \in Nat /\ b.attempts \in Nat
    BY DEF Bucket
  <2>3. PICK t \in Nat : MadeAt(b, recent, t)
    BY <1>5, <2>1 DEF Paced, Spaced
  <2>4. t <= clock' /\ t <= b.start + MaxStall
    BY <1>1, <2>3 DEF MadeAt
  <2>5. ASSUME NEW i \in 0..Window, i < clock' - t PROVE recent'[i] <= b.attempts
    BY <1>1, <1>2, <2>2, <2>3, <2>5, SpanFacts DEF MadeAt
  <2>6. ASSUME NEW i \in 0..Window, i <= clock' - t + Span
        PROVE  recent'[i] <= b.attempts + Limit
    BY <1>1, <1>2, <2>2, <2>3, <2>6, SpanFacts DEF MadeAt
  <2>7. buckets'[Watched] = b /\ b # NoBucket
    BY <1>1, <1>5, <2>1
  <2>. QED
    BY <1>3, <2>4, <2>5, <2>6, <2>7 DEF Paced, Spaced, MadeAt
<1>. QED
  BY <1>4, <1>5

(* The history of the admissions of one key in acquire_at, under any stall *)
(* of requests between Instant::now() and the lock: no span shorter than a *)
(* window by the stall ever sees a third budget.                           *)
THEOREM TwoBudgetsAtMost == Spec => []AtMostTwoBudgets
<1>1. Init => Paced
  BY SpanFacts, KeysAssumption DEF Init, Paced, StallsAreBounded, Spaced, Answered
<1>2. IInv /\ Paced /\ [Next]_vars => Paced'
  <2>. SUFFICES ASSUME IInv, Paced, [Next]_vars PROVE Paced'
    OBVIOUS
  <2>1. ASSUME NEW w \in Workers, NEW k \in Keys, Arrive(w, k) PROVE Paced'
    <3>1. clock \in Nat /\ work \in [Workers -> Work] /\ UNCHANGED <<clock, buckets, recent>>
      BY <2>1 DEF IInv, TypeOK, Arrive
    <3>2. work' = [work EXCEPT ![w] = [pc |-> "acquire", key |-> k, now |-> clock, wait |-> 0]]
      BY <2>1 DEF Arrive
    <3>3. StallsAreBounded'
      BY <3>1, <3>2, SpanFacts DEF Paced, StallsAreBounded
    <3>. QED
      BY <3>1, <3>3 DEF Paced, Spaced, MadeAt
  <2>2. ASSUME NEW w \in Workers, Acquire(w) PROVE Paced'
    BY <2>2, AcquirePaced
  <2>3. CASE Tick
    BY <2>3, TickPaced
  <2>4. CASE UNCHANGED vars
    BY <2>4 DEF vars, Paced, StallsAreBounded, Spaced, MadeAt
  <2>. QED
    BY <2>1, <2>2, <2>3, <2>4 DEF Next
<1>3. IInv /\ Paced => AtMostTwoBudgets
  <2>. SUFFICES ASSUME IInv, Paced PROVE recent[Span] <= 2 * Limit
    BY DEF AtMostTwoBudgets, Span
  <2>1. clock \in Nat /\ Watched \in Keys /\ recent[Span] \in Nat /\ Span \in 0..Window
    BY KeysAssumption, SpanFacts DEF IInv, TypeOK
  <2>2. CASE buckets[Watched] = NoBucket
    BY <2>1, <2>2, SpanFacts DEF Paced, Spaced
  <2>3. CASE buckets[Watched] # NoBucket
    <3>1. PICK b \in Bucket : b = buckets[Watched] /\ b.attempts \in 1..Limit
      BY <2>1, <2>3 DEF IInv, TypeOK, BoundedAccounting, Held
    <3>2. PICK t \in Nat : MadeAt(b, recent, t)
      BY <2>3, <3>1 DEF Paced, Spaced
    <3>3. recent[Span] <= b.attempts + Limit
      BY <2>1, <3>2, SpanFacts DEF MadeAt
    <3>. QED
      BY <2>1, <3>1, <3>3, SpanFacts
  <2>. QED
    BY <2>2, <2>3
<1>. QED
  BY <1>1, <1>2, <1>3, Inductive, PTL DEF Spec
=============================================================================
