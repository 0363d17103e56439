---------------------------- MODULE LoginThrottle ----------------------------
(***************************************************************************)
(* AxLoginThrottle: the process-local admission guard in front of login    *)
(* work, shared by all requests of a server.                               *)
(*                                                                         *)
(* try_acquire reads the monotonic clock first and takes the lock of the   *)
(* bucket map afterwards, so requests may enter the map in another order   *)
(* than they read the clock; inside the lock everything is one step.  Time *)
(* is counted in ticks, TicksPerSecond of them to the second, because the  *)
(* waiting time a client is told is rounded to whole seconds.              *)
(***************************************************************************)
EXTENDS Integers, FiniteSets

CONSTANTS
    Workers,        \* requests in progress at once
    Keys,           \* throttle keys (accounts) in use
    Watched,        \* the key whose admissions the history records
    Limit,          \* attempts a window admits
    Window,         \* length of a window in ticks
    MaxKeys,        \* buckets the map may hold
    TicksPerSecond,
    MaxStall,       \* bound on the ticks between clock reading and lock
    MaxTime,        \* bound on the clock
    NoBucket        \* the map has no entry for this key

ASSUME ConfigurationAssumption ==
    /\ Limit \in Nat \ {0}
    /\ Window \in Nat \ {0}
    /\ MaxKeys \in Nat \ {0}
ASSUME TimeAssumption ==
    /\ TicksPerSecond \in Nat \ {0}
    /\ MaxStall \in Nat /\ MaxStall < Window
    /\ MaxTime \in Nat

Bucket == [start : Nat, attempts : Nat]

ASSUME NoBucketAssumption == NoBucket \notin Bucket
ASSUME KeysAssumption == IsFiniteSet(Keys) /\ Watched \in Keys

VARIABLES
    clock,      \* Instant::now()
    buckets,    \* [Keys -> Bucket \cup {NoBucket}]
    work,       \* [Workers -> Work]
    recent      \* history: recent[i], attempts of Watched admitted in this tick
                \* and the i before it

vars == <<clock, buckets, work, recent>>

-----------------------------------------------------------------------------
(* Wrong: not saturating; negative for a request that was overtaken. *)
SincePlain(later, earlier) == later - earlier

(* Instant::saturating_duration_since *)
Since(later, earlier) == IF later > earlier THEN later - earlier ELSE 0

(* Wrong: ends a window one tick early. *)
RetainEarly(now) ==
    [k \in Keys |-> IF buckets[k] # NoBucket /\ Since(now, buckets[k].start) + 1 < Window
                      THEN buckets[k] ELSE NoBucket]

(* retain: the map without the buckets whose window is over. *)
Retain(now) ==
    [k \in Keys |-> IF buckets[k] # NoBucket /\ Since(now, buckets[k].start) < Window
                      THEN buckets[k] ELSE NoBucket]

Held(map) == {k \in Keys : map[k] # NoBucket}

(* The rest of a bucket's window, as seen by the request. *)
Remaining(bucket, now) == Window - Since(now, bucket.start)

(* Wrong: as_secs() alone. *)
WholeSecondsFloor(ticks) ==
    IF ticks < TicksPerSecond THEN 1 ELSE ticks \div TicksPerSecond

(* Whole seconds for Retry-After, rounded up; never zero. *)
WholeSeconds(ticks) ==
    LET s == (ticks + TicksPerSecond - 1) \div TicksPerSecond IN IF s = 0 THEN 1 ELSE s

(* A request waiting for the lock, or the last answer of a worker: wait is *)
(* the Retry-After of a limited one in seconds, 0 for an admitted one.     *)
Work == [pc : {"idle", "acquire"}, key : Keys, now : Nat, wait : 0..WholeSeconds(Window)]

Answered(wait) == [pc |-> "idle", key |-> Watched, now |-> 0, wait |-> wait]

Admit(w, k) ==
    /\ work' = [work EXCEPT ![w] = Answered(0)]
    /\ recent' = IF k = Watched THEN [i \in 0..Window |-> recent[i] + 1] ELSE recent

Refuse(w, rest) ==
    /\ work' = [work EXCEPT ![w] = Answered(WholeSeconds(rest))]
    /\ UNCHANGED recent

-----------------------------------------------------------------------------
Init ==
    /\ clock = 0
    /\ buckets = [k \in Keys |-> NoBucket]
    /\ work = [w \in Workers |-> Answered(0)]
    /\ recent = [i \in 0..Window |-> 0]

(* A login request reaches its throttle hook: the clock is read.           *)
Arrive(w, k) ==
    /\ work[w].pc = "idle"
    /\ work' = [work EXCEPT ![w] = [pc |-> "acquire", key |-> k, now |-> clock, wait |-> 0]]
    /\ UNCHANGED <<clock, buckets, recent>>

(* Wrong: a full map makes room for the new key. *)
AcquireEvicting(w) ==
    LET k == work[w].key  now == work[w].now  kept == Retain(now) IN
    /\ work[w].pc = "acquire"
    /\ \/ /\ kept[k] = NoBucket
          /\ \E j \in Keys :
                buckets' = [kept EXCEPT ![j] = IF Cardinality(Held(kept)) >= MaxKeys
                                                 THEN NoBucket ELSE @,
                                        ![k] = [start |-> now, attempts |-> 1]]
          /\ Admit(w, k)
       \/ /\ kept[k] # NoBucket
          /\ kept[k].attempts < Limit
          /\ buckets' = [kept EXCEPT ![k].attempts = @ + 1]
          /\ Admit(w, k)
       \/ /\ kept[k] # NoBucket
          /\ kept[k].attempts >= Limit
          /\ buckets' = kept
          /\ Refuse(w, Remaining(kept[k], now))
    /\ UNCHANGED clock

(* Wrong: admits one attempt beyond the limit. *)
AcquireInclusive(w) ==
    LET k == work[w].key  now == work[w].now  kept == Retain(now) IN
    /\ work[w].pc = "acquire"
    /\ \/ /\ kept[k] # NoBucket
          /\ kept[k].attempts <= Limit
          /\ buckets' = [kept EXCEPT ![k].attempts = @ + 1]
          /\ Admit(w, k)
       \/ /\ kept[k] = NoBucket
          /\ buckets' = [kept EXCEPT ![k] = [start |-> now, attempts |-> 1]]
          /\ Admit(w, k)
    /\ UNCHANGED clock

(* acquire_at, from taking the lock to dropping it. *)
Acquire(w) ==
    LET k == work[w].key  now == work[w].now  kept == Retain(now) IN
    /\ work[w].pc = "acquire"
    /\ \/ /\ kept[k] # NoBucket
          /\ kept[k].attempts >= Limit
          /\ buckets' = kept
          /\ Refuse(w, Remaining(kept[k], now))
       \/ /\ kept[k] # NoBucket
          /\ kept[k].attempts < Limit
          /\ buckets' = [kept EXCEPT ![k].attempts = @ + 1]
          /\ Admit(w, k)
       \/ /\ kept[k] = NoBucket
          /\ Cardinality(Held(kept)) >= MaxKeys
          /\ buckets' = kept
          /\ \E j \in Held(kept) :
                /\ \A i \in Held(kept) : Remaining(kept[j], now) <= Remaining(kept[i], now)
                /\ Refuse(w, Remaining(kept[j], now))
       \/ /\ kept[k] = NoBucket
          /\ Cardinality(Held(kept)) < MaxKeys
          /\ buckets' = [kept EXCEPT ![k] = [start |-> now, attempts |-> 1]]
          /\ Admit(w, k)
    /\ UNCHANGED clock

Tick ==
    /\ clock < MaxTime
    /\ \A w \in Workers : work[w].pc = "acquire" => clock + 1 - work[w].now <= MaxStall
    /\ clock' = clock + 1
    /\ recent' = [i \in 0..Window |-> IF i = 0 THEN 0 ELSE recent[i - 1]]
    /\ UNCHANGED <<buckets, work>>

Next ==
    \/ \E w \in Workers, k \in Keys : Arrive(w, k)
    \/ \E w \in Workers : Acquire(w)
    \/ Tick

Spec == Init /\ [][Next]_vars

-----------------------------------------------------------------------------
TypeOK ==
    /\ clock \in Nat
    /\ buckets \in [Keys -> Bucket \cup {NoBucket}]
    /\ work \in [Workers -> Work]
    /\ recent \in [0..Window -> Nat]

(* "a bounded key map", "atomic accounting": the map never outgrows its    *)
(* bound and no bucket its budget.                                         *)
BoundedAccounting ==
    /\ Cardinality(Held(buckets)) <= MaxKeys
    /\ \A k \in Held(buckets) : buckets[k].attempts \in 1..Limit

(* "window boundaries can allow two budgets close together", never three:  *)
(* in any Window - MaxStall ticks of real time, whatever the order in      *)
(* which delayed requests enter the map.                                   *)
AtMostTwoBudgets ==
    recent[Window - MaxStall - 1] <= 2 * Limit

(* Neither a refusal, nor another key, nor a full map touches a budget     *)
(* before its window is over: an entry either counts one more attempt      *)
(* under its old start or has been there for a whole window.               *)
BudgetsRunTheirWindow ==
    [][\A k \in Held(buckets) :
          \/ buckets'[k] = buckets[k]
          \/ buckets'[k] = [buckets[k] EXCEPT !.attempts = @ + 1]
          \/ clock >= buckets[k].start + Window]_vars

(* A refused client that waits the seconds it was told comes back when the *)
(* window that kept it out is over: its own, or the first one to end when  *)
(* the map was full.                                                       *)
RetryAfterIsEnough ==
    [][\A w \in Workers :
          work[w].pc = "acquire" /\ work'[w].pc = "idle" /\ work'[w].wait > 0 =>
          LET back == clock + TicksPerSecond * work'[w].wait
              Over(k) == back >= buckets'[k].start + Window
          IN  IF work[w].key \in Held(buckets') THEN Over(work[w].key)
                                               ELSE \E k \in Held(buckets') : Over(k)]_vars
=============================================================================
