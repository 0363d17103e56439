--------------------------- MODULE Sessions_proofs ---------------------------
(***************************************************************************)
(* Proofs about module Sessions, for any number of requests, sessions,     *)
(* policies and restarts and any clock.                                    *)
(***************************************************************************)
EXTENDS Sessions, TLAPS

(* The creations in progress have ids of their own that no row bears yet.  *)
CreationsAreFresh ==
    \A w \in Workers : work[w].pc = "save" =>
        /\ born[work[w].id] = -1
        /\ work[w].row # NoRow
        /\ work[w].row.created = work[w].at
        /\ \A v \in Workers : work[v].pc = "save" /\ work[v].id = work[w].id => v = w

(* A row remembers when its id was born; an unborn id has neither row nor  *)
(* cookie.                                                                 *)
RowsMatchBirths ==
    \A id \in Ids :
        /\ store[id] # NoRow => born[id] = store[id].created
        /\ born[id] = -1 => store[id] = NoRow /\ cookie[id] = 0

(* What a request carries from one store call to the next.                 *)
CopiesMatchBirths ==
    \A w \in Workers :
        /\ work[w].at <= clock
        /\ work[w].pc \in {"read", "reap", "extend", "erase", "accepted"}
              => born[work[w].id] # -1
        /\ work[w].pc \in {"reap", "extend", "accepted"} =>
              work[w].row # NoRow /\ work[w].row.created = born[work[w].id]
        /\ work[w].pc \in {"extend", "accepted"} =>
              /\ work[w].at < work[w].row.expires
              /\ work[w].at < Deadline(born[work[w].id], policy)
        /\ work[w].pc = "reap" => ~ LoadAccepts(work[w].row, work[w].at)

(* A request that came too late still waits for its first store call.      *)
LateRequestsWait ==
    \A w \in Workers : work[w].late =>
        Retired(work[w].id) /\ work[w].pc \in {"read", "erase"}

IInv ==
    /\ TypeOK
    /\ CreationsAreFresh
    /\ RowsMatchBirths
    /\ CopiesMatchBirths
    /\ LateRequestsWait
    /\ CookieCoveredByRow

-----------------------------------------------------------------------------
(* Saturating addition stays a natural number and never falls below its    *)
(* first argument unless that lies beyond MaxInt.                          *)
LEMMA SatAddFacts ==
    ASSUME NEW a \in Nat, NEW b \in Nat \ {0}
    PROVE  /\ SatAdd(a, b) \in Nat
           /\ SatAdd(a, b) <= MaxInt
           /\ a < MaxInt => a < SatAdd(a, b)
  BY IntAssumption DEF SatAdd

LEMMA DeadlineType ==
    ASSUME NEW created \in Nat, NEW pol \in Policies
    PROVE  Deadline(created, pol) \in Nat /\ Deadline(created, pol) <= MaxInt
  BY PolicyAssumption, SatAddFacts DEF Deadline

(* A row refresh computes from a live one is a row that is live as well.   *)
LEMMA RefreshedFacts ==
    ASSUME NEW row \in Row, NEW now \in Nat, policy \in Policies,
           LoadAccepts(row, now)
    PROVE  /\ Refreshed(row, now) \in Row
           /\ Refreshed(row, now).created = row.created
           /\ now < Refreshed(row, now).expires
<1>1. policy.ttl \in Nat \ {0}
  BY PolicyAssumption
<1>2. Deadline(row.created, policy) \in 0..MaxInt /\ now < Deadline(row.created, policy)
  BY DeadlineType, IntAssumption DEF LoadAccepts, Row
<1>3. now < MaxInt
  BY <1>2, DeadlineType, IntAssumption DEF Row
<1>4. SatAdd(now, policy.ttl) \in 0..MaxInt /\ now < SatAdd(now, policy.ttl)
  BY <1>1, <1>3, SatAddFacts, IntAssumption
<1>. QED
  BY <1>2, <1>4 DEF Refreshed, Lesser, Row

LEMMA NewRowFacts ==
    ASSUME NEW now \in Nat, policy \in Policies
    PROVE  NewRow(now) \in Row /\ NewRow(now).created = now
<1>1. Lesser(policy.ttl, policy.abs) \in Nat \ {0}
  BY PolicyAssumption DEF Lesser
<1>. QED
  BY <1>1, SatAddFacts DEF NewRow, Row

LEMMA MergedFacts ==
    ASSUME NEW current \in Row, NEW wanted \in Row
    PROVE  /\ Merged(current, wanted) \in Row
           /\ Merged(current, wanted).created = current.created
           /\ Merged(current, wanted).expires >= current.expires
           /\ Merged(current, wanted).expires >= wanted.expires
  BY DEF Merged, Greater, Row

LEMMA IdleType ==
    Idle \in Work /\ Idle.late = FALSE /\ Idle.pc = "idle" /\ Idle.at = 0
  BY IdsAssumption DEF Idle, Work, Ops, Answers, Calls

-----------------------------------------------------------------------------
LEMMA InitIInv == Init => IInv
<1>. SUFFICES ASSUME Init PROVE IInv
  OBVIOUS
<1>1. TypeOK
  BY IdleType DEF Init, TypeOK
<1>2. CreationsAreFresh /\ LateRequestsWait
  BY IdleType DEF Init, CreationsAreFresh, LateRequestsWait
<1>3. RowsMatchBirths /\ CookieCoveredByRow
  BY DEF Init, RowsMatchBirths, CookieCoveredByRow
<1>4. CopiesMatchBirths
  <2>. SUFFICES ASSUME NEW w \in Workers
                PROVE  work[w].at <= clock /\ work[w].pc = "idle"
    BY DEF CopiesMatchBirths
  <2>1. work[w] = Idle /\ clock = 0
    BY DEF Init
  <2>. QED
    BY <2>1, IdleType
<1>. QED
  BY <1>1, <1>2, <1>3, <1>4 DEF IInv

-----------------------------------------------------------------------------
(* A request that ends without a session, whatever else changes in the     *)
(* store, carries nothing on.                                              *)
LEMMA FinishIInv ==
    ASSUME IInv, NEW w \in Workers, NEW a \in {"refused", "done", "error"},
           Finish(w, a),
           UNCHANGED <<clock, policy>>,
           \A id \in Ids : born[id] # -1 => born'[id] = born[id],
           \A v \in Workers \ {w} : work[v].pc = "save" => born'[work[v].id] = born[work[v].id],
           \A id \in Ids : Retired(id) => Retired(id)'
    PROVE  /\ work' \in [Workers -> Work]
           /\ CreationsAreFresh'
           /\ CopiesMatchBirths'
           /\ LateRequestsWait'
<1>. DEFINE over == [Idle EXCEPT !.pc = a]
<1>1. over \in Work /\ over.pc = a /\ over.late = FALSE /\ over.at = 0
  BY IdleType DEF Work, Answers
<1>2. work' = [work EXCEPT ![w] = over] /\ work \in [Workers -> Work]
  BY DEF Finish, IInv, TypeOK
<1>. HIDE DEF over
<1>3. work' \in [Workers -> Work]
  BY <1>1, <1>2
<1>4. \A v \in Workers : v # w => work'[v] = work[v]
  BY <1>2
<1>5. work'[w] = over
  BY <1>2
<1>6. CreationsAreFresh'
  BY <1>1, <1>4, <1>5 DEF IInv, CreationsAreFresh
<1>7. CopiesMatchBirths'
  <2>. SUFFICES ASSUME NEW v \in Workers
                PROVE  CopiesMatchBirths!(v)'
    BY DEF CopiesMatchBirths
  <2>1. CASE v = w
    BY <2>1, <1>1, <1>5 DEF IInv, TypeOK
  <2>2. CASE v # w
    <3>1. work'[v] = work[v] /\ work[v].id \in Ids
      BY <2>2, <1>4, <1>2 DEF Work
    <3>. QED
      BY <3>1 DEF IInv, CopiesMatchBirths, LoadAccepts, Deadline, IsExpired, SatAdd
  <2>. QED
    BY <2>1, <2>2
<1>8. LateRequestsWait'
  BY <1>1, <1>2, <1>4, <1>5 DEF IInv, LateRequestsWait, Work
<1>. QED
  BY <1>3, <1>6, <1>7, <1>8
LEMMA BeginCreateIInv ==
    ASSUME IInv, NEW w \in Workers, NEW id \in Ids, BeginCreate(w, id)
    PROVE  IInv'
<1>. DEFINE new == [pc |-> "save", op |-> "create", id |-> id, at |-> clock,
                    row |-> NewRow(clock), late |-> FALSE]
<1>1. new \in Work /\ new.row # NoRow /\ new.row.created = clock
  BY NewRowFacts, RowAssumption DEF IInv, TypeOK, Work, Calls, Ops
<1>2. /\ new.pc = "save" /\ new.id = id /\ new.at = clock /\ new.late = FALSE
      /\ work' = [work EXCEPT ![w] = new] /\ work \in [Workers -> Work]
  BY DEF BeginCreate, IInv, TypeOK
<1>. HIDE DEF new
<1>3. /\ UNCHANGED <<durable, clock, policy, restarts, store, born, cookie>>
      /\ born[id] = -1
      /\ \A v \in Workers : work[v].pc = "save" => work[v].id # id
  BY DEF BeginCreate
<1>4. work'[w] = new /\ \A v \in Workers : v # w => work'[v] = work[v]
  BY <1>2
<1>5. TypeOK'
  BY <1>1, <1>2, <1>3 DEF IInv, TypeOK
<1>6. CreationsAreFresh'
  BY <1>1, <1>2, <1>3, <1>4 DEF IInv, CreationsAreFresh
<1>7. RowsMatchBirths' /\ CookieCoveredByRow'
  BY <1>3 DEF IInv, RowsMatchBirths, CookieCoveredByRow
<1>8. CopiesMatchBirths'
  BY <1>2, <1>3, <1>4
     DEF IInv, TypeOK, CopiesMatchBirths, LoadAccepts, Deadline, IsExpired, SatAdd
<1>9. LateRequestsWait'
  BY <1>2, <1>3, <1>4 DEF IInv, LateRequestsWait, Retired
<1>. QED
  BY <1>5, <1>6, <1>7, <1>8, <1>9 DEF IInv

LEMMA BeginIInv ==
    ASSUME IInv, NEW w \in Workers, NEW op \in Ops, NEW id \in Ids, Begin(w, op, id)
    PROVE  IInv'
<1>. DEFINE new == [pc |-> IF op = "destroy" THEN "erase" ELSE "read",
                    op |-> op, id |-> id,
                    at |-> IF op = "destroy" THEN 0 ELSE clock,
                    row |-> NoRow, late |-> Retired(id)]
<1>1. new \in Work
  BY DEF IInv, TypeOK, Work, Calls, Retired
<1>2. /\ new.pc \in {"read", "erase"} /\ new.id = id /\ new.at <= clock
      /\ new.late = Retired(id)
      /\ work' = [work EXCEPT ![w] = new] /\ work \in [Workers -> Work]
  BY DEF Begin, IInv, TypeOK
<1>. HIDE DEF new
<1>3. /\ UNCHANGED <<durable, clock, policy, restarts, store, born, cookie>>
      /\ born[id] # -1
  BY DEF Begin, IInv, RowsMatchBirths, TypeOK
<1>4. work'[w] = new /\ \A v \in Workers : v # w => work'[v] = work[v]
  BY <1>2
<1>5. TypeOK'
  BY <1>1, <1>2, <1>3 DEF IInv, TypeOK
<1>6. CreationsAreFresh'
  BY <1>2, <1>3, <1>4 DEF IInv, CreationsAreFresh
<1>7. RowsMatchBirths' /\ CookieCoveredByRow'
  BY <1>3 DEF IInv, RowsMatchBirths, CookieCoveredByRow
<1>8. CopiesMatchBirths'
  BY <1>2, <1>3, <1>4
     DEF IInv, TypeOK, CopiesMatchBirths, LoadAccepts, Deadline, IsExpired, SatAdd
<1>9. LateRequestsWait'
  BY <1>2, <1>3, <1>4 DEF IInv, LateRequestsWait, Retired
<1>. QED
  BY <1>5, <1>6, <1>7, <1>8, <1>9 DEF IInv

LEMMA SaveIInv ==
    ASSUME IInv, NEW w \in Workers, NEW ok \in BOOLEAN, Save(w, ok)
    PROVE  IInv'
<1>. DEFINE id == work[w].id
            row == work[w].row
<1>1. /\ id \in Ids /\ row \in Row /\ born[id] = -1 /\ row.created = work[w].at
      /\ work[w].at \in Nat /\ cookie[id] = 0
      /\ \A v \in Workers \ {w} : work[v].pc = "save" => work[v].id # id
  BY DEF Save, IInv, TypeOK, Work, CreationsAreFresh, RowsMatchBirths
<1>2. /\ store' = [store EXCEPT ![id] = row]
      /\ born' = [born EXCEPT ![id] = work[w].at]
      /\ cookie' = IF ok THEN [cookie EXCEPT ![id] = row.expires] ELSE cookie
      /\ Finish(w, IF ok THEN "done" ELSE "error")
      /\ UNCHANGED <<durable, clock, policy, restarts>>
  BY DEF Save
<1>3. /\ store \in [Ids -> Row \cup {NoRow}] /\ born \in [Ids -> Nat \cup {-1}]
      /\ cookie \in [Ids -> Nat] /\ row.expires \in Nat /\ row # NoRow
  BY <1>1, RowAssumption DEF IInv, TypeOK, Row
<1>. HIDE DEF id, row
<1>4. /\ \A i \in Ids : born[i] # -1 => born'[i] = born[i]
      /\ \A i \in Ids : Retired(i) => Retired(i)'
  BY <1>1, <1>2, <1>3 DEF Retired
<1>5. \A v \in Workers \ {w} : work[v].pc = "save" => born'[work[v].id] = born[work[v].id]
  BY <1>1, <1>2, <1>3 DEF IInv, TypeOK, Work
<1>6. /\ work' \in [Workers -> Work]
      /\ CreationsAreFresh' /\ CopiesMatchBirths' /\ LateRequestsWait'
  BY <1>2, <1>4, <1>5, FinishIInv
<1>7. TypeOK'
  BY <1>1, <1>2, <1>3, <1>6 DEF IInv, TypeOK
<1>8. RowsMatchBirths' /\ CookieCoveredByRow'
  BY <1>1, <1>2, <1>3 DEF IInv, RowsMatchBirths, CookieCoveredByRow
<1>. QED
  BY <1>6, <1>7, <1>8 DEF IInv

LEMMA ReadIInv ==
    ASSUME IInv, NEW w \in Workers, Read(w)
    PROVE  IInv'
<1>. DEFINE id == work[w].id
            row == store[id]
            now == work[w].at
<1>1. /\ id \in Ids /\ now \in Nat /\ row \in Row \cup {NoRow} /\ now <= clock
      /\ born[id] # -1 /\ work[w].pc = "read" /\ policy \in Policies
      /\ row # NoRow => row.created = born[id]
  BY DEF Read, IInv, TypeOK, Work, CopiesMatchBirths, RowsMatchBirths
<1>2. UNCHANGED <<durable, clock, policy, restarts, store, born, cookie>>
  BY DEF Read
<1>3. RowsMatchBirths' /\ CookieCoveredByRow'
  BY <1>2 DEF IInv, RowsMatchBirths, CookieCoveredByRow
<1>4. CASE Finish(w, "refused")
  <2>1. /\ work' \in [Workers -> Work]
        /\ CreationsAreFresh' /\ CopiesMatchBirths' /\ LateRequestsWait'
    BY <1>2, <1>4, FinishIInv DEF Retired
  <2>. QED
    BY <1>2, <1>3, <2>1 DEF IInv, TypeOK
<1>5. ASSUME NEW a \in {"reap", "accepted", "extend"}, NEW copy \in Row,
             row # NoRow,
             copy.created = row.created,
             a = "reap" => ~ LoadAccepts(copy, now),
             a # "reap" => now < copy.expires /\ LoadAccepts(row, now),
             work' = [work EXCEPT ![w].pc = a, ![w].row = copy]
      PROVE  IInv'
  <2>. DEFINE new == [work[w] EXCEPT !.pc = a, !.row = copy]
  <2>1. /\ work' = [work EXCEPT ![w] = new]
        /\ new \in Work /\ new.pc = a /\ new.row = copy
        /\ new.id = id /\ new.at = now /\ new.late = work[w].late
    BY <1>1, <1>5 DEF IInv, TypeOK, Work, Calls, Answers
  <2>. HIDE DEF new
  <2>2. /\ work'[w] = new /\ \A v \in Workers : v # w => work'[v] = work[v]
        /\ work' \in [Workers -> Work]
    BY <2>1 DEF IInv, TypeOK
  <2>3. TypeOK'
    BY <1>2, <2>2 DEF IInv, TypeOK
  <2>4. CreationsAreFresh'
    BY <1>2, <2>1, <2>2 DEF IInv, CreationsAreFresh
  <2>5. new.late = FALSE
    BY <1>1, <1>5, <2>1 DEF IInv, LateRequestsWait, Retired, TypeOK, Work
  <2>6. LateRequestsWait'
    BY <1>2, <2>2, <2>5 DEF IInv, LateRequestsWait, Retired
  <2>7. CopiesMatchBirths'
    <3>. SUFFICES ASSUME NEW v \in Workers
                  PROVE  CopiesMatchBirths!(v)'
      BY DEF CopiesMatchBirths
    <3>1. CASE v # w
      BY <3>1, <1>2, <2>2
         DEF IInv, CopiesMatchBirths, LoadAccepts, Deadline, IsExpired, SatAdd
    <3>2. CASE v = w
      <4>1. copy # NoRow /\ copy.created = born[id]
        BY <1>1, <1>5, RowAssumption
      <4>2. a # "reap" => now < Deadline(born[id], policy)
        BY <1>1, <1>5 DEF LoadAccepts
      <4>3. work'[w].row = copy /\ work'[w].at = now /\ work'[w].id = id
        BY <2>1, <2>2
      <4>4. a = "reap" => ~ LoadAccepts(work[w].row, work[w].at)'
        BY <1>2, <1>5, <4>3 DEF LoadAccepts, Deadline, IsExpired, SatAdd
      <4>5. Deadline(born[work[w].id], policy)' = Deadline(born[id], policy)
        BY <1>2, <4>3 DEF Deadline, SatAdd
      <4>. QED
        BY <3>2, <1>1, <1>2, <1>5, <2>1, <2>2, <4>1, <4>2, <4>3, <4>4, <4>5
    <3>. QED
      BY <3>1, <3>2
  <2>. QED
    BY <1>3, <2>3, <2>4, <2>6, <2>7 DEF IInv
<1>6. CASE row # NoRow /\ ~ LoadAccepts(row, now)
           /\ work' = [work EXCEPT ![w].pc = "reap", ![w].row = row]
  BY <1>1, <1>5, <1>6
<1>7. CASE row # NoRow /\ LoadAccepts(row, now)
           /\ work' = [work EXCEPT ![w].pc = "accepted", ![w].row = row]
  <2>1. now < row.expires
    BY <1>1, <1>7 DEF LoadAccepts, IsExpired, Row
  <2>. QED
    BY <1>1, <1>5, <1>7, <2>1
<1>8. CASE row # NoRow /\ LoadAccepts(row, now)
           /\ work' = [work EXCEPT ![w].pc = "extend", ![w].row = Refreshed(row, now)]
  BY <1>1, <1>5, <1>8, RefreshedFacts
<1>. QED
  BY <1>4, <1>6, <1>7, <1>8 DEF Read
LEMMA ReapIInv ==
    ASSUME IInv, NEW w \in Workers, NEW ok \in BOOLEAN, Reap(w, ok) \/ Erase(w, ok)
    PROVE  IInv'
<1>1. /\ work[w].id \in Ids /\ born[work[w].id] # -1
      /\ store' = [store EXCEPT ![work[w].id] = NoRow]
      /\ UNCHANGED <<durable, clock, policy, restarts, born, cookie>>
      /\ \E a \in {"refused", "done", "error"} : Finish(w, a)
  BY DEF Reap, Erase, IInv, TypeOK, Work, CopiesMatchBirths
<1>2. \A i \in Ids : Retired(i) => Retired(i)'
  BY <1>1 DEF Retired, IInv, TypeOK
<1>3. /\ work' \in [Workers -> Work]
      /\ CreationsAreFresh' /\ CopiesMatchBirths' /\ LateRequestsWait'
  BY <1>1, <1>2, FinishIInv
<1>4. TypeOK'
  BY <1>1, <1>3 DEF IInv, TypeOK
<1>5. RowsMatchBirths' /\ CookieCoveredByRow'
  BY <1>1 DEF IInv, TypeOK, RowsMatchBirths, CookieCoveredByRow
<1>. QED
  BY <1>3, <1>4, <1>5 DEF IInv

LEMMA CallFailsIInv ==
    ASSUME IInv, NEW w \in Workers, CallFails(w)
    PROVE  IInv'
<1>1. /\ Finish(w, "error")
      /\ UNCHANGED <<durable, clock, policy, restarts, store, born, cookie>>
  BY DEF CallFails
<1>2. /\ work' \in [Workers -> Work]
      /\ CreationsAreFresh' /\ CopiesMatchBirths' /\ LateRequestsWait'
  BY <1>1, FinishIInv DEF Retired
<1>. QED
  BY <1>1, <1>2 DEF IInv, TypeOK, RowsMatchBirths, CookieCoveredByRow

LEMMA ExtendIInv ==
    ASSUME IInv, NEW w \in Workers, NEW ok \in BOOLEAN, Extend(w, ok)
    PROVE  IInv'
<1>. DEFINE id == work[w].id
            wanted == work[w].row
<1>1. /\ id \in Ids /\ wanted \in Row /\ work[w].pc = "extend"
      /\ store \in [Ids -> Row \cup {NoRow}] /\ cookie \in [Ids -> Nat]
      /\ work \in [Workers -> Work]
      /\ UNCHANGED <<durable, clock, policy, restarts, born>>
  BY DEF Extend, IInv, TypeOK, Work, CopiesMatchBirths
<1>2. CASE UNCHANGED <<store, cookie>> /\ \E a \in {"refused", "error"} : Finish(w, a)
  <2>1. /\ work' \in [Workers -> Work]
        /\ CreationsAreFresh' /\ CopiesMatchBirths' /\ LateRequestsWait'
    BY <1>1, <1>2, FinishIInv DEF Retired
  <2>. QED
    BY <1>1, <1>2, <2>1 DEF IInv, TypeOK, RowsMatchBirths, CookieCoveredByRow
<1>3. CASE /\ CanExtend(store[id], wanted, work[w].at)
           /\ store' = [store EXCEPT ![id] = Merged(@, wanted)]
           /\ cookie' = IF ok THEN [cookie EXCEPT ![id] = Greater(@, wanted.expires)]
                              ELSE cookie
           /\ IF ok THEN work' = [work EXCEPT ![w].pc = "accepted"] ELSE Finish(w, "error")
  <2>. DEFINE merged == Merged(store[id], wanted)
  <2>1. /\ store[id] \in Row /\ store[id] # NoRow
        /\ merged \in Row /\ merged.created = store[id].created /\ merged # NoRow
        /\ merged.expires >= store[id].expires /\ merged.expires >= wanted.expires
        /\ store' = [store EXCEPT ![id] = merged]
    BY <1>1, <1>3, MergedFacts, RowAssumption DEF CanExtend
  <2>2. /\ wanted.expires \in Nat /\ merged.expires \in Nat /\ store[id].expires \in Nat
    BY <1>1, <2>1 DEF Row
  <2>. HIDE DEF merged
  <2>3. \A i \in Ids : Retired(i)' <=> Retired(i)
    BY <1>1, <2>1 DEF Retired
  <2>4. RowsMatchBirths'
    BY <1>1, <1>3, <2>1 DEF IInv, RowsMatchBirths
  <2>5. store' \in [Ids -> Row \cup {NoRow}] /\ cookie' \in [Ids -> Nat]
    BY <1>1, <1>3, <2>1, <2>2 DEF Greater
  <2>6. CookieCoveredByRow'
    BY <1>1, <1>3, <2>1, <2>2 DEF IInv, CookieCoveredByRow, Greater
  <2>7. CASE ~ ok
    <3>1. /\ work' \in [Workers -> Work]
          /\ CreationsAreFresh' /\ CopiesMatchBirths' /\ LateRequestsWait'
      BY <1>1, <1>3, <2>3, <2>7, FinishIInv
    <3>. QED
      BY <1>1, <2>4, <2>5, <2>6, <3>1 DEF IInv, TypeOK
  <2>8. CASE ok
    <3>. DEFINE new == [work[w] EXCEPT !.pc = "accepted"]
    <3>1. /\ work' = [work EXCEPT ![w] = new]
          /\ new \in Work /\ new.pc = "accepted" /\ new.row = wanted
          /\ new.id = id /\ new.at = work[w].at /\ new.late = work[w].late
      BY <1>1, <1>3, <2>8 DEF Work, Answers
    <3>. HIDE DEF new
    <3>2. /\ work'[w] = new /\ \A v \in Workers : v # w => work'[v] = work[v]
          /\ work' \in [Workers -> Work]
      BY <1>1, <3>1
    <3>3. CreationsAreFresh'
      BY <1>1, <3>1, <3>2 DEF IInv, CreationsAreFresh
    <3>4. new.late = FALSE
      BY <1>1, <3>1, <3>2 DEF IInv, LateRequestsWait, Work
    <3>5. LateRequestsWait'
      BY <1>1, <2>3, <3>2, <3>4 DEF IInv, LateRequestsWait, Work
    <3>6. CopiesMatchBirths'
      BY <1>1, <3>1, <3>2
         DEF IInv, CopiesMatchBirths, LoadAccepts, Deadline, IsExpired, SatAdd
    <3>. QED
      BY <1>1, <2>4, <2>5, <2>6, <3>2, <3>3, <3>5, <3>6 DEF IInv, TypeOK
  <2>. QED
    BY <2>7, <2>8
<1>. QED
  BY <1>2, <1>3 DEF Extend

LEMMA EnvironmentIInv ==
    ASSUME IInv, \/ \E now \in 0..clock : Purge(now)
                 \/ Tick
                 \/ \E pol \in Policies : Restart(pol)
    PROVE  IInv'
<1>1. ASSUME NEW now \in 0..clock, Purge(now) PROVE IInv'
  <2>1. /\ \A id \in Ids : store'[id] \in {store[id], NoRow}
        /\ store' \in [Ids -> Row \cup {NoRow}]
        /\ UNCHANGED <<durable, clock, policy, restarts, born, cookie, work>>
    BY <1>1 DEF Purge, IInv, TypeOK
  <2>2. TypeOK' /\ RowsMatchBirths' /\ CookieCoveredByRow'
    BY <2>1 DEF IInv, TypeOK, RowsMatchBirths, CookieCoveredByRow
  <2>3. CreationsAreFresh'
    BY <2>1 DEF IInv, CreationsAreFresh
  <2>4. CopiesMatchBirths'
    BY <2>1 DEF IInv, CopiesMatchBirths, LoadAccepts, Deadline, IsExpired, SatAdd
  <2>5. LateRequestsWait'
    BY <2>1 DEF IInv, TypeOK, Work, LateRequestsWait, Retired
  <2>. QED
    BY <2>2, <2>3, <2>4, <2>5 DEF IInv
<1>2. CASE Tick
  <2>1. /\ clock \in Nat /\ clock' = clock + 1
        /\ UNCHANGED <<durable, policy, restarts, store, born, cookie, work>>
    BY <1>2 DEF Tick, IInv, TypeOK
  <2>2. TypeOK' /\ RowsMatchBirths' /\ CookieCoveredByRow' /\ CreationsAreFresh'
    BY <2>1 DEF IInv, TypeOK, RowsMatchBirths, CookieCoveredByRow, CreationsAreFresh
  <2>3. LateRequestsWait'
    BY <2>1 DEF IInv, LateRequestsWait, Retired
  <2>4. CopiesMatchBirths'
    <3>1. \A v \in Workers : work[v].at \in Nat
      BY DEF IInv, TypeOK, Work
    <3>. QED
      BY <2>1, <3>1
         DEF IInv, CopiesMatchBirths, LoadAccepts, Deadline, IsExpired, SatAdd
  <2>. QED
    BY <2>2, <2>3, <2>4 DEF IInv
<1>3. ASSUME NEW pol \in Policies, Restart(pol) PROVE IInv'
  <2>1. /\ work' = [w \in Workers |-> Idle] /\ policy' \in Policies
        /\ restarts' = restarts + 1
        /\ store' \in [Ids -> Row \cup {NoRow}]
        /\ \A id \in Ids : store'[id] \in {store[id], NoRow}
        /\ UNCHANGED <<durable, clock, born, cookie>>
    BY <1>3 DEF Restart, IInv, TypeOK
  <2>2. TypeOK'
    BY <2>1, IdleType DEF IInv, TypeOK
  <2>3. RowsMatchBirths' /\ CookieCoveredByRow'
    BY <2>1 DEF IInv, RowsMatchBirths, CookieCoveredByRow
  <2>4. \A w \in Workers : work'[w].pc = "idle" /\ work'[w].at = 0 /\ ~ work'[w].late
    BY <2>1, IdleType
  <2>5. CreationsAreFresh' /\ LateRequestsWait'
    BY <2>4 DEF CreationsAreFresh, LateRequestsWait
  <2>6. CopiesMatchBirths'
    BY <2>1, <2>4 DEF CopiesMatchBirths, IInv, TypeOK
  <2>. QED
    BY <2>2, <2>3, <2>5, <2>6 DEF IInv
<1>. QED
  BY <1>1, <1>2, <1>3
-----------------------------------------------------------------------------
LEMMA Invariance == Spec => []IInv
<1>1. IInv /\ [Next]_vars => IInv'
  <2>. SUFFICES ASSUME IInv, [Next]_vars PROVE IInv'
    OBVIOUS
  <2>1. CASE UNCHANGED vars
    BY <2>1 DEF vars, IInv, TypeOK, CreationsAreFresh, RowsMatchBirths, CopiesMatchBirths,
                LateRequestsWait, CookieCoveredByRow, Retired, LoadAccepts, Deadline,
                IsExpired, SatAdd
  <2>2. Outcomes \subseteq BOOLEAN
    BY DEF Outcomes
  <2>. QED
    BY <2>1, <2>2, BeginCreateIInv, BeginIInv, SaveIInv, ReadIInv, ReapIInv, ExtendIInv,
       CallFailsIInv, EnvironmentIInv DEF Next
<1>. QED
  BY InitIInv, <1>1, PTL DEF Spec

(* Type correctness. *)
THEOREM TypeCorrect == Spec => []TypeOK
<1>1. IInv => TypeOK
  BY DEF IInv
<1>. QED
  BY Invariance, <1>1, PTL

(* No request of the session manager is answered with a session outside    *)
(* its lifetime under the policy in force.                                 *)
THEOREM LifetimeHolds == Spec => []HonouredInsideLifetime
<1>1. IInv => HonouredInsideLifetime
  BY DEF IInv, CopiesMatchBirths, HonouredInsideLifetime
<1>. QED
  BY Invariance, <1>1, PTL

(* The stored row outlives every cookie promised for it, in whatever order *)
(* concurrent refreshes reach the store.                                   *)
THEOREM CookiesAreCovered == Spec => []CookieCoveredByRow
<1>1. IInv => CookieCoveredByRow
  BY DEF IInv
<1>. QED
  BY Invariance, <1>1, PTL

(* After a logout (or any other end of a session) no later request is      *)
(* granted it.                                                             *)
THEOREM RevocationIsFinal == Spec => []RevocationDeniesLaterRequests
<1>1. IInv => RevocationDeniesLaterRequests
  BY DEF IInv, LateRequestsWait, RevocationDeniesLaterRequests
<1>. QED
  BY Invariance, <1>1, PTL

-----------------------------------------------------------------------------
(* A live session is lost to nothing but a logout, the loss of the memory  *)
(* store, or a reaper that read the row before a refresh extended it.      *)
THEOREM LossIsRaced == Spec => OnlyRacedReapsLoseSessions
<1>. DEFINE Racing(w, id) ==
        /\ work[w].id = id
        /\ \/ work[w].pc = "erase"
           \/ work[w].pc = "reap" /\ work[w].row.expires < store[id].expires
<1>1. ASSUME IInv, [Next]_vars, NEW id \in Ids, LiveNow(id), store'[id] = NoRow
      PROVE  restarts' # restarts \/ \E w \in Workers : Racing(w, id)
  <2>. DEFINE row == store[id]
  <2>1. /\ store \in [Ids -> Row \cup {NoRow}] /\ clock \in Nat
        /\ row \in Row /\ row # NoRow /\ row.expires \in Nat
        /\ clock < row.expires /\ clock < Deadline(row.created, policy)
        /\ born[id] = row.created /\ policy \in Policies
    BY <1>1 DEF IInv, TypeOK, LiveNow, IsExpired, RowsMatchBirths, Row
  <2>2. store' # store
    BY <1>1, <2>1
  <2>3. ASSUME NEW w \in Workers, NEW ok \in BOOLEAN, Reap(w, ok) PROVE Racing(w, id)
    <3>1. /\ work[w].id = id /\ work[w].pc = "reap"
      BY <1>1, <2>1, <2>3 DEF Reap, IInv, TypeOK, Work
    <3>2. /\ work[w].row \in Row /\ work[w].row.created = row.created
          /\ work[w].at <= clock /\ work[w].at \in Nat
          /\ ~ LoadAccepts(work[w].row, work[w].at)
      BY <1>1, <2>1, <3>1 DEF IInv, CopiesMatchBirths, TypeOK, Work
    <3>3. work[w].at < Deadline(work[w].row.created, policy)
      BY <2>1, <3>2, DeadlineType DEF Row
    <3>4. work[w].row.expires < row.expires
      BY <2>1, <3>2, <3>3 DEF LoadAccepts, IsExpired, Row
    <3>. QED
      BY <3>1, <3>4
  <2>4. ASSUME NEW w \in Workers, NEW ok \in BOOLEAN, Erase(w, ok) PROVE Racing(w, id)
    BY <1>1, <2>1, <2>4 DEF Erase, IInv, TypeOK, Work
  <2>5. ASSUME NEW w \in Workers, NEW ok \in BOOLEAN, Save(w, ok) PROVE FALSE
    BY <1>1, <2>1, <2>5 DEF Save, IInv, TypeOK, Work, CreationsAreFresh
  <2>6. ASSUME NEW w \in Workers, NEW ok \in BOOLEAN, Extend(w, ok) PROVE FALSE
    <3>1. work[w].id \in Ids /\ work[w].row \in Row
      BY <1>1, <2>6 DEF Extend, IInv, TypeOK, Work, CopiesMatchBirths
    <3>2. store' = [store EXCEPT ![work[w].id] = Merged(@, work[w].row)]
      BY <2>2, <2>6 DEF Extend
    <3>3. Merged(row, work[w].row) # NoRow
      BY <2>1, <3>1, MergedFacts, RowAssumption
    <3>. QED
      BY <1>1, <2>1, <3>1, <3>2, <3>3
  <2>7. ASSUME NEW now \in 0..clock, Purge(now) PROVE FALSE
    BY <1>1, <2>1, <2>7 DEF Purge, IsExpired
  <2>8. ASSUME NEW pol \in Policies, Restart(pol) PROVE restarts' # restarts
    BY <1>1, <2>8 DEF Restart, IInv, TypeOK
  <2>9. Outcomes \subseteq BOOLEAN
    BY DEF Outcomes
  <2>. QED
    BY <1>1, <2>2, <2>3, <2>4, <2>5, <2>6, <2>7, <2>8, <2>9
       DEF Next, BeginCreate, Begin, Read, CallFails, Tick, vars
<1>2. IInv /\ [Next]_vars =>
        [\A id \in Ids : LiveNow(id) /\ store'[id] = NoRow =>
          \/ restarts' # restarts
          \/ \E w \in Workers :
                /\ work[w].id = id
                /\ \/ work[w].pc = "erase"
                   \/ work[w].pc = "reap" /\ work[w].row.expires < store[id].expires]_vars
  BY <1>1
<1>. QED
  BY Invariance, <1>2, PTL DEF Spec, OnlyRacedReapsLoseSessions

-----------------------------------------------------------------------------
(* Sessions implements SessionRegistry.                                    *)
Phase == [id \in Ids |-> IF store[id] # NoRow THEN "live"
                         ELSE IF born[id] = -1 THEN "unborn" ELSE "gone"]
Granted == [w \in Workers |-> IF work[w].pc = "accepted" THEN work[w].id ELSE NoRow]

(* A step that creates no session and grants none ends some sessions and   *)
(* forgets some answers.                                                   *)
LEMMA RetireStep ==
    ASSUME IInv,
           \A id \in Ids : store'[id] # NoRow <=> store[id] # NoRow /\ Phase'[id] # "gone",
           \A id \in Ids : born'[id] = born[id],
           \A w \in Workers : Granted'[w] \in {Granted[w], NoRow}
    PROVE  \E S \in SUBSET Ids : Registry!Retire(S)
<1>0. PICK S \in SUBSET Ids : S = {id \in Ids : Phase[id] = "live" /\ Phase'[id] = "gone"}
  OBVIOUS
<1>1. Phase' = [id \in Ids |-> IF id \in S THEN "gone" ELSE Phase[id]]
  BY <1>0 DEF Phase, IInv, RowsMatchBirths
<1>2. Granted' \in [Workers -> Ids \cup {NoRow}]
  <2>1. Granted \in [Workers -> Ids \cup {NoRow}]
    BY DEF Granted, IInv, TypeOK, Work
  <2>2. Granted' = [w \in Workers |-> Granted'[w]]
    BY DEF Granted
  <2>. QED
    BY <2>1, <2>2
<1>3. Registry!Retire(S)
  BY <1>0, <1>1, <1>2 DEF Registry!Retire, Phase, Granted
<1>. QED
  BY <1>3

(* Every behaviour of the session manager, with its stale clock readings,  *)
(* split loads and crashes, is one of the abstract registry: an id is live *)
(* at most once, and every grant names a session live at that instant.     *)
THEOREM Refinement == Spec => ImplementsRegistry
<1>1. Init => Registry!Init
  BY IdleType DEF Init, Registry!Init
<1>2. IInv /\ IInv' /\ [Next]_vars => [Registry!Next]_(Registry!vars)
  <2>. SUFFICES ASSUME IInv, IInv', [Next]_vars
                PROVE  Registry!Next \/ UNCHANGED <<Phase, Granted>>
    BY DEF Registry!vars, Phase, Granted
  <2>. USE DEF Registry!Next
  <2>0. Outcomes \subseteq BOOLEAN
    BY DEF Outcomes
  <2>a. /\ work \in [Workers -> Work] /\ store \in [Ids -> Row \cup {NoRow}]
        /\ born \in [Ids -> Nat \cup {-1}]
    BY DEF IInv, TypeOK
  <2>b. ASSUME NEW w \in Workers, NEW a \in {"refused", "done", "error"}, Finish(w, a)
        PROVE  \A v \in Workers : Granted'[v] \in {Granted[v], NoRow}
    BY <2>a, <2>b, IdleType DEF Finish, Granted, Idle
  <2>c. ASSUME NEW w \in Workers, NEW id \in Ids, work[w].id = id, Phase[id] = "live",
               Phase' = Phase, work'[w].pc = "accepted", work'[w].id = id,
               \A v \in Workers \ {w} : work'[v] = work[v]
        PROVE  Registry!Next
    <3>1. Granted' = [Granted EXCEPT ![w] = id]
      BY <2>c DEF Granted
    <3>2. Registry!Grant(w, id)
      BY <2>c, <3>1 DEF Registry!Grant, Phase, Granted
    <3>. QED
      BY <3>2
  <2>d. ASSUME NEW id \in Ids, Registry!Register(id) PROVE Registry!Next
    BY <2>d
  <2>1. ASSUME NEW w \in Workers, NEW id \in Ids, BeginCreate(w, id) PROVE Registry!Next
    <3>1. \A v \in Workers : Granted'[v] \in {Granted[v], NoRow}
      BY <2>1, <2>a DEF BeginCreate, Granted
    <3>. QED
      BY <2>1, <3>1, RetireStep DEF BeginCreate, Phase
  <2>2. ASSUME NEW w \in Workers, NEW op \in Ops, NEW id \in Ids, Begin(w, op, id)
        PROVE Registry!Next
    <3>1. \A v \in Workers : Granted'[v] \in {Granted[v], NoRow}
      BY <2>2, <2>a DEF Begin, Granted
    <3>. QED
      BY <2>2, <3>1, RetireStep DEF Begin, Phase
  <2>3. ASSUME NEW w \in Workers, NEW ok \in BOOLEAN, Save(w, ok) PROVE Registry!Next
    <3>0. PICK id \in Ids : id = work[w].id
      BY <2>a DEF Work
    <3>1. /\ id \in Ids /\ born[id] = -1 /\ store[id] = NoRow /\ work[w].row # NoRow
          /\ work[w].at \in Nat
      BY <2>3, <2>a, <3>0 DEF Save, IInv, CreationsAreFresh, RowsMatchBirths, Work
    <3>2. /\ store' = [store EXCEPT ![id] = work[w].row]
          /\ born' = [born EXCEPT ![id] = work[w].at]
      BY <2>3, <3>0 DEF Save
    <3>3. Phase' = [Phase EXCEPT ![id] = "live"] /\ Phase[id] = "unborn"
      BY <2>a, <3>1, <3>2 DEF Phase
    <3>4. Granted' = Granted
      BY <2>3, <2>a, IdleType DEF Save, Finish, Granted, Idle
    <3>5. Registry!Register(id)
      BY <3>3, <3>4 DEF Registry!Register, Phase, Granted
    <3>. QED
      BY <3>1, <3>5, <2>d
  <2>4. ASSUME NEW w \in Workers, Read(w) PROVE Registry!Next
    <3>. DEFINE id == work[w].id
    <3>1. UNCHANGED <<store, born>> /\ id \in Ids /\ Phase' = Phase
      BY <2>4, <2>a DEF Read, Work, Phase
    <3>2. CASE work' = [work EXCEPT ![w].pc = "accepted", ![w].row = store[id]]
               /\ store[id] # NoRow
      <4>1. /\ work'[w].pc = "accepted" /\ work'[w].id = id
            /\ \A v \in Workers \ {w} : work'[v] = work[v]
        BY <2>a, <3>2 DEF Work
      <4>2. Phase[id] = "live"
        BY <3>1, <3>2 DEF Phase
      <4>. QED
        BY <2>c, <3>1, <4>1, <4>2
    <3>3. ASSUME NEW a \in {"reap", "extend"}, NEW copy,
                 work' = [work EXCEPT ![w].pc = a, ![w].row = copy]
          PROVE  Registry!Next
      <4>1. \A v \in Workers : Granted'[v] \in {Granted[v], NoRow}
        BY <2>a, <3>3 DEF Granted
      <4>. QED
        BY <3>1, <4>1, RetireStep DEF Phase
    <3>4. CASE Finish(w, "refused")
      BY <3>1, <3>4, <2>b, RetireStep DEF Phase
    <3>. QED
      BY <2>4, <3>2, <3>3, <3>4 DEF Read
  <2>5. ASSUME NEW w \in Workers, NEW ok \in BOOLEAN, Reap(w, ok) \/ Erase(w, ok)
        PROVE Registry!Next
    <3>1. /\ work[w].id \in Ids /\ store' = [store EXCEPT ![work[w].id] = NoRow]
          /\ born' = born /\ born[work[w].id] # -1
          /\ \E a \in {"refused", "done", "error"} : Finish(w, a)
      BY <2>5, <2>a DEF Reap, Erase, Work, IInv, CopiesMatchBirths
    <3>2. \A id \in Ids : store'[id] # NoRow <=> store[id] # NoRow /\ Phase'[id] # "gone"
      BY <2>a, <3>1 DEF Phase
    <3>. QED
      BY <3>1, <3>2, <2>b, RetireStep
  <2>6. ASSUME NEW w \in Workers, NEW ok \in BOOLEAN, Extend(w, ok) PROVE Registry!Next
    <3>. DEFINE id == work[w].id
    <3>1. /\ id \in Ids /\ work[w].row \in Row /\ born' = born
      BY <2>6, <2>a DEF Extend, IInv, CopiesMatchBirths, Work
    <3>2. CASE /\ CanExtend(store[id], work[w].row, work[w].at)
               /\ store' = [store EXCEPT ![id] = Merged(@, work[w].row)]
               /\ IF ok THEN work' = [work EXCEPT ![w].pc = "accepted"] ELSE Finish(w, "error")
      <4>1. store[id] # NoRow /\ Merged(store[id], work[w].row) # NoRow
        BY <2>a, <3>1, <3>2, MergedFacts, RowAssumption DEF CanExtend
      <4>2. Phase' = Phase /\ Phase[id] = "live"
        BY <2>a, <3>1, <3>2, <4>1 DEF Phase
      <4>3. CASE ok
        <5>1. /\ work'[w].pc = "accepted" /\ work'[w].id = id
              /\ \A v \in Workers \ {w} : work'[v] = work[v]
          BY <2>a, <3>2, <4>3 DEF Work
        <5>. QED
          BY <2>c, <3>1, <4>2, <5>1
      <4>4. CASE ~ ok
        <5>1. \A i \in Ids : store'[i] # NoRow <=> store[i] # NoRow
          BY <2>a, <3>1, <3>2, <4>1
        <5>. QED
          BY <3>1, <3>2, <4>4, <5>1, <2>b, RetireStep DEF Phase
      <4>. QED
        BY <4>3, <4>4
    <3>3. CASE store' = store /\ \E a \in {"refused", "error"} : Finish(w, a)
      BY <3>1, <3>3, <2>b, RetireStep DEF Phase
    <3>. QED
      BY <2>6, <3>2, <3>3 DEF Extend
  <2>7. ASSUME NEW w \in Workers, CallFails(w) PROVE Registry!Next
    BY <2>7, <2>b, RetireStep DEF CallFails, Phase
  <2>8. ASSUME NEW now \in 0..clock, Purge(now) PROVE Registry!Next
    <3>1. /\ \A id \in Ids : store'[id] \in {store[id], NoRow}
          /\ born' = born /\ work' = work
      BY <2>8, <2>a DEF Purge
    <3>2. \A id \in Ids : store'[id] # NoRow <=> store[id] # NoRow /\ Phase'[id] # "gone"
      BY <3>1 DEF Phase, IInv, RowsMatchBirths
    <3>3. \A w \in Workers : Granted'[w] \in {Granted[w], NoRow}
      BY <3>1 DEF Granted
    <3>. QED
      BY <3>1, <3>2, <3>3, RetireStep
  <2>9. CASE Tick
    BY <2>9 DEF Tick, Phase, Granted
  <2>10. ASSUME NEW pol \in Policies, Restart(pol) PROVE Registry!Next
    <3>1. /\ \A id \in Ids : store'[id] \in {store[id], NoRow}
          /\ born' = born /\ work' = [w \in Workers |-> Idle]
      BY <2>10, <2>a DEF Restart
    <3>2. \A id \in Ids : store'[id] # NoRow <=> store[id] # NoRow /\ Phase'[id] # "gone"
      BY <3>1 DEF Phase, IInv, RowsMatchBirths
    <3>3. \A w \in Workers : Granted'[w] \in {Granted[w], NoRow}
      BY <3>1, IdleType DEF Granted
    <3>. QED
      BY <3>1, <3>2, <3>3, RetireStep
  <2>11. CASE UNCHANGED vars
    BY <2>11 DEF vars, Phase, Granted
  <2>. HIDE DEF Registry!Next
  <2>. QED
    BY <2>0, <2>1, <2>2, <2>3, <2>4, <2>5, <2>6, <2>7, <2>8, <2>9, <2>10, <2>11 DEF Next
<1>. QED
  BY Invariance, <1>1, <1>2, PTL DEF Spec, ImplementsRegistry, Registry!Spec
=============================================================================
