------------------------------ MODULE Sessions ------------------------------
(***************************************************************************)
(* Server-side sessions: AxSessionManager over an AxSessionStore.          *)
(*                                                                         *)
(* Every request of the runtime reads the wall clock first and only then   *)
(* talks to the store, once or twice; each call to the store is atomic (a  *)
(* lock or one SQL statement), nothing holds between two calls.  A worker  *)
(* is one request in progress, and each of its store calls is an action of *)
(* its own, so that the workers interleave exactly where the code lets     *)
(* them.  A session's subject and data never change after create and are   *)
(* left out; the signature of the cookie is modelled by letting a request  *)
(* name only ids whose cookie was handed out.                              *)
(***************************************************************************)
EXTENDS Integers

CONSTANTS
    Workers,     \* requests that may be in progress at once
    Ids,         \* session ids; Uuid::new_v4 never repeats one
    Policies,    \* cookie policies the server may run with: [ttl, abs]
    MaxInt,      \* i64::MAX: where saturating_add stops
    MaxTime,     \* bound on the clock
    MaxRestarts, \* bound on server restarts
    NoRow        \* the store has no row for this id

(* expires is an i64: whatever is added to a timestamp must stay in width. *)
Row == [created : Nat, seen : Nat, expires : 0..MaxInt]

ASSUME PolicyAssumption ==
    Policies \subseteq [ttl : Nat \ {0}, abs : Nat \ {0}]
ASSUME IntAssumption == MaxInt \in Nat \ {0} /\ MaxTime \in Nat /\ MaxRestarts \in Nat
ASSUME IdsAssumption == Ids # {}
ASSUME RowAssumption == NoRow \notin Row

VARIABLES
    durable,     \* a SQL store, which outlives the process, or the memory store
    clock,       \* seconds since the epoch
    policy,      \* the policy of the running process
    restarts,    \* how often the server restarted
    store,       \* [Ids -> Row \cup {NoRow}]
    born,        \* [Ids -> Nat \cup {-1}], the time of creation; -1: unused id
    cookie,      \* [Ids -> Nat], latest expiry promised to a browser; 0: none
    work         \* [Workers -> Work], the requests

vars == <<durable, clock, policy, restarts, store, born, cookie, work>>

Ops == {"create", "load", "refresh", "destroy"}
(* The store call a request makes next, or the answer it gave. *)
Calls == {"save", "read", "reap", "extend", "erase"}
Answers == {"idle", "accepted", "refused", "done", "error"}

Work == [pc : Calls \cup Answers, op : Ops, id : Ids, at : Nat,
         row : Row \cup {NoRow}, late : BOOLEAN]

-----------------------------------------------------------------------------
(* Wrong: plain addition leaves the width of an i64. *)
PlainAdd(a, b) == a + b

(* i64::saturating_add of two non-negative numbers. *)
SatAdd(a, b) == IF a + b > MaxInt THEN MaxInt ELSE a + b

Lesser(a, b) == IF a < b THEN a ELSE b
Greater(a, b) == IF a > b THEN a ELSE b

IsExpired(row, now) == row.expires <= now

Deadline(created, pol) == SatAdd(created, pol.abs)

(* The row create writes. *)
NewRow(now) ==
    [created |-> now, seen |-> now,
     expires |-> SatAdd(now, Lesser(policy.ttl, policy.abs))]

(* The local copy refresh asks the store to merge. *)
Refreshed(row, now) ==
    [row EXCEPT !.seen = now,
                !.expires = Lesser(SatAdd(now, policy.ttl), Deadline(row.created, policy))]

(* Wrong: the last writer wins, although its timestamp may be older. *)
MergedLastWriter(current, wanted) == wanted

(* What refresh_live leaves in the store. *)
Merged(current, wanted) ==
    [created |-> current.created,
     seen |-> Greater(current.seen, wanted.seen),
     expires |-> Greater(current.expires, wanted.expires)]

(* Wrong: trusts the stored expiry alone. *)
LoadAcceptsUncapped(row, now) == ~ IsExpired(row, now)

(* Wrong: measures the sliding TTL from the creation. *)
LoadAcceptsByTtl(row, now) ==
    /\ ~ IsExpired(row, now)
    /\ now < SatAdd(row.created, policy.ttl)

(* The condition under which load hands a session out. *)
LoadAccepts(row, now) ==
    /\ ~ IsExpired(row, now)
    /\ now < Deadline(row.created, policy)

(* The condition under which refresh_live extends the stored row. *)
CanExtend(current, wanted, now) ==
    /\ current # NoRow
    /\ ~ IsExpired(current, now)
    /\ current.created = wanted.created

Busy(w) == work[w].pc \in Calls
Retired(id) == born[id] # -1 /\ store[id] = NoRow

Idle == [pc |-> "idle", op |-> "load", id |-> CHOOSE id \in Ids : TRUE, at |-> 0,
         row |-> NoRow, late |-> FALSE]

(* A request that is over and was granted no session keeps nothing. *)
Finish(w, a) == work' = [work EXCEPT ![w] = [Idle EXCEPT !.pc = a]]

-----------------------------------------------------------------------------
Init ==
    /\ durable \in BOOLEAN
    /\ clock = 0
    /\ policy \in Policies
    /\ restarts = 0
    /\ store = [id \in Ids |-> NoRow]
    /\ born = [id \in Ids |-> -1]
    /\ cookie = [id \in Ids |-> 0]
    /\ work = [w \in Workers |-> Idle]

(* A login handler calls Session.create; the id is drawn here, the clock   *)
(* is read here, and the row is saved later.                               *)
BeginCreate(w, id) ==
    /\ ~ Busy(w)
    /\ born[id] = -1
    /\ \A v \in Workers : work[v].pc = "save" => work[v].id # id
    /\ work' = [work EXCEPT ![w] =
                   [pc |-> "save", op |-> "create", id |-> id, at |-> clock,
                    row |-> NewRow(clock), late |-> FALSE]]
    /\ UNCHANGED <<durable, clock, policy, restarts, store, born, cookie>>

(* A request that presents the signed cookie of id.  destroy reads no      *)
(* clock, which its timestamp 0 stands for.  (A refresh asked for by a    *)
(* GET, HEAD or OPTIONS request is refused before the store is involved.)  *)
Begin(w, op, id) ==
    /\ ~ Busy(w)
    /\ op \in {"load", "refresh", "destroy"}
    /\ cookie[id] > 0
    /\ work' = [work EXCEPT ![w] =
                   [pc |-> IF op = "destroy" THEN "erase" ELSE "read",
                    op |-> op, id |-> id,
                    at |-> IF op = "destroy" THEN 0 ELSE clock,
                    row |-> NoRow, late |-> Retired(id)]]
    /\ UNCHANGED <<durable, clock, policy, restarts, store, born, cookie>>

(* store.save: the row exists from here on; the cookie is handed out only  *)
(* when the caller learns that the save succeeded.                         *)
Save(w, ok) ==
    LET id == work[w].id IN
    /\ work[w].pc = "save"
    /\ store' = [store EXCEPT ![id] = work[w].row]
    /\ born' = [born EXCEPT ![id] = work[w].at]
    /\ cookie' = IF ok THEN [cookie EXCEPT ![id] = work[w].row.expires] ELSE cookie
    /\ Finish(w, IF ok THEN "done" ELSE "error")
    /\ UNCHANGED <<durable, clock, policy, restarts>>

(* store.load and the decision taken on the copy: no row, an expired row   *)
(* (to be deleted by a second call), or a live one, which load answers     *)
(* with and refresh goes on to extend.                                     *)
Read(w) ==
    LET id == work[w].id  row == store[id]  now == work[w].at IN
    /\ work[w].pc = "read"
    /\ \/ /\ row = NoRow
          /\ Finish(w, "refused")
       \/ /\ row # NoRow
          /\ ~ LoadAccepts(row, now)
          /\ work' = [work EXCEPT ![w].pc = "reap", ![w].row = row]
       \/ /\ row # NoRow
          /\ LoadAccepts(row, now)
          /\ work[w].op = "load"
          /\ work' = [work EXCEPT ![w].pc = "accepted", ![w].row = row]
       \/ /\ row # NoRow
          /\ LoadAccepts(row, now)
          /\ work[w].op = "refresh"
          /\ work' = [work EXCEPT ![w].pc = "extend", ![w].row = Refreshed(row, now)]
    /\ UNCHANGED <<durable, clock, policy, restarts, store, born, cookie>>

(* store.delete of a row that load found expired: by id alone, whatever    *)
(* the row has become since it was read.                                   *)
Reap(w, ok) ==
    /\ work[w].pc = "reap"
    /\ store' = [store EXCEPT ![work[w].id] = NoRow]
    /\ Finish(w, IF ok THEN "refused" ELSE "error")
    /\ UNCHANGED <<durable, clock, policy, restarts, born, cookie>>

(* Wrong: refresh writes its copy back with save, an upsert. *)
ExtendByUpsert(w, ok) ==
    LET id == work[w].id IN
    /\ work[w].pc = "extend"
    /\ store' = [store EXCEPT ![id] = work[w].row]
    /\ cookie' = [cookie EXCEPT ![id] = Greater(@, work[w].row.expires)]
    /\ work' = [work EXCEPT ![w].pc = "accepted"]
    /\ UNCHANGED <<durable, clock, policy, restarts, born>>

(* store.refresh_live, one conditional update, and the cookie it renews.   *)
Extend(w, ok) ==
    LET id == work[w].id  wanted == work[w].row IN
    /\ work[w].pc = "extend"
    /\ \/ /\ CanExtend(store[id], wanted, work[w].at)
          /\ store' = [store EXCEPT ![id] = Merged(@, wanted)]
          /\ cookie' = IF ok THEN [cookie EXCEPT ![id] = Greater(@, wanted.expires)]
                             ELSE cookie
          /\ IF ok THEN work' = [work EXCEPT ![w].pc = "accepted"] ELSE Finish(w, "error")
       \/ /\ ~ CanExtend(store[id], wanted, work[w].at)
          /\ Finish(w, IF ok THEN "refused" ELSE "error")
          /\ UNCHANGED <<durable, store, cookie>>
    /\ UNCHANGED <<durable, clock, policy, restarts, born>>

(* destroy: an unconditional delete. *)
Erase(w, ok) ==
    /\ work[w].pc = "erase"
    /\ store' = [store EXCEPT ![work[w].id] = NoRow]
    /\ Finish(w, IF ok THEN "done" ELSE "error")
    /\ UNCHANGED <<durable, clock, policy, restarts, born, cookie>>

(* A store call fails before it takes effect: poisoned lock, lost          *)
(* connection, SQL error.  The request ends with the error.                *)
CallFails(w) ==
    /\ Busy(w)
    /\ Finish(w, "error")
    /\ UNCHANGED <<durable, clock, policy, restarts, store, born, cookie>>

(* purge_expired of the SQL stores, one DELETE, with a clock reading that  *)
(* may be old by the time the statement runs.                              *)
Purge(now) ==
    /\ durable
    /\ store' = [id \in Ids |-> IF store[id] # NoRow /\ IsExpired(store[id], now)
                                  THEN NoRow ELSE store[id]]
    /\ store' # store
    /\ UNCHANGED <<durable, clock, policy, restarts, born, cookie, work>>

Tick ==
    /\ clock < MaxTime
    /\ clock' = clock + 1
    /\ UNCHANGED <<durable, policy, restarts, store, born, cookie, work>>

(* The process dies and comes back, perhaps with another policy: requests  *)
(* are lost, and so are the rows of the memory store.                      *)
Restart(pol) ==
    /\ restarts < MaxRestarts
    /\ restarts' = restarts + 1
    /\ policy' = pol
    /\ store' = IF durable THEN store ELSE [id \in Ids |-> NoRow]
    /\ work' = [w \in Workers |-> Idle]
    /\ UNCHANGED <<durable, clock, born, cookie>>

(* A SQL statement may take effect and its success still fail to arrive;   *)
(* an operation of the memory store cannot.                                *)
Outcomes == IF durable THEN BOOLEAN ELSE {TRUE}

Next ==
    \/ \E w \in Workers, id \in Ids : BeginCreate(w, id)
    \/ \E w \in Workers, op \in Ops, id \in Ids : Begin(w, op, id)
    \/ \E w \in Workers, ok \in Outcomes : Save(w, ok)
    \/ \E w \in Workers : Read(w)
    \/ \E w \in Workers, ok \in Outcomes : Reap(w, ok)
    \/ \E w \in Workers, ok \in Outcomes : Extend(w, ok)
    \/ \E w \in Workers, ok \in Outcomes : Erase(w, ok)
    \/ \E w \in Workers : CallFails(w)
    \/ \E now \in 0..clock : Purge(now)
    \/ Tick
    \/ \E pol \in Policies : Restart(pol)

Spec == Init /\ [][Next]_vars

-----------------------------------------------------------------------------
TypeOK ==
    /\ durable \in BOOLEAN
    /\ clock \in Nat
    /\ policy \in Policies
    /\ restarts \in Nat
    /\ store \in [Ids -> Row \cup {NoRow}]
    /\ born \in [Ids -> Nat \cup {-1}]
    /\ cookie \in [Ids -> Nat]
    /\ work \in [Workers -> Work]

(* However requests with different clock readings interleave, and whatever *)
(* policy a restart brings, no request is answered with a session at or    *)
(* past its expiry or past the absolute deadline of the policy in force.   *)
HonouredInsideLifetime ==
    \A w \in Workers : work[w].pc = "accepted" =>
        /\ work[w].at < work[w].row.expires
        /\ work[w].at < Deadline(born[work[w].id], policy)

(* A cookie never promises more than the store keeps: refreshes that       *)
(* arrive out of order merge their timestamps (refresh_live takes the      *)
(* greater), so the row outlives every cookie handed out for it.           *)
CookieCoveredByRow ==
    \A id \in Ids : store[id] # NoRow => cookie[id] <= store[id].expires

(* "Logout/revoked session-store entries therefore deny subsequent         *)
(* requests": a request that arrives after its session is gone is never    *)
(* granted it, whatever refreshes were in progress at the logout.          *)
RevocationDeniesLaterRequests ==
    \A w \in Workers : work[w].late => work[w].pc # "accepted"

(* A live session can be lost without a logout or the loss of the memory   *)
(* store in one way only: a load that saw it expired deletes it by id      *)
(* after a refresh with an earlier clock reading extended it.              *)
LiveNow(id) ==
    /\ store[id] # NoRow
    /\ ~ IsExpired(store[id], clock)
    /\ clock < Deadline(store[id].created, policy)

OnlyRacedReapsLoseSessions ==
    [][\A id \in Ids : LiveNow(id) /\ store'[id] = NoRow =>
          \/ restarts' # restarts
          \/ \E w \in Workers :
                /\ work[w].id = id
                /\ \/ work[w].pc = "erase"
                   \/ work[w].pc = "reap" /\ work[w].row.expires < store[id].expires]_vars

(* The manager implements the abstract registry: an id is born once and    *)
(* never comes back, and an answer names a session live at that instant.   *)
Registry == INSTANCE SessionRegistry WITH
    Nobody <- NoRow,
    phase <- [id \in Ids |-> IF store[id] # NoRow THEN "live"
                             ELSE IF born[id] = -1 THEN "unborn" ELSE "gone"],
    granted <- [w \in Workers |-> IF work[w].pc = "accepted" THEN work[w].id ELSE NoRow]

ImplementsRegistry == Registry!Spec
=============================================================================
