--------------------------- MODULE DatabaseRuntime ---------------------------
(***************************************************************************)
(* Requests of AxDatabaseRuntime over the direct Postgres adapter: the     *)
(* connection pool is made by the first to need it (several may be first), *)
(* a connection is checked out for one operation, statements fail, time    *)
(* out or lose their connection before or after the server has executed    *)
(* them, failed reads are tried again, writes and transactions are not.    *)
(* A transaction has the statements 1..Length; a write is one statement.   *)
(* "raw" is the query, a SELECT in the application's own SQL, that calls a *)
(* function with an effect (nextval and the like); one that calls none is  *)
(* a "read", as a load is.                                                 *)
(***************************************************************************)
EXTENDS Integers, FiniteSets

CONSTANTS
    Requests,
    Nil,
    PoolSize,     \* pool_max_size
    Retries,      \* read_retry_attempts
    Length        \* statements of a transaction

ASSUME NilAssumption == Nil \notin Requests
ASSUME RequestsAssumption == IsFiniteSet(Requests)
ASSUME PoolAssumption == PoolSize \in Nat \ {0} /\ Retries \in Nat /\ Length \in Nat \ {0}

VARIABLES
    kind,         \* "read", "raw", "write" or "transaction"
    pc,           \* where the request is
    left,         \* retries it has left
    pool,         \* the pool in the OnceLock, named for the request that made it
    holds,        \* the pool whose connection the request holds
    staged,       \* statements executed in its open transaction
    effects,      \* how often each of its statements has taken effect
    unsure        \* its last call was lost when the server may have executed it

vars == <<kind, pc, left, pool, holds, staged, effects, unsure>>

Statements == 1..Length

(* What of a request has an effect. *)
Own(r) == {i \in Statements : kind[r] = "transaction" \/ (kind[r] \in {"write", "raw"} /\ i = 1)}
Answered(r) == pc[r] \in {"ok", "failed"}

Init ==
    /\ kind \in [Requests -> {"read", "raw", "write", "transaction"}]
    /\ pc = [r \in Requests |-> "start"]
    /\ left = [r \in Requests |-> Retries]
    /\ pool = Nil
    /\ holds = [r \in Requests |-> Nil]
    /\ staged = [r \in Requests |-> 0]
    /\ effects = [r \in Requests |-> [i \in Statements |-> 0]]
    /\ unsure = [r \in Requests |-> FALSE]

-----------------------------------------------------------------------------
(* Wrong: whatever fails for want of the server is tried again. *)
RetriesAll(r, transient) == transient /\ left[r] > 0

(* Wrong: reads are tried again for as long as it takes. *)
RetriesForEver(r, transient) == transient /\ kind[r] = "read"

(* retry_database_read: loads and raw queries, after timeouts and failed   *)
(* connections.                                                            *)
MayRetry(r, transient) == transient /\ left[r] > 0 /\ kind[r] \in {"read", "raw"}

Less(n) == IF n = 0 THEN 0 ELSE n - 1

(* An attempt ends in an error; its connection goes back to the pool, and  *)
(* what its transaction had staged is rolled back.                         *)
Fail(r, transient) ==
    /\ IF MayRetry(r, transient)
         THEN pc' = [pc EXCEPT ![r] = "sleep"] /\ left' = [left EXCEPT ![r] = Less(@)]
         ELSE pc' = [pc EXCEPT ![r] = "failed"] /\ UNCHANGED left
    /\ holds' = [holds EXCEPT ![r] = Nil]
    /\ staged' = [staged EXCEPT ![r] = 0]

Succeed(r) ==
    /\ pc' = [pc EXCEPT ![r] = "ok"]
    /\ holds' = [holds EXCEPT ![r] = Nil]
    /\ staged' = [staged EXCEPT ![r] = 0]
    /\ UNCHANGED left

-----------------------------------------------------------------------------
(* direct_pool: the pool is looked for ... *)
FindPool(r) ==
    /\ pc[r] = "start"
    /\ pc' = [pc EXCEPT ![r] = IF pool = Nil THEN "build" ELSE "checkout"]
    /\ UNCHANGED <<kind, left, pool, holds, staged, effects, unsure>>

(* ... and made if it is not there: the first to set it wins, and the      *)
(* others drop theirs, which have no connections yet.                      *)
BuildPool(r) ==
    /\ pc[r] = "build"
    /\ pc' = [pc EXCEPT ![r] = "checkout"]
    /\ pool' = IF pool = Nil THEN r ELSE pool
    /\ UNCHANGED <<kind, left, holds, staged, effects, unsure>>

(* A configuration that makes no pool, or operations that do not compile.  *)
Rejected(r) ==
    /\ pc[r] \in {"build", "checkout"}
    /\ \E transient \in BOOLEAN : Fail(r, transient)
    /\ UNCHANGED <<kind, pool, effects, unsure>>

(* Wrong: one who made a pool uses it, though another was set before. *)
LastPool(r) == r

ThePool(r) == pool

Held(p) == {r \in Requests : holds[r] = p}

(* postgres_pool_connection *)
CheckOut(r) ==
    /\ pc[r] = "checkout"
    /\ Cardinality(Held(ThePool(r))) < PoolSize
    /\ holds' = [holds EXCEPT ![r] = ThePool(r)]
    /\ pc' = [pc EXCEPT ![r] = "run"]
    /\ UNCHANGED <<kind, left, pool, staged, effects, unsure>>

(* The pool is exhausted, or the server cannot be reached, for as long as  *)
(* pool_timeout_ms.                                                        *)
CheckOutFails(r) ==
    /\ pc[r] = "checkout"
    /\ Fail(r, TRUE)
    /\ UNCHANGED <<kind, pool, effects, unsure>>

Wake(r) ==
    /\ pc[r] = "sleep"
    /\ pc' = [pc EXCEPT ![r] = "start"]
    /\ UNCHANGED <<kind, left, pool, holds, staged, effects, unsure>>

-----------------------------------------------------------------------------
Effect(r, S) == effects' = [effects EXCEPT ![r] = [i \in Statements |-> IF i \in S THEN @[i] + 1 ELSE @[i]]]

(* A query or a mutation of its own, executed and answered, or the answer  *)
(* lost, or the statement lost before.                                     *)
RunOne(r) ==
    /\ pc[r] = "run" /\ kind[r] # "transaction"
    /\ \/ /\ Effect(r, Own(r)) /\ Succeed(r) /\ UNCHANGED unsure
       \/ /\ Effect(r, Own(r)) /\ Fail(r, TRUE) /\ unsure' = [unsure EXCEPT ![r] = TRUE]
       \/ /\ Fail(r, TRUE) /\ unsure' = [unsure EXCEPT ![r] = TRUE] /\ UNCHANGED effects
    /\ UNCHANGED <<kind, pool>>

(* Wrong: the statements are executed without a transaction. *)
AutoCommit(r) == Effect(r, {staged[r] + 1})

(* What a statement of an open transaction does to the database. *)
Stage(r) == UNCHANGED effects

(* Wrong: one more. *)
MoreThanAll(r) == staged[r] <= Length

MoreToRun(r) == staged[r] < Length

(* The next statement of a transaction. *)
RunNext(r) ==
    /\ pc[r] = "run" /\ kind[r] = "transaction" /\ MoreToRun(r)
    /\ staged' = [staged EXCEPT ![r] = @ + 1]
    /\ Stage(r)
    /\ UNCHANGED <<kind, pc, left, pool, holds, unsure>>

Commit(r) ==
    /\ pc[r] = "run" /\ kind[r] = "transaction" /\ staged[r] = Length
    /\ \/ /\ Effect(r, Own(r)) /\ Succeed(r) /\ UNCHANGED unsure
       \/ /\ Effect(r, Own(r)) /\ Fail(r, TRUE) /\ unsure' = [unsure EXCEPT ![r] = TRUE]
       \/ /\ Fail(r, TRUE) /\ unsure' = [unsure EXCEPT ![r] = TRUE] /\ UNCHANGED effects
    /\ UNCHANGED <<kind, pool>>

(* The server refuses a statement, or a transaction is lost before COMMIT. *)
Refused(r) ==
    /\ pc[r] = "run"
    /\ \/ Fail(r, FALSE)
       \/ kind[r] = "transaction" /\ staged[r] < Length /\ Fail(r, TRUE)
    /\ UNCHANGED <<kind, pool, effects, unsure>>

Step(r) ==
    \/ FindPool(r) \/ BuildPool(r) \/ Rejected(r) \/ CheckOut(r) \/ CheckOutFails(r) \/ Wake(r)
    \/ RunOne(r) \/ RunNext(r) \/ Commit(r) \/ Refused(r)

Next == \E r \in Requests : Step(r)

(* Checking out, executing and sleeping all have their time limits. *)
Spec == Init /\ [][Next]_vars /\ \A r \in Requests : WF_vars(Step(r))

-----------------------------------------------------------------------------
(* Every variable has its type. *)
TypeOK ==
    /\ kind \in [Requests -> {"read", "raw", "write", "transaction"}]
    /\ pc \in [Requests -> {"start", "build", "checkout", "run", "sleep", "ok", "failed"}]
    /\ left \in [Requests -> 0..Retries]
    /\ pool \in Requests \cup {Nil}
    /\ holds \in [Requests -> Requests \cup {Nil}]
    /\ staged \in [Requests -> 0..Length]
    /\ effects \in [Requests -> [Statements -> Nat]]
    /\ unsure \in [Requests -> BOOLEAN]

(* A write takes effect at most once, and a transaction as a whole or not  *)
(* at all: whatever times out or is lost, nothing is executed twice.  A    *)
(* raw query is retried like a read: what its function does is done at     *)
(* most once in each attempt.                                              *)
NothingTwice ==
    \A r \in Requests :
        /\ \A i \in Statements : effects[r][i] > 0 => i \in Own(r)
        /\ \A i \in Own(r) : effects[r][i] <= (IF kind[r] = "raw" THEN Retries + 1 ELSE 1)
        /\ \A i, j \in Own(r) : effects[r][i] = effects[r][j]

(* A request that succeeds has had its effect.  One that fails has had     *)
(* none, unless the answer to its statement or its COMMIT was lost; and    *)
(* before it is answered it has had none at all, unless it is a raw query  *)
(* that is tried again.                                                    *)
AnswersTellTheTruth ==
    \A r \in Requests :
        /\ pc[r] = "ok" => \A i \in Own(r) : effects[r][i] > 0
        /\ pc[r] # "ok" /\ ~ unsure[r] => \A i \in Statements : effects[r][i] = 0
        /\ ~ Answered(r) /\ kind[r] # "raw" => \A i \in Statements : effects[r][i] = 0

(* All connections are of one pool, never more than it may have, and held  *)
(* by requests that run: those that wait for a connection or sleep before  *)
(* another attempt hold none.                                              *)
OnePool ==
    /\ \A r \in Requests : holds[r] # Nil => holds[r] = pool /\ pc[r] = "run"
    /\ \A r \in Requests : pc[r] = "run" => holds[r] # Nil
    /\ Cardinality({r \in Requests : holds[r] # Nil}) <= PoolSize

(* Every request is answered, however the server behaves, if the calls of  *)
(* an attempt come to an end.                                              *)
EveryRequestAnswered == \A r \in Requests : <>Answered(r)
==============================================================================
