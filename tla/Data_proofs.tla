------------------------------ MODULE Data_proofs ------------------------------
(***************************************************************************)
(* Where the data is.  For any number of requests, any size of the pool,   *)
(* of transactions and of the retries, the database runtime executes       *)
(* nothing twice, its transactions are whole, its answers are true, and    *)
(* there is one pool of bounded size.  In stores of up to 99 rows the      *)
(* preview answers queries as they are meant.                              *)
(***************************************************************************)
EXTENDS DatabaseRuntime, PreviewStore, SequenceTheorems, FiniteSetTheorems, TLAPS

(* What an attempt that fails leaves: it sleeps only if it was a read, or  *)
(* a raw query, and has one retry less.                                    *)
LEMMA FailCases ==
    ASSUME TypeOK, NEW r \in Requests, NEW transient \in BOOLEAN, Fail(r, transient)
    PROVE  /\ pc' \in [Requests -> {"start", "build", "checkout", "run", "sleep", "ok", "failed"}]
           /\ left' \in [Requests -> 0..Retries]
           /\ holds' = [holds EXCEPT ![r] = Nil]
           /\ staged' = [staged EXCEPT ![r] = 0]
           /\ \A q \in Requests \ {r} : pc'[q] = pc[q] /\ left'[q] = left[q]
           /\ \/ pc'[r] = "failed" /\ left'[r] = left[r]
              \/ /\ pc'[r] = "sleep" /\ kind[r] \in {"read", "raw"}
                 /\ left[r] > 0 /\ left'[r] = left[r] - 1
    <1>1. CASE MayRetry(r, transient)
        <2>1. left[r] \in 1..Retries /\ kind[r] \in {"read", "raw"}
            BY <1>1, PoolAssumption DEF MayRetry, TypeOK
        <2>2. Less(left[r]) \in 0..Retries /\ Less(left[r]) = left[r] - 1
            BY <2>1, PoolAssumption DEF Less
        <2>3. /\ pc' = [pc EXCEPT ![r] = "sleep"]
              /\ left' = [left EXCEPT ![r] = Less(@)]
            BY <1>1 DEF Fail
        <2> QED
            BY <2>1, <2>2, <2>3 DEF Fail, TypeOK
    <1>2. CASE ~ MayRetry(r, transient)
        BY <1>2 DEF Fail, TypeOK
    <1> QED
        BY <1>1, <1>2

(* The effect of the statements in S on the counts of request r. *)
LEMMA EffectCases ==
    ASSUME TypeOK, NEW r \in Requests, NEW S \in SUBSET Statements, Effect(r, S)
    PROVE  /\ effects' \in [Requests -> [Statements -> Nat]]
           /\ \A q \in Requests \ {r} : effects'[q] = effects[q]
           /\ \A i \in Statements : effects'[r][i] = IF i \in S THEN effects[r][i] + 1 ELSE effects[r][i]
    BY DEF Effect, TypeOK

(* A request's own statements are statements, and a read has none. *)
LEMMA OwnStatements ==
    ASSUME TypeOK, NEW r \in Requests
    PROVE  /\ Own(r) \in SUBSET Statements
           /\ kind[r] = "read" => Own(r) = {}
           /\ kind[r] = "raw" => Own(r) = {1}
    BY PoolAssumption DEF Own, Statements, TypeOK

-----------------------------------------------------------------------------
(* Types, among them that the retries left never leave their range and     *)
(* that no more statements are staged than a transaction has.              *)
THEOREM TypeCorrect == Spec => []TypeOK
    <1>1. Init => TypeOK
        BY PoolAssumption DEF Init, TypeOK
    <1>2. TypeOK /\ [Next]_vars => TypeOK'
        <2> SUFFICES ASSUME TypeOK, [Next]_vars PROVE TypeOK'
            OBVIOUS
        <2>1. CASE UNCHANGED vars
            BY <2>1 DEF vars, TypeOK
        <2>2. ASSUME NEW r \in Requests, Step(r) PROVE TypeOK'
            <3>1. CASE FindPool(r)  BY <3>1 DEF FindPool, TypeOK
            <3>2. CASE BuildPool(r)  BY <3>2 DEF BuildPool, TypeOK
            <3>3. ASSUME NEW transient \in BOOLEAN, Fail(r, transient),
                         UNCHANGED <<kind, pool>>,
                         effects' \in [Requests -> [Statements -> Nat]],
                         unsure' \in [Requests -> BOOLEAN]
                  PROVE  TypeOK'
                <4>1. /\ pc' \in [Requests -> {"start", "build", "checkout", "run", "sleep", "ok", "failed"}]
                      /\ left' \in [Requests -> 0..Retries]
                      /\ holds' = [holds EXCEPT ![r] = Nil]
                      /\ staged' = [staged EXCEPT ![r] = 0]
                    BY <3>3, FailCases
                <4>2. /\ holds' \in [Requests -> Requests \cup {Nil}]
                      /\ staged' \in [Requests -> 0..Length]
                    BY <4>1, PoolAssumption DEF TypeOK
                <4> QED
                    BY <3>3, <4>1, <4>2 DEF TypeOK
            <3>4. CASE Rejected(r)  BY <3>3, <3>4 DEF Rejected, TypeOK
            <3>5. CASE CheckOut(r)  BY <3>5 DEF CheckOut, ThePool, TypeOK
            <3>6. CASE CheckOutFails(r)  BY <3>3, <3>6 DEF CheckOutFails, TypeOK
            <3>7. CASE Wake(r)  BY <3>7 DEF Wake, TypeOK
            <3>8. ASSUME Effect(r, Own(r)), Succeed(r), UNCHANGED <<unsure, kind, pool>>
                  PROVE  TypeOK'
                BY <3>8, EffectCases, OwnStatements, PoolAssumption DEF Succeed, TypeOK
            <3>9. ASSUME Effect(r, Own(r)), Fail(r, TRUE), UNCHANGED <<kind, pool>>,
                         unsure' = [unsure EXCEPT ![r] = TRUE]
                  PROVE  TypeOK'
                <4>1. effects' \in [Requests -> [Statements -> Nat]]
                    BY <3>9, EffectCases, OwnStatements
                <4>2. unsure' \in [Requests -> BOOLEAN]
                    BY <3>9 DEF TypeOK
                <4> QED
                    BY <3>3, <3>9, <4>1, <4>2
            <3>10. ASSUME Fail(r, TRUE), UNCHANGED <<kind, pool, effects>>,
                          unsure' = [unsure EXCEPT ![r] = TRUE]
                   PROVE  TypeOK'
                BY <3>3, <3>10 DEF TypeOK
            <3>11. CASE RunOne(r)  BY <3>8, <3>9, <3>10, <3>11 DEF RunOne
            <3>12. CASE RunNext(r)
                BY <3>12, PoolAssumption DEF RunNext, MoreToRun, Stage, TypeOK
            <3>13. CASE Commit(r)  BY <3>8, <3>9, <3>10, <3>13 DEF Commit
            <3>14. CASE Refused(r)  BY <3>3, <3>14 DEF Refused, TypeOK
            <3> QED
                BY <2>2, <3>1, <3>2, <3>4, <3>5, <3>6, <3>7, <3>11, <3>12, <3>13, <3>14 DEF Step
        <2> QED
            BY <2>1, <2>2 DEF Next
    <1> QED
        BY <1>1, <1>2, PTL DEF Spec

-----------------------------------------------------------------------------
(* What a step means for the one request that makes it: it goes on, or its *)
(* attempt fails, before or after it was executed, or it succeeds.         *)
Ran(r) == \A i \in Statements : effects'[r][i] = IF i \in Own(r) THEN effects[r][i] + 1 ELSE effects[r][i]
Rests(r) == \A i \in Statements : effects'[r][i] = effects[r][i]

Went(r) ==
    /\ pc'[r] \notin {"ok", "failed"} /\ left'[r] = left[r] /\ unsure'[r] = unsure[r]
    /\ Rests(r)

Failed(r) ==
    /\ \/ pc'[r] = "failed" /\ left'[r] = left[r]
       \/ /\ pc'[r] = "sleep" /\ kind[r] \in {"read", "raw"}
          /\ left[r] > 0 /\ left'[r] = left[r] - 1
    /\ \/ Rests(r) /\ unsure'[r] = unsure[r]
       \/ (Rests(r) \/ Ran(r)) /\ unsure'[r] = TRUE

Succeeded(r) == pc'[r] = "ok" /\ left'[r] = left[r] /\ unsure'[r] = unsure[r] /\ Ran(r)

SameFor(q) ==
    /\ pc'[q] = pc[q] /\ left'[q] = left[q] /\ unsure'[q] = unsure[q] /\ effects'[q] = effects[q]

LEMMA StepCases ==
    ASSUME TypeOK, NEW r \in Requests, Step(r)
    PROVE  /\ pc[r] \notin {"ok", "failed"} /\ kind' = kind
           /\ \A q \in Requests \ {r} : SameFor(q)
           /\ Went(r) \/ Failed(r) \/ Succeeded(r)
    <1> DEFINE Cases == /\ pc[r] \notin {"ok", "failed"} /\ kind' = kind
                        /\ \A q \in Requests \ {r} : SameFor(q)
                        /\ Went(r) \/ Failed(r) \/ Succeeded(r)
    <1>1. ASSUME NEW transient \in BOOLEAN, Fail(r, transient),
                 pc[r] \notin {"ok", "failed"}, UNCHANGED <<kind, effects, unsure>>
          PROVE  Cases
        BY <1>1, FailCases DEF SameFor, Failed, Rests
    <1>2. ASSUME pc[r] = "run", Effect(r, Own(r)), Succeed(r), UNCHANGED <<unsure, kind>>
          PROVE  Cases
        <2>1. (\A q \in Requests \ {r} : effects'[q] = effects[q]) /\ Ran(r)
            BY <1>2, EffectCases, OwnStatements DEF Ran
        <2>2. pc'[r] = "ok" /\ (\A q \in Requests \ {r} : pc'[q] = pc[q]) /\ left' = left
            BY <1>2 DEF Succeed, TypeOK
        <2> QED
            BY <1>2, <2>1, <2>2 DEF SameFor, Succeeded
    <1>3. ASSUME pc[r] = "run", Fail(r, TRUE), kind' = kind, unsure' = [unsure EXCEPT ![r] = TRUE],
                 Effect(r, Own(r)) \/ UNCHANGED effects
          PROVE  Cases
        <2>1. (\A q \in Requests \ {r} : effects'[q] = effects[q]) /\ (Ran(r) \/ Rests(r))
            BY <1>3, EffectCases, OwnStatements DEF Ran, Rests
        <2>2. unsure'[r] = TRUE /\ \A q \in Requests \ {r} : unsure'[q] = unsure[q]
            BY <1>3 DEF TypeOK
        <2> QED
            BY <1>3, <2>1, <2>2, FailCases DEF SameFor, Failed
    <1>4. CASE FindPool(r) \/ BuildPool(r) \/ CheckOut(r) \/ Wake(r) \/ RunNext(r)
        <2>1. /\ pc[r] \notin {"ok", "failed"} /\ pc'[r] \notin {"ok", "failed"}
              /\ \A q \in Requests \ {r} : pc'[q] = pc[q]
              /\ UNCHANGED <<kind, left, unsure, effects>>
            BY <1>4 DEF FindPool, BuildPool, CheckOut, Wake, RunNext, Stage, TypeOK
        <2> QED
            BY <2>1 DEF SameFor, Went, Rests
    <1>5. CASE Rejected(r) \/ CheckOutFails(r) \/ Refused(r)
        BY <1>1, <1>5 DEF Rejected, CheckOutFails, Refused
    <1>6. CASE RunOne(r) \/ Commit(r)
        BY <1>2, <1>3, <1>6 DEF RunOne, Commit
    <1> QED
        BY <1>4, <1>5, <1>6 DEF Step

-----------------------------------------------------------------------------
(* What is true of one request: its statements have taken effect once, all *)
(* of its own and no others, or not at all.                                *)
Done(r) == \A i \in Statements : effects[r][i] = IF i \in Own(r) THEN 1 ELSE 0
Undone(r) == \A i \in Statements : effects[r][i] = 0

(* The inductive invariant: whether a request is done goes with its state, *)
(* so that whatever is still to be executed has had no effect before.      *)
Truth(r) ==
    \/ pc[r] = "ok" /\ Done(r)
    \/ pc[r] = "failed" /\ unsure[r] /\ (Done(r) \/ Undone(r))
    \/ pc[r] # "ok" /\ Undone(r)

(* A raw query has at most the effects of the attempts it has made, which  *)
(* are as many as the retries it has used, and one when it is answered.    *)
RawTruth(r) ==
    /\ \A i \in Statements : i # 1 => effects[r][i] = 0
    /\ pc[r] = "ok" => effects[r][1] > 0
    /\ effects[r][1] > 0 => pc[r] = "ok" \/ unsure[r]
    /\ effects[r][1] + left[r] <= IF Answered(r) THEN Retries + 1 ELSE Retries

Accounted == \A r \in Requests : IF kind[r] = "raw" THEN RawTruth(r) ELSE Truth(r)

(* What is still to be executed had no effect; what fails and sleeps was   *)
(* a read, which has no statements, and what succeeds was undone.          *)
LEMMA TruthStep ==
    ASSUME TypeOK, NEW r \in Requests, kind[r] # "raw", Truth(r), Step(r)
    PROVE  Truth(r)'
    <1>1. pc[r] \notin {"ok", "failed"} /\ kind' = kind /\ (Went(r) \/ Failed(r) \/ Succeeded(r))
        BY StepCases
    <1>2. Undone(r)
        BY <1>1 DEF Truth
    <1>3. CASE Rests(r) /\ ~ Ran(r)
        <2>1. Undone(r)'
            BY <1>2, <1>3 DEF Undone, Rests
        <2> QED
            BY <1>1, <1>3, <2>1 DEF Truth, Went, Failed, Succeeded
    <1>4. CASE Ran(r)
        <2>1. Done(r)'
            <3>1. Own(r)' = Own(r)
                BY <1>1 DEF Own
            <3> QED
                BY <1>2, <1>4, <3>1 DEF Ran, Done, Undone
        <2>2. kind[r] = "read" => Undone(r)'
            BY <1>2, <1>4, OwnStatements DEF Ran, Undone
        <2>3. Rests(r) => Undone(r)'
            BY <1>2 DEF Rests, Undone
        <2> QED
            BY <1>1, <2>1, <2>2, <2>3 DEF Truth, Went, Failed, Succeeded
    <1> QED
        BY <1>1, <1>3, <1>4 DEF Went, Failed, Succeeded

(* An attempt of a raw query has one effect at most and, if it fails and   *)
(* is made again, one retry less.                                          *)
LEMMA RawTruthStep ==
    ASSUME TypeOK, NEW r \in Requests, kind[r] = "raw", RawTruth(r), Step(r)
    PROVE  RawTruth(r)'
    <1>1. pc[r] \notin {"ok", "failed"} /\ (Went(r) \/ Failed(r) \/ Succeeded(r))
        BY StepCases
    <1>2. 1 \in Statements /\ Own(r) = {1}
        BY OwnStatements DEF Statements
    <1>3. effects[r][1] \in Nat /\ left[r] \in Nat /\ Retries \in Nat
        BY <1>2, PoolAssumption DEF TypeOK
    <1>4. CASE Rests(r)
        BY <1>1, <1>2, <1>3, <1>4 DEF RawTruth, Went, Failed, Succeeded, Rests, Ran, Answered
    <1>5. CASE Ran(r)
        BY <1>1, <1>2, <1>3, <1>4, <1>5 DEF RawTruth, Went, Failed, Succeeded, Ran, Answered
    <1> QED
        BY <1>1, <1>4, <1>5 DEF Went, Failed, Succeeded

(* Every step keeps the accounts. *)
LEMMA AccountedStep ==
    ASSUME TypeOK, Accounted, [Next]_vars
    PROVE  Accounted'
    <1>1. CASE UNCHANGED vars
        BY <1>1 DEF vars, Accounted, Truth, RawTruth, Answered, Done, Undone, Own
    <1>2. ASSUME NEW r \in Requests, Step(r), NEW q \in Requests
          PROVE  IF kind'[q] = "raw" THEN RawTruth(q)' ELSE Truth(q)'
        <2>1. kind' = kind /\ (q # r => SameFor(q))
            BY <1>2, StepCases
        <2>2. IF kind[q] = "raw" THEN RawTruth(q) ELSE Truth(q)
            BY DEF Accounted
        <2>3. CASE q = r
            BY <1>2, <2>1, <2>2, <2>3, TruthStep, RawTruthStep
        <2>4. CASE q # r
            BY <2>1, <2>2, <2>4 DEF SameFor, Truth, RawTruth, Answered, Done, Undone, Own
        <2> QED
            BY <2>3, <2>4
    <1> QED
        BY <1>1, <1>2 DEF Next, Accounted

(* The state of every request tells whether its statements have taken      *)
(* effect, unless an answer was lost.                                      *)
THEOREM EverythingIsAccounted == Spec => []Accounted
    <1>1. Init => Accounted
        BY PoolAssumption DEF Init, Accounted, Truth, Undone, RawTruth, Answered, Statements
    <1>2. TypeOK /\ Accounted /\ [Next]_vars => Accounted'
        BY AccountedStep
    <1> QED
        BY <1>1, <1>2, TypeCorrect, PTL DEF Spec

(* A write takes effect at most once, a transaction as a whole or not at   *)
(* all, and what a raw query calls at most once an attempt.                *)
THEOREM NothingIsDoneTwice == Spec => []NothingTwice
    <1>1. TypeOK /\ Accounted => NothingTwice
        <2> SUFFICES ASSUME TypeOK, Accounted, NEW r \in Requests
                     PROVE  /\ \A i \in Statements : effects[r][i] > 0 => i \in Own(r)
                            /\ \A i \in Own(r) :
                                  effects[r][i] <= (IF kind[r] = "raw" THEN Retries + 1 ELSE 1)
                            /\ \A i, j \in Own(r) : effects[r][i] = effects[r][j]
            BY DEF NothingTwice
        <2>1. CASE kind[r] # "raw"
            <3>1. Done(r) \/ Undone(r)
                BY <2>1 DEF Accounted, Truth
            <3> QED
                BY <2>1, <3>1, OwnStatements DEF Done, Undone
        <2>2. CASE kind[r] = "raw"
            <3>1. RawTruth(r) /\ Own(r) = {1} /\ 1 \in Statements
                BY <2>2, OwnStatements DEF Accounted
            <3>2. effects[r][1] \in Nat /\ left[r] \in Nat /\ Retries \in Nat
                BY <3>1, PoolAssumption DEF TypeOK
            <3> QED
                BY <2>2, <3>1, <3>2 DEF RawTruth
        <2> QED
            BY <2>1, <2>2
    <1> QED
        BY <1>1, TypeCorrect, EverythingIsAccounted, PTL

(* A request that succeeds has had its effect, one that fails none, unless *)
(* an answer was lost, and before it is answered it has had none, unless   *)
(* it is a raw query.                                                      *)
THEOREM AnswersAreTrue == Spec => []AnswersTellTheTruth
    <1>1. TypeOK /\ Accounted => AnswersTellTheTruth
        <2> SUFFICES ASSUME TypeOK, Accounted, NEW r \in Requests
                     PROVE  /\ pc[r] = "ok" => \A i \in Own(r) : effects[r][i] > 0
                            /\ pc[r] # "ok" /\ ~ unsure[r] => \A i \in Statements : effects[r][i] = 0
                            /\ ~ Answered(r) /\ kind[r] # "raw" =>
                                  \A i \in Statements : effects[r][i] = 0
            BY DEF AnswersTellTheTruth
        <2>1. CASE kind[r] # "raw"
            <3>1. Truth(r)
                BY <2>1 DEF Accounted
            <3> QED
                BY <2>1, <3>1, OwnStatements DEF Truth, Done, Undone, Answered
        <2>2. CASE kind[r] = "raw"
            <3>1. RawTruth(r) /\ Own(r) = {1} /\ 1 \in Statements
                BY <2>2, OwnStatements DEF Accounted
            <3>2. effects[r][1] \in Nat
                BY <3>1 DEF TypeOK
            <3> QED
                BY <2>2, <3>1, <3>2 DEF RawTruth
        <2> QED
            BY <2>1, <2>2
    <1> QED
        BY <1>1, TypeCorrect, EverythingIsAccounted, PTL

-----------------------------------------------------------------------------
(* Whoever waits for a connection or has one found the pool, and never     *)
(* another: it is what makes OnePool inductive.                            *)
PoolInv ==
    /\ OnePool
    /\ \A r \in Requests : pc[r] \in {"checkout", "run"} => pool # Nil

Holders == {r \in Requests : holds[r] # Nil}

(* Connections are given back, and the pool stays.                         *)
LEMMA GiveBack ==
    ASSUME TypeOK, PoolInv, NEW r \in Requests, pool' = pool,
           holds' = [holds EXCEPT ![r] = Nil],
           \A q \in Requests \ {r} : pc'[q] = pc[q],
           pc'[r] \notin {"checkout", "run"}
    PROVE  PoolInv'
    <1>1. \A q \in Requests : holds'[q] = IF q = r THEN Nil ELSE holds[q]
        BY DEF TypeOK
    <1>2. Holders' \subseteq Holders
        BY <1>1 DEF Holders
    <1>3. IsFiniteSet(Holders)
        BY RequestsAssumption, FS_Subset DEF Holders
    <1>4. Cardinality(Holders') <= Cardinality(Holders)
        BY <1>2, <1>3, FS_Subset
    <1>5. Cardinality(Holders') \in Nat /\ Cardinality(Holders) \in Nat
        BY <1>2, <1>3, FS_Subset, FS_CardinalityType
    <1>6. Cardinality(Holders') <= PoolSize
        BY <1>4, <1>5, PoolAssumption DEF PoolInv, OnePool, Holders
    <1> QED
        BY <1>1, <1>6 DEF PoolInv, OnePool, Holders

(* Nothing is held by anybody else, and nobody starts to run. *)
LEMMA NothingHeld ==
    ASSUME TypeOK, PoolInv, NEW r \in Requests, holds' = holds,
           \A q \in Requests \ {r} : pc'[q] = pc[q],
           pc'[r] = "run" <=> pc[r] = "run",
           pool' = pool \/ pool = Nil,
           pc'[r] = "checkout" => pool' # Nil
    PROVE  PoolInv'
    <1>1. pool = Nil => \A q \in Requests : holds[q] = Nil /\ pc[q] \notin {"checkout", "run"}
        BY DEF PoolInv, OnePool
    <1> QED
        BY <1>1 DEF PoolInv, OnePool

(* All connections are of one pool, never more than it may have, and held  *)
(* by requests that run.                                                   *)
THEOREM PoolIsBounded == Spec => []OnePool
    <1>1. Init => PoolInv
        <2> SUFFICES ASSUME Init PROVE PoolInv
            OBVIOUS
        <2>1. Holders = {}
            BY DEF Init, Holders
        <2>2. Cardinality(Holders) = 0
            BY <2>1, FS_EmptySet
        <2> QED
            BY <2>2, PoolAssumption DEF Init, PoolInv, OnePool, Holders
    <1>2. TypeOK /\ PoolInv /\ [Next]_vars => PoolInv'
        <2> SUFFICES ASSUME TypeOK, PoolInv, [Next]_vars PROVE PoolInv'
            OBVIOUS
        <2>1. CASE UNCHANGED vars
            BY <2>1 DEF vars, PoolInv, OnePool
        <2>2. ASSUME NEW r \in Requests, Step(r) PROVE PoolInv'
            <3>1. ASSUME NEW transient \in BOOLEAN, Fail(r, transient), pool' = pool PROVE PoolInv'
                BY <3>1, FailCases, GiveBack
            <3>2. ASSUME Succeed(r), pool' = pool PROVE PoolInv'
                BY <3>2, GiveBack DEF Succeed, TypeOK
            <3>3. CASE FindPool(r)
                BY <3>3, NothingHeld DEF FindPool, TypeOK
            <3>4. CASE BuildPool(r)
                BY <3>4, NothingHeld, NilAssumption DEF BuildPool, TypeOK
            <3>5. CASE CheckOut(r)
                <4>1. pool # Nil /\ pc[r] = "checkout" /\ holds[r] = Nil
                    BY <3>5 DEF CheckOut, PoolInv, OnePool
                <4>2. /\ \A q \in Requests : holds'[q] = IF q = r THEN pool ELSE holds[q]
                      /\ \A q \in Requests : pc'[q] = IF q = r THEN "run" ELSE pc[q]
                      /\ pool' = pool
                    BY <3>5 DEF CheckOut, ThePool, TypeOK
                <4>3. Holders = Held(pool)
                    BY <4>1 DEF Holders, Held, PoolInv, OnePool
                <4>4. Holders' = Holders \cup {r}
                    BY <4>1, <4>2 DEF Holders
                <4>5. r \notin Holders /\ IsFiniteSet(Holders)
                    BY <4>1, RequestsAssumption, FS_Subset DEF Holders
                <4>6. Cardinality(Holders') = Cardinality(Holders) + 1
                    BY <4>4, <4>5, FS_AddElement
                <4>7. Cardinality(Holders) < PoolSize
                    BY <3>5, <4>3 DEF CheckOut, ThePool
                <4>8. Cardinality(Holders') <= PoolSize
                    BY <4>5, <4>6, <4>7, FS_CardinalityType, PoolAssumption
                <4> QED
                    BY <4>1, <4>2, <4>8 DEF PoolInv, OnePool, Holders
            <3>6. CASE Wake(r)
                BY <3>6, NothingHeld DEF Wake, TypeOK
            <3>7. CASE Rejected(r)  BY <3>1, <3>7 DEF Rejected
            <3>8. CASE CheckOutFails(r)  BY <3>1, <3>8 DEF CheckOutFails
            <3>9. CASE RunOne(r)  BY <3>1, <3>2, <3>9 DEF RunOne
            <3>10. CASE RunNext(r)
                BY <3>10, NothingHeld DEF RunNext
            <3>11. CASE Commit(r)  BY <3>1, <3>2, <3>11 DEF Commit
            <3>12. CASE Refused(r)  BY <3>1, <3>12 DEF Refused
            <3> QED
                BY <2>2, <3>3, <3>4, <3>5, <3>6, <3>7, <3>8, <3>9, <3>10, <3>11, <3>12 DEF Step
        <2> QED
            BY <2>1, <2>2 DEF Next
    <1> QED
        BY <1>1, <1>2, TypeCorrect, PTL DEF Spec, PoolInv

-----------------------------------------------------------------------------
(* Indices in ascending order, as a set of pairs.                          *)
Ascending == {p \in Nat \X Nat : p[1] < p[2]}

(* Ranked, for an order that is a set of pairs: as a term and not an       *)
(* operator, facts about it can be stated for every order.                 *)
RankedBy(S, B) ==
    [r \in 1..Cardinality(S) |-> CHOOSE i \in S : Cardinality({j \in S : <<j, i>> \in B}) = r - 1]

(* B is a strict total order on S.                                         *)
StrictOrder(S, B) ==
    /\ \A i \in S : <<i, i>> \notin B
    /\ \A i, j, k \in S : <<i, j>> \in B /\ <<j, k>> \in B => <<i, k>> \in B
    /\ \A i, j \in S : i = j \/ <<i, j>> \in B \/ <<j, i>> \in B

(* f lists S in the order B.                                               *)
Enumerates(f, S, B) ==
    /\ f \in [1..Cardinality(S) -> S]
    /\ \A r, t \in 1..Cardinality(S) : r < t => <<f[r], f[t]>> \in B
    /\ \A i \in S : \E r \in 1..Cardinality(S) : f[r] = i

(* What is before i.                                                       *)
Before(S, B, i) == {j \in S : <<j, i>> \in B}

(* The number of elements before another is a rank, and grows with the     *)
(* order.                                                                  *)
LEMMA RankGrows ==
    ASSUME NEW S, IsFiniteSet(S), NEW B, StrictOrder(S, B), NEW i \in S
    PROVE  /\ Cardinality(Before(S, B, i)) \in 0..Cardinality(S) - 1
           /\ \A j \in S : <<j, i>> \in B => Cardinality(Before(S, B, j)) < Cardinality(Before(S, B, i))
<1>1. /\ Cardinality(S) \in Nat
      /\ \A T \in SUBSET S : Cardinality(T) \in Nat /\ IsFiniteSet(T)
    BY FS_Subset, FS_CardinalityType
<1>2. \A T \in SUBSET S, U \in SUBSET S : T \subseteq U /\ T # U => Cardinality(T) < Cardinality(U)
    <2>1. SUFFICES ASSUME NEW T \in SUBSET S, NEW U \in SUBSET S, T \subseteq U, T # U
                   PROVE  Cardinality(T) < Cardinality(U)
        OBVIOUS
    <2>2. Cardinality(T) <= Cardinality(U) /\ Cardinality(T) # Cardinality(U)
        BY <1>1, <2>1, FS_Subset
    <2>. QED
        BY <1>1, <2>2
<1>3. Before(S, B, i) \in SUBSET S /\ i \notin Before(S, B, i)
    BY DEF Before, StrictOrder
<1>4. ASSUME NEW j \in S, <<j, i>> \in B
      PROVE  /\ Before(S, B, j) \in SUBSET S
             /\ Before(S, B, j) \subseteq Before(S, B, i)
             /\ Before(S, B, j) # Before(S, B, i)
    <2>1. j \in Before(S, B, i) /\ j \notin Before(S, B, j)
        BY <1>4 DEF Before, StrictOrder
    <2>2. \A k \in Before(S, B, j) : k \in Before(S, B, i)
        BY <1>4 DEF Before, StrictOrder
    <2>. QED
        BY <2>1, <2>2 DEF Before
<1>5. Cardinality(Before(S, B, i)) < Cardinality(S)
    BY <1>2, <1>3
<1>. QED
    BY <1>1, <1>2, <1>3, <1>4, <1>5

(* Every rank is that of exactly one element: the ranks are an injection   *)
(* into a set of the same size.                                            *)
LEMMA EveryRankOnce ==
    ASSUME NEW S, IsFiniteSet(S), NEW B, StrictOrder(S, B)
    PROVE  /\ \A i, j \in S : Cardinality(Before(S, B, i)) = Cardinality(Before(S, B, j)) => i = j
           /\ \A r \in 1..Cardinality(S) : \E i \in S : Cardinality(Before(S, B, i)) = r - 1
<1>. DEFINE c == Cardinality(S)
            rank == [i \in S |-> Cardinality(Before(S, B, i))]
<1>1. c \in Nat
    BY FS_CardinalityType
<1>2. \A i \in S : Cardinality(Before(S, B, i)) \in 0..c - 1
    BY RankGrows
<1>3. ASSUME NEW i \in S, NEW j \in S, Cardinality(Before(S, B, i)) = Cardinality(Before(S, B, j))
      PROVE  i = j
    <2>1. PICK a \in 0..c - 1 : a = Cardinality(Before(S, B, i)) /\ a = Cardinality(Before(S, B, j))
        BY <1>2, <1>3
    <2>2. ~ (a < a)
        BY <1>1, <2>1
    <2>3. <<i, j>> \notin B /\ <<j, i>> \notin B
        BY <2>1, <2>2, RankGrows
    <2>. QED
        BY <2>3 DEF StrictOrder
<1>4. rank \in Injection(S, 0..c - 1)
    BY <1>2, <1>3 DEF Injection, IsInjective
<1>5. IsFiniteSet(0..c - 1) /\ Cardinality(0..c - 1) = c
    BY <1>1, FS_Interval
<1>6. rank \in Surjection(S, 0..c - 1)
    BY <1>4, <1>5, FS_Injection
<1>7. ASSUME NEW r \in 1..c
      PROVE  \E i \in S : Cardinality(Before(S, B, i)) = r - 1
    <2>1. r - 1 \in 0..c - 1
        BY <1>1
    <2>. QED
        BY <1>6, <2>1 DEF Surjection
<1>. QED
    BY <1>3, <1>7

(* RankedBy lists its set in order ...                                     *)
LEMMA RanksEnumerate ==
    ASSUME NEW S, IsFiniteSet(S), NEW B, StrictOrder(S, B)
    PROVE  Enumerates(RankedBy(S, B), S, B)
<1>. DEFINE c == Cardinality(S)
            f == RankedBy(S, B)
<1>1. c \in Nat
    BY FS_CardinalityType
<1>2. \A r \in 1..c : f[r] = CHOOSE i \in S : Cardinality(Before(S, B, i)) = r - 1
    BY DEF RankedBy, Before
<1>3. \A r \in 1..c : f[r] \in S /\ Cardinality(Before(S, B, f[r])) = r - 1
    BY <1>2, EveryRankOnce
<1>4. f \in [1..c -> S]
    BY <1>3 DEF RankedBy
<1>5. ASSUME NEW r \in 1..c, NEW t \in 1..c, r < t
      PROVE  <<f[r], f[t]>> \in B
    <2>1. f[r] # f[t]
        BY <1>3, <1>5
    <2>2. CASE <<f[t], f[r]>> \in B
        <3>1. Cardinality(Before(S, B, f[t])) < Cardinality(Before(S, B, f[r]))
            BY <1>3, <2>2, RankGrows
        <3>. QED
            BY <1>3, <1>5, <3>1
    <2>. QED
        BY <1>3, <2>1, <2>2 DEF StrictOrder
<1>6. ASSUME NEW i \in S
      PROVE  \E r \in 1..c : f[r] = i
    <2>1. PICK n \in 0..c - 1 : n = Cardinality(Before(S, B, i))
        BY RankGrows
    <2>2. n + 1 \in 1..c /\ n = (n + 1) - 1
        BY <1>1
    <2>3. f[n + 1] \in S /\ Cardinality(Before(S, B, f[n + 1])) = n
        BY <1>3, <2>2
    <2>. QED
        BY <2>1, <2>2, <2>3, EveryRankOnce
<1>. QED
    BY <1>4, <1>5, <1>6 DEF Enumerates

(* ... and is the only function that does: r - 1 elements are before the   *)
(* one in place r of any enumeration.                                      *)
LEMMA OneEnumeration ==
    ASSUME NEW S, IsFiniteSet(S), NEW B, StrictOrder(S, B), NEW f, Enumerates(f, S, B)
    PROVE  f = RankedBy(S, B)
<1>. DEFINE c == Cardinality(S)
            g == RankedBy(S, B)
<1>1. c \in Nat /\ f \in [1..c -> S]
    BY FS_CardinalityType DEF Enumerates
<1>2. ASSUME NEW r \in 1..c
      PROVE  Cardinality(Before(S, B, f[r])) = r - 1
    <2>. DEFINE P == Before(S, B, f[r])
                h == [t \in 1..r - 1 |-> f[t]]
    <2>1. r \in Nat /\ r - 1 \in Nat /\ f[r] \in S
        BY <1>1
    <2>2. \A t \in 1..r - 1 : t \in 1..c /\ t < r
        BY <1>1
    <2>3. \A t \in 1..r - 1 : f[t] \in P
        BY <1>1, <2>2 DEF Before, Enumerates
    <2>4. ASSUME NEW i \in P
          PROVE  \E t \in 1..r - 1 : f[t] = i
        <3>1. i \in S /\ <<i, f[r]>> \in B
            BY DEF Before
        <3>2. PICK t \in 1..c : f[t] = i
            BY <3>1 DEF Enumerates
        <3>3. t # r
            BY <2>1, <3>1, <3>2 DEF StrictOrder
        <3>4. ~ (r < t)
            <4>1. SUFFICES ASSUME r < t PROVE FALSE
                OBVIOUS
            <4>2. <<f[r], i>> \in B
                BY <3>2, <4>1 DEF Enumerates
            <4>. QED
                BY <2>1, <3>1, <4>2 DEF StrictOrder
        <3>5. t \in 1..r - 1
            BY <1>1, <3>3, <3>4
        <3>. QED
            BY <3>2, <3>5
    <2>5. ASSUME NEW t \in 1..r - 1, NEW u \in 1..r - 1, f[t] = f[u]
          PROVE  t = u
        <3>1. t \in 1..c /\ u \in 1..c /\ f[t] \in S
            BY <1>1, <2>2
        <3>2. t < u => <<f[t], f[u]>> \in B
            BY <3>1 DEF Enumerates
        <3>3. u < t => <<f[u], f[t]>> \in B
            BY <3>1 DEF Enumerates
        <3>4. ~ (t < u) /\ ~ (u < t)
            BY <2>5, <3>1, <3>2, <3>3 DEF StrictOrder
        <3>. QED
            BY <3>1, <3>4
    <2>6. h \in Bijection(1..r - 1, P)
        <3>1. h \in [1..r - 1 -> P] /\ \A t \in 1..r - 1 : h[t] = f[t]
            BY <2>3
        <3>. HIDE DEF h, P
        <3>2. h \in Injection(1..r - 1, P)
            BY <2>5, <3>1 DEF Injection, IsInjective
        <3>3. h \in Surjection(1..r - 1, P)
            BY <2>4, <3>1 DEF Surjection
        <3>. QED
            BY <3>2, <3>3 DEF Bijection
    <2>7. IsFiniteSet(1..r - 1) /\ Cardinality(1..r - 1) = r - 1
        BY <2>1, FS_Interval
    <2>8. Cardinality(P) = Cardinality(1..r - 1)
        <3>. HIDE DEF h, P
        <3>1. ExistsBijection(1..r - 1, P)
            BY <2>6 DEF ExistsBijection
        <3>. QED
            BY <2>7, <3>1, FS_Bijection
    <2>. QED
        BY <2>7, <2>8
<1>3. ASSUME NEW r \in 1..c
      PROVE  f[r] = g[r]
    <2>1. g[r] = CHOOSE i \in S : Cardinality(Before(S, B, i)) = r - 1
        BY DEF RankedBy, Before
    <2>2. g[r] \in S /\ Cardinality(Before(S, B, g[r])) = r - 1
        BY <2>1, EveryRankOnce
    <2>. QED
        BY <1>1, <1>2, <2>2, EveryRankOnce
<1>4. g \in [1..c -> S]
    BY RanksEnumerate DEF Enumerates
<1>. HIDE DEF c, g
<1>5. f = g
    BY <1>1, <1>3, <1>4
<1>. QED
    BY <1>5 DEF g

(* The elements in the places S of g.                                      *)
Picked(g, S) == {g[r] : r \in S}

(* An enumeration has as many elements in some places as there are places. *)
LEMMA PickedSize ==
    ASSUME NEW T, IsFiniteSet(T), NEW B, StrictOrder(T, B), NEW g, Enumerates(g, T, B),
           NEW S \in SUBSET (1..Cardinality(T))
    PROVE  IsFiniteSet(Picked(g, S)) /\ Cardinality(Picked(g, S)) = Cardinality(S)
<1>. DEFINE c == Cardinality(T)
            P == Picked(g, S)
            e == [r \in S |-> g[r]]
<1>1. c \in Nat
    BY FS_CardinalityType
<1>2. IsFiniteSet(S)
    <2>1. IsFiniteSet(1..c)
        BY <1>1, FS_Interval
    <2>. QED
        BY <2>1, FS_Subset
<1>3. ASSUME NEW r \in S, NEW t \in S, g[r] = g[t]
      PROVE  r = t
    <2>1. r \in 1..c /\ t \in 1..c /\ g[r] \in T
        BY DEF Enumerates
    <2>2. (r < t => <<g[r], g[t]>> \in B) /\ (t < r => <<g[t], g[r]>> \in B)
        BY <2>1 DEF Enumerates
    <2>3. ~ (r < t) /\ ~ (t < r)
        BY <1>3, <2>1, <2>2 DEF StrictOrder
    <2>. QED
        BY <1>1, <2>1, <2>3
<1>4. ExistsBijection(S, P)
    <2>1. e \in [S -> P] /\ \A r \in S : e[r] = g[r]
        BY DEF Picked
    <2>2. \A i \in P : \E r \in S : g[r] = i
        BY DEF Picked
    <2>. HIDE DEF e, P
    <2>3. e \in Injection(S, P)
        BY <1>3, <2>1 DEF Injection, IsInjective
    <2>4. e \in Surjection(S, P)
        BY <2>1, <2>2 DEF Surjection
    <2>. QED
        BY <2>3, <2>4 DEF Bijection, ExistsBijection
<1>. QED
    BY <1>2, <1>4, FS_Bijection

(* The elements in the places that h has, and an order of places that g    *)
(* carries over to their elements.                                         *)
Composed(g, h, S) == [x \in 1..Cardinality(S) |-> g[h[x]]]
Carries(g, S, D, E) == \A r, t \in S : <<r, t>> \in D => <<g[r], g[t]>> \in E

(* To enumerate some places of an enumeration is to enumerate the elements *)
(* in them.                                                                *)
LEMMA Composition ==
    ASSUME NEW g, NEW S, Cardinality(Picked(g, S)) = Cardinality(S),
           NEW D, NEW h, Enumerates(h, S, D), NEW E, Carries(g, S, D, E)
    PROVE  Enumerates(Composed(g, h, S), Picked(g, S), E)
<1>. DEFINE P == Picked(g, S)
            f == Composed(g, h, S)
            d == Cardinality(S)
<1>1. h \in [1..d -> S]
    BY DEF Enumerates
<1>2. f \in [1..d -> P] /\ \A x \in 1..d : f[x] = g[h[x]]
    BY <1>1 DEF Picked, Composed
<1>. HIDE DEF f
<1>3. ASSUME NEW x \in 1..d, NEW y \in 1..d, x < y
      PROVE  <<f[x], f[y]>> \in E
    <2>1. <<h[x], h[y]>> \in D /\ h[x] \in S /\ h[y] \in S
        BY <1>1, <1>3 DEF Enumerates
    <2>. QED
        BY <1>2, <2>1 DEF Carries
<1>4. ASSUME NEW i \in P
      PROVE  \E x \in 1..d : f[x] = i
    <2>1. PICK r \in S : i = g[r]
        BY DEF Picked
    <2>2. PICK x \in 1..d : h[x] = r
        BY DEF Enumerates
    <2>. QED
        BY <1>2, <2>1, <2>2
<1>. HIDE DEF d, P
<1>5. d = Cardinality(P)
    BY DEF d, P
<1>6. Enumerates(f, P, E)
    BY <1>2, <1>3, <1>4, <1>5 DEF Enumerates
<1>. QED
    BY <1>6 DEF f, P

(* The order of the indices is strict, and Ranked by it is RankedBy.       *)
LEMMA LessIsStrict ==
    ASSUME NEW S, S \subseteq Nat
    PROVE  StrictOrder(S, Ascending) /\ Ranked(S, <) = RankedBy(S, Ascending)
<1>1. \A i, j \in S : <<i, j>> \in Ascending <=> i < j
    BY DEF Ascending
<1>2. StrictOrder(S, Ascending)
    BY <1>1 DEF StrictOrder
<1>3. \A i \in S : {j \in S : j < i} = {j \in S : <<j, i>> \in Ascending}
    BY <1>1
<1>4. \A i \in S : Cardinality({j \in S : j < i}) = Cardinality({j \in S : <<j, i>> \in Ascending})
    BY <1>3, Zenon
<1>. DEFINE a(r) == CHOOSE i \in S : Cardinality({j \in S : j < i}) = r - 1
            b(r) == CHOOSE i \in S : Cardinality({j \in S : <<j, i>> \in Ascending}) = r - 1
<1>5. ASSUME NEW r
      PROVE  a(r) = b(r)
    <2>1. \A i : (i \in S /\ Cardinality({j \in S : j < i}) = r - 1)
                     <=> (i \in S /\ Cardinality({j \in S : <<j, i>> \in Ascending}) = r - 1)
        BY <1>4
    <2>. QED
        BY <2>1
<1>6. Ranked(S, <) = [r \in 1..Cardinality(S) |-> a(r)]
    BY DEF Ranked
<1>7. RankedBy(S, Ascending) = [r \in 1..Cardinality(S) |-> b(r)]
    BY DEF RankedBy
<1>8. [r \in 1..Cardinality(S) |-> a(r)] = [r \in 1..Cardinality(S) |-> b(r)]
    <2>. HIDE DEF a, b
    <2>. QED
        BY <1>5
<1>. QED
    BY <1>2, <1>6, <1>7, <1>8, Zenon

(* rows are the rows R of the indices T, in the order B.                   *)
Lists(rows, R, T, B) == rows = [r \in 1..Cardinality(T) |-> R[RankedBy(T, B)[r]]]

(* The places in ascending order hold their elements in order.             *)
LEMMA PlacesInOrder ==
    ASSUME NEW T, IsFiniteSet(T), NEW B, StrictOrder(T, B), NEW g, Enumerates(g, T, B),
           NEW s \in SUBSET (1..Cardinality(T)), NEW h, h = RankedBy(s, Ascending)
    PROVE  /\ h \in [1..Cardinality(s) -> s]
           /\ IsFiniteSet(Picked(g, s)) /\ Cardinality(Picked(g, s)) = Cardinality(s)
           /\ StrictOrder(Picked(g, s), B)
           /\ \A x \in 1..Cardinality(s) : g[h[x]] = RankedBy(Picked(g, s), B)[x]
<1>. DEFINE c == Cardinality(T)
            P == Picked(g, s)
<1>1. c \in Nat
    BY FS_CardinalityType
<1>2. s \subseteq Nat /\ IsFiniteSet(s)
    <2>1. IsFiniteSet(1..c) /\ 1..c \subseteq Nat
        BY <1>1, FS_Interval
    <2>. QED
        BY <2>1, FS_Subset
<1>3. StrictOrder(s, Ascending)
    BY <1>2, LessIsStrict, Zenon
<1>4. Enumerates(h, s, Ascending)
    BY <1>2, <1>3, RanksEnumerate
<1>5. Carries(g, s, Ascending, B)
    BY <1>2 DEF Ascending, Enumerates, Carries
<1>6. P \subseteq T
    BY DEF Picked, Enumerates
<1>7. StrictOrder(P, B)
    <2>. HIDE DEF P
    <2>. QED
        BY <1>6 DEF StrictOrder
<1>8. IsFiniteSet(P) /\ Cardinality(P) = Cardinality(s)
    BY PickedSize
<1>9. Enumerates(Composed(g, h, s), P, B)
    BY <1>4, <1>5, <1>8, Composition
<1>10. Composed(g, h, s) = RankedBy(P, B)
    <2>. HIDE DEF P
    <2>. QED
        BY <1>7, <1>8, <1>9, OneEnumeration
<1>11. h \in [1..Cardinality(s) -> s]
    BY <1>4 DEF Enumerates
<1>. QED
    BY <1>7, <1>8, <1>10, <1>11 DEF Composed

(* Chosen leaves the rows of the chosen indices, in the order they were    *)
(* in.                                                                     *)
LEMMA ChosenLists ==
    ASSUME NEW T, IsFiniteSet(T), NEW B, StrictOrder(T, B), NEW R, NEW rows, Lists(rows, R, T, B),
           NEW C, C \subseteq T,
           NEW s, \A r : r \in s <=> r \in 1..Cardinality(T) /\ RankedBy(T, B)[r] \in C
    PROVE  Lists(Chosen(rows, s), R, C, B) /\ IsFiniteSet(C) /\ StrictOrder(C, B)
<1>. DEFINE c == Cardinality(T)
            g == RankedBy(T, B)
<1>1. Enumerates(g, T, B)
    BY RanksEnumerate
<1>2. s \in SUBSET (1..c) /\ s \subseteq Nat
    <2>1. c \in Nat
        BY FS_CardinalityType
    <2>. QED
        BY <2>1
<1>3. Picked(g, s) = C
    <2>1. \A i \in C : \E r \in s : g[r] = i
        BY <1>1 DEF Enumerates
    <2>. QED
        BY <2>1 DEF Picked
<1>4. PICK h : h = RankedBy(s, Ascending)
    OBVIOUS
<1>5. /\ h \in [1..Cardinality(s) -> s]
      /\ IsFiniteSet(Picked(g, s)) /\ Cardinality(Picked(g, s)) = Cardinality(s)
      /\ StrictOrder(Picked(g, s), B)
      /\ \A x \in 1..Cardinality(s) : g[h[x]] = RankedBy(Picked(g, s), B)[x]
    <2>. HIDE DEF g
    <2>. QED
        BY <1>1, <1>2, <1>4, PlacesInOrder
<1>6. /\ IsFiniteSet(C) /\ Cardinality(C) = Cardinality(s) /\ StrictOrder(C, B)
      /\ \A x \in 1..Cardinality(s) : g[h[x]] = RankedBy(C, B)[x]
    <2>. HIDE DEF g
    <2>. QED
        BY <1>3, <1>5
<1>7. Chosen(rows, s) = [x \in 1..Cardinality(s) |-> rows[h[x]]]
    <2>1. Chosen(rows, s) = [x \in DOMAIN h |-> rows[h[x]]]
        <3>1. Ranked(s, <) = h
            BY <1>2, <1>4, LessIsStrict, Zenon
        <3>. QED
            BY <3>1, Zenon DEF Chosen
    <2>2. DOMAIN h = 1..Cardinality(s)
        BY <1>5
    <2>. QED
        BY <2>1, <2>2
<1>8. \A x \in 1..Cardinality(s) : rows[h[x]] = R[RankedBy(C, B)[x]]
    <2>1. \A r \in 1..c : rows[r] = R[g[r]]
        BY DEF Lists
    <2>2. \A x \in 1..Cardinality(s) : h[x] \in 1..c
        BY <1>2, <1>5
    <2>. HIDE DEF g
    <2>. QED
        BY <1>6, <2>1, <2>2
<1>9. Chosen(rows, s) = [x \in 1..Cardinality(C) |-> R[RankedBy(C, B)[x]]]
    BY <1>6, <1>7, <1>8
<1>. QED
    BY <1>6, <1>9 DEF Lists

(* The elements of T whose row meets the filter f. *)
Meet(R, T, f) == {i \in T : Compare(Value(R[i], f.at), f.op, f.value)}

(* So does a filter.                                                       *)
LEMMA FilterLists ==
    ASSUME NEW T, IsFiniteSet(T), NEW B, StrictOrder(T, B), NEW R, NEW rows, Lists(rows, R, T, B),
           NEW f
    PROVE  /\ Lists(Filter(rows, f), R, Meet(R, T, f), B)
           /\ IsFiniteSet(Meet(R, T, f))
           /\ StrictOrder(Meet(R, T, f), B)
<1>. DEFINE c == Cardinality(T)
            g == RankedBy(T, B)
            s == {r \in DOMAIN rows : Compare(Value(rows[r], f.at), f.op, f.value)}
<1>1. g \in [1..c -> T]
    BY RanksEnumerate DEF Enumerates
<1>2. DOMAIN rows = 1..c /\ \A r \in 1..c : rows[r] = R[g[r]]
    BY DEF Lists
<1>3. s = {r \in 1..c : g[r] \in Meet(R, T, f)}
    <2>1. \A r \in 1..c : g[r] \in Meet(R, T, f) <=> Compare(Value(rows[r], f.at), f.op, f.value)
        BY <1>1, <1>2 DEF Meet
    <2>. HIDE DEF g
    <2>. QED
        BY <1>2, <2>1
<1>4. Meet(R, T, f) \subseteq T
    BY DEF Meet
<1>5. Filter(rows, f) = Chosen(rows, s)
    BY DEF Filter
<1>. HIDE DEF s
<1>. QED
    BY <1>3, <1>4, <1>5, ChosenLists

(* The key of a row when it is sorted: a text, or the reverse.             *)
TextKey(row, o) == IF o.desc THEN -Text(Value(row, o.at)) ELSE Text(Value(row, o.at))

(* The order of T by the keys of its rows, and by B where they are equal. *)
ByKey(R, T, o, B) ==
    {p \in T \X T : \/ TextKey(R[p[1]], o) < TextKey(R[p[2]], o)
                    \/ TextKey(R[p[1]], o) = TextKey(R[p[2]], o) /\ p \in B}

(* An order by keys that falls back on a strict order is strict.           *)
LEMMA ByKeyIsStrict ==
    ASSUME NEW T, NEW B, StrictOrder(T, B), NEW R, NEW o, \A i \in T : TextKey(R[i], o) \in Int
    PROVE  StrictOrder(T, ByKey(R, T, o, B))
<1>1. \A i, j \in T : <<i, j>> \in ByKey(R, T, o, B) <=>
          \/ TextKey(R[i], o) < TextKey(R[j], o)
          \/ TextKey(R[i], o) = TextKey(R[j], o) /\ <<i, j>> \in B
    BY DEF ByKey
<1>2. ASSUME NEW i \in T
      PROVE  <<i, i>> \notin ByKey(R, T, o, B)
    <2>1. PICK a \in Int : a = TextKey(R[i], o)
        OBVIOUS
    <2>2. <<i, i>> \notin B
        BY DEF StrictOrder
    <2>. QED
        BY <1>1, <2>1, <2>2
<1>3. ASSUME NEW i \in T, NEW j \in T, NEW k \in T,
             <<i, j>> \in ByKey(R, T, o, B), <<j, k>> \in ByKey(R, T, o, B)
      PROVE  <<i, k>> \in ByKey(R, T, o, B)
    <2>1. TextKey(R[i], o) \in Int /\ TextKey(R[j], o) \in Int /\ TextKey(R[k], o) \in Int
        OBVIOUS
    <2>2. <<i, j>> \in B /\ <<j, k>> \in B => <<i, k>> \in B
        BY DEF StrictOrder
    <2>3. PICK a \in Int, b \in Int, d \in Int : a = TextKey(R[i], o) /\ b = TextKey(R[j], o) /\ d = TextKey(R[k], o)
        BY <2>1
    <2>. QED
        BY <1>1, <1>3, <2>2, <2>3
<1>4. ASSUME NEW i \in T, NEW j \in T
      PROVE  i = j \/ <<i, j>> \in ByKey(R, T, o, B) \/ <<j, i>> \in ByKey(R, T, o, B)
    <2>1. PICK a \in Int, b \in Int : a = TextKey(R[i], o) /\ b = TextKey(R[j], o)
        OBVIOUS
    <2>2. i = j \/ <<i, j>> \in B \/ <<j, i>> \in B
        BY DEF StrictOrder
    <2>. QED
        BY <1>1, <2>1, <2>2
<1>. QED
    BY <1>2, <1>3, <1>4 DEF StrictOrder

(* Sort puts the places in the order of the keys, and of the places where  *)
(* the keys are equal.                                                     *)
LEMMA SortIsRanked ==
    ASSUME NEW n \in Nat, NEW rows, DOMAIN rows = 1..n, NEW o, o.desc \in BOOLEAN,
           \A i \in 1..n : Text(Value(rows[i], o.at)) \in Int
    PROVE  Sort(rows, o) = [r \in 1..n |-> rows[RankedBy(1..n, ByKey(rows, 1..n, o, Ascending))[r]]]
<1>. DEFINE S == 1..n
            D == ByKey(rows, S, o, Ascending)
            text(i) == Text(Value(rows[i], o.at))
            before(i, j) == \/ IF o.desc THEN text(i) > text(j) ELSE text(i) < text(j)
                            \/ text(i) = text(j) /\ i < j
            a(r) == CHOOSE i \in S : Cardinality({j \in S : before(j, i)}) = r - 1
            b(r) == CHOOSE i \in S : Cardinality({j \in S : <<j, i>> \in D}) = r - 1
<1>1. ASSUME NEW i \in S, NEW j \in S
      PROVE  <<i, j>> \in D <=> before(i, j)
    <2>1. PICK x \in Int, y \in Int : x = text(i) /\ y = text(j)
        OBVIOUS
    <2>2. <<i, j>> \in Ascending <=> i < j
        BY DEF Ascending
    <2>3. <<i, j>> \in D <=> \/ TextKey(rows[i], o) < TextKey(rows[j], o)
                             \/ TextKey(rows[i], o) = TextKey(rows[j], o) /\ <<i, j>> \in Ascending
        BY DEF ByKey
    <2>4. TextKey(rows[i], o) = (IF o.desc THEN - x ELSE x) /\ TextKey(rows[j], o) = (IF o.desc THEN - y ELSE y)
        BY <2>1 DEF TextKey
    <2>5. before(i, j) <=> \/ IF o.desc THEN x > y ELSE x < y
                           \/ x = y /\ i < j
        BY <2>1
    <2>. HIDE DEF before, D
    <2>6. CASE o.desc
        BY <2>2, <2>3, <2>4, <2>5, <2>6
    <2>7. CASE ~ o.desc
        BY <2>2, <2>3, <2>4, <2>5, <2>7
    <2>. QED
        BY <2>6, <2>7
<1>2. \A r \in S : a(r) = b(r)
    <2>. HIDE DEF before, D, S
    <2>1. \A i \in S : {j \in S : before(j, i)} = {j \in S : <<j, i>> \in D}
        BY <1>1
    <2>2. \A i \in S : Cardinality({j \in S : before(j, i)}) = Cardinality({j \in S : <<j, i>> \in D})
        BY <2>1, Zenon
    <2>. SUFFICES ASSUME NEW r \in S PROVE a(r) = b(r)
        OBVIOUS
    <2>3. \A i : (i \in S /\ Cardinality({j \in S : before(j, i)}) = r - 1)
                     <=> (i \in S /\ Cardinality({j \in S : <<j, i>> \in D}) = r - 1)
        BY <2>2
    <2>. QED
        BY <2>3
<1>3. Cardinality(S) = n
    BY FS_Interval
<1>4. Ranked(S, before) = [r \in 1..Cardinality(S) |-> a(r)]
    BY DEF Ranked
<1>5. RankedBy(S, D) = [r \in 1..Cardinality(S) |-> b(r)]
    BY DEF RankedBy
<1>6. \A r \in S : Ranked(S, before)[r] = RankedBy(S, D)[r]
    <2>. HIDE DEF a, b, before, D
    <2>. QED
        BY <1>2, <1>3, <1>4, <1>5
<1>7. Sort(rows, o) = [r \in DOMAIN rows |-> rows[Ranked(DOMAIN rows, before)[r]]]
    BY DEF Sort
<1>8. Sort(rows, o) = [r \in S |-> rows[Ranked(S, before)[r]]]
    <2>. HIDE DEF before
    <2>. QED
        BY <1>7
<1>. HIDE DEF before, D
<1>9. Sort(rows, o) = [r \in S |-> rows[RankedBy(S, D)[r]]]
    BY <1>6, <1>8
<1>. QED
    BY <1>9 DEF D

(* A sort is stable: rows that were in the order B are then in the order of*)
(* the keys, and of B where these are equal.                               *)
LEMMA SortLists ==
    ASSUME NEW T, IsFiniteSet(T), NEW B, StrictOrder(T, B), NEW R, NEW rows, Lists(rows, R, T, B),
           NEW o, o.desc \in BOOLEAN, \A i \in T : Text(Value(R[i], o.at)) \in Int
    PROVE  Lists(Sort(rows, o), R, T, ByKey(R, T, o, B)) /\ StrictOrder(T, ByKey(R, T, o, B))
<1>. DEFINE c == Cardinality(T)
            S == 1..c
            g == RankedBy(T, B)
            D == ByKey(rows, S, o, Ascending)
            E == ByKey(R, T, o, B)
            h == RankedBy(S, D)
            f == Composed(g, h, S)
<1>1. Enumerates(g, T, B) /\ c \in Nat
    BY RanksEnumerate, FS_CardinalityType
<1>2. IsFiniteSet(S) /\ Cardinality(S) = c /\ S \subseteq Nat
    <2>1. c \in Nat
        BY <1>1
    <2>. HIDE DEF c
    <2>. QED
        BY <2>1, FS_Interval
<1>3. DOMAIN rows = S /\ \A r \in S : rows[r] = R[g[r]] /\ g[r] \in T
    BY <1>1 DEF Lists, Enumerates
<1>4. \A i \in T : TextKey(R[i], o) \in Int
    BY DEF TextKey
<1>5. \A r \in S : Text(Value(rows[r], o.at)) \in Int /\ TextKey(rows[r], o) \in Int
    BY <1>3, <1>4
<1>6. StrictOrder(T, E)
    BY <1>4, ByKeyIsStrict
<1>7. StrictOrder(S, D)
    BY <1>2, <1>5, LessIsStrict, ByKeyIsStrict
<1>8. Enumerates(h, S, D)
    BY <1>2, <1>7, RanksEnumerate
<1>9. ASSUME NEW r \in S, NEW t \in S, <<r, t>> \in D
      PROVE  <<g[r], g[t]>> \in E
    <2>1. \/ TextKey(rows[r], o) < TextKey(rows[t], o)
          \/ TextKey(rows[r], o) = TextKey(rows[t], o) /\ <<r, t>> \in Ascending
        BY <1>9 DEF ByKey
    <2>2. <<r, t>> \in Ascending => <<g[r], g[t]>> \in B
        BY <1>1 DEF Ascending, Enumerates
    <2>. QED
        BY <1>3, <2>1, <2>2 DEF ByKey
<1>10. Picked(g, S) = T
    BY <1>1 DEF Picked, Enumerates
<1>11. Enumerates(f, T, E)
    <2>1. Cardinality(Picked(g, S)) = Cardinality(S)
        BY <1>2, <1>10
    <2>. HIDE DEF S, g, h, D, E
    <2>2. Carries(g, S, D, E)
        BY <1>9 DEF Carries
    <2>3. Enumerates(Composed(g, h, S), Picked(g, S), E)
        BY <1>8, <2>1, <2>2, Composition
    <2>. QED
        BY <1>10, <2>3
<1>12. f = RankedBy(T, E)
    <2>. HIDE DEF f, E
    <2>. QED
        BY <1>6, <1>11, OneEnumeration
<1>13. Sort(rows, o) = [x \in S |-> rows[h[x]]]
    BY <1>1, <1>3, <1>5, SortIsRanked
<1>14. \A x \in S : h[x] \in S
    BY <1>2, <1>8 DEF Enumerates
<1>15. \A x \in S : rows[h[x]] = R[f[x]]
    <2>. HIDE DEF g, h
    <2>. QED
        BY <1>2, <1>3, <1>14 DEF Composed
<1>16. Sort(rows, o) = [x \in S |-> R[RankedBy(T, E)[x]]]
    <2>. HIDE DEF f, h, E
    <2>. QED
        BY <1>12, <1>13, <1>15
<1>. QED
    BY <1>6, <1>16 DEF Lists

(* What a transaction of one operation leaves: the recursive function      *)
(* pending is unfolded, as its domain is known.                            *)
LEMMA TransactionOfOne ==
    ASSUME NEW o, Transaction(<<o>>)
    PROVE  store' = Apply(store, o)
<1>. DEFINE one == [n \in 0..1 |-> IF n = 0 THEN store ELSE Apply(store, o)]
            pending == CHOOSE f : f = [n \in 0..1 |-> IF n = 0 THEN store ELSE Apply(f[n - 1], <<o>>[n])]
<1>1. one = [n \in 0..1 |-> IF n = 0 THEN store ELSE Apply(one[n - 1], <<o>>[n])]
    <2>1. one[0] = store
        OBVIOUS
    <2>2. \A n \in 0..1 : one[n] = IF n = 0 THEN store ELSE Apply(one[n - 1], <<o>>[n])
        BY <2>1
    <2>. QED
        BY <2>2
<1>2. pending = [n \in 0..1 |-> IF n = 0 THEN store ELSE Apply(pending[n - 1], <<o>>[n])]
    <2>. HIDE DEF one
    <2>. QED
        BY <1>1
<1>3. Len(<<o>>) = 1
    OBVIOUS
<1>4. store' = pending[1]
    BY <1>3, Zenon DEF Transaction
<1>. HIDE DEF pending
<1>5. pending[0] = store
    BY <1>2
<1>6. pending[1] = Apply(pending[0], o)
    BY <1>2
<1>. QED
    BY <1>4, <1>5, <1>6

(* What a transaction of two operations leaves.                            *)
LEMMA TransactionOfTwo ==
    ASSUME NEW o, NEW p, Transaction(<<o, p>>)
    PROVE  store' = Apply(Apply(store, o), p)
<1>. DEFINE two == [n \in 0..2 |-> IF n = 0 THEN store ELSE IF n = 1 THEN Apply(store, o)
                                                             ELSE Apply(Apply(store, o), p)]
            pending == CHOOSE f : f = [n \in 0..2 |-> IF n = 0 THEN store ELSE Apply(f[n - 1], <<o, p>>[n])]
<1>1. two = [n \in 0..2 |-> IF n = 0 THEN store ELSE Apply(two[n - 1], <<o, p>>[n])]
    <2>1. two[0] = store /\ two[1] = Apply(store, o)
        OBVIOUS
    <2>2. \A n \in 0..2 : two[n] = IF n = 0 THEN store ELSE Apply(two[n - 1], <<o, p>>[n])
        BY <2>1
    <2>. QED
        BY <2>2
<1>2. pending = [n \in 0..2 |-> IF n = 0 THEN store ELSE Apply(pending[n - 1], <<o, p>>[n])]
    <2>. HIDE DEF two
    <2>. QED
        BY <1>1
<1>3. Len(<<o, p>>) = 2
    OBVIOUS
<1>4. store' = pending[2]
    BY <1>3, Zenon DEF Transaction
<1>. HIDE DEF pending
<1>5. pending[0] = store
    BY <1>2
<1>6. pending[1] = Apply(pending[0], o) /\ pending[2] = Apply(pending[1], p)
    BY <1>2
<1>. QED
    BY <1>4, <1>5, <1>6

(* No filter, and one.                                                     *)
LEMMA FilterAllCases ==
    ASSUME NEW rows
    PROVE  FilterAll(rows, <<>>) = rows /\ \A f : FilterAll(rows, <<f>>) = Filter(rows, f)
<1>1. FilterAll(rows, <<>>) = rows
    <2>. DEFINE none == [n \in 0..0 |-> rows]
                after == CHOOSE g : g = [n \in 0..0 |-> IF n = 0 THEN rows ELSE Filter(g[n - 1], <<>>[n])]
    <2>1. none = [n \in 0..0 |-> IF n = 0 THEN rows ELSE Filter(none[n - 1], <<>>[n])]
        OBVIOUS
    <2>2. after = [n \in 0..0 |-> IF n = 0 THEN rows ELSE Filter(after[n - 1], <<>>[n])]
        <3>. HIDE DEF none
        <3>. QED
            BY <2>1
    <2>3. Len(<<>>) = 0
        OBVIOUS
    <2>4. FilterAll(rows, <<>>) = after[0]
        BY <2>3, Zenon DEF FilterAll
    <2>. HIDE DEF after
    <2>. QED
        BY <2>2, <2>4
<1>2. ASSUME NEW f
      PROVE  FilterAll(rows, <<f>>) = Filter(rows, f)
    <2>. DEFINE one == [n \in 0..1 |-> IF n = 0 THEN rows ELSE Filter(rows, f)]
                after == CHOOSE g : g = [n \in 0..1 |-> IF n = 0 THEN rows ELSE Filter(g[n - 1], <<f>>[n])]
    <2>1. one = [n \in 0..1 |-> IF n = 0 THEN rows ELSE Filter(one[n - 1], <<f>>[n])]
        <3>1. one[0] = rows
            OBVIOUS
        <3>2. \A n \in 0..1 : one[n] = IF n = 0 THEN rows ELSE Filter(one[n - 1], <<f>>[n])
            BY <3>1
        <3>. QED
            BY <3>2
    <2>2. after = [n \in 0..1 |-> IF n = 0 THEN rows ELSE Filter(after[n - 1], <<f>>[n])]
        <3>. HIDE DEF one
        <3>. QED
            BY <2>1
    <2>3. Len(<<f>>) = 1
        OBVIOUS
    <2>4. FilterAll(rows, <<f>>) = after[1]
        BY <2>3, Zenon DEF FilterAll
    <2>. HIDE DEF after
    <2>5. after[0] = rows /\ after[1] = Filter(after[0], f)
        BY <2>2
    <2>. QED
        BY <2>4, <2>5
<1>. QED
    BY <1>1, <1>2

(* No order, and two: the last is applied first.                           *)
LEMMA SortAllCases ==
    ASSUME NEW rows
    PROVE  /\ SortAll(rows, <<>>) = rows
           /\ \A o, p : SortAll(rows, <<o, p>>) = Sort(Sort(rows, p), o)
<1>1. SortAll(rows, <<>>) = rows
    <2>. DEFINE none == [n \in 1..0 + 1 |-> rows]
                from == CHOOSE g : g = [n \in 1..0 + 1 |-> IF n > 0 THEN rows ELSE Sort(g[n + 1], <<>>[n])]
    <2>1. none = [n \in 1..0 + 1 |-> IF n > 0 THEN rows ELSE Sort(none[n + 1], <<>>[n])]
        OBVIOUS
    <2>2. from = [n \in 1..0 + 1 |-> IF n > 0 THEN rows ELSE Sort(from[n + 1], <<>>[n])]
        <3>. HIDE DEF none
        <3>. QED
            BY <2>1
    <2>3. Len(<<>>) = 0
        OBVIOUS
    <2>4. SortAll(rows, <<>>) = from[1]
        BY <2>3, Zenon DEF SortAll
    <2>. HIDE DEF from
    <2>. QED
        BY <2>2, <2>4
<1>2. ASSUME NEW o, NEW p
      PROVE  SortAll(rows, <<o, p>>) = Sort(Sort(rows, p), o)
    <2>. DEFINE two == [n \in 1..2 + 1 |-> IF n = 3 THEN rows ELSE IF n = 2 THEN Sort(rows, p)
                                                                   ELSE Sort(Sort(rows, p), o)]
                from == CHOOSE g : g = [n \in 1..2 + 1 |-> IF n > 2 THEN rows ELSE Sort(g[n + 1], <<o, p>>[n])]
    <2>1. two = [n \in 1..2 + 1 |-> IF n > 2 THEN rows ELSE Sort(two[n + 1], <<o, p>>[n])]
        <3>1. two[3] = rows /\ two[2] = Sort(rows, p)
            OBVIOUS
        <3>2. \A n \in 1..2 + 1 : two[n] = IF n > 2 THEN rows ELSE Sort(two[n + 1], <<o, p>>[n])
            BY <3>1
        <3>. QED
            BY <3>2
    <2>2. from = [n \in 1..2 + 1 |-> IF n > 2 THEN rows ELSE Sort(from[n + 1], <<o, p>>[n])]
        <3>. HIDE DEF two
        <3>. QED
            BY <2>1
    <2>3. Len(<<o, p>>) = 2
        OBVIOUS
    <2>4. SortAll(rows, <<o, p>>) = from[1]
        BY <2>3, Zenon DEF SortAll
    <2>. HIDE DEF from
    <2>5. from[3] = rows /\ from[2] = Sort(from[3], p) /\ from[1] = Sort(from[2], o)
        BY <2>2
    <2>. QED
        BY <2>4, <2>5
<1>. QED
    BY <1>1, <1>2

-----------------------------------------------------------------------------
(* What is stored: records, in sequences.                                  *)
Strings == [type : {"String"}, digits : Nat]
NumberValues == [type : {"Number"}, digits : Nat]
Record == [id : Strings, k : {Null} \cup Strings, n : NumberValues]
StoreType == store \in [Collections -> Seq(Record)]

(* Chosen gives a sequence.                                                *)
LEMMA ChosenType ==
    ASSUME NEW X, NEW rows \in Seq(X), NEW s, s \subseteq DOMAIN rows
    PROVE  Chosen(rows, s) \in Seq(X)
<1>1. Len(rows) \in Nat /\ DOMAIN rows = 1..Len(rows) /\ \A i \in 1..Len(rows) : rows[i] \in X
    OBVIOUS
<1>2. s \subseteq Nat /\ IsFiniteSet(s) /\ Cardinality(s) \in Nat
    <2>1. IsFiniteSet(1..Len(rows)) /\ 1..Len(rows) \subseteq Nat
        BY <1>1, FS_Interval
    <2>2. s \in SUBSET (1..Len(rows))
        BY <1>1
    <2>. QED
        BY <2>1, <2>2, FS_Subset, FS_CardinalityType
<1>3. Ranked(s, <) = RankedBy(s, Ascending) /\ StrictOrder(s, Ascending)
    BY <1>2, LessIsStrict
<1>4. RankedBy(s, Ascending) \in [1..Cardinality(s) -> s]
    BY <1>2, <1>3, RanksEnumerate DEF Enumerates
<1>5. PICK at : at = RankedBy(s, Ascending)
    OBVIOUS
<1>6. Chosen(rows, s) = [r \in DOMAIN at |-> rows[at[r]]]
    BY <1>3, <1>5 DEF Chosen
<1>7. Chosen(rows, s) = [r \in 1..Cardinality(s) |-> rows[at[r]]]
    BY <1>4, <1>5, <1>6
<1>8. \A r \in 1..Cardinality(s) : rows[at[r]] \in X
    BY <1>1, <1>4, <1>5
<1>. QED
    BY <1>2, <1>7, <1>8, SeqDef

(* An operation leaves sequences of records.                               *)
LEMMA ApplyType ==
    ASSUME NEW s \in [Collections -> Seq(Record)], NEW o \in Operations
    PROVE  Apply(s, o) \in [Collections -> Seq(Record)]
<1>1. o.on \in Collections
    BY DEF Operations
<1>2. Numbers \subseteq Nat
    BY RowAssumption
<1>3. o.on \in Collections /\ s[o.on] \in Seq(Record)
    BY <1>1
<1>4. CASE o.op = "insert"
    <2>1. o.k \in {Null} \cup Strings /\ Number(o.n) \in NumberValues
        <3>1. o.n \in Numbers
            BY <1>4 DEF Operations
        <3>2. \E c \in Collections : o.k \in References(c)
            BY <1>4 DEF Operations
        <3>3. \A c \in Collections : References(c) \subseteq {Null} \cup Strings
            BY RowAssumption DEF References, String, Strings
        <3>. QED
            BY <1>2, <3>1, <3>2, <3>3 DEF Number, NumberValues
    <2>2. WithId(s[o.on], o) \in Record
        <3>1. String(Len(s[o.on]) + 1) \in Strings
            BY <1>3 DEF String, Strings
        <3>. QED
            BY <2>1, <3>1 DEF WithId, Record
    <2>3. Append(s[o.on], WithId(s[o.on], o)) \in Seq(Record)
        BY <1>3, <2>2
    <2>4. Apply(s, o) = [s EXCEPT ![o.on] = Append(s[o.on], WithId(s[o.on], o))]
        BY <1>4 DEF Apply
    <2>. QED
        BY <2>3, <2>4
<1>5. CASE o.op = "update"
    <2>. DEFINE rows == s[o.on]
                new == [i \in DOMAIN rows |-> IF Matches(rows[i], o.filter) THEN [rows[i] EXCEPT !.n = Number(o.n)]
                                                                         ELSE rows[i]]
    <2>1. Number(o.n) \in NumberValues
        <3>1. o.n \in Numbers
            BY <1>5 DEF Operations
        <3>. QED
            BY <1>2, <3>1 DEF Number, NumberValues
    <2>2. \A r \in Record : [r EXCEPT !.n = Number(o.n)] \in Record
        BY <2>1 DEF Record
    <2>3. Len(rows) \in Nat /\ DOMAIN rows = 1..Len(rows) /\ \A i \in 1..Len(rows) : rows[i] \in Record
        BY <1>3
    <2>4. new \in Seq(Record)
        BY <2>2, <2>3, SeqDef
    <2>5. Apply(s, o) = [s EXCEPT ![o.on] = new]
        BY <1>5 DEF Apply
    <2>. HIDE DEF new
    <2>. QED
        BY <2>4, <2>5
<1>6. CASE o.op = "delete"
    <2>. DEFINE new == Chosen(s[o.on], {i \in DOMAIN s[o.on] : ~Matches(s[o.on][i], o.filter)})
    <2>1. new \in Seq(Record)
        BY <1>3, ChosenType
    <2>2. Apply(s, o) = [s EXCEPT ![o.on] = new]
        BY <1>6 DEF Apply
    <2>. HIDE DEF new
    <2>. QED
        BY <2>1, <2>2
<1>. QED
    BY <1>4, <1>5, <1>6 DEF Operations

(* The invariant: the store holds sequences of records, whose ids are      *)
(* strings, whose references are null or strings and whose fields are      *)
(* numbers (the mutations of apply_preview_transaction_operation).         *)
THEOREM StoreTypeCorrect == StoreSpec => []StoreType
<1>1. StoreInit => StoreType
    BY DEF StoreInit, StoreType
<1>2. StoreType /\ [StoreNext]_store => StoreType'
    <2>. SUFFICES ASSUME StoreType, [StoreNext]_store PROVE StoreType'
        OBVIOUS
    <2>1. CASE UNCHANGED store
        BY <2>1 DEF StoreType
    <2>2. ASSUME NEW o \in Operations, Transaction(<<o>>) PROVE StoreType'
        BY <2>2, TransactionOfOne, ApplyType DEF StoreType
    <2>3. ASSUME NEW k \in References("posts"), NEW n \in Numbers,
                 Transaction(<<[op |-> "insert", on |-> "users", k |-> Null, n |-> n],
                               [op |-> "insert", on |-> "posts", k |-> k, n |-> n]>>)
          PROVE  StoreType'
        <3>. DEFINE o == [op |-> "insert", on |-> "users", k |-> Null, n |-> n]
                    p == [op |-> "insert", on |-> "posts", k |-> k, n |-> n]
        <3>1. o \in Operations /\ p \in Operations
            <4>1. o \in [op : {"insert"}, on : {"users"}, k : References("users"), n : Numbers]
                BY DEF References
            <4>2. p \in [op : {"insert"}, on : {"posts"}, k : References("posts"), n : Numbers]
                OBVIOUS
            <4>. HIDE DEF o, p
            <4>. QED
                BY <4>1, <4>2 DEF Operations, Collections
        <3>. HIDE DEF o, p
        <3>2. store' = Apply(Apply(store, o), p)
            BY <2>3, TransactionOfTwo DEF o, p
        <3>. QED
            BY <3>1, <3>2, ApplyType DEF StoreType
    <2>. QED
        BY <2>1, <2>2, <2>3 DEF StoreNext
<1>. QED
    BY <1>1, <1>2, PTL DEF StoreSpec

(* A collection is a sequence of records.                                  *)
LEMMA StoreFacts ==
    ASSUME StoreType, NEW c \in Collections
    PROVE  /\ Len(store[c]) \in Nat
           /\ DOMAIN store[c] = 1..Len(store[c])
           /\ \A i \in 1..Len(store[c]) : store[c][i] \in Record
<1>1. store[c] \in Seq(Record)
    BY DEF StoreType
<1>. QED
    BY <1>1

(* The numbers up to n in ascending order are each in their own place,     *)
LEMMA InOrder ==
    ASSUME NEW n \in Nat
    PROVE  /\ IsFiniteSet(1..n) /\ Cardinality(1..n) = n
           /\ StrictOrder(1..n, Ascending)
           /\ \A i \in 1..n : RankedBy(1..n, Ascending)[i] = i
<1>. DEFINE f == [i \in 1..n |-> i]
<1>1. IsFiniteSet(1..n) /\ Cardinality(1..n) = n /\ 1..n \subseteq Nat
    BY FS_Interval
<1>2. StrictOrder(1..n, Ascending)
    BY <1>1, LessIsStrict
<1>3. Enumerates(f, 1..n, Ascending)
    BY <1>1 DEF Enumerates, Ascending
<1>4. f = RankedBy(1..n, Ascending)
    <2>. HIDE DEF f
    <2>. QED
        BY <1>1, <1>2, <1>3, OneEnumeration
<1>. QED
    BY <1>1, <1>2, <1>4

(* so a sequence of rows lists all its indices.                            *)
LEMMA WholeLists ==
    ASSUME NEW n \in Nat, NEW rows, NEW R, rows = [i \in 1..n |-> R[i]]
    PROVE  Lists(rows, R, 1..n, Ascending)
BY InOrder DEF Lists

(* The row that a query means by each post, and the posts that a join      *)
(* keeps.                                                                  *)
RowsMeant(join) == [i \in DOMAIN store["posts"] |-> RowOf(join, i)]
Found(join) == {i \in DOMAIN store["posts"] : join => WithUser(i) # {}}

(* Before the join every post is listed.                                   *)
LEMMA RowsLists ==
    ASSUME StoreType
    PROVE  /\ Lists(Rows, RowsMeant(FALSE), Found(FALSE), Ascending)
           /\ Lists(Rows, Rows, DOMAIN store["posts"], Ascending)
<1>1. Len(store["posts"]) \in Nat /\ DOMAIN store["posts"] = 1..Len(store["posts"])
    BY StoreFacts DEF Collections
<1>2. Found(FALSE) = DOMAIN store["posts"]
    BY DEF Found
<1>3. RowsMeant(FALSE) = Rows
    BY DEF RowsMeant, Rows, RowOf
<1>4. Rows = [i \in 1..Len(store["posts"]) |-> Rows[i]]
    BY <1>1 DEF Rows
<1>5. Lists(Rows, Rows, 1..Len(store["posts"]), Ascending)
    BY <1>1, <1>4, WholeLists
<1>. QED
    BY <1>1, <1>2, <1>3, <1>5

(* The users a row of the join matches: at most one if the ids differ.     *)
Matched(row) == {u \in DOMAIN store["users"] : row.posts.k # Null /\ store["users"][u].id = row.posts.k}
First(row) == CHOOSE u \in Matched(row) : \A v \in Matched(row) : u <= v

(* If the ids of the users differ, the first user that matches is the one  *)
(* the query means, and a null reference matches none.                     *)
LEMMA MatchedUser ==
    ASSUME StoreType, IdsDiffer("users"), NEW i \in DOMAIN store["posts"]
    PROVE  /\ Matched(Rows[i]) # {} <=> WithUser(i) # {}
           /\ WithUser(i) # {} => [Rows[i] EXCEPT !.users = store["users"][First(Rows[i])]] = RowOf(TRUE, i)
<1>. DEFINE users == store["users"]
            k == store["posts"][i].k
<1>1. Rows[i] = [posts |-> store["posts"][i], users |-> Null] /\ Rows[i].posts.k = k
    BY DEF Rows
<1>2. DOMAIN users = 1..Len(users) /\ Len(users) \in Nat /\ \A u \in DOMAIN users : users[u] \in Record
    BY StoreFacts DEF Collections
<1>3. \A u \in DOMAIN users : users[u].id # Null
    <2>1. \A u \in DOMAIN users : users[u].id \in Values
        BY <1>2 DEF Record, Strings, Values
    <2>. QED
        BY <2>1, RowAssumption
<1>4. WithUser(i) = {u \in ToSet(users) : u.id = k}
    BY DEF WithUser
<1>5. ToSet(users) = {users[u] : u \in DOMAIN users}
    BY DEF ToSet
<1>6. Matched(Rows[i]) = {u \in DOMAIN users : users[u].id = k}
    BY <1>1, <1>3 DEF Matched
<1>. HIDE DEF users, k
<1>7. Matched(Rows[i]) # {} <=> WithUser(i) # {}
    BY <1>4, <1>5, <1>6
<1>8. ASSUME WithUser(i) # {}
      PROVE  [Rows[i] EXCEPT !.users = store["users"][First(Rows[i])]] = RowOf(TRUE, i)
    <2>1. PICK u \in DOMAIN users : users[u].id = k
        BY <1>6, <1>7, <1>8
    <2>2. \A v \in DOMAIN users : users[v].id = k => v = u
        BY <2>1 DEF IdsDiffer, users
    <2>3. Matched(Rows[i]) = {u}
        BY <1>6, <2>1, <2>2
    <2>4. WithUser(i) = {users[u]}
        BY <1>4, <1>5, <2>1, <2>2
    <2>5. First(Rows[i]) = u
        <3>1. u \in Nat
            BY <1>2
        <3>. QED
            BY <2>3, <3>1 DEF First
    <2>6. (CHOOSE w \in WithUser(i) : TRUE) = users[u]
        BY <2>4
    <2>7. RowOf(TRUE, i) = [posts |-> store["posts"][i], users |-> CHOOSE w \in WithUser(i) : TRUE]
        BY DEF RowOf
    <2>8. \A x, y, z : [[posts |-> x, users |-> y] EXCEPT !.users = z] = [posts |-> x, users |-> z]
        OBVIOUS
    <2>9. [Rows[i] EXCEPT !.users = users[u]] = [posts |-> store["posts"][i], users |-> users[u]]
        BY <1>1, <2>8
    <2>10. store["users"][First(Rows[i])] = users[u]
        BY <2>5 DEF users
    <2>. QED
        BY <2>6, <2>7, <2>9, <2>10
<1>. QED
    BY <1>7, <1>8

(* So a join lists the posts that have a user, each with it.               *)
LEMMA JoinLists ==
    ASSUME StoreType, IdsDiffer("users")
    PROVE  Lists(Join(Rows), RowsMeant(TRUE), Found(TRUE), Ascending)
<1>. DEFINE P == DOMAIN store["posts"]
            C == Found(TRUE)
            n == Len(store["posts"])
            s == {i \in DOMAIN Rows : Matched(Rows[i]) # {}}
            g == RankedBy(C, Ascending)
            kept == Chosen(Rows, s)
<1>1. n \in Nat /\ P = 1..n /\ DOMAIN Rows = P
    BY StoreFacts DEF Collections, Rows
<1>2. IsFiniteSet(P) /\ Cardinality(P) = n /\ StrictOrder(P, Ascending) /\ \A i \in P : RankedBy(P, Ascending)[i] = i
    BY <1>1, InOrder
<1>3. C \subseteq P /\ \A i : i \in s <=> i \in 1..Cardinality(P) /\ RankedBy(P, Ascending)[i] \in C
    <2>1. \A i \in P : i \in s <=> i \in C
        BY <1>1, MatchedUser DEF Found
    <2>2. s \subseteq P
        BY <1>1
    <2>3. C \subseteq P
        BY DEF Found
    <2>. HIDE DEF s, C, P, n
    <2>. QED
        BY <1>1, <1>2, <2>1, <2>2, <2>3
<1>4. Lists(Rows, Rows, P, Ascending)
    BY RowsLists
<1>5. Lists(kept, Rows, C, Ascending) /\ IsFiniteSet(C) /\ StrictOrder(C, Ascending)
    <2>. HIDE DEF P, C, s
    <2>. QED
        BY <1>2, <1>3, <1>4, ChosenLists
<1>6. g \in [1..Cardinality(C) -> C]
    BY <1>5, RanksEnumerate DEF Enumerates
<1>7. Join(Rows) = [i \in DOMAIN kept |-> [kept[i] EXCEPT !.users = store["users"][First(kept[i])]]]
    BY Zenon DEF Join, First, Matched
<1>8. DOMAIN kept = 1..Cardinality(C) /\ \A x \in 1..Cardinality(C) : kept[x] = Rows[g[x]] /\ g[x] \in C
    BY <1>5, <1>6 DEF Lists
<1>9. ASSUME NEW x \in 1..Cardinality(C)
      PROVE  [kept[x] EXCEPT !.users = store["users"][First(kept[x])]] = RowsMeant(TRUE)[g[x]]
    <2>1. PICK i \in C : i = g[x] /\ kept[x] = Rows[i]
        BY <1>8
    <2>2. i \in DOMAIN store["posts"] /\ WithUser(i) # {}
        BY DEF Found
    <2>3. [Rows[i] EXCEPT !.users = store["users"][First(Rows[i])]] = RowOf(TRUE, i)
        BY <2>2, MatchedUser
    <2>4. RowsMeant(TRUE)[i] = RowOf(TRUE, i)
        BY <2>2 DEF RowsMeant
    <2>. HIDE DEF kept, g, C
    <2>. QED
        BY <2>1, <2>3, <2>4
<1>10. Join(Rows) = [x \in 1..Cardinality(C) |-> RowsMeant(TRUE)[g[x]]]
    <2>. HIDE DEF kept, C, g
    <2>. QED
        BY <1>7, <1>8, <1>9
<1>. QED
    BY <1>10 DEF Lists

(* The place of a text is a number.                                        *)
LEMMA TextType ==
    ASSUME NEW v \in Values
    PROVE  Text(v) \in Int
<1>1. v # Null
    BY RowAssumption
<1>2. v.digits \in Nat
    BY DEF Values
<1>. QED
    BY <1>1, <1>2 DEF Text

(* The fields that orders name exist in the rows they are applied to: n is *)
(* that of a post or of a user, and the id is a string.                    *)
LEMMA OrderedFields ==
    ASSUME StoreType, NEW join \in BOOLEAN, NEW i \in Found(join), NEW at \in FieldsOf(join)
    PROVE  \/ at.field = "id" /\ Value(RowOf(join, i), at) \in Strings
           \/ /\ at.field = "n" /\ at.of \in Collections
              /\ \E u \in DOMAIN store[at.of] : Value(RowOf(join, i), at) = store[at.of][u].n
<1>1. i \in DOMAIN store["posts"] /\ (join => WithUser(i) # {})
    BY DEF Found
<1>2. store["posts"][i] \in Record
    BY <1>1, StoreFacts DEF Collections
<1>3. RowOf(join, i)["posts"] = store["posts"][i]
    BY DEF RowOf
<1>4. join => \E u \in DOMAIN store["users"] : RowOf(join, i)["users"] = store["users"][u]
    <2>1. SUFFICES ASSUME join
                   PROVE  \E u \in DOMAIN store["users"] : RowOf(join, i)["users"] = store["users"][u]
        OBVIOUS
    <2>2. RowOf(join, i)["users"] = CHOOSE u \in WithUser(i) : TRUE
        BY <2>1 DEF RowOf
    <2>3. (CHOOSE u \in WithUser(i) : TRUE) \in WithUser(i)
        BY <1>1, <2>1
    <2>4. WithUser(i) \subseteq {store["users"][u] : u \in DOMAIN store["users"]}
        BY DEF WithUser, ToSet
    <2>. QED
        BY <2>2, <2>3, <2>4
<1>5. \/ at.of = "posts" /\ at.field \in {"n", "id"}
      \/ join /\ at.of = "users" /\ at.field = "n"
    BY DEF FieldsOf
<1>6. store["posts"][i]["id"] \in Strings
    BY <1>2 DEF Record
<1>. QED
    BY <1>1, <1>3, <1>4, <1>5, <1>6 DEF Value, Collections

(* So they have texts.                                                     *)
LEMMA KeysAreNumbers ==
    ASSUME StoreType, NEW join \in BOOLEAN, NEW i \in Found(join), NEW at \in FieldsOf(join)
    PROVE  Text(Value(RowOf(join, i), at)) \in Int
<1>1. \A c \in Collections : \A u \in DOMAIN store[c] : store[c][u].n \in Values
    BY StoreFacts DEF Record, NumberValues, Values
<1>2. Strings \subseteq Values
    BY DEF Strings, Values
<1>3. Value(RowOf(join, i), at) \in Values
    BY <1>1, <1>2, OrderedFields
<1>. QED
    BY <1>3, TextType

(* Where the texts of the numbers are in order, the keys of the rows       *)
(* compare as the texts do.                                                *)
LEMMA KeysLikeTexts ==
    ASSUME StoreType, NEW join \in BOOLEAN, NEW i \in Found(join), NEW j \in Found(join),
           NEW o, o.at \in FieldsOf(join), o.desc \in BOOLEAN,
           o.at.field = "n" => TextsInOrder(o.at.of)
    PROVE  /\ Key(RowOf(join, i), o) \in Int /\ Key(RowOf(join, j), o) \in Int
           /\ Key(RowOf(join, i), o) < Key(RowOf(join, j), o)
                  <=> TextKey(RowOf(join, i), o) < TextKey(RowOf(join, j), o)
           /\ Key(RowOf(join, i), o) = Key(RowOf(join, j), o)
                  <=> TextKey(RowOf(join, i), o) = TextKey(RowOf(join, j), o)
<1>1. PICK v, w : v = Value(RowOf(join, i), o.at) /\ w = Value(RowOf(join, j), o.at)
    OBVIOUS
<1>2. PICK x \in Int, y \in Int : x = Text(v) /\ y = Text(w)
    BY <1>1, KeysAreNumbers
<1>3. PICK a \in Int, b \in Int :
          a = Place(v) /\ b = Place(w) /\ (a < b <=> x < y) /\ (a = b <=> x = y)
    <2>1. CASE v \in Strings /\ w \in Strings
        <3>1. Place(v) = x /\ Place(w) = y
            BY <1>2, <2>1 DEF Place, Strings
        <3>. QED
            BY <3>1
    <2>2. ASSUME o.at.field = "n", o.at.of \in Collections,
                 NEW t \in DOMAIN store[o.at.of], v = store[o.at.of][t].n,
                 NEW u \in DOMAIN store[o.at.of], w = store[o.at.of][u].n
          PROVE  /\ Place(v) \in Int /\ Place(w) \in Int
                 /\ Place(v) < Place(w) <=> x < y
                 /\ Place(v) = Place(w) <=> x = y
        <3>1. v \in NumberValues /\ w \in NumberValues
            BY <2>2, StoreFacts DEF Record
        <3>2. PICK d \in Nat, e \in Nat : d = v.digits /\ e = w.digits
            BY <3>1 DEF NumberValues
        <3>3. Place(v) = d /\ Place(w) = e
            BY <3>1, <3>2 DEF Place, NumberValues
        <3>4. (d < e => x < y) /\ (e < d => y < x)
            BY <1>2, <2>2, <3>2 DEF TextsInOrder
        <3>5. d = e => x = y
            <4>1. v = [type |-> "Number", digits |-> d] /\ w = [type |-> "Number", digits |-> e]
                BY <3>1, <3>2 DEF NumberValues
            <4>. QED
                BY <1>2, <4>1
        <3>. QED
            BY <3>3, <3>4, <3>5
    <2>. QED
        BY <1>1, <2>1, <2>2, OrderedFields
<1>4. /\ Key(RowOf(join, i), o) = (IF o.desc THEN -a ELSE a)
      /\ Key(RowOf(join, j), o) = (IF o.desc THEN -b ELSE b)
    BY <1>1, <1>3 DEF Key
<1>5. /\ TextKey(RowOf(join, i), o) = (IF o.desc THEN -x ELSE x)
      /\ TextKey(RowOf(join, j), o) = (IF o.desc THEN -y ELSE y)
    BY <1>1, <1>2 DEF TextKey
<1>. QED
    BY <1>3, <1>4, <1>5

(* What a query consists of.                                               *)
LEMMA QueryCases ==
    ASSUME NEW q \in Queries
    PROVE  /\ q.join \in BOOLEAN
           /\ q.filters = <<>> \/ \E f : q.filters = <<f>>
           /\ \/ q.orders = <<>>
              \/ \E o, p : /\ q.orders = <<o, p>>
                           /\ o.at \in FieldsOf(q.join) /\ o.desc \in BOOLEAN
                           /\ p.at \in FieldsOf(q.join) /\ p.desc \in BOOLEAN
           /\ q.window.offset \in Nat /\ q.window.limit \in Nat
<1>1. PICK j \in BOOLEAN :
          q \in [join : {j}, filters : FiltersOf(j), orders : OrdersOf(j), window : Windows]
    BY DEF Queries
<1>2. q.join = j /\ q.filters \in FiltersOf(j) /\ q.orders \in OrdersOf(j) /\ q.window \in Windows
    BY <1>1
<1>3. q.filters = <<>> \/ \E f : q.filters = <<f>>
    BY <1>2 DEF FiltersOf
<1>4. q.orders = <<>> \/ \E o, p : /\ q.orders = <<o, p>>
                                   /\ o.at \in FieldsOf(j) /\ o.desc \in BOOLEAN
                                   /\ p.at \in FieldsOf(j) /\ p.desc \in BOOLEAN
    <2>1. CASE q.orders # <<>>
        <3>1. PICK f \in FieldsOf(j), g \in FieldsOf(j), d \in BOOLEAN :
                  q.orders = <<[at |-> f, desc |-> d], [at |-> g, desc |-> ~d]>>
            BY <1>2, <2>1 DEF OrdersOf
        <3>2. PICK e \in BOOLEAN : e = ~d
            OBVIOUS
        <3>3. q.orders = <<[at |-> f, desc |-> d], [at |-> g, desc |-> e]>>
            BY <3>1, <3>2
        <3>. QED
            BY <3>3
    <2>. QED
        BY <2>1
<1>5. q.window.offset \in Nat /\ q.window.limit \in Nat
    BY <1>2, RowAssumption DEF Windows
<1>. QED
    BY <1>1, <1>2, <1>3, <1>4, <1>5

(* Joined and filtered rows are those asked for, in the order of the posts.*)
LEMMA AskedLists ==
    ASSUME StoreType, NEW q \in Queries, q.join => IdsDiffer("users"),
           NEW rows, rows = FilterAll(IF q.join THEN Join(Rows) ELSE Rows, q.filters)
    PROVE  /\ Lists(rows, RowsMeant(q.join), Asked(q), Ascending)
           /\ IsFiniteSet(Asked(q)) /\ StrictOrder(Asked(q), Ascending)
           /\ Asked(q) \subseteq Found(q.join)
<1>. DEFINE R == RowsMeant(q.join)
            T == Found(q.join)
<1>1. q.join \in BOOLEAN
    BY QueryCases
<1>2. PICK joined : joined = IF q.join THEN Join(Rows) ELSE Rows
    OBVIOUS
<1>3. Lists(joined, R, T, Ascending)
    <2>1. CASE q.join
        <3>1. q.join = TRUE
            BY <1>1, <2>1
        <3>. QED
            BY <1>2, <3>1, JoinLists
    <2>2. CASE ~ q.join
        <3>1. q.join = FALSE
            BY <1>1, <2>2
        <3>. QED
            BY <1>2, <3>1, RowsLists
    <2>. QED
        BY <2>1, <2>2
<1>4. T \subseteq DOMAIN store["posts"] /\ T \subseteq Nat /\ IsFiniteSet(T) /\ StrictOrder(T, Ascending)
    <2>1. T \subseteq DOMAIN store["posts"]
        BY DEF Found
    <2>2. DOMAIN store["posts"] \subseteq Nat /\ IsFiniteSet(DOMAIN store["posts"])
        <3>1. Len(store["posts"]) \in Nat /\ DOMAIN store["posts"] = 1..Len(store["posts"])
            BY StoreFacts DEF Collections
        <3>. QED
            BY <3>1, FS_Interval
    <2>. QED
        BY <2>1, <2>2, FS_Subset, LessIsStrict
<1>5. \A i \in T : R[i] = RowOf(q.join, i)
    BY <1>4 DEF RowsMeant
<1>6. Asked(q) = {i \in T : \A f \in ToSet(q.filters) : Compare(Value(RowOf(q.join, i), f.at), f.op, f.value)}
    BY DEF Asked, Found
<1>7. CASE q.filters = <<>>
    <2>1. ToSet(q.filters) = {}
        BY <1>7 DEF ToSet
    <2>2. Asked(q) = T
        BY <1>6, <2>1
    <2>3. rows = joined
        BY <1>2, <1>7, FilterAllCases
    <2>. QED
        BY <1>3, <1>4, <2>2, <2>3
<1>8. ASSUME NEW f, q.filters = <<f>>
      PROVE  /\ Lists(rows, RowsMeant(q.join), Asked(q), Ascending)
             /\ IsFiniteSet(Asked(q)) /\ StrictOrder(Asked(q), Ascending)
             /\ Asked(q) \subseteq Found(q.join)
    <2>1. ToSet(q.filters) = {f}
        BY <1>8 DEF ToSet
    <2>2. Asked(q) = Meet(R, T, f)
        <3>1. Asked(q) = {i \in T : Compare(Value(RowOf(q.join, i), f.at), f.op, f.value)}
            BY <1>6, <2>1
        <3>. HIDE DEF R, T
        <3>. QED
            BY <1>5, <3>1 DEF Meet
    <2>3. rows = Filter(joined, f)
        BY <1>2, <1>8, FilterAllCases
    <2>4. Meet(R, T, f) \subseteq T
        BY DEF Meet
    <2>. HIDE DEF R, T
    <2>5. Lists(rows, R, Asked(q), Ascending) /\ IsFiniteSet(Asked(q)) /\ StrictOrder(Asked(q), Ascending)
        BY <1>3, <1>4, <2>2, <2>3, FilterLists
    <2>. QED
        BY <2>2, <2>4, <2>5 DEF R, T
<1>. QED
    BY <1>7, <1>8, QueryCases

(* The order that a query means, as a set of pairs.                        *)
Order(q) == {p \in Asked(q) \X Asked(q) : Precedes(q, p[1], p[2])}

(* Ordered is RankedBy this order.                                         *)
LEMMA OrderedIsRanked == ASSUME NEW q PROVE Ordered(q) = RankedBy(Asked(q), Order(q))
<1>. DEFINE S == Asked(q)
            precedes(i, j) == Precedes(q, i, j)
            a(r) == CHOOSE i \in S : Cardinality({j \in S : Precedes(q, j, i)}) = r - 1
            b(r) == CHOOSE i \in S : Cardinality({j \in S : <<j, i>> \in Order(q)}) = r - 1
<1>1. \A i, j \in S : Precedes(q, j, i) <=> <<j, i>> \in Order(q)
    BY DEF Order
<1>. HIDE DEF S
<1>2. \A i \in S : {j \in S : Precedes(q, j, i)} = {j \in S : <<j, i>> \in Order(q)}
    BY <1>1
<1>3. \A i \in S : Cardinality({j \in S : Precedes(q, j, i)}) = Cardinality({j \in S : <<j, i>> \in Order(q)})
    BY <1>2, Zenon
<1>4. ASSUME NEW r PROVE a(r) = b(r)
    <2>1. \A i : (i \in S /\ Cardinality({j \in S : Precedes(q, j, i)}) = r - 1)
                     <=> (i \in S /\ Cardinality({j \in S : <<j, i>> \in Order(q)}) = r - 1)
        BY <1>3
    <2>. QED
        BY <2>1
<1>5. Ordered(q) = [r \in 1..Cardinality(S) |-> a(r)]
    BY DEF Ordered, Ranked, S
<1>6. RankedBy(S, Order(q)) = [r \in 1..Cardinality(S) |-> b(r)]
    BY DEF RankedBy
<1>7. [r \in 1..Cardinality(S) |-> a(r)] = [r \in 1..Cardinality(S) |-> b(r)]
    <2>. HIDE DEF a, b
    <2>. QED
        BY <1>4
<1>. QED
    BY <1>5, <1>6, <1>7, Zenon DEF S

(* RankedBy depends on an order only where it compares elements of its set.*)
LEMMA SameOrder ==
    ASSUME NEW T, NEW B, NEW E, \A i, j \in T : <<i, j>> \in B <=> <<i, j>> \in E
    PROVE  RankedBy(T, B) = RankedBy(T, E)
<1>. DEFINE a(r) == CHOOSE i \in T : Cardinality({j \in T : <<j, i>> \in B}) = r - 1
            b(r) == CHOOSE i \in T : Cardinality({j \in T : <<j, i>> \in E}) = r - 1
<1>1. \A i \in T : {j \in T : <<j, i>> \in B} = {j \in T : <<j, i>> \in E}
    OBVIOUS
<1>2. \A i \in T : Cardinality({j \in T : <<j, i>> \in B}) = Cardinality({j \in T : <<j, i>> \in E})
    BY <1>1, Zenon
<1>3. ASSUME NEW r PROVE a(r) = b(r)
    <2>1. \A i : (i \in T /\ Cardinality({j \in T : <<j, i>> \in B}) = r - 1)
                     <=> (i \in T /\ Cardinality({j \in T : <<j, i>> \in E}) = r - 1)
        BY <1>2
    <2>. QED
        BY <2>1
<1>4. RankedBy(T, B) = [r \in 1..Cardinality(T) |-> a(r)]
    BY DEF RankedBy
<1>5. RankedBy(T, E) = [r \in 1..Cardinality(T) |-> b(r)]
    BY DEF RankedBy
<1>6. [r \in 1..Cardinality(T) |-> a(r)] = [r \in 1..Cardinality(T) |-> b(r)]
    <2>. HIDE DEF a, b
    <2>. QED
        BY <1>3
<1>. QED
    BY <1>4, <1>5, <1>6, Zenon

(* The lexicographic order of no keys is that of the posts ...             *)
LEMMA PrecedesWithNone ==
    ASSUME NEW q, q.orders = <<>>, NEW i, NEW j
    PROVE  Precedes(q, i, j) <=> i < j
<1>. DEFINE differ == {n \in DOMAIN q.orders : KeyAt(q, i, n) # KeyAt(q, j, n)}
            first == CHOOSE n \in differ : \A m \in differ : n <= m
<1>1. Precedes(q, i, j) <=> IF differ = {} THEN i < j ELSE KeyAt(q, i, first) < KeyAt(q, j, first)
    BY DEF Precedes
<1>2. differ = {}
    OBVIOUS
<1>. QED
    BY <1>1, <1>2

(* ... and of two is by the first, then the second, then that of the posts.*)
LEMMA PrecedesWithTwo ==
    ASSUME NEW q, NEW o, NEW p, q.orders = <<o, p>>, NEW i, NEW j,
           Key(RowOf(q.join, i), o) \in Int, Key(RowOf(q.join, i), p) \in Int,
           Key(RowOf(q.join, j), o) \in Int, Key(RowOf(q.join, j), p) \in Int
    PROVE  Precedes(q, i, j) <=>
               \/ Key(RowOf(q.join, i), o) < Key(RowOf(q.join, j), o)
               \/ /\ Key(RowOf(q.join, i), o) = Key(RowOf(q.join, j), o)
                  /\ \/ Key(RowOf(q.join, i), p) < Key(RowOf(q.join, j), p)
                     \/ Key(RowOf(q.join, i), p) = Key(RowOf(q.join, j), p) /\ i < j
<1>. DEFINE differ == {n \in DOMAIN q.orders : KeyAt(q, i, n) # KeyAt(q, j, n)}
            first == CHOOSE n \in differ : \A m \in differ : n <= m
<1>1. Precedes(q, i, j) <=> IF differ = {} THEN i < j ELSE KeyAt(q, i, first) < KeyAt(q, j, first)
    BY DEF Precedes
<1>2. DOMAIN q.orders = {1, 2} /\ q.orders[1] = o /\ q.orders[2] = p
    OBVIOUS
<1>3. /\ KeyAt(q, i, 1) = Key(RowOf(q.join, i), o) /\ KeyAt(q, j, 1) = Key(RowOf(q.join, j), o)
      /\ KeyAt(q, i, 2) = Key(RowOf(q.join, i), p) /\ KeyAt(q, j, 2) = Key(RowOf(q.join, j), p)
    BY <1>2 DEF KeyAt
<1>4. PICK x1 \in Int, x2 \in Int, y1 \in Int, y2 \in Int :
          /\ x1 = Key(RowOf(q.join, i), o) /\ y1 = Key(RowOf(q.join, j), o)
          /\ x2 = Key(RowOf(q.join, i), p) /\ y2 = Key(RowOf(q.join, j), p)
    OBVIOUS
<1>5. \A n \in {1, 2} : n \in differ <=> KeyAt(q, i, n) # KeyAt(q, j, n)
    BY <1>2
<1>6. differ \subseteq {1, 2}
    BY <1>2
<1>. HIDE DEF differ
<1>7. CASE x1 # y1
    <2>1. 1 \in differ
        BY <1>3, <1>4, <1>5, <1>7
    <2>2. first = 1
        <3>1. differ = {1} \/ differ = {1, 2}
            BY <1>6, <2>1
        <3>2. 1 \in differ /\ \A m \in differ : 1 <= m
            BY <3>1
        <3>3. \A n \in differ : (\A m \in differ : n <= m) => n = 1
            BY <3>1
        <3>. QED
            BY <3>2, <3>3
    <2>. HIDE DEF first
    <2>3. Precedes(q, i, j) <=> x1 < y1
        BY <1>1, <1>3, <1>4, <2>1, <2>2
    <2>. QED
        BY <1>4, <1>7, <2>3
<1>8. CASE x1 = y1 /\ x2 # y2
    <2>1. differ = {2}
        BY <1>3, <1>4, <1>5, <1>6, <1>8
    <2>2. first = 2
        BY <2>1
    <2>. HIDE DEF first
    <2>3. Precedes(q, i, j) <=> x2 < y2
        BY <1>1, <1>3, <1>4, <2>1, <2>2
    <2>. QED
        BY <1>4, <1>8, <2>3
<1>9. CASE x1 = y1 /\ x2 = y2
    <2>1. differ = {}
        BY <1>3, <1>4, <1>5, <1>6, <1>9
    <2>2. Precedes(q, i, j) <=> i < j
        BY <1>1, <2>1
    <2>. QED
        BY <1>4, <1>9, <2>2
<1>. QED
    BY <1>7, <1>8, <1>9

(* Sorted by the last order and then by the first, stably, the rows are in *)
(* the lexicographic order of both.                                        *)
LEMMA SortedLists ==
    ASSUME StoreType, NEW q \in Queries, OrdersLikeTexts(q), NEW rows,
           Lists(rows, RowsMeant(q.join), Asked(q), Ascending),
           IsFiniteSet(Asked(q)), StrictOrder(Asked(q), Ascending), Asked(q) \subseteq Found(q.join)
    PROVE  /\ Lists(SortAll(rows, q.orders), RowsMeant(q.join), Asked(q), Order(q))
           /\ StrictOrder(Asked(q), Order(q))
<1>. DEFINE R == RowsMeant(q.join)
            T == Asked(q)
<1>1. q.join \in BOOLEAN
    BY QueryCases
<1>2. T \subseteq DOMAIN store["posts"] /\ T \subseteq Nat
    <2>1. T \subseteq DOMAIN store["posts"]
        BY DEF Asked
    <2>2. DOMAIN store["posts"] \subseteq Nat
        BY StoreFacts DEF Collections
    <2>. QED
        BY <2>1, <2>2
<1>3. \A i \in T : R[i] = RowOf(q.join, i)
    BY <1>2 DEF RowsMeant
<1>4. \A i, j \in T : <<i, j>> \in Order(q) <=> Precedes(q, i, j)
    BY DEF Order
<1>5. \A i, j \in T : <<i, j>> \in Ascending <=> i < j
    BY <1>2 DEF Ascending
<1>6. CASE q.orders = <<>>
    <2>1. \A i, j \in T : <<i, j>> \in Ascending <=> <<i, j>> \in Order(q)
        BY <1>4, <1>5, <1>6, PrecedesWithNone
    <2>. HIDE DEF T, R
    <2>2. RankedBy(T, Ascending) = RankedBy(T, Order(q))
        BY <2>1, SameOrder
    <2>3. StrictOrder(T, Order(q))
        BY <2>1 DEF StrictOrder, T
    <2>4. SortAll(rows, q.orders) = rows
        BY <1>6, SortAllCases
    <2>. QED
        BY <2>2, <2>3, <2>4 DEF Lists, T, R
<1>7. ASSUME NEW o, NEW p, q.orders = <<o, p>>,
             o.at \in FieldsOf(q.join), o.desc \in BOOLEAN,
             p.at \in FieldsOf(q.join), p.desc \in BOOLEAN
      PROVE  /\ Lists(SortAll(rows, q.orders), RowsMeant(q.join), Asked(q), Order(q))
             /\ StrictOrder(Asked(q), Order(q))
    <2>. DEFINE B == ByKey(R, T, p, Ascending)
                E == ByKey(R, T, o, B)
    <2>1. \A i \in T : Text(Value(R[i], o.at)) \in Int /\ Text(Value(R[i], p.at)) \in Int
        <3>1. \A i \in T : Text(Value(RowOf(q.join, i), o.at)) \in Int /\ Text(Value(RowOf(q.join, i), p.at)) \in Int
            BY <1>1, <1>7, KeysAreNumbers
        <3>. HIDE DEF T, R
        <3>. QED
            BY <1>3, <3>1
    <2>2. \A f \in {o, p} : f.at.field = "n" => TextsInOrder(f.at.of)
        BY <1>7 DEF OrdersLikeTexts, ToSet
    <2>3. Lists(Sort(rows, p), R, T, B) /\ StrictOrder(T, B)
        BY <1>7, <2>1, SortLists
    <2>4. Lists(Sort(Sort(rows, p), o), R, T, E) /\ StrictOrder(T, E)
        <3>. HIDE DEF B, R, T
        <3>1. IsFiniteSet(T)
            BY DEF T
        <3>. QED
            BY <1>7, <2>1, <2>3, <3>1, SortLists
    <2>5. SortAll(rows, q.orders) = Sort(Sort(rows, p), o)
        <3>1. SortAll(rows, <<o, p>>) = Sort(Sort(rows, p), o)
            BY SortAllCases, Zenon
        <3>. QED
            BY <1>7, <3>1, Zenon
    <2>6. ASSUME NEW i \in T, NEW j \in T
          PROVE  <<i, j>> \in E <=> <<i, j>> \in Order(q)
        <3>1. <<i, j>> \in E <=>
                  \/ TextKey(R[i], o) < TextKey(R[j], o)
                  \/ TextKey(R[i], o) = TextKey(R[j], o) /\ <<i, j>> \in B
            <4>. HIDE DEF B, R, T
            <4>. QED
                BY DEF ByKey
        <3>2. <<i, j>> \in B <=>
                  \/ TextKey(R[i], p) < TextKey(R[j], p)
                  \/ TextKey(R[i], p) = TextKey(R[j], p) /\ <<i, j>> \in Ascending
            <4>. HIDE DEF R, T
            <4>. QED
                BY DEF ByKey
        <3>3. Precedes(q, i, j) <=>
                  \/ Key(R[i], o) < Key(R[j], o)
                  \/ /\ Key(R[i], o) = Key(R[j], o)
                     /\ \/ Key(R[i], p) < Key(R[j], p)
                        \/ Key(R[i], p) = Key(R[j], p) /\ i < j
            <4>1. R[i] = RowOf(q.join, i) /\ R[j] = RowOf(q.join, j)
                BY <1>3
            <4>2. /\ Key(RowOf(q.join, i), o) \in Int /\ Key(RowOf(q.join, i), p) \in Int
                  /\ Key(RowOf(q.join, j), o) \in Int /\ Key(RowOf(q.join, j), p) \in Int
                BY <1>1, <1>7, <2>2, KeysLikeTexts
            <4>. HIDE DEF R, T
            <4>. QED
                BY <1>7, <4>1, <4>2, PrecedesWithTwo
        <3>4. \A f \in {o, p} : /\ Key(R[i], f) < Key(R[j], f) <=> TextKey(R[i], f) < TextKey(R[j], f)
                                /\ Key(R[i], f) = Key(R[j], f) <=> TextKey(R[i], f) = TextKey(R[j], f)
            <4>1. R[i] = RowOf(q.join, i) /\ R[j] = RowOf(q.join, j)
                BY <1>3
            <4>. HIDE DEF R, T
            <4>. QED
                BY <1>1, <1>7, <2>2, <4>1, KeysLikeTexts DEF T
        <3>. HIDE DEF B, E, R, T
        <3>. QED
            BY <1>4, <1>5, <3>1, <3>2, <3>3, <3>4
    <2>. HIDE DEF T, R, E, B
    <2>7. RankedBy(T, E) = RankedBy(T, Order(q))
        BY <2>6, SameOrder
    <2>8. StrictOrder(T, Order(q))
        BY <2>4, <2>6 DEF StrictOrder
    <2>9. Lists(SortAll(rows, q.orders), R, T, Order(q))
        BY <2>4, <2>5, <2>7 DEF Lists
    <2>. QED
        BY <2>8, <2>9 DEF T, R
<1>. QED
    BY <1>6, <1>7, QueryCases

(* How many of c rows the offset and the limit of q leave.                 *)
LastOf(q, c) ==
    IF q.window.offset + q.window.limit < c THEN q.window.offset + q.window.limit ELSE c
SizeOf(q, c) == IF LastOf(q, c) > q.window.offset THEN LastOf(q, c) - q.window.offset ELSE 0

(* What is cut out: the rows from the offset on, as many as the limit if   *)
(* there are.                                                              *)
LEMMA CutRows ==
    ASSUME NEW c \in Nat, NEW X, NEW rows \in [1..c -> X],
           NEW q, q.window.offset \in Nat, q.window.limit \in Nat
    PROVE  /\ Cut(rows, q) = [r \in 1..SizeOf(q, c) |-> rows[r + q.window.offset]]
           /\ SizeOf(q, c) \in Nat
           /\ \A r \in 1..SizeOf(q, c) : r + q.window.offset \in 1..c
<1>. DEFINE last == LastOf(q, c)
            size == SizeOf(q, c)
<1>1. PICK off \in Nat, end \in Nat : off = q.window.offset /\ end = q.window.offset + q.window.limit
    <2>1. q.window.offset + q.window.limit \in Nat
        OBVIOUS
    <2>. QED
        BY <2>1, Zenon
<1>2. Len(rows) = c
    OBVIOUS
<1>3. last \in Nat /\ last <= c /\ size = IF last > off THEN last - off ELSE 0
    BY <1>1 DEF LastOf, SizeOf
<1>4. Cut(rows, q) = SubSeq(rows, off + 1, last)
    BY <1>1, <1>2 DEF Cut, LastOf
<1>. HIDE DEF last, size
<1>5. SubSeq(rows, off + 1, last) = [r \in 1..(last - off) |-> rows[off + r]]
    BY <1>3
<1>6. 1..size = 1..(last - off)
    BY <1>1, <1>3
<1>7. \A r \in 1..(last - off) : rows[off + r] = rows[r + off]
    BY <1>3
<1>8. [r \in 1..(last - off) |-> rows[off + r]] = [r \in 1..size |-> rows[r + off]]
    BY <1>6, <1>7
<1>9. size \in Nat /\ \A r \in 1..size : r + off \in 1..c
    BY <1>3
<1>10. Cut(rows, q) = [r \in 1..size |-> rows[r + off]]
    BY <1>4, <1>5, <1>8, Zenon
<1>. QED
    BY <1>1, <1>9, <1>10, Zenon DEF size

(* The rows of the answer are those that the query means, in their places. *)
LEMMA EvaluateIsMeaning ==
    ASSUME StoreType, NEW q \in Queries, q.join => IdsDiffer("users"), OrdersLikeTexts(q)
    PROVE  Evaluate(q) = Meaning(q)
<1>. DEFINE R == RowsMeant(q.join)
            T == Asked(q)
            g == RankedBy(T, Order(q))
            c == Cardinality(T)
            f == [r \in 1..c |-> R[g[r]]]
            size == SizeOf(q, c)
<1>1. PICK filtered : filtered = FilterAll(IF q.join THEN Join(Rows) ELSE Rows, q.filters)
    OBVIOUS
<1>2. PICK sorted : sorted = SortAll(filtered, q.orders)
    OBVIOUS
<1>3. PICK cut : cut = Cut(sorted, q)
    OBVIOUS
<1>4. Evaluate(q) = [i \in DOMAIN cut |-> cut[i].posts]
    BY <1>1, <1>2, <1>3 DEF Evaluate
<1>5. /\ Lists(filtered, R, T, Ascending) /\ IsFiniteSet(T) /\ StrictOrder(T, Ascending)
      /\ T \subseteq Found(q.join)
    BY <1>1, AskedLists
<1>6. Lists(sorted, R, T, Order(q)) /\ StrictOrder(T, Order(q))
    BY <1>2, <1>5, SortedLists
<1>7. c \in Nat /\ g \in [1..c -> T]
    BY <1>5, <1>6, FS_CardinalityType, RanksEnumerate DEF Enumerates
<1>8. sorted = f
    BY <1>6 DEF Lists
<1>9. q.window.offset \in Nat /\ q.window.limit \in Nat
    BY QueryCases
<1>10. /\ cut = [r \in 1..size |-> f[r + q.window.offset]]
       /\ size \in Nat
       /\ \A r \in 1..size : r + q.window.offset \in 1..c
    <2>1. PICK X : f \in [1..c -> X]
        <3>1. f \in [1..c -> {R[i] : i \in T}]
            BY <1>7
        <3>. QED
            BY <3>1
    <2>2. c \in Nat
        BY <1>7
    <2>. HIDE DEF f, c
    <2>3. /\ Cut(f, q) = [r \in 1..size |-> f[r + q.window.offset]]
          /\ size \in Nat
          /\ \A r \in 1..size : r + q.window.offset \in 1..c
        BY <1>9, <2>1, <2>2, CutRows
    <2>. QED
        BY <1>3, <1>8, <2>3
<1>12. ASSUME NEW r \in 1..size
       PROVE  cut[r].posts = store["posts"][g[r + q.window.offset]]
    <2>1. PICK x \in 1..c : x = r + q.window.offset
        BY <1>10
    <2>2. cut[r] = R[g[x]] /\ g[x] \in T
        BY <1>7, <1>10, <2>1
    <2>3. g[x] \in DOMAIN store["posts"]
        BY <2>2 DEF Asked
    <2>4. R[g[x]].posts = store["posts"][g[x]]
        BY <2>3 DEF RowsMeant, RowOf
    <2>. HIDE DEF R, g, c
    <2>. QED
        BY <2>1, <2>2, <2>4
<1>13. Evaluate(q) = [r \in 1..size |-> store["posts"][g[r + q.window.offset]]]
    <2>. HIDE DEF size, g, f
    <2>. QED
        BY <1>4, <1>10, <1>12
<1>14. Ordered(q) = g /\ Len(Ordered(q)) = c
    <2>1. Ordered(q) = g
        BY OrderedIsRanked
    <2>2. Len(g) = c
        <3>. HIDE DEF g, c
        <3>. QED
            BY <1>7
    <2>. QED
        BY <2>1, <2>2
<1>15. Meaning(q) = [r \in 1..size |-> store["posts"][g[r + q.window.offset]]]
    <2>. HIDE DEF g, c
    <2>. QED
        BY <1>14 DEF Meaning, SizeOf, LastOf
<1>. QED
    BY <1>13, <1>15

(* The preview answers every query with the rows that it means, in the     *)
(* order that it means (eval_preview_query_with_functions), as long as the *)
(* ids of the users differ when it joins them and the texts of the numbers *)
(* it orders by are in the order of the numbers.                           *)
THEOREM QueriesAnswer == StoreSpec => []QueriesAnswerAsMeant
<1>1. StoreType => QueriesAnswerAsMeant
    BY EvaluateIsMeaning DEF QueriesAnswerAsMeant
<1>. QED
    BY <1>1, StoreTypeCorrect, PTL
================================================================================
