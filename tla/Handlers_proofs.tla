-------------------------- MODULE Handlers_proofs --------------------------
(***************************************************************************)
(* Proofs about module Handlers, for plans of any length over any          *)
(* collections and guards.                                                 *)
(***************************************************************************)
EXTENDS Handlers, SequenceTheorems, WellFoundedInduction, TLAPS

Spots == DOMAIN plan.steps
Step(i) == plan.steps[i]

Hooks == {"noStore", "auth"}
Runs ==
    [pc : Nat, answer : Answers, handed : Seq(Nat),
     cookies : Seq(Nat), patches : Seq(Nat), invalidations : Seq(Targets),
     redirect : Collections \cup {NoPage, ReturnPage},
     header : {"none", "noStore", "own"}, after : Seq(Hooks),
     charged : SUBSET Guards, read : SUBSET Nat, written : SUBSET Collections,
     sessions : SUBSET Nat, sent : SUBSET Nat]

-----------------------------------------------------------------------------
(* What the plan and the world are, for good.                              *)
PlanTypes ==
    /\ plan.kind \in Kinds /\ plan.kind \in {"action", "route"}
    /\ plan.returns \in Returns(plan.kind)
    /\ plan.globals \in Nat /\ plan.globals <= Len(plan.steps)
    /\ Len(plan.steps) \in Nat /\ Len(plan.steps) <= MaxSteps /\ Spots = 1..Len(plan.steps)
    /\ \A i \in Spots : \/ i <= plan.globals /\ Step(i) = [op |-> "read"]
                        \/ i > plan.globals /\ Step(i) \in Steps(plan.kind)

(* The generator has validated the handler's own steps.                    *)
OwnStepsValid ==
    \A i \in Spots : Step(i).op = "guard" =>
        /\ i > plan.globals
        /\ \A j \in Spots : plan.globals < j /\ j < i => Before(Step(j))

WorldTypes ==
    /\ fails \subseteq Spots /\ unmet \subseteq Spots /\ spent \subseteq Guards
    /\ broken \in BOOLEAN
    /\ broken => plan.kind = "route"

Given == PlanTypes /\ OwnStepsValid /\ WorldTypes

RunTypes ==
    /\ run \in [Executors -> Runs]
    /\ \A e \in Executors : run[e].pc \in 1..(Len(plan.steps) + 1)

LEMMA InitGiven == Init => Given
<1>. SUFFICES ASSUME Init PROVE Given
  OBVIOUS
<1>1. IsPlan(plan)
  BY DEF Init
<1>2. PICK kind \in Kinds, globals \in {0, 1}, n \in 0..MaxSteps :
         \E own \in [1..n -> Steps(kind)], returns \in Returns(kind) :
            /\ globals + n <= MaxSteps
            /\ Valid(own)
            /\ plan = [kind |-> kind, globals |-> globals, returns |-> returns,
                       steps |-> [i \in 1..globals |-> [op |-> "read"]] \o own]
  BY <1>1 DEF IsPlan
<1>3. PICK own \in [1..n -> Steps(kind)], returns \in Returns(kind) :
            /\ globals + n <= MaxSteps
            /\ Valid(own)
            /\ plan = [kind |-> kind, globals |-> globals, returns |-> returns,
                       steps |-> [i \in 1..globals |-> [op |-> "read"]] \o own]
  BY <1>2
<1>. DEFINE reads == [i \in 1..globals |-> [op |-> "read"]]
            Shapes == Steps(kind) \cup {[op |-> "read"]}
<1>4. n \in Nat /\ globals \in Nat
  BY StepAssumption
<1>5. reads \in Seq(Shapes) /\ Len(reads) = globals /\ own \in Seq(Shapes) /\ Len(own) = n
  BY <1>4
<1>6. /\ plan.kind = kind /\ plan.globals = globals /\ plan.returns = returns
      /\ plan.steps = reads \o own
  BY <1>3
<1>. HIDE DEF reads, Shapes
<1>7. /\ plan.steps \in Seq(Shapes) /\ Len(plan.steps) = globals + n
      /\ \A i \in 1..(globals + n) :
            plan.steps[i] = IF i <= globals THEN reads[i] ELSE own[i - globals]
  BY <1>5, <1>6, ConcatProperties
<1>8. Spots = 1..(globals + n)
  BY <1>7, LenProperties DEF Spots
<1>9. PlanTypes
  <2>1. ASSUME NEW i \in Spots
        PROVE  \/ i <= globals /\ Step(i) = [op |-> "read"]
               \/ i > globals /\ Step(i) \in Steps(kind)
    <3>1. CASE i <= globals
      BY <1>4, <1>7, <1>8, <3>1 DEF Step, reads
    <3>2. CASE i > globals
      <4>1. i - globals \in 1..n
        BY <1>4, <1>8, <3>2
      <4>2. plan.steps[i] = own[i - globals]
        BY <1>4, <1>7, <1>8, <3>2
      <4>3. own[i - globals] \in Steps(kind)
        BY <4>1
      <4>. QED
        BY <3>2, <4>2, <4>3 DEF Step
    <3>. QED
      BY <1>4, <1>8, <3>1, <3>2
  <2>. QED
    BY <1>3, <1>4, <1>6, <1>7, <1>8, <2>1, KindAssumption DEF PlanTypes
<1>10. OwnStepsValid
  <2>1. ASSUME NEW i \in Spots, Step(i).op = "guard"
        PROVE  i > plan.globals
    <3>1. Step(i) # [op |-> "read"]
      BY <2>1
    <3>. QED
      BY <1>9, <3>1 DEF PlanTypes
  <2>2. ASSUME NEW i \in Spots, Step(i).op = "guard",
               NEW j \in Spots, plan.globals < j, j < i
        PROVE  Before(Step(j))
    <3>1. i - globals \in 1..n /\ j - globals \in 1..(i - globals - 1)
      BY <1>4, <1>6, <1>8, <2>1, <2>2
    <3>2. plan.steps[i] = own[i - globals] /\ plan.steps[j] = own[j - globals]
      <4>1. i \in 1..(globals + n) /\ j \in 1..(globals + n) /\ ~ (i <= globals) /\ ~ (j <= globals)
        BY <1>4, <1>6, <1>8, <2>1, <2>2
      <4>. QED
        BY <1>7, <4>1
    <3>. QED
      BY <1>3, <2>2, <3>1, <3>2 DEF Valid, Step
  <2>. QED
    BY <2>1, <2>2 DEF OwnStepsValid
<1>11. WorldTypes
  <2>1. fails \subseteq Spots /\ unmet \subseteq Spots /\ spent \subseteq Guards
    <3>1. fails = {} \/ \E i \in Spots : fails = {i}
      BY Zenon DEF Init, Spots
    <3>2. unmet = {} \/ \E i \in Spots : unmet = {i}
      BY Zenon DEF Init, Spots
    <3>3. spent \subseteq Guards
      BY Zenon DEF Init
    <3>. QED
      BY <3>1, <3>2, <3>3
  <2>2. broken \in BOOLEAN /\ (broken => plan.kind = "route")
    BY DEF Init
  <2>. QED
    BY <2>1, <2>2 DEF WorldTypes
<1>. QED
  BY <1>9, <1>10, <1>11 DEF Given

LEMMA InitRun ==
    Init => RunTypes /\ run = [e \in Executors |-> Fresh]
<1>1. <<>> \in Seq(Nat) /\ <<>> \in Seq(Targets) /\ <<>> \in Seq(Hooks)
  BY EmptySeq
<1>2. Fresh \in Runs /\ Fresh.pc = 1
  BY <1>1 DEF Fresh, Runs, Answers
<1>3. Init => Len(plan.steps) \in Nat
  BY InitGiven DEF Given, PlanTypes
<1>4. Init => run = [e \in Executors |-> Fresh]
  BY DEF Init
<1>. QED
  BY <1>2, <1>3, <1>4 DEF RunTypes

-----------------------------------------------------------------------------
(* A step of an execution, field by field: it passes a step of the plan, or *)
(* it ends.                                                                *)

Skipped(e, i) ==
    e = "preview" /\ (Step(i).op = "send" \/ (plan.kind = "route" /\ Step(i).op = "revalidate"))

(* The step at i ends execution e with this answer.                        *)
Halts(e, i, a) ==
    \/ a = "failed" /\ i \in fails /\ ~ Skipped(e, i)
    \/ a = "limited" /\ i \notin fails /\ Step(i).op = "guard" /\ Step(i).guard \in spent
    \/ /\ a = "unauthorized" /\ i \notin fails /\ i \in unmet
       /\ Step(i).op = "hook" /\ Step(i).does = "auth"
       /\ ~ (e = "preview" /\ Step(i).phase = "after")
    \/ i \notin fails /\ i \in unmet /\ Step(i).op = "require" /\ a = Step(i).fallback

(* What execution e answers after all steps.                               *)
Concludes(e, a) ==
    \/ plan.kind = "action" /\ a = IF plan.returns = "value" \/ e = "compiled" THEN "ok" ELSE "failed"
    \/ /\ plan.kind = "route" /\ ~ broken
       /\ a = IF plan.returns = "nothing" /\ e = "preview" THEN "null" ELSE "ok"
    \/ plan.kind = "route" /\ broken /\ a = IF e = "preview" THEN "broken" ELSE "failed"

Reason(e, i, a) ==
    \/ ~ Accepts(e) /\ a = "failed"
    \/ Accepts(e) /\ i \in Spots /\ Halts(e, i, a)
    \/ Accepts(e) /\ i = Len(plan.steps) + 1 /\ Concludes(e, a)

(* What a passed step does to the parts of an execution.                   *)
Writes(i) == IF Step(i).op = "write" THEN ToSet(Step(i).on) ELSE {}
Charges(i) == IF Step(i).op = "guard" THEN {Step(i).guard} ELSE {}
Does(i, op) == IF Step(i).op = op THEN {i} ELSE {}
Cookies(list, i) == IF Step(i).op \in {"session", "cookie"} THEN Append(list, i) ELSE list
Patches(list, i) == IF Step(i).op = "patch" THEN Append(list, i) ELSE list
Invalidations(list, i) ==
    IF plan.kind = "action" /\ Step(i).op = "write" THEN PushWrites(list, Step(i).on)
    ELSE IF plan.kind = "action" /\ Step(i).op = "revalidate" THEN PushExplicit(list, Step(i).target)
    ELSE list
Redirect(page, i) ==
    IF plan.kind = "action" /\ Step(i).op = "revalidate" /\ Step(i).target.page
    THEN Step(i).target.key ELSE page
Kept(e, i) == e = "preview" /\ Step(i).op = "hook" /\ Step(i).phase = "after"
HeaderAfter(e, header, i) ==
    IF Step(i).op = "header" THEN "own"
    ELSE IF Step(i).op = "hook" /\ Step(i).does = "noStore" /\ ~ Kept(e, i) THEN "noStore"
    ELSE header
After(e, list, i) == IF Kept(e, i) THEN Append(list, Step(i).does) ELSE list

Passes(e, r, s) ==
    /\ Accepts(e) /\ r.pc \in Spots /\ \A a : ~ Halts(e, r.pc, a)
    /\ s.pc = r.pc + 1 /\ s.answer = r.answer /\ s.handed = r.handed
    /\ s.written = r.written \cup Writes(r.pc)
    /\ s.charged = r.charged \cup Charges(r.pc)
    /\ s.read = r.read \cup Does(r.pc, "read")
    /\ s.sessions = r.sessions \cup Does(r.pc, "session")
    /\ s.sent = r.sent \cup (IF Skipped(e, r.pc) THEN {} ELSE Does(r.pc, "send"))
    /\ s.cookies = Cookies(r.cookies, r.pc)
    /\ s.patches = Patches(r.patches, r.pc)
    /\ s.invalidations = Invalidations(r.invalidations, r.pc)
    /\ s.redirect = Redirect(r.redirect, r.pc)
    /\ s.header = HeaderAfter(e, r.header, r.pc)
    /\ s.after = After(e, r.after, r.pc)

(* What an answer carries.                                                 *)
Handed(e, a, cookies) ==
    IF a \in {"none", "failed", "broken"} \/ (a = "notFound" /\ e = "compiled" /\ plan.kind = "action")
    THEN <<>> ELSE cookies
HeaderOf(a, header, after) ==
    IF a = "failed" THEN "none"
    ELSE IF a \in {"broken", "limited"} THEN (IF plan.kind = "route" THEN "noStore" ELSE header)
    ELSE IF "noStore" \in ToSet(after) THEN "noStore" ELSE header

Ends(e, r, s, a) ==
    /\ Reason(e, r.pc, a)
    /\ s.answer = a
    /\ s.handed = Handed(e, a, r.cookies)
    /\ s.header = HeaderOf(a, r.header, r.after)
    /\ s.redirect = IF plan.kind = "action" /\ plan.returns # "value" /\ a = "ok"
                       /\ r.pc = Len(plan.steps) + 1
                    THEN ReturnPage ELSE r.redirect
    /\ s.pc = r.pc /\ s.written = r.written /\ s.charged = r.charged /\ s.read = r.read
    /\ s.sessions = r.sessions /\ s.sent = r.sent /\ s.cookies = r.cookies
    /\ s.patches = r.patches /\ s.invalidations = r.invalidations /\ s.after = r.after

(* A record with the fields of an execution is one if they are typed.      *)
Typed(s) ==
    /\ s.pc \in Nat /\ s.answer \in Answers /\ s.handed \in Seq(Nat)
    /\ s.cookies \in Seq(Nat) /\ s.patches \in Seq(Nat) /\ s.invalidations \in Seq(Targets)
    /\ s.redirect \in Collections \cup {NoPage, ReturnPage}
    /\ s.header \in {"none", "noStore", "own"} /\ s.after \in Seq(Hooks)
    /\ s.charged \in SUBSET Guards /\ s.read \in SUBSET Nat /\ s.written \in SUBSET Collections
    /\ s.sessions \in SUBSET Nat /\ s.sent \in SUBSET Nat
Shaped(s) == Typed(s) => s \in Runs

Outcome(e) ==
    /\ Shaped(run'[e])
    /\ \/ Passes(e, run[e], run'[e])
       \/ \E a \in Answers \ {"none"} : Ends(e, run[e], run'[e], a)

Settled == UNCHANGED <<plan, fails, unmet, spent, broken>>
Alone(e) == run' = [run EXCEPT ![e] = run'[e]] /\ Settled

LEMMA BecomeFacts ==
    ASSUME RunTypes, NEW e \in Executors, NEW r, Become(e, r)
    PROVE  Alone(e) /\ run'[e] = r /\ run[e] \in Runs
  BY DEF RunTypes, Become, Alone, Settled

LEMMA WritePasses ==
    ASSUME RunTypes, Given, NEW e \in Executors, Write(e)
    PROVE  Alone(e) /\ Outcome(e)
<1>1. PICK r : r = [[run[e] EXCEPT !.written = @ \cup ToSet(Now(e).on),
                                  !.invalidations = PushWrites(@, Now(e).on)] EXCEPT !.pc = @ + 1]
  OBVIOUS
<1>2. Become(e, r)
  BY <1>1 DEF Write, Continue
<1>3. run'[e] = r /\ run[e] \in Runs /\ Alone(e)
  BY <1>2, BecomeFacts
<1>4. Passes(e, run[e], r)
  BY <1>1, <1>3 DEF Passes, Runs, Write, At, Turn, Now, Step, Spots, Writes, Charges, Does, Cookies, Patches,
    Invalidations, Redirect, Kept, HeaderAfter, After, Halts, PassesOver, Skipped
<1>5. Shaped(r)
  BY <1>1, <1>3 DEF Shaped, Typed, Runs
<1>. QED
  BY <1>3, <1>4, <1>5 DEF Outcome

LEMMA WriteInRoutePasses ==
    ASSUME RunTypes, Given, NEW e \in Executors, WriteInRoute(e)
    PROVE  Alone(e) /\ Outcome(e)
<1>1. PICK r : r = [[run[e] EXCEPT !.written = @ \cup ToSet(Now(e).on)] EXCEPT !.pc = @ + 1]
  OBVIOUS
<1>2. Become(e, r)
  BY <1>1 DEF WriteInRoute, Continue
<1>3. run'[e] = r /\ run[e] \in Runs /\ Alone(e)
  BY <1>2, BecomeFacts
<1>4. Passes(e, run[e], r)
  BY <1>1, <1>3 DEF Passes, Runs, At, Turn, Now, Step, Spots, Writes, Charges, Does, Cookies, Patches,
         Invalidations, Redirect, Kept, HeaderAfter, After, Halts, PassesOver, Skipped, WriteInRoute
<1>5. Shaped(r)
  BY <1>1, <1>3 DEF Shaped, Typed, Runs
<1>. QED
  BY <1>3, <1>4, <1>5 DEF Outcome

LEMMA ReadPasses ==
    ASSUME RunTypes, Given, NEW e \in Executors, Read(e)
    PROVE  Alone(e) /\ Outcome(e)
<1>1. PICK r : r = [[run[e] EXCEPT !.read = @ \cup {run[e].pc}] EXCEPT !.pc = @ + 1]
  OBVIOUS
<1>2. Become(e, r)
  BY <1>1 DEF Read, Continue
<1>3. run'[e] = r /\ run[e] \in Runs /\ Alone(e)
  BY <1>2, BecomeFacts
<1>4. Passes(e, run[e], r)
  BY <1>1, <1>3 DEF Passes, Runs, At, Turn, Now, Step, Spots, Writes, Charges, Does, Cookies, Patches,
         Invalidations, Redirect, Kept, HeaderAfter, After, Halts, PassesOver, Skipped, Read
<1>5. Shaped(r)
  BY <1>1, <1>3 DEF Shaped, Typed, Runs
<1>. QED
  BY <1>3, <1>4, <1>5 DEF Outcome

LEMMA RevalidatePasses ==
    ASSUME RunTypes, Given, NEW e \in Executors, Revalidate(e)
    PROVE  Alone(e) /\ Outcome(e)
<1>1. PICK r : r = [[run[e] EXCEPT
           !.redirect = IF Now(e).target.page THEN Now(e).target.key ELSE @,
           !.invalidations = PushExplicit(@, Now(e).target)] EXCEPT !.pc = @ + 1]
  OBVIOUS
<1>2. Become(e, r)
  BY <1>1 DEF Revalidate, Continue
<1>3. run'[e] = r /\ run[e] \in Runs /\ Alone(e)
  BY <1>2, BecomeFacts
<1>4. Passes(e, run[e], r)
  BY <1>1, <1>3 DEF Passes, Runs, At, Turn, Now, Step, Spots, Writes, Charges, Does, Cookies, Patches,
         Invalidations, Redirect, Kept, HeaderAfter, After, Halts, PassesOver, Skipped, Revalidate
<1>5. Shaped(r)
  BY <1>1, <1>3 DEF Shaped, Typed, Runs
<1>. QED
  BY <1>3, <1>4, <1>5 DEF Outcome

LEMMA RevalidateQuietlyPasses ==
    ASSUME RunTypes, Given, NEW e \in Executors, RevalidateQuietly(e)
    PROVE  Alone(e) /\ Outcome(e)
<1>1. PICK r : r = [run[e] EXCEPT !.pc = @ + 1]
  OBVIOUS
<1>2. Become(e, r)
  BY <1>1 DEF RevalidateQuietly, Continue
<1>3. run'[e] = r /\ run[e] \in Runs /\ Alone(e)
  BY <1>2, BecomeFacts
<1>4. Passes(e, run[e], r)
  BY <1>1, <1>3 DEF Passes, Runs, At, Turn, Now, Step, Spots, Writes, Charges, Does, Cookies, Patches,
         Invalidations, Redirect, Kept, HeaderAfter, After, Halts, PassesOver, Skipped, RevalidateQuietly
<1>5. Shaped(r)
  BY <1>1, <1>3 DEF Shaped, Typed, Runs
<1>. QED
  BY <1>3, <1>4, <1>5 DEF Outcome

LEMMA PatchPasses ==
    ASSUME RunTypes, Given, NEW e \in Executors, Patch(e)
    PROVE  Alone(e) /\ Outcome(e)
<1>1. PICK r : r = [[run[e] EXCEPT !.patches = Append(@, run[e].pc)] EXCEPT !.pc = @ + 1]
  OBVIOUS
<1>2. Become(e, r)
  BY <1>1 DEF Patch, Continue
<1>3. run'[e] = r /\ run[e] \in Runs /\ Alone(e)
  BY <1>2, BecomeFacts
<1>4. Passes(e, run[e], r)
  BY <1>1, <1>3 DEF Passes, Runs, At, Turn, Now, Step, Spots, Writes, Charges, Does, Cookies, Patches,
         Invalidations, Redirect, Kept, HeaderAfter, After, Halts, PassesOver, Skipped, Patch
<1>5. Shaped(r)
  BY <1>1, <1>3 DEF Shaped, Typed, Runs
<1>. QED
  BY <1>3, <1>4, <1>5 DEF Outcome

LEMMA SessionPasses ==
    ASSUME RunTypes, Given, NEW e \in Executors, Session(e)
    PROVE  Alone(e) /\ Outcome(e)
<1>1. PICK r : r = [[run[e] EXCEPT !.sessions = @ \cup {run[e].pc},
                                  !.cookies = Append(@, run[e].pc)] EXCEPT !.pc = @ + 1]
  OBVIOUS
<1>2. Become(e, r)
  BY <1>1 DEF Session, Continue
<1>3. run'[e] = r /\ run[e] \in Runs /\ Alone(e)
  BY <1>2, BecomeFacts
<1>4. Passes(e, run[e], r)
  BY <1>1, <1>3 DEF Passes, Runs, At, Turn, Now, Step, Spots, Writes, Charges, Does, Cookies, Patches,
         Invalidations, Redirect, Kept, HeaderAfter, After, Halts, PassesOver, Skipped, Session
<1>5. Shaped(r)
  BY <1>1, <1>3 DEF Shaped, Typed, Runs
<1>. QED
  BY <1>3, <1>4, <1>5 DEF Outcome

LEMMA SetCookiePasses ==
    ASSUME RunTypes, Given, NEW e \in Executors, SetCookie(e)
    PROVE  Alone(e) /\ Outcome(e)
<1>1. PICK r : r = [[run[e] EXCEPT !.cookies = Append(@, run[e].pc)] EXCEPT !.pc = @ + 1]
  OBVIOUS
<1>2. Become(e, r)
  BY <1>1 DEF SetCookie, Continue
<1>3. run'[e] = r /\ run[e] \in Runs /\ Alone(e)
  BY <1>2, BecomeFacts
<1>4. Passes(e, run[e], r)
  BY <1>1, <1>3 DEF Passes, Runs, At, Turn, Now, Step, Spots, Writes, Charges, Does, Cookies, Patches,
         Invalidations, Redirect, Kept, HeaderAfter, After, Halts, PassesOver, Skipped, SetCookie
<1>5. Shaped(r)
  BY <1>1, <1>3 DEF Shaped, Typed, Runs
<1>. QED
  BY <1>3, <1>4, <1>5 DEF Outcome

LEMMA SendPasses ==
    ASSUME RunTypes, Given, NEW e \in Executors, Send(e)
    PROVE  Alone(e) /\ Outcome(e)
<1>1. PICK r : r = [[run[e] EXCEPT !.sent = @ \cup {run[e].pc}] EXCEPT !.pc = @ + 1]
  OBVIOUS
<1>2. Become(e, r)
  BY <1>1 DEF Send, Continue
<1>3. run'[e] = r /\ run[e] \in Runs /\ Alone(e)
  BY <1>2, BecomeFacts
<1>4. Passes(e, run[e], r)
  BY <1>1, <1>3 DEF Passes, Runs, At, Turn, Now, Step, Spots, Writes, Charges, Does, Cookies, Patches,
         Invalidations, Redirect, Kept, HeaderAfter, After, Halts, PassesOver, Skipped, Send
<1>5. Shaped(r)
  BY <1>1, <1>3 DEF Shaped, Typed, Runs
<1>. QED
  BY <1>3, <1>4, <1>5 DEF Outcome

LEMMA SkipPasses ==
    ASSUME RunTypes, Given, NEW e \in Executors, Skip(e)
    PROVE  Alone(e) /\ Outcome(e)
<1>1. PICK r : r = [run[e] EXCEPT !.pc = @ + 1]
  OBVIOUS
<1>2. Become(e, r)
  BY <1>1 DEF Skip, Continue
<1>3. run'[e] = r /\ run[e] \in Runs /\ Alone(e)
  BY <1>2, BecomeFacts
<1>4. Passes(e, run[e], r)
  BY <1>1, <1>3 DEF Passes, Runs, At, Turn, Now, Step, Spots, Writes, Charges, Does, Cookies, Patches,
         Invalidations, Redirect, Kept, HeaderAfter, After, Halts, PassesOver, Skipped, Skip
<1>5. Shaped(r)
  BY <1>1, <1>3 DEF Shaped, Typed, Runs
<1>. QED
  BY <1>3, <1>4, <1>5 DEF Outcome

LEMMA SetHeaderPasses ==
    ASSUME RunTypes, Given, NEW e \in Executors, SetHeader(e)
    PROVE  Alone(e) /\ Outcome(e)
<1>1. PICK r : r = [[run[e] EXCEPT !.header = "own"] EXCEPT !.pc = @ + 1]
  OBVIOUS
<1>2. Become(e, r)
  BY <1>1 DEF SetHeader, Continue
<1>3. run'[e] = r /\ run[e] \in Runs /\ Alone(e)
  BY <1>2, BecomeFacts
<1>4. Passes(e, run[e], r)
  BY <1>1, <1>3 DEF Passes, Runs, At, Turn, Now, Step, Spots, Writes, Charges, Does, Cookies, Patches,
         Invalidations, Redirect, Kept, HeaderAfter, After, Halts, PassesOver, Skipped, SetHeader
<1>5. Shaped(r)
  BY <1>1, <1>3 DEF Shaped, Typed, Runs
<1>. QED
  BY <1>3, <1>4, <1>5 DEF Outcome

LEMMA AnswerFacts ==
    ASSUME RunTypes, NEW e \in Executors, NEW a \in Answers \ {"none"}, NEW cookies,
           Answer(e, a, cookies)
    PROVE  /\ Alone(e)
           /\ run'[e].answer = a /\ run'[e].handed = cookies
           /\ run'[e].header = HeaderOf(a, run[e].header, run[e].after)
           /\ run'[e].redirect = run[e].redirect
           /\ run'[e].pc = run[e].pc /\ run'[e].written = run[e].written
           /\ run'[e].charged = run[e].charged /\ run'[e].read = run[e].read
           /\ run'[e].sessions = run[e].sessions /\ run'[e].sent = run[e].sent
           /\ run'[e].cookies = run[e].cookies /\ run'[e].patches = run[e].patches
           /\ run'[e].invalidations = run[e].invalidations /\ run'[e].after = run[e].after
           /\ Shaped(run'[e])
<1>1. PICK h : h = Header(e, a)
  OBVIOUS
<1>2. PICK r : r = [run[e] EXCEPT !.answer = a, !.handed = cookies, !.header = h]
  OBVIOUS
<1>3. run'[e] = r /\ run[e] \in Runs /\ Alone(e)
  BY <1>1, <1>2, BecomeFacts DEF Answer
<1>4. h = HeaderOf(a, run[e].header, run[e].after)
  <2>1. CASE a = "failed"
    BY <1>1, <2>1 DEF Header, HeaderOf
  <2>2. CASE a \in {"broken", "limited"} /\ plan.kind = "route"
    BY <1>1, <2>2 DEF Header, HeaderOf
  <2>3. CASE a \in {"broken", "limited"} /\ plan.kind # "route"
    BY <1>1, <2>3 DEF Header, HeaderOf
  <2>4. CASE a \notin {"failed", "broken", "limited"}
    BY <1>1, <2>4 DEF Header, HeaderOf
  <2>. QED
    BY <2>1, <2>2, <2>3, <2>4
<1>5. Shaped(r)
  BY <1>2, <1>3 DEF Shaped, Typed, Runs
<1>. QED
  BY <1>2, <1>3, <1>4, <1>5 DEF Runs

(* The shapes of steps, by what they do.                                   *)
LEMMA StepShapes ==
    ASSUME Given, NEW i \in Spots
    PROVE  /\ Step(i).op = "guard" => Step(i).guard \in Guards
           /\ Step(i).op = "write" =>
                 \/ \E c \in Collections : Step(i).on = <<c>>
                 \/ \E a, b \in Collections : plan.kind = "action" /\ Step(i).on = <<a, b>>
           /\ Step(i).op = "revalidate" /\ plan.kind = "action" => Step(i).target \in Targets
           /\ Step(i).op = "require" => Step(i).fallback \in {"invalid", "forbidden", "notFound"}
           /\ Step(i).op = "hook" =>
                 plan.kind = "route" /\ Step(i).does \in Hooks /\ Step(i).phase \in {"before", "after"}
           /\ Step(i).op = "header" => plan.kind = "route"
           /\ Step(i).op = "patch" => plan.kind = "action"
           /\ i <= plan.globals => Step(i).op = "read"
<1>1. CASE i <= plan.globals /\ Step(i) = [op |-> "read"]
  BY <1>1
<1>2. CASE i > plan.globals /\ Step(i) \in ActionSteps /\ plan.kind = "action"
  <2>1. ~ (i <= plan.globals)
    BY <1>2 DEF Given, PlanTypes
  <2>. QED
    BY <1>2, <2>1 DEF ActionSteps, Requirements, Targets, Hooks
<1>3. CASE i > plan.globals /\ Step(i) \in RouteSteps /\ plan.kind = "route"
  <2>1. ~ (i <= plan.globals)
    BY <1>3 DEF Given, PlanTypes
  <2>. QED
    BY <1>3, <2>1 DEF RouteSteps, Requirements, Targets, Hooks
<1>. QED
  BY <1>1, <1>2, <1>3 DEF Given, PlanTypes, Steps

LEMMA GuardPassesOrEnds ==
    ASSUME RunTypes, Given, NEW e \in Executors, Guard(e)
    PROVE  Alone(e) /\ Outcome(e)
<1>1. CASE Now(e).guard \in spent
  <2>1. Answer(e, "limited", run[e].cookies)
    BY <1>1 DEF Guard
  <2>2. Reason(e, run[e].pc, "limited")
    BY <1>1 DEF Guard, At, Turn, Now, Reason, Halts, Spots, Step
  <2>3. Ends(e, run[e], run'[e], "limited")
    BY <2>1, <2>2, AnswerFacts DEF Ends, Handed, Answers
  <2>. QED
    BY <2>1, <2>3, AnswerFacts DEF Outcome, Answers
<1>2. CASE Now(e).guard \notin spent
  <2>1. PICK r : r = [[run[e] EXCEPT !.charged = @ \cup {Now(e).guard}] EXCEPT !.pc = @ + 1]
    OBVIOUS
  <2>2. Become(e, r)
    BY <1>2, <2>1 DEF Guard, Continue
  <2>3. run'[e] = r /\ run[e] \in Runs /\ Alone(e)
    BY <2>2, BecomeFacts
  <2>4. Passes(e, run[e], r)
    BY <1>2, <2>1, <2>3 DEF Passes, Runs, At, Turn, Now, Step, Spots, Writes, Charges, Does,
         Cookies, Patches, Invalidations, Redirect, Kept, HeaderAfter, After, Halts, PassesOver,
         Skipped, Guard
  <2>5. Shaped(r)
    BY <2>1, <2>3 DEF Shaped, Typed, Runs
  <2>. QED
    BY <2>3, <2>4, <2>5 DEF Outcome
<1>. QED
  BY <1>1, <1>2

LEMMA HookPassesOrEnds ==
    ASSUME RunTypes, Given, NEW e \in Executors, Hook(e)
    PROVE  Alone(e) /\ Outcome(e)
<1>. DEFINE keeps == e = "preview" /\ Now(e).phase = "after"
<1>0. run[e].pc \in Spots /\ Step(run[e].pc).op = "hook" /\ Step(run[e].pc).does \in Hooks
  <2>1. run[e].pc \in Spots /\ Step(run[e].pc).op = "hook"
    BY DEF Hook, At, Spots, Step, Now
  <2>. QED
    BY <2>1, StepShapes
<1>1. CASE ~ keeps /\ Now(e).does # "noStore" /\ run[e].pc \in unmet
  <2>1. Answer(e, "unauthorized", run[e].cookies)
    BY <1>1 DEF Hook
  <2>2. Reason(e, run[e].pc, "unauthorized")
    BY <1>0, <1>1 DEF Hook, At, Turn, Now, Reason, Halts, Spots, Step, Hooks
  <2>3. Ends(e, run[e], run'[e], "unauthorized")
    BY <2>1, <2>2, AnswerFacts DEF Ends, Handed, Answers, Refusals
  <2>. QED
    BY <2>1, <2>3, AnswerFacts DEF Outcome, Answers, Refusals
<1>2. CASE keeps
  <2>1. PICK r : r = [[run[e] EXCEPT !.after = Append(@, Now(e).does)] EXCEPT !.pc = @ + 1]
    OBVIOUS
  <2>2. Become(e, r)
    BY <1>2, <2>1 DEF Hook, Continue
  <2>3. run'[e] = r /\ run[e] \in Runs /\ Alone(e)
    BY <2>2, BecomeFacts
  <2>4. Passes(e, run[e], r)
    BY <1>0, <1>2, <2>1, <2>3 DEF Passes, Runs, At, Turn, Now, Step, Spots, Writes, Charges, Does,
         Cookies, Patches, Invalidations, Redirect, Kept, HeaderAfter, After, Halts, PassesOver,
         Skipped, Hook
  <2>5. Shaped(r)
    BY <2>1, <2>3 DEF Shaped, Typed, Runs
  <2>. QED
    BY <2>3, <2>4, <2>5 DEF Outcome
<1>3. CASE ~ keeps /\ Now(e).does = "noStore"
  <2>1. PICK r : r = [[run[e] EXCEPT !.header = "noStore"] EXCEPT !.pc = @ + 1]
    OBVIOUS
  <2>2. Become(e, r)
    BY <1>3, <2>1 DEF Hook, Continue
  <2>3. run'[e] = r /\ run[e] \in Runs /\ Alone(e)
    BY <2>2, BecomeFacts
  <2>4. Passes(e, run[e], r)
    BY <1>0, <1>3, <2>1, <2>3 DEF Passes, Runs, At, Turn, Now, Step, Spots, Writes, Charges, Does,
         Cookies, Patches, Invalidations, Redirect, Kept, HeaderAfter, After, Halts, PassesOver,
         Skipped, Hook
  <2>5. Shaped(r)
    BY <2>1, <2>3 DEF Shaped, Typed, Runs
  <2>. QED
    BY <2>3, <2>4, <2>5 DEF Outcome
<1>4. CASE ~ keeps /\ Now(e).does # "noStore" /\ run[e].pc \notin unmet
  <2>1. PICK r : r = [run[e] EXCEPT !.pc = @ + 1]
    OBVIOUS
  <2>2. Become(e, r)
    BY <1>4, <2>1 DEF Hook, Continue
  <2>3. run'[e] = r /\ run[e] \in Runs /\ Alone(e)
    BY <2>2, BecomeFacts
  <2>4. Passes(e, run[e], r)
    BY <1>0, <1>4, <2>1, <2>3 DEF Passes, Runs, At, Turn, Now, Step, Spots, Writes, Charges, Does,
         Cookies, Patches, Invalidations, Redirect, Kept, HeaderAfter, After, Halts, PassesOver,
         Skipped, Hook
  <2>5. Shaped(r)
    BY <2>1, <2>3 DEF Shaped, Typed, Runs
  <2>. QED
    BY <2>3, <2>4, <2>5 DEF Outcome
<1>. QED
  BY <1>1, <1>2, <1>3, <1>4

LEMMA RequirePassesOrEnds ==
    ASSUME RunTypes, Given, NEW e \in Executors, Require(e)
    PROVE  Alone(e) /\ Outcome(e)
<1>0. /\ run[e].pc \in Spots /\ Step(run[e].pc).op = "require"
      /\ Step(run[e].pc).fallback \in {"invalid", "forbidden", "notFound"}
      /\ plan.kind \in {"action", "route"}
  <2>1. run[e].pc \in Spots /\ Step(run[e].pc).op = "require"
    BY DEF Require, At, Spots, Step, Now
  <2>. QED
    BY <2>1, StepShapes DEF Given, PlanTypes
<1>1. CASE run[e].pc \in unmet
  <2>1. PICK a, cookies : /\ a = Step(run[e].pc).fallback
                          /\ cookies = Handed(e, a, run[e].cookies)
    OBVIOUS
  <2>2. a \in Answers \ {"none"}
    BY <1>0, <2>1 DEF Answers, Refusals
  <2>3. Answer(e, a, cookies)
    BY <1>0, <1>1, <2>1 DEF Require, RefuseAction, RefuseRoute, Handed, Now, Step
  <2>4. Reason(e, run[e].pc, a)
    BY <1>0, <1>1, <2>1 DEF Require, At, Turn, Reason, Halts
  <2>5. ~ (a = "ok")
    BY <1>0, <2>1
  <2>6. Ends(e, run[e], run'[e], a)
    BY <2>1, <2>2, <2>3, <2>4, <2>5, AnswerFacts DEF Ends
  <2>. QED
    BY <2>2, <2>3, <2>6, AnswerFacts DEF Outcome
<1>2. CASE run[e].pc \notin unmet
  <2>1. PICK r : r = [run[e] EXCEPT !.pc = @ + 1]
    OBVIOUS
  <2>2. Become(e, r)
    BY <1>2, <2>1 DEF Require, Continue
  <2>3. run'[e] = r /\ run[e] \in Runs /\ Alone(e)
    BY <2>2, BecomeFacts
  <2>4. Passes(e, run[e], r)
    BY <1>2, <2>1, <2>3 DEF Passes, Runs, At, Turn, Now, Step, Spots, Writes, Charges, Does,
         Cookies, Patches, Invalidations, Redirect, Kept, HeaderAfter, After, Halts, PassesOver,
         Skipped, Require
  <2>5. Shaped(r)
    BY <2>1, <2>3 DEF Shaped, Typed, Runs
  <2>. QED
    BY <2>3, <2>4, <2>5 DEF Outcome
<1>. QED
  BY <1>1, <1>2

(* The generated code keeps no hooks for later.                            *)
NothingKept == run["compiled"].after = <<>>

(* The other ways to end.                                                  *)
LEMMA OthersEnd ==
    ASSUME RunTypes, Given, NothingKept, NEW e \in Executors,
           RejectHooks(e) \/ Fail(e) \/ ReturnFromAction(e) \/ ReturnFromRoute(e) \/ BreakContract(e)
    PROVE  Alone(e) /\ Outcome(e)
<1>0. run[e].pc \in Nat /\ Len(plan.steps) \in Nat /\ Spots = 1..Len(plan.steps)
      /\ run[e].pc \in 1..(Len(plan.steps) + 1)
      /\ plan.kind \in {"action", "route"} /\ (broken => plan.kind = "route")
  BY DEF RunTypes, Runs, Given, PlanTypes, WorldTypes
<1>1. ASSUME NEW a \in Answers \ {"none"}, NEW cookies, Answer(e, a, cookies),
             Reason(e, run[e].pc, a), cookies = Handed(e, a, run[e].cookies),
             a = "ok" => ~ (plan.kind = "action" /\ plan.returns # "value")
      PROVE  Alone(e) /\ Outcome(e)
  <2>1. Ends(e, run[e], run'[e], a)
    BY <1>1, AnswerFacts DEF Ends
  <2>. QED
    BY <1>1, <2>1, AnswerFacts DEF Outcome
<1>2. {"ok", "null", "broken", "failed"} \subseteq Answers \ {"none"}
      /\ "ok" # "failed" /\ "null" # "ok" /\ "broken" # "ok"
  BY DEF Answers
<1>3. CASE RejectHooks(e)
  <2>1. Answer(e, "failed", <<>>) /\ Reason(e, run[e].pc, "failed")
    BY <1>3 DEF RejectHooks, Reason
  <2>. QED
    BY <1>1, <1>2, <2>1 DEF Handed
<1>4. CASE Fail(e)
  <2>1. Answer(e, "failed", <<>>) /\ Reason(e, run[e].pc, "failed")
    BY <1>4 DEF Fail, Turn, Reason, Halts, Skipped, PassesOver, Now, Step, Spots, Given, WorldTypes
  <2>. QED
    BY <1>1, <1>2, <2>1 DEF Handed
<1>5. ASSUME AtEnd(e), NEW a, Concludes(e, a)
      PROVE  Reason(e, run[e].pc, a)
  BY <1>0, <1>5 DEF AtEnd, Turn, Reason
<1>6. CASE ReturnFromAction(e)
  <2>1. AtEnd(e) /\ plan.kind = "action"
    BY <1>6 DEF ReturnFromAction
  <2>2. CASE plan.returns = "value"
    <3>1. Answer(e, "ok", run[e].cookies) /\ Concludes(e, "ok")
      BY <1>6, <2>1, <2>2 DEF ReturnFromAction, Concludes
    <3>. QED
      BY <1>1, <1>2, <1>5, <2>1, <2>2, <3>1 DEF Handed
  <2>3. CASE plan.returns # "value" /\ e = "preview"
    <3>1. Answer(e, "failed", <<>>) /\ Concludes(e, "failed")
      BY <1>6, <2>1, <2>3 DEF ReturnFromAction, Concludes
    <3>. QED
      BY <1>1, <1>2, <1>5, <2>1, <3>1 DEF Handed
  <2>4. CASE plan.returns # "value" /\ e # "preview"
    <3>0. e = "compiled" /\ plan.returns # "value"
      BY <2>4 DEF Executors
    <3>1. PICK r : r = [run[e] EXCEPT !.answer = "ok", !.handed = run[e].cookies,
                                      !.redirect = ReturnPage]
      OBVIOUS
    <3>2. Become(e, r)
      BY <1>6, <2>4, <3>1 DEF ReturnFromAction
    <3>3. run'[e] = r /\ run[e] \in Runs /\ Alone(e)
      BY <3>2, BecomeFacts
    <3>4. Reason(e, run[e].pc, "ok") /\ run[e].pc = Len(plan.steps) + 1
      BY <1>0, <1>5, <2>1, <3>0 DEF Concludes, AtEnd
    <3>5. HeaderOf("ok", run[e].header, run[e].after) = run[e].header
      BY <3>0 DEF HeaderOf, NothingKept, ToSet
    <3>6. Handed(e, "ok", run[e].cookies) = run[e].cookies
      BY DEF Handed
    <3>7. Ends(e, run[e], r, "ok")
      BY <2>1, <3>0, <3>1, <3>3, <3>4, <3>5, <3>6 DEF Ends, Runs
    <3>8. Shaped(r)
      BY <3>1, <3>3 DEF Shaped, Typed, Runs
    <3>. QED
      BY <1>2, <3>3, <3>7, <3>8 DEF Outcome
  <2>. QED
    BY <2>2, <2>3, <2>4
<1>7. CASE ReturnFromRoute(e)
  <2>1. AtEnd(e) /\ plan.kind = "route" /\ ~ broken /\ plan.kind # "action"
    BY <1>7 DEF ReturnFromRoute
  <2>2. PICK a \in {"ok", "null"} : Answer(e, a, run[e].cookies) /\ Concludes(e, a)
    BY <1>7, <2>1 DEF ReturnFromRoute, Concludes
  <2>. QED
    BY <1>1, <1>2, <1>5, <2>1, <2>2 DEF Handed
<1>8. CASE BreakContract(e)
  <2>1. AtEnd(e) /\ broken /\ plan.kind = "route"
    BY <1>0, <1>8 DEF BreakContract
  <2>2. PICK a \in {"failed", "broken"} : Answer(e, a, <<>>) /\ Concludes(e, a)
    BY <1>8, <2>1 DEF BreakContract, Concludes
  <2>. QED
    BY <1>1, <1>2, <1>5, <2>1, <2>2 DEF Handed
<1>. QED
  BY <1>3, <1>4, <1>6, <1>7, <1>8

LEMMA AdvanceFacts ==
    ASSUME RunTypes, Given, NothingKept, NEW e \in Executors, Advance(e)
    PROVE  /\ Alone(e) /\ Outcome(e)
           /\ run[e].answer = "none"
           /\ e = "compiled" => run["preview"].answer # "none"
<1>1. Alone(e) /\ Outcome(e)
  BY GuardPassesOrEnds, WritePasses, WriteInRoutePasses, ReadPasses, RevalidatePasses,
     RevalidateQuietlyPasses, PatchPasses, SessionPasses, SetCookiePasses, SendPasses,
     SkipPasses, SetHeaderPasses, HookPassesOrEnds, RequirePassesOrEnds, OthersEnd DEF Advance
<1>2. Open(e)
  BY DEF Advance, Guard, Write, WriteInRoute, Read, Revalidate, RevalidateQuietly, Patch, Session,
     SetCookie, Send, Skip, SetHeader, Hook, Require, RejectHooks, Fail, ReturnFromAction,
     ReturnFromRoute, BreakContract, AtEnd, At, Turn
<1>. QED
  BY <1>1, <1>2 DEF Open

(* What the parts of an execution become.                                  *)
LEMMA ToSetAppend ==
    ASSUME NEW S, NEW list \in Seq(S), NEW x \in S
    PROVE  /\ Append(list, x) \in Seq(S)
           /\ ToSet(Append(list, x)) = ToSet(list) \cup {x}
<1>1. /\ Append(list, x) \in Seq(S) /\ Len(list) \in Nat /\ DOMAIN list = 1..Len(list)
      /\ Len(Append(list, x)) = Len(list) + 1
      /\ DOMAIN Append(list, x) = 1..(Len(list) + 1)
  BY LenProperties
<1>2. \A i \in 1..(Len(list) + 1) : Append(list, x)[i] = IF i <= Len(list) THEN list[i] ELSE x
  BY <1>1
<1>3. Len(list) + 1 \in 1..(Len(list) + 1)
  BY <1>1
<1>. QED
  BY <1>1, <1>2, <1>3 DEF ToSet

(* Each key is invalidated once.                                           *)
KeysOnce(list) ==
    \A i, j \in DOMAIN list : list[i].key = list[j].key => i = j
Tells(list, c) == \E i \in DOMAIN list : list[i].key = c

LEMMA PushAutoFacts ==
    ASSUME NEW list \in Seq(Targets), NEW c \in Collections, NEW t \in Targets, t.key = c
    PROVE  /\ PushAuto(list, t) \in Seq(Targets)
           /\ KeysOnce(list) => KeysOnce(PushAuto(list, t))
           /\ Tells(PushAuto(list, t), c)
           /\ \A k : Tells(list, k) => Tells(PushAuto(list, t), k)
<1>1. /\ Append(list, t) \in Seq(Targets) /\ Len(list) \in Nat /\ DOMAIN list = 1..Len(list)
      /\ DOMAIN Append(list, t) = 1..(Len(list) + 1)
  BY LenProperties
<1>2. \A i \in 1..(Len(list) + 1) : Append(list, t)[i] = IF i <= Len(list) THEN list[i] ELSE t
  BY <1>1
<1>3. CASE \E i \in DOMAIN list : list[i].key = t.key
  BY <1>3 DEF PushAuto, Tells
<1>4. CASE ~ \E i \in DOMAIN list : list[i].key = t.key
  <2>1. PushAuto(list, t) = Append(list, t)
    BY <1>4 DEF PushAuto
  <2>2. KeysOnce(list) => KeysOnce(Append(list, t))
    BY <1>1, <1>2, <1>4 DEF KeysOnce
  <2>3. Len(list) + 1 \in 1..(Len(list) + 1) /\ 1..Len(list) \subseteq 1..(Len(list) + 1)
    BY <1>1
  <2>. QED
    BY <1>1, <1>2, <2>1, <2>2, <2>3 DEF Tells
<1>. QED
  BY <1>3, <1>4

LEMMA PushExplicitFacts ==
    ASSUME NEW list \in Seq(Targets), NEW t \in Targets
    PROVE  /\ PushExplicit(list, t) \in Seq(Targets)
           /\ KeysOnce(list) => KeysOnce(PushExplicit(list, t))
           /\ \A k : Tells(list, k) => Tells(PushExplicit(list, t), k)
<1>1. /\ Append(list, t) \in Seq(Targets) /\ Len(list) \in Nat /\ DOMAIN list = 1..Len(list)
      /\ DOMAIN Append(list, t) = 1..(Len(list) + 1)
      /\ \A i \in 1..Len(list) : list[i] \in Targets
  BY LenProperties
<1>2. \A i \in 1..(Len(list) + 1) : Append(list, t)[i] = IF i <= Len(list) THEN list[i] ELSE t
  BY <1>1
<1>3. CASE \E i \in DOMAIN list : list[i].key = t.key
  <2>1. PICK l : l = [i \in DOMAIN list |-> IF list[i].key = t.key THEN t ELSE list[i]]
    OBVIOUS
  <2>2. PushExplicit(list, t) = l
    BY <1>3, <2>1 DEF PushExplicit
  <2>3. DOMAIN l = DOMAIN list /\ \A i \in DOMAIN list : l[i].key = list[i].key
    BY <2>1
  <2>4. l \in Seq(Targets)
    BY <1>1, <2>1
  <2>. QED
    BY <2>2, <2>3, <2>4 DEF KeysOnce, Tells
<1>4. CASE ~ \E i \in DOMAIN list : list[i].key = t.key
  <2>1. PushExplicit(list, t) = Append(list, t)
    BY <1>4 DEF PushExplicit
  <2>2. KeysOnce(list) => KeysOnce(Append(list, t))
    BY <1>1, <1>2, <1>4 DEF KeysOnce
  <2>3. 1..Len(list) \subseteq 1..(Len(list) + 1)
    BY <1>1
  <2>. QED
    BY <1>1, <1>2, <2>1, <2>2, <2>3 DEF Tells
<1>. QED
  BY <1>3, <1>4

LEMMA PushWritesFacts ==
    ASSUME NEW list \in Seq(Targets), NEW on,
           \/ \E c \in Collections : on = <<c>>
           \/ \E a, b \in Collections : on = <<a, b>>
    PROVE  /\ PushWrites(list, on) \in Seq(Targets)
           /\ KeysOnce(list) => KeysOnce(PushWrites(list, on))
           /\ \A c \in ToSet(on) : c \in Collections /\ Tells(PushWrites(list, on), c)
           /\ \A k : Tells(list, k) => Tells(PushWrites(list, on), k)
<1>. DEFINE Of(c) == [key |-> c, page |-> FALSE]
<1>1. \A c \in Collections : Of(c) \in Targets /\ Of(c).key = c
  BY DEF Targets
<1>2. CASE \E c \in Collections : on = <<c>>
  <2>1. PICK c \in Collections : on = <<c>>
    BY <1>2
  <2>2. Len(on) = 1 /\ on[1] = c /\ ToSet(on) = {c}
    BY <2>1 DEF ToSet
  <2>3. PushWrites(list, on) = PushAuto(list, Of(c))
    BY <2>2 DEF PushWrites
  <2>. HIDE DEF Of
  <2>. QED
    BY <1>1, <2>2, <2>3, PushAutoFacts
<1>3. CASE \E a, b \in Collections : on = <<a, b>>
  <2>1. PICK a \in Collections, b \in Collections : on = <<a, b>>
    BY <1>3
  <2>2. Len(on) = 2 /\ on[1] = a /\ on[2] = b /\ ToSet(on) = {a, b}
    BY <2>1 DEF ToSet
  <2>3. PushWrites(list, on) = PushAuto(PushAuto(list, Of(a)), Of(b))
    BY <2>2 DEF PushWrites
  <2>. HIDE DEF Of
  <2>4. PICK first : first = PushAuto(list, Of(a))
    OBVIOUS
  <2>5. /\ first \in Seq(Targets) /\ Tells(first, a)
        /\ KeysOnce(list) => KeysOnce(first)
        /\ \A k : Tells(list, k) => Tells(first, k)
    BY <1>1, <2>4, PushAutoFacts
  <2>. QED
    BY <1>1, <2>2, <2>3, <2>4, <2>5, PushAutoFacts
<1>. QED
  BY <1>2, <1>3

-----------------------------------------------------------------------------
(* Types.                                                                  *)

Typing == Given /\ RunTypes /\ NothingKept

LEMMA StepCases ==
    ASSUME Typing, [Next]_vars, NEW d \in Executors
    PROVE  /\ Settled
           /\ \/ run'[d] = run[d]
              \/ /\ run[d].answer = "none" /\ Shaped(run'[d])
                 /\ d = "compiled" => run["preview"].answer # "none" /\ run'["preview"] = run["preview"]
                 /\ \/ Passes(d, run[d], run'[d])
                    \/ \E a \in Answers \ {"none"} : Ends(d, run[d], run'[d], a)
<1>1. CASE UNCHANGED vars
  BY <1>1 DEF vars, Settled
<1>2. ASSUME NEW e \in Executors, Advance(e)
      PROVE  /\ Settled
             /\ \/ run'[d] = run[d]
                \/ /\ run[d].answer = "none" /\ Shaped(run'[d])
                   /\ d = "compiled" => run["preview"].answer # "none" /\ run'["preview"] = run["preview"]
                   /\ \/ Passes(d, run[d], run'[d])
                      \/ \E a \in Answers \ {"none"} : Ends(d, run[d], run'[d], a)
  <2>1. /\ Alone(e) /\ Outcome(e)
        /\ run[e].answer = "none"
        /\ e = "compiled" => run["preview"].answer # "none"
    BY <1>2, AdvanceFacts DEF Typing
  <2>2. \A x \in Executors : x # e => run'[x] = run[x]
    BY <2>1 DEF Alone, Typing, RunTypes
  <2>3. e = "compiled" => run'["preview"] = run["preview"]
    BY <2>2 DEF Executors
  <2>. QED
    BY <2>1, <2>2, <2>3 DEF Alone, Outcome
<1>. QED
  BY <1>1, <1>2 DEF Next

LEMMA PassTypes ==
    ASSUME Given, NEW e \in Executors, NEW r \in Runs, NEW s, Passes(e, r, s)
    PROVE  /\ Typed(s)
           /\ s.pc \in 1..(Len(plan.steps) + 1)
           /\ e = "compiled" => s.after = r.after
<1>. DEFINE i == r.pc
<1>1. /\ i \in Spots /\ i \in Nat /\ Spots = 1..Len(plan.steps) /\ Len(plan.steps) \in Nat
  BY DEF Passes, Runs, Given, PlanTypes
<1>2. /\ Step(i).op = "guard" => Step(i).guard \in Guards
      /\ Step(i).op = "write" => \/ \E c \in Collections : Step(i).on = <<c>>
                                 \/ \E a, b \in Collections : Step(i).on = <<a, b>>
      /\ Step(i).op = "revalidate" /\ plan.kind = "action" => Step(i).target \in Targets
      /\ Step(i).op = "hook" => Step(i).does \in Hooks
  BY <1>1, StepShapes
<1>3. Writes(i) \subseteq Collections
  BY <1>2 DEF Writes, ToSet
<1>4. Charges(i) \subseteq Guards /\ \A op : Does(i, op) \subseteq Nat
  BY <1>1, <1>2 DEF Charges, Does
<1>5. Cookies(r.cookies, i) \in Seq(Nat) /\ Patches(r.patches, i) \in Seq(Nat)
  BY <1>1, ToSetAppend DEF Cookies, Patches, Runs
<1>6. Invalidations(r.invalidations, i) \in Seq(Targets)
  BY <1>2, PushWritesFacts, PushExplicitFacts DEF Invalidations, Runs
<1>7. Redirect(r.redirect, i) \in Collections \cup {NoPage, ReturnPage}
  BY <1>2 DEF Redirect, Runs, Targets
<1>8. HeaderAfter(e, r.header, i) \in {"none", "noStore", "own"}
  BY DEF HeaderAfter, Runs
<1>9. After(e, r.after, i) \in Seq(Hooks)
  BY <1>2, ToSetAppend DEF After, Kept, Runs
<1>10. e = "compiled" => After(e, r.after, i) = r.after
  BY DEF After, Kept
<1>11. r.written \subseteq Collections /\ r.charged \subseteq Guards /\ r.read \subseteq Nat
       /\ r.sessions \subseteq Nat /\ r.sent \subseteq Nat /\ r.answer \in Answers
       /\ r.handed \in Seq(Nat)
  BY DEF Runs
<1>12. s.pc = i + 1
  BY DEF Passes
<1>. HIDE DEF i
<1>13. Typed(s)
  <2>1. /\ s.written \subseteq Collections /\ s.charged \subseteq Guards /\ s.read \subseteq Nat
        /\ s.sessions \subseteq Nat /\ s.sent \subseteq Nat /\ s.answer \in Answers
        /\ s.handed \in Seq(Nat)
    BY <1>3, <1>4, <1>11 DEF Passes, i
  <2>2. /\ s.cookies \in Seq(Nat) /\ s.patches \in Seq(Nat) /\ s.invalidations \in Seq(Targets)
        /\ s.redirect \in Collections \cup {NoPage, ReturnPage}
        /\ s.header \in {"none", "noStore", "own"} /\ s.after \in Seq(Hooks)
    BY <1>5, <1>6, <1>7, <1>8, <1>9 DEF Passes, i
  <2>. QED
    BY <1>1, <1>12, <2>1, <2>2 DEF Typed
<1>14. s.pc \in 1..(Len(plan.steps) + 1)
  BY <1>1, <1>12
<1>15. e = "compiled" => s.after = r.after
  BY <1>10 DEF Passes, i
<1>. QED
  BY <1>13, <1>14, <1>15

LEMMA EndTypes ==
    ASSUME Given, NEW e \in Executors, NEW r \in Runs, NEW s, NEW a \in Answers \ {"none"},
           Ends(e, r, s, a)
    PROVE  Typed(s)
<1>1. s.handed \in Seq(Nat)
  BY EmptySeq DEF Ends, Handed, Runs
<1>2. s.header \in {"none", "noStore", "own"}
  BY DEF Ends, HeaderOf, Runs
<1>3. s.redirect \in Collections \cup {NoPage, ReturnPage}
  BY DEF Ends, Runs
<1>. QED
  BY <1>1, <1>2, <1>3 DEF Typed, Ends, Runs

LEMMA NextTyping == Typing /\ [Next]_vars => Typing'
<1>. SUFFICES ASSUME Typing, [Next]_vars PROVE Typing'
  OBVIOUS
<1>1. Settled
  BY StepCases DEF Executors
<1>2. Given'
  BY <1>1 DEF Settled, Typing, Given, PlanTypes, OwnStepsValid, WorldTypes, Spots, Step
<1>3. DOMAIN run' = Executors /\ run' = [x \in Executors |-> run'[x]]
  <2>1. CASE UNCHANGED vars
    BY <2>1 DEF vars, Typing, RunTypes
  <2>2. ASSUME NEW e \in Executors, Advance(e)
        PROVE  DOMAIN run' = Executors /\ run' = [x \in Executors |-> run'[x]]
    <3>1. PICK s : run' = [run EXCEPT ![e] = s]
      BY <2>2, AdvanceFacts DEF Typing, Alone
    <3>. QED
      BY <3>1 DEF Typing, RunTypes
  <2>. QED
    BY <2>1, <2>2 DEF Next
<1>4. ASSUME NEW d \in Executors
      PROVE  run'[d] \in Runs /\ run'[d].pc \in 1..(Len(plan.steps) + 1)
             /\ (d = "compiled" => run'[d].after = run[d].after)
  <2>1. run[d] \in Runs /\ run[d].pc \in 1..(Len(plan.steps) + 1) /\ Given
    BY DEF Typing, RunTypes
  <2>2. CASE run'[d] = run[d]
    BY <2>1, <2>2
  <2>3. CASE Shaped(run'[d]) /\ Passes(d, run[d], run'[d])
    BY <2>1, <2>3, PassTypes DEF Shaped
  <2>4. ASSUME NEW a \in Answers \ {"none"}, Shaped(run'[d]), Ends(d, run[d], run'[d], a)
        PROVE  run'[d] \in Runs /\ run'[d].pc \in 1..(Len(plan.steps) + 1)
               /\ (d = "compiled" => run'[d].after = run[d].after)
    <3>1. Typed(run'[d])
      BY <2>1, <2>4, EndTypes
    <3>2. run'[d].pc = run[d].pc /\ run'[d].after = run[d].after
      BY <2>4 DEF Ends
    <3>. QED
      BY <2>1, <2>4, <3>1, <3>2 DEF Shaped
  <2>. QED
    BY <2>2, <2>3, <2>4, StepCases
<1>5. RunTypes'
  BY <1>1, <1>3, <1>4 DEF RunTypes, Settled
<1>6. NothingKept'
  BY <1>4 DEF Typing, NothingKept, Executors
<1>. QED
  BY <1>2, <1>5, <1>6 DEF Typing

-----------------------------------------------------------------------------
(* How far an execution has come, and why it ended.                        *)

Passage ==
    \A e \in Executors : \A i \in 1..(run[e].pc - 1) :
        Accepts(e) /\ i \in Spots /\ \A a : ~ Halts(e, i, a)
Reasons ==
    \A e \in Executors : run[e].answer # "none" => Reason(e, run[e].pc, run[e].answer)

LEMMA NextPassage == Typing /\ Passage /\ [Next]_vars => Passage'
<1>. SUFFICES ASSUME Typing, Passage, [Next]_vars, NEW e \in Executors, NEW i \in 1..(run'[e].pc - 1)
              PROVE  (Accepts(e) /\ i \in Spots /\ \A a : ~ Halts(e, i, a))'
  BY Zenon DEF Passage
<1>1. run[e].pc \in Nat /\ Settled
  BY StepCases DEF Typing, RunTypes, Runs
<1>2. Accepts(e) /\ i \in Spots /\ \A a : ~ Halts(e, i, a)
  <2>1. CASE run'[e].pc = run[e].pc
    BY <2>1 DEF Passage
  <2>2. CASE Passes(e, run[e], run'[e])
    <3>1. run'[e].pc = run[e].pc + 1 /\ Accepts(e) /\ run[e].pc \in Spots
          /\ \A a : ~ Halts(e, run[e].pc, a)
      BY <2>2 DEF Passes
    <3>2. i \in 1..(run[e].pc - 1) \/ i = run[e].pc
      BY <1>1, <3>1
    <3>. QED
      BY <3>1, <3>2 DEF Passage
  <2>. QED
    BY <2>1, <2>2, StepCases DEF Ends
<1>. QED
  BY <1>1, <1>2 DEF Settled, Accepts, Spots, Halts, Skipped, Step

LEMMA NextReasons == Typing /\ Reasons /\ [Next]_vars => Reasons'
<1>. SUFFICES ASSUME Typing, Reasons, [Next]_vars, NEW e \in Executors, run'[e].answer # "none"
              PROVE  Reason(e, run[e].pc, run[e].answer)'
  BY Zenon DEF Reasons
<1>1. Settled
  BY StepCases
<1>2. Reason(e, run'[e].pc, run'[e].answer)
  <2>1. CASE run'[e] = run[e]
    BY <2>1 DEF Reasons
  <2>2. CASE run[e].answer = "none" /\ Passes(e, run[e], run'[e])
    BY <2>2 DEF Passes
  <2>3. ASSUME NEW a \in Answers \ {"none"}, Ends(e, run[e], run'[e], a)
        PROVE  Reason(e, run'[e].pc, run'[e].answer)
    BY <2>3 DEF Ends
  <2>. QED
    BY <2>1, <2>2, <2>3, StepCases
<1>. QED
  BY <1>1, <1>2 DEF Settled, Reason, Concludes, Accepts, Spots, Halts, Skipped, Step

-----------------------------------------------------------------------------
(* Whatever an execution did, a step behind it did.                        *)

Behind(e, op) == {i \in 1..(run[e].pc - 1) : Step(i).op = op}

ChargedSoFar ==
    \A e \in Executors : run[e].charged = {Step(i).guard : i \in Behind(e, "guard")}
Causes ==
    \A e \in Executors :
        /\ run[e].written # {} => Behind(e, "write") # {}
        /\ run[e].read = Behind(e, "read")
        /\ run[e].sessions = Behind(e, "session")
        /\ run[e].sent \subseteq Behind(e, "send")
        /\ ToSet(run[e].cookies) = Behind(e, "session") \cup Behind(e, "cookie")
        /\ ToSet(run[e].patches) = Behind(e, "patch")

LEMMA BehindFacts ==
    ASSUME Typing, [Next]_vars, NEW e \in Executors, NEW op
    PROVE  /\ run'[e].pc = run[e].pc => Behind(e, op)' = Behind(e, op)
           /\ Passes(e, run[e], run'[e]) => Behind(e, op)' = Behind(e, op) \cup Does(run[e].pc, op)
<1>1. run[e].pc \in Nat \ {0} /\ plan' = plan
  BY StepCases DEF Typing, RunTypes, Settled
<1>2. ASSUME run'[e].pc = run[e].pc
      PROVE  Behind(e, op)' = Behind(e, op)
  BY <1>1, <1>2 DEF Behind, Step
<1>3. ASSUME Passes(e, run[e], run'[e])
      PROVE  Behind(e, op)' = Behind(e, op) \cup Does(run[e].pc, op)
  <2>1. run'[e].pc = run[e].pc + 1
    BY <1>3 DEF Passes
  <2>2. 1..(run'[e].pc - 1) = 1..(run[e].pc - 1) \cup {run[e].pc}
    BY <1>1, <2>1
  <2>3. Behind(e, op)' = {i \in 1..(run'[e].pc - 1) : Step(i).op = op}
    BY <1>1 DEF Behind, Step
  <2>4. Behind(e, op)' = Behind(e, op) \cup Does(run[e].pc, op)
    BY <2>2, <2>3 DEF Behind, Does
  <2>. QED
    BY <2>4
<1>. QED
  BY <1>2, <1>3

LEMMA NextCharged == Typing /\ ChargedSoFar /\ [Next]_vars => ChargedSoFar'
<1>. SUFFICES ASSUME Typing, ChargedSoFar, [Next]_vars, NEW e \in Executors
              PROVE  run'[e].charged = {Step(i).guard : i \in Behind(e, "guard")}'
  BY Zenon DEF ChargedSoFar
<1>1. plan' = plan
  BY StepCases DEF Settled
<1>2. CASE run'[e].pc = run[e].pc /\ run'[e].charged = run[e].charged
  BY <1>1, <1>2, BehindFacts DEF ChargedSoFar, Step
<1>3. CASE Passes(e, run[e], run'[e])
  <2>1. run'[e].charged = run[e].charged \cup Charges(run[e].pc)
    BY <1>3 DEF Passes
  <2>2. Behind(e, "guard")' = Behind(e, "guard") \cup Does(run[e].pc, "guard")
    BY <1>3, BehindFacts
  <2>3. {Step(i).guard : i \in Behind(e, "guard") \cup Does(run[e].pc, "guard")}
          = {Step(i).guard : i \in Behind(e, "guard")} \cup Charges(run[e].pc)
    BY DEF Charges, Does
  <2>4. {Step(i).guard : i \in Behind(e, "guard")}'
          = {Step(i).guard : i \in Behind(e, "guard") \cup Does(run[e].pc, "guard")}
    BY <1>1, <2>2 DEF Step
  <2>. QED
    BY <2>1, <2>3, <2>4 DEF ChargedSoFar
<1>. QED
  BY <1>2, <1>3, StepCases DEF Ends

LEMMA NextCauses == Typing /\ Causes /\ [Next]_vars => Causes'
<1>. SUFFICES ASSUME Typing, Causes, [Next]_vars, NEW e \in Executors
              PROVE  /\ run'[e].written # {} => Behind(e, "write")' # {}
                     /\ run'[e].read = Behind(e, "read")'
                     /\ run'[e].sessions = Behind(e, "session")'
                     /\ run'[e].sent \subseteq Behind(e, "send")'
                     /\ ToSet(run'[e].cookies) = Behind(e, "session")' \cup Behind(e, "cookie")'
                     /\ ToSet(run'[e].patches) = Behind(e, "patch")'
  BY DEF Causes
<1>1. CASE /\ run'[e].pc = run[e].pc /\ run'[e].written = run[e].written
           /\ run'[e].read = run[e].read /\ run'[e].sessions = run[e].sessions
           /\ run'[e].sent = run[e].sent /\ run'[e].cookies = run[e].cookies
           /\ run'[e].patches = run[e].patches
  BY <1>1, BehindFacts DEF Causes
<1>2. CASE Passes(e, run[e], run'[e])
  <2>. DEFINE i == run[e].pc
  <2>1. \A op : Behind(e, op)' = Behind(e, op) \cup Does(i, op)
    BY <1>2, BehindFacts
  <2>2. i \in Nat /\ run[e].cookies \in Seq(Nat) /\ run[e].patches \in Seq(Nat)
    BY DEF Typing, RunTypes, Runs
  <2>3. ToSet(run'[e].cookies)
          = ToSet(run[e].cookies) \cup Does(i, "session") \cup Does(i, "cookie")
    BY <1>2, <2>2, ToSetAppend DEF Passes, Cookies, Does
  <2>4. ToSet(run'[e].patches) = ToSet(run[e].patches) \cup Does(i, "patch")
    <3>1. ToSet(Append(run[e].patches, i)) = ToSet(run[e].patches) \cup {i}
      BY <2>2, ToSetAppend
    <3>2. run'[e].patches = Patches(run[e].patches, i)
      BY <1>2 DEF Passes
    <3>. QED
      BY <3>1, <3>2 DEF Patches, Does
  <2>5. run'[e].written # {} => Behind(e, "write") \cup Does(i, "write") # {}
    BY <1>2 DEF Causes, Passes, Writes, Does
  <2>6. /\ run'[e].read = run[e].read \cup Does(i, "read")
        /\ run'[e].sessions = run[e].sessions \cup Does(i, "session")
        /\ run'[e].sent \subseteq run[e].sent \cup Does(i, "send")
    BY <1>2 DEF Passes
  <2>. HIDE DEF i
  <2>. QED
    BY <2>1, <2>3, <2>4, <2>5, <2>6 DEF Causes
<1>. QED
  BY <1>1, <1>2, StepCases DEF Ends

-----------------------------------------------------------------------------
(* What an answer tells.                                                   *)

Reported ==
    \A e \in Executors :
        /\ KeysOnce(run[e].invalidations)
        /\ plan.kind = "action" => \A c \in run[e].written : Tells(run[e].invalidations, c)
        /\ run[e].handed = Handed(e, run[e].answer, run[e].cookies)

LEMMA NextReported == Typing /\ Reported /\ [Next]_vars => Reported'
<1>. SUFFICES ASSUME Typing, Reported, [Next]_vars, NEW e \in Executors
              PROVE  (/\ KeysOnce(run[e].invalidations)
                      /\ plan.kind = "action" => \A c \in run[e].written : Tells(run[e].invalidations, c)
                      /\ run[e].handed = Handed(e, run[e].answer, run[e].cookies))'
  BY Zenon DEF Reported
<1>. DEFINE Good(s) ==
        /\ KeysOnce(s.invalidations)
        /\ plan.kind = "action" => \A c \in s.written : Tells(s.invalidations, c)
        /\ s.handed = Handed(e, s.answer, s.cookies)
<1>1. plan' = plan /\ Good(run[e])
  BY StepCases DEF Reported, Settled
<1>2. CASE run'[e] = run[e]
  BY <1>1, <1>2 DEF KeysOnce, Tells, Handed
<1>3. CASE run[e].answer = "none" /\ Passes(e, run[e], run'[e])
  <2>. DEFINE i == run[e].pc
  <2>1. i \in Spots /\ run[e].invalidations \in Seq(Targets)
    BY <1>3 DEF Passes, Typing, RunTypes, Runs
  <2>2. /\ run'[e].invalidations = Invalidations(run[e].invalidations, i)
        /\ run'[e].written = run[e].written \cup Writes(i)
        /\ run'[e].answer = "none"
    BY <1>3 DEF Passes
  <2>3. /\ Step(i).op = "write" => \/ \E c \in Collections : Step(i).on = <<c>>
                                   \/ \E a, b \in Collections : Step(i).on = <<a, b>>
        /\ Step(i).op = "revalidate" /\ plan.kind = "action" => Step(i).target \in Targets
    BY <2>1, StepShapes DEF Typing
  <2>. HIDE DEF i
  <2>4. KeysOnce(Invalidations(run[e].invalidations, i))
    BY <1>1, <2>1, <2>3, PushWritesFacts, PushExplicitFacts DEF Invalidations
  <2>5. ASSUME plan.kind = "action", NEW c \in run[e].written \cup Writes(i)
        PROVE  Tells(Invalidations(run[e].invalidations, i), c)
    <3>1. CASE Step(i).op = "write"
      BY <1>1, <2>1, <2>3, <2>5, <3>1, PushWritesFacts DEF Invalidations, Writes
    <3>2. CASE Step(i).op = "revalidate"
      BY <1>1, <2>1, <2>3, <2>5, <3>2, PushExplicitFacts DEF Invalidations, Writes
    <3>3. CASE Step(i).op \notin {"write", "revalidate"}
      BY <1>1, <2>5, <3>3 DEF Invalidations, Writes
    <3>. QED
      BY <3>1, <3>2, <3>3
  <2>6. run'[e].handed = Handed(e, run'[e].answer, run'[e].cookies)
    BY <1>1, <1>3, <2>2 DEF Passes, Handed
  <2>. QED
    BY <1>1, <2>2, <2>4, <2>5, <2>6 DEF KeysOnce, Tells, Handed
<1>4. ASSUME NEW a \in Answers \ {"none"}, Ends(e, run[e], run'[e], a)
      PROVE  Good(run[e])'
  BY <1>1, <1>4 DEF Ends, KeysOnce, Tells, Handed
<1>. QED
  BY <1>2, <1>3, <1>4, StepCases

(* A hook that was met is in force.                                        *)
NoStoreAt(i) == Step(i).op = "hook" /\ Step(i).does = "noStore"
InForce ==
    \A e \in Executors : \A i \in 1..(run[e].pc - 1) : NoStoreAt(i) =>
        IF Kept(e, i) THEN "noStore" \in ToSet(run[e].after)
        ELSE run[e].answer = "none" /\ (\A j \in i..(run[e].pc - 1) : Step(j).op # "header") =>
                run[e].header = "noStore"

LEMMA NextInForce == Typing /\ InForce /\ [Next]_vars => InForce'
<1>. SUFFICES ASSUME Typing, InForce, [Next]_vars, NEW e \in Executors,
                     NEW i \in 1..(run'[e].pc - 1), NoStoreAt(i)'
              PROVE  (IF Kept(e, i) THEN "noStore" \in ToSet(run[e].after)
                      ELSE run[e].answer = "none"
                              /\ (\A j \in i..(run[e].pc - 1) : Step(j).op # "header") =>
                           run[e].header = "noStore")'
  BY Zenon DEF InForce
<1>1. plan' = plan /\ run[e].pc \in Nat \ {0} /\ run[e].after \in Seq(Hooks)
  BY StepCases DEF Settled, Typing, RunTypes, Runs
<1>. DEFINE Goal(s) == IF Kept(e, i) THEN "noStore" \in ToSet(s.after)
                       ELSE s.answer = "none" /\ (\A j \in i..(s.pc - 1) : Step(j).op # "header") =>
                              s.header = "noStore"
<1>2. NoStoreAt(i)
  BY <1>1 DEF NoStoreAt, Step
<1>3. Goal(run'[e])
  <2>1. CASE run'[e] = run[e]
    BY <1>2, <2>1 DEF InForce
  <2>2. CASE Passes(e, run[e], run'[e])
    <3>1. /\ run'[e].pc = run[e].pc + 1 /\ run'[e].answer = run[e].answer
          /\ run'[e].header = HeaderAfter(e, run[e].header, run[e].pc)
          /\ run'[e].after = After(e, run[e].after, run[e].pc)
      BY <2>2 DEF Passes
    <3>2. CASE i = run[e].pc
      <4>1. CASE Kept(e, i)
        <5>1. Step(i).does \in Hooks /\ run'[e].after = Append(run[e].after, "noStore")
          BY <1>2, <3>1, <3>2, <4>1 DEF NoStoreAt, After, Hooks
        <5>2. "noStore" \in ToSet(run'[e].after)
          BY <1>1, <5>1, ToSetAppend DEF Hooks
        <5>. QED
          BY <4>1, <5>2
      <4>2. CASE ~ Kept(e, i)
        BY <1>2, <3>1, <3>2, <4>2 DEF NoStoreAt, HeaderAfter
      <4>. QED
        BY <4>1, <4>2
    <3>3. CASE i \in 1..(run[e].pc - 1)
      <4>1. CASE Kept(e, i)
        <5>1. "noStore" \in ToSet(run[e].after)
          BY <1>2, <3>3, <4>1 DEF InForce
        <5>2. \A x \in Hooks : ToSet(Append(run[e].after, x)) = ToSet(run[e].after) \cup {x}
          BY <1>1, ToSetAppend
        <5>3. Kept(e, run[e].pc) => Step(run[e].pc).does \in Hooks
          BY <2>2, StepShapes DEF Passes, Kept, Typing
        <5>4. "noStore" \in ToSet(run'[e].after)
          BY <3>1, <5>1, <5>2, <5>3 DEF After
        <5>. QED
          BY <4>1, <5>4
      <4>2. CASE ~ Kept(e, i)
        <5>. SUFFICES ASSUME run'[e].answer = "none",
                             \A j \in i..(run'[e].pc - 1) : Step(j).op # "header"
                      PROVE  run'[e].header = "noStore"
          BY <4>2
        <5>1. i..(run[e].pc - 1) \subseteq i..(run'[e].pc - 1) /\ run[e].pc \in i..(run'[e].pc - 1)
          BY <1>1, <3>1, <3>3
        <5>2. run[e].header = "noStore"
          BY <1>2, <3>1, <3>3, <4>2, <5>1 DEF InForce
        <5>3. Step(run[e].pc).op # "header"
          BY <5>1
        <5>. QED
          BY <3>1, <5>2, <5>3 DEF HeaderAfter
      <4>. QED
        BY <4>1, <4>2
    <3>. QED
      BY <1>1, <3>1, <3>2, <3>3
  <2>3. ASSUME NEW a \in Answers \ {"none"}, Ends(e, run[e], run'[e], a)
        PROVE  Goal(run'[e])
    <3>1. run'[e].pc = run[e].pc /\ run'[e].answer # "none" /\ run'[e].after = run[e].after
      BY <2>3 DEF Ends
    <3>. QED
      BY <1>2, <3>1 DEF InForce
  <2>. QED
    BY <2>1, <2>2, <2>3, StepCases
<1>. QED
  BY <1>1, <1>3 DEF Kept, Step

LEMMA NextPolicies ==
    Typing /\ InForce /\ PoliciesReachAnswers /\ [Next]_vars => PoliciesReachAnswers'
<1>. SUFFICES ASSUME Typing, InForce, PoliciesReachAnswers, [Next]_vars
              PROVE  PoliciesReachAnswers'
  OBVIOUS
<1>0. plan' = plan
  BY StepCases DEF Settled, Executors
<1>. SUFFICES ASSUME NEW e \in Executors, run'[e].answer \notin {"none", "failed"},
                     NEW i \in 1..(run'[e].pc - 1), NoStoreAt(i),
                     \/ e = "preview" /\ plan.steps[i].phase = "after"
                     \/ \A j \in i..(run'[e].pc - 1) : plan.steps[j].op # "header"
              PROVE  run'[e].header = "noStore"
  BY <1>0 DEF PoliciesReachAnswers, NoStoreAt, Step
<1>1. CASE run'[e] = run[e]
  BY <1>1 DEF PoliciesReachAnswers, NoStoreAt, Step
<1>2. CASE run[e].answer = "none" /\ Passes(e, run[e], run'[e])
  BY <1>2 DEF Passes
<1>3. ASSUME NEW a \in Answers \ {"none"}, run[e].answer = "none", Ends(e, run[e], run'[e], a)
      PROVE  run'[e].header = "noStore"
  <2>1. /\ run'[e].pc = run[e].pc /\ a \notin {"none", "failed"}
        /\ run'[e].header = HeaderOf(a, run[e].header, run[e].after)
    BY <1>3 DEF Ends
  <2>2. i \in Spots
    BY <2>1 DEF Typing, Given, PlanTypes, RunTypes
  <2>3. plan.kind = "route"
    BY <2>2, StepShapes DEF NoStoreAt, Typing
  <2>4. "noStore" \in ToSet(run[e].after) \/ run[e].header = "noStore"
    <3>1. CASE Kept(e, i)
      BY <2>1, <3>1 DEF InForce
    <3>2. CASE ~ Kept(e, i)
      BY <1>3, <2>1, <3>2 DEF InForce, Kept, NoStoreAt, Step
    <3>. QED
      BY <3>1, <3>2
  <2>. QED
    BY <2>1, <2>3, <2>4 DEF HeaderOf
<1>. QED
  BY <1>1, <1>2, <1>3, StepCases

-----------------------------------------------------------------------------
(* The inductive invariant of a handler's executions.                      *)
IInv ==
    /\ Typing /\ Passage /\ Reasons /\ ChargedSoFar /\ Causes /\ Reported
    /\ InForce /\ PoliciesReachAnswers

LEMMA InitIInv == Init => IInv
<1>. SUFFICES ASSUME Init PROVE IInv
  OBVIOUS
<1>1. /\ Given /\ RunTypes
      /\ \A e \in Executors : run[e] = Fresh
  BY InitGiven, InitRun
<1>2. /\ Fresh.pc = 1 /\ Fresh.answer = "none" /\ Fresh.after = <<>> /\ Fresh.charged = {}
      /\ Fresh.written = {} /\ Fresh.read = {} /\ Fresh.sessions = {} /\ Fresh.sent = {}
      /\ Fresh.handed = <<>> /\ Fresh.cookies = <<>> /\ Fresh.patches = <<>> /\ Fresh.invalidations = <<>>
  BY DEF Fresh
<1>3. ToSet(<<>>) = {} /\ KeysOnce(<<>>)
  BY DEF ToSet, KeysOnce
<1>4. Typing
  BY <1>1, <1>2 DEF Typing, NothingKept, Executors
<1>5. \A e \in Executors : 1..(run[e].pc - 1) = {}
  BY <1>1, <1>2
<1>6. \A e \in Executors : \A op : Behind(e, op) = {}
  BY <1>5 DEF Behind
<1>7. Passage /\ InForce /\ PoliciesReachAnswers
  BY <1>5 DEF Passage, InForce, PoliciesReachAnswers
<1>8. Reasons
  BY <1>1, <1>2 DEF Reasons
<1>9. ChargedSoFar
  BY <1>1, <1>2, <1>6 DEF ChargedSoFar
<1>10. Causes
  BY <1>1, <1>2, <1>3, <1>6 DEF Causes
<1>11. Reported
  BY <1>1, <1>2, <1>3 DEF Reported, Handed
<1>. QED
  BY <1>4, <1>7, <1>8, <1>9, <1>10, <1>11 DEF IInv

LEMMA NextIInv == IInv /\ [Next]_vars => IInv'
  BY NextTyping, NextPassage, NextReasons, NextCharged, NextCauses, NextReported, NextInForce,
     NextPolicies DEF IInv

(* The invariant holds of every reachable state: the plan and the world    *)
(* stay as they are, every step passed had no reason to end the execution, *)
(* and all that an execution has done and will tell is what those steps    *)
(* say.                                                                    *)
THEOREM Inductive == Spec => []IInv
  BY InitIInv, NextIInv, PTL DEF Spec

(* The shapes of the plan, of the world and of the two executions: an      *)
(* execution stays within the plan, cookies are handed over for steps of   *)
(* it, and a query key is invalidated once.                                *)
THEOREM TypeCorrect == Spec => []TypeOK
<1>. SUFFICES ASSUME IInv PROVE TypeOK
  BY Inductive, PTL
<1>1. /\ Given /\ RunTypes /\ Len(plan.steps) \in Nat /\ Len(plan.steps) <= MaxSteps
      /\ Spots = 1..Len(plan.steps) /\ Spots \subseteq 1..MaxSteps
  BY StepAssumption DEF IInv, Typing, Given, PlanTypes
<1>2. /\ plan.kind \in Kinds /\ plan.globals \in 0..Len(plan.steps)
      /\ fails \subseteq 1..MaxSteps /\ unmet \subseteq 1..MaxSteps /\ spent \subseteq Guards
      /\ broken \in BOOLEAN
  BY <1>1 DEF Given, PlanTypes, WorldTypes
<1>3. ASSUME NEW e \in Executors
      PROVE  /\ run[e].pc \in 1..(MaxSteps + 1)
             /\ run[e].answer \in Answers
             /\ run[e].header \in {"none", "noStore", "own"}
             /\ run[e].redirect \in Collections \cup {NoPage, ReturnPage}
             /\ ToSet(run[e].handed) \subseteq 1..MaxSteps
             /\ KeysOnce(run[e].invalidations)
  <2>1. run[e] \in Runs /\ run[e].pc \in 1..(Len(plan.steps) + 1)
    BY <1>1 DEF RunTypes
  <2>2. run[e].pc \in 1..(MaxSteps + 1)
    BY <1>1, <2>1, StepAssumption
  <2>3. ToSet(run[e].cookies) \subseteq 1..MaxSteps
    BY <1>1, <2>1, StepAssumption DEF IInv, Causes, Behind
  <2>4. ToSet(run[e].handed) \subseteq 1..MaxSteps
    <3>1. run[e].handed = <<>> \/ run[e].handed = run[e].cookies
      BY DEF IInv, Reported, Handed
    <3>2. ToSet(<<>>) = {}
      BY DEF ToSet
    <3>. QED
      BY <2>3, <3>1, <3>2
  <2>. QED
    BY <2>1, <2>2, <2>4 DEF Runs, IInv, Reported
<1>. QED
  BY <1>1, <1>2, <1>3 DEF TypeOK, RunTypes, KeysOnce

(* A no-store policy hook met on the way is in the answer.                 *)
THEOREM PoliciesHold == Spec => []PoliciesReachAnswers
  BY Inductive, PTL DEF IInv

(* An answer tells the browser of all the handler did: a success of an     *)
(* action names every collection written, and the cookie of every session  *)
(* made or ended is handed over.                                           *)
THEOREM AnswersTellEffects == Spec => []AnswerTellsEveryEffect
<1>. SUFFICES ASSUME IInv PROVE AnswerTellsEveryEffect
  BY Inductive, PTL
<1>1. ASSUME NEW e \in Executors
      PROVE  /\ plan.kind = "action" => \A c \in run[e].written : Tells(run[e].invalidations, c)
             /\ run[e].handed = Handed(e, run[e].answer, run[e].cookies)
             /\ run[e].sessions \subseteq ToSet(run[e].cookies)
  BY DEF IInv, Reported, Causes
<1>. QED
  BY <1>1 DEF AnswerTellsEveryEffect, Tells, Handed

(* What a handler does of its own comes after all its guards.              *)
LEMMA GuardsBehind ==
    ASSUME Given, NEW i \in Spots, Step(i).op \in {"write", "session", "send", "cookie", "patch"}
    PROVE  i > plan.globals /\ \A g \in Spots : Step(g).op = "guard" => g < i
<1>1. i > plan.globals
  BY DEF Given, PlanTypes
<1>2. ~ Before(Step(i))
  BY DEF Before
<1>3. ASSUME NEW g \in Spots, Step(g).op = "guard"
      PROVE  g < i
  <2>1. ~ (i < g)
    BY <1>1, <1>2, <1>3 DEF Given, OwnStepsValid
  <2>2. i # g
    BY <1>3
  <2>. QED
    BY <2>1, <2>2 DEF Given, PlanTypes
<1>. QED
  BY <1>1, <1>3

AllGuards == {plan.steps[i].guard : i \in {j \in DOMAIN plan.steps : plan.steps[j].op = "guard"}}

(* Whoever a guard refuses has caused nothing and read no data but the     *)
(* bindings of the backend root; and whatever a handler causes was         *)
(* admitted and charged by each of its guards.                             *)
THEOREM GuardsAreFirst == Spec => []GuardsComeFirst
<1>. SUFFICES ASSUME IInv PROVE GuardsComeFirst
  BY Inductive, PTL
<1>0. Given /\ RunTypes /\ Spots = 1..Len(plan.steps) /\ Len(plan.steps) \in Nat /\ plan.globals \in Nat
  BY DEF IInv, Typing, Given, PlanTypes
<1>1. ASSUME NEW e \in Executors
      PROVE  run[e].pc \in 1..(Len(plan.steps) + 1) /\ 1..(run[e].pc - 1) \subseteq Spots
             /\ run[e] \in Runs
  BY <1>0 DEF RunTypes
<1>2. ASSUME NEW e \in Executors, run[e].answer = "limited"
      PROVE  /\ run[e].written = {} /\ run[e].sessions = {} /\ run[e].sent = {}
             /\ run[e].handed = <<>> /\ run[e].patches = <<>>
             /\ run[e].read \subseteq 1..plan.globals
  <2>1. run[e].pc \in Spots /\ Step(run[e].pc).op = "guard"
    <3>1. Reason(e, run[e].pc, "limited")
      BY <1>2 DEF IInv, Reasons
    <3>2. ~ Concludes(e, "limited")
      BY DEF Concludes
    <3>3. run[e].pc \in Spots /\ Halts(e, run[e].pc, "limited")
      BY <3>1, <3>2 DEF Reason
    <3>4. Step(run[e].pc).op = "require" => Step(run[e].pc).fallback # "limited"
      BY <1>0, <3>3, StepShapes
    <3>. QED
      BY <3>3, <3>4 DEF Halts
  <2>2. \A op \in {"write", "session", "send", "cookie", "patch"} : Behind(e, op) = {}
    <3>1. ASSUME NEW op \in {"write", "session", "send", "cookie", "patch"}, NEW i \in Behind(e, op)
          PROVE  FALSE
      <4>1. i \in Spots /\ i \in 1..(run[e].pc - 1) /\ Step(i).op = op
        BY <1>1 DEF Behind
      <4>2. run[e].pc < i
        BY <1>0, <2>1, <3>1, <4>1, GuardsBehind
      <4>. QED
        BY <1>1, <4>1, <4>2
    <3>. QED
      BY <3>1
  <2>3. run[e].read \subseteq 1..plan.globals
    <3>1. ASSUME NEW i \in Behind(e, "read")
          PROVE  i \in 1..plan.globals
      <4>1. i \in Spots /\ i \in 1..(run[e].pc - 1) /\ Step(i).op = "read"
        BY <1>1 DEF Behind
      <4>2. ~ Before(Step(i)) /\ i < run[e].pc /\ i \in Nat \ {0}
        BY <1>1, <4>1 DEF Before
      <4>3. ~ (plan.globals < i)
        BY <1>0, <2>1, <4>1, <4>2 DEF Given, OwnStepsValid
      <4>. QED
        BY <1>0, <4>2, <4>3
    <3>. QED
      BY <3>1 DEF IInv, Causes
  <2>4. /\ run[e].written = {} /\ run[e].sessions = {} /\ run[e].sent = {}
        /\ ToSet(run[e].cookies) = {} /\ ToSet(run[e].patches) = {}
    BY <2>2 DEF IInv, Causes
  <2>5. \A list \in Seq(Nat) : ToSet(list) = {} => list = <<>>
    <3>1. ASSUME NEW list \in Seq(Nat), ToSet(list) = {}
          PROVE  list = <<>>
      <4>1. Len(list) \in Nat /\ DOMAIN list = 1..Len(list) /\ 1 \notin 1..Len(list)
        BY <3>1, LenProperties DEF ToSet
      <4>2. Len(list) = 0
        BY <4>1
      <4>. QED
        BY <4>2, EmptySeq
    <3>. QED
      BY <3>1
  <2>6. run[e].handed = run[e].cookies
    BY <1>2 DEF IInv, Reported, Handed
  <2>. QED
    BY <1>1, <2>3, <2>4, <2>5, <2>6 DEF Runs
<1>3. ASSUME NEW e \in Executors, run[e].written \cup run[e].sessions \cup run[e].sent # {}
      PROVE  run[e].charged = AllGuards /\ AllGuards \cap spent = {}
  <2>1. PICK op \in {"write", "session", "send"} : Behind(e, op) # {}
    BY <1>3 DEF IInv, Causes
  <2>2. PICK i \in Behind(e, op) : TRUE
    BY <2>1
  <2>3. i \in Spots /\ i \in 1..(run[e].pc - 1) /\ Step(i).op = op
    BY <1>1, <2>2 DEF Behind
  <2>4. \A g \in Spots : Step(g).op = "guard" => g \in 1..(run[e].pc - 1)
    <3>1. \A g \in Spots : Step(g).op = "guard" => g < i
      BY <1>0, <2>1, <2>3, GuardsBehind
    <3>. QED
      BY <1>0, <1>1, <2>3, <3>1
  <2>5. Behind(e, "guard") = {j \in DOMAIN plan.steps : plan.steps[j].op = "guard"}
    BY <1>1, <2>4 DEF Behind, Spots, Step
  <2>6. run[e].charged = AllGuards
    BY <2>5 DEF IInv, ChargedSoFar, AllGuards, Step
  <2>7. ASSUME NEW g \in Spots, Step(g).op = "guard"
        PROVE  Step(g).guard \notin spent
    <3>1. ~ Halts(e, g, "failed") /\ ~ Halts(e, g, "limited")
      BY <2>4, <2>7 DEF IInv, Passage
    <3>. QED
      BY <2>7, <3>1 DEF Halts, Skipped
  <2>8. AllGuards \cap spent = {}
    BY <2>7 DEF AllGuards, Spots, Step
  <2>. QED
    BY <2>6, <2>8
<1>. QED
  BY <1>2, <1>3, Zenon DEF GuardsComeFirst, AllGuards

-----------------------------------------------------------------------------
(* The two executions compared.  Each is the course of the plan up to where *)
(* it is, told step by step, and the two courses of one plan are the same. *)

WrittenSoFar ==
    \A e \in Executors : run[e].written = UNION {Writes(i) : i \in 1..(run[e].pc - 1)}

(* The lists an answer tells, from the first step on.                      *)
Start == [cookies |-> <<>>, patches |-> <<>>, invalidations |-> <<>>, redirect |-> NoPage]
Tell(told, i) ==
    [cookies |-> Cookies(told.cookies, i), patches |-> Patches(told.patches, i),
     invalidations |-> Invalidations(told.invalidations, i),
     redirect |-> Redirect(told.redirect, i)]
IsCourse(T, n) == T[1] = Start /\ \A i \in 1..(n - 1) : T[i + 1] = Tell(T[i], i)
LeavesForPage(r) == plan.kind = "action" /\ plan.returns # "value" /\ r.answer = "ok"
Told(r, told) ==
    /\ r.cookies = told.cookies /\ r.patches = told.patches
    /\ r.invalidations = told.invalidations
    /\ r.redirect = told.redirect \/ LeavesForPage(r)
ToldInOrder == \A e \in Executors : \E T : IsCourse(T, run[e].pc) /\ Told(run[e], T[run[e].pc])

(* What the last step that says something of caching said.                 *)
Sets(e, i) == Step(i).op = "header" \/ (NoStoreAt(i) /\ ~ Kept(e, i))
SetTo(i) == IF Step(i).op = "header" THEN "own" ELSE "noStore"
Said(e, n, h) ==
    \/ h = "none" /\ \A i \in 1..(n - 1) : ~ Sets(e, i)
    \/ \E i \in 1..(n - 1) :
         Sets(e, i) /\ h = SetTo(i) /\ \A j \in 1..(n - 1) : j > i => ~ Sets(e, j)
KeptBehind(e) == \E i \in 1..(run[e].pc - 1) : NoStoreAt(i) /\ Kept(e, i)
HeaderSaid ==
    \A e \in Executors :
        /\ \E h : /\ Said(e, run[e].pc, h)
                  /\ run[e].header = IF run[e].answer = "none" THEN h
                                     ELSE HeaderOf(run[e].answer, h, run[e].after)
        /\ "noStore" \in ToSet(run[e].after) <=> KeptBehind(e)

CompiledWaits == run["preview"].answer = "none" => run["compiled"].answer = "none"

LEMMA NextWritten == Typing /\ WrittenSoFar /\ [Next]_vars => WrittenSoFar'
<1>. SUFFICES ASSUME Typing, WrittenSoFar, [Next]_vars PROVE WrittenSoFar'
  OBVIOUS
<1>0. plan' = plan
  BY StepCases DEF Settled, Executors
<1>. SUFFICES ASSUME NEW e \in Executors
              PROVE  run'[e].written = UNION {Writes(i) : i \in 1..(run'[e].pc - 1)}
  BY <1>0 DEF WrittenSoFar, Writes, Step
<1>1. CASE run'[e].pc = run[e].pc /\ run'[e].written = run[e].written
  BY <1>1 DEF WrittenSoFar
<1>2. CASE Passes(e, run[e], run'[e])
  <2>1. run[e].pc \in Nat \ {0}
    BY DEF Typing, RunTypes
  <2>2. run'[e].pc = run[e].pc + 1 /\ run'[e].written = run[e].written \cup Writes(run[e].pc)
    BY <1>2 DEF Passes
  <2>3. 1..(run'[e].pc - 1) = 1..(run[e].pc - 1) \cup {run[e].pc}
    BY <2>1, <2>2
  <2>4. UNION {Writes(i) : i \in 1..(run[e].pc - 1) \cup {run[e].pc}}
          = (UNION {Writes(i) : i \in 1..(run[e].pc - 1)}) \cup Writes(run[e].pc)
    OBVIOUS
  <2>. QED
    BY <2>2, <2>3, <2>4 DEF WrittenSoFar
<1>. QED
  BY <1>1, <1>2, StepCases DEF Ends

LEMMA NextToldInOrder == Typing /\ ToldInOrder /\ [Next]_vars => ToldInOrder'
<1>. SUFFICES ASSUME Typing, ToldInOrder, [Next]_vars PROVE ToldInOrder'
  OBVIOUS
<1>0. plan' = plan
  BY StepCases DEF Settled, Executors
<1>. SUFFICES ASSUME NEW e \in Executors
              PROVE  \E T : IsCourse(T, run'[e].pc) /\ Told(run'[e], T[run'[e].pc])
  BY <1>0 DEF ToldInOrder, IsCourse, Tell, Cookies, Patches, Invalidations, Redirect, Step, Told,
              LeavesForPage
<1>1. PICK T : IsCourse(T, run[e].pc) /\ Told(run[e], T[run[e].pc])
  BY DEF ToldInOrder
<1>2. CASE run'[e] = run[e]
  BY <1>1, <1>2
<1>3. CASE run[e].answer = "none" /\ Passes(e, run[e], run'[e])
  <2>1. run[e].pc \in Nat \ {0}
    BY DEF Typing, RunTypes
  <2>2. PICK n : n = run[e].pc
    OBVIOUS
  <2>3. PICK U : U = [i \in 1..(n + 1) |-> IF i <= n THEN T[i] ELSE Tell(T[n], n)]
    OBVIOUS
  <2>4. n \in Nat \ {0} /\ n \in 1..(n + 1) /\ (n + 1) \in 1..(n + 1) /\ ~ (n + 1 <= n)
    BY <2>1, <2>2
  <2>5. U[n + 1] = Tell(T[n], n) /\ \A i \in 1..n : U[i] = T[i]
    BY <2>3, <2>4
  <2>6. IsCourse(U, n + 1)
    <3>1. U[1] = Start
      BY <1>1, <2>4, <2>5 DEF IsCourse
    <3>2. ASSUME NEW i \in 1..n
          PROVE  U[i + 1] = Tell(U[i], i)
      <4>1. CASE i = n
        BY <2>5, <4>1
      <4>2. CASE i \in 1..(n - 1)
        <5>1. T[i + 1] = Tell(T[i], i) /\ i + 1 \in 1..n
          BY <1>1, <2>2, <2>4, <4>2 DEF IsCourse
        <5>. QED
          BY <2>5, <5>1
      <4>. QED
        BY <2>4, <4>1, <4>2
    <3>. QED
      BY <2>4, <3>1, <3>2 DEF IsCourse
  <2>7. /\ run[e].cookies = T[n].cookies /\ run[e].patches = T[n].patches
        /\ run[e].invalidations = T[n].invalidations /\ run[e].redirect = T[n].redirect
    BY <1>1, <1>3, <2>2 DEF Told, LeavesForPage
  <2>8. /\ run'[e].pc = n + 1
        /\ run'[e].cookies = Cookies(T[n].cookies, n)
        /\ run'[e].patches = Patches(T[n].patches, n)
        /\ run'[e].invalidations = Invalidations(T[n].invalidations, n)
        /\ run'[e].redirect = Redirect(T[n].redirect, n)
    BY <1>3, <2>2, <2>7 DEF Passes
  <2>9. Told(run'[e], Tell(T[n], n))
    BY <2>8 DEF Told, Tell
  <2>. QED
    BY <2>5, <2>6, <2>8, <2>9
<1>4. ASSUME NEW a \in Answers \ {"none"}, run[e].answer = "none", Ends(e, run[e], run'[e], a)
      PROVE  IsCourse(T, run'[e].pc) /\ Told(run'[e], T[run'[e].pc])
  <2>1. Told(run'[e], T[run[e].pc])
    BY <1>1, <1>4 DEF Told, Ends, LeavesForPage
  <2>. QED
    BY <1>1, <1>4, <2>1 DEF Ends
<1>. QED
  BY <1>2, <1>3, <1>4, StepCases

LEMMA NextHeaderSaid == Typing /\ HeaderSaid /\ [Next]_vars => HeaderSaid'
<1>. SUFFICES ASSUME Typing, HeaderSaid, [Next]_vars PROVE HeaderSaid'
  OBVIOUS
<1>0. plan' = plan
  BY StepCases DEF Settled, Executors
<1>. DEFINE Heads(e, s) == \E h : /\ Said(e, s.pc, h)
                                  /\ s.header = IF s.answer = "none" THEN h
                                                ELSE HeaderOf(s.answer, h, s.after)
            Keeps(e, s) == "noStore" \in ToSet(s.after) <=>
                              \E i \in 1..(s.pc - 1) : NoStoreAt(i) /\ Kept(e, i)
<1>. SUFFICES ASSUME NEW e \in Executors PROVE Heads(e, run'[e]) /\ Keeps(e, run'[e])
  BY <1>0 DEF HeaderSaid, KeptBehind, Said, Sets, SetTo, NoStoreAt, Kept, HeaderOf, Step
<1>1. Heads(e, run[e]) /\ Keeps(e, run[e])
  BY DEF HeaderSaid, KeptBehind
<1>2. run[e].pc \in Nat \ {0} /\ run[e].after \in Seq(Hooks)
  BY DEF Typing, RunTypes, Runs
<1>3. CASE run[e].answer = "none" /\ Passes(e, run[e], run'[e])
  <2>1. PICK n : n = run[e].pc
    OBVIOUS
  <2>2. PICK h : Said(e, n, h) /\ run[e].header = h
    BY <1>1, <1>3, <2>1
  <2>3. /\ run'[e].pc = n + 1 /\ run'[e].answer = "none"
        /\ run'[e].header = HeaderAfter(e, h, n) /\ run'[e].after = After(e, run[e].after, n)
    BY <1>3, <2>1, <2>2 DEF Passes
  <2>4. n \in Nat \ {0} /\ 1..((n + 1) - 1) = 1..(n - 1) \cup {n}
    BY <1>2, <2>1
  <2>5. ASSUME Sets(e, n)
        PROVE  Heads(e, run'[e])
    <3>1. HeaderAfter(e, h, n) = SetTo(n)
      BY <2>5 DEF Sets, SetTo, HeaderAfter, NoStoreAt
    <3>2. Said(e, n + 1, SetTo(n))
      BY <2>4, <2>5 DEF Said
    <3>. QED
      BY <2>3, <3>1, <3>2
  <2>6. ASSUME ~ Sets(e, n)
        PROVE  Heads(e, run'[e])
    <3>1. HeaderAfter(e, h, n) = h
      BY <2>6 DEF Sets, HeaderAfter, NoStoreAt
    <3>2. Said(e, n + 1, h)
      BY <2>2, <2>4, <2>6 DEF Said
    <3>. QED
      BY <2>3, <3>1, <3>2
  <2>7. Heads(e, run'[e])
    BY <2>5, <2>6
  <2>8. "noStore" \in ToSet(run'[e].after) <=>
          ("noStore" \in ToSet(run[e].after) \/ (NoStoreAt(n) /\ Kept(e, n)))
    <3>1. CASE Kept(e, n)
      <4>1. Step(n).does \in Hooks /\ Step(n).op = "hook"
        BY <1>3, <2>1, <3>1, StepShapes DEF Passes, Kept, Typing
      <4>2. ToSet(run'[e].after) = ToSet(run[e].after) \cup {Step(n).does}
        BY <1>2, <2>3, <3>1, <4>1, ToSetAppend DEF After
      <4>. QED
        BY <3>1, <4>1, <4>2 DEF NoStoreAt
    <3>2. CASE ~ Kept(e, n)
      BY <2>3, <3>2 DEF After
    <3>. QED
      BY <3>1, <3>2
  <2>9. Keeps(e, run'[e])
    BY <1>1, <2>1, <2>3, <2>4, <2>8
  <2>. QED
    BY <2>7, <2>9
<1>4. ASSUME NEW a \in Answers \ {"none"}, run[e].answer = "none", Ends(e, run[e], run'[e], a)
      PROVE  Heads(e, run'[e]) /\ Keeps(e, run'[e])
  <2>1. /\ run'[e].pc = run[e].pc /\ run'[e].after = run[e].after /\ run'[e].answer = a
        /\ run'[e].header = HeaderOf(a, run[e].header, run[e].after)
    BY <1>4 DEF Ends
  <2>2. Said(e, run[e].pc, run[e].header)
    BY <1>1, <1>4
  <2>. QED
    BY <1>1, <1>4, <2>1, <2>2
<1>. QED
  BY <1>1, <1>3, <1>4, StepCases

LEMMA NextCompiledWaits == Typing /\ CompiledWaits /\ [Next]_vars => CompiledWaits'
<1>. SUFFICES ASSUME Typing, CompiledWaits, [Next]_vars, run'["preview"].answer = "none"
              PROVE  run'["compiled"].answer = "none"
  BY DEF CompiledWaits
<1>1. "preview" \in Executors /\ "compiled" \in Executors
  BY DEF Executors
<1>2. run["preview"].answer = "none"
  BY <1>1, StepCases DEF Passes
<1>3. run'["compiled"] = run["compiled"]
  BY <1>1, <1>2, StepCases
<1>. QED
  BY <1>2, <1>3 DEF CompiledWaits

(* A nonempty set of numbers has a least one.                              *)
LEMMA Least ==
    ASSUME NEW T, T \subseteq Nat, T # {}
    PROVE  Min(T) \in T /\ \A y \in T : Min(T) <= y
<1>1. OpToRel(<, Nat) = {ss \in Nat \X Nat : ss[1] < ss[2]}
  BY DEF OpToRel
<1>2. PICK x \in T : \A y \in T : ~ (<<y, x>> \in OpToRel(<, Nat))
  BY NatLessThanWellFounded, WFMin, Zenon
<1>3. \A y \in T : ~ (<<y, x>> \in {ss \in Nat \X Nat : ss[1] < ss[2]})
  BY <1>1, <1>2, Zenon
<1>4. \A m, n \in Nat : m < n => <<m, n>> \in {ss \in Nat \X Nat : ss[1] < ss[2]}
  OBVIOUS
<1>5. ASSUME NEW y \in T PROVE x <= y
  <2>1. x \in Nat /\ y \in Nat
    OBVIOUS
  <2>2. ~ (y < x)
    BY <1>3, <1>4, <2>1
  <2>. QED
    BY <2>1, <2>2
<1>. QED
  BY <1>5 DEF Min

(* The courses of one plan are one.                                        *)
LEMMA CoursesAreOne ==
    ASSUME NEW n \in Nat \ {0}, NEW T, NEW U, IsCourse(T, n), IsCourse(U, n)
    PROVE  T[n] = U[n]
<1>. DEFINE Wrong == {i \in Nat : i \in 1..n /\ T[i] # U[i]}
<1>1. SUFFICES ASSUME Wrong # {} PROVE FALSE
  OBVIOUS
<1>2. PICK i \in Wrong : \A j \in Wrong : i <= j
  BY <1>1, Least
<1>3. CASE i = 1
  BY <1>3 DEF IsCourse
<1>4. CASE i > 1
  <2>1. i - 1 \in 1..(n - 1) /\ (i - 1) + 1 = i /\ i - 1 \in Nat
    BY <1>4
  <2>2. T[i - 1] = U[i - 1]
    BY <2>1, <1>2
  <2>3. T[i] = Tell(T[i - 1], i - 1) /\ U[i] = Tell(U[i - 1], i - 1)
    BY <2>1 DEF IsCourse
  <2>. QED
    BY <2>2, <2>3
<1>. QED
  BY <1>3, <1>4

(* What the comparison needs of each execution.                            *)
Coupled == IInv /\ WrittenSoFar /\ ToldInOrder /\ HeaderSaid /\ CompiledWaits

LEMMA InitCoupled == Init => Coupled
<1>. SUFFICES ASSUME Init PROVE Coupled
  OBVIOUS
<1>1. IInv /\ \A e \in Executors : run[e] = Fresh
  BY InitIInv, InitRun
<1>2. /\ Fresh.pc = 1 /\ Fresh.answer = "none" /\ Fresh.after = <<>> /\ Fresh.written = {}
      /\ Fresh.cookies = <<>> /\ Fresh.patches = <<>> /\ Fresh.invalidations = <<>>
      /\ Fresh.redirect = NoPage /\ Fresh.header = "none"
  BY DEF Fresh
<1>3. \A e \in Executors : 1..(run[e].pc - 1) = {}
  BY <1>1, <1>2
<1>4. WrittenSoFar
  BY <1>1, <1>2, <1>3 DEF WrittenSoFar
<1>5. ToldInOrder
  <2>1. PICK T : T = [i \in {1} |-> Start]
    OBVIOUS
  <2>2. T[1] = Start /\ 1..(1 - 1) = {}
    BY <2>1
  <2>3. IsCourse(T, 1)
    BY <2>2 DEF IsCourse
  <2>4. \A e \in Executors : Told(run[e], T[1])
    BY <1>1, <1>2, <2>2 DEF Told, Start
  <2>. QED
    BY <1>1, <1>2, <2>3, <2>4 DEF ToldInOrder
<1>6. HeaderSaid
  <2>1. ToSet(<<>>) = {}
    BY DEF ToSet
  <2>2. \A e \in Executors : Said(e, 1, "none")
    BY DEF Said
  <2>. QED
    BY <1>1, <1>2, <1>3, <2>1, <2>2 DEF HeaderSaid, KeptBehind
<1>7. CompiledWaits
  BY <1>1, <1>2 DEF CompiledWaits, Executors
<1>. QED
  BY <1>1, <1>4, <1>5, <1>6, <1>7 DEF Coupled

LEMMA InductiveCoupled == Spec => []Coupled
<1>1. Coupled /\ [Next]_vars => Coupled'
  BY NextIInv, NextWritten, NextToldInOrder, NextHeaderSaid, NextCompiledWaits DEF Coupled, IInv
<1>. QED
  BY InitCoupled, <1>1, PTL DEF Spec

(* Why one ends, the other ends, unless the two are known to differ.       *)
LEMMA HaltsAlike ==
    ASSUME Given, ~ KnownToDiffer, NEW i \in Spots, NEW a
    PROVE  Halts("preview", i, a) <=> Halts("compiled", i, a)
<1>1. i \in fails => ~ Skipped("preview", i) /\ ~ Skipped("compiled", i)
  BY DEF KnownToDiffer, Skipped, Step
<1>2. i \in unmet /\ Step(i).op = "hook" => Step(i).phase # "after"
  BY DEF KnownToDiffer, Step
<1>. QED
  BY <1>1, <1>2 DEF Halts

LEMMA HaltsOnce ==
    ASSUME Given, NEW e \in Executors, NEW i \in Spots, NEW a, NEW b, Halts(e, i, a), Halts(e, i, b)
    PROVE  a = b
  BY DEF Halts

(* Both end in the same place, with the same answer but for the returns.   *)
LEMMA SameEnd ==
    ASSUME Coupled, ~ KnownToDiffer, run["compiled"].answer # "none"
    PROVE  /\ run["preview"].pc = run["compiled"].pc
           /\ SameAnswer(run["preview"], run["compiled"])
<1>. DEFINE p == run["preview"]
            c == run["compiled"]
            end == Len(plan.steps) + 1
<1>1. /\ Given /\ Spots = 1..Len(plan.steps) /\ Len(plan.steps) \in Nat
      /\ p.pc \in 1..end /\ c.pc \in 1..end
  BY DEF Coupled, IInv, Typing, RunTypes, Given, PlanTypes, Executors
<1>2. p.answer # "none" /\ c.answer # "none"
  BY DEF Coupled, CompiledWaits
<1>3. Accepts("preview") /\ Accepts("compiled")
  BY DEF KnownToDiffer, Accepts
<1>4. /\ \/ p.pc \in Spots /\ Halts("preview", p.pc, p.answer)
         \/ p.pc = end /\ Concludes("preview", p.answer)
      /\ \/ c.pc \in Spots /\ Halts("compiled", c.pc, c.answer)
         \/ c.pc = end /\ Concludes("compiled", c.answer)
  BY <1>2, <1>3 DEF Coupled, IInv, Reasons, Reason, Executors
<1>5. /\ \A i \in 1..(p.pc - 1) : i \in Spots /\ \A a : ~ Halts("preview", i, a)
      /\ \A i \in 1..(c.pc - 1) : i \in Spots /\ \A a : ~ Halts("compiled", i, a)
  BY DEF Coupled, IInv, Passage, Executors
<1>. HIDE DEF p, c, end
<1>6. ~ (p.pc < c.pc)
  <2>. SUFFICES ASSUME p.pc < c.pc PROVE FALSE
    OBVIOUS
  <2>1. p.pc \in 1..(c.pc - 1) /\ p.pc # end
    BY <1>1 DEF end
  <2>2. p.pc \in Spots /\ Halts("preview", p.pc, p.answer)
    BY <1>4, <2>1
  <2>. QED
    BY <1>1, <1>5, <2>1, <2>2, HaltsAlike
<1>7. ~ (c.pc < p.pc)
  <2>. SUFFICES ASSUME c.pc < p.pc PROVE FALSE
    OBVIOUS
  <2>1. c.pc \in 1..(p.pc - 1) /\ c.pc # end
    BY <1>1 DEF end
  <2>2. c.pc \in Spots /\ Halts("compiled", c.pc, c.answer)
    BY <1>4, <2>1
  <2>. QED
    BY <1>1, <1>5, <2>1, <2>2, HaltsAlike
<1>8. p.pc = c.pc
  BY <1>1, <1>6, <1>7 DEF end
<1>9. SameAnswer(p, c)
  <2>1. CASE p.pc \in Spots
    <3>1. p.pc # end
      BY <1>1, <2>1 DEF end
    <3>2. Halts("preview", p.pc, p.answer) /\ Halts("compiled", p.pc, c.answer)
      BY <1>4, <1>8, <3>1
    <3>3. Halts("compiled", p.pc, p.answer)
      BY <1>1, <2>1, <3>2, HaltsAlike
    <3>4. p.answer = c.answer
      BY <1>1, <2>1, <3>2, <3>3, HaltsOnce DEF Executors
    <3>. QED
      BY <3>4 DEF SameAnswer
  <2>2. CASE p.pc \notin Spots
    <3>1. Concludes("preview", p.answer) /\ Concludes("compiled", c.answer)
      BY <1>4, <1>8, <2>2
    <3>2. plan.kind = "action" => plan.returns \in {"value", "redirect"}
      BY <1>1 DEF Given, PlanTypes, Returns
    <3>. QED
      BY <3>1, <3>2 DEF Concludes, SameAnswer
  <2>. QED
    BY <2>1, <2>2
<1>. QED
  BY <1>8, <1>9 DEF p, c

(* The generated code does what the preview did: the same effects in the   *)
(* same world, and the same answer with the same cookies, header, patches, *)
(* invalidations and redirect, with the differences named.                 *)
THEOREM CompiledAgrees == Spec => []CompiledDoesAsPreviewed
<1>. DEFINE p == run["preview"]
            c == run["compiled"]
<1>. SUFFICES ASSUME Coupled PROVE CompiledDoesAsPreviewed
  BY InductiveCoupled, PTL
<1>1. SUFFICES ASSUME c.answer # "none", ~ KnownToDiffer
      PROVE  /\ p.written = c.written /\ p.sessions = c.sessions /\ p.charged = c.charged
             /\ p.read = c.read
             /\ SameAnswer(p, c)
             /\ (p.answer = c.answer /\ ~(p.answer = "notFound" /\ plan.kind = "action")) =>
                  p.handed = c.handed /\ (HookThenHeader \/ p.header = c.header)
             /\ p.answer = "ok" /\ c.answer = "ok" =>
                  /\ p.patches = c.patches
                  /\ p.invalidations = c.invalidations
                  /\ p.redirect = c.redirect
  BY Zenon DEF CompiledDoesAsPreviewed
<1>2. p.pc = c.pc /\ SameAnswer(p, c) /\ p.answer # "none"
  BY <1>1, SameEnd DEF Coupled, CompiledWaits
<1>3. "preview" \in Executors /\ "compiled" \in Executors /\ Given
      /\ c.pc \in Nat \ {0} /\ Spots = 1..Len(plan.steps) /\ 1..(c.pc - 1) \subseteq Spots
  BY DEF Coupled, IInv, Typing, RunTypes, Given, PlanTypes, Executors
<1>4. /\ p.written = c.written /\ p.sessions = c.sessions /\ p.charged = c.charged
      /\ p.read = c.read
  <2>1. \A op : Behind("preview", op) = Behind("compiled", op)
    BY <1>2 DEF Behind
  <2>. QED
    BY <1>2, <1>3, <2>1 DEF Coupled, IInv, ChargedSoFar, Causes, WrittenSoFar
<1>5. /\ p.cookies = c.cookies /\ p.patches = c.patches /\ p.invalidations = c.invalidations
      /\ p.redirect = c.redirect \/ LeavesForPage(p) \/ LeavesForPage(c)
  <2>1. PICK T : IsCourse(T, p.pc) /\ Told(p, T[p.pc])
    BY <1>3 DEF Coupled, ToldInOrder
  <2>2. PICK U : IsCourse(U, c.pc) /\ Told(c, U[c.pc])
    BY <1>3 DEF Coupled, ToldInOrder
  <2>3. T[c.pc] = U[c.pc]
    BY <1>2, <1>3, <2>1, <2>2, CoursesAreOne
  <2>. QED
    BY <1>2, <2>1, <2>2, <2>3 DEF Told
<1>6. ASSUME p.answer = "ok"
      PROVE  ~ LeavesForPage(p) /\ ~ LeavesForPage(c)
  <2>1. Reason("preview", p.pc, "ok")
    BY <1>3, <1>6 DEF Coupled, IInv, Reasons
  <2>2. ~ (p.pc \in Spots /\ Halts("preview", p.pc, "ok"))
    BY <1>3, StepShapes DEF Halts
  <2>3. Concludes("preview", "ok")
    BY <2>1, <2>2 DEF Reason
  <2>. QED
    BY <2>3 DEF Concludes, LeavesForPage
<1>7. ASSUME p.answer = c.answer, ~ HookThenHeader
      PROVE  p.header = c.header
  <2>1. PICK n : n = c.pc
    OBVIOUS
  <2>2. n \in Nat \ {0} /\ p.pc = n /\ 1..(n - 1) \subseteq Spots /\ Spots = DOMAIN plan.steps
    BY <1>2, <1>3, <2>1 DEF Spots
  <2>3. PICK hp : Said("preview", n, hp) /\ p.header = HeaderOf(p.answer, hp, p.after)
    BY <1>2, <1>3, <2>2 DEF Coupled, HeaderSaid
  <2>4. PICK hc : Said("compiled", n, hc) /\ c.header = HeaderOf(c.answer, hc, c.after)
    BY <1>1, <1>3, <2>1 DEF Coupled, HeaderSaid
  <2>5. "noStore" \in ToSet(p.after) <=> \E i \in 1..(n - 1) : NoStoreAt(i) /\ Kept("preview", i)
    BY <1>3, <2>2 DEF Coupled, HeaderSaid, KeptBehind
  <2>6. "noStore" \notin ToSet(c.after)
    BY DEF Coupled, IInv, Typing, NothingKept, ToSet
  <2>7. \A i \in 1..(n - 1) : ~ Kept("compiled", i)
    BY DEF Kept
  <2>. HIDE DEF p, c
  <2>8. CASE \E i \in 1..(n - 1) : NoStoreAt(i) /\ Kept("preview", i)
    <3>1. PICK i \in 1..(n - 1) : NoStoreAt(i) /\ Kept("preview", i)
      BY <2>8
    <3>2. plan.kind = "route"
      BY <1>3, <2>2, <3>1, StepShapes DEF NoStoreAt
    <3>3. Sets("compiled", i)
      BY <2>7, <3>1 DEF Sets
    <3>4. PICK j \in 1..(n - 1) : Sets("compiled", j) /\ hc = SetTo(j)
                                 /\ \A k \in 1..(n - 1) : k > j => ~ Sets("compiled", k)
      BY <2>4, <3>3 DEF Said
    <3>5. ~ (i > j)
      BY <3>3, <3>4
    <3>6. Step(j).op # "header"
      <4>. SUFFICES ASSUME Step(j).op = "header" PROVE FALSE
        OBVIOUS
      <4>1. i # j
        BY <3>1 DEF NoStoreAt
      <4>2. i < j
        BY <3>5, <4>1
      <4>. QED
        BY <1>7, <2>2, <3>1, <4>2 DEF HookThenHeader, Kept, Step
    <3>7. hc = "noStore"
      BY <3>4, <3>6 DEF SetTo
    <3>. QED
      BY <1>7, <2>3, <2>4, <2>5, <2>6, <3>1, <3>2, <3>7 DEF HeaderOf
  <2>9. CASE ~ \E i \in 1..(n - 1) : NoStoreAt(i) /\ Kept("preview", i)
    <3>1. \A i \in 1..(n - 1) : Sets("preview", i) <=> Sets("compiled", i)
      BY <2>7, <2>9 DEF Sets
    <3>2. hp = hc
      <4>1. CASE \A i \in 1..(n - 1) : ~ Sets("preview", i)
        BY <2>3, <2>4, <3>1, <4>1 DEF Said
      <4>2. CASE \E i \in 1..(n - 1) : Sets("preview", i)
        <5>1. PICK i \in 1..(n - 1) : Sets("preview", i) /\ hp = SetTo(i)
                                     /\ \A k \in 1..(n - 1) : k > i => ~ Sets("preview", k)
          BY <2>3, <4>2 DEF Said
        <5>2. PICK j \in 1..(n - 1) : Sets("compiled", j) /\ hc = SetTo(j)
                                     /\ \A k \in 1..(n - 1) : k > j => ~ Sets("compiled", k)
          BY <2>4, <3>1, <4>2 DEF Said
        <5>3. ~ (i > j) /\ ~ (j > i)
          BY <3>1, <5>1, <5>2
        <5>4. i = j
          BY <5>3
        <5>. QED
          BY <5>1, <5>2, <5>4
      <4>. QED
        BY <4>1, <4>2
    <3>. QED
      BY <1>7, <2>3, <2>4, <2>5, <2>6, <2>9, <3>2 DEF HeaderOf
  <2>. QED
    BY <2>8, <2>9
<1>8. ASSUME p.answer = c.answer, ~(p.answer = "notFound" /\ plan.kind = "action")
      PROVE  p.handed = c.handed
  BY <1>3, <1>5, <1>8 DEF Coupled, IInv, Reported, Handed
<1>. QED
  BY <1>2, <1>4, <1>5, <1>6, <1>7, <1>8
=============================================================================
