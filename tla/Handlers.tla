-------------------------------- MODULE Handlers --------------------------------
(***************************************************************************)
(* One handler of an `.ax` backend, an action or an API route, run in the  *)
(* two ways the framework has: interpreted by the preview                  *)
(* (execute_preview_action, execute_preview_route) and as the Rust code    *)
(* generated from the same plan (render_handler_fn, render_step).  The     *)
(* plan is the data bindings of the backend root, the steps of the handler *)
(* and a way to return.  The world they run in is the same for both: a     *)
(* backend runtime is configured, the handler is called by an HTTP         *)
(* request, the same runtime calls fail, the same requirements are not     *)
(* met, the same login guards have no budget left, the same value breaks   *)
(* the contract of the route.                                              *)
(* The two are separate programs: the preview is run first only to keep    *)
(* the states few, nothing is passed from the one to the other.            *)
(***************************************************************************)
EXTENDS Integers, Sequences, FiniteSets, SequencesExt

CONSTANTS
    Kinds,        \* of handlers: "action", "route"
    Collections,  \* what handlers write, and pages show
    Guards,       \* the distinct Login.throttle hooks
    MaxSteps,     \* bound: steps of a plan before its return
    NoPage,       \* no redirect
    ReturnPage    \* the page of `return redirect(...)`

ASSUME PageAssumption == NoPage # ReturnPage
ASSUME StepAssumption == MaxSteps \in Nat
ASSUME KindAssumption == Kinds \subseteq {"action", "route"}

VARIABLES
    plan,         \* [kind, globals, steps, returns]
    fails,        \* the steps whose call of the runtime fails
    unmet,        \* the steps whose requirement does not hold
    spent,        \* the guards whose limiter refuses the key
    broken,       \* the value returned breaks the route's contract
    run           \* the two executions

vars == <<plan, fails, unmet, spent, broken, run>>

Executors == {"preview", "compiled"}

(* `invalidate posts` and `revalidate "/posts"` have one query key.        *)
Targets == [key : Collections, page : BOOLEAN]

Requirements == [op : {"require"}, fallback : {"invalid", "forbidden", "notFound"}]

ActionSteps ==
    [op : {"guard"}, guard : Guards]
        \cup [op : {"write"}, on : {<<c>> : c \in Collections} \cup
                  {<<a, b>> : a, b \in Collections}]
        \cup [op : {"revalidate"}, target : Targets]
        \cup Requirements
        \cup [op : {"read", "patch", "session", "cookie", "send"}]

(* What a policy hook does: set the header Cache-Control to no-store       *)
(* (Cache.noStore; Security.headers is like it with headers of its own),   *)
(* or ask for a session (Auth.session and the like).  A step "header" sets   *)
(* the same header to something else.                                      *)
RouteSteps ==
    [op : {"guard"}, guard : Guards]
        \cup [op : {"hook"}, phase : {"before", "after"}, does : {"noStore", "auth"}]
        \cup [op : {"write"}, on : {<<c>> : c \in Collections}]
        \cup Requirements
        \cup [op : {"read", "revalidate", "session", "cookie", "send", "header"}]

Steps(kind) == IF kind = "action" THEN ActionSteps ELSE RouteSteps

(* An action without a return answers like one that returns a value. *)
Returns(kind) == {"value", "redirect"} \cup (IF kind = "action" THEN {} ELSE {"nothing"})

(* The steps that call the runtime, which may answer with an error.        *)
CallsOut(step) == step.op \in {"guard", "write", "read", "revalidate", "session", "send"}

(* The steps that may end the handler when what they ask for is not there. *)
Asks(step) == step.op = "require" \/ (step.op = "hook" /\ step.does = "auth")

-----------------------------------------------------------------------------
(* Wrong: only a repeated guard is refused. *)
ValidAnywhere(steps) ==
    \A i, j \in DOMAIN steps :
        steps[i].op = "guard" /\ steps[j] = steps[i] => i = j

Before(step) == step.op = "guard" \/ (step.op = "hook" /\ step.phase = "before")

(* validate_login_throttle_hooks: a guard is not repeated, and nothing but *)
(* before hooks comes before it.                                           *)
Valid(steps) ==
    \A i \in DOMAIN steps : steps[i].op = "guard" =>
        \A j \in 1..(i - 1) : Before(steps[j]) /\ steps[j] # steps[i]

(* What is run: with_preview_globals and render_handler_fn put the data    *)
(* bindings of the backend root, queries here, before the handler's own    *)
(* steps; the generator validates these alone.                             *)
IsPlan(p) ==
    \E kind \in Kinds, globals \in {0, 1}, n \in 0..MaxSteps :
        \E own \in [1..n -> Steps(kind)], returns \in Returns(kind) :
            /\ globals + n <= MaxSteps
            /\ Valid(own)
            /\ p = [kind |-> kind, globals |-> globals, returns |-> returns,
                    steps |-> [i \in 1..globals |-> [op |-> "read"]] \o own]

Fresh == [pc |-> 1, answer |-> "none", handed |-> <<>>,
          cookies |-> <<>>, patches |-> <<>>, invalidations |-> <<>>, redirect |-> NoPage,
          header |-> "none", after |-> <<>>,
          charged |-> {}, read |-> {}, written |-> {}, sessions |-> {}, sent |-> {}]

Init ==
    /\ IsPlan(plan)
    /\ fails \in {{}} \cup {{i} : i \in {j \in DOMAIN plan.steps : CallsOut(plan.steps[j])}}
    /\ unmet \in {{}} \cup {{i} : i \in {j \in DOMAIN plan.steps : Asks(plan.steps[j])}}
    /\ spent \in SUBSET {g \in Guards : \E i \in DOMAIN plan.steps :
                             plan.steps[i] = [op |-> "guard", guard |-> g]}
    /\ broken \in IF plan.kind = "route" /\ plan.returns = "value" THEN BOOLEAN ELSE {FALSE}
    /\ run = [e \in Executors |-> Fresh]

-----------------------------------------------------------------------------
Open(e) ==
    /\ run[e].answer = "none"
    /\ e = "compiled" => run["preview"].answer # "none"

(* The preview validates what it is about to run, the bindings included.   *)
Accepts(e) == e = "preview" => Valid(plan.steps)

Turn(e) == Open(e) /\ Accepts(e)

Now(e) == plan.steps[run[e].pc]

(* The preview passes over Send, and in routes over Revalidate.            *)
PassesOver(e) ==
    e = "preview" /\ (Now(e).op = "send" \/ (plan.kind = "route" /\ Now(e).op = "revalidate"))

(* Execution e is before a step of this kind, and the step's call succeeds *)
At(e, op) ==
    /\ Turn(e)
    /\ run[e].pc \in DOMAIN plan.steps \ fails
    /\ Now(e).op = op
    /\ ~ PassesOver(e)

Become(e, r) ==
    /\ run' = [run EXCEPT ![e] = r]
    /\ UNCHANGED <<plan, fails, unmet, spent, broken>>

Continue(e, r) == Become(e, [r EXCEPT !.pc = @ + 1])

(* Wrong: what an answer says of caching is what the steps said of it.     *)
HeaderAsSet(e, answer) == run[e].header

(* The header of an answer: the preview applies the after hooks it has met *)
(* when the route is answered, but not when a guard refuses.               *)
Header(e, answer) ==
    CASE answer = "failed" -> "none"
      [] answer \in {"broken", "limited"} /\ plan.kind = "route" -> "noStore"
      [] answer \notin {"failed", "broken", "limited"} /\ "noStore" \in ToSet(run[e].after) -> "noStore"
      [] OTHER -> run[e].header

Answer(e, answer, cookies) ==
    Become(e, [run[e] EXCEPT !.answer = answer, !.handed = cookies, !.header = Header(e, answer)])

(* Wrong: once there is an invalidation, no other is added. *)
PushUnlessAny(list, target) == IF Len(list) > 0 THEN list ELSE Append(list, target)

(* push_preview_auto_invalidation, __ax_push_invalidation(.., false)       *)
PushAuto(list, target) ==
    IF \E i \in DOMAIN list : list[i].key = target.key THEN list ELSE Append(list, target)

(* Wrong: a target is compared as it was written, not by its key. *)
PushOther(list, target) ==
    IF \E i \in DOMAIN list : list[i] = target THEN list ELSE Append(list, target)

(* push_preview_explicit_invalidation, __ax_push_invalidation(.., true)    *)
PushExplicit(list, target) ==
    IF \E i \in DOMAIN list : list[i].key = target.key
    THEN [i \in DOMAIN list |-> IF list[i].key = target.key THEN target ELSE list[i]]
    ELSE Append(list, target)

(* One invalidation for each operation: a transaction here has at most two.*)
PushWrites(list, on) ==
    LET pushed(l, c) == PushAuto(l, [key |-> c, page |-> FALSE])
    IN  IF Len(on) = 1 THEN pushed(list, on[1]) ELSE pushed(pushed(list, on[1]), on[2])

-----------------------------------------------------------------------------
(* The preview refuses a handler whose guard follows the data bindings of  *)
(* the backend root; the generated code, which passed validation without   *)
(* them, has no such check.                                                *)
RejectHooks(e) ==
    /\ Open(e) /\ ~ Accepts(e)
    /\ Answer(e, "failed", <<>>)

(* A before hook Login.throttle: the limiter of this hook admits the key,  *)
(* or the handler ends with 429, for routes with a no-store of its own.    *)
Guard(e) ==
    /\ At(e, "guard")
    /\ IF Now(e).guard \in spent
       THEN Answer(e, "limited", run[e].cookies)
       ELSE Continue(e, [run[e] EXCEPT !.charged = @ \cup {Now(e).guard}])

(* Insert, Update, Delete, and Transaction, which is one call with all its *)
(* operations and then one invalidation for each.                          *)
Write(e) ==
    /\ At(e, "write") /\ plan.kind = "action"
    /\ Continue(e, [run[e] EXCEPT !.written = @ \cup ToSet(Now(e).on),
                                  !.invalidations = PushWrites(@, Now(e).on)])

(* A route does not tell what it wrote. *)
WriteInRoute(e) ==
    /\ At(e, "write") /\ plan.kind = "route"
    /\ Continue(e, [run[e] EXCEPT !.written = @ \cup ToSet(Now(e).on)])

(* Let with a query or a call of a loader *)
Read(e) ==
    /\ At(e, "read")
    /\ Continue(e, [run[e] EXCEPT !.read = @ \cup {run[e].pc}])

Revalidate(e) ==
    /\ At(e, "revalidate") /\ plan.kind = "action"
    /\ Continue(e, [run[e] EXCEPT
           !.redirect = IF Now(e).target.page THEN Now(e).target.key ELSE @,
           !.invalidations = PushExplicit(@, Now(e).target)])

(* The compiled route tells the runtime, and nobody else. *)
RevalidateQuietly(e) == At(e, "revalidate") /\ plan.kind = "route" /\ Continue(e, run[e])

Patch(e) ==
    /\ At(e, "patch")
    /\ Continue(e, [run[e] EXCEPT !.patches = Append(@, run[e].pc)])

(* Session.create, Session.destroy, Session.refresh: the registry changes, *)
(* and the cookie that says so waits for the answer.                       *)
Session(e) ==
    /\ At(e, "session")
    /\ Continue(e, [run[e] EXCEPT !.sessions = @ \cup {run[e].pc},
                                  !.cookies = Append(@, run[e].pc)])

(* Cookie, ClearCookie *)
SetCookie(e) ==
    /\ At(e, "cookie")
    /\ Continue(e, [run[e] EXCEPT !.cookies = Append(@, run[e].pc)])

Send(e) ==
    /\ At(e, "send")
    /\ Continue(e, [run[e] EXCEPT !.sent = @ \cup {run[e].pc}])

Skip(e) ==
    /\ Turn(e)
    /\ run[e].pc \in DOMAIN plan.steps
    /\ PassesOver(e)
    /\ Continue(e, run[e])

SetHeader(e) == At(e, "header") /\ Continue(e, [run[e] EXCEPT !.header = "own"])

(* A policy hook.  The preview keeps the after hooks for the answer, which *)
(* then ignores whether one that asks for a session finds it; in the       *)
(* generated code a hook of either phase does its work in its place        *)
(* (render_route_hook_step).                                               *)
Hook(e) ==
    /\ At(e, "hook")
    /\ IF e = "preview" /\ Now(e).phase = "after"
       THEN Continue(e, [run[e] EXCEPT !.after = Append(@, Now(e).does)])
       ELSE IF Now(e).does = "noStore" THEN Continue(e, [run[e] EXCEPT !.header = "noStore"])
       ELSE IF run[e].pc \in unmet THEN Answer(e, "unauthorized", run[e].cookies)
       ELSE Continue(e, run[e])

(* Wrong: the generated refusals are returned without with_cookies. *)
RefuseBare(e) ==
    Answer(e, Now(e).fallback, IF e = "compiled" THEN <<>> ELSE run[e].cookies)

(* A requirement that does not hold ends the handler, with an answer of    *)
(* its own that carries the cookies so far; but a compiled action leaves   *)
(* with Err(NotFound), which carries nothing, for the fallback notFound(). *)
RefuseAction(e) ==
    Answer(e, Now(e).fallback,
           IF e = "compiled" /\ Now(e).fallback = "notFound" THEN <<>> ELSE run[e].cookies)

RefuseRoute(e) == Answer(e, Now(e).fallback, run[e].cookies)

Require(e) ==
    /\ At(e, "require")
    /\ IF run[e].pc \notin unmet THEN Continue(e, run[e])
       ELSE IF plan.kind = "action" THEN RefuseAction(e) ELSE RefuseRoute(e)

(* A call of the runtime fails: `?` leaves the handler, and what was done  *)
(* before stays done.                                                      *)
Fail(e) ==
    /\ Turn(e)
    /\ run[e].pc \in fails
    /\ ~ PassesOver(e)
    /\ Answer(e, "failed", <<>>)

AtEnd(e) == Turn(e) /\ run[e].pc > Len(plan.steps)

(* The end of an action.  The preview refuses the helpers of routes here,  *)
(* after all the steps; the compiled code redirects.                       *)
ReturnFromAction(e) ==
    /\ AtEnd(e) /\ plan.kind = "action"
    /\ IF plan.returns = "value" THEN Answer(e, "ok", run[e].cookies)
       ELSE IF e = "preview" THEN Answer(e, "failed", <<>>)
       ELSE Become(e, [run[e] EXCEPT !.answer = "ok", !.handed = run[e].cookies,
                                     !.redirect = ReturnPage])

(* The end of a route.  Without a return the preview answers null where    *)
(* the compiled code says ok.                                              *)
ReturnFromRoute(e) ==
    /\ AtEnd(e) /\ plan.kind = "route" /\ ~ broken
    /\ Answer(e, IF plan.returns = "nothing" /\ e = "preview" THEN "null" ELSE "ok", run[e].cookies)

(* A value that breaks the contract is an answer of the preview, without   *)
(* the cookies, and an error of the compiled dispatcher.                   *)
BreakContract(e) ==
    /\ AtEnd(e) /\ broken
    /\ Answer(e, IF e = "preview" THEN "broken" ELSE "failed", <<>>)

Advance(e) ==
    \/ RejectHooks(e) \/ Guard(e) \/ Write(e) \/ WriteInRoute(e) \/ Read(e)
    \/ Revalidate(e) \/ RevalidateQuietly(e) \/ Patch(e) \/ Session(e) \/ SetCookie(e) \/ Send(e) \/ Skip(e) \/ SetHeader(e) \/ Hook(e)
    \/ Require(e) \/ Fail(e) \/ ReturnFromAction(e) \/ ReturnFromRoute(e)
    \/ BreakContract(e)

Next == \E e \in Executors : Advance(e)

Spec == Init /\ [][Next]_vars

-----------------------------------------------------------------------------
Refusals == {"invalid", "forbidden", "notFound", "unauthorized"}
Answers == {"none", "ok", "null", "limited", "broken", "failed"} \cup Refusals

(* The shapes of the two executions; a query key is invalidated once.      *)
TypeOK ==
    /\ plan.kind \in Kinds /\ plan.globals \in 0..Len(plan.steps) /\ Len(plan.steps) <= MaxSteps
    /\ fails \subseteq 1..MaxSteps /\ unmet \subseteq 1..MaxSteps /\ spent \subseteq Guards
    /\ broken \in BOOLEAN
    /\ DOMAIN run = Executors
    /\ \A e \in Executors :
         /\ run[e].pc \in 1..(MaxSteps + 1)
         /\ run[e].answer \in Answers
         /\ run[e].header \in {"none", "noStore", "own"}
         /\ run[e].redirect \in Collections \cup {NoPage, ReturnPage}
         /\ ToSet(run[e].handed) \subseteq 1..MaxSteps
         /\ \A i, j \in DOMAIN run[e].invalidations :
              run[e].invalidations[i].key = run[e].invalidations[j].key => i = j

(* An answer tells the browser of what the handler did: a success of an    *)
(* action names every collection written, however writes, transactions and *)
(* explicit invalidations of the same key are mixed, and every answer that *)
(* is not an error hands over the cookie of every session made or ended on *)
(* the way, also when a later requirement refuses.                         *)
AnswerTellsEveryEffect ==
    \A e \in Executors :
        /\ plan.kind = "action" /\ run[e].answer = "ok" =>
             \A c \in run[e].written :
                 \E i \in DOMAIN run[e].invalidations : run[e].invalidations[i].key = c
        /\ run[e].answer \in {"ok", "null", "limited", "invalid", "forbidden", "unauthorized"} =>
             run[e].sessions \subseteq ToSet(run[e].handed)
        /\ plan.kind = "route" /\ run[e].answer = "notFound" =>
             run[e].sessions \subseteq ToSet(run[e].handed)

(* "The hook must precede data or other operations": whoever is limited    *)
(* has caused nothing and read no data of the handler, and whatever a      *)
(* handler causes was admitted by all its guards, each charged.  A plan    *)
(* with several guards charges the first ones also when a later refuses.   *)
GuardsComeFirst ==
    \A e \in Executors :
        LET guards == {plan.steps[i].guard : i \in {j \in DOMAIN plan.steps :
                                                       plan.steps[j].op = "guard"}}
        IN  /\ run[e].answer = "limited" =>
                 /\ run[e].written = {} /\ run[e].sessions = {} /\ run[e].sent = {}
                 /\ run[e].handed = <<>> /\ run[e].patches = <<>>
                 /\ run[e].read \subseteq 1..plan.globals
            /\ run[e].written \cup run[e].sessions \cup run[e].sent # {} =>
                 run[e].charged = guards /\ guards \cap spent = {}

(* The README's rule for all data: whoever is limited has had nothing      *)
(* read.  The data bindings of the backend root come before the guards in  *)
(* the generated code, and it fails.                                       *)
LimitedReadsNothing == \A e \in Executors : run[e].answer = "limited" => run[e].read = {}

(* A no-store policy hook met on the way to an answer is in the answer,    *)
(* whether a guard, a requirement, another hook or the contract refuses or *)
(* all goes well, unless the route itself sets the header after it; and an *)
(* after hook of the preview holds even then.                              *)
PoliciesReachAnswers ==
    \A e \in Executors : run[e].answer \notin {"none", "failed"} =>
        \A i \in 1..(run[e].pc - 1) :
            (/\ plan.steps[i].op = "hook" /\ plan.steps[i].does = "noStore"
             /\ \/ e = "preview" /\ plan.steps[i].phase = "after"
                \/ \A j \in i..(run[e].pc - 1) : plan.steps[j].op # "header")
            => run[e].header = "noStore"

(* Where the two programs differ, on purpose or for want of a case: calls  *)
(* that the preview passes over and that fail, guards after the bindings   *)
(* of the backend root, an after hook that asks for a session, a value     *)
(* that breaks the contract.                                               *)
KnownToDiffer ==
    \/ \E i \in fails : plan.steps[i].op = "send"
                       \/ (plan.kind = "route" /\ plan.steps[i].op = "revalidate")
    \/ ~ Valid(plan.steps)
    \/ \E i \in unmet : plan.steps[i].op = "hook" /\ plan.steps[i].phase = "after"

(* The same answer, but that an action's `return redirect(...)` is refused *)
(* by the preview, that a route without a return answers null or ok, and   *)
(* that a broken contract is an answer or an error.                        *)
SameAnswer(p, c) ==
    \/ p.answer = c.answer
    \/ p.answer = "failed" /\ c.answer = "ok" /\ plan.kind = "action" /\ plan.returns = "redirect"
    \/ p.answer = "null" /\ c.answer = "ok" /\ plan.returns = "nothing"
    \/ p.answer = "broken" /\ c.answer = "failed"

(* An own header after an after hook: the hook has the last word in the    *)
(* preview, the step in the generated code.                                *)
HookThenHeader ==
    \E i, j \in DOMAIN plan.steps :
        i < j /\ plan.steps[i].op = "hook" /\ plan.steps[i].phase = "after" /\ plan.steps[j].op = "header"

(* The generated code does what the preview did: the same effects in the   *)
(* same world, and the same answer with the same cookies, header, patches, *)
(* invalidations and redirect, with the differences named.                 *)
CompiledDoesAsPreviewed ==
    LET p == run["preview"]
        c == run["compiled"]
    IN  (c.answer # "none" /\ ~ KnownToDiffer) =>
            /\ p.written = c.written /\ p.sessions = c.sessions /\ p.charged = c.charged
            /\ p.read = c.read
            /\ SameAnswer(p, c)
            /\ (p.answer = c.answer /\ ~(p.answer = "notFound" /\ plan.kind = "action")) =>
                 p.handed = c.handed /\ (HookThenHeader \/ p.header = c.header)
            /\ p.answer = "ok" /\ c.answer = "ok" =>
                 /\ p.patches = c.patches
                 /\ p.invalidations = c.invalidations
                 /\ p.redirect = c.redirect
===============================================================================
