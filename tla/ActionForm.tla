------------------------------ MODULE ActionForm ------------------------------
(***************************************************************************)
(* The browser's action form bridge (ax_action_script): a submitted form   *)
(* is pending while its proof is fetched, its fields are posted and the    *)
(* answer's data refreshes, which run in parallel, replace the page root.  *)
(* A replaced root brings new nodes for the forms inside it: a submission  *)
(* still in flight then reports to a node that nobody sees, and the new    *)
(* node does not know of it.  Each action is one task of the browser,      *)
(* microtasks included, or a step of the server.                           *)
(***************************************************************************)
EXTENDS Naturals, FiniteSets

CONSTANTS
    Forms,
    Inside,       \* the forms inside the page root
    Off,          \* the forms whose submit control the page disables
    Subs,         \* submissions
    Refreshes     \* names of data refreshes

ASSUME InsideAssumption == Inside \subseteq Forms /\ Off \subseteq Forms

VARIABLES
    form,         \* the node of each form that is in the document
    pc,           \* where a submission is
    at,           \* the form it was made with
    attached,     \* whether that node is still in the document
    answer,       \* of the server to its action
    did,          \* the version of the data its action made, or 0
    asked,        \* its refreshes
    shown,        \* the version the page root shows
    source,       \* history: {the submission whose refresh brought it}, or {}
    leaving,      \* a navigation has begun
    version       \* of the server's data

vars == <<form, pc, at, attached, answer, did, asked, shown, source, leaving, version>>

(* What applyPatchResponse makes of an answer: whether it has patches and  *)
(* the state bridge is there to apply them, where it redirects to (a "bad" *)
(* URL is one that location.assign throws at), and the refreshes.          *)
Patches == [kind : {"patch"}, patches : BOOLEAN, redirect : {"none", "good", "bad"},
            refreshes : SUBSET Refreshes]
Answers == Patches \cup [kind : {"error", "page"}]
NoAnswer == [kind |-> "none"]
Versions == 0..Cardinality(Subs)

(* A refresh: asked for, answered with a version of the data, and then     *)
(* shown, or missed.                                                       *)
NotAsked == [stage |-> "no", read |-> 0]
Asked == [stage |-> "asked", read |-> 0]
Missed == [stage |-> "missed", read |-> 0]

InFlight(s) == pc[s] \in {"csrf", "post", "answered", "refresh"}

-----------------------------------------------------------------------------
(* A node as the page renders it: its state, whether its submit control is *)
(* disabled, and data-ax-disabled-before-pending.                          *)
Rendered(f) == [state |-> "", disabled |-> f \in Off, before |-> "none"]

(* Wrong: what the control was before is forgotten. *)
WithStateEnabling(n, state) ==
    [state |-> state, disabled |-> state = "pending", before |-> "none"]

(* setActionState with setActionPending. *)
WithState(n, state) ==
    CASE state = "pending" /\ n.before = "none" ->
            [state |-> state, disabled |-> TRUE, before |-> IF n.disabled THEN "true" ELSE "false"]
      [] state = "pending" /\ n.before # "none" ->
            [state |-> state, disabled |-> TRUE, before |-> n.before]
      [] state # "pending" /\ n.before = "none" -> [n EXCEPT !.state = state]
      [] OTHER -> [state |-> state, disabled |-> n.before = "true", before |-> "none"]

(* The nodes after submission s sets the state of the node it has. *)
Report(nodes, s, state) ==
    IF attached'[s] THEN [nodes EXCEPT ![at[s]] = WithState(@, state)] ELSE nodes

Init ==
    /\ form = [f \in Forms |-> Rendered(f)]
    /\ pc = [s \in Subs |-> "new"]
    /\ at \in [Subs -> Forms]
    /\ attached = [s \in Subs |-> FALSE]
    /\ answer = [s \in Subs |-> NoAnswer]
    /\ did = [s \in Subs |-> 0]
    /\ asked = [s \in Subs |-> [r \in Refreshes |-> NotAsked]]
    /\ shown = 0 /\ source = {} /\ version = 0
    /\ leaving = FALSE

(* Wrong: a form can be submitted again while it is pending. *)
MaySubmitAgain(f) == TRUE

MaySubmit(f) == form[f].state # "pending"

Submit(s) ==
    /\ pc[s] = "new"
    /\ MaySubmit(at[s])
    /\ pc' = [pc EXCEPT ![s] = "csrf"]
    /\ attached' = [attached EXCEPT ![s] = TRUE]
    /\ form' = [form EXCEPT ![at[s]] = WithState(@, "pending")]
    /\ UNCHANGED <<at, answer, did, asked, shown, source, leaving, version>>

(* The proof has come, and the fields are sent. *)
Csrf(s) ==
    /\ pc[s] = "csrf"
    /\ pc' = [pc EXCEPT ![s] = "post"]
    /\ UNCHANGED <<form, at, attached, answer, did, asked, shown, source, leaving, version>>

(* The server runs the action and answers, with the action's effect or not.*)
Execute(s) ==
    /\ pc[s] = "post"
    /\ pc' = [pc EXCEPT ![s] = "answered"]
    /\ \E a \in Answers :
          /\ answer' = [answer EXCEPT ![s] = a]
          /\ IF a.kind \in {"patch", "page"}
               THEN version' = version + 1 /\ did' = [did EXCEPT ![s] = version + 1]
               ELSE UNCHANGED <<version, did>>
    /\ UNCHANGED <<form, at, attached, asked, shown, source, leaving>>

-----------------------------------------------------------------------------
(* Wrong: the call is made outside the try block. *)
Uncaught(s) ==
    /\ pc' = [pc EXCEPT ![s] = "over"]
    /\ UNCHANGED <<form, at, attached, answer, did, asked, shown, source, leaving, version>>

(* What a throw in the submit handler ends in. *)
Caught(s) ==
    /\ UNCHANGED attached
    /\ pc' = [pc EXCEPT ![s] = "over"]
    /\ form' = Report(form, s, "error")
    /\ UNCHANGED <<at, answer, did, asked, shown, source, leaving, version>>

(* A request fails, the proof is refused, the answer is lost or cannot be  *)
(* read, or its patches cannot be applied.                                 *)
Throws(s) ==
    /\ pc[s] \in {"csrf", "post", "answered"}
    /\ Caught(s)

(* An answer that is an error, or an unexpected one that is not a success. *)
ReceiveError(s) ==
    /\ pc[s] = "answered" /\ answer[s].kind = "error"
    /\ Caught(s)

(* Any other success navigates: to the page's new contents, or elsewhere. *)
ReceivePage(s) ==
    /\ pc[s] = "answered" /\ answer[s].kind = "page"
    /\ pc' = [pc EXCEPT ![s] = "over"]
    /\ leaving' = TRUE
    /\ UNCHANGED <<form, at, attached, answer, did, asked, shown, source, version>>

(* Wrong: having asked for refreshes is taken for having got them. *)
RedirectsUnlessAsked(s, refreshed) ==
    /\ answer[s].refreshes = {}
    /\ ~ answer[s].patches
    /\ answer[s].redirect # "none"

(* The end of applyPatchResponse, when all refreshes are settled.          *)
Redirects(s, refreshed) ==
    /\ ~ refreshed
    /\ ~ answer[s].patches
    /\ answer[s].redirect # "none"

(* The submit handler reports the success, or what location.assign throws. *)
Complete(nodes, s, refreshed) ==
    /\ pc' = [pc EXCEPT ![s] = "over"]
    /\ IF Redirects(s, refreshed) /\ answer[s].redirect = "bad"
         THEN form' = Report(nodes, s, "error") /\ UNCHANGED leaving
         ELSE /\ form' = Report(nodes, s, "complete")
              /\ leaving' = (leaving \/ Redirects(s, refreshed))

(* applyPatchResponse: patches are applied, and refreshes asked for. *)
ReceivePatch(s) ==
    /\ pc[s] = "answered" /\ answer[s].kind = "patch"
    /\ UNCHANGED attached
    /\ IF answer[s].refreshes = {}
         THEN Complete(form, s, FALSE) /\ UNCHANGED asked
         ELSE /\ pc' = [pc EXCEPT ![s] = "refresh"]
              /\ asked' = [asked EXCEPT ![s] =
                              [r \in Refreshes |-> IF r \in answer[s].refreshes THEN Asked ELSE NotAsked]]
              /\ UNCHANGED <<form, leaving>>
    /\ UNCHANGED <<at, answer, did, shown, source, version>>

(* The server reads the data for a refresh. *)
Read(s, r) ==
    /\ pc[s] = "refresh" /\ asked[s][r] = Asked
    /\ asked' = [asked EXCEPT ![s][r] = [stage |-> "read", read |-> version]]
    /\ UNCHANGED <<form, pc, at, attached, answer, did, shown, source, leaving, version>>

(* What follows when a refresh of s has been settled: the last one         *)
(* resolves Promise.all.                                                   *)
Settle(nodes, s, refreshes) ==
    IF \E r \in Refreshes : refreshes[r].stage \in {"asked", "read"}
      THEN form' = nodes /\ UNCHANGED <<pc, leaving>>
      ELSE Complete(nodes, s, \E r \in Refreshes : refreshes[r].stage = "shown")

(* A refresh whose request fails or whose answer is of no use. *)
Miss(s, r) ==
    /\ pc[s] = "refresh" /\ asked[s][r].stage \in {"asked", "read"}
    /\ asked' = [asked EXCEPT ![s][r] = Missed]
    /\ UNCHANGED attached
    /\ Settle(form, s, asked'[s])
    /\ UNCHANGED <<at, answer, did, shown, source, version>>

(* applyDataRefresh: the answer is the whole page root. *)
Apply(s, r) ==
    /\ pc[s] = "refresh" /\ asked[s][r].stage = "read"
    /\ shown' = asked[s][r].read /\ source' = {s}
    /\ asked' = [asked EXCEPT ![s][r].stage = "shown"]
    /\ attached' = [u \in Subs |-> attached[u] /\ at[u] \notin Inside]
    /\ Settle([f \in Forms |-> IF f \in Inside THEN Rendered(f) ELSE form[f]], s, asked'[s])
    /\ UNCHANGED <<at, answer, did, version>>

(* A new page replaces the old one, and what that had in flight. *)
Load ==
    /\ leaving
    /\ leaving' = FALSE
    /\ form' = [f \in Forms |-> Rendered(f)]
    /\ pc' = [s \in Subs |-> IF InFlight(s) THEN "over" ELSE pc[s]]
    /\ attached' = [s \in Subs |-> FALSE]
    /\ shown' = version /\ source' = {}
    /\ UNCHANGED <<at, answer, did, asked, version>>

Progress(s) ==
    \/ Csrf(s) \/ Execute(s) \/ Throws(s)
    \/ ReceiveError(s) \/ ReceivePage(s) \/ ReceivePatch(s)
    \/ \E r \in Refreshes : Read(s, r) \/ Miss(s, r) \/ Apply(s, r)

Next ==
    \/ \E s \in Subs : Submit(s) \/ Progress(s)
    \/ Load

(* Every request is answered or fails, and a navigation is completed;      *)
(* nobody has to submit.                                                   *)
Spec == Init /\ [][Next]_vars /\ (\A s \in Subs : WF_vars(Progress(s))) /\ WF_vars(Load)

-----------------------------------------------------------------------------
(* A node that is in the document is pending exactly while one submission  *)
(* made with it is in flight, or until a navigation takes it away: two are *)
(* in flight for one form only if the page root was replaced in between,   *)
(* and no answer ends the pending state of another submission.             *)
PendingWhileInFlight ==
    /\ \A s \in Subs : InFlight(s) /\ attached[s] => form[at[s]].state = "pending"
    /\ \A s, u \in Subs : s # u /\ InFlight(s) /\ attached[s] /\ InFlight(u) /\ attached[u]
                           => at[s] # at[u]
    /\ \A f \in Forms : form[f].state = "pending" =>
          leaving \/ \E s \in Subs : InFlight(s) /\ attached[s] /\ at[s] = f

(* When a form is not pending its submit control is enabled or disabled as *)
(* the page rendered it, whatever sequence of submissions came before.     *)
ControlsRestored ==
    \A f \in Forms : form[f].disabled = (f \in Off \/ form[f].state = "pending")

(* When an action with somewhere to go has been completed with refreshes,  *)
(* the user goes there, or sees its patches or a page that has its effect: *)
(* refreshes that all fail do not leave the old page standing, whatever    *)
(* others have shown.  A page that lacks the effect is left only by what   *)
(* another submission read before it and showed after a refresh of s.      *)
SuccessIsShown ==
    [][\A s \in Subs :
          pc[s] = "refresh" /\ pc'[s] = "over" /\ answer[s].redirect = "good" =>
             \/ leaving' \/ answer[s].patches
             \/ shown' >= did[s]
             \/ /\ \E r \in Refreshes : asked'[s][r].stage = "shown"
                /\ \E u \in Subs \ {s} : source' = {u}]_vars

(* No form stays pending: every call of the submit handler can fail, and   *)
(* every failure is reported, if each request is answered or fails.        *)
EveryFormSettles ==
    \A f \in Forms : form[f].state = "pending" ~> form[f].state # "pending"
==============================================================================
