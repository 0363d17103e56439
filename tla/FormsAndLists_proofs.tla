------------------------ MODULE FormsAndLists_proofs -------------------------
(***************************************************************************)
(* Proofs about what a page keeps: its forms (module ActionForm), for any  *)
(* forms, any of them inside the page root or with a disabled control, any *)
(* number of submissions and of refreshes; and its lists (StateLists), for *)
(* any set of lists, and listeners of which any one corrects any of them.  *)
(***************************************************************************)
EXTENDS ActionForm, StateLists, SequenceTheorems, FiniteSetTheorems, TLAPS

States == {"", "pending", "complete", "error"}
Stages == {"new", "csrf", "post", "answered", "refresh", "over"}
Refresh == [stage : {"no", "asked", "missed", "read", "shown"}, read : Nat]

(* The only nodes there are: what was before is kept exactly while it      *)
(* matters, and is what the page rendered.                                 *)
Node(f, state) ==
    [state |-> state,
     disabled |-> IF f \in Off \/ state = "pending" THEN TRUE ELSE FALSE,
     before |-> IF state # "pending" THEN "none" ELSE IF f \in Off THEN "true" ELSE "false"]

NodesOK(nodes) ==
    /\ nodes = [f \in Forms |-> Node(f, nodes[f].state)]
    /\ \A f \in Forms : nodes[f].state \in States

TypeOK ==
    /\ NodesOK(form)
    /\ pc \in [Subs -> Stages]
    /\ at \in [Subs -> Forms]
    /\ attached \in [Subs -> BOOLEAN]
    /\ answer \in [Subs -> Answers \cup {NoAnswer}]
    /\ did \in [Subs -> Nat]
    /\ asked \in [Subs -> [Refreshes -> Refresh]]
    /\ shown \in Nat /\ version \in Nat
    /\ leaving \in BOOLEAN

(* PendingWhileInFlight, said of any nodes and any attachment.             *)
PendingWith(nodes, kept) ==
    /\ \A s \in Subs : InFlight(s) /\ kept[s] => nodes[at[s]].state = "pending"
    /\ \A s, u \in Subs : s # u /\ InFlight(s) /\ kept[s] /\ InFlight(u) /\ kept[u] => at[s] # at[u]
    /\ \A f \in Forms : nodes[f].state = "pending" =>
          leaving \/ \E s \in Subs : InFlight(s) /\ kept[s] /\ at[s] = f

(* A submission is not ahead of its refreshes, and a refresh reads what    *)
(* the action did.                                                         *)
RefreshesFollow ==
    \A s \in Subs :
        /\ did[s] <= version
        /\ pc[s] \in {"new", "csrf", "post", "answered"} => \A r \in Refreshes : asked[s][r] = NotAsked
        /\ pc[s] = "refresh" =>
              \A r \in Refreshes : asked[s][r].stage \in {"read", "shown"} => did[s] <= asked[s][r].read

(* Once a refresh of a submission was shown, the page has what its action  *)
(* did, or what another submission showed later.                           *)
ShownOrReplaced ==
    \A s \in Subs :
        pc[s] = "refresh" /\ (\E r \in Refreshes : asked[s][r].stage = "shown") =>
           did[s] <= shown \/ \E u \in Subs \ {s} : source = {u}

IInv == TypeOK /\ PendingWhileInFlight /\ RefreshesFollow /\ ShownOrReplaced
-----------------------------------------------------------------------------
(* A node, field by field.                                                 *)
LEMMA NodeFacts ==
    ASSUME NEW f, NEW state
    PROVE  /\ f \in Off /\ state = "pending" =>
                 Node(f, state) = [state |-> state, disabled |-> TRUE, before |-> "true"]
           /\ f \notin Off /\ state = "pending" =>
                 Node(f, state) = [state |-> state, disabled |-> TRUE, before |-> "false"]
           /\ f \in Off /\ state # "pending" =>
                 Node(f, state) = [state |-> state, disabled |-> TRUE, before |-> "none"]
           /\ f \notin Off /\ state # "pending" =>
                 Node(f, state) = [state |-> state, disabled |-> FALSE, before |-> "none"]
           /\ Node(f, state).state = state
BY DEF Node

(* Of the nodes there are, setActionState makes such nodes: the control    *)
(* gets back what the page rendered, whatever the states in between.       *)
LEMMA WithStateFacts ==
    ASSUME NEW nodes, NodesOK(nodes), NEW f \in Forms, NEW state \in States
    PROVE  WithState(nodes[f], state) = Node(f, state)
<1>1. PICK old \in States : nodes[f] = Node(f, old)
  BY DEF NodesOK
<1>2. CASE state = "pending" /\ old # "pending" /\ f \in Off
  <2>1. nodes[f] = [state |-> old, disabled |-> TRUE, before |-> "none"]
    BY <1>1, <1>2, NodeFacts
  <2>. QED
    BY <1>2, <2>1, NodeFacts DEF WithState
<1>3. CASE state = "pending" /\ old # "pending" /\ f \notin Off
  <2>1. nodes[f] = [state |-> old, disabled |-> FALSE, before |-> "none"]
    BY <1>1, <1>3, NodeFacts
  <2>. QED
    BY <1>3, <2>1, NodeFacts DEF WithState
<1>4. CASE state = "pending" /\ old = "pending" /\ f \in Off
  <2>1. nodes[f] = [state |-> old, disabled |-> TRUE, before |-> "true"]
    BY <1>1, <1>4, NodeFacts
  <2>. QED
    BY <1>4, <2>1, NodeFacts DEF WithState
<1>5. CASE state = "pending" /\ old = "pending" /\ f \notin Off
  <2>1. nodes[f] = [state |-> old, disabled |-> TRUE, before |-> "false"]
    BY <1>1, <1>5, NodeFacts
  <2>. QED
    BY <1>5, <2>1, NodeFacts DEF WithState
<1>6. CASE state # "pending" /\ old # "pending"
  <2>1. PICK d : d = IF f \in Off THEN TRUE ELSE FALSE
    OBVIOUS
  <2>2. /\ nodes[f] = [state |-> old, disabled |-> d, before |-> "none"]
        /\ Node(f, state) = [state |-> state, disabled |-> d, before |-> "none"]
    BY <1>1, <1>6, <2>1, NodeFacts
  <2>3. nodes[f].before = "none"
    BY <2>2
  <2>4. WithState(nodes[f], state) = [nodes[f] EXCEPT !.state = state]
    BY <1>6, <2>3 DEF WithState
  <2>. QED
    BY <2>2, <2>4
<1>7. CASE state # "pending" /\ old = "pending"
  <2>1. nodes[f].before = IF f \in Off THEN "true" ELSE "false"
    BY <1>1, <1>7, NodeFacts
  <2>2. WithState(nodes[f], state) =
           [state |-> state, disabled |-> nodes[f].before = "true", before |-> "none"]
    BY <1>7, <2>1 DEF WithState
  <2>3. CASE f \in Off
    <3>1. (nodes[f].before = "true") = TRUE
      BY <2>1, <2>3
    <3>2. Node(f, state) = [state |-> state, disabled |-> TRUE, before |-> "none"]
      BY <1>7, <2>3, NodeFacts
    <3>. QED
      BY <2>2, <3>1, <3>2, Zenon
  <2>4. CASE f \notin Off
    <3>1. (nodes[f].before = "true") = FALSE
      BY <2>1, <2>4
    <3>2. Node(f, state) = [state |-> state, disabled |-> FALSE, before |-> "none"]
      BY <1>7, <2>4, NodeFacts
    <3>. QED
      BY <2>2, <3>1, <3>2, Zenon
  <2>. QED
    BY <2>3, <2>4
<1>. QED
  BY <1>2, <1>3, <1>4, <1>5, <1>6, <1>7

(* A report changes the node it is made to, if the page still has it.      *)
LEMMA ReportFacts ==
    ASSUME NEW nodes, NodesOK(nodes), at \in [Subs -> Forms], NEW s \in Subs, NEW state \in States
    PROVE  /\ NodesOK(Report(nodes, s, state))
           /\ \A f \in Forms : Report(nodes, s, state)[f].state =
                 IF attached'[s] /\ f = at[s] THEN state ELSE nodes[f].state
<1>1. at[s] \in Forms /\ DOMAIN nodes = Forms /\ \A f \in Forms : nodes[f] = Node(f, nodes[f].state)
  BY DEF NodesOK
<1>2. CASE attached'[s]
  <2>1. Report(nodes, s, state) = [nodes EXCEPT ![at[s]] = Node(at[s], state)]
    BY <1>1, <1>2, WithStateFacts DEF Report
  <2>2. \A f \in Forms : Report(nodes, s, state)[f] = IF f = at[s] THEN Node(f, state) ELSE nodes[f]
    BY <1>1, <2>1
  <2>3. \A f \in Forms : Report(nodes, s, state)[f].state = IF f = at[s] THEN state ELSE nodes[f].state
    <3>1. \A f \in Forms : Node(f, state).state = state
      BY NodeFacts
    <3>. QED
      BY <2>2, <3>1
  <2>4. \A f \in Forms : Report(nodes, s, state)[f] = Node(f, Report(nodes, s, state)[f].state)
    BY <1>1, <2>2, <2>3
  <2>5. Report(nodes, s, state) = [f \in Forms |-> Report(nodes, s, state)[f]]
    BY <1>1, <2>1
  <2>. QED
    BY <1>2, <2>3, <2>4, <2>5 DEF NodesOK
<1>3. CASE ~ attached'[s]
  BY <1>3 DEF Report
<1>. QED
  BY <1>2, <1>3

(* A node as the page renders it is a node.                                *)
LEMMA RenderedIsNode ==
    ASSUME NEW f \in Forms
    PROVE  Rendered(f) = Node(f, "") /\ Rendered(f).state = ""
<1>1. CASE f \in Off
  <2>1. (f \in Off) = TRUE /\ Node(f, "") = [state |-> "", disabled |-> TRUE, before |-> "none"]
    BY <1>1, NodeFacts
  <2>. QED
    BY <2>1, NodeFacts, Zenon DEF Rendered
<1>2. CASE f \notin Off
  <2>1. (f \in Off) = FALSE
    BY <1>2
  <2>2. Node(f, "") = [state |-> "", disabled |-> FALSE, before |-> "none"]
    BY <1>2, NodeFacts
  <2>. QED
    BY <2>1, <2>2, NodeFacts, Zenon DEF Rendered
<1>. QED
  BY <1>1, <1>2

(* A page as it is rendered, whole or inside the page root.                *)
LEMMA RenderedFacts ==
    ASSUME NEW nodes, NodesOK(nodes), NEW S
    PROVE  /\ NodesOK([f \in Forms |-> IF f \in S THEN Rendered(f) ELSE nodes[f]])
           /\ NodesOK([f \in Forms |-> Rendered(f)])
           /\ \A f \in Forms : Rendered(f).state = ""
<1>1. \A f \in Forms : Rendered(f) = Node(f, "") /\ Rendered(f).state = ""
  BY RenderedIsNode
<1>2. \A f \in Forms : nodes[f] = Node(f, nodes[f].state) /\ nodes[f].state \in States
  BY DEF NodesOK
<1>. QED
  BY <1>1, <1>2 DEF NodesOK, States

-----------------------------------------------------------------------------
(* What the steps of a submission do to the nodes, to what is in flight    *)
(* and to the navigation.  Most leave the nodes alone; some are the end.   *)
Continues(s) ==
    /\ pc[s] \in {"csrf", "post", "answered", "refresh"}
    /\ \E stage \in {"post", "answered", "refresh"} : pc' = [pc EXCEPT ![s] = stage]
    /\ UNCHANGED <<form, attached, leaving>>

Root == [f \in Forms |-> IF f \in Inside THEN Rendered(f) ELSE form[f]]

Waits == UNCHANGED <<form, pc, attached, leaving>>

Replaces ==
    /\ attached' = [u \in Subs |-> attached[u] /\ at[u] \notin Inside]
    /\ UNCHANGED <<pc, leaving>>
    /\ form' = Root

Ends(s, nodes) ==
    /\ InFlight(s)
    /\ pc' = [pc EXCEPT ![s] = "over"]
    /\ leaving' \in BOOLEAN /\ (leaving => leaving')
    /\ \/ form' = nodes /\ leaving'
       \/ \E state \in {"complete", "error"} : form' = Report(nodes, s, state)

EndsAsItIs(s) == Ends(s, form) /\ UNCHANGED attached

EndsReplacing(s) ==
    /\ Ends(s, Root)
    /\ attached' = [u \in Subs |-> attached[u] /\ at[u] \notin Inside]

LEMMA ProgressCases ==
    ASSUME TypeOK, NEW s \in Subs, Progress(s)
    PROVE  Continues(s) \/ Waits \/ Replaces \/ EndsAsItIs(s) \/ EndsReplacing(s)
<1>. DEFINE Cases == Continues(s) \/ Waits \/ Replaces \/ EndsAsItIs(s) \/ EndsReplacing(s)
<1>1. CASE Csrf(s) \/ Execute(s) \/ \E r \in Refreshes : Read(s, r)
  BY <1>1 DEF Csrf, Execute, Read, Continues, Waits
<1>2. CASE Throws(s) \/ ReceiveError(s)
  BY <1>2 DEF Throws, ReceiveError, Caught, EndsAsItIs, Ends, InFlight, TypeOK
<1>3. CASE ReceivePage(s)
  BY <1>3 DEF ReceivePage, EndsAsItIs, Ends, InFlight
<1>4. ASSUME NEW nodes, NEW refreshed \in BOOLEAN, pc[s] \in {"answered", "refresh"}, Complete(nodes, s, refreshed)
      PROVE  Ends(s, nodes)
  <2>1. leaving' \in BOOLEAN /\ (leaving => leaving')
    BY <1>4 DEF Complete, TypeOK
  <2>. QED
    BY <1>4, <2>1 DEF Complete, Ends, InFlight
<1>5. CASE ReceivePatch(s)
  <2>1. CASE answer[s].refreshes = {}
    <3>1. pc[s] = "answered" /\ Complete(form, s, FALSE) /\ UNCHANGED attached
      BY <1>5, <2>1 DEF ReceivePatch
    <3>. QED
      BY <1>4, <3>1 DEF EndsAsItIs
  <2>2. CASE answer[s].refreshes # {}
    BY <1>5, <2>2 DEF ReceivePatch, Continues
  <2>. QED
    BY <2>1, <2>2
<1>6. ASSUME NEW r \in Refreshes, Miss(s, r) PROVE Cases
  <2>1. pc[s] = "refresh" /\ UNCHANGED attached /\ Settle(form, s, asked'[s])
    BY <1>6 DEF Miss
  <2>2. \/ UNCHANGED <<form, pc, leaving>>
        \/ \E refreshed \in BOOLEAN : Complete(form, s, refreshed)
    BY <2>1 DEF Settle
  <2>. QED
    BY <1>4, <2>1, <2>2 DEF EndsAsItIs, Waits
<1>7. ASSUME NEW r \in Refreshes, Apply(s, r) PROVE Cases
  <2>1. /\ pc[s] = "refresh" /\ Settle(Root, s, asked'[s])
        /\ attached' = [u \in Subs |-> attached[u] /\ at[u] \notin Inside]
    BY <1>7 DEF Apply, Root
  <2>2. \/ form' = Root /\ UNCHANGED <<pc, leaving>>
        \/ \E refreshed \in BOOLEAN : Complete(Root, s, refreshed)
    BY <2>1 DEF Settle
  <2>. QED
    BY <1>4, <2>1, <2>2 DEF EndsReplacing, Replaces
<1>. QED
  BY <1>1, <1>2, <1>3, <1>5, <1>6, <1>7 DEF Progress

LEMMA RootFacts ==
    ASSUME TypeOK
    PROVE  /\ NodesOK(Root)
           /\ \A f \in Forms : Root[f].state = IF f \in Inside THEN "" ELSE form[f].state
BY RenderedFacts DEF TypeOK, Root

(* The nodes stay nodes.                                                   *)
LEMMA NodesStayOK ==
    ASSUME TypeOK, Next
    PROVE  NodesOK(form')
<1>1. ASSUME NEW s \in Subs, Submit(s) PROVE NodesOK(form')
  <2>1. attached'[s] /\ form' = Report(form, s, "pending")
    BY <1>1 DEF Submit, Report, TypeOK
  <2>. QED
    BY <2>1, ReportFacts DEF TypeOK, States
<1>2. ASSUME NEW s \in Subs, Progress(s) PROVE NodesOK(form')
  <2>1. CASE Continues(s) \/ Waits
    BY <2>1 DEF Continues, Waits, TypeOK
  <2>2. CASE Replaces
    BY <2>2, RootFacts DEF Replaces
  <2>3. ASSUME NEW nodes, NodesOK(nodes), Ends(s, nodes) PROVE NodesOK(form')
    <3>1. CASE form' = nodes
      BY <2>3, <3>1
    <3>2. ASSUME NEW state \in {"complete", "error"}, form' = Report(nodes, s, state)
          PROVE  NodesOK(form')
      BY <2>3, <3>2, ReportFacts DEF TypeOK, States
    <3>. QED
      BY <2>3, <3>1, <3>2 DEF Ends
  <2>. QED
    BY <1>2, <2>1, <2>2, <2>3, ProgressCases, RootFacts DEF EndsAsItIs, EndsReplacing, TypeOK
<1>3. CASE Load
  BY <1>3, RenderedFacts DEF Load, TypeOK
<1>. QED
  BY <1>1, <1>2, <1>3 DEF Next

LEMMA NextTypeOK ==
    ASSUME TypeOK, Next
    PROVE  TypeOK'
<1>1. NodesOK(form')
  BY NodesStayOK
<1>2. Asked \in Refresh /\ NotAsked \in Refresh /\ Missed \in Refresh
  BY DEF Asked, NotAsked, Missed, Refresh
<1>. USE DEF TypeOK
<1>3. ASSUME NEW s \in Subs, Submit(s) \/ Csrf(s) PROVE TypeOK'
  BY <1>1, <1>3 DEF Submit, Csrf, Stages
<1>4. ASSUME NEW s \in Subs, Execute(s) PROVE TypeOK'
  <2>1. answer' \in [Subs -> Answers \cup {NoAnswer}] /\ version' \in Nat /\ did' \in [Subs -> Nat]
    BY <1>4 DEF Execute
  <2>. QED
    BY <1>1, <1>4, <2>1 DEF Execute, Stages
<1>5. ASSUME NEW s \in Subs, Throws(s) \/ ReceiveError(s) \/ ReceivePage(s) PROVE TypeOK'
  BY <1>1, <1>5 DEF Throws, ReceiveError, ReceivePage, Caught, Stages
<1>6. ASSUME NEW s \in Subs, pc' = pc \/ pc' = [pc EXCEPT ![s] = "over"]
      PROVE  pc' \in [Subs -> Stages]
  BY <1>6 DEF Stages
<1>7. ASSUME NEW s \in Subs, ReceivePatch(s) PROVE TypeOK'
  <2>1. asked' \in [Subs -> [Refreshes -> Refresh]]
    <3>1. [r \in Refreshes |-> IF r \in answer[s].refreshes THEN Asked ELSE NotAsked]
             \in [Refreshes -> Refresh]
      BY <1>2
    <3>2. CASE UNCHANGED asked
      BY <3>2
    <3>3. CASE asked' = [asked EXCEPT ![s] =
                     [r \in Refreshes |-> IF r \in answer[s].refreshes THEN Asked ELSE NotAsked]]
      BY <3>1, <3>3
    <3>. QED
      BY <1>7, <3>2, <3>3 DEF ReceivePatch
  <2>2. leaving' \in BOOLEAN /\ pc' \in [Subs -> Stages]
    BY <1>7 DEF ReceivePatch, Complete, Stages
  <2>. QED
    BY <1>1, <1>7, <2>1, <2>2 DEF ReceivePatch
<1>8. ASSUME NEW s \in Subs, NEW r \in Refreshes, Read(s, r) PROVE TypeOK'
  <2>1. [stage |-> "read", read |-> version] \in Refresh
    BY DEF Refresh
  <2>2. asked' \in [Subs -> [Refreshes -> Refresh]]
    BY <1>8, <2>1 DEF Read
  <2>. QED
    BY <1>1, <1>8, <2>2 DEF Read
<1>9. ASSUME NEW s \in Subs, NEW nodes, NEW refreshes, Settle(nodes, s, refreshes)
      PROVE  pc' \in [Subs -> Stages] /\ leaving' \in BOOLEAN
  BY <1>9 DEF Settle, Complete, Stages
<1>10. ASSUME NEW s \in Subs, NEW r \in Refreshes, Miss(s, r) PROVE TypeOK'
  <2>1. asked' \in [Subs -> [Refreshes -> Refresh]]
    BY <1>2, <1>10 DEF Miss
  <2>. QED
    BY <1>1, <1>9, <1>10, <2>1 DEF Miss
<1>11. ASSUME NEW s \in Subs, NEW r \in Refreshes, Apply(s, r) PROVE TypeOK'
  <2>1. asked' \in [Subs -> [Refreshes -> Refresh]] /\ shown' \in Nat
    <3>1. asked[s][r] \in Refresh
      OBVIOUS
    <3>2. [asked[s][r] EXCEPT !.stage = "shown"] \in Refresh /\ asked[s][r].read \in Nat
      BY <3>1 DEF Refresh
    <3>3. asked' = [asked EXCEPT ![s] = [asked[s] EXCEPT ![r] = [asked[s][r] EXCEPT !.stage = "shown"]]]
      BY <1>11 DEF Apply
    <3>. QED
      BY <1>11, <3>2, <3>3 DEF Apply
  <2>2. attached' \in [Subs -> BOOLEAN]
    BY <1>11 DEF Apply
  <2>. QED
    BY <1>1, <1>9, <1>11, <2>1, <2>2 DEF Apply
<1>12. CASE Load
  BY <1>1, <1>12 DEF Load, Stages
<1>. QED
  BY <1>3, <1>4, <1>5, <1>7, <1>8, <1>10, <1>11, <1>12 DEF Next, Progress
-----------------------------------------------------------------------------
LEMMA AtKept ==
    ASSUME Next
    PROVE  at' = at
BY DEF Next, Submit, Progress, Csrf, Execute, Throws, ReceiveError, ReceivePage, ReceivePatch, Read,
       Miss, Apply, Load, Caught

(* The page root's nodes are new, and nothing in flight knows of them.     *)
LEMMA PendingWithRoot ==
    ASSUME TypeOK, PendingWhileInFlight,
           attached' = [u \in Subs |-> attached[u] /\ at[u] \notin Inside]
    PROVE  PendingWith(Root, attached')
<1>1. \A u \in Subs : attached'[u] <=> attached[u] /\ at[u] \notin Inside
  OBVIOUS
<1>2. \A s \in Subs : at[s] \in Forms
  BY DEF TypeOK
<1>3. \A f \in Forms : Root[f].state = IF f \in Inside THEN "" ELSE form[f].state
  BY RootFacts
<1>4. \A s \in Subs : InFlight(s) /\ attached'[s] => Root[at[s]].state = "pending"
  BY <1>1, <1>2, <1>3 DEF PendingWhileInFlight
<1>5. \A s, u \in Subs : s # u /\ InFlight(s) /\ attached'[s] /\ InFlight(u) /\ attached'[u]
                         => at[s] # at[u]
  BY <1>1 DEF PendingWhileInFlight
<1>6. ASSUME NEW f \in Forms, Root[f].state = "pending"
      PROVE  leaving \/ \E s \in Subs : InFlight(s) /\ attached'[s] /\ at[s] = f
  <2>1. f \notin Inside /\ form[f].state = "pending"
    BY <1>3, <1>6
  <2>. QED
    BY <1>1, <2>1 DEF PendingWhileInFlight
<1>. QED
  BY <1>4, <1>5, <1>6 DEF PendingWith

(* A submission that ends takes the pending state from its own node, if    *)
(* the page still has it, and from no other.                               *)
LEMMA PendingAfterEnd ==
    ASSUME TypeOK, at' = at, NEW s \in Subs, NEW nodes, NodesOK(nodes),
           PendingWith(nodes, attached'), Ends(s, nodes)
    PROVE  PendingWhileInFlight'
<1>1. /\ InFlight(s) /\ pc' = [pc EXCEPT ![s] = "over"]
      /\ \A u \in Subs : at[u] \in Forms
  BY DEF Ends, TypeOK
<1>2. \A u \in Subs : InFlight(u)' <=> InFlight(u) /\ u # s
  BY <1>1 DEF InFlight, TypeOK
<1>3. CASE form' = nodes /\ leaving'
  BY <1>2, <1>3 DEF PendingWith, PendingWhileInFlight
<1>4. ASSUME NEW state \in {"complete", "error"}, form' = Report(nodes, s, state)
      PROVE  PendingWhileInFlight'
  <2>1. \A f \in Forms : form'[f].state = IF attached'[s] /\ f = at[s] THEN state ELSE nodes[f].state
    <3>1. state \in States /\ at \in [Subs -> Forms]
      BY DEF TypeOK, States
    <3>2. \A f \in Forms : Report(nodes, s, state)[f].state =
             IF attached'[s] /\ f = at[s] THEN state ELSE nodes[f].state
      BY <3>1, ReportFacts
    <3>. QED
      BY <1>4, <3>2
  <2>2. ASSUME NEW u \in Subs, InFlight(u)', attached'[u] PROVE form'[at[u]].state = "pending"
    <3>1. u # s /\ InFlight(u)
      BY <1>2, <2>2
    <3>2. attached'[s] => at[u] # at[s]
      BY <1>1, <2>2, <3>1 DEF PendingWith
    <3>. QED
      BY <1>1, <2>1, <2>2, <3>1, <3>2 DEF PendingWith
  <2>3. \A u, v \in Subs : u # v /\ InFlight(u)' /\ attached'[u] /\ InFlight(v)' /\ attached'[v]
                           => at[u] # at[v]
    BY <1>2 DEF PendingWith
  <2>4. ASSUME NEW f \in Forms, form'[f].state = "pending"
        PROVE  leaving' \/ \E u \in Subs : InFlight(u)' /\ attached'[u] /\ at[u] = f
    <3>1. nodes[f].state = "pending" /\ ~ (attached'[s] /\ f = at[s])
      BY <1>4, <2>1, <2>4
    <3>2. leaving \/ \E u \in Subs : InFlight(u) /\ attached'[u] /\ at[u] = f
      BY <3>1 DEF PendingWith
    <3>. QED
      BY <1>2, <3>1, <3>2 DEF Ends
  <2>. QED
    BY <2>2, <2>3, <2>4 DEF PendingWhileInFlight
<1>. QED
  BY <1>3, <1>4 DEF Ends

LEMMA NextPendingWhileInFlight ==
    ASSUME TypeOK, PendingWhileInFlight, Next
    PROVE  PendingWhileInFlight'
<1>0. at' = at /\ \A u \in Subs : at[u] \in Forms
  BY AtKept DEF TypeOK
<1>1. ASSUME NEW s \in Subs, Submit(s) PROVE PendingWhileInFlight'
  <2>1. /\ form[at[s]].state # "pending" /\ pc[s] = "new"
        /\ \A u \in Subs : attached'[u] <=> attached[u] \/ u = s
        /\ \A u \in Subs : InFlight(u)' <=> InFlight(u) \/ u = s
        /\ form' = Report(form, s, "pending") /\ leaving' = leaving
    BY <1>1 DEF Submit, MaySubmit, Report, InFlight, TypeOK
  <2>2. \A f \in Forms : form'[f].state = IF f = at[s] THEN "pending" ELSE form[f].state
    <3>1. "pending" \in States /\ at \in [Subs -> Forms] /\ NodesOK(form)
      BY DEF TypeOK, States
    <3>2. \A f \in Forms : Report(form, s, "pending")[f].state =
             IF attached'[s] /\ f = at[s] THEN "pending" ELSE form[f].state
      BY <3>1, ReportFacts
    <3>. QED
      BY <2>1, <3>2
  <2>3. \A u \in Subs : InFlight(u) /\ attached[u] => at[u] # at[s]
    BY <2>1 DEF PendingWhileInFlight
  <2>4. \A u \in Subs : InFlight(u)' /\ attached'[u] => form'[at[u]].state = "pending"
    BY <1>0, <2>1, <2>2 DEF PendingWhileInFlight, InFlight
  <2>5. \A u, v \in Subs : u # v /\ InFlight(u)' /\ attached'[u] /\ InFlight(v)' /\ attached'[v]
                           => at[u] # at[v]
    BY <2>1, <2>3 DEF PendingWhileInFlight
  <2>6. ASSUME NEW f \in Forms, form'[f].state = "pending"
        PROVE  leaving' \/ \E u \in Subs : InFlight(u)' /\ attached'[u] /\ at[u] = f
    BY <2>1, <2>2, <2>6 DEF PendingWhileInFlight
  <2>. QED
    BY <1>0, <2>4, <2>5, <2>6 DEF PendingWhileInFlight
<1>2. ASSUME NEW s \in Subs, Progress(s) PROVE PendingWhileInFlight'
  <2>1. CASE Continues(s)
    <3>1. /\ \A u \in Subs : InFlight(u)' <=> InFlight(u)
          /\ form' = form /\ attached' = attached /\ leaving' = leaving
      BY <2>1 DEF Continues, InFlight, TypeOK
    <3>. QED
      BY <1>0, <3>1 DEF PendingWhileInFlight
  <2>2. CASE Waits
    BY <1>0, <2>2 DEF Waits, PendingWhileInFlight, InFlight
  <2>3. CASE Replaces
    <3>1. PendingWith(Root, attached')
      BY <2>3, PendingWithRoot DEF Replaces
    <3>. QED
      BY <1>0, <2>3, <3>1 DEF Replaces, PendingWith, PendingWhileInFlight, InFlight
  <2>4. CASE EndsAsItIs(s)
    <3>1. NodesOK(form) /\ PendingWith(form, attached') /\ Ends(s, form)
      BY <2>4 DEF EndsAsItIs, TypeOK, PendingWith, PendingWhileInFlight
    <3>. QED
      BY <1>0, <3>1, PendingAfterEnd
  <2>5. CASE EndsReplacing(s)
    <3>1. NodesOK(Root) /\ PendingWith(Root, attached') /\ Ends(s, Root)
      BY <2>5, RootFacts, PendingWithRoot DEF EndsReplacing
    <3>. QED
      BY <1>0, <3>1, PendingAfterEnd
  <2>. QED
    BY <1>2, <2>1, <2>2, <2>3, <2>4, <2>5, ProgressCases
<1>3. CASE Load
  <2>1. \A f \in Forms : form'[f].state = ""
    BY <1>3, RenderedFacts DEF Load, TypeOK
  <2>2. \A u \in Subs : ~ attached'[u]
    BY <1>3 DEF Load
  <2>. QED
    BY <1>0, <2>1, <2>2 DEF PendingWhileInFlight
<1>. QED
  BY <1>1, <1>2, <1>3 DEF Next
-----------------------------------------------------------------------------
(* The pieces of RefreshesFollow and ShownOrReplaced for one submission.  *)
Follows(s) ==
    /\ did[s] <= version
    /\ pc[s] \in {"new", "csrf", "post", "answered"} => \A r \in Refreshes : asked[s][r] = NotAsked
    /\ pc[s] = "refresh" =>
          \A r \in Refreshes : asked[s][r].stage \in {"read", "shown"} => did[s] <= asked[s][r].read

(* What a step does to the refreshes of a submission: nothing, or one      *)
(* asks, one reads the data, one is missed, or one is shown.               *)
Same(s) == pc'[s] = pc[s] /\ asked'[s] = asked[s] /\ did'[s] = did[s]

(* A refresh that is missed, and one that is shown.                        *)
LEMMA MissFacts ==
    ASSUME TypeOK, NEW s \in Subs, NEW r \in Refreshes, Miss(s, r)
    PROVE  \A q \in Refreshes : asked'[s][q] = IF q = r THEN Missed ELSE asked[s][q]
BY DEF Miss, TypeOK

LEMMA ApplyFacts ==
    ASSUME TypeOK, NEW s \in Subs, NEW r \in Refreshes, Apply(s, r)
    PROVE  /\ asked[s][r].stage = "read" /\ asked[s][r].read = shown' /\ shown' \in Nat
           /\ asked'[s][r].stage = "shown" /\ asked'[s][r].read = shown'
           /\ \A q \in Refreshes : q # r => asked'[s][q] = asked[s][q]
<1>1. asked[s][r] \in Refresh
  BY DEF TypeOK
<1>2. PICK n : n = [asked[s][r] EXCEPT !.stage = "shown"]
  OBVIOUS
<1>3. n.stage = "shown" /\ n.read = asked[s][r].read /\ n.read \in Nat
  BY <1>1, <1>2 DEF Refresh
<1>4. asked' = [asked EXCEPT ![s] = [asked[s] EXCEPT ![r] = n]]
  BY <1>2 DEF Apply
<1>5. \A q \in Refreshes : asked'[s][q] = IF q = r THEN n ELSE asked[s][q]
  BY <1>4 DEF TypeOK
<1>. QED
  BY <1>3, <1>5 DEF Apply

LEMMA OthersSame ==
    ASSUME TypeOK, NEW s \in Subs, Submit(s) \/ Progress(s), NEW u \in Subs, u # s
    PROVE  Same(u)
<1>. USE DEF TypeOK, Same
<1>1. CASE Submit(s) \/ Csrf(s) \/ Execute(s) \/ Throws(s) \/ ReceiveError(s) \/ ReceivePage(s)
  BY <1>1 DEF Submit, Csrf, Execute, Throws, ReceiveError, ReceivePage, Caught
<1>2. CASE ReceivePatch(s)
  BY <1>2 DEF ReceivePatch, Complete
<1>3. ASSUME NEW r \in Refreshes, Read(s, r) PROVE Same(u)
  BY <1>3 DEF Read
<1>4. ASSUME NEW r \in Refreshes, Miss(s, r) \/ Apply(s, r) PROVE Same(u)
  <2>1. pc'[u] = pc[u]
    BY <1>4 DEF Miss, Apply, Settle, Complete
  <2>2. asked'[u] = asked[u] /\ did'[u] = did[u]
    BY <1>4 DEF Miss, Apply
  <2>. QED
    BY <2>1, <2>2
<1>. QED
  BY <1>1, <1>2, <1>3, <1>4 DEF Progress

LEMMA NextRefreshesFollow ==
    ASSUME TypeOK, RefreshesFollow, Next
    PROVE  RefreshesFollow'
<1>. SUFFICES ASSUME NEW u \in Subs PROVE Follows(u)'
  BY DEF RefreshesFollow, Follows
<1>1. Follows(u)
  BY DEF RefreshesFollow, Follows
<1>2. version <= version' /\ version \in Nat /\ version' \in Nat /\ did[u] \in Nat
  <2>1. version' = version \/ version' = version + 1
    BY DEF Next, Submit, Progress, Csrf, Execute, Throws, ReceiveError, ReceivePage,
           ReceivePatch, Read, Miss, Apply, Load, Caught
  <2>. QED
    BY <2>1 DEF TypeOK
<1>3. ASSUME Same(u) PROVE Follows(u)'
  BY <1>1, <1>2, <1>3 DEF Same, Follows, NotAsked
<1>4. ASSUME NEW s \in Subs, s # u, Submit(s) \/ Progress(s) PROVE Follows(u)'
  BY <1>3, <1>4, OthersSame
<1>5. ASSUME pc'[u] = "over", did'[u] = did[u] PROVE Follows(u)'
  BY <1>1, <1>2, <1>5 DEF Follows
<1>6. CASE Submit(u) \/ Csrf(u)
  <2>1. /\ pc[u] \in {"new", "csrf"} /\ pc'[u] \in {"csrf", "post"}
        /\ asked' = asked /\ did' = did /\ version' = version
    BY <1>6 DEF Submit, Csrf, TypeOK
  <2>. QED
    BY <1>1, <2>1 DEF Follows, NotAsked
<1>7. CASE Execute(u)
  <2>1. pc'[u] = "answered" /\ asked' = asked /\ did'[u] <= version'
    BY <1>1, <1>7 DEF Execute, TypeOK, Follows
  <2>. QED
    BY <1>1, <1>7, <2>1 DEF Execute, Follows, NotAsked
<1>8. CASE Throws(u) \/ ReceiveError(u) \/ ReceivePage(u)
  BY <1>5, <1>8 DEF Throws, ReceiveError, ReceivePage, Caught, TypeOK
<1>9. CASE ReceivePatch(u)
  <2>1. did' = did /\ version' = version
    BY <1>9 DEF ReceivePatch
  <2>2. CASE answer[u].refreshes = {}
    BY <1>5, <1>9, <2>1, <2>2 DEF ReceivePatch, Complete, TypeOK
  <2>3. CASE answer[u].refreshes # {}
    <3>1. /\ pc'[u] = "refresh"
          /\ asked' = [asked EXCEPT ![u] =
                          [r \in Refreshes |-> IF r \in answer[u].refreshes THEN Asked ELSE NotAsked]]
      BY <1>9, <2>3 DEF ReceivePatch, TypeOK
    <3>2. \A r \in Refreshes : asked'[u][r] \in {Asked, NotAsked}
      BY <3>1 DEF TypeOK
    <3>. QED
      BY <1>1, <2>1, <3>1, <3>2 DEF Follows, Asked, NotAsked
  <2>. QED
    BY <2>2, <2>3
<1>10. ASSUME NEW r \in Refreshes, Read(u, r) PROVE Follows(u)'
  <2>1. \A q \in Refreshes : asked'[u][q] = IF q = r THEN [stage |-> "read", read |-> version]
                                                      ELSE asked[u][q]
    BY <1>10 DEF Read, TypeOK
  <2>2. pc[u] = "refresh" /\ pc' = pc /\ did' = did /\ version' = version
    BY <1>10 DEF Read
  <2>. QED
    BY <1>1, <1>2, <2>1, <2>2 DEF Follows
<1>11. ASSUME NEW r \in Refreshes, Miss(u, r) \/ Apply(u, r) PROVE Follows(u)'
  <2>1. /\ pc[u] = "refresh" /\ did' = did /\ version' = version
        /\ pc'[u] \in {"refresh", "over"}
    BY <1>11 DEF Miss, Apply, Settle, Complete, TypeOK
  <2>2. \A q \in Refreshes : q # r => asked'[u][q] = asked[u][q]
    BY <1>11 DEF Miss, Apply, TypeOK
  <2>3. \/ asked'[u][r] = Missed
        \/ asked[u][r].stage = "read" /\ asked'[u][r].read = asked[u][r].read
    BY <1>11, MissFacts, ApplyFacts
  <2>. QED
    BY <1>1, <1>2, <2>1, <2>2, <2>3 DEF Follows, Missed
<1>12. CASE Load
  <2>1. (pc[u] = "new" /\ pc'[u] = "new") \/ pc'[u] = "over"
    BY <1>12 DEF Load, InFlight, TypeOK, Stages
  <2>. QED
    BY <1>1, <1>5, <1>12, <2>1 DEF Load, Follows, NotAsked
<1>. QED
  BY <1>4, <1>6, <1>7, <1>8, <1>9, <1>10, <1>11, <1>12 DEF Next, Progress
(* Only its own execution gives a submission a version.                    *)
LEMMA DidStays ==
    ASSUME TypeOK, Next, NEW s \in Subs, pc[s] = "refresh"
    PROVE  did'[s] = did[s]
<1>1. ASSUME NEW u \in Subs, Execute(u) PROVE did'[s] = did[s]
  <2>1. u # s
    BY <1>1 DEF Execute
  <2>. QED
    BY <1>1, <2>1 DEF Execute, TypeOK
<1>2. ASSUME NEW u \in Subs, \/ Submit(u) \/ Csrf(u) \/ Throws(u) \/ ReceiveError(u)
                              \/ ReceivePage(u) \/ ReceivePatch(u)
                              \/ \E r \in Refreshes : Read(u, r) \/ Miss(u, r) \/ Apply(u, r)
      PROVE  did' = did
  <2>1. CASE Submit(u) \/ Csrf(u)
    BY <2>1 DEF Submit, Csrf
  <2>2. CASE Throws(u) \/ ReceiveError(u) \/ ReceivePage(u)
    BY <2>2 DEF Throws, ReceiveError, ReceivePage, Caught
  <2>3. CASE ReceivePatch(u) \/ \E r \in Refreshes : Read(u, r) \/ Miss(u, r) \/ Apply(u, r)
    BY <2>3 DEF ReceivePatch, Read, Miss, Apply
  <2>. QED
    BY <1>2, <2>1, <2>2, <2>3
<1>3. CASE Load
  BY <1>3 DEF Load
<1>. QED
  BY <1>1, <1>2, <1>3, Zenon DEF Next, Progress

(* What the page shows stays no older than what was done until another     *)
(* submission shows its own.                                               *)
LEMMA NextShownOrReplaced ==
    ASSUME TypeOK, RefreshesFollow, ShownOrReplaced, Next, NEW s \in Subs,
           pc[s] = "refresh", \E r \in Refreshes : asked'[s][r].stage = "shown"
    PROVE  did'[s] <= shown' \/ \E u \in Subs \ {s} : source' = {u}
<1>. DEFINE Fine == did'[s] <= shown' \/ \E u \in Subs \ {s} : source' = {u}
<1>1. did'[s] = did[s] /\ did[s] \in Nat
  BY DidStays DEF TypeOK
<1>2. ASSUME NEW u \in Subs, NEW r \in Refreshes, Apply(u, r) PROVE Fine
  <2>1. CASE u = s
    <3>1. asked[s][r].stage = "read" /\ shown' = asked[s][r].read
      BY <1>2, <2>1, ApplyFacts
    <3>2. did[s] <= asked[s][r].read
      BY <3>1 DEF RefreshesFollow
    <3>. QED
      BY <1>1, <3>1, <3>2
  <2>2. CASE u # s
    BY <1>2, <2>2 DEF Apply
  <2>. QED
    BY <2>1, <2>2
<1>3. ASSUME \A r \in Refreshes : asked'[s][r].stage = "shown" => asked[s][r].stage = "shown",
             shown' = shown, source' = source
      PROVE  Fine
  BY <1>1, <1>3 DEF ShownOrReplaced
<1>4. ASSUME NEW u \in Subs,
             \/ Submit(u) \/ Csrf(u) \/ Execute(u) \/ Throws(u) \/ ReceiveError(u) \/ ReceivePage(u)
      PROVE  Fine
  <2>1. asked' = asked /\ shown' = shown /\ source' = source
    BY <1>4 DEF Submit, Csrf, Execute, Throws, ReceiveError, ReceivePage, Caught
  <2>. QED
    BY <1>3, <2>1
<1>5. ASSUME NEW u \in Subs, ReceivePatch(u) PROVE Fine
  <2>1. shown' = shown /\ source' = source
    BY <1>5 DEF ReceivePatch
  <2>2. CASE asked' = asked
    BY <1>3, <2>1, <2>2
  <2>3. CASE asked' = [asked EXCEPT ![u] =
                 [r \in Refreshes |-> IF r \in answer[u].refreshes THEN Asked ELSE NotAsked]]
    <3>1. \A r \in Refreshes : asked[u][r] = NotAsked /\ asked'[u][r] \in {Asked, NotAsked}
      BY <1>5, <2>3 DEF ReceivePatch, TypeOK, RefreshesFollow
    <3>2. \A v \in Subs : v # u => asked'[v] = asked[v]
      BY <2>3 DEF TypeOK
    <3>. QED
      BY <1>3, <2>1, <3>1, <3>2 DEF Asked, NotAsked
  <2>. QED
    BY <1>5, <2>2, <2>3 DEF ReceivePatch
<1>6. ASSUME NEW u \in Subs, NEW r \in Refreshes, Read(u, r) PROVE Fine
  <2>1. /\ asked[u][r] = Asked /\ shown' = shown /\ source' = source
        /\ \A q \in Refreshes : asked'[u][q] = IF q = r THEN [stage |-> "read", read |-> version]
                                                         ELSE asked[u][q]
        /\ \A v \in Subs : v # u => asked'[v] = asked[v]
    BY <1>6 DEF Read, TypeOK
  <2>. QED
    BY <1>3, <2>1 DEF Asked
<1>7. ASSUME NEW u \in Subs, NEW r \in Refreshes, Miss(u, r) PROVE Fine
  <2>1. /\ asked[u][r].stage \in {"asked", "read"} /\ shown' = shown /\ source' = source
        /\ \A v \in Subs : v # u => asked'[v] = asked[v]
    BY <1>7 DEF Miss, TypeOK
  <2>. QED
    BY <1>3, <1>7, <2>1, MissFacts DEF Missed
<1>8. CASE Load
  <2>1. shown' = version /\ did[s] <= version
    BY <1>8 DEF Load, RefreshesFollow
  <2>. QED
    BY <1>1, <2>1
<1>. QED
  BY <1>2, <1>4, <1>5, <1>6, <1>7, <1>8 DEF Next, Progress

(* A submission comes to refresh with no refresh shown yet.                *)
LEMMA ReachesRefresh ==
    ASSUME TypeOK, Next, NEW s \in Subs, pc[s] # "refresh", pc'[s] = "refresh"
    PROVE  \A r \in Refreshes : asked'[s][r].stage # "shown"
<1>1. ReceivePatch(s)
  <2>1. ASSUME NEW u \in Subs, u # s PROVE ~ (Submit(u) \/ Progress(u))
    BY <2>1, OthersSame DEF Same
  <2>2. ~ Load
    BY DEF Load, TypeOK
  <2>3. ~ (Submit(s) \/ Csrf(s) \/ Execute(s) \/ Throws(s) \/ ReceiveError(s) \/ ReceivePage(s))
    BY DEF Submit, Csrf, Execute, Throws, ReceiveError, ReceivePage, Caught, TypeOK
  <2>4. ~ \E r \in Refreshes : Read(s, r) \/ Miss(s, r) \/ Apply(s, r)
    BY DEF Read, Miss, Apply
  <2>. QED
    BY <2>1, <2>2, <2>3, <2>4 DEF Next, Progress
<1>2. asked' = [asked EXCEPT ![s] =
          [r \in Refreshes |-> IF r \in answer[s].refreshes THEN Asked ELSE NotAsked]]
  BY <1>1 DEF ReceivePatch, Complete, TypeOK
<1>. QED
  BY <1>2 DEF TypeOK, Asked, NotAsked

-----------------------------------------------------------------------------
(* The inductive invariant.                                                *)
THEOREM Inductive == Spec => []IInv
<1>1. Init => IInv
  <2>. SUFFICES ASSUME Init PROVE IInv
    OBVIOUS
  <2>1. NodesOK(form)
    <3>1. \A f \in Forms : Rendered(f) = Node(f, "") /\ Node(f, "").state = ""
      BY RenderedIsNode, NodeFacts
    <3>. QED
      BY <3>1 DEF Init, NodesOK, States
  <2>2. TypeOK
    BY <2>1 DEF Init, TypeOK, Stages, Refresh, NotAsked
  <2>3. \A f \in Forms : form[f].state = ""
    BY DEF Init, Rendered
  <2>4. PendingWhileInFlight
    BY <2>3 DEF Init, PendingWhileInFlight, InFlight
  <2>. QED
    BY <2>2, <2>4 DEF Init, IInv, RefreshesFollow, ShownOrReplaced
<1>2. IInv /\ [Next]_vars => IInv'
  <2>. SUFFICES ASSUME IInv, [Next]_vars PROVE IInv'
    OBVIOUS
  <2>. USE DEF IInv
  <2>1. CASE Next
    <3>1. TypeOK' /\ PendingWhileInFlight' /\ RefreshesFollow'
      BY <2>1, NextTypeOK, NextPendingWhileInFlight, NextRefreshesFollow
    <3>2. ASSUME NEW s \in Subs, pc'[s] = "refresh", \E r \in Refreshes : asked'[s][r].stage = "shown"
          PROVE  did'[s] <= shown' \/ \E u \in Subs \ {s} : source' = {u}
      <4>1. pc[s] = "refresh"
        BY <2>1, <3>2, ReachesRefresh
      <4>2. did'[s] = did[s]
        BY <2>1, <4>1, DidStays
      <4>. QED
        BY <2>1, <3>2, <4>1, <4>2, NextShownOrReplaced
    <3>. QED
      BY <3>1, <3>2 DEF ShownOrReplaced
  <2>2. CASE UNCHANGED vars
    BY <2>2 DEF vars, TypeOK, PendingWhileInFlight, InFlight, RefreshesFollow, ShownOrReplaced
  <2>. QED
    BY <2>1, <2>2
<1>. QED
  BY <1>1, <1>2, PTL DEF Spec
(* The variables of the bridge keep their types, and there are no other    *)
(* nodes than those that Node names.                                       *)
THEOREM TypeCorrect == Spec => []TypeOK
<1>1. IInv => TypeOK
  BY DEF IInv
<1>. QED
  BY <1>1, Inductive, PTL

(* A node in the document is pending exactly while one submission made     *)
(* with it is in flight, or until a navigation takes it away.              *)
THEOREM PendingIsInFlight == Spec => []PendingWhileInFlight
<1>1. IInv => PendingWhileInFlight
  BY DEF IInv
<1>. QED
  BY <1>1, Inductive, PTL

(* setActionPending gives each control back what the page rendered,        *)
(* whatever submissions came before.                                       *)
THEOREM ControlsAreRestored == Spec => []ControlsRestored
<1>1. IInv => ControlsRestored
  <2>. SUFFICES ASSUME IInv, NEW f \in Forms
                PROVE  form[f].disabled = (f \in Off \/ form[f].state = "pending")
    BY DEF ControlsRestored
  <2>1. PICK state \in States : form[f] = Node(f, state)
    BY DEF IInv, TypeOK, NodesOK
  <2>2. form[f].state = state
    BY <2>1, NodeFacts
  <2>3. CASE f \in Off \/ state = "pending"
    <3>1. form[f].disabled = TRUE
      BY <2>1, <2>3, NodeFacts
    <3>. QED
      BY <2>2, <2>3, <3>1
  <2>4. CASE ~ (f \in Off \/ state = "pending")
    <3>1. form[f].disabled = FALSE
      BY <2>1, <2>4, NodeFacts
    <3>. QED
      BY <2>2, <2>4, <3>1
  <2>. QED
    BY <2>3, <2>4
<1>. QED
  BY <1>1, Inductive, PTL

(* At the end of applyPatchResponse the user goes where the action said,   *)
(* or sees what it did: refreshes that all fail leave the old page to a    *)
(* navigation, and one that was shown is replaced by no older page but one *)
(* that another submission shows after it.                                 *)
THEOREM SuccessReachesTheUser == Spec => SuccessIsShown
<1>. DEFINE Seen(s) == \/ leaving' \/ answer[s].patches
                       \/ shown' >= did[s]
                       \/ /\ \E r \in Refreshes : asked'[s][r].stage = "shown"
                          /\ \E u \in Subs \ {s} : source' = {u}
<1>1. ASSUME IInv, [Next]_vars, NEW s \in Subs,
             pc[s] = "refresh", pc'[s] = "over", answer[s].redirect = "good"
      PROVE  Seen(s)
  <2>. USE DEF IInv
  <2>1. TypeOK /\ Next /\ did[s] \in Nat /\ TypeOK'
    BY <1>1, NextTypeOK DEF vars, TypeOK
  <2>2. CASE Load
    BY <1>1, <2>1, <2>2 DEF Load, RefreshesFollow, TypeOK
  <2>3. ASSUME NEW r \in Refreshes, Miss(s, r) \/ Apply(s, r) PROVE Seen(s)
    <3>1. did' = did
      BY <2>3 DEF Miss, Apply
    <3>2. CASE \E q \in Refreshes : asked'[s][q].stage = "shown"
      <4>1. did'[s] <= shown' \/ \E u \in Subs \ {s} : source' = {u}
        BY <1>1, <2>1, <3>2, NextShownOrReplaced
      <4>. QED
        BY <2>1, <3>1, <3>2, <4>1 DEF TypeOK
    <3>3. CASE ~ \E q \in Refreshes : asked'[s][q].stage = "shown"
      <4>1. leaving' = (leaving \/ Redirects(s, FALSE))
        BY <1>1, <2>3, <3>3 DEF Miss, Apply, Settle, Complete
      <4>. QED
        BY <1>1, <4>1 DEF Redirects
    <3>. QED
      BY <3>2, <3>3
  <2>4. ASSUME NEW u \in Subs, u # s PROVE ~ (Submit(u) \/ Progress(u))
    BY <1>1, <2>1, <2>4, OthersSame DEF Same
  <2>5. ~ (Submit(s) \/ Csrf(s) \/ Execute(s) \/ Throws(s) \/ ReceiveError(s) \/ ReceivePage(s)
             \/ ReceivePatch(s))
    BY <1>1 DEF Submit, Csrf, Execute, Throws, ReceiveError, ReceivePage, ReceivePatch
  <2>6. ~ \E r \in Refreshes : Read(s, r)
    BY <1>1 DEF Read
  <2>. QED
    BY <2>1, <2>2, <2>3, <2>4, <2>5, <2>6 DEF Next, Progress
<1>2. IInv /\ [Next]_vars =>
        [\A s \in Subs :
          pc[s] = "refresh" /\ pc'[s] = "over" /\ answer[s].redirect = "good" =>
             \/ leaving' \/ answer[s].patches
             \/ shown' >= did[s]
             \/ /\ \E r \in Refreshes : asked'[s][r].stage = "shown"
                /\ \E u \in Subs \ {s} : source' = {u}]_vars
  BY <1>1
<1>. QED
  BY <1>2, Inductive, PTL DEF Spec, SuccessIsShown

(***************************************************************************)
(* Lists.                                                                  *)
(***************************************************************************)
(* Sets of natural numbers: their least and greatest elements.             *)
LEMMA LeastNumber ==
    ASSUME NEW T, T \subseteq Nat, T # {}
    PROVE  \E x \in T : \A y \in T : x <= y
<1>1. OpToRel(<, Nat) = {ss \in Nat \X Nat : ss[1] < ss[2]}
  BY DEF OpToRel
<1>2. PICK x \in T : \A y \in T : ~ (<<y, x>> \in OpToRel(<, Nat))
  BY NatLessThanWellFounded, WFMin, Zenon
<1>3. \A y \in T : ~ (<<y, x>> \in {ss \in Nat \X Nat : ss[1] < ss[2]})
  BY <1>1, <1>2, Zenon
<1>4. \A m, n \in Nat : m < n => <<m, n>> \in {ss \in Nat \X Nat : ss[1] < ss[2]}
  OBVIOUS
<1>5. ASSUME NEW y \in T PROVE x <= y
  <2>1. x \in Nat /\ y \in Nat
    OBVIOUS
  <2>2. ~ (y < x)
    BY <1>3, <1>4, <2>1
  <2>. QED
    BY <2>1, <2>2
<1>. QED
  BY <1>5

LEMMA GreatestNumber ==
    ASSUME NEW n \in Nat, NEW T, T \subseteq 1 .. n, T # {}
    PROVE  Max(T) \in T /\ \A y \in T : Max(T) >= y
<1>. DEFINE gaps == {n - y : y \in T}
<1>1. gaps \subseteq Nat /\ gaps # {}
  <2>1. \A y \in T : n - y \in Nat
    OBVIOUS
  <2>2. \E y \in T : n - y \in gaps
    OBVIOUS
  <2>. QED
    BY <2>1, <2>2, Zenon
<1>2. PICK g \in gaps : \A h \in gaps : g <= h
  <2>. HIDE DEF gaps
  <2>. QED
    BY <1>1, LeastNumber
<1>3. PICK x \in T : g = n - x
  OBVIOUS
<1>4. ASSUME NEW y \in T PROVE x >= y
  <2>1. n - y \in gaps
    OBVIOUS
  <2>2. n - x <= n - y
    BY <1>2, <1>3, <2>1
  <2>3. x \in Int /\ y \in Int
    OBVIOUS
  <2>. QED
    BY <2>2, <2>3
<1>. QED
  BY <1>4 DEF Max

-----------------------------------------------------------------------------
(* A set of indices can be put in order, and is then enumerated in full.   *)
Increases(f, n) == \A i, j \in 1 .. n : i < j => f[i] < f[j]

LEMMA CanBeOrdered ==
    ASSUME NEW n \in Nat, NEW S, S \subseteq 1 .. n
    PROVE  \E f \in [1 .. Cardinality(S) -> S] : Increases(f, Cardinality(S))
<1>. DEFINE Can(m) == \A T \in SUBSET (1 .. m) :
                          \E f \in [1 .. Cardinality(T) -> T] : Increases(f, Cardinality(T))
            Bad == {m \in Nat : ~ Can(m)}
<1>1. ASSUME Bad # {} PROVE FALSE
  <2>1. PICK m \in Bad : \A k \in Bad : m <= k
    <3>1. Bad \subseteq Nat
      OBVIOUS
    <3>. HIDE DEF Bad
    <3>. QED
      BY <1>1, <3>1, LeastNumber
  <2>2. m \in Nat /\ (m # 0 => Can(m - 1))
    <3>1. m \in Nat
      OBVIOUS
    <3>2. CASE m # 0
      <4>1. m - 1 \in Nat /\ ~ (m <= m - 1)
        BY <3>1, <3>2
      <4>2. m - 1 \notin Bad
        BY <2>1, <4>1
      <4>3. Can(m - 1)
        <5>. HIDE DEF Can
        <5>. QED
          BY <4>1, <4>2
      <4>. HIDE DEF Can
      <4>. QED
        BY <3>1, <4>3
    <3>. HIDE DEF Can
    <3>. QED
      BY <3>1, <3>2
  <2>3. ASSUME NEW T \in SUBSET (1 .. m)
        PROVE  \E f \in [1 .. Cardinality(T) -> T] : Increases(f, Cardinality(T))
    <3>1. CASE m = 0
      <4>1. T = {}
        BY <3>1
      <4>2. Cardinality(T) = 0
        BY <4>1, FS_EmptySet
      <4>3. [i \in 1 .. 0 |-> 0] \in [1 .. 0 -> T] /\ Increases([i \in 1 .. 0 |-> 0], 0)
        BY DEF Increases
      <4>. QED
        BY <4>2, <4>3
    <3>2. CASE m # 0 /\ m \notin T
      <4>1. T \in SUBSET (1 .. m - 1)
        BY <2>2, <3>2
      <4>. QED
        BY <2>2, <3>2, <4>1
    <3>3. CASE m # 0 /\ m \in T
      <4>. DEFINE R == T \ {m}
      <4>1. R \in SUBSET (1 .. m - 1)
        BY <2>2
      <4>2. PICK g \in [1 .. Cardinality(R) -> R] : Increases(g, Cardinality(R))
        BY <2>2, <3>3, <4>1
      <4>3. IsFiniteSet(T)
        <5>1. IsFiniteSet(1 .. m)
          BY <2>2, FS_Interval
        <5>. QED
          BY <5>1, FS_Subset
      <4>4. Cardinality(T) \in Nat /\ Cardinality(R) = Cardinality(T) - 1 /\ Cardinality(R) \in Nat
        <5>1. Cardinality(R) = Cardinality(T) - 1 /\ IsFiniteSet(R)
          BY <3>3, <4>3, FS_RemoveElement
        <5>. QED
          BY <4>3, <5>1, FS_CardinalityType
      <4>5. PICK c \in Nat : c + 1 = Cardinality(T) /\ c = Cardinality(R)
        BY <4>4
      <4>g. g \in [1 .. c -> R] /\ Increases(g, c)
        BY <4>2, <4>5
      <4>. DEFINE f == [i \in 1 .. c + 1 |-> IF i = c + 1 THEN m ELSE g[i]]
      <4>h. ASSUME NEW i \in 1 .. c PROVE g[i] \in T /\ g[i] \in 1 .. m - 1
        <5>1. g[i] \in R
          BY <4>g, <4>h
        <5>. QED
          BY <4>1, <5>1
      <4>i. ASSUME NEW i \in 1 .. c + 1
            PROVE  /\ i = c + 1 => f[i] = m
                   /\ i # c + 1 => i \in 1 .. c /\ f[i] = g[i]
                   /\ f[i] \in T
        <5>1. f[i] = IF i = c + 1 THEN m ELSE g[i]
          OBVIOUS
        <5>2. i # c + 1 => i \in 1 .. c
          BY <4>5
        <5>. QED
          BY <3>3, <4>h, <5>1, <5>2
      <4>6. f \in [1 .. c + 1 -> T]
        BY <4>i
      <4>7. Increases(f, c + 1)
        <5>1. ASSUME NEW i \in 1 .. c + 1, NEW j \in 1 .. c + 1, i < j PROVE f[i] < f[j]
          <6>1. i \in 1 .. c
            BY <4>5, <5>1
          <6>2. f[i] = g[i] /\ g[i] \in 1 .. m - 1
            <7>1. i # c + 1
              BY <4>5, <6>1
            <7>. HIDE DEF f
            <7>. QED
              BY <4>h, <4>i, <6>1, <7>1
          <6>3. CASE j = c + 1
            BY <2>2, <6>2, <6>3
          <6>4. CASE j # c + 1
            <7>1. j \in 1 .. c /\ f[j] = g[j]
              BY <6>4
            <7>2. g[i] < g[j]
              BY <4>g, <5>1, <6>1, <7>1 DEF Increases
            <7>. QED
              BY <6>2, <7>1, <7>2
          <6>. QED
            BY <6>3, <6>4
        <5>. HIDE DEF f
        <5>. QED
          BY <5>1 DEF Increases
      <4>. HIDE DEF f
      <4>. QED
        BY <4>5, <4>6, <4>7
    <3>. QED
      BY <3>1, <3>2, <3>3
  <2>. QED
    BY <2>1, <2>3
<1>2. Can(n)
  <2>. HIDE DEF Can
  <2>. QED
    BY <1>1
<1>. QED
  BY <1>2

LEMMA InOrderFacts ==
    ASSUME NEW n \in Nat, NEW S, S \subseteq 1 .. n
    PROVE  /\ Cardinality(S) \in Nat
           /\ InOrder(S) \in [1 .. Cardinality(S) -> S]
           /\ Increases(InOrder(S), Cardinality(S))
           /\ \A x \in S : \E i \in 1 .. Cardinality(S) : InOrder(S)[i] = x
<1>1. IsFiniteSet(S) /\ Cardinality(S) \in Nat
  <2>1. IsFiniteSet(1 .. n)
    BY FS_Interval
  <2>2. IsFiniteSet(S)
    BY <2>1, FS_Subset
  <2>. QED
    BY <2>2, FS_CardinalityType
<1>2. PICK c \in Nat : c = Cardinality(S)
  BY <1>1
<1>3. PICK f : f = InOrder(S)
  OBVIOUS
<1>4. f \in [1 .. c -> S] /\ Increases(f, c)
  <2>1. \E g \in [1 .. c -> S] : \A i, j \in 1 .. c : i < j => g[i] < g[j]
    BY <1>2, CanBeOrdered DEF Increases
  <2>2. f = CHOOSE g \in [1 .. c -> S] : \A i, j \in 1 .. c : i < j => g[i] < g[j]
    BY <1>2, <1>3 DEF InOrder
  <2>. QED
    BY <2>1, <2>2, Zenon DEF Increases
<1>5. f \in Surjection(1 .. c, S)
  <2>1. ASSUME NEW i \in 1 .. c PROVE f[i] \in Nat
    <3>1. f[i] \in S
      BY <1>4
    <3>2. f[i] \in 1 .. n
      BY <3>1, Zenon
    <3>. QED
      BY <3>2
  <2>2. ASSUME NEW i \in 1 .. c, NEW j \in 1 .. c, f[i] = f[j] PROVE i = j
    <3>1. CASE i < j
      BY <1>4, <2>1, <2>2, <3>1 DEF Increases
    <3>2. CASE j < i
      BY <1>4, <2>1, <2>2, <3>2 DEF Increases
    <3>. QED
      BY <3>1, <3>2
  <2>3. f \in Injection(1 .. c, S)
    BY <1>4, <2>2 DEF Injection, IsInjective
  <2>4. Cardinality(1 .. c) = c
    BY FS_Interval
  <2>. QED
    BY <1>1, <1>2, <2>3, <2>4, FS_Injection
<1>. QED
  BY <1>1, <1>2, <1>3, <1>4, <1>5 DEF Surjection

(* All of them are enumerated as they are. *)
LEMMA InOrderAll ==
    ASSUME NEW n \in Nat
    PROVE  Cardinality(1 .. n) = n /\ \A i \in 1 .. n : InOrder(1 .. n)[i] = i
<1>1. Cardinality(1 .. n) = n
  BY FS_Interval
<1>2. PICK f : f = InOrder(1 .. n)
  OBVIOUS
<1>3. /\ f \in [1 .. n -> 1 .. n] /\ Increases(f, n)
      /\ \A x \in 1 .. n : \E i \in 1 .. n : f[i] = x
  BY <1>1, <1>2, InOrderFacts
<1>. DEFINE Bad == {i \in 1 .. n : f[i] # i}
<1>4. ASSUME Bad # {} PROVE FALSE
  <2>1. PICK b \in Bad : \A k \in Bad : b <= k
    <3>1. Bad \subseteq Nat
      OBVIOUS
    <3>. HIDE DEF Bad
    <3>. QED
      BY <1>4, <3>1, LeastNumber
  <2>2. \A j \in 1 .. n : j < b => f[j] = j
    BY <2>1
  <2>3. PICK k \in 1 .. n : f[k] = b
    BY <1>3
  <2>4. CASE k < b
    BY <2>2, <2>3, <2>4
  <2>5. CASE k = b
    BY <2>3, <2>5
  <2>6. CASE k > b
    <3>1. f[b] \in 1 .. n /\ f[b] < b
      BY <1>3, <2>3, <2>6 DEF Increases
    <3>2. f[f[b]] = f[b]
      BY <2>2, <3>1
    <3>3. f[f[b]] < f[b]
      BY <1>3, <3>1 DEF Increases
    <3>. QED
      BY <3>1, <3>2, <3>3
  <2>. QED
    BY <2>4, <2>5, <2>6
<1>. QED
  BY <1>1, <1>2, <1>4

-----------------------------------------------------------------------------
(* What is enumerated by as many places as it has members has one place    *)
(* for each.                                                               *)
LEMMA OnePlaceEach ==
    ASSUME NEW n \in Nat, NEW S, Cardinality(S) = n, NEW f \in [1 .. n -> S],
           \A x \in S : \E i \in 1 .. n : f[i] = x
    PROVE  \A i, j \in 1 .. n : f[i] = f[j] => i = j
<1>1. f \in Surjection(1 .. n, S)
  BY DEF Surjection
<1>2. IsFiniteSet(1 .. n) /\ Cardinality(1 .. n) = n
  BY FS_Interval
<1>3. f \in Injection(1 .. n, S)
  BY <1>1, <1>2, FS_SurjSameCardinalityImpliesInj
<1>. QED
  BY <1>3 DEF Injection, IsInjective

LEMMA ListFacts ==
    ASSUME NEW list \in Lists
    PROVE  /\ list \in Seq(Items) /\ Len(list) \in Nat /\ DOMAIN list = 1 .. Len(list)
           /\ \A i \in 1 .. Len(list) : list[i] \in ToSet(list) /\ list[i].key \in KeysOf(list)
<1>1. list \in Seq(Items)
  BY ListsAssumption
<1>2. Len(list) \in Nat /\ DOMAIN list = 1 .. Len(list)
  BY <1>1, LenProperties
<1>. QED
  BY <1>1, <1>2 DEF ToSet, KeysOf

LEMMA UniqueKeys ==
    ASSUME NEW list \in Lists, Unique(list)
    PROVE  /\ \A i, j \in 1 .. Len(list) : list[i].key = list[j].key => i = j
           /\ \A i \in 1 .. Len(list) : ItemOf(list, list[i].key) = list[i]
<1>. DEFINE f == [i \in 1 .. Len(list) |-> list[i].key]
<1>1. f \in [1 .. Len(list) -> KeysOf(list)]
  BY ListFacts
<1>2. \A k \in KeysOf(list) : \E i \in 1 .. Len(list) : f[i] = k
  BY ListFacts DEF KeysOf, ToSet
<1>3. \A i, j \in 1 .. Len(list) : f[i] = f[j] => i = j
  <2>1. Cardinality(KeysOf(list)) = Len(list) /\ Len(list) \in Nat
    BY ListFacts DEF Unique
  <2>. HIDE DEF f
  <2>. QED
    BY <1>1, <1>2, <2>1, OnePlaceEach
<1>4. \A i, j \in 1 .. Len(list) : list[i].key = list[j].key => i = j
  BY <1>3
<1>5. ASSUME NEW i \in 1 .. Len(list) PROVE ItemOf(list, list[i].key) = list[i]
  <2>1. PICK item : item = ItemOf(list, list[i].key)
    OBVIOUS
  <2>2. list[i] \in ToSet(list)
    BY ListFacts
  <2>3. item \in ToSet(list) /\ item.key = list[i].key
    BY <2>1, <2>2 DEF ItemOf
  <2>4. PICK j \in 1 .. Len(list) : item = list[j]
    BY <2>3, ListFacts DEF ToSet
  <2>. QED
    BY <1>4, <2>1, <2>3, <2>4
<1>. QED
  BY <1>4, <1>5

-----------------------------------------------------------------------------
(* The parts of a reconciliation: the node of a key, those that stay where *)
(* they are, and those that are placed, in the order of the new list.      *)
Nodes == [key : {item.key : item \in Items}, text : {item.text : item \in Items},
          touched : BOOLEAN]

NodeOf(p, k) == Max({i \in DOMAIN p.dom : p.dom[i].key = k})
Stale(p) == DOMAIN p.dom \ {NodeOf(p, k) : k \in KeysOf(p.dom) \cap KeysOf(p.items)}
Present(p, new) == {i \in DOMAIN new : new[i].key \in Inserted(p.items, new) \cup KeysOf(p.dom)}
Placed(p, new, shared, item) ==
    IF item.key \in Inserted(p.items, new) THEN Render(item)
    ELSE IF item.key \in Changed(p.items, new, shared)
           THEN Rewritten(p.dom[NodeOf(p, item.key)], item) ELSE p.dom[NodeOf(p, item.key)]

LEMMA ReconciledIs ==
    ASSUME NEW p, NEW new, NEW shared
    PROVE  Reconciled(p, new, shared) =
              [i \in DOMAIN InOrder(Stale(p)) |-> p.dom[InOrder(Stale(p))[i]]] \o
              [i \in DOMAIN InOrder(Present(p, new)) |->
                  Placed(p, new, shared, new[InOrder(Present(p, new))[i]])]
  BY Zenon DEF Reconciled, Stale, Present, Placed, NodeOf

LEMMA MapIsSeq ==
    ASSUME NEW n \in Nat, NEW S, NEW f \in [1 .. n -> S]
    PROVE  f \in Seq(S) /\ Len(f) = n
  OBVIOUS

LEMMA NodeOfFacts ==
    ASSUME NEW p, p.dom \in Seq(Nodes), NEW k \in KeysOf(p.dom)
    PROVE  /\ NodeOf(p, k) \in 1 .. Len(p.dom)
           /\ p.dom[NodeOf(p, k)].key = k /\ p.dom[NodeOf(p, k)] \in Nodes
<1>. DEFINE T == {i \in DOMAIN p.dom : p.dom[i].key = k}
<1>1. DOMAIN p.dom = 1 .. Len(p.dom) /\ Len(p.dom) \in Nat
  BY LenProperties
<1>2. T \subseteq 1 .. Len(p.dom) /\ T # {}
  BY <1>1 DEF KeysOf, ToSet
<1>3. Max(T) \in T
  <2>. HIDE DEF T
  <2>. QED
    BY <1>1, <1>2, GreatestNumber
<1>4. NodeOf(p, k) \in 1 .. Len(p.dom) /\ p.dom[NodeOf(p, k)].key = k
  BY <1>1, <1>3 DEF NodeOf
<1>. QED
  BY <1>4, ElementOfSeq

LEMMA ItemIsNode ==
    ASSUME NEW list \in Lists, NEW i \in 1 .. Len(list)
    PROVE  /\ list[i] \in Items /\ Render(list[i]) \in Nodes
           /\ \A node \in Nodes : Rewritten(node, list[i]) \in Nodes
<1>1. list[i] \in Items
  BY ListFacts DEF Items
<1>. QED
  BY <1>1 DEF Render, Rewritten, Nodes

LEMMA PlacedFacts ==
    ASSUME NEW p, p.dom \in Seq(Nodes), NEW new \in Lists, NEW shared, NEW i \in Present(p, new)
    PROVE  /\ Placed(p, new, shared, new[i]) \in Nodes
           /\ Placed(p, new, shared, new[i]).key = new[i].key
<1>1. i \in 1 .. Len(new) /\ new[i].key \in Inserted(p.items, new) \cup KeysOf(p.dom)
  BY ListFacts DEF Present
<1>2. CASE new[i].key \in Inserted(p.items, new)
  <2>1. Placed(p, new, shared, new[i]) = Render(new[i])
    BY <1>2 DEF Placed
  <2>. QED
    BY <1>1, <2>1, ItemIsNode DEF Render
<1>3. CASE new[i].key \notin Inserted(p.items, new)
  <2>1. PICK node \in Nodes : node = p.dom[NodeOf(p, new[i].key)] /\ node.key = new[i].key
    BY <1>1, <1>3, NodeOfFacts
  <2>2. \/ Placed(p, new, shared, new[i]) = Rewritten(node, new[i])
        \/ Placed(p, new, shared, new[i]) = node
    BY <1>3, <2>1 DEF Placed
  <2>3. Rewritten(node, new[i]).key = node.key
    BY <2>1 DEF Rewritten, Nodes
  <2>. QED
    BY <1>1, <2>1, <2>2, <2>3, ItemIsNode
<1>. QED
  BY <1>2, <1>3

NodesOf(k) == {node \in Nodes : node.key = k}

LEMMA PlacedKeys ==
    ASSUME NEW p, p.dom \in Seq(Nodes), NEW new \in Lists, NEW shared
    PROVE  \A i \in Present(p, new) : Placed(p, new, shared, new[i]) \in NodesOf(new[i].key)
  BY PlacedFacts DEF NodesOf

LEMMA ReconciledFacts ==
    ASSUME NEW p, p.dom \in Seq(Nodes), NEW new \in Lists, NEW shared
    PROVE  /\ Reconciled(p, new, shared) \in Seq(Nodes)
           /\ Cardinality(Stale(p)) \in Nat /\ Cardinality(Present(p, new)) \in Nat
           /\ Len(Reconciled(p, new, shared)) = Cardinality(Stale(p)) + Cardinality(Present(p, new))
           /\ \A i \in 1 .. Cardinality(Stale(p)) :
                 Reconciled(p, new, shared)[i] = p.dom[InOrder(Stale(p))[i]]
           /\ \A i \in 1 .. Cardinality(Present(p, new)) :
                 Reconciled(p, new, shared)[Cardinality(Stale(p)) + i]
                    = Placed(p, new, shared, new[InOrder(Present(p, new))[i]])
<1>1. PICK f, g, s, t : /\ f = InOrder(Stale(p)) /\ s = Cardinality(Stale(p))
                        /\ g = InOrder(Present(p, new)) /\ t = Cardinality(Present(p, new))
  OBVIOUS
<1>2. s \in Nat /\ f \in [1 .. s -> Stale(p)]
  <2>1. DOMAIN p.dom = 1 .. Len(p.dom) /\ Len(p.dom) \in Nat
    BY LenProperties
  <2>2. Stale(p) \subseteq 1 .. Len(p.dom)
    BY <2>1 DEF Stale
  <2>. QED
    BY <1>1, <2>1, <2>2, InOrderFacts
<1>3. t \in Nat /\ g \in [1 .. t -> Present(p, new)]
  <2>1. Present(p, new) \subseteq 1 .. Len(new) /\ Len(new) \in Nat
    BY ListFacts DEF Present
  <2>. QED
    BY <1>1, <2>1, InOrderFacts
<1>. DEFINE left == [i \in 1 .. s |-> p.dom[f[i]]]
            right == [i \in 1 .. t |-> Placed(p, new, shared, new[g[i]])]
<1>4. left \in Seq(Nodes) /\ Len(left) = s
  <2>1. ASSUME NEW i \in 1 .. s PROVE p.dom[f[i]] \in Nodes
    <3>1. f[i] \in DOMAIN p.dom
      BY <1>2 DEF Stale
    <3>. QED
      BY <3>1, ElementOfSeq, LenProperties
  <2>2. left \in [1 .. s -> Nodes]
    BY <2>1
  <2>. QED
    BY <1>2, <2>2, MapIsSeq
<1>5. right \in Seq(Nodes) /\ Len(right) = t
  <2>1. \A i \in 1 .. t : Placed(p, new, shared, new[g[i]]) \in Nodes
    BY <1>3, PlacedFacts
  <2>2. right \in [1 .. t -> Nodes]
    BY <2>1
  <2>. QED
    BY <1>3, <2>2, MapIsSeq
<1>6. Reconciled(p, new, shared) = left \o right
  <2>1. DOMAIN f = 1 .. s /\ DOMAIN g = 1 .. t
    BY <1>2, <1>3
  <2>. QED
    BY <1>1, <2>1, ReconciledIs, Zenon
<1>7. /\ left \o right \in Seq(Nodes) /\ Len(left \o right) = s + t
      /\ \A i \in 1 .. s + t : (left \o right)[i] = IF i <= s THEN left[i] ELSE right[i - s]
  <2>. HIDE DEF left, right
  <2>. QED
    BY <1>4, <1>5, ConcatProperties
<1>8. ASSUME NEW i \in 1 .. s PROVE (left \o right)[i] = p.dom[f[i]]
  <2>1. i \in 1 .. s + t /\ i <= s /\ left[i] = p.dom[f[i]]
    BY <1>2, <1>3
  <2>. HIDE DEF left, right
  <2>. QED
    BY <1>7, <2>1
<1>9. ASSUME NEW i \in 1 .. t PROVE (left \o right)[s + i] = Placed(p, new, shared, new[g[i]])
  <2>1. s + i \in 1 .. s + t /\ ~ (s + i <= s) /\ (s + i) - s = i
    BY <1>2, <1>3
  <2>2. right[i] = Placed(p, new, shared, new[g[i]])
    OBVIOUS
  <2>. HIDE DEF left, right
  <2>. QED
    BY <1>7, <2>1, <2>2
<1>. HIDE DEF left, right
<1>. QED
  BY <1>1, <1>2, <1>3, <1>6, <1>7, <1>8, <1>9

-----------------------------------------------------------------------------
(* What the user did in a node stays with the node while its key is in the *)
(* list, whatever nodes an edit in place left behind.                      *)
LEMMA TouchStays ==
    ASSUME NEW p, p.dom \in Seq(Nodes), NEW new \in Lists, NEW shared,
           NEW i \in 1 .. Len(p.dom), p.dom[i].touched, p.dom[i].key \in KeysOf(new)
    PROVE  p.dom[i].key \in TouchedKeys(Reconciled(p, new, shared))
<1>. DEFINE k == p.dom[i].key
            r == Reconciled(p, new, shared)
            s == Cardinality(Stale(p))
            t == Cardinality(Present(p, new))
<1>1. r \in Seq(Nodes) /\ s \in Nat /\ t \in Nat /\ DOMAIN r = 1 .. s + t
  BY ReconciledFacts, LenProperties
<1>2. DOMAIN p.dom = 1 .. Len(p.dom) /\ Len(p.dom) \in Nat
  BY LenProperties
<1>3. \A j \in 1 .. s + t : r[j].touched /\ r[j].key = k => k \in TouchedKeys(r)
  BY <1>1, Zenon DEF TouchedKeys, ToSet
<1>4. CASE i \in Stale(p)
  <2>1. Stale(p) \subseteq 1 .. Len(p.dom)
    BY <1>2 DEF Stale
  <2>2. PICK j \in 1 .. s : InOrder(Stale(p))[j] = i
    BY <1>2, <1>4, <2>1, InOrderFacts
  <2>3. r[j] = p.dom[i]
    BY <2>2, ReconciledFacts
  <2>4. j \in 1 .. s + t
    BY <1>1
  <2>5. k \in TouchedKeys(r)
    <3>. HIDE DEF r, s, t
    <3>. QED
      BY <1>3, <2>3, <2>4
  <2>. QED
    BY <2>5
<1>5. CASE i \notin Stale(p)
  <2>1. PICK x \in KeysOf(p.dom) \cap KeysOf(p.items) : i = NodeOf(p, x)
    BY <1>2, <1>5 DEF Stale
  <2>2. x = k
    BY <2>1, NodeOfFacts
  <2>3. k \notin Inserted(p.items, new)
    BY <2>1, <2>2 DEF Inserted
  <2>4. PICK j \in 1 .. Len(new) : new[j].key = k
    <3>1. \A y \in KeysOf(new) : \E j \in 1 .. Len(new) : y = new[j].key
      BY ListFacts DEF KeysOf, ToSet
    <3>. QED
      BY <3>1
  <2>5. j \in Present(p, new) /\ Present(p, new) \subseteq 1 .. Len(new) /\ Len(new) \in Nat
    <3>1. DOMAIN new = 1 .. Len(new) /\ Len(new) \in Nat
      BY ListFacts
    <3>2. new[j].key \in KeysOf(p.dom)
      BY <2>1, <2>2, <2>4
    <3>. QED
      BY <3>1, <3>2 DEF Present
  <2>6. PICK l \in 1 .. t : InOrder(Present(p, new))[l] = j
    BY <2>5, InOrderFacts
  <2>7. r[s + l] = Placed(p, new, shared, new[j])
    BY <2>6, ReconciledFacts
  <2>8. \/ Placed(p, new, shared, new[j]) = Rewritten(p.dom[i], new[j])
        \/ Placed(p, new, shared, new[j]) = p.dom[i]
    BY <2>1, <2>2, <2>3, <2>4 DEF Placed
  <2>9. /\ Rewritten(p.dom[i], new[j]).key = k
        /\ Rewritten(p.dom[i], new[j]).touched = p.dom[i].touched
    <3>1. p.dom[i] \in Nodes
      BY ElementOfSeq
    <3>. QED
      BY <3>1 DEF Rewritten, Nodes
  <2>10. s + l \in 1 .. s + t
    BY <1>1
  <2>11. r[s + l].touched /\ r[s + l].key = k
    BY <2>7, <2>8, <2>9
  <2>12. k \in TouchedKeys(r)
    <3>. HIDE DEF r, s, t
    <3>. QED
      BY <1>3, <2>10, <2>11
  <2>. QED
    BY <2>12
<1>. QED
  BY <1>4, <1>5

(* Nodes that show a list show the next one after a reconciliation.        *)
Shows(dom, list) ==
    /\ Len(dom) = Len(list)
    /\ \A i \in 1 .. Len(list) : dom[i].key = list[i].key /\ dom[i].text = list[i].text

LEMMA SameLength ==
    ASSUME NEW m \in Nat, NEW n \in Nat, 1 .. m = 1 .. n
    PROVE  m = n
<1>1. \A i \in Nat : Cardinality(1 .. i) = i
  BY FS_Interval
<1>. QED
  BY <1>1

LEMMA NodeIs ==
    ASSUME NEW K, NEW T, NEW node \in [key : K, text : T, touched : BOOLEAN]
    PROVE  [node EXCEPT !.touched = FALSE] =
              [key |-> node.key, text |-> node.text, touched |-> FALSE]
<1>1. node = [key |-> node.key, text |-> node.text, touched |-> node.touched]
  OBVIOUS
<1>2. PICK k, t, u, v : /\ k = node.key /\ t = node.text /\ v = FALSE
                        /\ node = [key |-> k, text |-> t, touched |-> u]
  BY <1>1
<1>3. [[key |-> k, text |-> t, touched |-> u] EXCEPT !.touched = v] =
         [key |-> k, text |-> t, touched |-> v]
  OBVIOUS
<1>. QED
  BY <1>2, <1>3

LEMMA ShowsAll ==
    ASSUME NEW dom \in Seq(Nodes), NEW list \in Lists
    PROVE  Shows(dom, list) <=>
              [i \in DOMAIN dom |-> [dom[i] EXCEPT !.touched = FALSE]] = RenderAll(list)
<1>. DEFINE left == [i \in DOMAIN dom |-> [dom[i] EXCEPT !.touched = FALSE]]
<1>1. DOMAIN dom = 1 .. Len(dom) /\ Len(dom) \in Nat /\ \A i \in 1 .. Len(dom) : dom[i] \in Nodes
  BY LenProperties
<1>2. DOMAIN list = 1 .. Len(list) /\ Len(list) \in Nat
  BY ListFacts
<1>3. ASSUME NEW i \in 1 .. Len(dom)
      PROVE  [dom[i] EXCEPT !.touched = FALSE] =
                [key |-> dom[i].key, text |-> dom[i].text, touched |-> FALSE]
  <2>1. PICK node \in Nodes : node = dom[i]
    BY <1>1
  <2>2. [node EXCEPT !.touched = FALSE] = [key |-> node.key, text |-> node.text, touched |-> FALSE]
    BY NodeIs DEF Nodes
  <2>. QED
    BY <2>1, <2>2
<1>4. ASSUME Shows(dom, list) PROVE left = RenderAll(list)
  <2>1. Len(dom) = Len(list)
    BY <1>4 DEF Shows
  <2>2. ASSUME NEW i \in 1 .. Len(list)
        PROVE  [dom[i] EXCEPT !.touched = FALSE] = Render(list[i])
    BY <1>3, <1>4, <2>1 DEF Shows, Render
  <2>. QED
    BY <1>1, <1>2, <2>1, <2>2 DEF RenderAll
<1>5. ASSUME left = RenderAll(list) PROVE Shows(dom, list)
  <2>1. DOMAIN left = 1 .. Len(dom) /\ DOMAIN RenderAll(list) = 1 .. Len(list)
    BY <1>1, <1>2 DEF RenderAll
  <2>2. Len(dom) = Len(list)
    <3>1. 1 .. Len(dom) = 1 .. Len(list)
      BY <1>5, <2>1
    <3>. QED
      BY <1>1, <1>2, <3>1, SameLength
  <2>3. ASSUME NEW i \in 1 .. Len(list)
        PROVE  dom[i].key = list[i].key /\ dom[i].text = list[i].text
    <3>1. left[i] = Render(list[i])
      <4>1. RenderAll(list)[i] = Render(list[i])
        BY <1>2 DEF RenderAll
      <4>. HIDE DEF left
      <4>. QED
        BY <1>5, <4>1
    <3>2. left[i] = [key |-> dom[i].key, text |-> dom[i].text, touched |-> FALSE]
      BY <1>1, <1>3, <2>2
    <3>. HIDE DEF left
    <3>. QED
      BY <3>1, <3>2 DEF Render
  <2>. QED
    BY <2>2, <2>3 DEF Shows
<1>. HIDE DEF left
<1>6. Shows(dom, list) <=> left = RenderAll(list)
  BY <1>4, <1>5
<1>. QED
  BY <1>6 DEF left

LEMMA KeyIn ==
    ASSUME NEW list, NEW i \in DOMAIN list
    PROVE  list[i].key \in KeysOf(list)
  BY DEF KeysOf, ToSet

LEMMA NodesAreItems ==
    ASSUME NEW p, p.dom \in Seq(Nodes), p.items \in Lists, Unique(p.items), Shows(p.dom, p.items)
    PROVE  /\ KeysOf(p.dom) = KeysOf(p.items) /\ Stale(p) = {}
           /\ \A i \in 1 .. Len(p.items) : NodeOf(p, p.items[i].key) = i
<1>1. /\ DOMAIN p.dom = 1 .. Len(p.items) /\ DOMAIN p.items = 1 .. Len(p.items)
      /\ Len(p.dom) = Len(p.items)
      /\ \A i \in 1 .. Len(p.items) : p.dom[i].key = p.items[i].key
  BY LenProperties, ListFacts DEF Shows
<1>2. KeysOf(p.dom) = KeysOf(p.items)
  <2>1. ASSUME NEW k \in KeysOf(p.dom) PROVE k \in KeysOf(p.items)
    <3>1. PICK i \in 1 .. Len(p.items) : k = p.dom[i].key
      BY <1>1, <2>1 DEF KeysOf, ToSet
    <3>. QED
      BY <1>1, <3>1, KeyIn
  <2>2. ASSUME NEW k \in KeysOf(p.items) PROVE k \in KeysOf(p.dom)
    <3>1. PICK i \in 1 .. Len(p.items) : k = p.items[i].key
      BY <1>1, <2>2 DEF KeysOf, ToSet
    <3>2. i \in DOMAIN p.dom /\ k = p.dom[i].key
      BY <1>1, <3>1
    <3>. QED
      BY <3>2, KeyIn
  <2>. QED
    BY <2>1, <2>2
<1>3. ASSUME NEW i \in 1 .. Len(p.items) PROVE NodeOf(p, p.items[i].key) = i
  <2>1. p.items[i].key \in KeysOf(p.dom)
    BY <1>1, <1>2, KeyIn
  <2>2. PICK j \in 1 .. Len(p.items) : /\ j = NodeOf(p, p.items[i].key)
                                       /\ p.dom[j].key = p.items[i].key
    BY <1>1, <2>1, NodeOfFacts
  <2>3. p.items[j].key = p.items[i].key
    BY <1>1, <2>2
  <2>. QED
    BY <2>2, <2>3, UniqueKeys
<1>4. ASSUME NEW i \in Stale(p) PROVE FALSE
  <2>1. i \in 1 .. Len(p.items)
    BY <1>1, <1>4 DEF Stale
  <2>2. p.items[i].key \in KeysOf(p.dom) \cap KeysOf(p.items)
    BY <1>1, <1>2, <2>1, KeyIn
  <2>. QED
    BY <1>3, <1>4, <2>1, <2>2 DEF Stale
<1>. QED
  BY <1>2, <1>3, <1>4

LEMMA ShowsNext ==
    ASSUME NEW p, p.dom \in Seq(Nodes), p.items \in Lists, Unique(p.items), Shows(p.dom, p.items),
           NEW new \in Lists, Unique(new), NEW shared
    PROVE  Shows(Reconciled(p, new, shared), new)
<1>1. Len(new) \in Nat /\ DOMAIN new = 1 .. Len(new) /\ \A i \in 1 .. Len(new) : new[i].key \in KeysOf(new)
  BY ListFacts
<1>2. Stale(p) = {} /\ KeysOf(p.dom) = KeysOf(p.items)
  BY NodesAreItems
<1>3. Cardinality(Stale(p)) = 0
  BY <1>2, FS_EmptySet
<1>4. Present(p, new) = 1 .. Len(new)
  BY <1>1, <1>2 DEF Present, Inserted
<1>5. /\ Cardinality(Present(p, new)) = Len(new)
      /\ \A i \in 1 .. Len(new) : InOrder(Present(p, new))[i] = i
  BY <1>1, <1>4, InOrderAll
<1>6. PICK r : r = Reconciled(p, new, shared)
  OBVIOUS
<1>7. Len(r) = Len(new) /\ \A i \in 1 .. Len(new) : r[i] = Placed(p, new, shared, new[i])
  <2>1. Len(r) = 0 + Len(new)
    BY <1>3, <1>5, <1>6, ReconciledFacts
  <2>2. \A i \in 1 .. Len(new) : r[0 + i] = Placed(p, new, shared, new[i])
    BY <1>3, <1>5, <1>6, ReconciledFacts
  <2>. QED
    BY <1>1, <2>1, <2>2
<1>8. ASSUME NEW i \in 1 .. Len(new)
      PROVE  r[i].key = new[i].key /\ r[i].text = new[i].text
  <2>. DEFINE k == new[i].key
  <2>1. r[i].key = k
    <3>1. Placed(p, new, shared, new[i]).key = new[i].key
      <4>1. i \in Present(p, new)
        BY <1>4
      <4>2. Placed(p, new, shared, new[i]) \in NodesOf(new[i].key)
        BY <4>1, PlacedKeys, Zenon
      <4>. QED
        BY <4>2 DEF NodesOf
    <3>. QED
      BY <1>7, <3>1
  <2>2. CASE k \in Inserted(p.items, new)
    <3>1. r[i] = Render(new[i])
      BY <1>7, <2>2 DEF Placed
    <3>. QED
      BY <2>1, <3>1 DEF Render
  <2>3. CASE k \notin Inserted(p.items, new)
    <3>1. k \in KeysOf(p.items) /\ k \in Kept(p.items, new)
      BY <1>1, <2>3 DEF Inserted, Kept
    <3>2. PICK node \in Nodes : node = p.dom[NodeOf(p, k)]
      BY <1>2, <3>1, NodeOfFacts
    <3>3. CASE k \in Changed(p.items, new, shared)
      <4>1. r[i] = Rewritten(node, new[i])
        BY <1>7, <2>3, <3>2, <3>3 DEF Placed
      <4>. QED
        BY <2>1, <4>1 DEF Rewritten, Nodes
    <3>4. CASE k \notin Changed(p.items, new, shared)
      <4>1. r[i] = node
        BY <1>7, <2>3, <3>2, <3>4 DEF Placed
      <4>2. ItemOf(p.items, k) = ItemOf(new, k)
        BY <3>1, <3>4 DEF Changed
      <4>3. ItemOf(new, k) = new[i]
        BY UniqueKeys
      <4>4. PICK j \in 1 .. Len(p.items) : p.items[j].key = k
        BY <3>1, ListFacts DEF KeysOf, ToSet
      <4>5. ItemOf(p.items, k) = p.items[j] /\ NodeOf(p, k) = j
        BY <4>4, UniqueKeys, NodesAreItems
      <4>6. node.text = p.items[j].text
        BY <3>2, <4>4, <4>5 DEF Shows
      <4>. QED
        BY <2>1, <4>1, <4>2, <4>3, <4>5, <4>6
    <3>. QED
      BY <3>3, <3>4
  <2>. QED
    BY <2>1, <2>2, <2>3
<1>. QED
  BY <1>6, <1>7, <1>8 DEF Shows

-----------------------------------------------------------------------------
(* The calls of a write that the corrector corrects: those up to its own,  *)
(* those of its write, and the rest.                                       *)
OrderOK == order \in [1 .. Cardinality(Listeners) -> Listeners] /\ ToSet(order) = Listeners

LEMMA OrderFacts ==
    ASSUME OrderOK
    PROVE  /\ Cardinality(Listeners) \in Nat
           /\ order \in Seq(Listeners) /\ Len(order) = Cardinality(Listeners)
           /\ DOMAIN order = 1 .. Len(order)
           /\ \A l \in Listeners : \E i \in 1 .. Len(order) : order[i] = l
           /\ \A i, j \in 1 .. Len(order) : order[i] = order[j] => i = j
<1>1. PICK n \in Nat : n = Cardinality(Listeners)
  BY ListsAssumption, FS_CardinalityType
<1>2. order \in Seq(Listeners) /\ Len(order) = n /\ DOMAIN order = 1 .. n
  BY <1>1, MapIsSeq DEF OrderOK
<1>3. \A l \in Listeners : \E i \in 1 .. n : order[i] = l
  BY <1>2 DEF OrderOK, ToSet
<1>4. \A i, j \in 1 .. n : order[i] = order[j] => i = j
  BY <1>1, <1>2, <1>3, OnePlaceEach DEF OrderOK
<1>. QED
  BY <1>1, <1>2, <1>3, <1>4

(* Who is told before the corrector's own call is told the correction last *)
(* and everybody is told what was written, if nothing is corrected.        *)
LEMMA ToldPlainly ==
    ASSUME OrderOK, NEW value, value \notin Unwanted, NEW l \in Listeners
    PROVE  LastTold(l, value) = value
<1>1. PICK calls : calls = Calls(value)
  OBVIOUS
<1>2. calls = [i \in DOMAIN order |-> [who |-> order[i], value |-> value]]
  BY <1>1 DEF Calls
<1>. DEFINE mine == {i \in DOMAIN calls : calls[i].who = l}
<1>3. mine # {} /\ mine \subseteq 1 .. Len(order) /\ Len(order) \in Nat
  BY <1>2, OrderFacts
<1>4. Max(mine) \in mine
  <2>. HIDE DEF mine
  <2>. QED
    BY <1>3, GreatestNumber
<1>5. calls[Max(mine)].value = value
  BY <1>2, <1>4
<1>. QED
  BY <1>1, <1>5 DEF LastTold

LEMMA Joined ==
    ASSUME NEW S, NEW a \in Seq(S), NEW b \in Seq(S)
    PROVE  /\ a \o b \in Seq(S) /\ Len(a \o b) = Len(a) + Len(b)
           /\ \A i \in 1 .. Len(a) : (a \o b)[i] = a[i]
           /\ \A i \in 1 .. Len(b) : (a \o b)[Len(a) + i] = b[i]
<1>1. PICK ab : ab = a \o b
  OBVIOUS
<1>2. PICK m, n \in Nat : m = Len(a) /\ n = Len(b)
  BY LenProperties
<1>3. /\ ab \in Seq(S) /\ Len(ab) = m + n
      /\ \A i \in 1 .. m + n : ab[i] = IF i <= m THEN a[i] ELSE b[i - m]
  <2>1. /\ a \o b \in Seq(S) /\ Len(a \o b) = Len(a) + Len(b)
        /\ \A i \in 1 .. Len(a) + Len(b) :
              (a \o b)[i] = IF i <= Len(a) THEN a[i] ELSE b[i - Len(a)]
    BY ConcatProperties
  <2>. QED
    BY <1>1, <1>2, <2>1, Zenon
<1>4. ASSUME NEW i \in 1 .. m PROVE ab[i] = a[i]
  BY <1>3
<1>5. ASSUME NEW i \in 1 .. n PROVE ab[m + i] = b[i]
  <2>1. m + i \in 1 .. m + n /\ ~ (m + i <= m) /\ (m + i) - m = i
    OBVIOUS
  <2>. QED
    BY <1>3, <2>1
<1>. QED
  BY <1>1, <1>2, <1>3, <1>4, <1>5, Zenon

LEMMA ToldCorrected ==
    ASSUME OrderOK, NEW value \in Unwanted, NEW i \in 1 .. Len(order),
           \A j \in 1 .. i - 1 : order[j] # Corrector
    PROVE  LastTold(order[i], value) = Correction
<1>1. PICK n \in Nat : n = Len(order) /\ DOMAIN order = 1 .. n
  BY OrderFacts
<1>2. PICK c \in 1 .. n : c = (CHOOSE j \in DOMAIN order : order[j] = Corrector) /\ order[c] = Corrector
  <2>1. \E j \in DOMAIN order : order[j] = Corrector
    BY <1>1, OrderFacts, CorrectionAssumption
  <2>. QED
    BY <1>1, <2>1
<1>3. i <= c
  BY <1>1, <1>2
<1>4. PICK Call : Call = [who : Listeners, value : {value, Correction}]
  OBVIOUS
<1>5. PICK first, second : /\ first = [j \in 1 .. n |-> [who |-> order[j], value |-> value]]
                           /\ second = [j \in 1 .. n |-> [who |-> order[j], value |-> Correction]]
  OBVIOUS
<1>6. /\ first \in Seq(Call) /\ Len(first) = n /\ second \in Seq(Call) /\ Len(second) = n
      /\ \A j \in 1 .. n : /\ first[j] = [who |-> order[j], value |-> value] /\ first[j] \in Call
                           /\ second[j] = [who |-> order[j], value |-> Correction]
  <2>1. \A j \in 1 .. n : order[j] \in Listeners
    BY <1>1 DEF OrderOK
  <2>2. first \in [1 .. n -> Call] /\ second \in [1 .. n -> Call]
    BY <1>4, <1>5, <2>1
  <2>. QED
    BY <1>5, <2>2, MapIsSeq
<1>7. PICK a, b : a = SubSeq(first, 1, c) /\ b = SubSeq(first, c + 1, n)
  OBVIOUS
<1>8. /\ a \in Seq(Call) /\ Len(a) = c /\ b \in Seq(Call) /\ Len(b) = n - c
      /\ \A j \in 1 .. n - c : b[j] = first[c + j]
  <2>1. \A j \in 1 .. c : first[j] \in Call
    BY <1>6
  <2>2. \A j \in c + 1 .. n : first[j] \in Call
    BY <1>6
  <2>3. a \in Seq(Call) /\ Len(a) = c
    BY <1>7, <2>1, SubSeqProperties
  <2>4. /\ b \in Seq(Call) /\ Len(b) = IF c + 1 <= n THEN n - (c + 1) + 1 ELSE 0
        /\ \A j \in 1 .. n - (c + 1) + 1 : b[j] = first[c + 1 + j - 1]
    BY <1>7, <2>2, SubSeqProperties
  <2>. QED
    BY <2>3, <2>4
<1>9. Calls(value) = a \o second \o b
  BY <1>1, <1>2, <1>5, <1>7 DEF Calls
<1>10. PICK calls : calls = a \o second \o b
  OBVIOUS
<1>11. /\ DOMAIN calls = 1 .. n + n
       /\ \A j \in 1 .. n : calls[c + j] = second[j]
       /\ \A j \in 1 .. n - c : calls[c + n + j] = first[c + j]
  <2>1. c \in Nat /\ n \in Nat /\ n - c \in Nat
    BY <1>1, <1>2, OrderFacts
  <2>2. PICK ab : ab = a \o second
    OBVIOUS
  <2>3. /\ ab \in Seq(Call) /\ Len(ab) = c + n
        /\ \A j \in 1 .. n : ab[c + j] = second[j]
    <3>1. /\ a \o second \in Seq(Call) /\ Len(a \o second) = c + n
          /\ \A j \in 1 .. n : (a \o second)[c + j] = second[j]
      <4>1. a \in Seq(Call) /\ second \in Seq(Call) /\ Len(a) = c /\ Len(second) = n
        BY <1>6, <1>8
      <4>2. a \in Seq(Call) /\ second \in Seq(Call)
        BY <4>1
      <4>3. a \o second \in Seq(Call) /\ Len(a \o second) = Len(a) + Len(second)
        BY <4>2, Joined
      <4>4. \A j \in 1 .. Len(second) : (a \o second)[Len(a) + j] = second[j]
        BY <4>2, Joined
      <4>. QED
        BY <4>1, <4>3, <4>4, Zenon
    <3>. QED
      BY <2>2, <3>1, Zenon
  <2>4. PICK x, y \in Nat : x = c + n /\ y = n - c
    BY <2>1
  <2>5. /\ calls \in Seq(Call) /\ Len(calls) = x + y
        /\ \A j \in 1 .. x : calls[j] = ab[j]
        /\ \A j \in 1 .. y : calls[x + j] = b[j]
    <3>1. calls = ab \o b
      BY <1>10, <2>2, Zenon
    <3>2. ab \in Seq(Call) /\ b \in Seq(Call) /\ Len(ab) = x /\ Len(b) = y
      BY <1>8, <2>3, <2>4
    <3>3. /\ ab \o b \in Seq(Call) /\ Len(ab \o b) = x + y
          /\ \A j \in 1 .. x : (ab \o b)[j] = ab[j]
          /\ \A j \in 1 .. y : (ab \o b)[x + j] = b[j]
      <4>1. ab \in Seq(Call) /\ b \in Seq(Call)
        BY <3>2
      <4>2. ab \o b \in Seq(Call) /\ Len(ab \o b) = Len(ab) + Len(b)
        BY <4>1, Joined
      <4>3. \A j \in 1 .. Len(ab) : (ab \o b)[j] = ab[j]
        BY <4>1, Joined
      <4>4. \A j \in 1 .. Len(b) : (ab \o b)[Len(ab) + j] = b[j]
        BY <4>1, Joined
      <4>. QED
        BY <3>2, <4>2, <4>3, <4>4, Zenon
    <3>. QED
      BY <3>1, <3>3, Zenon
  <2>6. DOMAIN calls = 1 .. n + n
    BY <2>1, <2>4, <2>5, LenProperties
  <2>7. ASSUME NEW j \in 1 .. n PROVE calls[c + j] = second[j]
    <3>1. c + j \in 1 .. x
      BY <2>1, <2>4
    <3>2. calls[c + j] = ab[c + j]
      BY <2>5, <3>1
    <3>. QED
      BY <2>3, <3>2
  <2>8. ASSUME NEW j \in 1 .. n - c PROVE calls[c + n + j] = first[c + j]
    <3>1. j \in 1 .. y /\ c + n + j = x + j
      BY <2>1, <2>4
    <3>2. calls[x + j] = b[j]
      BY <2>5, <3>1
    <3>3. b[j] = first[c + j]
      BY <1>8
    <3>. QED
      BY <3>1, <3>2, <3>3
  <2>. QED
    BY <2>6, <2>7, <2>8
<1>. DEFINE mine == {j \in DOMAIN calls : calls[j].who = order[i]}
<1>12. mine \subseteq 1 .. n + n /\ c + i \in mine /\ n + n \in Nat
  <2>1. c + i \in 1 .. n + n /\ i \in 1 .. n
    BY <1>1, <1>2
  <2>2. calls[c + i].who = order[i]
    <3>1. calls[c + i] = second[i]
      BY <1>11, <2>1
    <3>2. second[i] = [who |-> order[i], value |-> Correction]
      BY <1>6, <2>1
    <3>. QED
      BY <3>1, <3>2
  <2>. QED
    BY <1>1, <1>11, <2>1, <2>2
<1>13. PICK m : m = Max(mine) /\ m \in mine /\ m >= c + i
  <2>1. mine # {}
    BY <1>12
  <2>. HIDE DEF mine
  <2>2. Max(mine) \in mine /\ \A y \in mine : Max(mine) >= y
    BY <1>12, <2>1, GreatestNumber
  <2>. QED
    BY <1>12, <2>2
<1>14. m \in 1 .. n + n /\ calls[m].who = order[i]
  BY <1>11, <1>13
<1>15. CASE m <= c + n
  <2>1. m - c \in 1 .. n /\ c + (m - c) = m
    BY <1>1, <1>2, <1>13, <1>14, <1>15
  <2>2. calls[m] = second[m - c]
    BY <1>11, <2>1
  <2>3. calls[m].value = Correction
    BY <1>6, <2>1, <2>2
  <2>. QED
    BY <1>9, <1>10, <1>13, <2>3 DEF LastTold
<1>16. CASE m > c + n
  <2>1. PICK j \in 1 .. n - c : m = c + n + j
    <3>1. m - (c + n) \in 1 .. n - c /\ m = c + n + (m - (c + n))
      BY <1>14, <1>16
    <3>. QED
      BY <3>1
  <2>2. calls[m].who = order[c + j] /\ c + j \in 1 .. n
    <3>1. c + j \in 1 .. n
      BY <1>1, <1>2, OrderFacts
    <3>2. calls[m] = first[c + j]
      BY <1>11, <2>1
    <3>3. first[c + j] = [who |-> order[c + j], value |-> value]
      BY <1>6, <3>1
    <3>. QED
      BY <3>1, <3>2, <3>3
  <2>3. c + j = i
    BY <1>1, <1>14, <2>2, OrderFacts
  <2>. QED
    BY <1>1, <1>3, <2>1, <2>3
<1>. QED
  BY <1>14, <1>15, <1>16

-----------------------------------------------------------------------------
(* What a write keeps of the page, whether its list is accepted or not.    *)
Texts == {item.text : item \in Items} \cup {Nothing}
Outcomes == {"rejected", "refresh-required", "reconciled"}
Pages == [value : Lists \cup {Garbled, Nothing}, items : Lists, same : BOOLEAN, dom : Seq(Nodes),
          status : Outcomes \cup {"none"}, text : Texts]

(* The nodes are those of the list they were last reconciled with, before  *)
(* init none was, and a reconciliation's list is the signal's own.         *)
PageOK(p) ==
    /\ p \in Pages
    /\ p.status = "reconciled" => p.same
    /\ ~ registered => p.status = "none"

Whole(p) ==
    /\ Unique(p.items) /\ Shows(p.dom, p.items)
    /\ p.status = "reconciled" => p.items = p.value

LEMMA OutcomeIs ==
    ASSUME NEW p, NEW new, NEW shared
    PROVE  /\ Outcome(p, new, shared) \in Outcomes
           /\ Outcome(p, new, shared) = "reconciled" => Unique(p.items) /\ Unique(new)
<1>1. CASE ~ Unique(p.items) \/ ~ Unique(new)
  BY <1>1 DEF Outcome, Outcomes
<1>2. CASE Unique(p.items) /\ Unique(new)
  <2>1. Outcome(p, new, shared) \in {"refresh-required", "reconciled"}
    BY <1>2 DEF Outcome
  <2>. QED
    BY <1>2, <2>1 DEF Outcomes
<1>. QED
  BY <1>1, <1>2

LEMMA TextIs ==
    ASSUME NEW text \in Texts, NEW value, NEW runs
    PROVE  /\ TextAfter(text, value, runs) \in Texts
           /\ runs /\ Evaluates(value) => TextAfter(text, value, runs) = value[1].text
<1>1. CASE runs /\ Evaluates(value)
  <2>1. TextAfter(text, value, runs) = value[1].text
    BY <1>1 DEF TextAfter
  <2>2. value \in Lists /\ value # <<>>
    BY <1>1 DEF Evaluates
  <2>3. value \in Seq(Items) /\ 1 \in 1 .. Len(value)
    BY <2>2, ListFacts, EmptySeq
  <2>4. value[1] \in Items
    BY <2>3, ElementOfSeq
  <2>. QED
    BY <2>1, <2>4 DEF Texts
<1>2. CASE ~ (runs /\ Evaluates(value))
  BY <1>2 DEF TextAfter
<1>. QED
  BY <1>1, <1>2

LEMMA WrittenUnregistered ==
    ASSUME ~ registered, NEW p \in Pages, NEW new \in Lists \cup {Garbled, Nothing},
           NEW shared, NEW again
    PROVE  LET w == Written(p, new, shared, again) IN
           /\ w \in Pages /\ w.value = new
           /\ w.items = p.items /\ w.same = p.same /\ w.dom = p.dom /\ w.status = p.status
<1>1. PICK w : w = Written(p, new, shared, again)
  OBVIOUS
<1>2. w = [p EXCEPT !.value = new]
  BY <1>1 DEF Written
<1>3. /\ w \in Pages /\ w.value = new
      /\ w.items = p.items /\ w.same = p.same /\ w.dom = p.dom /\ w.status = p.status
  BY <1>2 DEF Pages
<1>. QED
  BY <1>1, <1>3, Zenon

LEMMA WrittenRegistered ==
    ASSUME registered, NEW p \in Pages, NEW new \in Lists, NEW shared, NEW again \in BOOLEAN
    PROVE  LET w == Written(p, new, shared, again) IN
           /\ w \in Pages /\ w.value = new
           /\ w.status = Outcome(p, new, shared)
           /\ IF w.status = "reconciled" THEN w.items = new /\ w.same /\ w.dom = Reconciled(p, new, shared)
              ELSE w.items = p.items /\ w.dom = p.dom
           /\ executor /\ Evaluates(new) => w.text = new[1].text
<1>1. PICK w : w = Written(p, new, shared, again)
  OBVIOUS
<1>2. PICK status \in Outcomes : status = Outcome(p, new, shared)
  BY OutcomeIs
<1>3. PICK items \in Lists : /\ items = ItemsAfter(p, new, status)
                             /\ items = IF status = "reconciled" THEN new ELSE p.items
  BY DEF ItemsAfter, Pages
<1>4. PICK dom \in Seq(Nodes) : dom = IF status = "reconciled" THEN Reconciled(p, new, shared) ELSE p.dom
  <2>1. p.dom \in Seq(Nodes)
    BY DEF Pages
  <2>2. Reconciled(p, new, shared) \in Seq(Nodes)
    BY <2>1, ReconciledFacts
  <2>. QED
    BY <2>1, <2>2
<1>5. PICK text \in Texts :
          /\ text = TextAfter(p.text, new, executor)
          /\ executor /\ Evaluates(new) => text = new[1].text
  <2>1. p.text \in Texts
    BY DEF Pages
  <2>. QED
    BY <2>1, TextIs, Zenon
<1>6. PICK same \in BOOLEAN : same = (status = "reconciled" \/ (again /\ p.same))
  OBVIOUS
<1>7. w = [value |-> new, items |-> items, same |-> same, dom |-> dom, status |-> status, text |-> text]
  BY <1>1, <1>2, <1>3, <1>4, <1>5, <1>6, Zenon DEF Written
<1>8. /\ w \in Pages /\ w.value = new /\ w.status = status /\ w.items = items
      /\ w.same = same /\ w.dom = dom /\ w.text = text
  BY <1>7 DEF Pages
<1>9. status = "reconciled" => same
  BY <1>6
<1>10. /\ w.status = Outcome(p, new, shared)
       /\ IF w.status = "reconciled" THEN w.items = new /\ w.same /\ w.dom = Reconciled(p, new, shared)
          ELSE w.items = p.items /\ w.dom = p.dom
  BY <1>2, <1>3, <1>4, <1>8, <1>9
<1>11. executor /\ Evaluates(new) => w.text = new[1].text
  BY <1>5, <1>8
<1>. QED
  BY <1>1, <1>8, <1>10, <1>11, Zenon

LEMMA WrittenOK ==
    ASSUME registered \in BOOLEAN, NEW p, PageOK(p), NEW new \in Lists, NEW shared,
           NEW again \in BOOLEAN
    PROVE  /\ PageOK(Written(p, new, shared, again))
           /\ Written(p, new, shared, again).value = new
           /\ registered /\ executor /\ Evaluates(new) =>
                 Written(p, new, shared, again).text = new[1].text
           /\ Whole(p) => Whole(Written(p, new, shared, again))
           /\ \A k \in TouchedKeys(p.dom) \ TouchedKeys(Written(p, new, shared, again).dom) :
                 /\ k \notin KeysOf(new)
                 /\ k \notin KeysOf(Written(p, new, shared, again).items)
<1>1. PICK w : w = Written(p, new, shared, again)
  OBVIOUS
<1>2. p \in Pages /\ p.dom \in Seq(Nodes) /\ p.items \in Lists
  BY DEF PageOK, Pages
<1>3. CASE ~ registered
  <2>1. /\ w \in Pages /\ w.value = new
        /\ w.items = p.items /\ w.same = p.same /\ w.dom = p.dom /\ w.status = p.status
    BY <1>1, <1>2, <1>3, WrittenUnregistered
  <2>2. p.status = "none"
    BY <1>3 DEF PageOK
  <2>3. PageOK(w)
    BY <2>1, <2>2 DEF PageOK
  <2>4. Whole(p) => Whole(w)
    BY <2>1, <2>2 DEF Whole
  <2>. QED
    BY <1>1, <1>3, <2>1, <2>3, <2>4
<1>4. CASE registered
  <2>1. /\ w \in Pages /\ w.value = new
        /\ w.status = Outcome(p, new, shared)
        /\ IF w.status = "reconciled" THEN w.items = new /\ w.same /\ w.dom = Reconciled(p, new, shared)
           ELSE w.items = p.items /\ w.dom = p.dom
        /\ executor /\ Evaluates(new) => w.text = new[1].text
    BY <1>1, <1>2, <1>4, WrittenRegistered
  <2>2. PageOK(w)
    BY <1>4, <2>1 DEF PageOK
  <2>3. ASSUME Whole(p) PROVE Whole(w)
    <3>1. CASE w.status = "reconciled"
      <4>1. Unique(p.items) /\ Unique(new) /\ Shows(p.dom, p.items)
        BY <2>1, <2>3, <3>1, OutcomeIs DEF Whole
      <4>2. Shows(Reconciled(p, new, shared), new)
        BY <1>2, <4>1, ShowsNext
      <4>. QED
        BY <2>1, <3>1, <4>1, <4>2 DEF Whole
    <3>2. CASE w.status # "reconciled"
      BY <2>1, <2>3, <3>2 DEF Whole
    <3>. QED
      BY <3>1, <3>2
  <2>4. ASSUME NEW k \in TouchedKeys(p.dom) \ TouchedKeys(w.dom)
        PROVE  k \notin KeysOf(new) /\ w.items = new
    <3>1. w.dom = Reconciled(p, new, shared) /\ w.items = new
      BY <2>1, <2>4
    <3>2. PICK i \in 1 .. Len(p.dom) : p.dom[i].touched /\ p.dom[i].key = k
      <4>1. DOMAIN p.dom = 1 .. Len(p.dom)
        BY <1>2, LenProperties
      <4>. QED
        BY <2>4, <4>1, Zenon DEF TouchedKeys, ToSet
    <3>. QED
      BY <1>2, <2>4, <3>1, <3>2, TouchStays
  <2>. QED
    BY <1>1, <2>1, <2>2, <2>3, <2>4
<1>. QED
  BY <1>3, <1>4

-----------------------------------------------------------------------------
(* The inductive invariant: the order of the listeners is one, the page is *)
(* made of lists and nodes, which belong together unless their list was    *)
(* edited in place, and the two properties that are inductive as they are. *)
ListTypes ==
    /\ OrderOK
    /\ executor \in BOOLEAN /\ registered \in BOOLEAN /\ known \in BOOLEAN
    /\ told \in [Listeners -> BOOLEAN]

ListInv ==
    /\ ListTypes
    /\ registered => known
    /\ PageOK(page)
    /\ "items" \notin edited => Whole(page)
    /\ ExpressionIsCurrent
    /\ ListenersAreCurrent

LEMMA ToldInTurn ==
    ASSUME OrderOK, NEW new \in Lists, NEW i \in DOMAIN order, NEW value,
           value = (IF new \in Unwanted THEN Correction ELSE new),
           LastTold(order[i], new) # value
    PROVE  \E j \in 1 .. i - 1 : order[j] = Corrector
<1>1. DOMAIN order = 1 .. Len(order) /\ order[i] \in Listeners
  BY OrderFacts DEF OrderOK
<1>2. new \in Unwanted /\ value = Correction
  BY <1>1, ToldPlainly
<1>. QED
  BY <1>1, <1>2, ToldCorrected

(* The page after a write that is not refused for its type, and the nodes' *)
(* list that its correction finds.                                         *)
Accepted(new, shared, again) ==
    IF new \in Unwanted
      THEN Written(Written(page, new, shared, again), Correction, FALSE, FALSE)
      ELSE Written(page, new, shared, again)

Found(new, shared, again) ==
    IF new \in Unwanted THEN Written(page, new, shared, again).items ELSE Nothing

LEMMA AcceptedOK ==
    ASSUME registered \in BOOLEAN, PageOK(page), NEW new \in Lists, NEW shared,
           NEW again \in BOOLEAN, NEW p, p = Accepted(new, shared, again),
           NEW found, found = Found(new, shared, again)
    PROVE  /\ PageOK(p)
           /\ p.value = IF new \in Unwanted THEN Correction ELSE new
           /\ registered /\ executor /\ Evaluates(p.value) => p.text = p.value[1].text
           /\ Whole(page) => Whole(p)
           /\ \A k \in TouchedKeys(page.dom) \ TouchedKeys(p.dom) :
                 k \notin KeysOf(p.value) \/ (found # Nothing /\ k \notin KeysOf(found))
<1>1. PICK w : w = Written(page, new, shared, again)
  OBVIOUS
<1>2. /\ PageOK(w) /\ w.value = new
      /\ registered /\ executor /\ Evaluates(new) => w.text = new[1].text
      /\ Whole(page) => Whole(w)
      /\ \A k \in TouchedKeys(page.dom) \ TouchedKeys(w.dom) :
            k \notin KeysOf(new) /\ k \notin KeysOf(w.items)
  BY <1>1, WrittenOK
<1>3. CASE new \in Unwanted
  <2>1. PICK no \in BOOLEAN : p = Written(w, Correction, no, no)
    <3>1. p = Written(w, Correction, FALSE, FALSE)
      BY <1>1, <1>3 DEF Accepted
    <3>. QED
      BY <3>1
  <2>2. Correction \in Lists
    BY CorrectionAssumption
  <2>3. /\ PageOK(p) /\ p.value = Correction
        /\ registered /\ executor /\ Evaluates(Correction) => p.text = Correction[1].text
        /\ Whole(w) => Whole(p)
        /\ \A k \in TouchedKeys(w.dom) \ TouchedKeys(p.dom) : k \notin KeysOf(Correction)
    <3>1. /\ PageOK(Written(w, Correction, no, no)) /\ Written(w, Correction, no, no).value = Correction
          /\ registered /\ executor /\ Evaluates(Correction) =>
                Written(w, Correction, no, no).text = Correction[1].text
          /\ Whole(w) => Whole(Written(w, Correction, no, no))
          /\ \A k \in TouchedKeys(w.dom) \ TouchedKeys(Written(w, Correction, no, no).dom) :
                k \notin KeysOf(Correction)
      <4>1. PageOK(w)
        BY <1>2
      <4>2. PageOK(Written(w, Correction, no, no))
        BY <2>2, <4>1, WrittenOK
      <4>3. Written(w, Correction, no, no).value = Correction
        BY <2>2, <4>1, WrittenOK
      <4>4. registered /\ executor /\ Evaluates(Correction) =>
                Written(w, Correction, no, no).text = Correction[1].text
        BY <2>2, <4>1, WrittenOK
      <4>5. Whole(w) => Whole(Written(w, Correction, no, no))
        BY <2>2, <4>1, WrittenOK
      <4>6. \A k \in TouchedKeys(w.dom) \ TouchedKeys(Written(w, Correction, no, no).dom) :
                k \notin KeysOf(Correction)
        BY <2>2, <4>1, WrittenOK
      <4>. QED
        BY <4>2, <4>3, <4>4, <4>5, <4>6
    <3>. QED
      BY <2>1, <3>1, Zenon
  <2>4. found = w.items /\ found # Nothing
    <3>1. found = w.items
      BY <1>1, <1>3 DEF Found
    <3>2. w.items \in Lists
      BY <1>2 DEF PageOK, Pages
    <3>. QED
      BY <3>1, <3>2, NamesAssumption
  <2>. QED
    BY <1>2, <1>3, <2>3, <2>4
<1>4. CASE new \notin Unwanted
  <2>1. p = w
    BY <1>1, <1>4 DEF Accepted
  <2>. QED
    BY <1>2, <1>4, <2>1
<1>. QED
  BY <1>3, <1>4

LEMMA PageStays ==
    ASSUME UNCHANGED <<executor, registered>>, PageOK(page')
    PROVE  PageOK(page)'
  BY DEF PageOK

(* What ItemsKeepTheirNodes says of a step. *)
TouchedStay ==
    \A k \in TouchedKeys(page.dom) \ TouchedKeys(page'.dom) :
        \/ k \notin KeysOf(page'.value)
        \/ between' # Nothing /\ k \notin KeysOf(between')

LEMMA WriteKeeps ==
    ASSUME ListInv, NEW new \in Lists, NEW shared, NEW again \in BOOLEAN, NEW typed,
           ~ typed => ~ registered, Write(new, shared, again, typed),
           UNCHANGED <<order, executor, registered>>, known' \in BOOLEAN, registered' => known'
    PROVE  /\ ListInv'
           /\ TouchedStay
<1>. USE DEF ListInv, ListTypes
<1>1. CASE /\ ~ typed
           /\ page' = Written(page, Garbled, FALSE, FALSE)
           /\ told' = [l \in Listeners |-> TRUE]
           /\ edited' = edited \ {"value"}
  <2>1. ~ registered /\ page \in Pages /\ page.status = "none"
    BY <1>1 DEF PageOK
  <2>2. /\ page' \in Pages /\ page'.value = Garbled
        /\ page'.items = page.items /\ page'.same = page.same /\ page'.dom = page.dom
        /\ page'.status = page.status
    <3>1. PICK no : page' = Written(page, Garbled, no, no)
      BY <1>1
    <3>2. PICK p : p = page'
      OBVIOUS
    <3>3. /\ p \in Pages /\ p.value = Garbled
          /\ p.items = page.items /\ p.same = page.same /\ p.dom = page.dom
          /\ p.status = page.status
      BY <2>1, <3>1, <3>2, WrittenUnregistered
    <3>. QED
      BY <3>2, <3>3
  <2>3. PageOK(page)'
    BY <2>1, <2>2 DEF PageOK
  <2>4. ("items" \notin edited => Whole(page))'
    BY <1>1, <2>1, <2>2 DEF Whole
  <2>5. ExpressionIsCurrent'
    BY <2>1 DEF ExpressionIsCurrent
  <2>6. ListenersAreCurrent'
    <3>1. \A i \in DOMAIN order : order[i] \in Listeners
      BY DEF OrderOK
    <3>. QED
      BY <1>1, <3>1 DEF ListenersAreCurrent
  <2>7. ListTypes'
    BY <1>1 DEF OrderOK
  <2>8. TouchedStay
    BY <2>2 DEF TouchedStay
  <2>. QED
    BY <2>3, <2>4, <2>5, <2>6, <2>7, <2>8
<1>2. CASE UNCHANGED <<page, told, edited>>
  BY <1>2 DEF PageOK, Whole, ExpressionIsCurrent, ListenersAreCurrent, OrderOK, TouchedStay
<1>3. CASE /\ LET written == Written(page, new, shared, again) IN
              IF new \in Unwanted
                THEN page' = Written(written, Correction, FALSE, FALSE) /\ between' = written.items
                ELSE page' = written /\ between' = Nothing
           /\ told' = [l \in Listeners |-> LastTold(l, new) = page'.value]
           /\ edited' = edited \ {"value"}
  <2>1. /\ PageOK(page')
        /\ page'.value = IF new \in Unwanted THEN Correction ELSE new
        /\ registered /\ executor /\ Evaluates(page'.value) => page'.text = page'.value[1].text
        /\ Whole(page) => Whole(page')
        /\ TouchedStay
    <3>1. PICK p, found : p = page' /\ found = between'
      OBVIOUS
    <3>2. p = Accepted(new, shared, again) /\ found = Found(new, shared, again)
      <4>1. CASE new \in Unwanted
        BY <1>3, <3>1, <4>1, Zenon DEF Accepted, Found
      <4>2. CASE new \notin Unwanted
        BY <1>3, <3>1, <4>2, Zenon DEF Accepted, Found
      <4>. QED
        BY <4>1, <4>2
    <3>3. registered \in BOOLEAN /\ PageOK(page)
      OBVIOUS
    <3>4. /\ PageOK(p)
          /\ p.value = IF new \in Unwanted THEN Correction ELSE new
          /\ registered /\ executor /\ Evaluates(p.value) => p.text = p.value[1].text
          /\ Whole(page) => Whole(p)
          /\ \A k \in TouchedKeys(page.dom) \ TouchedKeys(p.dom) :
                k \notin KeysOf(p.value) \/ (found # Nothing /\ k \notin KeysOf(found))
      BY <3>2, <3>3, AcceptedOK
    <3>. QED
      BY <3>1, <3>4, Zenon DEF TouchedStay
  <2>2. PageOK(page)'
    BY <2>1, PageStays
  <2>3. ("items" \notin edited => Whole(page))'
    BY <1>3, <2>1 DEF Whole
  <2>4. ExpressionIsCurrent'
    BY <2>1 DEF ExpressionIsCurrent, Evaluates
  <2>5. ListenersAreCurrent'
    <3>1. ASSUME NEW i \in DOMAIN order, ~ told'[order[i]]
          PROVE  \E j \in 1 .. i - 1 : order[j] = Corrector
      <4>1. order[i] \in Listeners
        BY DEF OrderOK
      <4>2. LastTold(order[i], new) # page'.value
        BY <1>3, <3>1, <4>1
      <4>. QED
        BY <2>1, <4>2, ToldInTurn
    <3>. QED
      BY <3>1 DEF ListenersAreCurrent
  <2>6. ListTypes'
    BY <1>3 DEF OrderOK
  <2>. QED
    BY <2>1, <2>2, <2>3, <2>4, <2>5, <2>6
<1>. QED
  BY <1>1, <1>2, <1>3, Zenon DEF Write

LEMMA NodeTouched ==
    ASSUME NEW K, NEW T, NEW node \in [key : K, text : T, touched : BOOLEAN], NEW yes \in BOOLEAN
    PROVE  /\ [node EXCEPT !.touched = yes] \in [key : K, text : T, touched : BOOLEAN]
           /\ [node EXCEPT !.touched = yes].touched = yes
           /\ [node EXCEPT !.touched = yes].key = node.key
           /\ [node EXCEPT !.touched = yes].text = node.text
  OBVIOUS

LEMMA TouchKeeps ==
    ASSUME PageOK(page), NEW i \in DOMAIN page.dom, NEW p,
           p = [page EXCEPT !.dom[i].touched = TRUE]
    PROVE  /\ PageOK(p) /\ p.value = page.value /\ p.text = page.text
           /\ Whole(page) => Whole(p)
           /\ TouchedKeys(page.dom) \subseteq TouchedKeys(p.dom)
<1>1. /\ page \in Pages /\ page.dom \in Seq(Nodes) /\ Len(page.dom) \in Nat
      /\ DOMAIN page.dom = 1 .. Len(page.dom)
  BY LenProperties DEF PageOK, Pages
<1>2. PICK n, dom : n = Len(page.dom) /\ dom = page.dom
  OBVIOUS
<1>3. PICK yes \in BOOLEAN : yes = TRUE
  OBVIOUS
<1>4. PICK node \in Nodes : node = [dom[i] EXCEPT !.touched = yes] /\ node.touched = yes
                            /\ node.key = dom[i].key /\ node.text = dom[i].text
  <2>1. PICK old \in Nodes : old = dom[i]
    BY <1>1, <1>2
  <2>2. /\ [old EXCEPT !.touched = yes] \in Nodes
        /\ [old EXCEPT !.touched = yes].touched = yes
        /\ [old EXCEPT !.touched = yes].key = old.key
        /\ [old EXCEPT !.touched = yes].text = old.text
    BY NodeTouched DEF Nodes
  <2>. QED
    BY <2>1, <2>2, Zenon
<1>5. PICK after : after = [dom EXCEPT ![i] = node]
  OBVIOUS
<1>6. p = [page EXCEPT !.dom = after]
  <2>1. p = [page EXCEPT !.dom = [dom EXCEPT ![i] = [dom[i] EXCEPT !.touched = yes]]]
    BY <1>2, <1>3
  <2>. QED
    BY <1>4, <1>5, <2>1, Zenon
<1>7. /\ after \in Seq(Nodes) /\ Len(after) = n /\ DOMAIN after = 1 .. n
      /\ \A j \in 1 .. n : after[j] = IF j = i THEN node ELSE dom[j]
  <2>1. dom \in Seq(Nodes) /\ Len(dom) = n /\ i \in 1 .. Len(dom) /\ DOMAIN dom = 1 .. n
    BY <1>1, <1>2
  <2>. QED
    BY <1>5, <2>1
<1>8. /\ p \in Pages /\ p.dom = after /\ p.value = page.value /\ p.items = page.items
      /\ p.same = page.same /\ p.status = page.status /\ p.text = page.text
  BY <1>1, <1>6, <1>7 DEF Pages
<1>9. \A j \in 1 .. n : /\ after[j].key = dom[j].key /\ after[j].text = dom[j].text
                        /\ dom[j].touched => after[j].touched
  BY <1>3, <1>4, <1>7
<1>10. Whole(page) => Whole(p)
  <2>1. ASSUME Shows(dom, page.items) PROVE Shows(after, page.items)
    <3>1. n = Len(page.items)
      BY <1>2, <2>1 DEF Shows
    <3>. QED
      BY <1>2, <1>7, <1>9, <2>1, <3>1 DEF Shows
  <2>. QED
    BY <1>2, <1>8, <2>1 DEF Whole
<1>11. TouchedKeys(dom) \subseteq TouchedKeys(after)
  <2>1. ASSUME NEW k \in TouchedKeys(dom) PROVE k \in TouchedKeys(after)
    <3>1. PICK j \in 1 .. n : dom[j].touched /\ dom[j].key = k
      BY <1>1, <1>2, <2>1, Zenon DEF TouchedKeys, ToSet
    <3>2. after[j].touched /\ after[j].key = k /\ j \in DOMAIN after
      BY <1>7, <1>9, <3>1
    <3>. QED
      BY <3>2, Zenon DEF TouchedKeys, ToSet
  <2>. QED
    BY <2>1
<1>. QED
  BY <1>1, <1>2, <1>8, <1>10, <1>11 DEF PageOK

LEMMA ListInitOK == ListInit => ListInv
<1>1. SUFFICES ASSUME ListInit PROVE ListInv
  OBVIOUS
<1>2. PICK list \in Lists :
         /\ Unique(list)
         /\ page = [value |-> Nothing, items |-> list, same |-> FALSE, dom |-> RenderAll(list),
                    status |-> "none",
                    text |-> IF list = <<>> THEN Nothing ELSE list[1].text]
  BY <1>1 DEF ListInit
<1>3. /\ executor = FALSE /\ known = FALSE /\ registered = FALSE /\ edited = {}
      /\ told = [l \in Listeners |-> TRUE] /\ OrderOK
  BY <1>1 DEF ListInit, OrderOK
<1>4. list \in Seq(Items) /\ Len(list) \in Nat /\ DOMAIN list = 1 .. Len(list)
  BY ListFacts
<1>5. PICK dom \in Seq(Nodes) : dom = RenderAll(list) /\ Shows(dom, list)
  <2>1. ASSUME NEW i \in 1 .. Len(list)
        PROVE  /\ Render(list[i]) \in Nodes
               /\ Render(list[i]).key = list[i].key /\ Render(list[i]).text = list[i].text
    BY ItemIsNode DEF Render
  <2>2. PICK dom : dom = RenderAll(list)
    OBVIOUS
  <2>3. dom = [i \in 1 .. Len(list) |-> Render(list[i])]
    BY <1>4, <2>2 DEF RenderAll
  <2>4. dom \in [1 .. Len(list) -> Nodes]
    BY <2>1, <2>3
  <2>5. dom \in Seq(Nodes) /\ Len(dom) = Len(list)
    BY <1>4, <2>4, MapIsSeq
  <2>6. Shows(dom, list)
    BY <2>1, <2>3, <2>5 DEF Shows
  <2>. QED
    BY <2>2, <2>5, <2>6
<1>6. PICK text \in Texts :
         text = IF list = <<>> THEN Nothing ELSE list[1].text
  <2>1. CASE list = <<>>
    BY <2>1 DEF Texts
  <2>2. CASE list # <<>>
    <3>1. list[1] \in Items
      <4>1. 1 \in 1 .. Len(list)
        BY <1>4, <2>2, EmptySeq
      <4>. QED
        BY <1>4, <4>1, ElementOfSeq
    <3>. QED
      BY <2>2, <3>1 DEF Texts
  <2>. QED
    BY <2>1, <2>2
<1>7. PICK no \in BOOLEAN : no = FALSE
  OBVIOUS
<1>8. page = [value |-> Nothing, items |-> list, same |-> no, dom |-> dom, status |-> "none",
              text |-> text]
  BY <1>2, <1>5, <1>6, <1>7
<1>9. page \in Pages /\ page.items = list /\ page.dom = dom /\ page.status = "none"
  BY <1>8 DEF Pages, Outcomes
<1>10. PageOK(page) /\ Whole(page)
  BY <1>2, <1>5, <1>9 DEF PageOK, Whole
<1>11. ExpressionIsCurrent /\ ListenersAreCurrent
  <2>1. \A i \in DOMAIN order : told[order[i]]
    BY <1>3 DEF OrderOK
  <2>. QED
    BY <1>3, <2>1 DEF ExpressionIsCurrent, ListenersAreCurrent
<1>12. ListTypes
  BY <1>3 DEF ListTypes
<1>. QED
  BY <1>3, <1>10, <1>11, <1>12 DEF ListInv

(* A step that leaves the page and the listeners alone. *)
LEMMA AloneKeeps ==
    ASSUME ListInv, UNCHANGED <<order, executor, registered, page, told, edited>>,
           known' \in BOOLEAN, registered => known'
    PROVE  ListInv'
  BY DEF ListInv, ListTypes, OrderOK, PageOK, Whole, ExpressionIsCurrent, ListenersAreCurrent

LEMMA ListStepOK == ListInv /\ [ListNext]_listVars => ListInv' /\ TouchedStay
<1>1. SUFFICES ASSUME ListInv, [ListNext]_listVars PROVE ListInv' /\ TouchedStay
  OBVIOUS
<1>2. /\ PageOK(page) /\ page \in Pages /\ page.value \in Lists \cup {Garbled, Nothing}
      /\ page.items \in Lists /\ page.dom \in Seq(Nodes)
      /\ page.text \in Texts
  BY <1>1 DEF ListInv, PageOK, Pages
<1>3. CASE Ready
  <2>1. PICK value \in Lists \cup {Garbled, Nothing} :
            value = IF page.value = Nothing THEN page.items ELSE page.value
    BY <1>2
  <2>2. PICK text \in Texts :
            /\ text = TextAfter(page.text, value, executor)
            /\ executor /\ Evaluates(value) => text = value[1].text
    <3>1. PICK text : text = TextAfter(page.text, value, executor)
      OBVIOUS
    <3>2. text \in Texts /\ (executor /\ Evaluates(value) => text = value[1].text)
      BY <1>2, <3>1, TextIs
    <3>. QED
      BY <3>1, <3>2
  <2>3. PICK q : q = page'
    OBVIOUS
  <2>4. q = [page EXCEPT !.value = value, !.text = text]
    BY <1>3, <2>1, <2>2, <2>3 DEF Ready
  <2>5. /\ q \in Pages /\ q.value = value /\ q.items = page.items /\ q.text = text
        /\ q.same = page.same /\ q.dom = page.dom /\ q.status = page.status
    BY <1>2, <2>4 DEF Pages
  <2>6. ~ registered /\ registered' /\ known' /\ UNCHANGED <<order, executor, told, edited>>
        /\ registered' \in BOOLEAN /\ known' \in BOOLEAN
    BY <1>3 DEF Ready, fixed
  <2>7. page.status = "none"
    BY <1>2, <2>6 DEF PageOK
  <2>8. PageOK(page)'
    BY <2>3, <2>5, <2>6, <2>7 DEF PageOK
  <2>9. ("items" \notin edited => Whole(page))'
    BY <1>1, <2>3, <2>5, <2>6, <2>7 DEF ListInv, Whole
  <2>10. ExpressionIsCurrent' /\ ListenersAreCurrent'
    BY <1>1, <2>2, <2>3, <2>5, <2>6 DEF ListInv, ExpressionIsCurrent, Evaluates, ListenersAreCurrent
  <2>11. ListTypes'
    BY <1>1, <2>6 DEF ListInv, ListTypes, OrderOK
  <2>12. TouchedStay
    BY <2>3, <2>5 DEF TouchedStay
  <2>. QED
    BY <2>6, <2>8, <2>9, <2>10, <2>11, <2>12 DEF ListInv
<1>4. ASSUME NEW list \in Lists, Set(list) PROVE ListInv' /\ TouchedStay
  <2>1. PICK shared \in BOOLEAN : Write(list, shared, FALSE, known)
    BY <1>4 DEF Set
  <2>2. PICK again \in BOOLEAN : Write(list, shared, again, known)
    BY <2>1
  <2>3. /\ UNCHANGED <<order, executor, registered, known>> /\ known \in BOOLEAN
        /\ registered => known
    BY <1>1, <1>4 DEF Set, fixed, booting, ListInv, ListTypes
  <2>. QED
    BY <1>1, <2>2, <2>3, WriteKeeps
<1>5. ASSUME NEW list \in Lists, EditInPlace(list) PROVE ListInv' /\ TouchedStay
  <2>1. PICK items \in Lists : items = IF page.same THEN list ELSE page.items
    BY <1>2
  <2>2. PICK q : q = page'
    OBVIOUS
  <2>3. q = [page EXCEPT !.value = list, !.items = items]
    BY <1>5, <2>1, <2>2 DEF EditInPlace
  <2>4. /\ q \in Pages /\ q.value = list /\ q.items = items /\ q.text = page.text
        /\ q.same = page.same /\ q.dom = page.dom /\ q.status = page.status
    BY <1>2, <2>3 DEF Pages
  <2>5. UNCHANGED <<order, executor, registered, known, told>>
    BY <1>5 DEF EditInPlace, fixed, booting
  <2>6. PageOK(page)'
    BY <1>2, <2>2, <2>4, <2>5 DEF PageOK
  <2>7. ("items" \notin edited => Whole(page))'
    <3>1. CASE page.same
      BY <1>5, <3>1 DEF EditInPlace
    <3>2. CASE ~ page.same
      <4>1. page.status # "reconciled" /\ items = page.items
        BY <1>2, <2>1, <3>2 DEF PageOK
      <4>2. edited \subseteq edited'
        BY <1>5 DEF EditInPlace
      <4>. QED
        BY <1>1, <2>2, <2>4, <4>1, <4>2 DEF ListInv, Whole
    <3>. QED
      BY <3>1, <3>2
  <2>8. ExpressionIsCurrent' /\ ListenersAreCurrent'
    <3>1. "value" \in edited'
      BY <1>5 DEF EditInPlace
    <3>. QED
      BY <1>1, <2>5, <3>1 DEF ListInv, ExpressionIsCurrent, ListenersAreCurrent
  <2>9. ListTypes' /\ (registered => known)'
    BY <1>1, <2>5 DEF ListInv, ListTypes, OrderOK
  <2>10. TouchedStay
    BY <2>2, <2>4 DEF TouchedStay
  <2>. QED
    BY <2>6, <2>7, <2>8, <2>9, <2>10 DEF ListInv
<1>6. ASSUME NEW list \in Lists, LoadSnapshot(list) PROVE ListInv' /\ TouchedStay
  <2>1. Write(list, FALSE, FALSE, TRUE)
    BY <1>6 DEF LoadSnapshot
  <2>2. PICK typed : typed /\ Write(list, FALSE, FALSE, typed)
    BY <2>1
  <2>3. PICK no \in BOOLEAN : Write(list, no, no, typed)
    BY <2>2
  <2>4. UNCHANGED <<order, executor, registered>> /\ known' \in BOOLEAN /\ known'
    BY <1>6 DEF LoadSnapshot, fixed
  <2>. QED
    BY <1>1, <2>2, <2>3, <2>4, WriteKeeps
<1>7. CASE SetAgain
  <2>1. PICK shared : Write(page.value, shared, TRUE, known)
    BY <1>7 DEF SetAgain
  <2>2. PICK again \in BOOLEAN : Write(page.value, shared, again, known)
    BY <2>1
  <2>3. /\ UNCHANGED <<order, executor, registered, known>> /\ known \in BOOLEAN
        /\ registered => known
    BY <1>1, <1>7 DEF SetAgain, fixed, booting, ListInv, ListTypes
  <2>4. page.value \in Lists
    BY <1>7 DEF SetAgain
  <2>. QED
    BY <1>1, <2>2, <2>3, <2>4, WriteKeeps
<1>8. ASSUME NEW i \in DOMAIN page.dom, Touch(i) PROVE ListInv' /\ TouchedStay
  <2>1. PICK q : q = page'
    OBVIOUS
  <2>2. /\ PageOK(q) /\ q.value = page.value /\ q.text = page.text
        /\ Whole(page) => Whole(q)
        /\ TouchedKeys(page.dom) \subseteq TouchedKeys(q.dom)
    BY <1>2, <1>8, <2>1, TouchKeeps DEF Touch
  <2>3. UNCHANGED <<order, executor, registered, known, told, edited>>
    BY <1>8 DEF Touch, fixed, booting
  <2>4. PageOK(page)'
    BY <2>1, <2>2, <2>3, PageStays
  <2>5. ("items" \notin edited => Whole(page))'
    BY <1>1, <2>1, <2>2, <2>3 DEF ListInv, Whole
  <2>6. ExpressionIsCurrent' /\ ListenersAreCurrent'
    BY <1>1, <2>1, <2>2, <2>3 DEF ListInv, ExpressionIsCurrent, Evaluates, ListenersAreCurrent
  <2>7. ListTypes' /\ (registered => known)'
    BY <1>1, <2>3 DEF ListInv, ListTypes, OrderOK
  <2>8. TouchedStay
    BY <2>1, <2>2 DEF TouchedStay
  <2>. QED
    BY <2>4, <2>5, <2>6, <2>7, <2>8 DEF ListInv
<1>9. CASE LoadExecutor
  <2>1. PICK text \in Texts :
            /\ text = TextAfter(page.text, page.value, registered)
            /\ registered /\ Evaluates(page.value) => text = page.value[1].text
    <3>1. PICK text : text = TextAfter(page.text, page.value, registered)
      OBVIOUS
    <3>2. text \in Texts /\ (registered /\ Evaluates(page.value) => text = page.value[1].text)
      BY <1>2, <3>1, TextIs
    <3>. QED
      BY <3>1, <3>2
  <2>2. PICK q : q = page'
    OBVIOUS
  <2>3. q = [page EXCEPT !.text = text]
    BY <1>9, <2>1, <2>2 DEF LoadExecutor, EvaluatedAll
  <2>4. /\ q \in Pages /\ q.value = page.value /\ q.items = page.items /\ q.text = text
        /\ q.same = page.same /\ q.dom = page.dom /\ q.status = page.status
    BY <1>2, <2>3 DEF Pages
  <2>5. /\ UNCHANGED <<order, registered, known, told, edited>>
        /\ executor' \in BOOLEAN
    BY <1>9 DEF LoadExecutor, fixed
  <2>6. PageOK(page)'
    BY <1>2, <2>2, <2>4, <2>5 DEF PageOK
  <2>7. ("items" \notin edited => Whole(page))'
    BY <1>1, <2>2, <2>4, <2>5 DEF ListInv, Whole
  <2>8. ExpressionIsCurrent' /\ ListenersAreCurrent'
    BY <1>1, <2>1, <2>2, <2>4, <2>5 DEF ListInv, ExpressionIsCurrent, Evaluates, ListenersAreCurrent
  <2>9. ListTypes' /\ (registered => known)'
    BY <1>1, <2>5 DEF ListInv, ListTypes, OrderOK
  <2>10. TouchedStay
    BY <2>2, <2>4 DEF TouchedStay
  <2>. QED
    BY <2>6, <2>7, <2>8, <2>9, <2>10 DEF ListInv
<1>10. CASE LoadManifest
  <2>1. UNCHANGED <<order, executor, registered, page, told, edited>>
    BY <1>10 DEF LoadManifest, fixed
  <2>2. known' \in BOOLEAN /\ (registered => known')
    BY <1>10 DEF LoadManifest
  <2>3. ListInv'
    BY <1>1, <2>1, <2>2, AloneKeeps
  <2>4. TouchedStay
    BY <2>1 DEF TouchedStay
  <2>. QED
    BY <2>3, <2>4
<1>11. CASE LoadFails
  <2>1. UNCHANGED <<order, executor, registered, page, told, edited>>
    BY <1>11 DEF LoadFails, fixed
  <2>2. known' \in BOOLEAN /\ (registered => known')
    BY <1>1, <1>11 DEF LoadFails, ListInv, ListTypes
  <2>3. ListInv'
    BY <1>1, <2>1, <2>2, AloneKeeps
  <2>4. TouchedStay
    BY <2>1 DEF TouchedStay
  <2>. QED
    BY <2>3, <2>4
<1>12. CASE UNCHANGED listVars
  <2>1. UNCHANGED <<order, executor, registered, page, told, edited>>
    BY <1>12 DEF listVars
  <2>2. known' \in BOOLEAN /\ (registered => known')
    BY <1>1, <1>12 DEF listVars, ListInv, ListTypes
  <2>3. ListInv'
    BY <1>1, <2>1, <2>2, AloneKeeps
  <2>4. TouchedStay
    BY <2>1 DEF TouchedStay
  <2>. QED
    BY <2>3, <2>4
<1>. QED
  BY <1>1, <1>3, <1>4, <1>5, <1>6, <1>7, <1>8, <1>9, <1>10, <1>11, <1>12, Zenon DEF ListNext

(* The inductive invariant holds of every behaviour. *)
THEOREM ListInvariant == ListSpec => []ListInv
<1>1. ListInit => ListInv
  BY ListInitOK
<1>2. ListInv /\ [ListNext]_listVars => ListInv'
  BY ListStepOK
<1>. QED
  BY <1>1, <1>2, PTL DEF ListSpec

(* Whatever lists are set, edited, refused and loaded in whatever order,   *)
(* the nodes show the whole list they were last reconciled with.           *)
THEOREM ListsStayWhole == ListSpec => []ListsAreWhole
<1>1. ListInv => ListsAreWhole
  <2>1. SUFFICES ASSUME ListInv, "items" \notin edited
                 PROVE  /\ Unique(page.items)
                        /\ [i \in DOMAIN page.dom |-> [page.dom[i] EXCEPT !.touched = FALSE]] = RenderAll(page.items)
                        /\ page.status = "reconciled" => page.items = page.value
    BY Zenon DEF ListsAreWhole
  <2>2. page.dom \in Seq(Nodes) /\ page.items \in Lists /\ Whole(page)
    BY <2>1 DEF ListInv, PageOK, Pages
  <2>. QED
    BY <2>2, ShowsAll DEF Whole
<1>. QED
  BY <1>1, ListInvariant, PTL

(* What the user did in an item's node is lost only with the item, by the  *)
(* list set or by one that was corrected within the same write.            *)
THEOREM NodesStayWithItems == ListSpec => ItemsKeepTheirNodes
<1>1. ListInv /\ [ListNext]_listVars =>
         [\A k \in TouchedKeys(page.dom) \ TouchedKeys(page'.dom) :
             \/ k \notin KeysOf(page'.value)
             \/ between' # Nothing /\ k \notin KeysOf(between')]_listVars
  BY ListStepOK DEF TouchedStay
<1>. QED
  BY <1>1, ListInvariant, PTL DEF ListSpec, ItemsKeepTheirNodes

(* An expression shows what it makes of the signal once the executor is    *)
(* there, whatever came before it.                                         *)
THEOREM ExpressionStaysCurrent == ListSpec => []ExpressionIsCurrent
<1>1. ListInv => ExpressionIsCurrent
  BY DEF ListInv
<1>. QED
  BY <1>1, ListInvariant, PTL

(* Only listeners subscribed after one that sets the signal while it is    *)
(* told can be left with an older value.                                   *)
THEOREM ListenersStayCurrent == ListSpec => []ListenersAreCurrent
<1>1. ListInv => ListenersAreCurrent
  BY DEF ListInv
<1>. QED
  BY <1>1, ListInvariant, PTL
===============================================================================
