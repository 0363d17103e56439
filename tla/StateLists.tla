------------------------------ MODULE StateLists ------------------------------
(***************************************************************************)
(* A list in the browser's state bridge and what shows it: a keyed list of *)
(* nodes (ax-state-each), an expression rows[0].text, and listeners.  The  *)
(* executor, the manifest and the snapshot arrive one after the other      *)
(* while the application sets the list.  A write may be refused for its    *)
(* type, and its list by the reconciliation, which must then leave the     *)
(* nodes as they were.  JavaScript lists are references: the list the      *)
(* nodes were last reconciled with may be the one the application edits.   *)
(***************************************************************************)
EXTENDS Integers, SequencesExt

CONSTANTS
    Lists,        \* what the signal may hold: sequences of [key, text]
    Broken,       \* a text the item's template refuses, as a URL it deems unsafe
    Garbled,      \* what String(list) makes of a list
    Nothing,
    Listeners,
    Corrector,    \* a listener that sets the signal itself ...
    Unwanted,     \* ... when it is told one of these,
    Correction    \* ... to this

Items == UNION {ToSet(list) : list \in Lists}

ASSUME ListsAssumption == Lists \subseteq Seq(Items) /\ IsFiniteSet(Listeners)
ASSUME NamesAssumption == Garbled \notin Lists /\ Nothing \notin Lists
ASSUME CorrectionAssumption ==
    Corrector \in Listeners /\ Unwanted \subseteq Lists \ {<<>>} /\ Correction \in Lists \ Unwanted

VARIABLES
    shape,        \* what the page brings: a template for items, a node for no items
    needs,        \* what it takes to validate an item: "nothing", "schemas", "encoder"
    encoder,      \* the browser has a TextEncoder
    order,        \* the listeners, in the order of their subscription
    boot,         \* what the bridge awaits
    executor,     \* the WASM executor is there
    schemas,      \* typeSchemas has the type of the items
    known,        \* types has the signal
    registered,   \* init has run
    page,         \* the signal and what shows it
    told,         \* [Listeners -> was it last told what the signal holds?]
    edited,       \* history: in place, the signal's "value", or the nodes' "items"
    between       \* history: the nodes' list between a write and its correction

listVars == <<shape, needs, encoder, order, boot, executor, schemas, known, registered, page,
              told, edited, between>>

fixed == <<shape, needs, encoder, order>>
booting == <<boot, executor, schemas, known, registered>>

KeysOf(list) == {item.key : item \in ToSet(list)}
Unique(list) == Cardinality(KeysOf(list)) = Len(list)
ItemOf(list, k) == CHOOSE item \in ToSet(list) : item.key = k

(* The nodes as the server renders them; the user has touched none. *)
Render(item) == [key |-> item.key, text |-> item.text, touched |-> FALSE]
RenderAll(list) == [i \in DOMAIN list |-> Render(list[i])]

(* Items that need nothing are, in a browser with an encoder, like those    *)
(* that need one, so that case is left to them.                            *)
ListInit ==
    \E list \in {l \in Lists : Unique(l) /\ \A item \in ToSet(l) : item.text # Broken} :
        /\ shape \in [template : {FALSE, list # <<>>}, empty : {FALSE, list = <<>>}]
        /\ needs \in {"nothing", "schemas", "encoder"}
        /\ encoder \in {FALSE, needs # "nothing"}
        /\ order \in {l \in [1..Cardinality(Listeners) -> Listeners] : ToSet(l) = Listeners}
        /\ boot = "executor"
        /\ executor = FALSE /\ schemas = FALSE /\ known = FALSE /\ registered = FALSE
        /\ page = [value |-> Nothing, items |-> list, same |-> FALSE, dom |-> RenderAll(list),
                   status |-> "none", text |-> IF list = <<>> THEN Nothing ELSE list[1].text]
        /\ told = [l \in Listeners |-> TRUE]
        /\ edited = {}
        /\ between = Nothing

-----------------------------------------------------------------------------
(* planEachReconciliation, by the executor or without it.  Objects are the *)
(* same in a list made from the old one ("shared"); else only their        *)
(* encoding tells that they are equal, which takes a TextEncoder.          *)
Kept(old, new) == KeysOf(old) \cap KeysOf(new)
Inserted(old, new) == KeysOf(new) \ KeysOf(old)
Changed(old, new, shared) ==
    {k \in Kept(old, new) : ItemOf(old, k) # ItemOf(new, k) \/ (~ encoder /\ ~ shared)}

(* reconcileEach, up to the point from which it does not turn back. *)
Outcome(p, new, shared) ==
    LET changed == Changed(p.items, new, shared)
        inserted == Inserted(p.items, new)
    IN
    CASE ~ Unique(p.items) \/ ~ Unique(new) -> "rejected"
      [] OTHER ->
           IF \/ new = <<>> /\ ~ shape.empty
              \/ ~ shape.template /\ changed \cup inserted # {}
              \/ \E k \in inserted \cup (changed \cap KeysOf(p.dom)) : ItemOf(new, k).text = Broken
             THEN "refresh-required" ELSE "reconciled"

(* The indices in S, from the first to the last. *)
InOrder(S) ==
    CHOOSE f \in [1..Cardinality(S) -> S] :
        \A i, j \in 1..Cardinality(S) : i < j => f[i] < f[j]

(* Wrong: a changed item gets a new node. *)
RewrittenAnew(node, item) == Render(item)

(* commitEachRenderWrites, on the node the item has. *)
Rewritten(node, item) == [node EXCEPT !.text = item.text]

(* The rest of reconcileEach: nodes are found by key, the last one if the  *)
(* list was edited in place and a key has several; the new list's nodes go *)
(* to the end, in its order, and whatever is not found stays.              *)
Reconciled(p, new, shared) ==
    LET node(k) == Max({i \in DOMAIN p.dom : p.dom[i].key = k})
        found == KeysOf(p.dom)
        taken == {node(k) : k \in found \cap KeysOf(p.items)}
        stale == InOrder(DOMAIN p.dom \ taken)
        present == InOrder({i \in DOMAIN new : new[i].key \in Inserted(p.items, new) \cup found})
        placed(item) ==
            IF item.key \in Inserted(p.items, new) THEN Render(item)
            ELSE IF item.key \in Changed(p.items, new, shared)
                   THEN Rewritten(p.dom[node(item.key)], item) ELSE p.dom[node(item.key)]
    IN  [i \in DOMAIN stale |-> p.dom[stale[i]]] \o [i \in DOMAIN present |-> placed(new[present[i]])]

(* Wrong: entry.items is set though the nodes are not. *)
ItemsAfterAlways(p, new, outcome) == new

ItemsAfter(p, new, outcome) == IF outcome = "reconciled" THEN new ELSE p.items

(* updateExpression: what cannot be evaluated leaves the old text. *)
Evaluates(value) == value \in Lists \ {<<>>}
TextAfter(text, value, runs) == IF runs /\ Evaluates(value) THEN value[1].text ELSE text

(* writeSignal up to notifySubscribers; "again" is the list it held. *)
Written(p, new, shared, again) ==
    IF ~ registered THEN [p EXCEPT !.value = new]
    ELSE LET outcome == Outcome(p, new, shared) IN
         [value |-> new,
          items |-> ItemsAfter(p, new, outcome),
          same |-> outcome = "reconciled" \/ (again /\ p.same),
          dom |-> IF outcome = "reconciled" THEN Reconciled(p, new, shared) ELSE p.dom,
          status |-> outcome,
          text |-> TextAfter(p.text, new, executor)]

(* Wrong: a listener's own write is not told to anybody. *)
CallsOnce(value) == [i \in DOMAIN order |-> [who |-> order[i], value |-> value]]

(* notifySubscribers: the calls of listeners, with those of the write that *)
(* the corrector makes within its own call.                                *)
Calls(value) ==
    LET plain(v) == [i \in DOMAIN order |-> [who |-> order[i], value |-> v]]
        corrector == CHOOSE i \in DOMAIN order : order[i] = Corrector
    IN  IF value \notin Unwanted THEN plain(value)
        ELSE SubSeq(plain(value), 1, corrector) \o plain(Correction)
                \o SubSeq(plain(value), corrector + 1, Len(order))

(* The last thing a listener is told. *)
LastTold(l, value) ==
    LET calls == Calls(value) IN calls[Max({i \in DOMAIN calls : calls[i].who = l})].value

(* castValue and validateStateValueForType.  A list set before the signal  *)
(* has a type is text.  An item that is a map needs nothing to be valid, a *)
(* record its schema; a list of unknown type must be encoded, for which    *)
(* the script has the browser's TextEncoder from the start.                *)
Valid(list) ==
    \/ needs = "nothing"
    \/ needs = "schemas" /\ (schemas \/ list = <<>>)
    \/ needs = "encoder" /\ encoder

(* writeSignal for a list, the signal's type being known or not. *)
Write(new, shared, again, typed) ==
    \/ /\ ~ typed
       /\ page' = Written(page, Garbled, FALSE, FALSE)
       /\ told' = [l \in Listeners |-> TRUE]
       /\ edited' = edited \ {"value"}
       /\ between' = Nothing
    \/ /\ typed /\ ~ Valid(new)
       /\ between' = Nothing
       /\ UNCHANGED <<page, told, edited>>
    \/ /\ typed /\ Valid(new)
       /\ LET written == Written(page, new, shared, again) IN
          IF new \in Unwanted
            THEN page' = Written(written, Correction, FALSE, FALSE) /\ between' = written.items
            ELSE page' = written /\ between' = Nothing
       /\ told' = [l \in Listeners |-> LastTold(l, new) = page'.value]
       /\ edited' = edited \ {"value"}

-----------------------------------------------------------------------------
(* init: the expression gives the signal its first value, unless it has    *)
(* one, which the list's nodes are not reconciled with.                    *)
Ready ==
    /\ ~ registered
    /\ registered' = TRUE /\ known' = TRUE
    /\ LET value == IF page.value = Nothing THEN page.items ELSE page.value IN
       page' = [page EXCEPT !.value = value, !.text = TextAfter(@, value, executor)]
    /\ between' = Nothing
    /\ UNCHANGED <<fixed, boot, executor, schemas, told, edited>>

(* The application sets the signal, to a list made from the old or anew. *)
Set(new) ==
    /\ \E shared \in BOOLEAN : Write(new, shared, FALSE, known)
    /\ UNCHANGED <<fixed, booting>>

(* It edits the list that the signal holds, that of the nodes at most once *)
(* (a bound on the nodes such edits leave behind) ...                      *)
EditInPlace(new) ==
    /\ page.value \in Lists \ {new}
    /\ page.same => "items" \notin edited
    /\ page' = [page EXCEPT !.value = new, !.items = IF page.same THEN new ELSE @]
    /\ edited' = edited \cup {"value"} \cup (IF page.same THEN {"items"} ELSE {})
    /\ between' = Nothing
    /\ UNCHANGED <<fixed, booting, told>>

(* ... and sets the signal to it. *)
SetAgain ==
    /\ page.value \in Lists
    /\ \E shared \in {TRUE, page.same} : Write(page.value, shared, TRUE, known)
    /\ UNCHANGED <<fixed, booting>>

(* The user opens, focuses or fills in the node of an item. *)
Touch(i) ==
    /\ i \in DOMAIN page.dom
    /\ page' = [page EXCEPT !.dom[i].touched = TRUE]
    /\ between' = Nothing
    /\ UNCHANGED <<fixed, booting, told, edited>>

(* Wrong: expressions wait for the next write. *)
EvaluatedLater == page

(* loadWasmExecutor, which makes a TextEncoder, evaluates every expression. *)
EvaluatedAll == [page EXCEPT !.text = TextAfter(@, page.value, registered)]

LoadExecutor ==
    /\ boot = "executor" /\ encoder
    /\ boot' = "manifest"
    /\ executor' = TRUE
    /\ page' = EvaluatedAll
    /\ between' = Nothing
    /\ UNCHANGED <<fixed, schemas, known, registered, told, edited>>

LoadManifest ==
    /\ boot = "manifest"
    /\ boot' = "snapshot"
    /\ schemas' = TRUE /\ known' = TRUE
    /\ between' = Nothing
    /\ UNCHANGED <<fixed, executor, registered, page, told, edited>>

(* hydrateSnapshot, which knows the signal's type. *)
LoadSnapshot(list) ==
    /\ boot = "snapshot"
    /\ boot' = "done"
    /\ known' = TRUE
    /\ Write(list, FALSE, FALSE, TRUE)
    /\ UNCHANGED <<fixed, executor, schemas, registered>>

(* What the bridge awaits fails, and it goes on without. *)
LoadFails ==
    /\ \/ boot = "executor" /\ boot' = "manifest"
       \/ boot = "manifest" /\ boot' = "snapshot"
       \/ boot = "snapshot" /\ boot' = "done"
    /\ between' = Nothing
    /\ UNCHANGED <<fixed, executor, schemas, known, registered, page, told, edited>>

ListNext ==
    \/ Ready
    \/ \E list \in Lists : Set(list) \/ EditInPlace(list) \/ LoadSnapshot(list)
    \/ SetAgain
    \/ \E i \in DOMAIN page.dom : Touch(i)
    \/ LoadExecutor \/ LoadManifest \/ LoadFails

ListSpec == ListInit /\ [][ListNext]_listVars

-----------------------------------------------------------------------------
(* However reconciliations were refused, the nodes show exactly the list   *)
(* they were last reconciled with, never a part of another; that is the    *)
(* signal's if the last write was accepted; and its keys are unique, so    *)
(* that a later list can be accepted.  A list edited in place while it is  *)
(* that of the nodes escapes the comparison, and may stay wrong for ever.  *)
ListsAreWhole ==
    "items" \notin edited =>
        /\ Unique(page.items)
        /\ [i \in DOMAIN page.dom |-> [page.dom[i] EXCEPT !.touched = FALSE]] = RenderAll(page.items)
        /\ page.status = "reconciled" => page.items = page.value

TouchedKeys(nodes) == {node.key : node \in {n \in ToSet(nodes) : n.touched}}

(* What the user did in the node of an item is lost only with the item, be *)
(* the list reordered, changed around it or refused.  The corrector's      *)
(* write may bring back an item with a node anew, if it was gone from the  *)
(* nodes' list after the write it corrects.                                *)
ItemsKeepTheirNodes ==
    [][\A k \in TouchedKeys(page.dom) \ TouchedKeys(page'.dom) :
          \/ k \notin KeysOf(page'.value)
          \/ between' # Nothing /\ k \notin KeysOf(between')]_listVars

(* With the executor, whenever it came, an expression shows what it makes  *)
(* of the signal, if it makes anything of it; a list edited in place is    *)
(* shown when it is set.                                                   *)
ExpressionIsCurrent ==
    executor /\ registered /\ Evaluates(page.value) /\ "value" \notin edited =>
        page.text = page.value[1].text

(* The last call of a listener tells it what the signal holds, unless it   *)
(* was subscribed after one that sets the signal from within its own call: *)
(* then the older value reaches it last.                                   *)
ListenersAreCurrent ==
    \A i \in DOMAIN order : ~ told[order[i]] => \E j \in 1..i - 1 : order[j] = Corrector
===============================================================================
