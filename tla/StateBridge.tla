----------------------------- MODULE StateBridge -----------------------------
(***************************************************************************)
(* The browser's state bridge: one signal, known by its key and, until the *)
(* manifest says so, by aliases that nothing connects with the key.        *)
(*                                                                         *)
(* The page is usable from the start; the bridge meanwhile awaits the WASM *)
(* executor and the manifest, then the snapshot, and the user edits, the   *)
(* application sets and subscribes, and the document becomes ready in      *)
(* between, in any order.  Every handler runs to its end: the interleaving *)
(* is that of tasks in a browser.  The signal is text, so that casting a   *)
(* value changes nothing; storage outlives the page.                       *)
(***************************************************************************)
EXTENDS Integers, Sequences, FiniteSetsExt

CONSTANTS
    Key,         \* the key of the signal in the manifest
    Aliases,     \* sequence: its other names, in the order they are bound
    NodeCount,   \* bound nodes of the page, in document order
    Listeners,   \* functions the application subscribes
    Values,      \* what the signal may hold
    Rendered,    \* the value in the rendered page
    Served,      \* the value in the server's snapshot
    Junk,        \* a stored text that is no value of the signal
    None,
    MaxLoads     \* bound on page loads

Others == {Aliases[i] : i \in DOMAIN Aliases}
Names == {Key} \cup Others
Nodes == 1..NodeCount

ASSUME NamesAssumption == Aliases \in Seq(Others) /\ Key \notin Others /\ None \notin Names
ASSUME ValuesAssumption ==
    /\ Rendered \in Values /\ Served \in Values
    /\ None \notin Values /\ Junk \notin Values \cup {None}
ASSUME BoundsAssumption == NodeCount \in Nat /\ MaxLoads \in Nat \ {0}

VARIABLES
    persisted,   \* the manifest gives the signal a storage capability
    boot,        \* what the bridge awaits: "manifest", "snapshot"; or "ready"
    bound,       \* the aliases are known
    capable,     \* storageCapabilities has the key
    settled,     \* storageManifestReady
    hydrated,    \* hydratedStorageSignals has the key
    state,       \* [Names -> value or None]
    raw,         \* [Nodes -> Names], the node's data-ax-signal
    bucket,      \* [Nodes -> Names or None], the bindings it is in
    shown,       \* [Nodes -> Values], what it shows
    pending,     \* pendingStorageWrites in insertion order
    subs,        \* [Names -> bucket of subscribers]
    wish,        \* [Listeners -> the name it was subscribed under, or None]
    stored,      \* the value in localStorage or sessionStorage
    loads,
    edit,        \* history: the last edit, None before the first
    lost         \* history: what got in the way of an edit or a node

vars == <<persisted, boot, bound, capable, settled, hydrated, state, raw, bucket, shown,
          pending, subs, wish, stored, loads, edit, lost>>

dom == <<raw, bucket>>
listening == <<subs, wish>>
booting == <<boot, bound, capable, settled, hydrated>>

Reasons == {"no manifest", "two names", "threw", "quota"}
Bucket == [kind : {"none", "set", "array"}, who : SUBSET Listeners]
NoBucket == [kind |-> "none", who |-> {}]

-----------------------------------------------------------------------------
(* canonicalSignal *)
Canonical(name) == IF bound THEN Key ELSE name

(* Map.set on an insertion-ordered map. *)
Put(map, name, value) ==
    IF \E i \in DOMAIN map : map[i].name = name
      THEN [i \in DOMAIN map |-> IF map[i].name = name THEN [map[i] EXCEPT !.value = value]
                                                       ELSE map[i]]
      ELSE Append(map, [name |-> name, value |-> value])

(* The nodes as writeSignal leaves them. *)
Rewritten(screen, s, v) == [n \in Nodes |-> IF bucket[n] = s THEN v ELSE screen[n]]

(* writeSignal for an edit: the state, the nodes in the signal's bucket,   *)
(* then persistStorageCapability, whose setItem may fail.                  *)
Edit(s, v, screen, ok) ==
    /\ state' = [state EXCEPT ![s] = v]
    /\ shown' = Rewritten(screen, s, v)
    /\ edit' = v
    /\ pending' = IF ~ capable /\ ~ settled THEN Put(pending, s, v) ELSE pending
    /\ stored' = IF capable /\ ok THEN v ELSE stored
    /\ lost' = lost \cup (IF capable /\ ~ ok THEN {"quota"} ELSE {})
                    \cup (IF ~ capable /\ settled THEN {"no manifest"} ELSE {})

-----------------------------------------------------------------------------
FreshPage ==
    /\ boot' = "manifest"
    /\ bound' = FALSE /\ capable' = FALSE /\ settled' = FALSE /\ hydrated' = FALSE
    /\ state' = [s \in Names |-> None]
    /\ raw' \in [Nodes -> Names]
    /\ bucket' = [n \in Nodes |-> None]
    /\ shown' = [n \in Nodes |-> Rendered]
    /\ pending' = <<>>
    /\ subs' = [s \in Names |-> NoBucket]
    /\ wish' = [l \in Listeners |-> None]
    /\ edit' = None
    /\ lost' = {}

Init ==
    /\ persisted \in BOOLEAN
    /\ boot = "manifest"
    /\ bound = FALSE /\ capable = FALSE /\ settled = FALSE /\ hydrated = FALSE
    /\ state = [s \in Names |-> None]
    /\ raw \in [Nodes -> Names]
    /\ bucket = [n \in Nodes |-> None]
    /\ shown = [n \in Nodes |-> Rendered]
    /\ pending = <<>>
    /\ subs = [s \in Names |-> NoBucket]
    /\ wish = [l \in Listeners |-> None]
    /\ stored \in {None, Junk}
    /\ loads = 1
    /\ edit = None
    /\ lost = {}

Reload ==
    /\ loads < MaxLoads
    /\ loads' = loads + 1
    /\ FreshPage
    /\ UNCHANGED <<persisted, stored>>

(* init, when the document is ready, registers every node in document      *)
(* order: a signal without a value takes the one its first node shows, and *)
(* a node shows the value of its signal from then on.                      *)
Ready ==
    LET name(n) == Canonical(raw[n])
        value(s) == LET named == {n \in Nodes : name(n) = s}
                    IN  IF state[s] # None \/ named = {} THEN state[s] ELSE shown[Min(named)]
    IN
    /\ \A n \in Nodes : bucket[n] = None
    /\ raw' = [n \in Nodes |-> name(n)]
    /\ state' = [s \in Names |-> value(s)]
    /\ shown' = [n \in Nodes |-> value(name(n))]
    /\ bucket' = [n \in Nodes |-> name(n)]
    /\ UNCHANGED <<persisted, booting, pending, listening, stored, loads, edit, lost>>

(* The user types v into n.  An event that does not change the signal is   *)
(* dropped; without a value the signal counts as having the node's.        *)
Type(n, v, ok) ==
    LET s == Canonical(raw[n])
        typed == [shown EXCEPT ![n] = v]
    IN
    /\ shown[n] # v
    /\ \/ /\ state[s] \in {None, v}
          /\ shown' = typed
          /\ UNCHANGED <<state, edit, pending, stored, lost>>
       \/ /\ state[s] \notin {None, v}
          /\ Edit(s, v, typed, ok)
    /\ UNCHANGED <<persisted, booting, dom, listening, loads>>

(* The application sets the signal by one of its names. *)
Set(name, v, ok) ==
    /\ Edit(Canonical(name), v, shown, ok)
    /\ UNCHANGED <<persisted, booting, dom, listening, loads>>

(* subscribe; on a bucket that rebinding turned into an array it throws. *)
Subscribe(l, name) ==
    LET s == Canonical(name) IN
    /\ wish[l] = None
    /\ subs[s].kind # "array"
    /\ \A t \in Names : l \notin subs[t].who
    /\ subs' = [subs EXCEPT ![s] = [kind |-> "set", who |-> @.who \cup {l}]]
    /\ wish' = [wish EXCEPT ![l] = s]
    /\ UNCHANGED <<persisted, booting, state, dom, shown, pending, stored, loads, edit, lost>>

(* The function subscribe returned: it remembers the name of that time. *)
Unsubscribe(l) ==
    LET s == wish[l] IN
    /\ wish[l] # None
    /\ wish' = [wish EXCEPT ![l] = None]
    /\ subs' = IF subs[s].kind = "set" THEN [subs EXCEPT ![s].who = @ \ {l}] ELSE subs
    /\ UNCHANGED <<persisted, booting, state, dom, shown, pending, stored, loads, edit, lost>>

-----------------------------------------------------------------------------
(* loadManifest without an answer gives the pending writes up; with an     *)
(* answer that lists no files it returns and they go on queueing.          *)
ManifestFails ==
    /\ boot = "manifest"
    /\ boot' = "snapshot"
    /\ \/ /\ settled' = TRUE
          /\ pending' = <<>>
          /\ lost' = IF edit # None THEN lost \cup {"no manifest"} ELSE lost
       \/ UNCHANGED <<settled, pending, lost>>
    /\ UNCHANGED <<persisted, bound, capable, hydrated, state, dom, shown, listening, stored,
                   loads, edit>>

(* rebindAliasedSignals goes through the aliases in order and throws at    *)
(* the first one with subscribers when the key has a Set of its own: the   *)
(* loop below stops within alias Stop, which is beyond the last if none.   *)
Stop ==
    LET throws == {i \in DOMAIN Aliases : subs[Aliases[i]].kind # "none" /\ subs[Key].kind = "set"}
    IN  IF throws = {} THEN Len(Aliases) + 1
        ELSE Min(throws)

Before(name, i) == \E j \in DOMAIN Aliases : Aliases[j] = name /\ j < i
UpTo(name, i) == \E j \in DOMAIN Aliases : Aliases[j] = name /\ j <= i

(* Wrong: subscribers stay where they are. *)
ReboundSubsNot == subs

(* moveSignalBucket(subscribers, ...): the key's bucket is made an array.  *)
ReboundSubs ==
    LET moved == {a \in Others : subs[a].kind # "none" /\ Before(a, Stop)} IN
    IF moved = {} THEN subs
    ELSE [s \in Names |->
            IF s = Key THEN [kind |-> "array",
                             who |-> subs[Key].who \cup UNION {subs[a].who : a \in moved}]
            ELSE IF s \in moved THEN NoBucket ELSE subs[s]]

(* Wrong: the key does not take a value over. *)
ReboundValueNot == state[Key]

(* The value of the key: its own, or that of the first alias with one. *)
ReboundValue ==
    LET valued == {i \in DOMAIN Aliases : state[Aliases[i]] # None /\ i < Stop} IN
    IF state[Key] # None \/ valued = {} THEN state[Key]
    ELSE state[Aliases[Min(valued)]]

(* rebindPendingStorageWrites: aliases are renamed in insertion order, so  *)
(* that the one inserted last wins, over a write under the key as well.    *)
PendingValue ==
    LET renamed == {i \in DOMAIN pending : pending[i].name # Key} IN
    IF renamed # {} THEN pending[Max(renamed)].value
    ELSE IF pending # <<>> THEN pending[1].value
    ELSE None

(* Before the manifest the signal had different values under two names. *)
NamesDisagree == \E s, t \in Names : None \notin {state[s], state[t]} /\ state[s] # state[t]

(* restoreStorageCapability finds a value that validateStoredValue accepts. *)
Restorable == persisted /\ stored \in Values

(* Wrong: whatever is stored is restored, over a pending write. *)
HydrateRestoring(value, nodes, ok) ==
    /\ hydrated' = Restorable
    /\ stored' = stored
    /\ state' = [state EXCEPT ![Key] = IF Restorable THEN stored ELSE value]
    /\ shown' = [n \in Nodes |-> IF Restorable /\ nodes[n] = Key THEN stored ELSE shown[n]]
    /\ lost' = lost

(* Wrong: a stored text is restored without validateStoredValue. *)
HydrateUnvalidated(value, nodes, ok) ==
    /\ hydrated' = (persisted /\ stored # None)
    /\ state' = [state EXCEPT ![Key] = IF persisted /\ stored # None THEN stored ELSE value]
    /\ UNCHANGED <<stored, shown, lost>>

(* hydrateStorageCapability: flush what is pending, else restore. *)
Hydrate(value, nodes, ok) ==
    LET flushed == persisted /\ PendingValue # None
        restored == PendingValue = None /\ Restorable
        v == IF restored THEN stored ELSE value
    IN
    /\ hydrated' = (restored \/ (flushed /\ ok))
    /\ stored' = IF flushed /\ ok THEN PendingValue ELSE stored
    /\ state' = [state EXCEPT ![Key] = v]
    /\ shown' = [n \in Nodes |-> IF restored /\ nodes[n] = Key THEN stored ELSE shown[n]]
    /\ lost' = lost \cup (IF flushed /\ ~ ok THEN {"quota"} ELSE {})
                    \cup (IF NamesDisagree THEN {"two names"} ELSE {})

(* hydrateManifest, to the end or to the exception. *)
Manifest(ok) ==
    LET nodes == [n \in Nodes |-> IF bucket[n] \in Others /\ UpTo(bucket[n], Stop)
                                    THEN Key ELSE bucket[n]]
        threw == Stop <= Len(Aliases)
    IN
    /\ boot = "manifest"
    /\ boot' = "snapshot"
    /\ bound' = TRUE
    /\ capable' = persisted
    /\ settled' = TRUE
    /\ pending' = <<>>
    /\ bucket' = nodes
    /\ raw' = [n \in Nodes |-> IF raw[n] \in Others /\ Before(raw[n], Stop) THEN Key ELSE raw[n]]
    /\ subs' = ReboundSubs
    /\ \/ /\ ~ threw
          /\ Hydrate(ReboundValue, nodes, ok)
       \/ /\ threw
          /\ state' = [state EXCEPT ![Key] = ReboundValue]
          /\ lost' = lost \cup {"threw"}
          /\ UNCHANGED <<hydrated, stored, shown>>
    /\ UNCHANGED <<persisted, wish, loads, edit>>

(* Wrong: the snapshot is written over what came from or went to storage. *)
SnapshotAlways(ok) ==
    /\ boot = "snapshot"
    /\ boot' = "ready"
    /\ state' = IF ok THEN [state EXCEPT ![Key] = Served] ELSE state
    /\ shown' = IF ok THEN Rewritten(shown, Key, Served) ELSE shown
    /\ UNCHANGED <<persisted, bound, capable, settled, hydrated, dom, pending, listening, stored,
                   loads, edit, lost>>

(* loadSnapshot: a signal that took its value from storage keeps it. *)
Snapshot(ok) ==
    /\ boot = "snapshot"
    /\ boot' = "ready"
    /\ \/ /\ ok /\ ~ hydrated
          /\ state' = [state EXCEPT ![Key] = Served]
          /\ shown' = Rewritten(shown, Key, Served)
       \/ /\ ~ ok \/ hydrated
          /\ UNCHANGED <<state, shown>>
    /\ UNCHANGED <<persisted, bound, capable, settled, hydrated, dom, pending, listening, stored,
                   loads, edit, lost>>

Next ==
    \/ Ready
    \/ \E n \in Nodes, v \in Values, ok \in BOOLEAN : Type(n, v, ok)
    \/ \E name \in Names, v \in Values, ok \in BOOLEAN : Set(name, v, ok)
    \/ \E l \in Listeners, name \in Names : Subscribe(l, name)
    \/ \E l \in Listeners : Unsubscribe(l)
    \/ ManifestFails
    \/ \E ok \in BOOLEAN : Manifest(ok)
    \/ \E ok \in BOOLEAN : Snapshot(ok)
    \/ Reload

Spec == Init /\ [][Next]_vars

-----------------------------------------------------------------------------
TypeOK ==
    /\ persisted \in BOOLEAN
    /\ boot \in {"manifest", "snapshot", "ready"}
    /\ bound \in BOOLEAN /\ capable \in BOOLEAN /\ settled \in BOOLEAN /\ hydrated \in BOOLEAN
    /\ state \in [Names -> Values \cup {None}]
    /\ raw \in [Nodes -> Names]
    /\ bucket \in [Nodes -> Names \cup {None}]
    /\ shown \in [Nodes -> Values]
    /\ pending \in Seq([name : Names, value : Values])
    /\ subs \in [Names -> Bucket]
    /\ wish \in [Listeners -> Names \cup {None}]
    /\ stored \in Values \cup {None, Junk}
    /\ loads \in 1..MaxLoads
    /\ edit \in Values \cup {None}
    /\ lost \subseteq Reasons

(* An edit of a persisted signal is in storage as soon as the manifest has *)
(* been dealt with, whenever it was made; it is lost only to a manifest    *)
(* that never came, to an edit under another name, to a full storage, or   *)
(* to the exception of rebindAliasedSignals.                               *)
EditsReachStorage ==
    settled /\ persisted /\ edit # None /\ lost = {} => stored = edit

(* Nothing but the snapshot takes an edit off the signal, and never from a *)
(* signal whose value went to storage or came from there at the manifest.  *)
OnlySnapshotOverwritesEdits ==
    [][edit # None /\ edit' = edit /\ loads' = loads /\ "two names" \notin lost'
          /\ state[Key] = edit /\ state'[Key] # edit =>
             boot = "snapshot" /\ ~ hydrated]_vars

(* A registered node shows the value of the signal whose bucket it is in,  *)
(* unless the signal had different values under two names when the         *)
(* manifest made them one (the code writes neither to the nodes of the     *)
(* other), or rebindAliasedSignals stopped half-way.                       *)
NodesOfOneNameShowTheirSignal ==
    lost \cap {"two names", "threw"} = {} =>
        \A n \in Nodes : bucket[n] # None => shown[n] = state[bucket[n]]

(* A listener follows the signal from the alias it was subscribed under to *)
(* the key, and is left alone once it has been unsubscribed, unless it was *)
(* subscribed when the bucket became an array.                             *)
ListenersFollowTheSignal ==
    /\ \A l \in Listeners : wish[l] # None /\ "threw" \notin lost =>
          l \in subs[Canonical(wish[l])].who
    /\ \A l \in Listeners, s \in Names : wish[l] = None /\ l \in subs[s].who =>
          subs[s].kind = "array"
=============================================================================
