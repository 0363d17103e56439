------------------------- MODULE StateBridge_proofs -------------------------
(***************************************************************************)
(* Proofs about module StateBridge, for any number of nodes, listeners,    *)
(* aliases, values and page loads.                                         *)
(***************************************************************************)
EXTENDS StateBridge, SequenceTheorems, WellFoundedInduction, TLAPS

(* The manifest is dealt with once, and only it makes storage capable.     *)
ManifestOnce ==
    /\ boot = "manifest" => ~ bound /\ ~ capable /\ ~ settled /\ ~ hydrated
    /\ capable => settled /\ persisted

(* A listener is in the bucket of the name it was subscribed under, or in  *)
(* one that rebinding turned into an array.                                *)
ListenersInTheirBucket ==
    \A s \in Names : \A l \in subs[s].who :
        subs[s].kind = "array" \/ (subs[s].kind = "set" /\ wish[l] = s)

(* A registered node is in the bucket that its attribute says.             *)
NodesInTheirBucket ==
    "threw" \notin lost => \A n \in Nodes : bucket[n] \in {None, Canonical(raw[n])}

(* Before the manifest, what is queued for storage is what the signal      *)
(* holds by that name, and the last edit is in the queue.                  *)
QueueIsCurrent ==
    boot = "manifest" =>
        /\ \A i \in DOMAIN pending : state[pending[i].name] = pending[i].value
        /\ edit # None => \E i \in DOMAIN pending : pending[i].value = edit

(* An edit that was lost to no cause has a storage to go to.               *)
EditsHaveStorage ==
    settled /\ persisted /\ edit # None /\ lost = {} => capable

IInv ==
    /\ TypeOK
    /\ ManifestOnce
    /\ ListenersInTheirBucket
    /\ NodesInTheirBucket
    /\ QueueIsCurrent
    /\ EditsHaveStorage
    /\ EditsReachStorage
    /\ NodesOfOneNameShowTheirSignal
    /\ ListenersFollowTheSignal

-----------------------------------------------------------------------------
(* A set of natural numbers has a least element, a bounded one a greatest. *)
LEMMA Least ==
    ASSUME NEW T, T \subseteq Nat, T # {}
    PROVE  Min(T) \in T /\ \A y \in T : Min(T) <= y
<1>1. OpToRel(<, Nat) = {ss \in Nat \X Nat : ss[1] < ss[2]}
  BY DEF OpToRel
<1>2. PICK x \in T : \A y \in T : ~ (<<y, x>> \in OpToRel(<, Nat))
  BY NatLessThanWellFounded, WFMin, Zenon
<1>3. \A y \in T : ~ (<<y, x>> \in {ss \in Nat \X Nat : ss[1] < ss[2]})
  BY <1>1, <1>2, Zenon
<1>4. \A m, n \in Nat : m < n => <<m, n>> \in {ss \in Nat \X Nat : ss[1] < ss[2]}
  OBVIOUS
<1>5. ASSUME NEW y \in T PROVE x <= y
  <2>1. x \in Nat /\ y \in Nat
    OBVIOUS
  <2>2. ~ (y < x)
    BY <1>3, <1>4, <2>1
  <2>. QED
    BY <2>1, <2>2
<1>. QED
  BY <1>5 DEF Min

LEMMA Greatest ==
    ASSUME NEW n \in Nat, NEW T, T \subseteq 1..n, T # {}
    PROVE  Max(T) \in T
<1>. DEFINE U == {n - i : i \in T}
<1>1. \A i \in T : i \in 1..n /\ n - i \in Nat
  OBVIOUS
<1>2. U \subseteq Nat /\ U # {}
  BY <1>1
<1>3. Min(U) \in U /\ \A u \in U : Min(U) <= u
  BY <1>2, Least
<1>4. PICK x \in T : Min(U) = n - x
  BY <1>3
<1>5. ASSUME NEW y \in T PROVE x >= y
  <2>1. n - y \in U
    OBVIOUS
  <2>2. n - x <= n - y
    BY <1>3, <1>4, <2>1
  <2>. QED
    BY <1>1, <2>2
<1>. QED
  BY <1>5 DEF Max

LEMMA AliasFacts ==
    /\ Len(Aliases) \in Nat /\ DOMAIN Aliases = 1 .. Len(Aliases)
    /\ \A i \in DOMAIN Aliases : Aliases[i] \in Others
    /\ \A a \in Others : \E i \in DOMAIN Aliases : Aliases[i] = a
    /\ Names = {Key} \cup Others /\ Key \notin Others
  BY NamesAssumption, LenProperties DEF Others, Names

(* The loop stops within an alias or goes through them all.                *)
LEMMA StopFacts ==
    /\ Stop \in 1 .. Len(Aliases) + 1
    /\ ~ (Stop <= Len(Aliases)) => \A a \in Others : Before(a, Stop) /\ UpTo(a, Stop)
<1>. DEFINE throws == {i \in DOMAIN Aliases : subs[Aliases[i]].kind # "none" /\ subs[Key].kind = "set"}
<1>1. throws # {} => Min(throws) \in throws
  <2>1. throws \subseteq Nat
    BY AliasFacts
  <2>. HIDE DEF throws
  <2>. QED
    BY <2>1, Least
<1>2. Stop \in 1 .. Len(Aliases) + 1
  <2>1. Stop = IF throws = {} THEN Len(Aliases) + 1 ELSE Min(throws)
    BY DEF Stop
  <2>2. throws # {} => Min(throws) \in 1 .. Len(Aliases)
    BY <1>1, AliasFacts
  <2>. HIDE DEF throws
  <2>. QED
    BY <2>1, <2>2, AliasFacts
<1>. QED
  BY <1>2, AliasFacts DEF Before, UpTo

(* A queued write replaces the one of its name and leaves the others.      *)
Writes == [name : Names, value : Values]

LEMMA PutFacts ==
    ASSUME NEW map \in Seq(Writes), NEW name \in Names, NEW value \in Values
    PROVE  /\ Put(map, name, value) \in Seq(Writes)
           /\ \E i \in DOMAIN Put(map, name, value) : Put(map, name, value)[i].value = value
           /\ \A i \in DOMAIN Put(map, name, value) :
                 \/ /\ Put(map, name, value)[i].name = name
                    /\ Put(map, name, value)[i].value = value
                 \/ /\ i \in DOMAIN map /\ Put(map, name, value)[i] = map[i]
                    /\ map[i].name # name
<1>0. Len(map) \in Nat /\ DOMAIN map = 1 .. Len(map) /\ \A i \in DOMAIN map : map[i] \in Writes
  BY LenProperties
<1>1. CASE \E i \in DOMAIN map : map[i].name = name
  <2>. DEFINE put == [i \in DOMAIN map |-> IF map[i].name = name THEN [map[i] EXCEPT !.value = value]
                                                             ELSE map[i]]
  <2>1. Put(map, name, value) = put
    BY <1>1 DEF Put
  <2>2. \A i \in DOMAIN map : put[i] \in Writes
    BY <1>0 DEF Writes
  <2>3. put \in Seq(Writes)
    BY <1>0, <2>2, SeqDef
  <2>4. \A i \in DOMAIN map : map[i].name = name => put[i].name = name /\ put[i].value = value
    BY <1>0 DEF Writes
  <2>5. \A i \in DOMAIN map : map[i].name # name => put[i] = map[i]
    OBVIOUS
  <2>6. DOMAIN put = DOMAIN map
    OBVIOUS
  <2>. QED
    BY <1>1, <2>1, <2>3, <2>4, <2>5, <2>6
<1>2. CASE ~ \E i \in DOMAIN map : map[i].name = name
  <2>. DEFINE new == [name |-> name, value |-> value]
  <2>1. Put(map, name, value) = Append(map, new) /\ new \in Writes
    BY <1>2 DEF Put, Writes
  <2>2. /\ Append(map, new) \in Seq(Writes)
        /\ Len(Append(map, new)) = Len(map) + 1
        /\ DOMAIN Append(map, new) = 1 .. Len(map) + 1
        /\ Append(map, new)[Len(map) + 1] = new
        /\ \A i \in 1 .. Len(map) : Append(map, new)[i] = map[i]
    BY <1>0, <2>1, AppendProperties, LenProperties
  <2>3. new.name = name /\ new.value = value
    OBVIOUS
  <2>. QED
    BY <1>0, <1>2, <2>1, <2>2, <2>3
<1>. QED
  BY <1>1, <1>2

(* What goes to storage at the manifest was queued for it.                 *)
LEMMA PendingFacts ==
    ASSUME pending \in Seq(Writes)
    PROVE  /\ pending = <<>> => PendingValue = None
           /\ pending # <<>> => \E i \in DOMAIN pending : PendingValue = pending[i].value
           /\ PendingValue \in Values \cup {None}
<1>0. Len(pending) \in Nat /\ DOMAIN pending = 1 .. Len(pending)
      /\ \A i \in DOMAIN pending : pending[i] \in Writes
  BY LenProperties
<1>1. pending = <<>> => PendingValue = None
  BY <1>0, EmptySeq DEF PendingValue
<1>2. pending # <<>> => \E i \in DOMAIN pending : PendingValue = pending[i].value
  <2>. DEFINE renamed == {i \in DOMAIN pending : pending[i].name # Key}
  <2>1. renamed # {} => Max(renamed) \in renamed
    BY <1>0, Greatest
  <2>2. pending # <<>> => 1 \in DOMAIN pending
    BY <1>0, EmptySeq
  <2>. QED
    BY <2>1, <2>2 DEF PendingValue
<1>. QED
  BY <1>0, <1>1, <1>2 DEF Writes

(* The value of the key after rebinding is that of one of the names.       *)
LEMMA ReboundValueFacts ==
    ASSUME state \in [Names -> Values \cup {None}]
    PROVE  /\ ReboundValue \in Values \cup {None}
           /\ state[Key] # None => ReboundValue = state[Key]
           /\ ~ (Stop <= Len(Aliases)) =>
                 /\ \E t \in Names : ReboundValue = state[t]
                 /\ (\E s \in Names : state[s] # None) => ReboundValue # None
<1>. DEFINE valued == {i \in DOMAIN Aliases : state[Aliases[i]] # None /\ i < Stop}
<1>0. valued \subseteq Nat
  BY AliasFacts
<1>1. valued # {} => Min(valued) \in valued
  <2>. HIDE DEF valued
  <2>. QED
    BY <1>0, Least
<1>2. ReboundValue = IF state[Key] # None \/ valued = {} THEN state[Key] ELSE state[Aliases[Min(valued)]]
  BY DEF ReboundValue
<1>3. \E t \in Names : ReboundValue = state[t]
  BY <1>1, <1>2, AliasFacts
<1>4. ASSUME ~ (Stop <= Len(Aliases)), NEW s \in Names, state[s] # None
      PROVE  ReboundValue # None
  <2>1. CASE state[Key] # None
    BY <1>2, <2>1
  <2>2. CASE state[Key] = None
    <3>1. PICK i \in DOMAIN Aliases : Aliases[i] = s
      BY <1>4, <2>2, AliasFacts
    <3>2. i \in valued
      BY <1>4, <3>1, StopFacts, AliasFacts
    <3>. QED
      BY <1>1, <1>2, <3>2, <2>2
  <2>. QED
    BY <2>1, <2>2
<1>. QED
  BY <1>2, <1>3, <1>4

-----------------------------------------------------------------------------
(* Types.                                                                  *)
LEMMA FreshTypes ==
    /\ [s \in Names |-> None] \in [Names -> Values \cup {None}]
    /\ [n \in Nodes |-> None] \in [Nodes -> Names \cup {None}]
    /\ [n \in Nodes |-> Rendered] \in [Nodes -> Values]
    /\ <<>> \in Seq([name : Names, value : Values])
    /\ [s \in Names |-> NoBucket] \in [Names -> Bucket]
    /\ [l \in Listeners |-> None] \in [Listeners -> Names \cup {None}]
  BY ValuesAssumption, EmptySeq DEF Bucket, NoBucket

LEMMA InitTypeOK == Init => TypeOK
<1>. SUFFICES ASSUME Init PROVE TypeOK
  OBVIOUS
<1>1. loads \in 1..MaxLoads
  BY BoundsAssumption DEF Init
<1>2. /\ state \in [Names -> Values \cup {None}]
      /\ bucket \in [Nodes -> Names \cup {None}]
      /\ shown \in [Nodes -> Values]
      /\ pending \in Seq([name : Names, value : Values])
      /\ subs \in [Names -> Bucket]
      /\ wish \in [Listeners -> Names \cup {None}]
  BY FreshTypes, Zenon DEF Init
<1>. QED
  BY <1>1, <1>2 DEF Init, TypeOK

LEMMA EditTypes ==
    ASSUME TypeOK, NEW s \in Names, NEW v \in Values, NEW screen \in [Nodes -> Values],
           NEW ok \in BOOLEAN, Edit(s, v, screen, ok)
    PROVE  /\ state' \in [Names -> Values \cup {None}]
           /\ shown' \in [Nodes -> Values]
           /\ pending' \in Seq([name : Names, value : Values])
           /\ stored' \in Values \cup {None, Junk}
           /\ edit' \in Values \cup {None}
           /\ lost' \subseteq Reasons
<1>1. pending' \in Seq([name : Names, value : Values])
  BY PutFacts DEF Edit, TypeOK, Writes
<1>2. lost' \subseteq Reasons
  BY DEF Edit, TypeOK, Reasons
<1>. QED
  BY <1>1, <1>2 DEF Edit, TypeOK, Rewritten

LEMMA CanonicalName ==
    ASSUME NEW name \in Names
    PROVE  Canonical(name) \in Names
  BY DEF Canonical, Names

LEMMA ReadyValues ==
    ASSUME TypeOK, NEW s \in Names, NEW named,
           named = {n \in Nodes : Canonical(raw[n]) = s}
    PROVE  /\ (IF state[s] # None \/ named = {} THEN state[s] ELSE shown[Min(named)])
                 \in Values \cup {None}
           /\ named # {} =>
                 (IF state[s] # None \/ named = {} THEN state[s] ELSE shown[Min(named)]) \in Values
<1>1. named \subseteq Nat /\ named \subseteq Nodes
  BY BoundsAssumption DEF Nodes
<1>2. named # {} => Min(named) \in Nodes
  BY <1>1, Least
<1>. QED
  BY <1>2 DEF TypeOK

LEMMA ReadyTypes ==
    ASSUME TypeOK, Ready
    PROVE  /\ state' \in [Names -> Values \cup {None}]
           /\ raw' \in [Nodes -> Names]
           /\ bucket' \in [Nodes -> Names]
           /\ shown' \in [Nodes -> Values]
<1>. DEFINE name(n) == Canonical(raw[n])
            named(s) == {n \in Nodes : name(n) = s}
            value(s) == IF state[s] # None \/ named(s) = {} THEN state[s] ELSE shown[Min(named(s))]
<1>1. \A s \in Names : value(s) \in Values \cup {None} /\ (named(s) # {} => value(s) \in Values)
  BY ReadyValues
<1>2. \A n \in Nodes : name(n) \in Names /\ named(name(n)) # {}
  BY CanonicalName DEF TypeOK
<1>3. /\ raw' = [n \in Nodes |-> name(n)]
      /\ state' = [s \in Names |-> value(s)]
      /\ shown' = [n \in Nodes |-> value(name(n))]
      /\ bucket' = [n \in Nodes |-> name(n)]
  BY DEF Ready
<1>. HIDE DEF name, named, value
<1>. QED
  BY <1>1, <1>2, <1>3

LEMMA HydrateTypes ==
    ASSUME TypeOK, NEW value \in Values \cup {None}, NEW nodes, NEW ok \in BOOLEAN,
           Hydrate(value, nodes, ok)
    PROVE  /\ hydrated' \in BOOLEAN
           /\ stored' \in Values \cup {None, Junk}
           /\ state' \in [Names -> Values \cup {None}]
           /\ shown' \in [Nodes -> Values]
           /\ lost' \subseteq Reasons
<1>0. pending \in Seq(Writes)
  BY DEF TypeOK, Writes
<1>1. PendingValue \in Values \cup {None}
  BY <1>0, PendingFacts
<1>2. hydrated' \in BOOLEAN
  BY Zenon DEF Hydrate
<1>3. stored' \in Values \cup {None, Junk}
  BY <1>1 DEF Hydrate, TypeOK
<1>4. state' \in [Names -> Values \cup {None}]
  BY DEF Hydrate, TypeOK, Restorable
<1>5. shown' \in [Nodes -> Values]
  BY DEF Hydrate, TypeOK, Restorable
<1>6. lost' \subseteq Reasons
  BY DEF Hydrate, TypeOK, Reasons
<1>. QED
  BY <1>2, <1>3, <1>4, <1>5, <1>6

LEMMA ReboundSubsType ==
    ASSUME TypeOK
    PROVE  ReboundSubs \in [Names -> Bucket]
  BY AliasFacts DEF ReboundSubs, TypeOK, Bucket, NoBucket

LEMMA ManifestTypes ==
    ASSUME TypeOK, NEW ok \in BOOLEAN, Manifest(ok)
    PROVE  TypeOK'
<1>. DEFINE nodes == [n \in Nodes |-> IF bucket[n] \in Others /\ UpTo(bucket[n], Stop)
                                    THEN Key ELSE bucket[n]]
<1>1. /\ persisted' = persisted /\ boot' = "snapshot" /\ bound' = TRUE /\ capable' = persisted
      /\ settled' = TRUE /\ pending' = <<>> /\ bucket' = nodes /\ subs' = ReboundSubs
      /\ raw' = [n \in Nodes |-> IF raw[n] \in Others /\ Before(raw[n], Stop) THEN Key ELSE raw[n]]
      /\ wish' = wish /\ loads' = loads /\ edit' = edit
  BY DEF Manifest
<1>2. /\ hydrated' \in BOOLEAN
      /\ stored' \in Values \cup {None, Junk}
      /\ state' \in [Names -> Values \cup {None}]
      /\ shown' \in [Nodes -> Values]
      /\ lost' \subseteq Reasons
  <2>1. ReboundValue \in Values \cup {None}
    BY ReboundValueFacts DEF TypeOK
  <2>2. \/ Hydrate(ReboundValue, nodes, ok)
        \/ /\ state' = [state EXCEPT ![Key] = ReboundValue]
           /\ lost' = lost \cup {"threw"}
           /\ UNCHANGED <<hydrated, stored, shown>>
    BY Zenon DEF Manifest
  <2>3. CASE Hydrate(ReboundValue, nodes, ok)
    BY <2>1, <2>3, HydrateTypes
  <2>4. CASE /\ state' = [state EXCEPT ![Key] = ReboundValue]
             /\ lost' = lost \cup {"threw"}
             /\ UNCHANGED <<hydrated, stored, shown>>
    BY <2>1, <2>4 DEF TypeOK, Reasons
  <2>. QED
    BY <2>2, <2>3, <2>4
<1>3. raw' \in [Nodes -> Names] /\ bucket' \in [Nodes -> Names \cup {None}]
  BY <1>1, AliasFacts DEF TypeOK
<1>4. subs' \in [Names -> Bucket]
  BY <1>1, ReboundSubsType
<1>5. pending' \in Seq([name : Names, value : Values])
  BY <1>1, EmptySeq
<1>. QED
  BY <1>1, <1>2, <1>3, <1>4, <1>5 DEF TypeOK

LEMMA NextTypeOK == TypeOK /\ [Next]_vars => TypeOK'
<1>. SUFFICES ASSUME TypeOK, [Next]_vars PROVE TypeOK'
  OBVIOUS
<1>1. CASE Ready
  BY <1>1, ReadyTypes DEF Ready, TypeOK, booting, listening
<1>2. ASSUME NEW n \in Nodes, NEW v \in Values, NEW ok \in BOOLEAN, Type(n, v, ok)
      PROVE  TypeOK'
  <2>. DEFINE s == Canonical(raw[n])
              typed == [shown EXCEPT ![n] = v]
  <2>1. s \in Names /\ typed \in [Nodes -> Values]
    BY CanonicalName DEF TypeOK
  <2>2. UNCHANGED <<persisted, booting, dom, listening, loads>>
    BY <1>2 DEF Type
  <2>3. CASE shown' = typed /\ UNCHANGED <<state, edit, pending, stored, lost>>
    BY <2>1, <2>2, <2>3 DEF TypeOK, booting, dom, listening
  <2>4. CASE Edit(s, v, typed, ok)
    <3>. HIDE DEF s, typed
    <3>1. /\ state' \in [Names -> Values \cup {None}]
          /\ shown' \in [Nodes -> Values]
          /\ pending' \in Seq([name : Names, value : Values])
          /\ stored' \in Values \cup {None, Junk}
          /\ edit' \in Values \cup {None}
          /\ lost' \subseteq Reasons
      BY <2>1, <2>4, EditTypes
    <3>. QED
      BY <2>2, <3>1 DEF TypeOK, booting, dom, listening
  <2>. QED
    BY <1>2, <2>3, <2>4 DEF Type
<1>3. ASSUME NEW name \in Names, NEW v \in Values, NEW ok \in BOOLEAN, Set(name, v, ok)
      PROVE  TypeOK'
  <2>1. Canonical(name) \in Names /\ shown \in [Nodes -> Values]
    BY CanonicalName DEF TypeOK
  <2>2. UNCHANGED <<persisted, booting, dom, listening, loads>> /\ Edit(Canonical(name), v, shown, ok)
    BY <1>3 DEF Set
  <2>3. /\ state' \in [Names -> Values \cup {None}]
        /\ shown' \in [Nodes -> Values]
        /\ pending' \in Seq([name : Names, value : Values])
        /\ stored' \in Values \cup {None, Junk}
        /\ edit' \in Values \cup {None}
        /\ lost' \subseteq Reasons
    BY <2>1, <2>2, EditTypes
  <2>. QED
    BY <2>2, <2>3 DEF TypeOK, booting, dom, listening
<1>4. ASSUME NEW l \in Listeners, NEW name \in Names, Subscribe(l, name)
      PROVE  TypeOK'
  <2>1. Canonical(name) \in Names
    BY CanonicalName
  <2>. QED
    BY <1>4, <2>1 DEF Subscribe, TypeOK, Bucket, booting, dom
<1>5. ASSUME NEW l \in Listeners, Unsubscribe(l)
      PROVE  TypeOK'
  BY <1>5 DEF Unsubscribe, TypeOK, Bucket, booting, dom
<1>6. CASE ManifestFails
  BY <1>6, EmptySeq DEF ManifestFails, TypeOK, dom, listening, Reasons
<1>7. ASSUME NEW ok \in BOOLEAN, Manifest(ok)
      PROVE  TypeOK'
  BY <1>7, ManifestTypes
<1>8. ASSUME NEW ok \in BOOLEAN, Snapshot(ok)
      PROVE  TypeOK'
  BY <1>8, ValuesAssumption, AliasFacts DEF Snapshot, TypeOK, dom, listening, Rewritten
<1>9. CASE Reload
  <2>1. loads' \in 1..MaxLoads /\ UNCHANGED <<persisted, stored>> /\ FreshPage
    BY <1>9, BoundsAssumption DEF Reload, TypeOK
  <2>. QED
    BY <2>1, FreshTypes DEF FreshPage, TypeOK
<1>10. CASE UNCHANGED vars
  BY <1>10 DEF vars, TypeOK
<1>. QED
  BY <1>1, <1>2, <1>3, <1>4, <1>5, <1>6, <1>7, <1>8, <1>9, <1>10 DEF Next

-----------------------------------------------------------------------------
(* The order of the manifest and what it makes known.                      *)
LEMMA NextManifestOnce == TypeOK /\ ManifestOnce /\ [Next]_vars => ManifestOnce'
<1>. SUFFICES ASSUME TypeOK, ManifestOnce, [Next]_vars PROVE ManifestOnce'
  OBVIOUS
<1>1. CASE UNCHANGED <<persisted, booting>>
  BY <1>1 DEF ManifestOnce, booting
<1>2. CASE ManifestFails
  BY <1>2 DEF ManifestFails, ManifestOnce
<1>3. ASSUME NEW ok \in BOOLEAN, Manifest(ok)
      PROVE  ManifestOnce'
  BY <1>3 DEF Manifest, ManifestOnce
<1>4. ASSUME NEW ok \in BOOLEAN, Snapshot(ok)
      PROVE  ManifestOnce'
  BY <1>4 DEF Snapshot, ManifestOnce
<1>5. CASE Reload
  BY <1>5 DEF Reload, FreshPage, ManifestOnce
<1>. QED
  BY <1>1, <1>2, <1>3, <1>4, <1>5 DEF Next, Ready, Type, Set, Subscribe, Unsubscribe, vars, booting

(* Listeners.                                                              *)
Heard == ListenersInTheirBucket /\ ListenersFollowTheSignal

LEMMA SubscribeHeard ==
    ASSUME TypeOK, Heard, NEW l \in Listeners, NEW name \in Names, Subscribe(l, name)
    PROVE  Heard'
<1>. DEFINE s == Canonical(name)
<1>1. /\ s \in Names /\ wish[l] = None /\ subs[s].kind # "array"
      /\ \A t \in Names : l \notin subs[t].who
      /\ subs' = [subs EXCEPT ![s] = [kind |-> "set", who |-> subs[s].who \cup {l}]]
      /\ wish' = [wish EXCEPT ![l] = s]
      /\ bound' = bound /\ lost' = lost
  BY CanonicalName DEF Subscribe, booting
<1>2. \A t \in Names : Canonical(t)' = Canonical(t) /\ Canonical(t) \in Names
  BY <1>1, CanonicalName DEF Canonical
<1>3. Canonical(s) = s
  BY DEF Canonical
<1>. HIDE DEF s
<1>4. /\ subs'[s].kind = "set" /\ subs'[s].who = subs[s].who \cup {l}
      /\ \A t \in Names \ {s} : subs'[t] = subs[t]
  BY <1>1 DEF TypeOK
<1>5. wish'[l] = s /\ \A k \in Listeners \ {l} : wish'[k] = wish[k]
  BY <1>1 DEF TypeOK
<1>6. ListenersInTheirBucket'
  <2>1. ASSUME NEW t \in Names, NEW k \in subs'[t].who
        PROVE  subs'[t].kind = "array" \/ (subs'[t].kind = "set" /\ wish'[k] = t)
    <3>1. k \in Listeners
      BY <1>1, <1>4, <2>1 DEF TypeOK, Bucket
    <3>2. CASE k = l
      BY <1>1, <1>4, <1>5, <2>1, <3>2
    <3>3. CASE k # l
      <4>1. k \in subs[t].who
        BY <1>4, <2>1, <3>3
      <4>. QED
        BY <1>1, <1>4, <1>5, <3>1, <3>3, <4>1 DEF Heard, ListenersInTheirBucket
    <3>. QED
      BY <3>2, <3>3
  <2>. QED
    BY <2>1 DEF ListenersInTheirBucket
<1>7. ListenersFollowTheSignal'
  <2>1. ASSUME NEW k \in Listeners, wish'[k] # None, "threw" \notin lost
        PROVE  k \in subs'[Canonical(wish'[k])].who
    <3>1. CASE k = l
      BY <1>3, <1>4, <1>5, <3>1
    <3>2. CASE k # l
      <4>1. wish'[k] = wish[k] /\ wish[k] \in Names
        BY <1>5, <2>1, <3>2 DEF TypeOK
      <4>2. k \in subs[Canonical(wish[k])].who
        BY <2>1, <4>1 DEF Heard, ListenersFollowTheSignal
      <4>. QED
        BY <1>2, <1>4, <4>1, <4>2
    <3>. QED
      BY <3>1, <3>2
  <2>2. \A k \in Listeners : wish'[k] # None => wish'[k] \in Names
    BY <1>1, <1>5 DEF TypeOK
  <2>3. ASSUME NEW k \in Listeners, NEW t \in Names, wish'[k] = None, k \in subs'[t].who
        PROVE  subs'[t].kind = "array"
    <3>1. k # l
      BY <1>1, <1>5, <2>3, NamesAssumption
    <3>2. k \in subs[t].who /\ wish[k] = None
      BY <1>4, <1>5, <2>3, <3>1
    <3>3. subs[t].kind = "array"
      BY <3>2 DEF Heard, ListenersFollowTheSignal
    <3>. QED
      BY <1>1, <1>4, <3>3
  <2>. QED
    BY <1>1, <1>2, <2>1, <2>2, <2>3 DEF ListenersFollowTheSignal
<1>. QED
  BY <1>6, <1>7 DEF Heard

LEMMA UnsubscribeHeard ==
    ASSUME TypeOK, Heard, NEW l \in Listeners, Unsubscribe(l)
    PROVE  Heard'
<1>. DEFINE s == wish[l]
<1>1. /\ s \in Names
      /\ wish' = [wish EXCEPT ![l] = None]
      /\ subs' = IF subs[s].kind = "set" THEN [subs EXCEPT ![s].who = @ \ {l}] ELSE subs
      /\ bound' = bound /\ lost' = lost
  BY DEF Unsubscribe, TypeOK, booting
<1>2. \A t \in Names : Canonical(t)' = Canonical(t) /\ Canonical(t) \in Names
  BY <1>1, CanonicalName DEF Canonical
<1>3. /\ \A t \in Names : subs'[t].kind = subs[t].kind
      /\ \A t \in Names : subs'[t].who \subseteq subs[t].who /\ subs[t].who \ {l} \subseteq subs'[t].who
      /\ subs[s].kind = "set" => l \notin subs'[s].who
  BY <1>1 DEF TypeOK, Bucket
<1>4. wish'[l] = None /\ \A k \in Listeners \ {l} : wish'[k] = wish[k]
  BY <1>1 DEF TypeOK
<1>5. \A t \in Names : subs[t].who \subseteq Listeners
  BY DEF TypeOK, Bucket
<1>6. \A t \in Names : l \in subs'[t].who => subs'[t].kind = "array"
  BY <1>3 DEF Heard, ListenersInTheirBucket
<1>7. ListenersInTheirBucket'
  BY <1>3, <1>4, <1>5, <1>6 DEF Heard, ListenersInTheirBucket
<1>8. ListenersFollowTheSignal'
  <2>1. ASSUME NEW k \in Listeners, wish'[k] # None, "threw" \notin lost
        PROVE  k \in subs'[Canonical(wish'[k])].who
    <3>1. k # l /\ wish'[k] = wish[k] /\ wish[k] \in Names
      BY <1>4, <2>1 DEF TypeOK
    <3>2. k \in subs[Canonical(wish[k])].who
      BY <2>1, <3>1 DEF Heard, ListenersFollowTheSignal
    <3>. QED
      BY <1>2, <1>3, <3>1, <3>2
  <2>2. ASSUME NEW k \in Listeners, NEW t \in Names, wish'[k] = None, k \in subs'[t].who
        PROVE  subs'[t].kind = "array"
    <3>1. CASE k = l
      BY <1>6, <2>2, <3>1
    <3>2. CASE k # l
      <4>1. wish[k] = None /\ k \in subs[t].who
        BY <1>3, <1>4, <2>2, <3>2
      <4>. QED
        BY <1>3, <4>1 DEF Heard, ListenersFollowTheSignal
    <3>. QED
      BY <3>1, <3>2
  <2>3. \A k \in Listeners : wish'[k] # None => wish'[k] \in Names
    BY <1>4 DEF TypeOK
  <2>. QED
    BY <1>1, <1>2, <2>1, <2>2, <2>3 DEF ListenersFollowTheSignal
<1>. QED
  BY <1>7, <1>8 DEF Heard

(* What a manifest that arrives does to the rest, up to the exception.     *)
LEMMA ManifestSteps ==
    ASSUME NEW ok \in BOOLEAN, Manifest(ok),
           NEW nodes, nodes = [n \in Nodes |-> IF bucket[n] \in Others /\ UpTo(bucket[n], Stop)
                                                 THEN Key ELSE bucket[n]]
    PROVE  /\ boot = "manifest" /\ bound' = TRUE /\ capable' = persisted /\ settled' = TRUE
           /\ boot' = "snapshot" /\ bucket' = nodes
           /\ \/ ~ (Stop <= Len(Aliases)) /\ Hydrate(ReboundValue, nodes, ok)
              \/ /\ "threw" \in lost' /\ state' = [state EXCEPT ![Key] = ReboundValue]
                 /\ UNCHANGED <<hydrated, stored, shown>>
           /\ UNCHANGED <<persisted, wish, loads, edit>>
<1>1. \/ ~ (Stop <= Len(Aliases)) /\ Hydrate(ReboundValue, nodes, ok)
      \/ /\ lost' = lost \cup {"threw"} /\ state' = [state EXCEPT ![Key] = ReboundValue]
         /\ UNCHANGED <<hydrated, stored, shown>>
  BY Zenon DEF Manifest
<1>. QED
  BY <1>1 DEF Manifest

LEMMA ManifestHeard ==
    ASSUME TypeOK, ManifestOnce, Heard, NEW ok \in BOOLEAN, Manifest(ok)
    PROVE  Heard'
<1>. DEFINE moved == {a \in Others : subs[a].kind # "none" /\ Before(a, Stop)}
<1>1. /\ ~ bound /\ bound' = TRUE /\ wish' = wish
      /\ subs' = IF moved = {} THEN subs
                 ELSE [s \in Names |->
                         IF s = Key THEN [kind |-> "array",
                                          who |-> subs[Key].who \cup UNION {subs[a].who : a \in moved}]
                         ELSE IF s \in moved THEN NoBucket ELSE subs[s]]
  BY DEF Manifest, ManifestOnce, ReboundSubs
<1>2. "threw" \notin lost' => "threw" \notin lost /\ ~ (Stop <= Len(Aliases))
  <2>1. "threw" \in lost => "threw" \in lost'
    BY DEF Manifest, Hydrate
  <2>. QED
    BY <2>1, ManifestSteps
<1>3. \A t \in Names : \/ t = Key /\ subs'[t].kind = "array"
                       \/ subs'[t].who = {}
                       \/ subs'[t] = subs[t]
  BY <1>1 DEF NoBucket
<1>4. \A s \in Names : subs[s].who \subseteq Listeners
  BY DEF TypeOK, Bucket
<1>5. ListenersInTheirBucket'
  BY <1>1, <1>3 DEF Heard, ListenersInTheirBucket
<1>6. ASSUME NEW k \in Listeners, wish[k] # None, "threw" \notin lost'
      PROVE  k \in subs'[Key].who
  <2>1. wish[k] \in Names /\ k \in subs[wish[k]].who
    BY <1>1, <1>2, <1>6 DEF TypeOK, Heard, ListenersFollowTheSignal, Canonical
  <2>2. subs[Key].who \subseteq subs'[Key].who
    BY <1>1, AliasFacts
  <2>3. CASE wish[k] = Key
    BY <2>1, <2>2, <2>3
  <2>4. CASE wish[k] # Key
    <3>1. wish[k] \in Others /\ subs[wish[k]].kind # "none"
      BY <2>1, <2>4, AliasFacts DEF Heard, ListenersInTheirBucket
    <3>2. wish[k] \in moved
      BY <1>2, <1>6, <3>1, StopFacts
    <3>3. subs[wish[k]].who \subseteq subs'[Key].who
      BY <1>1, <3>2, AliasFacts
    <3>. QED
      BY <2>1, <3>3
  <2>. QED
    BY <2>3, <2>4
<1>7. \A k \in Listeners, t \in Names : wish[k] = None /\ k \in subs'[t].who =>
          subs'[t].kind = "array"
  BY <1>3 DEF Heard, ListenersFollowTheSignal
<1>8. ListenersFollowTheSignal'
  BY <1>1, <1>6, <1>7 DEF ListenersFollowTheSignal, Canonical
<1>. QED
  BY <1>5, <1>8 DEF Heard

LEMMA NextHeard == TypeOK /\ ManifestOnce /\ Heard /\ [Next]_vars => Heard'
<1>. SUFFICES ASSUME TypeOK, ManifestOnce, Heard, [Next]_vars PROVE Heard'
  OBVIOUS
<1>1. CASE UNCHANGED <<bound, listening>> /\ ("threw" \in lost => "threw" \in lost')
  BY <1>1 DEF Heard, ListenersInTheirBucket, ListenersFollowTheSignal, Canonical, listening
<1>2. ASSUME NEW l \in Listeners, NEW name \in Names, Subscribe(l, name)
      PROVE  Heard'
  BY <1>2, SubscribeHeard
<1>3. ASSUME NEW l \in Listeners, Unsubscribe(l)
      PROVE  Heard'
  BY <1>3, UnsubscribeHeard
<1>4. ASSUME NEW ok \in BOOLEAN, Manifest(ok)
      PROVE  Heard'
  BY <1>4, ManifestHeard
<1>5. CASE Reload
  <2>1. subs' = [s \in Names |-> NoBucket] /\ wish' = [l \in Listeners |-> None]
    BY <1>5 DEF Reload, FreshPage
  <2>. QED
    BY <2>1 DEF Heard, ListenersInTheirBucket, ListenersFollowTheSignal, NoBucket
<1>6. CASE Ready
  BY <1>1, <1>6 DEF Ready, booting
<1>7. ASSUME NEW n \in Nodes, NEW v \in Values, NEW ok \in BOOLEAN, Type(n, v, ok)
      PROVE  Heard'
  BY <1>1, <1>7 DEF Type, Edit, booting
<1>8. ASSUME NEW name \in Names, NEW v \in Values, NEW ok \in BOOLEAN, Set(name, v, ok)
      PROVE  Heard'
  BY <1>1, <1>8 DEF Set, Edit, booting
<1>9. CASE ManifestFails
  BY <1>1, <1>9 DEF ManifestFails
<1>10. ASSUME NEW ok \in BOOLEAN, Snapshot(ok)
      PROVE  Heard'
  BY <1>1, <1>10 DEF Snapshot
<1>11. CASE UNCHANGED vars
  BY <1>1, <1>11 DEF vars, listening
<1>. QED
  BY <1>2, <1>3, <1>4, <1>5, <1>6, <1>7, <1>8, <1>9, <1>10, <1>11 DEF Next

-----------------------------------------------------------------------------
(* Nodes.                                                                  *)
Seen == NodesInTheirBucket /\ NodesOfOneNameShowTheirSignal

LEMMA EditSeen ==
    ASSUME TypeOK, Seen, NEW s \in Names, NEW v \in Values, NEW screen \in [Nodes -> Values],
           NEW ok \in BOOLEAN, Edit(s, v, screen, ok), UNCHANGED <<booting, dom>>,
           \A n \in Nodes : bucket[n] \notin {None, s} => screen[n] = shown[n]
    PROVE  Seen'
<1>1. /\ lost \subseteq lost' /\ state' = [state EXCEPT ![s] = v]
      /\ shown' = [n \in Nodes |-> IF bucket[n] = s THEN v ELSE screen[n]]
      /\ bucket' = bucket /\ raw' = raw /\ bound' = bound
  BY DEF Edit, Rewritten, booting, dom
<1>2. NodesInTheirBucket'
  BY <1>1 DEF Seen, NodesInTheirBucket, Canonical
<1>3. NodesOfOneNameShowTheirSignal'
  <2>1. SUFFICES ASSUME lost \cap {"two names", "threw"} = {}, NEW n \in Nodes, bucket[n] # None
                 PROVE  shown'[n] = state'[bucket[n]]
    BY <1>1 DEF NodesOfOneNameShowTheirSignal
  <2>2. shown[n] = state[bucket[n]] /\ bucket[n] \in Names
    BY <2>1 DEF Seen, NodesOfOneNameShowTheirSignal, TypeOK
  <2>. QED
    BY <1>1, <2>1, <2>2 DEF TypeOK
<1>. QED
  BY <1>2, <1>3 DEF Seen

LEMMA ReadySeen ==
    ASSUME TypeOK, Seen, Ready
    PROVE  Seen'
<1>. DEFINE name(n) == Canonical(raw[n])
            named(s) == {n \in Nodes : name(n) = s}
            value(s) == IF state[s] # None \/ named(s) = {} THEN state[s] ELSE shown[Min(named(s))]
<1>1. /\ raw' = [n \in Nodes |-> name(n)]
      /\ state' = [s \in Names |-> value(s)]
      /\ shown' = [n \in Nodes |-> value(name(n))]
      /\ bucket' = [n \in Nodes |-> name(n)]
      /\ bound' = bound /\ lost' = lost
  BY DEF Ready, booting
<1>2. \A n \in Nodes : name(n) \in Names
  BY CanonicalName DEF TypeOK
<1>. HIDE DEF value
<1>3. \A n \in Nodes : shown'[n] = state'[bucket'[n]]
  BY <1>1, <1>2
<1>4. NodesInTheirBucket'
  BY <1>1 DEF NodesInTheirBucket, Canonical
<1>. QED
  BY <1>3, <1>4 DEF Seen, NodesOfOneNameShowTheirSignal

LEMMA TypeSeen ==
    ASSUME TypeOK, Seen, NEW n \in Nodes, NEW v \in Values, NEW ok \in BOOLEAN, Type(n, v, ok)
    PROVE  Seen'
<1>. DEFINE s == Canonical(raw[n])
            typed == [shown EXCEPT ![n] = v]
<1>1. s \in Names /\ typed \in [Nodes -> Values] /\ shown[n] # v /\ UNCHANGED <<booting, dom>>
  BY CanonicalName DEF TypeOK, Type
<1>2. CASE state[s] \in {None, v} /\ shown' = typed /\ UNCHANGED <<state, lost>>
  <2>1. UNCHANGED <<bound, raw, bucket>>
    BY <1>1 DEF booting, dom
  <2>2. NodesInTheirBucket'
    BY <1>2, <2>1 DEF Seen, NodesInTheirBucket, Canonical
  <2>3. lost \cap {"two names", "threw"} = {} => bucket[n] = None
    <3>1. SUFFICES ASSUME lost \cap {"two names", "threw"} = {}, bucket[n] # None PROVE FALSE
      OBVIOUS
    <3>2. bucket[n] = s /\ shown[n] = state[bucket[n]]
      BY <3>1 DEF Seen, NodesInTheirBucket, NodesOfOneNameShowTheirSignal
    <3>3. shown[n] # None
      BY ValuesAssumption DEF TypeOK
    <3>. QED
      BY <1>1, <1>2, <3>2, <3>3
  <2>4. NodesOfOneNameShowTheirSignal'
    BY <1>2, <2>1, <2>3 DEF Seen, NodesOfOneNameShowTheirSignal, TypeOK
  <2>. QED
    BY <2>2, <2>4 DEF Seen
<1>3. CASE Edit(s, v, typed, ok)
  <2>1. CASE "threw" \notin lost
    <3>1. \A k \in Nodes : bucket[k] \notin {None, s} => typed[k] = shown[k]
      BY <2>1 DEF Seen, NodesInTheirBucket, TypeOK
    <3>. HIDE DEF s, typed
    <3>. QED
      BY <1>1, <1>3, <3>1, EditSeen
  <2>2. CASE "threw" \in lost
    <3>1. "threw" \in lost'
      BY <1>3, <2>2 DEF Edit
    <3>. QED
      BY <3>1 DEF Seen, NodesInTheirBucket, NodesOfOneNameShowTheirSignal
  <2>. QED
    BY <2>1, <2>2
<1>. QED
  BY <1>2, <1>3 DEF Type

LEMMA ManifestSeen ==
    ASSUME TypeOK, ManifestOnce, Seen, NEW ok \in BOOLEAN, Manifest(ok)
    PROVE  Seen'
<1>1. PICK nodes : nodes = [n \in Nodes |-> IF bucket[n] \in Others /\ UpTo(bucket[n], Stop)
                                              THEN Key ELSE bucket[n]]
  OBVIOUS
<1>2. CASE "threw" \in lost'
  BY <1>2 DEF Seen, NodesInTheirBucket, NodesOfOneNameShowTheirSignal
<1>3. CASE "threw" \notin lost'
  <2>1. /\ ~ (Stop <= Len(Aliases)) /\ Hydrate(ReboundValue, nodes, ok)
        /\ bound' = TRUE /\ bucket' = nodes /\ boot = "manifest" /\ ~ bound
    BY <1>1, <1>3, ManifestSteps DEF ManifestOnce
  <2>2. lost \subseteq lost' /\ (NamesDisagree => "two names" \in lost')
    BY <2>1 DEF Hydrate
  <2>3. \A n \in Nodes : nodes[n] = IF bucket[n] \in Others THEN Key ELSE bucket[n]
    BY <1>1, <2>1, StopFacts
  <2>4. \A n \in Nodes : nodes[n] \in {None, Key}
    BY <2>3, AliasFacts DEF TypeOK
  <2>5. NodesInTheirBucket'
    <3>1. raw' = [n \in Nodes |-> IF raw[n] \in Others /\ Before(raw[n], Stop) THEN Key ELSE raw[n]]
      BY DEF Manifest
    <3>. QED
      BY <2>1, <2>4, <3>1 DEF NodesInTheirBucket, Canonical
  <2>6. ASSUME lost' \cap {"two names", "threw"} = {}, NEW n \in Nodes, nodes[n] # None
        PROVE  shown'[n] = state'[Key]
    <3>1. nodes[n] = Key /\ bucket[n] \in Names
      BY <2>3, <2>4, <2>6, AliasFacts DEF TypeOK
    <3>2. shown[n] = state[bucket[n]] /\ shown[n] # None
      <4>1. lost \cap {"two names", "threw"} = {}
        BY <2>2, <2>6
      <4>2. bucket[n] # None
        BY <3>1, NamesAssumption
      <4>3. shown[n] = state[bucket[n]]
        BY <4>1, <4>2 DEF Seen, NodesOfOneNameShowTheirSignal
      <4>4. shown[n] \in Values
        BY DEF TypeOK
      <4>. QED
        BY <4>3, <4>4, ValuesAssumption
    <3>3. ReboundValue = shown[n]
      <4>1. PICK t \in Names : ReboundValue = state[t] /\ ReboundValue # None
        BY <2>1, <3>1, <3>2, ReboundValueFacts DEF TypeOK
      <4>2. ~ NamesDisagree
        BY <2>2, <2>6
      <4>. QED
        BY <3>1, <3>2, <4>1, <4>2 DEF NamesDisagree
    <3>. DEFINE restored == PendingValue = None /\ Restorable
    <3>4. /\ state'[Key] = IF restored THEN stored ELSE ReboundValue
          /\ shown'[n] = IF restored /\ nodes[n] = Key THEN stored ELSE shown[n]
      BY <2>1, AliasFacts DEF Hydrate, TypeOK
    <3>. QED
      BY <3>1, <3>3, <3>4
  <2>7. NodesOfOneNameShowTheirSignal'
    BY <2>1, <2>4, <2>6 DEF NodesOfOneNameShowTheirSignal
  <2>. QED
    BY <2>5, <2>7 DEF Seen
<1>. QED
  BY <1>2, <1>3

LEMMA NextSeen == TypeOK /\ ManifestOnce /\ Seen /\ [Next]_vars => Seen'
<1>. SUFFICES ASSUME TypeOK, ManifestOnce, Seen, [Next]_vars PROVE Seen'
  OBVIOUS
<1>1. CASE UNCHANGED <<bound, state, dom, shown>> /\ lost \subseteq lost'
  BY <1>1 DEF Seen, NodesInTheirBucket, NodesOfOneNameShowTheirSignal, Canonical, dom
<1>2. CASE Ready
  BY <1>2, ReadySeen
<1>3. ASSUME NEW n \in Nodes, NEW v \in Values, NEW ok \in BOOLEAN, Type(n, v, ok)
      PROVE  Seen'
  BY <1>3, TypeSeen
<1>4. ASSUME NEW name \in Names, NEW v \in Values, NEW ok \in BOOLEAN, Set(name, v, ok)
      PROVE  Seen'
  <2>1. Canonical(name) \in Names /\ shown \in [Nodes -> Values] /\ UNCHANGED <<booting, dom>>
        /\ Edit(Canonical(name), v, shown, ok)
    BY <1>4, CanonicalName DEF Set, TypeOK
  <2>. QED
    BY <2>1, EditSeen
<1>5. ASSUME NEW ok \in BOOLEAN, Manifest(ok)
      PROVE  Seen'
  BY <1>5, ManifestSeen
<1>6. ASSUME NEW ok \in BOOLEAN, Snapshot(ok)
      PROVE  Seen'
  <2>1. UNCHANGED <<bound, dom, lost>>
    BY <1>6 DEF Snapshot
  <2>2. CASE UNCHANGED <<state, shown>>
    BY <1>1, <2>1, <2>2
  <2>3. CASE state' = [state EXCEPT ![Key] = Served] /\ shown' = Rewritten(shown, Key, Served)
    <3>1. Key \in Names
      BY AliasFacts
    <3>2. \A n \in Nodes : shown'[n] = IF bucket[n] = Key THEN Served ELSE shown[n]
      BY <2>3 DEF Rewritten
    <3>3. \A s \in Names : state'[s] = IF s = Key THEN Served ELSE state[s]
      BY <2>3, <3>1 DEF TypeOK
    <3>4. NodesInTheirBucket'
      BY <2>1 DEF Seen, NodesInTheirBucket, Canonical, dom
    <3>5. ASSUME lost \cap {"two names", "threw"} = {}, NEW n \in Nodes, bucket[n] # None
          PROVE  shown'[n] = state'[bucket[n]]
      <4>1. bucket[n] \in Names /\ shown[n] = state[bucket[n]]
        BY <3>5 DEF Seen, NodesOfOneNameShowTheirSignal, TypeOK
      <4>. QED
        BY <3>2, <3>3, <4>1
    <3>6. NodesOfOneNameShowTheirSignal'
      BY <2>1, <3>5 DEF NodesOfOneNameShowTheirSignal, dom
    <3>. QED
      BY <3>4, <3>6 DEF Seen
  <2>. QED
    BY <1>6, <2>2, <2>3 DEF Snapshot
<1>7. CASE Reload
  <2>1. bucket' = [n \in Nodes |-> None]
    BY <1>7 DEF Reload, FreshPage
  <2>. QED
    BY <2>1 DEF Seen, NodesInTheirBucket, NodesOfOneNameShowTheirSignal
<1>8. ASSUME NEW l \in Listeners, NEW name \in Names, Subscribe(l, name)
      PROVE  Seen'
  BY <1>1, <1>8 DEF Subscribe, booting
<1>9. ASSUME NEW l \in Listeners, Unsubscribe(l)
      PROVE  Seen'
  BY <1>1, <1>9 DEF Unsubscribe, booting
<1>10. CASE ManifestFails
  BY <1>1, <1>10 DEF ManifestFails
<1>11. CASE UNCHANGED vars
  BY <1>1, <1>11 DEF vars, dom
<1>. QED
  BY <1>2, <1>3, <1>4, <1>5, <1>6, <1>7, <1>8, <1>9, <1>10, <1>11 DEF Next

-----------------------------------------------------------------------------
(* Edits on their way to storage.                                          *)

Kept == QueueIsCurrent /\ EditsHaveStorage /\ EditsReachStorage

LEMMA QueueFacts ==
    ASSUME TypeOK
    PROVE  /\ pending \in Seq(Writes)
           /\ \A i \in DOMAIN pending : pending[i].name \in Names /\ pending[i].value \in Values
<1>1. pending \in Seq(Writes)
  BY DEF TypeOK, Writes
<1>2. \A i \in DOMAIN pending : pending[i] \in Writes
  BY <1>1, LenProperties
<1>. QED
  BY <1>1, <1>2 DEF Writes

LEMMA EditKept ==
    ASSUME TypeOK, ManifestOnce, Kept, NEW s \in Names, NEW v \in Values, NEW screen,
           NEW ok \in BOOLEAN, Edit(s, v, screen, ok), UNCHANGED <<persisted, booting>>
    PROVE  Kept'
<1>1. UNCHANGED <<persisted, boot, capable, settled>>
  BY DEF booting
<1>2. edit' = v /\ v # None
  BY ValuesAssumption DEF Edit
<1>3. QueueIsCurrent'
  <2>. SUFFICES ASSUME boot = "manifest"
                PROVE  /\ \A i \in DOMAIN pending' : state'[pending'[i].name] = pending'[i].value
                       /\ \E i \in DOMAIN pending' : pending'[i].value = edit'
    BY <1>1 DEF QueueIsCurrent
  <2>1. pending' = Put(pending, s, v)
    BY DEF ManifestOnce, Edit
  <2>2. \A i \in DOMAIN pending : state[pending[i].name] = pending[i].value
    BY DEF Kept, QueueIsCurrent
  <2>3. pending \in Seq(Writes)
    BY QueueFacts
  <2>4. \A i \in DOMAIN pending : pending[i].name \in Names
    BY QueueFacts
  <2>5. \A t \in Names : state'[t] = IF t = s THEN v ELSE state[t]
    BY DEF Edit, TypeOK
  <2>6. \A i \in DOMAIN pending' :
           \/ /\ pending'[i].name = s
              /\ pending'[i].value = v
           \/ /\ i \in DOMAIN pending /\ pending'[i] = pending[i]
              /\ pending[i].name # s
    BY <2>1, <2>3, PutFacts
  <2>7. \E i \in DOMAIN pending' : pending'[i].value = v
    BY <2>1, <2>3, PutFacts
  <2>. QED
    BY <1>2, <2>2, <2>4, <2>5, <2>6, <2>7
<1>4. EditsHaveStorage'
  BY <1>1 DEF Kept, EditsHaveStorage, Edit
<1>5. EditsReachStorage'
  BY <1>1 DEF EditsReachStorage, Edit
<1>. QED
  BY <1>3, <1>4, <1>5 DEF Kept

LEMMA ManifestKept ==
    ASSUME TypeOK, ManifestOnce, Kept, NEW ok \in BOOLEAN, Manifest(ok)
    PROVE  Kept'
<1>1. boot = "manifest" /\ boot' = "snapshot" /\ capable' = persisted /\ UNCHANGED <<persisted, edit>>
  BY DEF Manifest
<1>2. QueueIsCurrent' /\ EditsHaveStorage'
  BY <1>1 DEF QueueIsCurrent, EditsHaveStorage
<1>3. ASSUME persisted, edit # None, lost' = {} PROVE stored' = edit
  <2>1. PICK nodes : Hydrate(ReboundValue, nodes, ok)
    BY <1>3 DEF Manifest
  <2>2. ~ NamesDisagree /\ ~ (persisted /\ PendingValue # None /\ ~ ok)
    BY <1>3, <2>1 DEF Hydrate
  <2>3. pending \in Seq(Writes)
    BY QueueFacts
  <2>4. \A i \in DOMAIN pending : pending[i].name \in Names /\ pending[i].value \in Values
    BY QueueFacts
  <2>5. /\ \A i \in DOMAIN pending : state[pending[i].name] = pending[i].value
        /\ \E i \in DOMAIN pending : pending[i].value = edit
    BY <1>1, <1>3 DEF Kept, QueueIsCurrent
  <2>6. pending # <<>>
    BY <2>5, EmptySeq, LenProperties
  <2>7. PICK i \in DOMAIN pending : PendingValue = pending[i].value
    BY <2>3, <2>6, PendingFacts
  <2>8. PendingValue = edit /\ PendingValue # None
    BY <1>3, <2>2, <2>4, <2>5, <2>7, ValuesAssumption DEF NamesDisagree
  <2>. QED
    BY <1>3, <2>1, <2>2, <2>8 DEF Hydrate
<1>. QED
  BY <1>1, <1>2, <1>3 DEF Kept, EditsReachStorage

LEMMA ReadyKept ==
    ASSUME TypeOK, Kept, Ready
    PROVE  Kept'
<1>1. UNCHANGED <<persisted, boot, capable, settled, pending, stored, edit, lost>>
  BY DEF Ready, booting
<1>2. \A s \in Names : state[s] # None => state'[s] = state[s]
  BY DEF Ready
<1>3. \A i \in DOMAIN pending : pending[i].name \in Names /\ pending[i].value # None
  BY QueueFacts, ValuesAssumption
<1>4. QueueIsCurrent'
  BY <1>1, <1>2, <1>3 DEF Kept, QueueIsCurrent
<1>. QED
  BY <1>1, <1>4 DEF Kept, EditsHaveStorage, EditsReachStorage

LEMMA NextKept == TypeOK /\ ManifestOnce /\ Kept /\ [Next]_vars => Kept'
<1>. SUFFICES ASSUME TypeOK, ManifestOnce, Kept, [Next]_vars PROVE Kept'
  OBVIOUS
<1>1. CASE UNCHANGED <<persisted, boot, capable, settled, state, pending, stored, edit, lost>>
  BY <1>1 DEF Kept, QueueIsCurrent, EditsHaveStorage, EditsReachStorage
<1>2. CASE Ready
  BY <1>2, ReadyKept
<1>3. ASSUME NEW n \in Nodes, NEW v \in Values, NEW ok \in BOOLEAN, Type(n, v, ok)
      PROVE  Kept'
  <2>. DEFINE s == Canonical(raw[n])
              typed == [shown EXCEPT ![n] = v]
  <2>1. CASE UNCHANGED <<state, edit, pending, stored, lost>>
    BY <1>1, <1>3, <2>1 DEF Type, booting
  <2>2. CASE Edit(s, v, typed, ok)
    <3>1. s \in Names /\ UNCHANGED <<persisted, booting>>
      BY <1>3, CanonicalName DEF Type, TypeOK
    <3>. QED
      BY <2>2, <3>1, EditKept
  <2>. QED
    BY <1>3, <2>1, <2>2 DEF Type
<1>4. ASSUME NEW name \in Names, NEW v \in Values, NEW ok \in BOOLEAN, Set(name, v, ok)
      PROVE  Kept'
  <2>1. Canonical(name) \in Names /\ UNCHANGED <<persisted, booting>>
        /\ Edit(Canonical(name), v, shown, ok)
    BY <1>4, CanonicalName DEF Set
  <2>. QED
    BY <2>1, EditKept
<1>5. ASSUME NEW ok \in BOOLEAN, Manifest(ok)
      PROVE  Kept'
  BY <1>5, ManifestKept
<1>6. ASSUME NEW ok \in BOOLEAN, Snapshot(ok)
      PROVE  Kept'
  <2>1. /\ boot' = "ready"
        /\ UNCHANGED <<persisted, capable, settled, stored, edit, lost>>
    BY <1>6 DEF Snapshot
  <2>. QED
    BY <2>1 DEF Kept, QueueIsCurrent, EditsHaveStorage, EditsReachStorage
<1>7. CASE Reload
  <2>1. edit' = None /\ pending' = <<>>
    BY <1>7 DEF Reload, FreshPage
  <2>. QED
    BY <2>1, EmptySeq, LenProperties DEF Kept, QueueIsCurrent, EditsHaveStorage, EditsReachStorage
<1>8. ASSUME NEW l \in Listeners, NEW name \in Names, Subscribe(l, name)
      PROVE  Kept'
  BY <1>1, <1>8 DEF Subscribe, booting
<1>9. ASSUME NEW l \in Listeners, Unsubscribe(l)
      PROVE  Kept'
  BY <1>1, <1>9 DEF Unsubscribe, booting
<1>10. CASE ManifestFails
  <2>1. /\ boot' = "snapshot"
        /\ UNCHANGED <<persisted, capable, stored, edit>>
        /\ \/ edit # None => lost' # {}
           \/ UNCHANGED <<settled, lost>>
    BY <1>10 DEF ManifestFails
  <2>. QED
    BY <2>1 DEF Kept, QueueIsCurrent, EditsHaveStorage, EditsReachStorage
<1>11. CASE UNCHANGED vars
  BY <1>1, <1>11 DEF vars
<1>. QED
  BY <1>2, <1>3, <1>4, <1>5, <1>6, <1>7, <1>8, <1>9, <1>10, <1>11 DEF Next

-----------------------------------------------------------------------------
(* The theorems.                                                           *)

LEMMA InitIInv == Init => IInv
<1>. SUFFICES ASSUME Init PROVE IInv
  OBVIOUS
<1>1. TypeOK
  BY InitTypeOK
<1>2. ManifestOnce /\ NodesInTheirBucket /\ EditsHaveStorage /\ EditsReachStorage
      /\ NodesOfOneNameShowTheirSignal
  BY DEF Init, ManifestOnce, NodesInTheirBucket, EditsHaveStorage, EditsReachStorage,
         NodesOfOneNameShowTheirSignal
<1>3. QueueIsCurrent
  BY EmptySeq, LenProperties DEF Init, QueueIsCurrent
<1>4. ListenersInTheirBucket /\ ListenersFollowTheSignal
  BY DEF Init, ListenersInTheirBucket, ListenersFollowTheSignal, NoBucket
<1>. QED
  BY <1>1, <1>2, <1>3, <1>4 DEF IInv

(* What the handlers of the bridge preserve in every interleaving.         *)
THEOREM Inductive == Spec => []IInv
<1>1. IInv /\ [Next]_vars => IInv'
  <2>. SUFFICES ASSUME IInv, [Next]_vars PROVE IInv'
    OBVIOUS
  <2>1. TypeOK /\ ManifestOnce /\ Heard /\ Seen /\ Kept
    BY DEF IInv, Heard, Seen, Kept
  <2>2. TypeOK' /\ ManifestOnce' /\ Heard' /\ Seen' /\ Kept'
    BY <2>1, NextTypeOK, NextManifestOnce, NextHeard, NextSeen, NextKept
  <2>. QED
    BY <2>2 DEF IInv, Heard, Seen, Kept
<1>. QED
  BY <1>1, InitIInv, PTL DEF Spec

(* Every variable keeps its type: in particular the maps stay maps from    *)
(* names, and what is restored from storage is a value of the signal.      *)
THEOREM TypeCorrect == Spec => []TypeOK
<1>1. IInv => TypeOK
  BY DEF IInv
<1>. QED
  BY <1>1, Inductive, PTL

(* An edit made before, while or after the manifest arrives is in storage  *)
(* once it has arrived, unless one of the four named causes lost it        *)
(* (pendingStorageWrites, hydrateStorageCapability).                       *)
THEOREM EditsAreKept == Spec => []EditsReachStorage
<1>1. IInv => EditsReachStorage
  BY DEF IInv
<1>. QED
  BY <1>1, Inductive, PTL

(* A registered node shows the value of its signal through rebinding,      *)
(* restoring and the snapshot (rebindAliasedSignals, writeSignal).         *)
THEOREM NodesShowTheirSignal == Spec => []NodesOfOneNameShowTheirSignal
<1>1. IInv => NodesOfOneNameShowTheirSignal
  BY DEF IInv
<1>. QED
  BY <1>1, Inductive, PTL

(* A subscription under an alias survives the move of its bucket, and what *)
(* subscribe returned ends it (moveSignalBucket, subscribe).               *)
THEOREM ListenersFollow == Spec => []ListenersFollowTheSignal
<1>1. IInv => ListenersFollowTheSignal
  BY DEF IInv
<1>. QED
  BY <1>1, Inductive, PTL

(* Among all handlers only loadSnapshot replaces what the user or the      *)
(* application put in the signal, and never when storage had its say.      *)
THEOREM SnapshotAloneOverwrites == Spec => OnlySnapshotOverwritesEdits
<1>1. ASSUME IInv, [Next]_vars, edit # None, edit' = edit, loads' = loads,
             "two names" \notin lost', state[Key] = edit, state'[Key] # edit
      PROVE  boot = "snapshot" /\ ~ hydrated
  <2>0. TypeOK /\ ManifestOnce /\ QueueIsCurrent /\ Key \in Names
    BY <1>1, AliasFacts DEF IInv
  <2>1. CASE state' = state
    BY <1>1, <2>1
  <2>2. CASE Ready
    BY <1>1, <2>0, <2>2 DEF Ready
  <2>3. ASSUME NEW s \in Names, NEW v \in Values, NEW screen, NEW ok \in BOOLEAN,
               Edit(s, v, screen, ok)
        PROVE  FALSE
    <3>1. state'[Key] = IF Key = s THEN v ELSE state[Key]
      BY <2>0, <2>3 DEF Edit, TypeOK
    <3>2. edit' = v
      BY <2>3 DEF Edit
    <3>. QED
      BY <1>1, <3>1, <3>2
  <2>4. ASSUME NEW n \in Nodes, NEW v \in Values, NEW ok \in BOOLEAN, Type(n, v, ok)
        PROVE  FALSE
    <3>1. Canonical(raw[n]) \in Names
      BY <2>0, CanonicalName DEF TypeOK
    <3>. QED
      BY <2>1, <2>3, <2>4, <3>1, <1>1 DEF Type
  <2>5. ASSUME NEW name \in Names, NEW v \in Values, NEW ok \in BOOLEAN, Set(name, v, ok)
        PROVE  FALSE
    BY <2>3, <2>5, CanonicalName DEF Set
  <2>6. ASSUME NEW ok \in BOOLEAN, Manifest(ok)
        PROVE  FALSE
    <3>1. boot = "manifest" /\ ReboundValue = state[Key]
      BY <1>1, <2>0, <2>6, ReboundValueFacts DEF Manifest, TypeOK
    <3>2. CASE state' = [state EXCEPT ![Key] = ReboundValue]
      BY <1>1, <2>0, <3>1, <3>2 DEF TypeOK
    <3>3. ASSUME NEW nodes, Hydrate(ReboundValue, nodes, ok)
          PROVE  FALSE
      <4>1. PICK i \in DOMAIN pending : pending[i].value = edit
        BY <1>1, <2>0, <3>1 DEF QueueIsCurrent
      <4>2. pending \in Seq(Writes)
        BY <2>0, QueueFacts
      <4>3. pending # <<>>
        BY <4>1, EmptySeq, LenProperties
      <4>4. \A j \in DOMAIN pending : pending[j].value # None
        BY <2>0, QueueFacts, ValuesAssumption
      <4>5. PendingValue # None
        BY <4>2, <4>3, <4>4, PendingFacts
      <4>6. state' = [state EXCEPT ![Key] = ReboundValue]
        BY <3>3, <4>5 DEF Hydrate
      <4>. QED
        BY <3>2, <4>6
    <3>. QED
      BY <2>6, <3>2, <3>3 DEF Manifest
  <2>7. ASSUME NEW ok \in BOOLEAN, Snapshot(ok)
        PROVE  boot = "snapshot" /\ ~ hydrated
    BY <1>1, <2>7 DEF Snapshot
  <2>8. ~ Reload
    <3>1. Reload => edit' = None
      BY DEF Reload, FreshPage
    <3>. QED
      BY <1>1, <3>1
  <2>9. ASSUME NEW l \in Listeners, NEW name \in Names, Subscribe(l, name)
        PROVE  FALSE
    BY <1>1, <2>9 DEF Subscribe
  <2>10. ASSUME NEW l \in Listeners, Unsubscribe(l)
         PROVE  FALSE
    BY <1>1, <2>10 DEF Unsubscribe
  <2>11. ~ ManifestFails /\ ~ UNCHANGED vars
    BY <1>1 DEF ManifestFails, vars
  <2>. QED
    BY <1>1, <2>2, <2>4, <2>5, <2>6, <2>7, <2>8, <2>9, <2>10, <2>11 DEF Next
<1>2. IInv /\ [Next]_vars =>
        [edit # None /\ edit' = edit /\ loads' = loads /\ "two names" \notin lost'
           /\ state[Key] = edit /\ state'[Key] # edit =>
              boot = "snapshot" /\ ~ hydrated]_vars
  BY <1>1
<1>. QED
  BY <1>2, Inductive, PTL DEF Spec, OnlySnapshotOverwritesEdits
=============================================================================
