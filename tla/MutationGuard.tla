---------------------------- MODULE MutationGuard ----------------------------
(***************************************************************************)
(* The CSRF guard of csrf_http.rs in front of the actions of a server,     *)
(* over the session registry.  The tabs of one browser share a cookie jar: *)
(* a page is requested, delivered with a proof for the identity its        *)
(* request carried, and its form submitted later with whatever the jar     *)
(* then holds.  Requests and answers of different tabs pass each other,    *)
(* sessions begin and end, anonymous identities lapse, the server restarts *)
(* with another key.  A signature is what was signed, with the key.        *)
(***************************************************************************)
EXTENDS Integers

CONSTANTS
    Tabs,         \* each has at most one request in flight
    Ids,          \* session identifiers
    Nonces,       \* of anonymous identities
    Nobody,       \* no session, no cookie, no proof
    Keep,         \* what an answer says of a cookie it does not set
    TTL,          \* ANONYMOUS_TTL
    MaxTime,      \* bound on the clock
    MaxKey        \* bound on restarts with another session_key

(* A session's identity is its id, a UUID; an anonymous one says when it   *)
(* was issued.  A token is an identity with the key that signed it.        *)
Anonymous == [at : Nat, nonce : Nonces]
Tokens(identities) == [identity : identities, key : Nat]

ASSUME NamesAssumption ==
    /\ \A id \in Ids : id \notin Anonymous
    /\ Nobody \notin Ids \cup Tokens(Ids) \cup Tokens(Anonymous)
    /\ Keep \notin Tokens(Ids) \cup Tokens(Anonymous)
ASSUME BoundsAssumption == TTL \in Nat \ {0} /\ MaxTime \in Nat /\ MaxKey \in Nat

VARIABLES
    phase,        \* of the registry: [Ids -> "unborn", "live" or "gone"]
    granted,      \* of the registry: what the last load of a tab's request answered
    clock,
    key,          \* session_key of the running server
    used,         \* nonces handed out
    jar,          \* the browser's cookies
    pc,           \* where the tab's request is
    sent,         \* the cookies it carries
    proof,        \* the proof in the tab's form, or in the answer on its way to it
    answer,       \* the cookies its answer sets
    fresh         \* history: nothing that matters changed since the tab's page
                  \* was requested

vars == <<phase, granted, clock, key, used, jar, pc, sent, proof, answer, fresh>>
registry == <<phase, granted>>

Sessions == INSTANCE SessionRegistry WITH Workers <- Tabs

Signed(identity) == [identity |-> identity, key |-> key]
NoCookies == [session |-> Nobody, anon |-> Nobody]
SetsNone == [session |-> Keep, anon |-> Keep]
-----------------------------------------------------------------------------
(* anonymous_identity: signed with this key, not issued in the future and  *)
(* younger than ANONYMOUS_TTL.                                             *)
Accepted(cookie) ==
    /\ cookie # Nobody /\ cookie.key = key
    /\ cookie.identity.at <= clock /\ clock - cookie.identity.at < TTL

(* The session a request names, with a signature of this key. *)
Named(t) == IF sent[t].session # Nobody /\ sent[t].session.key = key
               THEN sent[t].session.identity ELSE Nobody

Ended(id) == [i \in Ids |-> IF i = id /\ phase[i] = "live" THEN "gone" ELSE phase[i]]

(* load_session grants the session the request names if it is live.  One   *)
(* that the store holds but finds expired has ended just before.           *)
Loads(t) ==
    \/ /\ Named(t) # Nobody
       /\ Sessions!Grant(t, Named(t))
    \/ /\ Named(t) \notin {id \in Ids : phase[id] = "live"}
       /\ granted' = [granted EXCEPT ![t] = Nobody]
       /\ UNCHANGED phase

Init ==
    /\ Sessions!Init
    /\ clock = 0 /\ key = 0 /\ used = {}
    /\ jar = NoCookies
    /\ pc = [t \in Tabs |-> "idle"]
    /\ sent = [t \in Tabs |-> NoCookies]
    /\ proof = [t \in Tabs |-> Nobody]
    /\ answer = [t \in Tabs |-> SetsNone]
    /\ fresh = [t \in Tabs |-> FALSE]

(* A tab asks for a page with a form, or its script for /__axonyx/csrf. *)
Open(t) ==
    /\ pc[t] = "idle"
    /\ pc' = [pc EXCEPT ![t] = "get"]
    /\ sent' = [sent EXCEPT ![t] = jar]
    /\ proof' = [proof EXCEPT ![t] = Nobody]
    /\ fresh' = [fresh EXCEPT ![t] = TRUE]
    /\ UNCHANGED <<registry, clock, key, used, jar, answer>>

(* delivery: the proof is for the session, else for the anonymous identity *)
(* of the request, else for a new one whose cookie the answer sets.        *)
Deliver(t) ==
    /\ pc[t] = "get"
    /\ pc' = [pc EXCEPT ![t] = "page"]
    /\ Loads(t)
    /\ \/ /\ granted'[t] # Nobody
          /\ proof' = [proof EXCEPT ![t] = Signed(granted'[t])]
          /\ UNCHANGED <<used, answer>>
       \/ /\ granted'[t] = Nobody /\ Accepted(sent[t].anon)
          /\ proof' = [proof EXCEPT ![t] = Signed(sent[t].anon.identity)]
          /\ UNCHANGED <<used, answer>>
       \/ /\ granted'[t] = Nobody /\ ~ Accepted(sent[t].anon)
          /\ \E n \in Nonces \ used :
                LET token == Signed([at |-> clock, nonce |-> n]) IN
                /\ used' = used \cup {n}
                /\ proof' = [proof EXCEPT ![t] = token]
                /\ answer' = [answer EXCEPT ![t].anon = token]
    /\ sent' = [sent EXCEPT ![t] = NoCookies]
    /\ UNCHANGED <<clock, key, jar, fresh>>

(* A form is submitted, with the cookies of the moment. *)
Submit(t) ==
    /\ pc[t] = "idle" /\ proof[t] # Nobody
    /\ pc' = [pc EXCEPT ![t] = "post"]
    /\ sent' = [sent EXCEPT ![t] = jar]
    /\ UNCHANGED <<registry, clock, key, used, jar, proof, answer, fresh>>

(* Wrong: the anonymous cookie is looked at first. *)
ValidAnonymousFirst(t, session) ==
    IF Accepted(sent[t].anon) THEN proof[t] = Signed(sent[t].anon.identity)
                              ELSE proof[t] = Signed(session)

(* Wrong: either of the identities the browser holds will do. *)
ValidForEither(t, session) ==
    \/ session # Nobody /\ proof[t] = Signed(session)
    \/ Accepted(sent[t].anon) /\ proof[t] = Signed(sent[t].anon.identity)

(* Whether the request's form holds a proof for its identity: the session, *)
(* or if there is none the anonymous identity of the cookie.               *)
Valid(t, session) ==
    \/ session # Nobody /\ proof[t] = Signed(session)
    \/ session = Nobody /\ Accepted(sent[t].anon) /\ proof[t] = Signed(sent[t].anon.identity)

(* reject_mutation.  A client that says neither where it comes from nor    *)
(* who it is needs no proof.                                               *)
CheckProof(t) ==
    /\ pc[t] = "post"
    /\ Loads(t)
    /\ \E bare \in {FALSE, sent[t] = NoCookies} :
          pc' = [pc EXCEPT ![t] = IF bare \/ Valid(t, granted'[t]) THEN "passed" ELSE "refused"]
    /\ UNCHANGED <<clock, key, used, jar, sent, proof, answer, fresh>>

(* A call of the guard that fails is an error page, and so is a refusal. *)
Fails(t) ==
    /\ pc[t] \in {"get", "post", "passed", "refused"}
    /\ pc' = [pc EXCEPT ![t] = "idle"]
    /\ sent' = [sent EXCEPT ![t] = NoCookies]
    /\ UNCHANGED <<registry, clock, key, used, jar, proof, answer, fresh>>

(* An action that loads the session again, for its own use, and may answer *)
(* with the page (422), whose form then gets a proof.                      *)
Act(t) ==
    /\ pc[t] = "passed"
    /\ Loads(t)
    /\ \E next \in {"done", "get"} : pc' = [pc EXCEPT ![t] = next]
    /\ UNCHANGED <<clock, key, used, jar, sent, proof, answer, fresh>>

(* An action that creates a session; the answer sets its cookie. *)
Login(t) ==
    /\ pc[t] = "passed"
    /\ \E id \in Ids :
          /\ Sessions!Register(id)
          /\ answer' = [answer EXCEPT ![t].session = Signed(id)]
    /\ pc' = [pc EXCEPT ![t] = "done"]
    /\ UNCHANGED <<clock, key, used, jar, sent, proof, fresh>>

(* An action that destroys the session named by the request's cookie,      *)
(* without loading it; the answer clears the cookie.                       *)
Logout(t) ==
    /\ pc[t] = "passed"
    /\ pc' = [pc EXCEPT ![t] = "done"]
    /\ phase' = Ended(Named(t))
    /\ answer' = [answer EXCEPT ![t].session = Nobody]
    /\ fresh' = [u \in Tabs |-> fresh[u] /\ phase' = phase]
    /\ UNCHANGED <<granted, clock, key, used, jar, sent, proof>>

(* The browser's cookies after an answer. *)
JarAfter(set) == [cookie \in DOMAIN jar |-> IF set[cookie] = Keep THEN jar[cookie] ELSE set[cookie]]

(* An answer arrives, and with it the cookies it sets. *)
Arrive(t) ==
    /\ pc[t] \in {"page", "done"}
    /\ jar' = JarAfter(answer[t])
    /\ fresh' = [u \in Tabs |-> fresh[u] /\ (jar' = jar \/ (u = t /\ pc[t] = "page"))]
    /\ pc' = [pc EXCEPT ![t] = "idle"]
    /\ sent' = [sent EXCEPT ![t] = NoCookies]
    /\ answer' = [answer EXCEPT ![t] = SetsNone]
    /\ UNCHANGED <<registry, clock, key, used, proof>>

-----------------------------------------------------------------------------
(* A session ends by itself, or by a request from elsewhere. *)
End(id) ==
    /\ phase[id] = "live"
    /\ phase' = Ended(id)
    /\ fresh' = [t \in Tabs |-> FALSE]
    /\ UNCHANGED <<granted, clock, key, used, jar, pc, sent, proof, answer>>

Tick ==
    /\ clock < MaxTime
    /\ clock' = clock + 1
    /\ fresh' = [t \in Tabs |-> fresh[t] /\ ~ (proof[t] # Nobody /\ proof[t].identity \notin Ids
                                                 /\ clock' - proof[t].identity.at >= TTL)]
    /\ UNCHANGED <<registry, key, used, jar, pc, sent, proof, answer>>

(* The server restarts with another key; what it was running is lost. *)
Rotate ==
    /\ key < MaxKey
    /\ key' = key + 1
    /\ pc' = [t \in Tabs |-> IF pc[t] = "passed" THEN "idle" ELSE pc[t]]
    /\ sent' = [t \in Tabs |-> IF pc[t] = "passed" THEN NoCookies ELSE sent[t]]
    /\ fresh' = [t \in Tabs |-> FALSE]
    /\ UNCHANGED <<registry, clock, used, jar, proof, answer>>

Next ==
    \/ \E t \in Tabs : \/ Open(t) \/ Deliver(t) \/ Arrive(t) \/ Submit(t) \/ CheckProof(t)
                       \/ Fails(t) \/ Act(t) \/ Login(t) \/ Logout(t)
    \/ \E id \in Ids : End(id)
    \/ Tick
    \/ Rotate

Spec == Init /\ [][Next]_vars

-----------------------------------------------------------------------------
(* When an action acts for a session it has loaded, or destroys the        *)
(* session its request names, the form that was submitted held the proof   *)
(* of that session under the current key: a form opened before a login, by *)
(* another user of the browser or before a change of key acts for nobody.  *)
(* The guard and the action load the session separately.                   *)
ActsOnlyWithProof ==
    [][\A t \in Tabs, id \in Ids :
          /\ pc[t] = "passed" /\ pc'[t] \in {"done", "get"}
          /\ granted'[t] = id \/ (phase[id] = "live" /\ phase'[id] = "gone")
          => proof[t] = Signed(id)]_vars

(* The guard refuses a form only if, since its page was requested, the     *)
(* browser's cookies, a session or the key changed, or the anonymous       *)
(* identity lapsed: what delivery issues, reject_mutation accepts.         *)
ProofsWork ==
    [][\A t \in Tabs : pc[t] = "post" /\ pc'[t] = "refused" => ~ fresh[t]]_vars
==============================================================================
