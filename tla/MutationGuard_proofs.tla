------------------------ MODULE MutationGuard_proofs ------------------------
(***************************************************************************)
(* Proofs about module MutationGuard, for any number of tabs, sessions,    *)
(* nonces and keys and any lifetime of an anonymous identity.              *)
(***************************************************************************)
EXTENDS MutationGuard, TLAPS

Cookies == [session : Tokens(Ids) \cup {Nobody}, anon : Tokens(Anonymous) \cup {Nobody}]
Changes == [session : Tokens(Ids) \cup {Nobody, Keep}, anon : Tokens(Anonymous) \cup {Keep}]
Stages == {"idle", "get", "page", "post", "passed", "refused", "done"}

TypeOK ==
    /\ phase \in [Ids -> {"unborn", "live", "gone"}]
    /\ granted \in [Tabs -> Ids \cup {Nobody}]
    /\ clock \in Nat /\ key \in Nat /\ used \subseteq Nonces
    /\ jar \in Cookies
    /\ pc \in [Tabs -> Stages]
    /\ sent \in [Tabs -> Cookies]
    /\ proof \in [Tabs -> Tokens(Ids) \cup Tokens(Anonymous) \cup {Nobody}]
    /\ answer \in [Tabs -> Changes]
    /\ fresh \in [Tabs -> BOOLEAN]

(* A session token that is anywhere names a session that was created.      *)
Born(phases, token) == token \in Tokens(Ids) => phases[token.identity] # "unborn"

TokensAreOfSessions ==
    /\ Born(phase, jar.session)
    /\ \A t \in Tabs : Born(phase, sent[t].session) /\ Born(phase, answer[t].session)

(* The session that cookies name under this key, if it is live.            *)
LiveSession(cookies, id) ==
    cookies.session \in Tokens(Ids) /\ cookies.session = Signed(id) /\ phase[id] = "live"

(* Past the guard, the form held the proof of the session the guard loaded *)
(* and of the one the request names, if that one is live.                  *)
HoldsProof(t) ==
    /\ granted[t] # Nobody => proof[t] = Signed(granted[t])
    /\ \A id \in Ids : LiveSession(sent[t], id) => proof[t] = Signed(id)

PassedWithProof == \A t \in Tabs : pc[t] = "passed" => HoldsProof(t)

(* A proof that the guard accepts with these cookies.                      *)
Fits(token, cookies) ==
    \/ \E id \in Ids : LiveSession(cookies, id) /\ token = Signed(id)
    \/ /\ \A id \in Ids : ~ LiveSession(cookies, id)
       /\ Accepted(cookies.anon)
       /\ token = Signed(cookies.anon.identity)

(* The cookies that will be there when the form of the page is.            *)
Coming(t) == IF pc[t] = "page" THEN JarAfter(answer[t]) ELSE jar

(* What an answer will set is decided between its making and its arrival,  *)
(* and a page sets no session cookie.                                      *)
AnswersInOrder ==
    \A t \in Tabs :
        /\ pc[t] \notin {"page", "done"} => answer[t] = SetsNone
        /\ pc[t] = "page" => answer[t].session = Keep

(* While nothing that matters changed, a request carries what the jar      *)
(* holds, and the proof a tab has fits the jar.                            *)
FreshProofsFit ==
    \A t \in Tabs :
        /\ pc[t] = "post" => proof[t] # Nobody
        /\ fresh[t] /\ pc[t] \in {"get", "post", "passed", "refused"} => sent[t] = jar
        /\ fresh[t] /\ proof[t] # Nobody => Fits(proof[t], Coming(t))

IInv == TypeOK /\ TokensAreOfSessions /\ PassedWithProof /\ AnswersInOrder /\ FreshProofsFit
-----------------------------------------------------------------------------
(* A signature with a key of the server is a token of its identity.        *)
LEMMA SignedFacts ==
    ASSUME TypeOK, NEW S, NEW identity \in S
    PROVE  /\ Signed(identity) \in Tokens(S)
           /\ Signed(identity).identity = identity
           /\ Signed(identity).key = key
BY DEF TypeOK, Signed, Tokens

(* No cookie and no change of a cookie is a token.                         *)
LEMMA NoTokens ==
    /\ NoCookies \in Cookies /\ SetsNone \in Changes
    /\ Born(phase, NoCookies.session) /\ Born(phase, SetsNone.session)
    /\ NoCookies.session = Nobody /\ SetsNone.session = Keep /\ SetsNone.anon = Keep
BY NamesAssumption DEF NoCookies, SetsNone, Cookies, Changes, Born

(* The session that a request names is the one its cookie was signed for.  *)
LEMMA NamedFacts ==
    ASSUME TypeOK, NEW t \in Tabs
    PROVE  /\ Named(t) \in Ids \cup {Nobody}
           /\ Named(t) \in Ids => /\ sent[t].session \in Tokens(Ids)
                                  /\ sent[t].session = Signed(Named(t))
           /\ \A id \in Ids : LiveSession(sent[t], id) <=> Named(t) = id /\ phase[id] = "live"
<1>. DEFINE token == sent[t].session
<1>1. token \in Tokens(Ids) \cup {Nobody}
  BY DEF TypeOK, Cookies
<1>2. \A x \in Tokens(Ids) : x.identity \in Ids /\ x = [identity |-> x.identity, key |-> x.key]
  BY DEF Tokens
<1>3. Nobody \notin Ids /\ Nobody \notin Tokens(Ids)
  BY NamesAssumption
<1>4. Named(t) = IF token # Nobody /\ token.key = key THEN token.identity ELSE Nobody
  BY DEF Named
<1>. HIDE DEF token
<1>5. CASE token \in Tokens(Ids) /\ token.key = key
  <2>1. Named(t) = token.identity /\ token.identity \in Ids /\ token = Signed(Named(t))
    BY <1>2, <1>3, <1>4, <1>5 DEF Signed
  <2>2. \A id \in Ids : token = Signed(id) <=> Named(t) = id
    BY <1>5, <2>1 DEF Signed
  <2>. QED
    BY <1>5, <2>1, <2>2 DEF LiveSession, token
<1>6. CASE token \in Tokens(Ids) /\ token.key # key
  <2>1. Named(t) = Nobody
    BY <1>4, <1>6
  <2>2. \A id \in Ids : token # Signed(id)
    BY <1>6 DEF Signed
  <2>. QED
    BY <1>3, <2>1, <2>2 DEF LiveSession, token
<1>7. CASE token = Nobody
  <2>1. Named(t) = Nobody
    BY <1>4, <1>7
  <2>. QED
    BY <1>3, <1>7, <2>1 DEF LiveSession, token
<1>. QED
  BY <1>1, <1>5, <1>6, <1>7

(* A load grants the named session if it is live and nothing if not.       *)
LEMMA LoadsFacts ==
    ASSUME TypeOK, NEW t \in Tabs, Loads(t)
    PROVE  /\ phase' = phase
           /\ granted' \in [Tabs -> Ids \cup {Nobody}]
           /\ \A u \in Tabs : u # t => granted'[u] = granted[u]
           /\ \/ /\ granted'[t] = Named(t) /\ Named(t) \in Ids /\ phase[Named(t)] = "live"
                 /\ granted'[t] # Nobody
              \/ /\ granted'[t] = Nobody
                 /\ \A id \in Ids : ~ (Named(t) = id /\ phase[id] = "live")
<1>1. Named(t) \in Ids \cup {Nobody} /\ Nobody \notin Ids
  BY NamedFacts, NamesAssumption
<1>2. CASE Named(t) # Nobody /\ Sessions!Grant(t, Named(t))
  BY <1>1, <1>2 DEF TypeOK, Sessions!Grant
<1>3. CASE /\ Named(t) \notin {id \in Ids : phase[id] = "live"}
           /\ granted' = [granted EXCEPT ![t] = Nobody]
           /\ UNCHANGED phase
  BY <1>1, <1>3 DEF TypeOK
<1>. QED
  BY <1>2, <1>3 DEF Loads

(* The jar after an answer, cookie by cookie.                              *)
LEMMA JarAfterFacts ==
    ASSUME TypeOK, NEW set
    PROVE  JarAfter(set) = [session |-> IF set.session = Keep THEN jar.session ELSE set.session,
                            anon |-> IF set.anon = Keep THEN jar.anon ELSE set.anon]
<1>1. jar = [session |-> jar.session, anon |-> jar.anon]
  BY DEF TypeOK, Cookies
<1>2. DOMAIN jar = {"session", "anon"}
  BY <1>1
<1>. QED
  BY <1>2 DEF JarAfter

(* What the steps of the registry do to the phases: forward only.          *)
Forward ==
    /\ phase' \in [Ids -> {"unborn", "live", "gone"}]
    /\ \A id \in Ids : phase'[id] = "unborn" => phase[id] = "unborn"
    /\ \A id \in Ids : phase[id] = "gone" => phase'[id] = "gone"

LEMMA PhaseFacts ==
    ASSUME TypeOK, Next
    PROVE  Forward
<1>1. CASE phase' = phase
  BY <1>1 DEF TypeOK, Forward
<1>2. ASSUME NEW id, phase' = Ended(id) PROVE Forward
  BY <1>2 DEF TypeOK, Forward, Ended
<1>3. ASSUME NEW id \in Ids, Sessions!Register(id) PROVE Forward
  BY <1>3 DEF TypeOK, Forward, Sessions!Register
<1>4. ASSUME NEW t \in Tabs, Loads(t) PROVE Forward
  BY <1>1, <1>4, LoadsFacts
<1>5. ASSUME NEW t \in Tabs, Open(t) \/ Arrive(t) \/ Submit(t) \/ Fails(t) PROVE Forward
  BY <1>1, <1>5 DEF Open, Arrive, Submit, Fails, registry
<1>6. ASSUME NEW t \in Tabs, Deliver(t) \/ CheckProof(t) \/ Act(t) PROVE Forward
  BY <1>4, <1>6 DEF Deliver, CheckProof, Act
<1>7. ASSUME NEW t \in Tabs, Login(t) PROVE Forward
  BY <1>3, <1>7 DEF Login
<1>8. ASSUME NEW t \in Tabs, Logout(t) PROVE Forward
  BY <1>2, <1>8 DEF Logout
<1>9. ASSUME NEW id \in Ids, End(id) PROVE Forward
  BY <1>2, <1>9 DEF End
<1>10. CASE Tick \/ Rotate
  BY <1>1, <1>10 DEF Tick, Rotate, registry
<1>. QED
  BY <1>5, <1>6, <1>7, <1>8, <1>9, <1>10 DEF Next

-----------------------------------------------------------------------------
(* Cookies and changes of them, put together.                              *)
LEMMA InitTypeOK ==
    Init => TypeOK
<1>. SUFFICES ASSUME Init PROVE TypeOK
  OBVIOUS
<1>1. phase = [id \in Ids |-> "unborn"] /\ granted = [w \in Tabs |-> Nobody]
  BY DEF Init, Sessions!Init
<1>2. NoCookies \in Cookies /\ SetsNone \in Changes
  BY NoTokens
<1>. QED
  BY <1>1, <1>2 DEF Init, TypeOK, Stages

LEMMA NextTypeOK ==
    ASSUME TypeOK, Next
    PROVE  TypeOK'
<1>. USE DEF TypeOK
<1>0. /\ phase' \in [Ids -> {"unborn", "live", "gone"}]
      /\ NoCookies \in Cookies /\ SetsNone \in Changes
  BY PhaseFacts, NoTokens DEF Forward
<1>1. ASSUME NEW t \in Tabs, Open(t) PROVE TypeOK'
  BY <1>0, <1>1 DEF Open, registry, Stages
<1>2. ASSUME NEW t \in Tabs, Deliver(t) PROVE TypeOK'
  <2>1. granted' \in [Tabs -> Ids \cup {Nobody}]
    BY <1>2, LoadsFacts DEF Deliver
  <2>2. /\ proof' \in [Tabs -> Tokens(Ids) \cup Tokens(Anonymous) \cup {Nobody}]
        /\ answer' \in [Tabs -> Changes]
        /\ used' \subseteq Nonces
    <3>1. CASE /\ granted'[t] # Nobody
               /\ proof' = [proof EXCEPT ![t] = Signed(granted'[t])]
               /\ UNCHANGED <<used, answer>>
      <4>1. Signed(granted'[t]) \in Tokens(Ids)
        BY <2>1, <3>1, SignedFacts
      <4>. QED
        BY <3>1, <4>1
    <3>2. CASE /\ granted'[t] = Nobody /\ Accepted(sent[t].anon)
               /\ proof' = [proof EXCEPT ![t] = Signed(sent[t].anon.identity)]
               /\ UNCHANGED <<used, answer>>
      <4>1. sent[t].anon \in Tokens(Anonymous)
        BY <3>2 DEF Accepted, Cookies
      <4>2. sent[t].anon.identity \in Anonymous
        BY <4>1 DEF Tokens
      <4>3. Signed(sent[t].anon.identity) \in Tokens(Anonymous)
        BY <4>2, SignedFacts
      <4>. QED
        BY <3>2, <4>3
    <3>3. ASSUME NEW n \in Nonces \ used,
                 used' = used \cup {n},
                 proof' = [proof EXCEPT ![t] = Signed([at |-> clock, nonce |-> n])],
                 answer' = [answer EXCEPT ![t].anon = Signed([at |-> clock, nonce |-> n])]
          PROVE  /\ proof' \in [Tabs -> Tokens(Ids) \cup Tokens(Anonymous) \cup {Nobody}]
                 /\ answer' \in [Tabs -> Changes]
                 /\ used' \subseteq Nonces
      <4>1. [at |-> clock, nonce |-> n] \in Anonymous
        BY DEF Anonymous
      <4>2. Signed([at |-> clock, nonce |-> n]) \in Tokens(Anonymous)
        BY <4>1, SignedFacts
      <4>3. answer' \in [Tabs -> Changes]
        BY <3>3, <4>2 DEF Changes
      <4>. QED
        BY <3>3, <4>2, <4>3
    <3>. QED
      BY <1>2, <3>1, <3>2, <3>3 DEF Deliver
  <2>. QED
    BY <1>0, <1>2, <2>1, <2>2 DEF Deliver, Stages
<1>3. ASSUME NEW t \in Tabs, Arrive(t) PROVE TypeOK'
  <2>1. answer[t] \in Changes
    OBVIOUS
  <2>2. JarAfter(answer[t]) \in Cookies
    BY <2>1, JarAfterFacts DEF Cookies, Changes
  <2>. QED
    BY <1>0, <1>3, <2>2 DEF Arrive, registry, Stages
<1>4. ASSUME NEW t \in Tabs, Submit(t) PROVE TypeOK'
  BY <1>0, <1>4 DEF Submit, registry, Stages
<1>5. ASSUME NEW t \in Tabs, CheckProof(t) PROVE TypeOK'
  <2>1. granted' \in [Tabs -> Ids \cup {Nobody}]
    BY <1>5, LoadsFacts DEF CheckProof
  <2>. QED
    BY <1>0, <1>5, <2>1 DEF CheckProof, Stages
<1>6. ASSUME NEW t \in Tabs, Fails(t) PROVE TypeOK'
  BY <1>0, <1>6 DEF Fails, registry, Stages
<1>7. ASSUME NEW t \in Tabs, Act(t) PROVE TypeOK'
  <2>1. granted' \in [Tabs -> Ids \cup {Nobody}]
    BY <1>7, LoadsFacts DEF Act
  <2>2. UNCHANGED <<clock, key, used, jar, sent, proof, answer, fresh>>
    BY <1>7 DEF Act
  <2>3. pc' \in [Tabs -> Stages]
    BY <1>7 DEF Act, Stages
  <2>. QED
    BY <1>0, <2>1, <2>2, <2>3
<1>8. ASSUME NEW t \in Tabs, Login(t) PROVE TypeOK'
  <2>1. PICK id \in Ids : /\ Sessions!Register(id)
                          /\ answer' = [answer EXCEPT ![t].session = Signed(id)]
    BY <1>8 DEF Login
  <2>2. Signed(id) \in Tokens(Ids)
    BY SignedFacts
  <2>3. answer' \in [Tabs -> Changes]
    BY <2>1, <2>2 DEF Changes
  <2>. QED
    BY <1>0, <1>8, <2>1, <2>3 DEF Login, Stages, Sessions!Register
<1>9. ASSUME NEW t \in Tabs, Logout(t) PROVE TypeOK'
  <2>1. answer' \in [Tabs -> Changes]
    BY <1>9 DEF Logout, Changes
  <2>. QED
    BY <1>0, <1>9, <2>1 DEF Logout, Stages
<1>10. ASSUME NEW id \in Ids, End(id) PROVE TypeOK'
  BY <1>0, <1>10 DEF End
<1>11. CASE Tick
  BY <1>0, <1>11 DEF Tick, registry
<1>12. CASE Rotate
  BY <1>0, <1>12 DEF Rotate, registry, Stages
<1>. QED
  BY <1>1, <1>2, <1>3, <1>4, <1>5, <1>6, <1>7, <1>8, <1>9, <1>10, <1>11, <1>12 DEF Next

-----------------------------------------------------------------------------
(* Every token of a session that is handed around was made by Login, after *)
(* the session was registered, and a session is never unregistered.        *)
LEMMA NextTokensAreOfSessions ==
    ASSUME TypeOK, TokensAreOfSessions, Next
    PROVE  TokensAreOfSessions'
<1>. DEFINE Sent == \A t \in Tabs : sent'[t] \in {sent[t], jar, NoCookies}
            Set == \A t \in Tabs : answer'[t].session = answer[t].session
                                     \/ Born(phase', answer'[t].session)
<1>1. ASSUME NEW token, Born(phase, token) PROVE Born(phase', token)
  <2>1. \A x \in Tokens(Ids) : x.identity \in Ids
    BY DEF Tokens
  <2>. QED
    BY <1>1, <2>1, PhaseFacts DEF Born, Forward
<1>2. Born(phase', NoCookies.session) /\ Born(phase', SetsNone.session) /\ Born(phase', Nobody)
  BY NamesAssumption, NoTokens, <1>1 DEF Born
<1>3. ASSUME jar'.session = jar.session \/ \E t \in Tabs : jar'.session = answer[t].session,
             Sent, Set
      PROVE  TokensAreOfSessions'
  <2>1. /\ Born(phase', jar.session)
        /\ \A t \in Tabs : Born(phase', sent[t].session) /\ Born(phase', answer[t].session)
    BY <1>1 DEF TokensAreOfSessions
  <2>2. Born(phase', jar'.session)
    BY <1>3, <2>1
  <2>3. \A t \in Tabs : Born(phase', sent'[t].session) /\ Born(phase', answer'[t].session)
    BY <1>2, <1>3, <2>1
  <2>. QED
    BY <2>2, <2>3 DEF TokensAreOfSessions
<1>4. ASSUME NEW t \in Tabs, Open(t) \/ Submit(t) PROVE TokensAreOfSessions'
  BY <1>3, <1>4 DEF Open, Submit, TypeOK
<1>5. ASSUME NEW t \in Tabs, Deliver(t) PROVE TokensAreOfSessions'
  <2>1. jar' = jar /\ Sent
    BY <1>5 DEF Deliver, TypeOK
  <2>2. \/ answer' = answer
        \/ \E token : answer' = [answer EXCEPT ![t].anon = token]
    BY <1>5 DEF Deliver
  <2>3. Set
    BY <2>2 DEF TypeOK, Changes
  <2>. QED
    BY <1>3, <2>1, <2>3
<1>6. ASSUME NEW t \in Tabs, Arrive(t) PROVE TokensAreOfSessions'
  <2>1. jar'.session = jar.session \/ jar'.session = answer[t].session
    BY <1>6, JarAfterFacts DEF Arrive
  <2>2. Sent /\ Set
    BY <1>2, <1>6 DEF Arrive, TypeOK
  <2>. QED
    BY <1>3, <2>1, <2>2
<1>7. ASSUME NEW t \in Tabs, CheckProof(t) \/ Act(t) \/ Fails(t) PROVE TokensAreOfSessions'
  BY <1>3, <1>7 DEF CheckProof, Act, Fails, TypeOK
<1>8. ASSUME NEW t \in Tabs, Login(t) PROVE TokensAreOfSessions'
  <2>1. PICK id \in Ids : /\ Sessions!Register(id)
                          /\ answer' = [answer EXCEPT ![t].session = Signed(id)]
    BY <1>8 DEF Login
  <2>2. phase'[id] = "live" /\ Signed(id).identity = id
    BY <2>1, SignedFacts DEF Sessions!Register, TypeOK
  <2>3. Born(phase', Signed(id))
    BY <2>2 DEF Born
  <2>4. \A u \in Tabs : answer'[u].session = IF u = t THEN Signed(id) ELSE answer[u].session
    BY <2>1 DEF TypeOK, Changes
  <2>. QED
    BY <1>3, <1>8, <2>3, <2>4 DEF Login
<1>9. ASSUME NEW t \in Tabs, Logout(t) PROVE TokensAreOfSessions'
  <2>1. \A u \in Tabs : answer'[u].session = IF u = t THEN Nobody ELSE answer[u].session
    BY <1>9 DEF Logout, TypeOK, Changes
  <2>. QED
    BY <1>2, <1>3, <1>9, <2>1 DEF Logout
<1>10. CASE Tick \/ \E id \in Ids : End(id)
  BY <1>3, <1>10 DEF Tick, End
<1>11. CASE Rotate
  BY <1>3, <1>11 DEF Rotate, TypeOK
<1>. QED
  BY <1>4, <1>5, <1>6, <1>7, <1>8, <1>9, <1>10, <1>11 DEF Next

-----------------------------------------------------------------------------
(* Nothing that a request past the guard relies on is touched by another   *)
(* tab, and a change of the key is the end of the request.                 *)
LEMMA PassedUntouched ==
    ASSUME TypeOK, Next, NEW t \in Tabs, pc[t] = "passed", pc'[t] = "passed"
    PROVE  /\ key' = key /\ granted'[t] = granted[t]
           /\ sent'[t] = sent[t] /\ proof'[t] = proof[t]
<1>. DEFINE Untouched == /\ key' = key /\ granted'[t] = granted[t]
                         /\ sent'[t] = sent[t] /\ proof'[t] = proof[t]
<1>1. ASSUME NEW u \in Tabs, Open(u) \/ Arrive(u) \/ Submit(u) \/ Fails(u) \/ Login(u) \/ Logout(u)
      PROVE  Untouched
  BY <1>1 DEF TypeOK, Open, Arrive, Submit, Fails, Login, Logout, registry, Sessions!Register
<1>2. ASSUME NEW u \in Tabs, Deliver(u) PROVE Untouched
  <2>1. u # t
    BY <1>2 DEF Deliver
  <2>2. granted'[t] = granted[t]
    BY <1>2, <2>1, LoadsFacts DEF Deliver
  <2>. QED
    BY <1>2, <2>1, <2>2 DEF Deliver, TypeOK
<1>3. ASSUME NEW u \in Tabs, CheckProof(u) \/ Act(u) PROVE Untouched
  <2>1. u # t
    BY <1>3 DEF CheckProof, Act, TypeOK
  <2>. QED
    BY <1>3, <2>1, LoadsFacts DEF CheckProof, Act
<1>4. CASE Tick \/ \E id \in Ids : End(id)
  BY <1>4 DEF Tick, End, registry
<1>5. CASE Rotate
  BY <1>5 DEF Rotate, TypeOK
<1>. QED
  BY <1>1, <1>2, <1>3, <1>4, <1>5 DEF Next

(* No session is born under a cookie that names it, so none becomes live   *)
(* behind the guard's back.                                                *)
LEMMA NextPassedWithProof ==
    ASSUME TypeOK, TokensAreOfSessions, PassedWithProof, Next
    PROVE  PassedWithProof'
<1>. SUFFICES ASSUME NEW t \in Tabs, pc'[t] = "passed"
              PROVE  HoldsProof(t)'
  BY DEF PassedWithProof
<1>1. CASE pc[t] = "passed"
  <2>1. HoldsProof(t)
    BY <1>1 DEF PassedWithProof
  <2>2. /\ key' = key /\ granted'[t] = granted[t]
        /\ sent'[t] = sent[t] /\ proof'[t] = proof[t]
    BY <1>1, PassedUntouched
  <2>3. ASSUME NEW id \in Ids, LiveSession(sent[t], id)' PROVE LiveSession(sent[t], id)
    <3>1. /\ sent[t].session \in Tokens(Ids) /\ sent[t].session = Signed(id)
          /\ phase'[id] = "live"
      BY <2>2, <2>3 DEF LiveSession, Signed
    <3>2. phase[id] # "unborn"
      BY <3>1, SignedFacts DEF TokensAreOfSessions, Born
    <3>3. phase[id] # "gone"
      BY <3>1, PhaseFacts DEF Forward
    <3>. QED
      BY <3>1, <3>2, <3>3 DEF LiveSession, TypeOK
  <2>. QED
    BY <2>1, <2>2, <2>3 DEF HoldsProof, Signed
<1>2. CASE pc[t] # "passed"
  <2>1. CheckProof(t)
    BY <1>2 DEF Next, TypeOK, Open, Deliver, Arrive, Submit, CheckProof, Fails, Act, Login, Logout,
                End, Tick, Rotate
  <2>2. sent[t] = NoCookies \/ Valid(t, granted'[t])
    BY <2>1 DEF CheckProof, TypeOK
  <2>3. /\ key' = key /\ phase' = phase /\ sent' = sent /\ proof' = proof
        /\ \A id \in Ids : LiveSession(sent[t], id) <=> Named(t) = id /\ phase[id] = "live"
    BY <2>1, LoadsFacts, NamedFacts DEF CheckProof
  <2>4. CASE granted'[t] = Nobody
    <3>1. \A id \in Ids : ~ LiveSession(sent[t], id)
      BY <2>1, <2>3, <2>4, LoadsFacts DEF CheckProof
    <3>. QED
      BY <2>3, <2>4, <3>1 DEF HoldsProof, LiveSession, Signed
  <2>5. CASE granted'[t] # Nobody
    <3>1. granted'[t] = Named(t) /\ Named(t) \in Ids /\ LiveSession(sent[t], Named(t))
      BY <2>1, <2>3, <2>5, LoadsFacts DEF CheckProof
    <3>2. sent[t] # NoCookies
      BY <3>1, NoTokens, NamesAssumption DEF LiveSession
    <3>3. proof[t] = Signed(Named(t))
      BY <2>2, <2>5, <3>1, <3>2 DEF Valid
    <3>. QED
      BY <2>3, <3>1, <3>3 DEF HoldsProof, LiveSession, Signed
  <2>. QED
    BY <2>4, <2>5
<1>. QED
  BY <1>1, <1>2
-----------------------------------------------------------------------------
LEMMA NextAnswersInOrder ==
    ASSUME TypeOK, AnswersInOrder, Next
    PROVE  AnswersInOrder'
<1>. USE DEF AnswersInOrder
<1>1. SetsNone.session = Keep
  BY NoTokens
<1>2. ASSUME NEW t \in Tabs, Deliver(t) PROVE AnswersInOrder'
  <2>1. pc[t] = "get" /\ answer[t] = SetsNone /\ pc' = [pc EXCEPT ![t] = "page"]
    BY <1>2 DEF Deliver
  <2>2. answer' = answer \/ \E token : answer' = [answer EXCEPT ![t].anon = token]
    BY <1>2 DEF Deliver
  <2>3. \A u \in Tabs : answer'[u].session = answer[u].session
                          /\ (u # t => answer'[u] = answer[u])
    BY <2>2 DEF TypeOK, Changes
  <2>. QED
    BY <1>1, <2>1, <2>3 DEF TypeOK
<1>3. ASSUME NEW t \in Tabs, Login(t) \/ Logout(t) PROVE AnswersInOrder'
  <2>1. \A u \in Tabs : u # t => answer'[u] = answer[u]
    BY <1>3 DEF Login, Logout, TypeOK
  <2>. QED
    BY <1>3, <2>1 DEF Login, Logout, TypeOK
<1>4. ASSUME NEW t \in Tabs, Open(t) \/ Arrive(t) \/ Submit(t) \/ CheckProof(t) \/ Fails(t) \/ Act(t)
      PROVE  AnswersInOrder'
  BY <1>4 DEF Open, Arrive, Submit, CheckProof, Fails, Act, TypeOK
<1>5. CASE Tick \/ Rotate \/ \E id \in Ids : End(id)
  BY <1>5 DEF Tick, Rotate, End, TypeOK
<1>. QED
  BY <1>2, <1>3, <1>4, <1>5 DEF Next

(* What has not changed for a tab that is fresh after a step: the key, the *)
(* sessions that were born, the jar unless its own page filled it, and its *)
(* anonymous identity has not lapsed.                                      *)
Unlapsed(t) ==
    /\ clock' \in Nat /\ clock <= clock'
    /\ \/ clock' = clock
       \/ proof[t] # Nobody /\ proof[t].identity \notin Ids => clock' - proof[t].identity.at < TTL

LEMMA FreshFacts ==
    ASSUME TypeOK, Next, NEW t \in Tabs, fresh'[t]
    PROVE  /\ Open(t) \/ fresh[t]
           /\ key' = key /\ Unlapsed(t)
           /\ \A id \in Ids : phase[id] # "unborn" => phase'[id] = phase[id]
           /\ jar' = jar \/ (Arrive(t) /\ pc[t] = "page")
<1>. DEFINE Same == /\ Open(t) \/ fresh[t]
                    /\ key' = key /\ Unlapsed(t)
                    /\ \A id \in Ids : phase[id] # "unborn" => phase'[id] = phase[id]
                    /\ jar' = jar \/ (Arrive(t) /\ pc[t] = "page")
<1>1. ASSUME NEW u \in Tabs, Open(u) \/ Submit(u) \/ Fails(u) PROVE Same
  BY <1>1 DEF Open, Submit, Fails, registry, TypeOK, Unlapsed
<1>2. ASSUME NEW u \in Tabs, Arrive(u) PROVE Same
  <2>1. fresh[t] /\ (jar' = jar \/ (t = u /\ pc[u] = "page"))
    BY <1>2, Zenon DEF Arrive
  <2>2. jar' = jar \/ (Arrive(t) /\ pc[t] = "page")
    BY <1>2, <2>1
  <2>3. key' = key /\ phase' = phase /\ Unlapsed(t)
    BY <1>2 DEF Arrive, registry, TypeOK, Unlapsed
  <2>. QED
    BY <2>1, <2>2, <2>3
<1>3. ASSUME NEW u \in Tabs, Deliver(u) \/ CheckProof(u) \/ Act(u) PROVE Same
  <2>1. phase' = phase
    BY <1>3, LoadsFacts DEF Deliver, CheckProof, Act
  <2>. QED
    BY <1>3, <2>1 DEF Deliver, CheckProof, Act, TypeOK, Unlapsed
<1>4. ASSUME NEW u \in Tabs, Login(u) PROVE Same
  BY <1>4 DEF Login, Sessions!Register, TypeOK, Unlapsed
<1>5. ASSUME NEW u \in Tabs, Logout(u) PROVE Same
  <2>1. fresh[t] /\ phase' = phase
    BY <1>5, Zenon DEF Logout
  <2>. QED
    BY <1>5, <2>1 DEF Logout, TypeOK, Unlapsed
<1>6. ASSUME NEW id \in Ids, End(id) PROVE Same
  BY <1>6 DEF End
<1>7. CASE Tick
  <2>1. /\ fresh[t]
        /\ ~ (proof[t] # Nobody /\ proof[t].identity \notin Ids /\ clock' - proof[t].identity.at >= TTL)
    BY <1>7, Zenon DEF Tick
  <2>2. clock' \in Nat /\ clock <= clock'
    BY <1>7 DEF Tick, TypeOK
  <2>3. proof[t] # Nobody /\ proof[t].identity \notin Ids => proof[t].identity.at \in Nat
    BY DEF TypeOK, Tokens, Anonymous
  <2>4. Unlapsed(t)
    BY <2>1, <2>2, <2>3, BoundsAssumption DEF Unlapsed
  <2>. QED
    BY <1>7, <2>1, <2>4 DEF Tick, registry
<1>8. CASE Rotate
  BY <1>8 DEF Rotate
<1>. QED
  BY <1>1, <1>2, <1>3, <1>4, <1>5, <1>6, <1>7, <1>8 DEF Next

(* So a proof that fits the cookies of such a tab goes on fitting them.    *)
LEMMA FitsKept ==
    ASSUME TypeOK, Next, NEW t \in Tabs, fresh'[t],
           NEW token, token = proof[t], token # Nobody,
           NEW cookies \in Cookies, Born(phase, cookies.session), Fits(token, cookies)
    PROVE  Fits(token, cookies)'
<1>1. key' = key /\ Unlapsed(t) /\ \A id \in Ids : phase[id] # "unborn" => phase'[id] = phase[id]
  BY FreshFacts
<1>2. ASSUME NEW id \in Ids PROVE LiveSession(cookies, id)' <=> LiveSession(cookies, id)
  <2>1. ASSUME cookies.session \in Tokens(Ids), cookies.session = Signed(id)
        PROVE  phase'[id] = phase[id]
    BY <1>1, <2>1, SignedFacts DEF Born
  <2>. QED
    BY <1>1, <2>1 DEF LiveSession, Signed
<1>3. CASE \E id \in Ids : LiveSession(cookies, id) /\ token = Signed(id)
  BY <1>1, <1>2, <1>3 DEF Fits, Signed
<1>4. CASE /\ \A id \in Ids : ~ LiveSession(cookies, id)
           /\ Accepted(cookies.anon)
           /\ token = Signed(cookies.anon.identity)
  <2>1. /\ cookies.anon # Nobody /\ cookies.anon \in Tokens(Anonymous)
        /\ cookies.anon.identity \in Anonymous /\ cookies.anon.identity \notin Ids
        /\ cookies.anon.identity.at \in Nat
    BY <1>4, NamesAssumption DEF Accepted, Cookies, Tokens, Anonymous
  <2>2. proof[t].identity = cookies.anon.identity
    BY <1>4, <2>1, SignedFacts
  <2>3. Accepted(cookies.anon)'
    BY <1>1, <1>4, <2>1, <2>2, BoundsAssumption DEF Accepted, Unlapsed, TypeOK
  <2>4. \A id \in Ids : ~ LiveSession(cookies, id)'
    BY <1>2, <1>4
  <2>. QED
    BY <1>1, <1>4, <2>3, <2>4 DEF Fits, Signed
<1>. QED
  BY <1>3, <1>4 DEF Fits

(* What delivery issues for the cookies of a request fits the jar that the *)
(* answer leaves behind.                                                   *)
LEMMA DeliverFits ==
    ASSUME IInv, NEW t \in Tabs, Deliver(t), fresh[t]
    PROVE  Fits(proof[t], Coming(t))'
<1>1. /\ TypeOK /\ sent[t] = jar /\ answer[t] = SetsNone /\ jar' = jar
      /\ key' = key /\ clock' = clock /\ phase' = phase /\ pc'[t] = "page"
  BY LoadsFacts DEF IInv, TypeOK, AnswersInOrder, FreshProofsFit, Deliver
<1>2. /\ SetsNone.session = Keep /\ SetsNone.anon = Keep
      /\ jar = [session |-> jar.session, anon |-> jar.anon]
  BY <1>1, NoTokens DEF TypeOK, Cookies
<1>3. TypeOK'
  BY <1>1, NextTypeOK DEF Next
<1>4. Coming(t)' = JarAfter(answer[t])'
  BY <1>1 DEF Coming
<1>5. JarAfter(answer[t])' =
         [session |-> IF answer'[t].session = Keep THEN jar.session ELSE answer'[t].session,
          anon |-> IF answer'[t].anon = Keep THEN jar.anon ELSE answer'[t].anon]
  BY <1>1, <1>2 DEF JarAfter
<1>6. \A id \in Ids : LiveSession(jar, id) <=> Named(t) = id /\ phase[id] = "live"
  BY <1>1, NamedFacts
<1>7. CASE /\ granted'[t] # Nobody
           /\ proof' = [proof EXCEPT ![t] = Signed(granted'[t])]
           /\ UNCHANGED <<used, answer>>
  <2>1. Coming(t)' = jar
    BY <1>1, <1>2, <1>4, <1>5, <1>7
  <2>2. granted'[t] \in Ids /\ LiveSession(jar, granted'[t])
    BY <1>1, <1>6, <1>7, LoadsFacts DEF Deliver
  <2>3. proof'[t] = Signed(granted'[t])
    BY <1>1, <1>7 DEF TypeOK
  <2>. QED
    BY <1>1, <2>1, <2>2, <2>3 DEF Fits, LiveSession, Signed
<1>8. CASE /\ granted'[t] = Nobody /\ Accepted(sent[t].anon)
           /\ proof' = [proof EXCEPT ![t] = Signed(sent[t].anon.identity)]
           /\ UNCHANGED <<used, answer>>
  <2>1. Coming(t)' = jar
    BY <1>1, <1>2, <1>4, <1>5, <1>8
  <2>2. \A id \in Ids : ~ LiveSession(jar, id)
    BY <1>1, <1>6, <1>8, LoadsFacts, NamesAssumption DEF Deliver
  <2>3. proof'[t] = Signed(jar.anon.identity)
    BY <1>1, <1>8 DEF TypeOK
  <2>. QED
    BY <1>1, <1>8, <2>1, <2>2, <2>3 DEF Fits, LiveSession, Signed, Accepted
<1>9. ASSUME NEW n \in Nonces, granted'[t] = Nobody,
             proof' = [proof EXCEPT ![t] = Signed([at |-> clock, nonce |-> n])],
             answer' = [answer EXCEPT ![t].anon = Signed([at |-> clock, nonce |-> n])]
      PROVE  Fits(proof[t], Coming(t))'
  <2>1. PICK token : token = Signed([at |-> clock, nonce |-> n])
    OBVIOUS
  <2>2. /\ token \in Tokens(Anonymous) /\ token # Keep /\ token # Nobody
        /\ token.identity = [at |-> clock, nonce |-> n] /\ token.key = key
    <3>1. [at |-> clock, nonce |-> n] \in Anonymous
      BY <1>1 DEF TypeOK, Anonymous
    <3>. QED
      BY <1>1, <2>1, <3>1, SignedFacts, NamesAssumption
  <2>3. proof'[t] = token /\ answer'[t].anon = token /\ answer'[t].session = Keep
    BY <1>1, <1>2, <1>9, <2>1 DEF TypeOK, Changes
  <2>4. Coming(t)' = [session |-> jar.session, anon |-> token]
    BY <1>4, <1>5, <2>2, <2>3
  <2>5. \A id \in Ids : ~ LiveSession(jar, id)
    BY <1>1, <1>6, <1>9, LoadsFacts, NamesAssumption DEF Deliver
  <2>6. Accepted(token)'
    BY <1>1, <2>2, BoundsAssumption DEF Accepted, TypeOK
  <2>. QED
    BY <1>1, <2>1, <2>2, <2>3, <2>4, <2>5, <2>6 DEF Fits, LiveSession, Signed, Accepted
<1>. QED
  BY <1>7, <1>8, <1>9 DEF Deliver
(* A step of tab t itself that is not about its page, or of another tab,   *)
(* leaves its proof and what its jar is to hold alone, if it stays fresh.  *)
LEMMA ProofKept ==
    ASSUME IInv, Next, NEW t \in Tabs, fresh'[t], ~ Open(t), ~ Deliver(t)
    PROVE  proof'[t] = proof[t] /\ Coming(t)' = Coming(t)
<1>. USE DEF IInv
<1>1. jar' = jar \/ (Arrive(t) /\ pc[t] = "page")
  BY FreshFacts
<1>2. CASE Arrive(t)
  <2>1. proof' = proof /\ pc'[t] = "idle" /\ jar' = JarAfter(answer[t])
    BY <1>2 DEF Arrive, TypeOK
  <2>2. CASE pc[t] = "page"
    BY <2>1, <2>2 DEF Coming
  <2>3. CASE pc[t] # "page"
    BY <1>1, <2>1, <2>3 DEF Coming
  <2>. QED
    BY <2>2, <2>3
<1>3. CASE ~ Arrive(t)
  <2>1. /\ proof'[t] = proof[t] /\ jar' = jar
        /\ pc[t] = "page" <=> pc'[t] = "page"
        /\ pc[t] = "page" => answer'[t] = answer[t]
    <3>1. jar' = jar
      BY <1>1, <1>3
    <3>2. ASSUME NEW u \in Tabs, Open(u) \/ Arrive(u) \/ Deliver(u)
          PROVE  proof'[t] = proof[t] /\ pc'[t] = pc[t] /\ answer'[t] = answer[t]
      <4>1. u # t
        BY <1>3, <3>2
      <4>2. CASE Open(u) \/ Arrive(u)
        BY <4>1, <4>2 DEF Open, Arrive, TypeOK
      <4>3. CASE Deliver(u)
        <5>1. answer'[t] = answer[t] /\ proof'[t] = proof[t]
          BY <4>1, <4>3 DEF Deliver, TypeOK
        <5>. QED
          BY <4>1, <4>3, <5>1 DEF Deliver, TypeOK
      <4>. QED
        BY <3>2, <4>2, <4>3
    <3>3. ASSUME NEW u \in Tabs,
                 Submit(u) \/ CheckProof(u) \/ Fails(u) \/ Act(u) \/ Login(u) \/ Logout(u)
          PROVE  /\ proof'[t] = proof[t] /\ (pc[t] = "page" <=> pc'[t] = "page")
                 /\ pc[t] = "page" => answer'[t] = answer[t]
      BY <3>3 DEF Submit, CheckProof, Fails, Act, Login, Logout, TypeOK
    <3>4. CASE Tick \/ Rotate \/ \E id \in Ids : End(id)
      BY <3>4 DEF Tick, Rotate, End, TypeOK
    <3>. QED
      BY <3>1, <3>2, <3>3, <3>4 DEF Next
  <2>2. jar = [session |-> jar.session, anon |-> jar.anon]
    BY DEF TypeOK, Cookies
  <2>. QED
    BY <2>1, <2>2 DEF Coming, JarAfter
<1>. QED
  BY <1>2, <1>3

LEMMA NextFreshProofsFit ==
    ASSUME IInv, Next
    PROVE  FreshProofsFit'
<1>. USE DEF IInv
<1>. SUFFICES ASSUME NEW t \in Tabs
              PROVE  /\ pc'[t] = "post" => proof'[t] # Nobody
                     /\ fresh'[t] /\ pc'[t] \in {"get", "post", "passed", "refused"} => sent'[t] = jar'
                     /\ fresh'[t] /\ proof'[t] # Nobody => Fits(proof[t], Coming(t))'
  BY DEF FreshProofsFit
<1>1. pc'[t] = "post" => proof'[t] # Nobody
  <2>1. ASSUME NEW u \in Tabs, Open(u) \/ Deliver(u) \/ Arrive(u) \/ Submit(u)
        PROVE  pc'[t] = "post" => proof'[t] # Nobody
    BY <2>1 DEF Open, Deliver, Arrive, Submit, TypeOK, FreshProofsFit
  <2>2. ASSUME NEW u \in Tabs, CheckProof(u) \/ Fails(u) \/ Act(u) \/ Login(u) \/ Logout(u)
        PROVE  pc'[t] = "post" => proof'[t] # Nobody
    BY <2>2 DEF CheckProof, Fails, Act, Login, Logout, TypeOK, FreshProofsFit
  <2>3. CASE Tick \/ Rotate \/ \E id \in Ids : End(id)
    BY <2>3 DEF Tick, Rotate, End, TypeOK, FreshProofsFit
  <2>. QED
    BY <2>1, <2>2, <2>3 DEF Next
<1>2. ASSUME fresh'[t], pc'[t] \in {"get", "post", "passed", "refused"} PROVE sent'[t] = jar'
  <2>1. CASE Open(t) \/ Submit(t)
    BY <2>1 DEF Open, Submit, TypeOK
  <2>2. CASE ~ Open(t) /\ ~ Submit(t)
    <3>1. fresh[t] /\ ~ Arrive(t) /\ jar' = jar
      BY <1>2, <2>2, FreshFacts DEF Arrive, TypeOK
    <3>2. ASSUME NEW u \in Tabs, Open(u) \/ Deliver(u) \/ Arrive(u) \/ Submit(u)
          PROVE  pc[t] = pc'[t] /\ sent'[t] = sent[t]
      BY <1>2, <2>2, <3>1, <3>2 DEF Open, Deliver, Arrive, Submit, TypeOK
    <3>3. ASSUME NEW u \in Tabs, CheckProof(u) \/ Fails(u) \/ Act(u) \/ Login(u) \/ Logout(u)
          PROVE  pc[t] \in {"get", "post", "passed", "refused"} /\ sent'[t] = sent[t]
      BY <1>2, <3>3 DEF CheckProof, Fails, Act, Login, Logout, TypeOK
    <3>4. ASSUME Tick \/ \E id \in Ids : End(id) PROVE pc[t] = pc'[t] /\ sent'[t] = sent[t]
      BY <3>4 DEF Tick, End
    <3>5. ~ Rotate
      BY <1>2 DEF Rotate
    <3>6. pc[t] \in {"get", "post", "passed", "refused"} /\ sent'[t] = sent[t]
      BY <1>2, <3>2, <3>3, <3>4, <3>5 DEF Next
    <3>. QED
      BY <3>1, <3>6 DEF FreshProofsFit
  <2>. QED
    BY <2>1, <2>2
<1>3. ASSUME fresh'[t], proof'[t] # Nobody PROVE Fits(proof[t], Coming(t))'
  <2>1. CASE Open(t)
    BY <1>3, <2>1 DEF Open, TypeOK
  <2>2. CASE Deliver(t)
    BY <1>3, <2>2, DeliverFits DEF Deliver
  <2>3. CASE ~ Open(t) /\ ~ Deliver(t)
    <3>1. fresh[t] /\ proof'[t] = proof[t] /\ Coming(t)' = Coming(t)
      BY <1>3, <2>3, FreshFacts, ProofKept
    <3>2. Coming(t) \in Cookies /\ Coming(t).session = jar.session
      BY JarAfterFacts DEF Coming, TypeOK, AnswersInOrder, Cookies, Changes
    <3>3. PICK token, cookies : token = proof[t] /\ cookies = Coming(t)
      OBVIOUS
    <3>4. Fits(token, cookies) /\ Born(phase, cookies.session)
      BY <1>3, <3>1, <3>2, <3>3 DEF FreshProofsFit, TokensAreOfSessions
    <3>5. Fits(token, cookies)'
      BY <1>3, <3>1, <3>2, <3>3, <3>4, FitsKept
    <3>. QED
      BY <3>1, <3>3, <3>5 DEF Fits, LiveSession, Accepted
  <2>. QED
    BY <2>1, <2>2, <2>3
<1>. QED
  BY <1>1, <1>2, <1>3

-----------------------------------------------------------------------------
(* The inductive invariant: tokens name sessions that were created, what   *)
(* passed the guard holds its proof, and a fresh tab's proof fits its jar. *)
THEOREM Inductive ==
    Spec => []IInv
<1>1. Init => IInv
  <2>. SUFFICES ASSUME Init PROVE IInv
    OBVIOUS
  <2>1. /\ jar = NoCookies /\ \A t \in Tabs : /\ sent[t] = NoCookies /\ answer[t] = SetsNone
                                              /\ pc[t] = "idle" /\ fresh[t] = FALSE
    BY DEF Init
  <2>. QED
    BY <2>1, InitTypeOK, NoTokens
       DEF IInv, TokensAreOfSessions, PassedWithProof, AnswersInOrder, FreshProofsFit
<1>2. IInv /\ [Next]_vars => IInv'
  <2>. SUFFICES ASSUME IInv, [Next]_vars PROVE IInv'
    OBVIOUS
  <2>1. CASE Next
    BY <2>1, NextTypeOK, NextTokensAreOfSessions, NextPassedWithProof, NextAnswersInOrder,
       NextFreshProofsFit DEF IInv
  <2>2. CASE UNCHANGED vars
    <3>1. TypeOK' /\ TokensAreOfSessions' /\ AnswersInOrder'
      BY <2>2 DEF vars, IInv, TypeOK, TokensAreOfSessions, AnswersInOrder
    <3>2. PassedWithProof'
      BY <2>2 DEF vars, IInv, PassedWithProof, HoldsProof, LiveSession, Signed
    <3>3. ASSUME NEW t \in Tabs PROVE Fits(proof[t], Coming(t))' = Fits(proof[t], Coming(t))
      BY <2>2 DEF vars, Fits, LiveSession, Accepted, Coming, JarAfter, Signed
    <3>4. FreshProofsFit'
      BY <2>2, <3>3 DEF vars, IInv, FreshProofsFit
    <3>. QED
      BY <3>1, <3>2, <3>4 DEF IInv
  <2>. QED
    BY <2>1, <2>2
<1>. QED
  BY <1>1, <1>2, PTL DEF Spec

(* Where an action acts for a session it has loaded, or destroys one, the  *)
(* form held the proof of that very session under the current key.         *)
THEOREM OnlyWithProof ==
    Spec => ActsOnlyWithProof
<1>. DEFINE ActsFor(t, id) ==
               /\ pc[t] = "passed" /\ pc'[t] \in {"done", "get"}
               /\ granted'[t] = id \/ (phase[id] = "live" /\ phase'[id] = "gone")
<1>1. ASSUME IInv, [Next]_vars, NEW t \in Tabs, NEW id \in Ids, ActsFor(t, id)
      PROVE  proof[t] = Signed(id)
  <2>1. TypeOK /\ HoldsProof(t) /\ id # Nobody
    BY <1>1, NamesAssumption DEF IInv, PassedWithProof
  <2>2. Act(t) \/ Login(t) \/ Logout(t)
    BY <1>1, <2>1 DEF vars, Next, TypeOK, Open, Deliver, Arrive, Submit, CheckProof, Fails, Act, Login,
                      Logout, End, Tick, Rotate
  <2>3. \A i \in Ids : LiveSession(sent[t], i) <=> Named(t) = i /\ phase[i] = "live"
    BY <2>1, NamedFacts
  <2>4. CASE Act(t)
    BY <1>1, <2>1, <2>3, <2>4, LoadsFacts DEF Act, HoldsProof, TypeOK
  <2>5. CASE Login(t)
    BY <1>1, <2>1, <2>5 DEF Login, Sessions!Register, HoldsProof, TypeOK
  <2>6. CASE Logout(t)
    BY <1>1, <2>1, <2>3, <2>6 DEF Logout, Ended, HoldsProof, TypeOK
  <2>. QED
    BY <2>2, <2>4, <2>5, <2>6
<1>2. IInv /\ [Next]_vars =>
        [\A t \in Tabs, id \in Ids :
            /\ pc[t] = "passed" /\ pc'[t] \in {"done", "get"}
            /\ granted'[t] = id \/ (phase[id] = "live" /\ phase'[id] = "gone")
            => proof[t] = Signed(id)]_vars
  BY <1>1
<1>. QED
  BY <1>2, Inductive, PTL DEF Spec, ActsOnlyWithProof

(* A form is refused only if something that matters changed since its page *)
(* was requested: what delivery issues, the guard accepts.                 *)
THEOREM DeliveredProofsWork ==
    Spec => ProofsWork
<1>1. ASSUME IInv, [Next]_vars, NEW t \in Tabs, pc[t] = "post", pc'[t] = "refused", fresh[t]
      PROVE  FALSE
  <2>1. TypeOK /\ sent[t] = jar /\ Fits(proof[t], jar)
    BY <1>1 DEF IInv, FreshProofsFit, Coming
  <2>2. CheckProof(t)
    BY <1>1, <2>1 DEF vars, Next, TypeOK, Open, Deliver, Arrive, Submit, CheckProof, Fails, Act, Login,
                      Logout, End, Tick, Rotate
  <2>3. ~ Valid(t, granted'[t])
    BY <1>1, <2>1, <2>2 DEF CheckProof, TypeOK
  <2>4. \A id \in Ids : LiveSession(jar, id) <=> Named(t) = id /\ phase[id] = "live"
    BY <2>1, NamedFacts
  <2>5. CASE granted'[t] = Nobody
    BY <2>1, <2>2, <2>3, <2>4, <2>5, LoadsFacts, NamesAssumption DEF CheckProof, Valid, Fits
  <2>6. CASE granted'[t] # Nobody
    <3>1. LiveSession(jar, granted'[t]) /\ granted'[t] \in Ids
      BY <2>1, <2>2, <2>4, <2>6, LoadsFacts DEF CheckProof
    <3>2. \A id \in Ids : LiveSession(jar, id) => id = granted'[t]
      BY <3>1, <2>4
    <3>. QED
      BY <2>1, <2>3, <2>6, <3>1, <3>2 DEF Valid, Fits
  <2>. QED
    BY <2>5, <2>6
<1>2. IInv /\ [Next]_vars =>
        [\A t \in Tabs : pc[t] = "post" /\ pc'[t] = "refused" => ~ fresh[t]]_vars
  BY <1>1
<1>. QED
  BY <1>2, Inductive, PTL DEF Spec, ProofsWork
=============================================================================
