-------------------------- MODULE SessionRegistry --------------------------
(***************************************************************************)
(* What the session manager promises to the handlers of the runtime: a     *)
(* session id is born once, is live for a while and is gone for ever, and  *)
(* a request is granted the identity of a session only at an instant at    *)
(* which that session is live.  How the store, the clock readings and the  *)
(* separate reads and writes of a request bring this about is the business *)
(* of module Sessions, which implements this specification.                *)
(***************************************************************************)

CONSTANTS
    Workers,    \* request handlers
    Ids,        \* session identifiers (one UUID per created session)
    Nobody      \* the identity of a request that was granted no session

VARIABLES
    phase,      \* [Ids -> {"unborn", "live", "gone"}]
    granted     \* [Workers -> Ids \cup {Nobody}], the last answer of a worker

vars == <<phase, granted>>

Phases == {"unborn", "live", "gone"}

Init ==
    /\ phase = [id \in Ids |-> "unborn"]
    /\ granted = [w \in Workers |-> Nobody]

(* A worker creates a session; the answer grants it nothing yet. *)
Register(id) ==
    /\ phase[id] = "unborn"
    /\ phase' = [phase EXCEPT ![id] = "live"]
    /\ UNCHANGED granted

(* Any number of live sessions end (logout, expiry, purge, loss of the     *)
(* store) and any number of workers forget what they were granted.         *)
Retire(S) ==
    /\ \A id \in S : phase[id] = "live"
    /\ phase' = [id \in Ids |-> IF id \in S THEN "gone" ELSE phase[id]]
    /\ granted' \in [Workers -> Ids \cup {Nobody}]
    /\ \A w \in Workers : granted'[w] \in {granted[w], Nobody}

(* A request is answered with the identity of a session that is live now. *)
Grant(w, id) ==
    /\ phase[id] = "live"
    /\ granted' = [granted EXCEPT ![w] = id]
    /\ UNCHANGED phase

Next ==
    \/ \E id \in Ids : Register(id)
    \/ \E S \in SUBSET Ids : Retire(S)
    \/ \E w \in Workers, id \in Ids : Grant(w, id)

Spec == Init /\ [][Next]_vars
============================================================================
