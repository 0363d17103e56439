-------------------------- MODULE MigrationLedger --------------------------
(***************************************************************************)
(* What the migration commands promise to everybody who looks at the       *)
(* database: it changes by whole batches and by whole rollbacks, each at   *)
(* one instant, and the history says which scripts its schema came from.   *)
(***************************************************************************)
EXTENDS Integers

CONSTANTS
    Versions,   \* migration versions, ordered as the history orders them
    Scripts,    \* the migrations whose SQL runs: [version, checksum, parts]
    NoRow       \* the history has no row for this version

VARIABLES
    schema,     \* the parts (tables, indexes, ...) that exist
    history     \* [Versions -> checksum or NoRow], _axonyx_migrations

vars == <<schema, history>>

Init ==
    /\ schema = {}
    /\ history = [v \in Versions |-> NoRow]

Checksum(S, v) == (CHOOSE s \in S : s.version = v).checksum

(* A batch: some migrations, none of which is in the history yet. *)
Apply(S) ==
    /\ \A s, t \in S : s.version = t.version => s = t
    /\ \A s \in S : history[s.version] = NoRow
    /\ history' = [v \in Versions |-> IF \E s \in S : s.version = v
                                        THEN Checksum(S, v) ELSE history[v]]
    /\ schema' = schema \cup UNION {s.parts : s \in S}

(* The migration with the greatest version, by the script it came from. *)
Rollback(s) ==
    /\ history[s.version] = s.checksum
    /\ \A v \in Versions : v > s.version => history[v] = NoRow
    /\ history' = [history EXCEPT ![s.version] = NoRow]
    /\ schema' = schema \ s.parts

Next ==
    \/ \E S \in SUBSET Scripts : Apply(S)
    \/ \E s \in Scripts : Rollback(s)

Spec == Init /\ [][Next]_vars
=============================================================================
