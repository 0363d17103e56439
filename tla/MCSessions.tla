----------------------------- MODULE MCSessions -----------------------------
(* Three requests over one session: TTLs short enough that it can be        *)
(* refreshed, reach its absolute deadline and expire within the clock, two  *)
(* policies whose bounds cross (a restart may shorten the deadline below    *)
(* the TTL), and an i64::MAX at which the last of the deadlines saturates.  *)
EXTENDS Sessions, TLC

MCPolicies == {[ttl |-> 2, abs |-> 3], [ttl |-> 3, abs |-> 1]}

Symmetry == Permutations(Workers)
=============================================================================
