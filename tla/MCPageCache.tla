----------------------------- MODULE MCPageCache -----------------------------
(* One page: flights of different keys do not touch each other.            *)
EXTENDS PageCache

MCValues   == 0..MaxVersion
MCPolicies == {[ttl |-> 1, stale |-> 1]}
=============================================================================
