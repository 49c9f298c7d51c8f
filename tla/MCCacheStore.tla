---------------------------- MODULE MCCacheStore ----------------------------
(* Three ordinary keys and one past MaxKeyBytes, which a small value would *)
(* fit.  Three small values fit together, a large one leaves room for a    *)
(* small one, and one never fits.                                          *)
EXTENDS CacheRecency

CONSTANTS k1, k2, k3, long, red, blue

MCKeys   == {k1, k2, k3, long}
MCKeyLen == [k \in MCKeys |-> IF k = long THEN 1025 ELSE 2]
MCTags   == {red, blue}
MCValues == {[bytes |-> 900,  tags |-> {red}],
             [bytes |-> 2900, tags |-> {red, blue}],
             [bytes |-> 4000, tags |-> {}]}
MCPolicies == {[ttl |-> 1, stale |-> 1], [ttl |-> 2, stale |-> 0], [ttl |-> 0, stale |-> 1]}
=============================================================================
