---------------------------- MODULE CacheRecency ----------------------------
(***************************************************************************)
(* CacheStore with the history its recency list stands for: since[k] is    *)
(* the set of keys used, that is stored or found alive, after the last use *)
(* of k.  Nothing in CacheStore reads it.                                  *)
(***************************************************************************)
EXTENDS CacheStore

VARIABLE since

recencyVars == <<cache, now, lock, since>>

Use(k) == since' = [j \in Key |-> IF j = k THEN {} ELSE since[j] \cup {k}]

RecencyInit == Init /\ since = [k \in Key |-> {}]

RecencyNext ==
  \/ \E k \in Key : PeekHeld(k) /\ Use(k)
  \/ \E k \in Key, v \in Value, p \in Policy :
       /\ Store(k, v, p)
       /\ IF Refused(k, v) THEN UNCHANGED since ELSE Use(k)
  \/ /\ \/ Tick
        \/ \E k \in Key : PeekExpired(k)
        \/ Evict
        \/ \E T \in SUBSET Tag : Invalidate(T)
        \/ SweepTag
        \/ Sweep
        \/ SweepDone
        \/ Purge
     /\ UNCHANGED since

RecencySpec == RecencyInit /\ [][RecencyNext]_recencyVars /\ Fairness

(* TestTheOldestEntryIsEvictedFirst, after any history of hits, stale      *)
(* hits, overwrites, expiries and invalidations: every other entry held    *)
(* was used after the last use of the one that goes, and one goes only     *)
(* when the entries held exceed the budget together, so that none is lost  *)
(* that an exact LRU would have kept.                                      *)
EvictsAsLRU ==
  [][lock.op = "evict" =>
       \A gone \in DOMAIN cache.items \ DOMAIN cache'.items :
         /\ DOMAIN cache.items \ {gone} \subseteq since[gone]
         /\ Weighed(cache) > Limit]_recencyVars
=============================================================================
