---------------------------- MODULE AbstractCache ----------------------------
(***************************************************************************)
(* What a caller of the page cache relies on, without lists, weights or    *)
(* indexes: a partial map from keys to entries.  An entry appears only     *)
(* because it was put, with a lifetime counted from that moment; it can    *)
(* be removed at any time (eviction, expiry, invalidation, purge) and is   *)
(* never altered in between.  CacheStore implements this module and        *)
(* PageCache is built on it.                                               *)
(***************************************************************************)
EXTENDS Naturals

CONSTANTS Key,      \* cache keys
          Value,    \* rendered answers
          Policy,   \* lifetimes, records [ttl, stale]
          MaxTime   \* bound on the clock, for model checking only

ASSUME PolicyAssumption == Policy \subseteq [ttl : Nat, stale : Nat]

VARIABLES entries,  \* partial function from Key to entries
          now       \* the clock

absVars == <<entries, now>>

Lifetimes == [value : Value, fresh : Nat, expires : Nat]

EntryOf(v, p) == [value   |-> v,
                  fresh   |-> now + p.ttl,
                  expires |-> now + p.ttl + p.stale]

Without(S) == [k \in DOMAIN entries \ S |-> entries[k]]

AbsInit == /\ entries = [k \in {} |-> {}]
           /\ now = 0

Put(k, v, p) ==
  /\ p.ttl > 0
  /\ entries' = [j \in DOMAIN entries \cup {k} |->
                   IF j = k THEN EntryOf(v, p) ELSE entries[j]]
  /\ now' = now

Remove(S) ==
  /\ entries' = Without(S)
  /\ now' = now

Pass ==
  /\ now < MaxTime
  /\ now' = now + 1
  /\ UNCHANGED entries

AbsNext ==
  \/ \E k \in Key, v \in Value, p \in Policy : Put(k, v, p)
  \/ \E S \in SUBSET Key : Remove(S)
  \/ Pass

AbsSpec == AbsInit /\ [][AbsNext]_absVars
=============================================================================
