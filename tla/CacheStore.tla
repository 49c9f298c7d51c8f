----------------------------- MODULE CacheStore -----------------------------
(***************************************************************************)
(* The data structure of internal/cache/cache.go: a map of entries, a      *)
(* recency list, a byte count and a tag index, changed together under one  *)
(* mutex.  Operations that finish in one pass are one action.  The two     *)
(* loops, the eviction at the end of store and the sweep of Invalidate,    *)
(* keep the mutex and take one action per iteration; "lock" says which of  *)
(* them holds it.  Only an enabled cache (Limit > 0) gets here.            *)
(*                                                                         *)
(* Left out: the counters of Stats, which nothing reads back.              *)
(***************************************************************************)
EXTENDS Integers, Sequences

CONSTANTS Key,      \* cache keys
          KeyLen,   \* [Key -> Nat], the length of a key in bytes
          Tag,      \* cache tags
          Value,    \* answers, records [bytes, tags]
          Policy,   \* lifetimes, records [ttl, stale]
          Limit,    \* the byte budget
          MaxTime   \* bound on the clock, for model checking only

ASSUME KeyLenAssumption == KeyLen \in [Key -> Nat]
ASSUME ValueAssumption  == Value \subseteq [bytes : Nat, tags : SUBSET Tag]
ASSUME PolicyAssumption == Policy \subseteq [ttl : Nat, stale : Nat]
ASSUME LimitAssumption  == Limit \in Nat /\ Limit > 0

VARIABLES cache,    \* [items, order, used, tags]
          now,      \* the clock
          lock      \* the mutex: free, or held inside a loop

vars == <<cache, now, lock>>
-----------------------------------------------------------------------------
EntryOverhead == 96
MaxKeyBytes   == 1024

Entry == [value : Value, fresh : Nat, expires : Nat, weight : Nat]

Weight(v)   == v.bytes + EntryOverhead
Weigh(k, v) == Weight(v) + 2 * KeyLen[k]

Cacheable(p) == p.ttl > 0

Free            == [op |-> "free"]
Evicting(k)     == [op |-> "evict", key |-> k]

(* The loops of Invalidate over the tags T: the tags not yet begun, and    *)
(* the keys of the current one that its range has still to visit.          *)
Invalidating(T, rest, keys) ==
  [op |-> "invalidate", tags |-> T, rest |-> rest, keys |-> keys]

Empty == [items |-> [k \in {} |-> {}],
          order |-> <<>>,
          used  |-> 0,
          tags  |-> [t \in {} |-> {}]]
-----------------------------------------------------------------------------
(* The recency list, most recently used first.                             *)

Place(order, k) == CHOOSE i \in 1..Len(order) : order[i] = k

(* Mutant: a hit leaves its entry where it is.                             *)
MoveNowhere(order, k) == order

MoveToFront(order, k) ==
  [i \in 1..Len(order) |-> IF i = 1 THEN k
                           ELSE IF i <= Place(order, k) THEN order[i - 1]
                           ELSE order[i]]

Unlink(order, k) ==
  [i \in 1..(Len(order) - 1) |-> IF i < Place(order, k) THEN order[i]
                                 ELSE order[i + 1]]

PushFront(order, k) ==
  [i \in 1..(Len(order) + 1) |-> IF i = 1 THEN k ELSE order[i - 1]]

Back(order) == order[Len(order)]
-----------------------------------------------------------------------------
(* What an operation leaves of the structure.                              *)

(* Mutant: an entry counts its stale window from its last use.             *)
TouchSliding(c, k) == [c EXCEPT !.order = MoveToFront(c.order, k),
                                !.items[k].expires = now + (@ - c.items[k].fresh)]

Touch(c, k) == [c EXCEPT !.order = MoveToFront(c.order, k)]

(* A tag whose last key goes loses its set as well.                        *)
Untag(index, k, T) ==
  LET left == [t \in DOMAIN index |-> IF t \in T THEN index[t] \ {k} ELSE index[t]]
  IN  [t \in {u \in DOMAIN index : left[u] # {}} |-> left[t]]

(* Mutant: the bytes of a dropped entry stay counted.                      *)
DropUncounted(c, k) ==
  [items |-> [j \in DOMAIN c.items \ {k} |-> c.items[j]],
   order |-> Unlink(c.order, k),
   used  |-> c.used,
   tags  |-> Untag(c.tags, k, c.items[k].value.tags)]

Drop(c, k) ==
  [items |-> [j \in DOMAIN c.items \ {k} |-> c.items[j]],
   order |-> Unlink(c.order, k),
   used  |-> c.used - c.items[k].weight,
   tags  |-> Untag(c.tags, k, c.items[k].value.tags)]

Discard(c, k) == IF k \in DOMAIN c.items THEN Drop(c, k) ELSE c

Entag(index, k, T) ==
  [t \in DOMAIN index \cup T |->
     (IF t \in DOMAIN index THEN index[t] ELSE {}) \cup (IF t \in T THEN {k} ELSE {})]

(* A tag without entries has no set, and a range over none visits nothing. *)
KeysOf(c, t) == IF t \in DOMAIN c.tags THEN c.tags[t] ELSE {}

Insert(c, k, e) ==
  [items |-> [j \in DOMAIN c.items \cup {k} |-> IF j = k THEN e ELSE c.items[j]],
   order |-> PushFront(c.order, k),
   used  |-> c.used + e.weight,
   tags  |-> Entag(c.tags, k, e.value.tags)]

NewEntry(k, v, p) == [value   |-> v,
                      fresh   |-> now + p.ttl,
                      expires |-> now + p.ttl + p.stale,
                      weight  |-> Weigh(k, v)]

Refused(k, v) == KeyLen[k] > MaxKeyBytes \/ Weigh(k, v) > Limit
-----------------------------------------------------------------------------
Init ==
  /\ cache = Empty
  /\ now = 0
  /\ lock = Free

Tick ==
  /\ now < MaxTime
  /\ now' = now + 1
  /\ UNCHANGED <<cache, lock>>

(* peek of an entry past its life: it is dropped and reported as missing.  *)
PeekExpired(k) ==
  /\ lock = Free
  /\ k \in DOMAIN cache.items
  /\ now > cache.items[k].expires
  /\ cache' = Drop(cache, k)
  /\ UNCHANGED <<now, lock>>

(* peek of an entry still alive, fresh or stale: it becomes the most       *)
(* recently used.                                                          *)
PeekHeld(k) ==
  /\ lock = Free
  /\ k \in DOMAIN cache.items
  /\ now <= cache.items[k].expires
  /\ cache' = Touch(cache, k)
  /\ UNCHANGED <<now, lock>>

(* store, up to the eviction loop, called by Put and fill.  The old entry  *)
(* goes even when the new one is refused.                                  *)
Store(k, v, p) ==
  LET rest == Discard(cache, k)
      next == IF Refused(k, v) THEN rest ELSE Insert(rest, k, NewEntry(k, v, p))
  IN  /\ lock = Free
      /\ Cacheable(p)
      /\ cache' = next
      /\ lock' = IF next.used > Limit THEN Evicting(k) ELSE Free
      /\ UNCHANGED now

(* Mutant: one turn only.                                                  *)
EvictOnce ==
  /\ lock.op = "evict"
  /\ cache' = Drop(cache, Back(cache.order))
  /\ lock' = Free
  /\ UNCHANGED now

(* Mutant: a victim still fresh gets a second chance at the front.         *)
EvictSparing ==
  LET victim == Back(cache.order)
      next   == IF now <= cache.items[victim].fresh THEN Touch(cache, victim)
                                                    ELSE Drop(cache, victim)
  IN  /\ lock.op = "evict"
      /\ cache' = next
      /\ lock' = IF next.used > Limit THEN lock ELSE Free
      /\ UNCHANGED now

(* One turn of store's loop.                                               *)
Evict ==
  LET next == Drop(cache, Back(cache.order))
  IN  /\ lock.op = "evict"
      /\ cache' = next
      /\ lock' = IF next.used > Limit THEN lock ELSE Free
      /\ UNCHANGED now

(* The tags of a call come in any order.                                   *)
Invalidate(T) ==
  /\ lock = Free
  /\ lock' = Invalidating(T, T, {})
  /\ UNCHANGED <<cache, now>>

(* The next tag: its range visits the keys the index has for it now.       *)
SweepTag ==
  /\ lock.op = "invalidate"
  /\ lock.keys = {}
  /\ \E t \in lock.rest :
       lock' = Invalidating(lock.tags, lock.rest \ {t}, KeysOf(cache, t))
  /\ UNCHANGED <<cache, now>>

(* One turn of the range over a tag's keys.  A Go map yields each key      *)
(* once, in any order, and the turn deletes no other key of the map.       *)
Sweep ==
  /\ lock.op = "invalidate"
  /\ \E k \in lock.keys :
       /\ cache' = Discard(cache, k)
       /\ lock' = Invalidating(lock.tags, lock.rest, lock.keys \ {k})
  /\ UNCHANGED now

SweepDone ==
  /\ lock.op = "invalidate"
  /\ lock.keys = {} /\ lock.rest = {}
  /\ lock' = Free
  /\ UNCHANGED <<cache, now>>

Purge ==
  /\ lock = Free
  /\ cache' = Empty
  /\ UNCHANGED <<now, lock>>

Next ==
  \/ Tick
  \/ \E k \in Key : PeekExpired(k) \/ PeekHeld(k)
  \/ \E k \in Key, v \in Value, p \in Policy : Store(k, v, p)
  \/ Evict
  \/ \E T \in SUBSET Tag : Invalidate(T)
  \/ SweepTag
  \/ Sweep
  \/ SweepDone
  \/ Purge

(* A goroutine that holds the mutex is scheduled until it returns.         *)
Fairness ==
  WF_vars(Evict) /\ WF_vars(SweepTag) /\ WF_vars(Sweep) /\ WF_vars(SweepDone)

Spec == Init /\ [][Next]_vars
-----------------------------------------------------------------------------
(* Shapes of the structure's parts.                                        *)
Shaped(c) ==
  /\ c = [items |-> c.items, order |-> c.order, used |-> c.used, tags |-> c.tags]
  /\ c.order \in Seq(Key)
  /\ c.used \in Int
  /\ DOMAIN c.items \subseteq Key
  /\ c.items = [k \in DOMAIN c.items |-> c.items[k]]
  /\ \A k \in DOMAIN c.items : c.items[k] \in Entry
  /\ DOMAIN c.tags \subseteq Tag
  /\ c.tags = [t \in DOMAIN c.tags |-> c.tags[t]]

Listed(order) == {order[i] : i \in 1..Len(order)}

Distinct(order) == \A i, j \in 1..Len(order) : order[i] = order[j] => i = j

Carrying(c, t) == {k \in DOMAIN c.items : t \in c.items[k].value.tags}

(* Types of the structure, the clock and the mutex.                        *)
TypeOK ==
  /\ Shaped(cache)
  /\ now \in Nat
  /\ lock \in {Free} \cup {Evicting(k) : k \in Key}
                     \cup {Invalidating(T, rest, keys) :
                             T \in SUBSET Tag, rest \in SUBSET Tag, keys \in SUBSET Key}

Ordered(c) == Listed(c.order) = DOMAIN c.items /\ Distinct(c.order)

Indexed(c) ==
  /\ DOMAIN c.tags = {t \in Tag : Carrying(c, t) # {}}
  /\ \A t \in DOMAIN c.tags : c.tags[t] = Carrying(c, t)

(* The recency list holds every entry of the map once and nothing else, so *)
(* no entry is out of reach of eviction and no dropped one comes back.     *)
OrderExact == Ordered(cache)

(* The tag index says exactly which entries carry a tag: Invalidate misses *)
(* none, and no tag keeps an empty set, which would leak over time.        *)
TagsExact == Indexed(cache)

(* The weights of the entries listed, added up along the recency list.     *)
Weighed(c) ==
  LET sum[i \in 0..Len(c.order)] ==
        IF i = 0 THEN 0 ELSE sum[i - 1] + c.items[c.order[i]].weight
  IN  sum[Len(c.order)]

(* The byte count is the sum of the weights of the entries held, after any *)
(* sequence of overwrites, refusals, evictions, sweeps and purges.         *)
UsedExact == cache.used = Weighed(cache)

(* The four structures the mutex guards say the same of every entry.       *)
StructureExact == TypeOK /\ OrderExact /\ TagsExact /\ UsedExact

(* TestI1TheCacheStaysInsideItsBudget: whoever takes the mutex finds the   *)
(* cache inside its budget.                                                *)
WithinBudget == lock.op # "evict" => cache.used <= Limit

(* The eviction loop always has a victim other than the entry being        *)
(* stored: it neither runs out of list nor throws out its own cause.       *)
EvictionSparesTheNewest ==
  lock.op = "evict" =>
    /\ Len(cache.order) >= 2
    /\ cache.order[1] = lock.key

(* When Invalidate gives the mutex back, no entry carries its tags.        *)
InvalidateRemovesAll ==
  [][lock.op = "invalidate" /\ lock'.op = "free" =>
       \A k \in DOMAIN cache'.items : cache'.items[k].value.tags \cap lock.tags = {}]_vars

(* The loops under the mutex come to an end.                               *)
MutexIsReleased == (lock.op # "free") ~> (lock.op = "free")
-----------------------------------------------------------------------------
(* CacheStore implements AbstractCache: the map without the weights.       *)

Held == [k \in DOMAIN cache.items |-> [value   |-> cache.items[k].value,
                                       fresh   |-> cache.items[k].fresh,
                                       expires |-> cache.items[k].expires]]

Abstract == INSTANCE AbstractCache WITH entries <- Held

(* A caller sees entries appear by a put and vanish, never change.         *)
ImplementsAbstract == Abstract!AbsSpec
=============================================================================
