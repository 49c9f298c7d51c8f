------------------------------ MODULE PageCache ------------------------------
(***************************************************************************)
(* Pages through the cache: Cache.Do of internal/cache/cache.go as the     *)
(* server's cachedRender calls it, by concurrent requests, over the store  *)
(* AbstractCache promises.  A request that finds a fresh entry answers it; *)
(* one that finds a stale entry answers it too and starts a goroutine that *)
(* refreshes it; any other joins the flight of its key, or opens it.  A    *)
(* flight runs the loaders, stores what they return and hands the result   *)
(* to everyone who waits for it.                                           *)
(*                                                                         *)
(* A value is the version of the data it was rendered from.  The data      *)
(* change at any time; Invalidate follows a change when the application    *)
(* calls it.  The history variables "shown", "flushed" and "promised" are  *)
(* read by the properties only.                                            *)
(***************************************************************************)
EXTENDS AbstractCache

CONSTANTS Request,     \* goroutines serving a cacheable request
          MaxVersion   \* bound on the changes of the data

ASSUME MaxVersionAssumption == MaxVersion \in Nat
ASSUME VersionsAreValues == Value = 0..MaxVersion

VARIABLES data,        \* [Key -> Value], the version the loaders would read
          pc,          \* [Caller -> step of the goroutine]
          want,        \* [Request -> Key], the key of the request
          flight,      \* [Key -> the singleflight call in progress]
          answer,      \* [Request -> what the request was answered]
          shown,       \* [Key -> Value], newest version a shared answer showed
          flushed,     \* [Key -> Value], version Invalidate has vouched for
          promised     \* [Request -> shown and flushed when it arrived]

history == <<shown, flushed, promised>>
vars == <<entries, now, data, pc, want, flight, answer, history>>
-----------------------------------------------------------------------------
(* A request, and the goroutine revalidate starts on its behalf.           *)
Foreground(r) == <<"request", r>>
Background(r) == <<"refresh", r>>
Caller == {"request", "refresh"} \X Request
Wants(c) == want[c[2]]

Unread == MaxVersion + 1
NoFlight == [stage |-> "none"]
Flight(stage, ver, outcome) == [stage |-> stage, ver |-> ver, outcome |-> outcome]

Outcome == {"shared", "private", "failed"}
Kind    == {"hit", "stale", "miss", "bypass", "error"}
SharedKind == {"hit", "stale", "miss"}
NoAnswer == [kind |-> "none"]
Answer(kind, ver) == [kind |-> kind, ver |-> ver]

Later(a, b) == IF a > b THEN a ELSE b
-----------------------------------------------------------------------------
Init ==
  /\ AbsInit
  /\ data = [k \in Key |-> 0]
  /\ pc = [c \in Caller |-> "idle"]
  /\ want \in [Request -> Key]
  /\ flight = [k \in Key |-> NoFlight]
  /\ answer = [r \in Request |-> NoAnswer]
  /\ shown = [k \in Key |-> 0]
  /\ flushed = [k \in Key |-> 0]
  /\ promised = [r \in Request |-> [shown |-> 0, flushed |-> 0]]

(* The world outside: time, the data, the byte pressure of other entries.  *)
Time == Pass /\ UNCHANGED <<data, pc, want, flight, answer, history>>

Change(k) ==
  /\ data[k] < MaxVersion
  /\ data' = [data EXCEPT ![k] = @ + 1]
  /\ UNCHANGED <<entries, now, pc, want, flight, answer, history>>

Evict(k) ==
  /\ k \in DOMAIN entries
  /\ Remove({k})
  /\ UNCHANGED <<data, pc, want, flight, answer, history>>

(* Mutant: an entry in its stale window is passed over.                    *)
InvalidateFresh(k) ==
  /\ IF k \in DOMAIN entries /\ now <= entries[k].fresh
     THEN Remove({k}) ELSE UNCHANGED absVars
  /\ flushed' = IF flight[k].stage \in {"none", "loading"}
                THEN [flushed EXCEPT ![k] = data[k]] ELSE flushed
  /\ UNCHANGED <<data, pc, want, flight, answer, shown, promised>>

(* Invalidate of a tag the page carries.  It vouches for the version it    *)
(* finds unless a flight has read already and has yet to end.              *)
Invalidate(k) ==
  /\ Remove({k})
  /\ flushed' = IF flight[k].stage \in {"none", "loading"}
                THEN [flushed EXCEPT ![k] = data[k]] ELSE flushed
  /\ UNCHANGED <<data, pc, want, flight, answer, shown, promised>>
-----------------------------------------------------------------------------
Arrive(r) ==
  /\ pc[Foreground(r)] = "idle"
  /\ pc' = [pc EXCEPT ![Foreground(r)] = "peek"]
  /\ promised' = [promised EXCEPT ![r] = [shown   |-> shown[want[r]],
                                          flushed |-> flushed[want[r]]]]
  /\ UNCHANGED <<entries, now, data, want, flight, answer, shown, flushed>>

AnswerFromEntry(r, kind) ==
  LET ver == entries[want[r]].value
  IN  /\ answer' = [answer EXCEPT ![r] = Answer(kind, ver)]
      /\ shown' = [shown EXCEPT ![want[r]] = Later(@, ver)]

(* The outcomes of peek at the head of Do.                                 *)
PeekMiss(r) ==
  /\ pc[Foreground(r)] = "peek"
  /\ want[r] \notin DOMAIN entries
  /\ pc' = [pc EXCEPT ![Foreground(r)] = "fill"]
  /\ UNCHANGED <<entries, now, data, want, flight, answer, history>>

PeekExpired(r) ==
  /\ pc[Foreground(r)] = "peek"
  /\ want[r] \in DOMAIN entries
  /\ now > entries[want[r]].expires
  /\ Remove({want[r]})
  /\ pc' = [pc EXCEPT ![Foreground(r)] = "fill"]
  /\ UNCHANGED <<data, want, flight, answer, history>>

PeekFresh(r) ==
  /\ pc[Foreground(r)] = "peek"
  /\ want[r] \in DOMAIN entries
  /\ now <= entries[want[r]].fresh
  /\ AnswerFromEntry(r, "hit")
  /\ pc' = [pc EXCEPT ![Foreground(r)] = "done"]
  /\ UNCHANGED <<entries, now, data, want, flight, flushed, promised>>

PeekStale(r) ==
  /\ pc[Foreground(r)] = "peek"
  /\ want[r] \in DOMAIN entries
  /\ now > entries[want[r]].fresh
  /\ now <= entries[want[r]].expires
  /\ AnswerFromEntry(r, "stale")
  /\ pc' = [pc EXCEPT ![Foreground(r)] = "done", ![Background(r)] = "fill"]
  /\ UNCHANGED <<entries, now, data, want, flight, flushed, promised>>

(* group.Do: no second look at the entries, so a caller whose peek missed  *)
(* opens a flight even if another has filled the key since.                *)
Lead(c) ==
  /\ pc[c] = "fill"
  /\ flight[Wants(c)] = NoFlight
  /\ flight' = [flight EXCEPT ![Wants(c)] = Flight("loading", Unread, "none")]
  /\ pc' = [pc EXCEPT ![c] = "wait"]
  /\ UNCHANGED <<entries, now, data, want, answer, history>>

Join(c) ==
  /\ pc[c] = "fill"
  /\ flight[Wants(c)] # NoFlight
  /\ pc' = [pc EXCEPT ![c] = "wait"]
  /\ UNCHANGED <<entries, now, data, want, flight, answer, history>>

(* The loaders read the data at some moment of their run.                  *)
Read(k) ==
  /\ flight[k].stage = "loading"
  /\ flight' = [flight EXCEPT ![k] = Flight("read", data[k], "none")]
  /\ UNCHANGED <<entries, now, data, pc, want, answer, history>>

(* Mutant: every page is stored.                                           *)
ReturnStored(k, outcome) ==
  /\ flight[k].stage = "read"
  /\ flight' = [flight EXCEPT ![k] =
                  Flight(IF outcome # "failed" THEN "store" ELSE "end", @.ver, outcome)]
  /\ UNCHANGED <<entries, now, data, pc, want, answer, history>>

(* The loaders return: a page others may see, one that belongs to the      *)
(* visitor who asked (its recorder is private, or it set no lifetime), or  *)
(* an error, which is also what a canceled request and a panic come to.    *)
Return(k, outcome) ==
  /\ flight[k].stage = "read"
  /\ flight' = [flight EXCEPT ![k] =
                  Flight(IF outcome = "shared" THEN "store" ELSE "end", @.ver, outcome)]
  /\ UNCHANGED <<entries, now, data, pc, want, answer, history>>

(* Mutant: what is held is kept.                                           *)
CommitOnce(k) ==
  /\ flight[k].stage = "store"
  /\ IF k \in DOMAIN entries THEN UNCHANGED absVars
     ELSE \E p \in Policy : Put(k, flight[k].ver, p)
  /\ flight' = [flight EXCEPT ![k].stage = "end"]
  /\ UNCHANGED <<data, pc, want, answer, history>>

(* store, inside the flight: the entry is replaced, or dropped when it is  *)
(* refused for its size.                                                   *)
Commit(k) ==
  /\ flight[k].stage = "store"
  /\ \/ \E p \in Policy : Put(k, flight[k].ver, p)
     \/ Remove({k})
  /\ flight' = [flight EXCEPT ![k].stage = "end"]
  /\ UNCHANGED <<data, pc, want, answer, history>>

Result(f) == Answer(CASE f.outcome = "shared"  -> "miss"
                      [] f.outcome = "private" -> "bypass"
                      [] f.outcome = "failed"  -> "error", f.ver)

(* Mutant: only requests are woken.                                        *)
CloseForRequests(k) ==
  LET waiting == {c \in Caller : pc[c] = "wait" /\ Wants(c) = k /\ c[1] = "request"}
  IN  /\ flight[k].stage = "end"
      /\ flight' = [flight EXCEPT ![k] = NoFlight]
      /\ pc' = [c \in Caller |-> IF c \in waiting THEN "done" ELSE pc[c]]
      /\ answer' = [r \in Request |-> IF Foreground(r) \in waiting
                                      THEN Result(flight[k]) ELSE answer[r]]
      /\ UNCHANGED <<entries, now, data, want, history>>

(* The flight closes: its key is free again and all who wait have its      *)
(* result, the one who opened it and those who joined alike.               *)
Close(k) ==
  LET waiting == {c \in Caller : pc[c] = "wait" /\ Wants(c) = k}
  IN  /\ flight[k].stage = "end"
      /\ flight' = [flight EXCEPT ![k] = NoFlight]
      /\ pc' = [c \in Caller |-> IF c \in waiting THEN "done" ELSE pc[c]]
      /\ answer' = [r \in Request |-> IF Foreground(r) \in waiting
                                      THEN Result(flight[k]) ELSE answer[r]]
      /\ shown' = IF Result(flight[k]).kind \in SharedKind
                     /\ \E r \in Request : Foreground(r) \in waiting
                  THEN [shown EXCEPT ![k] = Later(@, flight[k].ver)] ELSE shown
      /\ UNCHANGED <<entries, now, data, want, flushed, promised>>
-----------------------------------------------------------------------------
Peek(r) == PeekMiss(r) \/ PeekExpired(r) \/ PeekFresh(r) \/ PeekStale(r)
Fill(c) == Lead(c) \/ Join(c)
Load(k) == Read(k) \/ \E outcome \in Outcome : Return(k, outcome)

Next ==
  \/ Time
  \/ \E k \in Key : Change(k) \/ Evict(k) \/ Invalidate(k)
  \/ \E r \in Request : Arrive(r) \/ Peek(r)
  \/ \E c \in Caller : Fill(c)
  \/ \E k \in Key : Load(k) \/ Commit(k) \/ Close(k)

(* A goroutine that can run is scheduled, and loaders return.  Nothing     *)
(* makes requests arrive, data change or entries go.                       *)
Fairness ==
  /\ \A r \in Request : WF_vars(Peek(r))
  /\ \A c \in Caller : WF_vars(Fill(c))
  /\ \A k \in Key : WF_vars(Load(k)) /\ WF_vars(Commit(k)) /\ WF_vars(Close(k))

Spec == Init /\ [][Next]_vars
FairSpec == Spec /\ Fairness
-----------------------------------------------------------------------------
Flights == [stage   : {"loading", "read", "store", "end"},
            ver     : Value \cup {Unread},
            outcome : Outcome \cup {"none"}]

TypeOK ==
  /\ DOMAIN entries \subseteq Key
  /\ \A k \in DOMAIN entries : entries[k] \in Lifetimes
  /\ now \in Nat
  /\ data \in [Key -> Value]
  /\ pc \in [Caller -> {"idle", "peek", "fill", "wait", "done"}]
  /\ want \in [Request -> Key]
  /\ flight \in [Key -> {NoFlight} \cup Flights]
  /\ answer \in [Request -> {NoAnswer} \cup [kind : Kind, ver : Value]]
  /\ shown \in [Key -> Value]
  /\ flushed \in [Key -> Value]
  /\ promised \in [Request -> [shown : Value, flushed : Value]]

(* Shared answers of a page never go back in time: a visitor who comes     *)
(* after an answer was shown is not shown older data, although entries     *)
(* are refreshed, evicted and refilled meanwhile by flights that read      *)
(* before the visitor came.                                                *)
NeverGoesBack ==
  \A r \in Request : answer[r].kind \in SharedKind => answer[r].ver >= promised[r].shown

(* After Invalidate returns, no later request is answered from data older  *)
(* than what Invalidate found, unless a flight had read its data before    *)
(* and was still open: that flight may store and share what it read.       *)
InvalidationTakesEffect ==
  \A r \in Request :
    answer[r].kind \in Kind \ {"error"} => answer[r].ver >= promised[r].flushed

(* Whoever waits for a flight waits for one that exists, and every open    *)
(* flight has someone waiting: nobody is left behind when it closes.       *)
WaitersHaveAFlight ==
  \A k \in Key : flight[k] # NoFlight <=> \E c \in Caller : pc[c] = "wait" /\ Wants(c) = k

(* A page of one visitor, or none at all, never becomes or replaces an     *)
(* entry (ARCHITECTURE.md, the cache; TestI2): an entry appears or changes *)
(* only when a flight with a shared result commits it.                     *)
OnlySharedPagesBecomeEntries ==
  [][\A k \in DOMAIN entries' :
       (k \notin DOMAIN entries \/ entries'[k] # entries[k]) =>
         /\ flight[k].outcome = "shared"
         /\ entries'[k].value = flight[k].ver]_vars

(* Every request that arrives is answered, and every refresh ends, so that *)
(* Wait returns once no more are started.                                  *)
EveryCallEnds ==
  \A r \in Request :
    /\ (pc[Foreground(r)] = "peek") ~> (answer[r] # NoAnswer)
    /\ (pc[Background(r)] = "fill") ~> (pc[Background(r)] = "done")
=============================================================================
