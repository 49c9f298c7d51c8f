--------------------------- MODULE PageCacheProofs ---------------------------
(***************************************************************************)
(* PageCache for any number of pages, requests, versions and policies: the *)
(* shared answers of a page never go back in time, an invalidation takes   *)
(* effect, nobody waits for a flight that is gone, and only shared results *)
(* become entries.                                                         *)
(*                                                                         *)
(* The argument: a page has one flight at a time, so once a flight has     *)
(* read its data nothing newer can be stored or shown before it closes     *)
(* (FlightsCurrent); what an entry holds is at least as new as everything  *)
(* shown and vouched for (EntriesCurrent); and an answer, which is one of  *)
(* the two, is at least as new as what its request was promised.           *)
(***************************************************************************)
EXTENDS PageCache, TLAPS

(* What was shown and vouched for existed.                                 *)
HistoryExists ==
  \A k \in Key : shown[k] <= data[k] /\ flushed[k] <= data[k]

(* An entry is no older than what was shown or vouched for.                *)
EntriesCurrent ==
  \A k \in DOMAIN entries :
    /\ shown[k] <= entries[k].value
    /\ flushed[k] <= entries[k].value
    /\ entries[k].value <= data[k]

(* Nor is what an open flight has read; once it is stored, the entry, if   *)
(* it is still there, holds exactly that.                                  *)
FlightsCurrent ==
  \A k \in Key :
    flight[k].stage \in {"read", "store", "end"} =>
      /\ flight[k].ver \in Value
      /\ shown[k] <= flight[k].ver
      /\ flushed[k] <= flight[k].ver
      /\ flight[k].ver <= data[k]
      /\ k \in DOMAIN entries => entries[k].value <= flight[k].ver
      /\ k \in DOMAIN entries /\ flight[k].stage = "end" /\ flight[k].outcome = "shared"
           => entries[k].value = flight[k].ver

FlightsHaveOutcomes ==
  \A k \in Key :
    /\ flight[k].stage = "store" => flight[k].outcome = "shared"
    /\ flight[k].stage = "end" => flight[k].outcome \in Outcome

PromisesHold ==
  \A r \in Request :
    /\ promised[r].shown <= shown[want[r]]
    /\ promised[r].flushed <= flushed[want[r]]

NotYetAnswered ==
  \A r \in Request : pc[Foreground(r)] = "idle" => answer[r] = NoAnswer

Versions == HistoryExists /\ EntriesCurrent /\ FlightsCurrent /\ FlightsHaveOutcomes

Answers == PromisesHold /\ NotYetAnswered /\ NeverGoesBack /\ InvalidationTakesEffect

IInv == TypeOK /\ Versions /\ Answers
-----------------------------------------------------------------------------
(* A request and a refresh are different goroutines.                       *)
LEMMA Callers ==
  /\ \A r, s \in Request : Foreground(r) # Background(s)
  /\ \A r, s \in Request : Foreground(r) = Foreground(s) => r = s
  /\ \A r \in Request : Foreground(r) \in Caller /\ Background(r) \in Caller
  /\ \A r \in Request : Wants(Foreground(r)) = want[r]
BY DEF Foreground, Background, Caller, Wants

LEMMA InitIInv ==
  ASSUME Init
  PROVE  IInv
<1> USE MaxVersionAssumption, VersionsAreValues, Callers DEF Init, AbsInit
<1>1. TypeOK
  BY DEF TypeOK, NoAnswer
<1>2. Versions
  BY DEF Versions, HistoryExists, EntriesCurrent, FlightsCurrent,
    FlightsHaveOutcomes, NoFlight
<1>3. Answers
  BY DEF Answers, PromisesHold, NotYetAnswered, NeverGoesBack,
    InvalidationTakesEffect, NoAnswer, SharedKind, Kind
<1> QED
  BY <1>1, <1>2, <1>3 DEF IInv

(* Every step keeps the types: answers are versions, because a flight that *)
(* ends has read one.                                                      *)
LEMMA TypesKept ==
  ASSUME IInv, Next
  PROVE  TypeOK'
<1> USE MaxVersionAssumption, VersionsAreValues, PolicyAssumption, Callers
<1>1. CASE Time
  BY <1>1 DEF TypeOK, Time, Pass, history, IInv
<1>2. ASSUME NEW k \in Key, Change(k)
     PROVE  TypeOK'
  BY <1>2 DEF TypeOK, Change, history, IInv
<1>3. ASSUME NEW k \in Key, Evict(k)
     PROVE  TypeOK'
  BY <1>3 DEF TypeOK, Evict, Remove, history, Without, IInv
<1>4. ASSUME NEW k \in Key, Invalidate(k)
     PROVE  TypeOK'
  BY <1>4 DEF TypeOK, Invalidate, Remove, Without, IInv
<1>5. ASSUME NEW r \in Request, Arrive(r)
     PROVE  TypeOK'
  BY <1>5 DEF TypeOK, Arrive, IInv
<1>6. ASSUME NEW r \in Request, PeekMiss(r)
     PROVE  TypeOK'
  BY <1>6 DEF TypeOK, PeekMiss, history, IInv
<1>7. ASSUME NEW r \in Request, PeekExpired(r)
     PROVE  TypeOK'
  BY <1>7 DEF TypeOK, PeekExpired, Remove, history, Without, IInv
<1>8. ASSUME NEW r \in Request, PeekFresh(r)
     PROVE  TypeOK'
  <2>1. AnswerFromEntry(r, "hit") /\ want[r] \in DOMAIN entries
    BY <1>8 DEF PeekFresh
  <2>2. answer' = [answer EXCEPT ![r] = Answer("hit", entries[want[r]].value)]
        /\ Answer("hit", entries[want[r]].value) \in [kind : Kind, ver : Value]
    BY <2>1 DEF AnswerFromEntry, Answer, Kind, IInv, TypeOK, Lifetimes
  <2>3. shown' \in [Key -> Value]
    BY <2>1 DEF AnswerFromEntry, Later, IInv, TypeOK, Lifetimes
  <2> QED
    BY <1>8, <2>2, <2>3 DEF PeekFresh, IInv, TypeOK
<1>9. ASSUME NEW r \in Request, PeekStale(r)
     PROVE  TypeOK'
  <2>1. AnswerFromEntry(r, "stale") /\ want[r] \in DOMAIN entries
    BY <1>9 DEF PeekStale
  <2>2. answer' = [answer EXCEPT ![r] = Answer("stale", entries[want[r]].value)]
        /\ Answer("stale", entries[want[r]].value) \in [kind : Kind, ver : Value]
    BY <2>1 DEF AnswerFromEntry, Answer, Kind, IInv, TypeOK, Lifetimes
  <2>3. shown' \in [Key -> Value]
    BY <2>1 DEF AnswerFromEntry, Later, IInv, TypeOK, Lifetimes
  <2>4. pc' \in [Caller -> {"idle", "peek", "fill", "wait", "done"}]
    BY <1>9 DEF PeekStale, IInv, TypeOK
  <2> QED
    BY <1>9, <2>2, <2>3, <2>4 DEF PeekStale, IInv, TypeOK
<1>10. ASSUME NEW c \in Caller, Lead(c)
      PROVE  TypeOK'
  BY <1>10 DEF TypeOK, Lead, Flights, Flight, history, IInv
<1>11. ASSUME NEW c \in Caller, Join(c)
      PROVE  TypeOK'
  BY <1>11 DEF TypeOK, Join, history, IInv
<1>12. ASSUME NEW k \in Key, Read(k)
      PROVE  TypeOK'
  BY <1>12 DEF TypeOK, Read, Flights, Flight, history, IInv
<1>13. ASSUME NEW k \in Key, NEW outcome \in Outcome, Return(k, outcome)
      PROVE  TypeOK'
  BY <1>13 DEF TypeOK, Return, Flights, Flight, history, IInv, Versions,
    FlightsCurrent
<1>14. ASSUME NEW k \in Key, Commit(k)
      PROVE  TypeOK'
  <2>1. flight[k].stage = "store" /\ flight[k].ver \in Value
    BY <1>14 DEF Commit, IInv, Versions, FlightsCurrent
  <2>2. /\ DOMAIN entries' \subseteq Key
        /\ \A j \in DOMAIN entries' : entries'[j] \in Lifetimes
        /\ now' \in Nat
    <3>1. CASE \E p \in Policy : Put(k, flight[k].ver, p)
      BY <2>1, <3>1 DEF Put, EntryOf, Lifetimes, IInv, TypeOK
    <3>2. CASE Remove({k})
      BY <3>2 DEF Remove, Without, IInv, TypeOK
    <3> QED
      BY <1>14, <3>1, <3>2 DEF Commit
  <2>3. flight' = [flight EXCEPT ![k].stage = "end"]
    BY <1>14 DEF Commit
  <2>4. flight[k] \in Flights
    BY <2>1 DEF IInv, TypeOK, NoFlight
  <2>5. flight' \in [Key -> {NoFlight} \cup Flights]
    BY <2>3, <2>4 DEF IInv, TypeOK, Flights
  <2> QED
    BY <1>14, <2>2, <2>5 DEF Commit, IInv, TypeOK, history
<1>15. ASSUME NEW k \in Key, Close(k)
      PROVE  TypeOK'
  <2> DEFINE waiting == {c \in Caller : pc[c] = "wait" /\ Wants(c) = k}
  <2>1. flight[k].ver \in Value /\ flight[k].outcome \in Outcome
    BY <1>15 DEF Close, IInv, Versions, FlightsCurrent, FlightsHaveOutcomes
  <2>2. Result(flight[k]) \in [kind : Kind, ver : Value]
    BY <2>1 DEF Result, Answer, Kind, Outcome
  <2>3. answer' \in [Request -> {NoAnswer} \cup [kind : Kind, ver : Value]]
    BY <1>15, <2>2 DEF Close, IInv, TypeOK
  <2>4. pc' \in [Caller -> {"idle", "peek", "fill", "wait", "done"}]
    BY <1>15 DEF Close, IInv, TypeOK
  <2>5. shown' \in [Key -> Value]
    BY <1>15, <2>1 DEF Close, IInv, TypeOK, Later
  <2>6. flight' = [flight EXCEPT ![k] = NoFlight]
    BY <1>15 DEF Close
  <2>7. flight' \in [Key -> {NoFlight} \cup Flights]
    BY <2>6 DEF IInv, TypeOK
  <2> QED
    BY <1>15, <2>3, <2>4, <2>5, <2>7 DEF Close, IInv, TypeOK
<1> QED
  BY <1>1, <1>2, <1>3, <1>4, <1>5, <1>6, <1>7, <1>8, <1>9, <1>10, <1>11,
    <1>12, <1>13, <1>14, <1>15
  DEF Next, Peek, Fill, Load

(* Every step keeps entries and flights current.                           *)
LEMMA VersionsKept ==
  ASSUME IInv, Next
  PROVE  Versions'
<1> USE MaxVersionAssumption, VersionsAreValues, PolicyAssumption, Callers
<1>1. CASE Time
  BY <1>1 DEF Versions, Time, HistoryExists, EntriesCurrent, FlightsCurrent,
    FlightsHaveOutcomes, Pass, history, IInv
<1>2. ASSUME NEW k \in Key, Change(k)
     PROVE  Versions'
  <2>1. HistoryExists'
    BY <1>2 DEF HistoryExists, Change, history, IInv, TypeOK, Versions
  <2>2. EntriesCurrent'
    BY <1>2 DEF EntriesCurrent, Change, history, Lifetimes, IInv, TypeOK,
      Versions
  <2>3. FlightsCurrent'
    BY <1>2 DEF FlightsCurrent, Change, history, IInv, TypeOK, Versions
  <2>4. FlightsHaveOutcomes'
    BY <1>2 DEF FlightsHaveOutcomes, Change, IInv, Versions
  <2> QED
    BY <2>1, <2>2, <2>3, <2>4 DEF Versions
<1>3. ASSUME NEW k \in Key, Evict(k)
     PROVE  Versions'
  BY <1>3 DEF Versions, Evict, HistoryExists, EntriesCurrent, FlightsCurrent,
    FlightsHaveOutcomes, Remove, history, Without, IInv
<1>4. ASSUME NEW k \in Key, Invalidate(k)
     PROVE  Versions'
  BY <1>4 DEF Versions, Invalidate, HistoryExists, EntriesCurrent,
    FlightsCurrent, FlightsHaveOutcomes, Remove, Without, IInv, TypeOK
<1>5. ASSUME NEW r \in Request, Arrive(r)
     PROVE  Versions'
  BY <1>5 DEF Versions, Arrive, HistoryExists, EntriesCurrent, FlightsCurrent,
    FlightsHaveOutcomes, IInv
<1>6. ASSUME NEW r \in Request, PeekMiss(r)
     PROVE  Versions'
  BY <1>6 DEF Versions, PeekMiss, HistoryExists, EntriesCurrent,
    FlightsCurrent, FlightsHaveOutcomes, history, IInv
<1>7. ASSUME NEW r \in Request, PeekExpired(r)
     PROVE  Versions'
  BY <1>7 DEF Versions, PeekExpired, HistoryExists, EntriesCurrent,
    FlightsCurrent, FlightsHaveOutcomes, Remove, history, Without, IInv
<1>8. ASSUME NEW r \in Request, PeekFresh(r)
     PROVE  Versions'
  <2>1. HistoryExists'
    BY <1>8 DEF HistoryExists, PeekFresh, AnswerFromEntry, Later, IInv,
      Versions, EntriesCurrent
  <2>2. EntriesCurrent'
    <3> SUFFICES ASSUME NEW k \in DOMAIN entries
                 PROVE  /\ shown'[k] <= entries[k].value
                        /\ flushed[k] <= entries[k].value
                        /\ entries[k].value <= data[k]
      BY <1>8 DEF EntriesCurrent, PeekFresh
    <3>1. /\ shown[k] <= entries[k].value
          /\ flushed[k] <= entries[k].value
          /\ entries[k].value <= data[k]
      BY DEF IInv, Versions, EntriesCurrent
    <3>2. shown' = [shown EXCEPT ![want[r]] = Later(@, entries[want[r]].value)]
      BY <1>8 DEF PeekFresh, AnswerFromEntry
    <3>3. shown'[k] = shown[k] \/ shown'[k] = entries[k].value
      BY <3>2 DEF Later, IInv, TypeOK
    <3>4. entries[k].value \in Nat
      BY DEF IInv, TypeOK, Lifetimes
    <3> QED
      BY <3>1, <3>3, <3>4
  <2>3. FlightsCurrent'
    BY <1>8 DEF FlightsCurrent, PeekFresh, AnswerFromEntry, Later, IInv,
      Versions
  <2>4. FlightsHaveOutcomes'
    BY <1>8 DEF FlightsHaveOutcomes, PeekFresh, IInv, Versions
  <2> QED
    BY <2>1, <2>2, <2>3, <2>4 DEF Versions
<1>9. ASSUME NEW r \in Request, PeekStale(r)
     PROVE  Versions'
  <2>1. HistoryExists'
    BY <1>9 DEF HistoryExists, PeekStale, AnswerFromEntry, Later, IInv,
      Versions, EntriesCurrent
  <2>2. EntriesCurrent'
    <3> SUFFICES ASSUME NEW k \in DOMAIN entries
                 PROVE  /\ shown'[k] <= entries[k].value
                        /\ flushed[k] <= entries[k].value
                        /\ entries[k].value <= data[k]
      BY <1>9 DEF EntriesCurrent, PeekStale
    <3>1. /\ shown[k] <= entries[k].value
          /\ flushed[k] <= entries[k].value
          /\ entries[k].value <= data[k]
      BY DEF IInv, Versions, EntriesCurrent
    <3>2. shown' = [shown EXCEPT ![want[r]] = Later(@, entries[want[r]].value)]
      BY <1>9 DEF PeekStale, AnswerFromEntry
    <3>3. shown'[k] = shown[k] \/ shown'[k] = entries[k].value
      BY <3>2 DEF Later, IInv, TypeOK
    <3>4. entries[k].value \in Nat
      BY DEF IInv, TypeOK, Lifetimes
    <3> QED
      BY <3>1, <3>3, <3>4
  <2>3. FlightsCurrent'
    BY <1>9 DEF FlightsCurrent, PeekStale, AnswerFromEntry, Later, IInv,
      Versions
  <2>4. FlightsHaveOutcomes'
    BY <1>9 DEF FlightsHaveOutcomes, PeekStale, IInv, Versions
  <2> QED
    BY <2>1, <2>2, <2>3, <2>4 DEF Versions
<1>10. ASSUME NEW c \in Caller, Lead(c)
      PROVE  Versions'
  BY <1>10 DEF Versions, Lead, HistoryExists, EntriesCurrent, FlightsCurrent,
    FlightsHaveOutcomes, Flight, history, IInv
<1>11. ASSUME NEW c \in Caller, Join(c)
      PROVE  Versions'
  BY <1>11 DEF Versions, Join, HistoryExists, EntriesCurrent, FlightsCurrent,
    FlightsHaveOutcomes, history, IInv
<1>12. ASSUME NEW k \in Key, Read(k)
      PROVE  Versions'
  BY <1>12 DEF Versions, Read, HistoryExists, EntriesCurrent, FlightsCurrent,
    FlightsHaveOutcomes, Flight, history, IInv, TypeOK
<1>13. ASSUME NEW k \in Key, NEW outcome \in Outcome, Return(k, outcome)
      PROVE  Versions'
  BY <1>13 DEF Versions, Return, HistoryExists, EntriesCurrent,
    FlightsCurrent, FlightsHaveOutcomes, Flight, history, IInv
<1>14. ASSUME NEW k \in Key, Commit(k)
      PROVE  Versions'
  BY <1>14 DEF Versions, Commit, HistoryExists, EntriesCurrent,
    FlightsCurrent, FlightsHaveOutcomes, Put, Remove, history, Outcome,
    EntryOf, Without, IInv
<1>15. ASSUME NEW k \in Key, Close(k)
      PROVE  Versions'
  BY <1>15 DEF Versions, Close, HistoryExists, EntriesCurrent, FlightsCurrent,
    FlightsHaveOutcomes, NoFlight, Result, SharedKind, Later, Outcome, Answer,
    IInv
<1> QED
  BY <1>1, <1>2, <1>3, <1>4, <1>5, <1>6, <1>7, <1>8, <1>9, <1>10, <1>11,
    <1>12, <1>13, <1>14, <1>15
  DEF Next, Peek, Fill, Load

(* Every step keeps what the answers were promised.                        *)
LEMMA AnswersKept ==
  ASSUME IInv, Next
  PROVE  Answers'
<1> USE MaxVersionAssumption, VersionsAreValues, PolicyAssumption, Callers
<1>1. CASE Time
  BY <1>1 DEF Answers, Time, PromisesHold, NotYetAnswered, NeverGoesBack,
    InvalidationTakesEffect, history, IInv
<1>2. ASSUME NEW k \in Key, Change(k)
     PROVE  Answers'
  BY <1>2 DEF Answers, Change, PromisesHold, NotYetAnswered, NeverGoesBack,
    InvalidationTakesEffect, history, IInv
<1>3. ASSUME NEW k \in Key, Evict(k)
     PROVE  Answers'
  BY <1>3 DEF Answers, Evict, PromisesHold, NotYetAnswered, NeverGoesBack,
    InvalidationTakesEffect, history, IInv
<1>4. ASSUME NEW k \in Key, Invalidate(k)
     PROVE  Answers'
  <2>1. PromisesHold'
    BY <1>4 DEF PromisesHold, Invalidate, IInv, TypeOK, Versions,
      HistoryExists, Answers
  <2>2. NotYetAnswered'
    BY <1>4 DEF NotYetAnswered, Invalidate, IInv, Answers
  <2>3. NeverGoesBack'
    BY <1>4 DEF NeverGoesBack, Invalidate, IInv, Answers
  <2>4. InvalidationTakesEffect'
    BY <1>4 DEF InvalidationTakesEffect, Invalidate, IInv, Answers
  <2> QED
    BY <2>1, <2>2, <2>3, <2>4 DEF Answers
<1>5. ASSUME NEW r \in Request, Arrive(r)
     PROVE  Answers'
  <2>1. PromisesHold'
    BY <1>5 DEF PromisesHold, Arrive, IInv, TypeOK, Answers
  <2>2. NotYetAnswered'
    BY <1>5 DEF NotYetAnswered, Arrive, IInv, Answers
  <2>3. NeverGoesBack'
    BY <1>5 DEF NeverGoesBack, Arrive, SharedKind, IInv, Answers, NoAnswer,
      NotYetAnswered
  <2>4. InvalidationTakesEffect'
    BY <1>5 DEF InvalidationTakesEffect, Arrive, IInv, Answers, NoAnswer,
      Kind, NotYetAnswered
  <2> QED
    BY <2>1, <2>2, <2>3, <2>4 DEF Answers
<1>6. ASSUME NEW r \in Request, PeekMiss(r)
     PROVE  Answers'
  BY <1>6 DEF Answers, PeekMiss, PromisesHold, NotYetAnswered, NeverGoesBack,
    InvalidationTakesEffect, history, IInv
<1>7. ASSUME NEW r \in Request, PeekExpired(r)
     PROVE  Answers'
  BY <1>7 DEF Answers, PeekExpired, PromisesHold, NotYetAnswered,
    NeverGoesBack, InvalidationTakesEffect, history, IInv
<1>8. ASSUME NEW r \in Request, PeekFresh(r)
     PROVE  Answers'
  <2>1. PromisesHold'
    BY <1>8 DEF PromisesHold, PeekFresh, AnswerFromEntry, Later, Lifetimes,
      IInv, TypeOK, Answers
  <2>2. NotYetAnswered'
    BY <1>8 DEF NotYetAnswered, PeekFresh, AnswerFromEntry, IInv, Answers
  <2>3. NeverGoesBack'
    BY <1>8 DEF NeverGoesBack, PeekFresh, AnswerFromEntry, Answer, Lifetimes,
      IInv, TypeOK, Versions, EntriesCurrent, Answers, PromisesHold
  <2>4. InvalidationTakesEffect'
    BY <1>8 DEF InvalidationTakesEffect, PeekFresh, AnswerFromEntry, Answer,
      Lifetimes, IInv, TypeOK, Versions, EntriesCurrent, Answers, PromisesHold
  <2> QED
    BY <2>1, <2>2, <2>3, <2>4 DEF Answers
<1>9. ASSUME NEW r \in Request, PeekStale(r)
     PROVE  Answers'
  <2>1. PromisesHold'
    BY <1>9 DEF PromisesHold, PeekStale, AnswerFromEntry, Later, Lifetimes,
      IInv, TypeOK, Answers
  <2>2. NotYetAnswered'
    BY <1>9 DEF NotYetAnswered, PeekStale, AnswerFromEntry, IInv, TypeOK,
      Answers
  <2>3. NeverGoesBack'
    BY <1>9 DEF NeverGoesBack, PeekStale, AnswerFromEntry, Answer, Lifetimes,
      IInv, TypeOK, Versions, EntriesCurrent, Answers, PromisesHold
  <2>4. InvalidationTakesEffect'
    BY <1>9 DEF InvalidationTakesEffect, PeekStale, AnswerFromEntry, Answer,
      Lifetimes, IInv, TypeOK, Versions, EntriesCurrent, Answers, PromisesHold
  <2> QED
    BY <2>1, <2>2, <2>3, <2>4 DEF Answers
<1>10. ASSUME NEW c \in Caller, Lead(c)
      PROVE  Answers'
  BY <1>10 DEF Answers, Lead, PromisesHold, NotYetAnswered, NeverGoesBack,
    InvalidationTakesEffect, history, IInv
<1>11. ASSUME NEW c \in Caller, Join(c)
      PROVE  Answers'
  BY <1>11 DEF Answers, Join, PromisesHold, NotYetAnswered, NeverGoesBack,
    InvalidationTakesEffect, history, IInv
<1>12. ASSUME NEW k \in Key, Read(k)
      PROVE  Answers'
  BY <1>12 DEF Answers, Read, PromisesHold, NotYetAnswered, NeverGoesBack,
    InvalidationTakesEffect, history, IInv
<1>13. ASSUME NEW k \in Key, NEW outcome \in Outcome, Return(k, outcome)
      PROVE  Answers'
  BY <1>13 DEF Answers, Return, PromisesHold, NotYetAnswered, NeverGoesBack,
    InvalidationTakesEffect, history, IInv
<1>14. ASSUME NEW k \in Key, Commit(k)
      PROVE  Answers'
  BY <1>14 DEF Answers, Commit, PromisesHold, NotYetAnswered, NeverGoesBack,
    InvalidationTakesEffect, history, IInv
<1>15. ASSUME NEW k \in Key, Close(k)
      PROVE  Answers'
  <2>1. PromisesHold'
    BY <1>15 DEF PromisesHold, Close, Later, IInv, TypeOK, Versions,
      FlightsCurrent, Answers
  <2>2. NotYetAnswered'
    BY <1>15 DEF NotYetAnswered, Close, IInv, Answers
  <2>3. NeverGoesBack'
    BY <1>15 DEF NeverGoesBack, Close, Result, Answer, IInv, TypeOK, Versions,
      FlightsCurrent, Answers, PromisesHold
  <2>4. InvalidationTakesEffect'
    BY <1>15 DEF InvalidationTakesEffect, Close, Result, Answer, IInv, TypeOK,
      Versions, FlightsCurrent, Answers, PromisesHold
  <2> QED
    BY <2>1, <2>2, <2>3, <2>4 DEF Answers
<1> QED
  BY <1>1, <1>2, <1>3, <1>4, <1>5, <1>6, <1>7, <1>8, <1>9, <1>10, <1>11,
    <1>12, <1>13, <1>14, <1>15
  DEF Next, Peek, Fill, Load

-----------------------------------------------------------------------------
(* A request starts its refresh when it is answered, not before.           *)
RefreshesFollow ==
  \A r \in Request :
    pc[Foreground(r)] \in {"idle", "peek"} => pc[Background(r)] = "idle"

LEMMA RefreshesFollowKept ==
  ASSUME TypeOK, RefreshesFollow, Next
  PROVE  RefreshesFollow'
<1> USE Callers DEF RefreshesFollow, TypeOK
<1>1. CASE pc' = pc
  BY <1>1
<1>2. ASSUME NEW r \in Request, Arrive(r)
      PROVE  RefreshesFollow'
  BY <1>2 DEF Arrive
<1>3. ASSUME NEW r \in Request, Peek(r)
      PROVE  RefreshesFollow'
  <2>1. CASE PeekMiss(r) \/ PeekExpired(r)
    BY <2>1 DEF PeekMiss, PeekExpired
  <2>2. CASE PeekFresh(r)
    BY <2>2 DEF PeekFresh
  <2>3. CASE PeekStale(r)
    <3>1. pc' = [pc EXCEPT ![Foreground(r)] = "done", ![Background(r)] = "fill"]
      BY <2>3 DEF PeekStale
    <3> SUFFICES ASSUME NEW s \in Request, pc'[Foreground(s)] \in {"idle", "peek"}
                 PROVE  pc'[Background(s)] = "idle"
      OBVIOUS
    <3>2. s # r
      BY <3>1
    <3>3. Background(s) # Background(r) /\ Foreground(s) # Foreground(r)
      BY <3>2 DEF Background, Foreground
    <3>4. pc'[Foreground(s)] = pc[Foreground(s)] /\ pc'[Background(s)] = pc[Background(s)]
      BY <3>1, <3>3
    <3> QED
      BY <3>4
  <2> QED
    BY <1>3, <2>1, <2>2, <2>3 DEF Peek
<1>4. ASSUME NEW c \in Caller, Fill(c)
      PROVE  RefreshesFollow'
  BY <1>4 DEF Fill, Lead, Join
<1>5. ASSUME NEW k \in Key, Close(k)
      PROVE  RefreshesFollow'
  BY <1>5 DEF Close
<1>6. ASSUME NEW k \in Key, Load(k) \/ Commit(k) \/ Change(k) \/ Evict(k) \/ Invalidate(k)
      PROVE  pc' = pc
  BY <1>6 DEF Load, Read, Return, Commit, Change, Evict, Invalidate
<1>7. CASE Time
  BY <1>7 DEF Time
<1> QED
  BY <1>1, <1>2, <1>3, <1>4, <1>5, <1>6, <1>7 DEF Next

(* Whoever waits has a flight and every flight someone who waits: kept by  *)
(* every step.                                                             *)
LEMMA WaitersKept ==
  ASSUME TypeOK, RefreshesFollow, WaitersHaveAFlight, Next
  PROVE  WaitersHaveAFlight'
<1> USE Callers DEF WaitersHaveAFlight, TypeOK
<1>1. ASSUME flight' = flight, want' = want,
             \A c \in Caller : pc'[c] = "wait" <=> pc[c] = "wait"
      PROVE  WaitersHaveAFlight'
  BY <1>1 DEF Wants
<1>2. ASSUME NEW r \in Request, Arrive(r) \/ Peek(r)
      PROVE  WaitersHaveAFlight'
  <2>1. flight' = flight /\ want' = want
    BY <1>2 DEF Arrive, Peek, PeekMiss, PeekExpired, PeekFresh, PeekStale
  <2>2. ASSUME NEW c \in Caller
        PROVE  pc'[c] = "wait" <=> pc[c] = "wait"
    BY <1>2 DEF Arrive, Peek, PeekMiss, PeekExpired, PeekFresh, PeekStale,
      RefreshesFollow
  <2> QED
    BY <1>1, <2>1, <2>2
<1>3. ASSUME NEW c \in Caller, Fill(c)
      PROVE  WaitersHaveAFlight'
  <2>1. /\ pc' = [pc EXCEPT ![c] = "wait"] /\ want' = want
        /\ flight'[Wants(c)] # NoFlight
        /\ \A k \in Key : k # Wants(c) => flight'[k] = flight[k]
        /\ Wants(c) \in Key /\ pc[c] = "fill"
    BY <1>3 DEF Fill, Lead, Join, Caller, Wants, Flight, NoFlight
  <2>2. \A d \in Caller : Wants(d)' = Wants(d)
    BY <2>1 DEF Wants
  <2> QED
    BY <2>1, <2>2
<1>4. ASSUME NEW k \in Key, Load(k) \/ Commit(k)
      PROVE  WaitersHaveAFlight'
  <2>1. /\ pc' = pc /\ want' = want
        /\ flight[k] # NoFlight /\ flight'[k] # NoFlight
        /\ \A j \in Key : j # k => flight'[j] = flight[j]
    BY <1>4 DEF Load, Read, Return, Commit, Flight, NoFlight
  <2> QED
    BY <2>1 DEF Wants
<1>5. ASSUME NEW k \in Key, Close(k)
      PROVE  WaitersHaveAFlight'
  <2>1. /\ flight' = [flight EXCEPT ![k] = NoFlight] /\ want' = want
        /\ pc' = [c \in Caller |-> IF pc[c] = "wait" /\ Wants(c) = k THEN "done" ELSE pc[c]]
    BY <1>5 DEF Close
  <2> QED
    BY <2>1 DEF Wants
<1>6. ASSUME NEW k \in Key, Change(k) \/ Evict(k) \/ Invalidate(k)
      PROVE  pc' = pc /\ flight' = flight /\ want' = want
  BY <1>6 DEF Change, Evict, Invalidate
<1>7. CASE Time
  BY <1>1, <1>7 DEF Time
<1> QED
  BY <1>1, <1>2, <1>3, <1>4, <1>5, <1>6, <1>7 DEF Next
-----------------------------------------------------------------------------
FullInv == IInv /\ RefreshesFollow /\ WaitersHaveAFlight

LEMMA Invariance == Spec => []FullInv
<1>1. Init => FullInv
  <2>1. Init => RefreshesFollow /\ WaitersHaveAFlight
    BY Callers DEF Init, RefreshesFollow, WaitersHaveAFlight
  <2> QED
    BY <2>1, InitIInv DEF FullInv
<1>2. FullInv /\ [Next]_vars => FullInv'
  <2> SUFFICES ASSUME FullInv, [Next]_vars
               PROVE  FullInv'
    OBVIOUS
  <2>1. CASE Next
    BY <2>1, TypesKept, VersionsKept, AnswersKept, RefreshesFollowKept, WaitersKept
    DEF FullInv, IInv
  <2>2. CASE UNCHANGED vars
    BY <2>2 DEF vars, history, FullInv, IInv, TypeOK, Versions, HistoryExists,
      EntriesCurrent, FlightsCurrent, FlightsHaveOutcomes, Answers,
      PromisesHold, NotYetAnswered, NeverGoesBack, InvalidationTakesEffect,
      RefreshesFollow, WaitersHaveAFlight, Wants
  <2> QED
    BY <2>1, <2>2
<1> QED
  BY <1>1, <1>2, PTL DEF Spec

(* Types of the entries, the flights, the goroutines and the history.      *)
THEOREM TypeCorrect == Spec => []TypeOK
BY Invariance, PTL DEF FullInv, IInv

(* Do: shared answers of a page never show older data to a later visitor.  *)
THEOREM SharedAnswersNeverGoBack == Spec => []NeverGoesBack
BY Invariance, PTL DEF FullInv, IInv, Answers

(* Invalidate: what it found is the least a later request is shown, unless *)
(* a flight had read its data before.                                      *)
THEOREM InvalidationsTakeEffect == Spec => []InvalidationTakesEffect
BY Invariance, PTL DEF FullInv, IInv, Answers

(* singleflight: nobody waits for a flight that is gone, and no flight is  *)
(* left without someone to answer.                                         *)
THEOREM NobodyIsLeftBehind == Spec => []WaitersHaveAFlight
BY Invariance, PTL DEF FullInv

(* fill: what becomes an entry is the shared result of the flight of its   *)
(* key, and nothing else touches an entry but to remove it.                *)
THEOREM OnlySharedEntries == Spec => OnlySharedPagesBecomeEntries
<1> DEFINE Committed ==
      \A k \in DOMAIN entries' :
        (k \notin DOMAIN entries \/ entries'[k] # entries[k]) =>
          /\ flight[k].outcome = "shared"
          /\ entries'[k].value = flight[k].ver
<1>1. FullInv /\ [Next]_vars => [Committed]_vars
  <2> SUFFICES ASSUME FullInv, Next
               PROVE  Committed
    OBVIOUS
  <2>1. CASE entries' = entries
    BY <2>1
  <2>2. ASSUME NEW S, entries' = Without(S)
        PROVE  Committed
    BY <2>2 DEF Without
  <2>3. ASSUME NEW k \in Key, Commit(k)
        PROVE  Committed
    <3>1. flight[k].outcome = "shared"
      BY <2>3 DEF Commit, FullInv, IInv, Versions, FlightsHaveOutcomes
    <3>2. CASE Remove({k})
      BY <2>2, <3>2 DEF Remove
    <3>3. ASSUME NEW p \in Policy, Put(k, flight[k].ver, p)
          PROVE  Committed
      BY <3>1, <3>3 DEF Put, EntryOf
    <3> QED
      BY <2>3, <3>2, <3>3 DEF Commit
  <2>4. ASSUME NEW k \in Key, Change(k) \/ Load(k) \/ Close(k)
        PROVE  entries' = entries
    BY <2>4 DEF Change, Load, Read, Return, Close
  <2>5. ASSUME NEW k \in Key, Evict(k) \/ Invalidate(k)
        PROVE  entries' = Without({k})
    BY <2>5 DEF Evict, Invalidate, Remove
  <2>6. ASSUME NEW r \in Request, PeekExpired(r)
        PROVE  entries' = Without({want[r]})
    BY <2>6 DEF PeekExpired, Remove
  <2>7. ASSUME NEW r \in Request, Arrive(r) \/ PeekMiss(r) \/ PeekFresh(r) \/ PeekStale(r)
        PROVE  entries' = entries
    BY <2>7 DEF Arrive, PeekMiss, PeekFresh, PeekStale
  <2>8. ASSUME NEW c \in Caller, Fill(c)
        PROVE  entries' = entries
    BY <2>8 DEF Fill, Lead, Join
  <2>9. CASE Time
    BY <2>1, <2>9 DEF Time, Pass
  <2> QED
    BY <2>1, <2>2, <2>3, <2>4, <2>5, <2>6, <2>7, <2>8, <2>9 DEF Next, Peek
<1>2. OnlySharedPagesBecomeEntries <=> [][Committed]_vars
  BY PTL DEF OnlySharedPagesBecomeEntries
<1> QED
  BY Invariance, <1>1, <1>2, PTL DEF Spec
=============================================================================
