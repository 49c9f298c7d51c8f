-------------------------- MODULE PageStreamProofs --------------------------
(***************************************************************************)
(* Streamed pages, for any page whose fragments nest, any number of        *)
(* requests and any budget: what a response has sent and what the cache    *)
(* keeps is the page, and every slot is filled.                            *)
(***************************************************************************)
EXTENDS PageStream, FiniteSetTheorems, SequenceTheorems, WellFoundedInduction, TLAPS
-----------------------------------------------------------------------------
Names == {Ops[i].name : i \in DOMAIN Ops}

PieceRecord ==
  [kind : {"text", "data", "slot", "template", "close"}, of : Names, by : Request \cup {Nobody}]

Frame == [kind : {"cached", "inline"}, name : Names, end : Nat, start : Nat]

Response ==
  [path : {"stream", "buffered"},
   stage : {"render", "settle", "body", "tail", "done", "broken"},
   pc : 1..(Len(Ops) + 1), frames : Seq(Frame),
   loader : [Deferral -> {"running", "ok", "failed"}],
   slotted : Seq(Names \cap Deferral), turn : Nat \ {0},
   out : Seq(PieceRecord), sent : Seq(PieceRecord), gone : BOOLEAN]

(* Pieces stand for a range of the page: they have its texts, and what     *)
(* else they show, data and slots, is in it.                               *)
StandsIn(p, from, to) ==
  CASE p.kind = "text" -> p.of \in {Ops[i].name : i \in Texts}
    [] p.kind = "data" -> \E i \in from..(to - 1) : i \in DOMAIN Ops /\ Ops[i].op = "data" /\ Ops[i].name = p.of
    [] p.kind = "slot" -> LET i == FragmentOf(p.of)
                          IN  i \in Fragments /\ Ops[i].deferred /\ from <= i /\ Ops[i].end <= to
    [] OTHER           -> FALSE

StandFor(pieces, from, to) ==
  /\ pieces \in Seq(PieceRecord)
  /\ CarryTexts(pieces, from, to)
  /\ \A k \in DOMAIN pieces : StandsIn(pieces[k], from, to)

Whole(s) == s.sent \o s.out

Deferred(n) == FragmentOf(n) \in Fragments /\ Ops[FragmentOf(n)].deferred /\ Ops[FragmentOf(n)].name = n

(* A fragment of the page around what is rendered now.                     *)
Around(i, pc) == i \in Fragments /\ i < pc /\ pc <= Ops[i].end

(* The frames are the fragments around the operation to come.              *)
Framed(s) ==
  /\ s.stage \in {"tail", "done", "broken"} => s.frames = <<>>
  /\ s.stage = "settle" => /\ s.pc \in Fragments /\ Ops[s.pc].deferred
                           /\ \A j \in DOMAIN s.frames : s.pc < s.frames[j].end
  /\ \A j \in DOMAIN s.frames :
       LET i == FragmentOf(s.frames[j].name)
       IN  /\ Around(i, s.pc)
           /\ Ops[i].name = s.frames[j].name /\ Ops[i].end = s.frames[j].end
           /\ IF s.frames[j].kind = "cached" THEN Ops[i].cached ELSE Ops[i].deferred
  /\ \A j, k \in DOMAIN s.frames : j < k => s.frames[k].end <= s.frames[j].end
  /\ \A k \in DOMAIN s.slotted : Deferred(s.slotted[k])
  /\ s.stage = "body" =>
       /\ s.turn \in DOMAIN s.slotted
       /\ Around(FragmentOf(s.slotted[s.turn]), s.pc)
       /\ \A j \in DOMAIN s.frames : s.frames[j].end <= Ops[FragmentOf(s.slotted[s.turn])].end

(* What was made so far, sent or not, stands for the page up to here; what *)
(* is recorded for a fragment stands for the fragment up to here.          *)
Covered(s) ==
  /\ s.stage \in {"render", "settle"} => StandFor(Whole(s), 1, s.pc)
  /\ s.stage \in {"tail", "body", "done"} => StandFor(Document(Whole(s)), 1, Len(Ops) + 1)
  /\ s.stage = "body" => \E i \in DOMAIN Whole(s) : Whole(s)[i].kind = "template"
  /\ \A j \in DOMAIN s.frames : s.frames[j].kind = "cached" =>
       /\ s.frames[j].start <= Len(s.out)
       /\ StandFor(SubSeq(s.out, s.frames[j].start + 1, Len(s.out)), FragmentOf(s.frames[j].name) + 1, s.pc)

(* What is held back, and on which way.                                    *)
Sending(s) ==
  /\ s.path = "buffered" => /\ s.stage \notin {"tail", "body"} /\ s.slotted = <<>>
                            /\ s.stage \in {"render", "settle"} => s.sent = <<>>
  /\ s.stage = "done" /\ ~s.gone => s.out = <<>>
  /\ s.stage = "settle" /\ s.path = "stream" /\ ~s.gone /\ ~Recording(s) => s.out = <<>>

(* The slots before the turn of the tail have had theirs.                  *)
Served(s, n) == s.loader[n] = "failed" \/ Has(Whole(s), "template", n)

Turned(s) ==
  /\ s.stage \in {"render", "settle"} => s.turn = 1
  /\ s.stage \in {"tail", "body", "done"} => \A k \in DOMAIN s.slotted : k < s.turn => Served(s, s.slotted[k])
  /\ s.stage = "body" => Served(s, s.slotted[s.turn])
  /\ s.stage = "done" => Len(s.slotted) < s.turn

ResponseInv(s) == s \in Response /\ Framed(s) /\ Covered(s) /\ Sending(s) /\ Turned(s)

(* No fragment that is deferred stands in one that is cached.              *)
NoneIsKeptDeferred ==
  \A i, j \in Fragments : Ops[i].cached /\ i < j /\ j < Ops[i].end => ~Ops[j].deferred

(* Then the slots of a response are its own.                               *)
SlotsAreOwn(s) == \A n \in SlotsIn(Whole(s)) : \E k \in DOMAIN s.slotted : s.slotted[k] = n

(* Data stand in the fragment that loads them, which is in no other that   *)
(* is deferred, and no cached fragment has any.                            *)
DataHaveTheirPlace ==
  /\ \A j \in DOMAIN Ops : Ops[j].op = "data" =>
       LET i == FragmentOf(Ops[j].name)
       IN  i \in Fragments /\ Ops[i].name = Ops[j].name /\ Ops[i].deferred /\ i < j /\ j < Ops[i].end
  /\ \A i, j \in Fragments : Ops[i].deferred /\ i < j /\ j < Ops[i].end => ~Ops[j].deferred
  /\ \A i \in Fragments, j \in DOMAIN Ops : Ops[i].cached /\ i < j /\ j < Ops[i].end => Ops[j].op # "data"

(* Then the deferred fragments around an operation are in scope, and data  *)
(* are the request's own.                                                  *)
InPlace(s) ==
  s.stage \in {"render", "settle"} =>
    \A i \in Fragments : Ops[i].deferred /\ i < s.pc /\ s.pc < Ops[i].end =>
      \E j \in DOMAIN s.frames : s.frames[j].kind = "inline" /\ s.frames[j].name = Ops[i].name

DataBy(pieces, r) == \A k \in DOMAIN pieces : pieces[k].kind = "data" => pieces[k].by = r

RequestInv(s, r) ==
  /\ ResponseInv(s)
  /\ NoneIsKeptDeferred => SlotsAreOwn(s)
  /\ DataHaveTheirPlace => InPlace(s) /\ DataBy(Whole(s), r)

(* The cache keeps fragments, whole.                                       *)
Kept ==
  \A n \in DOMAIN entries :
    LET i == FragmentOf(n)
    IN  /\ i \in Fragments /\ Ops[i].name = n /\ Ops[i].cached
        /\ StandFor(entries[n].value, i + 1, Ops[i].end)

StreamInv ==
  /\ req \in [Request -> Response]
  /\ \A r \in Request : RequestInv(req[r], r)
  /\ Kept
-----------------------------------------------------------------------------
LEMMA OpsAreInOrder == Len(Ops) \in Nat /\ DOMAIN Ops = 1..Len(Ops)
  BY PageAssumption

LEMMA FragmentIsFound == \A i \in Fragments : FragmentOf(Ops[i].name) = i
  BY NamesAssumption DEF FragmentOf

LEMMA TextIsFound == \A i \in Texts : TextAt(Ops[i].name) = i
  BY NamesAssumption DEF TextAt

LEMMA FragmentsEnd ==
  \A i \in Fragments : /\ i \in Nat /\ Ops[i].end \in Nat /\ 1 <= i
                       /\ i < Ops[i].end /\ Ops[i].end <= Len(Ops) + 1
  <1> TAKE i \in Fragments
  <1>1. i \in DOMAIN Ops
    BY DEF Fragments
  <1>2. i \in Nat /\ 1 <= i /\ Len(Ops) \in Nat
    BY <1>1, OpsAreInOrder
  <1>3. Ops[i].end \in (i + 1)..(Len(Ops) + 1)
    BY FragmentAssumption
  <1> QED
    BY <1>2, <1>3

LEMMA TextsStandInRange ==
  ASSUME NEW a \in Nat, NEW b \in Nat, NEW p, StandFor(p, a, b),
         NEW k \in DOMAIN p, p[k].kind = "text"
  PROVE  TextAt(p[k].of) \in Texts /\ a <= TextAt(p[k].of) /\ TextAt(p[k].of) < b /\ TextAt(p[k].of) \in Nat
  <1>1. TextAt(p[k].of) \in Texts \cap a..(b - 1)
    BY DEF StandFor, CarryTexts
  <1> QED
    BY <1>1

LEMMA SlotsStandInRange ==
  ASSUME NEW a \in Nat, NEW b \in Nat, NEW p, StandFor(p, a, b), NEW n \in SlotsIn(p)
  PROVE  /\ FragmentOf(n) \in Fragments /\ Ops[FragmentOf(n)].deferred
         /\ a <= FragmentOf(n) /\ Ops[FragmentOf(n)].end <= b
         /\ FragmentOf(n) \in Nat /\ Ops[FragmentOf(n)].end \in Nat
  <1>1. PICK k \in DOMAIN p : p[k].kind = "slot" /\ p[k].of = n
    BY DEF SlotsIn
  <1>2. StandsIn(p[k], a, b)
    BY DEF StandFor
  <1> QED
    BY <1>1, <1>2, FragmentsEnd DEF StandsIn

LEMMA JoinedPieces ==
  ASSUME NEW p \in Seq(PieceRecord), NEW q \in Seq(PieceRecord)
  PROVE  /\ p \o q \in Seq(PieceRecord)
         /\ \A k \in DOMAIN (p \o q) :
              \/ k \in DOMAIN p /\ (p \o q)[k] = p[k]
              \/ k - Len(p) \in DOMAIN q /\ k > Len(p) /\ (p \o q)[k] = q[k - Len(p)]
         /\ \A k \in DOMAIN p : k \in DOMAIN (p \o q) /\ (p \o q)[k] = p[k]
         /\ \A k \in DOMAIN q : k + Len(p) \in DOMAIN (p \o q) /\ (p \o q)[k + Len(p)] = q[k]
         /\ DOMAIN p \subseteq Nat /\ DOMAIN q \subseteq Nat /\ Len(p) \in Nat
         /\ \A k \in DOMAIN p : k <= Len(p)
  OBVIOUS

LEMMA JoinedSlots ==
  ASSUME NEW p \in Seq(PieceRecord), NEW q \in Seq(PieceRecord)
  PROVE  SlotsIn(p \o q) = SlotsIn(p) \cup SlotsIn(q)
  <1> DEFINE pq == p \o q
  <1>1. \A s, k : k \in DOMAIN s /\ s[k].kind = "slot" => s[k].of \in SlotsIn(s)
    BY DEF SlotsIn
  <1>2. \A s : \A n \in SlotsIn(s) : \E k \in DOMAIN s : s[k].kind = "slot" /\ s[k].of = n
    BY DEF SlotsIn
  <1>3. \A k \in DOMAIN pq : pq[k].kind = "slot" => pq[k].of \in SlotsIn(p) \cup SlotsIn(q)
    BY <1>1, JoinedPieces
  <1>4. \A k \in DOMAIN p : p[k].kind = "slot" => p[k].of \in SlotsIn(pq)
    BY <1>1, JoinedPieces
  <1>5. \A k \in DOMAIN q : q[k].kind = "slot" => q[k].of \in SlotsIn(pq)
    <2> TAKE k \in DOMAIN q
    <2>1. k + Len(p) \in DOMAIN pq /\ pq[k + Len(p)] = q[k]
      BY JoinedPieces
    <2> HIDE DEF pq
    <2>2. pq[k + Len(p)].kind = "slot" => pq[k + Len(p)].of \in SlotsIn(pq)
      BY <1>1, <2>1
    <2> QED
      BY <2>1, <2>2
  <1> HIDE DEF pq
  <1>6. SlotsIn(pq) = SlotsIn(p) \cup SlotsIn(q)
    BY <1>2, <1>3, <1>4, <1>5
  <1> QED
    BY <1>6 DEF pq

(* Two stretches side by side are one.                                     *)
LEMMA Joined ==
  ASSUME NEW a \in Nat, NEW b \in Nat, NEW c \in Nat, a <= b, b <= c,
         NEW p, NEW q, StandFor(p, a, b), StandFor(q, b, c)
  PROVE  StandFor(p \o q, a, c)
  <1> DEFINE pq == p \o q
             texts(s) == {k \in DOMAIN s : s[k].kind = "text"}
             at(s) == {TextAt(s[k].of) : k \in texts(s)}
  <1>1. p \in Seq(PieceRecord) /\ q \in Seq(PieceRecord)
    BY DEF StandFor
  <1>2. pq \in Seq(PieceRecord)
    BY <1>1
  <1>3. SlotsIn(pq) = SlotsIn(p) \cup SlotsIn(q)
    BY <1>1, JoinedSlots
  <1>4. at(pq) = at(p) \cup at(q)
    <2>1. \A k \in texts(pq) : TextAt(pq[k].of) \in at(p) \cup at(q)
      BY <1>1, JoinedPieces
    <2>2. \A k \in texts(p) : TextAt(p[k].of) \in at(pq)
      BY <1>1, JoinedPieces
    <2>3. \A k \in texts(q) : TextAt(q[k].of) \in at(pq)
      <3> TAKE k \in texts(q)
      <3>1. k + Len(p) \in DOMAIN pq /\ pq[k + Len(p)] = q[k]
        BY <1>1, JoinedPieces
      <3> HIDE DEF pq
      <3>2. k + Len(p) \in texts(pq)
        BY <3>1
      <3> QED
        BY <3>1, <3>2
    <2> QED
      BY <2>1, <2>2, <2>3
  <1>5. ASSUME NEW i \in a..(b - 1) PROVE InsideSlot(i, SlotsIn(pq)) <=> InsideSlot(i, SlotsIn(p))
    <2>1. \A n \in SlotsIn(q) : ~ (FragmentOf(n) < i)
      BY SlotsStandInRange
    <2> QED
      BY <1>3, <2>1 DEF InsideSlot
  <1>6. ASSUME NEW i \in b..(c - 1) PROVE InsideSlot(i, SlotsIn(pq)) <=> InsideSlot(i, SlotsIn(q))
    <2>1. \A n \in SlotsIn(p) : ~ (i < Ops[FragmentOf(n)].end)
      BY SlotsStandInRange
    <2> QED
      BY <1>3, <2>1 DEF InsideSlot
  <1>7. at(pq) = {i \in Texts \cap a..(c - 1) : ~InsideSlot(i, SlotsIn(pq))}
    <2>1. at(p) = {i \in Texts \cap a..(b - 1) : ~InsideSlot(i, SlotsIn(p))}
      BY DEF StandFor, CarryTexts
    <2>2. at(q) = {i \in Texts \cap b..(c - 1) : ~InsideSlot(i, SlotsIn(q))}
      BY DEF StandFor, CarryTexts
    <2>3. a..(c - 1) = a..(b - 1) \cup b..(c - 1)
      OBVIOUS
    <2> HIDE DEF pq, at
    <2> QED
      BY <1>4, <1>5, <1>6, <2>1, <2>2, <2>3
  <1>8. \A j, k \in texts(pq) : j < k => TextAt(pq[j].of) < TextAt(pq[k].of)
    <2> SUFFICES ASSUME NEW j \in texts(pq), NEW k \in texts(pq), j < k
                 PROVE  TextAt(pq[j].of) < TextAt(pq[k].of)
      OBVIOUS
    <2> DEFINE n == Len(p)
    <2>1. \/ j \in texts(p) /\ pq[j] = p[j] /\ j <= n
          \/ j - n \in texts(q) /\ j > n /\ pq[j] = q[j - n]
      BY <1>1, JoinedPieces
    <2>2. \/ k \in texts(p) /\ pq[k] = p[k] /\ k <= n
          \/ k - n \in texts(q) /\ k > n /\ pq[k] = q[k - n]
      BY <1>1, JoinedPieces
    <2>3. j \in Nat /\ k \in Nat /\ n \in Nat
      BY <1>1, <1>2
    <2>4. \A h, l \in texts(p) : h < l => TextAt(p[h].of) < TextAt(p[l].of)
      BY DEF StandFor, CarryTexts
    <2>5. \A h, l \in texts(q) : h < l => TextAt(q[h].of) < TextAt(q[l].of)
      BY DEF StandFor, CarryTexts
    <2>6. \A h \in texts(p) : TextAt(p[h].of) < b /\ TextAt(p[h].of) \in Nat
      BY TextsStandInRange
    <2>7. \A h \in texts(q) : b <= TextAt(q[h].of) /\ TextAt(q[h].of) \in Nat
      BY TextsStandInRange
    <2> HIDE DEF pq, texts, n
    <2>8. CASE j > n
      BY <2>1, <2>2, <2>3, <2>5, <2>8
    <2>9. CASE j <= n /\ k > n
      BY <2>1, <2>2, <2>3, <2>6, <2>7, <2>9
    <2>10. CASE k <= n
      BY <2>1, <2>2, <2>3, <2>4, <2>10
    <2> QED
      BY <2>3, <2>8, <2>9, <2>10
  <1>9. \A k \in DOMAIN pq : StandsIn(pq[k], a, c)
    <2>1. \A k \in DOMAIN p : StandsIn(p[k], a, c)
      <3>1. \A k \in DOMAIN p : StandsIn(p[k], a, b)
        BY DEF StandFor
      <3> QED
        BY <3>1, FragmentsEnd DEF StandsIn
    <2>2. \A k \in DOMAIN q : StandsIn(q[k], a, c)
      <3>1. \A k \in DOMAIN q : StandsIn(q[k], b, c)
        BY DEF StandFor
      <3> QED
        BY <3>1, FragmentsEnd DEF StandsIn
    <2> QED
      BY <1>1, <2>1, <2>2, JoinedPieces
  <1> QED
    BY <1>2, <1>7, <1>8, <1>9 DEF StandFor, CarryTexts

LEMMA NothingStands ==
  ASSUME NEW a \in Nat, NEW b \in Nat, \A t \in Texts : ~ (a <= t /\ t < b)
  PROVE  StandFor(<<>>, a, b)
  <1> DEFINE empty == <<>>
  <1>1. DOMAIN empty = {} /\ empty \in Seq(PieceRecord)
    OBVIOUS
  <1> HIDE DEF empty
  <1>2. {t \in Texts \cap a..(b - 1) : ~InsideSlot(t, SlotsIn(empty))} = {}
    <2>1. \A t \in a..(b - 1) : a <= t /\ t < b
      OBVIOUS
    <2> QED
      BY <2>1
  <1>3. CarryTexts(empty, a, b)
    BY <1>1, <1>2 DEF CarryTexts
  <1>4. StandFor(empty, a, b)
    BY <1>1, <1>3 DEF StandFor
  <1> QED
    BY <1>4 DEF empty

(* What an operation emits stands for it.                                  *)
LEMMA TextStands ==
  ASSUME NEW i \in Texts
  PROVE  StandFor(<<Piece("text", Ops[i].name, Nobody)>>, i, i + 1)
  <1> DEFINE p == <<Piece("text", Ops[i].name, Nobody)>>
  <1>1. i \in Nat /\ i \in DOMAIN Ops
    BY OpsAreInOrder DEF Texts
  <1>2. Piece("text", Ops[i].name, Nobody) \in PieceRecord
    BY <1>1 DEF Piece, PieceRecord, Names
  <1>3. p \in Seq(PieceRecord) /\ DOMAIN p = {1} /\ p[1].kind = "text" /\ p[1].of = Ops[i].name
    BY <1>2 DEF Piece
  <1> HIDE DEF p
  <1>4. SlotsIn(p) = {}
    BY <1>3 DEF SlotsIn
  <1>5. TextAt(p[1].of) = i
    BY <1>3, TextIsFound
  <1>6. CarryTexts(p, i, i + 1)
    <2>1. {i} = Texts \cap i..(i + 1 - 1)
      BY <1>1
    <2> QED
      BY <1>3, <1>4, <1>5, <2>1 DEF CarryTexts, InsideSlot
  <1>7. StandsIn(p[1], i, i + 1)
    BY <1>3 DEF StandsIn
  <1> QED
    BY <1>3, <1>6, <1>7 DEF StandFor, p

LEMMA OnePieceStands ==
  ASSUME NEW i \in Nat, NEW c \in Nat, NEW piece \in PieceRecord,
         piece.kind # "text", StandsIn(piece, i, c),
         \A t \in Texts : i <= t /\ t < c => InsideSlot(t, SlotsIn(<<piece>>))
  PROVE  StandFor(<<piece>>, i, c)
  <1> DEFINE p == <<piece>>
  <1>1. p \in Seq(PieceRecord) /\ DOMAIN p = {1} /\ p[1] = piece
    OBVIOUS
  <1> HIDE DEF p
  <1>2. {t \in Texts \cap i..(c - 1) : ~InsideSlot(t, SlotsIn(p))} = {}
    <2> SUFFICES ASSUME NEW t \in Texts, t \in i..(c - 1) PROVE InsideSlot(t, SlotsIn(p))
      OBVIOUS
    <2>1. i <= t /\ t < c
      OBVIOUS
    <2> QED
      BY <2>1 DEF p
  <1>3. CarryTexts(p, i, c)
    BY <1>1, <1>2 DEF CarryTexts
  <1> QED
    BY <1>1, <1>3 DEF StandFor, p

LEMMA DataStand ==
  ASSUME NEW i \in DOMAIN Ops, Ops[i].op = "data", NEW by \in Request \cup {Nobody}
  PROVE  StandFor(<<Piece("data", Ops[i].name, by)>>, i, i + 1)
  <1> DEFINE piece == Piece("data", Ops[i].name, by)
  <1>1. i \in Nat /\ i \in i..(i + 1 - 1)
    BY OpsAreInOrder
  <1>2. piece \in PieceRecord /\ piece.kind = "data" /\ piece.of = Ops[i].name
    BY DEF Piece, PieceRecord, Names
  <1> HIDE DEF piece
  <1>3. StandsIn(piece, i, i + 1)
    BY <1>1, <1>2 DEF StandsIn
  <1>4. \A t \in Texts : ~ (i <= t /\ t < i + 1)
    BY <1>1, OpsAreInOrder DEF Texts
  <1>5. StandFor(<<piece>>, i, i + 1)
    BY <1>1, <1>2, <1>3, <1>4, OnePieceStands
  <1> QED
    BY <1>5 DEF piece

LEMMA SlotStands ==
  ASSUME NEW i \in Fragments, Ops[i].deferred
  PROVE  StandFor(<<Piece("slot", Ops[i].name, Nobody)>>, i, Ops[i].end)
  <1> DEFINE piece == Piece("slot", Ops[i].name, Nobody)
  <1>1. i \in Nat /\ Ops[i].end \in Nat
    BY FragmentsEnd
  <1>2. piece \in PieceRecord /\ piece.kind = "slot" /\ piece.of = Ops[i].name
    BY DEF Piece, PieceRecord, Names, Fragments
  <1> HIDE DEF piece
  <1>3. FragmentOf(piece.of) = i
    BY <1>2, FragmentIsFound
  <1>4. StandsIn(piece, i, Ops[i].end)
    BY <1>1, <1>2, <1>3 DEF StandsIn
  <1>5. piece.of \in SlotsIn(<<piece>>)
    BY <1>2 DEF SlotsIn
  <1>6. \A t \in Texts : i <= t /\ t < Ops[i].end => i < t
    <2>1. i \notin Texts
      BY DEF Fragments, Texts
    <2> QED
      BY <1>1, <2>1, OpsAreInOrder DEF Texts
  <1>7. \A t \in Texts : i <= t /\ t < Ops[i].end => InsideSlot(t, SlotsIn(<<piece>>))
    BY <1>3, <1>5, <1>6 DEF InsideSlot
  <1>8. StandFor(<<piece>>, i, Ops[i].end)
    BY <1>1, <1>2, <1>4, <1>7, OnePieceStands
  <1> QED
    BY <1>8 DEF piece

LEMMA OpenStands == ASSUME NEW i \in Fragments PROVE StandFor(<<>>, i, i + 1)
  <1>1. \A t \in Texts : t # i /\ t \in Nat
    BY OpsAreInOrder DEF Fragments, Texts
  <1>2. i \in Nat
    BY FragmentsEnd
  <1> QED
    BY <1>1, <1>2, NothingStands

LEMMA KeptStands ==
  ASSUME NEW i \in Fragments, NEW value, StandFor(value, i + 1, Ops[i].end)
  PROVE  StandFor(value, i, Ops[i].end)
  <1>1. i \in Nat /\ i + 1 \in Nat /\ Ops[i].end \in Nat /\ i + 1 <= Ops[i].end
    BY FragmentsEnd
  <1> DEFINE empty == <<>>
  <1>2. StandFor(empty, i, i + 1)
    BY OpenStands
  <1>3. empty \o value = value
    BY ConcatEmptySeq DEF StandFor
  <1> HIDE DEF empty
  <1>4. StandFor(empty \o value, i, Ops[i].end)
    BY <1>1, <1>2, Joined
  <1> QED
    BY <1>3, <1>4
-----------------------------------------------------------------------------
(* Sets of numbers have a least one.                                       *)
LEMMA LeastOfSet ==
  ASSUME NEW N, N \subseteq Nat, N # {}
  PROVE  Seqs!Min(N) \in N /\ \A i \in N : Seqs!Min(N) <= i
  <1>1. PICK m \in N : \A i \in N : ~ (<<i, m>> \in OpToRel(<, Nat))
    BY NatLessThanWellFounded, WFMin
  <1>2. \A i \in N : ~ (i < m)
    BY <1>1 DEF OpToRel
  <1>3. \A i \in N : m <= i
    BY <1>2
  <1> QED
    BY <1>3 DEF Seqs!Min

Templates(pieces) == {i \in DOMAIN pieces : pieces[i].kind = "template"}

LEMMA DocumentOfPlain ==
  ASSUME NEW p, Templates(p) = {} PROVE Document(p) = p
  BY DEF Document, Templates

LEMMA NoTemplateStands ==
  ASSUME NEW a, NEW b, NEW p, StandFor(p, a, b) PROVE Templates(p) = {}
  BY DEF StandFor, StandsIn, Templates

LEMMA DocumentCut ==
  ASSUME NEW p \in Seq(PieceRecord), NEW m \in Templates(p), \A i \in Templates(p) : m <= i
  PROVE  Document(p) = SubSeq(p, 1, m - 1)
  <1>1. Templates(p) \subseteq Nat /\ Templates(p) # {}
    BY DEF Templates
  <1>2. Seqs!Min(Templates(p)) = m
    <2>1. Seqs!Min(Templates(p)) \in Templates(p) /\ \A i \in Templates(p) : Seqs!Min(Templates(p)) <= i
      BY <1>1, LeastOfSet
    <2> QED
      BY <1>1, <2>1
  <1> QED
    BY <1>1, <1>2 DEF Document, Templates

(* What follows a template is not of the document.                         *)
LEMMA DocumentStays ==
  ASSUME NEW p \in Seq(PieceRecord), NEW q \in Seq(PieceRecord), Templates(p) # {}
  PROVE  Document(p \o q) = Document(p) /\ Templates(p \o q) # {}
  <1> DEFINE m == Seqs!Min(Templates(p))
  <1>1. Templates(p) \subseteq 1..Len(p) /\ Len(p) \in Nat
    BY DEF Templates
  <1>2. m \in Templates(p) /\ \A i \in Templates(p) : m <= i
    BY <1>1, LeastOfSet
  <1> HIDE DEF m
  <1>3. m \in 1..Len(p)
    BY <1>1, <1>2
  <1>4. m \in Templates(p \o q)
    BY <1>2, JoinedPieces DEF Templates
  <1>5. \A i \in Templates(p \o q) : m <= i
    <2> TAKE i \in Templates(p \o q)
    <2>1. i \in Templates(p) \/ i > Len(p)
      BY JoinedPieces DEF Templates
    <2> QED
      BY <1>1, <1>2, <1>3, <2>1, JoinedPieces DEF Templates
  <1>6. Document(p) = SubSeq(p, 1, m - 1)
    BY <1>2, DocumentCut
  <1>7. p \o q \in Seq(PieceRecord)
    OBVIOUS
  <1>8. Document(p \o q) = SubSeq(p \o q, 1, m - 1)
    BY <1>4, <1>5, <1>7, DocumentCut
  <1>9. SubSeq(p \o q, 1, m - 1) = SubSeq(p, 1, m - 1)
    <2>1. CASE m = 1
      BY <2>1, SubSeqEmpty
    <2>2. CASE m > 1
      <3>1. 1 \in 1..Len(p) /\ m - 1 \in 1..Len(p)
        BY <1>1, <1>3, <2>2
      <3> QED
        BY <3>1, SubSeqOfConcat1
    <2> QED
      BY <1>3, <2>1, <2>2
  <1> QED
    BY <1>4, <1>6, <1>8, <1>9

LEMMA DocumentEnds ==
  ASSUME NEW p \in Seq(PieceRecord), NEW piece \in PieceRecord,
         Templates(p) = {}, piece.kind = "template"
  PROVE  Document(p \o <<piece>>) = p /\ Templates(p \o <<piece>>) # {}
  <1> DEFINE n == Len(p)
             q == <<piece>>
  <1>1. n \in Nat /\ q \in Seq(PieceRecord) /\ DOMAIN q = {1} /\ q[1] = piece /\ Len(q) = 1
    OBVIOUS
  <1> HIDE DEF q
  <1>2. n + 1 \in Templates(p \o q)
    BY <1>1, JoinedPieces DEF Templates
  <1>3. \A i \in Templates(p \o q) : n + 1 <= i
    <2> TAKE i \in Templates(p \o q)
    <2>1. i > n /\ i \in Nat
      BY <1>1, JoinedPieces DEF Templates
    <2> QED
      BY <1>1, <2>1
  <1>4. p \o q \in Seq(PieceRecord)
    BY <1>1
  <1>5. Document(p \o q) = SubSeq(p \o q, 1, n + 1 - 1)
    <2> DEFINE pq == p \o q
    <2>1. pq \in Seq(PieceRecord) /\ n + 1 \in Templates(pq) /\ \A i \in Templates(pq) : n + 1 <= i
      BY <1>2, <1>3, <1>4
    <2> HIDE DEF pq
    <2>2. Document(pq) = SubSeq(pq, 1, n + 1 - 1)
      BY <2>1, DocumentCut
    <2> QED
      BY <2>2 DEF pq
  <1>6. SubSeq(p \o q, 1, n) = p
    <2>1. CASE n = 0
      BY <1>1, <2>1, SubSeqEmpty, EmptySeq
    <2>2. CASE n > 0
      BY <1>1, <2>2, SubSeqOfConcat1, SubSeqFull
    <2> QED
      BY <1>1, <2>1, <2>2
  <1>7. n + 1 - 1 = n
    BY <1>1
  <1> QED
    BY <1>2, <1>5, <1>6, <1>7 DEF q

(* What is recorded grows with what is written.                            *)
LEMMA RecordedGrows ==
  ASSUME NEW p \in Seq(PieceRecord), NEW q \in Seq(PieceRecord), NEW n \in Nat, n <= Len(p)
  PROVE  /\ SubSeq(p \o q, n + 1, Len(p \o q)) = SubSeq(p, n + 1, Len(p)) \o q
         /\ SubSeq(p, n + 1, Len(p)) \in Seq(PieceRecord)
  <1> DEFINE new == SubSeq(p \o q, n + 1, Len(p \o q))
             old == SubSeq(p, n + 1, Len(p))
  <1>1. /\ old \in Seq(PieceRecord) /\ Len(old) = Len(p) - n
        /\ \A i \in 1..Len(old) : old[i] = p[n + i]
    <2>1. n + 1 \in Int /\ Len(p) \in Int /\ \A i \in (n + 1)..Len(p) : p[i] \in PieceRecord
      OBVIOUS
    <2>2. /\ old \in Seq(PieceRecord)
          /\ Len(old) = IF n + 1 <= Len(p) THEN Len(p) - (n + 1) + 1 ELSE 0
          /\ \A i \in 1..(Len(p) - (n + 1) + 1) : old[i] = p[n + 1 + i - 1]
      BY <2>1, SubSeqProperties
    <2>3. Len(old) = Len(p) - n
      BY <2>1, <2>2
    <2>4. \A i \in 1..Len(old) : i \in 1..(Len(p) - (n + 1) + 1) /\ n + 1 + i - 1 = n + i
      BY <2>3
    <2> HIDE DEF old
    <2>5. \A i \in 1..Len(old) : old[i] = p[n + i]
      BY <2>2, <2>4
    <2> QED
      BY <2>2, <2>3, <2>5
  <1>2. p \o q \in Seq(PieceRecord) /\ Len(p \o q) = Len(p) + Len(q)
        /\ \A i \in 1..(Len(p) + Len(q)) : (p \o q)[i] = IF i <= Len(p) THEN p[i] ELSE q[i - Len(p)]
    OBVIOUS
  <1> DEFINE pq == p \o q
  <1> HIDE DEF pq
  <1>3. /\ SubSeq(pq, n + 1, Len(pq)) \in Seq(PieceRecord)
        /\ Len(SubSeq(pq, n + 1, Len(pq))) = Len(pq) - n
        /\ \A i \in 1..(Len(pq) - n) : SubSeq(pq, n + 1, Len(pq))[i] = pq[n + i]
    BY <1>2 DEF pq
  <1>4. Len(p) \in Nat /\ Len(q) \in Nat
    OBVIOUS
  <1> HIDE DEF old
  <1>5. /\ old \o q \in Seq(PieceRecord) /\ Len(old \o q) = Len(old) + Len(q)
        /\ \A i \in 1..(Len(old) + Len(q)) : (old \o q)[i] = IF i <= Len(old) THEN old[i] ELSE q[i - Len(old)]
    BY <1>1, ConcatProperties
  <1>6. \A i \in 1..Len(old \o q) : new[i] = (old \o q)[i]
    <2> TAKE i \in 1..Len(old \o q)
    <2>1. new[i] = pq[n + i] /\ n + i \in 1..(Len(p) + Len(q))
      BY <1>1, <1>2, <1>3, <1>4, <1>5 DEF pq
    <2>2. pq[n + i] = IF n + i <= Len(p) THEN p[n + i] ELSE q[n + i - Len(p)]
      BY <1>2, <2>1 DEF pq
    <2>3. (old \o q)[i] = IF i <= Len(p) - n THEN p[n + i] ELSE q[i - (Len(p) - n)]
      BY <1>1, <1>4, <1>5
    <2>4. i \in Nat /\ n + i - Len(p) = i - (Len(p) - n)
      BY <1>1, <1>4, <1>5
    <2> QED
      BY <1>4, <2>1, <2>2, <2>3, <2>4
  <1>7. new = old \o q
    <2>1. new \in Seq(PieceRecord) /\ Len(new) = Len(old \o q)
      BY <1>1, <1>2, <1>3, <1>4, <1>5 DEF pq
    <2> HIDE DEF new
    <2> QED
      BY <1>5, <1>6, <2>1, SeqEqual
  <1> QED
    BY <1>1, <1>7 DEF old
-----------------------------------------------------------------------------
(* The body a tail is in.                                                  *)
BodyOf(s) == FragmentOf(s.slotted[s.turn])

(* The operations up to here are in whatever is open.                      *)
Room(s, to) ==
  /\ to \in Nat /\ s.pc < to /\ to <= Len(Ops) + 1
  /\ \A j \in DOMAIN s.frames : to <= s.frames[j].end
  /\ s.stage = "body" => to <= Ops[BodyOf(s)].end

LEMMA RangesOfAResponse ==
  ASSUME NEW s \in Response
  PROVE  /\ s.pc \in Nat /\ s.pc \in 1..(Len(Ops) + 1) /\ s.turn \in Nat \ {0}
         /\ s.frames \in Seq(Frame) /\ s.slotted \in Seq(Names \cap Deferral)
         /\ s.out \in Seq(PieceRecord) /\ s.sent \in Seq(PieceRecord)
         /\ Whole(s) \in Seq(PieceRecord)
         /\ DOMAIN s.frames = 1..Len(s.frames) /\ Len(s.frames) \in Nat
         /\ DOMAIN s.slotted = 1..Len(s.slotted) /\ Len(s.slotted) \in Nat
         /\ \A j \in DOMAIN s.frames : s.frames[j] \in Frame /\ s.frames[j].end \in Nat /\ s.frames[j].start \in Nat
  <1>1. /\ s.pc \in 1..(Len(Ops) + 1) /\ s.turn \in Nat \ {0}
        /\ s.frames \in Seq(Frame) /\ s.slotted \in Seq(Names \cap Deferral)
        /\ s.out \in Seq(PieceRecord) /\ s.sent \in Seq(PieceRecord)
    BY DEF Response
  <1>2. s.pc \in Nat
    BY <1>1, OpsAreInOrder
  <1>3. \A j \in DOMAIN s.frames : s.frames[j] \in Frame
    BY <1>1
  <1>4. Whole(s) \in Seq(PieceRecord)
    BY <1>1 DEF Whole
  <1>5. \A j \in DOMAIN s.frames : s.frames[j].end \in Nat /\ s.frames[j].start \in Nat
    BY <1>3 DEF Frame
  <1>6. /\ DOMAIN s.frames = 1..Len(s.frames) /\ Len(s.frames) \in Nat
        /\ DOMAIN s.slotted = 1..Len(s.slotted) /\ Len(s.slotted) \in Nat
    BY <1>1, LenProperties
  <1> QED
    BY <1>1, <1>2, <1>3, <1>4, <1>5, <1>6

(* The innermost frame ends first.                                         *)
LEMMA Innermost ==
  ASSUME NEW s \in Response, Framed(s), s.frames # <<>>
  PROVE  /\ Len(s.frames) \in DOMAIN s.frames
         /\ Seqs!Last(s.frames) = s.frames[Len(s.frames)]
         /\ \A j \in DOMAIN s.frames : Seqs!Last(s.frames).end <= s.frames[j].end
  <1> DEFINE n == Len(s.frames)
  <1>1. n \in DOMAIN s.frames /\ \A j \in DOMAIN s.frames : j \in Nat /\ j <= n
    BY RangesOfAResponse, EmptySeq
  <1>2. Seqs!Last(s.frames) = s.frames[n]
    BY DEF Seqs!Last
  <1>3. \A j \in DOMAIN s.frames : j < n => s.frames[n].end <= s.frames[j].end
    BY <1>1 DEF Framed
  <1>4. s.frames[n].end \in Nat
    BY <1>1, RangesOfAResponse
  <1> QED
    BY <1>1, <1>2, <1>3, <1>4

LEMMA FragmentsNest ==
  ASSUME NEW i \in Fragments, NEW j \in Fragments, i < j, j < Ops[i].end
  PROVE  Ops[j].end <= Ops[i].end
  BY NestingAssumption

(* There is room for an operation that is not beyond its frame, and for    *)
(* the whole of a fragment that begins there.                              *)
LEMMA RoomForOne ==
  ASSUME NEW s \in Response, Framed(s), s.pc \in DOMAIN Ops,
         \A j \in DOMAIN s.frames : s.pc < s.frames[j].end,
         s.stage = "body" => s.pc < Ops[BodyOf(s)].end
  PROVE  /\ Room(s, s.pc + 1)
         /\ s.pc \in Fragments => Room(s, Ops[s.pc].end)
  <1>1. s.pc \in Nat /\ s.pc <= Len(Ops) /\ Len(Ops) \in Nat
    BY OpsAreInOrder
  <1>2. \A j \in DOMAIN s.frames : s.frames[j].end \in Nat
    BY RangesOfAResponse
  <1>3. s.stage = "body" => BodyOf(s) \in Fragments /\ BodyOf(s) < s.pc /\ Ops[BodyOf(s)].end \in Nat
    BY FragmentsEnd DEF Framed, Around, BodyOf
  <1>4. Room(s, s.pc + 1)
    BY <1>1, <1>2, <1>3 DEF Room
  <1>5. ASSUME s.pc \in Fragments PROVE Room(s, Ops[s.pc].end)
    <2>1. /\ Ops[s.pc].end \in Nat /\ s.pc < Ops[s.pc].end /\ Ops[s.pc].end <= Len(Ops) + 1
      BY <1>5, FragmentsEnd
    <2>2. \A j \in DOMAIN s.frames : Ops[s.pc].end <= s.frames[j].end
      <3> TAKE j \in DOMAIN s.frames
      <3> DEFINE i == FragmentOf(s.frames[j].name)
      <3>1. i \in Fragments /\ i < s.pc /\ Ops[i].end = s.frames[j].end
        BY DEF Framed, Around
      <3> QED
        BY <1>5, <3>1, FragmentsNest
    <2>3. s.stage = "body" => Ops[s.pc].end <= Ops[BodyOf(s)].end
      BY <1>3, <1>5, FragmentsNest
    <2> QED
      BY <2>1, <2>2, <2>3 DEF Room
  <1> QED
    BY <1>4, <1>5

LEMMA RoomAt ==
  ASSUME NEW s \in Response, Framed(s), NEW op, At(s, op)
  PROVE  /\ s.pc \in DOMAIN Ops /\ Ops[s.pc].op = op /\ s.stage \in {"render", "body"}
         /\ \A j \in DOMAIN s.frames : s.pc < s.frames[j].end
         /\ Room(s, s.pc + 1)
         /\ s.pc \in Fragments => Room(s, Ops[s.pc].end)
  <1>1. s.stage \in {"render", "body"} /\ s.pc < End(s) /\ Ops[s.pc].op = op /\ ~Due(s)
    BY DEF At, Running
  <1>2. s.stage = "body" => End(s) = Ops[BodyOf(s)].end /\ BodyOf(s) \in Fragments
    BY DEF End, BodyOf, Framed, Around
  <1>3. s.pc \in DOMAIN Ops
    <2>1. End(s) \in Nat /\ End(s) <= Len(Ops) + 1
      BY <1>1, <1>2, FragmentsEnd, OpsAreInOrder DEF End
    <2> QED
      BY <1>1, <2>1, RangesOfAResponse, OpsAreInOrder
  <1>4. \A j \in DOMAIN s.frames : s.pc < s.frames[j].end
    <2>1. CASE s.frames = <<>>
      <3>1. DOMAIN s.frames = {}
        BY <2>1
      <3> QED
        BY <3>1
    <2>2. CASE s.frames # <<>>
      <3>1. ~ (s.pc >= Seqs!Last(s.frames).end)
        BY <1>1, <2>2 DEF Due
      <3>2. /\ \A j \in DOMAIN s.frames : s.frames[j].end \in Nat
            /\ s.pc \in Nat
        BY RangesOfAResponse
      <3> QED
        BY <2>2, <3>1, <3>2, Innermost
    <2> QED
      BY <2>1, <2>2
  <1> QED
    BY <1>1, <1>2, <1>3, <1>4, RoomForOne

LEMMA JoinedTwice ==
  ASSUME NEW p \in Seq(PieceRecord), NEW q \in Seq(PieceRecord), NEW u \in Seq(PieceRecord)
  PROVE  (p \o q) \o u = p \o (q \o u)
  BY ConcatAssociative

(* The render writes what stands for the next operations, and goes on.     *)
LEMMA Advance ==
  ASSUME NEW s \in Response, NEW t \in Response, Framed(s), Covered(s),
         s.stage \in {"render", "settle", "body"},
         t.stage = IF s.stage = "body" THEN "body" ELSE "render",
         NEW q, StandFor(q, s.pc, t.pc), Room(s, t.pc),
         t.out = s.out \o q, t.sent = s.sent, t.frames = s.frames, t.turn = s.turn,
         s.stage = "body" => t.slotted = s.slotted,
         \A k \in DOMAIN t.slotted : Deferred(t.slotted[k])
  PROVE  Framed(t) /\ Covered(t)
  <1>1. /\ s.pc \in Nat /\ t.pc \in Nat /\ s.pc < t.pc /\ 1 <= s.pc
        /\ s.out \in Seq(PieceRecord) /\ s.sent \in Seq(PieceRecord) /\ q \in Seq(PieceRecord)
        /\ Whole(s) \in Seq(PieceRecord)
    BY RangesOfAResponse DEF Room, StandFor
  <1>2. Whole(t) = Whole(s) \o q
    <2>1. (s.sent \o s.out) \o q = s.sent \o (s.out \o q)
      BY <1>1, JoinedTwice
    <2> QED
      BY <2>1 DEF Whole
  <1>3. ASSUME NEW j \in DOMAIN t.frames
        PROVE  LET i == FragmentOf(t.frames[j].name)
               IN  /\ Around(i, t.pc)
                   /\ Ops[i].name = t.frames[j].name /\ Ops[i].end = t.frames[j].end
                   /\ IF t.frames[j].kind = "cached" THEN Ops[i].cached ELSE Ops[i].deferred
    <2> DEFINE i == FragmentOf(s.frames[j].name)
    <2>1. /\ Around(i, s.pc)
          /\ Ops[i].name = s.frames[j].name /\ Ops[i].end = s.frames[j].end
          /\ IF s.frames[j].kind = "cached" THEN Ops[i].cached ELSE Ops[i].deferred
      BY DEF Framed
    <2>2. i \in Nat
      BY <2>1, FragmentsEnd DEF Around
    <2>3. Around(i, t.pc)
      BY <1>1, <2>1, <2>2 DEF Around, Room
    <2> QED
      BY <2>1, <2>3
  <1>4. t.stage = "body" =>
       /\ t.turn \in DOMAIN t.slotted
       /\ Around(FragmentOf(t.slotted[t.turn]), t.pc)
       /\ \A j \in DOMAIN t.frames : t.frames[j].end <= Ops[FragmentOf(t.slotted[t.turn])].end
    <2> SUFFICES ASSUME t.stage = "body"
                 PROVE  /\ t.turn \in DOMAIN t.slotted
                        /\ Around(FragmentOf(t.slotted[t.turn]), t.pc)
                        /\ \A j \in DOMAIN t.frames : t.frames[j].end <= Ops[FragmentOf(t.slotted[t.turn])].end
      OBVIOUS
    <2>1. s.stage = "body" /\ t.slotted = s.slotted
      OBVIOUS
    <2>2. /\ s.turn \in DOMAIN s.slotted
          /\ Around(BodyOf(s), s.pc)
          /\ \A j \in DOMAIN s.frames : s.frames[j].end <= Ops[BodyOf(s)].end
      BY <2>1 DEF Framed, BodyOf
    <2>3. BodyOf(s) \in Nat
      BY <2>2, FragmentsEnd DEF Around
    <2>4. Around(BodyOf(s), t.pc)
      BY <1>1, <2>1, <2>2, <2>3 DEF Around, Room
    <2> QED
      BY <2>1, <2>2, <2>4 DEF BodyOf
  <1>5. Framed(t)
    <2>1. \A j, k \in DOMAIN t.frames : j < k => t.frames[k].end <= t.frames[j].end
      BY DEF Framed
    <2> QED
      BY <1>3, <1>4, <2>1 DEF Framed
  <1>6. t.stage = "render" => StandFor(Whole(t), 1, t.pc)
    <2> SUFFICES ASSUME t.stage = "render" PROVE StandFor(Whole(t), 1, t.pc)
      OBVIOUS
    <2>1. StandFor(Whole(s), 1, s.pc)
      BY DEF Covered
    <2> HIDE DEF Whole
    <2> QED
      BY <1>1, <1>2, <2>1, Joined
  <1>7. t.stage = "body" => /\ StandFor(Document(Whole(t)), 1, Len(Ops) + 1)
                            /\ \E i \in DOMAIN Whole(t) : Whole(t)[i].kind = "template"
    <2> SUFFICES ASSUME t.stage = "body"
                 PROVE  /\ StandFor(Document(Whole(t)), 1, Len(Ops) + 1)
                        /\ \E i \in DOMAIN Whole(t) : Whole(t)[i].kind = "template"
      OBVIOUS
    <2>1. StandFor(Document(Whole(s)), 1, Len(Ops) + 1) /\ Templates(Whole(s)) # {}
      BY DEF Covered, Templates
    <2>2. Document(Whole(t)) = Document(Whole(s)) /\ Templates(Whole(t)) # {}
      BY <1>1, <1>2, <2>1, DocumentStays
    <2> QED
      BY <2>1, <2>2 DEF Templates
  <1>8. ASSUME NEW j \in DOMAIN t.frames, t.frames[j].kind = "cached"
        PROVE  /\ t.frames[j].start <= Len(t.out)
               /\ StandFor(SubSeq(t.out, t.frames[j].start + 1, Len(t.out)), FragmentOf(t.frames[j].name) + 1, t.pc)
    <2> DEFINE n == s.frames[j].start
               i == FragmentOf(s.frames[j].name)
    <2>1. n \in Nat /\ n <= Len(s.out) /\ StandFor(SubSeq(s.out, n + 1, Len(s.out)), i + 1, s.pc)
      BY <1>8, RangesOfAResponse DEF Covered
    <2>2. i + 1 \in Nat /\ i + 1 <= s.pc
      BY <1>1, FragmentsEnd DEF Framed, Around
    <2>3. Len(t.out) = Len(s.out) + Len(q) /\ Len(s.out) \in Nat /\ Len(q) \in Nat
      BY <1>1
    <2>4. SubSeq(t.out, n + 1, Len(t.out)) = SubSeq(s.out, n + 1, Len(s.out)) \o q
      <3>1. SubSeq(s.out \o q, n + 1, Len(s.out \o q)) = SubSeq(s.out, n + 1, Len(s.out)) \o q
        BY <1>1, <2>1, RecordedGrows
      <3> QED
        BY <3>1
    <2>5. StandFor(SubSeq(s.out, n + 1, Len(s.out)) \o q, i + 1, t.pc)
      BY <1>1, <2>1, <2>2, Joined
    <2>6. n <= Len(t.out)
      BY <2>1, <2>3
    <2>7. t.frames[j].start = n /\ FragmentOf(t.frames[j].name) = i
      OBVIOUS
    <2> HIDE DEF n, i
    <2> QED
      BY <2>4, <2>5, <2>6, <2>7
  <1>9. Covered(t)
    BY <1>6, <1>7, <1>8 DEF Covered
  <1> QED
    BY <1>5, <1>9
-----------------------------------------------------------------------------
(* What an update of one field does to a response.                         *)
LEMMA StageSet ==
  ASSUME NEW s \in Response, NEW x \in {"render", "settle", "body", "tail", "done", "broken"}
  PROVE  LET t == [s EXCEPT !.stage = x]
         IN  /\ t \in Response
             /\ t.path = s.path /\ t.stage = x /\ t.pc = s.pc /\ t.frames = s.frames /\ t.loader = s.loader
             /\ t.slotted = s.slotted /\ t.turn = s.turn /\ t.out = s.out /\ t.sent = s.sent /\ t.gone = s.gone
  BY DEF Response

LEMMA PcSet ==
  ASSUME NEW s \in Response, NEW x \in 1..(Len(Ops) + 1)
  PROVE  LET t == [s EXCEPT !.pc = x]
         IN  /\ t \in Response
             /\ t.path = s.path /\ t.stage = s.stage /\ t.pc = x /\ t.frames = s.frames /\ t.loader = s.loader
             /\ t.slotted = s.slotted /\ t.turn = s.turn /\ t.out = s.out /\ t.sent = s.sent /\ t.gone = s.gone
  BY DEF Response

LEMMA FramesSet ==
  ASSUME NEW s \in Response, NEW x \in Seq(Frame)
  PROVE  LET t == [s EXCEPT !.frames = x]
         IN  /\ t \in Response
             /\ t.path = s.path /\ t.stage = s.stage /\ t.pc = s.pc /\ t.frames = x /\ t.loader = s.loader
             /\ t.slotted = s.slotted /\ t.turn = s.turn /\ t.out = s.out /\ t.sent = s.sent /\ t.gone = s.gone
  BY DEF Response

LEMMA LoaderSet ==
  ASSUME NEW s \in Response, NEW x \in [Deferral -> {"running", "ok", "failed"}]
  PROVE  LET t == [s EXCEPT !.loader = x]
         IN  /\ t \in Response
             /\ t.path = s.path /\ t.stage = s.stage /\ t.pc = s.pc /\ t.frames = s.frames /\ t.loader = x
             /\ t.slotted = s.slotted /\ t.turn = s.turn /\ t.out = s.out /\ t.sent = s.sent /\ t.gone = s.gone
  BY DEF Response

LEMMA SlottedSet ==
  ASSUME NEW s \in Response, NEW x \in Seq(Names \cap Deferral)
  PROVE  LET t == [s EXCEPT !.slotted = x]
         IN  /\ t \in Response
             /\ t.path = s.path /\ t.stage = s.stage /\ t.pc = s.pc /\ t.frames = s.frames /\ t.loader = s.loader
             /\ t.slotted = x /\ t.turn = s.turn /\ t.out = s.out /\ t.sent = s.sent /\ t.gone = s.gone
  BY DEF Response

LEMMA TurnSet ==
  ASSUME NEW s \in Response, NEW x \in Nat \ {0}
  PROVE  LET t == [s EXCEPT !.turn = x]
         IN  /\ t \in Response
             /\ t.path = s.path /\ t.stage = s.stage /\ t.pc = s.pc /\ t.frames = s.frames /\ t.loader = s.loader
             /\ t.slotted = s.slotted /\ t.turn = x /\ t.out = s.out /\ t.sent = s.sent /\ t.gone = s.gone
  BY DEF Response

LEMMA OutSet ==
  ASSUME NEW s \in Response, NEW x \in Seq(PieceRecord)
  PROVE  LET t == [s EXCEPT !.out = x]
         IN  /\ t \in Response
             /\ t.path = s.path /\ t.stage = s.stage /\ t.pc = s.pc /\ t.frames = s.frames /\ t.loader = s.loader
             /\ t.slotted = s.slotted /\ t.turn = s.turn /\ t.out = x /\ t.sent = s.sent /\ t.gone = s.gone
  BY DEF Response

LEMMA SentSet ==
  ASSUME NEW s \in Response, NEW x \in Seq(PieceRecord)
  PROVE  LET t == [s EXCEPT !.sent = x]
         IN  /\ t \in Response
             /\ t.path = s.path /\ t.stage = s.stage /\ t.pc = s.pc /\ t.frames = s.frames /\ t.loader = s.loader
             /\ t.slotted = s.slotted /\ t.turn = s.turn /\ t.out = s.out /\ t.sent = x /\ t.gone = s.gone
  BY DEF Response

LEMMA GoneSet ==
  ASSUME NEW s \in Response, NEW x \in BOOLEAN
  PROVE  LET t == [s EXCEPT !.gone = x]
         IN  /\ t \in Response
             /\ t.path = s.path /\ t.stage = s.stage /\ t.pc = s.pc /\ t.frames = s.frames /\ t.loader = s.loader
             /\ t.slotted = s.slotted /\ t.turn = s.turn /\ t.out = s.out /\ t.sent = s.sent /\ t.gone = x
  BY DEF Response

-----------------------------------------------------------------------------
LEMMA GrownHas ==
  ASSUME NEW p \in Seq(PieceRecord), NEW q \in Seq(PieceRecord), NEW kind, NEW n, Has(p, kind, n)
  PROVE  Has(p \o q, kind, n)
  <1>1. PICK k \in DOMAIN p : p[k].kind = kind /\ p[k].of = n
    BY DEF Has
  <1>2. k \in DOMAIN (p \o q) /\ (p \o q)[k] = p[k]
    BY JoinedPieces
  <1> QED
    BY <1>1, <1>2 DEF Has

(* What a loader's slot was given stays, as the response grows.            *)
LEMMA ServedStays ==
  ASSUME NEW s \in Response, NEW t, NEW q \in Seq(PieceRecord), Whole(t) = Whole(s) \o q,
         NEW n, s.loader[n] = "failed" => t.loader[n] = "failed", Served(s, n)
  PROVE  Served(t, n)
  <1>1. Whole(s) \in Seq(PieceRecord)
    BY RangesOfAResponse
  <1>2. CASE Has(Whole(s), "template", n)
    <2>1. Has(Whole(s) \o q, "template", n)
      BY <1>1, <1>2, GrownHas
    <2> QED
      BY <2>1 DEF Served
  <1> QED
    BY <1>2 DEF Served

LEMMA WholeGrows ==
  ASSUME NEW s \in Response, NEW t, NEW q \in Seq(PieceRecord), t.out = s.out \o q, t.sent = s.sent
  PROVE  Whole(t) = Whole(s) \o q
  <1>1. s.out \in Seq(PieceRecord) /\ s.sent \in Seq(PieceRecord)
    BY RangesOfAResponse
  <1>2. (s.sent \o s.out) \o q = s.sent \o (s.out \o q)
    BY <1>1, JoinedTwice
  <1> QED
    BY <1>2 DEF Whole

LEMMA AdvanceKeeps ==
  ASSUME NEW s \in Response, NEW t \in Response, ResponseInv(s),
         s.stage \in {"render", "settle", "body"},
         t.stage = IF s.stage = "body" THEN "body" ELSE "render",
         NEW q, StandFor(q, s.pc, t.pc), Room(s, t.pc),
         t.out = s.out \o q, t.sent = s.sent, t.frames = s.frames, t.turn = s.turn,
         t.path = s.path, t.gone = s.gone, t.loader = s.loader,
         s.stage = "body" \/ s.path = "buffered" => t.slotted = s.slotted,
         \A k \in DOMAIN t.slotted : Deferred(t.slotted[k])
  PROVE  ResponseInv(t)
  <1>1. Framed(t) /\ Covered(t)
    BY Advance DEF ResponseInv
  <1>2. Sending(t)
    BY DEF ResponseInv, Sending
  <1>3. Whole(t) = Whole(s) \o q /\ q \in Seq(PieceRecord)
    <2>1. s.sent \in Seq(PieceRecord) /\ s.out \in Seq(PieceRecord) /\ q \in Seq(PieceRecord)
      BY RangesOfAResponse DEF StandFor
    <2> QED
      BY <2>1, WholeGrows
  <1>4. Turned(t)
    <2>1. CASE s.stage = "body"
      <3>1. t.stage = "body" /\ t.slotted = s.slotted
        BY <2>1
      <3>2. \A n : Served(s, n) => Served(t, n)
        BY <1>3, ServedStays
      <3>3. Turned(s)
        BY DEF ResponseInv
      <3> QED
        BY <2>1, <3>1, <3>2, <3>3 DEF Turned
    <2>2. CASE s.stage # "body"
      BY <2>2 DEF ResponseInv, Turned
    <2> QED
      BY <2>1, <2>2
  <1> QED
    BY <1>1, <1>2, <1>4 DEF ResponseInv

(* A fragment is opened whose first operation comes next.                  *)
LEMMA OpenKeeps ==
  ASSUME NEW s \in Response, NEW t \in Response, ResponseInv(s), s.stage \in {"render", "body"},
         NEW i \in Fragments, s.pc = i + 1,
         \A j \in DOMAIN s.frames : Ops[i].end <= s.frames[j].end,
         s.stage = "body" => Ops[i].end <= Ops[BodyOf(s)].end,
         NEW f \in Frame, f.name = Ops[i].name, f.end = Ops[i].end,
         IF f.kind = "cached" THEN Ops[i].cached /\ f.start = Len(s.out) ELSE Ops[i].deferred,
         t.frames = Append(s.frames, f),
         t.path = s.path, t.stage = s.stage, t.pc = s.pc, t.loader = s.loader, t.slotted = s.slotted,
         t.turn = s.turn, t.out = s.out, t.sent = s.sent, t.gone = s.gone
  PROVE  ResponseInv(t)
  <1> DEFINE n == Len(s.frames) + 1
  <1>1. /\ DOMAIN t.frames = DOMAIN s.frames \cup {n}
        /\ t.frames[n] = f /\ n \in Nat
        /\ \A j \in DOMAIN s.frames : t.frames[j] = s.frames[j] /\ j < n /\ j \in Nat
    <2>1. s.frames \in Seq(Frame)
      BY RangesOfAResponse
    <2> QED
      BY <2>1
  <1>2. FragmentOf(f.name) = i /\ Around(i, t.pc) /\ i \in Nat
    <2>1. i \in Nat /\ i + 1 <= Ops[i].end
      BY FragmentsEnd
    <2> QED
      BY <2>1, FragmentIsFound DEF Around
  <1> HIDE DEF n
  <1>3. Framed(t)
    <2>1. Framed(s)
      BY DEF ResponseInv
    <2>2. \A j \in DOMAIN t.frames :
            LET h == FragmentOf(t.frames[j].name)
            IN  /\ Around(h, t.pc)
                /\ Ops[h].name = t.frames[j].name /\ Ops[h].end = t.frames[j].end
                /\ IF t.frames[j].kind = "cached" THEN Ops[h].cached ELSE Ops[h].deferred
      <3>1. \A j \in DOMAIN s.frames :
            LET h == FragmentOf(s.frames[j].name)
            IN  /\ Around(h, t.pc)
                /\ Ops[h].name = s.frames[j].name /\ Ops[h].end = s.frames[j].end
                /\ IF s.frames[j].kind = "cached" THEN Ops[h].cached ELSE Ops[h].deferred
        BY <2>1 DEF Framed
      <3> QED
        BY <1>1, <1>2, <3>1
    <2>3. \A j, k \in DOMAIN t.frames : j < k => t.frames[k].end <= t.frames[j].end
      <3>1. \A j, k \in DOMAIN s.frames : j < k => s.frames[k].end <= s.frames[j].end
        BY <2>1 DEF Framed
      <3> QED
        BY <1>1, <3>1
    <2>4. t.stage = "body" =>
            /\ t.turn \in DOMAIN t.slotted
            /\ Around(FragmentOf(t.slotted[t.turn]), t.pc)
            /\ \A j \in DOMAIN t.frames : t.frames[j].end <= Ops[FragmentOf(t.slotted[t.turn])].end
      BY <1>1, <2>1 DEF Framed, BodyOf
    <2>5. \A k \in DOMAIN t.slotted : Deferred(t.slotted[k])
      BY <2>1 DEF Framed
    <2> QED
      BY <2>2, <2>3, <2>4, <2>5 DEF Framed
  <1>4. Covered(t)
    <2>1. Covered(s) /\ Whole(t) = Whole(s)
      BY DEF ResponseInv, Whole
    <2>2. ASSUME f.kind = "cached"
          PROVE  /\ f.start <= Len(t.out)
                 /\ StandFor(SubSeq(t.out, f.start + 1, Len(t.out)), FragmentOf(f.name) + 1, t.pc)
      <3>1. f.start = Len(s.out) /\ Len(s.out) \in Nat
        BY <2>2, RangesOfAResponse
      <3>2. SubSeq(t.out, f.start + 1, Len(t.out)) = <<>>
        BY <3>1, SubSeqEmpty
      <3>3. StandFor(<<>>, i + 1, i + 1)
        <4>1. i + 1 \in Nat /\ \A x \in Texts : ~ (i + 1 <= x /\ x < i + 1)
          BY <1>2, OpsAreInOrder DEF Texts
        <4> QED
          BY <4>1, NothingStands
      <3>4. f.start <= Len(t.out) /\ t.pc = i + 1
        BY <3>1
      <3> HIDE DEF n
      <3> QED
        BY <1>2, <3>2, <3>3, <3>4
    <2>3. \A j \in DOMAIN t.frames : t.frames[j].kind = "cached" =>
            /\ t.frames[j].start <= Len(t.out)
            /\ StandFor(SubSeq(t.out, t.frames[j].start + 1, Len(t.out)), FragmentOf(t.frames[j].name) + 1, t.pc)
      <3>1. \A j \in DOMAIN s.frames : s.frames[j].kind = "cached" =>
              /\ s.frames[j].start <= Len(t.out)
              /\ StandFor(SubSeq(t.out, s.frames[j].start + 1, Len(t.out)), FragmentOf(s.frames[j].name) + 1, t.pc)
        BY <2>1 DEF Covered
      <3> QED
        BY <1>1, <2>2, <3>1
    <2> QED
      BY <2>1, <2>3 DEF Covered
  <1>5. Sending(t)
    BY DEF ResponseInv, Sending
  <1>6. Turned(t)
    <2>1. \A n1 : Served(t, n1) <=> Served(s, n1)
      BY DEF Served, Whole
    <2> QED
      BY <2>1 DEF ResponseInv, Turned
  <1> QED
    BY <1>3, <1>4, <1>5, <1>6 DEF ResponseInv

(* Nothing is written: what there is may be sent, frames may end, loaders  *)
(* may, and the render may stop at a deferred fragment.                    *)
LEMMA StayKeeps ==
  ASSUME NEW s \in Response, NEW t \in Response, ResponseInv(s),
         \/ t.stage = s.stage
         \/ /\ s.stage = "render" /\ t.stage = "settle" /\ s.pc \in Fragments /\ Ops[s.pc].deferred
            /\ \A j \in DOMAIN s.frames : s.pc < s.frames[j].end,
         \A j \in DOMAIN t.frames : j \in DOMAIN s.frames /\ t.frames[j] = s.frames[j],
         Whole(t) = Whole(s), t.out = s.out \/ ~Recording(t),
         t.path = s.path, t.pc = s.pc, t.slotted = s.slotted, t.turn = s.turn,
         \A n \in Deferral : s.loader[n] = "failed" => t.loader[n] = "failed",
         t.path = "buffered" => t.sent = s.sent,
         t.stage = "done" /\ ~t.gone => t.out = <<>>,
         t.stage = "settle" /\ t.path = "stream" /\ ~t.gone /\ ~Recording(t) => t.out = <<>>
  PROVE  ResponseInv(t)
  <1>1. Framed(t)
    <2>1. Framed(s)
      BY DEF ResponseInv
    <2>2. t.stage \in {"tail", "done", "broken"} => t.frames = <<>>
      <3> SUFFICES ASSUME t.stage \in {"tail", "done", "broken"} PROVE t.frames = <<>>
        OBVIOUS
      <3>1. s.frames = <<>>
        BY <2>1 DEF Framed
      <3>2. DOMAIN s.frames = {}
        BY <3>1
      <3>3. t.frames \in Seq(Frame) /\ DOMAIN t.frames = 1..Len(t.frames) /\ Len(t.frames) \in Nat
        BY RangesOfAResponse
      <3>4. 1 \notin DOMAIN t.frames
        BY <3>2
      <3>5. Len(t.frames) = 0
        BY <3>3, <3>4
      <3> QED
        BY <3>3, <3>5, EmptySeq
    <2>3. t.stage = "settle" => /\ t.pc \in Fragments /\ Ops[t.pc].deferred
                                /\ \A j \in DOMAIN t.frames : t.pc < t.frames[j].end
      BY <2>1 DEF Framed
    <2>4. \A j \in DOMAIN t.frames :
            LET h == FragmentOf(t.frames[j].name)
            IN  /\ Around(h, t.pc)
                /\ Ops[h].name = t.frames[j].name /\ Ops[h].end = t.frames[j].end
                /\ IF t.frames[j].kind = "cached" THEN Ops[h].cached ELSE Ops[h].deferred
      BY <2>1 DEF Framed
    <2>5. \A j, k \in DOMAIN t.frames : j < k => t.frames[k].end <= t.frames[j].end
      BY <2>1 DEF Framed
    <2>6. t.stage = "body" =>
            /\ t.turn \in DOMAIN t.slotted
            /\ Around(FragmentOf(t.slotted[t.turn]), t.pc)
            /\ \A j \in DOMAIN t.frames : t.frames[j].end <= Ops[FragmentOf(t.slotted[t.turn])].end
      BY <2>1 DEF Framed
    <2>7. \A k \in DOMAIN t.slotted : Deferred(t.slotted[k])
      BY <2>1 DEF Framed
    <2> QED
      BY <2>2, <2>3, <2>4, <2>5, <2>6, <2>7 DEF Framed
  <1>2. Covered(t)
    <2>1. Covered(s)
      BY DEF ResponseInv
    <2>2. \A j \in DOMAIN t.frames : t.frames[j].kind = "cached" =>
            /\ t.frames[j].start <= Len(t.out)
            /\ StandFor(SubSeq(t.out, t.frames[j].start + 1, Len(t.out)), FragmentOf(t.frames[j].name) + 1, t.pc)
      <3>1. CASE ~Recording(t)
        BY <3>1 DEF Recording
      <3>2. CASE t.out = s.out
        BY <2>1, <3>2 DEF Covered
      <3> QED
        BY <3>1, <3>2
    <2> QED
      BY <2>1, <2>2 DEF Covered
  <1>3. Sending(t)
    BY DEF ResponseInv, Sending
  <1>4. Turned(t)
    <2>1. \A k \in DOMAIN s.slotted : Served(s, s.slotted[k]) => Served(t, s.slotted[k])
      <3>1. \A k \in DOMAIN s.slotted : s.slotted[k] \in Deferral
        BY RangesOfAResponse
      <3> QED
        BY <3>1 DEF Served
    <2>2. Turned(s) /\ Framed(s)
      BY DEF ResponseInv
    <2> QED
      BY <2>1, <2>2 DEF Turned, Framed
  <1> QED
    BY <1>1, <1>2, <1>3, <1>4 DEF ResponseInv
-----------------------------------------------------------------------------
LEMMA SlotsGrow ==
  ASSUME NEW s \in Response, NEW t, NEW q \in Seq(PieceRecord), Whole(t) = Whole(s) \o q, SlotsAreOwn(s),
         \A n \in SlotsIn(q) : \E k \in DOMAIN t.slotted : t.slotted[k] = n,
         \A j \in DOMAIN s.slotted : \E k \in DOMAIN t.slotted : t.slotted[k] = s.slotted[j]
  PROVE  SlotsAreOwn(t)
  <1>1. SlotsIn(Whole(t)) = SlotsIn(Whole(s)) \cup SlotsIn(q)
    BY JoinedSlots, RangesOfAResponse
  <1> QED
    BY <1>1 DEF SlotsAreOwn

LEMMA DataGrow ==
  ASSUME NEW p \in Seq(PieceRecord), NEW q \in Seq(PieceRecord), NEW r, DataBy(p, r), DataBy(q, r)
  PROVE  DataBy(p \o q, r)
  <1> SUFFICES ASSUME NEW k \in DOMAIN (p \o q), (p \o q)[k].kind = "data" PROVE (p \o q)[k].by = r
    BY DEF DataBy
  <1>1. \/ k \in DOMAIN p /\ (p \o q)[k] = p[k]
        \/ k - Len(p) \in DOMAIN q /\ (p \o q)[k] = q[k - Len(p)]
    BY JoinedPieces
  <1> QED
    BY <1>1 DEF DataBy

LEMMA GoOnInPlace ==
  ASSUME NEW s \in Response, NEW t, InPlace(s), s.stage \in {"render", "settle"}, t.frames = s.frames,
         s.pc \in DOMAIN Ops,
         \/ t.pc = s.pc + 1 /\ ~(s.pc \in Fragments /\ Ops[s.pc].deferred)
         \/ t.pc = Ops[s.pc].end /\ s.pc \in Fragments
  PROVE  InPlace(t)
  <1> SUFFICES ASSUME NEW i \in Fragments, Ops[i].deferred, i < t.pc, t.pc < Ops[i].end
               PROVE  \E j \in DOMAIN s.frames : s.frames[j].kind = "inline" /\ s.frames[j].name = Ops[i].name
    BY DEF InPlace
  <1>1. i \in Nat /\ s.pc \in Nat /\ Ops[i].end \in Nat
    BY FragmentsEnd, OpsAreInOrder
  <1>2. i < s.pc /\ s.pc < Ops[i].end
    <2>1. CASE t.pc = s.pc + 1 /\ ~(s.pc \in Fragments /\ Ops[s.pc].deferred)
      BY <1>1, <2>1
    <2>2. CASE t.pc = Ops[s.pc].end /\ s.pc \in Fragments
      <3>1. Ops[s.pc].end \in Nat /\ s.pc < Ops[s.pc].end
        BY <2>2, FragmentsEnd
      <3>2. i # s.pc
        BY <1>1, <2>2
      <3>3. ~ (s.pc < i)
        BY <1>1, <2>2, <3>1, FragmentsNest
      <3> QED
        BY <1>1, <2>2, <3>1, <3>2, <3>3
    <2> QED
      BY <2>1, <2>2
  <1> QED
    BY <1>2 DEF InPlace

(* An operation is rendered.                                               *)
LEMMA GoOnKeeps ==
  ASSUME NEW s \in Response, NEW t \in Response, NEW r, RequestInv(s, r),
         s.stage \in {"render", "body"}, t.stage = s.stage, s.pc \in DOMAIN Ops,
         NEW q, StandFor(q, s.pc, t.pc), Room(s, t.pc),
         t.out = s.out \o q, t.sent = s.sent, t.frames = s.frames, t.turn = s.turn,
         t.path = s.path, t.gone = s.gone, t.loader = s.loader, t.slotted = s.slotted,
         \/ t.pc = s.pc + 1 /\ (s.stage = "render" => ~(s.pc \in Fragments /\ Ops[s.pc].deferred))
         \/ t.pc = Ops[s.pc].end /\ s.pc \in Fragments,
         NoneIsKeptDeferred => SlotsIn(q) = {},
         DataHaveTheirPlace => DataBy(q, r)
  PROVE  RequestInv(t, r)
  <1>1. ResponseInv(t)
    <2>1. \A k \in DOMAIN t.slotted : Deferred(t.slotted[k])
      BY DEF RequestInv, ResponseInv, Framed
    <2> QED
      BY <2>1, AdvanceKeeps DEF RequestInv
  <1>2. q \in Seq(PieceRecord) /\ Whole(t) = Whole(s) \o q /\ Whole(s) \in Seq(PieceRecord)
    BY WholeGrows, RangesOfAResponse DEF StandFor
  <1>3. NoneIsKeptDeferred => SlotsAreOwn(t)
    BY <1>2, SlotsGrow DEF RequestInv
  <1>4. DataHaveTheirPlace => DataBy(Whole(t), r)
    BY <1>2, DataGrow DEF RequestInv
  <1>5. DataHaveTheirPlace => InPlace(t)
    <2>1. CASE s.stage = "body"
      BY <2>1 DEF InPlace
    <2>2. CASE s.stage = "render"
      BY <2>2, GoOnInPlace DEF RequestInv
    <2> QED
      BY <2>1, <2>2
  <1> QED
    BY <1>1, <1>3, <1>4, <1>5 DEF RequestInv

(* t is s once it has written q and gone on to c.                          *)
Emitted(s, t, q, c) ==
  /\ t \in Response
  /\ t.path = s.path /\ t.stage = s.stage /\ t.pc = c /\ t.frames = s.frames /\ t.loader = s.loader
  /\ t.slotted = s.slotted /\ t.turn = s.turn /\ t.out = s.out \o q /\ t.sent = s.sent /\ t.gone = s.gone

LEMMA EmitAndGo ==
  ASSUME NEW s \in Response, NEW q \in Seq(PieceRecord), NEW c \in 1..(Len(Ops) + 1)
  PROVE  Emitted(s, [Emit(s, q) EXCEPT !.pc = c], q, c)
  <1> DEFINE x == s.out \o q
             u == [s EXCEPT !.out = x]
             t == [u EXCEPT !.pc = c]
  <1>1. x \in Seq(PieceRecord)
    BY RangesOfAResponse
  <1>2. Emit(s, q) = u
    BY DEF Emit
  <1> HIDE DEF x
  <1>3. /\ u \in Response
        /\ u.path = s.path /\ u.stage = s.stage /\ u.pc = s.pc /\ u.frames = s.frames /\ u.loader = s.loader
        /\ u.slotted = s.slotted /\ u.turn = s.turn /\ u.out = x /\ u.sent = s.sent /\ u.gone = s.gone
    BY <1>1, OutSet
  <1> HIDE DEF u
  <1>4. /\ t \in Response
        /\ t.path = s.path /\ t.stage = s.stage /\ t.pc = c /\ t.frames = s.frames /\ t.loader = s.loader
        /\ t.slotted = s.slotted /\ t.turn = s.turn /\ t.out = x /\ t.sent = s.sent /\ t.gone = s.gone
    BY <1>3, PcSet
  <1>5. t = [Emit(s, q) EXCEPT !.pc = c]
    BY <1>2
  <1> HIDE DEF t
  <1>6. Emitted(s, t, q, c)
    BY <1>4 DEF x, Emitted
  <1> QED
    BY <1>5, <1>6

LEMMA RoomIsInRange == ASSUME NEW s \in Response, NEW c, Room(s, c) PROVE c \in 1..(Len(Ops) + 1)
  BY RangesOfAResponse, OpsAreInOrder DEF Room

LEMMA EmissionKeeps ==
  ASSUME NEW s \in Response, NEW r, RequestInv(s, r),
         s.stage \in {"render", "body"}, s.pc \in DOMAIN Ops,
         NEW q, NEW c, StandFor(q, s.pc, c), Room(s, c),
         \/ c = s.pc + 1 /\ (s.stage = "render" => ~(s.pc \in Fragments /\ Ops[s.pc].deferred))
         \/ c = Ops[s.pc].end /\ s.pc \in Fragments,
         NoneIsKeptDeferred => SlotsIn(q) = {},
         DataHaveTheirPlace => DataBy(q, r),
         NEW t, Emitted(s, t, q, c)
  PROVE  RequestInv(t, r)
  BY GoOnKeeps DEF Emitted
-----------------------------------------------------------------------------
(* A sequence of one piece that is no slot, and no other loader's data.    *)
LEMMA OnePiece ==
  ASSUME NEW piece, NEW r
  PROVE  /\ piece.kind # "slot" => SlotsIn(<<piece>>) = {}
         /\ (piece.kind = "data" => piece.by = r) => DataBy(<<piece>>, r)
         /\ piece.kind = "slot" => SlotsIn(<<piece>>) = {piece.of}
         /\ Has(<<piece>>, piece.kind, piece.of)
  <1> DEFINE p == <<piece>>
  <1>1. DOMAIN p = {1} /\ p[1] = piece
    OBVIOUS
  <1> HIDE DEF p
  <1>2. /\ piece.kind # "slot" => SlotsIn(p) = {}
        /\ (piece.kind = "data" => piece.by = r) => DataBy(p, r)
        /\ piece.kind = "slot" => SlotsIn(p) = {piece.of}
        /\ Has(p, piece.kind, piece.of)
    BY <1>1 DEF SlotsIn, DataBy, Has
  <1> QED
    BY <1>2 DEF p

LEMMA TextKeeps ==
  ASSUME NEW s \in Response, NEW r, RequestInv(s, r), At(s, "text"),
         NEW q, q = <<Piece("text", Ops[s.pc].name, Nobody)>>
  PROVE  /\ q \in Seq(PieceRecord) /\ s.pc + 1 \in 1..(Len(Ops) + 1)
         /\ \A t : Emitted(s, t, q, s.pc + 1) => RequestInv(t, r)
  <1>1. Framed(s)
    BY DEF RequestInv, ResponseInv
  <1>2. /\ s.pc \in Texts /\ s.pc \notin Fragments /\ s.stage \in {"render", "body"}
        /\ Room(s, s.pc + 1) /\ s.pc \in DOMAIN Ops
    BY <1>1, RoomAt DEF Texts, Fragments
  <1>3. StandFor(q, s.pc, s.pc + 1)
    BY <1>2, TextStands
  <1>4. SlotsIn(q) = {} /\ DataBy(q, r)
    BY OnePiece DEF Piece
  <1>5. q \in Seq(PieceRecord) /\ s.pc + 1 \in 1..(Len(Ops) + 1)
    BY <1>2, <1>3, RoomIsInRange DEF StandFor
  <1> QED
    BY <1>2, <1>3, <1>4, <1>5, EmissionKeeps

(* Where data have their place they are in scope.                          *)
LEMMA DataInScope ==
  ASSUME NEW s \in Response, Framed(s), InPlace(s), DataHaveTheirPlace, At(s, "data")
  PROVE  Ops[s.pc].name \in InScope(s)
  <1> DEFINE n == Ops[s.pc].name
             i == FragmentOf(n)
  <1>1. /\ s.pc \in DOMAIN Ops /\ Ops[s.pc].op = "data" /\ s.stage \in {"render", "body"} /\ Room(s, s.pc + 1)
        /\ s.pc \in Nat
    BY RoomAt, RangesOfAResponse
  <1>2. i \in Fragments /\ Ops[i].name = n /\ Ops[i].deferred /\ i < s.pc /\ s.pc < Ops[i].end
    BY <1>1 DEF DataHaveTheirPlace
  <1> HIDE DEF i
  <1>3. CASE s.stage = "render"
    <2>1. PICK j \in DOMAIN s.frames : s.frames[j].kind = "inline" /\ s.frames[j].name = n
      BY <1>2, <1>3 DEF InPlace
    <2> QED
      BY <2>1 DEF InScope
  <1>4. CASE s.stage = "body"
    <2> DEFINE b == BodyOf(s)
    <2>1. b \in Fragments /\ b < s.pc /\ s.pc + 1 <= Ops[b].end /\ s.turn \in DOMAIN s.slotted
      BY <1>1, <1>4 DEF Framed, Around, BodyOf, Room
    <2>2. Ops[b].deferred /\ Ops[b].name = s.slotted[s.turn]
      BY <2>1 DEF Framed, Deferred, BodyOf
    <2>3. b \in Nat /\ i \in Nat /\ Ops[b].end \in Nat /\ Ops[i].end \in Nat
      BY <1>2, <2>1, FragmentsEnd
    <2> HIDE DEF b
    <2>4. ~ (i < b) /\ ~ (b < i)
      BY <1>1, <1>2, <2>1, <2>2, <2>3 DEF DataHaveTheirPlace
    <2>5. n = s.slotted[s.turn]
      BY <1>2, <2>2, <2>3, <2>4
    <2> QED
      BY <1>4, <2>5 DEF InScope
  <1> QED
    BY <1>1, <1>3, <1>4

LEMMA DataKeeps ==
  ASSUME NEW s \in Response, NEW r, RequestInv(s, r), At(s, "data"),
         NEW by \in Request \cup {Nobody}, Ops[s.pc].name \in InScope(s) => by = r,
         NEW q, q = <<Piece("data", Ops[s.pc].name, by)>>
  PROVE  /\ q \in Seq(PieceRecord) /\ s.pc + 1 \in 1..(Len(Ops) + 1)
         /\ \A t : Emitted(s, t, q, s.pc + 1) => RequestInv(t, r)
  <1>1. Framed(s) /\ (DataHaveTheirPlace => InPlace(s))
    BY DEF RequestInv, ResponseInv
  <1>2. /\ s.pc \in DOMAIN Ops /\ Ops[s.pc].op = "data" /\ s.pc \notin Fragments
        /\ s.stage \in {"render", "body"} /\ Room(s, s.pc + 1)
    BY <1>1, RoomAt DEF Fragments
  <1>3. DataHaveTheirPlace => by = r
    BY <1>1, DataInScope
  <1>4. StandFor(q, s.pc, s.pc + 1)
    BY <1>2, DataStand
  <1>5. SlotsIn(q) = {} /\ (DataHaveTheirPlace => DataBy(q, r))
    BY <1>3, OnePiece DEF Piece
  <1>6. q \in Seq(PieceRecord) /\ s.pc + 1 \in 1..(Len(Ops) + 1)
    BY <1>2, <1>4, RoomIsInRange DEF StandFor
  <1> QED
    BY <1>2, <1>4, <1>5, <1>6, EmissionKeeps

(* Nothing is written and no slot is added.                                *)
LEMMA SameKeeps ==
  ASSUME NEW s, NEW t, NEW r, RequestInv(s, r), ResponseInv(t),
         Whole(t) = Whole(s), t.slotted = s.slotted, InPlace(s) => InPlace(t)
  PROVE  RequestInv(t, r)
  <1>1. SlotsAreOwn(s) => SlotsAreOwn(t)
    BY DEF SlotsAreOwn
  <1> QED
    BY <1>1 DEF RequestInv

LEMMA NoFrames == ASSUME NEW f, f = <<>> PROVE DOMAIN f = {} /\ f \in Seq(Frame)
  OBVIOUS

LEMMA BrokenKeeps ==
  ASSUME NEW s \in Response, NEW r, RequestInv(s, r)
  PROVE  Broken(s) \in Response /\ RequestInv(Broken(s), r)
  <1> DEFINE none == <<>>
             u == [s EXCEPT !.stage = "broken"]
             t == [u EXCEPT !.frames = none]
  <1>1. none \in Seq(Frame) /\ DOMAIN none = {}
    BY NoFrames
  <1>2. t = Broken(s)
    BY DEF Broken
  <1> HIDE DEF none
  <1>3. /\ u \in Response
        /\ u.path = s.path /\ u.stage = "broken" /\ u.pc = s.pc /\ u.frames = s.frames /\ u.loader = s.loader
        /\ u.slotted = s.slotted /\ u.turn = s.turn /\ u.out = s.out /\ u.sent = s.sent /\ u.gone = s.gone
    BY StageSet
  <1> HIDE DEF u
  <1>4. /\ t \in Response /\ t.stage = "broken" /\ t.frames = none /\ t.path = s.path
        /\ t.slotted = s.slotted /\ t.out = s.out /\ t.sent = s.sent
    BY <1>1, <1>3, FramesSet
  <1> HIDE DEF t
  <1>5. Framed(t)
    BY <1>1, <1>4 DEF RequestInv, ResponseInv, Framed, none
  <1>6. Covered(t) /\ Sending(t) /\ Turned(t) /\ InPlace(t)
    BY <1>1, <1>4 DEF RequestInv, ResponseInv, Covered, Sending, Turned, InPlace
  <1>7. Whole(t) = Whole(s)
    BY <1>4 DEF Whole
  <1>8. t \in Response /\ RequestInv(t, r)
    BY <1>4, <1>5, <1>6, <1>7, SameKeeps DEF ResponseInv
  <1> QED
    BY <1>2, <1>8
-----------------------------------------------------------------------------
(* The render is at a fragment it does not wait for.                       *)
LEMMA AtFragment ==
  ASSUME NEW s \in Response, NEW r, RequestInv(s, r), At(s, "fragment")
  PROVE  /\ s.pc \in DOMAIN Ops /\ s.pc \in Fragments /\ s.stage \in {"render", "body"}
         /\ Room(s, s.pc + 1) /\ Room(s, Ops[s.pc].end)
         /\ s.pc + 1 \in 1..(Len(Ops) + 1) /\ Ops[s.pc].end \in 1..(Len(Ops) + 1)
         /\ \A j \in DOMAIN s.frames : s.pc < s.frames[j].end
  <1>1. Framed(s)
    BY DEF RequestInv, ResponseInv
  <1>2. s.pc \in DOMAIN Ops /\ Ops[s.pc].op = "fragment"
    BY <1>1, RoomAt
  <1>3. s.pc \in Fragments
    BY <1>2 DEF Fragments
  <1> QED
    BY <1>1, <1>2, <1>3, RoomAt, RoomIsInRange

LEMMA EnterKeeps ==
  ASSUME NEW s \in Response, NEW r, RequestInv(s, r), At(s, "fragment"), ~Hooked(s),
         NEW t, Emitted(s, t, <<>>, s.pc + 1)
  PROVE  RequestInv(t, r)
  <1> DEFINE q == <<>>
  <1>1. /\ s.pc \in DOMAIN Ops /\ s.pc \in Fragments
        /\ s.stage \in {"render", "body"} /\ Room(s, s.pc + 1)
    BY AtFragment
  <1>2. s.stage = "render" => ~Ops[s.pc].deferred
    BY DEF Hooked
  <1>3. StandFor(q, s.pc, s.pc + 1)
    BY <1>1, OpenStands
  <1>4. SlotsIn(q) = {} /\ DataBy(q, r)
    <2>1. DOMAIN q = {}
      OBVIOUS
    <2> QED
      BY <2>1 DEF SlotsIn, DataBy
  <1>5. Emitted(s, t, q, s.pc + 1)
    OBVIOUS
  <1> HIDE DEF q
  <1> QED
    BY <1>1, <1>2, <1>3, <1>4, <1>5, EmissionKeeps

LEMMA MoveOn ==
  ASSUME NEW s \in Response, NEW c \in 1..(Len(Ops) + 1)
  PROVE  Emitted(s, [s EXCEPT !.pc = c], <<>>, c)
  <1> DEFINE t == [s EXCEPT !.pc = c]
  <1>1. /\ t \in Response
        /\ t.path = s.path /\ t.stage = s.stage /\ t.pc = c /\ t.frames = s.frames /\ t.loader = s.loader
        /\ t.slotted = s.slotted /\ t.turn = s.turn /\ t.out = s.out /\ t.sent = s.sent /\ t.gone = s.gone
    BY PcSet
  <1>2. s.out \o <<>> = s.out
    BY RangesOfAResponse, ConcatEmptySeq
  <1> HIDE DEF t
  <1>3. Emitted(s, t, <<>>, c)
    BY <1>1, <1>2 DEF Emitted
  <1> QED
    BY <1>3 DEF t

(* What a cached fragment holds has no slots where none is kept deferred,  *)
(* and no data where they have their place.                                *)
LEMMA KeptPlain ==
  ASSUME NEW i \in Fragments, Ops[i].cached, NEW p, StandFor(p, i + 1, Ops[i].end), NEW r
  PROVE  /\ NoneIsKeptDeferred => SlotsIn(p) = {}
         /\ DataHaveTheirPlace => DataBy(p, r)
  <1>1. i \in Nat /\ Ops[i].end \in Nat /\ i + 1 \in Nat
    BY FragmentsEnd
  <1>2. ASSUME NoneIsKeptDeferred, NEW n \in SlotsIn(p) PROVE FALSE
    <2> DEFINE h == FragmentOf(n)
    <2>1. h \in Fragments /\ Ops[h].deferred /\ i + 1 <= h /\ Ops[h].end <= Ops[i].end /\ h \in Nat /\ Ops[h].end \in Nat
      BY <1>1, <1>2, SlotsStandInRange
    <2>2. h < Ops[h].end
      BY <2>1, FragmentsEnd
    <2> HIDE DEF h
    <2>3. i < h /\ h < Ops[i].end
      BY <1>1, <2>1, <2>2
    <2> QED
      BY <1>2, <2>1, <2>3 DEF NoneIsKeptDeferred
  <1>3. ASSUME DataHaveTheirPlace, NEW k \in DOMAIN p, p[k].kind = "data" PROVE FALSE
    <2>1. StandsIn(p[k], i + 1, Ops[i].end)
      BY DEF StandFor
    <2>2. PICK j \in (i + 1)..(Ops[i].end - 1) : j \in DOMAIN Ops /\ Ops[j].op = "data"
      BY <1>3, <2>1 DEF StandsIn
    <2>3. i < j /\ j < Ops[i].end
      BY <1>1
    <2> QED
      BY <1>3, <2>2, <2>3 DEF DataHaveTheirPlace
  <1>4. NoneIsKeptDeferred => SlotsIn(p) = {}
    BY <1>2
  <1> QED
    BY <1>3, <1>4 DEF DataBy

LEMMA LoadHitKeeps ==
  ASSUME NEW s \in Response, NEW r, RequestInv(s, r), At(s, "fragment"), Ops[s.pc].cached,
         NEW value, StandFor(value, s.pc + 1, Ops[s.pc].end),
         NEW t, Emitted(s, t, value, Ops[s.pc].end)
  PROVE  RequestInv(t, r)
  <1>1. /\ s.pc \in DOMAIN Ops /\ s.pc \in Fragments
        /\ s.stage \in {"render", "body"} /\ Room(s, Ops[s.pc].end)
    BY AtFragment
  <1>2. StandFor(value, s.pc, Ops[s.pc].end)
    BY <1>1, KeptStands
  <1>3. /\ NoneIsKeptDeferred => SlotsIn(value) = {}
        /\ DataHaveTheirPlace => DataBy(value, r)
    BY <1>1, KeptPlain
  <1> QED
    BY <1>1, <1>2, <1>3, EmissionKeeps

(* t is s once it has opened a fragment.                                   *)
Opened(s, t, f) ==
  /\ t \in Response /\ t.frames = Append(s.frames, f)
  /\ t.path = s.path /\ t.stage = s.stage /\ t.pc = s.pc /\ t.loader = s.loader
  /\ t.slotted = s.slotted /\ t.turn = s.turn /\ t.out = s.out /\ t.sent = s.sent /\ t.gone = s.gone

LEMMA Open ==
  ASSUME NEW s \in Response, NEW f \in Frame
  PROVE  Opened(s, [s EXCEPT !.frames = Append(s.frames, f)], f)
  <1> DEFINE new == Append(s.frames, f)
             t == [s EXCEPT !.frames = new]
  <1>1. new \in Seq(Frame)
    BY RangesOfAResponse
  <1> HIDE DEF new
  <1>2. /\ t \in Response
        /\ t.path = s.path /\ t.stage = s.stage /\ t.pc = s.pc /\ t.frames = new /\ t.loader = s.loader
        /\ t.slotted = s.slotted /\ t.turn = s.turn /\ t.out = s.out /\ t.sent = s.sent /\ t.gone = s.gone
    BY <1>1, FramesSet
  <1> HIDE DEF t
  <1>3. Opened(s, t, f)
    BY <1>2 DEF new, Opened
  <1> QED
    BY <1>3 DEF t, new

LEMMA Opening ==
  ASSUME NEW s \in Response, NEW f \in Frame, NEW t, Opened(s, t, f)
  PROVE  /\ \A j \in DOMAIN s.frames : j \in DOMAIN t.frames /\ t.frames[j] = s.frames[j]
         /\ Len(s.frames) + 1 \in DOMAIN t.frames /\ t.frames[Len(s.frames) + 1] = f
  <1>1. s.frames \in Seq(Frame)
    BY RangesOfAResponse
  <1> QED
    BY <1>1 DEF Opened

LEMMA LoadMissKeeps ==
  ASSUME NEW s \in Response, NEW r, RequestInv(s, r), At(s, "fragment"), ~Hooked(s), Ops[s.pc].cached,
         NEW f, f = [kind |-> "cached", name |-> Ops[s.pc].name, end |-> Ops[s.pc].end, start |-> Len(s.out)],
         NEW u, Emitted(s, u, <<>>, s.pc + 1),
         NEW t, Opened(u, t, f)
  PROVE  f \in Frame /\ RequestInv(t, r)
  <1>1. s.pc \in Fragments /\ s.stage \in {"render", "body"} /\ Room(s, Ops[s.pc].end)
    BY AtFragment
  <1>2. RequestInv(u, r)
    BY EnterKeeps
  <1>3. /\ u \in Response /\ u.stage \in {"render", "body"} /\ u.pc = s.pc + 1
        /\ u.stage = s.stage /\ u.frames = s.frames /\ u.out = s.out /\ u.slotted = s.slotted /\ u.turn = s.turn
    <2>1. s.out \o <<>> = s.out
      BY RangesOfAResponse, ConcatEmptySeq
    <2> QED
      BY <1>1, <2>1 DEF Emitted
  <1>4. /\ f \in Frame /\ f.name = Ops[s.pc].name /\ f.end = Ops[s.pc].end
        /\ f.kind = "cached" /\ f.start = Len(u.out)
    <2>1. Ops[s.pc].end \in Nat /\ Ops[s.pc].name \in Names
      BY <1>1, FragmentsEnd DEF Names, Fragments
    <2>2. Len(s.out) \in Nat
      BY RangesOfAResponse
    <2> QED
      BY <1>3, <2>1, <2>2 DEF Frame
  <1>5. /\ \A j \in DOMAIN u.frames : Ops[s.pc].end <= u.frames[j].end
        /\ u.stage = "body" => Ops[s.pc].end <= Ops[BodyOf(u)].end
    BY <1>1, <1>3 DEF Room, BodyOf
  <1>6. ResponseInv(t)
    <2>1. ResponseInv(u)
      BY <1>2 DEF RequestInv
    <2> QED
      BY <1>1, <1>3, <1>4, <1>5, <2>1, OpenKeeps DEF Opened
  <1>7. Whole(t) = Whole(u) /\ t.slotted = u.slotted
    BY DEF Whole, Opened
  <1>8. InPlace(u) => InPlace(t)
    <2>1. \A j \in DOMAIN u.frames : j \in DOMAIN t.frames /\ t.frames[j] = u.frames[j]
      BY <1>3, <1>4, Opening
    <2>2. t.stage = u.stage /\ t.pc = u.pc
      BY DEF Opened
    <2> QED
      BY <2>1, <2>2 DEF InPlace
  <1> QED
    BY <1>2, <1>4, <1>6, <1>7, <1>8, SameKeeps
-----------------------------------------------------------------------------
(* t is s once it has closed its innermost fragment.                       *)
Closed(s, t) ==
  /\ t \in Response
  /\ \A j \in DOMAIN t.frames : j \in DOMAIN s.frames /\ t.frames[j] = s.frames[j]
  /\ \A j \in DOMAIN s.frames : j # Len(s.frames) => j \in DOMAIN t.frames
  /\ t.path = s.path /\ t.stage = s.stage /\ t.pc = s.pc /\ t.loader = s.loader
  /\ t.slotted = s.slotted /\ t.turn = s.turn /\ t.out = s.out /\ t.sent = s.sent /\ t.gone = s.gone

LEMMA FrontOfFrames ==
  ASSUME NEW f \in Seq(Frame), f # <<>>
  PROVE  /\ Seqs!Front(f) \in Seq(Frame)
         /\ \A j \in DOMAIN Seqs!Front(f) : j \in DOMAIN f /\ Seqs!Front(f)[j] = f[j]
         /\ \A j \in DOMAIN f : j # Len(f) => j \in DOMAIN Seqs!Front(f)
  <1> DEFINE g == SubSeq(f, 1, Len(f) - 1)
  <1>1. Len(f) \in Nat /\ DOMAIN f = 1..Len(f) /\ \A i \in 1..(Len(f) - 1) : f[i] \in Frame
    BY LenProperties
  <1>2. Len(f) # 0
    BY EmptySeq
  <1>3. /\ g \in Seq(Frame)
        /\ Len(g) = IF 1 <= Len(f) - 1 THEN Len(f) - 1 - 1 + 1 ELSE 0
        /\ \A i \in 1..(Len(f) - 1 - 1 + 1) : g[i] = f[1 + i - 1]
    BY <1>1, SubSeqProperties
  <1> HIDE DEF g
  <1>4. DOMAIN g = 1..(Len(f) - 1)
    <2>1. DOMAIN g = 1..Len(g)
      BY <1>3, LenProperties
    <2>2. Len(g) = Len(f) - 1
      <3> DEFINE n == Len(f)
      <3>1. n \in Nat /\ n # 0 /\ Len(g) = IF 1 <= n - 1 THEN n - 1 - 1 + 1 ELSE 0
        BY <1>1, <1>2, <1>3
      <3> HIDE DEF n
      <3>2. Len(g) = n - 1
        BY <3>1
      <3> QED
        BY <3>2 DEF n
    <2> QED
      BY <2>1, <2>2
  <1>5. \A j \in DOMAIN g : j \in DOMAIN f /\ g[j] = f[j]
    <2> TAKE j \in DOMAIN g
    <2> DEFINE n == Len(f)
    <2>1. n \in Nat /\ j \in 1..(n - 1) /\ DOMAIN f = 1..n /\ \A i \in 1..(n - 1 - 1 + 1) : g[i] = f[1 + i - 1]
      BY <1>1, <1>3, <1>4
    <2> HIDE DEF n
    <2>2. j \in 1..(n - 1 - 1 + 1) /\ 1 + j - 1 = j /\ j \in 1..n
      BY <2>1
    <2> QED
      BY <2>1, <2>2
  <1>6. \A j \in DOMAIN f : j # Len(f) => j \in DOMAIN g
    BY <1>1, <1>4
  <1>7. g = Seqs!Front(f)
    BY DEF g, Seqs!Front
  <1> QED
    BY <1>3, <1>5, <1>6, <1>7

LEMMA Close ==
  ASSUME NEW s \in Response, s.frames # <<>>
  PROVE  Closed(s, [s EXCEPT !.frames = Seqs!Front(s.frames)])
  <1> DEFINE new == Seqs!Front(s.frames)
             t == [s EXCEPT !.frames = new]
  <1>1. /\ new \in Seq(Frame)
        /\ \A j \in DOMAIN new : j \in DOMAIN s.frames /\ new[j] = s.frames[j]
        /\ \A j \in DOMAIN s.frames : j # Len(s.frames) => j \in DOMAIN new
    BY RangesOfAResponse, FrontOfFrames
  <1> HIDE DEF new
  <1>2. /\ t \in Response
        /\ t.path = s.path /\ t.stage = s.stage /\ t.pc = s.pc /\ t.frames = new /\ t.loader = s.loader
        /\ t.slotted = s.slotted /\ t.turn = s.turn /\ t.out = s.out /\ t.sent = s.sent /\ t.gone = s.gone
    BY <1>1, FramesSet
  <1> HIDE DEF t
  <1>3. Closed(s, t)
    BY <1>1, <1>2 DEF Closed
  <1> QED
    BY <1>3 DEF t, new

(* At the end of the innermost fragment, no other that is deferred has     *)
(* its frame there.                                                        *)
LEMMA CloseInPlace ==
  ASSUME NEW s \in Response, Framed(s), Due(s), InPlace(s), NEW t, Closed(s, t)
  PROVE  InPlace(t)
  <1> DEFINE n == Len(s.frames)
  <1>1. n \in DOMAIN s.frames /\ s.pc >= s.frames[n].end
    BY Innermost DEF Due
  <1>2. t.stage = s.stage /\ t.pc = s.pc
    BY DEF Closed
  <1> SUFFICES ASSUME s.stage \in {"render", "settle"},
                      NEW i \in Fragments, Ops[i].deferred, i < s.pc, s.pc < Ops[i].end
               PROVE  \E j \in DOMAIN t.frames : t.frames[j].kind = "inline" /\ t.frames[j].name = Ops[i].name
    BY <1>2 DEF InPlace
  <1>3. PICK j \in DOMAIN s.frames : s.frames[j].kind = "inline" /\ s.frames[j].name = Ops[i].name
    BY DEF InPlace
  <1>4. s.frames[j].end = Ops[i].end
    <2>1. FragmentOf(s.frames[j].name) = i
      BY <1>3, FragmentIsFound
    <2> QED
      BY <2>1 DEF Framed
  <1>5. j # n
    <2>1. s.pc \in Nat /\ s.frames[j].end \in Nat
      BY RangesOfAResponse
    <2> QED
      BY <1>1, <1>4, <2>1
  <1>6. j \in DOMAIN t.frames /\ t.frames[j] = s.frames[j]
    BY <1>5 DEF Closed
  <1> QED
    BY <1>3, <1>6

LEMMA CloseKeeps ==
  ASSUME NEW s \in Response, NEW r, RequestInv(s, r), Due(s), NEW t, Closed(s, t)
  PROVE  RequestInv(t, r)
  <1>1. ResponseInv(s) /\ Framed(s) /\ Sending(s)
    BY DEF RequestInv, ResponseInv
  <1>2. Whole(t) = Whole(s) /\ t.slotted = s.slotted
    BY DEF Closed, Whole
  <1>3. s.stage # "settle"
    <2> SUFFICES ASSUME s.stage = "settle" PROVE FALSE
      OBVIOUS
    <2>1. Len(s.frames) \in DOMAIN s.frames /\ s.pc >= s.frames[Len(s.frames)].end
      BY <1>1, Innermost DEF Due
    <2>2. s.pc < s.frames[Len(s.frames)].end
      BY <1>1, <2>1 DEF Framed
    <2>3. s.pc \in Nat /\ s.frames[Len(s.frames)].end \in Nat
      BY <2>1, RangesOfAResponse
    <2> QED
      BY <2>1, <2>2, <2>3
  <1>4. ResponseInv(t)
    <2>1. t.stage = "done" /\ ~t.gone => t.out = <<>>
      BY <1>1 DEF Closed, Sending
    <2> QED
      BY <1>1, <1>2, <1>3, <2>1, StayKeeps DEF Closed
  <1>5. InPlace(s) => InPlace(t)
    BY <1>1, CloseInPlace
  <1> QED
    BY <1>2, <1>4, <1>5, SameKeeps

(* What was recorded for a fragment at its end is the fragment.            *)
LEMMA RecordedIsWhole ==
  ASSUME NEW s \in Response, NEW r, RequestInv(s, r), Due(s), NEW f, f = Seqs!Last(s.frames), f.kind = "cached"
  PROVE  LET i == FragmentOf(f.name)
         IN  /\ i \in Fragments /\ Ops[i].name = f.name /\ Ops[i].cached
             /\ StandFor(SubSeq(s.out, f.start + 1, Len(s.out)), i + 1, Ops[i].end)
  <1> DEFINE n == Len(s.frames)
             i == FragmentOf(f.name)
  <1>1. Framed(s) /\ Covered(s)
    BY DEF RequestInv, ResponseInv
  <1>2. n \in DOMAIN s.frames /\ f = s.frames[n] /\ s.pc >= f.end
    BY <1>1, Innermost DEF Due
  <1>3. /\ i \in Fragments /\ i < s.pc /\ s.pc <= Ops[i].end
        /\ Ops[i].name = f.name /\ Ops[i].end = f.end /\ Ops[i].cached
    BY <1>1, <1>2 DEF Framed, Around
  <1>4. StandFor(SubSeq(s.out, f.start + 1, Len(s.out)), i + 1, s.pc)
    BY <1>1, <1>2 DEF Covered
  <1>5. s.pc = Ops[i].end
    <2>1. s.pc \in Nat /\ f.end \in Nat
      BY <1>2, RangesOfAResponse
    <2> QED
      BY <1>2, <1>3, <2>1
  <1> QED
    BY <1>3, <1>4, <1>5

(* t is s once what it has written may have been sent.                     *)
Flushed(s, t) ==
  /\ t \in Response /\ Whole(t) = Whole(s)
  /\ t.path = s.path /\ t.stage = s.stage /\ t.pc = s.pc /\ t.frames = s.frames /\ t.loader = s.loader
  /\ t.slotted = s.slotted /\ t.turn = s.turn /\ t.gone = s.gone
  /\ t.path = "buffered" => t.sent = s.sent /\ t.out = s.out
  /\ t.path = "stream" /\ ~t.gone => t.out = <<>>

LEMMA FlushSends ==
  ASSUME NEW s \in Response
  PROVE  Flushed(s, Flush(s))
  <1>1. ASSUME ~(s.path = "stream" /\ ~s.gone) PROVE Flushed(s, Flush(s))
    <2>1. Flush(s) = s
      BY <1>1 DEF Flush
    <2> QED
      BY <1>1, <2>1 DEF Flushed
  <1>2. ASSUME s.path = "stream" /\ ~s.gone PROVE Flushed(s, Flush(s))
    <2> DEFINE all == s.sent \o s.out
               none == <<>>
               u == [s EXCEPT !.sent = all]
               t == [u EXCEPT !.out = none]
    <2>1. all \in Seq(PieceRecord) /\ none \in Seq(PieceRecord) /\ all \o none = all
      <3>1. s.sent \in Seq(PieceRecord) /\ s.out \in Seq(PieceRecord)
        BY RangesOfAResponse
      <3>2. all \in Seq(PieceRecord)
        BY <3>1, ConcatProperties
      <3> HIDE DEF all
      <3> QED
        BY <3>2, ConcatEmptySeq
    <2>2. Flush(s) = t
      BY <1>2 DEF Flush
    <2>3. all = Whole(s) /\ none = <<>>
      BY DEF Whole
    <2> HIDE DEF all, none
    <2>4. /\ u \in Response
          /\ u.path = s.path /\ u.stage = s.stage /\ u.pc = s.pc /\ u.frames = s.frames /\ u.loader = s.loader
          /\ u.slotted = s.slotted /\ u.turn = s.turn /\ u.out = s.out /\ u.sent = all /\ u.gone = s.gone
      BY <2>1, SentSet
    <2> HIDE DEF u
    <2>5. /\ t \in Response
          /\ t.path = s.path /\ t.stage = s.stage /\ t.pc = s.pc /\ t.frames = s.frames /\ t.loader = s.loader
          /\ t.slotted = s.slotted /\ t.turn = s.turn /\ t.out = none /\ t.sent = all /\ t.gone = s.gone
      BY <2>1, <2>4, OutSet
    <2> HIDE DEF t
    <2>6. Whole(t) = Whole(s)
      BY <2>1, <2>3, <2>5 DEF Whole
    <2> QED
      BY <1>2, <2>2, <2>3, <2>5, <2>6 DEF Flushed
  <1> QED
    BY <1>1, <1>2

LEMMA FlushKeeps ==
  ASSUME NEW s \in Response, NEW r, RequestInv(s, r), ~Recording(s), NEW t, Flushed(s, t)
  PROVE  RequestInv(t, r)
  <1>1. ResponseInv(s) /\ Framed(s) /\ Sending(s)
    BY DEF RequestInv, ResponseInv
  <1>2. ~Recording(t)
    BY DEF Flushed, Recording
  <1>3. t.stage = "done" /\ ~t.gone => t.out = <<>>
    <2>1. t.path \in {"stream", "buffered"}
      BY DEF Flushed, Response
    <2> QED
      BY <1>1, <2>1 DEF Flushed, Sending
  <1>4. ResponseInv(t)
    BY <1>1, <1>2, <1>3, StayKeeps DEF Flushed
  <1>5. Whole(t) = Whole(s) /\ t.slotted = s.slotted /\ (InPlace(s) => InPlace(t))
    BY DEF Flushed, InPlace
  <1> QED
    BY <1>4, <1>5, SameKeeps
-----------------------------------------------------------------------------
(* A deferred fragment is reached.                                         *)
LEMMA SettleKeeps ==
  ASSUME NEW s \in Response, NEW r, RequestInv(s, r), At(s, "fragment"), Hooked(s),
         NEW u \in Response, u = s \/ (Flushed(s, u) /\ ~Recording(s)), Recording(s) \/ Flushed(s, u),
         NEW t \in Response, t.stage = "settle",
         t.path = u.path, t.pc = u.pc, t.frames = u.frames, t.loader = u.loader,
         t.slotted = u.slotted, t.turn = u.turn, t.out = u.out, t.sent = u.sent, t.gone = u.gone
  PROVE  RequestInv(t, r)
  <1>1. RequestInv(u, r)
    BY FlushKeeps
  <1>2. /\ u.stage = "render" /\ u.pc = s.pc /\ u.frames = s.frames /\ s.pc \in Fragments /\ Ops[s.pc].deferred
        /\ \A j \in DOMAIN s.frames : s.pc < s.frames[j].end
    BY AtFragment DEF Hooked, Flushed
  <1>3. Recording(t) <=> Recording(s)
    BY <1>2 DEF Recording
  <1>4. t.path = "stream" /\ ~t.gone /\ ~Recording(t) => t.out = <<>>
    BY <1>3 DEF Flushed
  <1>5. Whole(t) = Whole(u)
    BY DEF Whole
  <1>6. ResponseInv(t)
    <2>1. ResponseInv(u)
      BY <1>1 DEF RequestInv
    <2> QED
      BY <1>2, <1>4, <1>5, <2>1, StayKeeps
  <1>7. InPlace(u) => InPlace(t)
    BY <1>2 DEF InPlace
  <1> QED
    BY <1>1, <1>5, <1>6, <1>7, SameKeeps

(* Its loader is there: it is opened as part of the page.                  *)
LEMMA InlineKeeps ==
  ASSUME NEW s \in Response, NEW r, RequestInv(s, r), s.stage = "settle",
         NEW f \in Frame, f.kind = "inline", f.name = Ops[s.pc].name, f.end = Ops[s.pc].end,
         NEW u \in Response, u.stage = "render", u.pc = s.pc + 1,
         u.path = s.path, u.frames = s.frames, u.loader = s.loader,
         u.slotted = s.slotted, u.turn = s.turn, u.out = s.out, u.sent = s.sent, u.gone = s.gone,
         NEW t, Opened(u, t, f)
  PROVE  RequestInv(t, r)
  <1> DEFINE i == s.pc
  <1>1. ResponseInv(s) /\ Framed(s)
    BY DEF RequestInv, ResponseInv
  <1>2. /\ i \in Fragments /\ Ops[i].deferred /\ i \in DOMAIN Ops
        /\ \A j \in DOMAIN s.frames : i < s.frames[j].end
        /\ \A k \in DOMAIN s.slotted : Deferred(s.slotted[k])
    BY <1>1 DEF Framed, Fragments
  <1>3. Room(s, i + 1) /\ Room(s, Ops[i].end)
    BY <1>1, <1>2, RoomForOne
  <1>4. ResponseInv(u)
    <2> DEFINE q == <<>>
    <2>1. StandFor(q, i, i + 1)
      BY <1>2, OpenStands
    <2>2. s.out \o q = s.out
      BY RangesOfAResponse, ConcatEmptySeq
    <2> HIDE DEF q
    <2> QED
      BY <1>1, <1>2, <1>3, <2>1, <2>2, AdvanceKeeps
  <1>5. \A j \in DOMAIN u.frames : Ops[i].end <= u.frames[j].end
    BY <1>3 DEF Room
  <1>6. ResponseInv(t)
    BY <1>2, <1>4, <1>5, OpenKeeps DEF Opened
  <1>7. Whole(t) = Whole(s) /\ t.slotted = s.slotted
    BY DEF Opened, Whole
  <1>8. InPlace(s) => InPlace(t)
    <2>1. /\ \A j \in DOMAIN u.frames : j \in DOMAIN t.frames /\ t.frames[j] = u.frames[j]
          /\ Len(u.frames) + 1 \in DOMAIN t.frames /\ t.frames[Len(u.frames) + 1] = f
      BY Opening
    <2>2. t.pc = i + 1 /\ i \in Nat
      BY RangesOfAResponse DEF Opened
    <2> SUFFICES ASSUME InPlace(s), NEW h \in Fragments, Ops[h].deferred, h < t.pc, t.pc < Ops[h].end
                 PROVE  \E j \in DOMAIN t.frames : t.frames[j].kind = "inline" /\ t.frames[j].name = Ops[h].name
      BY DEF InPlace
    <2>3. CASE h = i
      BY <2>1, <2>3
    <2>4. CASE h # i
      <3>1. h \in Nat /\ Ops[h].end \in Nat
        BY FragmentsEnd
      <3>2. h < i /\ i < Ops[h].end
        BY <2>2, <2>4, <3>1
      <3>3. PICK j \in DOMAIN s.frames : s.frames[j].kind = "inline" /\ s.frames[j].name = Ops[h].name
        BY <3>2 DEF InPlace
      <3> QED
        BY <2>1, <3>3
    <2> QED
      BY <2>3, <2>4
  <1> QED
    BY <1>6, <1>7, <1>8, SameKeeps

(* The slots that were left, with one more.                                *)
Noted(slots, new, n) ==
  /\ \A k \in DOMAIN new : new[k] = n \/ \E j \in DOMAIN slots : new[k] = slots[j]
  /\ \A j \in DOMAIN slots : \E k \in DOMAIN new : new[k] = slots[j]
  /\ \E k \in DOMAIN new : new[k] = n

(* A loader is late: its fragment's place is held, and the render goes on  *)
(* behind it.                                                              *)
LEMMA SlotKeeps ==
  ASSUME NEW s \in Response, NEW r, RequestInv(s, r), s.stage = "settle", s.path = "stream",
         NEW q, StandFor(q, s.pc, Ops[s.pc].end), SlotsIn(q) = {Ops[s.pc].name}, DataBy(q, r),
         NEW t \in Response, t.stage = "render", t.pc = Ops[s.pc].end, t.out = s.out \o q,
         Noted(s.slotted, t.slotted, Ops[s.pc].name),
         t.path = s.path, t.frames = s.frames, t.loader = s.loader,
         t.turn = s.turn, t.sent = s.sent, t.gone = s.gone
  PROVE  RequestInv(t, r)
  <1> DEFINE i == s.pc
  <1>1. ResponseInv(s) /\ Framed(s)
    BY DEF RequestInv, ResponseInv
  <1>2. /\ i \in Fragments /\ Ops[i].deferred /\ i \in DOMAIN Ops
        /\ \A j \in DOMAIN s.frames : i < s.frames[j].end
        /\ \A k \in DOMAIN s.slotted : Deferred(s.slotted[k])
    BY <1>1 DEF Framed, Fragments
  <1>3. Room(s, Ops[i].end)
    BY <1>1, <1>2, RoomForOne
  <1>4. Deferred(Ops[i].name)
    BY <1>2, FragmentIsFound DEF Deferred
  <1>5. \A k \in DOMAIN t.slotted : Deferred(t.slotted[k])
    BY <1>2, <1>4 DEF Noted
  <1> HIDE DEF i
  <1>6. ResponseInv(t)
    BY <1>1, <1>3, <1>5, AdvanceKeeps DEF i
  <1>7. q \in Seq(PieceRecord) /\ Whole(t) = Whole(s) \o q /\ Whole(s) \in Seq(PieceRecord)
    <2>1. q \in Seq(PieceRecord)
      BY DEF StandFor
    <2> QED
      BY <2>1, WholeGrows, RangesOfAResponse
  <1>8. NoneIsKeptDeferred => SlotsAreOwn(t)
    <2>1. \A n \in SlotsIn(q) : \E k \in DOMAIN t.slotted : t.slotted[k] = n
      BY DEF i, Noted
    <2>2. NoneIsKeptDeferred => SlotsAreOwn(s)
      BY DEF RequestInv
    <2> QED
      BY <1>7, <2>1, <2>2, SlotsGrow DEF Noted
  <1>9. DataHaveTheirPlace => DataBy(Whole(t), r)
    BY <1>7, DataGrow DEF RequestInv
  <1>10. InPlace(s) => InPlace(t)
    BY <1>2, GoOnInPlace DEF i
  <1> QED
    BY <1>6, <1>8, <1>9, <1>10 DEF RequestInv
-----------------------------------------------------------------------------
(* The tail goes on: with what follows a template, and to the next slot    *)
(* once that of the turn has had what it can have.                         *)
LEMMA TailKeeps ==
  ASSUME NEW s \in Response, NEW r, RequestInv(s, r), s.stage \in {"tail", "body"},
         NEW q \in Seq(PieceRecord), SlotsIn(q) = {}, DataBy(q, r), s.stage = "tail" => q = <<>>,
         NEW t \in Response, t.stage \in {"tail", "done"}, Whole(t) = Whole(s) \o q,
         t.path = s.path, t.frames = <<>>, t.loader = s.loader, t.slotted = s.slotted,
         \/ t.turn = s.turn
         \/ t.turn = s.turn + 1 /\ s.turn \in DOMAIN s.slotted /\ Served(s, s.slotted[s.turn]),
         t.stage = "done" => Len(s.slotted) < t.turn,
         t.stage = "done" /\ ~t.gone => t.out = <<>>
  PROVE  RequestInv(t, r)
  <1>1. Framed(s) /\ Covered(s) /\ Sending(s) /\ Turned(s)
    BY DEF RequestInv, ResponseInv
  <1>2. DOMAIN t.frames = {} /\ Whole(s) \in Seq(PieceRecord)
    BY NoFrames, RangesOfAResponse
  <1>3. Framed(t)
    BY <1>1, <1>2 DEF Framed
  <1>4. Covered(t)
    <2>1. Document(Whole(t)) = Document(Whole(s))
      <3>1. CASE s.stage = "body"
        <4>1. Templates(Whole(s)) # {}
          BY <1>1, <3>1 DEF Covered, Templates
        <4> QED
          BY <1>2, <4>1, DocumentStays
      <3>2. CASE s.stage = "tail"
        <4>1. Whole(t) = Whole(s)
          BY <1>2, <3>2, ConcatEmptySeq
        <4> QED
          BY <4>1
      <3> QED
        BY <3>1, <3>2
    <2>2. StandFor(Document(Whole(s)), 1, Len(Ops) + 1)
      BY <1>1 DEF Covered
    <2> QED
      BY <1>2, <2>1, <2>2 DEF Covered
  <1>5. Sending(t)
    BY <1>1 DEF Sending
  <1>6. Turned(t)
    <2>1. \A n : Served(s, n) => Served(t, n)
      BY ServedStays
    <2>2. \A k \in DOMAIN s.slotted : k < s.turn => Served(s, s.slotted[k])
      BY <1>1 DEF Turned
    <2>3. \A k \in DOMAIN s.slotted : k \in Nat /\ s.turn \in Nat
      <3>1. s.turn \in Nat /\ DOMAIN s.slotted = 1..Len(s.slotted) /\ Len(s.slotted) \in Nat
        BY RangesOfAResponse
      <3> QED
        BY <3>1
    <2>4. \A k \in DOMAIN t.slotted : k < t.turn => Served(t, t.slotted[k])
      <3> SUFFICES ASSUME NEW k \in DOMAIN s.slotted, k < t.turn PROVE Served(s, s.slotted[k])
        BY <2>1
      <3>1. k < s.turn \/ (k = s.turn /\ Served(s, s.slotted[s.turn]))
        BY <2>3
      <3> QED
        BY <2>2, <3>1
    <2> QED
      BY <2>4 DEF Turned
  <1>7. NoneIsKeptDeferred => SlotsAreOwn(t)
    <2>1. NoneIsKeptDeferred => SlotsAreOwn(s)
      BY DEF RequestInv
    <2>2. \A j \in DOMAIN s.slotted : \E k \in DOMAIN t.slotted : t.slotted[k] = s.slotted[j]
      OBVIOUS
    <2> QED
      BY <2>1, <2>2, SlotsGrow
  <1>8. DataHaveTheirPlace => DataBy(Whole(t), r)
    BY <1>2, DataGrow DEF RequestInv
  <1>9. InPlace(t)
    BY DEF InPlace
  <1> QED
    BY <1>3, <1>4, <1>5, <1>6, <1>7, <1>8, <1>9 DEF RequestInv, ResponseInv

(* A template: its slot has what it waits for.                             *)
LEMMA TemplateKeeps ==
  ASSUME NEW s \in Response, NEW r, RequestInv(s, r), s.stage = "tail", s.turn \in DOMAIN s.slotted,
         NEW piece \in PieceRecord, piece.kind = "template", piece.of = s.slotted[s.turn],
         NEW t \in Response, t.stage = "body", t.pc = FragmentOf(s.slotted[s.turn]) + 1,
         t.out = s.out \o <<piece>>, t.sent = s.sent,
         t.path = s.path, t.frames = s.frames, t.loader = s.loader,
         t.slotted = s.slotted, t.turn = s.turn, t.gone = s.gone
  PROVE  RequestInv(t, r)
  <1> DEFINE n == s.slotted[s.turn]
             q == <<piece>>
  <1>1. Framed(s) /\ Covered(s) /\ Sending(s) /\ Turned(s)
    BY DEF RequestInv, ResponseInv
  <1>2. q \in Seq(PieceRecord) /\ Whole(s) \in Seq(PieceRecord)
    BY RangesOfAResponse
  <1>3. SlotsIn(q) = {} /\ DataBy(q, r) /\ Has(q, "template", n)
    BY OnePiece
  <1>4. Whole(t) = Whole(s) \o <<piece>>
    BY <1>2, WholeGrows
  <1>5. s.frames = <<>>
    BY <1>1 DEF Framed
  <1>6. DOMAIN t.frames = {}
    BY <1>5, NoFrames
  <1>7. Framed(t)
    <2>1. FragmentOf(n) \in Fragments
      BY <1>1 DEF Framed, Deferred
    <2>2. Around(FragmentOf(n), t.pc)
      BY <2>1, FragmentsEnd DEF Around
    <2> QED
      BY <1>1, <1>6, <2>2 DEF Framed
  <1>8. Covered(t)
    <2>1. StandFor(Document(Whole(s)), 1, Len(Ops) + 1)
      BY <1>1 DEF Covered
    <2>2. Document(Whole(t)) = Document(Whole(s)) /\ Templates(Whole(t)) # {}
      <3>1. CASE Templates(Whole(s)) = {}
        BY <1>2, <1>4, <3>1, DocumentEnds, DocumentOfPlain
      <3>2. CASE Templates(Whole(s)) # {}
        BY <1>2, <1>4, <3>2, DocumentStays
      <3> QED
        BY <3>1, <3>2
    <2> QED
      BY <1>6, <2>1, <2>2 DEF Covered, Templates
  <1>9. Sending(t)
    BY <1>1 DEF Sending
  <1> HIDE DEF q, n
  <1>10. Whole(t) = Whole(s) \o q
    BY <1>4 DEF q
  <1>11. Turned(t)
    <2>1. \A m : Served(s, m) => Served(t, m)
      <3> SUFFICES ASSUME NEW m, Served(s, m) PROVE Served(t, m)
        OBVIOUS
      <3>1. s.loader[m] = "failed" => t.loader[m] = "failed"
        OBVIOUS
      <3> QED
        BY <1>2, <1>10, <3>1, ServedStays
    <2>2. Has(Whole(t), "template", n)
      <3>1. PICK k \in DOMAIN q : q[k].kind = "template" /\ q[k].of = n
        BY <1>3 DEF Has
      <3>2. k + Len(Whole(s)) \in DOMAIN (Whole(s) \o q) /\ (Whole(s) \o q)[k + Len(Whole(s))] = q[k]
        BY <1>2, JoinedPieces
      <3> QED
        BY <1>10, <3>1, <3>2 DEF Has
    <2> QED
      BY <1>1, <2>1, <2>2 DEF Turned, Served, n
  <1>12. NoneIsKeptDeferred => SlotsAreOwn(t)
    <2>1. NoneIsKeptDeferred => SlotsAreOwn(s)
      BY DEF RequestInv
    <2>2. \A j \in DOMAIN s.slotted : \E k \in DOMAIN t.slotted : t.slotted[k] = s.slotted[j]
      OBVIOUS
    <2> QED
      BY <1>2, <1>3, <1>10, <2>1, <2>2, SlotsGrow
  <1>13. DataHaveTheirPlace => DataBy(Whole(t), r)
    BY <1>2, <1>3, <1>10, DataGrow DEF RequestInv
  <1>14. InPlace(t)
    BY DEF InPlace
  <1> QED
    BY <1>7, <1>8, <1>9, <1>11, <1>12, <1>13, <1>14 DEF RequestInv, ResponseInv

(* The end of the page.                                                    *)
LEMMA RenderedKeeps ==
  ASSUME NEW s \in Response, NEW r, RequestInv(s, r), s.stage = "render", s.frames = <<>>, s.pc = Len(Ops) + 1,
         NEW t \in Response,
         \/ t.stage = "tail" /\ s.path = "stream" /\ t.sent = s.sent /\ t.out = s.out
         \/ t.stage = "done" /\ s.path = "buffered" /\ t.sent = s.out /\ t.out = <<>>,
         t.path = s.path, t.frames = s.frames, t.loader = s.loader,
         t.slotted = s.slotted, t.turn = s.turn, t.gone = s.gone
  PROVE  RequestInv(t, r)
  <1>1. Framed(s) /\ Covered(s) /\ Sending(s) /\ Turned(s)
    BY DEF RequestInv, ResponseInv
  <1>2. Whole(t) = Whole(s)
    <2>1. CASE s.path = "buffered"
      <3>1. s.out \in Seq(PieceRecord)
        BY RangesOfAResponse
      <3>2. s.sent = <<>>
        BY <1>1, <2>1 DEF Sending
      <3>3. s.out \o <<>> = s.out /\ <<>> \o s.out = s.out
        BY <3>1, ConcatEmptySeq
      <3> QED
        BY <2>1, <3>2, <3>3 DEF Whole
    <2>2. CASE s.path # "buffered"
      BY <2>2 DEF Whole
    <2> QED
      BY <2>1, <2>2
  <1>3. DOMAIN t.frames = {}
    BY NoFrames
  <1>4. Framed(t)
    BY <1>1, <1>3 DEF Framed
  <1>5. Covered(t)
    <2>1. StandFor(Whole(s), 1, Len(Ops) + 1)
      BY <1>1 DEF Covered
    <2>2. Document(Whole(s)) = Whole(s)
      BY <2>1, NoTemplateStands, DocumentOfPlain
    <2> QED
      BY <1>2, <1>3, <2>1, <2>2 DEF Covered
  <1>6. Sending(t)
    BY <1>1 DEF Sending
  <1>7. Turned(t)
    <2>1. t.turn = 1 /\ \A k \in DOMAIN t.slotted : k \in 1..Len(t.slotted) /\ Len(t.slotted) \in Nat
      BY <1>1, RangesOfAResponse DEF Turned
    <2>2. t.stage = "done" => Len(t.slotted) = 0
      BY <1>1 DEF Sending
    <2> QED
      BY <2>1, <2>2 DEF Turned
  <1>8. InPlace(s) => InPlace(t)
    BY DEF InPlace
  <1> QED
    BY <1>2, <1>4, <1>5, <1>6, <1>7, <1>8, SameKeeps DEF ResponseInv

(* A loader ends, or the client goes.                                      *)
LEMMA AsideKeeps ==
  ASSUME NEW s \in Response, NEW r, RequestInv(s, r),
         NEW t \in Response, \A n \in Deferral : s.loader[n] = "failed" => t.loader[n] = "failed",
         s.gone => t.gone,
         t.path = s.path, t.stage = s.stage, t.pc = s.pc, t.frames = s.frames,
         t.slotted = s.slotted, t.turn = s.turn, t.out = s.out, t.sent = s.sent
  PROVE  RequestInv(t, r)
  <1>1. ResponseInv(s) /\ Sending(s)
    BY DEF RequestInv, ResponseInv
  <1>2. Recording(t) <=> Recording(s)
    BY DEF Recording
  <1>3. Whole(t) = Whole(s) /\ (InPlace(s) => InPlace(t))
    BY DEF Whole, InPlace
  <1>4. ResponseInv(t)
    BY <1>1, <1>2, <1>3, StayKeeps DEF Sending
  <1> QED
    BY <1>3, <1>4, SameKeeps
-----------------------------------------------------------------------------
(* One response changes, and the cache does not.                           *)
LEMMA Becomes ==
  ASSUME StreamInv, NEW r \in Request, NEW t \in Response, RequestInv(t, r), Become(r, t)
  PROVE  StreamInv'
  <1>1. req' = [req EXCEPT ![r] = t] /\ UNCHANGED entries
    BY DEF Become, absVars
  <1>2. req' \in [Request -> Response] /\ \A o \in Request : req'[o] = IF o = r THEN t ELSE req[o]
    BY <1>1 DEF StreamInv
  <1>3. \A o \in Request : RequestInv(req'[o], o)
    BY <1>2 DEF StreamInv
  <1>4. Kept'
    BY <1>1 DEF StreamInv, Kept
  <1> QED
    BY <1>2, <1>3, <1>4 DEF StreamInv

LEMMA TheState ==
  ASSUME StreamInv, NEW r \in Request
  PROVE  /\ req[r] \in Response /\ RequestInv(req[r], r) /\ ResponseInv(req[r]) /\ Framed(req[r]) /\ Sending(req[r])
  BY DEF StreamInv, RequestInv, ResponseInv

LEMMA InitialState == Init => StreamInv
  <1> SUFFICES ASSUME Init PROVE StreamInv
    OBVIOUS
  <1>1. PICK path \in [Request -> {"stream", "buffered"}] : req = [r \in Request |-> Started(path[r])]
    BY DEF Init
  <1>2. ASSUME NEW p \in {"stream", "buffered"}, NEW r PROVE Started(p) \in Response /\ RequestInv(Started(p), r)
    <2> DEFINE s == Started(p)
    <2>1. /\ s.path = p /\ s.stage = "render" /\ s.pc = 1 /\ s.frames = <<>> /\ s.slotted = <<>>
          /\ s.turn = 1 /\ s.out = <<>> /\ s.sent = <<>> /\ s.gone = FALSE
      BY DEF Started
    <2>2. s \in Response
      <3>1. 1 \in 1..(Len(Ops) + 1)
        BY OpsAreInOrder
      <3> QED
        BY <3>1 DEF Started, Response
    <2> HIDE DEF s
    <2>3. DOMAIN s.frames = {} /\ DOMAIN s.slotted = {}
      BY <2>1
    <2>4. Framed(s)
      BY <2>1, <2>3 DEF Framed
    <2>5. Whole(s) = <<>>
      BY <2>1 DEF Whole
    <2>6. Covered(s)
      <3>1. StandFor(<<>>, 1, 1)
        <4>1. \A x \in Texts : ~ (1 <= x /\ x < 1)
          BY OpsAreInOrder DEF Texts
        <4> QED
          BY <4>1, NothingStands
      <3> QED
        BY <2>1, <2>3, <2>5, <3>1 DEF Covered
    <2>7. Sending(s) /\ Turned(s)
      BY <2>1 DEF Sending, Turned
    <2>8. SlotsAreOwn(s) /\ DataBy(Whole(s), r)
      <3>1. DOMAIN Whole(s) = {}
        BY <2>5
      <3> QED
        BY <3>1 DEF SlotsAreOwn, SlotsIn, DataBy
    <2>9. InPlace(s)
      <3>1. \A i \in Fragments : ~ (i < 1)
        BY FragmentsEnd
      <3> QED
        BY <2>1, <3>1 DEF InPlace
    <2>10. RequestInv(s, r)
      BY <2>2, <2>4, <2>6, <2>7, <2>8, <2>9 DEF RequestInv, ResponseInv
    <2> QED
      BY <2>2, <2>10 DEF s
  <1>3. \A r \in Request : path[r] \in {"stream", "buffered"} /\ req[r] = Started(path[r])
    BY <1>1
  <1>4. req \in [Request -> Response]
    BY <1>1, <1>2, <1>3
  <1>5. Kept
    <2>1. DOMAIN entries = {}
      BY DEF Init, AbsInit
    <2> QED
      BY <2>1 DEF Kept
  <1> QED
    BY <1>2, <1>3, <1>4, <1>5 DEF StreamInv
-----------------------------------------------------------------------------
LEMMA TextStep ==
  ASSUME StreamInv, NEW r \in Request, Text(r) PROVE StreamInv'
  <1> DEFINE s == req[r]
             q == <<Piece("text", Ops[s.pc].name, Nobody)>>
             t == [Emit(s, q) EXCEPT !.pc = s.pc + 1]
  <1>1. s \in Response /\ RequestInv(s, r)
    BY TheState
  <1>2. At(s, "text") /\ Become(r, t)
    BY DEF Text, Emit
  <1>3. /\ q \in Seq(PieceRecord) /\ s.pc + 1 \in 1..(Len(Ops) + 1)
        /\ \A u : Emitted(s, u, q, s.pc + 1) => RequestInv(u, r)
    BY <1>1, <1>2, TextKeeps
  <1> HIDE DEF q, s
  <1>4. Emitted(s, t, q, s.pc + 1)
    BY <1>1, <1>3, EmitAndGo
  <1> HIDE DEF t
  <1>5. t \in Response /\ RequestInv(t, r)
    BY <1>3, <1>4 DEF Emitted
  <1> QED
    BY <1>2, <1>5, Becomes

LEMMA DataStep ==
  ASSUME StreamInv, NEW r \in Request, Data(r) PROVE StreamInv'
  <1> DEFINE s == req[r]
             by == IF Ops[s.pc].name \in InScope(s) THEN r ELSE Nobody
             q == <<Piece("data", Ops[s.pc].name, by)>>
             t == [Emit(s, q) EXCEPT !.pc = s.pc + 1]
  <1>1. s \in Response /\ RequestInv(s, r)
    BY TheState
  <1>2. At(s, "data") /\ Become(r, t)
    BY DEF Data, Emit
  <1>3. by \in Request \cup {Nobody} /\ (Ops[s.pc].name \in InScope(s) => by = r)
    OBVIOUS
  <1> HIDE DEF by
  <1>4. /\ q \in Seq(PieceRecord) /\ s.pc + 1 \in 1..(Len(Ops) + 1)
        /\ \A u : Emitted(s, u, q, s.pc + 1) => RequestInv(u, r)
    BY <1>1, <1>2, <1>3, DataKeeps
  <1> HIDE DEF q, s
  <1>5. Emitted(s, t, q, s.pc + 1)
    BY <1>1, <1>4, EmitAndGo
  <1> HIDE DEF t
  <1>6. t \in Response /\ RequestInv(t, r)
    BY <1>4, <1>5 DEF Emitted
  <1> QED
    BY <1>2, <1>6, Becomes

LEMMA EnterStep ==
  ASSUME StreamInv, NEW r \in Request, Enter(r) PROVE StreamInv'
  <1> DEFINE s == req[r]
             t == [s EXCEPT !.pc = s.pc + 1]
  <1>1. s \in Response /\ RequestInv(s, r)
    BY TheState
  <1>2. At(s, "fragment") /\ ~Hooked(s) /\ Become(r, t)
    BY DEF Enter
  <1> HIDE DEF s
  <1>3. s.pc + 1 \in 1..(Len(Ops) + 1)
    BY <1>1, <1>2, AtFragment
  <1>4. Emitted(s, t, <<>>, s.pc + 1)
    BY <1>1, <1>3, MoveOn
  <1> HIDE DEF t
  <1>5. t \in Response /\ RequestInv(t, r)
    BY <1>1, <1>2, <1>4, EnterKeeps DEF Emitted
  <1> QED
    BY <1>2, <1>5, Becomes

LEMMA LoadHitStep ==
  ASSUME StreamInv, NEW r \in Request, LoadHit(r) PROVE StreamInv'
  <1> DEFINE s == req[r]
             value == entries[Ops[s.pc].name].value
             t == [Emit(s, value) EXCEPT !.pc = Ops[s.pc].end]
  <1>1. s \in Response /\ RequestInv(s, r)
    BY TheState
  <1>2. At(s, "fragment") /\ Ops[s.pc].cached /\ Ops[s.pc].name \in DOMAIN entries /\ Become(r, t)
    BY DEF LoadHit
  <1>3. s.pc \in Fragments /\ Ops[s.pc].end \in 1..(Len(Ops) + 1)
    BY <1>1, <1>2, AtFragment
  <1>4. StandFor(value, s.pc + 1, Ops[s.pc].end)
    <2>1. FragmentOf(Ops[s.pc].name) = s.pc
      BY <1>3, FragmentIsFound
    <2> QED
      BY <1>2, <2>1 DEF StreamInv, Kept
  <1>5. value \in Seq(PieceRecord)
    BY <1>4 DEF StandFor
  <1> HIDE DEF s, value
  <1>6. Emitted(s, t, value, Ops[s.pc].end)
    BY <1>1, <1>3, <1>5, EmitAndGo
  <1> HIDE DEF t
  <1>7. t \in Response /\ RequestInv(t, r)
    BY <1>1, <1>2, <1>4, <1>6, LoadHitKeeps DEF Emitted
  <1> QED
    BY <1>2, <1>7, Becomes

LEMMA LoadMissStep ==
  ASSUME StreamInv, NEW r \in Request, LoadMiss(r) PROVE StreamInv'
  <1> DEFINE s == req[r]
             f == [kind |-> "cached", name |-> Ops[s.pc].name, end |-> Ops[s.pc].end, start |-> Len(s.out)]
             u == [s EXCEPT !.pc = s.pc + 1]
             t == [u EXCEPT !.frames = Append(u.frames, f)]
  <1>1. s \in Response /\ RequestInv(s, r)
    BY TheState
  <1>2. At(s, "fragment") /\ ~Hooked(s) /\ Ops[s.pc].cached
    BY DEF LoadMiss
  <1>3. s.pc + 1 \in 1..(Len(Ops) + 1)
    BY <1>1, <1>2, AtFragment
  <1>4. Become(r, t)
    <2>1. u.frames = s.frames
      BY <1>1, <1>3, PcSet
    <2>2. Become(r, [u EXCEPT !.frames = Append(s.frames, f)])
      BY DEF LoadMiss
    <2> HIDE DEF u
    <2> QED
      BY <2>1, <2>2
  <1> HIDE DEF s
  <1>5. Emitted(s, u, <<>>, s.pc + 1)
    BY <1>1, <1>3, MoveOn
  <1>6. f = [kind |-> "cached", name |-> Ops[s.pc].name, end |-> Ops[s.pc].end, start |-> Len(s.out)]
    OBVIOUS
  <1> HIDE DEF u, f
  <1>7. u \in Response
    BY <1>5 DEF Emitted
  <1>8. f \in Frame /\ \A v : Opened(u, v, f) => RequestInv(v, r)
    <2>1. f \in Frame
      <3>1. Ops[s.pc].end \in Nat /\ Ops[s.pc].name \in Names /\ Len(s.out) \in Nat
        BY <1>1, <1>2, AtFragment, FragmentsEnd, RangesOfAResponse DEF Names
      <3> QED
        BY <1>6, <3>1 DEF Frame
    <2> QED
      BY <1>1, <1>2, <1>5, <1>6, <2>1, LoadMissKeeps
  <1>9. Opened(u, t, f)
    BY <1>7, <1>8, Open
  <1> HIDE DEF t
  <1>10. t \in Response /\ RequestInv(t, r)
    BY <1>8, <1>9 DEF Opened
  <1> QED
    BY <1>4, <1>10, Becomes

LEMMA RemoveKeeps == ASSUME Kept, NEW S, Remove(S) PROVE Kept'
  <1>1. \A n \in DOMAIN entries' : n \in DOMAIN entries /\ entries'[n] = entries[n]
    BY DEF Remove, Without
  <1> QED
    BY <1>1 DEF Kept

LEMMA PutKeeps ==
  ASSUME Kept, NEW n, NEW value, NEW p, Put(n, value, p),
         FragmentOf(n) \in Fragments, Ops[FragmentOf(n)].name = n, Ops[FragmentOf(n)].cached,
         StandFor(value, FragmentOf(n) + 1, Ops[FragmentOf(n)].end)
  PROVE  Kept'
  <1>1. \A m \in DOMAIN entries' :
          \/ m = n /\ entries'[m].value = value
          \/ m \in DOMAIN entries /\ entries'[m] = entries[m]
    BY DEF Put, EntryOf
  <1> QED
    BY <1>1 DEF Kept

LEMMA SaveStep ==
  ASSUME StreamInv, NEW r \in Request, Save(r) PROVE StreamInv'
  <1> DEFINE s == req[r]
             f == Seqs!Last(s.frames)
             value == SubSeq(s.out, f.start + 1, Len(s.out))
             t == [s EXCEPT !.frames = Seqs!Front(s.frames)]
  <1>1. s \in Response /\ RequestInv(s, r)
    BY TheState
  <1>2. Due(s) /\ f.kind = "cached" /\ s.frames # <<>>
    BY DEF Save, Due
  <1>3. req' = [req EXCEPT ![r] = t]
    BY DEF Save
  <1>4. Kept'
    <2>1. /\ FragmentOf(f.name) \in Fragments /\ Ops[FragmentOf(f.name)].name = f.name /\ Ops[FragmentOf(f.name)].cached
          /\ StandFor(value, FragmentOf(f.name) + 1, Ops[FragmentOf(f.name)].end)
      BY <1>1, <1>2, RecordedIsWhole
    <2>2. Kept
      BY DEF StreamInv
    <2>3. (\E p \in Policy : Put(f.name, value, p)) \/ Remove({f.name})
      BY DEF Save
    <2> HIDE DEF f, value
    <2> QED
      BY <2>1, <2>2, <2>3, PutKeeps, RemoveKeeps
  <1> HIDE DEF s, f
  <1>5. Closed(s, t)
    BY <1>1, <1>2, Close
  <1> HIDE DEF t
  <1>6. t \in Response /\ RequestInv(t, r)
    BY <1>1, <1>2, <1>5, CloseKeeps DEF Closed
  <1>7. req' \in [Request -> Response] /\ \A o \in Request : req'[o] = IF o = r THEN t ELSE req[o]
    BY <1>3, <1>6 DEF StreamInv
  <1>8. \A o \in Request : RequestInv(req'[o], o)
    BY <1>6, <1>7 DEF StreamInv
  <1> QED
    BY <1>4, <1>7, <1>8 DEF StreamInv

LEMMA EvictStep ==
  ASSUME StreamInv, NEW n, Evict(n) PROVE StreamInv'
  <1>1. Kept'
    BY RemoveKeeps DEF Evict, StreamInv
  <1> QED
    BY <1>1 DEF Evict, StreamInv

LEMMA DataFailsStep ==
  ASSUME StreamInv, NEW r \in Request, DataFails(r), req[r].stage # "body" PROVE StreamInv'
  <1>1. req[r] \in Response /\ RequestInv(req[r], r)
    BY TheState
  <1>2. Become(r, Broken(req[r]))
    BY DEF DataFails
  <1> QED
    BY <1>1, <1>2, BrokenKeeps, Becomes

LEMMA InlineFailsStep ==
  ASSUME StreamInv, NEW r \in Request, InlineFails(r) PROVE StreamInv'
  <1>1. req[r] \in Response /\ RequestInv(req[r], r)
    BY TheState
  <1>2. Become(r, Broken(req[r]))
    BY DEF InlineFails
  <1> QED
    BY <1>1, <1>2, BrokenKeeps, Becomes

LEMMA ReachStep ==
  ASSUME StreamInv, NEW r \in Request, Reach(r) PROVE StreamInv'
  <1> DEFINE s == req[r]
             u == FlushUnlessRecording(s)
             t == [u EXCEPT !.stage = "settle"]
  <1>1. s \in Response /\ RequestInv(s, r)
    BY TheState
  <1>2. At(s, "fragment") /\ Hooked(s) /\ Become(r, t)
    BY DEF Reach
  <1> HIDE DEF s
  <1>3. /\ u = s \/ (Flushed(s, u) /\ ~Recording(s))
        /\ Recording(s) \/ Flushed(s, u)
        /\ u \in Response
    <2>1. CASE Recording(s)
      BY <1>1, <2>1 DEF FlushUnlessRecording
    <2>2. CASE ~Recording(s)
      <3>1. Flushed(s, Flush(s))
        BY <1>1, FlushSends
      <3> QED
        BY <2>2, <3>1 DEF FlushUnlessRecording, Flushed
    <2> QED
      BY <2>1, <2>2
  <1> HIDE DEF u
  <1>4. /\ t \in Response
        /\ t.path = u.path /\ t.stage = "settle" /\ t.pc = u.pc /\ t.frames = u.frames /\ t.loader = u.loader
        /\ t.slotted = u.slotted /\ t.turn = u.turn /\ t.out = u.out /\ t.sent = u.sent /\ t.gone = u.gone
    BY <1>3, StageSet
  <1> HIDE DEF t
  <1>5. RequestInv(t, r)
    BY <1>1, <1>2, <1>3, <1>4, SettleKeeps
  <1> QED
    BY <1>2, <1>4, <1>5, Becomes

LEMMA InlineStep ==
  ASSUME StreamInv, NEW r \in Request, Inline(r) PROVE StreamInv'
  <1> DEFINE s == req[r]
             f == [kind |-> "inline", name |-> Ops[s.pc].name, end |-> Ops[s.pc].end, start |-> 0]
             a == [s EXCEPT !.stage = "render"]
             u == [a EXCEPT !.pc = a.pc + 1]
             t == [u EXCEPT !.frames = Append(u.frames, f)]
  <1>1. s \in Response /\ RequestInv(s, r) /\ Framed(s)
    BY TheState
  <1>2. s.stage = "settle" /\ Become(r, t)
    BY DEF Inline
  <1>3. f \in Frame /\ f.kind = "inline" /\ f.name = Ops[s.pc].name /\ f.end = Ops[s.pc].end
        /\ s.pc + 1 \in 1..(Len(Ops) + 1)
    <2>1. s.pc \in Fragments /\ s.pc \in DOMAIN Ops
      BY <1>1, <1>2 DEF Framed, Fragments
    <2>2. Ops[s.pc].end \in Nat /\ Ops[s.pc].name \in Names /\ s.pc + 1 \in 1..(Len(Ops) + 1)
      BY <2>1, FragmentsEnd, OpsAreInOrder DEF Names
    <2> QED
      BY <2>2 DEF Frame
  <1> HIDE DEF s, f
  <1>4. /\ a \in Response
        /\ a.path = s.path /\ a.stage = "render" /\ a.pc = s.pc /\ a.frames = s.frames /\ a.loader = s.loader
        /\ a.slotted = s.slotted /\ a.turn = s.turn /\ a.out = s.out /\ a.sent = s.sent /\ a.gone = s.gone
    BY <1>1, StageSet
  <1> HIDE DEF a
  <1>5. /\ u \in Response
        /\ u.path = a.path /\ u.stage = a.stage /\ u.pc = s.pc + 1 /\ u.frames = a.frames /\ u.loader = a.loader
        /\ u.slotted = a.slotted /\ u.turn = a.turn /\ u.out = a.out /\ u.sent = a.sent /\ u.gone = a.gone
    BY <1>3, <1>4, PcSet
  <1> HIDE DEF u
  <1>6. Opened(u, t, f)
    BY <1>3, <1>5, Open
  <1> HIDE DEF t
  <1>7. RequestInv(t, r)
    BY <1>1, <1>2, <1>3, <1>4, <1>5, <1>6, InlineKeeps
  <1>8. t \in Response
    BY <1>6 DEF Opened
  <1> QED
    BY <1>2, <1>7, <1>8, Becomes

LEMMA EmitSets ==
  ASSUME NEW s \in Response, NEW q \in Seq(PieceRecord)
  PROVE  LET t == Emit(s, q)
         IN  /\ t \in Response
             /\ t.path = s.path /\ t.stage = s.stage /\ t.pc = s.pc /\ t.frames = s.frames /\ t.loader = s.loader
             /\ t.slotted = s.slotted /\ t.turn = s.turn /\ t.out = s.out \o q /\ t.sent = s.sent /\ t.gone = s.gone
  <1> DEFINE x == s.out \o q
             u == [s EXCEPT !.out = x]
  <1>1. x \in Seq(PieceRecord)
    BY RangesOfAResponse
  <1>2. Emit(s, q) = u
    BY DEF Emit
  <1> HIDE DEF x
  <1>3. /\ u \in Response
        /\ u.path = s.path /\ u.stage = s.stage /\ u.pc = s.pc /\ u.frames = s.frames /\ u.loader = s.loader
        /\ u.slotted = s.slotted /\ u.turn = s.turn /\ u.out = x /\ u.sent = s.sent /\ u.gone = s.gone
    BY <1>1, OutSet
  <1> HIDE DEF u
  <1> QED
    BY <1>2, <1>3 DEF x

LEMMA SlotNoted ==
  ASSUME NEW slots \in Seq(Names \cap Deferral), NEW n \in Names \cap Deferral, NEW new,
         Seqs!Contains(slots, n) => new = slots,
         ~Seqs!Contains(slots, n) => new = Append(slots, n)
  PROVE  new \in Seq(Names \cap Deferral) /\ Noted(slots, new, n)
  <1>1. CASE Seqs!Contains(slots, n)
    <2>1. \E k \in DOMAIN slots : slots[k] = n
      BY <1>1, LenProperties DEF Seqs!Contains
    <2> QED
      BY <1>1, <2>1 DEF Noted
  <1>2. CASE ~Seqs!Contains(slots, n)
    <2>1. new = Append(slots, n)
      BY <1>2
    <2>2. /\ new \in Seq(Names \cap Deferral) /\ DOMAIN new = DOMAIN slots \cup {Len(slots) + 1}
          /\ new[Len(slots) + 1] = n /\ \A j \in DOMAIN slots : new[j] = slots[j]
      BY <2>1
    <2> QED
      BY <2>2 DEF Noted
  <1> QED
    BY <1>1, <1>2

LEMMA SlotStep ==
  ASSUME StreamInv, NEW r \in Request, Slot(r) PROVE StreamInv'
  <1> DEFINE s == req[r]
             n == Ops[s.pc].name
             piece == Piece("slot", n, Nobody)
             q == <<piece>>
             e == Emit(s, q)
             a == [e EXCEPT !.stage = "render"]
             b == [a EXCEPT !.pc = Ops[s.pc].end]
             new == IF Seqs!Contains(s.slotted, n) THEN s.slotted ELSE Append(s.slotted, n)
             t == [b EXCEPT !.slotted = new]
  <1>1. s \in Response /\ RequestInv(s, r) /\ Framed(s)
    BY TheState
  <1>2. s.stage = "settle" /\ s.path = "stream"
    BY DEF Slot, GivesUp
  <1>3. s.pc \in Fragments /\ Ops[s.pc].deferred /\ Ops[s.pc].end \in 1..(Len(Ops) + 1)
    <2>1. s.pc \in Fragments /\ Ops[s.pc].deferred
      BY <1>1, <1>2 DEF Framed
    <2> QED
      BY <2>1, FragmentsEnd, OpsAreInOrder
  <1>4. n \in Names \cap Deferral
    BY <1>3, FragmentAssumption DEF Names, Fragments
  <1>5. StandFor(q, s.pc, Ops[s.pc].end)
    BY <1>3, SlotStands
  <1>6. q \in Seq(PieceRecord) /\ SlotsIn(q) = {n} /\ DataBy(q, r)
    <2>1. piece.kind = "slot" /\ piece.of = n
      BY DEF Piece
    <2> HIDE DEF piece, n
    <2> QED
      BY <1>5, <2>1, OnePiece DEF StandFor
  <1>7. Become(r, [e EXCEPT !.stage = "render", !.pc = Ops[s.pc].end,
                            !.slotted = IF Seqs!Contains(e.slotted, n) THEN e.slotted ELSE Append(e.slotted, n)])
    BY DEF Slot
  <1> HIDE DEF s, q
  <1>8. /\ e \in Response
        /\ e.path = s.path /\ e.stage = s.stage /\ e.pc = s.pc /\ e.frames = s.frames /\ e.loader = s.loader
        /\ e.slotted = s.slotted /\ e.turn = s.turn /\ e.out = s.out \o q /\ e.sent = s.sent /\ e.gone = s.gone
    BY <1>1, <1>6, EmitSets
  <1> HIDE DEF e
  <1>9. Become(r, t)
    <2>1. Become(r, [e EXCEPT !.stage = "render", !.pc = Ops[s.pc].end, !.slotted = new])
      BY <1>7, <1>8
    <2> HIDE DEF new
    <2>2. [e EXCEPT !.stage = "render", !.pc = Ops[s.pc].end, !.slotted = new] = t
      OBVIOUS
    <2> HIDE DEF t
    <2> QED
      BY <2>1, <2>2
  <1>10. /\ a \in Response
         /\ a.path = e.path /\ a.stage = "render" /\ a.pc = e.pc /\ a.frames = e.frames /\ a.loader = e.loader
         /\ a.slotted = e.slotted /\ a.turn = e.turn /\ a.out = e.out /\ a.sent = e.sent /\ a.gone = e.gone
    BY <1>8, StageSet
  <1> HIDE DEF a
  <1>11. /\ b \in Response
         /\ b.path = a.path /\ b.stage = a.stage /\ b.pc = Ops[s.pc].end /\ b.frames = a.frames /\ b.loader = a.loader
         /\ b.slotted = a.slotted /\ b.turn = a.turn /\ b.out = a.out /\ b.sent = a.sent /\ b.gone = a.gone
    BY <1>3, <1>10, PcSet
  <1> HIDE DEF b
  <1>12. new \in Seq(Names \cap Deferral) /\ Noted(s.slotted, new, n)
    <2>1. s.slotted \in Seq(Names \cap Deferral)
      BY <1>1, RangesOfAResponse
    <2>2. /\ Seqs!Contains(s.slotted, n) => new = s.slotted
          /\ ~Seqs!Contains(s.slotted, n) => new = Append(s.slotted, n)
      OBVIOUS
    <2> HIDE DEF n, new
    <2> QED
      BY <1>4, <2>1, <2>2, SlotNoted
  <1> HIDE DEF new
  <1>13. /\ t \in Response
         /\ t.path = b.path /\ t.stage = b.stage /\ t.pc = b.pc /\ t.frames = b.frames /\ t.loader = b.loader
         /\ t.slotted = new /\ t.turn = b.turn /\ t.out = b.out /\ t.sent = b.sent /\ t.gone = b.gone
    BY <1>11, <1>12, SlottedSet
  <1> HIDE DEF t
  <1>14. /\ t.stage = "render" /\ t.pc = Ops[s.pc].end /\ t.out = s.out \o q /\ t.slotted = new
         /\ t.path = s.path /\ t.frames = s.frames /\ t.loader = s.loader
         /\ t.turn = s.turn /\ t.sent = s.sent /\ t.gone = s.gone
    BY <1>8, <1>10, <1>11, <1>13
  <1>15. RequestInv(t, r)
    BY <1>1, <1>2, <1>5, <1>6, <1>12, <1>13, <1>14, SlotKeeps
  <1> QED
    BY <1>9, <1>13, <1>15, Becomes

LEMMA InlinedStep ==
  ASSUME StreamInv, NEW r \in Request, Inlined(r) PROVE StreamInv'
  <1> DEFINE s == req[r]
             u == [s EXCEPT !.frames = Seqs!Front(s.frames)]
             t == FlushUnlessRecording(u)
  <1>1. s \in Response /\ RequestInv(s, r)
    BY TheState
  <1>2. Due(s) /\ s.frames # <<>> /\ Become(r, t)
    BY DEF Inlined, Due
  <1> HIDE DEF s
  <1>3. Closed(s, u)
    BY <1>1, <1>2, Close
  <1> HIDE DEF u
  <1>4. u \in Response /\ RequestInv(u, r)
    BY <1>1, <1>2, <1>3, CloseKeeps DEF Closed
  <1>5. t \in Response /\ RequestInv(t, r)
    <2>1. CASE Recording(u)
      BY <1>4, <2>1 DEF FlushUnlessRecording
    <2>2. CASE ~Recording(u)
      <3>1. t = Flush(u)
        BY <2>2 DEF FlushUnlessRecording
      <3>2. Flushed(u, Flush(u))
        BY <1>4, FlushSends
      <3> QED
        BY <1>4, <2>2, <3>1, <3>2, FlushKeeps DEF Flushed
    <2> QED
      BY <2>1, <2>2
  <1> QED
    BY <1>2, <1>5, Becomes

LEMMA RenderedStep ==
  ASSUME StreamInv, NEW r \in Request, Rendered(r) PROVE StreamInv'
  <1> DEFINE s == req[r]
  <1>1. s \in Response /\ RequestInv(s, r)
    BY TheState
  <1>2. s.stage = "render" /\ s.frames = <<>> /\ s.pc = Len(Ops) + 1
    BY DEF Rendered, End
  <1>3. CASE s.path = "stream"
    <2> DEFINE t == [s EXCEPT !.stage = "tail"]
    <2>1. Become(r, t)
      BY <1>3 DEF Rendered
    <2> HIDE DEF s
    <2>2. /\ t \in Response
          /\ t.path = s.path /\ t.stage = "tail" /\ t.pc = s.pc /\ t.frames = s.frames /\ t.loader = s.loader
          /\ t.slotted = s.slotted /\ t.turn = s.turn /\ t.out = s.out /\ t.sent = s.sent /\ t.gone = s.gone
      BY <1>1, StageSet
    <2> HIDE DEF t
    <2>3. RequestInv(t, r)
      BY <1>1, <1>2, <1>3, <2>2, RenderedKeeps
    <2> QED
      BY <2>1, <2>2, <2>3, Becomes
  <1>4. CASE s.path = "buffered"
    <2> DEFINE none == <<>>
               body == s.out
               a == [s EXCEPT !.stage = "done"]
               u == [a EXCEPT !.sent = body]
               t == [u EXCEPT !.out = none]
    <2>1. Become(r, t)
      BY <1>4 DEF Rendered
    <2>2. none \in Seq(PieceRecord) /\ none = <<>> /\ body \in Seq(PieceRecord) /\ body = s.out
      BY <1>1, RangesOfAResponse
    <2> HIDE DEF s, none, body
    <2>3. /\ a \in Response
          /\ a.path = s.path /\ a.stage = "done" /\ a.pc = s.pc /\ a.frames = s.frames /\ a.loader = s.loader
          /\ a.slotted = s.slotted /\ a.turn = s.turn /\ a.out = s.out /\ a.sent = s.sent /\ a.gone = s.gone
      BY <1>1, StageSet
    <2> HIDE DEF a
    <2>4. /\ u \in Response
          /\ u.path = a.path /\ u.stage = a.stage /\ u.pc = a.pc /\ u.frames = a.frames /\ u.loader = a.loader
          /\ u.slotted = a.slotted /\ u.turn = a.turn /\ u.out = a.out /\ u.sent = body /\ u.gone = a.gone
      BY <2>2, <2>3, SentSet
    <2> HIDE DEF u
    <2>5. /\ t \in Response
          /\ t.path = u.path /\ t.stage = u.stage /\ t.pc = u.pc /\ t.frames = u.frames /\ t.loader = u.loader
          /\ t.slotted = u.slotted /\ t.turn = u.turn /\ t.out = none /\ t.sent = u.sent /\ t.gone = u.gone
      BY <2>2, <2>4, OutSet
    <2> HIDE DEF t
    <2>6. /\ t.stage = "done" /\ t.sent = s.out /\ t.out = <<>>
          /\ t.path = s.path /\ t.frames = s.frames /\ t.loader = s.loader
          /\ t.slotted = s.slotted /\ t.turn = s.turn /\ t.gone = s.gone
      BY <2>2, <2>3, <2>4, <2>5
    <2>7. RequestInv(t, r)
      BY <1>1, <1>2, <1>4, <2>5, <2>6, RenderedKeeps
    <2> QED
      BY <2>1, <2>5, <2>7, Becomes
  <1>5. s.path \in {"stream", "buffered"}
    BY <1>1 DEF Response
  <1> QED
    BY <1>3, <1>4, <1>5

LEMMA TemplateStep ==
  ASSUME StreamInv, NEW r \in Request, Template(r) PROVE StreamInv'
  <1> DEFINE s == req[r]
             n == s.slotted[s.turn]
             piece == Piece("template", n, Nobody)
             q == <<piece>>
             e == Emit(s, q)
             a == [e EXCEPT !.stage = "body"]
             t == [a EXCEPT !.pc = FragmentOf(n) + 1]
  <1>1. s \in Response /\ RequestInv(s, r) /\ Framed(s)
    BY TheState
  <1>2. s.stage = "tail" /\ s.turn <= Len(s.slotted) /\ Become(r, t)
    BY DEF Template
  <1>3. s.turn \in DOMAIN s.slotted
    BY <1>1, <1>2, RangesOfAResponse
  <1>4. n \in Names /\ FragmentOf(n) + 1 \in 1..(Len(Ops) + 1)
    <2>1. n \in Names \cap Deferral
      BY <1>1, <1>3, RangesOfAResponse
    <2>2. FragmentOf(n) \in Fragments
      BY <1>1, <1>3 DEF Framed, Deferred
    <2> HIDE DEF n
    <2> QED
      BY <2>1, <2>2, FragmentsEnd, OpsAreInOrder
  <1>5. piece \in PieceRecord /\ piece.kind = "template" /\ piece.of = n
    BY <1>4 DEF Piece, PieceRecord
  <1> HIDE DEF s, piece
  <1>6. q \in Seq(PieceRecord)
    BY <1>5
  <1>7. /\ e \in Response
        /\ e.path = s.path /\ e.stage = s.stage /\ e.pc = s.pc /\ e.frames = s.frames /\ e.loader = s.loader
        /\ e.slotted = s.slotted /\ e.turn = s.turn /\ e.out = s.out \o q /\ e.sent = s.sent /\ e.gone = s.gone
    BY <1>1, <1>6, EmitSets
  <1> HIDE DEF e
  <1>8. /\ a \in Response
        /\ a.path = e.path /\ a.stage = "body" /\ a.pc = e.pc /\ a.frames = e.frames /\ a.loader = e.loader
        /\ a.slotted = e.slotted /\ a.turn = e.turn /\ a.out = e.out /\ a.sent = e.sent /\ a.gone = e.gone
    BY <1>7, StageSet
  <1> HIDE DEF a
  <1>9. /\ t \in Response
        /\ t.path = a.path /\ t.stage = a.stage /\ t.pc = FragmentOf(n) + 1 /\ t.frames = a.frames /\ t.loader = a.loader
        /\ t.slotted = a.slotted /\ t.turn = a.turn /\ t.out = a.out /\ t.sent = a.sent /\ t.gone = a.gone
    BY <1>4, <1>8, PcSet
  <1> HIDE DEF t
  <1>10. /\ t.stage = "body" /\ t.pc = FragmentOf(s.slotted[s.turn]) + 1
         /\ t.out = s.out \o <<piece>> /\ t.sent = s.sent
         /\ t.path = s.path /\ t.frames = s.frames /\ t.loader = s.loader
         /\ t.slotted = s.slotted /\ t.turn = s.turn /\ t.gone = s.gone
    BY <1>7, <1>8, <1>9
  <1>11. RequestInv(t, r)
    BY <1>1, <1>2, <1>3, <1>5, <1>9, <1>10, TemplateKeeps
  <1> QED
    BY <1>2, <1>9, <1>11, Becomes

LEMMA SkipStep ==
  ASSUME StreamInv, NEW r \in Request, Skip(r) PROVE StreamInv'
  <1> DEFINE s == req[r]
             t == [s EXCEPT !.turn = s.turn + 1]
  <1>1. s \in Response /\ RequestInv(s, r) /\ Framed(s)
    BY TheState
  <1>2. /\ s.stage = "tail" /\ s.turn <= Len(s.slotted) /\ s.loader[s.slotted[s.turn]] = "failed"
        /\ Become(r, t)
    BY DEF Skip
  <1>3. s.turn \in DOMAIN s.slotted /\ s.turn + 1 \in Nat \ {0}
    BY <1>1, <1>2, RangesOfAResponse
  <1> HIDE DEF s
  <1>4. /\ t \in Response
        /\ t.path = s.path /\ t.stage = s.stage /\ t.pc = s.pc /\ t.frames = s.frames /\ t.loader = s.loader
        /\ t.slotted = s.slotted /\ t.turn = s.turn + 1 /\ t.out = s.out /\ t.sent = s.sent /\ t.gone = s.gone
    BY <1>1, <1>3, TurnSet
  <1> HIDE DEF t
  <1>5. Served(s, s.slotted[s.turn])
    BY <1>2 DEF Served
  <1>6. s.frames = <<>>
    BY <1>1, <1>2 DEF Framed
  <1> DEFINE q == <<>>
  <1>7. q \in Seq(PieceRecord) /\ SlotsIn(q) = {} /\ DataBy(q, r) /\ q = <<>>
    <2>1. q \in Seq(PieceRecord) /\ DOMAIN q = {}
      OBVIOUS
    <2> QED
      BY <2>1 DEF SlotsIn, DataBy
  <1>8. Whole(t) = Whole(s) \o q
    <2>1. Whole(s) \in Seq(PieceRecord) /\ Whole(t) = Whole(s)
      BY <1>1, <1>4, RangesOfAResponse DEF Whole
    <2> QED
      BY <2>1, ConcatEmptySeq
  <1> HIDE DEF q
  <1>9. RequestInv(t, r)
    BY <1>1, <1>2, <1>3, <1>4, <1>5, <1>6, <1>7, <1>8, TailKeeps
  <1> QED
    BY <1>2, <1>4, <1>9, Becomes

(* The body of a slot is closed, complete or not.                          *)
LEMMA CloseSlot ==
  ASSUME NEW s \in Response, NEW r, RequestInv(s, r), s.stage = "body",
         NEW q, q = <<Piece("close", s.slotted[s.turn], Nobody)>>,
         NEW e, e = Emit(s, q)
  PROVE  /\ Flush(e) \in Response
         /\ \A t \in Response :
              /\ t.path = Flush(e).path /\ t.stage = "tail" /\ t.frames = <<>> /\ t.loader = Flush(e).loader
              /\ t.slotted = Flush(e).slotted /\ t.turn = Flush(e).turn + 1
              /\ t.out = Flush(e).out /\ t.sent = Flush(e).sent
              => RequestInv(t, r)
  <1> DEFINE n == s.slotted[s.turn]
             piece == Piece("close", n, Nobody)
             f == Flush(e)
  <1>1. Framed(s) /\ Turned(s)
    BY DEF RequestInv, ResponseInv
  <1>2. s.turn \in DOMAIN s.slotted /\ Served(s, n)
    BY <1>1 DEF Framed, Turned
  <1>3. piece \in PieceRecord /\ piece.kind = "close"
    <2>1. n \in Names
      BY <1>2, RangesOfAResponse
    <2> QED
      BY <2>1 DEF Piece, PieceRecord
  <1>4. q \in Seq(PieceRecord) /\ SlotsIn(q) = {} /\ DataBy(q, r)
    <2>1. q = <<piece>>
      OBVIOUS
    <2> HIDE DEF piece
    <2> QED
      BY <1>3, <2>1, OnePiece
  <1>5. /\ e \in Response
        /\ e.path = s.path /\ e.stage = s.stage /\ e.pc = s.pc /\ e.frames = s.frames /\ e.loader = s.loader
        /\ e.slotted = s.slotted /\ e.turn = s.turn /\ e.out = s.out \o q /\ e.sent = s.sent /\ e.gone = s.gone
    BY <1>4, EmitSets
  <1>6. Flushed(e, f)
    BY <1>5, FlushSends
  <1> HIDE DEF f
  <1>7. ASSUME NEW t \in Response,
               t.path = f.path, t.stage = "tail", t.frames = <<>>, t.loader = f.loader,
               t.slotted = f.slotted, t.turn = f.turn + 1, t.out = f.out, t.sent = f.sent
        PROVE  RequestInv(t, r)
    <2>1. Whole(e) = Whole(s) \o q
      BY <1>4, <1>5, WholeGrows
    <2>2. Whole(t) = Whole(s) \o q
      BY <1>6, <1>7, <2>1 DEF Flushed, Whole
    <2>3. t.path = s.path /\ t.loader = s.loader /\ t.slotted = s.slotted /\ t.turn = s.turn + 1
      BY <1>5, <1>6, <1>7 DEF Flushed
    <2> QED
      BY <1>2, <1>4, <1>7, <2>2, <2>3, TailKeeps
  <1>8. f \in Response
    BY <1>6 DEF Flushed
  <1> QED
    BY <1>7, <1>8 DEF f

LEMMA FilledStep ==
  ASSUME StreamInv, NEW r \in Request, Filled(r) PROVE StreamInv'
  <1> DEFINE s == req[r]
             q == <<Piece("close", s.slotted[s.turn], Nobody)>>
             e == Emit(s, q)
             f == Flush(e)
             a == [f EXCEPT !.stage = "tail"]
             t == [a EXCEPT !.turn = a.turn + 1]
  <1>1. s \in Response /\ RequestInv(s, r)
    BY TheState
  <1>2. s.stage = "body" /\ s.frames = <<>> /\ Become(r, t)
    BY DEF Filled
  <1>3. q \in Seq(PieceRecord) /\ f \in Response
        /\ \A u \in Response :
              /\ u.path = f.path /\ u.stage = "tail" /\ u.frames = <<>> /\ u.loader = f.loader
              /\ u.slotted = f.slotted /\ u.turn = f.turn + 1 /\ u.out = f.out /\ u.sent = f.sent
              => RequestInv(u, r)
    <2>1. q \in Seq(PieceRecord)
      <3>1. s.turn \in DOMAIN s.slotted
        BY <1>2, TheState DEF Framed
      <3>2. s.slotted[s.turn] \in Names
        BY <1>1, <3>1, RangesOfAResponse
      <3>3. Piece("close", s.slotted[s.turn], Nobody) \in PieceRecord
        BY <3>2 DEF Piece, PieceRecord
      <3> QED
        BY <3>3
    <2> HIDE DEF s
    <2> QED
      BY <1>1, <1>2, <2>1, CloseSlot
  <1> HIDE DEF s, q
  <1>4. f.frames = <<>>
    <2>1. e \in Response /\ e.frames = s.frames
      BY <1>1, <1>3, EmitSets
    <2> HIDE DEF e
    <2> QED
      BY <1>2, <2>1, FlushSends DEF Flushed
  <1> HIDE DEF f
  <1>5. /\ a \in Response
        /\ a.path = f.path /\ a.stage = "tail" /\ a.pc = f.pc /\ a.frames = f.frames /\ a.loader = f.loader
        /\ a.slotted = f.slotted /\ a.turn = f.turn /\ a.out = f.out /\ a.sent = f.sent /\ a.gone = f.gone
    BY <1>3, StageSet
  <1> HIDE DEF a
  <1>6. a.turn + 1 \in Nat \ {0}
    BY <1>5, RangesOfAResponse
  <1>7. /\ t \in Response
        /\ t.path = a.path /\ t.stage = a.stage /\ t.pc = a.pc /\ t.frames = a.frames /\ t.loader = a.loader
        /\ t.slotted = a.slotted /\ t.turn = a.turn + 1 /\ t.out = a.out /\ t.sent = a.sent /\ t.gone = a.gone
    BY <1>5, <1>6, TurnSet
  <1> HIDE DEF t
  <1>8. RequestInv(t, r)
    BY <1>3, <1>4, <1>5, <1>7
  <1> QED
    BY <1>2, <1>7, <1>8, Becomes

LEMMA DataFailsInSlot ==
  ASSUME StreamInv, NEW r \in Request, DataFails(r), req[r].stage = "body" PROVE StreamInv'
  <1> DEFINE s == req[r]
             q == <<Piece("close", s.slotted[s.turn], Nobody)>>
             none == <<>>
             e == Emit(s, q)
             f == Flush(e)
             a == [f EXCEPT !.stage = "tail"]
             b == [a EXCEPT !.turn = a.turn + 1]
             t == [b EXCEPT !.frames = none]
  <1>1. s \in Response /\ RequestInv(s, r)
    BY TheState
  <1>2. s.stage = "body" /\ Become(r, t)
    BY DEF DataFails
  <1>3. f \in Response
        /\ \A u \in Response :
              /\ u.path = f.path /\ u.stage = "tail" /\ u.frames = <<>> /\ u.loader = f.loader
              /\ u.slotted = f.slotted /\ u.turn = f.turn + 1 /\ u.out = f.out /\ u.sent = f.sent
              => RequestInv(u, r)
    <2> HIDE DEF s
    <2> QED
      BY <1>1, <1>2, CloseSlot
  <1>4. none \in Seq(Frame) /\ none = <<>>
    OBVIOUS
  <1> HIDE DEF s, q, f, none
  <1>5. /\ a \in Response
        /\ a.path = f.path /\ a.stage = "tail" /\ a.pc = f.pc /\ a.frames = f.frames /\ a.loader = f.loader
        /\ a.slotted = f.slotted /\ a.turn = f.turn /\ a.out = f.out /\ a.sent = f.sent /\ a.gone = f.gone
    BY <1>3, StageSet
  <1> HIDE DEF a
  <1>6. a.turn + 1 \in Nat \ {0}
    BY <1>5, RangesOfAResponse
  <1>7. /\ b \in Response
        /\ b.path = a.path /\ b.stage = a.stage /\ b.pc = a.pc /\ b.frames = a.frames /\ b.loader = a.loader
        /\ b.slotted = a.slotted /\ b.turn = a.turn + 1 /\ b.out = a.out /\ b.sent = a.sent /\ b.gone = a.gone
    BY <1>5, <1>6, TurnSet
  <1> HIDE DEF b
  <1>8. /\ t \in Response
        /\ t.path = b.path /\ t.stage = b.stage /\ t.pc = b.pc /\ t.frames = none /\ t.loader = b.loader
        /\ t.slotted = b.slotted /\ t.turn = b.turn /\ t.out = b.out /\ t.sent = b.sent /\ t.gone = b.gone
    BY <1>4, <1>7, FramesSet
  <1> HIDE DEF t
  <1>9. RequestInv(t, r)
    BY <1>3, <1>4, <1>5, <1>7, <1>8
  <1> QED
    BY <1>2, <1>8, <1>9, Becomes

LEMMA TailEndsStep ==
  ASSUME StreamInv, NEW r \in Request, TailEnds(r) PROVE StreamInv'
  <1> DEFINE s == req[r]
             f == Flush(s)
             t == [f EXCEPT !.stage = "done"]
  <1>1. s \in Response /\ RequestInv(s, r) /\ Framed(s) /\ Sending(s)
    BY TheState
  <1>2. s.stage = "tail" /\ s.turn > Len(s.slotted) /\ Become(r, t)
    BY DEF TailEnds
  <1> HIDE DEF s
  <1>3. Flushed(s, f)
    BY <1>1, FlushSends
  <1> HIDE DEF f
  <1>4. f \in Response
    BY <1>3 DEF Flushed
  <1>5. /\ t \in Response
        /\ t.path = f.path /\ t.stage = "done" /\ t.pc = f.pc /\ t.frames = f.frames /\ t.loader = f.loader
        /\ t.slotted = f.slotted /\ t.turn = f.turn /\ t.out = f.out /\ t.sent = f.sent /\ t.gone = f.gone
    BY <1>4, StageSet
  <1> HIDE DEF t
  <1>6. /\ t.path = s.path /\ t.frames = <<>> /\ t.loader = s.loader /\ t.slotted = s.slotted /\ t.turn = s.turn
        /\ ~t.gone => t.out = <<>>
    <2>1. s.frames = <<>>
      BY <1>1, <1>2 DEF Framed
    <2>2. s.path = "stream"
      BY <1>1, <1>2 DEF Sending, Response
    <2> QED
      BY <1>3, <1>5, <2>1, <2>2 DEF Flushed
  <1>7. Len(s.slotted) < t.turn
    BY <1>1, <1>2, <1>6, RangesOfAResponse
  <1> DEFINE q == <<>>
  <1>8. q \in Seq(PieceRecord) /\ SlotsIn(q) = {} /\ DataBy(q, r) /\ q = <<>>
    <2>1. q \in Seq(PieceRecord) /\ DOMAIN q = {}
      OBVIOUS
    <2> QED
      BY <2>1 DEF SlotsIn, DataBy
  <1>9. Whole(t) = Whole(s) \o q
    <2>1. Whole(s) \in Seq(PieceRecord) /\ Whole(t) = Whole(s)
      BY <1>1, <1>3, <1>5, RangesOfAResponse DEF Whole, Flushed
    <2> QED
      BY <2>1, ConcatEmptySeq
  <1> HIDE DEF q
  <1>10. RequestInv(t, r)
    BY <1>1, <1>2, <1>5, <1>6, <1>7, <1>8, <1>9, TailKeeps
  <1> QED
    BY <1>2, <1>5, <1>10, Becomes

LEMMA HangupStep ==
  ASSUME StreamInv, NEW r \in Request, Hangup(r) PROVE StreamInv'
  <1> DEFINE s == req[r]
             t == [s EXCEPT !.gone = TRUE]
  <1>1. s \in Response /\ RequestInv(s, r)
    BY TheState
  <1>2. Become(r, t)
    BY DEF Hangup
  <1> HIDE DEF s
  <1>3. /\ t \in Response
        /\ t.path = s.path /\ t.stage = s.stage /\ t.pc = s.pc /\ t.frames = s.frames /\ t.loader = s.loader
        /\ t.slotted = s.slotted /\ t.turn = s.turn /\ t.out = s.out /\ t.sent = s.sent /\ t.gone = TRUE
    BY <1>1, GoneSet
  <1> HIDE DEF t
  <1>4. RequestInv(t, r)
    BY <1>1, <1>3, AsideKeeps
  <1> QED
    BY <1>2, <1>3, <1>4, Becomes

LEMMA LoaderEndsStep ==
  ASSUME StreamInv, NEW r \in Request, NEW n \in Deferral, LoaderEnds(r, n) PROVE StreamInv'
  <1> DEFINE s == req[r]
  <1>1. s \in Response /\ RequestInv(s, r)
    BY TheState
  <1>2. PICK outcome \in {"ok", "failed"} : Become(r, [s EXCEPT !.loader[n] = outcome])
    BY DEF LoaderEnds
  <1> DEFINE new == [s.loader EXCEPT ![n] = outcome]
             t == [s EXCEPT !.loader = new]
  <1>3. s.loader \in [Deferral -> {"running", "ok", "failed"}] /\ s.loader[n] = "running"
    BY <1>1 DEF LoaderEnds, Response
  <1>4. /\ new \in [Deferral -> {"running", "ok", "failed"}]
        /\ \A m \in Deferral : s.loader[m] = "failed" => new[m] = "failed"
    BY <1>3
  <1>5. Become(r, t)
    BY <1>2
  <1> HIDE DEF s, new
  <1>6. /\ t \in Response
        /\ t.path = s.path /\ t.stage = s.stage /\ t.pc = s.pc /\ t.frames = s.frames /\ t.loader = new
        /\ t.slotted = s.slotted /\ t.turn = s.turn /\ t.out = s.out /\ t.sent = s.sent /\ t.gone = s.gone
    BY <1>1, <1>4, LoaderSet
  <1> HIDE DEF t
  <1>7. RequestInv(t, r)
    BY <1>1, <1>4, <1>6, AsideKeeps
  <1> QED
    BY <1>5, <1>6, <1>7, Becomes
-----------------------------------------------------------------------------
LEMMA StreamStep == ASSUME StreamInv, [Next]_vars PROVE StreamInv'
  <1>1. ASSUME NEW r \in Request, Render(r) PROVE StreamInv'
    <2>1. CASE Text(r)
      BY <2>1, TextStep
    <2>2. CASE Data(r)
      BY <2>2, DataStep
    <2>3. CASE DataFails(r)
      BY <2>3, DataFailsStep, DataFailsInSlot
    <2>4. CASE Enter(r)
      BY <2>4, EnterStep
    <2>5. CASE LoadHit(r)
      BY <2>5, LoadHitStep
    <2>6. CASE LoadMiss(r)
      BY <2>6, LoadMissStep
    <2>7. CASE Save(r)
      BY <2>7, SaveStep
    <2>8. CASE Reach(r)
      BY <2>8, ReachStep
    <2>9. CASE Inline(r)
      BY <2>9, InlineStep
    <2>10. CASE InlineFails(r)
      BY <2>10, InlineFailsStep
    <2>11. CASE Slot(r)
      BY <2>11, SlotStep
    <2>12. CASE Inlined(r)
      BY <2>12, InlinedStep
    <2>13. CASE Rendered(r)
      BY <2>13, RenderedStep
    <2>14. CASE Template(r)
      BY <2>14, TemplateStep
    <2>15. CASE Skip(r)
      BY <2>15, SkipStep
    <2>16. CASE Filled(r)
      BY <2>16, FilledStep
    <2>17. CASE TailEnds(r)
      BY <2>17, TailEndsStep
    <2> QED
      BY <1>1, <2>1, <2>2, <2>3, <2>4, <2>5, <2>6, <2>7, <2>8, <2>9, <2>10, <2>11, <2>12,
         <2>13, <2>14, <2>15, <2>16, <2>17 DEF Render
  <1>2. CASE UNCHANGED vars
    BY <1>2 DEF vars, StreamInv, Kept
  <1> QED
    BY <1>1, <1>2, HangupStep, LoaderEndsStep, EvictStep DEF Next

(* The inductive invariant holds in every state.                           *)
THEOREM StreamInvariant == Spec => []StreamInv
  <1>1. Init => StreamInv
    BY InitialState
  <1>2. StreamInv /\ [Next]_vars => StreamInv'
    BY StreamStep
  <1> QED
    BY <1>1, <1>2, PTL DEF Spec

(* A cached fragment is kept whole: it holds every text of its body that   *)
(* no slot stands for, each once and in order, and nothing else, whatever  *)
(* was flushed, evicted or kept by another request while it was rendered.  *)
THEOREM CachedFragmentsAreWhole == Spec => []CachedFragmentIsWhole
  <1>1. StreamInv => CachedFragmentIsWhole
    BY DEF StreamInv, Kept, CachedFragmentIsWhole, StandFor
  <1> QED
    BY <1>1, StreamInvariant, PTL

(* What was sent carries the page.                                         *)
ResponsesCarryThePage ==
  \A r \in Request :
    LET s == req[r]
    IN  /\ s.stage = "done" /\ ~s.gone => CarryTexts(Document(s.sent), 1, Len(Ops) + 1)
        /\ s.stage = "settle" /\ s.path = "stream" /\ ~s.gone /\ ~Recording(s) => s.out = <<>>

(* On any page, a complete response carries each text once and in order,   *)
(* but for those in its slots, and nothing of the tail before the end of   *)
(* the document; one that waits for a loader has sent what is above it.    *)
THEOREM CompleteResponsesCarryThePage == Spec => []ResponsesCarryThePage
  <1>1. StreamInv => ResponsesCarryThePage
    <2> SUFFICES ASSUME StreamInv, NEW r \in Request
                 PROVE  LET s == req[r]
                        IN  /\ s.stage = "done" /\ ~s.gone => CarryTexts(Document(s.sent), 1, Len(Ops) + 1)
                            /\ s.stage = "settle" /\ s.path = "stream" /\ ~s.gone /\ ~Recording(s) => s.out = <<>>
      BY DEF ResponsesCarryThePage
    <2> DEFINE s == req[r]
    <2>1. s \in Response /\ Sending(s) /\ Covered(s)
      BY TheState DEF ResponseInv
    <2> HIDE DEF s
    <2>2. ASSUME s.stage = "done", ~s.gone PROVE CarryTexts(Document(s.sent), 1, Len(Ops) + 1)
      <3>1. s.out = <<>> /\ s.sent \in Seq(PieceRecord)
        BY <2>1, <2>2, RangesOfAResponse DEF Sending
      <3>2. Whole(s) = s.sent
        BY <3>1, ConcatEmptySeq DEF Whole
      <3> QED
        BY <2>1, <2>2, <3>2 DEF Covered, StandFor
    <2> QED
      BY <2>1, <2>2 DEF Sending, s
  <1> QED
    BY <1>1, StreamInvariant, PTL

(* Where data stand in the fragments that load them, what a fragment shows *)
(* comes, besides, from a loader of its own request, and is there.         *)
THEOREM TheResponseIsThePage ==
  ASSUME DataHaveTheirPlace PROVE Spec => []ResponseIsThePage
  <1>1. StreamInv => \A r \in Request : \A i \in DOMAIN req[r].sent :
                       req[r].sent[i].kind = "data" => req[r].sent[i].by = r
    <2> SUFFICES ASSUME StreamInv, NEW r \in Request,
                        NEW i \in DOMAIN req[r].sent, req[r].sent[i].kind = "data"
                 PROVE  req[r].sent[i].by = r
      OBVIOUS
    <2> DEFINE s == req[r]
    <2>1. s \in Response /\ RequestInv(s, r) /\ i \in DOMAIN s.sent /\ s.sent[i].kind = "data"
      BY TheState
    <2> HIDE DEF s
    <2>2. s.sent \in Seq(PieceRecord) /\ s.out \in Seq(PieceRecord)
      BY <2>1, RangesOfAResponse
    <2>3. i \in DOMAIN (s.sent \o s.out) /\ (s.sent \o s.out)[i] = s.sent[i]
      BY <2>1, <2>2, JoinedPieces
    <2>4. DataBy(s.sent \o s.out, r)
      BY <2>1 DEF RequestInv, Whole
    <2>5. s.sent[i].by = r
      BY <2>1, <2>3, <2>4 DEF DataBy
    <2> QED
      BY <2>5 DEF s
  <1>2. ResponsesCarryThePage /\ StreamInv => ResponseIsThePage
    BY <1>1 DEF ResponsesCarryThePage, ResponseIsThePage
  <1> QED
    BY <1>2, StreamInvariant, CompleteResponsesCarryThePage, PTL

(* Where no fragment that is deferred stands in one that is cached, every  *)
(* slot of a complete response is filled in it, unless its loader failed,  *)
(* and a buffered response has none.                                       *)
THEOREM SlotsAreAllFilled ==
  ASSUME NoneIsKeptDeferred PROVE Spec => []SlotsAreFilled
  <1>1. StreamInv => SlotsAreFilled
    <2> SUFFICES ASSUME StreamInv, NEW r \in Request, req[r].stage = "done", ~req[r].gone,
                        NEW n \in SlotsIn(req[r].sent)
                 PROVE  /\ req[r].path = "stream"
                        /\ req[r].loader[n] = "failed" \/ Has(req[r].sent, "template", n)
      BY DEF SlotsAreFilled
    <2> DEFINE s == req[r]
    <2>1. s \in Response /\ RequestInv(s, r) /\ ResponseInv(s) /\ Sending(s) /\ Turned(s)
      BY TheState DEF ResponseInv
    <2>2. s.stage = "done" /\ ~s.gone /\ n \in SlotsIn(s.sent)
      OBVIOUS
    <2> HIDE DEF s
    <2>3. s.out = <<>> /\ s.sent \in Seq(PieceRecord)
      BY <2>1, <2>2, RangesOfAResponse DEF Sending
    <2>4. Whole(s) = s.sent
      BY <2>3, ConcatEmptySeq DEF Whole
    <2>5. PICK k \in DOMAIN s.slotted : s.slotted[k] = n
      BY <2>1, <2>2, <2>4 DEF RequestInv, SlotsAreOwn
    <2>6. k < s.turn
      <3>1. k \in 1..Len(s.slotted) /\ Len(s.slotted) \in Nat /\ s.turn \in Nat /\ Len(s.slotted) < s.turn
        BY <2>1, <2>2, RangesOfAResponse DEF Turned
      <3> QED
        BY <3>1
    <2>7. Served(s, n)
      BY <2>1, <2>2, <2>5, <2>6 DEF Turned
    <2>8. s.path = "stream"
      <3>1. s.path = "buffered" => s.slotted = <<>>
        BY <2>1 DEF Sending
      <3>2. s.slotted # <<>>
        BY <2>5
      <3> QED
        BY <2>1, <3>1, <3>2 DEF Response
    <2> QED
      BY <2>4, <2>7, <2>8 DEF Served, s
  <1> QED
    BY <1>1, StreamInvariant, PTL
=============================================================================
