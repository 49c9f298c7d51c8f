-------------------------- MODULE NavigationProofs --------------------------
(***************************************************************************)
(* Partial navigation for any site, any history and any order of clicks,   *)
(* history moves, answers and failures: the document is the address's, the *)
(* last navigation wins, and back leads back.                              *)
(***************************************************************************)
EXTENDS Navigation, FiniteSetTheorems, SequenceTheorems, WellFoundedInduction, TLAPS
-----------------------------------------------------------------------------
Entry == [address : Page, document : 1..(MaxHistory + 1)]

FlightRecord ==
  [mine : 1..MaxGeneration, href : Page, push : BOOLEAN, came : Page,
   stage : {"asked", "read"}, target : Page, level : Nat]

NavTypeOK ==
  /\ history \in Seq(Entry) /\ Len(history) \in 1..MaxHistory
  /\ pos \in 1..Len(history)
  /\ document \in [chain : Seq(Layout), page : Page]
  /\ settled \in Page
  /\ generation \in 0..MaxGeneration
  /\ flights \subseteq FlightRecord
  /\ busy \in BOOLEAN /\ astray \in BOOLEAN
  /\ event \in Page

(* Navigations are numbered; the one of the last number is under way, and  *)
(* the place for what it adds to the history is there.                     *)
Numbered ==
  /\ \A f, g \in flights : f.mine = g.mine => f = g
  /\ \A f \in flights :
       /\ f.mine <= generation
       /\ f.mine = generation =>
            /\ busy
            /\ pos < MaxHistory \/ (~f.push /\ f.href = Here)

(* The document is that of the page it was made for, and the navigation    *)
(* under way told the server of that page; so the layouts the answer       *)
(* leaves out are those the document has.                                  *)
Made == document.page = settled /\ (~astray => document = Render(settled))

Told ==
  \A f \in flights :
    /\ f.stage = "read" => f.level = SharedLevel(f.came, f.target)
    /\ f.mine = generation /\ ~astray => f.came = settled /\ (f.push => Here = settled)

(* Nothing is under way: the document is for where the browser is.         *)
Arrived == ~busy /\ ~astray => Here = settled

NavInv == NavTypeOK /\ Numbered /\ Made /\ Told /\ Arrived
-----------------------------------------------------------------------------
(* Sets of numbers have a least one.                                       *)
LEMMA LeastOfSet ==
  ASSUME NEW N, N \subseteq Nat, N # {}
  PROVE  \E m \in N : \A i \in N : m <= i
  <1>1. PICK m \in N : \A i \in N : ~ (<<i, m>> \in OpToRel(<, Nat))
    BY NatLessThanWellFounded, WFMin
  <1>2. \A i \in N : ~ (i < m)
    BY <1>1 DEF OpToRel
  <1> QED
    BY <1>2

(* sharedLevel: as many layouts as it says are the same in both pages.     *)
LEMMA SharedLevelIsShared ==
  ASSUME NEW from \in Page, NEW target \in Page
  PROVE  /\ SharedLevel(from, target) \in 0..Len(LayoutChain[from])
         /\ SharedLevel(from, target) \in 0..Len(LayoutChain[target])
         /\ \A i \in 1..SharedLevel(from, target) : LayoutChain[from][i] = LayoutChain[target][i]
  <1> DEFINE a == LayoutChain[from]
             b == LayoutChain[target]
             common == S!CommonPrefixes({a, b})
             bounds == {k \in Nat : \A p \in common : Len(p) <= k}
  <1>1. a \in Seq(Layout) /\ b \in Seq(Layout)
    BY ChainAssumption
  <1>2. \A p \in common : p \in Seq(Layout) /\ S!IsPrefix(p, a) /\ S!IsPrefix(p, b)
    <2> SUFFICES ASSUME NEW p \in common PROVE p \in Seq(Layout)
      BY DEF S!CommonPrefixes
    <2>1. PICK s \in {a, b} : \E n \in 0..Len(s) : p = SubSeq(s, 1, n)
      BY DEF S!CommonPrefixes, S!Prefixes
    <2> QED
      BY <1>1, <2>1
  <1>3. SubSeq(a, 1, 0) \in common
    <2>1. SubSeq(a, 1, 0) \in S!Prefixes(a)
      BY <1>1 DEF S!Prefixes
    <2>2. SubSeq(a, 1, 0) = <<>> /\ Len(SubSeq(a, 1, 0)) = 0
      BY <1>1
    <2>3. S!IsPrefix(SubSeq(a, 1, 0), a) /\ S!IsPrefix(SubSeq(a, 1, 0), b)
      BY <1>1, <2>2 DEF S!IsPrefix
    <2> QED
      BY <2>1, <2>3 DEF S!CommonPrefixes
  <1>4. PICK m \in bounds : \A k \in bounds : m <= k
    <2>1. \A p \in common : Len(p) <= Len(a)
      BY <1>2 DEF S!IsPrefix
    <2> HIDE DEF common
    <2>2. Len(a) \in bounds
      BY <1>1, <2>1
    <2>3. bounds \subseteq Nat /\ bounds # {}
      BY <2>2
    <2> HIDE DEF bounds
    <2> QED
      BY <2>3, LeastOfSet
  <1>5. \E p \in common : Len(p) = m
    <2> HIDE DEF common
    <2>1. m \in Nat /\ \A p \in common : Len(p) \in Nat /\ Len(p) <= m
      BY <1>2
    <2>2. CASE \A p \in common : Len(p) < m
      <3>1. m - 1 \in Nat
        BY <1>3, <2>1, <2>2
      <3>2. \A p \in common : Len(p) <= m - 1
        BY <2>1, <2>2
      <3>3. m - 1 \in bounds
        BY <3>1, <3>2
      <3>4. m <= m - 1
        BY <1>4, <3>3
      <3> QED
        BY <2>1, <3>4
    <2> QED
      BY <2>1, <2>2
  <1>6. \E p \in common : \A other \in common : Len(other) <= Len(p)
    <2> HIDE DEF common
    <2> QED
      BY <1>4, <1>5
  <1> DEFINE longest == S!LongestCommonPrefix({a, b})
  <1>7. longest \in common
    <2> HIDE DEF common
    <2> QED
      BY <1>6 DEF S!LongestCommonPrefix, common
  <1>8. /\ Len(longest) \in Nat /\ Len(longest) <= Len(a) /\ Len(longest) <= Len(b)
        /\ \A i \in 1..Len(longest) : a[i] = b[i]
    <2> HIDE DEF longest, a, b
    <2>1. /\ longest \in Seq(Layout)
          /\ Len(longest) <= Len(a) /\ SubSeq(longest, 1, Len(longest)) = SubSeq(a, 1, Len(longest))
          /\ Len(longest) <= Len(b) /\ SubSeq(longest, 1, Len(longest)) = SubSeq(b, 1, Len(longest))
      BY <1>2, <1>7 DEF S!IsPrefix
    <2>2. \A i \in 1..Len(longest) : SubSeq(a, 1, Len(longest))[i] = a[i]
                                     /\ SubSeq(b, 1, Len(longest))[i] = b[i]
      BY <1>1, <2>1
    <2> QED
      BY <2>1, <2>2
  <1>9. SharedLevel(from, target) = Len(longest)
    BY DEF SharedLevel
  <1> HIDE DEF longest
  <1> QED
    BY <1>1, <1>8, <1>9

(* Swapped: what an outlet of a shared level is filled with makes a whole  *)
(* document.                                                               *)
LEMMA SwappedIsWhole ==
  ASSUME NEW from \in Page, NEW target \in Page, document.chain = LayoutChain[from]
  PROVE  Swapped(SharedLevel(from, target), target) = Render(target)
  <1> DEFINE n == SharedLevel(from, target)
             a == LayoutChain[from]
             b == LayoutChain[target]
  <1>1. n \in 0..Len(a) /\ n \in 0..Len(b) /\ \A i \in 1..n : a[i] = b[i]
    BY SharedLevelIsShared
  <1>2. a \in Seq(Layout) /\ b \in Seq(Layout)
    BY ChainAssumption
  <1> HIDE DEF n, a, b
  <1>3. SubSeq(a, 1, n) = SubSeq(b, 1, n)
    BY <1>1, <1>2
  <1>4. SubSeq(b, 1, n) \o SubSeq(b, n + 1, Len(b)) = SubSeq(b, 1, Len(b))
    <2>1. 1 \in 1..(Len(b) + 1) /\ n \in (1 - 1)..Len(b) /\ Len(b) \in n..Len(b)
      BY <1>1, <1>2
    <2> QED
      BY <1>2, <2>1, ConcatAdjacentSubSeq
  <1>5. SubSeq(b, 1, Len(b)) = b
    BY <1>2, SubSeqFull
  <1> QED
    BY <1>3, <1>4, <1>5 DEF Swapped, Render, n, a, b

LEMMA SwappedIsADocument ==
  ASSUME NavTypeOK, NEW target \in Page, NEW level \in Nat,
         level <= Len(document.chain), level <= Len(LayoutChain[target])
  PROVE  Swapped(level, target) \in [chain : Seq(Layout), page : Page]
  <1>1. document.chain \in Seq(Layout) /\ LayoutChain[target] \in Seq(Layout)
    BY ChainAssumption DEF NavTypeOK
  <1>2. SubSeq(document.chain, 1, level) \in Seq(Layout)
    BY <1>1
  <1>3. SubSeq(LayoutChain[target], level + 1, Len(LayoutChain[target])) \in Seq(Layout)
    BY <1>1
  <1> QED
    BY <1>2, <1>3 DEF Swapped

(* A document that is loaded has a number of its own: there are more       *)
(* numbers than entries.                                                   *)
LEMMA NewDocumentIsNew ==
  ASSUME NavTypeOK
  PROVE  /\ NewDocument \in 1..(MaxHistory + 1)
         /\ \A i \in DOMAIN history : history[i].document # NewDocument
  <1> DEFINE used(d) == \E i \in DOMAIN history : history[i].document = d
             numbers == 1..(MaxHistory + 1)
             places == 1..Len(history)
  <1>1. DOMAIN history = places /\ Len(history) \in Nat /\ Len(history) <= MaxHistory /\ MaxHistory \in Nat
    BY BoundsAssumption DEF NavTypeOK
  <1>2. \E d \in numbers : ~ used(d)
    <2> SUFFICES ASSUME \A d \in numbers : used(d) PROVE FALSE
      OBVIOUS
    <2> DEFINE at == [d \in numbers |-> CHOOSE i \in DOMAIN history : history[i].document = d]
    <2>1. \A d \in numbers : at[d] \in DOMAIN history /\ history[at[d]].document = d
      OBVIOUS
    <2>2. at \in [numbers -> places]
      BY <1>1, <2>1
    <2> HIDE DEF at
    <2>3. /\ IsFiniteSet(numbers) /\ Cardinality(numbers) = MaxHistory + 1
          /\ IsFiniteSet(places) /\ Cardinality(places) = Len(history)
      <3>1. \A n \in Nat : IsFiniteSet(1..n) /\ Cardinality(1..n) = n
        BY FS_Interval
      <3> QED
        BY <1>1, <3>1
    <2>4. Cardinality(places) < Cardinality(numbers)
      BY <1>1, <2>3
    <2> HIDE DEF numbers, places
    <2>5. \E c, d \in numbers : c # d /\ at[c] = at[d]
      BY <2>2, <2>3, <2>4, FS_PigeonHole
    <2> QED
      BY <2>1, <2>5
  <1> QED
    BY <1>2 DEF NewDocument
-----------------------------------------------------------------------------
LEMMA HereIsAPage == ASSUME NavTypeOK PROVE history[pos] \in Entry /\ Here \in Page
  <1>1. history[pos] \in Entry
    BY DEF NavTypeOK
  <1> QED
    BY <1>1 DEF Here, Entry

(* A load starts anew.                                                     *)
LEMMA LoadStartsAnew ==
  ASSUME NEW entries \in Seq(Entry), Len(entries) \in 1..MaxHistory,
         NEW i \in 1..Len(entries), Load(entries, i)
  PROVE  NavInv'
  <1>1. entries[i].address \in Page
    <2>1. entries[i] \in Entry
      OBVIOUS
    <2> QED
      BY <2>1 DEF Entry
  <1>2. LayoutChain[entries[i].address] \in Seq(Layout)
    BY <1>1, ChainAssumption
  <1>3. NavTypeOK'
    <2>1. document' \in [chain : Seq(Layout), page : Page]
      BY <1>1, <1>2 DEF Load, Render
    <2>2. /\ history' = entries /\ pos' = i /\ settled' = entries[i].address /\ generation' = 0
          /\ flights' = {} /\ busy' = FALSE /\ event' = Elsewhere /\ astray' = FALSE
      BY DEF Load
    <2>3. /\ history' \in Seq(Entry) /\ Len(history') \in 1..MaxHistory /\ pos' \in 1..Len(history')
      BY <2>2
    <2>4. settled' \in Page /\ event' \in Page /\ generation' \in 0..MaxGeneration
      BY <1>1, <2>2, PageAssumption, BoundsAssumption
    <2> QED
      BY <2>1, <2>2, <2>3, <2>4 DEF NavTypeOK
  <1>4. Here' = settled'
    BY DEF Load, Here
  <1>5. Numbered' /\ Made' /\ Told'
    BY DEF Load, Numbered, Made, Told, Render
  <1> QED
    BY <1>3, <1>4, <1>5 DEF NavInv, Arrived

LEMMA ReloadStartsAnew == ASSUME NavInv, Reload PROVE NavInv'
  <1> PICK target \in {Here, Elsewhere} : Load([history EXCEPT ![pos].address = target], pos)
    BY DEF Reload
  <1> DEFINE entry == [history[pos] EXCEPT !.address = target]
             entries == [history EXCEPT ![pos] = entry]
  <1>1. entry \in Entry
    BY HereIsAPage, PageAssumption DEF NavInv, Entry
  <1>2. entries \in Seq(Entry) /\ Len(entries) = Len(history)
    <2> HIDE DEF entry
    <2> QED
      BY <1>1 DEF NavInv, NavTypeOK
  <1>3. Load(entries, pos)
    OBVIOUS
  <1> HIDE DEF entries
  <1> QED
    BY <1>2, <1>3, LoadStartsAnew DEF NavInv, NavTypeOK

LEMMA LoadAddressStartsAnew ==
  ASSUME NavInv, NEW href \in Page, pos < MaxHistory \/ href = Here, LoadAddress(href)
  PROVE  NavInv'
  <1> PICK target \in {href, Elsewhere} :
        LET entry == [address |-> target, document |-> NewDocument]
        IN  IF href = Here
            THEN Load([history EXCEPT ![pos] = entry], pos)
            ELSE Load(Append(SubSeq(history, 1, pos), entry), pos + 1)
    BY DEF LoadAddress
  <1> DEFINE entry == [address |-> target, document |-> NewDocument]
  <1>1. entry \in Entry
    BY NewDocumentIsNew, PageAssumption DEF NavInv, Entry
  <1> HIDE DEF entry
  <1>2. CASE href = Here
    <2> DEFINE entries == [history EXCEPT ![pos] = entry]
    <2>1. entries \in Seq(Entry) /\ Len(entries) = Len(history)
      BY <1>1 DEF NavInv, NavTypeOK
    <2>2. Load(entries, pos)
      BY <1>2 DEF entry
    <2> HIDE DEF entries
    <2> QED
      BY <2>1, <2>2, LoadStartsAnew DEF NavInv, NavTypeOK
  <1>3. CASE href # Here
    <2> DEFINE entries == Append(SubSeq(history, 1, pos), entry)
    <2>1. entries \in Seq(Entry) /\ Len(entries) = pos + 1
      BY <1>1, BoundsAssumption DEF NavInv, NavTypeOK
    <2>2. pos + 1 \in 1..MaxHistory /\ pos + 1 \in 1..Len(entries)
      BY <1>3, <2>1, BoundsAssumption DEF NavInv, NavTypeOK
    <2>3. Load(entries, pos + 1)
      BY <1>3 DEF entry
    <2> HIDE DEF entries
    <2> QED
      BY <2>1, <2>2, <2>3, LoadStartsAnew
  <1> QED
    BY <1>2, <1>3

(* A navigation begins: its number is new.                                 *)
LEMMA ANumberIsGiven ==
  ASSUME NavInv, NEW href \in Page, NEW push \in BOOLEAN, NEW came \in Page,
         Go(href, push, came)
  PROVE  /\ generation' = generation + 1 /\ generation' \in 0..MaxGeneration
         /\ flights' \subseteq FlightRecord /\ busy' /\ busy' \in BOOLEAN /\ event' \in Page
         /\ \A f \in flights' :
              \/ f \in flights /\ f.mine < generation'
              \/ f = Flight(generation', href, push, came)
  <1> USE BoundsAssumption, PageAssumption DEF NavInv, NavTypeOK, Go
  <1>1. generation' = generation + 1 /\ generation' \in 1..MaxGeneration
    OBVIOUS
  <1>2. Flight(generation', href, push, came) \in FlightRecord
    BY <1>1 DEF Flight, FlightRecord
  <1>3. \A f \in flights : f.mine <= generation /\ f.mine \in Nat
    BY DEF Numbered, FlightRecord
  <1> QED
    BY <1>1, <1>2, <1>3

LEMMA GoKeepsNumbers ==
  ASSUME NavInv, NEW href \in Page, NEW push \in BOOLEAN, NEW came \in Page,
         Go(href, push, came), pos' < MaxHistory \/ (~push /\ href = Here')
  PROVE  Numbered'
  <1>1. \A f \in flights' : \/ f \in flights /\ f.mine < generation'
                            \/ f = Flight(generation', href, push, came)
    BY ANumberIsGiven
  <1>2. Flight(generation', href, push, came).mine = generation'
        /\ Flight(generation', href, push, came).push = push
        /\ Flight(generation', href, push, came).href = href
    BY DEF Flight
  <1>3. busy' /\ generation' \in Nat /\ \A f \in flights : f.mine \in Nat
    BY ANumberIsGiven DEF NavInv, NavTypeOK, FlightRecord
  <1>4. \A f, g \in flights' : f.mine = g.mine => f = g
    BY <1>1, <1>2, <1>3 DEF NavInv, Numbered
  <1> HIDE DEF Flight
  <1> QED
    BY <1>1, <1>2, <1>3, <1>4 DEF Numbered

LEMMA ClickKeeps == ASSUME NavInv, NEW href \in Page, Click(href) PROVE NavInv'
  <1>1. Here \in Page /\ Here' = Here /\ UNCHANGED <<history, pos, document, settled>>
    BY HereIsAPage DEF NavInv, Click, Here
  <1>2. Go(href, TRUE, Here) /\ pos' < MaxHistory
    BY <1>1 DEF Click
  <1>3. astray' = (astray \/ Here # settled)
    BY DEF Click
  <1>4. /\ generation' = generation + 1 /\ generation' \in 0..MaxGeneration
        /\ flights' \subseteq FlightRecord /\ busy' /\ busy' \in BOOLEAN /\ event' \in Page
        /\ \A f \in flights' : \/ f \in flights /\ f.mine < generation'
                               \/ f = Flight(generation', href, TRUE, Here)
    BY <1>1, <1>2, ANumberIsGiven
  <1>5. NavTypeOK'
    BY <1>1, <1>3, <1>4 DEF NavInv, NavTypeOK
  <1>6. Numbered'
    BY <1>1, <1>2, GoKeepsNumbers
  <1>7. Made'
    BY <1>1, <1>3 DEF NavInv, Made, Render
  <1>8. Told'
    <2> SUFFICES ASSUME NEW f \in flights'
                 PROVE  /\ f.stage = "read" => f.level = SharedLevel(f.came, f.target)
                        /\ f.mine = generation' /\ ~astray' => f.came = settled' /\ (f.push => Here' = settled')
      BY DEF Told
    <2>1. CASE f \in flights /\ f.mine < generation'
      BY <1>4, <2>1 DEF NavInv, NavTypeOK, FlightRecord, Told
    <2>2. CASE f = Flight(generation', href, TRUE, Here)
      BY <1>1, <1>3, <2>2 DEF Flight, NavInv, NavTypeOK
    <2> QED
      BY <1>4, <2>1, <2>2
  <1> QED
    BY <1>4, <1>5, <1>6, <1>7, <1>8 DEF NavInv, Arrived

LEMMA PopKeeps == ASSUME NavInv, NEW i \in DOMAIN history, Pop(i) PROVE NavInv'
  <1>1. i \in 1..Len(history) /\ history[i].address \in Page /\ settled \in Page
    <2>1. history[i] \in Entry /\ i \in 1..Len(history) /\ settled \in Page
      BY DEF NavInv, NavTypeOK
    <2> QED
      BY <2>1 DEF Entry
  <1>2. /\ pos' = i /\ UNCHANGED <<history, document, settled, astray>>
        /\ Here' = history[i].address
        /\ Go(history[i].address, FALSE, settled)
    BY DEF Pop, Here
  <1>3. /\ generation' = generation + 1 /\ generation' \in 0..MaxGeneration
        /\ flights' \subseteq FlightRecord /\ busy' /\ busy' \in BOOLEAN /\ event' \in Page
        /\ \A f \in flights' : \/ f \in flights /\ f.mine < generation'
                               \/ f = Flight(generation', history[i].address, FALSE, settled)
    BY <1>1, <1>2, ANumberIsGiven
  <1>4. NavTypeOK'
    BY <1>1, <1>2, <1>3 DEF NavInv, NavTypeOK
  <1>5. Numbered'
    BY <1>1, <1>2, GoKeepsNumbers
  <1>6. Made'
    BY <1>2 DEF NavInv, Made, Render
  <1>7. Told'
    <2> SUFFICES ASSUME NEW f \in flights'
                 PROVE  /\ f.stage = "read" => f.level = SharedLevel(f.came, f.target)
                        /\ f.mine = generation' /\ ~astray' => f.came = settled' /\ (f.push => Here' = settled')
      BY DEF Told
    <2>1. CASE f \in flights /\ f.mine < generation'
      BY <1>3, <2>1 DEF NavInv, NavTypeOK, FlightRecord, Told
    <2>2. CASE f = Flight(generation', history[i].address, FALSE, settled)
      BY <1>2, <2>2 DEF Flight
    <2> QED
      BY <1>3, <2>1, <2>2
  <1> QED
    BY <1>3, <1>4, <1>5, <1>6, <1>7 DEF NavInv, Arrived

LEMMA PopIgnoredKeeps == ASSUME NavInv, NEW i \in DOMAIN history, PopIgnored(i) PROVE NavInv'
  <1>1. i \in 1..Len(history)
    BY DEF NavInv, NavTypeOK
  <1>2. /\ pos' = i /\ UNCHANGED <<history, document, settled, generation, flights, busy, event, astray>>
        /\ Here' = settled /\ (busy => pos' < MaxHistory)
    BY DEF PopIgnored, Here
  <1>3. NavTypeOK'
    BY <1>1, <1>2 DEF NavInv, NavTypeOK
  <1>4. Numbered'
    BY <1>2 DEF NavInv, Numbered
  <1>5. Made' /\ Told'
    BY <1>2 DEF NavInv, Made, Told, Render
  <1> QED
    BY <1>2, <1>3, <1>4, <1>5 DEF NavInv, Arrived

LEMMA PopElsewhereStartsAnew == ASSUME NavInv, NEW i \in DOMAIN history, PopElsewhere(i) PROVE NavInv'
  BY LoadStartsAnew DEF NavInv, NavTypeOK, PopElsewhere

LEMMA DropKeeps == ASSUME NavInv, NEW f \in flights, Drop(f) PROVE NavInv'
  <1>1. /\ UNCHANGED <<history, pos, document, settled, generation, busy, event, astray>>
        /\ flights' \subseteq flights /\ Here' = Here
    BY DEF Drop, Here
  <1> QED
    <2>1. NavTypeOK'
      BY <1>1 DEF NavInv, NavTypeOK
    <2>2. Numbered' /\ Told'
      BY <1>1 DEF NavInv, Numbered, Told
    <2>3. Made' /\ Arrived'
      BY <1>1 DEF NavInv, Made, Render, Arrived
    <2> QED
      BY <2>1, <2>2, <2>3 DEF NavInv

LEMMA AnsweredFlight ==
  ASSUME NEW f \in FlightRecord, NEW target, NEW level
  PROVE  [f EXCEPT !.stage = "read", !.target = target, !.level = level] =
           [mine |-> f.mine, href |-> f.href, push |-> f.push, came |-> f.came,
            stage |-> "read", target |-> target, level |-> level]
  <1> DEFINE read == [mine |-> f.mine, href |-> f.href, push |-> f.push, came |-> f.came,
                      stage |-> "read", target |-> f.target, level |-> f.level]
             led == [mine |-> f.mine, href |-> f.href, push |-> f.push, came |-> f.came,
                     stage |-> "read", target |-> target, level |-> f.level]
  <1>1. [f EXCEPT !.stage = "read"] = read
    BY DEF FlightRecord
  <1>2. [read EXCEPT !.target = target] = led
    OBVIOUS
  <1>3. [led EXCEPT !.level = level] =
          [mine |-> f.mine, href |-> f.href, push |-> f.push, came |-> f.came,
           stage |-> "read", target |-> target, level |-> level]
    OBVIOUS
  <1>4. [f EXCEPT !.stage = "read", !.target = target, !.level = level] =
          [[[f EXCEPT !.stage = "read"] EXCEPT !.target = target] EXCEPT !.level = level]
    OBVIOUS
  <1> HIDE DEF read, led
  <1> QED
    BY <1>1, <1>2, <1>3, <1>4

LEMMA AnswerKeeps == ASSUME NavInv, NEW f \in flights, Answer(f) PROVE NavInv'
  <1> PICK target \in {f.href, Elsewhere} :
        /\ f.stage = "asked"
        /\ f.mine = generation
        /\ flights' = (flights \ {f}) \cup
             {[f EXCEPT !.stage = "read", !.target = target, !.level = SharedLevel(f.came, target)]}
        /\ UNCHANGED <<history, pos, document, settled, generation, busy, event, astray>>
    BY DEF Answer
  <1> DEFINE g == [f EXCEPT !.stage = "read", !.target = target, !.level = SharedLevel(f.came, target)]
  <1>1. f \in FlightRecord /\ target \in Page
    BY PageAssumption DEF NavInv, NavTypeOK, FlightRecord
  <1>2. SharedLevel(f.came, target) \in Nat
    <2>1. f.came \in Page
      BY <1>1 DEF FlightRecord
    <2>2. LayoutChain[target] \in Seq(Layout)
      BY <1>1, ChainAssumption
    <2> QED
      BY <1>1, <2>1, <2>2, SharedLevelIsShared
  <1>3. g = [mine |-> f.mine, href |-> f.href, push |-> f.push, came |-> f.came,
             stage |-> "read", target |-> target, level |-> SharedLevel(f.came, target)]
    BY <1>1, AnsweredFlight
  <1> HIDE DEF g
  <1>4. flights' \subseteq flights \cup {g} /\ g \in FlightRecord /\ (\A h \in flights' : h # g => h \in flights /\ h # f)
    BY <1>1, <1>2, <1>3 DEF FlightRecord, g
  <1>5. Here' = Here
    BY DEF Here
  <1>6. NavTypeOK'
    BY <1>4 DEF NavInv, NavTypeOK
  <1>7. Numbered'
    <2>1. g.mine = f.mine /\ g.push = f.push /\ g.href = f.href
      BY <1>3
    <2>2. \A h, k \in flights' : h.mine = k.mine => h = k
      BY <1>4, <2>1 DEF NavInv, Numbered
    <2>3. \A h \in flights' : h.mine <= generation'
      BY <1>4, <2>1 DEF NavInv, Numbered
    <2>4. \A h \in flights' : h.mine = generation' => busy' /\ (pos' < MaxHistory \/ (~h.push /\ h.href = Here'))
      BY <1>4, <1>5, <2>1 DEF NavInv, Numbered
    <2> QED
      BY <2>2, <2>3, <2>4 DEF Numbered
  <1>8. Told'
    <2>1. g.mine = f.mine /\ g.push = f.push /\ g.came = f.came /\ g.level = SharedLevel(g.came, g.target)
      BY <1>3
    <2>2. \A h \in flights' : h.stage = "read" => h.level = SharedLevel(h.came, h.target)
      BY <1>4, <2>1 DEF NavInv, Told
    <2>3. \A h \in flights' : h.mine = generation' /\ ~astray' =>
             h.came = settled' /\ (h.push => Here' = settled')
      BY <1>4, <1>5, <2>1 DEF NavInv, Told
    <2> QED
      BY <2>2, <2>3 DEF Told
  <1>9. Made' /\ Arrived'
    BY <1>5 DEF NavInv, Made, Render, Arrived
  <1> QED
    BY <1>6, <1>7, <1>8, <1>9 DEF NavInv

(* The swap: what the server sent completes what the document has.         *)
LEMMA ArriveKeeps == ASSUME NavInv, NEW f \in flights, Arrive(f) PROVE NavInv'
  <1>1. f \in FlightRecord /\ f.came \in Page /\ f.target \in Page /\ f.level \in Nat
    BY DEF NavInv, NavTypeOK, FlightRecord
  <1>2. f.level = SharedLevel(f.came, f.target) /\ (~astray => f.came = settled)
    BY DEF NavInv, Told, Arrive
  <1>3. /\ document' = Swapped(f.level, f.target) /\ settled' = f.target
        /\ flights' = flights \ {f} /\ busy' = FALSE /\ event' = f.came
        /\ generation' = generation /\ f.mine = generation
        /\ astray' = (astray \/ (~f.push /\ f.target # Here))
    BY DEF Arrive
  <1>4. document' \in [chain : Seq(Layout), page : Page]
    <2>1. f.level <= Len(LayoutChain[f.target])
      <3>1. LayoutChain[f.target] \in Seq(Layout)
        BY <1>1, ChainAssumption
      <3> QED
        BY <1>1, <1>2, <3>1, SharedLevelIsShared
    <2>2. f.level <= Len(document.chain)
      BY DEF Arrive, HasOutlet
    <2> QED
      BY <1>1, <1>3, <2>1, <2>2, SwappedIsADocument DEF NavInv
  <1>5. document'.page = f.target
    BY <1>3 DEF Swapped
  <1>6. ~astray => document' = Render(f.target)
    <2>1. ~astray => document.chain = LayoutChain[f.came]
      BY <1>2 DEF NavInv, Made, Render
    <2> QED
      BY <1>1, <1>2, <1>3, <2>1, SwappedIsWhole
  <1>7. /\ history' \in Seq(Entry) /\ Len(history') \in 1..MaxHistory /\ pos' \in 1..Len(history')
        /\ f.push => Here' = f.target
        /\ ~f.push => Here' = Here
    <2>1. CASE f.push
      <3> DEFINE entry == [address |-> f.target, document |-> history[pos].document]
      <3>1. entry \in Entry
        <4>1. history[pos] \in Entry
          BY HereIsAPage DEF NavInv
        <4> QED
          BY <1>1, <4>1 DEF Entry
      <3>2. history' = Append(SubSeq(history, 1, pos), entry) /\ pos' = pos + 1
        BY <2>1 DEF Arrive
      <3>3. pos < MaxHistory
        BY <1>3, <2>1 DEF NavInv, Numbered
      <3>4. entry.address = f.target
        OBVIOUS
      <3> HIDE DEF entry
      <3>5. SubSeq(history, 1, pos) \in Seq(Entry) /\ Len(SubSeq(history, 1, pos)) = pos /\ pos \in Nat
        BY DEF NavInv, NavTypeOK
      <3>6. history' \in Seq(Entry) /\ Len(history') = pos + 1 /\ history'[pos + 1] = entry
        BY <3>1, <3>2, <3>5
      <3> QED
        BY <2>1, <3>2, <3>3, <3>4, <3>5, <3>6, BoundsAssumption DEF Here
    <2>2. CASE ~f.push
      <3>1. UNCHANGED <<history, pos>>
        BY <2>2 DEF Arrive
      <3> QED
        BY <2>2, <3>1 DEF NavInv, NavTypeOK, Here
    <2> QED
      BY <2>1, <2>2
  <1>8. NavTypeOK'
    <2>1. flights' \subseteq FlightRecord /\ busy' \in BOOLEAN /\ astray' \in BOOLEAN
          /\ generation' \in 0..MaxGeneration /\ settled' \in Page /\ event' \in Page
      BY <1>1, <1>3 DEF NavInv, NavTypeOK
    <2> QED
      BY <1>4, <1>7, <2>1 DEF NavTypeOK
  <1>9. \A g \in flights' : g \in flights /\ g.mine # generation'
    BY <1>3 DEF NavInv, Numbered
  <1>10. Numbered'
    BY <1>3, <1>9 DEF NavInv, Numbered
  <1>11. Told'
    BY <1>9 DEF NavInv, Told
  <1>12. Made'
    BY <1>3, <1>5, <1>6 DEF Made, Render
  <1>13. Arrived'
    BY <1>3, <1>7 DEF Arrived
  <1> QED
    BY <1>8, <1>10, <1>11, <1>12, <1>13 DEF NavInv

LEMMA FailStartsAnew == ASSUME NavInv, NEW f \in flights, Fail(f) PROVE NavInv'
  <1>1. f.href \in Page /\ LoadAddress(f.href) /\ f.mine = generation
    BY DEF NavInv, NavTypeOK, FlightRecord, Fail
  <1>2. pos < MaxHistory \/ f.href = Here
    BY <1>1 DEF NavInv, Numbered
  <1> QED
    BY <1>1, <1>2, LoadAddressStartsAnew

LEMMA NavInitially == ASSUME Init PROVE NavInv
  <1> PICK p \in Page : /\ history = <<[address |-> p, document |-> 1]>>
                        /\ document = Render(p)
                        /\ settled = p
    BY DEF Init
  <1> DEFINE entry == [address |-> p, document |-> 1]
  <1>1. entry \in Entry
    BY BoundsAssumption DEF Entry
  <1>2. document \in [chain : Seq(Layout), page : Page]
    BY ChainAssumption DEF Render
  <1>3. entry.address = p
    OBVIOUS
  <1> HIDE DEF entry
  <1>4. history = <<entry>>
    BY DEF entry
  <1>5. history \in Seq(Entry) /\ Len(history) = 1 /\ history[1] = entry
    BY <1>1, <1>4
  <1>6. NavTypeOK
    <2>1. pos = 1 /\ generation = 0 /\ flights = {} /\ busy = FALSE /\ astray = FALSE /\ event = Elsewhere
      BY DEF Init
    <2>2. 1 \in 1..MaxHistory /\ 0 \in 0..MaxGeneration
      BY BoundsAssumption
    <2>3. settled \in Page /\ event \in Page
      BY <2>1, PageAssumption
    <2>4. pos \in 1..Len(history) /\ Len(history) \in 1..MaxHistory
      BY <1>5, <2>1, <2>2
    <2> QED
      BY <1>2, <1>5, <2>1, <2>2, <2>3, <2>4 DEF NavTypeOK
  <1>7. Numbered /\ Told
    BY DEF Init, Numbered, Told
  <1>8. Made /\ Arrived
    BY <1>3, <1>5 DEF Init, Made, Render, Arrived, Here
  <1> QED
    BY <1>6, <1>7, <1>8 DEF NavInv

LEMMA NavStutters == ASSUME NavInv, UNCHANGED vars PROVE NavInv'
  BY DEF vars, NavInv, NavTypeOK, Numbered, Made, Told, Arrived, Here, Render

LEMMA NavInductive == ASSUME NavInv, [Next]_vars PROVE NavInv'
  BY ReloadStartsAnew, ClickKeeps, PopKeeps, PopIgnoredKeeps, PopElsewhereStartsAnew,
     AnswerKeeps, ArriveKeeps, FailStartsAnew, DropKeeps, NavStutters DEF Next, End

LEMMA NavInvariant == Spec => []NavInv
  <1>1. Init => NavInv
    BY NavInitially
  <1>2. NavInv /\ [Next]_vars => NavInv'
    BY NavInductive
  <1> QED
    BY <1>1, <1>2, PTL DEF Spec
-----------------------------------------------------------------------------
(* When no navigation is under way the document is the one a load of the   *)
(* address would give (go and swap of runtime.ts, partialPage of           *)
(* partial.go), unless the code went astray.                               *)
THEOREM TheDocumentIsTheAddress == Spec => []DocumentIsTheAddress
  <1>1. NavInv => DocumentIsTheAddress
    BY DEF NavInv, Made, Arrived, DocumentIsTheAddress
  <1> QED
    BY <1>1, NavInvariant, PTL

(* While a document lives, only the end of the last navigation changes it, *)
(* and it names the page that was shown until then (go, its generation).   *)
THEOREM TheLastNavigationWins == Spec => LastNavigationWins
  <1> DEFINE Wins ==
        generation > 0 /\ generation' = generation /\ document' # document =>
          /\ \E f \in flights : f.mine = generation /\ f \notin flights'
          /\ ~astray => event' = document.page
  <1>1. ASSUME NavInv, [Next]_vars PROVE [Wins]_vars
    <2> SUFFICES ASSUME generation > 0, generation' = generation, document' # document, Next
                 PROVE  /\ \E f \in flights : f.mine = generation /\ f \notin flights'
                        /\ ~astray => event' = document.page
      BY <1>1 DEF vars
    <2>1. \E f \in flights : Arrive(f)
      <3>1. ~ \E entries, i : Load(entries, i)
        BY DEF Load
      <3>2. ~Reload /\ \A i : ~PopElsewhere(i) /\ \A f : ~Fail(f)
        BY <3>1 DEF Reload, PopElsewhere, Fail, LoadAddress
      <3>3. /\ \A p : ~Click(p)
            /\ \A i : ~Pop(i) /\ ~PopIgnored(i)
            /\ \A f : ~Answer(f) /\ ~Drop(f)
        BY DEF Click, Pop, PopIgnored, Answer, Drop
      <3> QED
        BY <3>2, <3>3 DEF Next, End
    <2> PICK f \in flights : Arrive(f)
      BY <2>1
    <2>2. f.mine = generation /\ f \notin flights' /\ event' = f.came
      BY DEF Arrive
    <2>3. ~astray => f.came = document.page
      <3>1. Told /\ Made
        BY <1>1 DEF NavInv
      <3>2. ~astray => f.came = settled
        BY <2>2, <3>1 DEF Told
      <3> QED
        BY <3>1, <3>2 DEF Made
    <2> QED
      BY <2>2, <2>3
  <1> QED
    BY <1>1, NavInvariant, PTL DEF Spec, LastNavigationWins

(* Only a click adds to the history of a document, and the way back from   *)
(* what it adds is to the page the visitor clicked on (go, pushState).     *)
THEOREM TheWayBack == Spec => BackLeadsBack
  <1> DEFINE Back ==
        ~astray /\ pos' = pos + 1 /\ document' # document
          /\ history'[pos'].document = history[pos].document /\ history' # history =>
          /\ history'[pos].address = document.page
          /\ \E f \in flights : f.mine = generation /\ f.push
  <1>1. ASSUME NavInv, [Next]_vars PROVE [Back]_vars
    <2> SUFFICES ASSUME ~astray, pos' = pos + 1, document' # document,
                        history'[pos'].document = history[pos].document, history' # history, Next
                 PROVE  /\ history'[pos].address = document.page
                        /\ \E f \in flights : f.mine = generation /\ f.push
      BY <1>1 DEF vars
    <2> NavTypeOK /\ Told /\ Made
      BY <1>1 DEF NavInv
    <2>1. pos \in Nat /\ pos \in DOMAIN history /\ history \in Seq(Entry) /\ pos \in 1..Len(history)
      <3>1. history \in Seq(Entry) /\ pos \in 1..Len(history)
        BY DEF NavTypeOK
      <3> QED
        BY <3>1
    <2>2. ASSUME NEW href, LoadAddress(href) PROVE FALSE
      <3> PICK target \in {href, Elsewhere} :
            LET entry == [address |-> target, document |-> NewDocument]
            IN  IF href = Here
                THEN Load([history EXCEPT ![pos] = entry], pos)
                ELSE Load(Append(SubSeq(history, 1, pos), entry), pos + 1)
        BY <2>2 DEF LoadAddress
      <3> DEFINE entry == [address |-> target, document |-> NewDocument]
      <3>1. href # Here
        BY <2>1 DEF Load
      <3>2. history' = Append(SubSeq(history, 1, pos), entry)
        BY <3>1 DEF Load
      <3>3. entry.document = NewDocument
        OBVIOUS
      <3> HIDE DEF entry
      <3>4. SubSeq(history, 1, pos) \in Seq(Entry) /\ Len(SubSeq(history, 1, pos)) = pos
        BY <2>1
      <3>5. history'[pos + 1] = entry
        BY <2>1, <3>2, <3>4
      <3>6. history[pos].document # NewDocument
        BY <2>1, NewDocumentIsNew
      <3> QED
        BY <3>3, <3>5, <3>6
    <2>3. ~Reload
      BY <2>1 DEF Reload, Load
    <2>4. \A i : ~PopElsewhere(i)
      BY DEF PopElsewhere, Load
    <2>5. /\ \A p : ~Click(p)
          /\ \A i : ~Pop(i) /\ ~PopIgnored(i)
          /\ \A f : ~Answer(f) /\ ~Drop(f)
      BY DEF Click, Pop, PopIgnored, Answer, Drop
    <2>6. PICK f \in flights : Arrive(f)
      BY <2>2, <2>3, <2>4, <2>5 DEF Next, End, Fail
    <2>7. f.push /\ f.mine = generation
      BY <2>6 DEF Arrive
    <2>8. Here = document.page
      <3>1. f.came = settled /\ Here = settled
        BY <2>7 DEF Told
      <3> QED
        BY <3>1 DEF Made
    <2>9. history' = Append(SubSeq(history, 1, pos),
                            [address |-> f.target, document |-> history[pos].document])
      BY <2>6, <2>7 DEF Arrive
    <2>10. history'[pos] = history[pos]
      <3> DEFINE entry == [address |-> f.target, document |-> history[pos].document]
      <3>1. entry \in Entry
        <4>1. f.target \in Page /\ history[pos] \in Entry
          <5>1. f \in FlightRecord
            BY DEF NavTypeOK
          <5>2. f.target \in Page
            BY <5>1 DEF FlightRecord
          <5> QED
            BY <2>1, <5>2
        <4> QED
          BY <4>1 DEF Entry
      <3>2. history' = Append(SubSeq(history, 1, pos), entry)
        BY <2>9
      <3> HIDE DEF entry
      <3>3. SubSeq(history, 1, pos) \in Seq(Entry) /\ Len(SubSeq(history, 1, pos)) = pos
            /\ SubSeq(history, 1, pos)[pos] = history[pos]
        BY <2>1
      <3> QED
        BY <2>1, <3>1, <3>2, <3>3
    <2> QED
      BY <2>7, <2>8, <2>10 DEF Here
  <1> QED
    BY <1>1, NavInvariant, PTL DEF Spec, BackLeadsBack
=============================================================================
