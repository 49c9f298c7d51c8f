---------------------------- MODULE ServerProofs ----------------------------
(***************************************************************************)
(* The sitemap of any site: a document tells the site as it is, and a      *)
(* crawler that reads them all reads every page once.  The addresses of any*)
(* site: a page is served at one spelling.                                 *)
(***************************************************************************)
EXTENDS MCServer, SequenceTheorems, FiniteSetTheorems, WellFoundedInduction, TLAPS
-----------------------------------------------------------------------------
(* Lists, and their concatenation.                                         *)
LEMMA ListHas ==
  ASSUME NEW q, IsList(q)
  PROVE  Len(q) \in Nat /\ DOMAIN q = 1..Len(q)
BY DEF IsList

LEMMA FunctionIsList ==
  ASSUME NEW n \in Nat, NEW T, NEW q \in [1..n -> T]
  PROVE  IsList(q) /\ Len(q) = n
<1>1. q \in Seq(T) /\ Len(q) = n
  OBVIOUS
<1> DEFINE E == {q[i] : i \in DOMAIN q}
<1>2. q \in [1..n -> E]
  OBVIOUS
<1> HIDE DEF E
<1>3. q \in Seq(E)
  BY <1>2
<1> QED
  BY <1>1, <1>3 DEF IsList, E

LEMMA ElementsOfList ==
  ASSUME NEW q, IsList(q), NEW T, \A i \in 1..Len(q) : q[i] \in T
  PROVE  q \in Seq(T)
BY ListHas, SeqMonotonic DEF IsList

LEMMA ListsAreEqual ==
  ASSUME NEW a, NEW b, IsList(a), IsList(b), Len(a) = Len(b), \A i \in 1..Len(a) : a[i] = b[i]
  PROVE  a = b
<1>1. b \in Seq({b[i] : i \in DOMAIN b}) /\ a \in Seq({b[i] : i \in DOMAIN b})
  BY ElementsOfList, ListHas DEF IsList
<1> QED
  BY <1>1, SeqEqual

LEMMA Concatenated ==
  ASSUME NEW a, NEW b, IsList(a), IsList(b)
  PROVE  /\ IsList(a \o b) /\ Len(a \o b) = Len(a) + Len(b)
         /\ \A i \in 1..Len(a) : (a \o b)[i] = a[i]
         /\ \A i \in 1..Len(b) : (a \o b)[Len(a) + i] = b[i]
<1> DEFINE T == {a[i] : i \in DOMAIN a} \cup {b[i] : i \in DOMAIN b}
<1>1. a \in Seq(T) /\ b \in Seq(T)
  BY ElementsOfList, ListHas
<1>2. /\ a \o b \in Seq(T)
      /\ Len(a \o b) = Len(a) + Len(b)
      /\ \A i \in 1..Len(a) + Len(b) : (a \o b)[i] = IF i <= Len(a) THEN a[i] ELSE b[i - Len(a)]
  BY <1>1, ConcatProperties
<1>3. Len(a) \in Nat /\ Len(b) \in Nat
  BY ListHas
<1>4. IsList(a \o b)
  BY <1>2, <1>3, FunctionIsList, LenProperties
<1> QED
  BY <1>2, <1>3, <1>4

LEMMA EmptyIsList == IsList(<<>>) /\ Len(<<>>) = 0
BY DEF IsList

LEMMA OneIsList == ASSUME NEW x PROVE IsList(<<x>>) /\ Len(<<x>>) = 1
<1>1. <<x>> \in [1..1 -> {x}]
  OBVIOUS
<1> QED
  BY <1>1, FunctionIsList

(* Sets of numbers have a least one.                                       *)
LEMMA LeastOfSet ==
  ASSUME NEW N, N \subseteq Nat, N # {}
  PROVE  \E m \in N : \A i \in N : m <= i
<1>1. PICK m \in N : \A i \in N : ~ (<<i, m>> \in OpToRel(<, Nat))
  BY NatLessThanWellFounded, WFMin
<1>2. \A i \in N : ~ (i < m)
  BY <1>1 DEF OpToRel
<1> QED
  BY <1>2

(* The lists that FlattenSeq comes to, one after another.                  *)
Joins(q, n, g) == g = [i \in 1..n |-> IF i = 1 THEN q[i] ELSE g[i - 1] \o q[i]]

LEMMA JoinsExist ==
  ASSUME NEW q, NEW n \in Nat
  PROVE  \E g : Joins(q, n, g)
<1> DEFINE N == {m \in Nat : ~\E g : Joins(q, m, g)}
<1> SUFFICES ASSUME N # {} PROVE FALSE
  OBVIOUS
<1>1. PICK m \in N : \A i \in N : m <= i
  BY LeastOfSet
<1>2. CASE m = 0
  <2>1. Joins(q, 0, [i \in 1..0 |-> q[i]])
    BY DEF Joins
  <2> QED
    BY <1>2, <2>1
<1>3. CASE m # 0
  <2>1. m - 1 \in Nat /\ m - 1 \notin N
    BY <1>1, <1>3
  <2>2. PICK g : Joins(q, m - 1, g)
    BY <2>1
  <2> DEFINE h == [i \in 1..m |-> IF i = m THEN (IF m = 1 THEN q[m] ELSE g[m - 1] \o q[m]) ELSE g[i]]
  <2>3. \A i \in 1..m : h[i] = IF i = 1 THEN q[i] ELSE h[i - 1] \o q[i]
    <3> SUFFICES ASSUME NEW i \in 1..m PROVE h[i] = IF i = 1 THEN q[i] ELSE h[i - 1] \o q[i]
      OBVIOUS
    <3>1. CASE i = m
      BY <3>1
    <3>2. CASE i # m
      <4>1. i \in 1..(m - 1) /\ h[i] = g[i] /\ (i # 1 => h[i - 1] = g[i - 1])
        BY <3>2
      <4>2. g[i] = IF i = 1 THEN q[i] ELSE g[i - 1] \o q[i]
        BY <2>2, <4>1 DEF Joins
      <4> QED
        BY <4>1, <4>2
    <3> QED
      BY <3>1, <3>2
  <2>4. Joins(q, m, h)
    BY <2>3 DEF Joins
  <2> QED
    BY <2>4
<1> QED
  BY <1>2, <1>3

LEMMA Flattened ==
  ASSUME NEW q, IsList(q), Len(q) # 0
  PROVE  \E g : Joins(q, Len(q), g) /\ S!FlattenSeq(q) = g[Len(q)]
<1> DEFINE flatten == CHOOSE g : Joins(q, Len(q), g)
<1>1. Joins(q, Len(q), flatten)
  BY JoinsExist, ListHas
<1>2. S!FlattenSeq(q) = flatten[Len(q)]
  BY DEF S!FlattenSeq, Joins
<1> QED
  BY <1>1, <1>2
-----------------------------------------------------------------------------
(* Two runs through the hooks are alike up to the first hook they hear and *)
(* that says other things to them.                                         *)
Tracks(a, b, agree) ==
  /\ IsList(a) /\ IsList(b)
  /\ \A i \in 1..Len(a) : (\A j \in 1..i : a[j].heard \subseteq agree) => i <= Len(b) /\ b[i] = a[i]
  /\ (\A j \in 1..Len(a) : a[j].heard \subseteq agree) => b = a

LEMMA TracksItself == ASSUME NEW a, IsList(a), NEW agree PROVE Tracks(a, a, agree)
BY DEF Tracks

LEMMA TracksTogether ==
  ASSUME NEW a, NEW b, NEW c, NEW d, NEW agree, Tracks(a, b, agree), Tracks(c, d, agree)
  PROVE  Tracks(a \o c, b \o d, agree)
<1> DEFINE x == a \o c
           y == b \o d
<1>1. /\ IsList(a) /\ IsList(b) /\ IsList(c) /\ IsList(d)
      /\ Len(a) \in Nat /\ Len(b) \in Nat /\ Len(c) \in Nat /\ Len(d) \in Nat
  BY ListHas DEF Tracks
<1>2. /\ IsList(x) /\ Len(x) = Len(a) + Len(c)
      /\ \A i \in 1..Len(a) : x[i] = a[i]
      /\ \A i \in 1..Len(c) : x[Len(a) + i] = c[i]
  BY <1>1, Concatenated
<1>3. /\ IsList(y) /\ Len(y) = Len(b) + Len(d)
      /\ \A i \in 1..Len(b) : y[i] = b[i]
      /\ \A i \in 1..Len(d) : y[Len(b) + i] = d[i]
  BY <1>1, Concatenated
<1>4. ASSUME \A j \in 1..Len(a) : x[j].heard \subseteq agree PROVE b = a
  BY <1>2, <1>4 DEF Tracks
<1>5. ASSUME NEW i \in 1..Len(x), \A j \in 1..i : x[j].heard \subseteq agree
      PROVE  i <= Len(y) /\ y[i] = x[i]
  <2>1. CASE i <= Len(a)
    <3>1. i \in 1..Len(a) /\ \A j \in 1..i : a[j].heard \subseteq agree
      BY <1>1, <1>2, <1>5, <2>1
    <3>2. i <= Len(b) /\ b[i] = a[i]
      BY <3>1 DEF Tracks
    <3> QED
      BY <1>1, <1>2, <1>3, <3>1, <3>2
  <2>2. CASE ~(i <= Len(a))
    <3>1. b = a
      BY <1>1, <1>2, <1>4, <1>5, <2>2
    <3> DEFINE k == i - Len(a)
    <3>2. k \in 1..Len(c) /\ i = Len(a) + k
      BY <1>1, <1>2, <2>2
    <3>3. \A j \in 1..k : c[j].heard \subseteq agree
      <4> SUFFICES ASSUME NEW j \in 1..k PROVE c[j].heard \subseteq agree
        OBVIOUS
      <4>1. Len(a) + j \in 1..i /\ x[Len(a) + j] = c[j]
        BY <1>1, <1>2, <3>2
      <4> QED
        BY <1>5, <4>1
    <3> HIDE DEF k, x, y
    <3>4. k <= Len(d) /\ d[k] = c[k]
      BY <3>2, <3>3 DEF Tracks
    <3>5. k \in 1..Len(d)
      BY <1>1, <3>2, <3>4
    <3>6. y[Len(a) + k] = c[k] /\ x[Len(a) + k] = c[k]
      BY <1>2, <1>3, <3>1, <3>2, <3>4, <3>5
    <3> QED
      BY <1>1, <1>3, <3>1, <3>2, <3>4, <3>6
  <2> QED
    BY <2>1, <2>2
<1>6. ASSUME \A j \in 1..Len(x) : x[j].heard \subseteq agree PROVE y = x
  <2>1. b = a
    BY <1>1, <1>2, <1>4, <1>6
  <2>2. \A j \in 1..Len(c) : c[j].heard \subseteq agree
    <3> SUFFICES ASSUME NEW j \in 1..Len(c) PROVE c[j].heard \subseteq agree
      OBVIOUS
    <3>1. Len(a) + j \in 1..Len(x) /\ x[Len(a) + j] = c[j]
      BY <1>1, <1>2
    <3> QED
      BY <1>6, <3>1
  <2> QED
    BY <2>1, <2>2 DEF Tracks
<1> HIDE DEF x, y
<1>7. Tracks(x, y, agree)
  BY <1>2, <1>3, <1>5, <1>6 DEF Tracks
<1> QED
  BY <1>7 DEF x, y

LEMMA TracksJoined ==
  ASSUME NEW q, NEW r, IsList(q), IsList(r), Len(q) = Len(r), Len(q) # 0, NEW agree,
         \A i \in 1..Len(q) : Tracks(q[i], r[i], agree)
  PROVE  Tracks(S!FlattenSeq(q), S!FlattenSeq(r), agree)
<1>1. PICK g : Joins(q, Len(q), g) /\ S!FlattenSeq(q) = g[Len(q)]
  BY Flattened
<1>2. PICK h : Joins(r, Len(r), h) /\ S!FlattenSeq(r) = h[Len(r)]
  BY Flattened
<1>3. Len(q) \in Nat
  BY ListHas
<1> DEFINE N == {i \in 1..Len(q) : ~Tracks(g[i], h[i], agree)}
<1>4. N = {}
  <2> SUFFICES ASSUME N # {} PROVE FALSE
    OBVIOUS
  <2>1. PICK i \in N : \A j \in N : i <= j
    <3>1. N \subseteq Nat
      BY <1>3
    <3> HIDE DEF N
    <3> QED
      BY <3>1, LeastOfSet
  <2>2. i \in 1..Len(q) /\ (i # 1 => i - 1 \in 1..Len(q) /\ i - 1 \notin N)
    BY <1>3, <2>1
  <2>3. /\ g[i] = IF i = 1 THEN q[i] ELSE g[i - 1] \o q[i]
        /\ h[i] = IF i = 1 THEN r[i] ELSE h[i - 1] \o r[i]
    BY <1>1, <1>2, <2>2 DEF Joins
  <2>4. CASE i = 1
    <3>1. g[i] = q[i] /\ h[i] = r[i]
      BY <2>3, <2>4
    <3>2. Tracks(q[i], r[i], agree)
      BY <2>2
    <3> QED
      BY <2>1, <3>1, <3>2
  <2>5. CASE i # 1
    <3> DEFINE a == g[i - 1]
               b == h[i - 1]
               c == q[i]
               d == r[i]
    <3>1. Tracks(a, b, agree) /\ Tracks(c, d, agree)
      BY <2>2, <2>5
    <3>2. g[i] = a \o c /\ h[i] = b \o d
      BY <2>3, <2>5
    <3> HIDE DEF a, b, c, d
    <3>3. Tracks(a \o c, b \o d, agree)
      BY <3>1, TracksTogether
    <3> QED
      BY <2>1, <3>2, <3>3
  <2> QED
    BY <2>1, <2>4, <2>5
<1> QED
  BY <1>1, <1>2, <1>3, <1>4
-----------------------------------------------------------------------------
(* The list of the routes is finite.                                       *)
IsSettings ==
  /\ IsList(settings.routes) /\ IsList(settings.locales)
  /\ \A r \in DOMAIN settings.routes : IsList(settings.routes[r])

LEMMA ElementsAreFinite ==
  ASSUME NEW q, IsList(q)
  PROVE  IsFiniteSet(Elements(q)) /\ IsFiniteSet(DOMAIN q)
<1>1. IsFiniteSet(1..Len(q)) /\ DOMAIN q = 1..Len(q)
  BY ListHas, FS_Interval
<1> DEFINE T == Elements(q)
           f == [i \in 1..Len(q) |-> q[i]]
<1>2. f \in Surjection(1..Len(q), T)
  BY <1>1 DEF Surjection, Elements
<1> QED
  BY <1>1, <1>2, FS_Surjection

ListedPage(r, l) == [route |-> r, path |-> Localise(l, PatternOf(r)), alternates |-> Alternates(r)]
ListedPages == {ListedPage(r, l) : r \in ListedRoutes, l \in ListedLocales}

Below(T, d) == {e \in T : Before(e.path, d.path)}
Nth(T, i) == CHOOSE d \in T : Cardinality(Below(T, d)) = i - 1

LEMMA PagesAreFinite == ASSUME IsSettings PROVE IsFiniteSet(ListedPages)
<1> DEFINE pairs == ListedRoutes \X ListedLocales
           f == [p \in pairs |-> ListedPage(p[1], p[2])]
<1>1. IsFiniteSet(ListedRoutes)
  BY ElementsAreFinite, FS_Subset DEF IsSettings, Listed, ListedRoutes
<1>2. IsFiniteSet(ListedLocales)
  BY ElementsAreFinite, FS_Singleton DEF IsSettings, ListedLocales
<1>3. IsFiniteSet(pairs)
  BY <1>1, <1>2, FS_Product
<1>4. f \in Surjection(pairs, ListedPages)
  <2>1. f \in [pairs -> ListedPages]
    BY DEF ListedPages
  <2>2. ASSUME NEW e \in ListedPages PROVE \E p \in pairs : f[p] = e
    <3>1. PICK r \in ListedRoutes, l \in ListedLocales : e = ListedPage(r, l)
      BY DEF ListedPages
    <3>2. <<r, l>> \in pairs /\ f[<<r, l>>] = ListedPage(r, l)
      OBVIOUS
    <3> QED
      BY <3>1, <3>2
  <2> HIDE DEF f
  <2> QED
    BY <2>1, <2>2 DEF Surjection
<1> HIDE DEF f
<1> QED
  BY <1>3, <1>4, FS_Surjection

LEMMA RoutesAreFinite ==
  ASSUME IsSettings
  PROVE  /\ IsList(FromRoutes) /\ Len(FromRoutes) = Cardinality(ListedPages)
         /\ \A i \in 1..Len(FromRoutes) : FromRoutes[i] = Nth(ListedPages, i)
<1> DEFINE n == Cardinality(ListedPages)
           T == {Nth(ListedPages, i) : i \in 1..n}
<1>1. n \in Nat
  BY PagesAreFinite, FS_CardinalityType
<1>2. FromRoutes = [i \in 1..n |-> Nth(ListedPages, i)]
  BY DEF FromRoutes, Nth, Below, ListedPages, ListedPage
<1> HIDE DEF n
<1>3. FromRoutes \in [1..n -> T]
  BY <1>2
<1> HIDE DEF T
<1>4. IsList(FromRoutes) /\ Len(FromRoutes) = n
  BY <1>1, <1>3, FunctionIsList
<1> QED
  BY <1>2, <1>4 DEF n
-----------------------------------------------------------------------------
(* What hooks say.                                                         *)
IsSite(s) == \A r \in Sitemaps : s.pages[r] \in Nat

Alike(s, t, h) == (h \in Metas => s.robots[h] = t.robots[h]) /\ (h \in Sitemaps => s.pages[h] = t.pages[h])

LEMMA ProvidedTracks ==
  ASSUME NEW s, NEW t, IsSite(s), IsSite(t), NEW failing, NEW r \in Sitemaps,
         NEW agree, \A h \in agree : Alike(s, t, h)
  PROVE  Tracks(Provided(r, s, failing), Provided(r, t, failing), agree)
<1> DEFINE pages(x) == [n \in 1..x.pages[r] |-> Step(Silence, FALSE, GivenPage(r, n))]
           first == Step({r}, TRUE, NoEntry)
<1>1. CASE Fails(r, failing)
  BY <1>1, OneIsList, TracksItself DEF Provided
<1>2. CASE ~Fails(r, failing)
  <2>1. Provided(r, s, failing) = <<first>> \o pages(s) /\ Provided(r, t, failing) = <<first>> \o pages(t)
    BY <1>2 DEF Provided
  <2>2. IsList(<<first>> \o pages(s)) /\ IsList(<<first>> \o pages(t)) /\ Len(<<first>> \o pages(s)) >= 1 /\ (<<first>> \o pages(s))[1] = first
    <3> HIDE DEF first
    <3>1. ASSUME NEW n \in Nat PROVE IsList([i \in 1..n |-> Step(Silence, FALSE, GivenPage(r, i))])
      <4> DEFINE page(i) == Step(Silence, FALSE, GivenPage(r, i))
                 T == {page(i) : i \in 1..n}
      <4>1. [i \in 1..n |-> page(i)] \in [1..n -> T]
        OBVIOUS
      <4> HIDE DEF page, T
      <4>2. IsList([i \in 1..n |-> page(i)])
        BY <4>1, FunctionIsList
      <4> QED
        BY <4>2 DEF page
    <3>2. IsList(pages(s)) /\ IsList(pages(t))
      BY <3>1 DEF IsSite
    <3> HIDE DEF pages
    <3>3. IsList(<<first>>) /\ Len(<<first>>) = 1 /\ <<first>>[1] = first
      BY OneIsList
    <3> DEFINE one == <<first>>
    <3> HIDE DEF one
    <3>4. IsList(one \o pages(s)) /\ Len(one \o pages(s)) = Len(one) + Len(pages(s)) /\ IsList(one \o pages(t))
          /\ \A i \in 1..Len(one) : (one \o pages(s))[i] = one[i]
      BY <3>2, <3>3, Concatenated DEF one
    <3> QED
      BY <3>2, <3>3, <3>4, ListHas DEF one
  <2>3. CASE r \in agree
    <3>1. pages(s) = pages(t)
      BY <2>3 DEF Alike
    <3> HIDE DEF pages, first
    <3> QED
      BY <2>1, <2>2, <3>1, TracksItself
  <2>4. CASE r \notin agree
    <3> DEFINE a == Provided(r, s, failing)
               b == Provided(r, t, failing)
    <3>1. first.heard = {r}
      BY DEF Step
    <3>2. IsList(a) /\ IsList(b) /\ Len(a) >= 1 /\ a[1] = first
      <4> HIDE DEF pages, first
      <4> QED
        BY <2>1, <2>2
    <3>3. Len(a) \in Nat
      BY <3>2, ListHas
    <3>4. ~(a[1].heard \subseteq agree)
      BY <2>4, <3>1, <3>2
    <3> HIDE DEF a, b
    <3>5. \A i \in 1..Len(a) : ~(\A j \in 1..i : a[j].heard \subseteq agree)
      <4> SUFFICES ASSUME NEW i \in 1..Len(a) PROVE 1 \in 1..i
        BY <3>4
      <4> QED
        BY <3>3
    <3>6. 1 \in 1..Len(a)
      BY <3>2, <3>3
    <3>7. Tracks(a, b, agree)
      BY <3>2, <3>4, <3>5, <3>6 DEF Tracks
    <3> QED
      BY <3>7 DEF a, b
  <2> QED
    BY <2>3, <2>4
<1> QED
  BY <1>1, <1>2

LEMMA DerivedTrack ==
  ASSUME IsList(derived), NEW s, NEW t, NEW failing, NEW agree, \A h \in agree : Alike(s, t, h)
  PROVE  Tracks([i \in DOMAIN derived |-> Probed(derived[i], s, failing)],
                [i \in DOMAIN derived |-> Probed(derived[i], t, failing)], agree)
<1> DEFINE n == Len(derived)
           probed(x, i) == Probed(derived[i], x, failing)
<1>1. n \in Nat /\ DOMAIN derived = 1..n
  BY ListHas
<1>2. ASSUME NEW x PROVE IsList([i \in 1..n |-> probed(x, i)]) /\ Len([i \in 1..n |-> probed(x, i)]) = n
  <2> DEFINE T == {probed(x, i) : i \in 1..n}
  <2>1. [i \in 1..n |-> probed(x, i)] \in [1..n -> T]
    <3> HIDE DEF probed
    <3> QED
      OBVIOUS
  <2> HIDE DEF T, probed, n
  <2> QED
    BY <1>1, <2>1, FunctionIsList
<1>3. ASSUME NEW i \in 1..n, probed(s, i).heard \subseteq agree PROVE probed(t, i) = probed(s, i)
  <2> DEFINE d == derived[i]
  <2>1. CASE d.route \notin Metas \/ ~Probes \/ Fails(d.route, failing)
    BY <2>1 DEF Probed
  <2>2. CASE ~(d.route \notin Metas \/ ~Probes \/ Fails(d.route, failing))
    <3>1. probed(s, i).heard = {d.route}
      BY <2>2 DEF Probed, Step, Fails, Recorded
    <3>2. s.robots[d.route] = t.robots[d.route]
      BY <1>3, <2>2, <3>1 DEF Alike
    <3> QED
      BY <2>2, <3>2 DEF Probed
  <2> QED
    BY <2>1, <2>2
<1> DEFINE a == [i \in 1..n |-> probed(s, i)]
           b == [i \in 1..n |-> probed(t, i)]
<1>4. IsList(a) /\ IsList(b) /\ Len(a) = n /\ Len(b) = n
  BY <1>2
<1>5. \A i \in 1..n : a[i].heard \subseteq agree => b[i] = a[i]
  <2>1. \A i \in 1..n : probed(s, i).heard \subseteq agree => probed(t, i) = probed(s, i)
    BY <1>3
  <2> HIDE DEF probed
  <2> QED
    BY <2>1
<1> HIDE DEF a, b
<1>6. Tracks(a, b, agree)
  <2>1. ASSUME NEW i \in 1..Len(a), \A j \in 1..i : a[j].heard \subseteq agree PROVE i <= Len(b) /\ b[i] = a[i]
    <3>1. i \in 1..i /\ i \in 1..n
      BY <1>1, <1>4
    <3> QED
      BY <1>1, <1>4, <1>5, <2>1, <3>1
  <2>2. ASSUME \A j \in 1..Len(a) : a[j].heard \subseteq agree PROVE b = a
    BY <1>4, <1>5, <2>2, ListsAreEqual
  <2> QED
    BY <1>4, <2>1, <2>2 DEF Tracks
<1> QED
  BY <1>1, <1>6 DEF a, b

LEMMA StepsTrack ==
  ASSUME IsSettings, IsList(derived), NEW s, NEW t, IsSite(s), IsSite(t), NEW failing,
         NEW agree, \A h \in agree : Alike(s, t, h)
  PROVE  /\ Tracks(Steps(s, failing), Steps(t, failing), agree)
         /\ \A i \in DOMAIN derived : i \in DOMAIN Steps(s, failing) /\ Steps(s, failing)[i] = Probed(derived[i], s, failing)
<1> DEFINE n == Len(settings.routes)
           block(x, r) == IF r \in Sitemaps /\ ~Excluded(r) THEN Provided(r, x, failing) ELSE <<>>
           blocks(x) == [r \in 1..n |-> block(x, r)]
           probed(x) == [i \in DOMAIN derived |-> Probed(derived[i], x, failing)]
<1>1. n \in Nat /\ DOMAIN settings.routes = 1..n
  BY ListHas DEF IsSettings
<1>2. Steps(s, failing) = probed(s) \o S!FlattenSeq(blocks(s)) /\ Steps(t, failing) = probed(t) \o S!FlattenSeq(blocks(t))
  BY <1>1 DEF Steps
<1>3. ASSUME NEW x PROVE IsList(blocks(x)) /\ Len(blocks(x)) = n
  <2> DEFINE T == {block(x, r) : r \in 1..n}
  <2>1. blocks(x) \in [1..n -> T]
    <3> HIDE DEF block
    <3> QED
      OBVIOUS
  <2> HIDE DEF T, blocks, n
  <2> QED
    BY <1>1, <2>1, FunctionIsList
<1>4. ASSUME NEW r \in 1..n PROVE Tracks(block(s, r), block(t, r), agree)
  <2>1. CASE r \in Sitemaps /\ ~Excluded(r)
    BY <2>1, ProvidedTracks
  <2>2. CASE ~(r \in Sitemaps /\ ~Excluded(r))
    BY <2>2, EmptyIsList, TracksItself
  <2> QED
    BY <2>1, <2>2
<1>5. Tracks(S!FlattenSeq(blocks(s)), S!FlattenSeq(blocks(t)), agree)
  <2> DEFINE q == blocks(s)
             r == blocks(t)
  <2>1. IsList(q) /\ IsList(r) /\ Len(q) = n /\ Len(r) = n
    BY <1>3
  <2>2. \A i \in 1..n : Tracks(q[i], r[i], agree)
    <3> HIDE DEF block
    <3> QED
      BY <1>4
  <2> HIDE DEF q, r
  <2>3. CASE n # 0
    BY <2>1, <2>2, <2>3, TracksJoined DEF q, r
  <2>4. CASE n = 0
    <3>1. q = <<>> /\ r = <<>>
      BY <2>1, <2>4, ListsAreEqual, EmptyIsList
    <3>2. S!FlattenSeq(q) = <<>> /\ S!FlattenSeq(r) = <<>>
      BY <3>1, EmptyIsList DEF S!FlattenSeq
    <3>3. Tracks(S!FlattenSeq(q), S!FlattenSeq(r), agree)
      BY <3>2, EmptyIsList, TracksItself
    <3> QED
      BY <3>3 DEF q, r
  <2> QED
    BY <2>3, <2>4
<1>6. Tracks(probed(s), probed(t), agree)
  BY DerivedTrack
<1>7. \A i \in DOMAIN derived : i \in DOMAIN probed(s) /\ probed(s)[i] = Probed(derived[i], s, failing)
  OBVIOUS
<1> HIDE DEF probed, blocks
<1>8. Tracks(Steps(s, failing), Steps(t, failing), agree)
  BY <1>2, <1>5, <1>6, TracksTogether
<1>9. \A i \in DOMAIN probed(s) : i \in DOMAIN Steps(s, failing) /\ Steps(s, failing)[i] = probed(s)[i]
  <2> DEFINE a == probed(s)
             b == S!FlattenSeq(blocks(s))
  <2>1. IsList(a) /\ IsList(b)
    BY <1>5, <1>6 DEF Tracks
  <2> HIDE DEF a, b
  <2>2. \A i \in DOMAIN a : i \in DOMAIN (a \o b) /\ (a \o b)[i] = a[i]
    BY <2>1, Concatenated, ListHas
  <2> QED
    BY <1>2, <2>2 DEF a, b
<1> QED
  BY <1>7, <1>8, <1>9

LEMMA UntilTracks ==
  ASSUME NEW a, NEW b, NEW agree, Tracks(a, b, agree), NEW needed,
         \A i \in DOMAIN Until(a, needed) : Until(a, needed)[i].heard \subseteq agree
  PROVE  Until(b, needed) = Until(a, needed)
<1> DEFINE coming(x) == {i \in DOMAIN x : Comes(x[i])}
           upto(x, i) == {j \in coming(x) : j <= i}
           ends(x) == {i \in coming(x) : \/ x[i].entry = Failure
                                         \/ needed # 0 /\ Cardinality(upto(x, i)) = needed}
           last(x) == CHOOSE i \in ends(x) : \A j \in ends(x) : i <= j
<1>1. ASSUME NEW x PROVE Until(x, needed) = IF ends(x) = {} THEN x ELSE SubSeq(x, 1, last(x))
  BY DEF Until
<1>2. /\ IsList(a) /\ IsList(b) /\ Len(a) \in Nat /\ Len(b) \in Nat
      /\ DOMAIN a = 1..Len(a) /\ DOMAIN b = 1..Len(b)
  BY ListHas DEF Tracks
<1>3. CASE ends(a) = {}
  <2>1. Until(a, needed) = a
    BY <1>1, <1>3
  <2>2. b = a
    BY <1>2, <2>1 DEF Tracks
  <2> QED
    BY <2>2
<1>4. CASE ends(a) # {}
  <2> DEFINE e == last(a)
  <2>1. e \in ends(a) /\ \A j \in ends(a) : e <= j
    <3>1. ends(a) \subseteq Nat
      BY <1>2
    <3> HIDE DEF ends
    <3>2. \E m \in ends(a) : \A i \in ends(a) : m <= i
      BY <1>4, <3>1, LeastOfSet
    <3> QED
      BY <3>2
  <2>2. Until(a, needed) = SubSeq(a, 1, e)
    BY <1>1, <1>4
  <2>3. e \in 1..Len(a)
    BY <1>2, <2>1
  <2> HIDE DEF e
  <2>4. a \in Seq({a[i] : i \in DOMAIN a}) /\ b \in Seq({b[i] : i \in DOMAIN b})
    BY <1>2 DEF IsList
  <2>5. DOMAIN SubSeq(a, 1, e) = 1..e /\ \A i \in 1..e : SubSeq(a, 1, e)[i] = a[i]
    BY <1>2, <2>3, <2>4
  <2>6. \A i \in 1..e : a[i].heard \subseteq agree
    BY <2>2, <2>5
  <2>7. \A i \in 1..e : i \in 1..Len(a) /\ i <= Len(b) /\ b[i] = a[i]
    <3> SUFFICES ASSUME NEW i \in 1..e PROVE i \in 1..Len(a) /\ i <= Len(b) /\ b[i] = a[i]
      OBVIOUS
    <3>1. i \in 1..Len(a) /\ \A j \in 1..i : a[j].heard \subseteq agree
      BY <1>2, <2>3, <2>6
    <3> QED
      BY <3>1 DEF Tracks
  <2>8. \A i \in 1..e : i \in ends(b) <=> i \in ends(a)
    <3>1. \A i \in 1..e : i \in coming(a) <=> i \in coming(b)
      BY <1>2, <2>3, <2>7
    <3>2. ASSUME NEW i \in 1..e PROVE upto(a, i) = upto(b, i)
      <4>1. \A j \in coming(a) \cup coming(b) : j <= i => j \in 1..e
        BY <1>2, <2>3
      <4> DEFINE A == coming(a)
                 B == coming(b)
      <4>2. \A j \in A \cup B : j <= i => (j \in A <=> j \in B)
        BY <3>1, <4>1
      <4> HIDE DEF A, B
      <4>3. {j \in A : j <= i} = {j \in B : j <= i}
        BY <4>2
      <4> QED
        BY <4>3 DEF A, B
    <3> HIDE DEF coming, upto
    <3> QED
      BY <2>7, <3>1, <3>2
  <2>9. e \in ends(b) /\ \A j \in ends(b) : e <= j
    <3>1. e \in ends(b)
      <4>1. e \in 1..e
        BY <1>2, <2>3
      <4> HIDE DEF ends
      <4> QED
        BY <2>1, <2>8, <4>1
    <3>2. ASSUME NEW j \in ends(b), ~(e <= j) PROVE FALSE
      <4>1. j \in 1..e
        BY <1>2, <2>3, <3>2
      <4> HIDE DEF ends
      <4> QED
        BY <2>1, <2>8, <3>2, <4>1
    <3> QED
      BY <3>1, <3>2
  <2>10. last(b) = e
    <3>1. ends(b) \subseteq Nat
      BY <1>2
    <3> HIDE DEF ends
    <3>2. last(b) \in ends(b) /\ \A j \in ends(b) : last(b) <= j
      BY <2>9
    <3> HIDE DEF last
    <3>3. last(b) <= e /\ e <= last(b)
      BY <2>9, <3>2
    <3> QED
      BY <2>3, <2>9, <3>1, <3>2, <3>3
  <2>11. Until(b, needed) = SubSeq(b, 1, e)
    BY <1>1, <2>9, <2>10
  <2>12. SubSeq(b, 1, e) = SubSeq(a, 1, e)
    <3>1. e <= Len(b)
      BY <2>3, <2>7
    <3> QED
      BY <1>2, <2>3, <2>4, <2>7, <3>1
  <2> QED
    BY <2>2, <2>11, <2>12
<1> QED
  BY <1>3, <1>4

Heard(steps) == UNION {steps[i].heard : i \in DOMAIN steps}

LEMMA HeardIs == ASSUME NEW steps PROVE HeardOf(steps, FALSE) = Heard(steps)
BY DEF HeardOf, Heard

LEMMA MadeOfWhatIsHeard ==
  ASSUME IsSettings, IsList(derived), NEW s, NEW t, IsSite(s), IsSite(t), NEW failing, NEW needed,
         \A h \in Heard(Until(Steps(s, failing), needed)) : Alike(s, t, h)
  PROVE  Until(Steps(t, failing), needed) = Until(Steps(s, failing), needed)
<1> DEFINE a == Steps(s, failing)
           b == Steps(t, failing)
           run == Until(a, needed)
           heard == Heard(run)
<1>1. Tracks(a, b, heard)
  <2>1. \A h \in heard : Alike(s, t, h)
    OBVIOUS
  <2> HIDE DEF heard
  <2> QED
    BY <2>1, StepsTrack
<1> HIDE DEF a, b
<1>2. \A i \in DOMAIN run : run[i].heard \subseteq heard
  <2> HIDE DEF run
  <2> QED
    BY DEF Heard
<1> HIDE DEF heard
<1>3. Until(b, needed) = Until(a, needed)
  BY <1>1, <1>2, UntilTracks
<1> QED
  BY <1>3 DEF a, b
-----------------------------------------------------------------------------
(* Lists that hold nothing twice.                                          *)
OneToOne(q) == \A i, j \in 1..Len(q) : q[i] = q[j] => i = j

LEMMA ElementsOfBoth ==
  ASSUME NEW a, NEW b, IsList(a), IsList(b)
  PROVE  Elements(a \o b) = Elements(a) \cup Elements(b)
<1> DEFINE c == a \o b
<1>1. /\ Len(a) \in Nat /\ Len(b) \in Nat /\ DOMAIN a = 1..Len(a) /\ DOMAIN b = 1..Len(b) /\ DOMAIN c = 1..Len(a) + Len(b)
      /\ \A i \in 1..Len(a) : c[i] = a[i]
      /\ \A i \in 1..Len(b) : c[Len(a) + i] = b[i]
  BY ListHas, Concatenated
<1> HIDE DEF c
<1>2. ASSUME NEW i \in DOMAIN c PROVE c[i] \in Elements(a) \cup Elements(b)
  <2>1. CASE i <= Len(a)
    BY <1>1, <2>1 DEF Elements
  <2>2. CASE ~(i <= Len(a))
    <3>1. i - Len(a) \in 1..Len(b) /\ Len(a) + (i - Len(a)) = i
      BY <1>1, <2>2
    <3>2. c[i] = b[i - Len(a)]
      BY <1>1, <3>1
    <3> QED
      BY <1>1, <3>1, <3>2 DEF Elements
  <2> QED
    BY <2>1, <2>2
<1>3. ASSUME NEW i \in DOMAIN a PROVE a[i] \in Elements(c)
  BY <1>1 DEF Elements
<1>4. ASSUME NEW i \in DOMAIN b PROVE b[i] \in Elements(c)
  <2>1. Len(a) + i \in DOMAIN c /\ c[Len(a) + i] = b[i]
    BY <1>1
  <2> QED
    BY <2>1 DEF Elements
<1>5. Elements(c) = Elements(a) \cup Elements(b)
  BY <1>2, <1>3, <1>4 DEF Elements
<1> QED
  BY <1>5 DEF c

LEMMA OneToOneBoth ==
  ASSUME NEW a, NEW b, IsList(a), IsList(b), OneToOne(a), OneToOne(b), Elements(a) \cap Elements(b) = {}
  PROVE  OneToOne(a \o b)
<1> DEFINE c == a \o b
<1>1. /\ Len(a) \in Nat /\ Len(b) \in Nat /\ DOMAIN a = 1..Len(a) /\ DOMAIN b = 1..Len(b) /\ Len(c) = Len(a) + Len(b)
      /\ \A i \in 1..Len(a) : c[i] = a[i]
      /\ \A i \in 1..Len(b) : c[Len(a) + i] = b[i]
  BY ListHas, Concatenated
<1> HIDE DEF c
<1>2. \A i \in 1..Len(c) : ~(i <= Len(a)) => i - Len(a) \in 1..Len(b) /\ c[i] = b[i - Len(a)]
  <2> SUFFICES ASSUME NEW i \in 1..Len(c), ~(i <= Len(a)) PROVE i - Len(a) \in 1..Len(b) /\ c[i] = b[i - Len(a)]
    OBVIOUS
  <2>1. i - Len(a) \in 1..Len(b) /\ Len(a) + (i - Len(a)) = i
    BY <1>1
  <2> QED
    BY <1>1, <2>1
<1>3. \A i \in 1..Len(c) : i <= Len(a) => i \in 1..Len(a) /\ c[i] = a[i]
  BY <1>1
<1>4. \A i \in 1..Len(a), j \in 1..Len(b) : a[i] # b[j]
  BY <1>1 DEF Elements
<1>5. ASSUME NEW i \in 1..Len(c), NEW j \in 1..Len(c), c[i] = c[j] PROVE i = j
  <2>1. CASE i <= Len(a) /\ j <= Len(a)
    BY <1>3, <1>5, <2>1 DEF OneToOne
  <2>2. CASE ~(i <= Len(a)) /\ ~(j <= Len(a))
    <3>1. i - Len(a) = j - Len(a)
      BY <1>2, <1>5, <2>2 DEF OneToOne
    <3> QED
      BY <1>1, <3>1
  <2>3. CASE i <= Len(a) /\ ~(j <= Len(a))
    BY <1>2, <1>3, <1>4, <1>5, <2>3
  <2>4. CASE ~(i <= Len(a)) /\ j <= Len(a)
    BY <1>2, <1>3, <1>4, <1>5, <2>4
  <2> QED
    BY <2>1, <2>2, <2>3, <2>4
<1>6. OneToOne(c)
  BY <1>5 DEF OneToOne
<1> QED
  BY <1>6 DEF c

LEMMA EmptyAndOne ==
  /\ Elements(<<>>) = {} /\ OneToOne(<<>>)
  /\ \A x : Elements(<<x>>) = {x} /\ OneToOne(<<x>>)
<1>1. Elements(<<>>) = {} /\ OneToOne(<<>>)
  BY DEF Elements, OneToOne
<1>2. ASSUME NEW x PROVE Elements(<<x>>) = {x} /\ OneToOne(<<x>>)
  <2>1. DOMAIN <<x>> = {1} /\ Len(<<x>>) = 1 /\ <<x>>[1] = x
    OBVIOUS
  <2> QED
    BY <2>1 DEF Elements, OneToOne
<1> QED
  BY <1>1, <1>2

(* What is left of the steps through the list, step by step.               *)
Collects(a, n, g) ==
  /\ g[0] = <<>>
  /\ \A i \in 1..n : g[i] = IF Comes(a[i]) THEN g[i - 1] \o <<a[i].entry>> ELSE g[i - 1]

LEMMA EmptyBefore == ASSUME NEW q, IsList(q) PROVE <<>> \o q = q /\ q \o <<>> = q
BY EmptyIsList, ConcatEmptySeq DEF IsList

LEMMA EntriesCollect ==
  ASSUME NEW a, IsList(a)
  PROVE  \E g : Collects(a, Len(a), g) /\ EntriesOf(a) = g[Len(a)]
<1> DEFINE n == Len(a)
           part(i) == IF Comes(a[i]) THEN <<a[i].entry>> ELSE <<>>
           q == [i \in 1..n |-> part(i)]
<1>1. n \in Nat /\ DOMAIN a = 1..n
  BY ListHas
<1>2. EntriesOf(a) = S!FlattenSeq(q)
  BY <1>1 DEF EntriesOf
<1>3. IsList(q) /\ Len(q) = n
  <2> DEFINE T == {part(i) : i \in 1..n}
  <2>1. q \in [1..n -> T]
    <3> HIDE DEF part
    <3> QED
      OBVIOUS
  <2> HIDE DEF T, q, n
  <2> QED
    BY <1>1, <2>1, FunctionIsList
<1>4. \A i \in 1..n : q[i] = part(i)
  BY <1>1
<1> HIDE DEF q, n
<1>5. CASE n = 0
  <2> DEFINE g == [i \in {0} |-> <<>>]
  <2>1. Collects(a, n, g)
    BY <1>5 DEF Collects
  <2>2. q = <<>>
    BY <1>3, <1>5, EmptyIsList, ListsAreEqual
  <2>3. S!FlattenSeq(q) = <<>>
    BY <2>2, EmptyIsList DEF S!FlattenSeq
  <2>4. EntriesOf(a) = g[n]
    BY <1>2, <1>5, <2>3
  <2> HIDE DEF g
  <2> QED
    BY <2>1, <2>4 DEF n
<1>6. CASE n # 0
  <2>1. PICK h : Joins(q, n, h) /\ S!FlattenSeq(q) = h[n]
    BY <1>3, <1>6, Flattened
  <2>2. \A i \in 1..n : h[i] = IF i = 1 THEN q[i] ELSE h[i - 1] \o q[i]
    BY <2>1 DEF Joins
  <2>3. \A i \in 1..n : IsList(h[i])
    <3> DEFINE N == {i \in 1..n : ~IsList(h[i])}
    <3> SUFFICES ASSUME N # {} PROVE FALSE
      OBVIOUS
    <3>1. N \subseteq Nat
      BY <1>1
    <3>2. PICK i \in N : \A j \in N : i <= j
      <4> HIDE DEF N
      <4> QED
        BY <3>1, LeastOfSet
    <3>3. i \in 1..n /\ (i # 1 => IsList(h[i - 1]))
      BY <1>1, <3>2
    <3>4. IsList(q[i])
      <4>1. \A x : IsList(<<x>>)
        BY OneIsList
      <4> QED
        BY <1>4, <3>3, <4>1, EmptyIsList
    <3>5. IsList(h[i])
      BY <2>2, <3>3, <3>4, Concatenated
    <3> QED
      BY <3>2, <3>5
  <2> DEFINE g == [i \in 0..n |-> IF i = 0 THEN <<>> ELSE h[i]]
  <2>4. ASSUME NEW i \in 1..n PROVE g[i] = IF Comes(a[i]) THEN g[i - 1] \o <<a[i].entry>> ELSE g[i - 1]
    <3>1. g[i] = h[i] /\ g[i - 1] = IF i = 1 THEN <<>> ELSE h[i - 1]
      BY <1>1
    <3>2. h[i] = (IF i = 1 THEN <<>> ELSE h[i - 1]) \o part(i)
      <4>1. CASE i = 1
        <5>1. IsList(part(i)) /\ h[i] = part(i)
          BY <1>4, <2>2, <2>3, <4>1
        <5> HIDE DEF part
        <5> QED
          BY <4>1, <5>1, EmptyBefore
      <4>2. CASE i # 1
        BY <1>4, <2>2, <4>2
      <4> QED
        BY <4>1, <4>2
    <3>3. IsList(g[i - 1])
      BY <1>1, <2>3, <3>1, EmptyIsList
    <3>4. g[i] = g[i - 1] \o part(i)
      BY <3>1, <3>2
    <3>5. g[i - 1] \o <<>> = g[i - 1]
      <4> HIDE DEF g
      <4> QED
        BY <3>3, EmptyBefore
    <3> HIDE DEF g
    <3> QED
      BY <3>4, <3>5
  <2>5. g[0] = <<>> /\ g[n] = h[n]
    BY <1>1, <1>6
  <2> HIDE DEF g
  <2>6. Collects(a, n, g)
    BY <2>4, <2>5 DEF Collects
  <2> QED
    BY <1>2, <2>1, <2>5, <2>6 DEF n
<1> QED
  BY <1>5, <1>6

LEMMA CollectOnce ==
  ASSUME NEW a, NEW b, NEW n \in Nat, NEW g, NEW h, Collects(a, n, g), Collects(b, n, h), \A i \in 1..n : a[i] = b[i]
  PROVE  g[n] = h[n]
<1> DEFINE N == {i \in 0..n : g[i] # h[i]}
<1>1. N = {}
  <2> SUFFICES ASSUME N # {} PROVE FALSE
    OBVIOUS
  <2>1. N \subseteq Nat
    OBVIOUS
  <2>2. PICK i \in N : \A j \in N : i <= j
    <3> HIDE DEF N
    <3> QED
      BY <2>1, LeastOfSet
  <2>3. i # 0
    BY <2>2 DEF Collects
  <2>4. i \in 1..n /\ i - 1 \in 0..n /\ i - 1 \notin N
    BY <2>2, <2>3
  <2>5. g[i - 1] = h[i - 1] /\ a[i] = b[i]
    BY <2>4
  <2>6. g[i] = h[i]
    BY <2>4, <2>5 DEF Collects
  <2> QED
    BY <2>2, <2>6
<1> QED
  BY <1>1

Comings(a, i) == {j \in 1..i : Comes(a[j])}
Yielded(a, i) == {a[j].entry : j \in Comings(a, i)}
Apart(a, n) == \A i, j \in Comings(a, n) : a[i].entry = a[j].entry => i = j

LEMMA CollectedAre ==
  ASSUME NEW a, NEW n \in Nat, NEW g, Collects(a, n, g), NEW i \in 0..n
  PROVE  /\ IsList(g[i]) /\ Len(g[i]) = Cardinality(Comings(a, i))
         /\ Elements(g[i]) = Yielded(a, i)
         /\ Apart(a, n) => OneToOne(g[i])
<1> DEFINE right(k) == /\ IsList(g[k]) /\ Len(g[k]) = Cardinality(Comings(a, k))
                       /\ Elements(g[k]) = Yielded(a, k)
                       /\ Apart(a, n) => OneToOne(g[k])
           N == {k \in 0..n : ~right(k)}
<1>1. N = {}
  <2> SUFFICES ASSUME N # {} PROVE FALSE
    OBVIOUS
  <2>1. N \subseteq Nat
    OBVIOUS
  <2>2. PICK k \in N : \A j \in N : k <= j
    <3> HIDE DEF N
    <3> QED
      BY <2>1, LeastOfSet
  <2>3. right(0)
    <3>1. g[0] = <<>> /\ Comings(a, 0) = {}
      BY DEF Collects, Comings
    <3>2. Yielded(a, 0) = {}
      BY <3>1 DEF Yielded
    <3> QED
      BY <3>1, <3>2, EmptyIsList, EmptyAndOne, FS_EmptySet
  <2>4. k \in 1..n /\ k - 1 \in 0..n /\ right(k - 1)
    <3> HIDE DEF right
    <3> QED
      BY <2>2, <2>3
  <2>5. g[k] = IF Comes(a[k]) THEN g[k - 1] \o <<a[k].entry>> ELSE g[k - 1]
    BY <2>4 DEF Collects
  <2> DEFINE before == Comings(a, k - 1)
             upto == Comings(a, k)
             held == g[k - 1]
             x == a[k].entry
  <2>6. IsFiniteSet(before)
    <3>1. IsFiniteSet(1..(k - 1)) /\ before \in SUBSET (1..(k - 1))
      BY <2>4, FS_Interval DEF Comings
    <3> HIDE DEF before
    <3> QED
      BY <3>1, FS_Subset
  <2>7. CASE Comes(a[k])
    <3>1. upto = before \cup {k} /\ k \notin before
      BY <2>4, <2>7 DEF Comings
    <3>2. Cardinality(upto) = Cardinality(before) + 1
      <4> HIDE DEF before, upto
      <4> QED
        BY <2>6, <3>1, FS_AddElement
    <3>3. g[k] = held \o <<x>> /\ IsList(held) /\ IsList(<<x>>) /\ Len(<<x>>) = 1
      BY <2>4, <2>5, <2>7, OneIsList
    <3>4. IsList(g[k]) /\ Len(g[k]) = Cardinality(upto)
      <4>1. Len(held) = Cardinality(before)
        BY <2>4
      <4>2. IsList(held \o <<x>>) /\ Len(held \o <<x>>) = Len(held) + 1
        <5> HIDE DEF held, x
        <5> QED
          BY <3>3, Concatenated
      <4> HIDE DEF held, x, upto, before
      <4> QED
        BY <3>2, <3>3, <4>1, <4>2
    <3>5. Elements(held) = {a[j].entry : j \in before}
      BY <2>4 DEF Yielded
    <3>6. Elements(g[k]) = Yielded(a, k)
      <4>1. Elements(held \o <<x>>) = Elements(held) \cup {x}
        <5> HIDE DEF held, x
        <5> QED
          BY <3>3, ElementsOfBoth, EmptyAndOne
      <4>2. {a[j].entry : j \in upto} = {a[j].entry : j \in before} \cup {x}
        <5> HIDE DEF before, upto
        <5> QED
          BY <3>1
      <4> QED
        BY <3>3, <3>5, <4>1, <4>2 DEF Yielded
    <3>7. ASSUME Apart(a, n) PROVE OneToOne(g[k])
      <4>1. \A j \in before : a[j].entry # x
        <5>1. \A j \in before : j \in Comings(a, n) /\ k \in Comings(a, n) /\ j # k
          BY <2>4, <2>7 DEF Comings
        <5> QED
          BY <3>7, <5>1 DEF Apart
      <4>2. Elements(held) \cap Elements(<<x>>) = {}
        <5> HIDE DEF before, held, x
        <5> QED
          BY <3>5, <4>1, EmptyAndOne
      <4>3. OneToOne(held) /\ OneToOne(<<x>>)
        BY <2>4, <3>7, EmptyAndOne
      <4>4. OneToOne(held \o <<x>>)
        <5> HIDE DEF held, x
        <5> QED
          BY <3>3, <4>2, <4>3, OneToOneBoth
      <4> QED
        BY <3>3, <4>4
    <3>8. right(k)
      BY <3>4, <3>6, <3>7
    <3> HIDE DEF right
    <3> QED
      BY <2>2, <3>8
  <2>8. CASE ~Comes(a[k])
    <3>1. upto = before
      BY <2>4, <2>8 DEF Comings
    <3>2. g[k] = held
      BY <2>5, <2>8
    <3>3. Yielded(a, k) = Yielded(a, k - 1)
      BY <3>1 DEF Yielded
    <3>4. right(k)
      BY <2>4, <3>1, <3>2, <3>3
    <3> HIDE DEF right
    <3> QED
      BY <2>2, <3>4
  <2> QED
    BY <2>7, <2>8
<1>2. right(i)
  <2> HIDE DEF right
  <2> QED
    BY <1>1
<1> QED
  BY <1>2

LEMMA CollectedGrow ==
  ASSUME NEW a, NEW n \in Nat, NEW g, Collects(a, n, g), NEW i \in 0..n
  PROVE  Len(g[i]) <= Len(g[n]) /\ \A k \in 1..Len(g[i]) : g[n][k] = g[i][k]
<1> DEFINE grown(m) == Len(g[i]) <= Len(g[m]) /\ \A k \in 1..Len(g[i]) : g[m][k] = g[i][k]
           N == {m \in i..n : ~grown(m)}
<1>1. N = {}
  <2> SUFFICES ASSUME N # {} PROVE FALSE
    OBVIOUS
  <2>1. N \subseteq Nat
    OBVIOUS
  <2>2. PICK m \in N : \A j \in N : m <= j
    <3> HIDE DEF N
    <3> QED
      BY <2>1, LeastOfSet
  <2>3. \A k \in 0..n : IsList(g[k]) /\ Len(g[k]) \in Nat
    BY CollectedAre, ListHas
  <2>4. grown(i)
    BY <2>3
  <2>5. m \in 1..n /\ m - 1 \in i..n /\ m - 1 \in 0..n /\ grown(m - 1)
    <3> HIDE DEF grown
    <3> QED
      BY <2>2, <2>4
  <2> DEFINE x == a[m].entry
             held == g[m - 1]
  <2>6. g[m] = held \o <<x>> \/ g[m] = held
    BY <2>5 DEF Collects
  <2>7. IsList(held) /\ IsList(<<x>>) /\ Len(<<x>>) = 1 /\ Len(held) \in Nat
    BY <2>3, <2>5, OneIsList
  <2>8. Len(g[m]) >= Len(held) /\ \A k \in 1..Len(held) : g[m][k] = held[k]
    <3> HIDE DEF held, x
    <3>1. Len(held \o <<x>>) = Len(held) + 1 /\ \A k \in 1..Len(held) : (held \o <<x>>)[k] = held[k]
      BY <2>7, Concatenated
    <3> QED
      BY <2>6, <2>7, <3>1
  <2>9. grown(m)
    <3>1. Len(g[i]) <= Len(held) /\ \A k \in 1..Len(g[i]) : held[k] = g[i][k]
      BY <2>5
    <3>2. Len(g[m]) \in Nat /\ Len(g[i]) \in Nat
      BY <2>3, <2>5
    <3> HIDE DEF held
    <3> QED
      BY <2>7, <2>8, <3>1, <3>2
  <2> HIDE DEF grown
  <2> QED
    BY <2>2, <2>9
<1>2. grown(n)
  <2> HIDE DEF grown
  <2>1. n \in i..n
    OBVIOUS
  <2> QED
    BY <1>1, <2>1
<1> QED
  BY <1>2

LEMMA SeqIsList == ASSUME NEW T, NEW q \in Seq(T) PROVE IsList(q)
<1>1. Len(q) \in Nat /\ q \in [1..Len(q) -> T]
  OBVIOUS
<1> QED
  BY <1>1, FunctionIsList

(* A part of a list.                                                       *)
LEMMA Slice ==
  ASSUME NEW q, IsList(q), NEW m \in Int, NEW n \in Int, 1 <= m, n <= Len(q)
  PROVE  /\ IsList(SubSeq(q, m, n)) /\ Len(SubSeq(q, m, n)) = (IF m <= n THEN n - m + 1 ELSE 0)
         /\ \A i \in 1..(n - m + 1) : SubSeq(q, m, n)[i] = q[m + i - 1]
<1> DEFINE T == {q[i] : i \in DOMAIN q}
<1>1. Len(q) \in Nat /\ DOMAIN q = 1..Len(q)
  BY ListHas
<1>2. \A i \in m..n : q[i] \in T
  BY <1>1
<1> HIDE DEF T
<1>3. /\ SubSeq(q, m, n) \in Seq(T)
      /\ Len(SubSeq(q, m, n)) = IF m <= n THEN n - m + 1 ELSE 0
      /\ \A i \in 1..n - m + 1 : SubSeq(q, m, n)[i] = q[m + i - 1]
  BY <1>2, SubSeqProperties
<1> QED
  BY <1>3, SeqIsList

(* take: the entries up to the last one needed, and no further.            *)
LEMMA UntilEntries ==
  ASSUME NEW a, IsList(a), \A i \in 1..Len(a) : a[i].entry # Failure, NEW needed \in Nat \ {0}
  PROVE  LET run == Until(a, needed)
             all == EntriesOf(a)
             some == EntriesOf(run)
         IN  /\ IsList(all) /\ IsList(some)
             /\ Len(some) = IF Len(all) <= needed THEN Len(all) ELSE needed
             /\ \A i \in 1..Len(some) : some[i] = all[i]
             /\ \A i \in DOMAIN run : run[i].entry # Failure
<1> DEFINE n == Len(a)
           coming == {i \in DOMAIN a : Comes(a[i])}
           upto(i) == {j \in coming : j <= i}
           ends == {i \in coming : \/ a[i].entry = Failure
                                   \/ needed # 0 /\ Cardinality(upto(i)) = needed}
           last == CHOOSE i \in ends : \A j \in ends : i <= j
           run == Until(a, needed)
<1>1. run = IF ends = {} THEN a ELSE SubSeq(a, 1, last)
  BY DEF Until
<1>2. n \in Nat /\ DOMAIN a = 1..n /\ n = Len(a)
  BY ListHas
<1>3. PICK g : Collects(a, n, g) /\ EntriesOf(a) = g[n]
  BY EntriesCollect
<1> HIDE DEF n
<1>4. \A i \in 0..n : IsList(g[i]) /\ Len(g[i]) \in Nat /\ Len(g[i]) = Cardinality(Comings(a, i))
  BY <1>2, <1>3, CollectedAre, ListHas
<1>5. \A i \in 1..n : upto(i) = Comings(a, i)
  BY <1>2 DEF Comings
<1>6. \A i : i \in ends <=> i \in 1..n /\ Comes(a[i]) /\ Len(g[i]) = needed
  <2> SUFFICES ASSUME NEW i PROVE i \in ends <=> i \in 1..n /\ Comes(a[i]) /\ Len(g[i]) = needed
    OBVIOUS
  <2>1. i \in ends <=> i \in 1..n /\ Comes(a[i]) /\ (a[i].entry = Failure \/ (needed # 0 /\ Cardinality(upto(i)) = needed))
    BY <1>2
  <2>2. i \in 1..n => a[i].entry # Failure /\ needed # 0 /\ upto(i) = Comings(a, i) /\ Len(g[i]) = Cardinality(Comings(a, i))
    BY <1>2, <1>4, <1>5
  <2> HIDE DEF ends, upto
  <2> QED
    BY <2>1, <2>2
<1> HIDE DEF ends, upto
<1>7. CASE ends = {}
  <2>1. run = a
    BY <1>1, <1>7
  <2>2. ~(needed <= Len(g[n]))
    <3> SUFFICES ASSUME needed <= Len(g[n]) PROVE FALSE
      OBVIOUS
    <3> DEFINE N == {i \in 0..n : needed <= Len(g[i])}
    <3>1. N \subseteq Nat /\ n \in N
      BY <1>2
    <3>2. PICK i \in N : \A j \in N : i <= j
      <4> HIDE DEF N
      <4> QED
        BY <3>1, LeastOfSet
    <3>3. Len(g[0]) = 0
      BY <1>3, EmptyIsList DEF Collects
    <3>4. i \in 1..n /\ i - 1 \in 0..n /\ ~(needed <= Len(g[i - 1]))
      BY <1>2, <3>2, <3>3
    <3> DEFINE held == g[i - 1]
               x == a[i].entry
    <3>5. g[i] = IF Comes(a[i]) THEN held \o <<x>> ELSE held
      BY <1>3, <3>4 DEF Collects
    <3>6. Len(held \o <<x>>) = Len(held) + 1
      <4>1. IsList(held)
        BY <1>4, <3>4
      <4> HIDE DEF held, x
      <4> QED
        BY <4>1, OneIsList, Concatenated
    <3>7. needed <= Len(g[i]) /\ ~(needed <= Len(held)) /\ Len(held) \in Nat
      BY <1>4, <3>2, <3>4
    <3> HIDE DEF held, x
    <3>8. Comes(a[i]) /\ Len(g[i]) = needed
      BY <3>5, <3>6, <3>7
    <3> QED
      BY <1>6, <1>7, <3>4, <3>8
  <2> HIDE DEF run
  <2>3. EntriesOf(run) = EntriesOf(a) /\ IsList(g[n]) /\ Len(g[n]) \in Nat
    BY <1>2, <1>4, <2>1
  <2> QED
    BY <1>2, <1>3, <2>1, <2>2, <2>3 DEF run
<1>8. CASE ends # {}
  <2> DEFINE e == last
  <2>1. e \in ends
    <3>1. ends \subseteq Nat
      BY <1>2, <1>6
    <3>2. \E m \in ends : \A i \in ends : m <= i
      BY <1>8, <3>1, LeastOfSet
    <3> QED
      BY <3>2
  <2>2. run = SubSeq(a, 1, e)
    BY <1>1, <1>8
  <2> HIDE DEF last, e, run
  <2>3. e \in 1..n /\ Len(g[e]) = needed
    BY <1>6, <2>1
  <2>4. IsList(run) /\ Len(run) = e /\ \A i \in 1..e : run[i] = a[i]
    <3>1. e \in Int /\ 1 <= e /\ e <= Len(a) /\ e - 1 + 1 = e /\ \A i \in 1..e : 1 + i - 1 = i
      BY <1>2, <2>3
    <3> QED
      BY <2>2, <3>1, Slice
  <2>5. PICK h : Collects(run, e, h) /\ EntriesOf(run) = h[e]
    BY <2>4, EntriesCollect
  <2>6. h[e] = g[e]
    <3>1. Collects(a, e, g)
      BY <1>2, <1>3, <2>3 DEF Collects
    <3>2. e \in Nat
      BY <2>3
    <3> QED
      BY <2>4, <2>5, <3>1, <3>2, CollectOnce
  <2>7. EntriesOf(run) = g[e] /\ EntriesOf(a) = g[n]
    BY <1>3, <2>5, <2>6
  <2>8. Len(g[e]) <= Len(g[n]) /\ \A k \in 1..Len(g[e]) : g[n][k] = g[e][k]
    <3> SUFFICES ASSUME NEW m \in 0..n, m = e
                 PROVE  Len(g[m]) <= Len(g[n]) /\ \A k \in 1..Len(g[m]) : g[n][k] = g[m][k]
      BY <1>2, <2>3
    <3>1. n \in Nat /\ Collects(a, n, g)
      BY <1>2, <1>3
    <3> QED
      BY ONLY <3>1, CollectedGrow
  <2>9. IsList(g[e]) /\ IsList(g[n]) /\ Len(g[n]) \in Nat
    BY <1>2, <1>4, <2>3
  <2>10. Len(g[e]) = IF Len(g[n]) <= needed THEN Len(g[n]) ELSE needed
    BY <2>3, <2>8, <2>9
  <2>11. \A i \in DOMAIN run : run[i].entry # Failure
    BY <1>2, <2>3, <2>4, ListHas
  <2> QED
    BY <2>7, <2>8, <2>9, <2>10, <2>11 DEF run
<1> QED
  BY <1>7, <1>8
-----------------------------------------------------------------------------
(* A list cut into parts of a length, and joined again.                    *)
Smaller(m, n) == IF m <= n THEN m ELSE n
Part(q, l, i) == SubSeq(q, (i - 1) * l + 1, Smaller(i * l, Len(q)))

LEMMA Times ==
  ASSUME NEW i \in Int, NEW j \in Int, NEW l \in Nat, i <= j
  PROVE  i * l <= j * l
<1>1. (j - i) * l >= 0
  BY j - i \in Nat
<1>2. j * l = i * l + (j - i) * l
  OBVIOUS
<1> DEFINE a == i * l
           b == j * l
           c == (j - i) * l
<1>3. a \in Int /\ b \in Int /\ c \in Int
  OBVIOUS
<1> HIDE DEF a, b, c
<1>4. a <= b
  BY <1>1, <1>2, <1>3 DEF a, b, c
<1> QED
  BY <1>4 DEF a, b

LEMMA PartsCover ==
  ASSUME NEW n \in Nat, NEW l \in Nat \ {0}
  PROVE  LET p == (n + l - 1) \div l
         IN  p \in Nat /\ n <= p * l /\ \A i \in 1..p : (i - 1) * l < n
<1> DEFINE d == n + l - 1
           p == d \div l
           r == d % l
           u == p * l
           v == (p - 1) * l
<1>1. d \in Nat /\ p \in Nat /\ r \in 0..(l - 1)
  OBVIOUS
<1>2. d = l * p + r
  OBVIOUS
<1>3. u \in Int /\ v \in Int /\ u = v + l /\ d = u + r
  <2> HIDE DEF d, p, r
  <2>1. l * p = p * l /\ p * l = (p - 1) * l + l /\ p * l \in Int /\ (p - 1) * l \in Int
    BY <1>1
  <2> HIDE DEF u, v
  <2>2. u = p * l /\ v = (p - 1) * l
    BY DEF u, v
  <2> QED
    BY <1>2, <2>1, <2>2
<1>4. n <= u /\ v < n
  <2> HIDE DEF u, v, r, p
  <2> QED
    BY <1>1, <1>3
<1>5. ASSUME NEW i \in 1..p PROVE (i - 1) * l < n
  <2> HIDE DEF d, p
  <2>1. (i - 1) * l <= v
    BY <1>1, Times
  <2>2. (i - 1) * l \in Int
    BY <1>1
  <2> HIDE DEF v
  <2> QED
    BY <1>3, <1>4, <2>1, <2>2
<1> HIDE DEF v, r
<1> QED
  BY <1>1, <1>4, <1>5

LEMMA PartsJoin ==
  ASSUME NEW q, IsList(q), NEW l \in Nat \ {0}, NEW p \in Nat \ {0}, Len(q) <= p * l, \A i \in 1..p : (i - 1) * l < Len(q),
         NEW parts, IsList(parts), Len(parts) = p, \A i \in 1..p : parts[i] = Part(q, l, i)
  PROVE  S!FlattenSeq(parts) = q
<1> DEFINE n == Len(q)
<1>1. PICK g : Joins(parts, p, g) /\ S!FlattenSeq(parts) = g[p]
  BY Flattened
<1>2. \A i \in 1..p : g[i] = IF i = 1 THEN parts[i] ELSE g[i - 1] \o parts[i]
  BY <1>1 DEF Joins
<1>3. n \in Nat /\ q \in Seq({q[i] : i \in DOMAIN q}) /\ SubSeq(q, 1, n) = q
  BY ListHas, SubSeqFull DEF IsList
<1> HIDE DEF n
<1> DEFINE joined(i) == g[i] = SubSeq(q, 1, Smaller(i * l, n))
           N == {i \in 1..p : ~joined(i)}
<1>4. N = {}
  <2> SUFFICES ASSUME N # {} PROVE FALSE
    OBVIOUS
  <2>1. N \subseteq Nat
    OBVIOUS
  <2>2. PICK i \in N : \A j \in N : i <= j
    <3> HIDE DEF N
    <3> QED
      BY <2>1, LeastOfSet
  <2> DEFINE from == (i - 1) * l
             to == Smaller(i * l, n)
  <2>3. i \in 1..p /\ from \in Int /\ i * l \in Int /\ i * l = from + l /\ from < n
    <3>1. i \in 1..p
      BY <2>2
    <3> QED
      BY <3>1 DEF n
  <2>4. parts[i] = SubSeq(q, from + 1, to)
    BY <2>3 DEF Part, n
  <2>5. CASE i = 1
    <3>1. from = 0
      BY <2>5
    <3>2. g[i] = SubSeq(q, 1, to)
      <4> HIDE DEF from, to
      <4> QED
        BY <1>2, <2>3, <2>4, <2>5, <3>1
    <3> QED
      BY <2>2, <3>2
  <2>6. CASE i # 1
    <3>1. i - 1 \in 1..p /\ joined(i - 1)
      <4>1. i - 1 \in 1..p /\ i - 1 \notin N
        <5> HIDE DEF joined
        <5> QED
          BY <2>2, <2>3, <2>6
      <4> QED
        BY <4>1
    <3>2. from \in Nat
      <4>1. i - 1 \in Nat
        BY <2>3
      <4> QED
        BY <4>1
    <3>3. g[i - 1] = SubSeq(q, 1, from)
      <4>1. Smaller(from, n) = from
        <5> HIDE DEF from
        <5> QED
          BY <1>3, <2>3 DEF Smaller
      <4> QED
        BY <3>1, <4>1
    <3>4. g[i] = g[i - 1] \o parts[i]
      BY <1>2, <2>3, <2>6
    <3> HIDE DEF from
    <3>5. to \in Nat /\ from <= to /\ to <= n
      BY <1>3, <2>3, <3>2 DEF Smaller
    <3> HIDE DEF to
    <3>6. SubSeq(q, 1, from) \o SubSeq(q, from + 1, to) = SubSeq(q, 1, to)
      <4>1. 1 \in 1..Len(q) + 1 /\ from \in (1 - 1)..Len(q) /\ to \in from..Len(q)
        BY <1>3, <3>2, <3>5 DEF n
      <4> QED
        BY <1>3, <4>1, ConcatAdjacentSubSeq
    <3>7. g[i] = SubSeq(q, 1, to)
      BY <2>4, <3>3, <3>4, <3>6
    <3> QED
      BY <2>2, <3>7 DEF to
  <2> QED
    BY <2>5, <2>6
<1>5. g[p] = SubSeq(q, 1, n)
  <2>1. joined(p)
    <3> HIDE DEF joined
    <3> QED
      BY <1>4
  <2>2. Smaller(p * l, n) = n
    <3> DEFINE u == p * l
    <3>1. u \in Int /\ n <= u
      BY DEF n
    <3> HIDE DEF u
    <3>2. Smaller(u, n) = n
      BY <1>3, <3>1 DEF Smaller
    <3> QED
      BY <3>2 DEF u
  <2> QED
    BY <2>1, <2>2
<1> QED
  BY <1>1, <1>3, <1>5

(* Root: a list that does not fail is run through to its end.              *)
LEMMA RunToTheEnd ==
  ASSUME NEW a, IsList(a), \A i \in DOMAIN Until(a, 0) : Until(a, 0)[i].entry # Failure
  PROVE  Until(a, 0) = a /\ \A i \in 1..Len(a) : a[i].entry # Failure
<1> DEFINE coming == {i \in DOMAIN a : Comes(a[i])}
           ends == {i \in coming : \/ a[i].entry = Failure
                                   \/ (0 # 0 /\ Cardinality({j \in coming : j <= i}) = 0)}
           last == CHOOSE i \in ends : \A j \in ends : i <= j
           run == Until(a, 0)
<1>1. run = IF ends = {} THEN a ELSE SubSeq(a, 1, last)
  BY DEF Until
<1>2. Len(a) \in Nat /\ DOMAIN a = 1..Len(a)
  BY ListHas
<1>3. Failure # NoEntry
  BY DEF Failure, NoEntry
<1>4. \A i : i \in ends <=> i \in 1..Len(a) /\ a[i].entry = Failure
  BY <1>2, <1>3 DEF Comes
<1> HIDE DEF ends
<1>5. ends = {}
  <2> SUFFICES ASSUME ends # {} PROVE FALSE
    OBVIOUS
  <2>1. last \in ends
    <3>1. ends \subseteq Nat
      BY <1>2, <1>4
    <3>2. \E m \in ends : \A i \in ends : m <= i
      BY <3>1, LeastOfSet
    <3> QED
      BY <3>2
  <2>2. run = SubSeq(a, 1, last)
    BY <1>1
  <2> HIDE DEF last, run
  <2>3. last \in 1..Len(a) /\ a[last].entry = Failure
    BY <1>4, <2>1
  <2>4. last \in Int /\ 1 <= last /\ last <= Len(a) /\ last - 1 + 1 = last /\ 1 + last - 1 = last /\ last \in 1..last
    BY <1>2, <2>3
  <2>5. IsList(run) /\ Len(run) = last /\ run[last] = a[last]
    BY <2>2, <2>4, Slice
  <2>6. last \in DOMAIN run
    BY <2>4, <2>5, ListHas
  <2> QED
    BY <2>3, <2>5, <2>6 DEF run
<1> QED
  BY <1>1, <1>4, <1>5

(* Shard: what the n-th document holds of a list that does not fail.       *)
LEMMA ShardIs ==
  ASSUME NEW a, IsList(a), \A i \in 1..Len(a) : a[i].entry # Failure, NEW n \in Nat \ {0}
  PROVE  LET all == EntriesOf(a) IN
         Document(n, Until(a, n * Limit)) =
           IF Len(all) <= (n - 1) * Limit THEN [kind |-> "absent"]
           ELSE [kind |-> "urlset", entries |-> Part(all, Limit, n)]
<1> DEFINE needed == n * Limit
           from == (n - 1) * Limit
           run == Until(a, needed)
           all == EntriesOf(a)
           some == EntriesOf(run)
           to == Smaller(needed, Len(all))
<1>1. needed \in Nat \ {0} /\ from \in Nat /\ needed = from + Limit /\ Limit \in Nat \ {0}
  <2>1. Limit \in Nat \ {0} /\ n - 1 \in Nat
    BY SitemapAssumption
  <2>2. from \in Nat /\ needed \in Nat /\ needed = from + Limit
    BY <2>1
  <2> HIDE DEF needed, from
  <2> QED
    BY <2>1, <2>2
<1>2. Part(all, Limit, n) = SubSeq(all, from + 1, to)
  BY DEF Part
<1> HIDE DEF needed, from
<1>3. /\ IsList(all) /\ IsList(some)
      /\ Len(some) = IF Len(all) <= needed THEN Len(all) ELSE needed
      /\ \A i \in 1..Len(some) : some[i] = all[i]
      /\ \A i \in DOMAIN run : run[i].entry # Failure
  BY <1>1, UntilEntries
<1>4. Document(n, run) = IF Held(some, n) = <<>> THEN [kind |-> "absent"] ELSE [kind |-> "urlset", entries |-> Held(some, n)]
  BY <1>3 DEF Document
<1>5. Held(some, n) = SubSeq(some, from + 1, Len(some))
  BY DEF Held, from
<1> HIDE DEF run, all, some
<1>6. Len(all) \in Nat /\ Len(some) = to
  BY <1>1, <1>3, ListHas DEF Smaller
<1>7. to \in Nat /\ (Len(all) <= from => to = Len(all)) /\ (~(Len(all) <= from) => from < to /\ to <= needed /\ to <= Len(all))
  BY <1>1, <1>6 DEF Smaller
<1> HIDE DEF to
<1>8. CASE Len(all) <= from
  <2>1. to < from + 1 /\ from + 1 \in Int /\ to \in Int
    BY <1>1, <1>6, <1>7, <1>8
  <2>2. Held(some, n) = <<>>
    BY <1>5, <1>6, <2>1, SubSeqEmpty
  <2> QED
    BY <1>4, <1>8, <2>2 DEF from, all, run, needed
<1>9. CASE ~(Len(all) <= from)
  <2> DEFINE x == SubSeq(some, from + 1, to)
             y == SubSeq(all, from + 1, to)
  <2>1. from + 1 \in Int /\ to \in Int /\ 1 <= from + 1 /\ to <= Len(some) /\ to <= Len(all) /\ from + 1 <= to
    BY <1>1, <1>6, <1>7, <1>9
  <2>2. /\ IsList(x) /\ Len(x) = to - (from + 1) + 1 /\ \A i \in 1..to - (from + 1) + 1 : x[i] = some[from + 1 + i - 1]
        /\ IsList(y) /\ Len(y) = to - (from + 1) + 1 /\ \A i \in 1..to - (from + 1) + 1 : y[i] = all[from + 1 + i - 1]
    BY <1>3, <2>1, Slice
  <2> HIDE DEF x, y
  <2>3. \A i \in 1..to - (from + 1) + 1 : x[i] = y[i]
    <3> SUFFICES ASSUME NEW i \in 1..to - (from + 1) + 1 PROVE some[from + 1 + i - 1] = all[from + 1 + i - 1]
      BY <2>2
    <3>1. from + 1 + i - 1 \in 1..Len(some)
      BY <1>1, <1>6, <1>7
    <3> QED
      BY <1>3, <3>1
  <2>4. x = y
    BY <2>2, <2>3, ListsAreEqual
  <2>5. x # <<>>
    <3>1. Len(x) # 0
      BY <1>1, <1>7, <2>1, <2>2
    <3> QED
      BY <3>1, EmptyIsList
  <2>6. Held(some, n) = x
    BY <1>5, <1>6 DEF x
  <2>7. Document(n, run) = [kind |-> "urlset", entries |-> Part(all, Limit, n)]
    BY <1>2, <1>4, <2>4, <2>5, <2>6 DEF y
  <2> QED
    BY <1>9, <2>7 DEF from, all, run, needed
<1> QED
  BY <1>8, <1>9

(* What is read of the root and its shards is the list, from end to end.   *)
ShardsOf(a, shards) ==
  \A n \in 1..(Shards(Len(EntriesOf(a))) + 1) : shards[n] = Document(n, Until(a, n * Limit))

LEMMA ReadFromEndToEnd ==
  ASSUME NEW a, IsList(a), \A i \in 1..Len(a) : a[i].entry # Failure, Len(EntriesOf(a)) > Limit,
         NEW shards, ShardsOf(a, shards)
  PROVE  LET all == EntriesOf(a)  last == Shards(Len(all))
         IN  /\ \A n \in 1..last : shards[n].kind = "urlset" /\ Len(shards[n].entries) <= Limit
             /\ shards[last + 1].kind = "absent"
             /\ S!FlattenSeq([n \in 1..last |-> shards[n].entries]) = all
<1> DEFINE all == EntriesOf(a)
           last == Shards(Len(all))
           shard(n) == Document(n, Until(a, n * Limit))
           parts == [n \in 1..last |-> shards[n].entries]
<1>1. IsList(all) /\ Len(all) \in Nat /\ Limit \in Nat \ {0}
  <2>1. PICK g : Collects(a, Len(a), g) /\ EntriesOf(a) = g[Len(a)]
    BY EntriesCollect
  <2>2. Len(a) \in Nat
    BY ListHas
  <2>3. \A i \in 0..Len(a) : IsList(g[i])
    BY <2>1, <2>2, CollectedAre
  <2> QED
    BY <2>1, <2>2, <2>3, ListHas, SitemapAssumption
<1>2. last \in Nat /\ Len(all) <= last * Limit /\ \A i \in 1..last : (i - 1) * Limit < Len(all)
  <2> HIDE DEF all
  <2> QED
    BY <1>1, PartsCover DEF Shards
<1>3. \A n \in Nat \ {0} : shard(n) = IF Len(all) <= (n - 1) * Limit THEN [kind |-> "absent"]
                                         ELSE [kind |-> "urlset", entries |-> Part(all, Limit, n)]
  BY ShardIs
<1>4. \A n \in 1..(last + 1) : shards[n] = shard(n)
  BY DEF ShardsOf
<1>5. Len(all) > Limit
  OBVIOUS
<1> HIDE DEF all, shard
<1>6. last # 0
  <2>1. 0 * Limit = 0
    BY <1>1
  <2> HIDE DEF last
  <2> QED
    BY <1>1, <1>2, <1>5, <2>1
<1> HIDE DEF last
<1>7. ASSUME NEW n \in 1..last PROVE shards[n].kind = "urlset" /\ shards[n].entries = Part(all, Limit, n)
  <2> DEFINE from == (n - 1) * Limit
             part == Part(all, Limit, n)
  <2>1. n \in 1..(last + 1) /\ n \in Nat \ {0} /\ from < Len(all) /\ from \in Int
    BY <1>1, <1>2
  <2>2. shard(n) = IF Len(all) <= from THEN [kind |-> "absent"] ELSE [kind |-> "urlset", entries |-> part]
    BY <1>3, <2>1
  <2>3. shards[n] = shard(n)
    BY <1>4, <2>1
  <2> HIDE DEF from, part
  <2>4. shard(n) = [kind |-> "urlset", entries |-> part]
    BY <1>1, <2>1, <2>2
  <2>5. shard(n).kind = "urlset" /\ shard(n).entries = part
    BY <2>4
  <2> QED
    BY <2>3, <2>5 DEF part
<1>8. ASSUME NEW n \in 1..last PROVE Len(Part(all, Limit, n)) <= Limit
  <2> DEFINE from == (n - 1) * Limit
             to == Smaller(n * Limit, Len(all))
  <2>1. from \in Nat /\ n * Limit = from + Limit /\ n * Limit \in Int
    <3>1. n - 1 \in Nat /\ n \in Int /\ Limit \in Int
      BY <1>1, <1>2
    <3> QED
      BY <1>1, <3>1
  <2>2. from < Len(all)
    BY <1>2
  <2>3. Part(all, Limit, n) = SubSeq(all, from + 1, to)
    BY DEF Part
  <2> HIDE DEF from
  <2>4. to \in Int /\ to <= Len(all) /\ to - (from + 1) + 1 <= Limit /\ from + 1 \in Int /\ 1 <= from + 1
    BY <1>1, <2>1, <2>2 DEF Smaller
  <2> HIDE DEF to
  <2>5. Len(SubSeq(all, from + 1, to)) = IF from + 1 <= to THEN to - (from + 1) + 1 ELSE 0
    BY <1>1, <2>4, Slice
  <2> QED
    BY <1>1, <2>3, <2>4, <2>5
<1>9. shards[last + 1].kind = "absent"
  <2>1. last + 1 \in 1..(last + 1) /\ last + 1 \in Nat \ {0} /\ last + 1 - 1 = last
    BY <1>2
  <2>2. shard(last + 1) = [kind |-> "absent"]
    BY <1>2, <1>3, <2>1
  <2> QED
    BY <1>4, <2>1, <2>2
<1>10. S!FlattenSeq(parts) = all
  <2>1. \A n \in 1..last : parts[n] = Part(all, Limit, n)
    <3> SUFFICES ASSUME NEW n \in 1..last PROVE parts[n] = Part(all, Limit, n)
      OBVIOUS
    <3>1. shards[n].entries = Part(all, Limit, n)
      BY <1>7
    <3> QED
      BY <3>1
  <2>2. IsList(parts) /\ Len(parts) = last
    <3> DEFINE T == {parts[n] : n \in 1..last}
    <3>1. parts \in [1..last -> T]
      OBVIOUS
    <3> HIDE DEF T, parts
    <3> QED
      BY <1>2, <3>1, FunctionIsList
  <2> HIDE DEF parts
  <2>3. last \in Nat \ {0}
    BY <1>2, <1>6
  <2> QED
    BY <1>1, <1>2, <2>1, <2>2, <2>3, PartsJoin
<1>11. \A n \in 1..last : shards[n].kind = "urlset" /\ Len(shards[n].entries) <= Limit
  <2> SUFFICES ASSUME NEW n \in 1..last PROVE shards[n].kind = "urlset" /\ Len(shards[n].entries) <= Limit
    OBVIOUS
  <2>1. shards[n].kind = "urlset" /\ shards[n].entries = Part(all, Limit, n)
    BY <1>7
  <2> QED
    BY <1>8, <2>1
<1> QED
  BY <1>9, <1>10, <1>11 DEF all, last

LEMMA ShardsHold ==
  ASSUME IsList(Steps(site, broken)),
         (\A i \in 1..Len(Steps(site, broken)) : Steps(site, broken)[i].entry # Failure) =>
           /\ Len(EntriesOf(Steps(site, broken))) = Cardinality(Wanted)
           /\ Elements(EntriesOf(Steps(site, broken))) = Wanted
  PROVE  ShardsHoldTheSite
<1> DEFINE a == Steps(site, broken)
           root == MadeOf(0, a)
           all == EntriesOf(a)
           shards == [n \in 1..(IF root.kind = "index" THEN root.shards + 1 ELSE 0) |-> MadeOf(n, a)]
<1> SUFFICES ASSUME root.kind # "failed" PROVE ReadWhole(root, shards)
  BY DEF ShardsHoldTheSite
<1>1. \A n : MadeOf(n, a) = Document(n, Until(a, n * Limit))
  BY DEF MadeOf
<1>2. root = Document(0, Until(a, 0))
  <2>1. 0 * Limit = 0
    BY SitemapAssumption
  <2> QED
    BY <1>1, <2>1
<1> HIDE DEF a
<1>3. \A i \in DOMAIN Until(a, 0) : Until(a, 0)[i].entry # Failure
  BY <1>2 DEF Document
<1>4. Until(a, 0) = a /\ \A i \in 1..Len(a) : a[i].entry # Failure
  BY <1>3, RunToTheEnd DEF a
<1>5. Len(all) = Cardinality(Wanted) /\ Elements(all) = Wanted
  BY <1>4 DEF a
<1>6. root = IF Len(all) > Limit THEN [kind |-> "index", shards |-> Shards(Len(all))] ELSE [kind |-> "urlset", entries |-> all]
  BY <1>2, <1>3, <1>4 DEF Document
<1>7. CASE ~(Len(all) > Limit)
  <2>1. root.kind = "urlset" /\ root.entries = all
    BY <1>6, <1>7
  <2> HIDE DEF root, shards, all
  <2> QED
    BY <1>5, <2>1 DEF ReadWhole
<1>8. CASE Len(all) > Limit
  <2>1. root.kind = "index" /\ root.shards = Shards(Len(all))
    BY <1>6, <1>8
  <2>2. ShardsOf(a, shards)
    <3> HIDE DEF root
    <3> QED
      BY <1>1, <2>1 DEF ShardsOf
  <2> HIDE DEF root, shards
  <2>3. /\ \A n \in 1..Shards(Len(all)) : shards[n].kind = "urlset" /\ Len(shards[n].entries) <= Limit
        /\ shards[Shards(Len(all)) + 1].kind = "absent"
        /\ S!FlattenSeq([n \in 1..Shards(Len(all)) |-> shards[n].entries]) = all
    <3>1. IsList(a)
      BY DEF a
    <3> QED
      BY <1>4, <1>8, <2>2, <3>1, ReadFromEndToEnd
  <2> HIDE DEF all
  <2> QED
    BY <1>5, <2>1, <2>3 DEF ReadWhole
<1> QED
  BY <1>7, <1>8
-----------------------------------------------------------------------------
(* The entries a list comes to, and whether it comes to each once.         *)
Yields(a) == Yielded(a, Len(a))
Single(a) == Apart(a, Len(a))

LEMMA YieldsOf ==
  ASSUME NEW a, IsList(a)
  PROVE  LET all == EntriesOf(a)
         IN  Elements(all) = Yields(a) /\ (Single(a) => Len(all) = Cardinality(Yields(a)))
<1> DEFINE all == EntriesOf(a)
           n == Len(a)
<1>1. PICK g : Collects(a, n, g) /\ all = g[n]
  BY EntriesCollect
<1>2. n \in Nat
  BY ListHas
<1>3. IsList(all) /\ Elements(all) = Yields(a) /\ (Single(a) => OneToOne(all))
  <2> HIDE DEF n
  <2>1. ASSUME NEW i \in 0..n
        PROVE  IsList(g[i]) /\ Elements(g[i]) = Yielded(a, i) /\ (Apart(a, n) => OneToOne(g[i]))
    <3>1. Collects(a, n, g)
      BY <1>1
    <3> QED
      BY ONLY <1>2, <3>1, CollectedAre
  <2>2. IsList(g[n]) /\ Elements(g[n]) = Yielded(a, n) /\ (Apart(a, n) => OneToOne(g[n]))
    BY <1>2, <2>1
  <2> QED
    BY <1>1, <2>2 DEF Yields, Single, n
<1> HIDE DEF all, n
<1>4. ASSUME OneToOne(all) PROVE Len(all) = Cardinality(Elements(all))
  <2> DEFINE f == [i \in 1..Len(all) |-> all[i]]
             I == 1..Len(all)
             T == Elements(all)
  <2>1. Len(all) \in Nat /\ DOMAIN all = 1..Len(all)
    BY <1>3, ListHas
  <2>2. f \in Surjection(I, T)
    BY <2>1 DEF Surjection, Elements
  <2>3. f \in Injection(I, T)
    BY <1>4, <2>1 DEF Injection, IsInjective, Elements, OneToOne
  <2>4. IsFiniteSet(I) /\ Cardinality(I) = Len(all)
    <3>1. Cardinality(1..Len(all)) = (IF 1 > Len(all) THEN 0 ELSE Len(all) - 1 + 1) /\ IsFiniteSet(1..Len(all))
      BY ONLY <2>1, FS_Interval
    <3> QED
      BY <2>1, <3>1
  <2> HIDE DEF f, I, T
  <2>5. Cardinality(T) = Cardinality(I)
    BY <2>2, <2>3, <2>4, FS_Surjection
  <2> QED
    BY <2>4, <2>5 DEF T
<1> QED
  BY <1>3, <1>4 DEF all

LEMMA SingleIs ==
  ASSUME NEW a
  PROVE  /\ Single(a) <=> \A i, j \in 1..Len(a) : Comes(a[i]) /\ a[i].entry = a[j].entry => i = j
         /\ \A x : x \in Yields(a) <=> \E i \in 1..Len(a) : Comes(a[i]) /\ a[i].entry = x
BY DEF Single, Apart, Yields, Yielded, Comings, Comes

LEMMA YieldsBoth ==
  ASSUME NEW a, NEW b, IsList(a), IsList(b)
  PROVE  /\ Yields(a \o b) = Yields(a) \cup Yields(b)
         /\ Single(a) /\ Single(b) /\ Yields(a) \cap Yields(b) = {} => Single(a \o b)
<1> DEFINE c == a \o b
<1>1. /\ Len(a) \in Nat /\ Len(b) \in Nat /\ Len(c) = Len(a) + Len(b)
      /\ \A i \in 1..Len(a) : c[i] = a[i]
      /\ \A i \in 1..Len(b) : c[Len(a) + i] = b[i]
  BY ListHas, Concatenated
<1> HIDE DEF c
<1>2. \A i \in 1..Len(c) : ~(i <= Len(a)) => i - Len(a) \in 1..Len(b) /\ c[i] = b[i - Len(a)]
  <2> SUFFICES ASSUME NEW i \in 1..Len(c), ~(i <= Len(a)) PROVE i - Len(a) \in 1..Len(b) /\ c[i] = b[i - Len(a)]
    OBVIOUS
  <2>1. i - Len(a) \in 1..Len(b) /\ Len(a) + (i - Len(a)) = i
    BY <1>1
  <2> QED
    BY <1>1, <2>1
<1>3. \A i \in 1..Len(c) : i <= Len(a) => i \in 1..Len(a) /\ c[i] = a[i]
  BY <1>1
<1>4. Yields(c) = Yields(a) \cup Yields(b)
  <2>1. ASSUME NEW x \in Yields(c) PROVE x \in Yields(a) \cup Yields(b)
    <3>1. PICK i \in 1..Len(c) : Comes(c[i]) /\ c[i].entry = x
      BY <2>1, SingleIs
    <3>2. CASE i <= Len(a)
      BY <1>3, <3>1, <3>2, SingleIs
    <3>3. CASE ~(i <= Len(a))
      BY <1>2, <3>1, <3>3, SingleIs
    <3> QED
      BY <3>2, <3>3
  <2>2. ASSUME NEW x \in Yields(a) PROVE x \in Yields(c)
    <3>1. PICK i \in 1..Len(a) : Comes(a[i]) /\ a[i].entry = x
      BY <2>2, SingleIs
    <3>2. i \in 1..Len(c) /\ c[i] = a[i]
      BY <1>1
    <3> QED
      BY <3>1, <3>2, SingleIs
  <2>3. ASSUME NEW x \in Yields(b) PROVE x \in Yields(c)
    <3>1. PICK i \in 1..Len(b) : Comes(b[i]) /\ b[i].entry = x
      BY <2>3, SingleIs
    <3>2. Len(a) + i \in 1..Len(c) /\ c[Len(a) + i] = b[i]
      BY <1>1
    <3> QED
      BY <3>1, <3>2, SingleIs
  <2> QED
    BY <2>1, <2>2, <2>3
<1>5. ASSUME Single(a), Single(b), Yields(a) \cap Yields(b) = {} PROVE Single(c)
  <2> SUFFICES ASSUME NEW i \in 1..Len(c), NEW j \in 1..Len(c), Comes(c[i]), c[i].entry = c[j].entry PROVE i = j
    BY SingleIs
  <2>1. Comes(c[j])
    BY DEF Comes
  <2>2. \A k \in 1..Len(c) : Comes(c[k]) => IF k <= Len(a) THEN c[k].entry \in Yields(a) ELSE c[k].entry \in Yields(b)
    <3> SUFFICES ASSUME NEW k \in 1..Len(c), Comes(c[k])
                 PROVE  IF k <= Len(a) THEN c[k].entry \in Yields(a) ELSE c[k].entry \in Yields(b)
      OBVIOUS
    <3>1. CASE k <= Len(a)
      BY <1>3, <3>1, SingleIs
    <3>2. CASE ~(k <= Len(a))
      BY <1>2, <3>2, SingleIs
    <3> QED
      BY <3>1, <3>2
  <2>3. i <= Len(a) <=> j <= Len(a)
    BY <1>5, <2>1, <2>2
  <2>4. CASE i <= Len(a)
    BY <1>3, <1>5, <2>3, <2>4, SingleIs
  <2>5. CASE ~(i <= Len(a))
    <3> DEFINE k == i - Len(a)
               l == j - Len(a)
    <3>1. k \in 1..Len(b) /\ l \in 1..Len(b) /\ c[i] = b[k] /\ c[j] = b[l]
      BY <1>2, <2>3, <2>5
    <3> HIDE DEF k, l
    <3>2. k = l
      BY <1>5, <3>1, SingleIs
    <3> QED
      BY <1>1, <3>2 DEF k, l
  <2> QED
    BY <2>4, <2>5
<1> QED
  BY <1>4, <1>5 DEF c

LEMMA YieldsJoined ==
  ASSUME NEW q, IsList(q), \A i \in 1..Len(q) : IsList(q[i])
  PROVE  LET all == S!FlattenSeq(q)
         IN  /\ IsList(all) /\ Yields(all) = UNION {Yields(q[i]) : i \in 1..Len(q)}
             /\ (/\ \A i \in 1..Len(q) : Single(q[i])
                 /\ \A i, j \in 1..Len(q) : i # j => Yields(q[i]) \cap Yields(q[j]) = {}) => Single(all)
<1> DEFINE n == Len(q)
           upto(k) == UNION {Yields(q[i]) : i \in 1..k}
           single == /\ \A i \in 1..n : Single(q[i])
                     /\ \A i, j \in 1..n : i # j => Yields(q[i]) \cap Yields(q[j]) = {}
<1>1. n \in Nat
  BY ListHas
<1>2. CASE n = 0
  <2>1. S!FlattenSeq(q) = <<>>
    <3>1. q = <<>>
      BY <1>2, ListsAreEqual, EmptyIsList
    <3> QED
      BY <3>1, EmptyIsList DEF S!FlattenSeq
  <2>2. Yields(<<>>) = {} /\ Single(<<>>)
    BY SingleIs, EmptyIsList
  <2>3. 1..n = {}
    BY <1>2
  <2> QED
    BY <2>1, <2>2, <2>3, EmptyIsList
<1>3. CASE n # 0
  <2>1. PICK g : Joins(q, n, g) /\ S!FlattenSeq(q) = g[n]
    BY <1>3, Flattened
  <2>2. \A i \in 1..n : g[i] = IF i = 1 THEN q[i] ELSE g[i - 1] \o q[i]
    BY <2>1 DEF Joins
  <2> DEFINE right(k) == IsList(g[k]) /\ Yields(g[k]) = upto(k) /\ (single => Single(g[k]))
             N == {k \in 1..n : ~right(k)}
  <2>3. N = {}
    <3> SUFFICES ASSUME N # {} PROVE FALSE
      OBVIOUS
    <3>1. N \subseteq Nat
      BY <1>1
    <3>2. PICK k \in N : \A j \in N : k <= j
      <4> HIDE DEF N
      <4> QED
        BY <3>1, LeastOfSet
    <3>3. k \in 1..n
      BY <3>2
    <3>4. CASE k = 1
      <4>1. g[k] = q[k] /\ upto(k) = Yields(q[k])
        BY <2>2, <3>3, <3>4
      <4>2. right(k)
        <5> HIDE DEF upto
        <5> QED
          BY <3>3, <4>1
      <4> HIDE DEF right
      <4> QED
        BY <3>2, <4>2
    <3>5. CASE k # 1
      <4>1. k - 1 \in 1..n /\ right(k - 1)
        <5> HIDE DEF right
        <5> QED
          BY <1>1, <3>2, <3>3, <3>5
      <4> DEFINE a == g[k - 1]
                 b == q[k]
      <4>2. g[k] = a \o b /\ IsList(a) /\ IsList(b) /\ Yields(a) = upto(k - 1)
        BY <2>2, <3>3, <3>5, <4>1
      <4>3. upto(k) = upto(k - 1) \cup Yields(b)
        <5>1. 1..k = 1..(k - 1) \cup {k}
          BY <1>1, <3>3
        <5> QED
          BY <5>1
      <4>4. ASSUME single PROVE Single(a) /\ Single(b) /\ Yields(a) \cap Yields(b) = {}
        <5>1. Single(a) /\ Single(b)
          BY <3>3, <4>1, <4>4
        <5>2. \A i \in 1..(k - 1) : Yields(q[i]) \cap Yields(q[k]) = {}
          <6> SUFFICES ASSUME NEW i \in 1..(k - 1) PROVE Yields(q[i]) \cap Yields(q[k]) = {}
            OBVIOUS
          <6>1. i \in 1..n /\ i # k
            BY <1>1, <3>3
          <6> QED
            BY <3>3, <4>4, <6>1
        <5> QED
          BY <4>2, <5>1, <5>2
      <4> HIDE DEF a, b, upto, single
      <4>5. IsList(a \o b) /\ Yields(a \o b) = upto(k) /\ (single => Single(a \o b))
        BY <4>2, <4>3, <4>4, YieldsBoth, Concatenated
      <4>6. right(k)
        BY <4>2, <4>5
      <4> HIDE DEF right
      <4> QED
        BY <3>2, <4>6
    <3> QED
      BY <3>4, <3>5
  <2>4. right(n)
    <3> HIDE DEF right
    <3> QED
      BY <1>1, <1>3, <2>3
  <2> QED
    BY <2>1, <2>4
<1> QED
  BY <1>2, <1>3
-----------------------------------------------------------------------------
(* FromRoutes: what is listed, each once and all of it, in the order of    *)
(* the paths.                                                              *)
LEMMA InOrder ==
  ASSUME NEW T, IsFiniteSet(T),
         \A d, e \in T : d # e => (Before(d.path, e.path) <=> ~Before(e.path, d.path)),
         \A d \in T : ~Before(d.path, d.path),
         \A c, d, e \in T : Before(c.path, d.path) /\ Before(d.path, e.path) => Before(c.path, e.path)
  PROVE  /\ Cardinality(T) \in Nat
         /\ \A i \in 1..Cardinality(T) : Nth(T, i) \in T
         /\ \A i, j \in 1..Cardinality(T) : Nth(T, i) = Nth(T, j) => i = j
         /\ \A d \in T : \E i \in 1..Cardinality(T) : Nth(T, i) = d
<1> DEFINE n == Cardinality(T)
           rank == [d \in T |-> Cardinality(Below(T, d))]
           ranks == 0..(n - 1)
<1>1. n \in Nat
  BY FS_CardinalityType
<1>2. ASSUME NEW d \in T PROVE IsFiniteSet(Below(T, d)) /\ Cardinality(Below(T, d)) \in ranks
  <2>1. Below(T, d) \in SUBSET T /\ d \notin Below(T, d)
    BY DEF Below
  <2>2. IsFiniteSet(Below(T, d)) /\ Cardinality(Below(T, d)) <= n /\ Cardinality(Below(T, d)) # n
    <3>1. Below(T, d) # T
      BY <2>1
    <3> QED
      BY <2>1, <3>1, FS_Subset
  <2>3. Cardinality(Below(T, d)) \in Nat
    BY <2>2, FS_CardinalityType
  <2> HIDE DEF n
  <2> QED
    BY <1>1, <2>2, <2>3
<1>3. ASSUME NEW d \in T, NEW e \in T, Before(d.path, e.path) PROVE Cardinality(Below(T, d)) # Cardinality(Below(T, e))
  <2>1. Below(T, d) \in SUBSET Below(T, e) /\ d \in Below(T, e) /\ d \notin Below(T, d)
    BY <1>3 DEF Below
  <2>2. IsFiniteSet(Below(T, e)) /\ Below(T, d) # Below(T, e)
    BY <1>2, <2>1
  <2> QED
    BY <2>1, <2>2, FS_Subset
<1>4. \A d, e \in T : Cardinality(Below(T, d)) = Cardinality(Below(T, e)) => d = e
  BY <1>3
<1>5. rank \in Injection(T, ranks)
  BY <1>2, <1>4 DEF Injection, IsInjective
<1>6. rank \in Surjection(T, ranks)
  <2>1. IsFiniteSet(ranks) /\ Cardinality(ranks) = n
    <3> HIDE DEF n
    <3>1. 0 \in Int /\ n - 1 \in Int
      BY <1>1
    <3>2. IsFiniteSet(0..(n - 1)) /\ Cardinality(0..(n - 1)) = IF 0 > n - 1 THEN 0 ELSE n - 1 - 0 + 1
      BY ONLY <3>1, FS_Interval
    <3> QED
      BY <1>1, <3>2
  <2> HIDE DEF rank, ranks
  <2> QED
    BY <1>5, <2>1, FS_Injection
<1>7. ASSUME NEW i \in 1..n PROVE Nth(T, i) \in T /\ Cardinality(Below(T, Nth(T, i))) = i - 1
  <2>1. i - 1 \in ranks
    BY <1>1
  <2>2. PICK d \in T : rank[d] = i - 1
    BY <1>6, <2>1 DEF Surjection
  <2>3. \E x \in T : Cardinality(Below(T, x)) = i - 1
    BY <2>2
  <2> QED
    BY <2>3 DEF Nth
<1>8. ASSUME NEW i \in 1..n, NEW j \in 1..n, Nth(T, i) = Nth(T, j) PROVE i = j
  <2>1. i - 1 = j - 1 /\ i \in Int /\ j \in Int
    BY <1>7, <1>8
  <2> QED
    BY <2>1
<1>9. ASSUME NEW d \in T PROVE \E i \in 1..n : Nth(T, i) = d
  <2> DEFINE i == Cardinality(Below(T, d)) + 1
  <2>1. i \in 1..n /\ i - 1 = Cardinality(Below(T, d))
    <3> HIDE DEF n
    <3> QED
      BY <1>1, <1>2
  <2>2. Nth(T, i) \in T /\ Cardinality(Below(T, Nth(T, i))) = Cardinality(Below(T, d))
    <3> HIDE DEF i, n
    <3> QED
      BY <1>7, <2>1
  <2> QED
    BY <1>4, <2>1, <2>2
<1> QED
  BY <1>1, <1>7, <1>8, <1>9

LEMMA ListedOnce ==
  ASSUME IsSettings, AddressesDiffer
  PROVE  /\ \A i \in 1..Len(FromRoutes) : FromRoutes[i] \in ListedPages
         /\ \A i, j \in 1..Len(FromRoutes) : FromRoutes[i].path = FromRoutes[j].path => i = j
         /\ \A d \in ListedPages : \E i \in 1..Len(FromRoutes) : FromRoutes[i] = d
<1> DEFINE T == ListedPages
           n == Len(FromRoutes)
           pages == ListedRoutes \X ListedLocales
           at(p) == Localise(p[2], PatternOf(p[1]))
<1>1. IsFiniteSet(T) /\ n = Cardinality(T) /\ \A i \in 1..n : FromRoutes[i] = Nth(T, i)
  BY PagesAreFinite, RoutesAreFinite
<1>2. \A p, q \in pages :
        /\ p # q => at(p) # at(q) /\ (Before(at(p), at(q)) <=> ~Before(at(q), at(p)))
        /\ ~Before(at(p), at(p))
        /\ \A r \in pages : Before(at(p), at(q)) /\ Before(at(q), at(r)) => Before(at(p), at(r))
  BY DEF AddressesDiffer
<1>3. \A d \in T : \E p \in pages : d = ListedPage(p[1], p[2]) /\ d.path = at(p)
  <2> SUFFICES ASSUME NEW d \in T PROVE \E p \in pages : d = ListedPage(p[1], p[2]) /\ d.path = at(p)
    OBVIOUS
  <2>1. PICK r \in ListedRoutes, l \in ListedLocales : d = ListedPage(r, l)
    BY DEF ListedPages
  <2>2. <<r, l>> \in pages /\ d.path = at(<<r, l>>)
    BY <2>1 DEF ListedPage
  <2> QED
    BY <2>1, <2>2
<1> HIDE DEF T, at, pages, n
<1>4. ASSUME NEW d \in T, NEW e \in T, d # e
      PROVE  d.path # e.path /\ (Before(d.path, e.path) <=> ~Before(e.path, d.path))
  BY <1>2, <1>3, <1>4
<1>5. ASSUME NEW d \in T PROVE ~Before(d.path, d.path)
  BY <1>2, <1>3
<1>6. ASSUME NEW c \in T, NEW d \in T, NEW e \in T, Before(c.path, d.path), Before(d.path, e.path) PROVE Before(c.path, e.path)
  BY <1>2, <1>3, <1>6
<1>7. /\ \A i \in 1..n : Nth(T, i) \in T
      /\ \A i, j \in 1..n : Nth(T, i) = Nth(T, j) => i = j
      /\ \A d \in T : \E i \in 1..n : Nth(T, i) = d
  BY <1>1, <1>4, <1>5, <1>6, InOrder
<1>8. ASSUME NEW i \in 1..n, NEW j \in 1..n, FromRoutes[i].path = FromRoutes[j].path PROVE i = j
  BY <1>1, <1>4, <1>7, <1>8
<1> QED
  BY <1>1, <1>7, <1>8 DEF T, n

(* A listed page has an address.                                           *)
LEMMA AddressesHaveWords ==
  ASSUME IsSettings, NEW r \in ListedRoutes, NEW l
  PROVE  Localise(l, PatternOf(r)) # NoPath
<1> DEFINE pattern == settings.routes[r]
           words == [i \in DOMAIN pattern |-> pattern[i].word]
           p == PatternOf(r)
           public == Public(l, p)
<1>1. IsList(pattern)
  BY DEF ListedRoutes, Listed, IsSettings
<1>2. Len(pattern) \in Nat /\ DOMAIN pattern = 1..Len(pattern)
  BY <1>1, ListHas
<1>3. IsList(words)
  <2> DEFINE T == {words[i] : i \in 1..Len(pattern)}
  <2>1. words \in [1..Len(pattern) -> T]
    BY <1>2
  <2> HIDE DEF words, T
  <2> QED
    BY <1>2, <2>1, FunctionIsList
<1>4. IsList(p) /\ Len(p) # 0
  <2>1. p = IF words = <<>> THEN Root ELSE words
    BY DEF PatternOf
  <2>2. IsList(Root) /\ Len(Root) = 1
    BY OneIsList DEF Root
  <2> HIDE DEF words, p
  <2>3. words # <<>> => Len(words) # 0
    BY <1>3, ListsAreEqual, EmptyIsList
  <2> QED
    BY <1>3, <2>1, <2>2, <2>3
<1> HIDE DEF p
<1>5. IsList(public) /\ Len(public) = Len(p)
  <2> DEFINE T == {public[i] : i \in 1..Len(p)}
  <2>1. Len(p) \in Nat /\ DOMAIN p = 1..Len(p)
    BY <1>4, ListHas
  <2>2. public \in [1..Len(p) -> T]
    BY <2>1 DEF Public, Translate
  <2> HIDE DEF public, T
  <2> QED
    BY <2>1, <2>2, FunctionIsList
<1> DEFINE q == <<l>> \o public
<1>6. IsList(<<l>>) /\ Len(<<l>>) = 1
  BY OneIsList
<1>7. Len(q) = 1 + Len(public) /\ Len(public) \in Nat
  <2> HIDE DEF public
  <2> QED
    BY <1>5, <1>6, Concatenated, ListHas
<1>8. Len(q) # 0 /\ Len(public) # 0
  <2> HIDE DEF public, q
  <2> QED
    BY <1>4, <1>5, <1>7
<1>9. Localise(l, p) = public \/ Localise(l, p) = <<l>> \/ Localise(l, p) = q
  BY DEF Localise
<1> HIDE DEF public, q
<1>10. public # <<>> /\ <<l>> # <<>> /\ q # <<>>
  BY <1>6, <1>8, EmptyIsList
<1> QED
  BY <1>9, <1>10 DEF NoPath, p

(* probe: what a page comes to.                                            *)
ComesTo(d) == IF SaidOf(d.route) = "noindex" THEN NoEntry ELSE FromMeta(d, SaidOf(d.route))

LEMMA ProbedIs == ASSUME NEW d PROVE Probed(d, site, broken).entry = ComesTo(d)
<1>1. CASE d.route \notin Metas \/ ~Probes \/ Fails(d.route, broken)
  <2>1. SaidOf(d.route) = "index"
    BY <1>1 DEF SaidOf
  <2>2. ComesTo(d) = EntryOf(d)
    BY <2>1 DEF ComesTo, FromMeta
  <2>3. Probed(d, site, broken).entry = EntryOf(d)
    BY <1>1 DEF Probed, Step
  <2> QED
    BY <2>2, <2>3
<1>2. CASE ~(d.route \notin Metas \/ ~Probes \/ Fails(d.route, broken))
  <2>1. SaidOf(d.route) = site.robots[d.route]
    BY <1>2 DEF SaidOf
  <2>2. Probed(d, site, broken).entry = ComesTo(d)
    BY <1>2, <2>1 DEF Probed, ComesTo, Step
  <2> QED
    BY <2>2
<1> QED
  BY <1>1, <1>2

LEMMA FromMetaIs ==
  ASSUME NEW d, NEW says
  PROVE  /\ FromMeta(d, says).path = d.path /\ FromMeta(d, says).own \in {-1, 0}
         /\ d.path # NoPath => FromMeta(d, says) # NoEntry
         /\ FromMeta([path |-> d.path, alternates |-> d.alternates], says) = FromMeta(d, says)
BY DEF FromMeta, EntryOf, NoEntry

(* The two halves of what the README promises.                             *)
WantedOf(r, l) == FromMeta([path |-> Localise(l, PatternOf(r)), alternates |-> Alternates(r)], SaidOf(r))
WantedPages == {WantedOf(r, l) : r \in {x \in ListedRoutes : SaidOf(x) # "noindex"}, l \in ListedLocales}
GivenBy(r) == {GivenPage(r, n) : n \in 1..site.pages[r]}

LEMMA ListYields ==
  ASSUME IsSettings, AddressesDiffer, IsList(derived), derived = FromRoutes
  PROVE  LET a == [i \in DOMAIN derived |-> Probed(derived[i], site, broken)]
         IN  IsList(a) /\ Single(a) /\ Yields(a) = WantedPages
<1> DEFINE n == Len(derived)
           a == [i \in DOMAIN derived |-> Probed(derived[i], site, broken)]
<1>1. n \in Nat /\ DOMAIN derived = 1..n
  BY ListHas
<1>2. /\ \A i \in 1..n : derived[i] \in ListedPages
      /\ \A i, j \in 1..n : derived[i].path = derived[j].path => i = j
      /\ \A d \in ListedPages : \E i \in 1..n : derived[i] = d
  BY ListedOnce
<1>3. IsList(a) /\ Len(a) = n
  <2> DEFINE T == {a[i] : i \in 1..n}
  <2>1. a \in [1..n -> T]
    BY <1>1
  <2> HIDE DEF a, T, n
  <2> QED
    BY <1>1, <2>1, FunctionIsList
<1>4. \A i \in 1..n : a[i].entry = ComesTo(derived[i])
  BY <1>1, ProbedIs
<1> HIDE DEF a, n
<1>5. ASSUME NEW d \in ListedPages
      PROVE  /\ ComesTo(d) # NoEntry <=> SaidOf(d.route) # "noindex"
             /\ ComesTo(d) # NoEntry => ComesTo(d).path = d.path
             /\ \E r \in ListedRoutes, l \in ListedLocales : d = ListedPage(r, l) /\ (SaidOf(r) # "noindex" => ComesTo(d) = WantedOf(r, l))
  <2>1. PICK r \in ListedRoutes, l \in ListedLocales : d = ListedPage(r, l)
    BY DEF ListedPages
  <2>2. d.route = r /\ d.path = Localise(l, PatternOf(r)) /\ d.alternates = Alternates(r)
    BY <2>1 DEF ListedPage
  <2>3. d.path # NoPath
    BY <2>2, AddressesHaveWords
  <2>4. FromMeta(d, SaidOf(r)) = WantedOf(r, l) /\ FromMeta(d, SaidOf(r)) # NoEntry /\ FromMeta(d, SaidOf(r)).path = d.path
    BY <2>2, <2>3, FromMetaIs DEF WantedOf
  <2>5. ComesTo(d) = IF SaidOf(r) = "noindex" THEN NoEntry ELSE FromMeta(d, SaidOf(r))
    BY <2>2 DEF ComesTo
  <2> QED
    BY <2>1, <2>2, <2>4, <2>5
<1>6. Single(a)
  <2> SUFFICES ASSUME NEW i \in 1..n, NEW j \in 1..n, Comes(a[i]), a[i].entry = a[j].entry PROVE i = j
    BY <1>3, SingleIs
  <2>1. derived[i] \in ListedPages /\ derived[j] \in ListedPages
    BY <1>2
  <2>2. ComesTo(derived[i]) # NoEntry /\ ComesTo(derived[i]) = ComesTo(derived[j])
    BY <1>4 DEF Comes
  <2>3. derived[i].path = derived[j].path
    BY <1>5, <2>1, <2>2
  <2> QED
    BY <1>2, <2>3
<1>7. ASSUME NEW x \in Yields(a) PROVE x \in WantedPages
  <2>1. PICK i \in 1..n : Comes(a[i]) /\ a[i].entry = x
    BY <1>3, <1>7, SingleIs
  <2>2. derived[i] \in ListedPages /\ ComesTo(derived[i]) = x /\ x # NoEntry
    BY <1>2, <1>4, <2>1 DEF Comes
  <2>3. PICK r \in ListedRoutes, l \in ListedLocales :
          derived[i] = ListedPage(r, l) /\ (SaidOf(r) # "noindex" => ComesTo(derived[i]) = WantedOf(r, l))
    BY <1>5, <2>2
  <2>4. SaidOf(r) # "noindex"
    <3>1. SaidOf(derived[i].route) # "noindex"
      BY <1>5, <2>2
    <3> QED
      BY <2>3, <3>1 DEF ListedPage
  <2> QED
    BY <2>2, <2>3, <2>4 DEF WantedPages
<1>8. ASSUME NEW x \in WantedPages PROVE x \in Yields(a)
  <2>1. PICK r \in ListedRoutes, l \in ListedLocales : SaidOf(r) # "noindex" /\ x = WantedOf(r, l)
    BY DEF WantedPages
  <2> DEFINE d == ListedPage(r, l)
  <2>2. d \in ListedPages /\ d.route = r /\ d.path = Localise(l, PatternOf(r)) /\ d.alternates = Alternates(r)
    BY DEF ListedPages, ListedPage
  <2> HIDE DEF d
  <2>3. ComesTo(d) = x
    BY <2>1, <2>2, FromMetaIs DEF ComesTo, WantedOf
  <2>4. ComesTo(d) # NoEntry
    BY <1>5, <2>1, <2>2
  <2>5. PICK i \in 1..n : derived[i] = d
    BY <1>2, <2>2
  <2>6. a[i].entry = x /\ Comes(a[i])
    BY <1>4, <2>3, <2>4, <2>5 DEF Comes
  <2> QED
    BY <1>3, <2>6, SingleIs
<1> QED
  BY <1>3, <1>6, <1>7, <1>8 DEF a

LEMMA HookYields ==
  ASSUME IsSite(site), NEW r \in Sitemaps
  PROVE  LET b == Provided(r, site, broken)
         IN  /\ IsList(b)
             /\ Fails(r, broken) => Failure \in Yields(b)
             /\ ~Fails(r, broken) => Single(b) /\ Yields(b) = GivenBy(r)
<1> DEFINE k == site.pages[r]
           page(n) == Step(Silence, FALSE, GivenPage(r, n))
           pages == [n \in 1..k |-> page(n)]
           first == Step({r}, TRUE, NoEntry)
           failed == Step(Silence, TRUE, Failure)
           b == Provided(r, site, broken)
<1>1. k \in Nat
  BY DEF IsSite
<1>2. CASE Fails(r, broken)
  <2>1. b = <<failed>>
    BY <1>2 DEF Provided
  <2>2. failed.entry = Failure /\ Comes(failed)
    BY DEF Step, Comes, Failure, NoEntry
  <2> HIDE DEF failed, b
  <2>3. IsList(b) /\ Len(b) = 1 /\ b[1] = failed
    BY <2>1, OneIsList
  <2>4. 1 \in 1..Len(b) /\ Comes(b[1]) /\ b[1].entry = Failure
    BY <2>2, <2>3
  <2>5. \A x : x \in Yields(b) <=> \E i \in 1..Len(b) : Comes(b[i]) /\ b[i].entry = x
    BY SingleIs
  <2>6. Failure \in Yields(b)
    BY ONLY <2>4, <2>5
  <2> QED
    BY <1>2, <2>3, <2>6 DEF b
<1>3. CASE ~Fails(r, broken)
  <2>1. b = <<first>> \o pages
    BY <1>3 DEF Provided
  <2>2. IsList(pages) /\ Len(pages) = k
    <3> DEFINE T == {page(n) : n \in 1..k}
    <3>1. pages \in [1..k -> T]
      <4> HIDE DEF page
      <4> QED
        OBVIOUS
    <3> HIDE DEF pages, T, k
    <3> QED
      BY <1>1, <3>1, FunctionIsList
  <2>3. IsList(<<first>>) /\ Len(<<first>>) = 1 /\ <<first>>[1] = first /\ ~Comes(first)
    <3>1. ~Comes(first)
      BY DEF Comes, Step
    <3> HIDE DEF first
    <3> QED
      BY <3>1, OneIsList
  <2>4. Single(<<first>>) /\ Yields(<<first>>) = {}
    <3> DEFINE one == <<first>>
    <3>1. Len(one) = 1 /\ ~Comes(one[1])
      BY <2>3
    <3> HIDE DEF one
    <3>2. Single(one) /\ Yields(one) = {}
      BY <3>1, SingleIs
    <3> QED
      BY <3>2 DEF one
  <2>5. \A n \in 1..k : pages[n].entry = GivenPage(r, n) /\ Comes(pages[n])
    <3> SUFFICES ASSUME NEW n \in 1..k PROVE pages[n].entry = GivenPage(r, n) /\ Comes(pages[n])
      OBVIOUS
    <3>1. pages[n].entry = GivenPage(r, n)
      BY DEF Step
    <3>2. GivenPage(r, n).own = n /\ n # 0 /\ NoEntry.own = 0
      BY <1>1 DEF GivenPage, NoEntry
    <3> HIDE DEF pages
    <3> QED
      BY <3>1, <3>2 DEF Comes
  <2> HIDE DEF pages, first, k
  <2>6. Single(pages)
    <3> SUFFICES ASSUME NEW i \in 1..k, NEW j \in 1..k, pages[i].entry = pages[j].entry PROVE i = j
      BY <2>2, SingleIs
    <3>1. GivenPage(r, i).own = i /\ GivenPage(r, j).own = j
      BY DEF GivenPage
    <3> QED
      BY <2>5, <3>1
  <2>7. Yields(pages) = GivenBy(r)
    <3>1. \A x : x \in GivenBy(r) <=> \E n \in 1..k : x = GivenPage(r, n)
      BY DEF GivenBy, k
    <3>2. \A x : x \in Yields(pages) <=> \E n \in 1..k : x = GivenPage(r, n)
      BY <2>2, <2>5, SingleIs
    <3> QED
      BY <3>1, <3>2
  <2>8. IsList(<<first>> \o pages) /\ Single(<<first>> \o pages) /\ Yields(<<first>> \o pages) = Yields(pages)
    <3> DEFINE one == <<first>>
    <3>1. IsList(one) /\ Single(one) /\ Yields(one) = {}
      BY <2>3, <2>4
    <3> HIDE DEF one
    <3>2. IsList(one \o pages)
      BY <2>2, <3>1, Concatenated
    <3>3. /\ Yields(one \o pages) = Yields(one) \cup Yields(pages)
          /\ Single(one) /\ Single(pages) /\ Yields(one) \cap Yields(pages) = {} => Single(one \o pages)
      BY <2>2, <3>1, YieldsBoth
    <3>4. IsList(one \o pages) /\ Single(one \o pages) /\ Yields(one \o pages) = Yields(pages)
      BY <2>6, <3>1, <3>2, <3>3
    <3> QED
      BY <3>4 DEF one
  <2>9. IsList(b) /\ Single(b) /\ Yields(b) = GivenBy(r)
    <3> HIDE DEF b
    <3> QED
      BY <2>1, <2>7, <2>8
  <2> HIDE DEF b
  <2>10. IsList(b) /\ (Fails(r, broken) => Failure \in Yields(b)) /\ (~Fails(r, broken) => Single(b) /\ Yields(b) = GivenBy(r))
    BY <1>3, <2>9
  <2> QED
    BY <2>10 DEF b
<1> QED
  BY <1>2, <1>3

LEMMA HooksYield ==
  ASSUME IsSettings, IsSite(site), AddressesDiffer, Sitemaps \subseteq DOMAIN settings.routes
  PROVE  LET blocks == [r \in DOMAIN settings.routes |-> IF r \in Sitemaps /\ ~Excluded(r) THEN Provided(r, site, broken) ELSE <<>>]
             b == S!FlattenSeq(blocks)
             given == UNION {GivenBy(r) : r \in {x \in Sitemaps : ~Excluded(x)}}
         IN  IsList(b) /\ (Failure \notin Yields(b) => Single(b) /\ Yields(b) = given)
<1> DEFINE n == Len(settings.routes)
           block(r) == IF r \in Sitemaps /\ ~Excluded(r) THEN Provided(r, site, broken) ELSE <<>>
           blocks == [r \in DOMAIN settings.routes |-> block(r)]
           b == S!FlattenSeq(blocks)
           asked == {x \in Sitemaps : ~Excluded(x)}
           given == UNION {GivenBy(r) : r \in asked}
<1>1. n \in Nat /\ DOMAIN settings.routes = 1..n
  BY ListHas DEF IsSettings
<1>2. IsList(blocks) /\ Len(blocks) = n /\ \A r \in 1..n : blocks[r] = block(r)
  <2> DEFINE T == {block(r) : r \in 1..n}
  <2>1. blocks \in [1..n -> T] /\ \A r \in 1..n : blocks[r] = block(r)
    <3> HIDE DEF block
    <3> QED
      BY <1>1
  <2> HIDE DEF T, blocks, n, block
  <2> QED
    BY <1>1, <2>1, FunctionIsList
<1>3. asked \subseteq 1..n
  BY <1>1
<1>4. \A r \in 1..n : IF r \in asked THEN block(r) = Provided(r, site, broken) ELSE block(r) = <<>>
  OBVIOUS
<1>5. Single(<<>>) /\ Yields(<<>>) = {}
  BY SingleIs, EmptyIsList
<1> HIDE DEF n, block, blocks, asked
<1>6. \A r \in 1..n : IsList(blocks[r])
  <2>1. \A r \in asked : IsList(Provided(r, site, broken))
    BY HookYields DEF asked
  <2> QED
    BY <1>2, <1>4, <2>1, EmptyIsList
<1>7. /\ IsList(b) /\ Yields(b) = UNION {Yields(blocks[r]) : r \in 1..n}
      /\ (/\ \A r \in 1..n : Single(blocks[r])
          /\ \A r, q \in 1..n : r # q => Yields(blocks[r]) \cap Yields(blocks[q]) = {}) => Single(b)
  BY <1>2, <1>6, YieldsJoined
<1> HIDE DEF b
<1>8. ASSUME Failure \notin Yields(b) PROVE Single(b) /\ Yields(b) = given
  <2>1. ASSUME NEW r \in asked PROVE Single(blocks[r]) /\ Yields(blocks[r]) = GivenBy(r)
    <3>1. r \in 1..n /\ r \in Sitemaps
      BY <1>3 DEF asked
    <3>2. blocks[r] = Provided(r, site, broken)
      BY <1>2, <1>4, <3>1
    <3>3. Failure \notin Yields(blocks[r])
      BY <1>7, <1>8, <3>1
    <3>4. ~Fails(r, broken)
      BY <3>1, <3>2, <3>3, HookYields
    <3>5. Single(Provided(r, site, broken)) /\ Yields(Provided(r, site, broken)) = GivenBy(r)
      BY <3>1, <3>4, HookYields
    <3> QED
      BY <3>2, <3>5
  <2>2. ASSUME NEW r \in 1..n, r \notin asked PROVE Single(blocks[r]) /\ Yields(blocks[r]) = {}
    BY <1>2, <1>4, <1>5, <2>2
  <2>3. Yields(b) = given
    BY <1>3, <1>7, <2>1, <2>2
  <2>4. \A r \in 1..n : Single(blocks[r])
    BY <2>1, <2>2
  <2>5. ASSUME NEW r \in 1..n, NEW q \in 1..n, r # q PROVE Yields(blocks[r]) \cap Yields(blocks[q]) = {}
    <3>1. CASE r \in asked /\ q \in asked
      <4>1. PatternOf(r) # PatternOf(q)
        BY <2>5, <3>1 DEF AddressesDiffer, asked
      <4>2. \A x \in GivenBy(r) : x.path = PatternOf(r)
        BY DEF GivenBy, GivenPage
      <4>3. \A x \in GivenBy(q) : x.path = PatternOf(q)
        BY DEF GivenBy, GivenPage
      <4> QED
        BY <2>1, <3>1, <4>1, <4>2, <4>3
    <3>2. CASE ~(r \in asked /\ q \in asked)
      BY <2>2, <3>2
    <3> QED
      BY <3>1, <3>2
  <2> QED
    BY <1>7, <2>3, <2>4, <2>5
<1>9. IsList(b) /\ (Failure \notin Yields(b) => Single(b) /\ Yields(b) = given)
  BY <1>7, <1>8
<1> QED
  BY <1>9 DEF b, blocks, block, asked

LEMMA StepsYield ==
  ASSUME IsSettings, IsSite(site), AddressesDiffer, Sitemaps \subseteq DOMAIN settings.routes,
         IsList(derived), derived = FromRoutes
  PROVE  LET a == Steps(site, broken)
         IN  IsList(a) /\ (Failure \notin Yields(a) => Single(a) /\ Yields(a) = Wanted)
<1> DEFINE c == [i \in DOMAIN derived |-> Probed(derived[i], site, broken)]
           b == S!FlattenSeq([r \in DOMAIN settings.routes |-> IF r \in Sitemaps /\ ~Excluded(r) THEN Provided(r, site, broken) ELSE <<>>])
           given == UNION {GivenBy(r) : r \in {x \in Sitemaps : ~Excluded(x)}}
<1>1. Steps(site, broken) = c \o b
  BY DEF Steps
<1>2. IsList(c) /\ Single(c) /\ Yields(c) = WantedPages
  BY ListYields
<1>3. IsList(b) /\ (Failure \notin Yields(b) => Single(b) /\ Yields(b) = given)
  BY HooksYield
<1>4. Wanted = WantedPages \cup given
  BY DEF Wanted, WantedPages, WantedOf, GivenBy
<1>5. WantedPages \cap given = {}
  <2>1. \A x \in WantedPages : x.own \in {-1, 0}
    <3> SUFFICES ASSUME NEW r \in ListedRoutes, NEW l \in ListedLocales PROVE WantedOf(r, l).own \in {-1, 0}
      BY DEF WantedPages
    <3> DEFINE d == [path |-> Localise(l, PatternOf(r)), alternates |-> Alternates(r)]
    <3>1. FromMeta(d, SaidOf(r)).own \in {-1, 0}
      BY FromMetaIs
    <3> QED
      BY <3>1 DEF WantedOf
  <2>2. \A r \in Sitemaps : \A x \in GivenBy(r) : x.own >= 1 /\ x.own \in Int
    BY DEF GivenBy, GivenPage, IsSite
  <2>3. \A x \in given : x.own >= 1 /\ x.own \in Int
    BY <2>2
  <2> HIDE DEF given
  <2> QED
    BY <2>1, <2>3
<1> HIDE DEF b, c, given
<1>6. Yields(c \o b) = Yields(c) \cup Yields(b) /\ (Single(c) /\ Single(b) /\ Yields(c) \cap Yields(b) = {} => Single(c \o b))
  BY <1>2, <1>3, YieldsBoth
<1>7. IsList(c \o b)
  BY <1>2, <1>3, Concatenated
<1>8. IsList(c \o b) /\ (Failure \notin Yields(c \o b) => Single(c \o b) /\ Yields(c \o b) = Wanted)
  BY <1>2, <1>3, <1>4, <1>5, <1>6, <1>7
<1> QED
  BY <1>1, <1>8

LEMMA ShardsTell ==
  ASSUME IsSettings, IsSite(site), AddressesDiffer, Sitemaps \subseteq DOMAIN settings.routes,
         IsList(derived), derived = FromRoutes
  PROVE  ShardsHoldTheSite
<1> DEFINE a == Steps(site, broken)
<1>1. IsList(a) /\ (Failure \notin Yields(a) => Single(a) /\ Yields(a) = Wanted)
  BY StepsYield
<1> HIDE DEF a
<1>2. ASSUME \A i \in 1..Len(a) : a[i].entry # Failure
      PROVE  Len(EntriesOf(a)) = Cardinality(Wanted) /\ Elements(EntriesOf(a)) = Wanted
  <2>1. Failure \notin Yields(a)
    BY <1>2, SingleIs
  <2> QED
    BY <1>1, <2>1, YieldsOf
<1> QED
  BY <1>1, <1>2, ShardsHold DEF a
-----------------------------------------------------------------------------
(* What a document is made of, whenever it was.                            *)
RunOf(d) == Until(Steps(d.site, d.broken), document * Limit)

IsMade(d) ==
  /\ d.answer = Document(document, RunOf(d))
  /\ d.expires = d.born + Lifetime(RunOf(d)) + Stale
  /\ d.born \in Nat /\ IsSite(d.site)

(* The cache holds nothing that a hook has taken back.                     *)
Stands(d) ==
  /\ IsMade(d)
  /\ d.tags = Tags(RunOf(d)) /\ ~Private(RunOf(d))
  /\ \A h \in Tags(RunOf(d)) : Alike(d.site, site, h)

Shows(d) ==
  /\ IsMade(d) /\ now <= d.expires
  /\ \A h \in Heard(RunOf(d)) : manner[h] # "timed" => Alike(d.site, site, h)

Still ==
  /\ IsSettings /\ IsList(derived) /\ document \in Nat /\ manner \in [Hooks -> Manner] /\ now \in Nat
  /\ site \in [robots : [Metas -> {"index", "noindex", "canonical"}], pages : [Sitemaps -> Nat]]

WebInv ==
  /\ Still
  /\ \A d : store = d /\ d # NoDocument => Stands(d)
  /\ \A d : seen = d /\ d # Unseen => Shows(d)

LEMMA LifetimeIs ==
  ASSUME NEW steps
  PROVE  /\ Lifetime(steps) \in Nat /\ Lifetime(steps) <= TTL /\ Lifetime(steps) >= 1
         /\ (\E h \in HeardOf(steps, TRUE) : manner[h] = "timed") => Lifetime(steps) = 1
<1>1. TTL \in Nat \ {0}
  BY SitemapAssumption
<1>2. Least({1, TTL}) = 1
  <2> DEFINE set == {1, TTL}
  <2>1. 1 \in set /\ \A y \in set : 1 <= y
    BY <1>1
  <2>2. \A x \in set : (\A y \in set : x <= y) => x = 1
    BY <1>1
  <2>3. Least(set) = CHOOSE x \in set : \A y \in set : x <= y
    BY DEF Least
  <2> HIDE DEF set
  <2>4. Least(set) \in set /\ \A y \in set : Least(set) <= y
    BY <2>1, <2>3
  <2> QED
    BY <2>2, <2>4 DEF set
<1> DEFINE timed == \E h \in HeardOf(steps, TRUE) : manner[h] = "timed"
           least == Least({1, TTL})
<1>3. Lifetime(steps) = IF timed THEN least ELSE TTL
  BY DEF Lifetime
<1> HIDE DEF timed, least
<1>4. least = 1
  BY <1>2 DEF least
<1>5. /\ Lifetime(steps) \in Nat /\ Lifetime(steps) <= TTL /\ Lifetime(steps) >= 1
      /\ timed => Lifetime(steps) = 1
  BY <1>1, <1>3, <1>4
<1> QED
  BY <1>5 DEF timed

LEMMA RunStays ==
  ASSUME NEW d, UNCHANGED <<chosen, derived, document>>
  PROVE  RunOf(d)' = RunOf(d)
<1>1. \A i : Probed(derived[i], d.site, d.broken)' = Probed(derived[i], d.site, d.broken)
  BY DEF Probed, Fails, Recorded
<1>2. \A r : Provided(r, d.site, d.broken)' = Provided(r, d.site, d.broken)
  BY DEF Provided, Fails, GivenPage, PatternOf, settings
<1>3. \A r : Excluded(r)' = Excluded(r)
  BY DEF Excluded, PatternOf, settings
<1>4. settings' = settings
  BY DEF settings
<1>5. Steps(d.site, d.broken)' = Steps(d.site, d.broken)
  BY <1>1, <1>2, <1>3, <1>4 DEF Steps
<1> QED
  BY <1>5 DEF RunOf

LEMMA HoldingShows ==
  ASSUME Still
  PROVE  LET steps == Until(Steps(site, broken), document * Limit) IN
         /\ Shows(Holding(steps))
         /\ Kept(steps) => Stands(Holding(steps))
<1> DEFINE steps == Until(Steps(site, broken), document * Limit)
           d == Holding(steps)
<1>1. RunOf(d) = steps /\ d.site = site
  BY DEF Holding, RunOf
<1>2. /\ d.answer = Document(document, steps) /\ d.expires = now + Lifetime(steps) + Stale /\ d.born = now /\ d.tags = Tags(steps)
  BY DEF Holding
<1>3. now \in Nat /\ IsSite(site) /\ Stale \in Nat
  BY SitemapAssumption DEF Still, IsSite
<1>4. \A h : Alike(site, site, h)
  BY DEF Alike
<1> HIDE DEF d, steps
<1>5. IsMade(d)
  BY <1>1, <1>2, <1>3 DEF IsMade
<1>6. Shows(d)
  <2>1. Lifetime(steps) \in Nat
    BY LifetimeIs
  <2>2. now <= d.expires
    BY <1>2, <1>3, <2>1
  <2>3. \A h : Alike(d.site, site, h)
    BY <1>1, <1>4
  <2> QED
    BY <1>5, <2>2, <2>3, Zenon DEF Shows
<1>7. Kept(steps) => Stands(d)
  BY <1>1, <1>2, <1>4, <1>5 DEF Stands, Kept
<1> QED
  BY <1>6, <1>7 DEF d, steps

LEMMA WhatStandsShows ==
  ASSUME Still, NEW d, Stands(d), now <= d.expires
  PROVE  Shows(d)
<1>1. ASSUME NEW h \in Heard(RunOf(d)), manner[h] # "timed" PROVE Alike(d.site, site, h)
  <2>1. CASE h \in Hooks
    <3>1. manner[h] = "tagged"
      BY <1>1, <2>1, HeardIs DEF Stands, Private, Still, Manner
    <3>2. h \in Tags(RunOf(d))
      BY <1>1, <3>1, HeardIs DEF Tags
    <3> QED
      BY <3>2 DEF Stands
  <2>2. CASE h \notin Hooks
    BY <2>2 DEF Alike, Hooks
  <2> QED
    BY <2>1, <2>2
<1> QED
  BY <1>1 DEF Shows, Stands

(* One document for each request that was made with the same settings.     *)
LEMMA AskKeeps ==
  ASSUME WebInv, Ask, UNCHANGED vars
  PROVE  WebInv'
<1> DEFINE steps == Until(Steps(site, broken), document * Limit)
           serves == store # NoDocument /\ now <= store.expires
<1>1. Still
  BY DEF WebInv
<1>2. Shows(Holding(steps)) /\ (Kept(steps) => Stands(Holding(steps)))
  BY <1>1, HoldingShows
<1>3. UNCHANGED <<chosen, derived, document, manner, site, now>>
  BY DEF Ask, vars
<1>4. Still'
  <2>1. settings' = settings
    BY <1>3 DEF settings
  <2> QED
    BY <1>1, <1>3, <2>1 DEF Still, IsSettings
<1>5. ASSUME NEW d, Stands(d) PROVE Stands(d)'
  BY <1>3, <1>5, RunStays DEF Stands, IsMade, Tags, Private, Lifetime
<1>6. ASSUME NEW d, Shows(d) PROVE Shows(d)'
  BY <1>3, <1>6, RunStays DEF Shows, IsMade, Lifetime
<1>7. store' = store \/ (Kept(steps) /\ store' = Holding(steps)) \/ store' = NoDocument
  BY DEF Ask
<1>8. (store # NoDocument /\ now <= store.expires /\ seen' = store) \/ seen' = Holding(steps)
  BY DEF Ask
<1> HIDE DEF steps
<1>9. ASSUME NEW d, store' = d, d # NoDocument PROVE Stands(d)
  BY <1>2, <1>7, <1>9 DEF WebInv
<1>10. ASSUME NEW d, seen' = d PROVE Shows(d)
  BY <1>1, <1>2, <1>8, <1>10, WhatStandsShows DEF WebInv
<1> QED
  BY <1>4, <1>5, <1>6, <1>9, <1>10 DEF WebInv

LEMMA PublishKeeps ==
  ASSUME WebInv, NEW h \in Hooks, Publish(h), UNCHANGED vars
  PROVE  WebInv'
<1>1. Still
  BY DEF WebInv
<1>2. UNCHANGED <<chosen, derived, document, manner, now>> /\ seen' = Unseen
  BY DEF Publish, vars
<1>3. /\ site' \in [robots : [Metas -> {"index", "noindex", "canonical"}], pages : [Sitemaps -> Nat]]
      /\ \A g \in Metas \ {h} : site'.robots[g] = site.robots[g]
      /\ \A g \in Sitemaps \ {h} : site'.pages[g] = site.pages[g]
  <2>1. CASE h \in Metas
    <3>1. PICK says \in {"index", "noindex", "canonical"} : site' = [site EXCEPT !.robots[h] = says]
      BY <2>1 DEF Publish
    <3> DEFINE robots == [site.robots EXCEPT ![h] = says]
    <3>2. robots \in [Metas -> {"index", "noindex", "canonical"}] /\ \A g \in Metas \ {h} : robots[g] = site.robots[g]
      BY <1>1, <2>1 DEF Still
    <3>3. site' = [site EXCEPT !.robots = robots]
      BY <3>1
    <3> HIDE DEF robots
    <3> QED
      BY <1>1, <3>2, <3>3 DEF Still
  <2>2. CASE h \notin Metas
    <3>1. PICK pages \in 0..MaxPages : site' = [site EXCEPT !.pages[h] = pages]
      BY <2>2 DEF Publish
    <3>2. pages \in Nat
      BY <3>1
    <3> QED
      BY <1>1, <2>2, <3>1, <3>2 DEF Still, Hooks
  <2> QED
    BY <2>1, <2>2
<1>4. Still'
  <2>1. settings' = settings
    BY <1>2 DEF settings
  <2> QED
    BY <1>1, <1>2, <1>3, <2>1 DEF Still, IsSettings
<1>5. ASSUME NEW d, store' = d, d # NoDocument PROVE Stands(d)'
  <2>1. store = d /\ Stands(d) /\ (manner[h] = "tagged" => h \notin d.tags)
    BY <1>5 DEF WebInv, Publish
  <2>2. h \notin Tags(RunOf(d))
    BY <2>1 DEF Stands, Tags
  <2>3. \A g \in Tags(RunOf(d)) : Alike(d.site, site, g)
    BY <2>1 DEF Stands
  <2>4. \A g \in Tags(RunOf(d)) : Alike(d.site, site', g)
    BY <1>3, <2>2, <2>3 DEF Alike
  <2>5. RunOf(d)' = RunOf(d)
    BY <1>2, RunStays
  <2>6. Tags(RunOf(d))' = Tags(RunOf(d))
    BY <1>2, <2>5 DEF Tags
  <2> QED
    BY <1>2, <2>1, <2>4, <2>5, <2>6 DEF Stands, IsMade, Private, Lifetime
<1> QED
  BY <1>2, <1>4, <1>5 DEF WebInv

LEMMA OthersKeep ==
  ASSUME WebInv, UNCHANGED <<chosen, derived, document, manner, site, store>>, now' \in Nat, seen' = Unseen \/ UNCHANGED <<seen, now>>
  PROVE  WebInv'
<1>1. Still'
  <2>1. settings' = settings
    BY DEF settings
  <2> QED
    BY <2>1 DEF Still, IsSettings, WebInv
<1>2. ASSUME NEW d, Stands(d) PROVE Stands(d)'
  BY <1>2, RunStays DEF Stands, IsMade, Tags, Private, Lifetime
<1>3. ASSUME NEW d, Shows(d), UNCHANGED now PROVE Shows(d)'
  BY <1>3, RunStays DEF Shows, IsMade, Lifetime
<1> QED
  BY <1>1, <1>2, <1>3 DEF WebInv

LEMMA WebStarts ==
  ASSUME chosen \in Sites, WebInit
  PROVE  WebInv
<1>1. IsSettings
  BY SitesAssumption, ConfigAssumption DEF IsSettings, settings
<1>2. IsList(derived)
  BY <1>1, RoutesAreFinite DEF WebInit
<1>3. document \in Nat /\ manner \in [Hooks -> Manner] /\ now \in Nat
  <2>1. document \in Documents /\ manner \in Manners /\ now = 0
    BY DEF WebInit
  <2> QED
    BY <2>1, SitemapAssumption DEF Documents
<1>4. site \in [robots : [Metas -> {"index", "noindex", "canonical"}], pages : [Sitemaps -> Nat]]
  BY DEF WebInit
<1> QED
  BY <1>1, <1>2, <1>3, <1>4 DEF WebInv, WebInit, Still

LEMMA WebSteps ==
  ASSUME WebInv, WebNext \/ UNCHANGED webVars, UNCHANGED vars
  PROVE  WebInv'
<1>1. CASE Pass
  BY <1>1, OthersKeep DEF Pass, vars, WebInv, Still
<1>2. CASE Ask
  BY <1>2, AskKeeps
<1>3. ASSUME NEW h \in Hooks, Publish(h) PROVE WebInv'
  BY <1>3, PublishKeeps
<1>4. ASSUME NEW h \in Hooks, Break(h) PROVE WebInv'
  BY <1>4, OthersKeep DEF Break, vars, WebInv, Still
<1>5. CASE UNCHANGED webVars
  BY <1>5, OthersKeep DEF vars, webVars, WebInv, Still
<1> QED
  BY <1>1, <1>2, <1>3, <1>4, <1>5 DEF WebNext

(* The root asks the Meta of every page.                                   *)
LEMMA RootHears ==
  ASSUME IsSettings, IsList(derived), NEW s, IsSite(s), NEW ends, NEW i \in DOMAIN derived
  PROVE  Probed(derived[i], s, ends).heard \subseteq Heard(Until(Steps(s, ends), 0))
<1> DEFINE a == Steps(s, ends)
           coming == {k \in DOMAIN a : Comes(a[k])}
           last == {k \in coming : \/ a[k].entry = Failure
                                   \/ (0 # 0 /\ Cardinality({j \in coming : j <= k}) = 0)}
           e == CHOOSE k \in last : \A j \in last : k <= j
           run == Until(a, 0)
<1>1. run = IF last = {} THEN a ELSE SubSeq(a, 1, e)
  BY DEF Until
<1>2. /\ IsList(a)
      /\ \A k \in DOMAIN derived : k \in DOMAIN a /\ a[k] = Probed(derived[k], s, ends)
  <2> DEFINE agree == {}
  <2>1. \A h \in agree : Alike(s, s, h)
    OBVIOUS
  <2> HIDE DEF agree
  <2> QED
    BY <2>1, StepsTrack DEF Tracks
<1>3. \A k \in DOMAIN derived : a[k].entry # Failure
  <2> SUFFICES ASSUME NEW k \in DOMAIN derived PROVE Probed(derived[k], s, ends).entry # Failure
    BY <1>2
  <2>1. Probed(derived[k], s, ends).entry.own \in {-1, 0}
    BY DEF Probed, Step, FromMeta, EntryOf, NoEntry
  <2> QED
    BY <2>1 DEF Failure
<1> HIDE DEF a
<1>4. Len(a) \in Nat /\ DOMAIN a = 1..Len(a) /\ DOMAIN derived = 1..Len(derived) /\ Len(derived) \in Nat
  BY <1>2, ListHas
<1>5. i \in DOMAIN run /\ run[i] = a[i]
  <2>1. CASE last = {}
    BY <1>1, <1>2, <2>1
  <2>2. CASE last # {}
    <3>1. e \in last
      <4>1. last \subseteq Nat
        BY <1>4
      <4> HIDE DEF last
      <4> QED
        BY <2>2, <4>1, LeastOfSet
    <3> HIDE DEF e
    <3>2. e \in 1..Len(a) /\ a[e].entry = Failure
      BY <1>4, <3>1
    <3>3. e \notin DOMAIN derived
      BY <1>3, <3>2
    <3>4. i \in 1..e
      BY <1>4, <3>2, <3>3
    <3>5. a \in Seq({a[k] : k \in DOMAIN a})
      BY <1>2 DEF IsList
    <3>6. DOMAIN SubSeq(a, 1, e) = 1..e /\ \A k \in 1..e : SubSeq(a, 1, e)[k] = a[k]
      BY <1>4, <3>2, <3>5, SubSeqProperties
    <3> QED
      BY <1>1, <2>2, <3>4, <3>6
  <2> QED
    BY <2>1, <2>2
<1>6. Probed(derived[i], s, ends).heard = run[i].heard
  BY <1>2, <1>5
<1> HIDE DEF run
<1>7. Probed(derived[i], s, ends).heard \subseteq Heard(run)
  BY <1>5, <1>6 DEF Heard
<1> QED
  BY <1>7 DEF run, a

LEMMA SitemapTells ==
  ASSUME WebInv
  PROVE  SitemapTellsTheSite
<1> SUFFICES ASSUME seen # Unseen PROVE SitemapTellsTheSite
  BY DEF SitemapTellsTheSite
<1> DEFINE d == seen
           steps == Until(Steps(d.site, d.broken), document * Limit)
           timed == {h \in Hooks : manner[h] = "timed"}
           mixed == [robots |-> [h \in Metas |-> IF h \in timed THEN d.site.robots[h] ELSE site.robots[h]],
                     pages |-> [h \in Sitemaps |-> IF h \in timed THEN d.site.pages[h] ELSE site.pages[h]]]
<1>1. Still /\ Shows(d)
  BY DEF WebInv
<1>2. RunOf(d) = steps
  BY DEF RunOf
<1>3. IsSite(mixed) /\ IsSite(d.site)
  BY <1>1 DEF IsSite, Shows, IsMade, Still
<1>4. ASSUME NEW h \in Heard(steps) PROVE Alike(d.site, mixed, h)
  BY <1>1, <1>2, <1>4 DEF Shows, Alike, Hooks
<1>5. Until(Steps(mixed, d.broken), document * Limit) = steps
  <2> HIDE DEF mixed
  <2> QED
    BY <1>1, <1>3, <1>4, MadeOfWhatIsHeard DEF Still
<1>6. d.answer = Made(document, mixed, d.broken)
  BY <1>1, <1>2, <1>5 DEF Made, MadeOf, Shows, IsMade
<1>7. now - d.born <= (IF HeardOf(steps, TRUE) \cap timed = {} THEN TTL ELSE 1) + Stale
  <2> DEFINE lasts == Lifetime(steps)
             heard == HeardOf(steps, TRUE)
  <2>1. now <= d.born + lasts + Stale /\ d.born \in Nat /\ now \in Nat
    BY <1>1, <1>2 DEF Shows, IsMade, Still
  <2>2. lasts \in Nat /\ lasts <= TTL /\ ((\E h \in heard : manner[h] = "timed") => lasts = 1)
    BY LifetimeIs
  <2>3. heard \cap timed # {} => \E h \in heard : manner[h] = "timed"
    OBVIOUS
  <2> HIDE DEF lasts, heard, timed
  <2>4. now - d.born <= (IF heard \cap timed = {} THEN TTL ELSE 1) + Stale
    BY <2>1, <2>2, <2>3, SitemapAssumption
  <2> QED
    BY <2>4 DEF heard, timed
<1>8. ASSUME document = 0, Probes, NEW x \in Elements(derived), x.route \in Metas \ timed, d.broken[x.route] # "mute"
      PROVE  d.site.robots[x.route] = site.robots[x.route]
  <2>1. PICK i \in DOMAIN derived : derived[i] = x
    BY DEF Elements
  <2>2. x.route \in Probed(derived[i], d.site, d.broken).heard
    BY <1>8, <2>1 DEF Probed, Step, Recorded
  <2>3. steps = Until(Steps(d.site, d.broken), 0)
    <3>1. document * Limit = 0
      BY <1>8, SitemapAssumption
    <3> QED
      BY <3>1
  <2>4. x.route \in Heard(steps)
    <3> HIDE DEF steps
    <3> QED
      BY <1>1, <1>3, <2>2, <2>3, RootHears DEF Still
  <2>5. Alike(d.site, site, x.route)
    <3>1. manner[x.route] # "timed"
      BY <1>8 DEF Hooks
    <3> QED
      BY <1>1, <1>2, <2>4, <3>1 DEF Shows
  <2> QED
    BY <1>8, <2>5 DEF Alike
<1> QED
  BY <1>6, <1>7, <1>8 DEF SitemapTellsTheSite

THEOREM SitemapStaysTrue == ServerSpec => []SitemapIsTrue
<1> DEFINE Inv == about = "sitemap" => WebInv
<1>1. ServerInit => Inv
  BY WebStarts DEF ServerInit
<1>2. Inv /\ [ServerNext]_<<about, vars, webVars>> => Inv'
  <2> SUFFICES ASSUME Inv, [ServerNext]_<<about, vars, webVars>>, about' = "sitemap" PROVE WebInv'
    OBVIOUS
  <2>1. about = "sitemap" /\ (WebNext \/ UNCHANGED webVars) /\ UNCHANGED vars
    BY DEF ServerNext
  <2> QED
    BY <2>1, WebSteps
<1>3. Inv => SitemapIsTrue
  BY SitemapTells DEF SitemapIsTrue
<1> QED
  BY <1>1, <1>2, <1>3, PTL DEF ServerSpec
-----------------------------------------------------------------------------
(* The routes of a site stay what they are.                                *)
LEMMA RoutesStay ==
  ASSUME chosen' = chosen
  PROVE  FromRoutes' = FromRoutes /\ AddressesDiffer' = AddressesDiffer
<1>1. settings' = settings
  BY DEF settings
<1>2. \A r : PatternOf(r)' = PatternOf(r)
  BY <1>1 DEF PatternOf
<1>3. \A l, p : Localise(l, p)' = Localise(l, p)
  BY <1>1 DEF Localise, Prefixed, Public
<1>4. ListedLocales' = ListedLocales
  BY <1>1 DEF ListedLocales
<1>5. \A r : Alternates(r)' = Alternates(r)
  <2> SUFFICES ASSUME NEW r PROVE Alternates(r)' = Alternates(r)
    OBVIOUS
  <2>1. \A l : Localise(l, PatternOf(r))' = Localise(l, PatternOf(r))
    BY <1>2, <1>3
  <2> QED
    BY <1>1, <1>4, <2>1 DEF Alternates
<1>6. ListedRoutes' = ListedRoutes
  BY <1>1, <1>2 DEF ListedRoutes, Listed, Excluded
<1>7. \A r, l : ListedPage(r, l)' = ListedPage(r, l)
  BY <1>2, <1>3, <1>5 DEF ListedPage
<1>8. ListedPages' = ListedPages
  BY <1>4, <1>6, <1>7 DEF ListedPages
<1>9. FromRoutes' = FromRoutes
  <2> DEFINE nth(i) == CHOOSE d \in ListedPages : Cardinality({e \in ListedPages : Before(e.path, d.path)}) = i - 1
  <2>1. FromRoutes = [i \in 1..Cardinality(ListedPages) |-> nth(i)]
    BY DEF FromRoutes, ListedPages, ListedPage
  <2>2. FromRoutes' = [i \in 1..Cardinality(ListedPages)' |-> nth(i)']
    BY DEF FromRoutes, ListedPages, ListedPage
  <2>3. \A i : nth(i)' = nth(i)
    BY <1>8
  <2> HIDE DEF nth
  <2> QED
    BY <1>8, <2>1, <2>2, <2>3
<1>10. AddressesDiffer' = AddressesDiffer
  <2> DEFINE at(p) == Localise(p[2], PatternOf(p[1]))
  <2>1. \A p : at(p)' = at(p)
    BY <1>2, <1>3
  <2> HIDE DEF at
  <2> QED
    BY <1>2, <1>4, <1>6, <2>1 DEF AddressesDiffer, at
<1> QED
  BY <1>9, <1>10

(* A site whose pages have addresses of their own, and whose list of routes*)
(* is the one made when the server started.                                *)
SiteInv == AddressesDiffer /\ derived = FromRoutes /\ Sitemaps \subseteq DOMAIN settings.routes

LEMMA SiteStarts ==
  ASSUME chosen \in Sites, WebInit
  PROVE  SiteInv
BY SitesAssumption DEF SiteInv, WebInit, settings, Hooks

LEMMA SiteSteps ==
  ASSUME SiteInv, WebNext \/ UNCHANGED webVars, UNCHANGED vars
  PROVE  SiteInv'
<1>1. chosen' = chosen /\ derived' = derived /\ settings' = settings
  BY DEF WebNext, Pass, Ask, Publish, Break, vars, webVars, settings
<1> QED
  BY <1>1, RoutesStay DEF SiteInv

(* Every page of the site is read once, whatever the site has, however it  *)
(* is set, and wherever the limit cuts it: Root, Shard, index and take of  *)
(* sitemap.go agree.  The run checks it with a few pages and one limit.    *)
THEOREM ShardsStayWhole == ServerSpec => []ShardsAreWhole
<1> DEFINE Inv == about = "sitemap" => WebInv /\ SiteInv
<1>1. ServerInit => Inv
  BY WebStarts, SiteStarts DEF ServerInit
<1>2. Inv /\ [ServerNext]_<<about, vars, webVars>> => Inv'
  <2> SUFFICES ASSUME Inv, [ServerNext]_<<about, vars, webVars>>, about' = "sitemap" PROVE WebInv' /\ SiteInv'
    OBVIOUS
  <2>1. about = "sitemap" /\ (WebNext \/ UNCHANGED webVars) /\ UNCHANGED vars
    BY DEF ServerNext
  <2> QED
    BY <2>1, WebSteps, SiteSteps
<1>3. Inv => ShardsAreWhole
  <2> SUFFICES ASSUME WebInv, SiteInv PROVE ShardsHoldTheSite
    BY DEF ShardsAreWhole
  <2>1. IsSettings /\ IsSite(site) /\ IsList(derived)
    BY DEF WebInv, Still, IsSite
  <2> QED
    BY <2>1, ShardsTell DEF SiteInv
<1> QED
  BY <1>1, <1>2, <1>3, PTL DEF ServerSpec
-----------------------------------------------------------------------------
(* The path of a route with the parameters taken from a path.              *)
LEMMA JoinedStep ==
  ASSUME NEW q, NEW n \in Nat, NEW g, Joins(q, n, g), NEW i \in 1..n
  PROVE  g[i] = IF i = 1 THEN q[i] ELSE g[i - 1] \o q[i]
BY DEF Joins

LEMMA SliceGrows ==
  ASSUME NEW q, IsList(q), NEW m \in Nat, NEW n \in Nat, m <= n, n <= Len(q)
  PROVE  SubSeq(q, 1, m) \o SubSeq(q, m + 1, n) = SubSeq(q, 1, n)
<1> DEFINE a == SubSeq(q, 1, m)
           b == SubSeq(q, m + 1, n)
           c == SubSeq(q, 1, n)
<1>1. Len(q) \in Nat
  BY ListHas
<1>2. IsList(a) /\ Len(a) = m /\ \A i \in 1..m : a[i] = q[i]
  BY <1>1, Slice
<1>3. IsList(b) /\ Len(b) = n - m /\ \A i \in 1..(n - m) : b[i] = q[m + i]
  <2>1. /\ IsList(b) /\ Len(b) = (IF m + 1 <= n THEN n - (m + 1) + 1 ELSE 0)
        /\ \A i \in 1..(n - (m + 1) + 1) : b[i] = q[m + 1 + i - 1]
    BY <1>1, Slice
  <2> HIDE DEF b
  <2> QED
    BY <2>1
<1>4. IsList(c) /\ Len(c) = n /\ \A i \in 1..n : c[i] = q[i]
  BY <1>1, Slice
<1> HIDE DEF a, b, c
<1>5. /\ IsList(a \o b) /\ Len(a \o b) = n
      /\ \A i \in 1..m : (a \o b)[i] = a[i]
      /\ \A i \in 1..(n - m) : (a \o b)[m + i] = b[i]
  BY <1>2, <1>3, Concatenated
<1>6. \A i \in 1..n : (a \o b)[i] = c[i]
  <2> SUFFICES ASSUME NEW i \in 1..n PROVE (a \o b)[i] = c[i]
    OBVIOUS
  <2>1. CASE i <= m
    BY <1>2, <1>4, <1>5, <2>1
  <2>2. CASE i > m
    <3>1. i - m \in 1..(n - m) /\ m + (i - m) = i
      BY <2>2
    <3> QED
      BY <1>3, <1>4, <1>5, <3>1
  <2>3. i <= m \/ i > m
    OBVIOUS
  <2> QED
    BY <2>1, <2>2, <2>3
<1>7. a \o b = c
  BY <1>4, <1>5, <1>6, ListsAreEqual
<1> QED
  BY <1>7 DEF a, b, c

LEMMA SliceOne ==
  ASSUME NEW q, IsList(q), NEW i \in 1..Len(q)
  PROVE  SubSeq(q, i, i) = <<q[i]>> /\ SubSeq(q, 1, Len(q)) = q
<1>1. Len(q) \in Nat
  BY ListHas
<1>2. IsList(SubSeq(q, i, i)) /\ Len(SubSeq(q, i, i)) = 1 /\ SubSeq(q, i, i)[1] = q[i]
  BY <1>1, Slice
<1>3. IsList(<<q[i]>>) /\ Len(<<q[i]>>) = 1 /\ <<q[i]>>[1] = q[i]
  BY OneIsList
<1>4. IsList(SubSeq(q, 1, Len(q))) /\ Len(SubSeq(q, 1, Len(q))) = Len(q) /\ \A j \in 1..Len(q) : SubSeq(q, 1, Len(q))[j] = q[j]
  BY <1>1, Slice
<1>5. SubSeq(q, i, i) = <<q[i]>>
  <2> DEFINE a == SubSeq(q, i, i)
             b == <<q[i]>>
  <2>1. IsList(a) /\ IsList(b) /\ Len(a) = 1 /\ Len(b) = 1 /\ a[1] = b[1]
    BY <1>2, <1>3
  <2> HIDE DEF a, b
  <2>2. \A j \in 1..Len(a) : a[j] = b[j]
    BY <2>1
  <2>3. a = b
    BY <2>1, <2>2, ListsAreEqual
  <2> QED
    BY <2>3 DEF a, b
<1>6. SubSeq(q, 1, Len(q)) = q
  BY <1>1, <1>4, ListsAreEqual
<1> QED
  BY <1>5, <1>6

LEMMA WholeSlice ==
  ASSUME NEW q, IsList(q)
  PROVE  SubSeq(q, 1, Len(q)) = q
<1>1. Len(q) \in Nat
  BY ListHas
<1>2. IsList(SubSeq(q, 1, Len(q))) /\ Len(SubSeq(q, 1, Len(q))) = Len(q) /\ \A j \in 1..Len(q) : SubSeq(q, 1, Len(q))[j] = q[j]
  BY <1>1, Slice
<1> QED
  BY <1>1, <1>2, ListsAreEqual

(* Parts that are the slices of a list, one after another, join to it.     *)
LEMMA SlicesJoin ==
  ASSUME NEW q, IsList(q), NEW parts, IsList(parts), NEW n, n = Len(parts), n # 0, n - 1 <= Len(q),
         \A i \in 1..(n - 1) : parts[i] = <<q[i]>>, parts[n] = SubSeq(q, n, Len(q))
  PROVE  S!FlattenSeq(parts) = q
<1>1. n \in Nat \ {0} /\ Len(q) \in Nat
  BY ListHas
<1>2. PICK g : Joins(parts, n, g) /\ S!FlattenSeq(parts) = g[n]
  BY Flattened
<1> DEFINE bad == {i \in Nat : i \in 1..(n - 1) /\ g[i] # SubSeq(q, 1, i)}
<1>3. bad = {}
  <2> SUFFICES ASSUME bad # {} PROVE FALSE
    OBVIOUS
  <2>1. PICK m \in bad : \A i \in bad : m <= i
    BY LeastOfSet
  <2>2. m \in 1..(n - 1) /\ g[m] # SubSeq(q, 1, m) /\ m \in 1..Len(q)
    BY <1>1, <2>1
  <2>3. parts[m] = SubSeq(q, m, m)
    BY <2>2, SliceOne
  <2>4. g[m] = IF m = 1 THEN parts[m] ELSE g[m - 1] \o parts[m]
    BY <1>1, <1>2, <2>2, JoinedStep
  <2>5. m # 1
    BY <2>2, <2>3, <2>4
  <2>6. m - 1 \in Nat /\ m - 1 \in 1..(n - 1) /\ m - 1 \notin bad
    BY <2>1, <2>2, <2>5
  <2>7. g[m - 1] = SubSeq(q, 1, m - 1)
    BY <2>6
  <2> HIDE DEF bad
  <2>8. SubSeq(q, 1, m - 1) \o SubSeq(q, (m - 1) + 1, m) = SubSeq(q, 1, m)
    BY <1>1, <2>2, <2>6, SliceGrows
  <2>9. (m - 1) + 1 = m
    BY <2>2
  <2> QED
    BY <2>2, <2>3, <2>4, <2>5, <2>7, <2>8, <2>9
<1>4. \A i \in 1..(n - 1) : g[i] = SubSeq(q, 1, i)
  <2> SUFFICES ASSUME NEW i \in 1..(n - 1), g[i] # SubSeq(q, 1, i) PROVE FALSE
    OBVIOUS
  <2>1. i \in Nat
    OBVIOUS
  <2>2. i \in bad
    BY <2>1
  <2> QED
    BY <1>3, <2>2
<1> HIDE DEF bad
<1>5. g[n] = IF n = 1 THEN parts[n] ELSE g[n - 1] \o parts[n]
  <2>1. n \in Nat /\ n \in 1..n
    BY <1>1
  <2>2. Joins(parts, n, g)
    BY <1>2
  <2> QED
    BY ONLY <2>1, <2>2, JoinedStep
<1>6. CASE n = 1
  BY <1>2, <1>5, <1>6, SliceOne, WholeSlice
<1>7. CASE n # 1
  <2>1. g[n - 1] = SubSeq(q, 1, n - 1)
    BY <1>1, <1>4, <1>7
  <2>2. SubSeq(q, 1, n - 1) \o SubSeq(q, (n - 1) + 1, Len(q)) = SubSeq(q, 1, Len(q))
    <3> DEFINE m == n - 1
               l == Len(q)
    <3>1. m \in Nat /\ l \in Nat /\ m <= l /\ l <= Len(q)
      BY <1>1
    <3> HIDE DEF m, l
    <3>2. SubSeq(q, 1, m) \o SubSeq(q, m + 1, l) = SubSeq(q, 1, l)
      BY <3>1, SliceGrows
    <3> QED
      BY <3>2 DEF m, l
  <2>3. (n - 1) + 1 = n
    BY <1>1
  <2>4. SubSeq(q, 1, Len(q)) = q
    BY <1>1, <1>7, SliceOne
  <2> QED
    BY <1>2, <1>5, <1>7, <2>1, <2>2, <2>3, <2>4
<1> QED
  BY <1>6, <1>7
-----------------------------------------------------------------------------
(* A pattern of the file tree, as the router reads it.                     *)
IsPattern(pattern) == IsList(pattern) /\ \A i \in 1..Len(pattern) : pattern[i].kind \in {"word", "one", "all", "rest"}

Orderly(pattern) ==
  \A i \in DOMAIN pattern :
    /\ pattern[i].kind \in {"all", "rest"} => i = Len(pattern)
    /\ \A j \in DOMAIN pattern \ {i} :
         pattern[i].kind # "word" /\ pattern[j].kind # "word" => pattern[i].word # pattern[j].word

Catches(pattern) == Len(pattern) # 0 /\ pattern[Len(pattern)].kind \in {"all", "rest"}

LEMMA FitsIs ==
  ASSUME NEW pattern, IsPattern(pattern), Orderly(pattern), NEW asked, Fits(pattern, asked)
  PROVE  LET n == Len(pattern)  until == IF Catches(pattern) THEN n - 1 ELSE n
         IN  /\ \A i \in 1..until : i <= Len(asked) /\ (pattern[i].kind = "word" => pattern[i].word = asked[i])
             /\ ~Catches(pattern) => Len(asked) = n
<1> DEFINE n == Len(pattern)
           all == {i \in DOMAIN pattern : pattern[i].kind \in {"all", "rest"}}
           least == CHOOSE i \in all : \A j \in all : i <= j
           until == IF all = {} THEN n ELSE least - 1
<1>1. n \in Nat /\ DOMAIN pattern = 1..n
  BY ListHas DEF IsPattern
<1>2. all \subseteq {n}
  BY DEF Orderly
<1>3. Catches(pattern) <=> all # {}
  BY <1>1, <1>2 DEF Catches
<1>4. all # {} => least = n
  <2> SUFFICES ASSUME all # {} PROVE least = n
    OBVIOUS
  <2>1. all = {n}
    BY <1>2
  <2> HIDE DEF all
  <2> QED
    BY <1>1, <2>1
<1>5. /\ \A i \in 1..until : i <= Len(asked) /\ (pattern[i].kind = "word" => pattern[i].word = asked[i])
      /\ all = {} => Len(asked) = n
  BY DEF Fits
<1> HIDE DEF all, least
<1>6. until = IF Catches(pattern) THEN n - 1 ELSE n
  BY <1>3, <1>4
<1> QED
  BY <1>3, <1>5, <1>6

LEMMA FillsBack ==
  ASSUME NEW pattern, IsPattern(pattern), Orderly(pattern), NEW asked, IsList(asked), Fits(pattern, asked)
  PROVE  Fill(pattern, ParamsOf(pattern, asked)) = IF asked = <<>> THEN Root ELSE asked
<1> DEFINE n == Len(pattern)
           until == IF Catches(pattern) THEN n - 1 ELSE n
           params == ParamsOf(pattern, asked)
           part(i) == IF pattern[i].kind = "word" THEN <<pattern[i].word>> ELSE params[pattern[i].word]
           parts == [i \in DOMAIN pattern |-> part(i)]
<1>1. n \in Nat /\ DOMAIN pattern = 1..n /\ Len(asked) \in Nat
  BY ListHas DEF IsPattern
<1>2. /\ \A i \in 1..until : i <= Len(asked) /\ (pattern[i].kind = "word" => pattern[i].word = asked[i])
      /\ ~Catches(pattern) => Len(asked) = n
  BY FitsIs
<1>3. ASSUME NEW i \in 1..n, pattern[i].kind # "word"
      PROVE  params[pattern[i].word] = IF pattern[i].kind = "one" THEN <<asked[i]>> ELSE SubSeq(asked, i, Len(asked))
  <2> DEFINE named(name) == CHOOSE j \in DOMAIN pattern : pattern[j].kind # "word" /\ pattern[j].word = name
  <2>1. named(pattern[i].word) = i
    <3>1. \A j \in DOMAIN pattern : pattern[j].kind # "word" /\ pattern[j].word = pattern[i].word => j = i
      BY <1>1, <1>3 DEF Orderly
    <3> QED
      BY <1>1, <1>3, <3>1
  <2> DEFINE names == {pattern[k].word : k \in {j \in DOMAIN pattern : pattern[j].kind # "word"}}
             taken(name) == IF pattern[named(name)].kind = "one" THEN <<asked[named(name)]>> ELSE SubSeq(asked, named(name), Len(asked))
  <2>2. pattern[i].word \in names
    BY <1>1, <1>3
  <2>3. params = [name \in names |-> taken(name)]
    BY DEF ParamsOf
  <2> HIDE DEF params, names, taken
  <2>4. params[pattern[i].word] = taken(pattern[i].word)
    BY <2>2, <2>3
  <2> QED
    BY <2>1, <2>4 DEF taken
<1> HIDE DEF params
<1>4. \A i \in 1..until : part(i) = <<asked[i]>>
  <2> SUFFICES ASSUME NEW i \in 1..until PROVE part(i) = <<asked[i]>>
    OBVIOUS
  <2>1. i \in 1..n /\ pattern[i].kind \in {"word", "one", "all", "rest"}
    BY <1>1 DEF IsPattern
  <2>2. CASE pattern[i].kind = "word"
    BY <1>2, <2>2
  <2>3. CASE pattern[i].kind = "one"
    BY <1>3, <2>1, <2>3
  <2>4. CASE pattern[i].kind \in {"all", "rest"}
    <3>1. i = n
      BY <1>1, <2>1, <2>4 DEF Orderly
    <3>2. Catches(pattern)
      BY <1>1, <2>1, <2>4, <3>1 DEF Catches
    <3> QED
      BY <1>1, <3>1, <3>2
  <2> QED
    BY <2>1, <2>2, <2>3, <2>4
<1>5. Catches(pattern) => n # 0 /\ part(n) = SubSeq(asked, n, Len(asked))
  <2> SUFFICES ASSUME Catches(pattern) PROVE n # 0 /\ part(n) = SubSeq(asked, n, Len(asked))
    OBVIOUS
  <2>1. n \in 1..n /\ pattern[n].kind \in {"all", "rest"}
    BY <1>1 DEF Catches
  <2>2. params[pattern[n].word] = SubSeq(asked, n, Len(asked))
    BY <1>3, <2>1
  <2> QED
    BY <2>1, <2>2
<1>6. IsList(parts) /\ Len(parts) = n /\ \A i \in 1..n : parts[i] = part(i)
  <2> DEFINE T == {part(i) : i \in 1..n}
  <2>1. parts \in [1..n -> T] /\ \A i \in 1..n : parts[i] = part(i)
    <3> HIDE DEF part
    <3> QED
      BY <1>1
  <2> HIDE DEF T, parts, n, part
  <2> QED
    BY <1>1, <2>1, FunctionIsList
<1>7. Fill(pattern, params) = IF S!FlattenSeq(parts) = <<>> THEN Root ELSE S!FlattenSeq(parts)
  BY DEF Fill
<1>8. S!FlattenSeq(parts) = asked
  <2> HIDE DEF part, parts, n
  <2>1. CASE n = 0
    <3>1. ~Catches(pattern)
      BY <1>5, <2>1
    <3>2. parts = <<>> /\ asked = <<>>
      BY <1>2, <1>6, <2>1, <3>1, ListsAreEqual, EmptyIsList
    <3> QED
      BY <3>2, EmptyIsList DEF S!FlattenSeq
  <2>2. CASE n # 0 /\ Catches(pattern)
    <3>1. n - 1 <= Len(asked)
      BY <1>1, <1>2, <2>2
    <3>2. \A i \in 1..(n - 1) : parts[i] = <<asked[i]>>
      BY <1>1, <1>4, <1>6, <2>2
    <3>3. parts[n] = SubSeq(asked, n, Len(asked))
      BY <1>1, <1>5, <1>6, <2>2
    <3> QED
      BY <1>6, <2>2, <3>1, <3>2, <3>3, SlicesJoin
  <2>3. CASE n # 0 /\ ~Catches(pattern)
    <3>1. Len(asked) = n
      BY <1>2, <2>3
    <3>2. \A i \in 1..n : parts[i] = <<asked[i]>>
      BY <1>1, <1>4, <1>6, <2>3
    <3>3. parts[n] = SubSeq(asked, n, Len(asked))
      BY <1>1, <2>3, <3>1, <3>2, SliceOne
    <3>4. n - 1 <= Len(asked) /\ \A i \in 1..(n - 1) : parts[i] = <<asked[i]>>
      BY <1>1, <3>1, <3>2
    <3> QED
      BY <1>6, <2>3, <3>3, <3>4, SlicesJoin
  <2> QED
    BY <2>1, <2>2, <2>3
<1> QED
  BY <1>7, <1>8 DEF params
-----------------------------------------------------------------------------
(* Words spelled as routing.normalize has them.                            *)
LEMMA AppendIs ==
  ASSUME NEW q, IsList(q), NEW x
  PROVE  /\ IsPath(Append(q, x)) /\ Len(Append(q, x)) = Len(q) + 1 /\ Append(q, x)[Len(q) + 1] = x
         /\ \A i \in 1..Len(q) : Append(q, x)[i] = q[i]
<1> DEFINE T == {q[i] : i \in DOMAIN q} \cup {x}
           b == Append(q, x)
<1>1. q \in Seq(T) /\ x \in T /\ Len(q) \in Nat
  BY ElementsOfList, ListHas
<1>2. b \in Seq(T) /\ Len(b) = Len(q) + 1 /\ b[Len(q) + 1] = x /\ \A i \in 1..Len(q) : b[i] = q[i]
  <2> HIDE DEF T
  <2> QED
    BY <1>1
<1> HIDE DEF b, T
<1>3. IsList(b)
  BY <1>2, SeqIsList
<1>4. b # <<>>
  BY <1>1, <1>2, EmptyIsList
<1> QED
  BY <1>2, <1>3, <1>4 DEF IsPath, b

LEMMA PathHas ==
  ASSUME NEW p, IsPath(p)
  PROVE  IsList(p) /\ Len(p) \in Nat \ {0} /\ DOMAIN p = 1..Len(p)
<1>1. IsList(p) /\ Len(p) \in Nat /\ DOMAIN p = 1..Len(p)
  BY ListHas DEF IsPath
<1>2. Len(p) # 0
  <2> SUFFICES ASSUME Len(p) = 0 PROVE FALSE
    OBVIOUS
  <2>1. p = <<>>
    BY <1>1, EmptyIsList, ListsAreEqual
  <2> QED
    BY <2>1 DEF IsPath
<1> QED
  BY <1>1, <1>2

LEMMA RootIsPath == IsPath(Root) /\ Len(Root) = 1 /\ Root[1] = Empty
<1>1. IsList(<<Empty>>) /\ Len(<<Empty>>) = 1 /\ <<Empty>>[1] = Empty
  BY OneIsList
<1> QED
  BY <1>1, EmptyIsList DEF Root, IsPath

LEMMA RootIs == ASSUME NEW p, IsPath(p) PROVE p = Root <=> Len(p) = 1 /\ p[1] = Empty
<1>1. ASSUME Len(p) = 1, p[1] = Empty PROVE p = Root
  BY <1>1, RootIsPath, ListsAreEqual DEF IsPath
<1> QED
  BY <1>1, RootIsPath

LEMMA SpelledIs ==
  ASSUME NEW p, IsList(p), NEW rules
  PROVE  LET spelled == [i \in DOMAIN p |-> Spell(p[i], rules)]
         IN  IsList(spelled) /\ Len(spelled) = Len(p) /\ \A i \in 1..Len(p) : spelled[i] = Spell(p[i], rules)
<1> DEFINE spelled == [i \in DOMAIN p |-> Spell(p[i], rules)]
           T == {Spell(p[i], rules) : i \in DOMAIN p}
           n == Len(p)
<1>1. n \in Nat /\ DOMAIN p = 1..n
  BY ListHas
<1>2. spelled \in [1..n -> T] /\ \A i \in 1..n : spelled[i] = Spell(p[i], rules)
  BY <1>1
<1> HIDE DEF spelled, T, n
<1>3. IsList(spelled) /\ Len(spelled) = n
  BY <1>1, <1>2, FunctionIsList
<1> QED
  BY <1>2, <1>3 DEF spelled, n

(* What normalising makes of a path is one of three.                       *)
LEMMA NormaliseIs ==
  ASSUME NEW p, IsPath(p), NEW rules
  PROVE  LET spelled == [i \in DOMAIN p |-> Spell(p[i], rules)]
             n == Len(p)
         IN  /\ IsPath(spelled) /\ Len(spelled) = n /\ \A i \in 1..n : spelled[i] = Spell(p[i], rules)
             /\ \/ Normalise(p, rules) = spelled
                   /\ (spelled = Root \/ rules.slash = "off" \/ rules.slash \notin {"strip", "keep"}
                         \/ (rules.slash = "strip" /\ spelled[n] # Empty) \/ (rules.slash = "keep" /\ spelled[n] = Empty))
                \/ /\ Normalise(p, rules) = SubSeq(spelled, 1, n - 1) /\ spelled # Root /\ rules.slash = "strip" /\ spelled[n] = Empty
                \/ /\ Normalise(p, rules) = Append(spelled, Empty) /\ spelled # Root /\ rules.slash = "keep" /\ spelled[n] # Empty
<1> DEFINE spelled == [i \in DOMAIN p |-> Spell(p[i], rules)]
           n == Len(p)
<1>1. n \in Nat \ {0} /\ IsList(p)
  BY PathHas
<1>2. IsList(spelled) /\ Len(spelled) = n /\ \A i \in 1..n : spelled[i] = Spell(p[i], rules)
  BY <1>1, SpelledIs
<1>3. Normalise(p, rules) =
        IF spelled = Root \/ rules.slash = "off" THEN spelled
        ELSE IF rules.slash = "strip" /\ S!Last(spelled) = Empty THEN S!Front(spelled)
        ELSE IF rules.slash = "keep" /\ S!Last(spelled) # Empty THEN Append(spelled, Empty)
        ELSE spelled
  BY DEF Normalise
<1> HIDE DEF spelled
<1>4. S!Last(spelled) = spelled[n] /\ S!Front(spelled) = SubSeq(spelled, 1, n - 1)
  BY <1>2 DEF S!Last, S!Front
<1>5. spelled # <<>>
  BY <1>1, <1>2, EmptyIsList
<1> HIDE DEF n
<1> QED
  BY <1>2, <1>3, <1>4, <1>5 DEF IsPath, spelled, n

LEMMA NormaliseFixes ==
  ASSUME NEW p, IsPath(p), NEW rules, rules.slash \in {"off", "strip", "keep"}, Normalise(p, rules) = p
  PROVE  /\ \A i \in 1..Len(p) : Spell(p[i], rules) = p[i]
         /\ p # Root => (rules.slash = "strip" => p[Len(p)] # Empty) /\ (rules.slash = "keep" => p[Len(p)] = Empty)
<1> DEFINE spelled == [i \in DOMAIN p |-> Spell(p[i], rules)]
           n == Len(p)
<1>1. n \in Nat \ {0} /\ IsList(p)
  BY PathHas
<1>2. /\ IsPath(spelled) /\ Len(spelled) = n /\ \A i \in 1..n : spelled[i] = Spell(p[i], rules)
      /\ \/ p = spelled
            /\ (spelled = Root \/ rules.slash = "off" \/ rules.slash \notin {"strip", "keep"}
                  \/ (rules.slash = "strip" /\ spelled[n] # Empty) \/ (rules.slash = "keep" /\ spelled[n] = Empty))
         \/ /\ p = SubSeq(spelled, 1, n - 1) /\ spelled # Root /\ rules.slash = "strip" /\ spelled[n] = Empty
         \/ /\ p = Append(spelled, Empty) /\ spelled # Root /\ rules.slash = "keep" /\ spelled[n] # Empty
  BY NormaliseIs
<1> HIDE DEF spelled
<1>3. IsList(spelled)
  BY <1>2 DEF IsPath
<1>4. p # SubSeq(spelled, 1, n - 1)
  <2>1. Len(SubSeq(spelled, 1, n - 1)) = (IF 1 <= n - 1 THEN n - 1 - 1 + 1 ELSE 0)
    BY <1>1, <1>2, <1>3, Slice
  <2> DEFINE front == SubSeq(spelled, 1, n - 1)
  <2>2. Len(front) # n
    <3> HIDE DEF front
    <3> QED
      BY <1>1, <2>1 DEF front
  <2> QED
    BY <2>2
<1>5. p # Append(spelled, Empty)
  <2>1. Len(Append(spelled, Empty)) = n + 1
    BY <1>2, <1>3, AppendIs
  <2> QED
    BY <1>1, <2>1
<1>6. p = spelled /\ (spelled = Root \/ rules.slash = "off" \/ (rules.slash = "strip" /\ spelled[n] # Empty) \/ (rules.slash = "keep" /\ spelled[n] = Empty))
  BY <1>2, <1>4, <1>5
<1> HIDE DEF n
<1>7. \A i \in 1..n : Spell(p[i], rules) = p[i]
  BY <1>2, <1>6
<1>8. p # Root => (rules.slash = "strip" => p[n] # Empty) /\ (rules.slash = "keep" => p[n] = Empty)
  BY <1>6
<1> QED
  BY <1>7, <1>8 DEF n

LEMMA NormaliseSpells ==
  ASSUME NEW p, IsPath(p), NEW rules, rules.slash \in {"strip", "keep"}, \A i \in 1..Len(p) : Spell(p[i], rules) = p[i]
  PROVE  Normalise(p, rules) = IF p = Root \/ (rules.slash = "strip" /\ p[Len(p)] # Empty) \/ (rules.slash = "keep" /\ p[Len(p)] = Empty) THEN p
                               ELSE IF rules.slash = "strip" THEN SubSeq(p, 1, Len(p) - 1) ELSE Append(p, Empty)
<1> DEFINE spelled == [i \in DOMAIN p |-> Spell(p[i], rules)]
           n == Len(p)
<1>1. n \in Nat \ {0} /\ IsList(p)
  BY PathHas
<1>2. /\ IsPath(spelled) /\ Len(spelled) = n /\ \A i \in 1..n : spelled[i] = Spell(p[i], rules)
      /\ \/ Normalise(p, rules) = spelled
            /\ (spelled = Root \/ rules.slash = "off" \/ rules.slash \notin {"strip", "keep"}
                  \/ (rules.slash = "strip" /\ spelled[n] # Empty) \/ (rules.slash = "keep" /\ spelled[n] = Empty))
         \/ /\ Normalise(p, rules) = SubSeq(spelled, 1, n - 1) /\ spelled # Root /\ rules.slash = "strip" /\ spelled[n] = Empty
         \/ /\ Normalise(p, rules) = Append(spelled, Empty) /\ spelled # Root /\ rules.slash = "keep" /\ spelled[n] # Empty
  BY NormaliseIs
<1> HIDE DEF spelled
<1>3. spelled = p
  BY <1>1, <1>2, ListsAreEqual DEF IsPath
<1> HIDE DEF n
<1> QED
  BY <1>2, <1>3 DEF n
-----------------------------------------------------------------------------
(* Words put into a locale.                                                *)
LEMMA TranslateIs ==
  ASSUME NEW words, NEW p, IsPath(p)
  PROVE  LET b == Translate(words, p)
         IN  /\ IsPath(b) /\ Len(b) = Len(p)
             /\ \A i \in 1..Len(p) : b[i] = IF p[i] \in DOMAIN words THEN words[p[i]] ELSE p[i]
<1> DEFINE said(i) == IF p[i] \in DOMAIN words THEN words[p[i]] ELSE p[i]
           b == [i \in DOMAIN p |-> said(i)]
           T == {said(i) : i \in DOMAIN p}
           n == Len(p)
<1>1. n \in Nat \ {0} /\ DOMAIN p = 1..n
  BY PathHas
<1>2. b \in [1..n -> T] /\ \A i \in 1..n : b[i] = said(i)
  <2> HIDE DEF said
  <2> QED
    BY <1>1
<1>3. Translate(words, p) = b
  BY DEF Translate
<1> HIDE DEF b, T, n, said
<1>4. IsList(b) /\ Len(b) = n /\ b # <<>>
  BY <1>1, <1>2, FunctionIsList, EmptyIsList
<1> QED
  BY <1>2, <1>3, <1>4 DEF said, n, IsPath

LEMMA TranslateKeepsGaps ==
  ASSUME NEW words, ValidAliases(words), NEW p, IsPath(p), NEW i \in 1..Len(p)
  PROVE  Translate(words, p)[i] = Empty <=> p[i] = Empty
BY TranslateIs DEF ValidAliases

LEMMA RootIsSpoken == ASSUME NEW words, ValidAliases(words) PROVE Translate(words, Root) = Root
<1> DEFINE b == Translate(words, Root)
<1>1. IsPath(b) /\ Len(b) = 1 /\ b[1] = Empty
  BY TranslateIs, TranslateKeepsGaps, RootIsPath
<1> QED
  BY <1>1, RootIs
-----------------------------------------------------------------------------
(* What ServeMux leaves of a path.                                         *)
LEMMA ElementsJoined ==
  ASSUME NEW q, IsList(q), \A i \in 1..Len(q) : IsList(q[i])
  PROVE  IsList(S!FlattenSeq(q)) /\ Elements(S!FlattenSeq(q)) = UNION {Elements(q[i]) : i \in 1..Len(q)}
<1> DEFINE n == Len(q)
<1>1. n \in Nat
  BY ListHas
<1>2. CASE n = 0
  <2>1. q = <<>>
    BY <1>2, EmptyIsList, ListsAreEqual
  <2>2. S!FlattenSeq(q) = <<>>
    BY <2>1, EmptyIsList DEF S!FlattenSeq
  <2> QED
    BY <1>2, <2>2, EmptyIsList, EmptyAndOne
<1>3. CASE n # 0
  <2>1. PICK g : Joins(q, n, g) /\ S!FlattenSeq(q) = g[n]
    BY <1>3, Flattened
  <2> DEFINE right(i) == IsList(g[i]) /\ Elements(g[i]) = UNION {Elements(q[j]) : j \in 1..i}
             bad == {i \in Nat : i \in 1..n /\ ~right(i)}
  <2>2. bad = {}
    <3> SUFFICES ASSUME bad # {} PROVE FALSE
      OBVIOUS
    <3>1. PICK m \in bad : \A i \in bad : m <= i
      BY LeastOfSet
    <3>2. m \in 1..n /\ ~right(m) /\ IsList(q[m])
      BY <3>1
    <3>3. g[m] = IF m = 1 THEN q[m] ELSE g[m - 1] \o q[m]
      <4> HIDE DEF n, bad
      <4>1. n \in Nat /\ m \in 1..n /\ Joins(q, n, g)
        BY <1>1, <2>1, <3>2
      <4> QED
        BY ONLY <4>1, JoinedStep
    <3>4. CASE m = 1
      <4>1. 1..m = {1}
        BY <3>4
      <4> QED
        BY <3>2, <3>3, <3>4, <4>1
    <3>5. CASE m # 1
      <4>1. m - 1 \in Nat /\ m - 1 \in 1..n /\ m - 1 \notin bad
        <5> HIDE DEF n, bad
        <5>1. m \in Nat /\ m - 1 \in Nat /\ m - 1 \in 1..n
          BY <1>1, <3>2, <3>5
        <5>2. m - 1 \notin bad
          BY <3>1, <5>1
        <5> QED
          BY <5>1, <5>2
      <4>2. right(m - 1)
        BY <4>1
      <4>3. IsList(g[m]) /\ Elements(g[m]) = Elements(g[m - 1]) \cup Elements(q[m])
        BY <3>2, <3>3, <3>5, <4>2, Concatenated, ElementsOfBoth
      <4>4. 1..m = (1..(m - 1)) \cup {m}
        BY <3>2
      <4>5. Elements(g[m]) = UNION {Elements(q[j]) : j \in 1..m}
        BY <4>2, <4>3, <4>4
      <4> QED
        BY <3>2, <4>3, <4>5
    <3> QED
      BY <3>4, <3>5
  <2>3. right(n)
    <3>1. n \in 1..n /\ n \notin bad
      BY <1>1, <1>3, <2>2
    <3> QED
      BY <3>1
  <2> QED
    BY <2>1, <2>3
<1> QED
  BY <1>2, <1>3

LEMMA CleanIs ==
  ASSUME NEW p, IsPath(p)
  PROVE  /\ IsPath(Clean(p))
         /\ Clean(p) = p => \A i \in 1..(Len(p) - 1) : p[i] # Empty
<1> DEFINE n == Len(p)
           part(i) == IF p[i] = Empty THEN <<>> ELSE <<p[i]>>
           parts == [i \in DOMAIN p |-> part(i)]
           words == S!FlattenSeq(parts)
<1>1. n \in Nat \ {0} /\ DOMAIN p = 1..n
  BY PathHas
<1>2. IsList(parts) /\ Len(parts) = n /\ \A i \in 1..n : parts[i] = part(i)
  <2> DEFINE T == {part(i) : i \in 1..n}
  <2>1. parts \in [1..n -> T] /\ \A i \in 1..n : parts[i] = part(i)
    <3> HIDE DEF part
    <3> QED
      BY <1>1
  <2> HIDE DEF T, parts, n, part
  <2> QED
    BY <1>1, <2>1, FunctionIsList
<1>3. \A i \in 1..n : IsList(part(i)) /\ Elements(part(i)) = {p[i]} \ {Empty}
  BY EmptyIsList, OneIsList, EmptyAndOne
<1> HIDE DEF part, parts
<1>4. IsList(words) /\ Elements(words) = UNION {Elements(part(i)) : i \in 1..n}
  BY <1>2, <1>3, ElementsJoined
<1>5. Clean(p) = IF p[n] = Empty THEN Append(words, Empty) ELSE words
  BY DEF Clean, S!Last, parts, part
<1> HIDE DEF words, n
<1>6. Elements(words) = {p[i] : i \in 1..n} \ {Empty}
  BY <1>3, <1>4
<1>7. \A i \in 1..Len(words) : words[i] # Empty
  <2>1. \A i \in 1..Len(words) : words[i] \in Elements(words)
    BY <1>4, ListHas DEF Elements
  <2> QED
    BY <1>6, <2>1
<1>8. CASE p[n] = Empty
  <2>1. Clean(p) = Append(words, Empty)
    BY <1>5, <1>8
  <2>2. IsPath(Clean(p)) /\ Len(Clean(p)) = Len(words) + 1 /\ \A i \in 1..Len(words) : Clean(p)[i] = words[i]
    BY <1>4, <2>1, AppendIs
  <2>3. Len(words) \in Nat
    BY <1>4, ListHas
  <2>4. Clean(p) = p => n - 1 = Len(words)
    BY <2>2, <2>3 DEF n
  <2>5. Clean(p) = p => \A i \in 1..(n - 1) : p[i] # Empty
    BY <1>7, <2>2, <2>4
  <2> QED
    BY <2>2, <2>5 DEF n
<1>9. CASE p[n] # Empty
  <2>1. Clean(p) = words
    BY <1>5, <1>9
  <2>2. p[n] \in Elements(words)
    BY <1>1, <1>6, <1>9
  <2>3. words # <<>>
    BY <2>2, EmptyAndOne
  <2>4. Clean(p) = p => \A i \in 1..(n - 1) : p[i] # Empty
    BY <1>1, <1>7, <2>1 DEF n
  <2> QED
    BY <1>4, <2>1, <2>3, <2>4 DEF n, IsPath
<1> QED
  BY <1>8, <1>9

LEMMA TrimmedIs ==
  ASSUME NEW p, IsPath(p), \A i \in 1..(Len(p) - 1) : p[i] # Empty
  PROVE  Trimmed(p) = IF p = Root THEN <<>> ELSE IF p[Len(p)] = Empty THEN SubSeq(p, 1, Len(p) - 1) ELSE p
<1> DEFINE n == Len(p)
           words == {i \in DOMAIN p : p[i] # Empty}
           first == CHOOSE i \in words : \A j \in words : i <= j
           last == CHOOSE i \in words : \A j \in words : j <= i
<1>1. n \in Nat \ {0} /\ DOMAIN p = 1..n /\ IsList(p)
  BY PathHas
<1>2. p = Root <=> n = 1 /\ p[1] = Empty
  BY RootIs
<1>3. Trimmed(p) = IF words = {} THEN <<>> ELSE SubSeq(p, first, last)
  BY DEF Trimmed
<1>4. words = IF p[n] = Empty THEN 1..(n - 1) ELSE 1..n
  BY <1>1
<1>5. ASSUME NEW m \in Nat \ {0}, words = 1..m PROVE first = 1 /\ last = m /\ words # {}
  <2> HIDE DEF words
  <2>1. 1 \in words /\ m \in words /\ \A j \in words : 1 <= j /\ j <= m
    BY <1>5
  <2>2. \A i \in words : (\A j \in words : i <= j) => i = 1
    BY <1>5, <2>1
  <2>3. \A i \in words : (\A j \in words : j <= i) => i = m
    BY <1>5, <2>1
  <2> QED
    BY <2>1, <2>2, <2>3
<1> HIDE DEF words, first, last
<1>6. CASE p = Root
  <2>1. words = {}
    BY <1>2, <1>4, <1>6
  <2> QED
    BY <1>3, <1>6, <2>1
<1>7. CASE p # Root /\ p[n] = Empty
  <2>1. n - 1 \in Nat \ {0} /\ words = 1..(n - 1)
    BY <1>1, <1>2, <1>4, <1>7
  <2>2. first = 1 /\ last = n - 1 /\ words # {}
    <3> HIDE DEF n
    <3> DEFINE m == n - 1
    <3>1. m \in Nat \ {0} /\ words = 1..m
      BY <2>1
    <3> HIDE DEF m
    <3>2. first = 1 /\ last = m /\ words # {}
      BY ONLY <1>5, <3>1
    <3> QED
      BY <3>2 DEF m
  <2> QED
    BY <1>3, <1>7, <2>2
<1>8. CASE p # Root /\ p[n] # Empty
  <2>1. words = 1..n
    BY <1>4, <1>8
  <2>2. first = 1 /\ last = n /\ words # {}
    <3> HIDE DEF n
    <3>1. n \in Nat \ {0} /\ words = 1..n
      BY <1>1, <2>1
    <3> QED
      BY ONLY <1>5, <3>1
  <2>3. SubSeq(p, 1, n) = p
    BY <1>1, WholeSlice
  <2> QED
    BY <1>3, <1>8, <2>2, <2>3
<1> QED
  BY <1>6, <1>7, <1>8
-----------------------------------------------------------------------------
(* What is trimmed for the router and spelled again is what was asked.     *)
LEMMA SpellsBack ==
  ASSUME NEW words, ValidAliases(words), NEW rules, rules.slash \in {"strip", "keep"}, \A w \in DOMAIN words : Spell(w, rules) = w,
         NEW c, IsPath(c), \A i \in 1..(Len(c) - 1) : c[i] # Empty, Normalise(Translate(words, c), rules) = Translate(words, c)
  PROVE  LET t == Trimmed(c) IN Normalise(IF t = <<>> THEN Root ELSE t, rules) = c
<1> DEFINE f == Translate(words, c)
           n == Len(c)
           t == Trimmed(c)
<1>1. n \in Nat \ {0} /\ IsList(c)
  BY PathHas
<1>2. IsPath(f) /\ Len(f) = n /\ \A i \in 1..n : f[i] = IF c[i] \in DOMAIN words THEN words[c[i]] ELSE c[i]
  BY TranslateIs
<1>3. \A i \in 1..n : f[i] = Empty <=> c[i] = Empty
  BY TranslateKeepsGaps
<1>4. /\ \A i \in 1..n : Spell(f[i], rules) = f[i]
      /\ f # Root => (rules.slash = "strip" => f[n] # Empty) /\ (rules.slash = "keep" => f[n] = Empty)
  <2>1. Normalise(f, rules) = f /\ rules.slash \in {"off", "strip", "keep"}
    OBVIOUS
  <2> HIDE DEF f
  <2> QED
    BY <1>2, <2>1, NormaliseFixes
<1>5. t = IF c = Root THEN <<>> ELSE IF c[n] = Empty THEN SubSeq(c, 1, n - 1) ELSE c
  BY TrimmedIs
<1>6. c = Root <=> n = 1 /\ c[1] = Empty
  BY RootIs
<1>7. f = Root <=> n = 1 /\ f[1] = Empty
  BY <1>2, RootIs
<1> HIDE DEF f, t
<1>8. \A i \in 1..n : Spell(c[i], rules) = c[i]
  BY <1>2, <1>4
<1>9. CASE c = Root
  <2>1. t = <<>>
    BY <1>5, <1>9
  <2>2. Normalise(Root, rules) = Root
    BY <1>8, <1>9, NormaliseSpells
  <2> QED
    BY <1>9, <2>1, <2>2 DEF t
<1>10. CASE c # Root /\ rules.slash = "strip"
  <2>1. c[n] # Empty
    BY <1>1, <1>3, <1>4, <1>6, <1>7, <1>10
  <2>2. t = c /\ c # <<>>
    BY <1>5, <1>10, <2>1 DEF IsPath
  <2>3. Normalise(c, rules) = c
    BY <1>8, <1>10, <2>1, NormaliseSpells
  <2> QED
    BY <2>2, <2>3 DEF t
<1>11. CASE c # Root /\ rules.slash = "keep"
  <2>1. c[n] = Empty /\ n # 1
    BY <1>1, <1>3, <1>4, <1>6, <1>7, <1>11
  <2>2. t = SubSeq(c, 1, n - 1)
    BY <1>5, <1>11, <2>1
  <2> DEFINE m == n - 1
  <2>3. m \in Nat \ {0} /\ m + 1 = n
    BY <1>1, <2>1
  <2>4. IsList(t) /\ Len(t) = m /\ \A i \in 1..m : t[i] = c[i]
    <3> HIDE DEF n
    <3>1. t = SubSeq(c, 1, m) /\ m <= Len(c) /\ 1 \in Int /\ m \in Int
      BY <1>1, <2>2, <2>3 DEF n
    <3> HIDE DEF m
    <3> QED
      BY <1>1, <2>3, <3>1, Slice
  <2> HIDE DEF m
  <2>5. \A i \in 1..m : t[i] # Empty /\ Spell(t[i], rules) = t[i]
    BY <1>1, <1>8, <2>3, <2>4
  <2>6. IsPath(t) /\ t # Root /\ t # <<>>
    BY <2>3, <2>4, <2>5, EmptyIsList, RootIs DEF IsPath
  <2>7. Normalise(t, rules) = Append(t, Empty)
    BY <1>11, <2>3, <2>4, <2>5, <2>6, NormaliseSpells
  <2>8. IsPath(Append(t, Empty)) /\ Len(Append(t, Empty)) = m + 1 /\ Append(t, Empty)[m + 1] = Empty /\ \A i \in 1..m : Append(t, Empty)[i] = t[i]
    BY <2>4, AppendIs
  <2>9. Append(t, Empty) = c
    <3> DEFINE a == Append(t, Empty)
    <3>1. IsList(a) /\ IsList(c) /\ Len(a) = Len(c)
      BY <1>1, <2>3, <2>8 DEF IsPath
    <3>2. \A i \in 1..Len(a) : a[i] = c[i]
      <4> HIDE DEF a
      <4> SUFFICES ASSUME NEW i \in 1..Len(a) PROVE a[i] = c[i]
        OBVIOUS
      <4>1. i \in 1..m \/ i = m + 1
        BY <2>3, <2>8 DEF a
      <4> QED
        BY <2>1, <2>3, <2>4, <2>8, <4>1 DEF a
    <3> HIDE DEF a
    <3>3. a = c
      BY <3>1, <3>2, ListsAreEqual
    <3> QED
      BY <3>3 DEF a
  <2> QED
    BY <2>6, <2>7, <2>9 DEF t
<1> QED
  BY <1>9, <1>10, <1>11
-----------------------------------------------------------------------------
(* The page the router finds is one of those that fit.                     *)
LEMMA ScoreIs == ASSUME NEW pattern, IsList(pattern) PROVE Score(pattern) \in Nat
<1>1. IsFiniteSet(DOMAIN pattern)
  BY ElementsAreFinite
<1>2. \A T : T \subseteq DOMAIN pattern => Cardinality(T) \in Nat
  BY <1>1, FS_Subset, FS_CardinalityType
<1> DEFINE a == Cardinality({i \in DOMAIN pattern : pattern[i].kind \in {"all", "rest"}})
           b == Cardinality({i \in DOMAIN pattern : pattern[i].kind = "one"})
<1>3. a \in Nat /\ b \in Nat
  BY <1>2
<1>4. Score(pattern) = 100 * a + 10 * b
  BY DEF Score
<1> HIDE DEF a, b
<1> QED
  BY <1>3, <1>4

LEMMA RouterFinds ==
  ASSUME IsSettings, NEW locale, NEW asked, Matching(asked) # {}
  PROVE  LET page == Page(locale, asked)
         IN  /\ page.route \in DOMAIN settings.routes /\ Fits(settings.routes[page.route], asked)
             /\ page.locale = locale /\ page.params = ParamsOf(settings.routes[page.route], asked)
<1> DEFINE fitting == Matching(asked)
           score(i) == Score(settings.routes[i])
           scores == {score(i) : i \in fitting}
           best == CHOOSE i \in fitting : \A j \in fitting \ {i} : MoreSpecific(i, j)
           page == Page(locale, asked)
<1>1. DOMAIN settings.routes \subseteq Nat /\ fitting \subseteq DOMAIN settings.routes
  BY ListHas DEF IsSettings, Matching
<1>2. \A i \in fitting : score(i) \in Nat
  BY <1>1, ScoreIs DEF IsSettings
<1>3. \A i, j : MoreSpecific(i, j) <=> score(i) < score(j) \/ (score(i) = score(j) /\ i < j)
  BY DEF MoreSpecific
<1> HIDE DEF fitting, score
<1>4. PICK least \in scores : \A s \in scores : least <= s
  <2>1. scores \subseteq Nat /\ scores # {}
    BY <1>2 DEF fitting
  <2> HIDE DEF scores
  <2> QED
    BY <2>1, LeastOfSet
<1> DEFINE top == {i \in fitting : score(i) = least}
<1>5. PICK i \in top : \A j \in top : i <= j
  <2>1. top \subseteq Nat /\ top # {}
    BY <1>1, <1>4
  <2> HIDE DEF top
  <2> QED
    BY <2>1, LeastOfSet
<1>6. \A j \in fitting \ {i} : MoreSpecific(i, j)
  <2> SUFFICES ASSUME NEW j \in fitting, j # i PROVE MoreSpecific(i, j)
    OBVIOUS
  <2>1. score(i) = least /\ least <= score(j) /\ score(i) \in Nat /\ score(j) \in Nat /\ i \in Nat /\ j \in Nat
    BY <1>1, <1>2, <1>4, <1>5
  <2>2. score(j) = least => i <= j
    BY <1>5
  <2> QED
    BY <1>3, <2>1, <2>2
<1>7. best \in fitting
  BY <1>5, <1>6
<1>8. page.route = best /\ page.locale = locale /\ page.params = ParamsOf(settings.routes[page.route], asked)
  BY DEF Page, fitting
<1> HIDE DEF best, page
<1>9. page.route \in DOMAIN settings.routes /\ Fits(settings.routes[page.route], asked)
  BY <1>7, <1>8 DEF fitting, Matching
<1> QED
  BY <1>8, <1>9 DEF page
-----------------------------------------------------------------------------
(* Every path that is asked for has words.                                 *)
LEMMA FirstAndRest ==
  ASSUME NEW p, IsList(p), Len(p) \in Nat \ {0}
  PROVE  SubSeq(p, 1, 1) = <<p[1]>> /\ Tail(p) = SubSeq(p, 2, Len(p))
<1>1. 1 \in 1..Len(p)
  OBVIOUS
<1>2. \A i \in 1..Len(p) : SubSeq(p, i, i) = <<p[i]>>
  BY SliceOne
<1>3. p # <<>>
  BY EmptyIsList
<1>4. ASSUME NEW T, p \in Seq(T) PROVE Tail(p) = SubSeq(p, 2, Len(p))
  BY <1>3, <1>4, TailIsSubSeq
<1>5. Tail(p) = SubSeq(p, 2, Len(p))
  BY <1>4 DEF IsList
<1> QED
  BY ONLY <1>1, <1>2, <1>5

LEMMA TailIs ==
  ASSUME NEW p, IsPath(p), Len(p) # 1
  PROVE  IsPath(Tail(p)) /\ p = <<p[1]>> \o Tail(p)
<1>1. IsList(p) /\ Len(p) \in Nat \ {0}
  BY PathHas
<1>2. SubSeq(p, 1, 1) = <<p[1]>> /\ Tail(p) = SubSeq(p, 2, Len(p))
  BY <1>1, FirstAndRest
<1>3. IsList(Tail(p)) /\ Len(Tail(p)) = Len(p) - 1
  <2> DEFINE n == Len(p)
             rest == SubSeq(p, 2, n)
  <2>3. n \in Nat \ {0} /\ n # 1
    BY <1>1
  <2>4. n \in Int /\ 2 <= n
    <3> HIDE DEF n
    <3> QED
      BY ONLY <2>3
  <2>1. IsList(p) /\ n \in Int /\ n <= Len(p) /\ 2 \in Int /\ 1 <= 2 /\ 2 <= n
    BY <1>1, <2>4
  <2>2. IsList(rest) /\ Len(rest) = (IF 2 <= n THEN n - 2 + 1 ELSE 0)
    BY ONLY <2>1, Slice
  <2>5. Len(rest) = n - 1
    <3> HIDE DEF rest, n
    <3> QED
      BY ONLY <2>1, <2>2
  <2> QED
    BY <1>2, <2>2, <2>5
<1>4. SubSeq(p, 1, 1) \o SubSeq(p, 1 + 1, Len(p)) = SubSeq(p, 1, Len(p)) /\ SubSeq(p, 1, Len(p)) = p
  <2>1. 1 \in Nat /\ 1 <= Len(p) /\ Len(p) \in Nat /\ Len(p) <= Len(p) /\ IsList(p)
    BY <1>1
  <2>2. SubSeq(p, 1, 1) \o SubSeq(p, 1 + 1, Len(p)) = SubSeq(p, 1, Len(p))
    BY ONLY <2>1, SliceGrows
  <2> QED
    BY <2>1, <2>2, WholeSlice
<1> DEFINE tail == Tail(p)
<1>5. tail # <<>>
  <2>1. Len(tail) # 0
    BY <1>1, <1>3
  <2> HIDE DEF tail
  <2> QED
    BY <2>1, EmptyIsList
<1> QED
  BY <1>2, <1>3, <1>4, <1>5 DEF IsPath

LEMMA AddedIsPath ==
  ASSUME NEW x, NEW p, IsPath(p)
  PROVE  IsPath(<<x>>) /\ IsPath(<<x>> \o p)
<1>1. IsList(<<x>>) /\ Len(<<x>>) = 1 /\ Len(p) \in Nat /\ IsList(p)
  BY OneIsList, PathHas
<1>2. IsList(<<x>> \o p) /\ Len(<<x>> \o p) = 1 + Len(p)
  BY <1>1, Concatenated
<1> QED
  BY <1>1, <1>2, EmptyIsList DEF IsPath

LEMMA NormaliseIsPath ==
  ASSUME NEW p, IsPath(p), NEW rules
  PROVE  IsPath(Normalise(p, rules))
<1> DEFINE spelled == [i \in DOMAIN p |-> Spell(p[i], rules)]
           n == Len(p)
<1>1. n \in Nat \ {0}
  BY PathHas
<1>2. /\ IsPath(spelled) /\ Len(spelled) = n
      /\ \/ Normalise(p, rules) = spelled
         \/ Normalise(p, rules) = SubSeq(spelled, 1, n - 1) /\ spelled # Root /\ spelled[n] = Empty
         \/ Normalise(p, rules) = Append(spelled, Empty)
  BY NormaliseIs
<1> HIDE DEF spelled, n
<1>3. CASE Normalise(p, rules) = SubSeq(spelled, 1, n - 1) /\ spelled # Root /\ spelled[n] = Empty
  <2>1. n # 1
    BY <1>2, <1>3, RootIs
  <2>2. IsList(SubSeq(spelled, 1, n - 1)) /\ Len(SubSeq(spelled, 1, n - 1)) = n - 1
    BY <1>1, <1>2, <2>1, Slice DEF IsPath
  <2>3. n - 1 # 0
    BY <1>1, <2>1
  <2> DEFINE cut == SubSeq(spelled, 1, n - 1)
  <2>4. Len(cut) # 0
    BY <2>2, <2>3
  <2> HIDE DEF cut
  <2>5. cut # <<>>
    BY <2>4, EmptyIsList
  <2> QED
    BY <1>3, <2>2, <2>5 DEF IsPath, cut
<1>4. CASE Normalise(p, rules) = Append(spelled, Empty)
  BY <1>2, <1>4, AppendIs DEF IsPath
<1> QED
  BY <1>2, <1>3, <1>4

LEMMA LocaliseIsPath ==
  ASSUME NEW l, NEW p, IsPath(p)
  PROVE  IsPath(Localise(l, p)) /\ IsPath(Public(l, p)) /\ IsPath(Canonical(l, p)) /\ Localise(l, p) # NoPath
<1>1. IsPath(Public(l, p)) /\ IsPath(Canonical(l, p))
  BY TranslateIs DEF Public, Canonical
<1>2. Localise(l, p) \in {Public(l, p), <<l>>, <<l>> \o Public(l, p)}
  BY DEF Localise
<1>3. IsPath(Localise(l, p))
  BY <1>1, <1>2, AddedIsPath
<1> QED
  BY <1>1, <1>3 DEF IsPath, NoPath

LEMMA CutIs ==
  ASSUME NEW p, IsPath(p), NEW l, NEW m
  PROVE  Cut(p, l, m).locale = l /\ ~Cut(p, l, m).exempt /\ Cut(p, l, m).misspelled = m /\ IsPath(Cut(p, l, m).rest)
<1>1. IsPath(Cut(p, l, m).rest)
  BY TailIs, RootIsPath DEF Cut
<1>2. Cut(p, l, m).locale = l
  BY DEF Cut
<1>3. Cut(p, l, m).misspelled = m
  BY DEF Cut
<1>4. ~Cut(p, l, m).exempt
  BY DEF Cut
<1> QED
  BY <1>1, <1>2, <1>3, <1>4

LEMMA AppliedIsPath ==
  ASSUME NEW rule, IsList(rule.from.words), IsList(rule.to.words), NEW p, IsPath(p), Applies(rule, p)
  PROVE  IsPath(Applied(rule, p))
<1> DEFINE from == rule.from.words
           behind == SubSeq(p, Len(from) + 1, Len(p))
           to == rule.to.words
           whole == IF rule.from.wild /\ rule.to.wild /\ behind \notin {<<>>, Root} THEN to \o behind ELSE to
<1>1. Len(from) \in Nat /\ Len(p) \in Nat /\ IsList(p)
  BY ListHas, PathHas
<1>2. IsList(behind)
  BY <1>1, Slice
<1>3. IsList(to \o behind)
  BY <1>2, Concatenated
<1>4. IsList(whole)
  BY <1>3
<1>5. Applied(rule, p) = IF whole = <<>> THEN Root ELSE whole
  BY DEF Applied
<1> HIDE DEF whole
<1> QED
  BY <1>4, <1>5, RootIsPath DEF IsPath


(* What ConfigAssumption says of the site that was chosen.                 *)
LEMMA ChosenIs ==
  ASSUME chosen \in DOMAIN Configs
  PROVE  /\ IsSettings /\ settings.normalize.slash \in {"off", "strip", "keep"}
         /\ settings.default \in Elements(settings.locales)
         /\ DOMAIN settings.aliases = Elements(settings.locales)
         /\ \A l \in Elements(settings.locales) : ValidAliases(settings.aliases[l])
         /\ IsList(settings.redirects) /\ IsList(settings.rewrites)
         /\ \A i \in DOMAIN settings.redirects : IsList(settings.redirects[i].from.words) /\ IsList(settings.redirects[i].to.words)
         /\ \A i \in DOMAIN settings.rewrites : IsList(settings.rewrites[i].from.words) /\ IsList(settings.rewrites[i].to.words)
<1> DEFINE c == settings
<1>1. c \in {Configs[i] : i \in DOMAIN Configs}
  BY DEF settings
<1>2. /\ IsList(c.locales) /\ IsList(c.routes) /\ \A r \in DOMAIN c.routes : IsList(c.routes[r])
      /\ ValidLocales(c) /\ \A l \in DOMAIN c.aliases : ValidAliases(c.aliases[l])
      /\ c.normalize.slash \in {"off", "strip", "keep"}
      /\ \A rules \in {c.redirects, c.rewrites} :
           IsList(rules) /\ \A i \in DOMAIN rules : IsList(rules[i].from.words) /\ IsList(rules[i].to.words)
  BY <1>1, ConfigAssumption
<1>3. c.default \in Elements(c.locales) /\ DOMAIN c.aliases = Elements(c.locales)
  BY <1>2 DEF ValidLocales, Elements
<1> QED
  BY <1>2, <1>3 DEF IsSettings

LEMMA RuleIs ==
  ASSUME chosen \in DOMAIN Configs, RuleOf # 0
  PROVE  RuleOf \in DOMAIN settings.redirects /\ Applies(settings.redirects[RuleOf], path)
<1> DEFINE fits(rule) == rule.host \in {settings.anyHost, host} /\ Applies(rule, path)
           q == settings.redirects
           I == {i \in 1..Len(q) : fits(q[i])}
<1>1. RuleOf = IF I # {} THEN CHOOSE x \in I : \A y \in I : x <= y ELSE 0
  BY DEF RuleOf, S!SelectInSeq, S!Min
<1>2. IsList(q) /\ Len(q) \in Nat /\ DOMAIN q = 1..Len(q)
  BY ChosenIs, ListHas
<1>3. I \subseteq Nat /\ I # {}
  BY <1>1, <1>2
<1> HIDE DEF I
<1>4. RuleOf \in I
  BY <1>1, <1>3, LeastOfSet
<1> QED
  BY <1>2, <1>4 DEF I

LEMMA RewriteIs ==
  ASSUME chosen \in DOMAIN Configs, RewriteOf # 0
  PROVE  RewriteOf \in DOMAIN settings.rewrites /\ Applies(settings.rewrites[RewriteOf], path)
<1> DEFINE q == settings.rewrites
           I == {i \in 1..Len(q) : Applies(q[i], path)}
<1>1. RewriteOf = IF I # {} THEN CHOOSE x \in I : \A y \in I : x <= y ELSE 0
  BY DEF RewriteOf, S!SelectInSeq, S!Min
<1>2. IsList(q) /\ Len(q) \in Nat /\ DOMAIN q = 1..Len(q)
  BY ChosenIs, ListHas
<1>3. I \subseteq Nat /\ I # {}
  BY <1>1, <1>2
<1> HIDE DEF I
<1>4. RewriteOf \in I
  BY <1>1, <1>3, LeastOfSet
<1> QED
  BY <1>2, <1>4 DEF I

(* The path behind rules and locale.                                       *)
LEMMA InsideIsPath ==
  ASSUME chosen \in DOMAIN Configs, IsPath(path)
  PROVE  IsPath(Inside)
<1>1. CASE RewriteOf # 0
  BY <1>1, RewriteIs, ChosenIs, AppliedIsPath DEF Inside
<1> QED
  BY <1>1 DEF Inside

Claimed(p) == (p[1] = Assets /\ Len(p) > 1) \/ Reserves(settings.reserved, p) \/ p \in settings.claimed

LEMMA SplitIs ==
  ASSUME chosen \in DOMAIN Configs, NEW p, IsPath(p)
  PROVE  LET found == Split(p)
         IN  /\ IsPath(found.rest) /\ found.locale \in Elements(settings.locales)
             /\ found.exempt \/ found.misspelled
                  \/ (found.rest = p /\ found.locale = settings.default)
                  \/ (settings.mode = "path" /\ found = Cut(p, p[1], FALSE))
             /\ found.exempt => found.rest = p /\ Claimed(p)
<1>4. \A l, m : Cut(p, l, m).locale = l /\ ~Cut(p, l, m).exempt /\ Cut(p, l, m).misspelled = m /\ IsPath(Cut(p, l, m).rest)
  BY CutIs
<1>5. settings.default \in Elements(settings.locales)
  BY ONLY chosen \in DOMAIN Configs, ChosenIs
<1> DEFINE found == Split(p)
           folding == {l \in Elements(settings.locales) : Lower[p[1]] = Lower[l]}
           any == CHOOSE l \in folding : TRUE
<1>1. \/ found = Whole(p, TRUE) /\ Claimed(p)
      \/ found = Whole(p, FALSE)
      \/ settings.mode = "path" /\ p[1] \in Elements(settings.locales) /\ found = Cut(p, p[1], FALSE)
      \/ folding # {} /\ found = Cut(p, any, TRUE)
  BY DEF Split, Claimed
<1>2. folding # {} => any \in Elements(settings.locales)
  OBVIOUS
<1> HIDE DEF found, folding, any
<1>3. /\ Whole(p, TRUE).rest = p /\ Whole(p, TRUE).locale = settings.default /\ Whole(p, TRUE).exempt
      /\ Whole(p, FALSE).rest = p /\ Whole(p, FALSE).locale = settings.default /\ ~Whole(p, FALSE).exempt
  BY DEF Whole
<1> DEFINE right == /\ IsPath(found.rest) /\ found.locale \in Elements(settings.locales)
                    /\ found.exempt \/ found.misspelled
                         \/ (found.rest = p /\ found.locale = settings.default)
                         \/ (settings.mode = "path" /\ found = Cut(p, p[1], FALSE))
                    /\ found.exempt => found.rest = p /\ Claimed(p)
<1>6. ASSUME found = Whole(p, TRUE) /\ Claimed(p) PROVE right
  BY <1>3, <1>5, <1>6
<1>7. ASSUME found = Whole(p, FALSE) PROVE right
  BY <1>3, <1>5, <1>7
<1>8. ASSUME settings.mode = "path" /\ p[1] \in Elements(settings.locales) /\ found = Cut(p, p[1], FALSE) PROVE right
  BY <1>4, <1>8
<1>9. ASSUME folding # {} /\ found = Cut(p, any, TRUE) PROVE right
  BY <1>2, <1>4, <1>9
<1>10. right
  BY <1>1, <1>6, <1>7, <1>8, <1>9
<1> QED
  BY <1>10 DEF found
-----------------------------------------------------------------------------
(* A page that is answered is answered at the spelling of its address.     *)
SpelledOnce(page) ==
  LET rest == Normalise(Fill(settings.routes[page.route], page.params), settings.normalize)
  IN  path \in {Localise(page.locale, rest), Public(page.locale, rest), <<page.locale, Empty>>}

LEMMA BehindIs ==
  ASSUME chosen \in DOMAIN Configs, NEW found, IsPath(found.rest)
  PROVE  LET c == Canonical(found.locale, found.rest)
             entered == Behind(found)
         IN  /\ IsPath(entered.rest) /\ (entered.spoken = NoPath \/ IsPath(entered.spoken))
             /\ entered.spoken = NoPath =>
                  \/ found.exempt /\ entered.rest = found.rest
                  \/ entered.rest = found.rest /\ Reserves(settings.reserved, found.rest)
                  \/ /\ entered.rest = c /\ entered.locale = found.locale /\ ~found.misspelled /\ ~found.exempt
                     /\ Normalise(found.rest, settings.normalize) = found.rest /\ Public(found.locale, c) = found.rest
<1> DEFINE c == Canonical(found.locale, found.rest)
           n == Normalise(found.rest, settings.normalize)
           entered == Behind(found)
           saying(rest, spoken) == [locale |-> found.locale, rest |-> rest, spoken |-> spoken]
           right == /\ IsPath(entered.rest) /\ (entered.spoken = NoPath \/ IsPath(entered.spoken))
                    /\ entered.spoken = NoPath =>
                         \/ found.exempt /\ entered.rest = found.rest
                         \/ entered.rest = found.rest /\ Reserves(settings.reserved, found.rest)
                         \/ /\ entered.rest = c /\ entered.locale = found.locale /\ ~found.misspelled /\ ~found.exempt
                            /\ n = found.rest /\ Public(found.locale, c) = found.rest
<1>1. IsPath(n) /\ IsPath(c)
  BY NormaliseIsPath, LocaliseIsPath
<1>2. /\ IsPath(Localise(found.locale, n)) /\ Localise(found.locale, n) # NoPath
      /\ IsPath(Localise(found.locale, c)) /\ Localise(found.locale, c) # NoPath
  <2> HIDE DEF n, c
  <2> QED
    BY <1>1, LocaliseIsPath
<1>3. entered = IF found.exempt THEN saying(found.rest, NoPath)
                ELSE IF n # found.rest \/ found.misspelled THEN saying(found.rest, Localise(found.locale, n))
                ELSE IF Reserves(settings.reserved, found.rest) THEN saying(found.rest, NoPath)
                ELSE IF Public(found.locale, c) # found.rest THEN saying(found.rest, Localise(found.locale, c))
                ELSE saying(c, NoPath)
  BY DEF Behind, Spoken
<1>4. \A rest, spoken : saying(rest, spoken).locale = found.locale /\ saying(rest, spoken).rest = rest /\ saying(rest, spoken).spoken = spoken
  OBVIOUS
<1> HIDE DEF entered, saying, n, c
<1>5. right
  <2>1. ASSUME found.exempt PROVE right
    BY <1>3, <1>4, <2>1
  <2>2. ASSUME ~found.exempt, n # found.rest \/ found.misspelled PROVE right
    BY <1>2, <1>3, <1>4, <2>2
  <2>3. ASSUME ~found.exempt, n = found.rest, ~found.misspelled, Reserves(settings.reserved, found.rest) PROVE right
    BY <1>3, <1>4, <2>3
  <2>4. ASSUME ~found.exempt, n = found.rest, ~found.misspelled, ~Reserves(settings.reserved, found.rest),
               Public(found.locale, c) # found.rest
        PROVE  right
    BY <1>2, <1>3, <1>4, <2>4
  <2>5. ASSUME ~found.exempt, n = found.rest, ~found.misspelled, ~Reserves(settings.reserved, found.rest),
               Public(found.locale, c) = found.rest
        PROVE  right
    BY <1>1, <1>3, <1>4, <2>5
  <2> QED
    BY <2>1, <2>2, <2>3, <2>4, <2>5
<1> QED
  BY <1>5 DEF entered, n, c

LEMMA EnteredIs ==
  ASSUME chosen \in DOMAIN Configs, NEW p, IsPath(p)
  PROVE  IsPath(Entered(p).rest) /\ (Entered(p).spoken = NoPath \/ IsPath(Entered(p).spoken))
<1>1. IsPath(Split(p).rest)
  BY SplitIs
<1>2. IsPath(Behind(Split(p)).rest) /\ (Behind(Split(p)).spoken = NoPath \/ IsPath(Behind(Split(p)).spoken))
  <2> DEFINE found == Split(p)
  <2> HIDE DEF found
  <2> QED
    BY <1>1, BehindIs DEF found
<1>3. CASE settings.mode = "subdomain"
  BY <1>3 DEF Entered
<1> QED
  BY <1>2, <1>3 DEF Entered, Routed

LEMMA RouteIs ==
  ASSUME chosen \in DOMAIN Configs, NEW r \in DOMAIN settings.routes
  PROVE  /\ IsPattern(settings.routes[r]) /\ (RoutesAreOrderly => Orderly(settings.routes[r]))
         /\ \A i \in DOMAIN settings.routes[r] :
              settings.routes[r][i].kind # "word" => settings.routes[r][i].word \in DOMAIN Arguments
<1> DEFINE pattern == settings.routes[r]
<1>1. IsList(pattern)
  BY ChosenIs DEF IsSettings
<1>2. \A i \in DOMAIN pattern : pattern[i].kind \in {"word", "one", "all", "rest"}
                                 /\ (pattern[i].kind # "word" => pattern[i].word \in DOMAIN Arguments)
  BY AddressAssumption DEF settings
<1>3. RoutesAreOrderly => Orderly(pattern)
  BY DEF RoutesAreOrderly, Orderly, settings
<1>4. IsPattern(pattern)
  <2>1. DOMAIN pattern = 1..Len(pattern)
    BY <1>1, ListHas
  <2> HIDE DEF pattern
  <2> QED
    BY <1>1, <1>2, <2>1 DEF IsPattern
<1> QED
  BY <1>2, <1>3, <1>4

LEMMA FoundIs ==
  ASSUME chosen \in DOMAIN Configs, RoutesAreOrderly, AliasesAreSpelled, settings.normalize.slash # "off",
         NEW l \in Elements(settings.locales), NEW c, IsPath(c), Clean(c) = c,
         Normalise(Public(l, c), settings.normalize) = Public(l, c), Matching(Trimmed(c)) # {}
  PROVE  LET page == Page(l, Trimmed(c))
         IN  page.locale = l /\ Normalise(Fill(settings.routes[page.route], page.params), settings.normalize) = c
<1> DEFINE asked == Trimmed(c)
           page == Page(l, asked)
           pattern == settings.routes[page.route]
           words == settings.aliases[l]
           rules == settings.normalize
<1>1. IsSettings /\ rules.slash \in {"strip", "keep"} /\ ValidAliases(words)
  BY ChosenIs
<1>2. \A w \in DOMAIN words : Spell(w, rules) = w
  <2>1. l \in DOMAIN settings.aliases
    BY ChosenIs
  <2> QED
    BY <2>1 DEF AliasesAreSpelled, settings
<1>3. \A i \in 1..(Len(c) - 1) : c[i] # Empty
  BY CleanIs
<1>4. IsList(asked)
  <2>1. asked = IF c = Root THEN <<>> ELSE IF c[Len(c)] = Empty THEN SubSeq(c, 1, Len(c) - 1) ELSE c
    BY <1>3, TrimmedIs
  <2>2. IsList(c) /\ Len(c) \in Nat \ {0}
    BY PathHas
  <2>3. IsList(SubSeq(c, 1, Len(c) - 1))
    BY <2>2, Slice
  <2> HIDE DEF asked
  <2> QED
    BY <2>1, <2>2, <2>3, EmptyIsList
<1>5. /\ page.route \in DOMAIN settings.routes /\ Fits(pattern, asked)
      /\ page.locale = l /\ page.params = ParamsOf(pattern, asked)
  <2> HIDE DEF asked
  <2> QED
    BY <1>1, RouterFinds DEF asked
<1>6. IsPattern(pattern) /\ Orderly(pattern)
  BY <1>5, RouteIs
<1> DEFINE t == IF asked = <<>> THEN Root ELSE asked
<1>7. Fill(pattern, page.params) = t
  <2> HIDE DEF asked, page, pattern
  <2> QED
    BY <1>4, <1>5, <1>6, FillsBack
<1>8. Normalise(Translate(words, c), rules) = Translate(words, c)
  BY DEF Public
<1>9. Normalise(t, rules) = c
  <2> HIDE DEF words, rules
  <2> QED
    BY <1>1, <1>2, <1>3, <1>8, SpellsBack
<1> QED
  BY <1>5, <1>7, <1>9

LEMMA RootSpeaks ==
  ASSUME NEW words, ValidAliases(words), NEW c, IsPath(c), Translate(words, c) = Root
  PROVE  c = Root
<1>1. Len(c) = 1
  BY TranslateIs, RootIsPath
<1>2. c[1] = Empty
  BY <1>1, TranslateKeepsGaps, RootIsPath
<1> QED
  BY <1>1, <1>2, RootIs

LEMMA OnesJoin ==
  ASSUME NEW a, NEW b, IsList(a), IsList(b), Len(a) = 1, Len(b) = 1
  PROVE  IsList(a \o b) /\ Len(a \o b) = 2 /\ (a \o b)[1] = a[1] /\ (a \o b)[2] = b[1]
<1>0. IsList(a) /\ IsList(b)
  OBVIOUS
<1>1. /\ IsList(a \o b) /\ Len(a \o b) = Len(a) + Len(b)
      /\ \A i \in 1..Len(a) : (a \o b)[i] = a[i]
      /\ \A i \in 1..Len(b) : (a \o b)[Len(a) + i] = b[i]
  BY ONLY <1>0, Concatenated
<1> DEFINE d == a \o b
<1> HIDE DEF d
<1>2. IsList(d) /\ Len(d) = 1 + 1 /\ (\A i \in 1..1 : d[i] = a[i]) /\ \A i \in 1..1 : d[1 + i] = b[i]
  BY <1>1 DEF d
<1>3. IsList(d) /\ Len(d) = 2 /\ d[1] = a[1] /\ d[2] = b[1]
  BY <1>2
<1> QED
  BY <1>3 DEF d

LEMMA TwoWords == ASSUME NEW x, NEW y PROVE <<x>> \o <<y>> = <<x, y>>
<1> DEFINE a == <<x>>
           b == <<y>>
           c == <<x, y>>
<1>1. /\ IsList(a) /\ Len(a) = 1 /\ a[1] = x /\ IsList(b) /\ Len(b) = 1 /\ b[1] = y
      /\ c[1] = x /\ c[2] = y
  BY OneIsList
<1>2. IsList(c) /\ Len(c) = 2
  <2>1. c \in [1..2 -> {x, y}]
    OBVIOUS
  <2> HIDE DEF c
  <2> QED
    BY <2>1, FunctionIsList
<1> HIDE DEF a, b, c
<1>3. IsList(a \o b) /\ Len(a \o b) = 2 /\ (a \o b)[1] = x /\ (a \o b)[2] = y
  BY <1>1, OnesJoin
<1>4. a \o b = c
  <2> DEFINE d == a \o b
  <2> HIDE DEF d
  <2>1. IsList(d) /\ Len(d) = 2 /\ \A i \in 1..2 : d[i] = c[i]
    BY <1>1, <1>3 DEF d
  <2> QED
    BY <1>2, <2>1, ListsAreEqual DEF d
<1> QED
  BY <1>4 DEF a, b, c

LEMMA AnsweredIs ==
  ASSUME chosen \in DOMAIN Configs, IsPath(path), RoutesAreOrderly, AliasesAreSpelled,
         settings.mode = "path", settings.normalize.slash # "off", Stays, RewriteOf = 0,
         NEW entered, entered = Entered(path), entered.spoken = NoPath, Clean(entered.rest) = entered.rest,
         ~Claimed(entered.rest), Matching(Trimmed(entered.rest)) # {}
  PROVE  SpelledOnce(Page(entered.locale, Trimmed(entered.rest)))
<1>0. \A k, m : Cut(path, k, m).locale = k
  BY CutIs
<1> DEFINE found == Split(path)
           l == found.locale
           c == Canonical(l, found.rest)
           page == Page(entered.locale, Trimmed(entered.rest))
<1>1. /\ IsPath(found.rest) /\ l \in Elements(settings.locales)
      /\ found.exempt \/ found.misspelled
           \/ (found.rest = path /\ l = settings.default)
           \/ found = Cut(path, path[1], FALSE)
      /\ found.exempt => found.rest = path /\ Claimed(path)
  BY SplitIs
<1>2. entered = Behind(found)
  BY DEF Entered, Routed
<1>3. /\ entered.rest = c /\ entered.locale = l /\ ~found.misspelled
      /\ Normalise(found.rest, settings.normalize) = found.rest /\ Public(l, c) = found.rest /\ ~found.exempt
  <2> HIDE DEF found
  <2>1. \/ found.exempt /\ entered.rest = found.rest
        \/ entered.rest = found.rest /\ Reserves(settings.reserved, found.rest)
        \/ /\ entered.rest = c /\ entered.locale = l /\ ~found.misspelled /\ ~found.exempt
           /\ Normalise(found.rest, settings.normalize) = found.rest /\ Public(l, c) = found.rest
    BY <1>1, <1>2, BehindIs
  <2>2. ~(found.exempt /\ entered.rest = found.rest)
    BY <1>1
  <2>3. ~(entered.rest = found.rest /\ Reserves(settings.reserved, found.rest))
    BY DEF Claimed
  <2>4. found.exempt => found.rest = path
    BY <1>1
  <2> QED
    BY <2>1, <2>2, <2>3
<1>4. IsPath(c)
  <2> HIDE DEF found
  <2> QED
    BY <1>1, LocaliseIsPath
<1>5. page.locale = l /\ Normalise(Fill(settings.routes[page.route], page.params), settings.normalize) = c
  <2>1. page = Page(l, Trimmed(c)) /\ Clean(c) = c /\ Matching(Trimmed(c)) # {}
    BY <1>3
  <2>2. Normalise(Public(l, c), settings.normalize) = Public(l, c)
    BY <1>3
  <2> HIDE DEF c, l, page
  <2> QED
    BY <1>1, <1>4, <2>1, <2>2, FoundIs DEF l
<1>6. path \in {Localise(l, c), Public(l, c), <<l, Empty>>}
  <2>1. CASE found.rest = path
    BY <1>3, <2>1
  <2>2. CASE found = Cut(path, path[1], FALSE)
    <3>1. l = path[1] /\ found.rest = IF Len(path) = 1 THEN Root ELSE Tail(path)
      <4>1. Cut(path, path[1], FALSE).locale = path[1]
        BY <1>0
      <4>2. Cut(path, path[1], FALSE).rest = IF Len(path) = 1 THEN Root ELSE Tail(path)
        BY DEF Cut
      <4> HIDE DEF found
      <4> QED
        BY <2>2, <4>1, <4>2
    <3>2. Prefixed(l)
      BY <3>1 DEF Stays, DefaultLocaleRedirect, Prefixed
    <3>3. found.rest = Root <=> c = Root
      <4>1. found.rest = Translate(settings.aliases[l], c) /\ ValidAliases(settings.aliases[l])
        BY <1>1, <1>3, ChosenIs DEF Public
      <4> DEFINE words == settings.aliases[l]
      <4> HIDE DEF found, c, words
      <4>2. /\ c = Root => found.rest = Root
            /\ found.rest = Root => c = Root
        BY <1>4, <4>1, RootIsSpoken, RootSpeaks DEF words
      <4> QED
        BY <4>2
    <3>4. CASE Len(path) = 1
      <4>1. path = <<l>>
        <5>1. IsList(path) /\ IsList(<<l>>) /\ Len(<<l>>) = 1 /\ <<l>>[1] = path[1]
          BY <3>1, PathHas, OneIsList
        <5> QED
          BY <3>4, <5>1, ListsAreEqual
      <4>2. Localise(l, c) = <<l>>
        BY <3>1, <3>2, <3>3, <3>4 DEF Localise
      <4> QED
        BY <4>1, <4>2
    <3>5. CASE Len(path) # 1
      <4>1. path = <<l>> \o found.rest
        BY <3>1, <3>5, TailIs
      <4>2. CASE c = Root
        <5>1. path = <<l>> \o <<Empty>>
          BY <3>3, <4>1, <4>2 DEF Root
        <5>2. <<l>> \o <<Empty>> = <<l, Empty>>
          BY TwoWords
        <5> QED
          BY <5>1, <5>2
      <4>3. CASE c # Root
        BY <1>3, <3>2, <4>1, <4>3 DEF Localise
      <4> QED
        BY <4>2, <4>3
    <3> QED
      BY <3>4, <3>5
  <2> QED
    BY <1>1, <1>3, <2>1, <2>2
<1> HIDE DEF page, l, c
<1> QED
  BY <1>5, <1>6 DEF SpelledOnce, page
-----------------------------------------------------------------------------
(* Every visit is at an address that has words, on a site of the settings. *)
LEMMA FillIsPath ==
  ASSUME chosen \in DOMAIN Configs, NEW r \in DOMAIN settings.routes, NEW params \in ArgumentsOf(r)
  PROVE  IsPath(Fill(settings.routes[r], params))
<1> DEFINE pattern == settings.routes[r]
           part(i) == IF pattern[i].kind = "word" THEN <<pattern[i].word>> ELSE params[pattern[i].word]
           parts == [i \in DOMAIN pattern |-> part(i)]
           n == Len(pattern)
<1>1. IsList(pattern) /\ \A i \in DOMAIN pattern : pattern[i].kind # "word" => pattern[i].word \in DOMAIN Arguments
  BY RouteIs DEF IsPattern
<1>2. n \in Nat /\ DOMAIN pattern = 1..n
  BY <1>1, ListHas
<1>3. \A i \in 1..n : IsList(part(i))
  <2> SUFFICES ASSUME NEW i \in 1..n PROVE IsList(part(i))
    OBVIOUS
  <2>1. CASE pattern[i].kind = "word"
    BY <2>1, OneIsList
  <2>2. CASE pattern[i].kind # "word"
    <3> DEFINE name == pattern[i].word
    <3>1. name \in {pattern[j].word : j \in {k \in DOMAIN pattern : pattern[k].kind # "word"}}
      BY <1>2, <2>2
    <3>2. params[name] \in Arguments[name]
      BY <3>1 DEF ArgumentsOf
    <3>3. name \in DOMAIN Arguments
      BY <1>1, <1>2, <2>2
    <3> HIDE DEF name
    <3>4. IsList(params[name])
      BY <3>2, <3>3, AddressAssumption
    <3> QED
      BY <2>2, <3>4 DEF name
  <2> QED
    BY <2>1, <2>2
<1>4. IsList(parts) /\ Len(parts) = n /\ \A i \in 1..n : parts[i] = part(i)
  <2> DEFINE T == {part(i) : i \in 1..n}
  <2> HIDE DEF part
  <2>1. parts \in [1..n -> T] /\ \A i \in 1..n : parts[i] = part(i)
    BY <1>2
  <2> HIDE DEF parts, T, n
  <2> QED
    BY <1>2, <2>1, FunctionIsList
<1>5. Fill(pattern, params) = IF S!FlattenSeq(parts) = <<>> THEN Root ELSE S!FlattenSeq(parts)
  BY DEF Fill
<1> HIDE DEF parts, part
<1>6. IsList(S!FlattenSeq(parts))
  BY <1>3, <1>4, ElementsJoined
<1> QED
  BY <1>5, <1>6, RootIsPath DEF IsPath

AtAPath == chosen \in DOMAIN Configs /\ IsPath(path)

LEMMA VisitStarts == ASSUME Init PROVE AtAPath
<1>1. chosen \in DOMAIN Configs
  BY DEF Init
<1>2. CASE Type
  BY <1>1, <1>2, AddressAssumption DEF Type, AtAPath
<1>3. CASE Follow
  <2>1. PICK r \in DOMAIN settings.routes, locale \in Elements(settings.locales) :
          \E params \in ArgumentsOf(r) : path = Localise(locale, Fill(settings.routes[r], params))
    BY <1>3 DEF Follow
  <2>2. PICK params \in ArgumentsOf(r) : path = Localise(locale, Fill(settings.routes[r], params))
    BY <2>1
  <2>3. IsPath(Fill(settings.routes[r], params))
    BY <1>1, FillIsPath
  <2> DEFINE p == Fill(settings.routes[r], params)
  <2> HIDE DEF p
  <2>4. IsPath(Localise(locale, p))
    BY <2>3, LocaliseIsPath DEF p
  <2> QED
    BY <1>1, <2>2, <2>4 DEF AtAPath, p
<1> QED
  BY <1>2, <1>3 DEF Init

LEMMA SendLeads ==
  ASSUME NEW to, NEW target, IsPath(target), IsPath(path), outcome = Nothing, Send(to, target)
  PROVE  IsPath(path') /\ chosen' = chosen /\ outcome'.status # "page"
<1>1. CASE Stop("refused")
  BY <1>1 DEF Stop
<1>2. CASE path' = target /\ UNCHANGED <<chosen, goal, outcome>>
  BY <1>2 DEF Nothing
<1> QED
  BY <1>1, <1>2 DEF Send

LEMMA VisitSteps ==
  ASSUME AtAPath, OneSpelling, RoutesAreOrderly, AliasesAreSpelled, [Next]_vars
  PROVE  AtAPath' /\ OneSpelling'
<1> USE DEF AtAPath
<1>1. ASSUME chosen' = chosen, IsPath(path'), outcome'.status # "page" PROVE AtAPath' /\ OneSpelling'
  BY <1>1 DEF OneSpelling
<1>2. CASE Misdirected
  <2>1. chosen' = chosen /\ path' = path /\ outcome'.status # "page"
    BY <1>2 DEF Misdirected, Stop
  <2> QED
    BY <1>1, <2>1
<1>3. CASE Reroute
  <2>1. outcome = Nothing
    BY <1>3 DEF Reroute
  <2>2. CASE RuleOf # 0
    <3> DEFINE rule == settings.redirects[RuleOf]
    <3>1. Send(rule.to.host, Applied(rule, path))
      BY <1>3, <2>2 DEF Reroute
    <3>2. IsPath(Applied(rule, path))
      BY <2>2, RuleIs, ChosenIs, AppliedIsPath
    <3> HIDE DEF rule
    <3> QED
      BY <1>1, <2>1, <3>1, <3>2, SendLeads
  <2>3. CASE RuleOf = 0
    <3>1. Send(settings.anyHost, Cut(path, settings.default, FALSE).rest)
      BY <1>3, <2>3 DEF Reroute, Here
    <3>2. IsPath(Cut(path, settings.default, FALSE).rest)
      BY CutIs
    <3> QED
      BY <1>1, <2>1, <3>1, <3>2, SendLeads
  <2> QED
    BY <2>2, <2>3
<1>4. CASE Refuse
  <2>1. chosen' = chosen /\ path' = path /\ outcome'.status # "page"
    BY <1>4 DEF Refuse, Stop
  <2> QED
    BY <1>1, <2>1
<1>5. \A entered \in Within : entered = Entered(Inside) /\ IsPath(entered.rest) /\ (entered.spoken = NoPath \/ IsPath(entered.spoken))
  <2>1. IsPath(Inside)
    BY InsideIsPath
  <2>2. IsPath(Entered(Inside).rest) /\ (Entered(Inside).spoken = NoPath \/ IsPath(Entered(Inside).spoken))
    BY <2>1, EnteredIs
  <2> QED
    BY <2>2 DEF Within
<1>6. CASE Respell
  <2>1. PICK entered \in Within : entered.spoken # NoPath /\ Send(settings.anyHost, entered.spoken)
    BY <1>6 DEF Respell, Here
  <2>2. IsPath(entered.spoken) /\ outcome = Nothing
    BY <1>5, <1>6, <2>1 DEF Respell, Stays
  <2> QED
    BY <1>1, <2>1, <2>2, SendLeads
<1>7. CASE Tidy
  <2>1. PICK entered \in Arrived : Send(settings.anyHost, Clean(entered.rest))
    BY <1>7 DEF Tidy, Here
  <2>2. entered \in Within /\ outcome = Nothing
    BY <2>1 DEF Arrived, Stays
  <2>3. IsPath(Clean(entered.rest))
    BY <1>5, <2>2, CleanIs
  <2> QED
    BY <1>1, <2>1, <2>2, <2>3, SendLeads
<1>8. CASE Answer
  <2>1. PICK entered \in Arrived :
          /\ Clean(entered.rest) = entered.rest
          /\ IF entered.rest \in settings.claimed \/ (entered.rest[1] = Assets /\ Len(entered.rest) > 1)
             THEN Stop("claimed")
             ELSE IF Matching(Trimmed(entered.rest)) = {} THEN Stop("absent")
             ELSE /\ outcome' = Served(Page(entered.locale, Trimmed(entered.rest)), RewriteOf = 0 /\ ~Reserves(settings.reserved, entered.rest))
                  /\ UNCHANGED <<chosen, host, path, goal, hops>>
    BY <1>8 DEF Answer
  <2>2. entered \in Within /\ Stays /\ entered.spoken = NoPath
    BY <2>1 DEF Arrived
  <2>3. CASE Stop("claimed") \/ Stop("absent")
    <3>1. chosen' = chosen /\ path' = path /\ outcome'.status # "page"
      BY <2>3 DEF Stop
    <3> QED
      BY <1>1, <3>1
  <2> DEFINE page == Page(entered.locale, Trimmed(entered.rest))
             fair == RewriteOf = 0 /\ ~Reserves(settings.reserved, entered.rest)
  <2>4. ASSUME ~(entered.rest \in settings.claimed \/ (entered.rest[1] = Assets /\ Len(entered.rest) > 1)),
               Matching(Trimmed(entered.rest)) # {}, outcome' = Served(page, fair), chosen' = chosen, path' = path
        PROVE  AtAPath' /\ OneSpelling'
    <3>1. outcome'.page = page /\ (outcome'.fair <=> fair)
      <4> HIDE DEF page, fair
      <4> QED
        BY <2>4 DEF Served
    <3>2. ASSUME settings.mode = "path", settings.normalize.slash # "off", fair PROVE SpelledOnce(page)
      <4>1. Inside = path /\ ~Claimed(entered.rest)
        BY <2>4, <3>2 DEF Inside, Claimed
      <4>2. entered = Entered(path)
        BY <1>5, <2>2, <4>1
      <4> QED
        BY <2>1, <2>2, <2>4, <3>2, <4>1, <4>2, AnsweredIs
    <3>3. settings' = settings
      BY <2>4 DEF settings
    <3> HIDE DEF page, fair
    <3>4. OneSpelling'
      BY <2>4, <3>1, <3>2, <3>3 DEF OneSpelling, SpelledOnce, Localise, Prefixed, Public
    <3> QED
      BY <2>4, <3>4
  <2> QED
    BY <2>1, <2>3, <2>4
<1>9. CASE Settled \/ UNCHANGED vars
  <2>1. chosen' = chosen /\ path' = path /\ outcome' = outcome
    BY <1>9 DEF Settled, vars
  <2>2. settings' = settings
    BY <2>1 DEF settings
  <2>3. OneSpelling'
    BY <2>1, <2>2 DEF OneSpelling, Localise, Prefixed, Public
  <2> QED
    BY <2>1, <2>3
<1> QED
  BY <1>2, <1>3, <1>4, <1>6, <1>7, <1>8, <1>9 DEF Next

(* OneSpelling for any site and any path a browser asks for: what split,   *)
(* normalise and Canonical take apart, once the router has found a page,   *)
(* Fill, Normalise and Localise put together again as it was.              *)
THEOREM PagesHaveOneSpelling ==
  ASSUME RoutesAreOrderly, AliasesAreSpelled
  PROVE  ServerSpec => []OneSpelling
<1> DEFINE Inv == AtAPath /\ OneSpelling
<1>1. ServerInit => Inv
  <2>1. CASE Init
    BY <2>1, VisitStarts DEF Init, Nothing, OneSpelling
  <2>2. CASE chosen \in Sites /\ NoVisit
    BY <2>2, RootIsPath, SitesAssumption DEF NoVisit, Nothing, OneSpelling, AtAPath
  <2> QED
    BY <2>1, <2>2 DEF ServerInit
<1>2. Inv /\ [ServerNext]_<<about, vars, webVars>> => Inv'
  <2> SUFFICES ASSUME Inv, [ServerNext]_<<about, vars, webVars>> PROVE Inv'
    OBVIOUS
  <2>1. [Next]_vars
    BY DEF ServerNext
  <2> QED
    BY <2>1, VisitSteps
<1>3. Inv => OneSpelling
  OBVIOUS
<1> QED
  BY <1>1, <1>2, <1>3, PTL DEF ServerSpec
=============================================================================
