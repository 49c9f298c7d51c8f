------------------------------ MODULE Routes -------------------------------
(***************************************************************************)
(* From the tree under app/ to the routes, layouts and fallbacks of the    *)
(* manifest, and what the compiler says of a link in a template:           *)
(* discover.go, layout.go, link.go and the phases of compile.go, with the  *)
(* choices the server makes among them (Entry, Manifest.Fallback, chain).  *)
(*                                                                         *)
(* A directory is a sequence of segments [kind, word]: a plain "word",     *)
(* "one" for [id], "all" for [...id], "rest" for [[...id]], "group" for    *)
(* (id).  A file is [dir, file, standalone].                               *)
(***************************************************************************)
EXTENDS Integers, Sequences, FiniteSets

CONSTANTS Order,     \* segments, in the order of their spelling
          Api,       \* words that begin with APIPrefix
          Dynamic,   \* dynamicMarker, for an interpolation
          Word, Empty,   \* words of paths, in their spelling
          Settings   \* Entry's settings for every sequence of routes

VARIABLE site        \* [files, pages, settings], by Compiled

S == INSTANCE SequencesExt

None == [file |-> "none"]
-----------------------------------------------------------------------------
PatternOf(dir) == SelectSeq(dir, LAMBDA segment : segment.kind # "group")

NameOf(pattern) == IF pattern = <<>> THEN <<"index">> ELSE [i \in DOMAIN pattern |-> pattern[i].word]

(* Layouts of every directory on the way, the outermost first.             *)
LayoutsFor(files, dir) ==
  S!SetToSortSeq({f \in files : f.file = "layout" /\ S!IsPrefix(f.dir, dir)}, LAMBDA f, g : Len(f.dir) < Len(g.dir))

(* standing: the last layout that stands alone begins the chain.           *)
Standing(layouts) ==
  LET last == S!SelectLastInSeq(layouts, LAMBDA f : f.standalone)
  IN  IF last = 0 THEN layouts ELSE SubSeq(layouts, last, Len(layouts))

Rank(segment) == CHOOSE i \in DOMAIN Order : Order[i] = segment

Earlier(p, q) ==
  \E n \in 0..Len(p) : /\ n < Len(q) /\ \A i \in 1..n : p[i] = q[i]
                       /\ n < Len(p) => Rank(p[n + 1]) < Rank(q[n + 1])

RouteOf(files, f) ==
  LET pattern == PatternOf(f.dir)
  IN  [pattern |-> pattern, name |-> NameOf(pattern), page |-> f.file = "page", file |-> f,
       chain |-> Standing(LayoutsFor(files, f.dir))]

Discovered(files) == {RouteOf(files, f) : f \in {g \in files : g.file \in {"page", "route"}}}

InApi(pattern) == pattern # <<>> /\ pattern[1].kind = "word" /\ pattern[1].word \in Api

(* C101 and C102.                                                          *)
Reported(files) ==
  \/ \E r, t \in Discovered(files) : r.file # t.file /\ r.pattern = t.pattern
  \/ \E r \in Discovered(files) : r.page /\ InApi(r.pattern)

InOrder(routes) == S!SetToSortSeq(routes, LAMBDA r, t : Earlier(r.pattern, t.pattern))
Pages(files) == InOrder({r \in Discovered(files) : r.page})
Handlers(files) == {r \in Discovered(files) : ~r.page}

DiscoverFallbacks(files) ==
  {[prefix |-> PatternOf(f.dir), kind |-> f.file, file |-> f, chain |-> Standing(LayoutsFor(files, f.dir))] :
     f \in {g \in files : g.file \in {"not-found", "error"}}}
-----------------------------------------------------------------------------
(* The server: pages by Entry's router, handlers by ServeMux before them,  *)
(* chains by the name of a route (routePlans), the later one staying.      *)
Compiled(files, settings) ==
  LET pages == Pages(files)
  IN  [files |-> files, pages |-> pages, settings |-> [settings EXCEPT !.routes = [i \in DOMAIN pages |-> pages[i].pattern]]]

E == INSTANCE Entry WITH
  chosen <- site.settings, Configs <- [s \in Settings |-> s], Assets <- "assets",
  Word <- Word, Empty <- Empty, Lower <- [w \in Word |-> w], Fold <- [w \in Word |-> w], Hosts <- {}, Typed <- {}, Arguments <- <<>>,
  host <- <<>>, path <- <<>>, goal <- <<>>, hops <- 0, outcome <- <<>>

PathOf(words) == IF words = <<>> THEN <<Empty>> ELSE words

Chain(page) ==
  site.pages[S!SelectLastInSeq(site.pages, LAMBDA r : r.name = page.name)].chain

(* What answers inside: a handler, a page, or none.                        *)
Inside(entered) ==
  LET asked == E!Trimmed(entered.rest)
      handlers == {r \in Handlers(site.files) : E!Fits(r.pattern, asked)}
  IN  IF handlers # {} THEN (CHOOSE r \in handlers : TRUE).file
      ELSE IF E!Matching(asked) = {} THEN None
      ELSE site.pages[E!Page(entered.locale, asked).route].file

Redirects(path) == E!DefaultLocaleRedirect(path) \/ E!Routed(path).spoken # E!NoPath

Followed(path) ==
  LET one == IF E!DefaultLocaleRedirect(path) THEN PathOf(Tail(path)) ELSE path
      two == E!Routed(one)
  IN  IF two.spoken = E!NoPath THEN two ELSE E!Routed(two.spoken)

(* Manifest.Fallback: the longest prefix the path is under, as text.       *)
UnderPrefix(asked, prefix) ==
  Len(prefix) <= Len(asked) /\ \A i \in DOMAIN prefix : prefix[i].kind = "word" /\ prefix[i].word = asked[i]

Fallback(kind, asked) ==
  LET found == {f \in DiscoverFallbacks(site.files) : f.kind = kind /\ UnderPrefix(asked, f.prefix)}
  IN  IF found = {} THEN None
      ELSE (CHOOSE f \in found : \A g \in found : Len(g.prefix) <= Len(f.prefix)).file
-----------------------------------------------------------------------------
(* Linker: a link is a sequence of words, some of them dynamic.            *)
(*                                                                         *)
(* Mutant: a catch-all takes the path that ends before it.                 *)
MatchSegmentsBare(pattern, actual) ==
  IF \E i \in DOMAIN pattern : pattern[i].kind \in {"all", "rest"}
  THEN LET at == CHOOSE i \in DOMAIN pattern : pattern[i].kind \in {"all", "rest"}
       IN  Len(actual) >= at - 1 /\ \A i \in 1..(at - 1) : pattern[i].kind = "one" \/ pattern[i].word = actual[i]
  ELSE Len(actual) = Len(pattern) /\ \A i \in DOMAIN pattern : pattern[i].kind = "one" \/ pattern[i].word = actual[i]

MatchSegments(pattern, actual) ==
  \E end \in 0..Len(pattern) :
    /\ end <= Len(actual)
    /\ \A i \in 1..end : pattern[i].kind = "one" \/ (pattern[i].kind = "word" /\ pattern[i].word = actual[i])
    /\ \/ end = Len(pattern) /\ end = Len(actual)
       \/ end < Len(pattern) /\ pattern[end + 1].kind = "rest"
       \/ end < Len(pattern) /\ pattern[end + 1].kind = "all" /\ Len(actual) > end

Matches(words) == \E r \in Discovered(site.files) : MatchSegments(r.pattern, words)

Speaks(locale) == DOMAIN site.settings.aliases[locale] # {}

Spoken(locale, words) ==
  LET rest == IF words # <<>> /\ words[1] = locale THEN Tail(words) ELSE words
  IN  IF Speaks(locale) THEN E!Canonical(locale, rest) ELSE rest

Locales == {site.settings.locales[i] : i \in DOMAIN site.settings.locales}

(* attribute: text that is a served file, or a path that a route matches.  *)
Served(words) == words \in site.settings.reserved

Takes(words) ==
  \/ Served(words)
  \/ Matches(words)
  \/ Cardinality(Locales) > 1 /\ \E locale \in Locales : Matches(Spoken(locale, words))
-----------------------------------------------------------------------------
Words == {Order[i].word : i \in {j \in DOMAIN Order : Order[j].kind # "group"}} \ Api

Filled(words) == {[i \in DOMAIN words |-> IF words[i] = Dynamic THEN w ELSE words[i]] : w \in Words}

(* A parameter of the first segment takes the prefix of a locale for one.  *)
Ambiguous(words) == words # <<>> /\ words[1] \in Locales /\ Matches(words)

(* A link the compiler takes is answered, if need be under the locale      *)
(* whose words it is written in; one it refuses is answered by nothing.    *)
Links(words) ==
  IF Ambiguous(words) THEN TRUE
  ELSE IF Takes(words)
  THEN \A w \in Filled(words) :
         Served(w) \/ \E path \in {PathOf(w)} \cup {<<l>> \o w : l \in Locales} : Inside(Followed(path)) # None
  ELSE \A w \in Filled(words) : Dynamic \in {words[i] : i \in DOMAIN words}
         \/ Redirects(PathOf(w)) \/ Inside(E!Routed(PathOf(w))) = None

(* Who asks for a directory spelled out is answered by a file of that      *)
(* directory, groups aside, within the layouts on the way to it; who asks  *)
(* for what is not there, by the not-found of the deepest directory.       *)
Stands(words) ==
  LET answer == Inside([locale |-> site.settings.default, rest |-> PathOf(words)])
      literal == {f \in site.files : PatternOf(f.dir) = [i \in DOMAIN words |-> [kind |-> "word", word |-> words[i]]]}
      shown == Chain([name |-> NameOf(PatternOf(answer.dir))])
      deeper(f, g) == Len(PatternOf(f.dir)) > Len(PatternOf(g.dir))
      near == {f \in site.files : f.file = "not-found" /\ UnderPrefix(words, PatternOf(f.dir))}
  IN  /\ \A f \in literal : f.file \in {"page", "route"} => answer = f
      /\ answer.file = "page" =>
           \A f \in site.files : f.file = "layout" =>
             ((\E i \in DOMAIN shown : shown[i] = f) <=>
                /\ S!IsPrefix(f.dir, answer.dir)
                /\ \A g \in site.files : g.file = "layout" /\ g.standalone /\ S!IsPrefix(g.dir, answer.dir)
                                           => Len(g.dir) <= Len(f.dir))
      /\ LET found == Fallback("not-found", words)
         IN  IF near = {} THEN found = None ELSE found \in near /\ ~\E f \in near : deeper(f, found)

(* Two routes of one name: their chains are one in the server.             *)
Namesakes(files) == \E r, t \in Discovered(files) : r.file # t.file /\ r.name = t.name

Answers(links) == Reported(site.files) \/ Namesakes(site.files) \/ \A words \in links : Links(words) /\ Stands(words)
=============================================================================
