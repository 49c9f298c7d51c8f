------------------------------ MODULE Sitemap ------------------------------
(***************************************************************************)
(* The sitemap: internal/seo and internal/server/sitemap.go.  Its list of  *)
(* pages is run through anew for every document made of it, page by page   *)
(* and hook by hook, and only as far as the document needs; a document is  *)
(* kept in the page cache under the lifetime, the tags and the privacy of  *)
(* the hooks that were run.                                                *)
(*                                                                         *)
(* Document 0 is /sitemap.xml, and n > 0 is /sitemap/n.xml; no two meet in *)
(* the cache, so one is followed at a time.  A hook is the Meta of a route *)
(* without parameters, or the Sitemap of any route.  Making a document and *)
(* keeping it is one step: what concurrent requests make of the cache is   *)
(* PageCache's.                                                            *)
(***************************************************************************)
EXTENDS Entry

CONSTANTS Metas, Sitemaps,      \* the routes with either hook
          Manners,              \* what hooks may record, [Metas \cup Sitemaps -> Manner]
          Limit, Exclude, Probes, TTL, Stale,  \* seo.sitemap of gopage.json
          Before(_, _),         \* the order of paths as strings
          Sites,                \* the settings, of Configs, whose sitemap is followed
          MaxTime, MaxPages, MaxShard, MaxChanges

Manner == {"tagged", "timed", "private"}
Hooks == Metas \cup Sitemaps

(* A hook fails before it records or late, after that; a Sitemap that fails*)
(* fails its document, whatever it recorded.                               *)
Ends(h) == {"well", "mute"} \cup (IF h \in Metas THEN {"late"} ELSE {})

Documents == 0..MaxShard

ASSUME SitemapAssumption ==
  /\ Limit \in Nat \ {0} /\ {TTL, Stale} \subseteq Nat \ {0} /\ Metas \cap Sitemaps = {} /\ Manners \subseteq [Hooks -> Manner]

ASSUME SitesAssumption == Sites \subseteq DOMAIN Configs /\ \A c \in Sites : Hooks \subseteq DOMAIN Configs[c].routes

VARIABLES site,    \* what the hooks say: "robots" of a Meta, and how many "pages" of a Sitemap
          broken,  \* how hooks end at the time, [h \in Hooks -> Ends(h)]
          derived, \* what FromRoutes makes of the manifest, the same for every request
          manner, document, now, changes,
          store,   \* the document as the cache holds it
          seen     \* the document just answered

webVars == <<site, broken, derived, manner, document, now, changes, store, seen>>
-----------------------------------------------------------------------------
ListedLocales == IF settings.mode # "path" \/ Len(settings.locales) < 2 THEN {settings.default} ELSE Elements(settings.locales)

PatternOf(r) == LET words == [i \in DOMAIN settings.routes[r] |-> settings.routes[r][i].word] IN IF words = <<>> THEN Root ELSE words

Excluded(r) == \E prefix \in Exclude : S!IsPrefix(prefix, PatternOf(r))

(* FromRoutes: routes without parameters, or a Sitemap of their own.       *)
Alternates(r) == IF Cardinality(ListedLocales) < 2 THEN {} ELSE {Localise(l, PatternOf(r)) : l \in Elements(settings.locales)}

ListedRoutes == {r \in Listed : r \notin Sitemaps /\ ~Excluded(r)}

FromRoutes ==
  LET list == {[route |-> r, path |-> Localise(l, PatternOf(r)), alternates |-> Alternates(r)] :
                 r \in ListedRoutes, l \in ListedLocales}
  IN  [i \in 1..Cardinality(list) |->
         CHOOSE d \in list : Cardinality({e \in list : Before(e.path, d.path)}) = i - 1]

(* What is listed has an address of its own, and strings put these in      *)
(* order.  A route that begins with the name of a locale may share one with*)
(* another route, and both would be listed.                                *)
AddressesDiffer ==
  LET pages == ListedRoutes \X ListedLocales
      at(page) == Localise(page[2], PatternOf(page[1]))
  IN  /\ \A p, q \in pages :
           /\ p # q => at(p) # at(q) /\ (Before(at(p), at(q)) <=> ~Before(at(q), at(p)))
           /\ ~Before(at(p), at(p))
           /\ \A r \in pages : Before(at(p), at(q)) /\ Before(at(q), at(r)) => Before(at(p), at(r))
      /\ \A r, q \in Sitemaps : r # q => PatternOf(r) # PatternOf(q)

(* An entry's own address is its path; a canonical address, and the n-th   *)
(* page a hook lists, are told apart by "own".                             *)
EntryOf(d) == [path |-> d.path, own |-> 0, alternates |-> d.alternates]
GivenPage(r, n) == [path |-> PatternOf(r), own |-> n, alternates |-> {}]
NoEntry == [path |-> NoPath, own |-> 0, alternates |-> {}]
Failure == [path |-> NoPath, own |-> 1, alternates |-> {}]

FromMeta(d, says) == IF says = "canonical" THEN [EntryOf(d) EXCEPT !.own = -1] ELSE EntryOf(d)

(* What one step through the list does: what it hears of a hook's recorder,*)
(* and the entry it comes to, if any.                                      *)
Step(heard, adds, entry) == [heard |-> heard, adds |-> adds, entry |-> entry]
Silence == {}
Fails(h, ends) == ends[h] # "well"
Recorded(h, ends) == IF ends[h] = "mute" THEN Silence ELSE {h}

(* Mutant: a page that is kept out is not listened to.                     *)
ProbedIfKept(d, s, ends) ==
  IF d.route \notin Metas \/ ~Probes THEN Step(Silence, FALSE, EntryOf(d))
  ELSE IF Fails(d.route, ends) THEN Step(Recorded(d.route, ends), FALSE, EntryOf(d))
  ELSE IF s.robots[d.route] = "noindex" THEN Step(Silence, FALSE, NoEntry)
  ELSE Step({d.route}, FALSE, FromMeta(d, s.robots[d.route]))

(* probe: a hook that fails leaves the entry as the routes give it, and    *)
(* what it recorded until then is heard.                                   *)
Probed(d, s, ends) ==
  IF d.route \notin Metas \/ ~Probes THEN Step(Silence, FALSE, EntryOf(d))
  ELSE Step(Recorded(d.route, ends), FALSE,
            IF Fails(d.route, ends) THEN EntryOf(d)
            ELSE IF s.robots[d.route] = "noindex" THEN NoEntry ELSE FromMeta(d, s.robots[d.route]))

(* provided: what it records is heard when it has answered, before its     *)
(* entries are run through.                                                *)
Provided(r, s, ends) ==
  IF Fails(r, ends) THEN <<Step(Silence, TRUE, Failure)>>
  ELSE <<Step({r}, TRUE, NoEntry)>> \o [n \in 1..s.pages[r] |-> Step(Silence, FALSE, GivenPage(r, n))]

(* entries: the derived ones by path, then the hooks by the manifest.      *)
Steps(s, ends) ==
  [i \in DOMAIN derived |-> Probed(derived[i], s, ends)]
  \o S!FlattenSeq([r \in DOMAIN settings.routes |-> IF r \in Sitemaps /\ ~Excluded(r) THEN Provided(r, s, ends) ELSE <<>>])
-----------------------------------------------------------------------------
Comes(step) == step.entry # NoEntry
EntriesOf(steps) == S!FlattenSeq([i \in DOMAIN steps |-> IF Comes(steps[i]) THEN <<steps[i].entry>> ELSE <<>>])

(* Root runs through all, Shard to the last entry it needs (take), and     *)
(* both to the first failure.                                              *)
Until(steps, needed) ==
  LET coming == {i \in DOMAIN steps : Comes(steps[i])}
      ends == {i \in coming : \/ steps[i].entry = Failure
                              \/ needed # 0 /\ Cardinality({j \in coming : j <= i}) = needed}
  IN  IF ends = {} THEN steps ELSE SubSeq(steps, 1, CHOOSE i \in ends : \A j \in ends : i <= j)

Shards(total) == (total + Limit - 1) \div Limit

(* Mutant: a shard begins with the last entry of the one before it.        *)
HeldAgain(entries, n) == SubSeq(entries, IF n = 1 THEN 1 ELSE (n - 1) * Limit, Len(entries))

Held(entries, n) == SubSeq(entries, (n - 1) * Limit + 1, Len(entries))

Document(n, steps) ==
  LET entries == EntriesOf(steps)
  IN  IF \E i \in DOMAIN steps : steps[i].entry = Failure THEN [kind |-> "failed"]
      ELSE IF n = 0 THEN IF Len(entries) > Limit THEN [kind |-> "index", shards |-> Shards(Len(entries))]
                         ELSE [kind |-> "urlset", entries |-> entries]
      ELSE IF Held(entries, n) = <<>> THEN [kind |-> "absent"]
      ELSE [kind |-> "urlset", entries |-> Held(entries, n)]

MadeOf(n, steps) == Document(n, Until(steps, n * Limit))
Made(n, s, ends) == MadeOf(n, Steps(s, ends))

(* seo.Policy: a private hook makes the document private; a Sitemap lends  *)
(* its lifetime and its tags, a Meta only its tags.                        *)
Least(set) == CHOOSE x \in set : \A y \in set : x <= y
HeardOf(steps, adding) == UNION {steps[i].heard : i \in {j \in DOMAIN steps : adding => steps[j].adds}}
Private(steps) == \E h \in HeardOf(steps, FALSE) : manner[h] = "private"
Lifetime(steps) == IF \E h \in HeardOf(steps, TRUE) : manner[h] = "timed" THEN Least({1, TTL}) ELSE TTL
Tags(steps) == {h \in HeardOf(steps, FALSE) : manner[h] = "tagged"}
-----------------------------------------------------------------------------
NoDocument == [answer |-> [kind |-> "none"]]
Unseen == [answer |-> [kind |-> "none"]]

WebInit ==
  /\ site = [robots |-> [h \in Metas |-> "index"], pages |-> [h \in Sitemaps |-> 1]]
  /\ manner \in Manners /\ AddressesDiffer /\ derived = FromRoutes
  /\ broken = [h \in Hooks |-> "well"] /\ now = 0 /\ changes = 0 /\ seen = Unseen /\ store = NoDocument /\ document \in Documents

(* document: a failure is not kept, and neither is what is private.        *)
Kept(steps) == Document(document, steps).kind \notin {"failed", "absent"} /\ ~Private(steps)

Holding(steps) ==
  [answer |-> Document(document, steps), tags |-> Tags(steps), fresh |-> now + Lifetime(steps), expires |-> now + Lifetime(steps) + Stale,
   born |-> now, site |-> site, broken |-> broken]

(* Cache.Do: what is held, with a refresh behind it when it is stale, or   *)
(* what is made.                                                           *)
Ask ==
  LET steps == Until(Steps(site, broken), document * Limit)
      serves == store # NoDocument /\ now <= store.expires
  IN  /\ store' = IF serves /\ now <= store.fresh THEN store
                ELSE IF Kept(steps) THEN Holding(steps)
                ELSE IF serves THEN store ELSE NoDocument
      /\ seen' = IF serves THEN store ELSE Holding(steps)
      /\ UNCHANGED <<site, broken, derived, manner, document, now, changes>>

(* What a hook says changes; one that tags says so to Invalidate.          *)
Publish(h) ==
  /\ IF h \in Metas THEN \E says \in {"index", "noindex", "canonical"} : site' = [site EXCEPT !.robots[h] = says]
                      ELSE \E pages \in 0..MaxPages : site' = [site EXCEPT !.pages[h] = pages]
  /\ site' # site
  /\ store' = IF manner[h] # "tagged" THEN store
              ELSE IF store # NoDocument /\ h \in store.tags THEN NoDocument ELSE store
  /\ seen' = Unseen
  /\ changes' = changes + 1 /\ UNCHANGED <<broken, derived, manner, document, now>>

Break(h) ==
  /\ \E end \in Ends(h) \ {broken[h]} : broken' = [broken EXCEPT ![h] = end]
  /\ seen' = Unseen /\ changes' = changes + 1 /\ UNCHANGED <<site, derived, manner, document, store, now>>

Pass == now < MaxTime /\ now' = now + 1 /\ seen' = Unseen /\ UNCHANGED <<site, broken, derived, manner, document, store, changes>>

WebNext == Pass \/ Ask \/ (changes < MaxChanges /\ \E h \in Hooks : Publish(h) \/ Break(h))
-----------------------------------------------------------------------------
(* The pages the README says are listed, in every locale.                  *)
SaidOf(r) == IF r \in Metas /\ Probes /\ ~Fails(r, broken) THEN site.robots[r] ELSE "index"
Wanted ==
  {FromMeta([path |-> Localise(l, PatternOf(r)), alternates |-> Alternates(r)], SaidOf(r)) :
     r \in {x \in ListedRoutes : SaidOf(x) # "noindex"}, l \in ListedLocales}
  \cup UNION {{GivenPage(r, n) : n \in 1..site.pages[r]} : r \in {x \in Sitemaps : ~Excluded(x)}}

(* A crawler that reads /sitemap.xml and the shards it names, while nothing*)
(* changes, reads every page once: none is lost or named twice where one   *)
(* shard ends, no shard is named that is absent or left out that is there. *)
ReadWhole(root, shards) ==
  LET last == IF root.kind = "index" THEN root.shards ELSE 0
      read == IF root.kind = "urlset" THEN root.entries ELSE S!FlattenSeq([n \in 1..last |-> shards[n].entries])
      wanted == Wanted
  IN  /\ root.kind = "index" => /\ \A n \in 1..last : shards[n].kind = "urlset" /\ Len(shards[n].entries) <= Limit
                                /\ shards[last + 1].kind = "absent"
      /\ Len(read) = Cardinality(wanted) /\ Elements(read) = wanted

ShardsHoldTheSite ==
  \A steps \in {Steps(site, broken)} : \A root \in {MadeOf(0, steps)} :
    root.kind # "failed" => ReadWhole(root, [n \in 1..(IF root.kind = "index" THEN root.shards + 1 ELSE 0) |-> MadeOf(n, steps)])

(* A document tells the site as it is, whichever hooks it was made of: what*)
(* a tagged hook published, or a private one says, shows at once, and what *)
(* a timed hook says, or one that failed would have said, within the       *)
(* lifetime and the stale window of the document.  A hook that failed once *)
(* it had recorded takes the document back all the same when it publishes: *)
(* the root asks the Meta of every page.                                   *)
SitemapTellsTheSite ==
  LET steps == Until(Steps(seen.site, seen.broken), document * Limit)
      timed == {h \in Hooks : manner[h] = "timed"}
  IN  seen # Unseen =>
        /\ seen.answer = Made(document, [robots |-> [h \in Metas |-> IF h \in timed THEN seen.site.robots[h] ELSE site.robots[h]],
                                             pages |-> [h \in Sitemaps |-> IF h \in timed THEN seen.site.pages[h] ELSE site.pages[h]]],
                             seen.broken)
        /\ document = 0 /\ Probes => \A d \in Elements(derived) :
             d.route \in Metas \ timed /\ seen.broken[d.route] # "mute" =>
               seen.site.robots[d.route] = site.robots[d.route]
        /\ now - seen.born <= (IF HeardOf(steps, TRUE) \cap timed = {} THEN TTL ELSE 1) + Stale
=============================================================================
