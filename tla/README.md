# GoPage in TLA+

TLA+ models of GoPage, translated from its Go and TypeScript source. TLC checks them on small
instances, and TLAPS proves the invariants of the cache, of visits, of streamed pages, of navigation, of the
sitemap, of the build and of the development server for every instance. `PROJECT.json` says which
lines each definition stands for (`map`), and which hazards of the code each property is about (`hazards`).

## Parts of the system

| part | code | state | operations | hard because |
|---|---|---|---|---|
| cache store | `internal/cache/cache.go` | map, recency list, byte count, tag index, mutex | `peek`, `store` with eviction, `Invalidate`, `Purge` | four structures kept in step by hand, in loops that change what they iterate |
| cached pages | `Cache.Do`, `fill`, `revalidate`, `server/cache.go` | singleflight calls, background refreshes | serve a hit, serve stale and refresh, load once for many | requests, refreshes, invalidations and changing data interleave |
| recorders, cookies, tokens, messages | `cache/recorder.go`, `reply`, `csrf`, `action` | lifetime, privacy, cookies of a browser | merge over the chain of layouts, issue, verify, take a message | one per loader, and caches of other parties outside |
| cached fragments | `runtime/fragment.go`, `server/fragment.go` | entries of the store | Load, Save | the key must tell apart all the bytes depend on; saved outside any flight |
| streamed pages | `server/stream.go`, `runtime/deferred.go` | slots, deferred loaders, the open response | Settle, Await, Flush, writeTail | loaders race a budget, slots are filled later |
| addresses | `server/entry.go`, `router.go`, `vocab`, `redirect` | none between requests | locales, aliases, rules, spelling, hosts, routes | several redirects in a row, and links written by another function |
| sitemap | `server/sitemap.go`, `seo` | documents in the page cache | list, cut into shards, invalidate | each shard is a document of its own, made of hooks that change or fail |
| forms | `server/submit.go`, `form`, `validate` | token and message cookies | decode, judge, act, redirect | several steps that may each fail; numbers and what is not there |
| client runtime | `bundle/runtime.ts` | address, document, pending fetch, islands, slots | click, history move, swap, mount, pull | browser events between every two awaits |
| development server | `devserver`, `cmd/gopage/main.go`, `serve.go` | watcher, timer, channel, current state, streams, child processes | edit, rebuild, publish, notify, proxy, stop | timers, full channels, processes that come and go |
| compiler and interpreter | `syntax`, `compile`, `ir`, `runtime` | the manifest | lex, parse, check, lower, encode; run a plan | the same meaning written down four times |
| build | `build`, `bundle`, `assets`, `codegen` | files | write and clear, in an order | builds that fail, over what earlier ones left |
| messages | `i18n`, `compile/message.go`, `runtime/message.go`, `server/translate.go`, `cmd/gopage/i18n.go` | catalogs | read, judge calls, pick a form, fill, audit, sync | a fault shows in one language and for some counts only |
| settings | `config` | `gopage.json` | parse, normalise, validate, read | accepted in one place, read in another |
| tooling | `lsp`, `gopagetool`, `scaffold`, `initui`, ... | files | editor protocol, release, scaffolding | volume, not order |

A request enters through `Entry`, which finds its locale and page. `cachedRender` asks the cache;
that runs the loaders in a flight when it has nothing fresh. Rendering interprets the plan the compiler
left in the manifest, reads and fills cached fragments in the same store, and leaves slots for deferred ones. The
recorders of the loaders decide whether the page becomes an entry and what browsers and proxies are told.
In the browser the runtime fills the slots, mounts islands, and asks for the part of the next page that
differs. Under `gopage dev` a proxy stands in front of the built application and replaces it at every edit.

What makes each correct, in a sentence:

- store: its structures agree, stay inside the budget and forget the least recently used;
- pages: shared answers do not go back in time, an invalidation takes effect, every call ends;
- visitors: what is shown is what one's own request would have loaded, forms and messages reach whom they are for;
- fragments and streams: bytes belong to the request that gets them, slots are filled, responses end;
- addresses: redirects end, links lead to their page, a page has one spelling, the sitemap lists it once;
- client: at rest the document is that of its address, and everything in it is alive, once;
- development: every edit is built and every tab hears of it, a rebuild loses no request and no process stays;
- tool chain: what is accepted means what it says, from the text of a template to the bytes on the wire, and
  a build starts over from whatever it finds.

## Modules

**AbstractCache**: what callers of the cache may assume. A partial map from keys to entries; an entry
is put with a lifetime counted from that moment, is never altered, and may vanish at any time. CacheStore
implements it; PageCache, FragmentCache and PageStream are built on it.

**CacheStore**: `Cache` under its mutex. `cache.items`, `order`, `used` and `tags` are the fields of the
struct; `lock` says whether the mutex is free or held inside one of the two loops. `PeekExpired` and
`PeekHeld` are the outcomes of `peek`, `Store` is `store` up to its loop, `Evict` one turn of it,
`Invalidate`, `SweepTag`, `Sweep` and `SweepDone` the head of `Invalidate`, a turn of its loop over tags, a turn of
the loop over the keys of one and its end, `Purge` is `Purge`. The order of the keys of a tag is a choice, as with Go's
maps, and each is visited once: both loops of `Invalidate` end by themselves, and what `MutexIsReleased` is about is the loop
of `Evict`, which goes on until the bytes fit. **CacheRecency** adds the history of
uses the recency list is judged against.

**PageCache**: `Do` for concurrent requests. A caller is a request or the goroutine `revalidate` starts for
it. `PeekMiss`, `PeekExpired`, `PeekFresh` and `PeekStale` are the outcomes of the first look, `Lead` and `Join` are
`group.Do`, `Read` the moment the loaders see the data, `Return` what the loader of `cachedRender`
comes to, `Commit` the `store` inside the flight, `Close` the end of `group.Do` for all who
wait. A value is the version of the data it was rendered from.

**Visits**: browsers, with their cookies and tabs, the page cache, a proxy and the browsers' own caches.
`Open`, `Fetch` and `Submit` are requests for a page, a deferred fragment and a form; `Render`, `Hit`, `Lead` and `Land`
are `renderPage` with `loadChain`, past the cache or through it; `WriteFragment` is `writeFragment`, whose answer the browser may keep
for itself (`FragmentFreshness`); `Refuse`, `Act`, `Rerender` and `SubmissionFails` are the ends of `submitPage`, the last with what `Deliver` wrote
before the action failed, a session among it; `Reuse` is a cache on the way and `Receive` the arrival of the answer.
Time is left to PageCache, here an entry is fresh, stale or gone whenever it likes.

**FragmentCache**: `openFragment` and `fragmentCache`. The bytes of a fragment are the record of all that
went into them (template, locale, values read), the key is what `fragmentKey` makes of it. A visit
says whether a loader called `Private` and whether that reaches a recorder.

**PageStream**: `runRange` over the operations of one page, with `deferredSet`, `sink.flush` and
`writeTail`. A request is one record: where the interpreter stands, the fragments it has open, its loaders, the
slots it left, the buffer and what was sent. `Reach` flushes and starts `Settle`; `Inline`, `InlineFails` and
`Slot` are its ends; `Rendered` begins the tail. `streamPage` and the buffered way beside it are modelled.

**Entry**: `entry.go`, `router.go`, `vocab`, `redirect` and the writers of addresses. A path is a
sequence of words. A browser is at an address; `Misdirected`, `Reroute`, `Refuse`, `Respell`, `Tidy` and `Answer` are
what the program makes of it, in its order. **Sitemap** extends it with the documents made of its routes and
of hooks (`Ask`), which publish, break and time out. A hook that breaks is "mute", it fails before it records, or "late", after that: `probe` hears
a Meta either way and leaves its page in the list, while a Sitemap that fails fails its document. It starts from settings among `Sites` whose listed pages have addresses of
their own (`AddressesDiffer`): a route that begins with the name of a locale may share its address with another, and
`FromRoutes` would list both.

**Navigation**: `go`, `onClick`, `onPop` and `swap` of `runtime.ts`, with `sharedLevel` of the server. A
call of `go` is a flight, "asked" until the headers come and "read" until the text comes; `Click`, `Pop` and
`PopIgnored` are events between, `Answer`, `Arrive`, `Fail` and `Drop` its steps. The browser's part is its session
history. **Islands**: the document beside it. `Arrive`, `Start` and `End` are the parser's chunks, the runtime's
start and DOMContentLoaded; `Callback`, `Loaded` and `LoadFails` are `activate` and `mount`; `Draw`, `Answered` and
`AnswerFails` are `pull` and `draw`; `Go` and `Swap` a navigation as islands and slots see it.

**DevWatch**: `dev`, `Watch`, `Rebuild`, the choice of page in `ServeHTTP`, and `clients`; the
project is a version. **Children**: the applications of the builds. `Launch`, `GivesUp`, `Listens`, `Rotate` and `Publish` are
`devBuild` and `Start`; `Stop` and `Exit` a signal; `Boot`, `Leave`, `Told`, `Closed` and `Crash` a child;
`Arrive` to `Again` a request with its retries.

**Syntax**, **Parser**, **Template**: lexer, parser, checker, lowering and interpreter. A source is a
sequence of atoms (words, marks, quotes). `Meaning` in Template says what a tree means without a plan, `Renders`
compares. **Routes**: from the files under `app/` to routes, layouts, fallbacks and the judgement of links. **Codec**: `Encode` and
`Decode` of the manifest, each with its own table of what comes after what. **Settings**: `Parse`, `normalize`,
`validate` and the accessors. **Form**: decoding and rules. **Messages**: `Parse` of catalogs, `Reports` (C601 to C604) with
`BuildCatalog`, what `t()`, `ctx.T`, `ctx.Count` and the filter `relative` show (`Shown`), and `Snippets` of `gopage i18n sync`;
`Said` reads the same files name by name. These are functions, compared with definitions of
what they are for. **Build**: the steps of `Run`, each writing and clearing files on one disk; `Stop` ends a
build anywhere, with the files it was writing torn.

**Answers**: Visits and FragmentCache side by side, for any site. `about` chooses the half that moves.

**CacheStoreProofs** (with CacheRecency), **PageCacheProofs**, **AnswersProofs** (Visits and FragmentCache), **PageStreamProofs**,
**NavigationProofs**, **DevProofs**, **ServerProofs** (Sitemap and Entry), **BuildProofs**: theorems.

The `MC` modules hold the instances. Where two models are small they share a run, which begins with a
choice (`about`) of one of them and leaves the other where it is: MCDev has DevWatch and Children, MCAnswers the site of
Answers, MCNavigation Navigation and Islands, MCServer Entry and Sitemap, MCToolchain the tool chain,
with the documents of MCTemplate. MCToolchain takes the verdicts of the parser and of
the renderer as constant operators, which its configurations give: TLC, when it counts coverage, unfolds every
operator at each of its uses, and the recursive descent would not fit.

## Runs

| run | instance | shows |
|---|---|---|
| `cache_store` | 3 keys and one past `MaxKeyBytes`; values that fit thrice, once, never; 2 tags; 3 policies; clock to 4 | structures agree after every turn of both loops, budget, LRU, loops end, implements AbstractCache |
| `page_cache` | 1 page, 3 requests and their refreshes, 2 versions, clock to 3 | safety of cached pages, every request and refresh ends |
| `answers` | 2 visitors, 3 tabs, 3 pages (one with a fragment browsers keep), 3 tokens, 1 message, 4 visits; 4 fragments, two of one name, with scalars, lists or nothing; private and streamed visits, 2 requests, 2 locales | answers, forms and messages are one's own, whatever is kept where; fragments are those of requests alike, and private ones stay with their visitor |
| `page_stream` | 2 requests, 2 deferred fragments, a cached one in the first | complete responses carry their own page, slots are filled |
| `page_stream_cached` | 2 requests, a deferred fragment in a cached one, a plain one after it, no budget | the bytes kept are whole, responses end |
| `server` | 2 locales, aliases, 24 ways to spell and one by hosts, 2 redirects and a rewrite, 4 hosts, 7 routes; a sitemap of 3 hooks with shards of 2 | visits settle, links lead to their page, one spelling; sitemap whole and true |
| `navigation` | 4 pages (two under one layout, one under another, one bare), history of 3, 2 navigations per document, redirects; 4 islands, 2 slots, 1 swap | at rest the document is the address; superseded answers change nothing; navigations end; the document comes to life |
| `dev` | 1 tab, 3 edits; 6 builds, 1 lost child, 1 request | edits reach tabs, requests survive rebuilds, no process stays |
| `toolchain` | see below | the functions of the tool chain mean what they are for; builds start anew and serve what they link |
| `fragment_streamed`, `stream_slots`, `template_lists` | one small world each | where the code departs from its documentation |

### Bounds, and why they are enough

- CacheStore: a large value evicts several small ones in one loop and a small one evicts the large one; the clock
  lets an entry be fresh, stale, expired and replaced. The proofs remove these bounds.
- PageCache: flights and entries of different keys share nothing but eviction, which may happen at any
  moment, so one page is enough. Three requests give a flight a leader, a follower and a latecomer, with
  up to three refreshes; two versions tell old data from new. The proofs remove the bounds of the invariants.
- Visits: two tabs of one browser cross, and a second visitor is the one whose answer could be shown. Three
  tokens are one per browser and one that crosses. Four visits allow open, submit, redirect and another page. One page
  may be kept: that a key tells pages apart is left to the proofs, which remove all these bounds.
- FragmentCache: two requests, of which one finds what the other saved. A fragment that reads a scalar in two locales,
  one that reads a list, in private visits with a recorder and without, and two of one name are one for each part of
  the key and each that it lacks. Goroutines are interchangeable (`MCSymmetry`), and what is checked of them are invariants.
- PageStream: two requests, so that one loads what the other kept; two fragments, so that one is late
  while the other is in time. The proofs are about any page.
- Entry: every combination of `prefixDefault`, slash, case and diacritics. Every path of up to two words, and
  longer ones where locale, alias and route meet. Sitemap: lists on both sides of the cut, up to three changes
  and a clock past the lifetime and the stale window.
- Navigation: two navigations in a document are one that supersedes another; reloads count anew, so
  longer chains occur; the proofs remove the bounds of Navigation. Islands: one island of each strategy, one beside the outlet, one in a template, one
  in a fetched slot; one swap is enough to release, keep and add.
- DevWatch: three edits are one before a build, one during it, one while a name waits in the channel.
  Children: a request fails only after as many rebuilds as it has retries (3), and then one more; 6 builds let
  this happen. One child is lost by itself. The proofs allow any number of edits, builds, tabs and requests.
- Tool chain: integers of 12 bits, so that sizes overflow; expressions of up to 6 atoms, documents of up to 5
  chunks chosen around each construct, plans rendered for three visitors one after another with deferred data in
  time and late; manifests with every list empty, of one and of two elements, cut short anywhere; sites
  of up to three files in every combination of settings; forms of one field with up to two rules. Messages:
  a key in ten shapes, or missing, in each of two locales, under up to two calls; beside another key, the filter and a key named as a form
  is; and one locale of each grammar, with eleven counts. Two builds of three
  versions of a project, each of which may stop anywhere and be edited once.

Deadlock is checked where some step is always possible: CacheStore, PageCache, Entry with Sitemap, and FragmentCache in
its own run. Elsewhere the system may rest: tabs that are not used, responses that ended, a document that
stands, a function that has been computed.

### Fairness

All of it is weak fairness of single goroutines or handlers, which the Go scheduler and the browser's event
loop give. `cache_store`: a goroutine inside a loop under the mutex goes on. `page_cache`: whoever can run is
scheduled and loaders return; arrivals, changes and evictions are not forced. `page_stream_cached`: requests run, loaders
return or fail. `dev`: timers fire, builds end, streams deliver, processes go on; nobody has to edit, to open a tab or to
stop. `navigation`: requests are answered or fail, the stream arrives, the script starts,
modules load or fail; what waits to be seen may wait for ever. The other runs check safety only.

### What properties leave out

Some properties name an exclusion, each for behaviour of the code that is shown when the
exclusion is dropped:

- `DocumentIsTheAddress` leaves out documents gone `astray`: after a click while a history move was under
  way, which puts a page into layouts of another, a move that was redirected, or a return meanwhile (`PopIgnored`).
- `DocumentComesToLife` leaves out islands that were released while their module was loading or while they waited for an idle
  callback (`stray`): they may be mounted after they left, or twice.
- `RefusedOnlyWhereFirstVisitsCross` says which forms are refused though nobody did wrong: those of a browser
  whose first two answers crossed, each with a token of its own. `MessagesReachTheirVisitor` leaves out messages taken for a
  page that then failed (`spoiled`).
- `NoChildIsLeftBehind` leaves out a child that started after its parent had gone (`unaware`): `watchParent` has nothing to compare.
- `InvalidationTakesEffect` leaves out a flight that had read its data before and is still open.
- `LinksAreJudgedAsAnswered` leaves out routes that share a name (`/a/[id]` and `/a/id`), `BuildsAreWhole` packages that do
  (`Clashing`), and builds that were edited while they ran.
- `MessagesAreTheLocalesOwn` leaves `{count}` in a text whose count is nil, and in that of "now", which nothing fills. Sync is
  judged where the default locale has every key, and no key lies within another or ends in the name of a plural form.
- `ServesTheAlike` allows a fragment the bytes of any request alike: the key has the name of a fragment, not its template, and a list has no text in it.
  `PrivateBytesStayOnes` allows the bytes of a request whose mark nobody could read, as of a streamed page. The findings say
  what becomes of both.
- `AnswersAreTheVisitorsOwn` is about pages. A fragment the browser fetched and keeps (`Reuse`) says nothing of whom it was made for: see the findings.
- `SubmissionsAreJudgedAsSent` leaves out NaN, which no bound refuses, and numbers wider than their field, which are cut
  before they are judged.
- Sitemap has hooks that record before they return; what a lazy sequence records later is not heard. `SitemapIsTrue` has a hook that failed
  late take the root back when it publishes; on a shard it need not have run.

## Findings

Three runs end in a violation of a sentence the repository says of itself; `PROJECT.json` quotes
both sides.

- `fragment_streamed`: streamed pages keep the fragments of private renders.
- `stream_slots`: a deferred fragment inside a cached one leaves its slot in the shared bytes, and requests
  that load them never fill it.
- `template_lists`: a cached fragment that goes through a list is shown to visitors with other lists.

More can be read off the models, without a run of its own:

- Fragments of one name in two templates share an entry: the instance of MCAnswers has two such, which is why `ServesTheAlike` leaves the
  template open, and `internal/compile/fragment.go` looks at one template at a time. `docs/errors/C314.md:14` warns of it.
- A fragment that the browser fetched leaves with a private lifetime and a `Vary` that names no cookie (`fragmentreq.go:104`, unlike
  `cache.go:150` for pages): a browser whose cookies change meanwhile shows the old one until its lifetime ends.
- `LoadMiss` of FragmentCache treats a stale entry as none, so no refresh runs behind the request, although
  `docs/errors/C314.md` promises one. Fragments carry no tags, so a page rendered anew after `Invalidate` may contain older ones.
- `InlineFails` of PageStream ends a response without its tail: slots sent before stay empty.
- A page with a lifetime that shows a message or a token leaves with that lifetime in `Cache-Control`, unless its
  request is private for another reason (`Freshness` of Visits). Cookies that loaders set while a form is shown
  again are not delivered (`Rerender`).
- Watching begins after the first build (`Watch` of DevWatch): edits in between wait for the next one. A build that
  fails without diagnostics drops those of the one before (`NextState`). An overflow of the event queue raises nothing.
- The level of a partial answer is computed from the address as the router reads it, without its locale.
- `abandon` aborts the deferred fragments of a retained layout, and nothing asks for them again (`Go` of Islands). A template that
  the parser has handed over in part is taken as it is.
- Files outside the cleared trees stay after a build: static pages of routes that have gone, copies of public files.
  Tailwind reads the inventory of the build before.
- Catalogs (Messages): `docs/errors/C601.md:38` says that a missing key resolves through the default locale during development and
  only the production build refuses; `manifestPhase` is strict whenever there is a catalog. An empty text is accepted and shows the key.
  `sync` of the single key `a.one` prints a table that reads back as the plural message `a`. Arguments are filled in one after
  another, so a value that holds the placeholder of a later one is filled too.
- `Shard` multiplies the number in the address by the limit: one beyond 2^63 / limit wraps, and a shard that no index names is answered
  like an early one, where it should be absent. Documents of Sitemap stop at `MaxShard`.
- Loaders of deferred fragments are registered by name for the whole application (`Packages` of Build).

## Proofs

`CacheStoreProofs`. The inductive invariant `IInv` says of the structure, whether or not the mutex is
inside a loop: the list names each entry once; the index is exact; `used` is the sum
of the weights along the list; while evicting, the entry being stored is at the front and weighs no more
than the limit. The last two are why eviction spares the newest: if only the newest were left, the sum
would be its weight, within the limit, and the loop would have ended. While invalidating, what still
carries one of the tags is in the range under way or has a tag whose turn has yet to come (`SweepOK`), so nothing is left when both loops have run out. The sum along a list is stated by its
partial sums (`Total`): a function that starts at 0 and adds one weight at each place. Two such functions agree
everywhere, since there is no least place where they differ, and lemmas say what removing or adding one element does to the last of
them. From `IInv` follow `StaysWithinBudget`, `StructureAgrees`, `NewestSurvives` and `InvalidateIsComplete`, and
that every step is a step of `AbstractCache` or none (`Implementation`).

For `EvictsAsLRU` it adds to `IInv` that the list is in the order of last use (`Recent`): what is nearer the front was used
after what is behind. Removing keeps this, and moving to the front restores it, since a use is recorded with all others
(`EvictionIsLRU`).

`PageCacheProofs`. The inductive invariant relates the version of the data, the history and what could
still become an answer: whatever was shown or vouched for is no newer than the data (`HistoryExists`), every
entry is at least as new as what was shown and vouched for (`EntriesCurrent`), and so is every flight from
the moment it has read (`FlightsCurrent`). `PromisesHold` and `NotYetAnswered` carry this to the requests. A flight that has read
withholds the vouching, which is the exception `InvalidationTakesEffect` states. Waiters have a flight because joining and closing are atomic in
`singleflight`.

`AnswersProofs`, of fragments. `FInv` says where bytes come from: what an entry holds was saved by some visit with that key whose
recorder did not say private (`SavedBy`, `EntriesWereShared`), and an answer is either what its own visit renders or what such an entry
held (`BytesWereShared`), however many requests render, save, evict and expire in between. A key tells apart all visits that are not
alike (`KeysOfTheAlike`), so bytes pass between requests alike only (`FragmentsAreOfTheAlike`), and never from a private render that was recorded as
such (`PrivateBytesAreOnesOwn`). Neither has a hypothesis: namesakes, lists and streamed pages are among the fragments and visits
they are about. The runs `template_lists` and `fragment_streamed` show what being alike does not tell apart, and
what a mark that nobody can read leaves. `HalvesOfTheComposition` carries the theorems about visits and about fragments, which speak of
`Spec` and `F!Spec`, to the `AnswersSpec` of the run.

`AnswersProofs`, of visits. `Shaped` says what requests, answers, entries and copies are without looking into them. Three invariants
rest on it.

- `OwnInv`: an entry holds what any visitor who may be given it would be shown (`Common`, made of declared cookies
  alone), a copy kept on the way fits whoever asks with its cookies, and so every answer is one's own. Followers of a flight get the result of its
  leader, so the theorem assumes of loaders what `docs/errors/C330.md` asks of authors (`LoadersAreGuarded`): a page
  that may be shared reads only declared and private cookies, and with a lifetime and nothing declared it reads none, since such an answer leaves
  without `Vary`.
- `TokenInv`: as long as first visits of a browser have not crossed, what it has under way carries the token of its jar, a
  request without one is alone, and forms in its tabs have the token. The theorem assumes that forms have no
  lifetime (`FormsAreNotKept`; one that has leaves with its token in a public `Cache-Control`) and that loaders leave the framework's cookies
  alone (`LoadersLeaveOurCookies`).
- `MessageInv`: a message is seen, spoiled, or one request carries it. The theorem assumes that pages with a lifetime vary
  (`KeptPagesVary`): a copy kept without `Vary` answers a request that brings a message, and the message is gone.

`SiteAssumption` of MCAnswers has TLC evaluate that the site of the run is one the theorems speak of.

`PageStreamProofs`. What a response has made so far stands for the page up to where the interpreter is: the texts in
their order, and nothing but data and slots of that range beside (`StandFor`). The proof composes it: pieces that stand for a range
and pieces that stand for the next stand for both together (`Joined`). `Framed` says that open fragments nest around the
next operation, `Covered` what was sent, is held back and is recorded for a fragment, `Sending` when nothing may be held back, `Turned` which slots
have had their turn, and `Kept` that the cache holds whole fragments. Two theorems have a hypothesis on the page, and
`internal/compile/fragment.go` refuses neither kind of nesting:

- `SlotsAreAllFilled` takes `NoneIsKeptDeferred`, no deferred fragment in a cached one; `stream_slots` is what happens otherwise.
- `TheResponseIsThePage` takes `DataHaveTheirPlace`: what shows deferred data stands in the fragment that loads them,
  which stands in no other deferred one nor in a cached one. Otherwise bytes of one request's data are kept for the others.

`CachedFragmentsAreWhole` and `CompleteResponsesCarryThePage` need none.

`NavigationProofs`. `NavInv` numbers the navigations, so that only the last can end (`Numbered`); says the document is that of
the page it was made for (`Made`); and that the navigation under way told the server of that page (`Told`), so the layouts
the answer leaves out are those the document has (`SharedLevelIsShared`). Then swapping makes the whole document
(`SwappedIsWhole`), and at rest it is that of the address (`Arrived`). The action properties `LastNavigationWins` and `BackLeadsBack` follow
from the same invariant.

`DevProofs`. Of edits, `WatchInv` says that builds keep their order and that an edit the server has not answered to is
still on its way: in the queue, the timer, the channel, or a build that reads it (`OnTheWay`). What an open stream missed waits in its channel.
Of processes, `ChildInv` has the children in the order of their builds (`Rotation`), those still needed serving
(`Serving`), every attempt of a request at a later child than the one before (`Requested`), which is why a page is lost only
to more rebuilds than it has retries, and no running child that `devBuild` has forgotten (`Known`).
`NoneIsLeftBehindYet` is the safety half of `NoChildIsLeftBehind`: while `dev` lives, it knows its children.

`ServerProofs`. Two theorems about the sitemap of any site, whatever its routes, hooks, settings, limit and changes, and one
about the addresses of any site, whatever a browser asks for.

- `SitemapStaysTrue`. `WebInv`: what the cache holds was made of the site as it was then (`IsMade`), and nothing
  a tagged hook has published since is in it (`Stands`); what was answered shows everything but timed hooks as they are now, and is no
  older than its lifetime and the stale window (`Shows`). The root runs through every page (`RootHears`), so it shows what a hook that failed late
  says as well. It rests on a lemma about the list: two sites on which the hooks that
  were heard agree make the same document, up to the last page it needs (`MadeOfWhatIsHeard`). The hooks behind that page were
  never run, and that they do not matter is what the comparison of the two lists step by step shows (`Tracks`).
- `ShardsStayWhole`. The derived pages are a bijection with routes and locales, because a page is the i-th exactly if i-1 pages
  come before it, which takes `AddressesDiffer` and an order (`ListedOnce`). With the pages of hooks, whose addresses are the hook's, the
  list has each page once (`StepsYield`). A run that stops where the document has what it needs yields a prefix of the list
  (`UntilEntries`), so shard n is the n-th part of it (`ShardIs`), and parts joined in order are the list (`PartsJoin`). The limit is any number from 1, as `config` leaves it, and `(n - 1) * Limit` is not cut to 64 bits: no index names a shard so far out.
- `PagesHaveOneSpelling`. A path that reaches the router was neither normalised nor translated any further, so it is made of the words of
  its canonical form, and that form is clean. What the router finds fills the pattern with exactly the words that were asked for
  (`RouterFinds`, `FillsBack`), normalising them puts back the slash `splitPath` cut off, and no other (`SpellsBack`), and the locale in front
  is the one `split` took away (`SplitIs`, `AnsweredIs`); all visits are at paths with words (`AtAPath`). Two hypotheses are checked by nothing
  in the code. `RoutesAreOrderly`: a catch-all ends its pattern, for the router stops there and `Fill` goes on, and a pattern names no
  parameter twice. `AliasesAreSpelled`: the words `routing.aliases` translates are spelled as `routing.normalize` leaves them, since
  `OneSpelling` normalises before it translates and the server normalises what is public. The sites of the run fulfil both.

`BuildProofs`. A build starts over whatever builds that failed, were killed or read other versions left. `BuildInductive` has three
parts. `Reading`: whatever a build has read is the project, unless an edit disturbed it.
`DiskPlaced`: every file is in one of the places the build knows. `Sound`, for a build no edit has disturbed: what its steps have written
so far is on disk as they wrote it (`Written`), and every other file lies outside the trees cleared so far (`Settled`). The generated
packages are among what was written unless their names clash, since later steps clear directories of `internal/gen`. At the end the trees are
those of a build from nothing, the Go code compiles since every package it names was generated (`GenCompiles`), and what
pages, Link headers and preloads name is in the assets (`TargetsAreThree`, `PreloadsAreChunks`): `BuildLeavesWhole`.

Besides the hypotheses named here the proofs use only the `ASSUME`s on the constants, which TLC evaluates in the runs.

Only model-checked:

- All liveness (`MutexIsReleased`, `EveryCallEnds`, `EveryResponseEnds`, `WatchedEditsAreBuilt`, `NoChildIsLeftBehind`, `EveryNavigationEnds`,
  `DocumentComesToLife`), since fairness and ENABLED are beyond the prover.
- The functions of the tool chain (`SettingsMeanWhatTheySay`, `ManifestSurvives`, `NothingIsLostInSilence`, `PlansRenderTheTemplate`,
  `LinksAreJudgedAsAnswered`, `SubmissionsAreJudgedAsSent`, `MessagesAreTheLocalesOwn`). Most are recursive over trees, plans or texts (Syntax, Parser, Template,
  Codec, Messages), and neither recursive operators nor induction over data can be proved about here.
- `LinksLeadToTheirPage` and `VisitsSettle`: they hold of the sites of the run, not of any rules a site may state. A redirect rule
  can take any link somewhere else, and rules that feed each other, or a path that repeats the default locale, make a visit longer.

## Not modelled, and why

- Images, Open Graph pictures, robots.txt, feeds, compression and observation: they format or resize what they are given.
- Scroll positions and hashes in the browser: whether a page has grown tall enough to be scrolled depends on its layout on the
  screen. The `media` strategy of islands is the idle one without the promise to come.
- Placeholders with fragments of their own, and a deferred fragment inside another.
- Of the compiler: meta, images, taint and the extraction of schemas from Go; floats, dates and the filters that
  format, but for the phrases of `relative`. The text of generated code is left out, which files it is in and whether it compiles is not.
- JSON with comments, and the wording of diagnostics.
- The overlay and the script the development server injects; free ports, which another process may take before the child listens;
  the variants for Windows.
- Multipart bodies and the masks of tokens; the clock of Visits.
- The rest of `Ctx` and of the options, which are accessors.
- The language server, the release tools, scaffolding and terminal output: sequential, and without state two actors share.
