------------------------------- MODULE Visits -------------------------------
(***************************************************************************)
(* Requests of browsers, from the router on: renderPage of                 *)
(* internal/server/server.go with cachedPage, partialPage, writeFragment,  *)
(* submitPage, loadChain and the recorders of a request, the cookies of    *)
(* internal/action and internal/csrf, and the headers an answer leaves     *)
(* with.                                                                   *)
(*                                                                         *)
(* A browser sends its cookies as they are and takes those of an answer    *)
(* when it arrives, so its tabs cross.  It may keep an answer that says    *)
(* so, and a proxy one that is public.  Data do not change here: what a    *)
(* loader makes is told by the cookies it reads.  The clock is left to     *)
(* PageCache: an entry is fresh, stale or gone at any time.                *)
(***************************************************************************)
EXTENDS Integers, Sequences, FiniteSets

CONSTANTS Visitor, Proxy, None,
          Request,     \* tabs, each with one request at a time, <<visitor, n>>
          Page,        \* [name -> [layouts, loader, form, deferred]]; deferred
                       \* is None or the loader of a fragment of the page's own
                       \* template, with the lifetime of its tag
          Layout,      \* [name -> loader], a loader is [reads, sets, ttl]
          Bucket,      \* [cookie value -> the value declared, or None]
          Declared,    \* cookies of {% vary %}
          PrivateCookies,  \* none of which is declared (C330)
          Themes,      \* [Visitor -> value of the theme cookie]
          Target,      \* the page an action leads to
          MaxTokens, MaxMessages, MaxVisits

Sets == INSTANCE FiniteSetsExt

VARIABLES jar,       \* [Visitor -> [cookie -> value or None]]
          asked,     \* [Request -> what was asked, with the cookies it carries]
          answer,    \* [Request -> what is on its way back]
          document,  \* [Request -> the page its tab shows]
          entries,   \* [key -> value] of the page cache
          flight,    \* [key -> the request that loads for it]
          refreshing,\* what goroutines of revalidate load
          kept,      \* what browsers and the proxy keep
          tokens, messages, visits, seen, spoiled, crossed

vars == <<jar, asked, answer, document, entries, flight, refreshing, kept,
          tokens, messages, visits, seen, spoiled, crossed>>
-----------------------------------------------------------------------------
Cookie == {"theme", "session", "flash", "csrf"}

(* A map with one name, and one map written over another.                  *)
Only(name, value) == [n \in {name} |-> value]

Over(new, old) ==
  [n \in DOMAIN new \cup DOMAIN old |-> IF n \in DOMAIN new THEN new[n] ELSE old[n]]

Idle == [what |-> "nothing"]
Blank == [page |-> None, token |-> None]
NotKept == [page |-> None]

Ask(what, page, level, cookies, token) ==
  [what |-> what, page |-> page, level |-> level, cookies |-> cookies, token |-> token]

(* sharedLevel: the layouts two pages have in common from the outside in.  *)
SharedLevel(from, to) ==
  IF from = None THEN 0
  ELSE LET a == Page[from].layouts
           b == Page[to].layouts
           alike == {n \in 0..Len(a) : n <= Len(b) /\ SubSeq(a, 1, n) = SubSeq(b, 1, n)}
       IN  Sets!Max(alike)

(* The loaders of a page from a level on, the last being its own.          *)
Loaders(page) == [i \in 1..Len(Page[page].layouts) |-> Layout[Page[page].layouts[i]]]
                   \o <<Page[page].loader>>

Running(page, level) == (level + 1)..(Len(Page[page].layouts) + 1)

Bucketed(cookies, name) == Bucket[cookies[name]]

(* Ctx.Cookie: a declared cookie comes as its bucket.                      *)
Reads(cookies, name) == IF name \in Declared THEN Bucketed(cookies, name) ELSE cookies[name]

(* What a loader makes of a request; one that sets the session has made    *)
(* it first.                                                               *)
Makes(loader, visitor, cookies) ==
  [name \in loader.reads |-> IF name \in loader.sets /\ cookies[name] = None
                             THEN visitor ELSE Reads(cookies, name)]

Content(page, level, visitor, cookies) ==
  [i \in Running(page, level) |-> Makes(Loaders(page)[i], visitor, cookies)]

(* Ctx.personal: a cookie that is there and not declared was read, or one  *)
(* was set.                                                                *)
Confides(loader, cookies) ==
  \/ \E name \in loader.reads \ Declared : cookies[name] # None
  \/ \E name \in loader.sets : cookies[name] = None

(* Recorder.Merge over the chain: one private part makes the whole         *)
(* private, and the shortest lifetime any part names counts.               *)
Lifetime(page, level, cookies) ==
  LET parts == {Loaders(page)[i] : i \in Running(page, level)}
      named == {part.ttl : part \in parts} \ {0}
  IN  IF named = {} \/ \E part \in parts : Confides(part, cookies) THEN 0 ELSE Sets!Min(named)

(* The cookies of the loaders, delivered once all of them ended well.      *)
Delivered(page, level, visitor, cookies) ==
  LET set == {name \in UNION {Loaders(page)[i].sets : i \in Running(page, level)} :
                cookies[name] = None}
  IN  [name \in set |-> visitor]

NoCookies == <<>>
-----------------------------------------------------------------------------
Personal(cookies) == \E name \in PrivateCookies : cookies[name] # None

(* Mutant: a message in the request is not looked for.                     *)
CacheableFlash(page, cookies) == ~Page[page].form /\ ~Personal(cookies)

Cacheable(page, cookies) == ~Page[page].form /\ cookies.flash = None /\ ~Personal(cookies)

KeyOf(ask) ==
  [page |-> ask.page, level |-> ask.level,
   variant |-> [name \in Declared |-> Bucketed(ask.cookies, name)]]

(* writeBytes: who may keep an answer, and whether it varies by cookie.    *)
Freshness(level, ttl, cookies) ==
  IF ttl = 0 \/ Personal(cookies) THEN "nobody" ELSE IF level > 0 THEN "visitor" ELSE "anyone"

(* Mutant: a dimension of the route is not named.                          *)
VariesLittle(ttl, cookies) == Personal(cookies)

Varies(ttl, cookies) == Declared # {} \/ Personal(cookies)

Answer(kind, page, level, content, ttl, cookies) ==
  [kind |-> kind, page |-> page, level |-> level, content |-> content, ttl |-> ttl,
   flash |-> None, token |-> None, set |-> NoCookies,
   keeps |-> Freshness(level, ttl, cookies), varies |-> Varies(ttl, cookies)]

(* A page that says nothing of its own: fail, http.Error.                  *)
Plain(kind, ask, set) ==
  [kind |-> kind, page |-> ask.page, level |-> 0, content |-> <<>>, ttl |-> 0,
   flash |-> None, token |-> None, set |-> set, keeps |-> "nobody", varies |-> FALSE]

(* pageProps: the message is taken and the token issued to the writer of   *)
(* the request, whatever becomes of the layouts.                           *)
Cleared(cookies) == IF cookies.flash = None THEN NoCookies ELSE Only("flash", None)

Held(ask) == IF ask.cookies.csrf = None THEN tokens + 1 ELSE ask.cookies.csrf

(* csrf.Issue: a token is made only for a browser that brings none.        *)
(*                                                                         *)
(* Mutant: every form has a token of its own.                              *)
IssuedAlways(ask) == IF Page[ask.page].form THEN Only("csrf", tokens + 1) ELSE NoCookies

Issued(ask) ==
  IF Page[ask.page].form /\ ask.cookies.csrf = None THEN Only("csrf", tokens + 1) ELSE NoCookies

PageProps(ask) == Over(Issued(ask), Cleared(ask.cookies))

Generates(ask) == Page[ask.page].form /\ ask.cookies.csrf = None

(* renderBody and Deliver for a visitor: "failed" are the loaders that     *)
(* end with an error, so that none of their recorders is adopted.          *)
Rendered(ask, visitor, failed) ==
  IF failed # {}
  THEN Plain("failed", ask,
             IF Len(Loaders(ask.page)) \in failed THEN NoCookies ELSE PageProps(ask))
  ELSE [Answer("page", ask.page, ask.level,
               Content(ask.page, ask.level, visitor, ask.cookies),
               Lifetime(ask.page, ask.level, ask.cookies), ask.cookies)
        EXCEPT !.flash = ask.cookies.flash,
               !.token = IF Page[ask.page].form THEN Held(ask) ELSE None,
               !.set = Over(Delivered(ask.page, ask.level, visitor, ask.cookies), PageProps(ask))]
-----------------------------------------------------------------------------
Init ==
  /\ jar = [v \in Visitor |-> [name \in Cookie |-> IF name = "theme" THEN Themes[v] ELSE None]]
  /\ asked = [q \in Request |-> Idle]
  /\ answer = [q \in Request |-> Idle]
  /\ document = [q \in Request |-> Blank]
  /\ entries = <<>> /\ flight = <<>> /\ refreshing = {}
  /\ kept = [h \in Visitor \cup {Proxy} |-> NotKept]
  /\ tokens = 0 /\ messages = 0 /\ visits = 0
  /\ seen = {} /\ spoiled = {} /\ crossed = {}

Who(q) == q[1]
Free(q) == asked[q] = Idle /\ answer[q] = Idle
Arrived(q, what) == asked[q] # Idle /\ answer[q] = Idle /\ asked[q].what = what

browser == <<jar, document, kept>>
server  == <<entries, flight, refreshing>>
counted == <<tokens, messages, visits>>
noted   == <<seen, spoiled, crossed>>

(* A request leaves; first visits of a browser cross where neither brings  *)
(* the token of the other.                                                 *)
Send(q, ask) ==
  /\ Free(q) /\ visits < MaxVisits
  /\ visits' = visits + 1
  /\ asked' = [asked EXCEPT ![q] = ask]
  /\ crossed' = IF jar[Who(q)].csrf = None /\ \E other \in Request : Who(other) = Who(q) /\ ~Free(other)
                THEN crossed \cup {Who(q)} ELSE crossed
  /\ UNCHANGED <<browser, server, answer, tokens, messages, seen, spoiled>>

(* The visitor opens a page in a tab: a whole document, or what differs.   *)
Open(q, page, partial) ==
  Send(q, Ask("page", page, IF partial THEN SharedLevel(document[q].page, page) ELSE 0, jar[Who(q)], None))

(* The runtime asks for a fragment of the page the tab shows.              *)
Fetch(q) ==
  /\ document[q].page # None /\ Page[document[q].page].deferred # None
  /\ Send(q, Ask("fragment", document[q].page, 0, jar[Who(q)], None))

Submit(q) ==
  /\ document[q].token # None
  /\ Send(q, Ask("submission", document[q].page, 0, jar[Who(q)], document[q].token))

Failing(ask) == SUBSET Running(ask.page, ask.level)

Spoils(ask, result) ==
  IF ask.what = "page" /\ result.kind = "failed" THEN spoiled \cup {ask.cookies.flash} ELSE spoiled

Answers(q, result) ==
  /\ answer' = [answer EXCEPT ![q] = result]
  /\ spoiled' = Spoils(asked[q], result)

(* renderFresh, for requests the cache is no place for.                    *)
Render(q) ==
  /\ Arrived(q, "page") /\ ~Cacheable(asked[q].page, asked[q].cookies)
  /\ \E failed \in Failing(asked[q]) : Answers(q, Rendered(asked[q], Who(q), failed))
  /\ tokens < MaxTokens
  /\ tokens' = IF Generates(asked[q]) THEN tokens + 1 ELSE tokens
  /\ UNCHANGED <<browser, server, asked, messages, visits, seen, crossed>>

(* What of an answer the cache holds and others are given.                 *)
Shared(value) == [value EXCEPT !.set = NoCookies]

(* Cache.Do with an entry; a stale one is loaded again behind the request. *)
Hit(q) ==
  /\ Arrived(q, "page") /\ Cacheable(asked[q].page, asked[q].cookies)
  /\ KeyOf(asked[q]) \in DOMAIN entries /\ \A k \in DOMAIN flight : flight[k] # q
  /\ Answers(q, entries[KeyOf(asked[q])])
  /\ \/ refreshing' = refreshing
     \/ refreshing' = refreshing \cup {[visitor |-> Who(q), ask |-> asked[q]]}
  /\ UNCHANGED <<browser, entries, flight, asked, counted, seen, crossed>>

Stored(key, value) == IF value.ttl > 0 THEN Over(Only(key, Shared(value)), entries) ELSE entries

Refresh(job) ==
  /\ refreshing' = refreshing \ {job}
  /\ \E failed \in Failing(job.ask) :
       LET value == Rendered(job.ask, job.visitor, failed)
       IN  entries' = Stored(KeyOf(job.ask), value)
  /\ UNCHANGED <<browser, flight, asked, answer, counted, noted>>

Lead(q) ==
  /\ Arrived(q, "page") /\ Cacheable(asked[q].page, asked[q].cookies)
  /\ KeyOf(asked[q]) \notin DOMAIN entries \cup DOMAIN flight
  /\ flight' = Over(Only(KeyOf(asked[q]), q), flight)
  /\ UNCHANGED <<browser, entries, refreshing, asked, answer, counted, noted>>

(* The flight lands: whoever came for its key is answered alike, but the   *)
(* cookies went to the writer of the request that led.                     *)
Joins(q, key) ==
  /\ Arrived(q, "page") /\ Cacheable(asked[q].page, asked[q].cookies)
  /\ KeyOf(asked[q]) = key /\ q # flight[key]

Land(key) ==
  \E failed \in Failing(asked[flight[key]]), joined \in SUBSET {q \in Request : Joins(q, key)} :
    LET leader == flight[key]
        value == Rendered(asked[leader], Who(leader), failed)
    IN  /\ answer' = [q \in Request |-> IF q = leader THEN value
                                        ELSE IF q \in joined THEN Shared(value) ELSE answer[q]]
        /\ entries' = Stored(key, value)
        /\ flight' = [k \in DOMAIN flight \ {key} |-> flight[k]]
        /\ UNCHANGED <<browser, refreshing, asked, counted, noted>>

(* fragmentFreshness: the recorder heard the loader of the page and that   *)
(* of the fragment; who may keep the answer is one visitor at most.        *)
FragmentFreshness(ask) ==
  LET deferred == Page[ask.page].deferred
  IN  IF deferred.ttl = 0 \/ \E part \in {Page[ask.page].loader, deferred} : Confides(part, ask.cookies)
      THEN "nobody" ELSE "visitor"

(* writeFragment: the page's props are made anew, message and token too,   *)
(* before the loader of the fragment, which may fail.  What the fragment   *)
(* says is left out; no cookie is named in Vary.                           *)
WriteFragment(q) ==
  /\ Arrived(q, "fragment")
  /\ \E result \in {Plain("failed", asked[q], NoCookies),
                    Plain("failed", asked[q], PageProps(asked[q])),
                    [Plain("fragment", asked[q], PageProps(asked[q]))
                       EXCEPT !.keeps = FragmentFreshness(asked[q])]} : Answers(q, result)
  /\ tokens < MaxTokens
  /\ tokens' = IF Generates(asked[q]) THEN tokens + 1 ELSE tokens
  /\ UNCHANGED <<browser, server, asked, messages, visits, seen, crossed>>

(* csrf.Verify, for a token unmasked.                                      *)
Verified(ask) == ask.cookies.csrf # None /\ ask.token = ask.cookies.csrf

(* submitPage.  The provider may sign the visitor in; its cookies are      *)
(* delivered before the action applies or the page is rendered again, and  *)
(* those of the loaders that render it then are not.                       *)
Refuse(q) ==
  /\ Arrived(q, "submission") /\ ~Verified(asked[q])
  /\ Answers(q, Plain("refused", asked[q], NoCookies))
  /\ UNCHANGED <<browser, server, asked, counted, seen, crossed>>

SignedIn(q) == {NoCookies, Only("session", Who(q))}

Act(q) ==
  /\ Arrived(q, "submission") /\ Verified(asked[q])
  /\ messages < MaxMessages
  /\ messages' = messages + 1
  /\ \E set \in SignedIn(q) : Answers(q, Plain("redirect", asked[q], Over(Only("flash", messages + 1), set)))
  /\ UNCHANGED <<browser, server, asked, tokens, visits, seen, crossed>>

Again(q, set, failed) ==
  IF failed # {} THEN Plain("failed", asked[q], set)
  ELSE [Plain("page", asked[q], set)
        EXCEPT !.content = Content(asked[q].page, 0, Who(q), asked[q].cookies),
               !.token = asked[q].cookies.csrf]

Rerender(q) ==
  /\ Arrived(q, "submission") /\ Verified(asked[q])
  /\ \E failed \in Failing(asked[q]), set \in SignedIn(q) : Answers(q, Again(q, set, failed))
  /\ UNCHANGED <<browser, server, asked, counted, seen, crossed>>

(* The provider fails, with no cookies, or the action does once they are   *)
(* delivered: Apply finds no address to lead to and sets no message.       *)
SubmissionFails(q) ==
  /\ Arrived(q, "submission") /\ Verified(asked[q])
  /\ \E set \in SignedIn(q) : Answers(q, Plain("failed", asked[q], set))
  /\ UNCHANGED <<browser, server, asked, counted, seen, crossed>>
-----------------------------------------------------------------------------
(* HTTP caches on the way: one answer each, for the address it was asked   *)
(* at, page or fragment, and, where it varies, the cookies it was asked    *)
(* with.                                                                   *)
Keepers(q, result) ==
  CASE result.keeps = "anyone"  -> {Who(q), Proxy}
    [] result.keeps = "visitor" -> {Who(q)}
    [] OTHER                    -> {}

Reuse(q, holder) ==
  /\ \E what \in {"page", "fragment"} : Arrived(q, what)
  /\ holder \in {Who(q), Proxy} /\ kept[holder] # NotKept
  /\ \A k \in DOMAIN flight : flight[k] # q
  /\ kept[holder].answer.kind = asked[q].what
  /\ kept[holder].page = asked[q].page /\ kept[holder].answer.level = asked[q].level
  /\ kept[holder].answer.varies => kept[holder].cookies = asked[q].cookies
  /\ Answers(q, [kept[holder].answer EXCEPT !.kind = IF @ = "page" THEN "kept" ELSE @,
                                            !.keeps = "nobody", !.set = NoCookies])
  /\ UNCHANGED <<browser, server, asked, counted, seen, crossed>>

Cookies(result, held) == Over(result.set, held)

(* An answer arrives: its cookies are taken, a redirect is followed.       *)
Receive(q) ==
  /\ answer[q] # Idle
  /\ LET result == answer[q]
         cookies == Cookies(result, jar[Who(q)])
     IN  /\ jar' = [jar EXCEPT ![Who(q)] = cookies]
         /\ asked' = [asked EXCEPT ![q] =
              IF result.kind = "redirect" THEN Ask("page", Target, 0, cookies, None) ELSE Idle]
         /\ document' = IF result.kind \in {"page", "kept"}
                        THEN [document EXCEPT ![q] = [page |-> result.page, token |-> result.token]]
                        ELSE document
         /\ kept' = [h \in DOMAIN kept |->
              IF h \in Keepers(q, result)
              THEN [page |-> result.page, cookies |-> asked[q].cookies, answer |-> result]
              ELSE kept[h]]
         /\ seen' = seen \cup {result.flash}
  /\ answer' = [answer EXCEPT ![q] = Idle]
  /\ UNCHANGED <<server, counted, spoiled, crossed>>

(* An entry expires or is evicted.                                         *)
Expire(key) ==
  /\ entries' = [k \in DOMAIN entries \ {key} |-> entries[k]]
  /\ UNCHANGED <<browser, flight, refreshing, asked, answer, counted, noted>>

Next ==
  \/ \E q \in Request :
       \/ \E page \in DOMAIN Page, partial \in BOOLEAN : Open(q, page, partial)
       \/ Fetch(q) \/ Submit(q)
       \/ Render(q) \/ Hit(q) \/ Lead(q) \/ WriteFragment(q)
       \/ Refuse(q) \/ Act(q) \/ Rerender(q) \/ SubmissionFails(q)
       \/ \E holder \in {Who(q), Proxy} : Reuse(q, holder)
       \/ Receive(q)
  \/ \E job \in refreshing : Refresh(job)
  \/ \E key \in DOMAIN flight : Land(key)
  \/ \E key \in DOMAIN entries : Expire(key)

Spec == Init /\ [][Next]_vars
-----------------------------------------------------------------------------
Shows(q) == answer[q] # Idle /\ answer[q].kind \in {"page", "kept"}

(* Whoever loaded an answer, and wherever it was kept, it says what the    *)
(* loaders would have made of the request it answers: cachedRender, its    *)
(* key and the headers of writeBytes.                                      *)
AnswersAreTheVisitorsOwn ==
  \A q \in Request : Shows(q) =>
    answer[q].content = Content(asked[q].page, asked[q].level, Who(q), asked[q].cookies)

(* Issue and Verify: a form is refused only to a browser whose first       *)
(* visits crossed, however its tabs, failing loaders, fragments and other  *)
(* visitors come in between.                                               *)
RefusedOnlyWhereFirstVisitsCross ==
  \A q \in Request : answer[q] # Idle /\ answer[q].kind = "refused" => Who(q) \in crossed

OnItsWay(m) ==
  \E q \in Request :
    \/ Shows(q) /\ answer[q].flash = m
    \/ answer[q] # Idle /\ answer[q].kind = "redirect" /\ answer[q].set.flash = m
    \/ answer[q] = Idle /\ asked[q] # Idle /\ asked[q].what = "page" /\ asked[q].cookies.flash = m

(* TakeFlash: the server shows a message to requests that bring it, and    *)
(* unless a page it should have been on failed, it is seen.                *)
MessagesReachTheirVisitor ==
  /\ \A q \in Request : answer[q] # Idle /\ answer[q].kind = "page" => answer[q].flash \in {None, asked[q].cookies.flash}
  /\ \A m \in 1..messages : m \in seen \cup spoiled \/ OnItsWay(m)
-----------------------------------------------------------------------------
(* What the theorems take of a site.  The first says what its names stand  *)
(* for.                                                                    *)
SiteIsWellFormed ==
  /\ None \notin Nat
  /\ \A q \in Request : Who(q) \in Visitor
  /\ Target \in DOMAIN Page
  /\ \A page \in DOMAIN Page : Page[page].layouts \in Seq(DOMAIN Layout)

Chain(page) == {Loaders(page)[i] : i \in Running(page, 0)}

HasLifetime(page) == \E loader \in Chain(page) : loader.ttl # 0

(* A cookie that tells visitors apart is declared or private, as C330 asks,*)
(* and a page others may be given does not read what it sets.              *)
LoadersAreGuarded ==
  \A page \in DOMAIN Page : \A loader \in Chain(page) :
    /\ ~Page[page].form => /\ loader.reads \subseteq Declared \cup PrivateCookies
                           /\ loader.reads \cap loader.sets = {}
    /\ HasLifetime(page) /\ Declared = {} => loader.reads = {}

(* The token and the message are set by the framework alone.               *)
LoadersLeaveOurCookies ==
  \A page \in DOMAIN Page : \A loader \in Chain(page) : {"csrf", "flash"} \cap loader.sets = {}

FormsAreNotKept == \A page \in DOMAIN Page : Page[page].form => ~HasLifetime(page)

KeptPagesVary == \A page \in DOMAIN Page : HasLifetime(page) => Declared # {}
=============================================================================
