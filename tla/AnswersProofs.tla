---------------------------- MODULE AnswersProofs ---------------------------
(***************************************************************************)
(* Visitors of any site, with any number of browsers and tabs: what they   *)
(* are answered is theirs, whatever was kept where, their forms are refused*)
(* only where first visits crossed, and messages reach them.  And cached   *)
(* fragments of any site, for any props, visits and requests: whose bytes  *)
(* a request may be given, and that private ones which could be told as    *)
(* such are given to nobody else.                                          *)
(***************************************************************************)
EXTENDS Answers, FiniteSetTheorems, SequenceTheorems, WellFoundedInduction, TLAPS
-----------------------------------------------------------------------------
Fields == {"kind", "page", "level", "content", "ttl", "flash", "token", "set", "keeps", "varies"}

(* What is known of a request, an answer to it, an entry and what is kept, *)
(* without looking at contents and tokens.                                 *)
AskFits(ask) ==
  /\ ask.what \in {"page", "fragment", "submission"}
  /\ ask.page \in DOMAIN Page
  /\ ask.level \in Nat
  /\ ask.what # "page" => ask.level = 0

ResultFits(result, ask) ==
  /\ DOMAIN result = Fields
  /\ result.kind \in {"page", "kept", "fragment", "failed", "refused", "redirect"}
  /\ result.page = ask.page
  /\ result.kind = "redirect" => "flash" \in DOMAIN result.set
  /\ result.kind = "page" => result.flash = (IF ask.what = "page" THEN ask.cookies.flash ELSE None)
  /\ result.keeps # "nobody" =>
       /\ result.kind = ask.what /\ result.kind \in {"page", "fragment"} /\ result.level = ask.level
       /\ result.kind = "page" => HasLifetime(ask.page) /\ (result.varies \/ Declared = {})

EntryFits(value, key) ==
  /\ DOMAIN value = Fields
  /\ key.page \in DOMAIN Page /\ key.level \in Nat
  /\ value.kind = "page" /\ value.page = key.page /\ value.level = key.level
  /\ value.flash = None /\ value.token = None /\ value.set = NoCookies
  /\ value.keeps # "nobody" => HasLifetime(key.page) /\ (value.varies \/ Declared = {})

CopyFits(copy) ==
  /\ DOMAIN copy.answer = Fields
  /\ copy.page \in DOMAIN Page /\ copy.answer.page = copy.page /\ copy.answer.level \in Nat
  /\ copy.answer.kind \in {"page", "fragment"}
  /\ copy.answer.kind = "page" =>
       /\ copy.answer.flash = copy.cookies.flash
       /\ HasLifetime(copy.page)
       /\ copy.answer.varies \/ Declared = {}

JobFits(job) ==
  AskFits(job.ask) /\ job.ask.what = "page" /\ Cacheable(job.ask.page, job.ask.cookies)

DocumentFits(d) ==
  /\ d.page \in DOMAIN Page \cup {None}
  /\ d.token # None => d.page \in DOMAIN Page

Domains ==
  /\ tokens \in Nat /\ messages \in Nat
  /\ DOMAIN jar = Visitor /\ DOMAIN asked = Request /\ DOMAIN answer = Request
  /\ DOMAIN document = Request /\ DOMAIN kept = Visitor \cup {Proxy}

JarsFit      == \A v \in Visitor : {"csrf", "flash"} \subseteq DOMAIN jar[v]
AskedFits    == \A q \in Request : asked[q] # Idle => AskFits(asked[q])
AnswersFit   == \A q \in Request : answer[q] # Idle => asked[q] # Idle /\ ResultFits(answer[q], asked[q])
DocumentsFit == \A q \in Request : DocumentFits(document[q])
EntriesFit   == \A key \in DOMAIN entries : EntryFits(entries[key], key)
FlightsFit   == \A key \in DOMAIN flight :
                  /\ flight[key] \in Request
                  /\ Arrived(flight[key], "page")
                  /\ Cacheable(asked[flight[key]].page, asked[flight[key]].cookies)
                  /\ KeyOf(asked[flight[key]]) = key
JobsFit      == \A job \in refreshing : JobFits(job)
CopiesFit    == \A h \in DOMAIN kept : kept[h] # NotKept => CopyFits(kept[h])

Shaped ==
  /\ Domains /\ JarsFit /\ AskedFits /\ AnswersFit /\ DocumentsFit
  /\ EntriesFit /\ FlightsFit /\ JobsFit /\ CopiesFit
-----------------------------------------------------------------------------
(* What every visitor is given of a page the cache may answer with.        *)
Common(page, level, variant) ==
  [i \in Running(page, level) |->
     [name \in Loaders(page)[i].reads |-> IF name \in Declared THEN variant[name] ELSE None]]

ContentOf(ask, visitor) == Content(ask.page, ask.level, visitor, ask.cookies)

OwnResult(result, ask, visitor) ==
  /\ result.kind \in {"page", "kept"} => result.content = ContentOf(ask, visitor)
  /\ result.kind = "page" /\ result.keeps # "nobody" =>
       \A v \in Visitor : result.content = ContentOf(ask, v)

AnswersOwn == \A q \in Request : answer[q] # Idle => OwnResult(answer[q], asked[q], Who(q))

EntriesCommon ==
  \A key \in DOMAIN entries : entries[key].content = Common(key.page, key.level, key.variant)

AnyonesCopy(copy) ==
  copy.answer.kind = "page" =>
    \A v \in Visitor : copy.answer.content = Content(copy.page, copy.answer.level, v, copy.cookies)

CopiesAnyones == \A h \in DOMAIN kept : kept[h] # NotKept => AnyonesCopy(kept[h])

OwnInv == Shaped /\ AnswersOwn /\ EntriesCommon /\ CopiesAnyones
-----------------------------------------------------------------------------
(* Tokens of browsers whose first visits did not cross: what is under way  *)
(* carries the token of the jar, what brings one is alone, and forms that  *)
(* are shown have it.                                                      *)
Straight(q) == Who(q) \notin crossed

TokenFits(result, ask) ==
  /\ "csrf" \in DOMAIN result.set => ask.cookies.csrf = None
  /\ result.kind \in {"page", "kept"} /\ result.token # None =>
       result.token = (IF "csrf" \in DOMAIN result.set THEN result.set.csrf ELSE ask.cookies.csrf)
  /\ result.keeps # "nobody" => result.token = None

AsksCarryTheToken ==
  \A q \in Request : asked[q] # Idle /\ Straight(q) =>
    /\ asked[q].cookies.csrf = jar[Who(q)].csrf
    /\ asked[q].what = "submission" => Verified(asked[q])

FirstVisitsAreAlone ==
  \A q \in Request : asked[q] # Idle /\ Straight(q) /\ asked[q].cookies.csrf = None =>
    \A other \in Request : Who(other) = Who(q) /\ other # q => asked[other] = Idle

FormsHaveTheToken ==
  \A q \in Request : Straight(q) /\ document[q].token # None => jar[Who(q)].csrf = document[q].token

AnswersBringTheToken ==
  \A q \in Request : answer[q] # Idle =>
    TokenFits(answer[q], asked[q]) /\ (answer[q].kind = "refused" => ~Straight(q))

CopiesHaveNone == \A h \in DOMAIN kept : kept[h] # NotKept => kept[h].answer.token = None

TokenInv ==
  /\ Shaped
  /\ AsksCarryTheToken /\ FirstVisitsAreAlone /\ FormsHaveTheToken
  /\ AnswersBringTheToken /\ CopiesHaveNone
-----------------------------------------------------------------------------
(* A message is on its way with one request.                               *)
Carries(q, m) ==
  \/ Shows(q) /\ answer[q].flash = m
  \/ answer[q] # Idle /\ answer[q].kind = "redirect" /\ answer[q].set.flash = m
  \/ answer[q] = Idle /\ asked[q] # Idle /\ asked[q].what = "page" /\ asked[q].cookies.flash = m

NoneIsLost == \A m \in 1..messages : m \in seen \cup spoiled \/ \E q \in Request : Carries(q, m)

MessageInv == Shaped /\ NoneIsLost
-----------------------------------------------------------------------------
LEMMA LeastOfSet ==
  ASSUME NEW N, N \subseteq Nat, N # {}
  PROVE  \E m \in N : \A i \in N : m <= i
  <1>1. PICK m \in N : \A i \in N : ~ (<<i, m>> \in OpToRel(<, Nat))
    BY NatLessThanWellFounded, WFMin
  <1>2. \A i \in N : ~ (i < m)
    BY <1>1 DEF OpToRel
  <1> QED
    BY <1>2

(* sharedLevel is a number of layouts.                                     *)
LEMMA SharedLevelIsNat ==
  ASSUME SiteIsWellFormed, NEW from \in DOMAIN Page \cup {None}, NEW to \in DOMAIN Page
  PROVE  SharedLevel(from, to) \in Nat
  <1>1. CASE from = None
    BY <1>1 DEF SharedLevel
  <1>2. CASE from # None
    <2> DEFINE a == Page[from].layouts
               b == Page[to].layouts
               alike == {n \in 0..Len(a) : n <= Len(b) /\ SubSeq(a, 1, n) = SubSeq(b, 1, n)}
               left == {Len(a) - n : n \in alike}
    <2>1. a \in Seq(DOMAIN Layout) /\ b \in Seq(DOMAIN Layout)
      BY <1>2 DEF SiteIsWellFormed
    <2>2. SubSeq(a, 1, 0) = <<>> /\ SubSeq(b, 1, 0) = <<>>
      BY <2>1, SubSeqEmpty
    <2>3. 0 \in alike
      BY <2>1, <2>2
    <2>4. left \subseteq Nat /\ left # {}
      BY <2>1, <2>3
    <2>5. PICK least \in left : \A i \in left : least <= i
      BY <2>4, LeastOfSet
    <2>6. PICK n \in alike : least = Len(a) - n
      BY <2>5
    <2>7. n \in Nat /\ Len(a) \in Nat /\ \A m \in alike : m \in Nat /\ Len(a) - m \in left
      BY <2>1
    <2> HIDE DEF alike, left
    <2>8. \A m \in alike : n >= m
      BY <2>5, <2>6, <2>7
    <2>9. Sets!Max(alike) \in alike
      BY <2>8 DEF Sets!Max
    <2> QED
      BY <1>2, <2>7, <2>9 DEF SharedLevel, alike
  <1> QED
    BY <1>1, <1>2

LEMMA RunningInChain ==
  ASSUME NEW ask, AskFits(ask), NEW i \in Running(ask.page, ask.level), SiteIsWellFormed
  PROVE  Loaders(ask.page)[i] \in Chain(ask.page)
  <1>1. Len(Page[ask.page].layouts) \in Nat
    BY DEF SiteIsWellFormed, AskFits
  <1>2. i \in Running(ask.page, 0)
    BY <1>1 DEF Running, AskFits
  <1> QED
    BY <1>2 DEF Chain

(* A lifetime is one of a loader, and no loader confides beside it.        *)
LEMMA LifetimeMeans ==
  ASSUME SiteIsWellFormed, NEW ask, AskFits(ask), Lifetime(ask.page, ask.level, ask.cookies) # 0
  PROVE  /\ HasLifetime(ask.page)
         /\ \A i \in Running(ask.page, ask.level) : ~Confides(Loaders(ask.page)[i], ask.cookies)
  <1> DEFINE parts == {Loaders(ask.page)[i] : i \in Running(ask.page, ask.level)}
             named == {part.ttl : part \in parts} \ {0}
  <1>1. named # {} /\ \A part \in parts : ~Confides(part, ask.cookies)
    BY DEF Lifetime
  <1>2. parts \subseteq Chain(ask.page)
    BY RunningInChain
  <1>3. \E part \in parts : part.ttl # 0
    BY <1>1
  <1> QED
    BY <1>1, <1>2, <1>3 DEF HasLifetime

(* The content of an answer with a lifetime is anyone's with the same      *)
(* cookies (Ctx.personal).                                                 *)
LEMMA LifetimeIsAnyones ==
  ASSUME SiteIsWellFormed, NEW ask, AskFits(ask), Lifetime(ask.page, ask.level, ask.cookies) # 0, NEW one, NEW other
  PROVE  ContentOf(ask, one) = ContentOf(ask, other)
  <1>1. ASSUME NEW i \in Running(ask.page, ask.level)
        PROVE  Makes(Loaders(ask.page)[i], one, ask.cookies) = Makes(Loaders(ask.page)[i], other, ask.cookies)
    <2>1. ~Confides(Loaders(ask.page)[i], ask.cookies)
      BY LifetimeMeans
    <2>2. \A name \in Loaders(ask.page)[i].sets : ask.cookies[name] # None
      BY <2>1 DEF Confides
    <2> QED
      BY <2>2 DEF Makes
  <1> QED
    BY <1>1 DEF ContentOf, Content

(* Of a page that may be an entry, all who look under a key are given the  *)
(* same.                                                                   *)
LEMMA KeyTellsTheContent ==
  ASSUME SiteIsWellFormed, LoadersAreGuarded, NEW ask, AskFits(ask), Cacheable(ask.page, ask.cookies), NEW visitor
  PROVE  ContentOf(ask, visitor) = Common(ask.page, ask.level, KeyOf(ask).variant)
  <1> DEFINE variant == KeyOf(ask).variant
  <1>1. variant = [name \in Declared |-> Bucketed(ask.cookies, name)]
    BY DEF KeyOf
  <1>2. ASSUME NEW i \in Running(ask.page, ask.level)
        PROVE  Makes(Loaders(ask.page)[i], visitor, ask.cookies)
                 = [name \in Loaders(ask.page)[i].reads |-> IF name \in Declared THEN variant[name] ELSE None]
    <2>1. Loaders(ask.page)[i] \in Chain(ask.page)
      BY RunningInChain
    <2>2. /\ Loaders(ask.page)[i].reads \subseteq Declared \cup PrivateCookies
          /\ Loaders(ask.page)[i].reads \cap Loaders(ask.page)[i].sets = {}
      BY <2>1 DEF LoadersAreGuarded, AskFits, Cacheable
    <2>3. \A name \in PrivateCookies : ask.cookies[name] = None
      BY DEF Cacheable, Personal
    <2> HIDE DEF variant
    <2> QED
      BY <1>1, <2>2, <2>3 DEF Makes, Reads
  <1> QED
    BY <1>2 DEF ContentOf, Content, Common

(* Where no cookie is declared, what has a lifetime says the same to all.  *)
LEMMA NothingIsRead ==
  ASSUME SiteIsWellFormed, LoadersAreGuarded, Declared = {},
         NEW ask, AskFits(ask), HasLifetime(ask.page), NEW one, NEW other, NEW cookies
  PROVE  Content(ask.page, ask.level, one, cookies) = Content(ask.page, ask.level, other, ask.cookies)
  <1>1. ASSUME NEW i \in Running(ask.page, ask.level)
        PROVE  Makes(Loaders(ask.page)[i], one, cookies) = Makes(Loaders(ask.page)[i], other, ask.cookies)
    <2>1. Loaders(ask.page)[i].reads = {}
      BY RunningInChain DEF LoadersAreGuarded, AskFits
    <2> QED
      BY <2>1 DEF Makes
  <1> QED
    BY <1>1 DEF Content

(* What renderBody and Deliver make of a request.                          *)
LEMMA RenderedIs ==
  ASSUME NEW ask, NEW visitor, NEW failed
  PROVE  /\ DOMAIN Rendered(ask, visitor, failed) = Fields
         /\ Rendered(ask, visitor, failed).page = ask.page
         /\ failed # {} =>
              /\ Rendered(ask, visitor, failed).kind = "failed"
              /\ Rendered(ask, visitor, failed).keeps = "nobody"
              /\ Rendered(ask, visitor, failed).ttl = 0
              /\ Rendered(ask, visitor, failed).token = None
              /\ Rendered(ask, visitor, failed).set \in {NoCookies, PageProps(ask)}
         /\ failed = {} =>
              /\ Rendered(ask, visitor, failed).kind = "page"
              /\ Rendered(ask, visitor, failed).level = ask.level
              /\ Rendered(ask, visitor, failed).content = ContentOf(ask, visitor)
              /\ Rendered(ask, visitor, failed).ttl = Lifetime(ask.page, ask.level, ask.cookies)
              /\ Rendered(ask, visitor, failed).keeps
                   = Freshness(ask.level, Lifetime(ask.page, ask.level, ask.cookies), ask.cookies)
              /\ Rendered(ask, visitor, failed).varies = Varies(Lifetime(ask.page, ask.level, ask.cookies), ask.cookies)
              /\ Rendered(ask, visitor, failed).flash = ask.cookies.flash
              /\ Rendered(ask, visitor, failed).token = (IF Page[ask.page].form THEN Held(ask) ELSE None)
              /\ Rendered(ask, visitor, failed).set
                   = Over(Delivered(ask.page, ask.level, visitor, ask.cookies), PageProps(ask))
  <1>1. CASE failed # {}
    BY <1>1 DEF Rendered, Plain, Fields
  <1>2. CASE failed = {}
    <2> DEFINE whole == Answer("page", ask.page, ask.level, ContentOf(ask, visitor),
                               Lifetime(ask.page, ask.level, ask.cookies), ask.cookies)
               token == IF Page[ask.page].form THEN Held(ask) ELSE None
               set == Over(Delivered(ask.page, ask.level, visitor, ask.cookies), PageProps(ask))
    <2>1. Rendered(ask, visitor, failed)
            = [whole EXCEPT !.flash = ask.cookies.flash, !.token = token, !.set = set]
      BY <1>2 DEF Rendered, ContentOf
    <2>2. /\ DOMAIN whole = Fields
          /\ whole.kind = "page" /\ whole.page = ask.page /\ whole.level = ask.level
          /\ whole.content = ContentOf(ask, visitor)
          /\ whole.ttl = Lifetime(ask.page, ask.level, ask.cookies)
          /\ whole.keeps = Freshness(ask.level, Lifetime(ask.page, ask.level, ask.cookies), ask.cookies)
          /\ whole.varies = Varies(Lifetime(ask.page, ask.level, ask.cookies), ask.cookies)
      BY DEF Answer, Fields
    <2> HIDE DEF whole, token, set
    <2>3. /\ DOMAIN Rendered(ask, visitor, failed) = Fields
          /\ Rendered(ask, visitor, failed).kind = whole.kind
          /\ Rendered(ask, visitor, failed).page = whole.page
          /\ Rendered(ask, visitor, failed).level = whole.level
          /\ Rendered(ask, visitor, failed).content = whole.content
          /\ Rendered(ask, visitor, failed).ttl = whole.ttl
          /\ Rendered(ask, visitor, failed).keeps = whole.keeps
          /\ Rendered(ask, visitor, failed).varies = whole.varies
          /\ Rendered(ask, visitor, failed).flash = ask.cookies.flash
          /\ Rendered(ask, visitor, failed).token = token
          /\ Rendered(ask, visitor, failed).set = set
      BY <2>1, <2>2 DEF Fields
    <2> QED
      BY <1>2, <2>2, <2>3 DEF token, set
  <1> QED
    BY <1>1, <1>2
-----------------------------------------------------------------------------
LEMMA ShapedInitially == ASSUME SiteIsWellFormed, Init PROVE Shaped
  <1>1. Domains
    BY DEF Init, Domains
  <1>2. JarsFit
    BY DEF Init, JarsFit, Cookie
  <1>3. AskedFits /\ AnswersFit
    BY DEF Init, AskedFits, AnswersFit
  <1>4. DocumentsFit
    BY DEF Init, DocumentsFit, DocumentFits, Blank
  <1>5. EntriesFit /\ FlightsFit /\ JobsFit
    BY DEF Init, EntriesFit, FlightsFit, JobsFit
  <1>6. CopiesFit
    BY DEF Init, CopiesFit
  <1> QED
    BY <1>1, <1>2, <1>3, <1>4, <1>5, <1>6 DEF Shaped

LEMMA SendShaped ==
  ASSUME SiteIsWellFormed, Shaped, NEW q \in Request, NEW ask, AskFits(ask), Send(q, ask)
  PROVE  Shaped'
  <1> USE DEF Send, browser, server
  <1>1. Domains'
    BY DEF Shaped, Domains
  <1>2. JarsFit' /\ DocumentsFit' /\ EntriesFit' /\ JobsFit' /\ CopiesFit'
    BY DEF Shaped, JarsFit, DocumentsFit, EntriesFit, JobsFit, CopiesFit
  <1>3. AskedFits'
    BY DEF Shaped, Domains, AskedFits
  <1>4. AnswersFit'
    BY DEF Shaped, Domains, AnswersFit, Free
  <1>5. FlightsFit'
    BY DEF Shaped, Domains, FlightsFit, Free, Arrived
  <1> QED
    BY <1>1, <1>2, <1>3, <1>4, <1>5 DEF Shaped

LEMMA OpenShaped ==
  ASSUME SiteIsWellFormed, Shaped, NEW q \in Request, NEW page \in DOMAIN Page, NEW partial \in BOOLEAN,
         Open(q, page, partial)
  PROVE  Shaped'
  <1> DEFINE ask == Ask("page", page, IF partial THEN SharedLevel(document[q].page, page) ELSE 0, jar[Who(q)], None)
  <1>1. SharedLevel(document[q].page, page) \in Nat
    BY SharedLevelIsNat DEF Shaped, DocumentsFit, DocumentFits
  <1>2. AskFits(ask)
    BY <1>1 DEF AskFits, Ask
  <1>3. Send(q, ask)
    BY DEF Open
  <1> QED
    BY <1>2, <1>3, SendShaped

LEMMA FetchShaped == ASSUME SiteIsWellFormed, Shaped, NEW q \in Request, Fetch(q) PROVE Shaped'
  <1> DEFINE ask == Ask("fragment", document[q].page, 0, jar[Who(q)], None)
  <1>1. AskFits(ask)
    BY DEF AskFits, Ask, Fetch, Shaped, DocumentsFit, DocumentFits
  <1>2. Send(q, ask)
    BY DEF Fetch
  <1> QED
    BY <1>1, <1>2, SendShaped

LEMMA SubmitShaped == ASSUME SiteIsWellFormed, Shaped, NEW q \in Request, Submit(q) PROVE Shaped'
  <1> DEFINE ask == Ask("submission", document[q].page, 0, jar[Who(q)], document[q].token)
  <1>1. AskFits(ask)
    BY DEF AskFits, Ask, Submit, Shaped, DocumentsFit, DocumentFits
  <1>2. Send(q, ask)
    BY DEF Submit
  <1> QED
    BY <1>1, <1>2, SendShaped

(* A request that leads no flight is answered.                             *)
LEMMA AnsweredShaped ==
  ASSUME Shaped, NEW q \in Request, asked[q] # Idle, answer[q] = Idle,
         \A key \in DOMAIN flight : flight[key] # q,
         NEW result, ResultFits(result, asked[q]), answer' = [answer EXCEPT ![q] = result],
         UNCHANGED <<browser, entries, flight, asked>>,
         \A job \in refreshing' : JobFits(job), tokens' \in Nat, messages' \in Nat
  PROVE  Shaped'
  <1> USE DEF browser
  <1>1. Domains'
    BY DEF Shaped, Domains
  <1>2. JarsFit' /\ DocumentsFit' /\ EntriesFit' /\ JobsFit' /\ CopiesFit' /\ AskedFits'
    BY DEF Shaped, JarsFit, DocumentsFit, EntriesFit, JobsFit, CopiesFit, AskedFits
  <1>3. AnswersFit'
    BY DEF Shaped, Domains, AnswersFit
  <1>4. FlightsFit'
    BY DEF Shaped, Domains, FlightsFit, Arrived
  <1> QED
    BY <1>1, <1>2, <1>3, <1>4 DEF Shaped

LEMMA NoLeader ==
  ASSUME Shaped, NEW q \in Request,
         asked[q].what # "page" \/ ~Cacheable(asked[q].page, asked[q].cookies)
  PROVE  \A key \in DOMAIN flight : flight[key] # q
  BY DEF Shaped, FlightsFit, Arrived

(* The kinds of answers.                                                   *)
LEMMA RenderedFits ==
  ASSUME SiteIsWellFormed, NEW ask, AskFits(ask), ask.what = "page", NEW visitor, NEW failed
  PROVE  ResultFits(Rendered(ask, visitor, failed), ask)
  <1> DEFINE life == Lifetime(ask.page, ask.level, ask.cookies)
             result == Rendered(ask, visitor, failed)
  <1>1. CASE failed # {}
    BY <1>1, RenderedIs DEF ResultFits
  <1>2. CASE failed = {}
    <2>1. life # 0 => HasLifetime(ask.page)
      BY LifetimeMeans
    <2>2. /\ result.keeps = Freshness(ask.level, life, ask.cookies) /\ result.varies = Varies(life, ask.cookies)
          /\ result.kind = "page" /\ result.page = ask.page /\ result.level = ask.level /\ DOMAIN result = Fields
          /\ result.flash = ask.cookies.flash
      BY <1>2, RenderedIs
    <2> HIDE DEF life, result
    <2>3. result.keeps # "nobody" => life # 0 /\ (result.varies \/ Declared = {})
      BY <2>2 DEF Freshness, Varies
    <2> QED
      BY <2>1, <2>2, <2>3 DEF ResultFits, result
  <1> QED
    BY <1>1, <1>2

LEMMA PlainFits ==
  ASSUME NEW ask, NEW set, NEW kind \in {"fragment", "failed", "refused"}
  PROVE  ResultFits(Plain(kind, ask, set), ask)
  <1>1. /\ Plain(kind, ask, set).kind = kind /\ Plain(kind, ask, set).page = ask.page
        /\ Plain(kind, ask, set).keeps = "nobody" /\ DOMAIN Plain(kind, ask, set) = Fields
    BY DEF Plain, Fields
  <1> QED
    BY <1>1 DEF ResultFits

LEMMA PlainIs ==
  ASSUME NEW ask, NEW set, NEW kind
  PROVE  /\ Plain(kind, ask, set).kind = kind /\ Plain(kind, ask, set).token = None
         /\ Plain(kind, ask, set).keeps = "nobody" /\ Plain(kind, ask, set).set = set
         /\ Plain(kind, ask, set).page = ask.page /\ Plain(kind, ask, set).level = 0
         /\ DOMAIN Plain(kind, ask, set) = Fields
  BY DEF Plain, Fields

(* What writeFragment answers with: neither a page nor a token, whoever    *)
(* may keep it.                                                            *)
Written(ask) ==
  {Plain("failed", ask, NoCookies),
   Plain("failed", ask, PageProps(ask)),
   [Plain("fragment", ask, PageProps(ask)) EXCEPT !.keeps = FragmentFreshness(ask)]}

LEMMA WrittenIs ==
  ASSUME NEW ask, AskFits(ask), ask.what = "fragment", NEW result \in Written(ask)
  PROVE  /\ ResultFits(result, ask)
         /\ result.kind \in {"fragment", "failed"} /\ result.token = None
         /\ result.set \in {NoCookies, PageProps(ask)}
  <1> DEFINE whole == Plain("fragment", ask, PageProps(ask))
             keeps == FragmentFreshness(ask)
  <1>1. ASSUME NEW set \in {NoCookies, PageProps(ask)}, result = Plain("failed", ask, set)
        PROVE  /\ ResultFits(result, ask)
               /\ result.kind \in {"fragment", "failed"} /\ result.token = None
               /\ result.set \in {NoCookies, PageProps(ask)}
    BY <1>1, PlainIs, PlainFits
  <1>2. CASE result = [whole EXCEPT !.keeps = keeps]
    <2>1. /\ DOMAIN whole = Fields /\ whole.kind = "fragment" /\ whole.token = None
          /\ whole.page = ask.page /\ whole.level = 0 /\ whole.set = PageProps(ask)
      BY PlainIs
    <2> HIDE DEF whole, keeps
    <2>2. /\ DOMAIN result = Fields /\ result.kind = "fragment" /\ result.token = None
          /\ result.page = ask.page /\ result.level = 0 /\ result.set = PageProps(ask)
      BY <1>2, <2>1 DEF Fields
    <2> QED
      BY <2>2 DEF ResultFits, AskFits
  <1> QED
    BY <1>1, <1>2 DEF Written

LEMMA RedirectFits ==
  ASSUME NEW ask, NEW set, "flash" \in DOMAIN set
  PROVE  ResultFits(Plain("redirect", ask, set), ask)
  <1>1. /\ Plain("redirect", ask, set).kind = "redirect" /\ Plain("redirect", ask, set).page = ask.page
        /\ Plain("redirect", ask, set).keeps = "nobody" /\ DOMAIN Plain("redirect", ask, set) = Fields
        /\ Plain("redirect", ask, set).set = set
    BY DEF Plain, Fields
  <1> QED
    BY <1>1 DEF ResultFits

LEMMA AgainFits ==
  ASSUME NEW q, asked[q].what = "submission", NEW set, NEW failed
  PROVE  ResultFits(Again(q, set, failed), asked[q])
  <1> DEFINE whole == Plain("page", asked[q], set)
             content == Content(asked[q].page, 0, Who(q), asked[q].cookies)
  <1>1. CASE failed # {}
    BY <1>1, PlainFits DEF Again
  <1>2. CASE failed = {}
    <2>1. Again(q, set, failed) = [whole EXCEPT !.content = content, !.token = asked[q].cookies.csrf]
      BY <1>2 DEF Again
    <2>2. /\ DOMAIN whole = Fields /\ whole.kind = "page" /\ whole.page = asked[q].page
          /\ whole.flash = None /\ whole.keeps = "nobody"
      BY DEF Plain, Fields
    <2> HIDE DEF whole, content
    <2>3. /\ DOMAIN Again(q, set, failed) = Fields
          /\ Again(q, set, failed).kind = "page" /\ Again(q, set, failed).page = asked[q].page
          /\ Again(q, set, failed).flash = None /\ Again(q, set, failed).keeps = "nobody"
      BY <2>1, <2>2 DEF Fields
    <2> QED
      BY <2>3 DEF ResultFits
  <1> QED
    BY <1>1, <1>2

LEMMA RenderShaped == ASSUME SiteIsWellFormed, Shaped, NEW q \in Request, Render(q) PROVE Shaped'
  <1>1. AskFits(asked[q]) /\ asked[q].what = "page" /\ asked[q] # Idle /\ answer[q] = Idle
    BY DEF Render, Arrived, Shaped, AskedFits
  <1>2. PICK failed \in Failing(asked[q]) : answer' = [answer EXCEPT ![q] = Rendered(asked[q], Who(q), failed)]
    BY DEF Render, Answers
  <1>3. ResultFits(Rendered(asked[q], Who(q), failed), asked[q])
    BY <1>1, RenderedFits
  <1>4. \A key \in DOMAIN flight : flight[key] # q
    BY NoLeader DEF Render
  <1>5. tokens' \in Nat /\ messages' \in Nat
    BY DEF Render, Shaped, Domains
  <1>6. UNCHANGED <<browser, entries, flight, asked, refreshing>>
    BY DEF Render, server
  <1>7. \A job \in refreshing' : JobFits(job)
    BY <1>6 DEF Shaped, JobsFit
  <1> QED
    BY <1>1, <1>2, <1>3, <1>4, <1>5, <1>6, <1>7, AnsweredShaped

(* An entry answers every request that finds it.                           *)
LEMMA EntryAnswers ==
  ASSUME NEW ask, AskFits(ask), ask.what = "page", Cacheable(ask.page, ask.cookies),
         NEW value, EntryFits(value, KeyOf(ask))
  PROVE  ResultFits(value, ask)
  <1>1. KeyOf(ask).page = ask.page /\ KeyOf(ask).level = ask.level
    BY DEF KeyOf
  <1>2. ask.cookies.flash = None
    BY DEF Cacheable
  <1> QED
    BY <1>1, <1>2 DEF ResultFits, EntryFits

LEMMA HitShaped == ASSUME SiteIsWellFormed, Shaped, NEW q \in Request, Hit(q) PROVE Shaped'
  <1>1. AskFits(asked[q]) /\ asked[q].what = "page" /\ asked[q] # Idle /\ answer[q] = Idle
    BY DEF Hit, Arrived, Shaped, AskedFits
  <1>2. answer' = [answer EXCEPT ![q] = entries[KeyOf(asked[q])]]
    BY DEF Hit, Answers
  <1>3. Cacheable(asked[q].page, asked[q].cookies) /\ EntryFits(entries[KeyOf(asked[q])], KeyOf(asked[q]))
    BY DEF Hit, Shaped, EntriesFit
  <1>4. ResultFits(entries[KeyOf(asked[q])], asked[q])
    BY <1>1, <1>3, EntryAnswers
  <1>5. tokens' \in Nat /\ messages' \in Nat
    BY DEF Hit, Shaped, Domains, counted
  <1>6. UNCHANGED <<browser, entries, flight, asked>> /\ \A key \in DOMAIN flight : flight[key] # q
    BY DEF Hit
  <1>7. \A job \in refreshing' : JobFits(job)
    <2>1. JobFits([visitor |-> Who(q), ask |-> asked[q]])
      BY <1>1, <1>3 DEF JobFits
    <2>2. refreshing' \subseteq refreshing \cup {[visitor |-> Who(q), ask |-> asked[q]]}
      BY DEF Hit
    <2> QED
      BY <2>1, <2>2 DEF Shaped, JobsFit
  <1> QED
    BY <1>1, <1>2, <1>4, <1>5, <1>6, <1>7, AnsweredShaped

(* What the cache holds of a page that was loaded.                         *)
LEMMA SharedIs ==
  ASSUME NEW value, DOMAIN value = Fields
  PROVE  /\ DOMAIN Shared(value) = Fields /\ Shared(value).set = NoCookies
         /\ \A name \in Fields \ {"set"} : Shared(value)[name] = value[name]
  BY DEF Shared, Fields

LEMMA SharedFits ==
  ASSUME SiteIsWellFormed, NEW ask, AskFits(ask), ask.what = "page", Cacheable(ask.page, ask.cookies), NEW visitor
  PROVE  EntryFits(Shared(Rendered(ask, visitor, {})), KeyOf(ask))
  <1> DEFINE value == Rendered(ask, visitor, {})
  <1>1. ResultFits(value, ask)
    BY RenderedFits
  <1>2. value.kind = "page" /\ value.level = ask.level /\ value.flash = ask.cookies.flash
    BY RenderedIs
  <1>3. value.token = None
    BY RenderedIs DEF Cacheable
  <1>4. ask.cookies.flash = None
    BY DEF Cacheable
  <1>5. KeyOf(ask).page = ask.page /\ KeyOf(ask).level = ask.level
    BY DEF KeyOf
  <1> HIDE DEF value
  <1>6. DOMAIN value = Fields
    BY <1>1 DEF ResultFits
  <1>7. /\ Shared(value).kind = value.kind /\ Shared(value).page = value.page /\ Shared(value).level = value.level
        /\ Shared(value).flash = value.flash /\ Shared(value).token = value.token
        /\ Shared(value).keeps = value.keeps /\ Shared(value).varies = value.varies
        /\ Shared(value).set = NoCookies /\ DOMAIN Shared(value) = Fields
    BY <1>6, SharedIs DEF Fields
  <1>8. EntryFits(Shared(value), KeyOf(ask))
    BY <1>1, <1>2, <1>3, <1>4, <1>5, <1>7 DEF EntryFits, ResultFits, AskFits
  <1> QED
    BY <1>8 DEF value

(* Only what has a lifetime is stored, and it was a whole page.            *)
IsPut(new, old, key, value) ==
  /\ DOMAIN new = DOMAIN old \cup {key}
  /\ new[key] = value
  /\ \A k \in DOMAIN old \ {key} : new[k] = old[k]

LEMMA StoredIs ==
  ASSUME NEW ask, NEW visitor, NEW failed, NEW key
  PROVE  \/ Stored(key, Rendered(ask, visitor, failed)) = entries
         \/ failed = {} /\ IsPut(Stored(key, Rendered(ask, visitor, failed)), entries, key,
                                 Shared(Rendered(ask, visitor, {})))
  <1>1. CASE failed # {}
    <2>1. ~(Rendered(ask, visitor, failed).ttl > 0)
      BY <1>1, RenderedIs
    <2> QED
      BY <2>1 DEF Stored
  <1>2. CASE failed = {}
    BY <1>2 DEF Stored, Over, Only, IsPut
  <1> QED
    BY <1>1, <1>2

LEMMA StoredFits ==
  ASSUME SiteIsWellFormed, Shaped, NEW ask, AskFits(ask), ask.what = "page",
         Cacheable(ask.page, ask.cookies), NEW visitor, NEW failed,
         entries' = Stored(KeyOf(ask), Rendered(ask, visitor, failed))
  PROVE  EntriesFit'
  <1> DEFINE value == Shared(Rendered(ask, visitor, {}))
  <1>1. EntryFits(value, KeyOf(ask))
    BY SharedFits
  <1>2. entries' = entries \/ IsPut(entries', entries, KeyOf(ask), value)
    BY StoredIs
  <1>3. \A k \in DOMAIN entries : EntryFits(entries[k], k)
    BY DEF Shaped, EntriesFit
  <1> HIDE DEF value
  <1> SUFFICES ASSUME NEW key \in DOMAIN entries' PROVE EntryFits(entries'[key], key)
    BY DEF EntriesFit
  <1>4. CASE key = KeyOf(ask)
    BY <1>1, <1>2, <1>3, <1>4 DEF IsPut
  <1>5. CASE key # KeyOf(ask)
    BY <1>2, <1>3, <1>5 DEF IsPut
  <1> QED
    BY <1>4, <1>5

LEMMA RefreshShaped == ASSUME SiteIsWellFormed, Shaped, NEW job \in refreshing, Refresh(job) PROVE Shaped'
  <1>0. JobFits(job)
    BY DEF Shaped, JobsFit
  <1>1. AskFits(job.ask) /\ Cacheable(job.ask.page, job.ask.cookies) /\ job.ask.what = "page"
    BY <1>0 DEF JobFits
  <1>2. PICK failed \in Failing(job.ask) :
          entries' = Stored(KeyOf(job.ask), Rendered(job.ask, job.visitor, failed))
    BY DEF Refresh
  <1>3. EntriesFit'
    BY <1>1, <1>2, StoredFits
  <1>4. UNCHANGED <<browser, flight, asked, answer, counted, noted>> /\ refreshing' \subseteq refreshing
    BY DEF Refresh
  <1>5. /\ UNCHANGED <<jar, document, kept>> /\ UNCHANGED <<tokens, messages>>
        /\ UNCHANGED <<flight, asked, answer>>
    BY <1>4 DEF browser, counted
  <1>6. Domains' /\ JarsFit' /\ DocumentsFit' /\ CopiesFit' /\ AskedFits' /\ AnswersFit'
    BY <1>5 DEF Shaped, Domains, JarsFit, DocumentsFit, CopiesFit, AskedFits, AnswersFit
  <1>7. FlightsFit' /\ JobsFit'
    BY <1>4, <1>5 DEF Shaped, FlightsFit, Arrived, JobsFit
  <1> QED
    BY <1>3, <1>6, <1>7 DEF Shaped

LEMMA LeadShaped == ASSUME SiteIsWellFormed, Shaped, NEW q \in Request, Lead(q) PROVE Shaped'
  <1> DEFINE key == KeyOf(asked[q])
  <1>1. /\ UNCHANGED <<jar, document, kept, tokens, messages, entries, refreshing, asked, answer>>
        /\ Arrived(q, "page") /\ Cacheable(asked[q].page, asked[q].cookies)
        /\ flight' = Over(Only(key, q), flight)
    BY DEF Lead, browser, counted
  <1>2. /\ DOMAIN flight' = DOMAIN flight \cup {key} /\ flight'[key] = q
        /\ \A k \in DOMAIN flight \ {key} : flight'[k] = flight[k]
    BY <1>1 DEF Over, Only
  <1>3. Domains' /\ JarsFit' /\ DocumentsFit' /\ CopiesFit' /\ AskedFits' /\ AnswersFit' /\ EntriesFit' /\ JobsFit'
    BY <1>1 DEF Shaped, Domains, JarsFit, DocumentsFit, CopiesFit, AskedFits, AnswersFit, EntriesFit, JobsFit
  <1>4. FlightsFit'
    <2> SUFFICES ASSUME NEW k \in DOMAIN flight'
                 PROVE  /\ flight'[k] \in Request
                        /\ asked[flight'[k]] # Idle /\ answer[flight'[k]] = Idle
                        /\ asked[flight'[k]].what = "page"
                        /\ Cacheable(asked[flight'[k]].page, asked[flight'[k]].cookies)
                        /\ KeyOf(asked[flight'[k]]) = k
      BY <1>1 DEF FlightsFit, Arrived
    <2>1. CASE k = key
      BY <1>1, <1>2, <2>1 DEF Arrived
    <2>2. CASE k # key
      <3>1. flight'[k] = flight[k] /\ k \in DOMAIN flight
        BY <1>2, <2>2
      <3> QED
        BY <3>1 DEF Shaped, FlightsFit, Arrived
    <2> QED
      BY <2>1, <2>2
  <1> QED
    BY <1>3, <1>4 DEF Shaped

(* What a landing flight makes of the answers: its leader has the page as  *)
(* it was made, those who joined what is shared of it.                     *)
LEMMA LandIs ==
  ASSUME Shaped, NEW key \in DOMAIN flight, Land(key)
  PROVE  \E failed \in SUBSET Running(asked[flight[key]].page, asked[flight[key]].level), joined \in SUBSET Request :
           LET leader == flight[key]
               value == Rendered(asked[leader], Who(leader), failed)
           IN  /\ \A q \in joined : /\ Arrived(q, "page") /\ Cacheable(asked[q].page, asked[q].cookies)
                                    /\ KeyOf(asked[q]) = key /\ q # leader
               /\ answer' = [q \in Request |-> IF q = leader THEN value
                                                ELSE IF q \in joined THEN Shared(value) ELSE answer[q]]
               /\ entries' = Stored(key, value)
               /\ flight' = [k \in DOMAIN flight \ {key} |-> flight[k]]
               /\ UNCHANGED <<browser, refreshing, asked, counted, noted>>
  BY DEF Land, Failing, Joins

LEMMA LandShaped == ASSUME SiteIsWellFormed, Shaped, NEW key \in DOMAIN flight, Land(key) PROVE Shaped'
  <1> DEFINE leader == flight[key]
             ask == asked[leader]
  <1>0. PICK failed \in SUBSET Running(ask.page, ask.level), joined \in SUBSET Request :
          LET value == Rendered(ask, Who(leader), failed)
          IN  /\ \A q \in joined : /\ Arrived(q, "page") /\ Cacheable(asked[q].page, asked[q].cookies)
                                   /\ KeyOf(asked[q]) = key /\ q # leader
              /\ answer' = [q \in Request |-> IF q = leader THEN value
                                               ELSE IF q \in joined THEN Shared(value) ELSE answer[q]]
              /\ entries' = Stored(key, value)
              /\ flight' = [k \in DOMAIN flight \ {key} |-> flight[k]]
              /\ UNCHANGED <<browser, refreshing, asked, counted, noted>>
    BY LandIs
  <1> DEFINE value == Rendered(ask, Who(leader), failed)
  <1>1. /\ leader \in Request /\ Arrived(leader, "page") /\ Cacheable(ask.page, ask.cookies) /\ KeyOf(ask) = key
        /\ AskFits(ask) /\ ask.what = "page"
    BY DEF Shaped, FlightsFit, Arrived, AskedFits
  <1>2. UNCHANGED <<jar, document, kept, tokens, messages, refreshing, asked>>
    BY <1>0 DEF browser, counted
  <1>3. EntriesFit'
    BY <1>0, <1>1, StoredFits
  <1>4. Domains' /\ JarsFit' /\ DocumentsFit' /\ CopiesFit' /\ AskedFits' /\ JobsFit'
    BY <1>0, <1>2 DEF Shaped, Domains, JarsFit, DocumentsFit, CopiesFit, AskedFits, JobsFit
  <1>5. ResultFits(value, ask)
    BY <1>1, RenderedFits
  <1>6. ASSUME NEW q \in joined PROVE ResultFits(Shared(value), asked[q])
    <2>1. AskFits(asked[q]) /\ asked[q].what = "page" /\ Cacheable(asked[q].page, asked[q].cookies) /\ KeyOf(asked[q]) = key
      BY <1>0 DEF Shaped, AskedFits, Arrived
    <2>2. CASE failed = {}
      <3>1. EntryFits(Shared(value), KeyOf(asked[q]))
        BY <1>1, <2>1, <2>2, SharedFits
      <3> QED
        BY <2>1, <3>1, EntryAnswers
    <2>3. CASE failed # {}
      <3>1. value.kind = "failed" /\ value.keeps = "nobody" /\ value.page = ask.page /\ DOMAIN value = Fields
        BY <2>3, RenderedIs
      <3>2. ask.page = asked[q].page
        BY <1>1, <2>1 DEF KeyOf
      <3> HIDE DEF value
      <3>3. Shared(value).kind = "failed" /\ Shared(value).keeps = "nobody" /\ Shared(value).page = ask.page /\ DOMAIN Shared(value) = Fields
        BY <3>1, SharedIs DEF Fields
      <3> QED
        BY <3>2, <3>3 DEF ResultFits
    <2> QED
      BY <2>2, <2>3
  <1>7. AnswersFit'
    <2> SUFFICES ASSUME NEW q \in Request, answer'[q] # Idle
                 PROVE  asked[q] # Idle /\ ResultFits(answer'[q], asked[q])
      BY <1>2 DEF AnswersFit
    <2>0. answer'[q] = IF q = leader THEN value ELSE IF q \in joined THEN Shared(value) ELSE answer[q]
      BY <1>0
    <2> HIDE DEF value
    <2>1. CASE q = leader
      BY <1>1, <1>5, <2>0, <2>1 DEF Arrived
    <2>2. CASE q # leader /\ q \in joined
      BY <1>0, <1>6, <2>0, <2>2 DEF Arrived
    <2>3. CASE q # leader /\ q \notin joined
      BY <2>0, <2>3 DEF Shaped, AnswersFit
    <2> QED
      BY <2>1, <2>2, <2>3
  <1>8. FlightsFit'
    <2> SUFFICES ASSUME NEW k \in DOMAIN flight, k # key
                 PROVE  /\ flight[k] \in Request
                        /\ asked[flight[k]] # Idle /\ answer'[flight[k]] = Idle
                        /\ asked[flight[k]].what = "page"
                        /\ Cacheable(asked[flight[k]].page, asked[flight[k]].cookies)
                        /\ KeyOf(asked[flight[k]]) = k
      BY <1>0, <1>2 DEF FlightsFit, Arrived
    <2>1. /\ flight[k] \in Request /\ Arrived(flight[k], "page")
          /\ Cacheable(asked[flight[k]].page, asked[flight[k]].cookies)
          /\ KeyOf(asked[flight[k]]) = k
      BY DEF Shaped, FlightsFit
    <2>2. flight[k] # leader /\ flight[k] \notin joined
      BY <1>0, <1>1, <2>1
    <2>3. answer'[flight[k]] = answer[flight[k]]
      BY <1>0, <2>1, <2>2
    <2> QED
      BY <1>2, <2>1, <2>3 DEF Arrived
  <1> QED
    BY <1>3, <1>4, <1>7, <1>8 DEF Shaped

LEMMA WriteFragmentShaped ==
  ASSUME SiteIsWellFormed, Shaped, NEW q \in Request, WriteFragment(q) PROVE Shaped'
  <1>1. asked[q].what = "fragment" /\ asked[q] # Idle /\ answer[q] = Idle /\ AskFits(asked[q])
    BY DEF WriteFragment, Arrived, Shaped, AskedFits
  <1>2. PICK result \in Written(asked[q]) : answer' = [answer EXCEPT ![q] = result]
    BY DEF WriteFragment, Answers, Written
  <1>3. ResultFits(result, asked[q])
    BY <1>1, WrittenIs
  <1>4. \A key \in DOMAIN flight : flight[key] # q
    BY <1>1, NoLeader
  <1>5. tokens' \in Nat /\ messages' \in Nat
    BY DEF WriteFragment, Shaped, Domains
  <1>6. UNCHANGED <<browser, entries, flight, asked, refreshing>>
    BY DEF WriteFragment, server
  <1>7. \A job \in refreshing' : JobFits(job)
    BY <1>6 DEF Shaped, JobsFit
  <1> QED
    BY <1>1, <1>2, <1>3, <1>4, <1>5, <1>6, <1>7, AnsweredShaped

(* The ends of submitPage are answers to a submission.                     *)
LEMMA SubmittedShaped ==
  ASSUME SiteIsWellFormed, Shaped, NEW q \in Request, Arrived(q, "submission"),
         NEW result, ResultFits(result, asked[q]), Answers(q, result),
         UNCHANGED <<browser, server, asked, tokens>>, messages' \in Nat
  PROVE  Shaped'
  <1>1. asked[q] # Idle /\ answer[q] = Idle /\ asked[q].what = "submission"
    BY DEF Arrived
  <1>2. \A key \in DOMAIN flight : flight[key] # q
    BY <1>1, NoLeader
  <1>3. tokens' \in Nat /\ answer' = [answer EXCEPT ![q] = result]
    BY DEF Answers, Shaped, Domains
  <1>4. UNCHANGED <<browser, entries, flight, asked, refreshing>>
    BY DEF server
  <1>5. \A job \in refreshing' : JobFits(job)
    BY <1>4 DEF Shaped, JobsFit
  <1> QED
    BY <1>1, <1>2, <1>3, <1>4, <1>5, AnsweredShaped

LEMMA RefuseShaped == ASSUME SiteIsWellFormed, Shaped, NEW q \in Request, Refuse(q) PROVE Shaped'
  <1>1. ResultFits(Plain("refused", asked[q], NoCookies), asked[q])
    BY PlainFits
  <1>2. UNCHANGED <<browser, server, asked, tokens>> /\ messages' \in Nat
    BY DEF Refuse, counted, Shaped, Domains
  <1> QED
    BY <1>1, <1>2, SubmittedShaped DEF Refuse

LEMMA ActShaped == ASSUME SiteIsWellFormed, Shaped, NEW q \in Request, Act(q) PROVE Shaped'
  <1>1. PICK set \in SignedIn(q) : Answers(q, Plain("redirect", asked[q], Over(Only("flash", messages + 1), set)))
    BY DEF Act
  <1>2. ResultFits(Plain("redirect", asked[q], Over(Only("flash", messages + 1), set)), asked[q])
    <2>1. "flash" \in DOMAIN Over(Only("flash", messages + 1), set)
      BY DEF Over, Only
    <2> QED
      BY <2>1, RedirectFits
  <1>3. UNCHANGED <<browser, server, asked, tokens>> /\ messages' \in Nat
    BY DEF Act, Shaped, Domains
  <1> QED
    BY <1>1, <1>2, <1>3, SubmittedShaped DEF Act

LEMMA RerenderShaped == ASSUME SiteIsWellFormed, Shaped, NEW q \in Request, Rerender(q) PROVE Shaped'
  <1>1. PICK failed \in Failing(asked[q]), set \in SignedIn(q) : Answers(q, Again(q, set, failed))
    BY DEF Rerender
  <1>2. ResultFits(Again(q, set, failed), asked[q])
    BY AgainFits DEF Rerender, Arrived
  <1>3. UNCHANGED <<browser, server, asked, tokens>> /\ messages' \in Nat
    BY DEF Rerender, counted, Shaped, Domains
  <1> QED
    BY <1>1, <1>2, <1>3, SubmittedShaped DEF Rerender

LEMMA SubmissionFailsShaped ==
  ASSUME SiteIsWellFormed, Shaped, NEW q \in Request, SubmissionFails(q) PROVE Shaped'
  <1>1. PICK set \in SignedIn(q) : Answers(q, Plain("failed", asked[q], set))
    BY DEF SubmissionFails
  <1>2. ResultFits(Plain("failed", asked[q], set), asked[q])
    BY PlainFits
  <1>3. UNCHANGED <<browser, server, asked, tokens>> /\ messages' \in Nat
    BY DEF SubmissionFails, counted, Shaped, Domains
  <1> QED
    BY <1>1, <1>2, <1>3, SubmittedShaped DEF SubmissionFails

(* What a cache on the way answers with.                                   *)
Reused(copy) ==
  [copy.answer EXCEPT !.kind = IF @ = "page" THEN "kept" ELSE @, !.keeps = "nobody", !.set = NoCookies]

LEMMA ReusedIs ==
  ASSUME NEW copy, CopyFits(copy)
  PROVE  /\ DOMAIN Reused(copy) = Fields
         /\ Reused(copy).kind = IF copy.answer.kind = "page" THEN "kept" ELSE "fragment"
         /\ Reused(copy).keeps = "nobody" /\ Reused(copy).set = NoCookies
         /\ Reused(copy).page = copy.page /\ Reused(copy).content = copy.answer.content
         /\ Reused(copy).flash = copy.answer.flash /\ Reused(copy).token = copy.answer.token
  BY DEF Reused, CopyFits, Fields

LEMMA ReuseIs ==
  ASSUME SiteIsWellFormed, Shaped, NEW q \in Request, NEW holder, Reuse(q, holder)
  PROVE  /\ holder \in DOMAIN kept /\ kept[holder] # NotKept /\ CopyFits(kept[holder])
         /\ answer' = [answer EXCEPT ![q] = Reused(kept[holder])]
         /\ asked[q] # Idle /\ answer[q] = Idle /\ asked[q].what = kept[holder].answer.kind
  <1>1. holder \in DOMAIN kept
    BY DEF Reuse, Shaped, Domains, SiteIsWellFormed
  <1> QED
    BY <1>1 DEF Reuse, Arrived, Answers, Reused, Shaped, CopiesFit

LEMMA ReuseShaped == ASSUME SiteIsWellFormed, Shaped, NEW q \in Request, NEW holder, Reuse(q, holder) PROVE Shaped'
  <1>1. asked[q] # Idle /\ answer[q] = Idle /\ \A key \in DOMAIN flight : flight[key] # q
    BY ReuseIs DEF Reuse
  <1>2. answer' = [answer EXCEPT ![q] = Reused(kept[holder])] /\ CopyFits(kept[holder])
    BY ReuseIs
  <1>3. kept[holder].page = asked[q].page
    BY DEF Reuse
  <1>4. ResultFits(Reused(kept[holder]), asked[q])
    BY <1>2, <1>3, ReusedIs DEF ResultFits
  <1>5. UNCHANGED <<browser, entries, flight, asked, refreshing>> /\ tokens' \in Nat /\ messages' \in Nat
    BY DEF Reuse, server, counted, Shaped, Domains
  <1>6. \A job \in refreshing' : JobFits(job)
    BY <1>5 DEF Shaped, JobsFit
  <1> QED
    BY <1>1, <1>2, <1>4, <1>5, <1>6, AnsweredShaped

(* An answer arrives.                                                      *)
LEMMA ReceiveIs ==
  ASSUME SiteIsWellFormed, Shaped, NEW q \in Request, Receive(q)
  PROVE  /\ answer[q] # Idle /\ asked[q] # Idle /\ AskFits(asked[q]) /\ ResultFits(answer[q], asked[q])
         /\ jar' = [jar EXCEPT ![Who(q)] = Over(answer[q].set, jar[Who(q)])]
         /\ answer' = [answer EXCEPT ![q] = Idle]
         /\ answer[q].kind = "redirect" =>
              asked' = [asked EXCEPT ![q] = Ask("page", Target, 0, Over(answer[q].set, jar[Who(q)]), None)]
         /\ answer[q].kind # "redirect" => asked' = [asked EXCEPT ![q] = Idle]
         /\ answer[q].kind \in {"page", "kept"} =>
              document' = [document EXCEPT ![q] = [page |-> answer[q].page, token |-> answer[q].token]]
         /\ answer[q].kind \notin {"page", "kept"} => document' = document
         /\ DOMAIN kept' = DOMAIN kept
         /\ \A h \in DOMAIN kept :
              \/ kept'[h] = kept[h]
              \/ /\ answer[q].keeps # "nobody"
                 /\ kept'[h] = [page |-> answer[q].page, cookies |-> asked[q].cookies, answer |-> answer[q]]
         /\ seen' = seen \cup {answer[q].flash}
         /\ UNCHANGED <<entries, flight, refreshing, tokens, messages, visits, spoiled, crossed>>
  <1>1. answer[q] # Idle /\ asked[q] # Idle /\ AskFits(asked[q]) /\ ResultFits(answer[q], asked[q])
    BY DEF Receive, Shaped, AnswersFit, AskedFits
  <1>2. \A h \in Keepers(q, answer[q]) : answer[q].keeps # "nobody"
    BY DEF Keepers
  <1>3. kept' = [h \in DOMAIN kept |->
              IF h \in Keepers(q, answer[q])
              THEN [page |-> answer[q].page, cookies |-> asked[q].cookies, answer |-> answer[q]]
              ELSE kept[h]]
    BY DEF Receive
  <1> QED
    BY <1>1, <1>2, <1>3 DEF Receive, Cookies, server, counted

LEMMA ReceiveShaped == ASSUME SiteIsWellFormed, Shaped, NEW q \in Request, Receive(q) PROVE Shaped'
  <1> DEFINE result == answer[q]
             cookies == Over(answer[q].set, jar[Who(q)])
  <1>1. /\ result # Idle /\ asked[q] # Idle /\ AskFits(asked[q]) /\ ResultFits(result, asked[q])
        /\ jar' = [jar EXCEPT ![Who(q)] = cookies]
        /\ answer' = [answer EXCEPT ![q] = Idle]
        /\ \/ asked' = [asked EXCEPT ![q] = Ask("page", Target, 0, cookies, None)]
           \/ asked' = [asked EXCEPT ![q] = Idle]
        /\ UNCHANGED <<entries, flight, refreshing, tokens, messages>>
    BY ReceiveIs
  <1>2. \/ document' = document
        \/ document' = [document EXCEPT ![q] = [page |-> result.page, token |-> result.token]]
    BY ReceiveIs
  <1>3. /\ DOMAIN kept' = DOMAIN kept
        /\ \A h \in DOMAIN kept :
              \/ kept'[h] = kept[h]
              \/ /\ result.keeps # "nobody"
                 /\ kept'[h] = [page |-> result.page, cookies |-> asked[q].cookies, answer |-> result]
    BY ReceiveIs
  <1>4. result.page = asked[q].page /\ asked[q].page \in DOMAIN Page /\ Who(q) \in Visitor
    BY <1>1 DEF ResultFits, AskFits, SiteIsWellFormed
  <1>5. Domains'
    BY <1>1, <1>2, <1>3 DEF Shaped, Domains
  <1>6. JarsFit'
    <2>1. {"csrf", "flash"} \subseteq DOMAIN cookies
      BY <1>4 DEF Shaped, JarsFit, Over
    <2> HIDE DEF cookies
    <2> QED
      BY <1>1, <2>1 DEF Shaped, Domains, JarsFit
  <1>7. AskedFits'
    <2>1. AskFits(Ask("page", Target, 0, cookies, None))
      BY DEF AskFits, Ask, SiteIsWellFormed
    <2> HIDE DEF cookies
    <2> QED
      BY <1>1, <2>1 DEF Shaped, Domains, AskedFits
  <1> HIDE DEF cookies, result
  <1>8. AnswersFit'
    BY <1>1 DEF Shaped, Domains, AnswersFit
  <1>9. DocumentsFit'
    <2>1. DocumentFits([page |-> result.page, token |-> result.token])
      BY <1>4 DEF DocumentFits
    <2> QED
      BY <1>2, <2>1 DEF Shaped, Domains, DocumentsFit
  <1>10. EntriesFit' /\ JobsFit'
    BY <1>1 DEF Shaped, EntriesFit, JobsFit
  <1>11. FlightsFit'
    <2>1. \A key \in DOMAIN flight : flight[key] # q
      BY <1>1 DEF Shaped, FlightsFit, Arrived, result
    <2> QED
      BY <1>1, <2>1 DEF Shaped, Domains, FlightsFit, Arrived
  <1>12. CopiesFit'
    <2>1. ASSUME result.keeps # "nobody"
          PROVE  CopyFits([page |-> result.page, cookies |-> asked[q].cookies, answer |-> result])
      BY <1>1, <1>4, <2>1 DEF ResultFits, CopyFits, AskFits
    <2> QED
      BY <1>3, <2>1 DEF Shaped, CopiesFit
  <1> QED
    BY <1>5, <1>6, <1>7, <1>8, <1>9, <1>10, <1>11, <1>12 DEF Shaped

LEMMA ExpireShaped == ASSUME SiteIsWellFormed, Shaped, NEW key \in DOMAIN entries, Expire(key) PROVE Shaped'
  <1>1. UNCHANGED <<jar, document, kept, flight, refreshing, asked, answer, tokens, messages>>
    BY DEF Expire, browser, counted
  <1>2. EntriesFit'
    BY DEF Expire, Shaped, EntriesFit
  <1>3. Domains' /\ JarsFit' /\ DocumentsFit' /\ CopiesFit' /\ AskedFits' /\ AnswersFit' /\ JobsFit'
    BY <1>1 DEF Shaped, Domains, JarsFit, DocumentsFit, CopiesFit, AskedFits, AnswersFit, JobsFit
  <1>4. FlightsFit'
    BY <1>1 DEF Shaped, FlightsFit, Arrived
  <1> QED
    BY <1>2, <1>3, <1>4 DEF Shaped

LEMMA ShapeStays == ASSUME SiteIsWellFormed, Shaped, [Next]_vars PROVE Shaped'
  <1>1. CASE UNCHANGED vars
    BY <1>1 DEF vars, Shaped, Domains, JarsFit, DocumentsFit, CopiesFit, AskedFits, AnswersFit, JobsFit,
                EntriesFit, FlightsFit, Arrived
  <1>2. CASE Next
    BY <1>2, OpenShaped, FetchShaped, SubmitShaped, RenderShaped, HitShaped, LeadShaped, WriteFragmentShaped,
       RefuseShaped, ActShaped, RerenderShaped, SubmissionFailsShaped, ReuseShaped, ReceiveShaped,
       RefreshShaped, LandShaped, ExpireShaped
    DEF Next
  <1> QED
    BY <1>1, <1>2

(* Whatever crosses: an answer is of the page that was asked for, entries, *)
(* flights and jobs are of pages and cookies the cache may answer (key,    *)
(* cacheable), and what is kept on the way has a lifetime (writeBytes).    *)
THEOREM WhatIsKnownOfAnswers == ASSUME SiteIsWellFormed PROVE Spec => []Shaped
  <1>1. Init => Shaped
    BY ShapedInitially
  <1>2. Shaped /\ [Next]_vars => Shaped'
    BY ShapeStays
  <1> QED
    BY <1>1, <1>2, PTL DEF Spec
-----------------------------------------------------------------------------
LEMMA RenderedOwn ==
  ASSUME SiteIsWellFormed, NEW ask, AskFits(ask), NEW visitor, NEW failed
  PROVE  OwnResult(Rendered(ask, visitor, failed), ask, visitor)
  <1> DEFINE life == Lifetime(ask.page, ask.level, ask.cookies)
             result == Rendered(ask, visitor, failed)
  <1>1. CASE failed # {}
    BY <1>1, RenderedIs DEF OwnResult
  <1>2. CASE failed = {}
    <2>1. /\ result.keeps = Freshness(ask.level, life, ask.cookies)
          /\ result.content = ContentOf(ask, visitor)
      BY <1>2, RenderedIs
    <2>2. life # 0 => \A v \in Visitor : ContentOf(ask, visitor) = ContentOf(ask, v)
      BY LifetimeIsAnyones
    <2> HIDE DEF life, result
    <2>3. result.keeps # "nobody" => life # 0
      BY <2>1 DEF Freshness
    <2>4. OwnResult(result, ask, visitor)
      BY <2>1, <2>2, <2>3 DEF OwnResult
    <2> QED
      BY <2>4 DEF result
  <1> QED
    BY <1>1, <1>2

LEMMA PlainOwn ==
  ASSUME NEW ask, NEW of, NEW visitor, NEW set, NEW kind, kind \in {"failed", "refused", "redirect"}
  PROVE  OwnResult(Plain(kind, of, set), ask, visitor)
  BY DEF OwnResult, Plain

LEMMA AgainOwn ==
  ASSUME NEW q, AskFits(asked[q]), asked[q].what = "submission", NEW set, NEW failed
  PROVE  OwnResult(Again(q, set, failed), asked[q], Who(q))
  <1> DEFINE whole == Plain("page", asked[q], set)
             content == Content(asked[q].page, 0, Who(q), asked[q].cookies)
  <1>1. CASE failed # {}
    BY <1>1, PlainOwn DEF Again
  <1>2. CASE failed = {}
    <2>1. Again(q, set, failed) = [whole EXCEPT !.content = content, !.token = asked[q].cookies.csrf]
      BY <1>2 DEF Again
    <2>2. DOMAIN whole = Fields /\ whole.keeps = "nobody"
      BY DEF Plain, Fields
    <2>3. content = ContentOf(asked[q], Who(q))
      BY DEF ContentOf, AskFits
    <2> HIDE DEF whole, content
    <2>4. Again(q, set, failed).content = content /\ Again(q, set, failed).keeps = "nobody"
      BY <2>1, <2>2 DEF Fields
    <2> QED
      BY <2>3, <2>4 DEF OwnResult
  <1> QED
    BY <1>1, <1>2

(* What is common to a key is everybody's who looks under it.              *)
LEMMA CommonOwn ==
  ASSUME SiteIsWellFormed, LoadersAreGuarded, NEW ask, AskFits(ask), Cacheable(ask.page, ask.cookies), NEW visitor,
         NEW value, value.content = Common(KeyOf(ask).page, KeyOf(ask).level, KeyOf(ask).variant)
  PROVE  OwnResult(value, ask, visitor)
  <1>1. KeyOf(ask).page = ask.page /\ KeyOf(ask).level = ask.level
    BY DEF KeyOf
  <1>2. \A v : value.content = ContentOf(ask, v)
    BY <1>1, KeyTellsTheContent
  <1> QED
    BY <1>2 DEF OwnResult

LEMMA SharedCommon ==
  ASSUME SiteIsWellFormed, LoadersAreGuarded, NEW ask, AskFits(ask), Cacheable(ask.page, ask.cookies), NEW visitor
  PROVE  Shared(Rendered(ask, visitor, {})).content = Common(KeyOf(ask).page, KeyOf(ask).level, KeyOf(ask).variant)
  <1>1. KeyOf(ask).page = ask.page /\ KeyOf(ask).level = ask.level
    BY DEF KeyOf
  <1>2. Rendered(ask, visitor, {}).content = ContentOf(ask, visitor) /\ DOMAIN Rendered(ask, visitor, {}) = Fields
    BY RenderedIs
  <1>3. Shared(Rendered(ask, visitor, {})).content = ContentOf(ask, visitor)
    BY <1>2, SharedIs DEF Fields
  <1> QED
    BY <1>1, <1>3, KeyTellsTheContent

LEMMA StoredCommon ==
  ASSUME SiteIsWellFormed, LoadersAreGuarded, EntriesCommon, NEW ask, AskFits(ask),
         Cacheable(ask.page, ask.cookies), NEW visitor, NEW failed,
         entries' = Stored(KeyOf(ask), Rendered(ask, visitor, failed))
  PROVE  EntriesCommon'
  <1> DEFINE value == Shared(Rendered(ask, visitor, {}))
  <1>1. value.content = Common(KeyOf(ask).page, KeyOf(ask).level, KeyOf(ask).variant)
    BY SharedCommon
  <1>2. entries' = entries \/ IsPut(entries', entries, KeyOf(ask), value)
    BY StoredIs
  <1>3. \A k \in DOMAIN entries : entries[k].content = Common(k.page, k.level, k.variant)
    BY DEF EntriesCommon
  <1> HIDE DEF value
  <1> SUFFICES ASSUME NEW key \in DOMAIN entries'
               PROVE  entries'[key].content = Common(key.page, key.level, key.variant)
    BY DEF EntriesCommon
  <1>4. CASE key = KeyOf(ask)
    BY <1>1, <1>2, <1>3, <1>4 DEF IsPut
  <1>5. CASE key # KeyOf(ask)
    BY <1>2, <1>3, <1>5 DEF IsPut
  <1> QED
    BY <1>4, <1>5

(* A cache on the way answers with what anyone is given for the address    *)
(* and, where the answer varies, the cookies.                              *)
LEMMA ReusedOwn ==
  ASSUME SiteIsWellFormed, LoadersAreGuarded, NEW ask, AskFits(ask), NEW visitor \in Visitor, NEW copy, CopyFits(copy),
         AnyonesCopy(copy), copy.page = ask.page, copy.answer.level = ask.level,
         copy.answer.varies => copy.cookies = ask.cookies
  PROVE  OwnResult(Reused(copy), ask, visitor)
  <1>1. CASE copy.answer.kind = "page"
    <2>1. copy.answer.content = Content(ask.page, ask.level, visitor, copy.cookies)
      BY <1>1 DEF AnyonesCopy
    <2>2. Content(ask.page, ask.level, visitor, copy.cookies) = ContentOf(ask, visitor)
      <3>1. CASE copy.answer.varies
        BY <3>1 DEF ContentOf
      <3>2. CASE Declared = {}
        BY <1>1, <3>2, NothingIsRead DEF ContentOf, CopyFits
      <3> QED
        BY <1>1, <3>1, <3>2 DEF CopyFits
    <2>3. Reused(copy).content = ContentOf(ask, visitor) /\ Reused(copy).keeps = "nobody"
      BY <2>1, <2>2, ReusedIs
    <2> QED
      BY <2>3 DEF OwnResult
  <1>2. CASE copy.answer.kind # "page"
    BY <1>2, ReusedIs DEF OwnResult
  <1> QED
    BY <1>1, <1>2
-----------------------------------------------------------------------------
LEMMA OwnInitially == ASSUME SiteIsWellFormed, Init PROVE OwnInv
  BY ShapedInitially DEF Init, OwnInv, AnswersOwn, EntriesCommon, CopiesAnyones

LEMMA AnsweredOwn ==
  ASSUME OwnInv, Shaped', NEW q \in Request, NEW result, OwnResult(result, asked[q], Who(q)),
         answer' = [answer EXCEPT ![q] = result], UNCHANGED <<asked, entries, kept>>
  PROVE  OwnInv'
  <1>1. AnswersOwn'
    BY DEF OwnInv, AnswersOwn, Shaped, Domains
  <1>2. EntriesCommon' /\ CopiesAnyones'
    BY DEF OwnInv, EntriesCommon, CopiesAnyones
  <1> QED
    BY <1>1, <1>2 DEF OwnInv

LEMMA SendOwn == ASSUME OwnInv, Shaped', NEW q \in Request, NEW ask, Send(q, ask) PROVE OwnInv'
  <1>1. answer[q] = Idle /\ asked' = [asked EXCEPT ![q] = ask] /\ UNCHANGED <<answer, entries, kept>>
    BY DEF Send, Free, browser, server
  <1>2. AnswersOwn'
    BY <1>1 DEF OwnInv, AnswersOwn, Shaped, Domains
  <1>3. EntriesCommon' /\ CopiesAnyones'
    BY <1>1 DEF OwnInv, EntriesCommon, CopiesAnyones
  <1> QED
    BY <1>2, <1>3 DEF OwnInv

LEMMA OwnStays == ASSUME SiteIsWellFormed, LoadersAreGuarded, OwnInv, [Next]_vars PROVE OwnInv'
  <1>0. Shaped /\ Shaped'
    BY ShapeStays DEF OwnInv
  <1>1. CASE UNCHANGED vars
    BY <1>0, <1>1 DEF vars, OwnInv, AnswersOwn, EntriesCommon, CopiesAnyones
  <1>2. ASSUME NEW q \in Request, NEW page \in DOMAIN Page, NEW partial \in BOOLEAN, Open(q, page, partial) PROVE OwnInv'
    BY <1>0, <1>2, SendOwn DEF Open
  <1>3. ASSUME NEW q \in Request, Fetch(q) \/ Submit(q) PROVE OwnInv'
    BY <1>0, <1>3, SendOwn DEF Fetch, Submit
  <1>4. ASSUME NEW q \in Request, Render(q) PROVE OwnInv'
    <2>1. AskFits(asked[q])
      BY <1>0, <1>4 DEF Render, Arrived, Shaped, AskedFits
    <2>2. PICK failed \in Failing(asked[q]) : answer' = [answer EXCEPT ![q] = Rendered(asked[q], Who(q), failed)]
      BY <1>4 DEF Render, Answers
    <2>3. UNCHANGED <<asked, entries, kept>>
      BY <1>4 DEF Render, server, browser
    <2> QED
      BY <1>0, <2>1, <2>2, <2>3, RenderedOwn, AnsweredOwn
  <1>5. ASSUME NEW q \in Request, Hit(q) PROVE OwnInv'
    <2> DEFINE value == entries[KeyOf(asked[q])]
    <2>1. AskFits(asked[q]) /\ Cacheable(asked[q].page, asked[q].cookies)
      BY <1>0, <1>5 DEF Hit, Arrived, Shaped, AskedFits
    <2>2. value.content = Common(KeyOf(asked[q]).page, KeyOf(asked[q]).level, KeyOf(asked[q]).variant)
      BY <1>5 DEF Hit, OwnInv, EntriesCommon
    <2>3. OwnResult(value, asked[q], Who(q))
      BY <2>1, <2>2, CommonOwn
    <2>4. UNCHANGED <<asked, entries, kept>> /\ answer' = [answer EXCEPT ![q] = value]
      BY <1>5 DEF Hit, Answers, browser
    <2> QED
      BY <1>0, <2>3, <2>4, AnsweredOwn
  <1>6. ASSUME NEW q \in Request, Lead(q) PROVE OwnInv'
    BY <1>0, <1>6 DEF Lead, browser, OwnInv, AnswersOwn, EntriesCommon, CopiesAnyones
  <1>7. ASSUME NEW q \in Request, WriteFragment(q) PROVE OwnInv'
    <2>1. PICK result \in Written(asked[q]) : answer' = [answer EXCEPT ![q] = result]
      BY <1>7 DEF WriteFragment, Answers, Written
    <2>2. UNCHANGED <<asked, entries, kept>>
      BY <1>7 DEF WriteFragment, server, browser
    <2>3. result.kind \in {"fragment", "failed"}
      BY <1>0, <1>7, WrittenIs DEF WriteFragment, Arrived, Shaped, AskedFits
    <2>4. OwnResult(result, asked[q], Who(q))
      BY <2>3 DEF OwnResult
    <2> QED
      BY <1>0, <2>1, <2>2, <2>4, AnsweredOwn
  <1>8. ASSUME NEW q \in Request, Refuse(q) \/ SubmissionFails(q) PROVE OwnInv'
    <2>1. PICK kind \in {"refused", "failed"}, set \in SignedIn(q) : answer' = [answer EXCEPT ![q] = Plain(kind, asked[q], set)]
      BY <1>8 DEF Refuse, SubmissionFails, Answers, SignedIn
    <2>2. UNCHANGED <<asked, entries, kept>>
      BY <1>8 DEF Refuse, SubmissionFails, server, browser
    <2>3. OwnResult(Plain(kind, asked[q], set), asked[q], Who(q))
      BY PlainOwn
    <2> QED
      BY <1>0, <2>1, <2>2, <2>3, AnsweredOwn
  <1>9. ASSUME NEW q \in Request, Act(q) PROVE OwnInv'
    <2>1. PICK set \in SignedIn(q) :
            answer' = [answer EXCEPT ![q] = Plain("redirect", asked[q], Over(Only("flash", messages + 1), set))]
      BY <1>9 DEF Act, Answers
    <2>2. UNCHANGED <<asked, entries, kept>>
      BY <1>9 DEF Act, server, browser
    <2>3. OwnResult(Plain("redirect", asked[q], Over(Only("flash", messages + 1), set)), asked[q], Who(q))
      BY PlainOwn
    <2> QED
      BY <1>0, <2>1, <2>2, <2>3, AnsweredOwn
  <1>10. ASSUME NEW q \in Request, Rerender(q) PROVE OwnInv'
    <2>1. PICK failed \in Failing(asked[q]), set \in SignedIn(q) : answer' = [answer EXCEPT ![q] = Again(q, set, failed)]
      BY <1>10 DEF Rerender, Answers
    <2>2. UNCHANGED <<asked, entries, kept>>
      BY <1>10 DEF Rerender, server, browser
    <2>3. OwnResult(Again(q, set, failed), asked[q], Who(q))
      BY <1>0, <1>10, AgainOwn DEF Rerender, Arrived, Shaped, AskedFits
    <2> QED
      BY <1>0, <2>1, <2>2, <2>3, AnsweredOwn
  <1>11. ASSUME NEW q \in Request, NEW holder, Reuse(q, holder) PROVE OwnInv'
    <2>1. /\ holder \in DOMAIN kept /\ kept[holder] # NotKept /\ CopyFits(kept[holder])
          /\ answer' = [answer EXCEPT ![q] = Reused(kept[holder])]
      BY <1>0, <1>11, ReuseIs
    <2>2. /\ kept[holder].page = asked[q].page /\ kept[holder].answer.level = asked[q].level
          /\ kept[holder].answer.varies => kept[holder].cookies = asked[q].cookies
          /\ UNCHANGED <<asked, entries, kept>>
      BY <1>11 DEF Reuse, server, browser
    <2>3. AskFits(asked[q]) /\ Who(q) \in Visitor /\ AnyonesCopy(kept[holder])
      BY <1>0, <1>11, <2>1 DEF Reuse, Arrived, Shaped, AskedFits, SiteIsWellFormed, OwnInv, CopiesAnyones
    <2>4. OwnResult(Reused(kept[holder]), asked[q], Who(q))
      BY <2>1, <2>2, <2>3, ReusedOwn
    <2> QED
      BY <1>0, <2>1, <2>2, <2>4, AnsweredOwn
  <1>12. ASSUME NEW q \in Request, Receive(q) PROVE OwnInv'
    <2>1. /\ ResultFits(answer[q], asked[q]) /\ answer[q] # Idle
          /\ answer' = [answer EXCEPT ![q] = Idle]
          /\ \A other \in Request \ {q} : asked'[other] = asked[other]
          /\ entries' = entries
          /\ DOMAIN kept' = DOMAIN kept
          /\ \A h \in DOMAIN kept :
              \/ kept'[h] = kept[h]
              \/ /\ answer[q].keeps # "nobody"
                 /\ kept'[h] = [page |-> answer[q].page, cookies |-> asked[q].cookies, answer |-> answer[q]]
      BY <1>0, <1>12, ReceiveIs DEF Shaped, Domains
    <2>2. AnswersOwn'
      BY <1>0, <2>1 DEF OwnInv, AnswersOwn, Shaped, Domains
    <2>3. EntriesCommon'
      BY <2>1 DEF OwnInv, EntriesCommon
    <2>4. answer[q].keeps # "nobody" =>
            AnyonesCopy([page |-> answer[q].page, cookies |-> asked[q].cookies, answer |-> answer[q]])
      BY <2>1 DEF OwnInv, AnswersOwn, OwnResult, AnyonesCopy, ResultFits, ContentOf
    <2>5. CopiesAnyones'
      BY <2>1, <2>4 DEF OwnInv, CopiesAnyones
    <2> QED
      BY <1>0, <2>2, <2>3, <2>5 DEF OwnInv
  <1>13. ASSUME NEW job \in refreshing, Refresh(job) PROVE OwnInv'
    <2>1. AskFits(job.ask) /\ Cacheable(job.ask.page, job.ask.cookies)
      BY <1>0 DEF Shaped, JobsFit, JobFits
    <2>2. PICK failed \in Failing(job.ask) :
            entries' = Stored(KeyOf(job.ask), Rendered(job.ask, job.visitor, failed))
      BY <1>13 DEF Refresh
    <2>3. EntriesCommon'
      BY <2>1, <2>2, StoredCommon DEF OwnInv
    <2>4. AnswersOwn' /\ CopiesAnyones'
      BY <1>13 DEF Refresh, browser, OwnInv, AnswersOwn, CopiesAnyones
    <2> QED
      BY <1>0, <2>3, <2>4 DEF OwnInv
  <1>14. ASSUME NEW key \in DOMAIN flight, Land(key) PROVE OwnInv'
    <2> DEFINE leader == flight[key]
               ask == asked[leader]
    <2>0. PICK failed \in SUBSET Running(ask.page, ask.level), joined \in SUBSET Request :
            LET value == Rendered(ask, Who(leader), failed)
            IN  /\ \A q \in joined : /\ Arrived(q, "page") /\ Cacheable(asked[q].page, asked[q].cookies)
                                     /\ KeyOf(asked[q]) = key /\ q # leader
                /\ answer' = [q \in Request |-> IF q = leader THEN value
                                                 ELSE IF q \in joined THEN Shared(value) ELSE answer[q]]
                /\ entries' = Stored(key, value)
                /\ flight' = [k \in DOMAIN flight \ {key} |-> flight[k]]
                /\ UNCHANGED <<browser, refreshing, asked, counted, noted>>
      BY <1>0, <1>14, LandIs
    <2> DEFINE value == Rendered(ask, Who(leader), failed)
    <2>1. /\ leader \in Request /\ Cacheable(ask.page, ask.cookies) /\ KeyOf(ask) = key /\ AskFits(ask)
      BY <1>0 DEF Shaped, FlightsFit, Arrived, AskedFits
    <2>2. UNCHANGED <<kept, asked>>
      BY <2>0 DEF browser
    <2>3. EntriesCommon'
      BY <2>0, <2>1, StoredCommon DEF OwnInv
    <2>4. OwnResult(value, ask, Who(leader))
      BY <2>1, RenderedOwn
    <2>5. ASSUME NEW q \in joined PROVE OwnResult(Shared(value), asked[q], Who(q))
      <3>1. AskFits(asked[q]) /\ Cacheable(asked[q].page, asked[q].cookies) /\ KeyOf(asked[q]) = key
        BY <1>0, <2>0 DEF Shaped, AskedFits, Arrived
      <3>2. CASE failed = {}
        <4>1. Shared(value).content = Common(KeyOf(asked[q]).page, KeyOf(asked[q]).level, KeyOf(asked[q]).variant)
          BY <2>1, <3>1, <3>2, SharedCommon
        <4> QED
          BY <3>1, <4>1, CommonOwn
      <3>3. CASE failed # {}
        <4>1. value.kind = "failed" /\ value.keeps = "nobody" /\ DOMAIN value = Fields
          BY <3>3, RenderedIs
        <4> HIDE DEF value
        <4>2. Shared(value).kind = "failed" /\ Shared(value).keeps = "nobody"
          BY <4>1, SharedIs DEF Fields
        <4> QED
          BY <4>2 DEF OwnResult
      <3> QED
        BY <3>2, <3>3
    <2>6. AnswersOwn'
      <3> SUFFICES ASSUME NEW q \in Request, answer'[q] # Idle PROVE OwnResult(answer'[q], asked[q], Who(q))
        BY <2>2 DEF AnswersOwn
      <3>0. answer'[q] = IF q = leader THEN value ELSE IF q \in joined THEN Shared(value) ELSE answer[q]
        BY <2>0
      <3> HIDE DEF value
      <3> QED
        BY <2>4, <2>5, <3>0 DEF OwnInv, AnswersOwn
    <2>7. CopiesAnyones'
      BY <2>2 DEF OwnInv, CopiesAnyones
    <2> QED
      BY <1>0, <2>3, <2>6, <2>7 DEF OwnInv
  <1>15. ASSUME NEW key \in DOMAIN entries, Expire(key) PROVE OwnInv'
    <2>1. EntriesCommon'
      BY <1>15 DEF Expire, OwnInv, EntriesCommon
    <2>2. AnswersOwn' /\ CopiesAnyones'
      BY <1>15 DEF Expire, browser, OwnInv, AnswersOwn, CopiesAnyones
    <2> QED
      BY <1>0, <2>1, <2>2 DEF OwnInv
  <1> QED
    BY <1>1, <1>2, <1>3, <1>4, <1>5, <1>6, <1>7, <1>8, <1>9, <1>10, <1>11, <1>12, <1>13, <1>14, <1>15 DEF Next

(* Whoever loaded an answer, and wherever it was kept (the page cache, a   *)
(* flight, a browser, a proxy), it says what the loaders would have made of*)
(* the request it answers (cachedRender, key, writeBytes).                 *)
THEOREM AnswersAreOnesOwn ==
  ASSUME SiteIsWellFormed, LoadersAreGuarded PROVE Spec => []AnswersAreTheVisitorsOwn
  <1>1. Init => OwnInv
    BY OwnInitially
  <1>2. OwnInv /\ [Next]_vars => OwnInv'
    BY OwnStays
  <1>3. OwnInv => AnswersAreTheVisitorsOwn
    BY DEF OwnInv, AnswersOwn, OwnResult, AnswersAreTheVisitorsOwn, Shows, ContentOf
  <1> QED
    BY <1>1, <1>2, <1>3, PTL DEF Spec
-----------------------------------------------------------------------------
(* csrf.Issue: a token is made for a form whose browser brings none.       *)
LEMMA PagePropsIs ==
  ASSUME NEW ask
  PROVE  /\ "csrf" \in DOMAIN PageProps(ask) <=> Page[ask.page].form /\ ask.cookies.csrf = None
         /\ "csrf" \in DOMAIN PageProps(ask) => PageProps(ask).csrf = tokens + 1
  BY DEF PageProps, Over, Issued, Only, Cleared, NoCookies

LEMMA NothingDelivered ==
  ASSUME SiteIsWellFormed, LoadersLeaveOurCookies, NEW ask, AskFits(ask), NEW visitor
  PROVE  "csrf" \notin DOMAIN Delivered(ask.page, ask.level, visitor, ask.cookies)
  <1>1. \A i \in Running(ask.page, ask.level) : "csrf" \notin Loaders(ask.page)[i].sets
    BY RunningInChain DEF LoadersLeaveOurCookies, AskFits
  <1> QED
    BY <1>1 DEF Delivered

LEMMA RenderedToken ==
  ASSUME SiteIsWellFormed, LoadersLeaveOurCookies, FormsAreNotKept,
         NEW ask, AskFits(ask), ask.what = "page", NEW visitor, NEW failed
  PROVE  TokenFits(Rendered(ask, visitor, failed), ask)
  <1> DEFINE result == Rendered(ask, visitor, failed)
             props == PageProps(ask)
             delivered == Delivered(ask.page, ask.level, visitor, ask.cookies)
  <1>1. CASE failed # {}
    <2>1. result.kind = "failed" /\ result.keeps = "nobody" /\ result.set \in {NoCookies, props}
      BY <1>1, RenderedIs
    <2>2. "csrf" \in DOMAIN props => ask.cookies.csrf = None
      BY PagePropsIs
    <2>3. "csrf" \notin DOMAIN NoCookies
      BY DEF NoCookies
    <2> QED
      BY <2>1, <2>2, <2>3 DEF TokenFits
  <1>2. CASE failed = {}
    <2>1. result.set = Over(delivered, props) /\ result.token = (IF Page[ask.page].form THEN Held(ask) ELSE None)
      BY <1>2, RenderedIs
    <2>2. /\ "csrf" \in DOMAIN props <=> Page[ask.page].form /\ ask.cookies.csrf = None
          /\ "csrf" \in DOMAIN props => props.csrf = tokens + 1
      BY PagePropsIs
    <2>3. "csrf" \notin DOMAIN delivered
      BY NothingDelivered
    <2>4. result.keeps # "nobody" => HasLifetime(ask.page)
      BY RenderedFits DEF ResultFits
    <2>5. result.keeps # "nobody" => ~Page[ask.page].form
      BY <2>4 DEF FormsAreNotKept, AskFits
    <2> HIDE DEF result, props, delivered
    <2>6. "csrf" \in DOMAIN result.set <=> "csrf" \in DOMAIN props
      BY <2>1, <2>3 DEF Over
    <2>7. "csrf" \in DOMAIN props => result.set.csrf = props.csrf
      BY <2>1, <2>3 DEF Over
    <2>8. TokenFits(result, ask)
      BY <2>1, <2>2, <2>5, <2>6, <2>7 DEF TokenFits, Held
    <2> QED
      BY <2>8 DEF result
  <1> QED
    BY <1>1, <1>2

(* An answer without a token or a cookie of one.                           *)
LEMMA NoTokenFits ==
  ASSUME NEW result, result.token = None, "csrf" \notin DOMAIN result.set, NEW ask
  PROVE  TokenFits(result, ask)
  BY DEF TokenFits

LEMMA SignedInLeaves ==
  ASSUME NEW q, NEW set \in SignedIn(q)
  PROVE  "csrf" \notin DOMAIN set /\ "csrf" \notin DOMAIN Over(Only("flash", messages + 1), set)
  BY DEF SignedIn, Only, NoCookies, Over

LEMMA AgainToken ==
  ASSUME NEW q, NEW set \in SignedIn(q), NEW failed
  PROVE  TokenFits(Again(q, set, failed), asked[q]) /\ Again(q, set, failed).kind # "refused"
  <1> DEFINE whole == Plain("page", asked[q], set)
             content == Content(asked[q].page, 0, Who(q), asked[q].cookies)
             result == Again(q, set, failed)
  <1>0. "csrf" \notin DOMAIN set
    BY SignedInLeaves
  <1>1. CASE failed # {}
    <2>1. result = Plain("failed", asked[q], set)
      BY <1>1 DEF Again
    <2>2. result.token = None /\ result.set = set /\ result.kind = "failed"
      BY <2>1, PlainIs
    <2> HIDE DEF result
    <2>3. TokenFits(result, asked[q])
      BY <1>0, <2>2, NoTokenFits
    <2> QED
      BY <2>2, <2>3 DEF result
  <1>2. CASE failed = {}
    <2>1. result = [whole EXCEPT !.content = content, !.token = asked[q].cookies.csrf]
      BY <1>2 DEF Again
    <2>2. DOMAIN whole = Fields /\ whole.keeps = "nobody" /\ whole.set = set /\ whole.kind = "page"
      BY PlainIs
    <2> HIDE DEF whole, content, result
    <2>3. /\ result.token = asked[q].cookies.csrf /\ result.keeps = "nobody"
          /\ result.set = set /\ result.kind = "page"
      BY <2>1, <2>2 DEF Fields
    <2>4. TokenFits(result, asked[q])
      BY <1>0, <2>3 DEF TokenFits
    <2> QED
      BY <2>3, <2>4 DEF result
  <1> QED
    BY <1>1, <1>2
-----------------------------------------------------------------------------
LEMMA TokenInitially == ASSUME SiteIsWellFormed, Init PROVE TokenInv
  BY ShapedInitially DEF Init, TokenInv, AsksCarryTheToken, FirstVisitsAreAlone, FormsHaveTheToken, Blank,
     AnswersBringTheToken, CopiesHaveNone

LEMMA AnsweredToken ==
  ASSUME TokenInv, Shaped', NEW q \in Request, NEW result, TokenFits(result, asked[q]),
         result.kind = "refused" => ~Straight(q),
         answer' = [answer EXCEPT ![q] = result], UNCHANGED <<asked, jar, document, kept, crossed>>
  PROVE  TokenInv'
  <1>1. AnswersBringTheToken'
    BY DEF TokenInv, AnswersBringTheToken, Shaped, Domains, Straight
  <1>2. AsksCarryTheToken' /\ FirstVisitsAreAlone' /\ FormsHaveTheToken' /\ CopiesHaveNone'
    BY DEF TokenInv, AsksCarryTheToken, FirstVisitsAreAlone, FormsHaveTheToken, CopiesHaveNone, Straight
  <1> QED
    BY <1>1, <1>2 DEF TokenInv

(* Nothing that has to do with tokens happens.                             *)
LEMMA TokensApart ==
  ASSUME TokenInv, Shaped', UNCHANGED <<answer, asked, jar, document, kept, crossed>>
  PROVE  TokenInv'
  BY DEF TokenInv, AnswersBringTheToken, AsksCarryTheToken, FirstVisitsAreAlone, FormsHaveTheToken, CopiesHaveNone, Straight

LEMMA SendToken ==
  ASSUME TokenInv, Shaped', NEW q \in Request, NEW ask, Send(q, ask), ask.cookies = jar[Who(q)],
         ask.what = "submission" /\ Straight(q) => Verified(ask)
  PROVE  TokenInv'
  <1>1. /\ asked[q] = Idle /\ answer[q] = Idle
        /\ asked' = [asked EXCEPT ![q] = ask] /\ UNCHANGED <<answer, jar, document, kept>>
        /\ crossed \subseteq crossed'
        /\ DOMAIN asked = Request
    BY DEF Send, Free, browser, TokenInv, Shaped, Domains
  <1>2. \A other \in Request : Straight(other)' => Straight(other)
    BY <1>1 DEF Straight
  <1>3. AsksCarryTheToken'
    <2> SUFFICES ASSUME NEW r \in Request, asked'[r] # Idle, Straight(r)'
                 PROVE  /\ asked'[r].cookies.csrf = jar[Who(r)].csrf
                        /\ asked'[r].what = "submission" => Verified(asked'[r])
      BY <1>1 DEF AsksCarryTheToken
    <2>1. CASE r = q
      BY <1>1, <1>2, <2>1
    <2>2. CASE r # q
      BY <1>1, <1>2, <2>2 DEF TokenInv, AsksCarryTheToken
    <2> QED
      BY <2>1, <2>2
  <1>4. FirstVisitsAreAlone'
    <2> SUFFICES ASSUME NEW r \in Request, asked'[r] # Idle, Straight(r)', asked'[r].cookies.csrf = None,
                        NEW other \in Request, Who(other) = Who(r), other # r
                 PROVE  asked'[other] = Idle
      BY DEF FirstVisitsAreAlone
    <2>1. CASE r = q
      <3>1. jar[Who(q)].csrf = None
        BY <1>1, <2>1
      <3>2. Who(q) \notin crossed'
        BY <2>1 DEF Straight
      <3>3. \A o \in Request : Who(o) = Who(q) => Free(o)
        BY <3>1, <3>2 DEF Send
      <3> QED
        BY <1>1, <2>1, <3>3 DEF Free
    <2>2. CASE r # q
      <3>1. asked[r] # Idle /\ asked[r].cookies.csrf = None /\ Straight(r)
        BY <1>1, <1>2, <2>2
      <3>2. CASE other = q
        <4>1. jar[Who(r)].csrf = None
          BY <3>1 DEF TokenInv, AsksCarryTheToken
        <4>2. jar[Who(q)].csrf = None /\ Who(q) \notin crossed'
          BY <3>2, <4>1 DEF Straight
        <4>3. Free(r)
          BY <3>2, <4>2 DEF Send
        <4> QED
          BY <3>1, <4>3 DEF Free
      <3>3. CASE other # q
        BY <1>1, <3>1, <3>3 DEF TokenInv, FirstVisitsAreAlone
      <3> QED
        BY <3>2, <3>3
    <2> QED
      BY <2>1, <2>2
  <1>5. FormsHaveTheToken'
    BY <1>1, <1>2 DEF TokenInv, FormsHaveTheToken
  <1>6. AnswersBringTheToken' /\ CopiesHaveNone'
    BY <1>1, <1>2 DEF TokenInv, AnswersBringTheToken, CopiesHaveNone
  <1> QED
    BY <1>3, <1>4, <1>5, <1>6 DEF TokenInv

LEMMA ReceiveToken ==
  ASSUME SiteIsWellFormed, TokenInv, Shaped', NEW q \in Request, Receive(q) PROVE TokenInv'
  <1> DEFINE result == answer[q]
             cookies == Over(answer[q].set, jar[Who(q)])
  <1>1. /\ result # Idle /\ asked[q] # Idle /\ ResultFits(result, asked[q]) /\ TokenFits(result, asked[q])
        /\ jar' = [jar EXCEPT ![Who(q)] = cookies]
        /\ answer' = [answer EXCEPT ![q] = Idle]
        /\ crossed' = crossed
        /\ Who(q) \in Visitor /\ DOMAIN jar = Visitor /\ DOMAIN asked = Request /\ DOMAIN document = Request
        /\ DOMAIN answer = Request
    BY ReceiveIs DEF TokenInv, Shaped, Domains, SiteIsWellFormed, AnswersBringTheToken
  <1>2. \/ asked' = [asked EXCEPT ![q] = Ask("page", Target, 0, cookies, None)]
        \/ asked' = [asked EXCEPT ![q] = Idle]
    BY ReceiveIs DEF TokenInv
  <1>3. \/ result.kind \in {"page", "kept"} /\ document' = [document EXCEPT ![q] = [page |-> result.page, token |-> result.token]]
        \/ document' = document
    BY ReceiveIs DEF TokenInv
  <1>4. "csrf" \in DOMAIN jar[Who(q)]
    BY <1>1 DEF TokenInv, Shaped, JarsFit
  <1>5. cookies.csrf = IF "csrf" \in DOMAIN result.set THEN result.set.csrf ELSE jar[Who(q)].csrf
    BY <1>4 DEF Over
  <1>6. /\ DOMAIN kept' = DOMAIN kept
        /\ \A h \in DOMAIN kept :
              \/ kept'[h] = kept[h]
              \/ /\ result.keeps # "nobody"
                 /\ kept'[h] = [page |-> result.page, cookies |-> asked[q].cookies, answer |-> result]
    BY ReceiveIs DEF TokenInv
  <1>7. \A r \in Request : Straight(r)' <=> Straight(r)
    BY <1>1 DEF Straight
  (* Where a token is brought, the tab was alone and no form is shown.     *)
  <1>8. ASSUME Straight(q), "csrf" \in DOMAIN result.set
        PROVE  \A r \in Request : Who(r) = Who(q) => (r = q \/ asked[r] = Idle) /\ document[r].token = None
    <2>1. asked[q].cookies.csrf = None
      BY <1>1, <1>8 DEF TokenFits
    <2>2. jar[Who(q)].csrf = None
      BY <1>1, <1>8, <2>1 DEF TokenInv, AsksCarryTheToken
    <2>3. \A r \in Request : Who(r) = Who(q) => r = q \/ asked[r] = Idle
      BY <1>1, <1>8, <2>1 DEF TokenInv, FirstVisitsAreAlone
    <2>4. \A r \in Request : Who(r) = Who(q) => document[r].token = None
      BY <1>8, <2>2 DEF TokenInv, FormsHaveTheToken, Straight
    <2> QED
      BY <2>3, <2>4
  <1>9. Straight(q) => asked[q].cookies.csrf = jar[Who(q)].csrf
    BY <1>1 DEF TokenInv, AsksCarryTheToken
  <1>10. \A r \in Request : Who(r) # Who(q) => jar'[Who(r)] = jar[Who(r)] /\ r # q
    BY <1>1 DEF SiteIsWellFormed
  <1>11. \A r \in Request : Who(r) = Who(q) => jar'[Who(r)].csrf = cookies.csrf
    BY <1>1
  <1>12. \A r \in Request : r # q => asked'[r] = asked[r] /\ answer'[r] = answer[r] /\ document'[r] = document[r]
    BY <1>1, <1>2, <1>3
  <1>13. asked'[q] # Idle => asked'[q].what = "page" /\ asked'[q].cookies = cookies
    BY <1>1, <1>2 DEF Ask
  <1> HIDE DEF cookies, result
  <1>14. AsksCarryTheToken'
    <2> SUFFICES ASSUME NEW r \in Request, asked'[r] # Idle, Straight(r)
                 PROVE  /\ asked'[r].cookies.csrf = jar'[Who(r)].csrf
                        /\ asked'[r].what = "submission" => Verified(asked'[r])
      BY <1>7 DEF AsksCarryTheToken
    <2>1. CASE r = q
      BY <1>11, <1>13, <2>1
    <2>2. CASE r # q /\ Who(r) = Who(q)
      <3>1. Straight(q)
        BY <2>2 DEF Straight
      <3>2. "csrf" \notin DOMAIN result.set
        BY <1>8, <1>12, <2>2, <3>1
      <3>3. cookies.csrf = jar[Who(q)].csrf
        BY <1>5, <3>2
      <3> QED
        BY <1>11, <1>12, <2>2, <3>3 DEF TokenInv, AsksCarryTheToken
    <2>3. CASE Who(r) # Who(q)
      BY <1>10, <1>12, <2>3 DEF TokenInv, AsksCarryTheToken
    <2> QED
      BY <2>1, <2>2, <2>3
  <1>15. FirstVisitsAreAlone'
    <2> SUFFICES ASSUME NEW r \in Request, asked'[r] # Idle, Straight(r), asked'[r].cookies.csrf = None,
                        NEW other \in Request, Who(other) = Who(r), other # r
                 PROVE  asked'[other] = Idle
      BY <1>7 DEF FirstVisitsAreAlone
    <2>1. CASE r = q
      <3>1. cookies.csrf = None
        BY <1>13, <2>1
      <3>2. CASE "csrf" \in DOMAIN result.set
        BY <1>8, <1>12, <2>1, <3>2
      <3>3. CASE "csrf" \notin DOMAIN result.set
        <4>1. asked[q].cookies.csrf = None
          BY <1>5, <1>9, <2>1, <3>1, <3>3
        <4> QED
          BY <1>1, <1>12, <2>1, <4>1 DEF TokenInv, FirstVisitsAreAlone
      <3> QED
        BY <3>2, <3>3
    <2>2. CASE r # q
      <3>1. asked[other] = Idle
        BY <1>12, <2>2 DEF TokenInv, FirstVisitsAreAlone
      <3>2. other # q
        BY <1>1, <3>1
      <3> QED
        BY <1>12, <3>1, <3>2
    <2> QED
      BY <2>1, <2>2
  <1>16. FormsHaveTheToken'
    <2> SUFFICES ASSUME NEW r \in Request, Straight(r), document'[r].token # None
                 PROVE  jar'[Who(r)].csrf = document'[r].token
      BY <1>7 DEF FormsHaveTheToken
    <2>1. CASE Who(r) # Who(q)
      BY <1>10, <1>12, <2>1 DEF TokenInv, FormsHaveTheToken
    <2>2. CASE Who(r) = Who(q)
      <3>1. Straight(q)
        BY <2>2 DEF Straight
      <3>2. CASE document'[r].token = document[r].token
        <4>1. "csrf" \notin DOMAIN result.set
          BY <1>8, <2>2, <3>1, <3>2
        <4> QED
          BY <1>5, <1>11, <2>2, <3>2, <4>1 DEF TokenInv, FormsHaveTheToken
      <3>3. CASE document'[r].token # document[r].token
        <4>1. r = q /\ result.kind \in {"page", "kept"} /\ document'[q].token = result.token
          BY <1>1, <1>3, <1>12, <3>3
        <4>2. result.token = (IF "csrf" \in DOMAIN result.set THEN result.set.csrf ELSE asked[q].cookies.csrf)
          BY <1>1, <4>1 DEF TokenFits
        <4> QED
          BY <1>5, <1>9, <1>11, <2>2, <3>1, <4>1, <4>2
      <3> QED
        BY <3>2, <3>3
    <2> QED
      BY <2>1, <2>2
  <1>17. AnswersBringTheToken'
    BY <1>1, <1>7, <1>12 DEF TokenInv, AnswersBringTheToken
  <1>18. CopiesHaveNone'
    <2>1. result.keeps # "nobody" => result.token = None
      BY <1>1 DEF TokenFits
    <2> QED
      BY <1>6, <2>1 DEF TokenInv, CopiesHaveNone
  <1> QED
    BY <1>14, <1>15, <1>16, <1>17, <1>18 DEF TokenInv

LEMMA TokenStays ==
  ASSUME SiteIsWellFormed, LoadersLeaveOurCookies, FormsAreNotKept, TokenInv, [Next]_vars PROVE TokenInv'
  <1>0. Shaped /\ Shaped'
    BY ShapeStays DEF TokenInv
  <1>1. CASE UNCHANGED vars
    BY <1>0, <1>1, TokensApart DEF vars
  <1>2. ASSUME NEW q \in Request, NEW page \in DOMAIN Page, NEW partial \in BOOLEAN, Open(q, page, partial) PROVE TokenInv'
    <2> DEFINE ask == Ask("page", page, IF partial THEN SharedLevel(document[q].page, page) ELSE 0, jar[Who(q)], None)
    <2>1. Send(q, ask)
      BY <1>2 DEF Open
    <2>2. ask.cookies = jar[Who(q)] /\ ask.what # "submission"
      BY DEF Ask
    <2> QED
      BY <1>0, <2>1, <2>2, SendToken
  <1>3. ASSUME NEW q \in Request, Fetch(q) PROVE TokenInv'
    <2> DEFINE ask == Ask("fragment", document[q].page, 0, jar[Who(q)], None)
    <2>1. Send(q, ask)
      BY <1>3 DEF Fetch
    <2>2. ask.cookies = jar[Who(q)] /\ ask.what # "submission"
      BY DEF Ask
    <2> QED
      BY <1>0, <2>1, <2>2, SendToken
  <1>4. ASSUME NEW q \in Request, Submit(q) PROVE TokenInv'
    <2> DEFINE ask == Ask("submission", document[q].page, 0, jar[Who(q)], document[q].token)
    <2>1. Send(q, ask) /\ document[q].token # None
      BY <1>4 DEF Submit
    <2>2. ask.cookies = jar[Who(q)] /\ ask.token = document[q].token
      BY DEF Ask
    <2>3. Straight(q) => jar[Who(q)].csrf = document[q].token
      BY <2>1 DEF TokenInv, FormsHaveTheToken
    <2>4. Straight(q) => Verified(ask)
      BY <2>1, <2>2, <2>3 DEF Verified
    <2> HIDE DEF ask
    <2> QED
      BY <1>0, <2>1, <2>2, <2>4, SendToken
  <1>5. ASSUME NEW q \in Request, Render(q) PROVE TokenInv'
    <2>1. AskFits(asked[q]) /\ asked[q].what = "page"
      BY <1>0, <1>5 DEF Render, Arrived, Shaped, AskedFits
    <2>2. PICK failed \in Failing(asked[q]) : answer' = [answer EXCEPT ![q] = Rendered(asked[q], Who(q), failed)]
      BY <1>5 DEF Render, Answers
    <2>3. UNCHANGED <<asked, jar, document, kept, crossed>>
      BY <1>5 DEF Render, browser
    <2>4. TokenFits(Rendered(asked[q], Who(q), failed), asked[q])
      BY <2>1, RenderedToken
    <2>5. Rendered(asked[q], Who(q), failed).kind # "refused"
      BY RenderedIs
    <2> QED
      BY <1>0, <2>2, <2>3, <2>4, <2>5, AnsweredToken
  <1>6. ASSUME NEW q \in Request, Hit(q) PROVE TokenInv'
    <2> DEFINE value == entries[KeyOf(asked[q])]
    <2>1. EntryFits(value, KeyOf(asked[q]))
      BY <1>0, <1>6 DEF Hit, Shaped, EntriesFit
    <2>2. UNCHANGED <<asked, jar, document, kept, crossed>> /\ answer' = [answer EXCEPT ![q] = value]
      BY <1>6 DEF Hit, Answers, browser
    <2> HIDE DEF value
    <2>3. value.token = None /\ "csrf" \notin DOMAIN value.set /\ value.kind = "page"
      BY <2>1 DEF EntryFits, NoCookies
    <2>4. TokenFits(value, asked[q])
      BY <2>3, NoTokenFits
    <2> QED
      BY <1>0, <2>2, <2>3, <2>4, AnsweredToken
  <1>7. ASSUME NEW q \in Request, Lead(q) PROVE TokenInv'
    BY <1>0, <1>7, TokensApart DEF Lead, browser, noted
  <1>8. ASSUME NEW q \in Request, WriteFragment(q) PROVE TokenInv'
    <2>1. PICK result \in Written(asked[q]) : answer' = [answer EXCEPT ![q] = result]
      BY <1>8 DEF WriteFragment, Answers, Written
    <2>2. UNCHANGED <<asked, jar, document, kept, crossed>>
      BY <1>8 DEF WriteFragment, browser
    <2>3. /\ result.kind \in {"fragment", "failed"} /\ result.token = None
          /\ result.set \in {NoCookies, PageProps(asked[q])}
      BY <1>0, <1>8, WrittenIs DEF WriteFragment, Arrived, Shaped, AskedFits
    <2>4. "csrf" \in DOMAIN result.set => asked[q].cookies.csrf = None
      BY <2>3, PagePropsIs DEF NoCookies
    <2>5. TokenFits(result, asked[q]) /\ result.kind # "refused"
      BY <2>3, <2>4 DEF TokenFits
    <2> QED
      BY <1>0, <2>1, <2>2, <2>5, AnsweredToken
  <1>9. ASSUME NEW q \in Request, Refuse(q) PROVE TokenInv'
    <2>1. answer' = [answer EXCEPT ![q] = Plain("refused", asked[q], NoCookies)]
      BY <1>9 DEF Refuse, Answers
    <2>2. UNCHANGED <<asked, jar, document, kept, crossed>>
      BY <1>9 DEF Refuse, browser
    <2>3. TokenFits(Plain("refused", asked[q], NoCookies), asked[q])
      BY PlainIs, NoTokenFits DEF NoCookies
    <2>4. ~Straight(q)
      BY <1>9 DEF Refuse, Arrived, TokenInv, AsksCarryTheToken
    <2> QED
      BY <1>0, <2>1, <2>2, <2>3, <2>4, AnsweredToken
  <1>10. ASSUME NEW q \in Request, Act(q) PROVE TokenInv'
    <2>1. PICK set \in SignedIn(q) :
            answer' = [answer EXCEPT ![q] = Plain("redirect", asked[q], Over(Only("flash", messages + 1), set))]
      BY <1>10 DEF Act, Answers
    <2> DEFINE cookies == Over(Only("flash", messages + 1), set)
    <2>2. UNCHANGED <<asked, jar, document, kept, crossed>>
      BY <1>10 DEF Act, browser
    <2>3. "csrf" \notin DOMAIN cookies
      BY SignedInLeaves
    <2> HIDE DEF cookies
    <2>4. TokenFits(Plain("redirect", asked[q], cookies), asked[q]) /\ Plain("redirect", asked[q], cookies).kind # "refused"
      BY <2>3, PlainIs, NoTokenFits
    <2>5. answer' = [answer EXCEPT ![q] = Plain("redirect", asked[q], cookies)]
      BY <2>1 DEF cookies
    <2> QED
      BY <1>0, <2>2, <2>4, <2>5, AnsweredToken
  <1>11. ASSUME NEW q \in Request, Rerender(q) PROVE TokenInv'
    <2>1. PICK failed \in Failing(asked[q]), set \in SignedIn(q) : answer' = [answer EXCEPT ![q] = Again(q, set, failed)]
      BY <1>11 DEF Rerender, Answers
    <2>2. UNCHANGED <<asked, jar, document, kept, crossed>>
      BY <1>11 DEF Rerender, browser
    <2> QED
      BY <1>0, <2>1, <2>2, AgainToken, AnsweredToken
  <1>12. ASSUME NEW q \in Request, SubmissionFails(q) PROVE TokenInv'
    <2>1. PICK set \in SignedIn(q) : answer' = [answer EXCEPT ![q] = Plain("failed", asked[q], set)]
      BY <1>12 DEF SubmissionFails, Answers
    <2>2. UNCHANGED <<asked, jar, document, kept, crossed>>
      BY <1>12 DEF SubmissionFails, browser
    <2>3. "csrf" \notin DOMAIN set
      BY SignedInLeaves
    <2>4. TokenFits(Plain("failed", asked[q], set), asked[q]) /\ Plain("failed", asked[q], set).kind # "refused"
      BY <2>3, PlainIs, NoTokenFits
    <2> QED
      BY <1>0, <2>1, <2>2, <2>4, AnsweredToken
  <1>13. ASSUME NEW q \in Request, NEW holder, Reuse(q, holder) PROVE TokenInv'
    <2> DEFINE value == Reused(kept[holder])
    <2>1. /\ holder \in DOMAIN kept /\ kept[holder] # NotKept /\ CopyFits(kept[holder])
          /\ answer' = [answer EXCEPT ![q] = value]
      BY <1>0, <1>13, ReuseIs
    <2>2. kept[holder].answer.token = None
      BY <2>1 DEF TokenInv, CopiesHaveNone
    <2>3. value.token = None /\ value.set = NoCookies /\ value.kind # "refused"
      BY <2>1, <2>2, ReusedIs
    <2>4. UNCHANGED <<asked, jar, document, kept, crossed>>
      BY <1>13 DEF Reuse, browser
    <2> HIDE DEF value
    <2>5. TokenFits(value, asked[q])
      BY <2>3, NoTokenFits DEF NoCookies
    <2> QED
      BY <1>0, <2>1, <2>3, <2>4, <2>5, AnsweredToken
  <1>14. ASSUME NEW q \in Request, Receive(q) PROVE TokenInv'
    BY <1>0, <1>14, ReceiveToken
  <1>15. ASSUME NEW job \in refreshing, Refresh(job) PROVE TokenInv'
    BY <1>0, <1>15, TokensApart DEF Refresh, browser, noted
  <1>16. ASSUME NEW key \in DOMAIN flight, Land(key) PROVE TokenInv'
    <2> DEFINE leader == flight[key]
               ask == asked[leader]
    <2>0. PICK failed \in SUBSET Running(ask.page, ask.level), joined \in SUBSET Request :
            LET value == Rendered(ask, Who(leader), failed)
            IN  /\ \A q \in joined : /\ Arrived(q, "page") /\ Cacheable(asked[q].page, asked[q].cookies)
                                     /\ KeyOf(asked[q]) = key /\ q # leader
                /\ answer' = [q \in Request |-> IF q = leader THEN value
                                                 ELSE IF q \in joined THEN Shared(value) ELSE answer[q]]
                /\ entries' = Stored(key, value)
                /\ flight' = [k \in DOMAIN flight \ {key} |-> flight[k]]
                /\ UNCHANGED <<browser, refreshing, asked, counted, noted>>
      BY <1>0, <1>16, LandIs
    <2> DEFINE value == Rendered(ask, Who(leader), failed)
    <2>1. leader \in Request /\ AskFits(ask) /\ ask.what = "page" /\ ~Page[ask.page].form
      BY <1>0 DEF Shaped, FlightsFit, Arrived, AskedFits, Cacheable
    <2>2. UNCHANGED <<asked, jar, document, kept, crossed>>
      BY <2>0 DEF browser, noted
    <2>3. TokenFits(value, ask) /\ value.kind # "refused" /\ DOMAIN value = Fields
      BY <2>1, RenderedToken, RenderedIs
    <2>4. value.token = None
      BY <2>1, RenderedIs
    <2> HIDE DEF value
    <2>5. /\ Shared(value).token = None /\ Shared(value).kind # "refused"
          /\ Shared(value).set = NoCookies
      BY <2>3, <2>4, SharedIs DEF Fields
    <2>6. \A q : TokenFits(Shared(value), asked[q])
      BY <2>5, NoTokenFits DEF NoCookies
    <2>7. \A q \in Request : answer'[q] = IF q = leader THEN value ELSE IF q \in joined THEN Shared(value) ELSE answer[q]
      BY <2>0 DEF value
    <2>8. AnswersBringTheToken'
      <3> SUFFICES ASSUME NEW q \in Request, answer'[q] # Idle
                   PROVE  TokenFits(answer'[q], asked[q]) /\ (answer'[q].kind = "refused" => ~Straight(q))
        BY <2>2 DEF AnswersBringTheToken, Straight
      <3> QED
        BY <2>3, <2>5, <2>6, <2>7 DEF TokenInv, AnswersBringTheToken
    <2>9. AsksCarryTheToken' /\ FirstVisitsAreAlone' /\ FormsHaveTheToken' /\ CopiesHaveNone'
      BY <2>2 DEF TokenInv, AsksCarryTheToken, FirstVisitsAreAlone, FormsHaveTheToken, CopiesHaveNone, Straight
    <2> QED
      BY <1>0, <2>8, <2>9 DEF TokenInv
  <1>17. ASSUME NEW key \in DOMAIN entries, Expire(key) PROVE TokenInv'
    BY <1>0, <1>17, TokensApart DEF Expire, browser, noted
  <1> QED
    BY <1>1, <1>2, <1>3, <1>4, <1>5, <1>6, <1>7, <1>8, <1>9, <1>10, <1>11, <1>12, <1>13, <1>14, <1>15, <1>16, <1>17
    DEF Next

(* Issue and Verify: a form is refused only to a browser whose first       *)
(* visits crossed, for any number of browsers and tabs, provided no page   *)
(* with a form has a lifetime and loaders set no cookie of the framework.  *)
THEOREM FormsAreAccepted ==
  ASSUME SiteIsWellFormed, LoadersLeaveOurCookies, FormsAreNotKept PROVE Spec => []RefusedOnlyWhereFirstVisitsCross
  <1>1. Init => TokenInv
    BY TokenInitially
  <1>2. TokenInv /\ [Next]_vars => TokenInv'
    BY TokenStays
  <1>3. TokenInv => RefusedOnlyWhereFirstVisitsCross
    BY DEF TokenInv, AnswersBringTheToken, Straight, RefusedOnlyWhereFirstVisitsCross
  <1> QED
    BY <1>1, <1>2, <1>3, PTL DEF Spec
-----------------------------------------------------------------------------
LEMMA ResultIsNotIdle == ASSUME NEW result, DOMAIN result = Fields PROVE result # Idle
  <1>1. "page" \in Fields /\ "page" \notin DOMAIN Idle
    BY DEF Fields, Idle
  <1> QED
    BY <1>1

LEMMA MessagesInitially == ASSUME SiteIsWellFormed, Init PROVE MessageInv
  BY ShapedInitially DEF Init, MessageInv, NoneIsLost

(* Requests other than one are where they were, and what that one carried  *)
(* it carries on, or it is told.                                           *)
LEMMA CarriedOn ==
  ASSUME NoneIsLost, messages' = messages, seen \subseteq seen', spoiled \subseteq spoiled',
         NEW moved \in SUBSET Request,
         \A r \in Request \ moved : asked'[r] = asked[r] /\ answer'[r] = answer[r],
         \A r \in moved, m \in 1..messages : Carries(r, m) => Carries(r, m)' \/ m \in seen' \cup spoiled'
  PROVE  NoneIsLost'
  <1> SUFFICES ASSUME NEW m \in 1..messages, m \notin seen' \cup spoiled' PROVE \E r \in Request : Carries(r, m)'
    BY DEF NoneIsLost
  <1>1. PICK r \in Request : Carries(r, m)
    BY DEF NoneIsLost
  <1>2. CASE r \in moved
    BY <1>1, <1>2
  <1>3. CASE r \notin moved
    BY <1>1, <1>3 DEF Carries, Shows
  <1> QED
    BY <1>2, <1>3

LEMMA OneCarriesOn ==
  ASSUME NoneIsLost, messages' = messages, seen \subseteq seen', spoiled \subseteq spoiled',
         NEW q \in Request,
         \A r \in Request \ {q} : asked'[r] = asked[r] /\ answer'[r] = answer[r],
         \A m \in 1..messages : Carries(q, m) => Carries(q, m)' \/ m \in seen' \cup spoiled'
  PROVE  NoneIsLost'
  <1> SUFFICES ASSUME NEW m \in 1..messages, m \notin seen' \cup spoiled' PROVE \E r \in Request : Carries(r, m)'
    BY DEF NoneIsLost
  <1>1. PICK r \in Request : Carries(r, m)
    BY DEF NoneIsLost
  <1>2. CASE r = q
    BY <1>1, <1>2
  <1>3. CASE r # q
    BY <1>1, <1>3 DEF Carries, Shows
  <1> QED
    BY <1>2, <1>3

(* What an answer has to do for a request that brings a message.           *)
LEMMA AnsweredMessages ==
  ASSUME SiteIsWellFormed, MessageInv, NEW q \in Request, asked[q] # Idle, answer[q] = Idle,
         NEW result, ResultFits(result, asked[q]), answer' = [answer EXCEPT ![q] = result],
         UNCHANGED <<asked, messages, seen>>, spoiled \subseteq spoiled',
         asked[q].what = "page" /\ asked[q].cookies.flash # None =>
           \/ result.kind \in {"page", "kept"} /\ result.flash = asked[q].cookies.flash
           \/ asked[q].cookies.flash \in spoiled'
  PROVE  NoneIsLost'
  <1>1. result # Idle
    BY ResultIsNotIdle DEF ResultFits
  <1>2. \A r \in Request \ {q} : asked'[r] = asked[r] /\ answer'[r] = answer[r]
    BY DEF MessageInv, Shaped, Domains
  <1>3. answer'[q] = result
    BY DEF MessageInv, Shaped, Domains
  <1>4. ASSUME NEW m \in 1..messages, Carries(q, m) PROVE Carries(q, m)' \/ m \in spoiled'
    <2>1. m # None
      BY DEF SiteIsWellFormed, MessageInv, Shaped, Domains
    <2>2. asked[q].what = "page" /\ asked[q].cookies.flash = m
      BY <1>4 DEF Carries, Shows
    <2> QED
      BY <1>1, <1>3, <2>1, <2>2 DEF Carries, Shows
  <1> QED
    BY <1>2, <1>4, OneCarriesOn DEF MessageInv

LEMMA MessagesStay == ASSUME SiteIsWellFormed, KeptPagesVary, MessageInv, [Next]_vars PROVE MessageInv'
  <1>0. Shaped /\ Shaped' /\ NoneIsLost
    BY ShapeStays DEF MessageInv
  <1> SUFFICES NoneIsLost'
    BY <1>0 DEF MessageInv
  <1>1. ASSUME UNCHANGED <<asked, answer, messages, seen, spoiled>> PROVE NoneIsLost'
    BY <1>0, <1>1 DEF NoneIsLost, Carries, Shows
  <1>2. ASSUME NEW q \in Request, NEW ask, Send(q, ask) PROVE NoneIsLost'
    <2>1. asked[q] = Idle /\ answer[q] = Idle /\ asked' = [asked EXCEPT ![q] = ask] /\ UNCHANGED <<answer, messages, seen, spoiled>>
      BY <1>2 DEF Send, Free
    <2>2. \A r \in Request \ {q} : asked'[r] = asked[r] /\ answer'[r] = answer[r]
      BY <2>1
    <2>3. \A m : ~Carries(q, m)
      BY <2>1 DEF Carries, Shows
    <2> QED
      BY <1>0, <2>1, <2>2, <2>3, OneCarriesOn
  <1>3. ASSUME NEW q \in Request, NEW page, NEW partial, Open(q, page, partial) PROVE NoneIsLost'
    BY <1>2, <1>3 DEF Open
  <1>17. ASSUME NEW q \in Request, Fetch(q) \/ Submit(q) PROVE NoneIsLost'
    BY <1>2, <1>17 DEF Fetch, Submit
  <1>4. ASSUME NEW q \in Request, Render(q) PROVE NoneIsLost'
    <2>1. asked[q] # Idle /\ answer[q] = Idle /\ asked[q].what = "page" /\ AskFits(asked[q])
      BY <1>0, <1>4 DEF Render, Arrived, Shaped, AskedFits
    <2>2. PICK failed \in Failing(asked[q]) : Answers(q, Rendered(asked[q], Who(q), failed))
      BY <1>4 DEF Render
    <2> DEFINE result == Rendered(asked[q], Who(q), failed)
    <2>3. /\ ResultFits(result, asked[q]) /\ result.kind \in {"page", "failed"}
          /\ answer' = [answer EXCEPT ![q] = result] /\ spoiled' = Spoils(asked[q], result)
      BY <2>1, <2>2, RenderedFits, RenderedIs DEF Answers
    <2>4. UNCHANGED <<asked, messages, seen>>
      BY <1>4 DEF Render
    <2> HIDE DEF result
    <2>5. spoiled \subseteq spoiled'
      BY <2>3 DEF Spoils
    <2>6. \/ result.kind = "page" /\ result.flash = asked[q].cookies.flash
          \/ asked[q].cookies.flash \in spoiled'
      BY <2>1, <2>3 DEF ResultFits, Spoils
    <2> QED
      BY <2>1, <2>3, <2>4, <2>5, <2>6, AnsweredMessages
  <1>5. ASSUME NEW q \in Request, Hit(q) PROVE NoneIsLost'
    <2> DEFINE result == entries[KeyOf(asked[q])]
    <2>1. /\ asked[q] # Idle /\ answer[q] = Idle /\ asked[q].what = "page" /\ AskFits(asked[q])
          /\ Cacheable(asked[q].page, asked[q].cookies)
      BY <1>0, <1>5 DEF Hit, Arrived, Shaped, AskedFits
    <2>2. asked[q].cookies.flash = None /\ EntryFits(result, KeyOf(asked[q]))
      BY <1>0, <1>5, <2>1 DEF Cacheable, Hit, Shaped, EntriesFit
    <2>3. ResultFits(result, asked[q])
      BY <2>1, <2>2, EntryAnswers
    <2>4. UNCHANGED <<asked, messages, seen>> /\ spoiled \subseteq spoiled' /\ answer' = [answer EXCEPT ![q] = result]
      BY <1>5 DEF Hit, Answers, Spoils, counted
    <2> QED
      BY <2>1, <2>2, <2>3, <2>4, AnsweredMessages
  <1>6. ASSUME NEW q \in Request, WriteFragment(q) PROVE NoneIsLost'
    <2>1. PICK result \in Written(asked[q]) : answer' = [answer EXCEPT ![q] = result]
      BY <1>6 DEF WriteFragment, Answers, Written
    <2>2. UNCHANGED <<asked, messages, seen>> /\ spoiled \subseteq spoiled'
      BY <1>6 DEF WriteFragment, Answers, Spoils
    <2>3. asked[q] # Idle /\ answer[q] = Idle /\ asked[q].what = "fragment"
      BY <1>6 DEF WriteFragment, Arrived
    <2>4. ResultFits(result, asked[q])
      BY <1>0, <2>3, WrittenIs DEF Shaped, AskedFits
    <2> QED
      BY <2>1, <2>2, <2>3, <2>4, AnsweredMessages
  <1>7. ASSUME NEW q \in Request, Refuse(q) \/ SubmissionFails(q) PROVE NoneIsLost'
    <2>1. PICK kind \in {"refused", "failed"}, set \in SignedIn(q) : answer' = [answer EXCEPT ![q] = Plain(kind, asked[q], set)]
      BY <1>7 DEF Refuse, SubmissionFails, Answers, SignedIn
    <2>2. UNCHANGED <<asked, messages, seen>> /\ spoiled \subseteq spoiled'
      BY <1>7 DEF Refuse, SubmissionFails, Answers, Spoils, counted
    <2>3. asked[q] # Idle /\ answer[q] = Idle /\ asked[q].what = "submission"
      BY <1>7 DEF Refuse, SubmissionFails, Arrived
    <2>4. ResultFits(Plain(kind, asked[q], set), asked[q])
      BY PlainFits
    <2> QED
      BY <2>1, <2>2, <2>3, <2>4, AnsweredMessages
  <1>8. ASSUME NEW q \in Request, Rerender(q) PROVE NoneIsLost'
    <2>1. PICK failed \in Failing(asked[q]), set \in SignedIn(q) : answer' = [answer EXCEPT ![q] = Again(q, set, failed)]
      BY <1>8 DEF Rerender, Answers
    <2>2. UNCHANGED <<asked, messages, seen>> /\ spoiled \subseteq spoiled'
      BY <1>8 DEF Rerender, Answers, Spoils, counted
    <2>3. asked[q] # Idle /\ answer[q] = Idle /\ asked[q].what = "submission"
      BY <1>8 DEF Rerender, Arrived
    <2>4. ResultFits(Again(q, set, failed), asked[q])
      BY <2>3, AgainFits
    <2> QED
      BY <2>1, <2>2, <2>3, <2>4, AnsweredMessages
  <1>9. ASSUME NEW q \in Request, NEW holder, Reuse(q, holder) PROVE NoneIsLost'
    <2> DEFINE result == Reused(kept[holder])
    <2>1. /\ CopyFits(kept[holder]) /\ answer' = [answer EXCEPT ![q] = result]
          /\ asked[q] # Idle /\ answer[q] = Idle /\ asked[q].what = kept[holder].answer.kind
      BY <1>0, <1>9, ReuseIs
    <2>2. kept[holder].page = asked[q].page
      BY <1>9 DEF Reuse
    <2>3. asked[q].what = "page" => kept[holder].answer.varies
      BY <2>1 DEF CopyFits, KeptPagesVary
    <2>4. asked[q].what = "page" => kept[holder].cookies = asked[q].cookies
      BY <1>9, <2>3 DEF Reuse
    <2>5. UNCHANGED <<asked, messages, seen>> /\ spoiled \subseteq spoiled'
      BY <1>9 DEF Reuse, Answers, Spoils, counted
    <2>6. asked[q].what = "page" => result.kind = "kept" /\ result.flash = asked[q].cookies.flash
      BY <2>1, <2>4, ReusedIs DEF CopyFits
    <2>7. ResultFits(result, asked[q])
      BY <2>1, <2>2, ReusedIs DEF ResultFits
    <2> HIDE DEF result
    <2> QED
      BY <2>1, <2>2, <2>5, <2>6, <2>7, AnsweredMessages
  <1>10. ASSUME NEW q \in Request, Act(q) PROVE NoneIsLost'
    <2>1. PICK set \in SignedIn(q) :
            answer' = [answer EXCEPT ![q] = Plain("redirect", asked[q], Over(Only("flash", messages + 1), set))]
      BY <1>10 DEF Act, Answers
    <2> DEFINE cookies == Over(Only("flash", messages + 1), set)
               result == Plain("redirect", asked[q], cookies)
    <2>2. UNCHANGED <<asked, seen>> /\ spoiled \subseteq spoiled' /\ messages' = messages + 1
      BY <1>10 DEF Act, Answers, Spoils
    <2>3. asked[q] # Idle /\ answer[q] = Idle /\ asked[q].what = "submission"
      BY <1>10 DEF Act, Arrived
    <2>4. cookies.flash = messages + 1
      BY DEF Over, Only
    <2>5. result.kind = "redirect" /\ result.set = cookies /\ result # Idle
      BY PlainIs, ResultIsNotIdle
    <2>6. answer'[q] = result /\ \A r \in Request \ {q} : answer'[r] = answer[r]
      BY <1>0, <2>1 DEF Shaped, Domains
    <2> HIDE DEF cookies, result
    <2>7. PICK next \in Nat : next = messages + 1
      BY <1>0 DEF Shaped, Domains
    <2>8. Carries(q, next)'
      BY <2>4, <2>5, <2>6, <2>7 DEF Carries
    <2>9. ASSUME NEW m \in 1..messages PROVE m \in seen' \cup spoiled' \/ \E r \in Request : Carries(r, m)'
      <3>1. \A r \in Request \ {q} : Carries(r, m) => Carries(r, m)'
        BY <2>2, <2>6 DEF Carries, Shows
      <3>2. ~Carries(q, m)
        BY <2>3 DEF Carries, Shows
      <3> QED
        BY <1>0, <2>2, <3>1, <3>2 DEF NoneIsLost
    <2>10. \A m \in 1..messages' : m = next \/ m \in 1..messages
      BY <1>0, <2>2, <2>7 DEF Shaped, Domains
    <2> SUFFICES ASSUME NEW m \in 1..messages' PROVE m \in seen' \cup spoiled' \/ \E r \in Request : Carries(r, m)'
      BY DEF NoneIsLost
    <2> QED
      BY <2>8, <2>9, <2>10
  <1>11. ASSUME NEW q \in Request, Receive(q) PROVE NoneIsLost'
    <2> DEFINE result == answer[q]
               cookies == Over(answer[q].set, jar[Who(q)])
    <2>1. /\ result # Idle /\ ResultFits(result, asked[q])
          /\ answer' = [answer EXCEPT ![q] = Idle]
          /\ result.kind = "redirect" => asked' = [asked EXCEPT ![q] = Ask("page", Target, 0, cookies, None)]
          /\ result.kind # "redirect" => asked' = [asked EXCEPT ![q] = Idle]
          /\ seen' = seen \cup {result.flash} /\ UNCHANGED <<messages, spoiled>>
      BY <1>0, <1>11, ReceiveIs
    <2>2. DOMAIN asked = Request /\ DOMAIN answer = Request
      BY <1>0 DEF Shaped, Domains
    <2>3. \A r \in Request \ {q} : asked'[r] = asked[r] /\ answer'[r] = answer[r]
      BY <2>1, <2>2
    <2>4. result.kind = "redirect" => cookies.flash = result.set.flash
      BY <2>1 DEF ResultFits, Over
    <2>5. Ask("page", Target, 0, cookies, None) # Idle /\ Ask("page", Target, 0, cookies, None).cookies = cookies
            /\ Ask("page", Target, 0, cookies, None).what = "page"
      BY DEF Ask, Idle
    <2> HIDE DEF cookies, result
    <2>6. ASSUME NEW m, Carries(q, m) PROVE Carries(q, m)' \/ m \in seen'
      <3>1. CASE result.flash = m
        BY <2>1, <3>1
      <3>2. CASE result.kind = "redirect" /\ result.set.flash = m
        <4>1. asked'[q] = Ask("page", Target, 0, cookies, None) /\ answer'[q] = Idle
          BY <2>1, <2>2, <3>2
        <4> QED
          BY <2>4, <2>5, <3>2, <4>1 DEF Carries
      <3> QED
        BY <2>1, <2>6, <3>1, <3>2 DEF Carries, Shows, result
    <2> QED
      BY <1>0, <2>1, <2>3, <2>6, OneCarriesOn
  <1>12. ASSUME NEW key \in DOMAIN flight, Land(key) PROVE NoneIsLost'
    <2> DEFINE leader == flight[key]
               ask == asked[leader]
    <2>0. PICK failed \in SUBSET Running(ask.page, ask.level), joined \in SUBSET Request :
            LET value == Rendered(ask, Who(leader), failed)
            IN  /\ \A q \in joined : /\ Arrived(q, "page") /\ Cacheable(asked[q].page, asked[q].cookies)
                                     /\ KeyOf(asked[q]) = key /\ q # leader
                /\ answer' = [q \in Request |-> IF q = leader THEN value
                                                 ELSE IF q \in joined THEN Shared(value) ELSE answer[q]]
                /\ entries' = Stored(key, value)
                /\ flight' = [k \in DOMAIN flight \ {key} |-> flight[k]]
                /\ UNCHANGED <<browser, refreshing, asked, counted, noted>>
      BY <1>0, <1>12, LandIs
    <2>1. leader \in Request /\ Arrived(leader, "page") /\ ask.cookies.flash = None
      BY <1>0 DEF Shaped, FlightsFit, Cacheable
    <2>2. \A q \in joined : Arrived(q, "page") /\ asked[q].cookies.flash = None
      BY <2>0 DEF Cacheable
    <2>3. UNCHANGED <<asked, messages, seen, spoiled>>
      BY <2>0 DEF counted, noted
    <2>4. \A r \in Request \ (joined \cup {leader}) : asked'[r] = asked[r] /\ answer'[r] = answer[r]
      BY <2>0, <2>3
    <2>5. \A m \in 1..messages : m # None
      BY <1>0 DEF SiteIsWellFormed, Shaped, Domains
    <2>6. \A r \in joined \cup {leader}, m \in 1..messages : ~Carries(r, m)
      BY <2>1, <2>2, <2>5 DEF Carries, Shows, Arrived
    <2>7. joined \cup {leader} \in SUBSET Request
      BY <2>1
    <2> QED
      BY <1>0, <2>3, <2>4, <2>6, <2>7, CarriedOn
  <1>13. CASE UNCHANGED vars
    BY <1>1, <1>13 DEF vars
  <1>14. ASSUME NEW q \in Request, Lead(q) PROVE NoneIsLost'
    BY <1>1, <1>14 DEF Lead, counted, noted
  <1>15. ASSUME NEW job \in refreshing, Refresh(job) PROVE NoneIsLost'
    BY <1>1, <1>15 DEF Refresh, counted, noted
  <1>16. ASSUME NEW key \in DOMAIN entries, Expire(key) PROVE NoneIsLost'
    BY <1>1, <1>16 DEF Expire, counted, noted
  <1> QED
    BY <1>3, <1>4, <1>5, <1>6, <1>7, <1>8, <1>9, <1>10, <1>11, <1>12, <1>13, <1>14, <1>15, <1>16, <1>17 DEF Next

(* TakeFlash: a message is shown only to the request that brings it, and   *)
(* it is seen unless a page it should have been on failed, for any number  *)
(* of browsers and tabs, where kept answers vary by cookie.                *)
THEOREM MessagesAreShown ==
  ASSUME SiteIsWellFormed, KeptPagesVary PROVE Spec => []MessagesReachTheirVisitor
  <1>1. Init => MessageInv
    BY MessagesInitially
  <1>2. MessageInv /\ [Next]_vars => MessageInv'
    BY MessagesStay
  <1>3. MessageInv => MessagesReachTheirVisitor
    BY DEF MessageInv, Shaped, AnswersFit, ResultFits, NoneIsLost, Carries, MessagesReachTheirVisitor, OnItsWay
  <1> QED
    BY <1>1, <1>2, <1>3, PTL DEF Spec
-----------------------------------------------------------------------------
(* A key tells apart all visits that are not alike: lists have no text,    *)
(* and of the template there is but the name.                              *)
LEMMA KeysOfTheAlike ==
  ASSUME NEW v \in Visit, NEW w \in Visit, F!KeyOf(v) = F!KeyOf(w)
  PROVE  F!Alike(v, w)
  <1> DEFINE textsV == [p \in v.fragment.reads |-> F!Text(p, v.props[p])]
             textsW == [p \in w.fragment.reads |-> F!Text(p, w.props[p])]
  <1>1. v.fragment.name = w.fragment.name /\ v.locale = w.locale /\ textsV = textsW
    BY DEF F!KeyOf
  <1>2. v.fragment.reads = w.fragment.reads
    BY <1>1
  <1>3. ASSUME "scalar" \in v.fragment.reads PROVE v.props["scalar"] = w.props["scalar"]
    <2>1. textsV["scalar"] = F!Text("scalar", v.props["scalar"])
      BY <1>3
    <2>2. textsW["scalar"] = F!Text("scalar", w.props["scalar"])
      BY <1>2, <1>3
    <2> HIDE DEF textsV, textsW
    <2> QED
      BY <1>1, <2>1, <2>2 DEF F!Text
  <1> QED
    BY <1>1, <1>2, <1>3 DEF F!Alike

(* An entry is what a visit under its key rendered whose answer was shared *)
(* or whose mark nobody could read, and so is what a request was given,    *)
(* unless it rendered that itself.                                         *)
SavedBy(k, b) == \E v \in Visit : F!KeyOf(v) = k /\ b = F!Bytes(v) /\ F!Shared(v)

EntriesWereShared == \A k \in DOMAIN fragments : SavedBy(k, fragments[k].value)

BytesWereShared ==
  \A r \in Goroutine :
    bytes[r] \in {F!NoBytes, F!Bytes(visit[r])} \/ SavedBy(F!KeyOf(visit[r]), bytes[r])

FInv ==
  /\ visit \in [Goroutine -> Visit]
  /\ DOMAIN bytes = Goroutine
  /\ EntriesWereShared
  /\ BytesWereShared

LEMMA InitFInv == F!Init => FInv
  <1> SUFFICES ASSUME F!Init PROVE FInv
    OBVIOUS
  <1>1. PICK v \in Visit : visit = [r \in Goroutine |-> v]
    BY DEF F!Init
  <1>2. bytes = [r \in Goroutine |-> F!NoBytes]
    BY DEF F!Init
  <1>3. fragments = [k \in {} |-> {}]
    BY DEF F!Init, F!AbsInit
  <1> QED
    BY <1>1, <1>2, <1>3 DEF FInv, EntriesWereShared, BytesWereShared

(* Entries that go leave the others as they are.                           *)
LEMMA RemoveKeepsShared ==
  ASSUME EntriesWereShared, NEW S, F!Remove(S)
  PROVE  EntriesWereShared'
  BY DEF EntriesWereShared, SavedBy, F!Remove, F!Without

LEMMA PutKeepsShared ==
  ASSUME EntriesWereShared, NEW v \in Visit, F!Shared(v), NEW p, F!Put(F!KeyOf(v), F!Bytes(v), p)
  PROVE  EntriesWereShared'
  <1> SUFFICES ASSUME NEW k \in DOMAIN fragments' PROVE SavedBy(k, fragments'[k].value)
    BY DEF EntriesWereShared, SavedBy
  <1>1. CASE k = F!KeyOf(v)
    <2>1. fragments'[k].value = F!Bytes(v)
      BY <1>1 DEF F!Put, F!EntryOf
    <2> QED
      BY <1>1, <2>1 DEF SavedBy
  <1>2. CASE k # F!KeyOf(v)
    BY <1>2 DEF F!Put, EntriesWereShared
  <1> QED
    BY <1>1, <1>2

LEMMA NextFInv == ASSUME FInv, [F!Next]_F!vars PROVE FInv'
  <1>1. ASSUME NEW r \in Goroutine, NEW v \in Visit, F!Arrive(r, v) PROVE FInv'
    <2>1. visit' = [visit EXCEPT ![r] = v] /\ bytes' = [bytes EXCEPT ![r] = F!NoBytes] /\ fragments' = fragments
      BY <1>1 DEF F!Arrive, F!absVars
    <2>2. EntriesWereShared'
      BY <2>1 DEF FInv, EntriesWereShared, SavedBy
    <2>3. BytesWereShared'
      BY <2>1 DEF FInv, BytesWereShared, SavedBy
    <2> QED
      BY <2>1, <2>2, <2>3 DEF FInv
  <1>2. ASSUME NEW r \in Goroutine, F!LoadHit(r) PROVE FInv'
    <2>1. /\ F!KeyOf(visit[r]) \in DOMAIN fragments /\ UNCHANGED <<fragments, visit>>
          /\ bytes' = [bytes EXCEPT ![r] = fragments[F!KeyOf(visit[r])].value]
      BY <1>2 DEF F!LoadHit
    <2>2. SavedBy(F!KeyOf(visit[r]), fragments[F!KeyOf(visit[r])].value)
      BY <2>1 DEF FInv, EntriesWereShared
    <2>3. EntriesWereShared'
      BY <2>1 DEF FInv, EntriesWereShared, SavedBy
    <2>4. BytesWereShared'
      BY <2>1, <2>2 DEF FInv, BytesWereShared, SavedBy
    <2> QED
      BY <2>1, <2>3, <2>4 DEF FInv
  <1>3. ASSUME UNCHANGED <<visit, bytes>>, EntriesWereShared' PROVE FInv'
    BY <1>3 DEF FInv, BytesWereShared, SavedBy
  <1>4. ASSUME UNCHANGED <<visit, bytes>>, fragments' = fragments PROVE FInv'
    BY <1>3, <1>4 DEF FInv, EntriesWereShared, SavedBy
  <1>5. ASSUME NEW r \in Goroutine, F!LoadMiss(r) PROVE FInv'
    <2>1. CASE fragments' = fragments
      BY <1>4, <1>5, <2>1 DEF F!LoadMiss
    <2>2. CASE F!Remove({F!KeyOf(visit[r])})
      BY <1>3, <1>5, <2>2, RemoveKeepsShared DEF F!LoadMiss, FInv
    <2> QED
      BY <1>5, <2>1, <2>2 DEF F!LoadMiss, F!absVars
  <1>6. ASSUME NEW r \in Goroutine, F!RenderFails(r) PROVE FInv'
    BY <1>4, <1>6 DEF F!RenderFails
  <1>7. ASSUME NEW r \in Goroutine, F!Render(r) PROVE FInv'
    <2> DEFINE v == visit[r]
               life == [ttl |-> v.fragment.ttl, stale |-> v.fragment.stale]
    <2>1. v \in Visit
      BY DEF FInv
    <2>2. bytes' = [bytes EXCEPT ![r] = F!Bytes(v)] /\ visit' = visit
      BY <1>7 DEF F!Render
    <2>3. EntriesWereShared'
      <3>1. CASE fragments' = fragments
        BY <3>1 DEF FInv, EntriesWereShared, SavedBy
      <3>2. CASE F!Remove({F!KeyOf(v)})
        BY <3>2, RemoveKeepsShared DEF FInv
      <3>3. CASE F!Put(F!KeyOf(v), F!Bytes(v), life) /\ F!Shared(v)
        <4> HIDE DEF v, life
        <4> QED
          BY <2>1, <3>3, PutKeepsShared DEF FInv
      <3> QED
        BY <1>7, <3>1, <3>2, <3>3 DEF F!Render, F!absVars
    <2>4. BytesWereShared'
      BY <2>2 DEF FInv, BytesWereShared, SavedBy
    <2> QED
      BY <2>2, <2>3, <2>4 DEF FInv
  <1>8. CASE F!Time
    BY <1>4, <1>8 DEF F!Time, F!Pass
  <1>9. ASSUME NEW k \in DOMAIN fragments, F!Evict(k) PROVE FInv'
    BY <1>3, <1>9, RemoveKeepsShared DEF F!Evict, FInv
  <1>10. CASE UNCHANGED F!vars
    BY <1>4, <1>10 DEF F!vars
  <1> QED
    BY <1>1, <1>2, <1>5, <1>6, <1>7, <1>8, <1>9, <1>10 DEF F!Next

LEMMA InvariantOfFragments == F!Spec => []FInv
  BY InitFInv, NextFInv, PTL DEF F!Spec
-----------------------------------------------------------------------------
(* Load and Save: whichever request rendered them and when, the bytes a    *)
(* request gets for a fragment are those of a visit alike, for any         *)
(* fragments (namesakes and readers of lists too), locales and requests.   *)
THEOREM FragmentsAreOfTheAlike == F!Spec => []ServesTheAlike
  <1>1. FInv => ServesTheAlike
    <2> SUFFICES ASSUME FInv, NEW r \in Goroutine, bytes[r] # F!NoBytes
                 PROVE  \E v \in Visit : F!Alike(v, visit[r]) /\ bytes[r] = F!Bytes(v)
      BY DEF ServesTheAlike, F!ServesTheAlike
    <2>1. visit[r] \in Visit
      BY DEF FInv
    <2>2. CASE bytes[r] = F!Bytes(visit[r])
      BY <2>1, <2>2 DEF F!Alike
    <2>3. CASE SavedBy(F!KeyOf(visit[r]), bytes[r])
      <3>1. PICK v \in Visit : F!KeyOf(v) = F!KeyOf(visit[r]) /\ bytes[r] = F!Bytes(v)
        BY <2>3 DEF SavedBy
      <3>2. F!Alike(v, visit[r])
        BY <2>1, <3>1, KeysOfTheAlike
      <3> QED
        BY <3>1, <3>2
    <2> QED
      BY <2>2, <2>3 DEF FInv, BytesWereShared
  <1> QED
    BY <1>1, InvariantOfFragments, PTL

(* Save: what a private render yields whose mark can be read reaches its   *)
(* own visitor alone, whatever the key confuses: what a request gets that  *)
(* is not its own was rendered for an answer left shared, or one whose     *)
(* mark nobody could read, as of a streamed page.                          *)
THEOREM PrivateBytesAreOnesOwn == F!Spec => []PrivateBytesStayOnes
  <1>1. FInv => PrivateBytesStayOnes
    BY DEF FInv, BytesWereShared, SavedBy, PrivateBytesStayOnes, F!PrivateBytesStayOnes
  <1> QED
    BY <1>1, InvariantOfFragments, PTL

(* Either half of the composition is the system its theorems speak of.     *)
THEOREM HalvesOfTheComposition == AnswersSpec => Spec /\ F!Spec
  <1>1. AnswersInit => Init /\ F!Init
    BY DEF AnswersInit
  <1>2. [OfVisits(Next) \/ OfFragments(F!Next)]_<<about, vars, fragmentVars>> => [Next]_vars
    BY DEF OfVisits, OfFragments
  <1>3. UNCHANGED fragmentVars => UNCHANGED F!vars
    BY DEF fragmentVars, F!vars
  <1>4. [OfVisits(Next) \/ OfFragments(F!Next)]_<<about, vars, fragmentVars>> => [F!Next]_F!vars
    BY <1>3 DEF OfVisits, OfFragments
  <1> QED
    BY <1>1, <1>2, <1>4, PTL DEF AnswersSpec, Spec, F!Spec
=============================================================================
