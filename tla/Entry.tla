------------------------------- MODULE Entry -------------------------------
(***************************************************************************)
(* How an address reaches a page: internal/server/entry.go, router.go,     *)
(* internal/vocab, internal/redirect, the hosts of internal/config, and    *)
(* the addresses the server writes itself (PathFor, canonical, hreflang,   *)
(* sitemap).                                                               *)
(*                                                                         *)
(* A path is the sequence of the words between its slashes: "/" is         *)
(* <<Empty>>, "/a/" is <<"a", Empty>>.  "Lower" and "Fold" say what        *)
(* strings.ToLower and the removal of diacritics make of a word.  A        *)
(* browser asks for an address, typed or taken from what the server wrote, *)
(* and follows redirects until something else is answered.  Queries are    *)
(* left out.                                                               *)
(***************************************************************************)
EXTENDS Integers, Sequences, FiniteSets

CONSTANTS Word, Empty, Lower, Fold,
          Configs,     \* the settings a server may have, by a name
          Assets,      \* the word of assets.Prefix
          Hosts,       \* hosts a browser may ask, [name, www]
          Typed,       \* paths it may be given
          Arguments    \* [parameter -> values], a value being a sequence of words

S == INSTANCE SequencesExt

ASSUME WordAssumption == Empty \in Word /\ Lower \in [Word -> Word] /\ Fold \in [Word -> Word]

(* What config.validate accepts: alias words are segments, no two of them  *)
(* become the same, none has two meanings, and no locale collides with     *)
(* another or with a reserved prefix.                                      *)
ValidAliases(words) ==
  /\ Empty \notin DOMAIN words
  /\ \A w \in DOMAIN words :
       /\ words[w] # Empty
       /\ \A other \in DOMAIN words \ {w} : words[other] # words[w] /\ words[other] # w

ValidLocales(c) ==
  LET locales == {c.locales[i] : i \in DOMAIN c.locales}
  IN  /\ c.default \in locales /\ DOMAIN c.aliases = locales
      /\ \A l \in locales : <<l>> \notin c.reserved /\ \A k \in locales \ {l} : Lower[k] # Lower[l]

IsList(q) == q \in Seq({q[i] : i \in DOMAIN q})
IsPath(p) == IsList(p) /\ p # <<>>

ASSUME ConfigAssumption ==
  \A c \in {Configs[i] : i \in DOMAIN Configs} :
    /\ IsList(c.locales) /\ IsList(c.routes) /\ \A r \in DOMAIN c.routes : IsList(c.routes[r])
    /\ ValidLocales(c) /\ \A l \in DOMAIN c.aliases : ValidAliases(c.aliases[l])
    /\ c.mode = "subdomain" => c.hosts # <<>>
    /\ c.normalize.slash \in {"off", "strip", "keep"}
    /\ \A rules \in {c.redirects, c.rewrites} :
         IsList(rules) /\ \A i \in DOMAIN rules : IsList(rules[i].from.words) /\ IsList(rules[i].to.words)

ASSUME AddressAssumption ==
  /\ \A p \in Typed : IsPath(p)
  /\ \A n \in DOMAIN Arguments : \A words \in Arguments[n] : IsList(words)
  /\ \A c \in DOMAIN Configs : \A r \in DOMAIN Configs[c].routes : \A i \in DOMAIN Configs[c].routes[r] :
       LET part == Configs[c].routes[r][i]
       IN  part.kind \in {"word", "one", "all", "rest"} /\ (part.kind # "word" => part.word \in DOMAIN Arguments)

VARIABLES chosen, host, path, goal, hops, outcome

vars == <<chosen, host, path, goal, hops, outcome>>
-----------------------------------------------------------------------------
settings == Configs[chosen]

Root == <<Empty>>

Elements(seq) == {seq[i] : i \in DOMAIN seq}

Reserves(prefixes, p) == \E prefix \in prefixes : S!IsPrefix(prefix, p)

(* strings.Trim(path, "/").                                                *)
Trimmed(p) ==
  LET words == {i \in DOMAIN p : p[i] # Empty}
  IN  IF words = {} THEN <<>>
      ELSE SubSeq(p, CHOOSE i \in words : \A j \in words : i <= j,
                     CHOOSE i \in words : \A j \in words : j <= i)

(* Mutant: a slash is added without a look at the one that is there.       *)
NormaliseTwice(p, rules) == IF rules.slash = "keep" THEN Append(p, Empty) ELSE p

Spell(word, rules) == LET low == IF rules.lower THEN Lower[word] ELSE word IN IF rules.fold THEN Fold[low] ELSE low

Normalise(p, rules) ==
  LET spelled == [i \in DOMAIN p |-> Spell(p[i], rules)]
  IN  IF spelled = Root \/ rules.slash = "off" THEN spelled
      ELSE IF rules.slash = "strip" /\ S!Last(spelled) = Empty THEN S!Front(spelled)
      ELSE IF rules.slash = "keep" /\ S!Last(spelled) # Empty THEN Append(spelled, Empty)
      ELSE spelled

Normalises(rules) == rules.lower \/ rules.fold \/ rules.slash # "off"
-----------------------------------------------------------------------------
(* The table of vocab.New: public words by locale and canonical word.      *)
Translate(words, p) == [i \in DOMAIN p |-> IF p[i] \in DOMAIN words THEN words[p[i]] ELSE p[i]]

(* Mutant: the table back is the table forward.                            *)
BackwardForward(words) == words

Backward(words) == [to \in {words[w] : w \in DOMAIN words} |-> CHOOSE w \in DOMAIN words : words[w] = to]

Public(locale, p) == Translate(settings.aliases[locale], p)
Canonical(locale, p) == Translate(Backward(settings.aliases[locale]), p)

Prefixed(locale) == settings.mode = "path" /\ (locale # settings.default \/ settings.prefixDefault)

Localise(locale, p) ==
  IF ~Prefixed(locale) THEN Public(locale, p)
  ELSE IF p = Root THEN <<locale>> ELSE <<locale>> \o Public(locale, p)
-----------------------------------------------------------------------------
(* split and behind: the locale in front of a path and what is behind it;  *)
(* a locale found only by folding its case is misspelled.                  *)
(*                                                                         *)
(* Mutant: a locale found by folding passes for the one it resembles.      *)
CutUnmarked(p, locale, misspelled) ==
  [locale |-> locale, rest |-> IF Len(p) = 1 THEN Root ELSE Tail(p),
   misspelled |-> FALSE, exempt |-> FALSE]

Cut(p, locale, misspelled) ==
  [locale |-> locale, rest |-> IF Len(p) = 1 THEN Root ELSE Tail(p),
   misspelled |-> misspelled, exempt |-> FALSE]

Whole(p, exempt) == [locale |-> settings.default, rest |-> p, misspelled |-> FALSE, exempt |-> exempt]

Shouted(word) == Lower[word] # word

Split(p) ==
  LET folding == {l \in Elements(settings.locales) : Lower[p[1]] = Lower[l]}
  IN  IF \/ p[1] = Assets /\ Len(p) > 1
         \/ Reserves(settings.reserved, p)
         \/ Normalises(settings.normalize) /\ p \in settings.claimed
      THEN Whole(p, TRUE)
      ELSE IF settings.mode # "path" THEN Whole(p, FALSE)
      ELSE IF p[1] \in Elements(settings.locales) THEN Cut(p, p[1], FALSE)
      ELSE IF folding # {} /\ (Shouted(p[1]) \/ \E l \in Elements(settings.locales) : Shouted(l))
           THEN Cut(p, CHOOSE l \in folding : TRUE, TRUE)
      ELSE Whole(p, FALSE)

NoPath == <<>>

(* route: where the path leads inside, or how it should have been spoken.  *)
Spoken(found, normalised, canonical) ==
  LET answer(rest, spoken) == [locale |-> found.locale, rest |-> rest, spoken |-> spoken]
  IN  IF found.exempt THEN answer(found.rest, NoPath)
      ELSE IF normalised # found.rest \/ found.misspelled
           THEN answer(found.rest, Localise(found.locale, normalised))
      ELSE IF Reserves(settings.reserved, found.rest) THEN answer(found.rest, NoPath)
      ELSE IF Public(found.locale, canonical) # found.rest
           THEN answer(found.rest, Localise(found.locale, canonical))
      ELSE answer(canonical, NoPath)

Behind(found) == Spoken(found, Normalise(found.rest, settings.normalize), Canonical(found.locale, found.rest))
Routed(p) == Behind(Split(p))

(* applyRule, for rules [host, from, to] of words and a wildcard.          *)
Applies(rule, p) == IF rule.from.wild THEN S!IsPrefix(rule.from.words, p) ELSE p = rule.from.words

Applied(rule, p) ==
  LET behind == SubSeq(p, Len(rule.from.words) + 1, Len(p))
      whole == IF rule.from.wild /\ rule.to.wild /\ behind \notin {<<>>, Root}
               THEN rule.to.words \o behind ELSE rule.to.words
  IN  IF whole = <<>> THEN Root ELSE whole

(* redirect.rooted: "//" would name a host.                                *)
Rooted(p) == Len(p) = 1 \/ p[1] # Empty

DefaultLocaleRedirect(p) == settings.mode = "path" /\ ~settings.prefixDefault /\ p[1] = settings.default
-----------------------------------------------------------------------------
(* The router: patterns are sequences of [kind, word], tried from the most *)
(* specific, in the order of the manifest among equals.                    *)
Score(pattern) ==
  100 * Cardinality({i \in DOMAIN pattern : pattern[i].kind \in {"all", "rest"}})
    + 10 * Cardinality({i \in DOMAIN pattern : pattern[i].kind = "one"})

Fits(pattern, asked) ==
  LET all == {i \in DOMAIN pattern : pattern[i].kind \in {"all", "rest"}}
      until == IF all = {} THEN Len(pattern) ELSE (CHOOSE i \in all : \A j \in all : i <= j) - 1
  IN  /\ \A i \in 1..until : /\ i <= Len(asked)
                             /\ pattern[i].kind = "word" => pattern[i].word = asked[i]
      /\ IF all = {} THEN Len(asked) = Len(pattern)
         ELSE pattern[until + 1].kind = "rest" \/ Len(asked) > until

ParamsOf(pattern, asked) ==
  LET named(name) == CHOOSE i \in DOMAIN pattern : pattern[i].kind # "word" /\ pattern[i].word = name
  IN  [name \in {pattern[i].word : i \in {j \in DOMAIN pattern : pattern[j].kind # "word"}} |->
         IF pattern[named(name)].kind = "one" THEN <<asked[named(name)]>>
         ELSE SubSeq(asked, named(name), Len(asked))]

Matching(asked) == {i \in DOMAIN settings.routes : Fits(settings.routes[i], asked)}

MoreSpecific(i, j) ==
  LET mine == Score(settings.routes[i])  other == Score(settings.routes[j])
  IN  mine < other \/ (mine = other /\ i < j)

Page(locale, asked) ==
  LET fitting == Matching(asked)
      best == CHOOSE i \in fitting : \A j \in fitting \ {i} : MoreSpecific(i, j)
  IN  [route |-> best, locale |-> locale, params |-> ParamsOf(settings.routes[best], asked)]

(* Fill: the path of a route with its parameters.                          *)
Fill(pattern, params) ==
  LET parts == S!FlattenSeq([i \in DOMAIN pattern |-> IF pattern[i].kind = "word" THEN <<pattern[i].word>>
                                                      ELSE params[pattern[i].word]])
  IN  IF parts = <<>> THEN Root ELSE parts
-----------------------------------------------------------------------------
(* Hosts: NormalizeHost drops "www.", KnownHost also admits the exact      *)
(* hosts of redirect rules, HostLocale falls back to the default entry.    *)
KnownHost(h) ==
  \/ settings.hosts = <<>>
  \/ \E entry \in Elements(settings.hosts) : entry.pattern = h.name
  \/ \E rule \in Elements(settings.redirects) : rule.host = h

HostLocale(h) ==
  LET named == {e \in Elements(settings.hosts) : e.pattern = h.name}
      default == {e \in Elements(settings.hosts) : e.default}
  IN  IF named # {} THEN (CHOOSE e \in named : TRUE).locale
      ELSE IF default # {} THEN (CHOOSE e \in default : TRUE).locale
      ELSE settings.default

HostFor(locale, h) ==
  LET named == {e \in Elements(settings.hosts) : e.locale = locale}
  IN  IF settings.mode = "subdomain" /\ named # {}
      THEN [name |-> (CHOOSE e \in named : TRUE).pattern, www |-> FALSE] ELSE h

Plain(pattern) == \A i \in DOMAIN pattern : pattern[i].kind = "word"

(* seo.FromRoutes and alternates: routes without parameters, by locale.    *)
Listed == {r \in DOMAIN settings.routes : Plain(settings.routes[r])
             /\ ~Reserves(settings.reserved, Fill(settings.routes[r], <<>>))}

ArgumentsOf(r) ==
  LET names == {settings.routes[r][i].word : i \in {j \in DOMAIN settings.routes[r] :
                                                       settings.routes[r][j].kind # "word"}}
  IN  {params \in [names -> UNION {Arguments[n] : n \in names}] : \A n \in names : params[n] \in Arguments[n]}

Nothing == [status |-> "asking"]
NoGoal == [status |-> "typed"]
Served(page, fair) == [status |-> "page", page |-> page, fair |-> fair]
-----------------------------------------------------------------------------
(* A visitor types an address.                                             *)
Type ==
  /\ host \in Hosts /\ path \in Typed
  /\ goal = NoGoal

(* One follows a link the server wrote: PathFor for any page, or the       *)
(* alternates of a page without parameters, on their own host.             *)
Follow ==
  \E r \in DOMAIN settings.routes, locale \in Elements(settings.locales) :
    \E params \in ArgumentsOf(r), asked \in Hosts :
      /\ KnownHost(asked)
      /\ ~Reserves(settings.reserved, Fill(settings.routes[r], params))
      /\ settings.mode = "path" \/ r \in Listed
      /\ host = HostFor(locale, asked)
      /\ path = Localise(locale, Fill(settings.routes[r], params))
      /\ goal = Served([route |-> r, locale |-> locale, params |-> params], TRUE)

Init ==
  /\ chosen \in DOMAIN Configs
  /\ hops = 0
  /\ outcome = Nothing
  /\ Type \/ Follow

Stop(status) == outcome' = [status |-> status] /\ UNCHANGED <<chosen, host, path, goal, hops>>

(* sendRedirect, and the browser that follows: to a path of this host, or  *)
(* to another host altogether.                                             *)
Send(site, target) ==
  IF site = settings.anyHost /\ ~Rooted(target) THEN Stop("refused")
  ELSE /\ host' = (IF site = settings.anyHost THEN host ELSE site)
       /\ path' = target
       /\ hops' = hops + 1
       /\ UNCHANGED <<chosen, goal, outcome>>

Here(target) == Send(settings.anyHost, target)

Misdirected ==
  /\ outcome = Nothing /\ ~KnownHost(host)
  /\ Stop("misdirected")

RuleOf == S!SelectInSeq(settings.redirects, LAMBDA rule : rule.host \in {settings.anyHost, host} /\ Applies(rule, path))
RewriteOf == S!SelectInSeq(settings.rewrites, LAMBDA rule : Applies(rule, path))

(* reroute: the first rule that applies, or a default locale not wanted.   *)
Reroute ==
  /\ outcome = Nothing /\ KnownHost(host)
  /\ IF RuleOf # 0 THEN Send(settings.redirects[RuleOf].to.host, Applied(settings.redirects[RuleOf], path))
     ELSE /\ DefaultLocaleRedirect(path)
          /\ Here(Cut(path, settings.default, FALSE).rest)

Stays == outcome = Nothing /\ KnownHost(host) /\ RuleOf = 0 /\ ~DefaultLocaleRedirect(path)

Inside == IF RewriteOf = 0 THEN path ELSE Applied(settings.rewrites[RewriteOf], path)

Refuse == Stays /\ ~Rooted(Inside) /\ Stop("refused")

(* locale or hostLocale.                                                   *)
Entered(p) == IF settings.mode = "subdomain"
              THEN [locale |-> HostLocale(host), rest |-> p, spoken |-> NoPath]
              ELSE Routed(p)

Within == {Entered(p) : p \in {q \in {Inside} : Rooted(q)}}

Respell ==
  /\ Stays
  /\ \E entered \in Within : entered.spoken # NoPath /\ Here(entered.spoken)

(* http.ServeMux redirects a path that is not clean to the clean one.      *)
Clean(p) == LET words == S!FlattenSeq([i \in DOMAIN p |-> IF p[i] = Empty THEN <<>> ELSE <<p[i]>>])
            IN  IF S!Last(p) = Empty THEN Append(words, Empty) ELSE words

Arrived == {entered \in Within : Stays /\ entered.spoken = NoPath}

Tidy == \E entered \in Arrived : Clean(entered.rest) # entered.rest /\ Here(Clean(entered.rest))

(* renderPage; what the project or assets.Prefix claims is answered before *)
(* it.  A page reached as asked is "fair".                                 *)
Answer ==
  \E entered \in Arrived :
    /\ Clean(entered.rest) = entered.rest
    /\ IF entered.rest \in settings.claimed \/ (entered.rest[1] = Assets /\ Len(entered.rest) > 1)
       THEN Stop("claimed")
       ELSE IF Matching(Trimmed(entered.rest)) = {} THEN Stop("absent")
       ELSE /\ outcome' = Served(Page(entered.locale, Trimmed(entered.rest)), RewriteOf = 0 /\ ~Reserves(settings.reserved, entered.rest))
            /\ UNCHANGED <<chosen, host, path, goal, hops>>

Settled == outcome # Nothing /\ UNCHANGED vars

Next == Misdirected \/ Reroute \/ Refuse \/ Respell \/ Tidy \/ Answer \/ Settled

Spec == Init /\ [][Next]_vars
-----------------------------------------------------------------------------
(* Whatever is asked, the redirects of rules, locales, spelling and        *)
(* ServeMux come to an end, and soon: one for a rule, one for the default  *)
(* locale, and two for the spelling.                                       *)
VisitsSettle == hops <= 4

(* A link the server writes, followed through all redirects, leads to the  *)
(* page it was written for, in the locale and with the parameters it was   *)
(* written for.                                                            *)
LinksLeadToTheirPage == goal # NoGoal /\ outcome # Nothing => outcome = goal

(* What the sites of OneSpelling are like, which nothing in the code checks:*)
(* a catch-all ends its pattern, no pattern has two parameters of one name, *)
(* and the words that have aliases are spelled as routing.normalize has them.*)
RoutesAreOrderly ==
  \A c \in DOMAIN Configs : \A r \in DOMAIN Configs[c].routes :
    LET pattern == Configs[c].routes[r]
    IN  \A i \in DOMAIN pattern :
          /\ pattern[i].kind \in {"all", "rest"} => i = Len(pattern)
          /\ \A j \in DOMAIN pattern \ {i} :
               pattern[i].kind # "word" /\ pattern[j].kind # "word" => pattern[i].word # pattern[j].word

AliasesAreSpelled ==
  \A c \in DOMAIN Configs : \A l \in DOMAIN Configs[c].aliases : \A w \in DOMAIN Configs[c].aliases[l] :
    Spell(w, Configs[c].normalize) = w

(* A page that is served is served at the one spelling the server itself   *)
(* gives its address.  A default locale is answered with and without its   *)
(* prefix, and the root of a locale with and without its slash.            *)
OneSpelling ==
  outcome.status = "page" /\ outcome.fair /\ settings.mode = "path" /\ settings.normalize.slash # "off" =>
    LET page == outcome.page
        rest == Normalise(Fill(settings.routes[page.route], page.params), settings.normalize)
    IN  path \in {Localise(page.locale, rest), Public(page.locale, rest), <<page.locale, Empty>>}
=============================================================================
