------------------------------ MODULE MCServer ------------------------------
(* The addresses of a site and its sitemap.  Two locales, aliases in one of*)
(* them, every rule of routing.normalize, redirects and a rewrite, and     *)
(* hosts by locale.                                                        *)
EXTENDS Sitemap, TLC

VARIABLE about

MCWord == {"", "en", "EN", "pl", "PL", "about", "About", "onas", "o.nas", "jobs", "kat", "docs", "old", "api", "kit", "faq"}

MCLower == [w \in MCWord |-> CASE w = "EN" -> "en" [] w = "PL" -> "pl" [] w = "About" -> "about" [] OTHER -> w]
MCFold == [w \in MCWord |-> IF w = "o.nas" THEN "onas" ELSE w]

None == [w \in {} |-> ""]
Pattern(words) == [i \in DOMAIN words |-> [kind |-> "word", word |-> words[i]]]
Param(name, kind) == <<[kind |-> kind, word |-> name]>>

(* In the order of the manifest, by pattern.                               *)
MCRoutes == << Pattern(<<>>), Param("page", "one"), Pattern(<<"about">>),
               Pattern(<<"docs">>) \o Param("path", "rest"), Pattern(<<"faq">>) \o Param("path", "all"),
               Pattern(<<"jobs">>) \o Param("slug", "one"), Pattern(<<"jobs", "about">>) >>

AnyHost == [name |-> "", www |-> FALSE]
Site(name) == [name |-> name, www |-> FALSE]
From(words, wild) == [words |-> words, wild |-> wild]
To(to, words, wild) == [host |-> to, words |-> words, wild |-> wild]
Rules == << [host |-> AnyHost, from |-> From(<<"old">>, TRUE), to |-> To(AnyHost, <<"docs">>, TRUE)],
            [host |-> [name |-> "b", www |-> TRUE], from |-> From(<<>>, TRUE), to |-> To(Site("a"), <<>>, TRUE)] >>
Rewrites == << [from |-> From(<<"api", "docs">>, FALSE), to |-> To(AnyHost, <<"docs", "about">>, FALSE)] >>

Base == [mode |-> "path", locales |-> <<"en", "pl">>, default |-> "en", prefixDefault |-> FALSE,
         aliases |-> [l \in {"en", "pl"} |-> IF l = "en" THEN None ELSE ("about" :> "onas" @@ "docs" :> "kat")],
         normalize |-> [slash |-> "off", lower |-> FALSE, fold |-> FALSE],
         reserved |-> {<<"api">>}, claimed |-> {<<"api">>, <<"docs", "About">>}, hosts |-> <<>>, anyHost |-> AnyHost,
         redirects |-> Rules, rewrites |-> Rewrites, routes |-> MCRoutes]

ByHost == [Base EXCEPT !.mode = "subdomain", !.aliases = [l \in {"en", "pl"} |-> None],
             !.hosts = << [pattern |-> "a", locale |-> "en", default |-> TRUE],
                          [pattern |-> "c", locale |-> "pl", default |-> FALSE] >>]

MCConfigs ==
  [c \in [prefix : BOOLEAN, slash : {"off", "strip", "keep"}, lower : BOOLEAN, fold : BOOLEAN] \cup {[mode |-> "hosts"]} |->
     IF "mode" \in DOMAIN c THEN ByHost
     ELSE [Base EXCEPT !.prefixDefault = c.prefix,
                       !.normalize = [slash |-> c.slash, lower |-> c.lower, fold |-> c.fold]]]

MCHosts == {Site("a"), Site("c"), [name |-> "b", www |-> TRUE], Site("b")}
MCTyped == (S!BoundedSeq(MCWord, 2) \ {<<>>})
           \cup {"en", "EN", "pl", "PL"} \X {"", "About", "onas", "jobs"} \X {"", "about", "jobs", "onas"}
MCArguments == [n \in {"slug", "path", "page"} |->
  CASE n = "slug" -> {<<"jobs">>} [] n = "path" -> {<<"about">>, <<"jobs", "about">>} [] n = "page" -> {<<"jobs">>, <<"kit">>}]
-----------------------------------------------------------------------------
(* Paths as strings, shorter first: the words in the order of their letters*)
Alphabet == <<"", "about", "faq", "jobs", "onas", "pl">>
Rank(w) == CHOOSE i \in DOMAIN Alphabet : Alphabet[i] = w
MCBefore(one, other) ==
  \/ S!IsStrictPrefix(one, other)
  \/ \E i \in DOMAIN one \cap DOMAIN other : /\ \A j \in 1..i - 1 : one[j] = other[j]
                                             /\ Rank(one[i]) < Rank(other[i])

(* /about and /jobs/about have a Meta, /jobs/[slug] a Sitemap.             *)
MCManners == {[h \in {3, 6, 7} |-> CASE h = 3 -> "tagged" [] h = 6 -> given [] h = 7 -> meta] :
                given \in {"tagged", "timed"}, meta \in {"private", "timed"}}
             \cup {[h \in {3, 6, 7} |-> IF h = 6 THEN "private" ELSE "tagged"]}

(* The site is one OneSpelling is proved for.                              *)
ASSUME MCSpelledSites == RoutesAreOrderly /\ AliasesAreSpelled

MCSites == {[prefix |-> FALSE, slash |-> "off", lower |-> FALSE, fold |-> FALSE], [mode |-> "hosts"]}
NoWeb == site = [robots |-> <<>>, pages |-> <<>>] /\ broken = <<>> /\ derived = <<>> /\ manner = <<>> /\ document = 0 /\ store = NoDocument /\ now = 0 /\ changes = 0 /\ seen = Unseen
NoVisit == host = Site("a") /\ path = Root /\ goal = NoGoal /\ hops = 0 /\ outcome = Nothing

ServerInit ==
  \/ about = "address" /\ Init /\ NoWeb
  \/ about = "sitemap" /\ chosen \in Sites /\ NoVisit /\ WebInit

ServerNext ==
  \/ about = "address" /\ Next /\ UNCHANGED <<about, webVars>>
  \/ about = "sitemap" /\ WebNext /\ UNCHANGED <<about, vars>>

ServerSpec == ServerInit /\ [][ServerNext]_<<about, vars, webVars>>

(* The properties of Sitemap where there is one.                           *)
ShardsAreWhole == about = "sitemap" => ShardsHoldTheSite
SitemapIsTrue == about = "sitemap" => SitemapTellsTheSite
=============================================================================
