------------------------------ MODULE Settings ------------------------------
(***************************************************************************)
(* gopage.json: Parse of internal/config/config.go with normalize and      *)
(* validate, and the accessors the rest of the program reads the settings  *)
(* through.  What Entry needs of aliases and locales is checked there.     *)
(*                                                                         *)
(* Settings are written by kind: a choice among words, a size in bytes, a  *)
(* span of time, a number.  "Unset" is a key that is not there, "Junk" a   *)
(* text that does not parse, "other" a word the program does not know.     *)
(***************************************************************************)
EXTENDS Integers, Sequences, FiniteSets

CONSTANTS Unset, Junk,
          Unit,        \* [suffix of a size -> bytes]
          Width,       \* bits of an int
          Locale, Lower,  \* names of locales and reserved words, their case folded
          DefaultReserved

S == INSTANCE SequencesExt
-----------------------------------------------------------------------------
Choices ==
  [engine |-> {"plain", "tailwind"}, scheme |-> {"http", "https"}, react |-> {"react", "preact"},
   deferred |-> {"inline", "tail", "fetch"}, sitemap |-> {"auto", "off"}, probe |-> {"meta", "off"},
   robots |-> {"auto", "off"}, frequency |-> {"always", "daily", "never"},
   slash |-> {"off", "strip", "keep"}, case |-> {"off", "lower"}, marks |-> {"off", "fold"},
   images |-> {"on", "off"}, locales |-> {"path", "subdomain", "single"}, nav |-> {"off", "partial"}]

Spans == {"budget", "sitemapTTL", "sitemapStale", "robotsTTL", "robotsStale", "imagesTTL"}
Numbers == {"connections", "variants", "limit", "priority", "quality", "width", "crawlDelay"}

DefaultInlineLimit == 4 * Unit.kb
DefaultMaxBodySize == 8 * Unit.mb
DefaultSitemapLimit == 50
DefaultTTL == 60
DefaultStale == 1440
MaxImageWidth == 40
DefaultQuality == 75
DefaultVariants == 16

(* Default, on which the file is decoded.                                  *)
Default ==
  [choice |-> [f \in DOMAIN Choices |-> CASE f = "deferred" -> "fetch" [] f = "sitemap" -> "auto"
                 [] f = "probe" -> "meta" [] f = "robots" -> "auto" [] f = "locales" -> "path" [] OTHER -> Unset],
   size |-> [f \in {"inline", "body"} |-> Unset],
   span |-> [f \in Spans |-> Unset],
   number |-> [f \in Numbers |-> CASE f = "variants" -> DefaultVariants [] f = "limit" -> DefaultSitemapLimit
                 [] OTHER -> 0],
   names |-> <<"en">>, default |-> "en", prefixDefault |-> FALSE, zone |-> "utc",
   reserved |-> DefaultReserved, cookies |-> {}, hosts |-> <<>>, redirects |-> <<>>, rewrites |-> <<>>]

(* A host as it is spelled, BareHost and NormalizeHost.  A text behind a   *)
(* colon is a port only if it is digits.                                   *)
BareHost(host) == [host EXCEPT !.upper = FALSE, !.port = IF @ = Junk THEN Junk ELSE Unset]

NormalizeHost(host) == [BareHost(host) EXCEPT !.www = FALSE]

Fill(value, filled) == IF value = Unset THEN filled ELSE value
FillZero(value, filled) == IF value = 0 THEN filled ELSE value

Normalized(c) ==
  LET names == IF c.names = <<>> THEN <<Fill(c.default, "en")>> ELSE c.names
      default == Fill(c.default, "en")
  IN  [c EXCEPT
        !.number.variants = FillZero(@, DefaultVariants), !.number.limit = FillZero(@, DefaultSitemapLimit),
        !.choice.deferred = Fill(@, "fetch"), !.choice.locales = Fill(@, "path"),
        !.choice.nav = Fill(@, "off"), !.choice.sitemap = Fill(@, "auto"),
        !.choice.probe = Fill(@, "meta"), !.choice.robots = Fill(@, "auto"),
        !.default = default,
        !.names = IF S!Contains(names, default) THEN names ELSE <<default>> \o names,
        !.reserved = IF @ = {} THEN DefaultReserved ELSE @,
        !.redirects = [i \in DOMAIN @ |-> [@[i] EXCEPT !.status = FillZero(@, 301),
                                                        !.host = IF @ = Unset THEN @ ELSE BareHost(@)]],
        !.hosts = [i \in DOMAIN @ |-> [@[i] EXCEPT !.pattern = NormalizeHost(@)]]]
-----------------------------------------------------------------------------
(* parseSize, in the arithmetic of an int.                                 *)
Wrapped(n) == ((n + 2 ^ (Width - 1)) % 2 ^ Width) - 2 ^ (Width - 1)

Parses(size) == size # Junk /\ size.digits >= 0
ParseSize(size) == Wrapped(size.digits * Unit[size.unit])

ValidSpan(span) == span = Unset \/ (span # Junk /\ span >= 0)

(* Mutant: a budget is not asked for the mode it is written with.          *)
ValidFragmentsAnyMode(c) ==
  c.span.budget = Unset \/ (c.span.budget # Junk /\ c.span.budget > 0)

ValidFragments(c) ==
  \/ c.span.budget = Unset
  \/ c.choice.deferred = "tail" /\ c.span.budget # Junk /\ c.span.budget > 0

ValidCSS(c) == c.size.inline = Unset \/ Parses(c.size.inline)

ValidSecurity(c) ==
  /\ c.number.connections >= 0 /\ Junk \notin c.cookies
  /\ c.size.body = Unset \/ (Parses(c.size.body) /\ ParseSize(c.size.body) # 0)

ValidSitemap(c) ==
  /\ c.number.limit \in 0..DefaultSitemapLimit /\ c.number.priority \in 0..1
  /\ ValidSpan(c.span.sitemapTTL) /\ ValidSpan(c.span.sitemapStale)

ValidRobots(c) ==
  ValidSpan(c.span.robotsTTL) /\ ValidSpan(c.span.robotsStale) /\ c.number.crawlDelay >= 0

ValidImages(c) ==
  /\ c.number.quality \in 0..100 /\ c.number.width \in 0..MaxImageWidth
  /\ ValidSpan(c.span.imagesTTL)

Reserves(c, word) == word \in c.reserved

ValidLocales(c) ==
  \A i, j \in DOMAIN c.names :
    ~Reserves(c, c.names[i]) /\ (i # j => Lower[c.names[i]] # Lower[c.names[j]])

ValidRules(c) ==
  /\ \A i \in DOMAIN c.redirects : c.redirects[i].status \in 300..399
  /\ c.choice.locales = "subdomain" => c.hosts # <<>>

Valid(c) ==
  /\ \A f \in DOMAIN Choices : c.choice[f] \in Choices[f] \cup {Unset}
  /\ c.number.variants >= 0 /\ c.zone # Junk
  /\ ValidFragments(c) /\ ValidSecurity(c) /\ ValidCSS(c) /\ ValidSitemap(c) /\ ValidRobots(c)
  /\ ValidImages(c) /\ ValidLocales(c) /\ ValidRules(c)
-----------------------------------------------------------------------------
(* What the program reads.                                                 *)
Sized(size, default) == IF size = Unset \/ ~Parses(size) THEN default ELSE ParseSize(size)

Inline(c) == Sized(c.size.inline, DefaultInlineLimit)
MaxBody(c) == Sized(c.size.body, DefaultMaxBodySize)

Wait(c) ==
  IF c.choice.deferred # "tail" THEN 0
  ELSE IF c.span.budget \in {Unset, Junk} \/ c.span.budget <= 0 THEN -1 ELSE c.span.budget

Freshness(ttl, stale) ==
  LET read(span, default) == IF span \in {Unset, Junk} \/ span < 0 THEN default ELSE span
  IN  <<read(ttl, DefaultTTL), read(stale, DefaultStale)>>

Entries(c) == IF c.number.limit \in 1..DefaultSitemapLimit THEN c.number.limit ELSE DefaultSitemapLimit

Sharpness(c) == IF c.number.quality \in 1..100 THEN c.number.quality ELSE DefaultQuality

Prefixes(c) ==
  IF c.choice.locales # "path" THEN {}
  ELSE {l \in {c.names[i] : i \in DOMAIN c.names} : l # c.default \/ c.prefixDefault}

HostLocale(c, host) ==
  LET named == {i \in DOMAIN c.hosts : c.hosts[i].pattern = NormalizeHost(host)}
      fallen == {i \in DOMAIN c.hosts : c.hosts[i].default}
      first(indices) == CHOOSE i \in indices : \A j \in indices : i <= j
  IN  IF named # {} THEN c.hosts[first(named)].locale
      ELSE IF fallen # {} THEN c.hosts[first(fallen)].locale ELSE c.default

KnownHost(c, host) ==
  \/ c.hosts = <<>>
  \/ \E i \in DOMAIN c.hosts : c.hosts[i].pattern = NormalizeHost(host)
  \/ \E i \in DOMAIN c.redirects : c.redirects[i].host = BareHost(host)
-----------------------------------------------------------------------------
(* What a reader of the file takes the settings for.                       *)
Bytes(size) == size.digits * Unit[size.unit]
Fits(size) == size = Unset \/ (size # Junk /\ Bytes(size) < 2 ^ (Width - 1))

MeansSizes(c) ==
  /\ c.size.inline = Unset \/ Inline(c) = Bytes(c.size.inline)
  /\ c.size.body = Unset \/ (MaxBody(c) = Bytes(c.size.body) /\ MaxBody(c) > 0)

MeansSpans(c) ==
  LET as(span, read) == span = Unset \/ read = span
      sitemap == Freshness(c.span.sitemapTTL, c.span.sitemapStale)
      robots == Freshness(c.span.robotsTTL, c.span.robotsStale)
  IN  /\ as(c.span.budget, Wait(c))
      /\ as(c.span.sitemapTTL, sitemap[1]) /\ as(c.span.sitemapStale, sitemap[2])
      /\ as(c.span.robotsTTL, robots[1]) /\ as(c.span.robotsStale, robots[2])
      /\ as(c.span.imagesTTL, Freshness(c.span.imagesTTL, Unset)[1])

MeansNumbers(c) ==
  /\ c.number.limit = 0 \/ Entries(c) = c.number.limit
  /\ c.number.quality = 0 \/ Sharpness(c) = c.number.quality

(* Every host named is answered, under its own locale, and the words in    *)
(* front of addresses lead to one locale each and nowhere else.            *)
MeansHosts(c, written) ==
  /\ \A i \in DOMAIN written.hosts :
       LET host == written.hosts[i].pattern
           twins == {j \in DOMAIN written.hosts : NormalizeHost(written.hosts[j].pattern) = NormalizeHost(host)}
       IN  KnownHost(c, host) /\ (twins = {i} => HostLocale(c, host) = written.hosts[i].locale)
  /\ \A i \in DOMAIN written.redirects :
       written.redirects[i].host # Unset => KnownHost(c, written.redirects[i].host)
  /\ \A l, k \in Prefixes(c) : ~Reserves(c, l) /\ (l # k => Lower[l] # Lower[k])
  /\ c.choice.locales = "path" => Cardinality(Prefixes(c)) >= Len(c.names) - 1

Accepted(written) == Valid(Normalized(written))

Means(written) ==
  LET c == Normalized(written)
  IN  /\ Fits(written.size.inline) /\ Fits(written.size.body) => MeansSizes(c)
      /\ MeansSpans(written) /\ MeansSpans(c) /\ MeansNumbers(written) /\ MeansHosts(c, written)
=============================================================================
