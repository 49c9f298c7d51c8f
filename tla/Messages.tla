------------------------------ MODULE Messages ------------------------------
(***************************************************************************)
(* Translated messages: the catalogs under locales/ (internal/i18n), what  *)
(* the compiler makes of the calls of t(), ctx.T, ctx.Count and of the     *)
(* filter "relative" (compile/message.go, gomessages.go), what a visitor   *)
(* is shown (runtime/message.go, server/translate.go), and the audit and   *)
(* the snippets of "gopage i18n" (cmd/gopage/i18n.go).                     *)
(*                                                                         *)
(* A key is the sequence of the names between its dots.  A text is a       *)
(* sequence of atoms, <<"word", w>> or the placeholder <<"hole", name>>.   *)
(* A JSON value is a text, a table of values, or something else.  A count  *)
(* is <<"number", n>> in halves, <<"text", w>> or Nil.  A site is          *)
(* [locales, default, files, legacy, calls, relative]; a call is           *)
(* [key, by, counted, args].                                               *)
(***************************************************************************)
EXTENDS Integers, Sequences, FiniteSets, SequencesExt

CONSTANTS Base,             \* the language of a locale
          RelativeNow,      \* the key of a moment that is now
          RelativeUnits,    \* the keys of the spans a moment is away
          Nil               \* the count of a field that holds nothing

TextValue(text) == [sort |-> "text", text |-> text]
Table(of) == [sort |-> "table", of |-> of]
OtherValue == [sort |-> "other"]
NoTable == [name \in {} |-> OtherValue]

Forms == {"zero", "one", "two", "few", "many", "other"}
Hole(name) == <<"hole", name>>
KeyText(key) == <<<<"key", key>>>>
-----------------------------------------------------------------------------
(* The plural rules, over counts in halves.                                *)
Whole(n) == n % 2 = 0
Magnitude(n) == (IF n < 0 THEN -n ELSE n) \div 2
Few(count) == count % 10 \in 2..4 /\ count % 100 \notin 12..14

English(n) == IF n = 2 THEN "one" ELSE "other"
French(n) == IF n >= 0 /\ n < 4 THEN "one" ELSE "other"
Polish(n) ==
  CASE ~Whole(n) -> "other" [] Whole(n) /\ Magnitude(n) = 1 -> "one" [] Whole(n) /\ Few(Magnitude(n)) -> "few" [] OTHER -> "many"
Czech(n) ==
  CASE ~Whole(n) -> "many" [] Whole(n) /\ Magnitude(n) = 1 -> "one" [] Whole(n) /\ Magnitude(n) \in 2..4 -> "few" [] OTHER -> "other"
Russian(n) ==
  CASE ~Whole(n) -> "other"
    [] Whole(n) /\ Magnitude(n) % 10 = 1 /\ Magnitude(n) % 100 # 11 -> "one"
    [] Whole(n) /\ Few(Magnitude(n)) -> "few"
    [] OTHER -> "many"

RuleFor(locale, n) ==
  CASE Base[locale] = "fr" -> French(n)
    [] Base[locale] = "pl" -> Polish(n)
    [] Base[locale] \in {"cs", "sk"} -> Czech(n)
    [] Base[locale] \in {"ru", "uk"} -> Russian(n)
    [] Base[locale] \in {"ja", "zh", "ko", "vi", "tr"} -> "other"
    [] OTHER -> English(n)
-----------------------------------------------------------------------------
(* Catalogs: a table whose names are all forms and whose values are all    *)
(* texts is one message, any other table a branch of keys.                 *)
Plural(table) ==
  /\ DOMAIN table # {}
  /\ \A name \in DOMAIN table : name \in Forms /\ table[name].sort = "text"

RECURSIVE Broken(_), Collect(_, _)
Broken(table) ==
  /\ ~Plural(table)
  /\ \E name \in DOMAIN table :
       table[name].sort = "other" \/ (table[name].sort = "table" /\ Broken(table[name].of))

Collect(prefix, table) ==
  IF Plural(table) THEN {[key |-> prefix, forms |-> [form \in DOMAIN table |-> table[form].text]]}
  ELSE UNION {LET value == table[name] key == Append(prefix, name)
              IN  IF value.sort = "text" THEN {[key |-> key, forms |-> [form \in {"other"} |-> value.text]]}
                  ELSE Collect(key, value.of) : name \in DOMAIN table}

Parse(table) ==
  LET found == Collect(<<>>, table)
  IN  [key \in {m.key : m \in found} |-> (CHOOSE m \in found : m.key = key).forms]

Loads(site) == \A locale \in DOMAIN site.files : ~Broken(site.files[locale])
Load(site) == [locale \in DOMAIN site.files |-> Parse(site.files[locale])]

IsPlural(forms) == DOMAIN forms # {"other"}
Has(catalogs, locale, key) == locale \in DOMAIN catalogs /\ key \in DOMAIN catalogs[locale]
-----------------------------------------------------------------------------
(* What the compiler notes: the calls of templates, those of Go code whose *)
(* key is a literal, and all keys of the filter.                           *)
MessageCalls(site) == {call \in site.calls : call.by = "t"}
GoMessages(site) == {call \in site.calls : call.by = "go"}
RelativeKeys(site) ==
  IF ~site.relative THEN {}
  ELSE {[key |-> key, by |-> "relative", counted |-> FALSE, args |-> <<>>] : key \in RelativeUnits \cup {RelativeNow}}

Uses(site) == MessageCalls(site) \cup GoMessages(site) \cup RelativeKeys(site)
Keys(site) == {use.key : use \in Uses(site)}

Implicit(use) == use.by = "relative"
Wanted(text) == {text[i][2] : i \in {j \in DOMAIN text : text[j][1] = "hole"}}

(* Mutant: every call is taken to pass a count.                            *)
GivenCount(use) == ToSet(use.args) \cup {"count"}

Given(use) == ToSet(use.args) \cup (IF use.counted \/ Implicit(use) THEN {"count"} ELSE {})

(* C604: a placeholder no argument fills, or an argument without one.      *)
CheckArguments(site, key, text) ==
  {<<"C604", use>> : use \in {u \in Uses(site) : u.key = key /\
     (~(Wanted(text) \subseteq Given(u)) \/ (~Implicit(u) /\ ~(ToSet(u.args) \subseteq Wanted(text))))}}

(* The catalog a key's message is taken from: the locale's, or that of the *)
(* default, or none.                                                       *)
Holders(site, catalogs, locale, key) ==
  IF Has(catalogs, locale, key) THEN {locale} ELSE {l \in {site.default} : Has(catalogs, l, key)}

(* C601 of a key: the check is strict as soon as there is any catalog.     *)
Untranslated(site, catalogs, locale) ==
  {<<"C601", key>> : key \in {k \in Keys(site) : DOMAIN catalogs # {} /\ ~Has(catalogs, locale, k)}}

BuildCatalog(site, catalogs, locale) ==
  [key \in Keys(site) |->
     [form \in Forms |->
        LET holders == Holders(site, catalogs, locale, key)
        IN  IF holders = {} THEN IF form = "other" THEN KeyText(key) ELSE <<>>
            ELSE LET forms == catalogs[CHOOSE l \in holders : TRUE][key]
                 IN  IF form \in DOMAIN forms THEN forms[form] ELSE <<>>]]

ArgumentReports(site, catalogs, locale) ==
  UNION {UNION {CheckArguments(site, key, catalogs[l][key][form]) : form \in DOMAIN catalogs[l][key]} :
           <<key, l>> \in {<<k, h>> \in Keys(site) \X DOMAIN catalogs : h \in Holders(site, catalogs, locale, k)}}

(* C602: one side has forms and the other has no count.                    *)
CheckPlurals(site, catalogs) ==
  {<<"C602", use>> : use \in {u \in Uses(site) : ~Implicit(u) /\
     \E locale \in site.locales : Has(catalogs, locale, u.key) /\ IsPlural(catalogs[locale][u.key]) # u.counted}}

(* C603 of a file in the old format, and C601 of one that is not there.    *)
Legacies(site) == {<<"C603", name>> : name \in site.legacy}

ReportMissingCatalogs(site) ==
  IF DOMAIN site.files = {} /\ Cardinality(site.locales) < 2 THEN {}
  ELSE {<<"C601 file", locale>> : locale \in site.locales \ DOMAIN site.files}

Reports(site) ==
  LET catalogs == Load(site)
  IN  ReportMissingCatalogs(site) \cup Legacies(site) \cup CheckPlurals(site, catalogs)
      \cup UNION {Untranslated(site, catalogs, l) \cup ArgumentReports(site, catalogs, l) : l \in site.locales}

Accepted(site) == Loads(site) /\ Reports(site) = {}
-----------------------------------------------------------------------------
(* What is shown.                                                          *)
Filled(text, name, by) == [i \in DOMAIN text |-> IF text[i] = Hole(name) THEN by ELSE text[i]]
Substitute(text, args, values) == FoldLeft(LAMBDA t, name : Filled(t, name, values[name]), text, args)

(* Catalog.Text: the form's text, or that of the form "other"; an empty    *)
(* text is none.                                                           *)
Text(texts, form) == IF texts[form] # <<>> THEN texts[form] ELSE texts["other"]
Number(count) == IF count[1] = "number" THEN count[2] ELSE 0

(* t() of a template.                                                      *)
FormOf(locale, use, count) == IF use.counted THEN RuleFor(locale, Number(count)) ELSE "other"

Message(texts, locale, use, count, values) ==
  LET text == Text(texts, FormOf(locale, use, count))
  IN  IF text = <<>> THEN Substitute(KeyText(use.key), use.args, values)
      ELSE Substitute(IF use.counted /\ count # Nil THEN Filled(text, "count", count) ELSE text, use.args, values)

(* ctx.T and ctx.Count, whose count is an int.                             *)
Translator(texts, locale, use, count) ==
  LET text == Text(texts, FormOf(locale, use, count))
  IN  CASE text = <<>> -> KeyText(use.key)
        [] text # <<>> /\ use.counted -> Filled(text, "count", count)
        [] OTHER -> text

(* The filter: "now", or so many of a unit.                                *)
EnvText(texts, locale, n) == Text(texts, RuleFor(locale, n))

Relative(texts, locale, use, count) ==
  LET text == EnvText(texts, locale, IF use.key = RelativeNow THEN 0 ELSE Number(count))
  IN  CASE text = <<>> -> KeyText(use.key)
        [] text # <<>> /\ use.key # RelativeNow -> Filled(text, "count", count)
        [] OTHER -> text

Shown(site, locale, use, count, values) ==
  LET texts == BuildCatalog(site, Load(site), locale)[use.key]
  IN  CASE use.by = "t" -> Message(texts, locale, use, count, values)
        [] use.by = "go" -> Translator(texts, locale, use, count)
        [] use.by = "relative" -> Relative(texts, locale, use, count)
-----------------------------------------------------------------------------
(* gopage i18n: the audit, and json for the keys a locale is missing.      *)
CatalogKeys(catalogs, locale) == IF locale \in DOMAIN catalogs THEN DOMAIN catalogs[locale] ELSE {}
Missing(site, locale) == Keys(site) \ CatalogKeys(Load(site), locale)
Orphans(site, locale) == CatalogKeys(Load(site), locale) \ Keys(site)
Complete(site) == \A locale \in site.locales : Missing(site, locale) = {}

RECURSIVE Insert(_, _, _)
Insert(tree, key, value) ==
  LET name == Head(key)
      nested == IF name \in DOMAIN tree /\ tree[name].sort = "table" THEN tree[name].of ELSE NoTable
  IN  [n \in DOMAIN tree \cup {name} |->
         IF n # name THEN tree[n] ELSE IF Len(key) = 1 THEN value ELSE Table(Insert(nested, Tail(key), value))]

SnippetValue(source, key) ==
  CASE key \notin DOMAIN source -> TextValue(KeyText(key))
    [] key \in DOMAIN source /\ ~IsPlural(source[key]) -> TextValue(source[key]["other"])
    [] OTHER -> Table([form \in DOMAIN source[key] |-> TextValue(source[key][form])])

(* Keys are inserted in order: of two, one within the other, the inner one *)
(* last.                                                                   *)
Snippet(missing, source) ==
  FoldLeft(LAMBDA tree, key : Insert(tree, key, SnippetValue(source, key)), NoTable,
           SetToSortSeq(missing, LAMBDA a, b : Len(a) < Len(b)))

(* reportSync, and its snippets put into the files by hand.                *)
Snippets(site) ==
  LET catalogs == Load(site)
      source == IF site.default \in DOMAIN catalogs THEN catalogs[site.default] ELSE NoTable
  IN  [locale \in {l \in site.locales : Missing(site, l) # {}} |-> Snippet(Missing(site, locale), source)]

RECURSIVE Merged(_, _)
Merged(table, snippet) ==
  [name \in DOMAIN table \cup DOMAIN snippet |->
     IF name \notin DOMAIN snippet THEN table[name]
     ELSE IF name \notin DOMAIN table \/ table[name].sort # "table" \/ snippet[name].sort # "table" THEN snippet[name]
     ELSE Table(Merged(table[name].of, snippet[name].of))]

Synced(site) ==
  LET snippets == Snippets(site)
      file(l) == IF l \in DOMAIN site.files THEN site.files[l] ELSE NoTable
  IN  [site EXCEPT !.files = [l \in DOMAIN site.files \cup DOMAIN snippets |->
                                IF l \in DOMAIN snippets THEN Merged(file(l), snippets[l]) ELSE file(l)]]
-----------------------------------------------------------------------------
(* What the files say, read name by name: the text of a key in a locale    *)
(* and a form, or none.                                                    *)
At(table, key) ==
  FoldLeft(LAMBDA v, name : IF v.sort = "table" THEN IF name \in DOMAIN v.of THEN v.of[name] ELSE OtherValue ELSE OtherValue, Table(table), key)

Said(site, locale, key, form) ==
  LET value == IF locale \in DOMAIN site.files THEN At(site.files[locale], key) ELSE OtherValue
  IN  CASE value.sort = "text" -> value.text
        [] value.sort = "table" ->
             IF form \in DOMAIN value.of /\ value.of[form].text # <<>> THEN value.of[form].text
             ELSE IF "other" \in DOMAIN value.of THEN value.of["other"].text ELSE <<>>
        [] value.sort = "other" -> <<>>

Fills(use, count, values) ==
  [name \in ToSet(use.args) \cup (IF (use.counted \/ Implicit(use)) /\ count # Nil /\ use.key # RelativeNow THEN {"count"} ELSE {}) |->
     IF name = "count" THEN count ELSE values[name]]

(* One call in one locale: the text its own file has for the count's form, *)
(* with each placeholder filled, or the key.  grammar says which form that *)
(* is.  A count that is nil, and the count of "now", fill nothing.         *)
ShowsItsText(site, locale, use, count, values, grammar(_, _)) ==
  LET form == CASE use.key = RelativeNow -> grammar(Base[locale], 0)
                [] use.counted \/ use.by = "relative" -> grammar(Base[locale], Number(count))
                [] OTHER -> "other"
      said == Said(site, locale, use.key, form)
      fills == Fills(use, count, values)
      meant == [i \in DOMAIN said |-> IF said[i][1] = "hole" /\ said[i][2] \in DOMAIN fills THEN fills[said[i][2]] ELSE said[i]]
  IN  /\ Shown(site, locale, use, count, values) = IF said = <<>> THEN KeyText(use.key) ELSE meant
      /\ Wanted(said) \subseteq DOMAIN fills \cup (IF count = Nil \/ use.key = RelativeNow THEN {"count"} ELSE {})

Translates(site, counts, fillings, grammar(_, _)) ==
  Accepted(site) =>
    \A locale \in site.locales, use \in Uses(site), count \in counts, values \in fillings :
      use.by = "t" \/ (count[1] = "number" /\ Whole(count[2]) /\ count[2] >= 0)
        => ShowsItsText(site, locale, use, count, values, grammar)

(* No key is within another, or ends as a form is named.                   *)
Apart(site) ==
  LET keys == Keys(site) \cup UNION {CatalogKeys(Load(site), l) : l \in DOMAIN site.files}
  IN  \A key \in keys : key # <<>> /\ key[Len(key)] \notin Forms
        /\ \A longer \in keys \ {key} : ~IsPrefix(key, longer)

(* Where the default locale has every key, i18n sync completes the others, *)
(* and puts nothing in that the compiler complains of and did not before.  *)
SyncCompletes(site) ==
  Loads(site) /\ Apart(site) /\ Missing(site, site.default) = {} =>
    LET after == Synced(site)
    IN  /\ Loads(after) /\ Complete(after) /\ Reports(after) \subseteq Reports(site)
        /\ \A locale \in site.locales : Orphans(after, locale) = Orphans(site, locale)
=============================================================================
