---------------------------- MODULE MCToolchain ----------------------------
(***************************************************************************)
(* The parts of the tool chain that are functions, each over bounded       *)
(* inputs: one input is picked, and worked on in one step.                 *)
(***************************************************************************)
EXTENDS Integers, Build

CONSTANTS Unset, Junk, Odd,
          \* what the compiler's parts make of an input: constants, as TLC's profile of costs would unfold them whole
          ExpressionVerdict(_), DocumentVerdict(_), PlanVerdict(_), MessagesVerdict(_)

C == INSTANCE Settings WITH
  Unit <- [b |-> 1, kb |-> 16, mb |-> 256], Width <- 12,
  Locale <- {"en", "pl", "PL", "assets"}, Lower <- [l \in {"en", "pl", "PL", "assets"} |-> IF l = "PL" THEN "pl" ELSE l],
  DefaultReserved <- {"assets"}

M == INSTANCE Codec WITH Magic <- <<71, 80>>, Version <- 9

P == INSTANCE Parser WITH Capital <- {"A", "Card", "Template"}, Digits <- {"1", "huge"}

F == INSTANCE FiniteSetsExt

VARIABLES about, input, verdict

Runs(set, n) == UNION {[1..k -> set] : k \in 1..n}
-----------------------------------------------------------------------------
(* Settings: the defaults with one part written.                           *)
Size == {Unset, Junk} \cup [digits : {-1, 0, 1, 100, 127}, unit : {"b", "kb", "mb"}]
Span == {Unset, Junk, -1, 0, 5}
Host == [name : {"a"}, www : BOOLEAN, upper : BOOLEAN, port : {Unset, "8080", Junk}]
        \cup [name : {"b"}, www : {FALSE}, upper : {FALSE}, port : {Unset}]
HostEntry == [pattern : Host, locale : {"en", "pl"}, default : BOOLEAN]

Written ==
  LET d == C!Default IN
  {[d EXCEPT !.choice[f] = w, !.choice["scheme"] = s, !.hosts = h] :
     f \in DOMAIN C!Choices, w \in {Unset, "other"} \cup UNION {C!Choices[f] : f \in DOMAIN C!Choices},
     s \in {"http", "other"}, h \in {<<>>, <<[pattern |-> CHOOSE p \in Host : TRUE, locale |-> "en", default |-> TRUE]>>}}
  \cup {[d EXCEPT !.choice.deferred = w, !.span.budget = b] : w \in C!Choices.deferred \cup {Unset}, b \in Span}
  \cup {[d EXCEPT !.size.inline = i, !.size.body = b] : i \in Size, b \in Size}
  \cup {[d EXCEPT !.span[f] = v, !.span[g] = w] : f \in C!Spans, g \in C!Spans, v \in Span, w \in Span}
  \cup {[d EXCEPT !.number[f] = n] : f \in C!Numbers, n \in {-1, 0, 1, 2, 50, 51, 75, 101}}
  \cup {[d EXCEPT !.names = n, !.default = l, !.prefixDefault = p, !.reserved = r, !.choice.locales = m] :
          n \in {<<>>} \cup Runs({"en", "pl", "PL", "assets"}, 3), l \in {Unset, "en", "pl"}, p \in BOOLEAN,
          r \in {{}, {"pl"}}, m \in {"path", "single"}}
  \cup {[d EXCEPT !.hosts = h, !.names = <<"en", "pl">>, !.choice.locales = "subdomain"] :
          h \in [1..1 -> HostEntry] \cup [1..2 -> HostEntry]}
  \cup {[d EXCEPT !.redirects = <<[host |-> h, status |-> s]>>,
                  !.hosts = <<[pattern |-> CHOOSE p \in Host : p.name = "b", locale |-> "en", default |-> FALSE]>>] :
          h \in Host \cup {Unset}, s \in {0, 299, 302, 400}}

SettingsInit == about = "settings" /\ input \in Written
ReadSettings == about = "settings" /\ verdict' = IF C!Accepted(input) => C!Means(input) THEN "right" ELSE "wrong"

(* gopage.json is accepted only if the program then reads from it what it  *)
(* says: sizes, spans, limits, hosts and the prefixes of locales           *)
(* (normalize and validate against the accessors of config.go).            *)
SettingsMeanWhatTheySay == about = "settings" => verdict # "wrong"
-----------------------------------------------------------------------------
(* Manifests: no list with an element, one list with the least of its      *)
(* elements, and one with something everywhere.                            *)
T == <<80>>
Zero == [op |-> [kind |-> 0, a |-> 0, b |-> 0, c |-> 0],
         expr |-> [kind |-> 0, op |-> 0, a |-> 0, b |-> 0],
         const |-> [kind |-> 0, str |-> <<>>, int |-> 0, float |-> 0],
         island |-> [name |-> <<>>, strategy |-> <<>>],
         fragment |-> [name |-> <<>>, ttl |-> 0, stale |-> 0, deferred |-> 0, strategy |-> <<>>, bodyEnd |-> 0,
                       hold |-> 0, holdEnd |-> 0, paths |-> <<>>]]
Plan == [ops |-> <<>>, exprs |-> <<>>, consts |-> <<>>, locals |-> 0, blob |-> <<>>, paths |-> <<>>,
         messages |-> <<>>, islands |-> <<>>, fragments |-> <<>>, capacity |-> 0]
Route == [pattern |-> <<>>, name |-> <<>>, plan |-> 0, layoutChain |-> <<>>, class |-> 0, vary |-> <<>>]
Vary == [kind |-> 0, name |-> <<>>, values |-> <<>>]
Fallback == [prefix |-> <<>>, name |-> <<>>, kind |-> 0, plan |-> 0, layoutChain |-> <<>>]
Layout == [name |-> <<>>, plan |-> 0]
Message(text) == [f \in {<<"f", i>> : i \in 1..6} |-> text]
Empty == [plans |-> <<>>, routes |-> <<>>, messages |-> <<>>, catalogs |-> <<>>, fallbacks |-> <<>>, layouts |-> <<>>]
Times(x, n) == [i \in 1..n |-> x]

Plans(n) ==
  {Plan, [Plan EXCEPT !.ops = Times(Zero.op, n)], [Plan EXCEPT !.exprs = Times(Zero.expr, n)],
   [Plan EXCEPT !.consts = Times(Zero.const, n)], [Plan EXCEPT !.paths = Times(<<>>, n)],
   [Plan EXCEPT !.paths = <<Times(<<>>, n)>>], [Plan EXCEPT !.messages = Times(<<>>, n)],
   [Plan EXCEPT !.islands = Times(Zero.island, n)], [Plan EXCEPT !.fragments = Times(Zero.fragment, n)],
   [Plan EXCEPT !.fragments = <<[Zero.fragment EXCEPT !.paths = Times(0, n)]>>]}

Full ==
  [Empty EXCEPT
    !.plans = <<[Plan EXCEPT !.ops = <<[kind |-> 1, a |-> 258, b |-> -1, c |-> 3]>>,
                             !.consts = <<[kind |-> 2, str |-> T, int |-> -1, float |-> 66051]>>,
                             !.locals = 2, !.blob = T \o T, !.paths = <<<<T, <<>>>>>>,
                             !.islands = <<[name |-> T, strategy |-> T]>>,
                             !.fragments = <<[Zero.fragment EXCEPT !.name = T, !.ttl = 300, !.deferred = 1,
                                                                    !.hold = 1, !.holdEnd = 2, !.paths = <<0>>]>>]>>,
    !.routes = <<[Route EXCEPT !.pattern = T, !.layoutChain = <<0>>, !.vary = <<[kind |-> 1, name |-> T, values |-> <<T>>]>>]>>,
    !.catalogs = <<[locale |-> T, texts |-> <<Message(T), Message(<<>>)>>]>>,
    !.fallbacks = <<[Fallback EXCEPT !.name = T, !.layoutChain = <<0>>]>>, !.layouts = <<[Layout EXCEPT !.name = T]>>]

Manifests(n) ==
  {Empty, Full}
  \cup {[Empty EXCEPT !.plans = Times(p, k)] : p \in Plans(n), k \in 1..n}
  \cup {[Empty EXCEPT !.routes = Times(r, n)] : r \in {Route, [Route EXCEPT !.vary = Times(Vary, n)],
                                                      [Route EXCEPT !.layoutChain = Times(0, n)]}}
  \cup {[Empty EXCEPT !.messages = Times(<<>>, n)], [Empty EXCEPT !.fallbacks = Times(Fallback, n)],
        [Empty EXCEPT !.layouts = Times(Layout, n)], [Empty EXCEPT !.catalogs = Times([locale |-> <<>>, texts |-> <<>>], n)],
        [Empty EXCEPT !.catalogs = <<[locale |-> <<>>, texts |-> Times(Message(<<>>), n)]>>]}

CodecInit == about = "codec" /\ input \in
  {[manifest |-> m, cut |-> c] : m \in Manifests(1) \cup Manifests(2), c \in {1, 5, 9, 13, 40, 9999}}
  \cup {[manifest |-> Full, cut |-> c] : c \in 6..99}
ReadManifest == about = "codec" /\ verdict' = IF M!Survives(input.manifest, input.cut) THEN "right" ELSE "wrong"

(* A manifest comes back from Decode as Encode was given it, and one that  *)
(* was cut short is refused wherever it was cut (codec.go, where writer,   *)
(* reader and the least sizes of the reader's counts are written apart).   *)
ManifestSurvives == about = "codec" => verdict # "wrong"
-----------------------------------------------------------------------------
(* Templates: expressions atom by atom, documents chunk by chunk.          *)
Expressions ==
  Runs({"A", "1", "+", "*", "=", "!", "(", ")", "[", "]", "|", "."}, 4)
  \cup Runs({"A", "+", "*", "(", ")"}, 6) \cup Runs({"A", "-", "[", "]", "|"}, 6)
  \cup {<<"A", "|", "A", "(", "A", "+", "A", ")", x, "A">> : x \in {"|", "*", "+"}}
  \cup {<<"t", "(", "'", "A", "'", ",", "A", "=", "A", x, "A", y>> : x \in {"|", "*", "."}, y \in {")", "]"}}
  \cup {<<"A", x, "1", y, "A", z, "huge">> : x, y, z \in {"<", "~", "%", "/", "+", ">"}}

q == "quote"
Dir(atoms) == <<"{", "%">> \o atoms \o <<"%", "}">>
Shown == <<"{", "{", "A", "}", "}">>

Snippet ==
  [text |-> <<"x">>, shown |-> Shown, open |-> <<"{", "{">>, begin |-> <<"{", "%">>, end |-> <<"}", "}">>,
   outlet |-> Dir(<<"outlet">>), raw |-> Dir(<<"raw", "A">>), slot |-> Dir(<<"slot", q, "x", q>>),
   let |-> Dir(<<"let", "x", "=", "A">>), alone |-> Dir(<<"standalone">>), unknown |-> Dir(<<"iff">>),
   vary |-> Dir(<<"vary", "cookie", "=", q, "x", q, "values", "=", q, "x", ",", "y", q>>),
   if |-> Dir(<<"if", "A">>), elif |-> Dir(<<"elif", "A">>), else |-> Dir(<<"else">>), endif |-> Dir(<<"endif">>),
   for |-> Dir(<<"for", "x", "in", "A">>), endfor |-> Dir(<<"endfor">>),
   match |-> Dir(<<"match", "A">>), when |-> Dir(<<"when", "A">>), endmatch |-> Dir(<<"endmatch">>),
   fragment |-> Dir(<<"fragment", q, "x", q, "cache", "=", q, "x", q, "defer">>),
   hold |-> Dir(<<"placeholder">>), endfragment |-> Dir(<<"endfragment">>),
   card |-> <<"<", "Card", "a", "=", q, "x", q, ":", "b", "=", q, "A", q, ">">>, cardend |-> <<"<", "/", "Card", ">">>,
   alone2 |-> <<"<", "Card", "/", ">">>, fill |-> <<"<", "Template", "#", "x", ">">>,
   fillend |-> <<"<", "/", "Template", ">">>, divend |-> <<"<", "/", "div", ">">>,
   div |-> <<"<", "div", "a", "?", "=", q, "A", q, "b", "=", q>> \o Shown \o <<"x", q, ">">>,
   classes |-> <<"<", "div", ":", "class", "=", q, "{", "x", ":", "A", ",", "'", "y", "'", ":", "A", "}", q, "/", ">">>,
   quote |-> <<q>>, tag |-> <<"<", "div">>, script |-> <<"<", "script", "client", ">", "x", "<", "/", "script", ">">>]

Documents ==
  Runs(DOMAIN Snippet, 2) \cup [1..3 -> {"shown", "open", "begin", "end", "tag", "quote", "div", "classes", "script", "text", "fill"}]
  \cup Runs({"if", "elif", "else", "endif", "shown"}, 5) \cup Runs({"for", "else", "endfor", "if", "endif"}, 5)
  \cup Runs({"match", "when", "else", "endmatch", "text"}, 5) \cup Runs({"fragment", "hold", "endfragment", "alone"}, 5)
  \cup Runs({"card", "cardend", "fill", "fillend", "text"}, 5) \cup Runs({"if", "endif", "card", "cardend"}, 5)
Source(names) == S!FlattenSeq([i \in DOMAIN names |-> Snippet[names[i]]])

TemplateInit ==
  \/ about = "expression" /\ input \in Expressions
  \/ about = "document" /\ input \in Documents
MCExpressionVerdict(atoms) == LET right == P!ReadsAsWritten(atoms) IN IF right THEN "right" ELSE "wrong"
MCDocumentVerdict(names) == LET right == P!KeepsEveryMark(Source(names)) IN IF right THEN "right" ELSE "wrong"
ReadTemplate ==
  \/ about = "expression" /\ verdict' = ExpressionVerdict(input)
  \/ about = "document" /\ verdict' = DocumentVerdict(input)

(* An expression is taken just when the grammar has a tree for it, and as  *)
(* that tree; and every mark of a document that is taken without a report  *)
(* is in its tree, in its place: where the parser gives up, it says so     *)
(* (the recoveries of parser.go, parser_tag.go, parser_element.go and the  *)
(* silent end of a block).                                                 *)
NothingIsLostInSilence == about \in {"expression", "document"} => verdict # "wrong"
-----------------------------------------------------------------------------
(* Plans: accepted templates with components, loops and fragments.         *)
L == INSTANCE MCTemplate

PlanInit == about = "plan" /\ input \in L!Documents
FragmentInit == about = "fragment" /\ input \in L!Lists
MCPlanVerdict(names) == LET verdictOf == L!Verdict(names) IN verdictOf
RenderTemplate == about \in {"plan", "fragment"} /\ verdict' = PlanVerdict(input)

(* Visitor after visitor over one cache of fragments, with the deferred    *)
(* data in time or late, an accepted template gives each what its tree     *)
(* means, and meets no field the checker had not seen (check.go, lower.go  *)
(* with its jumps and numbered locals, runRange with its nested ranges).   *)
PlansRenderTheTemplate == about = "plan" => verdict # "wrong"

(* C503.md says "a cached fragment is keyed by the values its body reads": *)
(* so it shows each visitor what its body means.                           *)
FragmentsAreKeyedByWhatTheyRead == about = "fragment" => verdict # "wrong"
-----------------------------------------------------------------------------
(* Sites: up to three files under app/, with one locale or two.           *)
Plain(word) == [kind |-> "word", word |-> word]
Id(kind) == [kind |-> kind, word |-> "id"]
Group == [kind |-> "group", word |-> "shop"]
Shop(dir) == <<Group>> \o dir

File(dir, file) == [dir |-> dir, file |-> file, standalone |-> FALSE]
Files ==
  {File(dir, "page") : dir \in {<<>>, <<Plain("about")>>, Shop(<<Plain("about")>>), <<Id("one")>>, <<Id("all")>>, <<Plain("docs")>>,
                               <<Plain("docs"), Id("rest")>>, <<Plain("docs"), Id("all")>>, <<Id("one"), Plain("about")>>,
                               Shop(<<Plain("docs"), Id("one")>>)}}
  \cup {File(dir, "layout") : dir \in {<<>>, <<Group>>, Shop(<<Plain("docs")>>)}}
  \cup {[File(<<Plain("docs")>>, "layout") EXCEPT !.standalone = TRUE]}
  \cup {File(dir, "not-found") : dir \in {<<>>, <<Plain("docs")>>}} \cup {File(<<Plain("api"), Plain("about")>>, "route")}

Nowhere == [w \in {} |-> ""]
Spoken(locales, aliases, prefixed, routes) ==
  [locales : {locales}, aliases : {aliases}, default : {"en"}, prefixDefault : prefixed, mode : {"path"}, routes : routes,
   normalize : {[slash |-> "off", lower |-> FALSE, fold |-> FALSE]}, reserved : {{<<"api">>}}, claimed : {{}}]
SpokenWith(routes) == Spoken(<<"en">>, [l \in {"en"} |-> Nowhere], {FALSE}, routes)
  \cup Spoken(<<"en", "pl">>, [l \in {"en", "pl"} |-> IF l = "en" THEN Nowhere ELSE [w \in {"about"} |-> "onas"]],
             BOOLEAN, routes)

Targets == {<<>>} \cup Runs({"about", "docs", "onas", "dynamic"}, 2) \cup {<<"docs", "about", "docs">>, <<"api">>, <<"api", "about">>}
          \cup {<<l>> \o w : l \in {"pl", "en"}, w \in {<<>>, <<"about">>, <<"onas">>, <<"docs", "dynamic">>}}

Order == <<Group, Id("all"), Id("rest"), Id("one"), Plain("about"), Plain("api"), Plain("docs"), Plain("onas")>>
D == INSTANCE Routes WITH
  Order <- Order, Api <- {"api"}, Dynamic <- "dynamic", Empty <- "", Word <- {"", "about", "api", "docs", "onas", "id", "en", "pl"}, site <- input,
  Settings <- SpokenWith(Seq(Seq({Order[i] : i \in DOMAIN Order})))

SiteInit == about = "site" /\ \E k \in 1..3 : \E files \in F!kSubset(k, Files), s \in SpokenWith({<<>>}) : input = D!Compiled(files, s)
ReadSite == about = "site" /\ verdict' = IF D!Answers(Targets) THEN "right" ELSE "wrong"

(* The compiler's judgement of a link is the router's, in every locale;    *)
(* and every page stands in the layouts, and every miss under the fallback,*)
(* of its own directory (discover.go and link.go against router.go,        *)
(* entry.go, vocab and Manifest.Fallback).                                 *)
LinksAreJudgedAsAnswered == about = "site" => verdict # "wrong"
-----------------------------------------------------------------------------
(* Builds: two in a row of three versions of a project, on a clean disk or *)
(* a bootstrapped one.                                                     *)
Said(w) == [word |-> w, param |-> FALSE]
Any(w) == [word |-> w, param |-> TRUE]
APage(pattern, class, funcs, deferred) == [pattern |-> pattern, class |-> class, funcs |-> funcs, deferred |-> deferred]
AnIsland(name, react, inline, props, code) == [name |-> name, react |-> react, inline |-> inline, props |-> props, code |-> code]
AFile(dir, name, kind) == [dir |-> dir, name |-> name, kind |-> kind]
Young ==
  [engine |-> "plain", navigation |-> FALSE, images |-> FALSE, small |-> {}, redirects |-> {}, unprefixed |-> FALSE,
   styles |-> [n \in {"app"} |-> [kind |-> "style", text |-> "a"]], classes |-> {"x"},
   public |-> [f \in {AFile(<<>>, "logo", "other")} |-> <<"logo">>], islands |-> {},
   pages |-> {APage(<<>>, "static", {}, {}), APage(<<Said("about")>>, "static", {}, {}), APage(<<Said("blog"), Said("about")>>, "static", {}, {})},
   fallbacks |-> {}, layouts |-> {}, handlers |-> {}, errors |-> FALSE, malformed |-> FALSE]
Grown ==
  [Young EXCEPT !.navigation = TRUE, !.images = TRUE, !.engine = "tailwind", !.small = {"c"}, !.redirects = {"r"}, !.unprefixed = TRUE,
   !.styles = [n \in {"app", "print", "face"} |-> [kind |-> IF n = "face" THEN "font" ELSE "style", text |-> IF n = "print" THEN "c" ELSE "b"]],
   !.classes = {"y"}, !.public = [f \in {AFile(<<<<"docs">>>>, "logo", "other"), AFile(<<>>, "face", "font")} |-> <<"b">>],
   !.islands = {AnIsland("chart", TRUE, TRUE, TRUE, "1"), AnIsland("map", TRUE, FALSE, FALSE, "1"), AnIsland("clock", FALSE, TRUE, FALSE, "1")},
   !.pages = {APage(<<>>, "dynamic", {"Load", "Meta"}, {"Later"}), APage(<<Said("blog"), Any("id")>>, "dynamic", {"Load", "Submit"}, {}), APage(<<Said("type")>>, "dynamic", {"Sitemap"}, {}), APage(<<Said("docs")>>, "static", {}, {})},
   !.fallbacks = {<<"not-found">>}, !.layouts = {<<"layout">>}, !.handlers = {<<"api", "health">>}]
MCSources == [young |-> Young, grown |-> Grown, other |-> [Young EXCEPT !.styles["app"].text = "b", !.islands = {AnIsland("chart", FALSE, FALSE, TRUE, "2")}]]
MCIdent == [w \in {"index", "about", "blog", "id", "type", "docs", "api", "health", "not-found", "layout"} |-> IF w = "not-found" THEN "not_found" ELSE w]

BuildInit == about = "build" /\ input = "builds" /\ Init
NoBuild == project = "young" /\ disk = Nothing /\ job = Idle
RunBuild == about = "build" /\ UNCHANGED <<about, input, verdict>> /\ Next
-----------------------------------------------------------------------------
(* Forms: one field of every kind under up to two rules, and a text or two *)
(* sent for it, next to a field that keeps its rules.                      *)
Texts == {"", " ", "x", "ada", "on", "5", "200", "1.5", "NaN", "a@b.co", "a@b."}
Mailed(before, labels) == [before |-> before, spaced |-> FALSE, labels |-> labels]
G == INSTANCE Form WITH
  Empty <- "", Unset <- Unset, NotANumber <- Junk, Odd <- Odd,
  Runes <- [t \in Texts |-> CASE t = "" -> 0 [] t \in {" ", "x", "5"} -> 1 [] t = "on" -> 2 [] t \in {"ada", "200", "1.5", "NaN"} -> 3 [] t = "a@b.co" -> 6 [] t = "a@b." -> 4],
  Blank <- [t \in Texts |-> t \in {"", " "}], Ticked <- [t \in Texts |-> t = "on"],
  Whole <- [t \in Texts |-> CASE t = "5" -> 5 [] t = "200" -> 200 [] OTHER -> Junk],
  Decimal <- [t \in Texts |-> CASE t = "5" -> 5 [] t = "200" -> 200 [] t = "1.5" -> 2 [] t = "NaN" -> Odd [] OTHER -> Junk],
  Mail <- [t \in Texts |-> CASE t = "a@b.co" -> Mailed(1, <<1, 2>>) [] t = "a@b." -> Mailed(1, <<1, 0>>) [] OTHER -> Mailed(0, <<0>>)]

Rule(rule, low, high) == [rule |-> rule, low |-> low, high |-> high, words |-> {}]
RulesOfAForm == {Rule("required", Unset, Unset), Rule("accepted", Unset, Unset), Rule("email", Unset, Unset), Rule("requird", Unset, Unset),
          Rule("len", 2, 3), Rule("len", 2, Unset), Rule("len", 0, 0), Rule("len", Junk, 3), Rule("min", 3, Unset), Rule("max", Unset, 3), Rule("max", Unset, Junk),
          [Rule("in", Unset, Unset) EXCEPT !.words = {"on", "5", "x"}]}
Field(type, width, pointer, exported, rules) == [type |-> type, width |-> width, pointer |-> pointer, exported |-> exported, rules |-> rules]
Fixed == Field("string", 0, FALSE, TRUE, <<Rule("required", Unset, Unset)>>)

FormInit == about = "form" /\ \E type \in {"string", "bool", "int", "float", "other"}, width \in {8, 12}, pointer, exported \in BOOLEAN,
  rules \in {<<>>} \cup Runs(RulesOfAForm, 2), sent \in {<<>>} \cup Runs(Texts, 1) \cup {<<"ada", "on">>, <<"", "x">>} :
    /\ width = 8 => type = "int"
    /\ ~exported => rules = <<>>
    /\ input = [fields |-> [n \in {"name", "fixed"} |-> IF n = "fixed" THEN Fixed ELSE Field(type, width, pointer, exported, rules)],
                sent |-> [n \in {"name", "fixed"} |-> IF n = "fixed" THEN <<"ada">> ELSE sent]]
ReadForm == about = "form" /\ verdict' = IF G!DecodesAsSent(input.fields, input.sent) THEN "right" ELSE "wrong"

(* A submission is accepted just when each of its fields says something its*)
(* type takes and keeps its rules; then the struct holds what was sent, and*)
(* otherwise the page shows what was typed and who is to blame (form.go,   *)
(* validate.go, view.go).                                                  *)
SubmissionsAreJudgedAsSent == about = "form" => verdict # "wrong"
-----------------------------------------------------------------------------
(* Messages: one key in every shape its value can have in two locales, and *)
(* the calls of it; or a second key, the filter and what lies beside them; *)
(* or one locale of each grammar.                                          *)
LanguageOf == [l \in {"en", "pl_PL", "cs", "es", "fr", "ja", "ru", "xx"} |-> IF l = "pl_PL" THEN "pl" ELSE l]
N == INSTANCE Messages WITH
  Base <- LanguageOf, RelativeNow <- <<"time", "now">>, RelativeUnits <- {<<"time", "days_ago">>}, Nil <- <<"nil">>

(* The forms of the counts below, as grammars of the languages list them.  *)
Counts == {<<"nil">>, <<"text", "many">>} \cup {<<"number", n>> : n \in {0, 2, 3, 4, 10, 22, 24, 42, 44}}
Grammar(language, n) ==
  LET one == CASE language = "fr" -> {0, 2, 3} [] language = "ru" -> {2, 42} [] language = "ja" -> {} [] OTHER -> {2}
      few == CASE language = "cs" -> {4} [] language \in {"pl", "ru"} -> {4, 44} [] OTHER -> {}
      many == CASE language = "cs" -> {3} [] language = "pl" -> {0, 10, 22, 24, 42} [] language = "ru" -> {0, 10, 22, 24} [] OTHER -> {}
  IN  CASE n \in one -> "one" [] n \in few -> "few" [] n \in many -> "many" [] OTHER -> "other"

Atoms(w, holes) == N!TextValue(<<<<"word", w>>>> \o [i \in DOMAIN holes |-> N!Hole(holes[i])])
FormsOf(w, forms) == N!Table([f \in forms |-> Atoms(<<w, f>>, IF f = "one" THEN <<>> ELSE <<"count">>)])
Shapes(w) ==
  {Atoms(w, <<>>), Atoms(w, <<"city">>), Atoms(w, <<"count">>), N!TextValue(<<>>), N!OtherValue, FormsOf(w, {"other"}),
   FormsOf(w, {"one", "other"}), FormsOf(w, {"one", "few", "many"}),
   N!Table([f \in {"one", "other"} |-> Atoms(w, IF f = "one" THEN <<"city">> ELSE <<"city", "count">>)]),
   N!Table([f \in {"one", "city"} |-> Atoms(w, <<>>)])}
Jobs(shapes) == {N!NoTable} \cup {[n \in {"jobs"} |-> N!Table([m \in {"found"} |-> v])] : v \in shapes}
Asides(w) ==
  {N!NoTable, [n \in {"title"} |-> Atoms(w, <<>>)], [n \in {"one"} |-> Atoms(w, <<>>)],
   [n \in {"title", "time"} |-> IF n = "title" THEN Atoms(w, <<>>)
      ELSE N!Table([m \in {"now", "days_ago"} |-> IF m = "now" THEN Atoms(w, <<"count">>) ELSE FormsOf(w, {"one", "few", "other"})])]}

Call(key, by, counted, args) == [key |-> key, by |-> by, counted |-> counted, args |-> args]
Found(by, counted, args) == Call(<<"jobs", "found">>, by, counted, args)
CallsOfIt == {Found("t", c, a) : c \in BOOLEAN, a \in {<<>>, <<"city">>}} \cup {Found("go", c, <<>>) : c \in BOOLEAN}
Local(locales, files, calls) ==
  [locales |-> locales, default |-> CHOOSE l \in locales : Cardinality(locales) = 2 => l = "en",
   files |-> files, legacy |-> {}, calls |-> calls, relative |-> FALSE]
FilesIn(locales, tables(_)) == UNION {{f \in [ls -> UNION {tables(l) : l \in ls}] : \A l \in ls : f[l] \in tables(l)} : ls \in SUBSET locales}

InEveryShape ==
  {Local({"en", "pl_PL"}, f, c) :
     f \in FilesIn({"en", "pl_PL"}, LAMBDA l : Jobs(Shapes(l))), c \in {s \in SUBSET CallsOfIt : Cardinality(s) < 3}}
WithOthers ==
  {[Local({"en", "pl_PL"}, f, c) EXCEPT !.relative = r, !.legacy = g] :
     f \in FilesIn({"en", "pl_PL"}, LAMBDA l : {[n \in DOMAIN j \cup DOMAIN a |-> IF n \in DOMAIN j THEN j[n] ELSE a[n]] :
                                                  j \in Jobs({Atoms(l, <<>>), FormsOf(l, {"one", "other"})}), a \in Asides(l)}),
     c \in {{}, {Call(<<"title">>, "go", FALSE, <<>>), Found("t", FALSE, <<>>)}, {Call(<<"title">>, "t", FALSE, <<>>), Found("variable", FALSE, <<>>)},
            {Call(<<"one">>, "go", FALSE, <<>>)}},
     r \in BOOLEAN, g \in {{}, {"de"}}}
InEachLanguage ==
  UNION {{Local({l}, f, {Found("t", TRUE, <<>>), Found("go", TRUE, <<>>)}) :
            f \in FilesIn({l}, LAMBDA m : Jobs({FormsOf(m, s) : s \in SUBSET {"one", "few", "many", "other"} \ {{}}}))} : l \in DOMAIN LanguageOf}

MessagesInit == about = "messages" /\ input \in InEveryShape \cup WithOthers \cup InEachLanguage
MCMessagesVerdict(s) ==
  LET right == /\ N!Translates(s, Counts, {[n \in {"city"} |-> v] : v \in {<<"word", "c">>, <<"hole", "count">>}}, Grammar)
               /\ N!SyncCompletes(s)
  IN  IF right THEN "right" ELSE "wrong"
ReadMessages == about = "messages" /\ verdict' = MessagesVerdict(input)

(* An accepted site shows every call, in each of its locales and for every *)
(* count, that locale's own text in the form its language has for it, with *)
(* each placeholder filled, and t() as ctx.T and ctx.Count do; and where   *)
(* the default locale has every key, what i18n sync prints completes the   *)
(* others and gives the compiler nothing new to refuse (message.go,        *)
(* catalog.go, plural.go, translate.go, report.go).                        *)
MessagesAreTheLocalesOwn == about = "messages" => verdict # "wrong"
-----------------------------------------------------------------------------
ToolchainInit == verdict = "none" /\ (BuildInit \/ (NoBuild /\ (SettingsInit \/ CodecInit \/ TemplateInit \/ PlanInit \/ SiteInit \/ FormInit \/ MessagesInit)))
ToolchainNext ==
  \/ RunBuild
  \/ /\ verdict = "none" /\ UNCHANGED <<about, input, vars>>
     /\ (ReadSettings \/ ReadManifest \/ ReadTemplate \/ RenderTemplate \/ ReadSite \/ ReadForm \/ ReadMessages)
ToolchainSpec == ToolchainInit /\ [][ToolchainNext]_<<about, input, verdict, vars>>
FragmentSpec == verdict = "none" /\ NoBuild /\ FragmentInit /\ [][ToolchainNext]_<<about, input, verdict, vars>>
=============================================================================
