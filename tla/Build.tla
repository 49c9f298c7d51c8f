------------------------------- MODULE Build -------------------------------
(***************************************************************************)
(* gopage build: the files one build after another leaves on the disk,     *)
(* while the sources change and builds fail or are killed on the way       *)
(* (build.go, generate.go, styles.go, bundle.go, assets.go, sidecar.go),   *)
(* and what the program and the host serve of them.                        *)
(*                                                                         *)
(* A file is [root, dir, name, hash, coding]: root "gen" is internal/gen,  *)
(* "assets" is dist/assets, "demo" is dist/demo, "dist" the programs,      *)
(* "cache" is .gopage/cache; hash is the content a hashed name stands for, *)
(* coding "br" or "gz" says of a copy that it is compressed.  A directory's*)
(* name, like the name of a route, is a sequence of words.                 *)
(***************************************************************************)
EXTENDS Naturals, Sequences, FiniteSets

CONSTANTS Sources,        \* the versions of the sources, by name
          Ident,          \* words as PackageName spells them
          Keyword,        \* words that cannot name a package
          MaxBuilds       \* bound

VARIABLES project,        \* the version of the sources, as they are now
          disk,           \* what builds have written
          job             \* [at, conf, islands, source, classes, still, builds]: the build, and the
                          \* version each of its readings saw; still: no edit since it began

vars == <<project, disk, job>>

(* No kind of file that a page would name is called ".keep".               *)
IsProject(p) ==
  /\ ".keep" \in DOMAIN p.styles => p.styles[".keep"].kind = "other"
  /\ \A f \in DOMAIN p.public : f.dir \in Seq(Seq(STRING))
  /\ \A r \in p.pages : r.pattern \in Seq([word : STRING, param : BOOLEAN])

ASSUME SourcesAssumption == \A version \in DOMAIN Sources : IsProject(Sources[version])

Now == Sources[project]
Seen == [conf |-> Sources[job.conf], islands |-> Sources[job.islands], source |-> Sources[job.source], classes |-> job.classes]

S == INSTANCE SequencesExt

(* Files written over others, and a file with its content.                 *)
new ++ old == [f \in DOMAIN new \cup DOMAIN old |-> IF f \in DOMAIN new THEN new[f] ELSE old[f]]
file := content == [f \in {file} |-> content]

At(root, dir, name) == [root |-> root, dir |-> dir, name |-> name, hash |-> <<>>, coding |-> "identity"]
Hashed(root, dir, name, hash) == [At(root, dir, name) EXCEPT !.hash = hash]
Under(root, dir) == {f \in DOMAIN disk : f.root = root /\ S!IsPrefix(dir, f.dir)}
Nothing == [f \in {} |-> <<>>]
Merged(maps) == [f \in UNION {DOMAIN m : m \in maps} |-> (CHOOSE m \in maps : f \in DOMAIN m)[f]]

Styles == <<<<"styles">>>>
Public == <<<<"public">>>>
Bundles == <<<<"bundles">>>>
Props == <<<<"props">>>>
Assets == <<<<"assets">>>>
Keep(dir) == At("gen", dir, ".keep") := <<"empty">>
-----------------------------------------------------------------------------
(* Islands, and what esbuild makes of them: a chunk for each, one for what *)
(* two of them share, and a runtime that imports them when they are wanted.*)
EntryOf(island) ==
  CASE island.react  -> <<"cache/islands", island.name, "mount.ts">>
    [] island.inline -> <<"cache/islands", island.name, "ts">>
    [] OTHER         -> <<"components", island.name, "client.ts">>

ModuleOf(island) ==
  IF island.react THEN <<"cache/islands", island.name, "mount.ts">>
  ELSE IF island.inline THEN <<"cache/islands", island.name, "ts">> ELSE <<"components", island.name, "client.ts">>

WorkFiles(islands) ==
  Merged({At("cache", <<<<"islands">>>>, i.name) := <<"island", i>> : i \in {j \in islands : j.inline \/ j.react}})

Chunk(name, hash) == Hashed("gen", Bundles, name, hash)
ChunkOf(island) == Chunk("island", <<island.name, island.code>>)
Library == Chunk("island", <<"react">>)
Helpers == Chunk("island", <<"helpers">>)

Esbuild(islands, navigation) ==
  LET shared == IF Cardinality({i \in islands : i.react}) > 1 THEN {Library} ELSE {}
      helpers == IF islands # {} /\ navigation THEN {Helpers} ELSE {}
      entry == Chunk("gopage.client", <<{i.code : i \in islands}>>)
      output(chunk, imports, inputs) == [file |-> chunk, entry |-> chunk = entry, imports |-> imports, inputs |-> inputs]
  IN  {output(entry, helpers, {}) : once \in {i \in {0} : islands # {} \/ navigation}}
      \cup {output(ChunkOf(i), helpers \cup (IF i.react THEN shared ELSE {}), {EntryOf(i)}) : i \in islands}
      \cup {output(chunk, {}, {}) : chunk \in shared \cup helpers}

Bundled(j) == Esbuild(j.islands.islands, j.conf.navigation)

EagerChunks(bundled) == UNION {o.imports : o \in {p \in bundled : p.entry}}

Closure(bundled, chunk) ==
  LET files == {o.file : o \in bundled}
      closed(set) == chunk \in set /\ \A o \in bundled : o.file \in set => o.imports \subseteq set
  IN  {f \in files : \A set \in SUBSET files : closed(set) => f \in set}

IslandChunks(bundled, islands) ==
  UNION {{[name |-> i.name, chunks |-> Closure(bundled, o.file)] : o \in {p \in bundled : ModuleOf(i) \in p.inputs}} : i \in islands}
-----------------------------------------------------------------------------
(* The assets the compiler collects: the files of styles/, shaped by the   *)
(* engine and named after their hash, and the bundles.                     *)
Tailwind(text, classes) == <<"tailwind", text, classes>>   \* the classes of the templates and of the inventory

Transform(conf, classes, file) ==
  IF file.kind # "style" THEN <<file.text>>
  ELSE IF conf.engine = "tailwind" THEN Tailwind(file.text, classes) ELSE <<"minified", file.text>>

Compiled(j, name) == Transform(j.conf, j.classes, j.source.styles[name])
AssetPath(name, content) == Hashed("assets", Assets, name, content)

Collected(j) ==
  {[path |-> AssetPath(name, Compiled(j, name)), kind |-> j.source.styles[name].kind,
    inline |-> j.source.styles[name].kind = "style" /\ j.source.styles[name].text \in j.conf.small]
     : name \in DOMAIN j.source.styles}

InAssets(chunk) == Hashed("assets", Assets, chunk.name, chunk.hash)

Extra(j) ==
  {[path |-> InAssets(o.file), inline |-> FALSE,
    kind |-> IF o.entry THEN "script" ELSE IF o.file \in EagerChunks(Bundled(j)) THEN "module" ELSE "other"]
     : o \in Bundled(j)}

Tags(list) == {a.path : a \in {b \in list : b.kind \in {"script", "module"} \/ (b.kind = "style" /\ ~b.inline)}}
Link(list) == Tags(list) \cup {a.path : a \in {b \in list : b.kind = "font"}}

PublicPath(dir, name) == At("assets", dir, name)
Fonts(p) == {[path |-> PublicPath(f.dir, f.name), kind |-> "font", inline |-> FALSE] : f \in {g \in DOMAIN p.public : g.kind = "font"}}

Manifest(j) == [pages |-> j.source.pages, tags |-> Tags(Collected(j) \cup Extra(j))]

Sidecar(j, now) ==
  [links |-> Link(Collected(j) \cup Extra(j) \cup Fonts(now)), modules |-> EagerChunks(Bundled(j)),
   islands |-> IslandChunks(Bundled(j), j.source.islands)]

(* Only what no module preload names is left for the pages to preload.     *)
LazyChunks(sidecar) == UNION {i.chunks \ sidecar.modules : i \in sidecar.islands}
-----------------------------------------------------------------------------
(* The generated Go: a package for every page with code, every API route   *)
(* and every layout with a loader, and the registry that imports them.     *)
PackageName(name) ==
  IF Len(name) = 1 /\ name[1] \in Keyword THEN <<"route">> \o name ELSE [i \in DOMAIN name |-> Ident[name[i]]]

NameOf(pattern) == IF pattern = <<>> THEN <<"index">> ELSE [i \in DOMAIN pattern |-> pattern[i].word]

(* Meta alone makes no package.                                            *)
LoaderRoutes(p) == {r \in p.pages : r.funcs \cap {"Load", "Submit", "Sitemap"} # {}}

Generated(name, in, funcs, deferred) ==
  [package |-> PackageName(name), route |-> name, in |-> in, funcs |-> funcs, deferred |-> deferred]

Packages(p) ==
  {Generated(NameOf(r.pattern), "page.go", r.funcs, r.deferred) : r \in LoaderRoutes(p)}
  \cup {Generated(name, "page.go", {"Load"}, {}) : name \in p.fallbacks}
  \cup {Generated(name, "layout.go", {"Load"}, {}) : name \in p.layouts}
  \cup {Generated(name, "handler.go", {"Handler"}, {}) : name \in p.handlers}

Provider(g) == <<"provides", g.route, g.funcs \cup g.deferred>>

UnitFiles(p) ==
  LET pages == {g \in Packages(p) : g.in # "handler.go"} IN
  Merged({At("gen", <<g.package>>, g.in) := <<"frontmatter", g.route>> : g \in pages})
  ++ Merged({At("gen", <<g.package>>, "provider.go") := Provider(g) : g \in pages})
  ++ Merged({At("gen", <<g.package>>, "handler.go") := Provider(g) : g \in Packages(p) \ pages})

(* One map for each function, from the name a package gives its route.     *)
Registry(packages) ==
  At("gen", <<>>, "registry.go") :=
    <<"registry", [imports |-> packages, entries |-> UNION {{g} \X (g.funcs \cup g.deferred) : g \in packages}]>>
Embeds == (At("gen", <<>>, "embed.go") := <<"embed">>) ++ (At("gen", <<>>, "embed_js.go") := <<"served">>)
AppFile(images) == At("gen", <<>>, "app.go") := <<"app", images>>

Reserved == {<<"props">>, <<"styles">>, <<"public">>, <<"bundles">>}
(* Mutant: packages of pages that are gone are not told from the others.   *)
StalePackagesOf(p) == {f \in Under("gen", <<>>) : f.dir # <<>> /\ f.dir[1] \in {g.package : g \in Packages(p)}}
StalePackagesKept == StalePackagesOf(Seen.source)
StalePackages == {f \in Under("gen", <<>>) : f.dir # <<>> /\ f.dir[1] \notin Reserved}

ManifestFile == At("gen", <<>>, "manifest.bin")
ConfigFile == At("gen", <<>>, "config.json")
PreloadFile == At("gen", Bundles, "gopage.preload")
Inventory == At("cache", <<>>, "tailwind-inventory.txt")

RegistryFiles(j) == Registry(Packages(j.source)) ++ Embeds ++ AppFile(j.conf.images)
ManifestFiles(j, conf) == (ConfigFile := <<"config", conf>>) ++ (ManifestFile := <<"manifest", Manifest(j)>>)

(* Bootstrap, for a project that was never built.                          *)
Bootstrap ==
  Registry({}) ++ AppFile(FALSE) ++ Embeds
  ++ [f \in {ManifestFile, ConfigFile, PreloadFile} |-> <<"empty">>] ++ Keep(Styles) ++ Keep(Bundles) ++ Keep(Public)
-----------------------------------------------------------------------------
(* What each step writes.                                                  *)
WriteServed(file, content, compressible) ==
  [f \in {file} \cup {[file EXCEPT !.coding = c] : c \in IF compressible THEN {"br", "gz"} ELSE {}} |-> content]

(* The content is read again, from the sources as they are now, and shaped *)
(* again, unless the processor's work on it is held.                       *)
Rewritten(j, now, name) ==
  IF j.conf.engine = "tailwind" /\ j.source.styles[name].kind = "style" THEN Compiled(j, name)
  ELSE Transform(j.conf, j.classes, [kind |-> j.source.styles[name].kind, text |-> now.styles[name].text])

AssetFiles(j, now) ==
  Merged({WriteServed(At("gen", Styles, n), Rewritten(j, now, n), now.styles[n].kind = "style")
          ++ (AssetPath(n, Compiled(j, n)) := Rewritten(j, now, n)) : n \in DOMAIN j.source.styles})
  ++ Keep(Styles)

BundleFiles(j, sidecar) ==
  Merged({WriteServed(o.file, <<"chunk", o.file>>, TRUE) ++ (InAssets(o.file) := <<"chunk", o.file>>) : o \in Bundled(j)})
  ++ Keep(Bundles) ++ (PreloadFile := <<"sidecar", sidecar>>)

PublicFiles(now) ==
  Merged({(At("gen", Public \o f.dir, f.name) := now.public[f]) ++ (PublicPath(f.dir, f.name) := now.public[f]) : f \in DOMAIN now.public})
  ++ Keep(Public)

PropsFiles(p) ==
  Merged({At("gen", Props, i.name) := <<"props", i.name>> : i \in {k \in p.islands : k.props}})
  ++ (At("gen", <<>>, "props.d.ts") := <<"declares", {i.name : i \in {k \in p.islands : k.props}}>>)

Words(pattern) == [i \in DOMAIN pattern |-> <<pattern[i].word>>]
StaticPages(j) ==
  Merged({At("assets", Words(r.pattern), "index.html") := <<"page", r.pattern, Manifest(j).tags>> :
            r \in {q \in j.source.pages : q.class = "static"}})

Redirects(conf) ==
  IF conf.redirects = {} /\ ~conf.unprefixed THEN Nothing
  ELSE At("assets", <<>>, "_redirects") := <<"redirects", conf.redirects, conf.unprefixed>>

Headers == At("assets", <<>>, "_headers") := <<"headers">>
HostFiles(j) == Headers ++ Redirects(j.conf) ++ StaticPages(j)
InventoryFile(j) == Inventory := <<"classes", j.source.classes>>

(* The host runs the worker first where a page is dynamic, up to its first *)
(* parameter, and for the API.                                             *)
Glob(pattern) ==
  LET cut == S!SelectInSeq(pattern, LAMBDA s : s.param)
  IN  IF cut = 0 THEN [words |-> Words(pattern), rest |-> FALSE]
      ELSE [words |-> SubSeq(Words(pattern), 1, cut - 1), rest |-> TRUE]

WorkerPatterns(p) ==
  {[words |-> <<<<"api">>>>, rest |-> TRUE]} \cup {Glob(r.pattern) : r \in {q \in p.pages : q.class = "dynamic"}}

Gen == [f \in Under("gen", <<>>) |-> disk[f]]
Program(name) == At("dist", <<>>, name)
CopyTree == [f \in {[g EXCEPT !.root = "demo"] : g \in Under("assets", <<>>)} |-> disk[[f EXCEPT !.root = "assets"]]]

(* The Go compiler takes the tree when every import stands, once, and no   *)
(* map of the registry has a key twice.                                    *)
Compiles(files) ==
  LET registry == files[At("gen", <<>>, "registry.go")][2]
      provider(g) == At("gen", <<g.package>>, IF g.in = "handler.go" THEN "handler.go" ELSE "provider.go")
  IN  /\ \A e \in registry.entries : provider(e[1]) \in DOMAIN files /\ e[2] \in files[provider(e[1])][3]
      /\ \A g, h \in registry.imports : g # h => g.package # h.package /\ g.deferred \cap h.deferred = {}
-----------------------------------------------------------------------------
(* One build.                                                              *)
Idle == [at |-> "idle", conf |-> project, islands |-> project, source |-> project, classes |-> {}, still |-> TRUE, builds |-> 0]

InventoryHas(files) == IF Inventory \in DOMAIN files THEN files[Inventory][2] ELSE {}

Load ==
  /\ job.at \in {"idle", "done"} /\ job.builds < MaxBuilds
  /\ job' = [Idle EXCEPT !.at = "bundle", !.builds = job.builds + 1]
  /\ UNCHANGED <<project, disk>>

Bundle ==
  /\ job.at = "bundle"
  /\ disk' = WorkFiles(Now.islands) ++ disk
  /\ job' = [job EXCEPT !.at = "compile", !.islands = project]
  /\ UNCHANGED project

Compile ==
  /\ job.at = "compile" /\ ~Now.errors
  /\ job' = [job EXCEPT !.at = "packages", !.source = project, !.classes = Now.classes \cup InventoryHas(disk)]
  /\ UNCHANGED <<project, disk>>

Step(at, to, files) == job.at = at /\ disk' = files /\ job' = [job EXCEPT !.at = to] /\ UNCHANGED project
Without(dropped) == [f \in DOMAIN disk \ dropped |-> disk[f]]

CleanPackages == Step("packages", "units", Without(StalePackages))
WriteUnits == ~Seen.source.malformed /\ Step("units", "registry", UnitFiles(Seen.source) ++ disk)
WriteRegistry == Step("registry", "manifest", RegistryFiles(Seen) ++ disk)
WriteManifest == Step("manifest", "styles", ManifestFiles(Seen, job.conf) ++ disk)

ClearStyles == Step("styles", "assets", Without(Under("gen", Styles) \cup Under("assets", Assets)))
WriteAssets ==
  /\ DOMAIN Seen.source.styles \subseteq DOMAIN Now.styles
  /\ Step("assets", "bundles", AssetFiles(Seen, Now) ++ disk)

ClearBundles == Step("bundles", "chunks", Without(Under("gen", Bundles)))
WriteBundles == Step("chunks", "public", BundleFiles(Seen, Sidecar(Seen, Now)) ++ disk)

ClearPublic == Step("public", "files", Without(Under("gen", Public)))
WritePublic == Step("files", "inventory", PublicFiles(Now) ++ PropsFiles(Seen.source) ++ disk)
WriteInventory == Step("inventory", "pages", InventoryFile(Seen) ++ disk)
WriteStaticPages == Step("pages", "go", HostFiles(Seen) ++ disk)

Deploy(target) == IF target = "workers" THEN "wrangler.jsonc" ELSE "demo.json"
BuildGo ==
  /\ job.at = "go" /\ Compiles(Gen)
  /\ \E target \in {"native", "workers", "demo"} :
       disk' = (Program(target) := <<"program">>)
               ++ (IF target = "native" THEN Nothing ELSE Program(Deploy(target)) := <<"first", WorkerPatterns(Seen.source)>>)
               ++ (IF target = "demo" THEN CopyTree ELSE Nothing) ++ disk
  /\ job' = [job EXCEPT !.at = "done"]
  /\ UNCHANGED project

(* A step that fails, a kill, or a diagnostic: the step's files may have   *)
(* been written, or torn on the way.                                       *)
Writing ==
  CASE job.at = "bundle" -> WorkFiles(Now.islands)
    [] job.at = "units"  -> UnitFiles(Seen.source)
    [] job.at = "assets" -> AssetFiles(Seen, Seen.source)
    [] job.at = "chunks" -> BundleFiles(Seen, Sidecar(Seen, Now))
    [] job.at = "files"  -> PublicFiles(Now)
    [] job.at = "pages"  -> StaticPages(Seen)
    [] OTHER -> Nothing

Stop ==
  /\ job.at \notin {"idle", "done"}
  /\ disk' \in {disk, [f \in DOMAIN Writing |-> <<"torn">>] ++ disk}
  /\ job' = [Idle EXCEPT !.builds = job.builds]
  /\ UNCHANGED project

(* At most one edit in a build.                                           *)
Edit(p) == (job.at \in {"idle", "done"} \/ job.still) /\ project' = p /\ job' = [job EXCEPT !.still = FALSE] /\ UNCHANGED disk

Init == project \in DOMAIN Sources /\ disk \in {Nothing, Bootstrap} /\ job = Idle
Next ==
  \/ Load \/ Bundle \/ Compile \/ CleanPackages \/ WriteUnits \/ WriteRegistry \/ WriteManifest \/ ClearStyles
  \/ WriteAssets \/ ClearBundles \/ WriteBundles \/ ClearPublic \/ WritePublic \/ WriteInventory \/ WriteStaticPages
  \/ BuildGo \/ Stop \/ \E p \in DOMAIN Sources \ {project} : Edit(p)
Spec == Init /\ [][Next]_vars
-----------------------------------------------------------------------------
(* What is served: by the program, from the tree it was built over, and by *)
(* the host, from dist/assets unless a pattern gives the worker the word.  *)
Served(files) ==
  {AssetPath(f.name, files[f]) : f \in {g \in DOMAIN files : g.dir = Styles /\ g.coding = "identity" /\ g.name # ".keep"}}
  \cup {InAssets(f) : f \in {g \in DOMAIN files : g.dir = Bundles /\ g.coding = "identity" /\ g.name \notin {".keep", "gopage.preload"}}}
  \cup {PublicPath(SubSeq(f.dir, 2, Len(f.dir)), f.name) : f \in {g \in DOMAIN files : S!IsPrefix(Public, g.dir)}}

Linked(files) ==
  LET sidecar == files[PreloadFile][2]
  IN  files[ManifestFile][2].tags \cup sidecar.links \cup {InAssets(c) : c \in sidecar.modules \cup LazyChunks(sidecar)}

Covered(patterns, dir) ==
  \E g \in patterns : IF g.rest THEN S!IsPrefix(g.words, dir) ELSE g.words = dir

Matches(pattern, dir) ==
  Len(pattern) = Len(dir) /\ \A i \in DOMAIN pattern : pattern[i].param \/ Words(pattern)[i] = dir[i]
-----------------------------------------------------------------------------
(* What a build from nothing writes, by the classes the processor saw.     *)
Fresh(j, now, conf) ==
  HostFiles(j) ++ InventoryFile(j) ++ (PublicFiles(now) ++ PropsFiles(now)) ++ BundleFiles(j, Sidecar(j, now)) ++ AssetFiles(j, now)
  ++ ManifestFiles(j, conf) ++ RegistryFiles(j) ++ UnitFiles(now)

Undisturbed == job.at \in {"go", "done"} /\ job.still

(* Two names that make one package, and names of the directories beside.   *)
Clashing(p) ==
  \/ \E g, h \in Packages(p) : g # h /\ (g.package = h.package \/ g.deferred \cap h.deferred # {})
  \/ \E g \in Packages(p) : g.package \in Reserved

(* Files a build leaves behind: outside the trees it clears.               *)
Leftover(f) == f.root \in {"cache", "demo", "dist"} \/ (f.root = "gen" /\ f.dir = Props) \/ (f.root = "assets" /\ f.dir # Assets)

StartsAnew ==
  Undisturbed /\ ~Clashing(Now) =>
    LET fresh == Fresh(Seen, Now, project) IN
    /\ \A f \in DOMAIN fresh : f \in DOMAIN disk /\ disk[f] = fresh[f]
    /\ \A f \in DOMAIN disk \ DOMAIN fresh :
         /\ Leftover(f)
         /\ f.root = "assets" /\ f.name = "index.html" =>
              \A r \in Now.pages : r.class = "dynamic" /\ Matches(r.pattern, f.dir) => Covered(WorkerPatterns(Now), f.dir)
    /\ Compiles(Gen)

LinksAreServed == Undisturbed => Linked(Gen) \subseteq Served(Gen) \cap DOMAIN disk

(* Whatever builds before it were stopped at, tore or left, a build no edit*)
(* disturbs leaves the trees it clears as a build from nothing would, in   *)
(* Go code that compiles; and no page that is left behind in dist/assets   *)
(* answers for one the worker has to (build.go, generate.go).              *)
(* And every file the pages, the Link header and the preloads name is      *)
(* served, by the program and from dist/assets: the hash in the page, which*)
(* is taken when the compiler runs, is that of the file written after it   *)
(* and that of the file the server reads (assets.go, styles.go,            *)
(* sidecar.go).                                                            *)
BuildsAreWhole == StartsAnew /\ LinksAreServed
=============================================================================
