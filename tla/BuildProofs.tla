---------------------------- MODULE BuildProofs ----------------------------
(***************************************************************************)
(* A build no edit disturbs starts anew and serves what it links, for any  *)
(* sources and whatever builds before it left (Build).                     *)
(***************************************************************************)
EXTENDS Build, SequenceTheorems, WellFoundedInduction, TLAPS
-----------------------------------------------------------------------------
(* Files written over others.                                              *)
LEMMA OverDomain ==
  ASSUME NEW a, NEW b, NEW f
  PROVE  f \in DOMAIN (a ++ b) <=> f \in DOMAIN a \/ f \in DOMAIN b
BY DEF ++

LEMMA OverAbove ==
  ASSUME NEW a, NEW b, NEW f \in DOMAIN a
  PROVE  (a ++ b)[f] = a[f]
BY DEF ++

LEMMA OverBelow ==
  ASSUME NEW a, NEW b, NEW f \in DOMAIN b, f \notin DOMAIN a
  PROVE  (a ++ b)[f] = b[f]
BY DEF ++

LEMMA OverAssociates == ASSUME NEW a, NEW b, NEW c PROVE (a ++ b) ++ c = a ++ (b ++ c)
BY DEF ++

LEMMA FileAlone == ASSUME NEW f, NEW x, NEW g PROVE (g \in DOMAIN (f := x) <=> g = f) /\ (f := x)[f] = x
BY DEF :=

LEMMA NothingIsNoFile == ASSUME NEW f PROVE f \notin DOMAIN Nothing
BY DEF Nothing

LEMMA MergedDomain ==
  ASSUME NEW maps, NEW f
  PROVE  f \in DOMAIN Merged(maps) <=> \E m \in maps : f \in DOMAIN m
BY DEF Merged

LEMMA MergedIsOne ==
  ASSUME NEW maps, NEW f \in DOMAIN Merged(maps)
  PROVE  \E m \in maps : f \in DOMAIN m /\ Merged(maps)[f] = m[f]
<1>1. PICK m \in maps : f \in DOMAIN m
  BY DEF Merged
<1> DEFINE chosen == CHOOSE n \in maps : f \in DOMAIN n
<1>2. chosen \in maps /\ f \in DOMAIN chosen
  BY <1>1
<1>3. Merged(maps)[f] = chosen[f]
  BY MergedDomain DEF Merged
<1> QED
  BY <1>2, <1>3

(* What is there shows on the disk.                                        *)
Stands(files, on) == \A f \in DOMAIN files : f \in DOMAIN on /\ on[f] = files[f]

LEMMA StandsWritten ==
  ASSUME NEW files, NEW on, NEW more, Stands(files, on)
  PROVE  Stands(more ++ files, more ++ on)
BY DEF Stands, ++

LEMMA StandsUnder ==
  ASSUME NEW files, NEW on, NEW more, Stands(files, on), DOMAIN files \cap DOMAIN more = {}
  PROVE  Stands(files, more ++ on)
BY DEF Stands, ++

LEMMA StandsWithout ==
  ASSUME NEW files, NEW dropped, Stands(files, disk), DOMAIN files \cap dropped = {}
  PROVE  Stands(files, Without(dropped))
BY DEF Stands, Without

LEMMA NothingStands == ASSUME NEW on PROVE Stands(Nothing, on)
BY NothingIsNoFile DEF Stands
-----------------------------------------------------------------------------
(* Directories.                                                            *)
IsDir(d) == \E Name : d \in Seq(Name)

LEMMA EmptyIsADirectory == IsDir(<<>>)
<1>1. <<>> \in Seq({})
  OBVIOUS
<1> QED
  BY <1>1 DEF IsDir

LEMMA DirectoriesOfOne ==
  ASSUME NEW w
  PROVE  IsDir(<<w>>) /\ <<w>> # <<>> /\ <<w>>[1] = w
<1>1. <<w>> \in Seq({w})
  OBVIOUS
<1> QED
  BY <1>1 DEF IsDir

LEMMA DirectoriesBelow ==
  ASSUME NEW w, NEW d, IsDir(d)
  PROVE  /\ IsDir(<<w>> \o d) /\ <<w>> \o d # <<>> /\ (<<w>> \o d)[1] = w
         /\ SubSeq(<<w>> \o d, 2, Len(<<w>> \o d)) = d
<1>1. PICK Name : d \in Seq(Name)
  BY DEF IsDir
<1> DEFINE All == Name \cup {w}
           below == <<w>> \o d
<1>2. d \in Seq(All)
  BY <1>1, SeqMonotonic, Zenon
<1>3. <<w>> \in Seq(All)
  OBVIOUS
<1>4. below \in Seq(All) /\ Len(below) = 1 + Len(d) /\ below[1] = w
      /\ \A i \in 1..Len(d) : below[i + 1] = d[i]
  BY <1>2, <1>3
<1>5. Len(d) \in Nat
  BY <1>2
<1>6. SubSeq(below, 2, Len(below)) = d
  BY <1>2, <1>4, <1>5
<1> QED
  BY <1>4, <1>5, <1>6 DEF IsDir

LEMMA PrefixOfOne ==
  ASSUME NEW d, IsDir(d), NEW w
  PROVE  (S!IsPrefix(<<w>>, d) <=> d # <<>> /\ d[1] = w) /\ S!IsPrefix(<<>>, d)
<1>1. PICK Name : d \in Seq(Name)
  BY DEF IsDir
<1> QED
  BY <1>1 DEF S!IsPrefix

LEMMA ReservedDiffer ==
  /\ Styles = <<<<"styles">>>> /\ Public = <<<<"public">>>> /\ Bundles = <<<<"bundles">>>> /\ Props = <<<<"props">>>>
  /\ Assets = <<<<"assets">>>>
  /\ <<"styles">> # <<"props">> /\ <<"public">> # <<"props">> /\ <<"bundles">> # <<"props">>
  /\ <<"styles">> # <<"public">> /\ <<"styles">> # <<"bundles">> /\ <<"public">> # <<"bundles">>
BY DEF Styles, Public, Bundles, Props, Assets

LEMMA WordsAreADirectory ==
  ASSUME NEW p, IsProject(p), NEW r \in p.pages
  PROVE  /\ DOMAIN r.pattern = 1..Len(r.pattern) /\ Len(r.pattern) \in Nat
         /\ \A i \in 1..Len(r.pattern) : r.pattern[i].param \in BOOLEAN
         /\ IsDir(Words(r.pattern)) /\ Len(Words(r.pattern)) = Len(r.pattern)
         /\ DOMAIN Words(r.pattern) = 1..Len(r.pattern)
<1> DEFINE Word == [word : STRING, param : BOOLEAN]
           Name == {Words(r.pattern)[i] : i \in DOMAIN r.pattern}
<1>1. r.pattern \in Seq(Word)
  BY DEF IsProject
<1>2. DOMAIN r.pattern = 1..Len(r.pattern) /\ Len(r.pattern) \in Nat
  BY <1>1, LenProperties
<1>3. \A i \in 1..Len(r.pattern) : r.pattern[i] \in Word
  BY <1>1, ElementOfSeq
<1>4. \A i \in 1..Len(r.pattern) : r.pattern[i].param \in BOOLEAN
  BY <1>3
<1>5. Words(r.pattern) \in Seq(Name)
  <2>1. \A i \in 1..Len(r.pattern) : Words(r.pattern)[i] \in Name
    BY <1>2
  <2>2. Words(r.pattern) = [i \in 1..Len(r.pattern) |-> Words(r.pattern)[i]]
    BY <1>2 DEF Words
  <2> QED
    BY <1>2, <2>1, <2>2, IsASeq
<1>6. DOMAIN Words(r.pattern) = 1..Len(r.pattern)
  BY <1>2 DEF Words
<1>7. Len(Words(r.pattern)) = Len(r.pattern)
  BY <1>2, <1>5, <1>6, LenProperties
<1> QED
  BY <1>2, <1>4, <1>5, <1>6, <1>7 DEF IsDir
-----------------------------------------------------------------------------
(* Where the files of each step are.                                       *)
Top ==
  {At("gen", <<>>, n) : n \in {"registry.go", "app.go", "embed.go", "embed_js.go", "manifest.bin", "config.json", "props.d.ts"}}

IsFile(f) == f = [root |-> f.root, dir |-> f.dir, name |-> f.name, hash |-> f.hash, coding |-> f.coding]

Placed(f) ==
  /\ IsFile(f) /\ f.root \in {"gen", "assets", "demo", "dist", "cache"} /\ IsDir(f.dir)
  /\ f.root = "gen" => f \in Top \/ (f.dir # <<>> /\ (f.dir[1] = <<"props">> => f.dir = Props))

(* In the directory dir of the tree of generated code, or in dist/assets/of*)
Within(f, dir, of) == IsFile(f) /\ ((f.root = "gen" /\ f.dir = dir) \/ (f.root = "assets" /\ f.dir = of))

LEMMA AtIsAFile ==
  ASSUME NEW root, NEW dir, NEW name
  PROVE  /\ IsFile(At(root, dir, name)) /\ At(root, dir, name).root = root /\ At(root, dir, name).dir = dir
         /\ At(root, dir, name).name = name /\ At(root, dir, name).hash = <<>> /\ At(root, dir, name).coding = "identity"
BY DEF IsFile, At

LEMMA HashChanged ==
  ASSUME NEW f, IsFile(f), NEW v
  PROVE  [f EXCEPT !.hash = v] = [root |-> f.root, dir |-> f.dir, name |-> f.name, hash |-> v, coding |-> f.coding]
BY DEF IsFile

LEMMA CodingChanged ==
  ASSUME NEW f, IsFile(f), NEW v
  PROVE  [f EXCEPT !.coding = v] = [root |-> f.root, dir |-> f.dir, name |-> f.name, hash |-> f.hash, coding |-> v]
BY DEF IsFile

LEMMA RootChanged ==
  ASSUME NEW f, IsFile(f), NEW v
  PROVE  [f EXCEPT !.root = v] = [root |-> v, dir |-> f.dir, name |-> f.name, hash |-> f.hash, coding |-> f.coding]
BY DEF IsFile

LEMMA AllFieldsMakeAFile ==
  ASSUME NEW a, NEW b, NEW c, NEW d, NEW e, NEW f, f = [root |-> a, dir |-> b, name |-> c, hash |-> d, coding |-> e]
  PROVE  IsFile(f) /\ f.root = a /\ f.dir = b /\ f.name = c /\ f.hash = d /\ f.coding = e
BY DEF IsFile

LEMMA SameFields ==
  ASSUME NEW f, NEW g, IsFile(f), IsFile(g), f.root = g.root, f.dir = g.dir, f.name = g.name, f.hash = g.hash, f.coding = g.coding
  PROVE  f = g
BY DEF IsFile

LEMMA HashedIsAFile ==
  ASSUME NEW root, NEW dir, NEW name, NEW hash
  PROVE  /\ IsFile(Hashed(root, dir, name, hash)) /\ Hashed(root, dir, name, hash).root = root
         /\ Hashed(root, dir, name, hash).dir = dir /\ Hashed(root, dir, name, hash).name = name
         /\ Hashed(root, dir, name, hash).hash = hash /\ Hashed(root, dir, name, hash).coding = "identity"
<1> DEFINE f == At(root, dir, name)
<1>1. IsFile(f) /\ f.root = root /\ f.dir = dir /\ f.name = name /\ f.coding = "identity"
  BY AtIsAFile
<1> HIDE DEF f
<1>2. [f EXCEPT !.hash = hash] = [root |-> root, dir |-> dir, name |-> name, hash |-> hash, coding |-> "identity"]
  BY <1>1, HashChanged
<1> QED
  BY <1>2, AllFieldsMakeAFile DEF Hashed, f

LEMMA InAssetsIsAFile ==
  ASSUME NEW f
  PROVE  /\ IsFile(InAssets(f)) /\ InAssets(f).root = "assets" /\ InAssets(f).dir = Assets
         /\ InAssets(f).name = f.name /\ InAssets(f).hash = f.hash /\ InAssets(f).coding = "identity"
BY HashedIsAFile DEF InAssets

LEMMA TopIsPlaced == ASSUME NEW f \in Top PROVE Placed(f) /\ f.root = "gen" /\ f.dir = <<>>
<1>1. PICK n : f = At("gen", <<>>, n)
  BY DEF Top
<1> QED
  BY <1>1, AtIsAFile, EmptyIsADirectory DEF Placed

LEMMA WithinIsPlaced ==
  ASSUME NEW f, NEW w, Within(f, <<w>>, Assets), w # <<"props">> \/ <<w>> = Props
  PROVE  Placed(f)
BY DirectoriesOfOne, ReservedDiffer DEF Placed, Within

LEMMA UnitsAreInPackages ==
  ASSUME NEW p, NEW f \in DOMAIN UnitFiles(p)
  PROVE  IsFile(f) /\ f.root = "gen" /\ \E g \in Packages(p) : f.dir = <<g.package>>
<1> DEFINE pages == {g \in Packages(p) : g.in # "handler.go"}
<1>1. \E g \in Packages(p) : \E name : f = At("gen", <<g.package>>, name)
  <2> DEFINE frontmatter(g) == At("gen", <<g.package>>, g.in) := <<"frontmatter", g.route>>
             provider(g) == At("gen", <<g.package>>, "provider.go") := Provider(g)
             handler(g) == At("gen", <<g.package>>, "handler.go") := Provider(g)
  <2>1. \/ f \in DOMAIN Merged({frontmatter(g) : g \in pages})
        \/ f \in DOMAIN Merged({provider(g) : g \in pages})
        \/ f \in DOMAIN Merged({handler(g) : g \in Packages(p) \ pages})
    <3>1. UnitFiles(p) = Merged({frontmatter(g) : g \in pages}) ++ Merged({provider(g) : g \in pages})
                         ++ Merged({handler(g) : g \in Packages(p) \ pages})
      BY DEF UnitFiles
    <3> HIDE DEF frontmatter, provider, handler, pages
    <3> QED
      BY <3>1, OverDomain
  <2>2. \E g \in Packages(p) : f \in DOMAIN frontmatter(g) \/ f \in DOMAIN provider(g) \/ f \in DOMAIN handler(g)
    <3> HIDE DEF frontmatter, provider, handler
    <3> QED
      BY <2>1, MergedDomain
  <2>3. PICK g \in Packages(p) : f \in DOMAIN frontmatter(g) \/ f \in DOMAIN provider(g) \/ f \in DOMAIN handler(g)
    BY <2>2
  <2>4. f \in {At("gen", <<g.package>>, g.in), At("gen", <<g.package>>, "provider.go"), At("gen", <<g.package>>, "handler.go")}
    BY <2>3, FileAlone
  <2> QED
    BY <2>4
<1> QED
  BY <1>1, AtIsAFile

LEMMA RegistryIsOnTop ==
  ASSUME NEW j
  PROVE  DOMAIN RegistryFiles(j) = {At("gen", <<>>, n) : n \in {"registry.go", "embed.go", "embed_js.go", "app.go"}}
BY DEF RegistryFiles, Registry, Embeds, AppFile, ++, :=

LEMMA ManifestIsOnTop == ASSUME NEW j, NEW conf PROVE DOMAIN ManifestFiles(j, conf) = {ConfigFile, ManifestFile}
BY DEF ManifestFiles, ++, :=

LEMMA ServedAt ==
  ASSUME NEW f, NEW content, NEW compressible, IsFile(f)
  PROVE  /\ f \in DOMAIN WriteServed(f, content, compressible) /\ WriteServed(f, content, compressible)[f] = content
         /\ \A g \in DOMAIN WriteServed(f, content, compressible) :
              IsFile(g) /\ g.root = f.root /\ g.dir = f.dir /\ g.name = f.name /\ g.hash = f.hash
              /\ (g = f \/ g.coding \in {"br", "gz"})
BY DEF WriteServed, IsFile, Within

LEMMA CompressedAt ==
  ASSUME NEW f, IsFile(f), NEW content, NEW g \in DOMAIN WriteServed(f, content, TRUE)
  PROVE  IsFile(g) /\ g.root = f.root /\ g.dir = f.dir /\ g.name = f.name /\ g.hash = f.hash /\ (g = f \/ g.coding \in {"br", "gz"})
BY DEF WriteServed, IsFile

LEMMA AssetsAreInStyles ==
  ASSUME NEW j, NEW now, NEW f \in DOMAIN AssetFiles(j, now)
  PROVE  Within(f, Styles, Assets)
<1> DEFINE part(n) == WriteServed(At("gen", Styles, n), Rewritten(j, now, n), now.styles[n].kind = "style")
                      ++ (AssetPath(n, Compiled(j, n)) := Rewritten(j, now, n))
<1>1. f \in DOMAIN Merged({part(n) : n \in DOMAIN j.source.styles}) \/ f \in DOMAIN Keep(Styles)
  BY OverDomain DEF AssetFiles
<1>2. ASSUME NEW n, f \in DOMAIN part(n) PROVE Within(f, Styles, Assets)
  <2>1. f \in DOMAIN WriteServed(At("gen", Styles, n), Rewritten(j, now, n), now.styles[n].kind = "style")
        \/ f = AssetPath(n, Compiled(j, n))
    BY <1>2, OverDomain, FileAlone
  <2> QED
    BY <2>1, ServedAt, AtIsAFile, HashedIsAFile DEF AssetPath, Within
<1>3. f \in DOMAIN Keep(Styles) => Within(f, Styles, Assets)
  BY FileAlone, AtIsAFile DEF Keep, Within
<1> QED
  <2> HIDE DEF part
  <2> QED
    BY <1>1, <1>2, <1>3, MergedDomain

(* What esbuild puts out: the entry, a chunk of an island, a shared chunk.  *)
LEMMA OutputsOfEsbuild ==
  ASSUME NEW islands, NEW navigation, NEW o \in Esbuild(islands, navigation)
  PROVE  /\ \/ o.file = Chunk("gopage.client", <<{i.code : i \in islands}>>)
            \/ \E i \in islands : o.file = ChunkOf(i)
            \/ o.file \in {Library, Helpers}
         /\ o.imports \subseteq {Library, Helpers}
<1> DEFINE shared == IF Cardinality({i \in islands : i.react}) > 1 THEN {Library} ELSE {}
           helpers == IF islands # {} /\ navigation THEN {Helpers} ELSE {}
           entry == Chunk("gopage.client", <<{i.code : i \in islands}>>)
           output(chunk, imports, inputs) == [file |-> chunk, entry |-> chunk = entry, imports |-> imports, inputs |-> inputs]
<1>1. \/ o = output(entry, helpers, {})
      \/ \E i \in islands : o = output(ChunkOf(i), helpers \cup (IF i.react THEN shared ELSE {}), {EntryOf(i)})
      \/ \E chunk \in shared \cup helpers : o = output(chunk, {}, {})
  BY DEF Esbuild
<1>2. shared \subseteq {Library} /\ helpers \subseteq {Helpers}
  OBVIOUS
<1> HIDE DEF shared, helpers
<1>3. CASE o = output(entry, helpers, {})
  <2>1. o.file = entry /\ o.imports = helpers
    BY <1>3
  <2> QED
    BY <2>1, <1>2
<1>4. CASE \E i \in islands : o = output(ChunkOf(i), helpers \cup (IF i.react THEN shared ELSE {}), {EntryOf(i)})
  <2>1. PICK i \in islands : o = output(ChunkOf(i), helpers \cup (IF i.react THEN shared ELSE {}), {EntryOf(i)})
    BY <1>4
  <2>2. o.file = ChunkOf(i) /\ o.imports \subseteq helpers \cup shared
    BY <2>1
  <2> QED
    BY <2>2, <1>2
<1>5. CASE \E chunk \in shared \cup helpers : o = output(chunk, {}, {})
  <2>1. PICK chunk \in shared \cup helpers : o = output(chunk, {}, {})
    BY <1>5
  <2>2. o.file = chunk /\ o.imports = {}
    BY <2>1
  <2> QED
    BY <2>2, <1>2
<1> QED
  BY <1>1, <1>3, <1>4, <1>5

LEMMA ImportsOfEsbuild ==
  ASSUME NEW islands, NEW navigation, NEW o \in Esbuild(islands, navigation), NEW chunk \in o.imports
  PROVE  \E other \in Esbuild(islands, navigation) : other.file = chunk
<1> DEFINE shared == IF Cardinality({i \in islands : i.react}) > 1 THEN {Library} ELSE {}
           helpers == IF islands # {} /\ navigation THEN {Helpers} ELSE {}
           entry == Chunk("gopage.client", <<{i.code : i \in islands}>>)
           output(file, imports, inputs) == [file |-> file, entry |-> file = entry, imports |-> imports, inputs |-> inputs]
<1>1. \/ o = output(entry, helpers, {})
      \/ \E i \in islands : o = output(ChunkOf(i), helpers \cup (IF i.react THEN shared ELSE {}), {EntryOf(i)})
      \/ \E file \in shared \cup helpers : o = output(file, {}, {})
  BY DEF Esbuild
<1>2. \A file \in shared \cup helpers : output(file, {}, {}) \in Esbuild(islands, navigation)
  BY DEF Esbuild
<1> HIDE DEF shared, helpers
<1>3. chunk \in shared \cup helpers
  <2>1. CASE o = output(entry, helpers, {})
    BY <2>1
  <2>2. CASE \E i \in islands : o = output(ChunkOf(i), helpers \cup (IF i.react THEN shared ELSE {}), {EntryOf(i)})
    BY <2>2
  <2>3. CASE \E file \in shared \cup helpers : o = output(file, {}, {})
    BY <2>3
  <2> QED
    BY <1>1, <2>1, <2>2, <2>3
<1>4. output(chunk, {}, {}).file = chunk
  OBVIOUS
<1> QED
  BY <1>2, <1>3, <1>4

LEMMA ChunksAreInBundles ==
  ASSUME NEW j, NEW o \in Bundled(j)
  PROVE  /\ IsFile(o.file) /\ o.file.root = "gen" /\ o.file.dir = Bundles /\ o.file.coding = "identity"
         /\ o.file.name \in {"island", "gopage.client"} /\ o.file.hash # <<>>
<1> DEFINE islands == j.islands.islands
<1>1. Bundled(j) = Esbuild(islands, j.conf.navigation) /\ o \in Esbuild(islands, j.conf.navigation)
  BY DEF Bundled
<1>2. \/ o.file = Hashed("gen", Bundles, "gopage.client", <<{i.code : i \in islands}>>)
      \/ \E i \in islands : o.file = Hashed("gen", Bundles, "island", <<i.name, i.code>>)
      \/ o.file \in {Hashed("gen", Bundles, "island", <<"react">>), Hashed("gen", Bundles, "island", <<"helpers">>)}
  <2>1. \/ o.file = Chunk("gopage.client", <<{i.code : i \in islands}>>)
        \/ \E i \in islands : o.file = ChunkOf(i)
        \/ o.file \in {Library, Helpers}
    BY <1>1, OutputsOfEsbuild
  <2> QED
    BY <2>1 DEF ChunkOf, Chunk, Library, Helpers
<1>3. /\ <<{i.code : i \in islands}>> # <<>> /\ <<"react">> # <<>> /\ <<"helpers">> # <<>>
      /\ \A i \in islands : <<i.name, i.code>> # <<>>
  OBVIOUS
<1>4. \E name \in {"island", "gopage.client"} : \E hash : hash # <<>> /\ o.file = Hashed("gen", Bundles, name, hash)
  BY <1>2, <1>3
<1> QED
  BY <1>4, HashedIsAFile

LEMMA BundlesAreInBundles ==
  ASSUME NEW j, NEW sidecar, NEW f \in DOMAIN BundleFiles(j, sidecar)
  PROVE  Within(f, Bundles, Assets)
<1> DEFINE part(o) == WriteServed(o.file, <<"chunk", o.file>>, TRUE) ++ (InAssets(o.file) := <<"chunk", o.file>>)
<1>1. f \in DOMAIN Merged({part(o) : o \in Bundled(j)}) \/ f \in DOMAIN Keep(Bundles) \/ f = PreloadFile
  BY OverDomain, FileAlone DEF BundleFiles
<1>2. ASSUME NEW o \in Bundled(j), f \in DOMAIN part(o) PROVE Within(f, Bundles, Assets)
  <2> DEFINE written == WriteServed(o.file, <<"chunk", o.file>>, TRUE)
             copy == InAssets(o.file)
             content == <<"chunk", o.file>>
  <2>1. f \in DOMAIN written \/ f = copy
    <3>1. f \in DOMAIN (written ++ (copy := content))
      BY <1>2
    <3> HIDE DEF written, copy, content
    <3> QED
      BY <3>1, OverDomain, FileAlone
  <2>2. IsFile(InAssets(o.file)) /\ InAssets(o.file).root = "assets" /\ InAssets(o.file).dir = Assets
    BY InAssetsIsAFile
  <2>3. ASSUME f \in DOMAIN written PROVE IsFile(f) /\ f.root = "gen" /\ f.dir = Bundles
    <3> DEFINE file == o.file
    <3>1. IsFile(file) /\ file.root = "gen" /\ file.dir = Bundles
      BY ChunksAreInBundles
    <3> HIDE DEF file
    <3>2. f \in DOMAIN WriteServed(file, <<"chunk", file>>, TRUE)
      BY <2>3 DEF file
    <3> QED
      BY <3>1, <3>2, CompressedAt
  <2> QED
    BY <2>1, <2>2, <2>3 DEF Within
<1>3. f \in DOMAIN Keep(Bundles) \/ f = PreloadFile => Within(f, Bundles, Assets)
  BY FileAlone, AtIsAFile DEF Keep, Within, PreloadFile
<1> QED
  <2> HIDE DEF part
  <2> QED
    BY <1>1, <1>2, <1>3, MergedDomain

LEMMA PublicIsInPublic ==
  ASSUME NEW now, IsProject(now), NEW f \in DOMAIN PublicFiles(now)
  PROVE  IsFile(f) /\ IsDir(f.dir) /\ (f.root = "assets" \/ (f.root = "gen" /\ f.dir # <<>> /\ f.dir[1] = <<"public">>))
<1> DEFINE part(g) == (At("gen", Public \o g.dir, g.name) := now.public[g]) ++ (PublicPath(g.dir, g.name) := now.public[g])
<1>1. f \in DOMAIN Merged({part(g) : g \in DOMAIN now.public}) \/ f \in DOMAIN Keep(Public)
  BY OverDomain DEF PublicFiles
<1>2. ASSUME NEW g \in DOMAIN now.public, f \in DOMAIN part(g)
      PROVE  IsFile(f) /\ IsDir(f.dir) /\ (f.root = "assets" \/ (f.root = "gen" /\ f.dir # <<>> /\ f.dir[1] = <<"public">>))
  <2>1. f = At("gen", Public \o g.dir, g.name) \/ f = At("assets", g.dir, g.name)
    BY <1>2, OverDomain, FileAlone DEF PublicPath
  <2>2. IsDir(g.dir)
    BY DEF IsProject, IsDir
  <2> QED
    <3>1. IsDir(Public \o g.dir) /\ Public \o g.dir # <<>> /\ (Public \o g.dir)[1] = <<"public">>
      BY <2>2, DirectoriesBelow DEF Public
    <3> DEFINE below == Public \o g.dir
    <3> HIDE DEF below
    <3>2. f = At("gen", below, g.name) \/ f = At("assets", g.dir, g.name)
      BY <2>1 DEF below
    <3>3. IsDir(below) /\ below # <<>> /\ below[1] = <<"public">>
      BY <3>1 DEF below
    <3> QED
      BY <2>2, <3>2, <3>3, AtIsAFile
<1>3. f \in DOMAIN Keep(Public) => IsFile(f) /\ f.root = "gen" /\ IsDir(f.dir) /\ f.dir # <<>> /\ f.dir[1] = <<"public">>
  BY FileAlone, AtIsAFile, DirectoriesOfOne DEF Keep, Public
<1> QED
  <2> HIDE DEF part
  <2> QED
    BY <1>1, <1>2, <1>3, MergedDomain

LEMMA PropsAreInProps ==
  ASSUME NEW p, NEW f \in DOMAIN PropsFiles(p)
  PROVE  (IsFile(f) /\ f.root = "gen" /\ f.dir = Props) \/ f = At("gen", <<>>, "props.d.ts")
<1> DEFINE part(i) == At("gen", Props, i.name) := <<"props", i.name>>
<1>1. f \in DOMAIN Merged({part(i) : i \in {k \in p.islands : k.props}}) \/ f = At("gen", <<>>, "props.d.ts")
  BY OverDomain, FileAlone DEF PropsFiles
<1>2. ASSUME NEW i, f \in DOMAIN part(i) PROVE IsFile(f) /\ f.root = "gen" /\ f.dir = Props
  BY <1>2, FileAlone, AtIsAFile
<1> QED
  <2> HIDE DEF part
  <2> QED
    BY <1>1, <1>2, MergedDomain

LEMMA StaticPagesAreAssets ==
  ASSUME NEW j, IsProject(j.source), NEW f \in DOMAIN StaticPages(j)
  PROVE  IsFile(f) /\ f.root = "assets" /\ IsDir(f.dir)
<1> DEFINE part(r) == At("assets", Words(r.pattern), "index.html") := <<"page", r.pattern, Manifest(j).tags>>
<1>1. \E r \in j.source.pages : f \in DOMAIN part(r)
  <2> HIDE DEF part
  <2>1. f \in DOMAIN Merged({part(r) : r \in {q \in j.source.pages : q.class = "static"}})
    BY DEF StaticPages, part
  <2> QED
    BY <2>1, MergedDomain
<1>2. PICK r \in j.source.pages : f = At("assets", Words(r.pattern), "index.html")
  BY <1>1, FileAlone
<1> QED
  BY <1>2, WordsAreADirectory, AtIsAFile DEF At

LEMMA HostFilesAreAssets ==
  ASSUME NEW j, IsProject(j.source), NEW f \in DOMAIN HostFiles(j)
  PROVE  IsFile(f) /\ f.root = "assets" /\ IsDir(f.dir)
<1>1. f \in DOMAIN StaticPages(j) \/ f \in {At("assets", <<>>, "_headers"), At("assets", <<>>, "_redirects")}
  BY OverDomain, FileAlone, NothingIsNoFile DEF HostFiles, Headers, Redirects
<1> QED
  BY <1>1, StaticPagesAreAssets, AtIsAFile, EmptyIsADirectory

LEMMA WorkIsInTheCache ==
  ASSUME NEW islands, NEW f \in DOMAIN WorkFiles(islands) \cup {Inventory}
  PROVE  IsFile(f) /\ f.root = "cache" /\ IsDir(f.dir)
<1> DEFINE part(i) == At("cache", <<<<"islands">>>>, i.name) := <<"island", i>>
<1>1. f = Inventory \/ \E i : f \in DOMAIN part(i)
  <2> HIDE DEF part
  <2>1. f = Inventory \/ f \in DOMAIN Merged({part(i) : i \in {j \in islands : j.inline \/ j.react}})
    BY DEF WorkFiles, part
  <2> QED
    BY <2>1, MergedDomain
<1>2. f = At("cache", <<>>, "tailwind-inventory.txt") \/ \E name : f = At("cache", <<<<"islands">>>>, name)
  <2>1. ASSUME NEW i, f \in DOMAIN part(i) PROVE f = At("cache", <<<<"islands">>>>, i.name)
    BY <2>1, FileAlone
  <2> HIDE DEF part
  <2> QED
    BY <1>1, <2>1 DEF Inventory
<1> QED
  BY <1>2, AtIsAFile, DirectoriesOfOne, EmptyIsADirectory
-----------------------------------------------------------------------------
(* What an undisturbed build has written when it comes to a step, over the *)
(* files u of the packages.                                                *)
Written(at, j, now, conf, u) ==
  LET registry == RegistryFiles(j) ++ u
      manifest == ManifestFiles(j, conf) ++ registry
      assets == AssetFiles(j, now) ++ manifest
      bundles == BundleFiles(j, Sidecar(j, now)) ++ assets
      public == (PublicFiles(now) ++ PropsFiles(now)) ++ bundles
      inventory == InventoryFile(j) ++ public
  IN  CASE at = "registry" -> u
        [] at = "manifest" -> registry
        [] at \in {"styles", "assets"} -> manifest
        [] at \in {"bundles", "chunks"} -> assets
        [] at \in {"public", "files"} -> bundles
        [] at = "inventory" -> public
        [] at = "pages" -> inventory
        [] at \in {"go", "done"} -> HostFiles(j) ++ inventory
        [] OTHER -> Nothing

(* The packages stay only where none has the name of a directory beside.   *)
Units(now) == {Nothing} \cup {u \in {UnitFiles(now)} : ~Clashing(now)}

(* The directories of internal/gen that are still as they were found.      *)
Uncleared(at) ==
  IF at \in {"units", "registry", "manifest", "styles"} THEN Reserved
  ELSE IF at \in {"assets", "bundles"} THEN {<<"public">>, <<"bundles">>, <<"props">>}
  ELSE IF at \in {"chunks", "public"} THEN {<<"public">>, <<"props">>}
  ELSE {<<"props">>}

Settled(f, at, written) ==
  /\ f.root = "gen" /\ at \notin {"idle", "bundle", "compile", "packages"} =>
       f \in Top \/ f \in written \/ f.dir[1] \in Uncleared(at)
  /\ f.root = "assets" /\ f.dir = Assets /\ at \notin {"idle", "bundle", "compile", "packages", "units", "registry", "manifest", "styles"} =>
       f \in written

Sound(at, j, now, conf, on) ==
  /\ \A u \in Units(now) : Stands(Written(at, j, now, conf, u), on)
  /\ \A f \in DOMAIN on : Settled(f, at, DOMAIN Written(at, j, now, conf, UnitFiles(now)))

Stages ==
  {"idle", "bundle", "compile", "packages", "units", "registry", "manifest", "styles", "assets", "bundles", "chunks", "public", "files",
   "inventory", "pages", "go", "done"}

IsJob(j) ==
  /\ j = [at |-> j.at, conf |-> j.conf, islands |-> j.islands, source |-> j.source, classes |-> j.classes, still |-> j.still,
          builds |-> j.builds]
  /\ j.at \in Stages /\ j.conf \in DOMAIN Sources /\ j.islands \in DOMAIN Sources /\ j.source \in DOMAIN Sources

Reading ==
  /\ project \in DOMAIN Sources /\ IsJob(job)
  /\ job.still => job.conf = project /\ job.islands = project /\ job.source = project

DiskPlaced == \A f \in DOMAIN disk : Placed(f)

IInv == Reading /\ DiskPlaced /\ (job.still => Sound(job.at, Seen, Now, project, disk))
-----------------------------------------------------------------------------
LEMMA Advances ==
  ASSUME Reading, NEW to \in Stages, job' = [job EXCEPT !.at = to], project' = project
  PROVE  Reading' /\ Seen' = Seen /\ Now' = Now /\ job'.at = to /\ job'.still = job.still
<1>1. job' = [at |-> to, conf |-> job.conf, islands |-> job.islands, source |-> job.source, classes |-> job.classes,
              still |-> job.still, builds |-> job.builds]
  BY DEF Reading, IsJob
<1>2. IsJob(job')
  BY <1>1 DEF Reading, IsJob
<1> QED
  BY <1>1, <1>2 DEF Reading, Seen, Now

LEMMA SourcesAreProjects ==
  ASSUME Reading
  PROVE  /\ IsProject(Now) /\ IsProject(Seen.source) /\ IsProject(Seen.islands) /\ IsProject(Seen.conf)
         /\ job.still => Seen.source = Now /\ Seen.islands = Now /\ Seen.conf = Now
BY SourcesAssumption DEF Reading, IsJob, Seen, Now

(* A step that writes files, in no directory another step clears.          *)
LEMMA WriteKeeps ==
  ASSUME NEW at, NEW to, NEW j, NEW now, NEW conf, NEW on, NEW files,
         Sound(at, j, now, conf, on),
         \A u : Written(to, j, now, conf, u) = files ++ Written(at, j, now, conf, u),
         \A f, written : Settled(f, at, written) => Settled(f, to, written)
  PROVE  Sound(to, j, now, conf, files ++ on)
<1>1. ASSUME NEW u \in Units(now) PROVE Stands(Written(to, j, now, conf, u), files ++ on)
  BY <1>1, StandsWritten DEF Sound
<1> DEFINE before == DOMAIN Written(at, j, now, conf, UnitFiles(now))
           after == DOMAIN Written(to, j, now, conf, UnitFiles(now))
<1>2. \A f : f \in after <=> f \in DOMAIN files \/ f \in before
  BY OverDomain
<1>3. ASSUME NEW f \in DOMAIN (files ++ on) PROVE Settled(f, to, after)
  <2>1. CASE f \in DOMAIN files
    BY <2>1, <1>2 DEF Settled
  <2>2. CASE f \in DOMAIN on
    <3>1. Settled(f, to, before)
      BY <2>2 DEF Sound
    <3> QED
      BY <3>1, <1>2 DEF Settled
  <2> QED
    BY <1>3, <2>1, <2>2, OverDomain
<1> QED
  BY <1>1, <1>3 DEF Sound

LEMMA SettledOnwards ==
  ASSUME NEW f, NEW written,
         NEW at \in Stages, NEW to,
         <<at, to>> \in {<<"registry", "manifest">>, <<"manifest", "styles">>, <<"assets", "bundles">>, <<"chunks", "public">>,
                         <<"files", "inventory">>, <<"inventory", "pages">>, <<"pages", "go">>, <<"go", "done">>, <<"units", "registry">>},
         Settled(f, at, written)
  PROVE  Settled(f, to, written)
BY DEF Settled, Uncleared

LEMMA WrittenOnwards ==
  ASSUME NEW j, NEW now, NEW conf, NEW u
  PROVE  /\ Written("registry", j, now, conf, u) = u
         /\ Written("manifest", j, now, conf, u) = RegistryFiles(j) ++ Written("registry", j, now, conf, u)
         /\ Written("styles", j, now, conf, u) = ManifestFiles(j, conf) ++ Written("manifest", j, now, conf, u)
         /\ Written("assets", j, now, conf, u) = Written("styles", j, now, conf, u)
         /\ Written("bundles", j, now, conf, u) = AssetFiles(j, now) ++ Written("assets", j, now, conf, u)
         /\ Written("chunks", j, now, conf, u) = Written("bundles", j, now, conf, u)
         /\ Written("public", j, now, conf, u) = BundleFiles(j, Sidecar(j, now)) ++ Written("chunks", j, now, conf, u)
         /\ Written("files", j, now, conf, u) = Written("public", j, now, conf, u)
         /\ Written("inventory", j, now, conf, u) = (PublicFiles(now) ++ PropsFiles(now)) ++ Written("files", j, now, conf, u)
         /\ Written("pages", j, now, conf, u) = InventoryFile(j) ++ Written("inventory", j, now, conf, u)
         /\ Written("go", j, now, conf, u) = HostFiles(j) ++ Written("pages", j, now, conf, u)
         /\ Written("done", j, now, conf, u) = Written("go", j, now, conf, u)
BY DEF Written

LEMMA UnitsStayClear ==
  ASSUME NEW now, NEW u \in Units(now), NEW f \in DOMAIN u
  PROVE  IsFile(f) /\ f.root = "gen" /\ IsDir(f.dir) /\ f.dir # <<>> /\ f.dir[1] \notin Reserved
<1>1. u = UnitFiles(now) /\ ~Clashing(now)
  BY NothingIsNoFile DEF Units
<1>2. PICK g \in Packages(now) : f.dir = <<g.package>>
  BY <1>1, UnitsAreInPackages
<1>3. g.package \notin Reserved
  BY <1>1, <1>2 DEF Clashing
<1> QED
  BY <1>1, <1>2, <1>3, UnitsAreInPackages, DirectoriesOfOne

(* Where the files are that are written before each of the clearances.     *)
LEMMA WrittenFirst ==
  ASSUME NEW j, NEW now, NEW conf, NEW u \in Units(now), NEW f \in DOMAIN Written("styles", j, now, conf, u)
  PROVE  IsFile(f) /\ f.root = "gen" /\ IsDir(f.dir) /\ (f.dir = <<>> \/ f.dir[1] \notin Reserved)
<1>1. f \in DOMAIN ManifestFiles(j, conf) \/ f \in DOMAIN RegistryFiles(j) \/ f \in DOMAIN u
  BY WrittenOnwards, OverDomain
<1>2. f \in DOMAIN ManifestFiles(j, conf) \/ f \in DOMAIN RegistryFiles(j) => \E n : f = At("gen", <<>>, n)
  BY ManifestIsOnTop, RegistryIsOnTop DEF ConfigFile, ManifestFile
<1> QED
  BY <1>1, <1>2, UnitsStayClear, AtIsAFile, EmptyIsADirectory

LEMMA WrittenSecond ==
  ASSUME NEW j, NEW now, NEW conf, NEW u \in Units(now), NEW f \in DOMAIN Written("bundles", j, now, conf, u)
  PROVE  IsFile(f) /\ IsDir(f.dir) /\ (f.root = "gen" => f.dir = <<>> \/ f.dir[1] \notin {<<"bundles">>, <<"public">>})
<1>1. f \in DOMAIN AssetFiles(j, now) \/ f \in DOMAIN Written("styles", j, now, conf, u)
  BY WrittenOnwards, OverDomain
<1>2. f \in DOMAIN AssetFiles(j, now) =>
        IsFile(f) /\ IsDir(f.dir) /\ (f.root = "gen" => f.dir = <<>> \/ f.dir[1] \notin {<<"bundles">>, <<"public">>})
  BY AssetsAreInStyles, ReservedDiffer, DirectoriesOfOne DEF Within
<1> QED
  BY <1>1, <1>2, WrittenFirst DEF Reserved

LEMMA WrittenThird ==
  ASSUME NEW j, NEW now, NEW conf, NEW u \in Units(now), NEW f \in DOMAIN Written("public", j, now, conf, u)
  PROVE  IsFile(f) /\ IsDir(f.dir) /\ (f.root = "gen" => f.dir = <<>> \/ f.dir[1] # <<"public">>)
<1>1. f \in DOMAIN BundleFiles(j, Sidecar(j, now)) \/ f \in DOMAIN Written("bundles", j, now, conf, u)
  BY WrittenOnwards, OverDomain
<1>2. f \in DOMAIN BundleFiles(j, Sidecar(j, now)) =>
        IsFile(f) /\ IsDir(f.dir) /\ (f.root = "gen" => f.dir = <<>> \/ f.dir[1] # <<"public">>)
  BY BundlesAreInBundles, ReservedDiffer, DirectoriesOfOne DEF Within
<1> QED
  BY <1>1, <1>2, WrittenSecond

(* A step that clears a directory nothing is written in yet.               *)
LEMMA ClearKeeps ==
  ASSUME NEW at, NEW to, NEW j, NEW now, NEW conf, NEW dropped,
         Sound(at, j, now, conf, disk),
         \A u : Written(to, j, now, conf, u) = Written(at, j, now, conf, u),
         \A u \in Units(now) : DOMAIN Written(at, j, now, conf, u) \cap dropped = {},
         \A f \in DOMAIN disk \ dropped :
           Settled(f, at, DOMAIN Written(at, j, now, conf, UnitFiles(now)))
             => Settled(f, to, DOMAIN Written(at, j, now, conf, UnitFiles(now)))
  PROVE  Sound(to, j, now, conf, Without(dropped))
<1>1. ASSUME NEW u \in Units(now) PROVE Stands(Written(to, j, now, conf, u), Without(dropped))
  BY StandsWithout DEF Sound
<1>2. DOMAIN Without(dropped) = DOMAIN disk \ dropped
  BY DEF Without
<1>3. ASSUME NEW f \in DOMAIN Without(dropped) PROVE Settled(f, to, DOMAIN Written(to, j, now, conf, UnitFiles(now)))
  BY <1>2 DEF Sound
<1> QED
  BY <1>1, <1>3 DEF Sound

LEMMA ClearPlaced ==
  ASSUME NEW dropped, DiskPlaced, disk' = Without(dropped)
  PROVE  DiskPlaced'
BY DEF DiskPlaced, Without, Placed, Top

LEMMA WritePlaced ==
  ASSUME DiskPlaced, NEW files, disk' = files ++ disk, \A f \in DOMAIN files : Placed(f)
  PROVE  DiskPlaced'
BY OverDomain DEF DiskPlaced, Placed

LEMMA PartsArePlaced ==
  ASSUME Reading
  PROVE  /\ \A f \in DOMAIN WorkFiles(Now.islands) : Placed(f)
         /\ \A f \in DOMAIN UnitFiles(Seen.source) : Placed(f)
         /\ \A f \in DOMAIN RegistryFiles(Seen) : Placed(f)
         /\ \A f \in DOMAIN ManifestFiles(Seen, job.conf) : Placed(f)
         /\ \A f \in DOMAIN AssetFiles(Seen, Now) \cup DOMAIN AssetFiles(Seen, Seen.source) : Placed(f)
         /\ \A f \in DOMAIN BundleFiles(Seen, Sidecar(Seen, Now)) : Placed(f)
         /\ \A f \in DOMAIN PublicFiles(Now) : Placed(f)
         /\ \A f \in DOMAIN PropsFiles(Seen.source) : Placed(f)
         /\ \A f \in DOMAIN InventoryFile(Seen) : Placed(f)
         /\ \A f \in DOMAIN HostFiles(Seen) \cup DOMAIN StaticPages(Seen) : Placed(f)
<1>1. \A f \in DOMAIN WorkFiles(Now.islands) \cup DOMAIN InventoryFile(Seen) : Placed(f)
  BY WorkIsInTheCache, FileAlone DEF InventoryFile, Placed
<1>2. ASSUME NEW f \in DOMAIN UnitFiles(Seen.source) PROVE Placed(f)
  <2>1. IsFile(f) /\ f.root = "gen"
    BY UnitsAreInPackages
  <2>2. PICK g \in Packages(Seen.source) : f.dir = <<g.package>>
    BY UnitsAreInPackages
  <2>3. <<g.package>>[1] = <<"props">> => <<g.package>> = Props
    BY DEF Props
  <2> QED
    BY <2>1, <2>2, <2>3, DirectoriesOfOne DEF Placed
<1>3. ASSUME NEW f \in DOMAIN RegistryFiles(Seen) \cup DOMAIN ManifestFiles(Seen, job.conf) PROVE Placed(f)
  <2>1. CASE f \in DOMAIN RegistryFiles(Seen)
    <3>1. PICK n \in {"registry.go", "embed.go", "embed_js.go", "app.go"} : f = At("gen", <<>>, n)
      BY <2>1, RegistryIsOnTop
    <3> QED
      BY <3>1, TopIsPlaced DEF Top
  <2>2. CASE f \in DOMAIN ManifestFiles(Seen, job.conf)
    <3>1. f = ConfigFile \/ f = ManifestFile
      BY <2>2, ManifestIsOnTop
    <3> QED
      BY <3>1, TopIsPlaced DEF Top, ConfigFile, ManifestFile
  <2> QED
    BY <2>1, <2>2
<1>4. \A f \in DOMAIN AssetFiles(Seen, Now) \cup DOMAIN AssetFiles(Seen, Seen.source) : Placed(f)
  BY AssetsAreInStyles, WithinIsPlaced, ReservedDiffer
<1>5. \A f \in DOMAIN BundleFiles(Seen, Sidecar(Seen, Now)) : Placed(f)
  BY BundlesAreInBundles, WithinIsPlaced, ReservedDiffer
<1>6. \A f \in DOMAIN PublicFiles(Now) : Placed(f)
  BY PublicIsInPublic, SourcesAreProjects, ReservedDiffer DEF Placed
<1>7. ASSUME NEW f \in DOMAIN PropsFiles(Seen.source) PROVE Placed(f)
  <2>1. (IsFile(f) /\ f.root = "gen" /\ f.dir = Props) \/ f \in Top
    BY PropsAreInProps DEF Top
  <2>2. f.dir = Props => IsDir(f.dir) /\ f.dir # <<>>
    BY ReservedDiffer, DirectoriesOfOne
  <2> QED
    BY <2>1, <2>2, TopIsPlaced DEF Placed
<1>8. \A f \in DOMAIN HostFiles(Seen) \cup DOMAIN StaticPages(Seen) : Placed(f)
  BY HostFilesAreAssets, StaticPagesAreAssets, SourcesAreProjects DEF Placed
<1> QED
  BY <1>1, <1>2, <1>3, <1>4, <1>5, <1>6, <1>7, <1>8

LEMMA WrittenLast ==
  ASSUME NEW j, NEW now, NEW conf, NEW u \in Units(now), NEW f \in DOMAIN Written("go", j, now, conf, u),
         IsProject(j.source), IsProject(now)
  PROVE  f.root \in {"gen", "assets", "cache"}
<1>1. \/ f \in DOMAIN HostFiles(j) \/ f \in DOMAIN InventoryFile(j) \/ f \in DOMAIN PublicFiles(now) \/ f \in DOMAIN PropsFiles(now)
      \/ f \in DOMAIN BundleFiles(j, Sidecar(j, now)) \/ f \in DOMAIN AssetFiles(j, now) \/ f \in DOMAIN Written("styles", j, now, conf, u)
  BY WrittenOnwards, OverDomain
<1>2. f \in DOMAIN InventoryFile(j) => f.root = "cache"
  BY FileAlone, WorkIsInTheCache DEF InventoryFile
<1>3. f \in DOMAIN PropsFiles(now) => f.root = "gen"
  BY PropsAreInProps, AtIsAFile
<1>4. f \in DOMAIN AssetFiles(j, now) \/ f \in DOMAIN BundleFiles(j, Sidecar(j, now)) => f.root \in {"gen", "assets"}
  BY AssetsAreInStyles, BundlesAreInBundles DEF Within
<1>5. f \in DOMAIN HostFiles(j) \/ f \in DOMAIN PublicFiles(now) => f.root \in {"gen", "assets"}
  BY HostFilesAreAssets, PublicIsInPublic
<1>6. f \in DOMAIN Written("styles", j, now, conf, u) => f.root = "gen"
  BY WrittenFirst
<1> QED
  BY <1>1, <1>2, <1>3, <1>4, <1>5, <1>6

LEMMA UnderOne ==
  ASSUME DiskPlaced, NEW root, NEW w
  PROVE  /\ \A f : f \in Under(root, <<w>>) <=> f \in DOMAIN disk /\ f.root = root /\ f.dir # <<>> /\ f.dir[1] = w
         /\ \A f : f \in Under(root, <<>>) <=> f \in DOMAIN disk /\ f.root = root
BY PrefixOfOne DEF Under, DiskPlaced, Placed
-----------------------------------------------------------------------------
LEMMA InitIInv == ASSUME Init PROVE IInv
<1>1. job = [at |-> "idle", conf |-> project, islands |-> project, source |-> project, classes |-> {}, still |-> TRUE, builds |-> 0]
  BY DEF Init, Idle
<1>2. Reading
  BY <1>1 DEF Init, Reading, IsJob, Stages
<1>3. DiskPlaced
  <2>1. CASE disk = Nothing
    BY <2>1, NothingIsNoFile DEF DiskPlaced
  <2>2. CASE disk = Bootstrap
    <3>1. SUFFICES ASSUME NEW f \in DOMAIN Bootstrap PROVE Placed(f)
      BY <2>2 DEF DiskPlaced
    <3>2. \/ f \in Top
          \/ f \in {PreloadFile, At("gen", Styles, ".keep"), At("gen", Bundles, ".keep"), At("gen", Public, ".keep")}
      <4> DEFINE blank == [g \in {ManifestFile, ConfigFile, PreloadFile} |-> <<"empty">>]
      <4>1. DOMAIN blank = {ManifestFile, ConfigFile, PreloadFile}
        OBVIOUS
      <4>2. f \in DOMAIN Registry({}) \/ f \in DOMAIN AppFile(FALSE) \/ f \in DOMAIN Embeds \/ f \in DOMAIN blank
            \/ f \in DOMAIN Keep(Styles) \/ f \in DOMAIN Keep(Bundles) \/ f \in DOMAIN Keep(Public)
        <5>1. f \in DOMAIN (Registry({}) ++ AppFile(FALSE) ++ Embeds ++ blank ++ Keep(Styles) ++ Keep(Bundles) ++ Keep(Public))
          BY <3>1 DEF Bootstrap
        <5> DEFINE registry == Registry({})
                   app == AppFile(FALSE)
        <5>2. f \in DOMAIN (registry ++ app ++ Embeds ++ blank ++ Keep(Styles) ++ Keep(Bundles) ++ Keep(Public))
          BY <5>1
        <5> HIDE DEF blank, registry, app
        <5>3. f \in DOMAIN registry \/ f \in DOMAIN app \/ f \in DOMAIN Embeds \/ f \in DOMAIN blank
              \/ f \in DOMAIN Keep(Styles) \/ f \in DOMAIN Keep(Bundles) \/ f \in DOMAIN Keep(Public)
          BY <5>2, OverDomain
        <5> QED
          BY <5>3 DEF registry, app
      <4> HIDE DEF blank
      <4>3. f \in {At("gen", <<>>, "registry.go"), At("gen", <<>>, "app.go"), At("gen", <<>>, "embed.go"), At("gen", <<>>, "embed_js.go"),
                   ManifestFile, ConfigFile, PreloadFile, At("gen", Styles, ".keep"), At("gen", Bundles, ".keep"), At("gen", Public, ".keep")}
        BY <4>1, <4>2, OverDomain, FileAlone DEF Registry, AppFile, Embeds, Keep
      <4> QED
        BY <4>3 DEF Top, ManifestFile, ConfigFile
    <3>3. \A w : w \in {Styles, Bundles, Public} => IsDir(w) /\ w # <<>> /\ w[1] # <<"props">>
      BY ReservedDiffer, DirectoriesOfOne
    <3> QED
      BY <3>2, <3>3, TopIsPlaced, AtIsAFile DEF Placed, PreloadFile
  <2> QED
    BY <2>1, <2>2 DEF Init
<1>4. Sound(job.at, Seen, Now, project, disk)
  BY <1>1, NothingStands DEF Sound, Written, Settled
<1> QED
  BY <1>2, <1>3, <1>4 DEF IInv

LEMMA LoadKeeps == ASSUME IInv, Load PROVE IInv'
<1>1. job' = [at |-> "bundle", conf |-> project, islands |-> project, source |-> project, classes |-> {}, still |-> TRUE,
              builds |-> job.builds + 1] /\ project' = project /\ disk' = disk
  BY DEF Load, Idle
<1>2. Reading'
  BY <1>1 DEF IInv, Reading, IsJob, Stages
<1>3. DiskPlaced'
  BY <1>1 DEF IInv, DiskPlaced, Placed
<1>4. \A on : Sound("bundle", Seen', Now', project', on)
  BY NothingStands DEF Sound, Written, Settled
<1> QED
  BY <1>1, <1>2, <1>3, <1>4 DEF IInv

LEMMA BundleKeeps == ASSUME IInv, Bundle PROVE IInv'
<1>1. job' = [at |-> "compile", conf |-> job.conf, islands |-> project, source |-> job.source, classes |-> job.classes,
              still |-> job.still, builds |-> job.builds] /\ project' = project
  BY DEF Bundle, IInv, Reading, IsJob
<1>2. Reading'
  BY <1>1 DEF IInv, Reading, IsJob, Stages
<1>3. DiskPlaced'
  BY WritePlaced, PartsArePlaced DEF IInv, Bundle
<1>4. \A on : Sound("compile", Seen', Now', project', on)
  BY NothingStands DEF Sound, Written, Settled
<1> QED
  BY <1>1, <1>2, <1>3, <1>4 DEF IInv

LEMMA CompileKeeps == ASSUME IInv, Compile PROVE IInv'
<1>1. PICK classes : job' = [at |-> "packages", conf |-> job.conf, islands |-> job.islands, source |-> project, classes |-> classes,
                             still |-> job.still, builds |-> job.builds] /\ project' = project /\ disk' = disk
  BY DEF Compile, IInv, Reading, IsJob
<1>2. Reading'
  BY <1>1 DEF IInv, Reading, IsJob, Stages
<1>3. DiskPlaced'
  BY <1>1 DEF IInv, DiskPlaced, Placed
<1>4. \A on : Sound("packages", Seen', Now', project', on)
  BY NothingStands DEF Sound, Written, Settled
<1> QED
  BY <1>1, <1>2, <1>3, <1>4 DEF IInv

LEMMA CleanPackagesKeeps == ASSUME IInv, CleanPackages PROVE IInv'
<1>1. job.at = "packages" /\ disk' = Without(StalePackages) /\ job' = [job EXCEPT !.at = "units"] /\ project' = project
  BY DEF CleanPackages, Step
<1>2. Reading' /\ job'.at = "units" /\ job'.still = job.still
  BY <1>1, Advances DEF IInv, Stages
<1>3. DiskPlaced'
  BY <1>1, ClearPlaced DEF IInv
<1>4. Sound("units", Seen', Now', project', Without(StalePackages))
  <2>1. \A u : Written("units", Seen', Now', project', u) = Nothing
    BY DEF Written
  <2>2. ASSUME NEW f \in DOMAIN Without(StalePackages), NEW written PROVE Settled(f, "units", written)
    <3>1. f \in DOMAIN disk /\ f \notin StalePackages /\ Placed(f)
      BY <2>2 DEF Without, IInv, DiskPlaced
    <3>2. CASE f.root = "gen" /\ f \notin Top
      <4>1. f.dir # <<>> /\ f \in Under("gen", <<>>)
        BY <3>1, <3>2, UnderOne DEF Placed, IInv
      <4>2. f.dir[1] \in Reserved
        BY <3>1, <4>1 DEF StalePackages
      <4> QED
        BY <3>2, <4>2 DEF Settled, Uncleared
    <3> QED
      BY <3>2 DEF Settled
  <2> QED
    BY <2>1, <2>2, NothingStands DEF Sound
<1> QED
  BY <1>1, <1>2, <1>3, <1>4 DEF IInv

LEMMA WriteUnitsKeeps == ASSUME IInv, WriteUnits PROVE IInv'
<1>1. job.at = "units" /\ disk' = UnitFiles(Seen.source) ++ disk /\ job' = [job EXCEPT !.at = "registry"] /\ project' = project
  BY DEF WriteUnits, Step
<1>2. Reading' /\ Seen' = Seen /\ Now' = Now /\ job'.at = "registry" /\ job'.still = job.still
  BY <1>1, Advances DEF IInv, Stages
<1>3. DiskPlaced'
  BY <1>1, WritePlaced, PartsArePlaced DEF IInv
<1>4. ASSUME job.still PROVE Sound("registry", Seen, Now, project, UnitFiles(Now) ++ disk)
  <2> DEFINE units == UnitFiles(Now)
  <2>1. \A u : Written("registry", Seen, Now, project, u) = u /\ Written("units", Seen, Now, project, u) = Nothing
    BY DEF Written
  <2>2. ASSUME NEW u \in Units(Now) PROVE Stands(u, units ++ disk)
    <3>1. CASE u = Nothing
      BY <3>1, NothingStands
    <3>2. CASE u = units
      <4> HIDE DEF units
      <4> QED
        BY <3>2, OverDomain, OverAbove DEF Stands
    <3> QED
      BY <3>1, <3>2 DEF Units
  <2>3. ASSUME NEW f \in DOMAIN (units ++ disk) PROVE Settled(f, "registry", DOMAIN units)
    <3>1. CASE f \in DOMAIN units
      BY <3>1, UnitsAreInPackages DEF Settled
    <3>2. CASE f \in DOMAIN disk
      <4>1. Settled(f, "units", DOMAIN Nothing)
        BY <1>1, <1>4, <2>1, <3>2 DEF IInv, Sound
      <4> HIDE DEF units
      <4> QED
        BY <4>1, NothingIsNoFile DEF Settled, Uncleared
    <3> HIDE DEF units
    <3> QED
      BY <2>3, <3>1, <3>2, OverDomain
  <2> QED
    BY <2>1, <2>2, <2>3 DEF Sound
<1>5. job.still => Seen.source = Now
  BY SourcesAreProjects DEF IInv
<1> QED
  BY <1>1, <1>2, <1>3, <1>4, <1>5 DEF IInv

LEMMA WriteRegistryKeeps == ASSUME IInv, WriteRegistry PROVE IInv'
<1>1. job.at = "registry" /\ disk' = RegistryFiles(Seen) ++ disk /\ job' = [job EXCEPT !.at = "manifest"] /\ project' = project
  BY DEF WriteRegistry, Step
<1>2. Reading' /\ Seen' = Seen /\ Now' = Now /\ job'.at = "manifest" /\ job'.still = job.still
  BY <1>1, Advances DEF IInv, Stages
<1>3. DiskPlaced'
  BY <1>1, WritePlaced, PartsArePlaced DEF IInv
<1>4. ASSUME job.still PROVE Sound("manifest", Seen, Now, project, RegistryFiles(Seen) ++ disk)
  <2>1. Sound("registry", Seen, Now, project, disk)
    BY <1>1, <1>4 DEF IInv
  <2>2. \A f, written : Settled(f, "registry", written) => Settled(f, "manifest", written)
    BY SettledOnwards DEF Stages
  <2> QED
    BY <2>1, <2>2, WriteKeeps, WrittenOnwards
<1> QED
  BY <1>1, <1>2, <1>3, <1>4 DEF IInv

LEMMA WriteManifestKeeps == ASSUME IInv, WriteManifest PROVE IInv'
<1>1. job.at = "manifest" /\ disk' = ManifestFiles(Seen, job.conf) ++ disk /\ job' = [job EXCEPT !.at = "styles"] /\ project' = project
  BY DEF WriteManifest, Step
<1>2. Reading' /\ Seen' = Seen /\ Now' = Now /\ job'.at = "styles" /\ job'.still = job.still
  BY <1>1, Advances DEF IInv, Stages
<1>3. DiskPlaced'
  BY <1>1, WritePlaced, PartsArePlaced DEF IInv
<1>4. ASSUME job.still PROVE Sound("styles", Seen, Now, project, ManifestFiles(Seen, job.conf) ++ disk)
  <2>1. Sound("manifest", Seen, Now, project, disk)
    BY <1>1, <1>4 DEF IInv
  <2>2. \A f, written : Settled(f, "manifest", written) => Settled(f, "styles", written)
    BY SettledOnwards DEF Stages
  <2>3. job.conf = project
    BY <1>4 DEF IInv, Reading
  <2> QED
    BY <2>1, <2>2, <2>3, WriteKeeps, WrittenOnwards
<1> QED
  BY <1>1, <1>2, <1>3, <1>4 DEF IInv

LEMMA ClearStylesKeeps == ASSUME IInv, ClearStyles PROVE IInv'
<1> DEFINE dropped == Under("gen", Styles) \cup Under("assets", Assets)
<1>1. job.at = "styles" /\ disk' = Without(dropped) /\ job' = [job EXCEPT !.at = "assets"] /\ project' = project
  BY DEF ClearStyles, Step
<1>2. Reading' /\ Seen' = Seen /\ Now' = Now /\ job'.at = "assets" /\ job'.still = job.still
  BY <1>1, Advances DEF IInv, Stages
<1>3. \A f : f \in dropped <=> f \in DOMAIN disk /\ f.dir # <<>> /\ ((f.root = "gen" /\ f.dir[1] = <<"styles">>) \/ (f.root = "assets" /\ f.dir[1] = <<"assets">>))
  BY UnderOne DEF IInv, Styles, Bundles, Public, Assets
<1> HIDE DEF dropped
<1>4. DiskPlaced'
  BY <1>1, ClearPlaced DEF IInv
<1>5. ASSUME job.still PROVE Sound("assets", Seen, Now, project, Without(dropped))
  <2>1. Sound("styles", Seen, Now, project, disk)
    BY <1>1, <1>5 DEF IInv
  <2>2. \A u : Written("assets", Seen, Now, project, u) = Written("styles", Seen, Now, project, u)
    BY WrittenOnwards
  <2>3. ASSUME NEW u \in Units(Now) PROVE DOMAIN Written("styles", Seen, Now, project, u) \cap dropped = {}
    <3>1. ASSUME NEW f \in DOMAIN Written("styles", Seen, Now, project, u) PROVE f \notin dropped
      BY <1>3, <3>1, WrittenFirst DEF Reserved
    <3> QED
      BY <3>1
  <2>4. ASSUME NEW f \in DOMAIN disk \ dropped, NEW written, Settled(f, "styles", written) PROVE Settled(f, "assets", written)
    <3>1. Placed(f) /\ f \in DOMAIN disk
      BY DEF IInv, DiskPlaced
    <3>2. CASE f.root = "gen" /\ f \notin Top
      BY <1>3, <2>4, <3>1, <3>2 DEF Settled, Uncleared, Reserved, Placed
    <3>3. CASE f.root = "assets" /\ f.dir = Assets
      BY <1>3, <2>4, <3>1, <3>3, ReservedDiffer, DirectoriesOfOne DEF Settled
    <3> QED
      BY <3>2, <3>3 DEF Settled
  <2> QED
    BY <2>1, <2>2, <2>3, <2>4, ClearKeeps
<1> QED
  BY <1>1, <1>2, <1>4, <1>5 DEF IInv

LEMMA WriteAssetsKeeps == ASSUME IInv, WriteAssets PROVE IInv'
<1>1. job.at = "assets" /\ disk' = AssetFiles(Seen, Now) ++ disk /\ job' = [job EXCEPT !.at = "bundles"] /\ project' = project
  BY DEF WriteAssets, Step
<1>2. Reading' /\ Seen' = Seen /\ Now' = Now /\ job'.at = "bundles" /\ job'.still = job.still
  BY <1>1, Advances DEF IInv, Stages
<1>3. DiskPlaced'
  BY <1>1, WritePlaced, PartsArePlaced DEF IInv
<1>4. ASSUME job.still PROVE Sound("bundles", Seen, Now, project, AssetFiles(Seen, Now) ++ disk)
  <2>1. Sound("assets", Seen, Now, project, disk)
    BY <1>1, <1>4 DEF IInv
  <2>2. \A f, written : Settled(f, "assets", written) => Settled(f, "bundles", written)
    BY SettledOnwards DEF Stages
  <2> QED
    BY <2>1, <2>2, WriteKeeps, WrittenOnwards
<1> QED
  BY <1>1, <1>2, <1>3, <1>4 DEF IInv

LEMMA ClearBundlesKeeps == ASSUME IInv, ClearBundles PROVE IInv'
<1> DEFINE dropped == Under("gen", Bundles)
<1>1. job.at = "bundles" /\ disk' = Without(dropped) /\ job' = [job EXCEPT !.at = "chunks"] /\ project' = project
  BY DEF ClearBundles, Step
<1>2. Reading' /\ Seen' = Seen /\ Now' = Now /\ job'.at = "chunks" /\ job'.still = job.still
  BY <1>1, Advances DEF IInv, Stages
<1>3. \A f : f \in dropped <=> f \in DOMAIN disk /\ f.dir # <<>> /\ (f.root = "gen" /\ f.dir[1] = <<"bundles">>)
  BY UnderOne DEF IInv, Styles, Bundles, Public, Assets
<1> HIDE DEF dropped
<1>4. DiskPlaced'
  BY <1>1, ClearPlaced DEF IInv
<1>5. ASSUME job.still PROVE Sound("chunks", Seen, Now, project, Without(dropped))
  <2>1. Sound("bundles", Seen, Now, project, disk)
    BY <1>1, <1>5 DEF IInv
  <2>2. \A u : Written("chunks", Seen, Now, project, u) = Written("bundles", Seen, Now, project, u)
    BY WrittenOnwards
  <2>3. ASSUME NEW u \in Units(Now) PROVE DOMAIN Written("bundles", Seen, Now, project, u) \cap dropped = {}
    <3>1. ASSUME NEW f \in DOMAIN Written("bundles", Seen, Now, project, u) PROVE f \notin dropped
      BY <1>3, <3>1, WrittenSecond DEF Reserved
    <3> QED
      BY <3>1
  <2>4. ASSUME NEW f \in DOMAIN disk \ dropped, NEW written, Settled(f, "bundles", written) PROVE Settled(f, "chunks", written)
    <3>1. Placed(f) /\ f \in DOMAIN disk
      BY DEF IInv, DiskPlaced
    <3>2. CASE f.root = "gen" /\ f \notin Top
      BY <1>3, <2>4, <3>1, <3>2 DEF Settled, Uncleared, Reserved, Placed
    <3>3. CASE f.root = "assets" /\ f.dir = Assets
      BY <1>3, <2>4, <3>1, <3>3, ReservedDiffer, DirectoriesOfOne DEF Settled
    <3> QED
      BY <3>2, <3>3 DEF Settled
  <2> QED
    BY <2>1, <2>2, <2>3, <2>4, ClearKeeps
<1> QED
  BY <1>1, <1>2, <1>4, <1>5 DEF IInv

LEMMA WriteBundlesKeeps == ASSUME IInv, WriteBundles PROVE IInv'
<1>1. job.at = "chunks" /\ disk' = BundleFiles(Seen, Sidecar(Seen, Now)) ++ disk /\ job' = [job EXCEPT !.at = "public"] /\ project' = project
  BY DEF WriteBundles, Step
<1>2. Reading' /\ Seen' = Seen /\ Now' = Now /\ job'.at = "public" /\ job'.still = job.still
  BY <1>1, Advances DEF IInv, Stages
<1>3. DiskPlaced'
  BY <1>1, WritePlaced, PartsArePlaced DEF IInv
<1>4. ASSUME job.still PROVE Sound("public", Seen, Now, project, BundleFiles(Seen, Sidecar(Seen, Now)) ++ disk)
  <2>1. Sound("chunks", Seen, Now, project, disk)
    BY <1>1, <1>4 DEF IInv
  <2>2. \A f, written : Settled(f, "chunks", written) => Settled(f, "public", written)
    BY SettledOnwards DEF Stages
  <2> QED
    BY <2>1, <2>2, WriteKeeps, WrittenOnwards
<1> QED
  BY <1>1, <1>2, <1>3, <1>4 DEF IInv

LEMMA ClearPublicKeeps == ASSUME IInv, ClearPublic PROVE IInv'
<1> DEFINE dropped == Under("gen", Public)
<1>1. job.at = "public" /\ disk' = Without(dropped) /\ job' = [job EXCEPT !.at = "files"] /\ project' = project
  BY DEF ClearPublic, Step
<1>2. Reading' /\ Seen' = Seen /\ Now' = Now /\ job'.at = "files" /\ job'.still = job.still
  BY <1>1, Advances DEF IInv, Stages
<1>3. \A f : f \in dropped <=> f \in DOMAIN disk /\ f.dir # <<>> /\ (f.root = "gen" /\ f.dir[1] = <<"public">>)
  BY UnderOne DEF IInv, Styles, Bundles, Public, Assets
<1> HIDE DEF dropped
<1>4. DiskPlaced'
  BY <1>1, ClearPlaced DEF IInv
<1>5. ASSUME job.still PROVE Sound("files", Seen, Now, project, Without(dropped))
  <2>1. Sound("public", Seen, Now, project, disk)
    BY <1>1, <1>5 DEF IInv
  <2>2. \A u : Written("files", Seen, Now, project, u) = Written("public", Seen, Now, project, u)
    BY WrittenOnwards
  <2>3. ASSUME NEW u \in Units(Now) PROVE DOMAIN Written("public", Seen, Now, project, u) \cap dropped = {}
    <3>1. ASSUME NEW f \in DOMAIN Written("public", Seen, Now, project, u) PROVE f \notin dropped
      BY <1>3, <3>1, WrittenThird DEF Reserved
    <3> QED
      BY <3>1
  <2>4. ASSUME NEW f \in DOMAIN disk \ dropped, NEW written, Settled(f, "public", written) PROVE Settled(f, "files", written)
    <3>1. Placed(f) /\ f \in DOMAIN disk
      BY DEF IInv, DiskPlaced
    <3>2. CASE f.root = "gen" /\ f \notin Top
      BY <1>3, <2>4, <3>1, <3>2 DEF Settled, Uncleared, Reserved, Placed
    <3>3. CASE f.root = "assets" /\ f.dir = Assets
      BY <1>3, <2>4, <3>1, <3>3, ReservedDiffer, DirectoriesOfOne DEF Settled
    <3> QED
      BY <3>2, <3>3 DEF Settled
  <2> QED
    BY <2>1, <2>2, <2>3, <2>4, ClearKeeps
<1> QED
  BY <1>1, <1>2, <1>4, <1>5 DEF IInv

LEMMA WritePublicKeeps == ASSUME IInv, WritePublic PROVE IInv'
<1>1. job.at = "files" /\ disk' = PublicFiles(Now) ++ PropsFiles(Seen.source) ++ disk /\ job' = [job EXCEPT !.at = "inventory"] /\ project' = project
  BY DEF WritePublic, Step
<1>2. Reading' /\ Seen' = Seen /\ Now' = Now /\ job'.at = "inventory" /\ job'.still = job.still
  BY <1>1, Advances DEF IInv, Stages
<1>3. DiskPlaced'
  <2>1. \A f \in DOMAIN (PublicFiles(Now) ++ PropsFiles(Seen.source)) : Placed(f)
    BY PartsArePlaced, OverDomain DEF IInv
  <2> QED
    BY <1>1, <2>1, WritePlaced DEF IInv
<1>4. ASSUME job.still PROVE Sound("inventory", Seen, Now, project, PublicFiles(Now) ++ PropsFiles(Seen.source) ++ disk)
  <2>1. Sound("files", Seen, Now, project, disk)
    BY <1>1, <1>4 DEF IInv
  <2>2. \A f, written : Settled(f, "files", written) => Settled(f, "inventory", written)
    BY SettledOnwards DEF Stages
  <2>3. Seen.source = Now
    BY <1>4, SourcesAreProjects DEF IInv
  <2> QED
    BY <2>1, <2>2, <2>3, WriteKeeps, WrittenOnwards
<1> QED
  BY <1>1, <1>2, <1>3, <1>4 DEF IInv

LEMMA WriteInventoryKeeps == ASSUME IInv, WriteInventory PROVE IInv'
<1>1. job.at = "inventory" /\ disk' = InventoryFile(Seen) ++ disk /\ job' = [job EXCEPT !.at = "pages"] /\ project' = project
  BY DEF WriteInventory, Step
<1>2. Reading' /\ Seen' = Seen /\ Now' = Now /\ job'.at = "pages" /\ job'.still = job.still
  BY <1>1, Advances DEF IInv, Stages
<1>3. DiskPlaced'
  BY <1>1, WritePlaced, PartsArePlaced DEF IInv
<1>4. ASSUME job.still PROVE Sound("pages", Seen, Now, project, InventoryFile(Seen) ++ disk)
  <2>1. Sound("inventory", Seen, Now, project, disk)
    BY <1>1, <1>4 DEF IInv
  <2>2. \A f, written : Settled(f, "inventory", written) => Settled(f, "pages", written)
    BY SettledOnwards DEF Stages
  <2> QED
    BY <2>1, <2>2, WriteKeeps, WrittenOnwards
<1> QED
  BY <1>1, <1>2, <1>3, <1>4 DEF IInv

LEMMA WriteStaticPagesKeeps == ASSUME IInv, WriteStaticPages PROVE IInv'
<1>1. job.at = "pages" /\ disk' = HostFiles(Seen) ++ disk /\ job' = [job EXCEPT !.at = "go"] /\ project' = project
  BY DEF WriteStaticPages, Step
<1>2. Reading' /\ Seen' = Seen /\ Now' = Now /\ job'.at = "go" /\ job'.still = job.still
  BY <1>1, Advances DEF IInv, Stages
<1>3. DiskPlaced'
  BY <1>1, WritePlaced, PartsArePlaced DEF IInv
<1>4. ASSUME job.still PROVE Sound("go", Seen, Now, project, HostFiles(Seen) ++ disk)
  <2>1. Sound("pages", Seen, Now, project, disk)
    BY <1>1, <1>4 DEF IInv
  <2>2. \A f, written : Settled(f, "pages", written) => Settled(f, "go", written)
    BY SettledOnwards DEF Stages
  <2> QED
    BY <2>1, <2>2, WriteKeeps, WrittenOnwards
<1> QED
  BY <1>1, <1>2, <1>3, <1>4 DEF IInv

LEMMA ProgramsArePlaced ==
  ASSUME DiskPlaced, NEW target, NEW content
  PROVE  /\ \A f \in DOMAIN (Program("gopage") := content) \cup DOMAIN (Program(target) := content) : Placed(f) /\ f.root = "dist"
         /\ \A f \in DOMAIN CopyTree : Placed(f) /\ f.root = "demo"
<1>1. ASSUME NEW name, NEW f \in DOMAIN (Program(name) := content) PROVE Placed(f) /\ f.root = "dist"
  BY <1>1, FileAlone, AtIsAFile, EmptyIsADirectory DEF Program, Placed
<1>2. ASSUME NEW f \in DOMAIN CopyTree PROVE Placed(f) /\ f.root = "demo"
  <2>1. PICK g \in Under("assets", <<>>) : f = [g EXCEPT !.root = "demo"]
    BY <1>2 DEF CopyTree
  <2>2. Placed(g)
    BY <2>1 DEF Under, DiskPlaced
  <2>3. f = [root |-> "demo", dir |-> g.dir, name |-> g.name, hash |-> g.hash, coding |-> g.coding]
    BY <2>1, <2>2, RootChanged DEF Placed
  <2> QED
    BY <2>2, <2>3, AllFieldsMakeAFile DEF Placed
<1> QED
  BY <1>1, <1>2

LEMMA BuildGoKeeps == ASSUME IInv, BuildGo PROVE IInv'
<1>1. PICK target \in {"native", "workers", "demo"} :
        disk' = (Program(target) := <<"program">>)
                ++ (IF target = "native" THEN Nothing ELSE Program(Deploy(target)) := <<"first", WorkerPatterns(Seen.source)>>)
                ++ (IF target = "demo" THEN CopyTree ELSE Nothing) ++ disk
  BY DEF BuildGo
<1> DEFINE program == Program(target) := <<"program">>
           deploy == IF target = "native" THEN Nothing ELSE Program(Deploy(target)) := <<"first", WorkerPatterns(Seen.source)>>
           copies == IF target = "demo" THEN CopyTree ELSE Nothing
           files == program ++ deploy ++ copies
<1>2. job.at = "go" /\ disk' = files ++ disk /\ job' = [job EXCEPT !.at = "done"] /\ project' = project
  BY <1>1 DEF BuildGo
<1>3. \A f \in DOMAIN files : Placed(f) /\ f.root \in {"dist", "demo"}
  <2>1. \A f \in DOMAIN program : Placed(f) /\ f.root = "dist"
    BY ProgramsArePlaced DEF IInv
  <2>2. \A f \in DOMAIN deploy : Placed(f) /\ f.root = "dist"
    BY ProgramsArePlaced, NothingIsNoFile DEF IInv
  <2>3. \A f \in DOMAIN copies : Placed(f) /\ f.root = "demo"
    BY ProgramsArePlaced, NothingIsNoFile DEF IInv
  <2> HIDE DEF program, deploy, copies
  <2> QED
    BY <2>1, <2>2, <2>3, OverDomain
<1> HIDE DEF files
<1>4. Reading' /\ Seen' = Seen /\ Now' = Now /\ job'.at = "done" /\ job'.still = job.still
  BY <1>2, Advances DEF IInv, Stages
<1>5. DiskPlaced'
  BY <1>2, <1>3, WritePlaced DEF IInv
<1>6. ASSUME job.still PROVE Sound("done", Seen, Now, project, files ++ disk)
  <2>1. Sound("go", Seen, Now, project, disk)
    BY <1>2, <1>6 DEF IInv
  <2>2. ASSUME NEW u \in Units(Now) PROVE Stands(Written("done", Seen, Now, project, u), files ++ disk)
    <3>1. Written("done", Seen, Now, project, u) = Written("go", Seen, Now, project, u)
      BY WrittenOnwards
    <3>2. ASSUME NEW f \in DOMAIN Written("go", Seen, Now, project, u) PROVE f \notin DOMAIN files
      BY <1>3, <3>2, WrittenLast, SourcesAreProjects DEF IInv
    <3>3. DOMAIN Written("go", Seen, Now, project, u) \cap DOMAIN files = {}
      BY <3>2
    <3> QED
      BY <2>1, <3>1, <3>3, StandsUnder DEF Sound
  <2>3. ASSUME NEW f \in DOMAIN (files ++ disk) PROVE Settled(f, "done", DOMAIN Written("done", Seen, Now, project, UnitFiles(Now)))
    <3>1. Written("done", Seen, Now, project, UnitFiles(Now)) = Written("go", Seen, Now, project, UnitFiles(Now))
      BY WrittenOnwards
    <3>2. CASE f \in DOMAIN files
      BY <1>3, <3>2 DEF Settled
    <3>3. CASE f \in DOMAIN disk
      BY <2>1, <3>1, <3>3 DEF Sound, Settled, Uncleared
    <3> QED
      BY <2>3, <3>2, <3>3, OverDomain
  <2> QED
    BY <2>2, <2>3 DEF Sound
<1> QED
  BY <1>2, <1>4, <1>5, <1>6 DEF IInv

LEMMA StopKeeps == ASSUME IInv, Stop PROVE IInv'
<1>1. job' = [at |-> "idle", conf |-> project, islands |-> project, source |-> project, classes |-> {}, still |-> TRUE,
              builds |-> job.builds] /\ project' = project
  BY DEF Stop, Idle
<1>2. Reading'
  BY <1>1 DEF IInv, Reading, IsJob, Stages
<1>3. DiskPlaced'
  <2>1. CASE disk' = disk
    BY <2>1 DEF IInv, DiskPlaced, Placed
  <2>2. CASE disk' = [f \in DOMAIN Writing |-> <<"torn">>] ++ disk
    <3> DEFINE torn == [f \in DOMAIN Writing |-> <<"torn">>]
    <3>1. \A f \in DOMAIN Writing : Placed(f)
      BY PartsArePlaced, NothingIsNoFile DEF IInv, Writing
    <3>2. \A f \in DOMAIN torn : Placed(f)
      BY <3>1
    <3> HIDE DEF torn
    <3>3. disk' = torn ++ disk
      BY <2>2 DEF torn
    <3> QED
      BY <3>2, <3>3, WritePlaced DEF IInv
  <2> QED
    BY <2>1, <2>2 DEF Stop
<1>4. \A on : Sound("idle", Seen', Now', project', on)
  BY NothingStands DEF Sound, Written, Settled
<1> QED
  BY <1>1, <1>2, <1>3, <1>4 DEF IInv

LEMMA EditKeeps == ASSUME IInv, NEW p \in DOMAIN Sources, Edit(p) PROVE IInv'
<1>1. job' = [at |-> job.at, conf |-> job.conf, islands |-> job.islands, source |-> job.source, classes |-> job.classes,
              still |-> FALSE, builds |-> job.builds] /\ project' = p /\ disk' = disk
  BY DEF Edit, IInv, Reading, IsJob
<1>2. Reading'
  BY <1>1 DEF IInv, Reading, IsJob
<1>3. DiskPlaced'
  BY <1>1 DEF IInv, DiskPlaced, Placed
<1> QED
  BY <1>1, <1>2, <1>3 DEF IInv

LEMMA NothingKeeps == ASSUME IInv, UNCHANGED vars PROVE IInv'
BY DEF IInv, vars, Reading, DiskPlaced, Placed, Sound, Stands, Seen, Now

(* The inductive invariant of a build.                                     *)
THEOREM BuildInductive == Spec => []IInv
<1>1. ASSUME IInv, Next PROVE IInv'
  BY <1>1, LoadKeeps, BundleKeeps, CompileKeeps, CleanPackagesKeeps, WriteUnitsKeeps, WriteRegistryKeeps, WriteManifestKeeps,
     ClearStylesKeeps, WriteAssetsKeeps, ClearBundlesKeeps, WriteBundlesKeeps, ClearPublicKeeps, WritePublicKeeps,
     WriteInventoryKeeps, WriteStaticPagesKeeps, BuildGoKeeps, StopKeeps, EditKeeps DEF Next
<1>2. IInv /\ [Next]_vars => IInv'
  BY <1>1, NothingKeeps
<1> QED
  BY <1>2, InitIInv, PTL DEF Spec
-----------------------------------------------------------------------------
(* A build from nothing leaves what an undisturbed one has written.        *)
LEMMA FreshIsWritten ==
  ASSUME NEW j, NEW now, NEW conf
  PROVE  Fresh(j, now, conf) = Written("go", j, now, conf, UnitFiles(now))
<1> DEFINE u == UnitFiles(now)
           registry == RegistryFiles(j)
           manifest == ManifestFiles(j, conf)
           assets == AssetFiles(j, now)
           bundles == BundleFiles(j, Sidecar(j, now))
           public == PublicFiles(now) ++ PropsFiles(now)
           inventory == InventoryFile(j)
           host == HostFiles(j)
<1>1. Fresh(j, now, conf) = host ++ inventory ++ public ++ bundles ++ assets ++ manifest ++ registry ++ u
  BY DEF Fresh
<1>2. Written("go", j, now, conf, UnitFiles(now))
        = host ++ (inventory ++ (public ++ (bundles ++ (assets ++ (manifest ++ (registry ++ u))))))
  BY DEF Written
<1> HIDE DEF u, registry, manifest, assets, bundles, public, inventory, host
<1> DEFINE six == host ++ inventory ++ public ++ bundles ++ assets ++ manifest
           five == host ++ inventory ++ public ++ bundles ++ assets
           four == host ++ inventory ++ public ++ bundles
           three == host ++ inventory ++ public
           two == host ++ inventory
           below == registry ++ u
           lower == manifest ++ below
           low == assets ++ lower
           high == bundles ++ low
           higher == public ++ high
<1>3. (six ++ registry) ++ u = six ++ below
  <2> HIDE DEF six
  <2> QED
    BY OverAssociates
<1>4. (five ++ manifest) ++ below = five ++ lower
  <2> HIDE DEF five, below
  <2> QED
    BY OverAssociates
<1>5. (four ++ assets) ++ lower = four ++ low
  <2> HIDE DEF four, lower
  <2> QED
    BY OverAssociates
<1>6. (three ++ bundles) ++ low = three ++ high
  <2> HIDE DEF three, low
  <2> QED
    BY OverAssociates
<1>7. (two ++ public) ++ high = two ++ higher
  <2> HIDE DEF two, high
  <2> QED
    BY OverAssociates
<1>8. (host ++ inventory) ++ higher = host ++ (inventory ++ higher)
  <2> HIDE DEF higher
  <2> QED
    BY OverAssociates
<1> QED
  BY <1>1, <1>2, <1>3, <1>4, <1>5, <1>6, <1>7, <1>8

(* Sets of numbers have a least one.                                       *)
LEMMA LeastOfSet ==
  ASSUME NEW N, N \subseteq Nat, N # {}
  PROVE  \E m \in N : \A i \in N : m <= i
<1>1. PICK m \in N : \A i \in N : ~ (<<i, m>> \in OpToRel(<, Nat))
  BY NatLessThanWellFounded, WFMin
<1>2. \A i \in N : ~ (i < m)
  BY <1>1 DEF OpToRel
<1> QED
  BY <1>2

(* A page the worker renders is one the host asks it for.                  *)
LEMMA GlobCovers ==
  ASSUME NEW p, IsProject(p), NEW r \in p.pages, r.class = "dynamic", NEW d, IsDir(d), Matches(r.pattern, d)
  PROVE  Covered(WorkerPatterns(p), d)
<1> DEFINE pattern == r.pattern
           words == Words(pattern)
           params == {i \in 1..Len(pattern) : pattern[i].param}
           cut == S!SelectInSeq(pattern, LAMBDA s : s.param)
<1>1. PICK Name : d \in Seq(Name)
  BY DEF IsDir
<1>2. /\ DOMAIN pattern = 1..Len(pattern) /\ Len(pattern) \in Nat /\ IsDir(words) /\ Len(words) = Len(pattern)
      /\ DOMAIN words = 1..Len(pattern)
  BY WordsAreADirectory
<1>3. PICK Word : words \in Seq(Word)
  BY <1>2 DEF IsDir
<1>4. Len(pattern) = Len(d) /\ \A i \in 1..Len(pattern) : pattern[i].param \/ words[i] = d[i]
  BY <1>2 DEF Matches
<1>5. cut = IF params # {} THEN S!Min(params) ELSE 0
  BY DEF S!SelectInSeq
<1>6. Glob(pattern) \in WorkerPatterns(p)
  BY DEF WorkerPatterns
<1>7. Glob(pattern) = IF cut = 0 THEN [words |-> words, rest |-> FALSE] ELSE [words |-> SubSeq(words, 1, cut - 1), rest |-> TRUE]
  BY DEF Glob
<1>8. CASE params = {}
  <2>1. Glob(pattern).words = words /\ ~Glob(pattern).rest
    <3>1. cut = 0
      BY <1>5, <1>8
    <3> HIDE DEF cut, words
    <3> QED
      BY <1>7, <3>1
  <2>2. \A i \in 1..Len(pattern) : words[i] = d[i]
    BY <1>4, <1>8
  <2>3. words = d
    <3> HIDE DEF words, pattern
    <3> QED
      BY <1>1, <1>2, <1>3, <1>4, <2>2, SeqEqual
  <2> QED
    BY <1>6, <2>1, <2>3 DEF Covered
<1>9. CASE params # {}
  <2>1. params \subseteq Nat
    OBVIOUS
  <2>2. cut \in params /\ \A i \in params : cut <= i
    <3>1. \E m \in params : \A i \in params : m <= i
      BY <1>9, <2>1, LeastOfSet
    <3>2. cut = S!Min(params)
      BY <1>5, <1>9
    <3>3. S!Min(params) = CHOOSE m \in params : \A i \in params : m <= i
      BY DEF S!Min
    <3> HIDE DEF cut, params
    <3> QED
      BY <3>1, <3>2, <3>3
  <2>3. cut \in 1..Len(pattern)
    BY <2>2
  <2>4. \A i \in 1..(cut - 1) : words[i] = d[i]
    <3> SUFFICES ASSUME NEW i \in 1..(cut - 1) PROVE words[i] = d[i]
      OBVIOUS
    <3>1. i \in 1..Len(pattern) /\ ~(cut <= i)
      BY <2>3, <1>2
    <3>2. ~pattern[i].param
      BY <2>2, <3>1
    <3> QED
      BY <1>4, <3>1, <3>2
  <2>5. Glob(pattern).words = SubSeq(words, 1, cut - 1) /\ Glob(pattern).rest
    <3> DEFINE shown == SubSeq(words, 1, cut - 1)
    <3>1. Glob(pattern) = [words |-> shown, rest |-> TRUE]
      BY <1>2, <1>7, <2>3
    <3> HIDE DEF shown
    <3>2. Glob(pattern).words = shown /\ Glob(pattern).rest = TRUE
      BY <3>1
    <3> QED
      BY <3>2 DEF shown
  <2>6. S!IsPrefix(SubSeq(words, 1, cut - 1), d)
    <3> HIDE DEF cut, words, pattern
    <3>1. cut - 1 \in 0..Len(d) /\ cut - 1 \in 0..Len(words)
      BY <1>2, <1>4, <2>3
    <3>2. Len(SubSeq(words, 1, cut - 1)) = cut - 1 /\ \A i \in 1..(cut - 1) : SubSeq(words, 1, cut - 1)[i] = words[i]
      BY <1>3, <3>1
    <3>3. SubSeq(words, 1, cut - 1) \in Seq(Word)
      BY <1>3, <3>1
    <3>4. SubSeq(words, 1, cut - 1) = SubSeq(d, 1, cut - 1)
      BY <1>1, <2>4, <3>1, <3>2, <3>3
    <3> QED
      BY <1>1, <3>1, <3>2, <3>4 DEF S!IsPrefix
  <2> QED
    BY <1>6, <2>5, <2>6 DEF Covered
<1> QED
  BY <1>8, <1>9
-----------------------------------------------------------------------------
(* What shows of each part when a build has run.                           *)
LEMMA PartsAreThere ==
  ASSUME NEW j, NEW now, NEW conf, NEW u, NEW f,
         \/ f \in DOMAIN PublicFiles(now) \/ f \in DOMAIN BundleFiles(j, Sidecar(j, now)) \/ f \in DOMAIN AssetFiles(j, now)
         \/ f \in DOMAIN PropsFiles(now) \/ f \in DOMAIN ManifestFiles(j, conf) \/ f \in DOMAIN RegistryFiles(j) \/ f \in DOMAIN u
  PROVE  f \in DOMAIN Written("go", j, now, conf, u)
BY WrittenOnwards, OverDomain

LEMMA LateElsewhere ==
  ASSUME NEW j, NEW now, IsProject(j.source), IsProject(now), NEW f, f.root = "gen",
         (f.dir = <<>> /\ f.name # "props.d.ts") \/ (f.dir # <<>> /\ f.dir[1] \notin {<<"public">>, <<"props">>})
  PROVE  /\ f \notin DOMAIN HostFiles(j) /\ f \notin DOMAIN InventoryFile(j)
         /\ f \notin DOMAIN PublicFiles(now) /\ f \notin DOMAIN PropsFiles(now)
<1>1. f \notin DOMAIN HostFiles(j)
  BY HostFilesAreAssets
<1>2. f \notin DOMAIN InventoryFile(j)
  BY FileAlone, WorkIsInTheCache DEF InventoryFile
<1>3. f \notin DOMAIN PublicFiles(now)
  BY PublicIsInPublic
<1>4. f \notin DOMAIN PropsFiles(now)
  BY PropsAreInProps, AtIsAFile, ReservedDiffer, DirectoriesOfOne
<1> QED
  BY <1>1, <1>2, <1>3, <1>4

LEMMA ShowsLate ==
  ASSUME NEW j, NEW now, NEW conf, NEW u, IsProject(j.source), IsProject(now), NEW f, f.root = "gen",
         (f.dir = <<>> /\ f.name # "props.d.ts") \/ (f.dir # <<>> /\ f.dir[1] \notin {<<"public">>, <<"props">>}),
         f \in DOMAIN Written("public", j, now, conf, u)
  PROVE  f \in DOMAIN Written("go", j, now, conf, u) /\ Written("go", j, now, conf, u)[f] = Written("public", j, now, conf, u)[f]
<1> DEFINE first == Written("public", j, now, conf, u)
           second == (PublicFiles(now) ++ PropsFiles(now)) ++ first
           third == InventoryFile(j) ++ second
<1>1. Written("go", j, now, conf, u) = HostFiles(j) ++ third
  BY WrittenOnwards
<1>2. f \in DOMAIN second /\ second[f] = first[f]
  <2> HIDE DEF first
  <2>1. f \in DOMAIN first /\ f \notin DOMAIN (PublicFiles(now) ++ PropsFiles(now))
    BY LateElsewhere, OverDomain DEF first
  <2> QED
    BY <2>1, OverDomain, OverBelow
<1> HIDE DEF second
<1>3. f \in DOMAIN third /\ third[f] = second[f]
  BY <1>2, LateElsewhere, OverDomain, OverBelow
<1> HIDE DEF third
<1>4. f \in DOMAIN (HostFiles(j) ++ third) /\ (HostFiles(j) ++ third)[f] = third[f]
  BY <1>3, LateElsewhere, OverDomain, OverBelow
<1> QED
  BY <1>1, <1>2, <1>3, <1>4

LEMMA ShowsEarly ==
  ASSUME NEW j, NEW now, NEW conf, NEW u, IsProject(j.source), IsProject(now), NEW f, f.root = "gen",
         (f.dir = <<>> /\ f.name # "props.d.ts") \/ (f.dir # <<>> /\ f.dir[1] \notin Reserved),
         f \in DOMAIN Written("styles", j, now, conf, u)
  PROVE  f \in DOMAIN Written("go", j, now, conf, u) /\ Written("go", j, now, conf, u)[f] = Written("styles", j, now, conf, u)[f]
<1> DEFINE first == Written("styles", j, now, conf, u)
           second == AssetFiles(j, now) ++ first
<1>1. Written("public", j, now, conf, u) = BundleFiles(j, Sidecar(j, now)) ++ second
  BY WrittenOnwards
<1>2. f \notin DOMAIN AssetFiles(j, now) /\ f \notin DOMAIN BundleFiles(j, Sidecar(j, now))
  BY AssetsAreInStyles, BundlesAreInBundles, ReservedDiffer, DirectoriesOfOne DEF Within, Reserved
<1>3. f \in DOMAIN second /\ second[f] = first[f]
  BY <1>2, OverDomain, OverBelow
<1> HIDE DEF second
<1>4. f \in DOMAIN Written("public", j, now, conf, u) /\ Written("public", j, now, conf, u)[f] = second[f]
  BY <1>1, <1>2, <1>3, OverDomain, OverBelow
<1> QED
  BY <1>3, <1>4, ShowsLate DEF Reserved

(* The names of the files of packages.                                     *)
ProviderFile(g) == At("gen", <<g.package>>, IF g.in = "handler.go" THEN "handler.go" ELSE "provider.go")

LEMMA PackagesAreOfThreeKinds ==
  ASSUME NEW p, NEW g \in Packages(p)
  PROVE  g.in \in {"page.go", "layout.go", "handler.go"}
BY DEF Packages, Generated

LEMMA ProvidersStand ==
  ASSUME NEW p, ~Clashing(p), NEW g \in Packages(p)
  PROVE  ProviderFile(g) \in DOMAIN UnitFiles(p) /\ UnitFiles(p)[ProviderFile(g)] = Provider(g)
<1> DEFINE pages == {h \in Packages(p) : h.in # "handler.go"}
           frontmatter(h) == At("gen", <<h.package>>, h.in) := <<"frontmatter", h.route>>
           provider(h) == At("gen", <<h.package>>, "provider.go") := Provider(h)
           handler(h) == At("gen", <<h.package>>, "handler.go") := Provider(h)
           F == Merged({frontmatter(h) : h \in pages})
           P == Merged({provider(h) : h \in pages})
           H == Merged({handler(h) : h \in Packages(p) \ pages})
           f == ProviderFile(g)
<1>1. UnitFiles(p) = F ++ P ++ H
  BY DEF UnitFiles
<1>2. \A h \in Packages(p) : h.package = g.package => h = g
  BY DEF Clashing
<1>3. \A h \in Packages(p) : \A n : At("gen", <<h.package>>, n) = f
        => h = g /\ n = (IF g.in = "handler.go" THEN "handler.go" ELSE "provider.go")
  <2> SUFFICES ASSUME NEW h \in Packages(p), NEW n, At("gen", <<h.package>>, n) = f
               PROVE  h = g /\ n = (IF g.in = "handler.go" THEN "handler.go" ELSE "provider.go")
    OBVIOUS
  <2>1. <<h.package>> = <<g.package>> /\ n = (IF g.in = "handler.go" THEN "handler.go" ELSE "provider.go")
    BY AtIsAFile DEF ProviderFile
  <2>2. h.package = g.package
    BY <2>1
  <2> QED
    BY <1>2, <2>1, <2>2
<1>4. /\ \A h, x : x \in DOMAIN frontmatter(h) <=> x = At("gen", <<h.package>>, h.in)
      /\ \A h, x : x \in DOMAIN provider(h) <=> x = At("gen", <<h.package>>, "provider.go")
      /\ \A h, x : x \in DOMAIN handler(h) <=> x = At("gen", <<h.package>>, "handler.go")
      /\ \A h : provider(h)[At("gen", <<h.package>>, "provider.go")] = Provider(h)
      /\ \A h : handler(h)[At("gen", <<h.package>>, "handler.go")] = Provider(h)
  BY FileAlone
<1> HIDE DEF frontmatter, provider, handler
<1>5. f \notin DOMAIN F
  <2> SUFFICES ASSUME f \in DOMAIN F PROVE FALSE
    OBVIOUS
  <2>1. PICK h \in pages : f \in DOMAIN frontmatter(h)
    BY MergedDomain
  <2>2. At("gen", <<h.package>>, h.in) = f
    BY <1>4, <2>1
  <2>3. h.in \in {"page.go", "layout.go"}
    BY PackagesAreOfThreeKinds
  <2> QED
    BY <1>3, <2>2, <2>3
<1>6. CASE g.in = "handler.go"
  <2>1. f = At("gen", <<g.package>>, "handler.go") /\ g \in Packages(p) \ pages
    BY <1>6 DEF ProviderFile
  <2>2. f \in DOMAIN handler(g)
    BY <1>4, <2>1
  <2>3. f \in DOMAIN H
    BY <2>1, <2>2, MergedDomain
  <2>4. PICK m \in {handler(h) : h \in Packages(p) \ pages} : f \in DOMAIN m /\ H[f] = m[f]
    BY <2>3, MergedIsOne
  <2>5. PICK h \in Packages(p) \ pages : m = handler(h)
    BY <2>4
  <2>6. h = g
    BY <1>3, <1>4, <2>4, <2>5
  <2>7. H[f] = Provider(g)
    BY <1>4, <2>1, <2>4, <2>5, <2>6
  <2>8. f \notin DOMAIN P
    <3> SUFFICES ASSUME f \in DOMAIN P PROVE FALSE
      OBVIOUS
    <3>1. PICK k \in pages : f \in DOMAIN provider(k)
      BY MergedDomain
    <3>2. At("gen", <<k.package>>, "provider.go") = f
      BY <1>4, <3>1
    <3> QED
      BY <1>3, <1>6, <3>2
  <2> HIDE DEF f, F, P, H
  <2>9. f \notin DOMAIN (F ++ P)
    BY <1>5, <2>8, OverDomain
  <2> QED
    BY <1>1, <2>3, <2>7, <2>9, OverDomain, OverBelow DEF f
<1>7. CASE g.in # "handler.go"
  <2>1. f = At("gen", <<g.package>>, "provider.go") /\ g \in pages
    BY <1>7 DEF ProviderFile
  <2>2. f \in DOMAIN provider(g)
    BY <1>4, <2>1
  <2>3. f \in DOMAIN P
    BY <2>1, <2>2, MergedDomain
  <2>4. PICK m \in {provider(h) : h \in pages} : f \in DOMAIN m /\ P[f] = m[f]
    BY <2>3, MergedIsOne
  <2>5. PICK h \in pages : m = provider(h)
    BY <2>4
  <2>6. h = g
    BY <1>3, <1>4, <2>4, <2>5
  <2>7. P[f] = Provider(g)
    BY <1>4, <2>1, <2>4, <2>5, <2>6
  <2> HIDE DEF f, F, P, H
  <2>8. f \in DOMAIN (F ++ P) /\ (F ++ P)[f] = Provider(g)
    BY <1>5, <2>3, <2>7, OverDomain, OverBelow
  <2> QED
    BY <1>1, <2>8, OverDomain, OverAbove DEF f
<1> QED
  BY <1>6, <1>7

RegistryFile == At("gen", <<>>, "registry.go")

LEMMA RegistryStands ==
  ASSUME NEW j
  PROVE  /\ RegistryFile \in DOMAIN RegistryFiles(j)
         /\ RegistryFiles(j)[RegistryFile] =
              <<"registry", [imports |-> Packages(j.source), entries |-> UNION {{g} \X (g.funcs \cup g.deferred) : g \in Packages(j.source)}]>>
<1> DEFINE content ==
      <<"registry", [imports |-> Packages(j.source), entries |-> UNION {{g} \X (g.funcs \cup g.deferred) : g \in Packages(j.source)}]>>
<1>1. RegistryFiles(j) = (RegistryFile := content) ++ Embeds ++ AppFile(j.conf.images)
  BY DEF RegistryFiles, Registry, RegistryFile
<1> HIDE DEF content
<1>2. RegistryFile \in DOMAIN (RegistryFile := content) /\ (RegistryFile := content)[RegistryFile] = content
  BY FileAlone
<1>3. /\ RegistryFile \in DOMAIN ((RegistryFile := content) ++ Embeds)
      /\ ((RegistryFile := content) ++ Embeds)[RegistryFile] = content
  BY <1>2, OverDomain, OverAbove
<1>4. RegistryFile \in DOMAIN RegistryFiles(j) /\ RegistryFiles(j)[RegistryFile] = content
  BY <1>1, <1>3, OverDomain, OverAbove
<1> QED
  BY <1>4 DEF content

(* What is written of the registry and of the packages is there at the end.*)
LEMMA RegistryShows ==
  ASSUME NEW j, NEW now, NEW conf, NEW u, IsProject(j.source), IsProject(now)
  PROVE  RegistryFile \in DOMAIN Written("go", j, now, conf, u)
         /\ Written("go", j, now, conf, u)[RegistryFile] = RegistryFiles(j)[RegistryFile]
<1>1. Written("styles", j, now, conf, u) = ManifestFiles(j, conf) ++ (RegistryFiles(j) ++ u)
  BY WrittenOnwards
<1>2. RegistryFile \notin DOMAIN ManifestFiles(j, conf)
  <2>1. RegistryFile.name = "registry.go" /\ ManifestFile.name = "manifest.bin" /\ ConfigFile.name = "config.json"
    BY AtIsAFile DEF RegistryFile, ManifestFile, ConfigFile
  <2> QED
    BY <2>1, ManifestIsOnTop
<1>3. RegistryFile.root = "gen" /\ RegistryFile.dir = <<>> /\ RegistryFile.name # "props.d.ts"
  BY AtIsAFile DEF RegistryFile
<1>4. /\ RegistryFile \in DOMAIN (RegistryFiles(j) ++ u) /\ (RegistryFiles(j) ++ u)[RegistryFile] = RegistryFiles(j)[RegistryFile]
  BY RegistryStands, OverDomain, OverAbove
<1>5. RegistryFile \in DOMAIN Written("styles", j, now, conf, u)
      /\ Written("styles", j, now, conf, u)[RegistryFile] = RegistryFiles(j)[RegistryFile]
  BY <1>1, <1>2, <1>4, OverDomain, OverBelow
<1> QED
  BY <1>3, <1>5, ShowsEarly

LEMMA UnitsShow ==
  ASSUME NEW j, NEW now, NEW conf, IsProject(j.source), IsProject(now), ~Clashing(now), NEW f \in DOMAIN UnitFiles(now)
  PROVE  f \in DOMAIN Written("go", j, now, conf, UnitFiles(now))
         /\ Written("go", j, now, conf, UnitFiles(now))[f] = UnitFiles(now)[f]
<1> DEFINE u == UnitFiles(now)
<1>1. u \in Units(now)
  BY DEF Units
<1>2. f.root = "gen" /\ f.dir # <<>> /\ f.dir[1] \notin Reserved
  BY <1>1, UnitsStayClear
<1>3. f \notin DOMAIN ManifestFiles(j, conf) /\ f \notin DOMAIN RegistryFiles(j)
  <2>1. f \in DOMAIN ManifestFiles(j, conf) \/ f \in DOMAIN RegistryFiles(j) => \E n : f = At("gen", <<>>, n)
    BY ManifestIsOnTop, RegistryIsOnTop DEF ConfigFile, ManifestFile
  <2> QED
    BY <1>2, <2>1, AtIsAFile
<1> HIDE DEF u
<1>4. f \in DOMAIN u
  BY DEF u
<1>5. Written("styles", j, now, conf, u) = ManifestFiles(j, conf) ++ (RegistryFiles(j) ++ u)
  BY WrittenOnwards
<1>6. f \in DOMAIN (RegistryFiles(j) ++ u) /\ (RegistryFiles(j) ++ u)[f] = u[f]
  BY <1>3, <1>4, OverDomain, OverBelow
<1>7. f \in DOMAIN Written("styles", j, now, conf, u) /\ Written("styles", j, now, conf, u)[f] = u[f]
  BY <1>3, <1>5, <1>6, OverDomain, OverBelow
<1>8. f \in DOMAIN Written("go", j, now, conf, u) /\ Written("go", j, now, conf, u)[f] = u[f]
  BY <1>2, <1>7, ShowsEarly
<1> QED
  BY <1>8 DEF u
-----------------------------------------------------------------------------
LEMMA GenIsUnder ==
  ASSUME DiskPlaced
  PROVE  /\ \A f : f \in DOMAIN Gen <=> f \in DOMAIN disk /\ f.root = "gen"
         /\ \A f \in DOMAIN Gen : Gen[f] = disk[f]
BY UnderOne DEF Gen

LEMMA GenCompiles ==
  ASSUME DiskPlaced, NEW j, NEW now, NEW conf, j.source = now, IsProject(now), ~Clashing(now),
         Stands(Written("go", j, now, conf, UnitFiles(now)), disk)
  PROVE  Compiles(Gen)
<1> DEFINE w == Written("go", j, now, conf, UnitFiles(now))
           entries == UNION {{g} \X (g.funcs \cup g.deferred) : g \in Packages(now)}
<1>1. Gen[RegistryFile] = <<"registry", [imports |-> Packages(now), entries |-> entries]>>
  <2>1. RegistryFile \in DOMAIN w /\ w[RegistryFile] = <<"registry", [imports |-> Packages(now), entries |-> entries]>>
    BY RegistryShows, RegistryStands
  <2>2. RegistryFile \in DOMAIN disk /\ disk[RegistryFile] = w[RegistryFile]
    BY <2>1 DEF Stands
  <2>3. RegistryFile.root = "gen"
    BY AtIsAFile DEF RegistryFile
  <2> QED
    BY <2>1, <2>2, <2>3, GenIsUnder
<1> DEFINE registry == Gen[At("gen", <<>>, "registry.go")][2]
<1>2. registry.imports = Packages(now) /\ registry.entries = entries
  <2> HIDE DEF entries
  <2> QED
    BY <1>1 DEF RegistryFile
<1>3. ASSUME NEW g \in Packages(now)
      PROVE  ProviderFile(g) \in DOMAIN Gen /\ Gen[ProviderFile(g)] = Provider(g)
  <2>1. ProviderFile(g) \in DOMAIN UnitFiles(now) /\ UnitFiles(now)[ProviderFile(g)] = Provider(g)
    BY ProvidersStand
  <2>2. ProviderFile(g) \in DOMAIN w /\ w[ProviderFile(g)] = Provider(g)
    BY <2>1, UnitsShow
  <2>3. ProviderFile(g) \in DOMAIN disk /\ disk[ProviderFile(g)] = Provider(g)
    BY <2>2 DEF Stands
  <2>4. ProviderFile(g).root = "gen"
    BY AtIsAFile DEF ProviderFile
  <2> QED
    BY <2>3, <2>4, GenIsUnder
<1>4. ASSUME NEW e \in entries
      PROVE  ProviderFile(e[1]) \in DOMAIN Gen /\ e[2] \in Gen[ProviderFile(e[1])][3]
  <2>1. PICK g \in Packages(now) : e \in {g} \X (g.funcs \cup g.deferred)
    BY <1>4
  <2>2. e[1] = g /\ e[2] \in g.funcs \cup g.deferred
    BY <2>1
  <2>3. Provider(g)[3] = g.funcs \cup g.deferred
    BY DEF Provider
  <2> QED
    BY <1>3, <2>2, <2>3
<1>5. \A g, h \in Packages(now) : g # h => g.package # h.package /\ g.deferred \cap h.deferred = {}
  BY DEF Clashing
<1> HIDE DEF entries
<1>6. \A e \in registry.entries :
        LET file == At("gen", <<e[1].package>>, IF e[1].in = "handler.go" THEN "handler.go" ELSE "provider.go")
        IN  file \in DOMAIN Gen /\ e[2] \in Gen[file][3]
  BY <1>2, <1>4 DEF ProviderFile
<1>7. \A g, h \in registry.imports : g # h => g.package # h.package /\ g.deferred \cap h.deferred = {}
  BY <1>2, <1>5
<1> QED
  BY <1>6, <1>7 DEF Compiles

LEMMA TopIsFresh ==
  ASSUME NEW j, NEW now, NEW conf, NEW u, NEW f \in Top
  PROVE  f \in DOMAIN Written("go", j, now, conf, u)
<1>1. f \in DOMAIN RegistryFiles(j) \/ f \in DOMAIN ManifestFiles(j, conf) \/ f = At("gen", <<>>, "props.d.ts")
  BY RegistryIsOnTop, ManifestIsOnTop DEF Top, ConfigFile, ManifestFile
<1>2. At("gen", <<>>, "props.d.ts") \in DOMAIN PropsFiles(now)
  BY OverDomain, FileAlone DEF PropsFiles
<1> QED
  BY <1>1, <1>2, PartsAreThere

(* What an undisturbed build leaves.                                       *)
LEMMA InvStartsAnew == ASSUME IInv PROVE StartsAnew
<1> DEFINE fresh == Fresh(Seen, Now, project)
<1> SUFFICES ASSUME Undisturbed, ~Clashing(Now)
    PROVE  /\ \A f \in DOMAIN fresh : f \in DOMAIN disk /\ disk[f] = fresh[f]
           /\ \A f \in DOMAIN disk \ DOMAIN fresh :
                /\ Leftover(f)
                /\ f.root = "assets" /\ f.name = "index.html" =>
                     \A r \in Now.pages : r.class = "dynamic" /\ Matches(r.pattern, f.dir) => Covered(WorkerPatterns(Now), f.dir)
           /\ Compiles(Gen)
  BY DEF StartsAnew
<1>1. DiskPlaced /\ Reading /\ Sound(job.at, Seen, Now, project, disk) /\ job.at \in {"go", "done"}
  BY DEF IInv, Undisturbed
<1>2. IsProject(Now) /\ Seen.source = Now
  BY <1>1, SourcesAreProjects DEF Undisturbed
<1>3. fresh = Written("go", Seen, Now, project, UnitFiles(Now)) /\ fresh = Written(job.at, Seen, Now, project, UnitFiles(Now))
  BY <1>1, FreshIsWritten, WrittenOnwards
<1> HIDE DEF fresh
<1>4. Stands(fresh, disk)
  <2>1. UnitFiles(Now) \in Units(Now)
    BY DEF Units
  <2> QED
    BY <1>1, <1>3, <2>1 DEF Sound
<1>5. ASSUME NEW f \in DOMAIN disk \ DOMAIN fresh PROVE Leftover(f)
  <2>1. Placed(f) /\ Settled(f, job.at, DOMAIN fresh)
    BY <1>1, <1>3 DEF DiskPlaced, Sound
  <2>2. f \notin Top
    BY <1>3, <1>5, TopIsFresh
  <2>3. CASE f.root = "gen"
    <3>1. f.dir[1] = <<"props">>
      BY <1>1, <1>5, <2>1, <2>2, <2>3 DEF Settled, Uncleared
    <3> QED
      BY <2>1, <2>2, <2>3, <3>1 DEF Placed, Leftover
  <2>4. CASE f.root = "assets"
    BY <1>1, <1>5, <2>1, <2>4 DEF Settled, Leftover
  <2>5. CASE f.root \in {"cache", "demo", "dist"}
    BY <2>5 DEF Leftover
  <2> QED
    BY <2>1, <2>3, <2>4, <2>5 DEF Placed
<1>6. ASSUME NEW f \in DOMAIN disk, NEW r \in Now.pages, r.class = "dynamic", Matches(r.pattern, f.dir)
      PROVE  Covered(WorkerPatterns(Now), f.dir)
  <2>1. IsDir(f.dir)
    BY <1>1 DEF DiskPlaced, Placed
  <2> QED
    BY <1>2, <1>6, <2>1, GlobCovers
<1>7. Compiles(Gen)
  BY <1>1, <1>2, <1>3, <1>4, GenCompiles
<1> QED
  BY <1>4, <1>5, <1>6, <1>7 DEF Stands
-----------------------------------------------------------------------------
(* What the pages, the Link header and the preloads name: a collected file,*)
(* a bundle or a font of public/.                                          *)
LEMMA TargetsAreThree ==
  ASSUME NEW j, NEW now, IsProject(j.source),
         NEW x \in Tags(Collected(j) \cup Extra(j)) \cup Link(Collected(j) \cup Extra(j) \cup Fonts(now))
  PROVE  \/ \E n \in DOMAIN j.source.styles : n # ".keep" /\ x = AssetPath(n, Compiled(j, n))
         \/ \E o \in Bundled(j) : x = InAssets(o.file)
         \/ \E f \in DOMAIN now.public : x = PublicPath(f.dir, f.name)
<1>1. PICK a \in Collected(j) \cup Extra(j) \cup Fonts(now) : x = a.path /\ a.kind \in {"script", "module", "style", "font"}
  <2> DEFINE page == Collected(j) \cup Extra(j)
             all == page \cup Fonts(now)
  <2>1. x \in Tags(page) \cup Link(all)
    OBVIOUS
  <2> HIDE DEF page
  <2>2. \E a \in all : x = a.path /\ a.kind \in {"script", "module", "style", "font"}
    BY <2>1 DEF Tags, Link
  <2> QED
    BY <2>2 DEF page
<1>2. CASE a \in Collected(j)
  <2>1. PICK n \in DOMAIN j.source.styles :
          a = [path |-> AssetPath(n, Compiled(j, n)), kind |-> j.source.styles[n].kind,
               inline |-> j.source.styles[n].kind = "style" /\ j.source.styles[n].text \in j.conf.small]
    BY <1>2 DEF Collected
  <2>2. a.path = AssetPath(n, Compiled(j, n)) /\ a.kind = j.source.styles[n].kind
    BY <2>1
  <2>3. n # ".keep"
    BY <1>1, <2>2 DEF IsProject
  <2> QED
    BY <1>1, <2>2, <2>3
<1>3. CASE a \in Extra(j)
  <2>1. \E o \in Bundled(j) : a.path = InAssets(o.file)
    BY <1>3 DEF Extra
  <2> QED
    BY <1>1, <2>1
<1>4. CASE a \in Fonts(now)
  <2>1. \E f \in DOMAIN now.public : a.path = PublicPath(f.dir, f.name)
    BY <1>4 DEF Fonts
  <2> QED
    BY <1>1, <2>1
<1> QED
  BY <1>1, <1>2, <1>3, <1>4

LEMMA PreloadsAreChunks ==
  ASSUME NEW j, NEW now, NEW c \in Sidecar(j, now).modules \cup LazyChunks(Sidecar(j, now))
  PROVE  \E o \in Bundled(j) : o.file = c
<1> DEFINE bundled == Bundled(j)
<1>1. Sidecar(j, now).modules = EagerChunks(bundled) /\ Sidecar(j, now).islands = IslandChunks(bundled, j.source.islands)
  BY DEF Sidecar
<1>2. ASSUME c \in EagerChunks(bundled) PROVE \E o \in bundled : o.file = c
  <2>1. PICK o \in bundled : c \in o.imports
    BY <1>2 DEF EagerChunks
  <2>2. bundled = Esbuild(j.islands.islands, j.conf.navigation)
    BY DEF Bundled
  <2> QED
    BY <2>1, <2>2, ImportsOfEsbuild
<1>3. ASSUME c \in LazyChunks(Sidecar(j, now)) PROVE \E o \in bundled : o.file = c
  <2>1. PICK i \in IslandChunks(bundled, j.source.islands) : c \in i.chunks
    BY <1>1, <1>3 DEF LazyChunks
  <2>2. \E chunk : i.chunks = Closure(bundled, chunk)
    BY <2>1 DEF IslandChunks
  <2> QED
    BY <2>1, <2>2 DEF Closure
<1> QED
  BY <1>1, <1>2, <1>3

(* The name of a file of styles/ and of a chunk, as they are written.      *)
LEMMA StyleStands ==
  ASSUME NEW j, NEW now, NEW n \in DOMAIN j.source.styles
  PROVE  /\ At("gen", Styles, n) \in DOMAIN AssetFiles(j, now)
         /\ AssetFiles(j, now)[At("gen", Styles, n)] = Rewritten(j, now, n)
         /\ AssetPath(n, Compiled(j, n)) \in DOMAIN AssetFiles(j, now)
<1> DEFINE served(m) == WriteServed(At("gen", Styles, m), Rewritten(j, now, m), now.styles[m].kind = "style")
           copy(m) == AssetPath(m, Compiled(j, m)) := Rewritten(j, now, m)
           part(m) == served(m) ++ copy(m)
           all == {part(m) : m \in DOMAIN j.source.styles}
           f == At("gen", Styles, n)
<1>1. AssetFiles(j, now) = Merged(all) ++ Keep(Styles)
  BY DEF AssetFiles
<1>2. f \in DOMAIN served(n) /\ served(n)[f] = Rewritten(j, now, n) /\ AssetPath(n, Compiled(j, n)) \in DOMAIN copy(n)
  BY ServedAt, AtIsAFile, FileAlone
<1>3. \A m : f \in DOMAIN served(m) => m = n
  BY ServedAt, AtIsAFile
<1>4. \A m : f \notin DOMAIN copy(m)
  BY FileAlone, AtIsAFile, HashedIsAFile DEF AssetPath
<1> HIDE DEF served, copy
<1>5. f \in DOMAIN part(n) /\ part(n)[f] = Rewritten(j, now, n) /\ AssetPath(n, Compiled(j, n)) \in DOMAIN part(n)
  BY <1>2, OverDomain, OverAbove
<1>6. \A m : f \in DOMAIN part(m) => m = n
  BY <1>3, <1>4, OverDomain
<1> HIDE DEF part
<1>7. f \in DOMAIN Merged(all) /\ AssetPath(n, Compiled(j, n)) \in DOMAIN Merged(all)
  BY <1>5, MergedDomain
<1>8. Merged(all)[f] = Rewritten(j, now, n)
  <2>1. PICK m \in all : f \in DOMAIN m /\ Merged(all)[f] = m[f]
    BY <1>7, MergedIsOne
  <2>2. m = part(n)
    BY <1>6, <2>1
  <2> QED
    BY <1>5, <2>1, <2>2
<1> HIDE DEF all
<1> QED
  BY <1>1, <1>7, <1>8, OverDomain, OverAbove

LEMMA ChunkStands ==
  ASSUME NEW j, NEW sidecar, NEW o \in Bundled(j)
  PROVE  o.file \in DOMAIN BundleFiles(j, sidecar) /\ InAssets(o.file) \in DOMAIN BundleFiles(j, sidecar)
<1> DEFINE served(p) == WriteServed(p.file, <<"chunk", p.file>>, TRUE)
           copy(p) == InAssets(p.file) := <<"chunk", p.file>>
           part(p) == served(p) ++ copy(p)
           all == {part(p) : p \in Bundled(j)}
<1>1. BundleFiles(j, sidecar) = Merged(all) ++ Keep(Bundles) ++ (PreloadFile := <<"sidecar", sidecar>>)
  BY DEF BundleFiles
<1>2. o.file \in DOMAIN served(o)
  BY DEF WriteServed
<1>3. InAssets(o.file) \in DOMAIN copy(o)
  BY FileAlone
<1> HIDE DEF served, copy
<1>4. o.file \in DOMAIN part(o) /\ InAssets(o.file) \in DOMAIN part(o)
  BY <1>2, <1>3, OverDomain
<1> HIDE DEF part
<1>5. o.file \in DOMAIN Merged(all) /\ InAssets(o.file) \in DOMAIN Merged(all)
  BY <1>4, MergedDomain
<1> HIDE DEF all
<1> QED
  BY <1>1, <1>5, OverDomain

LEMMA SidecarStands ==
  ASSUME NEW j, NEW sidecar
  PROVE  PreloadFile \in DOMAIN BundleFiles(j, sidecar) /\ BundleFiles(j, sidecar)[PreloadFile] = <<"sidecar", sidecar>>
<1> DEFINE served(p) == WriteServed(p.file, <<"chunk", p.file>>, TRUE)
           copy(p) == InAssets(p.file) := <<"chunk", p.file>>
           part(p) == served(p) ++ copy(p)
           all == {part(p) : p \in Bundled(j)}
           content == <<"sidecar", sidecar>>
<1>1. BundleFiles(j, sidecar) = Merged(all) ++ Keep(Bundles) ++ (PreloadFile := content)
  BY DEF BundleFiles
<1>2. PreloadFile.name = "gopage.preload" /\ PreloadFile.root = "gen"
  BY AtIsAFile DEF PreloadFile
<1>3. ASSUME NEW p \in Bundled(j) PROVE PreloadFile \notin DOMAIN part(p)
  <2>1. PreloadFile \notin DOMAIN copy(p)
    BY <1>2, FileAlone, InAssetsIsAFile
  <2>2. PreloadFile \notin DOMAIN served(p)
    <3> DEFINE file == p.file
    <3>1. IsFile(file) /\ file.name \in {"island", "gopage.client"}
      BY ChunksAreInBundles
    <3> HIDE DEF file
    <3>2. PreloadFile \notin DOMAIN WriteServed(file, <<"chunk", file>>, TRUE)
      BY <1>2, <3>1, CompressedAt
    <3> QED
      BY <3>2 DEF file
  <2> HIDE DEF served, copy
  <2> QED
    BY <2>1, <2>2, OverDomain
<1> HIDE DEF part
<1>4. PreloadFile \notin DOMAIN Merged(all)
  BY <1>3, MergedDomain
<1>5. PreloadFile \notin DOMAIN Keep(Bundles)
  BY <1>2, FileAlone, AtIsAFile DEF Keep
<1> HIDE DEF all, content
<1>6. PreloadFile \notin DOMAIN (Merged(all) ++ Keep(Bundles))
  BY <1>4, <1>5, OverDomain
<1>7. PreloadFile \in DOMAIN BundleFiles(j, sidecar) /\ BundleFiles(j, sidecar)[PreloadFile] = content
  BY <1>1, <1>6, OverDomain, OverBelow, FileAlone
<1> QED
  BY <1>7 DEF content

LEMMA PublicStands ==
  ASSUME NEW now, NEW f \in DOMAIN now.public
  PROVE  /\ At("gen", Public \o f.dir, f.name) \in DOMAIN PublicFiles(now)
         /\ PublicPath(f.dir, f.name) \in DOMAIN PublicFiles(now)
<1> DEFINE inside(g) == At("gen", Public \o g.dir, g.name) := now.public[g]
           copy(g) == PublicPath(g.dir, g.name) := now.public[g]
           part(g) == inside(g) ++ copy(g)
           all == {part(g) : g \in DOMAIN now.public}
<1>1. PublicFiles(now) = Merged(all) ++ Keep(Public)
  BY DEF PublicFiles
<1>2. At("gen", Public \o f.dir, f.name) \in DOMAIN inside(f) /\ PublicPath(f.dir, f.name) \in DOMAIN copy(f)
  BY FileAlone
<1> HIDE DEF inside, copy
<1>3. At("gen", Public \o f.dir, f.name) \in DOMAIN part(f) /\ PublicPath(f.dir, f.name) \in DOMAIN part(f)
  BY <1>2, OverDomain
<1> HIDE DEF part
<1>4. At("gen", Public \o f.dir, f.name) \in DOMAIN Merged(all) /\ PublicPath(f.dir, f.name) \in DOMAIN Merged(all)
  BY <1>3, MergedDomain
<1> HIDE DEF all
<1> QED
  BY <1>1, <1>4, OverDomain

LEMMA ManifestStands ==
  ASSUME NEW j, NEW conf
  PROVE  ManifestFile \in DOMAIN ManifestFiles(j, conf) /\ ManifestFiles(j, conf)[ManifestFile] = <<"manifest", Manifest(j)>>
<1> DEFINE content == <<"manifest", Manifest(j)>>
           settings == <<"config", conf>>
<1>1. ManifestFiles(j, conf) = (ConfigFile := settings) ++ (ManifestFile := content)
  BY DEF ManifestFiles
<1>2. ManifestFile \notin DOMAIN (ConfigFile := settings)
  <2>1. ManifestFile.name = "manifest.bin" /\ ConfigFile.name = "config.json"
    BY AtIsAFile DEF ManifestFile, ConfigFile
  <2> QED
    BY <2>1, FileAlone
<1> HIDE DEF content, settings
<1>3. ManifestFile \in DOMAIN ManifestFiles(j, conf) /\ ManifestFiles(j, conf)[ManifestFile] = content
  BY <1>1, <1>2, OverDomain, OverBelow, FileAlone
<1> QED
  BY <1>3 DEF content
-----------------------------------------------------------------------------
(* The manifest, the preloads and the files of styles/ when a build ran.   *)
LEMMA ManifestShows ==
  ASSUME NEW j, NEW now, NEW conf, NEW u, IsProject(j.source), IsProject(now)
  PROVE  /\ ManifestFile \in DOMAIN Written("go", j, now, conf, u)
         /\ Written("go", j, now, conf, u)[ManifestFile] = <<"manifest", Manifest(j)>>
<1>1. Written("styles", j, now, conf, u) = ManifestFiles(j, conf) ++ (RegistryFiles(j) ++ u)
  BY WrittenOnwards
<1>2. ManifestFile.root = "gen" /\ ManifestFile.dir = <<>> /\ ManifestFile.name # "props.d.ts"
  BY AtIsAFile DEF ManifestFile
<1>3. /\ ManifestFile \in DOMAIN Written("styles", j, now, conf, u)
      /\ Written("styles", j, now, conf, u)[ManifestFile] = ManifestFiles(j, conf)[ManifestFile]
  BY <1>1, ManifestStands, OverDomain, OverAbove
<1> QED
  BY <1>2, <1>3, ManifestStands, ShowsEarly

LEMMA SidecarShows ==
  ASSUME NEW j, NEW now, NEW conf, NEW u, IsProject(j.source), IsProject(now)
  PROVE  /\ PreloadFile \in DOMAIN Written("go", j, now, conf, u)
         /\ Written("go", j, now, conf, u)[PreloadFile] = <<"sidecar", Sidecar(j, now)>>
<1> DEFINE sidecar == Sidecar(j, now)
           first == Written("chunks", j, now, conf, u)
<1>1. Written("public", j, now, conf, u) = BundleFiles(j, sidecar) ++ first
  BY WrittenOnwards
<1>2. PreloadFile.root = "gen" /\ PreloadFile.dir # <<>> /\ PreloadFile.dir[1] \notin {<<"public">>, <<"props">>}
  BY AtIsAFile, ReservedDiffer, DirectoriesOfOne DEF PreloadFile
<1> HIDE DEF first
<1>3. PreloadFile \in DOMAIN BundleFiles(j, sidecar) /\ BundleFiles(j, sidecar)[PreloadFile] = <<"sidecar", sidecar>>
  BY SidecarStands
<1>4. /\ PreloadFile \in DOMAIN Written("public", j, now, conf, u)
      /\ Written("public", j, now, conf, u)[PreloadFile] = <<"sidecar", sidecar>>
  BY <1>1, <1>3, OverDomain, OverAbove
<1> QED
  BY <1>2, <1>4, ShowsLate

LEMMA StyleShows ==
  ASSUME NEW j, NEW now, NEW conf, NEW u, IsProject(j.source), IsProject(now),
         NEW n \in DOMAIN j.source.styles, Rewritten(j, now, n) = Compiled(j, n)
  PROVE  /\ At("gen", Styles, n) \in DOMAIN Written("go", j, now, conf, u)
         /\ Written("go", j, now, conf, u)[At("gen", Styles, n)] = Compiled(j, n)
<1> DEFINE f == At("gen", Styles, n)
           first == Written("assets", j, now, conf, u)
           second == AssetFiles(j, now) ++ first
<1>1. Written("public", j, now, conf, u) = BundleFiles(j, Sidecar(j, now)) ++ second
  BY WrittenOnwards
<1>2. f.root = "gen" /\ f.dir = Styles
  BY AtIsAFile
<1>3. f.dir # <<>> /\ f.dir[1] \notin {<<"public">>, <<"props">>} /\ f.dir # Bundles
  BY <1>2, ReservedDiffer, DirectoriesOfOne
<1>5. f \in DOMAIN AssetFiles(j, now) /\ AssetFiles(j, now)[f] = Compiled(j, n)
  BY StyleStands
<1>6. f \notin DOMAIN BundleFiles(j, Sidecar(j, now))
  BY <1>2, <1>3, BundlesAreInBundles DEF Within
<1> HIDE DEF f, first
<1>7. f \in DOMAIN second /\ second[f] = Compiled(j, n)
  BY <1>5, OverDomain, OverAbove
<1> HIDE DEF second
<1>8. f \in DOMAIN Written("public", j, now, conf, u) /\ Written("public", j, now, conf, u)[f] = Compiled(j, n)
  BY <1>1, <1>6, <1>7, OverDomain, OverBelow
<1>9. f \in DOMAIN Written("go", j, now, conf, u) /\ Written("go", j, now, conf, u)[f] = Compiled(j, n)
  BY <1>2, <1>3, <1>8, ShowsLate
<1> QED
  BY <1>9 DEF f

LEMMA InvLinksAreServed == ASSUME IInv PROVE LinksAreServed
<1> SUFFICES ASSUME Undisturbed PROVE Linked(Gen) \subseteq Served(Gen) \cap DOMAIN disk
  BY DEF LinksAreServed
<1> DEFINE w == Written("go", Seen, Now, project, Nothing)
<1>1. DiskPlaced /\ Reading /\ Sound(job.at, Seen, Now, project, disk) /\ job.at \in {"go", "done"}
  BY DEF IInv, Undisturbed
<1>2. IsProject(Now) /\ IsProject(Seen.source) /\ Seen.source = Now
  BY <1>1, SourcesAreProjects DEF Undisturbed
<1>3. Stands(w, disk)
  <2>1. w = Written(job.at, Seen, Now, project, Nothing)
    BY <1>1, WrittenOnwards
  <2>2. Nothing \in Units(Now)
    BY DEF Units
  <2> QED
    BY <1>1, <2>1, <2>2 DEF Sound
<1>4. ASSUME NEW f \in DOMAIN w, f.root = "gen" PROVE f \in DOMAIN Gen /\ Gen[f] = w[f]
  BY <1>1, <1>3, <1>4, GenIsUnder DEF Stands
<1>5. Gen[ManifestFile] = <<"manifest", Manifest(Seen)>>
  <2>1. ManifestFile \in DOMAIN w /\ w[ManifestFile] = <<"manifest", Manifest(Seen)>> /\ ManifestFile.root = "gen"
    BY <1>2, ManifestShows, AtIsAFile DEF ManifestFile
  <2> QED
    BY <1>4, <2>1
<1>6. Gen[PreloadFile] = <<"sidecar", Sidecar(Seen, Now)>>
  <2>1. PreloadFile \in DOMAIN w /\ w[PreloadFile] = <<"sidecar", Sidecar(Seen, Now)>> /\ PreloadFile.root = "gen"
    BY <1>2, SidecarShows, AtIsAFile DEF PreloadFile
  <2> QED
    BY <1>4, <2>1
<1>7. ASSUME NEW n \in DOMAIN Seen.source.styles, n # ".keep"
      PROVE  AssetPath(n, Compiled(Seen, n)) \in Served(Gen) \cap DOMAIN disk
  <2> DEFINE f == At("gen", Styles, n)
  <2>1. f \in DOMAIN w /\ w[f] = Compiled(Seen, n)
    <3>1. Rewritten(Seen, Now, n) = Compiled(Seen, n)
      BY <1>2 DEF Rewritten, Compiled, Transform
    <3> QED
      BY <1>2, <3>1, StyleShows
  <2>2. f.root = "gen" /\ f.dir = Styles /\ f.coding = "identity" /\ f.name = n
    BY AtIsAFile
  <2>3. AssetPath(n, Compiled(Seen, n)) \in DOMAIN w
    BY StyleStands, PartsAreThere
  <2> HIDE DEF f, w
  <2>4. f \in DOMAIN Gen /\ Gen[f] = Compiled(Seen, n)
    BY <1>4, <2>1, <2>2
  <2>5. AssetPath(f.name, Gen[f]) \in Served(Gen)
    BY <1>7, <2>2, <2>4 DEF Served
  <2> QED
    BY <1>3, <2>2, <2>3, <2>4, <2>5 DEF Stands
<1>8. ASSUME NEW o \in Bundled(Seen) PROVE InAssets(o.file) \in Served(Gen) \cap DOMAIN disk
  <2>1. o.file \in DOMAIN w /\ InAssets(o.file) \in DOMAIN w
    BY ChunkStands, PartsAreThere
  <2>2. o.file.root = "gen" /\ o.file.dir = Bundles /\ o.file.coding = "identity" /\ o.file.name \in {"island", "gopage.client"}
    BY ChunksAreInBundles
  <2> HIDE DEF w
  <2>3. o.file \in DOMAIN Gen
    BY <1>4, <2>1, <2>2
  <2> DEFINE file == o.file
  <2>4. file \in DOMAIN Gen /\ file.dir = Bundles /\ file.coding = "identity" /\ file.name \notin {".keep", "gopage.preload"}
    BY <2>2, <2>3
  <2> HIDE DEF file
  <2>5. InAssets(file) \in Served(Gen)
    BY <2>4 DEF Served
  <2> QED
    BY <1>3, <2>1, <2>5 DEF Stands, file
<1>9. ASSUME NEW g \in DOMAIN Now.public PROVE PublicPath(g.dir, g.name) \in Served(Gen) \cap DOMAIN disk
  <2> DEFINE dir == Public \o g.dir
             f == At("gen", dir, g.name)
  <2>1. f \in DOMAIN w /\ PublicPath(g.dir, g.name) \in DOMAIN w
    BY PublicStands, PartsAreThere
  <2>2. IsDir(g.dir)
    BY <1>2 DEF IsProject, IsDir
  <2>3. IsDir(dir) /\ dir # <<>> /\ dir[1] = <<"public">> /\ SubSeq(dir, 2, Len(dir)) = g.dir
    BY <2>2, DirectoriesBelow DEF Public
  <2>4. S!IsPrefix(Public, dir)
    <3> HIDE DEF dir
    <3> QED
      BY <2>3, PrefixOfOne DEF Public
  <2> HIDE DEF dir
  <2>5. f.root = "gen" /\ f.dir = dir /\ f.name = g.name
    BY AtIsAFile
  <2> HIDE DEF f, w
  <2>6. f \in DOMAIN Gen
    BY <1>4, <2>1, <2>5
  <2>7. PublicPath(SubSeq(f.dir, 2, Len(f.dir)), f.name) \in Served(Gen)
    BY <2>4, <2>5, <2>6 DEF Served
  <2> QED
    BY <1>3, <2>1, <2>3, <2>5, <2>7 DEF Stands
<1> HIDE DEF w
<1>10. ASSUME NEW x \in Linked(Gen) PROVE x \in Served(Gen) \cap DOMAIN disk
  <2> DEFINE sidecar == Sidecar(Seen, Now)
             tags == Tags(Collected(Seen) \cup Extra(Seen))
             links == Link(Collected(Seen) \cup Extra(Seen) \cup Fonts(Now))
  <2>1. Gen[ManifestFile][2].tags = tags /\ Gen[PreloadFile][2] = sidecar
    BY <1>5, <1>6 DEF Manifest
  <2>2. sidecar.links = links
    BY DEF Sidecar
  <2>3. x \in tags \cup links \/ \E c \in sidecar.modules \cup LazyChunks(sidecar) : x = InAssets(c)
    <3> HIDE DEF sidecar, tags, links
    <3> QED
      BY <1>10, <2>1, <2>2 DEF Linked
  <2>4. CASE x \in tags \cup links
    BY <1>2, <1>7, <1>8, <1>9, <2>4, TargetsAreThree
  <2>5. CASE \E c \in sidecar.modules \cup LazyChunks(sidecar) : x = InAssets(c)
    <3>1. PICK c \in sidecar.modules \cup LazyChunks(sidecar) : x = InAssets(c)
      BY <2>5
    <3>2. PICK o \in Bundled(Seen) : o.file = c
      BY PreloadsAreChunks
    <3> QED
      BY <1>8, <3>1, <3>2
  <2> QED
    BY <2>3, <2>4, <2>5
<1> QED
  BY <1>10

(* Whatever the builds before it wrote, tore or left, a build no edit      *)
(* disturbs leaves the trees it clears as one from nothing would, in Go    *)
(* code that compiles, and every file the pages, the Link header and the   *)
(* preloads name is served by the program and from dist/assets (build.go,  *)
(* generate.go, styles.go, bundle.go, assets.go, sidecar.go).              *)
THEOREM BuildLeavesWhole == Spec => []BuildsAreWhole
<1>1. IInv => BuildsAreWhole
  BY InvStartsAnew, InvLinksAreServed DEF BuildsAreWhole
<1> QED
  BY <1>1, BuildInductive, PTL
=============================================================================
