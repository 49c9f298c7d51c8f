------------------------------- MODULE Codec -------------------------------
(***************************************************************************)
(* The manifest a build leaves beside the binary, Encode and Decode of     *)
(* internal/ir/codec.go.  The two are written apart in the code, so each   *)
(* has its own table of what stands after what: Written for Encode, Readable *)
(* for Decode, with the size a list's count is held against before memory  *)
(* is taken for it.  A text is a sequence of bytes, a number an unsigned   *)
(* word of which -1 stands for all ones (NoPath).                          *)
(***************************************************************************)
EXTENDS Integers, Sequences

CONSTANTS Magic,    \* bytes
          Version   \* a byte

S == INSTANCE SequencesExt

-----------------------------------------------------------------------------
(* Shapes: a word of so many bytes, a text, a list of a shape, a record.   *)
Word(bytes) == [sort |-> "word", bytes |-> bytes]
Text == [sort |-> "text"]
ListOf(of, least) == [sort |-> "list", of |-> of, least |-> least]
Record(fields) == [sort |-> "record", fields |-> fields]

u8 == Word(1)
u32 == Word(4)
u64 == Word(8)

PluralForms == 6
Forms == S!SetToSortSeq({<<"f", i>> : i \in 1..PluralForms}, LAMBDA a, b : a[2] < b[2])

(* Mutant: a catalog is taken for as large as one with a text.              *)
LeastWithAText == [length |-> 4, op |-> 13, expr |-> 10, const |-> 21, plan |-> 28, route |-> 17,
                   fallback |-> 17, fragment |-> 24, island |-> 8, catalog |-> 32, byte |-> 1]

(* The sizes Decode multiplies a count by.                                 *)
Least == [length |-> 4, op |-> 13, expr |-> 10, const |-> 21, plan |-> 28, route |-> 17,
          fallback |-> 17, fragment |-> 24, island |-> 8, catalog |-> 8, byte |-> 1]
-----------------------------------------------------------------------------
Indices == ListOf(u32, Least.length)
Texts == ListOf(Text, Least.length)

Op == Record(<< <<"kind", u8>>, <<"a", u32>>, <<"b", u32>>, <<"c", u32>> >>)
Expr == Record(<< <<"kind", u8>>, <<"op", u8>>, <<"a", u32>>, <<"b", u32>> >>)
Const == Record(<< <<"kind", u8>>, <<"str", Text>>, <<"int", u64>>, <<"float", u64>> >>)
Island == Record(<< <<"name", Text>>, <<"strategy", Text>> >>)

WrittenFragment ==
  Record(<< <<"name", Text>>, <<"ttl", u64>>, <<"stale", u64>>, <<"deferred", u8>>, <<"strategy", Text>>,
            <<"bodyEnd", u32>>, <<"hold", u32>>, <<"holdEnd", u32>>, <<"paths", Indices>> >>)

WrittenPlan ==
  Record(<< <<"ops", ListOf(Op, 0)>>, <<"exprs", ListOf(Expr, 0)>>, <<"consts", ListOf(Const, 0)>>,
            <<"locals", u32>>, <<"blob", Text>>, <<"paths", ListOf(Texts, 0)>>, <<"messages", Texts>>,
            <<"islands", ListOf(Island, 0)>>, <<"fragments", ListOf(WrittenFragment, 0)>>,
            <<"capacity", u32>> >>)

WrittenRoute ==
  Record(<< <<"pattern", Text>>, <<"name", Text>>, <<"plan", u32>>, <<"layoutChain", Indices>>, <<"class", u8>>,
            <<"vary", ListOf(Record(<< <<"kind", u8>>, <<"name", Text>>, <<"values", Texts>> >>), 0)>> >>)

Written ==
  Record(<< <<"plans", ListOf(WrittenPlan, 0)>>, <<"routes", ListOf(WrittenRoute, 0)>>, <<"messages", Texts>>,
            <<"catalogs", ListOf(Record(<< <<"locale", Text>>,
               <<"texts", ListOf(Record([i \in 1..PluralForms |-> <<Forms[i], Text>>]), 0)>> >>), 0)>>,
            <<"fallbacks", ListOf(Record(<< <<"prefix", Text>>, <<"name", Text>>, <<"kind", u8>>,
               <<"plan", u32>>, <<"layoutChain", Indices>> >>), 0)>>,
            <<"layouts", ListOf(Record(<< <<"name", Text>>, <<"plan", u32>> >>), 0)>> >>)
-----------------------------------------------------------------------------
ReadableFragment ==
  Record(<< <<"name", Text>>, <<"ttl", u64>>, <<"stale", u64>>, <<"deferred", u8>>, <<"strategy", Text>>,
            <<"bodyEnd", u32>>, <<"hold", u32>>, <<"holdEnd", u32>>, <<"paths", Indices>> >>)

ReadablePlan ==
  Record(<< <<"ops", ListOf(Op, Least.op)>>, <<"exprs", ListOf(Expr, Least.expr)>>,
            <<"consts", ListOf(Const, Least.const)>>, <<"locals", u32>>, <<"blob", Text>>,
            <<"paths", ListOf(Texts, Least.length)>>, <<"messages", Texts>>,
            <<"islands", ListOf(Island, Least.island)>>,
            <<"fragments", ListOf(ReadableFragment, Least.fragment)>>, <<"capacity", u32>> >>)

ReadableRoute ==
  Record(<< <<"pattern", Text>>, <<"name", Text>>, <<"plan", u32>>, <<"layoutChain", Indices>>, <<"class", u8>>,
            <<"vary", ListOf(Record(<< <<"kind", u8>>, <<"name", Text>>, <<"values", Texts>> >>), Least.length)>> >>)

ReadableCatalog ==
  Record(<< <<"locale", Text>>, <<"texts", ListOf(Record([i \in 1..PluralForms |-> <<Forms[i], Text>>]),
                                                   PluralForms * Least.length)>> >>)

Readable ==
  Record(<< <<"plans", ListOf(ReadablePlan, Least.plan)>>, <<"routes", ListOf(ReadableRoute, Least.route)>>,
            <<"messages", Texts>>, <<"catalogs", ListOf(ReadableCatalog, Least.catalog)>>,
            <<"fallbacks", ListOf(Record(<< <<"prefix", Text>>, <<"name", Text>>, <<"kind", u8>>,
               <<"plan", u32>>, <<"layoutChain", Indices>> >>), Least.fallback)>>,
            <<"layouts", ListOf(Record(<< <<"name", Text>>, <<"plan", u32>> >>), Least.length)>> >>)
-----------------------------------------------------------------------------
Bytes(width, n) == [i \in 1..width |-> IF n = -1 THEN 255 ELSE IF i > 3 THEN 0 ELSE (n \div 256 ^ (i - 1)) % 256]
Number(bytes) ==
  IF \A i \in DOMAIN bytes : bytes[i] = 255 /\ Len(bytes) > 1 THEN -1
  ELSE S!FoldLeft(+, 0, [i \in 1..(IF Len(bytes) < 3 THEN Len(bytes) ELSE 3) |-> bytes[i] * 256 ^ (i - 1)])

RECURSIVE Write(_, _)
Write(shape, v) ==
  CASE shape.sort = "word"   -> Bytes(shape.bytes, v)
    [] shape.sort = "text"   -> Bytes(4, Len(v)) \o v
    [] shape.sort = "list"   -> Bytes(4, Len(v)) \o S!FlattenSeq([i \in DOMAIN v |-> Write(shape.of, v[i])])
    [] shape.sort = "record" -> S!FlattenSeq([i \in DOMAIN shape.fields |->
                                  Write(shape.fields[i][2], v[shape.fields[i][1]])])

Encode(manifest) == Magic \o Bytes(4, Version) \o Write(Written, manifest)

(* A reader stands at a byte until one read fails, after which all do.     *)
Failed == [ok |-> FALSE, at |-> 0, v |-> <<>>]
Took(v, at) == [ok |-> TRUE, at |-> at, v |-> v]

Take(data, at, n) ==
  IF at + n > Len(data) THEN Failed ELSE Took(SubSeq(data, at + 1, at + n), at + n)

(* count: so many elements of the least size must still be there.          *)
Count(data, at, least) ==
  LET n == Take(data, at, 4)
  IN  IF ~n.ok \/ Number(n.v) * least > Len(data) - n.at THEN Failed ELSE Took(Number(n.v), n.at)

RECURSIVE Read(_, _, _), ReadAll(_, _, _)
Read(shape, data, at) ==
  CASE shape.sort = "word" ->
         LET word == Take(data, at, shape.bytes) IN IF word.ok THEN Took(Number(word.v), word.at) ELSE Failed
    [] shape.sort = "text" ->
         LET n == Take(data, at, 4) IN IF n.ok THEN Take(data, n.at, Number(n.v)) ELSE Failed
    [] shape.sort = "list" ->
         LET n == Count(data, at, shape.least)
         IN  IF n.ok THEN ReadAll([i \in 1..n.v |-> shape.of], data, n.at) ELSE Failed
    [] shape.sort = "record" ->
         LET names == [i \in DOMAIN shape.fields |-> shape.fields[i][1]]
             read == ReadAll([i \in DOMAIN shape.fields |-> shape.fields[i][2]], data, at)
         IN  IF read.ok
             THEN Took([name \in S!ToSet(names) |-> read.v[S!SelectInSeq(names, LAMBDA x : x = name)]], read.at)
             ELSE Failed

ReadAll(shapes, data, at) ==
  IF shapes = <<>> THEN Took(<<>>, at)
  ELSE LET first == Read(Head(shapes), data, at)
           rest == ReadAll(Tail(shapes), data, first.at)
       IN  IF first.ok /\ rest.ok THEN Took(<<first.v>> \o rest.v, rest.at) ELSE Failed

Decode(data) ==
  LET head == Take(data, 0, Len(Magic))
      version == Read(u32, data, Len(Magic))
  IN  IF head.ok /\ head.v = Magic /\ version.ok /\ version.v = Version
      THEN Read(Readable, data, version.at) ELSE Failed
-----------------------------------------------------------------------------
(* A manifest comes back as it was written, and one that was cut short is  *)
(* refused wherever the cut is: no count refuses what Encode writes.       *)
Survives(manifest, cut) ==
  LET data == Encode(manifest)
  IN  IF cut >= Len(data) THEN Decode(data).ok /\ Decode(data).v = manifest
      ELSE ~Decode(SubSeq(data, 1, cut)).ok
=============================================================================
