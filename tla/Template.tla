------------------------------ MODULE Template ------------------------------
(***************************************************************************)
(* A template from its tree to its bytes: the checker and the lowering of  *)
(* internal/compile, and the interpreter of internal/runtime that runs the *)
(* plan.  The plan is a flat list of operations with jumps and numbered    *)
(* locals; Meaning at the end says what the tree means without them.       *)
(* Output is a sequence of <<how it is written, atom>>.  Layouts, meta,    *)
(* islands, built-in components, floats and dates are left out, and of the *)
(* filters all but two, which only format.                                 *)
(***************************************************************************)
EXTENDS Parser

CONSTANTS Library,    \* component -> [fields: a sequence of [name, type, default], source]
          Schema,     \* the type of the props of the page
          Loaders,    \* the functions of the go block that load deferred data
          Boolean,    \* the names in booleanAttributes
          Url         \* the names in urlAttributes

LOCAL Q == INSTANCE SequencesExt

Third(n) == IF Len(n.kids) = 3 THEN <<n.kids[3]>> ELSE <<>>

MaxFragments == 64
MaxComponentDepth == 32
-----------------------------------------------------------------------------
(* Values.                                                                 *)
Value(k) == [k |-> k, s |-> <<>>, n |-> 0, items |-> <<>>, fields |-> <<>>]
Str(s) == [Value("string") EXCEPT !.s = s]
Int64(n) == [Value("int") EXCEPT !.n = n]
Bool(b) == [Value("bool") EXCEPT !.n = IF b THEN 1 ELSE 0]
Fault(why) == [Value("fault") EXCEPT !.s = <<why>>]

Text(v) ==
  CASE v.k = "string" -> v.s
    [] v.k = "int" -> <<ToString(v.n)>>
    [] v.k = "bool" -> <<IF v.n = 1 THEN "true" ELSE "false">>
    [] OTHER -> <<>>

Truthy(v) == v.s # <<>> \/ v.n # 0 \/ v.items # <<>> \/ v.k = "object"

Equal(a, b) == a.k = b.k /\ a.k \in {"int", "bool", "string", "nil"} /\ a.n = b.n /\ a.s = b.s

RECURSIVE Get(_, _)
Get(object, path) ==
  IF path = <<>> \/ object.k # "object" \/ path[1] \notin DOMAIN object.fields THEN Fault("missing")
  ELSE IF Len(path) = 1 THEN object.fields[path[1]]
  ELSE Get(object.fields[path[1]], Tail(path))

WithRoot(props, name, root) == [props EXCEPT !.fields = [f \in {name} |-> root] @@ @]
-----------------------------------------------------------------------------
(* Expressions.                                                            *)
Segments(e) == SelectSeq(e.atoms, LAMBDA a : a # ".")
IsPath(e) == e.kind = "leaf" /\ Word(e.atoms[1]) /\ e.atoms[1] \notin {"true", "false"}
Unquoted(atoms) == SubSeq(atoms, 2, Len(atoms) - 1)
Whole(digits) == CHOOSE n \in 0..99 : ToString(n) = digits

Literal(atoms) ==
  CASE atoms[1] \in {"true", "false"} -> Bool(atoms[1] = "true")
    [] atoms[1] \in {"quote", "'"} -> Str(Unquoted(atoms))
    [] OTHER -> Int64(Whole(atoms[1]))

Field(v, rest) ==
  IF rest = <<>> THEN v ELSE IF v.k # "object" THEN Fault("no object") ELSE Get(v, rest)

Read(env, path) ==
  IF path[1] \in DOMAIN env.names THEN Field(env.names[path[1]], Tail(path)) ELSE Get(env.props, path)

Magnitude(n) == IF n < 0 THEN -n ELSE n
Quotient(a, b) ==
  LET q == Magnitude(a) \div Magnitude(b) IN IF (a < 0) = (b < 0) THEN q ELSE -q

Arithmetic(op, a, b) ==
  CASE op = "+" -> Int64(a + b) [] op = "-" -> Int64(a - b) [] op = "*" -> Int64(a * b)
    [] b = 0 -> Fault("zero")
    [] op = "/" -> Int64(Quotient(a, b))
    [] op = "%" -> Int64(a - b * Quotient(a, b))

Compare(op, a, b) ==
  CASE op = "<" -> a < b [] op = "<=" -> a <= b [] op = ">" -> a > b [] op = ">=" -> a >= b

Combine(op, l, r) ==
  CASE op \in {"||", "&&"} -> Bool(Truthy(r))
    [] op = "==" -> Bool(Equal(l, r))
    [] op = "!=" -> Bool(~Equal(l, r))
    [] op = "~" -> Str(Text(l) \o Text(r))
    [] l.k # "int" \/ r.k # "int" -> Fault("kind")
    [] op \in {"<", "<=", ">", ">="} -> Bool(Compare(op, l.n, r.n))
    [] OTHER -> Arithmetic(op, l.n, r.n)

ItemAt(base, at) ==
  IF base.k # "seq" \/ at.k # "int" THEN Fault("kind")
  ELSE IF at.n \notin 0..Len(base.items) - 1 THEN Fault("outside") ELSE base.items[at.n + 1]

Arity == [len |-> 0] @@ [default |-> 1]
Filter(name, v, arguments) ==
  CASE name = "default" -> IF v.k = "nil" \/ v = Str(<<>>) THEN arguments[1] ELSE v
    [] v.k = "seq" -> Int64(Len(v.items))
    [] v.k \in {"string", "nil"} -> Int64(Len(v.s))
    [] OTHER -> Fault("kind")

(* env.locals serves the nodes the lowering resolved, env.names the others. *)
RECURSIVE Eval(_, _)
Eval(e, env) ==
  LET v == [i \in DOMAIN e.kids |-> Eval(e.kids[i], env)]
      short == e.kind = "binary" /\ e.atoms[1] \in {"||", "&&"} /\ Truthy(v[1]) = (e.atoms[1] = "||")
  IN  CASE e.kind = "leaf" -> IF IsPath(e) THEN Read(env, Segments(e)) ELSE Literal(e.atoms)
        [] e.kind = "const" -> e.value
        [] e.kind = "local" -> Field(env.locals[e.slot], e.atoms)
        [] v[1].k = "fault" -> v[1]
        [] short -> Bool(e.atoms = <<"||">>)
        [] Len(v) = 2 /\ v[2].k = "fault" -> v[2]
        [] e.kind = "unary" -> IF e.atoms = <<"!">> THEN Bool(~Truthy(v[1]))
                               ELSE IF v[1].k = "int" THEN Int64(-v[1].n) ELSE Fault("kind")
        [] e.kind = "binary" -> Combine(e.atoms[1], v[1], v[2])
        [] e.kind = "index" -> ItemAt(v[1], v[2])
        [] e.kind \in {"filter", "call"} -> Filter(e.atoms[1], v[1], Tail(v))
-----------------------------------------------------------------------------
(* The checker: paths against types.  Fragments are not entered.           *)
Unknown == [k |-> "unknown"]
RECURSIVE Stripped(_), Resolve(_, _)
Stripped(type) == IF type.k \in {"optional", "slice"} THEN Stripped(type.elem) ELSE type

Resolve(type, path) ==
  IF type.k # "struct" \/ path = <<>> THEN Unknown
  ELSE IF path[1] \notin DOMAIN type.fields THEN Unknown
  ELSE IF Len(path) = 1 THEN type.fields[path[1]]
  ELSE Resolve(Stripped(type.fields[path[1]]), Tail(path))

Bound(locals, path) == {i \in DOMAIN locals : locals[i].name = path[1]}
TypeOfLocal(locals, path) == locals[CHOOSE i \in Bound(locals, path) : \A j \in Bound(locals, path) : j <= i].type

TypeOf(locals, e) ==
  LET path == Segments(e)
      local == TypeOfLocal(locals, path)
  IN  IF ~IsPath(e) THEN Unknown
      ELSE IF Bound(locals, path) = {} THEN Resolve(Schema, path)
      ELSE IF Len(path) = 1 THEN local ELSE Resolve(Stripped(local), Tail(path))

UnknownPath(locals, path) ==
  LET local == TypeOfLocal(locals, path) IN
  IF Bound(locals, path) = {} THEN Resolve(Schema, path) = Unknown
  ELSE Len(path) > 1 /\ local # Unknown /\ Resolve(Stripped(local), Tail(path)) = Unknown

RECURSIVE Paths(_)
Paths(e) == IF IsPath(e) THEN {Segments(e)} ELSE UNION {Paths(e.kids[i]) : i \in DOMAIN e.kids}

UnknownIn(locals, e) == e.kind # "message" /\ \E path \in Paths(e) : UnknownPath(locals, path)

(* matchNode: the cases of a string are quoted and have an else; those of  *)
(* an enum are its members, each once.                                     *)
BadArms(n, type) ==
  LET arms == SelectSeq(Tail(n.kids), LAMBDA a : a.atoms # <<>>)
      quoted == {i \in DOMAIN arms : Len(arms[i].atoms) > 1}
      named == {arms[i].atoms[1] : i \in DOMAIN arms}
      twice == \E i, j \in DOMAIN arms : i # j /\ arms[i].atoms = arms[j].atoms
  IN  IF type = Unknown THEN FALSE
      ELSE IF quoted # {} THEN type.k \notin {"string", "enum"} \/ quoted # DOMAIN arms \/ twice \/ Len(arms) = Len(n.kids) - 1
      ELSE type.k # "enum" \/ (type.k = "enum" /\ (named # type.members \/ twice))

RECURSIVE CheckNode(_, _), CheckScope(_, _)
CheckScope(c, nodes) ==
  LET done == Q!FoldLeft(LAMBDA acc, n : CheckNode(acc, n), c, nodes) IN [done EXCEPT !.locals = c.locals]

CheckExpr(c, e) == [c EXCEPT !.bad = @ \/ UnknownIn(c.locals, e)]
Bind(c, name, type) == [c EXCEPT !.locals = Append(@, [name |-> name, type |-> type])]

CheckFor(c, n) ==
  LET type == TypeOf(c.locals, n.kids[1])
      element == IF type.k = "slice" THEN type.elem ELSE Unknown
      seq == [CheckExpr(c, n.kids[1]) EXCEPT !.bad = @ \/ type.k \notin {"unknown", "slice"}]
      body == CheckScope(Bind(seq, n.atoms[1], element), <<n.kids[2]>>)
  IN  CheckScope([body EXCEPT !.locals = c.locals], Third(n))

CheckMatch(c, n) ==
  LET arms == Q!FoldLeft(LAMBDA acc, arm : CheckScope(acc, arm.kids), CheckExpr(c, n.kids[1]), Tail(n.kids))
  IN  [arms EXCEPT !.bad = @ \/ BadArms(n, TypeOf(c.locals, n.kids[1]))]

IsExpr(n) == n.kind \in {"leaf", "unary", "binary", "index", "filter", "call", "message"}

CheckNode(c, n) ==
  CASE IsExpr(n) -> CheckExpr(c, n)
    [] n.kind = "let" -> Bind(CheckExpr(c, n.kids[1]), n.atoms[1], TypeOf(c.locals, n.kids[1]))
    [] n.kind = "for" -> CheckFor(c, n)
    [] n.kind = "match" -> CheckMatch(c, n)
    [] n.kind \in {"if", "branch", "body", "fill", "element", "closed", "component", "attribute", "class",
                   "interp", "raw"} -> CheckScope(c, n.kids)
    [] OTHER -> c
-----------------------------------------------------------------------------
(* The lowering.                                                           *)
Op(k) == [k |-> k, text |-> <<>>, e |-> Node("leaf", <<"0">>, <<>>), a |-> 0, b |-> 0, c |-> 0]
NewBuilder == [ops |-> <<>>, locals |-> <<>>, max |-> 0, floor |-> 0, frames |-> <<>>, active |-> <<>>, merge |-> FALSE,
               nested |-> 0, fragments |-> <<>>, reads |-> {}, bad |-> FALSE]

Here(b) == Len(b.ops) + 1
Emitted(b, op) == [b EXCEPT !.ops = Append(@, op), !.merge = op.k = "static"]

(* Mutant: text behind the target of a jump is merged into what was before. *)
PatchMerging(b, at, target) == [b EXCEPT !.ops[at].b = target]

Patch(b, at, target) == [b EXCEPT !.ops[at].b = target, !.merge = @ /\ target < Here(b)]

Static(b, atoms) ==
  IF atoms = <<>> THEN b
  ELSE IF b.merge THEN [b EXCEPT !.ops[Len(b.ops)].text = @ \o atoms]
  ELSE Emitted(b, [Op("static") EXCEPT !.text = atoms])

Declare(b, name) == [b EXCEPT !.locals = Append(@, name), !.max = IF @ > Len(b.locals) THEN @ ELSE Len(b.locals) + 1]

Lookup(b, name) ==
  LET at == {i \in b.floor + 1..Len(b.locals) : b.locals[i] = name}
  IN  IF at = {} THEN 0 ELSE CHOOSE i \in at : \A j \in at : j <= i

RECURSIVE Resolved(_, _), BadFilter(_)
Resolved(b, e) ==
  IF IsPath(e) /\ Lookup(b, e.atoms[1]) # 0
  THEN [kind |-> "local", atoms |-> Tail(Segments(e)), slot |-> Lookup(b, e.atoms[1]), kids |-> <<>>]
  ELSE [e EXCEPT !.kids = [i \in DOMAIN @ |-> Resolved(b, @[i])]]

BadFilter(e) ==
  \/ /\ e.kind \in {"filter", "call"}
     /\ e.atoms[1] \notin DOMAIN Arity \/ (e.atoms[1] \in DOMAIN Arity /\ Arity[e.atoms[1]] # Len(e.kids) - 1)
  \/ \E i \in DOMAIN e.kids : BadFilter(e.kids[i])

(* record: what a fragment's key is made of.                               *)
Using(b, e) ==
  [b EXCEPT !.bad = @ \/ BadFilter(e),
            !.reads = @ \cup ({IF Lookup(b, p[1]) = 0 THEN p ELSE Tail(p) : p \in Paths(e)} \ {<<>>})]

Emitting(b, k, e) == Emitted(Using(b, e), [Op(k) EXCEPT !.e = Resolved(b, e)])
Letting(b, name, e) ==
  LET d == Declare(b, name) IN Emitted(d, [Op("let") EXCEPT !.a = Len(d.locals), !.e = e])

RECURSIVE LowerNode(_, _)
LowerAll(b, nodes) == Q!FoldLeft(LAMBDA acc, n : LowerNode(acc, n), b, nodes)

(* The branches of an if or a match; Test emits the test of one, if it has *)
(* one.                                                                    *)
Branches(b, branches, Test(_, _), Tested(_)) ==
  LET step(acc, branch) ==
        LET test == Test(acc.b, branch)
            body == Emitted(LowerNode(test, Q!Last(branch.kids)), Op("jump"))
        IN  IF ~Tested(branch) THEN [acc EXCEPT !.b = LowerNode(@, Q!Last(branch.kids))]
            ELSE [b |-> Patch(body, Len(test.ops), Here(body)), exits |-> Append(acc.exits, Len(body.ops))]
      done == Q!FoldLeft(step, [b |-> [b EXCEPT !.nested = @ + 1], exits |-> <<>>], branches)
      end == Here(done.b)
  IN  [Q!FoldLeft(LAMBDA acc, exit : Patch(acc, exit, end), done.b, done.exits) EXCEPT !.nested = b.nested]

LowerIf(b, n) ==
  Branches(b, n.kids, LAMBDA acc, branch : Emitting(acc, "unless", branch.kids[1]), LAMBDA branch : Len(branch.kids) = 2)

LowerMatch(b, n) ==
  LET subject == Resolved(b, n.kids[1])
      name(arm) == [kind |-> "const", value |-> Str(IF Len(arm.atoms) > 1 THEN Unquoted(arm.atoms) ELSE arm.atoms),
                    kids |-> <<>>, atoms |-> <<>>]
  IN  Branches(Using(b, n.kids[1]), Tail(n.kids),
        LAMBDA acc, arm : Emitted(acc, [Op("unless") EXCEPT !.e = Node("binary", <<"==">>, <<subject, name(arm)>>)]),
        LAMBDA arm : arm.atoms # <<>>)

LowerFor(b, n) ==
  LET declared == Declare([Using(b, n.kids[1]) EXCEPT !.nested = @ + 1], n.atoms[1])
      slot == Len(declared.locals)
      loop == Emitted(declared, [Op("iterate") EXCEPT !.e = Resolved(b, n.kids[1]), !.b = slot])
      start == Len(loop.ops)
      body == Emitted(LowerNode(loop, n.kids[2]), [Op("next") EXCEPT !.a = slot, !.b = start + 1])
      skip == Emitted([body EXCEPT !.locals = SubSeq(@, 1, Len(b.locals))], Op("jump"))
      empty == LowerAll([skip EXCEPT !.ops[start].c = Here(skip), !.merge = FALSE], Third(n))
  IN  [Patch(empty, Len(skip.ops), Here(empty)) EXCEPT !.nested = b.nested]
-----------------------------------------------------------------------------
Set(n, name) == \E i \in DOMAIN n.kids[1].kids : n.kids[1].kids[i].atoms[1] = name
SettingOf(n, name) ==
  LET s == SelectSeq(n.kids[1].kids, LAMBDA k : k.atoms[1] = name)
  IN  IF s = <<>> \/ Len(s[1].atoms) = 1 THEN <<>> ELSE SubSeq(s[1].atoms, 4, Len(s[1].atoms) - 1)
Duration(text) == text = <<>> \/ (Len(text) = 2 /\ text[1] \in Digits /\ text[2] \in {"s", "m", "h"})

(* Without the fetch mode a strategy is always refused.                    *)
Refused(b, n) ==
  \/ Len(b.fragments) >= MaxFragments
  \/ \E i \in DOMAIN b.fragments : b.fragments[i].name = Unquoted(n.atoms)
  \/ ~Duration(SettingOf(n, "cache")) \/ ~Duration(SettingOf(n, "stale"))
  \/ Set(n, "defer") /\ (b.nested > 0 \/ Unquoted(n.atoms)[1] \notin Loaders)
  \/ SettingOf(n, "defer") # <<>>
  \/ Len(n.kids) = 3 /\ ~Set(n, "defer")

LowerHold(b, index, n) ==
  LET jump == Emitted(b, Op("jump"))
      hold == LowerNode([jump EXCEPT !.fragments[index].hold = Here(jump)], n.kids[3])
  IN  IF Len(n.kids) = 2 THEN b
      ELSE [Patch(hold, Len(jump.ops), Here(hold)) EXCEPT !.fragments[index].holdEnd = Here(hold), !.merge = FALSE]

LowerFragment(b, n) ==
  LET index == Len(b.fragments) + 1
      named == [name |-> Unquoted(n.atoms), cached |-> SettingOf(n, "cache") \notin {<<>>, <<"0", "s">>},
                deferred |-> Set(n, "defer"), bodyEnd |-> 0, hold |-> 0, holdEnd |-> 0, paths |-> {}]
      open == Emitted([b EXCEPT !.fragments = Append(@, named)], [Op("fragment") EXCEPT !.a = index])
      body == LowerNode([open EXCEPT !.reads = {}], n.kids[2])
      read == [body EXCEPT !.reads = @ \cup b.reads, !.fragments[index].bodyEnd = Here(body),
                           !.fragments[index].paths = body.reads]
      held == LowerHold(read, index, n)
  IN  IF Refused(b, n) THEN [LowerNode(b, n.kids[2]) EXCEPT !.bad = TRUE]
      ELSE [Patch(held, Len(open.ops), Here(held)) EXCEPT !.merge = FALSE]
-----------------------------------------------------------------------------
(* Components are lowered in place, with their props as locals.            *)
Documents == [name \in DOMAIN Library |-> Parse(Library[name].source).v]
AttributeName(a) == a.atoms[IF a.atoms[1] = ":" THEN 2 ELSE 1]
Attributes(n) == SelectSeq(n.kids, LAMBDA k : k.kind = "attribute")
Children(n) == IF n.kind = "closed" THEN <<>> ELSE SelectSeq(Q!Last(n.kids).kids, LAMBDA k : k.kind # "fill")
Fills(n) == IF n.kind = "closed" THEN <<>> ELSE SelectSeq(Q!Last(n.kids).kids, LAMBDA k : k.kind = "fill")

Constant(v) == [kind |-> "const", value |-> v, kids |-> <<>>, atoms |-> <<>>]
OfText(text, field) ==
  CASE field.type = "int" -> Int64(IF Len(text) = 1 /\ text[1] \in Digits THEN Whole(text[1]) ELSE 0)
    [] field.type = "bool" -> Bool(text \in {<<"true">>, <<>>})
    [] OTHER -> Str(text)

(* The argument of a field, given or not; Passed says what a bound one is.   *)
Argument(n, field, Passed(_)) ==
  LET given == SelectSeq(Attributes(n), LAMBDA a : AttributeName(a) = field.name)
      a == Q!Last(given)
  IN  CASE given = <<>> -> Constant(IF field.default # <<>> THEN OfText(field.default, field)
                                    ELSE IF field.type = "bool" THEN Bool(FALSE) ELSE Str(<<>>))
        [] a.atoms[1] = ":" -> Passed(a.kids[1])
        [] OTHER -> Constant(OfText(IF a.kids = <<>> THEN <<>> ELSE a.kids[1].atoms, field))

BadArguments(n, fields) ==
  LET names == {fields[i].name : i \in DOMAIN fields}
      given == {AttributeName(Attributes(n)[i]) : i \in DOMAIN Attributes(n)}
      literal(a) == a.atoms[1] # ":" /\ a.kids # <<>> /\ \E i \in DOMAIN a.kids[1].atoms : Pair(a.kids[1].atoms, i) = "{{"
  IN  \/ ~(given \subseteq names)
      \/ \E i \in DOMAIN fields : fields[i].name \notin given /\ fields[i].default = <<>>
                                  /\ fields[i].type \notin {"bool", "optional", "slot", "rest"}
      \/ \E i \in DOMAIN Attributes(n) : literal(Attributes(n)[i])

Inline(b, n) ==
  LET name == n.atoms[1]
      fields == Library[name].fields
      bound == SelectSeq(Attributes(n), LAMBDA a : a.atoms[1] = ":")
      used == Q!FoldLeft(LAMBDA acc, a : Using(acc, a.kids[1]), b, bound)
      called == Q!FoldLeft(LAMBDA acc, f : Letting(acc, f.name, Argument(n, f, LAMBDA e : Resolved(b, e))), used, fields)
      done == LowerAll([called EXCEPT !.floor = Len(b.locals), !.active = Append(@, name), !.nested = @ + 1,
                                      !.frames = Append(@, [floor |-> b.floor, node |-> n])], Documents[name])
  IN  IF name \notin DOMAIN Library THEN [b EXCEPT !.bad = TRUE]
      ELSE IF Q!Contains(b.active, name) \/ Len(b.active) >= MaxComponentDepth THEN [b EXCEPT !.bad = TRUE]
      ELSE [done EXCEPT !.bad = @ \/ BadArguments(n, fields), !.floor = b.floor, !.frames = b.frames,
                        !.active = b.active, !.nested = b.nested, !.locals = SubSeq(@, 1, Len(b.locals))]

(* The content a component was given, or one of its slots (the name is not *)
(* empty): lowered where the component asks for it, over the caller's      *)
(* floor but with the component's own locals still there.                  *)
Content(n, slot) ==
  LET fills == SelectSeq(Fills(n), LAMBDA k : k.atoms = slot)
  IN  IF slot = <<>> THEN Children(n) ELSE IF fills = <<>> THEN <<>> ELSE fills[1].kids

Fill(b, slot) ==
  LET top == Q!Last(b.frames)
      done == LowerAll([b EXCEPT !.floor = top.floor, !.frames = Q!Front(@)], Content(top.node, slot))
  IN  IF b.frames = <<>> THEN b ELSE [done EXCEPT !.floor = b.floor, !.frames = b.frames]
-----------------------------------------------------------------------------
(* Elements.  The first part of a url attribute is written as a url.       *)
Opening(name) == <<" ", name, "=", "quote">>

LowerParts(b, name, parts) ==
  LET first == Q!Head(parts)
  IN  IF name \in Url /\ parts # <<>> /\ first.kind = "interp"
      THEN LowerAll(Emitting(b, "url", first.kids[1]), Tail(parts)) ELSE LowerAll(b, parts)

LowerWhen(b, cond, atoms) ==
  LET test == Emitting(b, "unless", cond)
      said == Static(test, atoms)
  IN  Patch(said, Len(test.ops), Here(said))

LowerAttribute(b, a) ==
  LET name == AttributeName(a)
      open == Static(b, Opening(name))
  IN  CASE a.atoms[1] = ":" /\ name \in Boolean -> [b EXCEPT !.bad = TRUE]
        [] a.kids = <<>> -> Static(b, <<" ", name>>)
        [] a.kids[1].kind = "class" ->
             Static(Q!FoldLeft(LAMBDA acc, entry : LowerWhen(acc, entry.kids[1], entry.atoms \o <<" ">>), open, a.kids), <<"quote">>)
        [] Q!Contains(a.atoms, "?") -> LowerWhen(b, a.kids[1], <<" ", name>>)
        [] a.atoms[1] = ":" -> Static(Emitting(open, IF name \in Url THEN "url" ELSE "text", a.kids[1]), <<"quote">>)
        [] a.kids[1].kind = "body" -> Static(LowerParts(open, name, a.kids[1].kids), <<"quote">>)
        [] a.kids[1].atoms = <<>> -> Static(b, <<" ", name>>)
        [] OTHER -> Static(open, a.kids[1].atoms \o <<"quote">>)

LowerElement(b, n) ==
  Static(Q!FoldLeft(LowerAttribute, Static(b, <<"<", n.atoms[1]>>), n.kids), IF n.kind = "closed" THEN <<"/", ">">> ELSE <<">">>)

LowerNode(b, n) ==
  CASE n.kind = "text" -> Static(b, n.atoms)
    [] n.kind = "body" -> LowerAll(b, n.kids)
    [] n.kind = "interp" -> Emitting(b, "text", n.kids[1])
    [] n.kind = "raw" -> Emitting(b, "raw", n.kids[1])
    [] n.kind = "let" -> Letting(Using(b, n.kids[1]), n.atoms[1], Resolved(b, n.kids[1]))
    [] n.kind = "if" -> LowerIf(b, n)
    [] n.kind = "for" -> LowerFor(b, n)
    [] n.kind = "match" -> LowerMatch(b, n)
    [] n.kind = "fragment" -> LowerFragment(b, n)
    [] n.kind \in {"component", "closed", "element"} ->
         IF n.atoms[1] \in Capital THEN Inline(b, n) ELSE LowerElement(b, n)
    [] n.kind = "slot" -> Fill(b, Unquoted(n.atoms))
    [] n.kind = "mark" -> IF n.atoms = <<"children">> THEN Fill(b, <<>>)
                          ELSE [b EXCEPT !.bad = @ \/ n.atoms = <<"outlet">>]
    [] OTHER -> b

Plan(doc) == LowerAll(NewBuilder, doc.v)
Accepted(doc) == ~doc.bad /\ ~CheckScope([locals |-> <<>>, bad |-> FALSE], doc.v).bad /\ ~Plan(doc).bad
-----------------------------------------------------------------------------
(* The interpreter.  store is the cache of fragments, wait says whether    *)
(* the data of deferred fragments are there in time.                       *)
Say(st, how, atoms) == [st EXCEPT !.out = @ \o [i \in DOMAIN atoms |-> <<how, atoms[i]>>], !.pc = @ + 1]
With(st, v, next) == IF v.k = "fault" THEN [st EXCEPT !.fault = v.s] ELSE next
Env(st) == [names |-> <<>>, locals |-> st.locals, props |-> st.props]

KeyOf(f, props) == <<f.name, [p \in f.paths |-> LET v == Get(props, p) IN IF v.k = "fault" THEN <<"-">> ELSE <<":">> \o Text(v)]>>

SaveFragment(st) ==
  LET top == Q!Last(st.pending)
  IN  [st EXCEPT !.pending = Q!Front(@), !.store = @ \cup {[key |-> top.key, body |-> SubSeq(st.out, top.start, Len(st.out))]}]

RECURSIVE Run(_, _, _), Step(_, _)
Run(plan, st, to) ==
  CASE st.fault # <<>> -> st
    [] st.pending # <<>> /\ (st.pc >= to \/ st.pc >= Q!Last(st.pending).end) -> Run(plan, SaveFragment(st), to)
    [] st.pc >= to -> st
    [] OTHER -> Run(plan, Step(plan, st), to)

(* A range with cursors of its own; then the outer one goes on at back.    *)
Range(plan, st, from, to, back) ==
  LET r == Run(plan, [st EXCEPT !.pc = from, !.cursors = <<>>, !.pending = <<>>], to)
  IN  [r EXCEPT !.cursors = st.cursors, !.pending = st.pending, !.pc = back]

StepFragment(plan, st, op) ==
  LET f == plan.fragments[op.a]
      hold == [Range(plan, Say(st, "slot", f.name), f.hold, f.holdEnd, 0) EXCEPT !.late = Append(@, f.name)]
      ready == [st EXCEPT !.props = WithRoot(@, f.name[1], st.held[f.name[1]])]
      found == {s \in st.store : s.key = KeyOf(f, st.props)}
      opened == [key |-> KeyOf(f, st.props), start |-> Len(st.out) + 1, end |-> op.b]
  IN  CASE f.deferred /\ st.wait -> [Range(plan, ready, st.pc + 1, op.b, op.b) EXCEPT !.props = st.props]
        [] f.deferred -> [Say(hold, "slot", <<"/">>) EXCEPT !.pc = op.b]
        [] f.cached /\ found # {} -> [st EXCEPT !.out = @ \o (CHOOSE s \in found : TRUE).body, !.pc = op.b]
        [] f.cached -> [st EXCEPT !.pending = Append(@, opened), !.pc = @ + 1]
        [] OTHER -> [st EXCEPT !.pc = @ + 1]

StepNext(st, op) ==
  LET top == Q!Last(st.cursors)
  IN  IF top.index < Len(top.items)
      THEN [st EXCEPT !.cursors[Len(st.cursors)].index = @ + 1, !.locals[op.a] = top.items[top.index + 1], !.pc = op.b]
      ELSE [st EXCEPT !.cursors = Q!Front(@), !.pc = @ + 1]

Step(plan, st) ==
  LET op == plan.ops[st.pc]
      v == Eval(op.e, Env(st))
  IN  CASE op.k = "static" -> Say(st, "static", op.text)
        [] op.k \in {"text", "raw", "url"} -> With(st, v, Say(st, op.k, Text(v)))
        [] op.k = "unless" -> With(st, v, [st EXCEPT !.pc = IF Truthy(v) THEN @ + 1 ELSE op.b])
        [] op.k = "jump" -> [st EXCEPT !.pc = op.b]
        [] op.k = "let" -> With(st, v, [st EXCEPT !.locals[op.a] = v, !.pc = @ + 1])
        [] op.k = "iterate" ->
             IF v.k \notin {"seq", "fault"} THEN [st EXCEPT !.fault = <<"kind">>]
             ELSE With(st, v, IF v.items = <<>> THEN [st EXCEPT !.pc = op.c]
                              ELSE [st EXCEPT !.locals[op.b] = v.items[1], !.pc = @ + 1,
                                              !.cursors = Append(@, [items |-> v.items, index |-> 1])])
        [] op.k = "next" -> StepNext(st, op)
        [] op.k = "fragment" -> StepFragment(plan, st, op)

Started(plan, props, store) ==
  [pc |-> 1, out |-> <<>>, locals |-> [i \in 1..plan.max |-> Value("nil")], cursors |-> <<>>, pending |-> <<>>,
   store |-> store, props |-> props, held |-> <<>>, wait |-> TRUE, late |-> <<>>, fault |-> <<>>]

(* RenderFragment: a late fragment alone, in a scope of its own.           *)
RenderFragment(plan, st, name) ==
  LET at == CHOOSE i \in DOMAIN plan.ops : plan.ops[i].k = "fragment" /\ plan.fragments[plan.ops[i].a].name = name
      fresh == [Started(plan, WithRoot(st.props, name[1], st.held[name[1]]), st.store) EXCEPT !.pc = at + 1, !.held = st.held]
      r == Run(plan, fresh, plan.fragments[plan.ops[at].a].bodyEnd)
  IN  [st EXCEPT !.out = @ \o <<<<"template", name[1]>>>> \o r.out, !.fault = r.fault, !.store = r.store]

Response(plan, data, wait, store) ==
  LET page == Run(plan, [Started(plan, data.props, store) EXCEPT !.held = data.held, !.wait = wait], Here(plan))
  IN  Q!FoldLeft(LAMBDA st, name : IF st.fault = <<>> THEN RenderFragment(plan, st, name) ELSE st, page, page.late)
-----------------------------------------------------------------------------
(* What a template means: a name stands for what the innermost construct   *)
(* around it in the text binds it to, whatever is rendered in between.     *)
Written(m, how, atoms) == [m EXCEPT !.out = @ \o [i \in DOMAIN atoms |-> <<how, atoms[i]>>]]
Named(m, name, v) == [m EXCEPT !.names = [x \in {name} |-> v] @@ @]
Told(m, v, next) == IF v.k = "fault" THEN [m EXCEPT !.fault = v.s] ELSE next

RECURSIVE Mean(_, _)
Scope(m, nodes) ==
  LET done == Q!FoldLeft(LAMBDA acc, n : IF acc.fault = <<>> THEN Mean(acc, n) ELSE acc, m, nodes)
  IN  [done EXCEPT !.names = m.names]
Shows(m, how, e) == LET v == Eval(e, m) IN Told(m, v, Written(m, how, Text(v)))

(* The first of the branches whose test holds or fails.                    *)
Chosen(m, branches, Test(_)) ==
  LET at == First(1, Len(branches), LAMBDA i : Truthy(Test(branches[i])) \/ Test(branches[i]).k = "fault")
  IN  IF at = 0 THEN m ELSE Told(m, Test(branches[at]), Scope(m, <<Q!Last(branches[at].kids)>>))

MeanFor(m, n) ==
  LET v == Eval(n.kids[1], m)
      turn(acc, item) == IF acc.fault = <<>> THEN [Scope(Named(acc, n.atoms[1], item), <<n.kids[2]>>) EXCEPT !.names = m.names] ELSE acc
  IN  Told(m, IF v.k \in {"seq", "fault"} THEN v ELSE Fault("kind"),
        IF v.items = <<>> THEN Scope(m, Third(n)) ELSE Q!FoldLeft(turn, m, v.items))

MeanComponent(m, n) ==
  LET fields == Library[n.atoms[1]].fields
      bound(f) == Argument(n, f, LAMBDA e : Constant(Eval(e, m))).value
      props == [x \in {fields[i].name : i \in DOMAIN fields} |-> bound(CHOOSE f \in Q!ToSet(fields) : f.name = x)]
      faults == SelectSeq([i \in DOMAIN fields |-> bound(fields[i])], LAMBDA v : v.k = "fault")
      done == Scope([m EXCEPT !.names = props, !.frames = Append(@, [names |-> m.names, node |-> n])], Documents[n.atoms[1]])
  IN  IF faults # <<>> THEN [m EXCEPT !.fault = faults[1].s] ELSE [done EXCEPT !.names = m.names, !.frames = m.frames]

MeanContent(m, slot) ==
  LET top == Q!Last(m.frames)
      done == Scope([m EXCEPT !.names = top.names, !.frames = Q!Front(@)], Content(top.node, slot))
  IN  IF m.frames = <<>> THEN m ELSE [done EXCEPT !.names = m.names, !.frames = m.frames]

MeanFragment(m, n) ==
  LET name == Unquoted(n.atoms)
      loaded == [m EXCEPT !.props = WithRoot(@, name[1], m.held[name[1]])]
      body == [Scope(loaded, <<n.kids[2]>>) EXCEPT !.props = m.props]
      alone == [Scope([loaded EXCEPT !.out = <<>>], <<n.kids[2]>>) EXCEPT !.props = m.props]
      hold == Written(Scope(Written(m, "slot", name), Third(n)), "slot", <<"/">>)
  IN  IF ~Set(n, "defer") THEN Scope(m, <<n.kids[2]>>)
      ELSE IF m.wait THEN body
      ELSE [hold EXCEPT !.tails = @ \o <<<<"template", name[1]>>>> \o alone.out, !.lateFault = IF @ = <<>> THEN alone.fault ELSE @]

MeanAttribute(m, a) ==
  LET name == AttributeName(a)
      how(i) == IF name \in Url /\ i = 1 THEN "url" ELSE "text"
      when(acc, cond, atoms) == LET v == Eval(cond, acc) IN Told(acc, v, IF Truthy(v) THEN Written(acc, "static", atoms) ELSE acc)
      open == Written(m, "static", Opening(name))
      parts == a.kids[1].kids
      part(acc, i) == IF acc.fault # <<>> THEN acc
                      ELSE IF parts[i].kind = "interp" THEN Shows(acc, how(i), parts[i].kids[1]) ELSE Mean(acc, parts[i])
      entry(acc, e) == IF acc.fault = <<>> THEN when(acc, e.kids[1], e.atoms \o <<" ">>) ELSE acc
      bare == a.kids = <<>> \/ (a.kids[1].kind = "text" /\ a.kids[1].atoms = <<>>)
  IN  CASE m.fault # <<>> -> m
        [] bare -> Written(m, "static", <<" ", name>>)
        [] a.kids[1].kind = "text" -> Written(open, "static", a.kids[1].atoms \o <<"quote">>)
        [] a.kids[1].kind = "class" -> Written(Q!FoldLeft(entry, open, a.kids), "static", <<"quote">>)
        [] Q!Contains(a.atoms, "?") -> when(m, a.kids[1], <<" ", name>>)
        [] a.kids[1].kind = "body" ->
             Written([Q!FoldLeft(part, open, [i \in DOMAIN parts |-> i]) EXCEPT !.names = m.names], "static", <<"quote">>)
        [] OTHER -> Written(Shows(open, how(1), a.kids[1]), "static", <<"quote">>)

Mean(m, n) ==
  CASE n.kind = "text" -> Written(m, "static", n.atoms)
    [] n.kind = "body" -> Scope(m, n.kids)
    [] n.kind = "interp" -> Shows(m, "text", n.kids[1])
    [] n.kind = "raw" -> Shows(m, "raw", n.kids[1])
    [] n.kind = "let" -> LET v == Eval(n.kids[1], m) IN Told(m, v, Named(m, n.atoms[1], v))
    [] n.kind = "if" -> Chosen(m, n.kids, LAMBDA b : IF Len(b.kids) = 1 THEN Bool(TRUE) ELSE Eval(b.kids[1], m))
    [] n.kind = "match" ->
         LET name(arm) == Str(IF Len(arm.atoms) > 1 THEN Unquoted(arm.atoms) ELSE arm.atoms)
             subject == Eval(n.kids[1], m)
         IN  Told(m, subject, Chosen(m, Tail(n.kids), LAMBDA arm : Bool(arm.atoms = <<>> \/ Equal(subject, name(arm)))))
    [] n.kind = "for" -> MeanFor(m, n)
    [] n.kind = "fragment" -> MeanFragment(m, n)
    [] n.kind \in {"component", "closed", "element"} ->
         IF n.atoms[1] \in Capital THEN MeanComponent(m, n)
         ELSE Written(Q!FoldLeft(MeanAttribute, Written(m, "static", <<"<", n.atoms[1]>>), n.kids), "static",
                      IF n.kind = "closed" THEN <<"/", ">">> ELSE <<">">>)
    [] n.kind = "slot" -> MeanContent(m, Unquoted(n.atoms))
    [] n.kind = "mark" -> IF n.atoms = <<"children">> THEN MeanContent(m, <<>>) ELSE m
    [] OTHER -> m

Meaning(nodes, data, wait) ==
  LET m == Scope([out |-> <<>>, names |-> <<>>, locals |-> <<>>, props |-> data.props, held |-> data.held, wait |-> wait,
                  frames |-> <<>>, tails |-> <<>>, fault |-> <<>>, lateFault |-> <<>>], nodes)
      fault == IF m.fault # <<>> THEN m.fault ELSE m.lateFault
  IN  IF fault # <<>> THEN [fault |-> fault, out |-> <<>>] ELSE [fault |-> <<>>, out |-> m.out \o m.tails]

(* Rendered for one visitor after another over one cache, a template that  *)
(* was accepted gives each what it means; and without fragments it never   *)
(* meets a field the checker had not seen.                                 *)
Renders(src, visits, wait) ==
  LET doc == Parse(src)
      plan == Plan(doc)
      step(acc, data) ==
        LET r == Response(plan, data, wait, acc.store)
            shown == [fault |-> r.fault, out |-> IF r.fault = <<>> THEN r.out ELSE <<>>]
        IN  [store |-> r.store, right |-> acc.right /\ shown = Meaning(doc.v, data, wait)
                                          /\ (plan.fragments = <<>> => r.fault # <<"missing">>)]
  IN  Accepted(doc) => Q!FoldLeft(step, [store |-> {}, right |-> TRUE], visits).right
=============================================================================
