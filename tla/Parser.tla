------------------------------- MODULE Parser -------------------------------
(***************************************************************************)
(* The body of a template, over the tokens and the expressions of Syntax:  *)
(* parser.go, parser_tag.go and parser_element.go of internal/syntax.  A   *)
(* construct that fails leaves no node; where it stops reading decides     *)
(* what of the source behind it is lost.                                   *)
(***************************************************************************)
EXTENDS Syntax

LOCAL Q == INSTANCE SequencesExt

Reported(r) == [r EXCEPT !.bad = TRUE]
Atoms(T, p) == IF p \in DOMAIN T THEN T[p].atoms ELSE <<>>

(* r and then the end of its directive, endDirective.                      *)
Closed(T, r, kind, atoms) ==
  Then(r, LAMBDA e : Then(Expect(T, e.at, {"%}"}), LAMBDA end : Ok(end.at, <<Node(kind, atoms, e.v)>>)))

DirectiveName(T, p) == Expect(T, p + 1, {"ident"})

Body(block) == Node("body", <<>>, block.v)

CloseBlock(T, block, want, node) ==
  IF block.stop # want THEN Fail(block.at)
  ELSE Then(Expect(T, block.at, {"%}"}), LAMBDA end : [Ok(end.at, <<node>>) EXCEPT !.bad = block.bad])
-----------------------------------------------------------------------------
(* A setting name="value" of fragment and vary; one of the same name goes. *)
Setting(T, p, nodes) ==
  Then(Expect(T, p + 1, {"="}), LAMBDA is : Then(Expect(T, is.at, {"string"}), LAMBDA value :
    Ok(value.at, SelectSeq(nodes, LAMBDA n : n.atoms[1] # Name(T, p))
                 \o <<Node("setting", <<Name(T, p), "=">> \o T[p + 2].atoms, <<>>)>>)))

RECURSIVE FragmentSettings(_, _), VarySettings(_, _)
FragmentSettings(T, s) ==
  LET bare == Name(T, s.at) = "defer" /\ K(T, s.at + 1) # "="
      known == \E i \in DOMAIN s.v : s.v[i].atoms[1] = "defer"
  IN  IF K(T, s.at) # "ident" THEN s
      ELSE IF bare
      THEN FragmentSettings(T, Ok(s.at + 1, IF known THEN s.v ELSE Append(s.v, Node("setting", <<"defer">>, <<>>))))
      ELSE Then(Setting(T, s.at, s.v), LAMBDA next :
             IF Name(T, s.at) \in {"defer", "cache", "stale"} THEN FragmentSettings(T, next)
             ELSE Fail(Recover(T, s.at + 2)))

VarySettings(T, s) ==
  LET named == \E i \in DOMAIN s.v : s.v[i].atoms[1] \in {"cookie", "header"} IN
  IF K(T, s.at) # "ident" THEN s
  ELSE Then(Setting(T, s.at, s.v), LAMBDA next :
         IF Name(T, s.at) = "values" \/ (Name(T, s.at) \in {"cookie", "header"} /\ ~named)
         THEN VarySettings(T, next) ELSE Fail(Recover(T, s.at + 2)))

Vary(T, p) ==
  LET says(n, names) == n.atoms[1] \in names /\ Len(n.atoms) > 4
                        /\ (n.atoms[1] = "values" => \E i \in 4..Len(n.atoms) - 1 : n.atoms[i] \notin {",", " "})
  IN  Then(VarySettings(T, Ok(p, <<>>)), LAMBDA s :
        IF /\ \E i \in DOMAIN s.v : says(s.v[i], {"cookie", "header"})
           /\ \E i \in DOMAIN s.v : says(s.v[i], {"values"})
        THEN Closed(T, s, "vary", <<>>) ELSE Fail(Recover(T, s.at)))
-----------------------------------------------------------------------------
Blank(node) == node.kind = "text" /\ Q!ToSet(node.atoms) \subseteq {" "}
Stray == {"endif", "endfor", "endmatch", "endfragment", "placeholder", "elif", "else", "when"}
Simple == {"outlet", "children", "meta", "assets", "standalone"}

RECURSIVE Block(_, _, _), BodyNode(_, _), Directive(_, _, _), If(_, _, _), For(_, _), Match(_, _, _),
          Fragment(_, _), Element(_, _, _), Component(_, _, _, _), UntilClose(_, _, _), Without(_)

(* The block behind else or placeholder, up to the end of its construct.   *)
Rest(T, block, want, Whole(_)) ==
  Then(Expect(T, block.at, {"%}"}), LAMBDA open :
    LET last == Block(T, open.at, {want})
    IN  CloseBlock(T, [last EXCEPT !.bad = @ \/ block.bad], want, Whole(last)))

If(T, p, branches) ==
  Then(Expr(T, p), LAMBDA cond : Then(Expect(T, cond.at, {"%}"}), LAMBDA open :
    LET body == Block(T, open.at, {"elif", "else", "endif"})
        read == branches \o <<Node("branch", <<>>, cond.v \o <<Body(body)>>)>>
    IN  CASE body.stop = "elif" -> LET r == If(T, body.at, read) IN [r EXCEPT !.bad = @ \/ body.bad]
          [] body.stop = "else" -> Rest(T, body, "endif", LAMBDA last :
               Node("if", <<>>, Append(read, Node("branch", <<>>, <<Body(last)>>))))
          [] OTHER -> CloseBlock(T, body, "endif", Node("if", <<>>, read))))

(* Mutant: the block behind a for's else is read and dropped.              *)
ForWithoutElse(T, p) ==
  Then(Expect(T, p, {"ident"}), LAMBDA var :
    Then(IF Atoms(T, var.at) = <<"in">> THEN Expr(T, var.at + 1) ELSE Fail(Recover(T, var.at)), LAMBDA seq :
      Then(Expect(T, seq.at, {"%}"}), LAMBDA open :
        LET body == Block(T, open.at, {"else", "endfor"})
            kids == seq.v \o <<Body(body)>>
        IN  IF body.stop = "else"
            THEN Rest(T, body, "endfor", LAMBDA last : Node("for", T[p].atoms, kids))
            ELSE CloseBlock(T, body, "endfor", Node("for", T[p].atoms, kids)))))

For(T, p) ==
  Then(Expect(T, p, {"ident"}), LAMBDA var :
    Then(IF Atoms(T, var.at) = <<"in">> THEN Expr(T, var.at + 1) ELSE Fail(Recover(T, var.at)), LAMBDA seq :
      Then(Expect(T, seq.at, {"%}"}), LAMBDA open :
        LET body == Block(T, open.at, {"else", "endfor"})
            kids == seq.v \o <<Body(body)>>
        IN  IF body.stop = "else"
            THEN Rest(T, body, "endfor", LAMBDA last : Node("for", T[p].atoms, Append(kids, Body(last))))
            ELSE CloseBlock(T, body, "endfor", Node("for", T[p].atoms, kids)))))

(* The arms of a match, block being the one before the next.               *)
Match(T, block, read) ==
  LET noted(r) == [r EXCEPT !.bad = @ \/ block.bad] IN
  CASE block.stop = "when" ->
         noted(Then(Expect(T, block.at, {"ident", "string"}), LAMBDA arm :
           Then(Expect(T, arm.at, {"%}"}), LAMBDA open :
             LET body == Block(T, open.at, {"when", "else", "endmatch"})
             IN  Match(T, body, Append(read, Node("arm", T[block.at].atoms, <<Body(body)>>))))))
    [] block.stop = "else" ->
         Rest(T, block, "endmatch", LAMBDA last : Node("match", <<>>, Append(read, Node("arm", <<>>, <<Body(last)>>))))
    [] OTHER -> CloseBlock(T, block, "endmatch", Node("match", <<>>, read))

Fragment(T, p) ==
  Then(Expect(T, p, {"string"}), LAMBDA name : Then(FragmentSettings(T, Ok(name.at, <<>>)), LAMBDA s :
    Then(Expect(T, s.at, {"%}"}), LAMBDA open :
      LET body == Block(T, open.at, {"endfragment", "placeholder"})
          kids == <<Node("settings", <<>>, s.v), Body(body)>>
      IN  IF body.stop = "placeholder"
          THEN Rest(T, body, "endfragment", LAMBDA last : Node("fragment", T[p].atoms, Append(kids, Body(last))))
          ELSE CloseBlock(T, body, "endfragment", Node("fragment", T[p].atoms, kids)))))

(* directive, at the token behind its name.                                *)
Directive(T, name, p) ==
  CASE name \in Simple -> Closed(T, Ok(p, <<>>), "mark", <<name>>)
    [] name = "raw" -> Closed(T, Expr(T, p), "raw", <<>>)
    [] name = "slot" -> Closed(T, Expect(T, p, {"string"}), "slot", Atoms(T, p))
    [] name = "let" ->
         Then(Expect(T, p, {"ident"}), LAMBDA var : Then(Expect(T, var.at, {"="}),
           LAMBDA is : Closed(T, Expr(T, is.at), "let", Atoms(T, p))))
    [] name = "vary" -> Vary(T, p)
    [] name = "if" -> If(T, p, <<>>)
    [] name = "for" -> For(T, p)
    [] name = "fragment" -> Fragment(T, p)
    [] name = "match" ->
         Then(Expr(T, p), LAMBDA subject : Then(Expect(T, subject.at, {"%}"}), LAMBDA open :
           LET leading == Block(T, open.at, {"when", "else", "endmatch"})
               content == \E i \in DOMAIN leading.v : ~Blank(leading.v[i])
           IN  Match(T, [leading EXCEPT !.bad = @ \/ content], subject.v)))
    [] name \in Stray -> Reported(Ok(SkipToDirectiveEnd(T, p), <<>>))
    [] OTHER -> Then(Expect(T, p, {"%}"}), LAMBDA end : Reported(Ok(end.at, <<>>)))
-----------------------------------------------------------------------------
(* The parts of a quoted value, from a parser of their own; what that one  *)
(* notes of standalone and vary is not handed on.                          *)
Without(nodes) ==
  [i \in DOMAIN nodes |-> [nodes[i] EXCEPT !.kids = Without(SelectSeq(@, LAMBDA n :
     n.kind # "vary" /\ <<n.kind, n.atoms>> # <<"mark", <<"standalone">>>>))]]

ValueParts(src) ==
  LET block == Block(Lex(src, 1, "text"), 1, {})
  IN  IF \A i \in DOMAIN src : Pair(src, i) # "{{" THEN Ok(0, <<Node("text", src, <<>>)>>)
      ELSE [Ok(0, Without(<<Body(block)>>)) EXCEPT !.bad = block.bad]

(* classMap: the entries between commas that no bracket or quote holds.    *)
ClassMap(src) ==
  LET quoted(i) == Cardinality({k \in 1..i : src[k] = "'"}) % 2 = 1
      depth(i) == Cardinality({k \in 1..i : src[k] \in {"(", "[", "{"} /\ ~quoted(k)})
                  - Cardinality({k \in 1..i : src[k] \in {")", "]", "}"} /\ ~quoted(k)})
      commas == {i \in DOMAIN src : src[i] = "," /\ depth(i) = 1 /\ ~quoted(i)}
      end == IF src[Len(src)] = "}" THEN Len(src) ELSE Len(src) + 1
      cuts == Q!SetToSortSeq({1, end} \cup commas, LAMBDA a, b : a < b)
      entry(k) == SubSeq(src, cuts[k] + 1, cuts[k + 1] - 1)
      entries == SelectSeq([k \in 1..Len(cuts) - 1 |-> entry(k)], LAMBDA e : e # <<>>)
      colon(e) == First(1, Len(e), LAMBDA i : e[i] = ":")
      named(e) == colon(e) > 0 /\ \E i \in 1..colon(e) - 1 : e[i] # "'"
      cond(e) == ParseExpr(SubSeq(e, colon(e) + 1, Len(e)))
  IN  IF \A k \in DOMAIN entries : named(entries[k]) /\ cond(entries[k]).ok
      THEN Ok(0, [k \in DOMAIN entries |->
             Node("class", SubSeq(entries[k], 1, colon(entries[k]) - 1), cond(entries[k]).v)])
      ELSE Fail(0)

(* elementAttribute.  A value that does not parse leaves the tag half read. *)
ElementAttribute(T, p, bound) ==
  LET conditional == K(T, p + 1) = "?"
      q == IF conditional THEN p + 2 ELSE p + 1
      atoms == (IF bound THEN <<":">> ELSE <<>>) \o <<Name(T, p)>> \o (IF conditional THEN <<"?">> ELSE <<>>)
      value == T[q + 1].value
      trimmed == SelectSeq(value, LAMBDA a : a # " ")
      read == CASE bound /\ Name(T, p) = "class" /\ At(trimmed, 1) = "{" -> ClassMap(trimmed)
                [] bound \/ conditional -> ParseExpr(value)
                [] OTHER -> ValueParts(value)
  IN  CASE K(T, p) # "ident" -> Fail(SkipTag(T, p))
        [] K(T, q) # "=" -> IF bound \/ conditional THEN Fail(SkipTag(T, q))
                            ELSE Ok(q, <<Node("attribute", atoms, <<>>)>>)
        [] K(T, q + 1) # "string" -> Fail(SkipTag(T, q + 1))
        [] OTHER -> IF read.ok THEN [Ok(q + 2, <<Node("attribute", Append(atoms, "="), read.v)>>) EXCEPT !.bad = read.bad]
                    ELSE Fail(q + 2)

Element(T, p, node) ==
  LET more(r) == Then(r, LAMBDA a : Element(T, a.at, [node EXCEPT !.kids = @ \o a.v])) IN
  CASE K(T, p) = "selfclose" -> Ok(p + 1, <<[node EXCEPT !.kind = "closed"]>>)
    [] K(T, p) = "tagend" -> Ok(p + 1, <<node>>)
    [] K(T, p) = ":" -> more(ElementAttribute(T, p + 1, TRUE))
    [] K(T, p) = "ident" -> more(ElementAttribute(T, p, FALSE))
    [] OTHER -> Fail(SkipTag(T, p))

(* attribute, of a component.                                              *)
Attribute(T, p, bound) ==
  LET atoms == (IF bound THEN <<":">> ELSE <<>>) \o <<Name(T, p)>>
      value == IF bound THEN ParseExpr(T[p + 2].value) ELSE Ok(0, <<Node("text", T[p + 2].value, <<>>)>>)
  IN  CASE K(T, p) # "ident" -> Fail(SkipTag(T, p))
        [] K(T, p + 1) # "=" -> IF bound THEN Fail(SkipTag(T, p + 1)) ELSE Ok(p + 1, <<Node("attribute", atoms, <<>>)>>)
        [] K(T, p + 2) # "string" -> Fail(SkipTag(T, p + 2))
        [] OTHER -> IF value.ok THEN Ok(p + 3, <<Node("attribute", Append(atoms, "="), value.v)>>)
                    ELSE Fail(SkipTag(T, p + 2))

(* component and componentBody; slot is the name behind #.                 *)
Component(T, p, node, slot) ==
  LET more(r) == Then(r, LAMBDA a : Component(T, a.at, [node EXCEPT !.kids = @ \o a.v], slot))
      body == UntilClose(T, p + 1, node.atoms[1])
      whole == IF node.atoms = <<"Template">> THEN Node("fill", slot, <<Body(body)>>)
               ELSE [node EXCEPT !.kids = Append(@, Body(body))]
  IN  CASE K(T, p) = "selfclose" -> Ok(p + 1, <<[node EXCEPT !.kind = "closed"]>>)
        [] K(T, p) = "tagend" ->
             IF body.stop = "" \/ (node.atoms = <<"Template">> /\ slot = <<>>) THEN Fail(body.at)
             ELSE [Ok(body.at, <<whole>>) EXCEPT !.bad = body.bad]
        [] K(T, p) = "#" -> IF K(T, p + 1) = "ident" THEN Component(T, p + 2, node, T[p + 1].atoms)
                            ELSE Fail(SkipTag(T, p + 1))
        [] K(T, p) = ":" -> more(Attribute(T, p + 1, TRUE))
        [] K(T, p) = "ident" -> more(Attribute(T, p, FALSE))
        [] OTHER -> Fail(SkipTag(T, p))
-----------------------------------------------------------------------------
Starts == {"text", "{{", "<A", "script", "<a", "</a>", "</A>", "{%"}

BodyNode(T, p) ==
  CASE K(T, p) \in {"text", "script"} -> Ok(p + 1, <<Node(K(T, p), T[p].atoms, <<>>)>>)
    [] K(T, p) = "{{" ->
         IF K(T, p + 1) = "eof" THEN Fail(p + 1)
         ELSE Then(Expr(T, p + 1), LAMBDA e : Then(Expect(T, e.at, {"}}"}),
                LAMBDA end : Ok(end.at, <<Node("interp", <<>>, e.v)>>)))
    [] K(T, p) = "<A" -> Component(T, p + 1, Node("component", <<T[p].atoms[2]>>, <<>>), <<>>)
    [] K(T, p) = "<a" -> Element(T, p + 1, Node("element", <<T[p].atoms[2]>>, <<>>))
    [] K(T, p) = "</a>" -> Ok(p + 1, <<Node("text", T[p].atoms, <<>>)>>)
    [] K(T, p) = "</A>" -> Reported(Ok(p + 1, <<>>))
    [] K(T, p) = "{%" -> Then(DirectiveName(T, p), LAMBDA name : Directive(T, Name(T, p + 1), name.at))

More(step, rest) == [rest EXCEPT !.v = step.v \o @, !.bad = @ \/ step.bad]

(* The nodes up to a directive of stops, or to what no node begins with.   *)
Block(T, p, stops) ==
  LET step == BodyNode(T, p) IN
  IF K(T, p) \notin Starts THEN [v |-> <<>>, stop |-> "", at |-> p, bad |-> FALSE]
  ELSE IF K(T, p) = "{%" /\ K(T, p + 1) = "ident" /\ Atoms(T, p + 1)[1] \in stops
  THEN [v |-> <<>>, stop |-> Name(T, p + 1), at |-> p + 2, bad |-> FALSE]
  ELSE More(step, Block(T, step.at, stops))

UntilClose(T, p, name) ==
  LET step == BodyNode(T, p) IN
  IF K(T, p) \notin Starts THEN [v |-> <<>>, stop |-> "", at |-> p, bad |-> FALSE]
  ELSE IF K(T, p) = "</A>" /\ T[p].atoms[3] = name
  THEN [v |-> <<>>, stop |-> name, at |-> p + 1, bad |-> FALSE]
  ELSE More(step, UntilClose(T, step.at, name))

Parse(src) ==
  LET T == Tokens(src)
      from == IF K(T, 1) \in {"frontmatter", "fence"} THEN 2 ELSE 1
      block == Block(T, from, {})
      head == IF K(T, 1) = "frontmatter" THEN <<Node("text", T[1].atoms, <<>>)>> ELSE <<>>
  IN  [v |-> head \o block.v, bad |-> block.bad \/ K(T, 1) = "fence"]
-----------------------------------------------------------------------------
(* The tree written out again, which is what the rest of the compiler has  *)
(* of a source.                                                            *)
RECURSIVE Shown(_), ShownAll(_)
ShownAll(nodes) == Q!FlattenSeq([i \in DOMAIN nodes |-> Shown(nodes[i])])

Shown(n) ==
  LET directive(atoms) == <<"{", "%">> \o atoms \o <<"%", "}">>
      quoted(nodes) == <<"quote">> \o ShownAll(nodes) \o <<"quote">>
      kid(i) == Shown(n.kids[i])
      listed == Q!FlattenSeq([i \in DOMAIN n.kids |-> kid(i) \o (IF i < Len(n.kids) THEN <<",">> ELSE <<>>)])
      branch(i) ==
        LET b == n.kids[i]
        IN  IF Len(b.kids) = 1 THEN directive(<<"else">>) \o Shown(b.kids[1])
            ELSE directive(<<IF i = 1 THEN "if" ELSE "elif">> \o Shown(b.kids[1])) \o Shown(b.kids[2])
      arm(b) == directive(IF b.atoms = <<>> THEN <<"else">> ELSE <<"when">> \o b.atoms) \o ShownAll(b.kids)
      third(name) == IF Len(n.kids) = 3 THEN directive(<<name>>) \o kid(3) ELSE <<>>
  IN  CASE n.kind \in {"text", "script", "leaf"} -> n.atoms
        [] n.kind \in {"body", "settings"} -> ShownAll(n.kids)
        [] n.kind = "setting" -> n.atoms
        [] n.kind = "interp" -> <<"{", "{">> \o kid(1) \o <<"}", "}">>
        [] n.kind = "mark" -> directive(n.atoms)
        [] n.kind \in {"raw", "slot", "vary"} -> directive(<<n.kind>> \o n.atoms \o ShownAll(n.kids))
        [] n.kind = "let" -> directive(<<"let">> \o n.atoms \o <<"=">> \o kid(1))
        [] n.kind = "if" -> Q!FlattenSeq([i \in DOMAIN n.kids |-> branch(i)]) \o directive(<<"endif">>)
        [] n.kind = "for" -> directive(<<"for">> \o n.atoms \o <<"in">> \o kid(1)) \o kid(2) \o third("else")
                             \o directive(<<"endfor">>)
        [] n.kind = "match" -> directive(<<"match">> \o kid(1))
                               \o Q!FlattenSeq([i \in 1..Len(n.kids) - 1 |-> arm(n.kids[i + 1])])
                               \o directive(<<"endmatch">>)
        [] n.kind = "fragment" -> directive(<<"fragment">> \o n.atoms \o kid(1)) \o kid(2)
                                  \o third("placeholder") \o directive(<<"endfragment">>)
        [] n.kind = "fill" -> <<"<", "Template", "#">> \o n.atoms \o <<">">> \o kid(1)
                              \o <<"<", "/", "Template", ">">>
        [] n.kind = "element" -> <<"<">> \o n.atoms \o ShownAll(n.kids) \o <<">">>
        [] n.kind = "closed" -> <<"<">> \o n.atoms \o ShownAll(n.kids) \o <<"/", ">">>
        [] n.kind = "component" -> <<"<">> \o n.atoms \o ShownAll(Q!Front(n.kids)) \o <<">">> \o Shown(Q!Last(n.kids))
                                   \o <<"<", "/">> \o n.atoms \o <<">">>
        [] n.kind = "attribute" ->
             IF n.kids = <<>> THEN n.atoms
             ELSE IF n.kids[1].kind # "class" THEN n.atoms \o quoted(n.kids)
             ELSE n.atoms \o <<"quote", "{">> \o listed \o <<"}", "quote">>
        [] n.kind = "class" -> n.atoms \o <<":">> \o kid(1)
        [] n.kind = "unary" -> n.atoms \o kid(1)
        [] n.kind = "binary" -> kid(1) \o n.atoms \o kid(2)
        [] n.kind = "index" -> kid(1) \o <<"[">> \o kid(2) \o <<"]">>
        [] n.kind = "filter" -> kid(1) \o <<"|">> \o n.atoms \o (IF Len(n.kids) = 2 THEN kid(2) ELSE <<>>)
        [] n.kind = "call" -> n.atoms \o kid(1)
        [] n.kind = "message" -> <<"t">> \o n.atoms \o Q!FlattenSeq([i \in DOMAIN n.kids |-> <<",">> \o kid(i)])
        [] n.kind = "argument" -> n.atoms \o <<"=">> \o kid(1)

(* Every mark of a source that is taken without a report is in its tree,   *)
(* in its place; parentheses and space are not asked for.                  *)
Spelled(a) ==
  CASE a = "||" -> <<"|", "|">> [] a = "&&" -> <<"&", "&">> [] a = "==" -> <<"=", "=">> [] a = "!=" -> <<"!", "=">>
    [] a = "<=" -> <<"<", "=">> [] a = ">=" -> <<">", "=">> [] OTHER -> <<a>>
Bare(atoms) == SelectSeq(Q!FlattenSeq([i \in DOMAIN atoms |-> Spelled(atoms[i])]), LAMBDA a : a \notin {"(", ")", " "})
KeepsEveryMark(src) == Parse(src).bad \/ Bare(ShownAll(Parse(src).v)) = Bare(src)
=============================================================================
