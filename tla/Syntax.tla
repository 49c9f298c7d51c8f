------------------------------- MODULE Syntax -------------------------------
(***************************************************************************)
(* Templates as they are read: the lexer and the parser of internal/syntax. *)
(* A source is a sequence of atoms: a word, a mark of one character, a     *)
(* quote, or " " (space, which also stands unwritten between two words).   *)
(* The parser asks the lexer for tokens one by one and never changes its   *)
(* mode, so the tokens are taken from the source first.  A node holds what *)
(* the tree of ast.go holds; only its nodes keep the order of the source   *)
(* where the tree has it in their spans.                                   *)
(***************************************************************************)
EXTENDS Integers, Sequences, FiniteSets, TLC

CONSTANTS Capital,   \* words that begin with a capital letter
          Digits     \* words of digits; "huge" stands for one no int64 holds

LOCAL S == INSTANCE SequencesExt

Marks == {"{", "}", "%", "<", ">", "/", "=", ":", "#", "?", "|", "&", "!", "~", "+", "-", "*", "(", ")",
          "[", "]", ",", ".", "'", "quote", " ", "---"}
Word(a) == a \notin Marks \cup Digits \cup {"eof"}

At(src, i) == IF i \in DOMAIN src THEN src[i] ELSE "eof"
Pair(src, i) == At(src, i) \o At(src, i + 1)
First(from, to, Is(_)) ==
  LET found == {i \in from..to : Is(i)} IN IF found = {} THEN 0 ELSE CHOOSE i \in found : \A j \in found : i <= j

Token(kind, atoms, value) == [kind |-> kind, atoms |-> atoms, value |-> value]
Emit(src, kind, from, to, mode) ==
  [token |-> Token(kind, SubSeq(src, from, to - 1), <<>>), at |-> to, mode |-> mode]
-----------------------------------------------------------------------------
(* tag: <name, or </name> in one piece.                                    *)
TagWidth(src, i) ==
  CASE At(src, i) # "<" -> 0
    [] Word(At(src, i + 1)) -> 2
    [] At(src, i + 1) = "/" /\ Word(At(src, i + 2)) /\ At(src, i + 3) = ">" -> 4
    [] OTHER -> 0

KindOfTag(src, i) ==
  LET closing == TagWidth(src, i) = 4
      name == src[IF closing THEN i + 2 ELSE i + 1]
  IN  IF name \in Capital THEN IF closing THEN "</A>" ELSE "<A" ELSE IF closing THEN "</a>" ELSE "<a"

(* clientScript: the end of a <script client> at i, 0 if there is none.    *)
ClientEnd(src, i) ==
  LET quoted(j) == Cardinality({k \in i..j : src[k] \in {"quote", "'"}}) % 2 = 1
      head == First(i, Len(src), LAMBDA j : src[j] = ">" /\ ~quoted(j))
      close == First(head, Len(src) - 3, LAMBDA j : SubSeq(src, j, j + 3) = <<"<", "/", "script", ">">>)
  IN  IF Pair(src, i) = "<script" /\ head # 0 /\ close # 0
         /\ \E j \in i..head : src[j] = "client" /\ src[j + 1] # "="
      THEN close + 4 ELSE 0

LexText(src, i) ==
  LET stands(j) == Pair(src, j) \in {"{{", "{%"} \/ TagWidth(src, j) > 0
      to == First(i, Len(src), stands)
  IN  CASE to # i -> Emit(src, "text", i, IF to = 0 THEN Len(src) + 1 ELSE to, "text")
        [] Pair(src, i) = "{{" -> Emit(src, "{{", i, i + 2, "interp")
        [] Pair(src, i) = "{%" -> Emit(src, "{%", i, i + 2, "directive")
        [] ClientEnd(src, i) # 0 -> Emit(src, "script", i, ClientEnd(src, i), "text")
        [] OTHER -> Emit(src, KindOfTag(src, i), i, i + TagWidth(src, i),
                         IF TagWidth(src, i) = 4 THEN "text" ELSE "tag")

StringLiteral(src, i, mode) ==
  LET to == First(i + 1, Len(src), LAMBDA j : src[j] = src[i])
  IN  IF to = 0 THEN Emit(src, "unexpected", i, Len(src) + 1, mode)
      ELSE [Emit(src, "string", i, to + 1, mode) EXCEPT !.token.value = SubSeq(src, i + 1, to - 1)]

LexTag(src, i) ==
  LET a == src[i] IN
  CASE Pair(src, i) = "/>" -> Emit(src, "selfclose", i, i + 2, "text")
    [] a = ">" -> Emit(src, "tagend", i, i + 1, "text")
    [] Word(a) -> Emit(src, "ident", i, i + 1, "tag")
    [] a \in {"'", "quote"} -> StringLiteral(src, i, "tag")
    [] OTHER -> Emit(src, IF a \in {":", "#", "?", "="} THEN a ELSE "unexpected", i, i + 1, "tag")

LexNumber(src, i, mode) ==
  Emit(src, "number", i, IF At(src, i + 1) = "." /\ At(src, i + 2) \in Digits THEN i + 3 ELSE i + 1, mode)

LexBraces(src, i, mode) ==
  LET a == src[i]
      closing == IF mode = "interp" THEN "}}" ELSE "%}"
  IN  CASE Pair(src, i) = closing -> Emit(src, closing, i, i + 2, "text")
        [] Word(a) -> Emit(src, "ident", i, i + 1, mode)
        [] a \in Digits -> LexNumber(src, i, mode)
        [] a \in {"'", "quote"} -> StringLiteral(src, i, mode)
        [] Pair(src, i) \in {"||", "&&", "==", "!=", "<=", ">="} -> Emit(src, Pair(src, i), i, i + 2, mode)
        [] OTHER -> Emit(src, IF a \in {"{", "}", "&", "---"} THEN "unexpected" ELSE a, i, i + 1, mode)

RECURSIVE Lex(_, _, _)
Lex(src, i, mode) ==
  IF i > Len(src) THEN <<>>
  ELSE IF mode # "text" /\ src[i] = " " THEN Lex(src, i + 1, mode)
  ELSE LET next == CASE mode = "text" -> LexText(src, i) [] mode = "tag" -> LexTag(src, i)
                     [] OTHER -> LexBraces(src, i, mode)
       IN  <<next.token>> \o Lex(src, next.at, next.mode)

(* The fence of the frontmatter is a line of its own, and the first.       *)
Tokens(src) ==
  LET close == First(2, Len(src), LAMBDA j : src[j] = "---")
  IN  IF At(src, 1) # "---" THEN Lex(src, 1, "text")
      ELSE IF close = 0 THEN <<Token("fence", src, <<>>)>>
      ELSE <<Token("frontmatter", SubSeq(src, 1, close), <<>>)>> \o Lex(src, close + 1, "text")
-----------------------------------------------------------------------------
(* What a step of the parser leaves: whether it went on, the token it      *)
(* stands at, whether anything was reported, the nodes it made.            *)
Node(kind, atoms, kids) == [kind |-> kind, atoms |-> atoms, kids |-> kids]
Ok(at, nodes) == [ok |-> TRUE, at |-> at, bad |-> FALSE, v |-> nodes]
Fail(at) == [ok |-> FALSE, at |-> at, bad |-> TRUE, v |-> <<>>]
Then(r, Next(_)) == IF r.ok THEN LET s == Next(r) IN [s EXCEPT !.bad = @ \/ r.bad] ELSE r
Made(r, kind, atoms) == Then(r, LAMBDA s : Ok(s.at, <<Node(kind, atoms, s.v)>>))

K(T, p) == IF p \in DOMAIN T THEN T[p].kind ELSE "eof"
Name(T, p) == T[p].atoms[1]

Skip(T, p, before, after) ==
  LET q == First(p, Len(T) + 1, LAMBDA i : K(T, i) \in before \cup after \cup {"eof"})
  IN  IF K(T, q) \in after THEN q + 1 ELSE IF q = 0 THEN p ELSE q

Recover(T, p) == Skip(T, p, {"text", "{%", "{{"}, {"}}", "%}"})
SkipToDirectiveEnd(T, p) == Skip(T, p, {"text", "{%", "{{"}, {"%}"})
SkipTag(T, p) == Skip(T, p, {"text", "<A"}, {"tagend", "selfclose"})

Expect(T, p, kinds) == IF K(T, p) \in kinds THEN Ok(p + 1, <<>>) ELSE Fail(Recover(T, p))
-----------------------------------------------------------------------------
Level == [op \in {"||"} |-> 1] @@ [op \in {"&&"} |-> 2] @@ [op \in {"==", "!=", "<", "<=", ">", ">="} |-> 3]
         @@ [op \in {"~"} |-> 4] @@ [op \in {"+", "-"} |-> 5] @@ [op \in {"*", "/", "%"} |-> 6]

RECURSIVE Expr(_, _), Binary(_, _, _), Unary(_, _), Filters(_, _), Climb(_, _, _), Postfix(_, _),
          PathFrom(_, _, _), Arguments(_, _)
Expr(T, p) == Then(Binary(T, p, 1), LAMBDA e : Filters(T, e))

(* filterCall, until there is no bar.  Its errors leave the tokens.        *)
Filters(T, e) ==
  LET call(at, kids) == Filters(T, Ok(at, <<Node("filter", T[e.at + 1].atoms, kids)>>))
  IN  IF K(T, e.at) # "|" THEN e
      ELSE IF K(T, e.at + 1) # "ident" THEN Fail(e.at + 1)
      ELSE IF K(T, e.at + 2) # "(" THEN call(e.at + 2, e.v)
      ELSE Then(Expr(T, e.at + 3), LAMBDA a : IF K(T, a.at) = ")" THEN call(a.at + 1, e.v \o a.v) ELSE Fail(a.at))

Binary(T, p, least) == Then(Unary(T, p), LAMBDA l : Climb(T, l, least))

(* Mutant: the right hand of an operator takes operators of its own level. *)
ClimbRight(T, left, least) ==
  LET op == K(T, left.at) IN
  IF op \notin DOMAIN Level \/ (op \in DOMAIN Level /\ Level[op] < least) THEN left
  ELSE Then(Binary(T, left.at + 1, Level[op]),
            LAMBDA right : Climb(T, Ok(right.at, <<Node("binary", <<op>>, left.v \o right.v)>>), least))

(* The loop of binary.                                                     *)
Climb(T, left, least) ==
  LET op == K(T, left.at) IN
  IF op \notin DOMAIN Level \/ (op \in DOMAIN Level /\ Level[op] < least) THEN left
  ELSE Then(Binary(T, left.at + 1, Level[op] + 1),
            LAMBDA right : Climb(T, Ok(right.at, <<Node("binary", <<op>>, left.v \o right.v)>>), least))

Unary(T, p) ==
  IF K(T, p) \in {"!", "-"} THEN Made(Unary(T, p + 1), "unary", <<K(T, p)>>)
  ELSE LET primary ==
             CASE K(T, p) = "ident" -> PathFrom(T, p, <<>>)
               [] K(T, p) = "string" -> Ok(p + 1, <<Node("leaf", T[p].atoms, <<>>)>>)
               [] K(T, p) = "number" ->
                    IF T[p].atoms = <<"huge">> THEN Fail(p + 1) ELSE Ok(p + 1, <<Node("leaf", T[p].atoms, <<>>)>>)
               [] K(T, p) = "(" ->
                    Then(Expr(T, p + 1), LAMBDA e : Then(Expect(T, e.at, {")"}), LAMBDA end : Ok(end.at, e.v)))
               [] OTHER -> Fail(Recover(T, p))
       IN  Then(primary, LAMBDA base : Postfix(T, base))

Postfix(T, base) ==
  IF K(T, base.at) # "[" THEN base
  ELSE Then(Expr(T, base.at + 1), LAMBDA index : Then(Expect(T, index.at, {"]"}),
         LAMBDA end : Postfix(T, Ok(end.at, <<Node("index", <<>>, base.v \o index.v)>>))))

(* The key in quotes, the arguments, the parenthesis.                      *)
MessageCall(T, p) ==
  Then(Expect(T, p, {"string"}), LAMBDA key : Then(Arguments(T, Ok(key.at, <<>>)),
    LAMBDA args : Then(Expect(T, args.at, {")"}), LAMBDA end : Ok(end.at, <<Node("message", T[p].atoms, args.v)>>))))

(* pathOrKeyword; a name before a parenthesis calls a message or a builtin. *)
PathFrom(T, p, read) ==
  LET segments == read \o <<Name(T, p)>> IN
  IF K(T, p) # "ident" THEN Fail(Recover(T, p))
  ELSE IF read = <<>> /\ Name(T, p) \in {"true", "false"} THEN Ok(p + 1, <<Node("leaf", segments, <<>>)>>)
  ELSE IF read = <<>> /\ K(T, p + 1) = "(" THEN
    IF Name(T, p) # "t"
    THEN Then(Expr(T, p + 2), LAMBDA e : Then(Expect(T, e.at, {")"}),
           LAMBDA end : Ok(end.at, <<Node("call", segments, e.v)>>)))
    ELSE MessageCall(T, p + 2)
  ELSE IF K(T, p + 1) = "." THEN PathFrom(T, p + 2, segments \o <<".">>)
  ELSE Ok(p + 1, <<Node("leaf", segments, <<>>)>>)

(* messageArgument, after each comma.  The last count of a call counts.    *)
Arguments(T, args) ==
  LET p == args.at + 1
      read(e) == Node("argument", T[p].atoms, e.v)
      others == SelectSeq(args.v, LAMBDA n : n.atoms # <<"count">>)
  IN  IF K(T, args.at) # "," THEN args
      ELSE Then(Expect(T, p, {"ident"}), LAMBDA name : Then(Expect(T, name.at, {"="}),
             LAMBDA is : Then(Expr(T, is.at), LAMBDA e :
               Arguments(T, Ok(e.at, (IF Name(T, p) = "count" THEN others ELSE args.v) \o <<read(e)>>)))))

(* ParseExpr: the inside of a quoted value, all of it.                     *)
ParseExpr(src) ==
  LET T == Lex(src, 1, "interp")
  IN  Then(Expr(T, 1), LAMBDA e : IF K(T, e.at) = "eof" THEN e ELSE Fail(e.at))
-----------------------------------------------------------------------------
(* The expressions again, without a parser: a run of tokens is cut at the  *)
(* last operator of the lowest level that no bracket holds.                *)
Operand == {"ident", "string", "number", ")", "]"}

RECURSIVE Trees(_)
Trees(T) ==
  LET n == Len(T)
      depth(i) == Cardinality({j \in 1..i : T[j].kind \in {"(", "["}}) - Cardinality({j \in 1..i - 1 : T[j].kind \in {")", "]"}})
      after(i) == depth(i) - (IF T[i].kind \in {")", "]"} THEN 1 ELSE 0)
      whole(i) == \A j \in i..n - 1 : after(j) > 0
      bars == {i \in DOMAIN T : T[i].kind = "|" /\ depth(i) = 0}
      infix == {i \in 2..Len(T) : T[i].kind \in DOMAIN Level /\ depth(i) = 0 /\ T[i - 1].kind \in Operand}
      last(at) == CHOOSE i \in at : \A j \in at : j <= i
      cut == last({i \in infix : \A j \in infix : Level[T[i].kind] <= Level[T[j].kind]})
      part(from, to) == Trees(SubSeq(T, from, to))
      named(i) == i \in DOMAIN T /\ T[i].kind = "ident"
      joined(kind, atoms, left, right) == {Node(kind, atoms, <<l, r>>) : l \in left, r \in right}
      opens == {i \in 2..n : T[i].kind = "[" /\ depth(i) = 1}
      open == last(opens)
      argument(i) == IF named(i) /\ T[i + 1].kind = "=" THEN {Node("argument", T[i].atoms, <<e>>) : e \in part(i + 2, n - 1)} ELSE {}
  IN  CASE n = 0 \/ \E i \in DOMAIN T : depth(i) < 0 -> {}
        [] bars # {} ->
             LET b == last(bars) IN
             IF ~named(b + 1) THEN {}
             ELSE IF n = b + 1 THEN {Node("filter", T[n].atoms, <<e>>) : e \in part(1, b - 1)}
             ELSE IF T[b + 2].kind = "(" /\ T[n].kind = ")" /\ after(n) = 0 /\ whole(b + 2)
             THEN joined("filter", T[b + 1].atoms, part(1, b - 1), part(b + 3, n - 1)) ELSE {}
        [] bars = {} /\ infix # {} -> joined("binary", <<T[cut].kind>>, part(1, cut - 1), part(cut + 1, n))
        [] bars = {} /\ infix = {} /\ T[1].kind \in {"!", "-"} ->
             {Node("unary", <<T[1].kind>>, <<e>>) : e \in part(2, n)}
        [] bars = {} /\ infix = {} /\ T[1].kind \notin {"!", "-"} /\ T[n].kind = "]" /\ opens # {} ->
             joined("index", <<>>, part(1, open - 1), part(open + 1, n - 1))
        [] OTHER ->
             IF n = 1 /\ T[1].kind \in {"ident", "string", "number"} /\ T[1].atoms # <<"huge">>
             THEN {Node("leaf", T[1].atoms, <<>>)}
             ELSE IF n > 2 /\ T[n].kind = ")" /\ T[1].kind = "(" /\ whole(1) THEN part(2, n - 1)
             ELSE IF n > 2 /\ T[n].kind = ")" /\ named(1) /\ T[2].kind = "(" /\ whole(2)
                     /\ T[1].atoms[1] \notin {"true", "false"}
             THEN IF T[1].atoms # <<"t">> THEN {Node("call", T[1].atoms, <<e>>) : e \in part(3, n - 1)}
                  ELSE IF T[3].kind # "string" THEN {}
                  ELSE IF n = 4 THEN {Node("message", T[3].atoms, <<>>)}
                  ELSE IF n > 6 /\ T[4].kind = "," THEN {Node("message", T[3].atoms, <<a>>) : a \in argument(5)} ELSE {}
             ELSE IF n > 2 /\ n % 2 = 1 /\ \A i \in DOMAIN T : T[i].kind = (IF i % 2 = 1 THEN "ident" ELSE ".")
                     /\ T[1].atoms[1] \notin {"true", "false"}
             THEN {Node("leaf", S!FlattenSeq([i \in DOMAIN T |-> T[i].atoms]), <<>>)} ELSE {}

(* An expression is taken just when it has a tree, and as that tree: one   *)
(* operator is over another by its level, at the same level by the order.  *)
ReadsAsWritten(src) ==
  LET read == ParseExpr(src) IN Trees(Lex(src, 1, "interp")) = IF read.ok THEN {read.v[1]} ELSE {}
=============================================================================
