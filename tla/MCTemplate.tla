----------------------------- MODULE MCTemplate -----------------------------
(***************************************************************************)
(* The templates, the components and the visits of the runs of Template.   *)
(* No name is bound twice on a way through a document, and no cached       *)
(* fragment stands in a loop or reads a list.                              *)
(***************************************************************************)
EXTENDS Integers, Sequences, FiniteSets, TLC

Q == INSTANCE SequencesExt
Runs(set, n) == UNION {[1..k -> set] : k \in 1..n}

q == "quote"
Dir(atoms) == <<"{", "%">> \o atoms \o <<"%", "}">>
Show(atoms) == <<"{", "{">> \o atoms \o <<"}", "}">>

Type(k) == [k |-> k]
Struct(fields) == [k |-> "struct", fields |-> fields]
Row == Struct([name |-> Type("string")])
Kind == [k |-> "enum", members |-> {"on", "off"}]

Library ==
  [Card |-> [fields |-> <<[name |-> "f", type |-> "string", default |-> <<"d">>], [name |-> "g", type |-> "bool", default |-> <<>>]>>,
             source |-> Dir(<<"let", "y", "=", "f">>) \o <<"(">> \o Show(<<"f">>) \o Dir(<<"if", "g">>) \o Dir(<<"children">>)
                        \o <<"x">> \o Dir(<<"endif">>) \o Show(<<"y">>) \o Dir(<<"slot", q, "x", q>>) \o <<")">>],
   Outer |-> [fields |-> <<[name |-> "h", type |-> "string", default |-> <<>>]>>,
              source |-> <<"<", "Card", ":", "f", "=", q, "h", q, "g", ">">> \o Show(<<"h">>) \o Dir(<<"children">>) \o <<"<", "/", "Card", ">">>]]

T == INSTANCE Template WITH
  Capital <- {"Card", "Outer", "Template"}, Digits <- {"0", "1", "2", "huge"}, Library <- Library,
  Schema <- Struct([A |-> Type("string"), B |-> Type("bool"), N |-> Type("int"), K |-> Kind,
                    L |-> [k |-> "slice", elem |-> Row], O |-> [k |-> "optional", elem |-> Row]]),
  Loaders <- {"D"}, Boolean <- {"hidden"}, Url <- {"href"}

V == T!Value("object")
Person(n) == [V EXCEPT !.fields = [name |-> T!Str(<<n>>)]]
Data(a, b, n, k, l) ==
  [props |-> [V EXCEPT !.fields = [A |-> T!Str(a), B |-> T!Bool(b), N |-> T!Int64(n), K |-> T!Str(<<k>>),
                                   L |-> [T!Value("seq") EXCEPT !.items = l], O |-> Person("o")]],
   held |-> [D |-> T!Str(<<"D">>)]]
Visits == <<Data(<<"a">>, TRUE, 2, "on", <<>>), Data(<<>>, FALSE, 0, "off", <<Person("p"), Person("q")>>),
            Data(<<"a">>, TRUE, 2, "on", <<>>)>>

Chunk ==
  [text |-> <<"x">>, a |-> Show(<<"A">>), n |-> Show(<<"N", "/", "2", "+", "1">>), sum |-> Show(<<"A", "~", "N", "|", "len">>), wrong |-> Show(<<"A", ".", "name">>),
   field |-> Show(<<"O", ".", "name", "|", "default", "(", "A", ")">>), lost |-> Show(<<"L", "[", "0", "]", ".", "name">>),
   raw |-> Dir(<<"raw", "A">>), letx |-> Dir(<<"let", "x", "=", "A", "~", "1">>), showx |-> Show(<<"x">>),
   letz |-> Dir(<<"let", "x", "=", "N">>),
   if |-> Dir(<<"if", "B", "&", "&", "A">>), elif |-> Dir(<<"elif", "!", "B">>), else |-> Dir(<<"else">>), endif |-> Dir(<<"endif">>),
   for |-> Dir(<<"for", "i", "in", "L">>), showi |-> Show(<<"i", ".", "name">>), endfor |-> Dir(<<"endfor">>),
   match |-> Dir(<<"match", "K">>), on |-> Dir(<<"when", "on">>), off |-> Dir(<<"when", "off">>), endmatch |-> Dir(<<"endmatch">>),
   says |-> Dir(<<"match", "A">>), whena |-> Dir(<<"when", q, "a", q>>),
   kept |-> Dir(<<"fragment", q, "F", q, "cache", "=", q, "1", "m", q>>), fetched |-> Dir(<<"fragment", q, "D", q, "defer">>),
   held |-> Show(<<"D">>), hold |-> Dir(<<"placeholder">>), endfragment |-> Dir(<<"endfragment">>),
   card |-> <<"<", "Card", ":", "f", "=", q, "A", q, "g", ">">>, plain |-> <<"<", "Card", "g", "=", q, "true", q, "/", ">">>,
   cardend |-> <<"<", "/", "Card", ">">>,
   outer |-> <<"<", "Outer", "h", "=", q, "x", q, ">">>, outerend |-> <<"<", "/", "Outer", ">">>,
   fill |-> <<"<", "Template", "#", "x", ">">>, fillend |-> <<"<", "/", "Template", ">">>,
   link |-> <<"<", "a", "href", "=", q>> \o Show(<<"A">>) \o <<"x", q, "hidden", "?", "=", q, "B", q, ">">>,
   classes |-> <<"<", "a", ":", "class", "=", q, "{", "x", ":", "B", ",", "'", "y", "'", ":", "A", "}", q, ":", "alt", "=", q, "A", q, "/", ">">>]

Wrap(open, set, n, close) == {open \o d \o close : d \in {<<>>} \cup Runs(set, n)}
Documents ==
  Runs(DOMAIN Chunk \ {"hold", "held"}, 2) \cup Runs({"a", "text", "raw", "field", "link", "classes", "sum"}, 3)
  \cup Wrap(<<"if">>, {"text", "elif", "else", "a", "letx", "showx"}, 4, <<"endif", "text">>)
  \cup Wrap(<<"letx", "for">>, {"showi", "text", "else", "showx", "for", "endfor"}, 3, <<"endfor", "text", "showx">>)
  \cup Wrap(<<"letx", "for">>, {"showi", "showx", "letz", "for", "endfor"}, 4, <<"endfor", "showx">>)
  \cup Wrap(<<"match">>, {"on", "off", "a", "text", "else"}, 4, <<"endmatch", "text">>)
  \cup Wrap(<<"says", "whena", "text", "else">>, {"a", "text"}, 2, <<"endmatch", "text">>)
  \cup Wrap(<<"kept">>, {"a", "if", "n", "endif", "field", "text", "endfragment"}, 4, <<"endfragment", "text", "a">>)
  \cup Wrap(<<"fetched">>, {"held", "hold", "a", "text", "plain"}, 4, <<"endfragment", "text", "a">>)
  \cup Wrap(<<"letx", "card">>, {"a", "showx", "fill", "fillend", "text", "plain"}, 4, <<"cardend", "showx">>)
  \cup Wrap(<<"outer">>, {"a", "card", "cardend", "for", "endfor", "showi"}, 4, <<"outerend", "a">>)

Source(names) == Q!FlattenSeq([i \in DOMAIN names |-> Chunk[names[i]]])

(* The same with a list in a cached fragment.                              *)
Lists == Wrap(<<"kept">>, {"for", "showi", "endfor", "text"}, 3, <<"endfragment">>)

Verdict(names) ==
  IF ~T!Accepted(T!Parse(Source(names))) THEN "refused"
  ELSE IF \A wait \in BOOLEAN : T!Renders(Source(names), Visits, wait) THEN "right" ELSE "wrong"
=============================================================================
