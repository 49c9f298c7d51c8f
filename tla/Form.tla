-------------------------------- MODULE Form --------------------------------
(***************************************************************************)
(* A submitted form: Decode of internal/form into the fields of a Go       *)
(* struct, the rules of their validate tags (internal/validate), and what  *)
(* the page that is shown again reads of the result (view.go).             *)
(*                                                                         *)
(* A text is a model value; Runes, Blank, Ticked, Whole, Decimal and Mail  *)
(* say what len([]rune), TrimSpace, checked, strconv and the search for an *)
(* address find in it.  A field is [type, width, pointer, exported, rules],*)
(* a rule [rule, low, high, words].                                        *)
(***************************************************************************)
EXTENDS Integers, Sequences, FiniteSets

CONSTANTS Empty,                    \* the text without a letter
          Runes, Blank, Ticked, Whole, Decimal, Mail,
          NotANumber,               \* what strconv refuses
          Odd,                      \* NaN, which strconv takes
          Unset

Known == {"required", "len", "min", "max", "email", "accepted", "in"}
Absent == <<>>
-----------------------------------------------------------------------------
(* assign: what is put in the field, or that it cannot be.                 *)
Holds(kind, str, num) == [kind |-> kind, str |-> str, num |-> num]
Nil == Holds("nil", Empty, 0)
Refused == Holds("refused", Empty, 0)

(* SetInt on a narrow field keeps the low bits.                            *)
Narrow(n, width) == LET half == 2 ^ (width - 1) IN ((n + half) % (2 * half)) - half

Put(field, raw, present) ==
  LET number(n) == IF ~present \/ raw = Empty THEN 0 ELSE n
  IN  CASE field.type = "string" -> Holds("string", raw, 0)
        [] field.type = "bool"   -> Holds("bool", Empty, IF Ticked[raw] THEN 1 ELSE 0)
        [] field.type = "int"    -> IF number(Whole[raw]) = NotANumber THEN Refused
                                    ELSE Holds("int", Empty, Narrow(number(Whole[raw]), field.width))
        [] field.type = "float"  -> IF number(Decimal[raw]) = NotANumber THEN Refused
                                    ELSE Holds("float", Empty, number(Decimal[raw]))
        [] OTHER                 -> Refused

Assign(field, raw, present) ==
  IF field.pointer /\ (~present \/ raw = Empty) THEN Nil ELSE Put(field, raw, present)

(* valueOf: what the rules see.                                            *)
ValueOf(held, raw, present) ==
  IF held = Nil THEN [kind |-> "string", str |-> raw, num |-> 0, bool |-> FALSE, present |-> FALSE]
  ELSE [kind |-> held.kind, str |-> raw, num |-> IF held.kind \in {"int", "float"} THEN held.num ELSE 0,
        bool |-> held.kind = "bool" /\ held.num = 1, present |-> present \/ held.kind = "bool"]
-----------------------------------------------------------------------------
(* The rules: whether the value breaks one.  Comparing NaN is never true.  *)
Less(x, y) == x # Odd /\ y # Odd /\ x < y
Measure(value) == IF value.kind = "string" THEN Runes[value.str] ELSE value.num

LooksLikeMail(m) ==
  /\ m.before > 0 /\ ~m.spaced
  /\ Len(m.labels) > 1 /\ m.labels[1] > 0 /\ m.labels[Len(m.labels)] > 0

Breaks(value, rule) ==
  CASE rule.rule = "required" -> ~value.present \/ (value.kind = "string" /\ Blank[value.str])
    [] rule.rule = "len" -> \/ NotANumber \in {rule.low, rule.high}
                            \/ Runes[value.str] < rule.low
                            \/ rule.high # Unset /\ rule.high > 0 /\ Runes[value.str] > rule.high
    [] rule.rule = "min" -> rule.low = NotANumber \/ Less(Measure(value), rule.low)
    [] rule.rule = "max" -> rule.high = NotANumber \/ Less(rule.high, Measure(value))
    [] rule.rule = "email" -> ~LooksLikeMail(Mail[value.str])
    [] rule.rule = "accepted" -> ~value.bool
    [] rule.rule = "in" -> value.str \notin rule.words

(* Parse fails as a whole on a rule it does not know.                      *)
Parses(rules) == \A i \in DOMAIN rules : rules[i].rule \in Known

(* Mutant: a box that is not there has nothing to check.                   *)
CheckPresent(value, rules) == {i \in DOMAIN rules : value.present /\ Breaks(value, rules[i])}

Check(value, rules) ==
  {i \in DOMAIN rules : (value.present \/ rules[i].rule \in {"required", "accepted"}) /\ Breaks(value, rules[i])}
-----------------------------------------------------------------------------
(* Decode, field by field: the first text sent under the field's name, what*)
(* is put there, and the first complaint (0 for a value that cannot be put *)
(* or a tag that does not parse).                                          *)
Text(sent) == IF sent = Absent THEN Empty ELSE sent[1]

Complaints(field, held, sent) ==
  IF held = Refused \/ ~Parses(field.rules) THEN {0}
  ELSE Check(ValueOf(held, Text(sent), sent # Absent), field.rules)

Decoded(field, sent) ==
  LET held == Assign(field, Text(sent), sent # Absent)
  IN  [held |-> held, shown |-> Text(sent), complaints |-> Complaints(field, held, sent)]

Decode(fields, sent) ==
  [n \in {f \in DOMAIN fields : fields[f].exported} |-> Decoded(fields[n], sent[n])]

Valid(result) == \A n \in DOMAIN result : result[n].complaints = {}

(* View: what form.Values.N, form.Errors.N and form.Failed show.           *)
Values(result, n) == IF n \in DOMAIN result THEN result[n].shown ELSE Empty
Errors(result, n) == n \in DOMAIN result /\ result[n].complaints # {}
Failed(result, submitted) == submitted /\ ~Valid(result)
-----------------------------------------------------------------------------
(* What a rule asks of what was sent, told from the field and the text.    *)
Left(field, sent) == sent = Absent \/ (sent[1] = Empty /\ field.pointer)
Number(field, sent) ==
  LET of == IF field.type = "int" THEN Whole[Text(sent)] ELSE Decimal[Text(sent)]
  IN  IF Text(sent) = Empty THEN 0 ELSE of
SizeOf(field, sent) == CASE field.type = "string" -> Runes[Text(sent)]
                         [] field.type = "bool" -> 0
                         [] OTHER -> Number(field, sent)

Asked(field, sent, rule) ==
  LET told == ~Left(field, sent)
      vacuous == Left(field, sent) /\ (field.type # "bool" \/ field.pointer)
      size == SizeOf(field, sent)
  IN  CASE rule.rule = "required" -> /\ told \/ (field.type = "bool" /\ ~field.pointer)
                                     /\ field.type = "string" => ~Blank[Text(sent)]
        [] rule.rule = "accepted" -> field.type = "bool" /\ sent # Absent /\ Ticked[sent[1]]
        [] rule.rule = "len" -> \/ vacuous
                                \/ /\ NotANumber \notin {rule.low, rule.high} /\ Runes[Text(sent)] >= rule.low
                                   /\ rule.high \in {Unset, 0} \/ Runes[Text(sent)] <= rule.high
        [] rule.rule = "min" -> vacuous \/ (rule.low # NotANumber /\ size >= rule.low)
        [] rule.rule = "max" -> vacuous \/ (rule.high # NotANumber /\ size <= rule.high)
        [] rule.rule = "email" -> vacuous \/ LooksLikeMail(Mail[Text(sent)])
        [] rule.rule = "in" -> vacuous \/ Text(sent) \in rule.words

Means(field, sent) ==
  CASE field.type = "string" -> Holds("string", Text(sent), 0)
    [] field.type = "bool" -> Holds("bool", Empty, IF sent # Absent /\ Ticked[sent[1]] THEN 1 ELSE 0)
    [] OTHER -> Holds(field.type, Empty, Number(field, sent))

(* A number in range of its field: what SetInt and NaN do to others is     *)
(* said in the README.                                                     *)
Fits(field, sent) ==
  field.type \in {"int", "float"} =>
    LET n == Number(field, sent) IN n = NotANumber \/ (n # Odd /\ (field.type = "int" => Narrow(n, field.width) = n))

(* A form is accepted just when every field says something its type takes  *)
(* and keeps every rule; the struct then holds what was sent, and nil just *)
(* where an optional field was left; and one that is refused is shown again*)
(* with what was typed, and a complaint at the fields that deserve it.     *)
DecodesAsSent(fields, sent) ==
  LET result == Decode(fields, sent)
      exported == {n \in DOMAIN fields : fields[n].exported}
      good(n) == /\ fields[n].type # "other" \/ (fields[n].pointer /\ Left(fields[n], sent[n]))
                 /\ fields[n].type \in {"int", "float"} /\ ~Left(fields[n], sent[n]) => Number(fields[n], sent[n]) # NotANumber
                 /\ Parses(fields[n].rules)
                 /\ \A i \in DOMAIN fields[n].rules : Asked(fields[n], sent[n], fields[n].rules[i])
  IN  (\A n \in exported : Fits(fields[n], sent[n])) =>
        /\ \A n \in DOMAIN fields : Errors(result, n) = (n \in exported /\ ~good(n))
        /\ \A n \in exported : Values(result, n) = Text(sent[n])
        /\ Failed(result, TRUE) = (\E n \in exported : ~good(n))
        /\ Valid(result) => \A n \in exported :
             result[n].held = IF fields[n].pointer /\ Left(fields[n], sent[n]) THEN Nil
                              ELSE Means(fields[n], sent[n])
=============================================================================
