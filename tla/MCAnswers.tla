----------------------------- MODULE MCAnswers -----------------------------
EXTENDS Answers, TLC

(* Two templates with fragments that read a scalar, a list or nothing, two *)
(* of one name.  Lists come of private visits, one of them streamed, where *)
(* no recorder hears that it is.                                           *)
Frag(name, template, reads, stale) ==
  [name |-> name, template |-> template, reads |-> reads, ttl |-> 1, stale |-> stale]

MCFragments == {Frag("offer", "home", {"scalar"}, 1), Frag("basket", "home", {"list"}, 0),
                Frag("links", "about", {}, 0), Frag("links", "home", {}, 0)}

MCLists == {"none", "own", "streamed"}

MCVisits ==
  {v \in [fragment : MCFragments, locale : {"en", "pl"}, props : [scalar : {"1"}, list : MCLists],
          private  : BOOLEAN, recorded : BOOLEAN] :
     /\ v.locale = "pl" => v.fragment.name = "offer"
     /\ v.fragment.name = "basket" <=> v.props.list # "none"
     /\ v.private = (v.props.list # "none")
     /\ v.recorded = (v.props.list # "streamed")}

(* What fragments are kept under, and what they yield: a list has no text. *)
MCKeys   == UNION {[name : {f.name}, locale : {"en", "pl"}, reads : [f.reads -> {"1", "no text"}]] :
                   f \in MCFragments}
MCValues == UNION {[template : {f.template}, locale : {"en", "pl"},
                    reads : [f.reads -> {"1"} \cup MCLists]] : f \in MCFragments}

MCPolicies == {[ttl |-> f.ttl, stale |-> f.stale] : f \in MCFragments}

(* Goroutines differ in nothing, and the properties are invariants.        *)
MCSymmetry == Permutations(Goroutine)
-----------------------------------------------------------------------------
(* A site of three pages for two visitors, the first with two tabs: one    *)
(* with a lifetime, which varies by theme, shows the visitor what is the   *)
(* visitor's own and has a fragment the browser fetches and may keep; a    *)
(* form; and a form that opens a session.                                  *)
loader(reads, sets, ttl) == [reads |-> reads, sets |-> sets, ttl |-> ttl]

page(layouts, own, form, fetched) ==
  [layouts |-> layouts, loader |-> own, form |-> form, deferred |-> fetched]

MCPage ==
  [account |-> page(<<"frame">>, loader({"session"}, {}, 1), FALSE, loader({}, {}, 1)),
   form    |-> page(<<>>, loader({}, {}, 0), TRUE, None),
   basket  |-> page(<<>>, loader({"session"}, {"session"}, 0), TRUE, None)]

MCLayout  == [frame |-> loader({"theme"}, {}, 2)]
MCRequest == {<<"ann", 1>>, <<"ann", 2>>, <<"bob", 1>>}
MCBucket  == [value \in {"dark", "odd", None} |-> IF value = "dark" THEN value ELSE None]
MCThemes  == [ann |-> "dark", bob |-> "odd"]

(* The site is one the theorems about visits speak of.                     *)
ASSUME SiteAssumption ==
  /\ SiteIsWellFormed /\ LoadersAreGuarded /\ LoadersLeaveOurCookies
  /\ FormsAreNotKept /\ KeptPagesVary
=============================================================================
