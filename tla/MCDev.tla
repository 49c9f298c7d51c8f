------------------------------- MODULE MCDev -------------------------------
(* Either half of "gopage dev": the edits on their way to the browser, or  *)
(* the applications that come and go under the requests of visitors.       *)
EXTENDS DevWatch

CONSTANTS MaxBuilds, MaxLost, Request

ASSUME BuildsAssumption == MaxBuilds \in Nat

VARIABLES about, dev, launch, running, retiring, handler, child, unaware, lost, request

K == INSTANCE Children WITH builder <- launch

childVars == <<dev, launch, running, retiring, handler, child, unaware, lost, request>>

DevInit == about \in {"edits", "children"} /\ Init /\ K!Init

OfEdits(Action) == about = "edits" /\ Action /\ UNCHANGED <<about, childVars>>
OfChildren(Action) == about = "children" /\ Action /\ UNCHANGED <<about, vars>>

DevSpec ==
  /\ DevInit
  /\ [][OfEdits(Next) \/ OfChildren(K!Next)]_<<about, vars, childVars>>

DevFairness ==
  /\ WF_vars(OfEdits(TakeEvent))
  /\ WF_vars(OfEdits(Fire))
  /\ WF_vars(OfEdits(Build))
  /\ \A b \in Browser : WF_vars(OfEdits(Join(b))) /\ WF_vars(OfEdits(Reload(b)))
  /\ WF_childVars(OfChildren(K!Proceeds))
  /\ \A c \in K!Child : WF_childVars(OfChildren(K!ChildNext(c)))

DevFairSpec == DevSpec /\ DevFairness

(* The properties of Children.                                             *)
RebuildsLoseNoPage == K!RebuildsLoseNoPage
NoChildIsLeftBehind == K!NoChildIsLeftBehind
=============================================================================
