---------------------------- MODULE MCNavigation ----------------------------
(* Either half of the client's runtime: navigations between two pages      *)
(* under one layout, a third under another, all in the same root, and one  *)
(* without layouts; or what comes to life in a document of a layout with   *)
(* an island beside its outlet.  The page in it has an island and a slot  *)
(* of the streamed tail, the next one a slot that is fetched.              *)
EXTENDS Navigation

MCChains == [p \in Page |->
  CASE p = "intro" -> <<"root", "docs">>
    [] p = "guide" -> <<"root", "docs">>
    [] p = "news"  -> <<"root", "blog">>
    [] p = "bare"  -> <<>>]

CONSTANTS Island, Slot, Outlet

Place == [bar |-> "beside", map |-> "page", late |-> "none", next |-> "none",
          offers |-> "page", latest |-> "page"]
Strategy == [bar |-> "visible", map |-> "idle", late |-> "load", next |-> "load",
             offers |-> "template", latest |-> "idle"]
Content == [offers |-> "late", latest |-> "next"]
Part(e) == [is |-> "element", of |-> e]
Stream == <<Part("map"), Part("offers"), Part("bar"), [is |-> "template", of |-> "offers"]>>
Pages == <<{"latest"}>>

VARIABLES about, arrived, ended, started, dom, island, slot, going, swaps, stray

I == INSTANCE Islands

documentVars == <<arrived, ended, started, dom, island, slot, going, swaps, stray>>

BothInit ==
  /\ about \in {"navigation", "document"}
  /\ Init /\ I!Init
  /\ about = "document" => Here = "intro"

OfNavigation(Action) == about = "navigation" /\ Action /\ UNCHANGED <<about, documentVars>>
OfDocument(Action) == about = "document" /\ Action /\ UNCHANGED <<about, vars>>

BothSpec ==
  /\ BothInit
  /\ [][OfNavigation(Next) \/ OfDocument(I!Next)]_<<about, vars, documentVars>>
  /\ WF_vars(OfNavigation(\E f \in flights : Answer(f) \/ End(f)))
  /\ WF_documentVars(OfDocument(I!Arrive))
  /\ WF_documentVars(OfDocument(I!Start))
  /\ WF_documentVars(OfDocument(I!End))
  /\ WF_documentVars(OfDocument(I!Swap))
  /\ \A e \in Island :
       /\ WF_documentVars(OfDocument(I!Loaded(e) \/ I!LoadFails(e)))
       /\ Strategy[e] # "visible" => WF_documentVars(OfDocument(I!Callback(e)))
  /\ \A s \in Slot :
       /\ WF_documentVars(OfDocument(I!Answered(s) \/ I!AnswerFails(s)))
       /\ Strategy[s] # "visible" => WF_documentVars(OfDocument(I!Draw(s)))

(* The property of Islands.                                                *)
DocumentComesToLife == I!DocumentComesToLife
=============================================================================
