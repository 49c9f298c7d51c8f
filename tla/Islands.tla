------------------------------ MODULE Islands -------------------------------
(***************************************************************************)
(* What internal/bundle/runtime.ts brings to life in a document: islands,  *)
(* whose modules it loads and mounts, and slots, which a template of the   *)
(* streamed tail fills or a request of its own.  The parser, the runtime's *)
(* start, the observers, the loads and the navigations go on in any order. *)
(*                                                                         *)
(* An element is told by its identity.  The parser hands over the stream   *)
(* in chunks of whole items; after each the runtime's observer runs before *)
(* anything else.  Left out are chunks that end inside a template, modules *)
(* that were never registered, the media strategy, which is idle without   *)
(* the promise to come, and the sweeps that follow changes of the runtime  *)
(* itself: they find every island activated.  "stray" is history, read by  *)
(* the property only: islands that were released while their module was    *)
(* loading, and those that left the document before an idle callback.      *)
(***************************************************************************)
EXTENDS Naturals, Sequences

CONSTANTS Island,    \* elements <gopage-island>
          Slot,      \* elements <gopage-slot>
          Strategy,  \* [Island \cup Slot -> "load", "idle" or "visible"; slots: "template" as well]
          Content,   \* [Slot -> the island that comes with what fills it]
          Place,     \* [Island \cup Slot -> "page", "beside" it or "apart"]
          Stream,    \* the first document: records [is, of], elements of it and
                     \* templates of slots
          Outlet,    \* how much of it has come when the page is whole
          Pages      \* what each swap puts into the outlet: a sequence of sets

Element == Island \cup Slot

VARIABLES arrived,  \* how much of the stream has been parsed
          ended,    \* DOMContentLoaded
          started,  \* start has run
          dom,      \* the elements connected
          island,   \* [Island -> mounted's entry, callbacks to come, loads under
                    \* way, mounts whose stop has not been called]
          slot,     \* [Slot -> what became of it]
          going,    \* a navigation waits for its answer
          swaps,    \* navigations that have arrived
          stray

vars == <<arrived, ended, started, dom, island, slot, going, swaps, stray>>
-----------------------------------------------------------------------------
Come(kind, n) == {Stream[i].of : i \in {j \in 1..n : Stream[j].is = kind}}

(* parsed: while the document loads, an island with nothing behind it may  *)
(* not be whole; templates are taken out before it is asked.               *)
Whole(e, n, loading) ==
  \/ ~loading
  \/ e \notin Come("element", n)
  \/ \E i, j \in 1..n : i < j /\ Stream[i].of = e /\ Stream[j].is = "element"

(* mount, up to the await.                                                 *)
Mount(i) == IF i.entry = "none" THEN [i EXCEPT !.entry = "claimed", !.loads = @ + 1] ELSE i

(* read and activate.                                                      *)
Activate(e, i) ==
  IF i.entry # "none" THEN i
  ELSE IF Strategy[e] = "load" THEN Mount(i) ELSE [i EXCEPT !.callbacks = @ + 1]

Hydrate(held, elements) ==
  [e \in Island |-> IF e \in elements THEN Activate(e, held[e]) ELSE held[e]]

(* Mutant: what was stopped stays in the map.                              *)
ReleaseKeeping(held, elements) ==
  [e \in Island |->
     IF e \notin elements \/ held[e].entry # "mounted" THEN held[e]
     ELSE [held[e] EXCEPT !.mounts = @ - 1]]

(* release: the stop of a claimed island does nothing.                     *)
Release(held, elements) ==
  [e \in Island |->
     IF e \notin elements THEN held[e]
     ELSE [held[e] EXCEPT !.entry = "none",
                          !.mounts = IF held[e].entry = "mounted" THEN @ - 1 ELSE @]]

(* fill, of templates whose slots are there: the island inside is whole.   *)
Fill(slots, filled) == [s \in Slot |-> IF s \in filled THEN "drawn" ELSE slots[s]]

(* pull.                                                                   *)
Pull(slots, elements) ==
  [s \in Slot |->
     IF s \notin elements \/ slots[s] # "open" \/ Strategy[s] = "template" THEN slots[s]
     ELSE IF Strategy[s] = "load" THEN "asked" ELSE "awaited"]

Contents(slots) == {Content[s] : s \in slots}
-----------------------------------------------------------------------------
Init ==
  /\ arrived = 0
  /\ ended = FALSE
  /\ started = FALSE
  /\ dom = {}
  /\ island = [e \in Island |-> [entry |-> "none", callbacks |-> 0, loads |-> 0, mounts |-> 0]]
  /\ slot = [s \in Slot |-> "open"]
  /\ going = FALSE
  /\ swaps = 0
  /\ stray = {}

(* The templates that have come are moved into their slots, then islands   *)
(* are hydrated and slots pulled: start, or the observer and its sweep.    *)
Settle(n, elements) ==
  LET filled == {s \in Come("template", n) \cap elements : slot[s] = "open"}
      now    == elements \cup Contents(filled)
  IN  /\ dom' = now
      /\ island' = Hydrate(island, {e \in now \cap Island : e \in Contents(filled) \/ Whole(e, n, ~ended)})
      /\ slot' = Pull(Fill(slot, filled), now)

(* The parser hands over a chunk.                                          *)
Arrive ==
  /\ arrived < Len(Stream)
  /\ arrived' \in arrived + 1..Len(Stream)
  /\ LET elements == dom \cup (Come("element", arrived') \ Come("element", arrived))
     IN  IF started THEN Settle(arrived', elements)
                    ELSE dom' = elements /\ UNCHANGED <<island, slot>>
  /\ UNCHANGED <<ended, started, going, swaps, stray>>

Start ==
  /\ ~started
  /\ arrived > 0
  /\ started' = TRUE
  /\ Settle(arrived, dom)
  /\ UNCHANGED <<arrived, ended, going, swaps, stray>>

(* DOMContentLoaded.                                                       *)
End ==
  /\ ~ended
  /\ arrived = Len(Stream)
  /\ ended' = TRUE
  /\ island' = IF started THEN Hydrate(island, dom \cap Island) ELSE island
  /\ UNCHANGED <<arrived, started, dom, slot, going, swaps, stray>>

(* An observer or the browser calls back; what has left the document is    *)
(* not visible.                                                            *)
Called(e) == Strategy[e] = "visible" => e \in dom

Callback(e) ==
  /\ island[e].callbacks > 0
  /\ Called(e)
  /\ island' = [island EXCEPT ![e] = Mount([@ EXCEPT !.callbacks = @ - 1])]
  /\ UNCHANGED <<arrived, ended, started, dom, slot, going, swaps, stray>>

(* mount, from the await on: the module has come, or it never will.        *)
Loaded(e) ==
  /\ island[e].loads > 0
  /\ island' = [island EXCEPT ![e] = [@ EXCEPT !.entry = "mounted", !.loads = @ - 1,
                                               !.mounts = @ + 1]]
  /\ UNCHANGED <<arrived, ended, started, dom, slot, going, swaps, stray>>

LoadFails(e) ==
  /\ island[e].loads > 0
  /\ island' = [island EXCEPT ![e].loads = @ - 1]
  /\ UNCHANGED <<arrived, ended, started, dom, slot, going, swaps, stray>>

(* draw, up to its request, for a slot pull put off.                       *)
Draw(s) ==
  /\ slot[s] = "awaited"
  /\ Called(s)
  /\ slot' = [slot EXCEPT ![s] = "asked"]
  /\ UNCHANGED <<arrived, ended, started, dom, island, going, swaps, stray>>

(* draw, from the answer on; a slot that has gone meanwhile is left.       *)
Answered(s) ==
  /\ slot[s] = "asked"
  /\ slot' = [slot EXCEPT ![s] = IF s \in dom THEN "drawn" ELSE "dropped"]
  /\ IF s \in dom
     THEN dom' = dom \cup {Content[s]} /\ island' = Hydrate(island, {Content[s]})
     ELSE UNCHANGED <<dom, island>>
  /\ UNCHANGED <<arrived, ended, started, going, swaps, stray>>

AnswerFails(s) ==
  /\ slot[s] = "asked"
  /\ slot' = [slot EXCEPT ![s] = "failed"]
  /\ UNCHANGED <<arrived, ended, started, dom, island, going, swaps, stray>>

(* go, up to its request: abandon aborts what slots have asked for.        *)
Go ==
  /\ started
  /\ swaps < Len(Pages)
  /\ going' = TRUE
  /\ slot' = [s \in Slot |-> IF slot[s] = "asked" THEN "abandoned" ELSE slot[s]]
  /\ UNCHANGED <<arrived, ended, started, dom, island, swaps, stray>>

(* What stands in the outlet, with what has been put into its slots.       *)
Inside(place) ==
  {e \in dom : Place[e] = place \/ \E s \in Slot : Place[s] = place /\ e = Content[s]}

(* go, from the answer on: swap releases every island beside the outlet as *)
(* well, empties the outlet, fills it and hydrates the document; then the  *)
(* slots are pulled.  Without the end of the outlet the page is loaded     *)
(* anew, which is another document.                                        *)
Swap ==
  LET out      == Inside("page")
      into     == Pages[swaps + 1]
      released == (out \cup Inside("beside")) \cap Island
  IN  /\ going
      /\ arrived >= Outlet
      /\ going' = FALSE
      /\ swaps' = swaps + 1
      /\ dom' = (dom \ out) \cup into
      /\ island' = Hydrate(Release(island, released),
                           {e \in dom' \cap Island : Whole(e, arrived, ~ended)})
      /\ slot' = Pull(slot, dom')
      /\ stray' = stray \cup {e \in released :
                              \/ island[e].loads > 0
                              \/ e \in out /\ Strategy[e] = "idle" /\ island[e].callbacks > 0}
      /\ UNCHANGED <<arrived, ended, started>>
-----------------------------------------------------------------------------
Next ==
  \/ Arrive \/ Start \/ End \/ Go \/ Swap
  \/ \E e \in Island : Callback(e) \/ Loaded(e) \/ LoadFails(e)
  \/ \E s \in Slot : Draw(s) \/ Answered(s) \/ AnswerFails(s)

(* The document comes, the script runs, loads and requests end; what waits *)
(* to be seen may never be.                                                *)
Fairness ==
  /\ WF_vars(Arrive) /\ WF_vars(Start) /\ WF_vars(End) /\ WF_vars(Swap)
  /\ \A e \in Island :
       /\ WF_vars(Loaded(e) \/ LoadFails(e))
       /\ Strategy[e] # "visible" => WF_vars(Callback(e))
  /\ \A s \in Slot :
       /\ WF_vars(Answered(s) \/ AnswerFails(s))
       /\ Strategy[s] # "visible" => WF_vars(Draw(s))

Spec == Init /\ [][Next]_vars /\ Fairness
-----------------------------------------------------------------------------
Failed(i) == i.entry = "claimed" /\ i.loads = 0
Waits(e, observed) == Strategy[e] = "visible" /\ observed

(* An island runs once (runtime.test.ts, "mounts an island only once"),    *)
(* and is stopped when it leaves ("releases islands that leave with the    *)
(* old page").  A document comes to rest with every island alive, but      *)
(* those whose modules failed or that wait to be seen, and with every slot *)
(* drawn, marked as failed or abandoned by a navigation.                   *)
DocumentComesToLife ==
  /\ [](\A e \in Island \ stray :
          LET i == island[e]
          IN  /\ i.mounts + i.loads <= 1
              /\ i.mounts = 1 => e \in dom /\ i.entry = "mounted")
  /\ <>[]\A e \in dom :
          \/ e \in Island /\ (island[e].mounts > 0 \/ Failed(island[e]) \/ Waits(e, island[e].callbacks > 0))
          \/ e \in Slot /\ (slot[e] \in {"drawn", "failed", "abandoned"} \/ Waits(e, slot[e] = "awaited"))
=============================================================================
