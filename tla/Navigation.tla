----------------------------- MODULE Navigation -----------------------------
(***************************************************************************)
(* Partial navigation, internal/bundle/runtime.ts: clicks and history      *)
(* moves over the browser's address and session history, the request for   *)
(* the part of the document that changed, and the swap of that part.       *)
(*                                                                         *)
(* The visitor acts between any two steps of "go", which waits for the     *)
(* answer and then for its text.  The server compares the layouts of the   *)
(* page named in the partial header with those of the page asked for       *)
(* (internal/server/partial.go) and sends the rest; it may also redirect   *)
(* to one page, "Elsewhere", or not answer with a partial at all, and then *)
(* the browser loads the address anew.  A load is a single step: the       *)
(* runtime starts over in a new document.                                  *)
(*                                                                         *)
(* Two variables are read by the properties only: "event", the page that   *)
(* gopage:navigated named as the one left, kept until the next navigation  *)
(* begins; and "astray", which marks what the code does                    *)
(* not reconcile: a click while a history move was under way, and a        *)
(* history move that ended elsewhere than where the browser is, because it *)
(* was redirected or because the visitor had returned meanwhile.           *)
(* Hashes and scroll positions are left out, islands and slots are in      *)
(* Islands, and pushState, which browsers may refuse, succeeds.            *)
(***************************************************************************)
EXTENDS Integers, Sequences

CONSTANTS Page,          \* addresses the router knows
          Layout,        \* the layouts of its pages
          LayoutChain,   \* [Page -> sequence of layouts, outermost first]
          Elsewhere,     \* the page a request may be redirected to
          MaxHistory,    \* bound on the session history
          MaxGeneration  \* bound on the navigations of one document

S == INSTANCE SequencesExt

ASSUME PageAssumption == Elsewhere \in Page
ASSUME ChainAssumption == LayoutChain \in [Page -> Seq(Layout)]
ASSUME BoundsAssumption == MaxHistory \in Nat \ {0} /\ MaxGeneration \in Nat

VARIABLES history,     \* the session history: addresses, and the document
                       \* each entry belongs to
          pos,         \* where the browser is in it
          document,    \* the layouts and the page in the document
          settled,     \* the address the document was made for
          generation,  \* the number of the last navigation
          flights,     \* calls of go that have yet to end
          busy,        \* aria-busy, and pending: a navigation is under way
          event,
          astray

vars == <<history, pos, document, settled, generation, flights, busy, event, astray>>
-----------------------------------------------------------------------------
Here == history[pos].address

Render(p) == [chain |-> LayoutChain[p], page |-> p]

(* sharedLevel: how many layouts two pages have in common, from the        *)
(* outermost.                                                              *)
SharedLevel(from, target) == Len(S!LongestCommonPrefix({LayoutChain[from], LayoutChain[target]}))

Flight(mine, href, push, came) ==
  [mine |-> mine, href |-> href, push |-> push, came |-> came,
   stage |-> "asked", target |-> href, level |-> 0]

Init ==
  /\ \E p \in Page :
       /\ history = <<[address |-> p, document |-> 1]>>
       /\ document = Render(p)
       /\ settled = p
  /\ pos = 1
  /\ generation = 0
  /\ flights = {}
  /\ busy = FALSE
  /\ event = Elsewhere
  /\ astray = FALSE
-----------------------------------------------------------------------------
(* A document is loaded for an entry: the runtime starts anew.             *)
Load(entries, i) ==
  /\ history' = entries
  /\ pos' = i
  /\ document' = Render(entries[i].address)
  /\ settled' = entries[i].address
  /\ generation' = 0
  /\ flights' = {}
  /\ busy' = FALSE
  /\ event' = Elsewhere
  /\ astray' = FALSE

NewDocument == CHOOSE d \in 1..(MaxHistory + 1) : \A i \in DOMAIN history : history[i].document # d

(* location.href = href: an address the browser is at is replaced.         *)
LoadAddress(href) ==
  \E target \in {href, Elsewhere} :
    LET entry == [address |-> target, document |-> NewDocument]
    IN  IF href = Here
        THEN Load([history EXCEPT ![pos] = entry], pos)
        ELSE Load(Append(SubSeq(history, 1, pos), entry), pos + 1)

(* The visitor reloads: the document stays that of its entries.            *)
Reload ==
  \E target \in {Here, Elsewhere} : Load([history EXCEPT ![pos].address = target], pos)

Go(href, push, came) ==
  /\ generation < MaxGeneration
  /\ generation' = generation + 1
  /\ flights' = flights \cup {Flight(generation + 1, href, push, came)}
  /\ busy' = TRUE
  /\ event' = Elsewhere

(* A link, to another address than here.                                   *)
Click(href) ==
  /\ href # Here
  /\ pos < MaxHistory
  /\ Go(href, TRUE, Here)
  /\ astray' = (astray \/ Here # settled)
  /\ UNCHANGED <<history, pos, document, settled>>

(* Mutant: the server is told where the browser is by now.                 *)
PopFromHere(i) ==
  /\ history[i].document = history[pos].document
  /\ history[i].address # settled
  /\ pos' = i
  /\ Go(history[i].address, FALSE, history[i].address)
  /\ UNCHANGED <<history, document, settled, astray>>

(* Back and forward: to an entry of this document, which has another       *)
(* address or, as far as the runtime can tell, the one it is at; and to    *)
(* one of another document.                                                *)
Pop(i) ==
  /\ history[i].document = history[pos].document
  /\ history[i].address # settled
  /\ pos' = i
  /\ Go(history[i].address, FALSE, settled)
  /\ UNCHANGED <<history, document, settled, astray>>

PopIgnored(i) ==
  /\ history[i].document = history[pos].document
  /\ history[i].address = settled
  /\ busy => i < MaxHistory
  /\ pos' = i
  /\ UNCHANGED <<history, document, settled, generation, flights, busy, event, astray>>

PopElsewhere(i) ==
  /\ history[i].document # history[pos].document
  /\ Load(history, i)
-----------------------------------------------------------------------------
(* The end of a navigation that was superseded: it was aborted, or finds   *)
(* after an await that it is not the last.                                 *)
Drop(f) ==
  /\ f.mine # generation
  /\ flights' = flights \ {f}
  /\ UNCHANGED <<history, pos, document, settled, generation, busy, event, astray>>

(* The headers of a partial answer arrive.                                 *)
Answer(f) ==
  \E target \in {f.href, Elsewhere} :
    LET level == SharedLevel(f.came, target)
    IN  /\ f.stage = "asked"
        /\ f.mine = generation
        /\ level > 0
        /\ flights' = (flights \ {f}) \cup
             {[f EXCEPT !.stage = "read", !.target = target, !.level = level]}
        /\ UNCHANGED <<history, pos, document, settled, generation, busy, event, astray>>

(* swap has an outlet for the level when the document has that many        *)
(* layouts, whichever they are.                                            *)
HasOutlet(level) == level <= Len(document.chain)

Swapped(level, target) ==
  [chain |-> SubSeq(document.chain, 1, level)
               \o SubSeq(LayoutChain[target], level + 1, Len(LayoutChain[target])),
   page  |-> target]

(* Mutants: an answer is taken after another navigation began; every       *)
(* arrival is pushed.                                                      *)
ArriveAnyway(f) ==
  /\ f.stage = "read"
  /\ HasOutlet(f.level)
  /\ document' = Swapped(f.level, f.target)
  /\ settled' = f.target
  /\ IF f.push
     THEN /\ history' = Append(SubSeq(history, 1, pos),
                               [address |-> f.target, document |-> history[pos].document])
          /\ pos' = pos + 1
     ELSE UNCHANGED <<history, pos>>
  /\ flights' = flights \ {f}
  /\ busy' = (busy /\ f.mine # generation)
  /\ event' = f.came
  /\ UNCHANGED <<generation, astray>>

ArrivePushing(f) ==
  /\ f.stage = "read"
  /\ f.mine = generation
  /\ HasOutlet(f.level)
  /\ document' = Swapped(f.level, f.target)
  /\ settled' = f.target
  /\ history' = Append(SubSeq(history, 1, pos),
                       [address |-> f.target, document |-> history[pos].document])
  /\ pos' = pos + 1
  /\ flights' = flights \ {f}
  /\ busy' = FALSE
  /\ event' = f.came
  /\ UNCHANGED <<generation, astray>>

(* The text arrives: the part is swapped, a click becomes an entry of the  *)
(* history, and the event is sent, all without an await.                   *)
Arrive(f) ==
  /\ f.stage = "read"
  /\ f.mine = generation
  /\ HasOutlet(f.level)
  /\ document' = Swapped(f.level, f.target)
  /\ settled' = f.target
  /\ IF f.push
     THEN /\ history' = Append(SubSeq(history, 1, pos),
                               [address |-> f.target, document |-> history[pos].document])
          /\ pos' = pos + 1
     ELSE UNCHANGED <<history, pos>>
  /\ flights' = flights \ {f}
  /\ busy' = FALSE
  /\ event' = f.came
  /\ astray' = (astray \/ (~f.push /\ f.target # Here))
  /\ UNCHANGED generation

(* Mutant: an answer that is no partial ends the navigation and no more.   *)
FailSilently(f) ==
  /\ f.mine = generation
  /\ flights' = flights \ {f}
  /\ UNCHANGED <<history, pos, document, settled, generation, busy, event, astray>>

(* No answer, one that is not a partial, no text, or no outlet for it: the *)
(* browser loads the address.                                              *)
Fail(f) ==
  /\ f.mine = generation
  /\ LoadAddress(f.href)
-----------------------------------------------------------------------------
End(f) == Arrive(f) \/ Fail(f) \/ Drop(f)

Next ==
  \/ Reload
  \/ \E p \in Page : Click(p)
  \/ \E i \in DOMAIN history \ {pos} : Pop(i) \/ PopIgnored(i) \/ PopElsewhere(i)
  \/ \E f \in flights : Answer(f) \/ End(f)

(* Requests are answered or fail.  Nobody has to click.                    *)
Fairness == WF_vars(\E f \in flights : Answer(f) \/ End(f))

Spec == Init /\ [][Next]_vars
FairSpec == Spec /\ Fairness
-----------------------------------------------------------------------------
(* When no navigation is under way the document is the one a load of the   *)
(* address would give: page and layouts, whatever was swapped on the way,  *)
(* in whatever order answers came and failed, unless the code went astray. *)
DocumentIsTheAddress ==
  ~busy /\ ~astray => document = Render(Here) /\ settled = Here

(* While a document lives, nothing but the end of the last navigation      *)
(* begun changes what it shows: answers to earlier ones come too late.  It *)
(* announces what was shown until then (README.md, Partial navigation:     *)
(* "the address it arrived at, the one it came from").                     *)
LastNavigationWins ==
  [][generation > 0 /\ generation' = generation /\ document' # document =>
       /\ \E f \in flights : f.mine = generation /\ f \notin flights'
       /\ ~astray => event' = document.page]_vars

(* Only a click adds to the history, and the way back from what it adds is *)
(* to the page the visitor clicked on.                                     *)
BackLeadsBack ==
  [][~astray /\ pos' = pos + 1 /\ document' # document
       /\ history'[pos'].document = history[pos].document /\ history' # history =>
       /\ history'[pos].address = document.page
       /\ \E f \in flights : f.mine = generation /\ f.push]_vars

(* Every navigation comes to an end.                                       *)
EveryNavigationEnds == busy ~> ~busy
=============================================================================
