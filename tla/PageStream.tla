----------------------------- MODULE PageStream -----------------------------
(***************************************************************************)
(* A page with deferred fragments, rendered by concurrent requests: the    *)
(* loaders that run beside the render, runRange of internal/runtime over   *)
(* the page's operations, the flushes of the response, the slots left for  *)
(* loaders that are late, and the tail that fills them (internal/server/-  *)
(* stream.go).  Cached fragments are kept in the store AbstractCache       *)
(* promises.  A request takes one of two ways: "stream", streamPage, or    *)
(* "buffered", renderFresh with App.resolved, which waits for all loaders  *)
(* and sends the body when it is complete.                                 *)
(*                                                                         *)
(* The output is a sequence of pieces, named after what they show; data    *)
(* say whose loader they come from.  A fragment's end is the position of   *)
(* the operation after it.  Placeholders are taken as part of their slot,   *)
(* and the layouts around a page as more operations.                       *)
(***************************************************************************)
EXTENDS AbstractCache, Integers, Sequences

CONSTANTS Request,  \* goroutines serving the page
          Ops,      \* the page, a sequence of operations
          Deferral, \* names of the deferred fragments
          Budget,   \* fragments.budget: "none", "some" or "unlimited"
          Nobody    \* owner of data that are not there

Seqs == INSTANCE SequencesExt

Fragments == {i \in DOMAIN Ops : Ops[i].op = "fragment"}
Texts     == {i \in DOMAIN Ops : Ops[i].op = "text"}

(* The operations of a page: fragments nest, and go by their names (C314); *)
(* a text is named for where it stands.                                    *)
ASSUME PageAssumption == Ops \in Seq({Ops[i] : i \in DOMAIN Ops})
ASSUME FragmentAssumption ==
  \A i \in Fragments :
    /\ Ops[i].end \in (i + 1)..(Len(Ops) + 1)
    /\ Ops[i].deferred \in BOOLEAN /\ Ops[i].cached \in BOOLEAN
    /\ Ops[i].deferred => Ops[i].name \in Deferral
ASSUME NestingAssumption ==
  \A i, j \in Fragments : i < j /\ j < Ops[i].end => Ops[j].end <= Ops[i].end
ASSUME NamesAssumption ==
  /\ \A i, j \in Fragments : Ops[i].name = Ops[j].name => i = j
  /\ \A i, j \in Texts : Ops[i].name = Ops[j].name => i = j

Piece(kind, of, by) == [kind |-> kind, of |-> of, by |-> by]

VARIABLE req        \* [Request -> state of the request]

vars == <<entries, now, req>>
-----------------------------------------------------------------------------
FragmentOf(name) == CHOOSE i \in Fragments : Ops[i].name = name

Started(path) ==
  [path    |-> path,
   stage   |-> "render",
   pc      |-> 1,
   frames  |-> <<>>,
   loader  |-> [n \in Deferral |-> "running"],
   slotted |-> <<>>,
   turn    |-> 1,
   out     |-> <<>>,
   sent    |-> <<>>,
   gone    |-> FALSE]

Init ==
  /\ AbsInit
  /\ \E path \in [Request -> {"stream", "buffered"}] :
       req = [r \in Request |-> Started(path[r])]

Become(r, s) == req' = [req EXCEPT ![r] = s] /\ UNCHANGED absVars

Emit(s, pieces) == [s EXCEPT !.out = @ \o pieces]

(* Frames: what runRange has open, innermost last.  A cached fragment is   *)
(* recorded from "start" on; an inlined one has its data in scope.         *)
Recording(s) == \E i \in DOMAIN s.frames : s.frames[i].kind = "cached"

InScope(s) ==
  {s.frames[i].name : i \in {j \in DOMAIN s.frames : s.frames[j].kind = "inline"}}
    \cup (IF s.stage = "body" THEN {s.slotted[s.turn]} ELSE {})

Due(s) == s.frames # <<>> /\ s.pc >= Seqs!Last(s.frames).end

(* Mutant: what was written stays in the buffer.                           *)
FlushCopying(s) ==
  IF s.path = "stream" /\ ~s.gone THEN [s EXCEPT !.sent = @ \o s.out] ELSE s

(* sink.flush; a write that fails keeps the buffer.  The buffered way has  *)
(* no flush.                                                               *)
Flush(s) ==
  IF s.path = "stream" /\ ~s.gone
  THEN [s EXCEPT !.sent = @ \o s.out, !.out = <<>>] ELSE s

(* Mutant: flush while a fragment is recorded.                             *)
FlushAlways(s) == Flush(s)

FlushUnlessRecording(s) == IF Recording(s) THEN s ELSE Flush(s)
-----------------------------------------------------------------------------
(* A deferred loader returns, with its data or an error, or panics.        *)
LoaderEnds(r, n) ==
  /\ req[r].loader[n] = "running"
  /\ \E outcome \in {"ok", "failed"} :
       Become(r, [req[r] EXCEPT !.loader[n] = outcome])

(* The client closes the connection.                                       *)
Hangup(r) ==
  /\ req[r].stage \in {"render", "settle", "tail", "body"}
  /\ ~req[r].gone
  /\ Become(r, [req[r] EXCEPT !.gone = TRUE])

Running(s) == s.stage \in {"render", "body"}
End(s) == IF s.stage = "body" THEN Ops[FragmentOf(s.slotted[s.turn])].end ELSE Len(Ops) + 1
At(s, op) == Running(s) /\ ~Due(s) /\ s.pc < End(s) /\ Ops[s.pc].op = op

Text(r) ==
  LET s == req[r]
  IN  /\ At(s, "text")
      /\ Become(r, [Emit(s, <<Piece("text", Ops[s.pc].name, Nobody)>>) EXCEPT !.pc = @ + 1])

Data(r) ==
  LET s == req[r]
      n == Ops[s.pc].name
  IN  /\ At(s, "data")
      /\ Become(r, [Emit(s, <<Piece("data", n, IF n \in InScope(s) THEN r ELSE Nobody)>>)
                      EXCEPT !.pc = @ + 1])

(* runRange returns an error: streamPage returns with the document as far  *)
(* as it was sent, the tail closes the template, renderFresh answers with  *)
(* the error page.                                                         *)
Broken(s) == [s EXCEPT !.stage = "broken", !.frames = <<>>]

DataFails(r) ==
  LET s == req[r]
  IN  /\ At(s, "data")
      /\ Become(r, IF s.stage = "body"
                   THEN [Flush(Emit(s, <<Piece("close", s.slotted[s.turn], Nobody)>>))
                           EXCEPT !.stage = "tail", !.turn = @ + 1, !.frames = <<>>]
                   ELSE Broken(s))
-----------------------------------------------------------------------------
(* OpFragment.  The tail renders a fragment without the deferred hook: one *)
(* inside it is then like any other.                                       *)
Hooked(s) == s.stage = "render" /\ Ops[s.pc].deferred

Enter(r) ==
  LET s == req[r]
  IN  /\ At(s, "fragment")
      /\ ~Hooked(s)
      /\ ~Ops[s.pc].cached
      /\ Become(r, [s EXCEPT !.pc = @ + 1])

LoadHit(r) ==
  LET s == req[r]
      op == Ops[s.pc]
  IN  /\ At(s, "fragment")
      /\ ~Hooked(s)
      /\ op.cached
      /\ op.name \in DOMAIN entries
      /\ Become(r, [Emit(s, entries[op.name].value) EXCEPT !.pc = op.end])

LoadMiss(r) ==
  LET s == req[r]
      op == Ops[s.pc]
  IN  /\ At(s, "fragment")
      /\ ~Hooked(s)
      /\ op.cached
      /\ op.name \notin DOMAIN entries
      /\ Become(r, [s EXCEPT !.pc = @ + 1,
                             !.frames = Append(@, [kind |-> "cached", name |-> op.name,
                                                   end |-> op.end, start |-> Len(s.out)])])

(* The end of a cached fragment: Save, which the store may refuse.         *)
Save(r) ==
  LET s == req[r]
      f == Seqs!Last(s.frames)
  IN  /\ Running(s)
      /\ Due(s)
      /\ f.kind = "cached"
      /\ \/ \E p \in Policy : Put(f.name, SubSeq(s.out, f.start + 1, Len(s.out)), p)
         \/ Remove({f.name})
      /\ req' = [req EXCEPT ![r].frames = Seqs!Front(@)]

Evict(n) ==
  /\ n \in DOMAIN entries
  /\ Remove({n})
  /\ UNCHANGED req
-----------------------------------------------------------------------------
(* A deferred fragment: what is above it is sent, then its loader is given *)
(* the budget.                                                             *)
Reach(r) ==
  LET s == req[r]
  IN  /\ At(s, "fragment")
      /\ Hooked(s)
      /\ Become(r, [FlushUnlessRecording(s) EXCEPT !.stage = "settle"])

(* Settle finds the loader done, and Await gives its data or its error.    *)
Inline(r) ==
  LET s == req[r]
      op == Ops[s.pc]
  IN  /\ s.stage = "settle"
      /\ s.loader[op.name] = "ok"
      /\ Become(r, [s EXCEPT !.stage = "render", !.pc = @ + 1,
                             !.frames = Append(@, [kind |-> "inline", name |-> op.name,
                                                   end |-> op.end, start |-> 0])])

InlineFails(r) ==
  LET s == req[r]
  IN  /\ s.stage = "settle"
      /\ s.loader[Ops[s.pc].name] = "failed"
      /\ Become(r, Broken(s))

(* Settle gives up: without a budget because the loader runs, with one     *)
(* because the timer fired, which select may prefer to a loader just done. *)
GivesUp(s) ==
  /\ s.path = "stream"
  /\ \/ Budget = "none" /\ s.loader[Ops[s.pc].name] = "running"
     \/ Budget = "some"

Slot(r) ==
  LET s == req[r]
      op == Ops[s.pc]
  IN  /\ s.stage = "settle"
      /\ GivesUp(s)
      /\ Become(r, [Emit(s, <<Piece("slot", op.name, Nobody)>>)
                      EXCEPT !.stage = "render", !.pc = op.end,
                             !.slotted = IF Seqs!Contains(@, op.name) THEN @
                                         ELSE Append(@, op.name)])

(* The end of an inlined fragment.                                         *)
Inlined(r) ==
  LET s == req[r]
  IN  /\ Running(s)
      /\ Due(s)
      /\ Seqs!Last(s.frames).kind = "inline"
      /\ Become(r, FlushUnlessRecording([s EXCEPT !.frames = Seqs!Front(@)]))
-----------------------------------------------------------------------------
(* The end of the page: the buffered body is written, or the tail begins.  *)
Rendered(r) ==
  LET s == req[r]
  IN  /\ s.stage = "render"
      /\ s.frames = <<>>
      /\ s.pc = End(s)
      /\ Become(r, IF s.path = "stream" THEN [s EXCEPT !.stage = "tail"]
                   ELSE [s EXCEPT !.stage = "done", !.sent = s.out, !.out = <<>>])

(* writeTail: the slots in the order they were left.                       *)
Template(r) ==
  LET s == req[r]
      n == s.slotted[s.turn]
  IN  /\ s.stage = "tail"
      /\ s.turn <= Len(s.slotted)
      /\ s.loader[n] = "ok"
      /\ Become(r, [Emit(s, <<Piece("template", n, Nobody)>>)
                      EXCEPT !.stage = "body", !.pc = FragmentOf(n) + 1])

(* Mutant: the tail ends at the first loader that failed.                  *)
SkipAll(r) ==
  LET s == req[r]
  IN  /\ s.stage = "tail"
      /\ s.turn <= Len(s.slotted)
      /\ s.loader[s.slotted[s.turn]] = "failed"
      /\ Become(r, [s EXCEPT !.turn = Len(s.slotted) + 1])

(* Mutant: it is asked again.                                              *)
SkipNot(r) ==
  LET s == req[r]
  IN  /\ s.stage = "tail"
      /\ s.turn <= Len(s.slotted)
      /\ s.loader[s.slotted[s.turn]] = "failed"
      /\ Become(r, s)

Skip(r) ==
  LET s == req[r]
  IN  /\ s.stage = "tail"
      /\ s.turn <= Len(s.slotted)
      /\ s.loader[s.slotted[s.turn]] = "failed"
      /\ Become(r, [s EXCEPT !.turn = @ + 1])

Filled(r) ==
  LET s == req[r]
  IN  /\ s.stage = "body"
      /\ s.frames = <<>>
      /\ s.pc = End(s)
      /\ Become(r, [Flush(Emit(s, <<Piece("close", s.slotted[s.turn], Nobody)>>))
                      EXCEPT !.stage = "tail", !.turn = @ + 1])

TailEnds(r) ==
  LET s == req[r]
  IN  /\ s.stage = "tail"
      /\ s.turn > Len(s.slotted)
      /\ Become(r, [Flush(s) EXCEPT !.stage = "done"])
-----------------------------------------------------------------------------
Render(r) ==
  \/ Text(r) \/ Data(r) \/ DataFails(r)
  \/ Enter(r) \/ LoadHit(r) \/ LoadMiss(r) \/ Save(r)
  \/ Reach(r) \/ Inline(r) \/ InlineFails(r) \/ Slot(r) \/ Inlined(r)
  \/ Rendered(r) \/ Template(r) \/ Skip(r) \/ Filled(r) \/ TailEnds(r)

Next ==
  \/ \E r \in Request : Render(r) \/ Hangup(r)
  \/ \E r \in Request, n \in Deferral : LoaderEnds(r, n)
  \/ \E n \in Key : Evict(n)

(* Goroutines are scheduled and loaders return.                            *)
Fairness ==
  /\ \A r \in Request : WF_vars(Render(r))
  /\ \A r \in Request, n \in Deferral : WF_vars(LoaderEnds(r, n))

Spec == Init /\ [][Next]_vars
FairSpec == Spec /\ Fairness
-----------------------------------------------------------------------------
SlotsIn(pieces) == {pieces[i].of : i \in {j \in DOMAIN pieces : pieces[j].kind = "slot"}}

InsideSlot(i, slots) ==
  \E n \in slots : FragmentOf(n) < i /\ i < Ops[FragmentOf(n)].end

TextAt(name) == CHOOSE i \in Texts : Ops[i].name = name

(* What pieces show of a range of the page: its texts but for those in the *)
(* slots, each once and in the order of the page.                          *)
CarryTexts(pieces, from, to) ==
  LET texts == {k \in DOMAIN pieces : pieces[k].kind = "text"}
  IN  /\ {TextAt(pieces[k].of) : k \in texts} =
            {i \in Texts \cap from..(to - 1) : ~InsideSlot(i, SlotsIn(pieces))}
      /\ \A j, k \in texts : j < k => TextAt(pieces[j].of) < TextAt(pieces[k].of)

Has(pieces, kind, n) == \E i \in DOMAIN pieces : pieces[i].kind = kind /\ pieces[i].of = n

Document(pieces) ==
  LET cuts == {i \in DOMAIN pieces : pieces[i].kind = "template"}
  IN  IF cuts = {} THEN pieces ELSE SubSeq(pieces, 1, Seqs!Min(cuts) - 1)

(* A cached fragment holds its whole body in order and nothing of what     *)
(* surrounds it, however the response was flushed while it was recorded    *)
(* (TestI1ACachedFragmentSurvivesADeferredFlushInsideIt).                  *)
CachedFragmentIsWhole ==
  \A n \in DOMAIN entries :
    LET f == FragmentOf(n)
    IN  CarryTexts(entries[n].value, f + 1, Ops[f].end)

(* A response that is complete carries the page: every text once and in    *)
(* order, whether it was flushed early, loaded from the cache or inlined,  *)
(* and nothing of the tail before the end of the document.  Until then     *)
(* docs/errors/C318.md has it that the server "sends everything above" a   *)
(* deferred fragment before it waits for the loader, which it cannot       *)
(* inside a cached one.  What a fragment shows comes from the loader of    *)
(* the same request, and is there: "Inside the fragment that value reads   *)
(* exactly like a field of the props".                                     *)
ResponseIsThePage ==
  \A r \in Request :
    LET s == req[r]
        doc == Document(s.sent)
    IN  /\ s.stage = "done" /\ ~s.gone =>
             CarryTexts(doc, 1, Len(Ops) + 1)
        /\ s.stage = "settle" /\ s.path = "stream" /\ ~s.gone /\ ~Recording(s) => s.out = <<>>
        /\ \A i \in DOMAIN s.sent : s.sent[i].kind = "data" => s.sent[i].by = r

(* ARCHITECTURE.md, Fragments: a deferred fragment is "either inlined,     *)
(* flushed in the tail of the same response, or fetched".  When a response *)
(* is complete each slot in it has its template, unless its loader failed; *)
(* a buffered one has no slots (TestTheBufferedPathNeverLeavesASlot).      *)
SlotsAreFilled ==
  \A r \in Request :
    req[r].stage = "done" /\ ~req[r].gone =>
      \A n \in SlotsIn(req[r].sent) :
        /\ req[r].path = "stream"
        /\ req[r].loader[n] = "failed" \/ Has(req[r].sent, "template", n)

(* Every response ends.                                                    *)
EveryResponseEnds ==
  \A r \in Request : <>(req[r].stage \in {"done", "broken"})
=============================================================================
