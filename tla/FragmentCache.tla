--------------------------- MODULE FragmentCache ---------------------------
(***************************************************************************)
(* Cached fragments, {% fragment "x" cache="5m" stale="1h" %}: the key a   *)
(* render computes for one, Load and Save of internal/server/fragment.go   *)
(* over the store AbstractCache promises, by concurrent requests.  Save    *)
(* happens at the end of the fragment's render, outside any flight.        *)
(*                                                                         *)
(* What a render yields is taken as the record of all that went into it:   *)
(* the template, the locale and the props the fragment reads.  Props are   *)
(* of two sorts, scalars and lists.  A visit is a request for one fragment *)
(* with its props loaded; "private" says that a loader marked the answer   *)
(* as the visitor's own, "recorded" that it could: cachedRender,           *)
(* renderFresh and writeFragment give the context a recorder, streamPage   *)
(* and RenderFragment do not, and a loader then marks one nobody reads.    *)
(***************************************************************************)
EXTENDS AbstractCache

CONSTANTS Fragment,  \* records [name, template, reads, ttl, stale]
          Locale,
          Scalar,    \* values of a scalar prop
          List,      \* values of a list prop
          Visit,     \* records [fragment, locale, props, private, recorded]
          Request    \* goroutines serving a request

Props == [scalar : Scalar, list : List]

(* A visit has the fragment, locale and props of the site, and a fragment  *)
(* reads props and has a lifetime.                                         *)
SiteHasFragments ==
  /\ Visit \subseteq [fragment : Fragment, locale : Locale, props : Props,
                       private : BOOLEAN, recorded : BOOLEAN]
  /\ \A f \in Fragment : f.reads \subseteq {"scalar", "list"}
                          /\ [ttl |-> f.ttl, stale |-> f.stale] \in Policy

VARIABLES visit,    \* [Request -> Visit], what the request renders
          pc,       \* [Request -> step of the goroutine]
          answer    \* [Request -> the bytes it wrote for the fragment]

vars == <<entries, now, visit, pc, answer>>
-----------------------------------------------------------------------------
(* Value.Text of a prop, as far as it tells two values of a prop apart: a  *)
(* sequence has no text.                                                   *)
NoText == "no text"
Text(sort, value) == IF sort = "scalar" THEN value ELSE NoText

(* Mutant: the key leaves out the locale.                                  *)
KeyWithoutLocale(v) ==
  [name |-> v.fragment.name, locale |-> "any",
   reads |-> [p \in v.fragment.reads |-> Text(p, v.props[p])]]

KeyOf(v) ==
  [name   |-> v.fragment.name,
   locale |-> v.locale,
   reads  |-> [p \in v.fragment.reads |-> Text(p, v.props[p])]]

Bytes(v) ==
  [template |-> v.fragment.template,
   locale   |-> v.locale,
   reads    |-> [p \in v.fragment.reads |-> v.props[p]]]

NoBytes == [template |-> "none"]

(* The recorder of the hook, asked at Save.                                *)
Shared(v) == ~(v.private /\ v.recorded)

CacheableFragment(f) == f.ttl > 0
-----------------------------------------------------------------------------
Init ==
  /\ AbsInit
  /\ \E v \in Visit : visit = [r \in Request |-> v]
  /\ pc = [r \in Request |-> "idle"]
  /\ answer = [r \in Request |-> NoBytes]

(* The clock and the byte pressure of other entries.                       *)
Time == Pass /\ UNCHANGED <<visit, pc, answer>>

Evict(k) ==
  /\ k \in DOMAIN entries
  /\ Remove({k})
  /\ UNCHANGED <<visit, pc, answer>>

(* A request arrives with its loaders done and reaches the fragment; a     *)
(* goroutine serves one request after another.                             *)
Arrive(r, v) ==
  /\ pc[r] = "idle"
  /\ visit' = [visit EXCEPT ![r] = v]
  /\ answer' = [answer EXCEPT ![r] = NoBytes]
  /\ pc' = [pc EXCEPT ![r] = IF CacheableFragment(v.fragment) THEN "load" ELSE "render"]
  /\ UNCHANGED absVars

(* openFragment: Load is a Peek, for which a stale entry is none.          *)
LoadHit(r) ==
  LET k == KeyOf(visit[r])
  IN  /\ pc[r] = "load"
      /\ k \in DOMAIN entries
      /\ now <= entries[k].fresh
      /\ answer' = [answer EXCEPT ![r] = entries[k].value]
      /\ pc' = [pc EXCEPT ![r] = "idle"]
      /\ UNCHANGED <<entries, now, visit>>

LoadMiss(r) ==
  LET k == KeyOf(visit[r])
  IN  /\ pc[r] = "load"
      /\ k \in DOMAIN entries => now > entries[k].fresh
      /\ IF k \in DOMAIN entries /\ now > entries[k].expires
         THEN Remove({k}) ELSE UNCHANGED absVars
      /\ pc' = [pc EXCEPT ![r] = "render"]
      /\ UNCHANGED <<visit, answer>>

(* A step of the body fails: nothing is saved, the page is an error page.  *)
RenderFails(r) ==
  /\ pc[r] = "render"
  /\ pc' = [pc EXCEPT ![r] = "idle"]
  /\ UNCHANGED <<entries, now, visit, answer>>

(* Mutant: Save does not ask the recorder.                                 *)
RenderAlwaysSaved(r) ==
  LET v == visit[r]
      f == v.fragment
  IN  /\ pc[r] = "render"
      /\ answer' = [answer EXCEPT ![r] = Bytes(v)]
      /\ pc' = [pc EXCEPT ![r] = "idle"]
      /\ IF CacheableFragment(f)
         THEN Put(KeyOf(v), Bytes(v), [ttl |-> f.ttl, stale |-> f.stale])
              \/ Remove({KeyOf(v)})
         ELSE UNCHANGED absVars
      /\ UNCHANGED visit

(* The end of the fragment: its bytes stand in the page, and Save keeps    *)
(* them unless the recorder is private; store may refuse them for their    *)
(* size, which drops what the key held.                                    *)
Render(r) ==
  LET v == visit[r]
      f == v.fragment
  IN  /\ pc[r] = "render"
      /\ answer' = [answer EXCEPT ![r] = Bytes(v)]
      /\ pc' = [pc EXCEPT ![r] = "idle"]
      /\ IF CacheableFragment(f) /\ Shared(v)
         THEN Put(KeyOf(v), Bytes(v), [ttl |-> f.ttl, stale |-> f.stale])
              \/ Remove({KeyOf(v)})
         ELSE UNCHANGED absVars
      /\ UNCHANGED visit
-----------------------------------------------------------------------------
Next ==
  \/ Time
  \/ \E k \in DOMAIN entries : Evict(k)
  \/ \E r \in Request, v \in Visit : Arrive(r, v)
  \/ \E r \in Request : LoadHit(r) \/ LoadMiss(r) \/ RenderFails(r) \/ Render(r)

Spec == Init /\ [][Next]_vars
-----------------------------------------------------------------------------
(* Two visits the code cannot tell apart at a fragment: its name, the      *)
(* locale and the scalars it reads are equal; the lists and the template   *)
(* may differ.                                                             *)
Alike(v, w) ==
  /\ v.fragment.name = w.fragment.name
  /\ v.locale = w.locale
  /\ v.fragment.reads = w.fragment.reads
  /\ "scalar" \in v.fragment.reads => v.props.scalar = w.props.scalar

(* The bytes a request gets for a fragment are those of a visit alike,     *)
(* whichever request rendered them and when: the key tells apart all but   *)
(* lists and templates of one name (docs/errors/C314.md warns of these:    *)
(* "the second would silently serve the first one's bytes").               *)
ServesTheAlike ==
  \A r \in Request : answer[r] # NoBytes =>
    \E v \in Visit : Alike(v, visit[r]) /\ answer[r] = Bytes(v)

(* Among visits alike a request gets what is not its own only from one     *)
(* whose loaders left the answer shared, or whose mark nobody could read:  *)
(* what a private render yields reaches its own visitor alone, whatever    *)
(* the key confuses (TestAPrivatePageNeverFillsTheFragmentCache).          *)
PrivateBytesStayOnes ==
  \A r \in Request : answer[r] \notin {NoBytes, Bytes(visit[r])} =>
    \E v \in Visit : answer[r] = Bytes(v) /\ Shared(v)

(* Nothing is kept from a private render (TestAPrivatePageNeverFillsThe-   *)
(* FragmentCache): an entry appears or is renewed only by the render of a  *)
(* request whose loaders left the answer shared.                           *)
KeepsWhatIsShared ==
  \A k \in DOMAIN entries' :
    (k \notin DOMAIN entries \/ entries'[k] # entries[k]) =>
      \E r \in Request : /\ pc[r] = "render"
                         /\ pc'[r] = "idle"
                         /\ KeyOf(visit[r]) = k
                         /\ ~visit[r].private

PrivateRendersLeaveNoEntry == [][KeepsWhatIsShared]_vars
=============================================================================
