----------------------------- MODULE Children ------------------------------
(***************************************************************************)
(* "gopage dev" and the applications it runs: each build starts a child,   *)
(* publishes it, and stops the one before the last (devBuild of            *)
(* cmd/gopage/main.go, internal/devserver/process.go); requests go to the  *)
(* child of the state they read, and GETs are tried again (ServeHTTP);     *)
(* a child serves until it is told to end or its parent is gone (serve.go).*)
(*                                                                         *)
(* Children are numbered by the builds that started them.  A stop is a     *)
(* SIGKILL and a Wait under the mutex, one step here.                      *)
(***************************************************************************)
EXTENDS Integers, FiniteSets

CONSTANTS MaxBuilds,   \* bound on the builds that start a child
          MaxLost,     \* bound on children that end by themselves
          Request      \* GETs and HEADs of visitors; others are not repeated

Child == 1..MaxBuilds
NoChild == 0

VARIABLES dev,               \* up, stopped by a signal, or gone
          builder,           \* [at, next]: of Rebuild
          running, retiring, \* of devBuild
          handler,           \* of the state requests read
          child,             \* [Child -> status]
          unaware,           \* children whose parent was gone when they looked
          lost,              \* children that ended by themselves
          request            \* [Request -> [at, handler, attempt, first]]

vars == <<dev, builder, running, retiring, handler, child, unaware, lost, request>>
-----------------------------------------------------------------------------
Retries == 3

Idle == [at |-> "idle", next |-> NoChild]
Away == [at |-> "away", handler |-> NoChild, attempt |-> 0, first |-> NoChild]

Alive(c) == c # NoChild /\ child[c] \in {"exec", "up", "closing"}

(* A child's end: what it had not begun to answer has failed, the rest of  *)
(* what it had begun is cut.                                               *)
Ends(asked, dead) ==
  [r \in Request |->
     IF asked[r].handler \notin dead THEN asked[r]
     ELSE IF asked[r].at = "inside" THEN [asked[r] EXCEPT !.at = "error"]
     ELSE IF asked[r].at = "answering" THEN [asked[r] EXCEPT !.at = "cut"]
     ELSE asked[r]]

(* App.Stop: nothing for none and for one that is gone.                    *)
Killed(children, dead) == [c \in Child |-> IF c \in dead THEN "dead" ELSE children[c]]

Init ==
  /\ dev = "up"
  /\ builder = Idle
  /\ running = NoChild /\ retiring = NoChild /\ handler = NoChild
  /\ child = [c \in Child |-> "none"]
  /\ unaware = {} /\ lost = {}
  /\ request = [r \in Request |-> Away]
-----------------------------------------------------------------------------
(* The builder: a build that came to a binary starts it and waits until it *)
(* listens, for Launch.Timeout at most.                                    *)
Launch ==
  /\ dev # "gone" /\ builder = Idle
  /\ \E c \in Child :
       /\ child[c] = "none" /\ \A b \in Child : b < c => child[b] # "none"
       /\ builder' = [at |-> "waiting", next |-> c]
       /\ child' = [child EXCEPT ![c] = "exec"]
  /\ UNCHANGED <<dev, running, retiring, handler, unaware, lost, request>>

GivesUp ==
  /\ dev # "gone" /\ builder.at = "waiting" /\ child[builder.next] # "up"
  /\ builder' = Idle
  /\ child' = Killed(child, {builder.next})
  /\ UNCHANGED <<dev, running, retiring, handler, unaware, lost, request>>

Listens ==
  /\ dev # "gone" /\ builder.at = "waiting" /\ child[builder.next] = "up"
  /\ builder' = [builder EXCEPT !.at = "started"]
  /\ UNCHANGED <<dev, running, retiring, handler, child, unaware, lost, request>>

(* Mutant: the one to retire is forgotten, not stopped.                    *)
RotateOnly ==
  /\ dev # "gone" /\ builder.at = "started"
  /\ child' = child
  /\ request' = request
  /\ retiring' = running /\ running' = builder.next
  /\ builder' = [builder EXCEPT !.at = "rotated"]
  /\ UNCHANGED <<dev, handler, unaware, lost>>

Rotate ==
  /\ dev # "gone" /\ builder.at = "started"
  /\ child' = Killed(child, {retiring} \ {NoChild})
  /\ request' = Ends(request, {retiring} \ {NoChild})
  /\ retiring' = running /\ running' = builder.next
  /\ builder' = [builder EXCEPT !.at = "rotated"]
  /\ UNCHANGED <<dev, handler, unaware, lost>>

Publish ==
  /\ dev # "gone" /\ builder.at = "rotated"
  /\ handler' = builder.next
  /\ builder' = Idle
  /\ UNCHANGED <<dev, running, retiring, child, unaware, lost, request>>

(* A signal: stop, and os.Exit after it.                                   *)
Stop ==
  /\ dev = "up"
  /\ dev' = "stopped"
  /\ child' = Killed(child, {running, retiring} \ {NoChild})
  /\ request' = Ends(request, {running, retiring} \ {NoChild})
  /\ UNCHANGED <<builder, running, retiring, handler, unaware, lost>>

Exit ==
  /\ dev = "stopped"
  /\ dev' = "gone"
  /\ request' = [r \in Request |-> IF request[r].at = "away" THEN Away ELSE [request[r] EXCEPT !.at = "cut"]]
  /\ UNCHANGED <<builder, running, retiring, handler, child, unaware, lost>>
-----------------------------------------------------------------------------
(* A child: watchParent reads its parent, then it listens; it ends when it *)
(* is told to, when the parent has changed, or on its own account.         *)
Boot(c) ==
  /\ child[c] = "exec"
  /\ child' = [child EXCEPT ![c] = "up"]
  /\ unaware' = IF dev = "gone" THEN unaware \cup {c} ELSE unaware
  /\ UNCHANGED <<dev, builder, running, retiring, handler, lost, request>>

Orphaned(c) == child[c] = "up" /\ dev = "gone" /\ c \notin unaware

(* ServeTLS: shutdown lets no more in.                                     *)
Leave(c) ==
  /\ Orphaned(c)
  /\ child' = [child EXCEPT ![c] = "closing"]
  /\ UNCHANGED <<dev, builder, running, retiring, handler, unaware, lost, request>>

Told(c) ==
  /\ child[c] = "up" /\ Cardinality(lost) < MaxLost
  /\ lost' = lost \cup {c}
  /\ child' = [child EXCEPT ![c] = "closing"]
  /\ UNCHANGED <<dev, builder, running, retiring, handler, unaware, request>>

(* shutdown: at once when no request is inside, or after GraceTimeout with *)
(* Close.                                                                  *)
Closed(c) ==
  /\ child[c] = "closing"
  /\ child' = Killed(child, {c})
  /\ request' = Ends(request, {c})
  /\ UNCHANGED <<dev, builder, running, retiring, handler, unaware, lost>>

Crash(c) ==
  /\ child[c] \in {"exec", "up"} /\ Cardinality(lost) < MaxLost
  /\ lost' = lost \cup {c}
  /\ child' = Killed(child, {c})
  /\ request' = Ends(request, {c})
  /\ UNCHANGED <<dev, builder, running, retiring, handler, unaware>>
-----------------------------------------------------------------------------
Asks(r, next) == request' = [request EXCEPT ![r] = next]
                 /\ UNCHANGED <<dev, builder, running, retiring, handler, child, unaware, lost>>

(* Server.ServeHTTP; without a handler there is the overlay.               *)
Arrive(r) ==
  /\ dev = "up" /\ request[r].at = "away" /\ handler # NoChild
  /\ Asks(r, [at |-> "holding", handler |-> handler, attempt |-> 0, first |-> handler])

Dial(r) ==
  /\ dev # "gone" /\ request[r].at = "holding"
  /\ Asks(r, [request[r] EXCEPT !.at = IF child[request[r].handler] = "up" THEN "inside" ELSE "error"])

Begin(r) ==
  /\ request[r].at = "inside"
  /\ Asks(r, [request[r] EXCEPT !.at = "answering"])

Answered(r) ==
  /\ request[r].at = "answering"
  /\ Asks(r, [request[r] EXCEPT !.at = "answered"])

(* Mutant: it is tried again at the handler it held.                       *)
AgainThere(r) ==
  /\ dev # "gone" /\ request[r].at = "error"
  /\ Asks(r, IF request[r].attempt = Retries THEN [request[r] EXCEPT !.at = "failed"]
             ELSE [request[r] EXCEPT !.at = "holding", !.attempt = @ + 1])

(* The error handler, and the loop around it with its Backoff.             *)
Again(r) ==
  /\ dev # "gone" /\ request[r].at = "error"
  /\ Asks(r, IF request[r].attempt = Retries THEN [request[r] EXCEPT !.at = "failed"]
             ELSE [request[r] EXCEPT !.at = "holding", !.attempt = @ + 1, !.handler = handler])

ChildNext(c) == Boot(c) \/ Leave(c) \/ Closed(c)

Next ==
  \/ Launch \/ GivesUp \/ Listens \/ Rotate \/ Publish \/ Stop \/ Exit
  \/ \E c \in Child : ChildNext(c) \/ Told(c) \/ Crash(c)
  \/ \E r \in Request : Arrive(r) \/ Dial(r) \/ Begin(r) \/ Answered(r) \/ Again(r)

Spec == Init /\ [][Next]_vars

(* A process the system runs goes on; nothing makes a developer edit, a    *)
(* visitor come, a signal fall or a child end.                             *)
Proceeds == GivesUp \/ Listens \/ Rotate \/ Publish \/ Exit
FairSpec == Spec /\ WF_vars(Proceeds) /\ \A c \in Child : WF_vars(ChildNext(c))
-----------------------------------------------------------------------------
(* A GET is refused only when every attempt met a child that had gone: one *)
(* that ended by itself, or, for each attempt, another rebuild that        *)
(* retired the child the attempt had just read (the retries of ServeHTTP   *)
(* against the rotation of devBuild).                                      *)
RebuildsLoseNoPage ==
  \A r \in Request : request[r].at = "failed" =>
    \/ lost \cap (request[r].first..request[r].handler) # {}
    \/ dev # "up"
    \/ \E c \in Child : child[c] # "none" /\ c >= request[r].first + Retries + 2

(* A child that is no longer needed ends: one that was replaced twice,     *)
(* that never listened, or whose parent has gone, unless its parent had    *)
(* gone before it could look (Rotate, GivesUp, Stop, watchParent).         *)
LeftBehind(c) == Alive(c) /\ c \notin unaware /\ (dev = "gone" \/ c \notin {running, retiring, builder.next})

NoChildIsLeftBehind == \A c \in Child : LeftBehind(c) ~> ~Alive(c) \/ c \in unaware
=============================================================================
