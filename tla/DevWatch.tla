------------------------------ MODULE DevWatch ------------------------------
(***************************************************************************)
(* "gopage dev" from an edit to the browser: the first build, the watcher  *)
(* with its debounce timer and its channel of capacity one, the rebuild    *)
(* loop, the state every request reads, and the browsers that hold an      *)
(* event stream open to hear of a reload.                                  *)
(*                                                                         *)
(* The project is a version number, one more at every edit.  A build reads *)
(* it once, at some moment, and comes to one of three results: an          *)
(* application, diagnostics of the compiler, or another failure (the Go    *)
(* toolchain, a child that does not start), which has no diagnostics.      *)
(* Two things are history, read by the properties only: "atWatch", the     *)
(* version when watching began, and "heard", the page a request would have *)
(* been answered when the tab's stream opened.                             *)
(***************************************************************************)
EXTENDS Naturals

CONSTANTS Browser,    \* open tabs
          MaxVersion  \* bound on the edits

ASSUME BoundsAssumption == MaxVersion \in Nat

Versions == 0..MaxVersion
NoHandler == MaxVersion + 1

VARIABLES project,    \* the version on disk
          phase,      \* dev: the first build, between it and Watch, watching
          events,     \* a file event is waiting in fsnotify's queue
          timer,      \* the debounce timer is running
          changed,    \* the channel holds a name
          builder,    \* Rebuild: its stage and the version it read
          current,    \* the state requests read: handler, overlay, version
          browser,    \* [Browser -> tab]
          atWatch

vars == <<project, phase, events, timer, changed, builder, current, browser, atWatch>>
-----------------------------------------------------------------------------
Results == {"app", "diagnostics", "failure"}

Idle == [stage |-> "idle", ver |-> NoHandler, result |-> "app"]

(* What a request for a page is answered: the overlay when diagnostics are *)
(* held or when there is no handler, otherwise the application's page.     *)
Page(state) ==
  IF state.diagnostics \/ state.handler = NoHandler
  THEN [overlay |-> TRUE,  ver |-> state.from]
  ELSE [overlay |-> FALSE, ver |-> state.handler]

Blank == [overlay |-> TRUE, ver |-> NoHandler]

Away == [at |-> "away", page |-> Blank, signal |-> FALSE, heard |-> Blank]

Init ==
  /\ project = 0
  /\ phase = "first"
  /\ events = FALSE
  /\ timer = FALSE
  /\ changed = FALSE
  /\ builder = [Idle EXCEPT !.stage = "read"]
  /\ current = [handler |-> NoHandler, diagnostics |-> FALSE, from |-> NoHandler]
  /\ browser = [b \in Browser |-> Away]
  /\ atWatch = 0
-----------------------------------------------------------------------------
(* The developer.  fsnotify reports what changes once Watch has added the  *)
(* tree; events that wait are as good as one, each only restarts a timer.  *)
Edit ==
  /\ project < MaxVersion
  /\ project' = project + 1
  /\ events' = (events \/ phase = "watching")
  /\ UNCHANGED <<phase, timer, changed, builder, current, browser, atWatch>>

(* dev, after the first Rebuild: Watch, then the rebuild loop.             *)
Watch ==
  /\ phase = "first"
  /\ builder.stage = "idle"
  /\ phase' = "watching"
  /\ atWatch' = project
  /\ UNCHANGED <<project, events, timer, changed, builder, current, browser>>

(* The watcher's goroutine takes an event: the timer starts over.          *)
TakeEvent ==
  /\ events
  /\ events' = FALSE
  /\ timer' = TRUE
  /\ UNCHANGED <<project, phase, changed, builder, current, browser, atWatch>>

(* Mutant: the channel has no buffer, so only an idle loop hears of it.    *)
FireUnbuffered ==
  /\ timer
  /\ timer' = FALSE
  /\ changed' = (changed \/ builder.stage = "idle")
  /\ UNCHANGED <<project, phase, events, builder, current, browser, atWatch>>

(* The timer's callback sends without blocking: a name that waits already  *)
(* stands for this one too.                                                *)
Fire ==
  /\ timer
  /\ timer' = FALSE
  /\ changed' = TRUE
  /\ UNCHANGED <<project, phase, events, builder, current, browser, atWatch>>

(* The rebuild loop receives a name and calls Rebuild.                     *)
Receive ==
  /\ phase = "watching"
  /\ builder.stage = "idle"
  /\ changed
  /\ changed' = FALSE
  /\ builder' = [Idle EXCEPT !.stage = "read"]
  /\ UNCHANGED <<project, phase, events, timer, current, browser, atWatch>>

ReadProject ==
  /\ builder.stage = "read"
  /\ \E result \in Results :
       builder' = [stage |-> "publish", ver |-> project, result |-> result]
  /\ UNCHANGED <<project, phase, events, timer, changed, current, browser, atWatch>>

(* Rebuild stores the new state; keep, on failure, holds on to the handler *)
(* and replaces the diagnostics by those of this build.                    *)
NextState(b) ==
  [handler     |-> IF b.result = "app" THEN b.ver ELSE current.handler,
   diagnostics |-> b.result = "diagnostics",
   from        |-> b.ver]

(* Mutant: nobody is told of a build that failed.                          *)
PublishQuietly ==
  /\ builder.stage = "publish"
  /\ current' = NextState(builder)
  /\ builder' = IF builder.result = "app" THEN [builder EXCEPT !.stage = "notify"] ELSE Idle
  /\ UNCHANGED <<project, phase, events, timer, changed, browser, atWatch>>

Publish ==
  /\ builder.stage = "publish"
  /\ current' = NextState(builder)
  /\ builder' = [builder EXCEPT !.stage = "notify"]
  /\ UNCHANGED <<project, phase, events, timer, changed, browser, atWatch>>

(* clients.notify: one signal per stream, dropped where one waits already. *)
Notify ==
  /\ builder.stage = "notify"
  /\ browser' = [b \in Browser |-> IF browser[b].at = "joined"
                                   THEN [browser[b] EXCEPT !.signal = TRUE]
                                   ELSE browser[b]]
  /\ builder' = Idle
  /\ UNCHANGED <<project, phase, events, timer, changed, current, atWatch>>
-----------------------------------------------------------------------------
(* A tab asks for its page; dev answers once it serves, after Watch.       *)
Fetch(b) ==
  /\ phase = "watching"
  /\ browser[b].at = "away"
  /\ browser' = [browser EXCEPT ![b] = [Away EXCEPT !.at = "loaded",
                                                 !.page = Page(current)]]
  /\ UNCHANGED <<project, phase, events, timer, changed, builder, current, atWatch>>

(* The script in the page opens the event stream: clients.join.            *)
Join(b) ==
  /\ browser[b].at = "loaded"
  /\ browser' = [browser EXCEPT ![b].at = "joined", ![b].heard = Page(current)]
  /\ UNCHANGED <<project, phase, events, timer, changed, builder, current, atWatch>>

(* The stream delivers the signal and the tab reloads, which ends the      *)
(* stream: clients.leave.                                                  *)
Reload(b) ==
  /\ browser[b].at = "joined"
  /\ browser[b].signal
  /\ browser' = [browser EXCEPT ![b] = Away]
  /\ UNCHANGED <<project, phase, events, timer, changed, builder, current, atWatch>>
-----------------------------------------------------------------------------
Build == Watch \/ Receive \/ ReadProject \/ Publish \/ Notify

Next ==
  \/ Edit
  \/ TakeEvent
  \/ Fire
  \/ Build
  \/ \E b \in Browser : Fetch(b) \/ Join(b) \/ Reload(b)

(* Timers fire, goroutines are scheduled, builds end, and a tab that was   *)
(* told to reload does.  Nobody has to edit or to open a tab.              *)
Fairness ==
  /\ WF_vars(TakeEvent)
  /\ WF_vars(Fire)
  /\ WF_vars(Build)
  /\ \A b \in Browser : WF_vars(Join(b)) /\ WF_vars(Reload(b))

Spec == Init /\ [][Next]_vars
FairSpec == Spec /\ Fairness
-----------------------------------------------------------------------------
(* A tab misses nothing from the moment its stream is open: when requests  *)
(* are answered other than they were then, a signal is there or about to   *)
(* be sent.  The announcement comes after the state it announces, so that  *)
(* the reload it causes finds that state.                                  *)
OpenStreamMissesNothing ==
  \A b \in Browser :
    browser[b].at = "joined" /\ browser[b].heard # Page(current) =>
      browser[b].signal \/ builder.stage = "notify"

(* An edit made while watching reaches the server.                         *)
WatchedEditsAreBuilt ==
  \A v \in 1..MaxVersion :
    (phase = "watching" /\ project = v /\ v > atWatch)
      ~> (current.from # NoHandler /\ current.from >= v)
=============================================================================
