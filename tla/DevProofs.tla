----------------------------- MODULE DevProofs ------------------------------
(***************************************************************************)
(* "gopage dev" for any number of tabs, edits, builds and requests: no     *)
(* open stream misses a change, no edit is forgotten on its way, the       *)
(* server does not go back, and rebuilds lose no page.                     *)
(***************************************************************************)
EXTENDS MCDev, TLAPS
-----------------------------------------------------------------------------
(* The types of DevWatch.                                                  *)
Stages == {"idle", "read", "publish", "notify"}

Pages == [overlay : BOOLEAN, ver : Versions \cup {NoHandler}]

WatchTypeOK ==
  /\ project \in Versions
  /\ phase \in {"first", "watching"}
  /\ events \in BOOLEAN /\ timer \in BOOLEAN /\ changed \in BOOLEAN
  /\ builder \in [stage : Stages, ver : Versions \cup {NoHandler}, result : Results]
  /\ current \in [handler : Versions \cup {NoHandler}, diagnostics : BOOLEAN,
                  from : Versions \cup {NoHandler}]
  /\ browser \in [Browser -> [at : {"away", "loaded", "joined"}, page : Pages,
                              signal : BOOLEAN, heard : Pages]]
  /\ atWatch \in Versions

(* A build was made of what it read, which is no older than what is        *)
(* served.                                                                 *)
BuildsInOrder ==
  /\ current.from = NoHandler \/ current.from <= project
  /\ builder.stage = "publish" =>
       /\ builder.ver \in Versions
       /\ builder.ver <= project
       /\ current.from = NoHandler \/ current.from <= builder.ver

(* While the server answers from an older project than the one on disk,    *)
(* something on the way knows: the queue of the watcher, its timer, the    *)
(* channel, or a build that reads or has read the project as it is.        *)
Behind == current.from = NoHandler \/ current.from < project

OnTheWay ==
  \/ events \/ timer \/ changed
  \/ builder.stage = "read"
  \/ builder.stage = "publish" /\ builder.ver = project

NoEditIsForgotten ==
  phase = "watching" /\ project > atWatch /\ Behind => OnTheWay

WatchInv == WatchTypeOK /\ BuildsInOrder /\ NoEditIsForgotten /\ OpenStreamMissesNothing

LEMMA PageIsAPage == ASSUME WatchTypeOK PROVE Page(current) \in Pages
  BY DEF WatchTypeOK, Page, Pages

LEMMA WatchInitially == ASSUME Init PROVE WatchInv
  <1> USE BoundsAssumption
  <1>1. WatchTypeOK
    <2>1. Blank \in Pages
      BY DEF Blank, Pages
    <2>2. browser \in [Browser -> [at : {"away", "loaded", "joined"}, page : Pages,
                                   signal : BOOLEAN, heard : Pages]]
      BY <2>1 DEF Init, Away
    <2>3. builder \in [stage : Stages, ver : Versions \cup {NoHandler}, result : Results]
      BY DEF Init, Idle, Stages, Results
    <2>4. current \in [handler : Versions \cup {NoHandler}, diagnostics : BOOLEAN,
                      from : Versions \cup {NoHandler}]
      BY DEF Init
    <2>5. 0 \in Versions
      BY DEF Versions
    <2> QED
      BY <2>2, <2>3, <2>4, <2>5 DEF Init, WatchTypeOK
  <1>2. OpenStreamMissesNothing
    BY DEF Init, OpenStreamMissesNothing, Away
  <1> QED
    BY <1>1, <1>2 DEF Init, WatchInv, BuildsInOrder, NoEditIsForgotten, Idle

LEMMA WatchTypesStay == ASSUME WatchTypeOK, [Next]_vars PROVE WatchTypeOK'
  <1> USE BoundsAssumption DEF WatchTypeOK, Versions, NoHandler
  <1>1. CASE Edit
    BY <1>1 DEF Edit
  <1>2. CASE TakeEvent \/ Fire
    BY <1>2 DEF TakeEvent, Fire
  <1>3. CASE Build
    <2>1. CASE Watch
      BY <2>1 DEF Watch
    <2>2. CASE Receive
      BY <2>2 DEF Receive, Idle, Stages, Results
    <2>3. CASE ReadProject
      BY <2>3 DEF ReadProject, Stages, Results
    <2>4. CASE Publish
      BY <2>4 DEF Publish, NextState, Stages
    <2>5. CASE Notify
      BY <2>5 DEF Notify, Idle, Stages, Results
    <2> QED
      BY <1>3, <2>1, <2>2, <2>3, <2>4, <2>5 DEF Build
  <1>4. ASSUME NEW b \in Browser, Fetch(b) \/ Join(b) \/ Reload(b) PROVE WatchTypeOK'
    <2>1. Page(current) \in Pages
      BY PageIsAPage
    <2>2. Blank \in Pages
      BY DEF Blank, Pages
    <2>3. browser' \in [Browser -> [at : {"away", "loaded", "joined"}, page : Pages,
                                    signal : BOOLEAN, heard : Pages]]
      <3>1. CASE Fetch(b)
        BY <3>1, <2>1, <2>2 DEF Fetch, Away
      <3>2. CASE Join(b)
        <4> DEFINE tab == [browser[b] EXCEPT !.at = "joined", !.heard = Page(current)]
        <4>1. browser' = [browser EXCEPT ![b] = tab]
          BY <3>2, Zenon DEF Join
        <4>2. tab \in [at : {"away", "loaded", "joined"}, page : Pages,
                       signal : BOOLEAN, heard : Pages]
          BY <2>1
        <4> HIDE DEF tab
        <4> QED
          BY <4>1, <4>2
      <3>3. CASE Reload(b)
        BY <3>3, <2>2 DEF Reload, Away
      <3> QED
        BY <1>4, <3>1, <3>2, <3>3
    <2>4. UNCHANGED <<project, phase, events, timer, changed, builder, current, atWatch>>
      BY <1>4 DEF Fetch, Join, Reload
    <2> QED
      BY <2>3, <2>4
  <1>5. CASE UNCHANGED vars
    BY <1>5 DEF vars
  <1> QED
    BY <1>1, <1>2, <1>3, <1>4, <1>5 DEF Next

LEMMA BuildsStayInOrder ==
  ASSUME WatchTypeOK, BuildsInOrder, [Next]_vars PROVE BuildsInOrder'
  <1> USE BoundsAssumption DEF BuildsInOrder, WatchTypeOK, Versions, NoHandler
  <1>1. CASE Edit \/ TakeEvent \/ Fire
    BY <1>1 DEF Edit, TakeEvent, Fire
  <1>2. CASE Build
    <2>1. CASE Watch \/ Receive \/ Notify
      BY <2>1 DEF Watch, Receive, Notify, Idle
    <2>2. CASE ReadProject
      BY <2>2 DEF ReadProject
    <2>3. CASE Publish
      BY <2>3 DEF Publish, NextState
    <2> QED
      BY <1>2, <2>1, <2>2, <2>3 DEF Build
  <1>3. CASE \E b \in Browser : Fetch(b) \/ Join(b) \/ Reload(b)
    BY <1>3 DEF Fetch, Join, Reload
  <1>4. CASE UNCHANGED vars
    BY <1>4 DEF vars
  <1> QED
    BY <1>1, <1>2, <1>3, <1>4 DEF Next

LEMMA EditsStayOnTheirWay ==
  ASSUME WatchTypeOK, BuildsInOrder, NoEditIsForgotten, [Next]_vars
  PROVE  NoEditIsForgotten'
  <1> USE BoundsAssumption
      DEF NoEditIsForgotten, Behind, OnTheWay, BuildsInOrder, WatchTypeOK, Versions, NoHandler
  <1>1. CASE Edit
    BY <1>1 DEF Edit
  <1>2. CASE TakeEvent \/ Fire
    BY <1>2 DEF TakeEvent, Fire
  <1>3. CASE Build
    <2>1. CASE Watch
      BY <2>1 DEF Watch
    <2>2. CASE Receive
      BY <2>2 DEF Receive, Idle
    <2>3. CASE ReadProject
      BY <2>3 DEF ReadProject
    <2>4. CASE Publish
      BY <2>4 DEF Publish, NextState
    <2>5. CASE Notify
      BY <2>5 DEF Notify, Idle
    <2> QED
      BY <1>3, <2>1, <2>2, <2>3, <2>4, <2>5 DEF Build
  <1>4. CASE \E b \in Browser : Fetch(b) \/ Join(b) \/ Reload(b)
    BY <1>4 DEF Fetch, Join, Reload
  <1>5. CASE UNCHANGED vars
    BY <1>5 DEF vars
  <1> QED
    BY <1>1, <1>2, <1>3, <1>4, <1>5 DEF Next

LEMMA OpenStreamsStayTold ==
  ASSUME WatchTypeOK, OpenStreamMissesNothing, [Next]_vars
  PROVE  OpenStreamMissesNothing'
  <1> USE DEF OpenStreamMissesNothing
  <1>1. CASE Edit \/ TakeEvent \/ Fire \/ Watch
    BY <1>1 DEF Edit, TakeEvent, Fire, Watch, Page
  <1>2. CASE Receive \/ ReadProject
    BY <1>2 DEF Receive, ReadProject, Page, Idle
  <1>3. CASE Publish
    <2>1. builder'.stage = "notify"
      BY <1>3 DEF Publish, WatchTypeOK
    <2> QED
      BY <2>1
  <1>4. CASE Notify
    <2>1. ASSUME NEW b \in Browser, browser'[b].at = "joined" PROVE browser'[b].signal
      BY <1>4, <2>1 DEF Notify, WatchTypeOK
    <2> QED
      BY <2>1
  <1>5. ASSUME NEW b \in Browser, Fetch(b) \/ Join(b) \/ Reload(b)
        PROVE  OpenStreamMissesNothing'
    <2>1. UNCHANGED <<current, builder>> /\ Page(current)' = Page(current)
      BY <1>5 DEF Fetch, Join, Reload, Page
    <2>2. \A a \in Browser \ {b} : browser'[a] = browser[a]
      BY <1>5 DEF Fetch, Join, Reload, WatchTypeOK
    <2>3. browser'[b].at = "joined" => browser'[b].heard = Page(current)
      <3>1. CASE Fetch(b)
        BY <3>1 DEF Fetch, WatchTypeOK, Away
      <3>2. CASE Join(b)
        BY <3>2 DEF Join, WatchTypeOK
      <3>3. CASE Reload(b)
        BY <3>3 DEF Reload, WatchTypeOK, Away
      <3> QED
        BY <1>5, <3>1, <3>2, <3>3
    <2> QED
      BY <2>1, <2>2, <2>3
  <1>6. CASE UNCHANGED vars
    BY <1>6 DEF vars, Page
  <1> QED
    BY <1>1, <1>2, <1>3, <1>4, <1>5, <1>6 DEF Next, Build

LEMMA WatchInvariant == Spec => []WatchInv
  <1>1. Init => WatchInv
    BY WatchInitially
  <1>2. WatchInv /\ [Next]_vars => WatchInv'
    BY WatchTypesStay, BuildsStayInOrder, EditsStayOnTheirWay, OpenStreamsStayTold DEF WatchInv
  <1> QED
    BY <1>1, <1>2, PTL DEF Spec

(* A tab misses nothing from the moment its stream is open (clients.join,  *)
(* clients.notify, Server.publish).                                        *)
THEOREM StreamsMissNothing == Spec => []OpenStreamMissesNothing
  <1>1. WatchInv => OpenStreamMissesNothing
    BY DEF WatchInv
  <1> QED
    BY <1>1, WatchInvariant, PTL

(* However the debounce timer, the channel of one and the build loop meet, *)
(* an edit the server has not answered to yet is still on its way          *)
(* (internal/watcher, the rebuild loop of dev).                            *)
THEOREM EditsAreNotForgotten == Spec => []NoEditIsForgotten
  <1>1. WatchInv => NoEditIsForgotten
    BY DEF WatchInv
  <1> QED
    BY <1>1, WatchInvariant, PTL

(* What is served is never replaced by the result of an older project      *)
(* (Rebuild, keep).                                                        *)
NeverGoesBack == [][current.from # NoHandler => current'.from # NoHandler /\ current'.from >= current.from]_vars

THEOREM ServesNothingOlder == Spec => NeverGoesBack
  <1>1. WatchInv /\ [Next]_vars =>
          [current.from # NoHandler => current'.from # NoHandler /\ current'.from >= current.from]_vars
    <2> SUFFICES ASSUME WatchInv, [Next]_vars, current.from # NoHandler
                 PROVE  current'.from # NoHandler /\ current'.from >= current.from
      OBVIOUS
    <2> USE BoundsAssumption DEF WatchInv, WatchTypeOK, BuildsInOrder, Versions, NoHandler
    <2>1. CASE Publish
      BY <2>1 DEF Publish, NextState
    <2>2. CASE UNCHANGED current
      BY <2>2
    <2>3. Publish \/ UNCHANGED current
      BY DEF Next, vars, Edit, TakeEvent, Fire, Build, Watch, Receive, ReadProject, Notify,
             Fetch, Join, Reload
    <2> QED
      BY <2>1, <2>2, <2>3
  <1> QED
    BY <1>1, WatchInvariant, PTL DEF Spec, NeverGoesBack
-----------------------------------------------------------------------------
(* The types of Children.                                                  *)
Number == K!Child \cup {K!NoChild}

Asking == [at : {"away", "holding", "inside", "answering", "answered", "error", "failed", "cut"},
           handler : Number, attempt : 0..K!Retries, first : Number]

ChildTypeOK ==
  /\ dev \in {"up", "stopped", "gone"}
  /\ launch \in [at : {"idle", "waiting", "started", "rotated"}, next : Number]
  /\ running \in Number /\ retiring \in Number /\ handler \in Number
  /\ child \in [K!Child -> {"none", "exec", "up", "closing", "dead"}]
  /\ lost \subseteq K!Child
  /\ request \in [Request -> Asking]

(* devBuild keeps its children in the order of their builds, and requests  *)
(* read the last of them or, between Rotate and Publish, the one before.   *)
Rotation ==
  /\ retiring < running \/ (running = K!NoChild /\ retiring = K!NoChild)
  /\ launch.at \in {"waiting", "started"} => running < launch.next
  /\ launch.at = "rotated" => running = launch.next
  /\ handler = IF launch.at = "rotated" THEN retiring ELSE running
  /\ launch.at # "idle" => launch.next # K!NoChild
  /\ \A c \in {running, retiring, launch.next} \ {K!NoChild} : child[c] # "none"
  /\ \A b, c \in K!Child : child[c] = "none" /\ c < b => child[b] = "none"

(* While dev is up, a child that is still needed serves, unless it ended   *)
(* by itself.                                                              *)
Serving ==
  dev = "up" =>
    /\ \A c \in {running, retiring} \ {K!NoChild} : c \notin lost => child[c] = "up"
    /\ launch.at = "started" /\ launch.next \notin lost => child[launch.next] = "up"
    /\ \A c \in K!Child : child[c] = "closing" => c \in lost

(* A request holds a child that was published; when it met an error there, *)
(* the child has been retired by a rotation, so that every attempt is      *)
(* made at a later child than the one before.                              *)
Undisturbed(r) ==
  dev = "up" /\ lost \cap (request[r].first..request[r].handler) = {}

Requested(r) ==
  request[r].at # "away" =>
    /\ request[r].first # K!NoChild
    /\ request[r].first <= request[r].handler
    /\ request[r].handler = running \/ request[r].handler <= retiring
    /\ request[r].handler <= handler
    /\ Undisturbed(r) =>
         /\ request[r].first + request[r].attempt <= request[r].handler
         /\ request[r].at \in {"error", "failed"} => request[r].handler < retiring
         /\ request[r].at = "failed" => request[r].attempt = K!Retries

Requests == \A r \in Request : Requested(r)

(* A child that runs is one devBuild still knows.                          *)
Known == dev # "gone" => \A c \in K!Child : K!Alive(c) => c \in {running, retiring, launch.next}

ChildInv == ChildTypeOK /\ Rotation /\ Serving /\ Requests /\ Known

LEMMA ChildInitially == ASSUME K!Init PROVE ChildInv
  <1> USE BuildsAssumption DEF K!Init, K!Idle, K!Away, K!NoChild, K!Child, Number
  <1>1. ChildTypeOK
    BY DEF ChildTypeOK, K!Retries, Asking
  <1>2. Rotation /\ Serving
    BY DEF Rotation, Serving
  <1>3. Requests
    BY DEF Requests, Requested
  <1>4. Known
    BY DEF Known, K!Alive
  <1> QED
    BY <1>1, <1>2, <1>3, <1>4 DEF ChildInv

(* What a child's end does to the other children and to the requests.      *)
LEMMA EndsTypes ==
  ASSUME ChildTypeOK, NEW dead \in SUBSET K!Child
  PROVE  /\ K!Killed(child, dead) \in [K!Child -> {"none", "exec", "up", "closing", "dead"}]
         /\ K!Ends(request, dead) \in [Request -> Asking]
  BY DEF ChildTypeOK, K!Killed, K!Ends, Asking

LEMMA EndsRequests ==
  ASSUME ChildTypeOK, NEW dead \in SUBSET K!Child, NEW r \in Request
  PROVE  LET after == K!Ends(request, dead)[r]
         IN  /\ after.handler = request[r].handler
             /\ after.first = request[r].first
             /\ after.attempt = request[r].attempt
             /\ after.at # request[r].at =>
                  \/ after.at = "error" /\ request[r].handler \in dead /\ request[r].at = "inside"
                  \/ after.at = "cut" /\ request[r].at = "answering"
  BY DEF ChildTypeOK, K!Ends, Asking

LEMMA ChildTypesStay == ASSUME ChildTypeOK, [K!Next]_(K!vars) PROVE ChildTypeOK'
  <1> USE BuildsAssumption DEF ChildTypeOK, K!NoChild, Number
  <1>1. CASE K!Launch
    BY <1>1 DEF K!Launch, K!Child
  <1>2. CASE K!GivesUp
    <2>1. child' \in [K!Child -> {"none", "exec", "up", "closing", "dead"}]
      BY <1>2 DEF K!GivesUp, K!Killed
    <2> QED
      BY <1>2, <2>1 DEF K!GivesUp, K!Idle
  <1>3. CASE K!Listens \/ K!Publish
    BY <1>3 DEF K!Listens, K!Publish, K!Idle
  <1>4. CASE K!Rotate
    <2>1. {retiring} \ {K!NoChild} \in SUBSET K!Child
      OBVIOUS
    <2> QED
      BY <1>4, <2>1, EndsTypes DEF K!Rotate
  <1>5. CASE K!Stop
    <2>1. {running, retiring} \ {K!NoChild} \in SUBSET K!Child
      OBVIOUS
    <2> QED
      BY <1>5, <2>1, EndsTypes DEF K!Stop
  <1>6. CASE K!Exit
    BY <1>6 DEF K!Exit, K!Away, K!Retries, Asking
  <1>7. ASSUME NEW c \in K!Child, K!ChildNext(c) \/ K!Told(c) \/ K!Crash(c) PROVE ChildTypeOK'
    <2>1. CASE K!Boot(c) \/ K!Leave(c) \/ K!Told(c)
      BY <2>1 DEF K!Boot, K!Leave, K!Told
    <2>2. CASE K!Closed(c) \/ K!Crash(c)
      BY <2>2, EndsTypes DEF K!Closed, K!Crash
    <2> QED
      BY <1>7, <2>1, <2>2 DEF K!ChildNext
  <1>8. ASSUME NEW r \in Request,
               K!Arrive(r) \/ K!Dial(r) \/ K!Begin(r) \/ K!Answered(r) \/ K!Again(r)
        PROVE  ChildTypeOK'
    <2>1. \A next \in Asking : K!Asks(r, next) => ChildTypeOK'
      BY DEF K!Asks, Asking
    <2>2. CASE K!Arrive(r)
      BY <2>1, <2>2 DEF K!Arrive, Asking, K!Retries
    <2>3. CASE K!Dial(r) \/ K!Begin(r) \/ K!Answered(r)
      BY <2>1, <2>3 DEF K!Dial, K!Begin, K!Answered, Asking
    <2>4. CASE K!Again(r)
      <3> USE DEF Asking, K!Retries
      <3>1. [request[r] EXCEPT !.at = "failed"] \in Asking
        OBVIOUS
      <3>2. ASSUME request[r].attempt # K!Retries
            PROVE  [request[r] EXCEPT !.at = "holding", !.attempt = @ + 1, !.handler = handler] \in Asking
        <4>1. request[r].attempt + 1 \in 0..K!Retries
          BY <3>2
        <4> DEFINE tried == [request[r] EXCEPT !.at = "holding", !.attempt = @ + 1]
        <4>2. tried \in Asking
          BY <4>1
        <4> HIDE DEF tried
        <4> QED
          BY <4>2 DEF tried
      <3> QED
        BY <2>1, <2>4, <3>1, <3>2 DEF K!Again
    <2> QED
      BY <1>8, <2>2, <2>3, <2>4
  <1>9. CASE UNCHANGED K!vars
    BY <1>9 DEF K!vars
  <1> QED
    BY <1>1, <1>2, <1>3, <1>4, <1>5, <1>6, <1>7, <1>8, <1>9 DEF K!Next

(* The order of the children survives every step.                          *)
LEMMA RotationStays ==
  ASSUME ChildTypeOK, Rotation, [K!Next]_(K!vars) PROVE Rotation'
  <1> USE BuildsAssumption DEF Rotation, ChildTypeOK, K!NoChild, K!Child, Number
  <1>1. CASE K!Launch
    <2> PICK c \in K!Child :
          /\ child[c] = "none"
          /\ \A b \in K!Child : b < c => child[b] # "none"
          /\ launch' = [at |-> "waiting", next |-> c]
          /\ child' = [child EXCEPT ![c] = "exec"]
      BY <1>1 DEF K!Launch
    <2>1. launch.at = "idle" /\ UNCHANGED <<running, retiring, handler>>
      BY <1>1 DEF K!Launch, K!Idle
    <2>2. \A b \in {running, retiring} \ {K!NoChild} : b < c /\ child'[b] # "none"
      OBVIOUS
    <2>3. running < c
      BY <2>2
    <2>4. \A a, b \in K!Child : child'[b] = "none" /\ b < a => child'[a] = "none"
      OBVIOUS
    <2> QED
      BY <2>1, <2>2, <2>3, <2>4
  <1>2. CASE K!GivesUp
    BY <1>2 DEF K!GivesUp, K!Idle, K!Killed
  <1>3. CASE K!Listens \/ K!Publish
    BY <1>3 DEF K!Listens, K!Publish, K!Idle
  <1>4. CASE K!Rotate
    BY <1>4 DEF K!Rotate, K!Killed
  <1>5. CASE K!Stop
    BY <1>5 DEF K!Stop, K!Killed
  <1>6. ASSUME NEW c \in K!Child, K!ChildNext(c) \/ K!Told(c) \/ K!Crash(c) PROVE Rotation'
    <2>1. UNCHANGED <<launch, running, retiring, handler>>
      BY <1>6 DEF K!ChildNext, K!Boot, K!Leave, K!Closed, K!Told, K!Crash
    <2>2. \A b \in K!Child : child'[b] = "none" <=> child[b] = "none"
      BY <1>6 DEF K!ChildNext, K!Boot, K!Leave, K!Orphaned, K!Closed, K!Told, K!Crash, K!Killed
    <2> QED
      BY <2>1, <2>2
  <1>7. CASE UNCHANGED <<launch, running, retiring, handler, child>>
    BY <1>7
  <1>8. ASSUME K!Exit \/ (\E r \in Request : K!Arrive(r) \/ K!Dial(r) \/ K!Begin(r) \/ K!Answered(r) \/ K!Again(r))
               \/ UNCHANGED K!vars
        PROVE  UNCHANGED <<launch, running, retiring, handler, child>>
    BY <1>8 DEF K!Exit, K!Arrive, K!Dial, K!Begin, K!Answered, K!Again, K!Asks, K!vars
  <1> QED
    BY <1>1, <1>2, <1>3, <1>4, <1>5, <1>6, <1>7, <1>8 DEF K!Next

LEMMA ServingStays ==
  ASSUME ChildTypeOK, Rotation, Serving, [K!Next]_(K!vars) PROVE Serving'
  <1> USE BuildsAssumption DEF Serving, Rotation, ChildTypeOK, K!NoChild, K!Child, Number
  <1>1. CASE K!Launch
    BY <1>1 DEF K!Launch
  <1>2. CASE K!GivesUp
    BY <1>2 DEF K!GivesUp, K!Idle, K!Killed
  <1>3. CASE K!Listens \/ K!Publish
    BY <1>3 DEF K!Listens, K!Publish, K!Idle
  <1>4. CASE K!Rotate
    BY <1>4 DEF K!Rotate, K!Killed
  <1>5. CASE K!Stop \/ K!Exit
    BY <1>5 DEF K!Stop, K!Exit
  <1>6. ASSUME NEW c \in K!Child, K!ChildNext(c) \/ K!Told(c) \/ K!Crash(c) PROVE Serving'
    <2>1. CASE K!Boot(c)
      BY <2>1 DEF K!Boot
    <2>2. CASE K!Leave(c)
      BY <2>2 DEF K!Leave, K!Orphaned
    <2>3. CASE K!Told(c)
      BY <2>3 DEF K!Told
    <2>4. CASE K!Closed(c) \/ K!Crash(c)
      BY <2>4 DEF K!Closed, K!Crash, K!Killed
    <2> QED
      BY <1>6, <2>1, <2>2, <2>3, <2>4 DEF K!ChildNext
  <1>7. ASSUME (\E r \in Request : K!Arrive(r) \/ K!Dial(r) \/ K!Begin(r) \/ K!Answered(r) \/ K!Again(r))
               \/ UNCHANGED K!vars
        PROVE  Serving'
    <2>1. UNCHANGED <<dev, launch, running, retiring, child, lost>>
      BY <1>7 DEF K!Arrive, K!Dial, K!Begin, K!Answered, K!Again, K!Asks, K!vars
    <2> QED
      BY <2>1
  <1> QED
    BY <1>1, <1>2, <1>3, <1>4, <1>5, <1>6, <1>7 DEF K!Next

LEMMA KnownStays ==
  ASSUME ChildTypeOK, Rotation, Known, [K!Next]_(K!vars) PROVE Known'
  <1> USE BuildsAssumption DEF Known, Rotation, ChildTypeOK, K!NoChild, K!Child, Number, K!Alive
  <1>1. CASE K!Launch
    BY <1>1 DEF K!Launch, K!Idle
  <1>2. CASE K!GivesUp
    BY <1>2 DEF K!GivesUp, K!Idle, K!Killed
  <1>3. CASE K!Listens \/ K!Publish
    BY <1>3 DEF K!Listens, K!Publish, K!Idle
  <1>4. CASE K!Rotate
    BY <1>4 DEF K!Rotate, K!Killed
  <1>5. CASE K!Stop
    BY <1>5 DEF K!Stop, K!Killed
  <1>6. CASE K!Exit
    BY <1>6 DEF K!Exit
  <1>7. ASSUME NEW c \in K!Child, K!ChildNext(c) \/ K!Told(c) \/ K!Crash(c) PROVE Known'
    <2>1. CASE K!Boot(c) \/ K!Leave(c) \/ K!Told(c)
      BY <2>1 DEF K!Boot, K!Leave, K!Orphaned, K!Told
    <2>2. CASE K!Closed(c) \/ K!Crash(c)
      BY <2>2 DEF K!Closed, K!Crash, K!Killed
    <2> QED
      BY <1>7, <2>1, <2>2 DEF K!ChildNext
  <1>8. ASSUME (\E r \in Request : K!Arrive(r) \/ K!Dial(r) \/ K!Begin(r) \/ K!Answered(r) \/ K!Again(r))
               \/ UNCHANGED K!vars
        PROVE  Known'
    <2>1. UNCHANGED <<dev, launch, running, retiring, child>>
      BY <1>8 DEF K!Arrive, K!Dial, K!Begin, K!Answered, K!Again, K!Asks, K!vars
    <2> QED
      BY <2>1
  <1> QED
    BY <1>1, <1>2, <1>3, <1>4, <1>5, <1>6, <1>7, <1>8 DEF K!Next
-----------------------------------------------------------------------------
(* Children come and go around a request that stays where it is.           *)
LEMMA AroundARequest ==
  ASSUME ChildTypeOK, ChildTypeOK', NEW r \in Request, Requested(r),
         request'[r].at \in {request[r].at, "cut"} \/ request'[r].at = "away",
         request'[r].at # "away" =>
           /\ request[r].at # "away"
           /\ request'[r].handler = request[r].handler
           /\ request'[r].first = request[r].first
           /\ request'[r].attempt = request[r].attempt,
         dev' = "up" => dev = "up",
         lost \subseteq lost',
         handler <= handler', retiring <= retiring',
         request[r].handler = running => running' = running \/ running <= retiring'
  PROVE  Requested(r)'
  <1> USE BuildsAssumption DEF ChildTypeOK, Asking, Number, K!Child, K!NoChild
  <1> SUFFICES ASSUME request'[r].at # "away" PROVE Requested(r)'
    BY DEF Requested
  <1>1. request[r].at # "away" /\ request'[r].handler = request[r].handler
        /\ request'[r].first = request[r].first /\ request'[r].attempt = request[r].attempt
    OBVIOUS
  <1>2. Undisturbed(r)' => Undisturbed(r)
    BY <1>1 DEF Undisturbed
  <1>3. request[r].handler \in Nat /\ {running, running', retiring, retiring', handler, handler'} \subseteq Nat
    OBVIOUS
  <1> HIDE DEF ChildTypeOK, Asking, Number, K!Child, K!NoChild
  <1>4. request'[r].handler = running' \/ request'[r].handler <= retiring'
    BY <1>1, <1>3 DEF Requested
  <1>5. request'[r].handler <= handler'
    BY <1>1, <1>3 DEF Requested
  <1>6. Undisturbed(r)' /\ request'[r].at \in {"error", "failed"} =>
          request'[r].handler < retiring' /\ request'[r].at = request[r].at
    BY <1>1, <1>2, <1>3 DEF Requested
  <1> QED
    BY <1>1, <1>2, <1>4, <1>5, <1>6 DEF Requested

(* A request that meets an error at a child that did not end by itself     *)
(* met it at one that was retired.                                         *)
LEMMA ErrorsAreOfTheRetired ==
  ASSUME ChildTypeOK, Rotation, Serving, NEW r \in Request, Requested(r),
         request[r].at # "away", Undisturbed(r), child[request[r].handler] # "up"
  PROVE  request[r].handler < retiring
  <1> USE BuildsAssumption DEF ChildTypeOK, Asking, Number, K!Child, K!NoChild
  <1>1. request[r].handler \in K!Child /\ request[r].handler \notin lost
    BY DEF Requested, Undisturbed
  <1>2. request[r].handler # running /\ request[r].handler # retiring
    BY <1>1 DEF Serving, Undisturbed
  <1> QED
    BY <1>1, <1>2 DEF Requested

(* A child that ends by itself disturbs the requests it had.               *)
LEMMA EndOfTheLost ==
  ASSUME ChildTypeOK, ChildTypeOK', NEW r \in Request, Requested(r),
         NEW c \in K!Child, request' = K!Ends(request, {c}),
         UNCHANGED <<dev, running, retiring, handler>>,
         lost \subseteq lost', dev = "up" => c \in lost'
  PROVE  Requested(r)'
  <1> USE BuildsAssumption DEF ChildTypeOK, Asking, Number, K!Child, K!NoChild
  <1>1. /\ request'[r].handler = request[r].handler
        /\ request'[r].first = request[r].first
        /\ request'[r].attempt = request[r].attempt
        /\ request'[r].at # request[r].at =>
             \/ request'[r].at = "error" /\ request[r].handler = c /\ request[r].at = "inside"
             \/ request'[r].at = "cut" /\ request[r].at = "answering"
    BY EndsRequests
  <1>2. CASE request'[r].at = "error" /\ request[r].at = "inside" /\ request[r].handler = c
    <2>1. ~ Undisturbed(r)'
      BY <1>1, <1>2 DEF Undisturbed, Requested
    <2> QED
      BY <1>1, <1>2, <2>1 DEF Requested
  <1>3. CASE request'[r].at \in {request[r].at, "cut"} /\ (request'[r].at = "cut" => request[r].at # "away")
    <2>1. handler <= handler' /\ retiring <= retiring'
      OBVIOUS
    <2> HIDE DEF ChildTypeOK, Asking, Number, K!Child, K!NoChild
    <2> QED
      BY <1>1, <1>3, <2>1, AroundARequest
  <1> QED
    BY <1>1, <1>2, <1>3

LEMMA RequestsStay ==
  ASSUME ChildTypeOK, ChildTypeOK', Rotation, Rotation', Serving, Requests, [K!Next]_(K!vars)
  PROVE  Requests'
  <1> SUFFICES ASSUME NEW r \in Request PROVE Requested(r)'
    BY DEF Requests
  <1>0. Requested(r) /\ request[r] \in Asking /\ request'[r] \in Asking
    BY DEF Requests, ChildTypeOK
  <1> USE BuildsAssumption
  <1>1. CASE K!Launch \/ K!GivesUp \/ K!Listens
    <2>1. UNCHANGED <<dev, running, retiring, handler, lost, request>>
      BY <1>1 DEF K!Launch, K!GivesUp, K!Listens
    <2> QED
      BY <1>0, <2>1, AroundARequest DEF ChildTypeOK, Number, K!Child, K!NoChild
  <1>2. CASE K!Rotate
    <2> USE DEF ChildTypeOK, Number, K!Child, K!NoChild
    <2> DEFINE dead == {retiring} \ {K!NoChild}
    <2>1. /\ request' = K!Ends(request, dead) /\ dead \in SUBSET K!Child
          /\ retiring' = running /\ running' = launch.next
          /\ launch.at = "started" /\ UNCHANGED <<dev, handler, lost>>
      BY <1>2 DEF K!Rotate
    <2>2. retiring <= retiring'
      BY <2>1 DEF Rotation
    <2>3. CASE request'[r].at = "error" /\ request[r].at # "error"
      <3>1. request[r].at = "inside" /\ request[r].handler = retiring /\ retiring # K!NoChild
            /\ request'[r].handler = request[r].handler
            /\ request'[r].first = request[r].first
            /\ request'[r].attempt = request[r].attempt
        BY <2>1, <2>3, EndsRequests
      <3>2. retiring <= handler'
        BY <2>1 DEF Rotation
      <3>3. retiring < retiring'
        BY <2>1, <3>1 DEF Rotation
      <3>4. Undisturbed(r)' = Undisturbed(r)
        BY <2>1, <3>1 DEF Undisturbed
      <3>5. {retiring, retiring'} \subseteq Nat
        OBVIOUS
      <3> HIDE DEF ChildTypeOK, K!Child, Number
      <3>6. request'[r].handler <= retiring'
        BY <2>1, <3>1, <3>3, <3>5
      <3> QED
        BY <1>0, <2>1, <2>3, <3>1, <3>2, <3>3, <3>4, <3>6 DEF Requested
    <2>4. CASE ~(request'[r].at = "error" /\ request[r].at # "error")
      <3>1. /\ request'[r].at \in {request[r].at, "cut"}
            /\ request[r].at = "away" => request'[r].at = "away"
            /\ request'[r].handler = request[r].handler
            /\ request'[r].first = request[r].first
            /\ request'[r].attempt = request[r].attempt
        BY <2>1, <2>4, EndsRequests
      <3>2. handler <= handler' /\ running <= retiring'
        BY <2>1
      <3> QED
        BY <1>0, <2>1, <2>2, <3>1, <3>2, AroundARequest
    <2> QED
      BY <2>3, <2>4
  <1>3. CASE K!Publish
    <2>1. UNCHANGED <<dev, running, retiring, lost, request>> /\ handler <= handler'
      BY <1>3 DEF K!Publish, Rotation, ChildTypeOK, Number, K!Child, K!NoChild
    <2> QED
      BY <1>0, <2>1, AroundARequest DEF ChildTypeOK, Number, K!Child, K!NoChild
  <1>4. CASE K!Stop
    <2> USE DEF ChildTypeOK, Number, K!Child, K!NoChild
    <2> DEFINE dead == {running, retiring} \ {K!NoChild}
    <2>1. /\ request' = K!Ends(request, dead) /\ dead \in SUBSET K!Child
          /\ dev' = "stopped" /\ UNCHANGED <<running, retiring, handler, lost>>
      BY <1>4 DEF K!Stop
    <2>2. /\ request[r].at = "away" => request'[r].at = "away"
          /\ request'[r].handler = request[r].handler
          /\ request'[r].first = request[r].first
          /\ request'[r].attempt = request[r].attempt
      BY <2>1, EndsRequests
    <2> QED
      BY <1>0, <2>1, <2>2 DEF Requested, Undisturbed
  <1>5. CASE K!Exit
    <2>1. UNCHANGED <<running, retiring, handler, lost>> /\ dev' = "gone" /\ dev = "stopped"
      BY <1>5 DEF K!Exit
    <2>2. request'[r] = IF request[r].at = "away" THEN K!Away ELSE [request[r] EXCEPT !.at = "cut"]
      BY <1>5 DEF K!Exit
    <2>3. request'[r].at = "away" \/
          /\ request[r].at # "away"
          /\ request'[r].handler = request[r].handler
          /\ request'[r].first = request[r].first
          /\ request'[r].attempt = request[r].attempt
      BY <1>0, <2>2 DEF K!Away, Asking
    <2> QED
      BY <1>0, <2>1, <2>3 DEF Requested, Undisturbed
  <1>6. ASSUME NEW c \in K!Child, K!ChildNext(c) \/ K!Told(c) PROVE Requested(r)'
    <2>1. CASE K!Boot(c) \/ K!Leave(c) \/ K!Told(c)
      <3>1. UNCHANGED <<dev, running, retiring, handler, request>> /\ lost \subseteq lost'
        BY <2>1 DEF K!Boot, K!Leave, K!Told
      <3> QED
        BY <1>0, <3>1, AroundARequest DEF ChildTypeOK, Number, K!Child, K!NoChild
    <2>2. CASE K!Closed(c)
      <3>1. /\ request' = K!Ends(request, {c}) /\ {c} \in SUBSET K!Child
            /\ UNCHANGED <<dev, running, retiring, handler, lost>>
            /\ child[c] = "closing"
        BY <2>2 DEF K!Closed
      <3>2. dev = "up" => c \in lost
        BY <3>1 DEF Serving
      <3> QED
        BY <1>0, <3>1, <3>2, EndOfTheLost
    <2> QED
      BY <1>6, <2>1, <2>2 DEF K!ChildNext
  <1>7. ASSUME NEW c \in K!Child, K!Crash(c) PROVE Requested(r)'
    <2>1. /\ request' = K!Ends(request, {c}) /\ {c} \in SUBSET K!Child
          /\ UNCHANGED <<dev, running, retiring, handler>> /\ lost' = lost \cup {c}
      BY <1>7 DEF K!Crash
    <2> QED
      BY <1>0, <2>1, EndOfTheLost
  <1>8. CASE \E q \in Request : K!Arrive(q) \/ K!Dial(q) \/ K!Begin(q) \/ K!Answered(q) \/ K!Again(q)
    <2> PICK q \in Request : K!Arrive(q) \/ K!Dial(q) \/ K!Begin(q) \/ K!Answered(q) \/ K!Again(q)
      BY <1>8
    <2> USE DEF ChildTypeOK, Number, K!Child, K!NoChild
    <2>1. UNCHANGED <<dev, launch, running, retiring, handler, child, lost>>
      BY DEF K!Arrive, K!Dial, K!Begin, K!Answered, K!Again, K!Asks
    <2>2. CASE q # r
      <3>1. request'[r] = request[r]
        BY <2>2 DEF K!Arrive, K!Dial, K!Begin, K!Answered, K!Again, K!Asks
      <3> QED
        BY <1>0, <2>1, <3>1, AroundARequest
    <2>3. CASE q = r /\ K!Arrive(r)
      <3>1. request'[r] = [at |-> "holding", handler |-> handler, attempt |-> 0, first |-> handler]
            /\ handler # K!NoChild
        BY <2>3 DEF K!Arrive, K!Asks
      <3>2. handler = running \/ handler = retiring
        BY DEF Rotation
      <3> QED
        BY <2>1, <3>1, <3>2 DEF Requested
    <2>4. CASE q = r /\ K!Dial(r)
      <3>1. request'[r] = [request[r] EXCEPT !.at = IF child[request[r].handler] = "up"
                                                    THEN "inside" ELSE "error"]
            /\ request[r].at = "holding"
        BY <2>4 DEF K!Dial, K!Asks
      <3>2. Undisturbed(r) /\ request'[r].at = "error" => request[r].handler < retiring
        BY <1>0, <3>1, ErrorsAreOfTheRetired
      <3> QED
        BY <1>0, <2>1, <3>1, <3>2 DEF Requested, Undisturbed, Asking
    <2>5. CASE q = r /\ (K!Begin(r) \/ K!Answered(r))
      <3>1. \/ request'[r] = [request[r] EXCEPT !.at = "answering"] /\ request[r].at = "inside"
            \/ request'[r] = [request[r] EXCEPT !.at = "answered"] /\ request[r].at = "answering"
        BY <2>5 DEF K!Begin, K!Answered, K!Asks
      <3> QED
        BY <1>0, <2>1, <3>1 DEF Requested, Undisturbed, Asking
    <2>6. CASE q = r /\ K!Again(r)
      <3> USE DEF Asking
      <3>1. request[r].at = "error"
        BY <2>6 DEF K!Again
      <3>2. CASE request'[r] = [request[r] EXCEPT !.at = "failed"] /\ request[r].attempt = K!Retries
        BY <1>0, <2>1, <3>1, <3>2 DEF Requested, Undisturbed
      <3>3. CASE request'[r] = [request[r] EXCEPT !.at = "holding", !.attempt = @ + 1, !.handler = handler]
        <4>1. /\ request'[r].at = "holding" /\ request'[r].handler = handler
              /\ request'[r].first = request[r].first
              /\ request'[r].attempt = request[r].attempt + 1
          BY <1>0, <3>3
        <4>2. handler = running \/ handler = retiring
          BY DEF Rotation
        <4>3. request[r].handler <= handler /\ retiring <= handler
          BY <1>0, <3>1 DEF Requested, Rotation
        <4>4. Undisturbed(r)' => Undisturbed(r)
          BY <1>0, <2>1, <4>1, <4>3 DEF Undisturbed
        <4>5. Undisturbed(r)' => request'[r].first + request'[r].attempt <= request'[r].handler
          BY <1>0, <3>1, <4>1, <4>3, <4>4 DEF Requested
        <4>6. request'[r].first # K!NoChild /\ request'[r].first <= request'[r].handler
          BY <1>0, <3>1, <4>1, <4>3 DEF Requested
        <4> HIDE DEF ChildTypeOK, Asking, Number, K!Child, K!NoChild
        <4>7. request'[r].handler = running' \/ request'[r].handler <= retiring'
          BY <2>1, <4>1, <4>2 DEF ChildTypeOK, Number, K!Child, K!NoChild
        <4>8. request'[r].handler <= handler'
          BY <2>1, <4>1 DEF ChildTypeOK, Number, K!Child, K!NoChild
        <4> QED
          BY <4>1, <4>5, <4>6, <4>7, <4>8 DEF Requested
      <3> QED
        BY <2>6, <3>2, <3>3 DEF K!Again, K!Asks
    <2> QED
      BY <2>2, <2>3, <2>4, <2>5, <2>6
  <1>9. CASE UNCHANGED K!vars
    <2>1. UNCHANGED <<dev, running, retiring, handler, lost, request>>
      BY <1>9 DEF K!vars
    <2> QED
      BY <1>0, <2>1, AroundARequest DEF ChildTypeOK, Number, K!Child, K!NoChild
  <1> QED
    BY <1>1, <1>2, <1>3, <1>4, <1>5, <1>6, <1>7, <1>8, <1>9 DEF K!Next
LEMMA ChildInvariant == DevSpec => []ChildInv
  <1>1. DevInit => ChildInv
    BY ChildInitially DEF DevInit
  <1>2. ChildInv /\ [K!Next]_(K!vars) => ChildInv'
    BY ChildTypesStay, RotationStays, ServingStays, RequestsStay, KnownStays DEF ChildInv
  <1>3. [OfEdits(Next) \/ OfChildren(K!Next)]_<<about, vars, childVars>> => [K!Next]_(K!vars)
    BY DEF OfEdits, OfChildren, childVars, K!vars
  <1> QED
    BY <1>1, <1>2, <1>3, PTL DEF DevSpec

(* A GET is refused only when an attempt met a child that ended by itself, *)
(* when dev was told to stop, or when four builds overtook it: the retries *)
(* of ServeHTTP against the rotation of devBuild.                          *)
THEOREM RebuildsLoseNoPages == DevSpec => []RebuildsLoseNoPage
  <1>1. ChildInv => RebuildsLoseNoPage
    <2> SUFFICES ASSUME ChildInv, NEW r \in Request, request[r].at = "failed",
                        dev = "up", lost \cap (request[r].first..request[r].handler) = {}
                 PROVE  \E c \in K!Child : child[c] # "none" /\ c >= request[r].first + K!Retries + 2
      BY DEF RebuildsLoseNoPage, K!RebuildsLoseNoPage
    <2> USE BuildsAssumption DEF ChildInv, ChildTypeOK, Asking, Number, K!Child, K!NoChild, K!Retries
    <2>1. request[r].handler < retiring /\ request[r].first + 3 <= request[r].handler
      BY DEF Requests, Requested, Undisturbed
    <2>2. retiring < running /\ running \in K!Child /\ child[running] # "none"
      BY <2>1 DEF Rotation
    <2>3. running >= request[r].first + 3 + 2
      BY <2>1, <2>2
    <2> QED
      BY <2>2, <2>3
  <1> QED
    BY <1>1, ChildInvariant, PTL

(* While dev lives, no child it started is left behind: each one that runs *)
(* is serving, about to be retired, or on its way up (Rotate, GivesUp,     *)
(* Stop).                                                                  *)
NoneIsLeftBehindYet == dev # "gone" => \A c \in K!Child : ~K!LeftBehind(c)

THEOREM DevLeavesNoChild == DevSpec => []NoneIsLeftBehindYet
  <1>1. ChildInv => NoneIsLeftBehindYet
    BY DEF ChildInv, Known, NoneIsLeftBehindYet, K!LeftBehind
  <1> QED
    BY <1>1, ChildInvariant, PTL

(* The halves of the composition: what holds of the edits alone holds of   *)
(* it too.                                                                 *)
THEOREM EditsInTheComposition == DevSpec => Spec
  <1>1. DevInit => Init
    BY DEF DevInit
  <1>2. [OfEdits(Next) \/ OfChildren(K!Next)]_<<about, vars, childVars>> => [Next]_vars
    BY DEF OfEdits, OfChildren, vars
  <1> QED
    BY <1>1, <1>2, PTL DEF DevSpec, Spec
=============================================================================
