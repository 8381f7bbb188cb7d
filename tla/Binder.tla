------------------------------- MODULE Binder -------------------------------
(***************************************************************************)
(* The interface the service shows (BaseService.Binder in BaseService.kt), *)
(* its clients in the process of the app (ShadowsocksConnection.kt and     *)
(* MainActivity.kt), and its client in its own process                     *)
(* (ServiceNotification.kt).                                               *)
(*                                                                         *)
(* A client's calls run on binder threads of the service, which register   *)
(* callbacks at once and post the rest to the main thread.  Calls that     *)
(* return are seen through before the client goes on; oneway calls stay    *)
(* under way, in order.  The service's callbacks are oneway as well, and   *)
(* the client posts them to its own main thread.                           *)
(*                                                                         *)
(* In this app a connection is made once, when the activity is created,    *)
(* and given up when it is destroyed.                                      *)
(***************************************************************************)
EXTENDS Naturals, Sequences, FiniteSets

CONSTANTS Remote,     \* connections of activities
          Local,      \* the notification's callback
          None,       \* null
          MaxCalls,   \* bound on a client's calls that are under way or posted
          MaxInbox    \* bound on the callbacks under way to a client

Client == Remote \cup {Local}
State  == {"Connecting", "Connected", "Stopping", "Stopped"}

ASSUME BinderAssumption == Local \notin Remote /\ None \notin State

(* The changes of state of BaseService (see ServiceLifecycle).             *)
Changes == {<<"Stopped", "Connecting">>, <<"Stopped", "Stopping">>,
            <<"Connecting", "Connected">>, <<"Connecting", "Stopping">>,
            <<"Connected", "Stopping">>, <<"Stopping", "Stopped">>}

VARIABLES
  \* of the service
  state,               \* data.state
  failed,              \* the last change of state came with a message
  announced,           \* the state that was broadcast and is not assigned yet, or None
  notification,        \* data.notification exists
  callbacks,           \* the clients that are registered
  bandwidthListeners,  \* the keys of the map
  looper,              \* the field is not null
  loops,               \* how many coroutines run loop()
  posted,              \* coroutines that wait for the main thread
  closed,              \* close() was called
  \* of each remote client
  conn,                \* how far its connection got
  timeout,             \* bandwidthTimeout > 0
  calls,               \* its oneway calls that are under way
  inbox,               \* the states on their way to its main thread
  shown,               \* the state its activity shows
  told,                \* a callback has set it
  updated,             \* clients with a trafficUpdated on its way
  overtook             \* history: those whose last start call overtook a oneway call

serviceVars  == <<state, failed, announced, notification, closed>>
listenerVars == <<bandwidthListeners, looper, loops, updated>>
clientVars   == <<conn, timeout, calls, shown, told, overtook>>
vars == <<serviceVars, listenerVars, clientVars, callbacks, posted, inbox>>

Init ==
  /\ state = "Stopped" /\ failed = FALSE /\ announced = None
  /\ notification = FALSE /\ closed = FALSE
  /\ callbacks = {} /\ bandwidthListeners = {} /\ looper = FALSE /\ loops = 0
  /\ posted = <<>>
  /\ conn = [c \in Remote |-> "off"]
  /\ timeout = [c \in Remote |-> FALSE]
  /\ calls = [c \in Remote |-> <<>>]
  /\ inbox = [c \in Remote |-> <<>>]
  /\ shown = [c \in Remote |-> "Idle"]
  /\ told = [c \in Remote |-> FALSE]
  /\ updated = {} /\ overtook = {}

\* The main thread of the service is at no change of state.
MainThread == announced = None /\ ~closed

\* The coroutines posted for c that have not run.
Posted(c) == {i \in DOMAIN posted : posted[i].client = c}

Post(op, c) == posted' = Append(posted, [op |-> op, client |-> c])

-----------------------------------------------------------------------------
(* Binder's coroutines.                                                    *)

\* Mutant: && for "and", so that put() is only called on an empty map.
ListenIfFirst(c) ==
  /\ IF bandwidthListeners = {}
     THEN bandwidthListeners' = {c} /\ looper' = TRUE /\ loops' = loops + 1
     ELSE UNCHANGED <<bandwidthListeners, looper, loops>>
  /\ updated' = IF state = "Connected" /\ c \in Remote THEN updated \cup {c} ELSE updated

\* Mutant: isEmpty() is not asked.
ListenAnew(c) ==
  /\ bandwidthListeners' = bandwidthListeners \cup {c}
  /\ IF c \notin bandwidthListeners THEN looper' = TRUE /\ loops' = loops + 1
                                    ELSE UNCHANGED <<looper, loops>>
  /\ updated' = IF state = "Connected" /\ c \in Remote THEN updated \cup {c} ELSE updated

\* The body of startListeningForBandwidth(): the first listener starts the looper, and
\* the new one is told how things are.  The check on looper is LooperMatches.
Listen(c) ==
  /\ bandwidthListeners' = bandwidthListeners \cup {c}
  /\ IF bandwidthListeners = {} THEN looper' = TRUE /\ loops' = loops + 1
                                ELSE UNCHANGED <<looper, loops>>
  /\ updated' = IF state = "Connected" /\ c \in Remote THEN updated \cup {c} ELSE updated

\* The body of stopListeningForBandwidth(): the last listener cancels the looper.
Unlisten(c) ==
  /\ bandwidthListeners' = bandwidthListeners \ {c}
  /\ IF c \in bandwidthListeners /\ bandwidthListeners' = {}
     THEN looper' = FALSE /\ loops' = loops - 1
     ELSE UNCHANGED <<looper, loops>>
  /\ UNCHANGED updated

\* A posted coroutine gets the main thread.
RunPosted ==
  /\ MainThread /\ posted # <<>>
  /\ LET p == Head(posted)
     IN  IF p.op = "start" THEN Listen(p.client) ELSE Unlisten(p.client)
  /\ posted' = Tail(posted)
  /\ UNCHANGED <<serviceVars, clientVars, callbacks, inbox>>

\* loop() comes out of its delay while there is traffic.
Loop ==
  /\ MainThread /\ loops > 0
  /\ state = "Connected" /\ bandwidthListeners # {}
  /\ updated' = updated \cup (bandwidthListeners \cap callbacks \cap Remote)
  /\ UNCHANGED <<serviceVars, clientVars, callbacks, posted, inbox,
                 bandwidthListeners, looper, loops>>

-----------------------------------------------------------------------------
(* The service, on its main thread.                                        *)

\* changeState(s): stateChanged() runs in place and calls every callback ...
Announce(s, message) ==
  /\ \A c \in Remote : Len(inbox[c]) < MaxInbox
  /\ announced' = s /\ failed' = message
  /\ inbox' = [c \in Remote |-> IF c \in callbacks
                                THEN Append(inbox[c], IF message THEN "Idle" ELSE s)
                                ELSE inbox[c]]

\* ... and then the state is assigned.
Assign ==
  /\ announced # None
  /\ state' = announced /\ announced' = None
  /\ UNCHANGED <<failed, notification, closed, listenerVars, clientVars, callbacks, posted, inbox>>

\* ServiceNotification.updateCallback(): registering twice changes nothing.
updateCallback(screenOn) ==
  IF screenOn THEN Listen(Local) /\ callbacks' = callbacks \cup {Local}
  ELSE IF Local \in callbacks THEN Unlisten(Local) /\ callbacks' = callbacks \ {Local}
  ELSE UNCHANGED <<listenerVars, callbacks>>

\* onStartCommand() makes a notification, which listens if the screen is on, and goes on
\* to Connecting, or to Stopping when there is no usable profile.
onStartCommand(s, screenOn) ==
  /\ MainThread /\ state = "Stopped" /\ <<state, s>> \in Changes
  /\ notification' = TRUE
  /\ updateCallback(screenOn)
  /\ Announce(s, FALSE)
  /\ UNCHANGED <<state, closed, clientVars, posted>>

changeState(s, message) ==
  /\ MainThread /\ state # "Stopped" /\ <<state, s>> \in Changes
  /\ message => s = "Stopped"
  /\ s = "Stopped" => ~notification
  /\ Announce(s, message)
  /\ UNCHANGED <<state, notification, closed, listenerVars, clientVars, callbacks, posted>>

\* The screen is turned on or off.
onReceive(screenOn) ==
  /\ MainThread /\ notification /\ state = "Connected"
  /\ updateCallback(screenOn)
  /\ UNCHANGED <<serviceVars, clientVars, posted, inbox>>

destroyNotification ==
  /\ MainThread /\ notification /\ state = "Stopping"
  /\ notification' = FALSE
  /\ updateCallback(FALSE)
  /\ UNCHANGED <<state, failed, announced, closed, clientVars, posted, inbox>>

\* onDestroy(): nobody is bound and the service has stopped.  No posted coroutine runs.
close ==
  /\ MainThread /\ state = "Stopped" /\ \A c \in Remote : conn[c] \in {"off", "gone"}
  /\ closed' = TRUE
  /\ callbacks' = {} /\ loops' = 0 /\ posted' = <<>>
  /\ UNCHANGED <<state, failed, announced, notification, bandwidthListeners, looper, updated,
                 clientVars, inbox>>

-----------------------------------------------------------------------------
(* A client in the process of the app, and the binder threads it calls.    *)

\* A bound.  A call that returns does not wait for oneway calls made before it.
CanCall(c) == Len(calls[c]) + Cardinality(Posted(c)) < MaxCalls

\* onServiceConnected(): registerCallback() and startListeningForBandwidth() ...
Connected(c) ==
  /\ ~closed /\ conn[c] = "off" /\ CanCall(c)
  /\ conn' = [conn EXCEPT ![c] = "registered"]
  /\ callbacks' = callbacks \cup {c}
  /\ IF timeout[c] THEN Post("start", c) ELSE UNCHANGED posted
  /\ UNCHANGED <<serviceVars, listenerVars, timeout, calls, shown, told, inbox, overtook>>

\* ... and getState(), which the activity shows.
getState(c) ==
  /\ conn[c] = "registered"
  /\ conn' = [conn EXCEPT ![c] = "on"]
  /\ shown' = [shown EXCEPT ![c] = state]
  /\ UNCHANGED <<serviceVars, listenerVars, callbacks, posted, timeout, calls, told, inbox, overtook>>

\* Mutant: the callback runs on the binder thread it arrives on.
stateChangedInPlace(c) ==
  /\ conn[c] \in {"registered", "on"} /\ inbox[c] # <<>>
  /\ shown' = [shown EXCEPT ![c] = Head(inbox[c])]
  /\ told' = [told EXCEPT ![c] = TRUE]
  /\ inbox' = [inbox EXCEPT ![c] = Tail(@)]
  /\ UNCHANGED <<serviceVars, listenerVars, callbacks, posted, conn, timeout, calls, overtook>>

\* A callback gets the client's main thread, which is not in onServiceConnected().
stateChanged(c) ==
  /\ conn[c] = "on" /\ inbox[c] # <<>>
  /\ shown' = [shown EXCEPT ![c] = Head(inbox[c])]
  /\ told' = [told EXCEPT ![c] = TRUE]
  /\ inbox' = [inbox EXCEPT ![c] = Tail(@)]
  /\ UNCHANGED <<serviceVars, listenerVars, callbacks, posted, conn, timeout, calls, overtook>>

trafficUpdated(c) ==
  /\ conn[c] # "registered" /\ c \in updated
  /\ updated' = updated \ {c}
  /\ UNCHANGED <<serviceVars, clientVars, callbacks, posted, inbox,
                 bandwidthListeners, looper, loops>>

\* onStart() and onStop() of the activity set bandwidthTimeout.
onStart(c) ==
  /\ conn[c] \in {"off", "on"} /\ ~timeout[c] /\ CanCall(c)
  /\ timeout' = [timeout EXCEPT ![c] = TRUE]
  /\ IF conn[c] = "on" THEN Post("start", c) ELSE UNCHANGED posted
  /\ overtook' = IF calls[c] = <<>> THEN overtook \ {c} ELSE overtook \cup {c}
  /\ UNCHANGED <<serviceVars, listenerVars, callbacks, conn, calls, shown, told, inbox>>

onStop(c) ==
  /\ conn[c] \in {"off", "on"} /\ timeout[c] /\ CanCall(c)
  /\ timeout' = [timeout EXCEPT ![c] = FALSE]
  /\ calls' = IF conn[c] = "on" THEN [calls EXCEPT ![c] = Append(@, "stop")] ELSE calls
  /\ UNCHANGED <<serviceVars, listenerVars, callbacks, posted, conn, shown, told, inbox, overtook>>

\* onDestroy() of the activity, after onStop(): callbacks that are late find no callback.
disconnect(c) ==
  /\ conn[c] = "on" /\ ~timeout[c]
  /\ conn' = [conn EXCEPT ![c] = "gone"]
  /\ calls' = [calls EXCEPT ![c] = @ \o <<"unregister", "stop">>]
  /\ inbox' = [inbox EXCEPT ![c] = <<>>]
  /\ UNCHANGED <<serviceVars, listenerVars, callbacks, posted, timeout, shown, told, overtook>>

\* The app's process is killed.
Die(c) ==
  /\ conn[c] \in {"registered", "on"}
  /\ conn' = [conn EXCEPT ![c] = "dead"]
  /\ inbox' = [inbox EXCEPT ![c] = <<>>]
  /\ UNCHANGED <<serviceVars, listenerVars, callbacks, posted, timeout, calls, shown, told, overtook>>

\* Mutant: RemoteCallbackList's own onCallbackDied(), which does nothing.
onCallbackDiedOnly(c) ==
  /\ conn[c] = "dead"
  /\ conn' = [conn EXCEPT ![c] = "gone"]
  /\ callbacks' = callbacks \ {c}
  /\ inbox' = [inbox EXCEPT ![c] = <<>>]
  /\ UNCHANGED <<serviceVars, listenerVars, posted, timeout, calls, shown, told, overtook>>

\* onCallbackDied(), on a binder thread.
onCallbackDied(c) ==
  /\ conn[c] = "dead"
  /\ conn' = [conn EXCEPT ![c] = "gone"]
  /\ callbacks' = callbacks \ {c}
  /\ inbox' = [inbox EXCEPT ![c] = <<>>]
  /\ IF closed THEN UNCHANGED posted ELSE Post("stop", c)
  /\ UNCHANGED <<serviceVars, listenerVars, timeout, calls, shown, told, overtook>>

\* A oneway call arrives: stopListeningForBandwidth(), or unregisterCallback(), which
\* makes that call as well.
Arrive(c) ==
  /\ calls[c] # <<>>
  /\ calls' = [calls EXCEPT ![c] = Tail(@)]
  /\ callbacks' = IF Head(calls[c]) = "unregister" THEN callbacks \ {c} ELSE callbacks
  /\ IF closed THEN UNCHANGED posted ELSE Post("stop", c)
  /\ UNCHANGED <<serviceVars, listenerVars, conn, timeout, shown, told, inbox, overtook>>

-----------------------------------------------------------------------------
MainStep == RunPosted \/ Loop \/ Assign

ServiceStep ==
  \/ MainStep \/ destroyNotification \/ close
  \/ \E s \in State, b \in BOOLEAN : onStartCommand(s, b) \/ changeState(s, b)
  \/ \E b \in BOOLEAN : onReceive(b)

Answer(c) == getState(c) \/ stateChanged(c) \/ trafficUpdated(c) \/ onCallbackDied(c) \/ Arrive(c)

ClientStep(c) ==
  Answer(c) \/ Connected(c) \/ onStart(c) \/ onStop(c) \/ disconnect(c) \/ Die(c)

Next == ServiceStep \/ \E c \in Remote : ClientStep(c)

Spec == Init /\ [][Next]_vars

(* The main threads run what is posted, the delay of loop() ends, and      *)
(* calls arrive.  Nobody has to connect, and the service may stay as it is.*)
Fairness ==
  /\ WF_vars(RunPosted) /\ WF_vars(Assign) /\ WF_vars(Loop)
  /\ \A c \in Remote : /\ WF_vars(getState(c)) /\ WF_vars(stateChanged(c))
                       /\ WF_vars(trafficUpdated(c)) /\ WF_vars(Arrive(c))

FairSpec == Spec /\ Fairness

-----------------------------------------------------------------------------
(* Properties.                                                             *)

TypeOK ==
  /\ state \in State /\ failed \in BOOLEAN /\ announced \in State \cup {None}
  /\ notification \in BOOLEAN /\ closed \in BOOLEAN
  /\ callbacks \subseteq Client /\ bandwidthListeners \subseteq Client
  /\ looper \in BOOLEAN /\ loops \in Nat
  /\ posted \in Seq([op : {"start", "stop"}, client : Remote])
  /\ conn \in [Remote -> {"off", "registered", "on", "dead", "gone"}]
  /\ timeout \in [Remote -> BOOLEAN]
  /\ calls \in [Remote -> Seq({"stop", "unregister"})]
  /\ inbox \in [Remote -> Seq(State \cup {"Idle"})]
  /\ shown \in [Remote -> State \cup {"Idle"}]
  /\ told \in [Remote -> BOOLEAN]
  /\ updated \subseteq Remote /\ overtook \subseteq Remote

(* There is a looper exactly while somebody listens, and never a second    *)
(* one, whoever starts, stops, dies or turns off the screen in whichever   *)
(* order: check(looper == null) on line 160, looper!! on line 188 and the  *)
(* return of loop() on line 139 rest on it.                                *)
LooperMatches ==
  ~closed => /\ looper <=> bandwidthListeners # {}
             /\ loops = IF looper THEN 1 ELSE 0

(* A client that was told a state by the service shows the service's state *)
(* once nothing is on its way: the answer of getState() never replaces a   *)
(* later callback (lines 70-75 and 104-108 of ShadowsocksConnection.kt).   *)
ToldIsCurrent ==
  \A c \in Remote :
    conn[c] = "on" /\ told[c] /\ inbox[c] = <<>> /\ announced = None
      => shown[c] = IF failed THEN "Idle" ELSE state

(* A client that disconnected or died is forgotten once its calls have     *)
(* run: it neither keeps the looper awake nor gets calls (lines 105-108    *)
(* and 194-197).                                                           *)
GoneIsForgotten ==
  \A c \in Remote :
    ~closed /\ conn[c] = "gone" /\ calls[c] = <<>> /\ Posted(c) = {}
      => c \notin callbacks \cup bandwidthListeners

(* An activity that stays on the screen of a connected service goes on     *)
(* getting its traffic, whatever it and others did before (lines 137-192), *)
(* unless its last start call overtook the oneway stop call before it.     *)
TrafficFlows ==
  \A c \in Remote :
    <>[](/\ conn[c] = "on" /\ timeout[c] /\ c \notin overtook
         /\ state = "Connected" /\ announced = None)
      => []<>(c \in updated)
=============================================================================
