---------------------------- MODULE ProfileSwitch ----------------------------
(***************************************************************************)
(* From a choice in MainActivity.kt to the profile the proxy service runs  *)
(* with.  The activity selects a profile and then, if it believes the      *)
(* service to be connected, has it reload; the service is another process, *)
(* reads the selected profile when it starts, and may start, stop and      *)
(* restart at any moment in between.                                       *)
(*                                                                         *)
(* Which profiles there are is ProfileStore's matter: here they come and   *)
(* go.  How the service connects and stops is BaseService's.               *)
(***************************************************************************)
EXTENDS Integers

CONSTANT Profile    \* the ids of profiles

ASSUME SwitchAssumption == Profile \subseteq Nat \ {0}

VARIABLES
  rows,       \* the profiles that are in the table
  profileId,  \* DataStore.profileId
  \* of MainActivity
  currentId,  \* currentProfileId
  worker,     \* its main thread, and that of onProfileChanged(): where they are
  target,     \* and the profile they switch to
  view,       \* state
  \* of the service
  svc,        \* its state
  starting,   \* onStartCommand() has read the profile
  using,      \* the profile it runs with
  restart,    \* stopRunner(true)
  receiver,   \* closeReceiverRegistered
  \* between them
  startSent,  \* an intent is on its way to the service
  reloadSent, \* a RELOAD is
  missed      \* since the start a switch was made of which it was not told

uiVars     == <<currentId, worker, target, view>>
svcVars    == <<svc, starting, using, restart, receiver>>
sentVars   == <<startSent, reloadSent, missed>>
switchVars == <<rows, profileId, uiVars, svcVars, sentVars>>

Best == -1    \* the id of "Best Location"
Worker == {"main", "auto"}

SwitchInit ==
  /\ rows \in SUBSET Profile /\ profileId = 0
  /\ currentId = Best /\ worker = [t \in Worker |-> "none"] /\ target = [t \in Worker |-> 0]
  /\ view = "Stopped"
  /\ svc = "Stopped" /\ starting = FALSE /\ using = 0 /\ restart = FALSE /\ receiver = FALSE
  /\ startSent = FALSE /\ reloadSent = FALSE /\ missed = FALSE

-----------------------------------------------------------------------------
(* The table.                                                              *)

Synchronise ==
  /\ rows' \in SUBSET Profile
  /\ UNCHANGED <<profileId, uiVars, svcVars, sentVars>>

-----------------------------------------------------------------------------
(* MainActivity.                                                           *)

Goto(t, pc) == worker' = [worker EXCEPT ![t] = pc]

\* onProfileChanged() with a negative id: a thread that waits for bestProfileThread.
\* There is one at a time here.
ChooseBest == worker["auto"] = "none" /\ Goto("auto", "join")

\* onProfileChanged() of an item in the list of locations, which may be gone meanwhile.
OnProfileChanged ==
  /\ worker["main"] = "none"
  /\ \/ ChooseBest /\ currentId' = Best /\ UNCHANGED target
     \/ \E id \in Profile \ {currentId} :
          /\ Goto("main", "switch") /\ target' = [target EXCEPT !["main"] = id]
          /\ currentId' = id
  /\ UNCHANGED <<rows, profileId, view, svcVars, sentVars>>

\* onClickConnectButton() with the service stopped: onProfileChanged(currentProfileId),
\* which has nothing to do for a profile, and startService() at once.
OnClickConnectButton ==
  /\ worker["main"] = "none" /\ view = "Stopped"
  /\ IF currentId = Best THEN ChooseBest ELSE UNCHANGED worker
  /\ startSent' = TRUE
  /\ UNCHANGED <<rows, profileId, currentId, target, view, svcVars, reloadSent, missed>>

\* bestProfileThread has ended, with a profile that was there once or with null.
JoinBest ==
  /\ worker["auto"] = "join"
  /\ \/ Goto("auto", "none") /\ UNCHANGED target
     \/ \E id \in Profile : Goto("auto", "switch") /\ target' = [target EXCEPT !["auto"] = id]
  /\ UNCHANGED <<rows, profileId, currentId, view, svcVars, sentVars>>

\* Core.switchProfile(): the profile, or a new one if it is gone, is selected.
SwitchProfile(t) ==
  /\ worker[t] = "switch"
  /\ IF target[t] \in rows
     THEN profileId' = target[t] /\ UNCHANGED rows
     ELSE profileId' \in Profile \ (rows \cup {target[t]}) /\ rows' = rows \cup {profileId'}
  /\ Goto(t, "reload") /\ target' = [target EXCEPT ![t] = 0]
  /\ UNCHANGED <<currentId, view, svcVars, sentVars>>

\* if (state == State.Connected) Core.reloadService(): the broadcast is for a receiver
\* that is registered now.
ReloadService(t) ==
  /\ worker[t] = "reload"
  /\ Goto(t, "none")
  /\ IF view = "Connected" /\ receiver
     THEN reloadSent' = TRUE /\ UNCHANGED missed
     ELSE missed' = TRUE /\ UNCHANGED reloadSent
  /\ UNCHANGED <<rows, profileId, currentId, target, view, svcVars, startSent>>

\* stateChanged(), which may be several states late (see Binder).
StateChanged ==
  /\ view' \in {"Stopped", "Connecting", "Connected", "Stopping"}
  /\ UNCHANGED <<rows, profileId, currentId, worker, target, svcVars, sentVars>>

\* The app's process dies and the app is opened again.
Reopen ==
  /\ currentId' = Best /\ view' = "Stopped"
  /\ worker' = [t \in Worker |-> "none"] /\ target' = [t \in Worker |-> 0]
  /\ missed' = (missed \/ \E t \in Worker : worker[t] = "reload")
  /\ UNCHANGED <<rows, profileId, svcVars, startSent, reloadSent>>

-----------------------------------------------------------------------------
(* The service.                                                            *)

\* onStartCommand() reads Core.currentProfile, and stops if there is none or if
\* ProxyInstance() does not accept it.
CurrentProfile ==
  /\ startSent /\ ~starting
  /\ startSent' = FALSE
  /\ \/ svc # "Stopped" /\ UNCHANGED <<svcVars, missed>>
     \/ /\ svc = "Stopped" /\ profileId \in rows
        /\ starting' = TRUE /\ using' = profileId /\ missed' = FALSE
        /\ UNCHANGED <<svc, restart, receiver>>
     \/ /\ svc = "Stopped"
        /\ svc' = "Stopping"
        /\ UNCHANGED <<starting, using, restart, receiver, missed>>
  /\ UNCHANGED <<rows, profileId, uiVars, reloadSent>>

\* It registers closeReceiver and is Connecting.
Register ==
  /\ starting
  /\ starting' = FALSE /\ receiver' = TRUE /\ svc' = "Connecting"
  /\ UNCHANGED <<rows, profileId, uiVars, using, restart, sentVars>>

SvcConnected ==
  /\ svc = "Connecting"
  /\ svc' = "Connected"
  /\ UNCHANGED <<rows, profileId, uiVars, starting, using, restart, receiver, sentVars>>

\* stopRunner() after a failure or a CLOSE, which the connect button sends, too.
StopRunner ==
  /\ svc \in {"Connecting", "Connected"}
  /\ svc' = "Stopping"
  /\ UNCHANGED <<rows, profileId, uiVars, starting, using, restart, receiver, sentVars>>

\* Mutant: only a connected service is restarted.
ForceLoadConnected ==
  /\ reloadSent
  /\ reloadSent' = FALSE
  /\ IF svc = "Connected" THEN svc' = "Stopping" /\ restart' = TRUE ELSE UNCHANGED <<svc, restart>>
  /\ UNCHANGED <<rows, profileId, uiVars, starting, using, receiver, startSent, missed>>

\* RELOAD: forceLoad(), which has no effect on a service that is Stopping.
ForceLoad ==
  /\ reloadSent
  /\ reloadSent' = FALSE
  /\ IF svc \in {"Connecting", "Connected"} THEN svc' = "Stopping" /\ restart' = TRUE
     ELSE UNCHANGED <<svc, restart>>
  /\ UNCHANGED <<rows, profileId, uiVars, starting, using, receiver, startSent, missed>>

\* The end of stopRunner(): the receiver is gone, and with it what was sent to it.
StopEnds ==
  /\ svc = "Stopping"
  /\ svc' = "Stopped" /\ receiver' = FALSE /\ reloadSent' = FALSE /\ using' = 0
  /\ restart' = FALSE /\ startSent' = (startSent \/ restart)
  /\ UNCHANGED <<rows, profileId, uiVars, starting, missed>>

-----------------------------------------------------------------------------
SwitchNext ==
  \/ Synchronise \/ OnProfileChanged \/ OnClickConnectButton \/ JoinBest \/ StateChanged \/ Reopen
  \/ \E t \in Worker : SwitchProfile(t) \/ ReloadService(t)
  \/ CurrentProfile \/ Register \/ SvcConnected \/ StopRunner \/ ForceLoad \/ StopEnds

SwitchSpec == SwitchInit /\ [][SwitchNext]_switchVars

-----------------------------------------------------------------------------
(* Properties.                                                             *)

\* A connected service runs with the selected profile or is about to be restarted,
\* unless a switch was made when MainActivity did not believe it to be connected, or
\* before it listened: selecting a profile and reloading are two steps, and
\* starts, stops and restarts of the service may come anywhere between them.
RunsSelected ==
  svc = "Connected" /\ using # profileId =>
    reloadSent \/ missed \/ \E t \in Worker : worker[t] = "reload"

=============================================================================
