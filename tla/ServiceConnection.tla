-------------------------- MODULE ServiceConnection --------------------------
(***************************************************************************)
(* ShadowsocksConnection.kt when the service's process dies.  Android then *)
(* tells the app twice: as a ServiceConnection on its main thread, and as  *)
(* a DeathRecipient on a binder thread, which has the main thread bind     *)
(* anew.  Neither waits for the other, nor for the next process of the     *)
(* service, which Android starts because the app is bound to it.           *)
(*                                                                         *)
(* Binder has what the two processes tell each other while both live.      *)
(***************************************************************************)
EXTENDS Naturals

CONSTANT MaxDeaths    \* bound on the deaths of the service

ASSUME DeathsAssumption == MaxDeaths \in Nat

VARIABLES
  activity,  \* of MainActivity: new, alive or destroyed
  link,      \* the fields of ShadowsocksConnection; a binder is the number of its process
  main,      \* where the main thread is in onServiceConnected(), and with which binder
  recipient, \* where a binder thread is in binderDied()
  waiting,   \* how many calls of onBinderDied() wait for the main thread
  linked,    \* the binders with linkToDeath(), until their death is reported
  reported,  \* the binder of which the connection was told
  proc,      \* the service: the number of its process, and if it lives
  reg,       \* the callback is registered with it
  late,      \* a oneway unregisterCallback() is on its way to it
  overtaken, \* history: the last registerCallback() overtook it
  seen       \* the binder whose state the activity showed last

connVars == <<activity, link, main, recipient, waiting, linked, reported, proc, reg, late,
              overtaken, seen>>

NoBinder == 0

ConnInit ==
  /\ activity = "new"
  /\ link = [active |-> FALSE, callback |-> FALSE, registered |-> FALSE,
             binder |-> NoBinder, service |-> NoBinder]
  /\ main = [pc |-> "idle", binder |-> NoBinder] /\ recipient = "idle" /\ waiting = 0
  /\ linked = {} /\ reported = NoBinder
  /\ proc = [id |-> 0, up |-> FALSE] /\ reg = FALSE /\ late = FALSE
  /\ overtaken = FALSE /\ seen = NoBinder

Alive(b) == proc.up /\ proc.id = b

-----------------------------------------------------------------------------
(* The service's process.                                                  *)

Start ==
  /\ ~proc.up
  /\ proc' = [id |-> proc.id + 1, up |-> TRUE]
  /\ UNCHANGED <<activity, link, main, recipient, waiting, linked, reported, reg, late,
                 overtaken, seen>>

Kill ==
  /\ proc.up /\ proc.id <= MaxDeaths
  /\ proc' = [proc EXCEPT !.up = FALSE]
  /\ reg' = FALSE /\ late' = FALSE
  /\ UNCHANGED <<activity, link, main, recipient, waiting, linked, reported, overtaken, seen>>

\* The oneway call arrives.
ArriveLate ==
  /\ late
  /\ late' = FALSE /\ reg' = FALSE
  /\ UNCHANGED <<activity, link, main, recipient, waiting, linked, reported, proc,
                 overtaken, seen>>

-----------------------------------------------------------------------------
(* What the main thread calls.                                             *)

\* connect(): bindService() with BIND_AUTO_CREATE.
Connect(k) == IF k.active THEN k ELSE [k EXCEPT !.active = TRUE, !.callback = TRUE]

\* unregisterCallback() tells a service that lives.
Unregister == late' = (late \/ (link.registered /\ Alive(link.service)))

\* disconnect(), on the fields.
Disconnect(k) ==
  [k EXCEPT !.registered = FALSE, !.active = FALSE, !.callback = FALSE,
            !.binder = NoBinder, !.service = NoBinder]

OnCreate ==
  /\ activity = "new"
  /\ activity' = "alive" /\ link' = Connect(link)
  /\ UNCHANGED <<main, recipient, waiting, linked, reported, proc, reg, late, overtaken, seen>>

OnDestroy ==
  /\ main.pc = "idle" /\ activity = "alive"
  /\ activity' = "destroyed"
  /\ Unregister /\ link' = Disconnect(link)
  /\ linked' = linked \ {link.binder} /\ reported' = NoBinder
  /\ UNCHANGED <<main, recipient, waiting, proc, reg, overtaken, seen>>

\* onBinderDied() of the activity, which may be destroyed meanwhile.
OnBinderDied ==
  /\ main.pc = "idle" /\ waiting > 0
  /\ waiting' = waiting - 1
  /\ Unregister /\ link' = Connect(Disconnect(link))
  /\ linked' = linked \ {link.binder} /\ reported' = NoBinder
  /\ UNCHANGED <<activity, main, recipient, proc, reg, overtaken, seen>>

-----------------------------------------------------------------------------
(* ServiceConnection, on the main thread.                                  *)

\* Mutant: without unregisterCallback().
DisconnectedKeeps(k) == [k EXCEPT !.service = NoBinder, !.binder = NoBinder]

\* onServiceDisconnected(), on the fields: the service it would tell is dead.
Disconnected(k) == [k EXCEPT !.registered = FALSE, !.service = NoBinder, !.binder = NoBinder]

OnServiceDisconnected ==
  /\ main.pc = "idle" /\ reported # NoBinder /\ ~Alive(reported)
  /\ link' = Disconnected(link) /\ reported' = NoBinder
  /\ UNCHANGED <<activity, main, recipient, waiting, linked, proc, reg, late, overtaken, seen>>

\* onServiceConnected(), which Android has preceded by onServiceDisconnected() if it had
\* reported another binder, up to the fields binder and service, ...
OnServiceConnected ==
  /\ main.pc = "idle" /\ link.active /\ proc.up /\ reported # proc.id
  /\ LET k == IF reported = NoBinder THEN link ELSE Disconnected(link)
     IN  link' = [k EXCEPT !.binder = proc.id, !.service = proc.id]
  /\ reported' = proc.id
  /\ main' = [pc |-> "link", binder |-> proc.id]
  /\ UNCHANGED <<activity, recipient, waiting, linked, proc, reg, late, overtaken, seen>>

\* ... linkToDeath(), which throws if the service is dead already, ...
LinkToDeath ==
  /\ main.pc = "link"
  /\ IF Alive(main.binder)
     THEN linked' = linked \cup {main.binder} /\ main' = [main EXCEPT !.pc = "register"]
     ELSE main' = [main EXCEPT !.pc = "show"] /\ UNCHANGED linked
  /\ UNCHANGED <<activity, link, recipient, waiting, reported, proc, reg, late, overtaken, seen>>

\* ... registerCallback(), after a check that ends the app if it fails, ...
RegisterCallback ==
  /\ main.pc = "register"
  /\ main' = [main EXCEPT !.pc = IF link.registered THEN "crashed"
                                 ELSE IF Alive(main.binder) THEN "registered" ELSE "show"]
  /\ IF ~link.registered /\ Alive(main.binder)
     THEN reg' = TRUE /\ overtaken' = late
     ELSE UNCHANGED <<reg, overtaken>>
  /\ UNCHANGED <<activity, link, recipient, waiting, linked, reported, proc, late, seen>>

\* ... callbackRegistered = true, ...
SetRegistered ==
  /\ main.pc = "registered"
  /\ link' = [link EXCEPT !.registered = TRUE]
  /\ main' = [main EXCEPT !.pc = "show"]
  /\ UNCHANGED <<activity, recipient, waiting, linked, reported, proc, reg, late, overtaken, seen>>

\* ... and onServiceConnected() of the activity, which shows the state, or Idle.
ShowState ==
  /\ main.pc = "show"
  /\ seen' = IF Alive(main.binder) THEN main.binder ELSE NoBinder
  /\ main' = [pc |-> "idle", binder |-> NoBinder]
  /\ UNCHANGED <<activity, link, recipient, waiting, linked, reported, proc, reg, late, overtaken>>

-----------------------------------------------------------------------------
(* DeathRecipient.binderDied(), line by line, on a binder thread.          *)

DiedService ==
  /\ recipient = "idle"
  /\ \E b \in linked : ~Alive(b) /\ linked' = linked \ {b}
  /\ link' = [link EXCEPT !.service = NoBinder]
  /\ recipient' = "flag"
  /\ UNCHANGED <<activity, main, waiting, reported, proc, reg, late, overtaken, seen>>

DiedFlag ==
  /\ recipient = "flag"
  /\ link' = [link EXCEPT !.registered = FALSE]
  /\ recipient' = "post"
  /\ UNCHANGED <<activity, main, waiting, linked, reported, proc, reg, late, overtaken, seen>>

DiedPost ==
  /\ recipient = "post"
  /\ waiting' = IF link.callback THEN waiting + 1 ELSE waiting
  /\ recipient' = "idle"
  /\ UNCHANGED <<activity, link, main, linked, reported, proc, reg, late, overtaken, seen>>

-----------------------------------------------------------------------------
Recipient == DiedService \/ DiedFlag \/ DiedPost

Handler ==
  \/ OnBinderDied \/ OnServiceDisconnected \/ OnServiceConnected
  \/ LinkToDeath \/ RegisterCallback \/ SetRegistered \/ ShowState

ConnNext == Start \/ Kill \/ ArriveLate \/ OnCreate \/ OnDestroy \/ Handler \/ Recipient

ConnSpec == ConnInit /\ [][ConnNext]_connVars

(* Both threads of the app run, a oneway call arrives, a death is          *)
(* reported, and Android starts the service the app is bound to.           *)
ConnFair ==
  /\ WF_connVars(Handler) /\ WF_connVars(OnBinderDied) /\ WF_connVars(Recipient)
  /\ WF_connVars(ArriveLate) /\ WF_connVars(link.active /\ Start)

-----------------------------------------------------------------------------
(* Properties.                                                             *)

\* When the service no longer dies, a living activity ends up with the process that
\* lives: service is its binder, the callback is registered with it, and its state
\* was shown, in whichever order the deaths and the new process were reported and
\* wherever binderDied() came between the lines of onServiceConnected().  In
\* particular its check(!callbackRegistered) never fails.  It excepts a
\* registerCallback() that overtook the oneway unregisterCallback() before it.
Reattached ==
  <>[](activity = "alive" /\ proc.up /\ ~overtaken) =>
    <>[](link.registered /\ reg /\ {link.service, seen} = {proc.id})

=============================================================================
