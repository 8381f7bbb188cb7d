----------------------- MODULE DefaultNetworkListener -----------------------
(***************************************************************************)
(* DefaultNetworkListener.kt and how VpnService.kt uses it: which network  *)
(* the VPN sends its own traffic through.                                  *)
(*                                                                         *)
(* networkActor handles one message at a time, so an action here handles a *)
(* whole message.  The messages of the service come from the main thread;  *)
(* those of the system come from a queue of callbacks, which run on the    *)
(* main thread from API 26 on and on a thread of their own before.         *)
(***************************************************************************)
EXTENDS Naturals, Sequences

CONSTANTS Net,           \* the networks of the device
          None,          \* null
          MaxInstance,   \* bound on the instances of VpnService
          MaxCallbacks,  \* bound on the callbacks that are queued at once
          Sdk            \* the values of Build.VERSION.SDK_INT

ASSUME NetworkAssumption == None \notin Net /\ MaxInstance \in Nat \ {0} /\ Sdk \subseteq Nat

(* The key of Start is the VpnService.  That of Stop is not: line 130 of   *)
(* VpnService.kt passes the scope of the coroutine it is written in.       *)
Instance == 1 .. MaxInstance
Scope    == 0

VARIABLES
  \* of the actor
  listeners,          \* the keys of its map
  network,            \* the network it knows
  pending,            \* instances with a Get in pendingRequests
  fallback,           \* registering has failed (API 23)
  \* of the system
  sdk,                \* the API level, which does not change
  registered,         \* how many times Callback is registered
  current,            \* the default network of the device
  callbacks,          \* the callbacks that have not run yet
  \* of VpnService
  instance,           \* the instance that is alive
  session,            \* how far its connecting coroutine got
  underlyingNetwork,  \* the field of each instance
  active,             \* the instances in which the field of that name is set
  builder,            \* what startVpn() gave to the builder
  vpnNetwork          \* the network the system takes the VPN to run on

actorVars   == <<listeners, network, pending, fallback>>
systemVars  == <<sdk, registered, current, callbacks>>
serviceVars == <<instance, session, active, builder>>
vars == <<actorVars, systemVars, serviceVars, underlyingNetwork, vpnNetwork>>

Init ==
  /\ listeners = {}
  /\ network = None
  /\ pending = {}
  /\ fallback = FALSE
  /\ sdk \in Sdk
  /\ registered = 0
  /\ current \in Net \cup {None}
  /\ callbacks = <<>>
  /\ instance = 1
  /\ session = "none"
  /\ underlyingNetwork = [i \in Instance |-> None]
  /\ active = {}
  /\ builder = None
  /\ vpnNetwork = None

\* The listeners are called with n: each sets its underlyingNetwork, and an active
\* one hands it to the system, which ignores it unless the VPN is established.
Tell(keys, n) ==
  /\ underlyingNetwork' = [i \in Instance |-> IF i \in keys THEN n ELSE underlyingNetwork[i]]
  /\ vpnNetwork' = IF instance \in keys \cap active /\ session = "established"
                   THEN n ELSE vpnNetwork

-----------------------------------------------------------------------------
(* The system.                                                             *)

\* The callbacks that follow a change of the default network from o to n.  When
\* there is a new network, the loss of the old one may be reported as well, and
\* late.
Report(o, n) ==
  IF n = None THEN {<<[type |-> "Lost", network |-> o]>>}
  ELSE LET put  == <<[type |-> "Put", network |-> n]>>
           lost == <<[type |-> "Lost", network |-> o]>>
       IN  {put} \cup (IF o = None THEN {} ELSE {put \o lost, lost \o put})

NetworkChanges(n) ==
  /\ n # current
  /\ \E r \in Report(current, n) :
       callbacks' = IF registered > 0 THEN callbacks \o r ELSE callbacks
  /\ Len(callbacks') <= MaxCallbacks
  /\ current' = n
  /\ UNCHANGED <<actorVars, sdk, registered, serviceVars, underlyingNetwork, vpnNetwork>>

CapabilitiesChange ==
  /\ registered > 0 /\ current # None /\ Len(callbacks) < MaxCallbacks
  /\ callbacks' = Append(callbacks, [type |-> "Update", network |-> current])
  /\ UNCHANGED <<actorVars, registered, sdk, current, serviceVars, underlyingNetwork, vpnNetwork>>

\* Mutant: Callback is registered without mainHandler.
CallbackRunsAnywhere(type) ==
  /\ callbacks # <<>> /\ Head(callbacks).type = type
  /\ callbacks' = Tail(callbacks)
  /\ UNCHANGED <<registered, sdk, current, serviceVars, listeners, fallback>>

\* A callback can run: on the main thread it cannot while startVpn() does.
CallbackRuns(type) ==
  /\ callbacks # <<>> /\ Head(callbacks).type = type
  /\ sdk >= 26 => session # "building"
  /\ callbacks' = Tail(callbacks)
  /\ UNCHANGED <<registered, sdk, current, serviceVars, listeners, fallback>>

\* Mutant: the pending requests are not completed.
PutForgetsRequests ==
  /\ CallbackRuns("Put")
  /\ network' = Head(callbacks).network
  /\ Tell(listeners, network')
  /\ UNCHANGED pending

Put ==
  /\ CallbackRuns("Put")
  /\ network' = Head(callbacks).network
  /\ pending' = {}
  /\ Tell(listeners, network')

Update ==
  /\ CallbackRuns("Update")
  /\ IF network = Head(callbacks).network
     THEN Tell(listeners, network)
     ELSE UNCHANGED <<underlyingNetwork, vpnNetwork>>
  /\ UNCHANGED <<network, pending>>

Lost ==
  /\ CallbackRuns("Lost")
  /\ IF network = Head(callbacks).network
     THEN network' = None /\ Tell(listeners, None)
     ELSE UNCHANGED <<network, underlyingNetwork, vpnNetwork>>
  /\ UNCHANGED pending

-----------------------------------------------------------------------------
(* VpnService, on the main thread.                                         *)

\* register(): the system reports the current network.  On API 23 it may throw.
register ==
  \/ /\ registered' = registered + 1
     /\ fallback' = FALSE
     /\ callbacks' = IF current = None THEN callbacks
                     ELSE Append(callbacks, [type |-> "Put", network |-> current])
  \/ /\ sdk = 23
     /\ fallback' = TRUE
     /\ UNCHANGED <<registered, callbacks>>

\* Mutant: every Start registers.
StartRegisters ==
  /\ session = "none"
  /\ session' = "prepared"
  /\ register
  /\ listeners' = listeners \cup {instance}
  /\ IF network # None THEN Tell({instance}, network)
                       ELSE UNCHANGED <<underlyingNetwork, vpnNetwork>>
  /\ UNCHANGED <<network, pending, sdk, current, instance, active, builder>>

\* preInit(): the message Start.
Start ==
  /\ session = "none"
  /\ session' = "prepared"
  /\ IF listeners = {} THEN register ELSE UNCHANGED <<registered, fallback, callbacks>>
  /\ listeners' = listeners \cup {instance}
  /\ IF network # None THEN Tell({instance}, network)
                       ELSE UNCHANGED <<underlyingNetwork, vpnNetwork>>
  /\ UNCHANGED <<network, pending, sdk, current, instance, active, builder>>

\* openConnection() for a profile with custom rules: the message Get.  With
\* fallback the active network is returned at once, and the rules are fetched.
Get ==
  /\ session = "prepared" /\ ~fallback
  /\ session' = "getting"
  /\ pending' = IF network = None THEN pending \cup {instance} ELSE pending
  /\ UNCHANGED <<listeners, network, fallback, systemVars, instance, active, builder,
                 underlyingNetwork, vpnNetwork>>

\* response.await() returns.
Got ==
  /\ session = "getting" /\ instance \notin pending
  /\ session' = "prepared"
  /\ UNCHANGED <<actorVars, systemVars, instance, active, builder, underlyingNetwork, vpnNetwork>>

\* startVpn() up to builder.setUnderlyingNetworks().
startVpn ==
  /\ session = "prepared"
  /\ session' = "building"
  /\ active' = active \cup {instance}
  /\ builder' = underlyingNetwork[instance]
  /\ UNCHANGED <<actorVars, systemVars, instance, underlyingNetwork, vpnNetwork>>

\* builder.establish(); when it returns null the session fails (see killProcesses).
establish ==
  /\ session = "building"
  /\ session' = "established"
  /\ vpnNetwork' = builder
  /\ UNCHANGED <<actorVars, systemVars, instance, active, builder, underlyingNetwork>>

\* The message Stop for key.
Stop(key) ==
  IF key \in listeners /\ listeners = {key}
  THEN /\ listeners' = {} /\ network' = None
       /\ registered' = IF registered > 0 THEN registered - 1 ELSE 0
  ELSE /\ listeners' = listeners \ {key}
       /\ UNCHANGED <<network, registered>>

\* The end of a session, wherever it was: conn is closed, Stop is sent.
killProcesses ==
  /\ session # "none"
  /\ session' = "none"
  /\ active' = active \ {instance}
  /\ vpnNetwork' = None
  /\ Stop(Scope)
  /\ UNCHANGED <<pending, fallback, sdk, current, callbacks, instance, builder, underlyingNetwork>>

\* stopSelf() took effect; a later start creates another instance.
Destroy ==
  /\ session = "none" /\ instance < MaxInstance
  /\ instance' = instance + 1
  /\ UNCHANGED <<actorVars, systemVars, session, active, builder, underlyingNetwork, vpnNetwork>>

-----------------------------------------------------------------------------
CallbackStep == Put \/ Update \/ Lost
SystemStep   == CapabilitiesChange \/ \E n \in Net \cup {None} : NetworkChanges(n)
ServiceStep  == Get \/ Got \/ startVpn \/ establish

Next == CallbackStep \/ SystemStep \/ ServiceStep \/ Start \/ killProcesses \/ Destroy

Spec == Init /\ [][Next]_vars

(* Callbacks get their thread, a response is received, and startVpn() does *)
(* not stop half-way.  The user and the networks are free.                 *)
Fairness == WF_vars(CallbackStep) /\ WF_vars(Got) /\ WF_vars(establish)

FairSpec == Spec /\ Fairness

-----------------------------------------------------------------------------
(* Properties.                                                             *)

TypeOK ==
  /\ listeners \subseteq Instance
  /\ network \in Net \cup {None}
  /\ pending \subseteq Instance
  /\ fallback \in BOOLEAN
  /\ sdk \in Sdk
  /\ registered \in Nat
  /\ current \in Net \cup {None}
  /\ callbacks \in Seq([type : {"Put", "Update", "Lost"}, network : Net])
  /\ instance \in Instance
  /\ session \in {"none", "prepared", "getting", "building", "established"}
  /\ underlyingNetwork \in [Instance -> Net \cup {None}]
  /\ active \subseteq Instance
  /\ builder \in Net \cup {None}
  /\ vpnNetwork \in Net \cup {None}

(* A VpnService that listens knows what the actor knows: no session begins *)
(* with a network left over from an earlier one (lines 56-60 and 71-81).   *)
ListenersAgree == \A i \in listeners : underlyingNetwork[i] = network

(* Callback is registered once for all listeners, and while there are any, *)
(* unless registering failed (lines 57 and 65-69): the system limits the   *)
(* requests of an app.                                                     *)
RegisteredOnce == registered = IF listeners = {} \/ fallback THEN 0 ELSE 1

(* Once every callback has run, whatever their order and whichever losses  *)
(* are reported late, the actor has the device's network (lines 71-81).    *)
(* From API 26 on so has the system for the VPN: no change of network gets *)
(* lost between setUnderlyingNetworks() and establish() ("possible race    *)
(* condition here?", line 205 of VpnService.kt).                           *)
VpnFollows ==
  callbacks = <<>> /\ registered > 0 =>
    /\ network = current
    /\ sdk >= 26 /\ session = "established" => vpnNetwork = current

(* Fetching custom rules does not wait for ever for a network when there   *)
(* is one (lines 61-64 and 73).                                            *)
GetIsAnswered ==
  <>[](current # None) => (session = "getting" ~> session # "getting")
=============================================================================
