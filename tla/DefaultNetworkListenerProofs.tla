-------------------- MODULE DefaultNetworkListenerProofs --------------------
(***************************************************************************)
(* Proofs about DefaultNetworkListener, for any set of networks, any       *)
(* number of instances of VpnService, any number of queued callbacks and   *)
(* any API level.                                                          *)
(*                                                                         *)
(* ListenersAgree is not inductive: Start adds a listener and tells it the *)
(* network only if there is one, so a service that does not listen yet     *)
(* must have nothing left over.  That is so because no listener ever goes  *)
(* away (Stop gets the wrong key).                                         *)
(*                                                                         *)
(* VpnFollows is about an empty queue.  QueueLeads is what makes it so: at *)
(* any time the callbacks in the queue lead from the network the actor has *)
(* to the one the device has.                                              *)
(***************************************************************************)
EXTENDS DefaultNetworkListener, SequenceTheorems, TLAPS

NothingLeftOver == \A i \in Instance \ listeners : underlyingNetwork[i] = None

IInv == TypeOK /\ ListenersAgree /\ NothingLeftOver /\ RegisteredOnce

\* What the system reports names a network, never null.
LEMMA ReportType ==
  ASSUME NEW o \in Net \cup {None}, NEW n \in Net \cup {None}, n # o,
         NEW r \in Report(o, n)
  PROVE  r \in Seq([type : {"Put", "Update", "Lost"}, network : Net])
<1> DEFINE T == [type : {"Put", "Update", "Lost"}, network : Net]
           put == [type |-> "Put", network |-> n]
           lost == [type |-> "Lost", network |-> o]
<1>1. CASE n = None
  <2>1. lost \in T
    BY <1>1
  <2>2. r = <<lost>>
    BY <1>1 DEF Report
  <2> HIDE DEF T, lost
  <2>3. r \in Seq(T)
    BY <2>1, <2>2
  <2> QED BY <2>3 DEF T
<1>2. CASE n # None /\ o = None
  <2>1. put \in T
    BY <1>2
  <2>2. r = <<put>>
    <3>1. Report(o, n) = {<<put>>} \cup {}
      BY <1>2, Zenon DEF Report
    <3> QED BY <3>1, Zenon
  <2> HIDE DEF T, put
  <2>3. r \in Seq(T)
    BY <2>1, <2>2
  <2> QED BY <2>3 DEF T
<1>3. CASE n # None /\ o # None
  <2>1. put \in T /\ lost \in T
    BY <1>3
  <2>2. r = <<put>> \/ r = <<put>> \o <<lost>> \/ r = <<lost>> \o <<put>>
    <3>1. Report(o, n) = {<<put>>} \cup {<<put>> \o <<lost>>, <<lost>> \o <<put>>}
      BY <1>3, Zenon DEF Report
    <3> QED BY <3>1, Zenon
  <2> HIDE DEF T, put, lost
  <2>3. <<put>> \in Seq(T) /\ <<lost>> \in Seq(T)
    BY <2>1
  <2> DEFINE p == <<put>>
             l == <<lost>>
  <2>4. p \in Seq(T) /\ l \in Seq(T) /\ (r = p \/ r = p \o l \/ r = l \o p)
    BY <2>2, <2>3
  <2> HIDE DEF p, l
  <2>5. p \o l \in Seq(T) /\ l \o p \in Seq(T)
    BY <2>4, ConcatProperties
  <2>6. r \in Seq(T)
    BY <2>4, <2>5, Zenon
  <2> QED BY <2>6 DEF T
<1> QED BY <1>1, <1>2, <1>3

\* Calling all listeners, or none, with the network the actor ends up with keeps
\* them in agreement.
LEMMA TellAll ==
  ASSUME IInv, NEW n \in Net \cup {None}, Tell(listeners, n),
         network' = n, UNCHANGED listeners
  PROVE  /\ ListenersAgree' /\ NothingLeftOver'
         /\ underlyingNetwork' \in [Instance -> Net \cup {None}]
         /\ vpnNetwork' \in Net \cup {None}
BY DEF IInv, TypeOK, Tell, ListenersAgree, NothingLeftOver

\* A callback leaves the queue well-formed and names a network.
LEMMA CallbackType ==
  ASSUME IInv, NEW t, CallbackRuns(t)
  PROVE  /\ Head(callbacks).network \in Net
         /\ callbacks' \in Seq([type : {"Put", "Update", "Lost"}, network : Net])
         /\ RegisteredOnce'
<1> DEFINE T == [type : {"Put", "Update", "Lost"}, network : Net]
<1>1. callbacks \in Seq(T) /\ callbacks # <<>>
  BY DEF IInv, TypeOK, CallbackRuns
<1> HIDE DEF T
<1>2. Head(callbacks) \in T /\ Tail(callbacks) \in Seq(T)
  BY <1>1
<1>3. Head(callbacks).network \in Net
  BY <1>2 DEF T
<1>4. RegisteredOnce'
  BY DEF IInv, RegisteredOnce, CallbackRuns
<1> QED BY <1>2, <1>3, <1>4 DEF CallbackRuns, T

\* register() adds one registration, or fails.
LEMMA RegisterType ==
  ASSUME IInv, register, listeners = {}
  PROVE  /\ fallback' \in BOOLEAN
         /\ registered' = IF fallback' THEN 0 ELSE 1
         /\ callbacks' \in Seq([type : {"Put", "Update", "Lost"}, network : Net])
<1>1. registered = 0
  BY DEF IInv, RegisteredOnce
<1>2. CASE /\ registered' = registered + 1
           /\ fallback' = FALSE
           /\ callbacks' = IF current = None THEN callbacks
                           ELSE Append(callbacks, [type |-> "Put", network |-> current])
  <2> DEFINE T == [type : {"Put", "Update", "Lost"}, network : Net]
             put == [type |-> "Put", network |-> current]
  <2>1. callbacks \in Seq(T) /\ (current # None => put \in T)
    BY DEF IInv, TypeOK
  <2>2. callbacks' = callbacks \/ (current # None /\ callbacks' = Append(callbacks, put))
    BY <1>2
  <2> HIDE DEF T, put
  <2>3. callbacks' \in Seq(T)
    BY <2>1, <2>2
  <2>4. fallback' = FALSE /\ registered' = 1
    BY <1>1, <1>2
  <2> QED BY <2>3, <2>4 DEF T
<1>3. CASE fallback' = TRUE /\ UNCHANGED <<registered, callbacks>>
  BY <1>1, <1>3 DEF IInv, TypeOK
<1> QED BY <1>2, <1>3 DEF register

\* Every step preserves the invariant.
LEMMA NextIInv ==
  ASSUME IInv, [Next]_vars
  PROVE  IInv'
<1> USE NetworkAssumption
<1>1. CASE Put
  <2>1. /\ network' \in Net \cup {None} /\ UNCHANGED listeners
        /\ Tell(listeners, network') /\ CallbackRuns("Put") /\ pending' = {}
    BY <1>1, CallbackType DEF Put, CallbackRuns
  <2>2. ListenersAgree' /\ NothingLeftOver' /\ RegisteredOnce'
    BY <2>1, TellAll, CallbackType
  <2>3. TypeOK'
    BY <2>1, TellAll, CallbackType DEF IInv, TypeOK, CallbackRuns, serviceVars
  <2> QED BY <2>2, <2>3 DEF IInv
<1>2. CASE Update
  <2>1. CallbackRuns("Update") /\ UNCHANGED <<network, pending, listeners>>
    BY <1>2 DEF Update, CallbackRuns
  <2>2. /\ ListenersAgree' /\ NothingLeftOver'
        /\ underlyingNetwork' \in [Instance -> Net \cup {None}]
        /\ vpnNetwork' \in Net \cup {None}
    <3>1. CASE Tell(listeners, network)
      BY <2>1, <3>1, TellAll DEF IInv, TypeOK
    <3>2. CASE UNCHANGED <<underlyingNetwork, vpnNetwork>>
      BY <2>1, <3>2 DEF IInv, TypeOK, ListenersAgree, NothingLeftOver
    <3> QED BY <1>2, <3>1, <3>2 DEF Update
  <2>3. TypeOK'
    BY <2>1, <2>2, CallbackType DEF IInv, TypeOK, CallbackRuns, serviceVars
  <2> QED BY <2>1, <2>2, <2>3, CallbackType DEF IInv
<1>3. CASE Lost
  <2>1. CallbackRuns("Lost") /\ UNCHANGED <<pending, listeners>>
    BY <1>3 DEF Lost, CallbackRuns
  <2>2. /\ ListenersAgree' /\ NothingLeftOver' /\ network' \in Net \cup {None}
        /\ underlyingNetwork' \in [Instance -> Net \cup {None}]
        /\ vpnNetwork' \in Net \cup {None}
    <3>1. CASE network' = None /\ Tell(listeners, None)
      BY <2>1, <3>1, TellAll
    <3>2. CASE UNCHANGED <<network, underlyingNetwork, vpnNetwork>>
      BY <2>1, <3>2 DEF IInv, TypeOK, ListenersAgree, NothingLeftOver
    <3> QED BY <1>3, <3>1, <3>2 DEF Lost
  <2>3. TypeOK'
    BY <2>1, <2>2, CallbackType DEF IInv, TypeOK, CallbackRuns, serviceVars
  <2> QED BY <2>1, <2>2, <2>3, CallbackType DEF IInv
<1>4. CASE CapabilitiesChange
  <2>1. callbacks' \in Seq([type : {"Put", "Update", "Lost"}, network : Net])
    BY <1>4 DEF CapabilitiesChange, IInv, TypeOK
  <2> QED
    BY <1>4, <2>1 DEF CapabilitiesChange, IInv, TypeOK, ListenersAgree, NothingLeftOver,
                      RegisteredOnce, actorVars, serviceVars
<1>5. CASE \E n \in Net \cup {None} : NetworkChanges(n)
  <2>1. PICK n \in Net \cup {None} : NetworkChanges(n)
    BY <1>5
  <2>2. PICK r \in Report(current, n) :
          callbacks' = IF registered > 0 THEN callbacks \o r ELSE callbacks
    BY <2>1 DEF NetworkChanges
  <2> DEFINE T == [type : {"Put", "Update", "Lost"}, network : Net]
  <2>3. r \in Seq(T) /\ callbacks \in Seq(T)
    BY <2>1, ReportType DEF NetworkChanges, IInv, TypeOK
  <2> HIDE DEF T
  <2>4. callbacks' \in Seq(T)
    BY <2>2, <2>3
  <2> QED
    BY <2>1, <2>4 DEF NetworkChanges, IInv, TypeOK, ListenersAgree, NothingLeftOver,
                      RegisteredOnce, actorVars, serviceVars, T
<1>6. CASE Start
  <2>1. /\ fallback' \in BOOLEAN /\ RegisteredOnce'
        /\ callbacks' \in Seq([type : {"Put", "Update", "Lost"}, network : Net])
    <3>1. CASE listeners = {}
      BY <1>6, <3>1, RegisterType DEF Start, RegisteredOnce
    <3>2. CASE listeners # {}
      BY <1>6, <3>2 DEF Start, IInv, TypeOK, RegisteredOnce
    <3> QED BY <3>1, <3>2
  <2>2. /\ ListenersAgree' /\ NothingLeftOver'
        /\ underlyingNetwork' \in [Instance -> Net \cup {None}]
        /\ vpnNetwork' \in Net \cup {None}
    <3>1. CASE network # None
      BY <1>6, <3>1 DEF Start, Tell, IInv, TypeOK, ListenersAgree, NothingLeftOver
    <3>2. CASE network = None
      BY <1>6, <3>2 DEF Start, IInv, TypeOK, ListenersAgree, NothingLeftOver
    <3> QED BY <3>1, <3>2
  <2>3. registered' \in Nat
    BY <2>1 DEF RegisteredOnce
  <2>4. TypeOK'
    BY <1>6, <2>1, <2>2, <2>3 DEF Start, IInv, TypeOK
  <2> QED BY <2>1, <2>2, <2>4 DEF IInv
<1>7. CASE killProcesses
  <2>1. Scope \notin listeners
    BY DEF IInv, TypeOK, Scope, Instance
  <2>2. UNCHANGED <<listeners, network, registered>>
    BY <1>7, <2>1 DEF killProcesses, Stop
  <2> QED
    BY <1>7, <2>2 DEF killProcesses, IInv, TypeOK, ListenersAgree, NothingLeftOver, RegisteredOnce
<1>8. CASE Destroy
  <2>1. instance' \in Instance
    BY <1>8 DEF Destroy, IInv, TypeOK, Instance
  <2> QED
    BY <1>8, <2>1 DEF Destroy, IInv, TypeOK, ListenersAgree, NothingLeftOver, RegisteredOnce,
                      actorVars, systemVars
<1>9. CASE ServiceStep
  BY <1>9 DEF ServiceStep, Get, Got, startVpn, establish, IInv, TypeOK, ListenersAgree,
              NothingLeftOver, RegisteredOnce, actorVars, systemVars
<1>10. CASE UNCHANGED vars
  BY <1>10 DEF vars, actorVars, systemVars, serviceVars, IInv, TypeOK, ListenersAgree,
               NothingLeftOver, RegisteredOnce
<1> QED
  BY <1>1, <1>2, <1>3, <1>4, <1>5, <1>6, <1>7, <1>8, <1>9, <1>10
  DEF Next, CallbackStep, SystemStep

\* The invariant holds at first.
LEMMA InitIInv == Init => IInv
<1> SUFFICES ASSUME Init PROVE IInv
  OBVIOUS
<1>1. 1 \in Instance
  BY NetworkAssumption DEF Instance
<1>2. callbacks \in Seq([type : {"Put", "Update", "Lost"}, network : Net])
  BY DEF Init
<1>3. TypeOK
  BY <1>1, <1>2 DEF Init, TypeOK
<1> QED
  BY <1>3 DEF Init, IInv, ListenersAgree, NothingLeftOver, RegisteredOnce

\* The invariant holds always.
THEOREM NetworkInvariant == Spec => []IInv
BY InitIInv, NextIInv, PTL DEF Spec

\* Type correctness.
THEOREM NetworkTypeOK == Spec => []TypeOK
<1>1. IInv => TypeOK
  BY DEF IInv
<1> QED BY <1>1, NetworkInvariant, PTL

\* Every VpnService that listens, in whichever session, has the network the actor has:
\* networkActor calls all listeners on a change, and a new one when it starts.
THEOREM NetworkListenersAgree == Spec => []ListenersAgree
<1>1. IInv => ListenersAgree
  BY DEF IInv
<1> QED BY <1>1, NetworkInvariant, PTL

\* networkActor registers its callback once however many services have listened.
THEOREM NetworkRegisteredOnce == Spec => []RegisteredOnce
<1>1. IInv => RegisteredOnce
  BY DEF IInv
<1> QED BY <1>1, NetworkInvariant, PTL

-----------------------------------------------------------------------------
(* VpnFollows.  What the actor will have when the queue is empty is what   *)
(* the last Put tells it, or what it has if there is none, unless that     *)
(* network is lost afterwards.                                             *)

Callback == [type : {"Put", "Update", "Lost"}, network : Net]

CallbackOf(type, n) == [type |-> type, network |-> n]

\* No Put follows callback i of q; 0 stands for what the actor has.
IsLastPut(q, i) ==
  /\ i # 0 => q[i].type = "Put"
  /\ \A j \in i + 1 .. Len(q) : q[j].type # "Put"

Known(n, q, i) == IF i = 0 THEN n ELSE q[i].network

LostAfter(q, i, n) == \E j \in i + 1 .. Len(q) : q[j].type = "Lost" /\ q[j].network = n

\* An actor that has n, and is told q, will have d.
Leads(n, q, d) ==
  \A i \in 0 .. Len(q) :
    IsLastPut(q, i) => IF d = None THEN Known(n, q, i) = None \/ LostAfter(q, i, Known(n, q, i))
                       ELSE Known(n, q, i) = d /\ ~LostAfter(q, i, d)

QueueLeads ==
  /\ registered = 0 => callbacks = <<>> /\ network = None
  /\ registered # 0 => Leads(network, callbacks, current)

\* Between setUnderlyingNetworks() and establish() the main thread runs no callback.
VpnHas ==
  /\ session # "none" => instance \in listeners
  /\ session \in {"building", "established"} => instance \in active
  /\ sdk >= 26 /\ session = "building" => builder = network
  /\ sdk >= 26 /\ session = "established" => vpnNetwork = network

\* A Put is the last word.
LEMMA PutLeads ==
  ASSUME NEW q \in Seq(Callback), NEW n, NEW m \in Net
  PROVE  Leads(n, Append(q, CallbackOf("Put", m)), m)
<1> DEFINE e == CallbackOf("Put", m)
           k == Len(q) + 1
<1>1. e \in Callback /\ e.type = "Put" /\ e.network = m
  BY DEF Callback, CallbackOf
<1> HIDE DEF e
<1>2. Len(q) \in Nat /\ Len(Append(q, e)) = k /\ Append(q, e)[k] = e
  BY <1>1, AppendProperties
<1>3. ASSUME NEW i \in 0 .. k, IsLastPut(Append(q, e), i)
      PROVE  i = k
  BY <1>1, <1>2, <1>3 DEF IsLastPut
<1> QED BY <1>1, <1>2, <1>3, NetworkAssumption DEF Leads, Known, LostAfter, e

\* A callback that is no Put leaves the last one where it is.
LEMMA NoPut ==
  ASSUME NEW q \in Seq(Callback), NEW e \in Callback, e.type # "Put", NEW n,
         NEW i \in 0 .. Len(Append(q, e)), IsLastPut(Append(q, e), i)
  PROVE  /\ i \in 0 .. Len(q) /\ IsLastPut(q, i)
         /\ Known(n, Append(q, e), i) = Known(n, q, i)
         /\ \A m : LostAfter(Append(q, e), i, m)
                     <=> LostAfter(q, i, m) \/ (e.type = "Lost" /\ e.network = m)
<1> DEFINE p == Append(q, e)
           k == Len(q) + 1
<1>1. Len(q) \in Nat /\ Len(p) = k /\ p[k] = e /\ \A j \in 1 .. Len(q) : p[j] = q[j]
  BY AppendProperties
<1> HIDE DEF p
<1>2. i \in 0 .. k /\ IsLastPut(p, i)
  BY <1>1 DEF p
<1>3. i # k
  BY <1>1, <1>2 DEF IsLastPut
<1>4. i \in 0 .. Len(q) /\ k \in i + 1 .. Len(p)
  BY <1>1, <1>2, <1>3
<1>5. IsLastPut(q, i)
  BY <1>1, <1>2, <1>4 DEF IsLastPut
<1>6. Known(n, p, i) = Known(n, q, i)
  BY <1>1, <1>4 DEF Known
<1>7. ASSUME NEW m
      PROVE  LostAfter(p, i, m) <=> LostAfter(q, i, m) \/ (e.type = "Lost" /\ e.network = m)
  <2>1. ASSUME NEW j \in i + 1 .. Len(p) PROVE j = k \/ j \in i + 1 .. Len(q)
    BY <1>1, <1>4
  <2>2. ASSUME NEW j \in i + 1 .. Len(q) PROVE j \in i + 1 .. Len(p) /\ p[j] = q[j]
    BY <1>1, <1>4
  <2> QED BY <1>1, <1>4, <2>1, <2>2 DEF LostAfter
<1> QED BY <1>4, <1>5, <1>6, <1>7 DEF p

\* A change of capabilities and the late loss of another network change nothing.
LEMMA OthersLead ==
  ASSUME NEW q \in Seq(Callback), NEW e \in Callback, NEW n, NEW d \in Net, Leads(n, q, d),
         e.type = "Update" \/ (e.type = "Lost" /\ e.network # d)
  PROVE  Leads(n, Append(q, e), d)
BY NoPut, NetworkAssumption DEF Leads

\* The loss of the network leaves none.
LEMMA LostLeads ==
  ASSUME NEW q \in Seq(Callback), NEW n, NEW d \in Net, Leads(n, q, d)
  PROVE  Leads(n, Append(q, CallbackOf("Lost", d)), None)
<1> DEFINE e == CallbackOf("Lost", d)
<1>1. e \in Callback /\ e.type = "Lost" /\ e.network = d
  BY DEF Callback, CallbackOf
<1> HIDE DEF e
<1>2. ASSUME NEW i \in 0 .. Len(Append(q, e)), IsLastPut(Append(q, e), i)
      PROVE  LostAfter(Append(q, e), i, Known(n, Append(q, e), i))
  <2>1. i \in 0 .. Len(q) /\ IsLastPut(q, i) /\ Known(n, Append(q, e), i) = Known(n, q, i)
    BY <1>1, <1>2, NoPut
  <2>2. Known(n, q, i) = d
    BY <2>1, NetworkAssumption DEF Leads
  <2> QED BY <1>1, <1>2, <2>1, <2>2, NoPut
<1> QED BY <1>2 DEF Leads, e

\* What networkActor does with a callback is what Leads says it does.
LEMMA RunLeads ==
  ASSUME NEW q \in Seq(Callback), q # <<>>, NEW n, NEW d \in Net \cup {None}, Leads(n, q, d),
         NEW m, m = IF Head(q).type = "Put" THEN Head(q).network
                    ELSE IF Head(q).type = "Lost" /\ n = Head(q).network THEN None ELSE n
  PROVE  Leads(m, Tail(q), d)
<1> DEFINE t == Tail(q)
<1>1. /\ Len(q) \in Nat /\ Len(q) > 0 /\ Len(t) = Len(q) - 1 /\ Head(q) = q[1]
      /\ \A i \in 1 .. Len(t) : t[i] = q[i + 1]
  BY HeadTailProperties
<1> HIDE DEF t
<1>2. ASSUME NEW i \in 0 .. Len(t), NEW x
      PROVE  LostAfter(t, i, x) <=> LostAfter(q, i + 1, x)
  <2>1. ASSUME NEW j \in i + 1 .. Len(t)
        PROVE  j + 1 \in i + 2 .. Len(q) /\ t[j] = q[j + 1]
    BY <1>1
  <2>2. ASSUME NEW j \in i + 2 .. Len(q)
        PROVE  j - 1 \in i + 1 .. Len(t) /\ t[j - 1] = q[j]
    BY <1>1
  <2>3. LostAfter(q, i + 1, x) <=> \E j \in i + 2 .. Len(q) : q[j].type = "Lost" /\ q[j].network = x
    <3>1. i + 1 + 1 = i + 2
      OBVIOUS
    <3> QED BY <3>1 DEF LostAfter
  <2>4. LostAfter(t, i, x) => LostAfter(q, i + 1, x)
    BY <2>1, <2>3 DEF LostAfter
  <2>5. LostAfter(q, i + 1, x) => LostAfter(t, i, x)
    BY <2>2, <2>3 DEF LostAfter
  <2> QED BY <2>4, <2>5
<1>3. ASSUME NEW i \in 0 .. Len(t), IsLastPut(t, i)
      PROVE  \A j \in i + 2 .. Len(q) : q[j].type # "Put"
  <2> TAKE j \in i + 2 .. Len(q)
  <2>1. j - 1 \in i + 1 .. Len(t) /\ t[j - 1] = q[j]
    BY <1>1
  <2> QED BY <1>3, <2>1 DEF IsLastPut
<1>4. ASSUME NEW i \in 0 .. Len(t), IsLastPut(t, i), i # 0 \/ Head(q).type = "Put"
      PROVE  /\ i + 1 \in 0 .. Len(q) /\ IsLastPut(q, i + 1)
             /\ Known(m, t, i) = Known(n, q, i + 1)
  <2>1. i + 1 \in 0 .. Len(q) /\ i + 1 + 1 = i + 2 /\ i + 1 # 0
    BY <1>1
  <2>2. q[i + 1].type = "Put"
    BY <1>1, <1>4 DEF IsLastPut
  <2>3. IsLastPut(q, i + 1)
    BY <1>3, <1>4, <2>1, <2>2 DEF IsLastPut
  <2>4. Known(m, t, i) = q[i + 1].network
    BY <1>1, <1>4 DEF Known
  <2> QED BY <2>1, <2>3, <2>4 DEF Known
<1>5. ASSUME IsLastPut(t, 0), Head(q).type # "Put"
      PROVE  0 \in 0 .. Len(q) /\ IsLastPut(q, 0)
  <2>1. \A j \in 2 .. Len(q) : q[j].type # "Put"
    BY <1>1, <1>3, <1>5
  <2>2. \A j \in 1 .. Len(q) : q[j].type # "Put"
    BY <1>1, <1>5, <2>1
  <2> QED BY <1>1, <2>2 DEF IsLastPut
<1>6. ASSUME NEW x
      PROVE  LostAfter(q, 0, x) <=> LostAfter(t, 0, x) \/ (Head(q).type = "Lost" /\ Head(q).network = x)
  <2>1. LostAfter(t, 0, x) <=> LostAfter(q, 1, x)
    BY <1>1, <1>2
  <2>2. \A j \in 1 .. Len(q) : j = 1 \/ j \in 2 .. Len(q)
    BY <1>1
  <2>3. 1 \in 1 .. Len(q) /\ \A j \in 2 .. Len(q) : j \in 1 .. Len(q)
    BY <1>1
  <2> QED BY <1>1, <2>1, <2>2, <2>3 DEF LostAfter
<1> SUFFICES ASSUME NEW i \in 0 .. Len(t), IsLastPut(t, i)
             PROVE  IF d = None THEN Known(m, t, i) = None \/ LostAfter(t, i, Known(m, t, i))
                    ELSE Known(m, t, i) = d /\ ~LostAfter(t, i, d)
  BY DEF Leads, t
<1>7. CASE i # 0 \/ Head(q).type = "Put"
  BY <1>2, <1>4, <1>7 DEF Leads
<1>8. CASE i = 0 /\ Head(q).type # "Put"
  <2>1. /\ Known(n, q, 0) = n /\ Known(m, t, 0) = m
        /\ IF d = None THEN n = None \/ LostAfter(q, 0, n) ELSE n = d /\ ~LostAfter(q, 0, d)
    BY <1>5, <1>8 DEF Leads, Known
  <2> QED BY <1>6, <1>8, <2>1
<1> QED BY <1>7, <1>8

\* What the system reports of a change, one callback after the other.
LEMMA ReportForms ==
  ASSUME NEW o \in Net \cup {None}, NEW n \in Net \cup {None}, n # o,
         NEW r \in Report(o, n)
  PROVE  \/ n = None /\ r = <<CallbackOf("Lost", o)>>
         \/ n # None /\ r = <<CallbackOf("Put", n)>>
         \/ n # None /\ o # None /\ r = <<CallbackOf("Put", n)>> \o <<CallbackOf("Lost", o)>>
         \/ n # None /\ o # None /\ r = <<CallbackOf("Lost", o)>> \o <<CallbackOf("Put", n)>>
<1>1. CASE n = None
  BY <1>1 DEF Report, CallbackOf
<1>2. CASE n # None /\ o = None
  <2>1. Report(o, n) = {<<CallbackOf("Put", n)>>} \cup {}
    BY <1>2, Zenon DEF Report, CallbackOf
  <2> QED BY <1>2, <2>1, Zenon
<1>3. CASE n # None /\ o # None
  <2>1. Report(o, n) = {<<CallbackOf("Put", n)>>}
                         \cup {<<CallbackOf("Put", n)>> \o <<CallbackOf("Lost", o)>>,
                               <<CallbackOf("Lost", o)>> \o <<CallbackOf("Put", n)>>}
    BY <1>3, Zenon DEF Report, CallbackOf
  <2> QED BY <1>3, <2>1, Zenon
<1> QED BY <1>1, <1>2, <1>3, Zenon

\* The queue, and what the system reports of a change, lead to the new network.
LEMMA ReportLeads ==
  ASSUME NEW q \in Seq(Callback), NEW k, NEW o \in Net \cup {None}, NEW n \in Net \cup {None},
         n # o, NEW r \in Report(o, n), Leads(k, q, o)
  PROVE  Leads(k, q \o r, n)
<1> DEFINE put  == CallbackOf("Put", n)
           lost == CallbackOf("Lost", o)
<1>1. /\ n # None => put \in Callback
      /\ o # None => lost \in Callback /\ lost.type = "Lost" /\ lost.network = o
  BY DEF CallbackOf, Callback
<1>2. n # None => Leads(k, Append(q, put), n)
  BY PutLeads DEF put
<1>3. o # None => Leads(k, Append(q, lost), None)
  BY LostLeads DEF lost
<1>4. n # None /\ o # None => Leads(k, Append(Append(q, lost), put), n)
  BY <1>1, PutLeads, AppendProperties
<1>5. n # None /\ o # None => Leads(k, Append(Append(q, put), lost), n)
  <2> SUFFICES ASSUME n # None, o # None
               PROVE  Leads(k, Append(Append(q, put), lost), n)
    OBVIOUS
  <2>1. Append(q, put) \in Seq(Callback) /\ lost \in Callback /\ n \in Net
    BY <1>1, AppendProperties
  <2> HIDE DEF put, lost
  <2> QED BY <1>1, <1>2, <2>1, OthersLead
<1>6. \/ n = None /\ o # None /\ r = <<lost>>
      \/ n # None /\ r = <<put>>
      \/ n # None /\ o # None /\ r = <<put>> \o <<lost>>
      \/ n # None /\ o # None /\ r = <<lost>> \o <<put>>
  BY ReportForms
<1> HIDE DEF put, lost
<1>7. ASSUME NEW a \in Callback, NEW b \in Callback
      PROVE  q \o <<a>> = Append(q, a) /\ q \o (<<a>> \o <<b>>) = Append(Append(q, a), b)
  <2>1. <<a>> \in Seq(Callback) /\ <<b>> \in Seq(Callback) /\ Append(q, a) \in Seq(Callback)
    BY AppendProperties
  <2>2. q \o <<a>> = Append(q, a) /\ Append(q, a) \o <<b>> = Append(Append(q, a), b)
    BY <2>1, AppendIsConcat
  <2>3. q \o (<<a>> \o <<b>>) = (q \o <<a>>) \o <<b>>
    BY <2>1, ConcatAssociative
  <2> QED BY <2>2, <2>3
<1> QED BY <1>1, <1>2, <1>3, <1>4, <1>5, <1>6, <1>7

\* Every step keeps the queue leading to the device's network.
LEMMA QueueNext ==
  ASSUME IInv, QueueLeads, [Next]_vars
  PROVE  QueueLeads'
<1> USE NetworkAssumption
<1>0. /\ callbacks \in Seq(Callback) /\ current \in Net \cup {None} /\ registered \in Nat
      /\ network \in Net \cup {None}
  BY DEF IInv, TypeOK, Callback
<1>1. ASSUME CallbackStep PROVE QueueLeads'
  <2>1. /\ callbacks # <<>> /\ callbacks' = Tail(callbacks)
        /\ UNCHANGED <<registered, current>>
    BY <1>1 DEF CallbackStep, Put, Update, Lost, CallbackRuns
  <2>2. registered # 0 /\ Leads(network, callbacks, current)
    BY <2>1 DEF QueueLeads
  <2>3. network' = IF Head(callbacks).type = "Put" THEN Head(callbacks).network
                   ELSE IF Head(callbacks).type = "Lost" /\ network = Head(callbacks).network
                   THEN None ELSE network
    BY <1>1 DEF CallbackStep, Put, Update, Lost, CallbackRuns
  <2>4. Leads(network', Tail(callbacks), current)
    BY <1>0, <2>1, <2>2, <2>3, RunLeads
  <2> QED BY <2>1, <2>2, <2>4 DEF QueueLeads
<1>2. CASE CapabilitiesChange
  <2> DEFINE e == CallbackOf("Update", current)
  <2>1. /\ registered # 0 /\ current \in Net /\ callbacks' = Append(callbacks, e)
        /\ UNCHANGED <<registered, current, network>>
    BY <1>0, <1>2 DEF CapabilitiesChange, CallbackOf, actorVars
  <2>2. e \in Callback /\ e.type = "Update"
    BY <2>1 DEF CallbackOf, Callback
  <2> HIDE DEF e
  <2>3. Leads(network, Append(callbacks, e), current)
    BY <1>0, <2>1, <2>2, OthersLead DEF QueueLeads
  <2> QED BY <2>1, <2>3 DEF QueueLeads
<1>3. ASSUME NEW n \in Net \cup {None}, NetworkChanges(n) PROVE QueueLeads'
  <2>1. PICK r \in Report(current, n) :
          callbacks' = IF registered > 0 THEN callbacks \o r ELSE callbacks
    BY <1>3 DEF NetworkChanges
  <2>2. n # current /\ current' = n /\ UNCHANGED <<registered, network>>
    BY <1>3 DEF NetworkChanges, actorVars
  <2>3. CASE registered = 0
    BY <2>1, <2>2, <2>3 DEF QueueLeads
  <2>4. CASE registered # 0
    <3>1. callbacks' = callbacks \o r
      BY <1>0, <2>1, <2>4
    <3>2. Leads(network, callbacks \o r, n)
      BY <1>0, <2>1, <2>2, <2>4, ReportLeads DEF QueueLeads
    <3> QED BY <2>2, <2>4, <3>1, <3>2 DEF QueueLeads
  <2> QED BY <2>3, <2>4
<1>4. CASE Start
  <2>1. UNCHANGED <<network, current>>
    BY <1>4 DEF Start
  <2>2. CASE listeners # {} \/ fallback' = TRUE
    <3>1. UNCHANGED <<registered, callbacks>>
      BY <1>4, <2>2 DEF Start, register
    <3> QED BY <2>1, <3>1 DEF QueueLeads
  <2>3. CASE listeners = {} /\ fallback' # TRUE
    <3>1. registered = 0 /\ callbacks = <<>> /\ network = None
      BY <2>3 DEF IInv, RegisteredOnce, QueueLeads
    <3>2. /\ registered' = 1
          /\ callbacks' = IF current = None THEN callbacks
                          ELSE Append(callbacks, CallbackOf("Put", current))
      <4>1. /\ registered' = registered + 1
            /\ callbacks' = IF current = None THEN callbacks
                            ELSE Append(callbacks, [type |-> "Put", network |-> current])
        BY <1>4, <2>3, Zenon DEF Start, register
      <4> QED BY <3>1, <4>1 DEF CallbackOf
    <3>3. CASE current # None
      <4>1. Leads(network, Append(callbacks, CallbackOf("Put", current)), current)
        BY <1>0, <3>3, PutLeads
      <4> QED BY <2>1, <3>2, <3>3, <4>1 DEF QueueLeads
    <3>4. CASE current = None
      <4>1. Len(callbacks) = 0
        BY <3>1
      <4>2. Leads(network, callbacks, current)
        BY <3>1, <3>4, <4>1 DEF Leads, Known
      <4> QED BY <2>1, <3>2, <3>4, <4>2 DEF QueueLeads
    <3> QED BY <3>3, <3>4
  <2> QED BY <2>2, <2>3
<1>5. CASE killProcesses
  <2>1. Scope \notin listeners
    BY DEF IInv, TypeOK, Scope, Instance
  <2>2. UNCHANGED <<network, registered, callbacks, current>>
    BY <1>5, <2>1 DEF killProcesses, Stop
  <2> QED BY <2>2 DEF QueueLeads
<1>6. CASE Destroy \/ ServiceStep \/ UNCHANGED vars
  <2>1. UNCHANGED <<network, registered, callbacks, current>>
    BY <1>6 DEF Destroy, ServiceStep, Get, Got, startVpn, establish, vars, actorVars, systemVars
  <2> QED BY <2>1 DEF QueueLeads
<1> QED BY <1>1, <1>2, <1>3, <1>4, <1>5, <1>6 DEF Next, SystemStep

\* Every step keeps the VPN on the network that the actor has.
LEMMA VpnNext ==
  ASSUME IInv, VpnHas, [Next]_vars
  PROVE  VpnHas'
<1>1. ASSUME CallbackStep PROVE VpnHas'
  <2>1. /\ sdk >= 26 => session # "building"
        /\ UNCHANGED <<sdk, instance, session, active, builder, listeners>>
    BY <1>1 DEF CallbackStep, Put, Update, Lost, CallbackRuns, serviceVars
  <2>2. \/ Tell(listeners, network')
        \/ UNCHANGED <<network, vpnNetwork>>
    BY <1>1 DEF CallbackStep, Put, Update, Lost
  <2>3. CASE Tell(listeners, network')
    BY <2>1, <2>3 DEF VpnHas, Tell
  <2>4. CASE UNCHANGED <<network, vpnNetwork>>
    BY <2>1, <2>4 DEF VpnHas
  <2> QED BY <2>2, <2>3, <2>4
<1>2. CASE SystemStep \/ UNCHANGED vars
  <2>1. UNCHANGED <<sdk, instance, session, active, builder, listeners, network, vpnNetwork>>
    BY <1>2 DEF SystemStep, CapabilitiesChange, NetworkChanges, vars, actorVars, systemVars, serviceVars
  <2> QED BY <2>1 DEF VpnHas
<1>3. CASE Start
  BY <1>3 DEF Start, VpnHas
<1>4. CASE killProcesses
  BY <1>4 DEF killProcesses, VpnHas
<1>5. CASE Destroy
  BY <1>5 DEF Destroy, VpnHas, actorVars, systemVars
<1>6. CASE ServiceStep
  <2>1. CASE Get \/ Got
    BY <2>1 DEF Get, Got, VpnHas, actorVars, systemVars
  <2>2. CASE startVpn
    <3>1. underlyingNetwork[instance] = network
      BY <2>2 DEF startVpn, VpnHas, IInv, ListenersAgree
    <3> QED BY <2>2, <3>1 DEF startVpn, VpnHas, actorVars, systemVars
  <2>3. CASE establish
    BY <2>3 DEF establish, VpnHas, actorVars, systemVars
  <2> QED BY <1>6, <2>1, <2>2, <2>3 DEF ServiceStep
<1> QED BY <1>1, <1>2, <1>3, <1>4, <1>5, <1>6 DEF Next

\* Once every callback has run the actor has the device's network, and from API 26 on
\* the system has it for the VPN: whatever the order of changes, of late losses and of
\* the steps of startVpn().
THEOREM NetworkVpnFollows == Spec => []VpnFollows
<1>1. Init => QueueLeads /\ VpnHas
  BY DEF Init, QueueLeads, VpnHas
<1>2. IInv /\ (QueueLeads /\ VpnHas) /\ [Next]_vars => (QueueLeads /\ VpnHas)'
  BY QueueNext, VpnNext
<1>3. IInv /\ QueueLeads /\ VpnHas => VpnFollows
  <2> SUFFICES ASSUME IInv, QueueLeads, VpnHas, callbacks = <<>>, registered > 0
               PROVE  network = current
    BY DEF VpnFollows, VpnHas
  <2>1. Leads(network, callbacks, current) /\ Len(callbacks) = 0
    BY DEF QueueLeads, IInv, TypeOK
  <2>2. IsLastPut(callbacks, 0) /\ ~LostAfter(callbacks, 0, network)
    BY <2>1 DEF IsLastPut, LostAfter
  <2> QED BY <2>1, <2>2 DEF Leads, Known
<1> QED BY <1>1, <1>2, <1>3, NetworkInvariant, PTL DEF Spec
=============================================================================
