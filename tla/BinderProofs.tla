---------------------------- MODULE BinderProofs ----------------------------
(***************************************************************************)
(* Proofs about Binder, for any number of connections, with and without    *)
(* calls that overtake each other, and without bounds on what is under     *)
(* way.                                                                    *)
(*                                                                         *)
(* LooperMatches is inductive with the types.  The other two invariants    *)
(* speak of a client with nothing on its way, and follow from what can be  *)
(* said of any client and any calls on their way: Informed of its inbox,   *)
(* Forgets of the calls it made and left behind.                           *)
(***************************************************************************)
EXTENDS Binder, SequenceTheorems, TLAPS

ListenersOK ==
  /\ bandwidthListeners \subseteq Client
  /\ looper \in BOOLEAN /\ loops \in Nat
  /\ updated \subseteq Remote

IInv == TypeOK /\ LooperMatches

\* What startListeningForBandwidth() leaves.
LEMMA ListenKeeps ==
  ASSUME IInv, ~closed, UNCHANGED closed, NEW c \in Client, Listen(c)
  PROVE  ListenersOK' /\ LooperMatches'
<1>1. bandwidthListeners' # {} /\ bandwidthListeners' \subseteq Client /\ updated' \subseteq Remote
  BY DEF Listen, IInv, TypeOK
<1>2. CASE bandwidthListeners = {}
  <2>1. loops = 0 /\ looper' = TRUE /\ loops' = loops + 1
    BY <1>2 DEF Listen, IInv, LooperMatches
  <2> QED BY <1>1, <2>1 DEF ListenersOK, LooperMatches
<1>3. CASE bandwidthListeners # {}
  <2>1. looper = TRUE /\ loops = 1
    BY <1>3 DEF IInv, TypeOK, LooperMatches
  <2>2. looper' = TRUE /\ loops' = 1
    BY <1>3, <2>1 DEF Listen
  <2> QED BY <1>1, <2>2 DEF ListenersOK, LooperMatches
<1> QED BY <1>2, <1>3

\* What stopListeningForBandwidth() leaves.
LEMMA UnlistenKeeps ==
  ASSUME IInv, ~closed, UNCHANGED closed, NEW c \in Client, Unlisten(c)
  PROVE  ListenersOK' /\ LooperMatches'
<1>1. bandwidthListeners' \subseteq Client /\ updated' \subseteq Remote
  BY DEF Unlisten, IInv, TypeOK
<1>2. CASE c \in bandwidthListeners /\ bandwidthListeners' = {}
  <2>1. loops = 1
    BY <1>2 DEF IInv, TypeOK, LooperMatches
  <2>2. looper' = FALSE /\ loops' = 0
    BY <1>2, <2>1 DEF Unlisten
  <2> QED BY <1>1, <1>2, <2>2 DEF ListenersOK, LooperMatches
<1>3. CASE ~(c \in bandwidthListeners /\ bandwidthListeners' = {})
  <2>1. UNCHANGED <<looper, loops>>
    BY <1>3 DEF Unlisten
  <2>2. bandwidthListeners' # {} <=> bandwidthListeners # {}
    BY <1>3 DEF Unlisten
  <2> QED BY <1>1, <2>1, <2>2 DEF IInv, TypeOK, ListenersOK, LooperMatches
<1> QED BY <1>2, <1>3

\* What leaves the listeners alone leaves them in order.
LEMMA OthersKeep ==
  ASSUME IInv, UNCHANGED <<bandwidthListeners, looper, loops, closed>>, updated' \subseteq Remote
  PROVE  ListenersOK' /\ LooperMatches'
BY DEF IInv, TypeOK, ListenersOK, LooperMatches

\* What the notification does to the listeners.
LEMMA UpdateCallbackKeeps ==
  ASSUME IInv, ~closed, UNCHANGED closed, NEW b \in BOOLEAN, updateCallback(b)
  PROVE  ListenersOK' /\ LooperMatches' /\ callbacks' \subseteq Client
<1>1. Local \in Client /\ callbacks \subseteq Client
  BY DEF Client, IInv, TypeOK
<1>2. CASE Listen(Local) /\ callbacks' = callbacks \cup {Local}
  BY <1>1, <1>2, ListenKeeps
<1>3. CASE Unlisten(Local) /\ callbacks' = callbacks \ {Local}
  BY <1>1, <1>3, UnlistenKeeps
<1>4. CASE UNCHANGED <<listenerVars, callbacks>>
  <2>1. updated' \subseteq Remote
    BY <1>4 DEF listenerVars, IInv, TypeOK
  <2> QED BY <1>1, <1>4, <2>1, OthersKeep DEF listenerVars
<1> QED BY <1>2, <1>3, <1>4 DEF updateCallback

\* A change of state is announced to every client.
LEMMA AnnounceType ==
  ASSUME IInv, NEW s \in State, NEW m \in BOOLEAN, Announce(s, m)
  PROVE  /\ announced' \in State \cup {None} /\ failed' \in BOOLEAN
         /\ inbox' \in [Remote -> Seq(State \cup {"Idle"})]
<1> DEFINE T == State \cup {"Idle"}
           x == IF m THEN "Idle" ELSE s
<1>1. x \in T /\ inbox \in [Remote -> Seq(T)]
  BY DEF IInv, TypeOK
<1>2. inbox' = [c \in Remote |-> IF c \in callbacks THEN Append(inbox[c], x) ELSE inbox[c]]
  BY DEF Announce
<1> HIDE DEF T, x
<1>3. \A c \in Remote : Append(inbox[c], x) \in Seq(T)
  BY <1>1
<1>4. inbox' \in [Remote -> Seq(T)]
  BY <1>1, <1>2, <1>3
<1> QED BY <1>4 DEF Announce, T

\* A call is posted.
LEMMA PostType ==
  ASSUME IInv, NEW c \in Remote, NEW op \in {"start", "stop"}, Post(op, c)
  PROVE  posted' \in Seq([op : {"start", "stop"}, client : Remote])
<1> DEFINE T == [op : {"start", "stop"}, client : Remote]
           p == [op |-> op, client |-> c]
<1>1. posted \in Seq(T) /\ p \in T /\ posted' = Append(posted, p)
  BY DEF IInv, TypeOK, Post
<1> HIDE DEF T, p
<1>2. posted' \in Seq(T)
  BY <1>1
<1> QED BY <1>2 DEF T

\* The tail of what is under way is still well formed.
LEMMA TailType ==
  ASSUME NEW T, NEW f \in [Remote -> Seq(T)], NEW c \in Remote, f[c] # <<>>
  PROVE  [f EXCEPT ![c] = Tail(@)] \in [Remote -> Seq(T)] /\ Head(f[c]) \in T
<1>1. Tail(f[c]) \in Seq(T) /\ Head(f[c]) \in T
  OBVIOUS
<1> QED BY <1>1

\* Every step of the service preserves the invariant.
LEMMA ServiceIInv ==
  ASSUME IInv, ServiceStep
  PROVE  IInv'
<1>1. CASE RunPosted
  <2> DEFINE T == [op : {"start", "stop"}, client : Remote]
  <2>1. ~closed /\ UNCHANGED closed /\ posted \in Seq(T) /\ posted # <<>>
    BY <1>1 DEF RunPosted, MainThread, serviceVars, IInv, TypeOK
  <2> HIDE DEF T
  <2>2. Head(posted) \in T /\ posted' \in Seq(T)
    BY <1>1, <2>1 DEF RunPosted
  <2>3. Head(posted).client \in Client
    BY <2>2 DEF T, Client
  <2>4. Listen(Head(posted).client) \/ Unlisten(Head(posted).client)
    BY <1>1 DEF RunPosted
  <2>5. ListenersOK' /\ LooperMatches'
    BY <2>1, <2>3, <2>4, ListenKeeps, UnlistenKeeps
  <2>6. TypeOK'
    BY <1>1, <2>2, <2>5 DEF RunPosted, serviceVars, clientVars, IInv, TypeOK, ListenersOK, T
  <2> QED BY <2>5, <2>6 DEF IInv
<1>2. CASE Loop
  <2>1. updated' \subseteq Remote
    BY <1>2 DEF Loop, IInv, TypeOK
  <2>2. ListenersOK' /\ LooperMatches'
    BY <1>2, <2>1, OthersKeep DEF Loop, serviceVars
  <2>3. TypeOK'
    BY <1>2, <2>2 DEF Loop, serviceVars, clientVars, IInv, TypeOK, ListenersOK
  <2> QED BY <2>2, <2>3 DEF IInv
<1>3. CASE Assign
  BY <1>3 DEF Assign, listenerVars, clientVars, IInv, TypeOK, LooperMatches
<1>4. CASE destroyNotification
  <2>1. ListenersOK' /\ LooperMatches' /\ callbacks' \subseteq Client
    BY <1>4, UpdateCallbackKeeps DEF destroyNotification, MainThread
  <2>2. TypeOK'
    BY <1>4, <2>1 DEF destroyNotification, clientVars, IInv, TypeOK, ListenersOK
  <2> QED BY <2>1, <2>2 DEF IInv
<1>5. CASE close
  <2>1. TypeOK'
    BY <1>5 DEF close, clientVars, IInv, TypeOK
  <2>2. LooperMatches'
    BY <1>5 DEF close, LooperMatches
  <2> QED BY <2>1, <2>2 DEF IInv
<1>6. ASSUME NEW s \in State, NEW b \in BOOLEAN, onStartCommand(s, b)
      PROVE  IInv'
  <2>1. ListenersOK' /\ LooperMatches' /\ callbacks' \subseteq Client
    BY <1>6, UpdateCallbackKeeps DEF onStartCommand, MainThread
  <2>2. /\ announced' \in State \cup {None} /\ failed' \in BOOLEAN
        /\ inbox' \in [Remote -> Seq(State \cup {"Idle"})]
    BY <1>6, AnnounceType DEF onStartCommand
  <2>3. TypeOK'
    BY <1>6, <2>1, <2>2 DEF onStartCommand, clientVars, IInv, TypeOK, ListenersOK
  <2> QED BY <2>1, <2>3 DEF IInv
<1>7. ASSUME NEW s \in State, NEW b \in BOOLEAN, changeState(s, b)
      PROVE  IInv'
  <2>1. /\ announced' \in State \cup {None} /\ failed' \in BOOLEAN
        /\ inbox' \in [Remote -> Seq(State \cup {"Idle"})]
    BY <1>7, AnnounceType DEF changeState
  <2>2. LooperMatches'
    BY <1>7 DEF changeState, listenerVars, IInv, LooperMatches
  <2>3. TypeOK'
    BY <1>7, <2>1 DEF changeState, clientVars, listenerVars, IInv, TypeOK
  <2> QED BY <2>2, <2>3 DEF IInv
<1>8. ASSUME NEW b \in BOOLEAN, onReceive(b)
      PROVE  IInv'
  <2>1. ListenersOK' /\ LooperMatches' /\ callbacks' \subseteq Client
    BY <1>8, UpdateCallbackKeeps DEF onReceive, MainThread, serviceVars
  <2>2. TypeOK'
    BY <1>8, <2>1 DEF onReceive, serviceVars, clientVars, IInv, TypeOK, ListenersOK
  <2> QED BY <2>1, <2>2 DEF IInv
<1> QED
  BY <1>1, <1>2, <1>3, <1>4, <1>5, <1>6, <1>7, <1>8 DEF ServiceStep, MainStep

\* Every step of a client preserves the invariant.
LEMMA ClientIInv ==
  ASSUME IInv, NEW c \in Remote, ClientStep(c)
  PROVE  IInv'
<1> DEFINE Post1 == posted' \in Seq([op : {"start", "stop"}, client : Remote])
<1>0. c \in Client /\ posted \in Seq([op : {"start", "stop"}, client : Remote])
  BY DEF Client, IInv, TypeOK
<1>1. CASE Connected(c)
  <2>1. Post1
    BY <1>0, <1>1, PostType DEF Connected
  <2> QED BY <1>0, <1>1, <2>1 DEF Connected, serviceVars, listenerVars, IInv, TypeOK, LooperMatches
<1>2. CASE getState(c)
  BY <1>2 DEF getState, serviceVars, listenerVars, IInv, TypeOK, LooperMatches
<1>3. CASE stateChanged(c)
  <2> DEFINE T == State \cup {"Idle"}
  <2>1. inbox \in [Remote -> Seq(T)] /\ inbox[c] # <<>>
    BY <1>3 DEF stateChanged, IInv, TypeOK
  <2>2. inbox' \in [Remote -> Seq(T)] /\ Head(inbox[c]) \in T
    BY <1>3, <2>1, TailType DEF stateChanged
  <2>3. shown' \in [Remote -> T]
    BY <1>3, <2>2 DEF stateChanged, IInv, TypeOK
  <2> QED
    BY <1>3, <2>2, <2>3 DEF stateChanged, serviceVars, listenerVars, IInv, TypeOK, LooperMatches
<1>4. CASE trafficUpdated(c)
  BY <1>4 DEF trafficUpdated, serviceVars, clientVars, IInv, TypeOK, LooperMatches
<1>5. CASE onStart(c)
  <2>1. Post1
    BY <1>0, <1>5, PostType DEF onStart
  <2> QED BY <1>5, <2>1 DEF onStart, serviceVars, listenerVars, IInv, TypeOK, LooperMatches
<1>6. CASE onStop(c)
  <2> DEFINE T == {"stop", "unregister"}
  <2>1. calls \in [Remote -> Seq(T)] /\ "stop" \in T
    BY DEF IInv, TypeOK
  <2> HIDE DEF T
  <2>2. Append(calls[c], "stop") \in Seq(T)
    BY <2>1
  <2>3. calls' \in [Remote -> Seq(T)]
    BY <1>6, <2>1, <2>2 DEF onStop
  <2> QED
    BY <1>6, <2>3 DEF onStop, serviceVars, listenerVars, IInv, TypeOK, LooperMatches, T
<1>7. CASE disconnect(c)
  <2> DEFINE T == {"stop", "unregister"}
             q == <<"unregister", "stop">>
  <2>1. calls \in [Remote -> Seq(T)] /\ q \in Seq(T)
    BY DEF IInv, TypeOK
  <2>2. calls' = [calls EXCEPT ![c] = @ \o q]
    BY <1>7 DEF disconnect
  <2> HIDE DEF T, q
  <2>3. calls[c] \o q \in Seq(T)
    BY <2>1, ConcatProperties
  <2>4. calls' \in [Remote -> Seq(T)]
    BY <2>1, <2>2, <2>3
  <2>5. inbox' \in [Remote -> Seq(State \cup {"Idle"})]
    BY <1>7 DEF disconnect, IInv, TypeOK
  <2> QED
    BY <1>7, <2>4, <2>5 DEF disconnect, serviceVars, listenerVars, IInv, TypeOK, LooperMatches, T
<1>8. CASE Die(c)
  <2>1. inbox' \in [Remote -> Seq(State \cup {"Idle"})]
    BY <1>8 DEF Die, IInv, TypeOK
  <2> QED BY <1>8, <2>1 DEF Die, serviceVars, listenerVars, IInv, TypeOK, LooperMatches
<1>9. CASE onCallbackDied(c)
  <2>1. inbox' \in [Remote -> Seq(State \cup {"Idle"})]
    BY <1>9 DEF onCallbackDied, IInv, TypeOK
  <2>2. Post1
    BY <1>0, <1>9, PostType DEF onCallbackDied
  <2> QED
    BY <1>9, <2>1, <2>2 DEF onCallbackDied, serviceVars, listenerVars, IInv, TypeOK, LooperMatches
<1>10. CASE Arrive(c)
  <2>1. Post1
    BY <1>0, <1>10, PostType DEF Arrive
  <2>2. calls' \in [Remote -> Seq({"stop", "unregister"})]
    BY <1>10, TailType DEF Arrive, IInv, TypeOK
  <2> QED
    BY <1>10, <2>1, <2>2 DEF Arrive, serviceVars, listenerVars, IInv, TypeOK, LooperMatches
<1> QED
  BY <1>1, <1>2, <1>3, <1>4, <1>5, <1>6, <1>7, <1>8, <1>9, <1>10 DEF ClientStep, Answer

\* The invariant holds at first.
LEMMA InitIInv == Init => IInv
<1> SUFFICES ASSUME Init PROVE IInv
  OBVIOUS
<1>1. inbox \in [Remote -> Seq(State \cup {"Idle"})] /\ calls \in [Remote -> Seq({"stop", "unregister"})]
  BY DEF Init
<1>2. posted \in Seq([op : {"start", "stop"}, client : Remote])
  BY DEF Init
<1>3. TypeOK
  BY <1>1, <1>2 DEF Init, TypeOK, State
<1> QED BY <1>3 DEF Init, IInv, LooperMatches

\* The invariant holds always.
THEOREM BinderInvariant == Spec => []IInv
<1>1. IInv /\ [Next]_vars => IInv'
  <2>1. IInv /\ Next => IInv'
    BY ServiceIInv, ClientIInv DEF Next
  <2>2. IInv /\ UNCHANGED vars => IInv'
    BY DEF vars, serviceVars, listenerVars, clientVars, IInv, TypeOK, LooperMatches
  <2> QED BY <2>1, <2>2
<1> QED BY <1>1, InitIInv, PTL DEF Spec

\* Type correctness.
THEOREM BinderTypeOK == Spec => []TypeOK
<1>1. IInv => TypeOK
  BY DEF IInv
<1> QED BY <1>1, BinderInvariant, PTL

\* Binder's looper runs exactly while bandwidthListeners is not empty, so neither
\* check(looper == null) nor looper!! ever throws, for any number of clients.
THEOREM BinderLooperMatches == Spec => []LooperMatches
<1>1. IInv => LooperMatches
  BY DEF IInv
<1> QED BY <1>1, BinderInvariant, PTL

-----------------------------------------------------------------------------
(* ToldIsCurrent.                                                          *)

\* What a client is to show: what was broadcast last.
Current == IF failed THEN "Idle" ELSE IF announced # None THEN announced ELSE state

\* The last callback on its way to a client has the current state, and if there is none
\* a client that was told shows it: a client is registered before it asks for
\* the state, and stays registered until it goes.
Informed(c) ==
  /\ conn[c] = "off" => inbox[c] = <<>> /\ calls[c] = <<>> /\ c \notin callbacks
  /\ conn[c] \in {"off", "registered"} => ~told[c]
  /\ conn[c] # "gone" => \A i \in 1 .. Len(calls[c]) : calls[c][i] # "unregister"
  /\ conn[c] \in {"registered", "on"} =>
       /\ c \in callbacks
       /\ inbox[c] # <<>> => inbox[c][Len(inbox[c])] = Current
       /\ inbox[c] = <<>> /\ told[c] => shown[c] = Current

\* Nothing that concerns d changes.
Same(d) ==
  /\ conn'[d] = conn[d] /\ calls'[d] = calls[d] /\ inbox'[d] = inbox[d]
  /\ shown'[d] = shown[d] /\ told'[d] = told[d]
  /\ d \in callbacks' <=> d \in callbacks

\* What a step leaves alone stays informed.
LEMMA SameInformed ==
  ASSUME NEW d \in Remote, Informed(d), Same(d), Current' = Current
  PROVE  Informed(d)'
BY DEF Informed, Same

\* A broadcast reaches every client that is registered.
LEMMA AnnounceInforms ==
  ASSUME IInv, NEW d \in Remote, Informed(d), NEW s \in State, NEW m \in BOOLEAN, Announce(s, m),
         UNCHANGED <<conn, calls, shown, told>>, d \in callbacks' <=> d \in callbacks
  PROVE  Informed(d)'
<1> DEFINE x == IF m THEN "Idle" ELSE s
           q == inbox[d]
<1>1. x \in State \cup {"Idle"} /\ q \in Seq(State \cup {"Idle"})
  BY DEF IInv, TypeOK
<1>2. Current' = x
  BY BinderAssumption DEF Announce, Current
<1>3. inbox'[d] = IF d \in callbacks THEN Append(q, x) ELSE q
  BY DEF Announce
<1> HIDE DEF x, q
<1>4. Append(q, x) # <<>> /\ Append(q, x)[Len(Append(q, x))] = x
  BY <1>1, AppendProperties
<1> QED BY <1>2, <1>3, <1>4 DEF Informed, q

\* The notification is no client of the other process.
LEMMA UpdateCallbackSame ==
  ASSUME NEW d \in Remote, NEW b \in BOOLEAN, updateCallback(b)
  PROVE  /\ d \in callbacks' <=> d \in callbacks
         /\ d \in bandwidthListeners' <=> d \in bandwidthListeners
<1>1. d # Local
  BY BinderAssumption
<1> QED BY <1>1 DEF updateCallback, Listen, Unlisten, listenerVars

\* The steps of the service: a change of state is broadcast in the same step.
LEMMA ServiceInformed ==
  ASSUME IInv, NEW d \in Remote, Informed(d), ServiceStep
  PROVE  Informed(d)'
<1>1. CASE RunPosted \/ Loop
  <2>1. Same(d) /\ Current' = Current
    BY <1>1 DEF RunPosted, Loop, serviceVars, clientVars, Same, Current
  <2> QED BY <2>1, SameInformed
<1>2. CASE Assign
  <2>1. Same(d)
    BY <1>2 DEF Assign, clientVars, Same
  <2>2. Current' = Current
    BY <1>2 DEF Assign, Current
  <2> QED BY <2>1, <2>2, SameInformed
<1>3. CASE destroyNotification
  <2>1. Same(d)
    BY <1>3, UpdateCallbackSame DEF destroyNotification, clientVars, Same
  <2>2. Current' = Current
    BY <1>3 DEF destroyNotification, Current
  <2> QED BY <2>1, <2>2, SameInformed
<1>4. CASE close
  <2>1. conn[d] \in {"off", "gone"}
    BY <1>4 DEF close
  <2> QED BY <1>4, <2>1 DEF close, clientVars, Informed
<1>5. ASSUME NEW s \in State, NEW b \in BOOLEAN, onStartCommand(s, b)
      PROVE  Informed(d)'
  <2>1. UNCHANGED <<conn, calls, shown, told>> /\ Announce(s, FALSE) /\ updateCallback(b)
    BY <1>5 DEF onStartCommand, clientVars
  <2> QED BY <2>1, UpdateCallbackSame, AnnounceInforms
<1>6. ASSUME NEW s \in State, NEW b \in BOOLEAN, changeState(s, b)
      PROVE  Informed(d)'
  <2>1. UNCHANGED <<conn, calls, shown, told, callbacks>> /\ Announce(s, b)
    BY <1>6 DEF changeState, clientVars
  <2> QED BY <2>1, AnnounceInforms
<1>7. ASSUME NEW b \in BOOLEAN, onReceive(b)
      PROVE  Informed(d)'
  <2>1. Same(d)
    BY <1>7, UpdateCallbackSame DEF onReceive, clientVars, Same
  <2>2. Current' = Current
    BY <1>7 DEF onReceive, serviceVars, Current
  <2> QED BY <2>1, <2>2, SameInformed
<1> QED
  BY <1>1, <1>2, <1>3, <1>4, <1>5, <1>6, <1>7 DEF ServiceStep, MainStep

\* A step of one client is none of another.
LEMMA OthersSame ==
  ASSUME IInv, NEW c \in Remote, NEW d \in Remote, d # c, ClientStep(c)
  PROVE  Same(d)
BY DEF ClientStep, Answer, Connected, getState, stateChanged, trafficUpdated, onStart, onStop,
       disconnect, Die, onCallbackDied, Arrive, clientVars, IInv, TypeOK, Same

\* The clients do not change the service's state.
LEMMA ClientCurrent ==
  ASSUME NEW c \in Remote, ClientStep(c)
  PROVE  Current' = Current
BY DEF ClientStep, Answer, Connected, getState, stateChanged, trafficUpdated, onStart, onStop,
       disconnect, Die, onCallbackDied, Arrive, serviceVars, Current

\* The steps of a client: it asks for the state when it connects.
LEMMA ClientInformed ==
  ASSUME IInv, NEW c \in Remote, Informed(c), ClientStep(c)
  PROVE  Informed(c)'
<1>0. Current' = Current
  BY ClientCurrent
<1> DEFINE T == State \cup {"Idle"}
           U == {"stop", "unregister"}
<1>00. inbox[c] \in Seq(T) /\ calls[c] \in Seq(U)
  BY DEF IInv, TypeOK
<1> HIDE DEF T, U
<1>1. CASE Connected(c)
  BY <1>0, <1>1 DEF Connected, Informed, IInv, TypeOK
<1>2. CASE getState(c)
  BY <1>0, <1>2 DEF getState, Informed, IInv, TypeOK
<1>3. CASE stateChanged(c)
  <2> DEFINE q == inbox[c]
  <2>1. q \in Seq(T) /\ q # <<>> /\ conn[c] = "on"
    BY <1>3, <1>00 DEF stateChanged
  <2>2. q[Len(q)] = Current
    BY <2>1 DEF Informed
  <2>3. /\ inbox'[c] = Tail(q) /\ shown'[c] = Head(q) /\ conn' = conn
        /\ UNCHANGED <<calls, callbacks>>
    BY <1>3 DEF stateChanged, IInv, TypeOK
  <2> HIDE DEF q
  <2>p. /\ Len(q) \in Nat /\ Len(q) > 0 /\ Head(q) = q[1]
        /\ Tail(q) \in Seq(T) /\ Len(Tail(q)) = Len(q) - 1
        /\ \A i \in 1 .. Len(Tail(q)) : Tail(q)[i] = q[i + 1]
    BY <2>1, HeadTailProperties
  <2>4. Tail(q) = <<>> => Head(q) = q[Len(q)]
    <3>1. Tail(q) = <<>> => Len(Tail(q)) = 0
      BY EmptySeq, Zenon
    <3> QED BY <2>p, <3>1
  <2>5. Tail(q) # <<>> => Tail(q)[Len(Tail(q))] = q[Len(q)]
    <3>1. Tail(q) # <<>> => Len(Tail(q)) \in 1 .. Len(Tail(q))
      BY <2>p, EmptySeq
    <3> QED BY <2>p, <3>1
  <2> QED BY <1>0, <2>1, <2>2, <2>3, <2>4, <2>5 DEF Informed
<1>4. CASE trafficUpdated(c)
  BY <1>0, <1>4 DEF trafficUpdated, clientVars, Informed
<1>5. CASE onStart(c)
  BY <1>0, <1>5 DEF onStart, Informed
<1>6. CASE onStop(c)
  <2>1. CASE conn[c] = "on"
    <3>1. calls'[c] = Append(calls[c], "stop")
      BY <1>6, <2>1 DEF onStop, IInv, TypeOK
    <3>2. \A i \in 1 .. Len(calls'[c]) : calls'[c][i] # "unregister"
      <4>1. \A i \in 1 .. Len(calls[c]) : calls[c][i] # "unregister"
        BY <2>1 DEF Informed
      <4>2. "stop" \in U /\ "stop" # "unregister"
        BY DEF U
      <4> QED BY <1>00, <3>1, <4>1, <4>2, AppendProperties
    <3> QED BY <1>0, <1>6, <2>1, <3>2 DEF onStop, Informed
  <2>2. CASE conn[c] = "off"
    BY <1>0, <1>6, <2>2 DEF onStop, Informed
  <2> QED BY <1>6, <2>1, <2>2 DEF onStop
<1>7. CASE disconnect(c)
  <2>1. conn'[c] = "gone"
    BY <1>7 DEF disconnect, IInv, TypeOK
  <2> QED BY <2>1 DEF Informed
<1>8. CASE Die(c)
  <2>1. conn'[c] = "dead" /\ UNCHANGED calls /\ conn[c] # "gone"
    BY <1>8 DEF Die, IInv, TypeOK
  <2> QED BY <2>1 DEF Informed
<1>9. CASE onCallbackDied(c)
  <2>1. conn'[c] = "gone"
    BY <1>9 DEF onCallbackDied, IInv, TypeOK
  <2> QED BY <2>1 DEF Informed
<1>10. CASE Arrive(c)
  <2>1. conn[c] # "off" /\ UNCHANGED <<conn, inbox, shown, told>>
    BY <1>10 DEF Arrive, Informed
  <2>2. /\ calls'[c] = Tail(calls[c]) /\ calls[c] # <<>>
        /\ Head(calls[c]) # "unregister" => callbacks' = callbacks
    BY <1>10 DEF Arrive, IInv, TypeOK
  <2>3. ASSUME conn[c] # "gone"
        PROVE  /\ Head(calls[c]) # "unregister"
               /\ \A i \in 1 .. Len(Tail(calls[c])) : Tail(calls[c])[i] # "unregister"
    <3>1. \A i \in 1 .. Len(calls[c]) : calls[c][i] # "unregister"
      BY <2>3 DEF Informed
    <3> QED BY <1>00, <2>2, <3>1, HeadTailProperties
  <2> QED BY <1>0, <2>1, <2>2, <2>3 DEF Informed
<1> QED
  BY <1>1, <1>2, <1>3, <1>4, <1>5, <1>6, <1>7, <1>8, <1>9, <1>10 DEF ClientStep, Answer

\* A client that was told a state shows the current one once nothing is on its way to
\* it: for any number of clients, and however the answer of getState(), the broadcasts and
\* the assignment of the state interleave.
THEOREM BinderToldIsCurrent == Spec => []ToldIsCurrent
<1> DEFINE J == \A d \in Remote : Informed(d)
<1>1. Init => J
  BY DEF Init, Informed
<1>2. IInv /\ J /\ [Next]_vars => J'
  <2> SUFFICES ASSUME IInv, J, [Next]_vars, NEW d \in Remote
               PROVE  Informed(d)'
    OBVIOUS
  <2>1. CASE ServiceStep
    BY <2>1, ServiceInformed
  <2>2. ASSUME NEW c \in Remote, ClientStep(c)
        PROVE  Informed(d)'
    <3>1. CASE c = d
      BY <2>2, <3>1, ClientInformed
    <3>2. CASE c # d
      <4>1. Same(d)
        BY <2>2, <3>2, OthersSame
      <4>2. Current' = Current
        BY <2>2, ClientCurrent
      <4> QED BY <4>1, <4>2, SameInformed
    <3> QED BY <3>1, <3>2
  <2>3. CASE UNCHANGED vars
    BY <2>3 DEF vars, serviceVars, clientVars, Informed, Current
  <2> QED BY <2>1, <2>2, <2>3 DEF Next
<1>3. J => ToldIsCurrent
  BY DEF Informed, Current, ToldIsCurrent
<1> QED BY <1>1, <1>2, <1>3, BinderInvariant, PTL DEF Spec

-----------------------------------------------------------------------------
(* GoneIsForgotten.                                                        *)

PostedCall == [op : {"start", "stop"}, client : Remote]

IsCall(p, op, c) == p.op = op /\ p.client = c

\* c begins to listen with call i of q; 0 stands for its listening already.
Starts(listens, q, c, i) == IF i = 0 THEN listens ELSE IsCall(q[i], "start", c)

\* Whatever makes c listen is undone later in q.
Undone(listens, q, c) ==
  \A i \in 0 .. Len(q) :
    Starts(listens, q, c, i) => \E j \in i + 1 .. Len(q) : IsCall(q[j], "stop", c)

\* A client that is gone and registered has an unregisterCallback() under way, and
\* when none of its calls is, a stopListeningForBandwidth() is the last one posted.
Forgets(c) ==
  conn[c] = "gone" /\ ~closed =>
    /\ c \in callbacks => \E i \in 1 .. Len(calls[c]) : calls[c][i] = "unregister"
    /\ calls[c] = <<>> => Undone(c \in bandwidthListeners, posted, c)

\* A posted stop undoes everything.
LEMMA StopUndoes ==
  ASSUME NEW q \in Seq(PostedCall), NEW c \in Remote, NEW l \in BOOLEAN
  PROVE  Undone(l, Append(q, [op |-> "stop", client |-> c]), c)
<1> DEFINE e == [op |-> "stop", client |-> c]
           k == Len(q) + 1
<1>1. e \in PostedCall /\ IsCall(e, "stop", c) /\ ~IsCall(e, "start", c)
  BY DEF PostedCall, IsCall
<1> HIDE DEF e
<1>2. Len(q) \in Nat /\ Len(Append(q, e)) = k /\ Append(q, e)[k] = e
  BY <1>1, AppendProperties
<1>3. ASSUME NEW i \in 0 .. k, Starts(l, Append(q, e), c, i)
      PROVE  k \in i + 1 .. k
  BY <1>1, <1>2, <1>3 DEF Starts
<1> QED BY <1>1, <1>2, <1>3 DEF Undone, e

\* The calls of another client change nothing.
LEMMA OtherUndone ==
  ASSUME NEW q \in Seq(PostedCall), NEW c \in Remote, NEW l \in BOOLEAN, NEW e \in PostedCall,
         e.client # c, Undone(l, q, c)
  PROVE  Undone(l, Append(q, e), c)
<1> DEFINE p == Append(q, e)
<1>1. /\ Len(q) \in Nat /\ Len(p) = Len(q) + 1 /\ p[Len(q) + 1] = e
      /\ \A i \in 1 .. Len(q) : p[i] = q[i]
  BY AppendProperties
<1> HIDE DEF p
<1> SUFFICES ASSUME NEW i \in 0 .. Len(p), Starts(l, p, c, i)
             PROVE  \E j \in i + 1 .. Len(p) : IsCall(p[j], "stop", c)
  BY DEF Undone, p
<1>2. i \in 0 .. Len(q) /\ Starts(l, q, c, i)
  BY <1>1 DEF Starts, IsCall
<1>3. PICK j \in i + 1 .. Len(q) : IsCall(q[j], "stop", c)
  BY <1>2 DEF Undone
<1>4. j \in i + 1 .. Len(p) /\ p[j] = q[j]
  BY <1>1, <1>2
<1> QED BY <1>3, <1>4

\* Running the first posted call leaves the rest to be undone.
LEMMA RunUndone ==
  ASSUME NEW q \in Seq(PostedCall), q # <<>>, NEW c \in Remote,
         NEW l \in BOOLEAN, NEW m \in BOOLEAN, Undone(l, q, c),
         IsCall(Head(q), "stop", c) => ~m,
         ~IsCall(Head(q), "stop", c) /\ ~IsCall(Head(q), "start", c) => (m <=> l)
  PROVE  Undone(m, Tail(q), c)
<1> DEFINE t == Tail(q)
<1>1. /\ Len(q) \in Nat /\ Len(q) > 0 /\ Len(t) = Len(q) - 1 /\ Head(q) = q[1]
      /\ \A i \in 1 .. Len(t) : t[i] = q[i + 1]
  BY HeadTailProperties
<1> HIDE DEF t
<1>2. ASSUME NEW i \in 0 .. Len(t), NEW j \in i + 2 .. Len(q), IsCall(q[j], "stop", c)
      PROVE  \E k \in i + 1 .. Len(t) : IsCall(t[k], "stop", c)
  <2>1. j - 1 \in i + 1 .. Len(t) /\ t[j - 1] = q[j]
    BY <1>1
  <2> QED BY <1>2, <2>1
<1> SUFFICES ASSUME NEW i \in 0 .. Len(t), Starts(m, t, c, i)
             PROVE  \E j \in i + 1 .. Len(t) : IsCall(t[j], "stop", c)
  BY DEF Undone, t
<1>3. CASE i # 0 \/ IsCall(Head(q), "start", c)
  <2>1. i + 1 \in 0 .. Len(q) /\ i + 1 # 0 /\ i + 1 + 1 = i + 2
    BY <1>1
  <2>2. IsCall(q[i + 1], "start", c)
    <3>1. CASE i # 0
      BY <1>1, <3>1 DEF Starts
    <3>2. CASE i = 0
      BY <1>1, <1>3, <3>2
    <3> QED BY <3>1, <3>2
  <2>3. Starts(l, q, c, i + 1)
    BY <2>1, <2>2 DEF Starts
  <2>4. PICK j \in i + 2 .. Len(q) : IsCall(q[j], "stop", c)
    BY <2>1, <2>3 DEF Undone
  <2> QED BY <1>2, <2>4
<1>4. CASE i = 0 /\ ~IsCall(Head(q), "start", c)
  <2>1. ~IsCall(q[1], "stop", c) /\ l
    BY <1>1, <1>4 DEF Starts
  <2>2. 0 \in 0 .. Len(q) /\ Starts(l, q, c, 0)
    BY <1>1, <2>1 DEF Starts
  <2>3. PICK j \in 1 .. Len(q) : IsCall(q[j], "stop", c)
    BY <2>2 DEF Undone
  <2>4. j \in i + 2 .. Len(q)
    BY <1>1, <1>4, <2>1, <2>3
  <2> QED BY <1>2, <2>3, <2>4
<1> QED BY <1>3, <1>4

\* What leaves alone what was posted and who listens.
LEMMA SameForgets ==
  ASSUME NEW d \in Remote, Forgets(d), Same(d), UNCHANGED <<posted, closed>>,
         d \in bandwidthListeners' <=> d \in bandwidthListeners
  PROVE  Forgets(d)'
<1>1. (d \in bandwidthListeners') = (d \in bandwidthListeners)
  OBVIOUS
<1> QED BY <1>1 DEF Forgets, Same

\* The steps of the service: what was posted for a client runs in the order it was posted.
LEMMA ServiceForgets ==
  ASSUME IInv, NEW d \in Remote, Forgets(d), ServiceStep
  PROVE  Forgets(d)'
<1>1. CASE RunPosted
  <2>1. /\ posted \in Seq(PostedCall) /\ posted # <<>> /\ posted' = Tail(posted)
        /\ UNCHANGED <<conn, calls, callbacks, closed>>
    BY <1>1 DEF RunPosted, serviceVars, clientVars, IInv, TypeOK, PostedCall
  <2>2. /\ IsCall(Head(posted), "stop", d) => d \notin bandwidthListeners'
        /\ ~IsCall(Head(posted), "stop", d) /\ ~IsCall(Head(posted), "start", d)
             => (d \in bandwidthListeners' <=> d \in bandwidthListeners)
    <3>1. Head(posted) \in PostedCall
      BY <2>1, HeadTailProperties
    <3>2. Head(posted).op \in {"start", "stop"}
      BY <3>1 DEF PostedCall
    <3> DEFINE p == Head(posted)
    <3>3. /\ p.op = "start" => bandwidthListeners' = bandwidthListeners \cup {p.client}
          /\ p.op = "stop" => bandwidthListeners' = bandwidthListeners \ {p.client}
      BY <1>1 DEF RunPosted, Listen, Unlisten
    <3> HIDE DEF p
    <3>4. p.op = "stop" /\ p.client = d => d \notin bandwidthListeners'
      BY <3>3
    <3>5. p.client # d => (d \in bandwidthListeners' <=> d \in bandwidthListeners)
      BY <3>2, <3>3 DEF p
    <3> QED BY <3>2, <3>4, <3>5 DEF p, IsCall
  <2>3. ASSUME Undone(d \in bandwidthListeners, posted, d)
        PROVE  Undone(d \in bandwidthListeners', posted', d)
    <3>1. (d \in bandwidthListeners) \in BOOLEAN /\ (d \in bandwidthListeners') \in BOOLEAN
      OBVIOUS
    <3> QED BY <2>1, <2>2, <2>3, <3>1, RunUndone
  <2> QED BY <2>1, <2>3 DEF Forgets
<1>2. CASE Loop \/ Assign
  <2>1. Same(d) /\ UNCHANGED <<posted, closed, bandwidthListeners>>
    BY <1>2 DEF Loop, Assign, serviceVars, clientVars, listenerVars, Same
  <2> QED BY <2>1, SameForgets
<1>3. CASE destroyNotification
  <2>1. Same(d) /\ UNCHANGED <<posted, closed>>
    BY <1>3, UpdateCallbackSame DEF destroyNotification, clientVars, Same
  <2> QED BY <1>3, <2>1, SameForgets, UpdateCallbackSame DEF destroyNotification
<1>4. CASE close
  BY <1>4 DEF close, Forgets
<1>5. ASSUME NEW s \in State, NEW b \in BOOLEAN, onStartCommand(s, b)
      PROVE  Forgets(d)'
  <2>1. UNCHANGED <<conn, calls, posted, closed>> /\ updateCallback(b)
    BY <1>5 DEF onStartCommand, clientVars
  <2>2. (d \in callbacks') = (d \in callbacks) /\ (d \in bandwidthListeners') = (d \in bandwidthListeners)
    BY <2>1, UpdateCallbackSame
  <2> QED BY <2>1, <2>2 DEF Forgets
<1>6. ASSUME NEW s \in State, NEW b \in BOOLEAN, changeState(s, b)
      PROVE  Forgets(d)'
  BY <1>6 DEF changeState, clientVars, listenerVars, Forgets
<1>7. ASSUME NEW b \in BOOLEAN, onReceive(b)
      PROVE  Forgets(d)'
  <2>1. Same(d) /\ UNCHANGED <<posted, closed>>
    BY <1>7, UpdateCallbackSame DEF onReceive, clientVars, serviceVars, Same
  <2> QED BY <1>7, <2>1, SameForgets, UpdateCallbackSame DEF onReceive
<1> QED
  BY <1>1, <1>2, <1>3, <1>4, <1>5, <1>6, <1>7 DEF ServiceStep, MainStep

\* A step of one client may post a call, which is none of another client's.
LEMMA OthersForget ==
  ASSUME IInv, NEW c \in Remote, NEW d \in Remote, d # c, Forgets(d), ClientStep(c)
  PROVE  Forgets(d)'
<1>1. Same(d)
  BY OthersSame
<1>2. UNCHANGED <<closed, bandwidthListeners>>
  BY DEF ClientStep, Answer, Connected, getState, stateChanged, trafficUpdated, onStart, onStop,
         disconnect, Die, onCallbackDied, Arrive, serviceVars, listenerVars
<1>3. posted' = posted \/ Post("start", c) \/ Post("stop", c)
  BY DEF ClientStep, Answer, Connected, getState, stateChanged, trafficUpdated, onStart, onStop,
         disconnect, Die, onCallbackDied, Arrive
<1>4. CASE posted' = posted
  BY <1>1, <1>2, <1>4, SameForgets
<1>5. ASSUME NEW op \in {"start", "stop"}, Post(op, c)
      PROVE  Forgets(d)'
  <2> DEFINE e == [op |-> op, client |-> c]
  <2>1. posted \in Seq(PostedCall) /\ e \in PostedCall /\ e.client # d /\ posted' = Append(posted, e)
    BY <1>5 DEF Post, IInv, TypeOK, PostedCall
  <2> HIDE DEF e
  <2>2. (d \in bandwidthListeners) \in BOOLEAN
    OBVIOUS
  <2>3. Undone(d \in bandwidthListeners, posted, d)
          => Undone(d \in bandwidthListeners, Append(posted, e), d)
    BY <2>1, <2>2, OtherUndone
  <2> QED BY <1>1, <1>2, <2>1, <2>3 DEF Forgets, Same
<1> QED BY <1>3, <1>4, <1>5

\* A client that goes leaves unregisterCallback() under way, and whatever arrives posts
\* a stop after all that it posted before.
LEMMA ClientForgets ==
  ASSUME IInv, NEW c \in Remote, Forgets(c), ClientStep(c)
  PROVE  Forgets(c)'
<1> DEFINE U == {"stop", "unregister"}
<1>0. /\ calls[c] \in Seq(U) /\ posted \in Seq(PostedCall)
      /\ UNCHANGED <<closed, bandwidthListeners>>
  BY DEF IInv, TypeOK, PostedCall, ClientStep, Answer, Connected, getState, stateChanged,
         trafficUpdated, onStart, onStop, disconnect, Die, onCallbackDied, Arrive, serviceVars, listenerVars
<1>00. Post("stop", c) => Undone(c \in bandwidthListeners', posted', c)
  <2>1. (c \in bandwidthListeners') \in BOOLEAN
    OBVIOUS
  <2> QED BY <1>0, <2>1, StopUndoes DEF Post
<1>1. CASE Connected(c) \/ getState(c) \/ stateChanged(c) \/ onStart(c) \/ onStop(c) \/ Die(c)
  <2>1. conn'[c] # "gone"
    BY <1>1 DEF Connected, getState, stateChanged, onStart, onStop, Die, IInv, TypeOK
  <2> QED BY <2>1 DEF Forgets
<1>2. CASE trafficUpdated(c)
  BY <1>0, <1>2 DEF trafficUpdated, clientVars, Forgets
<1>3. CASE disconnect(c)
  <2> DEFINE q == <<"unregister", "stop">>
             n == Len(calls[c]) + 1
  <2>1. calls'[c] = calls[c] \o q
    BY <1>3 DEF disconnect, IInv, TypeOK
  <2>2. q \in Seq(U) /\ Len(q) = 2 /\ q[1] = "unregister"
    OBVIOUS
  <2> HIDE DEF U, q
  <2>3. /\ calls'[c] \in Seq(U) /\ Len(calls'[c]) = Len(calls[c]) + 2 /\ Len(calls[c]) \in Nat
        /\ calls'[c][n] = q[1]
    <3> DEFINE s == calls[c]
    <3>0. s \in Seq(U) /\ q \in Seq(U) /\ n = Len(s) + 1
      BY <1>0, <2>2
    <3> HIDE DEF s, n
    <3>1. /\ s \o q \in Seq(U) /\ Len(s \o q) = Len(s) + Len(q)
          /\ \A i \in 1 .. Len(s) + Len(q) : (s \o q)[i] = IF i <= Len(s) THEN s[i] ELSE q[i - Len(s)]
      BY <3>0, ConcatProperties
    <3>2. Len(s) \in Nat /\ n \in 1 .. Len(s) + Len(q) /\ ~(n <= Len(s)) /\ n - Len(s) = 1
      BY <2>2, <3>0
    <3>3. (s \o q)[n] = q[1]
      BY <3>1, <3>2
    <3> QED BY <2>1, <2>2, <3>1, <3>2, <3>3 DEF s
  <2>4. n \in 1 .. Len(calls'[c]) /\ calls'[c][n] = "unregister" /\ calls'[c] # <<>>
    BY <2>2, <2>3, EmptySeq
  <2> QED BY <2>4 DEF Forgets
<1>4. CASE onCallbackDied(c)
  <2>1. c \notin callbacks' /\ (~closed => Post("stop", c))
    BY <1>4 DEF onCallbackDied
  <2> QED BY <1>0, <1>00, <2>1 DEF Forgets
<1>5. CASE Arrive(c)
  <2> DEFINE q == calls[c]
  <2>1. /\ q # <<>> /\ calls'[c] = Tail(q) /\ UNCHANGED conn
        /\ callbacks' = IF Head(q) = "unregister" THEN callbacks \ {c} ELSE callbacks
        /\ ~closed => Post("stop", c)
    BY <1>5 DEF Arrive, IInv, TypeOK
  <2>2. q \in Seq(U)
    BY <1>0
  <2> HIDE DEF q, U
  <2>3. /\ Len(q) \in Nat /\ Head(q) = q[1] /\ Len(Tail(q)) = Len(q) - 1
        /\ \A i \in 1 .. Len(Tail(q)) : Tail(q)[i] = q[i + 1]
    BY <2>1, <2>2, HeadTailProperties
  <2>4. ASSUME NEW i \in 1 .. Len(q), q[i] = "unregister", Head(q) # "unregister"
        PROVE  \E j \in 1 .. Len(Tail(q)) : Tail(q)[j] = "unregister"
    <3>1. i - 1 \in 1 .. Len(Tail(q)) /\ Tail(q)[i - 1] = q[i]
      BY <2>3, <2>4
    <3> QED BY <2>4, <3>1
  <2>5. conn[c] = "gone" /\ ~closed /\ c \in callbacks => \E i \in 1 .. Len(q) : q[i] = "unregister"
    BY DEF Forgets, q
  <2> QED BY <1>0, <1>00, <2>1, <2>4, <2>5 DEF Forgets
<1> QED BY <1>1, <1>2, <1>3, <1>4, <1>5 DEF ClientStep, Answer

\* A client that disconnected or died neither listens nor is registered any more once its
\* calls have arrived and what they posted has run: for any number of clients, and also
\* when a start overtakes a stop that was called before it.
THEOREM BinderGoneIsForgotten == Spec => []GoneIsForgotten
<1> DEFINE J == \A d \in Remote : Forgets(d)
<1>1. Init => J
  BY DEF Init, Forgets
<1>2. IInv /\ J /\ [Next]_vars => J'
  <2> SUFFICES ASSUME IInv, J, [Next]_vars, NEW d \in Remote
               PROVE  Forgets(d)'
    OBVIOUS
  <2>1. CASE ServiceStep
    BY <2>1, ServiceForgets
  <2>2. ASSUME NEW c \in Remote, ClientStep(c)
        PROVE  Forgets(d)'
    BY <2>2, ClientForgets, OthersForget
  <2>3. CASE UNCHANGED vars
    BY <2>3 DEF vars, serviceVars, clientVars, listenerVars, Forgets
  <2> QED BY <2>1, <2>2, <2>3 DEF Next
<1>3. IInv /\ J => GoneIsForgotten
  <2> SUFFICES ASSUME IInv, J, NEW c \in Remote, ~closed, conn[c] = "gone", calls[c] = <<>>,
                      Posted(c) = {}
               PROVE  c \notin callbacks \cup bandwidthListeners
    BY DEF GoneIsForgotten
  <2>1. posted \in Seq(PostedCall)
    BY DEF IInv, TypeOK, PostedCall
  <2>2. \A i \in 1 .. Len(posted) : posted[i].client # c
    BY <2>1, LenProperties DEF Posted
  <2>3. Undone(c \in bandwidthListeners, posted, c) /\ Len(posted) \in Nat
    BY <2>1 DEF Forgets
  <2>4. c \notin bandwidthListeners
    <3> SUFFICES ASSUME c \in bandwidthListeners PROVE FALSE
      OBVIOUS
    <3>1. 0 \in 0 .. Len(posted) /\ Starts(c \in bandwidthListeners, posted, c, 0)
      BY <2>3 DEF Starts
    <3>2. \E j \in 1 .. Len(posted) : IsCall(posted[j], "stop", c)
      BY <2>3, <3>1 DEF Undone
    <3> QED BY <2>2, <3>2 DEF IsCall
  <2>5. c \notin callbacks
    <3>1. Len(calls[c]) = 0
      BY EmptySeq, Zenon
    <3> QED BY <3>1 DEF Forgets
  <2> QED BY <2>4, <2>5
<1> QED BY <1>1, <1>2, <1>3, BinderInvariant, PTL DEF Spec
=============================================================================
