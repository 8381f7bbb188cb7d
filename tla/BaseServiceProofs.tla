-------------------------- MODULE BaseServiceProofs --------------------------
(***************************************************************************)
(* The safety properties of BaseService for any number of sessions and     *)
(* both kinds of service, and that it implements ServiceLifecycle.         *)
(***************************************************************************)
EXTENDS BaseService, TLAPS

(* Connecting coroutines: one that has not ended is the one connectingJob  *)
(* refers to; unless cancelled the state is Connecting, and if cancelled   *)
(* the stopper is waiting for it.                                          *)
JobInv ==
  /\ \A s \in Session : Live(s) => connectingJob = s
  /\ \A s \in Session : Live(s) /\ s \notin cancelled => state = "Connecting"
  /\ \A s \in Session : Live(s) /\ s \in cancelled =>
                          stopper.pc = "join" /\ stopper.job = s
  /\ state = "Connecting" => /\ connectingJob \in Session
                             /\ Live(connectingJob) /\ connectingJob \notin cancelled
                             /\ receiver /\ notification
  /\ connectingJob # None => jobPc[connectingJob] # "none"
  /\ \A s \in cancelled : jobPc[s] # "none"

(* The stopper: it exists exactly while the state is Stopping, and during  *)
(* its clean-up nothing is referenced and all that is alive is waited for. *)
StopperInv ==
  /\ state = "Stopping" <=> stopper.pc # "none"
  /\ stopper.pc # "cleanUp" => waiting = {}
  /\ stopper.pc = "cleanUp" => /\ waiting = alive
                               /\ \A s \in Session : ~Live(s)
                               /\ field = [f \in Field |-> None]
                               /\ ~receiver /\ ~notification

(* What is alive is referenced until it is waited for, a pool that is      *)
(* referenced or hangs is alive, it all belongs to one session, and there  *)
(* is none of it before startProcesses().                                  *)
HeldInv ==
  /\ stopper.pc # "cleanUp" => \A x \in alive : field[x[1]] = x[2]
  /\ \A s \in Session : field["processes"] = s => <<"processes", s>> \in alive
  /\ \A s \in hung : <<"processes", s>> \in alive
  /\ \A x, y \in alive : x[2] = y[2]
  /\ \A s \in Session : Live(s) =>
       /\ \A x \in alive : x[2] = s
       /\ \A f \in Field : field[f] \in {None, s}
       /\ field["proxy"] = s
       /\ jobPc[s] # "sendFd" => alive = {}

Complete(s) ==
  \A i \in 1 .. Len(Startup) :
    Startup[i] = "udpFallback" \/ (field[Startup[i]] = s /\ <<Startup[i], s>> \in alive)

CompleteInv ==
  /\ \A s \in Session : jobPc[s] = "sendFd" => Complete(s)
  /\ state = "Connected" => /\ receiver /\ notification
                            /\ \E s \in Session : ~Live(s) /\ Complete(s)

IInv == TypeOK /\ JobInv /\ StopperInv /\ HeldInv /\ CompleteInv /\ StoppedIsClean
-----------------------------------------------------------------------------
(* The initial state satisfies the invariant.                              *)
LEMMA InitIInv == Init => IInv
<1> SUFFICES ASSUME Init PROVE IInv
  OBVIOUS
<1> USE DEF Init, Idle, None
<1>1. TypeOK
  BY DEF TypeOK
<1>2. JobInv /\ StopperInv /\ CompleteInv /\ StoppedIsClean
  BY DEF JobInv, StopperInv, CompleteInv, StoppedIsClean, Live
<1>3. HeldInv
  BY ServiceAssumption DEF HeldInv, Live, Session, Field
<1> QED BY <1>1, <1>2, <1>3 DEF IInv

(* stopRunner() assigns values of the right types.                         *)
LEMMA StopTypes ==
  ASSUME TypeOK, NEW r \in BOOLEAN, stopRunner(r)
  PROVE  /\ state' \in {"Stopped", "Connecting", "Connected", "Stopping"}
         /\ cancelled' \subseteq Session
         /\ stopper' \in [pc : {"none", "join", "cleanUp"}, job : Session \cup {None},
                          restart : BOOLEAN]
<1>1. {connectingJob} \ {None} \subseteq Session
  BY DEF TypeOK
<1> QED BY <1>1 DEF TypeOK, stopRunner

\* A service of one kind starts the same things at any time.
LEMMA SameStartup == ASSUME isVpn' = isVpn PROVE Startup' = Startup
BY DEF Startup

\* A step that touches only what hangs, is posted, asked for or kept for the next boot.
LEMMA QuietIInv ==
  ASSUME IInv, UNCHANGED <<isVpn, state, jobVars, cancelled, field, alive, stopper, waiting,
                           receiver, notification>>,
         hung' \subseteq Session, \A s \in hung' : <<"processes", s>> \in alive,
         fatal' \subseteq Session, startPending' \in BOOLEAN, boot' \in BOOLEAN
  PROVE  IInv'
<1> USE DEF IInv, jobVars
<1>1. TypeOK'
  BY DEF TypeOK
<1>2. JobInv' /\ StopperInv' /\ HeldInv' /\ StoppedIsClean'
  BY DEF JobInv, StopperInv, HeldInv, StoppedIsClean, Live
<1>3. CompleteInv'
  BY SameStartup DEF CompleteInv, Complete, Live
<1> QED BY <1>1, <1>2, <1>3

(* A call of stopRunner() that touches nothing else preserves it.          *)
LEMMA StopIInv ==
  ASSUME IInv, NEW r \in BOOLEAN, stopRunner(r),
         UNCHANGED <<isVpn, jobVars, heldVars, waiting, receiver, notification>>,
         fatal' \subseteq Session, startPending' \in BOOLEAN, boot' \in BOOLEAN
  PROVE  IInv'
<1> USE DEF IInv, None, jobVars, heldVars
<1>1. CASE state = "Stopping"
  BY <1>1, SameStartup DEF stopRunner, TypeOK, JobInv, StopperInv, HeldInv, CompleteInv,
                           Complete, StoppedIsClean, Live
<1>2. CASE state # "Stopping"
  <2> USE <1>2 DEF stopRunner
  <2>1. TypeOK'
    BY DEF TypeOK
  <2>2. JobInv'
    <3>1. connectingJob # None => connectingJob \in Session
      BY DEF TypeOK
    <3>2. \A s \in Session : s # None
      BY ServiceAssumption DEF Session
    <3> QED BY <3>1, <3>2 DEF JobInv, Live, StopperInv
  <2>3. StopperInv'
    BY DEF TypeOK, StopperInv
  <2>4. HeldInv'
    BY DEF TypeOK, StopperInv, HeldInv, Live
  <2>5. CompleteInv' /\ StoppedIsClean'
    BY SameStartup DEF CompleteInv, Complete, StoppedIsClean
  <2> QED BY <2>1, <2>2, <2>3, <2>4, <2>5
<1> QED BY <1>1, <1>2

(* The steps of stopRunner()'s coroutine preserve it.                      *)
LEMMA StopperIInv == ASSUME IInv, StopperStep PROVE IInv'
<1> USE DEF IInv, None, jobVars, heldVars
<1>1. CASE CleanUp
  <2> USE <1>1 DEF CleanUp, LetGo
  <2>0. \A s \in Session : ~Live(s)
    BY ServiceAssumption DEF TypeOK, JobInv, StopperInv, Session
  <2>1. TypeOK'
    BY DEF TypeOK
  <2>2. JobInv'
    BY <2>0 DEF TypeOK, JobInv, Live, StopperInv
  <2>3. StopperInv'
    BY <2>0 DEF TypeOK, StopperInv, HeldInv, Live
  <2>4. HeldInv'
    <3>1. \A s \in Session : field'["processes"] # s
      BY ServiceAssumption DEF Session, Field
    <3>2. \A s \in hung' : <<"processes", s>> \in alive'
      BY DEF HeldInv
    <3> QED BY <2>0, <3>1, <3>2 DEF TypeOK, StopperInv, HeldInv, Live
  <2>5. CompleteInv' /\ StoppedIsClean'
    BY <2>0 DEF CompleteInv, StoppedIsClean, StopperInv, Live
  <2> QED BY <2>1, <2>2, <2>3, <2>4, <2>5
<1>2. ASSUME NEW x \in waiting, ShutDown(x) PROVE IInv'
  <2> USE <1>2 DEF ShutDown
  <2>1. TypeOK' /\ JobInv' /\ StopperInv' /\ CompleteInv' /\ StoppedIsClean'
    BY DEF TypeOK, JobInv, StopperInv, CompleteInv, StoppedIsClean, Live
  <2>2. \A s \in Session : field["processes"] # s
    BY ServiceAssumption DEF StopperInv, Session, Field
  <2>3. HeldInv'
    BY <2>2 DEF TypeOK, StopperInv, HeldInv, Live
  <2> QED BY <2>1, <2>3
<1>3. CASE Finish
  BY <1>3 DEF Finish, Idle, TypeOK, JobInv, StopperInv, HeldInv, CompleteInv, StoppedIsClean, Live
<1> QED BY <1>1, <1>2, <1>3 DEF StopperStep

(* So does a process that dies: nothing is left in it.                     *)
LEMMA DieIInv == ASSUME IInv, persistStatsFails PROVE IInv'
<1> USE DEF IInv, None, persistStatsFails, Idle
<1>1. TypeOK'
  BY DEF TypeOK
<1>2. \A s \in Session : ~Live(s)'
  BY DEF TypeOK, Live
<1>3. JobInv'
  BY <1>2 DEF TypeOK, JobInv, Live
<1>4. StopperInv' /\ CompleteInv' /\ StoppedIsClean'
  BY <1>2 DEF StopperInv, CompleteInv, StoppedIsClean, Live
<1>5. HeldInv'
  BY <1>2, ServiceAssumption DEF HeldInv, Session, Field
<1> QED BY <1>1, <1>3, <1>4, <1>5

(* A start command preserves it: a session begins where nothing is left of *)
(* an earlier one.                                                         *)
LEMMA StartIInv ==
  ASSUME IInv, NEW s \in Session, onStartCommand(s) \/ StartWithoutProfile(s)
  PROVE  IInv'
<1> USE DEF IInv, None, jobVars, heldVars
<1>0. /\ state = "Stopped" /\ Fresh(s) /\ stopper.pc = "none" /\ alive = {}
      /\ field = [f \in Field |-> None] /\ \A t \in Session : ~Live(t)
      /\ s # None
  <2>1. state = "Stopped" /\ Fresh(s)
    BY DEF onStartCommand, StartWithoutProfile
  <2>2. s # None
    BY ServiceAssumption DEF Session
  <2> QED BY <2>1, <2>2 DEF StoppedIsClean, StopperInv, TypeOK
<1>1. CASE onStartCommand(s)
  <2> USE <1>0, <1>1 DEF onStartCommand, Fresh
  <2>1. TypeOK'
    <3>1. PICK fallback \in {None, s} :
            field' = [field EXCEPT !["proxy"] = s, !["udpFallback"] = fallback]
      OBVIOUS
    <3>2. field' \in [Field -> Session \cup {None}]
      <4>1. field \in [Field -> Session \cup {None}] /\ s \in Session
        BY DEF TypeOK
      <4> HIDE <1>0, <1>1 DEF onStartCommand, Fresh
      <4> QED BY <3>1, <4>1
    <3>3. startPending' \in BOOLEAN
      BY DEF TypeOK, Deliver
    <3> QED BY <3>2, <3>3 DEF TypeOK
  <2>2. JobInv'
    BY DEF TypeOK, JobInv, Live
  <2>3. StopperInv' /\ StoppedIsClean'
    BY DEF TypeOK, StopperInv, StoppedIsClean
  <2>4. HeldInv'
    BY DEF TypeOK, HeldInv, Live, Field
  <2>5. CompleteInv'
    BY DEF TypeOK, CompleteInv, Live
  <2> QED BY <2>1, <2>2, <2>3, <2>4, <2>5
<1>2. CASE StartWithoutProfile(s)
  <2> USE <1>0, <1>2 DEF StartWithoutProfile, stopRunner
  <2>1. TypeOK'
    <3>1. field' \in [Field -> Session \cup {None}]
      BY DEF TypeOK
    <3>2. startPending' \in BOOLEAN
      BY DEF TypeOK, Deliver
    <3> QED BY <3>1, <3>2, StopTypes DEF TypeOK
  <2>2. JobInv'
    BY DEF TypeOK, JobInv, Live
  <2>3. StopperInv' /\ StoppedIsClean'
    BY DEF TypeOK, StopperInv, StoppedIsClean
  <2>4. CompleteInv'
    BY DEF TypeOK, CompleteInv, Live
  <2>5. HeldInv'
    <3>1. \A t \in Session : field'["processes"] # t
      BY ServiceAssumption DEF TypeOK, Session, Field
    <3> QED BY <3>1 DEF TypeOK, HeldInv, Live
  <2> QED BY <2>1, <2>2, <2>3, <2>4, <2>5
<1> QED BY <1>1, <1>2

(* What is started for a session is a part of Startup, and all of it when  *)
(* startProcesses() runs to its end.                                       *)
LEMMA StartedFacts ==
  ASSUME IInv, NEW s \in Session, NEW n \in 1 .. Len(Startup), Started(s, n),
         jobPc[s] = "preparing", UNCHANGED isVpn
  PROVE  /\ field' \in [Field -> Session \cup {None}]
         /\ alive' \subseteq Field \X Session
         /\ \A x \in alive' : x[2] = s /\ field'[x[1]] = s
         /\ \A f \in Field : field'[f] \in {None, s}
         /\ field'["proxy"] = s
         /\ field'["processes"] = s /\ <<"processes", s>> \in alive'
         /\ n = Len(Startup) => Complete(s)'
<1>1. \A i \in 1 .. n : Startup[i] \in Field
  BY DEF Startup, Field
<1>2. Startup[1] = "processes" /\ \E i \in 1 .. Len(Startup) : Startup[i] = "proxy"
  BY DEF Startup
<1>3. alive = {} /\ field["proxy"] = s /\ \A f \in Field : field[f] \in {None, s}
  BY DEF IInv, HeldInv, Live
<1> QED
  BY <1>1, <1>2, <1>3, SameStartup DEF Started, IInv, TypeOK, Complete, Field

(* Every step of a connecting coroutine preserves it.                      *)
LEMMA JobIInv == ASSUME IInv, NEW s \in Session, JobStep(s) PROVE IInv'
<1> USE DEF IInv, None, jobVars, heldVars
<1>0. s # None
  BY ServiceAssumption DEF Session
<1>1. CASE BeginJob(s)
  BY <1>1, SameStartup DEF BeginJob, TypeOK, JobInv, StopperInv, HeldInv, CompleteInv, Complete,
              StoppedIsClean, Live
<1>2. CASE SkipJob(s)
  BY <1>2, SameStartup DEF SkipJob, TypeOK, JobInv, StopperInv, HeldInv, CompleteInv, Complete,
              StoppedIsClean, Live
<1>3. CASE CancelJob(s)
  BY <1>3, SameStartup DEF CancelJob, EndJob, TypeOK, JobInv, StopperInv, HeldInv, CompleteInv,
              Complete, StoppedIsClean, Live
<1>4. CASE sendFd(s)
  BY <1>4, SameStartup DEF sendFd, EndJob, TypeOK, JobInv, StopperInv, HeldInv, CompleteInv,
              Complete, StoppedIsClean, Live
<1>5. CASE FailJob(s)
  <2> USE <1>0, <1>5 DEF FailJob, EndJob
  <2>1. CASE state = "Stopping"
    BY <2>1, SameStartup DEF stopRunner, TypeOK, JobInv, StopperInv, HeldInv, CompleteInv, Complete,
                StoppedIsClean, Live
  <2>2. CASE state # "Stopping"
    <3> USE <2>2 DEF stopRunner
    <3>0. /\ stopper.pc = "none" /\ connectingJob = s
          /\ \A t \in Session : Live(t) => t = s
      BY DEF JobInv, StopperInv, Live
    <3>1. TypeOK'
      BY <3>0, StopTypes DEF TypeOK
    <3>2. JobInv'
      BY <3>0 DEF TypeOK, JobInv, Live
    <3>3. StopperInv' /\ StoppedIsClean'
      BY <3>0 DEF TypeOK, StopperInv, StoppedIsClean
    <3>4. HeldInv' /\ CompleteInv'
      BY <3>0, SameStartup DEF TypeOK, HeldInv, CompleteInv, Complete, Live
    <3> QED BY <3>1, <3>2, <3>3, <3>4
  <2> QED BY <2>1, <2>2
<1>6. ASSUME NEW n \in 1 .. Len(Startup), startProcessesFails(s, n) PROVE IInv'
  <2> USE <1>0, <1>6 DEF startProcessesFails, EndJob, stopRunner
  <2>0. /\ state = "Connecting" /\ stopper.pc = "none" /\ connectingJob = s
        /\ \A t \in Session : Live(t) => t = s
    BY DEF JobInv, StopperInv, Live
  <2>1. TypeOK'
    <3>1. field' \in [Field -> Session \cup {None}] /\ alive' \subseteq Field \X Session
      BY StartedFacts
    <3> QED BY <2>0, <3>1, StopTypes DEF TypeOK
  <2>2. JobInv'
    BY <2>0 DEF TypeOK, JobInv, Live
  <2>3. StopperInv' /\ StoppedIsClean'
    BY <2>0 DEF TypeOK, StopperInv, StoppedIsClean
  <2>4. HeldInv'
    <3>1. /\ \A x \in alive' : x[2] = s /\ field'[x[1]] = s
          /\ field'["processes"] = s /\ <<"processes", s>> \in alive'
      BY StartedFacts
    <3>2. hung' = {}
      BY DEF HeldInv, Live
    <3>3. \A t \in Session : ~Live(t)'
      BY <2>0 DEF TypeOK, Live
    <3> QED BY <3>1, <3>2, <3>3 DEF HeldInv
  <2>5. CompleteInv'
    BY <2>0 DEF TypeOK, CompleteInv, Live
  <2> QED BY <2>1, <2>2, <2>3, <2>4, <2>5
<1>7. CASE startProcesses(s)
  <2> USE <1>0, <1>7 DEF startProcesses, EndJob
  <2>0. /\ state = "Connecting" /\ stopper.pc = "none" /\ connectingJob = s
        /\ receiver /\ notification /\ \A t \in Session : Live(t) => t = s
    BY DEF JobInv, StopperInv, Live
  <2>1. Len(Startup) \in 1 .. Len(Startup)
    BY DEF Startup
  <2>2. /\ field' \in [Field -> Session \cup {None}] /\ alive' \subseteq Field \X Session
        /\ \A x \in alive' : x[2] = s /\ field'[x[1]] = s
        /\ \A f \in Field : field'[f] \in {None, s}
        /\ field'["proxy"] = s
        /\ field'["processes"] = s /\ <<"processes", s>> \in alive'
        /\ Complete(s)'
    BY <2>1, StartedFacts
  <2>3. TypeOK'
    BY <2>0, <2>2 DEF TypeOK
  <2>4. JobInv'
    BY <2>0 DEF TypeOK, JobInv, Live
  <2>5. StopperInv' /\ StoppedIsClean'
    BY <2>0 DEF TypeOK, StopperInv, StoppedIsClean
  <2>6. HeldInv'
    <3>1. hung' = {}
      BY DEF HeldInv, Live
    <3>2. \A t \in Session : Live(t)' => t = s /\ jobPc'[t] = "sendFd"
      BY <2>0 DEF TypeOK, Live
    <3> QED BY <2>2, <3>1, <3>2 DEF HeldInv
  <2>7. CompleteInv'
    BY <2>0, <2>2 DEF TypeOK, CompleteInv, Live
  <2> QED BY <2>3, <2>4, <2>5, <2>6, <2>7
<1> QED BY <1>1, <1>2, <1>3, <1>4, <1>5, <1>6, <1>7 DEF JobStep

(* The invariant is inductive.                                             *)
LEMMA NextIInv == IInv /\ [Next]_vars => IInv'
<1> SUFFICES ASSUME IInv, [Next]_vars PROVE IInv'
  OBVIOUS
<1>0. TypeOK /\ \A s \in hung : <<"processes", s>> \in alive
  BY DEF IInv, HeldInv
<1>1. CASE StopperStep
  BY <1>1, StopperIInv
<1>2. CASE persistStatsFails
  BY <1>2, DieIInv
<1>3. CASE Close \/ onRevoke
  BY <1>0, <1>3, StopIInv DEF Close, onRevoke, TypeOK
<1>4. CASE StartRefused
  BY <1>0, <1>4, StopIInv DEF StartRefused, Deliver, TypeOK
<1>5. CASE StartIgnored
  BY <1>0, <1>5, QuietIInv DEF StartIgnored, TypeOK, heldVars
<1>6. CASE forceLoad
  <2>1. CASE state \in {"Connecting", "Connected"}
    BY <1>0, <1>6, <2>1, StopIInv DEF forceLoad, TypeOK
  <2>2. CASE state \notin {"Connecting", "Connected"}
    BY <1>0, <1>6, <2>2, QuietIInv DEF forceLoad, TypeOK, heldVars
  <2> QED BY <2>1, <2>2
<1>7. ASSUME NEW s \in Session, JobStep(s) PROVE IInv'
  BY <1>7, JobIInv
<1>8. ASSUME NEW s \in Session, onStartCommand(s) \/ StartWithoutProfile(s) PROVE IInv'
  BY <1>8, StartIInv
<1>9. ASSUME NEW s \in Session, GuardGivesUp(s) \/ PoolHangs(s) PROVE IInv'
  <2>1. <<"processes", s>> \in alive
    BY <1>9, <1>0 DEF GuardGivesUp, PoolHangs, IInv, HeldInv, StopperInv, TypeOK
  <2>2. hung' \subseteq Session /\ \A t \in hung' : <<"processes", t>> \in alive
    BY <1>0, <1>9, <2>1 DEF GuardGivesUp, PoolHangs, TypeOK
  <2> QED BY <1>0, <1>9, <2>2, QuietIInv DEF GuardGivesUp, PoolHangs, TypeOK
<1>10. ASSUME NEW s \in Session, onFatal(s) PROVE IInv'
  <2>1. fatal' \subseteq Session /\ startPending' \in BOOLEAN /\ boot' \in BOOLEAN
    BY <1>0, <1>10 DEF onFatal, TypeOK
  <2> QED BY <1>10, <2>1, StopIInv DEF onFatal
<1>11. CASE UNCHANGED vars
  BY <1>0, <1>11, QuietIInv DEF vars, jobVars, heldVars, TypeOK
<1> QED
  BY <1>1, <1>2, <1>3, <1>4, <1>5, <1>6, <1>7, <1>8, <1>9, <1>10, <1>11 DEF Next, Outside

(* The service always satisfies the inductive invariant.                   *)
THEOREM ServiceInvariant == Spec => []IInv
BY InitIInv, NextIInv, PTL DEF Spec

(* Type correctness of the service's state.                                *)
THEOREM ServiceTypeOK == Spec => []TypeOK
<1>1. IInv => TypeOK
  BY DEF IInv
<1> QED BY <1>1, ServiceInvariant, PTL

(* Stopped means that nothing of any session is left.                      *)
THEOREM ServiceStoppedIsClean == Spec => []StoppedIsClean
<1>1. IInv => StoppedIsClean
  BY DEF IInv
<1> QED BY <1>1, ServiceInvariant, PTL

(* Two sessions never overlap.                                             *)
THEOREM ServiceOneSession == Spec => []OneSessionAtATime
<1>1. IInv => OneSessionAtATime
  BY DEF IInv, JobInv, HeldInv, OneSessionAtATime
<1> QED BY <1>1, ServiceInvariant, PTL

(* Connected means that all that is to run is alive and referenced.        *)
THEOREM ServiceConnectedIsComplete == Spec => []ConnectedIsComplete
<1>1. IInv => ConnectedIsComplete
  BY DEF IInv, CompleteInv, Complete, ConnectedIsComplete
<1> QED BY <1>1, ServiceInvariant, PTL

(* Connecting and Stopping always have a coroutine that will end them.     *)
THEOREM ServiceSomeoneIsInCharge == Spec => []SomeoneIsInCharge
<1>1. IInv => SomeoneIsInCharge
  BY DEF IInv, JobInv, StopperInv, SomeoneIsInCharge
<1> QED BY <1>1, ServiceInvariant, PTL
-----------------------------------------------------------------------------
(* The refinement: each step of the service is one of the life cycle.      *)

(* Releasing some of what is alive while Stopping is Release or invisible. *)
LEMMA ReleaseStep ==
  ASSUME IInv, IInv', state = "Stopping", state' = state, alive' \subseteq alive, hung' = hung
  PROVE  [Lifecycle!LifecycleNext]_(Lifecycle!lifecycleVars)
<1> DEFINE running(a) == {x[2] : x \in a}
<1>1. \A x, y \in alive : x[2] = y[2]
  BY DEF IInv, HeldInv
<1>2. CASE alive' = {}
  <2>1. running(alive') = {} /\ hung = {}
    BY <1>2 DEF IInv, HeldInv
  <2> QED BY <2>1 DEF Lifecycle!LifecycleNext, Lifecycle!Release, Lifecycle!lifecycleVars
<1>3. CASE alive' # {}
  <2>1. running(alive') = running(alive)
    BY <1>1, <1>3
  <2> QED BY <2>1 DEF Lifecycle!lifecycleVars
<1> QED BY <1>2, <1>3

(* A call of stopRunner() that leaves alive alone is Stop or invisible.    *)
LEMMA StopStep ==
  ASSUME TypeOK, NEW r, stopRunner(r), alive' = alive, hung' = hung
  PROVE  [Lifecycle!LifecycleNext]_(Lifecycle!lifecycleVars)
BY DEF TypeOK, stopRunner, Lifecycle!LifecycleNext, Lifecycle!Stop, Lifecycle!lifecycleVars

(* startProcesses() makes its session the running one.                     *)
LEMMA AcquireStep ==
  ASSUME IInv, NEW s \in Session, jobPc[s] = "preparing", s \notin cancelled,
         NEW n \in 1 .. Len(Startup), Started(s, n), hung' = hung,
         state' \in {"Connecting", "Connected", "Stopping"}
  PROVE  [Lifecycle!LifecycleNext]_(Lifecycle!lifecycleVars)
<1>1. state = "Connecting" /\ alive = {}
  BY DEF IInv, JobInv, HeldInv, Live
<1>2. \E f \in Field : <<f, s>> \in alive'
  <2>1. Startup[1] = "processes" /\ 1 \in 1 .. n
    BY DEF Startup
  <2> QED BY <2>1 DEF Started, Field
<1>3. \A x \in alive' : x[2] = s
  BY <1>1 DEF Started
<1>4. {x[2] : x \in alive'} = {s} /\ {x[2] : x \in alive} = {}
  BY <1>1, <1>2, <1>3
<1> QED BY <1>1, <1>4 DEF Lifecycle!LifecycleNext, Lifecycle!Acquire

(* A step of a connecting coroutine is a step of the life cycle.           *)
LEMMA JobRefines ==
  ASSUME IInv, NEW s \in Session, JobStep(s)
  PROVE  [Lifecycle!LifecycleNext]_(Lifecycle!lifecycleVars)
<1>0. TypeOK
  BY DEF IInv
<1>1. CASE BeginJob(s) \/ SkipJob(s) \/ CancelJob(s)
  BY <1>1 DEF BeginJob, SkipJob, CancelJob, heldVars, Lifecycle!lifecycleVars
<1>2. CASE FailJob(s)
  BY <1>0, <1>2, StopStep DEF FailJob, heldVars
<1>3. CASE startProcesses(s)
  <2>1. state' \in {"Connecting", "Connected", "Stopping"}
    BY <1>3 DEF startProcesses, IInv, JobInv, Live
  <2>2. Len(Startup) \in 1 .. Len(Startup)
    BY DEF Startup
  <2> QED BY <1>3, <2>1, <2>2, AcquireStep DEF startProcesses
<1>4. ASSUME NEW n \in 1 .. Len(Startup), startProcessesFails(s, n)
      PROVE  [Lifecycle!LifecycleNext]_(Lifecycle!lifecycleVars)
  <2>1. state' = "Stopping"
    BY <1>4 DEF startProcessesFails, stopRunner
  <2> QED BY <1>4, <2>1, AcquireStep DEF startProcessesFails
<1>5. CASE sendFd(s)
  <2>1. state = "Connecting" /\ state' = "Connected" /\ alive' = alive /\ hung' = hung
    BY <1>5 DEF sendFd, heldVars, IInv, JobInv, Live
  <2>2. <<Startup[1], s>> \in alive
    BY <1>5, SameStartup DEF sendFd, IInv, CompleteInv, Complete, Startup
  <2>3. {x[2] : x \in alive} # {}
    BY <2>2
  <2> QED BY <2>1, <2>3 DEF Lifecycle!LifecycleNext, Lifecycle!Connect
<1> QED BY <1>1, <1>2, <1>3, <1>4, <1>5 DEF JobStep

(* Every step of the service is a step of the life cycle, or invisible.    *)
LEMMA NextRefines ==
  IInv /\ [Next]_vars => [Lifecycle!LifecycleNext]_(Lifecycle!lifecycleVars)
<1> SUFFICES ASSUME IInv, [Next]_vars
             PROVE  [Lifecycle!LifecycleNext]_(Lifecycle!lifecycleVars)
  OBVIOUS
<1>0. TypeOK /\ IInv'
  BY NextIInv DEF IInv
<1>1. CASE CleanUp
  BY <1>0, <1>1, ReleaseStep DEF CleanUp, LetGo, IInv, StopperInv
<1>2. ASSUME NEW x \in waiting, ShutDown(x)
      PROVE  [Lifecycle!LifecycleNext]_(Lifecycle!lifecycleVars)
  BY <1>0, <1>2, ReleaseStep DEF ShutDown, IInv, StopperInv
<1>3. CASE Finish
  <2>1. state = "Stopping" /\ alive = {} /\ alive' = alive /\ hung' = hung /\ state' = "Stopped"
    BY <1>3 DEF Finish, heldVars, IInv, StopperInv
  <2>2. {x[2] : x \in alive} = {}
    BY <2>1
  <2> QED BY <2>1, <2>2 DEF Lifecycle!LifecycleNext, Lifecycle!Finish
<1>4. CASE Outside
  BY <1>0, <1>4, StopStep DEF Outside, Close, forceLoad, onRevoke, StartRefused,
     StartIgnored, heldVars, Lifecycle!lifecycleVars
<1>5. ASSUME NEW s \in Session, JobStep(s)
      PROVE  [Lifecycle!LifecycleNext]_(Lifecycle!lifecycleVars)
  BY <1>5, JobRefines
<1>6. ASSUME NEW s \in Session, onStartCommand(s)
      PROVE  [Lifecycle!LifecycleNext]_(Lifecycle!lifecycleVars)
  <2>1. state = "Stopped" /\ alive = {} /\ alive' = alive /\ hung' = hung /\ state' = "Connecting"
    BY <1>6 DEF onStartCommand, IInv, StoppedIsClean
  <2>2. {x[2] : x \in alive} = {}
    BY <2>1
  <2> QED BY <2>1, <2>2 DEF Lifecycle!LifecycleNext, Lifecycle!Start
<1>7. ASSUME NEW s \in Session, StartWithoutProfile(s) \/ onFatal(s)
      PROVE  [Lifecycle!LifecycleNext]_(Lifecycle!lifecycleVars)
  BY <1>0, <1>7, StopStep DEF StartWithoutProfile, onFatal, heldVars
<1>8. ASSUME NEW s \in Session, GuardGivesUp(s) \/ PoolHangs(s)
       PROVE  [Lifecycle!LifecycleNext]_(Lifecycle!lifecycleVars)
  <2>1. /\ alive' = alive /\ state' = state
        /\ hung' = hung \/ (hung' = hung \cup {s} /\ <<"processes", s>> \in alive)
    BY <1>0, <1>8 DEF GuardGivesUp, PoolHangs, IInv, HeldInv, StopperInv, TypeOK
  <2>2. CASE (hung' # {}) = (hung # {})
    BY <2>1, <2>2 DEF Lifecycle!lifecycleVars
  <2>3. CASE (hung' # {}) # (hung # {})
    <3>1. hung = {} /\ hung' # {} /\ {x[2] : x \in alive} # {}
      BY <2>1, <2>3
    <3> QED BY <2>1, <3>1 DEF Lifecycle!LifecycleNext, Lifecycle!Hang
  <2> QED BY <2>2, <2>3
<1>9. CASE persistStatsFails
  <2>1. /\ {x[2] : x \in alive} # {} /\ {x[2] : x \in alive'} = {}
        /\ state' = "Stopped" /\ hung' = {}
    BY <1>9 DEF persistStatsFails
  <2> QED BY <2>1 DEF Lifecycle!LifecycleNext, Lifecycle!Die
<1>10. CASE UNCHANGED vars
  BY <1>10 DEF vars, Lifecycle!lifecycleVars
<1> QED
  BY <1>1, <1>2, <1>3, <1>4, <1>5, <1>6, <1>7, <1>8, <1>9, <1>10 DEF Next, StopperStep

(* The service implements its abstract life cycle.                         *)
THEOREM ServiceImplementsLifecycle == Spec => ImplementsLifecycle
<1>1. Init => Lifecycle!LifecycleInit
  BY DEF Init, Lifecycle!LifecycleInit
<1> QED
  BY <1>1, NextRefines, ServiceInvariant, PTL
  DEF Spec, ImplementsLifecycle, Lifecycle!LifecycleSpec
=============================================================================
