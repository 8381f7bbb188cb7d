----------------------------- MODULE BaseService -----------------------------
(***************************************************************************)
(* BaseService.kt with VpnService.kt (or ProxyService.kt and               *)
(* TransproxyService.kt): the life of the proxy service, from              *)
(* onStartCommand through the connecting coroutine to stopRunner's         *)
(* coroutine and back.                                                     *)
(*                                                                         *)
(* All of this code runs on the main thread.  An action is one callback,   *)
(* or what a coroutine does between two of its suspension points, so the   *)
(* interleavings are those the main looper can produce; posted tasks may   *)
(* run in any order, which includes the looper's own.                      *)
(*                                                                         *)
(* A session is one successful pass through onStartCommand.  What the      *)
(* fields of Data (and of VpnService) point to is named by the session     *)
(* that created it, and None stands for null.                              *)
(***************************************************************************)
EXTENDS Naturals, Sequences

CONSTANT MaxSession  \* bound on the sessions of a behaviour

ASSUME ServiceAssumption == MaxSession \in Nat

Session == 1 .. MaxSession
None    == 0

(* The fields of Data and VpnService that hold something to be shut down.  *)
(* For the proxies that is the thread of their traffic monitor.            *)
Field == {"processes", "worker", "proxy", "udpFallback", "localDns", "conn"}

VARIABLES
  isVpn,          \* isVpnService, which does not change
  state,          \* data.state
  connectingJob,  \* data.connectingJob
  jobPc,          \* where the connecting coroutine of a session is suspended
  cancelled,      \* sessions whose connecting coroutine was cancelled
  field,          \* the fields above
  alive,          \* <<f, s>>: a pool, thread or tun device of session s runs
  hung,           \* sessions whose pool has a guard in a receive that is never answered
  stopper,        \* the coroutine of stopRunner: its pc, the job it joins, restart
  waiting,        \* what the coroutineScope of stopper still waits for
  receiver,       \* data.closeReceiverRegistered
  notification,   \* data.notification # null
  fatal,          \* sessions with an onFatal posted to the main thread
  startPending,   \* startRunner() asked the system for an onStartCommand
  boot            \* BootReceiver.enabled

jobVars  == <<connectingJob, jobPc>>
heldVars == <<field, alive, hung>>
vars == <<isVpn, state, connectingJob, jobPc, cancelled, field, alive, hung, stopper, waiting,
          receiver, notification, fatal, startPending, boot>>

Idle == [pc |-> "none", job |-> None, restart |-> FALSE]

Init ==
  /\ isVpn \in BOOLEAN
  /\ state = "Stopped"
  /\ connectingJob = None
  /\ jobPc = [s \in Session |-> "none"]
  /\ cancelled = {}
  /\ field = [f \in Field |-> None]
  /\ alive = {}
  /\ hung = {}
  /\ stopper = Idle
  /\ waiting = {}
  /\ receiver = FALSE
  /\ notification = FALSE
  /\ fatal = {}
  /\ startPending = FALSE
  /\ boot \in BOOLEAN

\* The connecting coroutine of s has not completed.
Live(s) == jobPc[s] \in {"posted", "preparing", "sendFd"}

\* The next session to be started.
Fresh(s) == jobPc[s] = "none" /\ \A t \in 1 .. s - 1 : jobPc[t] # "none"

-----------------------------------------------------------------------------
(* stopRunner.                                                             *)

\* The call: nothing when already stopping, otherwise the coroutine is launched
\* and cancels the connecting one.
stopRunner(restart) ==
  IF state = "Stopping"
  THEN UNCHANGED <<state, cancelled, stopper>>
  ELSE /\ state' = "Stopping"
       /\ cancelled' = cancelled \cup ({connectingJob} \ {None})
       /\ stopper' = [pc |-> "join", job |-> connectingJob, restart |-> restart]

\* killProcesses, the receiver, the notification and the proxies: what the fields
\* in f point to is told to stop, and conn.close() takes effect at once.
LetGo(f) ==
  /\ stopper' = [stopper EXCEPT !.pc = "cleanUp"]
  /\ field' = [g \in Field |-> IF g \in f THEN None ELSE field[g]]
  /\ alive' = {x \in alive : x[1] # "conn" \/ x[2] # field["conn"]}
  /\ waiting' = {x \in alive : x[1] \in f \ {"conn"} /\ x[2] = field[x[1]]}
  /\ receiver' = FALSE
  /\ notification' = FALSE
  /\ UNCHANGED <<isVpn, state, jobVars, cancelled, hung, fatal, startPending, boot>>

\* Mutant: VpnService.killProcesses() forgets its worker.
CleanUpKeepsWorker ==
  /\ stopper.pc = "join"
  /\ stopper.job # None => ~Live(stopper.job)
  /\ LetGo(Field \ {"worker"})

\* Mutant: the connecting coroutine is cancelled and not joined.
CleanUpWithoutJoin ==
  /\ stopper.pc = "join"
  /\ LetGo(Field)

\* Mutant: the coroutine waits for connectingJob to be cleared.
CleanUpWhenCleared ==
  /\ stopper.pc = "join"
  /\ connectingJob = None
  /\ LetGo(Field)

\* cancelAndJoin() has returned.
CleanUp ==
  /\ stopper.pc = "join"
  /\ stopper.job # None => ~Live(stopper.job)
  /\ LetGo(Field)

\* A pool is joined, or a listener thread has left its loop.  The join of a pool
\* with a guard that never ends does not return.
ShutDown(x) ==
  /\ x \in waiting
  /\ x[1] = "processes" => x[2] \notin hung
  /\ alive' = alive \ {x}
  /\ waiting' = waiting \ {x}
  /\ UNCHANGED <<isVpn, state, jobVars, cancelled, field, hung, stopper, receiver,
                 notification, fatal, startPending, boot>>

\* The cancellation overtakes a guard's resumption, or meets it in its restart
\* callback (CloseCompletes in GuardedProcessPool).
PoolHangs(s) ==
  /\ <<"processes", s>> \in waiting
  /\ hung' = hung \cup {s}
  /\ UNCHANGED <<isVpn, state, jobVars, cancelled, field, alive, stopper, waiting, receiver,
                 notification, fatal, startPending, boot>>

\* persistStats(), called by ProxyInstance.shutdown() in the clean-up or by the
\* receiver when the device shuts down, throws what nobody catches: the process of
\* the service dies, with all that is in it.
persistStatsFails ==
  /\ \E f \in {"proxy", "udpFallback"} : <<f, field[f]>> \in alive
  /\ receiver \/ (stopper.pc = "join" /\ (stopper.job # None => ~Live(stopper.job)))
  /\ state' = "Stopped"
  /\ connectingJob' = None
  /\ jobPc' = [s \in Session |-> IF Live(s) THEN "ended" ELSE jobPc[s]]
  /\ field' = [f \in Field |-> None]
  /\ alive' = {} /\ hung' = {} /\ waiting' = {} /\ fatal' = {}
  /\ stopper' = Idle
  /\ receiver' = FALSE /\ notification' = FALSE
  /\ UNCHANGED <<isVpn, cancelled, startPending, boot>>

\* The coroutineScope is over: Stopped, and startRunner() or stopSelf().
Finish ==
  /\ stopper.pc = "cleanUp" /\ waiting = {}
  /\ state' = "Stopped"
  /\ stopper' = Idle
  /\ startPending' = (startPending \/ stopper.restart)
  /\ boot' = (boot /\ stopper.restart)
  /\ UNCHANGED <<isVpn, jobVars, cancelled, heldVars, waiting, receiver, notification, fatal>>

-----------------------------------------------------------------------------
(* onStartCommand.                                                         *)

\* A start delivered by the system: the one startRunner() asked for, or one of
\* Core.startService().
Deliver == startPending' \in {startPending, FALSE}

\* VpnService: VPN permission is missing or the service mode has changed.
StartRefused ==
  /\ isVpn
  /\ Deliver
  /\ stopRunner(FALSE)
  /\ UNCHANGED <<isVpn, jobVars, heldVars, waiting, receiver, notification, fatal, boot>>

StartIgnored ==
  /\ state # "Stopped"
  /\ startPending /\ startPending' = FALSE
  /\ UNCHANGED <<isVpn, state, jobVars, cancelled, heldVars, stopper, waiting, receiver,
                 notification, fatal, boot>>

\* There is no profile, or ProxyInstance(profile) or ProxyInstance(fallback)
\* throws, the latter when data.proxy is already set.
StartWithoutProfile(s) ==
  /\ state = "Stopped" /\ Fresh(s)
  /\ Deliver
  /\ field' \in {field, [field EXCEPT !["proxy"] = s]}
  /\ notification' = TRUE
  /\ stopRunner(FALSE)
  /\ UNCHANGED <<isVpn, jobVars, alive, hung, waiting, receiver, fatal, boot>>

\* persistAcrossReboot and whether there is a UDP fallback are the user's.
onStartCommand(s) ==
  /\ state = "Stopped" /\ Fresh(s)
  /\ Deliver
  /\ \E fallback \in {None, s} :
       field' = [field EXCEPT !["proxy"] = s, !["udpFallback"] = fallback]
  /\ boot' \in BOOLEAN
  /\ receiver' = TRUE
  /\ notification' = TRUE
  /\ state' = "Connecting"
  /\ connectingJob' = s
  /\ jobPc' = [jobPc EXCEPT ![s] = "posted"]
  /\ UNCHANGED <<isVpn, cancelled, alive, hung, stopper, waiting, fatal>>

-----------------------------------------------------------------------------
(* The connecting coroutine.                                               *)

\* The coroutine's end: its finally block clears connectingJob.
EndJob(s) ==
  /\ jobPc' = [jobPc EXCEPT ![s] = "ended"]
  /\ connectingJob' = None

\* killAll() and preInit(), and custom rules are flattened on an IO thread.
BeginJob(s) ==
  /\ jobPc[s] = "posted" /\ s \notin cancelled
  /\ jobPc' = [jobPc EXCEPT ![s] = "preparing"]
  /\ UNCHANGED <<isVpn, state, connectingJob, cancelled, heldVars, stopper, waiting,
                 receiver, notification, fatal, startPending, boot>>

\* Cancelled before it ran: the body, and its finally block, never run.
SkipJob(s) ==
  /\ jobPc[s] = "posted" /\ s \in cancelled
  /\ jobPc' = [jobPc EXCEPT ![s] = "ended"]
  /\ UNCHANGED <<isVpn, state, connectingJob, cancelled, heldVars, stopper, waiting,
                 receiver, notification, fatal, startPending, boot>>

\* Mutant: the failure is logged only.
FailJobSilently(s) ==
  /\ jobPc[s] = "preparing" \/ (jobPc[s] = "sendFd" /\ s \notin cancelled)
  /\ EndJob(s)
  /\ UNCHANGED <<isVpn, state, cancelled, heldVars, stopper, waiting, receiver, notification,
                 fatal, startPending, boot>>

\* Any Throwable but a cancellation: stopRunner() is called from the coroutine,
\* cancels it and waits for it to end, which it does.  After a cancellation an
\* IOException of the IO block still gets here.
FailJob(s) ==
  /\ jobPc[s] = "preparing" \/ (jobPc[s] = "sendFd" /\ s \notin cancelled)
  /\ stopRunner(FALSE)
  /\ EndJob(s)
  /\ UNCHANGED <<isVpn, heldVars, waiting, receiver, notification, fatal, startPending, boot>>

\* A CancellationException where the coroutine was suspended.
CancelJob(s) ==
  /\ jobPc[s] \in {"preparing", "sendFd"} /\ s \in cancelled
  /\ EndJob(s)
  /\ UNCHANGED <<isVpn, state, cancelled, heldVars, stopper, waiting, receiver, notification,
                 fatal, startPending, boot>>

\* What startProcesses() starts, in order.
Startup ==
  IF isVpn THEN <<"processes", "worker", "proxy", "udpFallback", "localDns", "conn">>
           ELSE <<"processes", "proxy", "udpFallback", "localDns">>

\* The first n of these have been started for session s.
Started(s, n) ==
  LET new == {Startup[i] : i \in 1 .. n} \ (IF field["udpFallback"] = None THEN {"udpFallback"} ELSE {})
  IN  /\ field' = [f \in Field |-> IF f \in new THEN s ELSE field[f]]
      /\ alive' = alive \cup (new \X {s})

\* The pool is created and startProcesses() throws after n steps.
startProcessesFails(s, n) ==
  /\ jobPc[s] = "preparing" /\ s \notin cancelled
  /\ Started(s, n)
  /\ stopRunner(FALSE)
  /\ EndJob(s)
  /\ UNCHANGED <<isVpn, hung, waiting, receiver, notification, fatal, startPending, boot>>

\* It runs to its end, or for the VPN to the delay() in sendFd().
startProcesses(s) ==
  /\ jobPc[s] = "preparing" /\ s \notin cancelled
  /\ Started(s, Len(Startup))
  /\ IF isVpn
     THEN jobPc' = [jobPc EXCEPT ![s] = "sendFd"] /\ UNCHANGED <<state, connectingJob>>
     ELSE state' = "Connected" /\ EndJob(s)
  /\ UNCHANGED <<isVpn, cancelled, hung, stopper, waiting, receiver, notification, fatal,
                 startPending, boot>>

\* Mutant: the retry loop swallows the cancellation.
sendFdUncancellable(s) ==
  /\ jobPc[s] = "sendFd"
  /\ state' = "Connected"
  /\ EndJob(s)
  /\ UNCHANGED <<isVpn, cancelled, heldVars, stopper, waiting, receiver, notification, fatal,
                 startPending, boot>>

sendFd(s) ==
  /\ jobPc[s] = "sendFd" /\ s \notin cancelled
  /\ state' = "Connected"
  /\ EndJob(s)
  /\ UNCHANGED <<isVpn, cancelled, heldVars, stopper, waiting, receiver, notification, fatal,
                 startPending, boot>>

-----------------------------------------------------------------------------
(* Events from outside.                                                    *)

\* A guard of the open pool of s gives up and posts onFatal.  If it was its restart
\* callback that threw, nobody answers the receive of its clean-up.
GuardGivesUp(s) ==
  /\ field["processes"] = s
  /\ fatal' = fatal \cup {s}
  /\ hung' = hung \/ (isVpn /\ hung' = hung \cup {s})
  /\ UNCHANGED <<isVpn, state, jobVars, cancelled, field, alive, stopper, waiting, receiver,
                 notification, startPending, boot>>

\* Mutant: only a connected service is stopped.
onFatalWhenConnected(s) ==
  /\ s \in fatal
  /\ fatal' = fatal \ {s}
  /\ IF state = "Connected" THEN stopRunner(FALSE) ELSE UNCHANGED <<state, cancelled, stopper>>
  /\ UNCHANGED <<isVpn, jobVars, heldVars, waiting, receiver, notification, startPending, boot>>

onFatal(s) ==
  /\ s \in fatal
  /\ fatal' = fatal \ {s}
  /\ stopRunner(FALSE)
  /\ UNCHANGED <<isVpn, jobVars, heldVars, waiting, receiver, notification, startPending, boot>>

\* closeReceiver: Action.CLOSE, and Action.RELOAD with the state forceLoad() sees.
Close ==
  /\ receiver
  /\ stopRunner(FALSE)
  /\ UNCHANGED <<isVpn, jobVars, heldVars, waiting, receiver, notification, fatal, startPending, boot>>

forceLoad ==
  /\ receiver
  /\ IF state \in {"Connecting", "Connected"}
     THEN stopRunner(TRUE) /\ UNCHANGED startPending
     ELSE /\ startPending' = (startPending \/ state = "Stopped")
          /\ UNCHANGED <<state, cancelled, stopper>>
  /\ UNCHANGED <<isVpn, jobVars, heldVars, waiting, receiver, notification, fatal, boot>>

\* The user revoked the VPN, or tun2socks' restart callback met an ErrnoException.
onRevoke ==
  /\ isVpn
  /\ stopRunner(FALSE)
  /\ UNCHANGED <<isVpn, jobVars, heldVars, waiting, receiver, notification, fatal, startPending, boot>>

-----------------------------------------------------------------------------
JobStep(s) ==
  \/ BeginJob(s) \/ SkipJob(s) \/ CancelJob(s) \/ FailJob(s)
  \/ startProcesses(s) \/ \E n \in 1 .. Len(Startup) : startProcessesFails(s, n)
  \/ sendFd(s)

StopperStep == CleanUp \/ (\E x \in waiting : ShutDown(x)) \/ Finish

Outside == Close \/ forceLoad \/ onRevoke \/ StartRefused \/ StartIgnored

Next ==
  \/ StopperStep
  \/ persistStatsFails
  \/ Outside
  \/ \E s \in Session : \/ JobStep(s) \/ onStartCommand(s) \/ StartWithoutProfile(s)
                        \/ GuardGivesUp(s) \/ onFatal(s) \/ PoolHangs(s)

Spec == Init /\ [][Next]_vars

(* The main looper runs what was posted to it, the IO block and the retry  *)
(* loop of sendFd() end, and a thread or pool that was told to shut down   *)
(* does, unless it hangs: StopperStep then has no step to take.  Nothing   *)
(* obliges a pool to hang, nor the system or the user to start or stop.    *)
Fairness ==
  /\ WF_vars(StopperStep)
  /\ \A s \in Session : WF_vars(JobStep(s)) /\ WF_vars(onFatal(s))

FairSpec == Spec /\ Fairness

-----------------------------------------------------------------------------
(* Properties.                                                             *)

TypeOK ==
  /\ isVpn \in BOOLEAN
  /\ state \in {"Stopped", "Connecting", "Connected", "Stopping"}
  /\ connectingJob \in Session \cup {None}
  /\ jobPc \in [Session -> {"none", "posted", "preparing", "sendFd", "ended"}]
  /\ cancelled \subseteq Session
  /\ field \in [Field -> Session \cup {None}]
  /\ alive \subseteq Field \X Session
  /\ hung \subseteq Session
  /\ stopper \in [pc : {"none", "join", "cleanUp"}, job : Session \cup {None},
                  restart : BOOLEAN]
  /\ waiting \subseteq Field \X Session
  /\ receiver \in BOOLEAN
  /\ notification \in BOOLEAN
  /\ fatal \subseteq Session
  /\ startPending \in BOOLEAN
  /\ boot \in BOOLEAN

(* Stopped means stopped: whichever way the last session ended (a partial  *)
(* start, a failure, a cancellation at any point of the connecting         *)
(* coroutine), no process pool, thread or tun device of it is alive, no    *)
(* coroutine of it is left, and every field is null again (lines 267-306). *)
StoppedIsClean ==
  state = "Stopped" =>
    /\ alive = {}
    /\ field = [f \in Field |-> None]
    /\ \A s \in Session : ~Live(s)
    /\ ~receiver /\ ~notification

(* Two sessions never overlap: what is alive, and the connecting coroutine *)
(* if there is one, belong to one session.  The processes of two sessions  *)
(* would fight over the same ports, socket files and configuration file.   *)
OneSessionAtATime ==
  LET used == {x[2] : x \in alive} \cup {s \in Session : Live(s)}
  IN  \A s, t \in used : s = t

(* Connected means that everything startProcesses() is to start is alive,  *)
(* belongs to one session and is referenced by its field, so that a later  *)
(* stop finds it (lines 364-373).                                          *)
ConnectedIsComplete ==
  state = "Connected" =>
    \E s \in Session :
      /\ ~Live(s) /\ receiver /\ notification
      /\ \A i \in 1 .. Len(Startup) :
           Startup[i] = "udpFallback" \/ (field[Startup[i]] = s /\ <<Startup[i], s>> \in alive)

(* The service is never Connecting without a coroutine that will end that  *)
(* state, nor Stopping without one (lines 349-382 and 270-305).            *)
SomeoneIsInCharge ==
  /\ state = "Connecting" <=> \E s \in Session : Live(s) /\ s \notin cancelled
  /\ state = "Stopping" <=> stopper.pc # "none"

(* A connection attempt does not hang (lines 350-382).                     *)
ConnectingEnds == state = "Connecting" ~> state # "Connecting"

(* A guard that has given up takes its whole session down (lines 364-367): *)
(* every thread and the tun device of it end, and so does its pool, unless *)
(* a guard of it waits for an answer that never comes.                     *)
FatalEndsSession ==
  \A s \in Session :
    s \in fatal ~> \A x \in alive : x[2] = s => x[1] = "processes" /\ s \in hung

-----------------------------------------------------------------------------
(* The service implements its abstract life cycle: a session is running    *)
(* while anything of it is alive, and stuck if its pool hangs.             *)
Lifecycle == INSTANCE ServiceLifecycle
               WITH running <- {x[2] : x \in alive}, stuck <- hung # {}

(* Every step of onStartCommand(), stopRunner() and the coroutines they    *)
(* launch is a step of the life cycle, or invisible.                       *)
ImplementsLifecycle == Lifecycle!LifecycleSpec

(* And, under the fairness above, a stop releases everything and ends,     *)
(* whoever asked for it and at whichever point of a session, unless the    *)
(* pool of the session hangs.                                              *)
ImplementsFairLifecycle == Lifecycle!LifecycleFairSpec
=============================================================================
