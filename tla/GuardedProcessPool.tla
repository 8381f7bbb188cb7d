------------------------- MODULE GuardedProcessPool -------------------------
(***************************************************************************)
(* GuardedProcessPool.kt: a pool of guards, each of which runs one native  *)
(* process, restarts it when it exits, and kills it when the pool is       *)
(* closed.                                                                 *)
(*                                                                         *)
(* A guard is a coroutine on the main thread.  Beside it there is, for     *)
(* every process it has started, the stdout thread that waits for the      *)
(* process and sends its exit code over the rendezvous channel             *)
(* exitChannel.  An action is what the code does between two suspension    *)
(* points of the guard, or one step of the stdout thread or of the         *)
(* process.                                                                *)
(*                                                                         *)
(* exitChannel.receive() is cancelled promptly (kotlinx.coroutines 1.6.4): *)
(* an exit code already handed to a receiver that is cancelled, or timed   *)
(* out, before the main thread resumes it is dropped.                      *)
(***************************************************************************)
EXTENDS Naturals

CONSTANTS Guard,        \* the processes of one session: ss-local, tun2socks, ...
          Restartable,  \* the guards started with an onRestartCallback
          Sdk           \* the values of Build.VERSION.SDK_INT

ASSUME PoolAssumption == Restartable \subseteq Guard /\ Sdk \subseteq Nat

VARIABLES
  sdk,        \* the API level of the device, which does not change
  pc,         \* where the looper of a guard is suspended
  handed,     \* an exit code was handed to the guard's pending receive()
  running,    \* the looper's local variable
  process,    \* the process the guard started last
  waiter,     \* its stdout thread
  fatal,      \* guards that have launched onFatal
  cancelled,  \* the pool's Job: close() was called
  joined      \* the caller of close() got past job.join()

vars == <<sdk, pc, handed, running, process, waiter, fatal, cancelled, joined>>

(* receive: line 72.  callback: inside onRestartCallback, line 83.         *)
(* term, destroy, final: the receives of the clean-up, lines 98, 102, 105. *)
CleanUpPc == {"term", "destroy", "final"}
ReceivePc == {"receive"} \cup CleanUpPc
Pc        == {"unborn", "callback", "done"} \cup ReceivePc

Init ==
  /\ sdk \in Sdk
  /\ pc = [g \in Guard |-> "unborn"]
  /\ handed = [g \in Guard |-> FALSE]
  /\ running = [g \in Guard |-> FALSE]
  /\ process = [g \in Guard |-> "none"]
  /\ waiter = [g \in Guard |-> "none"]
  /\ fatal = {}
  /\ cancelled = FALSE
  /\ joined = FALSE

-----------------------------------------------------------------------------
(* The process and its stdout thread.                                      *)

\* A process may exit at any time; one that was killed is going to.
Exit(g) ==
  /\ process[g] \in {"alive", "killed"}
  /\ process' = [process EXCEPT ![g] = "dead"]
  /\ UNCHANGED <<pc, handed, running, waiter, fatal, cancelled, joined, sdk>>

\* Mutant: the code is sent when stdout closes, without waitFor().
SendWithoutWaitFor(g) ==
  /\ process[g] # "none" /\ waiter[g] = "waiting"
  /\ pc[g] \in ReceivePc /\ ~handed[g]
  /\ waiter' = [waiter EXCEPT ![g] = "none"]
  /\ handed' = [handed EXCEPT ![g] = TRUE]
  /\ UNCHANGED <<pc, running, process, fatal, cancelled, joined, sdk>>

\* stdout reached its end, waitFor() returned and send() met a receiver.
SendExitCode(g) ==
  /\ process[g] = "dead" /\ waiter[g] = "waiting"
  /\ pc[g] \in ReceivePc /\ ~handed[g]
  /\ waiter' = [waiter EXCEPT ![g] = "none"]
  /\ handed' = [handed EXCEPT ![g] = TRUE]
  /\ UNCHANGED <<pc, running, process, fatal, cancelled, joined, sdk>>

-----------------------------------------------------------------------------
(* The looper.                                                             *)

\* The top of the loop: start the threads and suspend in receive().
Watch(g) ==
  /\ waiter' = [waiter EXCEPT ![g] = "waiting"]
  /\ pc' = [pc EXCEPT ![g] = "receive"]

\* pool.start(): the caller cancels nothing it still starts guards in.
Start(g) ==
  /\ ~cancelled /\ pc[g] = "unborn"
  /\ process' = [process EXCEPT ![g] = "alive"]
  /\ running' = [running EXCEPT ![g] = TRUE]
  /\ Watch(g)
  /\ UNCHANGED <<handed, fatal, cancelled, joined, sdk>>

\* catch (e: IOException) with the process gone: nothing to clean up.
FailStopped(g) ==
  /\ running' = [running EXCEPT ![g] = FALSE]
  /\ pc' = [pc EXCEPT ![g] = "done"]
  /\ fatal' = fatal \cup {g}
  /\ UNCHANGED <<process, waiter>>

\* Mutant: running stays false after the restart.
StartAgainNotRunning(g) ==
  /\ process' = [process EXCEPT ![g] = "alive"]
  /\ running' = [running EXCEPT ![g] = FALSE]
  /\ IF g \in Restartable
     THEN pc' = [pc EXCEPT ![g] = "callback"] /\ UNCHANGED waiter
     ELSE Watch(g)
  /\ UNCHANGED fatal

\* start() succeeds again, and onRestartCallback runs before the threads do.
StartAgain(g) ==
  /\ process' = [process EXCEPT ![g] = "alive"]
  /\ running' = [running EXCEPT ![g] = TRUE]
  /\ IF g \in Restartable
     THEN pc' = [pc EXCEPT ![g] = "callback"] /\ UNCHANGED waiter
     ELSE Watch(g)
  /\ UNCHANGED fatal

\* Mutant: a code that was handed over survives the cancellation.
RestartThoughCancelled(g) ==
  /\ pc[g] = "receive" /\ handed[g]
  /\ handed' = [handed EXCEPT ![g] = FALSE]
  /\ FailStopped(g) \/ StartAgain(g)
  /\ UNCHANGED <<cancelled, joined, sdk>>

\* receive() returns: the process exited too fast or cannot be started again
\* (IOException), or it is restarted.
Restart(g) ==
  /\ pc[g] = "receive" /\ handed[g] /\ ~cancelled
  /\ handed' = [handed EXCEPT ![g] = FALSE]
  /\ \/ FailStopped(g)
     \/ StartAgain(g)
  /\ UNCHANGED <<cancelled, joined, sdk>>

\* Mutant: after the callback the loop goes back to receive() only.
CallbackReturnsUnwatched(g) ==
  /\ pc[g] = "callback" /\ ~cancelled
  /\ pc' = [pc EXCEPT ![g] = "receive"]
  /\ UNCHANGED <<handed, running, process, waiter, fatal, cancelled, joined, sdk>>

CallbackReturns(g) ==
  /\ pc[g] = "callback" /\ ~cancelled
  /\ Watch(g)
  /\ UNCHANGED <<handed, running, process, fatal, cancelled, joined, sdk>>

\* sendFd() met an ErrnoException: the callback calls stopRunner(), which closes
\* the pool, and returns; the thread is started before receive() throws.
CallbackStops(g) ==
  /\ pc[g] = "callback" /\ ~cancelled
  /\ cancelled' = TRUE
  /\ Watch(g)
  /\ UNCHANGED <<handed, running, process, fatal, joined, sdk>>

-----------------------------------------------------------------------------
(* The finally block.                                                      *)

\* The clean-up up to its first receive(); SIGTERM may or may not end the
\* process, and on 26 and later so may destroy().
EnterFinally(g) ==
  IF ~running[g]
  THEN pc' = [pc EXCEPT ![g] = "done"] /\ UNCHANGED process
  ELSE IF sdk < 24
  THEN pc' = [pc EXCEPT ![g] = "term"] /\ UNCHANGED process
  ELSE IF sdk < 26
  THEN /\ pc' = [pc EXCEPT ![g] = "final"]
       /\ process' = [process EXCEPT ![g] = IF @ = "alive" THEN "killed" ELSE @]
  ELSE pc' = [pc EXCEPT ![g] = "destroy"] /\ UNCHANGED process

\* sendFd() gave up with an IOException inside onRestartCallback.
CallbackFails(g) ==
  /\ pc[g] = "callback" /\ ~cancelled
  /\ fatal' = fatal \cup {g}
  /\ EnterFinally(g)
  /\ UNCHANGED <<handed, running, waiter, cancelled, joined, sdk>>

\* The guard notices the cancellation.  A code it was already handed is lost.
Cancelled(g) ==
  /\ cancelled /\ pc[g] \in {"receive", "callback"}
  /\ handed' = [handed EXCEPT ![g] = FALSE]
  /\ EnterFinally(g)
  /\ UNCHANGED <<running, waiter, fatal, cancelled, joined, sdk>>

\* A receive() of the clean-up returns the exit code.
CleanedUp(g) ==
  /\ pc[g] \in CleanUpPc /\ handed[g]
  /\ handed' = [handed EXCEPT ![g] = FALSE]
  /\ pc' = [pc EXCEPT ![g] = "done"]
  /\ UNCHANGED <<running, process, waiter, fatal, cancelled, joined, sdk>>

\* Mutant: nothing is killed when the time is up.
TimeoutWithoutKill(g) ==
  /\ pc[g] \in {"term", "destroy"}
  /\ handed' = [handed EXCEPT ![g] = FALSE]
  /\ pc' = [pc EXCEPT ![g] = "final"]
  /\ UNCHANGED <<running, process, waiter, fatal, cancelled, joined, sdk>>

\* withTimeoutOrNull gives up, whether or not a code was handed meanwhile, and
\* the next signal is final: destroy() before 26, destroyForcibly() after.
Timeout(g) ==
  /\ pc[g] \in {"term", "destroy"}
  /\ handed' = [handed EXCEPT ![g] = FALSE]
  /\ process' = [process EXCEPT ![g] = IF @ = "alive" THEN "killed" ELSE @]
  /\ pc' = [pc EXCEPT ![g] = "final"]
  /\ UNCHANGED <<running, waiter, fatal, cancelled, joined, sdk>>

-----------------------------------------------------------------------------
(* close() and the join it launches in the caller's scope.                 *)

Close ==
  /\ ~cancelled
  /\ cancelled' = TRUE
  /\ UNCHANGED <<pc, handed, running, process, waiter, fatal, joined, sdk>>

Join ==
  /\ cancelled /\ ~joined
  /\ \A g \in Guard : pc[g] \in {"unborn", "done"}
  /\ joined' = TRUE
  /\ UNCHANGED <<pc, handed, running, process, waiter, fatal, cancelled, sdk>>

-----------------------------------------------------------------------------
GuardStep(g) ==
  \/ Restart(g) \/ CallbackReturns(g) \/ CallbackStops(g) \/ CallbackFails(g)
  \/ Cancelled(g) \/ CleanedUp(g) \/ Timeout(g)

Next ==
  \/ \E g \in Guard : Exit(g) \/ SendExitCode(g) \/ Start(g) \/ GuardStep(g)
  \/ Close
  \/ Join

Spec == Init /\ [][Next]_vars

(* The main thread keeps running posted continuations and timers, sendFd() *)
(* retries a bounded number of times, and a killed process dies.  Nothing  *)
(* obliges a process to exit or the pool to be closed.                     *)
Fairness ==
  /\ \A g \in Guard : /\ WF_vars(GuardStep(g))
                      /\ WF_vars(SendExitCode(g))
                      /\ WF_vars(process[g] = "killed" /\ Exit(g))
  /\ WF_vars(Join)

FairSpec == Spec /\ Fairness

-----------------------------------------------------------------------------
(* Properties.                                                             *)

TypeOK ==
  /\ sdk \in Sdk
  /\ pc \in [Guard -> Pc]
  /\ handed \in [Guard -> BOOLEAN]
  /\ running \in [Guard -> BOOLEAN]
  /\ process \in [Guard -> {"none", "alive", "killed", "dead"}]
  /\ waiter \in [Guard -> {"none", "waiting"}]
  /\ fatal \subseteq Guard
  /\ cancelled \in BOOLEAN
  /\ joined \in BOOLEAN

(* No process outlives its guard: once looper() has returned, whether by   *)
(* the fatal path or through the finally block (lines 88-107), the process *)
(* it started last has exited.                                             *)
NoOrphan == \A g \in Guard : pc[g] = "done" => process[g] = "dead"

(* When stopRunner() gets past the join of close() (lines 122-126) no      *)
(* process of the pool is left.                                            *)
JoinedMeansGone == joined => \A g \in Guard : process[g] \in {"none", "dead"}

(* An exit code on its way to the looper is that of the process the guard  *)
(* started last, which has exited, and no second code is behind it: a      *)
(* stale code never makes the looper start a process beside a living one   *)
(* (lines 69-82).                                                          *)
ExitCodeIsCurrent ==
  \A g \in Guard : handed[g] => process[g] = "dead" /\ waiter[g] = "none"

(* A guard gives up silently only when the pool was closed; otherwise it   *)
(* has launched onFatal (line 87), which is how the service gets to know.  *)
GivesUpLoudly == \A g \in Guard : pc[g] = "done" /\ ~cancelled => g \in fatal

(* Once the pool is closed no guard starts a process, not even one whose   *)
(* exit code or restart callback was under way (lines 72-83).              *)
NoStartAfterClose ==
  [][cancelled => \A g \in Guard : process'[g] = "alive" => process[g] = "alive"]_vars

(* A clean-up that waits in receive() for an exit code nobody will send.   *)
Unwatched(g) == pc[g] \in CleanUpPc /\ waiter[g] = "none" /\ ~handed[g]

(* A close() comes to its end unless a guard is left in an unanswered      *)
(* receive(): every other wait of the clean-up is answered or timed out.   *)
CloseCompletesIfWatched ==
  cancelled ~> (joined \/ \E g \in Guard : Unwatched(g))

(* A process that exits is started again or the failure is reported,       *)
(* unless the pool is closed first.                                        *)
ExitIsHandled ==
  \A g \in Guard :
    process[g] = "dead" ~> (process[g] = "alive" \/ g \in fatal \/ cancelled)

(* What lines 68 and 89 promise: the stdout thread of a process "also acts *)
(* as a daemon thread for waitFor", so that the clean-up of a closed pool  *)
(* always gets the exit code it waits for and close() comes to its end.    *)
CloseCompletes == cancelled ~> joined
=============================================================================
