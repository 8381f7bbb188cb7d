---------------------- MODULE GuardedProcessPoolProofs ----------------------
(***************************************************************************)
(* The safety properties of GuardedProcessPool, for any set of guards, any *)
(* subset of them with a restart callback and any SDK level.               *)
(***************************************************************************)
EXTENDS GuardedProcessPool, TLAPS

(* What a guard's suspension point says about its process and its thread.  *)
GuardInv(g) ==
  /\ handed[g] => process[g] = "dead" /\ waiter[g] = "none" /\ pc[g] \in ReceivePc
  /\ pc[g] = "receive" => waiter[g] = "waiting" \/ handed[g]
  /\ pc[g] \in ReceivePc \cup {"callback"} => running[g]
  /\ pc[g] = "unborn" => process[g] = "none"
  /\ pc[g] = "done" => process[g] = "dead"
  /\ pc[g] \in CleanUpPc \cup {"done"} => cancelled \/ g \in fatal
  /\ pc[g] \in {"unborn", "callback", "done"} => waiter[g] = "none"

JoinInv == joined => cancelled /\ \A g \in Guard : pc[g] \in {"unborn", "done"}

IInv == TypeOK /\ (\A g \in Guard : GuardInv(g)) /\ JoinInv

-----------------------------------------------------------------------------
(* Every step of a guard, of its process or of its thread keeps the types  *)
(* and leaves the other guards alone, which is what the proofs below       *)
(* rest on.                                                                *)
LEMMA InitIInv == Init => IInv
BY DEF Init, IInv, TypeOK, GuardInv, JoinInv, Pc, ReceivePc, CleanUpPc

(* The step of one guard: all the actions of looper(), of the process and  *)
(* of the stdout thread preserve the inductive invariant.                  *)
LEMMA GuardIInv ==
  ASSUME IInv, NEW g \in Guard,
         Exit(g) \/ SendExitCode(g) \/ Start(g) \/ GuardStep(g)
  PROVE  IInv'
<1> USE DEF IInv, TypeOK, GuardInv, JoinInv, Pc, ReceivePc, CleanUpPc
<1>1. CASE Exit(g)
  BY <1>1 DEF Exit
<1>2. CASE SendExitCode(g)
  BY <1>2 DEF SendExitCode
<1>3. CASE Start(g)
  BY <1>3 DEF Start, Watch
<1>4. CASE Restart(g)
  <2>1. CASE FailStopped(g)
    BY <1>4, <2>1 DEF Restart, FailStopped
  <2>2. CASE StartAgain(g) /\ g \in Restartable
    BY <1>4, <2>2 DEF Restart, StartAgain
  <2>3. CASE StartAgain(g) /\ g \notin Restartable
    BY <1>4, <2>3 DEF Restart, StartAgain, Watch
  <2> QED BY <1>4, <2>1, <2>2, <2>3 DEF Restart
<1>5. CASE CallbackReturns(g)
  BY <1>5 DEF CallbackReturns, Watch
<1>6. CASE CallbackStops(g)
  BY <1>6 DEF CallbackStops, Watch
<1>7. CASE CallbackFails(g)
  BY <1>7, PoolAssumption DEF CallbackFails, EnterFinally
<1>8. CASE Cancelled(g)
  <2>1. cancelled /\ running[g] /\ pc[g] \in {"receive", "callback"}
    BY <1>8 DEF Cancelled
  <2>2. CASE sdk < 24
    BY <1>8, <2>1, <2>2 DEF Cancelled, EnterFinally
  <2>3. CASE ~(sdk < 24) /\ sdk < 26
    BY <1>8, <2>1, <2>3 DEF Cancelled, EnterFinally
  <2>4. CASE ~(sdk < 24) /\ ~(sdk < 26)
    BY <1>8, <2>1, <2>4 DEF Cancelled, EnterFinally
  <2> QED BY <2>2, <2>3, <2>4
<1>9. CASE CleanedUp(g)
  BY <1>9 DEF CleanedUp
<1>10. CASE Timeout(g)
  BY <1>10 DEF Timeout
<1> QED
  BY <1>1, <1>2, <1>3, <1>4, <1>5, <1>6, <1>7, <1>8, <1>9, <1>10 DEF GuardStep

(* The inductive invariant is one: it holds initially and every step of    *)
(* the pool keeps it.                                                      *)
LEMMA NextIInv == IInv /\ [Next]_vars => IInv'
<1> SUFFICES ASSUME IInv, [Next]_vars PROVE IInv'
  OBVIOUS
<1>1. CASE \E g \in Guard : Exit(g) \/ SendExitCode(g) \/ Start(g) \/ GuardStep(g)
  BY <1>1, GuardIInv
<1>2. CASE Close
  BY <1>2 DEF Close, IInv, TypeOK, GuardInv, JoinInv
<1>3. CASE Join
  BY <1>3 DEF Join, IInv, TypeOK, GuardInv, JoinInv
<1>4. CASE UNCHANGED vars
  BY <1>4 DEF vars, IInv, TypeOK, GuardInv, JoinInv
<1> QED
  BY <1>1, <1>2, <1>3, <1>4 DEF Next

(* The pool always satisfies the inductive invariant.                      *)
THEOREM PoolInvariant == Spec => []IInv
BY InitIInv, NextIInv, PTL DEF Spec

(* Type correctness of the pool's state.                                   *)
THEOREM PoolTypeOK == Spec => []TypeOK
<1>1. IInv => TypeOK
  BY DEF IInv
<1> QED BY <1>1, PoolInvariant, PTL

(* No process outlives its guard.                                          *)
THEOREM PoolNoOrphan == Spec => []NoOrphan
<1>1. IInv => NoOrphan
  BY DEF IInv, TypeOK, GuardInv, NoOrphan
<1> QED BY <1>1, PoolInvariant, PTL

(* None is left when stopRunner() gets past the join of close().           *)
THEOREM PoolJoinedMeansGone == Spec => []JoinedMeansGone
<1>1. IInv => JoinedMeansGone
  BY DEF IInv, TypeOK, GuardInv, JoinInv, JoinedMeansGone
<1> QED BY <1>1, PoolInvariant, PTL

(* An exit code on its way is that of the current process, which is dead.  *)
THEOREM PoolExitCodeIsCurrent == Spec => []ExitCodeIsCurrent
<1>1. IInv => ExitCodeIsCurrent
  BY DEF IInv, TypeOK, GuardInv, ExitCodeIsCurrent
<1> QED BY <1>1, PoolInvariant, PTL

(* A guard gives up silently only when the pool was closed.                *)
THEOREM PoolGivesUpLoudly == Spec => []GivesUpLoudly
<1>1. IInv => GivesUpLoudly
  BY DEF IInv, TypeOK, GuardInv, GivesUpLoudly
<1> QED BY <1>1, PoolInvariant, PTL

(* Once the pool is closed, no step of any guard starts a process.         *)
THEOREM PoolNoStartAfterClose == Spec => NoStartAfterClose
<1>1. TypeOK /\ [Next]_vars =>
        [cancelled => \A g \in Guard : process'[g] = "alive" => process[g] = "alive"]_vars
  <2> SUFFICES ASSUME TypeOK, Next, cancelled, NEW g \in Guard, process'[g] = "alive"
               PROVE  process[g] = "alive"
    OBVIOUS
  <2>1. CASE Close \/ Join
    BY <2>1 DEF Close, Join
  <2>2. ASSUME NEW h \in Guard, Exit(h) \/ SendExitCode(h) \/ Start(h) \/ GuardStep(h)
        PROVE  process[g] = "alive"
    BY <2>2, PoolAssumption
       DEF TypeOK, Exit, SendExitCode, Start, GuardStep, Restart, FailStopped, StartAgain, CallbackReturns,
           CallbackStops, CallbackFails, Cancelled, CleanedUp, Timeout, EnterFinally
  <2> QED BY <2>1, <2>2 DEF Next
<1> QED BY <1>1, PoolTypeOK, PTL DEF Spec, NoStartAfterClose
=============================================================================
