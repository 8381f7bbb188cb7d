-------------------------- MODULE ServiceLifecycle --------------------------
(***************************************************************************)
(* What the proxy service promises to its clients and to the system, apart *)
(* from how it gets there: the four states of BaseService.State it goes    *)
(* through, and that processes and threads run for one session at a time,  *)
(* only between the start and the end of that session.  What runs may get  *)
(* stuck, and then it is not promised that a stop ends; and the process of *)
(* the service may die while something runs.                               *)
(***************************************************************************)
CONSTANT Session

VARIABLES state,    \* what getState() reports
          running,  \* the sessions for which anything is running
          stuck     \* some of it does not end when told to

lifecycleVars == <<state, running, stuck>>

LifecycleInit == state = "Stopped" /\ running = {} /\ ~stuck

Start ==
  /\ state = "Stopped" /\ running = {}
  /\ state' = "Connecting"
  /\ UNCHANGED <<running, stuck>>

\* A session gets its processes, which may connect it or fail it at once.
Acquire(s) ==
  /\ state = "Connecting" /\ running = {}
  /\ running' = {s}
  /\ state' \in {"Connecting", "Connected", "Stopping"}
  /\ UNCHANGED stuck

Connect ==
  /\ state = "Connecting" /\ running # {}
  /\ state' = "Connected"
  /\ UNCHANGED <<running, stuck>>

Stop ==
  /\ state \in {"Stopped", "Connecting", "Connected"}
  /\ state' = "Stopping"
  /\ UNCHANGED <<running, stuck>>

Hang ==
  /\ running # {} /\ ~stuck
  /\ stuck' = TRUE
  /\ UNCHANGED <<state, running>>

Release ==
  /\ state = "Stopping" /\ running # {} /\ ~stuck
  /\ running' = {}
  /\ UNCHANGED <<state, stuck>>

Finish ==
  /\ state = "Stopping" /\ running = {}
  /\ state' = "Stopped"
  /\ UNCHANGED <<running, stuck>>

Die ==
  /\ running # {}
  /\ state' = "Stopped" /\ running' = {} /\ ~stuck'

LifecycleNext ==
  \/ Start \/ Connect \/ Stop \/ Hang \/ Release \/ Finish \/ Die
  \/ \E s \in Session : Acquire(s)

LifecycleSpec == LifecycleInit /\ [][LifecycleNext]_lifecycleVars

\* A stop is brought to its end unless stuck; connecting may take as long as it likes.
LifecycleFairSpec ==
  /\ LifecycleSpec
  /\ WF_lifecycleVars(Release)
  /\ WF_lifecycleVars(Finish)
=============================================================================
