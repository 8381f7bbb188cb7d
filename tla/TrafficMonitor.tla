--------------------------- MODULE TrafficMonitor ---------------------------
(***************************************************************************)
(* TrafficMonitor.kt: from the counters of ss-local to what is shown and   *)
(* to what is added to the profile, over several sessions with one         *)
(* profile.                                                                *)
(*                                                                         *)
(* The monitor's thread and the main thread share current and dirty, which *)
(* are neither volatile nor locked; their reads and writes are actions of  *)
(* their own here.  tx and rx are treated alike, so there is one number.   *)
(* The numbers are small, and a rate is a difference of totals.            *)
(***************************************************************************)
EXTENDS Integers, Sequences

CONSTANTS MaxTraffic,   \* bound on the traffic of all sessions
          MaxReports,   \* bound on the reports that wait to be accepted
          MaxRestarts   \* bound on the restarts of ss-local

ASSUME TrafficAssumption == MaxTraffic \in Nat /\ MaxRestarts \in Nat

VARIABLES
  \* of ss-local
  flow,       \* its FlowStat
  sent,       \* what it and its predecessors relayed, in all sessions
  restarts,
  reports,    \* the reports that wait to be accepted
  \* of TrafficMonitor
  thread,     \* where its thread is
  tx,         \* what that has read
  current, dirty, out, rate,
  persisted,  \* the field is not null
  persistedAs,\* and current was this then
  \* of the main thread and the database
  main,       \* where the main thread is
  running,    \* the session has a TrafficMonitor
  fetched,    \* the profile's traffic as persistStats() has it
  profile,    \* and as the database has it
  announced   \* ACTION_SHUTDOWN was sent

flowVars    == <<flow, sent, restarts>>
threadVars  == <<thread, tx>>
persistVars == <<persisted, persistedAs, running, fetched, profile, announced>>
vars == <<flowVars, reports, threadVars, current, dirty, out, rate, main, persistVars>>

Init ==
  /\ flow = 0 /\ sent = 0 /\ restarts = 0 /\ reports = <<>>
  /\ thread = "accept" /\ tx = 0
  /\ current = 0 /\ dirty = FALSE /\ out = 0 /\ rate = 0
  /\ persisted = FALSE /\ persistedAs = 0
  /\ main = "idle" /\ running = FALSE /\ fetched = 0 /\ profile = 0
  /\ announced = FALSE

-----------------------------------------------------------------------------
(* ss-local.                                                               *)

Relay ==
  /\ running /\ sent < MaxTraffic
  /\ flow' = flow + 1 /\ sent' = sent + 1
  /\ UNCHANGED <<restarts, reports, threadVars, current, dirty, out, rate, main, persistVars>>

\* flow_report_task() connects and writes the counters.
Report ==
  /\ running /\ Len(reports) < MaxReports
  /\ reports' = Append(reports, flow)
  /\ UNCHANGED <<flowVars, threadVars, current, dirty, out, rate, main, persistVars>>

\* ss-local exits and its guard starts another, whose counters are zero.
Restart ==
  /\ running /\ restarts < MaxRestarts
  /\ flow' = 0 /\ restarts' = restarts + 1
  /\ UNCHANGED <<sent, reports, threadVars, current, dirty, out, rate, main, persistVars>>

-----------------------------------------------------------------------------
(* acceptInternal(), on the monitor's thread.                              *)

\* A report is read, or not to the end.
Read ==
  /\ thread = "accept" /\ reports # <<>>
  /\ reports' = Tail(reports)
  /\ \/ thread' = "compare" /\ tx' = Head(reports)
     \/ UNCHANGED threadVars
  /\ UNCHANGED <<flowVars, current, dirty, out, rate, main, persistVars>>

Compare ==
  /\ thread = "compare"
  /\ IF current # tx THEN current' = tx /\ thread' = "mark"
                     ELSE thread' = "accept" /\ UNCHANGED current
  /\ UNCHANGED <<flowVars, reports, tx, dirty, out, rate, main, persistVars>>

Mark ==
  /\ thread = "mark"
  /\ dirty' = TRUE
  /\ thread' = "accept"
  /\ UNCHANGED <<flowVars, reports, tx, current, out, rate, main, persistVars>>

-----------------------------------------------------------------------------
(* requestUpdate(), on the main thread.                                    *)

\* Mutant: the rate of an idle connection is left as it was.
requestUpdateOnly ==
  /\ running /\ main = "idle"
  /\ IF dirty THEN main' = "copy" ELSE UNCHANGED main
  /\ UNCHANGED <<flowVars, reports, threadVars, current, dirty, out, rate, persistVars>>

requestUpdate ==
  /\ running /\ main = "idle"
  /\ IF dirty THEN main' = "copy" /\ UNCHANGED rate
              ELSE rate' = 0 /\ UNCHANGED main
  /\ UNCHANGED <<flowVars, reports, threadVars, current, dirty, out, persistVars>>

Copy ==
  /\ main = "copy"
  /\ out' = current /\ rate' = current - out
  /\ main' = "clear"
  /\ UNCHANGED <<flowVars, reports, threadVars, current, dirty, persistVars>>

Clear ==
  /\ main = "clear"
  /\ dirty' = FALSE
  /\ main' = "idle"
  /\ UNCHANGED <<flowVars, reports, threadVars, current, out, rate, persistVars>>

-----------------------------------------------------------------------------
(* persistStats(), on the main thread: when the device shuts down, and     *)
(* when the session ends.  The check compares current, which is one object *)
(* for the life of the monitor, with itself, and so does not stop it.      *)

persistStats(next) ==
  /\ running /\ main = "idle"
  /\ persisted' = TRUE /\ persistedAs' = current
  /\ fetched' = profile
  /\ main' = next
  /\ UNCHANGED <<flowVars, reports, threadVars, current, dirty, out, rate, running, profile>>

\* closeReceiver gets ACTION_SHUTDOWN, which is sent once.
onShutdown == ~announced /\ announced' = TRUE /\ persistStats("shutdown")

\* ProxyInstance.shutdown().
shutdown == persistStats("stop") /\ UNCHANGED announced

\* Mutant: the monitor is still there after shutdown().
updateProfileOnly ==
  /\ main \in {"shutdown", "stop"}
  /\ profile' = fetched + current
  /\ main' = "idle"
  /\ UNCHANGED <<flowVars, reports, threadVars, current, dirty, out, rate,
                 persisted, persistedAs, running, fetched, announced>>

\* The profile is updated, if it was there to be fetched, and at the end of a session the
\* monitor is dropped.  If it has been deleted since, the check of updateProfile() fails,
\* which nobody catches: the process dies, and the session with it.
updateProfile ==
  /\ main \in {"shutdown", "stop"}
  /\ main' = "idle"
  /\ \/ profile' = fetched + current /\ running' = (main # "stop")
     \/ UNCHANGED profile /\ running' \in {main # "stop", FALSE}
  /\ UNCHANGED <<flowVars, reports, threadVars, current, dirty, out, rate,
                 persisted, persistedAs, fetched, announced>>

\* ProxyInstance.start(): another ss-local and another TrafficMonitor, with a new socket.
start ==
  /\ ~running /\ main = "idle"
  /\ running' = TRUE
  /\ flow' = 0 /\ reports' = <<>> /\ thread' = "accept" /\ tx' = 0
  /\ current' = 0 /\ dirty' = FALSE /\ out' = 0 /\ rate' = 0
  /\ persisted' = FALSE /\ persistedAs' = 0
  /\ UNCHANGED <<sent, restarts, main, fetched, profile, announced>>

\* ProfileSyncService, in the app's process, writes the profile as it is in the list of
\* servers, where it has no traffic.
syncProfiles ==
  /\ profile' = 0
  /\ UNCHANGED <<flowVars, reports, threadVars, current, dirty, out, rate, main,
                 persisted, persistedAs, running, fetched, announced>>

-----------------------------------------------------------------------------
FlowStep   == Relay \/ Report \/ Restart
ThreadStep == Read \/ Compare \/ Mark
MainStep   == Copy \/ Clear \/ updateProfile

Next ==
  FlowStep \/ ThreadStep \/ MainStep \/ requestUpdate \/ onShutdown \/ shutdown \/ start \/ syncProfiles

Spec == Init /\ [][Next]_vars

(* Both threads run, and the looper of Binder asks again and again.        *)
Fairness == WF_vars(ThreadStep) /\ WF_vars(MainStep) /\ WF_vars(requestUpdate)

-----------------------------------------------------------------------------
(* Properties.                                                             *)

(* A profile is never charged with more than was relayed for it: while the *)
(* device does not announce a shutdown a session is added once, whatever   *)
(* the monitor's thread and the synchronisation of profiles do meanwhile   *)
(* (lines 137-142 of ProxyInstance.kt).                                    *)
NeverOvercharged == ~announced => profile <= sent

(* When the traffic of a session has ceased, a rate of zero is shown in    *)
(* the end (lines 78-85).                                                  *)
RateSettles ==
  <>[](running /\ flow = current) => <>[](rate = 0)

(* What was persisted is what there was to persist: when persistStats()    *)
(* runs again, current is what it was.  That is what line 93 checks, with  *)
(* the words "Data loss occurred".                                         *)
PersistedIsCurrent ==
  [][main = "idle" /\ main' \in {"shutdown", "stop"} /\ persisted => current = persistedAs]_vars

(* txTotal is what TrafficStats.kt:32 says it is, "Bytes for the current   *)
(* session", and so does not fall while a session goes on.                 *)
TotalIsOfSession == [][running /\ running' => current' >= current]_vars
=============================================================================
