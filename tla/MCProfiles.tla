----------------------------- MODULE MCProfiles -----------------------------
(* What is done with profiles, in three models that share no variable: the *)
(* traffic that is added to one, the table and its synchronisation, and    *)
(* the one the service runs with.  A behaviour is one of one of them.      *)
EXTENDS TrafficMonitor, ProfileStore, ProfileSwitch

VARIABLE model

profilesVars == <<model, vars, storeVars, switchVars>>

ProfilesInit ==
  /\ model \in {"traffic", "store", "switch"}
  /\ Init /\ StoreInit /\ SwitchInit
  /\ model # "switch" => rows = {}

ProfilesNext ==
  /\ UNCHANGED model
  /\ \/ model = "traffic" /\ Next /\ UNCHANGED <<storeVars, switchVars>>
     \/ model = "store" /\ StoreNext /\ UNCHANGED <<vars, switchVars>>
     \/ model = "switch" /\ SwitchNext /\ UNCHANGED <<vars, storeVars>>

ProfilesSpec == ProfilesInit /\ [][ProfilesNext]_profilesVars /\ Fairness

=============================================================================
