------------------------------ MODULE MCBinder ------------------------------
(* The connection of the two processes while both live, and when that of   *)
(* the service dies.  A behaviour is one of the one or of the other.       *)
EXTENDS Binder, ServiceConnection

VARIABLE part

binderVars == <<part, vars, connVars>>

BinderInit == part \in {"binder", "connection"} /\ Init /\ ConnInit

BinderNext ==
  /\ UNCHANGED part
  /\ \/ part = "binder" /\ Next /\ UNCHANGED connVars
     \/ part = "connection" /\ ConnNext /\ UNCHANGED vars

BinderSpec == BinderInit /\ [][BinderNext]_binderVars /\ Fairness /\ ConnFair

=============================================================================
