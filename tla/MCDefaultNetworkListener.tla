---------------------- MODULE MCDefaultNetworkListener ----------------------
(* Two networks, say Wi-Fi and cellular.                                   *)
EXTENDS DefaultNetworkListener

CONSTANTS wifi, cellular

MCNet == {wifi, cellular}
=============================================================================
