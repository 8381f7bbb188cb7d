----------------------- MODULE MCLocalSocketListener -----------------------
(* Three connections of the native processes.                              *)
EXTENDS LocalSocketListener

CONSTANTS c1, c2, c3

MCConn == {c1, c2, c3}
=============================================================================
