----------------------------- MODULE MCSockets -----------------------------
(* The ends of the sockets that a connection of an application passes      *)
(* besides redsocks: the listener in the service, which protects sockets   *)
(* and answers queries, tun2socks, and the plugin obfs-local.  They are in *)
(* different processes and share no state (ss-local is between them): a    *)
(* behaviour is one of one of them.                                        *)
EXTENDS LocalSocketListener, Tun2socksClient, ObfsLocal

CONSTANTS c1, c2, c3

VARIABLE program

socketVars == <<program, vars, tunVars, obfsVars>>

MCConn == {c1, c2, c3}
MCUpload == <<"u1", "u2", "u3">>
MCDownload == <<"d1", "d2", "d3">>

SocketsInit ==
  /\ program \in {"listener", "tun2socks", "obfs-local"}
  /\ Init /\ TunInit /\ ObfsInit
  /\ program # "listener" => ~concurrent
  /\ program # "obfs-local" => o = NoConnection("tls", FALSE)

SocketsNext ==
  /\ UNCHANGED program
  /\ \/ program = "listener" /\ Next /\ UNCHANGED <<tunVars, obfsVars>>
     \/ program = "tun2socks" /\ TunNext /\ UNCHANGED <<vars, obfsVars>>
     \/ program = "obfs-local" /\ ObfsNext /\ UNCHANGED <<vars, tunVars>>

(* The fairness of the program that runs.  The others' initial states have *)
(* no fair step, but for that of the listener.                             *)
SocketsFairSpec ==
  /\ SocketsInit /\ [][SocketsNext]_socketVars
  /\ (program = "listener" => Fairness) /\ TunFair /\ ObfsFair

=============================================================================
