------------------------------ MODULE Redsocks ------------------------------
(***************************************************************************)
(* redsocks with one of its connections, Traced, in full: RedsocksAccept   *)
(* accepts and counts connections and drops idle ones, RedsocksPump is     *)
(* what the traced one does.  They meet in the list of clients: accepting  *)
(* starts a pump, a pump that ends takes its client off the list, which    *)
(* may end the backing off, and an idle client is dropped under its pump.  *)
(***************************************************************************)
EXTENDS RedsocksAccept, RedsocksPump

CONSTANT Traced

ASSUME TracedAssumption == Traced \in Client

redsocksVars == <<acceptVars, pumpVars>>

RedsocksInit ==
  /\ AcceptInit
  /\ con = Dropped(NewConnection) /\ net = NewSockets
  /\ use_splice \in BOOLEAN
  /\ pumped = FALSE /\ early = FALSE

\* A callback of the listener, of the timer or of another client.
AcceptSide ==
  /\ \/ Restart
     \/ /\ ~dangling
        /\ \/ AcceptFails \/ AcceptBackoff
           \/ \E c \in Client : Accept(c) \/ AcceptThenFail(c) \/ Elapse(c)
           \/ \E c \in Client \ {Traced} : \/ DropClient(c)
                                         \/ \E pipeClosed \in BOOLEAN : Touch(c, pipeClosed)
  /\ IF Traced \in acc'.clients \ acc.clients
     THEN con' = NewConnection /\ net' = NewSockets /\ pumped' = FALSE /\ early' = FALSE
     ELSE /\ con' = IF Traced \in acc'.clients THEN con ELSE Dropped(con)
          /\ UNCHANGED <<net, pumped, early>>
  /\ UNCHANGED use_splice

\* redsplice_write_cb() closed the pipe whose end it passed on.
PipeClosed == \E s \in Side : con.open[s] /\ ~con'.open[s]

\* A callback of the traced client: it is touched and, in the end, dropped.
PumpSide(A) ==
  /\ ~dangling /\ A
  /\ IF con'.alive THEN Touch(Traced, PipeClosed) ELSE DropClient(Traced)

\* The peers of the traced client.
PeerSide == ~dangling /\ Peer /\ UNCHANGED acceptVars

RedsocksNext == AcceptSide \/ PumpSide(Callback) \/ PumpSide(Fail) \/ PeerSide

RedsocksSpec == RedsocksInit /\ [][RedsocksNext]_redsocksVars

(* The loop serves every event that stays pending, and the peers read what *)
(* is sent to them.                                                        *)
RedsocksFairSpec ==
  /\ RedsocksSpec
  /\ \A s \in Side : /\ WF_redsocksVars(PumpSide(Readable(s)))
                     /\ WF_redsocksVars(PumpSide(Writable(s)))

-----------------------------------------------------------------------------
(* Properties.                                                             *)

\* No direction is forgotten: once the pump is active and both peers have sent their
\* end, the connection is closed and its client is freed.
PumpEnds ==
  con.alive /\ con.state = "pump_active" /\ (\A s \in Side : net.fin[s]) ~> ~con.alive \/ dangling

=============================================================================
