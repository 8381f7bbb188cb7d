--------------------------- MODULE RedsocksAccept ---------------------------
(***************************************************************************)
(* redsocks.c: how redsocks accepts connections, up to redsocks_conn_max,  *)
(* and what it does when it has that many or runs out of file descriptors: *)
(* it drops the connections that are idle or, when there are none, stops   *)
(* listening until a timer, accept_backoff_ev, fires or a connection       *)
(* closes.                                                                 *)
(*                                                                         *)
(* redsocks has one thread, so an action is one callback of libevent.  Its *)
(* effect on the accepting side is a function of the record acc, because   *)
(* the callbacks nest: dropping a client closes sockets, and every close   *)
(* may end the backing off.  What a connection does is in RedsocksPump;    *)
(* here it is accepted, touched, and dropped.                              *)
(***************************************************************************)
EXTENDS Naturals, FiniteSets

CONSTANTS Client,       \* the connections that may be open at one time
          ConnMax,      \* redsocks_conn_max()
          MaxBackoff    \* max_accept_backoff_ms()

ASSUME AcceptAssumption ==
  /\ IsFiniteSet(Client)
  /\ ConnMax \in Nat \ {0}
  /\ MaxBackoff \in Nat \ {0}

VARIABLES
  acc,     \* clients (the list), conn (redsocks_conn), listening (the listener is added),
           \* backoff (accept_backoff_ev is pending), ms (accept_backoff_ms)
  idle,    \* now - last_event of a client: at most zero, less than the timeout, or more
  dangling \* redsocks_accept_client() went on with a client that was freed

acceptVars == <<acc, idle, dangling>>

IdleClass == {"none", "some", "long"}

AcceptInit ==
  /\ acc = [clients |-> {}, conn |-> 0, listening |-> TRUE, backoff |-> FALSE, ms |-> 0]
  /\ idle = [c \in Client |-> "some"]
  /\ dangling = FALSE

-----------------------------------------------------------------------------
(* The functions the callbacks call.                                       *)

\* conn_pressure_lowered()
Lowered(a) ==
  IF a.conn < ConnMax /\ a.backoff
  THEN [a EXCEPT !.backoff = FALSE, !.listening = TRUE]
  ELSE a

\* redsocks_drop_client() of the clients D: every close, and then the removal
\* from the list, may find that the pressure is lowered.
Drop(a, D) ==
  Lowered([Lowered(a) EXCEPT !.clients = @ \ D, !.conn = @ - Cardinality(a.clients \cap D)])

\* drop_idle_connections(): the ones without an event for the timeout, and the
\* ones whose last event is not in the past.
Idle(C, i) == {c \in C : i[c] \in {"none", "long"}}

\* The times of the clients that are not freed.
Kept(i, C) == [c \in Client |-> IF c \in C THEN i[c] ELSE "some"]

Clamp(n) == IF n > MaxBackoff THEN MaxBackoff ELSE n

\* conn_pressure()
Pressure(a, i) ==
  IF Idle(a.clients, i) # {}
  THEN Drop(a, Idle(a.clients, i))
  ELSE [a EXCEPT !.ms = Clamp(2 * @ + 1), !.backoff = TRUE, !.listening = FALSE]

\* Mutant: the limit is noticed one connection late.
ListAddLate(a, c, i) ==
  LET b == [a EXCEPT !.clients = @ \cup {c}, !.conn = @ + 1]
  IN  IF b.conn > ConnMax THEN Pressure(b, i) ELSE b

\* redsocks_conn_list_add()
ListAdd(a, c, i) ==
  LET b == [a EXCEPT !.clients = @ \cup {c}, !.conn = @ + 1]
  IN  IF b.conn >= ConnMax THEN Pressure(b, i) ELSE b

-----------------------------------------------------------------------------
(* redsocks_accept_client(), which runs when the listener is added.        *)

\* accept() has no file descriptor to give.
AcceptFails ==
  /\ acc.listening
  /\ acc' = Pressure(acc, idle)
  /\ idle' = Kept(idle, acc'.clients)
  /\ UNCHANGED dangling

\* A connection is accepted.  Between its first event and drop_idle_connections()
\* the clock may not have moved, or may have been set back.
Accept(c) ==
  /\ acc.listening /\ c \notin acc.clients
  /\ \E i \in {"none", "some"} :
       LET now == [idle EXCEPT ![c] = i]
       IN  /\ acc' = ListAdd([acc EXCEPT !.ms = 0], c, now)
           /\ idle' = Kept(now, acc'.clients)
  /\ dangling' = (c \notin acc'.clients)

\* It is accepted, but something fails before it is on the list or when the
\* relay is to be connected, and it is dropped at once.
AcceptThenFail(c) ==
  /\ acc.listening /\ c \notin acc.clients
  /\ \/ acc' = Lowered([acc EXCEPT !.ms = 0])
     \/ LET a == ListAdd([acc EXCEPT !.ms = 0], c, [idle EXCEPT ![c] = "some"])
        IN  acc' = Drop(a, {c})
  /\ idle' = Kept(idle, acc'.clients)
  /\ UNCHANGED dangling

-----------------------------------------------------------------------------
(* The other callbacks, and the clock.                                     *)

\* An event of a client: redsocks_touch_client().  In the splice pump it may close a pipe,
\* which gives two file descriptors back.
Touch(c, pipeClosed) ==
  /\ c \in acc.clients
  /\ acc' = IF pipeClosed THEN Lowered(acc) ELSE acc
  /\ idle' = [idle EXCEPT ![c] = "some"]
  /\ UNCHANGED dangling

DropClient(c) ==
  /\ c \in acc.clients
  /\ acc' = Drop(acc, {c})
  /\ idle' = Kept(idle, acc'.clients)
  /\ UNCHANGED dangling

\* redsocks_accept_backoff(): the timer fired and is not pending any more.
AcceptBackoff ==
  /\ acc.backoff
  /\ LET a == [acc EXCEPT !.backoff = FALSE]
     IN  \/ acc' = Pressure(a, idle)   \* conn_pressure_ongoing(), or socket() failed
         \/ a.conn < ConnMax /\ acc' = [a EXCEPT !.listening = TRUE]
  /\ idle' = Kept(idle, acc'.clients)
  /\ UNCHANGED dangling

\* Time passes for a client, or the wall clock is set back.
Elapse(c) ==
  /\ c \in acc.clients
  /\ \/ idle[c] = "none" /\ idle' = [idle EXCEPT ![c] = "some"]
     \/ idle[c] = "some" /\ idle' = [idle EXCEPT ![c] = "long"]
     \/ idle' = Kept([d \in Client |-> "none"], acc.clients)
  /\ UNCHANGED <<acc, dangling>>

\* A process that used freed memory exits some time, and its guard starts another.
Restart ==
  /\ dangling
  /\ acc' = [clients |-> {}, conn |-> 0, listening |-> TRUE, backoff |-> FALSE, ms |-> 0]
  /\ idle' = Kept(idle, {})
  /\ dangling' = FALSE

AcceptNext ==
  \/ Restart
  \/ /\ ~dangling
     /\ \/ AcceptFails \/ AcceptBackoff
        \/ \E c \in Client : \/ Accept(c) \/ AcceptThenFail(c) \/ DropClient(c) \/ Elapse(c)
                            \/ \E pipeClosed \in BOOLEAN : Touch(c, pipeClosed)

AcceptSpec == AcceptInit /\ [][AcceptNext]_acceptVars

-----------------------------------------------------------------------------
(* Properties.                                                             *)

\* redsocks_conn counts the list, as redsocks_debug_dump() asserts, and never
\* exceeds the limit.
AcceptTypeOK ==
  /\ acc \in [clients : SUBSET Client, conn : 0 .. ConnMax, listening : BOOLEAN,
              backoff : BOOLEAN, ms : 0 .. MaxBackoff]
  /\ acc.conn = Cardinality(acc.clients)
  /\ idle \in [Client -> IdleClass]
  /\ dangling \in BOOLEAN

\* The assertion at the top of redsocks_accept_client(): whenever the listener is
\* added there is room for one more connection, whichever callback added it.
ListeningHasRoom == acc.listening => acc.conn < ConnMax

\* The timer is never pending while redsocks listens, which accept_enable() in
\* redsocks_accept_backoff() and conn_pressure() rely on.
NotBoth == ~(acc.listening /\ acc.backoff)

\* Neither the listener nor the timer is left: nothing will ever add one again.
Lost == ~acc.listening /\ ~acc.backoff

\* redsocks that backs off retries: as long as the listener is not added, the timer is
\* pending.  redsocks_accept_backoff() says of conn_pressure() that it is to
\* "rearm timeout", and redsocks.conf.example calls max_accept_backoff "a delay in
\* milliseconds to retry `accept()`".
BackoffEnds == ~Lost

\* The listener is lost in one way only: the timer fires, and conn_pressure() drops
\* idle connections instead of arming the timer again.
LostByTimerOnly ==
  [][~Lost /\ Lost' => acc.backoff /\ Idle(acc.clients, idle) # {}]_acceptVars

=============================================================================
