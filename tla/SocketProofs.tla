---------------------------- MODULE SocketProofs ----------------------------
(***************************************************************************)
(* The two ends of the sockets between the service and the native          *)
(* processes: the listener in the service, and the client of tun2socks.    *)
(*                                                                         *)
(* LocalSocketListener: what is left of a listener when its shutdown() is  *)
(* over, for any set of connections and both kinds of listener.            *)
(*                                                                         *)
(* Tun2socksClient, for buffers and data of any size: what a callback of   *)
(* lwIP returns tells it right whether tcp_abort() was called, no DEAD     *)
(* variable is written that is not there any more, nor a client that was   *)
(* freed, and neither side loses, repeats or reorders the other's data.    *)
(*                                                                         *)
(* The first argument needs seven of a client's fields.  Sound relates     *)
(* them: a pcb is open as long as its client is there and not closed, it   *)
(* is aborted at most once and only when the client becomes closed, a      *)
(* pointer to a variable of a callback that has returned is left only in a *)
(* client that is aborted or freed, and inside a callback the variable     *)
(* tells which.  Every function keeps Sound, and every action is made of   *)
(* them.                                                                   *)
(*                                                                         *)
(* The second one follows the data.  While a side is open its stream is    *)
(* what was delivered, what is in flight, what is buffered and what is     *)
(* still to come (Open).  After an orderly end of a side the rest of its   *)
(* stream is on its way to the other one, and nothing of it is left when   *)
(* the client is freed (AppEnded, ServerEnded).  Typed keeps a transfer    *)
(* within the buffer it is taken from.                                     *)
(***************************************************************************)
EXTENDS LocalSocketListener, Tun2socksClient, SequenceTheorems, TLAPS

-----------------------------------------------------------------------------
(* LocalSocketListener.                                                    *)

(* The thread itself has k in hand.                                        *)
OnThread(k) == handler[k] = "accepted" \/ (~concurrent /\ handler[k] = "serving")

(* Who serves a connection: the thread, or a coroutine it has launched.    *)
ThreadInv ==
  /\ thread = "exited" => socket = "closed"
  /\ thread = "launch" => concurrent
  /\ \A k \in Conn : handler[k] = "accepted" => thread = "launch"
  /\ ~concurrent => \A k \in Conn : /\ handler[k] # "launched"
                                    /\ handler[k] = "serving" => thread = "serve"
  /\ \A k, d \in Conn : OnThread(k) /\ OnThread(d) => k = d

(* The join can only return in a cancelled scope, where nothing starts.    *)
ShutdownInv ==
  /\ concurrent /\ shutdown \in {"socket", "wait"} => cancelled
  /\ received => thread = "exited"
  /\ joined => /\ concurrent /\ shutdown = "wait"
               /\ \A k \in Conn : handler[k] \notin {"launched", "serving"}

IInv == TypeOK /\ ThreadInv /\ ShutdownInv
-----------------------------------------------------------------------------
(* Each step of the thread or of a coroutine preserves the invariant.      *)
LEMMA ServingIInv ==
  ASSUME IInv, NEW k \in Conn, Accept(k) \/ Launch(k) \/ Serve(k) \/ Begin(k) \/ End(k)
  PROVE  IInv'
<1> USE DEF IInv, TypeOK, threadVars, connVars, shutdownVars
<1>1. CASE Accept(k)
  BY <1>1 DEF Accept, ThreadInv, OnThread, ShutdownInv
<1>2. CASE Launch(k)
  <2>1. TypeOK'
    BY <1>2 DEF Launch
  <2>2. concurrent
    BY <1>2 DEF Launch, ThreadInv, OnThread
  <2>3. ThreadInv'
    BY <1>2, <2>2 DEF Launch, ThreadInv, OnThread
  <2>4. ShutdownInv'
    BY <1>2, <2>2 DEF Launch, ShutdownInv
  <2> QED BY <2>1, <2>3, <2>4
<1>3. CASE Serve(k)
  BY <1>3 DEF Serve, ThreadInv, OnThread, ShutdownInv
<1>4. CASE Begin(k)
  <2>1. TypeOK'
    BY <1>4 DEF Begin
  <2>2. concurrent /\ ~joined
    BY <1>4 DEF Begin, ThreadInv, OnThread, ShutdownInv
  <2> QED BY <1>4, <2>1, <2>2 DEF Begin, ThreadInv, OnThread, ShutdownInv
<1>5. CASE End(k)
  BY <1>5 DEF End, ThreadInv, OnThread, ShutdownInv
<1> QED BY <1>1, <1>2, <1>3, <1>4, <1>5

(* The invariant is inductive.                                             *)
LEMMA NextIInv == IInv /\ [Next]_vars => IInv'
<1> SUFFICES ASSUME IInv, [Next]_vars PROVE IInv'
  OBVIOUS
<1> USE DEF IInv, TypeOK, threadVars, connVars, shutdownVars
<1>1. CASE TestRunning \/ AcceptFails \/ AcceptError
  BY <1>1 DEF TestRunning, AcceptFails, AcceptError, ThreadInv, OnThread, ShutdownInv
<1>2. CASE ClearRunning
  BY <1>2 DEF ClearRunning, ThreadInv, OnThread, ShutdownInv
<1>3. CASE ShutdownStep
  <2>1. CASE Cancel
    BY <2>1 DEF Cancel, ThreadInv, OnThread, ShutdownInv
  <2>2. CASE ShutSocket
    BY <2>2 DEF ShutSocket, ThreadInv, OnThread, ShutdownInv
  <2>3. CASE Receive
    BY <2>3 DEF Receive, ThreadInv, OnThread, ShutdownInv
  <2>4. CASE Join
    BY <2>4 DEF Join, ThreadInv, OnThread, ShutdownInv
  <2> QED BY <1>3, <2>1, <2>3, <2>4, <2>2 DEF ShutdownStep
<1>4. ASSUME NEW k \in Conn, Connect(k) \/ PeerDone(k) PROVE IInv'
  BY <1>4 DEF Connect, PeerDone, ThreadInv, OnThread, ShutdownInv
<1>5. ASSUME NEW k \in Conn, Accept(k) \/ Launch(k) \/ Serve(k) \/ Begin(k) \/ End(k)
      PROVE  IInv'
  BY <1>5, ServingIInv
<1>6. CASE UNCHANGED vars
  BY <1>6 DEF vars, ThreadInv, OnThread, ShutdownInv
<1> QED
  BY <1>1, <1>2, <1>3, <1>4, <1>5, <1>6 DEF Next, ThreadStep

(* A listener always satisfies the inductive invariant.                    *)
THEOREM ListenerInvariant == Spec => []IInv
<1>1. Init => IInv
  BY DEF Init, IInv, TypeOK, ThreadInv, OnThread, ShutdownInv
<1> QED BY <1>1, NextIInv, PTL DEF Spec

(* Type correctness of the listener's state.                               *)
THEOREM ListenerTypeOK == Spec => []TypeOK
<1>1. IInv => TypeOK
  BY DEF IInv
<1> QED BY <1>1, ListenerInvariant, PTL

(* When shutdown() is over the thread, the socket and the coroutines of    *)
(* the listener are gone.                                                  *)
THEOREM ListenerShutdown == Spec => []ShutdownMeansQuiet
<1>1. IInv => ShutdownMeansQuiet
  BY DEF IInv, ThreadInv, ShutdownInv, ShutdownMeansQuiet, ShutdownOver
<1> QED BY <1>1, ListenerInvariant, PTL

-----------------------------------------------------------------------------
(* Tun2socksClient.                                                        *)

Fields == {"alive", "client_closed", "socks_up", "socks_closed", "aborted", "dead", "ptr", "sync",
           "buf", "sending", "rbuf", "pending", "receiving", "cb", "pcb", "up", "sent", "fin",
           "finSeen", "wnd", "queue", "got", "touched", "end"}

IsClient(d) == d = [f \in Fields |-> d[f]]

Flags(alive, closed, aborted, ptr, dead, touched, pcb) ==
  /\ alive \in BOOLEAN /\ closed \in BOOLEAN /\ aborted \in BOOLEAN
  /\ dead \in Int /\ dead <= 1
  /\ touched = FALSE
  /\ pcb = "open" <=> alive /\ ~closed
  /\ aborted => closed
  /\ ptr = "left" => closed /\ (aborted \/ ~alive)
  /\ ptr = "entered" => /\ aborted <=> dead = 1
                        /\ dead = 0 => alive
                        /\ dead # 0 => closed /\ (aborted \/ ~alive)

\* A client with these seven values.
Is(d, alive, closed, aborted, ptr, dead, touched, pcb) ==
  /\ IsClient(d)
  /\ d.alive = alive /\ d.client_closed = closed /\ d.aborted = aborted
  /\ d.ptr = ptr /\ d.dead = dead /\ d.touched = touched /\ d.pcb = pcb

\* A client with the seven values of another one.
Like(e, d) == Is(e, d.alive, d.client_closed, d.aborted, d.ptr, d.dead, d.touched, d.pcb)

Sound(d) ==
  /\ IsClient(d)
  /\ Flags(d.alive, d.client_closed, d.aborted, d.ptr, d.dead, d.touched, d.pcb)

\* A client whose pcb is gone and that is still to be closed.
Closing(d) ==
  /\ IsClient(d)
  /\ d.pcb # "open"
  /\ Flags(d.alive, TRUE, d.aborted, d.ptr, d.dead, d.touched, d.pcb)
  /\ d.alive = TRUE

\* DEAD_KILL_WITH() writes the variable of the callback that is running, if one is.
LEMMA KillIs ==
  ASSUME NEW d, IsClient(d), NEW v, d.touched = FALSE, d.ptr # "left"
  PROVE  Is(Kill(d, v), d.alive, d.client_closed, d.aborted, d.ptr,
            IF d.ptr = "entered" THEN v ELSE d.dead, FALSE, d.pcb)
BY DEF IsClient, Fields, Is, Kill

\* client_dealloc() kills the variable of a client that was not aborted.
LEMMA DeallocSound ==
  ASSUME NEW d, Sound(d), d.alive = TRUE, d.client_closed = TRUE
  PROVE  Sound(client_dealloc(d))
<1> DEFINE e == [d EXCEPT !.alive = FALSE]
<1>1. Is(e, FALSE, d.client_closed, d.aborted, d.ptr, d.dead, d.touched, d.pcb)
  BY DEF Sound, IsClient, Fields, Is
<1>2. client_dealloc(d) = IF d.aborted THEN e ELSE Kill(e, -1)
  BY DEF client_dealloc
<1> HIDE DEF e
<1>3. CASE d.aborted = TRUE
  <2>1. client_dealloc(d) = e
    BY <1>2, <1>3
  <2>2. Flags(FALSE, d.client_closed, d.aborted, d.ptr, d.dead, d.touched, d.pcb)
    BY <1>3 DEF Sound, Flags
  <2> QED BY <1>1, <2>1, <2>2 DEF Sound, Is
<1>4. CASE d.aborted = FALSE
  <2>1. client_dealloc(d) = Kill(e, -1)
    BY <1>2, <1>4
  <2>2. d.ptr # "left" /\ d.touched = FALSE
    BY <1>4 DEF Sound, Flags
  <2>3. Is(Kill(e, -1), FALSE, d.client_closed, d.aborted, d.ptr,
           IF d.ptr = "entered" THEN -1 ELSE d.dead, FALSE, d.pcb)
    <3>1. IsClient(e) /\ e.touched = FALSE /\ e.ptr # "left"
      BY <1>1, <2>2 DEF Is
    <3>2. Is(Kill(e, -1), e.alive, e.client_closed, e.aborted, e.ptr,
             IF e.ptr = "entered" THEN -1 ELSE e.dead, FALSE, e.pcb)
      BY <3>1, KillIs
    <3> QED BY <1>1, <3>2 DEF Is
  <2>4. Flags(FALSE, d.client_closed, d.aborted, d.ptr,
              IF d.ptr = "entered" THEN -1 ELSE d.dead, FALSE, d.pcb)
    BY <1>4 DEF Sound, Flags
  <2> QED BY <2>1, <2>3, <2>4 DEF Sound, Is
<1> QED BY <1>3, <1>4 DEF Sound, Flags

\* client_abort_pcb() aborts the pcb and says so to the callback it is called from.
LEMMA AbortPcbClosing ==
  ASSUME NEW d, Sound(d), d.alive = TRUE, d.client_closed = FALSE
  PROVE  Closing(client_abort_pcb(d))
<1> DEFINE e == [d EXCEPT !.pcb = "reset", !.queue = <<>>, !.aborted = TRUE, !.end = "error"]
<1>1. Is(e, d.alive, d.client_closed, TRUE, d.ptr, d.dead, d.touched, "reset")
  BY DEF Sound, IsClient, Fields, Is
<1>2. client_abort_pcb(d) = Kill(e, 1)
  BY DEF client_abort_pcb
<1> HIDE DEF e
<1>3. d.ptr # "left" /\ d.touched = FALSE
  BY DEF Sound, Flags
<1>4. Is(Kill(e, 1), d.alive, d.client_closed, TRUE, d.ptr,
         IF d.ptr = "entered" THEN 1 ELSE d.dead, FALSE, "reset")
  <2>1. IsClient(e) /\ e.touched = FALSE /\ e.ptr # "left"
    BY <1>1, <1>3 DEF Is
  <2>2. Is(Kill(e, 1), e.alive, e.client_closed, e.aborted, e.ptr,
           IF e.ptr = "entered" THEN 1 ELSE e.dead, FALSE, e.pcb)
    BY <2>1, KillIs
  <2> QED BY <1>1, <2>2 DEF Is
<1>5. Flags(TRUE, TRUE, TRUE, d.ptr, IF d.ptr = "entered" THEN 1 ELSE d.dead, FALSE, "reset")
  BY <1>3 DEF Sound, Flags
<1> QED BY <1>2, <1>4, <1>5 DEF Closing, Is

\* client_handle_freed_client() closes a client whose pcb is gone.
LEMMA HandleFreedSound ==
  ASSUME NEW d, Closing(d)
  PROVE  Sound(client_handle_freed_client(d))
<1> DEFINE e == [d EXCEPT !.client_closed = TRUE]
           f == [d EXCEPT !.client_closed = TRUE, !.socks_closed = TRUE,
                          !.sending = 0, !.receiving = FALSE]
<1>1. Is(e, TRUE, TRUE, d.aborted, d.ptr, d.dead, d.touched, d.pcb)
  BY DEF Closing, IsClient, Fields, Is
<1>2. Is(f, TRUE, TRUE, d.aborted, d.ptr, d.dead, d.touched, d.pcb)
  BY DEF Closing, IsClient, Fields, Is
<1>3. client_handle_freed_client(d) \in {e, client_dealloc(f)}
  BY DEF client_handle_freed_client
<1> HIDE DEF e, f
<1>4. Flags(TRUE, TRUE, d.aborted, d.ptr, d.dead, d.touched, d.pcb)
  BY DEF Closing
<1>5. Sound(e) /\ Sound(f) /\ f.alive = TRUE /\ f.client_closed = TRUE
  BY <1>1, <1>2, <1>4 DEF Sound, Is
<1> QED BY <1>3, <1>5, DeallocSound

\* client_free_client() closes the pcb, or frees it when that fails.
LEMMA FreeClientSound ==
  ASSUME NEW d, Sound(d), d.alive = TRUE, d.client_closed = FALSE, NEW ok
  PROVE  Sound(client_free_client(d, ok))
<1> DEFINE e == [d EXCEPT !.cb = {}]
           r == [e EXCEPT !.pcb = "reset", !.queue = <<>>]
           s == [e EXCEPT !.pcb = "closed"]
<1>1. Like(e, d)
  BY DEF Sound, IsClient, Fields, Is, Like
<1>2. client_free_client(d, ok) \in {client_handle_freed_client(r), client_handle_freed_client(s),
                                     client_handle_freed_client(client_abort_pcb(e))}
  BY DEF client_free_client
<1> HIDE DEF e
<1>3. Is(r, d.alive, d.client_closed, d.aborted, d.ptr, d.dead, d.touched, "reset")
  BY <1>1 DEF Like, IsClient, Fields, Is
<1>4. Is(s, d.alive, d.client_closed, d.aborted, d.ptr, d.dead, d.touched, "closed")
  BY <1>1 DEF Like, IsClient, Fields, Is
<1> HIDE DEF r, s
<1>5. /\ Flags(TRUE, TRUE, d.aborted, d.ptr, d.dead, d.touched, "reset")
      /\ Flags(TRUE, TRUE, d.aborted, d.ptr, d.dead, d.touched, "closed")
  BY DEF Sound, Flags
<1>6. Closing(r) /\ Closing(s)
  BY <1>3, <1>4, <1>5 DEF Closing, Is
<1>7. Sound(e) /\ e.alive = TRUE /\ e.client_closed = FALSE
  BY <1>1 DEF Sound, Like, Is
<1>8. Closing(client_abort_pcb(e))
  BY <1>7, AbortPcbClosing
<1> QED BY <1>2, <1>6, <1>8, HandleFreedSound

\* client_abort_client() aborts the pcb and closes the client.
LEMMA AbortClientSound ==
  ASSUME NEW d, Sound(d), d.alive = TRUE, d.client_closed = FALSE
  PROVE  Sound(client_abort_client(d))
<1> DEFINE e == [d EXCEPT !.cb = {}]
<1>1. Like(e, d)
  BY DEF Sound, IsClient, Fields, Is, Like
<1>2. client_abort_client(d) = client_handle_freed_client(client_abort_pcb(e))
  BY DEF client_abort_client
<1> HIDE DEF e
<1>3. Sound(e) /\ e.alive = TRUE /\ e.client_closed = FALSE
  BY <1>1 DEF Sound, Like, Is
<1> QED BY <1>2, <1>3, AbortPcbClosing, HandleFreedSound

\* client_free_socks() ends the SOCKS side, and the client when it was closed before.
LEMMA FreeSocksSound ==
  ASSUME NEW d, Sound(d), d.alive = TRUE, NEW ok
  PROVE  Sound(client_free_socks(d, ok))
<1> DEFINE e == [d EXCEPT !.cb = IF d.socks_up THEN @ \ {"recv"} ELSE @,
                          !.socks_closed = TRUE, !.sending = 0, !.receiving = FALSE]
<1>1. Like(e, d)
  BY DEF Sound, IsClient, Fields, Is, Like
<1>2. \/ d.client_closed = TRUE /\ client_free_socks(d, ok) = client_dealloc(e)
      \/ client_free_socks(d, ok) = e
      \/ d.client_closed = FALSE /\ client_free_socks(d, ok) = client_free_client(e, ok)
  BY DEF client_free_socks, Sound, Flags
<1> HIDE DEF e
<1>3. Sound(e) /\ e.alive = d.alive /\ e.client_closed = d.client_closed
  BY <1>1 DEF Sound, Like, Is
<1> QED BY <1>2, <1>3, DeallocSound, FreeClientSound

\* client_socks_recv_send_out() hands data to lwIP, or aborts the client.
LEMMA SendOutSound ==
  ASSUME NEW d, Sound(d), d.alive = TRUE, d.client_closed = FALSE, NEW n, NEW ok
  PROVE  Sound(client_socks_recv_send_out(d, n, ok))
<1> DEFINE e == [d EXCEPT !.queue = @ \o SubSeq(d.rbuf, 1, n), !.pending = @ + n,
                          !.rbuf = SubSeq(@, n + 1, Len(@))]
<1>1. Like(e, d)
  BY DEF Sound, IsClient, Fields, Is, Like
<1>2. client_socks_recv_send_out(d, n, ok) \in {e, client_abort_client(e)}
  BY DEF client_socks_recv_send_out
<1> HIDE DEF e
<1>3. Sound(e) /\ e.alive = TRUE /\ e.client_closed = FALSE
  BY <1>1 DEF Sound, Like, Is
<1> QED BY <1>2, <1>3, AbortClientSound

\* client_socks_recv_initiate() leaves the seven fields alone.
LEMMA InitiatedSound ==
  ASSUME NEW d, Sound(d)
  PROVE  Sound(Initiated(d))
<1>1. Like(Initiated(d), d)
  BY DEF Sound, IsClient, Fields, Is, Like, Initiated
<1> QED BY <1>1 DEF Sound, Like, Is

\* A callback of lwIP finds no pointer that was left behind.
LEMMA EnterSound ==
  ASSUME NEW d, Sound(d), d.pcb = "open", NEW sync
  PROVE  /\ Sound(Enter(d, sync))
         /\ Enter(d, sync).alive = TRUE /\ Enter(d, sync).client_closed = FALSE
<1>1. d.ptr # "left" /\ d.touched = FALSE /\ d.alive = TRUE /\ d.client_closed = FALSE
  BY DEF Sound, Flags
<1>2. Is(Enter(d, sync), d.alive, d.client_closed, d.aborted, "entered", 0, FALSE, d.pcb)
  BY <1>1 DEF Sound, IsClient, Fields, Is, Enter
<1>3. Flags(d.alive, d.client_closed, d.aborted, "entered", 0, FALSE, d.pcb)
  BY <1>1 DEF Sound, Flags
<1> QED BY <1>1, <1>2, <1>3 DEF Sound, Is

-----------------------------------------------------------------------------
(* The actions.                                                            *)

TunInv == Sound(c) /\ AbrtReturned

\* Sound depends on the seven fields only.
LEMMA LikeSound ==
  ASSUME NEW d, Sound(d), NEW e, Like(e, d)
  PROVE  /\ Sound(e)
         /\ e.alive = d.alive /\ e.client_closed = d.client_closed /\ e.pcb = d.pcb
BY DEF Sound, Like, Is

\* A new client has all the fields of one.
LEMMA NewIsClient ==
  IsClient([NoClient EXCEPT !.alive = TRUE, !.cb = {"err", "recv"}, !.pcb = "open"])
<1> DEFINE d == NoClient
           e == [d EXCEPT !.alive = TRUE, !.cb = {"err", "recv"}, !.pcb = "open"]
<1>1. IsClient(d)
  BY DEF NoClient, IsClient, Fields
<1> HIDE DEF d
<1>2. IsClient(e)
  BY <1>1 DEF IsClient, Fields
<1> QED
  BY <1>2 DEF d

\* listener_accept_func() makes a client with an open pcb, inside its first callback.
LEMMA AcceptSound ==
  ASSUME listener_accept_func
  PROVE  Sound(c')
<1> DEFINE e == [NoClient EXCEPT !.alive = TRUE, !.cb = {"err", "recv"}, !.pcb = "open"]
<1>1. Is(e, TRUE, FALSE, FALSE, "null", 0, FALSE, "open")
  <2>1. /\ e.alive = TRUE /\ e.client_closed = FALSE /\ e.aborted = FALSE /\ e.ptr = "null"
        /\ e.dead = 0 /\ e.touched = FALSE /\ e.pcb = "open"
    BY DEF NoClient
  <2>2. IsClient(e)
    BY NewIsClient
  <2> HIDE DEF e
  <2> QED
    BY <2>1, <2>2 DEF Is
<1>2. c' = Enter(e, "all")
  BY DEF listener_accept_func
<1> HIDE DEF e
<1>3. Flags(TRUE, FALSE, FALSE, "null", 0, FALSE, "open")
  BY DEF Flags
<1>4. Sound(e) /\ e.pcb = "open"
  BY <1>1, <1>3 DEF Is, Sound
<1> QED BY <1>2, <1>4, EnterSound

\* client_recv_func() with data.
LEMMA RecvSound ==
  ASSUME Sound(c), NEW n, client_recv_func(n)
  PROVE  Sound(c')
<1> DEFINE rest == SubSeq(c.up, n + 1, Len(c.up))
           start == c.buf = <<>> /\ c.socks_up
           e == [c EXCEPT !.up = rest]
           f == [c EXCEPT !.up = rest, !.wnd = @ - n, !.buf = @ \o SubSeq(c.up, 1, n),
                          !.sending = IF start THEN n ELSE @]
<1>1. \/ c' = e
      \/ c' = c
      \/ c' = Enter(f, IF start THEN "send" ELSE "none")
  BY DEF client_recv_func
<1>2. c.pcb = "open"
  BY DEF client_recv_func
<1>3. Like(e, c) /\ Like(f, c)
  BY DEF Sound, IsClient, Fields, Is, Like
<1> HIDE DEF e, f
<1>4. Sound(e) /\ Sound(f) /\ f.pcb = "open"
  BY <1>2, <1>3, LikeSound
<1> QED BY <1>1, <1>4, EnterSound

\* client_recv_func() at the application's end.
LEMMA RecvEndSound ==
  ASSUME Sound(c), client_recv_func_end
  PROVE  Sound(c')
<1> DEFINE e == [c EXCEPT !.finSeen = TRUE]
           f == [e EXCEPT !.end = "app"]
<1>1. \/ c' = e
      \/ \E ok \in BOOLEAN : c' = client_free_client(Enter(f, "none"), ok)
  BY DEF client_recv_func_end
<1>2. c.pcb = "open"
  BY DEF client_recv_func_end
<1>3. Like(e, c)
  BY DEF Sound, IsClient, Fields, Is, Like
<1> HIDE DEF e
<1>4. Sound(e) /\ e.pcb = "open"
  BY <1>2, <1>3, LikeSound
<1>5. Like(f, e)
  BY <1>4 DEF Sound, IsClient, Fields, Is, Like
<1> HIDE DEF f
<1>6. Sound(f) /\ f.pcb = "open"
  BY <1>4, <1>5, LikeSound
<1> QED BY <1>1, <1>4, <1>6, EnterSound, FreeClientSound

\* client_sent_func() may hand on what waited for room.
LEMMA SentSound ==
  ASSUME Sound(c), NEW n, client_sent_func(n)
  PROVE  Sound(c')
<1> DEFINE e == [c EXCEPT !.queue = SubSeq(@, n + 1, Len(@)), !.pending = @ - n,
                          !.got = @ \o SubSeq(c.queue, 1, n)]
           d == Enter(e, "none")
           out(m, ok) == client_socks_recv_send_out(d, m, ok)
<1>1. \/ \E m \in {0, Fits(d)}, ok \in BOOLEAN :
           c' = IF out(m, ok).client_closed
                THEN out(m, ok) ELSE Initiated([out(m, ok) EXCEPT !.sync = "recv"])
      \/ \E ok \in BOOLEAN : c' = client_free_client(d, ok)
      \/ c' = d
  BY DEF client_sent_func
<1>2. c.pcb = "open"
  BY DEF client_sent_func
<1>3. Like(e, c)
  BY DEF Sound, IsClient, Fields, Is, Like
<1> HIDE DEF e
<1>4. Sound(d) /\ d.alive = TRUE /\ d.client_closed = FALSE
  BY <1>2, <1>3, LikeSound, EnterSound
<1> HIDE DEF d
<1>5. ASSUME NEW m, NEW ok
      PROVE  Sound(out(m, ok)) /\ Sound(Initiated([out(m, ok) EXCEPT !.sync = "recv"]))
  <2>1. Sound(out(m, ok))
    BY <1>4, SendOutSound
  <2> HIDE DEF out
  <2>2. Like([out(m, ok) EXCEPT !.sync = "recv"], out(m, ok))
    BY <2>1 DEF Sound, IsClient, Fields, Is, Like
  <2> QED BY <2>1, <2>2, LikeSound, InitiatedSound
<1> HIDE DEF out
<1> QED BY <1>1, <1>4, <1>5, FreeClientSound

\* client_err_func(): lwIP has freed the pcb already.
LEMMA ErrSound ==
  ASSUME Sound(c), client_err_func
  PROVE  Sound(c')
<1> DEFINE e == [c EXCEPT !.pcb = "reset", !.queue = <<>>, !.cb = {}, !.end = "error"]
<1>1. c' = client_handle_freed_client(e) /\ c.pcb = "open"
  BY DEF client_err_func
<1>2. Is(e, c.alive, c.client_closed, c.aborted, c.ptr, c.dead, c.touched, "reset")
  BY DEF Sound, IsClient, Fields, Is
<1> HIDE DEF e
<1>3. c.alive = TRUE /\ Flags(TRUE, TRUE, c.aborted, c.ptr, c.dead, c.touched, "reset")
  BY <1>1 DEF Sound, Flags
<1>4. Closing(e)
  BY <1>2, <1>3 DEF Closing, Is
<1> QED BY <1>1, <1>4, HandleFreedSound

\* A callback that was killed leaves a pointer behind; one that was not clears it.
LEMMA LeaveFlags ==
  ASSUME NEW alive, NEW closed, NEW aborted, NEW dead, NEW touched, NEW pcb,
         Flags(alive, closed, aborted, "entered", dead, touched, pcb)
  PROVE  Flags(alive, closed, aborted, IF dead = 0 THEN "null" ELSE "left", dead, FALSE, pcb)
<1>1. CASE dead = 0
  <2>1. Flags(alive, closed, aborted, "null", dead, FALSE, pcb)
    BY <1>1 DEF Flags
  <2> QED BY <1>1, <2>1
<1>2. CASE dead # 0
  <2>1. Flags(alive, closed, aborted, "left", dead, FALSE, pcb)
    BY <1>2 DEF Flags
  <2> QED BY <1>2, <2>1
<1> QED BY <1>1, <1>2

\* The callback returns ERR_ABRT exactly if it was aborted.
LEMMA LeaveSound ==
  ASSUME Sound(c), Leave
  PROVE  Sound(c') /\ AbrtReturned'
<1>1. Flags(c.alive, c.client_closed, c.aborted, "entered", c.dead, c.touched, c.pcb)
  BY DEF Leave, InCallback, Sound
<1>2. Flags(c.alive, c.client_closed, c.aborted, IF c.dead = 0 THEN "null" ELSE "left",
            c.dead, FALSE, c.pcb)
  BY <1>1, LeaveFlags
<1>3. c.touched = FALSE /\ (c.dead = 0 => c.alive)
  BY <1>1 DEF Flags
<1>4. c.aborted <=> c.dead > 0
  BY <1>1 DEF Flags
<1>5. Is(c', c.alive, c.client_closed, c.aborted, IF c.dead = 0 THEN "null" ELSE "left",
         c.dead, FALSE, c.pcb)
  BY <1>3 DEF Sound, Leave, IsClient, Fields, Is
<1>6. Sound(c')
  BY <1>2, <1>5 DEF Sound, Is
<1>7. ret'.value = (IF c.dead > 0 THEN "ERR_ABRT" ELSE "ERR_OK") /\ ret'.abort = c.aborted
  BY DEF Leave
<1>8. AbrtReturned'
  BY <1>4, <1>7 DEF AbrtReturned
<1> QED BY <1>6, <1>8

\* BSOCKSCLIENT_EVENT_UP.
LEMMA UpSound ==
  ASSUME Sound(c), Up
  PROVE  Sound(c')
<1> DEFINE e == [c EXCEPT !.socks_up = TRUE, !.sending = Len(c.buf),
                          !.cb = IF c.client_closed THEN @ ELSE @ \cup {"sent"}]
<1>1. c' = Initiated(e)
  BY DEF Up
<1>2. Like(e, c)
  BY DEF Sound, IsClient, Fields, Is, Like
<1> HIDE DEF e
<1> QED BY <1>1, <1>2, LikeSound, InitiatedSound

\* BSOCKSCLIENT_EVENT_ERROR and BSOCKSCLIENT_EVENT_ERROR_CLOSED.
LEMMA SocksErrorSound ==
  ASSUME Sound(c), SocksError \/ SocksClosed
  PROVE  Sound(c')
<1> DEFINE e(end) == [c EXCEPT !.end = end]
<1>1. \E end, ok : c' = client_free_socks(e(end), ok)
  <2>1. CASE SocksError
    BY <2>1 DEF SocksError
  <2>2. CASE SocksClosed
    <3>1. PICK ok \in BOOLEAN :
            c' = client_free_socks([c EXCEPT !.end = IF @ = "none" THEN "server" ELSE @], ok)
      BY <2>2 DEF SocksClosed
    <3>2. c' = client_free_socks(e(IF c.end = "none" THEN "server" ELSE c.end), ok)
      BY <3>1
    <3> QED BY <3>2
  <2> QED BY <2>1, <2>2
<1>2. c.alive = TRUE
  BY DEF SocksError, SocksClosed, SocksRuns, Sound, Flags
<1>3. ASSUME NEW end PROVE Like(e(end), c)
  BY DEF Sound, IsClient, Fields, Is, Like
<1> HIDE DEF e
<1> QED BY <1>1, <1>2, <1>3, LikeSound, FreeSocksSound

\* client_socks_send_handler_done().
LEMMA SentDoneSound ==
  ASSUME Sound(c), NEW n, client_socks_send_handler_done(n)
  PROVE  Sound(c')
<1> DEFINE e == [c EXCEPT !.buf = SubSeq(@, n + 1, Len(@)), !.sending = Len(c.buf) - n,
                          !.wnd = IF c.client_closed THEN @ ELSE @ + n]
<1>1. c' \in {e, client_free_socks(e, TRUE)}
  BY DEF client_socks_send_handler_done
<1>2. c.alive = TRUE
  BY DEF client_socks_send_handler_done, SocksRuns, Sound, Flags
<1>3. Like(e, c)
  BY DEF Sound, IsClient, Fields, Is, Like
<1> HIDE DEF e
<1> QED BY <1>1, <1>2, <1>3, LikeSound, FreeSocksSound

\* client_socks_recv_handler_done().
LEMMA RecvDoneSound ==
  ASSUME Sound(c), NEW n, client_socks_recv_handler_done(n)
  PROVE  Sound(c')
<1> DEFINE e == [c EXCEPT !.receiving = FALSE]
           d == [c EXCEPT !.receiving = FALSE, !.rbuf = SubSeq(sks.rcv, 1, n)]
           out(m, ok) == client_socks_recv_send_out(d, m, ok)
<1>1. \/ c' = e
      \/ /\ c.client_closed = FALSE
         /\ \E m \in {0, Fits(d)}, ok \in BOOLEAN :
              c' = IF out(m, ok).client_closed THEN out(m, ok) ELSE Initiated(out(m, ok))
  BY DEF client_socks_recv_handler_done, Sound, Flags
<1>2. c.alive = TRUE
  BY DEF client_socks_recv_handler_done, SocksRuns, Sound, Flags
<1>3. Like(e, c) /\ Like(d, c)
  BY DEF Sound, IsClient, Fields, Is, Like
<1> HIDE DEF e, d
<1>4. Sound(e) /\ Sound(d) /\ d.alive = TRUE /\ d.client_closed = c.client_closed
  BY <1>2, <1>3, LikeSound
<1>5. c.client_closed = FALSE => \A m, ok : Sound(out(m, ok)) /\ Sound(Initiated(out(m, ok)))
  BY <1>4, SendOutSound, InitiatedSound
<1> HIDE DEF out
<1> QED BY <1>1, <1>4, <1>5

\* client_murder(), when the program ends.
LEMMA MurderSound ==
  ASSUME Sound(c), client_murder
  PROVE  Sound(c')
<1> DEFINE e == [c EXCEPT !.cb = {}]
           f(d) == [d EXCEPT !.client_closed = TRUE, !.socks_closed = TRUE,
                             !.sending = 0, !.receiving = FALSE, !.end = "error"]
<1>1. c' = client_dealloc(f(IF c.client_closed THEN c ELSE client_abort_pcb(e)))
  BY DEF client_murder
<1>2. c.alive = TRUE
  BY DEF client_murder, Sound, Flags
<1>3. Like(e, c)
  BY DEF Sound, IsClient, Fields, Is, Like
<1>4. ASSUME NEW d, IsClient(d)
      PROVE  Is(f(d), d.alive, TRUE, d.aborted, d.ptr, d.dead, d.touched, d.pcb)
  BY <1>4 DEF IsClient, Fields, Is
<1> HIDE DEF e, f
<1>5. CASE c.client_closed = TRUE
  <2>1. c' = client_dealloc(f(c))
    BY <1>1, <1>5
  <2>2. Sound(f(c)) /\ f(c).alive = TRUE /\ f(c).client_closed = TRUE
    BY <1>2, <1>4, <1>5 DEF Sound, Is
  <2> QED BY <2>1, <2>2, DeallocSound
<1>6. CASE c.client_closed = FALSE
  <2> DEFINE a == client_abort_pcb(e)
  <2>1. c' = client_dealloc(f(a))
    BY <1>1, <1>6
  <2>2. Closing(a)
    BY <1>2, <1>3, <1>6, LikeSound, AbortPcbClosing
  <2> HIDE DEF a
  <2>3. Sound(f(a)) /\ f(a).alive = TRUE /\ f(a).client_closed = TRUE
    BY <1>4, <2>2 DEF Closing, Sound, Is
  <2> QED BY <2>1, <2>3, DeallocSound
<1> QED BY <1>5, <1>6 DEF Sound, Flags

\* The application and lwIP by themselves leave the seven fields alone.
LEMMA OthersSound ==
  ASSUME Sound(c), SentAfterClose \/ AppSend \/ AppEnd
  PROVE  Sound(c')
<1>1. CASE SentAfterClose
  <2>1. Like(c', c)
    BY <1>1 DEF SentAfterClose, Sound, IsClient, Fields, Is, Like
  <2> QED BY <2>1, LikeSound
<1>2. CASE AppSend
  <2>1. Like(c', c)
    BY <1>2 DEF AppSend, Sound, IsClient, Fields, Is, Like
  <2> QED BY <2>1, LikeSound
<1>3. CASE AppEnd
  <2>1. Like(c', c)
    BY <1>3 DEF AppEnd, Sound, IsClient, Fields, Is, Like
  <2> QED BY <2>1, LikeSound
<1> QED BY <1>1, <1>2, <1>3

\* Before the first connection there is no client.
LEMMA TunInvInit == TunInit => TunInv
<1> SUFFICES ASSUME TunInit PROVE TunInv
  OBVIOUS
<1>1. Is(c, FALSE, FALSE, FALSE, "null", 0, FALSE, "closed")
  BY DEF TunInit, NoClient, Is, IsClient, Fields
<1>2. Flags(FALSE, FALSE, FALSE, "null", 0, FALSE, "closed")
  BY DEF Flags
<1>3. Sound(c)
  BY <1>1, <1>2 DEF Is, Sound
<1>4. AbrtReturned
  BY DEF TunInit, AbrtReturned
<1> QED BY <1>3, <1>4 DEF TunInv

\* Every callback and every step of a peer preserves the invariant.
LEMMA TunInvNext == TunInv /\ [TunNext]_tunVars => TunInv'
<1> SUFFICES ASSUME TunInv, [TunNext]_tunVars PROVE TunInv'
  OBVIOUS
<1> USE DEF TunInv
<1>1. CASE Leave
  BY <1>1, LeaveSound
<1>2. CASE \E n : client_recv_func(n)
  <2>1. PICK n : client_recv_func(n)
    BY <1>2
  <2>2. ret' = ret \/ ret' = [value |-> "ERR_MEM", abort |-> FALSE]
    BY <2>1 DEF client_recv_func
  <2>3. AbrtReturned'
    BY <2>2 DEF AbrtReturned
  <2> QED BY <2>1, <2>3, RecvSound
<1>3. CASE ret' = ret /\ Sound(c')
  BY <1>3 DEF AbrtReturned
<1>4. CASE c' = c /\ ret' = ret
  BY <1>4 DEF AbrtReturned
<1>5. CASE listener_accept_func
  BY <1>3, <1>5, AcceptSound DEF listener_accept_func
<1>6. CASE client_recv_func_end
  BY <1>3, <1>6, RecvEndSound DEF client_recv_func_end
<1>7. CASE Acked
  <2>1. PICK n : client_sent_func(n)
    BY <1>7 DEF Acked
  <2>2. ret' = ret
    BY <2>1 DEF client_sent_func
  <2> QED BY <1>3, <2>1, <2>2, SentSound
<1>8. CASE client_err_func
  BY <1>3, <1>8, ErrSound DEF client_err_func
<1>9. CASE Connected \/ SentControl \/ ReceivedControl \/ ServerSend \/ ServerEnd
  BY <1>4, <1>9 DEF Connected, SentControl, ReceivedControl, Handshake, ServerSend, ServerEnd
<1>10. CASE Up
  BY <1>3, <1>10, UpSound DEF Up
<1>11. CASE SocksError \/ SocksClosed
  <2>1. ret' = ret
    BY <1>11 DEF SocksError, SocksClosed
  <2> QED BY <1>3, <1>11, <2>1, SocksErrorSound
<1>12. CASE SocksWrote
  <2>1. PICK n : client_socks_send_handler_done(n)
    BY <1>12 DEF SocksWrote
  <2>2. ret' = ret
    BY <2>1 DEF client_socks_send_handler_done
  <2> QED BY <1>3, <2>1, <2>2, SentDoneSound
<1>13. CASE SocksRead
  <2>1. PICK n : client_socks_recv_handler_done(n)
    BY <1>13 DEF SocksRead
  <2>2. ret' = ret
    BY <2>1 DEF client_socks_recv_handler_done
  <2> QED BY <1>3, <2>1, <2>2, RecvDoneSound
<1>14. CASE client_murder
  BY <1>3, <1>14, MurderSound DEF client_murder
<1>15. CASE SentAfterClose \/ AppSend \/ AppEnd
  <2>1. ret' = ret
    BY <1>15 DEF SentAfterClose, AppSend, AppEnd
  <2> QED BY <1>3, <1>15, <2>1, OthersSound
<1>16. CASE UNCHANGED tunVars
  BY <1>4, <1>16 DEF tunVars
<1> QED
  BY <1>1, <1>2, <1>5, <1>6, <1>7, <1>8, <1>9, <1>10, <1>11, <1>12, <1>13, <1>14, <1>15, <1>16
  DEF TunNext, Recv

\* What client_recv_func(), client_sent_func() and the accept callback return says if
\* and only if tcp_abort() was called in them.
THEOREM TunReturns == TunSpec => []AbrtReturned
<1>1. TunInv => AbrtReturned
  BY DEF TunInv
<1> QED BY TunInvInit, TunInvNext, <1>1, PTL DEF TunSpec

\* No callback of tun2socks.c uses a client that was freed, and none of the macros of
\* dead.h writes through dead_aborted after the callback it points into returned.
THEOREM TunTouchesNothing == TunSpec => []NothingTouched
<1>1. TunInv => NothingTouched
  BY DEF TunInv, Sound, Flags, NothingTouched
<1> QED BY TunInvInit, TunInvNext, <1>1, PTL DEF TunSpec

-----------------------------------------------------------------------------
(* The data of the two sides.                                              *)

Item == STRING
Items == Seq(Item)

\* Concatenation, where it only matters that it is associative.
a \bullet b == a \o b

SksRecord == [state : SocksState, out : Items, rcv : Items, sent : Items, fin : BOOLEAN]

\* The buffers, and the bounds that keep every transfer within them.
Typed(d, k) ==
  /\ IsClient(d) /\ k \in SksRecord
  /\ d.buf \in Items /\ d.up \in Items /\ d.sent \in Items
  /\ d.got \in Items /\ d.queue \in Items /\ d.rbuf \in Items
  /\ d.alive \in BOOLEAN /\ d.client_closed \in BOOLEAN /\ d.socks_closed \in BOOLEAN
  /\ d.sending \in Nat /\ d.sending <= Len(d.buf)
  /\ Len(d.queue) <= SndBuf
  /\ d.receiving => d.rbuf = <<>> /\ d.socks_up
  /\ d.rbuf # <<>> => d.socks_up

\* The application's side is open: the server's data is complete, and if the other side
\* is open too, so is the application's.
Open(d, k) ==
  d.alive /\ ~d.client_closed =>
    /\ d.pending = Len(d.queue)
    /\ d.got \bullet d.queue \bullet d.rbuf \bullet k.rcv = k.sent
    /\ ~d.socks_closed => /\ k.out \bullet d.buf \bullet d.up = d.sent
                          /\ d.end = "none" /\ "recv" \in d.cb
    /\ d.socks_closed => d.end \in {"server", "error"} /\ "recv" \notin d.cb

\* The application's side is closed: what it sent is still being written.
AppEnded(d, k) ==
  /\ d.alive /\ d.client_closed => d.end \in {"app", "error"} /\ ~d.socks_closed
  /\ d.end = "app" => d.client_closed
  /\ d.end = "app" /\ ~k.fin => /\ k.out \bullet d.buf = d.sent
                                /\ ~d.alive => d.buf = <<>>

\* The server has ended: what it sent is still on the way to the application.
ServerEnded(d, k) ==
  d.end = "server" => /\ k.fin /\ k.rcv = <<>> /\ d.socks_closed
                      /\ d.got \bullet d.queue \bullet d.rbuf = k.sent
                      /\ ~d.alive => d.queue = <<>> /\ d.rbuf = <<>>

Flow(d, k) == Typed(d, k) /\ Open(d, k) /\ AppEnded(d, k) /\ ServerEnded(d, k)

-----------------------------------------------------------------------------
(* Sequences.                                                              *)

\* Items are concatenated as sequences are.
LEMMA Cat ==
  /\ <<>> \in Items
  /\ \A a, b \in Items : a \bullet b \in Items
  /\ \A a, b, d \in Items : (a \bullet b) \bullet d = a \bullet (b \bullet d)
  /\ \A a \in Items : a \bullet <<>> = a /\ <<>> \bullet a = a
  BY ConcatProperties, ConcatAssociative, ConcatEmptySeq, EmptySeq DEF Items, \bullet

\* The associativity of Cat, for three named sequences.
LEMMA Assoc ==
  ASSUME NEW a \in Items, NEW b \in Items, NEW d \in Items
  PROVE  (a \bullet b) \bullet d = a \bullet (b \bullet d)
  BY Cat

\* A buffer of which a callback takes the first n items.
LEMMA Taken ==
  ASSUME NEW q \in Items, NEW n \in 0 .. Len(q)
  PROVE  /\ SubSeq(q, 1, n) \in Items /\ SubSeq(q, n + 1, Len(q)) \in Items
         /\ SubSeq(q, 1, n) \bullet SubSeq(q, n + 1, Len(q)) = q
         /\ Len(SubSeq(q, 1, n)) = n /\ Len(SubSeq(q, n + 1, Len(q))) = Len(q) - n
         /\ Len(q) \in Nat
<1> DEFINE x == SubSeq(q, 1, n)
           y == SubSeq(q, n + 1, Len(q))
           z == x \o y
<1>1. Len(q) \in Nat /\ \A i \in 1 .. Len(q) : q[i] \in Item
  BY LenProperties, ElementOfSeq DEF Items
<1>2. /\ x \in Seq(Item) /\ Len(x) = IF 1 <= n THEN n - 1 + 1 ELSE 0
      /\ \A i \in 1 .. n - 1 + 1 : x[i] = q[1 + i - 1]
  BY <1>1, SubSeqProperties
<1>3. /\ y \in Seq(Item)
      /\ Len(y) = IF n + 1 <= Len(q) THEN Len(q) - (n + 1) + 1 ELSE 0
      /\ \A i \in 1 .. Len(q) - (n + 1) + 1 : y[i] = q[n + 1 + i - 1]
  BY <1>1, SubSeqProperties
<1> HIDE DEF x, y
<1>4. Len(x) = n /\ Len(y) = Len(q) - n
  BY <1>1, <1>2, <1>3
<1>5. /\ z \in Seq(Item) /\ Len(z) = Len(x) + Len(y)
      /\ \A i \in 1 .. Len(x) + Len(y) : z[i] = IF i <= Len(x) THEN x[i] ELSE y[i - Len(x)]
  BY <1>2, <1>3, ConcatProperties
<1> HIDE DEF z
<1>6. \A i \in 1 .. Len(q) : z[i] = q[i]
  <2> SUFFICES ASSUME NEW i \in 1 .. Len(q) PROVE z[i] = q[i]
    OBVIOUS
  <2>1. CASE i <= n
    BY <1>1, <1>2, <1>4, <1>5, <2>1
  <2>2. CASE i > n
    <3>1. i - n \in 1 .. Len(q) - (n + 1) + 1 /\ n + 1 + (i - n) - 1 = i
      BY <1>1, <2>2
    <3>2. y[i - n] = q[i]
      BY <1>3, <3>1
    <3> QED
      BY <1>1, <1>4, <1>5, <2>2, <3>2
  <2> QED
    BY <1>1, <2>1, <2>2
<1>7. z = q
  BY <1>1, <1>4, <1>5, <1>6, SeqEqual DEF Items
<1>8. x \bullet y = q
  BY <1>7, Zenon DEF z, \bullet
<1> QED
  BY <1>1, <1>2, <1>3, <1>4, <1>8 DEF x, y, Items

\* One more item.
LEMMA Appended ==
  ASSUME NEW q \in Items, NEW x \in Item
  PROVE  Append(q, x) = q \bullet <<x>> /\ <<x>> \in Items /\ Append(q, x) \in Items
<1>1. Append(q, x) = q \o <<x>> /\ Append(q, x) \in Items
  BY AppendIsConcat, AppendProperties DEF Items
<1>2. <<x>> \in Items
  BY DEF Items
<1> QED
  BY <1>1, <1>2, Zenon DEF \bullet

\* The length of a concatenation.
LEMMA CatLength ==
  ASSUME NEW q \in Items, NEW r \in Items
  PROVE  Len(q \bullet r) = Len(q) + Len(r) /\ Len(q) \in Nat /\ Len(r) \in Nat
<1>1. Len(q \bullet r) = Len(q) + Len(r)
  BY ConcatProperties, Zenon DEF Items, \bullet
<1> QED
  BY <1>1, LenProperties DEF Items

-----------------------------------------------------------------------------
(* Freeing leaves the data alone.                                          *)

\* What no function that frees changes.
Held(e, d) ==
  /\ IsClient(e)
  /\ e.buf = d.buf /\ e.up = d.up /\ e.sent = d.sent /\ e.got = d.got /\ e.rbuf = d.rbuf
  /\ e.socks_up = d.socks_up

\* The application's side of d was closed, and all of it if nothing is left to be sent.
Freed(e, d) ==
  /\ Held(e, d) /\ e.client_closed = TRUE
  /\ e.queue = d.queue \/ e.queue = <<>>
  /\ e.end = d.end \/ e.end = "error"
  /\ \/ /\ d.buf # <<>> /\ ~d.socks_closed
        /\ e.alive = d.alive /\ e.socks_closed = d.socks_closed
        /\ e.sending = d.sending /\ e.receiving = d.receiving
     \/ /\ d.buf = <<>> \/ d.socks_closed
        /\ e.alive = FALSE /\ e.socks_closed = TRUE /\ e.sending = 0 /\ e.receiving = FALSE

\* client_dealloc() marks the client and tells the callback.
LEMMA DeallocHeld ==
  ASSUME NEW d, IsClient(d)
  PROVE  LET e == client_dealloc(d)
         IN  /\ Held(e, d) /\ e.alive = FALSE /\ e.client_closed = d.client_closed
             /\ e.socks_closed = d.socks_closed /\ e.queue = d.queue /\ e.end = d.end
             /\ e.sending = d.sending /\ e.receiving = d.receiving
  BY DEF client_dealloc, Kill, IsClient, Fields, Held

\* client_handle_freed_client() keeps a client that has data to send.
LEMMA HandleFreed ==
  ASSUME NEW d, IsClient(d)
  PROVE  /\ Freed(client_handle_freed_client(d), d)
         /\ client_handle_freed_client(d).end = d.end
<1>1. CASE d.buf # <<>> /\ ~d.socks_closed
  BY <1>1 DEF client_handle_freed_client, IsClient, Fields, Held, Freed
<1>2. CASE ~(d.buf # <<>> /\ ~d.socks_closed)
  <2> DEFINE f == [d EXCEPT !.client_closed = TRUE, !.socks_closed = TRUE,
                            !.sending = 0, !.receiving = FALSE]
  <2>1. /\ Held(f, d) /\ f.client_closed = TRUE /\ f.socks_closed = TRUE /\ f.queue = d.queue
        /\ f.end = d.end /\ f.sending = 0 /\ f.receiving = FALSE
    BY DEF IsClient, Fields, Held
  <2>2. client_handle_freed_client(d) = client_dealloc(f)
    BY <1>2 DEF client_handle_freed_client
  <2> HIDE DEF f
  <2>3. IsClient(f)
    BY <2>1 DEF Held
  <2> DEFINE e == client_dealloc(f)
  <2>4. /\ Held(e, f) /\ e.alive = FALSE /\ e.client_closed = f.client_closed
        /\ e.socks_closed = f.socks_closed /\ e.queue = f.queue /\ e.end = f.end
        /\ e.sending = f.sending /\ e.receiving = f.receiving
    BY <2>3, DeallocHeld
  <2> HIDE DEF e
  <2>5. Held(e, d)
    BY <2>1, <2>4 DEF Held
  <2>6. Freed(e, d) /\ e.end = d.end
    BY <1>2, <2>1, <2>4, <2>5 DEF Freed
  <2> QED
    BY <2>2, <2>6 DEF e
<1> QED
  BY <1>1, <1>2

\* client_abort_pcb() empties lwIP's queue.
LEMMA AbortPcbHeld ==
  ASSUME NEW d, IsClient(d)
  PROVE  LET e == client_abort_pcb(d)
         IN  /\ Held(e, d) /\ e.queue = <<>> /\ e.end = "error" /\ e.alive = d.alive
             /\ e.client_closed = d.client_closed /\ e.socks_closed = d.socks_closed
             /\ e.sending = d.sending /\ e.receiving = d.receiving
<1> DEFINE f == [d EXCEPT !.pcb = "reset", !.queue = <<>>, !.aborted = TRUE, !.end = "error"]
           e == Kill(f, 1)
<1>1. /\ Held(f, d) /\ f.queue = <<>> /\ f.end = "error" /\ f.alive = d.alive
      /\ f.client_closed = d.client_closed /\ f.socks_closed = d.socks_closed
      /\ f.sending = d.sending /\ f.receiving = d.receiving
  BY DEF IsClient, Fields, Held
<1>2. client_abort_pcb(d) = e
  BY DEF client_abort_pcb
<1> HIDE DEF f
<1>3. /\ Held(e, f) /\ e.queue = f.queue /\ e.end = f.end /\ e.alive = f.alive
      /\ e.client_closed = f.client_closed /\ e.socks_closed = f.socks_closed
      /\ e.sending = f.sending /\ e.receiving = f.receiving
  BY <1>1 DEF Kill, IsClient, Fields, Held
<1> HIDE DEF e
<1> QED
  BY <1>1, <1>2, <1>3 DEF Held

\* client_free_client(), however tcp_close() ends.
LEMMA FreeClientFreed ==
  ASSUME NEW d, IsClient(d), NEW ok
  PROVE  Freed(client_free_client(d, ok), d)
<1> DEFINE e == [d EXCEPT !.cb = {}]
           r == [e EXCEPT !.pcb = "reset", !.queue = <<>>]
           s == [e EXCEPT !.pcb = "closed"]
           a == client_abort_pcb(e)
           Beg(f) == /\ Held(f, d)
                     /\ f.queue = d.queue \/ f.queue = <<>>
                     /\ f.end = d.end \/ f.end = "error"
                     /\ f.alive = d.alive /\ f.socks_closed = d.socks_closed
                     /\ f.sending = d.sending /\ f.receiving = d.receiving
<1>0. IsClient(e) /\ Held(e, d) /\ e.queue = d.queue /\ e.end = d.end /\ e.alive = d.alive
      /\ e.socks_closed = d.socks_closed /\ e.sending = d.sending /\ e.receiving = d.receiving
  BY DEF IsClient, Fields, Held
<1>1. Beg(r)
  BY DEF IsClient, Fields, Held
<1>2. Beg(s)
  BY DEF IsClient, Fields, Held
<1>3. Beg(a)
  <2> HIDE DEF e
  <2> QED
    BY <1>0, AbortPcbHeld DEF Held
<1>4. \E f \in {r, s, a} : client_free_client(d, ok) = client_handle_freed_client(f)
  BY Zenon DEF client_free_client
<1> HIDE DEF r, s, a
<1>5. PICK f \in {r, s, a} : client_free_client(d, ok) = client_handle_freed_client(f)
  BY <1>4
<1>6. Beg(f)
  BY <1>1, <1>2, <1>3
<1>7. Freed(client_handle_freed_client(f), f)
  BY <1>6, HandleFreed DEF Held
<1> QED
  BY <1>5, <1>6, <1>7 DEF Held, Freed

\* client_abort_client() is an error.
LEMMA AbortClientFreed ==
  ASSUME NEW d, IsClient(d)
  PROVE  Freed(client_abort_client(d), d) /\ client_abort_client(d).end = "error"
<1> DEFINE e == [d EXCEPT !.cb = {}]
           a == client_abort_pcb(e)
<1>1. IsClient(e) /\ Held(e, d) /\ e.alive = d.alive
      /\ e.socks_closed = d.socks_closed /\ e.sending = d.sending /\ e.receiving = d.receiving
  BY DEF IsClient, Fields, Held
<1> HIDE DEF e
<1>2. /\ Held(a, d) /\ a.queue = <<>> /\ a.end = "error" /\ a.alive = d.alive
      /\ a.socks_closed = d.socks_closed /\ a.sending = d.sending /\ a.receiving = d.receiving
  BY <1>1, AbortPcbHeld DEF Held
<1>3. client_abort_client(d) = client_handle_freed_client(a)
  BY Zenon DEF client_abort_client, e
<1> HIDE DEF a
<1>4. Freed(client_handle_freed_client(a), a) /\ client_handle_freed_client(a).end = a.end
  BY <1>2, HandleFreed DEF Held
<1> QED
  BY <1>2, <1>3, <1>4 DEF Held, Freed


\* All of the client was freed.
Ended(e, d) ==
  /\ Held(e, d) /\ e.alive = FALSE /\ e.client_closed = TRUE /\ e.socks_closed = TRUE
  /\ e.sending = 0 /\ e.receiving = FALSE
  /\ e.queue = d.queue \/ e.queue = <<>>
  /\ e.end = d.end \/ e.end = "error"

\* The connection to ss-local was closed, and the application is still to be sent data.
Waits(e, d) ==
  /\ Held(e, d) /\ e.alive = d.alive /\ e.client_closed = d.client_closed /\ e.socks_closed = TRUE
  /\ e.sending = 0 /\ e.receiving = FALSE /\ "recv" \notin e.cb
  /\ e.queue = d.queue /\ e.pending = d.pending /\ e.end = d.end

\* client_free_socks() waits only for an application that is there.
LEMMA FreeSocksIs ==
  ASSUME NEW d, IsClient(d), NEW ok, d.client_closed \in BOOLEAN
  PROVE  LET e == client_free_socks(d, ok)
         IN  \/ d.client_closed /\ Ended(e, d) /\ e.end = d.end
             \/ ~d.client_closed /\ Waits(e, d)
             \/ /\ ~d.client_closed /\ (d.socks_up => d.rbuf = <<>> /\ ~(d.pending > 0))
                /\ Ended(e, d)
<1> DEFINE e == client_free_socks(d, ok)
           f == [d EXCEPT !.cb = IF d.socks_up THEN @ \ {"recv"} ELSE @,
                          !.socks_closed = TRUE, !.sending = 0, !.receiving = FALSE]
<1>1. /\ Held(f, d) /\ f.alive = d.alive /\ f.client_closed = d.client_closed /\ f.socks_closed = TRUE
      /\ f.sending = 0 /\ f.receiving = FALSE /\ (d.socks_up => "recv" \notin f.cb)
      /\ f.queue = d.queue /\ f.pending = d.pending /\ f.end = d.end
  BY DEF IsClient, Fields, Held
<1>2. \/ d.client_closed /\ e = client_dealloc(f)
      \/ ~d.client_closed /\ d.socks_up /\ e = f
      \/ /\ ~d.client_closed /\ ~(d.socks_up /\ (d.rbuf # <<>> \/ d.pending > 0))
         /\ e = client_free_client(f, ok)
  BY Zenon DEF client_free_socks
<1>3. IsClient(f)
  BY <1>1 DEF Held
<1> HIDE DEF f, e
<1>4. CASE d.client_closed /\ e = client_dealloc(f)
  <2>1. d.client_closed = TRUE
    BY <1>4, Zenon
  <2>2. /\ Held(e, f) /\ e.alive = FALSE /\ e.client_closed = f.client_closed
        /\ e.socks_closed = f.socks_closed /\ e.queue = f.queue /\ e.end = f.end
        /\ e.sending = f.sending /\ e.receiving = f.receiving
    BY <1>3, <1>4, DeallocHeld
  <2>3. Ended(e, d) /\ e.end = d.end
    BY <1>1, <2>1, <2>2 DEF Held, Ended
  <2> QED
    BY <1>4, <2>3 DEF e
<1>5. CASE ~d.client_closed /\ d.socks_up /\ e = f
  BY <1>1, <1>5 DEF Waits, e
<1>6. CASE /\ ~d.client_closed /\ ~(d.socks_up /\ (d.rbuf # <<>> \/ d.pending > 0))
           /\ e = client_free_client(f, ok)
  <2>1. Freed(e, f)
    BY <1>3, <1>6, FreeClientFreed
  <2>2. Ended(e, d)
    BY <1>1, <2>1 DEF Freed, Held, Ended
  <2> QED
    BY <1>6, <2>2 DEF e
<1> QED
  BY <1>2, <1>4, <1>5, <1>6

-----------------------------------------------------------------------------
(* What is left of the invariant when a side ends.                         *)

\* A client that is gone.
LEMMA EndedFlow ==
  ASSUME NEW d, NEW e, NEW k, Typed(d, k), Ended(e, d),
         e.end = "app" /\ ~k.fin => k.out \bullet d.buf = d.sent /\ d.buf = <<>>,
         e.end = "server" => /\ k.fin /\ k.rcv = <<>> /\ d.queue = <<>> /\ d.rbuf = <<>>
                             /\ d.got \bullet d.queue \bullet d.rbuf = k.sent
  PROVE  Flow(e, k)
<1>1. Len(<<>>) = 0 /\ Len(d.buf) \in Nat /\ SndBuf \in Nat /\ <<>> \in Items
  BY LenProperties, TunAssumption, Cat DEF Typed, Items
<1>2. Typed(e, k)
  <2>1. e.queue \in Items /\ Len(e.queue) <= SndBuf
    BY <1>1 DEF Typed, Ended
  <2>2. ~e.receiving
    BY Zenon DEF Ended
  <2>3. e.sending \in Nat /\ e.sending <= Len(e.buf)
    BY <1>1 DEF Ended, Held
  <2> QED
    BY <2>1, <2>2, <2>3 DEF Typed, Ended, Held
<1>3. Open(e, k)
  BY DEF Ended, Open
<1>4. AppEnded(e, k)
  BY DEF Ended, AppEnded, Held
<1>5. ServerEnded(e, k)
  BY DEF Ended, ServerEnded, Held
<1> QED
  BY <1>2, <1>3, <1>4, <1>5 DEF Flow

\* A client whose application's side was closed.
LEMMA FreedFlow ==
  ASSUME NEW d, NEW e, NEW k, Typed(d, k), d.alive = TRUE, Freed(e, d),
         e.end \in {"app", "error"},
         e.end = "app" => ~d.socks_closed /\ k.out \bullet d.buf = d.sent
  PROVE  Flow(e, k)
<1>1. Len(<<>>) = 0 /\ Len(d.buf) \in Nat /\ SndBuf \in Nat /\ <<>> \in Items
  BY LenProperties, TunAssumption, Cat DEF Typed, Items
<1>2. Typed(e, k)
  <2>1. e.queue \in Items /\ Len(e.queue) <= SndBuf
    BY <1>1 DEF Typed, Freed
  <2>2. e.receiving => e.rbuf = <<>> /\ e.socks_up
    BY Zenon DEF Typed, Freed, Held
  <2>3. e.sending \in Nat /\ e.sending <= Len(e.buf)
    BY <1>1 DEF Typed, Freed, Held
  <2>4. e.alive \in BOOLEAN /\ e.client_closed \in BOOLEAN /\ e.socks_closed \in BOOLEAN
    BY DEF Typed, Freed
  <2> QED
    BY <2>1, <2>2, <2>3, <2>4 DEF Typed, Freed, Held
<1>3. Open(e, k)
  BY DEF Freed, Open
<1>4. AppEnded(e, k)
  <2>1. CASE d.buf # <<>> /\ ~d.socks_closed /\ e.alive = d.alive /\ e.socks_closed = d.socks_closed
    BY <2>1, Zenon DEF Freed, AppEnded, Held
  <2>2. CASE (d.buf = <<>> \/ d.socks_closed) /\ e.alive = FALSE
    BY <2>2, Zenon DEF Freed, AppEnded, Held
  <2> QED
    BY <2>1, <2>2, Zenon DEF Freed
<1>5. ServerEnded(e, k)
  BY DEF ServerEnded
<1> QED
  BY <1>2, <1>3, <1>4, <1>5 DEF Flow

\* All that Flow speaks of.
Alike(e, d) ==
  /\ Held(e, d) /\ e.alive = d.alive /\ e.client_closed = d.client_closed
  /\ e.socks_closed = d.socks_closed /\ e.sending = d.sending /\ e.receiving = d.receiving
  /\ e.cb = d.cb /\ e.queue = d.queue /\ e.pending = d.pending /\ e.end = d.end

\* DEAD variables, windows and jobs are not part of it.
LEMMA AlikeFlow ==
  ASSUME NEW d, NEW e, NEW k, Flow(d, k), Alike(e, d)
  PROVE  Flow(e, k)
<1>1. Typed(e, k)
  BY DEF Typed, Alike, Held, Flow
<1>2. Open(e, k)
  BY DEF Open, Alike, Held, Flow
<1>3. AppEnded(e, k) /\ ServerEnded(e, k)
  BY DEF AppEnded, ServerEnded, Alike, Held, Flow
<1> QED
  BY <1>1, <1>2, <1>3 DEF Flow

\* Enter() sets the DEAD variable and the jobs.
LEMMA EnterAlike ==
  ASSUME NEW d, IsClient(d), NEW sync
  PROVE  Alike(Enter(d, sync), d) /\ IsClient(Enter(d, sync))
  BY DEF Enter, IsClient, Fields, Alike, Held

-----------------------------------------------------------------------------
(* The actions keep both streams.                                          *)

\* lwIP calls back for a client that is there and has not closed its side.
LEMMA OpenPcb ==
  ASSUME NEW d, Sound(d)
  PROVE  d.pcb = "open" <=> d.alive /\ ~d.client_closed
  BY DEF Sound, Flags

\* A client that was just accepted has no data.
LEMMA AcceptFlow ==
  ASSUME listener_accept_func
  PROVE  Flow(c', sks')
<1> DEFINE d == [NoClient EXCEPT !.alive = TRUE, !.cb = {"err", "recv"}, !.pcb = "open"]
           k == [state |-> "connecting", out |-> <<>>, rcv |-> <<>>, sent |-> <<>>, fin |-> FALSE]
<1>1. c' = Enter(d, "all") /\ sks' = k
  BY Zenon DEF listener_accept_func
<1>2. /\ d.alive = TRUE /\ d.client_closed = FALSE /\ d.socks_closed = FALSE /\ d.buf = <<>>
      /\ d.sending = 0 /\ d.rbuf = <<>> /\ d.pending = 0 /\ d.receiving = FALSE
      /\ d.cb = {"err", "recv"} /\ d.up = <<>> /\ d.sent = <<>> /\ d.queue = <<>> /\ d.got = <<>>
      /\ d.end = "none"
  BY DEF NoClient
<1>3. IsClient(d)
  BY NewIsClient
<1>4. <<>> \in Items /\ Len(<<>>) = 0 /\ SndBuf \in Nat /\ <<>> \bullet <<>> = <<>>
  BY Cat, TunAssumption
<1>5. k \in SksRecord
  BY <1>4 DEF SksRecord, SocksState
<1>6. k.out = <<>> /\ k.rcv = <<>> /\ k.sent = <<>> /\ k.fin = FALSE
  OBVIOUS
<1> HIDE DEF d, k
<1>7. Typed(d, k)
  <2>1. ~d.receiving /\ ~(d.rbuf # <<>>)
    BY <1>2, Zenon
  <2>2. d.alive \in BOOLEAN /\ d.client_closed \in BOOLEAN /\ d.socks_closed \in BOOLEAN
    BY <1>2
  <2>3. /\ d.buf \in Items /\ d.up \in Items /\ d.sent \in Items
        /\ d.got \in Items /\ d.queue \in Items /\ d.rbuf \in Items
    BY <1>2, <1>4, Zenon
  <2>4. d.sending \in Nat /\ d.sending <= Len(d.buf) /\ Len(d.queue) <= SndBuf
    <3>1. Len(d.buf) = 0 /\ Len(d.queue) = 0
      BY <1>2, <1>4, Zenon
    <3> QED
      BY <1>2, <1>4, <3>1
  <2> QED
    BY <1>3, <1>5, <2>1, <2>2, <2>3, <2>4, Zenon DEF Typed
<1>8. Open(d, k) /\ AppEnded(d, k) /\ ServerEnded(d, k)
  BY <1>2, <1>4, <1>6 DEF Open, AppEnded, ServerEnded
<1>9. Flow(d, k)
  BY <1>7, <1>8 DEF Flow
<1> QED
  BY <1>1, <1>3, <1>9, EnterAlike, AlikeFlow

\* client_recv_func(): a segment goes to the buffer, or is refused, or is not wanted.
LEMMA RecvFlow ==
  ASSUME Flow(c, sks), Sound(c), NEW n, client_recv_func(n)
  PROVE  Flow(c', sks')
<1> DEFINE data == SubSeq(c.up, 1, n)
           rest == SubSeq(c.up, n + 1, Len(c.up))
           start == c.buf = <<>> /\ c.socks_up
           e == [c EXCEPT !.up = rest]
           m == IF start THEN n ELSE c.sending
           f == [c EXCEPT !.up = rest, !.wnd = @ - n, !.buf = @ \o data,
                          !.sending = IF start THEN n ELSE @]
<1>1. c.alive /\ ~c.client_closed /\ c.pcb = "open" /\ n \in 1 .. Len(c.up) /\ sks' = sks
  BY OpenPcb DEF client_recv_func
<1>2. \/ "recv" \notin c.cb /\ c' = e
      \/ c' = c
      \/ "recv" \in c.cb /\ c' = Enter(f, IF start THEN "send" ELSE "none")
  BY DEF client_recv_func
<1>3. /\ IsClient(c) /\ c.up \in Items /\ c.buf \in Items /\ sks.out \in Items
      /\ c.sending \in Nat /\ c.sending <= Len(c.buf)
  BY DEF Flow, Typed, SksRecord
<1>4. /\ data \in Items /\ rest \in Items /\ data \bullet rest = c.up /\ Len(data) = n /\ n \in Nat
  <2>1. Len(c.up) \in Nat
    BY <1>3, LenProperties DEF Items
  <2>2. n \in 0 .. Len(c.up)
    BY <1>1, <2>1
  <2> QED
    BY <1>3, <2>2, Taken
<1> HIDE DEF data, rest
<1>5. CASE "recv" \notin c.cb /\ c' = e
  <2>1. /\ IsClient(e) /\ e.up = rest /\ e.buf = c.buf /\ e.sent = c.sent /\ e.got = c.got
        /\ e.rbuf = c.rbuf /\ e.alive = c.alive /\ e.client_closed = c.client_closed
        /\ e.socks_up = c.socks_up /\ e.socks_closed = c.socks_closed /\ e.sending = c.sending /\ e.receiving = c.receiving
        /\ e.cb = c.cb /\ e.queue = c.queue /\ e.pending = c.pending /\ e.end = c.end
    BY <1>3 DEF IsClient, Fields
  <2> HIDE DEF e
  <2>2. Typed(e, sks)
    BY <1>4, <2>1 DEF Typed, Flow
  <2>3. c.socks_closed
    BY <1>1, <1>5 DEF Open, Flow
  <2>4. Open(e, sks)
    BY <2>1, <2>3 DEF Open, Flow
  <2>5. AppEnded(e, sks) /\ ServerEnded(e, sks)
    BY <2>1 DEF AppEnded, ServerEnded, Flow
  <2> QED
    BY <1>1, <1>5, <2>2, <2>4, <2>5 DEF Flow
<1>6. CASE c' = c
  BY <1>1, <1>6
<1>7. CASE "recv" \in c.cb /\ c' = Enter(f, IF start THEN "send" ELSE "none")
  <2>1. /\ IsClient(f) /\ f.up = rest /\ f.buf = c.buf \o data /\ f.sent = c.sent /\ f.got = c.got
        /\ f.rbuf = c.rbuf /\ f.alive = c.alive /\ f.client_closed = c.client_closed
        /\ f.socks_up = c.socks_up /\ f.socks_closed = c.socks_closed /\ f.sending = m /\ f.receiving = c.receiving
        /\ f.cb = c.cb /\ f.queue = c.queue /\ f.pending = c.pending /\ f.end = c.end
    BY <1>3 DEF IsClient, Fields
  <2> HIDE DEF f
  <2>2. f.buf = c.buf \bullet data
    BY <2>1, Zenon DEF \bullet
  <2>3. f.buf \in Items /\ Len(f.buf) = Len(c.buf) + n /\ Len(c.buf) \in Nat
    <3>1. c.buf \bullet data \in Items
      BY <1>3, <1>4, Cat
    <3>2. Len(c.buf \bullet data) = Len(c.buf) + Len(data) /\ Len(c.buf) \in Nat
      BY <1>3, <1>4, CatLength
    <3> QED
      BY <1>4, <2>2, <3>1, <3>2
  <2>4. f.sending \in Nat /\ f.sending <= Len(f.buf)
    BY <1>3, <1>4, <2>1, <2>3
  <2>5. Typed(f, sks)
    BY <1>4, <2>1, <2>3, <2>4 DEF Typed, Flow
  <2>6. ~c.socks_closed /\ sks.out \bullet c.buf \bullet c.up = c.sent
    BY <1>1, <1>7 DEF Open, Flow
  <2>7. sks.out \bullet f.buf \bullet f.up = f.sent
    <3>1. sks.out \bullet (c.buf \bullet data) = (sks.out \bullet c.buf) \bullet data
      BY <1>3, <1>4, Assoc
    <3>2. sks.out \bullet c.buf \in Items
      BY <1>3, Cat
    <3>3. ((sks.out \bullet c.buf) \bullet data) \bullet rest = (sks.out \bullet c.buf) \bullet (data \bullet rest)
      BY <1>4, <3>2, Assoc
    <3> QED
      BY <1>4, <2>1, <2>2, <2>6, <3>1, <3>3
  <2>8. Open(f, sks)
    BY <2>1, <2>6, <2>7 DEF Open, Flow
  <2>9. AppEnded(f, sks) /\ ServerEnded(f, sks)
    BY <1>1, <2>1 DEF AppEnded, ServerEnded, Flow
  <2>10. Flow(f, sks)
    BY <2>5, <2>8, <2>9 DEF Flow
  <2> QED
    BY <1>1, <1>7, <2>1, <2>10, EnterAlike, AlikeFlow
<1> QED
  BY <1>2, <1>5, <1>6, <1>7

\* client_recv_func() at the application's end: all of its data is in the buffer.
LEMMA RecvEndFlow ==
  ASSUME Flow(c, sks), Sound(c), client_recv_func_end
  PROVE  Flow(c', sks')
<1> DEFINE d == [c EXCEPT !.finSeen = TRUE]
           f == [d EXCEPT !.end = "app"]
           g == Enter(f, "none")
<1>1. c.alive /\ ~c.client_closed /\ c.up = <<>> /\ sks' = sks
  BY OpenPcb DEF client_recv_func_end
<1>2. \/ "recv" \in c.cb /\ \E ok \in BOOLEAN : c' = client_free_client(g, ok)
      \/ c' = d
  BY DEF client_recv_func_end
<1>3. IsClient(c) /\ c.buf \in Items /\ sks.out \in Items
  BY DEF Flow, Typed, SksRecord
<1>4. IsClient(d) /\ Alike(d, c)
  BY <1>3 DEF IsClient, Fields, Alike, Held
<1>5. IsClient(f) /\ Held(f, c) /\ f.alive = c.alive /\ f.client_closed = c.client_closed
      /\ f.socks_closed = c.socks_closed /\ f.sending = c.sending /\ f.receiving = c.receiving
      /\ f.queue = c.queue /\ f.end = "app"
  BY <1>3 DEF IsClient, Fields, Held
<1> HIDE DEF d, f
<1>6. CASE c' = d
  BY <1>1, <1>4, <1>6, AlikeFlow
<1>7. CASE "recv" \in c.cb /\ \E ok \in BOOLEAN : c' = client_free_client(g, ok)
  <2>1. IsClient(g) /\ Alike(g, f)
    BY <1>5, EnterAlike
  <2> HIDE DEF g
  <2>2. PICK ok \in BOOLEAN : c' = client_free_client(g, ok)
    BY <1>7
  <2>3. Freed(c', g)
    BY <2>1, <2>2, FreeClientFreed
  <2>4. ~c.socks_closed /\ sks.out \bullet c.buf \bullet c.up = c.sent
    BY <1>1, <1>7 DEF Open, Flow
  <2>5. sks.out \bullet c.buf = c.sent
    BY <1>1, <1>3, <2>4, Cat
  <2>6. Typed(g, sks)
    BY <1>5, <2>1 DEF Typed, Alike, Held, Flow
  <2>7. g.alive = TRUE /\ ~g.socks_closed /\ sks.out \bullet g.buf = g.sent /\ g.end = "app"
    BY <1>1, <1>5, <2>1, <2>4, <2>5, Zenon DEF Alike, Held
  <2>8. c'.end \in {"app", "error"}
    BY <2>3, <2>7 DEF Freed
  <2> QED
    BY <1>1, <2>3, <2>6, <2>7, <2>8, FreedFlow
<1> QED
  BY <1>2, <1>6, <1>7

\* tcp_write() never takes more than there is, nor more than lwIP's queue has room for.
LEMMA FitsRoom ==
  ASSUME NEW d, NEW k, Typed(d, k), NEW m \in {0, Fits(d)}
  PROVE  m \in 0 .. Len(d.rbuf) /\ Len(d.queue) + m <= SndBuf
<1>1. Len(d.rbuf) \in Nat /\ Len(d.queue) \in Nat /\ Len(d.queue) <= SndBuf /\ SndBuf \in Nat
  BY LenProperties, TunAssumption DEF Typed, Items
<1> QED
  BY <1>1 DEF Fits

\* client_socks_recv_send_out() moves data from the buffer to lwIP, or aborts.
LEMMA SendOutFlow ==
  ASSUME NEW d, NEW k, Flow(d, k), d.alive = TRUE, d.client_closed = FALSE,
         NEW m \in {0, Fits(d)}, NEW ok
  PROVE  /\ Flow(client_socks_recv_send_out(d, m, ok), k)
         /\ client_socks_recv_send_out(d, m, ok).socks_up = d.socks_up
<1> DEFINE x == SubSeq(d.rbuf, 1, m)
           y == SubSeq(d.rbuf, m + 1, Len(d.rbuf))
           e == [d EXCEPT !.queue = @ \o x, !.pending = @ + m, !.rbuf = y]
<1>1. \/ client_socks_recv_send_out(d, m, ok) = e
      \/ client_socks_recv_send_out(d, m, ok) = client_abort_client(e)
  BY DEF client_socks_recv_send_out
<1>2. /\ Typed(d, k) /\ IsClient(d) /\ d.rbuf \in Items /\ d.queue \in Items /\ d.got \in Items
      /\ k.rcv \in Items
  BY DEF Flow, Typed, SksRecord
<1>3. m \in 0 .. Len(d.rbuf) /\ Len(d.queue) + m <= SndBuf
  BY <1>2, FitsRoom
<1>4. x \in Items /\ y \in Items /\ x \bullet y = d.rbuf /\ Len(x) = m
  BY <1>2, <1>3, Taken
<1>5. d.rbuf = <<>> => y = <<>>
  <2> SUFFICES ASSUME d.rbuf = <<>> PROVE y = <<>>
    OBVIOUS
  <2>1. Len(d.rbuf) = 0
    OBVIOUS
  <2>2. Len(y) = 0
    BY <1>2, <1>3, <2>1, Taken
  <2> QED
    BY <1>4, <2>2, EmptySeq DEF Items
<1>6. /\ IsClient(e) /\ e.queue = d.queue \o x /\ e.pending = d.pending + m /\ e.rbuf = y
      /\ e.buf = d.buf /\ e.up = d.up /\ e.sent = d.sent /\ e.got = d.got
      /\ e.alive = d.alive /\ e.client_closed = d.client_closed /\ e.socks_closed = d.socks_closed
      /\ e.sending = d.sending /\ e.receiving = d.receiving /\ e.cb = d.cb /\ e.end = d.end
      /\ e.socks_up = d.socks_up
  BY <1>2 DEF IsClient, Fields
<1> HIDE DEF x, y, e
<1>7. e.queue = d.queue \bullet x
  BY <1>6, Zenon DEF \bullet
<1>8. e.queue \in Items /\ Len(e.queue) = Len(d.queue) + m
  <2>1. d.queue \bullet x \in Items
    BY <1>2, <1>4, Cat
  <2>2. Len(d.queue \bullet x) = Len(d.queue) + Len(x)
    BY <1>2, <1>4, CatLength
  <2> QED
    BY <1>4, <1>7, <2>1, <2>2
<1>9. Typed(e, k)
  <2>1. (e.receiving => e.rbuf = <<>> /\ e.socks_up) /\ (e.rbuf # <<>> => e.socks_up)
    BY <1>2, <1>5, <1>6, Zenon DEF Typed
  <2>2. Len(e.queue) <= SndBuf
    BY <1>3, <1>8
  <2> QED
    BY <1>2, <1>4, <1>6, <1>8, <2>1, <2>2 DEF Typed
<1>10. (d.got \bullet e.queue) \bullet e.rbuf = d.got \bullet d.queue \bullet d.rbuf
  <2>1. d.got \bullet (d.queue \bullet x) = (d.got \bullet d.queue) \bullet x
    BY <1>2, <1>4, Assoc
  <2>2. d.got \bullet d.queue \in Items
    BY <1>2, Cat
  <2>3. ((d.got \bullet d.queue) \bullet x) \bullet y = (d.got \bullet d.queue) \bullet (x \bullet y)
    BY <1>4, <2>2, Assoc
  <2> QED
    BY <1>4, <1>6, <1>7, <2>1, <2>3
<1>11. CASE client_socks_recv_send_out(d, m, ok) = e
  <2>1. Open(e, k)
    <3>1. /\ d.pending = Len(d.queue)
          /\ d.got \bullet d.queue \bullet d.rbuf \bullet k.rcv = k.sent
          /\ ~d.socks_closed => /\ k.out \bullet d.buf \bullet d.up = d.sent
                                /\ d.end = "none" /\ "recv" \in d.cb
          /\ d.socks_closed => d.end \in {"server", "error"} /\ "recv" \notin d.cb
      BY DEF Flow, Open
    <3>2. e.pending = Len(e.queue)
      BY <1>6, <1>8, <3>1
    <3>3. e.got \bullet e.queue \bullet e.rbuf \bullet k.rcv = k.sent
      BY <1>6, <1>10, <3>1
    <3> QED
      BY <1>6, <3>1, <3>2, <3>3 DEF Open
  <2>2. AppEnded(e, k)
    BY <1>6 DEF AppEnded, Flow
  <2>3. ServerEnded(e, k)
    BY <1>6, <1>10 DEF ServerEnded, Flow
  <2> QED
    BY <1>6, <1>9, <1>11, <2>1, <2>2, <2>3 DEF Flow
<1>12. CASE client_socks_recv_send_out(d, m, ok) = client_abort_client(e)
  <2>1. Freed(client_abort_client(e), e) /\ client_abort_client(e).end = "error"
    BY <1>6, AbortClientFreed
  <2>2. e.alive = TRUE
    BY <1>6
  <2> QED
    BY <1>6, <1>9, <1>12, <2>1, <2>2, FreedFlow DEF Freed, Held
<1> QED
  BY <1>1, <1>11, <1>12

\* client_socks_recv_initiate() receives into an empty buffer only.
LEMMA InitiatedFlow ==
  ASSUME NEW d, NEW k, Flow(d, k), d.socks_up
  PROVE  Flow(Initiated(d), k)
<1> DEFINE e == Initiated(d)
<1>1. IsClient(d)
  BY DEF Flow, Typed
<1>2. /\ IsClient(e) /\ e.queue = d.queue /\ e.pending = d.pending /\ e.rbuf = d.rbuf
      /\ e.buf = d.buf /\ e.up = d.up /\ e.sent = d.sent /\ e.got = d.got
      /\ e.alive = d.alive /\ e.client_closed = d.client_closed /\ e.socks_closed = d.socks_closed
      /\ e.sending = d.sending /\ e.cb = d.cb /\ e.end = d.end /\ e.socks_up = d.socks_up
  BY <1>1 DEF Initiated, IsClient, Fields
<1>3. e.receiving => e.rbuf = <<>>
  BY <1>1 DEF Initiated, IsClient, Fields
<1> HIDE DEF e
<1>4. Typed(e, k)
  BY <1>2, <1>3 DEF Typed, Flow
<1>5. Open(e, k) /\ AppEnded(e, k) /\ ServerEnded(e, k)
  BY <1>2 DEF Open, AppEnded, ServerEnded, Flow
<1> QED
  BY <1>4, <1>5 DEF Flow, e

\* client_sent_func(): what was acknowledged leaves the queue, and more may enter it; the
\* last of it frees a client whose server has ended.
LEMMA SentFlow ==
  ASSUME Flow(c, sks), Sound(c), NEW n, client_sent_func(n)
  PROVE  Flow(c', sks')
<1> DEFINE x == SubSeq(c.queue, 1, n)
           y == SubSeq(c.queue, n + 1, Len(c.queue))
           f == [c EXCEPT !.queue = y, !.pending = @ - n, !.got = @ \o x]
           d == Enter(f, "none")
<1>1. c.alive /\ ~c.client_closed /\ n \in 1 .. Len(c.queue) /\ sks' = sks
  BY OpenPcb DEF client_sent_func
<1>2. \/ c.rbuf # <<>> /\ \E m \in {0, Fits(d)}, ok \in BOOLEAN :
           LET e == client_socks_recv_send_out(d, m, ok)
           IN  c' = IF e.client_closed THEN e ELSE Initiated([e EXCEPT !.sync = "recv"])
      \/ c.rbuf = <<>> /\ c.socks_closed /\ d.pending = 0 /\ \E ok \in BOOLEAN : c' = client_free_client(d, ok)
      \/ c' = d
  BY DEF client_sent_func
<1>3. /\ IsClient(c) /\ c.queue \in Items /\ c.got \in Items /\ c.rbuf \in Items /\ sks.rcv \in Items
      /\ Len(c.queue) <= SndBuf
      /\ c.alive = TRUE /\ c.client_closed = FALSE
  BY <1>1 DEF Flow, Typed, SksRecord
<1>4. /\ x \in Items /\ y \in Items /\ x \bullet y = c.queue /\ Len(y) = Len(c.queue) - n
      /\ Len(c.queue) \in Nat /\ n \in Nat
  <2>1. Len(c.queue) \in Nat
    BY <1>3, LenProperties DEF Items
  <2>2. n \in 0 .. Len(c.queue)
    BY <1>1, <2>1
  <2> QED
    BY <1>3, <2>2, Taken
<1> HIDE DEF x, y
<1>5. /\ IsClient(f) /\ f.queue = y /\ f.pending = c.pending - n /\ f.rbuf = c.rbuf
      /\ f.buf = c.buf /\ f.up = c.up /\ f.sent = c.sent /\ f.got = c.got \o x
      /\ f.alive = c.alive /\ f.client_closed = c.client_closed /\ f.socks_closed = c.socks_closed
      /\ f.sending = c.sending /\ f.receiving = c.receiving /\ f.cb = c.cb /\ f.end = c.end
      /\ f.socks_up = c.socks_up
  BY <1>3 DEF IsClient, Fields
<1> HIDE DEF f
<1>6. f.got = c.got \bullet x
  BY <1>5, Zenon DEF \bullet
<1>7. f.got \in Items /\ f.got \bullet f.queue = c.got \bullet c.queue
  <2>1. c.got \bullet x \in Items
    BY <1>3, <1>4, Cat
  <2>2. (c.got \bullet x) \bullet y = c.got \bullet (x \bullet y)
    BY <1>3, <1>4, Assoc
  <2> QED
    BY <1>4, <1>5, <1>6, <2>1, <2>2
<1>8. Flow(f, sks)
  <2>1. Len(f.queue) <= SndBuf
    BY <1>3, <1>4, <1>5, TunAssumption
  <2>2. Typed(f, sks)
    BY <1>4, <1>5, <1>7, <2>1 DEF Typed, Flow
  <2>3. /\ c.pending = Len(c.queue)
        /\ c.got \bullet c.queue \bullet c.rbuf \bullet sks.rcv = sks.sent
        /\ ~c.socks_closed => /\ sks.out \bullet c.buf \bullet c.up = c.sent
                              /\ c.end = "none" /\ "recv" \in c.cb
        /\ c.socks_closed => c.end \in {"server", "error"} /\ "recv" \notin c.cb
    BY <1>1 DEF Flow, Open
  <2>4. f.pending = Len(f.queue)
    BY <1>4, <1>5, <2>3
  <2>5. Open(f, sks)
    BY <1>5, <1>7, <2>3, <2>4 DEF Open
  <2>6. AppEnded(f, sks)
    BY <1>1, <1>5 DEF AppEnded, Flow
  <2>7. ServerEnded(f, sks)
    BY <1>1, <1>5, <1>7 DEF ServerEnded, Flow
  <2> QED
    BY <2>2, <2>5, <2>6, <2>7 DEF Flow
<1>9. /\ Flow(d, sks) /\ IsClient(d) /\ Alike(d, f)
      /\ d.alive = TRUE /\ d.client_closed = FALSE /\ d.socks_closed = c.socks_closed /\ d.rbuf = c.rbuf
  <2>1. Alike(d, f) /\ IsClient(d)
    BY <1>5, EnterAlike
  <2>2. Flow(d, sks)
    BY <1>8, <2>1, AlikeFlow
  <2> QED
    BY <1>3, <1>5, <2>1, <2>2 DEF Alike, Held
<1> HIDE DEF d
<1>10. ASSUME c.rbuf # <<>>, NEW m \in {0, Fits(d)}, NEW ok \in BOOLEAN,
              LET e == client_socks_recv_send_out(d, m, ok)
              IN  c' = IF e.client_closed THEN e ELSE Initiated([e EXCEPT !.sync = "recv"])
       PROVE  Flow(c', sks)
  <2> DEFINE e == client_socks_recv_send_out(d, m, ok)
             g == [e EXCEPT !.sync = "recv"]
  <2>0. d.socks_up
    BY <1>9, <1>10 DEF Flow, Typed
  <2>1. Flow(e, sks) /\ e.socks_up = d.socks_up
    BY <1>9, SendOutFlow
  <2>2. c' = e \/ c' = Initiated(g)
    BY <1>10
  <2> HIDE DEF e
  <2>3. IsClient(e)
    BY <2>1 DEF Flow, Typed
  <2>4. Alike(g, e)
    BY <2>3 DEF IsClient, Fields, Alike, Held
  <2> HIDE DEF g
  <2>5. Flow(g, sks)
    BY <2>1, <2>4, AlikeFlow
  <2>6. g.socks_up
    BY <2>0, <2>1, <2>4, Zenon DEF Alike, Held
  <2> QED
    BY <2>1, <2>2, <2>5, <2>6, InitiatedFlow
<1>11. ASSUME c.rbuf = <<>>, c.socks_closed, d.pending = 0,
              NEW ok \in BOOLEAN, c' = client_free_client(d, ok)
       PROVE  Flow(c', sks)
  <2>1. Freed(c', d)
    BY <1>9, <1>11, FreeClientFreed
  <2>2. Ended(c', d)
    BY <1>9, <1>11, <2>1 DEF Freed, Ended
  <2>3. d.queue \in Items /\ Typed(d, sks) /\ d.pending = Len(d.queue) /\ d.end \in {"server", "error"}
    BY <1>9, <1>11 DEF Flow, Typed, Open
  <2>4. d.queue = <<>> /\ d.rbuf = <<>>
    BY <1>9, <1>11, <2>3, EmptySeq DEF Items
  <2>5. c'.end # "app" /\ (c'.end = "server" => d.end = "server")
    BY <2>2, <2>3 DEF Ended
  <2>6. d.end = "server" => sks.fin /\ sks.rcv = <<>> /\ d.got \bullet d.queue \bullet d.rbuf = sks.sent
    BY <1>9 DEF Flow, ServerEnded
  <2> QED
    BY <2>2, <2>3, <2>4, <2>5, <2>6, EndedFlow
<1>12. Flow(c', sks)
  BY <1>2, <1>9, <1>10, <1>11
<1> QED
  BY <1>1, <1>12

\* client_err_func(): an error, whatever was on the way.
LEMMA ErrFlow ==
  ASSUME Flow(c, sks), Sound(c), client_err_func
  PROVE  Flow(c', sks')
<1> DEFINE d == [c EXCEPT !.pcb = "reset", !.queue = <<>>, !.cb = {}, !.end = "error"]
<1>1. c.alive /\ sks' = sks /\ c' = client_handle_freed_client(d)
  BY OpenPcb DEF client_err_func
<1>2. IsClient(c)
  BY DEF Flow, Typed
<1>3. /\ IsClient(d) /\ Held(d, c) /\ d.queue = <<>> /\ d.end = "error"
      /\ d.alive = c.alive /\ d.client_closed = c.client_closed /\ d.socks_closed = c.socks_closed
      /\ d.sending = c.sending /\ d.receiving = c.receiving
  BY <1>2 DEF IsClient, Fields, Held
<1> HIDE DEF d
<1>4. Freed(c', d) /\ c'.end = "error"
  BY <1>1, <1>3, HandleFreed
<1>5. d.queue \in Items /\ Len(d.queue) <= SndBuf
  BY <1>3, Cat, TunAssumption
<1>6. Typed(d, sks)
  BY <1>3, <1>5 DEF Typed, Held, Flow
<1>7. d.alive = TRUE
  BY <1>1, <1>3 DEF Typed, Flow
<1> QED
  BY <1>1, <1>4, <1>6, <1>7, FreedFlow

\* A callback returns, or the application ends its data.
LEMMA LeaveFlow ==
  ASSUME Flow(c, sks), Leave \/ AppEnd
  PROVE  Flow(c', sks')
<1>1. IsClient(c)
  BY DEF Flow, Typed
<1>2. Alike(c', c) /\ sks' = sks
  <2>1. CASE Leave
    BY <1>1, <2>1 DEF Leave, IsClient, Fields, Alike, Held
  <2>2. CASE AppEnd
    BY <1>1, <2>2 DEF AppEnd, IsClient, Fields, Alike, Held
  <2> QED
    BY <2>1, <2>2
<1> QED
  BY <1>2, AlikeFlow

\* A step of the handshake, and the server's end, which excuses it.
LEMMA HandshakeFlow ==
  ASSUME Flow(c, sks), Connected \/ SentControl \/ ReceivedControl \/ ServerEnd
  PROVE  Flow(c', sks')
<1>1. sks \in SksRecord
  BY DEF Flow, Typed
<1>2. c' = c /\ \/ \E st \in SocksState : sks' = [sks EXCEPT !.state = st]
                \/ sks' = [sks EXCEPT !.fin = TRUE]
  BY DEF Connected, SentControl, ReceivedControl, Handshake, SocksState, ServerEnd
<1>3. /\ sks' \in SksRecord /\ sks'.out = sks.out /\ sks'.rcv = sks.rcv /\ sks'.sent = sks.sent
      /\ sks'.fin = sks.fin \/ sks'.fin = TRUE
  BY <1>1, <1>2 DEF SksRecord
<1>4. Typed(c, sks')
  BY <1>3 DEF Flow, Typed
<1>5. Open(c, sks')
  BY <1>3 DEF Flow, Open
<1>6. AppEnded(c, sks') /\ ServerEnded(c, sks')
  BY <1>3 DEF Flow, AppEnded, ServerEnded
<1> QED
  BY <1>2, <1>4, <1>5, <1>6 DEF Flow

\* BSOCKSCLIENT_EVENT_UP: what was buffered is to be sent.
LEMMA UpFlow ==
  ASSUME Flow(c, sks), Up
  PROVE  Flow(c', sks')
<1> DEFINE q == IF c.client_closed THEN c.cb ELSE c.cb \cup {"sent"}
           d == [c EXCEPT !.socks_up = TRUE, !.sending = Len(c.buf),
                          !.cb = IF c.client_closed THEN @ ELSE @ \cup {"sent"}]
<1>1. c' = Initiated(d) /\ sks' = [sks EXCEPT !.state = "up"]
  BY DEF Up
<1>2. IsClient(c) /\ sks \in SksRecord /\ c.buf \in Items
  BY DEF Flow, Typed
<1>3. /\ IsClient(d) /\ d.socks_up = TRUE
      /\ d.buf = c.buf /\ d.up = c.up /\ d.sent = c.sent /\ d.got = c.got /\ d.rbuf = c.rbuf
      /\ d.alive = c.alive /\ d.client_closed = c.client_closed
      /\ d.socks_closed = c.socks_closed /\ d.sending = Len(c.buf) /\ d.receiving = c.receiving
      /\ d.cb = q /\ d.queue = c.queue /\ d.pending = c.pending /\ d.end = c.end
  BY <1>2 DEF IsClient, Fields
<1>4. /\ sks' \in SksRecord /\ sks'.out = sks.out /\ sks'.rcv = sks.rcv /\ sks'.sent = sks.sent
      /\ sks'.fin = sks.fin
  BY <1>1, <1>2 DEF SksRecord, SocksState
<1>5. "recv" \in q <=> "recv" \in c.cb
  OBVIOUS
<1> HIDE DEF d, q
<1>6. Len(c.buf) \in Nat
  BY <1>2, LenProperties DEF Items
<1>7. d.socks_up
  BY <1>3, Zenon
<1>8. Typed(d, sks')
  <2>1. /\ d.buf \in Items /\ d.up \in Items /\ d.sent \in Items
        /\ d.got \in Items /\ d.queue \in Items /\ d.rbuf \in Items
        /\ d.alive \in BOOLEAN /\ d.client_closed \in BOOLEAN /\ d.socks_closed \in BOOLEAN
        /\ Len(d.queue) <= SndBuf /\ (d.receiving => d.rbuf = <<>>)
    BY <1>3, Zenon DEF Typed, Flow
  <2>2. d.sending \in Nat /\ d.sending <= Len(d.buf)
    BY <1>3, <1>6
  <2> QED
    BY <1>3, <1>4, <1>7, <2>1, <2>2, Zenon DEF Typed
<1>9. Open(d, sks')
  BY <1>3, <1>4, <1>5 DEF Open, Flow
<1>10. AppEnded(d, sks') /\ ServerEnded(d, sks')
  BY <1>3, <1>4 DEF AppEnded, ServerEnded, Flow
<1>11. Flow(d, sks')
  BY <1>8, <1>9, <1>10 DEF Flow
<1> QED
  BY <1>1, <1>11, <1>7, InitiatedFlow

\* The connection to ss-local ended: by an error, or by the server's end after all its data.
LEMMA SocksErrorFlow ==
  ASSUME Flow(c, sks), Sound(c), SocksError \/ SocksClosed
  PROVE  Flow(c', sks')
<1>1. PICK w \in {"error", "server", c.end}, ok \in BOOLEAN :
        /\ c' = client_free_socks([c EXCEPT !.end = w], ok) /\ sks' = sks /\ c.alive /\ ~c.socks_closed
        /\ \/ w = "error"
           \/ /\ sks.rcv = <<>> /\ sks.fin /\ c.receiving
              /\ w = IF c.end = "none" THEN "server" ELSE c.end
  BY DEF SocksError, SocksClosed, SocksRuns
<1> DEFINE d == [c EXCEPT !.end = w]
           e == client_free_socks(d, ok)
<1>2. IsClient(c)
  BY DEF Flow, Typed
<1>3. /\ IsClient(d) /\ Held(d, c) /\ d.alive = c.alive /\ d.client_closed = c.client_closed
      /\ d.socks_closed = c.socks_closed /\ d.sending = c.sending /\ d.receiving = c.receiving
      /\ d.queue = c.queue /\ d.pending = c.pending /\ d.end = w /\ d.socks_up = c.socks_up
  BY <1>2 DEF IsClient, Fields, Held
<1> HIDE DEF d
<1>4. d.client_closed \in BOOLEAN /\ Typed(d, sks)
  BY <1>3 DEF Flow, Typed, Held
<1>5. \/ d.client_closed /\ Ended(e, d) /\ e.end = d.end
      \/ ~d.client_closed /\ Waits(e, d)
      \/ /\ ~d.client_closed /\ (d.socks_up => d.rbuf = <<>> /\ ~(d.pending > 0))
         /\ Ended(e, d)
  BY <1>3, <1>4, FreeSocksIs
<1>6. c' = e
  BY <1>1 DEF d
<1> HIDE DEF e
<1>7. CASE d.client_closed /\ Ended(e, d) /\ e.end = d.end
  <2>1. c.end \in {"app", "error"}
    BY <1>1, <1>3, <1>7 DEF Flow, AppEnded
  <2>2. w # "server" /\ (w = "app" => sks.fin)
    BY <1>1, <2>1
  <2> QED
    BY <1>1, <1>3, <1>4, <1>6, <1>7, <2>2, EndedFlow
<1>8. ASSUME ~d.client_closed
      PROVE  /\ w \in {"error", "server"}
             /\ c.got \bullet c.queue \bullet c.rbuf \bullet sks.rcv = sks.sent
             /\ c.pending = Len(c.queue)
             /\ w = "server" => /\ sks.rcv = <<>> /\ sks.fin
                                /\ c.got \bullet c.queue \bullet c.rbuf = sks.sent
  <2>1. /\ c.end = "none" /\ c.pending = Len(c.queue)
        /\ c.got \bullet c.queue \bullet c.rbuf \bullet sks.rcv = sks.sent
    BY <1>1, <1>3, <1>8 DEF Flow, Open
  <2>2. c.got \in Items /\ c.queue \in Items /\ c.rbuf \in Items
    BY DEF Flow, Typed
  <2>3. c.got \bullet c.queue \bullet c.rbuf \bullet <<>> = c.got \bullet c.queue \bullet c.rbuf
    BY <2>2, Cat
  <2> QED
    BY <1>1, <2>1, <2>3
<1>9. CASE ~d.client_closed /\ Waits(e, d)
  <2>1. Typed(e, sks)
    <3>1. ~e.receiving
      BY <1>9, Zenon DEF Waits
    <3>2. e.sending \in Nat /\ e.sending <= Len(e.buf)
      <4>1. e.buf \in Items /\ e.sending = 0
        BY <1>4, <1>9 DEF Waits, Held, Typed
      <4> QED
        BY <4>1, LenProperties DEF Items
    <3> QED
      BY <1>4, <1>9, <3>1, <3>2 DEF Typed, Waits, Held
  <2>2. e.end = w /\ w \in {"error", "server"}
    BY <1>3, <1>8, <1>9 DEF Waits
  <2>3. Open(e, sks)
    <3>1. e.got = c.got /\ e.queue = c.queue /\ e.rbuf = c.rbuf /\ e.pending = c.pending
      BY <1>3, <1>9 DEF Waits, Held
    <3>2. e.socks_closed = TRUE /\ "recv" \notin e.cb
      BY <1>9 DEF Waits
    <3> QED
      BY <1>8, <1>9, <2>2, <3>1, <3>2 DEF Open
  <2>4. AppEnded(e, sks)
    BY <1>3, <1>9, <2>2 DEF AppEnded, Waits
  <2>5. ServerEnded(e, sks)
    BY <1>1, <1>3, <1>8, <1>9, <2>2 DEF ServerEnded, Waits, Held
  <2> QED
    BY <1>1, <1>6, <2>1, <2>3, <2>4, <2>5 DEF Flow
<1>10. CASE /\ ~d.client_closed /\ (d.socks_up => d.rbuf = <<>> /\ ~(d.pending > 0))
            /\ Ended(e, d)
  <2>1. e.end # "app"
    BY <1>3, <1>8, <1>10 DEF Ended
  <2>2. ASSUME e.end = "server"
        PROVE  /\ sks.fin /\ sks.rcv = <<>> /\ d.queue = <<>> /\ d.rbuf = <<>>
               /\ d.got \bullet d.queue \bullet d.rbuf = sks.sent
    <3>1. w = "server"
      BY <1>3, <1>10, <2>2 DEF Ended
    <3>2. c.receiving
      BY <1>1, <3>1
    <3>3. d.socks_up
      BY <1>3, <3>2 DEF Flow, Typed
    <3>4. d.rbuf = <<>> /\ ~(d.pending > 0) /\ d.pending = Len(d.queue) /\ d.queue \in Items
      BY <1>3, <1>4, <1>8, <1>10, <3>3 DEF Typed
    <3>5. d.queue = <<>>
      BY <3>4, LenProperties, EmptySeq DEF Items
    <3> QED
      BY <1>3, <1>8, <1>10, <3>1, <3>4, <3>5 DEF Held
  <2> QED
    BY <1>1, <1>4, <1>6, <1>10, <2>1, <2>2, EndedFlow
<1> QED
  BY <1>5, <1>7, <1>9, <1>10

\* client_socks_send_handler_done(): what was written leaves the buffer; the last of it
\* frees a client whose application has ended.
LEMMA SentDoneFlow ==
  ASSUME Flow(c, sks), NEW n, client_socks_send_handler_done(n)
  PROVE  Flow(c', sks')
<1> DEFINE x == SubSeq(c.buf, 1, n)
           y == SubSeq(c.buf, n + 1, Len(c.buf))
           d == [c EXCEPT !.buf = y, !.sending = Len(c.buf) - n,
                          !.wnd = IF c.client_closed THEN @ ELSE @ + n]
<1>1. /\ c.alive /\ ~c.socks_closed /\ n \in 1 .. c.sending
      /\ sks' = [sks EXCEPT !.out = @ \o x]
      /\ c' = IF d.buf = <<>> /\ c.client_closed THEN client_free_socks(d, TRUE) ELSE d
  BY DEF client_socks_send_handler_done, SocksRuns
<1>2. /\ IsClient(c) /\ sks \in SksRecord /\ c.buf \in Items /\ c.up \in Items /\ sks.out \in Items
      /\ c.sending \in Nat /\ c.sending <= Len(c.buf) /\ c.client_closed \in BOOLEAN
  BY DEF Flow, Typed, SksRecord
<1>3. /\ x \in Items /\ y \in Items /\ x \bullet y = c.buf /\ Len(y) = Len(c.buf) - n
      /\ Len(c.buf) - n \in Nat
  <2>1. Len(c.buf) \in Nat
    BY <1>2, LenProperties DEF Items
  <2>2. n \in 0 .. Len(c.buf)
    BY <1>1, <1>2, <2>1
  <2> QED
    BY <1>2, <2>1, <2>2, Taken
<1> HIDE DEF x, y
<1>4. /\ IsClient(d) /\ d.queue = c.queue /\ d.pending = c.pending /\ d.rbuf = c.rbuf
      /\ d.buf = y /\ d.up = c.up /\ d.sent = c.sent /\ d.got = c.got
      /\ d.alive = c.alive /\ d.client_closed = c.client_closed /\ d.socks_closed = c.socks_closed
      /\ d.sending = Len(c.buf) - n /\ d.receiving = c.receiving /\ d.cb = c.cb /\ d.end = c.end
      /\ d.socks_up = c.socks_up
  BY <1>2 DEF IsClient, Fields
<1> HIDE DEF d
<1>5. sks.out \o x = sks.out \bullet x
  BY Zenon DEF \bullet
<1>6. sks.out \bullet x \in Items
  BY <1>2, <1>3, Cat
<1>7. /\ sks' \in SksRecord /\ sks'.out = sks.out \bullet x /\ sks'.rcv = sks.rcv
      /\ sks'.sent = sks.sent /\ sks'.fin = sks.fin
  <2> DEFINE w == sks.out \bullet x
  <2>1. sks' = [sks EXCEPT !.out = w] /\ w \in Items
    BY <1>1, <1>5, <1>6
  <2> HIDE DEF w
  <2>2. /\ sks' \in SksRecord /\ sks'.out = w /\ sks'.rcv = sks.rcv
        /\ sks'.sent = sks.sent /\ sks'.fin = sks.fin
    BY <1>2, <2>1 DEF SksRecord
  <2> QED
    BY <2>2 DEF w
<1>8. sks'.out \bullet d.buf = sks.out \bullet c.buf
  <2>1. (sks.out \bullet x) \bullet y = sks.out \bullet (x \bullet y)
    BY <1>2, <1>3, Assoc
  <2> QED
    BY <1>3, <1>4, <1>7, <2>1
<1>9. Typed(d, sks')
  <2>1. /\ d.buf \in Items /\ d.up \in Items /\ d.sent \in Items
        /\ d.got \in Items /\ d.queue \in Items /\ d.rbuf \in Items
        /\ d.alive \in BOOLEAN /\ d.client_closed \in BOOLEAN /\ d.socks_closed \in BOOLEAN
        /\ Len(d.queue) <= SndBuf /\ (d.receiving => d.rbuf = <<>> /\ d.socks_up)
        /\ d.rbuf # <<>> => d.socks_up
    BY <1>3, <1>4, Zenon DEF Typed, Flow
  <2>2. d.sending \in Nat /\ d.sending <= Len(d.buf)
    BY <1>3, <1>4
  <2> QED
    BY <1>4, <1>7, <2>1, <2>2, Zenon DEF Typed
<1>10. CASE ~(d.buf = <<>> /\ c.client_closed)
  <2>1. c' = d
    BY <1>1, <1>10
  <2>2. Open(d, sks')
    BY <1>4, <1>7, <1>8 DEF Open, Flow
  <2>3. AppEnded(d, sks')
    BY <1>1, <1>4, <1>7, <1>8 DEF AppEnded, Flow
  <2>4. ServerEnded(d, sks')
    BY <1>1, <1>4, <1>7 DEF ServerEnded, Flow
  <2> QED
    BY <1>9, <2>1, <2>2, <2>3, <2>4 DEF Flow
<1>11. CASE d.buf = <<>> /\ c.client_closed
  <2> DEFINE e == client_free_socks(d, TRUE)
  <2>1. c' = e
    BY <1>1, <1>11
  <2>2. d.client_closed \in BOOLEAN /\ d.client_closed
    BY <1>2, <1>4, <1>11
  <2>3. Ended(e, d) /\ e.end = d.end
    BY <1>4, <2>2, FreeSocksIs
  <2> HIDE DEF e
  <2>4. e.end \in {"app", "error"} /\ (e.end = "app" /\ ~sks.fin => sks.out \bullet c.buf = c.sent)
    BY <1>1, <1>4, <1>11, <2>3 DEF AppEnded, Flow
  <2>5. e.end = "app" /\ ~sks'.fin => sks'.out \bullet d.buf = d.sent /\ d.buf = <<>>
    BY <1>4, <1>7, <1>8, <1>11, <2>4
  <2>6. Flow(e, sks')
    BY <1>9, <2>3, <2>4, <2>5, EndedFlow
  <2> QED
    BY <2>1, <2>6
<1> QED
  BY <1>10, <1>11

\* client_socks_recv_handler_done(): what was read goes to the empty buffer and from there
\* to lwIP; if the application's side is closed it is not wanted.
LEMMA RecvDoneFlow ==
  ASSUME Flow(c, sks), NEW n, client_socks_recv_handler_done(n)
  PROVE  Flow(c', sks')
<1> DEFINE x == SubSeq(sks.rcv, 1, n)
           y == SubSeq(sks.rcv, n + 1, Len(sks.rcv))
           d == [c EXCEPT !.receiving = FALSE, !.rbuf = x]
           f == [c EXCEPT !.receiving = FALSE]
<1>1. /\ c.alive /\ ~c.socks_closed /\ c.receiving /\ n \in 1 .. Len(sks.rcv)
      /\ sks' = [sks EXCEPT !.rcv = y]
      /\ \/ c.client_closed /\ c' = f
         \/ /\ ~c.client_closed
            /\ \E m \in {0, Fits(d)}, ok \in BOOLEAN :
                 LET e == client_socks_recv_send_out(d, m, ok)
                 IN  c' = IF e.client_closed THEN e ELSE Initiated(e)
  BY DEF client_socks_recv_handler_done, SocksRuns
<1>2. /\ IsClient(c) /\ sks \in SksRecord /\ sks.rcv \in Items /\ c.got \in Items /\ c.queue \in Items
      /\ c.rbuf = <<>> /\ c.socks_up /\ c.alive = TRUE /\ c.client_closed \in BOOLEAN
  BY <1>1 DEF Flow, Typed, SksRecord
<1>3. x \in Items /\ y \in Items /\ x \bullet y = sks.rcv
  <2>1. Len(sks.rcv) \in Nat
    BY <1>2, LenProperties DEF Items
  <2>2. n \in 0 .. Len(sks.rcv)
    BY <1>1, <2>1
  <2> QED
    BY <1>2, <2>2, Taken
<1> HIDE DEF x, y
<1>4. /\ sks' \in SksRecord /\ sks'.rcv = y /\ sks'.out = sks.out /\ sks'.sent = sks.sent
      /\ sks'.fin = sks.fin
  BY <1>1, <1>2, <1>3 DEF SksRecord
<1>5. c.end # "server"
  BY <1>1 DEF Flow, ServerEnded
<1>6. CASE c.client_closed /\ c' = f
  <2>1. /\ IsClient(f) /\ Held(f, c) /\ f.alive = c.alive /\ f.client_closed = c.client_closed
        /\ f.socks_closed = c.socks_closed /\ f.sending = c.sending /\ f.receiving = FALSE
        /\ f.queue = c.queue /\ f.end = c.end
    BY <1>2 DEF IsClient, Fields, Held
  <2> HIDE DEF f
  <2>2. ~f.receiving
    BY <2>1, Zenon
  <2>3. Typed(f, sks')
    BY <1>4, <2>1, <2>2 DEF Typed, Flow, Held
  <2>4. Open(f, sks') /\ AppEnded(f, sks') /\ ServerEnded(f, sks')
    BY <1>4, <1>5, <1>6, <2>1 DEF Open, AppEnded, ServerEnded, Flow, Held
  <2> QED
    BY <1>6, <2>3, <2>4 DEF Flow
<1>7. CASE /\ ~c.client_closed
           /\ \E m \in {0, Fits(d)}, ok \in BOOLEAN :
                LET e == client_socks_recv_send_out(d, m, ok)
                IN  c' = IF e.client_closed THEN e ELSE Initiated(e)
  <2>1. /\ IsClient(d) /\ d.queue = c.queue /\ d.pending = c.pending /\ d.rbuf = x
        /\ d.buf = c.buf /\ d.up = c.up /\ d.sent = c.sent /\ d.got = c.got
        /\ d.alive = c.alive /\ d.client_closed = c.client_closed /\ d.socks_closed = c.socks_closed
        /\ d.sending = c.sending /\ d.receiving = FALSE /\ d.cb = c.cb /\ d.end = c.end
        /\ d.socks_up = c.socks_up
    BY <1>2 DEF IsClient, Fields
  <2> HIDE DEF d
  <2>2. ~d.receiving /\ d.socks_up
    BY <1>2, <2>1, Zenon
  <2>3. Typed(d, sks')
    BY <1>3, <1>4, <2>1, <2>2 DEF Typed, Flow
  <2>4. (c.got \bullet c.queue) \bullet x \bullet y = c.got \bullet c.queue \bullet c.rbuf \bullet sks.rcv
    <3>1. c.got \bullet c.queue \in Items
      BY <1>2, Cat
    <3>2. (c.got \bullet c.queue) \bullet <<>> = c.got \bullet c.queue
      BY <3>1, Cat
    <3>3. ((c.got \bullet c.queue) \bullet x) \bullet y = (c.got \bullet c.queue) \bullet (x \bullet y)
      BY <1>3, <3>1, Assoc
    <3> QED
      BY <1>2, <1>3, <3>2, <3>3
  <2>5. Open(d, sks')
    BY <1>4, <2>1, <2>4 DEF Open, Flow
  <2>6. AppEnded(d, sks') /\ ServerEnded(d, sks')
    BY <1>4, <1>5, <2>1 DEF AppEnded, ServerEnded, Flow
  <2>7. Flow(d, sks')
    BY <2>3, <2>5, <2>6 DEF Flow
  <2>8. d.alive = TRUE /\ d.client_closed = FALSE
    BY <1>2, <1>7, <2>1
  <2>9. PICK m \in {0, Fits(d)}, ok \in BOOLEAN :
          LET e == client_socks_recv_send_out(d, m, ok)
          IN  c' = IF e.client_closed THEN e ELSE Initiated(e)
    BY <1>7
  <2> DEFINE e == client_socks_recv_send_out(d, m, ok)
  <2>10. Flow(e, sks') /\ e.socks_up = d.socks_up
    BY <2>7, <2>8, SendOutFlow
  <2>11. c' = e \/ c' = Initiated(e)
    BY <2>9
  <2> HIDE DEF e
  <2>12. e.socks_up
    BY <2>2, <2>10, Zenon
  <2> QED
    BY <2>10, <2>11, <2>12, InitiatedFlow
<1> QED
  BY <1>1, <1>6, <1>7

\* client_murder(): tun2socks terminates, and nothing is said of the data.
LEMMA MurderFlow ==
  ASSUME Flow(c, sks), client_murder
  PROVE  Flow(c', sks')
<1> DEFINE f == [c EXCEPT !.cb = {}]
           d == IF c.client_closed THEN c ELSE client_abort_pcb(f)
           g == [d EXCEPT !.client_closed = TRUE, !.socks_closed = TRUE,
                          !.sending = 0, !.receiving = FALSE, !.end = "error"]
<1>1. c' = client_dealloc(g) /\ sks' = sks
  BY DEF client_murder
<1>2. IsClient(c) /\ Typed(c, sks)
  BY DEF Flow, Typed
<1>3. IsClient(f) /\ Held(f, c)
  BY <1>2 DEF IsClient, Fields, Held
<1>4. IsClient(d) /\ Held(d, c) /\ (d.queue = c.queue \/ d.queue = <<>>)
  <2> HIDE DEF f
  <2>1. CASE c.client_closed
    BY <1>2, <2>1 DEF Held
  <2>2. CASE ~c.client_closed
    BY <1>3, <2>2, AbortPcbHeld DEF Held
  <2> QED
    BY <2>1, <2>2
<1> HIDE DEF d
<1>5. /\ IsClient(g) /\ Held(g, d) /\ g.client_closed = TRUE /\ g.socks_closed = TRUE
      /\ g.sending = 0 /\ g.receiving = FALSE /\ g.end = "error" /\ g.queue = d.queue
  BY <1>4 DEF IsClient, Fields, Held
<1> HIDE DEF g
<1>6. /\ Held(c', g) /\ c'.alive = FALSE /\ c'.client_closed = g.client_closed
      /\ c'.socks_closed = g.socks_closed /\ c'.queue = g.queue /\ c'.end = g.end
      /\ c'.sending = g.sending /\ c'.receiving = g.receiving
  BY <1>1, <1>5, DeallocHeld
<1>7. Ended(c', c) /\ c'.end = "error"
  BY <1>4, <1>5, <1>6 DEF Ended, Held
<1> QED
  BY <1>1, <1>2, <1>7, EndedFlow

\* lwIP sends the queue of a client that is closed or freed: not one that the server ended.
LEMMA AfterCloseFlow ==
  ASSUME Flow(c, sks), Sound(c), SentAfterClose
  PROVE  Flow(c', sks')
<1> DEFINE q == Tail(c.queue)
           g == Append(c.got, Head(c.queue))
<1>1. c.pcb = "closed" /\ c.queue # <<>> /\ sks' = sks /\ c' = [c EXCEPT !.queue = q, !.got = g]
  BY DEF SentAfterClose
<1>2. ~(c.alive /\ ~c.client_closed) /\ c.end # "server"
  BY <1>1, OpenPcb DEF Flow, AppEnded, ServerEnded
<1>3. IsClient(c) /\ c.queue \in Items /\ c.got \in Items /\ Len(c.queue) <= SndBuf
  BY DEF Flow, Typed
<1>4. q \in Items /\ g \in Items /\ Len(q) <= SndBuf
  <2>1. Head(c.queue) \in Item /\ q \in Items /\ Len(q) = Len(c.queue) - 1 /\ Len(c.queue) \in Nat
    BY <1>1, <1>3, HeadTailProperties, LenProperties DEF Items
  <2>2. g \in Items
    BY <1>3, <2>1, AppendProperties DEF Items
  <2> QED
    BY <1>3, <2>1, <2>2, TunAssumption
<1> HIDE DEF q, g
<1>5. /\ IsClient(c') /\ c'.queue = q /\ c'.got = g
      /\ c'.rbuf = c.rbuf /\ c'.buf = c.buf /\ c'.up = c.up /\ c'.sent = c.sent
      /\ c'.alive = c.alive /\ c'.client_closed = c.client_closed /\ c'.socks_closed = c.socks_closed
      /\ c'.sending = c.sending /\ c'.receiving = c.receiving /\ c'.end = c.end
      /\ c'.socks_up = c.socks_up
  BY <1>1, <1>3 DEF IsClient, Fields
<1>6. Typed(c', sks)
  BY <1>4, <1>5 DEF Typed, Flow
<1>7. Open(c', sks) /\ AppEnded(c', sks) /\ ServerEnded(c', sks)
  BY <1>2, <1>5 DEF Open, AppEnded, ServerEnded, Flow
<1> QED
  BY <1>1, <1>6, <1>7 DEF Flow

\* The application sends one item more.
LEMMA AppSendFlow ==
  ASSUME Flow(c, sks), Sound(c), AppSend
  PROVE  Flow(c', sks')
<1> DEFINE item == Upload[Len(c.sent) + 1]
           s == Append(c.sent, item)
           u == Append(c.up, item)
<1>1. /\ c.alive /\ ~c.client_closed /\ sks' = sks /\ Len(c.sent) < Len(Upload)
      /\ c' = [c EXCEPT !.sent = s, !.up = u]
  BY OpenPcb DEF AppSend
<1>2. IsClient(c) /\ c.sent \in Items /\ c.up \in Items /\ c.buf \in Items /\ sks.out \in Items
  BY DEF Flow, Typed, SksRecord
<1>3. item \in Item
  <2>1. Upload \in Items /\ Len(Upload) \in Nat /\ Len(c.sent) \in Nat
    BY <1>2, TunAssumption, LenProperties DEF Items, Item
  <2>2. Len(c.sent) + 1 \in 1 .. Len(Upload)
    BY <1>1, <2>1
  <2> QED
    BY <2>1, <2>2, ElementOfSeq DEF Items
<1> HIDE DEF item
<1>4. s = c.sent \bullet <<item>> /\ u = c.up \bullet <<item>> /\ <<item>> \in Items
  BY <1>2, <1>3, Appended
<1>5. s \in Items /\ u \in Items
  BY <1>2, <1>3, Appended
<1> HIDE DEF s, u
<1>6. /\ IsClient(c') /\ c'.sent = s /\ c'.up = u /\ c'.got = c.got
      /\ c'.rbuf = c.rbuf /\ c'.buf = c.buf /\ c'.queue = c.queue /\ c'.pending = c.pending
      /\ c'.alive = c.alive /\ c'.client_closed = c.client_closed /\ c'.socks_closed = c.socks_closed
      /\ c'.sending = c.sending /\ c'.receiving = c.receiving /\ c'.end = c.end /\ c'.cb = c.cb
      /\ c'.socks_up = c.socks_up
  BY <1>1, <1>2 DEF IsClient, Fields
<1>7. Typed(c', sks)
  BY <1>5, <1>6 DEF Typed, Flow
<1>8. sks.out \bullet c.buf \bullet c.up = c.sent => sks.out \bullet c.buf \bullet u = s
  <2>1. sks.out \bullet c.buf \in Items
    BY <1>2, Cat
  <2>2. (sks.out \bullet c.buf) \bullet (c.up \bullet <<item>>) = ((sks.out \bullet c.buf) \bullet c.up) \bullet <<item>>
    BY <1>2, <1>4, <2>1, Assoc
  <2> QED
    BY <1>4, <2>2
<1>9. Open(c', sks)
  BY <1>6, <1>8 DEF Open, Flow
<1>10. AppEnded(c', sks) /\ ServerEnded(c', sks)
  BY <1>1, <1>6 DEF AppEnded, ServerEnded, Flow
<1> QED
  BY <1>1, <1>7, <1>9, <1>10 DEF Flow

\* The server sends one item more.
LEMMA ServerSendFlow ==
  ASSUME Flow(c, sks), ServerSend
  PROVE  Flow(c', sks')
<1> DEFINE item == Download[Len(sks.sent) + 1]
           s == Append(sks.sent, item)
           r == Append(sks.rcv, item)
<1>1. /\ c' = c /\ ~sks.fin /\ Len(sks.sent) < Len(Download)
      /\ sks' = [sks EXCEPT !.sent = s, !.rcv = r]
  BY DEF ServerSend
<1>2. /\ sks \in SksRecord /\ sks.sent \in Items /\ sks.rcv \in Items
      /\ c.got \in Items /\ c.queue \in Items /\ c.rbuf \in Items
  BY DEF Flow, Typed, SksRecord
<1>3. item \in Item
  <2>1. Download \in Items /\ Len(Download) \in Nat /\ Len(sks.sent) \in Nat
    BY <1>2, TunAssumption, LenProperties DEF Items, Item
  <2>2. Len(sks.sent) + 1 \in 1 .. Len(Download)
    BY <1>1, <2>1
  <2> QED
    BY <2>1, <2>2, ElementOfSeq DEF Items
<1> HIDE DEF item
<1>4. s = sks.sent \bullet <<item>> /\ r = sks.rcv \bullet <<item>> /\ <<item>> \in Items
  BY <1>2, <1>3, Appended
<1>5. s \in Items /\ r \in Items
  BY <1>2, <1>3, Appended
<1> HIDE DEF s, r
<1>6. /\ sks' \in SksRecord /\ sks'.rcv = r /\ sks'.out = sks.out /\ sks'.sent = s
      /\ sks'.fin = sks.fin
  BY <1>1, <1>2, <1>5 DEF SksRecord
<1>7. Typed(c, sks')
  BY <1>6 DEF Typed, Flow
<1>8. c.got \bullet c.queue \bullet c.rbuf \bullet sks.rcv = sks.sent => c.got \bullet c.queue \bullet c.rbuf \bullet r = s
  <2> DEFINE q == c.got \bullet c.queue \bullet c.rbuf
  <2>1. q \in Items
    BY <1>2, Cat
  <2> HIDE DEF q
  <2>2. q \bullet (sks.rcv \bullet <<item>>) = (q \bullet sks.rcv) \bullet <<item>>
    BY <1>2, <1>4, <2>1, Assoc
  <2>3. q \bullet sks.rcv = sks.sent => q \bullet r = s
    BY <1>4, <2>2
  <2> QED
    BY <2>3 DEF q
<1>9. Open(c, sks')
  BY <1>6, <1>8 DEF Open, Flow
<1>10. AppEnded(c, sks') /\ ServerEnded(c, sks')
  BY <1>1, <1>6 DEF AppEnded, ServerEnded, Flow
<1> QED
  BY <1>1, <1>7, <1>9, <1>10 DEF Flow

\* Nothing is open and nothing was sent.
LEMMA FlowInit == TunInit => Flow(c, sks)
<1> SUFFICES ASSUME TunInit PROVE Flow(c, sks)
  OBVIOUS
<1>1. c = NoClient
  BY DEF TunInit
<1>2. /\ c.alive = FALSE /\ c.client_closed = FALSE /\ c.socks_closed = FALSE /\ c.buf = <<>>
      /\ c.sending = 0 /\ c.rbuf = <<>> /\ c.receiving = FALSE
      /\ c.up = <<>> /\ c.sent = <<>> /\ c.queue = <<>> /\ c.got = <<>> /\ c.end = "none"
  BY <1>1 DEF NoClient
<1>3. IsClient(c)
  BY <1>1 DEF NoClient, IsClient, Fields
<1>4. <<>> \in Items /\ Len(<<>>) = 0 /\ SndBuf \in Nat
  BY Cat, TunAssumption
<1>5. sks \in SksRecord
  BY <1>4 DEF TunInit, SksRecord, SocksState
<1>6. Typed(c, sks)
  <2>1. ~c.receiving /\ ~(c.rbuf # <<>>)
    BY <1>2, Zenon
  <2>2. c.alive \in BOOLEAN /\ c.client_closed \in BOOLEAN /\ c.socks_closed \in BOOLEAN
    BY <1>2
  <2>3. /\ c.buf \in Items /\ c.up \in Items /\ c.sent \in Items
        /\ c.got \in Items /\ c.queue \in Items /\ c.rbuf \in Items
    BY <1>2, <1>4, Zenon
  <2>4. Len(c.buf) = 0 /\ Len(c.queue) = 0
    BY <1>2, <1>4, Zenon
  <2>5. c.sending \in Nat /\ c.sending <= Len(c.buf) /\ Len(c.queue) <= SndBuf
    BY <1>2, <1>4, <2>4
  <2> QED
    BY <1>3, <1>5, <2>1, <2>2, <2>3, <2>5, Zenon DEF Typed
<1>7. Open(c, sks) /\ AppEnded(c, sks) /\ ServerEnded(c, sks)
  BY <1>2 DEF Open, AppEnded, ServerEnded
<1> QED
  BY <1>6, <1>7 DEF Flow

\* Every action keeps both streams.
LEMMA FlowNext == TunInv /\ Flow(c, sks) /\ [TunNext]_tunVars => Flow(c, sks)'
<1> SUFFICES ASSUME TunInv, Flow(c, sks), [TunNext]_tunVars PROVE Flow(c', sks')
  OBVIOUS
<1>1. Sound(c)
  BY DEF TunInv
<1>2. CASE listener_accept_func
  BY <1>2, AcceptFlow
<1>3. CASE Recv
  BY <1>1, <1>3, RecvFlow DEF Recv
<1>4. CASE client_recv_func_end
  BY <1>1, <1>4, RecvEndFlow
<1>5. CASE Acked
  BY <1>1, <1>5, SentFlow DEF Acked
<1>6. CASE client_err_func
  BY <1>1, <1>6, ErrFlow
<1>7. CASE Leave \/ AppEnd
  BY <1>7, LeaveFlow
<1>8. CASE Connected \/ SentControl \/ ReceivedControl \/ ServerEnd
  BY <1>8, HandshakeFlow
<1>9. CASE Up
  BY <1>9, UpFlow
<1>10. CASE SocksError \/ SocksClosed
  BY <1>1, <1>10, SocksErrorFlow
<1>11. CASE SocksWrote
  BY <1>11, SentDoneFlow DEF SocksWrote
<1>12. CASE SocksRead
  BY <1>12, RecvDoneFlow DEF SocksRead
<1>13. CASE client_murder
  BY <1>13, MurderFlow
<1>14. CASE SentAfterClose
  BY <1>1, <1>14, AfterCloseFlow
<1>15. CASE AppSend
  BY <1>1, <1>15, AppSendFlow
<1>16. CASE ServerSend
  BY <1>16, ServerSendFlow
<1>17. CASE UNCHANGED tunVars
  BY <1>17 DEF tunVars
<1> QED
  BY <1>2, <1>3, <1>4, <1>5, <1>6, <1>7, <1>8, <1>9, <1>10, <1>11, <1>12, <1>13, <1>14, <1>15,
     <1>16, <1>17 DEF TunNext

\* For data and buffers of any size, no callback of lwIP or of BSocksClient loses, repeats
\* or reorders an item, and the side that ends a connection has its data delivered.
THEOREM TunStreams == TunSpec => []BothStreams
<1>1. Flow(c, sks) => BothStreams
  <2> SUFFICES ASSUME Flow(c, sks) PROVE BothStreams
    OBVIOUS
  <2>1. /\ sks.out \in Items /\ c.got \in Items /\ c.queue \in Items /\ c.rbuf \in Items
    BY DEF Flow, Typed, SksRecord
  <2>2. c.alive /\ ~c.client_closed /\ ~c.socks_closed =>
          /\ sks.out \bullet c.buf \bullet c.up = c.sent
          /\ c.got \bullet c.queue \bullet c.rbuf \bullet sks.rcv = sks.sent
    BY DEF Flow, Open
  <2>3. ~c.alive /\ c.end = "app" /\ ~sks.fin => sks.out = c.sent
    <3>1. sks.out \bullet <<>> = sks.out
      BY <2>1, Cat
    <3> QED
      BY <3>1 DEF Flow, AppEnded
  <2>4. ~c.alive /\ c.end = "server" => c.got = sks.sent
    <3>1. c.got \bullet <<>> \bullet <<>> = c.got
      BY <2>1, Cat
    <3> QED
      BY <3>1 DEF Flow, ServerEnded
  <2> QED
    BY <2>2, <2>3, <2>4, Zenon DEF BothStreams, \bullet
<1> QED
  BY <1>1, FlowInit, FlowNext, TunInvInit, TunInvNext, PTL DEF TunSpec
=============================================================================
