--------------------------- MODULE Tun2socksClient ---------------------------
(***************************************************************************)
(* tun2socks.c: one TCP connection of an application on the device, the    *)
(* struct tcp_client.  lwIP ends the connection; its data goes through buf *)
(* to a connection through ss-local that BSocksClient sets up, and back    *)
(* through socks_recv_buf.  Each of the two sides may go down first, and   *)
(* then data of the other is still sent.                                   *)
(*                                                                         *)
(* tun2socks has one thread: an action is one callback of lwIP or of the   *)
(* reactor.  Callbacks call each other and may free the client, so that    *)
(* their effect is a function of the record c.  lwIP calls back for a      *)
(* segment; data is a sequence of items.                                   *)
(***************************************************************************)
EXTENDS Integers, Sequences

CONSTANTS Upload,    \* what the application sends, a sequence
          Download,  \* what the server sends
          Wnd,       \* TCP_WND, also the size of buf
          SndBuf,    \* TCP_SND_BUF
          RecvBuf    \* CLIENT_SOCKS_RECV_BUF_SIZE

ASSUME TunAssumption ==
  /\ Wnd \in Nat \ {0} /\ SndBuf \in Nat \ {0} /\ RecvBuf \in Nat \ {0}
  /\ Upload \in Seq(STRING) /\ Download \in Seq(STRING)

VARIABLES c,    \* the client and its pcb
          sks,  \* the connection to ss-local: the state of BSocksClient; out was written to
                \* it, rcv waits to be read from it, of all that the server sent, and fin
          ret   \* what the last callback of lwIP returned, and if it called tcp_abort()

tunVars == <<c, sks, ret>>

\* BSocksClient's states, without those for a password, which the app does not set.
SocksState == {"connecting", "sending_hello", "sent_hello", "sending_request", "sent_request",
               "received_reply_header", "up"}

NoClient ==
  [alive |-> FALSE, client_closed |-> FALSE, socks_up |-> FALSE, socks_closed |-> FALSE,
   aborted |-> FALSE,
   dead |-> 0, ptr |-> "null",     \* the innermost DEAD variable, and dead_aborted
   sync |-> "none",                \* the jobs SYNC_COMMIT runs before the callback returns
   buf |-> <<>>, sending |-> 0,    \* socks_send_if is busy with so much of buf
   rbuf |-> <<>>, pending |-> 0,   \* socks_recv_buf from socks_recv_buf_sent on
   receiving |-> FALSE,            \* socks_recv_if is busy
   cb |-> {},                      \* the callbacks of the pcb
   \* the pcb: in flight from the application, of all it sent, its end and if that
   \* was received, rcv_wnd, the send queue, and what was acknowledged
   pcb |-> "closed", up |-> <<>>, sent |-> <<>>, fin |-> FALSE, finSeen |-> FALSE,
   wnd |-> Wnd, queue |-> <<>>, got |-> <<>>,
   touched |-> FALSE,              \* memory was used that is free, or off the stack
   end |-> "none"]                 \* who ended the connection first, "error" if so

TunInit ==
  /\ c = NoClient
  /\ sks = [state |-> "connecting", out |-> <<>>, rcv |-> <<>>, sent |-> <<>>, fin |-> FALSE]
  /\ ret = [value |-> "ERR_OK", abort |-> FALSE]

-----------------------------------------------------------------------------
(* Freeing.                                                                *)

\* DEAD_KILL_WITH() writes to the DEAD variable of the callback that entered, or to
\* where that of a callback was that has returned.
Kill(d, value) ==
  [d EXCEPT !.dead = IF d.ptr = "entered" THEN value ELSE @, !.touched = @ \/ d.ptr = "left"]

\* Mutant: a callback is not told that the client was freed.
client_deallocQuiet(d) == [d EXCEPT !.alive = FALSE]

client_dealloc(d) ==
  LET e == [d EXCEPT !.alive = FALSE]
  IN  IF d.aborted THEN e ELSE Kill(e, -1)

\* Mutant: the same value as client_dealloc().
client_abort_pcbAsFreed(d) ==
  Kill([d EXCEPT !.pcb = "reset", !.queue = <<>>, !.aborted = TRUE, !.end = "error"], -1)

client_abort_pcb(d) ==
  Kill([d EXCEPT !.pcb = "reset", !.queue = <<>>, !.aborted = TRUE, !.end = "error"], 1)

\* client_free_socks() of a client that is closed is client_dealloc().
client_handle_freed_client(d) ==
  IF d.buf # <<>> /\ ~d.socks_closed
  THEN [d EXCEPT !.client_closed = TRUE]
  ELSE client_dealloc([d EXCEPT !.client_closed = TRUE, !.socks_closed = TRUE,
                                !.sending = 0, !.receiving = FALSE])

\* tcp_close() resets the connection if data was received that is not confirmed by
\* tcp_recved(); otherwise the queue is sent, and then the end.  It fails if not ok.
client_free_client(d, ok) ==
  LET e == [d EXCEPT !.cb = {}]
  IN  client_handle_freed_client(
        CASE d.wnd # Wnd -> [e EXCEPT !.pcb = "reset", !.queue = <<>>]
          [] d.wnd = Wnd /\ ok -> [e EXCEPT !.pcb = "closed"]
          [] OTHER -> client_abort_pcb(e))

client_abort_client(d) == client_handle_freed_client(client_abort_pcb([d EXCEPT !.cb = {}]))

\* Mutant: what lwIP has queued is not waited for.
client_free_socksEarly(d, ok) ==
  LET e == [d EXCEPT !.cb = IF d.socks_up THEN @ \ {"recv"} ELSE @,
                     !.socks_closed = TRUE, !.sending = 0, !.receiving = FALSE]
  IN  CASE d.client_closed -> client_dealloc(e)
        [] ~d.client_closed /\ d.socks_up /\ d.rbuf # <<>> -> e
        [] OTHER -> client_free_client(e, ok)

client_free_socks(d, ok) ==
  LET e == [d EXCEPT !.cb = IF d.socks_up THEN @ \ {"recv"} ELSE @,
                     !.socks_closed = TRUE, !.sending = 0, !.receiving = FALSE]
  IN  CASE d.client_closed -> client_dealloc(e)
        [] ~d.client_closed /\ d.socks_up /\ (d.rbuf # <<>> \/ d.pending > 0) -> e
        [] OTHER -> client_free_client(e, ok)

\* What tcp_write() has room for.
Fits(d) == LET room == SndBuf - Len(d.queue)
           IN  IF Len(d.rbuf) < room THEN Len(d.rbuf) ELSE room

\* client_socks_recv_send_out(): tcp_write() takes n items, all that fit or, out of
\* memory, none.  It or tcp_output() fails if not ok.
client_socks_recv_send_out(d, n, ok) ==
  LET e == [d EXCEPT !.queue = @ \o SubSeq(d.rbuf, 1, n), !.pending = @ + n,
                     !.rbuf = SubSeq(@, n + 1, Len(@))]
  IN  IF ok /\ (e.rbuf = <<>> \/ e.pending > 0) THEN e ELSE client_abort_client(e)

\* client_socks_recv_initiate(), if there is something to receive and room for it.
Initiated(d) ==
  [d EXCEPT !.receiving = ~d.client_closed /\ ~d.socks_closed /\ d.rbuf = <<>>]

-----------------------------------------------------------------------------
(* Callbacks of lwIP.  They enter with DEAD_ENTER(), and the jobs they set *)
(* for sync run before they leave.                                         *)

Enter(d, sync) ==
  [d EXCEPT !.dead = 0, !.ptr = "entered", !.sync = sync, !.touched = @ \/ d.ptr = "left"]

InCallback == c.ptr = "entered"

\* A callback is over: DEAD_LEAVE2().
Leave ==
  /\ InCallback
  /\ c' = [c EXCEPT !.ptr = IF c.dead = 0 THEN "null" ELSE "left", !.sync = "none",
                    !.touched = @ \/ (c.dead = 0 /\ ~c.alive)]
  /\ ret' = [value |-> IF c.dead > 0 THEN "ERR_ABRT" ELSE "ERR_OK", abort |-> c.aborted]
  /\ UNCHANGED sks

\* listener_accept_func().  If something fails in it there is no client.
listener_accept_func ==
  /\ ~c.alive /\ ~InCallback /\ c.queue = <<>>
  /\ c' = Enter([NoClient EXCEPT !.alive = TRUE, !.cb = {"err", "recv"}, !.pcb = "open"], "all")
  /\ sks' = [state |-> "connecting", out |-> <<>>, rcv |-> <<>>, sent |-> <<>>, fin |-> FALSE]
  /\ UNCHANGED ret

\* client_recv_func() with n items.  Without the callback tcp_recv_null() takes them
\* and confirms them at once.
client_recv_func(n) ==
  LET data == SubSeq(c.up, 1, n)
      rest == SubSeq(c.up, n + 1, Len(c.up))
      start == c.buf = <<>> /\ c.socks_up
  IN  /\ c.pcb = "open" /\ ~InCallback /\ n \in 1 .. Len(c.up)
      /\ CASE "recv" \notin c.cb -> c' = [c EXCEPT !.up = rest] /\ UNCHANGED ret
           [] "recv" \in c.cb /\ n > Wnd - Len(c.buf)
                -> ret' = [value |-> "ERR_MEM", abort |-> FALSE] /\ UNCHANGED c
           [] OTHER -> /\ c' = Enter([c EXCEPT !.up = rest, !.wnd = @ - n, !.buf = @ \o data,
                                               !.sending = IF start THEN n ELSE @],
                                     IF start THEN "send" ELSE "none")
                       /\ UNCHANGED ret
      /\ UNCHANGED sks

\* Mutant: the end is left until the buffer is empty, and then nobody looks.
client_recv_func_endLater ==
  /\ c.pcb = "open" /\ ~InCallback /\ c.up = <<>> /\ c.fin /\ ~c.finSeen
  /\ LET d == [c EXCEPT !.finSeen = TRUE]
     IN  IF "recv" \in c.cb /\ c.buf = <<>>
         THEN \E ok \in BOOLEAN :
                c' = client_free_client(Enter([d EXCEPT !.end = "app"], "none"), ok)
         ELSE c' = d
  /\ UNCHANGED <<sks, ret>>

\* client_recv_func() at the application's end.
client_recv_func_end ==
  /\ c.pcb = "open" /\ ~InCallback /\ c.up = <<>> /\ c.fin /\ ~c.finSeen
  /\ LET d == [c EXCEPT !.finSeen = TRUE]
     IN  IF "recv" \in c.cb
         THEN \E ok \in BOOLEAN :
                c' = client_free_client(Enter([d EXCEPT !.end = "app"], "none"), ok)
         ELSE c' = d
  /\ UNCHANGED <<sks, ret>>

\* client_sent_func(): n items were acknowledged.
client_sent_func(n) ==
  LET d == Enter([c EXCEPT !.queue = SubSeq(@, n + 1, Len(@)), !.pending = @ - n,
                           !.got = @ \o SubSeq(c.queue, 1, n)], "none")
  IN  /\ c.pcb = "open" /\ ~InCallback /\ n \in 1 .. Len(c.queue)
      /\ \/ /\ c.rbuf # <<>>
            /\ \E m \in {0, Fits(d)}, ok \in BOOLEAN :
                 LET e == client_socks_recv_send_out(d, m, ok)
                 IN  c' = IF e.client_closed THEN e ELSE Initiated([e EXCEPT !.sync = "recv"])
         \/ /\ c.rbuf = <<>> /\ c.socks_closed /\ d.pending = 0
            /\ \E ok \in BOOLEAN : c' = client_free_client(d, ok)
         \/ /\ c.rbuf = <<>> /\ ~(c.socks_closed /\ d.pending = 0)
            /\ c' = d
      /\ UNCHANGED <<sks, ret>>

\* client_err_func(): the application reset the connection, or lwIP gave it up.
client_err_func ==
  /\ c.pcb = "open" /\ ~InCallback
  /\ c' = client_handle_freed_client([c EXCEPT !.pcb = "reset", !.queue = <<>>, !.cb = {},
                                               !.end = "error"])
  /\ UNCHANGED <<sks, ret>>

\* lwIP goes on with the queue of a pcb that is closed.
SentAfterClose ==
  /\ c.pcb = "closed" /\ ~InCallback /\ c.queue # <<>>
  /\ c' = [c EXCEPT !.queue = Tail(@), !.got = Append(@, Head(c.queue))]
  /\ UNCHANGED <<sks, ret>>

-----------------------------------------------------------------------------
(* Callbacks of BSocksClient.  A job for socks may be one that a callback  *)
(* of lwIP waits for.                                                      *)

SocksRuns(job) == c.alive /\ ~c.socks_closed /\ (InCallback => c.sync \in {"all", job})

Busy(job) ==
  CASE job = "handshake" -> ~c.socks_up [] job = "send" -> c.sending > 0 [] job = "recv" -> c.receiving

Handshake(from, to) ==
  /\ SocksRuns("handshake") /\ sks.state = from
  /\ sks' = [sks EXCEPT !.state = to]
  /\ UNCHANGED <<c, ret>>

\* BSocksClient's connector_handler(): the connection is there, and the hello is sent.
Connected == Handshake("connecting", "sending_hello")

\* Its send_handler_done().
SentControl ==
  \/ Handshake("sending_hello", "sent_hello")
  \/ Handshake("sending_request", "sent_request")

\* Its recv_handler_done(), once all was received that it waits for: the method is
\* accepted and the request is sent, or the reply's header is good.
ReceivedControl ==
  \/ Handshake("sent_hello", "sending_request")
  \/ Handshake("sent_request", "received_reply_header")

\* The rest of the reply was received: client_socks_handler(BSOCKSCLIENT_EVENT_UP).
Up ==
  /\ SocksRuns("handshake") /\ sks.state = "received_reply_header"
  /\ sks' = [sks EXCEPT !.state = "up"]
  /\ c' = Initiated([c EXCEPT !.socks_up = TRUE, !.sending = Len(c.buf),
                              !.cb = IF c.client_closed THEN @ ELSE @ \cup {"sent"}])
  /\ UNCHANGED ret

\* client_socks_handler(BSOCKSCLIENT_EVENT_ERROR): a step of the handshake, a write or
\* a read failed, or the descriptor has an error.
SocksError ==
  /\ \E job \in {"handshake", "send", "recv"} : SocksRuns(job) /\ (InCallback => Busy(job))
  /\ \E ok \in BOOLEAN : c' = client_free_socks([c EXCEPT !.end = "error"], ok)
  /\ UNCHANGED <<sks, ret>>

\* client_socks_handler(BSOCKSCLIENT_EVENT_ERROR_CLOSED): a read found the end.
SocksClosed ==
  /\ SocksRuns("recv") /\ c.receiving /\ sks.rcv = <<>> /\ sks.fin
  /\ \E ok \in BOOLEAN :
       c' = client_free_socks([c EXCEPT !.end = IF @ = "none" THEN "server" ELSE @], ok)
  /\ UNCHANGED <<sks, ret>>

client_socks_send_handler_done(n) ==
  LET d == [c EXCEPT !.buf = SubSeq(@, n + 1, Len(@)), !.sending = Len(c.buf) - n,
                     !.wnd = IF c.client_closed THEN @ ELSE @ + n]
  IN  /\ SocksRuns("send") /\ n \in 1 .. c.sending
      /\ sks' = [sks EXCEPT !.out = @ \o SubSeq(c.buf, 1, n)]
      /\ c' = IF d.buf = <<>> /\ c.client_closed THEN client_free_socks(d, TRUE) ELSE d
      /\ UNCHANGED ret

client_socks_recv_handler_done(n) ==
  /\ SocksRuns("recv") /\ c.receiving
  /\ n \in 1 .. Len(sks.rcv) /\ n <= RecvBuf
  /\ sks' = [sks EXCEPT !.rcv = SubSeq(@, n + 1, Len(@))]
  /\ LET d == [c EXCEPT !.receiving = FALSE, !.rbuf = SubSeq(sks.rcv, 1, n)]
     IN  \/ c.client_closed /\ c' = [c EXCEPT !.receiving = FALSE]
         \/ /\ ~c.client_closed
            /\ \E m \in {0, Fits(d)}, ok \in BOOLEAN :
                 LET e == client_socks_recv_send_out(d, m, ok)
                 IN  c' = IF e.client_closed THEN e ELSE Initiated(e)
  /\ UNCHANGED ret

\* client_murder(), when tun2socks terminates.
client_murder ==
  /\ c.alive /\ ~InCallback
  /\ LET d == IF c.client_closed THEN c ELSE client_abort_pcb([c EXCEPT !.cb = {}])
     IN  c' = client_dealloc([d EXCEPT !.client_closed = TRUE, !.socks_closed = TRUE,
                                       !.sending = 0, !.receiving = FALSE, !.end = "error"])
  /\ UNCHANGED <<sks, ret>>

-----------------------------------------------------------------------------
(* The application and the server.                                         *)

AppSend ==
  /\ c.pcb = "open" /\ ~InCallback /\ ~c.fin
  /\ Len(c.sent) < Len(Upload) /\ Len(c.up) < c.wnd
  /\ LET item == Upload[Len(c.sent) + 1]
     IN  c' = [c EXCEPT !.sent = Append(@, item), !.up = Append(@, item)]
  /\ UNCHANGED <<sks, ret>>

AppEnd ==
  /\ c.pcb = "open" /\ ~InCallback /\ ~c.fin
  /\ c' = [c EXCEPT !.fin = TRUE]
  /\ UNCHANGED <<sks, ret>>

ServerSend ==
  /\ c.alive /\ ~InCallback /\ c.socks_up /\ ~sks.fin /\ Len(sks.sent) < Len(Download)
  /\ LET item == Download[Len(sks.sent) + 1]
     IN  sks' = [sks EXCEPT !.sent = Append(@, item), !.rcv = Append(@, item)]
  /\ UNCHANGED <<c, ret>>

ServerEnd ==
  /\ c.alive /\ ~InCallback /\ c.socks_up /\ ~sks.fin
  /\ sks' = [sks EXCEPT !.fin = TRUE]
  /\ UNCHANGED <<c, ret>>

-----------------------------------------------------------------------------
Recv == \E n \in 1 .. Len(c.up) : client_recv_func(n)
Acked == \E n \in 1 .. Len(c.queue) : client_sent_func(n)

\* connection_send(), connection_recv(): so much was written or read.
SocksWrote == \E n \in 1 .. c.sending : client_socks_send_handler_done(n)
SocksRead == \E n \in 1 .. Len(sks.rcv) : client_socks_recv_handler_done(n)

TunNext ==
  \/ listener_accept_func \/ Recv \/ client_recv_func_end \/ Acked \/ client_err_func \/ Leave
  \/ Connected \/ SentControl \/ ReceivedControl \/ Up \/ SocksError \/ SocksClosed \/ SocksWrote \/ SocksRead
  \/ client_murder \/ SentAfterClose
  \/ AppSend \/ AppEnd \/ ServerSend \/ ServerEnd

TunSpec == TunInit /\ [][TunNext]_tunVars

(* The reactor runs every callback that is due; the application reads what *)
(* it is sent, and ss-local completes the handshake and reads, or fails.   *)
TunFair ==
  /\ WF_tunVars(Leave) /\ WF_tunVars(Recv) /\ WF_tunVars(client_recv_func_end)
  /\ WF_tunVars(Acked) /\ WF_tunVars(Connected \/ SentControl \/ ReceivedControl \/ Up)
  /\ WF_tunVars(SocksClosed) /\ WF_tunVars(SocksWrote) /\ WF_tunVars(SocksRead)

-----------------------------------------------------------------------------
(* Properties.                                                             *)

\* "Return ERR_ABRT if and only if tcp_abort was called from this callback": what the
\* three callbacks return is right however deep in them the pcb was aborted, and
\* if the client was freed before that or after.
AbrtReturned == (ret.value = "ERR_ABRT") <=> ret.abort

\* dead_aborted is not restored when a callback returns that aborted the pcb, and the
\* client may live on until its data is sent: yet nothing is written through it any
\* more, nor to a client that was freed in the callback.
NothingTouched == ~c.touched

\* No data is lost, repeated or reordered on its way while both sides are open.  And
\* an application that ends a connection has all that it sent written to the SOCKS
\* connection, be that up or not when it ends, and one that the server ends has
\* received everything: unless lwIP or SOCKS failed, or the server ended too.
BothStreams ==
  /\ c.alive /\ ~c.client_closed /\ ~c.socks_closed =>
       /\ sks.out \o c.buf \o c.up = c.sent
       /\ c.got \o c.queue \o c.rbuf \o sks.rcv = sks.sent
  /\ ~c.alive => /\ c.end = "app" /\ ~sks.fin => sks.out = c.sent
                 /\ c.end = "server" => c.got = sks.sent

\* A client is freed after either side has ended: no order of the two ends, the
\* handshake and the data in between leaves it in tcp_clients.
ClientFreed == c.alive /\ (c.fin \/ sks.fin) ~> ~c.alive

=============================================================================
