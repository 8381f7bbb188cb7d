------------------------------ MODULE ObfsLocal ------------------------------
(***************************************************************************)
(* simple-obfs, local.c: one connection of ss-local through the plugin     *)
(* obfs-local to its server, disguised as TLS (obfs_tls.c) or as HTTP      *)
(* (obfs_http.c).                                                          *)
(*                                                                         *)
(* obfs-local has one thread, and an action is one callback of libev: a    *)
(* watcher of a socket, or a timer.  recv() and send() take what there is, *)
(* so that what is written in one piece is read in any other pieces.  A    *)
(* byte is a token: of a header, of a length (with the two digits of a     *)
(* number, as the two bytes are), or of data, which are numbered.          *)
(***************************************************************************)
EXTENDS Integers, Sequences, SequencesExt

CONSTANTS UpItems,    \* how much ss-local sends
          DownItems,  \* how much the server sends
          BufSize,    \* BUF_SIZE of local.c, what is read at a time
          MaxFrame    \* the longest frame that is taken, which is BUF_SIZE of server.c

ASSUME ObfsAssumption ==
  UpItems \in Nat /\ DownItems \in Nat /\ BufSize \in Nat \ {0} /\ MaxFrame \in Nat \ {0}

VARIABLES o,    \* server_t and remote_t of the connection
          wire  \* the two sockets, and the other obfs_t, of the server

obfsVars == <<o, wire>>

Token(kind, v) == [kind |-> kind, v |-> v]
Data(from, to) == [i \in 1 .. to + 1 - from |-> Token("data", from + i - 1)]

-----------------------------------------------------------------------------
(* Obfuscation.                                                            *)

\* obfs_app_data(): a type, and the length in network order.
AppData(data) ==
  <<Token("type", 0), Token("len", Len(data) \div 2), Token("len", Len(data) % 2)>> \o data

\* obfs_tls_request(): the first data is a session ticket, which others follow.
\* obfs_http_request(): the first data has a header.
ObfsRequest(mode, stage, data) ==
  CASE mode = "tls" /\ stage = 0
         -> <<Token("hello", 0), Token("hello", Len(data))>> \o data \o <<Token("others", 0)>>
    [] mode = "tls" /\ stage = 1 -> AppData(data)
    [] mode = "http" /\ stage = 0 -> <<Token("header", 0), Token("end", 0)>> \o data
    [] OTHER -> data

\* obfs_tls_response(), obfs_http_response(), of the server
ObfsResponse(mode, stage, data) ==
  CASE mode = "tls" /\ stage = 0
         -> <<Token("hello", 0), Token("hello", Len(data))>> \o data
    [] mode = "tls" /\ stage = 1 -> AppData(data)
    [] mode = "http" /\ stage = 0 -> <<Token("header", 0), Token("end", 0)>> \o data
    [] OTHER -> data

\* frame_t: what is left of a frame, or where in its header the next byte is,
\* negative before the first frame.
NoFrame == [len |-> 0, idx |-> 0, hi |-> 0]

\* Mutant: the longest frame is refused.
FrameStepTight(a, t) ==
  CASE ~a.ok -> a
    [] a.ok /\ a.frame.len > 0
         -> [a EXCEPT !.ok = a.frame.len < MaxFrame, !.frame.len = @ - 1, !.out = Append(@, t)]
    [] a.ok /\ a.frame.len = 0 /\ a.frame.idx < 0
         -> [a EXCEPT !.frame.idx = @ + 1, !.out = Append(@, t)]
    [] a.ok /\ a.frame.len = 0 /\ a.frame.idx = 0
         -> [a EXCEPT !.ok = t.kind = "type", !.frame.idx = 1]
    [] a.ok /\ a.frame.len = 0 /\ a.frame.idx = 1
         -> [a EXCEPT !.frame.hi = t.v, !.frame.idx = 2]
    [] OTHER -> [a EXCEPT !.frame = [NoFrame EXCEPT !.len = 2 * a.frame.hi + t.v]]

\* deobfs_app_data() for one byte; a is the frame, what was decoded, and ok.
FrameStep(a, t) ==
  CASE ~a.ok -> a
    [] a.ok /\ a.frame.len > 0
         -> [a EXCEPT !.ok = a.frame.len <= MaxFrame, !.frame.len = @ - 1, !.out = Append(@, t)]
    [] a.ok /\ a.frame.len = 0 /\ a.frame.idx < 0
         -> [a EXCEPT !.frame.idx = @ + 1, !.out = Append(@, t)]
    [] a.ok /\ a.frame.len = 0 /\ a.frame.idx = 0
         -> [a EXCEPT !.ok = t.kind = "type", !.frame.idx = 1]
    [] a.ok /\ a.frame.len = 0 /\ a.frame.idx = 1
         -> [a EXCEPT !.frame.hi = t.v, !.frame.idx = 2]
    [] OTHER -> [a EXCEPT !.frame = [NoFrame EXCEPT !.len = 2 * a.frame.hi + t.v]]

Deframe(frame, buf) ==
  FoldLeft(FrameStep, [frame |-> frame, out |-> <<>>, ok |-> TRUE], buf)

\* Mutant: it is forgotten that the first data is not complete.
TlsResponseShort(stage, frame, buf) ==
  LET bad == Len(buf) <= 2 \/ buf[1].kind # "hello"
      rest == SubSeq(buf, 3, Len(buf))
      msg == buf[2].v
      after == Deframe(frame, SubSeq(rest, msg + 1, Len(rest)))
  IN  CASE stage = 1 -> Deframe(frame, buf)
        [] stage = 0 /\ bad -> [frame |-> frame, out |-> <<>>, ok |-> FALSE]
        [] stage = 0 /\ ~bad /\ Len(rest) > msg
             -> [after EXCEPT !.out = SubSeq(rest, 1, msg) \o @]
        [] OTHER -> [frame |-> frame, out |-> rest, ok |-> TRUE]

\* deobfs_tls_response(): all of the hello and some data are to come in one piece.  Frames
\* that come with them are decoded; otherwise the rest of the first data is to come.
TlsResponse(stage, frame, buf) ==
  LET bad == Len(buf) <= 2 \/ buf[1].kind # "hello"
      rest == SubSeq(buf, 3, Len(buf))
      msg == buf[2].v
      after == Deframe(frame, SubSeq(rest, msg + 1, Len(rest)))
  IN  CASE stage = 1 -> Deframe(frame, buf)
        [] stage = 0 /\ bad -> [frame |-> frame, out |-> <<>>, ok |-> FALSE]
        [] stage = 0 /\ ~bad /\ Len(rest) > msg
             -> [after EXCEPT !.out = SubSeq(rest, 1, msg) \o @]
        [] OTHER -> [frame |-> [frame EXCEPT !.idx = Len(rest) - msg], out |-> rest, ok |-> TRUE]

\* deobfs_http_header(): so is all of the header.
HttpResponse(stage, frame, buf) ==
  LET end == {i \in DOMAIN buf : buf[i].kind = "end"}
  IN  CASE stage = 1 -> [frame |-> frame, out |-> buf, ok |-> TRUE]
        [] stage = 0 /\ end = {} -> [frame |-> frame, out |-> <<>>, ok |-> FALSE]
        [] OTHER -> [frame |-> frame, ok |-> TRUE,
                     out |-> SubSeq(buf, (CHOOSE i \in end : TRUE) + 1, Len(buf))]

DeobfsResponse(buf) ==
  IF o.mode = "tls" THEN TlsResponse(o.deobfs_stage, o.frame, buf)
                    ELSE HttpResponse(o.deobfs_stage, o.frame, buf)

-----------------------------------------------------------------------------
(* The connection.                                                         *)

\* Neither new_server() nor new_remote(), or both freed.
NoConnection(mode, fast_open) ==
  [mode |-> mode, fast_open |-> fast_open, server |-> FALSE, remote |-> FALSE,
   connected |-> FALSE,                 \* send_ctx->connected
   io |-> {}, timer |-> {},             \* the watchers that are started
   rbuf |-> <<>>, sbuf |-> <<>>,        \* what is left in remote->buf and server->buf
   obfs_stage |-> 0, deobfs_stage |-> 0, frame |-> NoFrame,
   why |-> "none"]                      \* why it was closed

\* ss-local sent up items, of which read were read, and got; the server was sent out, and
\* sent plain items, of which down is to be read.
NoWire == [up |-> 0, read |-> 0, upEnd |-> FALSE, got |-> <<>>,
           out |-> <<>>, plain |-> 0, down |-> <<>>, downEnd |-> FALSE, stage |-> 0]

ObfsInit ==
  /\ \E mode \in {"tls", "http"}, fast_open \in BOOLEAN : o = NoConnection(mode, fast_open)
  /\ wire = NoWire

accept_cb ==
  /\ ~o.server
  /\ o' = [NoConnection(o.mode, o.fast_open) EXCEPT !.server = TRUE, !.io = {"server_recv"}]
  /\ wire' = NoWire

\* close_and_free_remote() and close_and_free_server()
Close(why) == o' = [NoConnection(o.mode, o.fast_open) EXCEPT !.why = why] /\ UNCHANGED wire

\* recv(), send(), connect(), socket(), getpeername() or protect_socket() failed.
SocketFails == o.io # {} /\ Close("error")

\* The watcher of one side is stopped and that of the other started.
Swap(d, stop, start) == [d EXCEPT !.io = (@ \ {stop}) \cup {start}]

Rest(buf, n) == SubSeq(buf, n + 1, Len(buf))

\* The server took n bytes of buf.
SentOut(buf, n) == [wire EXCEPT !.out = @ \o SubSeq(buf, 1, n)]

\* server_recv_cb() reads the end.
server_recv_cb_end ==
  /\ "server_recv" \in o.io
  /\ wire.read = wire.up /\ wire.upEnd
  /\ Close("local")

\* server_recv_cb() reads n items, and sends what fits in the server's socket, or
\* connects to it first.
server_recv_cb(n) ==
  LET buf == ObfsRequest(o.mode, o.obfs_stage, Data(wire.read + 1, wire.read + n))
      d == [o EXCEPT !.remote = TRUE, !.obfs_stage = 1]
      later(m) == Swap([d EXCEPT !.rbuf = Rest(buf, m)], "server_recv", "remote_send")
      sent(m) == [SentOut(buf, m) EXCEPT !.read = @ + n]
  IN  /\ "server_recv" \in o.io
      /\ n \in 1 .. wire.up - wire.read /\ n <= BufSize
      /\ \/ /\ ~o.connected /\ ~o.fast_open
            /\ o' = [later(0) EXCEPT !.timer = {"connect"}]
            /\ wire' = sent(0)
         \/ /\ ~o.connected /\ o.fast_open
            /\ o' = later(0)                                        \* CONNECT_IN_PROGRESS
            /\ wire' = sent(0)
         \/ /\ ~o.connected /\ o.fast_open
            /\ \E m \in 1 .. Len(buf) - 1 : /\ o' = [later(m) EXCEPT !.timer = {"connect"}]
                                            /\ wire' = sent(m)
         \/ /\ ~o.connected /\ o.fast_open
            /\ o' = [d EXCEPT !.connected = TRUE, !.timer = {"recv"}, !.io = @ \cup {"remote_recv"}]
            /\ wire' = sent(Len(buf))
         \/ /\ o.connected
            /\ \E m \in 0 .. Len(buf) : /\ o' = IF m < Len(buf) THEN later(m) ELSE d
                                        /\ wire' = sent(m)

\* ENOTCONN: fast open is turned off, and the connection closed.
FastOpenFails ==
  /\ "server_recv" \in o.io /\ ~o.connected /\ o.fast_open /\ wire.read < wire.up
  /\ o' = [NoConnection(o.mode, FALSE) EXCEPT !.why = "error"]
  /\ UNCHANGED wire

\* Mutant: when it is connected no other timer is started.
remote_send_cbNoTimer ==
  LET d == IF o.connected THEN o
           ELSE [o EXCEPT !.connected = TRUE, !.timer = {}, !.io = @ \cup {"remote_recv"}]
  IN  /\ "remote_send" \in o.io
      /\ \E m \in 0 .. Len(o.rbuf) :
           /\ o' = IF m < Len(o.rbuf) THEN [d EXCEPT !.rbuf = Rest(@, m)]
                   ELSE Swap([d EXCEPT !.rbuf = <<>>], "remote_send", "server_recv")
           /\ wire' = SentOut(o.rbuf, m)

remote_send_cb ==
  LET d == IF o.connected THEN o
           ELSE [o EXCEPT !.connected = TRUE, !.timer = {"recv"}, !.io = @ \cup {"remote_recv"}]
  IN  /\ "remote_send" \in o.io
      /\ \E m \in 0 .. Len(o.rbuf) :
           /\ o' = IF m < Len(o.rbuf) THEN [d EXCEPT !.rbuf = Rest(@, m)]
                   ELSE Swap([d EXCEPT !.rbuf = <<>>], "remote_send", "server_recv")
           /\ wire' = SentOut(o.rbuf, m)

\* remote_recv_cb() reads the end.
remote_recv_cb_end ==
  /\ "remote_recv" \in o.io
  /\ wire.down = <<>> /\ wire.downEnd
  /\ Close("remote")

\* remote_recv_cb() starts its timer anew, reads n bytes, and sends what fits in
\* ss-local's socket.
remote_recv_cb(n) ==
  LET r == DeobfsResponse(SubSeq(wire.down, 1, n))
      d == [o EXCEPT !.timer = {"recv"}, !.deobfs_stage = 1, !.frame = r.frame]
  IN  /\ "remote_recv" \in o.io
      /\ n \in 1 .. Len(wire.down) /\ n <= BufSize
      /\ \/ /\ ~r.ok
            /\ o' = [NoConnection(o.mode, o.fast_open) EXCEPT !.why = "invalid"]
            /\ wire' = [wire EXCEPT !.down = Rest(@, n)]
         \/ /\ r.ok
            /\ \E m \in 0 .. Len(r.out) :
                 /\ o' = IF m < Len(r.out)
                         THEN Swap([d EXCEPT !.sbuf = Rest(r.out, m)], "remote_recv", "server_send")
                         ELSE d
                 /\ wire' = [wire EXCEPT !.down = Rest(@, n), !.got = @ \o SubSeq(r.out, 1, m)]

server_send_cb ==
  /\ "server_send" \in o.io
  /\ \E m \in 0 .. Len(o.sbuf) :
       /\ o' = IF m < Len(o.sbuf) THEN [o EXCEPT !.sbuf = Rest(@, m)]
               ELSE Swap([o EXCEPT !.sbuf = <<>>], "server_send", "remote_recv")
       /\ wire' = [wire EXCEPT !.got = @ \o SubSeq(o.sbuf, 1, m)]

remote_timeout_cb == o.timer # {} /\ Close("timeout")

\* free_connections(), at the end of main()
free_connections == o.server /\ Close("exit")

-----------------------------------------------------------------------------
(* ss-local and the server.                                                *)

LocalSends ==
  /\ o.server /\ ~wire.upEnd /\ wire.up < UpItems
  /\ wire' = [wire EXCEPT !.up = @ + 1]
  /\ UNCHANGED o

LocalEnds ==
  /\ o.server /\ ~wire.upEnd
  /\ wire' = [wire EXCEPT !.upEnd = TRUE]
  /\ UNCHANGED o

ServerSends(n) ==
  /\ o.connected /\ ~wire.downEnd /\ n <= MaxFrame /\ wire.plain + n <= DownItems
  /\ n = 0 => o.mode = "http" /\ wire.stage = 0
  /\ wire' = [wire EXCEPT !.plain = @ + n, !.stage = 1,
                          !.down = @ \o ObfsResponse(o.mode, wire.stage,
                                                     Data(wire.plain + 1, wire.plain + n))]
  /\ UNCHANGED o

ServerEnds ==
  /\ o.connected /\ ~wire.downEnd
  /\ wire' = [wire EXCEPT !.downEnd = TRUE]
  /\ UNCHANGED o

-----------------------------------------------------------------------------
ServerRecv == \E n \in 1 .. UpItems : server_recv_cb(n)
RemoteRecv == \E n \in 1 .. Len(wire.down) : remote_recv_cb(n)

ObfsNext ==
  \/ accept_cb \/ server_recv_cb_end \/ ServerRecv \/ FastOpenFails \/ server_send_cb
  \/ remote_recv_cb_end \/ RemoteRecv \/ remote_send_cb
  \/ remote_timeout_cb \/ SocketFails \/ free_connections
  \/ LocalSends \/ LocalEnds \/ ServerEnds \/ \E n \in 0 .. DownItems : ServerSends(n)

ObfsSpec == ObfsInit /\ [][ObfsNext]_obfsVars

(* A connection that is being made comes up or fails, and a timer fires.   *)
(* The receiving one is started anew by each read, but the server's data   *)
(* is bounded, so that it is quiet in the end.                             *)
ObfsFair == WF_obfsVars(remote_send_cb) /\ WF_obfsVars(remote_timeout_cb)

-----------------------------------------------------------------------------
(* Properties.                                                             *)

\* What the server finds in the requests, as deobfs_tls_request() and
\* deobfs_http_header() look for it.
RequestData(mode, buf) ==
  LET msg == buf[2].v
  IN  IF mode = "http" THEN Rest(buf, 2)
      ELSE SubSeq(buf, 3, msg + 2) \o Deframe(NoFrame, Rest(buf, msg + 3)).out

\* What is sent to the server, and is left to be sent, is exactly what was read from
\* ss-local, however little send() takes at a time and whenever the connection comes up.
\* What ss-local was sent, what is left to be sent and what deobfs_response() will find
\* in the rest are exactly the server's data, in whatever pieces of up to BufSize it is
\* read: also when a piece ends in a header, between the bytes of a length, in the data
\* of the first response, or beyond it in one of the frames that follow.  The server's
\* end closes the connection only after all of it.
DisguiseIntact ==
  /\ o.remote => RequestData(o.mode, wire.out \o o.rbuf) = Data(1, wire.read)
  /\ o.deobfs_stage = 1 =>
       wire.got \o o.sbuf \o DeobfsResponse(wire.down).out = Data(1, wire.plain)
  /\ o.why = "remote" => wire.got = Data(1, wire.plain)

\* "invalid obfuscating": a good server, whose frames may have the greatest length, is
\* taken for a bad one only by the first read, and only if that does not go beyond the
\* hello (a hello that comes whole but alone is refused, too) or, with HTTP, does not
\* have all of the header.
InvalidOnlyIfShort ==
  [][o.why # "invalid" /\ o'.why = "invalid" =>
       /\ o.deobfs_stage = 0
       /\ Len(wire.down) - Len(wire'.down) <= IF o.mode = "tls" THEN 2 ELSE 1]_obfsVars

\* A connection to a server that falls silent ends, even if neither side ends it: one of
\* the timers runs, or the connection is still to come up.
ConnectionEnds == o.remote ~> ~o.remote

=============================================================================
