---------------------------- MODULE RedsocksPump ----------------------------
(***************************************************************************)
(* redsocks.c and socks5.c: one accepted connection.  The relay, ss-local, *)
(* is connected and taken through the SOCKS5 handshake, and from then on   *)
(* the two sockets are pumped into each other until both directions have   *)
(* seen their end: with splice() and two pipes, or with the buffers of two *)
(* bufferevents of libevent (bufferevent_sock.c).                          *)
(*                                                                         *)
(* An action is one callback of libevent; the order in which pending       *)
(* events are served is not fixed.  A socket accepts any part of what is   *)
(* written to it.  What the callback does to the connection is a function  *)
(* of the record con, because callbacks call each other.  Data is a        *)
(* sequence of items for each direction; a SOCKS5 message is one item.     *)
(*                                                                         *)
(* A side is "client" or "relay".  pipe[s], rd[s] belong to what is read   *)
(* from side s, wr[s], act[s] to what is written to it.                    *)
(***************************************************************************)
EXTENDS Integers, Sequences, FiniteSets

CONSTANTS Request,   \* what the client sends, a sequence of strings
          Reply,     \* what the relay sends after the handshake
          HalfBuff,  \* REDSOCKS_RELAY_HALFBUFF
          PipeSize   \* what a pipe holds

ASSUME PumpAssumption ==
  /\ HalfBuff \in Nat \ {0} /\ PipeSize \in Nat \ {0}
  /\ Request \in Seq(STRING) /\ Reply \in Seq(STRING)

VARIABLES con,        \* the redsocks_client and, if splice is used, its redsocks_pump
          net,        \* the sockets: rcv waits to be read, fin: then the peer's end;
                      \* sent by the peer, snd was written to it, wfin: and shut down
          use_splice, \* config.use_splice, which does not change
          pumped,     \* the write callback of the relay was invoked by the pump of buffers
          early       \* the client's end was seen by that pump before pumped

pumpVars == <<con, net, use_splice, pumped, early>>

Side == {"client", "relay"}
Other(s) == IF s = "client" THEN "relay" ELSE "client"

Both(x) == [s \in Side |-> x]
Handshake == {"method_sent", "request_sent", "skip_domain", "skip_address"}
FromServer == {"none", "invalid", "ok_ip", "ok_domain", "fail", "size", "addr"}

\* Accepted and added to the list; the relay's socket is connecting.
NewConnection ==
  [alive |-> TRUE, state |-> "new", shut |-> Both({}), afterDrop |-> FALSE,
   input |-> Both(<<>>), output |-> Both(<<>>),
   enabled |-> [s \in Side |-> IF s = "client" THEN {"R", "W"} ELSE {"W"}],
   evw |-> [s \in Side |-> s = "relay"],
   pipe |-> Both(<<>>), open |-> Both(FALSE),
   rd |-> Both(FALSE), wr |-> Both(FALSE), act |-> Both(FALSE)]

NewSockets ==
  [rcv |-> Both(<<>>), fin |-> Both(FALSE), sent |-> Both(<<>>),
   snd |-> Both(<<>>), wfin |-> Both(FALSE)]

-----------------------------------------------------------------------------
(* What the callbacks call.                                                *)

\* redsocks_drop_client(): what is left is how far the two sockets were shut down.
Dropped(c) == [NewConnection EXCEPT !.alive = FALSE, !.shut = c.shut]

shut_both(c) == \A s \in Side : c.shut[s] = {"R", "W"}

Disable(c, s, how) ==
  [c EXCEPT !.enabled[s] = @ \ {how}, !.evw[s] = IF how = "W" THEN FALSE ELSE @]

\* redsocks_shutdown()
Shutdown(c, s, how) ==
  LET d == [Disable(c, s, how) EXCEPT !.shut[s] = @ \cup {how}]
  IN  IF shut_both(d) THEN Dropped(d) ELSE d

\* bufferevent_write_buffer(): data in the output adds the write event.
WriteBuffer(c, s, data) ==
  [c EXCEPT !.output[s] = @ \o data,
            !.evw[s] = @ \/ (data # <<>> /\ "W" \in c.enabled[s])]

\* bufferevent_write_buffer(to, from->input)
Move(c, s) == [WriteBuffer(c, Other(s), c.input[s]) EXCEPT !.input[s] = <<>>]

\* redsocks_write_helper()
WriteHelper(c, message, state) ==
  [WriteBuffer(c, "relay", message) EXCEPT !.state = state, !.enabled["relay"] = @ \cup {"R"}]

\* redsocks_relay_readcb(), from = s
RelayReadCb(c, s) ==
  IF Len(c.output[Other(s)]) < HalfBuff THEN Move(c, s) ELSE Disable(c, s, "R")

\* Mutant: the end is passed on although there is data left.
RelayWriteCbEager(c, s) ==
  IF "R" \in c.shut[s] THEN Shutdown(c, Other(s), "W")
  ELSE [Move(c, s) EXCEPT !.enabled[s] = @ \cup {"R"}]

\* Mutant: a direction with nothing to write is taken for one that ended.
RelayWriteCbNoEof(c, s) ==
  IF c.input[s] = <<>> THEN Shutdown(c, Other(s), "W")
  ELSE [Move(c, s) EXCEPT !.enabled[s] = @ \cup {"R"}]

\* redsocks_relay_writecb(), from = s; the output of the other side is empty
RelayWriteCb(c, s) ==
  IF c.input[s] = <<>> /\ "R" \in c.shut[s]
  THEN Shutdown(c, Other(s), "W")
  ELSE [Move(c, s) EXCEPT !.enabled[s] = IF "R" \in c.shut[s] THEN @ ELSE @ \cup {"R"}]

\* redsocks_event_error() for the end of side s.  It goes on with the client after
\* redsocks_shutdown(), which may have dropped it: then afterDrop.
EventEof(c, s) ==
  LET d == Shutdown(c, s, "R")
  IN  IF ~d.alive THEN [d EXCEPT !.afterDrop = TRUE]
      ELSE IF d.state = "pump_active" /\ d.output[Other(s)] = <<>>
      THEN Shutdown(d, Other(s), "W")
      ELSE d

\* redsocks_start_bufferpump(): the write events are added even with no data.
StartBufferPump(c) ==
  [c EXCEPT !.enabled = [s \in Side |-> {"R", "W"} \ c.shut[s]],
            !.evw = [s \in Side |-> "W" \notin c.shut[s]]]

\* redsocks_start_splicepump(): the write events are activated, to flush the
\* buffers, and the read events are added.
StartSplicePump(c) ==
  [c EXCEPT !.enabled = Both({}), !.evw = Both(FALSE), !.open = Both(TRUE),
            !.act = Both(TRUE), !.rd = Both(TRUE)]

\* redsocks_start_relay()
StartRelay(c) ==
  LET d == [c EXCEPT !.state = "pump_active"]
  IN  IF use_splice THEN StartSplicePump(d) ELSE StartBufferPump(d)

\* socks5_read_cb(), with one message in the input of the relay
Socks5ReadCb(c) ==
  LET m == Head(c.input["relay"])
      d == [c EXCEPT !.input["relay"] = Tail(@)]
  IN  CASE c.state = "method_sent" /\ m = "none" -> WriteHelper(d, <<"connect">>, "request_sent")
        [] c.state = "request_sent" /\ m = "ok_ip" -> WriteHelper(d, <<>>, "skip_address")
        [] c.state = "request_sent" /\ m = "ok_domain" -> WriteHelper(d, <<>>, "skip_domain")
        [] c.state = "skip_domain" /\ m = "size" -> WriteHelper(d, <<>>, "skip_address")
        [] c.state = "skip_address" /\ m = "addr" -> StartRelay(d)
        [] OTHER -> Dropped(d)

-----------------------------------------------------------------------------
(* bufferevent_readcb() and bufferevent_writecb().                         *)

\* The high watermark: one message in the handshake, HalfBuff in the pump, and
\* none for the client before that.
Room(s) ==
  CASE con.state = "pump_active" -> HalfBuff - Len(con.input[s])
    [] con.state # "pump_active" /\ s = "relay" -> 1 - Len(con.input[s])
    [] OTHER -> Len(net.rcv[s])

ReadCb(c, s) ==
  CASE c.state = "pump_active" -> RelayReadCb(c, s)
    [] c.state # "pump_active" /\ s = "relay" -> Socks5ReadCb(c)
    [] OTHER -> c

BufRead(s) ==
  LET n == IF Len(net.rcv[s]) < Room(s) THEN Len(net.rcv[s]) ELSE Room(s)
      in == SubSeq(net.rcv[s], 1, n)
  IN  /\ con.alive /\ "R" \in con.enabled[s] /\ n > 0
      /\ net' = [net EXCEPT !.rcv[s] = SubSeq(@, n + 1, Len(@))]
      /\ con' = ReadCb([con EXCEPT !.input[s] = @ \o in], s)
      /\ UNCHANGED <<use_splice, pumped, early>>

BufEof(s) ==
  /\ con.alive /\ "R" \in con.enabled[s]
  /\ net.rcv[s] = <<>> /\ net.fin[s]
  /\ con.state = "pump_active" => Len(con.input[s]) < HalfBuff
  /\ con' = EventEof(Disable(con, s, "R"), s)
  /\ net' = [net EXCEPT !.wfin = [t \in Side |-> @[t] \/ "W" \in con'.shut[t]]]
  /\ early' = (early \/ (s = "client" /\ con.state = "pump_active" /\ ~pumped))
  /\ UNCHANGED <<use_splice, pumped>>

\* redsocks_relay_connected(), then socks5_write_cb()
Connected ==
  /\ con.alive /\ con.state = "new" /\ con.evw["relay"]
  /\ con' = WriteHelper(con, <<"methods">>, "method_sent")
  /\ UNCHANGED <<net, use_splice, pumped, early>>

\* The callback is invoked once the output is empty; in the handshake it does nothing.
BufWrite(s) ==
  \E n \in 0 .. Len(con.output[s]) :
    LET c == [con EXCEPT !.output[s] = SubSeq(@, n + 1, Len(@)),
                         !.evw[s] = n < Len(con.output[s])]
    IN  /\ con.alive /\ con.state # "new" /\ con.evw[s]
        /\ n = 0 => con.output[s] = <<>>
        /\ con' = IF c.state = "pump_active" /\ ~c.evw[s] THEN RelayWriteCb(c, Other(s)) ELSE c
        /\ net' = [net EXCEPT !.snd[s] = @ \o SubSeq(con.output[s], 1, n),
                              !.wfin[s] = @ \/ "W" \in con'.shut[s]]
        /\ pumped' = (pumped \/ (s = "relay" /\ con.state = "pump_active"))
        /\ UNCHANGED <<use_splice, early>>

\* Connecting, reading or writing fails, a pipe cannot be had, or conn_pressure()
\* finds the connection idle.
Fail ==
  /\ con.alive
  /\ con' = Dropped(con)
  /\ UNCHANGED <<net, use_splice, pumped, early>>

-----------------------------------------------------------------------------
(* The splice pump.                                                        *)

\* redsplice_read_cb(): there is something to read and splice() moves it to the pipe,
\* whose reader is activated,
SpliceRead(s) ==
  \E n \in 1 .. Len(net.rcv[s]) :
    /\ con.alive /\ con.rd[s]
    /\ n <= PipeSize - Len(con.pipe[s])
    /\ con' = [con EXCEPT !.pipe[s] = @ \o SubSeq(net.rcv[s], 1, n), !.act[Other(s)] = TRUE]
    /\ net' = [net EXCEPT !.rcv[s] = SubSeq(@, n + 1, Len(@))]
    /\ UNCHANGED <<use_splice, pumped, early>>

\* or would block, because the pipe is full: the read event is deleted,
SpliceReadFull(s) ==
  /\ con.alive /\ con.rd[s]
  /\ net.rcv[s] # <<>> \/ net.fin[s]
  /\ Len(con.pipe[s]) = PipeSize
  /\ con' = [con EXCEPT !.rd[s] = FALSE]
  /\ UNCHANGED <<net, use_splice, pumped, early>>

\* Mutant: the writer is activated by data only.
SpliceReadEofQuiet(s) ==
  /\ con.alive /\ con.rd[s]
  /\ net.rcv[s] = <<>> /\ net.fin[s]
  /\ con' = [con EXCEPT !.shut[s] = @ \cup {"R"}, !.rd[s] = FALSE]
  /\ UNCHANGED <<net, use_splice, pumped, early>>

\* or returns zero at the peer's end, which a kernel may tell of a full pipe, too.
SpliceReadEof(s) ==
  /\ con.alive /\ con.rd[s]
  /\ net.rcv[s] = <<>> /\ net.fin[s]
  /\ con' = [con EXCEPT !.shut[s] = @ \cup {"R"}, !.rd[s] = FALSE, !.act[Other(s)] = TRUE]
  /\ UNCHANGED <<net, use_splice, pumped, early>>

\* Mutant: the pipe is drained first.
PendingPipeFirst(c, t) == c.pipe[Other(t)] \o c.output[t] \o c.input[Other(t)]

\* What waits to be written to side t, in the order in which it is.
Pending(c, t) == c.output[t] \o c.input[Other(t)] \o c.pipe[Other(t)]

\* The buffers after n items were written.
Written(c, t, n) ==
  LET s == Other(t)
      a == Len(c.output[t])
      b == a + Len(c.input[s])
      Cut(q, k) == IF k <= 0 THEN q ELSE SubSeq(q, k + 1, Len(q))
  IN  [c EXCEPT !.output[t] = SubSeq(@, n + 1, Len(@)),
                !.input[s] = Cut(@, n - a), !.pipe[s] = Cut(@, n - b)]

\* The end of redsplice_write_cb(), from the label decide on.
Decide(c, t) ==
  LET s == Other(t)
      hasData == Pending(c, t) # <<>>
      eof == ~hasData /\ "R" \in c.shut[s] /\ "W" \notin c.shut[t]
      d == [c EXCEPT !.shut[t] = @ \cup {"W"}, !.open[s] = FALSE]
  IN  CASE eof /\ shut_both(d) -> Dropped(d)
        [] eof /\ ~shut_both(d) -> [d EXCEPT !.rd[s] = FALSE, !.wr[t] = FALSE]
        [] OTHER -> [c EXCEPT !.rd[s] = ~hasData, !.wr[t] = hasData]

\* redsplice_write_cb(): invoked when the socket is writable, or activated.
SpliceWrite(t) ==
  \E n \in 0 .. Len(Pending(con, t)) :
    /\ con.alive /\ (con.wr[t] \/ con.act[t])
    /\ n = 0 => con.act[t] \/ Pending(con, t) = <<>>
    /\ con' = Decide([Written(con, t, n) EXCEPT !.act[t] = FALSE], t)
    /\ net' = [net EXCEPT !.snd[t] = @ \o SubSeq(Pending(con, t), 1, n),
                          !.wfin[t] = @ \/ "W" \in con'.shut[t]]
    /\ UNCHANGED <<use_splice, pumped, early>>

-----------------------------------------------------------------------------
(* The peers.  What they send arrives in order.                            *)

ClientSends ==
  /\ con.alive /\ ~net.fin["client"]
  /\ LET k == Len(net.sent["client"])
     IN  \/ /\ k < Len(Request)
            /\ net' = [net EXCEPT !.rcv["client"] = Append(@, Request[k + 1]),
                                  !.sent["client"] = Append(@, Request[k + 1])]
         \/ net' = [net EXCEPT !.fin["client"] = TRUE]
  /\ UNCHANGED <<con, use_splice, pumped, early>>

\* ss-local answers the requests it got, and then sends what the server sent.
Answer ==
  LET script == net.sent["relay"]
      last == IF script = <<>> THEN "" ELSE script[Len(script)]
      Got(m) == \E i \in DOMAIN net.snd["relay"] : net.snd["relay"][i] = m
      k == Cardinality({i \in DOMAIN script : script[i] \notin FromServer})
  IN  CASE last = "" /\ Got("methods") -> {"none", "invalid"}
        [] last = "none" /\ Got("connect") -> {"ok_ip", "ok_domain", "fail"}
        [] last = "ok_domain" -> {"size"}
        [] last \in {"ok_ip", "size"} -> {"addr"}
        [] last \notin (FromServer \ {"addr"}) \cup {""} -> {Reply[i] : i \in {k + 1} \cap DOMAIN Reply}
        [] OTHER -> {}

RelaySends ==
  /\ con.alive /\ ~net.fin["relay"]
  /\ \/ \E m \in Answer : net' = [net EXCEPT !.rcv["relay"] = Append(@, m),
                                            !.sent["relay"] = Append(@, m)]
     \/ net' = [net EXCEPT !.fin["relay"] = TRUE]
  /\ UNCHANGED <<con, use_splice, pumped, early>>

-----------------------------------------------------------------------------
Readable(s) == BufRead(s) \/ BufEof(s) \/ SpliceRead(s) \/ SpliceReadFull(s) \/ SpliceReadEof(s)
Writable(s) == BufWrite(s) \/ SpliceWrite(s)

Callback == Connected \/ \E s \in Side : Readable(s) \/ Writable(s)
Peer == ClientSends \/ RelaySends

-----------------------------------------------------------------------------
(* Properties.                                                             *)

\* What the handshake has written to the relay when it is in a state, and what it may
\* have taken from it.
Requests(state) ==
  CASE state = "new" -> <<>>
    [] state = "method_sent" -> <<"methods">>
    [] OTHER -> <<"methods", "connect">>

Answers(state) ==
  CASE state \in {"new", "method_sent"} -> {<<>>}
    [] state = "request_sent" -> {<<"none">>}
    [] state = "skip_domain" -> {<<"none", "ok_domain">>}
    [] state = "skip_address" -> {<<"none", "ok_ip">>, <<"none", "ok_domain", "size">>}
    [] OTHER -> {<<"none", "ok_ip", "addr">>, <<"none", "ok_domain", "size", "addr">>}

Way(s) == net.snd[Other(s)] \o con.output[Other(s)] \o con.input[s] \o con.pipe[s] \o net.rcv[s]

\* Both pumps keep the stream: whatever the order of the callbacks and however little
\* a socket accepts, what a peer sent is, in this order, what was written to the other
\* one, what waits in its output, what is in the input buffer, in the pipe and in the
\* socket.  The messages of the handshake come first and none of them is in between.
StreamIntact ==
  con.alive => /\ Way("client") = Requests(con.state) \o net.sent["client"]
               /\ \E a \in Answers(con.state) : net.sent["relay"] = a \o Way("relay")

\* The end of a stream is passed on after its last byte, also when it came in the
\* handshake.  The pump of buffers has one gap: the client's end that comes before the
\* first write callback of the relay.
EofAfterData ==
  /\ net.wfin["relay"] /\ ~early => net.snd["relay"] = Requests("pump_active") \o net.sent["client"]
  /\ net.wfin["client"]
       => \E a \in Answers("pump_active") : net.sent["relay"] = a \o net.snd["client"]

\* redsocks_event_error() reads the client after redsocks_shutdown(SHUT_RD), which may
\* free it.  It never does: a write direction is shut only after the read direction that
\* feeds it, so SHUT_RD is never the last of the four.
NotUsedAfterDrop ==
  /\ ~con.afterDrop
  /\ \A s \in Side : "W" \in con.shut[Other(s)] => "R" \in con.shut[s]

=============================================================================
