------------------------ MODULE RedsocksPumpProofs ------------------------
(***************************************************************************)
(* One connection of redsocks, for any request and any reply: the          *)
(* invariant of its two pumps, and the proof that the handshake and the    *)
(* pump of buffers preserve it.  RedsocksProofs goes on with the splice    *)
(* pump and with the life of a connection.                                 *)
(*                                                                         *)
(* StreamIntact says where the bytes are.  That they go on from there in   *)
(* order, and that a stream ends behind them, depends on which callbacks   *)
(* may still come: which side is read (Reads), which of the pumps runs     *)
(* (OnePump), that what waits in an input has a write callback to come     *)
(* (Buffered) and that nothing waits behind an end (Shuts, Drained).       *)
(* Sound is all of that for a connection that is alive.  A dropped one has *)
(* lost its buffers, and only what its sockets saw remains (Closed).       *)
(***************************************************************************)
EXTENDS RedsocksPump, SequenceTheorems, TLAPS

\* What is carried: the messages of the handshake and the data of the two peers.
Item ==
  FromServer \cup {"methods", "connect"}
    \cup {Request[i] : i \in 1 .. Len(Request)} \cup {Reply[i] : i \in 1 .. Len(Reply)}

Items == Seq(Item)

ConRecord ==
  [alive : BOOLEAN, state : {"new", "pump_active"} \cup Handshake,
   shut : [Side -> SUBSET {"R", "W"}], afterDrop : BOOLEAN,
   input : [Side -> Items], output : [Side -> Items],
   enabled : [Side -> SUBSET {"R", "W"}], evw : [Side -> BOOLEAN],
   pipe : [Side -> Items], open : [Side -> BOOLEAN],
   rd : [Side -> BOOLEAN], wr : [Side -> BOOLEAN], act : [Side -> BOOLEAN]]

NetRecord ==
  [rcv : [Side -> Items], fin : [Side -> BOOLEAN], sent : [Side -> Items],
   snd : [Side -> Items], wfin : [Side -> BOOLEAN]]

\* Concatenation, where it only matters that it is associative.
a \bullet b == a \o b

\* A socket is shut down for reading at the peer's end, and for writing after the other
\* one was for reading.
Shuts(c, n) ==
  \A s \in Side :
    /\ "R" \in c.shut[s] => n.fin[s] /\ n.rcv[s] = <<>>
    /\ "W" \in c.shut[Other(s)] => "R" \in c.shut[s]
    /\ n.wfin[s] => "W" \in c.shut[s]

\* What is shut down is not read again.
Reads(c) ==
  /\ \A s \in Side : "R" \in c.enabled[s] => "R" \notin c.shut[s]
  /\ c.state = "new" => "R" \notin c.enabled["relay"] /\ "R" \notin c.shut["relay"]

\* What the peer s sent and the other one has not lost: read, buffered, spliced or waiting.
Line(c, n, s) ==
  n.snd[Other(s)] \bullet c.output[Other(s)] \bullet c.input[s] \bullet c.pipe[s] \bullet n.rcv[s]

\* StreamIntact, for the connection c and its sockets n.
Streams(c, n) ==
  /\ Line(c, n, "client") = Requests(c.state) \bullet n.sent["client"]
  /\ \E a \in Answers(c.state) : n.sent["relay"] = a \bullet Line(c, n, "relay")

\* In the handshake nothing is written to the client, and to the relay the requests are.
Shaking(c, n) ==
  c.state # "pump_active" =>
    /\ \A s \in Side : c.pipe[s] = <<>> /\ "W" \notin c.shut[s]
    /\ c.input["relay"] = <<>> /\ c.output["client"] = <<>> /\ n.snd["client"] = <<>>
    /\ n.snd["relay"] \bullet c.output["relay"] = Requests(c.state)
    /\ c.input["client"] \bullet n.rcv["client"] = n.sent["client"]

\* The events of the splice pump and those of the bufferevents exclude each other.
OnePump(c, u) ==
  \A s \in Side :
    /\ c.rd[s] \/ c.wr[s] \/ c.act[s] \/ c.pipe[s] # <<>> => c.state = "pump_active" /\ u
    /\ c.state = "pump_active" /\ u => c.enabled[s] = {} /\ ~c.evw[s]

\* The pump of buffers leaves data in an input only while the output is not empty: the
\* write callback that will move it is still to come.
Buffered(c, u, p) ==
  c.state = "pump_active" /\ ~u =>
    /\ c.input["client"] # <<>> /\ p => c.output["relay"] # <<>>
    /\ c.input["relay"] # <<>> => c.output["client"] # <<>>

\* Nothing is left to be written to a socket that was shut down for writing.
Drained(c, e) ==
  \A s \in Side :
    "W" \in c.shut[Other(s)] /\ ~(e /\ s = "client")
      => c.output[Other(s)] = <<>> /\ c.input[s] = <<>> /\ c.pipe[s] = <<>>

\* A connection that is alive; u, p and e stand for use_splice, pumped and early.
Sound(c, n, u, p, e) ==
  /\ c \in ConRecord /\ n \in NetRecord /\ c.alive /\ ~c.afterDrop
  /\ Shuts(c, n) /\ Reads(c) /\ Streams(c, n) /\ Shaking(c, n)
  /\ OnePump(c, u) /\ Buffered(c, u, p) /\ Drained(c, e)
  /\ p => c.state = "pump_active"

\* EofAfterData: it speaks of the sockets only, so that it outlives the connection.
Ends(n, e) ==
  /\ n.wfin["relay"] /\ ~e => n.snd["relay"] = Requests("pump_active") \bullet n.sent["client"]
  /\ n.wfin["client"]
       => \E a \in Answers("pump_active") : n.sent["relay"] = a \bullet n.snd["client"]

\* A connection that was dropped.
Closed(c, n, e) ==
  /\ c \in ConRecord /\ n \in NetRecord /\ ~c.alive /\ ~c.afterDrop
  /\ Shuts(c, n) /\ Ends(n, e)

PumpInv ==
  /\ use_splice \in BOOLEAN /\ pumped \in BOOLEAN /\ early \in BOOLEAN
  /\ (Sound(con, net, use_splice, pumped, early) \/ Closed(con, net, early))

\* redsocks_accept_client() makes records of the right types.
LEMMA NewTypes ==
  NewConnection \in ConRecord /\ NewSockets \in NetRecord
<1>1. <<>> \in Items /\ Both(<<>>) \in [Side -> Items]
  BY DEF Items, Both
<1>2. Both({}) \in [Side -> SUBSET {"R", "W"}] /\ Both(FALSE) \in [Side -> BOOLEAN]
  BY DEF Both
<1>3. [s \in Side |-> IF s = "client" THEN {"R", "W"} ELSE {"W"}] \in [Side -> SUBSET {"R", "W"}]
  OBVIOUS
<1>4. [s \in Side |-> s = "relay"] \in [Side -> BOOLEAN]
  BY Zenon
<1> QED
  BY <1>1, <1>2, <1>3, <1>4 DEF NewConnection, NewSockets, ConRecord, NetRecord

\* redsocks_drop_client() forgets all of a client but how its sockets were shut down.
LEMMA DroppedFields ==
  ASSUME NEW c \in ConRecord
  PROVE  /\ Dropped(c) \in ConRecord /\ ~Dropped(c).alive /\ ~Dropped(c).afterDrop
         /\ Dropped(c).shut = c.shut
<1> DEFINE k == NewConnection
<1>1. k \in ConRecord /\ ~k.afterDrop
  BY NewTypes DEF NewConnection
<1> HIDE DEF k
<1>2. Dropped(c) = [k EXCEPT !.alive = FALSE, !.shut = c.shut]
  BY DEF Dropped, k
<1>3. c.shut \in [Side -> SUBSET {"R", "W"}]
  BY DEF ConRecord
<1> QED
  BY <1>1, <1>2, <1>3 DEF ConRecord

-----------------------------------------------------------------------------

\* Items are concatenated as sequences are.
LEMMA Cat ==
  /\ <<>> \in Items
  /\ \A a, b \in Items : a \bullet b \in Items
  /\ \A a, b, c \in Items : (a \bullet b) \bullet c = a \bullet (b \bullet c)
  /\ \A a \in Items : a \bullet <<>> = a /\ <<>> \bullet a = a
  BY ConcatProperties, ConcatAssociative, ConcatEmptySeq, EmptySeq DEF Items, \bullet

\* A buffer of which a callback takes the first n items.
LEMMA SplitAt ==
  ASSUME NEW q \in Items, NEW n \in 0 .. Len(q)
  PROVE  /\ SubSeq(q, 1, n) \in Items /\ SubSeq(q, n + 1, Len(q)) \in Items
         /\ SubSeq(q, 1, n) \bullet SubSeq(q, n + 1, Len(q)) = q
         /\ SubSeq(q, n + 1, Len(q)) = <<>> <=> n = Len(q)
<1>1. Len(q) \in Nat /\ \A i \in 1 .. Len(q) : q[i] \in Item
  BY LenProperties, ElementOfSeq DEF Items
<1>2. SubSeq(q, 1, n) \in Seq(Item)
  BY <1>1, SubSeqProperties
<1>3. SubSeq(q, n + 1, Len(q)) \in Seq(Item) /\ Len(SubSeq(q, n + 1, Len(q))) = Len(q) - n
  <2>1. Len(SubSeq(q, n + 1, Len(q))) = IF n + 1 <= Len(q) THEN Len(q) - (n + 1) + 1 ELSE 0
    BY <1>1, SubSeqProperties
  <2>2. SubSeq(q, n + 1, Len(q)) \in Seq(Item)
    BY <1>1, SubSeqProperties
  <2> QED
    BY <1>1, <2>1, <2>2
<1>4. SubSeq(q, 1, n) \o SubSeq(q, n + 1, Len(q)) = SubSeq(q, 1, Len(q))
  <2>1. q \in Seq(Item) /\ 1 \in 1 .. Len(q) + 1 /\ n \in 1 - 1 .. Len(q) /\ Len(q) \in n .. Len(q)
    BY <1>1 DEF Items
  <2> QED
    BY <2>1, ConcatAdjacentSubSeq
<1>5. SubSeq(q, 1, Len(q)) = q
  BY SubSeqFull DEF Items
<1>6. SubSeq(q, n + 1, Len(q)) = <<>> <=> n = Len(q)
  <2> DEFINE r == SubSeq(q, n + 1, Len(q))
  <2>1. r \in Seq(Item) /\ Len(r) = Len(q) - n
    BY <1>3
  <2> HIDE DEF r
  <2>2. r # <<>> => Len(r) > 0
    BY <2>1, EmptySeq
  <2>3. r = <<>> => Len(r) = 0
    BY EmptySeq, Zenon
  <2>4. r = <<>> <=> n = Len(q)
    BY <1>1, <2>1, <2>2, <2>3
  <2> QED
    BY <2>4 DEF r
<1> QED
  BY <1>2, <1>3, <1>4, <1>5, <1>6 DEF Items, \bullet


\* Items that move from the head of one place to the tail of the next.
LEMMA Shift ==
  ASSUME NEW p \in Items, NEW d \in Items, NEW x \in Items, NEW y \in Items
  PROVE  /\ p \bullet (d \bullet x) \bullet y = (p \bullet d) \bullet (x \bullet y)
         /\ p \bullet d \bullet x \bullet y = p \bullet (d \bullet x \bullet y)
<1>1. p \bullet d \in Items /\ d \bullet x \in Items
  BY Cat
<1>2. p \bullet (d \bullet x) = (p \bullet d) \bullet x
  BY Cat
<1>3. ((p \bullet d) \bullet x) \bullet y = (p \bullet d) \bullet (x \bullet y)
  BY <1>1, Cat
<1>4. (p \bullet (d \bullet x)) \bullet y = p \bullet ((d \bullet x) \bullet y)
  BY <1>1, Cat
<1> QED
  BY <1>2, <1>3, <1>4

\* The five places of an item between the peers, and its moves from one to the next.
LEMMA IntoPipe ==
  ASSUME NEW a \in Items, NEW b \in Items, NEW c \in Items, NEW d \in Items,
         NEW x \in Items, NEW y \in Items
  PROVE  a \bullet b \bullet c \bullet (d \bullet x) \bullet y
           = a \bullet b \bullet c \bullet d \bullet (x \bullet y)
<1>1. a \bullet b \in Items /\ a \bullet b \bullet c \in Items
  BY Cat
<1> QED
  BY <1>1, Shift

\* A read callback: from the socket to the input.
LEMMA IntoInput ==
  ASSUME NEW a \in Items, NEW b \in Items, NEW c \in Items, NEW x \in Items, NEW y \in Items
  PROVE  a \bullet b \bullet (c \bullet x) \bullet <<>> \bullet y
           = a \bullet b \bullet c \bullet <<>> \bullet (x \bullet y)
<1>1. a \bullet b \in Items /\ a \bullet b \bullet c \in Items /\ c \bullet x \in Items
      /\ a \bullet b \bullet (c \bullet x) \in Items
  BY Cat
<1>2. a \bullet b \bullet (c \bullet x) \bullet <<>> = a \bullet b \bullet (c \bullet x)
  BY <1>1, Cat
<1>3. a \bullet b \bullet c \bullet <<>> = a \bullet b \bullet c
  BY <1>1, Cat
<1> QED
  BY <1>1, <1>2, <1>3, Shift

\* bufferevent_write_buffer(): the whole input goes to the output.
LEMMA IntoOutput ==
  ASSUME NEW a \in Items, NEW b \in Items, NEW c \in Items, NEW d, NEW e
  PROVE  a \bullet (b \bullet c) \bullet <<>> \bullet d \bullet e = a \bullet b \bullet c \bullet d \bullet e
<1>1. a \bullet (b \bullet c) \bullet <<>> = a \bullet b \bullet c
  BY Cat
<1> QED
  BY <1>1

\* A write callback: from the output to the socket.
LEMMA IntoSocket ==
  ASSUME NEW a \in Items, NEW x \in Items, NEW y \in Items, NEW c, NEW d, NEW e
  PROVE  (a \bullet x) \bullet y \bullet c \bullet d \bullet e
           = a \bullet (x \bullet y) \bullet c \bullet d \bullet e
<1>1. (a \bullet x) \bullet y = a \bullet (x \bullet y)
  BY Cat
<1> QED
  BY <1>1

\* A sequence with one more item at the end.
LEMMA IsAppend ==
  ASSUME NEW q \in Items, NEW e \in Item, NEW r \in Items,
         Len(r) = Len(q) + 1, \A i \in 1 .. Len(q) : r[i] = q[i], r[Len(q) + 1] = e
  PROVE  q \bullet <<e>> = r
<1> DEFINE t == Append(q, e)
<1>1. /\ t \in Items /\ Len(t) = Len(q) + 1 /\ t[Len(q) + 1] = e
      /\ \A i \in 1 .. Len(q) : t[i] = q[i]
  BY AppendProperties DEF Items
<1>2. t = q \o <<e>>
  BY AppendIsConcat DEF Items
<1> HIDE DEF t
<1>3. Len(q) \in Nat
  BY LenProperties DEF Items
<1>4. \A i \in 1 .. Len(t) : t[i] = r[i]
  BY <1>1, <1>3
<1>5. t = r
  BY <1>1, <1>4, SeqEqual DEF Items
<1> QED
  BY <1>2, <1>5, Zenon DEF \bullet

\* One item is a sequence of items.
LEMMA Single == ASSUME NEW x \in Item PROVE <<x>> \in Items
  BY DEF Items

\* The two greetings of the handshake, one after the other.
LEMMA Pair ==
  ASSUME NEW x \in Item, NEW y \in Item
  PROVE  <<x, y>> \in Items /\ <<x>> \bullet <<y>> = <<x, y>>
<1> DEFINE q == <<x>>
           r == <<x, y>>
<1>1. q \in Items /\ r \in Items /\ Len(r) = Len(q) + 1 /\ r[Len(q) + 1] = y
  BY DEF Items
<1>2. \A i \in 1 .. Len(q) : r[i] = q[i]
  OBVIOUS
<1> HIDE DEF q, r
<1>3. r \in Items /\ q \bullet <<y>> = r
  BY <1>1, <1>2, IsAppend
<1> QED
  BY <1>3, Zenon DEF q, r

\* Three of them.
LEMMA Triple ==
  ASSUME NEW x \in Item, NEW y \in Item, NEW z \in Item
  PROVE  <<x, y, z>> \in Items /\ <<x, y>> \bullet <<z>> = <<x, y, z>>
<1> DEFINE q == <<x, y>>
           r == <<x, y, z>>
<1>1. q \in Items /\ r \in Items /\ Len(r) = Len(q) + 1 /\ r[Len(q) + 1] = z
  BY DEF Items
<1>2. \A i \in 1 .. Len(q) : r[i] = q[i]
  OBVIOUS
<1> HIDE DEF q, r
<1>3. r \in Items /\ q \bullet <<z>> = r
  BY <1>1, <1>2, IsAppend
<1> QED
  BY <1>3, Zenon DEF q, r

\* Four of them.
LEMMA Quadruple ==
  ASSUME NEW x \in Item, NEW y \in Item, NEW z \in Item, NEW w \in Item
  PROVE  <<x, y, z, w>> \in Items
  BY DEF Items

\* What the messages of the handshake add to the requests and to the answers.
LEMMA Scripts ==
  /\ \A st : Requests(st) \in Items /\ \A a \in Answers(st) : a \in Items
  /\ Requests("new") \bullet <<"methods">> = Requests("method_sent")
  /\ Requests("method_sent") \bullet <<"connect">> = Requests("request_sent")
  /\ \A st : st \notin {"new", "method_sent"} => Requests(st) = Requests("request_sent")
  /\ Answers("new") = Answers("method_sent")
  /\ \A a \in Answers("method_sent") : a \bullet <<"none">> \in Answers("request_sent")
  /\ \A a \in Answers("request_sent") :
       a \bullet <<"ok_ip">> \in Answers("skip_address") /\ a \bullet <<"ok_domain">> \in Answers("skip_domain")
  /\ \A a \in Answers("skip_domain") : a \bullet <<"size">> \in Answers("skip_address")
  /\ \A a \in Answers("skip_address") : a \bullet <<"addr">> \in Answers("pump_active")
<1>1. /\ "methods" \in Item /\ "connect" \in Item /\ "none" \in Item /\ "ok_ip" \in Item
      /\ "ok_domain" \in Item /\ "size" \in Item /\ "addr" \in Item
  BY Zenon DEF Item, FromServer
<1>2. /\ Requests("new") = <<>> /\ Requests("method_sent") = <<"methods">>
      /\ \A st : st \notin {"new", "method_sent"} => Requests(st) = <<"methods", "connect">>
  BY Zenon DEF Requests
<1>3. /\ Answers("new") = {<<>>} /\ Answers("method_sent") = {<<>>}
      /\ Answers("request_sent") = {<<"none">>}
      /\ Answers("skip_domain") = {<<"none", "ok_domain">>}
      /\ Answers("skip_address") = {<<"none", "ok_ip">>, <<"none", "ok_domain", "size">>}
  BY Zenon DEF Answers
<1>4. \A st : st \notin {"new", "method_sent", "request_sent", "skip_domain", "skip_address"} =>
        Answers(st) = {<<"none", "ok_ip", "addr">>, <<"none", "ok_domain", "size", "addr">>}
  BY Zenon DEF Answers
<1>5. /\ <<"methods">> \in Items /\ <<"methods", "connect">> \in Items
      /\ <<"methods">> \bullet <<"connect">> = <<"methods", "connect">>
      /\ <<>> \bullet <<"methods">> = <<"methods">> /\ <<>> \in Items
  BY <1>1, Single, Pair, Triple, Quadruple, Cat, Zenon
<1>6. /\ <<"none">> \in Items /\ <<"none", "ok_domain">> \in Items
      /\ <<"none", "ok_ip">> \in Items /\ <<"none", "ok_domain", "size">> \in Items
      /\ <<"none", "ok_ip", "addr">> \in Items /\ <<"none", "ok_domain", "size", "addr">> \in Items
  BY <1>1, Single, Pair, Triple, Quadruple, Zenon
<1>7. <<>> \bullet <<"none">> = <<"none">>
  BY <1>6, Cat, Zenon
<1>8. <<"none">> \bullet <<"ok_domain">> = <<"none", "ok_domain">>
  BY <1>1, Pair
<1>9. <<"none">> \bullet <<"ok_ip">> = <<"none", "ok_ip">>
  BY <1>1, Pair
<1>10. <<"none", "ok_domain">> \bullet <<"size">> = <<"none", "ok_domain", "size">>
  BY <1>1, Triple
<1>11. <<"none", "ok_ip">> \bullet <<"addr">> = <<"none", "ok_ip", "addr">>
  BY <1>1, Triple
<1>12. <<"none", "ok_domain", "size">> \bullet <<"addr">> = <<"none", "ok_domain", "size", "addr">>
  <2> DEFINE q == <<"none", "ok_domain", "size">>
             r == <<"none", "ok_domain", "size", "addr">>
  <2>1. Len(r) = Len(q) + 1 /\ r[Len(q) + 1] = "addr" /\ \A i \in 1 .. Len(q) : r[i] = q[i]
    OBVIOUS
  <2>2. q \in Items /\ r \in Items
    BY <1>6
  <2> HIDE DEF q, r
  <2>3. q \bullet <<"addr">> = r
    BY <1>1, <2>1, <2>2, IsAppend
  <2> QED
    BY <2>3, Zenon DEF q, r
<1>13. \A st : Requests(st) \in Items
  BY <1>2, <1>5, Zenon
<1>14. \A st : \A a \in Answers(st) : a \in Items
  <2> TAKE st
  <2>1. CASE st \in {"new", "method_sent", "request_sent", "skip_domain", "skip_address"}
    BY <1>3, <1>5, <1>6, <2>1, Zenon
  <2>2. CASE st \notin {"new", "method_sent", "request_sent", "skip_domain", "skip_address"}
    BY <1>4, <1>6, <2>2, Zenon
  <2> QED
    BY <2>1, <2>2
<1> QED
  BY <1>2, <1>3, <1>4, <1>5, <1>13, <1>14, <1>7, <1>8, <1>9, <1>10, <1>11, <1>12, Zenon

-----------------------------------------------------------------------------
(* What the operators do to a connection.                                  *)

\* What no callback of the bufferevents changes.
Carried(c, d) ==
  /\ d \in ConRecord /\ d.alive = c.alive /\ d.afterDrop = c.afterDrop
  /\ d.pipe = c.pipe /\ d.rd = c.rd /\ d.wr = c.wr /\ d.act = c.act

\* The types of the parts of a connection and of its sockets.
LEMMA Types ==
  ASSUME NEW c \in ConRecord, NEW n \in NetRecord, NEW s \in Side
  PROVE  /\ c.output[s] \in Items /\ c.input[s] \in Items /\ c.pipe[s] \in Items
         /\ n.rcv[s] \in Items /\ n.sent[s] \in Items /\ n.snd[s] \in Items
         /\ c.output \in [Side -> Items] /\ c.input \in [Side -> Items] /\ c.pipe \in [Side -> Items]
         /\ c.shut \in [Side -> SUBSET {"R", "W"}] /\ c.enabled \in [Side -> SUBSET {"R", "W"}]
         /\ n.rcv \in [Side -> Items] /\ n.sent \in [Side -> Items] /\ n.snd \in [Side -> Items]
         /\ Other(s) \in Side /\ Other(s) # s /\ Other(Other(s)) = s
         /\ \A t \in Side : t = s \/ t = Other(s)
         /\ "client" \in Side /\ "relay" \in Side /\ Other("client") = "relay" /\ Other("relay") = "client"
<1>1. /\ c.output \in [Side -> Items] /\ c.input \in [Side -> Items] /\ c.pipe \in [Side -> Items]
      /\ c.shut \in [Side -> SUBSET {"R", "W"}] /\ c.enabled \in [Side -> SUBSET {"R", "W"}]
  BY DEF ConRecord
<1>2. n.rcv \in [Side -> Items] /\ n.sent \in [Side -> Items] /\ n.snd \in [Side -> Items]
  BY DEF NetRecord
<1>3. /\ Other(s) \in Side /\ Other(s) # s /\ Other(Other(s)) = s
      /\ \A t \in Side : t = s \/ t = Other(s)
      /\ "client" \in Side /\ "relay" \in Side /\ Other("client") = "relay" /\ Other("relay") = "client"
  BY DEF Side, Other
<1> QED
  BY <1>1, <1>2, <1>3

\* redsocks_shutdown() before it looks whether all is shut down.
Off(c, s, how) == [Disable(c, s, how) EXCEPT !.shut[s] = @ \cup {how}]

\* What redsocks_shutdown() changes.
LEMMA OffFields ==
  ASSUME NEW c \in ConRecord, NEW s \in Side, NEW how \in {"R", "W"}
  PROVE  LET d == Off(c, s, how)
         IN  /\ Carried(c, d) /\ d.state = c.state /\ d.input = c.input /\ d.output = c.output
             /\ d.shut = [c.shut EXCEPT ![s] = @ \cup {how}]
             /\ d.enabled = [c.enabled EXCEPT ![s] = @ \ {how}]
             /\ d.evw = [c.evw EXCEPT ![s] = IF how = "W" THEN FALSE ELSE @]
<1> DEFINE e == Disable(c, s, how)
           d == Off(c, s, how)
<1>1. /\ Carried(c, e) /\ e.state = c.state /\ e.input = c.input /\ e.output = c.output
      /\ e.shut = c.shut /\ e.enabled = [c.enabled EXCEPT ![s] = @ \ {how}]
      /\ e.evw = [c.evw EXCEPT ![s] = IF how = "W" THEN FALSE ELSE @]
  BY DEF Disable, ConRecord, Carried
<1>2. d = [e EXCEPT !.shut[s] = @ \cup {how}]
  BY DEF Off
<1> HIDE DEF d, e
<1>3. /\ Carried(c, d) /\ d.state = e.state /\ d.input = e.input /\ d.output = e.output
      /\ d.shut = [e.shut EXCEPT ![s] = @ \cup {how}] /\ d.enabled = e.enabled /\ d.evw = e.evw
  BY <1>1, <1>2 DEF ConRecord, Carried
<1> QED
  BY <1>1, <1>3 DEF d

\* bufferevent_disable(EV_READ) changes what is enabled only.
LEMMA DisableFields ==
  ASSUME NEW c \in ConRecord, NEW s \in Side
  PROVE  LET d == Disable(c, s, "R")
         IN  /\ Carried(c, d) /\ d.state = c.state /\ d.input = c.input /\ d.output = c.output
             /\ d.shut = c.shut /\ d.evw = c.evw
             /\ d.enabled = [c.enabled EXCEPT ![s] = @ \ {"R"}]
  BY DEF Disable, ConRecord, Carried

\* bufferevent_write() appends to the output.
LEMMA WriteBufferFields ==
  ASSUME NEW c \in ConRecord, NEW s \in Side, NEW q \in Items
  PROVE  LET d == WriteBuffer(c, s, q)
         IN  /\ Carried(c, d) /\ d.state = c.state /\ d.input = c.input
             /\ d.shut = c.shut /\ d.enabled = c.enabled
             /\ d.output = [c.output EXCEPT ![s] = @ \bullet q]
<1> DEFINE b == c.evw[s] \/ (q # <<>> /\ "W" \in c.enabled[s])
           d == WriteBuffer(c, s, q)
<1>1. b \in BOOLEAN
  BY Zenon
<1>2. d = [c EXCEPT !.output[s] = @ \bullet q, !.evw[s] = b]
  BY Zenon DEF WriteBuffer, \bullet
<1>3. c.output[s] \bullet q \in Items
  BY Cat DEF ConRecord
<1> SUFFICES /\ Carried(c, d) /\ d.state = c.state /\ d.input = c.input
             /\ d.shut = c.shut /\ d.enabled = c.enabled
             /\ d.output = [c.output EXCEPT ![s] = @ \bullet q]
  OBVIOUS
<1> HIDE DEF b, d
<1> QED
  BY <1>1, <1>2, <1>3 DEF ConRecord, Carried

\* bufferevent_write_buffer() takes all of the input to the other output.
LEMMA MoveFields ==
  ASSUME NEW c \in ConRecord, NEW s \in Side
  PROVE  LET d == Move(c, s)
         IN  /\ Carried(c, d) /\ d.state = c.state /\ d.shut = c.shut /\ d.enabled = c.enabled
             /\ d.output = [c.output EXCEPT ![Other(s)] = @ \bullet c.input[s]]
             /\ d.input = [c.input EXCEPT ![s] = <<>>]
<1> DEFINE b == WriteBuffer(c, Other(s), c.input[s])
           d == Move(c, s)
<1>1. /\ Carried(c, b) /\ b.state = c.state /\ b.input = c.input /\ b.shut = c.shut
      /\ b.enabled = c.enabled /\ b.output = [c.output EXCEPT ![Other(s)] = @ \bullet c.input[s]]
  <2>1. Other(s) \in Side /\ c.input[s] \in Items
    BY DEF Other, Side, ConRecord
  <2> QED
    BY <2>1, WriteBufferFields
<1>2. d = [b EXCEPT !.input[s] = <<>>]
  BY Zenon DEF Move
<1> SUFFICES /\ Carried(c, d) /\ d.state = c.state /\ d.shut = c.shut /\ d.enabled = c.enabled
             /\ d.output = [c.output EXCEPT ![Other(s)] = @ \bullet c.input[s]]
             /\ d.input = [c.input EXCEPT ![s] = <<>>]
  OBVIOUS
<1> HIDE DEF b, d
<1> QED
  BY <1>1, <1>2, Cat DEF ConRecord, Carried

\* redsocks_write_helper() sends the next message of the handshake and reads the relay.
LEMMA WriteHelperFields ==
  ASSUME NEW c \in ConRecord, NEW q \in Items, NEW st \in Handshake
  PROVE  LET d == WriteHelper(c, q, st)
         IN  /\ Carried(c, d) /\ d.state = st /\ d.input = c.input /\ d.shut = c.shut
             /\ d.output = [c.output EXCEPT !["relay"] = @ \bullet q]
             /\ d.enabled = [c.enabled EXCEPT !["relay"] = @ \cup {"R"}]
<1> DEFINE b == WriteBuffer(c, "relay", q)
           d == WriteHelper(c, q, st)
<1>1. /\ Carried(c, b) /\ b.state = c.state /\ b.input = c.input /\ b.shut = c.shut
      /\ b.enabled = c.enabled /\ b.output = [c.output EXCEPT !["relay"] = @ \bullet q]
  BY WriteBufferFields DEF Side
<1>2. d = [b EXCEPT !.state = st, !.enabled["relay"] = @ \cup {"R"}]
  BY Zenon DEF WriteHelper
<1> SUFFICES /\ Carried(c, d) /\ d.state = st /\ d.input = c.input /\ d.shut = c.shut
             /\ d.output = [c.output EXCEPT !["relay"] = @ \bullet q]
             /\ d.enabled = [c.enabled EXCEPT !["relay"] = @ \cup {"R"}]
  OBVIOUS
<1> HIDE DEF b, d
<1> QED
  BY <1>1, <1>2 DEF ConRecord, Carried, Side

\* redsocks_start_relay() keeps the buffers; the splice pump disables both bufferevents.
LEMMA StartRelayFields ==
  ASSUME NEW c \in ConRecord, use_splice \in BOOLEAN
  PROVE  LET d == StartRelay(c)
         IN  /\ d \in ConRecord /\ d.state = "pump_active"
             /\ d.alive = c.alive /\ d.afterDrop = c.afterDrop /\ d.shut = c.shut
             /\ d.input = c.input /\ d.output = c.output /\ d.pipe = c.pipe
             /\ ~use_splice => d.rd = c.rd /\ d.wr = c.wr /\ d.act = c.act
             /\ \A s \in Side : d.enabled[s] \subseteq {"R", "W"} \ c.shut[s]
             /\ use_splice => \A s \in Side : d.enabled[s] = {} /\ ~d.evw[s]
<1> DEFINE d == StartRelay(c)
           b == [c EXCEPT !.state = "pump_active"]
<1>1. CASE use_splice
  <2>1. d = [b EXCEPT !.enabled = Both({}), !.evw = Both(FALSE), !.open = Both(TRUE),
                      !.act = Both(TRUE), !.rd = Both(TRUE)]
    BY <1>1, Zenon DEF StartRelay, StartSplicePump
  <2>2. /\ Both({}) \in [Side -> SUBSET {"R", "W"}] /\ Both(FALSE) \in [Side -> BOOLEAN]
        /\ Both(TRUE) \in [Side -> BOOLEAN] /\ \A s \in Side : Both({})[s] = {} /\ ~Both(FALSE)[s]
    BY DEF Both
  <2> HIDE DEF d
  <2>3. /\ d \in ConRecord /\ d.state = "pump_active"
        /\ d.alive = c.alive /\ d.afterDrop = c.afterDrop /\ d.shut = c.shut
        /\ d.input = c.input /\ d.output = c.output /\ d.pipe = c.pipe
        /\ d.enabled = Both({}) /\ d.evw = Both(FALSE)
    BY <2>1, <2>2 DEF ConRecord
  <2> QED
    BY <1>1, <2>2, <2>3 DEF d
<1>2. CASE ~use_splice
  <2> DEFINE f == [s \in Side |-> {"R", "W"} \ c.shut[s]]
             g == [s \in Side |-> "W" \notin c.shut[s]]
  <2>1. d = [b EXCEPT !.enabled = f, !.evw = g]
    <3>1. b.shut = c.shut
      BY DEF ConRecord
    <3> QED
      BY <1>2, <3>1, Zenon DEF StartRelay, StartBufferPump
  <2>2. f \in [Side -> SUBSET {"R", "W"}] /\ \A s \in Side : f[s] \subseteq {"R", "W"} \ c.shut[s]
    OBVIOUS
  <2>3. g \in [Side -> BOOLEAN]
    BY Zenon
  <2> HIDE DEF d, f, g
  <2>4. /\ d \in ConRecord /\ d.state = "pump_active"
        /\ d.alive = c.alive /\ d.afterDrop = c.afterDrop /\ d.shut = c.shut
        /\ d.input = c.input /\ d.output = c.output /\ d.pipe = c.pipe
        /\ d.rd = c.rd /\ d.wr = c.wr /\ d.act = c.act /\ d.enabled = f
    BY <2>1, <2>2, <2>3 DEF ConRecord
  <2> QED
    BY <1>2, <2>2, <2>4 DEF d
<1> QED
  BY <1>1, <1>2

\* The associativity of Cat, for three named sequences.
LEMMA Assoc ==
  ASSUME NEW a \in Items, NEW b \in Items, NEW c \in Items
  PROVE  (a \bullet b) \bullet c = a \bullet (b \bullet c)
  BY Cat

\* An assignment to an input changes nothing else.
LEMMA InputFields ==
  ASSUME NEW c \in ConRecord, NEW s \in Side, NEW q \in Items
  PROVE  LET d == [c EXCEPT !.input[s] = q]
         IN  /\ Carried(c, d) /\ d.state = c.state /\ d.shut = c.shut /\ d.enabled = c.enabled
             /\ d.evw = c.evw /\ d.output = c.output
             /\ d.input = [c.input EXCEPT ![s] = q]
  BY DEF ConRecord, Carried

\* A read of a socket changes nothing else.
LEMMA RcvFields ==
  ASSUME NEW n \in NetRecord, NEW s \in Side, NEW q \in Items
  PROVE  LET m == [n EXCEPT !.rcv[s] = q]
         IN  /\ m \in NetRecord /\ m.rcv = [n.rcv EXCEPT ![s] = q]
             /\ m.fin = n.fin /\ m.sent = n.sent /\ m.snd = n.snd /\ m.wfin = n.wfin
  BY DEF NetRecord

-----------------------------------------------------------------------------
(* The handshake.                                                          *)

\* In the handshake the two lines are what the requests and the answers say.
LEMMA ShakingStreams ==
  ASSUME NEW c \in ConRecord, NEW n \in NetRecord, c.state # "pump_active", Shaking(c, n)
  PROVE  /\ Line(c, n, "client") = Requests(c.state) \bullet n.sent["client"]
         /\ Line(c, n, "relay") = n.rcv["relay"]
<1> DEFINE r == Requests(c.state)
           i == c.input["client"]
           q == n.rcv["client"]
<1>1. r \in Items /\ i \in Items /\ q \in Items /\ n.rcv["relay"] \in Items
  BY Types, Scripts DEF Side
<1>2. Line(c, n, "client") = r \bullet i \bullet <<>> \bullet q /\ i \bullet q = n.sent["client"]
  BY DEF Line, Shaking, Side, Other
<1>3. Line(c, n, "relay") = <<>> \bullet <<>> \bullet <<>> \bullet <<>> \bullet n.rcv["relay"]
  BY DEF Line, Shaking, Side, Other
<1> HIDE DEF r, i, q
<1>4. r \bullet i \bullet <<>> \bullet q = r \bullet (i \bullet q)
  BY <1>1, Cat
<1>5. Line(c, n, "relay") = n.rcv["relay"]
  <2>1. <<>> \bullet <<>> = <<>> /\ <<>> \bullet n.rcv["relay"] = n.rcv["relay"]
    BY <1>1, Cat
  <2> QED
    BY <1>3, <2>1
<1> QED
  BY <1>2, <1>4, <1>5 DEF r

\* What is known of a connection in the handshake,
LEMMA ShakingHas ==
  ASSUME NEW c, NEW n, NEW u, NEW p, NEW e, Sound(c, n, u, p, e), c.state # "pump_active"
  PROVE  /\ ~p /\ Shaking(c, n) /\ Shuts(c, n) /\ Reads(c)
         /\ \A s \in Side : ~c.rd[s] /\ ~c.wr[s] /\ ~c.act[s]
         /\ \E a \in Answers(c.state) : n.sent["relay"] = a \bullet n.rcv["relay"]
<1>1. /\ c \in ConRecord /\ n \in NetRecord /\ Shaking(c, n) /\ Shuts(c, n) /\ Reads(c) /\ ~p
      /\ Streams(c, n) /\ OnePump(c, u)
  BY Zenon DEF Sound
<1>2. \A s \in Side : ~c.rd[s] /\ ~c.wr[s] /\ ~c.act[s]
  BY <1>1 DEF OnePump
<1>3. Line(c, n, "relay") = n.rcv["relay"]
  BY <1>1, ShakingStreams
<1> QED
  BY <1>1, <1>2, <1>3 DEF Streams

\* and what has to be shown of it.
LEMMA ShakingSound ==
  ASSUME NEW c \in ConRecord, NEW n \in NetRecord, NEW u, NEW e, c.alive, ~c.afterDrop,
         c.state # "pump_active", Shaking(c, n), Shuts(c, n), Reads(c),
         \A s \in Side : ~c.rd[s] /\ ~c.wr[s] /\ ~c.act[s],
         \E a \in Answers(c.state) : n.sent["relay"] = a \bullet n.rcv["relay"],
         NEW p, ~p
  PROVE  Sound(c, n, u, p, e)
<1>1. Streams(c, n)
  BY ShakingStreams DEF Streams
<1>2. OnePump(c, u) /\ Buffered(c, u, p)
  BY DEF OnePump, Buffered, Shaking
<1>3. Drained(c, e)
  BY DEF Drained, Shaking, Side, Other
<1> QED
  BY <1>1, <1>2, <1>3 DEF Sound

\* redsocks_relay_connected() sends the methods and nothing is lost.
LEMMA ConnectedSound ==
  ASSUME Sound(con, net, use_splice, pumped, early), Connected
  PROVE  Sound(con', net', use_splice, pumped', early')
<1> DEFINE m == <<"methods">>
<1>1. /\ con \in ConRecord /\ net \in NetRecord /\ con.alive /\ ~con.afterDrop /\ con.state = "new"
      /\ con' = WriteHelper(con, m, "method_sent") /\ net' = net /\ pumped' = pumped
      /\ m \in Items
  <2>1. "methods" \in Item
    BY DEF Item
  <2> QED
    BY <2>1, Single DEF Sound, Connected
<1>2. /\ ~pumped /\ Shaking(con, net) /\ Shuts(con, net) /\ Reads(con)
      /\ \A s \in Side : ~con.rd[s] /\ ~con.wr[s] /\ ~con.act[s]
      /\ \E a \in Answers("new") : net.sent["relay"] = a \bullet net.rcv["relay"]
  BY <1>1, ShakingHas
<1>3. /\ Carried(con, con') /\ con'.state = "method_sent" /\ con'.input = con.input /\ con'.shut = con.shut
      /\ con'.output = [con.output EXCEPT !["relay"] = @ \bullet m]
      /\ con'.enabled = [con.enabled EXCEPT !["relay"] = @ \cup {"R"}]
  BY <1>1, WriteHelperFields DEF Handshake
<1> HIDE DEF m
<1>4. Shaking(con', net')
  <2>1. /\ net.snd["relay"] \in Items /\ con.output["relay"] \in Items
        /\ con.output \in [Side -> Items] /\ "relay" \in Side /\ "client" \in Side
    BY <1>1, Types DEF Side
  <2>2. net.snd["relay"] \bullet (con.output["relay"] \bullet m) = Requests("method_sent")
    <3>1. net.snd["relay"] \bullet con.output["relay"] = Requests("new")
      BY <1>1, <1>2 DEF Shaking
    <3>2. Requests("new") \bullet m = Requests("method_sent")
      BY Scripts DEF m
    <3>3. m \in Items
      BY <1>1
    <3> DEFINE a == net.snd["relay"]
               b == con.output["relay"]
    <3>4. a \in Items /\ b \in Items /\ (a \bullet b) \bullet m = Requests("method_sent")
      BY <2>1, <3>1, <3>2
    <3> HIDE DEF a, b
    <3>5. a \bullet (b \bullet m) = (a \bullet b) \bullet m
      BY <3>3, <3>4, Cat
    <3> QED
      BY <3>4, <3>5 DEF a, b
  <2> QED
    BY <1>1, <1>2, <1>3, <2>1, <2>2 DEF Shaking, Carried
<1>5. Shuts(con', net') /\ Reads(con')
  <2>1. con.enabled \in [Side -> SUBSET {"R", "W"}]
    BY <1>1, Types DEF Side
  <2> QED
    BY <1>1, <1>2, <1>3, <2>1 DEF Shuts, Reads
<1>6. \E a \in Answers("method_sent") : net.sent["relay"] = a \bullet net.rcv["relay"]
  BY <1>2, Scripts
<1> QED
  BY <1>1, <1>2, <1>3, <1>4, <1>5, <1>6, ShakingSound DEF Carried

\* What the client sends in the handshake is kept in its input.
LEMMA ClientReadSound ==
  ASSUME Sound(con, net, use_splice, pumped, early), BufRead("client"), con.state # "pump_active"
  PROVE  Sound(con', net', use_splice, pumped', early')
<1> DEFINE r == net.rcv["client"]
           k == Len(r)
           x == SubSeq(r, 1, k)
           y == SubSeq(r, k + 1, Len(r))
           i == con.input["client"] \bullet x
<1>1. con \in ConRecord /\ net \in NetRecord /\ con.alive /\ ~con.afterDrop /\ "client" \in Side
  BY DEF Sound, Side
<1>2. /\ ~pumped /\ Shaking(con, net) /\ Shuts(con, net) /\ Reads(con)
      /\ \A s \in Side : ~con.rd[s] /\ ~con.wr[s] /\ ~con.act[s]
      /\ \E a \in Answers(con.state) : net.sent["relay"] = a \bullet net.rcv["relay"]
  BY ShakingHas
<1>3. /\ r \in Items /\ con.input["client"] \in Items /\ k \in 0 .. Len(r)
      /\ x \in Items /\ y \in Items /\ r = x \bullet y
  <2>1. r \in Items /\ con.input["client"] \in Items
    BY <1>1, Types
  <2>2. k \in 0 .. Len(r)
    BY <2>1, LenProperties DEF Items
  <2> QED
    BY <2>1, <2>2, SplitAt
<1>4. /\ "R" \in con.enabled["client"] /\ pumped' = pumped
      /\ net' = [net EXCEPT !.rcv["client"] = y]
      /\ con' = [con EXCEPT !.input["client"] = i]
  <2>1. Room("client") = k
    BY Zenon DEF Room
  <2>2. (IF Len(r) < Room("client") THEN Len(r) ELSE Room("client")) = k
    BY <2>1
  <2>3. \A c : c.state # "pump_active" => ReadCb(c, "client") = c
    BY Zenon DEF ReadCb
  <2>4. [con EXCEPT !.input["client"] = i].state = con.state
    BY <1>1 DEF ConRecord
  <2> QED
    BY <2>2, <2>3, <2>4, Zenon DEF BufRead, \bullet
<1>5. i \in Items
  BY <1>3, Cat
<1> HIDE DEF i, r, k, x, y
<1>6. /\ Carried(con, con') /\ con'.state = con.state /\ con'.shut = con.shut /\ con'.enabled = con.enabled
       /\ con'.evw = con.evw /\ con'.output = con.output
       /\ con'.input = [con.input EXCEPT !["client"] = i]
       /\ net' \in NetRecord /\ net'.rcv = [net.rcv EXCEPT !["client"] = y]
       /\ net'.fin = net.fin /\ net'.sent = net.sent /\ net'.snd = net.snd /\ net'.wfin = net.wfin
  BY <1>1, <1>3, <1>4, <1>5, InputFields, RcvFields
<1>7. Shaking(con', net')
  <2>1. /\ con.input["client"] \in Items /\ con.input \in [Side -> Items] /\ net.rcv \in [Side -> Items]
        /\ "relay" \in Side
    BY <1>1, Types DEF Side
  <2>2. i \bullet y = con.input["client"] \bullet r
    BY <1>3, Assoc DEF i
  <2> QED
    BY <1>1, <1>2, <1>6, <2>1, <2>2 DEF Shaking, Carried, r
<1>8. Shuts(con', net') /\ Reads(con')
  <2>1. net.rcv \in [Side -> Items] /\ "R" \notin con.shut["client"]
    BY <1>1, <1>2, <1>4, Types DEF Reads
  <2> QED
    BY <1>1, <1>2, <1>6, <2>1 DEF Shuts, Reads
<1>9. \E a \in Answers(con'.state) : net'.sent["relay"] = a \bullet net'.rcv["relay"]
  <2>1. net'.rcv["relay"] = net.rcv["relay"]
    BY <1>1, <1>6, Types DEF Side
  <2> QED
    BY <1>2, <1>6, <2>1
<1>10. /\ con' \in ConRecord /\ con'.alive /\ ~con'.afterDrop /\ con'.state # "pump_active"
      /\ ~pumped' /\ \A s \in Side : ~con'.rd[s] /\ ~con'.wr[s] /\ ~con'.act[s]
  BY <1>1, <1>2, <1>4, <1>6 DEF Carried
<1> QED
  BY <1>6, <1>7, <1>8, <1>9, <1>10, ShakingSound

\* The end of a stream is passed on after its data.
LEMMA SoundEnds ==
  ASSUME NEW c, NEW n, NEW u, NEW p, NEW e \in BOOLEAN, Sound(c, n, u, p, e)
  PROVE  Ends(n, e)
<1>1. /\ c \in ConRecord /\ n \in NetRecord /\ Shuts(c, n) /\ Streams(c, n) /\ Shaking(c, n) /\ Drained(c, e)
  BY Zenon DEF Sound
<1>2. ASSUME NEW s \in Side, n.wfin[Other(s)], ~(e /\ s = "client")
      PROVE  c.state = "pump_active" /\ Line(c, n, s) = n.snd[Other(s)]
  <2>1. Other(s) \in Side /\ n.snd[Other(s)] \in Items
    <3>1. Other(s) \in Side
      BY DEF Side, Other
    <3> QED
      BY <1>1, <3>1, Types
  <2>2. "W" \in c.shut[Other(s)]
    BY <1>1, <1>2, <2>1 DEF Shuts
  <2>3. c.output[Other(s)] = <<>> /\ c.input[s] = <<>> /\ c.pipe[s] = <<>>
    BY <1>1, <1>2, <2>2 DEF Drained
  <2>4. n.rcv[s] = <<>> /\ c.state = "pump_active"
    BY <1>1, <2>1, <2>2 DEF Shuts, Shaking
  <2>5. \A a \in Items : a \bullet <<>> \bullet <<>> \bullet <<>> \bullet <<>> = a
    BY Cat
  <2> QED
    BY <2>1, <2>3, <2>4, <2>5 DEF Line
<1>3. n.wfin["relay"] /\ ~e => n.snd["relay"] = Requests("pump_active") \bullet n.sent["client"]
  <2>1. "client" \in Side /\ Other("client") = "relay"
    BY DEF Side, Other
  <2> QED
    BY <1>1, <1>2, <2>1 DEF Streams
<1>4. n.wfin["client"] => \E a \in Answers("pump_active") : n.sent["relay"] = a \bullet n.snd["client"]
  <2>1. "relay" \in Side /\ Other("relay") = "client"
    BY DEF Side, Other
  <2> QED
    BY <1>1, <1>2, <2>1 DEF Streams
<1> QED
  BY <1>3, <1>4 DEF Ends

\* redsocks_drop_client() leaves a closed connection.
LEMMA DropCloses ==
  ASSUME NEW c \in ConRecord, NEW n \in NetRecord, NEW e, Shuts(c, n), Ends(n, e)
  PROVE  Closed(Dropped(c), n, e)
  BY DroppedFields DEF Closed, Shuts

\* An answer of the relay that is understood.
LEMMA AnswerSound ==
  ASSUME Sound(con, net, use_splice, pumped, early), con.state \in Handshake,
         "R" \in con.enabled["relay"],
         NEW m \in Item, NEW y \in Items, net.rcv["relay"] = <<m>> \bullet y,
         NEW n, n = [net EXCEPT !.rcv["relay"] = y],
         NEW q \in Items, NEW st \in Handshake,
         Requests(con.state) \bullet q = Requests(st),
         \A a \in Answers(con.state) : a \bullet <<m>> \in Answers(st)
  PROVE  Sound(WriteHelper(con, q, st), n, use_splice, pumped, early)
<1> DEFINE d == WriteHelper(con, q, st)
<1>1. /\ con \in ConRecord /\ net \in NetRecord /\ con.alive /\ ~con.afterDrop
      /\ con.state # "pump_active" /\ con.state # "new" /\ st # "pump_active" /\ st # "new"
      /\ "relay" \in Side /\ "client" \in Side
  BY DEF Sound, Handshake, Side
<1>2. /\ ~pumped /\ Shaking(con, net) /\ Shuts(con, net) /\ Reads(con)
      /\ \A s \in Side : ~con.rd[s] /\ ~con.wr[s] /\ ~con.act[s]
      /\ \E a \in Answers(con.state) : net.sent["relay"] = a \bullet net.rcv["relay"]
  BY <1>1, ShakingHas
<1>3. /\ Carried(con, d) /\ d.state = st /\ d.input = con.input /\ d.shut = con.shut
      /\ d.output = [con.output EXCEPT !["relay"] = @ \bullet q]
      /\ d.enabled = [con.enabled EXCEPT !["relay"] = @ \cup {"R"}]
  BY <1>1, WriteHelperFields
<1>4. /\ n \in NetRecord /\ n.rcv = [net.rcv EXCEPT !["relay"] = y]
      /\ n.fin = net.fin /\ n.sent = net.sent /\ n.snd = net.snd /\ n.wfin = net.wfin
  BY <1>1, RcvFields
<1> HIDE DEF d
<1>5. Shaking(d, n)
  <2>1. /\ net.snd["relay"] \in Items /\ con.output["relay"] \in Items /\ net.rcv \in [Side -> Items]
        /\ con.output \in [Side -> Items]
    BY <1>1, Types
  <2>2. net.snd["relay"] \bullet (con.output["relay"] \bullet q)
          = net.snd["relay"] \bullet con.output["relay"] \bullet q
    BY <2>1, Assoc
  <2>3. net.snd["relay"] \bullet con.output["relay"] = Requests(con.state)
    BY <1>1, <1>2 DEF Shaking
  <2> QED
    BY <1>1, <1>2, <1>3, <1>4, <2>1, <2>2, <2>3 DEF Shaking, Carried
<1>6. Shuts(d, n) /\ Reads(d)
  <2>1. /\ con.enabled \in [Side -> SUBSET {"R", "W"}] /\ net.rcv \in [Side -> Items]
        /\ "R" \notin con.shut["relay"]
    BY <1>1, <1>2, Types DEF Reads
  <2> QED
    BY <1>1, <1>2, <1>3, <1>4, <2>1 DEF Shuts, Reads
<1>7. \E a \in Answers(st) : n.sent["relay"] = a \bullet n.rcv["relay"]
  <2>1. PICK a \in Answers(con.state) : net.sent["relay"] = a \bullet (<<m>> \bullet y)
    BY <1>2
  <2>2. a \in Items /\ <<m>> \in Items
    BY Scripts, Single
  <2>3. a \bullet (<<m>> \bullet y) = (a \bullet <<m>>) \bullet y
    BY <2>2, Assoc
  <2>4. n.rcv["relay"] = y
    BY <1>1, <1>4, Types
  <2> QED
    BY <1>4, <2>1, <2>3, <2>4
<1>8. /\ d \in ConRecord /\ d.alive /\ ~d.afterDrop /\ d.state # "pump_active"
      /\ \A s \in Side : ~d.rd[s] /\ ~d.wr[s] /\ ~d.act[s]
  BY <1>1, <1>2, <1>3 DEF Carried
<1>9. Sound(d, n, use_splice, pumped, early)
  BY <1>2, <1>3, <1>4, <1>5, <1>6, <1>7, <1>8, ShakingSound
<1> QED
  BY <1>9 DEF d

\* The last one starts the pump.
LEMMA StartSound ==
  ASSUME Sound(con, net, use_splice, pumped, early), con.state = "skip_address", use_splice \in BOOLEAN,
         "R" \in con.enabled["relay"],
         NEW y \in Items, net.rcv["relay"] = <<"addr">> \bullet y,
         NEW n, n = [net EXCEPT !.rcv["relay"] = y]
  PROVE  Sound(StartRelay(con), n, use_splice, pumped, early)
<1> DEFINE d == StartRelay(con)
<1>1. /\ con \in ConRecord /\ net \in NetRecord /\ con.alive /\ ~con.afterDrop
      /\ con.state # "pump_active" /\ "relay" \in Side /\ "client" \in Side
  BY DEF Sound, Side
<1>2. /\ ~pumped /\ Shaking(con, net) /\ Shuts(con, net) /\ Reads(con)
      /\ \A s \in Side : ~con.rd[s] /\ ~con.wr[s] /\ ~con.act[s]
      /\ \E a \in Answers("skip_address") : net.sent["relay"] = a \bullet net.rcv["relay"]
  BY <1>1, ShakingHas
<1>3. /\ d \in ConRecord /\ d.state = "pump_active"
      /\ d.alive = con.alive /\ d.afterDrop = con.afterDrop /\ d.shut = con.shut
      /\ d.input = con.input /\ d.output = con.output /\ d.pipe = con.pipe
      /\ ~use_splice => d.rd = con.rd /\ d.wr = con.wr /\ d.act = con.act
      /\ \A s \in Side : d.enabled[s] \subseteq {"R", "W"} \ con.shut[s]
      /\ use_splice => \A s \in Side : d.enabled[s] = {} /\ ~d.evw[s]
  BY <1>1, StartRelayFields
<1>4. /\ n \in NetRecord /\ n.rcv = [net.rcv EXCEPT !["relay"] = y]
      /\ n.fin = net.fin /\ n.sent = net.sent /\ n.snd = net.snd /\ n.wfin = net.wfin
  BY <1>1, RcvFields
<1> HIDE DEF d
<1>5. Shuts(d, n) /\ Reads(d)
  <2>1. net.rcv \in [Side -> Items] /\ "R" \notin con.shut["relay"]
    BY <1>1, <1>2, Types DEF Reads
  <2> QED
    BY <1>1, <1>2, <1>3, <1>4, <2>1 DEF Shuts, Reads
<1>6. Streams(d, n)
  <2>1. Shaking(con, n)
    <3>1. n.rcv["client"] = net.rcv["client"]
      BY <1>1, <1>4, Types
    <3> QED
      BY <1>2, <1>4, <3>1 DEF Shaking
  <2>2. /\ Line(con, n, "client") = Requests("skip_address") \bullet n.sent["client"]
        /\ Line(con, n, "relay") = n.rcv["relay"]
    BY <1>1, <1>4, <2>1, ShakingStreams
  <2>3. \A s \in Side : Line(d, n, s) = Line(con, n, s)
    BY <1>3 DEF Line
  <2>4. Requests("skip_address") = Requests("pump_active")
    BY Scripts, Zenon
  <2>5. PICK a \in Answers("skip_address") : net.sent["relay"] = a \bullet (<<"addr">> \bullet y)
    BY <1>2
  <2>6. a \in Items /\ <<"addr">> \in Items /\ a \bullet <<"addr">> \in Answers("pump_active")
    <3>1. "addr" \in Item
      BY DEF Item, FromServer
    <3> QED
      BY <3>1, Scripts, Single
  <2>7. a \bullet (<<"addr">> \bullet y) = (a \bullet <<"addr">>) \bullet y
    BY <2>6, Assoc
  <2>8. n.rcv["relay"] = y
    BY <1>1, <1>4, Types
  <2>9. n.sent["relay"] = (a \bullet <<"addr">>) \bullet Line(d, n, "relay")
    BY <1>1, <1>4, <2>2, <2>3, <2>5, <2>7, <2>8
  <2>10. Line(d, n, "client") = Requests("pump_active") \bullet n.sent["client"]
    BY <1>1, <2>2, <2>3, <2>4
  <2> QED
    BY <1>3, <2>6, <2>9, <2>10 DEF Streams
<1>7. OnePump(d, use_splice)
  BY <1>1, <1>2, <1>3 DEF OnePump, Shaking
<1>8. Buffered(d, use_splice, pumped)
  BY <1>1, <1>2, <1>3 DEF Buffered, Shaking
<1>9. Drained(d, early)
  BY <1>1, <1>2, <1>3 DEF Drained, Shaking, Other
<1>10. Shaking(d, n)
  BY <1>3 DEF Shaking
<1>11. Sound(d, n, use_splice, pumped, early)
  BY <1>1, <1>3, <1>4, <1>5, <1>6, <1>7, <1>8, <1>9, <1>10 DEF Sound
<1> QED
  BY <1>11 DEF d

\* socks5_read_cb(): an answer is understood, or the client is dropped.
LEMMA RelayAnswers ==
  ASSUME Sound(con, net, use_splice, pumped, early), use_splice \in BOOLEAN, early \in BOOLEAN,
         BufRead("relay"), con.state # "pump_active"
  PROVE  Sound(con', net', use_splice, pumped', early') \/ Closed(con', net', early')
<1> DEFINE r == net.rcv["relay"]
           x == SubSeq(r, 1, 1)
           y == SubSeq(r, 2, Len(r))
           m == r[1]
           n == [net EXCEPT !.rcv["relay"] = y]
           c == [con EXCEPT !.input["relay"] = <<>> \bullet x]
<1>1. /\ con \in ConRecord /\ net \in NetRecord /\ con.alive /\ ~con.afterDrop /\ "relay" \in Side
      /\ con.state \in {"new"} \cup Handshake
  BY DEF Sound, Side, ConRecord
<1>2. /\ ~pumped /\ Shaking(con, net) /\ Shuts(con, net) /\ Reads(con)
  BY ShakingHas
<1>3. con.input["relay"] = <<>> /\ r \in Items
  BY <1>1, <1>2, Types DEF Shaking
<1>4. Len(con.input["relay"]) = 0
  BY <1>3, EmptySeq, Zenon
<1>5. Room("relay") = 1
  <2>1. Room("relay") = 1 - Len(con.input["relay"])
    BY Zenon DEF Room
  <2> QED
    BY <1>4, <2>1
<1>6. Len(r) \in Nat
  BY <1>3, LenProperties DEF Items
<1>7. /\ "R" \in con.enabled["relay"] /\ Len(r) > 0 /\ net' = n /\ pumped' = pumped /\ early' = early
      /\ con' = ReadCb(c, "relay")
  <2> DEFINE k == IF Len(r) < Room("relay") THEN Len(r) ELSE Room("relay")
  <2>1. /\ "R" \in con.enabled["relay"] /\ k > 0 /\ pumped' = pumped /\ early' = early
        /\ net' = [net EXCEPT !.rcv["relay"] = SubSeq(r, k + 1, Len(r))]
        /\ con' = ReadCb([con EXCEPT !.input["relay"] = con.input["relay"] \bullet SubSeq(r, 1, k)], "relay")
    BY Zenon DEF BufRead, \bullet
  <2>2. k = 1 /\ k + 1 = 2 /\ Len(r) > 0
    BY <1>5, <1>6, <2>1
  <2> HIDE DEF k, r
  <2> QED
    BY <1>3, <2>1, <2>2
<1>8. m \in Item /\ <<m>> \in Items /\ y \in Items /\ x \in Items /\ r = x \bullet y
  <2>1. m \in Item
    BY <1>3, <1>6, <1>7, ElementOfSeq DEF Items
  <2>2. x \in Items /\ y \in Items /\ r = x \bullet y
    <3>1. 1 \in 0 .. Len(r) /\ 1 + 1 = 2
      BY <1>6, <1>7
    <3> QED
      BY <1>3, <3>1, SplitAt
  <2> QED
    BY <2>1, <2>2, Single
<1>9. x = <<m>>
  <2>1. x \in Seq(Item) /\ <<m>> \in Seq(Item)
    BY <1>8 DEF Items
  <2>2. Len(x) = 1 /\ x[1] = m
    <3>1. \A i \in 1 .. 1 : r[i] \in Item
      BY <1>8
    <3> QED
      BY <3>1, SubSeqProperties
  <2>3. Len(<<m>>) = 1 /\ <<m>>[1] = m
    OBVIOUS
  <2> HIDE DEF x, m
  <2>4. \A i \in 1 .. Len(x) : x[i] = <<m>>[i]
    BY <2>2, <2>3
  <2> QED
    BY <2>1, <2>2, <2>3, <2>4, SeqEqual
<1> HIDE DEF m, y, x, r
<1>10. c = [con EXCEPT !.input["relay"] = <<m>>]
  <2>1. <<>> \bullet x = <<m>>
    BY <1>8, <1>9, Cat
  <2> QED
    BY <2>1, Zenon
<1>11. c.state = con.state /\ c.input["relay"] = <<m>>
  BY <1>1, <1>10 DEF ConRecord
<1>12. [c EXCEPT !.input["relay"] = Tail(@)] = con
  <2>1. Tail(<<m>>) = <<>>
    OBVIOUS
  <2>2. [c EXCEPT !.input["relay"] = Tail(@)] = [c EXCEPT !.input["relay"] = <<>>]
    BY <1>11, <2>1
  <2>3. [[con EXCEPT !.input["relay"] = <<m>>] EXCEPT !.input["relay"] = <<>>] = con
    BY <1>1, <1>3 DEF ConRecord
  <2> QED
    BY <1>10, <2>2, <2>3, Zenon
<1>13. con' = CASE con.state = "method_sent" /\ m = "none" -> WriteHelper(con, <<"connect">>, "request_sent")
                [] con.state = "request_sent" /\ m = "ok_ip" -> WriteHelper(con, <<>>, "skip_address")
                [] con.state = "request_sent" /\ m = "ok_domain" -> WriteHelper(con, <<>>, "skip_domain")
                [] con.state = "skip_domain" /\ m = "size" -> WriteHelper(con, <<>>, "skip_address")
                [] con.state = "skip_address" /\ m = "addr" -> StartRelay(con)
                [] OTHER -> Dropped(con)
  <2>1. Head(c.input["relay"]) = m
    BY <1>11
  <2>2. ReadCb(c, "relay") = Socks5ReadCb(c)
    BY <1>11, Zenon DEF ReadCb
  <2> HIDE DEF c
  <2> QED
    BY <1>7, <1>11, <1>12, <2>1, <2>2, Zenon DEF Socks5ReadCb
<1>14. net.rcv["relay"] = <<m>> \bullet y
  BY <1>8, <1>9 DEF r
<1>15. CASE con.state = "method_sent" /\ m = "none"
  <2>1. con' = WriteHelper(con, <<"connect">>, "request_sent")
    BY <1>13, <1>15, Zenon
  <2>2. <<"connect">> \in Items /\ Requests("method_sent") \bullet <<"connect">> = Requests("request_sent")
    BY Scripts, Cat, Single DEF Item
  <2>3. \A a \in Answers("method_sent") : a \bullet <<"none">> \in Answers("request_sent")
    BY Scripts, Zenon
  <2>4. "request_sent" \in Handshake /\ "method_sent" \in Handshake
    BY DEF Handshake
  <2>5. Sound(WriteHelper(con, <<"connect">>, "request_sent"), n, use_splice, pumped, early)
    BY <1>7, <1>8, <1>14, <1>15, <2>2, <2>3, <2>4, AnswerSound
  <2> QED
    BY <1>7, <2>1, <2>5
<1>16. CASE con.state = "request_sent" /\ m = "ok_ip"
  <2>1. con' = WriteHelper(con, <<>>, "skip_address")
    BY <1>13, <1>16, Zenon
  <2>2. <<>> \in Items /\ Requests("request_sent") \bullet <<>> = Requests("skip_address")
    BY Scripts, Cat, Single, Zenon DEF Item
  <2>3. \A a \in Answers("request_sent") : a \bullet <<"ok_ip">> \in Answers("skip_address")
    BY Scripts, Zenon
  <2>4. "skip_address" \in Handshake /\ "request_sent" \in Handshake
    BY DEF Handshake
  <2>5. Sound(WriteHelper(con, <<>>, "skip_address"), n, use_splice, pumped, early)
    BY <1>7, <1>8, <1>14, <1>16, <2>2, <2>3, <2>4, AnswerSound
  <2> QED
    BY <1>7, <2>1, <2>5
<1>17. CASE con.state = "request_sent" /\ m = "ok_domain"
  <2>1. con' = WriteHelper(con, <<>>, "skip_domain")
    BY <1>13, <1>17, Zenon
  <2>2. <<>> \in Items /\ Requests("request_sent") \bullet <<>> = Requests("skip_domain")
    BY Scripts, Cat, Single, Zenon DEF Item
  <2>3. \A a \in Answers("request_sent") : a \bullet <<"ok_domain">> \in Answers("skip_domain")
    BY Scripts, Zenon
  <2>4. "skip_domain" \in Handshake /\ "request_sent" \in Handshake
    BY DEF Handshake
  <2>5. Sound(WriteHelper(con, <<>>, "skip_domain"), n, use_splice, pumped, early)
    BY <1>7, <1>8, <1>14, <1>17, <2>2, <2>3, <2>4, AnswerSound
  <2> QED
    BY <1>7, <2>1, <2>5
<1>18. CASE con.state = "skip_domain" /\ m = "size"
  <2>1. con' = WriteHelper(con, <<>>, "skip_address")
    BY <1>13, <1>18, Zenon
  <2>2. <<>> \in Items /\ Requests("skip_domain") \bullet <<>> = Requests("skip_address")
    BY Scripts, Cat, Single, Zenon DEF Item
  <2>3. \A a \in Answers("skip_domain") : a \bullet <<"size">> \in Answers("skip_address")
    BY Scripts, Zenon
  <2>4. "skip_address" \in Handshake /\ "skip_domain" \in Handshake
    BY DEF Handshake
  <2>5. Sound(WriteHelper(con, <<>>, "skip_address"), n, use_splice, pumped, early)
    BY <1>7, <1>8, <1>14, <1>18, <2>2, <2>3, <2>4, AnswerSound
  <2> QED
    BY <1>7, <2>1, <2>5
<1>19. CASE con.state = "skip_address" /\ m = "addr"
  <2>1. con' = StartRelay(con)
    BY <1>13, <1>19, Zenon
  <2>2. Sound(StartRelay(con), n, use_splice, pumped, early)
    BY <1>7, <1>8, <1>14, <1>19, StartSound
  <2> QED
    BY <1>7, <2>1, <2>2
<1>20. CASE con' = Dropped(con)
  <2>1. /\ n \in NetRecord /\ n.rcv = [net.rcv EXCEPT !["relay"] = y]
        /\ n.fin = net.fin /\ n.sent = net.sent /\ n.snd = net.snd /\ n.wfin = net.wfin
    BY <1>1, <1>8, RcvFields
  <2> HIDE DEF n
  <2>2. Ends(n, early)
    <3>1. Ends(net, early)
      BY SoundEnds
    <3> QED
      BY <2>1, <3>1 DEF Ends
  <2>3. Shuts(con, n)
    <3>1. net.rcv \in [Side -> Items] /\ "R" \notin con.shut["relay"]
      BY <1>1, <1>2, <1>7, Types DEF Reads
    <3> QED
      BY <1>1, <1>2, <2>1, <3>1 DEF Shuts
  <2>4. Closed(Dropped(con), n, early)
    BY <1>1, <2>1, <2>2, <2>3, DropCloses
  <2> QED
    BY <1>7, <1>20, <2>4
<1> QED
  BY <1>13, <1>15, <1>16, <1>17, <1>18, <1>19, <1>20, Zenon

-----------------------------------------------------------------------------
(* The end of a peer.                                                      *)

\* redsocks_shutdown() drops the client once both sockets are shut down both ways.
LEMMA ShutdownIs ==
  ASSUME NEW c, NEW s, NEW how
  PROVE  Shutdown(c, s, how) = IF shut_both(Off(c, s, how)) THEN Dropped(Off(c, s, how)) ELSE Off(c, s, how)
  BY Zenon DEF Shutdown, Off

\* A callback that keeps the connection, or that drops it as its last step.
LEMMA SettledSound ==
  ASSUME NEW d, NEW c, NEW n, NEW u, NEW p, NEW e \in BOOLEAN, Sound(d, n, u, p, e), c = d \/ c = Dropped(d)
  PROVE  Sound(c, n, u, p, e) \/ Closed(c, n, e)
<1>1. Ends(n, e)
  BY SoundEnds
<1>2. d \in ConRecord /\ n \in NetRecord /\ Shuts(d, n)
  BY Zenon DEF Sound
<1>3. Closed(Dropped(d), n, e)
  BY <1>1, <1>2, DropCloses
<1> QED
  BY <1>3, Zenon

\* redsocks_event_error(): the connection it leaves is the one it began with, shut down
\* for reading and, if there is nothing to write, the other one for writing.
Ending(c, s, d) ==
  /\ Carried(c, d) /\ d.state = c.state /\ d.input = c.input /\ d.output = c.output
  /\ d.shut[s] = c.shut[s] \cup {"R"}
  /\ \/ d.shut[Other(s)] = c.shut[Other(s)]
     \/ /\ d.shut[Other(s)] = c.shut[Other(s)] \cup {"W"}
        /\ c.state = "pump_active" /\ c.output[Other(s)] = <<>>
  /\ \A t \in Side : d.enabled[t] \subseteq c.enabled[t]
  /\ "R" \notin d.enabled[s]

\* What redsocks_event_error() leaves at the end of a peer, before it drops it or not.
LEMMA EventEofIs ==
  ASSUME NEW c \in ConRecord, NEW s \in Side, "W" \notin c.shut[Other(s)], c.alive
  PROVE  \E d : Ending(c, s, d) /\ (EventEof(c, s) = d \/ EventEof(c, s) = Dropped(d))
<1> DEFINE d == Off(c, s, "R")
           o == Other(s)
           f == Off(d, o, "W")
<1>1. /\ Carried(c, d) /\ d.state = c.state /\ d.input = c.input /\ d.output = c.output
      /\ d.shut = [c.shut EXCEPT ![s] = @ \cup {"R"}]
      /\ d.enabled = [c.enabled EXCEPT ![s] = @ \ {"R"}]
      /\ d.evw = c.evw
  <2>1. /\ Carried(c, d) /\ d.state = c.state /\ d.input = c.input /\ d.output = c.output
        /\ d.shut = [c.shut EXCEPT ![s] = @ \cup {"R"}]
        /\ d.enabled = [c.enabled EXCEPT ![s] = @ \ {"R"}]
        /\ d.evw = [c.evw EXCEPT ![s] = IF "R" = "W" THEN FALSE ELSE @]
    BY OffFields
  <2>2. c.evw \in [Side -> BOOLEAN]
    BY DEF ConRecord
  <2> HIDE DEF d
  <2> QED
    BY <2>1, <2>2
<1>2. /\ o \in Side /\ o # s /\ c.shut \in [Side -> SUBSET {"R", "W"}]
      /\ c.enabled \in [Side -> SUBSET {"R", "W"}] /\ c.evw \in [Side -> BOOLEAN]
  BY DEF ConRecord, Side, Other
<1>3. /\ d \in ConRecord /\ d.alive /\ d.shut[o] = c.shut[o] /\ d.shut[s] = c.shut[s] \cup {"R"}
      /\ d.enabled[o] = c.enabled[o] /\ d.enabled[s] = c.enabled[s] \ {"R"}
  <2> HIDE DEF d, o
  <2> QED
    BY <1>1, <1>2 DEF Carried
<1>4. ~shut_both(d)
  BY <1>2, <1>3 DEF shut_both
<1>5. Shutdown(c, s, "R") = d
  BY <1>4, ShutdownIs, Zenon
<1>6. EventEof(c, s) = IF d.state = "pump_active" /\ d.output[o] = <<>> THEN Shutdown(d, o, "W") ELSE d
  BY <1>3, <1>5, Zenon DEF EventEof
<1>7. CASE d.state = "pump_active" /\ d.output[o] = <<>>
  <2>1. /\ Carried(d, f) /\ f.state = d.state /\ f.input = d.input /\ f.output = d.output
        /\ f.shut = [d.shut EXCEPT ![o] = @ \cup {"W"}]
        /\ f.enabled = [d.enabled EXCEPT ![o] = @ \ {"W"}]
        /\ f.evw = [d.evw EXCEPT ![o] = IF "W" = "W" THEN FALSE ELSE @]
    BY <1>2, <1>3, OffFields
  <2>2. EventEof(c, s) = f \/ EventEof(c, s) = Dropped(f)
    BY <1>6, <1>7, ShutdownIs, Zenon
  <2> HIDE DEF d, f, o
  <2>3. Carried(c, f) /\ f.state = c.state /\ f.input = c.input /\ f.output = c.output
    BY <1>1, <2>1 DEF Carried
  <2>4. f.shut[s] = c.shut[s] \cup {"R"} /\ f.shut[o] = c.shut[o] \cup {"W"}
    BY <1>1, <1>2, <1>3, <2>1
  <2>5. \A t \in Side : f.enabled[t] \subseteq c.enabled[t]
    BY <1>1, <1>2, <2>1
  <2>6. "R" \notin f.enabled[s]
    BY <1>1, <1>2, <2>1
  <2>7. Ending(c, s, f)
    BY <1>1, <1>7, <2>3, <2>4, <2>5, <2>6 DEF o, Ending
  <2> QED
    BY <2>2, <2>7
<1>8. CASE ~(d.state = "pump_active" /\ d.output[o] = <<>>)
  <2>1. EventEof(c, s) = d
    BY <1>6, <1>8, Zenon
  <2> HIDE DEF d, o
  <2>2. \A t \in Side : d.enabled[t] \subseteq c.enabled[t]
    BY <1>1, <1>2
  <2>3. Ending(c, s, d)
    BY <1>1, <1>3, <2>2 DEF o, Ending
  <2> QED
    BY <2>1, <2>3
<1> QED
  BY <1>7, <1>8

\* A line depends on the buffers and the sockets only.
LEMMA SameStreams ==
  ASSUME NEW c, NEW n, NEW d, NEW m, Streams(c, n), d.state = c.state, m.sent = n.sent,
         \A s \in Side : Line(d, m, s) = Line(c, n, s)
  PROVE  Streams(d, m)
<1>1. "client" \in Side /\ "relay" \in Side
  BY DEF Side
<1> QED
  BY <1>1 DEF Streams

\* A socket may be shut down for writing when the other one was for reading.
LEMMA ShutsAfter ==
  ASSUME NEW c, NEW n, NEW d, NEW m, NEW t \in Side, Shuts(c, n), m.fin = n.fin, m.rcv = n.rcv,
         d.shut[Other(t)] = c.shut[Other(t)],
         \/ d.shut[t] = c.shut[t]
         \/ d.shut[t] = c.shut[t] \cup {"W"} /\ "R" \in c.shut[Other(t)],
         \A v \in Side : m.wfin[v] => n.wfin[v] \/ "W" \in d.shut[v]
  PROVE  Shuts(d, m)
<1>1. Other(t) \in Side /\ Other(Other(t)) = t /\ \A v \in Side : v = t \/ v = Other(t)
  BY DEF Side, Other
<1> DEFINE o == Other(t)
<1>2. /\ "R" \in d.shut[t] <=> "R" \in c.shut[t]
      /\ "W" \in c.shut[t] => "W" \in d.shut[t]
      /\ "W" \in d.shut[t] => "W" \in c.shut[t] \/ "R" \in c.shut[o]
  OBVIOUS
<1>3. d.shut[o] = c.shut[o]
  OBVIOUS
<1> HIDE DEF o
<1>4. \A v \in Side : /\ "R" \in d.shut[v] <=> "R" \in c.shut[v]
                      /\ "W" \in c.shut[v] => "W" \in d.shut[v]
                      /\ "W" \in d.shut[v] => "W" \in c.shut[v] \/ (v = t /\ "R" \in c.shut[o])
  BY <1>1, <1>2, <1>3 DEF o
<1> USE DEF o
<1> QED
  BY <1>1, <1>4 DEF Shuts

\* The end of a peer, in the handshake and in the pump of buffers.
LEMMA BufEofSound ==
  ASSUME Sound(con, net, use_splice, pumped, early), early \in BOOLEAN, pumped \in BOOLEAN,
         NEW s \in Side, BufEof(s)
  PROVE  /\ Sound(con', net', use_splice, pumped', early') \/ Closed(con', net', early')
         /\ early' \in BOOLEAN
<1> DEFINE c == Disable(con, s, "R")
           o == Other(s)
           w == [t \in Side |-> net.wfin[t] \/ "W" \in con'.shut[t]]
<1>1. /\ con \in ConRecord /\ net \in NetRecord /\ con.alive /\ ~con.afterDrop
      /\ Shuts(con, net) /\ Reads(con) /\ Streams(con, net) /\ Shaking(con, net)
      /\ OnePump(con, use_splice) /\ Buffered(con, use_splice, pumped) /\ Drained(con, early)
      /\ pumped => con.state = "pump_active"
  BY Zenon DEF Sound
<1>2. /\ "R" \in con.enabled[s] /\ net.rcv[s] = <<>> /\ net.fin[s] /\ pumped' = pumped
      /\ con' = EventEof(c, s) /\ net' = [net EXCEPT !.wfin = w]
  BY Zenon DEF BufEof
<1>3. /\ early' \in BOOLEAN /\ (early => early')
      /\ s = "client" /\ con.state = "pump_active" /\ ~pumped => early'
  BY Zenon DEF BufEof
<1>4. /\ o \in Side /\ o # s /\ Other(o) = s /\ \A t \in Side : t = s \/ t = o
  BY DEF Side, Other
<1>5. "R" \notin con.shut[s] /\ "W" \notin con.shut[o] /\ ~(con.state = "pump_active" /\ use_splice)
  BY <1>1, <1>2, <1>4 DEF Shuts, Reads, OnePump
<1>6. /\ Carried(con, c) /\ c.state = con.state /\ c.input = con.input /\ c.output = con.output
      /\ c.shut = con.shut /\ c.evw = con.evw
      /\ c.enabled = [con.enabled EXCEPT ![s] = @ \ {"R"}]
  BY <1>1, DisableFields
<1> HIDE DEF c
<1>7. PICK d : Ending(c, s, d) /\ (con' = d \/ con' = Dropped(d))
  <2>1. c \in ConRecord /\ "W" \notin c.shut[Other(s)] /\ c.alive
    BY <1>1, <1>5, <1>6 DEF Carried
  <2> QED
    BY <1>2, <2>1, EventEofIs
<1>8. /\ d \in ConRecord /\ d.alive /\ ~d.afterDrop /\ con'.shut = d.shut
      /\ d.pipe = con.pipe /\ d.rd = con.rd /\ d.wr = con.wr /\ d.act = con.act
      /\ d.state = con.state /\ d.input = con.input /\ d.output = con.output
      /\ d.shut[s] = con.shut[s] \cup {"R"}
      /\ \/ d.shut[o] = con.shut[o]
         \/ d.shut[o] = con.shut[o] \cup {"W"} /\ con.state = "pump_active" /\ con.output[o] = <<>>
  <2>1. d \in ConRecord
    BY <1>7 DEF Carried, Ending
  <2>2. con'.shut = d.shut
    BY <1>7, <2>1, DroppedFields
  <2>3. Ending(c, s, d)
    BY <1>7
  <2>4. /\ d.alive /\ ~d.afterDrop
        /\ d.pipe = con.pipe /\ d.rd = con.rd /\ d.wr = con.wr /\ d.act = con.act
        /\ d.state = con.state /\ d.input = con.input /\ d.output = con.output
    BY <1>1, <1>6, <2>3 DEF Carried, Ending
  <2>5. d.shut[s] = con.shut[s] \cup {"R"}
    BY <1>6, <2>3 DEF Ending
  <2>6. \/ d.shut[o] = con.shut[o]
        \/ d.shut[o] = con.shut[o] \cup {"W"} /\ con.state = "pump_active" /\ con.output[o] = <<>>
    BY <1>6, <2>3 DEF Ending
  <2> QED
    BY <2>1, <2>2, <2>4, <2>5, <2>6, Zenon
<1>9. \A t \in Side : d.enabled[t] \subseteq con.enabled[t]
  <2>1. \A t \in Side : d.enabled[t] \subseteq c.enabled[t]
    BY <1>7 DEF Ending
  <2>2. con.enabled \in [Side -> SUBSET {"R", "W"}]
    BY <1>1 DEF ConRecord
  <2>3. \A t \in Side : c.enabled[t] \subseteq con.enabled[t]
    BY <1>6, <2>2
  <2> QED
    BY <2>1, <2>3
<1>10. w \in [Side -> BOOLEAN] /\ \A t \in Side : w[t] => net.wfin[t] \/ "W" \in d.shut[t]
  <2>1. w \in [Side -> BOOLEAN]
    BY Zenon
  <2> QED
    BY <1>8, <2>1
<1> HIDE DEF w, o
<1>11. /\ net' \in NetRecord /\ net'.rcv = net.rcv /\ net'.fin = net.fin /\ net'.sent = net.sent
       /\ net'.snd = net.snd /\ net'.wfin = w
  BY <1>1, <1>2, <1>10 DEF NetRecord
<1>12. Shuts(d, net')
  BY <1>1, <1>2, <1>4, <1>8, <1>10, <1>11 DEF Shuts, o
<1>13. Reads(d)
  <2>1. \A t \in Side : "R" \in d.enabled[t] => "R" \notin d.shut[t]
    BY <1>1, <1>4, <1>7, <1>8, <1>9 DEF Reads, Ending
  <2>2. con.state = "new" => s # "relay" /\ "R" \notin d.enabled["relay"] /\ "R" \notin d.shut["relay"]
    <3>1. "relay" \in Side
      BY DEF Side
    <3> QED
      BY <1>1, <1>2, <1>4, <1>8, <1>9, <3>1 DEF Reads
  <2> QED
    BY <1>8, <2>1, <2>2 DEF Reads
<1>14. Streams(d, net')
  <2>1. \A t \in Side : Line(d, net', t) = Line(con, net, t)
    BY <1>8, <1>11 DEF Line
  <2>2. Streams(con, net) /\ d.state = con.state /\ net'.sent = net.sent
    BY <1>1, <1>8, <1>11
  <2> QED
    BY <2>1, <2>2, SameStreams
<1>15. Shaking(d, net')
  <2> SUFFICES ASSUME con.state # "pump_active" PROVE Shaking(d, net')
    BY <1>8 DEF Shaking
  <2>1. \A t \in Side : "W" \notin d.shut[t]
    <3>1. \A t \in Side : "W" \notin con.shut[t]
      BY <1>1 DEF Shaking
    <3>2. "W" \notin d.shut[s] /\ "W" \notin d.shut[o]
      BY <1>4, <1>8, <3>1
    <3> QED
      BY <1>4, <3>2
  <2> QED
    BY <1>1, <1>8, <1>11, <2>1 DEF Shaking
<1>16. OnePump(d, use_splice)
  BY <1>1, <1>5, <1>8 DEF OnePump
<1>17. Buffered(d, use_splice, pumped)
  BY <1>1, <1>8 DEF Buffered
<1>18. Drained(d, early')
  <2> SUFFICES ASSUME NEW t \in Side, "W" \in d.shut[Other(t)], ~(early' /\ t = "client")
               PROVE  d.output[Other(t)] = <<>> /\ d.input[t] = <<>> /\ d.pipe[t] = <<>>
    BY DEF Drained
  <2>1. CASE "W" \in con.shut[Other(t)]
    BY <1>1, <1>3, <1>8, <2>1 DEF Drained
  <2>2. CASE "W" \notin con.shut[Other(t)]
    <3>1. t = s /\ con.state = "pump_active" /\ con.output[o] = <<>>
      BY <1>4, <1>8, <2>2 DEF o
    <3>2. con.pipe[s] = <<>>
      BY <1>1, <1>5 DEF OnePump
    <3>3. con.input[s] = <<>>
      <4>1. s = "client" => pumped
        BY <1>3, <3>1
      <4>2. (s = "client" /\ o = "relay") \/ (s = "relay" /\ o = "client")
        BY DEF o, Other, Side
      <4> QED
        BY <1>1, <1>5, <3>1, <4>1, <4>2 DEF Buffered
    <3> QED
      BY <1>8, <3>1, <3>2, <3>3 DEF o
  <2> QED
    BY <2>1, <2>2
<1>19. Sound(d, net', use_splice, pumped', early')
  BY <1>1, <1>2, <1>8, <1>11, <1>12, <1>13, <1>14, <1>15, <1>16, <1>17, <1>18 DEF Sound
<1> QED
  BY <1>3, <1>7, <1>19, SettledSound

-----------------------------------------------------------------------------
(* The pump of buffers.                                                    *)

\* redsocks_relay_readcb(): what was read is in the input or was moved to the output.
LEMMA BufReadSound ==
  ASSUME Sound(con, net, use_splice, pumped, early),
         NEW s \in Side, BufRead(s), con.state = "pump_active"
  PROVE  Sound(con', net', use_splice, pumped', early')
<1> DEFINE o == Other(s)
           r == net.rcv[s]
           k == IF Len(r) < Room(s) THEN Len(r) ELSE Room(s)
           x == SubSeq(r, 1, k)
           y == SubSeq(r, k + 1, Len(r))
           i == con.input[s] \bullet x
           c == [con EXCEPT !.input[s] = i]
<1>1. /\ con \in ConRecord /\ net \in NetRecord /\ con.alive /\ ~con.afterDrop
      /\ Shuts(con, net) /\ Reads(con) /\ Streams(con, net) /\ Shaking(con, net)
      /\ OnePump(con, use_splice) /\ Buffered(con, use_splice, pumped) /\ Drained(con, early)
  BY Zenon DEF Sound
<1>2. /\ o \in Side /\ o # s /\ Other(o) = s /\ Other(s) = o /\ \A t \in Side : t = s \/ t = o
  BY DEF Side, Other
<1>3. /\ con.input \in [Side -> Items] /\ con.output \in [Side -> Items] /\ net.rcv \in [Side -> Items]
      /\ con.enabled \in [Side -> SUBSET {"R", "W"}]
  BY <1>1, Types
<1>4. /\ "R" \in con.enabled[s] /\ k > 0 /\ pumped' = pumped /\ early' = early
      /\ net' = [net EXCEPT !.rcv[s] = y] /\ con' = ReadCb(c, s)
  BY Zenon DEF BufRead, \bullet
<1>5. k \in 0 .. Len(r)
  <2>1. Len(r) \in Nat /\ Len(con.input[s]) \in Nat
    BY <1>3, LenProperties DEF Items
  <2>2. Room(s) = HalfBuff - Len(con.input[s])
    BY Zenon DEF Room
  <2>3. HalfBuff \in Nat
    BY PumpAssumption
  <2> QED
    BY <1>4, <2>1, <2>2, <2>3
<1>6. r \in Items /\ x \in Items /\ y \in Items /\ r = x \bullet y
  BY <1>3, <1>5, SplitAt
<1>7. i \in Items /\ con.input[s] \in Items /\ con.output[o] \in Items /\ net.snd[o] \in Items
  BY <1>1, <1>2, <1>3, <1>6, Types, Cat
<1>8. /\ "R" \notin con.shut[s] /\ "W" \notin con.shut[o] /\ ~use_splice /\ con.pipe[s] = <<>>
  BY <1>1, <1>2, <1>4 DEF Shuts, Reads, OnePump
<1> HIDE DEF i, k, x, y, r
<1>9. /\ Carried(con, c) /\ c.state = con.state /\ c.shut = con.shut /\ c.enabled = con.enabled
      /\ c.evw = con.evw /\ c.output = con.output
      /\ c.input = [con.input EXCEPT ![s] = i]
  BY <1>1, <1>7, InputFields
<1>10. /\ net' \in NetRecord /\ net'.rcv = [net.rcv EXCEPT ![s] = y]
       /\ net'.fin = net.fin /\ net'.sent = net.sent /\ net'.snd = net.snd /\ net'.wfin = net.wfin
  BY <1>1, <1>4, <1>6, RcvFields
<1> HIDE DEF c
<1>11. con' = IF Len(c.output[o]) < HalfBuff THEN Move(c, s) ELSE Disable(c, s, "R")
  BY <1>4, <1>9, Zenon DEF ReadCb, RelayReadCb
<1> HIDE DEF o
\* Either way:
<1>12. ASSUME Carried(con, con'), con'.state = con.state, con'.shut = con.shut,
              \A t \in Side : con'.enabled[t] \subseteq con.enabled[t],
              con'.input[o] = con.input[o], con'.output[s] = con.output[s],
              Line(con', net', s) = Line(con, net, s),
              con'.input[s] # <<>> => con'.output[o] # <<>>
       PROVE  Sound(con', net', use_splice, pumped', early')
  <2>1. con' \in ConRecord /\ con'.pipe = con.pipe
    BY <1>12 DEF Carried
  <2>2. Shuts(con', net')
    BY <1>1, <1>3, <1>8, <1>10, <1>12 DEF Shuts
  <2>3. Reads(con')
    BY <1>1, <1>12 DEF Reads, Side
  <2>4. Streams(con', net')
    <3>1. net'.rcv[o] = net.rcv[o]
      BY <1>2, <1>3, <1>10
    <3>2. Line(con', net', o) = Line(con, net, o)
      BY <1>2, <1>10, <1>12, <2>1, <3>1 DEF Line
    <3>3. \A t \in Side : Line(con', net', t) = Line(con, net, t)
      BY <1>2, <1>12, <3>2, Zenon
    <3>4. net'.sent = net.sent /\ con'.state = con.state
      BY <1>10, <1>12
    <3> QED
      BY <1>1, <3>3, <3>4, SameStreams
  <2>5. Shaking(con', net')
    BY <1>12 DEF Shaking
  <2>6. OnePump(con', use_splice)
    BY <1>1, <1>8, <1>12 DEF OnePump, Carried
  <2>7. Buffered(con', use_splice, pumped)
    <3>1. (s = "client" /\ o = "relay") \/ (s = "relay" /\ o = "client")
      BY DEF o, Other, Side
    <3> QED
      BY <1>1, <1>12, <3>1 DEF Buffered
  <2>8. Drained(con', early)
    BY <1>1, <1>2, <1>8, <1>12, <2>1 DEF Drained
  <2> QED
    BY <1>1, <1>4, <1>10, <1>12, <2>1, <2>2, <2>3, <2>4, <2>5, <2>6, <2>7, <2>8 DEF Sound, Carried
<1>13. net.snd[o] \bullet con.output[o] \bullet i \bullet <<>> \bullet y = Line(con, net, s)
  <2> DEFINE a == net.snd[o]
             b == con.output[o]
             in == con.input[s]
  <2>1. a \in Items /\ b \in Items /\ in \in Items /\ x \in Items /\ y \in Items
    BY <1>6, <1>7
  <2> HIDE DEF a, b, in
  <2>2. a \bullet b \bullet (in \bullet x) \bullet <<>> \bullet y
          = a \bullet b \bullet in \bullet <<>> \bullet (x \bullet y)
    BY <2>1, IntoInput
  <2>3. Line(con, net, s) = a \bullet b \bullet in \bullet <<>> \bullet r
    BY <1>8 DEF Line, o, r, a, b, in
  <2> QED
    BY <1>6, <2>2, <2>3 DEF a, b, in, i
<1>14. CASE Len(c.output[o]) < HalfBuff
  <2>1. con' = Move(c, s)
    BY <1>11, <1>14, Zenon
  <2>2. /\ Carried(c, con') /\ con'.state = c.state /\ con'.shut = c.shut /\ con'.enabled = c.enabled
        /\ con'.output = [c.output EXCEPT ![o] = @ \bullet c.input[s]]
        /\ con'.input = [c.input EXCEPT ![s] = <<>>]
    <3>1. c \in ConRecord
      BY <1>9 DEF Carried
    <3> QED
      BY <2>1, <3>1, MoveFields DEF o
  <2>3. /\ Carried(con, con') /\ con'.state = con.state /\ con'.shut = con.shut /\ con'.enabled = con.enabled
    BY <1>9, <2>2 DEF Carried
  <2>4. /\ con'.input[s] = <<>> /\ con'.input[o] = con.input[o]
        /\ con'.output[o] = con.output[o] \bullet i /\ con'.output[s] = con.output[s]
    BY <1>2, <1>3, <1>9, <2>2
  <2>5. net'.rcv[s] = y /\ con'.pipe[s] = <<>>
    BY <1>3, <1>8, <1>10, <2>3 DEF Carried
  <2>6. Line(con', net', s) = net.snd[o] \bullet (con.output[o] \bullet i) \bullet <<>> \bullet <<>> \bullet y
    BY <1>10, <2>4, <2>5 DEF Line, o
  <2>7. Line(con', net', s) = net.snd[o] \bullet con.output[o] \bullet i \bullet <<>> \bullet y
    <3>1. <<>> \in Items
      BY Cat
    <3>2. net.snd[o] \bullet (con.output[o] \bullet i) \bullet <<>> \bullet <<>> \bullet y
            = net.snd[o] \bullet con.output[o] \bullet i \bullet <<>> \bullet y
      BY <1>6, <1>7, <3>1, IntoOutput
    <3> QED
      BY <2>6, <3>2
  <2>8. Line(con', net', s) = Line(con, net, s)
    BY <1>13, <2>7
  <2> QED
    BY <1>12, <2>3, <2>4, <2>8
<1>15. CASE ~(Len(c.output[o]) < HalfBuff)
  <2>1. con' = Disable(c, s, "R")
    BY <1>11, <1>15, Zenon
  <2>2. /\ Carried(c, con') /\ con'.state = c.state /\ con'.input = c.input /\ con'.output = c.output
        /\ con'.shut = c.shut /\ con'.enabled = [c.enabled EXCEPT ![s] = @ \ {"R"}]
    <3>1. c \in ConRecord
      BY <1>9 DEF Carried
    <3> QED
      BY <2>1, <3>1, DisableFields
  <2>3. /\ Carried(con, con') /\ con'.state = con.state /\ con'.shut = con.shut
        /\ \A t \in Side : con'.enabled[t] \subseteq con.enabled[t]
    BY <1>3, <1>9, <2>2 DEF Carried
  <2>4. /\ con'.input[s] = i /\ con'.input[o] = con.input[o]
        /\ con'.output[o] = con.output[o] /\ con'.output[s] = con.output[s]
    BY <1>2, <1>3, <1>9, <2>2
  <2>5. net'.rcv[s] = y /\ con'.pipe[s] = <<>>
    BY <1>3, <1>8, <1>10, <2>3 DEF Carried
  <2>6. Line(con', net', s) = net.snd[o] \bullet con.output[o] \bullet i \bullet <<>> \bullet y
    BY <1>10, <2>4, <2>5 DEF Line, o
  <2>7. Line(con', net', s) = Line(con, net, s)
    BY <1>13, <2>6
  <2>8. con'.output[o] # <<>>
    <3>1. Len(<<>>) = 0
      BY EmptySeq
    <3>2. ~(0 < HalfBuff) => FALSE
      BY PumpAssumption
    <3> QED
      BY <1>9, <1>15, <2>4, <3>1, <3>2
  <2> QED
    BY <1>12, <2>3, <2>4, <2>7, <2>8
<1> QED
  BY <1>14, <1>15

\* redsocks_relay_writecb() leaves a record like d, or drops one.
Flushed(c, s, d) ==
  /\ Carried(c, d) /\ d.state = c.state
  /\ \A t \in Side : "R" \in d.enabled[t] => "R" \in c.enabled[t] \/ "R" \notin c.shut[t]
  /\ \/ /\ d.shut = c.shut /\ d.input = c.input /\ d.output = c.output
        /\ c.state = "pump_active" => c.output[s] # <<>>
     \/ /\ d.shut = [c.shut EXCEPT ![s] = @ \cup {"W"}] /\ d.input = c.input /\ d.output = c.output
        /\ c.state = "pump_active" /\ c.output[s] = <<>>
        /\ c.input[Other(s)] = <<>> /\ "R" \in c.shut[Other(s)]
     \/ /\ d.shut = c.shut
        /\ d.output = [c.output EXCEPT ![s] = @ \bullet c.input[Other(s)]]
        /\ d.input = [c.input EXCEPT ![Other(s)] = <<>>]
        /\ c.state = "pump_active" /\ c.output[s] = <<>>
        /\ c.input[Other(s)] = <<>> => "R" \notin c.shut[Other(s)]

\* redsocks_relay_writecb() once the output is empty: shut down, move or stop reading.
LEMMA RelayWriteCbIs ==
  ASSUME NEW c \in ConRecord, NEW s \in Side, c.state = "pump_active", c.output[s] = <<>>
  PROVE  \E d : Flushed(c, s, d)
                  /\ (RelayWriteCb(c, Other(s)) = d \/ RelayWriteCb(c, Other(s)) = Dropped(d))
<1> DEFINE f == Other(s)
<1>1. f \in Side /\ f # s /\ Other(f) = s
  BY DEF Other, Side
<1>2. c.enabled \in [Side -> SUBSET {"R", "W"}]
  BY DEF ConRecord
<1>3. CASE c.input[f] = <<>> /\ "R" \in c.shut[f]
  <2> DEFINE d == Off(c, s, "W")
  <2>1. RelayWriteCb(c, f) = Shutdown(c, s, "W")
    BY <1>1, <1>3, Zenon DEF RelayWriteCb
  <2>2. RelayWriteCb(c, f) = d \/ RelayWriteCb(c, f) = Dropped(d)
    BY <2>1, ShutdownIs
  <2>3. /\ Carried(c, d) /\ d.state = c.state /\ d.input = c.input /\ d.output = c.output
        /\ d.shut = [c.shut EXCEPT ![s] = @ \cup {"W"}]
        /\ d.enabled = [c.enabled EXCEPT ![s] = @ \ {"W"}]
    BY OffFields
  <2> HIDE DEF d
  <2>4. Flushed(c, s, d)
    BY <1>2, <1>3, <2>3 DEF Flushed
  <2> QED
    BY <2>2, <2>4
<1>4. CASE ~(c.input[f] = <<>> /\ "R" \in c.shut[f])
  <2> DEFINE m == Move(c, f)
             e == IF "R" \in c.shut[f] THEN c.enabled[f] ELSE c.enabled[f] \cup {"R"}
             d == [m EXCEPT !.enabled[f] = e]
  <2>1. /\ Carried(c, m) /\ m.state = c.state /\ m.shut = c.shut /\ m.enabled = c.enabled
        /\ m.output = [c.output EXCEPT ![s] = @ \bullet c.input[f]]
        /\ m.input = [c.input EXCEPT ![f] = <<>>]
    BY <1>1, MoveFields
  <2> HIDE DEF m
  <2>2. RelayWriteCb(c, f) = [m EXCEPT !.enabled[f] = IF "R" \in c.shut[f] THEN @ ELSE @ \cup {"R"}]
    BY <1>4, Zenon DEF RelayWriteCb, m
  <2>3. RelayWriteCb(c, f) = d
    BY <1>1, <2>1, <2>2 DEF Carried, ConRecord
  <2>4. e \in SUBSET {"R", "W"} /\ ("R" \in e => "R" \in c.enabled[f] \/ "R" \notin c.shut[f])
    BY <1>1, <1>2
  <2> HIDE DEF e
  <2>5. /\ Carried(c, d) /\ d.state = c.state /\ d.shut = c.shut
        /\ d.output = m.output /\ d.input = m.input /\ d.enabled = [c.enabled EXCEPT ![f] = e]
    BY <1>1, <2>1, <2>4 DEF Carried, ConRecord
  <2> HIDE DEF d
  <2>6. \A t \in Side : "R" \in d.enabled[t] => "R" \in c.enabled[t] \/ "R" \notin c.shut[t]
    BY <1>2, <2>4, <2>5
  <2>7. Flushed(c, s, d)
    BY <1>4, <2>1, <2>5, <2>6, Zenon DEF Flushed
  <2> QED
    BY <2>3, <2>7
<1> QED
  BY <1>3, <1>4

\* bufferevent_writecb(): what the socket took has left the output, and the callback may
\* move the input there or pass on the end.
LEMMA BufWriteSound ==
  ASSUME Sound(con, net, use_splice, pumped, early), early \in BOOLEAN, pumped \in BOOLEAN,
         NEW s \in Side, BufWrite(s)
  PROVE  /\ Sound(con', net', use_splice, pumped', early') \/ Closed(con', net', early')
         /\ pumped' \in BOOLEAN /\ early' = early
<1> DEFINE f == Other(s)
           q == con.output[s]
           C(n) == [con EXCEPT !.output[s] = SubSeq(q, n + 1, Len(q)), !.evw[s] = n < Len(q)]
<1>1. /\ con \in ConRecord /\ net \in NetRecord /\ con.alive /\ ~con.afterDrop
      /\ Shuts(con, net) /\ Reads(con) /\ Streams(con, net) /\ Shaking(con, net)
      /\ OnePump(con, use_splice) /\ Buffered(con, use_splice, pumped) /\ Drained(con, early)
      /\ pumped => con.state = "pump_active"
  BY Zenon DEF Sound
<1>2. /\ f \in Side /\ f # s /\ Other(f) = s /\ Other(s) = f /\ \A t \in Side : t = s \/ t = f
      /\ (s = "client" /\ f = "relay") \/ (s = "relay" /\ f = "client")
  BY DEF Side, Other
<1>3. /\ q \in Items /\ con.input[f] \in Items /\ con.pipe[f] \in Items
      /\ net.snd[s] \in Items /\ net.rcv[f] \in Items
      /\ con.output \in [Side -> Items] /\ con.input \in [Side -> Items] /\ net.snd \in [Side -> Items]
      /\ con.shut \in [Side -> SUBSET {"R", "W"}]
  BY <1>1, <1>2, Types
<1>4. PICK n \in 0 .. Len(q) :
        /\ con.state # "new" /\ con.evw[s]
        /\ con' = IF C(n).state = "pump_active" /\ ~C(n).evw[s] THEN RelayWriteCb(C(n), f) ELSE C(n)
        /\ net' = [net EXCEPT !.snd[s] = @ \bullet SubSeq(q, 1, n),
                              !.wfin[s] = @ \/ "W" \in con'.shut[s]]
        /\ pumped' = (pumped \/ (s = "relay" /\ con.state = "pump_active"))
        /\ early' = early
  BY Zenon DEF BufWrite, \bullet
<1>5. /\ pumped' \in BOOLEAN /\ (pumped' => pumped \/ (s = "relay" /\ con.state = "pump_active"))
  BY <1>4, Zenon
<1> DEFINE x == SubSeq(q, 1, n)
           y == SubSeq(q, n + 1, Len(q))
           c == C(n)
           b == net.wfin[s] \/ "W" \in con'.shut[s]
<1>6. /\ x \in Items /\ y \in Items /\ q = x \bullet y /\ (y = <<>> <=> n = Len(q))
  BY <1>3, <1>4, SplitAt
<1>7. n < Len(q) <=> y # <<>>
  <2>1. Len(q) \in Nat
    BY <1>3, LenProperties DEF Items
  <2> HIDE DEF q
  <2> QED
    BY <1>4, <1>6, <2>1
<1>8. /\ Carried(con, c) /\ c.state = con.state /\ c.shut = con.shut /\ c.enabled = con.enabled
      /\ c.input = con.input /\ c.output = [con.output EXCEPT ![s] = y] /\ (c.evw[s] <=> y # <<>>)
  <2> DEFINE g == n < Len(q)
  <2>1. g \in BOOLEAN
    OBVIOUS
  <2>2. c = [con EXCEPT !.output[s] = y, !.evw[s] = g]
    BY Zenon
  <2>3. g <=> y # <<>>
    BY <1>7
  <2> HIDE DEF g, c, C, y
  <2> QED
    BY <1>1, <1>6, <2>1, <2>2, <2>3 DEF ConRecord, Carried
<1>9. /\ con' = IF c.state = "pump_active" /\ ~c.evw[s] THEN RelayWriteCb(c, f) ELSE c
      /\ net' = [net EXCEPT !.snd[s] = @ \bullet x, !.wfin[s] = @ \/ "W" \in con'.shut[s]]
  BY <1>4, Zenon
<1> HIDE DEF c, C
<1>10. c \in ConRecord /\ c.output[s] = y
  BY <1>3, <1>8 DEF Carried
<1>11. PICK d : Flushed(c, s, d) /\ (con' = d \/ con' = Dropped(d))
  <2>1. CASE c.state = "pump_active" /\ ~c.evw[s]
    <3>1. con' = RelayWriteCb(c, Other(s))
      BY <1>9, <2>1, Zenon
    <3>2. c.output[s] = <<>>
      BY <1>8, <1>10, <2>1
    <3> QED
      BY <1>10, <2>1, <3>1, <3>2, RelayWriteCbIs
  <2>2. CASE ~(c.state = "pump_active" /\ ~c.evw[s])
    <3>1. con' = c
      BY <1>9, <2>2, Zenon
    <3>2. c.state = "pump_active" => c.output[s] # <<>>
      BY <1>8, <1>10, <2>2
    <3>3. Flushed(c, s, c)
      BY <1>10, <3>2 DEF Flushed, Carried
    <3> QED
      BY <3>1, <3>3
  <2> QED
    BY <2>1, <2>2
<1>12. Flushed(c, s, d)
  BY <1>11
<1>13. /\ d \in ConRecord /\ d.alive /\ ~d.afterDrop /\ d.state = con.state
       /\ d.pipe = con.pipe /\ d.rd = con.rd /\ d.wr = con.wr /\ d.act = con.act
  BY <1>1, <1>8, <1>12 DEF Carried, Flushed
<1>14. con'.shut = d.shut
  BY <1>11, <1>13, DroppedFields
<1>15. /\ net' \in NetRecord /\ net'.snd = [net.snd EXCEPT ![s] = @ \bullet x]
       /\ net'.rcv = net.rcv /\ net'.fin = net.fin /\ net'.sent = net.sent
       /\ \A t \in Side : net'.wfin[t] => net.wfin[t] \/ "W" \in d.shut[t]
  <2>1. b \in BOOLEAN
    BY Zenon
  <2> DEFINE z == net.snd[s] \bullet x
  <2>2. z \in Items
    BY <1>3, <1>6, Cat
  <2>3. net' = [net EXCEPT !.snd[s] = z, !.wfin[s] = b]
    <3> HIDE DEF x
    <3> QED
      BY <1>1, <1>9 DEF NetRecord
  <2>4. b <=> (net.wfin[s] \/ "W" \in d.shut[s])
    BY <1>14
  <2> HIDE DEF b, z, x
  <2>5. /\ net' \in NetRecord /\ net'.snd = [net.snd EXCEPT ![s] = z]
        /\ net'.rcv = net.rcv /\ net'.fin = net.fin /\ net'.sent = net.sent
        /\ (net'.wfin[s] <=> b) /\ \A t \in Side : t # s => net'.wfin[t] = net.wfin[t]
    BY <1>1, <2>1, <2>2, <2>3 DEF NetRecord
  <2> QED
    BY <2>4, <2>5 DEF z
<1> HIDE DEF b, x, y, q, f
\* The buffers of the other direction are as they were.
<1>16. c.output[f] = con.output[f] /\ c.input = con.input /\ c.shut = con.shut /\ c.state = con.state
  BY <1>2, <1>3, <1>8
<1>17. \/ /\ d.shut = con.shut /\ d.input = con.input /\ d.output = c.output
          /\ con.state = "pump_active" => y # <<>>
       \/ /\ d.shut = [con.shut EXCEPT ![s] = @ \cup {"W"}] /\ d.input = con.input
          /\ d.output = c.output /\ y = <<>>
          /\ con.state = "pump_active" /\ con.input[f] = <<>> /\ "R" \in con.shut[f]
       \/ /\ d.shut = con.shut /\ d.output = [c.output EXCEPT ![s] = y \bullet con.input[f]]
          /\ d.input = [con.input EXCEPT ![f] = <<>>]
          /\ con.state = "pump_active" /\ y = <<>> /\ (con.input[f] = <<>> => "R" \notin con.shut[f])
  BY <1>2, <1>10, <1>12, <1>16 DEF Flushed
<1>18. c.output \in [Side -> Items]
  BY <1>10 DEF ConRecord
<1>19. /\ d.input[s] = con.input[s] /\ d.output[f] = con.output[f] /\ d.shut[f] = con.shut[f]
       /\ \/ d.shut[s] = con.shut[s]
          \/ d.shut[s] = con.shut[s] \cup {"W"} /\ "R" \in con.shut[f] /\ con.state = "pump_active"
               /\ d.output[s] = <<>> /\ d.input[f] = <<>>
  BY <1>2, <1>3, <1>10, <1>16, <1>17, <1>18
<1>20. d.state = "pump_active" /\ d.input[f] # <<>> => d.output[s] # <<>>
  BY <1>2, <1>3, <1>10, <1>13, <1>17
<1>21. con.state # "pump_active" => d.output[s] = y /\ d.input[f] = con.input[f] /\ d.shut = con.shut
  BY <1>2, <1>3, <1>10, <1>16, <1>17, <1>18
<1>22. q = <<>> /\ con.input[f] = <<>> => d.output[s] = <<>> /\ d.input[f] = <<>>
  <2>1. ASSUME q = <<>> PROVE y = <<>>
    <3>1. Len(<<>>) = 0
      BY EmptySeq
    <3> QED
      BY <1>4, <1>6, <2>1, <3>1
  <2>2. <<>> \bullet <<>> = <<>>
    BY Cat
  <2> QED
    BY <1>2, <1>3, <1>10, <1>17, <1>18, <2>1, <2>2
<1>23. Line(d, net', f) = Line(con, net, f)
  <2> DEFINE a == net.snd[s]
             i == con.input[f]
             e == con.pipe[f]
             r == net.rcv[f]
  <2>1. a \in Items /\ i \in Items /\ e \in Items /\ r \in Items /\ a \bullet x \in Items
    BY <1>3, <1>6, Cat
  <2>2. net'.snd[s] = a \bullet x /\ net'.rcv[f] = r /\ d.pipe[f] = e
    BY <1>3, <1>13, <1>15
  <2>3. Line(d, net', f) = (a \bullet x) \bullet d.output[s] \bullet d.input[f] \bullet e \bullet r
    BY <1>2, <2>2 DEF Line
  <2>4. Line(con, net, f) = a \bullet q \bullet i \bullet e \bullet r
    BY <1>2 DEF Line, q
  <2>5. \/ d.output[s] = y /\ d.input[f] = i
        \/ d.output[s] = y \bullet i /\ d.input[f] = <<>>
    BY <1>2, <1>3, <1>10, <1>17, <1>18
  <2> HIDE DEF a, i, e, r
  <2>6. (a \bullet x) \bullet (y \bullet i) \bullet <<>> \bullet e \bullet r
          = (a \bullet x) \bullet y \bullet i \bullet e \bullet r
    BY <1>6, <2>1, IntoOutput
  <2>7. (a \bullet x) \bullet y \bullet i \bullet e \bullet r = a \bullet (x \bullet y) \bullet i \bullet e \bullet r
    BY <1>6, <2>1, IntoSocket
  <2> QED
    BY <1>6, <2>3, <2>4, <2>5, <2>6, <2>7
<1>24. Shuts(d, net')
  <2>1. net'.fin = net.fin /\ net'.rcv = net.rcv /\ Shuts(con, net)
    BY <1>1, <1>15
  <2>2. \/ d.shut[s] = con.shut[s]
        \/ d.shut[s] = con.shut[s] \cup {"W"} /\ "R" \in con.shut[Other(s)]
    BY <1>2, <1>19
  <2>3. d.shut[Other(s)] = con.shut[Other(s)]
    BY <1>2, <1>19
  <2>4. \A t \in Side : net'.wfin[t] => net.wfin[t] \/ "W" \in d.shut[t]
    BY <1>15
  <2> QED
    BY <2>1, <2>2, <2>3, <2>4, ShutsAfter
<1>25. Reads(d)
  <2>1. \A t \in Side : "R" \in d.enabled[t] => "R" \in con.enabled[t] \/ "R" \notin con.shut[t]
    BY <1>8, <1>12 DEF Flushed
  <2>2. \A t \in Side : "R" \in d.shut[t] => "R" \in con.shut[t]
    BY <1>2, <1>19
  <2> QED
    BY <1>1, <1>4, <1>13, <2>1, <2>2 DEF Reads
<1>26. Streams(d, net')
  <2>1. net'.snd[f] = net.snd[f]
    BY <1>2, <1>3, <1>15
  <2>2. Line(d, net', s) = Line(con, net, s)
    BY <1>2, <1>13, <1>15, <1>19, <2>1 DEF Line
  <2> QED
    <3>1. \A t \in Side : Line(d, net', t) = Line(con, net, t)
      BY <1>2, <1>23, <2>2, Zenon
    <3>2. net'.sent = net.sent /\ d.state = con.state
      BY <1>13, <1>15
    <3> QED
      BY <1>1, <3>1, <3>2, SameStreams
<1>27. Shaking(d, net')
  <2> SUFFICES ASSUME con.state # "pump_active" PROVE Shaking(d, net')
    BY <1>13 DEF Shaking
  <2>1. /\ \A t \in Side : con.pipe[t] = <<>> /\ "W" \notin con.shut[t]
        /\ con.input["relay"] = <<>> /\ con.output["client"] = <<>> /\ net.snd["client"] = <<>>
        /\ net.snd["relay"] \bullet con.output["relay"] = Requests(con.state)
        /\ con.input["client"] \bullet net.rcv["client"] = net.sent["client"]
    BY <1>1 DEF Shaking
  <2>2. d.input = con.input /\ d.shut = con.shut
    BY <1>8, <1>12 DEF Flushed
  <2>3. CASE s = "client"
    <3>1. f = "relay"
      BY <1>2, <2>3
    <3>2. q = <<>>
      BY <2>1, <2>3 DEF q
    <3>3. x = <<>> /\ y = <<>>
      <4>1. Len(<<>>) = 0
        BY EmptySeq
      <4>2. y = <<>>
        BY <1>4, <1>6, <3>2, <4>1
      <4> QED
        BY <1>6, <3>2, <4>2, Cat
    <3>4. net.snd["client"] \bullet <<>> = <<>>
      BY <2>1, Cat
    <3>5. net'.snd["client"] = <<>> /\ net'.snd["relay"] = net.snd["relay"]
      BY <1>2, <1>3, <1>15, <2>3, <3>1, <3>3, <3>4
    <3>6. d.output["client"] = <<>> /\ d.output["relay"] = con.output["relay"]
      BY <1>19, <1>21, <2>3, <3>1, <3>3
    <3> QED
      BY <1>13, <1>15, <2>1, <2>2, <3>5, <3>6 DEF Shaking
  <2>4. CASE s = "relay"
    <3>1. f = "client"
      BY <1>2, <2>4
    <3>2. net'.snd["relay"] = net.snd["relay"] \bullet x /\ net'.snd["client"] = net.snd["client"]
      BY <1>2, <1>3, <1>15, <2>4, <3>1
    <3>3. d.output["relay"] = y /\ d.output["client"] = con.output["client"]
      BY <1>19, <1>21, <2>4, <3>1
    <3>4. (net.snd["relay"] \bullet x) \bullet y = net.snd["relay"] \bullet (x \bullet y)
      BY <1>3, <1>6, <2>4, Assoc
    <3>5. net'.snd["relay"] \bullet d.output["relay"] = Requests(con.state)
      BY <1>6, <2>1, <2>4, <3>2, <3>3, <3>4 DEF q
    <3> QED
      BY <1>13, <1>15, <2>1, <2>2, <3>2, <3>3, <3>5 DEF Shaking
  <2> QED
    BY <2>3, <2>4 DEF Side
<1>28. OnePump(d, use_splice)
  BY <1>1, <1>4, <1>13 DEF OnePump
<1>29. Buffered(d, use_splice, pumped')
  BY <1>1, <1>2, <1>5, <1>13, <1>19, <1>20 DEF Buffered
<1>30. Drained(d, early)
  <2> SUFFICES ASSUME NEW t \in Side, "W" \in d.shut[Other(t)], ~(early /\ t = "client")
               PROVE  d.output[Other(t)] = <<>> /\ d.input[t] = <<>> /\ d.pipe[t] = <<>>
    BY DEF Drained
  <2>1. CASE t = s
    BY <1>1, <1>2, <1>13, <1>19, <2>1 DEF Drained
  <2>2. CASE t = f /\ "W" \in con.shut[s]
    BY <1>1, <1>2, <1>13, <1>22, <2>2 DEF Drained, q
  <2>3. CASE t = f /\ "W" \notin con.shut[s]
    <3>1. con.state = "pump_active" /\ d.output[s] = <<>> /\ d.input[f] = <<>>
      BY <1>2, <1>19, <2>3
    <3>2. d.pipe[f] = <<>>
      BY <1>1, <1>2, <1>4, <1>13, <3>1 DEF OnePump
    <3> QED
      BY <1>2, <2>3, <3>1, <3>2
  <2> QED
    BY <1>2, <2>1, <2>2, <2>3
<1>31. Sound(d, net', use_splice, pumped', early')
  BY <1>4, <1>5, <1>1, <1>13, <1>15, <1>24, <1>25, <1>26, <1>27, <1>28, <1>29, <1>30 DEF Sound
<1> QED
  BY <1>4, <1>5, <1>11, <1>31, SettledSound
=============================================================================
