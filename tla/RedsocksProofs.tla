--------------------------- MODULE RedsocksProofs ---------------------------
(***************************************************************************)
(* redsocks keeps its limit on connections, for every number of clients    *)
(* and every limit.  A callback passes through states of the record acc in *)
(* which the limit is reached and the listener is still added, so that the *)
(* operators are proved to lead from Counted, which holds then, to Good,   *)
(* which holds between callbacks.                                          *)
(*                                                                         *)
(* The second half completes RedsocksPumpProofs: the splice pump and the   *)
(* two peers preserve Sound, a connection begins in it and ends in Closed, *)
(* and so the streams of every connection stay intact.                     *)
(***************************************************************************)
EXTENDS Redsocks, RedsocksPumpProofs, FiniteSetTheorems

AccRecord ==
  [clients : SUBSET Client, conn : 0 .. ConnMax, listening : BOOLEAN,
   backoff : BOOLEAN, ms : 0 .. MaxBackoff]

\* The list is counted, and the timer and the listener exclude each other.
Counted(a) ==
  /\ a \in AccRecord
  /\ a.conn = Cardinality(a.clients)
  /\ ~(a.listening /\ a.backoff)

Good(a) == Counted(a) /\ (a.listening => a.conn < ConnMax)

IdleOK == idle \in [Client -> IdleClass]

AcceptInv == Good(acc) /\ IdleOK /\ dangling \in BOOLEAN

-----------------------------------------------------------------------------
(* The operators.                                                          *)

\* conn_pressure_lowered() changes the listener and the timer only, and adds the
\* listener only if there is room.
LEMMA LoweredCounted ==
  ASSUME NEW a, Counted(a)
  PROVE  /\ Counted(Lowered(a))
         /\ Lowered(a).clients = a.clients /\ Lowered(a).conn = a.conn
         /\ Lowered(a).listening /\ ~a.listening => a.conn < ConnMax
         /\ Lowered(a).listening \/ Lowered(a).backoff <=> a.listening \/ a.backoff
  BY DEF Counted, Lowered, AccRecord

\* Dropping clients keeps the count true.  If one of them was on the list, there is room.
LEMMA DropGood ==
  ASSUME NEW a, Counted(a), NEW D,
         Good(a) \/ a.clients \cap D # {}
  PROVE  /\ Good(Drop(a, D))
         /\ Drop(a, D).clients = a.clients \ D
         /\ Drop(a, D).listening \/ Drop(a, D).backoff <=> a.listening \/ a.backoff
<1> DEFINE b == Lowered(a)
           n == Cardinality(a.clients \cap D)
           c == [b EXCEPT !.clients = @ \ D, !.conn = @ - n]
<1>1. /\ Counted(b) /\ b.clients = a.clients /\ b.conn = a.conn
      /\ b.listening /\ ~a.listening => a.conn < ConnMax
      /\ b.listening \/ b.backoff <=> a.listening \/ a.backoff
  BY LoweredCounted
<1>2. IsFiniteSet(a.clients) /\ a.clients \subseteq Client
  BY FS_Subset, AcceptAssumption DEF Counted, AccRecord
<1>3. /\ IsFiniteSet(a.clients \cap D) /\ n \in Nat
      /\ IsFiniteSet(a.clients \ D) /\ Cardinality(a.clients \ D) \in Nat
  BY <1>2, FS_Intersection, FS_Difference, FS_CardinalityType
<1>4. Cardinality(a.clients \ D) = Cardinality(a.clients) - n
  BY <1>2, FS_Difference
<1>5. a.clients \cap D # {} => n > 0
  BY <1>3, FS_EmptySet
<1>6. a.conn \in 0 .. ConnMax /\ a.conn = Cardinality(a.clients) /\ ConnMax \in Nat
  BY AcceptAssumption DEF Counted, AccRecord
<1>7. a.conn - n = Cardinality(a.clients \ D) /\ a.conn - n \in 0 .. ConnMax
  BY <1>3, <1>4, <1>6
<1>8. /\ c.clients = a.clients \ D /\ c.conn = a.conn - n
      /\ c.listening = b.listening /\ c.backoff = b.backoff
      /\ c \in AccRecord
  <2>1. b \in AccRecord
    BY <1>1 DEF Counted
  <2>2. a.clients \ D \in SUBSET Client
    BY <1>2
  <2> HIDE DEF b, n
  <2> QED
    BY <1>1, <1>7, <2>1, <2>2 DEF AccRecord
<1>9. Counted(c)
  BY <1>1, <1>7, <1>8 DEF Counted
<1>10. c.listening => c.conn < ConnMax
  <2>1. CASE a.clients \cap D # {}
    BY <1>3, <1>5, <1>6, <1>8, <2>1
  <2>2. CASE Good(a)
    BY <1>1, <1>3, <1>6, <1>8, <2>2 DEF Good
  <2> QED
    BY <2>1, <2>2
<1>11. Drop(a, D) = Lowered(c)
  BY DEF Drop
<1> HIDE DEF b, c
<1>12. /\ Counted(Lowered(c)) /\ Lowered(c).clients = c.clients /\ Lowered(c).conn = c.conn
       /\ Lowered(c).listening /\ ~c.listening => c.conn < ConnMax
       /\ Lowered(c).listening \/ Lowered(c).backoff <=> c.listening \/ c.backoff
  BY <1>9, LoweredCounted
<1> QED
  BY <1>1, <1>8, <1>10, <1>11, <1>12 DEF Good

\* conn_pressure() makes room, or it stops listening and arms the timer.
LEMMA PressureGood ==
  ASSUME NEW a, Counted(a), NEW i
  PROVE  /\ Good(Pressure(a, i))
         /\ Pressure(a, i).clients \subseteq a.clients
         /\ Idle(a.clients, i) = {} => Pressure(a, i).backoff
         /\ a.listening \/ a.backoff => Pressure(a, i).listening \/ Pressure(a, i).backoff
<1>1. CASE Idle(a.clients, i) # {}
  <2>1. a.clients \cap Idle(a.clients, i) # {}
    BY <1>1 DEF Idle
  <2>2. Pressure(a, i) = Drop(a, Idle(a.clients, i))
    BY <1>1 DEF Pressure
  <2>3. /\ Good(Drop(a, Idle(a.clients, i)))
        /\ Drop(a, Idle(a.clients, i)).clients = a.clients \ Idle(a.clients, i)
        /\ Drop(a, Idle(a.clients, i)).listening \/ Drop(a, Idle(a.clients, i)).backoff
             <=> a.listening \/ a.backoff
    BY <2>1, DropGood
  <2> QED
    BY <1>1, <2>2, <2>3
<1>2. CASE Idle(a.clients, i) = {}
  <2>1. Pressure(a, i) = [a EXCEPT !.ms = Clamp(2 * @ + 1), !.backoff = TRUE, !.listening = FALSE]
    BY <1>2 DEF Pressure
  <2>2. Clamp(2 * a.ms + 1) \in 0 .. MaxBackoff
    BY AcceptAssumption DEF Clamp, Counted, AccRecord
  <2> DEFINE m == Clamp(2 * a.ms + 1)
             p == [a EXCEPT !.ms = m, !.backoff = TRUE, !.listening = FALSE]
  <2>3. Pressure(a, i) = p
    BY <2>1
  <2> HIDE DEF m
  <2>4. p \in AccRecord
    BY <2>2 DEF m, Counted, AccRecord
  <2>5. p.clients = a.clients /\ p.conn = a.conn /\ p.backoff /\ ~p.listening
    BY DEF Counted, AccRecord
  <2> HIDE DEF p
  <2> QED
    BY <2>3, <2>4, <2>5 DEF Good, Counted
<1> QED
  BY <1>1, <1>2

\* redsocks_conn_list_add(), called when there is room.
LEMMA ListAddGood ==
  ASSUME NEW a, Good(a), a.conn < ConnMax, a.listening \/ a.backoff,
         NEW c \in Client, c \notin a.clients, NEW i
  PROVE  /\ Good(ListAdd(a, c, i))
         /\ ListAdd(a, c, i).listening \/ ListAdd(a, c, i).backoff
<1> DEFINE b == [a EXCEPT !.clients = @ \cup {c}, !.conn = @ + 1]
<1>1. IsFiniteSet(a.clients)
  BY FS_Subset, AcceptAssumption DEF Good, Counted, AccRecord
<1>2. Cardinality(a.clients \cup {c}) = Cardinality(a.clients) + 1
  BY <1>1, FS_AddElement
<1>3. Counted(b) /\ b.conn = a.conn + 1 /\ b.listening = a.listening /\ b.backoff = a.backoff
  <2>1. /\ a \in AccRecord /\ a.conn = Cardinality(a.clients) /\ ~(a.listening /\ a.backoff)
    BY DEF Good, Counted
  <2>2. a.conn + 1 \in 0 .. ConnMax /\ a.clients \cup {c} \in SUBSET Client
    BY <2>1, AcceptAssumption DEF AccRecord
  <2>3. b \in AccRecord
    BY <2>1, <2>2 DEF AccRecord
  <2>4. /\ b.clients = a.clients \cup {c} /\ b.conn = a.conn + 1
        /\ b.listening = a.listening /\ b.backoff = a.backoff
    BY <2>1 DEF AccRecord
  <2> HIDE DEF b
  <2> QED
    BY <1>2, <2>1, <2>3, <2>4 DEF Counted
<1>4. ListAdd(a, c, i) = IF b.conn >= ConnMax THEN Pressure(b, i) ELSE b
  BY DEF ListAdd
<1> HIDE DEF b
<1>5. Good(Pressure(b, i)) /\ (Pressure(b, i).listening \/ Pressure(b, i).backoff)
  BY <1>3, PressureGood
<1>6. ~(b.conn >= ConnMax) => b.conn < ConnMax
  BY <1>3, AcceptAssumption DEF Good, Counted, AccRecord
<1> QED
  BY <1>3, <1>4, <1>5, <1>6 DEF Good
-----------------------------------------------------------------------------
(* The callbacks.                                                          *)

\* The times of the clients are always classes.
LEMMA KeptType ==
  ASSUME NEW i \in [Client -> IdleClass], NEW C
  PROVE  Kept(i, C) \in [Client -> IdleClass]
  BY DEF Kept, IdleClass

\* The listener is added at the start, and nothing is connected.
LEMMA AcceptInitInv == ASSUME AcceptInit PROVE AcceptInv
<1>1. acc \in AccRecord
  BY AcceptAssumption DEF AcceptInit, AccRecord
<1>2. /\ acc.clients = {} /\ acc.conn = 0 /\ ~acc.backoff /\ 0 < ConnMax
  BY AcceptAssumption DEF AcceptInit
<1>3. IdleOK /\ dangling \in BOOLEAN
  BY DEF AcceptInit, IdleOK, IdleClass
<1> QED
  BY <1>1, <1>2, <1>3, FS_EmptySet DEF AcceptInv, Good, Counted

\* Every callback keeps the invariant; and one that loses the listener is the timer's,
\* with an idle client to drop.
LEMMA AcceptStep ==
  ASSUME AcceptInv, [AcceptNext]_acceptVars
  PROVE  /\ AcceptInv'
         /\ ~Lost /\ Lost' => acc.backoff /\ Idle(acc.clients, idle) # {}
<1> DEFINE fresh == [acc EXCEPT !.ms = 0]
<1>1. /\ Good(fresh) /\ fresh.clients = acc.clients /\ fresh.conn = acc.conn
      /\ fresh.listening = acc.listening /\ fresh.backoff = acc.backoff
  BY AcceptAssumption DEF AcceptInv, Good, Counted, AccRecord
<1>2. Counted(acc) /\ (acc.listening => acc.conn < ConnMax)
  BY DEF AcceptInv, Good
<1> HIDE DEF fresh
<1>3. CASE AcceptFails
  <2>1. Good(acc') /\ (acc'.listening \/ acc'.backoff)
    BY <1>2, <1>3, PressureGood DEF AcceptFails
  <2> QED
    BY <1>3, <2>1, KeptType DEF AcceptFails, AcceptInv, IdleOK, Lost
<1>4. ASSUME NEW c \in Client, Accept(c) PROVE AcceptInv' /\ ~Lost'
  <2>1. PICK i \in {"none", "some"} :
          LET now == [idle EXCEPT ![c] = i]
          IN  acc' = ListAdd([acc EXCEPT !.ms = 0], c, now) /\ idle' = Kept(now, acc'.clients)
    BY <1>4 DEF Accept
  <2>2. acc' = ListAdd(fresh, c, [idle EXCEPT ![c] = i])
    BY <2>1 DEF fresh
  <2>3. Good(acc') /\ (acc'.listening \/ acc'.backoff)
    BY <1>1, <1>2, <1>4, <2>2, ListAddGood DEF Accept
  <2>4. [idle EXCEPT ![c] = i] \in [Client -> IdleClass]
    BY DEF AcceptInv, IdleOK, IdleClass
  <2>5. idle' \in [Client -> IdleClass]
    BY <2>1, <2>4, KeptType
  <2>6. dangling' \in BOOLEAN
    BY <1>4 DEF Accept
  <2> QED
    BY <2>3, <2>5, <2>6 DEF AcceptInv, IdleOK, Lost
<1>5. ASSUME NEW c \in Client, AcceptThenFail(c) PROVE AcceptInv' /\ ~Lost'
  <2> DEFINE a == ListAdd(fresh, c, [idle EXCEPT ![c] = "some"])
  <2>1. Good(a) /\ (a.listening \/ a.backoff)
    BY <1>1, <1>2, <1>5, ListAddGood DEF AcceptThenFail
  <2>2. acc' = Lowered(fresh) \/ acc' = Drop(a, {c})
    BY <1>5 DEF AcceptThenFail, fresh
  <2>3. Counted(a) /\ Counted(fresh)
    BY <1>1, <2>1 DEF Good
  <2> HIDE DEF a
  <2>4. Good(Drop(a, {c})) /\ (Drop(a, {c}).listening \/ Drop(a, {c}).backoff)
    BY <2>1, <2>3, DropGood
  <2>5. Good(Lowered(fresh)) /\ Lowered(fresh).listening
    BY <1>1, <1>2, <1>5, <2>3, LoweredCounted DEF AcceptThenFail, Good, Counted, Lowered
  <2>6. Good(acc') /\ (acc'.listening \/ acc'.backoff)
    BY <2>2, <2>4, <2>5
  <2>7. idle' = Kept(idle, acc'.clients) /\ dangling' = dangling
    BY <1>5 DEF AcceptThenFail
  <2> QED
    BY <2>6, <2>7, KeptType DEF AcceptInv, IdleOK, Lost
<1>6. ASSUME NEW c \in Client, DropClient(c) PROVE AcceptInv' /\ (Lost' => Lost)
  <2>1. Good(acc') /\ (acc'.listening \/ acc'.backoff <=> acc.listening \/ acc.backoff)
    BY <1>2, <1>6, DropGood DEF DropClient, AcceptInv
  <2> QED
    BY <1>6, <2>1, KeptType DEF DropClient, AcceptInv, IdleOK, Lost
<1>7. CASE AcceptBackoff
  <2> DEFINE a == [acc EXCEPT !.backoff = FALSE]
  <2>1. /\ Counted(a) /\ a.clients = acc.clients /\ a.conn = acc.conn
    BY <1>2 DEF Counted, AccRecord
  <2>2. CASE acc' = Pressure(a, idle)
    <3> HIDE DEF a
    <3>1. Good(acc') /\ (Idle(acc.clients, idle) = {} => acc'.backoff)
      BY <2>1, <2>2, PressureGood
    <3> QED
      BY <1>7, <3>1, KeptType DEF AcceptBackoff, AcceptInv, IdleOK, Lost
  <2>3. CASE a.conn < ConnMax /\ acc' = [a EXCEPT !.listening = TRUE]
    <3>1. Good(acc') /\ acc'.listening
      BY <2>1, <2>3, AcceptAssumption DEF Good, Counted, AccRecord
    <3> QED
      BY <1>7, <3>1, KeptType DEF AcceptBackoff, AcceptInv, IdleOK, Lost
  <2> QED
    BY <1>7, <2>2, <2>3 DEF AcceptBackoff
<1>8. CASE Restart
  <2>1. Good(acc') /\ acc'.listening
    BY <1>8, FS_EmptySet, AcceptAssumption DEF Restart, Good, Counted, AccRecord
  <2> QED
    BY <1>8, <2>1, KeptType DEF Restart, AcceptInv, IdleOK, Lost
<1>9. ASSUME NEW c \in Client, NEW pipeClosed \in BOOLEAN, Touch(c, pipeClosed)
      PROVE  AcceptInv' /\ (Lost' => Lost)
  <2>1. acc' = Lowered(acc) \/ acc' = acc
    BY <1>9 DEF Touch
  <2>2. Good(Lowered(acc)) /\ (Lowered(acc).listening \/ Lowered(acc).backoff
                                <=> acc.listening \/ acc.backoff)
    BY <1>2, LoweredCounted DEF AcceptInv, Good
  <2>3. Good(acc') /\ (acc'.listening \/ acc'.backoff <=> acc.listening \/ acc.backoff)
    BY <2>1, <2>2 DEF AcceptInv
  <2>4. idle' \in [Client -> IdleClass] /\ dangling' = dangling
    BY <1>9 DEF Touch, AcceptInv, IdleOK, IdleClass
  <2> QED
    BY <2>3, <2>4 DEF AcceptInv, IdleOK, Lost
<1>10. ASSUME NEW c \in Client, Elapse(c) PROVE AcceptInv' /\ (Lost' => Lost)
  <2>1. acc' = acc /\ dangling' = dangling
    BY <1>10 DEF Elapse
  <2>2. [d \in Client |-> "none"] \in [Client -> IdleClass]
    BY DEF IdleClass
  <2>3. Kept([d \in Client |-> "none"], acc.clients) \in [Client -> IdleClass]
    BY <2>2, KeptType
  <2>4. idle' \in [Client -> IdleClass]
    BY <1>10, <2>3 DEF Elapse, AcceptInv, IdleOK, IdleClass
  <2> QED
    BY <2>1, <2>4 DEF AcceptInv, IdleOK, Lost
<1>11. CASE UNCHANGED acceptVars
  BY <1>11 DEF acceptVars, AcceptInv, IdleOK, Lost
<1> QED
  BY <1>3, <1>4, <1>5, <1>6, <1>7, <1>8, <1>9, <1>10, <1>11 DEF AcceptNext, Lost

-----------------------------------------------------------------------------
(* The theorems.                                                           *)

\* Whatever the clients do and however often descriptors run out: redsocks_conn is the
\* length of the list and at most the limit, there is room whenever redsocks listens,
\* as redsocks_accept_client() asserts, and the timer is not pending then.
THEOREM AcceptSafe == AcceptSpec => [](AcceptTypeOK /\ ListeningHasRoom /\ NotBoth)
<1>1. AcceptInit => AcceptInv
  BY AcceptInitInv
<1>2. AcceptInv /\ [AcceptNext]_acceptVars => AcceptInv'
  BY AcceptStep
<1>3. AcceptInv => AcceptTypeOK /\ ListeningHasRoom /\ NotBoth
  BY DEF AcceptInv, Good, Counted, AccRecord, IdleOK, AcceptTypeOK, ListeningHasRoom, NotBoth
<1> QED
  BY <1>1, <1>2, <1>3, PTL DEF AcceptSpec

\* The listener is lost only when the timer fires and conn_pressure() drops idle
\* connections instead of arming it again.
THEOREM AcceptLostByTimerOnly == AcceptSpec => LostByTimerOnly
<1>1. AcceptInit => AcceptInv
  BY AcceptInitInv
<1>2. AcceptInv /\ [AcceptNext]_acceptVars => AcceptInv'
  BY AcceptStep
<1>3. AcceptInv /\ [AcceptNext]_acceptVars
        => [~Lost /\ Lost' => acc.backoff /\ Idle(acc.clients, idle) # {}]_acceptVars
  BY AcceptStep
<1> QED
  BY <1>1, <1>2, <1>3, PTL DEF AcceptSpec, LostByTimerOnly

\* The pump of a connection does nothing to the accepting side but touch its client,
\* close its pipes and drop it: redsocks as a whole implements RedsocksAccept.
THEOREM RedsocksAccepts == RedsocksSpec => AcceptSpec
<1>1. RedsocksInit => AcceptInit
  BY DEF RedsocksInit
<1>2. ASSUME [RedsocksNext]_redsocksVars PROVE [AcceptNext]_acceptVars
  <2>1. CASE AcceptSide
    BY <2>1 DEF AcceptSide, AcceptNext
  <2>2. PipeClosed \in BOOLEAN
    BY DEF PipeClosed
  <2>3. ASSUME ~dangling, Touch(Traced, PipeClosed) \/ DropClient(Traced) PROVE AcceptNext
    BY <2>2, <2>3, TracedAssumption DEF AcceptNext
  <2>4. CASE PumpSide(Callback) \/ PumpSide(Fail)
    BY <2>3, <2>4 DEF PumpSide
  <2>5. CASE PeerSide \/ UNCHANGED redsocksVars
    BY <2>5 DEF PeerSide, redsocksVars
  <2> QED
    BY <1>2, <2>1, <2>4, <2>5 DEF RedsocksNext
<1> QED
  BY <1>1, <1>2, PTL DEF RedsocksSpec, AcceptSpec

\* Hence redsocks_conn is right, and at most the limit, with a pump behind the client.
THEOREM RedsocksCounts == RedsocksSpec => []AcceptTypeOK
  BY AcceptSafe, RedsocksAccepts, PTL

\* Hence the assertion of redsocks_accept_client() holds for redsocks as a whole.
THEOREM RedsocksHasRoom == RedsocksSpec => []ListeningHasRoom
  BY AcceptSafe, RedsocksAccepts, PTL

\* Hence redsocks as a whole never listens with the timer pending.
THEOREM RedsocksNotBoth == RedsocksSpec => []NotBoth
  BY AcceptSafe, RedsocksAccepts, PTL

\* Hence no callback of a pump loses the listener.
THEOREM RedsocksLostByTimerOnly == RedsocksSpec => LostByTimerOnly
  BY AcceptLostByTimerOnly, RedsocksAccepts, PTL

-----------------------------------------------------------------------------
(* The splice pump.                                                        *)

\* What the three outcomes of redsplice_read_cb() have in common.
LEMMA SpliceReads ==
  ASSUME Sound(con, net, use_splice, pumped, early), NEW s \in Side, con.rd[s],
         pumped' = pumped, early' = early,
         con' \in ConRecord, con'.alive = con.alive, con'.afterDrop = con.afterDrop,
         con'.state = con.state, con'.input = con.input, con'.output = con.output,
         con'.enabled = con.enabled, con'.evw = con.evw,
         con'.pipe[Other(s)] = con.pipe[Other(s)], con'.shut[Other(s)] = con.shut[Other(s)],
         con'.shut[s] = con.shut[s] \/ con'.shut[s] = con.shut[s] \cup {"R"},
         net' \in NetRecord, net'.fin = net.fin, net'.sent = net.sent, net'.snd = net.snd,
         net'.wfin = net.wfin, net'.rcv[Other(s)] = net.rcv[Other(s)],
         "R" \in con'.shut[s] => net.fin[s] /\ net'.rcv[s] = <<>>,
         "R" \in con.shut[s] => con'.pipe[s] = con.pipe[s],
         Line(con', net', s) = Line(con, net, s)
  PROVE  Sound(con', net', use_splice, pumped', early')
<1> DEFINE o == Other(s)
<1>1. /\ con \in ConRecord /\ net \in NetRecord /\ con.alive /\ ~con.afterDrop
      /\ Shuts(con, net) /\ Reads(con) /\ Streams(con, net) /\ Shaking(con, net)
      /\ OnePump(con, use_splice) /\ Buffered(con, use_splice, pumped) /\ Drained(con, early)
      /\ pumped => con.state = "pump_active"
  BY Zenon DEF Sound
<1>2. /\ o \in Side /\ o # s /\ Other(o) = s /\ Other(s) = o /\ \A t \in Side : t = s \/ t = o
  BY DEF Side, Other
<1>3. con.state = "pump_active" /\ use_splice
  BY <1>1 DEF OnePump
<1> HIDE DEF o
<1>4. Shuts(con', net')
  BY <1>1, <1>2 DEF Shuts
<1>5. Reads(con')
  BY <1>1, <1>3 DEF Reads, OnePump
<1>6. Streams(con', net')
  <2>1. Line(con', net', o) = Line(con, net, o)
    BY <1>2 DEF Line
  <2> QED
    BY <1>1, <1>2, <2>1, SameStreams
<1>7. Shaking(con', net') /\ Buffered(con', use_splice, pumped)
  BY <1>3 DEF Shaking, Buffered
<1>8. OnePump(con', use_splice)
  BY <1>1, <1>3 DEF OnePump
<1>9. Drained(con', early)
  <2> SUFFICES ASSUME NEW t \in Side, "W" \in con'.shut[Other(t)], ~(early /\ t = "client")
               PROVE  con'.output[Other(t)] = <<>> /\ con'.input[t] = <<>> /\ con'.pipe[t] = <<>>
    BY DEF Drained
  <2>1. "W" \in con.shut[Other(t)]
    BY <1>2
  <2>2. con.output[Other(t)] = <<>> /\ con.input[t] = <<>> /\ con.pipe[t] = <<>>
    BY <1>1, <2>1 DEF Drained
  <2>3. "R" \in con.shut[t]
    BY <1>1, <2>1 DEF Shuts
  <2> QED
    BY <1>2, <2>2, <2>3
<1> QED
  BY <1>1, <1>3, <1>4, <1>5, <1>6, <1>7, <1>8, <1>9 DEF Sound

\* redsplice_read_cb(): some items, a full pipe, or the end.
LEMMA SpliceReadSound ==
  ASSUME Sound(con, net, use_splice, pumped, early), NEW s \in Side,
         SpliceRead(s) \/ SpliceReadFull(s) \/ SpliceReadEof(s)
  PROVE  Sound(con', net', use_splice, pumped', early') /\ pumped' = pumped /\ early' = early
<1> DEFINE o == Other(s)
           r == net.rcv[s]
<1>1. con \in ConRecord /\ net \in NetRecord /\ Shuts(con, net)
  BY Zenon DEF Sound
<1>2. o \in Side /\ o # s /\ Other(o) = s /\ Other(s) = o
  BY DEF Side, Other
<1>3. /\ r \in Items /\ con.pipe[s] \in Items /\ con.output[o] \in Items /\ con.input[s] \in Items
      /\ net.snd[o] \in Items
      /\ net.rcv \in [Side -> Items] /\ con.pipe \in [Side -> Items]
      /\ con.shut \in [Side -> SUBSET {"R", "W"}]
  BY <1>1, <1>2, Types
<1>4. pumped' = pumped /\ early' = early /\ con.rd[s]
  BY Zenon DEF SpliceRead, SpliceReadFull, SpliceReadEof
<1>5. CASE SpliceRead(s)
  <2>1. PICK n \in 1 .. Len(r) :
          /\ con' = [con EXCEPT !.pipe[s] = @ \bullet SubSeq(r, 1, n), !.act[o] = TRUE]
          /\ net' = [net EXCEPT !.rcv[s] = SubSeq(@, n + 1, Len(@))]
    BY <1>5, Zenon DEF SpliceRead, \bullet
  <2> DEFINE x == SubSeq(r, 1, n)
             y == SubSeq(r, n + 1, Len(r))
             z == con.pipe[s] \bullet x
  <2>2. n \in 0 .. Len(r) /\ r # <<>>
    <3>1. Len(r) \in Nat
      BY <1>3, LenProperties DEF Items
    <3>2. Len(<<>>) = 0
      BY EmptySeq
    <3> HIDE DEF r
    <3> QED
      BY <2>1, <3>1, <3>2
  <2>3. x \in Items /\ y \in Items /\ x \bullet y = r
    BY <1>3, <2>2, SplitAt
  <2>4. z \in Items
    BY <1>3, <2>3, Cat
  <2>5. net' = [net EXCEPT !.rcv[s] = y]
    BY <1>1, <2>1 DEF NetRecord
  <2> HIDE DEF x, y
  <2>6. con' = [con EXCEPT !.pipe[s] = z, !.act[o] = TRUE]
    BY <1>1, <1>2, <2>1 DEF ConRecord, x
  <2> HIDE DEF z
  <2>7. /\ con' \in ConRecord /\ con'.alive = con.alive /\ con'.afterDrop = con.afterDrop
        /\ con'.state = con.state /\ con'.input = con.input /\ con'.output = con.output
        /\ con'.enabled = con.enabled /\ con'.evw = con.evw /\ con'.shut = con.shut
        /\ con'.pipe = [con.pipe EXCEPT ![s] = z]
    BY <1>1, <1>2, <2>4, <2>6 DEF ConRecord
  <2>8. /\ net' \in NetRecord /\ net'.rcv = [net.rcv EXCEPT ![s] = y]
        /\ net'.fin = net.fin /\ net'.sent = net.sent /\ net'.snd = net.snd /\ net'.wfin = net.wfin
    BY <1>1, <2>3, <2>5, RcvFields
  <2>9. "R" \notin con.shut[s]
    BY <1>1, <2>2 DEF Shuts
  <2> HIDE DEF r, o
  <2>10. /\ net'.rcv[o] = net.rcv[o] /\ con'.pipe[o] = con.pipe[o]
         /\ net'.rcv[s] = y /\ con'.pipe[s] = z
    BY <1>2, <1>3, <2>7, <2>8
  <2>11. Line(con', net', s) = Line(con, net, s)
    <3> DEFINE a == net.snd[o]
               b == con.output[o]
               c == con.input[s]
               d == con.pipe[s]
    <3>1. a \in Items /\ b \in Items /\ c \in Items /\ d \in Items
      BY <1>3
    <3>2. Line(con', net', s) = a \bullet b \bullet c \bullet z \bullet y
      BY <1>2, <2>7, <2>8, <2>10 DEF Line
    <3>3. Line(con, net, s) = a \bullet b \bullet c \bullet d \bullet r
      BY <1>2 DEF Line, r
    <3>4. z = d \bullet x
      BY DEF z
    <3> HIDE DEF a, b, c, d
    <3>5. a \bullet b \bullet c \bullet (d \bullet x) \bullet y
            = a \bullet b \bullet c \bullet d \bullet (x \bullet y)
      BY <2>3, <3>1, IntoPipe
    <3> QED
      BY <2>3, <3>2, <3>3, <3>4, <3>5
  <2> QED
    BY <1>2, <1>4, <2>7, <2>8, <2>9, <2>10, <2>11, SpliceReads
<1>6. CASE SpliceReadFull(s)
  <2>1. con' = [con EXCEPT !.rd[s] = FALSE] /\ net' = net
    BY <1>6, Zenon DEF SpliceReadFull
  <2>2. /\ con' \in ConRecord /\ con'.alive = con.alive /\ con'.afterDrop = con.afterDrop
        /\ con'.state = con.state /\ con'.input = con.input /\ con'.output = con.output
        /\ con'.enabled = con.enabled /\ con'.evw = con.evw /\ con'.shut = con.shut
        /\ con'.pipe = con.pipe
    BY <1>1, <2>1 DEF ConRecord
  <2>3. Line(con', net', s) = Line(con, net, s)
    BY <2>1, <2>2 DEF Line
  <2>4. "R" \in con.shut[s] => net.fin[s] /\ net.rcv[s] = <<>>
    BY <1>1 DEF Shuts
  <2> QED
    BY <1>1, <1>4, <2>1, <2>2, <2>3, <2>4, SpliceReads
<1>7. CASE SpliceReadEof(s)
  <2>1. /\ con' = [con EXCEPT !.shut[s] = @ \cup {"R"}, !.rd[s] = FALSE, !.act[Other(s)] = TRUE]
        /\ net' = net /\ net.rcv[s] = <<>> /\ net.fin[s]
    BY <1>7, Zenon DEF SpliceReadEof
  <2>2. /\ con' \in ConRecord /\ con'.alive = con.alive /\ con'.afterDrop = con.afterDrop
        /\ con'.state = con.state /\ con'.input = con.input /\ con'.output = con.output
        /\ con'.enabled = con.enabled /\ con'.evw = con.evw
        /\ con'.shut = [con.shut EXCEPT ![s] = @ \cup {"R"}] /\ con'.pipe = con.pipe
    BY <1>1, <1>2, <2>1 DEF ConRecord
  <2>3. Line(con', net', s) = Line(con, net, s)
    BY <2>1, <2>2 DEF Line
  <2>4. con'.shut[s] = con.shut[s] \cup {"R"} /\ con'.shut[o] = con.shut[o]
    BY <1>2, <1>3, <2>2
  <2> QED
    BY <1>1, <1>4, <2>1, <2>2, <2>3, <2>4, SpliceReads
<1> QED
  BY <1>4, <1>5, <1>6, <1>7

\* The number of items taken.
LEMMA FrontLength ==
  ASSUME NEW q \in Items, NEW n \in 0 .. Len(q)
  PROVE  Len(SubSeq(q, 1, n)) = n
<1>1. Len(q) \in Nat /\ \A i \in 1 .. Len(q) : q[i] \in Item
  BY LenProperties, ElementOfSeq DEF Items
<1>2. \A i \in 1 .. n : q[i] \in Item
  BY <1>1
<1>3. Len(SubSeq(q, 1, n)) = IF 1 <= n THEN n - 1 + 1 ELSE 0
  BY <1>1, <1>2, SubSeqProperties
<1> QED
  BY <1>1, <1>3

\* The length of a concatenation.
LEMMA CatLength ==
  ASSUME NEW q \in Items, NEW r \in Items
  PROVE  /\ Len(q \bullet r) = Len(q) + Len(r) /\ Len(q) \in Nat /\ Len(r) \in Nat
         /\ q \bullet r = <<>> => q = <<>> /\ r = <<>>
<1>1. Len(q \bullet r) = Len(q) + Len(r)
  BY ConcatProperties, Zenon DEF Items, \bullet
<1>2. Len(q) \in Nat /\ Len(r) \in Nat
  BY LenProperties DEF Items
<1>3. q \bullet r = <<>> => q = <<>> /\ r = <<>>
  <2>1. Len(<<>>) = 0 /\ (q # <<>> => Len(q) > 0) /\ (r # <<>> => Len(r) > 0)
    BY EmptySeq DEF Items
  <2> QED
    BY <1>1, <1>2, <2>1
<1> QED
  BY <1>1, <1>2, <1>3

\* What is taken from a concatenation is its first part, if it is as long.
LEMMA FrontOfCat ==
  ASSUME NEW u \in Items, NEW v \in Items
  PROVE  SubSeq(u \bullet v, 1, Len(u)) = u
<1> DEFINE w == u \bullet v
<1>1. /\ u \in Seq(Item) /\ w \in Seq(Item) /\ Len(w) = Len(u) + Len(v)
      /\ Len(u) \in Nat /\ Len(v) \in Nat
  BY Cat, CatLength DEF Items
<1>2. \A i \in 1 .. Len(u) + Len(v) : w[i] = IF i <= Len(u) THEN u[i] ELSE v[i - Len(u)]
  BY ConcatProperties, Zenon DEF Items, \bullet
<1> HIDE DEF w
<1>3. \A i \in 1 .. Len(u) : w[i] = u[i]
  BY <1>1, <1>2
<1>4. \A i \in 1 .. Len(u) : w[i] \in Item
  BY <1>1, <1>3, ElementOfSeq
<1>5. SubSeq(w, 1, Len(u)) \in Seq(Item)
  BY <1>1, <1>4, SubSeqProperties
<1>6. \A i \in 1 .. Len(u) - 1 + 1 : SubSeq(w, 1, Len(u))[i] = w[1 + i - 1]
  BY <1>1, <1>4, SubSeqProperties
<1>7. Len(SubSeq(w, 1, Len(u))) = Len(u)
  <2>1. w \in Items /\ Len(u) \in 0 .. Len(w)
    BY <1>1 DEF Items
  <2> QED
    BY <2>1, FrontLength
<1> DEFINE x == SubSeq(w, 1, Len(u))
<1>8. x \in Seq(Item) /\ Len(x) = Len(u) /\ \A i \in 1 .. Len(u) : x[i] = w[i]
  <2>1. \A i \in 1 .. Len(u) : i \in 1 .. Len(u) - 1 + 1 /\ 1 + i - 1 = i
    BY <1>1
  <2> QED
    BY <1>5, <1>6, <1>7, <2>1
<1> HIDE DEF x
<1>9. x = u
  BY <1>1, <1>3, <1>8, SeqEqual
<1> QED
  BY <1>9 DEF x, w

\* What is left of a buffer of which k items were taken.
Cut(q, k) == IF k <= 0 THEN q ELSE SubSeq(q, k + 1, Len(q))

\* What was taken and what is left are the whole.
LEMMA CutBack ==
  ASSUME NEW q \in Items, NEW k \in Int
  PROVE  /\ Cut(q, k) \in Items
         /\ k \in 0 .. Len(q) => q = SubSeq(q, 1, k) \bullet Cut(q, k)
         /\ k >= Len(q) => Cut(q, k) = <<>>
<1>1. Len(q) \in Nat
  BY LenProperties DEF Items
<1>2. CASE k > Len(q)
  <2>1. SubSeq(q, k + 1, Len(q)) = <<>>
    BY <1>1, <1>2, SubSeqEmpty
  <2>2. ~(k <= 0) /\ k \notin 0 .. Len(q)
    BY <1>1, <1>2
  <2> QED
    BY <2>1, <2>2, Cat DEF Cut
<1>3. CASE k \in 1 .. Len(q)
  <2>1. k \in 0 .. Len(q) /\ ~(k <= 0) /\ (k >= Len(q) => k = Len(q))
    BY <1>1, <1>3
  <2> QED
    BY <2>1, SplitAt DEF Cut
<1>4. CASE k <= 0
  <2>1. k = 0 => SubSeq(q, 1, k) = <<>>
    BY SubSeqEmpty
  <2>2. k \in 0 .. Len(q) => k = 0
    BY <1>1, <1>4
  <2>3. k >= Len(q) => Len(q) = 0
    BY <1>1, <1>4
  <2>4. Len(q) = 0 => q = <<>>
    BY EmptySeq DEF Items
  <2> QED
    BY <1>4, <2>1, <2>2, <2>3, <2>4, Cat DEF Cut
<1> QED
  BY <1>1, <1>2, <1>3, <1>4

\* redsplice_write_cb() takes from the output, the input and the pipe in this order.
LEMMA ThreeCuts ==
  ASSUME NEW b \in Items, NEW c \in Items, NEW d \in Items, NEW n \in 0 .. Len(b \bullet c \bullet d)
  PROVE  b \bullet c \bullet d
           = SubSeq(b \bullet c \bullet d, 1, n)
               \bullet (Cut(b, n) \bullet Cut(c, n - Len(b)) \bullet Cut(d, n - (Len(b) + Len(c))))
<1> DEFINE p == b \bullet c \bullet d
           lb == Len(b)
           lc == Len(c)
           ld == Len(d)
           x == SubSeq(p, 1, n)
<1>1. /\ p \in Items /\ b \bullet c \in Items
      /\ Len(p) = lb + lc + ld /\ Len(b \bullet c) = lb + lc
      /\ lb \in Nat /\ lc \in Nat /\ ld \in Nat
  <2>1. b \bullet c \in Items /\ p \in Items
    BY Cat
  <2>2. /\ Len(b \bullet c) = lb + lc /\ lb \in Nat /\ lc \in Nat
    BY CatLength
  <2>3. Len(p) = Len(b \bullet c) + ld /\ ld \in Nat
    BY <2>1, CatLength
  <2> QED
    BY <2>1, <2>2, <2>3
\* The items that are written are u, and v is left.
<1>2. ASSUME NEW u \in Items, NEW v \in Items, p = u \bullet v, Len(u) = n
      PROVE  p = x \bullet v
  BY <1>2, FrontOfCat
<1> HIDE DEF p, x, lb, lc, ld
<1>3. n \in Int /\ n - lb \in Int /\ n - (lb + lc) \in Int /\ n >= 0 /\ n <= lb + lc + ld
  BY <1>1 DEF p
<1>4. Cut(b, n) \in Items /\ Cut(c, n - lb) \in Items /\ Cut(d, n - (lb + lc)) \in Items
  BY <1>3, CutBack
<1>5. CASE n <= lb
  <2> DEFINE u == SubSeq(b, 1, n)
             v == Cut(b, n)
  <2>1. n \in 0 .. Len(b) /\ n - lb <= 0 /\ n - (lb + lc) <= 0
    BY <1>1, <1>3, <1>5 DEF lb
  <2>2. b = u \bullet v
    BY <1>3, <2>1, CutBack
  <2>3. u \in Items /\ Len(u) = n
    BY <2>1, SplitAt, FrontLength
  <2>4. Cut(c, n - lb) = c /\ Cut(d, n - (lb + lc)) = d
    BY <2>1 DEF Cut
  <2> HIDE DEF u, v
  <2>5. v \in Items /\ v \bullet c \bullet d \in Items
    BY <1>4, Cat DEF v
  <2>6. p = u \bullet (v \bullet c \bullet d)
    BY <2>2, <2>3, <2>5, Shift DEF p
  <2>7. p = x \bullet (v \bullet c \bullet d)
    BY <1>2, <2>3, <2>5, <2>6
  <2> QED
    BY <2>4, <2>7 DEF v, p, x, lb, lc
<1>6. CASE n > lb /\ n <= lb + lc
  <2> DEFINE k == n - lb
             u == SubSeq(c, 1, k)
             v == Cut(c, k)
  <2>1. k \in 0 .. Len(c) /\ n >= Len(b) /\ n - (lb + lc) <= 0
    BY <1>1, <1>3, <1>6 DEF lb, lc
  <2>2. c = u \bullet v
    BY <1>3, <2>1, CutBack
  <2>3. u \in Items /\ Len(u) = n - lb
    BY <2>1, SplitAt, FrontLength
  <2>4. Cut(b, n) = <<>> /\ Cut(d, n - (lb + lc)) = d
    BY <1>3, <2>1, CutBack DEF Cut
  <2> HIDE DEF u, v
  <2>5. v \in Items /\ v \bullet d \in Items /\ b \bullet u \in Items
    BY <1>4, <2>3, Cat DEF v
  <2>6. Len(b \bullet u) = n
    <3>1. Len(b \bullet u) = lb + Len(u)
      BY <2>3, CatLength DEF lb
    <3> QED
      BY <1>1, <1>3, <2>3, <3>1
  <2>7. p = (b \bullet u) \bullet (v \bullet d)
    BY <2>2, <2>3, <2>5, Shift DEF p
  <2>8. p = x \bullet (v \bullet d)
    BY <1>2, <2>5, <2>6, <2>7
  <2>9. <<>> \bullet v = v
    BY <2>5, Cat
  <2> QED
    BY <2>4, <2>8, <2>9 DEF v, p, x, lb, lc
<1>7. CASE n > lb + lc
  <2> DEFINE k == n - (lb + lc)
             u == SubSeq(d, 1, k)
             v == Cut(d, k)
  <2>1. k \in 0 .. Len(d) /\ n >= Len(b) /\ n - lb >= Len(c)
    BY <1>1, <1>3, <1>7 DEF lb, lc, ld
  <2>2. d = u \bullet v
    BY <1>3, <2>1, CutBack
  <2>3. u \in Items /\ Len(u) = n - (lb + lc)
    BY <2>1, SplitAt, FrontLength
  <2>4. Cut(b, n) = <<>> /\ Cut(c, n - lb) = <<>>
    BY <1>3, <2>1, CutBack
  <2> HIDE DEF u, v
  <2>5. v \in Items /\ b \bullet c \bullet u \in Items
    BY <1>1, <1>4, <2>3, Cat DEF v
  <2>6. Len(b \bullet c \bullet u) = n
    <3>1. Len(b \bullet c \bullet u) = Len(b \bullet c) + Len(u)
      BY <1>1, <2>3, CatLength
    <3> QED
      BY <1>1, <1>3, <2>3, <3>1
  <2>7. p = (b \bullet c \bullet u) \bullet v
    BY <1>1, <2>2, <2>3, <2>5, Cat DEF p
  <2>8. p = x \bullet v
    BY <1>2, <2>5, <2>6, <2>7
  <2>9. <<>> \bullet <<>> \bullet v = v
    BY <2>5, Cat
  <2> QED
    BY <2>4, <2>8, <2>9 DEF v, p, x, lb, lc
<1> QED
  BY <1>1, <1>3, <1>5, <1>6, <1>7

\* redsplice_write_cb() loses nothing of what was pending, wherever its write stops.
LEMMA WrittenIs ==
  ASSUME NEW c \in ConRecord, NEW t \in Side, NEW n \in 0 .. Len(Pending(c, t))
  PROVE  \E b \in Items, i \in Items, d \in Items :
           /\ Written(c, t, n) = [c EXCEPT !.output[t] = b, !.input[Other(t)] = i, !.pipe[Other(t)] = d]
           /\ Pending(c, t) = SubSeq(Pending(c, t), 1, n) \bullet (b \bullet i \bullet d)
<1> DEFINE s == Other(t)
           b == c.output[t]
           i == c.input[s]
           d == c.pipe[s]
           p == b \bullet i \bullet d
           b2 == Cut(b, n)
           i2 == Cut(i, n - Len(b))
           d2 == Cut(d, n - (Len(b) + Len(i)))
<1>1. s \in Side /\ s # t
  BY DEF Side, Other
<1>2. b \in Items /\ i \in Items /\ d \in Items
  <2>1. /\ c.output \in [Side -> Items] /\ c.input \in [Side -> Items] /\ c.pipe \in [Side -> Items]
    BY DEF ConRecord
  <2> QED
    BY <1>1, <2>1
<1>3. Pending(c, t) = p
  BY Zenon DEF Pending, \bullet
<1>4. n \in 0 .. Len(p)
  BY <1>3
<1>5. p = SubSeq(p, 1, n) \bullet (b2 \bullet i2 \bullet d2)
  BY <1>2, <1>4, ThreeCuts
<1>6. Len(b) \in Nat /\ Len(i) \in Nat /\ n \in Int
  BY <1>2, <1>4, CatLength
<1>7. b2 \in Items /\ i2 \in Items /\ d2 \in Items
  <2> HIDE DEF b, i, d
  <2>1. n - Len(b) \in Int /\ n - (Len(b) + Len(i)) \in Int
    BY <1>6
  <2> QED
    BY <1>2, <1>6, <2>1, CutBack
<1>8. SubSeq(b, n + 1, Len(b)) = b2
  <2> HIDE DEF b
  <2>1. SubSeq(b, 1, Len(b)) = b
    BY <1>2, SubSeqFull DEF Items
  <2>2. n <= 0 => n + 1 = 1
    BY <1>4
  <2> QED
    BY <2>1, <2>2 DEF Cut
<1>9. Written(c, t, n) = [c EXCEPT !.output[t] = SubSeq(@, n + 1, Len(@)),
                                   !.input[s] = IF n - Len(b) <= 0 THEN @ ELSE SubSeq(@, (n - Len(b)) + 1, Len(@)),
                                   !.pipe[s] = IF n - (Len(b) + Len(i)) <= 0 THEN @
                                               ELSE SubSeq(@, (n - (Len(b) + Len(i))) + 1, Len(@))]
  BY Zenon DEF Written
<1>10. Written(c, t, n) = [c EXCEPT !.output[t] = b2, !.input[s] = i2, !.pipe[s] = d2]
  BY <1>1, <1>8, <1>9 DEF ConRecord, Cut
<1> HIDE DEF b2, i2, d2
<1> QED
  BY <1>3, <1>5, <1>7, <1>10

\* redsplice_write_cb() leaves a record like d, or drops one.
Spliced(c, t, d) ==
  /\ d \in ConRecord /\ d.alive = c.alive /\ d.afterDrop = c.afterDrop /\ d.state = c.state
  /\ d.input = c.input /\ d.output = c.output /\ d.pipe = c.pipe
  /\ d.enabled = c.enabled /\ d.evw = c.evw
  /\ \/ d.shut = c.shut
     \/ /\ d.shut = [c.shut EXCEPT ![t] = @ \cup {"W"}]
        /\ Pending(c, t) = <<>> /\ "R" \in c.shut[Other(t)]

\* redsplice_write_cb() shuts down only when nothing is pending and the reader has ended.
LEMMA DecideIs ==
  ASSUME NEW c \in ConRecord, NEW t \in Side
  PROVE  \E d : Spliced(c, t, d) /\ (Decide(c, t) = d \/ Decide(c, t) = Dropped(d))
<1> DEFINE s == Other(t)
           h == Pending(c, t) # <<>>
           eof == ~h /\ "R" \in c.shut[s] /\ "W" \notin c.shut[t]
           d == [c EXCEPT !.shut[t] = @ \cup {"W"}, !.open[s] = FALSE]
           e == [d EXCEPT !.rd[s] = FALSE, !.wr[t] = FALSE]
           g == [c EXCEPT !.rd[s] = ~h, !.wr[t] = h]
<1>1. s \in Side
  BY DEF Side, Other
<1>2. h \in BOOLEAN /\ (~h) \in BOOLEAN
  BY Zenon
<1>3. /\ eof /\ shut_both(d) => Decide(c, t) = Dropped(d)
      /\ eof /\ ~shut_both(d) => Decide(c, t) = e
      /\ ~eof => Decide(c, t) = g
  BY Zenon DEF Decide
<1>4. ASSUME eof PROVE Spliced(c, t, d)
  <2>1. /\ d \in ConRecord /\ d.alive = c.alive /\ d.afterDrop = c.afterDrop /\ d.state = c.state
        /\ d.input = c.input /\ d.output = c.output /\ d.pipe = c.pipe
        /\ d.enabled = c.enabled /\ d.evw = c.evw /\ d.shut = [c.shut EXCEPT ![t] = @ \cup {"W"}]
    BY <1>1 DEF ConRecord
  <2> QED
    BY <1>4, <2>1 DEF Spliced
<1>5. ASSUME eof PROVE Spliced(c, t, e)
  <2>1. /\ e \in ConRecord /\ e.alive = c.alive /\ e.afterDrop = c.afterDrop /\ e.state = c.state
        /\ e.input = c.input /\ e.output = c.output /\ e.pipe = c.pipe
        /\ e.enabled = c.enabled /\ e.evw = c.evw /\ e.shut = [c.shut EXCEPT ![t] = @ \cup {"W"}]
    BY <1>1 DEF ConRecord
  <2> QED
    BY <1>5, <2>1 DEF Spliced
<1>6. Spliced(c, t, g)
  <2> HIDE DEF h
  <2>1. /\ g \in ConRecord /\ g.alive = c.alive /\ g.afterDrop = c.afterDrop /\ g.state = c.state
        /\ g.input = c.input /\ g.output = c.output /\ g.pipe = c.pipe
        /\ g.enabled = c.enabled /\ g.evw = c.evw /\ g.shut = c.shut
    BY <1>1, <1>2 DEF ConRecord
  <2> QED
    BY <2>1 DEF Spliced
<1> HIDE DEF eof, d, e, g
<1> QED
  BY <1>3, <1>4, <1>5, <1>6

\* redsplice_write_cb() keeps the streams, however much the socket takes.
LEMMA SpliceWriteSound ==
  ASSUME Sound(con, net, use_splice, pumped, early), early \in BOOLEAN,
         NEW t \in Side, SpliceWrite(t)
  PROVE  /\ Sound(con', net', use_splice, pumped', early') \/ Closed(con', net', early')
         /\ pumped' = pumped /\ early' = early
<1> DEFINE s == Other(t)
           p == Pending(con, t)
<1>1. /\ con \in ConRecord /\ net \in NetRecord /\ con.alive /\ ~con.afterDrop
      /\ Shuts(con, net) /\ Reads(con) /\ Streams(con, net) /\ Shaking(con, net)
      /\ OnePump(con, use_splice) /\ Buffered(con, use_splice, pumped) /\ Drained(con, early)
      /\ pumped => con.state = "pump_active"
  BY Zenon DEF Sound
<1>2. s \in Side /\ s # t /\ Other(s) = t /\ Other(t) = s /\ \A v \in Side : v = s \/ v = t
  BY DEF Side, Other
<1>3. /\ con.output[t] \in Items /\ con.input[s] \in Items /\ con.pipe[s] \in Items
      /\ net.snd[t] \in Items /\ net.rcv[s] \in Items
      /\ con.output \in [Side -> Items] /\ con.input \in [Side -> Items] /\ con.pipe \in [Side -> Items]
      /\ net.snd \in [Side -> Items] /\ con.shut \in [Side -> SUBSET {"R", "W"}]
  BY <1>1, <1>2, Types
<1>4. PICK n \in 0 .. Len(p) :
        /\ con.wr[t] \/ con.act[t]
        /\ con' = Decide([Written(con, t, n) EXCEPT !.act[t] = FALSE], t)
        /\ net' = [net EXCEPT !.snd[t] = @ \bullet SubSeq(p, 1, n),
                              !.wfin[t] = @ \/ "W" \in con'.shut[t]]
        /\ pumped' = pumped /\ early' = early
  BY Zenon DEF SpliceWrite, \bullet
<1>5. con.state = "pump_active" /\ use_splice
  BY <1>1, <1>4 DEF OnePump
<1>6. PICK b \in Items, i \in Items, e \in Items :
        /\ Written(con, t, n) = [con EXCEPT !.output[t] = b, !.input[s] = i, !.pipe[s] = e]
        /\ p = SubSeq(p, 1, n) \bullet (b \bullet i \bullet e)
  BY <1>1, <1>4, WrittenIs
<1> DEFINE x == SubSeq(p, 1, n)
           c == [Written(con, t, n) EXCEPT !.act[t] = FALSE]
<1>7. p \in Items /\ x \in Items /\ p = con.output[t] \bullet con.input[s] \bullet con.pipe[s]
  <2>1. p = con.output[t] \bullet con.input[s] \bullet con.pipe[s]
    BY Zenon DEF Pending, \bullet
  <2>2. con.output[t] \bullet con.input[s] \in Items
    BY <1>3, Cat
  <2>3. con.output[t] \bullet con.input[s] \bullet con.pipe[s] \in Items
    BY <1>3, <2>2, Cat
  <2> QED
    BY <1>4, <2>1, <2>3, SplitAt
<1> HIDE DEF p, x
<1>8. /\ c \in ConRecord /\ c.alive = con.alive /\ c.afterDrop = con.afterDrop /\ c.state = con.state
      /\ c.enabled = con.enabled /\ c.evw = con.evw /\ c.shut = con.shut
      /\ c.output = [con.output EXCEPT ![t] = b] /\ c.input = [con.input EXCEPT ![s] = i]
      /\ c.pipe = [con.pipe EXCEPT ![s] = e]
  <2> DEFINE w == Written(con, t, n)
  <2>1. w = [con EXCEPT !.output[t] = b, !.input[s] = i, !.pipe[s] = e]
    BY <1>6
  <2> HIDE DEF w, s
  <2>2. /\ w \in ConRecord /\ w.alive = con.alive /\ w.afterDrop = con.afterDrop /\ w.state = con.state
        /\ w.enabled = con.enabled /\ w.evw = con.evw /\ w.shut = con.shut
        /\ w.output = [con.output EXCEPT ![t] = b] /\ w.input = [con.input EXCEPT ![s] = i]
        /\ w.pipe = [con.pipe EXCEPT ![s] = e]
    BY <1>1, <1>2, <2>1 DEF ConRecord
  <2>3. c = [w EXCEPT !.act[t] = FALSE]
    BY DEF w
  <2> HIDE DEF c
  <2> QED
    BY <2>2, <2>3 DEF ConRecord
<1> HIDE DEF c
<1>9. PICK d : Spliced(c, t, d) /\ (con' = d \/ con' = Dropped(d))
  <2>1. con' = Decide(c, t)
    BY <1>4 DEF c
  <2> QED
    BY <1>8, <2>1, DecideIs
<1>10. Pending(c, t) = b \bullet i \bullet e
  <2>1. c.output[t] = b /\ c.input[s] = i /\ c.pipe[s] = e
    BY <1>2, <1>3, <1>8
  <2>2. Pending(c, t) = c.output[t] \bullet c.input[s] \bullet c.pipe[s]
    BY Zenon DEF Pending, \bullet
  <2> QED
    BY <2>1, <2>2
<1>11. b \bullet i \bullet e = <<>> => b = <<>> /\ i = <<>> /\ e = <<>>
  <2>1. b \bullet i \in Items
    BY Cat
  <2> QED
    BY <2>1, CatLength
<1>12. /\ d \in ConRecord /\ d.alive /\ ~d.afterDrop /\ d.state = con.state
       /\ d.enabled = con.enabled /\ d.evw = con.evw
       /\ d.output[t] = b /\ d.input[s] = i /\ d.pipe[s] = e
       /\ d.output[s] = con.output[s] /\ d.input[t] = con.input[t] /\ d.pipe[t] = con.pipe[t]
  <2>1. /\ d \in ConRecord /\ d.alive /\ ~d.afterDrop /\ d.state = con.state
        /\ d.enabled = con.enabled /\ d.evw = con.evw
        /\ d.input = c.input /\ d.output = c.output /\ d.pipe = c.pipe
    BY <1>1, <1>8, <1>9 DEF Spliced
  <2> HIDE DEF s
  <2>2. /\ d.output[t] = b /\ d.input[s] = i /\ d.pipe[s] = e
        /\ d.output[s] = con.output[s] /\ d.input[t] = con.input[t] /\ d.pipe[t] = con.pipe[t]
    BY <1>2, <1>3, <1>8, <2>1
  <2> QED
    BY <2>1, <2>2
<1>13. /\ d.shut[s] = con.shut[s]
       /\ \/ d.shut[t] = con.shut[t]
          \/ /\ d.shut[t] = con.shut[t] \cup {"W"} /\ "R" \in con.shut[s]
             /\ b = <<>> /\ i = <<>> /\ e = <<>>
  <2>1. \/ d.shut = con.shut
        \/ /\ d.shut = [con.shut EXCEPT ![t] = @ \cup {"W"}]
           /\ b \bullet i \bullet e = <<>> /\ "R" \in con.shut[s]
    BY <1>2, <1>8, <1>9, <1>10 DEF Spliced
  <2> HIDE DEF s
  <2> QED
    BY <1>2, <1>3, <1>11, <2>1
<1>14. con'.shut = d.shut
  BY <1>9, <1>12, DroppedFields
<1>15. /\ net' \in NetRecord /\ net'.snd = [net.snd EXCEPT ![t] = @ \bullet x]
       /\ net'.rcv = net.rcv /\ net'.fin = net.fin /\ net'.sent = net.sent
       /\ \A v \in Side : net'.wfin[v] => net.wfin[v] \/ "W" \in d.shut[v]
  <2> DEFINE g == net.wfin[t] \/ "W" \in con'.shut[t]
             z == net.snd[t] \bullet x
  <2>1. g \in BOOLEAN
    BY Zenon
  <2>2. z \in Items
    BY <1>3, <1>7, Cat
  <2>3. net' = [net EXCEPT !.snd[t] = z, !.wfin[t] = g]
    BY <1>1, <1>4 DEF NetRecord, x
  <2>4. g <=> (net.wfin[t] \/ "W" \in d.shut[t])
    BY <1>14
  <2> HIDE DEF g, z
  <2>5. /\ net' \in NetRecord /\ net'.snd = [net.snd EXCEPT ![t] = z]
        /\ net'.rcv = net.rcv /\ net'.fin = net.fin /\ net'.sent = net.sent
        /\ (net'.wfin[t] <=> g) /\ \A v \in Side : v # t => net'.wfin[v] = net.wfin[v]
    BY <1>1, <2>1, <2>2, <2>3 DEF NetRecord
  <2> QED
    BY <2>4, <2>5 DEF z
<1> HIDE DEF s
<1>16. Line(d, net', s) = Line(con, net, s)
  <2> DEFINE a == net.snd[t]
             o == con.output[t]
             k == con.input[s]
             l == con.pipe[s]
             r == net.rcv[s]
  <2>1. a \in Items /\ o \in Items /\ k \in Items /\ l \in Items /\ r \in Items
    BY <1>3
  <2>2. net'.snd[t] = a \bullet x /\ net'.rcv[s] = r
    BY <1>3, <1>15
  <2>3. Line(d, net', s) = (a \bullet x) \bullet b \bullet i \bullet e \bullet r
    BY <1>2, <1>12, <2>2 DEF Line
  <2>4. Line(con, net, s) = a \bullet o \bullet k \bullet l \bullet r
    BY <1>2 DEF Line
  <2>5. o \bullet k \bullet l = x \bullet (b \bullet i \bullet e)
    BY <1>6, <1>7 DEF x
  <2> HIDE DEF a, o, k, l, r
  <2>6. (a \bullet x) \bullet b \bullet i \bullet e = a \bullet o \bullet k \bullet l
    <3>1. a \bullet x \in Items /\ b \bullet i \bullet e \in Items
      BY <1>7, <2>1, Cat
    <3>2. (a \bullet x) \bullet b \bullet i \bullet e = (a \bullet x) \bullet (b \bullet i \bullet e)
      BY <3>1, Shift
    <3>3. (a \bullet x) \bullet (b \bullet i \bullet e) = a \bullet (x \bullet (b \bullet i \bullet e))
      BY <1>7, <2>1, <3>1, Assoc
    <3>4. a \bullet o \bullet k \bullet l = a \bullet (o \bullet k \bullet l)
      BY <2>1, Shift
    <3> QED
      BY <2>5, <3>2, <3>3, <3>4
  <2> QED
    BY <2>3, <2>4, <2>6
<1>17. Shuts(d, net')
  <2>1. net'.fin = net.fin /\ net'.rcv = net.rcv /\ Shuts(con, net)
    BY <1>1, <1>15
  <2>2. \/ d.shut[t] = con.shut[t]
        \/ d.shut[t] = con.shut[t] \cup {"W"} /\ "R" \in con.shut[Other(t)]
    BY <1>2, <1>13
  <2>3. d.shut[Other(t)] = con.shut[Other(t)]
    BY <1>2, <1>13
  <2>4. \A v \in Side : net'.wfin[v] => net.wfin[v] \/ "W" \in d.shut[v]
    BY <1>15
  <2> QED
    BY <2>1, <2>2, <2>3, <2>4, ShutsAfter
<1>18. Reads(d)
  BY <1>1, <1>2, <1>5, <1>12, <1>13 DEF Reads
<1>19. Streams(d, net')
  <2>1. net'.snd[s] = net.snd[s]
    BY <1>2, <1>3, <1>15
  <2>2. Line(d, net', t) = Line(con, net, t)
    BY <1>2, <1>12, <1>15, <2>1 DEF Line
  <2> QED
    <3>1. \A v \in Side : Line(d, net', v) = Line(con, net, v)
      BY <1>2, <1>16, <2>2, Zenon
    <3>2. net'.sent = net.sent /\ d.state = con.state
      BY <1>12, <1>15
    <3> QED
      BY <1>1, <3>1, <3>2, SameStreams
<1>20. Shaking(d, net') /\ Buffered(d, use_splice, pumped)
  BY <1>5, <1>12 DEF Shaking, Buffered
<1>21. OnePump(d, use_splice)
  BY <1>1, <1>5, <1>12 DEF OnePump
<1>22. Drained(d, early)
  <2> SUFFICES ASSUME NEW v \in Side, "W" \in d.shut[Other(v)], ~(early /\ v = "client")
               PROVE  d.output[Other(v)] = <<>> /\ d.input[v] = <<>> /\ d.pipe[v] = <<>>
    BY DEF Drained
  <2>1. CASE v = t
    BY <1>1, <1>2, <1>12, <1>13, <2>1 DEF Drained
  <2>2. CASE v = s /\ "W" \in con.shut[t]
    <3>1. con.output[t] = <<>> /\ con.input[s] = <<>> /\ con.pipe[s] = <<>>
      BY <1>1, <1>2, <2>2 DEF Drained
    <3>2. p = <<>>
      BY <1>7, <3>1, Cat
    <3>3. b \bullet i \bullet e \in Items
      BY Cat
    <3>4. b \bullet i \bullet e = <<>>
      BY <1>6, <1>7, <3>2, <3>3, CatLength DEF x
    <3> QED
      BY <1>2, <1>11, <1>12, <2>2, <3>4
  <2>3. CASE v = s /\ "W" \notin con.shut[t]
    BY <1>2, <1>12, <1>13, <2>3
  <2> QED
    BY <1>2, <2>1, <2>2, <2>3
<1>23. Sound(d, net', use_splice, pumped', early')
  BY <1>1, <1>4, <1>12, <1>15, <1>17, <1>18, <1>19, <1>20, <1>21, <1>22 DEF Sound
<1> QED
  BY <1>4, <1>9, <1>23, SettledSound

-----------------------------------------------------------------------------
(* The peers.                                                              *)

\* A peer that has not sent its end sends one more item.
LEMMA SendSound ==
  ASSUME Sound(con, net, use_splice, pumped, early), NEW s \in Side, ~net.fin[s], NEW m \in Item,
         con' = con, pumped' = pumped, early' = early
  PROVE  net' = [net EXCEPT !.rcv[s] = Append(@, m), !.sent[s] = Append(@, m)]
           => Sound(con', net', use_splice, pumped', early')
<1>0. SUFFICES ASSUME net' = [net EXCEPT !.rcv[s] = Append(@, m), !.sent[s] = Append(@, m)]
               PROVE  Sound(con', net', use_splice, pumped', early')
  OBVIOUS
<1> DEFINE x == <<m>>
           r == net.rcv[s] \bullet x
           q == net.sent[s] \bullet x
<1>1. /\ con \in ConRecord /\ net \in NetRecord
      /\ Shuts(con, net) /\ Streams(con, net) /\ Shaking(con, net)
  BY Zenon DEF Sound
<1>2. /\ Other(s) \in Side /\ Other(s) # s /\ \A t \in Side : t = s \/ t = Other(s)
      /\ "client" \in Side /\ "relay" \in Side
  BY <1>1, Types
<1>3. /\ con.output[Other(s)] \in Items /\ con.input[s] \in Items /\ con.pipe[s] \in Items
      /\ net.snd[Other(s)] \in Items /\ net.rcv[s] \in Items /\ net.sent[s] \in Items
      /\ net.rcv \in [Side -> Items] /\ net.sent \in [Side -> Items]
  BY <1>1, <1>2, Types
<1>4. x \in Items
  BY Single
<1>5. /\ Append(net.rcv[s], m) = r /\ Append(net.sent[s], m) = q
  <2>1. \A a \in Seq(Item) : Append(a, m) = a \o <<m>>
    BY AppendIsConcat
  <2> QED
    BY <1>3, <2>1, Zenon DEF Items, \bullet
<1>6. r \in Items /\ q \in Items
  BY <1>3, <1>4, Cat
<1> HIDE DEF x
<1>7. net' = [net EXCEPT !.rcv[s] = r, !.sent[s] = q]
  <2> HIDE DEF r, q
  <2> QED
    BY <1>0, <1>1, <1>5 DEF NetRecord
<1>8. /\ net' \in NetRecord /\ net'.rcv = [net.rcv EXCEPT ![s] = r] /\ net'.sent = [net.sent EXCEPT ![s] = q]
      /\ net'.fin = net.fin /\ net'.snd = net.snd /\ net'.wfin = net.wfin
  <2> HIDE DEF r, q
  <2> QED
    BY <1>1, <1>6, <1>7 DEF NetRecord
<1> HIDE DEF r, q
<1>9. /\ net'.rcv[s] = net.rcv[s] \bullet x /\ net'.sent[s] = net.sent[s] \bullet x
      /\ \A t \in Side : t # s => net'.rcv[t] = net.rcv[t] /\ net'.sent[t] = net.sent[t]
  <2>1. /\ net'.rcv[s] = r /\ net'.sent[s] = q
        /\ \A t \in Side : t # s => net'.rcv[t] = net.rcv[t] /\ net'.sent[t] = net.sent[t]
    BY <1>3, <1>8
  <2> QED
    BY <2>1 DEF r, q
<1>10. Shuts(con', net')
  BY <1>1, <1>8, <1>9 DEF Shuts
<1>11. Line(con, net, s) \in Items /\ Line(con', net', s) = Line(con, net, s) \bullet x
  <2> DEFINE a == net.snd[Other(s)]
             b == con.output[Other(s)]
             c == con.input[s]
             d == con.pipe[s]
             e == net.rcv[s]
  <2>1. a \in Items /\ b \in Items /\ c \in Items /\ d \in Items /\ e \in Items
    BY <1>3
  <2>2. /\ Line(con', net', s) = a \bullet b \bullet c \bullet d \bullet (e \bullet x)
        /\ Line(con, net, s) = a \bullet b \bullet c \bullet d \bullet e
    BY <1>8, <1>9 DEF Line
  <2> HIDE DEF a, b, c, d, e
  <2>3. a \bullet b \in Items /\ a \bullet b \bullet c \in Items /\ a \bullet b \bullet c \bullet d \in Items
    BY <2>1, Cat
  <2>4. a \bullet b \bullet c \bullet d \bullet e \in Items
    BY <2>1, <2>3, Cat
  <2>5. a \bullet b \bullet c \bullet d \bullet (e \bullet x) = (a \bullet b \bullet c \bullet d \bullet e) \bullet x
    BY <1>4, <2>1, <2>3, Assoc
  <2> QED
    BY <2>2, <2>4, <2>5
<1>12. \A t \in Side : t # s => Line(con', net', t) = Line(con, net, t)
  BY <1>8, <1>9 DEF Line
<1>13. Streams(con', net')
  <2>1. Line(con', net', "client") = Requests(con.state) \bullet net'.sent["client"]
    <3>1. CASE s = "client"
      <4>1. Requests(con.state) \in Items
        BY Scripts
      <4>2. (Requests(con.state) \bullet net.sent[s]) \bullet x = Requests(con.state) \bullet (net.sent[s] \bullet x)
        BY <1>3, <1>4, <4>1, Assoc
      <4> QED
        BY <1>1, <1>9, <1>11, <3>1, <4>2 DEF Streams
    <3>2. CASE s # "client"
      BY <1>1, <1>2, <1>9, <1>12, <3>2 DEF Streams
    <3> QED
      BY <3>1, <3>2
  <2>2. \E a \in Answers(con.state) : net'.sent["relay"] = a \bullet Line(con', net', "relay")
    <3>1. PICK a \in Answers(con.state) : net.sent["relay"] = a \bullet Line(con, net, "relay")
      BY <1>1 DEF Streams
    <3>2. CASE s = "relay"
      <4>1. a \in Items
        BY <3>1, Scripts
      <4>2. (a \bullet Line(con, net, s)) \bullet x = a \bullet (Line(con, net, s) \bullet x)
        BY <1>4, <1>11, <4>1, Assoc
      <4> QED
        BY <1>9, <1>11, <3>1, <3>2, <4>2
    <3>3. CASE s # "relay"
      BY <1>2, <1>9, <1>12, <3>1, <3>3
    <3> QED
      BY <3>2, <3>3
  <2> QED
    BY <2>1, <2>2 DEF Streams
<1>14. Shaking(con', net')
  <2> SUFFICES ASSUME con.state # "pump_active" PROVE Shaking(con', net')
    BY DEF Shaking
  <2>1. con.input["client"] \bullet net'.rcv["client"] = net'.sent["client"]
    <3>0. con.input["client"] \bullet net.rcv["client"] = net.sent["client"]
      BY <1>1 DEF Shaking
    <3>1. CASE s = "client"
      <4>1. (con.input[s] \bullet net.rcv[s]) \bullet x = con.input[s] \bullet (net.rcv[s] \bullet x)
        BY <1>3, <1>4, Assoc
      <4> QED
        BY <1>9, <3>0, <3>1, <4>1
    <3>2. CASE s # "client"
      BY <1>2, <1>9, <3>0, <3>2
    <3> QED
      BY <3>1, <3>2
  <2> QED
    BY <1>1, <1>8, <2>1 DEF Shaking
<1> QED
  BY <1>8, <1>10, <1>13, <1>14 DEF Sound

\* A peer sends its end.
LEMMA FinSound ==
  ASSUME Sound(con, net, use_splice, pumped, early), NEW s \in Side,
         net' = [net EXCEPT !.fin[s] = TRUE], con' = con, pumped' = pumped, early' = early
  PROVE  Sound(con', net', use_splice, pumped', early')
<1>1. /\ con \in ConRecord /\ net \in NetRecord
      /\ Shuts(con, net) /\ Streams(con, net) /\ Shaking(con, net)
  BY Zenon DEF Sound
<1>2. /\ net' \in NetRecord /\ net'.rcv = net.rcv /\ net'.sent = net.sent
      /\ net'.snd = net.snd /\ net'.wfin = net.wfin /\ \A t \in Side : net.fin[t] => net'.fin[t]
  BY <1>1 DEF NetRecord
<1>3. Shuts(con', net') /\ Shaking(con', net')
  BY <1>1, <1>2 DEF Shuts, Shaking
<1>4. Streams(con', net')
  BY <1>1, <1>2 DEF Streams, Line
<1> QED
  BY <1>2, <1>3, <1>4 DEF Sound

\* The peers append to their own streams.
LEMMA PeerSound ==
  ASSUME Sound(con, net, use_splice, pumped, early), Peer
  PROVE  Sound(con', net', use_splice, pumped', early') /\ pumped' = pumped /\ early' = early
<1>1. "client" \in Side /\ "relay" \in Side
  BY DEF Side
<1>2. net \in NetRecord /\ net.sent["client"] \in Items /\ net.sent["relay"] \in Items
  BY <1>1 DEF Sound, NetRecord
<1>3. con' = con /\ pumped' = pumped /\ early' = early
  BY Zenon DEF Peer, ClientSends, RelaySends
<1>4. CASE ClientSends
  <2> DEFINE k == Len(net.sent["client"])
  <2>1. /\ ~net.fin["client"]
        /\ \/ /\ k < Len(Request)
              /\ net' = [net EXCEPT !.rcv["client"] = Append(@, Request[k + 1]),
                                    !.sent["client"] = Append(@, Request[k + 1])]
           \/ net' = [net EXCEPT !.fin["client"] = TRUE]
    BY <1>4, Zenon DEF ClientSends
  <2>2. k < Len(Request) => Request[k + 1] \in Item
    <3>1. k \in Nat /\ Len(Request) \in Nat
      BY <1>2, LenProperties, PumpAssumption DEF Items
    <3>2. k < Len(Request) => k + 1 \in 1 .. Len(Request)
      BY <3>1
    <3> HIDE DEF k
    <3> QED
      BY <3>2, Zenon DEF Item
  <2> HIDE DEF k
  <2> QED
    BY <1>1, <1>3, <2>1, <2>2, SendSound, FinSound
<1>5. CASE RelaySends
  <2>1. /\ ~net.fin["relay"]
        /\ \/ \E m \in Answer :
                net' = [net EXCEPT !.rcv["relay"] = Append(@, m), !.sent["relay"] = Append(@, m)]
           \/ net' = [net EXCEPT !.fin["relay"] = TRUE]
    BY <1>5, Zenon DEF RelaySends
  <2>2. Answer \subseteq FromServer \cup {Reply[i] : i \in DOMAIN Reply}
    BY DEF Answer, FromServer
  <2>3. DOMAIN Reply = 1 .. Len(Reply)
    BY LenProperties, PumpAssumption
  <2>4. FromServer \cup {Reply[i] : i \in DOMAIN Reply} \subseteq Item
    BY <2>3, Zenon DEF Item
  <2> QED
    BY <1>1, <1>3, <2>1, <2>4, <2>2, SendSound, FinSound
<1> QED
  BY <1>4, <1>5 DEF Peer

-----------------------------------------------------------------------------
(* A connection from its beginning to its end.                             *)

\* redsocks_accept_client() makes a connection that is in the handshake.
LEMMA NewSound ==
  ASSUME NEW u
  PROVE  Sound(NewConnection, NewSockets, u, FALSE, FALSE)
<1> DEFINE c == NewConnection
           n == NewSockets
<1>1. c \in ConRecord /\ n \in NetRecord
  BY NewTypes
<1>2. "client" \in Side /\ "relay" \in Side /\ \A t \in Side : Other(t) \in Side
  BY DEF Side, Other
<1>3. /\ c.alive /\ ~c.afterDrop /\ c.state = "new"
      /\ \A t \in Side : c.shut[t] = {} /\ c.pipe[t] = <<>> /\ c.input[t] = <<>> /\ c.output[t] = <<>>
      /\ \A t \in Side : ~c.rd[t] /\ ~c.wr[t] /\ ~c.act[t]
      /\ "R" \notin c.enabled["relay"]
  BY <1>2 DEF NewConnection, Both
<1>4. \A t \in Side : n.rcv[t] = <<>> /\ n.sent[t] = <<>> /\ n.snd[t] = <<>> /\ ~n.wfin[t]
  BY DEF NewSockets, Both
<1> HIDE DEF c, n
<1>5. <<>> \bullet <<>> = <<>>
  BY Cat
<1>6. Requests("new") = <<>> /\ <<>> \in Answers("new")
  BY Zenon DEF Requests, Answers
<1>7. Shaking(c, n)
  BY <1>2, <1>3, <1>4, <1>5, <1>6 DEF Shaking
<1>8. Shuts(c, n)
  BY <1>2, <1>3, <1>4 DEF Shuts
<1>9. Reads(c)
  BY <1>2, <1>3 DEF Reads
<1>10. \E a \in Answers(c.state) : n.sent["relay"] = a \bullet n.rcv["relay"]
  BY <1>2, <1>3, <1>4, <1>5, <1>6
<1>11. Sound(c, n, u, FALSE, FALSE)
  BY <1>1, <1>3, <1>7, <1>8, <1>9, <1>10, ShakingSound
<1> QED
  BY <1>11 DEF c, n

\* A socket that was never used has not ended.
LEMMA PumpInitInv == RedsocksInit => PumpInv
<1> SUFFICES ASSUME RedsocksInit PROVE PumpInv
  OBVIOUS
<1>1. /\ con = Dropped(NewConnection) /\ net = NewSockets /\ use_splice \in BOOLEAN
      /\ pumped = FALSE /\ early = FALSE
  BY DEF RedsocksInit
<1>2. Sound(NewConnection, NewSockets, use_splice, FALSE, FALSE)
  BY NewSound
<1>3. Closed(con, net, early)
  <2>1. Dropped(NewConnection) = con
    BY <1>1
  <2>2. early \in BOOLEAN /\ Sound(NewConnection, net, use_splice, pumped, early)
    BY <1>1, <1>2
  <2>3. NewConnection \in ConRecord /\ net \in NetRecord /\ Shuts(NewConnection, net) /\ Ends(net, early)
    BY <2>2, SoundEnds DEF Sound
  <2> QED
    BY <2>1, <2>3, DropCloses
<1> QED
  BY <1>1, <1>3 DEF PumpInv

\* Whichever way a connection ends, what has been said of its sockets stays true.
LEMMA DropKeeps ==
  ASSUME PumpInv
  PROVE  Closed(Dropped(con), net, early)
<1>1. con \in ConRecord /\ net \in NetRecord /\ Shuts(con, net)
  BY DEF PumpInv, Sound, Closed
<1>2. Ends(net, early)
  <2>1. CASE Sound(con, net, use_splice, pumped, early)
    BY <2>1, SoundEnds DEF PumpInv
  <2>2. CASE Closed(con, net, early)
    BY <2>2 DEF Closed
  <2> QED
    BY <2>1, <2>2 DEF PumpInv
<1> QED
  BY <1>1, <1>2, DropCloses

\* No callback of the event loop loses, repeats or reorders an item.
LEMMA CallbackInv ==
  ASSUME PumpInv, Callback
  PROVE  PumpInv'
<1>1. con.alive /\ use_splice' = use_splice
  <2> DEFINE Goal == con.alive /\ use_splice' = use_splice
  <2>1. Connected => Goal
    BY Zenon DEF Connected
  <2>2. ASSUME NEW s \in Side PROVE Readable(s) => Goal
    <3>1. BufRead(s) => Goal
      BY Zenon DEF BufRead
    <3>2. BufEof(s) => Goal
      BY Zenon DEF BufEof
    <3>3. SpliceRead(s) \/ SpliceReadFull(s) \/ SpliceReadEof(s) => Goal
      BY Zenon DEF SpliceRead, SpliceReadFull, SpliceReadEof
    <3> QED
      BY <3>1, <3>2, <3>3 DEF Readable
  <2>3. ASSUME NEW s \in Side PROVE Writable(s) => Goal
    <3>1. BufWrite(s) => Goal
      BY Zenon DEF BufWrite
    <3>2. SpliceWrite(s) => Goal
      BY Zenon DEF SpliceWrite
    <3> QED
      BY <3>1, <3>2 DEF Writable
  <2> QED
    BY <2>1, <2>2, <2>3 DEF Callback
<1>2. /\ Sound(con, net, use_splice, pumped, early)
      /\ use_splice \in BOOLEAN /\ pumped \in BOOLEAN /\ early \in BOOLEAN
  BY <1>1 DEF PumpInv, Closed
<1>3. ASSUME /\ Sound(con', net', use_splice, pumped', early') \/ Closed(con', net', early')
             /\ pumped' \in BOOLEAN /\ early' \in BOOLEAN
      PROVE  PumpInv'
  BY <1>1, <1>2, <1>3 DEF PumpInv
<1>4. CASE Connected
  <2>1. pumped' = pumped /\ early' = early
    BY <1>4 DEF Connected
  <2> QED
    BY <1>2, <1>3, <1>4, <2>1, ConnectedSound
<1>5. ASSUME NEW s \in Side, BufRead(s) PROVE PumpInv'
  <2>1. pumped' = pumped /\ early' = early
    BY <1>5, Zenon DEF BufRead
  <2>2. CASE con.state = "pump_active"
    BY <1>2, <1>3, <1>5, <2>1, <2>2, BufReadSound
  <2>3. CASE con.state # "pump_active" /\ s = "client"
    BY <1>2, <1>3, <1>5, <2>1, <2>3, ClientReadSound
  <2>4. CASE con.state # "pump_active" /\ s = "relay"
    BY <1>2, <1>3, <1>5, <2>1, <2>4, RelayAnswers
  <2> QED
    BY <2>2, <2>3, <2>4 DEF Side
<1>6. ASSUME NEW s \in Side, BufEof(s) PROVE PumpInv'
  <2>1. pumped' = pumped
    BY <1>6, Zenon DEF BufEof
  <2> QED
    BY <1>2, <1>3, <1>6, <2>1, BufEofSound
<1>7. ASSUME NEW s \in Side, SpliceRead(s) \/ SpliceReadFull(s) \/ SpliceReadEof(s) PROVE PumpInv'
  BY <1>2, <1>3, <1>7, SpliceReadSound
<1>8. ASSUME NEW s \in Side, BufWrite(s) PROVE PumpInv'
  BY <1>2, <1>3, <1>8, BufWriteSound
<1>9. ASSUME NEW s \in Side, SpliceWrite(s) PROVE PumpInv'
  BY <1>2, <1>3, <1>9, SpliceWriteSound
<1> QED
  BY <1>4, <1>5, <1>6, <1>7, <1>8, <1>9 DEF Callback, Readable, Writable

\* One step of redsocks: the listener, a callback, a failure or a peer.
LEMMA PumpStep ==
  ASSUME PumpInv, [RedsocksNext]_redsocksVars
  PROVE  PumpInv'
<1>1. CASE AcceptSide
  <2>1. /\ use_splice' = use_splice
        /\ \/ con' = NewConnection /\ net' = NewSockets /\ pumped' = FALSE /\ early' = FALSE
           \/ /\ con' = con \/ con' = Dropped(con)
              /\ net' = net /\ pumped' = pumped /\ early' = early
    BY <1>1, Zenon DEF AcceptSide
  <2>2. CASE con' = NewConnection /\ net' = NewSockets /\ pumped' = FALSE /\ early' = FALSE
    <3>1. Sound(con', net', use_splice', pumped', early')
      BY <2>2, NewSound
    <3> QED
      BY <2>1, <2>2, <3>1 DEF PumpInv
  <2>3. CASE /\ con' = con \/ con' = Dropped(con)
             /\ net' = net /\ pumped' = pumped /\ early' = early
    BY <2>1, <2>3, DropKeeps DEF PumpInv
  <2> QED
    BY <2>1, <2>2, <2>3
<1>2. CASE PumpSide(Callback)
  BY <1>2, CallbackInv DEF PumpSide
<1>3. CASE PumpSide(Fail)
  BY <1>3, DropKeeps DEF PumpSide, Fail, PumpInv
<1>4. CASE PeerSide
  <2>1. con.alive /\ use_splice' = use_splice /\ Peer
    BY <1>4, Zenon DEF PeerSide, Peer, ClientSends, RelaySends
  <2>2. Sound(con, net, use_splice, pumped, early)
    BY <2>1 DEF PumpInv, Closed
  <2>3. Sound(con', net', use_splice, pumped', early') /\ pumped' = pumped /\ early' = early
    BY <2>1, <2>2, PeerSound
  <2> QED
    BY <2>1, <2>3 DEF PumpInv
<1>5. CASE UNCHANGED redsocksVars
  BY <1>5 DEF redsocksVars, pumpVars, PumpInv
<1> QED
  BY <1>1, <1>2, <1>3, <1>4, <1>5 DEF RedsocksNext

\* Both pumps keep the streams of every connection, for every request and reply, every
\* limit of the buffers, every size of the pipes and every order of the callbacks.
THEOREM RedsocksStreamIntact == RedsocksSpec => []StreamIntact
<1>1. PumpInv => StreamIntact
  <2> SUFFICES ASSUME PumpInv, con.alive
               PROVE  /\ Way("client") = Requests(con.state) \o net.sent["client"]
                      /\ \E a \in Answers(con.state) : net.sent["relay"] = a \o Way("relay")
    BY DEF StreamIntact
  <2>1. Streams(con, net)
    BY DEF PumpInv, Closed, Sound
  <2>2. \A s : Way(s) = Line(con, net, s)
    BY Zenon DEF Way, Line, \bullet
  <2> QED
    BY <2>1, <2>2, Zenon DEF Streams, \bullet
<1> QED
  BY <1>1, PumpInitInv, PumpStep, PTL DEF RedsocksSpec

\* The end of a stream is passed on after its last byte, except for the one case of the
\* pump of buffers that early marks.
THEOREM RedsocksEofAfterData == RedsocksSpec => []EofAfterData
<1>1. PumpInv => EofAfterData
  <2> SUFFICES ASSUME PumpInv PROVE EofAfterData
    OBVIOUS
  <2>1. Ends(net, early)
    <3>1. CASE Sound(con, net, use_splice, pumped, early)
      BY <3>1, SoundEnds DEF PumpInv
    <3>2. CASE Closed(con, net, early)
      BY <3>2 DEF Closed
    <3> QED
      BY <3>1, <3>2 DEF PumpInv
  <2> QED
    BY <2>1, Zenon DEF Ends, EofAfterData, \bullet
<1> QED
  BY <1>1, PumpInitInv, PumpStep, PTL DEF RedsocksSpec

\* redsocks_event_error() never goes on with a client that redsocks_shutdown() freed.
THEOREM RedsocksNotUsedAfterDrop == RedsocksSpec => []NotUsedAfterDrop
<1>1. PumpInv => NotUsedAfterDrop
  <2> SUFFICES ASSUME PumpInv PROVE NotUsedAfterDrop
    OBVIOUS
  <2>1. ~con.afterDrop /\ Shuts(con, net)
    BY DEF PumpInv, Sound, Closed
  <2> QED
    BY <2>1 DEF Shuts, NotUsedAfterDrop
<1> QED
  BY <1>1, PumpInitInv, PumpStep, PTL DEF RedsocksSpec
=============================================================================
