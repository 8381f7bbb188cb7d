------------------------- MODULE LocalSocketListener -------------------------
(***************************************************************************)
(* LocalSocketListener.kt and ConcurrentLocalSocketListener.kt: a thread   *)
(* that accepts connections of the native processes on a Unix socket, and  *)
(* the shutdown that stopRunner() calls from the main thread and waits     *)
(* for.                                                                    *)
(*                                                                         *)
(* The traffic monitors serve a connection on the thread itself; the       *)
(* protect worker and the local DNS worker are Concurrent and launch a     *)
(* coroutine on Dispatchers.IO for each.  Serving starts with a blocking   *)
(* read, which no cancellation interrupts: it ends when the peer has       *)
(* written or closed its end.                                              *)
(***************************************************************************)
CONSTANT Conn  \* the connections the native processes make

VARIABLES
  concurrent, \* is it a ConcurrentLocalSocketListener?  That does not change.
  thread,     \* where run() is
  socket,     \* localSocket, which serverSocket shares its descriptor with
  running,    \* the volatile flag
  conn,       \* the service's end of a connection
  handler,    \* what serves it: the coroutine, or the thread itself
  peerDone,   \* connections whose peer has written or closed
  cancelled,  \* the listener's scope was cancelled
  shutdown,   \* where shutdown() is
  received,   \* its closeChannel.receive() has returned
  joined      \* its job.join() has returned

threadVars   == <<thread, socket>>
connVars     == <<conn, handler, peerDone>>
shutdownVars == <<shutdown, received, joined>>
vars == <<concurrent, thread, socket, running, conn, handler, peerDone, cancelled,
          shutdown, received, joined>>

Init ==
  /\ concurrent \in BOOLEAN
  /\ thread = "loop"
  /\ socket = "listening"
  /\ running = TRUE
  /\ conn = [c \in Conn |-> "none"]
  /\ handler = [c \in Conn |-> "none"]
  /\ peerDone = {}
  /\ cancelled = FALSE
  /\ shutdown = "none"
  /\ received = FALSE
  /\ joined = FALSE

-----------------------------------------------------------------------------
(* The native processes.                                                   *)

Connect(c) ==
  /\ socket = "listening" /\ conn[c] = "none"
  /\ conn' = [conn EXCEPT ![c] = "queued"]
  /\ UNCHANGED <<concurrent, threadVars, running, handler, peerDone, cancelled, shutdownVars>>

\* The peer sends its request, or closes its end, or is killed.
PeerDone(c) ==
  /\ conn[c] # "none" /\ c \notin peerDone
  /\ peerDone' = peerDone \cup {c}
  /\ UNCHANGED <<concurrent, threadVars, running, conn, handler, cancelled, shutdownVars>>

-----------------------------------------------------------------------------
(* The thread.                                                             *)

\* while (running), and what follows the loop: localSocket is closed and Unit is
\* sent to closeChannel, which has room for it.
TestRunning ==
  /\ thread = "loop"
  /\ IF running
     THEN thread' = "accept" /\ UNCHANGED socket
     ELSE thread' = "exited" /\ socket' = "closed"
  /\ UNCHANGED <<concurrent, running, connVars, cancelled, shutdownVars>>

\* accept() returns a queued connection, even one queued before Os.shutdown().
Accept(c) ==
  /\ thread = "accept" /\ conn[c] = "queued"
  /\ conn' = [conn EXCEPT ![c] = "open"]
  /\ handler' = [handler EXCEPT ![c] = IF concurrent THEN "accepted" ELSE "serving"]
  /\ thread' = IF concurrent THEN "launch" ELSE "serve"
  /\ UNCHANGED <<concurrent, socket, running, peerDone, cancelled, shutdownVars>>

\* accept() throws because the socket was shut down.
AcceptFails ==
  /\ thread = "accept" /\ socket = "shut"
  /\ thread' = "loop"
  /\ UNCHANGED <<concurrent, socket, running, connVars, cancelled, shutdownVars>>

\* It may also throw any other IOException, which is logged.
AcceptError ==
  /\ thread = "accept" /\ socket = "listening"
  /\ thread' = "loop"
  /\ UNCHANGED <<concurrent, socket, running, connVars, cancelled, shutdownVars>>

\* launch { super.accept(socket) }: in a cancelled scope it has no effect.
Launch(c) ==
  /\ thread = "launch" /\ handler[c] = "accepted"
  /\ handler' = [handler EXCEPT ![c] = IF cancelled THEN "dropped" ELSE "launched"]
  /\ thread' = "loop"
  /\ UNCHANGED <<concurrent, socket, running, conn, peerDone, cancelled, shutdownVars>>

\* socket.use { acceptInternal(socket) } on the thread itself.
Serve(c) ==
  /\ thread = "serve" /\ handler[c] = "serving" /\ c \in peerDone
  /\ conn' = [conn EXCEPT ![c] = "closed"]
  /\ handler' = [handler EXCEPT ![c] = "done"]
  /\ thread' = "loop"
  /\ UNCHANGED <<concurrent, socket, running, peerDone, cancelled, shutdownVars>>

-----------------------------------------------------------------------------
(* A coroutine of the concurrent listener.                                 *)

\* Dispatched; if the scope was cancelled before, its body never runs.
Begin(c) ==
  /\ handler[c] = "launched"
  /\ handler' = [handler EXCEPT ![c] = IF cancelled THEN "dropped" ELSE "serving"]
  /\ UNCHANGED <<concurrent, threadVars, running, conn, peerDone, cancelled, shutdownVars>>

\* The read has returned; answered or cancelled meanwhile, use {} closes.
End(c) ==
  /\ concurrent /\ handler[c] = "serving" /\ c \in peerDone
  /\ conn' = [conn EXCEPT ![c] = "closed"]
  /\ handler' = [handler EXCEPT ![c] = "done"]
  /\ UNCHANGED <<concurrent, threadVars, running, peerDone, cancelled, shutdownVars>>

-----------------------------------------------------------------------------
(* shutdown(), on the main thread.                                         *)

ClearRunning ==
  /\ shutdown = "none"
  /\ running' = FALSE
  /\ shutdown' = IF concurrent THEN "cancel" ELSE "socket"
  /\ UNCHANGED <<concurrent, threadVars, connVars, cancelled, received, joined>>

Cancel ==
  /\ shutdown = "cancel"
  /\ cancelled' = TRUE
  /\ shutdown' = "socket"
  /\ UNCHANGED <<concurrent, threadVars, running, connVars, received, joined>>

\* Mutant: the thread is left blocked in accept().
LeaveSocket ==
  /\ shutdown = "socket"
  /\ shutdown' = "wait"
  /\ UNCHANGED <<concurrent, threadVars, running, connVars, cancelled, received, joined>>

\* Os.shutdown(), unless the thread has closed the socket already.
ShutSocket ==
  /\ shutdown = "socket"
  /\ socket' = IF socket = "closed" THEN socket ELSE "shut"
  /\ shutdown' = "wait"
  /\ UNCHANGED <<concurrent, thread, running, connVars, cancelled, received, joined>>

\* closeChannel.receive() in the caller's scope.
Receive ==
  /\ shutdown = "wait" /\ thread = "exited" /\ ~received
  /\ received' = TRUE
  /\ UNCHANGED <<concurrent, threadVars, running, connVars, cancelled, shutdown, joined>>

\* Mutant: a cancelled coroutine is taken for a completed one.
JoinCancelled ==
  /\ concurrent /\ shutdown = "wait" /\ ~joined
  /\ \A c \in Conn : handler[c] # "launched"
  /\ joined' = TRUE
  /\ UNCHANGED <<concurrent, threadVars, running, connVars, cancelled, shutdown, received>>

\* job.join() in the caller's scope: no coroutine of the listener is left.
Join ==
  /\ concurrent /\ shutdown = "wait" /\ ~joined
  /\ \A c \in Conn : handler[c] \notin {"launched", "serving"}
  /\ joined' = TRUE
  /\ UNCHANGED <<concurrent, threadVars, running, connVars, cancelled, shutdown, received>>

\* What the caller's coroutineScope waits for.
ShutdownOver == received /\ (concurrent => joined)

-----------------------------------------------------------------------------
ThreadStep == TestRunning \/ AcceptFails \/ \E c \in Conn : Accept(c) \/ Launch(c) \/ Serve(c)

ShutdownStep == Cancel \/ ShutSocket \/ Receive \/ Join

Next ==
  \/ ThreadStep \/ AcceptError
  \/ ClearRunning
  \/ ShutdownStep
  \/ \E c \in Conn : Connect(c) \/ PeerDone(c) \/ Begin(c) \/ End(c)

Spec == Init /\ [][Next]_vars

(* Both threads keep running, coroutines get a thread of Dispatchers.IO,   *)
(* and a peer does not hold a connection in silence for ever (ss-local is  *)
(* killed by the same stopRunner()).  Nobody has to connect or shut down.  *)
Fairness ==
  /\ WF_vars(ThreadStep)
  /\ WF_vars(ShutdownStep)
  /\ \A c \in Conn : WF_vars(PeerDone(c)) /\ WF_vars(Begin(c)) /\ WF_vars(End(c))

FairSpec == Spec /\ Fairness

-----------------------------------------------------------------------------
(* Properties.                                                             *)

TypeOK ==
  /\ concurrent \in BOOLEAN
  /\ thread \in {"loop", "accept", "launch", "serve", "exited"}
  /\ socket \in {"listening", "shut", "closed"}
  /\ running \in BOOLEAN
  /\ conn \in [Conn -> {"none", "queued", "open", "closed"}]
  /\ handler \in [Conn -> {"none", "accepted", "launched", "serving", "done", "dropped"}]
  /\ peerDone \subseteq Conn
  /\ cancelled \in BOOLEAN
  /\ shutdown \in {"none", "cancel", "socket", "wait"}
  /\ received \in BOOLEAN
  /\ joined \in BOOLEAN

(* When the caller gets past the scope it gave to shutdown(), the listener *)
(* is gone: its thread has left the loop, its socket is closed (so that    *)
(* the next session can bind the same path) and nothing of it still uses   *)
(* the service (lines 69-81 and, for the concurrent one, lines 36-41).     *)
ShutdownMeansQuiet ==
  ShutdownOver =>
    /\ thread = "exited" /\ socket = "closed"
    /\ \A c \in Conn : handler[c] \notin {"accepted", "launched", "serving"}

(* shutdown() comes to its end although the thread may be blocked in       *)
(* accept() when it is called, or about to be (lines 69-81).               *)
ShutdownCompletes == shutdown # "none" ~> ShutdownOver

(* What was accepted is closed, whatever the listener is told to do        *)
(* meanwhile (lines 52-54).                                                *)
(* "Inherited class do not need to close input/output streams as they will *)
(* be closed automatically." (lines 49-51)                                 *)
AcceptedIsClosed == \A c \in Conn : conn[c] = "open" ~> conn[c] = "closed"
=============================================================================
