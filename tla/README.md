# A TLA+ model of Cypher Connect

Cypher Connect is an Android VPN client.  Its app (`app/`, `design/`) keeps a
list of Shadowsocks servers and drives a service (`core/`, Kotlin) that runs
native processes (`core/src/main/jni`, `core/src/main/rust`, `obfs_local/`):
`ss-local`, `tun2socks`, `redsocks` and a plugin.  The app and the service are
two processes that talk over binder.  Nearly everything that is hard to test
here is concurrency: coroutines on the service's main thread, helper threads,
native processes that die, binder calls, callbacks of the system, and event
loops whose callbacks call each other.

This directory holds specifications of those parts, the TLC configurations that
check them on small instances, and TLAPS proofs of the properties that matter
most for every value of the constants.

File names below are relative to
`src/core/src/main/java/com/github/shadowsocks/` unless they start with `app/`
or another top-level directory.

## The parts of the system

| Part | Code | Module |
|---|---|---|
| Service life cycle | `bg/BaseService.kt` (`Data`, `Interface`), `bg/VpnService.kt`, `bg/ProxyService.kt`, `bg/TransproxyService.kt`, `bg/ProxyInstance.kt` | `BaseService`, abstractly `ServiceLifecycle` |
| Guarded process pool | `bg/GuardedProcessPool.kt` | `GuardedProcessPool` |
| Local socket listeners | `net/LocalSocketListener.kt`, `net/ConcurrentLocalSocketListener.kt`, `bg/LocalDnsWorker.kt`, `VpnService.ProtectWorker`, the thread of `bg/TrafficMonitor.kt` | `LocalSocketListener` |
| Default network listener | `net/DefaultNetworkListener.kt` and its use in `bg/VpnService.kt` | `DefaultNetworkListener` |
| Service binder, notification | `BaseService.Binder`, `bg/ServiceNotification.kt`, `app/.../MainActivity.kt` (its use of the connection) | `Binder` |
| Service connection | `aidl/ShadowsocksConnection.kt` | `Binder`; when the service's process dies, `ServiceConnection` |
| Traffic monitor | `bg/TrafficMonitor.kt`, `aidl/TrafficStats.kt`, the report task of `ss-local` | `TrafficMonitor` |
| Profile store and synchronisation | `database/Profile.kt`, `database/ProfileManager.kt`, `app/.../ProfileSyncService.kt` | `ProfileStore` |
| Choice of a profile | `app/.../MainActivity.kt`, `Core.kt` | `ProfileStore` (which row), `ProfileSwitch` (what the service runs with) |
| redsocks | `redsocks.c`, `socks5.c` under `jni/redsocks`, and of libevent `bufferevent_sock.c` | `RedsocksAccept`, `RedsocksPump`, together `Redsocks` |
| tun2socks | `tun2socks.c`, `BSocksClient.c`, `BConnection_unix.c` under `jni/badvpn`, and of lwIP the raw TCP interface | `Tun2socksClient` |
| obfs-local, the plugin | `local.c`, `obfs_tls.c`, `obfs_http.c` under `src/obfs_local` | `ObfsLocal` |
| ss-local | `src/core/src/main/rust` | environment |
| Preferences, direct boot, access control lists, subnets, plugin options, command lines, user interface, the other native libraries | | not modelled, see below |

How they interact: the activity starts the service and binds to it (`Binder`).
`onStartCommand` launches the connecting coroutine (`BaseService`), which asks
for the network (`DefaultNetworkListener`), creates a pool of native processes
(`GuardedProcessPool`), the listeners those processes connect to
(`LocalSocketListener`) and a traffic monitor (`TrafficMonitor`).  `stopRunner`
takes all of that down again.  The modules abstract from each other at these
seams: in `BaseService` a pool or a listener is something that is alive until
its shutdown has ended, which is what `JoinedMeansGone` and `ShutdownMeansQuiet`
establish of it, and the shutdown of a pool may hang, as `pool_close_hangs` shows; in `Binder` the changes of state are those that
`ServiceLifecycle` allows, and in `ProfileSwitch` a service is its state, its
receiver and the profile it read.

A connection of an application passes `tun2socks` (with a VPN) or `redsocks`
(with the transparent proxy), then `ss-local`, then `obfs-local`.  Each is a
process of the pool with a single thread and an event loop.  They meet over
sockets, which take and return any part of what is written, so the model of each
has the neighbours as peers that send, end and read at any moment.

## The modules

An action is what the code does between two suspension points of a coroutine,
or one step of a thread, or one callback; interleavings of actions are those
that the threads and the looper of the code can produce.  Definitions keep the
names of the functions they translate.  A definition whose comment begins with
"Mutant" is a plausible mistake in the definition below it.  Replacing that
definition by its mutant makes a property fail, which shows that the property
depends on the code it is about.

What does not change in the life of a component but differs between devices or
classes (the API level `sdk`, the kind of listener, `isVpn`) is a variable that
`Init` chooses and no action changes, so that one run covers all of them.

- `GuardedProcessPool`.  For every guard: where `looper()` is suspended, its
  local `running`, the process it started last and the stdout thread that waits
  for it; for the pool: whether `close()` was called and has joined.  The three
  clean-ups of the `finally` block depend on the API level.  An exit code that
  was handed to a `receive()` is lost when that is cancelled first, as
  kotlinx.coroutines specifies ("prompt cancellation").
- `BaseService`.  Sessions are numbered.  For every session: where its
  connecting coroutine is; for the service: `data.state`, the fields that hold
  something to be shut down and the session that created it, what is really
  alive, and the coroutine of `stopRunner`.  A start may fail after each of its
  steps, a stop may come at each suspension point.  A pool whose guards may be in
  the state of finding 1 may be `hung`: it never shuts down, and `stopRunner` waits.
  When `persistStats()` throws, on the main thread, the process ends.
  `ServiceLifecycle` is what the service promises: four states, and resources of one
  session at a time, only while one is on; it may be stuck, or die.  `BaseService`
  defines the refinement mapping.
- `LocalSocketListener`.  The thread's loop, the handlers (on the thread, or in
  coroutines of `Dispatchers.IO`) and `shutdown()`, step by step.  What a handler
  does with its request is a blocking read and its end.
- `DefaultNetworkListener`.  An action handles one message of `networkActor`.  The
  system's callbacks are a queue that runs on the main thread from API 26 on, on
  a thread of its own before.  `VpnService` calls `start`, `get` and `stop`; the
  key of `stop` is what the code passes: inside `scope.launch { ... }` the word
  `this` is the coroutine's scope, not the service, so no listener is removed.
- `Binder`.  The service's binder object, activities as remote clients and the
  notification as local one.  Calls that return are seen through; oneway calls
  and callbacks stay under way, in order among themselves, and a call that
  returns may overtake them.
- `ServiceConnection`.  The fields of `ShadowsocksConnection` when the process of
  the service dies, and dies again: `onServiceConnected()` on the main thread and
  `binderDied()` on a binder thread line by line, the calls of `onBinderDied()`
  that wait for the main thread, and the oneway `unregisterCallback()`.  A binder
  is the number of the process it belongs to.  Android reports a death to the
  connection and to the recipient in either order, and the next process at any
  time after.
- `TrafficMonitor`.  The counters of `ss-local`, the monitor's thread and the main
  thread with their unsynchronised accesses to `current` and `dirty`, and
  `persistStats()` with its read and its write of the profile apart, over
  several sessions with one profile.  When the profile is gone nothing is written,
  and when the write fails its check the process ends.
- `ProfileStore`.  The table of profiles as a function from ids to addresses, and
  a thread for every `onStartCommand()` of `ProfileSyncService`: it fetches a list,
  which may name a server several times, reads the table, and then deletes, creates and updates row by row, any call
  failing its check if another thread was faster.  A failure makes it try the
  next url with what it has written left behind.  Threads of `MainActivity` hold a
  row they saw for any time before they select its id.
- `ProfileSwitch`.  Selecting a profile and telling the service to reload are two
  steps of the main thread or of the thread that waits for the quickest server.
  The service, another process, reads the selected profile in `onStartCommand()`
  before it registers its receiver, and may start, stop and restart anywhere in
  between.  What the activity believes of the service's state may be out of date.
- `RedsocksAccept`, `RedsocksPump`, `Redsocks`.  The accepting side is the list of
  clients with its counter, the listener, and the timer of the backing off; the
  operators on the record `acc` are the functions of `redsocks.c`, since dropping
  a client, or closing a pipe, inside a callback may end the backing off.  The pump is one connection
  through the SOCKS5 handshake and then either pump, the one with the buffers of
  libevent or the one with `splice()` and pipes.  `Redsocks` puts the two together
  for one traced client.
- `Tun2socksClient`.  One `tcp_client` from `listener_accept_func()` on.  Its
  functions are operators on the record `c`.  `DEAD_ENTER`, `DEAD_KILL` and
  `SYNC_COMMIT` are in the model: a callback of lwIP is entered, jobs of the SOCKS
  connection run in it, and it is left with what it returns.  `ret.abort` and
  `c.touched` record what `tcp_abort()` and a write through a stale pointer did.
- `ObfsLocal`.  One connection of the plugin with its two sockets, their watchers
  and timers, and both disguises as sequences of tokens: a frame's length is two
  digits, as it is two bytes in `obfs_tls.c`, so that a read can end between them.
  `MaxFrame` is both the longest frame that `deobfs_app_data()` takes and what the
  server sends at most: 16384 in `obfs_tls.c:234` and in `server.c:75`.

The `MC` modules give values to what a configuration cannot express.  `MCProfiles`,
`MCSockets` and `MCBinder` also put models that share no variable into one run: a
variable that never changes says which of them a behaviour is of.

## The runs

Run one with `tlc -workers 2 -config X.cfg M`.  Each finishes within three minutes.

| Run | Module, configuration | States | Shows |
|---|---|---|---|
| `pool` | `MCGuardedProcessPool`, `Pool.cfg` | 948 | no process outlives its guard (`NoOrphan`); exit codes are never stale (`ExitCodeIsCurrent`); nothing starts after `close()`; `close()` ends unless a clean-up waits for a code nobody will send; an exit is handled |
| `service` | `MCBaseService`, `Service.cfg` | 58 247 | Stopped is clean, sessions do not overlap, Connected is complete; connecting ends; a fatal error ends its session, but for a pool that hangs; the service implements `ServiceLifecycle`, its fairness included |
| `network` | `MCDefaultNetworkListener`, `Network.cfg` | 47 649 | the actor and (from API 26 on) the VPN end up with the device's network; one registration; a waiting `get()` is answered |
| `binder` | `MCBinder`, `Binder.cfg` | 261 078 | one looper exactly while somebody listens; a callback wins over `getState()`; a client that is gone is forgotten; a visible activity gets its traffic; a living activity ends up connected to the process that replaced a dead one (`Reattached`) |
| `traffic` | `MCProfiles`, `Traffic.cfg` | 1 987 136 | a profile is not charged with more than was relayed, unless a shutdown was announced; the rate goes to zero after the traffic has; a server has two rows only after two synchronisations at once or if a list names it twice; one alone ends with its list; an id never comes to name another server; a connected service runs with the selected profile or is about to be restarted, unless it was not told |
| `redsocks` | `MCRedsocks`, `Redsocks.cfg` | 374 364 | there is room whenever redsocks listens; both pumps keep the stream and pass on its end after its data; `redsocks_event_error()` does not go on with a client it freed; an active pump with both ends seen is freed |
| `sockets` | `MCSockets`, `Sockets.cfg` | 164 456 | listener: `shutdown()` ends and leaves nothing of it.  tun2socks: `ERR_ABRT` is returned exactly if the pcb was aborted, nothing is touched after its death, nothing is lost, a client is freed after an end.  obfs-local: a disguise loses nothing in whatever pieces it is read or written, a good server is refused only if the first read has no more than its hello, or less than its HTTP header; a connection to a silent server ends |
| `pool_close_hangs` | `MCGuardedProcessPool`, `PoolCloseHangs.cfg` | | finding 1 |
| `listener_drops_socket` | `MCLocalSocketListener`, `ListenerDropsSocket.cfg` | | finding 2 |
| `traffic_persisted_twice` | `TrafficMonitor`, `TrafficPersistedTwice.cfg` | | finding 3 |
| `traffic_total_falls` | `TrafficMonitor`, `TrafficTotalFalls.cfg` | | finding 4 |
| `redsocks_lost` | `RedsocksAccept`, `RedsocksLost.cfg` | | finding 5 |

### Bounds

- Pool: a guard with and one without a restart callback, and one API level for
  each of the three clean-ups.  Guards share only `cancelled` and `joined`, so
  two of them show every interaction; a guard may restart without limit.
- Service: three sessions.  What one session can leave to another passes through
  `connectingJob`, the fields and `fatal`; with three, what the first one left
  can meet a stop of the second and the start of the third.
- Listener: three connections, enough for one being served, one launched and not
  begun, and one in the queue when `shutdown()` is called.
- Network: two networks and two instances of `VpnService` (instance numbers of
  destroyed services stay in the actor's map), at most `MaxCallbacks` = 4 queued
  callbacks, so that two changes with late losses overlap.  There is no bound on
  the number of changes or sessions.
- Binder: one activity and the notification; at most `MaxCalls` = 3 calls under
  way and posted, `MaxInbox` = 2 callbacks under way.  The service waits when the
  inbox is full, where the code would not; there is no bound on the number of
  changes or calls.  Two activities are beyond TLC; `BinderProofs` covers any
  number for the invariants.
- The service's death: `MaxDeaths` = 3, so that two deaths can be reported late and
  together after the third process is up.
- Traffic: `MaxTraffic` = 3 units, one restart of `ss-local`, two reports that
  wait.  A session needs one unit to be charged, so the traffic of three sessions
  can be told apart.
- Profile store: two servers, two urls, two synchronisations at a time and one
  thread that holds a choice; `MaxId` = 2 rows are ever created, so that a server
  can be deleted and created anew, or be created twice.  A list may name one of the
  servers (`Repeated`) twice.  A run with three rows (15.8 million states) holds,
  too, but takes twelve minutes; `ProfileProofs` has no bound.
- Profile switch: two profiles, which come and go freely; one instance of the
  activity and one thread of the automatic choice at a time.
- redsocks: one client in full, another one that comes, goes and is idle, and a limit
  of two connections; three items from the client and one from the relay, with
  buffers and pipes for two, so that every buffer on the client's way is full, empty
  and half drained at some time.  Both ways are the same code, and three items each
  way (1.3 million states) take ten minutes.  With room for one, the gap that
  `EofAfterData` excepts does not occur.  `RedsocksProofs` has any limit, clients, data and
  buffers.
- tun2socks: three items in each direction and windows and buffers of two.
  `SocketProofs` has any.
- obfs-local: two items up and four down, frames of one to three items, three being
  the greatest length, and reads of one to eight tokens: every token of a header is
  a place where a read ends, and the first read may go beyond the first data into
  the frames that follow.

`CHECK_DEADLOCK FALSE` appears where the component really comes to rest: a closed
pool, a listener after `shutdown()`, a stopped service after the last session of
the bound, a destroyed binder, a destroyed activity, and a redsocks that has lost
its listener and closed its last connection.

### Fairness

Weak fairness only, of what a running main looper, thread or dispatcher is bound
to do: resume a posted continuation, fire a timer, deliver a callback, end an IO
block or a bounded retry (`sendFd()`), let a process that got SIGKILL die.  In
`LocalSocketListener` a peer writes or closes in the end, since `stopRunner()`
kills it.  In `BaseService` whatever was told to shut down does so, but for a pool
that is `hung`; for a listener that is `ShutdownCompletes`, for a pool that does
not hang it is `CloseCompletesIfWatched`.  A service with a hung pool stays in
Stopping, and `FatalEndsSession` and `ServiceLifecycle` say so.  Nothing obliges the user, the system, the network
or a process to do anything, with these exceptions, each at its specification:

- `ServiceConnection`: Android starts the service an app is bound to with
  `BIND_AUTO_CREATE`, and reports a death.
- The native programs: their loops serve an event that stays pending, and timers
  fire.  In `Redsocks` the peers read what is sent to them; in `Tun2socksClient` the
  application does, and `ss-local` completes the handshake or fails.  Nobody has to
  send or to end anything: `PumpEnds` and `ClientFreed` are about what follows when
  they did, and `ConnectionEnds` rests on the plugin's own timers: the receiving one
  starts anew with each read, and fires because the server's data is bounded.

## Findings

1. `pool_close_hangs`.  The clean-up of a guard waits in `exitChannel.receive()`
   (`bg/GuardedProcessPool.kt:105`) without a limit.  Nobody will send when the
   code was already handed to the `receive()` on line 72 that `close()` cancelled,
   or when the restarted process has no stdout thread yet because
   `onRestartCallback` (line 83) is still running or has thrown.  Then `close()`
   does not join and `stopRunner` stays in Stopping.  Line 68 says that the thread
   "also acts as a daemon thread for waitFor".
2. `listener_drops_socket`.  A connection accepted just before `shutdown()`
   cancels the scope is given to a `launch` that never runs its body
   (`net/ConcurrentLocalSocketListener.kt:33`), so its socket is not closed, while
   `net/LocalSocketListener.kt:50` says that streams "will be closed
   automatically".
3. `traffic_persisted_twice`.  `check(persisted == null || persisted == current)`
   (`bg/TrafficMonitor.kt:93`, "Data loss occurred") compares an object with
   itself.  A session that goes on after ACTION_SHUTDOWN is charged a second
   time, with other numbers.
4. `traffic_total_falls`.  `txTotal` and `rxTotal` are "Bytes for the current
   session" (`aidl/TrafficStats.kt:32`), but are those of the `ss-local` that runs
   now (`bg/TrafficMonitor.kt:48`); they fall when it is restarted.
5. `redsocks_lost`.  When the timer of the backing off fires under pressure,
   `redsocks_accept_backoff()` calls `conn_pressure()` to "rearm timeout"
   (`redsocks.c:1082`).  If that drops idle clients it returns with "pressure solved"
   (line 1032) before it adds the timer, and the drops do not add the listener
   because the timer is not pending (line 1072).  redsocks never accepts again,
   while `redsocks.conf.example:68` speaks of "a delay in milliseconds to retry
   `accept()`".  `RedsocksLostByTimerOnly` proves that nothing else loses the
   listener.

More behaviours are in the models as they are in the code, and are no findings
because the repository does not say otherwise.  Each is an exception in a
property, which fails without it:

- a start call that overtakes the oneway stop call before it, after which a visible
  activity gets no traffic (`TrafficFlows`, history variable `overtook`), and a
  `registerCallback()` that overtakes an `unregisterCallback()` (`Reattached`,
  `overtaken`);
- a switch of profile that the service is not told of, because it was made while
  the activity did not believe the service to be connected (`RunsSelected`,
  `missed`);
- two synchronisations at once (`NoNeedlessDuplicate`, `overlapped`), and a server
  that a list names twice, whose second row no later list removes (`Repeated`);
- a client's end that comes before the relay's first write
  callback, which cuts off data of the handshake (`EofAfterData`, `early`);
- a first response of an obfs server whose hello is cut, or comes without data
  (`InvalidOnlyIfShort`);
- an upload that is cut short when the server ends, too (`BothStreams`).

Without a property: the listener that `DefaultNetworkListener.stop` does not find,
a client of redsocks that is freed while it is accepted when the clock is coarse
(`dangling`), and a late `onBinderDied()` that binds a destroyed activity again.

## The proofs

`tlapm XProofs.tla` checks the theorems of module `X`; `SocketProofs` has those of
`LocalSocketListener` and of `Tun2socksClient`, `ProfileProofs` those of
`TrafficMonitor`, too, and `RedsocksProofs` rests on the lemmas of
`RedsocksPumpProofs`.  None of them bounds the
constants: they hold for any sets of guards, connections, networks, clients,
servers and profiles, any number of sessions and instances, any API level,
buffers of any size and any data.  The assumptions are those named at the head of
each module (`PoolAssumption`, `ServiceAssumption`, `NetworkAssumption`,
`BinderAssumption`, `TrafficAssumption`, `AcceptAssumption`, `PumpAssumption`,
`TracedAssumption`, `TunAssumption`, `StoreAssumption`, `SwitchAssumption`): types of
constants (the data of a connection are sequences of strings), that a limit or a
buffer is not zero, that the set of redsocks' clients is finite, and that `None`, the
notification and the address of an empty profile are not one of the others.

Every argument has one shape: an inductive invariant, which TLC confirmed on the
instances above, too (`TrafficInv` with a bounded set in place of `Nat`), a lemma that
`Init` implies it, a lemma that every step preserves it with one case for each action,
and theorems that follow from it.

- `GuardedProcessPoolProofs`: `PoolTypeOK`, `PoolNoOrphan`,
  `PoolJoinedMeansGone`, `PoolExitCodeIsCurrent`, `PoolGivesUpLoudly`,
  `PoolNoStartAfterClose`.  `GuardInv` says of each suspension point what is
  known of the process and its thread there.  `ExitCodeIsCurrent` for instance is
  not inductive alone: it needs that outside a receive there is no thread that
  could send.
- `BaseServiceProofs`: `ServiceTypeOK`, `ServiceStoppedIsClean`,
  `ServiceOneSession`, `ServiceConnectedIsComplete`, `ServiceSomeoneIsInCharge`,
  `ServiceImplementsLifecycle`.  The invariant ties a coroutine that has not
  ended to `connectingJob` (`JobInv`), the stopper to the state and to what it
  waits for (`StopperInv`), and what is alive to the field that refers to it
  (`HeldInv`).  `CompleteInv` carries what `startProcesses()` established over the
  suspension in `sendFd()`.
- `DefaultNetworkListenerProofs`: `NetworkTypeOK`, `NetworkListenersAgree`,
  `NetworkRegisteredOnce`, `NetworkVpnFollows`.  `ListenersAgree` needs that a service
  that does not listen has no network left over, which holds because no listener is
  removed.  `VpnFollows` speaks of an empty queue of callbacks; `QueueLeads` says of
  any queue that handling it will lead from the network the actor has to the one the
  device has, whatever losses of older networks are among it.
- `BinderProofs`: `BinderTypeOK`, `BinderLooperMatches`, `BinderToldIsCurrent`,
  `BinderGoneIsForgotten`.  With the second neither `check(looper == null)` nor
  `looper!!` throws.  `Informed` says that the last callback on its way to a client
  has the current state, and that without one on its way the client shows it.
  `Forgets` says of a client that is gone that its `unregisterCallback()` is under way
  while it is registered, and that, when none of its calls is under way, whatever
  makes it listen, already or by a call that is posted, is undone by a later one.
- `RedsocksProofs`, on the accepting side: `RedsocksCounts`, `RedsocksHasRoom`,
  `RedsocksNotBoth`, `RedsocksLostByTimerOnly`, which scopes finding 5.  Inside a callback the limit may be
  reached with the listener still added, so each operator is shown to lead from
  `Counted` to `Good`.  The invariants are proved of `RedsocksAccept` alone and
  carried over by `RedsocksAccepts`: whatever a pump does, it touches its client,
  closes a pipe or drops the client, which `AcceptSpec` allows at any time.
- `RedsocksPumpProofs` and `RedsocksProofs`, on a connection: `RedsocksStreamIntact`,
  `RedsocksEofAfterData`, `RedsocksNotUsedAfterDrop`.  `StreamIntact` tells where the
  bytes are, and does not say which callbacks may still come, on which their order
  and the end of a stream depend.  `Sound` adds that: what was shut down is not read
  again (`Reads`), an end passes from one socket to the other only when nothing waits
  before it (`Shuts`, `Drained`), the events of the two pumps exclude each other
  (`OnePump`), data waits in an input of the buffer pump only while there is output,
  whose write callback will move it (`Buffered`), and nothing is written to the
  client in the handshake (`Shaking`).  A dropped connection has lost its buffers, so
  that `EofAfterData` is carried on of its sockets alone (`Closed`).  There is a lemma
  for each callback of either pump, and one for each move of bytes between the five
  places they pass.
- `SocketProofs`, on the listener: `ListenerTypeOK`, `ListenerShutdown`.  The join can
  only return in a cancelled scope, in which no coroutine begins, and the thread
  has at most one connection in hand.
- `SocketProofs`, on tun2socks: `TunReturns`, `TunTouchesNothing`, `TunStreams`.
  `Sound` relates seven fields of a client: a pointer to a variable of a callback that
  has returned is left only in a client that is aborted or freed, and within a
  callback the variable tells which.  `BothStreams` follows from `Flow`: while the
  application's side is open the server's stream is complete, also after the server
  has ended (`Open`); when the application has ended what it sent is in the buffer or
  written (`AppEnded`), when the server has it is on its way to the application
  (`ServerEnded`), and the client is freed only when nothing is left.  That needs
  `pending` to be the length of lwIP's queue, and bounds on what is being sent
  (`Typed`).  There is a lemma for each function and each action.
- `ProfileProofs`: `SwitchRunsSelected`, `StoreSelectedIsMeant`,
  `StoreNoNeedlessDuplicate`, `StoreSyncedIsRemote`, `TrafficNeverOvercharged`.
  `SwitchInv` extends the
  property to a service that is starting and ties a reload under way to a receiver.
  `IdInv` says that whatever an id is remembered with, in the selection, in a choice
  or in a list of updates, is what the row has, if there is one.  `SyncInv` says how
  far a synchronisation that runs alone has come (`Progress`), and `DupInv` that
  what it is to create has no row yet, unless a list repeats it.  `TrafficInv` says that
  the profile leaves room for every copy of a counter there is, in `ss-local`, in a
  report that waits, in the monitor's thread or in `current`, however old it is.

`JoinedMeansGone`, `GivesUpLoudly`, `SomeoneIsInCharge`, `ListenersAgree`, `NotBoth`,
`ImplementsLifecycle` and the type invariants are theorems and not repeated in the
runs.

Only model-checked: everything about liveness, which is out of this prover's reach,
as are the fairness conditions of `ImplementsLifecycle`; and `DisguiseIntact` and
`InvalidOnlyIfShort` of `ObfsLocal`.  Both rest on what the parser of frames, a fold
over the tokens, returns for what the other side has framed, and that takes an
induction over the data, for which no backend can be given the hypothesis.

## What is not modelled, and why

- Most of the native code.  Of some 355 000 lines of C, the larger part are libraries
  of which the programs use little (libevent, lwIP, libev, libcork, the
  other programs of badvpn), and protocols that are not built.  The models have
  the core of the three programs and what they use of libevent and lwIP; UDP and
  the DNS gateway of tun2socks, redsocks' other protocols, the parsers of
  configurations and command lines, and lwIP below its raw interface are left out.
  So the modelled lines are a small share of all, and the part of them that is the
  app's own code is the Kotlin core.
- `ss-local` is environment: a process that starts, exits, relays, connects to the
  sockets of the service and reports.
- In `ObfsLocal` the server is a good one: a response that is not disguised is
  refused by the same checks, but no server of the model sends one.
- In `RedsocksPump` a message of SOCKS5 is read and written whole.
- Views, animation, advertisements, notifications' texts and log output have no
  state that others read.
- `Executable.killAll()` and `PluginManager` act once before anything of a session
  exists; their failure is a failure of `startProcesses()` in `BaseService`.
- In `DefaultNetworkListener` the workaround for metered networks of API 28 is
  left out, and a message sent to the actor on an API before 26 is taken to be
  handled when `send` returns.
- In `TrafficMonitor` unsynchronised accesses interleave, but each thread sees the
  other's writes in order; `tx` and `rx`, which are treated alike, are one number.
- In `Binder` a connection is made once per activity: this app never changes the
  service mode.
- In `ServiceConnection` `disconnect()` is one step, and one `binderDied()` runs at a
  time; the bandwidth listener is in `Binder`.
- Of a profile, `ProfileStore` has the id and the address.  `directBootAware` is
  never set in this app, and `createProfilesFromJson()`, `clear()` and
  `ensureNotEmpty()` are never called.
- `Subnet`, `Acl`, `PluginOptions`, `Commandline` and `KeyValuePair` are sequential
  functions on text and bytes, where a model would repeat the code.
- Configuration files and the contents of requests are data no property is about.

## What is planned

1. A module that composes `BaseService` with `GuardedProcessPool`, in place of the
   seam described above, so that a pool hangs exactly in the cases of finding 1.
2. UDP in tun2socks, and its DNS gateway.
3. Proofs about `ObfsLocal` with a parser that keeps what it has parsed in its state,
   so that its invariant needs no induction over the data.
