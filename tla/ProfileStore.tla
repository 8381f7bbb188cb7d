---------------------------- MODULE ProfileStore ----------------------------
(***************************************************************************)
(* The table of profiles, the threads of ProfileSyncService.kt that bring  *)
(* it up to date, and the threads of MainActivity.kt that read a profile   *)
(* in it, to show it in the list of locations or to test it, and select it *)
(* some time later.                                                        *)
(*                                                                         *)
(* A call of the database is atomic, what is between two calls is not.  Of *)
(* a row the id and the address matter here.  A list of servers is the set *)
(* of its entries: <<a, n>> names the server a for the n-th time, and      *)
(* nothing keeps a list from naming a server again.                        *)
(***************************************************************************)
EXTENDS Integers

CONSTANTS Server,     \* the addresses in the lists of servers
          Repeated,   \* those of them that a list may name more than once, ...
          MaxNamed,   \* ... and how often at most
          Default,    \* the address of Profile()
          Sync,       \* the threads of ProfileSyncService
          Chooser,    \* the threads of MainActivity
          Urls,       \* the length of R.array.proxies_url
          MaxId       \* bound on the rows that are ever created

ASSUME StoreAssumption ==
  /\ Default \notin Server /\ Repeated \subseteq Server
  /\ MaxNamed \in Nat /\ Urls \in Nat \ {0} /\ MaxId \in Nat

Entry == (Server \X {1}) \cup (Repeated \X (2 .. MaxNamed))

\* The servers some entries are of.
Named(entries) == {e[1] : e \in entries}

VARIABLES
  db,         \* the profiles: the address of every id
  nextId,     \* the id AUTOINCREMENT gives next
  selected,   \* DataStore.profileId
  meant,      \* the address of the profile that was selected
  sync,       \* the threads of ProfileSyncService
  overlapped, \* two of them once ran at the same time
  choice      \* the threads of MainActivity: the profile they hold, and where they are with it

tableVars  == <<db, nextId>>
selectVars == <<selected, meant>>
syncVars   == <<sync, overlapped>>
storeVars  == <<tableVars, selectVars, syncVars, choice>>

IdleSync == [pc |-> "idle", url |-> 1, remote |-> {}, del |-> {}, add |-> {}, upd |-> {},
             alone |-> FALSE]
NoChoice == [pc |-> "none", id |-> 0, addr |-> Default]

Addresses(d) == {d[i] : i \in DOMAIN d}

StoreInit ==
  /\ db = [i \in {} |-> Default] /\ nextId = 1 /\ selected = 0 /\ meant = Default
  /\ sync = [s \in Sync |-> IdleSync] /\ overlapped = FALSE
  /\ choice = [t \in Chooser |-> NoChoice]

-----------------------------------------------------------------------------
(* The Dao of Profile.                                                     *)

\* create(): the id was never used before.
Create(addr) ==
  /\ nextId <= MaxId
  /\ db' = [i \in DOMAIN db \cup {nextId} |-> IF i = nextId THEN addr ELSE db[i]]
  /\ nextId' = nextId + 1

\* Mutant: the greatest id is given again once its row is deleted.
DeleteFreesId(id) ==
  /\ db' = [i \in DOMAIN db \ {id} |-> db[i]]
  /\ nextId' = IF id = nextId - 1 THEN id ELSE nextId

Delete(id) == db' = [i \in DOMAIN db \ {id} |-> db[i]] /\ UNCHANGED nextId

Update(id, addr) == db' = [db EXCEPT ![id] = addr] /\ UNCHANGED nextId

-----------------------------------------------------------------------------
(* ProfileSyncService.                                                     *)

Active(s) == sync[s].pc # "idle"

\* onStartCommand(): a thread for every command.  One comes from each onCreate() of
\* MainActivity and, because the service is sticky, after the process has died.
OnStartCommand(s) ==
  /\ ~Active(s)
  /\ LET others == {r \in Sync : Active(r)}
     IN  /\ sync' = [r \in Sync |->
                       IF r = s THEN [IdleSync EXCEPT !.pc = "fetch", !.alone = (others = {})]
                       ELSE [sync[r] EXCEPT !.alone = FALSE]]
         /\ overlapped' = (overlapped \/ others # {})
  /\ UNCHANGED <<tableVars, selectVars, choice>>

\* A step of the thread s, which becomes r.
SyncStep(s, r) ==
  /\ sync' = [sync EXCEPT ![s] = r]
  /\ UNCHANGED <<overlapped, selectVars, choice>>

\* An exception ends syncProfiles(), and the next url is tried.
Failed(r) ==
  IF r.url < Urls
  THEN [IdleSync EXCEPT !.pc = "fetch", !.url = r.url + 1, !.alone = r.alone]
  ELSE IdleSync

\* Http.get() fails, or returns a list, which is empty if the answer is something else.
Fetch(s) ==
  /\ sync[s].pc = "fetch"
  /\ \/ SyncStep(s, Failed(sync[s]))
     \/ \E remote \in SUBSET Entry : SyncStep(s, [sync[s] EXCEPT !.pc = "read", !.remote = remote])
  /\ UNCHANGED tableVars

\* associateBy: of the profiles with one address the last is in the map.
LocalMap == {i \in DOMAIN db : \A j \in DOMAIN db : db[j] = db[i] => j <= i}

\* Mutant: the profiles to create are not those that are missing.
GetAllProfilesUnfiltered(s) ==
  /\ sync[s].pc = "read"
  /\ LET remote == sync[s].remote
     IN  SyncStep(s, [sync[s] EXCEPT !.pc = "write", !.add = remote,
                                     !.del = {i \in DOMAIN db : db[i] \notin Named(remote)}])
  /\ UNCHANGED tableVars

\* getAllProfiles(), and what is to be deleted, created and updated.  toCreate keeps
\* the repeats of the list.  The updates of one row write the same address: upd has one.
GetAllProfiles(s) ==
  /\ sync[s].pc = "read"
  /\ LET remote == sync[s].remote
     IN  SyncStep(s, [sync[s] EXCEPT
           !.pc  = "write",
           !.del = {i \in DOMAIN db : db[i] \notin Named(remote)},
           !.add = {e \in remote : e[1] \notin Addresses(db)},
           !.upd = {[id |-> i, addr |-> db[i]] : i \in {j \in LocalMap : db[j] \in Named(remote)}}])
  /\ UNCHANGED tableVars

\* Mutant: one profile is deleted.
DelProfileOnce(s) ==
  /\ sync[s].pc = "write"
  /\ \E i \in sync[s].del :
       /\ \A j \in sync[s].del : i <= j
       /\ IF i \in DOMAIN db
          THEN Delete(i) /\ SyncStep(s, [sync[s] EXCEPT !.del = {}])
          ELSE UNCHANGED tableVars /\ SyncStep(s, Failed(sync[s]))

\* delProfile(), in the order of the list, with its check that there was a row.
DelProfile(s) ==
  /\ sync[s].pc = "write"
  /\ \E i \in sync[s].del :
       /\ \A j \in sync[s].del : i <= j
       /\ IF i \in DOMAIN db
          THEN Delete(i) /\ SyncStep(s, [sync[s] EXCEPT !.del = @ \ {i}])
          ELSE UNCHANGED tableVars /\ SyncStep(s, Failed(sync[s]))

CreateProfile(s) ==
  /\ sync[s].pc = "write" /\ sync[s].del = {}
  /\ \E e \in sync[s].add : Create(e[1]) /\ SyncStep(s, [sync[s] EXCEPT !.add = @ \ {e}])

\* updateProfile() with the id of the local profile, and the same check.
UpdateProfile(s) ==
  /\ sync[s].pc = "write" /\ sync[s].del = {} /\ sync[s].add = {}
  /\ \E p \in sync[s].upd :
       IF p.id \in DOMAIN db
       THEN Update(p.id, p.addr) /\ SyncStep(s, [sync[s] EXCEPT !.upd = @ \ {p}])
       ELSE UNCHANGED tableVars /\ SyncStep(s, Failed(sync[s]))

\* Everything is written.
Synced(s) == sync[s].pc = "write" /\ sync[s].del = {} /\ sync[s].add = {} /\ sync[s].upd = {}

EndSync(s) == Synced(s) /\ SyncStep(s, IdleSync) /\ UNCHANGED tableVars

-----------------------------------------------------------------------------
(* MainActivity.                                                           *)

\* A profile is in the list the user looks at, or is bestProfile.
Look(t) ==
  /\ choice[t].pc = "none"
  /\ \E i \in DOMAIN db : choice' = [choice EXCEPT ![t] = [pc |-> "get", id |-> i, addr |-> db[i]]]
  /\ UNCHANGED <<tableVars, selectVars, syncVars>>

\* Core.switchProfile(): the profile is read or, if it is gone, one is created, ...
GetProfile(t) ==
  /\ choice[t].pc = "get"
  /\ IF choice[t].id \in DOMAIN db
     THEN UNCHANGED tableVars /\ choice' = [choice EXCEPT ![t].pc = "set"]
     ELSE /\ Create(Default)
          /\ choice' = [choice EXCEPT ![t] = [pc |-> "set", id |-> nextId, addr |-> Default]]
  /\ UNCHANGED <<selectVars, syncVars>>

\* ... and its id becomes DataStore.profileId.
SetProfileId(t) ==
  /\ choice[t].pc = "set"
  /\ selected' = choice[t].id /\ meant' = choice[t].addr
  /\ choice' = [choice EXCEPT ![t] = NoChoice]
  /\ UNCHANGED <<tableVars, syncVars>>

\* The app's process dies, and with it its threads.
AppDies ==
  /\ sync' = [s \in Sync |-> IdleSync] /\ choice' = [t \in Chooser |-> NoChoice]
  /\ UNCHANGED <<tableVars, selectVars, overlapped>>

-----------------------------------------------------------------------------
StoreNext ==
  \/ AppDies
  \/ \E s \in Sync : \/ OnStartCommand(s) \/ Fetch(s) \/ GetAllProfiles(s) \/ DelProfile(s)
                     \/ CreateProfile(s) \/ UpdateProfile(s) \/ EndSync(s)
  \/ \E t \in Chooser : Look(t) \/ GetProfile(t) \/ SetProfileId(t)

StoreSpec == StoreInit /\ [][StoreNext]_storeVars

-----------------------------------------------------------------------------
(* Properties.                                                             *)

\* Two profiles have the address of one server only if two synchronisations ran at the
\* same time, or a list may name the server twice: neither a failure between two steps,
\* another url, the death of the process, the repeats of other servers nor the selection
\* of a profile that is gone makes syncProfiles() create one again (lines 39-48).
NoNeedlessDuplicate ==
  \A i, j \in DOMAIN db :
    db[i] = db[j] /\ i # j => overlapped \/ db[i] \in Repeated \cup {Default}

\* A synchronisation that ran alone ends with the servers of its list, whatever an
\* earlier one left behind half done.
SyncedIsRemote ==
  \A s \in Sync : Synced(s) /\ sync[s].alone => Addresses(db) \ {Default} = Named(sync[s].remote)

\* The selected id is that of the server the user saw in the list, or of the one that was
\* the quickest, or of none: however long ago it was read, and whatever was deleted,
\* created and updated since, an id never comes to be that of another server.
SelectedIsMeant == selected \in DOMAIN db => db[selected] = meant

=============================================================================
