---------------------------- MODULE ProfileProofs ----------------------------
(***************************************************************************)
(* Proofs about ProfileStore, ProfileSwitch and TrafficMonitor, for any    *)
(* sets of servers, threads and profiles, and any traffic.                 *)
(***************************************************************************)
EXTENDS ProfileStore, ProfileSwitch, TrafficMonitor, SequenceTheorems, TLAPS

-----------------------------------------------------------------------------
(* The profile the service runs with.                                      *)

\* RunsSelected already holds when the profile is read and while the service is
\* Connecting, and a RELOAD on its way has a receiver, which a service that is
\* Stopped or starting does not have.
SwitchInv ==
  /\ worker \in [Worker -> {"none", "join", "switch", "reload"}]
  /\ starting \in BOOLEAN /\ receiver \in BOOLEAN
  /\ reloadSent \in BOOLEAN /\ missed \in BOOLEAN
  /\ starting => svc = "Stopped"
  /\ svc = "Stopped" => ~receiver
  /\ reloadSent => receiver
  /\ (starting \/ svc \in {"Connecting", "Connected"}) /\ using # profileId =>
       reloadSent \/ missed \/ \E t \in Worker : worker[t] = "reload"

\* At first nothing is under way.
LEMMA SwitchInvInit == SwitchInit => SwitchInv
BY DEF SwitchInit, SwitchInv

\* Every step of a switch preserves its invariant.
LEMMA SwitchInvNext == SwitchInv /\ [SwitchNext]_switchVars => SwitchInv'
<1> SUFFICES ASSUME SwitchInv, [SwitchNext]_switchVars PROVE SwitchInv'
  OBVIOUS
<1> USE DEF SwitchInv, uiVars, svcVars, sentVars, Goto
<1>1. CASE Synchronise
  BY <1>1 DEF Synchronise
<1>2. CASE OnProfileChanged
  BY <1>2 DEF OnProfileChanged, ChooseBest, Worker
<1>3. CASE OnClickConnectButton
  BY <1>3 DEF OnClickConnectButton, ChooseBest, Worker
<1>4. CASE JoinBest
  BY <1>4 DEF JoinBest, Worker
<1>5. CASE StateChanged
  BY <1>5 DEF StateChanged
<1>6. CASE Reopen
  BY <1>6 DEF Reopen
<1>7. ASSUME NEW t \in Worker, SwitchProfile(t) PROVE SwitchInv'
  BY <1>7 DEF SwitchProfile
<1>8. ASSUME NEW t \in Worker, ReloadService(t) PROVE SwitchInv'
  BY <1>8 DEF ReloadService
<1>9. CASE CurrentProfile
  <2>1. CASE svc # "Stopped"
    BY <1>9, <2>1 DEF CurrentProfile
  <2>2. CASE svc = "Stopped"
    <3>1. UNCHANGED <<profileId, worker, reloadSent, receiver>>
      BY <1>9, <2>2 DEF CurrentProfile
    <3>2. CASE starting' = TRUE /\ using' = profileId /\ missed' = FALSE /\ UNCHANGED svc
      BY <2>2, <3>1, <3>2
    <3>3. CASE svc' = "Stopping" /\ UNCHANGED <<starting, missed>> /\ ~starting
      BY <3>1, <3>3
    <3> QED
      BY <1>9, <2>2, <3>2, <3>3 DEF CurrentProfile
  <2> QED
    BY <2>1, <2>2
<1>10. CASE Register
  BY <1>10 DEF Register
<1>11. CASE SvcConnected
  BY <1>11 DEF SvcConnected
<1>12. CASE StopRunner
  BY <1>12 DEF StopRunner
<1>13. CASE ForceLoad
  BY <1>13 DEF ForceLoad
<1>14. CASE StopEnds
  BY <1>14 DEF StopEnds
<1>15. CASE UNCHANGED switchVars
  BY <1>15 DEF switchVars
<1> QED
  BY <1>1, <1>2, <1>3, <1>4, <1>5, <1>6, <1>7, <1>8, <1>9, <1>10, <1>11, <1>12, <1>13, <1>14, <1>15
  DEF SwitchNext

\* A connected service runs with the selected profile, or is about to be restarted,
\* unless MainActivity did not know it to be connected (line 96 and 104).
THEOREM SwitchRunsSelected == SwitchSpec => []RunsSelected
<1>1. SwitchInv => RunsSelected
  BY DEF SwitchInv, RunsSelected
<1> QED
  BY <1>1, SwitchInvInit, SwitchInvNext, PTL DEF SwitchSpec

-----------------------------------------------------------------------------
(* The table.                                                              *)

Address == Server \cup {Default}

\* An entry names a server, and for the first time if that is not repeated.
LEMMA EntryFacts ==
  \A e \in Entry : e[1] \in Server /\ (e[1] \notin Repeated => e = <<e[1], 1>>)
BY StoreAssumption DEF Entry

\* What a thread that synchronises holds.
SyncType ==
  [pc : {"idle", "fetch", "read", "write"}, url : Nat, remote : SUBSET Entry, del : SUBSET Nat,
   add : SUBSET Entry, upd : SUBSET [id : Nat, addr : Address], alone : BOOLEAN]

StoreTypeOK ==
  /\ nextId \in Nat \ {0} /\ selected \in Nat /\ overlapped \in BOOLEAN
  /\ DOMAIN db \subseteq Nat /\ db \in [DOMAIN db -> Address]
  /\ sync \in [Sync -> SyncType]
  /\ choice \in [Chooser -> [pc : {"none", "get", "set"}, id : Nat, addr : Address]]

\* An id that someone holds is less than nextId, and the row it names, if it is still
\* there, has the address that went with it.
Names(id, addr) == id < nextId /\ (id \in DOMAIN db => db[id] = addr)

IdInv ==
  /\ \A i \in DOMAIN db : i < nextId
  /\ Names(selected, meant)
  /\ \A t \in Chooser : choice[t].pc # "none" => Names(choice[t].id, choice[t].addr)
  /\ \A s \in Sync : \A p \in sync[s].upd : Names(p.id, p.addr)

\* The empty database.
LEMMA StoreTypeInit == StoreInit => StoreTypeOK
<1> SUFFICES ASSUME StoreInit PROVE StoreTypeOK
  OBVIOUS
<1>1. IdleSync \in SyncType
  BY DEF IdleSync, SyncType
<1>2. NoChoice \in [pc : {"none", "get", "set"}, id : Nat, addr : Address]
  BY DEF NoChoice, Address
<1>3. DOMAIN db = {} /\ [i \in {} |-> Default] \in [{} -> Address]
  BY DEF StoreInit
<1>4. db \in [DOMAIN db -> Address]
  BY <1>3 DEF StoreInit
<1>5. sync \in [Sync -> SyncType]
  BY <1>1 DEF StoreInit
<1>6. choice \in [Chooser -> [pc : {"none", "get", "set"}, id : Nat, addr : Address]]
  BY <1>2 DEF StoreInit
<1>7. nextId \in Nat \ {0} /\ selected \in Nat
  BY DEF StoreInit
<1>8. overlapped \in BOOLEAN /\ DOMAIN db \subseteq Nat
  BY <1>3 DEF StoreInit
<1> QED
  BY <1>4, <1>5, <1>6, <1>7, <1>8 DEF StoreTypeOK

\* What a step of a thread of ProfileSyncService makes of its record.
LEMMA FailedType ==
  ASSUME NEW r \in SyncType PROVE Failed(r) \in SyncType
<1>1. IdleSync \in SyncType
  BY DEF IdleSync, SyncType
<1>2. r.url + 1 \in Nat /\ r.alone \in BOOLEAN
  BY DEF SyncType
<1>3. ASSUME NEW u \in Nat, NEW b \in BOOLEAN
      PROVE [IdleSync EXCEPT !.pc = "fetch", !.url = u, !.alone = b] \in SyncType
  BY <1>1 DEF SyncType
<1> QED
  BY <1>1, <1>2, <1>3 DEF Failed

\* Every step of a fetch or of a test of a server preserves the types.
LEMMA StoreTypeNext == StoreTypeOK /\ [StoreNext]_storeVars => StoreTypeOK'
<1> SUFFICES ASSUME StoreTypeOK, [StoreNext]_storeVars PROVE StoreTypeOK'
  OBVIOUS
<1> USE DEF StoreTypeOK, tableVars, selectVars, syncVars
<1>0. ASSUME NEW s \in Sync PROVE sync[s] \in SyncType /\ Failed(sync[s]) \in SyncType
  BY FailedType
<1>a. ASSUME NEW a \in Address, Create(a)
      PROVE nextId' \in Nat \ {0} /\ DOMAIN db' \subseteq Nat /\ db' \in [DOMAIN db' -> Address]
  BY <1>a DEF Create
<1>d. ASSUME NEW i, Delete(i)
      PROVE nextId' \in Nat \ {0} /\ DOMAIN db' \subseteq Nat /\ db' \in [DOMAIN db' -> Address]
  BY <1>d DEF Delete
<1>s. ASSUME NEW s \in Sync, NEW r \in SyncType, SyncStep(s, r),
             nextId' \in Nat \ {0} /\ DOMAIN db' \subseteq Nat /\ db' \in [DOMAIN db' -> Address]
      PROVE StoreTypeOK'
  <2>1. sync' \in [Sync -> SyncType]
    BY <1>s DEF SyncStep
  <2> QED
    BY <1>s, <2>1 DEF SyncStep
<1>1. CASE AppDies
  BY <1>1 DEF AppDies, IdleSync, NoChoice, SyncType, Address
<1>2. ASSUME NEW s \in Sync, OnStartCommand(s) PROVE StoreTypeOK'
  <2>1. ASSUME NEW b \in BOOLEAN PROVE [IdleSync EXCEPT !.pc = "fetch", !.alone = b] \in SyncType
    BY DEF IdleSync, SyncType
  <2>2. ASSUME NEW r \in Sync PROVE [sync[r] EXCEPT !.alone = FALSE] \in SyncType
    BY <1>0 DEF SyncType
  <2>3. sync' \in [Sync -> SyncType]
    BY <1>2, <2>1, <2>2 DEF OnStartCommand
  <2>4. overlapped' \in BOOLEAN
    BY <1>2 DEF OnStartCommand
  <2> QED
    BY <1>2, <2>3, <2>4 DEF OnStartCommand
<1>3. ASSUME NEW s \in Sync, Fetch(s) PROVE StoreTypeOK'
  <2>1. ASSUME NEW remote \in SUBSET Entry
        PROVE [sync[s] EXCEPT !.pc = "read", !.remote = remote] \in SyncType
    BY <1>0 DEF SyncType
  <2> QED
    BY <1>0, <1>3, <2>1 DEF Fetch, SyncStep
<1>4. ASSUME NEW s \in Sync, GetAllProfiles(s) PROVE StoreTypeOK'
  <2> DEFINE remote == sync[s].remote
             del == {i \in DOMAIN db : db[i] \notin Named(remote)}
             add == {e \in remote : e[1] \notin Addresses(db)}
             upd == {[id |-> i, addr |-> db[i]] : i \in {j \in LocalMap : db[j] \in Named(remote)}}
  <2>1. del \in SUBSET Nat /\ add \in SUBSET Entry
    BY <1>0 DEF SyncType
  <2>2. upd \in SUBSET [id : Nat, addr : Address]
    BY DEF LocalMap
  <2>3. sync' = [sync EXCEPT ![s] =
                   [sync[s] EXCEPT !.pc = "write", !.del = del, !.add = add, !.upd = upd]]
    BY <1>4 DEF GetAllProfiles, SyncStep
  <2> HIDE DEF del, add, upd
  <2>4. [sync[s] EXCEPT !.pc = "write", !.del = del, !.add = add, !.upd = upd] \in SyncType
    BY <1>0, <2>1, <2>2 DEF SyncType
  <2> QED
    BY <1>4, <2>3, <2>4 DEF GetAllProfiles, SyncStep
<1>5. ASSUME NEW s \in Sync, DelProfile(s) PROVE StoreTypeOK'
  <2>1. ASSUME NEW i PROVE [sync[s] EXCEPT !.del = @ \ {i}] \in SyncType
    BY <1>0 DEF SyncType
  <2>2. PICK i \in sync[s].del :
          IF i \in DOMAIN db
          THEN Delete(i) /\ SyncStep(s, [sync[s] EXCEPT !.del = @ \ {i}])
          ELSE UNCHANGED tableVars /\ SyncStep(s, Failed(sync[s]))
    BY <1>5 DEF DelProfile
  <2>3. CASE i \in DOMAIN db
    BY <1>d, <1>s, <2>1, <2>2, <2>3
  <2>4. CASE i \notin DOMAIN db
    BY <1>0, <1>s, <2>2, <2>4
  <2> QED
    BY <2>3, <2>4
<1>6. ASSUME NEW s \in Sync, CreateProfile(s) PROVE StoreTypeOK'
  <2>1. ASSUME NEW e PROVE [sync[s] EXCEPT !.add = @ \ {e}] \in SyncType
    BY <1>0 DEF SyncType
  <2>2. \A e \in sync[s].add : e[1] \in Address
    BY <1>0, EntryFacts DEF SyncType, Address
  <2>3. PICK e \in sync[s].add : Create(e[1]) /\ SyncStep(s, [sync[s] EXCEPT !.add = @ \ {e}])
    BY <1>6 DEF CreateProfile
  <2> QED
    BY <1>a, <1>s, <2>1, <2>2, <2>3
<1>7. ASSUME NEW s \in Sync, UpdateProfile(s) PROVE StoreTypeOK'
  <2>1. ASSUME NEW p PROVE [sync[s] EXCEPT !.upd = @ \ {p}] \in SyncType
    BY <1>0 DEF SyncType
  <2>2. \A p \in sync[s].upd : p.addr \in Address
    BY <1>0 DEF SyncType
  <2>3. ASSUME NEW i, NEW a \in Address, i \in DOMAIN db, Update(i, a)
        PROVE nextId' \in Nat \ {0} /\ DOMAIN db' \subseteq Nat /\ db' \in [DOMAIN db' -> Address]
    BY <2>3 DEF Update
  <2>4. PICK p \in sync[s].upd :
          IF p.id \in DOMAIN db
          THEN Update(p.id, p.addr) /\ SyncStep(s, [sync[s] EXCEPT !.upd = @ \ {p}])
          ELSE UNCHANGED tableVars /\ SyncStep(s, Failed(sync[s]))
    BY <1>7 DEF UpdateProfile
  <2>5. CASE p.id \in DOMAIN db
    <3>1. nextId' \in Nat \ {0} /\ DOMAIN db' \subseteq Nat /\ db' \in [DOMAIN db' -> Address]
      BY <2>2, <2>3, <2>4, <2>5
    <3> QED
      BY <1>s, <2>1, <2>4, <2>5, <3>1
  <2>6. CASE p.id \notin DOMAIN db
    BY <1>0, <1>s, <2>4, <2>6
  <2> QED
    BY <2>5, <2>6
<1>8. ASSUME NEW s \in Sync, EndSync(s) PROVE StoreTypeOK'
  BY <1>8 DEF EndSync, SyncStep, IdleSync, SyncType
<1>9. ASSUME NEW t \in Chooser, Look(t) PROVE StoreTypeOK'
  BY <1>9 DEF Look
<1>10. ASSUME NEW t \in Chooser, GetProfile(t) PROVE StoreTypeOK'
  BY <1>10, <1>a DEF GetProfile, Address
<1>11. ASSUME NEW t \in Chooser, SetProfileId(t) PROVE StoreTypeOK'
  BY <1>11 DEF SetProfileId, NoChoice, Address
<1>12. CASE UNCHANGED storeVars
  BY <1>12 DEF storeVars
<1> QED
  BY <1>1, <1>2, <1>3, <1>4, <1>5, <1>6, <1>7, <1>8, <1>9, <1>10, <1>11, <1>12 DEF StoreNext

\* Nobody holds a profile at first.
LEMMA IdInvInit == StoreInit => IdInv
<1> SUFFICES ASSUME StoreInit PROVE IdInv
  OBVIOUS
<1>1. DOMAIN db = {}
  BY DEF StoreInit
<1>2. \A s \in Sync : sync[s].upd = {}
  BY DEF StoreInit, IdleSync
<1>3. \A t \in Chooser : choice[t].pc = "none"
  BY DEF StoreInit, NoChoice
<1> QED
  BY <1>1, <1>2, <1>3 DEF IdInv, Names, StoreInit

\* What is done to the table, apart from updates, ...
TableStep ==
  \/ UNCHANGED <<db, nextId>>
  \/ \E a \in Address : Create(a)
  \/ \E i \in Nat : Delete(i)

\* ... never makes an id name another server.
LEMMA NamesStay ==
  ASSUME StoreTypeOK, NEW id \in Nat, NEW addr, Names(id, addr), TableStep
  PROVE  Names(id, addr)'
<1>1. CASE UNCHANGED <<db, nextId>>
  BY <1>1 DEF Names
<1>2. ASSUME NEW a \in Address, Create(a) PROVE Names(id, addr)'
  <2>1. DOMAIN db' = DOMAIN db \cup {nextId} /\ nextId' = nextId + 1
    BY <1>2 DEF Create
  <2>2. id \in DOMAIN db => db'[id] = db[id]
    BY <1>2 DEF Create, Names, StoreTypeOK
  <2> QED
    BY <2>1, <2>2 DEF Names, StoreTypeOK
<1>3. ASSUME NEW i \in Nat, Delete(i) PROVE Names(id, addr)'
  <2>1. DOMAIN db' = DOMAIN db \ {i} /\ nextId' = nextId
    BY <1>3 DEF Delete
  <2>2. id \in DOMAIN db' => db'[id] = db[id]
    BY <1>3 DEF Delete
  <2> QED
    BY <2>1, <2>2 DEF Names
<1> QED
  BY <1>1, <1>2, <1>3 DEF TableStep

\* An update writes what is there: the row it names has the address it writes.
LEMMA UpdateChangesNothing ==
  ASSUME StoreTypeOK, IdInv, NEW s \in Sync, NEW p \in sync[s].upd, p.id \in DOMAIN db,
         Update(p.id, p.addr)
  PROVE  UNCHANGED <<db, nextId>>
<1>1. db[p.id] = p.addr
  BY DEF IdInv, Names
<1>2. db = [i \in DOMAIN db |-> db[i]]
  BY DEF StoreTypeOK
<1> QED
  BY <1>1, <1>2 DEF Update

\* So every action is a TableStep.
LEMMA NextIsTableStep == StoreTypeOK /\ IdInv /\ [StoreNext]_storeVars => TableStep
<1> SUFFICES ASSUME StoreTypeOK, IdInv, [StoreNext]_storeVars PROVE TableStep
  OBVIOUS
<1> USE DEF tableVars
<1>1. CASE AppDies
  BY <1>1 DEF AppDies, TableStep
<1>2. ASSUME NEW s \in Sync,
             OnStartCommand(s) \/ Fetch(s) \/ GetAllProfiles(s) \/ EndSync(s)
      PROVE TableStep
  BY <1>2 DEF OnStartCommand, Fetch, GetAllProfiles, EndSync, TableStep
<1>3. ASSUME NEW s \in Sync, DelProfile(s) PROVE TableStep
  <2>1. sync[s].del \subseteq Nat
    BY DEF StoreTypeOK, SyncType
  <2> QED
    BY <1>3, <2>1 DEF DelProfile, TableStep
<1>4. ASSUME NEW s \in Sync, CreateProfile(s) PROVE TableStep
  <2>1. \A e \in sync[s].add : e[1] \in Address
    BY EntryFacts DEF StoreTypeOK, SyncType, Address
  <2> QED
    BY <1>4, <2>1 DEF CreateProfile, TableStep
<1>5. ASSUME NEW s \in Sync, UpdateProfile(s) PROVE TableStep
  BY <1>5, UpdateChangesNothing DEF UpdateProfile, TableStep
<1>6. ASSUME NEW t \in Chooser, Look(t) \/ SetProfileId(t) PROVE TableStep
  BY <1>6 DEF Look, SetProfileId, TableStep
<1>7. ASSUME NEW t \in Chooser, GetProfile(t) PROVE TableStep
  BY <1>7 DEF GetProfile, TableStep, Address
<1>8. CASE UNCHANGED storeVars
  BY <1>8 DEF storeVars, TableStep
<1> QED
  BY <1>1, <1>2, <1>3, <1>4, <1>5, <1>6, <1>7, <1>8 DEF StoreNext

\* Every step keeps the ids that are held true to their rows.
LEMMA IdInvNext == StoreTypeOK /\ IdInv /\ [StoreNext]_storeVars => IdInv'
<1> SUFFICES ASSUME StoreTypeOK, IdInv, [StoreNext]_storeVars PROVE IdInv'
  OBVIOUS
<1> USE DEF tableVars, selectVars, syncVars
<1>0. TableStep
  BY NextIsTableStep
<1>a. \A i \in DOMAIN db' : i < nextId'
  <2>1. \A i \in DOMAIN db : i \in Nat /\ i < nextId
    BY DEF StoreTypeOK, IdInv
  <2>2. CASE UNCHANGED <<db, nextId>>
    BY <2>1, <2>2
  <2>3. ASSUME NEW a \in Address, Create(a) PROVE \A i \in DOMAIN db' : i < nextId'
    BY <2>1, <2>3 DEF Create, StoreTypeOK
  <2>4. ASSUME NEW i \in Nat, Delete(i) PROVE \A j \in DOMAIN db' : j < nextId'
    BY <2>1, <2>4 DEF Delete
  <2> QED
    BY <1>0, <2>2, <2>3, <2>4 DEF TableStep
<1>b. ASSUME UNCHANGED selectVars PROVE Names(selected, meant)'
  BY <1>0, <1>b, NamesStay DEF StoreTypeOK, IdInv, Names
<1>c. ASSUME NEW t \in Chooser, choice[t].pc # "none", UNCHANGED <<choice[t].id, choice[t].addr>>
      PROVE Names(choice[t].id, choice[t].addr)'
  BY <1>0, <1>c, NamesStay DEF StoreTypeOK, IdInv, Names
<1>d. ASSUME NEW s \in Sync, sync'[s].upd \subseteq sync[s].upd
      PROVE \A p \in sync'[s].upd : Names(p.id, p.addr)'
  <2>5. \A p \in sync[s].upd : p.id \in Nat /\ Names(p.id, p.addr)
    BY DEF StoreTypeOK, SyncType, IdInv
  <2>6. \A p \in sync[s].upd : Names(p.id, p.addr)'
    BY <1>0, <2>5, NamesStay DEF Names
  <2> QED
    BY <1>d, <2>6
<1>e. ASSUME UNCHANGED selectVars, UNCHANGED choice, \A s \in Sync : sync'[s].upd \subseteq sync[s].upd
      PROVE IdInv'
  <2>7. \A t \in Chooser : choice'[t].pc # "none" => Names(choice[t].id, choice[t].addr)'
    BY <1>c, <1>e
  <2> QED
    BY <1>a, <1>b, <1>d, <1>e, <2>7 DEF IdInv
<1>f. ASSUME UNCHANGED sync PROVE \A s \in Sync : \A p \in sync'[s].upd : Names(p.id, p.addr)'
  BY <1>d, <1>f
<1>1. CASE AppDies
  <2>1. (\A s \in Sync : sync'[s].upd = {}) /\ (\A t \in Chooser : choice'[t].pc = "none")
    BY <1>1 DEF AppDies, IdleSync, NoChoice
  <2> QED
    BY <1>1, <1>a, <1>b, <2>1 DEF AppDies, IdInv
<1>2. ASSUME NEW s \in Sync, OnStartCommand(s) PROVE IdInv'
  <2>1. \A r \in Sync : sync'[r].upd \subseteq sync[r].upd
    <3> DEFINE b == {r \in Sync : Active(r)} = {}
               n == [IdleSync EXCEPT !.pc = "fetch", !.alone = b]
    <3>1. sync' = [r \in Sync |-> IF r = s THEN n ELSE [sync[r] EXCEPT !.alone = FALSE]]
      BY <1>2, Zenon DEF OnStartCommand
    <3> HIDE DEF b
    <3>2. n.upd = {}
      BY DEF IdleSync
    <3> HIDE DEF n
    <3>3. \A r \in Sync : [sync[r] EXCEPT !.alone = FALSE].upd = sync[r].upd
      BY DEF StoreTypeOK, SyncType
    <3> QED
      BY <3>1, <3>2, <3>3
  <2> QED
    BY <1>2, <1>e, <2>1 DEF OnStartCommand
<1>3. ASSUME NEW s \in Sync, NEW r, SyncStep(s, r), r.upd \subseteq sync[s].upd PROVE IdInv'
  <2>1. \A q \in Sync : sync'[q].upd \subseteq sync[q].upd
    BY <1>3 DEF SyncStep, StoreTypeOK
  <2> QED
    BY <1>3, <1>e, <2>1 DEF SyncStep
<1>4. \A s \in Sync : Failed(sync[s]).upd \subseteq sync[s].upd
  BY DEF Failed, IdleSync
<1>5. ASSUME NEW s \in Sync, Fetch(s) PROVE IdInv'
  <2>1. ASSUME NEW remote PROVE [sync[s] EXCEPT !.pc = "read", !.remote = remote].upd = sync[s].upd
    BY DEF StoreTypeOK, SyncType
  <2> QED
    BY <1>3, <1>4, <1>5, <2>1 DEF Fetch
<1>6. ASSUME NEW s \in Sync, GetAllProfiles(s) PROVE IdInv'
  <2>1. UNCHANGED <<selectVars, choice>>
    BY <1>6 DEF GetAllProfiles, SyncStep
  <2>2. \A p \in sync'[s].upd : \E i \in DOMAIN db : p.id = i /\ p.addr = db[i]
    BY <1>6 DEF GetAllProfiles, SyncStep, LocalMap, StoreTypeOK, SyncType
  <2>3. UNCHANGED <<db, nextId>>
    BY <1>6 DEF GetAllProfiles
  <2>4. \A p \in sync'[s].upd : Names(p.id, p.addr)'
    BY <2>2, <2>3 DEF Names, IdInv
  <2>5. \A r \in Sync \ {s} : sync'[r] = sync[r]
    BY <1>6 DEF GetAllProfiles, SyncStep, StoreTypeOK
  <2>6. \A t \in Chooser : choice'[t].pc # "none" => Names(choice[t].id, choice[t].addr)'
    BY <1>c, <2>1
  <2> QED
    BY <1>a, <1>b, <1>d, <2>1, <2>4, <2>5, <2>6 DEF IdInv
<1>7. ASSUME NEW s \in Sync, DelProfile(s) PROVE IdInv'
  <2>1. ASSUME NEW i PROVE [sync[s] EXCEPT !.del = @ \ {i}].upd = sync[s].upd
    BY DEF StoreTypeOK, SyncType
  <2> QED
    BY <1>3, <1>4, <1>7, <2>1 DEF DelProfile
<1>8. ASSUME NEW s \in Sync, CreateProfile(s) PROVE IdInv'
  <2>1. ASSUME NEW e PROVE [sync[s] EXCEPT !.add = @ \ {e}].upd = sync[s].upd
    BY DEF StoreTypeOK, SyncType
  <2> QED
    BY <1>3, <1>8, <2>1 DEF CreateProfile
<1>9. ASSUME NEW s \in Sync, UpdateProfile(s) PROVE IdInv'
  <2>1. ASSUME NEW p PROVE [sync[s] EXCEPT !.upd = @ \ {p}].upd \subseteq sync[s].upd
    BY DEF StoreTypeOK, SyncType
  <2> QED
    BY <1>3, <1>4, <1>9, <2>1 DEF UpdateProfile
<1>10. ASSUME NEW s \in Sync, EndSync(s) PROVE IdInv'
  BY <1>3, <1>10 DEF EndSync, IdleSync
<1>11. ASSUME NEW t \in Chooser, Look(t) PROVE IdInv'
  <2>1. PICK i \in DOMAIN db : choice' = [choice EXCEPT ![t] = [pc |-> "get", id |-> i, addr |-> db[i]]]
    BY <1>11 DEF Look
  <2>2. choice'[t].id = i /\ choice'[t].addr = db[i] /\ UNCHANGED <<db, nextId>>
    BY <1>11, <2>1 DEF Look, StoreTypeOK
  <2>3. Names(choice[t].id, choice[t].addr)'
    BY <2>2 DEF Names, IdInv
  <2>4. \A u \in Chooser \ {t} : choice'[u] = choice[u]
    BY <2>1 DEF StoreTypeOK
  <2> QED
    BY <1>11, <1>a, <1>b, <1>c, <1>f, <2>3, <2>4 DEF Look, IdInv
<1>12. ASSUME NEW t \in Chooser, GetProfile(t) PROVE IdInv'
  <2>1. Names(choice[t].id, choice[t].addr)'
    <3>1. CASE choice[t].id \in DOMAIN db
      BY <1>12, <1>c, <3>1 DEF GetProfile, StoreTypeOK
    <3>2. CASE choice[t].id \notin DOMAIN db
      <4>1. Create(Default) /\ choice'[t].id = nextId /\ choice'[t].addr = Default
        BY <1>12, <3>2 DEF GetProfile, StoreTypeOK
      <4> QED
        BY <4>1 DEF Create, Names, StoreTypeOK
    <3> QED
      BY <3>1, <3>2
  <2>2. \A u \in Chooser \ {t} : choice'[u] = choice[u]
    BY <1>12 DEF GetProfile, StoreTypeOK
  <2> QED
    BY <1>12, <1>a, <1>b, <1>c, <1>f, <2>1, <2>2 DEF GetProfile, IdInv
<1>13. ASSUME NEW t \in Chooser, SetProfileId(t) PROVE IdInv'
  <2>1. Names(choice[t].id, choice[t].addr) /\ UNCHANGED <<db, nextId>>
    BY <1>13 DEF SetProfileId, IdInv
  <2>2. Names(selected, meant)'
    BY <1>13, <2>1 DEF SetProfileId, Names
  <2>3. choice'[t].pc = "none" /\ \A u \in Chooser \ {t} : choice'[u] = choice[u]
    BY <1>13 DEF SetProfileId, NoChoice, StoreTypeOK
  <2> QED
    BY <1>13, <1>a, <1>c, <1>f, <2>2, <2>3 DEF SetProfileId, IdInv
<1>14. CASE UNCHANGED storeVars
  BY <1>14, <1>e DEF storeVars
<1> QED
  BY <1>1, <1>2, <1>5, <1>6, <1>7, <1>8, <1>9, <1>10, <1>11, <1>12, <1>13, <1>14 DEF StoreNext

-----------------------------------------------------------------------------
(* Synchronisation.                                                        *)

\* The table holds none of what the entries are to create, apart from what is repeated.
Missing(entries) == \A e \in entries : e[1] \in Repeated \/ \A i \in DOMAIN db : db[i] # e[1]

\* While no two synchronisations have overlapped one at most is under way, and what it is
\* to create is not there.
DupInv ==
  overlapped \/
    /\ \A s, r \in Sync : Active(s) /\ Active(r) => s = r
    /\ \A i, j \in DOMAIN db : db[i] = db[j] /\ i # j => db[i] \in Repeated \cup {Default}
    /\ \A s \in Sync : sync[s].pc = "write" => Missing(sync[s].add)

\* The empty database has no duplicates.
LEMMA DupInvInit == StoreInit => DupInv
<1> SUFFICES ASSUME StoreInit PROVE DupInv
  OBVIOUS
<1>1. DOMAIN db = {} /\ \A s \in Sync : sync[s].pc = "idle"
  BY DEF StoreInit, IdleSync
<1> QED
  BY <1>1 DEF DupInv, Active

\* No step adds a server that is there.
LEMMA DupInvNext == StoreTypeOK /\ IdInv /\ DupInv /\ [StoreNext]_storeVars => DupInv'
<1> SUFFICES ASSUME StoreTypeOK, IdInv, DupInv, [StoreNext]_storeVars PROVE DupInv'
  OBVIOUS
<1> USE DEF tableVars, selectVars, syncVars
<1> DEFINE Quiet == UNCHANGED db \/ Create(Default) \/ \E i \in Nat : Delete(i)
           Less(s) == /\ sync'[s].pc = "idle" \/ sync[s].pc # "idle"
                      /\ sync'[s].pc = "write" =>
                           sync[s].pc = "write" /\ sync'[s].add \subseteq sync[s].add
<1>a. ASSUME ~overlapped, Quiet
      PROVE \A i, j \in DOMAIN db' : db'[i] = db'[j] /\ i # j => db'[i] \in Repeated \cup {Default}
  <2>1. \A i, j \in DOMAIN db : db[i] = db[j] /\ i # j => db[i] \in Repeated \cup {Default}
    BY <1>a DEF DupInv
  <2>2. CASE UNCHANGED db
    BY <2>1, <2>2
  <2>3. CASE Create(Default)
    BY <2>1, <2>3 DEF Create
  <2>4. ASSUME NEW i \in Nat, Delete(i)
        PROVE \A j, k \in DOMAIN db' : db'[j] = db'[k] /\ j # k => db'[j] \in Repeated \cup {Default}
    BY <2>1, <2>4 DEF Delete
  <2> QED
    BY <1>a, <2>2, <2>3, <2>4
<1>b. ASSUME NEW A \in SUBSET Entry, Missing(A), Quiet
      PROVE \A e \in A : e[1] \in Repeated \/ \A i \in DOMAIN db' : db'[i] # e[1]
  <2>5. \A e \in A : e[1] # Default /\ (e[1] \in Repeated \/ \A i \in DOMAIN db : db[i] # e[1])
    BY <1>b, EntryFacts, StoreAssumption DEF Missing
  <2>6. CASE UNCHANGED db
    BY <2>5, <2>6
  <2>7. CASE Create(Default)
    BY <2>5, <2>7 DEF Create
  <2>8. ASSUME NEW i \in Nat, Delete(i)
        PROVE \A e \in A : e[1] \in Repeated \/ \A j \in DOMAIN db' : db'[j] # e[1]
    BY <2>5, <2>8 DEF Delete
  <2> QED
    BY <1>b, <2>6, <2>7, <2>8
<1>c. ASSUME Quiet, UNCHANGED overlapped, \A s \in Sync : Less(s) PROVE DupInv'
  <2> SUFFICES ASSUME ~overlapped PROVE DupInv'
    BY <1>c DEF DupInv
  <2>9. \A s, r \in Sync : Active(s)' /\ Active(r)' => s = r
    BY <1>c DEF DupInv, Active
  <2>10. ASSUME NEW s \in Sync, sync'[s].pc = "write"
        PROVE Missing(sync[s].add)'
    <3>1. sync[s].add \in SUBSET Entry
      BY DEF StoreTypeOK, SyncType
    <3>2. Missing(sync[s].add)
      BY <1>c, <2>10 DEF DupInv
    <3>3. \A e \in sync[s].add : e[1] \in Repeated \/ \A i \in DOMAIN db' : db'[i] # e[1]
      BY <1>b, <1>c, <3>1, <3>2
    <3> QED
      BY <1>c, <2>10, <3>3 DEF Missing
  <2> QED
    BY <1>a, <1>c, <2>9, <2>10 DEF DupInv
<1>d. ASSUME NEW s \in Sync, NEW r, SyncStep(s, r), Quiet, r.pc = "idle" \/ sync[s].pc # "idle",
             r.pc = "write" => sync[s].pc = "write" /\ r.add \subseteq sync[s].add
      PROVE DupInv'
  <2>11. \A q \in Sync : Less(q)
    BY <1>d DEF SyncStep, StoreTypeOK
  <2> QED
    BY <1>c, <1>d, <2>11 DEF SyncStep
<1>e. \A s \in Sync : Failed(sync[s]).pc \in {"idle", "fetch"}
  BY DEF Failed, IdleSync
<1>1. CASE AppDies
  <2>1. \A s \in Sync : Less(s)
    BY <1>1 DEF AppDies, IdleSync
  <2> QED
    BY <1>1, <1>c, <2>1 DEF AppDies
<1>2. ASSUME NEW s \in Sync, OnStartCommand(s) PROVE DupInv'
  <2> SUFFICES ASSUME ~overlapped' PROVE DupInv'
    BY DEF DupInv
  <2>1. ~overlapped /\ UNCHANGED db /\ \A r \in Sync : ~Active(r)
    BY <1>2 DEF OnStartCommand
  <2>2. \A r \in Sync \ {s} : sync'[r].pc = "idle"
    BY <1>2, <2>1 DEF OnStartCommand, Active, StoreTypeOK, SyncType
  <2>3. sync'[s].pc = "fetch"
    BY <1>2 DEF OnStartCommand, IdleSync
  <2> QED
    BY <2>1, <2>2, <2>3 DEF DupInv, Active
<1>3. ASSUME NEW s \in Sync, Fetch(s) PROVE DupInv'
  <2>1. ASSUME NEW remote PROVE [sync[s] EXCEPT !.pc = "read", !.remote = remote].pc = "read"
    BY DEF StoreTypeOK, SyncType
  <2> QED
    BY <1>3, <1>d, <1>e, <2>1 DEF Fetch
<1>4. ASSUME NEW s \in Sync, GetAllProfiles(s) PROVE DupInv'
  <2>1. UNCHANGED <<db, overlapped>> /\ sync[s].pc = "read"
    BY <1>4 DEF GetAllProfiles, SyncStep
  <2>2. sync'[s].add = {e \in sync[s].remote : e[1] \notin Addresses(db)}
    BY <1>4 DEF GetAllProfiles, SyncStep, StoreTypeOK, SyncType
  <2>3. \A r \in Sync \ {s} : sync'[r] = sync[r]
    BY <1>4 DEF GetAllProfiles, SyncStep, StoreTypeOK
  <2>4. \A r \in Sync : Active(r)' => Active(r)
    BY <2>1, <2>3 DEF Active
  <2>5. Missing(sync[s].add)'
    BY <2>1, <2>2 DEF Missing, Addresses
  <2>6. \A r \in Sync \ {s} : Missing(sync[r].add) => Missing(sync[r].add)'
    BY <2>1, <2>3 DEF Missing
  <2> QED
    BY <2>1, <2>3, <2>4, <2>5, <2>6 DEF DupInv
<1>5. ASSUME NEW s \in Sync, DelProfile(s) PROVE DupInv'
  <2>1. ASSUME NEW i PROVE /\ [sync[s] EXCEPT !.del = @ \ {i}].pc = sync[s].pc
                           /\ [sync[s] EXCEPT !.del = @ \ {i}].add = sync[s].add
    BY DEF StoreTypeOK, SyncType
  <2>2. sync[s].del \subseteq Nat
    BY DEF StoreTypeOK, SyncType
  <2> QED
    BY <1>5, <1>d, <1>e, <2>1, <2>2 DEF DelProfile
<1>6. ASSUME NEW s \in Sync, CreateProfile(s) PROVE DupInv'
  <2>0. UNCHANGED overlapped
    BY <1>6 DEF CreateProfile, SyncStep
  <2> SUFFICES ASSUME ~overlapped PROVE DupInv'
    BY <2>0 DEF DupInv
  <2>1. PICK e \in sync[s].add : Create(e[1]) /\ SyncStep(s, [sync[s] EXCEPT !.add = @ \ {e}])
    BY <1>6 DEF CreateProfile
  <2>2. sync'[s].pc = "write" /\ sync'[s].add = sync[s].add \ {e}
    BY <1>6, <2>1 DEF CreateProfile, SyncStep, StoreTypeOK, SyncType
  <2>3. \A r \in Sync \ {s} : sync'[r] = sync[r]
    BY <2>1 DEF SyncStep, StoreTypeOK
  <2>4. sync[s].pc = "write" /\ \A r \in Sync : Active(r)' <=> Active(r)
    BY <1>6, <2>2, <2>3 DEF CreateProfile, Active
  <2>5. \A r \in Sync \ {s} : sync'[r].pc # "write"
    BY <2>3, <2>4 DEF DupInv, Active
  <2>6. /\ \A f \in sync[s].add : f[1] \in Repeated \/ \A i \in DOMAIN db : db[i] # f[1]
        /\ \A i, j \in DOMAIN db : db[i] = db[j] /\ i # j => db[i] \in Repeated \cup {Default}
    BY <2>4 DEF DupInv, Missing
  <2>7. /\ DOMAIN db' = DOMAIN db \cup {nextId}
        /\ db'[nextId] = e[1] /\ \A i \in DOMAIN db \ {nextId} : db'[i] = db[i]
    BY <2>1 DEF Create
  <2>8. \A i, j \in DOMAIN db' : db'[i] = db'[j] /\ i # j => db'[i] \in Repeated \cup {Default}
    BY <2>6, <2>7
  <2>9. \A f \in sync[s].add \ {e} : f[1] = e[1] => f[1] \in Repeated
    BY EntryFacts DEF StoreTypeOK, SyncType
  <2>10. Missing(sync[s].add)'
    BY <2>2, <2>6, <2>7, <2>9 DEF Missing
  <2> QED
    BY <2>4, <2>5, <2>8, <2>10 DEF DupInv
<1>7. ASSUME NEW s \in Sync, UpdateProfile(s) PROVE DupInv'
  <2>1. ASSUME NEW p PROVE /\ [sync[s] EXCEPT !.upd = @ \ {p}].pc = sync[s].pc
                           /\ [sync[s] EXCEPT !.upd = @ \ {p}].add = sync[s].add
    BY DEF StoreTypeOK, SyncType
  <2> QED
    BY <1>7, <1>d, <1>e, <2>1, UpdateChangesNothing DEF UpdateProfile
<1>8. ASSUME NEW s \in Sync, EndSync(s) PROVE DupInv'
  BY <1>8, <1>d DEF EndSync, IdleSync
<1>9. ASSUME NEW t \in Chooser, Look(t) \/ GetProfile(t) \/ SetProfileId(t) PROVE DupInv'
  <2>1. Quiet /\ UNCHANGED <<sync, overlapped>>
    BY <1>9 DEF Look, GetProfile, SetProfileId
  <2> QED
    BY <1>c, <2>1
<1>10. CASE UNCHANGED storeVars
  BY <1>10, <1>c DEF storeVars
<1> QED
  BY <1>1, <1>2, <1>3, <1>4, <1>5, <1>6, <1>7, <1>8, <1>9, <1>10 DEF StoreNext

\* A row is of a server in the list, or of none, or to be deleted; a row to be deleted is
\* of no server in the list; and a server in the list has a row or is to get one.
Progress(s) ==
  /\ \A i \in DOMAIN db : db[i] \in Named(sync[s].remote) \cup {Default} \/ i \in sync[s].del
  /\ \A i \in sync[s].del \cap DOMAIN db : db[i] \notin Named(sync[s].remote)
  /\ \A e \in sync[s].remote \ sync[s].add : \E i \in DOMAIN db : db[i] = e[1]
  /\ sync[s].add \subseteq sync[s].remote

\* A synchronisation that has been alone is alone, and makes progress.
SyncInv ==
  \A s \in Sync : sync[s].alone /\ Active(s) =>
    (\A r \in Sync : Active(r) => r = s) /\ (sync[s].pc = "write" => Progress(s))

\* No fetch has begun.
LEMMA SyncInvInit == StoreInit => SyncInv
BY DEF StoreInit, SyncInv, Active, IdleSync

\* Every step of a fetch does its part of the synchronisation.
LEMMA SyncInvNext == StoreTypeOK /\ IdInv /\ SyncInv /\ [StoreNext]_storeVars => SyncInv'
<1> SUFFICES ASSUME StoreTypeOK, IdInv, SyncInv, [StoreNext]_storeVars PROVE SyncInv'
  OBVIOUS
<1> USE DEF tableVars, selectVars, syncVars
<1>a. ASSUME NEW s \in Sync PROVE /\ sync[s].remote \subseteq Entry /\ Named(sync[s].remote) \subseteq Server
                                  /\ sync[s].del \subseteq Nat
  BY EntryFacts DEF StoreTypeOK, SyncType, Named
<1>b. ASSUME NEW s \in Sync, NEW r, SyncStep(s, r), Active(s), r.alone => sync[s].alone,
             sync[s].alone /\ r.alone /\ r.pc = "write" => Progress(s)'
      PROVE SyncInv'
  <2>1. sync'[s] = r /\ \A q \in Sync \ {s} : sync'[q] = sync[q]
    BY <1>b DEF SyncStep, StoreTypeOK
  <2>2. ASSUME NEW q \in Sync, q # s, sync'[q].alone, Active(q)' PROVE FALSE
    BY <1>b, <2>1, <2>2 DEF SyncInv, Active
  <2>3. ASSUME sync'[s].alone, Active(s)'
        PROVE (\A q \in Sync : Active(q)' => q = s) /\ (sync'[s].pc = "write" => Progress(s)')
    BY <1>b, <2>1, <2>3 DEF SyncInv, Active
  <2> QED
    BY <2>2, <2>3 DEF SyncInv
<1>c. ASSUME NEW s \in Sync
      PROVE /\ Failed(sync[s]).pc \in {"idle", "fetch"}
            /\ Failed(sync[s]).alone => sync[s].alone
  BY DEF Failed, IdleSync
<1>d. ASSUME NEW s \in Sync, SyncStep(s, Failed(sync[s])), Active(s) PROVE SyncInv'
  BY <1>b, <1>c, <1>d
<1>1. CASE AppDies
  BY <1>1 DEF AppDies, SyncInv, Active, IdleSync
<1>2. ASSUME NEW s \in Sync, OnStartCommand(s) PROVE SyncInv'
  <2>1. /\ sync'[s].pc = "fetch"
        /\ sync'[s].alone => \A r \in Sync : ~Active(r)
    BY <1>2 DEF OnStartCommand, IdleSync
  <2>2. ASSUME NEW r \in Sync, r # s PROVE sync'[r].pc = sync[r].pc /\ ~sync'[r].alone
    BY <1>2, <2>2 DEF OnStartCommand, StoreTypeOK, SyncType
  <2> QED
    BY <2>1, <2>2 DEF SyncInv, Active
<1>3. ASSUME NEW s \in Sync, Fetch(s) PROVE SyncInv'
  <2>1. ASSUME NEW remote PROVE /\ [sync[s] EXCEPT !.pc = "read", !.remote = remote].pc = "read"
                                /\ [sync[s] EXCEPT !.pc = "read", !.remote = remote].alone = sync[s].alone
    BY DEF StoreTypeOK, SyncType
  <2>2. Active(s)
    BY <1>3 DEF Fetch, Active
  <2>3. ASSUME NEW remote, SyncStep(s, [sync[s] EXCEPT !.pc = "read", !.remote = remote])
        PROVE SyncInv'
    BY <1>b, <2>1, <2>2, <2>3
  <2> QED
    BY <1>3, <1>d, <2>2, <2>3 DEF Fetch
<1>4. ASSUME NEW s \in Sync, GetAllProfiles(s) PROVE SyncInv'
  <2> DEFINE r == [sync[s] EXCEPT
           !.pc  = "write",
           !.del = {i \in DOMAIN db : db[i] \notin Named(sync[s].remote)},
           !.add = {e \in sync[s].remote : e[1] \notin Addresses(db)},
           !.upd = {[id |-> i, addr |-> db[i]] : i \in {j \in LocalMap : db[j] \in Named(sync[s].remote)}}]
  <2>1. SyncStep(s, r) /\ Active(s) /\ UNCHANGED db
    BY <1>4 DEF GetAllProfiles, Active
  <2>2. /\ r.alone = sync[s].alone /\ r.remote = sync[s].remote
        /\ r.del = {i \in DOMAIN db : db[i] \notin Named(sync[s].remote)}
        /\ r.add = {e \in sync[s].remote : e[1] \notin Addresses(db)}
    BY DEF StoreTypeOK, SyncType
  <2> HIDE DEF r
  <2>3. sync'[s] = r
    BY <2>1 DEF SyncStep, StoreTypeOK
  <2>4. Progress(s)'
    BY <2>1, <2>2, <2>3 DEF Progress, Addresses
  <2> QED
    BY <1>b, <2>1, <2>2, <2>4
<1>5. ASSUME NEW s \in Sync, DelProfile(s) PROVE SyncInv'
  <2>0. Active(s) /\ sync[s].pc = "write"
    BY <1>5 DEF DelProfile, Active
  <2>1. ASSUME NEW i \in sync[s].del, i \in DOMAIN db, Delete(i),
               SyncStep(s, [sync[s] EXCEPT !.del = @ \ {i}])
        PROVE SyncInv'
    <3> DEFINE r == [sync[s] EXCEPT !.del = @ \ {i}]
    <3>1. /\ r.alone = sync[s].alone /\ r.remote = sync[s].remote /\ r.add = sync[s].add
          /\ r.del = sync[s].del \ {i}
      BY DEF StoreTypeOK, SyncType
    <3>2. SyncStep(s, r)
      BY <2>1
    <3> HIDE DEF r
    <3>3. sync'[s] = r
      BY <3>2 DEF SyncStep, StoreTypeOK
    <3>4. ASSUME sync[s].alone PROVE Progress(s)'
      <4>1. Progress(s)
        BY <2>0, <3>4 DEF SyncInv
      <4>2. db[i] \notin Named(sync[s].remote)
        BY <2>1, <4>1 DEF Progress
      <4>3. DOMAIN db' = DOMAIN db \ {i} /\ \A j \in DOMAIN db' : db'[j] = db[j]
        BY <2>1 DEF Delete
      <4>4. \A j \in DOMAIN db' : db'[j] \in Named(sync[s].remote) \cup {Default} \/ j \in sync[s].del \ {i}
        BY <4>1, <4>3 DEF Progress
      <4>5. \A j \in (sync[s].del \ {i}) \cap DOMAIN db' : db'[j] \notin Named(sync[s].remote)
        BY <4>1, <4>3 DEF Progress
      <4>6. \A e \in sync[s].remote \ sync[s].add : \E j \in DOMAIN db' : db'[j] = e[1]
        BY <4>1, <4>2, <4>3 DEF Progress, Named
      <4> QED
        BY <3>1, <3>3, <4>1, <4>4, <4>5, <4>6 DEF Progress
    <3> QED
      BY <1>b, <2>0, <3>1, <3>2, <3>4
  <2> QED
    BY <1>5, <1>d, <2>0, <2>1 DEF DelProfile
<1>6. ASSUME NEW s \in Sync, CreateProfile(s) PROVE SyncInv'
  <2>0. Active(s) /\ sync[s].pc = "write" /\ sync[s].del = {}
    BY <1>6 DEF CreateProfile, Active
  <2>1. PICK e \in sync[s].add : Create(e[1]) /\ SyncStep(s, [sync[s] EXCEPT !.add = @ \ {e}])
    BY <1>6 DEF CreateProfile
  <2> DEFINE r == [sync[s] EXCEPT !.add = @ \ {e}]
  <2>2. /\ r.alone = sync[s].alone /\ r.remote = sync[s].remote /\ r.del = {}
        /\ r.add = sync[s].add \ {e}
    BY <2>0 DEF StoreTypeOK, SyncType
  <2>3. SyncStep(s, r)
    BY <2>1
  <2> HIDE DEF r
  <2>4. sync'[s] = r
    BY <2>3 DEF SyncStep, StoreTypeOK
  <2>5. ASSUME sync[s].alone PROVE Progress(s)'
    <3>1. Progress(s)
      BY <2>0, <2>5 DEF SyncInv
    <3>2. /\ DOMAIN db' = DOMAIN db \cup {nextId} /\ nextId \notin DOMAIN db
          /\ db'[nextId] = e[1] /\ \A i \in DOMAIN db : db'[i] = db[i]
      BY <2>1 DEF Create, IdInv, StoreTypeOK
    <3>3. e[1] \in Named(sync[s].remote)
      BY <2>1, <3>1 DEF Progress, Named
    <3>4. \A i \in DOMAIN db' : db'[i] \in Named(sync[s].remote) \cup {Default}
      BY <2>0, <3>1, <3>2, <3>3 DEF Progress
    <3>5. ASSUME NEW f \in sync[s].remote \ (sync[s].add \ {e})
          PROVE  \E i \in DOMAIN db' : db'[i] = f[1]
      <4>1. CASE f = e
        BY <3>2, <4>1
      <4>2. CASE f # e
        <5>1. PICK i \in DOMAIN db : db[i] = f[1]
          BY <3>1, <3>5, <4>2 DEF Progress
        <5> QED
          BY <3>2, <5>1
      <4> QED
        BY <4>1, <4>2
    <3>6. sync[s].add \ {e} \subseteq sync[s].remote
      BY <3>1 DEF Progress
    <3> QED
      BY <2>2, <2>4, <3>4, <3>5, <3>6 DEF Progress
  <2> QED
    BY <1>b, <2>0, <2>2, <2>3, <2>5
<1>7. ASSUME NEW s \in Sync, UpdateProfile(s) PROVE SyncInv'
  <2>0. Active(s) /\ sync[s].pc = "write"
    BY <1>7 DEF UpdateProfile, Active
  <2>1. ASSUME NEW p \in sync[s].upd, p.id \in DOMAIN db, Update(p.id, p.addr),
               SyncStep(s, [sync[s] EXCEPT !.upd = @ \ {p}])
        PROVE SyncInv'
    <3> DEFINE r == [sync[s] EXCEPT !.upd = @ \ {p}]
    <3>1. /\ r.alone = sync[s].alone /\ r.remote = sync[s].remote /\ r.add = sync[s].add
          /\ r.del = sync[s].del
      BY DEF StoreTypeOK, SyncType
    <3>2. SyncStep(s, r)
      BY <2>1
    <3> HIDE DEF r
    <3>3. sync'[s] = r
      BY <3>2 DEF SyncStep, StoreTypeOK
    <3>4. UNCHANGED db
      BY <2>1, UpdateChangesNothing
    <3>5. ASSUME sync[s].alone PROVE Progress(s)'
      BY <2>0, <3>1, <3>3, <3>4, <3>5 DEF SyncInv, Progress
    <3> QED
      BY <1>b, <2>0, <3>1, <3>2, <3>5
  <2> QED
    BY <1>7, <1>d, <2>0, <2>1 DEF UpdateProfile
<1>8. ASSUME NEW s \in Sync, EndSync(s) PROVE SyncInv'
  <2>1. Active(s) /\ SyncStep(s, IdleSync) /\ IdleSync.alone = FALSE
    BY <1>8 DEF EndSync, Synced, Active, IdleSync
  <2> QED
    BY <1>b, <2>1
<1>9. ASSUME NEW t \in Chooser, Look(t) \/ GetProfile(t) \/ SetProfileId(t) PROVE SyncInv'
  <2>1. UNCHANGED sync /\ (UNCHANGED db \/ Create(Default))
    BY <1>9 DEF Look, GetProfile, SetProfileId
  <2>2. CASE UNCHANGED db
    BY <2>1, <2>2 DEF SyncInv, Active, Progress
  <2>3. ASSUME Create(Default), NEW s \in Sync, Progress(s) PROVE Progress(s)'
    <3>1. /\ DOMAIN db' = DOMAIN db \cup {nextId} /\ nextId \notin DOMAIN db
          /\ db'[nextId] = Default /\ \A i \in DOMAIN db : db'[i] = db[i]
      BY <2>3 DEF Create, IdInv, StoreTypeOK
    <3>2. Default \notin Named(sync[s].remote)
      BY <1>a, StoreAssumption
    <3> QED
      BY <2>1, <2>3, <3>1, <3>2 DEF Progress
  <2> QED
    BY <2>1, <2>2, <2>3 DEF SyncInv, Active
<1>10. CASE UNCHANGED storeVars
  BY <1>10 DEF storeVars, SyncInv, Active, Progress
<1> QED
  BY <1>1, <1>2, <1>3, <1>4, <1>5, <1>6, <1>7, <1>8, <1>9, <1>10 DEF StoreNext

-----------------------------------------------------------------------------
\* The selected id never comes to be that of another server, for any number of threads
\* that synchronise and choose, servers, urls and rows.
THEOREM StoreSelectedIsMeant == StoreSpec => []SelectedIsMeant
<1>1. IdInv => SelectedIsMeant
  BY DEF IdInv, Names, SelectedIsMeant
<1> QED
  BY <1>1, StoreTypeInit, StoreTypeNext, IdInvInit, IdInvNext, PTL DEF StoreSpec

\* Two rows of one server are the work of two synchronisations at the same time, or of a
\* list that names the server twice.
THEOREM StoreNoNeedlessDuplicate == StoreSpec => []NoNeedlessDuplicate
<1>1. DupInv => NoNeedlessDuplicate
  BY DEF DupInv, NoNeedlessDuplicate
<1> QED
  BY <1>1, StoreTypeInit, StoreTypeNext, IdInvInit, IdInvNext, DupInvInit, DupInvNext, PTL
  DEF StoreSpec

\* A synchronisation that ran alone ends with the servers of its list.
THEOREM StoreSyncedIsRemote == StoreSpec => []SyncedIsRemote
<1>1. StoreTypeOK /\ SyncInv => SyncedIsRemote
  <2> SUFFICES ASSUME StoreTypeOK, SyncInv, NEW s \in Sync, Synced(s), sync[s].alone
               PROVE Addresses(db) \ {Default} = Named(sync[s].remote)
    BY DEF SyncedIsRemote
  <2>1. Progress(s) /\ sync[s].del = {} /\ sync[s].add = {}
    BY DEF SyncInv, Synced, Active
  <2>2. Default \notin Named(sync[s].remote)
    BY EntryFacts, StoreAssumption DEF StoreTypeOK, SyncType, Named
  <2> QED
    BY <2>1, <2>2 DEF Progress, Addresses, Named
<1> QED
  BY <1>1, StoreTypeInit, StoreTypeNext, IdInvInit, IdInvNext, SyncInvInit, SyncInvNext, PTL
  DEF StoreSpec

-----------------------------------------------------------------------------
(* The traffic that is added to a profile.                                 *)

\* The counters of a session, wherever a copy of them is: in ss-local, in a report that
\* waits or was read, and in current.
Counter(x) == x = flow \/ x = tx \/ x = current \/ \E i \in 1 .. Len(reports) : x = reports[i]

TrafficType ==
  /\ flow \in Nat /\ sent \in Nat /\ restarts \in Nat /\ tx \in Nat /\ current \in Nat
  /\ fetched \in Nat /\ profile \in Nat /\ reports \in Seq(Nat)
  /\ running \in BOOLEAN /\ announced \in BOOLEAN

\* NeverOvercharged is not inductive: a copy of a counter may be old, and is added to
\* what the profile had when persistStats() began.  While a session goes on what the
\* profile has, or had then, leaves room for every copy there is.
TrafficInv ==
  /\ TrafficType
  /\ main = "shutdown" => announced
  /\ main # "idle" => running
  /\ ~announced =>
       /\ profile <= sent
       /\ running => \A x \in Nat : Counter(x) => profile + x <= sent
       /\ main = "stop" => \A x \in Nat : Counter(x) => fetched + x <= sent

\* What only copies a counter, or leaves them all, keeps the invariant.
LEMMA CopyKeeps ==
  ASSUME TrafficInv, TrafficType',
         \A x \in Nat : Counter(x)' => Counter(x) \/ x = 0,
         UNCHANGED <<sent, running, fetched, profile, announced>>,
         main' = main \/ (main' \in {"copy", "clear", "idle"} /\ (main' # "idle" => running))
  PROVE  TrafficInv'
<1>1. ~announced /\ running => profile + 0 <= sent
  BY DEF TrafficInv, TrafficType
<1>2. ~announced /\ main = "stop" => fetched + 0 <= sent
  <2>1. flow \in Nat /\ sent \in Nat /\ fetched \in Nat /\ Counter(flow)
    BY DEF TrafficInv, TrafficType, Counter
  <2>2. ~announced /\ main = "stop" => fetched + flow <= sent
    BY <2>1 DEF TrafficInv
  <2> QED BY <2>1, <2>2
<1>3. main' = "stop" => main = "stop"
  OBVIOUS
<1>4. ~announced' /\ running' => \A x \in Nat : Counter(x)' => profile' + x <= sent'
  BY <1>1 DEF TrafficInv
<1>5. ~announced' /\ main' = "stop" => \A x \in Nat : Counter(x)' => fetched' + x <= sent'
  BY <1>2, <1>3 DEF TrafficInv
<1>6. (main' = "shutdown" => announced') /\ (main' # "idle" => running')
  BY DEF TrafficInv
<1>7. ~announced' => profile' <= sent'
  BY DEF TrafficInv
<1> QED BY <1>4, <1>5, <1>6, <1>7 DEF TrafficInv

\* ss-local counts and reports, or is replaced by another one.
LEMMA TrafficFlowInv ==
  ASSUME TrafficInv, FlowStep
  PROVE  TrafficInv'
<1>1. CASE Relay
  <2>1. TrafficType'
    BY <1>1 DEF Relay, TrafficInv, TrafficType, persistVars, threadVars
  <2>2. \A x \in Nat : Counter(x)' => Counter(x) \/ x = flow + 1
    BY <1>1 DEF Relay, Counter, threadVars
  <2>3. Counter(flow)
    BY DEF Counter
  <2>4. sent' = sent + 1 /\ UNCHANGED <<main, running, fetched, profile, announced>>
    BY <1>1 DEF Relay, persistVars
  <2>5. /\ flow \in Nat /\ sent \in Nat /\ fetched \in Nat /\ profile \in Nat
        /\ flow + 1 \in Nat
    BY DEF TrafficInv, TrafficType
  <2>6. ASSUME NEW p \in Nat, \A x \in Nat : Counter(x) => p + x <= sent
        PROVE  \A x \in Nat : Counter(x)' => p + x <= sent'
    <3> SUFFICES ASSUME NEW x \in Nat, Counter(x) \/ x = flow + 1
                 PROVE  p + x <= sent + 1
      BY <2>2, <2>4
    <3>1. p + flow <= sent /\ (Counter(x) => p + x <= sent)
      BY <2>3, <2>5, <2>6
    <3> QED BY <2>5, <3>1
  <2>7. profile <= sent => profile <= sent'
    BY <2>4, <2>5
  <2> QED BY <2>1, <2>4, <2>5, <2>6, <2>7 DEF TrafficInv
<1>2. CASE Report
  <2>1. TrafficType'
    BY <1>2, AppendProperties DEF Report, TrafficInv, TrafficType, persistVars, flowVars, threadVars
  <2>2. \A i \in 1 .. Len(reports') : reports'[i] = flow \/ \E j \in 1 .. Len(reports) : reports'[i] = reports[j]
    <3>1. flow \in Nat /\ reports \in Seq(Nat) /\ reports' = Append(reports, flow)
      BY <1>2 DEF Report, TrafficInv, TrafficType
    <3> QED BY <3>1, AppendProperties
  <2>3. \A x \in Nat : Counter(x)' => Counter(x)
    BY <1>2, <2>2 DEF Report, Counter, flowVars, threadVars
  <2>4. UNCHANGED <<sent, running, fetched, profile, announced, main>>
    BY <1>2 DEF Report, persistVars, flowVars
  <2> QED BY <2>1, <2>3, <2>4, CopyKeeps
<1>3. CASE Restart
  <2>1. TrafficType'
    BY <1>3 DEF Restart, TrafficInv, TrafficType, persistVars, threadVars
  <2>2. \A x \in Nat : Counter(x)' => Counter(x) \/ x = 0
    BY <1>3 DEF Restart, Counter, threadVars
  <2> QED BY <1>3, <2>1, <2>2, CopyKeeps DEF Restart, persistVars
<1> QED BY <1>1, <1>2, <1>3 DEF FlowStep

\* The monitor's thread takes a report over.
LEMMA TrafficThreadInv ==
  ASSUME TrafficInv, ThreadStep
  PROVE  TrafficInv'
<1>1. CASE Read
  <2>1. /\ Head(reports) \in Nat /\ Tail(reports) \in Seq(Nat) /\ Len(reports) \in Nat
        /\ Head(reports) = reports[1] /\ 1 \in 1 .. Len(reports)
        /\ \A i \in 1 .. Len(Tail(reports)) : i + 1 \in 1 .. Len(reports) /\ Tail(reports)[i] = reports[i + 1]
    BY <1>1, HeadTailProperties DEF Read, TrafficInv, TrafficType
  <2>2. TrafficType'
    BY <1>1, <2>1 DEF Read, TrafficInv, TrafficType, persistVars, flowVars, threadVars
  <2>3. \A x \in Nat : Counter(x)' => Counter(x)
    BY <1>1, <2>1 DEF Read, Counter, flowVars, threadVars
  <2> QED BY <1>1, <2>2, <2>3, CopyKeeps DEF Read, persistVars, flowVars
<1>2. CASE Compare
  <2>1. TrafficType'
    BY <1>2 DEF Compare, TrafficInv, TrafficType, persistVars, flowVars
  <2>2. \A x \in Nat : Counter(x)' => Counter(x)
    BY <1>2 DEF Compare, Counter, flowVars
  <2> QED BY <1>2, <2>1, <2>2, CopyKeeps DEF Compare, persistVars, flowVars
<1>3. CASE Mark
  <2>1. TrafficType'
    BY <1>3 DEF Mark, TrafficInv, TrafficType, persistVars, flowVars
  <2>2. \A x \in Nat : Counter(x)' => Counter(x)
    BY <1>3 DEF Mark, Counter, flowVars
  <2> QED BY <1>3, <2>1, <2>2, CopyKeeps DEF Mark, persistVars, flowVars
<1> QED BY <1>1, <1>2, <1>3 DEF ThreadStep

\* The main thread copies the counters and adds them to the profile.
LEMMA TrafficMainInv ==
  ASSUME TrafficInv, MainStep \/ requestUpdate
  PROVE  TrafficInv'
<1>1. CASE Copy \/ Clear \/ requestUpdate
  <2>1. /\ UNCHANGED <<flow, sent, restarts, reports, tx, current, fetched, profile, running, announced>>
        /\ main' = main \/ (main' \in {"copy", "clear", "idle"} /\ (main' # "idle" => running))
    BY <1>1 DEF Copy, Clear, requestUpdate, TrafficInv, persistVars, flowVars, threadVars
  <2>2. TrafficType' /\ \A x \in Nat : Counter(x)' => Counter(x)
    BY <2>1 DEF TrafficInv, TrafficType, Counter
  <2> QED BY <2>1, <2>2, CopyKeeps
<1>2. CASE updateProfile
  <2>0. running' \in BOOLEAN /\ profile' \in Nat
    <3>1. running' = TRUE \/ running' = FALSE
      BY <1>2, Zenon DEF updateProfile
    <3>2. profile' = fetched + current \/ profile' = profile
      BY <1>2, Zenon DEF updateProfile
    <3>3. profile' \in Nat
      BY <3>2 DEF TrafficInv, TrafficType
    <3> QED BY <3>1, <3>3
  <2>1. TrafficType'
    BY <1>2, <2>0 DEF updateProfile, TrafficInv, TrafficType, flowVars, threadVars
  <2>2. ~announced => main = "stop" /\ fetched + current <= sent /\ profile <= sent
    BY <1>2 DEF updateProfile, TrafficInv, TrafficType, Counter
  <2>3. UNCHANGED <<sent, announced>> /\ main' = "idle"
    BY <1>2 DEF updateProfile, flowVars
  <2>4. ~announced => ~running' /\ (profile' = profile \/ profile' = fetched + current)
    <3>1. profile' = profile \/ profile' = fetched + current
      BY <1>2, Zenon DEF updateProfile
    <3>2. ~announced => (main # "stop") = FALSE
      BY <2>2
    <3>3. ~announced => ~running'
      BY <1>2, <3>2, Zenon DEF updateProfile
    <3> QED BY <3>1, <3>3
  <2>5. ~announced' => profile' <= sent' /\ ~running'
    BY <2>2, <2>3, <2>4
  <2> QED BY <2>1, <2>3, <2>5 DEF TrafficInv
<1> QED BY <1>1, <1>2 DEF MainStep

\* A session begins or ends.
LEMMA TrafficOtherInv ==
  ASSUME TrafficInv, onShutdown \/ shutdown \/ start \/ syncProfiles \/ UNCHANGED vars
  PROVE  TrafficInv'
<1>1. CASE onShutdown
  BY <1>1 DEF onShutdown, persistStats, TrafficInv, TrafficType, flowVars, threadVars
<1>2. CASE shutdown
  <2>1. TrafficType'
    BY <1>2 DEF shutdown, persistStats, TrafficInv, TrafficType, flowVars, threadVars
  <2>2. \A x \in Nat : Counter(x)' => Counter(x)
    BY <1>2 DEF shutdown, persistStats, Counter, flowVars, threadVars
  <2> QED BY <1>2, <2>1, <2>2 DEF shutdown, persistStats, TrafficInv, flowVars
<1>3. CASE start
  <2>1. TrafficType'
    BY <1>3 DEF start, TrafficInv, TrafficType
  <2>2. \A x \in Nat : Counter(x)' => x = 0
    BY <1>3 DEF start, Counter
  <2>3. /\ UNCHANGED <<sent, fetched, profile, announced>> /\ main' = "idle" /\ running'
        /\ profile \in Nat /\ sent \in Nat
    BY <1>3 DEF start, TrafficInv, TrafficType
  <2>4. ~announced => profile <= sent
    BY DEF TrafficInv
  <2>5. ~announced => \A x \in Nat : Counter(x)' => profile' + x <= sent'
    BY <2>2, <2>3, <2>4
  <2> QED BY <2>1, <2>3, <2>4, <2>5 DEF TrafficInv
<1>4. CASE syncProfiles
  <2>1. TrafficType'
    BY <1>4 DEF syncProfiles, TrafficInv, TrafficType, flowVars, threadVars
  <2>2. \A x \in Nat : Counter(x)' => Counter(x)
    BY <1>4 DEF syncProfiles, Counter, flowVars, threadVars
  <2>3. /\ UNCHANGED <<sent, fetched, announced, running, main>> /\ profile' = 0
        /\ profile \in Nat /\ sent \in Nat
    BY <1>4 DEF syncProfiles, TrafficInv, TrafficType, flowVars
  <2>4. ~announced /\ running => \A x \in Nat : Counter(x)' => profile' + x <= sent'
    BY <2>2, <2>3 DEF TrafficInv
  <2>5. ~announced /\ main = "stop" => \A x \in Nat : Counter(x)' => fetched' + x <= sent'
    BY <2>2, <2>3 DEF TrafficInv
  <2>6. (main = "shutdown" => announced) /\ (main # "idle" => running)
    BY DEF TrafficInv
  <2> QED BY <2>1, <2>3, <2>4, <2>5, <2>6 DEF TrafficInv
<1>5. CASE UNCHANGED vars
  BY <1>5 DEF vars, flowVars, threadVars, persistVars, TrafficInv, TrafficType, Counter
<1> QED BY <1>1, <1>2, <1>3, <1>4, <1>5

\* However the reports, the monitor's thread, the restarts of ss-local, the end of the
\* sessions and the synchronisation of profiles interleave, persistStats() and
\* shutdown() never add to a profile what was not relayed for it.
THEOREM TrafficNeverOvercharged == Spec => []NeverOvercharged
<1>1. Init => TrafficInv
  <2> SUFFICES ASSUME Init PROVE TrafficInv
    OBVIOUS
  <2>1. TrafficType
    <3>1. reports \in Seq(Nat)
      BY DEF Init
    <3>2. /\ flow \in Nat /\ sent \in Nat /\ restarts \in Nat /\ tx \in Nat /\ current \in Nat
          /\ fetched \in Nat /\ profile \in Nat
      BY DEF Init
    <3>3. running \in BOOLEAN /\ announced \in BOOLEAN
      BY DEF Init
    <3> QED BY <3>1, <3>2, <3>3 DEF TrafficType
  <2>2. profile <= sent /\ ~running /\ main = "idle"
    BY DEF Init
  <2> QED BY <2>1, <2>2 DEF TrafficInv
<1>2. TrafficInv /\ [Next]_vars => TrafficInv'
  BY TrafficFlowInv, TrafficThreadInv, TrafficMainInv, TrafficOtherInv DEF Next
<1>3. TrafficInv => NeverOvercharged
  BY DEF TrafficInv, NeverOvercharged
<1> QED BY <1>1, <1>2, <1>3, PTL DEF Spec
=============================================================================
