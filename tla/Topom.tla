------------------------------- MODULE Topom -------------------------------
(***************************************************************************)
(* The dashboard service of one product (src/topom/group.go, sentinel.go): *)
(* every request that changes the groups or the sentinels, the goroutine   *)
(* that follows the sentinels' failovers, and a crash of the process at    *)
(* any point, followed by a restart from the coordinator.                  *)
(*                                                                         *)
(* A request holds service.mutex from its first check to its return, so at *)
(* most one is in progress: op says which, and at which step.  Each action *)
(* is one external effect of a request (a write to the coordinator, a      *)
(* command to a sentinel or to a server) with the assignments that precede *)
(* it, so a crash or an external event may fall between any two effects.   *)
(*                                                                         *)
(* The mappers' Info() hands out the cached record itself, so a handler    *)
(* that assigns to its fields changes the cache before the write and       *)
(* leaves it changed when the write fails: Update.  Only a handler that    *)
(* builds a new record changes the cache after a successful write:         *)
(* Replace.                                                                *)
(*                                                                         *)
(* A request refused by its checks changes nothing and is not an action.   *)
(* Left out: the refresh of the load balancers' records that ends          *)
(* AddGroupServer, DelGroupServer and trySwitchGroupMaster, which touches  *)
(* none of this module's variables, and s.ha.masters, which only the       *)
(* statistics page reads.                                                  *)
(***************************************************************************)
EXTENDS Dao

CONSTANTS WriteFaults,  \* how a coordinator write may fail: a subset of
                        \* {"refused", "applied"}
          MaxPending    \* bound: answers of Masters waiting for the mutex

ASSUME WriteFaultsAssumption == WriteFaults \subseteq {"refused", "applied"}

ASSUME MaxPendingAssumption == MaxPending \in Nat

VARIABLES
  store,      \* coordinator: the record of each group
  storeSen,   \* coordinator: the record of the sentinels
  mem,        \* groupMapper.groups
  memSen,     \* sentinelMapper.sentinel
  op,         \* the request that holds service.mutex
  jobs,       \* resyncGroup in progress, per group
  watch,      \* sentinels of the current watcher, {} if there is none
  pending,    \* answers of Masters past the IsCanceled check
  todo,       \* switchMasters in progress: masters still to be tried
  role,       \* servers: the master each replicates from, None for a master
  monitored   \* sentinels: the master each has for each group, None if not
              \* monitored

persisted == <<store, storeSen>>
cached    == <<mem, memSen>>
watcher   == <<watch, pending, todo>>
outside   == <<role, monitored>>
vars == <<store, storeSen, mem, memSen, op, jobs, watch, pending, todo,
          role, monitored>>

-----------------------------------------------------------------------------
(* Requests.                                                               *)

Steps == {"idle", "add", "del", "promote", "promote.unwatch", "promote.swap",
          "promote.sync", "resync", "resyncall", "delsen.remove",
          "delsen.drop", "ressen.remove", "ressen.monitor", "ressen.clear",
          "switch"}

At(pc, g, a) == [pc |-> pc, g |-> g, a |-> a]
Idle == At("idle", None, None)

JobSteps == {"none", "reset", "sync", "ok", "err"}

Job(pc, next, failed) == [pc |-> pc, next |-> next, failed |-> failed]
NoJob == Job("none", 0, FALSE)

-----------------------------------------------------------------------------
(* The coordinator.  A write succeeds, is refused, or takes effect and     *)
(* still returns an error (a lost answer).                                 *)

Outcomes == {"ok"} \cup WriteFaults

Written(old, new, o) == IF o = "refused" THEN old ELSE new

(* groupMapper.Update of the cached record, changed in place to rec.       *)
Update(g, rec, o) ==
  /\ mem' = [mem EXCEPT ![g] = rec]
  /\ store' = [store EXCEPT ![g] = Written(store[g], rec, o)]

(* groupMapper.Create, Update or Remove (rec = None) of a record that is   *)
(* not the cached one.                                                     *)
Replace(g, rec, o) ==
  /\ mem' = IF o = "ok" THEN [mem EXCEPT ![g] = rec] ELSE mem
  /\ store' = [store EXCEPT ![g] = Written(store[g], rec, o)]

(* sentinelMapper.Update of the cached record, changed in place to rec.    *)
UpdateSentinel(rec, o) ==
  /\ memSen' = rec
  /\ storeSen' = Written(storeSen, rec, o)

(* if err := ...; err != nil { return err }                                *)
ContinueWith(o, next) == op' = IF o = "ok" THEN next ELSE Idle

(* Mutant of outOfSyncBySentinel: the flag is set and not written.         *)
outOfSyncUnsaved(next) ==
  /\ memSen' = [memSen EXCEPT !.oos = memSen.servers # <<>>]
  /\ op' = next
  /\ UNCHANGED storeSen

outOfSyncBySentinel(next) ==
  \/ /\ memSen.servers = <<>>
     /\ op' = next
     /\ UNCHANGED <<memSen, storeSen>>
  \/ /\ memSen.servers # <<>>
     /\ \E o \in Outcomes :
          /\ UpdateSentinel([memSen EXCEPT !.oos = TRUE], o)
          /\ ContinueWith(o, next)

-----------------------------------------------------------------------------
(* Groups.                                                                 *)

(* Mutant of CreateGroup: the write port is not compared.                  *)
CreateGroupReadPort(g, rPort, wPort) ==
  /\ op = Idle
  /\ rPort # wPort
  /\ mem[g] = None
  /\ \A h \in Groups : mem[h] # None => rPort \notin {mem[h].rPort, mem[h].wPort}
  /\ \E o \in Outcomes : Replace(g, FreshGroup(<<>>, rPort, wPort), o)
  /\ UNCHANGED <<storeSen, memSen, op, jobs, watcher, outside>>

CreateGroup(g, rPort, wPort) ==
  /\ op = Idle
  /\ rPort # wPort
  /\ mem[g] = None
  /\ \A h \in Groups : mem[h] # None =>
       {rPort, wPort} \cap {mem[h].rPort, mem[h].wPort} = {}
  /\ \E o \in Outcomes : Replace(g, FreshGroup(<<>>, rPort, wPort), o)
  /\ UNCHANGED <<storeSen, memSen, op, jobs, watcher, outside>>

RemoveGroup(g) ==
  /\ op = Idle
  /\ mem[g] # None
  /\ mem[g].servers = <<>>
  /\ \E o \in Outcomes : Replace(g, None, o)
  /\ UNCHANGED <<storeSen, memSen, op, jobs, watcher, outside>>

(* Mutant of AddGroupServer: only the group itself is searched.            *)
AddGroupServerOwnGroup(g, addr) ==
  /\ op = Idle
  /\ mem[g] # None
  /\ addr \notin ToSet(mem[g].servers)
  /\ outOfSyncBySentinel(At("add", g, addr))
  /\ UNCHANGED <<store, mem, jobs, watcher, outside>>

AddGroupServer(g, addr) ==
  /\ op = Idle
  /\ \A h \in Groups : mem[h] # None => addr \notin ToSet(mem[h].servers)
  /\ mem[g] # None
  /\ outOfSyncBySentinel(At("add", g, addr))
  /\ UNCHANGED <<store, mem, jobs, watcher, outside>>

AppendServer ==
  /\ op.pc = "add"
  /\ \E o \in Outcomes :
       Update(op.g, [mem[op.g] EXCEPT !.servers = Append(@, op.a)], o)
  /\ op' = Idle
  /\ UNCHANGED <<storeSen, memSen, jobs, watcher, outside>>

(* Mutant of DelGroupServer: a master with replicas may be removed.        *)
DelGroupServerAny(g, addr) ==
  /\ op = Idle
  /\ mem[g] # None
  /\ addr \in ToSet(mem[g].servers)
  /\ outOfSyncBySentinel(At("del", g, addr))
  /\ UNCHANGED <<store, mem, jobs, watcher, outside>>

DelGroupServer(g, addr) ==
  /\ op = Idle
  /\ mem[g] # None
  /\ addr \in ToSet(mem[g].servers)
  /\ GetServerIndex(mem[g], addr) = 1 => Len(mem[g].servers) = 1
  /\ outOfSyncBySentinel(At("del", g, addr))
  /\ UNCHANGED <<store, mem, jobs, watcher, outside>>

(* Mutant of RemoveServer: the flag is not reset with the last server.     *)
RemoveServerKeepFlag ==
  /\ op.pc = "del"
  /\ LET g == mem[op.g]
         i == GetServerIndex(g, op.a)
     IN \E o \in Outcomes :
          Update(op.g, [g EXCEPT !.servers = RemoveAt(@, i),
                                 !.oos = i # 1 \/ @], o)
  /\ op' = Idle
  /\ UNCHANGED <<storeSen, memSen, jobs, watcher, outside>>

RemoveServer ==
  /\ op.pc = "del"
  /\ LET g == mem[op.g]
         i == GetServerIndex(g, op.a)
         left == RemoveAt(g.servers, i)
     IN \E o \in Outcomes :
          Update(op.g, [g EXCEPT !.servers = left,
                                 !.oos = left # <<>> /\ (i # 1 \/ @)], o)
  /\ op' = Idle
  /\ UNCHANGED <<storeSen, memSen, jobs, watcher, outside>>

-----------------------------------------------------------------------------
(* resyncGroup: tell every server of a group which master to replicate     *)
(* from.  Run by ResyncGroup and ResyncGroupAll, which first clear the     *)
(* group's out-of-sync flag, and by a promotion, which does not.           *)

ResetOutOfSync(g) ==
  /\ jobs[g].pc = "reset"
  /\ \E o \in Outcomes :
       /\ Update(g, [mem[g] EXCEPT !.oos = FALSE], o)
       /\ jobs' = [jobs EXCEPT ![g] =
                     IF o = "ok" THEN Job("sync", 1, FALSE)
                                 ELSE Job("err", 0, FALSE)]
  /\ UNCHANGED <<storeSen, memSen, op, watcher, outside>>

(* CONFIG SET, SLAVEOF, CONFIG REWRITE: an error may come before or after  *)
(* the SLAVEOF took effect.                                                *)
SetMaster(addr, master, failed) ==
  \/ role' = [role EXCEPT ![addr] = master]
  \/ failed /\ role' = role

(* One server of the group, by its place in the list.                      *)
doSyncAction(g) ==
  LET servers == mem[g].servers
      i == jobs[g].next
  IN /\ jobs[g].pc = "sync"
     /\ i <= Len(servers)
     /\ \E failed \in BOOLEAN :
          /\ SetMaster(servers[i], IF i = 1 THEN None ELSE servers[1], failed)
          /\ jobs' = [jobs EXCEPT ![g] = Job("sync", i + 1, @.failed \/ failed)]
     /\ UNCHANGED <<persisted, cached, op, watcher, monitored>>

(* The end of resyncGroup: a server that failed marks the group out of     *)
(* sync; resyncGroup then returns an error whether or not that write did.  *)
resyncGroupEnd(g) ==
  /\ jobs[g].pc = "sync"
  /\ jobs[g].next > Len(mem[g].servers)
  /\ \/ /\ ~jobs[g].failed
        /\ jobs' = [jobs EXCEPT ![g] = Job("ok", 0, FALSE)]
        /\ UNCHANGED <<store, mem>>
     \/ /\ jobs[g].failed
        /\ jobs' = [jobs EXCEPT ![g] = Job("err", 0, FALSE)]
        /\ \E o \in Outcomes : Update(g, [mem[g] EXCEPT !.oos = TRUE], o)
  /\ UNCHANGED <<storeSen, memSen, op, watcher, outside>>

ResyncGroup(g) ==
  /\ op = Idle
  /\ mem[g] # None
  /\ op' = At("resync", g, None)
  /\ jobs' = [jobs EXCEPT ![g] = Job("reset", 0, FALSE)]
  /\ UNCHANGED <<persisted, cached, watcher, outside>>

ResyncGroupReturn ==
  /\ op.pc = "resync"
  /\ jobs[op.g].pc \in {"ok", "err"}
  /\ op' = Idle
  /\ jobs' = [jobs EXCEPT ![op.g] = NoJob]
  /\ UNCHANGED <<persisted, cached, watcher, outside>>

(* One goroutine per group, all at the same time, the mutex held.          *)
ResyncGroupAll ==
  /\ op = Idle
  /\ op' = At("resyncall", None, None)
  /\ jobs' = [g \in Groups |->
                IF mem[g] # None THEN Job("reset", 0, FALSE) ELSE NoJob]
  /\ UNCHANGED <<persisted, cached, watcher, outside>>

(* fut.Wait() returns once every fut.Add() has its fut.Done(), which a     *)
(* goroutine calls only on an error.                                       *)
ResyncGroupAllReturn ==
  /\ op.pc = "resyncall"
  /\ \A g \in Groups : mem[g] # None => jobs[g].pc = "err"
  /\ op' = Idle
  /\ jobs' = [g \in Groups |-> NoJob]
  /\ UNCHANGED <<persisted, cached, watcher, outside>>

-----------------------------------------------------------------------------
(* GroupPromoteServer: the switch over Promoting.State, whose cases fall   *)
(* through.  A request that failed or was cut short leaves the state it    *)
(* reached; the next one for the same server goes on from there.           *)

(* Mutant of GroupPromoteServer: an unfinished promotion is resumed for    *)
(* whichever server the request names.                                     *)
GroupPromoteAnyServer(g, addr) ==
  /\ op = Idle
  /\ mem[g] # None
  /\ addr \in ToSet(mem[g].servers)
  /\ GetServerIndex(mem[g], addr) # 1
  /\ mem[g].pIndex < Len(mem[g].servers)
  /\ op' = At("promote", g, addr)
  /\ UNCHANGED <<persisted, cached, jobs, watcher, outside>>

GroupPromoteServer(g, addr) ==
  /\ op = Idle
  /\ mem[g] # None
  /\ addr \in ToSet(mem[g].servers)
  /\ LET index == GetServerIndex(mem[g], addr) - 1
     IN IF mem[g].pState # ActionNothing THEN index = mem[g].pIndex
                                         ELSE index # 0
  /\ op' = At("promote", g, addr)
  /\ UNCHANGED <<persisted, cached, jobs, watcher, outside>>

PromoteNothing ==
  /\ op.pc = "promote"
  /\ mem[op.g].pState = ActionNothing
  /\ \E o \in Outcomes :
       /\ Update(op.g, [mem[op.g] EXCEPT
                          !.pIndex = GetServerIndex(mem[op.g], op.a) - 1,
                          !.pState = ActionPreparing], o)
       /\ ContinueWith(o, op)
  /\ UNCHANGED <<storeSen, memSen, jobs, watcher, outside>>

PromotePreparing ==
  /\ op.pc = "promote"
  /\ mem[op.g].pState = ActionPreparing
  /\ \E o \in Outcomes :
       /\ Update(op.g, [mem[op.g] EXCEPT !.pState = ActionPrepared], o)
       /\ ContinueWith(o, op)
  /\ UNCHANGED <<storeSen, memSen, jobs, watcher, outside>>

PromotePrepared ==
  /\ op.pc = "promote"
  /\ mem[op.g].pState = ActionPrepared
  /\ \/ /\ memSen.servers = <<>>
        /\ op' = [op EXCEPT !.pc = "promote.swap"]
        /\ UNCHANGED <<memSen, storeSen>>
     \/ /\ memSen.servers # <<>>
        /\ \E o \in Outcomes :
             /\ UpdateSentinel([memSen EXCEPT !.oos = TRUE], o)
             /\ ContinueWith(o, [op EXCEPT !.pc = "promote.unwatch"])
  /\ UNCHANGED <<store, mem, jobs, watcher, outside>>

(* SENTINEL remove of one group, on several sentinels at once: any of them *)
(* may not have done it.                                                   *)
RemoveGroups(sentinels, g) ==
  \E done \in SUBSET sentinels :
    monitored' = [s \in Sentinels |->
      IF s \in done THEN [monitored[s] EXCEPT ![g] = None] ELSE monitored[s]]

(* An error of RemoveGroups is only logged.                                *)
PromoteUnwatch ==
  /\ op.pc = "promote.unwatch"
  /\ RemoveGroups(ToSet(memSen.servers), op.g)
  /\ op' = [op EXCEPT !.pc = "promote.swap"]
  /\ UNCHANGED <<persisted, cached, jobs, watcher, role>>

(* Mutant of PromoteSwap: a failed write is only logged.                   *)
PromoteSwapUnchecked ==
  /\ op.pc = "promote.swap"
  /\ LET g == mem[op.g]
     IN \E o \in Outcomes :
          Update(op.g, [g EXCEPT !.servers = SwapMaster(@, g.pIndex + 1),
                                 !.pIndex = 0,
                                 !.pState = ActionFinished], o)
  /\ op' = [op EXCEPT !.pc = "promote.sync"]
  /\ jobs' = [jobs EXCEPT ![op.g] = Job("sync", 1, FALSE)]
  /\ UNCHANGED <<storeSen, memSen, watcher, outside>>

PromoteSwap ==
  /\ op.pc = "promote.swap"
  /\ LET g == mem[op.g]
     IN \E o \in Outcomes :
          /\ Update(op.g, [g EXCEPT !.servers = SwapMaster(@, g.pIndex + 1),
                                    !.pIndex = 0,
                                    !.pState = ActionFinished], o)
          /\ ContinueWith(o, [op EXCEPT !.pc = "promote.sync"])
          /\ jobs' = IF o = "ok"
                     THEN [jobs EXCEPT ![op.g] = Job("sync", 1, FALSE)]
                     ELSE jobs
  /\ UNCHANGED <<storeSen, memSen, watcher, outside>>

(* Mutant of PromoteSynced: the promotion waits for a resync without error. *)
PromoteSyncedOk ==
  /\ op.pc = "promote.sync"
  /\ jobs[op.g].pc = "ok"
  /\ jobs' = [jobs EXCEPT ![op.g] = NoJob]
  /\ op' = [op EXCEPT !.pc = "promote"]
  /\ UNCHANGED <<persisted, cached, watcher, outside>>

(* An error of resyncGroup is only logged.                                 *)
PromoteSynced ==
  /\ op.pc = "promote.sync"
  /\ jobs[op.g].pc \in {"ok", "err"}
  /\ jobs' = [jobs EXCEPT ![op.g] = NoJob]
  /\ op' = [op EXCEPT !.pc = "promote"]
  /\ UNCHANGED <<persisted, cached, watcher, outside>>

PromoteFinished ==
  /\ op.pc = "promote"
  /\ mem[op.g].pState = ActionFinished
  /\ LET g == mem[op.g]
     IN \E o \in Outcomes :
          Replace(op.g, FreshGroup(g.servers, g.rPort, g.wPort), o)
  /\ op' = Idle
  /\ UNCHANGED <<storeSen, memSen, jobs, watcher, outside>>

(* SLAVEOF NO ONE, then SLAVEOF master force: an error may come before,    *)
(* between or after them.                                                  *)
ForceFullSyncFromMaster(addr, master) ==
  \E r \in {role[addr], None, master} : role' = [role EXCEPT ![addr] = r]

GroupForceFullSyncServer(g, addr) ==
  /\ op = Idle
  /\ mem[g] # None
  /\ addr \in ToSet(mem[g].servers)
  /\ addr # mem[g].servers[1]
  /\ mem[g].pState = ActionNothing
  /\ ForceFullSyncFromMaster(addr, mem[g].servers[1])
  /\ UNCHANGED <<persisted, cached, op, jobs, watcher, monitored>>

-----------------------------------------------------------------------------
(* Sentinels.                                                              *)

(* FlushConfig makes the sentinel rewrite its configuration file: a        *)
(* sentinel that does not answer refuses the request.                      *)
AddSentinel(addr) ==
  /\ op = Idle
  /\ addr \notin ToSet(memSen.servers)
  /\ \E o \in Outcomes :
       UpdateSentinel([servers |-> Append(memSen.servers, addr),
                       oos |-> TRUE], o)
  /\ UNCHANGED <<store, mem, op, jobs, watcher, outside>>

DelSentinel(addr) ==
  /\ op = Idle
  /\ addr \in ToSet(memSen.servers)
  /\ \E o \in Outcomes :
       /\ UpdateSentinel([memSen EXCEPT !.oos = TRUE], o)
       /\ ContinueWith(o, At("delsen.remove", None, addr))
  /\ UNCHANGED <<store, mem, jobs, watcher, outside>>

(* SENTINEL masters, then SENTINEL remove of those of the product, on      *)
(* several sentinels at once, each possibly cut short.                     *)
RemoveGroupsAll(sentinels) ==
  \E gone \in SUBSET (sentinels \X Groups) :
    monitored' = [s \in Sentinels |-> [g \in Groups |->
      IF <<s, g>> \in gone THEN None ELSE monitored[s][g]]]

(* After an error, with any of the groups removed, only a forced request   *)
(* goes on.                                                                *)
DelSentinelRemove ==
  /\ op.pc = "delsen.remove"
  /\ RemoveGroupsAll({op.a})
  /\ op' \in {Idle, At("delsen.drop", None, op.a)}
  /\ UNCHANGED <<persisted, cached, jobs, watcher, role>>

DelSentinelDrop ==
  /\ op.pc = "delsen.drop"
  /\ LET i == CHOOSE j \in DOMAIN memSen.servers : memSen.servers[j] = op.a
     IN \E o \in Outcomes :
          UpdateSentinel([memSen EXCEPT !.servers = RemoveAt(@, i)], o)
  /\ op' = Idle
  /\ UNCHANGED <<store, mem, jobs, watcher, outside>>

ResyncSentinels ==
  /\ op = Idle
  /\ \E o \in Outcomes :
       /\ UpdateSentinel([memSen EXCEPT !.oos = TRUE], o)
       /\ ContinueWith(o, At("ressen.remove", None, None))
  /\ UNCHANGED <<store, mem, jobs, watcher, outside>>

(* An error of RemoveGroupsAll is only logged.                             *)
ResyncSentinelsRemove ==
  /\ op.pc = "ressen.remove"
  /\ RemoveGroupsAll(ToSet(memSen.servers))
  /\ op' = [op EXCEPT !.pc = "ressen.monitor"]
  /\ UNCHANGED <<persisted, cached, jobs, watcher, role>>

(* MonitorGroups of Groups.GetMasters(): on each sentinel SENTINEL remove, *)
(* then SENTINEL monitor, of every group with a master.  It returns nil    *)
(* only when every sentinel did all of it.                                 *)
Monitors(done, gone) ==
  [s \in Sentinels |-> [g \in Groups |->
     CASE <<s, g>> \in done -> mem[g].servers[1]
       [] <<s, g>> \in gone \ done -> None
       [] OTHER -> monitored[s][g]]]

ResyncSentinelsMonitor ==
  /\ op.pc = "ressen.monitor"
  /\ LET all == ToSet(memSen.servers) \X {g \in Groups : HasMaster(mem[g])}
     IN \/ /\ monitored' = Monitors(all, {})
           /\ watch' = ToSet(memSen.servers)          \* reWatchSentinels
           /\ op' = [op EXCEPT !.pc = "ressen.clear"]
        \/ /\ \E done, gone \in SUBSET all : monitored' = Monitors(done, gone)
           /\ watch' = watch
           /\ op' = Idle
  /\ UNCHANGED <<persisted, cached, jobs, pending, todo, role>>

ResyncSentinelsClear ==
  /\ op.pc = "ressen.clear"
  /\ \E o \in Outcomes : UpdateSentinel([memSen EXCEPT !.oos = FALSE], o)
  /\ op' = Idle
  /\ UNCHANGED <<store, mem, jobs, watcher, outside>>

-----------------------------------------------------------------------------
(* The watcher's second goroutine: it asks the sentinels for the masters,  *)
(* checks that it is not cancelled and waits for the mutex.  A cancelled   *)
(* watcher's answer that passed the check is still applied.                *)

NoMasters == [g \in Groups |-> None]

(* Masters: the answers of a majority, for each group one of theirs.       *)
Masters(masters) ==
  \E voted \in SUBSET watch :
    /\ 2 * Cardinality(voted) > Cardinality(watch)
    /\ \A g \in Groups :
         LET told == {monitored[s][g] : s \in voted} \ {None}
         IN IF told = {} THEN masters[g] = None ELSE masters[g] \in told

Fetch ==
  /\ watch # {}
  /\ Cardinality(pending) < MaxPending
  /\ \E masters \in [Groups -> Addrs \cup {None}] :
       /\ Masters(masters)
       /\ pending' = pending \cup {masters}
  /\ UNCHANGED <<persisted, cached, op, jobs, watch, todo, outside>>

switchMasters ==
  /\ op = Idle
  /\ \E masters \in pending :
       /\ todo' = masters
       /\ pending' = pending \ {masters}
  /\ op' = At("switch", None, None)
  /\ UNCHANGED <<persisted, cached, jobs, watch, outside>>

(* The index of the new master: that of the reported address, else that of *)
(* any server that answers with the same run id, else none (index 0 here). *)
NewMasterIndexes(servers, addr) ==
  IF addr \in ToSet(servers) THEN {i \in DOMAIN servers : servers[i] = addr}
                             ELSE {0} \cup DOMAIN servers

(* Mutant of trySwitchGroupMaster: the group is not marked.                *)
trySwitchUnmarked(g) ==
  /\ op.pc = "switch"
  /\ todo[g] # None
  /\ todo' = [todo EXCEPT ![g] = None]
  /\ mem[g] # None
  /\ \E i \in NewMasterIndexes(mem[g].servers, todo[g]) \ {0}, o \in Outcomes :
       Update(g, [mem[g] EXCEPT !.servers = SwapMaster(@, i)], o)
  /\ UNCHANGED <<storeSen, memSen, op, jobs, watch, pending, outside>>

trySwitchGroupMaster(g) ==
  /\ op.pc = "switch"
  /\ todo[g] # None
  /\ todo' = [todo EXCEPT ![g] = None]
  /\ \/ /\ mem[g] = None
        /\ UNCHANGED <<store, mem>>
     \/ /\ mem[g] # None
        /\ \E i \in NewMasterIndexes(mem[g].servers, todo[g]) :
             \/ /\ i <= 1
                /\ UNCHANGED <<store, mem>>
             \/ /\ i > 1
                /\ \E o \in Outcomes :
                     Update(g, [mem[g] EXCEPT !.servers = SwapMaster(@, i),
                                              !.oos = TRUE], o)
  /\ UNCHANGED <<storeSen, memSen, op, jobs, watch, pending, outside>>

switchMastersReturn ==
  /\ op.pc = "switch"
  /\ todo = NoMasters
  /\ op' = Idle
  /\ UNCHANGED <<persisted, cached, jobs, watcher, outside>>

-----------------------------------------------------------------------------
(* Outside the service.                                                    *)

(* Some sentinels elect a, a replica of the master m they have for g, and  *)
(* make it the master; some of the others follow it.                       *)
Failover(g, m, a) ==
  /\ a # m
  /\ role[a] = m
  /\ \E who \in SUBSET {s \in Sentinels : monitored[s][g] = m} :
       /\ who # {}
       /\ monitored' = [s \in Sentinels |->
            IF s \in who THEN [monitored[s] EXCEPT ![g] = a] ELSE monitored[s]]
  /\ \E follow \in SUBSET ({m} \cup {x \in Addrs : role[x] = m}) :
       role' = [x \in Addrs |-> IF x = a THEN None
                                ELSE IF x \in follow THEN a ELSE role[x]]
  /\ UNCHANGED <<persisted, cached, op, jobs, watcher>>

(* The process dies at any point; the next one loads the mappers' caches   *)
(* and Start() watches the sentinels of the record.                        *)
Restart ==
  /\ mem' = store
  /\ memSen' = storeSen
  /\ op' = Idle
  /\ jobs' = [g \in Groups |-> NoJob]
  /\ watch' = ToSet(storeSen.servers)
  /\ pending' = {}
  /\ todo' = NoMasters
  /\ UNCHANGED <<persisted, outside>>

-----------------------------------------------------------------------------
Init ==
  /\ store = [g \in Groups |-> None]
  /\ storeSen = [servers |-> <<>>, oos |-> FALSE]
  /\ mem = store
  /\ memSen = storeSen
  /\ op = Idle
  /\ jobs = [g \in Groups |-> NoJob]
  /\ watch = {}
  /\ pending = {}
  /\ todo = NoMasters
  /\ role = [a \in Addrs |-> None]
  /\ monitored = [s \in Sentinels |-> NoMasters]

Request ==
  \/ \E g \in Groups :
       \/ \E r, w \in Ports : CreateGroup(g, r, w)
       \/ RemoveGroup(g)
       \/ ResyncGroup(g)
       \/ \E a \in Addrs : \/ AddGroupServer(g, a)
                           \/ DelGroupServer(g, a)
                           \/ GroupPromoteServer(g, a)
                           \/ GroupForceFullSyncServer(g, a)
  \/ ResyncGroupAll
  \/ \E s \in Sentinels : AddSentinel(s) \/ DelSentinel(s)
  \/ ResyncSentinels
  \/ switchMasters

(* The steps of a request that has the mutex.                              *)
Step ==
  \/ AppendServer
  \/ RemoveServer
  \/ \E g \in Groups : \/ ResetOutOfSync(g)
                       \/ doSyncAction(g)
                       \/ resyncGroupEnd(g)
                       \/ trySwitchGroupMaster(g)
  \/ ResyncGroupReturn
  \/ ResyncGroupAllReturn
  \/ PromoteNothing
  \/ PromotePreparing
  \/ PromotePrepared
  \/ PromoteUnwatch
  \/ PromoteSwap
  \/ PromoteSynced
  \/ PromoteFinished
  \/ DelSentinelRemove
  \/ DelSentinelDrop
  \/ ResyncSentinelsRemove
  \/ ResyncSentinelsMonitor
  \/ ResyncSentinelsClear
  \/ switchMastersReturn

Environment ==
  \/ Fetch
  \/ \E g \in Groups : \E m, a \in Addrs : Failover(g, m, a)
  \/ Restart

Next == Request \/ Step \/ Environment

Spec == Init /\ [][Next]_vars

(* Every call a request makes has a timeout (10 s to a server, the         *)
(* coordinator's and the sentinels' client timeouts), so a request that    *)
(* can take a step takes one.                                              *)
FairSpec == Spec /\ WF_vars(Step)
-----------------------------------------------------------------------------
(* Properties.                                                             *)

TypeOK ==
  /\ store \in [Groups -> Group \cup {None}]
  /\ mem \in [Groups -> Group \cup {None}]
  /\ storeSen \in Sentinel
  /\ memSen \in Sentinel
  /\ op \in [pc : Steps, g : Groups \cup {None},
             a : Addrs \cup Sentinels \cup {None}]
  /\ jobs \in [Groups -> [pc : JobSteps, next : Nat, failed : BOOLEAN]]
  /\ watch \subseteq Sentinels
  /\ pending \subseteq [Groups -> Addrs \cup {None}]
  /\ todo \in [Groups -> Addrs \cup {None}]
  /\ role \in [Addrs -> Addrs \cup {None}]
  /\ monitored \in [Sentinels -> [Groups -> Addrs \cup {None}]]

(* What every record keeps, cached or stored, through failed writes and    *)
(* crashes: a server is listed once, Promoting.Index is set exactly while  *)
(* the swap of a promotion is still to come, and a group without servers   *)
(* is never out of sync (RemoveGroup asks only that it has no server).     *)
WellFormed(g) ==
  /\ IsInjective(g.servers)
  /\ g.pIndex # 0 <=> g.pState \in {ActionPreparing, ActionPrepared}
  /\ g.oos => g.servers # <<>>

(* Every record of groupMapper and of the coordinator is well formed.      *)
GroupsWellFormed ==
  \A g \in Groups : /\ mem[g] # None => WellFormed(mem[g])
                    /\ store[g] # None => WellFormed(store[g])

(* resyncGroup only sends SLAVEOF commands that the stored record orders:  *)
(* while it runs, a process that restarts would send the same ones.        *)
SyncFollowsStore ==
  \A g \in Groups : jobs[g].pc = "sync" => mem[g] # None /\ store[g] = mem[g]

(* What the load balancers and the dashboard's users see of a record.      *)
Views == [servers : Seq(Addrs), rPort : Ports, wPort : Ports]

ASSUME ViewsAssumption == None \notin Views

View(g) ==
  IF g = None THEN None
  ELSE [servers |-> g.servers, rPort |-> g.rPort, wPort |-> g.wPort]

Registry == INSTANCE GroupRegistry WITH groups <- [g \in Groups |-> View(store[g])]

(* While no write to the coordinator fails, the stored groups change only  *)
(* as a GroupRegistry does, although requests take several writes, a crash *)
(* may cut any of them short and failovers come between them.              *)
RefinesRegistry == Registry!Spec

(* AddGroupServer's check keeps a server out of two groups, across crashes *)
(* of the process.                                                         *)
ServersDisjoint ==
  \A g, h \in Groups :
    g # h /\ store[g] # None /\ store[h] # None =>
      ToSet(store[g].servers) \cap ToSet(store[h].servers) = {}

(* CreateGroup's check keeps a proxy port out of two groups.               *)
PortsDisjoint ==
  \A g, h \in Groups :
    g # h /\ store[g] # None /\ store[h] # None =>
      {store[g].rPort, store[g].wPort} \cap {store[h].rPort, store[h].wPort} = {}

(* Sentinel.OutOfSync: when the stored record does not carry the flag,     *)
(* every sentinel of the record monitors every group that has a master.    *)
(* Whatever takes a group away from a sentinel, or gives a group its first *)
(* master, has stored the flag before, whichever calls fail and wherever   *)
(* the process stops.                                                      *)
InSyncMeansMonitored ==
  ~storeSen.oos =>
    \A s \in ToSet(storeSen.servers), g \in Groups :
      HasMaster(store[g]) => monitored[s][g] # None

(* A stored group never changes its master silently: the step that does    *)
(* keeps its servers and leaves a mark, the promotion's "finished" or the  *)
(* out-of-sync flag of trySwitchGroupMaster.                               *)
MasterChange(g) ==
  /\ HasMaster(store[g])
  /\ HasMaster(store'[g])
  /\ store[g].servers[1] # store'[g].servers[1]

MasterChangesAreMarked ==
  [][\A g \in Groups : MasterChange(g) =>
       /\ ToSet(store'[g].servers) = ToSet(store[g].servers)
       /\ store'[g].oos \/ store'[g].pState = ActionFinished]_vars

(* The server that a promotion makes master is the one the request names,  *)
(* also when an earlier attempt was cut short and servers were removed in  *)
(* between, so that Promoting.Index means another one.                     *)
PromotesTheNamedServer ==
  [][\A g \in Groups :
       /\ mem[g] # None /\ mem'[g] # None
       /\ mem[g].pState # ActionFinished /\ mem'[g].pState = ActionFinished
       => mem'[g].servers[1] = op.a]_vars

(* Every request gives the mutex back: ResyncGroupAll is the exception.    *)
RequestsReturn ==
  op.pc \notin {"idle", "resyncall"} ~> op = Idle

(* ResyncGroupAll gives the mutex back.                                    *)
ResyncGroupAllReturns ==
  op.pc = "resyncall" ~> op = Idle
=============================================================================
