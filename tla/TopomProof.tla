----------------------------- MODULE TopomProof -----------------------------
(***************************************************************************)
(* Theorems about Topom for every set of groups, servers, sentinels and    *)
(* ports, and for every way a coordinator write may fail.                  *)
(***************************************************************************)
EXTENDS Topom, SequenceTheorems, TLAPS

-----------------------------------------------------------------------------
(* Lemmas about the operations on a group's list of servers.               *)

(* GetServerIndex finds the position of a server the group lists.          *)
LEMMA ServerIndex ==
  ASSUME NEW g, NEW addr, g.servers \in Seq(Addrs), addr \in ToSet(g.servers)
  PROVE  /\ GetServerIndex(g, addr) \in DOMAIN g.servers
         /\ g.servers[GetServerIndex(g, addr)] = addr
<1>1. \E i \in DOMAIN g.servers : g.servers[i] = addr
  BY DEF ToSet
<1> QED BY <1>1 DEF GetServerIndex

(* In a list without repetitions it is the only position.                  *)
LEMMA ServerIndexUnique ==
  ASSUME NEW g, NEW i \in DOMAIN g.servers, g.servers \in Seq(Addrs),
         IsInjective(g.servers)
  PROVE  GetServerIndex(g, g.servers[i]) = i
<1>1. g.servers[i] \in ToSet(g.servers)
  BY DEF ToSet
<1> QED BY <1>1, ServerIndex DEF IsInjective

(* The swap of a promotion or a failover keeps the servers, each once.     *)
LEMMA SwapKeepsServers ==
  ASSUME NEW servers \in Seq(Addrs), NEW i \in DOMAIN servers,
         IsInjective(servers)
  PROVE  /\ SwapMaster(servers, i) \in Seq(Addrs)
         /\ DOMAIN SwapMaster(servers, i) = DOMAIN servers
         /\ Len(SwapMaster(servers, i)) = Len(servers)
         /\ SwapMaster(servers, i) # <<>>
         /\ SwapMaster(servers, i)[1] = servers[i]
         /\ IsInjective(SwapMaster(servers, i))
         /\ ToSet(SwapMaster(servers, i)) = ToSet(servers)
<1> DEFINE t == SwapMaster(servers, i)
<1>1. 1 \in DOMAIN servers /\ DOMAIN servers = 1 .. Len(servers)
  OBVIOUS
<1>2. /\ DOMAIN t = DOMAIN servers
      /\ \A j \in DOMAIN servers : t[j] = IF j = i THEN servers[1]
                                         ELSE IF j = 1 THEN servers[i]
                                         ELSE servers[j]
  BY <1>1 DEF SwapMaster
<1>3. t \in Seq(Addrs) /\ Len(t) = Len(servers) /\ t # <<>>
  BY <1>1 DEF SwapMaster
<1>4. t[1] = servers[i]
  BY <1>1, <1>2
<1>5. IsInjective(t)
  BY <1>1, <1>2 DEF IsInjective
<1>6. ToSet(t) = ToSet(servers)
  BY <1>1, <1>2 DEF ToSet
<1> QED BY <1>2, <1>3, <1>4, <1>5, <1>6

(* Removing one position keeps the others, each once.                      *)
LEMMA RemoveKeepsRest ==
  ASSUME NEW S, NEW s \in Seq(S), NEW i \in DOMAIN s
  PROVE  /\ RemoveAt(s, i) \in Seq(S)
         /\ ToSet(RemoveAt(s, i)) \subseteq ToSet(s)
         /\ IsInjective(s) => IsInjective(RemoveAt(s, i))
<1> DEFINE t == RemoveAt(s, i)
           u == SubSeq(s, 1, i-1)
           v == SubSeq(s, i+1, Len(s))
<1>1. i \in 1 .. Len(s) /\ Len(s) \in Nat /\ DOMAIN s = 1 .. Len(s)
  OBVIOUS
<1>2. /\ u \in Seq(S) /\ Len(u) = i - 1
      /\ \A j \in 1 .. i-1 : u[j] = s[j]
  BY <1>1
<1>3. /\ v \in Seq(S) /\ Len(v) = Len(s) - i
      /\ \A j \in 1 .. Len(s) - i : v[j] = s[i + j]
  BY <1>1
<1>a. t = u \o v
  BY DEF RemoveAt
<1> HIDE DEF t, u, v
<1>b. /\ t \in Seq(S) /\ Len(t) = Len(u) + Len(v)
      /\ \A j \in 1 .. Len(u) + Len(v) :
           t[j] = IF j <= Len(u) THEN u[j] ELSE v[j - Len(u)]
  BY <1>2, <1>3, <1>a, ConcatProperties
<1>4. t \in Seq(S) /\ Len(t) = Len(s) - 1 /\ DOMAIN t = 1 .. Len(s) - 1
  BY <1>1, <1>2, <1>3, <1>b
<1>5. \A j \in 1 .. Len(s) - 1 : t[j] = IF j < i THEN s[j] ELSE s[j + 1]
  <2> SUFFICES ASSUME NEW j \in 1 .. Len(s) - 1
               PROVE  t[j] = IF j < i THEN s[j] ELSE s[j + 1]
    OBVIOUS
  <2>1. CASE j < i
    BY <1>1, <1>2, <1>3, <1>b, <2>1
  <2>2. CASE j >= i
    <3>1. t[j] = v[j - Len(u)] /\ j - Len(u) \in 1 .. Len(s) - i
      BY <1>1, <1>2, <1>3, <1>b, <2>2
    <3>2. v[j - Len(u)] = s[i + (j - Len(u))] /\ i + (j - Len(u)) = j + 1
      BY <1>1, <1>2, <1>3, <3>1
    <3> QED BY <3>1, <3>2, <2>2, <1>1
  <2> QED BY <2>1, <2>2, <1>1
<1>6. ToSet(t) \subseteq ToSet(s)
  BY <1>1, <1>4, <1>5 DEF ToSet
<1>7. IsInjective(s) => IsInjective(t)
  <2> SUFFICES ASSUME IsInjective(s), NEW a \in 1 .. Len(s) - 1,
                      NEW b \in 1 .. Len(s) - 1, t[a] = t[b]
               PROVE  a = b
    BY <1>4 DEF IsInjective
  <2>1. \A x, y \in 1 .. Len(s) : s[x] = s[y] => x = y
    BY <1>1 DEF IsInjective
  <2>2. (IF a < i THEN s[a] ELSE s[a + 1]) = (IF b < i THEN s[b] ELSE s[b + 1])
    BY <1>5
  <2> QED BY <1>1, <2>1, <2>2
<1> USE DEF t
<1> QED BY <1>4, <1>6, <1>7

(* Appending a server that is not listed.                                  *)
LEMMA AppendKeepsServers ==
  ASSUME NEW S, NEW s \in Seq(S), NEW a \in S
  PROVE  /\ Append(s, a) \in Seq(S)
         /\ Append(s, a) # <<>>
         /\ ToSet(Append(s, a)) = ToSet(s) \cup {a}
         /\ a \notin ToSet(s) /\ IsInjective(s) => IsInjective(Append(s, a))
<1> DEFINE t == Append(s, a)
<1>1. /\ t \in Seq(S) /\ t # <<>> /\ DOMAIN t = 1 .. Len(s) + 1
      /\ DOMAIN s = 1 .. Len(s) /\ Len(s) \in Nat
      /\ \A j \in 1 .. Len(s) : t[j] = s[j]
      /\ t[Len(s) + 1] = a
  OBVIOUS
<1>2. ToSet(t) = ToSet(s) \cup {a}
  BY <1>1 DEF ToSet
<1>3. a \notin ToSet(s) /\ IsInjective(s) => IsInjective(t)
  BY <1>1 DEF ToSet, IsInjective
<1> QED BY <1>1, <1>2, <1>3
-----------------------------------------------------------------------------
(* The inductive invariant.  GroupsWellFormed and SyncFollowsStore are not *)
(* inductive: a step in the middle of a request relies on what its earlier *)
(* steps checked, which OpOK and JobsOK remember.                          *)

GroupSteps == {"add", "del", "promote", "promote.unwatch", "promote.swap",
               "promote.sync", "resync"}

(* The request that has the mutex works on a group that exists and, from   *)
(* its checks on, on a server the group lists (or, to be added, does not). *)
OpOK ==
  /\ op.pc \in GroupSteps => op.g \in Groups /\ mem[op.g] # None
  /\ op.pc = "add" => /\ op.a \in Addrs
                      /\ op.a \notin ToSet(mem[op.g].servers)
  /\ op.pc \in {"del", "promote", "promote.unwatch", "promote.swap",
                "promote.sync"} => op.a \in ToSet(mem[op.g].servers)
  /\ op.pc \in {"promote.unwatch", "promote.swap"} =>
       mem[op.g].pState = ActionPrepared
  /\ op.pc = "promote.sync" => mem[op.g].pState = ActionFinished
  /\ op.pc \in {"promote", "promote.unwatch", "promote.swap", "promote.sync"} =>
       IF mem[op.g].pState # ActionNothing
       THEN GetServerIndex(mem[op.g], op.a) - 1 = mem[op.g].pIndex
       ELSE GetServerIndex(mem[op.g], op.a) - 1 # 0
  /\ op.pc \in {"delsen.remove", "delsen.drop"} =>
       op.a \in ToSet(memSen.servers)

(* resyncGroup runs only for the request that started it.                  *)
JobsOK ==
  \A g \in Groups : jobs[g].pc # "none" =>
    /\ \/ op.pc = "resyncall"
       \/ op.pc \in {"resync", "promote.sync"} /\ op.g = g
    /\ mem[g] # None
    /\ jobs[g].next >= 1 \/ jobs[g].pc # "sync"
    /\ jobs[g].failed => mem[g].servers # <<>>

Inv == TypeOK /\ GroupsWellFormed /\ SyncFollowsStore /\ OpOK /\ JobsOK
-----------------------------------------------------------------------------
(* What one write does to the two copies of the records.                   *)

(* A handler that changes the cached record in place to rec.               *)
LEMMA UpdateKeeps ==
  ASSUME TypeOK, GroupsWellFormed, NEW g \in Groups, NEW rec \in Group,
         WellFormed(rec), NEW o \in Outcomes, Update(g, rec, o)
  PROVE  /\ mem' \in [Groups -> Group \cup {None}]
         /\ store' \in [Groups -> Group \cup {None}]
         /\ GroupsWellFormed'
         /\ mem'[g] = rec /\ rec # None
         /\ o = "ok" => store'[g] = rec
         /\ \A h \in Groups : h # g => mem'[h] = mem[h] /\ store'[h] = store[h]
<1>1. rec # None
  BY NoneAssumption
<1>2. /\ mem' \in [Groups -> Group \cup {None}]
      /\ store' \in [Groups -> Group \cup {None}]
      /\ mem'[g] = rec
      /\ store'[g] = rec \/ store'[g] = store[g]
      /\ o = "ok" => store'[g] = rec
      /\ \A h \in Groups : h # g => mem'[h] = mem[h] /\ store'[h] = store[h]
  BY DEF TypeOK, Update, Written
<1>3. GroupsWellFormed'
  BY <1>2 DEF GroupsWellFormed, WellFormed
<1> QED BY <1>1, <1>2, <1>3

(* A handler that writes a record of its own, or removes the group.        *)
LEMMA ReplaceKeeps ==
  ASSUME TypeOK, GroupsWellFormed, NEW g \in Groups,
         NEW rec \in Group \cup {None}, rec # None => WellFormed(rec),
         NEW o \in Outcomes, Replace(g, rec, o)
  PROVE  /\ mem' \in [Groups -> Group \cup {None}]
         /\ store' \in [Groups -> Group \cup {None}]
         /\ GroupsWellFormed'
         /\ mem'[g] = rec \/ mem'[g] = mem[g]
         /\ \A h \in Groups : h # g => mem'[h] = mem[h] /\ store'[h] = store[h]
<1>1. /\ mem' \in [Groups -> Group \cup {None}]
      /\ store' \in [Groups -> Group \cup {None}]
      /\ mem'[g] = rec \/ mem'[g] = mem[g]
      /\ store'[g] = rec \/ store'[g] = store[g]
      /\ \A h \in Groups : h # g => mem'[h] = mem[h] /\ store'[h] = store[h]
  BY DEF TypeOK, Replace, Written
<1>2. GroupsWellFormed'
  BY <1>1 DEF GroupsWellFormed, WellFormed
<1> QED BY <1>1, <1>2

(* The sentinels' record changed in place to rec.                          *)
LEMMA UpdateSentinelKeeps ==
  ASSUME TypeOK, NEW rec \in Sentinel, NEW o \in Outcomes,
         UpdateSentinel(rec, o)
  PROVE  /\ memSen' \in Sentinel /\ storeSen' \in Sentinel
         /\ memSen' = rec
BY DEF TypeOK, UpdateSentinel, Written

(* The record of a group that exists.                                      *)
LEMMA GroupRecord ==
  ASSUME TypeOK, GroupsWellFormed, NEW g \in Groups, mem[g] # None
  PROVE  /\ mem[g] \in Group
         /\ mem[g].servers \in Seq(Addrs)
         /\ mem[g].pIndex \in Nat /\ mem[g].pState \in Actions
         /\ mem[g].oos \in BOOLEAN
         /\ mem[g].rPort \in Ports /\ mem[g].wPort \in Ports
         /\ WellFormed(mem[g])
         /\ IsInjective(mem[g].servers)
BY DEF TypeOK, GroupsWellFormed, WellFormed, Group

(* What outOfSyncBySentinel does, and that it goes on only to next.        *)
LEMMA OutOfSyncKeeps ==
  ASSUME TypeOK, NEW next, outOfSyncBySentinel(next)
  PROVE  /\ memSen' \in Sentinel /\ storeSen' \in Sentinel
         /\ op' = next \/ op' = Idle
<1>1. [memSen EXCEPT !.oos = TRUE] \in Sentinel
  BY DEF TypeOK, Sentinel
<1>2. CASE memSen.servers = <<>>
  BY <1>2 DEF outOfSyncBySentinel, TypeOK
<1>3. CASE memSen.servers # <<>>
  BY <1>1, <1>3, UpdateSentinelKeeps DEF outOfSyncBySentinel, ContinueWith
<1> QED BY <1>2, <1>3

(* Without the mutex held no resyncGroup is running.                       *)
LEMMA IdleJobs ==
  ASSUME Inv, op.pc \notin {"resync", "resyncall", "promote.sync"}
  PROVE  \A g \in Groups : jobs[g].pc = "none"
BY DEF Inv, JobsOK

(* A step that ends its request has only the records to account for.       *)
LEMMA IdleInv ==
  ASSUME TypeOK', GroupsWellFormed', op' = Idle,
         \A g \in Groups : jobs'[g].pc = "none"
  PROVE  Inv'
BY DEF Inv, OpOK, JobsOK, SyncFollowsStore, Idle, At, GroupSteps

-----------------------------------------------------------------------------
(* Every request, in its first step, keeps the invariant.                  *)

(* The first steps of the requests about groups.                           *)
LEMMA GroupRequestInv ==
  ASSUME Inv, NEW g \in Groups,
         \/ \E r, w \in Ports : CreateGroup(g, r, w)
         \/ RemoveGroup(g)
         \/ ResyncGroup(g)
         \/ \E a \in Addrs : \/ AddGroupServer(g, a)
                             \/ DelGroupServer(g, a)
                             \/ GroupPromoteServer(g, a)
                             \/ GroupForceFullSyncServer(g, a)
  PROVE  Inv'
<1> USE DEF Inv
<1>1. ASSUME NEW r \in Ports, NEW w \in Ports, CreateGroup(g, r, w)
      PROVE  Inv'
  <2> DEFINE rec == FreshGroup(<<>>, r, w)
  <2>1. rec \in Group /\ WellFormed(rec)
    BY DEF FreshGroup, Group, WellFormed, IsInjective, Actions, ActionNothing,
           ActionPreparing, ActionPrepared
  <2>2. PICK o \in Outcomes : Replace(g, rec, o)
    BY <1>1 DEF CreateGroup
  <2>3. /\ mem' \in [Groups -> Group \cup {None}]
        /\ store' \in [Groups -> Group \cup {None}]
        /\ GroupsWellFormed'
    BY <2>1, <2>2, ReplaceKeeps
  <2>4. op' = Idle /\ \A h \in Groups : jobs'[h].pc = "none"
    BY <1>1, IdleJobs DEF CreateGroup, Idle, At
  <2>5. TypeOK'
    BY <1>1, <2>3 DEF TypeOK, CreateGroup, watcher, outside
  <2> QED BY <2>3, <2>4, <2>5, IdleInv
<1>2. ASSUME RemoveGroup(g)
      PROVE  Inv'
  <2>1. PICK o \in Outcomes : Replace(g, None, o)
    BY <1>2 DEF RemoveGroup
  <2>2. /\ mem' \in [Groups -> Group \cup {None}]
        /\ store' \in [Groups -> Group \cup {None}]
        /\ GroupsWellFormed'
    BY <2>1, ReplaceKeeps
  <2>3. op' = Idle /\ \A h \in Groups : jobs'[h].pc = "none"
    BY <1>2, IdleJobs DEF RemoveGroup, Idle, At
  <2>4. TypeOK'
    BY <1>2, <2>2 DEF TypeOK, RemoveGroup, watcher, outside
  <2> QED BY <2>2, <2>3, <2>4, IdleInv
<1>3. ASSUME ResyncGroup(g)
      PROVE  Inv'
  <2>1. \A h \in Groups : jobs[h].pc = "none"
    BY <1>3, IdleJobs DEF ResyncGroup, Idle, At
  <2>2. TypeOK'
    BY <1>3 DEF TypeOK, ResyncGroup, watcher, outside, persisted, cached, At,
                Steps, Job, JobSteps
  <2>3. GroupsWellFormed' /\ SyncFollowsStore' /\ OpOK' /\ JobsOK'
    BY <1>3, <2>1 DEF TypeOK, ResyncGroup, persisted, cached, At, Job,
         GroupsWellFormed, SyncFollowsStore, OpOK, JobsOK, GroupSteps
  <2> QED BY <2>2, <2>3
<1>4. ASSUME NEW a \in Addrs, AddGroupServer(g, a)
      PROVE  Inv'
  <2>1. /\ memSen' \in Sentinel /\ storeSen' \in Sentinel
        /\ op' = At("add", g, a) \/ op' = Idle
    BY <1>4, OutOfSyncKeeps DEF AddGroupServer
  <2>2. \A h \in Groups : jobs'[h].pc = "none"
    BY <1>4, IdleJobs DEF AddGroupServer, Idle, At
  <2>3. TypeOK'
    BY <1>4, <2>1 DEF TypeOK, AddGroupServer, watcher, outside, Idle, At, Steps
  <2>4. GroupsWellFormed'
    BY <1>4 DEF AddGroupServer, GroupsWellFormed
  <2>5. CASE op' = At("add", g, a)
    <3>1. mem' = mem /\ mem[g] # None /\ a \notin ToSet(mem[g].servers)
      BY <1>4 DEF AddGroupServer
    <3>2. OpOK'
      BY <2>5, <3>1 DEF OpOK, At, GroupSteps
    <3> QED BY <2>2, <2>3, <2>4, <3>2 DEF JobsOK, SyncFollowsStore
  <2> QED BY <2>1, <2>2, <2>3, <2>4, <2>5, IdleInv
<1>5. ASSUME NEW a \in Addrs, DelGroupServer(g, a)
      PROVE  Inv'
  <2>1. /\ memSen' \in Sentinel /\ storeSen' \in Sentinel
        /\ op' = At("del", g, a) \/ op' = Idle
    BY <1>5, OutOfSyncKeeps DEF DelGroupServer
  <2>2. \A h \in Groups : jobs'[h].pc = "none"
    BY <1>5, IdleJobs DEF DelGroupServer, Idle, At
  <2>3. TypeOK'
    BY <1>5, <2>1 DEF TypeOK, DelGroupServer, watcher, outside, Idle, At, Steps
  <2>4. GroupsWellFormed'
    BY <1>5 DEF DelGroupServer, GroupsWellFormed
  <2>5. CASE op' = At("del", g, a)
    <3>1. mem' = mem /\ mem[g] # None /\ a \in ToSet(mem[g].servers)
      BY <1>5 DEF DelGroupServer
    <3>2. OpOK'
      BY <2>5, <3>1 DEF OpOK, At, GroupSteps
    <3> QED BY <2>2, <2>3, <2>4, <3>2 DEF JobsOK, SyncFollowsStore
  <2> QED BY <2>1, <2>2, <2>3, <2>4, <2>5, IdleInv
<1>6. ASSUME NEW a \in Addrs, GroupPromoteServer(g, a)
      PROVE  Inv'
  <2>1. \A h \in Groups : jobs'[h].pc = "none"
    BY <1>6, IdleJobs DEF GroupPromoteServer, Idle, At
  <2>2. TypeOK' /\ GroupsWellFormed'
    BY <1>6 DEF TypeOK, GroupsWellFormed, GroupPromoteServer, watcher, outside,
                persisted, cached, At, Steps
  <2>3. /\ mem' = mem /\ mem[g] # None /\ a \in ToSet(mem[g].servers)
        /\ op' = At("promote", g, a)
        /\ IF mem[g].pState # ActionNothing
           THEN GetServerIndex(mem[g], a) - 1 = mem[g].pIndex
           ELSE GetServerIndex(mem[g], a) - 1 # 0
    BY <1>6 DEF GroupPromoteServer, cached
  <2>4. OpOK'
    BY <2>3 DEF OpOK, At, GroupSteps
  <2> QED BY <2>1, <2>2, <2>4 DEF JobsOK, SyncFollowsStore
<1>7. ASSUME NEW a \in Addrs, GroupForceFullSyncServer(g, a)
      PROVE  Inv'
  <2>1. mem[g].servers[1] \in Addrs
    <3>1. mem[g] # None /\ a \in ToSet(mem[g].servers)
      BY <1>7 DEF GroupForceFullSyncServer, ForceFullSyncFromMaster
    <3>2. mem[g].servers \in Seq(Addrs) /\ mem[g].servers # <<>>
      BY <3>1, GroupRecord DEF ToSet
    <3> QED BY <3>2
  <2>2. TypeOK' /\ GroupsWellFormed'
    BY <1>7, <2>1 DEF TypeOK, GroupsWellFormed, GroupForceFullSyncServer, ForceFullSyncFromMaster,
                      watcher, persisted, cached
  <2>3. op' = Idle /\ \A h \in Groups : jobs'[h].pc = "none"
    BY <1>7, IdleJobs DEF GroupForceFullSyncServer, ForceFullSyncFromMaster, Idle, At
  <2> QED BY <2>2, <2>3, IdleInv
<1> QED BY <1>1, <1>2, <1>3, <1>4, <1>5, <1>6, <1>7

(* The first steps of the sentinels' requests and of switchMasters.        *)
LEMMA SentinelRequestInv ==
  ASSUME Inv,
         \/ ResyncGroupAll
         \/ \E s \in Sentinels : AddSentinel(s) \/ DelSentinel(s)
         \/ ResyncSentinels
         \/ switchMasters
  PROVE  Inv'
<1> USE DEF Inv
<1>1. CASE ResyncGroupAll
  <2>1. TypeOK'
    BY <1>1 DEF TypeOK, ResyncGroupAll, watcher, outside, persisted, cached, At,
                Steps, Job, NoJob, JobSteps
  <2>2. GroupsWellFormed' /\ SyncFollowsStore' /\ OpOK' /\ JobsOK'
    BY <1>1 DEF TypeOK, ResyncGroupAll, persisted, cached, At, Job, NoJob,
         GroupsWellFormed, SyncFollowsStore, OpOK, JobsOK, GroupSteps
  <2> QED BY <2>1, <2>2
<1>2. ASSUME NEW s \in Sentinels, AddSentinel(s)
      PROVE  Inv'
  <2> DEFINE rec == [servers |-> Append(memSen.servers, s), oos |-> TRUE]
  <2>1. rec \in Sentinel
    BY DEF TypeOK, Sentinel
  <2>2. memSen' \in Sentinel /\ storeSen' \in Sentinel
    BY <1>2, <2>1, UpdateSentinelKeeps DEF AddSentinel
  <2>3. TypeOK' /\ GroupsWellFormed'
    BY <1>2, <2>2 DEF TypeOK, GroupsWellFormed, AddSentinel, watcher, outside
  <2>4. op' = Idle /\ \A h \in Groups : jobs'[h].pc = "none"
    BY <1>2, IdleJobs DEF AddSentinel, Idle, At
  <2> QED BY <2>3, <2>4, IdleInv
<1>3. ASSUME NEW s \in Sentinels, DelSentinel(s)
      PROVE  Inv'
  <2> DEFINE rec == [memSen EXCEPT !.oos = TRUE]
  <2>1. rec \in Sentinel /\ rec.servers = memSen.servers
    BY DEF TypeOK, Sentinel
  <2>2. /\ memSen' \in Sentinel /\ storeSen' \in Sentinel
        /\ memSen' = rec
        /\ op' = At("delsen.remove", None, s) \/ op' = Idle
    BY <1>3, <2>1, UpdateSentinelKeeps DEF DelSentinel, ContinueWith
  <2>3. TypeOK' /\ GroupsWellFormed'
    BY <1>3, <2>2 DEF TypeOK, GroupsWellFormed, DelSentinel, watcher, outside,
                      At, Idle, Steps
  <2>4. \A h \in Groups : jobs'[h].pc = "none"
    BY <1>3, IdleJobs DEF DelSentinel, Idle, At
  <2>5. OpOK'
    BY <1>3, <2>1, <2>2 DEF OpOK, DelSentinel, At, Idle, GroupSteps
  <2> QED BY <2>3, <2>4, <2>5 DEF JobsOK, SyncFollowsStore
<1>4. CASE ResyncSentinels
  <2> DEFINE rec == [memSen EXCEPT !.oos = TRUE]
  <2>1. rec \in Sentinel
    BY DEF TypeOK, Sentinel
  <2>2. /\ memSen' \in Sentinel /\ storeSen' \in Sentinel
        /\ op' = At("ressen.remove", None, None) \/ op' = Idle
    BY <1>4, <2>1, UpdateSentinelKeeps DEF ResyncSentinels, ContinueWith
  <2>3. TypeOK' /\ GroupsWellFormed'
    BY <1>4, <2>2 DEF TypeOK, GroupsWellFormed, ResyncSentinels, watcher,
                      outside, At, Idle, Steps
  <2>4. \A h \in Groups : jobs'[h].pc = "none"
    BY <1>4, IdleJobs DEF ResyncSentinels, Idle, At
  <2>5. OpOK'
    BY <2>2 DEF OpOK, At, Idle, GroupSteps
  <2> QED BY <2>3, <2>4, <2>5 DEF JobsOK, SyncFollowsStore
<1>5. CASE switchMasters
  <2>1. TypeOK' /\ GroupsWellFormed'
    BY <1>5 DEF TypeOK, GroupsWellFormed, switchMasters, outside, persisted,
                cached, At, Steps
  <2>2. \A h \in Groups : jobs'[h].pc = "none"
    BY <1>5, IdleJobs DEF switchMasters, Idle, At
  <2>3. OpOK'
    BY <1>5 DEF OpOK, switchMasters, At, GroupSteps
  <2> QED BY <2>1, <2>2, <2>3 DEF JobsOK, SyncFollowsStore
<1> QED BY <1>1, <1>2, <1>3, <1>4, <1>5
-----------------------------------------------------------------------------
(* Every later step of a request keeps the invariant.                      *)

(* AddGroupServer and DelGroupServer after the sentinels' flag.            *)
LEMMA ServerListInv ==
  ASSUME Inv, AppendServer \/ RemoveServer
  PROVE  Inv'
<1> USE DEF Inv
<1> DEFINE g == mem[op.g]
<1>1. /\ op.g \in Groups /\ g # None
      /\ \A h \in Groups : jobs'[h].pc = "none"
      /\ op' = Idle
  BY IdleJobs DEF AppendServer, RemoveServer, OpOK, GroupSteps
<1>2. /\ g \in Group /\ g.servers \in Seq(Addrs)
      /\ WellFormed(g) /\ IsInjective(g.servers)
  BY <1>1, GroupRecord
<1>3. CASE AppendServer
  <2> DEFINE t == Append(g.servers, op.a)
             rec == [g EXCEPT !.servers = t]
  <2>1. op.a \in Addrs /\ op.a \notin ToSet(g.servers)
    BY <1>3 DEF AppendServer, OpOK
  <2>2. t \in Seq(Addrs) /\ t # <<>> /\ IsInjective(t)
    BY <1>2, <2>1, AppendKeepsServers
  <2> HIDE DEF t
  <2>3. rec \in Group
    BY <1>2, <2>2 DEF Group
  <2>4. WellFormed(rec)
    BY <1>2, <2>2 DEF Group, WellFormed
  <2>5. PICK o \in Outcomes : Update(op.g, rec, o)
    BY <1>3 DEF AppendServer, t
  <2>6. /\ mem' \in [Groups -> Group \cup {None}]
        /\ store' \in [Groups -> Group \cup {None}]
        /\ GroupsWellFormed'
    BY <1>1, <2>3, <2>4, <2>5, UpdateKeeps
  <2>7. TypeOK'
    BY <1>3, <2>6 DEF TypeOK, AppendServer, watcher, outside, Idle, At, Steps
  <2> QED BY <1>1, <2>6, <2>7, IdleInv
<1>4. CASE RemoveServer
  <2> DEFINE i == GetServerIndex(g, op.a)
             t == RemoveAt(g.servers, i)
             rec == [g EXCEPT !.servers = t, !.oos = t # <<>> /\ (i # 1 \/ @)]
  <2>1. i \in DOMAIN g.servers
    BY <1>2, <1>4, ServerIndex DEF RemoveServer, OpOK
  <2>2. t \in Seq(Addrs) /\ IsInjective(t)
    BY <1>2, <2>1, RemoveKeepsRest
  <2> HIDE DEF t, i
  <2>3. rec \in Group
    BY <1>2, <2>2 DEF Group
  <2>4. WellFormed(rec)
    BY <1>2, <2>2 DEF Group, WellFormed
  <2>5. PICK o \in Outcomes : Update(op.g, rec, o)
    BY <1>4 DEF RemoveServer, t, i
  <2>6. /\ mem' \in [Groups -> Group \cup {None}]
        /\ store' \in [Groups -> Group \cup {None}]
        /\ GroupsWellFormed'
    BY <1>1, <2>3, <2>4, <2>5, UpdateKeeps
  <2>7. TypeOK'
    BY <1>4, <2>6 DEF TypeOK, RemoveServer, watcher, outside, Idle, At, Steps
  <2> QED BY <1>1, <2>6, <2>7, IdleInv
<1> QED BY <1>3, <1>4

(* The resync jobs and the requests that wait for them.                    *)
LEMMA ResyncInv ==
  ASSUME Inv,
         \/ \E g \in Groups : \/ ResetOutOfSync(g)
                              \/ doSyncAction(g)
                              \/ resyncGroupEnd(g)
         \/ ResyncGroupReturn
         \/ ResyncGroupAllReturn
  PROVE  Inv'
<1> USE DEF Inv
<1>1. ASSUME NEW g \in Groups, ResetOutOfSync(g)
      PROVE  Inv'
  <2> DEFINE rec == [mem[g] EXCEPT !.oos = FALSE]
  <2>1. jobs[g].pc = "reset" /\ mem[g] # None
    BY <1>1 DEF ResetOutOfSync, JobsOK
  <2>2. /\ mem[g] \in Group /\ WellFormed(mem[g])
    BY <2>1, GroupRecord
  <2>3. /\ rec \in Group /\ WellFormed(rec)
        /\ rec.servers = mem[g].servers /\ rec.pState = mem[g].pState
        /\ rec.pIndex = mem[g].pIndex
    BY <2>2 DEF Group, WellFormed
  <2>4. PICK o \in Outcomes :
          /\ Update(g, rec, o)
          /\ jobs' = [jobs EXCEPT ![g] = IF o = "ok" THEN Job("sync", 1, FALSE)
                                                     ELSE Job("err", 0, FALSE)]
    BY <1>1 DEF ResetOutOfSync
  <2>5. /\ mem' \in [Groups -> Group \cup {None}]
        /\ store' \in [Groups -> Group \cup {None}]
        /\ GroupsWellFormed'
        /\ mem'[g] = rec /\ rec # None
        /\ o = "ok" => store'[g] = rec
        /\ \A h \in Groups : h # g => mem'[h] = mem[h] /\ store'[h] = store[h]
    BY <2>3, <2>4, UpdateKeeps
  <2> HIDE DEF rec
  <2>6. TypeOK'
    BY <1>1, <2>4, <2>5 DEF TypeOK, ResetOutOfSync, watcher, outside, Job, JobSteps
  <2>7. /\ jobs'[g].pc \in {"sync", "err"} /\ jobs'[g].pc = "sync" => o = "ok"
        /\ jobs'[g].next >= 1 \/ jobs'[g].pc # "sync"
        /\ ~jobs'[g].failed
        /\ \A h \in Groups : h # g => jobs'[h] = jobs[h]
    BY <2>4 DEF TypeOK, Job
  <2>8. SyncFollowsStore'
    BY <2>5, <2>7 DEF SyncFollowsStore
  <2>9. op' = op /\ memSen' = memSen
    BY <1>1 DEF ResetOutOfSync
  <2>10. JobsOK'
    BY <2>1, <2>3, <2>5, <2>7, <2>9 DEF JobsOK
  <2>11. op.pc \in {"resync", "resyncall", "promote.sync"}
    BY <2>1 DEF JobsOK
  <2>12. OpOK'
    <3>1. op.pc # "resyncall" => op.g = g
      BY <2>1, <2>11 DEF JobsOK
    <3>2. CASE op.pc = "resyncall"
      BY <2>9, <3>2 DEF OpOK, GroupSteps
    <3>3. CASE op.pc # "resyncall"
      <4>1. GetServerIndex(mem'[g], op.a) = GetServerIndex(mem[g], op.a)
        BY <2>3, <2>5 DEF GetServerIndex
      <4> QED BY <2>3, <2>5, <2>9, <2>11, <3>1, <3>3, <4>1 DEF OpOK, GroupSteps
    <3> QED BY <3>2, <3>3
  <2> QED BY <2>5, <2>6, <2>8, <2>10, <2>12
<1>2. ASSUME NEW g \in Groups, doSyncAction(g)
      PROVE  Inv'
  <2>1. jobs[g].pc = "sync" /\ mem[g] # None /\ jobs[g].next >= 1
        /\ jobs[g].next <= Len(mem[g].servers) /\ jobs[g].next \in Nat
    BY <1>2 DEF doSyncAction, SetMaster, JobsOK, TypeOK
  <2>2. /\ mem[g].servers \in Seq(Addrs) /\ mem[g].servers # <<>>
        /\ mem[g].servers[jobs[g].next] \in Addrs /\ mem[g].servers[1] \in Addrs
    BY <2>1, GroupRecord
  <2>3. /\ persisted' = persisted /\ cached' = cached /\ op' = op
        /\ watcher' = watcher /\ monitored' = monitored
    BY <1>2 DEF doSyncAction, SetMaster
  <2>4. role' \in [Addrs -> Addrs \cup {None}]
    BY <1>2, <2>2 DEF doSyncAction, SetMaster, TypeOK
  <2>5. PICK failed \in BOOLEAN :
          jobs' = [jobs EXCEPT ![g] =
                     Job("sync", jobs[g].next + 1, jobs[g].failed \/ failed)]
    BY <1>2 DEF doSyncAction, SetMaster, TypeOK
  <2>6. /\ jobs' \in [Groups -> [pc : JobSteps, next : Nat, failed : BOOLEAN]]
        /\ jobs'[g].pc = "sync" /\ jobs'[g].next = jobs[g].next + 1
        /\ \A h \in Groups : h # g => jobs'[h] = jobs[h]
    <3>1. jobs[g].failed \/ failed \in BOOLEAN
      OBVIOUS
    <3> QED BY <2>1, <2>5, <3>1 DEF TypeOK, Job, JobSteps
  <2>7. TypeOK'
    BY <2>3, <2>4, <2>6 DEF TypeOK, persisted, cached, watcher
  <2>8. GroupsWellFormed' /\ SyncFollowsStore' /\ OpOK'
    BY <2>1, <2>3, <2>6 DEF GroupsWellFormed, SyncFollowsStore, OpOK, persisted, cached
  <2>9. JobsOK'
    BY <2>1, <2>2, <2>3, <2>6 DEF JobsOK, cached
  <2> QED BY <2>7, <2>8, <2>9
<1>3. ASSUME NEW g \in Groups, resyncGroupEnd(g), ~jobs[g].failed
      PROVE  Inv'
  <2>1. /\ jobs[g].pc = "sync"
        /\ jobs' = [jobs EXCEPT ![g] = Job("ok", 0, FALSE)]
        /\ mem' = mem /\ store' = store /\ op' = op /\ memSen' = memSen
    BY <1>3 DEF resyncGroupEnd
  <2>2. /\ jobs'[g].pc = "ok" /\ jobs'[g].failed = FALSE
        /\ \A h \in Groups : h # g => jobs'[h] = jobs[h]
    BY <2>1 DEF TypeOK, Job
  <2>3. TypeOK'
    BY <1>3, <2>1 DEF TypeOK, resyncGroupEnd, watcher, outside, Job, JobSteps
  <2>4. GroupsWellFormed' /\ SyncFollowsStore' /\ OpOK' /\ JobsOK'
    BY <2>1, <2>2 DEF GroupsWellFormed, SyncFollowsStore, OpOK, JobsOK
  <2> QED BY <2>3, <2>4
<1>4. ASSUME NEW g \in Groups, resyncGroupEnd(g), jobs[g].failed
      PROVE  Inv'
  <2> DEFINE rec == [mem[g] EXCEPT !.oos = TRUE]
  <2>1. jobs[g].pc = "sync" /\ mem[g] # None /\ mem[g].servers # <<>>
    BY <1>4 DEF resyncGroupEnd, JobsOK
  <2>2. mem[g] \in Group /\ WellFormed(mem[g])
    BY <2>1, GroupRecord
  <2>3. /\ rec \in Group /\ WellFormed(rec)
        /\ rec.servers = mem[g].servers /\ rec.pState = mem[g].pState
        /\ rec.pIndex = mem[g].pIndex
    BY <2>1, <2>2 DEF Group, WellFormed
  <2>4. PICK o \in Outcomes : Update(g, rec, o)
    BY <1>4 DEF resyncGroupEnd
  <2>5. /\ mem' \in [Groups -> Group \cup {None}]
        /\ store' \in [Groups -> Group \cup {None}]
        /\ GroupsWellFormed'
        /\ mem'[g] = rec /\ rec # None
        /\ \A h \in Groups : h # g => mem'[h] = mem[h] /\ store'[h] = store[h]
    BY <2>3, <2>4, UpdateKeeps
  <2> HIDE DEF rec
  <2>6. jobs' = [jobs EXCEPT ![g] = Job("err", 0, FALSE)] /\ op' = op
        /\ memSen' = memSen
    BY <1>4 DEF resyncGroupEnd
  <2>7. /\ jobs'[g].pc = "err" /\ jobs'[g].failed = FALSE
        /\ \A h \in Groups : h # g => jobs'[h] = jobs[h]
    BY <2>6 DEF TypeOK, Job
  <2>8. TypeOK'
    BY <1>4, <2>5, <2>6 DEF TypeOK, resyncGroupEnd, watcher, outside, Job, JobSteps
  <2>9. SyncFollowsStore'
    BY <2>5, <2>7 DEF SyncFollowsStore
  <2>a. JobsOK'
    <3> SUFFICES ASSUME NEW h \in Groups, jobs'[h].pc # "none"
                 PROVE  /\ \/ op'.pc = "resyncall"
                           \/ op'.pc \in {"resync", "promote.sync"} /\ op'.g = h
                        /\ mem'[h] # None
                        /\ jobs'[h].next >= 1 \/ jobs'[h].pc # "sync"
                        /\ jobs'[h].failed => mem'[h].servers # <<>>
      BY DEF JobsOK
    <3>1. CASE h = g
      BY <2>1, <2>5, <2>6, <2>7, <3>1 DEF JobsOK
    <3>2. CASE h # g
      BY <2>5, <2>6, <2>7, <3>2 DEF JobsOK
    <3> QED BY <3>1, <3>2
  <2>10. op.pc \in {"resync", "resyncall", "promote.sync"}
         /\ (op.pc # "resyncall" => op.g = g)
    BY <2>1 DEF JobsOK
  <2>11. OpOK'
    <3>1. CASE op.pc = "resyncall"
      BY <2>6, <3>1 DEF OpOK, GroupSteps
    <3>2. CASE op.pc # "resyncall"
      <4>1. GetServerIndex(mem'[g], op.a) = GetServerIndex(mem[g], op.a)
        BY <2>3, <2>5 DEF GetServerIndex
      <4> QED BY <2>3, <2>5, <2>6, <2>10, <3>2, <4>1 DEF OpOK, GroupSteps
    <3> QED BY <3>1, <3>2
  <2> QED BY <2>5, <2>8, <2>9, <2>a, <2>11
<1>5. CASE ResyncGroupReturn
  <2>1. op.g \in Groups /\ op' = Idle /\ \A g \in Groups : jobs'[g].pc = "none"
    BY <1>5 DEF ResyncGroupReturn, OpOK, JobsOK, GroupSteps, TypeOK, NoJob, Job
  <2>2. TypeOK' /\ GroupsWellFormed'
    BY <1>5, <2>1 DEF ResyncGroupReturn, TypeOK, GroupsWellFormed, persisted,
         cached, watcher, outside, Idle, At, Steps, NoJob, Job, JobSteps
  <2> QED BY <2>1, <2>2, IdleInv
<1>6. CASE ResyncGroupAllReturn
  <2>1. op' = Idle /\ \A g \in Groups : jobs'[g].pc = "none"
    BY <1>6 DEF ResyncGroupAllReturn, NoJob, Job
  <2>2. TypeOK' /\ GroupsWellFormed'
    BY <1>6 DEF ResyncGroupAllReturn, TypeOK, GroupsWellFormed, persisted,
         cached, watcher, outside, Idle, At, Steps, NoJob, Job, JobSteps
  <2> QED BY <2>1, <2>2, IdleInv
<1> QED BY <1>1, <1>2, <1>3, <1>4, <1>5, <1>6

(* The cases of a promotion, each with its write refused or done.          *)
LEMMA PromoteInv ==
  ASSUME Inv,
         \/ PromoteNothing
         \/ PromotePreparing
         \/ PromotePrepared
         \/ PromoteUnwatch
         \/ PromoteSwap
         \/ PromoteSynced
         \/ PromoteFinished
  PROVE  Inv'
<1> USE DEF Inv
<1> DEFINE g == mem[op.g]
           i == GetServerIndex(g, op.a)
<1>1. /\ op.pc \in {"promote", "promote.unwatch", "promote.swap", "promote.sync"}
      /\ op.g \in Groups /\ g # None /\ op.a \in ToSet(g.servers)
      /\ IF g.pState # ActionNothing THEN i - 1 = g.pIndex ELSE i - 1 # 0
      /\ op \in [pc : Steps, g : Groups \cup {None},
                 a : Addrs \cup Sentinels \cup {None}]
  BY DEF PromoteNothing, PromotePreparing, PromotePrepared, PromoteUnwatch, RemoveGroups,
         PromoteSwap, PromoteSynced, PromoteFinished, OpOK, GroupSteps, TypeOK
<1>2. /\ g \in Group /\ g.servers \in Seq(Addrs) /\ g.pIndex \in Nat
      /\ g.pState \in Actions /\ g.rPort \in Ports /\ g.wPort \in Ports
      /\ WellFormed(g) /\ IsInjective(g.servers)
  BY <1>1, GroupRecord
<1>3. i \in DOMAIN g.servers /\ g.servers[i] = op.a /\ i \in Nat \ {0}
  <2> HIDE DEF g, i
  <2>1. i \in DOMAIN g.servers /\ g.servers[i] = op.a
    BY <1>1, <1>2, ServerIndex DEF i
  <2> QED BY <1>2, <2>1
<1>4. ASSUME NEW rec \in Group, NEW o \in Outcomes, NEW q,
             WellFormed(rec), rec.servers = g.servers,
             rec.pState \in {ActionPreparing, ActionPrepared},
             rec.pIndex = i - 1,
             Update(op.g, rec, o), op' = q, q = op \/ q = Idle,
             op.pc = "promote",
             UNCHANGED <<storeSen, memSen, jobs, watcher, outside>>
      PROVE  Inv'
  <2>1. /\ mem' \in [Groups -> Group \cup {None}]
        /\ store' \in [Groups -> Group \cup {None}]
        /\ GroupsWellFormed'
        /\ mem'[op.g] = rec /\ rec # None
    BY <1>1, <1>4, UpdateKeeps
  <2>2. TypeOK'
    BY <1>1, <1>4, <2>1 DEF TypeOK, watcher, outside, Idle, At, Steps
  <2>3. \A h \in Groups : jobs'[h].pc = "none"
    BY <1>4, IdleJobs
  <2>4. GetServerIndex(rec, op.a) = i
    BY <1>4 DEF GetServerIndex
  <2>5. CASE op' = op
    <3>1. OpOK'
      BY <1>1, <1>4, <2>1, <2>4, <2>5 DEF OpOK, GroupSteps, ActionPreparing,
           ActionPrepared, ActionNothing
    <3> QED BY <2>1, <2>2, <2>3, <3>1 DEF JobsOK, SyncFollowsStore
  <2> QED BY <1>4, <2>1, <2>2, <2>3, <2>5, IdleInv
<1>5. CASE PromoteNothing
  <2> DEFINE rec == [g EXCEPT !.pIndex = i - 1, !.pState = ActionPreparing]
  <2>1. g.pState = ActionNothing /\ i - 1 # 0 /\ i - 1 \in Nat
    <3>1. g.pState = ActionNothing
      BY <1>5 DEF PromoteNothing
    <3> HIDE DEF g, i
    <3> QED BY <1>1, <1>3, <3>1
  <2>2. /\ rec \in Group /\ rec.servers = g.servers
        /\ rec.pState = ActionPreparing /\ rec.pIndex = i - 1
        /\ rec.oos = g.oos
    BY <1>2, <2>1 DEF Group, Actions
  <2>3. WellFormed(rec)
    BY <1>2, <2>1, <2>2 DEF WellFormed
  <2>4. PICK o \in Outcomes : Update(op.g, rec, o) /\ ContinueWith(o, op)
    BY <1>5 DEF PromoteNothing
  <2> HIDE DEF rec, i
  <2> QED BY <1>4, <1>5, <2>2, <2>3, <2>4 DEF PromoteNothing, ContinueWith
<1>6. CASE PromotePreparing
  <2> DEFINE rec == [g EXCEPT !.pState = ActionPrepared]
  <2>1. g.pState = ActionPreparing /\ i - 1 = g.pIndex /\ g.pIndex # 0
    BY <1>1, <1>2, <1>6 DEF PromotePreparing, ActionNothing, ActionPreparing,
         WellFormed
  <2>2. /\ rec \in Group /\ rec.servers = g.servers
        /\ rec.pState = ActionPrepared /\ rec.pIndex = i - 1
        /\ rec.oos = g.oos
    BY <1>2, <2>1 DEF Group, Actions
  <2>3. WellFormed(rec)
    BY <1>2, <2>1, <2>2 DEF WellFormed
  <2>4. PICK o \in Outcomes : Update(op.g, rec, o) /\ ContinueWith(o, op)
    BY <1>6 DEF PromotePreparing
  <2> HIDE DEF rec, i
  <2> QED BY <1>4, <1>6, <2>2, <2>3, <2>4 DEF PromotePreparing, ContinueWith
<1>7. CASE PromotePrepared
  <2> DEFINE rec == [memSen EXCEPT !.oos = TRUE]
  <2>1. rec \in Sentinel
    BY DEF TypeOK, Sentinel
  <2>2. /\ memSen' \in Sentinel /\ storeSen' \in Sentinel
        /\ \/ op' = [op EXCEPT !.pc = "promote.swap"]
           \/ op' = [op EXCEPT !.pc = "promote.unwatch"]
           \/ op' = Idle
    BY <1>7, <2>1, UpdateSentinelKeeps DEF PromotePrepared, ContinueWith, TypeOK
  <2>3. \A h \in Groups : jobs'[h].pc = "none"
    BY <1>7, IdleJobs DEF PromotePrepared
  <2>4. TypeOK' /\ GroupsWellFormed'
    <3>1. op' \in [pc : Steps, g : Groups \cup {None},
                   a : Addrs \cup Sentinels \cup {None}]
      BY <1>1, <2>2 DEF Idle, At, Steps
    <3>2. UNCHANGED <<store, mem, jobs, watcher, outside>>
      BY <1>7 DEF PromotePrepared
    <3> QED BY <2>2, <3>1, <3>2 DEF TypeOK, GroupsWellFormed, watcher, outside
  <2>5. ASSUME op' # Idle
        PROVE  OpOK'
    <3>1. /\ op'.pc \in {"promote.swap", "promote.unwatch"}
          /\ op'.g = op.g /\ op'.a = op.a
      BY <1>1, <2>2, <2>5
    <3>2. mem' = mem /\ g.pState = ActionPrepared
      BY <1>7 DEF PromotePrepared
    <3> QED BY <1>1, <3>1, <3>2 DEF OpOK, GroupSteps
  <2> QED BY <2>3, <2>4, <2>5, IdleInv DEF JobsOK, SyncFollowsStore
<1>8. CASE PromoteUnwatch
  <2>1. \A h \in Groups : jobs'[h].pc = "none"
    BY <1>8, IdleJobs DEF PromoteUnwatch, RemoveGroups
  <2>2. TypeOK' /\ GroupsWellFormed'
    BY <1>1, <1>8 DEF TypeOK, GroupsWellFormed, PromoteUnwatch, RemoveGroups, watcher,
         persisted, cached, Steps
  <2>3. /\ op'.pc = "promote.swap" /\ op'.g = op.g /\ op'.a = op.a
        /\ mem' = mem /\ g.pState = ActionPrepared
    BY <1>1, <1>8 DEF PromoteUnwatch, RemoveGroups, cached, OpOK
  <2>4. OpOK'
    BY <1>1, <2>3 DEF OpOK, GroupSteps
  <2> QED BY <2>1, <2>2, <2>4 DEF JobsOK, SyncFollowsStore
<1>9. CASE PromoteSwap
  <2> DEFINE t == SwapMaster(g.servers, g.pIndex + 1)
             rec == [g EXCEPT !.servers = t, !.pIndex = 0,
                              !.pState = ActionFinished]
  <2>1. op.pc = "promote.swap" /\ g.pIndex + 1 = i
    BY <1>1, <1>2, <1>3, <1>9 DEF PromoteSwap, OpOK, ActionPrepared, ActionNothing
  <2>2. /\ t \in Seq(Addrs) /\ IsInjective(t) /\ t # <<>> /\ t[1] = op.a
        /\ ToSet(t) = ToSet(g.servers) /\ 1 \in DOMAIN t
    BY <1>2, <1>3, <2>1, SwapKeepsServers
  <2> HIDE DEF t, i
  <2>3. /\ rec \in Group /\ rec.servers = t /\ rec.pIndex = 0
        /\ rec.pState = ActionFinished
    BY <1>2, <2>2 DEF Group, Actions
  <2>4. WellFormed(rec)
    BY <2>2, <2>3 DEF WellFormed, ActionFinished, ActionPreparing, ActionPrepared
  <2>5. GetServerIndex(rec, op.a) = 1
    BY <2>2, <2>3, ServerIndexUnique
  <2>6. PICK o \in Outcomes :
          /\ Update(op.g, rec, o)
          /\ ContinueWith(o, [op EXCEPT !.pc = "promote.sync"])
          /\ jobs' = IF o = "ok"
                     THEN [jobs EXCEPT ![op.g] = Job("sync", 1, FALSE)]
                     ELSE jobs
    BY <1>9 DEF PromoteSwap, t
  <2>7. /\ mem' \in [Groups -> Group \cup {None}]
        /\ store' \in [Groups -> Group \cup {None}]
        /\ GroupsWellFormed'
        /\ mem'[op.g] = rec /\ rec # None
        /\ o = "ok" => store'[op.g] = rec
    BY <1>1, <2>3, <2>4, <2>6, UpdateKeeps
  <2> HIDE DEF rec
  <2>8. TypeOK'
    BY <1>1, <1>9, <2>6, <2>7 DEF TypeOK, PromoteSwap, ContinueWith, watcher,
         outside, Idle, At, Steps, Job, JobSteps
  <2>9. \A h \in Groups : jobs[h].pc = "none"
    BY <2>1, IdleJobs
  <2>10. CASE o = "ok"
    <3>1. /\ op'.pc = "promote.sync" /\ op'.g = op.g /\ op'.a = op.a
          /\ jobs'[op.g] = Job("sync", 1, FALSE)
          /\ \A h \in Groups : h # op.g => jobs'[h].pc = "none"
      BY <1>1, <2>6, <2>9, <2>10 DEF ContinueWith, TypeOK
    <3>2. OpOK'
      BY <1>1, <2>2, <2>3, <2>5, <2>7, <3>1 DEF OpOK, GroupSteps, ActionFinished,
           ActionNothing
    <3>3. JobsOK' /\ SyncFollowsStore'
      BY <2>7, <2>10, <3>1 DEF JobsOK, SyncFollowsStore, Job
    <3> QED BY <2>7, <2>8, <3>2, <3>3
  <2>11. CASE o # "ok"
    BY <2>6, <2>7, <2>8, <2>9, <2>11, IdleInv DEF ContinueWith
  <2> QED BY <2>10, <2>11
<1>10. CASE PromoteSynced
  <2>1. /\ op.pc = "promote.sync" /\ op'.pc = "promote" /\ op'.g = op.g
        /\ op'.a = op.a /\ mem' = mem
    BY <1>1, <1>10 DEF PromoteSynced, cached
  <2>2. \A h \in Groups : jobs'[h].pc = "none"
    BY <1>1, <1>10, <2>1 DEF PromoteSynced, JobsOK, TypeOK, NoJob, Job
  <2>3. TypeOK' /\ GroupsWellFormed'
    BY <1>1, <1>10 DEF TypeOK, GroupsWellFormed, PromoteSynced, watcher, outside,
         persisted, cached, Steps, NoJob, Job, JobSteps
  <2>4. OpOK'
    BY <1>1, <2>1 DEF OpOK, GroupSteps
  <2> QED BY <2>2, <2>3, <2>4 DEF JobsOK, SyncFollowsStore
<1>11. CASE PromoteFinished
  <2> DEFINE rec == FreshGroup(g.servers, g.rPort, g.wPort)
  <2>1. rec \in Group /\ WellFormed(rec)
    BY <1>2 DEF FreshGroup, Group, WellFormed, Actions, ActionNothing,
         ActionPreparing, ActionPrepared
  <2>2. PICK o \in Outcomes : Replace(op.g, rec, o)
    BY <1>11 DEF PromoteFinished
  <2>3. /\ mem' \in [Groups -> Group \cup {None}]
        /\ store' \in [Groups -> Group \cup {None}]
        /\ GroupsWellFormed'
    BY <1>1, <2>1, <2>2, ReplaceKeeps
  <2>4. op' = Idle /\ \A h \in Groups : jobs'[h].pc = "none"
    BY <1>11, IdleJobs DEF PromoteFinished
  <2>5. TypeOK'
    BY <1>11, <2>3, <2>4 DEF TypeOK, PromoteFinished, watcher, outside, Idle, At,
         Steps
  <2> QED BY <2>3, <2>4, <2>5, IdleInv
<1> QED BY <1>5, <1>6, <1>7, <1>8, <1>9, <1>10, <1>11

(* DelSentinel and ResyncSentinels after the flag.                         *)
LEMMA SentinelStepInv ==
  ASSUME Inv,
         \/ DelSentinelRemove
         \/ DelSentinelDrop
         \/ ResyncSentinelsRemove
         \/ ResyncSentinelsMonitor
         \/ ResyncSentinelsClear
  PROVE  Inv'
<1> USE DEF Inv
<1>1. \A h \in Groups : jobs'[h].pc = "none"
  BY IdleJobs DEF DelSentinelRemove, RemoveGroupsAll, DelSentinelDrop, ResyncSentinelsRemove,
       ResyncSentinelsMonitor, ResyncSentinelsClear
<1>2. CASE DelSentinelRemove
  <2>1. op.a \in ToSet(memSen.servers) /\ op.a \in Sentinels
    BY <1>2 DEF DelSentinelRemove, RemoveGroupsAll, OpOK, TypeOK, Sentinel, ToSet
  <2>2. op' = Idle \/ op' = At("delsen.drop", None, op.a)
    BY <1>2 DEF DelSentinelRemove, RemoveGroupsAll
  <2>3. monitored' \in [Sentinels -> [Groups -> Addrs \cup {None}]]
    BY <1>2, <2>1 DEF DelSentinelRemove, RemoveGroupsAll, TypeOK
  <2>4. TypeOK' /\ GroupsWellFormed'
    BY <1>2, <2>1, <2>2, <2>3 DEF DelSentinelRemove, RemoveGroupsAll, TypeOK, GroupsWellFormed,
         persisted, cached, watcher, Idle, At, Steps
  <2>5. OpOK'
    BY <1>2, <2>1, <2>2 DEF DelSentinelRemove, RemoveGroupsAll, OpOK, cached, Idle, At, GroupSteps
  <2> QED BY <1>1, <2>4, <2>5 DEF JobsOK, SyncFollowsStore
<1>3. CASE DelSentinelDrop
  <2> DEFINE i == CHOOSE j \in DOMAIN memSen.servers : memSen.servers[j] = op.a
             rec == [memSen EXCEPT !.servers = RemoveAt(@, i)]
  <2>1. i \in DOMAIN memSen.servers
    BY <1>3 DEF DelSentinelDrop, OpOK, ToSet
  <2>2. memSen.servers \in Seq(Sentinels)
    BY DEF TypeOK, Sentinel
  <2>3. RemoveAt(memSen.servers, i) \in Seq(Sentinels)
    BY <2>1, <2>2, RemoveKeepsRest
  <2> HIDE DEF i
  <2>4. rec \in Sentinel
    BY <2>3 DEF TypeOK, Sentinel
  <2>5. PICK o \in Outcomes : UpdateSentinel(rec, o)
    BY <1>3 DEF DelSentinelDrop, i
  <2>6. memSen' \in Sentinel /\ storeSen' \in Sentinel
    BY <2>4, <2>5, UpdateSentinelKeeps
  <2>7. TypeOK' /\ GroupsWellFormed' /\ op' = Idle
    BY <1>3, <2>6 DEF DelSentinelDrop, TypeOK, GroupsWellFormed, watcher, outside,
         Idle, At, Steps
  <2> QED BY <1>1, <2>7, IdleInv
<1>4. CASE ResyncSentinelsRemove
  <2>1. monitored' \in [Sentinels -> [Groups -> Addrs \cup {None}]]
    BY <1>4 DEF ResyncSentinelsRemove, RemoveGroupsAll, TypeOK
  <2>2. TypeOK' /\ GroupsWellFormed'
    BY <1>4, <2>1 DEF ResyncSentinelsRemove, RemoveGroupsAll, TypeOK, GroupsWellFormed, persisted,
         cached, watcher, Steps
  <2>3. op'.pc = "ressen.monitor"
    BY <1>4 DEF ResyncSentinelsRemove, RemoveGroupsAll, TypeOK
  <2>4. OpOK'
    BY <2>3 DEF OpOK, GroupSteps
  <2> QED BY <1>1, <2>2, <2>4 DEF JobsOK, SyncFollowsStore
<1>5. CASE ResyncSentinelsMonitor
  <2> DEFINE all == ToSet(memSen.servers) \X {g \in Groups : HasMaster(mem[g])}
  <2>1. ASSUME NEW done \in SUBSET all, NEW gone
        PROVE  Monitors(done, gone) \in [Sentinels -> [Groups -> Addrs \cup {None}]]
    <3>1. ASSUME NEW s \in Sentinels, NEW g \in Groups, <<s, g>> \in done
          PROVE  mem[g].servers[1] \in Addrs
      <4>1. mem[g] # None /\ mem[g].servers # <<>>
        BY <2>1, <3>1 DEF HasMaster
      <4>2. mem[g].servers \in Seq(Addrs)
        BY <4>1, GroupRecord
      <4> QED BY <4>1, <4>2
    <3> QED BY <3>1 DEF Monitors, TypeOK
  <2>2. monitored' \in [Sentinels -> [Groups -> Addrs \cup {None}]]
    <3>1. \E done \in SUBSET all : \E gone : monitored' = Monitors(done, gone)
      BY <1>5 DEF ResyncSentinelsMonitor
    <3> HIDE DEF all
    <3> QED BY <2>1, <3>1
  <2>3. watch' \subseteq Sentinels
    BY <1>5 DEF ResyncSentinelsMonitor, TypeOK, Sentinel, ToSet
  <2>4. op' = Idle \/ op' = [op EXCEPT !.pc = "ressen.clear"]
    BY <1>5 DEF ResyncSentinelsMonitor
  <2>5. TypeOK' /\ GroupsWellFormed'
    <3>1. UNCHANGED <<persisted, cached, jobs, pending, todo, role>>
      BY <1>5 DEF ResyncSentinelsMonitor
    <3> QED BY <2>2, <2>3, <2>4, <3>1 DEF TypeOK, GroupsWellFormed, persisted,
         cached, Idle, At, Steps
  <2>6. OpOK'
    BY <2>4 DEF OpOK, TypeOK, Idle, At, GroupSteps
  <2> QED BY <1>1, <2>5, <2>6 DEF JobsOK, SyncFollowsStore
<1>6. CASE ResyncSentinelsClear
  <2> DEFINE rec == [memSen EXCEPT !.oos = FALSE]
  <2>1. rec \in Sentinel
    BY DEF TypeOK, Sentinel
  <2>2. memSen' \in Sentinel /\ storeSen' \in Sentinel
    BY <1>6, <2>1, UpdateSentinelKeeps DEF ResyncSentinelsClear
  <2>3. TypeOK' /\ GroupsWellFormed' /\ op' = Idle
    BY <1>6, <2>2 DEF ResyncSentinelsClear, TypeOK, GroupsWellFormed, watcher,
         outside, Idle, At, Steps
  <2> QED BY <1>1, <2>3, IdleInv
<1> QED BY <1>2, <1>3, <1>4, <1>5, <1>6

(* A failover's answer applied group by group.                             *)
LEMMA SwitchInv ==
  ASSUME Inv,
         \/ \E g \in Groups : trySwitchGroupMaster(g)
         \/ switchMastersReturn
  PROVE  Inv'
<1> USE DEF Inv
<1>1. op.pc = "switch" /\ \A h \in Groups : jobs'[h].pc = "none"
  BY IdleJobs DEF trySwitchGroupMaster, switchMastersReturn
<1>2. ASSUME NEW g \in Groups, trySwitchGroupMaster(g)
      PROVE  Inv'
  <2>1. /\ mem' \in [Groups -> Group \cup {None}]
        /\ store' \in [Groups -> Group \cup {None}]
        /\ GroupsWellFormed'
    <3>1. CASE UNCHANGED <<store, mem>>
      BY <3>1 DEF TypeOK, GroupsWellFormed
    <3>2. CASE /\ mem[g] # None
               /\ \E i \in NewMasterIndexes(mem[g].servers, todo[g]) :
                    /\ i > 1
                    /\ \E o \in Outcomes :
                         Update(g, [mem[g] EXCEPT !.servers = SwapMaster(@, i),
                                                  !.oos = TRUE], o)
      <4>1. PICK i \in NewMasterIndexes(mem[g].servers, todo[g]), o \in Outcomes :
              /\ i > 1
              /\ Update(g, [mem[g] EXCEPT !.servers = SwapMaster(@, i),
                                          !.oos = TRUE], o)
        BY <3>2
      <4> DEFINE t == SwapMaster(mem[g].servers, i)
                 rec == [mem[g] EXCEPT !.servers = t, !.oos = TRUE]
      <4>2. /\ mem[g] \in Group /\ mem[g].servers \in Seq(Addrs)
            /\ WellFormed(mem[g]) /\ IsInjective(mem[g].servers)
        BY <3>2, GroupRecord
      <4>3. i \in DOMAIN mem[g].servers
        BY <4>1, <4>2 DEF NewMasterIndexes
      <4>4. t \in Seq(Addrs) /\ IsInjective(t) /\ t # <<>>
        BY <4>2, <4>3, SwapKeepsServers
      <4>5. Update(g, rec, o)
        BY <4>1
      <4> HIDE DEF t
      <4>6. rec \in Group
        BY <4>2, <4>4 DEF Group
      <4>7. WellFormed(rec)
        BY <4>2, <4>4 DEF Group, WellFormed
      <4> QED BY <4>5, <4>6, <4>7, UpdateKeeps
    <3> QED BY <1>2, <3>1, <3>2 DEF trySwitchGroupMaster
  <2>2. todo' \in [Groups -> Addrs \cup {None}]
    BY <1>2 DEF trySwitchGroupMaster, TypeOK
  <2>3. UNCHANGED <<storeSen, memSen, op, jobs, watch, pending, outside>>
    BY <1>2 DEF trySwitchGroupMaster
  <2>4. TypeOK'
    BY <2>1, <2>2, <2>3 DEF TypeOK, outside
  <2>5. OpOK'
    BY <1>1, <2>3 DEF OpOK, GroupSteps
  <2> QED BY <1>1, <2>1, <2>4, <2>5 DEF JobsOK, SyncFollowsStore
<1>3. CASE switchMastersReturn
  <2>1. TypeOK' /\ GroupsWellFormed' /\ op' = Idle
    BY <1>3 DEF switchMastersReturn, TypeOK, GroupsWellFormed, persisted, cached,
         watcher, outside, Idle, At, Steps
  <2> QED BY <1>1, <2>1, IdleInv
<1> QED BY <1>2, <1>3

(* Failovers, fetched answers and a restart from the store.                *)
LEMMA EnvironmentInv ==
  ASSUME Inv, Environment
  PROVE  Inv'
<1> USE DEF Inv
<1>1. CASE Fetch
  <2>1. pending' \subseteq [Groups -> Addrs \cup {None}]
    BY <1>1 DEF Fetch, TypeOK
  <2>2. UNCHANGED <<persisted, cached, op, jobs, watch, todo, outside>>
    BY <1>1 DEF Fetch
  <2> QED BY <2>1, <2>2 DEF TypeOK, GroupsWellFormed, SyncFollowsStore, OpOK,
            JobsOK, persisted, cached, outside
<1>2. ASSUME NEW g \in Groups, NEW m \in Addrs, NEW a \in Addrs, Failover(g, m, a)
      PROVE  Inv'
  <2>1. monitored' \in [Sentinels -> [Groups -> Addrs \cup {None}]]
    BY <1>2 DEF Failover, TypeOK
  <2>2. role' \in [Addrs -> Addrs \cup {None}]
    BY <1>2 DEF Failover, TypeOK
  <2>3. UNCHANGED <<persisted, cached, op, jobs, watcher>>
    BY <1>2 DEF Failover
  <2> QED BY <2>1, <2>2, <2>3 DEF TypeOK, GroupsWellFormed, SyncFollowsStore,
            OpOK, JobsOK, persisted, cached, watcher
<1>3. CASE Restart
  <2>1. TypeOK'
    BY <1>3 DEF Restart, TypeOK, Sentinel, ToSet, persisted, outside, Idle, At,
         Steps, NoJob, Job, JobSteps, NoMasters
  <2>2. GroupsWellFormed' /\ op' = Idle /\ \A g \in Groups : jobs'[g].pc = "none"
    BY <1>3 DEF Restart, GroupsWellFormed, persisted, NoJob, Job
  <2> QED BY <2>1, <2>2, IdleInv
<1> QED BY <1>1, <1>2, <1>3 DEF Environment

-----------------------------------------------------------------------------

(* The empty coordinator and the caches read from it.                      *)
LEMMA InvInit == Init => Inv
<1> SUFFICES ASSUME Init PROVE Inv
  OBVIOUS
<1>1. storeSen \in Sentinel
  BY DEF Init, Sentinel
<1>2. TypeOK
  BY <1>1 DEF Init, TypeOK, Idle, At, Steps, NoJob, Job, JobSteps, NoMasters
<1> QED BY <1>2 DEF Init, Inv, GroupsWellFormed, SyncFollowsStore, OpOK, JobsOK,
          Idle, At, NoJob, Job, GroupSteps

(* Every step keeps the invariant.                                         *)
LEMMA InvNext == Inv /\ [Next]_vars => Inv'
<1> SUFFICES ASSUME Inv, [Next]_vars PROVE Inv'
  OBVIOUS
<1>1. CASE Request
  BY <1>1, GroupRequestInv, SentinelRequestInv DEF Request
<1>2. CASE Step
  BY <1>2, ServerListInv, ResyncInv, PromoteInv, SentinelStepInv, SwitchInv DEF Step
<1>3. CASE Environment
  BY <1>3, EnvironmentInv
<1>4. CASE UNCHANGED vars
  BY <1>4 DEF vars, Inv, TypeOK, GroupsWellFormed, SyncFollowsStore, OpOK, JobsOK
<1> QED BY <1>1, <1>2, <1>3, <1>4 DEF Next

(* The state of the service keeps its type, whichever writes, commands and *)
(* processes fail: in particular every record read back after a restart is *)
(* one the handlers can work on.                                           *)
THEOREM TypeCorrect == Spec => []TypeOK
<1>1. Inv => TypeOK
  BY DEF Inv
<1> QED BY <1>1, InvInit, InvNext, PTL DEF Spec

(* In the cache and in the coordinator, every group lists a server once,   *)
(* has a promotion index exactly before the swap of a promotion, and is    *)
(* not out of sync when it is empty, for any failures of writes, crashes   *)
(* and interleavings.                                                      *)
THEOREM WellFormedAlways == Spec => []GroupsWellFormed
<1>1. Inv => GroupsWellFormed
  BY DEF Inv
<1> QED BY <1>1, InvInit, InvNext, PTL DEF Spec

(* While resyncGroup sends its SLAVEOF commands the coordinator holds the  *)
(* record they come from, for any failures of writes.                      *)
THEOREM SyncFollowsStoreAlways == Spec => []SyncFollowsStore
<1>1. Inv => SyncFollowsStore
  BY DEF Inv
<1> QED BY <1>1, InvInit, InvNext, PTL DEF Spec

-----------------------------------------------------------------------------
(* Promotions.                                                             *)

(* What a step may do to the two copies of a group's record: change the    *)
(* cached one in place, never out of "finished" and into it only for the   *)
(* server that the request names ...                                       *)
Edits(g) ==
  /\ mem[g] # None /\ mem'[g] # None
  /\ store'[g] = store[g] \/ store'[g] = mem'[g]
  /\ mem[g].pState = ActionFinished => mem'[g].pState = ActionFinished
  /\ mem[g].pState # ActionFinished /\ mem'[g].pState = ActionFinished =>
       mem'[g].servers[1] = op.a

(* ... or write a record in which no promotion is going on, and read what  *)
(* is stored.                                                              *)
Rebuilds(g) ==
  /\ mem'[g] = mem[g] \/ mem'[g] = store'[g]
  /\ store'[g] = store[g] \/ store'[g] = None \/ store'[g].pState = ActionNothing

EditsOrRebuilds == \A g \in Groups : Edits(g) \/ Rebuilds(g)

(* A write in place that keeps "finished" and does not set it.             *)
LEMMA UpdateEdits ==
  ASSUME TypeOK, NEW g \in Groups, NEW rec \in Group, NEW o, Update(g, rec, o),
         mem[g] # None,
         mem[g].pState = ActionFinished => rec.pState = ActionFinished,
         \/ mem[g].pState = ActionFinished
         \/ rec.pState # ActionFinished
         \/ rec.servers[1] = op.a
  PROVE  EditsOrRebuilds
<1>1. /\ mem' = [mem EXCEPT ![g] = rec]
      /\ store' = [store EXCEPT ![g] = Written(store[g], rec, o)]
      /\ rec # None
  BY NoneAssumption DEF Update
<1>2. /\ mem'[g] = rec /\ (store'[g] = rec \/ store'[g] = store[g])
      /\ \A h \in Groups : h # g => mem'[h] = mem[h] /\ store'[h] = store[h]
  BY <1>1 DEF TypeOK, Written
<1>3. Edits(g)
  BY <1>1, <1>2 DEF Edits
<1>4. \A h \in Groups : h # g => Rebuilds(h)
  BY <1>2 DEF Rebuilds
<1> QED BY <1>3, <1>4 DEF EditsOrRebuilds

(* A write of a record of its own, without a promotion.                    *)
LEMMA ReplaceRebuilds ==
  ASSUME TypeOK, NEW g \in Groups, NEW rec, NEW o, Replace(g, rec, o),
         rec = None \/ rec.pState = ActionNothing
  PROVE  EditsOrRebuilds
<1>1. \A h \in Groups : Rebuilds(h)
  BY DEF Replace, Written, TypeOK, Rebuilds
<1> QED BY <1>1 DEF EditsOrRebuilds

(* The later steps of the requests.                                        *)
LEMMA StepEdits ==
  ASSUME Inv, Step
  PROVE  EditsOrRebuilds
<1> DEFINE g == mem[op.g]
<1>a. TypeOK /\ GroupsWellFormed /\ OpOK /\ JobsOK
  BY DEF Inv
<1>b. op.pc \in GroupSteps => /\ op.g \in Groups /\ g # None
                             /\ g \in Group /\ g.servers \in Seq(Addrs)
                             /\ IsInjective(g.servers)
  BY <1>a, GroupRecord DEF OpOK
<1>c. UNCHANGED <<store, mem>> => EditsOrRebuilds
  BY DEF EditsOrRebuilds, Rebuilds
<1>1. CASE AppendServer
  <2> DEFINE t == Append(g.servers, op.a)
             rec == [g EXCEPT !.servers = t]
  <2>1. op.pc = "add" /\ op.a \in Addrs
    BY <1>a, <1>1 DEF AppendServer, OpOK
  <2>2. op.g \in Groups /\ g # None /\ g \in Group /\ t \in Seq(Addrs)
    BY <1>b, <2>1, AppendKeepsServers DEF GroupSteps
  <2>3. PICK o \in Outcomes : Update(op.g, rec, o)
    BY <1>1 DEF AppendServer
  <2>4. rec \in Group /\ rec.pState = g.pState
    <3> HIDE DEF t
    <3> QED BY <2>2 DEF Group
  <2> HIDE DEF rec
  <2> QED BY <1>a, <2>2, <2>3, <2>4, UpdateEdits
<1>2. CASE RemoveServer
  <2> DEFINE i == GetServerIndex(g, op.a)
             t == RemoveAt(g.servers, i)
             rec == [g EXCEPT !.servers = t, !.oos = t # <<>> /\ (i # 1 \/ @)]
  <2>1. op.pc = "del" /\ op.a \in ToSet(g.servers)
    BY <1>a, <1>2 DEF RemoveServer, OpOK
  <2>2. op.g \in Groups /\ g # None /\ g \in Group /\ g.servers \in Seq(Addrs)
    BY <1>b, <2>1 DEF GroupSteps
  <2>3. t \in Seq(Addrs)
    BY <2>1, <2>2, ServerIndex, RemoveKeepsRest
  <2>4. PICK o \in Outcomes : Update(op.g, rec, o)
    BY <1>2 DEF RemoveServer
  <2>5. rec \in Group /\ rec.pState = g.pState
    <3> HIDE DEF t, i
    <3> QED BY <2>2, <2>3 DEF Group
  <2> HIDE DEF rec
  <2> QED BY <1>a, <2>2, <2>4, <2>5, UpdateEdits
<1>3. ASSUME NEW x \in Groups, ResetOutOfSync(x) \/ resyncGroupEnd(x),
             ~ UNCHANGED <<store, mem>>
      PROVE  EditsOrRebuilds
  <2>1. mem[x] # None /\ mem[x] \in Group
    BY <1>a, <1>3, GroupRecord DEF JobsOK, ResetOutOfSync, resyncGroupEnd
  <2>2. PICK b \in BOOLEAN, o \in Outcomes : Update(x, [mem[x] EXCEPT !.oos = b], o)
    BY <1>3 DEF ResetOutOfSync, resyncGroupEnd
  <2> DEFINE rec == [mem[x] EXCEPT !.oos = b]
  <2>3. rec \in Group /\ rec.pState = mem[x].pState /\ Update(x, rec, o)
    BY <2>1, <2>2 DEF Group
  <2> HIDE DEF rec
  <2> QED BY <1>a, <2>1, <2>3, UpdateEdits
<1>4. CASE PromoteNothing
  <2> DEFINE n == GetServerIndex(g, op.a) - 1
             rec == [g EXCEPT !.pIndex = n, !.pState = ActionPreparing]
  <2>1. op.pc = "promote" /\ op.a \in ToSet(g.servers) /\ g.pState = ActionNothing
    BY <1>a, <1>4 DEF PromoteNothing, OpOK
  <2>2. op.g \in Groups /\ g # None /\ g \in Group /\ g.servers \in Seq(Addrs)
    BY <1>b, <2>1 DEF GroupSteps
  <2>3. n \in Nat
    BY <2>1, <2>2, ServerIndex
  <2>4. PICK o \in Outcomes : Update(op.g, rec, o)
    BY <1>4 DEF PromoteNothing
  <2>5. rec \in Group /\ rec.pState = ActionPreparing
    <3> HIDE DEF n
    <3> QED BY <2>2, <2>3 DEF Group, Actions
  <2> HIDE DEF rec
  <2> QED BY <1>a, <2>1, <2>2, <2>4, <2>5, UpdateEdits
          DEF ActionNothing, ActionPreparing, ActionFinished
<1>5. CASE PromotePreparing
  <2> DEFINE rec == [g EXCEPT !.pState = ActionPrepared]
  <2>1. op.pc = "promote" /\ g.pState = ActionPreparing
    BY <1>5 DEF PromotePreparing
  <2>2. op.g \in Groups /\ g # None /\ g \in Group
    BY <1>b, <2>1 DEF GroupSteps
  <2>3. PICK o \in Outcomes : Update(op.g, rec, o)
    BY <1>5 DEF PromotePreparing
  <2>4. rec \in Group /\ rec.pState = ActionPrepared
    BY <2>2 DEF Group, Actions
  <2> HIDE DEF rec
  <2> QED BY <1>a, <2>1, <2>2, <2>3, <2>4, UpdateEdits
          DEF ActionPrepared, ActionPreparing, ActionFinished
<1>6. CASE PromoteSwap
  <2> DEFINE i == GetServerIndex(g, op.a)
             t == SwapMaster(g.servers, g.pIndex + 1)
             rec == [g EXCEPT !.servers = t, !.pIndex = 0, !.pState = ActionFinished]
  <2>1. /\ op.pc = "promote.swap" /\ op.a \in ToSet(g.servers)
        /\ i - 1 = g.pIndex
    BY <1>a, <1>6 DEF PromoteSwap, OpOK, ActionPrepared, ActionNothing
  <2>2. /\ op.g \in Groups /\ g # None /\ g \in Group /\ g.servers \in Seq(Addrs)
        /\ IsInjective(g.servers)
    BY <1>b, <2>1 DEF GroupSteps
  <2>3. i \in DOMAIN g.servers /\ g.servers[i] = op.a /\ g.pIndex + 1 = i
    BY <2>1, <2>2, ServerIndex DEF Group
  <2>4. t \in Seq(Addrs) /\ t[1] = op.a
    BY <2>2, <2>3, SwapKeepsServers
  <2>5. PICK o \in Outcomes : Update(op.g, rec, o)
    BY <1>6 DEF PromoteSwap
  <2>6. rec \in Group /\ rec.pState = ActionFinished /\ rec.servers = t
    <3> HIDE DEF t
    <3> QED BY <2>2, <2>4 DEF Group, Actions
  <2> HIDE DEF rec, t
  <2> QED BY <1>a, <2>2, <2>4, <2>5, <2>6, UpdateEdits
<1>7. CASE PromoteFinished
  <2> DEFINE rec == FreshGroup(g.servers, g.rPort, g.wPort)
  <2>1. op.g \in Groups
    BY <1>b, <1>7 DEF PromoteFinished, GroupSteps
  <2>2. rec.pState = ActionNothing
    BY DEF FreshGroup
  <2> QED BY <1>a, <1>7, <2>1, <2>2, ReplaceRebuilds DEF PromoteFinished
<1>8. ASSUME NEW x \in Groups, trySwitchGroupMaster(x), ~ UNCHANGED <<store, mem>>
      PROVE  EditsOrRebuilds
  <2>1. PICK i \in NewMasterIndexes(mem[x].servers, todo[x]), o \in Outcomes :
          /\ mem[x] # None /\ i > 1
          /\ Update(x, [mem[x] EXCEPT !.servers = SwapMaster(@, i), !.oos = TRUE], o)
    BY <1>8 DEF trySwitchGroupMaster
  <2>2. mem[x] \in Group /\ mem[x].servers \in Seq(Addrs) /\ IsInjective(mem[x].servers)
    BY <1>a, <2>1, GroupRecord
  <2>3. i \in DOMAIN mem[x].servers
    BY <2>1, <2>2 DEF NewMasterIndexes
  <2> DEFINE t == SwapMaster(mem[x].servers, i)
             rec == [mem[x] EXCEPT !.servers = t, !.oos = TRUE]
  <2>4. t \in Seq(Addrs)
    BY <2>2, <2>3, SwapKeepsServers
  <2>5. Update(x, rec, o)
    BY <2>1
  <2>6. rec \in Group /\ rec.pState = mem[x].pState
    <3> HIDE DEF t
    <3> QED BY <2>2, <2>4 DEF Group
  <2> HIDE DEF rec
  <2> QED BY <1>a, <2>1, <2>5, <2>6, UpdateEdits
<1>9. CASE UNCHANGED <<store, mem>>
  BY <1>c, <1>9
<1> QED BY <1>1, <1>2, <1>3, <1>4, <1>5, <1>6, <1>7, <1>8, <1>9 DEF Step,
      doSyncAction, ResyncGroupReturn, ResyncGroupAllReturn, PromotePrepared,
      PromoteUnwatch, PromoteSynced, DelSentinelRemove, DelSentinelDrop,
      ResyncSentinelsRemove, ResyncSentinelsMonitor, ResyncSentinelsClear,
      switchMastersReturn, persisted, cached

(* Every step.                                                             *)
LEMMA NextEdits ==
  ASSUME Inv, [Next]_vars
  PROVE  EditsOrRebuilds
<1>a. TypeOK
  BY DEF Inv
<1>1. ASSUME NEW g \in Groups, NEW r \in Ports, NEW w \in Ports, CreateGroup(g, r, w)
      PROVE  EditsOrRebuilds
  <2>1. FreshGroup(<<>>, r, w).pState = ActionNothing
    BY DEF FreshGroup
  <2> QED BY <1>a, <1>1, <2>1, ReplaceRebuilds DEF CreateGroup
<1>2. ASSUME NEW g \in Groups, RemoveGroup(g) PROVE EditsOrRebuilds
  BY <1>a, <1>2, ReplaceRebuilds DEF RemoveGroup
<1>3. CASE UNCHANGED <<store, mem>>
  BY <1>3 DEF EditsOrRebuilds, Rebuilds
<1>4. CASE Request
  BY <1>1, <1>2, <1>3, <1>4 DEF Request, ResyncGroup, AddGroupServer,
     DelGroupServer, GroupPromoteServer, GroupForceFullSyncServer, ResyncGroupAll,
     AddSentinel, DelSentinel, ResyncSentinels, switchMasters, persisted, cached
<1>5. CASE Restart
  BY <1>5 DEF Restart, persisted, EditsOrRebuilds, Rebuilds
<1>6. CASE Environment \/ UNCHANGED vars
  BY <1>3, <1>5, <1>6 DEF Environment, Fetch, Failover, persisted, cached, vars
<1> QED BY <1>4, <1>6, StepEdits DEF Next

(* A finished promotion that is stored is in the cache too, so that a new  *)
(* process does not find one that this process knows nothing of.           *)
FinishedIsKnown ==
  \A g \in Groups :
    store[g] # None /\ store[g].pState = ActionFinished =>
      mem[g] # None /\ mem[g].pState = ActionFinished

(* Either kind of step keeps it.                                           *)
LEMMA FinishedIsKnownNext ==
  ASSUME FinishedIsKnown, EditsOrRebuilds
  PROVE  FinishedIsKnown'
<1> SUFFICES ASSUME NEW g \in Groups, store'[g] # None,
                    store'[g].pState = ActionFinished
             PROVE  mem'[g] # None /\ mem'[g].pState = ActionFinished
  BY DEF FinishedIsKnown
<1>1. CASE Edits(g)
  BY <1>1 DEF Edits, FinishedIsKnown
<1>2. CASE Rebuilds(g)
  BY <1>2 DEF Rebuilds, FinishedIsKnown, ActionNothing, ActionFinished
<1> QED BY <1>1, <1>2 DEF EditsOrRebuilds

(* The server that a promotion makes master is the one that the request    *)
(* names, for any failures of writes, crashes and failovers in between.    *)
THEOREM PromotesTheNamedServerAlways == Spec => PromotesTheNamedServer
<1> DEFINE Named == \A g \in Groups :
                      /\ mem[g] # None /\ mem'[g] # None
                      /\ mem[g].pState # ActionFinished /\ mem'[g].pState = ActionFinished
                      => mem'[g].servers[1] = op.a
<1>1. Init => FinishedIsKnown
  BY DEF Init, FinishedIsKnown
<1>2. Inv /\ FinishedIsKnown /\ [Next]_vars => FinishedIsKnown'
  BY NextEdits, FinishedIsKnownNext
<1>3. ASSUME Inv, FinishedIsKnown, [Next]_vars PROVE [Named]_vars
  <2> SUFFICES ASSUME NEW g \in Groups, mem[g] # None, mem'[g] # None,
                      mem[g].pState # ActionFinished,
                      mem'[g].pState = ActionFinished
               PROVE  mem'[g].servers[1] = op.a
    OBVIOUS
  <2>1. CASE Edits(g)
    BY <2>1 DEF Edits
  <2>2. CASE Rebuilds(g)
    BY <1>3, <2>2 DEF Rebuilds, FinishedIsKnown, ActionNothing, ActionFinished
  <2> QED BY <1>3, <2>1, <2>2, NextEdits DEF EditsOrRebuilds
<1> QED BY <1>1, <1>2, <1>3, InvInit, InvNext, PTL DEF Spec, PromotesTheNamedServer
=============================================================================
