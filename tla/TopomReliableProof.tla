------------------------- MODULE TopomReliableProof -------------------------
(***************************************************************************)
(* Theorems about Topom while no write to the coordinator fails: processes *)
(* still stop at any point, and commands to servers and sentinels are lost *)
(* or done in part.                                                        *)
(***************************************************************************)
EXTENDS TopomProof

(* The cache and the coordinator agree at every step.                      *)
Coherent == mem = store /\ memSen = storeSen

ServersIn(g) == IF mem[g] = None THEN {} ELSE ToSet(mem[g].servers)

(* A server belongs to one group, and the one that AddGroupServer is about *)
(* to append to none.                                                      *)
Disjoint ==
  /\ \A g, h \in Groups : g # h => ServersIn(g) \cap ServersIn(h) = {}
  /\ op.pc = "add" => \A h \in Groups : op.a \notin ServersIn(h)

(* The steps that take groups away from sentinels or give a group its      *)
(* first server come after the flag.                                       *)
Flagged ==
  /\ op.pc \in {"add", "promote.unwatch"} =>
       memSen.servers = <<>> \/ memSen.oos
  /\ op.pc \in {"delsen.remove", "delsen.drop", "ressen.remove",
                "ressen.monitor"} => memSen.oos

AllMonitored ==
  \A s \in ToSet(memSen.servers), g \in Groups :
    ServersIn(g) # {} => monitored[s][g] # None

InSync == ~memSen.oos \/ op.pc = "ressen.clear" => AllMonitored

ReliableInv == Inv /\ Coherent /\ Disjoint /\ Flagged /\ InSync

-----------------------------------------------------------------------------
(* A write of the cached record, and of a record of its own, when writes   *)
(* do not fail.                                                            *)
LEMMA ReliableWrite ==
  ASSUME WriteFaults = {}, Coherent, NEW g \in Groups, NEW rec, NEW o \in Outcomes,
         Update(g, rec, o) \/ Replace(g, rec, o)
  PROVE  o = "ok" /\ mem' = [mem EXCEPT ![g] = rec] /\ store' = mem'
BY DEF Outcomes, Update, Replace, Written, Coherent

(* The same of the sentinels' record.                                      *)
LEMMA ReliableSentinelWrite ==
  ASSUME WriteFaults = {}, NEW rec, NEW o \in Outcomes, UpdateSentinel(rec, o)
  PROVE  o = "ok" /\ memSen' = rec /\ storeSen' = rec
BY DEF Outcomes, UpdateSentinel, Written

(* outOfSyncBySentinel leaves the flag set in both places, or there is no  *)
(* sentinel.                                                               *)
LEMMA ReliableFlag ==
  ASSUME WriteFaults = {}, TypeOK, Coherent, NEW next, outOfSyncBySentinel(next)
  PROVE  /\ op' = next /\ memSen' = storeSen'
         /\ memSen'.servers = memSen.servers
         /\ memSen'.servers = <<>> \/ memSen'.oos
         /\ memSen'.oos \/ memSen' = memSen
<1>1. [memSen EXCEPT !.oos = TRUE].oos /\ [memSen EXCEPT !.oos = TRUE].servers = memSen.servers
  BY DEF TypeOK, Sentinel
<1>2. CASE memSen.servers = <<>>
  BY <1>2 DEF outOfSyncBySentinel, Coherent
<1>3. CASE memSen.servers # <<>>
  <2>1. PICK o \in Outcomes : /\ UpdateSentinel([memSen EXCEPT !.oos = TRUE], o)
                             /\ ContinueWith(o, next)
    BY <1>3 DEF outOfSyncBySentinel
  <2>2. /\ o = "ok" /\ memSen' = [memSen EXCEPT !.oos = TRUE]
        /\ storeSen' = memSen'
    BY <2>1, ReliableSentinelWrite
  <2> QED BY <1>1, <2>1, <2>2 DEF ContinueWith
<1> QED BY <1>2, <1>3

(* No step of a reliable coordinator leaves the cache apart from it.       *)
LEMMA CoherentNext ==
  ASSUME WriteFaults = {}, Inv, Coherent, Next
  PROVE  Coherent'
<1> USE DEF Coherent
<1> TypeOK
  BY DEF Inv
<1>1. CASE Request
  <2>1. ASSUME NEW g \in Groups, NEW r \in Ports, NEW w \in Ports, CreateGroup(g, r, w)
        PROVE  Coherent'
    BY <2>1, ReliableWrite DEF CreateGroup
  <2>2. ASSUME NEW g \in Groups, RemoveGroup(g) PROVE Coherent'
    BY <2>2, ReliableWrite DEF RemoveGroup
  <2>3. ASSUME NEW g \in Groups, NEW a \in Addrs, AddGroupServer(g, a) PROVE Coherent'
    BY <2>3, ReliableFlag DEF AddGroupServer
  <2>4. ASSUME NEW g \in Groups, NEW a \in Addrs, DelGroupServer(g, a) PROVE Coherent'
    BY <2>4, ReliableFlag DEF DelGroupServer
  <2>5. ASSUME NEW s \in Sentinels, AddSentinel(s) \/ DelSentinel(s) PROVE Coherent'
    BY <2>5, ReliableSentinelWrite DEF AddSentinel, DelSentinel
  <2>6. CASE ResyncSentinels
    BY <2>6, ReliableSentinelWrite DEF ResyncSentinels
  <2>7. CASE \/ \E g \in Groups : ResyncGroup(g)
             \/ \E g \in Groups, a \in Addrs :
                  GroupPromoteServer(g, a) \/ GroupForceFullSyncServer(g, a)
             \/ ResyncGroupAll \/ switchMasters
    BY <2>7 DEF ResyncGroup, GroupPromoteServer, GroupForceFullSyncServer,
         ResyncGroupAll, switchMasters, persisted, cached
  <2> QED BY <1>1, <2>1, <2>2, <2>3, <2>4, <2>5, <2>6, <2>7 DEF Request
<1>2. CASE Step
  <2>a. op.pc \in GroupSteps => op.g \in Groups
    BY DEF Inv, OpOK
  <2>1. CASE AppendServer \/ RemoveServer
    BY <2>a, <2>1, ReliableWrite DEF AppendServer, RemoveServer, GroupSteps
  <2>2. ASSUME NEW g \in Groups, ResetOutOfSync(g) \/ resyncGroupEnd(g) PROVE Coherent'
    BY <2>2, ReliableWrite DEF ResetOutOfSync, resyncGroupEnd
  <2>3. CASE PromoteNothing \/ PromotePreparing
    BY <2>a, <2>3, ReliableWrite DEF PromoteNothing, PromotePreparing, GroupSteps
  <2>4. CASE PromotePrepared
    BY <2>4, ReliableSentinelWrite DEF PromotePrepared
  <2>5. CASE PromoteSwap \/ PromoteFinished
    BY <2>a, <2>5, ReliableWrite DEF PromoteSwap, PromoteFinished, GroupSteps
  <2>6. CASE DelSentinelDrop \/ ResyncSentinelsClear
    BY <2>6, ReliableSentinelWrite DEF DelSentinelDrop, ResyncSentinelsClear
  <2>7. ASSUME NEW g \in Groups, trySwitchGroupMaster(g) PROVE Coherent'
    BY <2>7, ReliableWrite DEF trySwitchGroupMaster
  <2>8. CASE \/ \E g \in Groups : doSyncAction(g)
             \/ ResyncGroupReturn \/ ResyncGroupAllReturn
             \/ PromoteUnwatch \/ PromoteSynced \/ DelSentinelRemove
             \/ ResyncSentinelsRemove \/ ResyncSentinelsMonitor
             \/ switchMastersReturn
    BY <2>8 DEF doSyncAction, ResyncGroupReturn, ResyncGroupAllReturn,
         PromoteUnwatch, PromoteSynced, DelSentinelRemove, ResyncSentinelsRemove,
         ResyncSentinelsMonitor, switchMastersReturn, persisted, cached
  <2> QED BY <1>2, <2>1, <2>2, <2>3, <2>4, <2>5, <2>6, <2>7, <2>8 DEF Step
<1>3. CASE Environment
  BY <1>3 DEF Environment, Fetch, Failover, Restart, persisted, cached
<1> QED BY <1>1, <1>2, <1>3 DEF Next
-----------------------------------------------------------------------------
(* Which steps give a group a server.                                      *)

(* A record that lists no other servers than the one it takes the place    *)
(* of gives the group none.                                                *)
LEMMA NoNewServers ==
  ASSUME TypeOK, NEW g \in Groups, NEW rec, mem' = [mem EXCEPT ![g] = rec],
         rec # None => ToSet(rec.servers) \subseteq ServersIn(g)
  PROVE  \A h \in Groups : ServersIn(h)' \subseteq ServersIn(h)
BY DEF TypeOK, ServersIn

(* Only the last step of AddGroupServer gives a group a server, and that   *)
(* one is the server the request names.                                    *)
LEMMA ServersNext ==
  ASSUME WriteFaults = {}, Inv, Coherent, Next
  PROVE  \/ \A h \in Groups : ServersIn(h)' \subseteq ServersIn(h)
         \/ /\ op.pc = "add" /\ op' = Idle /\ memSen' = memSen
            /\ \A h \in Groups : ServersIn(h)' \subseteq
                  ServersIn(h) \cup (IF h = op.g THEN {op.a} ELSE {})
<1> DEFINE Fewer == \A h \in Groups : ServersIn(h)' \subseteq ServersIn(h)
<1>a. TypeOK /\ GroupsWellFormed /\ OpOK
  BY DEF Inv
<1>b. mem' = mem => Fewer
  BY DEF ServersIn
<1>1. CASE Request
  <2>1. ASSUME NEW g \in Groups, NEW r \in Ports, NEW w \in Ports, CreateGroup(g, r, w)
        PROVE  Fewer
    <3>1. mem' = [mem EXCEPT ![g] = FreshGroup(<<>>, r, w)]
      BY <2>1, ReliableWrite DEF CreateGroup
    <3>2. ToSet(FreshGroup(<<>>, r, w).servers) = {}
      BY DEF FreshGroup, ToSet
    <3> QED BY <1>a, <3>1, <3>2, NoNewServers
  <2>2. ASSUME NEW g \in Groups, RemoveGroup(g) PROVE Fewer
    BY <1>a, <2>2, ReliableWrite, NoNewServers DEF RemoveGroup
  <2>3. CASE mem' # mem
    BY <1>1, <2>1, <2>2, <2>3 DEF Request, ResyncGroup, AddGroupServer,
         DelGroupServer, GroupPromoteServer, GroupForceFullSyncServer,
         ResyncGroupAll, AddSentinel, DelSentinel, ResyncSentinels,
         switchMasters, cached
  <2> QED BY <1>b, <2>3
<1>2. CASE Step
  <2> DEFINE g == mem[op.g]
  <2>a. op.pc \in GroupSteps => /\ op.g \in Groups /\ g # None
                               /\ g \in Group /\ g.servers \in Seq(Addrs)
                               /\ IsInjective(g.servers)
    BY <1>a, GroupRecord DEF OpOK
  <2>1. CASE AppendServer
    <3>1. mem' = [mem EXCEPT ![op.g] = [g EXCEPT !.servers = Append(@, op.a)]]
      BY <2>a, <2>1, ReliableWrite DEF AppendServer, GroupSteps
    <3>2. /\ op.pc = "add" /\ op' = Idle /\ memSen' = memSen
          /\ op.g \in Groups /\ op.a \in Addrs
      BY <1>a, <2>a, <2>1 DEF AppendServer, OpOK, GroupSteps
    <3>3. ToSet(Append(g.servers, op.a)) = ToSet(g.servers) \cup {op.a}
      BY <2>a, <3>2, AppendKeepsServers DEF GroupSteps
    <3>4. \A h \in Groups : ServersIn(h)' \subseteq
            ServersIn(h) \cup (IF h = op.g THEN {op.a} ELSE {})
      BY <1>a, <2>a, <3>1, <3>2, <3>3 DEF ServersIn, TypeOK, Group, GroupSteps
    <3> QED BY <3>2, <3>4
  <2>2. CASE RemoveServer
    <3> DEFINE i == GetServerIndex(g, op.a)
               left == RemoveAt(g.servers, i)
               rec == [g EXCEPT !.servers = left,
                                !.oos = left # <<>> /\ (i # 1 \/ @)]
    <3>1. op.pc = "del" /\ op.a \in ToSet(g.servers)
      BY <1>a, <2>2 DEF RemoveServer, OpOK
    <3>2. mem' = [mem EXCEPT ![op.g] = rec]
      BY <2>a, <2>2, <3>1, ReliableWrite DEF RemoveServer, GroupSteps
    <3>3. i \in DOMAIN g.servers
      BY <2>a, <3>1, ServerIndex DEF GroupSteps
    <3>4. ToSet(left) \subseteq ToSet(g.servers)
      BY <2>a, <3>1, <3>3, RemoveKeepsRest DEF GroupSteps
    <3> HIDE DEF left, i
    <3>5. rec.servers = left
      BY <2>a, <3>1 DEF Group, GroupSteps
    <3>6. ToSet(rec.servers) \subseteq ServersIn(op.g)
      BY <2>a, <3>1, <3>4, <3>5 DEF ServersIn, GroupSteps
    <3> HIDE DEF rec
    <3> QED BY <1>a, <2>a, <3>1, <3>2, <3>6, NoNewServers DEF GroupSteps
  <2>3. ASSUME NEW x \in Groups, ResetOutOfSync(x) \/ resyncGroupEnd(x) PROVE Fewer
    <3>1. mem[x] # None /\ mem[x] \in Group
      BY <1>a, <2>3, GroupRecord DEF Inv, JobsOK, ResetOutOfSync, resyncGroupEnd
    <3>2. \/ mem' = mem
          \/ \E b \in BOOLEAN : mem' = [mem EXCEPT ![x] = [mem[x] EXCEPT !.oos = b]]
      BY <2>3, ReliableWrite DEF ResetOutOfSync, resyncGroupEnd
    <3>3. \A b \in BOOLEAN : [mem[x] EXCEPT !.oos = b].servers = mem[x].servers
      BY <3>1 DEF Group
    <3> QED BY <1>a, <1>b, <3>1, <3>2, <3>3, NoNewServers DEF ServersIn
  <2>4. CASE PromoteNothing \/ PromotePreparing
    <3>1. op.pc = "promote"
      BY <2>4 DEF PromoteNothing, PromotePreparing
    <3>2. \E rec : mem' = [mem EXCEPT ![op.g] = rec] /\ rec.servers = g.servers
      <4>1. CASE PromoteNothing
        <5> DEFINE rec == [g EXCEPT !.pIndex = GetServerIndex(g, op.a) - 1,
                                    !.pState = ActionPreparing]
        <5>1. mem' = [mem EXCEPT ![op.g] = rec]
          BY <2>a, <3>1, <4>1, ReliableWrite DEF PromoteNothing, GroupSteps
        <5>2. rec.servers = g.servers
          BY <2>a, <3>1 DEF Group, GroupSteps
        <5> QED BY <5>1, <5>2
      <4>2. CASE PromotePreparing
        <5> DEFINE rec == [g EXCEPT !.pState = ActionPrepared]
        <5>1. mem' = [mem EXCEPT ![op.g] = rec]
          BY <2>a, <3>1, <4>2, ReliableWrite DEF PromotePreparing, GroupSteps
        <5>2. rec.servers = g.servers
          BY <2>a, <3>1 DEF Group, GroupSteps
        <5> QED BY <5>1, <5>2
      <4> QED BY <2>4, <4>1, <4>2
    <3> QED BY <1>a, <2>a, <3>1, <3>2, NoNewServers DEF ServersIn, GroupSteps
  <2>5. CASE PromoteSwap
    <3> DEFINE t == SwapMaster(g.servers, g.pIndex + 1)
               rec == [g EXCEPT !.servers = t, !.pIndex = 0, !.pState = ActionFinished]
    <3>1. /\ op.pc = "promote.swap" /\ op.a \in ToSet(g.servers)
          /\ g.pState = ActionPrepared
          /\ GetServerIndex(g, op.a) - 1 = g.pIndex
      BY <1>a, <2>5 DEF PromoteSwap, OpOK, ActionPrepared, ActionNothing
    <3>2. mem' = [mem EXCEPT ![op.g] = rec]
      BY <2>a, <2>5, <3>1, ReliableWrite DEF PromoteSwap, GroupSteps
    <3>3. g.pIndex + 1 \in DOMAIN g.servers
      BY <2>a, <3>1, ServerIndex DEF GroupSteps, Group
    <3>4. ToSet(t) = ToSet(g.servers)
      BY <2>a, <3>1, <3>3, SwapKeepsServers DEF GroupSteps
    <3> HIDE DEF t
    <3>5. rec.servers = t
      BY <2>a, <3>1 DEF Group, GroupSteps
    <3>6. ToSet(rec.servers) \subseteq ServersIn(op.g)
      BY <2>a, <3>1, <3>4, <3>5 DEF ServersIn, GroupSteps
    <3> HIDE DEF rec
    <3> QED BY <1>a, <2>a, <3>1, <3>2, <3>6, NoNewServers DEF GroupSteps
  <2>6. CASE PromoteFinished
    <3>1. op.pc = "promote"
      BY <2>6 DEF PromoteFinished
    <3>2. mem' = [mem EXCEPT ![op.g] = FreshGroup(g.servers, g.rPort, g.wPort)]
      BY <2>a, <2>6, <3>1, ReliableWrite DEF PromoteFinished, GroupSteps
    <3>3. ToSet(FreshGroup(g.servers, g.rPort, g.wPort).servers) \subseteq ServersIn(op.g)
      BY <2>a, <3>1 DEF FreshGroup, ServersIn, GroupSteps
    <3> QED BY <1>a, <2>a, <3>1, <3>2, <3>3, NoNewServers DEF GroupSteps
  <2>7. ASSUME NEW x \in Groups, trySwitchGroupMaster(x) PROVE Fewer
    <3>1. CASE mem' = mem
      BY <1>b, <3>1
    <3>2. CASE mem' # mem
      <4>1. PICK i \in NewMasterIndexes(mem[x].servers, todo[x]), o \in Outcomes :
              /\ mem[x] # None /\ i > 1
              /\ Update(x, [mem[x] EXCEPT !.servers = SwapMaster(@, i),
                                          !.oos = TRUE], o)
        BY <2>7, <3>2 DEF trySwitchGroupMaster
      <4>2. mem[x] \in Group /\ mem[x].servers \in Seq(Addrs) /\ IsInjective(mem[x].servers)
        BY <1>a, <4>1, GroupRecord
      <4>3. i \in DOMAIN mem[x].servers
        BY <4>1, <4>2 DEF NewMasterIndexes
      <4> DEFINE t == SwapMaster(mem[x].servers, i)
                 rec == [mem[x] EXCEPT !.servers = t, !.oos = TRUE]
      <4>4. mem' = [mem EXCEPT ![x] = rec]
        BY <4>1, ReliableWrite
      <4>5. ToSet(t) = ToSet(mem[x].servers)
        BY <4>2, <4>3, SwapKeepsServers
      <4> HIDE DEF t
      <4>6. rec.servers = t
        BY <4>2 DEF Group
      <4>7. ToSet(rec.servers) \subseteq ServersIn(x)
        BY <4>1, <4>5, <4>6 DEF ServersIn
      <4> HIDE DEF rec
      <4> QED BY <1>a, <4>4, <4>7, NoNewServers
    <3> QED BY <3>1, <3>2
  <2>8. CASE mem' = mem
    BY <1>b, <2>8
  <2> QED BY <1>2, <2>1, <2>2, <2>3, <2>4, <2>5, <2>6, <2>7, <2>8 DEF Step,
        doSyncAction, ResyncGroupReturn, ResyncGroupAllReturn, PromotePrepared,
        PromoteUnwatch, PromoteSynced, DelSentinelRemove, DelSentinelDrop,
        ResyncSentinelsRemove, ResyncSentinelsMonitor, ResyncSentinelsClear,
        switchMastersReturn, cached
<1>3. CASE Environment
  BY <1>b, <1>3 DEF Environment, Fetch, Failover, Restart, cached, Coherent
<1> QED BY <1>1, <1>2, <1>3 DEF Next
-----------------------------------------------------------------------------
(* Servers belong to one group.                                            *)

(* A request is about to append a server only when AddGroupServer has just *)
(* looked for it in every group, or no group has changed since.            *)
LEMMA AddNext ==
  ASSUME Inv, Next, op'.pc = "add"
  PROVE  /\ mem' = mem
         /\ \/ op' = op
            \/ \A h \in Groups : op'.a \notin ServersIn(h)
<1>a. Idle.pc # "add"
  BY DEF Idle, At
<1>b. op.pc = "add" => \A g \in Groups : jobs[g].pc = "none"
  BY IdleJobs
<1>1. CASE Request
  <2>1. ASSUME NEW g \in Groups, NEW a \in Addrs, AddGroupServer(g, a)
        PROVE  mem' = mem /\ \A h \in Groups : op'.a \notin ServersIn(h)
    <3>1. op'.a = a
      BY <1>a, <2>1, OutOfSyncKeeps DEF AddGroupServer, At, Inv
    <3> QED BY <2>1, <3>1 DEF AddGroupServer, ServersIn
  <2>2. ASSUME NEW g \in Groups, NEW a \in Addrs, DelGroupServer(g, a)
        PROVE  FALSE
    BY <1>a, <2>2, OutOfSyncKeeps DEF DelGroupServer, At, Inv
  <2>3. CASE \E g \in Groups : ResyncGroup(g) \/ \E a \in Addrs : GroupPromoteServer(g, a)
    <3>1. \E g, a : op' = At("resync", g, a) \/ op' = At("promote", g, a)
      BY <2>3 DEF ResyncGroup, GroupPromoteServer
    <3> QED BY <3>1 DEF At
  <2>4. CASE \/ \E s \in Sentinels : DelSentinel(s)
             \/ ResyncSentinels \/ ResyncGroupAll \/ switchMasters
    <3>1. \/ op' = Idle
          \/ \E a : \/ op' = At("delsen.remove", None, a)
                  \/ op' = At("ressen.remove", None, a)
                  \/ op' = At("resyncall", None, a)
                  \/ op' = At("switch", None, a)
      BY <2>4 DEF DelSentinel, ResyncSentinels, ResyncGroupAll, switchMasters,
           ContinueWith
    <3> QED BY <1>a, <3>1 DEF At
  <2>5. CASE op' = Idle
    BY <1>a, <2>5
  <2> QED BY <1>1, <2>1, <2>2, <2>3, <2>4, <2>5 DEF Request, CreateGroup, RemoveGroup,
        GroupForceFullSyncServer, AddSentinel
<1>2. CASE Step
  <2>a. op \in [pc : Steps, g : Groups \cup {None}, a : Addrs \cup Sentinels \cup {None}]
    BY DEF Inv, TypeOK
  <2>1. CASE \/ \E g \in Groups : \/ ResetOutOfSync(g) \/ doSyncAction(g)
                                  \/ resyncGroupEnd(g) \/ trySwitchGroupMaster(g)
    BY <1>b, <2>1 DEF ResetOutOfSync, doSyncAction, resyncGroupEnd,
         trySwitchGroupMaster, cached
  <2>2. CASE PromoteNothing \/ PromotePreparing \/ PromotePrepared
    BY <1>a, <2>a, <2>2 DEF PromoteNothing, PromotePreparing, PromotePrepared,
         ContinueWith
  <2>3. CASE PromoteUnwatch \/ PromoteSwap \/ PromoteSynced
    BY <1>a, <2>a, <2>3 DEF PromoteUnwatch, PromoteSwap, PromoteSynced, ContinueWith
  <2>4. CASE DelSentinelRemove \/ ResyncSentinelsRemove \/ ResyncSentinelsMonitor
    BY <1>a, <2>a, <2>4 DEF DelSentinelRemove, ResyncSentinelsRemove,
         ResyncSentinelsMonitor, At
  <2>5. CASE op' = Idle
    BY <1>a, <2>5
  <2> QED BY <1>2, <2>1, <2>2, <2>3, <2>4, <2>5 DEF Step, AppendServer, RemoveServer,
        ResyncGroupReturn, ResyncGroupAllReturn, PromoteFinished, DelSentinelDrop,
        ResyncSentinelsClear, switchMastersReturn
<1>3. CASE Environment
  BY <1>3, <1>a DEF Environment, Fetch, Failover, Restart, cached
<1> QED BY <1>1, <1>2, <1>3 DEF Next

(* No step puts a server in two groups.                                    *)
LEMMA DisjointNext ==
  ASSUME WriteFaults = {}, Inv, Coherent, Disjoint, Next
  PROVE  Disjoint'
<1>1. \A g, h \in Groups : g # h => ServersIn(g)' \cap ServersIn(h)' = {}
  <2>1. CASE \A h \in Groups : ServersIn(h)' \subseteq ServersIn(h)
    BY <2>1 DEF Disjoint
  <2>2. CASE /\ op.pc = "add"
             /\ \A h \in Groups : ServersIn(h)' \subseteq
                  ServersIn(h) \cup (IF h = op.g THEN {op.a} ELSE {})
    BY <2>2 DEF Disjoint
  <2> QED BY <2>1, <2>2, ServersNext
<1>2. op'.pc = "add" => \A h \in Groups : op'.a \notin ServersIn(h)'
  BY AddNext DEF Disjoint, ServersIn
<1> QED BY <1>1, <1>2 DEF Disjoint
-----------------------------------------------------------------------------
(* The flag is set before sentinels lose a group, or a group gets a master *)
(* they do not know.                                                       *)

(* The flag written in place of the sentinels' record.                     *)
LEMMA MarkedRecord ==
  ASSUME TypeOK, NEW b \in BOOLEAN
  PROVE  /\ [memSen EXCEPT !.oos = b].oos = b
         /\ [memSen EXCEPT !.oos = b].servers = memSen.servers
BY DEF TypeOK, Sentinel

(* A request reaches a step that takes groups away from sentinels, or that *)
(* appends a server, with the flag set or without sentinels.               *)
LEMMA FlaggedNext ==
  ASSUME WriteFaults = {}, Inv, Coherent, Flagged, Next
  PROVE  Flagged'
<1>a. TypeOK /\ op \in [pc : Steps, g : Groups \cup {None},
                        a : Addrs \cup Sentinels \cup {None}]
  BY DEF Inv, TypeOK
<1>b. op' = Idle => Flagged'
  BY DEF Flagged, Idle, At
<1>c. op' = op /\ memSen' = memSen => Flagged'
  BY DEF Flagged
<1>d. memSen'.oos => Flagged'
  BY DEF Flagged
<1>1. CASE Request
  <2>1. ASSUME NEW g \in Groups, NEW a \in Addrs,
               AddGroupServer(g, a) \/ DelGroupServer(g, a)
        PROVE  Flagged'
    <3>1. /\ op' = At("add", g, a) \/ op' = At("del", g, a)
          /\ memSen'.servers = <<>> \/ memSen'.oos
      BY <1>a, <2>1, ReliableFlag DEF AddGroupServer, DelGroupServer
    <3> QED BY <3>1 DEF Flagged, At
  <2>2. CASE \E g \in Groups : ResyncGroup(g) \/ \E a \in Addrs : GroupPromoteServer(g, a)
    <3>1. \E g, a : op' = At("resync", g, a) \/ op' = At("promote", g, a)
      BY <2>2 DEF ResyncGroup, GroupPromoteServer
    <3> QED BY <3>1 DEF Flagged, At
  <2>3. CASE ResyncGroupAll \/ switchMasters
    <3>1. op' = At("resyncall", None, None) \/ op' = At("switch", None, None)
      BY <2>3 DEF ResyncGroupAll, switchMasters
    <3> QED BY <3>1 DEF Flagged, At
  <2>4. CASE (\E s \in Sentinels : DelSentinel(s)) \/ ResyncSentinels
    <3>1. memSen' = [memSen EXCEPT !.oos = TRUE]
      BY <2>4, ReliableSentinelWrite DEF DelSentinel, ResyncSentinels
    <3> QED BY <1>a, <1>d, <3>1, MarkedRecord
  <2> QED BY <1>1, <1>b, <2>1, <2>2, <2>3, <2>4 DEF Request, CreateGroup, RemoveGroup,
        GroupForceFullSyncServer, AddSentinel
<1>2. CASE Step
  <2>1. CASE PromotePrepared
    <3>1. CASE memSen.servers = <<>>
      BY <1>a, <2>1, <3>1 DEF PromotePrepared, Flagged
    <3>2. CASE memSen.servers # <<>>
      <4>1. memSen' = [memSen EXCEPT !.oos = TRUE]
        BY <2>1, <3>2, ReliableSentinelWrite DEF PromotePrepared
      <4> QED BY <1>a, <1>d, <4>1, MarkedRecord
    <3> QED BY <3>1, <3>2
  <2>2. CASE PromoteNothing \/ PromotePreparing
    BY <1>b, <1>c, <2>2 DEF PromoteNothing, PromotePreparing, ContinueWith
  <2>3. CASE PromoteUnwatch \/ PromoteSwap \/ PromoteSynced
    <3>1. op' = Idle \/ op'.pc \in {"promote.swap", "promote.sync", "promote"}
      BY <1>a, <2>3 DEF PromoteUnwatch, PromoteSwap, PromoteSynced, ContinueWith
    <3> QED BY <1>b, <3>1 DEF Flagged
  <2>4. CASE DelSentinelRemove \/ ResyncSentinelsRemove \/ ResyncSentinelsMonitor
    <3>1. memSen' = memSen /\ memSen.oos
      BY <2>4 DEF DelSentinelRemove, ResyncSentinelsRemove, ResyncSentinelsMonitor,
           cached, Flagged
    <3> QED BY <1>d, <3>1
  <2>5. CASE \E g \in Groups : \/ ResetOutOfSync(g) \/ doSyncAction(g)
                               \/ resyncGroupEnd(g) \/ trySwitchGroupMaster(g)
    BY <1>c, <2>5 DEF ResetOutOfSync, doSyncAction, resyncGroupEnd,
         trySwitchGroupMaster, cached
  <2> QED BY <1>2, <1>b, <2>1, <2>2, <2>3, <2>4, <2>5 DEF Step, AppendServer,
        RemoveServer, ResyncGroupReturn, ResyncGroupAllReturn, PromoteFinished,
        DelSentinelDrop, ResyncSentinelsClear, switchMastersReturn
<1>3. CASE Environment
  BY <1>3, <1>b, <1>c DEF Environment, Fetch, Failover, Restart, cached
<1> QED BY <1>1, <1>2, <1>3 DEF Next

(* A step leaves the sentinels that are not marked as they were, marks     *)
(* them, leaves none, or ends with every group with a master monitored.    *)
Quiet ==
  /\ memSen' = memSen
  /\ op'.pc = "ressen.clear" => op.pc = "ressen.clear"
  /\ \A s \in Sentinels, g \in Groups :
       monitored[s][g] # None => monitored'[s][g] # None
  /\ \A g \in Groups : ServersIn(g)' \subseteq ServersIn(g)

Marked == memSen'.oos /\ op'.pc # "ressen.clear"

(* Each kind of step keeps InSync.                                         *)
LEMMA KindsKeepInSync ==
  ASSUME TypeOK, InSync, Quiet \/ Marked \/ memSen'.servers = <<>> \/ AllMonitored'
  PROVE  InSync'
<1>1. CASE Quiet
  <2>1. ToSet(memSen.servers) \subseteq Sentinels
    BY DEF TypeOK, Sentinel, ToSet
  <2> QED BY <1>1, <2>1 DEF Quiet, InSync, AllMonitored
<1>2. CASE Marked
  BY <1>2 DEF Marked, InSync
<1>3. CASE memSen'.servers = <<>>
  <2>1. ToSet(memSen'.servers) = {}
    BY <1>3 DEF ToSet
  <2> QED BY <2>1 DEF InSync, AllMonitored
<1>4. CASE AllMonitored'
  BY <1>4 DEF InSync
<1> QED BY <1>1, <1>2, <1>3, <1>4

(* The requests are quiet or mark the sentinels.                           *)
LEMMA RequestInSync ==
  ASSUME WriteFaults = {}, Inv, Coherent, Request,
         \A g \in Groups : ServersIn(g)' \subseteq ServersIn(g)
  PROVE  Quiet \/ Marked
<1>a. TypeOK /\ Idle.pc = "idle"
  BY DEF Inv, Idle, At
<1>b. memSen' = memSen /\ monitored' = monitored /\ op'.pc # "ressen.clear" => Quiet
  BY DEF Quiet
<1>1. ASSUME NEW g \in Groups, NEW a \in Addrs,
             AddGroupServer(g, a) \/ DelGroupServer(g, a)
      PROVE  Quiet \/ Marked
  <2>1. /\ op' = At("add", g, a) \/ op' = At("del", g, a)
        /\ memSen'.oos \/ memSen' = memSen
        /\ monitored' = monitored
    BY <1>a, <1>1, ReliableFlag DEF AddGroupServer, DelGroupServer, outside
  <2>2. op'.pc # "ressen.clear"
    BY <2>1 DEF At
  <2> QED BY <1>b, <2>1, <2>2 DEF Marked
<1>2. ASSUME NEW s \in Sentinels, AddSentinel(s) PROVE Quiet \/ Marked
  <2>1. op' = Idle /\ memSen' = [servers |-> Append(memSen.servers, s), oos |-> TRUE]
    BY <1>2, ReliableSentinelWrite DEF AddSentinel
  <2>2. memSen'.oos
    BY <2>1
  <2> QED BY <1>a, <2>1, <2>2 DEF Marked
<1>3. CASE (\E s \in Sentinels : DelSentinel(s)) \/ ResyncSentinels
  <2>1. memSen' = [memSen EXCEPT !.oos = TRUE]
    BY <1>3, ReliableSentinelWrite DEF DelSentinel, ResyncSentinels
  <2>2. \/ op' = Idle
        \/ \E a : \/ op' = At("delsen.remove", None, a)
                  \/ op' = At("ressen.remove", None, a)
    BY <1>3 DEF DelSentinel, ResyncSentinels, ContinueWith
  <2>3. op'.pc # "ressen.clear"
    BY <1>a, <2>2 DEF At
  <2> QED BY <1>a, <2>1, <2>3, MarkedRecord DEF Marked
<1>4. CASE \/ \E g \in Groups : ResyncGroup(g) \/ \E a \in Addrs : GroupPromoteServer(g, a)
           \/ ResyncGroupAll \/ switchMasters
  <2>1. \E g, a : \/ op' = At("resync", g, a) \/ op' = At("promote", g, a)
                  \/ op' = At("resyncall", g, a) \/ op' = At("switch", g, a)
    BY <1>4 DEF ResyncGroup, GroupPromoteServer, ResyncGroupAll, switchMasters
  <2>2. memSen' = memSen /\ monitored' = monitored
    BY <1>4 DEF ResyncGroup, GroupPromoteServer, ResyncGroupAll, switchMasters,
         cached, outside
  <2>3. op'.pc # "ressen.clear"
    BY <2>1 DEF At
  <2> QED BY <1>b, <2>2, <2>3
<1>5. CASE \E g \in Groups : \/ \E r, w \in Ports : CreateGroup(g, r, w)
                             \/ RemoveGroup(g)
                             \/ \E a \in Addrs : GroupForceFullSyncServer(g, a)
  BY <1>a, <1>b, <1>5 DEF CreateGroup, RemoveGroup, GroupForceFullSyncServer, cached,
       outside
<1> QED BY <1>1, <1>2, <1>3, <1>4, <1>5 DEF Request

(* MonitorGroups without an error leaves every group with a master         *)
(* monitored by every sentinel; with one the flag stays.                   *)
LEMMA MonitorInSync ==
  ASSUME Inv, Flagged, ResyncSentinelsMonitor
  PROVE  Marked \/ AllMonitored'
<1>a. TypeOK /\ GroupsWellFormed
  BY DEF Inv
<1>1. mem' = mem /\ memSen' = memSen /\ memSen.oos
  BY DEF ResyncSentinelsMonitor, cached, Flagged
<1> DEFINE all == ToSet(memSen.servers) \X {g \in Groups : HasMaster(mem[g])}
<1>2. CASE monitored' = Monitors(all, {})
  <2> SUFFICES ASSUME NEW s \in ToSet(memSen.servers), NEW g \in Groups,
                      ServersIn(g) # {}
               PROVE  Monitors(all, {})[s][g] # None
    BY <1>1, <1>2 DEF AllMonitored, ServersIn
  <2>1. s \in Sentinels
    BY <1>a DEF TypeOK, Sentinel, ToSet
  <2>2. mem[g] # None
    BY DEF ServersIn
  <2>3. mem[g].servers \in Seq(Addrs)
    BY <1>a, <2>2, GroupRecord
  <2>4. mem[g].servers # <<>>
    BY <2>2 DEF ServersIn, ToSet
  <2>5. mem[g].servers[1] \in Addrs /\ <<s, g>> \in all
    BY <2>2, <2>3, <2>4 DEF HasMaster
  <2>6. mem[g].servers[1] # None
    BY <2>5, NoneAssumption
  <2> HIDE DEF all
  <2> QED BY <2>1, <2>5, <2>6 DEF Monitors
<1>3. CASE op' = Idle
  BY <1>1, <1>3 DEF Marked, Idle, At
<1> QED BY <1>2, <1>3 DEF ResyncSentinelsMonitor

(* So are the steps of a request, but for the end of ResyncSentinels.      *)
LEMMA StepInSync ==
  ASSUME WriteFaults = {}, Inv, Coherent, Flagged, InSync, Step,
         \A g \in Groups : ServersIn(g)' \subseteq ServersIn(g)
  PROVE  Quiet \/ Marked \/ memSen'.servers = <<>> \/ AllMonitored'
<1>a. /\ TypeOK /\ Idle.pc = "idle" /\ memSen \in Sentinel
      /\ op \in [pc : Steps, g : Groups \cup {None},
                 a : Addrs \cup Sentinels \cup {None}]
  BY DEF Inv, Idle, At, TypeOK
<1>b. memSen' = memSen /\ monitored' = monitored
        /\ (op' = op \/ op'.pc # "ressen.clear") => Quiet
  BY DEF Quiet
<1>1. CASE AppendServer \/ RemoveServer
  BY <1>a, <1>b, <1>1 DEF AppendServer, RemoveServer, outside
<1>2. CASE \E g \in Groups : \/ ResetOutOfSync(g) \/ doSyncAction(g)
                             \/ resyncGroupEnd(g) \/ trySwitchGroupMaster(g)
  BY <1>b, <1>2 DEF ResetOutOfSync, doSyncAction, resyncGroupEnd,
       trySwitchGroupMaster, cached, outside
<1>3. CASE ResyncGroupReturn \/ ResyncGroupAllReturn \/ switchMastersReturn
  BY <1>a, <1>b, <1>3 DEF ResyncGroupReturn, ResyncGroupAllReturn,
       switchMastersReturn, cached, outside
<1>4. CASE PromoteNothing \/ PromotePreparing \/ PromoteFinished
  BY <1>a, <1>b, <1>4 DEF PromoteNothing, PromotePreparing, PromoteFinished,
       ContinueWith, outside
<1>5. CASE PromoteSwap \/ PromoteSynced
  BY <1>a, <1>b, <1>5 DEF PromoteSwap, PromoteSynced, ContinueWith, cached, outside
<1>6. CASE PromotePrepared
  <2>1. op'.pc # "ressen.clear" /\ monitored' = monitored
    BY <1>a, <1>6 DEF PromotePrepared, ContinueWith, outside
  <2>2. memSen' = memSen \/ memSen' = [memSen EXCEPT !.oos = TRUE]
    BY <1>6, ReliableSentinelWrite DEF PromotePrepared
  <2> QED BY <1>a, <1>b, <2>1, <2>2, MarkedRecord DEF Marked
<1>7. CASE PromoteUnwatch \/ DelSentinelRemove \/ ResyncSentinelsRemove
  <2>1. op'.pc # "ressen.clear" /\ memSen' = memSen
    BY <1>a, <1>7 DEF PromoteUnwatch, DelSentinelRemove, ResyncSentinelsRemove, At, cached
  <2>2. memSen.servers = <<>> \/ memSen.oos
    BY <1>7 DEF PromoteUnwatch, DelSentinelRemove, ResyncSentinelsRemove, Flagged
  <2> QED BY <2>1, <2>2 DEF Marked
<1>8. CASE DelSentinelDrop
  <2> DEFINE i == CHOOSE j \in DOMAIN memSen.servers : memSen.servers[j] = op.a
             left == RemoveAt(memSen.servers, i)
  <2>1. op' = Idle /\ memSen.oos /\ memSen' = [memSen EXCEPT !.servers = left]
    BY <1>8, ReliableSentinelWrite DEF DelSentinelDrop, Flagged
  <2> HIDE DEF left
  <2>2. memSen'.oos
    BY <1>a, <2>1 DEF Sentinel
  <2> QED BY <1>a, <2>1, <2>2 DEF Marked
<1>9. CASE ResyncSentinelsMonitor
  BY <1>9, MonitorInSync
<1>10. CASE ResyncSentinelsClear
  <2>1. /\ op.pc = "ressen.clear" /\ monitored' = monitored
        /\ memSen' = [memSen EXCEPT !.oos = FALSE]
    BY <1>10, ReliableSentinelWrite DEF ResyncSentinelsClear, outside
  <2>2. memSen'.servers = memSen.servers
    BY <1>a, <2>1, MarkedRecord
  <2>3. AllMonitored
    BY <2>1 DEF InSync
  <2> QED BY <2>1, <2>2, <2>3 DEF AllMonitored
<1> QED BY <1>1, <1>2, <1>3, <1>4, <1>5, <1>6, <1>7, <1>8, <1>9, <1>10 DEF Step

(* A failover changes the master a sentinel has for a group and takes no   *)
(* group away; a restart reads back what the cache held.                   *)
LEMMA EnvironmentInSync ==
  ASSUME Inv, Coherent, Environment,
         \A g \in Groups : ServersIn(g)' \subseteq ServersIn(g)
  PROVE  Quiet
<1>1. CASE Fetch \/ Restart
  BY <1>1 DEF Fetch, Restart, Quiet, cached, outside, Coherent, Idle, At
<1>2. ASSUME NEW g \in Groups, NEW m \in Addrs, NEW a \in Addrs, Failover(g, m, a)
      PROVE  Quiet
  <2>1. memSen' = memSen /\ op' = op /\ a # None
    BY <1>2, NoneAssumption DEF Failover, cached
  <2>2. \A s \in Sentinels, h \in Groups :
          monitored[s][h] # None => monitored'[s][h] # None
    BY <1>2, <2>1 DEF Failover, Inv, TypeOK
  <2> QED BY <2>1, <2>2 DEF Quiet
<1> QED BY <1>1, <1>2 DEF Environment

-----------------------------------------------------------------------------
(* The empty coordinator satisfies the invariant.                          *)
LEMMA ReliableInit == Init => ReliableInv
<1> SUFFICES ASSUME Init PROVE ReliableInv
  OBVIOUS
<1>1. ToSet(memSen.servers) = {} /\ op.pc = "idle"
  BY DEF Init, ToSet, Idle, At
<1>2. \A g \in Groups : ServersIn(g) = {}
  BY DEF Init, ServersIn
<1> QED BY <1>1, <1>2, InvInit DEF Init, ReliableInv, Coherent, Disjoint, Flagged,
          InSync, AllMonitored

(* Every step keeps it while no write fails.                               *)
LEMMA ReliableNext ==
  ASSUME WriteFaults = {}
  PROVE  ReliableInv /\ [Next]_vars => ReliableInv'
<1> SUFFICES ASSUME ReliableInv, [Next]_vars PROVE ReliableInv'
  OBVIOUS
<1>1. CASE Next
  <2>a. TypeOK
    BY DEF ReliableInv, Inv
  <2>1. Quiet \/ Marked \/ memSen'.servers = <<>> \/ AllMonitored'
    <3>1. CASE \A h \in Groups : ServersIn(h)' \subseteq ServersIn(h)
      BY <1>1, <3>1, RequestInSync, StepInSync, EnvironmentInSync
         DEF ReliableInv, Next
    <3>2. CASE op.pc = "add" /\ op' = Idle /\ memSen' = memSen
      BY <3>2 DEF ReliableInv, Flagged, Marked, Idle, At
    <3> QED BY <1>1, <3>1, <3>2, ServersNext DEF ReliableInv
  <2>2. InSync'
    BY <2>a, <2>1, KindsKeepInSync DEF ReliableInv
  <2>3. Inv' /\ Coherent' /\ Disjoint' /\ Flagged'
    BY <1>1, InvNext, CoherentNext, DisjointNext, FlaggedNext DEF ReliableInv
  <2> QED BY <2>2, <2>3 DEF ReliableInv
<1>2. CASE UNCHANGED vars
  BY <1>2, InvNext DEF vars, ReliableInv, Coherent, Disjoint, Flagged, InSync,
       AllMonitored, ServersIn
<1> QED BY <1>1, <1>2

(* What the stored records show of it.                                     *)
LEMMA ReliableShows ==
  ReliableInv => ServersDisjoint /\ InSyncMeansMonitored
<1> SUFFICES ASSUME ReliableInv PROVE ServersDisjoint /\ InSyncMeansMonitored
  OBVIOUS
<1>1. ServersDisjoint
  BY DEF ReliableInv, Coherent, Disjoint, ServersIn, ServersDisjoint
<1>2. ASSUME NEW g \in Groups, HasMaster(store[g]) PROVE ServersIn(g) # {}
  <2>1. mem[g] # None /\ mem[g].servers # <<>>
    BY <1>2 DEF HasMaster, ReliableInv, Coherent
  <2>2. mem[g].servers \in Seq(Addrs)
    BY <2>1, GroupRecord DEF ReliableInv, Inv
  <2>3. 1 \in DOMAIN mem[g].servers
    BY <2>1, <2>2
  <2> QED BY <2>1, <2>3 DEF ServersIn, ToSet
<1>3. InSyncMeansMonitored
  BY <1>2 DEF ReliableInv, Coherent, InSync, AllMonitored, InSyncMeansMonitored
<1> QED BY <1>1, <1>3

(* While writes do not fail, no server is ever stored in two groups,       *)
(* although AddGroupServer checks the cache in one step and appends in a   *)
(* later one, and the process may stop between any two.                    *)
THEOREM ServersDisjointAlways ==
  ASSUME WriteFaults = {}
  PROVE  Spec => []ServersDisjoint
<1>1. ReliableInv /\ [Next]_vars => ReliableInv'
  BY ReliableNext
<1> QED BY <1>1, ReliableInit, ReliableShows, PTL DEF Spec

(* While writes do not fail, sentinels whose stored record is not out of   *)
(* sync monitor every group that has a master, whichever sentinel commands *)
(* are lost, wherever the process stops and whatever fails over.           *)
THEOREM InSyncAlways ==
  ASSUME WriteFaults = {}
  PROVE  Spec => []InSyncMeansMonitored
<1>1. ReliableInv /\ [Next]_vars => ReliableInv'
  BY ReliableNext
<1> QED BY <1>1, ReliableInit, ReliableShows, PTL DEF Spec

-----------------------------------------------------------------------------
(* The refinement of GroupRegistry, and what follows from the same lemmas. *)

(* The registry that the coordinator shows.                                *)
Shown == [g \in Groups |-> View(store[g])]

(* What a step may do to the stored record of one group: the operations of *)
(* GroupRegistry, in terms of the records, and those it does not show.     *)
Takes(g, rec, servers) ==
  /\ store[g] # None
  /\ rec \in Group
  /\ rec.servers = servers
  /\ rec.rPort = store[g].rPort /\ rec.wPort = store[g].wPort

Creates(g, rec) ==
  /\ store[g] = None
  /\ \E r, w \in Ports :
       /\ r # w
       /\ \A h \in Groups : store[h] # None =>
            {r, w} \cap {store[h].rPort, store[h].wPort} = {}
       /\ rec = FreshGroup(<<>>, r, w)

Discards(g, rec) == store[g] # None /\ store[g].servers = <<>> /\ rec = None

Adds(g, rec) ==
  \E a \in Addrs :
    /\ \A h \in Groups : store[h] # None => a \notin ToSet(store[h].servers)
    /\ Takes(g, rec, Append(store[g].servers, a))

Drops(g, rec) ==
  \E i \in DOMAIN store[g].servers :
    /\ i = 1 => Len(store[g].servers) = 1
    /\ Takes(g, rec, RemoveAt(store[g].servers, i))

Swaps(g, rec) ==
  \E i \in DOMAIN store[g].servers :
    /\ Takes(g, rec, SwapMaster(store[g].servers, i))
    /\ rec.oos \/ rec.pState = ActionFinished

Keeps(g, rec) == Takes(g, rec, store[g].servers)

Allowed(g, rec) ==
  \/ Creates(g, rec) \/ Discards(g, rec) \/ Adds(g, rec)
  \/ Drops(g, rec) \/ Swaps(g, rec) \/ Keeps(g, rec)

(* A group is shown exactly when it is stored, with the servers and ports  *)
(* of its record.                                                          *)
LEMMA ShownRecord ==
  ASSUME TypeOK, NEW g \in Groups
  PROVE  /\ Shown[g] = None <=> store[g] = None
         /\ store[g] # None =>
              /\ store[g] \in Group /\ store[g].servers \in Seq(Addrs)
              /\ Shown[g].servers = store[g].servers
              /\ Shown[g].rPort = store[g].rPort /\ Shown[g].wPort = store[g].wPort
<1>1. CASE store[g] = None
  BY <1>1 DEF Shown, View
<1>2. CASE store[g] # None
  <2>1. store[g] \in Group
    BY <1>2 DEF TypeOK
  <2>2. /\ store[g].servers \in Seq(Addrs)
        /\ store[g].rPort \in Ports /\ store[g].wPort \in Ports
    BY <2>1 DEF Group
  <2>3. Shown[g] = [servers |-> store[g].servers, rPort |-> store[g].rPort,
                    wPort |-> store[g].wPort]
    BY <1>2 DEF Shown, View
  <2>4. Shown[g] \in Views
    BY <2>2, <2>3 DEF Views
  <2> QED BY <1>2, <2>1, <2>2, <2>3, <2>4, ViewsAssumption
<1> QED BY <1>1, <1>2

(* A write shows at its own group only.                                    *)
LEMMA ShownWrite ==
  ASSUME TypeOK, NEW g \in Groups, NEW rec, store' = [store EXCEPT ![g] = rec]
  PROVE  Shown' = [Shown EXCEPT ![g] = View(rec)]
BY DEF TypeOK, Shown, View

(* A record with other servers and the same ports shows as a change of the *)
(* servers.                                                                *)
LEMMA ShownTake ==
  ASSUME TypeOK, NEW g \in Groups, NEW rec, NEW servers,
         store' = [store EXCEPT ![g] = rec], Takes(g, rec, servers)
  PROVE  Shown' = [Shown EXCEPT ![g].servers = servers]
<1>1. rec # None /\ store[g] # None
  BY NoneAssumption DEF Takes
<1>2. View(rec) = [servers |-> servers, rPort |-> store[g].rPort,
                   wPort |-> store[g].wPort]
  BY <1>1 DEF Takes, View
<1>3. Shown[g] = [servers |-> store[g].servers, rPort |-> store[g].rPort,
                  wPort |-> store[g].wPort]
  BY <1>1 DEF Shown, View
<1>4. [Shown[g] EXCEPT !.servers = servers] = View(rec)
  BY <1>2, <1>3
<1>5. Shown' = [Shown EXCEPT ![g] = View(rec)]
  BY ShownWrite
<1> QED BY <1>4, <1>5

(* What a step may do to a record is a step of the registry, or not shown. *)
LEMMA AllowedInRegistry ==
  ASSUME TypeOK, NEW g \in Groups, NEW rec,
         store' = [store EXCEPT ![g] = rec], Allowed(g, rec)
  PROVE  Registry!Next \/ Shown' = Shown
<1> USE DEF Registry!Exists, Registry!PortsOf, Registry!ServersOf
<1>1. CASE Creates(g, rec)
  <2>1. PICK r, w \in Ports :
          /\ r # w
          /\ \A h \in Groups : store[h] # None =>
               {r, w} \cap {store[h].rPort, store[h].wPort} = {}
          /\ rec = FreshGroup(<<>>, r, w)
    BY <1>1 DEF Creates
  <2>2. View(rec) = [servers |-> <<>>, rPort |-> r, wPort |-> w]
    <3>1. rec \in Group
      BY <2>1 DEF FreshGroup, Group, Actions
    <3>2. rec # None
      BY <3>1, NoneAssumption
    <3> QED BY <2>1, <3>2 DEF View, FreshGroup
  <2>3. Shown' = [Shown EXCEPT ![g] = [servers |-> <<>>, rPort |-> r, wPort |-> w]]
    BY <2>2, ShownWrite
  <2>4. Shown[g] = None
    BY <1>1, ShownRecord DEF Creates
  <2>5. \A h \in Groups : Shown[h] # None =>
          {r, w} \cap {Shown[h].rPort, Shown[h].wPort} = {}
    BY <2>1, ShownRecord
  <2>6. Registry!Create(g, r, w)
    BY <2>1, <2>3, <2>4, <2>5 DEF Registry!Create, Shown
  <2> QED BY <2>6 DEF Registry!Next
<1>2. CASE Discards(g, rec)
  <2>1. Shown' = [Shown EXCEPT ![g] = None]
    BY <1>2, ShownWrite DEF Discards, View
  <2>2. Shown[g] # None /\ Shown[g].servers = <<>>
    BY <1>2, ShownRecord DEF Discards
  <2>3. Registry!Discard(g)
    BY <2>1, <2>2 DEF Registry!Discard, Shown
  <2> QED BY <2>3 DEF Registry!Next
<1>3. CASE Adds(g, rec)
  <2>1. PICK a \in Addrs :
          /\ \A h \in Groups : store[h] # None => a \notin ToSet(store[h].servers)
          /\ Takes(g, rec, Append(store[g].servers, a))
    BY <1>3 DEF Adds
  <2>2. Shown' = [Shown EXCEPT ![g].servers = Append(store[g].servers, a)]
    BY <2>1, ShownTake
  <2>3. Shown[g] # None /\ Shown[g].servers = store[g].servers
    BY <2>1, ShownRecord DEF Takes
  <2>4. \A h \in Groups : Shown[h] # None => a \notin ToSet(Shown[h].servers)
    BY <2>1, ShownRecord
  <2>5. Shown' = [Shown EXCEPT ![g].servers = Append(@, a)]
    BY <2>2, <2>3
  <2>6. Registry!AddServer(g, a)
    BY <2>3, <2>4, <2>5 DEF Registry!AddServer, Shown, ToSet, Registry!ToSet
  <2> QED BY <2>6 DEF Registry!Next
<1>4. CASE Drops(g, rec)
  <2>1. PICK i \in DOMAIN store[g].servers :
          /\ i = 1 => Len(store[g].servers) = 1
          /\ Takes(g, rec, RemoveAt(store[g].servers, i))
    BY <1>4 DEF Drops
  <2>2. Shown' = [Shown EXCEPT ![g].servers = RemoveAt(store[g].servers, i)]
    BY <2>1, ShownTake
  <2>3. Shown[g] # None /\ Shown[g].servers = store[g].servers
    BY <2>1, ShownRecord DEF Takes
  <2>4. Shown' = [Shown EXCEPT ![g].servers = RemoveAt(@, i)]
    BY <2>2, <2>3
  <2>5. Registry!DelServer(g, i)
    BY <2>1, <2>3, <2>4 DEF Registry!DelServer, Shown, RemoveAt, Registry!RemoveAt
  <2> QED BY <2>1, <2>3, <2>5 DEF Registry!Next, Shown
<1>5. CASE Swaps(g, rec)
  <2>1. PICK i \in DOMAIN store[g].servers :
          Takes(g, rec, SwapMaster(store[g].servers, i))
    BY <1>5 DEF Swaps
  <2>2. Shown' = [Shown EXCEPT ![g].servers = SwapMaster(store[g].servers, i)]
    BY <2>1, ShownTake
  <2>3. Shown[g] # None /\ Shown[g].servers = store[g].servers
    BY <2>1, ShownRecord DEF Takes
  <2>4. Registry!ChangeMaster(g, i)
    BY <2>1, <2>2, <2>3 DEF Registry!ChangeMaster, SwapMaster, Shown
  <2> QED BY <2>1, <2>3, <2>4 DEF Registry!Next, Shown
<1>6. CASE Keeps(g, rec)
  <2>1. Shown' = [Shown EXCEPT ![g].servers = store[g].servers]
    BY <1>6, ShownTake DEF Keeps
  <2>2. Shown[g] = [servers |-> store[g].servers, rPort |-> store[g].rPort,
                    wPort |-> store[g].wPort]
    BY <1>6 DEF Keeps, Takes, Shown, View
  <2>3. [Shown[g] EXCEPT !.servers = store[g].servers] = Shown[g]
    BY <2>2
  <2> QED BY <2>1, <2>3 DEF Shown
<1> QED BY <1>1, <1>2, <1>3, <1>4, <1>5, <1>6 DEF Allowed

(* The master that DelGroupServer is about to remove is the only server.   *)
MasterLeavesLast ==
  op.pc = "del" =>
    (GetServerIndex(mem[op.g], op.a) = 1 => Len(mem[op.g].servers) = 1)

(* Nothing changes the group between the check and the removal: the mutex  *)
(* is held.                                                                *)
LEMMA MasterLeavesLastNext ==
  ASSUME Inv, MasterLeavesLast, [Next]_vars
  PROVE  MasterLeavesLast'
<1> SUFFICES ASSUME op'.pc = "del" PROVE MasterLeavesLast'
  BY DEF MasterLeavesLast
<1>a. op \in [pc : Steps, g : Groups \cup {None}, a : Addrs \cup Sentinels \cup {None}]
  BY DEF Inv, TypeOK
<1>b. \A g \in Groups : op.pc = "del" => jobs[g].pc = "none"
  BY IdleJobs
<1>c. op' # Idle
  BY DEF Idle, At
<1>d. mem' = mem /\ op' = op => MasterLeavesLast'
  BY DEF MasterLeavesLast
<1>1. CASE Request
  <2>1. ASSUME NEW g \in Groups, NEW a \in Addrs, DelGroupServer(g, a)
        PROVE  MasterLeavesLast'
    <3>1. op' = At("del", g, a) /\ mem' = mem
      BY <1>c, <2>1, OutOfSyncKeeps DEF DelGroupServer, Inv
    <3> QED BY <2>1, <3>1 DEF DelGroupServer, MasterLeavesLast, At
  <2>2. ASSUME NEW g \in Groups, NEW a \in Addrs, AddGroupServer(g, a)
        PROVE  FALSE
    <3>1. op' = At("add", g, a)
      BY <1>c, <2>2, OutOfSyncKeeps DEF AddGroupServer, Inv
    <3> QED BY <3>1 DEF At
  <2>3. CASE op' = Idle
    BY <1>c, <2>3
  <2>4. CASE \E pc \in {"resync", "promote", "resyncall", "delsen.remove",
                        "ressen.remove", "switch"} :
                    \E g, a : op' = At(pc, g, a)
    BY <2>4 DEF At
  <2> QED BY <1>1, <2>1, <2>2, <2>3, <2>4 DEF Request, CreateGroup, RemoveGroup,
        ResyncGroup, GroupPromoteServer, GroupForceFullSyncServer, ResyncGroupAll,
        AddSentinel, DelSentinel, ResyncSentinels, ContinueWith, switchMasters
<1>2. CASE Step
  <2>1. CASE \/ PromotePrepared \/ PromoteUnwatch \/ PromoteSwap \/ PromoteSynced
             \/ DelSentinelRemove \/ ResyncSentinelsRemove
             \/ ResyncSentinelsMonitor
    <3>1. op' = Idle \/ op'.pc # "del"
      <4>1. CASE PromotePrepared \/ PromoteUnwatch
        BY <1>a, <4>1 DEF PromotePrepared, PromoteUnwatch, ContinueWith
      <4>2. CASE PromoteSwap \/ PromoteSynced
        BY <1>a, <4>2 DEF PromoteSwap, PromoteSynced, ContinueWith
      <4>3. CASE DelSentinelRemove \/ ResyncSentinelsRemove
        BY <1>a, <4>3 DEF DelSentinelRemove, ResyncSentinelsRemove, At
      <4>4. CASE ResyncSentinelsMonitor
        <5>1. op' = Idle \/ op' = [op EXCEPT !.pc = "ressen.clear"]
          BY <4>4 DEF ResyncSentinelsMonitor
        <5> QED BY <1>a, <5>1
      <4> QED BY <2>1, <4>1, <4>2, <4>3, <4>4
    <3> QED BY <1>c, <3>1
  <2>2. CASE \E g \in Groups : \/ ResetOutOfSync(g) \/ doSyncAction(g)
                               \/ resyncGroupEnd(g)
    <3>1. op' = op /\ \E g \in Groups : jobs[g].pc # "none"
      BY <2>2 DEF ResetOutOfSync, doSyncAction, resyncGroupEnd
    <3> QED BY <1>b, <3>1
  <2>3. CASE (\E g \in Groups : trySwitchGroupMaster(g)) \/ PromoteNothing
             \/ PromotePreparing
    BY <1>c, <2>3 DEF trySwitchGroupMaster, PromoteNothing, PromotePreparing,
         ContinueWith
  <2> QED BY <1>2, <1>c, <2>1, <2>2, <2>3 DEF Step, AppendServer, RemoveServer,
        ResyncGroupReturn, ResyncGroupAllReturn, PromoteFinished, DelSentinelDrop,
        ResyncSentinelsClear, switchMastersReturn
<1>3. CASE Environment
  BY <1>3, <1>c, <1>d DEF Environment, Fetch, Failover, Restart, cached
<1>4. CASE UNCHANGED vars
  BY <1>4, <1>d DEF vars
<1> QED BY <1>1, <1>2, <1>3, <1>4 DEF Next

(* Every step changes the stored records as the registry allows.           *)
OneRecord ==
  \/ store' = store
  \/ \E g \in Groups : \E rec : store' = [store EXCEPT ![g] = rec] /\ Allowed(g, rec)

(* A handler that writes a record the registry allows.                     *)
LEMMA Wrote ==
  ASSUME WriteFaults = {}, Coherent, NEW g \in Groups, NEW rec, NEW o \in Outcomes,
         Update(g, rec, o) \/ Replace(g, rec, o), Allowed(g, rec)
  PROVE  OneRecord
<1>1. store' = [store EXCEPT ![g] = rec]
  BY ReliableWrite DEF Coherent
<1> QED BY <1>1 DEF OneRecord

(* The first step of a request writes one record at most.                  *)
LEMMA RequestOneRecord ==
  ASSUME WriteFaults = {}, ReliableInv, Request
  PROVE  OneRecord
<1>a. mem = store /\ Coherent
  BY DEF ReliableInv, Coherent
<1>1. ASSUME NEW g \in Groups, NEW r \in Ports, NEW w \in Ports, CreateGroup(g, r, w)
      PROVE  OneRecord
  <2>1. Creates(g, FreshGroup(<<>>, r, w))
    BY <1>a, <1>1 DEF CreateGroup, Creates
  <2> QED BY <1>a, <1>1, <2>1, Wrote DEF CreateGroup, Allowed
<1>2. ASSUME NEW g \in Groups, RemoveGroup(g)
      PROVE  OneRecord
  <2>1. Discards(g, None)
    BY <1>a, <1>2 DEF RemoveGroup, Discards
  <2> QED BY <1>a, <1>2, <2>1, Wrote DEF RemoveGroup, Allowed
<1>3. CASE store' = store
  BY <1>3 DEF OneRecord
<1> QED BY <1>1, <1>2, <1>3 DEF Request, ResyncGroup, AddGroupServer,
      DelGroupServer, GroupPromoteServer, GroupForceFullSyncServer, ResyncGroupAll,
      AddSentinel, DelSentinel, ResyncSentinels, switchMasters, persisted

(* So does each of its later steps.                                        *)
LEMMA StepOneRecord ==
  ASSUME WriteFaults = {}, ReliableInv, MasterLeavesLast, Step
  PROVE  OneRecord
<1> DEFINE g == store[op.g]
<1>a. /\ Inv /\ Coherent /\ mem = store /\ TypeOK /\ GroupsWellFormed /\ OpOK
  BY DEF ReliableInv, Coherent, Inv
<1>b. op.pc \in GroupSteps => /\ op.g \in Groups /\ g # None
                             /\ g \in Group /\ g.servers \in Seq(Addrs)
                             /\ IsInjective(g.servers)
  BY <1>a, GroupRecord DEF OpOK
<1>1. CASE AppendServer
  <2> DEFINE t == Append(g.servers, op.a)
             rec == [g EXCEPT !.servers = t]
  <2>1. op.pc = "add" /\ op.a \in Addrs
    BY <1>a, <1>1 DEF AppendServer, OpOK
  <2>2. op.g \in Groups /\ g # None /\ g \in Group /\ g.servers \in Seq(Addrs)
    BY <1>b, <2>1 DEF GroupSteps
  <2>3. t \in Seq(Addrs)
    BY <2>1, <2>2, AppendKeepsServers
  <2>4. PICK o \in Outcomes : Update(op.g, rec, o)
    BY <1>a, <1>1 DEF AppendServer
  <2>5. \A h \in Groups : store[h] # None => op.a \notin ToSet(store[h].servers)
    BY <1>a, <2>1 DEF ReliableInv, Disjoint, ServersIn
  <2>6. Takes(op.g, rec, t)
    <3> HIDE DEF t
    <3> QED BY <2>2, <2>3 DEF Takes, Group
  <2>7. Adds(op.g, rec)
    BY <2>1, <2>5, <2>6 DEF Adds
  <2> QED BY <1>a, <2>2, <2>4, <2>7, Wrote DEF Allowed
<1>2. CASE RemoveServer
  <2> DEFINE i == GetServerIndex(g, op.a)
             t == RemoveAt(g.servers, i)
             rec == [g EXCEPT !.servers = t, !.oos = t # <<>> /\ (i # 1 \/ @)]
  <2>1. op.pc = "del" /\ op.a \in ToSet(g.servers)
    BY <1>a, <1>2 DEF RemoveServer, OpOK
  <2>2. op.g \in Groups /\ g # None /\ g \in Group /\ g.servers \in Seq(Addrs)
    BY <1>b, <2>1 DEF GroupSteps
  <2>3. i \in DOMAIN g.servers
    BY <2>1, <2>2, ServerIndex
  <2>4. i = 1 => Len(g.servers) = 1
    BY <1>a, <2>1 DEF MasterLeavesLast
  <2>5. t \in Seq(Addrs)
    BY <2>2, <2>3, RemoveKeepsRest
  <2>6. PICK o \in Outcomes : Update(op.g, rec, o)
    BY <1>a, <1>2 DEF RemoveServer
  <2>7. Takes(op.g, rec, t)
    <3> HIDE DEF t, i
    <3> QED BY <2>2, <2>5 DEF Takes, Group
  <2> HIDE DEF rec
  <2>8. Drops(op.g, rec)
    BY <2>3, <2>4, <2>7 DEF Drops
  <2> QED BY <1>a, <2>2, <2>6, <2>8, Wrote DEF Allowed
<1>3. ASSUME NEW x \in Groups, ResetOutOfSync(x) \/ resyncGroupEnd(x), store' # store
      PROVE  OneRecord
  <2>1. store[x] # None /\ store[x] \in Group
    BY <1>a, <1>3, GroupRecord DEF Inv, JobsOK, ResetOutOfSync, resyncGroupEnd
  <2>2. PICK b \in BOOLEAN, o \in Outcomes : Update(x, [store[x] EXCEPT !.oos = b], o)
    BY <1>a, <1>3 DEF ResetOutOfSync, resyncGroupEnd
  <2>3. Keeps(x, [store[x] EXCEPT !.oos = b])
    BY <2>1 DEF Keeps, Takes, Group
  <2> QED BY <1>a, <2>2, <2>3, Wrote DEF Allowed
<1>4. CASE PromoteNothing
  <2> DEFINE n == GetServerIndex(g, op.a) - 1
             rec == [g EXCEPT !.pIndex = n, !.pState = ActionPreparing]
  <2>1. op.pc = "promote" /\ op.a \in ToSet(g.servers)
    BY <1>a, <1>4 DEF PromoteNothing, OpOK
  <2>2. op.g \in Groups /\ g # None /\ g \in Group /\ g.servers \in Seq(Addrs)
    BY <1>b, <2>1 DEF GroupSteps
  <2>3. n \in Nat
    BY <2>1, <2>2, ServerIndex
  <2>4. PICK o \in Outcomes : Update(op.g, rec, o)
    BY <1>a, <1>4 DEF PromoteNothing
  <2> HIDE DEF n
  <2>5. Keeps(op.g, rec)
    BY <2>2, <2>3 DEF Keeps, Takes, Group, Actions
  <2> QED BY <1>a, <2>2, <2>4, <2>5, Wrote DEF Allowed
<1>5. CASE PromotePreparing
  <2> DEFINE rec == [g EXCEPT !.pState = ActionPrepared]
  <2>1. op.g \in Groups /\ g # None /\ g \in Group
    BY <1>b, <1>5 DEF PromotePreparing, GroupSteps
  <2>2. Keeps(op.g, rec)
    BY <2>1 DEF Keeps, Takes, Group, Actions
  <2> QED BY <1>a, <1>5, <2>1, <2>2, Wrote DEF Allowed, PromotePreparing
<1>6. CASE PromoteSwap
  <2> DEFINE i == g.pIndex + 1
             t == SwapMaster(g.servers, i)
             rec == [g EXCEPT !.servers = t, !.pIndex = 0, !.pState = ActionFinished]
  <2>1. /\ op.pc = "promote.swap" /\ op.a \in ToSet(g.servers)
        /\ GetServerIndex(g, op.a) - 1 = g.pIndex
    BY <1>a, <1>6 DEF PromoteSwap, OpOK, ActionPrepared, ActionNothing
  <2>2. /\ op.g \in Groups /\ g # None /\ g \in Group /\ g.servers \in Seq(Addrs)
        /\ IsInjective(g.servers)
    BY <1>b, <2>1 DEF GroupSteps
  <2>3. i \in DOMAIN g.servers
    BY <2>1, <2>2, ServerIndex DEF Group
  <2>4. t \in Seq(Addrs)
    BY <2>2, <2>3, SwapKeepsServers
  <2>5. PICK o \in Outcomes : Update(op.g, rec, o)
    BY <1>a, <1>6 DEF PromoteSwap
  <2>6. Takes(op.g, rec, t) /\ rec.pState = ActionFinished
    <3> HIDE DEF t
    <3> QED BY <2>2, <2>4 DEF Takes, Group, Actions
  <2> HIDE DEF rec
  <2>7. Swaps(op.g, rec)
    BY <2>3, <2>6 DEF Swaps
  <2> QED BY <1>a, <2>2, <2>5, <2>7, Wrote DEF Allowed
<1>7. CASE PromoteFinished
  <2> DEFINE rec == FreshGroup(g.servers, g.rPort, g.wPort)
  <2>1. op.g \in Groups /\ g # None /\ g \in Group
    BY <1>b, <1>7 DEF PromoteFinished, GroupSteps
  <2>2. Keeps(op.g, rec)
    BY <2>1 DEF Keeps, Takes, Group, Actions, FreshGroup
  <2> QED BY <1>a, <1>7, <2>1, <2>2, Wrote DEF Allowed, PromoteFinished
<1>8. ASSUME NEW x \in Groups, trySwitchGroupMaster(x), store' # store
      PROVE  OneRecord
  <2>1. PICK i \in NewMasterIndexes(store[x].servers, todo[x]), o \in Outcomes :
          /\ store[x] # None /\ i > 1
          /\ Update(x, [store[x] EXCEPT !.servers = SwapMaster(@, i), !.oos = TRUE], o)
    BY <1>a, <1>8 DEF trySwitchGroupMaster
  <2>2. store[x] \in Group /\ store[x].servers \in Seq(Addrs) /\ IsInjective(store[x].servers)
    BY <1>a, <2>1, GroupRecord
  <2>3. i \in DOMAIN store[x].servers
    BY <2>1, <2>2 DEF NewMasterIndexes
  <2> DEFINE t == SwapMaster(store[x].servers, i)
             rec == [store[x] EXCEPT !.servers = t, !.oos = TRUE]
  <2>4. t \in Seq(Addrs)
    BY <2>2, <2>3, SwapKeepsServers
  <2>5. Update(x, rec, o)
    BY <2>1
  <2>6. Takes(x, rec, t) /\ rec.oos
    <3> HIDE DEF t
    <3> QED BY <2>1, <2>2, <2>4 DEF Takes, Group
  <2> HIDE DEF rec
  <2>7. Swaps(x, rec)
    BY <2>3, <2>6 DEF Swaps
  <2> QED BY <1>a, <2>5, <2>7, Wrote DEF Allowed
<1>9. CASE store' = store
  BY <1>9 DEF OneRecord
<1> QED BY <1>1, <1>2, <1>3, <1>4, <1>5, <1>6, <1>7, <1>8, <1>9 DEF Step,
      doSyncAction, ResyncGroupReturn, ResyncGroupAllReturn, PromotePrepared,
      PromoteUnwatch, PromoteSynced, DelSentinelRemove, DelSentinelDrop,
      ResyncSentinelsRemove, ResyncSentinelsMonitor, ResyncSentinelsClear,
      switchMastersReturn, persisted

(* A step that changes the records as the registry allows keeps the ports  *)
(* of the groups apart ...                                                 *)
LEMMA AllowedKeepsPorts ==
  ASSUME TypeOK, PortsDisjoint, NEW g \in Groups, NEW rec,
         store' = [store EXCEPT ![g] = rec], Allowed(g, rec)
  PROVE  PortsDisjoint'
<1>1. \A h \in Groups : store'[h] = IF h = g THEN rec ELSE store[h]
  BY DEF TypeOK
<1>2. CASE Creates(g, rec)
  <2>1. PICK r, w \in Ports :
          /\ \A h \in Groups : store[h] # None =>
               {r, w} \cap {store[h].rPort, store[h].wPort} = {}
          /\ rec = FreshGroup(<<>>, r, w)
    BY <1>2 DEF Creates
  <2>2. rec.rPort = r /\ rec.wPort = w
    BY <2>1 DEF FreshGroup
  <2> QED BY <1>1, <2>1, <2>2 DEF PortsDisjoint
<1>3. CASE rec = None
  BY <1>1, <1>3 DEF PortsDisjoint
<1>4. CASE /\ store[g] # None
           /\ rec.rPort = store[g].rPort /\ rec.wPort = store[g].wPort
  BY <1>1, <1>4 DEF PortsDisjoint
<1> QED BY <1>2, <1>3, <1>4 DEF Allowed, Discards, Adds, Drops, Swaps, Keeps, Takes

(* ... and marks every change of a master.                                 *)
LEMMA AllowedMarks ==
  ASSUME TypeOK, GroupsWellFormed, NEW g \in Groups, NEW rec,
         store' = [store EXCEPT ![g] = rec], Allowed(g, rec),
         NEW h \in Groups, MasterChange(h)
  PROVE  /\ ToSet(store'[h].servers) = ToSet(store[h].servers)
         /\ store'[h].oos \/ store'[h].pState = ActionFinished
<1>1. /\ store'[h] = IF h = g THEN rec ELSE store[h]
      /\ store[h] # None /\ store[h].servers # <<>>
      /\ store'[h] # None /\ store'[h].servers # <<>>
      /\ store'[h].servers[1] # store[h].servers[1]
  BY DEF TypeOK, MasterChange, HasMaster
<1>2. h = g /\ store'[g] = rec
  BY <1>1
<1> DEFINE s == store[g].servers
<1>3. s \in Seq(Addrs) /\ IsInjective(s) /\ 1 \in DOMAIN s /\ s[1] \in Addrs
  <2>1. store[g] \in Group /\ IsInjective(s) /\ s # <<>>
    BY <1>1, <1>2 DEF TypeOK, GroupsWellFormed, WellFormed
  <2> QED BY <2>1 DEF Group
<1>4. CASE Swaps(g, rec)
  BY <1>2, <1>3, <1>4, SwapKeepsServers DEF Swaps, Takes
<1>5. CASE Adds(g, rec)
  <2>1. PICK a \in Addrs : rec.servers = Append(s, a)
    BY <1>5 DEF Adds, Takes
  <2>2. Append(s, a)[1] = s[1]
    BY <1>3
  <2> QED BY <1>1, <1>2, <2>1, <2>2
<1>6. CASE Drops(g, rec)
  <2>1. PICK i \in DOMAIN s : /\ i = 1 => Len(s) = 1
                             /\ rec.servers = RemoveAt(s, i)
    BY <1>6 DEF Drops, Takes
  <2>2. CASE i = 1
    <3>1. RemoveAt(s, i) = <<>>
      BY <1>3, <2>1, <2>2 DEF RemoveAt
    <3> QED BY <1>1, <1>2, <2>1, <3>1
  <2>3. CASE i # 1
    <3>1. RemoveAt(s, i)[1] = s[1]
      BY <1>3, <2>1, <2>3 DEF RemoveAt
    <3> QED BY <1>1, <1>2, <2>1, <3>1
  <2> QED BY <2>2, <2>3
<1> QED BY <1>1, <1>2, <1>4, <1>5, <1>6 DEF Allowed, Creates, Discards, Keeps, Takes

(* The invariant behind the three theorems below.                          *)
RegistryInv == ReliableInv /\ MasterLeavesLast /\ PortsDisjoint

(* The empty coordinator satisfies it.                                     *)
LEMMA RegistryInit == Init => RegistryInv
<1> SUFFICES ASSUME Init PROVE RegistryInv
  OBVIOUS
<1>1. MasterLeavesLast /\ PortsDisjoint
  BY DEF Init, MasterLeavesLast, PortsDisjoint, Idle, At
<1> QED BY <1>1, ReliableInit DEF RegistryInv

(* Failovers, answers and restarts write nothing.                          *)
LEMMA RegistryOneRecord ==
  ASSUME WriteFaults = {}, RegistryInv, [Next]_vars
  PROVE  OneRecord
<1>1. CASE Environment \/ UNCHANGED vars
  BY <1>1 DEF Environment, Fetch, Failover, Restart, persisted, vars, OneRecord
<1> QED BY <1>1, RequestOneRecord, StepOneRecord DEF Next, RegistryInv

(* Every step keeps it while no write fails.                               *)
LEMMA RegistryNext ==
  ASSUME WriteFaults = {}
  PROVE  RegistryInv /\ [Next]_vars => RegistryInv'
<1> SUFFICES ASSUME RegistryInv, [Next]_vars PROVE RegistryInv'
  OBVIOUS
<1>1. TypeOK /\ Inv
  BY DEF RegistryInv, ReliableInv, Inv
<1>2. PortsDisjoint'
  <2>1. CASE store' = store
    BY <2>1 DEF RegistryInv, PortsDisjoint
  <2> QED BY <1>1, <2>1, RegistryOneRecord, AllowedKeepsPorts DEF OneRecord, RegistryInv
<1> QED BY <1>1, <1>2, ReliableNext, MasterLeavesLastNext DEF RegistryInv

(* While writes do not fail, no proxy port is ever stored in two groups.   *)
THEOREM PortsDisjointAlways ==
  ASSUME WriteFaults = {}
  PROVE  Spec => []PortsDisjoint
<1>1. RegistryInv /\ [Next]_vars => RegistryInv'
  BY RegistryNext
<1>2. RegistryInv => PortsDisjoint
  BY DEF RegistryInv
<1> QED BY <1>1, <1>2, RegistryInit, PTL DEF Spec

(* While writes do not fail, every step that changes the master of a       *)
(* stored group keeps its servers and leaves a mark.                       *)
THEOREM MasterChangesMarkedAlways ==
  ASSUME WriteFaults = {}
  PROVE  Spec => MasterChangesAreMarked
<1> DEFINE Marks == \A g \in Groups : MasterChange(g) =>
                      /\ ToSet(store'[g].servers) = ToSet(store[g].servers)
                      /\ store'[g].oos \/ store'[g].pState = ActionFinished
<1>1. RegistryInv /\ [Next]_vars => RegistryInv'
  BY RegistryNext
<1>2. ASSUME RegistryInv, [Next]_vars PROVE [Marks]_vars
  <2>1. TypeOK /\ GroupsWellFormed
    BY <1>2 DEF RegistryInv, ReliableInv, Inv
  <2>2. CASE store' = store
    BY <2>2 DEF MasterChange
  <2> QED BY <1>2, <2>1, <2>2, RegistryOneRecord, AllowedMarks DEF OneRecord
<1> QED BY <1>1, <1>2, RegistryInit, PTL DEF Spec, MasterChangesAreMarked

(* While writes do not fail, what the coordinator shows of the groups is   *)
(* a GroupRegistry.                                                        *)
THEOREM ImplementsRegistry ==
  ASSUME WriteFaults = {}
  PROVE  Spec => RefinesRegistry
<1>1. RegistryInv /\ [Next]_vars => RegistryInv'
  BY RegistryNext
<1>2. ASSUME RegistryInv, [Next]_vars PROVE [Registry!Next]_Shown
  <2>1. TypeOK
    BY <1>2 DEF RegistryInv, ReliableInv, Inv
  <2>2. CASE store' = store
    BY <2>2 DEF Shown, View
  <2> QED BY <1>2, <2>1, <2>2, RegistryOneRecord, AllowedInRegistry DEF OneRecord
<1>3. Init => Registry!Init
  BY DEF Init, Registry!Init, View
<1> QED BY <1>1, <1>2, <1>3, RegistryInit, PTL
        DEF Spec, RefinesRegistry, Registry!Spec, Shown
=============================================================================
