-------------------------------- MODULE Dao --------------------------------
(***************************************************************************)
(* The records the dashboard keeps in the coordinator (ZooKeeper or etcd)  *)
(* and caches in its mappers: a Pika group and the list of sentinels, and  *)
(* the operations on them (src/topom/dao).                                 *)
(*                                                                         *)
(* A server address is a member of Addrs; servers[1] of a group is its     *)
(* master (index 0 in the Go slice).  pIndex is Promoting.Index and keeps  *)
(* the source's zero-based value.  Names, creation times and the JSON      *)
(* encoding are left out: no decision reads them.                          *)
(***************************************************************************)
EXTENDS Integers, Sequences, FiniteSets, SequencesExt

CONSTANTS Groups,      \* group names
          Addrs,       \* addresses of Pika servers
          Sentinels,   \* addresses of Redis sentinels
          Ports,       \* proxy ports
          None         \* "no group", "no address", Go's nil and ""

ActionNothing   == "nothing"
ActionPreparing == "preparing"
ActionPrepared  == "prepared"
ActionFinished  == "finished"

Actions == {ActionNothing, ActionPreparing, ActionPrepared, ActionFinished}

(* type Group *)
Group == [servers : Seq(Addrs), pIndex : Nat, pState : Actions,
          oos : BOOLEAN, rPort : Ports, wPort : Ports]

(* type Sentinel *)
Sentinel == [servers : Seq(Sentinels), oos : BOOLEAN]

ASSUME NoneAssumption ==
  /\ None \notin Groups
  /\ None \notin Addrs
  /\ None \notin Sentinels
  /\ None \notin Group

(* Mutant of FreshGroup: "no index" is -1, as GetServerIndex has it.       *)
FreshGroupNoIndex(servers, rPort, wPort) ==
  [servers |-> servers, pIndex |-> -1, pState |-> ActionNothing,
   oos |-> FALSE, rPort |-> rPort, wPort |-> wPort]

(* The record CreateGroup writes, and the one the last case of a promotion *)
(* rebuilds: name, servers and ports only.                                 *)
FreshGroup(servers, rPort, wPort) ==
  [servers |-> servers, pIndex |-> 0, pState |-> ActionNothing,
   oos |-> FALSE, rPort |-> rPort, wPort |-> wPort]

(* len(g.Servers) > 0 for an existing group; Groups.GetMasters lists       *)
(* exactly the groups for which this holds.                                *)
HasMaster(g) == g # None /\ g.servers # <<>>

GetMaster(g) == IF g.servers = <<>> THEN None ELSE g.servers[1]

(* Group.GetServerIndex, one-based, for an addr that is a server of g: the *)
(* first match in the code, the only one in a well-formed group.           *)
GetServerIndex(g, addr) == CHOOSE i \in DOMAIN g.servers : g.servers[i] = addr

(* g.Servers[0], g.Servers[i] = g.Servers[i], g.Servers[0]                 *)
SwapMaster(servers, i) ==
  [servers EXCEPT ![1] = servers[i], ![i] = servers[1]]
=============================================================================
