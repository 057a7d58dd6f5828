---------------------------- MODULE GroupRegistry ----------------------------
(***************************************************************************)
(* What the dashboard promises about the groups it keeps: a registry whose *)
(* every change is one of five atomic operations, each with its rule.      *)
(* Topom shows that requests made of several writes, cut short at any      *)
(* point, never show the coordinator anything else.                        *)
(***************************************************************************)
EXTENDS Integers, Sequences, SequencesExt

CONSTANTS Groups, Addrs, Ports, None

VARIABLE groups   \* per group None, or its servers (master first) and ports

PortsOf(g) == {groups[g].rPort, groups[g].wPort}

ServersOf(g) == ToSet(groups[g].servers)

Exists(g) == groups[g] # None

(* Two groups never share a proxy port.                                    *)
Create(g, rPort, wPort) ==
  /\ ~Exists(g)
  /\ rPort # wPort
  /\ \A h \in Groups : Exists(h) => {rPort, wPort} \cap PortsOf(h) = {}
  /\ groups' = [groups EXCEPT ![g] =
       [servers |-> <<>>, rPort |-> rPort, wPort |-> wPort]]

(* Only an empty group goes away.                                          *)
Discard(g) ==
  /\ Exists(g)
  /\ groups[g].servers = <<>>
  /\ groups' = [groups EXCEPT ![g] = None]

(* A server belongs to one group at most; it joins as the last replica.    *)
AddServer(g, a) ==
  /\ Exists(g)
  /\ \A h \in Groups : Exists(h) => a \notin ServersOf(h)
  /\ groups' = [groups EXCEPT ![g].servers = Append(@, a)]

(* The master leaves last.                                                 *)
DelServer(g, i) ==
  /\ Exists(g)
  /\ i \in DOMAIN groups[g].servers
  /\ i = 1 => Len(groups[g].servers) = 1
  /\ groups' = [groups EXCEPT ![g].servers = RemoveAt(@, i)]

(* A replica and the master change places.                                 *)
ChangeMaster(g, i) ==
  /\ Exists(g)
  /\ i \in DOMAIN groups[g].servers
  /\ LET servers == groups[g].servers
     IN groups' = [groups EXCEPT ![g].servers =
                     [servers EXCEPT ![1] = servers[i], ![i] = servers[1]]]

Init == groups = [g \in Groups |-> None]

Next ==
  \E g \in Groups :
    \/ \E r, w \in Ports : Create(g, r, w)
    \/ Discard(g)
    \/ \E a \in Addrs : AddServer(g, a)
    \/ Exists(g) /\ \E i \in DOMAIN groups[g].servers :
         DelServer(g, i) \/ ChangeMaster(g, i)

Spec == Init /\ [][Next]_groups
=============================================================================
