------------------------------- MODULE MCGslb -------------------------------
(* Gslb on small instances.                                                *)
EXTENDS Gslb

(* Servers that may fail, but are never replicas.                          *)
Unreplicated == {Down, Link(TRUE, None, FALSE)}

(* Masters at first; all but one may become replicas of that one.          *)
Replicated == {Link(TRUE, CHOOSE m \in Addrs : TRUE, TRUE)}

AnyPorts == Ports \X Ports

(* Every group that is created has the ports of the one before it.         *)
SamePorts == {CHOOSE ports \in AnyPorts : ports[1] # ports[2]}

(* Servers that never fail and are no replicas.                            *)
Steady == {}

(* Two pairs, so that two groups can be there at once, and the pairs can   *)
(* pass from one group to the other.                                       *)
Split ==
  CHOOSE p \in [1..4 -> Ports] : \A i, j \in 1..4 : p[i] = p[j] => i = j
TwoPairs == {<<Split[1], Split[2]>>, <<Split[3], Split[4]>>}

(* The pairs change places.                                                *)
Swap ==
  [p \in Ports |-> LET i == CHOOSE i \in 1..4 : Split[i] = p
                   IN Split[IF i <= 2 THEN i + 2 ELSE i - 2]]

Symmetry == Permutations(Groups) \cup Permutations(Addrs) \cup {Swap}
=============================================================================
