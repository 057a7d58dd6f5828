----------------------------- MODULE GslbProof -----------------------------
(***************************************************************************)
(* Proofs about Gslb: any number of groups, servers, balancers and rounds  *)
(* of statistics.                                                          *)
(***************************************************************************)
EXTENDS Gslb, SequenceTheorems, WellFoundedInduction, TLAPS

-----------------------------------------------------------------------------
(* Numbers and sequences.                                                  *)

(* Every set of numbers has a least one: what stands in for induction.     *)
LEMMA LeastNumber ==
  ASSUME NEW T \in SUBSET Nat, T # {}
  PROVE  \E x \in T : \A y \in T : x <= y
<1> DEFINE R == OpToRel(<, Nat)
<1>1. IsWellFoundedOn(R, Nat)
  BY NatLessThanWellFounded
<1>2. \A x, y \in Nat : y < x => <<y, x>> \in R
  BY DEF OpToRel
<1> HIDE DEF R
<1>3. PICK x \in T : \A y \in T : <<y, x>> \notin R
  BY <1>1, WFMin
<1>4. ASSUME NEW y \in T
      PROVE  x <= y
  <2>1. ~(y < x)
    BY <1>2, <1>3
  <2> QED BY <2>1
<1> QED BY <1>4

(* What holds of no first number that it fails for holds of all.           *)
LEMMA NoFirstFailure ==
  ASSUME NEW n \in Nat, NEW S \in SUBSET (0..n),
         \A k \in 0..n : (\A j \in 0..n : j < k => j \in S) => k \in S
  PROVE  \A k \in 0..n : k \in S
<1> DEFINE T == (0..n) \ S
<1> SUFFICES ASSUME T # {} PROVE FALSE
  OBVIOUS
<1>1. T \in SUBSET Nat
  OBVIOUS
<1>2. PICK k \in T : \A y \in T : k <= y
  BY <1>1, LeastNumber
<1>3. ASSUME NEW j \in 0..n, j < k
      PROVE  j \in S
  <2>1. j \notin T
    BY <1>2, <1>3
  <2> QED BY <2>1
<1> QED BY <1>2, <1>3

(* A sequence without one of its elements.                                 *)
LEMMA RemoveAtType ==
  ASSUME NEW A, NEW s \in Seq(A), NEW i \in DOMAIN s
  PROVE  RemoveAt(s, i) \in Seq(A)
<1>1. Len(s) \in Nat /\ i \in 1..Len(s) /\ \A j \in 1..Len(s) : s[j] \in A
  OBVIOUS
<1>2. SubSeq(s, 1, i - 1) \in Seq(A)
  <2>1. \A j \in 1..i - 1 : s[j] \in A
    BY <1>1
  <2> QED BY <1>1, <2>1, SubSeqProperties
<1>3. SubSeq(s, i + 1, Len(s)) \in Seq(A)
  <2>1. \A j \in i + 1..Len(s) : s[j] \in A
    BY <1>1
  <2> QED BY <1>1, <2>1, SubSeqProperties
<1> QED BY <1>2, <1>3 DEF RemoveAt

(* The elements of a sequence.                                             *)
LEMMA ToSetType ==
  ASSUME NEW A, NEW s \in Seq(A)
  PROVE  ToSet(s) \subseteq A
<1>1. \A i \in DOMAIN s : s[i] \in A
  OBVIOUS
<1> QED BY <1>1 DEF ToSet

(* A sequence over a set is one over every larger set.                     *)
LEMMA SeqWider ==
  ASSUME NEW A, NEW B, A \subseteq B, NEW s \in Seq(A)
  PROVE  s \in Seq(B)
<1>1. s = [i \in 1..Len(s) |-> s[i]] /\ Len(s) \in Nat /\ \A i \in 1..Len(s) : s[i] \in B
  OBVIOUS
<1> QED BY <1>1

-----------------------------------------------------------------------------
(* The loop of haproxyBackends over the servers of a group.                *)

(* What it lists after k turns, and that it lists something.               *)
Listed(servers, f, i) ==
  IF i = 0 THEN <<>>
  ELSE IF Serves(servers, i) THEN Append(f[i - 1], servers[i]) ELSE f[i - 1]

Lists(servers, f, k) == f = [i \in 0..k |-> Listed(servers, f, i)]

(* The recursive function of ReadServers exists.                           *)
LEMMA ListsExists ==
  ASSUME NEW servers \in Seq(Addrs)
  PROVE  \E f : Lists(servers, f, Len(servers))
<1> DEFINE n == Len(servers)
           S == {k \in 0..n : \E f : Lists(servers, f, k)}
<1>1. n \in Nat
  OBVIOUS
<1>2. ASSUME NEW k \in 0..n, \A j \in 0..n : j < k => j \in S
      PROVE  k \in S
  <2>1. CASE k = 0
    <3> DEFINE h == [i \in 0..0 |-> <<>>]
    <3>1. Lists(servers, h, 0)
      BY DEF Lists, Listed
    <3> QED BY <2>1, <3>1
  <2>2. CASE k # 0
    <3>1. k - 1 \in 0..n /\ k - 1 < k
      BY <1>1, <2>2
    <3>2. PICK f : Lists(servers, f, k - 1)
      BY <1>2, <3>1
    <3> DEFINE h == [i \in 0..k |-> Listed(servers, f, i)]
    <3>3. \A i \in 0..k - 1 : h[i] = f[i]
      BY <3>1, <3>2 DEF Lists
    <3>4. \A i \in 0..k : Listed(servers, h, i) = Listed(servers, f, i)
      <4> TAKE i \in 0..k
      <4>1. CASE i = 0
        BY <4>1 DEF Listed
      <4>2. CASE i # 0
        <5>1. i - 1 \in 0..k - 1
          BY <4>2
        <5>2. h[i - 1] = f[i - 1]
          BY <3>3, <5>1
        <5> HIDE DEF h
        <5> QED BY <4>2, <5>2 DEF Listed
      <4> QED BY <4>1, <4>2
    <3>5. Lists(servers, h, k)
      BY <3>4 DEF Lists
    <3> QED BY <3>5
  <2> QED BY <2>1, <2>2
<1> HIDE DEF S
<1>3. S \in SUBSET (0..n)
  BY DEF S
<1> HIDE DEF n
<1>4. \A k \in 0..n : k \in S
  BY <1>1, <1>2, <1>3, NoFirstFailure
<1>5. n \in S
  BY <1>1, <1>4
<1> QED BY <1>5 DEF S, n

(* What haproxyBackends lists for reads are the servers of the group that  *)
(* serve, the master or a replica that is in step, and only they.          *)
THEOREM ReadServersIs ==
  ASSUME NEW servers \in Seq(Addrs)
  PROVE  /\ ReadServers(servers) \in Seq(Addrs)
         /\ ToSet(ReadServers(servers)) =
              {servers[i] : i \in {j \in DOMAIN servers : Serves(servers, j)}}
<1> DEFINE n == Len(servers)
           f == CHOOSE g : Lists(servers, g, n)
           Told(k) == {servers[i] : i \in {j \in 1..k : Serves(servers, j)}}
           S == {k \in 0..n : f[k] \in Seq(Addrs) /\ ToSet(f[k]) = Told(k)}
<1>1. n \in Nat /\ DOMAIN servers = 1..n /\ \A i \in 1..n : servers[i] \in Addrs
  OBVIOUS
<1>2. Lists(servers, f, n)
  BY ListsExists
<1>3. ReadServers(servers) = f[n]
  BY DEF ReadServers, Lists, Listed
<1> HIDE DEF f, S, n, Told
<1>4. ASSUME NEW k \in 0..n, \A j \in 0..n : j < k => j \in S
      PROVE  k \in S
  <2>1. f[k] = Listed(servers, f, k)
    BY <1>2 DEF Lists
  <2>a. k # 0 => k - 1 \in 0..n /\ k - 1 \in S
    <3> SUFFICES ASSUME k # 0 PROVE k - 1 \in 0..n /\ k - 1 \in S
      OBVIOUS
    <3>1. k - 1 \in 0..n /\ k - 1 < k
      BY <1>1
    <3> QED BY <1>4, <3>1
  <2>b. k # 0 => f[k - 1] \in Seq(Addrs) /\ ToSet(f[k - 1]) = Told(k - 1)
    BY <2>a DEF S
  <2>2. CASE k = 0
    <3>1. f[k] = <<>>
      BY <2>1, <2>2 DEF Listed
    <3>2. Told(k) = {}
      BY <2>2 DEF Told
    <3>3. ToSet(<<>>) = {} /\ <<>> \in Seq(Addrs)
      BY DEF ToSet
    <3> QED BY <3>1, <3>2, <3>3 DEF S
  <2>3. CASE k # 0 /\ ~Serves(servers, k)
    <3>2. f[k] = f[k - 1]
      BY <2>1, <2>3 DEF Listed
    <3>3. Told(k) = Told(k - 1)
      <4>1. {j \in 1..k : Serves(servers, j)} = {j \in 1..k - 1 : Serves(servers, j)}
        BY <1>1, <2>3
      <4> QED BY <4>1 DEF Told
    <3> QED BY <2>b, <2>3, <3>2, <3>3 DEF S
  <2>4. CASE k # 0 /\ Serves(servers, k)
    <3>2. f[k] = Append(f[k - 1], servers[k])
      BY <2>1, <2>4 DEF Listed
    <3>3. Told(k) = Told(k - 1) \cup {servers[k]}
      <4>1. {j \in 1..k : Serves(servers, j)} = {j \in 1..k - 1 : Serves(servers, j)} \cup {k}
        BY <1>1, <2>4
      <4> QED BY <4>1 DEF Told
    <3>4. f[k - 1] \in Seq(Addrs) /\ servers[k] \in Addrs
      BY <1>1, <2>b, <2>4
    <3>5. ToSet(Append(f[k - 1], servers[k])) = ToSet(f[k - 1]) \cup {servers[k]}
      <4> DEFINE s == f[k - 1]
                 a == servers[k]
      <4> HIDE DEF s, a
      <4>1. s \in Seq(Addrs) /\ a \in Addrs
        BY <3>4 DEF s, a
      <4>2. /\ Len(s) \in Nat /\ DOMAIN s = 1..Len(s)
            /\ DOMAIN Append(s, a) = 1..Len(s) + 1
            /\ \A i \in 1..Len(s) : Append(s, a)[i] = s[i]
            /\ Append(s, a)[Len(s) + 1] = a
        BY <4>1
      <4>3. 1..Len(s) + 1 = (1..Len(s)) \cup {Len(s) + 1}
        BY <4>2
      <4>4. ToSet(Append(s, a)) = ToSet(s) \cup {a}
        BY <4>2, <4>3 DEF ToSet
      <4> QED BY <4>4 DEF s, a
    <3>6. Append(f[k - 1], servers[k]) \in Seq(Addrs)
      BY <3>4
    <3> QED BY <2>b, <2>4, <3>2, <3>3, <3>5, <3>6 DEF S
  <2> QED BY <2>2, <2>3, <2>4
<1>5. S \in SUBSET (0..n)
  BY DEF S
<1>6. \A k \in 0..n : k \in S
  BY <1>1, <1>4, <1>5, NoFirstFailure
<1>7. n \in S
  BY <1>1, <1>6
<1> QED BY <1>1, <1>3, <1>7 DEF S, Told

-----------------------------------------------------------------------------
(* Types.                                                                  *)

(* The type invariant by what a step is about.                             *)
GroupPart == groups \in [Groups -> GroupRecords \cup {None}]

StatsPart ==
  /\ links \in [Addrs -> LinkStates]
  /\ stats \in StatsMaps \cup {None}
  /\ round \in [pc : {"wait", "ask", "refresh"}, ask : SUBSET Addrs, got : StatsMaps]
  /\ writers \subseteq StatsMaps \cup {None}

RecordPart ==
  /\ gslbs \in [Names -> Records \cup {None}]
  /\ stored \in [Names -> Records \cup {None}]

LeftPart == left \subseteq Cached

(* The parts together are the type invariant, before and after a step.     *)
LEMMA TypeParts ==
  /\ TypeOK <=> GroupPart /\ StatsPart /\ RecordPart /\ LeftPart
  /\ TypeOK' <=> GroupPart' /\ StatsPart' /\ RecordPart' /\ LeftPart'
  BY DEF TypeOK, GroupPart, StatsPart, RecordPart, LeftPart

BackendSets == [Groups -> ServerGroups \cup {None}]

(* What refreshGSLBBackendInfo puts together is a record.                  *)
LEMMA GslbIsRecord ==
  ASSUME NEW servers \in Seq(GslbAddrs), NEW monitors \in Seq(GslbAddrs),
         NEW backends \in BackendSets
  PROVE  Gslb(servers, monitors, backends) \in Records
  BY DEF Gslb, Records, BackendSets

(* A record that lists no group.                                           *)
LEMMA NoBackendsType == NoBackends \in BackendSets
  BY DEF NoBackends, BackendSets

(* What haproxyBackends builds.                                            *)
LEMMA haproxyBackendsType ==
  ASSUME GroupPart
  PROVE  haproxyBackends \in BackendSets
<1> SUFFICES ASSUME NEW g \in Groups, groups[g] # None, groups[g].servers # <<>>
             PROVE  ServerGroup(groups[g]) \in ServerGroups
  BY DEF haproxyBackends, BackendSets
<1> DEFINE v == groups[g]
           read == ReadServers(v.servers)
           A == Addrs \cup GslbAddrs
<1>1. v.servers \in Seq(Addrs) /\ v.servers # <<>> /\ v.rPort \in Ports /\ v.wPort \in Ports
  BY DEF GroupPart, GroupRecords
<1>2. read \in Seq(Addrs)
  BY <1>1, ReadServersIs
<1>3. read \in Seq(A)
  BY <1>2, SeqWider
<1>4. <<v.servers[1]>> \in Seq(A)
  <2>1. v.servers[1] \in Addrs
    BY <1>1
  <2> QED BY <2>1
<1> HIDE DEF v, read, A
<1>5. /\ Backend(v.rPort, read) \in Backends
      /\ Backend(v.wPort, <<v.servers[1]>>) \in Backends
  BY <1>1, <1>3, <1>4 DEF Backend, Backends, A
<1>6. ServerGroup(v) \in [{"Read", "Write"} -> Backends \cup {None}]
  BY <1>5 DEF ServerGroup, read
<1> QED BY <1>6 DEF ServerGroups, v

(* What lvsBackends builds from the cached haproxy record.                 *)
LEMMA lvsBackendsType ==
  ASSUME RecordPart
  PROVE  lvsBackends \in BackendSets
<1> DEFINE A == Addrs \cup GslbAddrs
           h == gslbs["haproxy"]
<1>1. CASE h = None
  BY <1>1, NoBackendsType DEF lvsBackends
<1>2. CASE h # None
  <2>1. h.servers \in Seq(GslbAddrs) /\ h.backends \in [Groups -> ServerGroups \cup {None}]
    BY <1>2, GslbAssumption DEF RecordPart, Records
  <2>2. h.servers \in Seq(A)
    BY <2>1, SeqWider
  <2> DEFINE entry(sg) == [state \in DOMAIN sg |->
                     IF sg[state] = None THEN None
                     ELSE Backend(sg[state].port, h.servers)]
  <2>3. ASSUME NEW sg \in ServerGroups
        PROVE  entry(sg) \in ServerGroups
    <3>1. DOMAIN sg = {"Read", "Write"}
      BY DEF ServerGroups
    <3>2. \A state \in DOMAIN sg : sg[state] # None => sg[state].port \in Ports
      BY DEF ServerGroups, Backends
    <3>3. \A state \in DOMAIN sg : sg[state] # None =>
            Backend(sg[state].port, h.servers) \in Backends
      BY <2>2, <3>2 DEF Backend, Backends
    <3> QED BY <3>1, <3>3 DEF ServerGroups
  <2>4. lvsBackends = [g \in Groups |-> IF h.backends[g] = None THEN None
                                        ELSE entry(h.backends[g])]
    BY <1>2 DEF lvsBackends
  <2> HIDE DEF entry, h
  <2> QED BY <2>1, <2>3, <2>4 DEF BackendSets
<1> QED BY <1>1, <1>2

(* The record a refresh writes.                                            *)
LEMMA RefreshedType ==
  ASSUME GroupPart, RecordPart, NEW name \in Cached
  PROVE  Refreshed(name) \in Records
<1>1. gslbs[name].servers \in Seq(GslbAddrs)
  BY DEF Cached, RecordPart, Records
<1>2. gslbs["haproxy"] # None => gslbs["haproxy"].servers \in Seq(GslbAddrs)
  BY GslbAssumption DEF RecordPart, Records
<1>3. <<>> \in Seq(GslbAddrs)
  OBVIOUS
<1> QED BY <1>1, <1>2, <1>3, haproxyBackendsType, lvsBackendsType, GslbIsRecord DEF Refreshed

-----------------------------------------------------------------------------
(* What a call of the mapper does to the cache and to the coordinator.     *)

(* BackendsMirrored of a cache that the caller has changed in place.       *)
Mirrored(cache) ==
  \A n \in Names :
    cache[n] # None /\ cache[n].backends # NoBackends =>
      stored[n] # None /\ stored[n].backends = cache[n].backends

OnlyRefused == WriteFaults \subseteq {"refused"}

(* Update keeps the types and forgets no record; with refused writes only, *)
(* what it caches is in the coordinator.                                   *)
LEMMA UpdateStep ==
  ASSUME RecordPart, NEW cache \in [Names -> Records \cup {None}],
         NEW name \in Names, NEW rec \in Records, Update(cache, name, rec)
  PROVE  /\ RecordPart'
         /\ \A n \in Names : cache[n] # None => gslbs'[n] # None
         /\ OnlyRefused /\ Mirrored(cache) => BackendsMirrored'
<1>1. CASE cache[name] = rec /\ gslbs' = cache /\ UNCHANGED stored
  BY <1>1 DEF RecordPart, Mirrored, BackendsMirrored
<1>2. ASSUME NEW o \in Outcomes,
             stored' = IF o = "refused" THEN stored ELSE [stored EXCEPT ![name] = rec],
             gslbs' = IF o = "ok" THEN [cache EXCEPT ![name] = rec] ELSE cache
      PROVE  /\ RecordPart'
             /\ \A n \in Names : cache[n] # None => gslbs'[n] # None
             /\ OnlyRefused /\ Mirrored(cache) => BackendsMirrored'
  <2>1. RecordPart'
    BY <1>2 DEF RecordPart
  <2>2. \A n \in Names : cache[n] # None => gslbs'[n] # None
    BY <1>2, NoneIsNoRecord
  <2>3. ASSUME OnlyRefused, Mirrored(cache)
        PROVE  BackendsMirrored'
    <3>1. CASE o = "ok"
      <4>1. gslbs' = [cache EXCEPT ![name] = rec] /\ stored' = [stored EXCEPT ![name] = rec]
        BY <1>2, <3>1
      <4> QED BY <2>3, <4>1, NoneIsNoRecord DEF RecordPart, Mirrored, BackendsMirrored
    <3>2. CASE o = "refused"
      <4>1. gslbs' = cache /\ stored' = stored
        BY <1>2, <3>2
      <4> QED BY <2>3, <4>1 DEF Mirrored, BackendsMirrored
    <3> QED BY <1>2, <2>3, <3>1, <3>2 DEF OnlyRefused, Outcomes
  <2> QED BY <2>1, <2>2, <2>3
<1> QED BY <1>1, <1>2 DEF Update

(* The same of Delete.                                                     *)
LEMMA DeleteStep ==
  ASSUME RecordPart, NEW cache \in [Names -> Records \cup {None}],
         NEW name \in Names, NEW o \in Outcomes, Delete(cache, name, o)
  PROVE  /\ RecordPart'
         /\ \A n \in Names \ {name} : gslbs'[n] = cache[n]
         /\ OnlyRefused /\ Mirrored(cache) => BackendsMirrored'
<1>1. RecordPart'
  BY DEF Delete, RecordPart
<1>2. \A n \in Names \ {name} : gslbs'[n] = cache[n]
  BY DEF Delete
<1>3. ASSUME OnlyRefused, Mirrored(cache)
      PROVE  BackendsMirrored'
  <2>1. CASE o = "ok"
    <3>1. gslbs' = [cache EXCEPT ![name] = None] /\ stored' = [stored EXCEPT ![name] = None]
      BY <2>1 DEF Delete
    <3> QED BY <1>3, <3>1 DEF RecordPart, Mirrored, BackendsMirrored
  <2>2. CASE o = "refused"
    <3>1. gslbs' = cache /\ stored' = stored
      BY <2>2 DEF Delete
    <3> QED BY <1>3, <3>1 DEF Mirrored, BackendsMirrored
  <2> QED BY <1>3, <2>1, <2>2 DEF OnlyRefused, Outcomes
<1> QED BY <1>1, <1>2, <1>3

(* A cached record whose servers the caller changes in place keeps what it *)
(* serves; a new one serves nothing.                                       *)
LEMMA InPlace ==
  ASSUME RecordPart, NEW name \in Names, NEW old \in Records,
         old = gslbs[name] \/ old.backends = NoBackends,
         NEW servers \in Seq(GslbAddrs),
         NEW rec, rec = [old EXCEPT !.servers = servers],
         NEW cache, cache = [gslbs EXCEPT ![name] = rec]
  PROVE  /\ rec \in Records /\ cache \in [Names -> Records \cup {None}]
         /\ \A n \in Names : n = name \/ gslbs[n] # None => cache[n] # None
         /\ BackendsMirrored => Mirrored(cache)
<1>1. rec \in Records /\ rec.backends = old.backends
  BY DEF Records
<1>2. cache \in [Names -> Records \cup {None}]
  BY <1>1 DEF RecordPart
<1>3. /\ cache[name] = rec
      /\ \A n \in Names : n # name => cache[n] = gslbs[n]
  BY DEF RecordPart
<1>4. old # None /\ rec # None
  BY <1>1, NoneIsNoRecord
<1>5. \A n \in Names : n = name \/ gslbs[n] # None => cache[n] # None
  BY <1>3, <1>4
<1>6. BackendsMirrored => Mirrored(cache)
  BY <1>1, <1>3, <1>4 DEF BackendsMirrored, Mirrored
<1> QED BY <1>1, <1>2, <1>5, <1>6

-----------------------------------------------------------------------------
(* What each step does.                                                    *)

(* Steps about the groups keep their records well formed.                  *)
LEMMA GroupsStep ==
  ASSUME GroupPart, NEW g \in Groups, ChangeGroup(g)
  PROVE  GroupPart'
<1>1. ASSUME NEW v \in GroupRecords \cup {None}, groups' = [groups EXCEPT ![g] = v]
      PROVE  GroupPart'
  BY <1>1 DEF GroupPart
<1>2. Registry!Exists(g) => /\ groups[g] \in GroupRecords
                            /\ groups[g].servers \in Seq(Addrs)
  BY DEF GroupPart, GroupRecords, Registry!Exists
<1>3. ASSUME NEW servers \in Seq(Addrs), Registry!Exists(g),
             groups' = [groups EXCEPT ![g].servers = servers]
      PROVE  GroupPart'
  <2>1. [groups[g] EXCEPT !.servers = servers] \in GroupRecords
    BY <1>2, <1>3 DEF GroupRecords
  <2>2. groups' = [groups EXCEPT ![g] = [groups[g] EXCEPT !.servers = servers]]
    BY <1>3 DEF GroupPart
  <2> QED BY <1>1, <2>1, <2>2
<1>4. CASE \E ports \in PortPairs : Registry!Create(g, ports[1], ports[2])
  <2>1. PICK ports \in PortPairs : Registry!Create(g, ports[1], ports[2])
    BY <1>4
  <2>2. ports[1] \in Ports /\ ports[2] \in Ports
    BY GslbAssumption
  <2> DEFINE v == [servers |-> <<>>, rPort |-> ports[1], wPort |-> ports[2]]
  <2>3. v \in GroupRecords
    BY <2>2 DEF GroupRecords
  <2>4. groups' = [groups EXCEPT ![g] = v]
    BY <2>1 DEF Registry!Create
  <2> HIDE DEF v
  <2> QED BY <1>1, <2>3, <2>4
<1>5. CASE Registry!Discard(g)
  BY <1>1, <1>5 DEF Registry!Discard
<1>6. CASE \E a \in Addrs : Registry!AddServer(g, a)
  <2>1. PICK a \in Addrs : Registry!AddServer(g, a)
    BY <1>6
  <2>2. /\ Registry!Exists(g)
        /\ groups' = [groups EXCEPT ![g].servers = Append(groups[g].servers, a)]
    BY <2>1 DEF Registry!AddServer, GroupPart
  <2>3. Append(groups[g].servers, a) \in Seq(Addrs)
    BY <1>2, <2>2
  <2> QED BY <1>3, <2>2, <2>3
<1>7. ASSUME NEW i \in DOMAIN groups[g].servers, Registry!DelServer(g, i)
      PROVE  GroupPart'
  <2>1. /\ Registry!Exists(g)
        /\ groups' = [groups EXCEPT ![g].servers = RemoveAt(groups[g].servers, i)]
    BY <1>7 DEF Registry!DelServer, GroupPart, RemoveAt, Registry!RemoveAt
  <2>2. RemoveAt(groups[g].servers, i) \in Seq(Addrs)
    BY <1>2, <1>7, <2>1, RemoveAtType
  <2> QED BY <1>3, <2>1, <2>2
<1>8. ASSUME NEW i \in DOMAIN groups[g].servers, Registry!ChangeMaster(g, i)
      PROVE  GroupPart'
  <2> DEFINE s == groups[g].servers
             t == [s EXCEPT ![1] = s[i], ![i] = s[1]]
  <2>1. Registry!Exists(g) /\ groups' = [groups EXCEPT ![g].servers = t]
    BY <1>8 DEF Registry!ChangeMaster
  <2>2. t \in Seq(Addrs)
    <3>1. s \in Seq(Addrs) /\ i \in 1..Len(s)
      BY <1>2, <2>1
    <3>2. DOMAIN t = 1..Len(s) /\ Len(s) \in Nat /\ \A j \in 1..Len(s) : t[j] \in Addrs
      BY <3>1
    <3>3. t = [j \in 1..Len(s) |-> t[j]]
      BY <3>2
    <3> HIDE DEF t
    <3> QED BY <3>2, <3>3
  <2> HIDE DEF t
  <2> QED BY <1>3, <2>1, <2>2
<1> QED BY <1>4, <1>5, <1>6, <1>7, <1>8 DEF ChangeGroup

(* A step that leaves the records of the balancers alone.                  *)
LEMMA RecordsStay ==
  ASSUME RecordPart, LeftPart, UNCHANGED <<gslbs, stored>>, left' \in {{}, left, Cached}
  PROVE  RecordPart' /\ LeftPart' /\ (BackendsMirrored => BackendsMirrored')
<1>1. Cached' = Cached
  BY DEF Cached
<1>2. left' \subseteq Cached
  BY DEF LeftPart
<1> QED BY <1>1, <1>2 DEF RecordPart, LeftPart, BackendsMirrored

(* The requests about balancers.                                           *)
LEMMA AddGSLBStep ==
  ASSUME RecordPart, NEW name \in Names, NEW addr \in GslbAddrs, AddGSLB(name, addr)
  PROVE  /\ RecordPart' /\ LeftPart'
         /\ OnlyRefused /\ BackendsMirrored => BackendsMirrored'
<1> DEFINE old == IF gslbs[name] = None THEN Gslb(<<>>, <<>>, NoBackends) ELSE gslbs[name]
           servers == Append(old.servers, addr)
           rec == [old EXCEPT !.servers = servers]
           cache == [gslbs EXCEPT ![name] = rec]
<1>1. /\ old \in Records /\ old.servers \in Seq(GslbAddrs)
      /\ old = gslbs[name] \/ old.backends = NoBackends
  <2>1. <<>> \in Seq(GslbAddrs)
    OBVIOUS
  <2>2. /\ Gslb(<<>>, <<>>, NoBackends) \in Records
        /\ Gslb(<<>>, <<>>, NoBackends).backends = NoBackends
    BY <2>1, GslbIsRecord, NoBackendsType DEF Gslb
  <2>3. old \in Records
    BY <2>2 DEF RecordPart
  <2>4. old.servers \in Seq(GslbAddrs)
    BY <2>3 DEF Records
  <2> QED BY <2>2, <2>3, <2>4
<1>2. rec = [old EXCEPT !.servers = Append(@, addr)]
  BY <1>1 DEF Records
<1>3. Update(cache, name, rec) /\ left' = Cached \cup {name}
  BY <1>2 DEF AddGSLB
<1> HIDE DEF old
<1>4. servers \in Seq(GslbAddrs)
  BY <1>1
<1> HIDE DEF servers
<1>5. /\ rec \in Records /\ cache \in [Names -> Records \cup {None}]
      /\ \A n \in Names : n = name \/ gslbs[n] # None => cache[n] # None
      /\ BackendsMirrored => Mirrored(cache)
  BY <1>1, <1>4, InPlace
<1> HIDE DEF rec, cache
<1>6. /\ RecordPart' /\ \A n \in Names : cache[n] # None => gslbs'[n] # None
      /\ OnlyRefused /\ Mirrored(cache) => BackendsMirrored'
  BY <1>3, <1>5, UpdateStep
<1>7. LeftPart'
  BY <1>3, <1>5, <1>6 DEF LeftPart, Cached
<1> QED BY <1>5, <1>6, <1>7

(* DelGSLB, with the deletion of a record that has no servers left.        *)
LEMMA DelGSLBStep ==
  ASSUME RecordPart, NEW name \in Names, NEW addr \in GslbAddrs, DelGSLB(name, addr)
  PROVE  /\ RecordPart' /\ LeftPart'
         /\ OnlyRefused /\ BackendsMirrored => BackendsMirrored'
<1> DEFINE old == gslbs[name]
<1>1. old \in Records /\ old.servers \in Seq(GslbAddrs)
  BY DEF DelGSLB, RecordPart, Records
<1>2. PICK i \in DOMAIN old.servers :
        LET rec == [old EXCEPT !.servers = RemoveAt(@, i)]
            cache == [gslbs EXCEPT ![name] = rec]
        IN \/ /\ Update(cache, name, rec)
              /\ left' = Cached
           \/ \E o \in Outcomes :
                /\ Delete(cache, name, o)
                /\ left' = IF o = "ok" THEN Cached \ {name} ELSE {}
  BY DEF DelGSLB
<1> DEFINE servers == RemoveAt(old.servers, i)
           rec == [old EXCEPT !.servers = servers]
           cache == [gslbs EXCEPT ![name] = rec]
<1>3. rec = [old EXCEPT !.servers = RemoveAt(@, i)]
  BY <1>1 DEF Records
<1>4. servers \in Seq(GslbAddrs)
  BY <1>1, RemoveAtType
<1>5. \/ Update(cache, name, rec) /\ left' = Cached
      \/ \E o \in Outcomes : /\ Delete(cache, name, o)
                             /\ left' = IF o = "ok" THEN Cached \ {name} ELSE {}
  BY <1>2, <1>3
<1> HIDE DEF servers
<1>6. /\ rec \in Records /\ cache \in [Names -> Records \cup {None}]
      /\ \A n \in Names : n = name \/ gslbs[n] # None => cache[n] # None
      /\ BackendsMirrored => Mirrored(cache)
  BY <1>1, <1>4, InPlace
<1> HIDE DEF rec, cache
<1>7. CASE Update(cache, name, rec) /\ left' = Cached
  <2>1. /\ RecordPart' /\ \A n \in Names : cache[n] # None => gslbs'[n] # None
        /\ OnlyRefused /\ Mirrored(cache) => BackendsMirrored'
    BY <1>6, <1>7, UpdateStep
  <2>2. LeftPart'
    BY <1>6, <1>7, <2>1 DEF LeftPart, Cached
  <2> QED BY <1>6, <2>1, <2>2
<1>8. ASSUME NEW o \in Outcomes, Delete(cache, name, o),
             left' = IF o = "ok" THEN Cached \ {name} ELSE {}
      PROVE  /\ RecordPart' /\ LeftPart'
             /\ OnlyRefused /\ BackendsMirrored => BackendsMirrored'
  <2>1. /\ RecordPart' /\ \A n \in Names \ {name} : gslbs'[n] = cache[n]
        /\ OnlyRefused /\ Mirrored(cache) => BackendsMirrored'
    BY <1>6, <1>8, DeleteStep
  <2>2. LeftPart'
    BY <1>6, <1>8, <2>1 DEF LeftPart, Cached
  <2> QED BY <1>6, <2>1, <2>2
<1> QED BY <1>5, <1>7, <1>8

(* One turn of refreshGSLBBackendInfo: the record is built anew, so that   *)
(* nothing but a write that succeeded changes the cache.                   *)
LEMMA RefreshStep ==
  ASSUME GroupPart, RecordPart, LeftPart, NEW name \in Names, Refresh(name)
  PROVE  /\ RecordPart' /\ LeftPart'
         /\ OnlyRefused /\ BackendsMirrored => BackendsMirrored'
<1>1. CASE left' = {} /\ UNCHANGED <<gslbs, stored>>
  BY <1>1, RecordsStay
<1>2. CASE Update(gslbs, name, Refreshed(name)) /\ left' = left \ {name}
  <2>1. Refreshed(name) \in Records /\ gslbs \in [Names -> Records \cup {None}]
    BY RefreshedType DEF Refresh, LeftPart, RecordPart
  <2>2. BackendsMirrored => Mirrored(gslbs)
    BY DEF BackendsMirrored, Mirrored
  <2>3. /\ RecordPart' /\ \A n \in Names : gslbs[n] # None => gslbs'[n] # None
        /\ OnlyRefused /\ Mirrored(gslbs) => BackendsMirrored'
    BY <1>2, <2>1, UpdateStep
  <2>4. LeftPart'
    BY <1>2, <2>3 DEF LeftPart, Cached
  <2> QED BY <2>2, <2>3, <2>4
<1> QED BY <1>1, <1>2 DEF Refresh

(* A new process caches what the coordinator has.                          *)
LEMMA RestartStep ==
  ASSUME RecordPart, Restart
  PROVE  RecordPart' /\ LeftPart' /\ BackendsMirrored'
  BY DEF Restart, RecordPart, LeftPart, BackendsMirrored

(* The rounds of statistics.                                               *)
LEMMA NoStatsType == NoStats \in StatsMaps /\ NoRound \in
  [pc : {"wait", "ask", "refresh"}, ask : SUBSET Addrs, got : StatsMaps]
  BY DEF NoStats, StatsMaps, NoRound, Round

(* A round asks servers of groups only and keeps what they answered.       *)
LEMMA StatsStep ==
  ASSUME GroupPart, StatsPart, Stats
  PROVE  StatsPart'
<1>1. CASE StartRound
  <2> DEFINE ask == UNION {IF groups[g] = None THEN {} ELSE ToSet(groups[g].servers)
                             : g \in Groups}
  <2>1. ask \subseteq Addrs
    <3>1. ASSUME NEW g \in Groups, groups[g] # None
          PROVE  ToSet(groups[g].servers) \subseteq Addrs
      <4>1. groups[g].servers \in Seq(Addrs)
        BY <3>1 DEF GroupPart, GroupRecords
      <4> QED BY <4>1, ToSetType
    <3> QED BY <3>1
  <2>2. round' = Round("ask", ask, NoStats) /\ UNCHANGED <<links, stats, writers>>
    BY <1>1 DEF StartRound
  <2> HIDE DEF ask
  <2> QED BY <2>1, <2>2, NoStatsType DEF StatsPart, Round
<1>2. ASSUME NEW a \in Addrs, Ask(a)
      PROVE  StatsPart'
  <2>1. [round.got EXCEPT ![a] = links[a]] \in StatsMaps
    BY DEF StatsPart, StatsMaps
  <2>2. round' = [round EXCEPT !.ask = @ \ {a}, !.got = [round.got EXCEPT ![a] = links[a]]]
    BY <1>2 DEF Ask, StatsPart
  <2> QED BY <1>2, <2>1, <2>2 DEF Ask, StatsPart
<1>3. CASE EndRound
  BY <1>3, NoStatsType DEF EndRound, StatsPart
<1>4. CASE SetStats
  BY <1>4 DEF SetStats, StatsPart
<1>5. CASE RefreshRound
  BY <1>5, NoStatsType DEF RefreshRound, StatsPart
<1> QED BY <1>1, <1>2, <1>3, <1>4, <1>5 DEF Stats

(* Nothing is cached or stored at first.                                   *)
LEMMA GslbInit == Init => TypeOK /\ BackendsMirrored
<1> SUFFICES ASSUME Init PROVE TypeOK /\ BackendsMirrored
  OBVIOUS
<1>1. GroupPart /\ RecordPart /\ LeftPart /\ BackendsMirrored
  BY DEF Init, GroupPart, RecordPart, LeftPart, BackendsMirrored
<1>2. Link(TRUE, None, FALSE) \in LinkStates
  BY DEF LinkStates
<1>3. StatsPart
  BY <1>2, NoStatsType DEF Init, StatsPart
<1> QED BY <1>1, <1>3, TypeParts

(* Every step keeps the type invariant, and the mirror as well when failed *)
(* writes are refused ones.                                                *)
LEMMA GslbStep ==
  ASSUME TypeOK, [Next]_vars
  PROVE  TypeOK' /\ (OnlyRefused /\ BackendsMirrored => BackendsMirrored')
<1> USE TypeParts
<1>1. CASE \E n \in Names, x \in GslbAddrs : AddGSLB(n, x) \/ DelGSLB(n, x)
  <2>1. RecordPart' /\ LeftPart' /\ (OnlyRefused /\ BackendsMirrored => BackendsMirrored')
    BY <1>1, AddGSLBStep, DelGSLBStep
  <2>2. UNCHANGED <<groups, links, statistics>>
    BY <1>1 DEF AddGSLB, DelGSLB
  <2>3. GroupPart' /\ StatsPart'
    BY <2>2 DEF GroupPart, StatsPart, statistics
  <2> QED BY <2>1, <2>3
<1>2. ASSUME NEW g \in Groups, ChangeGroup(g)
      PROVE  TypeOK' /\ (BackendsMirrored => BackendsMirrored')
  <2>1. UNCHANGED <<links, statistics>> /\ UNCHANGED <<gslbs, stored>>
    BY <1>2 DEF ChangeGroup
  <2>2. left' \in {{}, left, Cached}
    BY <1>2 DEF ChangeGroup
  <2>3. StatsPart'
    BY <2>1 DEF StatsPart, statistics
  <2> QED BY <1>2, <2>1, <2>2, <2>3, GroupsStep, RecordsStay
<1>3. CASE Stats
  <2>1. UNCHANGED groups /\ UNCHANGED <<gslbs, stored>> /\ left' \in {{}, left, Cached}
    BY <1>3 DEF Stats, StartRound, Ask, EndRound, SetStats, RefreshRound
  <2>2. GroupPart'
    BY <2>1 DEF GroupPart
  <2> QED BY <1>3, <2>1, <2>2, StatsStep, RecordsStay
<1>4. ASSUME NEW n \in Names, Refresh(n)
      PROVE  TypeOK' /\ (OnlyRefused /\ BackendsMirrored => BackendsMirrored')
  <2>1. UNCHANGED <<groups, links, statistics>>
    BY <1>4 DEF Refresh
  <2>2. GroupPart' /\ StatsPart'
    BY <2>1 DEF GroupPart, StatsPart, statistics
  <2> QED BY <1>4, <2>2, RefreshStep
<1>5. ASSUME NEW a \in Addrs, NEW state \in Links, ChangeLink(a, state)
      PROVE  TypeOK' /\ (BackendsMirrored => BackendsMirrored')
  <2>1. UNCHANGED <<groups, statistics>> /\ UNCHANGED <<gslbs, stored>> /\ left' = left
    BY <1>5 DEF ChangeLink
  <2>2. GroupPart'
    BY <2>1 DEF GroupPart
  <2>3. StatsPart'
    BY <1>5, <2>1, LinksAssumption DEF ChangeLink, StatsPart, statistics
  <2> QED BY <2>1, <2>2, <2>3, RecordsStay
<1>6. CASE Restart
  <2>1. GroupPart' /\ StatsPart'
    BY <1>6, NoStatsType DEF Restart, GroupPart, StatsPart
  <2> QED BY <1>6, <2>1, RestartStep
<1>7. CASE UNCHANGED vars
  BY <1>7 DEF vars, TypeOK, Cached, BackendsMirrored
<1> QED BY <1>1, <1>2, <1>3, <1>4, <1>5, <1>6, <1>7 DEF Next, Request, Disturbance

-----------------------------------------------------------------------------
(* Results.                                                                *)

(* Type correctness for any number of groups, balancers and servers: what  *)
(* Update writes is always a whole record, and a refresh only has records  *)
(* left that are cached.                                                   *)
THEOREM GslbTypeCorrect == Spec => []TypeOK
  BY GslbInit, GslbStep, PTL DEF Spec

(* What a cached record serves is what the coordinator has of it, as long  *)
(* as a write that fails is refused.  The hypothesis is needed: with a     *)
(* write that is carried out although it fails TLC finds the cache behind. *)
THEOREM BackendsMirroredAlways ==
  ASSUME OnlyRefused
  PROVE  Spec => []BackendsMirrored
<1>1. ASSUME TypeOK, BackendsMirrored, [Next]_vars
      PROVE  BackendsMirrored'
  BY <1>1, GslbStep
<1> QED BY GslbInit, GslbTypeCorrect, <1>1, PTL DEF Spec

(* The groups that Gslb works on change as GroupRegistry says, which Topom *)
(* implements: the two modules agree on what they share.                   *)
THEOREM GroupsAreARegistry == Spec => Registry!Spec
<1>1. Init => Registry!Init
  BY DEF Init, Registry!Init
<1>2. [Next]_vars => [Registry!Next]_groups
  <2> SUFFICES ASSUME Next, groups' # groups PROVE Registry!Next
    BY DEF vars
  <2>1. PICK g \in Groups : ChangeGroup(g)
    BY DEF Next, Request, Stats, Disturbance, AddGSLB, DelGSLB, Refresh, StartRound, Ask,
           EndRound, SetStats, RefreshRound, ChangeLink, Restart
  <2>2. CASE \E ports \in PortPairs : Registry!Create(g, ports[1], ports[2])
    <3>1. PICK ports \in PortPairs : Registry!Create(g, ports[1], ports[2])
      BY <2>2
    <3>2. ports[1] \in Ports /\ ports[2] \in Ports
      BY GslbAssumption
    <3> QED BY <3>1, <3>2 DEF Registry!Next
  <2> QED BY <2>1, <2>2 DEF ChangeGroup, Registry!Next
<1> QED BY <1>1, <1>2, PTL DEF Spec, Registry!Spec

-----------------------------------------------------------------------------
(* What the balancers are told to serve.                                   *)

(* What the registry keeps of the groups.                                  *)
GroupsApart ==
  \A g \in Groups : groups[g] # None =>
    /\ groups[g].rPort # groups[g].wPort
    /\ \A h \in Groups : groups[h] # None /\ g # h =>
         /\ {groups[g].rPort, groups[g].wPort} \cap {groups[h].rPort, groups[h].wPort} = {}
         /\ ToSet(groups[g].servers) \cap ToSet(groups[h].servers) = {}

(* The entry of one group.                                                 *)
LEMMA ServerGroupIs ==
  ASSUME NEW v \in GroupRecords, v.servers # <<>>, NEW sg, sg = ServerGroup(v)
  PROVE  /\ sg["Read"] # None => /\ sg["Read"].port = v.rPort
                                 /\ ToSet(sg["Read"].servers) \subseteq ToSet(v.servers)
         /\ sg["Write"] # None => /\ sg["Write"].port = v.wPort
                                  /\ sg["Write"].servers = <<v.servers[1]>>
                                  /\ v.servers[1] \in ToSet(v.servers)
                                  /\ sg["Read"] # None
                                  /\ v.servers[1] \in ToSet(sg["Read"].servers)
<1> DEFINE read == ReadServers(v.servers)
           s == v.servers
<1>1. s \in Seq(Addrs) /\ s # <<>> /\ v.rPort \in Ports /\ v.wPort \in Ports
  BY DEF GroupRecords
<1>2. 1 \in DOMAIN s /\ s[1] \in ToSet(s)
  BY <1>1 DEF ToSet
<1>3. read \in Seq(Addrs)
      /\ ToSet(read) = {s[i] : i \in {j \in DOMAIN s : Serves(s, j)}}
  BY <1>1, ReadServersIs
<1>4. ToSet(read) \subseteq ToSet(s)
  BY <1>3 DEF ToSet
<1>5. Answers(s[1]) => s[1] \in ToSet(read) /\ read # <<>>
  <2>1. Answers(s[1]) => Serves(s, 1)
    BY DEF Serves
  <2>2. Answers(s[1]) => s[1] \in ToSet(read)
    BY <1>2, <1>3, <2>1
  <2>3. ToSet(<<>>) = {}
    BY DEF ToSet
  <2> QED BY <2>2, <2>3
<1>6. Backend(v.rPort, read) # None
  <2>1. read \in Seq(Addrs \cup GslbAddrs)
    BY <1>3, SeqWider
  <2>2. Backend(v.rPort, read) \in Backends
    BY <1>1, <2>1 DEF Backend, Backends
  <2> QED BY <2>2, NoneIsNoRecord
<1>7. /\ sg["Read"] = IF read = <<>> THEN None ELSE Backend(v.rPort, read)
      /\ sg["Write"] = IF Answers(s[1]) THEN Backend(v.wPort, <<s[1]>>) ELSE None
  BY DEF ServerGroup
<1>8. /\ Backend(v.rPort, read).port = v.rPort /\ Backend(v.rPort, read).servers = read
      /\ Backend(v.wPort, <<s[1]>>).port = v.wPort
      /\ Backend(v.wPort, <<s[1]>>).servers = <<s[1]>>
  BY DEF Backend
<1> HIDE DEF read
<1>9. sg["Read"] # None => sg["Read"] = Backend(v.rPort, read)
  BY <1>7
<1>10. sg["Write"] # None => /\ Answers(s[1]) /\ sg["Write"] = Backend(v.wPort, <<s[1]>>)
                             /\ sg["Read"] = Backend(v.rPort, read)
  BY <1>5, <1>7
<1> QED BY <1>2, <1>4, <1>5, <1>6, <1>8, <1>9, <1>10

(* What BackendsApart and WritesToOneServer say, record by record.         *)
OneWriter(b) ==
  \A g \in Groups : Uses(b, g, "Write") =>
    /\ Uses(b, g, "Read")
    /\ \E a \in ToSet(b[g]["Read"].servers) : b[g]["Write"].servers = <<a>>

Sound(n, r) ==
  r # None =>
    /\ PortsApart(r.backends)
    /\ n = "haproxy" => ServersApart(r.backends) /\ OneWriter(r.backends)

RecordsSound == \A n \in Names : Sound(n, gslbs[n]) /\ Sound(n, stored[n])

(* haproxyBackends of groups that are apart.                               *)
LEMMA haproxySound ==
  ASSUME GroupPart, GroupsApart, NEW b, b = haproxyBackends
  PROVE  PortsApart(b) /\ ServersApart(b) /\ OneWriter(b)
<1>1. ASSUME NEW g \in Groups, b[g] # None
      PROVE  /\ groups[g] # None /\ groups[g] \in GroupRecords /\ groups[g].servers # <<>>
             /\ b[g] = ServerGroup(groups[g])
  BY <1>1 DEF haproxyBackends, GroupPart
<1>2. ASSUME NEW g \in Groups, NEW s \in States, Uses(b, g, s)
      PROVE  /\ groups[g] # None
             /\ b[g][s].port = IF s = "Read" THEN groups[g].rPort ELSE groups[g].wPort
             /\ ToSet(b[g][s].servers) \subseteq ToSet(groups[g].servers)
  <2>1. /\ groups[g] # None /\ groups[g] \in GroupRecords /\ groups[g].servers # <<>>
        /\ b[g] = ServerGroup(groups[g])
    BY <1>1, <1>2 DEF Uses
  <2>2. CASE s = "Read"
    BY <1>2, <2>1, <2>2, ServerGroupIs DEF Uses
  <2>3. CASE s = "Write"
    <3>1. /\ b[g][s].port = groups[g].wPort /\ b[g][s].servers = <<groups[g].servers[1]>>
          /\ groups[g].servers[1] \in ToSet(groups[g].servers)
      BY <1>2, <2>1, <2>3, ServerGroupIs DEF Uses
    <3>2. ToSet(<<groups[g].servers[1]>>) = {groups[g].servers[1]}
      BY DEF ToSet
    <3> QED BY <2>1, <2>3, <3>1, <3>2
  <2> QED BY <2>2, <2>3 DEF States
<1>3. PortsApart(b)
  <2> SUFFICES ASSUME NEW g \in Groups, NEW h \in Groups, NEW s \in States, NEW t \in States,
                      Uses(b, g, s), Uses(b, h, t), g # h \/ s # t
               PROVE  b[g][s].port # b[h][t].port
    BY DEF PortsApart
  <2>1. /\ groups[g] # None /\ groups[h] # None
        /\ b[g][s].port = IF s = "Read" THEN groups[g].rPort ELSE groups[g].wPort
        /\ b[h][t].port = IF t = "Read" THEN groups[h].rPort ELSE groups[h].wPort
    BY <1>2
  <2>2. CASE g # h
    BY <2>1, <2>2 DEF GroupsApart
  <2>3. CASE g = h /\ s # t
    BY <2>1, <2>3 DEF GroupsApart, States
  <2> QED BY <2>2, <2>3
<1>4. ServersApart(b)
  <2> SUFFICES ASSUME NEW g \in Groups, NEW h \in Groups, NEW s \in States, NEW t \in States,
                      Uses(b, g, s), Uses(b, h, t), g # h
               PROVE  ToSet(b[g][s].servers) \cap ToSet(b[h][t].servers) = {}
    BY DEF ServersApart
  <2>1. /\ groups[g] # None /\ groups[h] # None
        /\ ToSet(b[g][s].servers) \subseteq ToSet(groups[g].servers)
        /\ ToSet(b[h][t].servers) \subseteq ToSet(groups[h].servers)
    BY <1>2
  <2>2. ToSet(groups[g].servers) \cap ToSet(groups[h].servers) = {}
    BY <2>1 DEF GroupsApart
  <2> QED BY <2>1, <2>2
<1>5. OneWriter(b)
  <2> SUFFICES ASSUME NEW g \in Groups, Uses(b, g, "Write")
               PROVE  /\ Uses(b, g, "Read")
                      /\ \E a \in ToSet(b[g]["Read"].servers) : b[g]["Write"].servers = <<a>>
    BY DEF OneWriter
  <2>1. /\ groups[g] \in GroupRecords /\ groups[g].servers # <<>>
        /\ b[g] = ServerGroup(groups[g]) /\ b[g] # None /\ b[g]["Write"] # None
    BY <1>1 DEF Uses
  <2> QED BY <2>1, ServerGroupIs DEF Uses
<1> QED BY <1>3, <1>4, <1>5

(* lvsBackends takes the ports of the haproxy record.                      *)
LEMMA lvsSound ==
  ASSUME RecordPart, RecordsSound
  PROVE  PortsApart(lvsBackends)
<1> DEFINE h == gslbs["haproxy"]
           b == lvsBackends
<1>1. CASE h = None
  BY <1>1 DEF lvsBackends, NoBackends, PortsApart, Uses
<1>2. CASE h # None
  <2>1. /\ PortsApart(h.backends)
        /\ h.backends \in [Groups -> ServerGroups \cup {None}]
    BY <1>2, GslbAssumption DEF RecordsSound, Sound, RecordPart, Records
  <2>2. ASSUME NEW g \in Groups, NEW s \in States, Uses(b, g, s)
        PROVE  Uses(h.backends, g, s) /\ b[g][s].port = h.backends[g][s].port
    <3> DEFINE sg == h.backends[g]
    <3>1. sg # None /\ b[g] = [state \in DOMAIN sg |->
                     IF sg[state] = None THEN None
                     ELSE Backend(sg[state].port, h.servers)]
      BY <1>2, <2>2 DEF lvsBackends, Uses
    <3>2. DOMAIN sg = States
      BY <2>1, <3>1 DEF ServerGroups, States
    <3>3. b[g][s] = IF sg[s] = None THEN None ELSE Backend(sg[s].port, h.servers)
      BY <3>1, <3>2
    <3>4. b[g][s] # None
      BY <2>2 DEF Uses
    <3>5. b[g][s] = Backend(sg[s].port, h.servers) /\ sg[s] # None
      BY <3>3, <3>4
    <3> HIDE DEF sg, b
    <3>6. b[g][s].port = sg[s].port
      BY <3>5 DEF Backend
    <3> QED BY <3>1, <3>5, <3>6 DEF Uses, sg
  <2> HIDE DEF b, h
  <2>3. PortsApart(b)
    BY <2>1, <2>2 DEF PortsApart
  <2> QED BY <2>3 DEF b
<1> QED BY <1>1, <1>2

(* The record a refresh writes is sound.                                   *)
LEMMA RefreshedSound ==
  ASSUME GroupPart, RecordPart, GroupsApart, RecordsSound, NEW name \in {"haproxy", "lvs"}
  PROVE  Sound(name, Refreshed(name))
<1>1. CASE name = "haproxy"
  <2>1. Refreshed(name).backends = haproxyBackends
    BY <1>1 DEF Refreshed, Gslb
  <2> QED BY <2>1, haproxySound DEF Sound
<1>2. CASE name = "lvs"
  <2>1. Refreshed(name).backends = lvsBackends
    BY <1>2 DEF Refreshed, Gslb
  <2> QED BY <1>2, <2>1, lvsSound DEF Sound
<1> QED BY <1>1, <1>2

(* The invariant after a step, record by record.                           *)
LEMMA ApartNext ==
  ASSUME \A n \in Names : Sound(n, gslbs'[n]) /\ Sound(n, stored'[n])
  PROVE  RecordsSound'
  BY DEF RecordsSound, Sound, PortsApart, ServersApart, OneWriter, Uses

(* A step that leaves the records alone.                                   *)
LEMMA ApartStays ==
  ASSUME RecordsSound, UNCHANGED <<gslbs, stored>>
  PROVE  RecordsSound'
<1>1. \A n \in Names : Sound(n, gslbs'[n]) /\ Sound(n, stored'[n])
  BY DEF RecordsSound
<1> QED BY <1>1, ApartNext

(* A call of the mapper keeps the records sound when the record it is      *)
(* given and those that the caller changed in place are.                   *)
LEMMA UpdateSound ==
  ASSUME RecordPart, NEW cache \in [Names -> Records \cup {None}],
         NEW name \in Names, NEW rec, Update(cache, name, rec), Sound(name, rec),
         \A n \in Names : Sound(n, cache[n]) /\ Sound(n, stored[n])
  PROVE  RecordsSound'
<1>1. \A n \in Names : gslbs'[n] = cache[n] \/ (n = name /\ gslbs'[n] = rec)
  BY DEF Update
<1>2. \A n \in Names : stored'[n] = stored[n] \/ (n = name /\ stored'[n] = rec)
  BY DEF Update, RecordPart
<1>3. \A n \in Names : Sound(n, gslbs'[n]) /\ Sound(n, stored'[n])
  BY <1>1, <1>2
<1> QED BY <1>3, ApartNext

(* The same of a deletion.                                                 *)
LEMMA DeleteSound ==
  ASSUME RecordPart, NEW cache \in [Names -> Records \cup {None}],
         NEW name \in Names, NEW o \in Outcomes, Delete(cache, name, o),
         \A n \in Names : Sound(n, cache[n]) /\ Sound(n, stored[n])
  PROVE  RecordsSound'
<1>1. \A n \in Names : gslbs'[n] = cache[n] \/ gslbs'[n] = None
  BY DEF Delete
<1>2. \A n \in Names : stored'[n] = stored[n] \/ stored'[n] = None
  BY DEF Delete, RecordPart
<1>3. \A n \in Names : Sound(n, gslbs'[n]) /\ Sound(n, stored'[n])
  BY <1>1, <1>2 DEF Sound
<1> QED BY <1>3, ApartNext

(* What the requests change in place leaves the backends as they are.      *)
LEMMA InPlaceSound ==
  ASSUME RecordPart, RecordsSound, NEW name \in Names, NEW old \in Records,
         old = gslbs[name] \/ old.backends = NoBackends,
         NEW servers \in Seq(GslbAddrs),
         NEW rec, rec = [old EXCEPT !.servers = servers],
         NEW cache, cache = [gslbs EXCEPT ![name] = rec]
  PROVE  /\ Sound(name, rec)
         /\ \A n \in Names : Sound(n, cache[n]) /\ Sound(n, stored[n])
<1>1. rec.backends = old.backends
  BY DEF Records
<1>2. cache[name] = rec /\ \A n \in Names : n # name => cache[n] = gslbs[n]
  BY DEF RecordPart
<1>3. old # None
  BY NoneIsNoRecord
<1>4. Sound(name, old)
  <2>1. CASE old = gslbs[name]
    BY <2>1 DEF RecordsSound
  <2>2. CASE old.backends = NoBackends
    <3>1. \A g \in Groups : NoBackends[g] = None
      BY DEF NoBackends
    <3> QED BY <2>2, <3>1 DEF Sound, PortsApart, ServersApart, OneWriter, Uses
  <2> QED BY <2>1, <2>2
<1>5. Sound(name, rec)
  BY <1>1, <1>3, <1>4 DEF Sound
<1> QED BY <1>2, <1>5 DEF RecordsSound

(* The requests about balancers.                                           *)
LEMMA RecordsSoundStep ==
  ASSUME TypeOK, GroupsApart, RecordsSound, NEW name \in Names, NEW addr \in GslbAddrs,
         AddGSLB(name, addr) \/ DelGSLB(name, addr)
  PROVE  RecordsSound'
<1>1. RecordPart
  BY TypeParts
<1>2. CASE AddGSLB(name, addr)
  <2> DEFINE old == IF gslbs[name] = None THEN Gslb(<<>>, <<>>, NoBackends) ELSE gslbs[name]
             servers == Append(old.servers, addr)
             rec == [old EXCEPT !.servers = servers]
             cache == [gslbs EXCEPT ![name] = rec]
  <2>1. /\ old \in Records /\ old.servers \in Seq(GslbAddrs)
        /\ old = gslbs[name] \/ old.backends = NoBackends
    <3>1. <<>> \in Seq(GslbAddrs)
      OBVIOUS
    <3>2. /\ Gslb(<<>>, <<>>, NoBackends) \in Records
          /\ Gslb(<<>>, <<>>, NoBackends).backends = NoBackends
      BY <3>1, GslbIsRecord, NoBackendsType DEF Gslb
    <3>3. old \in Records
      BY <1>1, <3>2 DEF RecordPart
    <3>4. old.servers \in Seq(GslbAddrs)
      BY <3>3 DEF Records
    <3> QED BY <3>2, <3>3, <3>4
  <2>2. rec = [old EXCEPT !.servers = Append(@, addr)]
    BY <2>1 DEF Records
  <2>3. Update(cache, name, rec)
    BY <1>2, <2>2 DEF AddGSLB
  <2> HIDE DEF old
  <2>4. servers \in Seq(GslbAddrs)
    BY <2>1
  <2> HIDE DEF servers
  <2>5. cache \in [Names -> Records \cup {None}]
    BY <1>1, <2>1, <2>4, InPlace
  <2>6. Sound(name, rec) /\ \A n \in Names : Sound(n, cache[n]) /\ Sound(n, stored[n])
    BY <1>1, <2>1, <2>4, InPlaceSound
  <2> HIDE DEF rec, cache
  <2> QED BY <1>1, <2>3, <2>5, <2>6, UpdateSound
<1>3. CASE DelGSLB(name, addr)
  <2> DEFINE old == gslbs[name]
  <2>1. old \in Records /\ old.servers \in Seq(GslbAddrs)
    BY <1>1, <1>3 DEF DelGSLB, RecordPart, Records
  <2>2. PICK i \in DOMAIN old.servers :
          LET rec == [old EXCEPT !.servers = RemoveAt(@, i)]
              cache == [gslbs EXCEPT ![name] = rec]
          IN Update(cache, name, rec) \/ \E o \in Outcomes : Delete(cache, name, o)
    BY <1>3 DEF DelGSLB
  <2> DEFINE servers == RemoveAt(old.servers, i)
             rec == [old EXCEPT !.servers = servers]
             cache == [gslbs EXCEPT ![name] = rec]
  <2>3. rec = [old EXCEPT !.servers = RemoveAt(@, i)]
    BY <2>1 DEF Records
  <2>4. servers \in Seq(GslbAddrs)
    BY <2>1, RemoveAtType
  <2>5. Update(cache, name, rec) \/ \E o \in Outcomes : Delete(cache, name, o)
    BY <2>2, <2>3
  <2> HIDE DEF servers
  <2>6. cache \in [Names -> Records \cup {None}]
    BY <1>1, <2>1, <2>4, InPlace
  <2>7. Sound(name, rec) /\ \A n \in Names : Sound(n, cache[n]) /\ Sound(n, stored[n])
    BY <1>1, <2>1, <2>4, InPlaceSound
  <2> HIDE DEF rec, cache
  <2> QED BY <1>1, <2>5, <2>6, <2>7, UpdateSound, DeleteSound
<1> QED BY <1>2, <1>3

(* One turn of a refresh.                                                  *)
LEMMA RefreshSound ==
  ASSUME TypeOK, GroupsApart, RecordsSound, NEW name \in Names, Refresh(name)
  PROVE  RecordsSound'
<1>1. GroupPart /\ RecordPart
  BY TypeParts
<1>2. CASE UNCHANGED <<gslbs, stored>>
  BY <1>2, ApartStays
<1>3. CASE name \in {"haproxy", "lvs"} /\ Update(gslbs, name, Refreshed(name))
  <2>1. Sound(name, Refreshed(name))
    BY <1>1, <1>3, RefreshedSound
  <2>2. \A n \in Names : Sound(n, gslbs[n]) /\ Sound(n, stored[n])
    BY DEF RecordsSound
  <2>3. gslbs \in [Names -> Records \cup {None}]
    BY <1>1 DEF RecordPart
  <2> QED BY <1>1, <1>3, <2>1, <2>2, <2>3, UpdateSound
<1> QED BY <1>2, <1>3 DEF Refresh

(* A new process.                                                          *)
LEMMA RestartSound ==
  ASSUME TypeOK, RecordsSound, Restart
  PROVE  RecordsSound'
<1>1. \A n \in Names : gslbs'[n] = stored[n] \/ gslbs'[n] = None
  BY DEF Restart
<1>2. \A n \in Names : Sound(n, gslbs'[n]) /\ Sound(n, stored'[n])
  BY <1>1 DEF Restart, RecordsSound, Sound
<1> QED BY <1>2, ApartNext

(* The rules of the registry keep the groups apart.                        *)
LEMMA GroupsApartStep ==
  ASSUME GroupPart, GroupsApart, NEW g \in Groups, ChangeGroup(g)
  PROVE  GroupsApart'
<1>1. Registry!Exists(g) => groups[g] # None /\ groups[g].servers \in Seq(Addrs)
  BY DEF GroupPart, GroupRecords, Registry!Exists
<1>2. ASSUME NEW servers, Registry!Exists(g),
             groups' = [groups EXCEPT ![g].servers = servers],
             \A h \in Groups : groups[h] # None /\ g # h =>
               ToSet(servers) \cap ToSet(groups[h].servers) = {}
      PROVE  GroupsApart'
  <2>1. /\ groups'[g].servers = servers
        /\ groups'[g].rPort = groups[g].rPort /\ groups'[g].wPort = groups[g].wPort
        /\ \A h \in Groups : g # h => groups'[h] = groups[h]
    BY <1>2 DEF GroupPart, GroupRecords, Registry!Exists
  <2>2. groups[g] # None
    BY <1>2 DEF Registry!Exists
  <2>3. ASSUME NEW h \in Groups, groups'[h] # None
        PROVE  /\ groups'[h].rPort # groups'[h].wPort
               /\ \A k \in Groups : groups'[k] # None /\ h # k =>
                    {groups'[h].rPort, groups'[h].wPort}
                      \cap {groups'[k].rPort, groups'[k].wPort} = {}
    <3>1. \A k \in Groups : groups'[k] # None =>
            /\ groups[k] # None
            /\ groups'[k].rPort = groups[k].rPort /\ groups'[k].wPort = groups[k].wPort
      BY <2>1, <2>2
    <3> QED BY <2>3, <3>1 DEF GroupsApart
  <2>4. ASSUME NEW h \in Groups, NEW k \in Groups, groups'[h] # None, groups'[k] # None, h # k
        PROVE  ToSet(groups'[h].servers) \cap ToSet(groups'[k].servers) = {}
    <3>1. CASE h = g
      <4>1. groups[k] # None /\ groups'[k] = groups[k] /\ groups'[h].servers = servers
        BY <2>1, <2>4, <3>1
      <4> QED BY <1>2, <2>4, <3>1, <4>1
    <3>2. CASE k = g
      <4>1. groups[h] # None /\ groups'[h] = groups[h] /\ groups'[k].servers = servers
        BY <2>1, <2>4, <3>2
      <4>2. ToSet(servers) \cap ToSet(groups[h].servers) = {}
        BY <1>2, <2>4, <3>2, <4>1
      <4> QED BY <4>1, <4>2
    <3>3. CASE h # g /\ k # g
      <4>1. groups'[h] = groups[h] /\ groups'[k] = groups[k]
        BY <2>1, <3>3
      <4> QED BY <2>4, <4>1 DEF GroupsApart
    <3> QED BY <3>1, <3>2, <3>3
  <2> QED BY <2>3, <2>4 DEF GroupsApart, ToSet
<1>3. CASE \E ports \in PortPairs : Registry!Create(g, ports[1], ports[2])
  <2>1. PICK ports \in PortPairs : Registry!Create(g, ports[1], ports[2])
    BY <1>3
  <2> DEFINE v == [servers |-> <<>>, rPort |-> ports[1], wPort |-> ports[2]]
  <2>2. /\ groups' = [groups EXCEPT ![g] = v] /\ groups[g] = None
        /\ ports[1] # ports[2]
        /\ \A h \in Groups : groups[h] # None =>
             {ports[1], ports[2]} \cap {groups[h].rPort, groups[h].wPort} = {}
    BY <2>1 DEF Registry!Create, Registry!Exists, Registry!PortsOf
  <2>3. v.servers = <<>> /\ v.rPort = ports[1] /\ v.wPort = ports[2]
    OBVIOUS
  <2> HIDE DEF v
  <2>4. groups'[g] = v /\ \A h \in Groups : h # g => groups'[h] = groups[h]
    BY <2>2 DEF GroupPart
  <2>5. ToSet(<<>>) = {}
    BY DEF ToSet
  <2>6. ASSUME NEW h \in Groups, groups'[h] # None
        PROVE  /\ groups'[h].rPort # groups'[h].wPort
               /\ \A k \in Groups : groups'[k] # None /\ h # k =>
                    /\ {groups'[h].rPort, groups'[h].wPort}
                         \cap {groups'[k].rPort, groups'[k].wPort} = {}
                    /\ ToSet(groups'[h].servers) \cap ToSet(groups'[k].servers) = {}
    <3>1. CASE h = g
      BY <2>2, <2>3, <2>4, <2>5, <2>6, <3>1
    <3>2. CASE h # g
      <4>1. groups'[h] = groups[h] /\ groups[h] # None
        BY <2>4, <2>6, <3>2
      <4>2. ASSUME NEW k \in Groups, groups'[k] # None, h # k
            PROVE  /\ {groups'[h].rPort, groups'[h].wPort}
                        \cap {groups'[k].rPort, groups'[k].wPort} = {}
                   /\ ToSet(groups'[h].servers) \cap ToSet(groups'[k].servers) = {}
        <5>1. CASE k = g
          BY <2>2, <2>3, <2>4, <2>5, <4>1, <5>1
        <5>2. CASE k # g
          BY <2>4, <4>1, <4>2, <5>2 DEF GroupsApart
        <5> QED BY <5>1, <5>2
      <4> QED BY <4>1, <4>2 DEF GroupsApart
    <3> QED BY <3>1, <3>2
  <2> QED BY <2>6 DEF GroupsApart, ToSet
<1>4. CASE Registry!Discard(g)
  <2>1. \A h \in Groups : groups'[h] # None => groups'[h] = groups[h] /\ groups[h] # None
    BY <1>4 DEF Registry!Discard, GroupPart
  <2>2. ASSUME NEW h \in Groups, groups'[h] # None
        PROVE  /\ groups'[h].rPort # groups'[h].wPort
               /\ \A k \in Groups : groups'[k] # None /\ h # k =>
                    /\ {groups'[h].rPort, groups'[h].wPort}
                         \cap {groups'[k].rPort, groups'[k].wPort} = {}
                    /\ ToSet(groups'[h].servers) \cap ToSet(groups'[k].servers) = {}
    BY <2>1, <2>2 DEF GroupsApart
  <2> QED BY <2>2 DEF GroupsApart, ToSet
<1>5. CASE \E a \in Addrs : Registry!AddServer(g, a)
  <2>1. PICK a \in Addrs : Registry!AddServer(g, a)
    BY <1>5
  <2> DEFINE s == groups[g].servers
  <2>2. /\ Registry!Exists(g) /\ groups' = [groups EXCEPT ![g].servers = Append(s, a)]
        /\ \A h \in Groups : groups[h] # None => a \notin ToSet(groups[h].servers)
    BY <2>1
    DEF Registry!AddServer, Registry!Exists, Registry!ServersOf, ToSet, Registry!ToSet
  <2>3. s \in Seq(Addrs) /\ groups[g] # None
    BY <1>1, <2>2
  <2>4. ToSet(Append(s, a)) \subseteq ToSet(s) \cup {a}
    BY <2>3 DEF ToSet
  <2>5. ASSUME NEW h \in Groups, groups[h] # None, g # h
        PROVE  ToSet(Append(s, a)) \cap ToSet(groups[h].servers) = {}
    <3>1. ToSet(s) \cap ToSet(groups[h].servers) = {}
      BY <2>3, <2>5 DEF GroupsApart
    <3> QED BY <2>2, <2>4, <2>5, <3>1
  <2> QED BY <1>2, <2>2, <2>5
<1>6. ASSUME NEW i \in DOMAIN groups[g].servers,
             Registry!DelServer(g, i) \/ Registry!ChangeMaster(g, i)
      PROVE  GroupsApart'
  <2> DEFINE s == groups[g].servers
  <2>1. Registry!Exists(g)
    BY <1>6 DEF Registry!DelServer, Registry!ChangeMaster
  <2>2. s \in Seq(Addrs) /\ groups[g] # None
    BY <1>1, <2>1
  <2>3. PICK t : groups' = [groups EXCEPT ![g].servers = t] /\ ToSet(t) \subseteq ToSet(s)
    <3>1. CASE Registry!DelServer(g, i)
      <4>1. groups' = [groups EXCEPT ![g].servers = RemoveAt(s, i)]
        BY <3>1 DEF Registry!DelServer, GroupPart, RemoveAt, Registry!RemoveAt
      <4>2. s \in Seq(ToSet(s)) /\ i \in DOMAIN s
        BY <1>6, <2>2 DEF ToSet
      <4>3. ToSet(RemoveAt(s, i)) \subseteq ToSet(s)
        BY <4>2, RemoveAtType, ToSetType
      <4> QED BY <4>1, <4>3
    <3>2. CASE Registry!ChangeMaster(g, i)
      <4> DEFINE t == [s EXCEPT ![1] = s[i], ![i] = s[1]]
      <4>1. groups' = [groups EXCEPT ![g].servers = t]
        BY <3>2 DEF Registry!ChangeMaster
      <4>2. 1 \in DOMAIN s /\ DOMAIN t = DOMAIN s
        BY <1>6, <2>2
      <4>3. \A j \in DOMAIN s : t[j] = s[j] \/ t[j] = s[i] \/ t[j] = s[1]
        BY <4>2
      <4>4. ToSet(t) \subseteq ToSet(s)
        BY <1>6, <4>2, <4>3 DEF ToSet
      <4> QED BY <4>1, <4>4
    <3> QED BY <1>6, <3>1, <3>2
  <2>4. ASSUME NEW h \in Groups, groups[h] # None, g # h
        PROVE  ToSet(t) \cap ToSet(groups[h].servers) = {}
    <3>1. ToSet(s) \cap ToSet(groups[h].servers) = {}
      BY <2>2, <2>4 DEF GroupsApart
    <3> QED BY <2>3, <3>1
  <2> QED BY <1>2, <2>1, <2>3, <2>4
<1> QED BY <1>3, <1>4, <1>5, <1>6 DEF ChangeGroup

(* Holds at every moment, whichever refresh was cut short, whichever write *)
(* failed, and across restarts.                                            *)
LEMMA RecordsSoundAlways == Spec => []RecordsSound
<1> DEFINE Inv == GroupsApart /\ RecordsSound
<1>1. Init => Inv
  BY DEF Init, GroupsApart, RecordsSound, Sound
<1>2. ASSUME TypeOK, Inv, [Next]_vars
      PROVE  Inv'
  <2>1. GroupPart
    BY <1>2, TypeParts
  <2>2. GroupsApart'
    <3>1. CASE UNCHANGED groups
      BY <1>2, <3>1 DEF GroupsApart, ToSet
    <3>2. CASE \E g \in Groups : ChangeGroup(g)
      BY <1>2, <2>1, <3>2, GroupsApartStep
    <3> QED
      BY <1>2, <3>1, <3>2
      DEF Next, Request, Stats, Disturbance, AddGSLB, DelGSLB, Refresh, StartRound, Ask,
          EndRound, SetStats, RefreshRound, ChangeLink, Restart, vars
  <2>3. RecordsSound'
    <3>1. CASE UNCHANGED <<gslbs, stored>>
      BY <1>2, <3>1, ApartStays
    <3>2. CASE \E n \in Names, x \in GslbAddrs : AddGSLB(n, x) \/ DelGSLB(n, x)
      BY <1>2, <3>2, RecordsSoundStep
    <3>3. CASE \E n \in Names : Refresh(n)
      BY <1>2, <3>3, RefreshSound
    <3>4. CASE Restart
      BY <1>2, <3>4, RestartSound
    <3> QED
      BY <1>2, <3>1, <3>2, <3>3, <3>4
      DEF Next, Request, Stats, Disturbance, ChangeGroup, StartRound, Ask,
          EndRound, SetStats, RefreshRound, ChangeLink, vars
  <2> QED BY <2>2, <2>3
<1>3. Inv => RecordsSound
  OBVIOUS
<1> HIDE DEF Inv
<1> QED BY <1>1, <1>2, <1>3, GslbTypeCorrect, PTL DEF Spec

(* No two frontends of a record that confd reads share a port, and no      *)
(* server is in the backends of two groups: refreshGSLBBackendInfo builds  *)
(* the record anew from groups that are apart, and lvs copies its ports.   *)
THEOREM BackendsApartAlways == Spec => []BackendsApart
<1>1. RecordsSound => BackendsApart
  BY DEF RecordsSound, Sound, BackendsApart
<1> QED BY <1>1, RecordsSoundAlways, PTL

(* The haproxy record sends the writes of a group to one server only, the  *)
(* master, and never without its reads.                                    *)
THEOREM WritesToOneServerAlways == Spec => []WritesToOneServer
<1>1. RecordsSound => WritesToOneServer
  BY GslbAssumption DEF RecordsSound, Sound, OneWriter, WritesToOneServer
<1> QED BY <1>1, RecordsSoundAlways, PTL
=============================================================================
