-------------------------------- MODULE Gslb --------------------------------
(***************************************************************************)
(* The load balancers of a product (src/topom/gslb.go, stats.go,           *)
(* dao/mapper/gslb_mapper.go): one record for each kind of balancer in the *)
(* coordinator, from which confd writes the configuration of haproxy and   *)
(* of lvs.  It lists the balancer's own addresses (AddGSLB, DelGSLB) and   *)
(* what it serves, which refreshGSLBBackendInfo computes from the groups   *)
(* and from the latest statistics of their servers, after a change of a    *)
(* group and every second in doStats.                                      *)
(*                                                                         *)
(* The groups are those of a GroupRegistry, which Topom implements: here a *)
(* change of a group is one step and only the refresh that follows it in   *)
(* the handler, under the same mutex, takes several, one write each.       *)
(*                                                                         *)
(* Left out: the statistics of the balancers themselves (display only) and *)
(* the slice that the cached lvs record shares with the cached haproxy     *)
(* record as its Monitors, which are compared by value here.               *)
(***************************************************************************)
EXTENDS Integers, Sequences, FiniteSets, SequencesExt

CONSTANTS Groups, Addrs, Ports, None,
          Names,          \* kinds of balancer that requests name
          GslbAddrs,      \* addresses of balancers
          WithSentinels,  \* the statistics also ask sentinels
          Links,          \* bound: the answers to INFO that servers give
          PortPairs,      \* bound: the ports that requests give a group
          WriteFaults,    \* how a coordinator write may fail
          MaxWriters      \* bound: finished rounds not yet in stats.servers

ASSUME GslbAssumption ==
  /\ WithSentinels \in BOOLEAN
  /\ WriteFaults \subseteq {"refused", "applied"}
  /\ MaxWriters \in Nat \ {0}
  /\ PortPairs \subseteq Ports \X Ports
  /\ "haproxy" \in Names

VARIABLES
  groups,   \* groupMapper.groups and its copy in the coordinator
  links,    \* servers: what each would answer to INFO
  stats,    \* service.stats.servers, None when empty
  round,    \* the current round of doStats
  writers,  \* results of refreshRedisStats not yet assigned to stats
  gslbs,    \* gslbMapper.gslbs
  stored,   \* coordinator: the records of the balancers
  left      \* records the running refreshGSLBBackendInfo still has to do

statistics == <<stats, round, writers>>
vars == <<groups, links, stats, round, writers, gslbs, stored, left>>

Registry == INSTANCE GroupRegistry

-----------------------------------------------------------------------------
(* An answer to INFO: master_addr and master_link_status = "up"; ok is     *)
(* FALSE for an error or a timeout.                                        *)
Link(ok, master, up) == [ok |-> ok, master |-> master, up |-> up]
Down == Link(FALSE, None, FALSE)
LinkStates == {Down, Link(TRUE, None, FALSE)}
                \cup {Link(TRUE, m, up) : m \in Addrs, up \in BOOLEAN}

ASSUME LinksAssumption == Links \subseteq LinkStates

NoStats == [a \in Addrs |-> None]
Round(pc, ask, got) == [pc |-> pc, ask |-> ask, got |-> got]
NoRound == Round("wait", {}, NoStats)

(* type GSLB; "backends" has None for a group that is not listed.          *)
NoBackends == [g \in Groups |-> None]
Gslb(servers, monitors, backends) ==
  [servers |-> servers, monitors |-> monitors, backends |-> backends]

Cached == {n \in Names : gslbs[n] # None}

-----------------------------------------------------------------------------
(* What a balancer serves.                                                 *)

(* A group of haproxyBackends is dropped when a replica that answers has   *)
(* another master.  A server that does not answer, or a replica whose link *)
(* is not up, is passed over; the rest serve reads, the master writes.     *)
Answers(a) == stats[a] # None /\ stats[a].ok

ValidGroup(servers) ==
  \A i \in 2..Len(servers) :
    Answers(servers[i]) => stats[servers[i]].master = servers[1]

Serves(servers, i) == Answers(servers[i]) /\ (i = 1 \/ stats[servers[i]].up)

Backend(port, servers) == [port |-> port, servers |-> servers]

(* The loop over the servers of a group: what it has listed after each.    *)
ReadServers(servers) ==
  LET read[i \in 0..Len(servers)] ==
        IF i = 0 THEN <<>>
        ELSE IF Serves(servers, i) THEN Append(read[i - 1], servers[i])
        ELSE read[i - 1]
  IN read[Len(servers)]

(* Mutant of ServerGroup: every server that serves reads gets writes too.  *)
ServerGroupWritesToAll(g) ==
  LET read == ReadServers(g.servers)
  IN [Read  |-> IF read = <<>> THEN None ELSE Backend(g.rPort, read),
      Write |-> IF read = <<>> THEN None ELSE Backend(g.wPort, read)]

ServerGroup(g) ==
  LET read == ReadServers(g.servers)
  IN [Read  |-> IF read = <<>> THEN None ELSE Backend(g.rPort, read),
      Write |-> IF Answers(g.servers[1]) THEN Backend(g.wPort, <<g.servers[1]>>)
                                         ELSE None]

(* Mutant of haproxyBackends: the entry of a group without servers is kept. *)
haproxyBackendsKept ==
  [g \in Groups |->
     IF groups[g] = None \/ groups[g].servers = <<>> THEN gslbs["haproxy"].backends[g]
     ELSE IF ValidGroup(groups[g].servers) THEN ServerGroup(groups[g])
     ELSE None]

haproxyBackends ==
  [g \in Groups |->
     IF groups[g] # None /\ groups[g].servers # <<>> /\ ValidGroup(groups[g].servers)
     THEN ServerGroup(groups[g])
     ELSE None]

(* lvsBackends: the haproxy record as it is in the cache, each backend     *)
(* served by the haproxy hosts on the backend's port.                      *)
lvsBackends ==
  IF gslbs["haproxy"] = None THEN NoBackends
  ELSE [g \in Groups |->
          LET sg == gslbs["haproxy"].backends[g]
          IN IF sg = None THEN None
             ELSE [state \in DOMAIN sg |->
                     IF sg[state] = None THEN None
                     ELSE Backend(sg[state].port, gslbs["haproxy"].servers)]]

(* Mutant of Refreshed: the monitors of haproxy are left null.             *)
RefreshedNullMonitors(name) ==
  Gslb(gslbs[name].servers, None,
       IF name = "haproxy" THEN haproxyBackends ELSE lvsBackends)

(* getGSLBBackends and the record refreshGSLBBackendInfo builds.           *)
Refreshed(name) ==
  IF name = "haproxy" THEN Gslb(gslbs[name].servers, <<>>, haproxyBackends)
  ELSE Gslb(gslbs[name].servers,
            IF gslbs["haproxy"] = None THEN <<>> ELSE gslbs["haproxy"].servers,
            lvsBackends)

-----------------------------------------------------------------------------
(* gslbMapper.                                                             *)

Outcomes == {"ok"} \cup WriteFaults

(* Mutant of Update: the cache takes the record even if the write failed.  *)
UpdateCacheFirst(cache, name, rec) ==
  /\ gslbs' = [cache EXCEPT ![name] = rec]
  /\ \/ cache[name] = rec /\ UNCHANGED stored
     \/ cache[name] # rec /\ \E o \in Outcomes :
          stored' = IF o = "refused" THEN stored
                                     ELSE [stored EXCEPT ![name] = rec]

(* Mutant of Update: only the servers are compared.                        *)
UpdateServersCompared(cache, name, rec) ==
  /\ gslbs' = IF cache[name].backends # NoBackends /\ cache[name].servers = rec.servers
              THEN cache ELSE [cache EXCEPT ![name] = rec]
  /\ stored' = IF gslbs' = cache THEN stored ELSE [stored EXCEPT ![name] = rec]

(* Update, with the cached records as cache when it is called: a record    *)
(* equal to the cached one is not written.                                 *)
Update(cache, name, rec) ==
  \/ /\ cache[name] = rec
     /\ gslbs' = cache
     /\ UNCHANGED stored
  \/ /\ cache[name] # rec
     /\ \E o \in Outcomes :
          /\ stored' = IF o = "refused" THEN stored
                                        ELSE [stored EXCEPT ![name] = rec]
          /\ gslbs' = IF o = "ok" THEN [cache EXCEPT ![name] = rec] ELSE cache

Delete(cache, name, o) ==
  /\ stored' = IF o = "refused" THEN stored ELSE [stored EXCEPT ![name] = None]
  /\ gslbs' = IF o = "ok" THEN [cache EXCEPT ![name] = None] ELSE cache

-----------------------------------------------------------------------------
(* Requests; the mutex is free when no refresh is running.                 *)

(* The record is changed in place (a new one is first put into the map the *)
(* mapper handed out), so Update compares it with itself.                  *)
AddGSLB(name, addr) ==
  LET old == IF gslbs[name] = None THEN Gslb(<<>>, <<>>, NoBackends)
                                   ELSE gslbs[name]
      rec == [old EXCEPT !.servers = Append(@, addr)]
  IN /\ left = {}
     /\ addr \notin ToSet(old.servers)
     /\ Update([gslbs EXCEPT ![name] = rec], name, rec)
     /\ left' = Cached \cup {name}
     /\ UNCHANGED <<groups, links, statistics>>

(* Changed in place too; a record without servers is also deleted, and an  *)
(* error of that ends the request before its refresh.                      *)
DelGSLB(name, addr) ==
  /\ left = {}
  /\ gslbs[name] # None
  /\ \E i \in DOMAIN gslbs[name].servers :
       LET rec == [gslbs[name] EXCEPT !.servers = RemoveAt(@, i)]
           cache == [gslbs EXCEPT ![name] = rec]
       IN /\ gslbs[name].servers[i] = addr
          /\ \/ /\ rec.servers # <<>>
                /\ Update(cache, name, rec)
                /\ left' = Cached
             \/ /\ rec.servers = <<>>
                /\ \E o \in Outcomes :
                     /\ Delete(cache, name, o)
                     /\ left' = IF o = "ok" THEN Cached \ {name} ELSE {}
  /\ UNCHANGED <<groups, links, statistics>>

(* The requests about groups, and trySwitchGroupMaster (switch = TRUE).    *)
(* CreateGroup, RemoveGroup and a promotion do not refresh the balancers.  *)
ChangeGroup(g) ==
  /\ left = {}
  /\ \/ /\ \E ports \in PortPairs : Registry!Create(g, ports[1], ports[2])
        /\ UNCHANGED left
     \/ /\ Registry!Discard(g)
        /\ UNCHANGED left
     \/ /\ \E a \in Addrs : Registry!AddServer(g, a)
        /\ left' = Cached
     \/ /\ Registry!Exists(g)
        /\ \E i \in DOMAIN groups[g].servers : Registry!DelServer(g, i)
        /\ left' = Cached
     \/ /\ Registry!Exists(g)
        /\ \E i \in DOMAIN groups[g].servers, switch \in BOOLEAN :
             /\ i # 1
             /\ Registry!ChangeMaster(g, i)
             /\ left' = IF switch THEN Cached ELSE left
  /\ UNCHANGED <<links, statistics, gslbs, stored>>

(* One turn of the loop of refreshGSLBBackendInfo, in the order of a Go    *)
(* map.  A kind it does not know, and haproxy without statistics, end it   *)
(* with an error; a failed write is only logged.                           *)
Refresh(name) ==
  /\ name \in left
  /\ \/ /\ name \notin {"haproxy", "lvs"} \/ (name = "haproxy" /\ stats = None)
        /\ left' = {}
        /\ UNCHANGED <<gslbs, stored>>
     \/ /\ name = "lvs" \/ (name = "haproxy" /\ stats # None)
        /\ Update(gslbs, name, Refreshed(name))
        /\ left' = left \ {name}
  /\ UNCHANGED <<groups, links, statistics>>

-----------------------------------------------------------------------------
(* doStats.                                                                *)

(* refreshRedisStats: the servers to ask, read under the mutex.            *)
StartRound ==
  /\ left = {}
  /\ round.pc = "wait"
  /\ Cardinality(writers) < MaxWriters
  /\ round' = Round("ask",
                    UNION {IF groups[g] = None THEN {} ELSE ToSet(groups[g].servers)
                             : g \in Groups},
                    NoStats)
  /\ UNCHANGED <<groups, links, stats, writers, gslbs, stored, left>>

(* One goroutine per server.                                               *)
Ask(a) ==
  /\ round.pc = "ask"
  /\ a \in round.ask
  /\ round' = [round EXCEPT !.ask = @ \ {a}, !.got[a] = links[a]]
  /\ UNCHANGED <<groups, links, stats, writers, gslbs, stored, left>>

(* All have answered: w.Wait() returns in doStats, fut.Wait() in the       *)
(* goroutine that will assign the result.                                  *)
EndRound ==
  /\ round.pc = "ask"
  /\ round.ask = {}
  /\ round' = [round EXCEPT !.pc = "refresh", !.got = NoStats]
  /\ writers' = writers \cup
       {IF round.got = NoStats /\ ~WithSentinels THEN None ELSE round.got}
  /\ UNCHANGED <<groups, links, stats, gslbs, stored, left>>

(* That goroutine: doStats does not wait for it.                           *)
SetStats ==
  /\ left = {}
  /\ \E s \in writers :
       /\ stats' = s
       /\ writers' = writers \ {s}
  /\ UNCHANGED <<groups, links, round, gslbs, stored, left>>

RefreshRound ==
  /\ left = {}
  /\ round.pc = "refresh"
  /\ round' = NoRound
  /\ left' = Cached
  /\ UNCHANGED <<groups, links, stats, writers, gslbs, stored>>

-----------------------------------------------------------------------------
(* Outside the service.                                                    *)

ChangeLink(a, state) ==
  /\ links' = [links EXCEPT ![a] = state]
  /\ UNCHANGED <<groups, statistics, gslbs, stored, left>>

(* A new process: gslbMapper.init skips a record without servers.          *)
Restart ==
  /\ gslbs' = [n \in Names |->
       IF stored[n] # None /\ stored[n].servers # <<>> THEN stored[n] ELSE None]
  /\ stats' = None
  /\ round' = NoRound
  /\ writers' = {}
  /\ left' = {}
  /\ UNCHANGED <<groups, links, stored>>

-----------------------------------------------------------------------------
Init ==
  /\ groups = [g \in Groups |-> None]
  /\ links = [a \in Addrs |-> Link(TRUE, None, FALSE)]
  /\ stats = None
  /\ round = NoRound
  /\ writers = {}
  /\ gslbs = [n \in Names |-> None]
  /\ stored = gslbs
  /\ left = {}

Request ==
  \/ \E n \in Names, x \in GslbAddrs : AddGSLB(n, x) \/ DelGSLB(n, x)
  \/ \E g \in Groups : ChangeGroup(g)

Stats ==
  \/ StartRound
  \/ \E a \in Addrs : Ask(a)
  \/ EndRound
  \/ SetStats
  \/ RefreshRound

Disturbance ==
  \/ \E a \in Addrs : \E state \in Links : state.master # a /\ ChangeLink(a, state)
  \/ Restart

Next == Request \/ Stats \/ (\E n \in Names : Refresh(n)) \/ Disturbance

Spec == Init /\ [][Next]_vars

(* doStats runs for ever, its calls have timeouts, and a goroutine that    *)
(* waits for the mutex gets it in the end (Go's mutexes do not starve).    *)
FairSpec ==
  /\ Spec
  /\ WF_vars(StartRound)
  /\ \A a \in Addrs : WF_vars(Ask(a))
  /\ WF_vars(EndRound)
  /\ SF_vars(SetStats)
  /\ SF_vars(RefreshRound)
  /\ \A n \in Names : WF_vars(Refresh(n))

-----------------------------------------------------------------------------
(* Properties.                                                             *)

Backends == [port : Ports, servers : Seq(Addrs \cup GslbAddrs)]

ServerGroups == [{"Read", "Write"} -> Backends \cup {None}]

Records == [servers : Seq(GslbAddrs), monitors : Seq(GslbAddrs),
            backends : [Groups -> ServerGroups \cup {None}]]

ASSUME NoneIsNoRecord == None \notin Records /\ None \notin Backends

StatsMaps == [Addrs -> LinkStates \cup {None}]

GroupRecords == [servers : Seq(Addrs), rPort : Ports, wPort : Ports]

TypeOK ==
  /\ groups \in [Groups -> GroupRecords \cup {None}]
  /\ links \in [Addrs -> LinkStates]
  /\ stats \in StatsMaps \cup {None}
  /\ round \in [pc : {"wait", "ask", "refresh"}, ask : SUBSET Addrs, got : StatsMaps]
  /\ writers \subseteq StatsMaps \cup {None}
  /\ gslbs \in [Names -> Records \cup {None}]
  /\ stored \in [Names -> Records \cup {None}]
  /\ left \subseteq Cached

(* The cache never runs ahead of the coordinator in what a balancer        *)
(* serves, so that a refresh which finds nothing to change leaves nothing  *)
(* behind either: refreshGSLBBackendInfo builds its record anew and Update *)
(* caches it only once it is written.  Holds while a failed write is a     *)
(* refused one.                                                            *)
BackendsMirrored ==
  \A n \in Names :
    gslbs[n] # None /\ gslbs[n].backends # NoBackends =>
      stored[n] # None /\ stored[n].backends = gslbs[n].backends

States == {"Read", "Write"}

Uses(b, g, state) == b[g] # None /\ b[g][state] # None

PortsApart(b) ==
  \A g, h \in Groups, s, t \in States :
    Uses(b, g, s) /\ Uses(b, h, t) /\ (g # h \/ s # t) => b[g][s].port # b[h][t].port

ServersApart(b) ==
  \A g, h \in Groups, s, t \in States :
    Uses(b, g, s) /\ Uses(b, h, t) /\ g # h =>
      ToSet(b[g][s].servers) \cap ToSet(b[h][t].servers) = {}

(* What the balancers are told to serve, in the cache and in the           *)
(* coordinator, whichever refresh was cut short and whichever write        *)
(* failed: no two frontends of a record share a port, and no server is in  *)
(* the backends of two groups, also when ports and servers pass from one   *)
(* group to another between two refreshes.                                 *)
BackendsApart ==
  \A n \in Names : \A r \in {gslbs[n], stored[n]} :
    r # None =>
      /\ PortsApart(r.backends)
      /\ n = "haproxy" => ServersApart(r.backends)

(* The writes of a group go to one server, which also serves its reads,    *)
(* whatever the statistics of the latest round say of its replicas.        *)
WritesToOneServer ==
  \A r \in {gslbs["haproxy"], stored["haproxy"]} :
    r # None =>
      \A g \in Groups : Uses(r.backends, g, "Write") =>
        /\ Uses(r.backends, g, "Read")
        /\ \E a \in ToSet(r.backends[g]["Read"].servers) :
             r.backends[g]["Write"].servers = <<a>>

(* Once requests, failures and restarts stop, the balancers' records come  *)
(* to say what the groups and their servers are, whichever refresh was cut *)
(* short, found no statistics, or worked from those of an earlier round.   *)
CurrentHaproxy ==
  \A g \in Groups :
    LET servers == groups[g].servers
        told == {a \in ToSet(servers) : links[a].ok /\ (a = servers[1] \/ links[a].up)}
        broken == \E a \in ToSet(Tail(servers)) :
                    links[a].ok /\ links[a].master # servers[1]
        entry == stored["haproxy"].backends[g]
    IN IF groups[g] = None \/ servers = <<>> \/ broken THEN entry = None
       ELSE /\ entry # None
            /\ told = IF entry.Read = None THEN {} ELSE ToSet(entry.Read.servers)
            /\ servers[1] \in told <=> entry.Write # None
            /\ entry.Write # None => entry.Write = Backend(groups[g].wPort, <<servers[1]>>)

CurrentLvs ==
  \A g \in Groups :
    LET entry == stored["lvs"].backends[g]
        behind == IF gslbs["haproxy"] = None THEN None
                  ELSE gslbs["haproxy"].backends[g]
    IN IF behind = None THEN entry = None
       ELSE entry # None /\ \A state \in {"Read", "Write"} :
              IF behind[state] = None THEN entry[state] = None
              ELSE entry[state] = Backend(behind[state].port, gslbs["haproxy"].servers)

RecordsSettle ==
  <>[][Stats \/ \E n \in Names : Refresh(n)]_vars =>
    <>[](/\ "haproxy" \in Cached /\ stored["haproxy"] # None => CurrentHaproxy
         /\ "lvs" \in Cached /\ stored["lvs"] # None => CurrentLvs)

(* "old and new is equal": when Update finds nothing to write the          *)
(* coordinator has the record already, so once a refresh has run to its    *)
(* end the addresses that AddGSLB accepted are those a new process reads.  *)
AcceptedMeansStored ==
  [][left # {} /\ left' = {} /\ stats # None =>
       \A n \in Cached : stored'[n] # None /\ stored'[n].servers = gslbs'[n].servers]_vars
=============================================================================
