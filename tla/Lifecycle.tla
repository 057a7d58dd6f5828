----------------------------- MODULE Lifecycle -----------------------------
(***************************************************************************)
(* Start and stop of the dashboards of one product: main() of              *)
(* src/cmd/dashboard, Start and Close of src/topom/service.go, and the     *)
(* node of src/topom/dao/mapper/topom_mapper.go that at most one dashboard *)
(* should hold.                                                            *)
(*                                                                         *)
(* A dashboard has three goroutines here: main(), which calls Start, waits *)
(* for an error or a signal and then until the service is offline; the one *)
(* that got the signal (or the error of the HTTP server) and calls Close;  *)
(* and doStats, which refreshes the balancers every second.  The last two  *)
(* need service.mutex, which a ResyncGroupAll that waits for ever (Topom)  *)
(* never gives back.  The node is                                          *)
(* persistent, so that a dashboard that dies leaves it behind for an       *)
(* operator to remove.                                                     *)
(***************************************************************************)
EXTENDS Integers, FiniteSets

CONSTANTS Dashboards,  \* the processes that are run for the product
          None,        \* no node
          CallFaults   \* how a call of the coordinator may fail: a subset of
                       \* {"refused", "applied"}

ASSUME LifecycleAssumption ==
  /\ None \notin Dashboards
  /\ CallFaults \subseteq {"refused", "applied"}

VARIABLES
  node,     \* coordinator: the dashboard whose record is at TopomPath
  main,     \* main(): the step it is at
  told,     \* a signal, or the server's error, came: before Start had
            \* returned ("early") or after ("running")
  closer,   \* Close(): the step it is at; service.closed unless "none"
  online,   \* service.online
  wg,       \* service.wg
  stats,    \* doStats: the step it is at
  mutex,    \* service.mutex: what holds it
  early     \* history: some dashboard was told to stop early

vars == <<node, main, told, closer, online, wg, stats, mutex, early>>

MainSteps ==
  {"down", "init", "start", "create", "created", "online", "run", "exit"}

CloseSteps == {"none", "wait", "lock", "delete", "deleted", "failed", "done"}

StatsSteps == {"off", "pause", "turn"}

(* "hung": by a ResyncGroupAll whose Wait does not return.                 *)
Holders == {"free", "close", "hung"}

Outcomes == {"ok"} \cup CallFaults

closed(d) == closer[d] # "none"

-----------------------------------------------------------------------------
(* main() and Start.                                                       *)

Boot(d) ==
  /\ main[d] = "down"
  /\ main' = [main EXCEPT ![d] = "init"]
  /\ UNCHANGED <<node, told, closer, online, wg, stats, mutex, early>>

(* Start refuses a closed service: main() then does not wait for errChan.  *)
Start(d) ==
  /\ main[d] = "init"
  /\ main' = [main EXCEPT ![d] = IF closed(d) THEN "exit" ELSE "start"]
  /\ UNCHANGED <<node, told, closer, online, wg, stats, mutex, early>>

(* The service is not closed when the loop looks.                          *)
StartTry(d) ==
  /\ main[d] = "start"
  /\ ~closed(d)
  /\ main' = [main EXCEPT ![d] = "create"]
  /\ UNCHANGED <<node, told, closer, online, wg, stats, mutex, early>>

(* The node is created if there is none; Start tries again after an error, *)
(* also when the node was created and only the answer was lost.            *)
Create(d) ==
  /\ main[d] = "create"
  /\ \E o \in Outcomes :
       /\ node' = IF node = None /\ o # "refused" THEN d ELSE node
       /\ main' = [main EXCEPT ![d] =
                     IF node = None /\ o = "ok" THEN "created" ELSE "start"]
  /\ UNCHANGED <<told, closer, online, wg, stats, mutex, early>>

(* <-s.done: Start returns nil.                                            *)
StartDone(d) ==
  /\ main[d] = "start"
  /\ closed(d)
  /\ main' = [main EXCEPT ![d] = "run"]
  /\ UNCHANGED <<node, told, closer, online, wg, stats, mutex, early>>

StartOnline(d) ==
  /\ main[d] = "created"
  /\ main' = [main EXCEPT ![d] = "online"]
  /\ online' = [online EXCEPT ![d] = TRUE]
  /\ UNCHANGED <<node, told, closer, wg, stats, mutex, early>>

(* Mutant of StartStats: doStats is not announced to the wait group.       *)
StartStatsUncounted(d) ==
  /\ main[d] = "online"
  /\ main' = [main EXCEPT ![d] = "run"]
  /\ stats' = [stats EXCEPT ![d] = "pause"]
  /\ UNCHANGED <<node, told, closer, online, wg, mutex, early>>

StartStats(d) ==
  /\ main[d] = "online"
  /\ main' = [main EXCEPT ![d] = "run"]
  /\ wg' = [wg EXCEPT ![d] = @ + 1]
  /\ stats' = [stats EXCEPT ![d] = "pause"]
  /\ UNCHANGED <<node, told, closer, online, mutex, early>>

(* <-errChan, then server.Shutdown, which takes at most three seconds.     *)
Shutdown(d) ==
  /\ main[d] = "run"
  /\ told[d] # "no"
  /\ main' = [main EXCEPT ![d] = "exit"]
  /\ UNCHANGED <<node, told, closer, online, wg, stats, mutex, early>>

(* The state of a process that is not there.                               *)
Gone(d) ==
  /\ main' = [main EXCEPT ![d] = "down"]
  /\ told' = [told EXCEPT ![d] = "no"]
  /\ closer' = [closer EXCEPT ![d] = "none"]
  /\ online' = [online EXCEPT ![d] = FALSE]
  /\ wg' = [wg EXCEPT ![d] = 0]
  /\ stats' = [stats EXCEPT ![d] = "off"]
  /\ mutex' = [mutex EXCEPT ![d] = "free"]

(* main() returns once the service is offline; its deferred Close finds    *)
(* the service closed.                                                     *)
Exit(d) ==
  /\ main[d] = "exit"
  /\ ~online[d]
  /\ Gone(d)
  /\ UNCHANGED <<node, early>>

-----------------------------------------------------------------------------
(* The mutex.                                                              *)

(* A request for which fut.Wait() does not return, since the resync of     *)
(* some group succeeded.  It shows when doStats or Close waits for the     *)
(* mutex.  A request that gives it back only delays them and is left out.  *)
ResyncGroupAll(d) ==
  /\ stats[d] = "turn" \/ closer[d] = "lock"
  /\ mutex[d] = "free"
  /\ mutex' = [mutex EXCEPT ![d] = "hung"]
  /\ UNCHANGED <<node, main, told, closer, online, wg, stats, early>>

-----------------------------------------------------------------------------
(* doStats.                                                                *)

doStatsTurn(d) ==
  /\ stats[d] = "pause"
  /\ ~closed(d)
  /\ stats' = [stats EXCEPT ![d] = "turn"]
  /\ UNCHANGED <<node, main, told, closer, online, wg, mutex, early>>

(* The mutex is taken and given back by refreshRedisStats and by           *)
(* refreshGSLBStats, whose calls have timeouts, and then for               *)
(* refreshGSLBBackendInfo: one step for the three.                         *)
doStatsRefresh(d) ==
  /\ stats[d] = "turn"
  /\ mutex[d] = "free"
  /\ stats' = [stats EXCEPT ![d] = "pause"]
  /\ UNCHANGED <<node, main, told, closer, online, wg, mutex, early>>

doStatsReturn(d) ==
  /\ stats[d] = "pause"
  /\ closed(d)
  /\ stats' = [stats EXCEPT ![d] = "off"]
  /\ wg' = [wg EXCEPT ![d] = @ - 1]
  /\ UNCHANGED <<node, main, told, closer, online, mutex, early>>

-----------------------------------------------------------------------------
(* Close, called after the signal was put in errChan.                      *)

Close(d) ==
  /\ told[d] # "no"
  /\ closer[d] = "none"
  /\ closer' = [closer EXCEPT ![d] = "wait"]
  /\ UNCHANGED <<node, main, told, online, wg, stats, mutex, early>>

(* Mutant of CloseWait: wg.Wait() is left out.                             *)
CloseNoWait(d) ==
  /\ closer[d] = "wait"
  /\ closer' = [closer EXCEPT ![d] = "lock"]
  /\ UNCHANGED <<node, main, told, online, wg, stats, mutex, early>>

CloseWait(d) ==
  /\ closer[d] = "wait"
  /\ wg[d] = 0
  /\ closer' = [closer EXCEPT ![d] = "lock"]
  /\ UNCHANGED <<node, main, told, online, wg, stats, mutex, early>>

(* The mutex is kept until Close returns; the pools are closed.            *)
CloseLock(d) ==
  /\ closer[d] = "lock"
  /\ mutex[d] = "free"
  /\ closer' = [closer EXCEPT ![d] = "delete"]
  /\ mutex' = [mutex EXCEPT ![d] = "close"]
  /\ UNCHANGED <<node, main, told, online, wg, stats, early>>

(* Whosever node it is.                                                    *)
Delete(d) ==
  /\ closer[d] = "delete"
  /\ \E o \in Outcomes :
       /\ node' = IF o = "refused" THEN node ELSE None
       /\ closer' = [closer EXCEPT ![d] =
                       IF o = "ok" THEN "deleted" ELSE "failed"]
       /\ mutex' = IF o = "ok" THEN mutex ELSE [mutex EXCEPT ![d] = "free"]
  /\ UNCHANGED <<main, told, online, wg, stats, early>>

(* Mutant of CloseOffline: the service stays online.                       *)
CloseStillOnline(d) ==
  /\ closer[d] = "deleted"
  /\ closer' = [closer EXCEPT ![d] = "done"]
  /\ mutex' = [mutex EXCEPT ![d] = "free"]
  /\ UNCHANGED <<node, main, told, online, wg, stats, early>>

CloseOffline(d) ==
  /\ closer[d] = "deleted"
  /\ closer' = [closer EXCEPT ![d] = "done"]
  /\ online' = [online EXCEPT ![d] = FALSE]
  /\ mutex' = [mutex EXCEPT ![d] = "free"]
  /\ UNCHANGED <<node, main, told, wg, stats, early>>

-----------------------------------------------------------------------------
(* Outside the dashboards.                                                 *)

(* A signal, or the HTTP server cannot listen.                             *)
Stop(d) ==
  /\ main[d] # "down"
  /\ told[d] = "no"
  /\ told' = [told EXCEPT ![d] =
                IF main[d] = "run" THEN "running" ELSE "early"]
  /\ early' = (early \/ main[d] # "run")
  /\ UNCHANGED <<node, main, closer, online, wg, stats, mutex>>

Kill(d) ==
  /\ main[d] # "down"
  /\ Gone(d)
  /\ UNCHANGED <<node, early>>

(* An operator removes a node that no running dashboard stands for.        *)
RemoveNode ==
  /\ node # None
  /\ main[node] \in {"down", "init", "start", "create"}
  /\ node' = None
  /\ UNCHANGED <<main, told, closer, online, wg, stats, mutex, early>>

-----------------------------------------------------------------------------
Init ==
  /\ node = None
  /\ main = [d \in Dashboards |-> "down"]
  /\ told = [d \in Dashboards |-> "no"]
  /\ closer = [d \in Dashboards |-> "none"]
  /\ online = [d \in Dashboards |-> FALSE]
  /\ wg = [d \in Dashboards |-> 0]
  /\ stats = [d \in Dashboards |-> "off"]
  /\ mutex = [d \in Dashboards |-> "free"]
  /\ early = FALSE

Main(d) ==
  \/ Start(d) \/ Create(d) \/ StartDone(d) \/ StartOnline(d) \/ StartStats(d)
  \/ Shutdown(d) \/ Exit(d)

doStats(d) == doStatsTurn(d) \/ doStatsRefresh(d) \/ doStatsReturn(d)

Closing(d) ==
  Close(d) \/ CloseWait(d) \/ CloseLock(d) \/ Delete(d) \/ CloseOffline(d)

Next ==
  \/ \E d \in Dashboards :
       \/ Boot(d) \/ StartTry(d) \/ Main(d)
       \/ ResyncGroupAll(d) \/ doStats(d) \/ Closing(d)
       \/ Stop(d) \/ Kill(d)
  \/ RemoveNode

Spec == Init /\ [][Next]_vars

(* Go's scheduler runs every goroutine that can go on, its mutexes do not  *)
(* starve one that waits, and every request other than ResyncGroupAll      *)
(* gives the mutex back (RequestsReturn of Topom).                         *)
Fairness ==
  \A d \in Dashboards :
    /\ WF_vars(Main(d))
    /\ WF_vars(doStatsRefresh(d) \/ doStatsReturn(d))
    /\ WF_vars(Closing(d))

FairSpec == Spec /\ Fairness

-----------------------------------------------------------------------------
(* Properties.                                                             *)

(* In particular the wait group never goes below zero, at which Go panics. *)
TypeOK ==
  /\ node \in Dashboards \cup {None}
  /\ main \in [Dashboards -> MainSteps]
  /\ told \in [Dashboards -> {"no", "early", "running"}]
  /\ closer \in [Dashboards -> CloseSteps]
  /\ online \in [Dashboards -> BOOLEAN]
  /\ wg \in [Dashboards -> Nat]
  /\ stats \in [Dashboards -> StatsSteps]
  /\ mutex \in [Dashboards -> Holders]
  /\ early \in BOOLEAN

(* Two dashboards never refresh the balancers' records at the same time:   *)
(* doStats starts after the node is created and Close deletes the node     *)
(* only when it has ended, whatever the coordinator answers and wherever a *)
(* process dies.  (Until one is told to stop while it still waits for the  *)
(* node: its Close deletes the node of the one that runs.)                 *)
OneRefresher ==
  ~early => \A d, e \in Dashboards : stats[d] # "off" /\ stats[e] # "off" => d = e

(* A running dashboard that is told to stop exits: it does not stay told   *)
(* for ever, unless the deletion of its node failed, since main() waits    *)
(* for Close to take the service offline, or a ResyncGroupAll keeps the    *)
(* mutex, which doStats and Close wait for.  (One that is told between the *)
(* creation of its node and StartOnline may wait for ever too: Close is    *)
(* done before Start sets online.)                                         *)
StopsUnlessHeldUp ==
  \A d \in Dashboards :
    []<>(told[d] = "running" => closer[d] = "failed" \/ mutex[d] = "hung")
=============================================================================
