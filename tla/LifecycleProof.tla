--------------------------- MODULE LifecycleProof ---------------------------
(***************************************************************************)
(* Proofs about Lifecycle, alone and with FrontEnd beside it: any number   *)
(* of dashboards, calls of the coordinator that fail in any way, processes *)
(* that die anywhere.                                                      *)
(***************************************************************************)
EXTENDS FrontEnd, TLAPS

(* doStats runs only after Start, and the wait group counts it.            *)
Counted ==
  \A d \in Dashboards :
    /\ wg[d] = IF stats[d] = "off" THEN 0 ELSE 1
    /\ stats[d] # "off" => main[d] \in {"run", "exit"}

(* Before Start has returned a dashboard was not told to stop.             *)
Untold ==
  \A d \in Dashboards :
    /\ main[d] \notin {"run", "exit"} => told[d] = "no"
    /\ told[d] = "no" => closer[d] = "none"

(* From the creation of the node to its deletion the node is the           *)
(* dashboard's own, and doStats has ended before the deletion.             *)
Owner ==
  \A d \in Dashboards :
    /\ /\ main[d] \in {"created", "online", "run", "exit"}
       /\ closer[d] \in {"none", "wait", "lock", "delete"}
       => node = d
    /\ closer[d] \notin {"none", "wait"} => stats[d] = "off"

LifecycleInv == TypeOK /\ Counted /\ (~early => Untold /\ Owner)

LEMMA LifecycleInit == Init => LifecycleInv
<1> SUFFICES ASSUME Init
             PROVE  LifecycleInv
  OBVIOUS
<1>1. TypeOK
  BY DEF Init, TypeOK, MainSteps, CloseSteps, StatsSteps, Holders
<1>2. Counted
  BY DEF Init, Counted
<1>3. Untold /\ Owner
  BY DEF Init, Untold, Owner
<1> QED
  BY <1>1, <1>2, <1>3 DEF LifecycleInv

(* TypeOK and Counted do not depend on when a dashboard is told to stop.   *)
LEMMA CountedStep ==
  ASSUME LifecycleInv, [Next]_vars
  PROVE  TypeOK' /\ Counted'
<1> USE DEF LifecycleInv, TypeOK, Counted, MainSteps, CloseSteps, StatsSteps, Holders
<1>1. ASSUME NEW d \in Dashboards, Boot(d)
      PROVE  TypeOK' /\ Counted'
  BY <1>1 DEF Boot
<1>2. ASSUME NEW d \in Dashboards, Start(d)
      PROVE  TypeOK' /\ Counted'
  BY <1>2 DEF Start
<1>3. ASSUME NEW d \in Dashboards, StartTry(d)
      PROVE  TypeOK' /\ Counted'
  BY <1>3 DEF StartTry
<1>4. ASSUME NEW d \in Dashboards, Create(d)
      PROVE  TypeOK' /\ Counted'
  BY <1>4 DEF Create
<1>5. ASSUME NEW d \in Dashboards, StartDone(d)
      PROVE  TypeOK' /\ Counted'
  BY <1>5 DEF StartDone
<1>6. ASSUME NEW d \in Dashboards, StartOnline(d)
      PROVE  TypeOK' /\ Counted'
  BY <1>6 DEF StartOnline
<1>7. ASSUME NEW d \in Dashboards, StartStats(d)
      PROVE  TypeOK' /\ Counted'
  BY <1>7 DEF StartStats
<1>8. ASSUME NEW d \in Dashboards, Shutdown(d)
      PROVE  TypeOK' /\ Counted'
  BY <1>8 DEF Shutdown
<1>9. ASSUME NEW d \in Dashboards, Exit(d) \/ Kill(d)
      PROVE  TypeOK' /\ Counted'
  <2>1. Gone(d) /\ UNCHANGED <<node, early>>
    BY <1>9 DEF Exit, Kill
  <2>2. TypeOK'
    BY <2>1 DEF Gone
  <2>3. Counted'
    BY <2>1 DEF Gone
  <2> QED
    BY <2>2, <2>3
<1>10. ASSUME NEW d \in Dashboards, ResyncGroupAll(d) \/ doStats(d)
       PROVE  TypeOK' /\ Counted'
  <2>1. CASE ResyncGroupAll(d)
    BY <2>1 DEF ResyncGroupAll
  <2>2. CASE doStatsTurn(d) \/ doStatsRefresh(d)
    BY <2>2 DEF doStatsTurn, doStatsRefresh
  <2>3. CASE doStatsReturn(d)
    BY <2>3 DEF doStatsReturn
  <2> QED
    BY <1>10, <2>1, <2>2, <2>3 DEF doStats
<1>11. ASSUME NEW d \in Dashboards,
              Close(d) \/ CloseWait(d) \/ CloseLock(d) \/ CloseOffline(d)
       PROVE  TypeOK' /\ Counted'
  BY <1>11 DEF Close, CloseWait, CloseLock, CloseOffline
<1>12. ASSUME NEW d \in Dashboards, Delete(d)
       PROVE  TypeOK' /\ Counted'
  BY <1>12 DEF Delete
<1>13. ASSUME NEW d \in Dashboards, Stop(d)
       PROVE  TypeOK' /\ Counted'
  BY <1>13 DEF Stop
<1>14. CASE RemoveNode
  BY <1>14 DEF RemoveNode
<1>15. CASE UNCHANGED vars
  BY <1>15 DEF vars
<1> QED
  BY <1>1, <1>2, <1>3, <1>4, <1>5, <1>6, <1>7, <1>8, <1>9, <1>10, <1>11,
     <1>12, <1>13, <1>14, <1>15
  DEF Next, Main, Closing

(* As long as nobody is told to stop early, the node belongs to the one    *)
(* dashboard that runs.                                                    *)
LEMMA OwnerStep ==
  ASSUME LifecycleInv, [Next]_vars, ~early'
  PROVE  Untold' /\ Owner'
<1> USE LifecycleAssumption
    DEF LifecycleInv, TypeOK, Counted, Untold, Owner, MainSteps, CloseSteps,
        StatsSteps, Holders
<1>1. ASSUME NEW d \in Dashboards, Boot(d)
      PROVE  Untold' /\ Owner'
  BY <1>1 DEF Boot
<1>2. ASSUME NEW d \in Dashboards, Start(d)
      PROVE  Untold' /\ Owner'
  BY <1>2 DEF Start, closed
<1>3. ASSUME NEW d \in Dashboards, StartTry(d)
      PROVE  Untold' /\ Owner'
  BY <1>3 DEF StartTry
<1>4. ASSUME NEW d \in Dashboards, Create(d)
      PROVE  Untold' /\ Owner'
  BY <1>4 DEF Create
<1>5. ASSUME NEW d \in Dashboards, StartDone(d)
      PROVE  Untold' /\ Owner'
  BY <1>5 DEF StartDone, closed
<1>6. ASSUME NEW d \in Dashboards, StartOnline(d)
      PROVE  Untold' /\ Owner'
  BY <1>6 DEF StartOnline
<1>7. ASSUME NEW d \in Dashboards, StartStats(d)
      PROVE  Untold' /\ Owner'
  BY <1>7 DEF StartStats
<1>8. ASSUME NEW d \in Dashboards, Shutdown(d)
      PROVE  Untold' /\ Owner'
  BY <1>8 DEF Shutdown
<1>9. ASSUME NEW d \in Dashboards, Exit(d) \/ Kill(d)
      PROVE  Untold' /\ Owner'
  BY <1>9 DEF Exit, Kill, Gone
<1>10. ASSUME NEW d \in Dashboards, ResyncGroupAll(d) \/ doStats(d)
       PROVE  Untold' /\ Owner'
  <2>1. CASE ResyncGroupAll(d)
    BY <2>1 DEF ResyncGroupAll
  <2>2. CASE doStatsTurn(d) \/ doStatsRefresh(d)
    BY <2>2 DEF doStatsTurn, doStatsRefresh, closed
  <2>3. CASE doStatsReturn(d)
    BY <2>3 DEF doStatsReturn
  <2> QED
    BY <1>10, <2>1, <2>2, <2>3 DEF doStats
<1>11. ASSUME NEW d \in Dashboards, Close(d)
       PROVE  Untold' /\ Owner'
  BY <1>11 DEF Close
<1>12. ASSUME NEW d \in Dashboards, CloseWait(d) \/ CloseLock(d)
       PROVE  Untold' /\ Owner'
  BY <1>12 DEF CloseWait, CloseLock
<1>13. ASSUME NEW d \in Dashboards, Delete(d)
       PROVE  Untold' /\ Owner'
  BY <1>13 DEF Delete
<1>14. ASSUME NEW d \in Dashboards, CloseOffline(d)
       PROVE  Untold' /\ Owner'
  BY <1>14 DEF CloseOffline
<1>15. ASSUME NEW d \in Dashboards, Stop(d)
       PROVE  Untold' /\ Owner'
  BY <1>15 DEF Stop
<1>16. CASE RemoveNode
  BY <1>16 DEF RemoveNode
<1>17. CASE UNCHANGED vars
  BY <1>17 DEF vars
<1> QED
  BY <1>1, <1>2, <1>3, <1>4, <1>5, <1>6, <1>7, <1>8, <1>9, <1>10, <1>11,
     <1>12, <1>13, <1>14, <1>15, <1>16, <1>17
  DEF Next, Main, Closing

LEMMA LifecycleInvariant == Spec => []LifecycleInv
<1>1. LifecycleInv /\ [Next]_vars => LifecycleInv'
  BY CountedStep, OwnerStep DEF LifecycleInv
<1> QED
  BY LifecycleInit, <1>1, PTL DEF Spec

(* At most one dashboard refreshes the balancers' records: Start, Close    *)
(* and the node of topomMapper exclude each other for any number of        *)
(* dashboards, as long as none is told to stop before Start has returned.  *)
THEOREM OneRefresherAlways == Spec => []OneRefresher
<1>1. LifecycleInv => OneRefresher
  BY DEF LifecycleInv, TypeOK, Counted, Owner, OneRefresher, CloseSteps
<1> QED
  BY LifecycleInvariant, <1>1, PTL

(* The wait group of the service never goes below zero, nor does any other *)
(* variable leave its type.                                                *)
THEOREM LifecycleTypeCorrect == Spec => []TypeOK
<1>1. LifecycleInv => TypeOK
  BY DEF LifecycleInv
<1> QED
  BY LifecycleInvariant, <1>1, PTL

(* The front end only reads what the dashboards keep: with it beside them  *)
(* they behave as without, so that what is proved of Lifecycle holds of    *)
(* the two together.                                                       *)
THEOREM FrontEndObserves == FeSpec => FairSpec
<1>1. FeInit => Init
  BY DEF FeInit
<1>2. [FeNext]_allVars => [Next]_vars
  BY DEF FeNext, allVars
<1> QED
  BY <1>1, <1>2, PTL DEF FeSpec, FairSpec, Spec
=============================================================================
