------------------------------ MODULE FrontEnd ------------------------------
(***************************************************************************)
(* The front end of src/cmd/fe beside the dashboards of one product: its   *)
(* table of reverse proxies is a copy of the node that the dashboards      *)
(* create and delete (Lifecycle).                                          *)
(*                                                                         *)
(* The table is only loaded by GetNames, which a page calls once, when it  *)
(* is opened; GetProxy, which forwards everything else, takes the table as *)
(* it is.  Both hold the proxy's mutex, and a load holds it across its     *)
(* calls of the coordinator.                                               *)
(***************************************************************************)
EXTENDS Lifecycle

CONSTANT MaxLost  \* how many calls of the front end fail, and how often it
                  \* is started again

ASSUME FrontEndAssumption == MaxLost \in Nat

VARIABLES
  route,  \* ReverseProxy.routes: the dashboard the product's requests go to
  load,   \* reload(): the call it is at, with the mutex held, or "idle"
  due,    \* loadAt is at least five seconds ago
  lost    \* failures so far

feVars == <<route, load, due, lost>>
allVars == <<vars, feVars>>

-----------------------------------------------------------------------------
(* GetNames, and the reload it starts with.                                *)

(* Mutant of GetNames: the routes of the previous load are kept.           *)
GetNamesKeepRoutes ==
  /\ load = "idle"
  /\ due
  /\ load' = "list"
  /\ UNCHANGED <<route, due, lost>>

(* The table is emptied before anything is known of the new one.           *)
GetNames ==
  /\ load = "idle"
  /\ due
  /\ route' = None
  /\ load' = "list"
  /\ UNCHANGED <<due, lost>>

(* loadAt = time.Now(), after a failed load too.                           *)
Loaded ==
  /\ load' = "idle"
  /\ due' = FALSE

Fails ==
  /\ lost < MaxLost
  /\ lost' = lost + 1

(* The product is listed as soon as it has, or ever had, a node.           *)
ListProducts ==
  /\ load = "list"
  /\ \/ load' = "read" /\ UNCHANGED <<due, lost>>
     \/ node = None /\ Loaded /\ UNCHANGED lost
     \/ Fails /\ Loaded
  /\ UNCHANGED route

(* A record that cannot be read is left out.                               *)
ReadTopom ==
  /\ load = "read"
  /\ \/ route' = node /\ UNCHANGED lost
     \/ Fails /\ UNCHANGED route
  /\ Loaded

FiveSeconds ==
  /\ load = "idle"
  /\ ~due
  /\ due' = TRUE
  /\ UNCHANGED <<route, load, lost>>

(* NewReverseProxy: an empty table and a loadAt of the year one.           *)
FeRestart ==
  /\ Fails
  /\ route' = None
  /\ load' = "idle"
  /\ due' = TRUE

-----------------------------------------------------------------------------
FeInit ==
  /\ Init
  /\ route = None
  /\ load = "idle"
  /\ due = TRUE
  /\ lost = 0

Reload == ListProducts \/ ReadTopom

FeNext ==
  \/ Next /\ UNCHANGED feVars
  \/ (GetNames \/ Reload \/ FiveSeconds \/ FeRestart) /\ UNCHANGED vars

(* The calls of a load return.  Nothing is promised of the pages.          *)
FeSpec ==
  /\ FeInit /\ [][FeNext]_allVars
  /\ Fairness
  /\ WF_allVars(Reload /\ UNCHANGED vars)

-----------------------------------------------------------------------------
(* Properties.                                                             *)

(* Once the node stays what it is, and if pages are opened again and again, *)
(* requests are forwarded to the dashboard that holds the node, and to none *)
(* if nobody does: an entry does not outlive its node, and a load that      *)
(* failed, or that ran while the node changed, is made good by a later one. *)
RoutesSettle ==
  \A d \in Dashboards \cup {None} :
    []<>(load = "list") /\ <>[](node = d)
      => <>[](load = "idle" => route = d)
=============================================================================
