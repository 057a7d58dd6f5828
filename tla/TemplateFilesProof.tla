-------------------------- MODULE TemplateFilesProof --------------------------
(***************************************************************************)
(* Theorems about TemplateFiles for any number of files, of edits, of      *)
(* failed calls and of crashes.                                            *)
(***************************************************************************)
EXTENDS TemplateFiles, TLAPS

(* CachedIsStored speaks of the steps between two scans.  What holds while *)
(* a scan changes the coordinator depends on the loop it is in: the files  *)
(* to delete have been read no more, and the files that the new cache will *)
(* have and that are not to be updated any more are stored already.        *)
CacheIsStored == \A f \in Files : tfs[f] # None => store[f] = tfs[f]

DeleteLoop ==
  /\ \A f \in todo : read[f] = None
  /\ \A f \in Files : tfs[f] # None /\ read[f] # None => store[f] = tfs[f]

UpdateLoop == \A f \in Files \ todo : read[f] # None => store[f] = read[f]

CacheInv ==
  /\ pc \in {"restore", "write", "idle", "read"} => CacheIsStored
  /\ pc = "delete" => DeleteLoop
  /\ pc = "update" => UpdateLoop

(* A new directory and an empty coordinator.                               *)
LEMMA TypeInit == Init => TypeOK
  BY TemplateFilesAssumption DEF Init, TypeOK, Directory, NoFiles

(* Every step keeps the type: no loop works on a file outside the          *)
(* directory, and no failed call leaves a record that is not one.          *)
LEMMA TypeNext == TypeOK /\ [Next]_vars => TypeOK'
<1> SUFFICES ASSUME TypeOK, [Next]_vars PROVE TypeOK'
  OBVIOUS
<1>a. /\ NoFiles \in Directory
      /\ \A d \in Directory, f \in Files : d[f] \in Contents \cup {None, Empty}
      /\ \A d \in Directory, f \in Files, c \in Contents \cup {None, Empty} :
           [d EXCEPT ![f] = c] \in Directory
      /\ \A d \in Directory : Present(d) \in SUBSET Files
  BY DEF NoFiles, Directory, Present
<1>b. troubles < MaxTroubles => troubles + 1 \in 0..MaxTroubles
  BY TemplateFilesAssumption DEF TypeOK
<1> USE DEF TypeOK
<1>1. CASE Load \/ Loaded
  BY <1>1, <1>a, <1>b DEF Load, Loaded, getMatchFiles
<1>2. ASSUME NEW f \in Files, RestoreOpen(f) PROVE TypeOK'
  <2>1. disk' \in Directory /\ read' \in Directory
    BY <1>2, <1>a DEF RestoreOpen
  <2> QED BY <1>2, <2>1 DEF RestoreOpen
<1>3. CASE RestoreWrite
  <2>1. PICK f \in Present(read) : /\ disk' = [disk EXCEPT ![f] = read[f]]
                                  /\ todo' = todo \ {f}
    BY <1>3 DEF RestoreWrite
  <2>2. f \in Files
    BY <1>a
  <2>3. disk' \in Directory /\ read' \in Directory
    BY <1>3, <1>a, <2>1, <2>2 DEF RestoreWrite
  <2> QED BY <1>3, <2>1, <2>3 DEF RestoreWrite
<1>4. CASE Scan \/ ReadEnds \/ UpdateEnds
  BY <1>4, <1>a, <1>b DEF Scan, getMatchFiles, ReadEnds, UpdateEnds
<1>5. CASE DeleteEnds
  BY <1>5, <1>a DEF DeleteEnds, Changed
<1>6. ASSUME NEW f \in Files, ReadFile(f) \/ ReadFails(f) PROVE TypeOK'
  BY <1>6, <1>a, <1>b DEF ReadFile, ReadFails
<1>7. ASSUME NEW f \in Files, delete(f) \/ update(f) PROVE TypeOK'
  <2>1. store' \in Directory /\ read' \in Directory
    BY <1>7, <1>a DEF delete, update
  <2>2. troubles' \in 0..MaxTroubles /\ failed' \in SUBSET Files
    BY <1>7, <1>b DEF delete, update, Call
  <2> QED BY <1>7, <2>1, <2>2 DEF delete, update
<1>8. ASSUME NEW f \in Files, Edit(f) PROVE TypeOK'
  <2>1. PICK c \in Contents \cup {None} : disk' = [disk EXCEPT ![f] = c]
    BY <1>8 DEF Edit
  <2>2. disk' \in Directory
    BY <1>a, <2>1
  <2> QED BY <1>8, <1>b, <2>2 DEF Edit
<1>9. CASE Crash
  BY <1>9, <1>a, <1>b DEF Crash
<1>10. CASE UNCHANGED vars
  BY <1>10 DEF vars
<1> QED BY <1>1, <1>2, <1>3, <1>4, <1>5, <1>6, <1>7, <1>8, <1>9, <1>10
        DEF Next, Starting, Scanning

(* Every step keeps CacheInv: a refused or half-done call takes its file   *)
(* out of the new cache in the same step.                                  *)
LEMMA CacheNext == TypeOK /\ CacheInv /\ [Next]_vars => CacheInv'
<1> SUFFICES ASSUME TypeOK, CacheInv, [Next]_vars PROVE CacheInv'
  OBVIOUS
<1> USE DEF CacheInv, CacheIsStored, DeleteLoop, UpdateLoop
<1>1. CASE Load \/ Loaded
  BY <1>1 DEF Load, Loaded
<1>2. ASSUME NEW f \in Files, RestoreOpen(f) PROVE CacheInv'
  BY <1>2 DEF RestoreOpen
<1>3. CASE RestoreWrite
  BY <1>3 DEF RestoreWrite
<1>4. CASE Scan \/ UpdateEnds
  BY <1>4 DEF Scan, UpdateEnds, TypeOK
<1>5. CASE ReadEnds
  BY <1>5 DEF ReadEnds, Present
<1>6. CASE DeleteEnds
  BY <1>6 DEF DeleteEnds, Changed, Present
<1>7. ASSUME NEW f \in Files, ReadFile(f) \/ ReadFails(f) PROVE CacheInv'
  BY <1>7 DEF ReadFile, ReadFails
<1>8. ASSUME NEW f \in Files, delete(f) PROVE CacheInv'
  BY <1>8 DEF delete, TypeOK, Directory
<1>9. ASSUME NEW f \in Files, update(f) PROVE CacheInv'
  BY <1>9 DEF update, TypeOK, Directory, Outcomes
<1>10. ASSUME NEW f \in Files, Edit(f) PROVE CacheInv'
  BY <1>10 DEF Edit
<1>11. CASE Crash
  BY <1>11 DEF Crash
<1>12. CASE UNCHANGED vars
  BY <1>12 DEF vars
<1> QED BY <1>1, <1>2, <1>3, <1>4, <1>5, <1>6, <1>7, <1>8, <1>9, <1>10, <1>11, <1>12
        DEF Next, Starting, Scanning

(* The mapper, the directory and the coordinator keep their types,         *)
(* whatever is edited, fails or crashes.                                   *)
THEOREM FilesTypeCorrect == Spec => []TypeOK
  BY TypeInit, TypeNext, PTL DEF Spec

(* Between the scans of doMonitor, every file that the mapper believes to  *)
(* be stored is stored with that content, for any failed calls of delete   *)
(* and update, edits in the middle of a scan and crashes at any step.      *)
THEOREM CachedIsStoredAlways == Spec => []CachedIsStored
<1>1. Init => CacheInv
  BY DEF Init, CacheInv
<1>2. CacheInv => CachedIsStored
  BY DEF CacheInv, CacheIsStored, CachedIsStored, Present
<1> QED BY <1>1, <1>2, TypeInit, TypeNext, CacheNext, PTL DEF Spec
=============================================================================
