--------------------------- MODULE TemplateFiles ---------------------------
(***************************************************************************)
(* The template files of src/topom/dao/mapper/template_file_mapper.go: a   *)
(* directory that is scanned again and again, its copy in the coordinator, *)
(* and the mapper's cache of what it believes to be there.                 *)
(*                                                                         *)
(* When the mapper starts it writes the coordinator's files that are not   *)
(* in the directory; from then on the directory decides.  The process may  *)
(* stop between any two steps, an operator edits the directory at any      *)
(* time and calls of the coordinator fail.  The hash that init and         *)
(* doMonitor compute has the whole content in it, so that files with the   *)
(* same hash are equal.                                                    *)
(***************************************************************************)
EXTENDS Naturals, FiniteSets

CONSTANTS Files,       \* base names
          Contents,    \* what an operator writes
          None,        \* no file
          Empty,       \* the content of a file just created
          CallFaults,  \* how a call of the coordinator may fail
          MaxTroubles  \* bound: edits, failed calls and crashes

ASSUME TemplateFilesAssumption ==
  /\ IsFiniteSet(Files)
  /\ None \notin Contents /\ Empty \notin Contents /\ None # Empty
  /\ CallFaults \subseteq {"refused", "applied"}
  /\ MaxTroubles \in Nat

VARIABLES
  disk,      \* the directory
  store,     \* the coordinator
  tfs,       \* templateFileMapper.tfs
  pc,        \* the step of init or doMonitor
  todo,      \* the files its current loop has still to do
  read,      \* doMonitor's tfs: what this scan has read
  failed,    \* history: files whose last call failed
  troubles   \* edits, failed calls and crashes so far

vars == <<disk, store, tfs, pc, todo, read, failed, troubles>>

Directory == [Files -> Contents \cup {None, Empty}]

Present(d) == {f \in Files : d[f] # None}

NoFiles == [f \in Files |-> None]

(* A call of the coordinator, and what it may cost.                        *)
Call(o) ==
  IF o = "ok"
  THEN UNCHANGED troubles
  ELSE troubles < MaxTroubles /\ troubles' = troubles + 1

Outcomes == {"ok"} \cup CallFaults

(* The files that the directory has; one for which Lstat fails is skipped. *)
getMatchFiles(files) ==
  \/ files = Present(disk) /\ UNCHANGED troubles
  \/ /\ \E f \in Present(disk) : files = Present(disk) \ {f}
     /\ troubles < MaxTroubles
     /\ troubles' = troubles + 1

-----------------------------------------------------------------------------
(* init.                                                                   *)

(* List and Read, then the files that the directory does not have.         *)
Load ==
  /\ pc = "down"
  /\ pc' = "restore"
  /\ tfs' = store
  /\ \E files \in SUBSET Files :
       /\ getMatchFiles(files)
       /\ todo' = Present(store) \ files
  /\ UNCHANGED <<disk, store, read, failed>>

(* os.OpenFile with O_CREATE and O_TRUNC.                                  *)
RestoreOpen(f) ==
  /\ pc = "restore"
  /\ f \in todo
  /\ disk' = [disk EXCEPT ![f] = Empty]
  /\ pc' = "write"
  /\ read' = [NoFiles EXCEPT ![f] = tfs[f]]
  /\ UNCHANGED <<store, tfs, todo, failed, troubles>>

RestoreWrite ==
  /\ pc = "write"
  /\ \E f \in Present(read) :
       /\ disk' = [disk EXCEPT ![f] = read[f]]
       /\ todo' = todo \ {f}
  /\ read' = NoFiles
  /\ pc' = "restore"
  /\ UNCHANGED <<store, tfs, failed, troubles>>

Loaded ==
  /\ pc = "restore"
  /\ todo = {}
  /\ pc' = "idle"
  /\ UNCHANGED <<disk, store, tfs, todo, read, failed, troubles>>

-----------------------------------------------------------------------------
(* doMonitor.                                                              *)

Scan ==
  /\ pc = "idle"
  /\ pc' = "read"
  /\ \E files \in SUBSET Files : getMatchFiles(files) /\ todo' = files
  /\ read' = NoFiles
  /\ UNCHANGED <<disk, store, tfs, failed>>

ReadFile(f) ==
  /\ pc = "read"
  /\ f \in todo
  /\ disk[f] # None
  /\ read' = [read EXCEPT ![f] = disk[f]]
  /\ todo' = todo \ {f}
  /\ UNCHANGED <<disk, store, tfs, pc, failed, troubles>>

(* A file that is gone, or cannot be read, ends the scan.                  *)
ReadFails(f) ==
  /\ pc = "read"
  /\ f \in todo
  /\ \/ disk[f] = None /\ UNCHANGED troubles
     \/ disk[f] # None /\ troubles < MaxTroubles /\ troubles' = troubles + 1
  /\ pc' = "idle"
  /\ todo' = {} /\ read' = NoFiles
  /\ UNCHANGED <<disk, store, tfs, failed>>

(* Mutant of ReadEnds: files that are gone are only left out of the cache. *)
ReadEndsNoDelete ==
  /\ pc = "read"
  /\ todo = {}
  /\ pc' = "delete"
  /\ UNCHANGED <<disk, store, tfs, todo, read, failed, troubles>>

ReadEnds ==
  /\ pc = "read"
  /\ todo = {}
  /\ pc' = "delete"
  /\ todo' = Present(tfs) \ Present(read)
  /\ UNCHANGED <<disk, store, tfs, read, failed, troubles>>

(* The error of a deletion is only logged.                                 *)
delete(f) ==
  /\ pc = "delete"
  /\ f \in todo
  /\ \E o \in Outcomes :
       /\ Call(o)
       /\ store' = IF o = "refused" THEN store ELSE [store EXCEPT ![f] = None]
       /\ failed' = IF o = "ok" THEN failed \ {f} ELSE failed \cup {f}
  /\ todo' = todo \ {f}
  /\ UNCHANGED <<disk, tfs, pc, read>>

(* The files whose hash differs from that of the cached one.               *)
Changed == {f \in Present(read) : tfs[f] # read[f]}

DeleteEnds ==
  /\ pc = "delete"
  /\ todo = {}
  /\ pc' = "update"
  /\ todo' = Changed
  /\ UNCHANGED <<disk, store, tfs, read, failed, troubles>>

(* Mutant of update: a failed update is not taken out of the new cache.    *)
updateUnchecked(f) ==
  /\ pc = "update"
  /\ f \in todo
  /\ \E o \in Outcomes :
       /\ Call(o)
       /\ store' = IF o = "refused" THEN store
                   ELSE [store EXCEPT ![f] = read[f]]
       /\ failed' = IF o = "ok" THEN failed \ {f} ELSE failed \cup {f}
  /\ todo' = todo \ {f}
  /\ UNCHANGED <<disk, tfs, pc, read>>

(* Mutant of update: the new cache keeps a nil record.                     *)
updateNil(f) ==
  /\ pc = "update"
  /\ f \in todo
  /\ \E o \in Outcomes :
       /\ Call(o)
       /\ store' = IF o = "refused" THEN store
                   ELSE [store EXCEPT ![f] = read[f]]
       /\ read' = IF o = "ok" THEN read ELSE [read EXCEPT ![f] = "nil"]
       /\ failed' = IF o = "ok" THEN failed \ {f} ELSE failed \cup {f}
  /\ todo' = todo \ {f}
  /\ UNCHANGED <<disk, tfs, pc>>

(* A file whose update failed is left out of the new cache, so that the    *)
(* next scan tries again.                                                  *)
update(f) ==
  /\ pc = "update"
  /\ f \in todo
  /\ \E o \in Outcomes :
       /\ Call(o)
       /\ store' = IF o = "refused" THEN store
                   ELSE [store EXCEPT ![f] = read[f]]
       /\ read' = IF o = "ok" THEN read ELSE [read EXCEPT ![f] = None]
       /\ failed' = IF o = "ok" THEN failed \ {f} ELSE failed \cup {f}
  /\ todo' = todo \ {f}
  /\ UNCHANGED <<disk, tfs, pc>>

UpdateEnds ==
  /\ pc = "update"
  /\ todo = {}
  /\ tfs' = read
  /\ read' = NoFiles
  /\ pc' = "idle"
  /\ UNCHANGED <<disk, store, todo, failed, troubles>>

-----------------------------------------------------------------------------
(* Outside the mapper.                                                     *)

Edit(f) ==
  /\ troubles < MaxTroubles
  /\ \E c \in Contents \cup {None} :
       disk[f] # c /\ disk' = [disk EXCEPT ![f] = c]
  /\ troubles' = troubles + 1
  /\ UNCHANGED <<store, tfs, pc, todo, read, failed>>

(* The process stops; an operator or supervisord starts it again.          *)
Crash ==
  /\ pc # "down"
  /\ troubles < MaxTroubles
  /\ troubles' = troubles + 1
  /\ pc' = "down"
  /\ tfs' = NoFiles /\ todo' = {} /\ read' = NoFiles
  /\ UNCHANGED <<disk, store, failed>>

-----------------------------------------------------------------------------
Init ==
  /\ disk = NoFiles /\ store = NoFiles /\ tfs = NoFiles
  /\ pc = "down"
  /\ todo = {}
  /\ read = NoFiles
  /\ failed = {}
  /\ troubles = 0

Starting ==
  Load \/ (\E f \in Files : RestoreOpen(f)) \/ RestoreWrite \/ Loaded

Scanning ==
  \/ Scan \/ ReadEnds \/ DeleteEnds \/ UpdateEnds
  \/ \E f \in Files : ReadFile(f) \/ ReadFails(f) \/ delete(f) \/ update(f)

Next ==
  \/ Starting
  \/ Scanning
  \/ \E f \in Files : Edit(f)
  \/ Crash

Spec == Init /\ [][Next]_vars

(* The mapper is started again and scans for ever.                         *)
FairSpec == Spec /\ WF_vars(Starting) /\ WF_vars(Scanning)

-----------------------------------------------------------------------------
(* Properties.                                                             *)

TypeOK ==
  /\ disk \in Directory /\ store \in Directory /\ tfs \in Directory
  /\ pc \in {"down", "restore", "write", "idle", "read", "delete", "update"}
  /\ todo \in SUBSET Files
  /\ read \in Directory
  /\ failed \in SUBSET Files
  /\ troubles \in 0..MaxTroubles

(* Between the scans, what the mapper believes the coordinator to have is  *)
(* there, whatever calls failed: a file it does not update again needs no  *)
(* update.                                                                 *)
CachedIsStored ==
  pc \in {"restore", "idle", "read"} =>
    \A f \in Present(tfs) : store[f] = tfs[f]

(* Once the directory is left alone and the calls succeed, the coordinator *)
(* has the directory's files and no other, except one that was removed     *)
(* and for which the last call failed: the mapper has forgotten it.        *)
FilesSettle ==
  <>[](\A f \in Files : store[f] = disk[f] \/ (disk[f] = None /\ f \in failed))
=============================================================================
