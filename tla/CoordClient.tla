---------------------------- MODULE CoordClient ----------------------------
(***************************************************************************)
(* The coordinator's clients, src/coordinate/zk and src/coordinate/etcd,   *)
(* on one record.  A ZooKeeper call is several requests (the directories   *)
(* above the record, the test for its existence, the write), an etcd call  *)
(* is one; the clients of other processes may work on the record between   *)
(* two of them.  A client's mutex keeps its own calls apart.               *)
(*                                                                         *)
(* The ZooKeeper client replaces its connection after a request that       *)
(* failed, unless it is less than a second old, and authenticates the new  *)
(* one; if that fails it is left with a connection whose reads and writes  *)
(* are denied.                                                             *)
(*                                                                         *)
(* All directories above the record are one, which is never removed.       *)
(***************************************************************************)
EXTENDS Integers

CONSTANTS Callers,  \* processes, each with one client
          Values,   \* records
          Nothing,  \* no record
          MaxSlips,   \* bound: requests or answers that are lost
          MaxDenials  \* bound: connections that cannot be authenticated

ASSUME CoordAssumption ==
  Nothing \notin Values /\ MaxSlips \in Nat /\ MaxDenials \in Nat

VARIABLES
  kind,    \* CoordinatorName of the configuration
  rec,     \* the record in the coordinator
  dir,     \* the directory above it exists
  call,    \* the call a client is in, or what its last one returned
  pc,      \* the next request of the call, or how it ends
  authed,  \* the connection is authenticated
  young,   \* dialAt is less than a second ago
  late,    \* a request whose answer was lost, still on its way
  gone,    \* history: the record was removed since the update began
  slips,   \* requests lost so far
  denials  \* authentications that failed so far

connection == <<authed, young, denials>>
vars == <<kind, rec, dir, call, pc, authed, young, late, gone, slips, denials>>

Writes == {"create", "update", "delete"}
WriteRequests == {"create", "set", "put", "delete"}
Requests == {"dir", "mkdir", "exists", "get"} \cup WriteRequests

(* The data of a deletion is Nothing.                                      *)
Call(op, data) == [op |-> op, data |-> data, phase |-> "open", saw |-> Nothing]
Return(answer, saw) ==
  [op |-> "none", data |-> Nothing, phase |-> answer, saw |-> saw]
Late(op, data, request) == [op |-> op, data |-> data, request |-> request]
NoLate == Late("none", Nothing, "none")

-----------------------------------------------------------------------------
(* The coordinator.                                                        *)

(* conn.Create and conn.Set with version -1, kapi.Set with PrevNoExist and *)
(* with PrevIgnore, and the deletions.                                     *)
Accepts(request) ==
  CASE request = "create" -> rec = Nothing
    [] request = "set"    -> rec # Nothing
    [] OTHER              -> TRUE

Write(r) ==
  /\ rec' = r
  /\ gone' = [c \in Callers |->
                gone[c] \/ (call[c].op = "update" /\ rec # Nothing /\ r = Nothing)]

Took(c) == call' = [call EXCEPT ![c].phase = "took"]

Goto(c, step) == pc' = [pc EXCEPT ![c] = step]

(* What ZooKeeper answers whoever asks: whether a node exists, and that it *)
(* is not there.                                                           *)
Allowed(c) ==
  \/ authed[c]
  \/ pc[c] \in {"dir", "exists"}
  \/ pc[c] \in {"set", "get", "delete"} /\ rec = Nothing

(* A request of c is answered.                                             *)
At(c, request) ==
  /\ pc[c] = request
  /\ Allowed(c)
  /\ UNCHANGED <<kind, connection, late, slips>>

-----------------------------------------------------------------------------
(* The calls.                                                              *)

(* Mutant of First: Create does not see to the directories.                *)
FirstNoMkdir(op) ==
  CASE op = "create" -> "create"
    [] op = "update" -> IF kind = "zookeeper" THEN "exists" ELSE "put"
    [] op = "delete" -> "delete"
    [] op = "read"   -> "get"

First(op) ==
  CASE op = "create" -> IF kind = "zookeeper" THEN "dir" ELSE "create"
    [] op = "update" -> IF kind = "zookeeper" THEN "exists" ELSE "put"
    [] op = "delete" -> "delete"
    [] op = "read"   -> "get"

Begin(c, op, v) ==
  /\ pc[c] = "idle"
  /\ call' = [call EXCEPT ![c] = Call(op, v)]
  /\ Goto(c, First(op))
  /\ UNCHANGED <<kind, rec, dir, connection, late, gone, slips>>

(* zk: mkdir.                                                              *)
mkdirExists(c) ==
  /\ At(c, "dir")
  /\ Goto(c, IF dir THEN "create" ELSE "mkdir")
  /\ UNCHANGED <<rec, dir, call, gone>>

(* Another client's directory is as good.                                  *)
mkdirCreate(c) ==
  /\ At(c, "mkdir")
  /\ dir' = TRUE
  /\ Goto(c, "create")
  /\ UNCHANGED <<rec, call, gone>>

(* Mutant of create: update does not tolerate a record that is there.      *)
createStrict(c) ==
  /\ At(c, "create")
  /\ IF rec = Nothing
     THEN /\ Write(call[c].data) /\ Took(c)
          /\ Goto(c, IF call[c].op = "create" THEN "ok" ELSE "set")
     ELSE Goto(c, "refused") /\ UNCHANGED <<rec, call, gone>>
  /\ UNCHANGED dir

(* Mutant of create: a record that is there is taken for one's own.        *)
createAny(c) ==
  /\ At(c, "create")
  /\ IF rec = Nothing THEN Write(call[c].data) /\ Took(c)
                      ELSE UNCHANGED <<rec, call, gone>>
  /\ Goto(c, IF call[c].op = "create" THEN "ok" ELSE "set")
  /\ UNCHANGED dir

(* create, of Create and of Update: NodeExists ends only the former.       *)
create(c) ==
  /\ At(c, "create")
  /\ \/ /\ Accepts("create")
        /\ Write(call[c].data)
        /\ Took(c)
        /\ Goto(c, IF call[c].op = "create" THEN "ok" ELSE "set")
     \/ /\ ~Accepts("create")
        /\ Goto(c, IF call[c].op = "create" THEN "refused" ELSE "set")
        /\ UNCHANGED <<rec, call, gone>>
  /\ UNCHANGED dir

(* zk: update.                                                             *)
updateExists(c) ==
  /\ At(c, "exists")
  /\ Goto(c, IF rec # Nothing THEN "set" ELSE "dir")
  /\ UNCHANGED <<rec, dir, call, gone>>

(* Also after the record was just created; NoNode if it was removed.       *)
updateSet(c) ==
  /\ At(c, "set")
  /\ \/ /\ Accepts("set")
        /\ Write(call[c].data)
        /\ Took(c)
        /\ Goto(c, "ok")
     \/ /\ ~Accepts("set")
        /\ Goto(c, "refused")
        /\ UNCHANGED <<rec, call, gone>>
  /\ UNCHANGED dir

(* etcd: Update.                                                           *)
etcdUpdate(c) ==
  /\ At(c, "put")
  /\ Write(call[c].data)
  /\ Took(c)
  /\ Goto(c, "ok")
  /\ UNCHANGED dir

(* NoNode is a success.                                                    *)
Delete(c) ==
  /\ At(c, "delete")
  /\ Write(call[c].data)
  /\ Took(c)
  /\ Goto(c, "ok")
  /\ UNCHANGED dir

(* NoNode is a success, with nothing read, unless the caller says must.    *)
Read(c) ==
  /\ At(c, "get")
  /\ \E must \in BOOLEAN :
       /\ call' = [call EXCEPT ![c].phase = "took", ![c].saw = rec]
       /\ Goto(c, IF rec = Nothing /\ must THEN "refused" ELSE "ok")
  /\ UNCHANGED <<rec, dir, gone>>

(* The call returns; NoNode and NodeExists leave the connection alone.     *)
Answer(c) ==
  /\ pc[c] \in {"ok", "refused"}
  /\ call' = [call EXCEPT ![c] = IF pc[c] = "ok" THEN Return("ok", @.saw)
                                               ELSE Return("error", Nothing)]
  /\ Goto(c, "idle")
  /\ gone' = [gone EXCEPT ![c] = FALSE]
  /\ UNCHANGED <<kind, rec, dir, connection, late, slips>>

(* Mutant of shell: a connection that was not authenticated is kept.       *)
shellKeepsConnection(c) ==
  /\ pc[c] = "lost"
  /\ call' = [call EXCEPT ![c] = Return("error", Nothing)]
  /\ Goto(c, "idle")
  /\ gone' = [gone EXCEPT ![c] = FALSE]
  /\ IF authed[c] /\ ~young[c] /\ kind = "zookeeper" /\ denials < MaxDenials
     THEN /\ authed' = [authed EXCEPT ![c] = FALSE]
          /\ denials' = denials + 1
          /\ UNCHANGED young
     ELSE UNCHANGED connection
  /\ UNCHANGED <<kind, rec, dir, late, slips>>

(* Any other error: zk's shell replaces the connection.                    *)
shell(c) ==
  /\ pc[c] = "lost"
  /\ call' = [call EXCEPT ![c] = Return("error", Nothing)]
  /\ Goto(c, "idle")
  /\ gone' = [gone EXCEPT ![c] = FALSE]
  /\ \/ /\ kind = "zookeeper" /\ ~young[c]
        /\ young' = [young EXCEPT ![c] = TRUE]
        /\ \/ authed' = [authed EXCEPT ![c] = TRUE] /\ UNCHANGED denials
           \/ /\ denials < MaxDenials
              /\ denials' = denials + 1
              /\ authed' = [authed EXCEPT ![c] = FALSE]
     \/ /\ kind = "etcd" \/ young[c]
        /\ UNCHANGED connection
  /\ UNCHANGED <<kind, rec, dir, late, slips>>

-----------------------------------------------------------------------------
(* What can go wrong on the way.                                           *)

(* The connection was never authenticated (NoAuth).                        *)
Denied(c) ==
  /\ pc[c] \in Requests
  /\ ~Allowed(c)
  /\ Goto(c, "lost")
  /\ UNCHANGED <<kind, rec, dir, call, connection, late, gone, slips>>

(* The answer does not come, or the request does not arrive: carried out,  *)
(* not carried out, or carried out later, after the call has failed.       *)
Lose(c) ==
  /\ pc[c] \in Requests
  /\ Allowed(c)
  /\ slips < MaxSlips
  /\ slips' = slips + 1
  /\ Goto(c, "lost")
  /\ \/ UNCHANGED <<rec, dir, call, late, gone>>
     \/ /\ pc[c] = "mkdir"
        /\ dir' = TRUE
        /\ UNCHANGED <<rec, call, late, gone>>
     \/ /\ pc[c] \in WriteRequests
        /\ Accepts(pc[c])
        /\ Write(call[c].data)
        /\ Took(c)
        /\ UNCHANGED <<dir, late>>
     \/ /\ pc[c] \in WriteRequests
        /\ late[c] = NoLate
        /\ late' = [late EXCEPT ![c] = Late(call[c].op, call[c].data, pc[c])]
        /\ call' = [call EXCEPT ![c].phase = "lost"]
        /\ UNCHANGED <<rec, dir, gone>>
  /\ UNCHANGED <<kind, connection>>

Land(c) ==
  /\ late[c] # NoLate
  /\ late' = [late EXCEPT ![c] = NoLate]
  /\ \/ Accepts(late[c].request) /\ Write(late[c].data)
     \/ ~Accepts(late[c].request) /\ UNCHANGED <<rec, gone>>
  /\ UNCHANGED <<kind, dir, call, pc, connection, slips>>

Second(c) ==
  /\ young[c]
  /\ young' = [young EXCEPT ![c] = FALSE]
  /\ UNCHANGED <<kind, rec, dir, call, pc, authed, late, gone, slips, denials>>

-----------------------------------------------------------------------------
Init ==
  /\ kind \in {"zookeeper", "etcd"}
  /\ rec = Nothing
  /\ dir = FALSE
  /\ call = [c \in Callers |-> Return("ok", Nothing)]
  /\ pc = [c \in Callers |-> "idle"]
  /\ authed = [c \in Callers |-> TRUE]
  /\ young = [c \in Callers |-> kind = "zookeeper"]
  /\ late = [c \in Callers |-> NoLate]
  /\ gone = [c \in Callers |-> FALSE]
  /\ slips = 0
  /\ denials = 0

Answered(c) ==
  \/ mkdirExists(c) \/ mkdirCreate(c) \/ create(c)
  \/ updateExists(c) \/ updateSet(c) \/ etcdUpdate(c)
  \/ Delete(c) \/ Read(c)

Progress(c) == Answered(c) \/ Denied(c) \/ Lose(c) \/ Answer(c) \/ shell(c)

Next ==
  \E c \in Callers :
    \/ \E v \in Values : Begin(c, "create", v) \/ Begin(c, "update", v)
    \/ Begin(c, "delete", Nothing) \/ Begin(c, "read", Nothing)
    \/ Progress(c) \/ Land(c) \/ Second(c)

Spec == Init /\ [][Next]_vars

(* Every request is answered, or given up, and time passes.                *)
FairSpec ==
  Spec /\ \A c \in Callers : WF_vars(Progress(c)) /\ WF_vars(Second(c))

-----------------------------------------------------------------------------
(* Properties.                                                             *)

Calls ==
  [op : {"none", "read"} \cup Writes, data : Values \cup {Nothing},
   phase : {"open", "took", "lost", "ok", "error"}, saw : Values \cup {Nothing}]

TypeOK ==
  /\ kind \in {"zookeeper", "etcd"}
  /\ rec \in Values \cup {Nothing}
  /\ dir \in BOOLEAN
  /\ call \in [Callers -> Calls]
  /\ pc \in [Callers -> Requests \cup {"idle", "ok", "refused", "lost"}]
  /\ authed \in [Callers -> BOOLEAN]
  /\ young \in [Callers -> BOOLEAN]
  /\ late \in [Callers -> [op : Writes, data : Values \cup {Nothing},
                        request : WriteRequests] \cup {NoLate}]
  /\ gone \in [Callers -> BOOLEAN]
  /\ slips \in 0..MaxSlips
  /\ denials \in 0..MaxDenials

(* The calls keep the promise the mappers rely on: each writes its record, *)
(* or reads, in single steps while it lasts (an update perhaps more than   *)
(* one), although a ZooKeeper call is several requests and others may come *)
(* between them.                                                           *)
Promise ==
  INSTANCE Coordinator WITH
    late <- [c \in Callers |-> [op |-> late[c].op, data |-> late[c].data]]

KeepsPromise == Promise!Spec

(* Update does not fail because of another client's Create or Update: only *)
(* when the record is removed under it.  (Or a request is lost.)           *)
UpdateRefused ==
  \A c \in Callers :
    pc[c] = "refused" /\ call[c].op = "update" => gone[c]

(* ZooKeeper is never asked to create a record in a directory that is not  *)
(* there, whoever made the directory and whenever its answer got lost.     *)
RecordHasDirectory ==
  \A c \in Callers : kind = "zookeeper" /\ pc[c] \in {"create", "set"} => dir

(* A client that is left with a connection which could not be              *)
(* authenticated gets another one if its calls fail again and again.       *)
Recovers ==
  \A c \in Callers : []<>(pc[c] = "lost") => []<>authed[c]
=============================================================================
