-------------------------- MODULE CoordClientProof --------------------------
(* Proofs about CoordClient, for any number of clients, records, lost      *)
(* requests and failed authentications.                                    *)
EXTENDS CoordClient, TLAPS

(* What a client asks for fits the call it is in.                          *)
Asks(c) ==
  /\ pc[c] = "idle" <=> call[c].op = "none"
  /\ pc[c] = "ok" => call[c].phase = "took"
  /\ pc[c] = "get" => call[c].op = "read"
  /\ pc[c] = "delete" => call[c].op = "delete"
  /\ pc[c] \in {"dir", "mkdir", "create"} => call[c].op \in {"create", "update"}
  /\ pc[c] \in {"exists", "set", "put"} => call[c].op = "update"
  /\ pc[c] = "put" => kind = "etcd"
  /\ pc[c] \in {"dir", "mkdir", "create"} /\ call[c].op = "create"
       => call[c].phase = "open"

(* What a call writes.                                                     *)
Data(c) ==
  /\ call[c].op \in {"create", "update"} => call[c].data \in Values
  /\ call[c].op = "delete" => call[c].data = Nothing

(* A request on its way is one that its call made.                         *)
OnTheWay(c) ==
  late[c] # NoLate =>
    /\ late[c].op = "create" => late[c].request = "create"
    /\ late[c].request = "put" => kind = "etcd"
    /\ late[c].request = "delete" => late[c].data = Nothing
    /\ kind = "zookeeper" /\ late[c].request \in {"create", "set"} => dir

(* Once an update has seen the record, it is there unless it was removed.  *)
Present(c) ==
  /\ pc[c] = "set" => rec # Nothing \/ gone[c]
  /\ pc[c] = "refused" /\ call[c].op = "update" => gone[c]

(* A record is never without its directory.                                *)
HasDirectory ==
  /\ kind = "zookeeper" /\ rec # Nothing => dir
  /\ RecordHasDirectory

ClientInv ==
  /\ TypeOK
  /\ HasDirectory
  /\ \A c \in Callers : Asks(c) /\ Data(c) /\ OnTheWay(c) /\ Present(c)

LEMMA ClientInit == Init => ClientInv
<1> SUFFICES ASSUME Init PROVE ClientInv
  OBVIOUS
<1> USE DEF Init, Return, Late, NoLate
<1>1. TypeOK
  <2>1. young \in [Callers -> BOOLEAN]
    <3>1. (kind = "zookeeper") \in BOOLEAN
      OBVIOUS
    <3> QED
      BY <3>1
  <2>2. call \in [Callers -> Calls]
    BY DEF Calls
  <2>3. pc \in [Callers -> Requests \cup {"idle", "ok", "refused", "lost"}]
    OBVIOUS
  <2>4. slips \in 0..MaxSlips /\ denials \in 0..MaxDenials
    BY CoordAssumption
  <2>5. late \in [Callers -> [op : Writes, data : Values \cup {Nothing},
                             request : WriteRequests] \cup {NoLate}]
    OBVIOUS
  <2>6. /\ authed \in [Callers -> BOOLEAN] /\ gone \in [Callers -> BOOLEAN]
        /\ dir \in BOOLEAN
    OBVIOUS
  <2> QED
    BY <2>1, <2>2, <2>3, <2>4, <2>5, <2>6 DEF TypeOK
<1>2. HasDirectory
  BY DEF HasDirectory, RecordHasDirectory
<1>3. ASSUME NEW c \in Callers
      PROVE  Asks(c) /\ Data(c) /\ OnTheWay(c) /\ Present(c)
  BY DEF Asks, Data, OnTheWay, Present
<1> QED
  BY <1>1, <1>2, <1>3 DEF ClientInv

-----------------------------------------------------------------------------
(* The steps.                                                              *)

(* A step of client c: what it has to keep of its own state, and what it   *)
(* leaves to the others, who notice at most another record.                *)
LEMMA StepOfOne ==
  ASSUME ClientInv, NEW c \in Callers, kind' = kind, dir => dir', TypeOK',
         \A d \in Callers \ {c} :
           /\ call'[d] = call[d] /\ pc'[d] = pc[d] /\ late'[d] = late[d]
           /\ gone[d] => gone'[d]
           /\ call[d].op = "update" /\ rec # Nothing /\ rec' = Nothing => gone'[d],
         (Asks(c) /\ Data(c) /\ OnTheWay(c) /\ Present(c))',
         kind = "zookeeper" /\ rec' # Nothing => dir',
         kind = "zookeeper" /\ pc'[c] \in {"create", "set"} => dir'
  PROVE  ClientInv'
<1> USE DEF ClientInv
<1>1. HasDirectory'
  BY DEF HasDirectory, RecordHasDirectory
<1>2. ASSUME NEW d \in Callers \ {c}
      PROVE  (Asks(d) /\ Data(d) /\ OnTheWay(d) /\ Present(d))'
  <2>1. /\ call'[d] = call[d] /\ pc'[d] = pc[d] /\ late'[d] = late[d]
        /\ Asks(d) /\ Data(d) /\ OnTheWay(d) /\ Present(d)
    BY <1>2
  <2>2. Asks(d)' /\ Data(d)'
    BY <2>1 DEF Asks, Data
  <2>3. OnTheWay(d)'
    BY <2>1 DEF OnTheWay
  <2>4. Present(d)'
    BY <1>2, <2>1 DEF Present, Asks
  <2> QED
    BY <2>2, <2>3, <2>4
<1> QED
  BY <1>1, <1>2

LEMMA BeginStep ==
  ASSUME ClientInv, NEW c \in Callers,
         NEW op \in {"create", "update", "delete", "read"}, NEW v,
         op \in {"create", "update"} => v \in Values,
         op \in {"delete", "read"} => v = Nothing,
         Begin(c, op, v)
  PROVE  ClientInv'
<1> USE DEF ClientInv, Begin, Goto, connection
<1>0. /\ First(op) \in {"dir", "create", "exists", "put", "delete", "get"}
      /\ op = "read" <=> First(op) = "get"
      /\ op = "delete" <=> First(op) = "delete"
      /\ First(op) = "put" => kind = "etcd" /\ op = "update"
      /\ First(op) = "create" => kind = "etcd"
      /\ First(op) \in {"dir", "create"} => op = "create"
      /\ First(op) \in {"exists", "put"} => op = "update"
  BY DEF First, TypeOK
<1>1. /\ Call(op, v) \in Calls
      /\ Call(op, v).op = op /\ Call(op, v).data = v /\ Call(op, v).phase = "open"
  BY DEF Call, Calls, Writes
<1>2. TypeOK'
  <2>1. call' \in [Callers -> Calls]
    BY <1>1 DEF TypeOK
  <2>2. pc' \in [Callers -> Requests \cup {"idle", "ok", "refused", "lost"}]
    <3>1. First(op) \in Requests
      BY <1>0 DEF Requests, WriteRequests
    <3> QED
      BY <3>1 DEF TypeOK
  <2> QED
    BY <2>1, <2>2 DEF TypeOK
<1>3. pc'[c] = First(op) /\ call'[c] = Call(op, v)
  BY DEF TypeOK
<1>4. \A d \in Callers \ {c} : call'[d] = call[d] /\ pc'[d] = pc[d]
  BY DEF TypeOK
<1>5. Asks(c)'
  BY <1>0, <1>1, <1>3 DEF Asks
<1>6. Data(c)'
  BY <1>0, <1>1, <1>3 DEF Data
<1>7. OnTheWay(c)'
  BY DEF OnTheWay
<1>8. Present(c)'
  BY <1>0, <1>3 DEF Present
<1>9. kind = "zookeeper" /\ pc'[c] \in {"create", "set"} => dir'
  BY <1>0, <1>3 DEF TypeOK
<1> QED
  BY <1>2, <1>4, <1>5, <1>6, <1>7, <1>8, <1>9, StepOfOne DEF HasDirectory

LEMMA Writing ==
  ASSUME TypeOK, NEW r, Write(r)
  PROVE  /\ rec' = r
         /\ gone' \in [Callers -> BOOLEAN]
         /\ \A d \in Callers :
              /\ gone[d] => gone'[d]
              /\ call[d].op = "update" /\ rec # Nothing /\ rec' = Nothing => gone'[d]
<1>1. \A d \in Callers :
        (gone[d] \/ (call[d].op = "update" /\ rec # Nothing /\ r = Nothing)) \in BOOLEAN
  OBVIOUS
<1> QED
  BY <1>1 DEF Write, TypeOK

LEMMA Taking ==
  ASSUME TypeOK, NEW c \in Callers, NEW phase \in {"took", "lost"},
         NEW saw \in Values \cup {Nothing},
         \/ UNCHANGED call /\ phase = call[c].phase
         \/ call' = [call EXCEPT ![c].phase = phase]
         \/ call' = [call EXCEPT ![c].phase = phase, ![c].saw = saw]
  PROVE  /\ call' \in [Callers -> Calls]
         /\ call'[c].op = call[c].op /\ call'[c].data = call[c].data
         /\ call'[c].phase = phase
         /\ \A d \in Callers \ {c} : call'[d] = call[d]
<1>1. call \in [Callers -> Calls]
  BY DEF TypeOK
<1>2. CASE UNCHANGED call /\ phase = call[c].phase
  BY <1>1, <1>2
<1>3. CASE call' = [call EXCEPT ![c].phase = phase]
  BY <1>1, <1>3 DEF Calls
<1>4. CASE call' = [call EXCEPT ![c].phase = phase, ![c].saw = saw]
  BY <1>1, <1>4 DEF Calls
<1> QED
  BY <1>2, <1>3, <1>4

(* A request is answered or lost: the call stays what it was, except for   *)
(* its phase.                                                              *)
LEMMA RequestStep ==
  ASSUME ClientInv, NEW c \in Callers,
         NEW step \in Requests \cup {"ok", "refused", "lost"}, Goto(c, step),
         UNCHANGED <<kind, connection>>, late' = late, slips' \in 0..MaxSlips,
         dir => dir', dir' \in BOOLEAN,
         call' \in [Callers -> Calls],
         call'[c].op = call[c].op, call'[c].data = call[c].data,
         \A d \in Callers \ {c} : call'[d] = call[d],
         \/ UNCHANGED <<rec, gone>>
         \/ \E r \in Values \cup {Nothing} : Write(r),
         pc'[c] = step => Asks(c)' /\ Present(c)',
         kind = "zookeeper" /\ rec' # Nothing => dir',
         kind = "zookeeper" /\ step \in {"create", "set"} => dir'
  PROVE  ClientInv'
<1> USE DEF ClientInv
<1>1. /\ rec' \in Values \cup {Nothing}
      /\ gone' \in [Callers -> BOOLEAN]
      /\ \A d \in Callers :
           /\ gone[d] => gone'[d]
           /\ call[d].op = "update" /\ rec # Nothing /\ rec' = Nothing => gone'[d]
  <2>1. CASE UNCHANGED <<rec, gone>>
    BY <2>1 DEF TypeOK
  <2>2. CASE \E r \in Values \cup {Nothing} : Write(r)
    BY <2>2, Writing
  <2> QED
    BY <2>1, <2>2
<1>2. /\ pc' \in [Callers -> Requests \cup {"idle", "ok", "refused", "lost"}]
      /\ pc'[c] = step
      /\ \A d \in Callers \ {c} : pc'[d] = pc[d]
  BY DEF TypeOK, Goto
<1>3. TypeOK'
  BY <1>1, <1>2 DEF TypeOK, connection
<1>4. Data(c)' /\ OnTheWay(c)'
  BY DEF Data, OnTheWay
<1> QED
  BY <1>1, <1>2, <1>3, <1>4, StepOfOne

(* The requests that write nothing but the directory.                      *)
LEMMA QuietRequest ==
  ASSUME ClientInv, NEW c \in Callers,
         mkdirExists(c) \/ mkdirCreate(c) \/ updateExists(c) \/ Denied(c)
  PROVE  ClientInv'
<1> USE DEF ClientInv, At
<1>1. /\ Asks(c) /\ Present(c) /\ HasDirectory
      /\ call \in [Callers -> Calls] /\ slips \in 0..MaxSlips /\ dir \in BOOLEAN
      /\ pc \in [Callers -> Requests \cup {"idle", "ok", "refused", "lost"}]
  BY DEF TypeOK
<1>2. CASE mkdirExists(c)
  <2> DEFINE step == IF dir THEN "create" ELSE "mkdir"
  <2>1. step \in Requests /\ Goto(c, step)
    BY <1>2 DEF mkdirExists, Requests, WriteRequests
  <2>2. pc'[c] = step => Asks(c)' /\ Present(c)'
    BY <1>1, <1>2 DEF mkdirExists, Asks, Present
  <2> HIDE DEF step
  <2>3. kind = "zookeeper" /\ step \in {"create", "set"} => dir'
    BY <1>2 DEF mkdirExists, step
  <2> QED
    BY <1>1, <1>2, <2>1, <2>2, <2>3, RequestStep DEF mkdirExists, HasDirectory
<1>3. CASE mkdirCreate(c)
  <2>1. "create" \in Requests /\ Goto(c, "create") /\ dir'
    BY <1>3 DEF mkdirCreate, Requests, WriteRequests
  <2>2. pc'[c] = "create" => Asks(c)' /\ Present(c)'
    BY <1>1, <1>3 DEF mkdirCreate, Asks, Present
  <2> QED
    BY <1>1, <1>3, <2>1, <2>2, RequestStep DEF mkdirCreate
<1>4. CASE updateExists(c)
  <2> DEFINE step == IF rec # Nothing THEN "set" ELSE "dir"
  <2>1. step \in Requests /\ Goto(c, step)
    BY <1>4 DEF updateExists, Requests, WriteRequests
  <2>2. pc'[c] = step => Asks(c)' /\ Present(c)'
    BY <1>1, <1>4 DEF updateExists, Asks, Present
  <2> HIDE DEF step
  <2>3. kind = "zookeeper" /\ step \in {"create", "set"} => dir'
    BY <1>1, <1>4 DEF updateExists, HasDirectory, step
  <2> QED
    BY <1>1, <1>4, <2>1, <2>2, <2>3, RequestStep DEF updateExists, HasDirectory
<1>5. CASE Denied(c)
  <2>1. pc[c] # "idle"
    BY <1>5 DEF Denied, Requests, WriteRequests
  <2>2. pc'[c] = "lost" => Asks(c)' /\ Present(c)'
    BY <1>1, <1>5, <2>1 DEF Denied, Asks, Present
  <2> QED
    BY <1>1, <1>5, <2>2, RequestStep DEF Denied, HasDirectory
<1> QED
  BY <1>2, <1>3, <1>4, <1>5

(* A write that is carried out, and where its call goes next.              *)
LEMMA WriteStep ==
  ASSUME ClientInv, NEW c \in Callers, pc[c] \in WriteRequests,
         Write(call[c].data), Took(c), UNCHANGED <<kind, dir, connection, late>>,
         slips' \in 0..MaxSlips,
         NEW step \in {"ok", "set", "lost"}, Goto(c, step),
         step = "set" => pc[c] = "create" /\ call[c].op # "create"
  PROVE  ClientInv'
<1> USE DEF ClientInv
<1>1. /\ Asks(c) /\ Data(c) /\ Present(c) /\ HasDirectory /\ TypeOK
      /\ call[c] \in Calls
  BY DEF TypeOK
<1>2. /\ call' \in [Callers -> Calls]
      /\ call'[c].op = call[c].op /\ call'[c].data = call[c].data
      /\ call'[c].phase = "took"
      /\ \A d \in Callers \ {c} : call'[d] = call[d]
  BY Taking DEF Took
<1>3. /\ rec' = call[c].data
      /\ call[c].data \in Values \cup {Nothing}
  BY <1>1, Writing DEF Calls
<1>4. rec' # Nothing \/ pc[c] = "delete"
  BY <1>1, <1>3, CoordAssumption DEF Asks, Data, WriteRequests
<1>5. kind = "zookeeper" /\ rec' # Nothing => dir'
  <2>1. pc[c] = "delete" => rec' = Nothing
    BY <1>1, <1>3 DEF Asks, Data
  <2>2. pc[c] = "put" => kind = "etcd"
    BY <1>1 DEF Asks
  <2>3. pc[c] \in {"create", "set"} /\ kind = "zookeeper" => dir
    BY <1>1 DEF HasDirectory, RecordHasDirectory
  <2> QED
    BY <2>1, <2>2, <2>3 DEF WriteRequests
<1>6. kind = "zookeeper" /\ step \in {"create", "set"} => dir'
  BY <1>1 DEF HasDirectory, RecordHasDirectory
<1>7. pc'[c] = step => Asks(c)' /\ Present(c)'
  <2>1. pc'[c] = step => Asks(c)'
    BY <1>1, <1>2 DEF Asks, WriteRequests
  <2>2. pc'[c] = step => Present(c)'
    BY <1>2, <1>4 DEF Present
  <2> QED
    BY <2>1, <2>2
<1>8. step \in Requests \cup {"ok", "refused", "lost"}
  BY DEF Requests, WriteRequests
<1>9. dir' \in BOOLEAN /\ \E r \in Values \cup {Nothing} : Write(r)
  BY <1>1, <1>3 DEF TypeOK
<1> QED
  BY <1>2, <1>5, <1>6, <1>7, <1>8, <1>9, RequestStep

(* A call that has nothing to write, or is refused.                        *)
LEMMA IdleStep ==
  ASSUME ClientInv, NEW c \in Callers, pc[c] \in Requests,
         UNCHANGED <<kind, rec, dir, call, connection, late, gone>>,
         slips' \in 0..MaxSlips,
         NEW step \in {"set", "refused", "lost"}, Goto(c, step),
         step = "set" => /\ pc[c] = "create" /\ call[c].op # "create"
                         /\ rec # Nothing,
         step = "refused" /\ call[c].op = "update" => gone[c]
  PROVE  ClientInv'
<1> USE DEF ClientInv
<1>1. /\ Asks(c) /\ HasDirectory /\ dir \in BOOLEAN /\ call \in [Callers -> Calls]
      /\ pc[c] # "idle"
  BY DEF TypeOK, Requests, WriteRequests
<1>2. pc'[c] = step => Asks(c)' /\ Present(c)'
  BY <1>1 DEF Asks, Present
<1>3. step \in Requests \cup {"ok", "refused", "lost"}
  BY DEF Requests, WriteRequests
<1>4. kind = "zookeeper" /\ step \in {"create", "set"} => dir'
  BY <1>1 DEF HasDirectory, RecordHasDirectory
<1> QED
  BY <1>1, <1>2, <1>3, <1>4, RequestStep DEF HasDirectory

LEMMA WriteRequest ==
  ASSUME ClientInv, NEW c \in Callers,
         create(c) \/ updateSet(c) \/ etcdUpdate(c) \/ Delete(c)
  PROVE  ClientInv'
<1> USE DEF At
<1>1. /\ Asks(c) /\ Present(c) /\ slips' \in 0..MaxSlips
      /\ UNCHANGED <<kind, dir, connection, late>>
  BY DEF ClientInv, TypeOK, create, updateSet, etcdUpdate, Delete
<1>2. CASE create(c)
  <2> DEFINE op == call[c].op
  <2>1. pc[c] = "create" /\ pc[c] \in WriteRequests /\ pc[c] \in Requests
    BY <1>2 DEF create, WriteRequests, Requests
  <2>2. CASE rec = Nothing /\ op = "create"
    BY <1>1, <1>2, <2>1, <2>2, WriteStep DEF create, Accepts
  <2>3. CASE rec = Nothing /\ op # "create"
    BY <1>1, <1>2, <2>1, <2>3, WriteStep DEF create, Accepts
  <2>4. CASE rec # Nothing /\ op = "create"
    BY <1>1, <1>2, <2>1, <2>4, IdleStep DEF create, Accepts
  <2>5. CASE rec # Nothing /\ op # "create"
    BY <1>1, <1>2, <2>1, <2>5, IdleStep DEF create, Accepts
  <2> QED
    BY <2>2, <2>3, <2>4, <2>5
<1>3. CASE updateSet(c)
  <2>1. pc[c] = "set" /\ pc[c] \in WriteRequests /\ pc[c] \in Requests
    BY <1>3 DEF updateSet, WriteRequests, Requests
  <2>2. CASE rec # Nothing
    BY <1>1, <1>3, <2>1, <2>2, WriteStep DEF updateSet, Accepts
  <2>3. CASE rec = Nothing
    <3>1. gone[c]
      BY <1>1, <2>1, <2>3 DEF Present
    <3> QED
      BY <1>1, <1>3, <2>1, <2>3, <3>1, IdleStep DEF updateSet, Accepts
  <2> QED
    BY <2>2, <2>3
<1>4. CASE etcdUpdate(c)
  <2>1. pc[c] \in WriteRequests
    BY <1>4 DEF etcdUpdate, WriteRequests
  <2> QED
    BY <1>1, <1>4, <2>1, WriteStep DEF etcdUpdate
<1>5. CASE Delete(c)
  <2>1. pc[c] \in WriteRequests
    BY <1>5 DEF Delete, WriteRequests
  <2> QED
    BY <1>1, <1>5, <2>1, WriteStep DEF Delete
<1> QED
  BY <1>2, <1>3, <1>4, <1>5

LEMMA ReadStep ==
  ASSUME ClientInv, NEW c \in Callers, Read(c)
  PROVE  ClientInv'
<1> USE DEF ClientInv, Read, At
<1>1. /\ Asks(c) /\ HasDirectory /\ TypeOK
      /\ rec \in Values \cup {Nothing} /\ dir \in BOOLEAN /\ slips \in 0..MaxSlips
  BY DEF TypeOK
<1>2. /\ call' \in [Callers -> Calls]
      /\ call'[c].op = call[c].op /\ call'[c].data = call[c].data
      /\ call'[c].phase = "took"
      /\ \A d \in Callers \ {c} : call'[d] = call[d]
  BY <1>1, Taking
<1>3. PICK step \in {"ok", "refused"} : Goto(c, step)
  OBVIOUS
<1>4. pc'[c] = step => Asks(c)' /\ Present(c)'
  BY <1>1, <1>2 DEF Asks, Present
<1> QED
  BY <1>1, <1>2, <1>3, <1>4, RequestStep DEF HasDirectory

(* A call returns.                                                         *)
LEMMA ReturnStep ==
  ASSUME ClientInv, NEW c \in Callers, Answer(c) \/ shell(c)
  PROVE  ClientInv'
<1> USE DEF ClientInv
<1> DEFINE back == IF pc[c] = "ok" THEN Return("ok", call[c].saw)
                                   ELSE Return("error", Nothing)
<1>1. /\ call' = [call EXCEPT ![c] = back] /\ Goto(c, "idle")
      /\ gone' = [gone EXCEPT ![c] = FALSE]
      /\ UNCHANGED <<kind, rec, dir, late, slips>>
  BY DEF Answer, shell
<1>2. /\ back \in Calls /\ back.op = "none"
  BY DEF TypeOK, Calls, Return
<1> HIDE DEF back
<1>3. /\ authed' \in [Callers -> BOOLEAN] /\ young' \in [Callers -> BOOLEAN]
      /\ denials' \in 0..MaxDenials
  <2>1. CASE UNCHANGED connection
    BY <2>1 DEF connection, TypeOK
  <2>2. CASE young' = [young EXCEPT ![c] = TRUE] /\ shell(c)
    <3>1. young' \in [Callers -> BOOLEAN]
      BY <2>2 DEF TypeOK
    <3>2. CASE authed' = [authed EXCEPT ![c] = TRUE] /\ UNCHANGED denials
      BY <3>1, <3>2 DEF TypeOK
    <3>3. CASE /\ denials < MaxDenials /\ denials' = denials + 1
               /\ authed' = [authed EXCEPT ![c] = FALSE]
      <4>1. denials' \in 0..MaxDenials
        BY <3>3, CoordAssumption DEF TypeOK
      <4>2. authed' \in [Callers -> BOOLEAN]
        BY <3>3 DEF TypeOK
      <4> QED
        BY <3>1, <4>1, <4>2
    <3>4. CASE UNCHANGED connection
      BY <3>1, <3>4 DEF connection, TypeOK
    <3> QED
      BY <2>2, <3>2, <3>3, <3>4 DEF shell
  <2> QED
    BY <2>1, <2>2 DEF Answer, shell
<1>4. /\ call' \in [Callers -> Calls] /\ call'[c] = back
      /\ \A d \in Callers \ {c} : call'[d] = call[d]
  BY <1>1, <1>2 DEF TypeOK
<1>5. /\ pc' \in [Callers -> Requests \cup {"idle", "ok", "refused", "lost"}]
      /\ pc'[c] = "idle"
      /\ \A d \in Callers \ {c} : pc'[d] = pc[d]
  BY <1>1 DEF TypeOK, Goto
<1>6. /\ gone' \in [Callers -> BOOLEAN]
      /\ \A d \in Callers \ {c} : gone'[d] = gone[d]
  BY <1>1 DEF TypeOK
<1>7. TypeOK'
  BY <1>1, <1>3, <1>4, <1>5, <1>6 DEF TypeOK
<1>8. (Asks(c) /\ Data(c) /\ OnTheWay(c) /\ Present(c))'
  BY <1>1, <1>2, <1>4, <1>5 DEF Asks, Data, OnTheWay, Present
<1> QED
  BY <1>1, <1>4, <1>5, <1>6, <1>7, <1>8, StepOfOne DEF HasDirectory

(* The write is left on its way.                                           *)
LEMMA DeferStep ==
  ASSUME ClientInv, NEW c \in Callers, pc[c] \in WriteRequests,
         late' = [late EXCEPT ![c] = Late(call[c].op, call[c].data, pc[c])],
         call' = [call EXCEPT ![c].phase = "lost"], Goto(c, "lost"),
         UNCHANGED <<kind, rec, dir, connection, gone>>, slips' \in 0..MaxSlips
  PROVE  ClientInv'
<1> USE DEF ClientInv
<1> DEFINE lt == Late(call[c].op, call[c].data, pc[c])
<1>1. /\ Asks(c) /\ Data(c) /\ HasDirectory /\ TypeOK /\ call[c] \in Calls
      /\ Nothing \in Values \cup {Nothing}
  BY DEF TypeOK
<1>2. /\ call' \in [Callers -> Calls]
      /\ call'[c].op = call[c].op /\ call'[c].data = call[c].data
      /\ \A d \in Callers \ {c} : call'[d] = call[d]
  BY <1>1, Taking
<1>3. /\ lt \in [op : Writes, data : Values \cup {Nothing}, request : WriteRequests]
      /\ lt.op = call[c].op /\ lt.data = call[c].data /\ lt.request = pc[c]
  BY <1>1 DEF Late, Asks, Calls, WriteRequests, Writes
<1> HIDE DEF lt
<1>4. /\ late' \in [Callers -> [op : Writes, data : Values \cup {Nothing},
                              request : WriteRequests] \cup {NoLate}]
      /\ late'[c] = lt
      /\ \A d \in Callers \ {c} : late'[d] = late[d]
  BY <1>3 DEF TypeOK, lt
<1>5. /\ pc' \in [Callers -> Requests \cup {"idle", "ok", "refused", "lost"}]
      /\ pc'[c] = "lost"
      /\ \A d \in Callers \ {c} : pc'[d] = pc[d]
  BY DEF TypeOK, Goto
<1>6. TypeOK'
  BY <1>2, <1>4, <1>5 DEF TypeOK, connection
<1>7. Asks(c)' /\ Data(c)' /\ Present(c)'
  BY <1>1, <1>2, <1>5 DEF Asks, Data, Present, WriteRequests
<1>8. OnTheWay(c)'
  <2>1. lt.op = "create" => lt.request = "create"
    BY <1>1, <1>3 DEF Asks, WriteRequests
  <2>2. lt.request = "delete" => lt.data = Nothing
    BY <1>1, <1>3 DEF Asks, Data
  <2>3. lt.request = "put" => kind = "etcd"
    BY <1>1, <1>3 DEF Asks
  <2>4. kind = "zookeeper" /\ lt.request \in {"create", "set"} => dir
    BY <1>1, <1>3 DEF HasDirectory, RecordHasDirectory
  <2> QED
    BY <1>4, <2>1, <2>2, <2>3, <2>4 DEF OnTheWay
<1> QED
  BY <1>1, <1>2, <1>4, <1>5, <1>6, <1>7, <1>8, StepOfOne DEF HasDirectory

LEMMA LoseStep ==
  ASSUME ClientInv, NEW c \in Callers, Lose(c)
  PROVE  ClientInv'
<1>1. /\ pc[c] \in Requests /\ Goto(c, "lost") /\ UNCHANGED <<kind, connection>>
      /\ slips' \in 0..MaxSlips
  BY CoordAssumption DEF Lose, ClientInv, TypeOK
<1>2. CASE UNCHANGED <<rec, dir, call, late, gone>>
  BY <1>1, <1>2, IdleStep
<1>3. CASE dir' = TRUE /\ UNCHANGED <<rec, call, late, gone>>
  <2>1. pc'[c] = "lost" => Asks(c)' /\ Present(c)'
    BY <1>1, <1>3 DEF ClientInv, Asks, Present, Requests, WriteRequests
  <2> QED
    BY <1>1, <1>3, <2>1, RequestStep DEF ClientInv, TypeOK
<1>4. CASE /\ pc[c] \in WriteRequests /\ Write(call[c].data) /\ Took(c)
           /\ UNCHANGED <<dir, late>>
  BY <1>1, <1>4, WriteStep
<1>5. CASE /\ pc[c] \in WriteRequests
           /\ late' = [late EXCEPT ![c] = Late(call[c].op, call[c].data, pc[c])]
           /\ call' = [call EXCEPT ![c].phase = "lost"]
           /\ UNCHANGED <<rec, dir, gone>>
  BY <1>1, <1>5, DeferStep
<1> QED
  BY <1>2, <1>3, <1>4, <1>5 DEF Lose

LEMMA LandStep ==
  ASSUME ClientInv, NEW c \in Callers, Land(c)
  PROVE  ClientInv'
<1> USE DEF ClientInv
<1>1. /\ late' = [late EXCEPT ![c] = NoLate] /\ late[c] # NoLate
      /\ UNCHANGED <<kind, dir, call, pc, connection, slips>>
      /\ TypeOK /\ HasDirectory /\ Asks(c) /\ Data(c) /\ OnTheWay(c) /\ Present(c)
  BY DEF Land
<1>2. /\ late[c].data \in Values \cup {Nothing}
      /\ late[c].request \in WriteRequests
  BY <1>1 DEF TypeOK
<1>3. /\ rec' \in Values \cup {Nothing}
      /\ gone' \in [Callers -> BOOLEAN]
      /\ \A d \in Callers :
           /\ gone[d] => gone'[d]
           /\ call[d].op = "update" /\ rec # Nothing /\ rec' = Nothing => gone'[d]
  <2>1. CASE UNCHANGED <<rec, gone>>
    BY <2>1 DEF TypeOK
  <2>2. CASE Write(late[c].data)
    BY <1>1, <1>2, <2>2, Writing
  <2> QED
    BY <2>1, <2>2 DEF Land
<1>4. kind = "zookeeper" /\ rec' # Nothing => dir'
  <2>1. rec' = rec \/ rec' = late[c].data
    BY DEF Land, Write
  <2>2. kind = "zookeeper" /\ late[c].data # Nothing => dir
    BY <1>1, <1>2 DEF OnTheWay, WriteRequests
  <2> QED
    BY <1>1, <2>1, <2>2 DEF HasDirectory
<1>5. /\ late'[c] = NoLate
      /\ \A d \in Callers \ {c} : late'[d] = late[d]
      /\ late' \in [Callers -> [op : Writes, data : Values \cup {Nothing},
                              request : WriteRequests] \cup {NoLate}]
  BY <1>1 DEF TypeOK
<1>6. TypeOK'
  BY <1>1, <1>3, <1>5 DEF TypeOK, connection
<1>7. Asks(c)' /\ Data(c)' /\ OnTheWay(c)'
  BY <1>1, <1>5 DEF Asks, Data, OnTheWay
<1>8. Present(c)'
  BY <1>1, <1>3 DEF Present, Asks
<1>9. kind = "zookeeper" /\ pc'[c] \in {"create", "set"} => dir'
  BY <1>1 DEF HasDirectory, RecordHasDirectory
<1> QED
  BY <1>1, <1>3, <1>4, <1>5, <1>6, <1>7, <1>8, <1>9, StepOfOne

LEMMA QuietStep ==
  ASSUME ClientInv, UNCHANGED <<kind, rec, dir, call, pc, late, gone>>, TypeOK'
  PROVE  ClientInv'
BY DEF ClientInv, HasDirectory, RecordHasDirectory, Asks, Data, OnTheWay, Present

LEMMA ClientStep == ClientInv /\ [Next]_vars => ClientInv'
<1> SUFFICES ASSUME ClientInv, [Next]_vars PROVE ClientInv'
  OBVIOUS
<1>1. CASE UNCHANGED vars
  BY <1>1, QuietStep DEF vars, ClientInv, TypeOK
<1>2. ASSUME NEW c \in Callers,
             \/ \E v \in Values : Begin(c, "create", v) \/ Begin(c, "update", v)
             \/ Begin(c, "delete", Nothing) \/ Begin(c, "read", Nothing)
      PROVE  ClientInv'
  BY <1>2, BeginStep
<1>3. ASSUME NEW c \in Callers, Progress(c)
      PROVE  ClientInv'
  BY <1>3, QuietRequest, WriteRequest, ReadStep, LoseStep, ReturnStep
     DEF Progress, Answered
<1>4. ASSUME NEW c \in Callers, Land(c)
      PROVE  ClientInv'
  BY <1>4, LandStep
<1>5. ASSUME NEW c \in Callers, Second(c)
      PROVE  ClientInv'
  <2>1. young' \in [Callers -> BOOLEAN]
    BY <1>5 DEF Second, ClientInv, TypeOK
  <2>2. TypeOK'
    BY <1>5, <2>1 DEF Second, ClientInv, TypeOK
  <2> QED
    BY <1>5, <2>2, QuietStep DEF Second
<1> QED
  BY <1>1, <1>2, <1>3, <1>4, <1>5 DEF Next

LEMMA ClientAlways == Spec => []ClientInv
<1> QED
  BY ClientInit, ClientStep, PTL DEF Spec

(* Update fails only when the record is removed under it, or a request is  *)
(* lost or denied: zk's update tolerates that another client creates the   *)
(* record between its own test and its own creation.                       *)
THEOREM UpdateRefusedAlways == Spec => []UpdateRefused
<1>1. ClientInv => UpdateRefused
  BY DEF ClientInv, Present, UpdateRefused
<1> QED
  BY <1>1, ClientAlways, PTL

(* ZooKeeper is never asked for a record whose directory is missing: mkdir *)
(* of zk's create comes first, whoever else makes directories and records. *)
THEOREM RecordHasDirectoryAlways == Spec => []RecordHasDirectory
<1>1. ClientInv => RecordHasDirectory
  BY DEF ClientInv, HasDirectory
<1> QED
  BY <1>1, ClientAlways, PTL

-----------------------------------------------------------------------------
(* The clients implement Coordinator.                                      *)

(* The requests on their way, as the promise sees them.                    *)
Seen == [c \in Callers |-> [op |-> late[c].op, data |-> late[c].data]]

LEMMA InitKept == Init => Promise!Init
BY DEF Init, Promise!Init, Promise!Return, Promise!Late, Promise!NoLate,
       Return, Late, NoLate

LEMMA BeginKept ==
  ASSUME ClientInv, NEW c \in Callers, NEW op, NEW v, Begin(c, op, v)
  PROVE  Promise!Begin(c, op, v)
<1>1. call[c].op = "none"
  BY DEF Begin, ClientInv, Asks
<1> QED
  BY <1>1 DEF Begin, Promise!Begin, Promise!Call, Call

(* A write that ZooKeeper or etcd carries out for a call that lasts.       *)
LEMMA TakeKept ==
  ASSUME ClientInv, NEW c \in Callers, pc[c] \in WriteRequests, Accepts(pc[c]),
         Write(call[c].data), Took(c), late' = late
  PROVE  Promise!Take(c)
<1>1. Asks(c)
  BY DEF ClientInv
<1>2. call[c].op \in Writes
  BY <1>1 DEF Asks, WriteRequests, Writes
<1>3. call[c].op = "create" => rec = Nothing /\ call[c].phase = "open"
  BY <1>1 DEF Asks, WriteRequests, Accepts
<1> QED
  BY <1>2, <1>3 DEF Promise!Take, Promise!Writes, Writes, Write, Took

LEMMA RequestKept ==
  ASSUME ClientInv, NEW c \in Callers, Answered(c) \/ Denied(c) \/ Lose(c)
  PROVE  \/ Promise!Take(c) \/ Promise!Look(c) \/ Promise!Defer(c)
         \/ UNCHANGED <<rec, call, late>>
<1>1. CASE mkdirExists(c) \/ mkdirCreate(c) \/ updateExists(c) \/ Denied(c)
  BY <1>1 DEF mkdirExists, mkdirCreate, updateExists, Denied, At
<1>2. CASE create(c)
  BY <1>2, TakeKept DEF create, At, WriteRequests
<1>3. CASE updateSet(c)
  BY <1>3, TakeKept DEF updateSet, At, WriteRequests
<1>4. CASE etcdUpdate(c)
  BY <1>4, TakeKept DEF etcdUpdate, At, WriteRequests, Accepts
<1>5. CASE Delete(c)
  BY <1>5, TakeKept DEF Delete, At, WriteRequests, Accepts
<1>6. CASE Read(c)
  BY <1>6 DEF Read, At, ClientInv, Asks, Promise!Look
<1>7. CASE Lose(c)
  <2>1. CASE UNCHANGED <<rec, call, late>>
    BY <2>1
  <2>2. CASE /\ pc[c] \in WriteRequests /\ Accepts(pc[c])
             /\ Write(call[c].data) /\ Took(c) /\ late' = late
    BY <2>2, TakeKept
  <2>3. CASE /\ pc[c] \in WriteRequests
             /\ late' = [late EXCEPT ![c] = Late(call[c].op, call[c].data, pc[c])]
             /\ call' = [call EXCEPT ![c].phase = "lost"]
             /\ rec' = rec
    <3>1. call[c].op \in Writes
      BY <2>3 DEF ClientInv, Asks, WriteRequests, Writes
    <3>2. Seen' = [Seen EXCEPT ![c] = [op |-> call[c].op, data |-> call[c].data]]
      BY <2>3 DEF Seen, Late, ClientInv, TypeOK
    <3> QED
      BY <2>3, <3>1, <3>2 DEF Seen, Promise!Defer, Promise!Late, Promise!Writes, Writes
  <2> QED
    BY <1>7, <2>1, <2>2, <2>3 DEF Lose
<1> QED
  BY <1>1, <1>2, <1>3, <1>4, <1>5, <1>6, <1>7 DEF Answered

LEMMA LandKept ==
  ASSUME ClientInv, NEW c \in Callers, Land(c)
  PROVE  Promise!Land(c)
<1>1. /\ late[c] \in [op : Writes, data : Values \cup {Nothing}, request : WriteRequests]
      /\ OnTheWay(c) /\ late[c] # NoLate
  BY DEF Land, ClientInv, TypeOK
<1>2. Seen[c] = [op |-> late[c].op, data |-> late[c].data]
  BY DEF Seen
<1>3. Seen[c] # [op |-> "none", data |-> Nothing]
  BY <1>1, <1>2 DEF Writes
<1>4. Seen' = [Seen EXCEPT ![c] = [op |-> "none", data |-> Nothing]]
  BY DEF Land, Seen, NoLate, Late, ClientInv, TypeOK
<1>5. late[c].op = "create" /\ Accepts(late[c].request) => rec = Nothing
  BY <1>1 DEF OnTheWay, Accepts
<1> QED
  BY <1>2, <1>3, <1>4, <1>5
     DEF Land, Write, Seen, Promise!Land, Promise!NoLate, Promise!Late

LEMMA ReturnKept ==
  ASSUME ClientInv, NEW c \in Callers, Answer(c) \/ shell(c)
  PROVE  Promise!Succeed(c) \/ Promise!Fail(c)
<1>1. Asks(c) /\ call[c].op # "none"
  BY DEF Answer, shell, ClientInv, Asks
<1>2. CASE pc[c] = "ok"
  BY <1>1, <1>2 DEF Asks, Answer, shell, Return, Promise!Succeed, Promise!Return
<1>3. CASE pc[c] # "ok"
  BY <1>1, <1>3 DEF Answer, shell, Return, Promise!Fail, Promise!Return
<1> QED
  BY <1>2, <1>3

LEMMA StepKept == ClientInv /\ [Next]_vars => [Promise!Next]_(Promise!vars)
<1> SUFFICES ASSUME ClientInv, [Next]_vars PROVE [Promise!Next]_(Promise!vars)
  OBVIOUS
<1> USE DEF Promise!Next, Promise!vars
<1>1. CASE UNCHANGED vars
  BY <1>1 DEF vars
<1>2. ASSUME NEW c \in Callers,
             \/ \E v \in Values : Begin(c, "create", v) \/ Begin(c, "update", v)
             \/ Begin(c, "delete", Nothing) \/ Begin(c, "read", Nothing)
      PROVE  Promise!Next
  BY <1>2, BeginKept
<1>3. ASSUME NEW c \in Callers, Progress(c)
      PROVE  [Promise!Next]_(Promise!vars)
  BY <1>3, RequestKept, ReturnKept DEF Progress
<1>4. ASSUME NEW c \in Callers, Land(c)
      PROVE  Promise!Next
  BY <1>4, LandKept
<1>5. ASSUME NEW c \in Callers, Second(c)
      PROVE  UNCHANGED Promise!vars
  BY <1>5 DEF Second
<1> QED
  BY <1>1, <1>2, <1>3, <1>4, <1>5 DEF Next

(* The ZooKeeper client, of several requests a call, and the etcd client   *)
(* both implement the record of Coordinator, which is what the mappers     *)
(* were written against.                                                   *)
THEOREM PromiseKept == Spec => KeepsPromise
<1> QED
  BY InitKept, StepKept, ClientAlways, PTL DEF Spec, KeepsPromise, Promise!Spec
=============================================================================
