---------------------------- MODULE Coordinator ----------------------------
(***************************************************************************)
(* What the mappers of src/topom/dao/mapper rely on when they call the     *)
(* coordinator (coordinate.Client): a record that each call reads or       *)
(* writes in single steps between its begin and its end.                   *)
(*                                                                         *)
(*  - A call that succeeds has taken effect, and a read returns what was   *)
(*    there at that moment.                                                *)
(*  - A creation that took effect found no record.                         *)
(*  - A call that fails may have taken effect, or may still do so once     *)
(*    after it has returned.                                               *)
(*  - An update may write its record more than once while it lasts.        *)
(***************************************************************************)
CONSTANTS Callers, Values, Nothing

VARIABLES
  rec,   \* the record
  call,  \* the call each caller is in, or what its last one returned
  late   \* a write of a call that failed, which may still be carried out

vars == <<rec, call, late>>

Writes == {"create", "update", "delete"}

(* The data of a deletion is Nothing.                                      *)
Call(op, data) == [op |-> op, data |-> data, phase |-> "open", saw |-> Nothing]
Return(answer, saw) ==
  [op |-> "none", data |-> Nothing, phase |-> answer, saw |-> saw]
Late(op, data) == [op |-> op, data |-> data]
NoLate == Late("none", Nothing)

Begin(c, op, v) ==
  /\ call[c].op = "none"
  /\ call' = [call EXCEPT ![c] = Call(op, v)]
  /\ UNCHANGED <<rec, late>>

Take(c) ==
  /\ call[c].op \in Writes
  /\ call[c].op = "create" => rec = Nothing /\ call[c].phase = "open"
  /\ rec' = call[c].data
  /\ call' = [call EXCEPT ![c].phase = "took"]
  /\ UNCHANGED late

Look(c) ==
  /\ call[c].op = "read"
  /\ call' = [call EXCEPT ![c].phase = "took", ![c].saw = rec]
  /\ UNCHANGED <<rec, late>>

(* The answer is lost and the write delayed: the call can only fail.       *)
Defer(c) ==
  /\ call[c].op \in Writes
  /\ call' = [call EXCEPT ![c].phase = "lost"]
  /\ late' = [late EXCEPT ![c] = Late(call[c].op, call[c].data)]
  /\ UNCHANGED rec

Land(c) ==
  /\ late[c] # NoLate
  /\ late' = [late EXCEPT ![c] = NoLate]
  /\ \/ UNCHANGED rec
     \/ /\ late[c].op = "create" => rec = Nothing
        /\ rec' = late[c].data
  /\ UNCHANGED call

Succeed(c) ==
  /\ call[c].phase = "took"
  /\ call' = [call EXCEPT ![c] = Return("ok", @.saw)]
  /\ UNCHANGED <<rec, late>>

Fail(c) ==
  /\ call[c].op # "none"
  /\ call' = [call EXCEPT ![c] = Return("error", Nothing)]
  /\ UNCHANGED <<rec, late>>

Init ==
  /\ rec = Nothing
  /\ call = [c \in Callers |-> Return("ok", Nothing)]
  /\ late = [c \in Callers |-> NoLate]

Next ==
  \E c \in Callers :
    \/ \E v \in Values : Begin(c, "create", v) \/ Begin(c, "update", v)
    \/ Begin(c, "delete", Nothing) \/ Begin(c, "read", Nothing)
    \/ Take(c) \/ Look(c) \/ Defer(c) \/ Land(c) \/ Succeed(c) \/ Fail(c)

Spec == Init /\ [][Next]_vars
=============================================================================
