----------------------------- MODULE RedisPool -----------------------------
(***************************************************************************)
(* The pool of connections of src/topom/client/redis/client.go and the     *)
(* goroutines of src/topom/stats.go that use it: every second one for each *)
(* server, which asks the server and fills a record, and one that waits    *)
(* for it, but not for longer than the timeout of the round.  The first is *)
(* not stopped when the second gives up, nor when the service is closed.   *)
(*                                                                         *)
(* One address: the lists of the others are independent of its list.  The  *)
(* pipeline counters of a client stay equal, since pooled clients only Do. *)
(* A closed client that nobody refers to is garbage, and its name is taken *)
(* again for the next one.                                                 *)
(***************************************************************************)
EXTENDS Integers, Sequences

CONSTANTS Clients,  \* clients
          Askers,   \* pairs of goroutines of newRedisStats
          None

ASSUME PoolAssumption == None \notin Clients

VARIABLES
  list,    \* Pool.pool[addr], front first
  closed,  \* Pool.closed
  sweep,   \* Cleanup: turns left of its loop; it holds the mutex unless 0
  open,    \* clients whose connection is open
  old,     \* clients not used for Pool.timeout
  step,    \* the asking goroutine: what it does next
  has,     \* and the client it got
  result   \* the waiting goroutine: "wait", or whose record it returned

vars == <<list, closed, sweep, open, old, step, has, result>>

Steps == {"none", "get", "dial", "info", "more", "put", "fill", "done"}

Idle == {list[i] : i \in DOMAIN list}
Taken == {has[a] : a \in Askers}

isRecyclable(c) == c \in open /\ c \notin old

-----------------------------------------------------------------------------
(* The asking goroutine: do(addr), InfoFull or its like on a sentinel.     *)

(* refreshRedisStats; doStats has ended when the pools are closed.         *)
goStats(a) ==
  /\ step[a] = "none"
  /\ ~closed
  /\ step' = [step EXCEPT ![a] = "get"]
  /\ result' = [result EXCEPT ![a] = "wait"]
  /\ UNCHANGED <<list, closed, sweep, open, old, has>>

(* Mutant of getClientFromCache: the client stays in the list.             *)
getClientNotRemoved(a) ==
  /\ step[a] = "get" /\ sweep = 0 /\ ~closed
  /\ IF list # <<>> /\ isRecyclable(Head(list))
     THEN /\ has' = [has EXCEPT ![a] = Head(list)]
          /\ step' = [step EXCEPT ![a] = "info"]
     ELSE /\ step' = [step EXCEPT ![a] = "dial"]
          /\ UNCHANGED has
  /\ UNCHANGED <<list, closed, sweep, open, old, result>>

(* The first client from the front that can be used; the ones before it    *)
(* are closed.  Afterwards the mutex is free, whatever becomes of the pool *)
(* before the goroutine dials.                                             *)
getClientFromCache(a) ==
  /\ step[a] = "get"
  /\ sweep = 0
  /\ \/ /\ closed
        /\ step' = [step EXCEPT ![a] = "fill"]
        /\ UNCHANGED <<list, open, has>>
     \/ /\ ~closed
        /\ \E i \in DOMAIN list :
             /\ isRecyclable(list[i])
             /\ \A j \in 1..(i-1) : ~isRecyclable(list[j])
             /\ list' = SubSeq(list, i + 1, Len(list))
             /\ open' = open \ {list[j] : j \in 1..(i-1)}
             /\ has' = [has EXCEPT ![a] = list[i]]
             /\ step' = [step EXCEPT ![a] = "info"]
     \/ /\ ~closed
        /\ \A i \in DOMAIN list : ~isRecyclable(list[i])
        /\ list' = <<>>
        /\ open' = open \ Idle
        /\ step' = [step EXCEPT ![a] = "dial"]
        /\ UNCHANGED has
  /\ UNCHANGED <<closed, sweep, old, result>>

(* NewClient, outside of the mutex: the pool may be closed by now.         *)
NewClient(a) ==
  /\ step[a] = "dial"
  /\ \/ \E c \in Clients \ (open \cup Idle \cup Taken) :
          /\ open' = open \cup {c}
          /\ old' = old \ {c}
          /\ has' = [has EXCEPT ![a] = c]
          /\ step' = [step EXCEPT ![a] = "info"]
     \/ /\ step' = [step EXCEPT ![a] = "fill"]
        /\ UNCHANGED <<open, old, has>>
  /\ UNCHANGED <<list, closed, sweep, result>>

(* INFO, then CONFIG GET, or the questions to a sentinel: each is answered, *)
(* or answered by an error of the server, or it fails, which closes the     *)
(* connection.                                                              *)
Do(a) ==
  /\ step[a] \in {"info", "more"}
  /\ \/ /\ old' = old \ {has[a]}
        /\ step' = [step EXCEPT ![a] = IF @ = "info" THEN "more" ELSE "put"]
        /\ UNCHANGED open
     \/ /\ old' = old \ {has[a]}
        /\ step' = [step EXCEPT ![a] = "put"]
        /\ UNCHANGED open
     \/ /\ open' = open \ {has[a]}
        /\ step' = [step EXCEPT ![a] = "put"]
        /\ UNCHANGED old
  /\ UNCHANGED <<list, closed, sweep, has, result>>

(* Mutant of PutClient: closed is not looked at.                           *)
PutClientClosed(a) ==
  /\ step[a] = "put" /\ sweep = 0
  /\ IF isRecyclable(has[a])
     THEN list' = <<has[a]>> \o list /\ UNCHANGED open
     ELSE open' = open \ {has[a]} /\ UNCHANGED list
  /\ has' = [has EXCEPT ![a] = None]
  /\ step' = [step EXCEPT ![a] = "fill"]
  /\ UNCHANGED <<closed, sweep, old, result>>

(* The deferred PutClient.                                                 *)
PutClient(a) ==
  /\ step[a] = "put"
  /\ sweep = 0
  /\ \/ /\ isRecyclable(has[a]) /\ ~closed
        /\ list' = <<has[a]>> \o list
        /\ UNCHANGED open
     \/ /\ ~isRecyclable(has[a]) \/ closed
        /\ open' = open \ {has[a]}
        /\ UNCHANGED list
  /\ has' = [has EXCEPT ![a] = None]
  /\ step' = [step EXCEPT ![a] = "fill"]
  /\ UNCHANGED <<closed, sweep, old, result>>

(* The answer, or the error, is put into the record; close(ch).            *)
Fill(a) ==
  /\ step[a] = "fill"
  /\ step' = [step EXCEPT ![a] = "done"]
  /\ UNCHANGED <<list, closed, sweep, open, old, has, result>>

-----------------------------------------------------------------------------
(* The waiting goroutine, newRedisStats.                                   *)

Answered(a) ==
  /\ result[a] = "wait"
  /\ step[a] = "done"
  /\ result' = [result EXCEPT ![a] = "shared"]
  /\ UNCHANGED <<list, closed, sweep, open, old, step, has>>

(* Mutant of TimedOut: the shared record is marked and returned.           *)
TimedOutShared(a) ==
  /\ result[a] = "wait"
  /\ step[a] # "none"
  /\ result' = [result EXCEPT ![a] = "shared"]
  /\ UNCHANGED <<list, closed, sweep, open, old, step, has>>

TimedOut(a) ==
  /\ result[a] = "wait"
  /\ step[a] # "none"
  /\ result' = [result EXCEPT ![a] = "own"]
  /\ UNCHANGED <<list, closed, sweep, open, old, step, has>>

(* Both goroutines are over and the next round has taken the place of the  *)
(* record.                                                                 *)
Forgotten(a) ==
  /\ step[a] = "done"
  /\ result[a] # "wait"
  /\ step' = [step EXCEPT ![a] = "none"]
  /\ result' = [result EXCEPT ![a] = "own"]
  /\ UNCHANGED <<list, closed, sweep, open, old, has>>

-----------------------------------------------------------------------------
(* The ticker of NewPool, and Close.                                       *)

(* Mutant of Cleanup: one turn too many.                                   *)
CleanupOneMore ==
  /\ sweep = 0
  /\ ~closed
  /\ sweep' = Len(list) + 1
  /\ UNCHANGED <<list, closed, open, old, step, has, result>>

Cleanup ==
  /\ sweep = 0
  /\ ~closed
  /\ sweep' = Len(list)
  /\ UNCHANGED <<list, closed, open, old, step, has, result>>

(* Mutant of CleanupTurn: a client that can be used goes back to the front. *)
CleanupTurnFront ==
  /\ sweep > 0
  /\ sweep' = sweep - 1
  /\ IF isRecyclable(Head(list))
     THEN UNCHANGED <<list, open>>
     ELSE list' = Tail(list) /\ open' = open \ {Head(list)}
  /\ UNCHANGED <<closed, old, step, has, result>>

CleanupTurn ==
  /\ sweep > 0
  /\ sweep' = sweep - 1
  /\ IF isRecyclable(Head(list))
     THEN list' = Append(Tail(list), Head(list)) /\ UNCHANGED open
     ELSE list' = Tail(list) /\ open' = open \ {Head(list)}
  /\ UNCHANGED <<closed, old, step, has, result>>

Close ==
  /\ sweep = 0
  /\ ~closed
  /\ closed' = TRUE
  /\ open' = open \ Idle
  /\ list' = <<>>
  /\ UNCHANGED <<sweep, old, step, has, result>>

(* Pool.timeout passes since the client's LastUse.                         *)
Expire(c) ==
  /\ c \in open \ old
  /\ old' = old \cup {c}
  /\ UNCHANGED <<list, closed, sweep, open, step, has, result>>

-----------------------------------------------------------------------------
Init ==
  /\ list = <<>>
  /\ closed = FALSE
  /\ sweep = 0
  /\ open = {}
  /\ old = {}
  /\ step = [a \in Askers |-> "none"]
  /\ has = [a \in Askers |-> None]
  /\ result = [a \in Askers |-> "own"]

Ask(a) ==
  \/ getClientFromCache(a) \/ NewClient(a) \/ Do(a) \/ PutClient(a)
  \/ Fill(a)

Wait(a) == Answered(a) \/ TimedOut(a) \/ Forgotten(a)

Next ==
  \/ \E a \in Askers : goStats(a) \/ Ask(a) \/ Wait(a)
  \/ Cleanup \/ CleanupTurn \/ Close
  \/ \E c \in Clients : Expire(c)

Spec == Init /\ [][Next]_vars

(* The ticker ticks, Go's mutexes do not starve, dials and commands have   *)
(* timeouts.                                                               *)
FairSpec ==
  /\ Spec
  /\ \A a \in Askers : SF_vars(Ask(a)) /\ WF_vars(Wait(a))
  /\ SF_vars(Cleanup)
  /\ WF_vars(CleanupTurn)

-----------------------------------------------------------------------------
(* Properties.                                                             *)

TypeOK ==
  /\ list \in Seq(Clients)
  /\ closed \in BOOLEAN
  /\ sweep \in 0..Len(list)
  /\ open \subseteq Clients
  /\ old \subseteq Clients
  /\ step \in [Askers -> Steps]
  /\ has \in [Askers -> Clients \cup {None}]
  /\ result \in [Askers -> {"wait", "own", "shared"}]

(* No two goroutines ever talk on one connection: a client is once in the  *)
(* list, or with one goroutine, and a goroutine that asks has one.         *)
OnePlace ==
  /\ \A i, j \in DOMAIN list : list[i] = list[j] => i = j
  /\ \A a \in Askers : has[a] \notin Idle
  /\ \A a, b \in Askers : has[a] = has[b] /\ has[a] # None => a = b
  /\ \A a \in Askers : has[a] # None <=> step[a] \in {"info", "more", "put"}

(* No connection is left open behind everyone's back: it is with a         *)
(* goroutine that will put it back, or in the list of a pool that is not   *)
(* closed.  Close and a late PutClient, or a late dial, may come in any    *)
(* order.                                                                  *)
NoLeak ==
  /\ open \subseteq Taken \cup Idle
  /\ closed => list = <<>>

(* A record that newRedisStats has returned, which the page and the        *)
(* balancers read, is not written any more: a goroutine that was given up  *)
(* fills a record of its own.                                              *)
RecordsFrozen ==
  \A a \in Askers : result[a] = "shared" => step[a] = "done"

(* An idle connection that has not been used for a while is closed, also   *)
(* when newer ones before it in the list are used again and again.         *)
OldOnesClosed ==
  \A c \in Clients : c \in Idle \cap old ~> c \notin open
=============================================================================
