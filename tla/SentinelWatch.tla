--------------------------- MODULE SentinelWatch ---------------------------
(***************************************************************************)
(* One watcher of the sentinels: the two goroutines of reWatchSentinels in *)
(* src/topom/sentinel.go with Subscribe and Masters of                     *)
(* src/topom/client/redis/sentinel.go.                                     *)
(*                                                                         *)
(* The first goroutine subscribes to +switch-master on every sentinel and  *)
(* fills a channel of one place, trigger, when a majority is subscribed    *)
(* and when an event came.  The second one empties it and asks the         *)
(* sentinels for the masters until it was answered twice, at most Tries    *)
(* times.  An event that comes between two subscriptions is missed; what   *)
(* makes up for it is that every subscription is followed by questions.    *)
(*                                                                         *)
(* The watcher keeps the slice of sentinels it was started with.           *)
(* DelSentinel shifts, and AddSentinel extends, the same array under it:   *)
(* a sentinel may be asked twice or although it was deleted, until         *)
(* ResyncSentinels replaces the watcher.                                   *)
(*                                                                         *)
(* One group is enough: answers of different groups do not meet.  The      *)
(* group's master is identified with its configuration epoch, which        *)
(* sentinels raise by one at a failover.                                   *)
(***************************************************************************)
EXTENDS Integers, Sequences, FiniteSets, FiniteSetsExt

CONSTANTS Sentinels,   \* the processes
          Servers,     \* those the watcher was started with, in their order
          Tries,       \* calls of Masters per trigger
          MaxEpoch,    \* bound: failovers
          MaxFaults,   \* bound: connections and rounds of questions that fail
          MaxDeleted   \* bound: sentinels deleted

ASSUME WatchAssumption ==
  /\ Servers \in Seq(Sentinels) /\ Servers # <<>>
  /\ Tries \in Nat \ {0}
  /\ MaxEpoch \in Nat /\ MaxFaults \in Nat /\ MaxDeleted \in Nat

VARIABLES
  epoch,       \* sentinels: the epoch of the master each knows, -1 for none
  servers,     \* the array behind the watcher's slice
  listed,      \* how much of it the record of the sentinels still lists
  canceled,    \* the watcher's context is done
  sub,         \* subscribing goroutine: the step it is at
  link,        \* Subscribe: where each of its goroutines is
  subTo,       \* the sentinels they were started for
  news,        \* those with a +switch-master that was not read yet
  subscribed,  \* Subscribe: its counter
  late,        \* a goroutine of an ended Subscribe may call back
  trigger,     \* the channel holds an element
  closed,      \* the channel is closed
  fetch,       \* fetching goroutine: the step it is at
  tries, success,    \* its counters
  asked, voted,      \* Masters: goroutines still out, answers
  askTo,             \* the sentinels they were started for
  best,              \* Masters: the highest epoch answered
  applied,     \* service: the epoch of the group's master
  owed,        \* history: an event was read and no Masters call began since
  faults,      \* failures so far
  deleted      \* sentinels deleted so far

record == <<servers, listed, deleted>>
subVars == <<sub, link, subTo, subscribed, late>>
fetchVars == <<fetch, tries, success, asked, voted, askTo, best>>
vars == <<epoch, record, canceled, subVars, news, trigger, closed, fetchVars,
          applied, owed, faults>>

(* The places of the watcher's slice.                                      *)
Slots == 1..Len(Servers)

Majority == 1 + Len(Servers) \div 2

Linked(step) == {i \in Slots : link[i] = step}

Newest == Max({epoch[s] : s \in Sentinels} \cup {-1})

-----------------------------------------------------------------------------
(* The subscribing goroutine.                                              *)

(* Mutant of callback: the channel has no place, so that a send succeeds   *)
(* only when the other goroutine waits for it.                             *)
callbackUnbuffered == trigger' = (trigger \/ fetch = "wait")

(* A send that is given up when the channel is full.                       *)
callback == trigger' = TRUE

(* Subscribe opens one connection for each place of the slice.             *)
Subscribe ==
  /\ sub = "loop"
  /\ ~canceled
  /\ sub' = "subscribe"
  /\ link' = [i \in Slots |-> "connecting"]
  /\ subTo' = SubSeq(servers, 1, Len(Servers))
  /\ UNCHANGED <<epoch, record, canceled, subscribed, late, news, trigger,
                 closed, fetchVars, applied, owed, faults>>

(* The sentinel confirmed the subscription.                                *)
onSubscribed(i) ==
  /\ link[i] = "connecting"
  /\ link' = [link EXCEPT ![i] = "listening"]
  /\ subscribed' = subscribed + 1
  /\ IF subscribed' = Majority THEN callback ELSE UNCHANGED trigger
  /\ UNCHANGED <<epoch, record, canceled, sub, subTo, late, news, closed,
                 fetchVars, applied, owed, faults>>

(* +switch-master of this product ends subscribeCommand.                   *)
subscribeCommandReturn(i) ==
  /\ link[i] = "listening"
  /\ i \in news
  /\ link' = [link EXCEPT ![i] = "notified"]
  /\ news' = news \ {i}
  /\ owed' = TRUE
  /\ UNCHANGED <<epoch, record, canceled, sub, subTo, subscribed, late,
                 trigger, closed, fetchVars, applied, faults>>

(* The connection fails or its answer is not understood.                   *)
subscribeFail(i) ==
  /\ link[i] \in {"connecting", "listening"}
  /\ faults < MaxFaults
  /\ faults' = faults + 1
  /\ link' = [link EXCEPT ![i] = "failed"]
  /\ news' = news \ {i}
  /\ UNCHANGED <<epoch, record, canceled, sub, subTo, subscribed, late,
                 trigger, closed, fetchVars, applied, owed>>

(* Mutant of SubscribeEnds: the counter outlives the call.                 *)
SubscribeEndsKeepsCount ==
  /\ link' = [i \in Slots |-> "off"]
  /\ subTo' = <<>>
  /\ news' = {}
  /\ UNCHANGED <<epoch, record, canceled, subscribed, late, trigger, closed,
                 fetchVars, applied, owed>>

(* The end of Subscribe closes its connections.  A goroutine that was just *)
(* confirmed, or will be before it finds its connection closed, still      *)
(* counts itself and may complete the majority.                            *)
SubscribeEnds ==
  /\ late' = \/ late
             \/ /\ subscribed < Majority
                /\ subscribed + Cardinality(Linked("connecting")) >= Majority
  /\ link' = [i \in Slots |-> "off"]
  /\ subTo' = <<>>
  /\ subscribed' = 0
  /\ news' = {}
  /\ UNCHANGED <<epoch, record, canceled, trigger, closed, fetchVars,
                 applied, owed>>

SubscribeNotified ==
  /\ sub = "subscribe"
  /\ Linked("notified") # {}
  /\ sub' = "callback"
  /\ SubscribeEnds
  /\ UNCHANGED faults

LostMajority ==
  Len(Servers) - Cardinality(Linked("failed")) < Majority

SubscribeFalse ==
  /\ sub = "subscribe"
  /\ LostMajority \/ canceled
  /\ sub' = "delay"
  /\ SubscribeEnds
  /\ UNCHANGED faults

(* Mutant of SubscribeDeadline: the context has no deadline.               *)
SubscribeNoDeadline ==
  /\ sub = "subscribe"
  /\ canceled
  /\ sub' = "delay"
  /\ SubscribeEnds
  /\ UNCHANGED faults

(* The fifteen minutes are over.  They are time enough for a sentinel to   *)
(* confirm: one that did not is a failure that nobody noticed.             *)
SubscribeDeadline ==
  /\ sub = "subscribe"
  /\ \/ Linked("connecting") = {} /\ UNCHANGED faults
     \/ /\ Linked("connecting") # {}
        /\ faults < MaxFaults
        /\ faults' = faults + 1
  /\ sub' = "delay"
  /\ SubscribeEnds

NotifiedCallback ==
  /\ sub = "callback"
  /\ callback
  /\ sub' = "loop"
  /\ UNCHANGED <<epoch, record, canceled, link, subTo, news, subscribed,
                 late, closed, fetchVars, applied, owed, faults>>

delayUntil ==
  /\ sub = "delay"
  /\ sub' = "loop"
  /\ UNCHANGED <<epoch, record, canceled, link, subTo, news, subscribed,
                 late, trigger, closed, fetchVars, applied, owed, faults>>

(* Mutant of SubscribingEnds: the channel is not closed.                   *)
SubscribingEndsOpen ==
  /\ sub = "loop"
  /\ canceled
  /\ sub' = "done"
  /\ UNCHANGED <<epoch, record, canceled, link, subTo, news, subscribed,
                 late, trigger, closed, fetchVars, applied, owed, faults>>

SubscribingEnds ==
  /\ sub = "loop"
  /\ canceled
  /\ sub' = "done"
  /\ closed' = TRUE
  /\ UNCHANGED <<epoch, record, canceled, link, subTo, news, subscribed,
                 late, trigger, fetchVars, applied, owed, faults>>

(* Of a goroutine of an ended Subscribe.  On a closed channel the send     *)
(* panics, which ends the process.                                         *)
LateCallback ==
  /\ late
  /\ late' = FALSE
  /\ IF closed
     THEN sub' = "panic" /\ fetch' = "panic" /\ UNCHANGED trigger
     ELSE callback /\ UNCHANGED <<sub, fetch>>
  /\ UNCHANGED <<epoch, record, canceled, link, subTo, news, subscribed,
                 closed, tries, success, asked, voted, askTo, best, applied,
                 owed, faults>>

-----------------------------------------------------------------------------
(* The fetching goroutine.                                                 *)

RangeTrigger ==
  /\ fetch = "wait"
  /\ trigger
  /\ trigger' = FALSE
  /\ fetch' = "loop"
  /\ tries' = 0 /\ success' = 0
  /\ UNCHANGED <<epoch, record, canceled, subVars, news, closed, asked,
                 voted, askTo, best, applied, owed, faults>>

RangeTriggerEnds ==
  /\ fetch = "wait"
  /\ ~trigger /\ closed
  /\ fetch' = "done"
  /\ UNCHANGED <<epoch, record, canceled, subVars, news, trigger, closed,
                 tries, success, asked, voted, askTo, best, applied, owed,
                 faults>>

Again == tries # Tries /\ ~canceled /\ success # 2

Masters ==
  /\ fetch = "loop"
  /\ Again
  /\ fetch' = "masters"
  /\ asked' = Slots /\ askTo' = SubSeq(servers, 1, Len(Servers))
  /\ voted' = 0 /\ best' = -1
  /\ owed' = FALSE
  /\ UNCHANGED <<epoch, record, canceled, subVars, news, trigger, closed,
                 tries, success, applied, faults>>

FetchLoopEnds ==
  /\ fetch = "loop"
  /\ ~Again
  /\ fetch' = "wait"
  /\ tries' = 0 /\ success' = 0
  /\ UNCHANGED <<epoch, record, canceled, subVars, news, trigger, closed,
                 asked, voted, askTo, best, applied, owed, faults>>

MastersAnswer(i) ==
  /\ fetch = "masters"
  /\ i \in asked
  /\ asked' = asked \ {i}
  /\ voted' = voted + 1
  /\ best' = IF best < epoch[askTo[i]] THEN epoch[askTo[i]] ELSE best
  /\ UNCHANGED <<epoch, record, canceled, subVars, news, trigger, closed,
                 fetch, tries, success, askTo, applied, owed, faults>>

(* An error, or no answer within five seconds.  What made an earlier round *)
(* of this trigger fail may last.                                          *)
MastersFail(i) ==
  /\ fetch = "masters"
  /\ i \in asked
  /\ \/ success < tries /\ UNCHANGED faults
     \/ faults < MaxFaults /\ faults' = faults + 1
  /\ asked' = asked \ {i}
  /\ UNCHANGED <<epoch, record, canceled, subVars, news, trigger, closed,
                 fetch, tries, success, voted, askTo, best, applied, owed>>

(* An error uses up a try.                                                 *)
MastersError ==
  /\ fetch = "masters"
  /\ canceled \/ (asked = {} /\ voted < Majority)
  /\ fetch' = "loop"
  /\ tries' = tries + 1
  /\ asked' = {} /\ askTo' = <<>> /\ voted' = 0 /\ best' = -1
  /\ UNCHANGED <<epoch, record, canceled, subVars, news, trigger, closed,
                 success, applied, owed, faults>>

(* The watcher was not cancelled when it looked; it may be by the time     *)
(* switchMasters has the mutex.                                            *)
MastersReturn ==
  /\ fetch = "masters"
  /\ asked = {} /\ voted >= Majority
  /\ ~canceled
  /\ fetch' = "switch"
  /\ voted' = 0 /\ askTo' = <<>>
  /\ UNCHANGED <<epoch, record, canceled, subVars, news, trigger, closed,
                 tries, success, asked, best, applied, owed, faults>>

switchMasters ==
  /\ fetch = "switch"
  /\ applied' = IF best = -1 THEN applied ELSE best
  /\ fetch' = "loop"
  /\ tries' = tries + 1 /\ success' = success + 1
  /\ best' = -1
  /\ UNCHANGED <<epoch, record, canceled, subVars, news, trigger, closed,
                 asked, voted, askTo, owed, faults>>

-----------------------------------------------------------------------------
(* The sentinels, and the request that replaces the watcher.               *)

(* The sentinel publishes to its subscribers; one that is connecting may   *)
(* or may not be among them.                                               *)
Switch(s, e) ==
  /\ epoch' = [epoch EXCEPT ![s] = e]
  /\ \E told \in SUBSET {i \in Linked("connecting") : subTo[i] = s} :
       news' = news \cup told \cup {i \in Linked("listening") : subTo[i] = s}
  /\ UNCHANGED <<record, canceled, subVars, trigger, closed, fetchVars,
                 applied, owed, faults>>

Failover(s) == epoch[s] # -1 /\ Newest < MaxEpoch /\ Switch(s, Newest + 1)

Gossip(s) == epoch[s] # -1 /\ epoch[s] < Newest /\ Switch(s, Newest)

(* The rest of the record's array moves up by one place.  The sentinel     *)
(* forgets the group, unless that failed and the request has force.        *)
DelSentinel(i) ==
  /\ ~canceled
  /\ deleted < MaxDeleted
  /\ deleted' = deleted + 1
  /\ i \in 1..listed
  /\ listed' = listed - 1
  /\ servers' = [j \in DOMAIN servers |->
                   IF i <= j /\ j < listed THEN servers[j + 1] ELSE servers[j]]
  /\ \/ /\ epoch' = [epoch EXCEPT ![servers[i]] = -1]
        /\ UNCHANGED faults
     \/ /\ faults < MaxFaults
        /\ faults' = faults + 1
        /\ UNCHANGED epoch
  /\ UNCHANGED <<canceled, subVars, news, trigger, closed, fetchVars,
                 applied, owed>>

(* In a place that a deletion left, or behind the watcher's slice.         *)
AddSentinel(s) ==
  /\ ~canceled
  /\ \A i \in 1..listed : servers[i] # s
  /\ listed' = listed + 1
  /\ servers' = SubSeq(servers, 1, listed) \o <<s>>
                  \o SubSeq(servers, listed + 2, Len(servers))
  /\ UNCHANGED <<epoch, canceled, subVars, news, trigger, closed, fetchVars,
                 applied, owed, faults, deleted>>

Cancel ==
  /\ ~canceled
  /\ canceled' = TRUE
  /\ UNCHANGED <<epoch, record, subVars, news, trigger, closed, fetchVars,
                 applied, owed, faults>>

-----------------------------------------------------------------------------
Init ==
  /\ epoch \in [Sentinels -> {0, -1}]
  /\ \A s \in Sentinels : epoch[s] = 0 <=> \E i \in Slots : Servers[i] = s
  /\ servers = Servers
  /\ listed = Len(Servers)
  /\ canceled = FALSE
  /\ sub = "loop"
  /\ subTo = <<>>
  /\ link = [i \in Slots |-> "off"]
  /\ news = {}
  /\ subscribed = 0
  /\ late = FALSE
  /\ trigger = FALSE /\ closed = FALSE
  /\ fetch = "wait"
  /\ tries = 0 /\ success = 0
  /\ asked = {} /\ askTo = <<>> /\ voted = 0 /\ best = -1
  /\ applied = 0
  /\ owed = FALSE
  /\ faults = 0
  /\ deleted = 0

Subscribing ==
  \/ Subscribe \/ SubscribeNotified \/ SubscribeFalse \/ SubscribeDeadline
  \/ NotifiedCallback \/ delayUntil \/ SubscribingEnds \/ LateCallback

Fetching ==
  \/ RangeTrigger \/ RangeTriggerEnds \/ Masters \/ FetchLoopEnds
  \/ MastersError \/ MastersReturn \/ switchMasters

Next ==
  \/ Subscribing
  \/ Fetching
  \/ \E i \in Slots :
       \/ onSubscribed(i) \/ subscribeCommandReturn(i) \/ subscribeFail(i)
       \/ MastersAnswer(i) \/ MastersFail(i)
  \/ \E s \in Sentinels : Failover(s) \/ Gossip(s) \/ AddSentinel(s)
  \/ \E i \in 1..listed : DelSentinel(i)
  \/ Cancel

Spec == Init /\ [][Next]_vars

(* The scheduler runs every goroutine that can go on, time passes, the     *)
(* sentinels tell each other of a failover and answer.                     *)
FairSpec ==
  /\ Spec
  /\ WF_vars(Subscribing) /\ WF_vars(Fetching)
  /\ WF_vars(\E i \in Slots : onSubscribed(i))
  /\ WF_vars(\E i \in Slots : MastersAnswer(i))
  /\ WF_vars(\E s \in Sentinels : Gossip(s))

-----------------------------------------------------------------------------
(* Properties.                                                             *)

(* In particular Subscribe never counts a connection twice.                *)
TypeOK ==
  /\ epoch \in [Sentinels -> -1..MaxEpoch]
  /\ servers \in Seq(Sentinels) /\ Len(servers) >= Len(Servers)
  /\ listed \in 0..Len(servers)
  /\ canceled \in BOOLEAN
  /\ sub \in {"loop", "subscribe", "callback", "delay", "done", "panic"}
  /\ link \in [Slots -> {"off", "connecting", "listening", "notified", "failed"}]
  /\ subTo \in Seq(Sentinels) /\ news \in SUBSET Slots
  /\ subscribed \in 0..Len(Servers)
  /\ late \in BOOLEAN
  /\ trigger \in BOOLEAN /\ closed \in BOOLEAN
  /\ fetch \in {"wait", "loop", "masters", "switch", "done", "panic"}
  /\ tries \in 0..Tries /\ success \in 0..2
  /\ asked \in SUBSET Slots /\ askTo \in Seq(Sentinels)
  /\ voted \in 0..Len(Servers)
  /\ best \in -1..MaxEpoch
  /\ applied \in 0..MaxEpoch
  /\ owed \in BOOLEAN
  /\ faults \in 0..MaxFaults
  /\ deleted \in 0..MaxDeleted

(* A Masters call will begin: the trigger is set, the loop goes on, or a   *)
(* callback is still to come from the subscribing goroutine.               *)
CallIsDue ==
  \/ trigger
  \/ fetch = "loop" /\ Again
  \/ sub \in {"callback", "delay", "loop"}
  \/ sub = "subscribe" /\ (subscribed < Majority \/ Linked("notified") # {})

(* A +switch-master that the watcher has read is never forgotten: until a  *)
(* Masters call begins after it, one is due, however the event falls       *)
(* between the rounds of questions, lost connections and deadlines.        *)
NoLostSwitch == owed => canceled \/ CallIsDue

(* Once failovers and failures stop, the service has the newest master     *)
(* that the sentinels it asks know of, also when every event of it was     *)
(* missed or its answers failed, and when sentinels were deleted and added *)
(* under the watcher.                                                      *)
Watched == {s \in {servers[i] : i \in Slots} : epoch[s] # -1}

FollowsTheSentinels ==
  <>[](canceled \/ Watched = {} \/ applied = Max({epoch[s] : s \in Watched}))

(* Both goroutines of a watcher that is cancelled end.                     *)
WatcherEnds ==
  <>[](canceled => sub \in {"done", "panic"} /\ fetch \in {"done", "panic"})
=============================================================================
