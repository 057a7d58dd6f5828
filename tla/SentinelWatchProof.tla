------------------------- MODULE SentinelWatchProof -------------------------
(***************************************************************************)
(* Proofs about SentinelWatch: any number of sentinels, of failovers and   *)
(* of failures.                                                            *)
(***************************************************************************)
EXTENDS SentinelWatch, FiniteSetTheorems, SequenceTheorems, WellFoundedInduction,
        TLAPS

(* The part of the type invariant that the argument needs.                 *)
CounterType == subscribed \in Nat

(* A Subscribe call's goroutines and its counter end with it.              *)
LinksOff ==
  sub # "subscribe" => subscribed = 0 /\ \A i \in Slots : link[i] = "off"

LinkType == DOMAIN link = Slots

(* The channel is closed only at the end of a cancelled watcher.           *)
ClosedIsCanceled == closed => canceled /\ sub \in {"done", "panic"}

WatchInv ==
  CounterType /\ LinkType /\ LinksOff /\ ClosedIsCanceled /\ NoLostSwitch

LEMMA MajorityPositive == Majority \in Nat /\ Majority > 0
<1>1. Len(Servers) \in Nat
  BY WatchAssumption
<1>2. Len(Servers) \div 2 \in Nat
  BY <1>1
<1> QED
  BY <1>2 DEF Majority

LEMMA WatchInit == Init => WatchInv
  BY DEF Init, WatchInv, CounterType, LinkType, LinksOff, ClosedIsCanceled,
         NoLostSwitch

(* What the goroutines of Subscribe and Masters do.                        *)
LEMMA GoroutineStep ==
  ASSUME WatchInv, NEW i \in Slots,
         \/ onSubscribed(i) \/ subscribeCommandReturn(i) \/ subscribeFail(i)
         \/ MastersAnswer(i) \/ MastersFail(i)
  PROVE  WatchInv'
<1> USE MajorityPositive
    DEF WatchInv, CounterType, LinkType, LinksOff, ClosedIsCanceled,
        NoLostSwitch, CallIsDue, Again, Linked
<1>1. CASE onSubscribed(i)
  BY <1>1 DEF onSubscribed, callback, fetchVars
<1>2. CASE subscribeCommandReturn(i)
  BY <1>2 DEF subscribeCommandReturn, fetchVars
<1>3. CASE subscribeFail(i)
  BY <1>3 DEF subscribeFail, fetchVars
<1>4. CASE MastersAnswer(i)
  BY <1>4 DEF MastersAnswer, subVars
<1>5. CASE MastersFail(i)
  BY <1>5 DEF MastersFail, subVars
<1> QED
  BY <1>1, <1>2, <1>3, <1>4, <1>5

(* What the sentinels and the requests about them do.                      *)
LEMMA OutsideStep ==
  ASSUME WatchInv,
         \/ \E s \in Sentinels : Failover(s) \/ Gossip(s) \/ AddSentinel(s)
         \/ \E i \in 1..listed : DelSentinel(i)
  PROVE  WatchInv'
<1>1. UNCHANGED <<canceled, subVars, trigger, closed, fetchVars, owed>>
  BY DEF Failover, Gossip, Switch, AddSentinel, DelSentinel
<1> QED
  BY <1>1
  DEF subVars, fetchVars, WatchInv, CounterType, LinkType, LinksOff,
      ClosedIsCanceled, NoLostSwitch, CallIsDue, Again, Linked

(* What the subscribing goroutine does.                                    *)
LEMMA SubscribingStep ==
  ASSUME WatchInv, Subscribing
  PROVE  WatchInv'
<1> USE MajorityPositive
    DEF WatchInv, CounterType, LinkType, LinksOff, ClosedIsCanceled,
        NoLostSwitch, CallIsDue, Again, Linked
<1>1. CASE Subscribe
  BY <1>1 DEF Subscribe, fetchVars
<1>2. CASE SubscribeNotified
  BY <1>2 DEF SubscribeNotified, SubscribeEnds, fetchVars
<1>3. CASE SubscribeFalse
  BY <1>3 DEF SubscribeFalse, SubscribeEnds, fetchVars
<1>4. CASE SubscribeDeadline
  BY <1>4 DEF SubscribeDeadline, SubscribeEnds, fetchVars
<1>5. CASE NotifiedCallback
  BY <1>5 DEF NotifiedCallback, callback, fetchVars
<1>6. CASE delayUntil
  BY <1>6 DEF delayUntil, fetchVars
<1>7. CASE SubscribingEnds
  BY <1>7 DEF SubscribingEnds, fetchVars
<1>8. CASE LateCallback
  BY <1>8 DEF LateCallback, callback
<1> QED
  BY <1>1, <1>2, <1>3, <1>4, <1>5, <1>6, <1>7, <1>8 DEF Subscribing

(* What the fetching goroutine does.                                       *)
LEMMA FetchingStep ==
  ASSUME WatchInv, Fetching
  PROVE  WatchInv'
<1> USE MajorityPositive, WatchAssumption
    DEF WatchInv, CounterType, LinkType, LinksOff, ClosedIsCanceled,
        NoLostSwitch, CallIsDue, Again, Linked
<1>1. CASE RangeTrigger
  BY <1>1 DEF RangeTrigger, subVars
<1>2. CASE RangeTriggerEnds
  BY <1>2 DEF RangeTriggerEnds, subVars
<1>3. CASE Masters
  BY <1>3 DEF Masters, subVars
<1>4. CASE FetchLoopEnds
  BY <1>4 DEF FetchLoopEnds, subVars
<1>5. CASE MastersError
  BY <1>5 DEF MastersError, subVars
<1>6. CASE MastersReturn
  BY <1>6 DEF MastersReturn, subVars
<1>7. CASE switchMasters
  BY <1>7 DEF switchMasters, subVars
<1> QED
  BY <1>1, <1>2, <1>3, <1>4, <1>5, <1>6, <1>7 DEF Fetching

(* The inductive invariant of the watcher.                                 *)
LEMMA WatchInvAlways == Spec => []WatchInv
<1>1. ASSUME WatchInv, [Next]_vars
      PROVE  WatchInv'
  <2>1. CASE Cancel
    BY <1>1, <2>1
    DEF Cancel, subVars, fetchVars, WatchInv, CounterType, LinkType, LinksOff,
        ClosedIsCanceled, NoLostSwitch
  <2>2. CASE UNCHANGED vars
    BY <1>1, <2>2
    DEF vars, subVars, fetchVars, WatchInv, CounterType, LinkType, LinksOff,
        ClosedIsCanceled, NoLostSwitch, CallIsDue, Again, Linked
  <2> QED
    BY <1>1, <2>1, <2>2, GoroutineStep, OutsideStep, SubscribingStep, FetchingStep DEF Next
<1> QED
  BY WatchInit, <1>1, PTL DEF Spec

(* A +switch-master that the watcher has read is never forgotten, however  *)
(* many sentinels there are and whatever fails.                            *)
THEOREM NoLostSwitchAlways == Spec => []NoLostSwitch
<1>1. WatchInv => NoLostSwitch
  BY DEF WatchInv
<1> QED
  BY WatchInvAlways, <1>1, PTL

-----------------------------------------------------------------------------
(* The type invariant.                                                     *)

(* The type invariant by the part of the watcher that a step is about, and *)
(* what bounds its counters: the connections that may still be confirmed,  *)
(* the goroutines that may still answer, the rounds that are left.         *)
RecordPart ==
  /\ epoch \in [Sentinels -> -1..MaxEpoch]
  /\ servers \in Seq(Sentinels) /\ Len(servers) >= Len(Servers)
  /\ listed \in 0..Len(servers)
  /\ deleted \in 0..MaxDeleted

SubPart ==
  /\ sub \in {"loop", "subscribe", "callback", "delay", "done", "panic"}
  /\ link \in [Slots -> {"off", "connecting", "listening", "notified", "failed"}]
  /\ subTo \in Seq(Sentinels) /\ news \in SUBSET Slots
  /\ subscribed \in 0..Len(Servers)
  /\ late \in BOOLEAN

Confirmable ==
  sub = "subscribe" =>
    subscribed + Cardinality(Linked("connecting")) <= Len(Servers)

FetchPart ==
  /\ fetch \in {"wait", "loop", "masters", "switch", "done", "panic"}
  /\ tries \in 0..Tries /\ success \in 0..2
  /\ asked \in SUBSET Slots /\ askTo \in Seq(Sentinels)
  /\ voted \in 0..Len(Servers)
  /\ best \in -1..MaxEpoch

Answerable ==
  /\ fetch = "masters" =>
       Len(askTo) = Len(Servers) /\ voted + Cardinality(asked) <= Len(Servers)
  /\ fetch \in {"masters", "switch"} => tries < Tries /\ success < 2

FlagPart ==
  /\ canceled \in BOOLEAN /\ owed \in BOOLEAN
  /\ trigger \in BOOLEAN /\ closed \in BOOLEAN

NumberPart == applied \in 0..MaxEpoch /\ faults \in 0..MaxFaults

SharedPart == FlagPart /\ NumberPart

SubInv == SubPart /\ Confirmable
FetchInv == FetchPart /\ Answerable
TypeInv == RecordPart /\ SubInv /\ FetchInv /\ SharedPart

(* The parts together are the type invariant.                              *)
LEMMA TypeParts == TypeOK <=> RecordPart /\ SubPart /\ FetchPart /\ SharedPart
  BY DEF TypeOK, RecordPart, SubPart, FetchPart, SharedPart, FlagPart, NumberPart

(* Every set of numbers has a least one.                                   *)
LEMMA LeastNumber ==
  ASSUME NEW T \in SUBSET Nat, T # {}
  PROVE  \E x \in T : \A y \in T : x <= y
<1> DEFINE R == OpToRel(<, Nat)
<1>1. IsWellFoundedOn(R, Nat)
  BY NatLessThanWellFounded
<1>2. \A x, y \in Nat : y < x => <<y, x>> \in R
  BY DEF OpToRel
<1> HIDE DEF R
<1>3. PICK x \in T : \A y \in T : <<y, x>> \notin R
  BY <1>1, WFMin
<1>4. ASSUME NEW y \in T PROVE x <= y
  <2>1. ~(y < x)
    BY <1>2, <1>3
  <2> QED BY <2>1
<1> QED BY <1>4

(* Max of a set that has an upper bound is its greatest element.           *)
LEMMA GreatestOfBounded ==
  ASSUME NEW n \in Int, NEW S \in SUBSET Int, S # {}, \A x \in S : x <= n
  PROVE  Max(S) \in S /\ \A x \in S : x <= Max(S)
<1> DEFINE T == {n - x : x \in S}
<1>1. T \in SUBSET Nat /\ T # {}
  <2>1. \A x \in S : n - x \in Nat
    OBVIOUS
  <2> QED BY <2>1
<1>2. PICK t \in T : \A y \in T : t <= y
  BY <1>1, LeastNumber
<1>3. PICK m \in S : t = n - m
  BY <1>2
<1>4. \A x \in S : m >= x
  BY <1>2, <1>3
<1> QED BY <1>4 DEF Max

(* No sentinel knows a newer master than Newest.                           *)
LEMMA NewestType ==
  ASSUME RecordPart
  PROVE  Newest \in -1..MaxEpoch /\ \A s \in Sentinels : epoch[s] <= Newest
<1> DEFINE S == {epoch[s] : s \in Sentinels} \cup {-1}
<1>1. S \in SUBSET Int /\ S # {} /\ \A x \in S : x \in -1..MaxEpoch
  BY WatchAssumption DEF RecordPart
<1>2. \A x \in S : x <= MaxEpoch
  BY <1>1
<1>3. MaxEpoch \in Int
  BY WatchAssumption
<1> HIDE DEF S
<1>4. Max(S) \in S /\ \A x \in S : x <= Max(S)
  BY <1>1, <1>2, <1>3, GreatestOfBounded
<1> QED BY <1>1, <1>4 DEF S, Newest

(* Sets of places are finite, and one place less is one less.              *)
LEMMA SlotsCount ==
  ASSUME NEW S \in SUBSET Slots
  PROVE  /\ Cardinality(S) \in Nat /\ Cardinality(S) <= Len(Servers)
         /\ \A i \in S : Cardinality(S \ {i}) = Cardinality(S) - 1
         /\ \A i \in S : Cardinality(S) >= 1
<1>1. Len(Servers) \in Nat
  BY WatchAssumption
<1>2. IsFiniteSet(Slots) /\ Cardinality(Slots) = Len(Servers)
  BY <1>1, FS_Interval DEF Slots
<1>3. IsFiniteSet(S) /\ Cardinality(S) <= Len(Servers)
  BY <1>2, FS_Subset
<1>4. Cardinality(S) \in Nat
  BY <1>3, FS_CardinalityType
<1>5. ASSUME NEW i \in S
      PROVE  Cardinality(S \ {i}) = Cardinality(S) - 1 /\ Cardinality(S \ {i}) \in Nat
  BY <1>3, FS_RemoveElement, FS_CardinalityType
<1>6. ASSUME NEW i \in S
      PROVE  Cardinality(S) >= 1
  <2>1. Cardinality(S) - 1 \in Nat
    BY <1>5
  <2> QED BY <1>4, <2>1
<1> QED BY <1>3, <1>4, <1>5, <1>6

(* What the constants are, for the arithmetic.                             *)
LEMMA Numbers ==
  /\ Len(Servers) \in Nat /\ Len(Servers) > 0
  /\ Tries \in Nat /\ Tries > 0
  /\ MaxEpoch \in Nat /\ MaxFaults \in Nat /\ MaxDeleted \in Nat
  /\ Majority \in Nat
<1>1. Len(Servers) \in Nat /\ Len(Servers) > 0
  BY WatchAssumption
<1>2. Len(Servers) \div 2 \in Nat
  BY <1>1
<1> QED BY <1>1, <1>2, WatchAssumption DEF Majority

(* Subscribe and Masters start one goroutine for every place.              *)
LEMMA SliceType ==
  ASSUME RecordPart
  PROVE  /\ SubSeq(servers, 1, Len(Servers)) \in Seq(Sentinels)
         /\ Len(SubSeq(servers, 1, Len(Servers))) = Len(Servers)
<1>1. servers \in Seq(Sentinels) /\ Len(servers) \in Nat /\ Len(servers) >= Len(Servers)
  BY DEF RecordPart
<1>2. \A i \in 1..Len(Servers) : servers[i] \in Sentinels
  BY <1>1, Numbers
<1> QED BY <1>2, Numbers, SubSeqProperties

(* The watcher starts with all counters at zero.                           *)
LEMMA WatchTypeInit == Init => TypeInv
<1> SUFFICES ASSUME Init PROVE TypeInv
  OBVIOUS
<1>1. epoch \in [Sentinels -> -1..MaxEpoch]
  <2>1. {0, -1} \subseteq -1..MaxEpoch
    BY Numbers
  <2> QED BY <2>1 DEF Init
<1>2. servers \in Seq(Sentinels) /\ Len(servers) >= Len(Servers) /\ listed \in 0..Len(servers)
  BY Numbers, WatchAssumption DEF Init
<1>3. RecordPart
  BY <1>1, <1>2, Numbers DEF Init, RecordPart
<1>4. SubInv
  <2>1. <<>> \in Seq(Sentinels) /\ 0 \in 0..Len(Servers)
    BY Numbers
  <2>2. late \in BOOLEAN
    BY DEF Init
  <2>3. link \in [Slots -> {"off", "connecting", "listening", "notified", "failed"}]
    BY DEF Init
  <2>4. SubPart
    BY <2>1, <2>2, <2>3 DEF Init, SubPart
  <2> QED BY <2>4 DEF Init, SubInv, Confirmable
<1>5. FetchInv
  <2>1. <<>> \in Seq(Sentinels)
    OBVIOUS
  <2> QED BY <2>1, Numbers DEF Init, FetchInv, FetchPart, Answerable
<1>6. SharedPart
  <2>1. FlagPart
    BY DEF Init, FlagPart
  <2>2. NumberPart
    BY Numbers DEF Init, NumberPart
  <2> QED BY <2>1, <2>2 DEF SharedPart
<1> QED BY <1>3, <1>4, <1>5, <1>6 DEF TypeInv

(* A part whose variables a step leaves alone stays as it is.              *)
LEMMA PartsStay ==
  /\ RecordPart /\ UNCHANGED <<epoch, record>> => RecordPart'
  /\ SubInv /\ UNCHANGED <<subVars, news>> => SubInv'
  /\ FetchInv /\ UNCHANGED fetchVars => FetchInv'
<1>1. RecordPart /\ UNCHANGED <<epoch, record>> => RecordPart'
  BY DEF RecordPart, record
<1>2. SubInv /\ UNCHANGED <<subVars, news>> => SubInv'
  BY DEF SubInv, SubPart, Confirmable, Linked, subVars
<1>3. FetchInv /\ UNCHANGED fetchVars => FetchInv'
  BY DEF FetchInv, FetchPart, Answerable, fetchVars
<1> QED BY <1>1, <1>2, <1>3

(* One goroutine of Subscribe: what it counts was a connection before.     *)
LEMMA LinkStep ==
  ASSUME TypeInv, WatchInv, NEW i \in Slots,
         onSubscribed(i) \/ subscribeCommandReturn(i) \/ subscribeFail(i)
  PROVE  SubInv'
<1> DEFINE C == Linked("connecting")
           n == Cardinality(C)
           m == Cardinality(C \ {i})
<1>1. /\ sub = "subscribe" /\ sub' = sub /\ subTo' = subTo /\ late' = late
      /\ news' \in SUBSET Slots
      /\ link' \in [Slots -> {"off", "connecting", "listening", "notified", "failed"}]
  BY DEF WatchInv, LinksOff, TypeInv, SubInv, SubPart, onSubscribed, subscribeCommandReturn,
         subscribeFail
<1>2. C \in SUBSET Slots /\ C \ {i} \in SUBSET Slots
  BY DEF Linked
<1>3. Linked("connecting")' = C \ {i}
  BY DEF Linked, TypeInv, SubInv, SubPart, onSubscribed, subscribeCommandReturn, subscribeFail
<1>4. n \in Nat /\ m \in Nat /\ m <= n /\ (i \in C => m = n - 1)
  <2>1. CASE i \in C
    <3>1. Cardinality(C) \in Nat /\ Cardinality(C \ {i}) = Cardinality(C) - 1
      BY <1>2, <2>1, SlotsCount
    <3>2. Cardinality(C \ {i}) \in Nat
      BY <1>2, SlotsCount
    <3> QED BY <3>1, <3>2
  <2>2. CASE i \notin C
    <3>1. C \ {i} = C
      BY <2>2
    <3>2. Cardinality(C) \in Nat /\ Cardinality(C \ {i}) = Cardinality(C)
      BY <1>2, <3>1, SlotsCount
    <3> QED BY <2>2, <3>2
  <2> QED BY <2>1, <2>2
<1>5. /\ subscribed \in Nat /\ subscribed + n <= Len(Servers)
      /\ subscribed' = subscribed \/ (subscribed' = subscribed + 1 /\ i \in C)
  BY <1>1, Numbers
  DEF TypeInv, SubInv, SubPart, Confirmable, Linked, onSubscribed,
      subscribeCommandReturn, subscribeFail
<1>6. Cardinality(Linked("connecting")') = m
  BY <1>3
<1> HIDE DEF n, m
<1>7. subscribed' \in 0..Len(Servers) /\ subscribed' + m <= Len(Servers)
  BY <1>4, <1>5, Numbers
<1>8. SubPart'
  BY <1>1, <1>7 DEF SubPart, TypeInv, SubInv
<1>9. Confirmable'
  BY <1>1, <1>6, <1>7 DEF Confirmable
<1> QED BY <1>8, <1>9 DEF SubInv

(* One goroutine of Masters.                                               *)
LEMMA AskStep ==
  ASSUME TypeInv, NEW i \in Slots, MastersAnswer(i) \/ MastersFail(i)
  PROVE  FetchInv'
<1> DEFINE n == Cardinality(asked)
           m == Cardinality(asked \ {i})
<1>1. /\ fetch = "masters" /\ fetch' = fetch /\ i \in asked /\ asked' = asked \ {i}
      /\ voted' = voted \/ voted' = voted + 1
      /\ tries' = tries /\ success' = success /\ askTo' = askTo
  BY DEF MastersAnswer, MastersFail
<1>2. asked \in SUBSET Slots
  BY DEF TypeInv, FetchInv, FetchPart
<1>3. n \in Nat /\ n >= 1 /\ m = n - 1
  BY <1>1, <1>2, SlotsCount
<1>4. /\ Len(askTo) = Len(Servers)
      /\ voted \in Nat /\ voted + n <= Len(Servers)
      /\ tries < Tries /\ success < 2
  BY <1>1, Numbers DEF TypeInv, FetchInv, FetchPart, Answerable
<1>5. Cardinality(asked') = m
  BY <1>1
<1> HIDE DEF n, m
<1>6. voted' \in 0..Len(Servers) /\ voted' + m <= Len(Servers)
  BY <1>1, <1>3, <1>4, Numbers
<1>7. best' \in -1..MaxEpoch
  <2>1. askTo[i] \in Sentinels
    BY <1>4 DEF TypeInv, FetchInv, FetchPart, Slots
  <2>2. epoch[askTo[i]] \in -1..MaxEpoch
    BY <2>1 DEF TypeInv, RecordPart
  <2> QED BY <2>2 DEF MastersAnswer, MastersFail, TypeInv, FetchInv, FetchPart
<1>8. FetchPart'
  BY <1>1, <1>2, <1>6, <1>7 DEF FetchPart, TypeInv, FetchInv
<1>9. Answerable'
  BY <1>1, <1>4, <1>5, <1>6 DEF Answerable
<1> QED BY <1>8, <1>9 DEF FetchInv

(* The goroutines of Subscribe and Masters keep all parts.                 *)
LEMMA WatchTypeGoroutines ==
  ASSUME TypeInv, WatchInv, NEW i \in Slots,
         \/ onSubscribed(i) \/ subscribeCommandReturn(i) \/ subscribeFail(i)
         \/ MastersAnswer(i) \/ MastersFail(i)
  PROVE  TypeInv'
<1>1. SharedPart'
  <2>1. FlagPart'
    BY DEF TypeInv, SharedPart, FlagPart, onSubscribed, subscribeCommandReturn,
           subscribeFail, MastersAnswer, MastersFail, callback
  <2>2. NumberPart'
    BY Numbers
    DEF TypeInv, SharedPart, NumberPart, onSubscribed, subscribeCommandReturn,
        subscribeFail, MastersAnswer, MastersFail
  <2> QED BY <2>1, <2>2 DEF SharedPart
<1>2. CASE onSubscribed(i) \/ subscribeCommandReturn(i) \/ subscribeFail(i)
  <2>1. UNCHANGED <<epoch, record>> /\ UNCHANGED fetchVars
    BY <1>2 DEF onSubscribed, subscribeCommandReturn, subscribeFail
  <2> QED BY <1>1, <1>2, <2>1, LinkStep, PartsStay DEF TypeInv
<1>3. CASE MastersAnswer(i) \/ MastersFail(i)
  <2>1. UNCHANGED <<epoch, record>> /\ UNCHANGED <<subVars, news>>
    BY <1>3 DEF MastersAnswer, MastersFail
  <2> QED BY <1>1, <1>3, <2>1, AskStep, PartsStay DEF TypeInv
<1> QED BY <1>2, <1>3

(* The subscribing goroutine keeps all parts.  A late callback that panics *)
(* finds the channel closed, so that no Subscribe call is under way.       *)
LEMMA WatchTypeSubscribing ==
  ASSUME TypeInv, WatchInv, Subscribing
  PROVE  TypeInv'
<1>1. RecordPart'
  <2>1. UNCHANGED <<epoch, record>>
    BY DEF Subscribing, Subscribe, SubscribeNotified, SubscribeFalse, SubscribeDeadline,
       SubscribeEnds, NotifiedCallback, delayUntil, SubscribingEnds, LateCallback
  <2> QED BY <2>1, PartsStay DEF TypeInv
<1>2. SharedPart'
  <2>1. FlagPart'
    <3>1. UNCHANGED <<canceled, owed>>
      BY DEF Subscribing, Subscribe, SubscribeNotified, SubscribeFalse,
             SubscribeDeadline, SubscribeEnds, NotifiedCallback, delayUntil,
             SubscribingEnds, LateCallback
    <3>2. trigger' = trigger \/ trigger' = TRUE
      BY DEF Subscribing, Subscribe, SubscribeNotified, SubscribeFalse,
             SubscribeDeadline, SubscribeEnds, NotifiedCallback, delayUntil,
             SubscribingEnds, LateCallback, callback
    <3>3. closed' = closed \/ closed' = TRUE
      BY DEF Subscribing, Subscribe, SubscribeNotified, SubscribeFalse,
             SubscribeDeadline, SubscribeEnds, NotifiedCallback, delayUntil,
             SubscribingEnds, LateCallback
    <3> QED BY <3>1, <3>2, <3>3 DEF TypeInv, SharedPart, FlagPart
  <2>2. NumberPart'
    <3>1. /\ applied' = applied
          /\ faults' = faults \/ (faults < MaxFaults /\ faults' = faults + 1)
      BY DEF Subscribing, Subscribe, SubscribeNotified, SubscribeFalse,
             SubscribeDeadline, SubscribeEnds, NotifiedCallback, delayUntil,
             SubscribingEnds, LateCallback
    <3> QED BY <3>1, Numbers DEF TypeInv, SharedPart, NumberPart
  <2> QED BY <2>1, <2>2 DEF SharedPart
<1>3. FetchInv'
  <2>1. CASE UNCHANGED fetchVars
    BY <2>1, PartsStay DEF TypeInv
  <2>2. CASE LateCallback
    BY <2>2 DEF LateCallback, TypeInv, FetchInv, FetchPart, Answerable
  <2> QED
    BY <2>1, <2>2
    DEF Subscribing, Subscribe, SubscribeNotified, SubscribeFalse,
        SubscribeDeadline, SubscribeEnds, NotifiedCallback, delayUntil, SubscribingEnds
<1>4. SubInv'
  <2>1. CASE Subscribe
    <3>1. Linked("connecting")' \in SUBSET Slots
      BY DEF Linked, Slots
    <3>2. /\ Cardinality(Linked("connecting")') <= Len(Servers)
          /\ Cardinality(Linked("connecting")') \in Nat
      BY <3>1, SlotsCount
    <3>3. subscribed' = 0 /\ sub' = "subscribe"
      BY <2>1 DEF Subscribe, WatchInv, LinksOff
    <3>4. Confirmable'
      BY <3>2, <3>3 DEF Confirmable
    <3>5. SubPart'
      BY <2>1, <3>3, SliceType, Numbers DEF Subscribe, TypeInv, SubInv, SubPart
    <3> QED BY <3>4, <3>5 DEF SubInv
  <2>2. CASE SubscribeNotified \/ SubscribeFalse \/ SubscribeDeadline
    <3>1. late' \in BOOLEAN
      BY <2>2 DEF SubscribeNotified, SubscribeFalse, SubscribeDeadline, SubscribeEnds
    <3>2. /\ sub' \in {"callback", "delay"} /\ link' = [i \in Slots |-> "off"]
          /\ subTo' = <<>> /\ subscribed' = 0 /\ news' = {}
      BY <2>2 DEF SubscribeNotified, SubscribeFalse, SubscribeDeadline, SubscribeEnds
    <3>3. <<>> \in Seq(Sentinels) /\ 0 \in 0..Len(Servers)
      BY Numbers
    <3>4. SubPart'
      BY <3>1, <3>2, <3>3 DEF SubPart
    <3>5. Confirmable'
      BY <3>2 DEF Confirmable
    <3> QED BY <3>4, <3>5 DEF SubInv
  <2>3. CASE NotifiedCallback \/ delayUntil \/ SubscribingEnds
    BY <2>3
    DEF NotifiedCallback, delayUntil, SubscribingEnds, TypeInv, SubInv, SubPart, Confirmable
  <2>4. CASE LateCallback
    <3>1. UNCHANGED <<link, subTo, news, subscribed>> /\ late' = FALSE
      BY <2>4 DEF LateCallback
    <3>2. CASE sub' = sub
      <4>1. SubPart'
        BY <3>1, <3>2 DEF TypeInv, SubInv, SubPart
      <4> QED BY <3>1, <3>2, <4>1 DEF TypeInv, SubInv, Confirmable, Linked
    <3>3. CASE closed /\ sub' = "panic"
      <4>1. sub # "subscribe"
        BY <3>3 DEF WatchInv, ClosedIsCanceled
      <4>2. SubPart'
        BY <3>1, <3>3 DEF TypeInv, SubInv, SubPart
      <4> QED BY <3>3, <4>2 DEF SubInv, Confirmable
    <3> QED BY <2>4, <3>2, <3>3 DEF LateCallback
  <2> QED BY <2>1, <2>2, <2>3, <2>4 DEF Subscribing
<1> QED BY <1>1, <1>2, <1>3, <1>4 DEF TypeInv

(* The fetching goroutine keeps all parts.  A round begins only while      *)
(* tries are left and fewer than two succeeded.                            *)
LEMMA WatchTypeFetching ==
  ASSUME TypeInv, Fetching
  PROVE  TypeInv'
<1>1. RecordPart' /\ SubInv'
  <2>1. UNCHANGED <<epoch, record>> /\ UNCHANGED <<subVars, news>>
    BY DEF Fetching, RangeTrigger, RangeTriggerEnds, Masters, FetchLoopEnds,
           MastersError, MastersReturn, switchMasters
  <2> QED BY <2>1, PartsStay DEF TypeInv
<1>2. SharedPart'
  <2>1. FlagPart'
    BY DEF Fetching, RangeTrigger, RangeTriggerEnds, Masters, FetchLoopEnds, MastersError,
           MastersReturn, switchMasters, TypeInv, SharedPart, FlagPart
  <2>2. NumberPart'
    <3>1. faults' = faults /\ (applied' = applied \/ (best # -1 /\ applied' = best))
      BY DEF Fetching, RangeTrigger, RangeTriggerEnds, Masters, FetchLoopEnds, MastersError,
             MastersReturn, switchMasters
    <3> QED BY <3>1, Numbers DEF TypeInv, SharedPart, NumberPart, FetchInv, FetchPart
  <2> QED BY <2>1, <2>2 DEF SharedPart
<1>3. FetchInv'
  <2> USE Numbers
  <2>1. CASE RangeTrigger \/ RangeTriggerEnds \/ FetchLoopEnds
    BY <2>1
    DEF RangeTrigger, RangeTriggerEnds, FetchLoopEnds, TypeInv, FetchInv, FetchPart, Answerable
  <2>2. CASE Masters
    <3>1. Slots \in SUBSET Slots
      OBVIOUS
    <3>2. Cardinality(Slots) \in Nat /\ Cardinality(Slots) <= Len(Servers)
      BY <3>1, SlotsCount
    <3>3. FetchPart'
      BY <2>2, SliceType DEF Masters, TypeInv, FetchInv, FetchPart
    <3>4. asked' = Slots /\ voted' = 0 /\ Len(askTo') = Len(Servers)
      BY <2>2, SliceType DEF Masters, TypeInv
    <3>5. voted' + Cardinality(asked') <= Len(Servers)
      BY <3>2, <3>4
    <3>6. tries' < Tries /\ success' < 2
      BY <2>2 DEF Masters, Again, TypeInv, FetchInv, FetchPart
    <3> QED BY <3>3, <3>4, <3>5, <3>6 DEF FetchInv, Answerable
  <2>3. CASE MastersError \/ MastersReturn \/ switchMasters
    <3>1. <<>> \in Seq(Sentinels)
      OBVIOUS
    <3>2. fetch' # "masters" /\ (fetch' = "switch" => MastersReturn)
      BY <2>3 DEF MastersError, MastersReturn, switchMasters
    <3>3. tries' \in 0..Tries /\ success' \in 0..2
      BY <2>3
      DEF MastersError, MastersReturn, switchMasters, TypeInv, FetchInv, FetchPart, Answerable
    <3>4. FetchPart'
      <4>1. /\ fetch' \in {"loop", "switch"} /\ asked' \in SUBSET Slots
            /\ askTo' \in Seq(Sentinels)
        BY <2>3, <3>1
        DEF MastersError, MastersReturn, switchMasters, TypeInv, FetchInv, FetchPart
      <4>2. voted' \in 0..Len(Servers) /\ best' \in -1..MaxEpoch
        BY <2>3
        DEF MastersError, MastersReturn, switchMasters, TypeInv, FetchInv, FetchPart
      <4> QED BY <3>3, <4>1, <4>2 DEF FetchPart
    <3>5. Answerable'
      BY <3>2 DEF MastersReturn, TypeInv, FetchInv, Answerable
    <3> QED BY <3>4, <3>5 DEF FetchInv
  <2> QED BY <2>1, <2>2, <2>3 DEF Fetching
<1> QED BY <1>1, <1>2, <1>3 DEF TypeInv

(* A deletion shifts the array and keeps its length.                       *)
LEMMA ShiftType ==
  ASSUME RecordPart, NEW i \in 1..listed, DelSentinel(i)
  PROVE  RecordPart'
<1>1. /\ servers \in Seq(Sentinels) /\ Len(servers) \in Nat /\ listed \in 0..Len(servers)
      /\ i \in 1..listed
      /\ servers' = [j \in 1..Len(servers) |->
                       IF i <= j /\ j < listed THEN servers[j + 1] ELSE servers[j]]
  BY DEF RecordPart, DelSentinel
<1>2. \A j \in 1..Len(servers) : servers'[j] \in Sentinels
  <2> TAKE j \in 1..Len(servers)
  <2>1. CASE i <= j /\ j < listed
    <3>1. j + 1 \in 1..Len(servers)
      BY <1>1, <2>1
    <3> QED BY <1>1, <2>1, <3>1
  <2>2. CASE ~(i <= j /\ j < listed)
    BY <1>1, <2>2
  <2> QED BY <2>1, <2>2
<1>3. servers' \in Seq(Sentinels) /\ Len(servers') = Len(servers)
  BY <1>1, <1>2
<1>4. listed' \in 0..Len(servers') /\ deleted' \in 0..MaxDeleted
  BY <1>1, <1>3, Numbers DEF DelSentinel, RecordPart
<1>5. epoch' \in [Sentinels -> -1..MaxEpoch]
  <2>1. -1 \in -1..MaxEpoch
    BY Numbers
  <2>2. epoch' = epoch \/ epoch' = [epoch EXCEPT ![servers[i]] = -1]
    BY DEF DelSentinel
  <2> QED BY <2>1, <2>2 DEF RecordPart
<1> QED BY <1>3, <1>4, <1>5, Numbers DEF RecordPart

(* An addition fills the place behind the list or extends the array.       *)
LEMMA AppendType ==
  ASSUME RecordPart, NEW s \in Sentinels, AddSentinel(s)
  PROVE  RecordPart'
<1> DEFINE before == SubSeq(servers, 1, listed)
           after == SubSeq(servers, listed + 2, Len(servers))
<1>1. servers \in Seq(Sentinels) /\ Len(servers) \in Nat /\ listed \in 0..Len(servers)
  BY DEF RecordPart
<1>2. \A i \in 1..Len(servers) : servers[i] \in Sentinels
  BY <1>1
<1>3. before \in Seq(Sentinels) /\ Len(before) = listed
  <2>1. \A i \in 1..listed : servers[i] \in Sentinels
    BY <1>1, <1>2
  <2> QED BY <1>1, <2>1, SubSeqProperties
<1>4. /\ after \in Seq(Sentinels)
      /\ listed < Len(servers) => Len(after) = Len(servers) - listed - 1
      /\ Len(after) \in Nat
  <2>1. \A i \in listed + 2 .. Len(servers) : servers[i] \in Sentinels
    BY <1>1, <1>2
  <2> QED BY <1>1, <2>1, SubSeqProperties
<1> HIDE DEF before, after
<1>5. before \o <<s>> \in Seq(Sentinels) /\ Len(before \o <<s>>) = listed + 1
  BY <1>1, <1>3
<1>6. /\ servers' \in Seq(Sentinels)
      /\ Len(servers') = listed + 1 + Len(after)
  <2>1. servers' = (before \o <<s>>) \o after
    BY DEF AddSentinel, before, after
  <2> QED BY <2>1, <1>4, <1>5
<1>7. Len(servers') >= Len(servers) /\ Len(servers') \in Nat /\ listed + 1 <= Len(servers')
  BY <1>1, <1>4, <1>6
<1>8. Len(servers') >= Len(Servers)
  BY <1>1, <1>7, Numbers DEF RecordPart
<1>9. listed' = listed + 1 /\ epoch' = epoch /\ deleted' = deleted
  BY DEF AddSentinel
<1>10. listed' \in 0..Len(servers')
  BY <1>1, <1>7, <1>9
<1> QED BY <1>6, <1>8, <1>9, <1>10 DEF RecordPart

(* The sentinels and the requests about them keep all parts.               *)
LEMMA WatchTypeOutside ==
  ASSUME TypeInv,
         \/ \E s \in Sentinels : Failover(s) \/ Gossip(s) \/ AddSentinel(s)
         \/ \E i \in 1..listed : DelSentinel(i)
  PROVE  TypeInv'
<1>1. FetchInv'
  <2>1. UNCHANGED fetchVars
    BY DEF Failover, Gossip, Switch, AddSentinel, DelSentinel
  <2> QED BY <2>1, PartsStay DEF TypeInv
<1>2. SharedPart'
  <2>1. FlagPart'
    BY DEF Failover, Gossip, Switch, AddSentinel, DelSentinel, TypeInv, SharedPart, FlagPart
  <2>2. NumberPart'
    <3>1. /\ applied' = applied
          /\ faults' = faults \/ (faults < MaxFaults /\ faults' = faults + 1)
      BY DEF Failover, Gossip, Switch, AddSentinel, DelSentinel
    <3> QED BY <3>1, Numbers DEF TypeInv, SharedPart, NumberPart
  <2> QED BY <2>1, <2>2 DEF SharedPart
<1>3. ASSUME NEW s \in Sentinels, NEW e \in -1..MaxEpoch, Switch(s, e)
      PROVE  RecordPart' /\ SubInv'
  <2>1. RecordPart'
    BY <1>3 DEF Switch, record, TypeInv, RecordPart
  <2>2. news' \in SUBSET Slots
    BY <1>3 DEF Switch, Linked, TypeInv, SubInv, SubPart
  <2>3. UNCHANGED subVars
    BY <1>3 DEF Switch
  <2> QED
    BY <2>1, <2>2, <2>3
    DEF subVars, TypeInv, SubInv, SubPart, Confirmable, Linked
<1>4. ASSUME NEW s \in Sentinels, Failover(s) \/ Gossip(s)
      PROVE  RecordPart' /\ SubInv'
  <2>1. Newest \in -1..MaxEpoch
    BY NewestType DEF TypeInv
  <2>2. CASE Failover(s)
    <3>1. Newest + 1 \in -1..MaxEpoch
      BY <2>1, <2>2, Numbers DEF Failover
    <3> QED BY <1>3, <2>2, <3>1 DEF Failover
  <2>3. CASE Gossip(s)
    BY <1>3, <2>1, <2>3 DEF Gossip
  <2> QED BY <1>4, <2>2, <2>3
<1>5. ASSUME \/ \E s \in Sentinels : AddSentinel(s)
             \/ \E i \in 1..listed : DelSentinel(i)
      PROVE  RecordPart' /\ SubInv'
  <2>1. UNCHANGED <<subVars, news>>
    BY <1>5 DEF AddSentinel, DelSentinel
  <2> QED BY <1>5, <2>1, ShiftType, AppendType, PartsStay DEF TypeInv
<1> QED BY <1>1, <1>2, <1>4, <1>5 DEF TypeInv

(* Type correctness for any number of sentinels: no connection is counted  *)
(* twice in subscribed, no answer twice in voted, and the array never gets *)
(* shorter than the slice that the watcher reads.                          *)
THEOREM WatchTypeCorrect == Spec => []TypeOK
<1>1. ASSUME TypeInv, WatchInv, [Next]_vars
      PROVE  TypeInv'
  <2>1. CASE Cancel
    <3>1. UNCHANGED <<epoch, record>> /\ UNCHANGED <<subVars, news>> /\ UNCHANGED fetchVars
      BY <2>1 DEF Cancel
    <3>2. SharedPart'
      BY <1>1, <2>1 DEF Cancel, TypeInv, SharedPart, FlagPart, NumberPart
    <3> QED BY <1>1, <3>1, <3>2, PartsStay DEF TypeInv
  <2>2. CASE UNCHANGED vars
    <3>1. UNCHANGED <<epoch, record>> /\ UNCHANGED <<subVars, news>> /\ UNCHANGED fetchVars
      BY <2>2 DEF vars
    <3>2. SharedPart'
      BY <1>1, <2>2 DEF vars, TypeInv, SharedPart, FlagPart, NumberPart
    <3> QED BY <1>1, <3>1, <3>2, PartsStay DEF TypeInv
  <2> QED
    BY <1>1, <2>1, <2>2, WatchTypeGoroutines, WatchTypeOutside, WatchTypeSubscribing,
       WatchTypeFetching DEF Next
<1>2. TypeInv => TypeOK
  BY TypeParts DEF TypeInv, SubInv, FetchInv
<1> QED BY WatchTypeInit, WatchInvAlways, <1>1, <1>2, PTL DEF Spec
=============================================================================
