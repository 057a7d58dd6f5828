--------------------------- MODULE RedisPoolProof ---------------------------
(* Proofs about RedisPool, for any number of clients and goroutines.       *)
EXTENDS RedisPool, SequenceTheorems, TLAPS

(* The four properties support each other: that a client put back is not   *)
(* in the list yet is OnePlace, that Cleanup has a front to look at is the *)
(* bound on sweep in TypeOK.                                               *)
PoolInv == TypeOK /\ OnePlace /\ NoLeak /\ RecordsFrozen

(* What a list has once, every part of it has once.                        *)
LEMMA SubSeqInjective ==
  ASSUME NEW S, NEW s \in Seq(S), NEW m \in 1..(Len(s) + 1),
         \A i, j \in DOMAIN s : s[i] = s[j] => i = j
  PROVE  LET t == SubSeq(s, m, Len(s)) IN
         /\ t \in Seq(S)
         /\ Len(t) = Len(s) - m + 1
         /\ \A i \in DOMAIN t : t[i] = s[m + i - 1]
         /\ \A i, j \in DOMAIN t : t[i] = t[j] => i = j
<1> DEFINE t == SubSeq(s, m, Len(s))
<1>1. /\ t \in Seq(S)
      /\ Len(t) = Len(s) - m + 1
      /\ \A i \in 1..(Len(s) - m + 1) : t[i] = s[m + i - 1]
  BY SubSeqProperties, LenProperties
<1>2. /\ DOMAIN t = 1..(Len(s) - m + 1)
      /\ DOMAIN s = 1..Len(s)
  BY <1>1, LenProperties
<1>3. ASSUME NEW i \in DOMAIN t, NEW j \in DOMAIN t, t[i] = t[j]
      PROVE  i = j
  BY <1>1, <1>2, <1>3, LenProperties
<1> QED
  BY <1>1, <1>2, <1>3

LEMMA PoolInit == Init => PoolInv
<1> SUFFICES ASSUME Init PROVE PoolInv
  OBVIOUS
<1>1. list \in Seq(Clients) /\ Len(list) = 0 /\ DOMAIN list = {}
  BY DEF Init
<1>2. TypeOK
  <2>1. sweep \in 0..Len(list)
    BY <1>1 DEF Init
  <2>2. closed \in BOOLEAN
    BY DEF Init
  <2> QED
    BY <1>1, <2>1, <2>2 DEF Init, TypeOK, Steps
<1>3. OnePlace /\ NoLeak /\ RecordsFrozen
  BY <1>1 DEF Init, OnePlace, NoLeak, RecordsFrozen, Idle, Taken
<1> QED
  BY <1>2, <1>3 DEF PoolInv

(* The steps that leave the list and the clients in hand alone.            *)
LEMMA QuietStep ==
  ASSUME PoolInv, UNCHANGED <<list, closed, has>>,
         sweep' \in 0..Len(list), old' \subseteq Clients,
         open' \subseteq open,
         step' \in [Askers -> Steps],
         \A a \in Askers : has[a] # None <=> step'[a] \in {"info", "more", "put"},
         result' \in [Askers -> {"wait", "own", "shared"}],
         RecordsFrozen'
  PROVE  PoolInv'
<1> USE DEF PoolInv
<1>1. TypeOK'
  BY DEF TypeOK
<1>2. OnePlace'
  BY DEF OnePlace, Idle
<1>3. NoLeak'
  BY DEF NoLeak, Idle, Taken
<1> QED
  BY <1>1, <1>2, <1>3

(* The goroutines without their dealings with the pool.                    *)
LEMMA AskStep ==
  ASSUME PoolInv, NEW a \in Askers,
         goStats(a) \/ Do(a) \/ Fill(a) \/ Wait(a)
  PROVE  PoolInv'
<1> USE DEF PoolInv, TypeOK, Steps
<1>0. \A b \in Askers : has[b] # None <=> step[b] \in {"info", "more", "put"}
  BY DEF OnePlace
<1>1. CASE goStats(a)
  <2>1. RecordsFrozen'
    BY <1>1 DEF goStats, RecordsFrozen
  <2> QED
    BY <1>0, <1>1, <2>1, QuietStep DEF goStats
<1>2. CASE Do(a)
  <2>1. RecordsFrozen'
    BY <1>2 DEF Do, RecordsFrozen
  <2> QED
    BY <1>0, <1>2, <2>1, QuietStep DEF Do
<1>3. CASE Fill(a)
  <2>1. RecordsFrozen'
    BY <1>3 DEF Fill, RecordsFrozen
  <2> QED
    BY <1>0, <1>3, <2>1, QuietStep DEF Fill
<1>4. CASE Wait(a)
  <2>1. RecordsFrozen'
    BY <1>4 DEF Wait, Answered, TimedOut, Forgotten, RecordsFrozen
  <2> QED
    BY <1>0, <1>4, <2>1, QuietStep DEF Wait, Answered, TimedOut, Forgotten
<1> QED
  BY <1>1, <1>2, <1>3, <1>4

(* A client leaves the list, or all of them do.                            *)
LEMMA GetStep ==
  ASSUME PoolInv, NEW a \in Askers, getClientFromCache(a)
  PROVE  PoolInv'
<1> USE DEF PoolInv
<1>0. /\ has[a] = None
      /\ RecordsFrozen'
  BY DEF getClientFromCache, OnePlace, TypeOK, RecordsFrozen
<1>1. CASE closed
  <2>1. \A b \in Askers : has[b] # None <=> step'[b] \in {"info", "more", "put"}
    BY <1>0, <1>1 DEF getClientFromCache, OnePlace, TypeOK
  <2> QED
    BY <1>0, <1>1, <2>1, QuietStep DEF getClientFromCache, TypeOK, Steps
<1>2. ASSUME ~closed,
             NEW i \in DOMAIN list,
             list' = SubSeq(list, i + 1, Len(list)),
             open' = open \ {list[j] : j \in 1..(i-1)},
             \A j \in 1..(i-1) : ~isRecyclable(list[j]),
             has' = [has EXCEPT ![a] = list[i]],
             step' = [step EXCEPT ![a] = "info"]
      PROVE  PoolInv'
  <2>1. /\ list \in Seq(Clients)
        /\ DOMAIN list = 1..Len(list)
        /\ i \in 1..Len(list) /\ i + 1 \in 1..(Len(list) + 1)
        /\ \A k \in DOMAIN list : list[k] \in Clients
    BY LenProperties DEF TypeOK
  <2>2. /\ list' \in Seq(Clients)
        /\ DOMAIN list' = 1..(Len(list) - i)
        /\ \A k \in DOMAIN list' : list'[k] = list[i + k]
        /\ \A k, l \in DOMAIN list' : list'[k] = list'[l] => k = l
    <3>1. \A k, l \in DOMAIN list : list[k] = list[l] => k = l
      BY DEF OnePlace
    <3> DEFINE m == i + 1
    <3>2. list' = SubSeq(list, m, Len(list))
      BY <1>2
    <3>3. m \in 1..(Len(list) + 1) /\ Len(list) - m + 1 = Len(list) - i
      BY <2>1, LenProperties
    <3> HIDE DEF m
    <3>4. /\ list' \in Seq(Clients)
          /\ Len(list') = Len(list) - m + 1
          /\ \A k \in DOMAIN list' : list'[k] = list[m + k - 1]
          /\ \A k, l \in DOMAIN list' : list'[k] = list'[l] => k = l
      <4> DEFINE t == SubSeq(list, m, Len(list))
      <4>1. /\ t \in Seq(Clients)
            /\ Len(t) = Len(list) - m + 1
            /\ \A k \in DOMAIN t : t[k] = list[m + k - 1]
            /\ \A k, l \in DOMAIN t : t[k] = t[l] => k = l
        <5> HIDE DEF PoolInv
        <5> QED
          BY <2>1, <3>1, <3>3, SubSeqInjective
      <4>2. list' = t
        BY <3>2
      <4> HIDE DEF t
      <4> QED
        BY <4>1, <4>2
    <3>5. DOMAIN list' = 1..(Len(list) - i)
      BY <3>3, <3>4, LenProperties
    <3>6. \A k \in DOMAIN list' : m + k - 1 = i + k
      BY <2>1, <3>5 DEF m
    <3> QED
      BY <3>4, <3>5, <3>6
  <2>3. TypeOK'
    BY <1>2, <2>1, <2>2, LenProperties DEF TypeOK, getClientFromCache, Steps
  <2>4. \A k \in DOMAIN list' : list'[k] \in Idle /\ list'[k] # list[i]
    BY <2>1, <2>2 DEF OnePlace, Idle
  <2>5. OnePlace'
    <3>1. \A b \in Askers : has'[b] \notin Idle'
      BY <1>2, <2>1, <2>4 DEF OnePlace, Idle, TypeOK
    <3>2. \A b, d \in Askers : has'[b] = has'[d] /\ has'[b] # None => b = d
      BY <1>2 DEF OnePlace, Idle, TypeOK
    <3>3. \A b \in Askers : has'[b] # None <=> step'[b] \in {"info", "more", "put"}
      BY <1>2, <2>1, PoolAssumption DEF OnePlace, TypeOK
    <3> QED
      BY <2>2, <3>1, <3>2, <3>3 DEF OnePlace
  <2>6. NoLeak'
    <3>1. ASSUME NEW c \in open'
          PROVE  c \in Taken' \cup Idle'
      <4>1. CASE c \in Taken
        BY <1>0, <1>2, <4>1, PoolAssumption DEF Taken, TypeOK
      <4>2. CASE c \in Idle
        <5>1. PICK k \in 1..Len(list) : c = list[k]
          BY <2>1, <4>2 DEF Idle
        <5>2. k >= i
          BY <1>2, <2>1, <3>1, <5>1
        <5>3. CASE k = i
          BY <1>2, <5>1, <5>3 DEF Taken, TypeOK
        <5>4. CASE k > i
          <6>1. k - i \in DOMAIN list' /\ list'[k - i] = c
            BY <2>1, <2>2, <5>1, <5>4
          <6> QED
            BY <6>1 DEF Idle
        <5> QED
          BY <2>1, <5>2, <5>3, <5>4
      <4> QED
        BY <1>2, <4>1, <4>2 DEF NoLeak
    <3> QED
      BY <1>2, <3>1 DEF NoLeak, getClientFromCache
  <2> QED
    BY <1>0, <2>3, <2>5, <2>6
<1>3. CASE /\ ~closed
           /\ list' = <<>>
           /\ open' = open \ Idle
           /\ step' = [step EXCEPT ![a] = "dial"]
           /\ UNCHANGED has
  <2>1. list' \in Seq(Clients) /\ Len(list') = 0 /\ DOMAIN list' = {}
    BY <1>3
  <2>2. TypeOK'
    BY <1>3, <2>1 DEF TypeOK, getClientFromCache, Steps
  <2>3. OnePlace'
    BY <1>0, <1>3, <2>1 DEF OnePlace, Idle, TypeOK
  <2>4. NoLeak'
    BY <1>3 DEF NoLeak, Taken, getClientFromCache
  <2> QED
    BY <1>0, <2>2, <2>3, <2>4
<1> QED
  BY <1>1, <1>2, <1>3 DEF getClientFromCache

LEMMA DialStep ==
  ASSUME PoolInv, NEW a \in Askers, NewClient(a)
  PROVE  PoolInv'
<1> USE DEF PoolInv
<1>0. /\ has[a] = None
      /\ RecordsFrozen'
  BY DEF NewClient, OnePlace, TypeOK, RecordsFrozen
<1>1. ASSUME NEW c \in Clients \ (open \cup Idle \cup Taken),
             open' = open \cup {c}, old' = old \ {c},
             has' = [has EXCEPT ![a] = c],
             step' = [step EXCEPT ![a] = "info"]
      PROVE  PoolInv'
  <2>1. TypeOK'
    BY <1>1 DEF NewClient, TypeOK, Steps
  <2>2. OnePlace'
    BY <1>1, PoolAssumption DEF NewClient, OnePlace, Idle, Taken, TypeOK
  <2>3. NoLeak'
    BY <1>0, <1>1, PoolAssumption DEF NewClient, NoLeak, Idle, Taken, TypeOK
  <2> QED
    BY <1>0, <2>1, <2>2, <2>3
<1>2. CASE step' = [step EXCEPT ![a] = "fill"] /\ UNCHANGED <<open, old, has>>
  <2>1. \A b \in Askers : has[b] # None <=> step'[b] \in {"info", "more", "put"}
    BY <1>0, <1>2 DEF OnePlace, TypeOK
  <2> QED
    BY <1>0, <1>2, <2>1, QuietStep DEF NewClient, TypeOK, Steps
<1> QED
  BY <1>1, <1>2 DEF NewClient

LEMMA PutStep ==
  ASSUME PoolInv, NEW a \in Askers, PutClient(a)
  PROVE  PoolInv'
<1> USE DEF PoolInv
<1>0. /\ has[a] \in Clients
      /\ has[a] \notin Idle
      /\ RecordsFrozen'
  BY DEF PutClient, OnePlace, TypeOK, RecordsFrozen
<1>1. /\ has' = [has EXCEPT ![a] = None]
      /\ step' = [step EXCEPT ![a] = "fill"]
      /\ UNCHANGED <<closed, sweep, old, result>>
      /\ sweep = 0
  BY DEF PutClient
<1>2. \A b \in Askers : has'[b] # None <=> step'[b] \in {"info", "more", "put"}
  BY <1>1 DEF OnePlace, TypeOK
<1>3. CASE isRecyclable(has[a]) /\ ~closed /\ list' = <<has[a]>> \o list /\ UNCHANGED open
  <2>1. /\ list \in Seq(Clients) /\ DOMAIN list = 1..Len(list) /\ Len(list) \in Nat
        /\ list' \in Seq(Clients) /\ DOMAIN list' = 1..(Len(list) + 1)
        /\ Len(list') = Len(list) + 1
        /\ list'[1] = has[a]
        /\ \A k \in 2..(Len(list) + 1) : list'[k] = list[k - 1]
    <3>1. /\ <<has[a]>> \in Seq(Clients) /\ Len(<<has[a]>>) = 1
          /\ <<has[a]>>[1] = has[a]
      BY <1>0
    <3>2. list \in Seq(Clients) /\ DOMAIN list = 1..Len(list) /\ Len(list) \in Nat
      BY LenProperties DEF TypeOK
    <3> QED
      BY <1>3, <3>1, <3>2, ConcatProperties, LenProperties
  <2>2. Idle' = Idle \cup {has[a]}
    <3>1. ASSUME NEW c \in Idle PROVE c \in Idle'
      <4>1. PICK k \in 1..Len(list) : c = list[k]
        BY <2>1 DEF Idle
      <4>2. k + 1 \in 2..(Len(list) + 1) /\ k + 1 \in DOMAIN list' /\ (k + 1) - 1 = k
        BY <2>1
      <4> QED
        BY <2>1, <4>1, <4>2 DEF Idle
    <3>2. has[a] \in Idle'
      BY <2>1 DEF Idle
    <3>3. ASSUME NEW c \in Idle' PROVE c \in Idle \cup {has[a]}
      <4>1. PICK k \in 1..(Len(list) + 1) : c = list'[k]
        BY <2>1 DEF Idle
      <4>2. CASE k = 1
        BY <2>1, <4>1, <4>2
      <4>3. CASE k # 1
        <5>1. k \in 2..(Len(list) + 1) /\ k - 1 \in DOMAIN list
          BY <2>1, <4>3
        <5> QED
          BY <2>1, <4>1, <5>1 DEF Idle
      <4> QED
        BY <4>2, <4>3
    <3> QED
      BY <3>1, <3>2, <3>3
  <2>3. TypeOK'
    BY <1>0, <1>1, <1>3, <2>1 DEF TypeOK, Steps
  <2>4. OnePlace'
    <3>1. ASSUME NEW i \in DOMAIN list', NEW j \in DOMAIN list', list'[i] = list'[j]
          PROVE  i = j
      <4>1. \A k \in 2..(Len(list) + 1) : k - 1 \in DOMAIN list /\ list'[k] \in Idle
        BY <2>1 DEF Idle
      <4>2. CASE i # 1 /\ j # 1
        <5>1. /\ i \in 2..(Len(list) + 1) /\ j \in 2..(Len(list) + 1)
              /\ list[i - 1] = list[j - 1]
          BY <2>1, <3>1, <4>2
        <5>2. i - 1 = j - 1
          BY <4>1, <5>1 DEF OnePlace
        <5> QED
          BY <5>1, <5>2
      <4>3. CASE i = 1 \/ j = 1
        <5>1. \A k \in 2..(Len(list) + 1) : list'[k] # list'[1]
          BY <1>0, <2>1, <4>1
        <5> QED
          BY <2>1, <3>1, <4>3, <5>1
      <4> QED
        BY <4>2, <4>3
    <3>2. \A b \in Askers : has'[b] \notin Idle'
      <4>1. None \notin Idle'
        BY <1>0, <2>1, <2>2, PoolAssumption DEF Idle, TypeOK
      <4> QED
        BY <1>0, <1>1, <2>2, <4>1 DEF OnePlace, TypeOK
    <3>3. \A b, d \in Askers : has'[b] = has'[d] /\ has'[b] # None => b = d
      BY <1>1 DEF OnePlace, TypeOK
    <3> QED
      BY <1>2, <3>1, <3>2, <3>3 DEF OnePlace
  <2>5. NoLeak'
    <3>1. Taken \subseteq Taken' \cup {has[a]}
      BY <1>1 DEF Taken, TypeOK
    <3> QED
      BY <1>1, <1>3, <2>2, <3>1 DEF NoLeak
  <2> QED
    BY <1>0, <2>3, <2>4, <2>5
<1>4. CASE open' = open \ {has[a]} /\ UNCHANGED list
  <2>1. TypeOK'
    BY <1>1, <1>4 DEF TypeOK, Steps
  <2>2. None \notin Idle
    BY PoolAssumption, LenProperties DEF Idle, TypeOK
  <2>3. OnePlace'
    BY <1>1, <1>2, <1>4, <2>2 DEF OnePlace, Idle, TypeOK
  <2>4. NoLeak'
    BY <1>1, <1>4 DEF NoLeak, Taken, Idle, TypeOK
  <2> QED
    BY <1>0, <2>1, <2>3, <2>4
<1> QED
  BY <1>3, <1>4 DEF PutClient

(* A turn of Cleanup: the front goes to the back, or away.                 *)
LEMMA TurnStep ==
  ASSUME PoolInv, CleanupTurn
  PROVE  PoolInv'
<1> USE DEF PoolInv
<1> DEFINE n == Len(list)
           t == Tail(list)
           c == Head(list)
<1>0. RecordsFrozen' /\ UNCHANGED <<closed, old, step, has, result>>
  BY DEF CleanupTurn, RecordsFrozen
<1>1. /\ list \in Seq(Clients) /\ DOMAIN list = 1..n /\ n \in Nat /\ n > 0
      /\ sweep - 1 \in 0..(n - 1) /\ list # <<>>
  BY LenProperties DEF TypeOK, CleanupTurn
<1>2. /\ c \in Clients /\ c = list[1]
      /\ t \in Seq(Clients) /\ Len(t) = n - 1 /\ DOMAIN t = 1..(n - 1)
      /\ \A k \in 1..(n - 1) : t[k] = list[k + 1]
  BY <1>1, HeadTailProperties, LenProperties
<1>3. \A k, l \in 1..n : list[k] = list[l] => k = l
  BY <1>1 DEF OnePlace
<1> HIDE DEF n, t, c
<1>4. CASE list' = Append(t, c) /\ UNCHANGED open
  <2>1. /\ list' \in Seq(Clients) /\ Len(list') = n /\ DOMAIN list' = 1..n
        /\ \A k \in 1..(n - 1) : list'[k] = list[k + 1]
        /\ list'[n] = list[1]
    <3>1. /\ list' \in Seq(Clients) /\ Len(list') = Len(t) + 1
          /\ \A k \in 1..Len(t) : list'[k] = t[k]
          /\ list'[Len(t) + 1] = c
      BY <1>2, <1>4, AppendProperties
    <3> QED
      BY <1>1, <1>2, <3>1, LenProperties
  <2>2. Idle' = Idle
    <3>1. ASSUME NEW x \in Idle PROVE x \in Idle'
      <4>1. PICK k \in 1..n : x = list[k]
        BY <1>1 DEF Idle
      <4>2. CASE k = 1
        BY <1>1, <2>1, <4>1, <4>2 DEF Idle
      <4>3. CASE k # 1
        <5>1. k - 1 \in 1..(n - 1) /\ (k - 1) + 1 = k /\ k - 1 \in DOMAIN list'
          BY <1>1, <2>1, <4>3
        <5>2. list'[k - 1] = x
          BY <2>1, <4>1, <5>1
        <5> QED
          BY <5>1, <5>2 DEF Idle
      <4> QED
        BY <4>2, <4>3
    <3>2. ASSUME NEW x \in Idle' PROVE x \in Idle
      <4>1. PICK k \in 1..n : x = list'[k]
        BY <2>1 DEF Idle
      <4>2. CASE k = n
        BY <1>1, <2>1, <4>1, <4>2 DEF Idle
      <4>3. CASE k # n
        <5>1. k + 1 \in DOMAIN list /\ list[k + 1] = x
          BY <1>1, <2>1, <4>1, <4>3
        <5> QED
          BY <5>1 DEF Idle
      <4> QED
        BY <4>2, <4>3
    <3> QED
      BY <3>1, <3>2
  <2>3. TypeOK'
    <3>1. list' \in Seq(Clients) /\ sweep' \in 0..Len(list')
      BY <1>1, <2>1 DEF CleanupTurn
    <3> QED
      BY <1>0, <1>4, <3>1 DEF TypeOK
  <2>4. OnePlace'
    <3>1. ASSUME NEW i \in 1..n, NEW j \in 1..n, list'[i] = list'[j]
          PROVE  i = j
      <4>1. CASE i # n /\ j # n
        <5>1. /\ i \in 1..(n - 1) /\ j \in 1..(n - 1)
              /\ i + 1 \in 1..n /\ j + 1 \in 1..n
          BY <1>1, <4>1
        <5>2. i + 1 = j + 1
          BY <1>3, <2>1, <3>1, <5>1
        <5> QED
          BY <5>1, <5>2
      <4>2. CASE i = n \/ j = n
        <5>1. \A k \in 1..(n - 1) : list'[k] # list'[n]
          BY <1>1, <1>3, <2>1
        <5> QED
          BY <1>1, <3>1, <4>2, <5>1
      <4> QED
        BY <4>1, <4>2
    <3> QED
      BY <1>0, <2>1, <2>2, <3>1 DEF OnePlace
  <2>5. NoLeak'
    <3>1. ~closed
      BY <1>1 DEF NoLeak
    <3> QED
      BY <1>0, <1>4, <2>2, <3>1 DEF NoLeak, Taken
  <2> QED
    BY <1>0, <2>3, <2>4, <2>5
<1>5. CASE list' = t /\ open' = open \ {c}
  <2>1. Idle' \subseteq Idle
    BY <1>1, <1>2, <1>5 DEF Idle
  <2>2. Idle \subseteq Idle' \cup {c}
    <3>1. ASSUME NEW x \in Idle, x # c PROVE x \in Idle'
      <4>1. PICK k \in 1..n : x = list[k]
        BY <1>1 DEF Idle
      <4>2. k - 1 \in 1..(n - 1) /\ (k - 1) + 1 = k
        BY <1>1, <1>2, <3>1, <4>1
      <4>3. k - 1 \in DOMAIN list' /\ list'[k - 1] = x
        BY <1>2, <1>5, <4>1, <4>2
      <4> QED
        BY <4>3 DEF Idle
    <3> QED
      BY <3>1
  <2>3. TypeOK'
    <3>1. list' \in Seq(Clients) /\ sweep' \in 0..Len(list')
      BY <1>1, <1>2, <1>5 DEF CleanupTurn
    <3> QED
      BY <1>0, <1>5, <3>1 DEF TypeOK
  <2>4. OnePlace'
    <3>1. \A i, j \in DOMAIN list' : list'[i] = list'[j] => i = j
      <4>1. \A k \in 1..(n - 1) : k + 1 \in 1..n
        BY <1>1
      <4>2. ASSUME NEW i \in 1..(n - 1), NEW j \in 1..(n - 1), t[i] = t[j]
            PROVE  i = j
        <5>1. i + 1 = j + 1
          BY <1>2, <1>3, <4>1, <4>2
        <5> QED
          BY <1>1, <5>1
      <4> QED
        BY <1>2, <1>5, <4>2
    <3> QED
      BY <1>0, <2>1, <3>1 DEF OnePlace
  <2>5. NoLeak'
    <3>1. ~closed
      BY <1>1 DEF NoLeak
    <3> QED
      BY <1>0, <1>5, <2>2, <3>1 DEF NoLeak, Taken
  <2> QED
    BY <1>0, <2>3, <2>4, <2>5
<1> QED
  BY <1>4, <1>5 DEF CleanupTurn, t, c

LEMMA CloseStep ==
  ASSUME PoolInv, Close
  PROVE  PoolInv'
<1> USE DEF PoolInv
<1>1. list' \in Seq(Clients) /\ Len(list') = 0 /\ DOMAIN list' = {}
  BY DEF Close
<1>2. TypeOK'
  BY <1>1 DEF TypeOK, Close
<1>3. OnePlace'
  BY <1>1 DEF OnePlace, Idle, Close
<1>4. NoLeak'
  BY DEF NoLeak, Taken, Close
<1>5. RecordsFrozen'
  BY DEF RecordsFrozen, Close
<1> QED
  BY <1>2, <1>3, <1>4, <1>5

LEMMA PoolStep ==
  ASSUME PoolInv, [Next]_vars
  PROVE  PoolInv'
<1>0. /\ TypeOK /\ RecordsFrozen
      /\ \A a \in Askers : has[a] # None <=> step[a] \in {"info", "more", "put"}
      /\ Len(list) \in Nat
  BY LenProperties DEF PoolInv, OnePlace, TypeOK
<1>1. CASE Cleanup
  <2>1. RecordsFrozen'
    BY <1>0, <1>1 DEF Cleanup, RecordsFrozen
  <2> QED
    BY <1>0, <1>1, <2>1, QuietStep DEF Cleanup, TypeOK
<1>2. ASSUME NEW c \in Clients, Expire(c)
      PROVE  PoolInv'
  <2>1. RecordsFrozen'
    BY <1>0, <1>2 DEF Expire, RecordsFrozen
  <2> QED
    BY <1>0, <1>2, <2>1, QuietStep DEF Expire, TypeOK
<1>3. CASE UNCHANGED vars
  <2>1. RecordsFrozen'
    BY <1>0, <1>3 DEF vars, RecordsFrozen
  <2> QED
    BY <1>0, <1>3, <2>1, QuietStep DEF vars, TypeOK
<1> QED
  BY <1>1, <1>2, <1>3, AskStep, GetStep, DialStep, PutStep, TurnStep, CloseStep
     DEF Next, Ask

(* The pool and the goroutines keep their types: Cleanup never counts      *)
(* beyond the list.                                                        *)
THEOREM PoolTypeCorrect == Spec => []TypeOK
<1>1. PoolInv /\ [Next]_vars => PoolInv'
  BY PoolStep
<1>2. PoolInv => TypeOK
  BY DEF PoolInv
<1> QED
  BY <1>1, <1>2, PoolInit, PTL DEF Spec

(* A pooled connection is never in the list twice, in the list and in use, *)
(* or used by two goroutines, however Close, Cleanup, timeouts and late    *)
(* goroutines interleave, for any number of goroutines and connections.    *)
THEOREM OnePlaceAlways == Spec => []OnePlace
<1>1. PoolInv /\ [Next]_vars => PoolInv'
  BY PoolStep
<1>2. PoolInv => OnePlace
  BY DEF PoolInv
<1> QED
  BY <1>1, <1>2, PoolInit, PTL DEF Spec

(* An open connection always has an owner, the list or a goroutine, also   *)
(* when the pool was closed while goroutines were out with its             *)
(* connections.                                                            *)
THEOREM NoLeakAlways == Spec => []NoLeak
<1>1. PoolInv /\ [Next]_vars => PoolInv'
  BY PoolStep
<1>2. PoolInv => NoLeak
  BY DEF PoolInv
<1> QED
  BY <1>1, <1>2, PoolInit, PTL DEF Spec

(* A record of newRedisStats that somebody may read is complete, however   *)
(* late the goroutine that was given up comes back.                        *)
THEOREM RecordsFrozenAlways == Spec => []RecordsFrozen
<1>1. PoolInv /\ [Next]_vars => PoolInv'
  BY PoolStep
<1>2. PoolInv => RecordsFrozen
  BY DEF PoolInv
<1> QED
  BY <1>1, <1>2, PoolInit, PTL DEF Spec
=============================================================================
