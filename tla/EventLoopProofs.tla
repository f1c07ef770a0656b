---------------------------- MODULE EventLoopProofs ----------------------------
(* Proofs about EventLoop for any timers, watchers and files, any signals, and *)
(* any number of calls by the program and its callbacks.                       *)
EXTENDS EventLoop, WellFoundedInduction, SequenceTheorems, TLAPS

LEMMA NatWellFounded ==
    \E R : /\ IsWellFoundedOn(R, Nat)
           /\ \A x, y \in Nat : x < y => <<x, y>> \in R
<1> DEFINE R == OpToRel(<, Nat)
<1>1. IsWellFoundedOn(R, Nat)
  BY Zenon, NatLessThanWellFounded
<1>2. \A x, y \in Nat : x < y => <<x, y>> \in R
  BY Zenon DEF OpToRel
<1> HIDE DEF R
<1> QED
  BY <1>1, <1>2

LEMMA MinFacts ==
    ASSUME NEW S, S \subseteq Nat, S # {}
    PROVE  Min(S) \in S /\ \A x \in S : Min(S) <= x
<1>1. PICK R : /\ IsWellFoundedOn(R, Nat)
               /\ \A x, y \in Nat : x < y => <<x, y>> \in R
  BY NatWellFounded
<1>2. PICK x \in S : \A y \in S : ~(<<y, x>> \in R)
  <2>1. IsWellFoundedOn(R, Nat)
    BY <1>1
  <2> QED
    BY ZenonT(30), <2>1, WFMin
<1>3. \A y \in S : ~(y < x)
  BY Zenon, <1>1, <1>2
<1>4. \A y \in S : x <= y
  BY <1>3
<1> QED
  BY <1>4 DEF Min

LEMMA RemoveAtFacts ==
    ASSUME NEW S, NEW s \in Seq(S), NEW k \in 1..Len(s)
    PROVE  /\ RemoveAt(s, k) \in Seq(S)
           /\ Len(RemoveAt(s, k)) = Len(s) - 1
           /\ \A i \in 1..(Len(s) - 1) :
                RemoveAt(s, k)[i] = IF i < k THEN s[i] ELSE s[i + 1]
<1> DEFINE front == SubSeq(s, 1, k - 1)
           back == SubSeq(s, k + 1, Len(s))
<1>1. /\ front \in Seq(S) /\ Len(front) = k - 1
      /\ \A i \in 1..(k - 1) : front[i] = s[i]
  OBVIOUS
<1>2. /\ back \in Seq(S) /\ Len(back) = Len(s) - k
      /\ \A i \in 1..(Len(s) - k) : back[i] = s[k + i]
  OBVIOUS
<1> HIDE DEF front, back
<1>3. /\ front \o back \in Seq(S) /\ Len(front \o back) = Len(front) + Len(back)
      /\ \A i \in 1..(Len(front) + Len(back)) :
            (front \o back)[i] = IF i <= Len(front) THEN front[i] ELSE back[i - Len(front)]
  BY <1>1, <1>2, ConcatProperties
<1>4. \A i \in 1..(Len(s) - 1) :
        (front \o back)[i] = IF i < k THEN s[i] ELSE s[i + 1]
  BY <1>1, <1>2, <1>3
<1>5. Len(front \o back) = Len(s) - 1
  BY <1>1, <1>2, <1>3
<1>6. RemoveAt(s, k) = front \o back
  BY DEF RemoveAt, front, back
<1> QED
  BY <1>3, <1>4, <1>5, <1>6

LEMMA PrependFacts ==
    ASSUME NEW S, NEW s \in Seq(S), NEW w \in S
    PROVE  /\ <<w>> \o s \in Seq(S)
           /\ Len(<<w>> \o s) = Len(s) + 1
           /\ (<<w>> \o s)[1] = w
           /\ \A i \in 1..Len(s) : (<<w>> \o s)[i + 1] = s[i]
  OBVIOUS

-----------------------------------------------------------------------------
(* The list of signal sources. *)

ListOK(list, st) ==
    /\ list \in Seq(Watcher)
    /\ \A i, j \in 1..Len(list) : list[i] = list[j] => i = j
    /\ \A i \in 1..Len(list) : st[list[i]] = "live"
    /\ \A w \in Watcher : st[w] = "live" => \E i \in 1..Len(list) : list[i] = w

LEMMA ListMeaning ==
    ASSUME NEW list \in Seq(Watcher), NEW st
    PROVE  ListOK(list, st) <=> /\ IsInjective(list)
                                /\ ToSet(list) = {w \in Watcher : st[w] = "live"}
  BY DEF ListOK, IsInjective, ToSet

LEMMA ListAdd ==
    ASSUME NEW list, NEW st \in [Source -> {"free", "live", "removed"}],
           NEW w \in Watcher, ListOK(list, st), st[w] # "live"
    PROVE  ListOK(<<w>> \o list, [st EXCEPT ![w] = "live"])
<1> DEFINE new == <<w>> \o list
           to == [st EXCEPT ![w] = "live"]
<1>1. /\ new \in Seq(Watcher) /\ Len(new) = Len(list) + 1 /\ new[1] = w
      /\ \A i \in 1..Len(list) : new[i + 1] = list[i]
  BY PrependFacts DEF ListOK
<1>2. \A v \in Watcher : to[v] = IF v = w THEN "live" ELSE st[v]
  BY DEF Source
<1>3. /\ Len(list) \in Nat
      /\ \A i \in 1..Len(list) : list[i] \in Watcher /\ list[i] # w
  BY DEF ListOK
<1> HIDE DEF new, to
<1>4. \A i \in 1..Len(new) : i = 1 \/ (i - 1 \in 1..Len(list) /\ new[i] = list[i - 1])
  BY <1>1, <1>3
<1>5. \A i, j \in 1..Len(new) : new[i] = new[j] => i = j
  <2> TAKE i, j \in 1..Len(new)
  <2>1. CASE i = 1 \/ j = 1
    BY <1>1, <1>3, <1>4, <2>1
  <2>2. CASE i # 1 /\ j # 1
    <3>1. /\ i - 1 \in 1..Len(list) /\ new[i] = list[i - 1]
          /\ j - 1 \in 1..Len(list) /\ new[j] = list[j - 1]
      BY <1>4, <2>2
    <3> HAVE new[i] = new[j]
    <3>2. i - 1 = j - 1
      BY <3>1 DEF ListOK
    <3> QED
      BY <1>1, <1>3, <3>2
  <2> QED
    BY <2>1, <2>2
<1>6. \A i \in 1..Len(new) : to[new[i]] = "live"
  <2> TAKE i \in 1..Len(new)
  <2>1. CASE i = 1
    BY <1>1, <1>2, <2>1
  <2>2. CASE i # 1
    <3>1. i - 1 \in 1..Len(list) /\ new[i] = list[i - 1]
      BY <1>4, <2>2
    <3>2. st[list[i - 1]] = "live"
      BY <3>1 DEF ListOK
    <3> QED
      BY <1>2, <1>3, <3>1, <3>2
  <2> QED
    BY <2>1, <2>2
<1>7. ASSUME NEW v \in Watcher, to[v] = "live"
      PROVE  \E i \in 1..Len(new) : new[i] = v
  <2>1. CASE v = w
    BY <1>1, <1>3, <2>1
  <2>2. CASE v # w
    <3>1. PICK i \in 1..Len(list) : list[i] = v
      BY <1>2, <1>7, <2>2 DEF ListOK
    <3> QED
      BY <1>1, <1>3, <3>1
  <2> QED
    BY <2>1, <2>2
<1> QED
  BY <1>1, <1>5, <1>6, <1>7 DEF new, to, ListOK

LEMMA ListRemove ==
    ASSUME NEW list, NEW st \in [Source -> {"free", "live", "removed"}],
           NEW k \in 1..Len(list), ListOK(list, st)
    PROVE  ListOK(RemoveAt(list, k), [st EXCEPT ![list[k]] = "removed"])
<1> DEFINE new == RemoveAt(list, k)
           to == [st EXCEPT ![list[k]] = "removed"]
<1>1. /\ new \in Seq(Watcher) /\ Len(new) = Len(list) - 1
      /\ \A i \in 1..(Len(list) - 1) : new[i] = IF i < k THEN list[i] ELSE list[i + 1]
  BY RemoveAtFacts DEF ListOK
<1>2. \A v \in Watcher : to[v] = IF v = list[k] THEN "removed" ELSE st[v]
  BY DEF Source
<1>3. /\ Len(list) \in Nat
      /\ \A i \in 1..Len(list) : list[i] \in Watcher
  BY DEF ListOK
<1> HIDE DEF new, to
<1>4. ASSUME NEW i \in 1..Len(new), NEW j \in 1..Len(new), new[i] = new[j] PROVE i = j
  <2> DEFINE a == IF i < k THEN i ELSE i + 1
             b == IF j < k THEN j ELSE j + 1
  <2>1. a \in 1..Len(list) /\ b \in 1..Len(list) /\ (a = b => i = j)
    BY <1>1, <1>3
  <2>2. new[i] = list[a] /\ new[j] = list[b]
    BY <1>1
  <2>3. \A x, y \in 1..Len(list) : list[x] = list[y] => x = y
    BY DEF ListOK
  <2> QED
    BY <1>4, <2>1, <2>2, <2>3
<1>5. ASSUME NEW i \in 1..Len(new) PROVE to[new[i]] = "live"
  <2>1. PICK j \in 1..Len(list) : j # k /\ new[i] = list[j]
    BY <1>1, <1>3
  <2> QED
    BY <1>2, <1>3, <2>1 DEF ListOK
<1>6. ASSUME NEW v \in Watcher, to[v] = "live"
      PROVE  \E i \in 1..Len(new) : new[i] = v
  <2>1. PICK i \in 1..Len(list) : list[i] = v
    BY <1>2, <1>6 DEF ListOK
  <2>2. i # k
    BY <1>2, <1>6, <2>1
  <2>3. CASE i < k
    BY <1>1, <1>3, <2>1, <2>3
  <2>4. CASE k < i
    <3>1. i - 1 \in 1..Len(new) /\ ~(i - 1 < k)
      BY <1>1, <1>3, <2>4
    <3>2. new[i - 1] = list[i]
      BY <1>1, <1>3, <3>1
    <3> QED
      BY <2>1, <3>1, <3>2
  <2> QED
    BY <1>3, <2>2, <2>3, <2>4
<1> QED
  BY <1>1, <1>4, <1>5, <1>6 DEF new, to, ListOK

-----------------------------------------------------------------------------
(* The calls of the program. *)

ProgramType ==
    /\ now \in 0..MaxNow
    /\ state \in [Source -> {"free", "live", "removed"}]
    /\ deadline \in [Timer -> 0..MaxNow]
    /\ knote \in 0..MaxNow
    /\ ListOK(signals, state)
    /\ udata \in [Signal -> Watcher \cup {None}]
    /\ filters \in [File -> SUBSET Filter]
    /\ ops \in 0..MaxOp
    /\ stuck \in BOOLEAN

LoopType ==
    /\ pc \in {"wait", "timers", "calls", "events", "signal", "crashed"}
    /\ batch \subseteq Event
    /\ due \subseteq Timer
    /\ {pos, next} \subseteq Watcher \cup {None, Lost}
    /\ number \in Signal \cup {Off}
    /\ expected \subseteq Watcher /\ heard \subseteq Watcher

LEMMA TypeParts == TypeOK <=> ProgramType /\ LoopType
  BY ListMeaning DEF TypeOK, ProgramType, LoopType, ListOK

\* A source is freed by the loop alone, and a removed one stays on its list.
Held == \A s \in Source : /\ state'[s] = "free" => state[s] = "free"
                          /\ state[s] = "removed" => state'[s] = "removed"

\* How a call changes the list of signal sources.
ListStep ==
    \/ UNCHANGED signals
    \/ \E w \in Watcher : state[w] = "free" /\ signals' = <<w>> \o signals
    \/ \E k \in 1..Len(signals) : signals' = RemoveAt(signals, k)

LEMMA SourceFacts ==
    /\ Timer \subseteq Source /\ Watcher \subseteq Source /\ File \subseteq Source
    /\ \A s \in Timer \cup File : s \notin Watcher
    /\ \A t \in Timer : t \notin File
    /\ None \notin Source /\ Lost \notin Source /\ None # Lost
    /\ \A w \in Watcher : Number[w] \in Signal
  BY SourceAssumption DEF Source, Signal, None, Lost

\* Op for one source, without the count of calls.
TimerOp(t) ==
    \/ AddTimer(t) \/ RemoveTimer(t) \/ Stop(t)
    \/ \E d \in 1..MaxDelay : Arm(t, d)

WatcherOp(w) == AddWatcher(w) \/ RemoveWatcher(w)

FileOp(f) ==
    \/ RemoveFile(f)
    \/ \E mask \in SUBSET Filter : AddFile(f, mask) \/ Update(f, mask)

LEMMA OpParts ==
    Op => /\ ops < MaxOp /\ ops' = ops + 1
          /\ \/ \E t \in Timer : TimerOp(t)
             \/ \E w \in Watcher : WatcherOp(w)
             \/ \E f \in File : FileOp(f)
  BY DEF Op, TimerOp, WatcherOp, FileOp

LEMMA OtherList ==
    ASSUME ProgramType, NEW s \in Timer \cup File, NEW to
    PROVE  ListOK(signals, [state EXCEPT ![s] = to])
<1>1. \A w \in Watcher : [state EXCEPT ![s] = to][w] = state[w]
  BY SourceFacts DEF ProgramType
<1>2. \A i \in 1..Len(signals) : signals[i] \in Watcher
  BY DEF ProgramType, ListOK
<1> QED
  BY <1>1, <1>2 DEF ProgramType, ListOK

LEMMA TimerOpStep ==
    ASSUME ProgramType, NEW t \in Timer, TimerOp(t), ops' \in 0..MaxOp
    PROVE  ProgramType' /\ Held /\ UNCHANGED <<signals, udata, filters>>
<1> USE SourceFacts, LoopAssumption DEF ProgramType
<1>1. CASE AddTimer(t)
  <2>1. ListOK(signals, state')
    BY <1>1, OtherList DEF AddTimer
  <2> QED
    BY <1>1, <2>1 DEF AddTimer, heap, Held
<1>2. ASSUME Disarm(t)
      PROVE  /\ deadline' \in [Timer -> 0..MaxNow]
             /\ knote' \in 0..MaxNow /\ stuck' \in BOOLEAN
  <2>1. deadline' \in [Timer -> 0..MaxNow]
    BY <1>2 DEF Disarm, Off
  <2>2. knote' \in 0..MaxNow
    BY <1>2 DEF Disarm, ClearTimer, Off
  <2>3. stuck' \in BOOLEAN
    BY <1>2 DEF Disarm, ClearTimer
  <2> QED
    BY <2>1, <2>2, <2>3
<1>3. CASE RemoveTimer(t)
  <2>1. ListOK(signals, state')
    BY <1>3, OtherList DEF RemoveTimer, Removed
  <2>2. Held /\ state' \in [Source -> {"free", "live", "removed"}]
    BY <1>3 DEF RemoveTimer, Removed, Held
  <2>3. Disarm(t) /\ UNCHANGED <<now, signals, udata, filters>>
    BY <1>3 DEF RemoveTimer
  <2> QED
    BY <1>2, <2>1, <2>2, <2>3
<1>4. CASE Stop(t)
  BY <1>2, <1>4 DEF Stop, lists, Held
<1>5. ASSUME NEW d \in 1..MaxDelay, Arm(t, d)
      PROVE  ProgramType' /\ Held /\ UNCHANGED <<signals, udata, filters>>
  <2>1. now' \in 0..MaxNow /\ now + d \in 0..MaxNow
    BY <1>5 DEF Arm, Passes
  <2>2. deadline' \in [Timer -> 0..MaxNow]
    BY <1>5, <2>1 DEF Arm
  <2>3. knote' \in 0..MaxNow /\ stuck' \in BOOLEAN
    BY <1>5, <2>1 DEF Arm, SetTimer
  <2> QED
    BY <1>5, <2>1, <2>2, <2>3 DEF Arm, lists, Held
<1> QED
  BY <1>1, <1>3, <1>4, <1>5 DEF TimerOp

LEMMA FileOpStep ==
    ASSUME ProgramType, NEW f \in File, FileOp(f), ops' \in 0..MaxOp
    PROVE  ProgramType' /\ Held /\ UNCHANGED <<signals, udata, heap>>
<1> USE SourceFacts DEF ProgramType, heap
<1>1. CASE RemoveFile(f)
  <2>1. ListOK(signals, state')
    BY <1>1, OtherList DEF RemoveFile, Removed
  <2> QED
    BY <1>1, <2>1 DEF RemoveFile, Removed, Held
<1>2. ASSUME NEW mask \in SUBSET Filter, AddFile(f, mask)
      PROVE  ProgramType' /\ Held /\ UNCHANGED <<signals, udata, heap>>
  <2>1. ListOK(signals, state')
    BY <1>2, OtherList DEF AddFile
  <2> QED
    BY <1>2, <2>1 DEF AddFile, Held
<1>3. ASSUME NEW mask \in SUBSET Filter, Update(f, mask)
      PROVE  ProgramType' /\ Held /\ UNCHANGED <<signals, udata, heap>>
  BY <1>3 DEF Update, Held
<1> QED
  BY <1>1, <1>2, <1>3 DEF FileOp

LEMMA SurvivorFacts ==
    ASSUME NEW w \in Watcher, (signals \in Seq(Watcher))'
    PROVE  \/ /\ Survivor(w) = None
              /\ \A i \in 1..Len(signals') : Number[signals'[i]] # Number[w]
           \/ \E i \in 1..Len(signals') :
                Survivor(w) = signals'[i] /\ Number[signals'[i]] = Number[w]
<1> DEFINE others == {i \in DOMAIN signals' : Number[signals'[i]] = Number[w]}
<1>1. DOMAIN signals' = 1..Len(signals') /\ others \subseteq Nat
  OBVIOUS
<1>2. CASE others = {}
  BY <1>1, <1>2 DEF Survivor
<1>3. CASE others # {}
  <2>1. Min(others) \in others
    BY <1>1, <1>3, MinFacts
  <2> QED
    BY <1>1, <1>3, <2>1 DEF Survivor
<1> QED
  BY <1>2, <1>3

\* KnoteNamesLive for one signal.
Named(n) ==
    IF Watching(n) = {} THEN udata[n] = None ELSE udata[n] \in Watching(n)

LEMMA AddWatcherStep ==
    ASSUME ProgramType, NEW w \in Watcher, AddWatcher(w), ops' \in 0..MaxOp
    PROVE  /\ ProgramType' /\ Held /\ ListStep
           /\ KnoteNamesLive => KnoteNamesLive'
<1> USE SourceFacts DEF ProgramType
<1>1. ListOK(signals', state')
  BY ListAdd DEF AddWatcher
<1>2. /\ state' \in [Source -> {"free", "live", "removed"}]
      /\ udata' \in [Signal -> Watcher \cup {None}]
      /\ Held
  BY DEF AddWatcher, Held
<1>3. ListStep
  BY DEF AddWatcher, ListStep
<1>4. ASSUME KnoteNamesLive, NEW n \in Signal PROVE Named(n)'
  <2>1. CASE n = Number[w]
    BY <2>1 DEF AddWatcher, Named, Watching
  <2>2. CASE n # Number[w]
    <3>1. udata'[n] = udata[n] /\ Watching(n)' = Watching(n)
      BY <2>2 DEF AddWatcher, Watching
    <3> QED
      BY <1>4, <3>1 DEF KnoteNamesLive, Named
  <2> QED
    BY <2>1, <2>2
<1> QED
  BY <1>1, <1>2, <1>3, <1>4 DEF AddWatcher, heap, KnoteNamesLive, Named

LEMMA RemoveWatcherStep ==
    ASSUME ProgramType, NEW w \in Watcher, RemoveWatcher(w), ops' \in 0..MaxOp
    PROVE  /\ ProgramType' /\ Held /\ ListStep
           /\ KnoteNamesLive => KnoteNamesLive'
<1> USE SourceFacts DEF ProgramType
<1>1. PICK k \in 1..Len(signals) :
        signals[k] = w /\ signals' = RemoveAt(signals, k)
  BY DEF RemoveWatcher, ListOK
<1>2. state' = [state EXCEPT ![w] = "removed"] /\ state[w] = "live"
  BY DEF RemoveWatcher, Removed
<1>3. ListOK(signals', state')
  BY <1>1, <1>2, ListRemove
<1>4. Survivor(w) \in Watcher \cup {None}
  BY <1>3, SurvivorFacts DEF ListOK
<1>5. /\ state' \in [Source -> {"free", "live", "removed"}]
      /\ udata' \in [Signal -> Watcher \cup {None}]
      /\ Held
  BY <1>2, <1>4 DEF RemoveWatcher, Held
<1>6. ListStep
  BY <1>1 DEF ListStep
<1>7. ASSUME KnoteNamesLive, NEW n \in Signal PROVE Named(n)'
  <2>1. CASE n = Number[w]
    <3>1. udata'[n] = Survivor(w)
      BY <2>1 DEF RemoveWatcher
    <3>2. /\ \A v \in Watching(n)' : \E i \in 1..Len(signals') : signals'[i] = v
          /\ \A i \in 1..Len(signals') :
                Number[signals'[i]] = n => signals'[i] \in Watching(n)'
      BY <1>3 DEF ListOK, Watching
    <3>3. (signals \in Seq(Watcher))'
      BY <1>3 DEF ListOK
    <3>4. CASE Survivor(w) = None
      <4>1. \A i \in 1..Len(signals') : Number[signals'[i]] # n
        BY <2>1, <3>3, <3>4, SurvivorFacts DEF Source
      <4>2. \A v \in Watching(n)' : Number[v] = n
        BY DEF Watching
      <4>3. Watching(n)' = {}
        BY <3>2, <4>1, <4>2
      <4> QED
        BY <3>1, <3>4, <4>3 DEF Named
    <3>5. CASE Survivor(w) # None
      BY <2>1, <3>1, <3>2, <3>3, <3>5, SurvivorFacts DEF Named
    <3> QED
      BY <3>4, <3>5
  <2>2. CASE n # Number[w]
    <3>1. udata'[n] = udata[n] /\ Watching(n)' = Watching(n)
      BY <1>2, <2>2 DEF RemoveWatcher, Watching
    <3> QED
      BY <1>7, <3>1 DEF KnoteNamesLive, Named
  <2> QED
    BY <2>1, <2>2
<1> QED
  BY <1>3, <1>5, <1>6, <1>7 DEF RemoveWatcher, heap, KnoteNamesLive, Named

\* What a call of the program keeps, whoever makes it.
LEMMA OpStep ==
    ASSUME ProgramType, Op \/ UNCHANGED program
    PROVE  /\ ProgramType' /\ Held /\ ListStep
           /\ KnoteNamesLive => KnoteNamesLive'
<1>1. CASE UNCHANGED program
  BY <1>1 DEF program, ProgramType, Held, ListStep, KnoteNamesLive, Watching
<1>2. CASE Op
  <2>1. ops' \in 0..MaxOp
    BY <1>2, OpParts, LoopAssumption DEF ProgramType
  <2>2. ASSUME NEW t \in Timer \cup File, UNCHANGED udata,
               \A w \in Watcher : state'[w] = state[w]
        PROVE  KnoteNamesLive => KnoteNamesLive'
    BY <2>2 DEF KnoteNamesLive, Watching
  <2>3. ASSUME NEW t \in Timer, TimerOp(t)
        PROVE  \A w \in Watcher : state'[w] = state[w]
    BY <2>3, SourceFacts
    DEF TimerOp, AddTimer, RemoveTimer, Removed, Stop, Arm, lists, ProgramType
  <2>4. ASSUME NEW f \in File, FileOp(f)
        PROVE  \A w \in Watcher : state'[w] = state[w]
    BY <2>4, SourceFacts
    DEF FileOp, AddFile, RemoveFile, Removed, Update, ProgramType
  <2>5. ASSUME NEW t \in Timer, TimerOp(t)
        PROVE  /\ ProgramType' /\ Held /\ ListStep
               /\ KnoteNamesLive => KnoteNamesLive'
    BY <2>1, <2>2, <2>3, <2>5, TimerOpStep DEF ListStep
  <2>6. ASSUME NEW f \in File, FileOp(f)
        PROVE  /\ ProgramType' /\ Held /\ ListStep
               /\ KnoteNamesLive => KnoteNamesLive'
    BY <2>1, <2>2, <2>4, <2>6, FileOpStep DEF ListStep
  <2> QED
    BY <1>2, <2>1, <2>5, <2>6, OpParts, AddWatcherStep, RemoveWatcherStep
    DEF WatcherOp
<1> QED
  BY <1>1, <1>2

\* What is armed or polled belongs to a source that is there.
SourcesLive ==
    /\ \A t \in Timer : deadline[t] # Off => state[t] = "live"
    /\ \A f \in File : filters[f] # {} => state[f] = "live"

LEMMA OpLive ==
    ASSUME ProgramType, SourcesLive, Op \/ UNCHANGED program
    PROVE  SourcesLive'
<1> USE SourceFacts DEF ProgramType, SourcesLive
<1>1. CASE UNCHANGED program
  BY <1>1 DEF program
<1>2. ASSUME NEW t \in Timer, TimerOp(t) PROVE SourcesLive'
  <2>1. CASE AddTimer(t)
    BY <2>1 DEF AddTimer, heap
  <2>2. CASE RemoveTimer(t)
    <3>1. /\ deadline' = [deadline EXCEPT ![t] = 0] /\ UNCHANGED filters
          /\ \A x \in Source : x # t => state'[x] = state[x]
      BY <2>2 DEF RemoveTimer, Removed, Disarm, Off
    <3> QED
      BY <3>1 DEF Off
  <2>3. CASE Stop(t)
    BY <2>3 DEF Stop, Disarm, lists
  <2>4. ASSUME NEW d \in 1..MaxDelay, Arm(t, d) PROVE SourcesLive'
    <3>1. /\ state[t] = "live" /\ UNCHANGED <<state, filters>>
          /\ \A u \in Timer : u # t => deadline'[u] = deadline[u]
      BY <2>4 DEF Arm, lists
    <3> QED
      BY <3>1
  <2> QED
    BY <1>2, <2>1, <2>2, <2>3, <2>4 DEF TimerOp
<1>3. ASSUME NEW w \in Watcher, WatcherOp(w) PROVE SourcesLive'
  BY <1>3 DEF WatcherOp, AddWatcher, RemoveWatcher, Removed, heap
<1>4. ASSUME NEW f \in File, FileOp(f) PROVE SourcesLive'
  BY <1>4 DEF FileOp, AddFile, RemoveFile, Removed, Update, heap
<1> QED
  BY <1>1, <1>2, <1>3, <1>4, OpParts

-----------------------------------------------------------------------------
(* The shared timer. *)

\* The knote fires in time for the earliest timer.
InTime ==
    Active(deadline) # {} /\ ~stuck => knote # Off /\ knote <= Earliest(deadline)

LEMMA EarliestFacts ==
    ASSUME NEW d \in [Timer -> 0..MaxNow], Active(d) # {}
    PROVE  /\ Earliest(d) \in 0..MaxNow /\ Earliest(d) # Off
           /\ \E t \in Active(d) : Earliest(d) = d[t]
           /\ \A t \in Active(d) : Earliest(d) <= d[t]
<1> DEFINE S == {d[t] : t \in Active(d)}
<1>1. S \subseteq Nat /\ S # {}
  BY LoopAssumption DEF Active
<1>2. Min(S) \in S /\ \A x \in S : Min(S) <= x
  BY <1>1, MinFacts
<1> QED
  BY <1>1, <1>2 DEF Earliest, Active, Off

LEMMA DisarmInTime ==
    ASSUME ProgramType, InTime, NEW t \in Timer, Disarm(t)
    PROVE  InTime'
<1> USE LoopAssumption DEF ProgramType
<1>1. CASE Active(deadline') = {}
  BY <1>1 DEF InTime
<1>2. CASE Active(deadline') # {}
  <2>1. Active(deadline') \subseteq Active(deadline)
        /\ \A u \in Active(deadline') : deadline'[u] = deadline[u]
    BY DEF Disarm, Active, Off
  <2>2. knote' = knote /\ stuck' = stuck
    BY <1>2 DEF Disarm
  <2>3. deadline' \in [Timer -> 0..MaxNow]
    BY DEF Disarm, Off
  <2>4. /\ \E u \in Active(deadline') : Earliest(deadline') = deadline'[u]
        /\ \A u \in Active(deadline) : Earliest(deadline) <= deadline[u]
        /\ Earliest(deadline) \in 0..MaxNow
    BY <1>2, <2>1, <2>3, EarliestFacts
  <2>5. Active(deadline) # {} /\ Earliest(deadline) <= Earliest(deadline')
    BY <1>2, <2>1, <2>4
  <2>6. Earliest(deadline') \in 0..MaxNow
    BY <1>2, <2>3, EarliestFacts
  <2> QED
    BY <2>2, <2>4, <2>5, <2>6 DEF InTime
<1> QED
  BY <1>1, <1>2

LEMMA ArmInTime ==
    ASSUME ProgramType, InTime, NEW t \in Timer, NEW d \in 1..MaxDelay, Arm(t, d)
    PROVE  InTime'
<1> USE LoopAssumption DEF ProgramType
<1>1. /\ now' \in 0..MaxNow /\ now + d \in 0..MaxNow
      /\ deadline' = [deadline EXCEPT ![t] = now + d]
  BY DEF Arm, Passes
<1>2. CASE now + d = Earliest(deadline') /\ SetTimer(now + d)
  BY <1>1, <1>2 DEF SetTimer, InTime, Off
<1>3. ASSUME NEW u \in Active(deadline') \ {t}, deadline'[u] <= now + d,
             UNCHANGED <<knote, stuck>>
      PROVE  InTime'
  <2>1. u \in Active(deadline) /\ deadline[u] = deadline'[u]
    BY <1>1, <1>3 DEF Active
  <2>2. deadline' \in [Timer -> 0..MaxNow]
    BY <1>1
  <2>3. PICK v \in Active(deadline') : Earliest(deadline') = deadline'[v]
    BY <1>3, <2>2, EarliestFacts
  <2>4. PICK x \in Active(deadline) : deadline[x] <= Earliest(deadline')
    <3>1. CASE v = t
      BY <1>1, <1>3, <2>1, <2>3, <3>1
    <3>2. CASE v # t
      BY <1>1, <2>3, <3>2 DEF Active
    <3> QED
      BY <3>1, <3>2
  <2>5. Earliest(deadline) <= deadline[x] /\ Earliest(deadline) \in 0..MaxNow
    BY <2>4, EarliestFacts
  <2>6. Earliest(deadline') \in 0..MaxNow /\ deadline[x] \in 0..MaxNow
    BY <1>3, <2>2, <2>4, EarliestFacts DEF Active
  <2> QED
    BY <1>3, <2>4, <2>5, <2>6 DEF InTime
<1> QED
  BY <1>2, <1>3 DEF Arm

LEMMA OpInTime ==
    ASSUME ProgramType, InTime, Op \/ UNCHANGED program
    PROVE  InTime'
<1>1. ASSUME UNCHANGED heap PROVE InTime'
  BY <1>1 DEF heap, InTime, Active, Earliest
<1>2. CASE UNCHANGED program
  BY <1>1, <1>2 DEF program, heap
<1>3. ASSUME NEW t \in Timer, TimerOp(t) PROVE InTime'
  BY <1>1, <1>3, DisarmInTime, ArmInTime DEF TimerOp, AddTimer, RemoveTimer, Stop
<1>4. ASSUME NEW w \in Watcher, WatcherOp(w) PROVE InTime'
  BY <1>1, <1>4 DEF WatcherOp, AddWatcher, RemoveWatcher
<1>5. ASSUME NEW f \in File, FileOp(f) PROVE InTime'
  BY <1>1, <1>5 DEF FileOp, AddFile, RemoveFile, Update
<1> QED
  BY <1>2, <1>3, <1>4, <1>5, OpParts

-----------------------------------------------------------------------------
(* The loop over the sources of a signal. *)

\* Those that are still to be called.
Pending == (expected \cap Watching(number)) \ heard

\* The loop is at place i of the list, and next is the link it has read there.
Here(i) == /\ signals[i] = pos
           /\ next = IF i = Len(signals) THEN None ELSE signals[i + 1]

Ahead(i) == \A w \in Pending : \E j \in i..Len(signals) : signals[j] = w

\* The loop is at a source that was removed before it came there.
Stranded == pos \in Watcher /\ state[pos] = "removed" /\ next = Lost

SignalInv ==
    pc = "signal" =>
      /\ \A w \in expected : state[w] # "free"
      /\ pos = None => next = None /\ Pending = {}
      /\ pos # None => Stranded \/ \E i \in 1..Len(signals) : Here(i) /\ Ahead(i)

LEMMA AfterFacts ==
    ASSUME NEW list \in Seq(Watcher), NEW i \in 1..Len(list),
           \A a, b \in 1..Len(list) : list[a] = list[b] => a = b
    PROVE  After(list, list[i]) = IF i = Len(list) THEN None ELSE list[i + 1]
<1>1. \A j \in DOMAIN list : list[j] = list[i] => j = i
  OBVIOUS
<1>2. (CHOOSE j \in DOMAIN list : list[j] = list[i]) = i
  BY <1>1
<1> QED
  BY <1>2 DEF After

LEMMA OrderKept ==
    ASSUME ListStep, ListOK(signals, state), ListOK(signals', state'),
           NEW a \in 1..Len(signals), NEW b \in 1..Len(signals), a <= b,
           NEW m \in 1..Len(signals'), signals'[m] = signals[a],
           NEW n \in 1..Len(signals'), signals'[n] = signals[b]
    PROVE  m <= n
<1>1. \A i, j \in 1..Len(signals) : signals[i] = signals[j] => i = j
  BY DEF ListOK
<1>2. \A i, j \in 1..Len(signals') : signals'[i] = signals'[j] => i = j
  BY DEF ListOK
<1>3. signals \in Seq(Watcher) /\ Len(signals) \in Nat
  BY DEF ListOK
<1>4. CASE UNCHANGED signals
  BY <1>1, <1>4
<1>5. ASSUME NEW w \in Watcher, signals' = <<w>> \o signals PROVE m <= n
  <2>1. /\ Len(signals') = Len(signals) + 1
        /\ \A i \in 1..Len(signals) : signals'[i + 1] = signals[i]
    BY <1>3, <1>5, PrependFacts
  <2>2. m = a + 1
    BY <1>2, <1>3, <2>1
  <2>3. n = b + 1
    BY <1>2, <1>3, <2>1
  <2> QED
    BY <2>2, <2>3
<1>6. ASSUME NEW k \in 1..Len(signals), signals' = RemoveAt(signals, k)
      PROVE  m <= n
  <2>1. /\ Len(signals') = Len(signals) - 1
        /\ \A i \in 1..(Len(signals) - 1) :
              signals'[i] = IF i < k THEN signals[i] ELSE signals[i + 1]
    BY <1>3, <1>6, RemoveAtFacts
  <2>2. a = IF m < k THEN m ELSE m + 1
    BY <1>1, <1>3, <2>1
  <2>3. b = IF n < k THEN n ELSE n + 1
    BY <1>1, <1>3, <2>1
  <2> QED
    BY <2>2, <2>3
<1> QED
  BY <1>4, <1>5, <1>6 DEF ListStep

LEMMA SignalCallStep ==
    ASSUME ProgramType, ProgramType', LoopType, SignalInv, Held, ListStep,
           SignalCall
    PROVE  /\ SignalInv' /\ {pos, next}' \subseteq Watcher \cup {None, Lost}
           /\ pc' \in {"signal", "crashed"}
           /\ pc' = "crashed" => pos' = Lost /\ next' = Lost
<1> USE SourceFacts
<1>1. /\ pc = "signal" /\ pos # None
      /\ UNCHANGED <<number, expected>> /\ Advance
      /\ heard' = IF Number[pos] = number /\ state[pos] = "live"
                    THEN heard \cup {pos} ELSE heard
  BY DEF SignalCall
<1>2. CASE next = Lost
  <2>1. pos' = Lost /\ next' = Lost /\ pc' = "crashed"
    BY <1>1, <1>2 DEF Advance, Source
  <2> QED
    BY <2>1 DEF SignalInv
<1>3. CASE next # Lost
  <2>1. PICK i \in 1..Len(signals) : Here(i) /\ Ahead(i)
    BY <1>1, <1>3 DEF SignalInv, Stranded
  <2>2. /\ \A j \in 1..Len(signals) : signals[j] \in Watcher /\ state[signals[j]] = "live"
        /\ Len(signals) \in Nat
    BY DEF ProgramType, ListOK
  <2>3. pos \in Watcher /\ state[pos] = "live" /\ pc' = "signal"
    BY <1>1, <1>3, <2>1, <2>2 DEF Here, Advance
  <2>4. \A w \in expected : state'[w] # "free"
    BY <1>1 DEF SignalInv, Held, LoopType
  <2>5. \A w \in Pending' : w \in Pending /\ w # pos /\ state'[w] = "live"
    <3> SUFFICES ASSUME NEW w \in Pending'
                 PROVE  w \in Pending /\ w # pos /\ state'[w] = "live"
      OBVIOUS
    <3>1. /\ w \in expected /\ w \in Watcher /\ state'[w] = "live"
          /\ Number[w] = number /\ w \notin heard'
      BY <1>1 DEF Pending, Watching
    <3>2. state[w] = "live"
      BY <1>1, <3>1 DEF SignalInv, Held, ProgramType
    <3> QED
      BY <1>1, <2>3, <3>1, <3>2 DEF Pending, Watching
  <2>6. CASE next = None
    <3>1. pos' = None /\ next' = None
      BY <1>1, <2>6 DEF Advance
    <3>2. i = Len(signals)
      BY <2>1, <2>2, <2>6 DEF Here
    <3>3. Pending' = {}
      BY <2>1, <2>5, <3>2 DEF Ahead, Here
    <3> QED
      BY <1>1, <2>3, <2>4, <3>1, <3>3 DEF SignalInv
  <2>7. CASE next \in Watcher /\ state'[next] # "live"
    <3>1. pos' = next /\ next' = Lost
      BY <1>1, <2>7 DEF Advance
    <3>2. state[next] = "live"
      BY <2>1, <2>2, <2>7 DEF Here
    <3>3. state'[next] = "removed"
      BY <2>7, <3>2 DEF Held, ProgramType
    <3>4. Stranded' /\ pos' # None
      BY <2>7, <3>1, <3>3 DEF Stranded
    <3> QED
      BY <1>1, <2>3, <2>4, <2>7, <3>1, <3>4 DEF SignalInv
  <2>8. CASE next \in Watcher /\ state'[next] = "live"
    <3>1. pos' = next /\ next' = After(signals', next)
      BY <1>1, <2>8 DEF Advance
    <3>2. PICK m \in 1..Len(signals') : signals'[m] = next
      BY <2>8 DEF ProgramType, ListOK
    <3>3. Here(m)'
      <4>1. (signals \in Seq(Watcher))'
            /\ \A a, b \in 1..Len(signals') : signals'[a] = signals'[b] => a = b
        BY DEF ProgramType, ListOK
      <4> QED
        BY <3>1, <3>2, <4>1, AfterFacts DEF Here
    <3>4. i + 1 \in 1..Len(signals) /\ signals'[m] = signals[i + 1]
      BY <2>1, <2>2, <2>8, <3>2 DEF Here
    <3>5. Ahead(m)'
      <4> SUFFICES ASSUME NEW w \in Pending'
                   PROVE  \E j \in m..Len(signals') : signals'[j] = w
        BY DEF Ahead
      <4>1. PICK b \in i..Len(signals) : signals[b] = w
        BY <2>1, <2>5 DEF Ahead
      <4>2. b \in 1..Len(signals) /\ i + 1 <= b
        BY <2>1, <2>2, <2>5, <4>1 DEF Here
      <4>3. PICK n \in 1..Len(signals') : signals'[n] = w
        BY <1>1, <2>5 DEF ProgramType, ListOK, Pending, LoopType
      <4>4. m <= n
        BY <3>4, <4>1, <4>2, <4>3, OrderKept DEF ProgramType
      <4> QED
        BY <4>3, <4>4
    <3>6. next' \in Watcher \cup {None}
      BY <3>2, <3>3 DEF Here, ProgramType, ListOK
    <3>7. pos' # None
      BY <2>8, <3>1
    <3> QED
      BY <1>1, <2>3, <2>4, <2>8, <3>1, <3>2, <3>3, <3>5, <3>6, <3>7 DEF SignalInv
  <2>9. next = None \/ next \in Watcher
    BY <1>3 DEF LoopType
  <2> QED
    BY <2>6, <2>7, <2>8, <2>9
<1> QED
  BY <1>2, <1>3

-----------------------------------------------------------------------------
(* The invariant. *)

\* What the dispatch holds is not freed, and it holds it no longer than it has
\* to: what it goes through is empty outside the loop that goes through it.
KeptInv ==
    /\ \A e \in batch : state[e[3]] # "free"
    /\ \A t \in due : state[t] # "free"
    /\ pc # "calls" => due = {}
    /\ pc \notin {"signal", "crashed"} => pos = None /\ next = None
    /\ pc = "crashed" => pos = Lost /\ next = Lost

LoopInv ==
    /\ ProgramType /\ LoopType
    /\ KnoteNamesLive /\ SourcesLive /\ KeptInv /\ SignalInv
    /\ pc # "timers" => InTime

LEMMA EventFacts ==
    \A e \in Event : /\ e[3] \in Source
                     /\ e[1] = "signal" => e[2] \in Signal /\ e[3] \in Watcher
  BY SourceFacts DEF Event, Filter

LEMMA CallbackStep ==
    ASSUME LoopInv, pc # "timers", Op \/ UNCHANGED program
    PROVE  /\ ProgramType' /\ Held /\ ListStep
           /\ KnoteNamesLive' /\ SourcesLive' /\ InTime'
  BY OpStep, OpLive, OpInTime DEF LoopInv

LEMMA HeldStep ==
    ASSUME LoopInv, Held
    PROVE  /\ \A e \in batch : state'[e[3]] # "free"
           /\ \A t \in due : state'[t] # "free"
  BY EventFacts, SourceFacts DEF LoopInv, LoopType, KeptInv, Held

LEMMA ProgramStep == LoopInv /\ Program => LoopInv'
<1> SUFFICES ASSUME LoopInv, Program PROVE LoopInv'
  OBVIOUS
<1>1. pc = "wait" /\ Op /\ UNCHANGED loop
  BY DEF Program
<1>2. /\ ProgramType' /\ Held
      /\ KnoteNamesLive' /\ SourcesLive' /\ InTime'
  BY <1>1, CallbackStep
<1>3. LoopType' /\ KeptInv' /\ SignalInv'
  BY <1>1, <1>2, HeldStep DEF LoopInv, LoopType, KeptInv, SignalInv, loop
<1> QED
  BY <1>2, <1>3 DEF LoopInv

LEMMA QuietStep ==
    ASSUME LoopInv, UNCHANGED <<heap, lists, ops>>, now' \in 0..MaxNow
    PROVE  /\ ProgramType' /\ KnoteNamesLive' /\ SourcesLive'
           /\ InTime => InTime'
  BY DEF LoopInv, heap, lists, ProgramType, KnoteNamesLive, Watching, SourcesLive,
         InTime, Active, Earliest

LEMMA TickStep == LoopInv /\ Tick => LoopInv'
<1> SUFFICES ASSUME LoopInv, Tick PROVE LoopInv'
  OBVIOUS
<1>1. /\ now' \in 0..MaxNow
      /\ UNCHANGED <<heap, lists, ops, loop>>
  BY LoopAssumption DEF Tick, LoopInv, ProgramType
<1>2. LoopType' /\ KeptInv' /\ SignalInv'
  BY <1>1 DEF LoopInv, lists, loop, LoopType, KeptInv, SignalInv, Pending, Watching,
              Stranded, Here, Ahead
<1> QED
  BY <1>1, <1>2, QuietStep DEF LoopInv, loop

LEMMA WaitStep ==
    ASSUME LoopInv, NEW events \in SUBSET Events, NEW fired \in BOOLEAN,
           Wait(events, fired)
    PROVE  LoopInv'
<1>1. \A e \in Events : e \in Event /\ state[e[3]] = "live"
  <2>1. ASSUME NEW n \in Signal, udata[n] # None
        PROVE  udata[n] \in Watcher /\ state[udata[n]] = "live"
    BY <2>1 DEF LoopInv, KnoteNamesLive, Watching
  <2>2. ASSUME NEW f \in File, NEW g \in Filter, g \in filters[f]
        PROVE  state[f] = "live"
    BY <2>2 DEF LoopInv, SourcesLive
  <2> QED
    BY <2>1, <2>2 DEF Events, Event
<1>2. /\ pc = "wait" /\ batch' = events /\ pc' \in {"timers", "events"}
      /\ fired => pc' = "timers"
      /\ knote' = IF fired THEN Off ELSE knote
      /\ UNCHANGED <<now, deadline, stuck, lists, ops, due, pos, next, number,
                     expected, heard>>
  BY DEF Wait
<1>3. ProgramType' /\ KnoteNamesLive' /\ SourcesLive'
  BY <1>2, LoopAssumption
  DEF LoopInv, lists, ProgramType, KnoteNamesLive, Watching, SourcesLive, Off
<1>4. LoopType' /\ KeptInv' /\ SignalInv'
  BY <1>1, <1>2 DEF LoopInv, lists, LoopType, KeptInv, SignalInv
<1>5. pc' # "timers" => InTime'
  BY <1>2 DEF LoopInv, InTime, Active, Earliest
<1> QED
  BY <1>3, <1>4, <1>5 DEF LoopInv

LEMMA DispatchTimersStep == LoopInv /\ DispatchTimers => LoopInv'
<1> SUFFICES ASSUME LoopInv, DispatchTimers PROVE LoopInv'
  OBVIOUS
<1> DEFINE ready(root) == {root} \cup {t \in Active(deadline) : deadline[t] <= now}
           rest(root) == [t \in Timer |-> IF t \in ready(root) THEN Off ELSE deadline[t]]
<1>1. PICK root \in Active(deadline) :
        /\ deadline' = rest(root)
        /\ IF Active(rest(root)) = {} THEN ClearTimer ELSE SetTimer(Earliest(rest(root)))
        /\ IF stuck' THEN pc' = "wait" /\ batch' = {} /\ UNCHANGED due
                     ELSE pc' = "calls" /\ due' = ready(root) /\ UNCHANGED batch
  BY DEF DispatchTimers
<1>2. /\ pc = "timers" /\ now' \in 0..MaxNow
      /\ UNCHANGED <<lists, ops, pos, next, number, expected, heard>>
  BY LoopAssumption DEF DispatchTimers, Passes, LoopInv, ProgramType
<1>3. ready(root) \subseteq Timer /\ \A t \in ready(root) : state[t] = "live"
  BY DEF Active, LoopInv, SourcesLive
<1>4. deadline' \in [Timer -> 0..MaxNow]
  BY <1>1, LoopAssumption DEF LoopInv, ProgramType, Off
<1>5. knote' \in 0..MaxNow /\ stuck' \in BOOLEAN /\ InTime'
  <2>1. knote \in 0..MaxNow
    BY DEF LoopInv, ProgramType
  <2>2. CASE Active(deadline') = {}
    <3>1. ClearTimer
      BY <1>1, <2>2
    <3>2. knote' \in 0..MaxNow
      BY <3>1, LoopAssumption DEF ClearTimer, Off
    <3>3. stuck' \in BOOLEAN
      BY <3>1 DEF ClearTimer
    <3> QED
      BY <2>2, <3>2, <3>3 DEF InTime
  <2>3. CASE Active(deadline') # {}
    <3>1. /\ Earliest(deadline') \in 0..MaxNow /\ Earliest(deadline') # Off
          /\ SetTimer(Earliest(deadline'))
      BY <1>1, <1>4, <2>3, EarliestFacts
    <3>2. knote' \in 0..MaxNow
      BY <2>1, <3>1 DEF SetTimer
    <3>3. stuck' \in BOOLEAN
      BY <3>1 DEF SetTimer
    <3>4. InTime'
      <4>1. CASE now' < Earliest(deadline')
        <5>1. knote' = Earliest(deadline')
          BY <3>1, <4>1 DEF SetTimer
        <5> QED
          BY <3>1, <5>1 DEF InTime
      <4>2. CASE ~(now' < Earliest(deadline'))
        BY <3>1, <4>2 DEF SetTimer, InTime
      <4> QED
        BY <4>1, <4>2
    <3> QED
      BY <3>2, <3>3, <3>4
  <2> QED
    BY <2>2, <2>3
<1>6. ProgramType' /\ KnoteNamesLive'
  BY <1>2, <1>4, <1>5
  DEF LoopInv, ProgramType, lists, KnoteNamesLive, Watching
<1>7. SourcesLive'
  BY <1>1, <1>2 DEF LoopInv, SourcesLive, lists, Off
<1>8. \/ pc' = "wait" /\ batch' = {} /\ due' = due
      \/ pc' = "calls" /\ batch' = batch /\ due' = ready(root)
  BY <1>1
<1> HIDE DEF ready
<1>9. LoopType' /\ KeptInv' /\ SignalInv'
  BY <1>2, <1>3, <1>8 DEF LoopInv, lists, LoopType, KeptInv, SignalInv
<1> QED
  BY <1>5, <1>6, <1>7, <1>9 DEF LoopInv

LEMMA TimerCallStep ==
    ASSUME LoopInv, NEW t \in Timer, CallTimer(t)
    PROVE  LoopInv'
<1>1. /\ pc = "calls" /\ due' = due \ {t}
      /\ Op \/ UNCHANGED program
      /\ UNCHANGED <<pc, batch, pos, next, number, expected, heard>>
  BY DEF CallTimer, Callback
<1>2. /\ ProgramType' /\ Held
      /\ KnoteNamesLive' /\ SourcesLive' /\ InTime'
  BY <1>1, CallbackStep
<1>3. LoopType' /\ KeptInv' /\ SignalInv'
  BY <1>1, <1>2, HeldStep DEF LoopInv, LoopType, KeptInv, SignalInv
<1> QED
  BY <1>2, <1>3 DEF LoopInv

LEMMA TimersCalledStep == LoopInv /\ TimersCalled => LoopInv'
<1> SUFFICES ASSUME LoopInv, TimersCalled PROVE LoopInv'
  OBVIOUS
<1>1. /\ pc = "calls" /\ due = {} /\ pc' = "events"
      /\ UNCHANGED <<program, batch, due, pos, next, number, expected, heard>>
  BY DEF TimersCalled
<1>2. /\ ProgramType' /\ Held
      /\ KnoteNamesLive' /\ SourcesLive' /\ InTime'
  BY <1>1, CallbackStep
<1>3. LoopType' /\ KeptInv' /\ SignalInv'
  BY <1>1, <1>2, HeldStep DEF LoopInv, LoopType, KeptInv, SignalInv
<1> QED
  BY <1>2, <1>3 DEF LoopInv

LEMMA FileEventStep ==
    ASSUME LoopInv, NEW e \in batch, FileEvent(e)
    PROVE  LoopInv'
<1>1. /\ pc = "events" /\ batch' = batch \ {e}
      /\ Op \/ UNCHANGED program
      /\ UNCHANGED <<pc, due, pos, next, number, expected, heard>>
  BY DEF FileEvent, Callback
<1>2. /\ ProgramType' /\ Held
      /\ KnoteNamesLive' /\ SourcesLive' /\ InTime'
  BY <1>1, CallbackStep
<1>3. LoopType' /\ KeptInv' /\ SignalInv'
  BY <1>1, <1>2, HeldStep DEF LoopInv, LoopType, KeptInv, SignalInv
<1> QED
  BY <1>2, <1>3 DEF LoopInv

LEMMA SignalEventStep ==
    ASSUME LoopInv, NEW e \in batch, SignalEvent(e)
    PROVE  LoopInv'
<1>1. /\ pc = "events" /\ batch' = batch \ {e} /\ UNCHANGED <<program, due>>
  BY DEF SignalEvent
<1>2. /\ ProgramType' /\ Held
      /\ KnoteNamesLive' /\ SourcesLive' /\ InTime'
  BY <1>1, CallbackStep
<1>3. /\ e[2] \in Signal /\ e[3] \in Watcher
  BY EventFacts DEF SignalEvent, LoopInv, LoopType
<1>4. CASE state[e[3]] # "live"
  <2>1. UNCHANGED <<pc, pos, next, number, expected, heard>>
    BY <1>4 DEF SignalEvent
  <2>2. LoopType' /\ KeptInv' /\ SignalInv'
    BY <1>1, <1>2, <2>1, HeldStep DEF LoopInv, LoopType, KeptInv, SignalInv
  <2> QED
    BY <1>2, <2>2 DEF LoopInv
<1>5. CASE state[e[3]] = "live"
  <2>1. /\ pc' = "signal" /\ pos' = Head(signals)
        /\ next' = After(signals, Head(signals))
        /\ number' = e[2] /\ expected' = Watching(e[2]) /\ heard' = {}
    BY <1>5 DEF SignalEvent
  <2>2. /\ signals \in Seq(Watcher) /\ Len(signals) \in Nat
        /\ \A i, j \in 1..Len(signals) : signals[i] = signals[j] => i = j
        /\ \A i \in 1..Len(signals) : signals[i] \in Watcher
        /\ \A w \in Watching(e[2]) : \E j \in 1..Len(signals) : signals[j] = w
    BY DEF LoopInv, ProgramType, ListOK, Watching
  <2>3. 1 \in 1..Len(signals) /\ Head(signals) = signals[1]
    <3>1. PICK i \in 1..Len(signals) : signals[i] = e[3]
      BY <1>3, <1>5 DEF LoopInv, ProgramType, ListOK
    <3> QED
      BY <2>2, <3>1
  <2>4. next' = IF 1 = Len(signals) THEN None ELSE signals[1 + 1]
    <3>1. After(signals, signals[1]) = IF 1 = Len(signals) THEN None ELSE signals[1 + 1]
      BY <2>2, <2>3, AfterFacts
    <3> QED
      BY <2>1, <2>3, <3>1
  <2>5. UNCHANGED signals
    BY <1>1 DEF program
  <2>6. pos' \in Watcher /\ next' \in Watcher \cup {None}
    <3>1. Len(signals) \in Nat /\ 1 <= Len(signals)
      BY <2>2, <2>3
    <3>2. CASE 1 = Len(signals)
      BY <2>1, <2>2, <2>3, <2>4, <3>2
    <3>3. CASE 1 # Len(signals)
      <4>1. 1 + 1 \in 1..Len(signals)
        <5>1. \A n \in Nat : 1 <= n /\ 1 # n => 1 + 1 \in 1..n
          OBVIOUS
        <5> QED
          BY <3>1, <3>3, <5>1
      <4>2. signals[1 + 1] \in Watcher /\ signals[1] \in Watcher
        BY <2>2, <2>3, <4>1
      <4> QED
        BY <2>1, <2>3, <2>4, <3>3, <4>2
    <3> QED
      BY <3>2, <3>3
  <2>7. Here(1)' /\ Ahead(1)'
    <3>1. Pending' \subseteq Watching(e[2])
      BY <2>1 DEF Pending
    <3> QED
      BY <2>1, <2>2, <2>3, <2>4, <2>5, <3>1 DEF Here, Ahead
  <2>8. \A w \in expected' : state'[w] # "free"
    BY <1>1, <2>1 DEF Watching, program
  <2>9. pos' # None
    BY <2>6, SourceFacts
  <2>10. LoopType' /\ KeptInv' /\ SignalInv'
    <3>1. expected' \subseteq Watcher /\ number' \in Signal
      BY <1>3, <2>1 DEF Watching
    <3>2. LoopType'
      BY <1>1, <2>1, <2>6, <3>1 DEF LoopInv, LoopType
    <3>3. SignalInv'
      BY <2>1, <2>3, <2>5, <2>7, <2>8, <2>9 DEF SignalInv
    <3>4. KeptInv'
      BY <1>1, <1>2, <2>1, HeldStep DEF LoopInv, KeptInv
    <3> QED
      BY <3>2, <3>3, <3>4
  <2> QED
    BY <1>2, <2>10 DEF LoopInv
<1> QED
  BY <1>4, <1>5

LEMMA SignalLoopStep == LoopInv /\ SignalCall => LoopInv'
<1> SUFFICES ASSUME LoopInv, SignalCall PROVE LoopInv'
  OBVIOUS
<1>1. pc = "signal" /\ UNCHANGED <<batch, due, number, expected>>
  BY DEF SignalCall
<1>2. /\ heard' \in {heard, heard \cup {pos}}
      /\ Op \/ UNCHANGED program
  BY DEF SignalCall, Callback
<1>3. /\ ProgramType' /\ Held /\ ListStep
      /\ KnoteNamesLive' /\ SourcesLive' /\ InTime'
  BY <1>1, <1>2, CallbackStep
<1>4. /\ SignalInv' /\ {pos, next}' \subseteq Watcher \cup {None, Lost}
      /\ pc' \in {"signal", "crashed"}
      /\ pc' = "crashed" => pos' = Lost /\ next' = Lost
  BY <1>3, SignalCallStep DEF LoopInv
<1>5. pos \in Watcher
  <2>1. pos # None
    BY DEF SignalCall
  <2>2. Stranded \/ \E i \in 1..Len(signals) : signals[i] = pos
    BY <1>1, <2>1 DEF LoopInv, SignalInv, Here
  <2> QED
    BY <2>2 DEF Stranded, LoopInv, ProgramType, ListOK
<1>6. LoopType'
  <2>1. heard' \subseteq Watcher
    BY <1>2, <1>5 DEF LoopInv, LoopType
  <2> QED
    <3>1. LoopType
      BY DEF LoopInv
    <3>2. /\ batch' = batch /\ due' = due /\ number' = number
          /\ expected' = expected
      BY <1>1
    <3>3. /\ batch' \subseteq Event /\ due' \subseteq Timer
          /\ number' \in Signal \cup {Off} /\ expected' \subseteq Watcher
      BY <3>1, <3>2 DEF LoopType
    <3> QED
      BY <1>4, <2>1, <3>3 DEF LoopType
<1>7. KeptInv'
  <2>1. due = {} /\ due' = {} /\ batch' = batch
    BY <1>1 DEF LoopInv, KeptInv
  <2> QED
    BY <1>3, <1>4, <2>1, HeldStep DEF KeptInv
<1> QED
  BY <1>3, <1>4, <1>6, <1>7 DEF LoopInv

LEMMA SignalDoneStep == LoopInv /\ SignalDone => LoopInv'
<1> SUFFICES ASSUME LoopInv, SignalDone PROVE LoopInv'
  OBVIOUS
<1>1. /\ pc = "signal" /\ pos = None /\ pc' = "events" /\ number' = Off
      /\ UNCHANGED <<program, batch, due, pos, next, expected, heard>>
  BY DEF SignalDone
<1>2. /\ ProgramType' /\ Held
      /\ KnoteNamesLive' /\ SourcesLive' /\ InTime'
  BY <1>1, CallbackStep
<1>3. next = None
  BY <1>1 DEF LoopInv, SignalInv
<1>4. LoopType' /\ KeptInv' /\ SignalInv'
  BY <1>1, <1>2, <1>3, HeldStep DEF LoopInv, LoopType, KeptInv, SignalInv
<1> QED
  BY <1>2, <1>4 DEF LoopInv

LEMMA DestroyStep == LoopInv /\ Destroy => LoopInv'
<1> SUFFICES ASSUME LoopInv, Destroy PROVE LoopInv'
  OBVIOUS
<1>1. /\ pc = "events" /\ batch = {} /\ pc' = "wait"
      /\ UNCHANGED <<now, heap, signals, udata, filters, ops, batch, due, pos, next,
                     number, expected, heard>>
  BY DEF Destroy
<1>2. /\ state' \in [Source -> {"free", "live", "removed"}]
      /\ \A s \in Source : state'[s] = "live" <=> state[s] = "live"
  BY DEF Destroy, LoopInv, ProgramType
<1>3. ListOK(signals', state')
  BY <1>1, <1>2, SourceFacts DEF LoopInv, ProgramType, ListOK
<1>4. ProgramType' /\ KnoteNamesLive' /\ SourcesLive' /\ InTime'
  BY <1>1, <1>2, <1>3, SourceFacts
  DEF LoopInv, ProgramType, heap, KnoteNamesLive, Watching, SourcesLive, InTime,
      Active, Earliest
<1>5. LoopType' /\ KeptInv' /\ SignalInv'
  BY <1>1 DEF LoopInv, LoopType, KeptInv, SignalInv
<1> QED
  BY <1>4, <1>5 DEF LoopInv

LEMMA LoopInit == Init => LoopInv
<1> SUFFICES ASSUME Init PROVE LoopInv
  OBVIOUS
<1> USE LoopAssumption DEF Init
<1>1. \A s \in Source : state[s] = "free"
  OBVIOUS
<1>2. ListOK(signals, state)
  BY <1>1, SourceFacts DEF ListOK
<1>3. ProgramType
  <2>1. ops \in 0..MaxOp /\ now \in 0..MaxNow /\ knote \in 0..MaxNow
    BY DEF Off
  <2>4. stuck \in BOOLEAN
    OBVIOUS
  <2>2. deadline \in [Timer -> 0..MaxNow]
    BY DEF Off
  <2>3. /\ state \in [Source -> {"free", "live", "removed"}]
        /\ udata \in [Signal -> Watcher \cup {None}]
        /\ filters \in [File -> SUBSET Filter]
    OBVIOUS
  <2> QED
    BY <1>2, <2>1, <2>2, <2>3, <2>4 DEF ProgramType
<1>4. LoopType
  BY DEF LoopType
<1>5. KnoteNamesLive
  BY <1>1, SourceFacts DEF KnoteNamesLive, Watching
<1>6. SourcesLive /\ KeptInv /\ SignalInv
  BY DEF SourcesLive, KeptInv, SignalInv
<1>7. Active(deadline) = {}
  BY DEF Active
<1> QED
  BY <1>3, <1>4, <1>5, <1>6, <1>7 DEF LoopInv, InTime

LEMMA LoopInvariant == Spec => []LoopInv
<1>1. LoopInv /\ [Next]_vars => LoopInv'
  <2> SUFFICES ASSUME LoopInv, [Next]_vars PROVE LoopInv'
    OBVIOUS
  <2>1. CASE UNCHANGED vars
    <3>1. /\ UNCHANGED <<heap, lists, ops>> /\ now' \in 0..MaxNow
          /\ UNCHANGED <<pc, batch, due, pos, next, number, expected, heard>>
      BY <2>1 DEF vars, heap, lists, LoopInv, ProgramType
    <3>2. LoopType' /\ KeptInv' /\ SignalInv'
      BY <3>1 DEF LoopInv, lists, LoopType, KeptInv, SignalInv, Pending, Watching,
                  Stranded, Here, Ahead
    <3> QED
      BY <3>1, <3>2, QuietStep DEF LoopInv
  <2>2. CASE Dispatch
    BY <2>2, DispatchTimersStep, TimersCalledStep, SignalLoopStep, SignalDoneStep,
       DestroyStep, TimerCallStep, FileEventStep, SignalEventStep
    DEF Dispatch
  <2> QED
    BY <2>1, <2>2, ProgramStep, TickStep, WaitStep DEF Next
<1> QED
  BY LoopInit, <1>1, PTL DEF Spec

-----------------------------------------------------------------------------

\* No event of the batch, no timer that is to be called and no end of the signal
\* loop is freed memory, whatever the callbacks add and remove: destroy_list is
\* emptied when the dispatch goes through nothing any more.
THEOREM MemorySafe == Spec => []NoUseAfterFree
<1>1. LoopInv => NoUseAfterFree
  <2> SUFFICES ASSUME LoopInv PROVE NoUseAfterFree
    OBVIOUS
  <2>1. TypeOK
    BY TypeParts DEF LoopInv
  <2>2. ASSUME NEW w \in {pos, next} \cap Watcher PROVE state[w] # "free"
    <3>1. w # None /\ w # Lost
      BY SourceFacts
    <3>2. pc = "signal" /\ pos # None
      BY <2>2, <3>1 DEF LoopInv, KeptInv, SignalInv
    <3>3. CASE Stranded
      BY <2>2, <3>1, <3>3 DEF Stranded
    <3>4. ASSUME NEW i \in 1..Len(signals), Here(i) PROVE state[w] # "free"
      <4>1. \E j \in 1..Len(signals) : signals[j] = w
        BY <2>2, <3>1, <3>4 DEF Here, LoopInv, ProgramType, ListOK
      <4> QED
        BY <4>1 DEF LoopInv, ProgramType, ListOK
    <3> QED
      BY <3>2, <3>3, <3>4 DEF LoopInv, SignalInv
  <2> QED
    BY <2>1, <2>2 DEF NoUseAfterFree, LoopInv, KeptInv
<1> QED
  BY LoopInvariant, <1>1, PTL

\* The one knote of a signal is there as long as any source watches the signal,
\* and names one that does: it is repointed when the source it names is removed.
THEOREM KnotesNameLive == Spec => []KnoteNamesLive
<1>1. LoopInv => KnoteNamesLive
  BY DEF LoopInv
<1> QED
  BY LoopInvariant, <1>1, PTL

\* While the loop waits, the one timer knote fires in time for the earliest of
\* all timers, unless set_timer has failed since it was last armed.
THEOREM ArmedInTime == Spec => []TimerIsArmed
<1>1. LoopInv => TimerIsArmed
  BY DEF LoopInv, InTime, TimerIsArmed
<1> QED
  BY LoopInvariant, <1>1, PTL

\* A loop over signal_list that comes to its end has called every source of the
\* signal that was there when it began and still is, however callbacks changed the
\* list under it; one whose next source a callback removed comes to no end.
THEOREM AllHear == Spec => []SignalReachesAll
<1>1. LoopInv => SignalReachesAll
  BY DEF LoopInv, SignalInv, SignalReachesAll, Pending
<1> QED
  BY LoopInvariant, <1>1, PTL
=============================================================================
