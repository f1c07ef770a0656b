---------------------------- MODULE PortsTreeProofs ----------------------------
(* Proofs about PortsnapFetch, alone and beside PortsTree, for any history of  *)
(* snapshots and any paths that REFUSE matches: what no killed run disturbs,   *)
(* what runs come to that are killed and resumed; then what the ports tree     *)
(* holds, for any number of fetches, extracts and updates killed.              *)
EXTENDS PortsTree, WellFoundedInduction, TLAPS

-----------------------------------------------------------------------------
(* PortsnapFetch: definitions. *)

SnapshotPc == {"snapshot_tag", "tarball", "rm_tag", "rm_INDEX", "rm_tINDEX",
               "rm_files", "mv_tag.new", "mv_tINDEX.new", "mv_INDEX.new", "mv_snap"}
UpdatePc == {"update_tag", "meta_patch", "meta_fetch", "index", "patch", "fetch",
             "remove", "mv_INDEX", "mv_tINDEX", "mv_tag"}

FetchTyping ==
    /\ TypeOK
    /\ pc \notin {"idle", "snapshot_tag", "update_tag"} => target \in Snapshot

\* What the lines of INDEX should be at snapshot s.
Agrees(lines, s) ==
    /\ lines \subseteq Path \X Version
    /\ \A l \in Path \X Version : l[1] \notin Refuse => (l \in lines <=> l \in History[s])

\* The work directory before the first fetch, and at a snapshot.
Blank == ~dir /\ tag = NoTag /\ index = NoFile /\ tindex = NoFile
AtTag == tag \in Snapshot /\ index \subseteq Line /\ Agrees(index, tag) /\ tindex = TIndex(tag)
Complete == dir /\ AtTag /\ Whole(index) /\ Whole(tindex)

SoundInv ==
    /\ FetchTyping
    /\ NoneShort
    /\ result = "ok" => pc = "idle" /\ Complete
    /\ pc = "idle" => Blank \/ Complete
    /\ pc \in {"snapshot_tag", "tarball", "rm_tag", "rm_INDEX", "rm_tINDEX", "rm_files",
               "mv_tag.new"} => Blank
    /\ pc \in SnapshotPc \ {"snapshot_tag", "tarball"} => newindex = History[target]
    /\ pc \in {"mv_tINDEX.new", "mv_INDEX.new"} => index = NoFile
    /\ pc \in {"mv_tINDEX.new", "mv_INDEX.new", "mv_snap"} => tag = target
    /\ pc \in {"mv_INDEX.new", "mv_snap"} => tindex = TIndex(target)
    /\ pc = "mv_snap" => index = newindex
    /\ pc \in {"update_tag", "meta_patch", "meta_fetch", "index", "patch", "fetch",
               "remove"} => Complete
    /\ pc \in UpdatePc => dir
    /\ pc \in UpdatePc \ {"update_tag"} => tag \in Snapshot /\ tag < target
    /\ pc = "meta_fetch" => \A l \in TIndex(target) : Exists(l) \/ l \in patchlist
    /\ pc \in UpdatePc \ {"update_tag", "meta_patch", "meta_fetch"} => Whole(TIndex(target))
    /\ pc \in {"patch", "fetch", "remove", "mv_INDEX", "mv_tINDEX", "mv_tag"} =>
         /\ Agrees(newindex, target)
         /\ \A l \in newindex : l[1] \in Refuse => files[l] = "whole"
    /\ pc = "fetch" => \A l \in newindex : \/ Exists(l) \/ l \in patchlist
                                           \/ \A k \in index : k[1] # l[1]
    /\ pc \in {"remove", "mv_INDEX", "mv_tINDEX", "mv_tag"} => Whole(newindex)
    /\ pc = "mv_INDEX" => AtTag
    /\ pc \in {"mv_tINDEX", "mv_tag"} => index = newindex
    /\ pc = "mv_tag" => tindex = TIndex(target)

AllHere(lines) == \A l \in lines : Exists(l)

\* What fetch_run and fetch_snapshot do, and in which order.
ControlInv ==
    /\ FetchTyping
    /\ result = "ok" => pc = "idle" /\ Ready
    /\ pc \in {"snapshot_tag", "tarball", "rm_tag"} => ~Ready
    /\ pc \in {"rm_INDEX", "rm_tINDEX", "rm_files", "mv_tag.new"} => tag = NoTag
    /\ pc \in {"rm_tINDEX", "rm_files", "mv_tag.new", "mv_tINDEX.new", "mv_INDEX.new"}
         => index = NoFile
    /\ pc \in {"mv_tag.new", "mv_tINDEX.new", "mv_INDEX.new", "mv_snap"} => ~dir
    /\ pc \in SnapshotPc \ {"snapshot_tag", "tarball"} => newindex = History[target]
    /\ pc \in {"mv_tINDEX.new", "mv_INDEX.new", "mv_snap"} => tag = target
    /\ pc \in {"mv_INDEX.new", "mv_snap"} => tindex = TIndex(target)
    /\ pc = "mv_snap" => index = newindex
    /\ pc \in UpdatePc => Ready
    /\ pc \in {"mv_tINDEX", "mv_tag"} => index = newindex
    /\ pc = "mv_tag" => tindex = TIndex(target)

\* A work directory that no clean-up has touched since the last run that finished
\* its own; and what there is once one has begun.
Settled ==
    /\ tindex = TIndex(tag)
    /\ AllHere(index \cup tindex)
    /\ Whole(tindex) => Agrees(index, tag)

Left(aim) == AllHere(TIndex(aim[1])) /\ AllHere(aim[2])

BegunInv ==
    /\ ~Ready => begun = {}
    /\ Ready /\ begun = {} => Settled
    /\ \A aim \in begun : begun = {aim} => Left(aim)

\* The run goes for the same snapshot as the one whose clean-up it finds, if any,
\* and has read the same INDEX.
SameSnapshot == \A aim \in begun : begun = {aim} /\ aim[1] = Hash(target)
Resumed == begun \subseteq {Aim}

\* How far such a run has come.
FetchedInv ==
    /\ pc = "meta_fetch" /\ SameSnapshot =>
         \A l \in TIndex(target) : \/ Exists(l) \/ l \in patchlist
                                   \/ \A k \in tindex : k[1] # l[1]
    /\ pc \in {"index", "patch", "fetch", "remove", "mv_INDEX", "mv_tINDEX", "mv_tag"}
         /\ SameSnapshot => AllHere(TIndex(target))
    /\ pc \in {"patch", "fetch", "remove", "mv_INDEX", "mv_tINDEX", "mv_tag"}
         /\ SameSnapshot /\ Whole(TIndex(target)) => Agrees(newindex, target)
    /\ pc = "fetch" /\ Resumed =>
         \A l \in newindex : \/ Exists(l) \/ l \in patchlist
                             \/ \A k \in index : k[1] # l[1]
    /\ pc \in {"remove", "mv_INDEX", "mv_tINDEX", "mv_tag"} /\ Resumed => AllHere(newindex)
    /\ pc \in {"mv_INDEX", "mv_tINDEX", "mv_tag"} => Aim \in begun

ResumeInv == ControlInv /\ BegunInv /\ FetchedInv

-----------------------------------------------------------------------------
(* Lines and hashes. *)

LEMMA NatWellFounded ==
    \E R : /\ IsWellFoundedOn(R, Nat)
           /\ \A x, y \in Nat : x < y => <<x, y>> \in R
<1> DEFINE R == OpToRel(<, Nat)
<1>1. IsWellFoundedOn(R, Nat)
  BY Zenon, NatLessThanWellFounded
<1>2. \A x, y \in Nat : x < y => <<x, y>> \in R
  BY Zenon DEF OpToRel
<1> HIDE DEF R
<1> QED
  BY <1>1, <1>2

LEMMA HashFacts ==
    ASSUME NEW s \in Snapshot
    PROVE  Hash(s) \in Snapshot /\ History[Hash(s)] = History[s]
<1> DEFINE S == {r \in Snapshot : History[r] = History[s]}
<1>1. PICK R : /\ IsWellFoundedOn(R, Nat)
               /\ \A x, y \in Nat : x < y => <<x, y>> \in R
  BY NatWellFounded
<1>2. S \subseteq Nat /\ S # {} /\ Snapshot = 1..Len(History) /\ Len(History) \in Nat
  BY HistoryAssumption DEF Snapshot
<1>3. PICK x \in S : \A y \in S : ~(<<y, x>> \in R)
  <2>1. IsWellFoundedOn(R, Nat)
    BY <1>1
  <2> HIDE DEF S
  <2> QED
    BY ZenonT(30), <1>2, <2>1, WFMin
<1>4. \A y \in S : ~(y < x)
  <2> HIDE DEF S
  <2> QED
    BY Zenon, <1>1, <1>2, <1>3
<1>5. \A q \in 1..(x - 1) : History[q] # History[s]
  <2> TAKE q \in 1..(x - 1)
  <2>1. x \in 1..Len(History)
    BY <1>2, <1>3
  <2>2. q \in Snapshot /\ q < x
    BY <1>2, <2>1
  <2> QED
    BY <1>4, <2>2
<1> QED
  BY <1>5 DEF Hash

LEMMA SameHash ==
    ASSUME NEW r \in Snapshot, NEW s \in Snapshot
    PROVE  Hash(r) = Hash(s) <=> History[r] = History[s]
<1>1. Hash(r) = Hash(s) => History[r] = History[s]
  BY HashFacts
<1>2. History[r] = History[s] => Hash(r) = Hash(s)
  BY DEF Hash
<1> QED
  BY <1>1, <1>2

LEMMA SnapshotFacts ==
    /\ Snapshot = 1..Len(History) /\ Len(History) \in Nat
    /\ \A s \in Snapshot : History[s] \subseteq Path \X Version /\ History[s] \subseteq Line
    /\ \A s \in Snapshot : \A k, l \in History[s] : k[1] = l[1] => k = l
    /\ NoTag \notin Snapshot
<1>1. Snapshot = 1..Len(History) /\ Len(History) \in Nat
  BY HistoryAssumption DEF Snapshot
<1>2. \A s \in Snapshot : History[s] \in SUBSET (Path \X Version)
  BY <1>1, HistoryAssumption
<1>3. \A s \in Snapshot : \A k, l \in History[s] : k[1] = l[1] => k = l
  BY HistoryAssumption DEF Snapshot
<1>4. NoTag \notin Snapshot
  BY <1>1 DEF NoTag
<1> QED
  BY <1>1, <1>2, <1>3, <1>4 DEF Line

LEMMA LineFacts ==
    /\ \A l \in Line : l[1] \in Refuse => l \in Path \X Version
    /\ \A lines \in SUBSET Line : lines # NoFile
    /\ \A k \in NoFile : k[1] \notin Refuse
<1>1. <<"none", 0>>[1] = "none" /\ "none" # "INDEX"
  OBVIOUS
<1>2. \A l \in Line : l[1] \in Path \cup {"INDEX"} /\ (l[1] # "INDEX" => l \in Path \X Version)
  BY DEF Line
<1>3. <<"none", 0>> \notin Line
  BY <1>1, <1>2, PathAssumption
<1> QED
  BY <1>1, <1>2, <1>3, PathAssumption DEF NoFile

LEMMA TIndexFacts ==
    ASSUME NEW s \in Snapshot
    PROVE  /\ TIndex(s) \subseteq Line /\ TIndex(s) # NoFile
           /\ \A l \in TIndex(s) : l[1] = "INDEX" /\ l \notin Path \X Version
                                   /\ l[1] \notin Refuse
           /\ \E l \in TIndex(s) : TIndex(s) = {l}
           /\ \A r \in Snapshot : Hash(r) = Hash(s) <=> TIndex(r) = TIndex(s)
<1>1. TIndex(s) = {<<"INDEX", Hash(s)>>} /\ <<"INDEX", Hash(s)>> \in Line
  BY HashFacts DEF TIndex, Line
<1>2. <<"INDEX", Hash(s)>>[1] = "INDEX" /\ \A l \in Path \X Version : l[1] # "INDEX"
  BY PathAssumption
<1>3. \A r \in Snapshot : Hash(r) = Hash(s) <=> TIndex(r) = TIndex(s)
  <2> TAKE r \in Snapshot
  <2>1. <<"INDEX", Hash(r)>>[2] = Hash(r) /\ <<"INDEX", Hash(s)>>[2] = Hash(s)
    OBVIOUS
  <2> QED
    BY <2>1 DEF TIndex
<1> QED
  BY <1>1, <1>2, <1>3, LineFacts, PathAssumption

LEMMA StoreFacts ==
    ASSUME NEW kept, NEW l \in Line
    PROVE  Store(kept)[l] = IF l \in kept THEN "whole" ELSE files[l]
  BY DEF Store

LEMMA WithoutFacts ==
    ASSUME NEW gone, NEW l \in Line
    PROVE  Without(gone)[l] = IF l \in gone THEN "none" ELSE files[l]
  BY DEF Without

-----------------------------------------------------------------------------
(* Typing. *)

LEMMA FetchTypingInit == Init => FetchTyping
<1> SUFFICES ASSUME Init PROVE FetchTyping
  OBVIOUS
<1>1. files \in [Line -> {"none", "short", "whole"}]
  BY DEF Init
<1>2. crashes \in 0..MaxCrash
  BY CrashAssumption DEF Init
<1>3. dir \in BOOLEAN /\ tag = NoTag /\ index = NoFile /\ tindex = NoFile /\ target = NoTag
  BY DEF Init
<1>4. pc = "idle" /\ newindex = {} /\ patchlist = {} /\ result = "none"
  BY DEF Init
<1>5. begun = {}
  BY DEF Init
<1> QED
  BY <1>1, <1>2, <1>3, <1>4, <1>5 DEF FetchTyping, TypeOK

LEMMA FetchTypingStep == FetchTyping /\ [Next]_vars => FetchTyping'
<1> SUFFICES ASSUME FetchTyping, [Next]_vars PROVE FetchTyping'
  OBVIOUS
<1> USE DEF FetchTyping, TypeOK
<1>1. CASE FetchRun
  BY <1>1 DEF FetchRun, Go, disk, run
<1>2. CASE FetchFails
  BY <1>2 DEF FetchFails, Return, Forget, Go, disk
<1>3. CASE FetchSnapshot
  <2>1. CASE \E s \in Snapshot : SnapshotTag(s)
    BY <2>1 DEF SnapshotTag, Go, disk
  <2>2. CASE SnapshotTarball
    BY <2>2, SnapshotFacts DEF SnapshotTarball, Go, disk
  <2>3. CASE RemoveTag \/ RemoveIndex \/ RemoveTIndex
    BY <2>3 DEF RemoveTag, RemoveIndex, RemoveTIndex, Go, run
  <2>7. CASE InstallTag \/ InstallIndex
    BY <2>7 DEF InstallTag, InstallIndex, Go, run
  <2>4. CASE RemoveFiles
    BY <2>4 DEF RemoveFiles, Go, run
  <2>5. CASE InstallTIndex
    BY <2>5, TIndexFacts DEF InstallTIndex, Go, run
  <2>6. CASE InstallFiles
    BY <2>6 DEF InstallFiles, Store, Go, run
  <2> QED
    BY <1>3, <2>1, <2>2, <2>3, <2>4, <2>5, <2>6, <2>7 DEF FetchSnapshot
<1>4. CASE \E s \in Snapshot : UpdateTag(s)
  BY <1>4 DEF UpdateTag, Return, Forget, Go, disk
<1>5. CASE SomePatches
  <2>1. \A old : Patches(old, newindex) \subseteq Line
    BY DEF Patches
  <2>2. pc = "meta_patch" => \A old : Patches(old, TIndex(target)) \subseteq Line
    BY TIndexFacts DEF Patches
  <2>3. \A made : Store(made) \in [Line -> {"none", "short", "whole"}]
    BY DEF Store
  <2> QED
    BY <1>5, <2>1, <2>2, <2>3 DEF SomePatches, MetaPatch, Patch, Go
<1>6. CASE SomeFiles
  BY <1>6 DEF SomeFiles, MetaFetch, Fetch, Store, Return, Forget, Go, run
<1>7. CASE ReadIndex
  <2>1. target \in Snapshot
    BY <1>7 DEF ReadIndex, Go
  <2>2. {k \in index : k[1] \in Refuse} \subseteq Line
    BY LineFacts
  <2>3. newindex' \subseteq Line
    BY <1>7, <2>1, <2>2, SnapshotFacts DEF ReadIndex
  <2> QED
    BY <1>7, <2>1, <2>3 DEF ReadIndex, Go, disk
<1>8. CASE ReadIndexFails
  BY <1>8 DEF ReadIndexFails, Return, Forget, Go, disk
<1>0. pc = "remove" => begun \cup {Aim} \subseteq Snapshot \X SUBSET Line
  BY HashFacts DEF Aim
<1>9. CASE RemoveOld \/ UpdateIndex \/ UpdateTIndex \/ UpdateDone
  BY <1>0, <1>9, TIndexFacts DEF RemoveOld, UpdateIndex, UpdateTIndex, UpdateDone, Without, Return, Forget, Go, run
<1>10. CASE Crash
  BY <1>10, CrashAssumption DEF Crash, Killed, Return, Forget, Go, disk
<1>11. CASE CrashInRemove
  BY <1>0, <1>11, CrashAssumption DEF CrashInRemove, Killed, Without, Return, Forget, Go, disk
<1>12. CASE CrashInGzip
  BY <1>12, CrashAssumption DEF CrashInGzip, Killed, Return, Forget, Go, disk
<1>13. CASE UNCHANGED vars
  BY <1>13 DEF vars
<1> QED
  BY <1>1, <1>2, <1>3, <1>4, <1>5, <1>6, <1>7, <1>8, <1>9, <1>10, <1>11, <1>12, <1>13
     DEF Next, Step, FetchUpdate

THEOREM FetchTypes == Spec => []TypeOK
<1>1. Init => FetchTyping
  BY FetchTypingInit
<1>2. FetchTyping /\ [Next]_vars => FetchTyping'
  BY FetchTypingStep
<1>3. FetchTyping => TypeOK
  BY DEF FetchTyping
<1> QED
  BY <1>1, <1>2, <1>3, PTL DEF Spec

-----------------------------------------------------------------------------
(* No run is killed. *)

LEMMA SoundInit == Init => SoundInv
<1> SUFFICES ASSUME Init PROVE SoundInv
  OBVIOUS
<1>1. NoneShort
  BY DEF Init, NoneShort
<1> QED
  BY <1>1, FetchTypingInit DEF Init, SoundInv, Blank, SnapshotPc, UpdatePc

LEMMA CompleteReady == Complete => Ready
  BY LineFacts, SnapshotFacts, TIndexFacts DEF Complete, AtTag, Ready

LEMMA SoundStep == MaxCrash = 0 /\ SoundInv /\ [Next]_vars => SoundInv'
<1> SUFFICES ASSUME MaxCrash = 0, SoundInv, [Next]_vars PROVE SoundInv'
  OBVIOUS
<1>0. FetchTyping /\ FetchTyping'
  BY FetchTypingStep DEF SoundInv
<1>00. /\ files \in [Line -> {"none", "short", "whole"}]
       /\ newindex \subseteq Line /\ patchlist \subseteq Line
       /\ pc \notin {"idle", "snapshot_tag", "update_tag"} => target \in Snapshot
  BY <1>0 DEF FetchTyping, TypeOK
<1> USE DEF SoundInv, SnapshotPc, UpdatePc
<1>1. CASE FetchRun
  <2>1. UNCHANGED <<files, dir, tag, index, tindex>> /\ pc = "idle" /\ result' = "none"
    BY <1>1 DEF FetchRun, Go, disk
  <2>2. Complete' = Complete /\ Blank' = Blank /\ NoneShort' = NoneShort
    BY <2>1 DEF Complete, Blank, AtTag, Agrees, Whole, NoneShort
  <2>3. Blank => ~Ready
    BY DEF Blank, Ready
  <2>4. CASE Ready
    BY <1>0, <1>1, <2>1, <2>2, <2>3, <2>4 DEF FetchRun, Go, Complete
  <2>5. CASE ~Ready
    BY <1>0, <1>1, <2>1, <2>2, <2>5, CompleteReady DEF FetchRun, Go
  <2> QED
    BY <2>4, <2>5
<1>2. CASE FetchFails
  BY <1>0, <1>2 DEF FetchFails, Return, Forget, Go, disk, Complete, Blank, AtTag, Agrees, Whole, NoneShort
<1>3. CASE FetchSnapshot
  <2>1. CASE \E s \in Snapshot : SnapshotTag(s)
    BY <1>0, <2>1 DEF SnapshotTag, Go, disk, Blank, NoneShort
  <2>2. CASE SnapshotTarball
    BY <1>0, <2>2 DEF SnapshotTarball, Go, disk, Blank, NoneShort
  <2>3. CASE RemoveTag \/ RemoveIndex \/ RemoveTIndex
    BY <1>0, <2>3 DEF RemoveTag, RemoveIndex, RemoveTIndex, Go, run, Blank, NoneShort
  <2>4. CASE RemoveFiles
    BY <1>0, <2>4 DEF RemoveFiles, Go, run, Blank, NoneShort
  <2>5. CASE InstallTag \/ InstallTIndex \/ InstallIndex
    BY <1>0, <2>5 DEF InstallTag, InstallTIndex, InstallIndex, Go, run, Blank, NoneShort
  <2>6. CASE InstallFiles
    <3>1. /\ pc = "mv_snap" /\ pc' = "update_tag" /\ dir' /\ result' = result
          /\ files' = Store(TIndex(target) \cup newindex)
          /\ UNCHANGED <<tag, index, tindex, newindex, target>>
      BY <2>6 DEF InstallFiles, Go, run
    <3>2. target \in Snapshot /\ tag = target /\ index = History[target] /\ tindex = TIndex(target)
      BY <1>00, <3>1
    <3>3. AtTag'
      BY <3>1, <3>2, SnapshotFacts DEF AtTag, Agrees
    <3>4. Whole(index)' /\ Whole(tindex)'
      BY <3>1, <3>2, StoreFacts, SnapshotFacts, TIndexFacts DEF Whole
    <3>5. NoneShort'
      BY <3>1, StoreFacts DEF NoneShort
    <3> QED
      BY <1>0, <3>1, <3>3, <3>4, <3>5 DEF Complete
  <2> QED
    BY <1>3, <2>1, <2>2, <2>3, <2>4, <2>5, <2>6 DEF FetchSnapshot
<1>4. CASE \E s \in Snapshot : UpdateTag(s)
  BY <1>0, <1>4, SnapshotFacts DEF UpdateTag, Return, Forget, Go, disk, Complete, AtTag, Agrees, Whole, NoneShort
<1>5. CASE SomePatches
  <2>1. CASE pc = "meta_patch"
    <3>1. PICK made : MetaPatch(made)
      BY <1>5, <2>1 DEF SomePatches
    <3>2. /\ pc' = "meta_fetch" /\ patchlist' = Patches(tindex, TIndex(target))
          /\ files' = Store(made)
          /\ UNCHANGED <<dir, tag, index, tindex, target, newindex, result>>
      BY <3>1 DEF MetaPatch, Go
    <3>3. target \in Snapshot /\ Complete /\ result # "ok"
      BY <1>00, <2>1
    <3>4. Complete' /\ NoneShort'
      BY <3>2, <3>3, StoreFacts, TIndexFacts DEF Complete, AtTag, Agrees, Whole, NoneShort
    <3>5. ASSUME NEW l \in TIndex(target), ~Exists(l)' PROVE l \in patchlist'
      <4>1. l \in Line /\ ~Exists(l)
        BY <3>2, <3>3, <3>5, StoreFacts, TIndexFacts DEF Exists
      <4>2. PICK k \in tindex : k[1] = l[1]
        BY <3>3, TIndexFacts DEF Complete, AtTag
      <4>3. Exists(k) /\ k # l
        BY <3>3, <4>1, <4>2 DEF Complete, Whole, Exists
      <4> QED
        BY <3>2, <4>1, <4>2, <4>3 DEF Patches
    <3> QED
      BY <1>0, <2>1, <3>2, <3>3, <3>4, <3>5 DEF Complete
  <2>2. CASE pc = "patch"
    <3>1. PICK made : Patch(made)
      BY <1>5, <2>2 DEF SomePatches
    <3>2. /\ pc' = "fetch" /\ patchlist' = Patches(index, newindex)
          /\ files' = Store(made)
          /\ UNCHANGED <<dir, tag, index, tindex, target, newindex, result>>
      BY <3>1 DEF Patch, Go
    <3>3. target \in Snapshot /\ Complete /\ result # "ok" /\ Whole(TIndex(target))
      BY <1>00, <2>2
    <3>4. Complete' /\ NoneShort' /\ Whole(TIndex(target))'
      BY <3>2, <3>3, StoreFacts, TIndexFacts DEF Complete, AtTag, Agrees, Whole, NoneShort
    <3>5. ASSUME NEW l \in newindex, ~Exists(l)' PROVE l \in patchlist' \/ \A k \in index : k[1] # l[1]
      <4>1. l \in Line /\ ~Exists(l)
        BY <1>00, <3>2, <3>5, StoreFacts DEF Exists
      <4>2. \A k \in index : Exists(k) /\ k # l
        BY <3>3, <4>1 DEF Complete, Whole, Exists
      <4> QED
        BY <3>2, <4>1, <4>2 DEF Patches
    <3>6. \A l \in newindex : l[1] \in Refuse => files'[l] = "whole"
      BY <1>00, <2>2, <3>2, StoreFacts
    <3>7. Agrees(newindex, target)'
      BY <2>2, <3>2 DEF Agrees
    <3> QED
      BY <1>0, <2>2, <3>2, <3>3, <3>4, <3>5, <3>6, <3>7 DEF Complete
  <2> QED
    BY <1>5, <2>1, <2>2 DEF SomePatches
<1>6. CASE SomeFiles
  <2>1. CASE pc = "meta_fetch"
    <3>1. PICK got : MetaFetch(got)
      BY <1>6, <2>1 DEF SomeFiles
    <3>2. files' = Store(got) /\ UNCHANGED <<dir, tag, index, tindex>>
      BY <3>1 DEF MetaFetch
    <3>3. target \in Snapshot /\ Complete /\ result # "ok"
      BY <1>00, <2>1
    <3>4. Complete' /\ NoneShort'
      BY <3>2, <3>3, StoreFacts, TIndexFacts DEF Complete, AtTag, Agrees, Whole, NoneShort
    <3>5. CASE pc' = "idle"
      BY <1>0, <3>1, <3>4, <3>5 DEF MetaFetch, Return, Go
    <3>6. CASE pc' # "idle"
      <4>1. /\ got = Missing(tindex, TIndex(target)) /\ pc' = "index"
            /\ UNCHANGED <<target, newindex, patchlist, result>>
        BY <3>1, <3>6 DEF MetaFetch, Return, Go, run
      <4>2. \A l \in TIndex(target) : Exists(l) \/ l \in got
        BY <2>1, <4>1 DEF Missing
      <4>3. Whole(TIndex(target))'
        <5> SUFFICES ASSUME NEW l \in TIndex(target) PROVE files'[l] = "whole"
          BY <4>1 DEF Whole
        <5>1. l \in Line
          BY <3>3, TIndexFacts
        <5>2. files[l] = "none" \/ files[l] = "whole"
          BY <1>00, <5>1 DEF NoneShort
        <5> QED
          BY <3>2, <4>2, <5>1, <5>2, StoreFacts DEF Exists
      <4>4. dir' /\ tag' \in Snapshot /\ tag' < target'
        BY <2>1, <3>2, <4>1
      <4> QED
        BY <1>0, <3>3, <3>4, <4>1, <4>3, <4>4
    <3> QED
      BY <3>5, <3>6
  <2>2. CASE pc = "fetch"
    <3>1. PICK got : Fetch(got)
      BY <1>6, <2>2 DEF SomeFiles
    <3>2. files' = Store(got) /\ UNCHANGED <<dir, tag, index, tindex>>
      BY <3>1 DEF Fetch
    <3>3. target \in Snapshot /\ Complete /\ result # "ok" /\ Whole(TIndex(target))
      BY <1>00, <2>2
    <3>4. Complete' /\ NoneShort'
      BY <3>2, <3>3, StoreFacts, TIndexFacts DEF Complete, AtTag, Agrees, Whole, NoneShort
    <3>5. CASE pc' = "idle"
      BY <1>0, <3>1, <3>4, <3>5 DEF Fetch, Return, Go
    <3>6. CASE pc' # "idle"
      <4>1. /\ got = Missing(index, newindex) /\ pc' = "remove"
            /\ UNCHANGED <<target, newindex, patchlist, result>>
        BY <3>1, <3>6 DEF Fetch, Return, Go, run
      <4>2. \A l \in newindex : Exists(l) \/ l \in got
        BY <2>2, <4>1 DEF Missing
      <4>3. Whole(newindex)'
        <5> SUFFICES ASSUME NEW l \in newindex PROVE files'[l] = "whole"
          BY <4>1 DEF Whole
        <5>1. l \in Line
          BY <1>00
        <5>2. files[l] = "none" \/ files[l] = "whole"
          BY <1>00, <5>1 DEF NoneShort
        <5> QED
          BY <3>2, <4>2, <5>1, <5>2, StoreFacts DEF Exists
      <4>4. Whole(TIndex(target))'
        BY <3>2, <3>3, <4>1, StoreFacts, TIndexFacts DEF Whole
      <4>5. Agrees(newindex, target)'
        BY <2>2, <4>1 DEF Agrees
      <4>6. dir' /\ tag' \in Snapshot /\ tag' < target'
        BY <2>2, <3>2, <4>1
      <4>7. \A l \in newindex' : l[1] \in Refuse => files'[l] = "whole"
        BY <4>3 DEF Whole
      <4> QED
        BY <1>0, <3>3, <3>4, <4>1, <4>3, <4>4, <4>5, <4>6, <4>7
    <3> QED
      BY <3>5, <3>6
  <2> QED
    BY <1>6, <2>1, <2>2 DEF SomeFiles
<1>7. CASE ReadIndex
  <2>1. /\ pc = "index" /\ pc' = "patch"
        /\ UNCHANGED <<files, dir, tag, index, tindex, target, patchlist, result>>
    BY <1>7 DEF ReadIndex, Go, disk
  <2>2. target \in Snapshot /\ Complete /\ Whole(TIndex(target)) /\ result # "ok"
    BY <1>00, <2>1
  <2>3. newindex' = {k \in History[target] : k[1] \notin Refuse} \cup {k \in index : k[1] \in Refuse}
    BY <1>7, <2>2 DEF ReadIndex, Whole
  <2>4. Complete' /\ Whole(TIndex(target))' /\ NoneShort'
    BY <2>1, <2>2 DEF Complete, AtTag, Agrees, Whole, NoneShort
  <2>5. newindex' \subseteq Path \X Version
    BY <2>2, <2>3, SnapshotFacts DEF Complete, AtTag, Agrees
  <2>6. Agrees(newindex, target)'
    BY <2>1, <2>2, <2>3, <2>5, SnapshotFacts DEF Agrees
  <2>7. \A l \in newindex' : l[1] \in Refuse => files'[l] = "whole"
    BY <2>1, <2>2, <2>3 DEF Complete, Whole
  <2>8. dir' /\ tag' \in Snapshot /\ tag' < target'
    BY <2>1
  <2> QED
    BY <1>0, <2>1, <2>2, <2>4, <2>6, <2>7, <2>8
<1>8. CASE ReadIndexFails
  BY <1>0, <1>8 DEF ReadIndexFails, Return, Forget, Go, disk, Complete, AtTag, Agrees, Whole, NoneShort
<1>9. CASE RemoveOld
  <2>1. /\ pc = "remove" /\ pc' = "mv_INDEX" /\ files' = Without(OldFiles)
        /\ UNCHANGED <<dir, tag, index, tindex, target, newindex, patchlist, result>>
    BY <1>9 DEF RemoveOld, Go, run
  <2>2. target \in Snapshot /\ Complete /\ Whole(TIndex(target)) /\ Whole(newindex)
    BY <1>00, <2>1
  <2>3. AtTag' /\ Agrees(newindex, target)'
    BY <2>1, <2>2 DEF Complete, AtTag, Agrees
  <2>4. Whole(TIndex(target))' /\ Whole(newindex)'
    BY <1>00, <2>1, <2>2, WithoutFacts, TIndexFacts DEF OldFiles, Whole
  <2>5. NoneShort'
    BY <2>1, WithoutFacts DEF NoneShort
  <2> QED
    BY <1>0, <2>1, <2>2, <2>3, <2>4, <2>5 DEF Complete, Whole
<1>10. CASE UpdateIndex \/ UpdateTIndex
  BY <1>0, <1>10 DEF UpdateIndex, UpdateTIndex, Go, run, Complete, AtTag, Agrees, Whole, NoneShort
<1>11. CASE UpdateDone
  <2>1. /\ pc = "mv_tag" /\ pc' = "idle" /\ tag' = target
        /\ UNCHANGED <<files, dir, index, tindex>>
    BY <1>11 DEF UpdateDone, Return, Go
  <2>2. /\ target \in Snapshot /\ dir /\ Agrees(index, target) /\ tindex = TIndex(target)
        /\ index \subseteq Line /\ Whole(index) /\ Whole(tindex)
    BY <1>00, <2>1
  <2>3. Complete'
    BY <2>1, <2>2 DEF Complete, AtTag, Agrees, Whole
  <2> QED
    BY <1>0, <2>1, <2>3 DEF NoneShort
<1>12. CASE Crash \/ CrashInRemove \/ CrashInGzip
  BY <1>0, <1>12 DEF Crash, CrashInRemove, CrashInGzip, Killed, FetchTyping, TypeOK
<1>13. CASE UNCHANGED vars
  BY <1>0, <1>13 DEF vars, Complete, Blank, AtTag, Agrees, Whole, NoneShort, Exists
<1> QED
  BY <1>1, <1>2, <1>3, <1>4, <1>5, <1>6, <1>7, <1>8, <1>9, <1>10, <1>11, <1>12, <1>13
     DEF Next, Step, FetchUpdate

\* A run that reports success leaves a complete snapshot (portsnap.sh "we should
\* always have a "complete snapshot" of the ports tree"): of every history, from
\* mirrors that lag as they will and through downloads that fail at will, as long
\* as no run is killed.
THEOREM CompleteUnlessKilled ==
    ASSUME MaxCrash = 0
    PROVE  Spec => []CompleteSnapshot
<1>1. Init => SoundInv
  BY SoundInit
<1>2. SoundInv /\ [Next]_vars => SoundInv'
  BY SoundStep
<1>3. SoundInv => CompleteSnapshot
  BY DEF SoundInv, Complete, AtTag, Agrees, CompleteSnapshot
<1> QED
  BY <1>1, <1>2, <1>3, PTL DEF Spec

\* Such a run leaves no INDEX without any port, unless the server published one.
THEOREM NotEmptiedUnlessKilled ==
    ASSUME MaxCrash = 0, Refuse = {}
    PROVE  Spec => []IndexNeverEmptied
<1>1. Init => SoundInv
  BY SoundInit
<1>2. SoundInv /\ [Next]_vars => SoundInv'
  BY SoundStep
<1>3. SoundInv => IndexNeverEmptied
  <2> SUFFICES ASSUME SoundInv, result = "ok", index = {}
               PROVE  \E s \in Snapshot : History[s] = {}
    BY DEF IndexNeverEmptied
  <2>1. tag \in Snapshot /\ Agrees(index, tag)
    BY DEF SoundInv, Complete, AtTag
  <2>2. History[tag] = {}
    BY <2>1, SnapshotFacts DEF Agrees
  <2> QED
    BY <2>1, <2>2
<1> QED
  BY <1>1, <1>2, <1>3, PTL DEF Spec

LEMMA AgreesSame ==
    ASSUME NEW lines \in SUBSET Line, NEW s \in Snapshot, Agrees(lines, s)
    PROVE  SameOffer(lines, History[s])
  BY SnapshotFacts, LineFacts, TIndexFacts DEF Agrees, SameOffer

\* INDEX only ever moves forward (fetch_update_tagsanity), as long as no run is
\* killed.
THEOREM ForwardUnlessKilled ==
    ASSUME MaxCrash = 0
    PROVE  Spec => NeverDowngrades
<1> DEFINE Forward ==
      \A r \in Snapshot :
          index # NoFile /\ index' # index /\ index' # NoFile /\ FirstToOffer(r, index)
            => \E s \in r..Len(History) : SameOffer(index', History[s])
<1>1. Init => SoundInv
  BY SoundInit
<1>2. SoundInv /\ [Next]_vars => SoundInv'
  BY SoundStep
<1>3. SoundInv /\ [Next]_vars => [Forward]_vars
  <2> SUFFICES ASSUME SoundInv, [Next]_vars, NEW r \in Snapshot,
                      index # NoFile, index' # index, index' # NoFile,
                      FirstToOffer(r, index)
               PROVE  \E s \in r..Len(History) : SameOffer(index', History[s])
    OBVIOUS
  <2>1. UpdateIndex \/ InstallIndex
    BY DEF Next, Step, FetchRun, FetchFails, FetchSnapshot, SnapshotTag, SnapshotTarball,
           RemoveTag, RemoveIndex, RemoveTIndex, RemoveFiles, InstallTag, InstallTIndex,
           InstallFiles, FetchUpdate, UpdateTag, SomePatches, MetaPatch, Patch, SomeFiles,
           MetaFetch, Fetch, ReadIndex, ReadIndexFails, RemoveOld, UpdateTIndex,
           UpdateDone, Crash, CrashInRemove, CrashInGzip, disk, vars
  <2>2. ~InstallIndex
    BY DEF InstallIndex, SoundInv, Go
  <2>3. /\ pc = "mv_INDEX" /\ index' = newindex
    BY <2>1, <2>2 DEF UpdateIndex, Go
  <2>4. /\ target \in Snapshot /\ tag \in Snapshot /\ tag < target
        /\ index \subseteq Line /\ newindex \subseteq Line
        /\ Agrees(index, tag) /\ Agrees(newindex, target)
    BY <2>3 DEF SoundInv, FetchTyping, TypeOK, UpdatePc, AtTag
  <2>5. SameOffer(index, History[tag]) /\ SameOffer(index', History[target])
    BY <2>3, <2>4, AgreesSame
  <2>6. ~(tag < r)
    BY <2>4, <2>5, SnapshotFacts DEF FirstToOffer
  <2>7. target \in r..Len(History)
    BY <2>4, <2>6, SnapshotFacts
  <2> QED
    BY <2>5, <2>7
<1> QED
  BY <1>1, <1>2, <1>3, PTL DEF Spec, NeverDowngrades

-----------------------------------------------------------------------------
(* Runs are killed, whatever the mirrors serve. *)

LEMMA ControlInit == Init => ControlInv
  BY FetchTypingInit DEF Init, ControlInv, Ready, SnapshotPc, UpdatePc

LEMMA ControlStep ==
    ControlInv /\ [Next]_vars => ControlInv'
<1> SUFFICES ASSUME ControlInv, [Next]_vars PROVE ControlInv'
  OBVIOUS
<1>0. FetchTyping /\ FetchTyping'
  BY FetchTypingStep DEF ControlInv
<1>00. /\ newindex \subseteq Line
       /\ index \in (SUBSET Line) \cup {NoFile}
       /\ tag \in Snapshot \cup {NoTag}
       /\ pc \notin {"idle", "snapshot_tag", "update_tag"} => target \in Snapshot
  BY <1>0 DEF FetchTyping, TypeOK
<1> USE DEF ControlInv, SnapshotPc, UpdatePc
<1>1. CASE FetchRun
  BY <1>0, <1>1 DEF FetchRun, Go, disk, run, Ready
<1>2. CASE FetchFails
  BY <1>0, <1>2 DEF FetchFails, Return, Go, disk, Ready
<1>3. CASE FetchSnapshot
  <2>1. CASE \E s \in Snapshot : SnapshotTag(s)
    BY <1>0, <2>1 DEF SnapshotTag, Go, disk, Ready
  <2>2. CASE SnapshotTarball
    BY <1>0, <2>2 DEF SnapshotTarball, Go, disk, Ready
  <2>3. CASE RemoveTag
    BY <1>0, <2>3 DEF RemoveTag, Go, run
  <2>4. CASE RemoveIndex \/ RemoveTIndex \/ RemoveFiles
    BY <1>0, <2>4 DEF RemoveIndex, RemoveTIndex, RemoveFiles, Go, run
  <2>5. CASE InstallTag \/ InstallTIndex \/ InstallIndex
    BY <1>0, <2>5 DEF InstallTag, InstallTIndex, InstallIndex, Go, run
  <2>6. CASE InstallFiles
    <3>1. /\ target \in Snapshot /\ tag = target /\ index = newindex /\ tindex = TIndex(target)
          /\ dir' /\ UNCHANGED <<tag, index, tindex>>
      BY <1>00, <2>6 DEF InstallFiles, Go
    <3>2. Ready'
      BY <1>00, <3>1, LineFacts, SnapshotFacts, TIndexFacts DEF Ready
    <3> QED
      BY <1>0, <2>6, <3>2 DEF InstallFiles, Go
  <2> QED
    BY <1>3, <2>1, <2>2, <2>3, <2>4, <2>5, <2>6 DEF FetchSnapshot
<1>4. CASE \E s \in Snapshot : UpdateTag(s)
  BY <1>0, <1>4 DEF UpdateTag, Return, Go, disk, Ready
<1>5. CASE SomePatches
  BY <1>0, <1>5 DEF SomePatches, MetaPatch, Patch, Go, Ready
<1>6. CASE SomeFiles
  BY <1>0, <1>6 DEF SomeFiles, MetaFetch, Fetch, Return, Go, run, Ready
<1>7. CASE ReadIndex
  BY <1>0, <1>7 DEF ReadIndex, Go, disk, Ready
<1>8. CASE ReadIndexFails
  BY <1>0, <1>8 DEF ReadIndexFails, Return, Go, disk, Ready
<1>9. CASE RemoveOld
  BY <1>0, <1>9 DEF RemoveOld, Go, run, Ready
<1>10. CASE UpdateIndex
  BY <1>0, <1>00, <1>10, LineFacts DEF UpdateIndex, Go, run, Ready
<1>11. CASE UpdateTIndex
  BY <1>0, <1>00, <1>11, TIndexFacts DEF UpdateTIndex, Go, run, Ready
<1>12. CASE UpdateDone
  BY <1>0, <1>00, <1>12, SnapshotFacts DEF UpdateDone, Return, Go, Ready
<1>13. CASE Crash
  BY <1>0, <1>13 DEF Crash, Killed, Return, Go
<1>14. CASE CrashInRemove \/ CrashInGzip
  BY <1>0, <1>14 DEF CrashInRemove, CrashInGzip, Killed, Return, Go
<1>15. CASE UNCHANGED vars
  BY <1>0, <1>15 DEF vars, Ready
<1> QED
  BY <1>1, <1>2, <1>3, <1>4, <1>5, <1>6, <1>7, <1>8, <1>9, <1>10, <1>11, <1>12, <1>13, <1>14, <1>15
     DEF Next, Step, FetchUpdate

\* The steps of fetch_update that write files: what was there stays as it was.
FilesKept == \A l \in Line : Exists(l) => files'[l] = files[l]

\* Which steps change the disk.
LEMMA DiskSteps ==
    ASSUME [Next]_vars
    PROVE  \/ UNCHANGED disk
           \/ RemoveTag \/ RemoveIndex \/ RemoveTIndex \/ RemoveFiles
           \/ InstallTag \/ InstallTIndex \/ InstallIndex \/ InstallFiles
           \/ \E made : MetaPatch(made) \/ Patch(made)
           \/ \E got : MetaFetch(got) \/ Fetch(got)
           \/ RemoveOld \/ UpdateIndex \/ UpdateTIndex \/ UpdateDone
           \/ CrashInRemove \/ CrashInGzip
<1>1. CASE Step
  BY <1>1 DEF Step, FetchRun, FetchFails, FetchSnapshot, SnapshotTag, SnapshotTarball,
              FetchUpdate, UpdateTag, SomePatches, SomeFiles, ReadIndex, ReadIndexFails
<1>2. CASE Crash \/ CrashInRemove \/ CrashInGzip \/ UNCHANGED vars
  BY <1>2 DEF Crash, vars, disk
<1> QED
  BY <1>1, <1>2 DEF Next

\* Files that are there and not short are whole.
LEMMA WholeHere ==
    ASSUME TypeOK, NoneShort, NEW lines \in SUBSET Line, AllHere(lines)
    PROVE  Whole(lines)
  BY DEF TypeOK, NoneShort, AllHere, Exists, Whole

LEMMA AimFacts ==
    ASSUME NEW s \in Snapshot
    PROVE  Hash(s) \in Snapshot /\ TIndex(Hash(s)) = TIndex(s)
<1>1. Hash(s) \in Snapshot /\ Hash(Hash(s)) = Hash(s)
  BY HashFacts, SameHash
<1> QED
  BY <1>1, TIndexFacts

\* What was there still is after a step that keeps files.
LEMMA BegunKept ==
    ASSUME FetchTyping, FetchTyping', BegunInv, FilesKept,
           UNCHANGED <<dir, tag, index, tindex, begun>>
    PROVE  BegunInv'
<1>1. /\ files' \in [Line -> {"none", "short", "whole"}]
      /\ begun \subseteq Snapshot \X SUBSET Line
      /\ Ready => index \subseteq Line /\ tindex \subseteq Line
      /\ Ready' = Ready
  BY DEF FetchTyping, TypeOK, Ready
<1>2. ASSUME Ready, begun = {} PROVE Settled'
  <2>1. Settled /\ index \cup tindex \subseteq Line /\ tindex \subseteq Line
    BY <1>1, <1>2 DEF BegunInv
  <2>2. AllHere(index \cup tindex)' /\ (Whole(tindex)' => Whole(tindex))
    BY <1>1, <2>1 DEF Settled, AllHere, Exists, Whole, FilesKept
  <2>3. Agrees(index, tag)' = Agrees(index, tag)
    BY DEF Agrees
  <2> QED
    BY <2>1, <2>2, <2>3 DEF Settled
<1>3. ASSUME NEW aim \in begun, begun = {aim} PROVE Left(aim)'
  <2>1. Left(aim) /\ aim[1] \in Snapshot /\ aim[2] \subseteq Line
    BY <1>1, <1>3 DEF BegunInv
  <2>2. TIndex(aim[1]) \subseteq Line
    BY <2>1, TIndexFacts
  <2> QED
    BY <2>1, <2>2 DEF Left, AllHere, Exists, FilesKept
<1>4. ~Ready' => begun' = {}
  BY <1>1 DEF BegunInv
<1>5. Ready' /\ begun' = {} => Settled'
  BY <1>1, <1>2
<1>6. \A aim \in begun' : begun' = {aim} => Left(aim)'
  BY <1>3
<1> QED
  BY <1>4, <1>5, <1>6 DEF BegunInv

\* Which steps begin a clean-up or end one.
LEMMA BegunSteps ==
    ASSUME [Next]_vars
    PROVE  UNCHANGED begun \/ RemoveOld \/ UpdateDone \/ (CrashInRemove /\ pc = "remove")
<1>1. CASE FetchRun \/ FetchFails \/ FetchSnapshot
  BY <1>1 DEF FetchRun, FetchFails, FetchSnapshot, SnapshotTag, SnapshotTarball, RemoveTag,
              RemoveIndex, RemoveTIndex, RemoveFiles, InstallTag, InstallTIndex,
              InstallIndex, InstallFiles
<1>2. CASE FetchUpdate
  BY <1>2 DEF FetchUpdate, UpdateTag, SomePatches, MetaPatch, Patch, SomeFiles, MetaFetch,
              Fetch, ReadIndex, ReadIndexFails, UpdateIndex, UpdateTIndex
<1>3. CASE Crash \/ CrashInRemove \/ CrashInGzip \/ UNCHANGED vars
  BY <1>3 DEF Crash, CrashInRemove, CrashInGzip, Killed, Return, Go, vars
<1> QED
  BY <1>1, <1>2, <1>3 DEF Next, Step

LEMMA BegunStep ==
    ASSUME ResumeInv, [Next]_vars
    PROVE  BegunInv'
<1>1. ControlInv /\ BegunInv /\ FetchedInv /\ ControlInv'
  BY ControlStep DEF ResumeInv
<1>2. FetchTyping /\ FetchTyping'
  BY <1>1 DEF ControlInv
<1>3. ASSUME pc \in UpdatePc \ {"update_tag"}
      PROVE  /\ target \in Snapshot /\ tag \in Snapshot /\ Ready
             /\ index \subseteq Line /\ tindex \subseteq Line /\ newindex \subseteq Line
             /\ TIndex(target) \subseteq Line
  BY <1>1, <1>2, <1>3, TIndexFacts DEF ControlInv, FetchTyping, TypeOK, Ready, UpdatePc
<1>4. ASSUME FilesKept, UNCHANGED <<dir, tag, index, tindex, begun>> PROVE BegunInv'
  BY <1>1, <1>2, <1>4, BegunKept
<1>5. CASE UNCHANGED <<disk, begun>>
  BY <1>4, <1>5 DEF disk, FilesKept
<1>6. ASSUME ~Ready, ~Ready', UNCHANGED begun PROVE BegunInv'
  BY <1>1, <1>6 DEF BegunInv
<1>7. CASE RemoveTag \/ RemoveIndex \/ RemoveTIndex \/ RemoveFiles
            \/ InstallTag \/ InstallTIndex \/ InstallIndex
  <2>1. CASE RemoveTag
    BY <1>1, <1>6, <2>1 DEF RemoveTag, ControlInv, Go, Ready
  <2>2. CASE RemoveIndex \/ RemoveTIndex \/ RemoveFiles
    BY <1>1, <1>6, <2>2 DEF RemoveIndex, RemoveTIndex, RemoveFiles, ControlInv, Go, Ready, run
  <2>3. CASE InstallTag \/ InstallTIndex \/ InstallIndex
    BY <1>1, <1>6, <2>3 DEF InstallTag, InstallTIndex, InstallIndex, ControlInv, Go, Ready, run
  <2> QED
    BY <1>7, <2>1, <2>2, <2>3
<1>8. CASE InstallFiles
  <2>1. /\ pc = "mv_snap" /\ files' = Store(TIndex(target) \cup newindex)
        /\ UNCHANGED <<tag, index, tindex, begun>>
    BY <1>8 DEF InstallFiles, Go
  <2>2. /\ target \in Snapshot /\ tag = target /\ index = History[target]
        /\ tindex = TIndex(target) /\ newindex = index /\ ~Ready
    BY <1>1, <1>2, <2>1 DEF ControlInv, FetchTyping, SnapshotPc, Ready
  <2>3. Agrees(index, tag)' /\ begun' = {}
    BY <1>1, <2>1, <2>2, SnapshotFacts DEF Agrees, BegunInv
  <2>4. AllHere(index \cup tindex)'
    BY <2>1, <2>2, StoreFacts, SnapshotFacts, TIndexFacts DEF AllHere, Exists
  <2> QED
    BY <2>1, <2>2, <2>3, <2>4 DEF BegunInv, Settled
<1>9. CASE \E made : MetaPatch(made) \/ Patch(made)
  <2>1. PICK made : MetaPatch(made) \/ Patch(made)
    BY <1>9
  <2>2. /\ files' = Store(made) /\ \A l \in made : ~Exists(l)
        /\ UNCHANGED <<dir, tag, index, tindex, begun>>
    BY <2>1 DEF MetaPatch, Patch, Patchable, Patches
  <2>3. FilesKept
    BY <2>2, StoreFacts DEF FilesKept
  <2> QED
    BY <1>4, <2>2, <2>3
<1>10. CASE \E got : MetaFetch(got) \/ Fetch(got)
  <2>1. PICK got : MetaFetch(got) \/ Fetch(got)
    BY <1>10
  <2>2. /\ files' = Store(got) /\ \A l \in got : ~Exists(l)
        /\ UNCHANGED <<dir, tag, index, tindex, begun>>
    BY <2>1 DEF MetaFetch, Fetch, Missing
  <2>3. FilesKept
    BY <2>2, StoreFacts DEF FilesKept
  <2> QED
    BY <1>4, <2>2, <2>3
<1>11. CASE CrashInGzip
  <2>1. PICK l \in Line :
          /\ ~Exists(l) /\ files' = [files EXCEPT ![l] = "short"]
          /\ UNCHANGED <<dir, tag, index, tindex, begun>>
    BY <1>11 DEF CrashInGzip, Patchable, Patches
  <2>2. FilesKept
    BY <2>1 DEF FilesKept
  <2> QED
    BY <1>4, <2>1, <2>2
<1>12. ASSUME pc = "remove", NEW gone \in SUBSET OldFiles, files' = Without(gone),
              begun' = begun \cup {Aim}, UNCHANGED <<dir, tag, index, tindex>>
       PROVE  BegunInv'
  <2>1. /\ target \in Snapshot /\ Ready' /\ newindex \subseteq Line
        /\ TIndex(target) \subseteq Line
    BY <1>3, <1>12 DEF UpdatePc, Ready
  <2>2. ASSUME NEW aim \in begun', begun' = {aim} PROVE Left(aim)'
    <3>1. aim = Aim /\ begun \subseteq {Aim}
      BY <1>12, <2>2
    <3>2. Aim[1] = Hash(target) /\ Aim[2] = newindex
      BY DEF Aim
    <3>3. Resumed /\ SameSnapshot
      BY <3>1, <3>2 DEF Resumed, SameSnapshot
    <3>4. AllHere(TIndex(target)) /\ AllHere(newindex)
      BY <1>1, <1>12, <3>3 DEF FetchedInv
    <3>5. \A l \in TIndex(target) \cup newindex : files'[l] = files[l]
      BY <1>12, <2>1, WithoutFacts DEF OldFiles
    <3>6. \A l \in TIndex(target) \cup newindex : files'[l] # "none"
      BY <3>4, <3>5 DEF AllHere, Exists
    <3>7. TIndex(aim[1]) = TIndex(target) /\ aim[2] = newindex
      BY <2>1, <3>1, <3>2, AimFacts
    <3> QED
      BY <3>6, <3>7 DEF Left, AllHere, Exists
  <2> QED
    BY <1>12, <2>1, <2>2 DEF BegunInv
<1>13. CASE RemoveOld
  BY <1>12, <1>13 DEF RemoveOld, Go
<1>14. CASE CrashInRemove
  <2>1. CASE pc = "remove"
    BY <1>12, <1>14, <2>1 DEF CrashInRemove, Killed, Return, Go
  <2>2. CASE pc = "rm_files"
    BY <1>1, <1>6, <1>14, <2>2 DEF CrashInRemove, Killed, Return, Go, ControlInv, Ready
  <2> QED
    BY <1>14, <2>1, <2>2 DEF CrashInRemove, Killed, Return, Go
<1>15. CASE UpdateIndex \/ UpdateTIndex
  <2>1. /\ pc \in {"mv_INDEX", "mv_tINDEX"} /\ UNCHANGED <<files, dir, tag, begun>>
    BY <1>15 DEF UpdateIndex, UpdateTIndex, Go
  <2>2. begun # {} /\ Ready'
    BY <1>1, <1>15, <2>1 DEF FetchedInv, ControlInv, UpdatePc, UpdateIndex, UpdateTIndex, Go
  <2>3. \A aim : Left(aim) => Left(aim)'
    BY <2>1 DEF Left, AllHere, Exists
  <2> QED
    BY <1>1, <2>1, <2>2, <2>3 DEF BegunInv
<1>16. CASE UpdateDone
  <2>1. /\ pc = "mv_tag" /\ tag' = target /\ UNCHANGED <<files, dir, index, tindex>>
        /\ begun' = IF begun = {Aim} THEN {} ELSE begun
    BY <1>16 DEF UpdateDone, Return, Go
  <2>2. /\ target \in Snapshot /\ Ready /\ index = newindex /\ tindex = TIndex(target)
        /\ Aim \in begun
    BY <1>1, <1>3, <2>1 DEF UpdatePc, ControlInv, FetchedInv
  <2>3. Ready'
    BY <2>1, <2>2, SnapshotFacts DEF Ready
  <2>4. ASSUME begun = {Aim} PROVE Settled'
    <3>1. Aim[1] = Hash(target)
      BY DEF Aim
    <3>2. Resumed /\ SameSnapshot
      BY <2>4, <3>1 DEF Resumed, SameSnapshot
    <3>3. /\ AllHere(TIndex(target)) /\ AllHere(newindex)
          /\ Whole(TIndex(target)) => Agrees(newindex, target)
      BY <1>1, <2>1, <3>2 DEF FetchedInv
    <3>4. AllHere(index \cup tindex)'
      BY <2>1, <2>2, <3>3 DEF AllHere, Exists
    <3>5. Whole(tindex)' => Agrees(index, tag)'
      BY <2>1, <2>2, <3>3 DEF Whole, Agrees
    <3> QED
      BY <2>1, <2>2, <3>4, <3>5 DEF Settled
  <2>5. \A aim : Left(aim) => Left(aim)'
    BY <2>1 DEF Left, AllHere, Exists
  <2>6. CASE begun = {Aim}
    BY <2>1, <2>3, <2>4, <2>6 DEF BegunInv
  <2>7. CASE begun # {Aim}
    BY <1>1, <2>1, <2>2, <2>3, <2>5, <2>7 DEF BegunInv
  <2> QED
    BY <2>6, <2>7
<1>17. UNCHANGED begun \/ RemoveOld \/ UpdateDone \/ CrashInRemove
  BY BegunSteps
<1> QED
  BY <1>5, <1>7, <1>8, <1>9, <1>10, <1>11, <1>13, <1>14, <1>15, <1>16, <1>17, DiskSteps

\* What a run that goes for the same snapshot finds.
LEMMA SameFacts ==
    ASSUME ControlInv, BegunInv, pc \in UpdatePc \ {"update_tag"}
    PROVE  /\ SameSnapshot => AllHere(tindex) \/ AllHere(TIndex(target))
           /\ Resumed => SameSnapshot /\ (AllHere(index) \/ AllHere(newindex))
<1>1. target \in Snapshot /\ Ready
  BY DEF ControlInv, FetchTyping, UpdatePc
<1>2. begun = {} => AllHere(tindex) /\ AllHere(index)
  BY <1>1 DEF BegunInv, Settled, AllHere
<1>3. Aim[1] = Hash(target) /\ Aim[2] = newindex
  BY DEF Aim
<1>4. Resumed => SameSnapshot /\ (AllHere(index) \/ AllHere(newindex))
  <2> SUFFICES ASSUME Resumed, begun # {} PROVE SameSnapshot /\ AllHere(newindex)
    BY <1>2 DEF SameSnapshot
  <2>1. begun = {Aim}
    BY DEF Resumed
  <2>2. Left(Aim)
    BY <2>1 DEF BegunInv
  <2> QED
    BY <1>3, <2>1, <2>2 DEF Left, SameSnapshot
<1>5. SameSnapshot => AllHere(tindex) \/ AllHere(TIndex(target))
  <2> SUFFICES ASSUME SameSnapshot, NEW aim \in begun PROVE AllHere(TIndex(target))
    BY <1>2
  <2>1. begun = {aim} /\ aim[1] = Hash(target)
    BY DEF SameSnapshot
  <2> QED
    BY <1>1, <2>1, AimFacts DEF BegunInv, Left
<1> QED
  BY <1>4, <1>5

LEMMA FetchedStep ==
    ASSUME ResumeInv, [Next]_vars
    PROVE  FetchedInv'
<1>1. ControlInv /\ BegunInv /\ FetchedInv /\ ControlInv'
  BY ControlStep DEF ResumeInv
<1>2. FetchTyping /\ FetchTyping'
  BY <1>1 DEF ControlInv
<1>3. ASSUME pc \in UpdatePc \ {"update_tag"}
      PROVE  /\ target \in Snapshot
             /\ index \subseteq Line /\ tindex \subseteq Line /\ newindex \subseteq Line
             /\ TIndex(target) \subseteq Line
             /\ SameSnapshot => AllHere(tindex) \/ AllHere(TIndex(target))
             /\ Resumed => SameSnapshot /\ (AllHere(index) \/ AllHere(newindex))
  BY <1>1, <1>2, <1>3, TIndexFacts, SameFacts DEF ControlInv, FetchTyping, TypeOK, Ready, UpdatePc
<1>4. files' \in [Line -> {"none", "short", "whole"}]
  BY <1>2 DEF FetchTyping, TypeOK
<1>5. CASE pc' \notin {"meta_fetch", "index", "patch", "fetch", "remove", "mv_INDEX",
                      "mv_tINDEX", "mv_tag"}
  BY <1>5 DEF FetchedInv
<1>6. ASSUME UNCHANGED <<target, begun>>
      PROVE  /\ SameSnapshot' = SameSnapshot
             /\ newindex' = newindex => (Resumed' = Resumed /\ Aim' = Aim)
  BY <1>6 DEF SameSnapshot, Resumed, Aim
<1>7. CASE \E made : MetaPatch(made)
  <2>1. PICK made : MetaPatch(made)
    BY <1>7
  <2>2. /\ pc = "meta_patch" /\ pc' = "meta_fetch" /\ files' = Store(made)
        /\ patchlist' = Patches(tindex, TIndex(target)) /\ UNCHANGED <<tindex, target, begun>>
    BY <2>1 DEF MetaPatch, Go
  <2>3. /\ TIndex(target) \subseteq Line /\ tindex \subseteq Line
        /\ SameSnapshot => AllHere(tindex) \/ AllHere(TIndex(target))
    BY <1>3, <2>2 DEF UpdatePc
  <2>4. ASSUME SameSnapshot, NEW l \in TIndex(target), NEW k \in tindex, k[1] = l[1], ~Exists(l)'
        PROVE  l \in patchlist'
    <3>1. l \in Line /\ ~Exists(l)
      BY <2>2, <2>3, <2>4, StoreFacts DEF Exists
    <3>2. Exists(k) /\ k # l
      BY <2>3, <2>4, <3>1 DEF AllHere
    <3> QED
      BY <2>2, <2>4, <3>1, <3>2 DEF Patches
  <2>5. SameSnapshot' = SameSnapshot /\ target' = target /\ tindex' = tindex
    BY <1>6, <2>2
  <2> QED
    BY <2>2, <2>4, <2>5 DEF FetchedInv
<1>8. CASE \E got : MetaFetch(got)
  <2>1. PICK got : MetaFetch(got)
    BY <1>8
  <2>2. CASE pc' # "idle"
    <3>1. /\ pc = "meta_fetch" /\ pc' = "index" /\ files' = Store(got)
          /\ got = Missing(tindex, TIndex(target)) /\ UNCHANGED <<target, begun>>
      BY <2>1, <2>2 DEF MetaFetch, Return, Go, run
    <3>2. TIndex(target) \subseteq Line /\ SameSnapshot' = SameSnapshot
      BY <1>3, <1>6, <3>1 DEF UpdatePc
    <3>3. SameSnapshot => \A l \in TIndex(target) : Exists(l) \/ l \in got
      BY <1>1, <3>1 DEF FetchedInv, Missing
    <3>4. SameSnapshot => AllHere(TIndex(target))'
      BY <3>1, <3>2, <3>3, StoreFacts DEF AllHere, Exists
    <3> QED
      BY <3>1, <3>2, <3>4 DEF FetchedInv
  <2> QED
    BY <1>5, <2>2
<1>9. CASE ReadIndex
  <2>1. /\ pc = "index" /\ pc' = "patch" /\ UNCHANGED <<files, index, target, begun>>
        /\ \E lines \in SUBSET History[target] :
             /\ Whole(TIndex(target)) => lines = History[target]
             /\ newindex' = {k \in lines : k[1] \notin Refuse} \cup {k \in index : k[1] \in Refuse}
    BY <1>9 DEF ReadIndex, Go, disk, Whole
  <2>2. /\ target \in Snapshot /\ index \subseteq Line
        /\ SameSnapshot => AllHere(TIndex(target))
        /\ SameSnapshot' = SameSnapshot
    BY <1>1, <1>3, <1>6, <2>1 DEF UpdatePc, FetchedInv
  <2>3. {k \in index : k[1] \in Refuse} \subseteq Path \X Version
    BY <2>2, LineFacts
  <2>4. Whole(TIndex(target)) => Agrees(newindex', target)
    BY <2>1, <2>2, <2>3, SnapshotFacts DEF Agrees
  <2>5. Agrees(newindex', target) <=> Agrees(newindex, target)'
    BY <2>1 DEF Agrees
  <2>6. Whole(TIndex(target))' <=> Whole(TIndex(target))
    BY <2>1 DEF Whole
  <2>7. AllHere(TIndex(target))' <=> AllHere(TIndex(target))
    BY <2>1 DEF AllHere, Exists
  <2> QED
    BY <2>1, <2>2, <2>4, <2>5, <2>6, <2>7 DEF FetchedInv
<1>10. ASSUME pc \in {"patch", "fetch"}, FilesKept, UNCHANGED <<target, newindex, begun>>
       PROVE  /\ SameSnapshot' => AllHere(TIndex(target))'
              /\ SameSnapshot' /\ Whole(TIndex(target))' => Agrees(newindex, target)'
              /\ Resumed' = Resumed
  <2>1. /\ newindex \subseteq Line /\ TIndex(target) \subseteq Line
        /\ SameSnapshot' = SameSnapshot /\ Resumed' = Resumed
    BY <1>3, <1>6, <1>10 DEF UpdatePc
  <2>2. /\ SameSnapshot => AllHere(TIndex(target))
        /\ SameSnapshot /\ Whole(TIndex(target)) => Agrees(newindex, target)
    BY <1>1, <1>10 DEF FetchedInv
  <2>3. AllHere(TIndex(target)) =>
          AllHere(TIndex(target))' /\ (Whole(TIndex(target))' => Whole(TIndex(target)))
    BY <1>4, <1>10, <2>1 DEF FilesKept, AllHere, Exists, Whole
  <2>4. Agrees(newindex, target)' <=> Agrees(newindex, target)
    BY <1>10 DEF Agrees
  <2> QED
    BY <2>1, <2>2, <2>3, <2>4
<1>11. CASE \E made : Patch(made)
  <2>1. PICK made : Patch(made)
    BY <1>11
  <2>2. /\ pc = "patch" /\ pc' = "fetch" /\ files' = Store(made)
        /\ patchlist' = Patches(index, newindex)
        /\ UNCHANGED <<index, target, newindex, begun>>
        /\ \A l \in made : ~Exists(l)
    BY <2>1 DEF Patch, Patchable, Patches, Go
  <2>3. FilesKept
    BY <2>2, StoreFacts DEF FilesKept
  <2>4. /\ SameSnapshot' => AllHere(TIndex(target))'
        /\ SameSnapshot' /\ Whole(TIndex(target))' => Agrees(newindex, target)'
        /\ Resumed' = Resumed
    BY <1>10, <2>2, <2>3
  <2>5. ASSUME Resumed, NEW l \in newindex, NEW k \in index, k[1] = l[1], ~Exists(l)'
        PROVE  l \in patchlist'
    <3>1. /\ newindex \subseteq Line
          /\ AllHere(index) \/ AllHere(newindex)
      BY <1>3, <2>2, <2>5 DEF UpdatePc
    <3>2. l \in Line /\ ~Exists(l)
      BY <2>2, <2>5, <3>1, StoreFacts DEF Exists
    <3>3. Exists(k) /\ k # l
      BY <2>5, <3>1, <3>2 DEF AllHere
    <3> QED
      BY <2>2, <2>5, <3>2, <3>3 DEF Patches
  <2>6. Resumed' =>
          \A l \in newindex' : \/ Exists(l)' \/ l \in patchlist'
                               \/ \A k \in index' : k[1] # l[1]
    BY <2>2, <2>4, <2>5
  <2> QED
    BY <2>2, <2>4, <2>6 DEF FetchedInv
<1>12. CASE \E got : Fetch(got)
  <2>1. PICK got : Fetch(got)
    BY <1>12
  <2>2. CASE pc' # "idle"
    <3>1. /\ pc = "fetch" /\ pc' = "remove" /\ files' = Store(got)
          /\ got = Missing(index, newindex) /\ UNCHANGED <<target, newindex, begun>>
          /\ \A l \in got : ~Exists(l)
      BY <2>1, <2>2 DEF Fetch, Missing, Return, Go, run
    <3>2. FilesKept
      BY <3>1, StoreFacts DEF FilesKept
    <3>3. /\ SameSnapshot' => AllHere(TIndex(target))'
          /\ SameSnapshot' /\ Whole(TIndex(target))' => Agrees(newindex, target)'
          /\ Resumed' = Resumed /\ newindex \subseteq Line
      BY <1>3, <1>10, <3>1, <3>2 DEF UpdatePc
    <3>4. Resumed => \A l \in newindex : Exists(l) \/ l \in got
      BY <1>1, <3>1 DEF FetchedInv, Missing
    <3>5. Resumed' => AllHere(newindex)'
      BY <3>1, <3>3, <3>4, StoreFacts DEF AllHere, Exists
    <3> QED
      BY <3>1, <3>3, <3>5 DEF FetchedInv
  <2> QED
    BY <1>5, <2>2
<1>13. CASE RemoveOld
  <2>1. /\ pc = "remove" /\ pc' = "mv_INDEX" /\ files' = Without(OldFiles)
        /\ UNCHANGED <<target, newindex>> /\ begun' = begun \cup {Aim}
    BY <1>13 DEF RemoveOld, Go, run
  <2>2. TIndex(target) \subseteq Line /\ newindex \subseteq Line
    BY <1>3, <2>1 DEF UpdatePc
  <2>3. \A l \in TIndex(target) \cup newindex : files'[l] = files[l]
    BY <2>1, <2>2, WithoutFacts DEF OldFiles
  <2>4. Aim' = Aim /\ Aim[1] = Hash(target) /\ (SameSnapshot' => begun \subseteq {Aim})
    BY <2>1 DEF Aim, SameSnapshot
  <2>5. /\ SameSnapshot' => SameSnapshot /\ Resumed
        /\ Resumed' => Resumed
    BY <2>1, <2>4 DEF Resumed, SameSnapshot
  <2>6. /\ AllHere(TIndex(target))' = AllHere(TIndex(target))
        /\ Whole(TIndex(target))' = Whole(TIndex(target))
        /\ AllHere(newindex)' = AllHere(newindex)
        /\ Agrees(newindex, target)' = Agrees(newindex, target)
    BY <2>1, <2>3 DEF AllHere, Exists, Whole, Agrees
  <2> QED
    BY <1>1, <2>1, <2>4, <2>5, <2>6 DEF FetchedInv
<1>14. CASE UpdateIndex \/ UpdateTIndex \/ UNCHANGED vars
  <2>1. /\ \/ pc \in {"mv_INDEX", "mv_tINDEX"} /\ pc' \in {"mv_tINDEX", "mv_tag"}
           \/ pc' = pc /\ UNCHANGED <<index, tindex, patchlist>>
        /\ UNCHANGED <<files, target, newindex, begun>>
    BY <1>14 DEF UpdateIndex, UpdateTIndex, Go, run, vars
  <2>2. /\ AllHere(TIndex(target))' = AllHere(TIndex(target))
        /\ Whole(TIndex(target))' = Whole(TIndex(target))
        /\ AllHere(newindex)' = AllHere(newindex)
        /\ Agrees(newindex, target)' = Agrees(newindex, target)
        /\ \A l : Exists(l)' = Exists(l)
    BY <2>1 DEF AllHere, Exists, Whole, Agrees
  <2>3. SameSnapshot' = SameSnapshot /\ Resumed' = Resumed /\ Aim' = Aim
    BY <1>6, <2>1
  <2>4. CASE pc \in {"mv_INDEX", "mv_tINDEX"} /\ pc' \in {"mv_tINDEX", "mv_tag"}
    BY <1>1, <2>1, <2>2, <2>3, <2>4 DEF FetchedInv
  <2>5. CASE pc' = pc /\ UNCHANGED <<index, tindex, patchlist>>
    BY <1>1, <2>1, <2>2, <2>3, <2>5 DEF FetchedInv
  <2> QED
    BY <2>1, <2>4, <2>5
<1>15. \/ \E made : MetaPatch(made) \/ Patch(made)
       \/ \E got : MetaFetch(got) \/ Fetch(got)
       \/ ReadIndex \/ RemoveOld \/ UpdateIndex \/ UpdateTIndex \/ UNCHANGED vars
       \/ pc' \notin {"meta_fetch", "index", "patch", "fetch", "remove", "mv_INDEX",
                      "mv_tINDEX", "mv_tag"}
  <2>1. CASE FetchRun \/ FetchFails \/ Crash \/ CrashInRemove \/ CrashInGzip
    BY <2>1 DEF FetchRun, FetchFails, Crash, CrashInRemove, CrashInGzip, Killed, Return, Go
  <2>2. CASE FetchSnapshot
    BY <2>2 DEF FetchSnapshot, SnapshotTag, SnapshotTarball, RemoveTag, RemoveIndex,
                RemoveTIndex, RemoveFiles, InstallTag, InstallTIndex, InstallIndex,
                InstallFiles, Go
  <2>3. CASE FetchUpdate
    BY <2>3 DEF FetchUpdate, UpdateTag, SomePatches, SomeFiles, ReadIndexFails, UpdateDone,
                Return, Go
  <2> QED
    BY <2>1, <2>2, <2>3 DEF Next, Step
<1> QED
  BY <1>5, <1>7, <1>8, <1>9, <1>11, <1>12, <1>13, <1>14, <1>15

\* Runs may be killed any number of times, between any two commands, in the
\* removals and inside gzip, and mirrors may serve any snapshot: where what a
\* clean-up has begun is finished before another begins, a run that reports
\* success leaves a complete snapshot, unless a short file is left (the order of
\* the commands of fetch_snapshot and fetch_update).
THEOREM CompleteAgain == Spec => []CompleteWhenResumed
<1>1. Init => ResumeInv
  BY ControlInit DEF Init, ResumeInv, BegunInv, FetchedInv, Ready
<1>2. ResumeInv /\ [Next]_vars => ResumeInv'
  BY ControlStep, BegunStep, FetchedStep DEF ResumeInv
<1>3. ResumeInv => CompleteWhenResumed
  <2> SUFFICES ASSUME ResumeInv PROVE CompleteWhenResumed
    OBVIOUS
  <2>1. ControlInv /\ BegunInv /\ TypeOK
    BY DEF ResumeInv, ControlInv, FetchTyping
  <2>2. ASSUME begun = {}, NoneShort, result = "ok" PROVE CompleteSnapshot
    <3>1. Ready /\ Settled /\ index \subseteq Line /\ tindex \subseteq Line
      BY <2>1, <2>2 DEF ControlInv, BegunInv, Ready, TypeOK
    <3>2. AllHere(index) /\ AllHere(tindex)
      BY <3>1 DEF Settled, AllHere
    <3>3. Whole(index) /\ Whole(tindex)
      BY <2>1, <2>2, <3>1, <3>2, WholeHere
    <3>4. Agrees(index, tag)
      BY <3>1, <3>3 DEF Settled
    <3> QED
      BY <3>3, <3>4 DEF Agrees, CompleteSnapshot
  <2> QED
    BY <2>1, <2>2 DEF CompleteWhenResumed, CompleteSnapshot
<1> QED
  BY <1>1, <1>2, <1>3, PTL DEF Spec

-----------------------------------------------------------------------------
(* PortsTree: definitions. *)

Kept == Path \ (Refuse \cup loose)

\* Lines of ports, one for each.
PortLines(lines) ==
    /\ lines \subseteq Path \X Version
    /\ \A k, l \in lines : k[1] = l[1] => k = l

\* What an extract or update that did not finish leaves at p: nothing of it is
\* lost sight of.
Between(p) ==
    /\ Listed(record, p) = Listed(goal, p) => tree[p] = Listed(record, p)
    /\ Listed(record, p) = {} =>
         \A l \in goal : l[1] = p => tree[p] \subseteq {l[2], -l[2]}

FetchLines == PortLines(newindex) /\ (index = NoFile \/ PortLines(index))

LinesInv ==
    /\ FetchLines
    /\ record = NoFile \/ PortLines(record)
    /\ goal = NoFile \/ PortLines(goal)
    /\ todo \subseteq Path \X Version

RunInv ==
    /\ tpc # "idle" => Ready /\ outcome = "none"
    /\ tpc \in {"remove", "list", "install", "extract", "metadata"} => goal # NoFile
    /\ tpc = "indices" => goal = NoFile
    /\ tpc \in {"remove", "list"} => record # NoFile
    /\ tpc \in {"install", "extract"} =>
         /\ todo \subseteq goal /\ \A l \in todo : l[1] \notin Refuse
         /\ tpc = "install" => todo \cap record = {}
    /\ tpc = "indices" \/ outcome = "ok" => record # NoFile

AgreeInv ==
    \A p \in Kept :
      /\ goal = NoFile \/ outcome = "ok" => tree[p] = Listed(record, p)
      /\ goal # NoFile => Between(p)
      /\ tpc = "list" /\ ~(Listed(record, p) \subseteq Listed(goal, p)) => tree[p] = {}
      /\ tpc \in {"install", "extract"} /\ p \notin Names(todo) => tree[p] = Listed(goal, p)
      /\ tpc = "install" => \A l \in todo : l[1] = p => tree[p] \subseteq {l[2], -l[2]}
      /\ tpc = "metadata" => tree[p] = Listed(goal, p)

TreeInv == TreeTypeOK /\ ControlInv /\ LinesInv /\ RunInv /\ AgreeInv

-----------------------------------------------------------------------------
(* Lines by name. *)

LEMMA ListedFacts ==
    ASSUME NEW lines, PortLines(lines), NEW p
    PROVE  /\ \A l \in lines : l[1] = p => Listed(lines, p) = {l[2]}
           /\ (\A l \in lines : l[1] # p) => Listed(lines, p) = {}
           /\ \A l \in Path \X Version : l[1] = p => (l \in lines <=> l[2] \in Listed(lines, p))
<1>1. \A k, l \in Path \X Version : k[1] = l[1] /\ k[2] = l[2] => k = l
  OBVIOUS
<1> QED
  BY <1>1 DEF Listed, PortLines

LEMMA NoFileFacts ==
    /\ \A p \in Path : Listed(NoFile, p) = {}
    /\ \A lines : PortLines(lines) => lines # NoFile /\ lines \subseteq Line
<1>1. \A k \in NoFile : k[1] = "none"
  BY DEF NoFile
<1>2. \A p \in Path : p # "none"
  BY PathAssumption
<1>3. <<"none", 0>> \in NoFile
  BY DEF NoFile
<1>4. \A l \in Path \X Version : l[1] \in Path
  OBVIOUS
<1> QED
  BY <1>1, <1>2, <1>3, <1>4 DEF Listed, PortLines, Line

LEMMA StrayedFacts ==
    ASSUME NEW lines, NEW p, goal # NoFile, p \notin Strayed(lines)
    PROVE  /\ Listed(goal, p) = Listed(lines, p)
           /\ \A l : l[1] = p => (l \in goal <=> l \in lines)
  BY DEF Strayed, Names, Listed

-----------------------------------------------------------------------------
(* The fetch beside it. *)

LEMMA TreeStepKeepsFetch ==
    TreeStep \/ TreeCrash \/ TreeCrashInWrite => UNCHANGED fetchvars
<1>1. TreeStep => UNCHANGED fetchvars
  BY DEF TreeStep, ExtractRun, UpdateRun, ExtractPath, Extract, Install, NotFound, TarFails,
         RemoveOutdated, ListFresh, ExtractMetadata, ExtractIndices
<1>2. TreeCrash \/ TreeCrashInWrite => UNCHANGED fetchvars
  BY DEF TreeCrash, TreeCrashInWrite, TreeKilled
<1> QED
  BY <1>1, <1>2

LEMMA TreeFetchStep == [TreeNext]_allvars => [Next]_vars
<1>1. UNCHANGED fetchvars => UNCHANGED vars
  BY DEF fetchvars, vars
<1>2. UNCHANGED allvars => UNCHANGED vars
  BY DEF allvars, vars
<1> QED
  BY <1>1, <1>2, TreeStepKeepsFetch DEF TreeNext, FetchNext

\* Whatever runs on the tree, the work directory is that of PortsnapFetch: the
\* theorems about it hold beside extracts and updates.
LEMMA FetchBesideTree == TreeSpec => Spec
<1>1. TreeInit => Init
  BY DEF TreeInit
<1> QED
  BY <1>1, TreeFetchStep, PTL DEF TreeSpec, Spec

LEMMA ReadyStays ==
    ASSUME ControlInv, [Next]_vars, Ready
    PROVE  Ready'
<1>1. /\ index \in (SUBSET Line) \cup {NoFile} /\ newindex \subseteq Line
      /\ tag \in Snapshot \cup {NoTag}
      /\ pc \notin {"idle", "snapshot_tag", "update_tag"} => target \in Snapshot
  BY DEF ControlInv, FetchTyping, TypeOK
<1>2. CASE UNCHANGED disk
  BY <1>2 DEF disk, Ready
<1>3. CASE RemoveTag \/ RemoveIndex \/ RemoveTIndex \/ RemoveFiles
  BY <1>3 DEF ControlInv, RemoveTag, RemoveIndex, RemoveTIndex, RemoveFiles, Go, Ready
<1>4. CASE InstallTag \/ InstallTIndex \/ InstallIndex \/ InstallFiles
  BY <1>4 DEF ControlInv, InstallTag, InstallTIndex, InstallIndex, InstallFiles, Go, Ready
<1>5. CASE \E made : MetaPatch(made) \/ Patch(made)
  BY <1>5 DEF MetaPatch, Patch, Ready
<1>6. CASE \E got : MetaFetch(got) \/ Fetch(got)
  BY <1>6 DEF MetaFetch, Fetch, Ready
<1>7. CASE RemoveOld \/ UpdateIndex
  BY <1>1, <1>7, LineFacts DEF RemoveOld, UpdateIndex, Ready
<1>8. CASE UpdateTIndex \/ UpdateDone
  <2>1. target \in Snapshot
    BY <1>1, <1>8 DEF UpdateTIndex, UpdateDone, Return, Go
  <2>2. TIndex(target) # NoFile /\ target # NoTag
    BY <2>1, TIndexFacts, SnapshotFacts
  <2> QED
    BY <1>8, <2>2 DEF UpdateTIndex, UpdateDone, Ready
<1>9. CASE CrashInRemove \/ CrashInGzip
  BY <1>9 DEF CrashInRemove, CrashInGzip, Ready
<1> QED
  BY <1>2, <1>3, <1>4, <1>5, <1>6, <1>7, <1>8, <1>9, DiskSteps

LEMMA FetchLinesStep ==
    ASSUME ControlInv, [Next]_vars, FetchLines
    PROVE  FetchLines'
<1>1. pc \notin {"idle", "snapshot_tag", "update_tag"} => target \in Snapshot
  BY DEF ControlInv, FetchTyping
<1>2. index' = NoFile \/ PortLines(index')
  <2>1. index' \in {index, newindex, NoFile}
    <3>1. CASE UNCHANGED disk
      BY <3>1 DEF disk
    <3>2. CASE RemoveTag \/ RemoveIndex \/ RemoveTIndex \/ RemoveFiles
                \/ InstallTag \/ InstallTIndex \/ InstallIndex \/ InstallFiles
      BY <3>2 DEF RemoveTag, RemoveIndex, RemoveTIndex, RemoveFiles, InstallTag,
                  InstallTIndex, InstallIndex, InstallFiles
    <3>3. CASE (\E made : MetaPatch(made) \/ Patch(made)) \/ (\E got : MetaFetch(got) \/ Fetch(got))
      BY <3>3 DEF MetaPatch, Patch, MetaFetch, Fetch
    <3>4. CASE RemoveOld \/ UpdateIndex \/ UpdateTIndex \/ UpdateDone
                \/ CrashInRemove \/ CrashInGzip
      BY <3>4 DEF RemoveOld, UpdateIndex, UpdateTIndex, UpdateDone, CrashInRemove, CrashInGzip
    <3> QED
      BY <3>1, <3>2, <3>3, <3>4, DiskSteps
  <2> QED
    BY <2>1 DEF FetchLines
<1>3. PortLines(newindex')
  <2>1. CASE ReadIndex
    <3>1. PICK lines \in SUBSET History[target] :
            newindex' = {k \in lines : k[1] \notin Refuse} \cup {k \in index : k[1] \in Refuse}
      BY <2>1 DEF ReadIndex
    <3>2. target \in Snapshot
      BY <1>1, <2>1 DEF ReadIndex, Go
    <3>3. PortLines(lines)
      BY <3>2, SnapshotFacts DEF PortLines
    <3>4. CASE index = NoFile
      BY <3>1, <3>3, <3>4, LineFacts DEF PortLines
    <3>5. CASE PortLines(index)
      BY <3>1, <3>3, <3>5 DEF PortLines
    <3> QED
      BY <3>4, <3>5 DEF FetchLines
  <2>2. CASE SnapshotTarball
    BY <1>1, <2>2, SnapshotFacts DEF SnapshotTarball, Go, PortLines
  <2>3. CASE ~ReadIndex /\ ~SnapshotTarball
    <3>1. newindex' \in {newindex, {}}
      <4>1. CASE FetchRun \/ FetchFails \/ Crash \/ CrashInRemove \/ CrashInGzip \/ UNCHANGED vars
        BY <4>1 DEF FetchRun, FetchFails, Crash, CrashInRemove, CrashInGzip, Killed, Return,
                    Forget, run, vars
      <4>2. CASE FetchSnapshot
        BY <2>3, <4>2 DEF FetchSnapshot, SnapshotTag, RemoveTag, RemoveIndex, RemoveTIndex,
                    RemoveFiles, InstallTag, InstallTIndex, InstallIndex, InstallFiles, run
      <4>3. CASE FetchUpdate
        BY <2>3, <4>3 DEF FetchUpdate, UpdateTag, SomePatches, MetaPatch, Patch, SomeFiles,
                    MetaFetch, Fetch, ReadIndexFails, RemoveOld, UpdateIndex, UpdateTIndex,
                    UpdateDone, Return, Forget, run
      <4> QED
        BY <4>1, <4>2, <4>3 DEF Next, Step
    <3> QED
      BY <3>1 DEF PortLines, FetchLines
  <2> QED
    BY <2>1, <2>2, <2>3
<1> QED
  BY <1>2, <1>3 DEF FetchLines

-----------------------------------------------------------------------------
(* Types, lines and control. *)

LEMMA TreeFacts ==
    ASSUME TreeInv
    PROVE  /\ Ready => PortLines(index) /\ PortLines(NewRecord)
           /\ record # NoFile => PortLines(record)
           /\ goal # NoFile => PortLines(goal)
           /\ todo \subseteq Path \X Version /\ todo \subseteq Line
           /\ tree \in [Path -> SUBSET (Version \cup {-v : v \in Version})]
           /\ loose \subseteq Path
           /\ Ready => Strayed(index) \subseteq Path
           /\ record # NoFile => Outdated \subseteq Path
<1>1. Ready => PortLines(index)
  BY DEF TreeInv, LinesInv, FetchLines, Ready
<1>2. /\ record # NoFile => PortLines(record)
      /\ goal # NoFile => PortLines(goal)
      /\ todo \subseteq Path \X Version
  BY DEF TreeInv, LinesInv
<1>3. /\ tree \in [Path -> SUBSET (Version \cup {-v : v \in Version})]
      /\ loose \subseteq Path
  BY DEF TreeInv, TreeTypeOK
<1>4. Ready => PortLines(NewRecord)
  BY <1>1, <1>2 DEF NewRecord, Offered, PortLines
<1>5. \A l \in Path \X Version : l[1] \in Path /\ l \in Line
  BY DEF Line
<1>6. Ready => Strayed(index) \subseteq Path
  BY <1>1, <1>2, <1>5 DEF Strayed, Names, PortLines
<1>7. record # NoFile => Outdated \subseteq Path
  BY <1>2, <1>5 DEF Outdated, Offered, Names, PortLines
<1> QED
  BY <1>1, <1>2, <1>3, <1>4, <1>5, <1>6, <1>7

LEMMA LinesStep ==
    ASSUME TreeInv, [TreeNext]_allvars
    PROVE  LinesInv'
<1>1. FetchLines'
  BY FetchLinesStep, TreeFetchStep DEF TreeInv, LinesInv
<1>2. tpc # "idle" => Ready
  BY DEF TreeInv, RunInv
<1>3. Ready => PortLines(index) /\ PortLines(NewRecord)
  BY TreeFacts
<1>4. \A lines : PortLines(NewRecord) /\ lines \subseteq NewRecord => PortLines(lines)
  BY DEF PortLines
<1>5. record' \in {record, NewRecord} \/ record' \subseteq NewRecord
  <2>1. CASE TreeStep
    BY <2>1 DEF TreeStep, ExtractRun, UpdateRun, ExtractPath, Extract, Install, NotFound,
                TarFails, RemoveOutdated, ListFresh, ExtractMetadata, ExtractIndices
  <2>2. CASE TreeCrash \/ TreeCrashInWrite
    BY <2>2 DEF TreeCrash, TreeCrashInWrite
  <2>3. CASE FetchNext \/ UNCHANGED allvars
    BY <2>3 DEF FetchNext, treevars, allvars
  <2> QED
    BY <2>1, <2>2, <2>3 DEF TreeNext
<1>6. record' # record => tpc # "idle"
  <2>1. CASE TreeStep
    BY <2>1 DEF TreeStep, ExtractRun, UpdateRun, ExtractPath, Extract, Install, NotFound,
                TarFails, RemoveOutdated, ListFresh, ExtractMetadata, ExtractIndices, TGo
  <2>2. CASE TreeCrash \/ TreeCrashInWrite
    BY <2>2 DEF TreeCrash, TreeCrashInWrite, TreeKilled, TReturn, TGo
  <2>3. CASE FetchNext \/ UNCHANGED allvars
    BY <2>3 DEF FetchNext, treevars, allvars
  <2> QED
    BY <2>1, <2>2, <2>3 DEF TreeNext
<1>7. record' = NoFile \/ PortLines(record')
  BY <1>2, <1>3, <1>4, <1>5, <1>6 DEF TreeInv, LinesInv
<1>8. goal' \in {goal, NoFile} \/ (Ready /\ goal' = index)
  <2>1. CASE TreeStep
    BY <1>2, <2>1 DEF TreeStep, ExtractRun, UpdateRun, ExtractPath, Extract, Install, NotFound,
                TarFails, RemoveOutdated, ListFresh, ExtractMetadata, ExtractIndices, TGo
  <2>2. CASE TreeCrash \/ TreeCrashInWrite
    BY <2>2 DEF TreeCrash, TreeCrashInWrite, TreeKilled
  <2>3. CASE FetchNext \/ UNCHANGED allvars
    BY <2>3 DEF FetchNext, treevars, allvars
  <2> QED
    BY <2>1, <2>2, <2>3 DEF TreeNext
<1>9. goal' = NoFile \/ PortLines(goal')
  BY <1>3, <1>8 DEF TreeInv, LinesInv
<1>10. todo' \subseteq todo \/ (Ready /\ todo' \subseteq index)
  <2>1. CASE TreeStep
    BY <1>2, <2>1 DEF TreeStep, ExtractRun, UpdateRun, ExtractPath, Extract, Install, Turn,
                NotFound, TarFails, RemoveOutdated, ListFresh, ExtractMetadata,
                ExtractIndices, TGo, TReturn, Offered, Fresh
  <2>2. CASE TreeCrash \/ TreeCrashInWrite
    BY <2>2 DEF TreeCrash, TreeCrashInWrite, TreeKilled, TReturn
  <2>3. CASE FetchNext \/ UNCHANGED allvars
    BY <2>3 DEF FetchNext, treevars, allvars
  <2> QED
    BY <2>1, <2>2, <2>3 DEF TreeNext
<1>11. todo' \subseteq Path \X Version
  BY <1>3, <1>10 DEF TreeInv, LinesInv, PortLines
<1> QED
  BY <1>1, <1>7, <1>9, <1>11 DEF LinesInv, FetchLines

LEMMA TreeTypeStep ==
    ASSUME TreeInv, [TreeNext]_allvars
    PROVE  TreeTypeOK'
<1>1. /\ record' \in (SUBSET Line) \cup {NoFile} /\ goal' \in (SUBSET Line) \cup {NoFile}
      /\ todo' \subseteq Line
  <2>1. Path \X Version \subseteq Line
    BY DEF Line
  <2> QED
    BY <2>1, LinesStep, NoFileFacts DEF LinesInv
<1>2. tpc # "idle" => Ready
  BY DEF TreeInv, RunInv
<1>3. /\ todo \subseteq Path \X Version /\ loose \subseteq Path
      /\ Ready => Strayed(index) \subseteq Path /\ index \subseteq Path \X Version
      /\ tree \in [Path -> SUBSET (Version \cup {-v : v \in Version})]
  BY TreeFacts DEF PortLines
<1>4. \A l \in Path \X Version : l[1] \in Path /\ l[2] \in Version
  OBVIOUS
<1>5. loose' \subseteq Path
  <2>1. CASE ExtractRun
    BY <1>3, <2>1 DEF ExtractRun
  <2>2. CASE \E l \in Line : ExtractPath(l)
    BY <1>3, <1>4, <2>2 DEF ExtractPath
  <2>3. CASE \E l \in Line : Extract(l) \/ Install(l)
    BY <1>3, <2>3 DEF Extract, Install
  <2>4. CASE \E loop \in Loops, l \in Line : NotFound(loop, l) \/ TarFails(loop, l)
    BY <1>3, <1>4, <2>4 DEF NotFound, TarFails, Names
  <2>5. CASE UpdateRun
    BY <1>3, <2>5 DEF UpdateRun
  <2>6. CASE RemoveOutdated \/ ListFresh \/ ExtractMetadata \/ ExtractIndices
    BY <1>2, <1>3, <2>6 DEF RemoveOutdated, ListFresh, ExtractMetadata, ExtractIndices, TGo
  <2>7. CASE TreeCrash
    BY <1>2, <1>3, <2>7 DEF TreeCrash, TreeKilled, TReturn, TGo
  <2>8. CASE TreeCrashInWrite
    BY <1>2, <1>3, <1>4, <2>8 DEF TreeCrashInWrite, TreeKilled, TReturn, TGo, Names
  <2>9. CASE FetchNext \/ UNCHANGED allvars
    BY <1>3, <2>9 DEF FetchNext, treevars, allvars
  <2> QED
    BY <2>1, <2>2, <2>3, <2>4, <2>5, <2>6, <2>7, <2>8, <2>9 DEF TreeNext, TreeStep
<1>6. tree' \in [Path -> SUBSET (Version \cup {-v : v \in Version})]
  <2>1. \A gone : Cleared(gone) \in [Path -> SUBSET (Version \cup {-v : v \in Version})]
    BY <1>3 DEF Cleared
  <2>2. \A l \in Path \X Version : \A left :
          left \subseteq {l[2], -l[2]} \cup tree[l[1]]
            => [tree EXCEPT ![l[1]] = left] \in [Path -> SUBSET (Version \cup {-v : v \in Version})]
    <3> TAKE l \in Path \X Version
    <3> TAKE left
    <3> HAVE left \subseteq {l[2], -l[2]} \cup tree[l[1]]
    <3>1. left \subseteq Version \cup {-v : v \in Version}
      BY <1>3, <1>4
    <3> QED
      BY <1>3, <3>1
  <2>3. CASE \E l \in Line : ExtractPath(l)
    BY <1>3, <2>2, <2>3 DEF ExtractPath
  <2>4. CASE \E l \in Line : Extract(l) \/ Install(l)
    <3>1. CASE \E l \in Line : Extract(l)
      BY <1>3, <2>2, <3>1 DEF Extract, Turn
    <3>2. CASE \E l \in Line : Install(l)
      <4>1. PICK l \in todo : tree' = [tree EXCEPT ![l[1]] = (@ \ {-l[2]}) \cup {l[2]}]
        BY <3>2 DEF Install, Turn
      <4>2. tree' = [tree EXCEPT ![l[1]] = (tree[l[1]] \ {-l[2]}) \cup {l[2]}]
        BY <1>3, <4>1
      <4> QED
        BY <1>3, <2>2, <4>2
    <3> QED
      BY <2>4, <3>1, <3>2
  <2>5. \A loop : \A l \in todo : \A left \in CutShort(loop, l) :
          left \subseteq {l[2], -l[2]} \cup tree[l[1]]
    BY DEF CutShort
  <2>6. CASE \E loop \in Loops, l \in Line : NotFound(loop, l) \/ TarFails(loop, l)
    BY <1>3, <2>2, <2>5, <2>6 DEF NotFound, TarFails
  <2>7. CASE TreeCrashInWrite
    <3>1. CASE tree' = tree
      BY <1>3, <3>1
    <3>2. CASE tree' # tree
      <4>1. PICK l \in todo : \E left \in CutShort(tpc, l) : tree' = [tree EXCEPT ![l[1]] = left]
        BY <2>7, <3>2 DEF TreeCrashInWrite
      <4> QED
        BY <1>3, <2>2, <2>5, <4>1
    <3> QED
      BY <3>1, <3>2
  <2>8. CASE RemoveOutdated \/ TreeCrash
    BY <1>3, <2>1, <2>8 DEF RemoveOutdated, TreeCrash
  <2>9. CASE ExtractRun \/ UpdateRun \/ ListFresh \/ ExtractMetadata \/ ExtractIndices
    BY <1>3, <2>9 DEF ExtractRun, UpdateRun, ListFresh, ExtractMetadata, ExtractIndices
  <2>10. CASE FetchNext \/ UNCHANGED allvars
    BY <1>3, <2>10 DEF FetchNext, treevars, allvars
  <2> QED
    BY <2>3, <2>4, <2>6, <2>7, <2>8, <2>9, <2>10 DEF TreeNext, TreeStep
<1>7. /\ tpc' \in {"idle", "extract", "remove", "list", "install", "metadata", "indices"}
      /\ kills' \in 0..MaxKill
      /\ outcome' \in {"none", "ok", "failed"}
  <2>0. /\ tpc \in {"idle", "extract", "remove", "list", "install", "metadata", "indices"}
        /\ kills \in 0..MaxKill /\ MaxKill \in Nat
        /\ outcome \in {"none", "ok", "failed"}
    BY TreeAssumption DEF TreeInv, TreeTypeOK
  <2>1. CASE TreeStep
    BY <2>0, <2>1 DEF TreeStep, ExtractRun, UpdateRun, ExtractPath, Extract, Install, Turn,
                NotFound, TarFails, RemoveOutdated, ListFresh, ExtractMetadata,
                ExtractIndices, TGo, TReturn, Loops
  <2>2. CASE TreeCrash \/ TreeCrashInWrite
    BY <2>0, <2>2 DEF TreeCrash, TreeCrashInWrite, TreeKilled, TReturn, TGo
  <2>3. CASE FetchNext \/ UNCHANGED allvars
    BY <2>0, <2>3 DEF FetchNext, treevars, allvars
  <2> QED
    BY <2>1, <2>2, <2>3 DEF TreeNext
<1> QED
  BY <1>1, <1>5, <1>6, <1>7 DEF TreeTypeOK

LEMMA RunStep ==
    ASSUME TreeInv, [TreeNext]_allvars
    PROVE  RunInv'
<1>0. RunInv /\ ControlInv /\ (Ready => index # NoFile /\ PortLines(NewRecord))
  BY TreeFacts DEF TreeInv, Ready
<1>1. Ready => Ready'
  BY <1>0, ReadyStays, TreeFetchStep
<1>2. CASE ExtractRun
  BY <1>0, <1>1, <1>2 DEF RunInv, ExtractRun, TGo, Offered, Ready
<1>3. CASE UpdateRun
  BY <1>0, <1>1, <1>3 DEF RunInv, UpdateRun, TGo, TReturn, Ready
<1>4. CASE \E l \in Line : ExtractPath(l)
  BY <1>0, <1>1, <1>4 DEF RunInv, ExtractPath, TGo
<1>5. CASE \E l \in Line : Extract(l) \/ Install(l)
  BY <1>0, <1>1, <1>5 DEF RunInv, Extract, Install, Turn
<1>6. CASE \E loop \in Loops, l \in Line : NotFound(loop, l) \/ TarFails(loop, l)
  BY <1>0, <1>1, <1>6 DEF RunInv, NotFound, TarFails, TGo, TReturn, Loops
<1>7. CASE RemoveOutdated \/ ListFresh
  BY <1>0, <1>1, <1>7 DEF RunInv, RemoveOutdated, ListFresh, Fresh, Offered, TGo, Ready
<1>8. CASE ExtractMetadata \/ ExtractIndices
  BY <1>0, <1>1, <1>8, NoFileFacts DEF RunInv, ExtractMetadata, ExtractIndices, TGo, TReturn
<1>9. CASE TreeCrash \/ TreeCrashInWrite
  BY <1>0, <1>1, <1>9 DEF RunInv, TreeCrash, TreeCrashInWrite, TreeKilled, TGo, TReturn
<1>10. CASE FetchNext \/ UNCHANGED allvars
  BY <1>0, <1>1, <1>10 DEF RunInv, FetchNext, treevars, allvars
<1> QED
  BY <1>2, <1>3, <1>4, <1>5, <1>6, <1>7, <1>8, <1>9, <1>10 DEF TreeNext, TreeStep

-----------------------------------------------------------------------------
(* What is in the tree. *)

\* What a step at idle or between two commands keeps of one path, when the goal
\* is set to what INDEX says by now.
LEMMA NewGoal ==
    ASSUME TreeInv, Ready, NEW p \in Kept, p \notin Strayed(index)
    PROVE  /\ Listed(record, p) = Listed(index, p) => tree[p] = Listed(record, p)
           /\ Listed(record, p) = {} =>
                \A l \in index : l[1] = p => tree[p] \subseteq {l[2], -l[2]}
<1>1. CASE goal = NoFile
  BY <1>1 DEF TreeInv, AgreeInv
<1>2. CASE goal # NoFile
  BY <1>2, StrayedFacts DEF TreeInv, AgreeInv, Between
<1> QED
  BY <1>1, <1>2

LEMMA AgreeFetch ==
    ASSUME TreeInv, FetchNext \/ UNCHANGED allvars
    PROVE  AgreeInv'
  BY DEF TreeInv, AgreeInv, Kept, Between, Listed, Names, FetchNext, treevars, allvars

LEMMA AgreeExtractRun ==
    ASSUME TreeInv, ExtractRun
    PROVE  AgreeInv'
<1>1. /\ Ready /\ tpc = "idle" /\ tpc' \in {"metadata", "extract"} /\ outcome' = "none"
      /\ goal' = index /\ todo' = Offered(index) /\ UNCHANGED <<tree, record>>
      /\ tpc' = "metadata" => Offered(index) = {}
      /\ loose' = loose \cup Strayed(index) \cup {p \in Path \ Names(index) : tree[p] # {}}
  BY DEF ExtractRun, TGo
<1>2. index # NoFile /\ PortLines(index)
  BY <1>1, TreeFacts DEF Ready
<1> SUFFICES ASSUME NEW p \in Kept'
             PROVE  /\ Between(p)'
                    /\ p \notin Names(Offered(index)) => tree[p] = Listed(index, p)
  BY <1>1, <1>2 DEF AgreeInv, Names
<1>3. p \in Kept /\ p \notin Strayed(index) /\ p \in Path /\ p \notin Refuse
  BY <1>1 DEF Kept
<1>4. Between(p)'
  BY <1>1, <1>3, NewGoal DEF Between, Listed
<1>5. ASSUME p \notin Names(Offered(index)) PROVE tree[p] = Listed(index, p)
  <2>1. p \notin Names(index)
    BY <1>3, <1>5 DEF Names, Offered
  <2>2. tree[p] = {}
    BY <1>1, <1>3, <2>1 DEF Kept
  <2>3. Listed(index, p) = {}
    BY <1>2, <2>1, ListedFacts DEF Names
  <2> QED
    BY <2>2, <2>3
<1> QED
  BY <1>4, <1>5

LEMMA AgreeUpdateRun ==
    ASSUME TreeInv, UpdateRun
    PROVE  AgreeInv'
<1>1. /\ Ready /\ tpc = "idle" /\ UNCHANGED <<tree, record>> /\ index # NoFile
      /\ loose' = loose \cup Strayed(index)
  BY DEF UpdateRun, TGo, TReturn, Ready
<1>2. CASE record = index
  <2>1. tpc' = "idle" /\ goal' = goal
    BY <1>2 DEF UpdateRun, TReturn, TGo
  <2> SUFFICES ASSUME NEW p \in Kept'
               PROVE  tree[p] = Listed(record, p) /\ (goal # NoFile => Between(p)')
    BY <1>1, <2>1 DEF AgreeInv, Listed
  <2>2. p \in Kept /\ p \notin Strayed(index)
    BY <1>1 DEF Kept
  <2>3. tree[p] = Listed(record, p)
    BY <1>1, <1>2, <2>2, NewGoal
  <2>4. goal # NoFile => Between(p)'
    BY <1>1, <2>1, <2>2 DEF TreeInv, AgreeInv, Between, Listed
  <2> QED
    BY <2>3, <2>4
<1>3. CASE record # index
  <2>1. tpc' = "remove" /\ goal' = index /\ outcome' = "none"
    BY <1>3 DEF UpdateRun, TGo
  <2> SUFFICES ASSUME NEW p \in Kept' PROVE Between(p)'
    BY <1>1, <2>1 DEF AgreeInv
  <2>2. p \in Kept /\ p \notin Strayed(index)
    BY <1>1 DEF Kept
  <2> QED
    BY <1>1, <2>1, <2>2, NewGoal DEF Between, Listed
<1> QED
  BY <1>2, <1>3

LEMMA AgreeExtractPath ==
    ASSUME TreeInv, NEW l \in Line, ExtractPath(l)
    PROVE  AgreeInv'
<1>1. /\ Ready /\ tpc = "idle" /\ tpc' = "idle" /\ outcome' = "none" /\ l \in index
      /\ UNCHANGED <<record, goal>>
  BY DEF ExtractPath, TGo
<1>2. PICK left : /\ tree' = [tree EXCEPT ![l[1]] = left]
                  /\ loose' = IF l \in record /\ left = {l[2]} THEN loose
                                                               ELSE loose \cup {l[1]}
  BY DEF ExtractPath
<1> SUFFICES ASSUME NEW p \in Kept'
             PROVE  (goal = NoFile => tree'[p] = Listed(record, p)) /\ (goal # NoFile => Between(p)')
  BY <1>1 DEF AgreeInv, Listed
<1>3. p \in Kept /\ p \in Path
  BY <1>2 DEF Kept
<1>4. CASE p # l[1]
  <2>1. tree'[p] = tree[p]
    BY <1>2, <1>4
  <2> QED
    BY <1>1, <1>3, <2>1 DEF TreeInv, AgreeInv, Between, Listed
<1>5. CASE p = l[1]
  <2>1. l \in record /\ left = {l[2]}
    BY <1>2, <1>5 DEF Kept
  <2>2. tree'[p] = {l[2]}
    BY <1>2, <1>3, <1>5, <2>1, TreeFacts
  <2>3. record # NoFile
    BY <1>3, <1>5, <2>1, PathAssumption DEF NoFile
  <2>4. Listed(record, p) = {l[2]}
    BY <1>5, <2>1, <2>3, TreeFacts, ListedFacts
  <2> QED
    BY <1>1, <2>2, <2>4 DEF Between, Listed
<1> QED
  BY <1>4, <1>5

LEMMA AgreeExtract ==
    ASSUME TreeInv, NEW l \in Line, Extract(l)
    PROVE  AgreeInv'
<1>1. /\ tpc = "extract" /\ l \in todo /\ todo' = todo \ {l}
      /\ tpc' = (IF todo = {l} THEN "metadata" ELSE "extract")
      /\ tree' = [tree EXCEPT ![l[1]] = {l[2]}] /\ loose' = loose \ {l[1]}
      /\ UNCHANGED <<record, outcome, goal>>
  BY DEF Extract, Turn
<1>2. /\ goal # NoFile /\ PortLines(goal) /\ outcome = "none" /\ l \in goal
      /\ l[1] \notin Refuse
  BY <1>1, TreeFacts DEF TreeInv, RunInv
<1> SUFFICES ASSUME NEW p \in Kept'
             PROVE  /\ Between(p)'
                    /\ p \notin Names(todo') => tree'[p] = Listed(goal, p)
  BY <1>1, <1>2 DEF AgreeInv, Names, Listed
<1>3. CASE p # l[1]
  <2>1. p \in Kept /\ tree'[p] = tree[p]
    BY <1>1, <1>3 DEF Kept
  <2>2. p \notin Names(todo') => p \notin Names(todo)
    BY <1>1, <1>3 DEF Names
  <2> QED
    BY <1>1, <1>2, <2>1, <2>2 DEF TreeInv, AgreeInv, Between, Listed
<1>4. CASE p = l[1]
  <2>1. p \in Path
    BY DEF Kept
  <2>2. tree'[p] = {l[2]}
    BY <1>1, <1>4, <2>1, TreeFacts
  <2>3. Listed(goal, p) = {l[2]} /\ \A k \in goal : k[1] = p => k = l
    BY <1>2, <1>4, ListedFacts DEF PortLines
  <2> QED
    BY <1>1, <2>2, <2>3 DEF Between, Listed
<1> QED
  BY <1>3, <1>4

LEMMA AgreeInstall ==
    ASSUME TreeInv, NEW l \in Line, Install(l)
    PROVE  AgreeInv'
<1>1. /\ tpc = "install" /\ l \in todo /\ todo' = todo \ {l}
      /\ tpc' = (IF todo = {l} THEN "metadata" ELSE "install")
      /\ tree' = [tree EXCEPT ![l[1]] = (@ \ {-l[2]}) \cup {l[2]}] /\ loose' = loose
      /\ UNCHANGED <<record, outcome, goal>>
  BY DEF Install, Turn
<1>2. /\ goal # NoFile /\ PortLines(goal) /\ outcome = "none" /\ todo \subseteq goal
  BY <1>1, TreeFacts DEF TreeInv, RunInv
<1> SUFFICES ASSUME NEW p \in Kept
             PROVE  /\ Between(p)'
                    /\ p \notin Names(todo') => tree'[p] = Listed(goal, p)
                    /\ \A k \in todo' : k[1] = p => tree'[p] \subseteq {k[2], -k[2]}
  BY <1>1, <1>2 DEF AgreeInv, Kept, Names, Listed
<1>3. CASE p # l[1]
  <2>1. tree'[p] = tree[p]
    BY <1>1, <1>3
  <2>2. p \notin Names(todo') => p \notin Names(todo)
    BY <1>1, <1>3 DEF Names
  <2> QED
    BY <1>1, <1>2, <2>1, <2>2 DEF TreeInv, AgreeInv, Between, Listed
<1>4. CASE p = l[1]
  <2>1. p \in Path
    BY DEF Kept
  <2>2. tree[p] \subseteq {l[2], -l[2]}
    BY <1>1, <1>4 DEF TreeInv, AgreeInv
  <2>3. tree'[p] = (tree[p] \ {-l[2]}) \cup {l[2]}
    BY <1>1, <1>4, <2>1, TreeFacts
  <2>4. tree'[p] = {l[2]}
    BY <2>2, <2>3
  <2>5. Listed(goal, p) = {l[2]} /\ \A k \in goal : k[1] = p => k = l
    BY <1>1, <1>2, <1>4, ListedFacts DEF PortLines
  <2> QED
    BY <1>1, <1>2, <2>4, <2>5 DEF Between, Listed
<1> QED
  BY <1>3, <1>4

\* A tar that stops half way, and a kill inside it, disturb one path.
LEMMA AgreeCutShort ==
    ASSUME TreeInv, NEW loop \in Loops, tpc = loop, NEW l \in todo,
           NEW left \in CutShort(loop, l), tree' = [tree EXCEPT ![l[1]] = left],
           UNCHANGED <<record, goal>>, outcome' # "ok",
           l[1] \in loose' \/ ((l \in record => l[1] \in loose') /\ tpc' = "idle"),
           loose \subseteq loose',
           tpc' = "idle" \/ (tpc' = loop /\ todo' = todo \ {l})
    PROVE  AgreeInv'
<1>1. /\ goal # NoFile /\ PortLines(goal) /\ l \in goal
      /\ l[1] \in Path /\ l[1] \notin Refuse
      /\ loop = "install" => l \notin record
      /\ l \in Path \X Version
  <2>1. RunInv /\ tpc \in {"install", "extract"}
    BY DEF TreeInv, Loops
  <2> QED
    BY <2>1, TreeFacts DEF RunInv, PortLines
<1>2. record = NoFile \/ PortLines(record)
  BY TreeFacts
<1> SUFFICES ASSUME NEW p \in Kept'
             PROVE  /\ Between(p)'
                    /\ tpc' # "idle" =>
                         /\ p \notin Names(todo') => tree'[p] = Listed(goal, p)
                         /\ tpc' = "install" =>
                              \A k \in todo' : k[1] = p => tree'[p] \subseteq {k[2], -k[2]}
  BY <1>1 DEF AgreeInv, Names, Listed, Loops
<1>3. CASE p # l[1]
  <2>1. p \in Kept /\ tree'[p] = tree[p] /\ tpc \in {"install", "extract"}
    BY <1>3 DEF Kept, Loops
  <2>2. todo' = todo \ {l} => (p \notin Names(todo') => p \notin Names(todo))
    BY <1>3 DEF Names
  <2> QED
    BY <1>1, <2>1, <2>2 DEF TreeInv, AgreeInv, Between, Listed
<1>4. CASE p = l[1]
  <2>1. tpc' = "idle" /\ l \notin record /\ p \in Kept
    BY <1>4 DEF Kept
  <2>2. Listed(goal, p) = {l[2]} /\ \A k \in goal : k[1] = p => k = l
    BY <1>1, <1>4, ListedFacts DEF PortLines
  <2>3. Listed(record, p) # Listed(goal, p)
    <3>1. CASE record = NoFile
      BY <1>1, <1>4, <2>2, <3>1, NoFileFacts
    <3>2. CASE PortLines(record)
      BY <1>1, <1>4, <2>1, <2>2, <3>2, ListedFacts
    <3> QED
      BY <1>2, <3>1, <3>2
  <2>4. tree'[p] = left
    BY <1>1, <1>4, TreeFacts
  <2>5. loop = "install" => tree[p] \subseteq {l[2], -l[2]}
    BY <1>4, <2>1 DEF TreeInv, AgreeInv
  <2>6. left \subseteq {l[2], -l[2]}
    BY <1>4, <2>5 DEF CutShort
  <2> QED
    BY <2>1, <2>2, <2>3, <2>4, <2>6 DEF Between, Listed
<1> QED
  BY <1>3, <1>4

LEMMA AgreeTarFails ==
    ASSUME TreeInv, NEW loop \in Loops, NEW l \in Line, NotFound(loop, l) \/ TarFails(loop, l)
    PROVE  AgreeInv'
<1>1. CASE NotFound(loop, l)
  <2>1. /\ tpc = loop /\ tpc' = "idle" /\ outcome' = "failed"
        /\ UNCHANGED <<tree, record, goal, loose>>
    BY <1>1 DEF NotFound, TReturn, TGo
  <2>2. goal # NoFile
    BY <2>1 DEF TreeInv, RunInv, Loops
  <2> QED
    BY <2>1, <2>2 DEF TreeInv, AgreeInv, Kept, Between, Listed
<1>2. CASE TarFails(loop, l)
  <2>1. /\ tpc = loop /\ l \in todo /\ UNCHANGED <<record, goal>>
        /\ \E left \in CutShort(loop, l) : tree' = [tree EXCEPT ![l[1]] = left]
        /\ loose' = IF todo = {l} THEN loose \cup Names({l} \cap record)
                                  ELSE loose \cup {l[1]}
    BY <1>2 DEF TarFails
  <2>2. outcome = "none"
    BY <2>1 DEF TreeInv, RunInv, Loops
  <2>3. CASE todo = {l}
    <3>1. tpc' = "idle" /\ outcome' = "failed"
      BY <1>2, <2>3 DEF TarFails, TReturn, TGo
    <3>2. l \in record => l[1] \in loose'
      BY <2>1, <2>3 DEF Names
    <3> QED
      BY <2>1, <2>3, <3>1, <3>2, AgreeCutShort
  <2>4. CASE todo # {l}
    <3>1. tpc' = loop /\ outcome' = "none" /\ todo' = todo \ {l}
      BY <1>2, <2>2, <2>4 DEF TarFails, TGo
    <3> QED
      BY <2>1, <2>4, <3>1, AgreeCutShort
  <2> QED
    BY <2>3, <2>4
<1> QED
  BY <1>1, <1>2

LEMMA OutdatedFacts ==
    ASSUME PortLines(record), PortLines(index), NEW p \in Path, p \notin Refuse
    PROVE  p \in Outdated <=> ~(Listed(record, p) \subseteq Listed(index, p))
<1>1. p \in Outdated <=> \E l \in record : l[1] = p /\ l \notin index
  BY DEF Outdated, Names, Offered
<1>2. \A l \in record : l[1] = p => (l \in index <=> l[2] \in Listed(index, p))
  BY ListedFacts DEF PortLines
<1>3. Listed(record, p) \subseteq Listed(index, p)
        <=> \A l \in record : l[1] = p => l[2] \in Listed(index, p)
  BY DEF Listed
<1> QED
  BY <1>1, <1>2, <1>3

LEMMA AgreeRemove ==
    ASSUME TreeInv, RemoveOutdated
    PROVE  AgreeInv'
<1>1. /\ tpc = "remove" /\ tpc' = "list" /\ tree' = Cleared(Outdated) /\ goal' = index
      /\ loose' = (loose \ Outdated) \cup Strayed(index)
      /\ UNCHANGED <<record, todo, outcome>>
  BY DEF RemoveOutdated, TGo
<1>2. Ready /\ index # NoFile /\ record # NoFile /\ outcome = "none"
  BY <1>1 DEF TreeInv, RunInv, Ready
<1> SUFFICES ASSUME NEW p \in Kept'
             PROVE  /\ Between(p)'
                    /\ ~(Listed(record, p) \subseteq Listed(index, p)) => tree'[p] = {}
  BY <1>1, <1>2 DEF AgreeInv, Listed
<1>3. p \in Path /\ p \notin Refuse /\ p \notin Strayed(index)
  BY <1>1 DEF Kept
<1>4. p \in Outdated <=> ~(Listed(record, p) \subseteq Listed(index, p))
  BY <1>2, <1>3, OutdatedFacts, TreeFacts
<1>5. CASE p \in Outdated
  <2>1. tree'[p] = {}
    BY <1>1, <1>3, <1>5 DEF Cleared
  <2> QED
    BY <1>1, <1>4, <1>5, <2>1 DEF Between, Listed
<1>6. CASE p \notin Outdated
  <2>1. p \in Kept /\ tree'[p] = tree[p]
    BY <1>1, <1>3, <1>6 DEF Kept, Cleared
  <2> QED
    BY <1>1, <1>2, <1>3, <1>4, <1>6, <2>1, NewGoal DEF Between, Listed
<1> QED
  BY <1>5, <1>6

LEMMA AgreeList ==
    ASSUME TreeInv, ListFresh
    PROVE  AgreeInv'
<1>1. /\ tpc = "list" /\ tpc' = (IF Fresh = {} THEN "metadata" ELSE "install")
      /\ todo' = Fresh /\ goal' = index /\ loose' = loose \cup Strayed(index)
      /\ UNCHANGED <<tree, record, outcome>>
  BY DEF ListFresh, TGo
<1>2. /\ Ready /\ index # NoFile /\ record # NoFile /\ outcome = "none" /\ goal # NoFile
      /\ PortLines(index) /\ PortLines(record)
  BY <1>1, TreeFacts DEF TreeInv, RunInv, Ready
<1> SUFFICES ASSUME NEW p \in Kept'
             PROVE  /\ Between(p)'
                    /\ p \notin Names(Fresh) => tree[p] = Listed(index, p)
                    /\ \A l \in Fresh : l[1] = p => tree[p] \subseteq {l[2], -l[2]}
  BY <1>1, <1>2 DEF AgreeInv, Names, Listed
<1>3. p \in Kept /\ p \notin Strayed(index) /\ p \in Path /\ p \notin Refuse
  BY <1>1 DEF Kept
<1>4. Between(p)'
  BY <1>1, <1>2, <1>3, NewGoal DEF Between, Listed
<1>5. ~(Listed(record, p) \subseteq Listed(index, p)) => tree[p] = {}
  BY <1>1, <1>2, <1>3, StrayedFacts DEF TreeInv, AgreeInv
<1>6. ASSUME NEW l \in Fresh, l[1] = p
      PROVE  tree[p] \subseteq {l[2], -l[2]}
  <2>1. l \in index /\ l \notin record /\ l \in Path \X Version
    BY <1>2 DEF Fresh, Offered, PortLines
  <2>2. Listed(index, p) = {l[2]} /\ l[2] \notin Listed(record, p)
    BY <1>2, <1>6, <2>1, ListedFacts
  <2>3. CASE Listed(record, p) = {}
    BY <1>2, <1>3, <1>6, <2>1, <2>3, NewGoal
  <2>4. CASE Listed(record, p) # {}
    BY <1>5, <2>2, <2>4
  <2> QED
    BY <2>3, <2>4
<1>7. ASSUME p \notin Names(Fresh) PROVE tree[p] = Listed(index, p)
  <2>1. \A l \in index : l[1] = p => l \in record
    BY <1>3, <1>7 DEF Names, Fresh, Offered
  <2>2. CASE \E l \in index : l[1] = p
    <3>0. PICK l \in index : l[1] = p
      BY <2>2
    <3>1. Listed(index, p) = Listed(record, p)
      <4>1. PortLines(index) /\ PortLines(record) /\ l \in index /\ l \in record /\ l[1] = p
        BY <1>2, <2>1, <3>0
      <4>2. Listed(index, p) = {l[2]}
        BY <4>1, ListedFacts
      <4>3. Listed(record, p) = {l[2]}
        BY <4>1, ListedFacts
      <4> QED
        BY <4>2, <4>3
    <3> QED
      BY <1>2, <1>3, <3>1, NewGoal
  <2>3. CASE \A l \in index : l[1] # p
    <3>1. Listed(index, p) = {}
      BY <1>2, <2>3, ListedFacts
    <3>2. CASE Listed(record, p) = {}
      BY <1>2, <1>3, <3>1, <3>2, NewGoal
    <3>3. CASE Listed(record, p) # {}
      BY <1>5, <3>1, <3>3
    <3> QED
      BY <3>2, <3>3
  <2> QED
    BY <2>2, <2>3
<1> QED
  BY <1>4, <1>6, <1>7

LEMMA NewRecordFacts ==
    ASSUME NEW p \in Path, p \notin Refuse
    PROVE  /\ Listed(NewRecord, p) = Listed(index, p)
           /\ \A l : l[1] = p => (l \in NewRecord <=> l \in index)
  BY DEF Listed, NewRecord, Offered

LEMMA AgreeEnd ==
    ASSUME TreeInv, ExtractMetadata \/ ExtractIndices
    PROVE  AgreeInv'
<1>1. CASE ExtractMetadata
  <2>1. /\ tpc = "metadata" /\ tpc' = "indices" /\ record' = NewRecord /\ goal' = NoFile
        /\ loose' = loose \cup Strayed(index) /\ UNCHANGED <<tree, outcome>>
    BY <1>1 DEF ExtractMetadata, TGo
  <2>2. goal # NoFile
    BY <2>1 DEF TreeInv, RunInv
  <2> SUFFICES ASSUME NEW p \in Kept' PROVE tree[p] = Listed(NewRecord, p)
    BY <2>1 DEF AgreeInv, Listed
  <2>3. p \in Kept /\ p \notin Strayed(index) /\ p \in Path /\ p \notin Refuse
    BY <2>1 DEF Kept
  <2>4. tree[p] = Listed(goal, p)
    BY <2>1, <2>3 DEF TreeInv, AgreeInv
  <2> QED
    BY <2>2, <2>3, <2>4, StrayedFacts, NewRecordFacts
<1>2. CASE ExtractIndices
  <2>1. /\ tpc = "indices" /\ tpc' = "idle" /\ UNCHANGED <<tree, record, goal, loose>>
    BY <1>2 DEF ExtractIndices, TReturn, TGo
  <2>2. goal = NoFile
    BY <2>1 DEF TreeInv, RunInv
  <2> QED
    BY <2>1, <2>2 DEF TreeInv, AgreeInv, Kept, Listed
<1> QED
  BY <1>1, <1>2

LEMMA AgreeCrash ==
    ASSUME TreeInv, TreeCrash
    PROVE  AgreeInv'
<1>1. /\ tpc' = "idle" /\ outcome' = "none" /\ UNCHANGED <<goal, record>>
      /\ tpc \in {"list", "install", "extract", "metadata", "remove"}
  BY DEF TreeCrash, TreeKilled, TReturn, TGo
<1>2. goal # NoFile /\ Ready
  BY <1>1 DEF TreeInv, RunInv
<1> SUFFICES ASSUME NEW p \in Kept' PROVE Between(p)'
  BY <1>1, <1>2 DEF AgreeInv
<1>3. CASE UNCHANGED <<tree, loose>>
  BY <1>1, <1>2, <1>3 DEF TreeInv, AgreeInv, Kept, Between, Listed
<1>4. CASE ~UNCHANGED <<tree, loose>>
  <2>1. PICK gone \in SUBSET Outdated : tree' = Cleared(gone)
    BY <1>4 DEF TreeCrash
  <2>2. tpc = "remove" /\ loose' = loose \cup Strayed(index)
    BY <1>4 DEF TreeCrash, TreeKilled, TReturn, TGo
  <2>3. p \in Kept /\ p \notin Strayed(index) /\ p \in Path /\ p \notin Refuse /\ record # NoFile
    BY <2>2 DEF Kept, TreeInv, RunInv
  <2>4. CASE p \in gone
    <3>1. ~(Listed(record, p) \subseteq Listed(index, p))
      BY <1>2, <2>3, <2>4, OutdatedFacts, TreeFacts
    <3>2. Listed(index, p) = Listed(goal, p)
      BY <1>2, <2>3, StrayedFacts
    <3> QED
      BY <1>1, <3>1, <3>2 DEF Between, Listed
  <2>5. CASE p \notin gone
    <3>1. tree'[p] = tree[p]
      BY <2>1, <2>3, <2>5 DEF Cleared
    <3> QED
      BY <1>1, <1>2, <2>3, <3>1 DEF TreeInv, AgreeInv, Between, Listed
  <2> QED
    BY <2>4, <2>5
<1> QED
  BY <1>3, <1>4

LEMMA AgreeCrashInWrite ==
    ASSUME TreeInv, TreeCrashInWrite
    PROVE  AgreeInv'
<1>1. CASE \E loop \in Loops : TreeKilled(loop)
  <2>1. PICK loop \in Loops : TreeKilled(loop)
    BY <1>1
  <2>2. tpc = loop /\ tpc' = "idle" /\ outcome' = "none" /\ goal' = goal /\ tpc # "metadata"
    BY <2>1 DEF TreeKilled, TReturn, TGo, Loops
  <2>3. /\ record' = record
        /\ \E l \in todo :
             /\ \E left \in CutShort(tpc, l) : tree' = [tree EXCEPT ![l[1]] = left]
             /\ loose' = loose \cup Names({l} \cap record)
    BY <2>2 DEF TreeCrashInWrite, TreeKilled, TReturn, TGo
  <2>4. PICK l \in todo :
             /\ \E left \in CutShort(tpc, l) : tree' = [tree EXCEPT ![l[1]] = left]
             /\ loose' = loose \cup Names({l} \cap record)
    BY <2>3
  <2>5. l \in record => l[1] \in loose'
    BY <2>4 DEF Names
  <2> QED
    BY <2>2, <2>3, <2>4, <2>5, AgreeCutShort
<1>2. CASE TreeKilled("metadata")
  <2>1. /\ tpc = "metadata" /\ tpc' = "idle" /\ outcome' = "none" /\ goal' = goal
        /\ \E lines \in SUBSET NewRecord : record' = lines
        /\ loose' = loose \cup Strayed(index) /\ tree' = tree
    BY <1>2 DEF TreeCrashInWrite, TreeKilled, TReturn, TGo, Loops
  <2>2. goal # NoFile /\ PortLines(goal)
    BY <2>1, TreeFacts DEF TreeInv, RunInv
  <2> SUFFICES ASSUME NEW p \in Kept' PROVE Between(p)'
    BY <2>1, <2>2 DEF AgreeInv
  <2>3. p \in Kept /\ p \notin Strayed(index) /\ p \in Path /\ p \notin Refuse
    BY <2>1 DEF Kept
  <2>4. tree[p] = Listed(goal, p)
    BY <2>1, <2>3 DEF TreeInv, AgreeInv
  <2>5. \A l \in goal : l[1] = p => Listed(goal, p) = {l[2]}
    BY <2>2, ListedFacts
  <2> QED
    BY <2>1, <2>4, <2>5 DEF Between, Listed
<1> QED
  BY <1>1, <1>2 DEF TreeCrashInWrite

LEMMA TreeInit_Inv == TreeInit => TreeInv
<1> SUFFICES ASSUME TreeInit PROVE TreeInv
  OBVIOUS
<1>1. ControlInv
  BY ControlInit DEF TreeInit
<1>2. TreeTypeOK
  BY TreeAssumption DEF TreeInit, TreeTypeOK
<1>3. LinesInv
  BY DEF TreeInit, Init, LinesInv, FetchLines, PortLines
<1>4. RunInv
  BY DEF TreeInit, RunInv
<1>5. AgreeInv
  BY NoFileFacts DEF TreeInit, AgreeInv, Kept
<1> QED
  BY <1>1, <1>2, <1>3, <1>4, <1>5 DEF TreeInv

LEMMA TreeInvStep == TreeInv /\ [TreeNext]_allvars => TreeInv'
<1> SUFFICES ASSUME TreeInv, [TreeNext]_allvars PROVE TreeInv'
  OBVIOUS
<1>1. ControlInv'
  BY ControlStep, TreeFetchStep DEF TreeInv
<1>2. AgreeInv'
  BY AgreeFetch, AgreeExtractRun, AgreeUpdateRun, AgreeExtractPath, AgreeExtract,
     AgreeInstall, AgreeTarFails, AgreeRemove, AgreeList, AgreeEnd, AgreeCrash,
     AgreeCrashInWrite DEF TreeNext, TreeStep
<1> QED
  BY <1>1, <1>2, TreeTypeStep, LinesStep, RunStep DEF TreeInv

\* A tree that extract or update reports up to date holds what .portsnap.INDEX
\* lists, wherever nothing the scripts cannot see has disturbed them, whatever
\* was fetched meanwhile, whatever tar failed and whatever runs were killed
\* before (extract_run, update_run).
THEOREM TreeIsRecorded == TreeSpec => []TreeAgrees
<1>1. TreeInv => TreeAgrees
  BY DEF TreeInv, AgreeInv, Kept, TreeAgrees
<1> QED
  BY <1>1, TreeInit_Inv, TreeInvStep, PTL DEF TreeSpec

=============================================================================
