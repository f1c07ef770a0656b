---------------------------- MODULE RepoSyncProofs ----------------------------
(* Proofs about RepoSync for any set of ports, any number of builds, restarts  *)
(* and pushes of others, and any items that prune.sh may remove.               *)
EXTENDS RepoSync, CommitQueueProofs

-----------------------------------------------------------------------------
(* Typing. *)

LEMMA AnyFacts ==
    /\ Content \subseteq Any /\ Theirs \in Any /\ Marked \in Any
    /\ Absent \in Any /\ Torn \in Any
    /\ 0..MaxBuild \subseteq Any
    /\ \A c \in Any : c \in Int /\ (c > 0 => c # Marked /\ c # Theirs /\ c # Torn /\ c # Absent)
    /\ Marked # Theirs /\ Marked # Torn /\ Marked # Absent /\ Theirs # Torn
  BY ContentFacts DEF Any, Content, Theirs, Marked, Absent, Torn

LEMMA WithTypes ==
    ASSUME NEW f, NEW g, NEW S, NEW V, \A i \in Item : f[i] \in V,
           \A i \in S : g[i] \in V
    PROVE  With(f, S, g) \in [Item -> V]
  BY DEF With

LEMMA WithFacts ==
    ASSUME NEW f, NEW g, NEW S, NEW i \in Item
    PROVE  /\ i \in S => With(f, S, g)[i] = g[i]
           /\ i \notin S => With(f, S, g)[i] = f[i]
  BY DEF With

LEMMA OfFacts ==
    /\ \A t \in Track : Of(t) \subseteq Item
    /\ \A i \in Item : i \in Of(i[1])
    /\ \A t \in Track : \A i \in Of(t) : i[1] = t
    /\ Of("dport") = Trees /\ Of("delta") = Item \ Trees
    /\ Trees \subseteq Item
  BY ItemFacts DEF Of, Trees, Track

LEMMA UpstreamFacts ==
    /\ Upstream \subseteq Item /\ Upstream \subseteq Of(repo)
    /\ Local \subseteq Item /\ Local \subseteq Of(repo)
    /\ \A i \in Upstream : i[1] = repo /\ origin[i] # base[i]
  BY DEF Upstream, Local, Of

LEMMA MergedFacts ==
    ASSUME NEW clash, NEW i \in Upstream
    PROVE  Merged(clash)[i] = IF i \in clash THEN Marked
                              ELSE IF i \in Local THEN Theirs ELSE origin[i]
  BY DEF Merged

TreesTyped ==
    work \in [Item -> Any] /\ index \in [Item -> Any] /\ head \in [Item -> Any]

QueueTyped ==
    /\ entry \in [Item -> Content] /\ val \in Content
    /\ build \in [Port -> 0..MaxBuild]
    /\ hookpc \in [Port -> {"idle", "write", "unlink", "create", "fill"}]
    /\ hooktrack \in [Port -> Track]
    /\ todo \subseteq Item /\ cur \in Item \cup {NoItem}
    /\ (dpc \in {"read", "add", "status", "commit", "unlink"} => cur \in Item)
    /\ dpc \in {"find_delta", "find_dport", "pick", "read", "add", "status",
                "commit", "unlink", "pull", "push"}
    /\ stale \in BOOLEAN /\ dropped \subseteq Item

GitTyped ==
    /\ origin \in [Item -> Any] /\ base \in [Item -> Any]
    /\ mergehead \in [Item -> Any]
    /\ merging \in [Track -> BOOLEAN] /\ pruning \in [Track -> BOOLEAN]
    /\ unmerged \subseteq {i \in Item : merging[i[1]]}
    /\ repo \in Track
    /\ others \in 0..MaxOther

LEMMA TypedParts == SyncTypeOK <=> TreesTyped /\ QueueTyped /\ GitTyped
  BY DEF SyncTypeOK, TreesTyped, QueueTyped, GitTyped

\* The hook of one port, and the daemon's steps that do not look at git.
QueueStep ==
    \/ \E p \in Port, success \in BOOLEAN : HookStart(p, success)
    \/ \E p \in Port : HookTear(p) \/ HookStep(p)
    \/ FindDelta \/ FindDport \/ (\E i \in Item : Pick(i)) \/ EndRound
    \/ ReadEntry \/ AddStatusFails \/ Tasks \/ CommitFails \/ RemoveEntry

\* The steps that leave the queue itself alone.
GitStep ==
    \/ StartSync \/ Pull \/ PullConflicts \/ PullFails \/ Push \/ PushFails
    \/ \E i \in Item : PruneRemove(i) \/ PruneRefused(i) \/ OthersPush(i)
    \/ \E t \in Track : PruneCommit(t) \/ Resolve(t)

LEMMA SyncNextParts ==
    SyncNext <=> \/ QueueStep /\ UNCHANGED syncvars
                 \/ SyncAdd \/ AddUnknown \/ SyncCommit
                 \/ GitStep \/ SyncRestart
  BY DEF SyncNext, SyncDaemonStep, QueueStep, GitStep

LEMMA SyncTypeInit == SyncInit => SyncTypeOK
<1> SUFFICES ASSUME SyncInit PROVE SyncTypeOK
  OBVIOUS
<1>1. TypeOK
  BY TypeInit DEF SyncInit
<1>2. TreesTyped
  BY <1>1, AnyFacts DEF TypeOK, TreesTyped
<1>3. QueueTyped
  BY <1>1, ZenonT(20) DEF TypeOK, QueueTyped
<1>4. /\ merging \in [Track -> BOOLEAN] /\ pruning \in [Track -> BOOLEAN]
      /\ unmerged = {}
  BY DEF SyncInit
<1>5. others \in 0..MaxOther /\ repo \in Track
  BY SyncAssumption DEF SyncInit, Track
<1> QED
  BY <1>2, <1>3, <1>4, <1>5, TypedParts DEF SyncInit, TreesTyped, GitTyped

LEMMA QueueStepTypes ==
    ASSUME SyncTypeOK, QueueStep, UNCHANGED syncvars
    PROVE  SyncTypeOK'
<1> USE BoundsAssumption, ContentFacts, AnyFacts
<1>1. TreesTyped'
  <2>1. ASSUME NEW p \in Port, HookTear(p) \/ HookWrite(p) PROVE TreesTyped'
    <3>1. build[p] \in Any
      BY DEF SyncTypeOK
    <3>2. PICK c \in Any : /\ work' = [work EXCEPT ![Target(p)] = c]
                           /\ UNCHANGED <<index, head>>
      BY <2>1, <3>1 DEF HookTear, HookWrite
    <3> QED
      BY <3>2 DEF SyncTypeOK, TreesTyped
  <2>2. CASE ~\E p \in Port : HookTear(p) \/ HookWrite(p)
    BY <2>2
    DEF QueueStep, HookStart, HookStep, HookUnlink, HookCreate, HookFill,
        FindDelta, FindDport, Pick, EndRound, ReadEntry, AddStatusFails, Tasks,
        CommitFails, RemoveEntry, trees, SyncTypeOK, TreesTyped
  <2> QED
    BY <2>1, <2>2
<1>2. QueueTyped'
  <2> USE DEF SyncTypeOK, QueueTyped
  <2>1. ASSUME NEW p \in Port, NEW success \in BOOLEAN, HookStart(p, success)
        PROVE  QueueTyped'
    BY <2>1, RangeFacts, ItemFacts DEF history, HookStart, daemonvars
  <2>2. ASSUME NEW p \in Port, HookTear(p) \/ HookStep(p)
        PROVE  QueueTyped'
    <3>1. Target(p) \in Item /\ build[p] \in Content
      BY ItemFacts DEF Target
    <3>2. stale' \in BOOLEAN /\ dropped' \subseteq Item
      BY <2>2, <3>1
      DEF history, HookTear, HookStep, HookWrite, HookUnlink, HookCreate, HookFill
    <3> QED
      BY <2>2, <3>1, <3>2
      DEF HookTear, HookStep, HookWrite, HookUnlink, HookCreate, HookFill,
          hookvars, daemonvars, Track
  <2>3. CASE FindDelta \/ FindDport \/ (\E i \in Item : Pick(i)) \/ EndRound
    BY <2>3 DEF history, FindDelta, FindDport, Pick, EndRound, Queued, hookvars
  <2>4. CASE ReadEntry \/ AddStatusFails \/ Tasks \/ CommitFails \/ RemoveEntry
    <3>1. stale' \in BOOLEAN /\ dropped' \subseteq Item
      BY <2>4 DEF history, ReadEntry, AddStatusFails, Tasks, CommitFails, RemoveEntry,
                  NextItem
    <3> QED
      BY <2>4, <3>1 DEF ReadEntry, AddStatusFails, Tasks, CommitFails, RemoveEntry,
                        NextItem, hookvars
  <2> QED
    BY <2>1, <2>2, <2>3, <2>4 DEF QueueStep
<1>3. GitTyped'
  BY DEF syncvars, SyncTypeOK, GitTyped
<1> QED
  BY <1>1, <1>2, <1>3 DEF SyncTypeOK, TreesTyped, QueueTyped, GitTyped

LEMMA AddTypes ==
    ASSUME SyncTypeOK, SyncAdd \/ AddUnknown
    PROVE  SyncTypeOK'
<1> USE DEF SyncTypeOK
<1>1. TreesTyped'
  <2>1. Stage \in [Item -> Any]
    BY DEF Stage
  <2> QED
    BY <2>1 DEF SyncAdd, AddUnknown, AddStatus, AddTree, trees, TreesTyped
<1>2. QueueTyped'
  BY ContentFacts
  DEF history, SyncAdd, AddUnknown, AddStatus, AddTree, NextItem, hookvars, QueueTyped
<1>3. GitTyped'
  BY DEF SyncAdd, AddUnknown, syncvars, GitTyped
<1> QED
  BY <1>1, <1>2, <1>3 DEF TreesTyped, QueueTyped, GitTyped

LEMMA ConcludeTypes ==
    ASSUME SyncTypeOK, NEW t \in Track, Conclude(t), UNCHANGED unmerged
    PROVE  /\ merging' \in [Track -> BOOLEAN] /\ base' \in [Item -> Any]
           /\ unmerged' \subseteq {i \in Item : merging'[i[1]]}
<1>1. merging' = [merging EXCEPT ![t] = FALSE] /\ unmerged \cap Of(t) = {}
  BY DEF Conclude
<1>2. merging' \in [Track -> BOOLEAN]
  BY <1>1 DEF SyncTypeOK
<1>3. base' \in [Item -> Any]
  <2>1. With(base, Of(t), mergehead) \in [Item -> Any]
    BY WithTypes, OfFacts DEF SyncTypeOK
  <2> QED
    BY <2>1 DEF Conclude, SyncTypeOK
<1>4. \A i \in unmerged : merging'[i[1]]
  BY <1>1, OfFacts, ItemFacts DEF SyncTypeOK
<1> QED
  BY <1>2, <1>3, <1>4 DEF SyncTypeOK

LEMMA CommitTypes ==
    ASSUME SyncTypeOK, SyncCommit
    PROVE  SyncTypeOK'
<1>1. TreesTyped'
  <2>1. CASE CommitPath
    <3>1. Committable \subseteq Any
      BY <2>1, AnyFacts DEF Committable, CommitPath, SyncTypeOK
    <3> QED
      BY <2>1, <3>1 DEF CommitPath, SyncTypeOK, TreesTyped
  <2>2. CASE CommitIndex
    BY <2>2 DEF CommitIndex, SyncTypeOK, TreesTyped
  <2> QED
    BY <2>1, <2>2 DEF SyncCommit
<1>2. QueueTyped'
  BY DEF history, SyncCommit, CommitPath, CommitIndex, hookvars, SyncTypeOK, QueueTyped
<1>3. GitTyped'
  <2>1. CASE UNCHANGED syncvars
    BY <2>1 DEF syncvars, SyncTypeOK, GitTyped
  <2>2. CASE Conclude("dport")
             /\ UNCHANGED <<origin, mergehead, unmerged, repo, pruning, others>>
    BY <2>2, ConcludeTypes, ItemFacts DEF SyncTypeOK, GitTyped
  <2> QED
    BY <2>1, <2>2 DEF SyncCommit
<1> QED
  BY <1>1, <1>2, <1>3 DEF SyncTypeOK, TreesTyped, QueueTyped, GitTyped

LEMMA PullTypes ==
    ASSUME SyncTypeOK, Pull \/ PullConflicts
    PROVE  SyncTypeOK'
<1>1. \A clash : \A i \in Upstream : Merged(clash)[i] \in Any
  BY MergedFacts, UpstreamFacts, AnyFacts DEF SyncTypeOK
<1>2. \A f \in [Item -> Any] : \A clash : With(f, Upstream, Merged(clash)) \in [Item -> Any]
  BY <1>1, WithTypes
<1>3. TreesTyped'
  BY <1>2 DEF Pull, PullConflicts, SyncTypeOK, TreesTyped
<1>4. QueueTyped'
  BY DEF history, Pull, PullConflicts, Quiet, NextRepo, hookvars, SyncTypeOK, QueueTyped
<1>5. \A f \in [Item -> Any] : With(f, Of(repo), origin) \in [Item -> Any]
  BY WithTypes, OfFacts DEF SyncTypeOK
<1>6. repo' \in Track
  BY DEF Pull, PullConflicts, NextRepo, SyncTypeOK, Track
<1>7. CASE Pull
  <2>1. GitTyped'
    BY <1>5, <1>6, <1>7 DEF Pull, Quiet, SyncTypeOK, GitTyped
  <2> QED
    BY <1>3, <1>4, <2>1 DEF SyncTypeOK, TreesTyped, QueueTyped, GitTyped
<1>8. CASE PullConflicts
  <2>1. PICK clash \in SUBSET Upstream : unmerged' = unmerged \cup clash
    BY <1>8 DEF PullConflicts
  <2>2. merging' = [merging EXCEPT ![repo] = TRUE]
    BY <1>8 DEF PullConflicts
  <2>3. merging' \in [Track -> BOOLEAN]
    BY <2>2 DEF SyncTypeOK
  <2>4. \A i \in unmerged' : i \in Item /\ merging'[i[1]]
    BY <2>1, <2>2, UpstreamFacts, ItemFacts DEF SyncTypeOK
  <2>5. GitTyped'
    BY <1>5, <1>6, <1>8, <2>3, <2>4 DEF PullConflicts, Quiet, SyncTypeOK, GitTyped
  <2> QED
    BY <1>3, <1>4, <2>5 DEF SyncTypeOK, TreesTyped, QueueTyped, GitTyped
<1> QED
  BY <1>7, <1>8

LEMMA PushTypes ==
    ASSUME SyncTypeOK, StartSync \/ PullFails \/ Push \/ PushFails \/ SyncRestart
    PROVE  SyncTypeOK'
<1>1. TreesTyped'
  BY DEF StartSync, PullFails, Push, PushFails, SyncRestart, Restart, trees,
         SyncTypeOK, TreesTyped
<1>2. QueueTyped'
  BY ContentFacts
  DEF history, StartSync, PullFails, Push, PushFails, SyncRestart, Restart, Quiet, NextRepo,
      hookvars, SyncTypeOK, QueueTyped
<1>3. repo' \in Track
  BY DEF StartSync, PullFails, Push, PushFails, SyncRestart, NextRepo, syncvars,
         SyncTypeOK, Track
<1>4. \A f \in [Item -> Any] : With(f, Of(repo), head) \in [Item -> Any]
  BY WithTypes, OfFacts DEF SyncTypeOK
<1>5. origin' \in [Item -> Any] /\ base' \in [Item -> Any]
  BY <1>4 DEF StartSync, PullFails, Push, PushFails, SyncRestart, shared, syncvars,
              SyncTypeOK
<1>6. UNCHANGED <<mergehead, merging, unmerged, pruning, others>>
  BY DEF StartSync, PullFails, Push, PushFails, SyncRestart, shared, syncvars, Quiet
<1>7. GitTyped'
  BY <1>3, <1>5, <1>6 DEF SyncTypeOK, GitTyped
<1> QED
  BY <1>1, <1>2, <1>7 DEF SyncTypeOK, TreesTyped, QueueTyped, GitTyped

LEMMA PruneTypes ==
    ASSUME SyncTypeOK,
           \/ \E i \in Item : PruneRemove(i) \/ PruneRefused(i) \/ OthersPush(i)
           \/ \E t \in Track : PruneCommit(t)
    PROVE  SyncTypeOK'
<1>1. QueueTyped'
  BY DEF history, PruneRemove, PruneRefused, OthersPush, PruneCommit, hookvars, daemonvars, SyncTypeOK,
         QueueTyped
<1>2. ASSUME NEW i \in Item, PruneRemove(i) PROVE TreesTyped' /\ GitTyped'
  BY <1>2, AnyFacts, ItemFacts DEF PruneRemove, shared, SyncTypeOK, TreesTyped, GitTyped
<1>5. ASSUME NEW i \in Item, PruneRefused(i) PROVE TreesTyped' /\ GitTyped'
  BY <1>5, ItemFacts DEF PruneRefused, trees, shared, SyncTypeOK, TreesTyped, GitTyped
<1>3. ASSUME NEW i \in Item, OthersPush(i) PROVE TreesTyped' /\ GitTyped'
  <2>1. others' \in 0..MaxOther
    BY <1>3, SyncAssumption, RangeFacts DEF OthersPush, SyncTypeOK
  <2> QED
    BY <1>3, <2>1, AnyFacts DEF OthersPush, trees, SyncTypeOK, TreesTyped, GitTyped
<1>4. ASSUME NEW t \in Track, PruneCommit(t) PROVE TreesTyped' /\ GitTyped'
  <2>1. pruning' \in [Track -> BOOLEAN]
        /\ UNCHANGED <<origin, mergehead, unmerged, repo, others>>
    BY <1>4 DEF PruneCommit, SyncTypeOK
  <2>2. CASE t = "dport"
    <3>1. PruneCommitDports
      BY <1>4, <2>2 DEF PruneCommit
    <3>2. With(head, Trees, index) \in [Item -> Any]
      BY WithTypes, ItemFacts DEF SyncTypeOK
    <3>3. TreesTyped'
      BY <3>1, <3>2 DEF PruneCommitDports, SyncTypeOK, TreesTyped
    <3>4. /\ merging' \in [Track -> BOOLEAN] /\ base' \in [Item -> Any]
          /\ unmerged' \subseteq {i \in Item : merging'[i[1]]}
      BY <2>1, <3>1, ConcludeTypes, ItemFacts DEF PruneCommitDports, SyncTypeOK
    <3> QED
      BY <2>1, <3>3, <3>4 DEF SyncTypeOK, GitTyped
  <2>3. CASE t # "dport"
    <3>1. PruneCommitDelta
      BY <1>4, <2>3 DEF PruneCommit
    <3>2. \A f \in [Item -> Any] : \A S \in SUBSET Item : With(f, S, work) \in [Item -> Any]
      BY WithTypes DEF SyncTypeOK
    <3> DEFINE known == {i \in Of("delta") : index[i] # Absent \/ head[i] # Absent}
    <3>a. known \in SUBSET Item
      BY OfFacts, ItemFacts
    <3>b. /\ work' = work
          /\ \/ head' = head /\ index' = index
             \/ head' = With(head, known, work) /\ index' = With(index, known, work)
      BY <3>1 DEF PruneCommitDelta
    <3>c. TreesTyped
      BY DEF SyncTypeOK, TreesTyped
    <3> HIDE DEF known
    <3>3. TreesTyped'
      BY <3>2, <3>a, <3>b, <3>c DEF TreesTyped
    <3> QED
      BY <2>1, <3>1, <3>3 DEF PruneCommitDelta, SyncTypeOK, GitTyped
  <2> QED
    BY <2>2, <2>3
<1> QED
  BY <1>1, <1>2, <1>3, <1>4, <1>5 DEF SyncTypeOK, TreesTyped, QueueTyped, GitTyped

LEMMA ResolveTypes ==
    ASSUME SyncTypeOK, NEW t \in Track, Resolve(t)
    PROVE  SyncTypeOK'
<1> DEFINE left == unmerged \cap Of(t)
<1>1. PICK pick \in [left -> Any] :
           /\ work' = With(work, left, pick)
           /\ index' = With(index, left, pick)
           /\ head' = With(With(head, Of(t), index), left, pick)
  BY DEF Resolve
<1>2. /\ merging' = [merging EXCEPT ![t] = FALSE] /\ unmerged' = unmerged \ left
      /\ base' = With(base, Of(t), mergehead)
      /\ UNCHANGED <<entry, hookvars, daemonvars, history, origin, mergehead, repo,
                     pruning, others>>
  BY DEF Resolve
<1>3. \A i \in left : pick[i] \in Any
  OBVIOUS
<1>4. \A i \in unmerged' : i[1] # t
  BY <1>2, OfFacts, ItemFacts DEF SyncTypeOK, Of
<1> HIDE DEF left
<1>5. With(head, Of(t), index) \in [Item -> Any] /\ base' \in [Item -> Any]
  BY <1>2, WithTypes, OfFacts DEF SyncTypeOK
<1>6. TreesTyped'
  <2>1. \A f \in [Item -> Any] : With(f, left, pick) \in [Item -> Any]
    BY <1>3, WithTypes
  <2> QED
    BY <1>1, <1>5, <2>1 DEF SyncTypeOK, TreesTyped
<1>7. QueueTyped'
  BY <1>2 DEF history, hookvars, daemonvars, SyncTypeOK, QueueTyped
<1>8. merging' \in [Track -> BOOLEAN]
  BY <1>2 DEF SyncTypeOK
<1>9. unmerged' \subseteq {i \in Item : merging'[i[1]]}
  BY <1>2, <1>4, ItemFacts DEF SyncTypeOK
<1>10. GitTyped'
  BY <1>2, <1>5, <1>8, <1>9 DEF SyncTypeOK, GitTyped
<1> QED
  BY <1>6, <1>7, <1>10 DEF SyncTypeOK, TreesTyped, QueueTyped, GitTyped

LEMMA SyncTypeNext == SyncTypeOK /\ [SyncNext]_allvars => SyncTypeOK'
<1> SUFFICES ASSUME SyncTypeOK, [SyncNext]_allvars PROVE SyncTypeOK'
  OBVIOUS
<1>1. CASE SyncNext
  BY <1>1, SyncNextParts, QueueStepTypes, AddTypes, CommitTypes, PullTypes, PushTypes,
     PruneTypes, ResolveTypes
  DEF GitStep
<1>2. CASE UNCHANGED allvars
  BY <1>2 DEF allvars, SyncTypeOK
<1> QED
  BY <1>1, <1>2

\* Every variable of the queue and of the repositories keeps its type.
THEOREM SyncTyping == SyncSpec => []SyncTypeOK
<1> QED
  BY SyncTypeInit, SyncTypeNext, PTL DEF SyncSpec

-----------------------------------------------------------------------------
(* What a merge takes in. *)

\* What is in the shared repository and was not pulled, or is not in the merge
\* that is going on, others have pushed; and there is no push during a merge.
MergeInv ==
    /\ \A i \in Item :
          /\ origin[i] # base[i] => origin[i] = Theirs
          /\ merging[i[1]] /\ origin[i] # mergehead[i] => origin[i] = Theirs
    /\ dpc = "push" => ~merging[repo]

LEMMA MergeInit == SyncInit => MergeInv
  BY DEF SyncInit, Init, MergeInv

LEMMA MergeUndisturbed ==
    ASSUME MergeInv, UNCHANGED shared,
           dpc' = "push" => dpc = "push" /\ repo' = repo
    PROVE  MergeInv'
  BY DEF MergeInv, shared

LEMMA MergeEnds ==
    ASSUME SyncTypeOK, MergeInv, NEW t \in Track,
           merging' = [merging EXCEPT ![t] = FALSE],
           base' = base \/ (merging[t] /\ base' = With(base, Of(t), mergehead)),
           UNCHANGED <<origin, mergehead, repo>>, dpc' = "push" => dpc = "push"
    PROVE  MergeInv'
<1>1. \A r \in Track : merging'[r] => merging[r]
  BY DEF SyncTypeOK
<1>2. dpc' = "push" => ~merging'[repo']
  BY <1>1 DEF MergeInv, SyncTypeOK
<1>3. ASSUME NEW i \in Item
      PROVE  /\ origin'[i] # base'[i] => origin'[i] = Theirs
             /\ merging'[i[1]] /\ origin'[i] # mergehead'[i] => origin'[i] = Theirs
  <2>1. base'[i] = base[i] \/ (merging[i[1]] /\ base'[i] = mergehead[i])
    <3>1. CASE i \in Of(t)
      BY <3>1, WithFacts DEF Of
    <3>2. CASE i \notin Of(t)
      BY <3>2, WithFacts
    <3> QED
      BY <3>1, <3>2
  <2> QED
    BY <1>1, <2>1, ItemFacts DEF MergeInv
<1> QED
  BY <1>2, <1>3 DEF MergeInv

LEMMA ConcludeEnds ==
    ASSUME NEW t \in Track, Conclude(t)
    PROVE  /\ merging' = [merging EXCEPT ![t] = FALSE]
           /\ base' = base \/ (merging[t] /\ base' = With(base, Of(t), mergehead))
<1>1. CASE merging[t]
  BY <1>1 DEF Conclude
<1>2. CASE ~merging[t]
  BY <1>2 DEF Conclude
<1> QED
  BY <1>1, <1>2

LEMMA MergePull ==
    ASSUME SyncTypeOK, MergeInv, Pull \/ PullConflicts
    PROVE  MergeInv'
<1> USE DEF MergeInv
<1>1. CASE Pull
  <2>1. /\ base' = With(base, Of(repo), origin) /\ ~merging[repo]
        /\ UNCHANGED <<origin, mergehead, merging, repo>>
    BY <1>1 DEF Pull, Refused
  <2>2. \A i \in Item : base'[i] = base[i] \/ base'[i] = origin[i]
    BY <2>1, WithFacts
  <2> QED
    BY <2>1, <2>2
<1>2. CASE PullConflicts
  <2>1. /\ mergehead' = With(mergehead, Of(repo), origin)
        /\ merging' = [merging EXCEPT ![repo] = TRUE]
        /\ UNCHANGED <<origin, base>>
    BY <1>2 DEF PullConflicts
  <2>2. dpc' # "push"
    BY <1>2 DEF PullConflicts, NextRepo
  <2>3. ASSUME NEW i \in Item
        PROVE  merging'[i[1]] /\ origin[i] # mergehead'[i] => origin[i] = Theirs
    <3>1. CASE i[1] = repo
      BY <2>1, <3>1, WithFacts, OfFacts
    <3>2. CASE i[1] # repo
      <4>1. i \notin Of(repo)
        BY <3>2 DEF Of
      <4>2. mergehead'[i] = mergehead[i] /\ (merging'[i[1]] <=> merging[i[1]])
        BY <2>1, <3>2, <4>1, WithFacts, ItemFacts DEF SyncTypeOK
      <4> QED
        BY <4>2
    <3> QED
      BY <3>1, <3>2
  <2> QED
    BY <2>1, <2>2, <2>3
<1> QED
  BY <1>1, <1>2

LEMMA MergePush ==
    ASSUME SyncTypeOK, MergeInv, Push
    PROVE  MergeInv'
<1>1. /\ origin' = With(origin, Of(repo), head) /\ base' = With(base, Of(repo), head)
      /\ ~merging[repo] /\ dpc' # "push" /\ UNCHANGED <<mergehead, merging>>
  BY DEF Push, NextRepo, MergeInv
<1>2. \A i \in Item : \/ origin'[i] = base'[i] /\ i[1] = repo
                      \/ origin'[i] = origin[i] /\ base'[i] = base[i]
  <2> SUFFICES ASSUME NEW i \in Item
               PROVE  \/ origin'[i] = base'[i] /\ i[1] = repo
                      \/ origin'[i] = origin[i] /\ base'[i] = base[i]
    OBVIOUS
  <2>1. CASE i \in Of(repo)
    BY <1>1, <2>1, WithFacts DEF Of
  <2>2. CASE i \notin Of(repo)
    BY <1>1, <2>2, WithFacts
  <2> QED
    BY <2>1, <2>2
<1> QED
  BY <1>1, <1>2 DEF MergeInv

LEMMA MergeNext == SyncTypeOK /\ MergeInv /\ [SyncNext]_allvars => MergeInv'
<1> SUFFICES ASSUME SyncTypeOK, MergeInv, [SyncNext]_allvars PROVE MergeInv'
  OBVIOUS
<1>1. CASE QueueStep /\ UNCHANGED syncvars
  <2>1. dpc' = "push" => dpc = "push"
    BY <1>1
    DEF QueueStep, HookStart, HookTear, HookStep, HookWrite, HookUnlink, HookCreate,
        HookFill, FindDelta, FindDport, Pick, EndRound, ReadEntry, AddStatusFails,
        Tasks, CommitFails, RemoveEntry, NextItem, daemonvars
  <2> QED
    BY <1>1, <2>1, MergeUndisturbed DEF syncvars, shared
<1>2. CASE SyncAdd \/ AddUnknown
  <2>1. dpc' # "push" /\ UNCHANGED <<origin, base, mergehead, merging, repo>>
    BY <1>2 DEF SyncAdd, AddUnknown, AddStatus, AddTree, NextItem, syncvars
  <2> QED
    BY <2>1 DEF MergeInv
<1>3. CASE SyncCommit
  <2>1. dpc' # "push"
    BY <1>3 DEF SyncCommit, CommitPath, CommitIndex
  <2>2. CASE UNCHANGED syncvars
    BY <2>1, <2>2, MergeUndisturbed DEF syncvars, shared
  <2>3. CASE Conclude("dport") /\ UNCHANGED <<origin, mergehead, repo>>
    BY <2>1, <2>3, ConcludeEnds, MergeEnds, ItemFacts
  <2> QED
    BY <1>3, <2>2, <2>3 DEF SyncCommit
<1>4. CASE Pull \/ PullConflicts
  BY <1>4, MergePull
<1>5. CASE Push
  BY <1>5, MergePush
<1>6. CASE StartSync \/ PullFails \/ PushFails \/ SyncRestart
  <2>1. dpc' # "push" /\ UNCHANGED shared
    BY <1>6
    DEF StartSync, PullFails, PushFails, SyncRestart, Restart, NextRepo, shared, syncvars
  <2> QED
    BY <2>1, MergeUndisturbed
<1>7. ASSUME NEW i \in Item, PruneRemove(i) PROVE MergeInv'
  BY <1>7, MergeUndisturbed DEF PruneRemove, daemonvars
<1>8. ASSUME NEW i \in Item, OthersPush(i) PROVE MergeInv'
  BY <1>8 DEF OthersPush, daemonvars, MergeInv, SyncTypeOK
<1>9. ASSUME NEW t \in Track, PruneCommit(t) PROVE MergeInv'
  <2>1. UNCHANGED <<origin, mergehead, unmerged, repo, dpc>>
    BY <1>9 DEF PruneCommit, daemonvars
  <2>2. CASE Conclude("dport")
    BY <2>1, <2>2, ConcludeEnds, MergeEnds, ItemFacts
  <2>3. CASE UNCHANGED <<merging, base>>
    BY <2>1, <2>3, MergeUndisturbed DEF shared
  <2> QED
    BY <1>9, <2>2, <2>3 DEF PruneCommit, PruneCommitDports, PruneCommitDelta
<1>10. ASSUME NEW t \in Track, Resolve(t) PROVE MergeInv'
  <2>1. /\ merging[t] /\ merging' = [merging EXCEPT ![t] = FALSE]
        /\ base' = With(base, Of(t), mergehead)
        /\ UNCHANGED <<origin, mergehead, repo, dpc>>
    BY <1>10 DEF Resolve, daemonvars
  <2> QED
    BY <2>1, MergeEnds
<1>11. ASSUME NEW i \in Item, PruneRefused(i) PROVE MergeInv'
  BY <1>11, MergeUndisturbed DEF PruneRefused, daemonvars
<1>12. CASE UNCHANGED allvars
  BY <1>12, MergeUndisturbed DEF allvars, shared
<1> QED
  BY <1>1, <1>2, <1>3, <1>4, <1>5, <1>6, <1>7, <1>8, <1>9, <1>10, <1>11, <1>12, SyncNextParts
  DEF GitStep

-----------------------------------------------------------------------------
(* The marks of a conflict. *)

\* Marks in the working tree are in the index too (a git add of them changes
\* nothing), and outside a merge the index has none that the last commit has not.
MarkInv ==
    \A i \in Item :
      /\ work[i] = Marked => index[i] = Marked
      /\ ~merging[i[1]] /\ index[i] = Marked => head[i] = Marked

\* The step of MarksEndMerges.
MarksCommitted(i) ==
    head'[i] = Marked /\ head[i] # Marked
      => /\ merging[i[1]] /\ ~merging'[i[1]]
         /\ (i \in Trees \/ UNCHANGED daemonvars)

MarkStep == MarkInv' /\ \A i \in Item : MarksCommitted(i)

LEMMA MarkInit == SyncInit => MarkInv
  BY AnyFacts DEF SyncInit, Init, MarkInv

LEMMA MarksUndisturbed ==
    ASSUME MarkInv, UNCHANGED <<trees, merging>>
    PROVE  MarkStep
  BY DEF MarkInv, MarkStep, MarksCommitted, trees

LEMMA WorkOfQueueStep ==
    ASSUME SyncTypeOK, QueueStep
    PROVE  /\ \A i \in Item : work'[i] = work[i] \/ work'[i] \in Content
           /\ UNCHANGED <<index, head>>
<1>1. UNCHANGED <<index, head>>
  BY DEF QueueStep, HookStart, HookTear, HookStep, HookWrite, HookUnlink, HookCreate,
         HookFill, FindDelta, FindDport, Pick, EndRound, ReadEntry, AddStatusFails,
         Tasks, CommitFails, RemoveEntry, trees
<1>2. CASE UNCHANGED work
  BY <1>1, <1>2
<1>3. ASSUME NEW p \in Port, HookTear(p) \/ HookWrite(p)
      PROVE  \A i \in Item : work'[i] = work[i] \/ work'[i] \in Content
  <2>1. build[p] \in Content
    BY ContentFacts DEF SyncTypeOK
  <2>2. PICK c \in Content : work' = [work EXCEPT ![Target(p)] = c]
    BY <1>3, <2>1, ContentFacts DEF HookTear, HookWrite
  <2> QED
    BY <2>2 DEF SyncTypeOK
<1>4. CASE ~(\E p \in Port : HookTear(p) \/ HookWrite(p))
  <2>1. UNCHANGED work
    BY <1>4
    DEF QueueStep, HookStart, HookStep, HookUnlink, HookCreate,
        HookFill, FindDelta, FindDport, Pick, EndRound, ReadEntry, AddStatusFails,
        Tasks, CommitFails, RemoveEntry, trees
  <2> QED
    BY <1>2, <2>1
<1> QED
  BY <1>1, <1>3, <1>4

LEMMA NoMarkBuilt == Marked \notin Content
  BY BoundsAssumption DEF Marked, Content

\* What a commit of a path takes.
LEMMA CommitPathFacts ==
    ASSUME SyncTypeOK, CommitPath
    PROVE  /\ cur \in Item /\ UNCHANGED <<work, entry, hookvars, todo, cur, val>>
           /\ dpc = "commit" /\ dpc' = "unlink"
           /\ index[cur] = work[cur] \/ cur \notin Trees => head'[cur] = work[cur]
           /\ head'[cur] \in {work[cur], Torn} /\ index'[cur] = head'[cur]
           /\ head'[cur] # head[cur]
           /\ \A i \in Item : i # cur => head'[i] = head[i] /\ index'[i] = index[i]
<1>1. cur \in Item /\ UNCHANGED <<work, entry, hookvars, todo, cur, val>>
  BY DEF CommitPath, SyncTypeOK
<1>2. PICK new \in Committable : /\ head' = [head EXCEPT ![cur] = new]
                               /\ index' = [index EXCEPT ![cur] = new]
                               /\ new # head[cur]
  BY DEF CommitPath
<1>3. new \in {work[cur], Torn}
  BY <1>2 DEF Committable
<1>4. index[cur] = work[cur] \/ cur \notin Trees => new = work[cur]
  BY <1>2 DEF Committable
<1>5. dpc = "commit" /\ dpc' = "unlink"
  BY DEF CommitPath
<1> QED
  BY <1>1, <1>2, <1>3, <1>4, <1>5 DEF SyncTypeOK

\* What a commit of the index of DPORTS makes of the items.
LEMMA CommitAllFacts ==
    ASSUME SyncTypeOK, NEW i \in Item,
           head' = With(head, Trees, index) \/ head' = [j \in Item |-> IF j \in Trees THEN index[j] ELSE head[j]]
    PROVE  /\ i \in Trees => head'[i] = index[i]
           /\ i \notin Trees => head'[i] = head[i]
  BY WithFacts

LEMMA MarkCommitAll ==
    ASSUME SyncTypeOK, MarkInv,
           \A i \in Item : /\ i \in Trees => head'[i] = index[i]
                           /\ i \notin Trees => head'[i] = head[i],
           Conclude("dport"), UNCHANGED <<work, index>>
    PROVE  MarkStep
<1>1. merging' = [merging EXCEPT !["dport"] = FALSE]
  BY DEF Conclude
<1>2. \A i \in Item : /\ i \in Trees => i[1] = "dport" /\ ~merging'[i[1]]
                      /\ i \notin Trees => i[1] # "dport" /\ (merging'[i[1]] <=> merging[i[1]])
  BY <1>1, ItemFacts DEF Trees, SyncTypeOK
<1>3. ASSUME NEW i \in Item
      PROVE  /\ work'[i] = Marked => index'[i] = Marked
             /\ ~merging'[i[1]] /\ index'[i] = Marked => head'[i] = Marked
             /\ MarksCommitted(i)
  <2>1. CASE i \in Trees
    <3>1. head'[i] = index[i] /\ i[1] = "dport" /\ ~merging'[i[1]]
      BY <1>2, <2>1
    <3>2. index[i] = Marked /\ head[i] # Marked => merging[i[1]]
      BY DEF MarkInv
    <3>3. MarksCommitted(i)
      BY <2>1, <3>1, <3>2, Zenon DEF MarksCommitted
    <3> QED
      BY <3>1, <3>3 DEF MarkInv
  <2>2. CASE i \notin Trees
    BY <1>2, <2>2 DEF MarkInv, MarksCommitted
  <2> QED
    BY <2>1, <2>2
<1> QED
  BY <1>3 DEF MarkInv, MarkStep

LEMMA MarkPull ==
    ASSUME SyncTypeOK, MergeInv, MarkInv, Pull \/ PullConflicts
    PROVE  MarkStep
<1> SUFFICES ASSUME NEW i \in Item
             PROVE  /\ work'[i] = Marked => index'[i] = Marked
                    /\ ~merging'[i[1]] /\ index'[i] = Marked => head'[i] = Marked
                    /\ head'[i] = Marked => head[i] = Marked
  BY DEF MarkInv, MarkStep, MarksCommitted
<1>1. PICK clash : /\ work' = With(work, Upstream, Merged(clash))
                   /\ index' = With(index, Upstream, Merged(clash))
  BY DEF Pull, PullConflicts
<1>2. CASE i \notin Upstream
  <2>1. work'[i] = work[i] /\ index'[i] = index[i]
    BY <1>1, <1>2, WithFacts
  <2>2. head'[i] = head[i]
    BY <1>2, WithFacts DEF Pull, PullConflicts
  <2>3. merging[i[1]] => merging'[i[1]]
    BY ItemFacts DEF Pull, PullConflicts, SyncTypeOK
  <2> QED
    BY <2>1, <2>2, <2>3 DEF MarkInv
<1>3. CASE i \in Upstream
  <2>1. work'[i] = Merged(clash)[i] /\ index'[i] = Merged(clash)[i]
    BY <1>1, <1>3, WithFacts
  <2>2. CASE Pull
    <3>1. Merged({})[i] = Theirs
      BY <1>3, MergedFacts, UpstreamFacts DEF MergeInv
    <3>2. head'[i] = Theirs /\ index'[i] = Theirs
      BY <1>3, <2>2, <3>1, WithFacts DEF Pull
    <3> QED
      BY <2>1, <3>2, AnyFacts
  <2>3. CASE PullConflicts
    <3>1. merging'[i[1]] /\ head' = head
      BY <1>3, <2>3, UpstreamFacts DEF PullConflicts, SyncTypeOK
    <3> QED
      BY <2>1, <3>1
  <2> QED
    BY <2>2, <2>3
<1> QED
  BY <1>2, <1>3

\* What a person who ends a merge makes of the items.
LEMMA ResolveFacts ==
    ASSUME SyncTypeOK, NEW t \in Track, Resolve(t)
    PROVE  /\ merging[t] /\ merging' = [merging EXCEPT ![t] = FALSE]
           /\ UNCHANGED <<entry, hookvars, daemonvars>>
           /\ \A i \in Item :
                \/ /\ i[1] # t /\ work'[i] = work[i] /\ index'[i] = index[i]
                   /\ head'[i] = head[i]
                \/ /\ i[1] = t /\ work'[i] = work[i] /\ index'[i] = index[i]
                   /\ head'[i] = index[i]
                \/ /\ i[1] = t /\ index'[i] = work'[i] /\ head'[i] = work'[i]
                   /\ IF work[i] = Marked THEN work'[i] \in {head[i], Theirs}
                                          ELSE work'[i] = work[i]
                   /\ work[i] # Torn
<1> DEFINE left == unmerged \cap Of(t)
<1>1. PICK pick \in [left -> Any] :
           /\ \A i \in left : IF work[i] = Marked THEN pick[i] \in {head[i], Theirs}
                                                  ELSE pick[i] = work[i]
           /\ work' = With(work, left, pick)
           /\ index' = With(index, left, pick)
           /\ head' = With(With(head, Of(t), index), left, pick)
  BY DEF Resolve
<1>2. \A i \in left : i[1] = t /\ work[i] # Torn
  BY DEF Resolve, Of
<1> HIDE DEF left
<1>3. ASSUME NEW i \in Item, i \in left
      PROVE  /\ i[1] = t /\ index'[i] = work'[i] /\ head'[i] = work'[i]
             /\ IF work[i] = Marked THEN work'[i] \in {head[i], Theirs}
                                    ELSE work'[i] = work[i]
             /\ work[i] # Torn
  BY <1>1, <1>2, <1>3, WithFacts
<1>4. ASSUME NEW i \in Item, i \notin left
      PROVE  /\ work'[i] = work[i] /\ index'[i] = index[i]
             /\ head'[i] = IF i[1] = t THEN index[i] ELSE head[i]
  <2>1. head'[i] = With(head, Of(t), index)[i]
    BY <1>1, <1>4, WithFacts
  <2>2. i[1] = t <=> i \in Of(t)
    BY DEF Of
  <2> QED
    BY <1>1, <1>4, <2>1, <2>2, WithFacts
<1> QED
  BY <1>3, <1>4 DEF Resolve

\* What the commit of prune.sh in DELTA makes of the items.
LEMMA PruneDeltaFacts ==
    ASSUME SyncTypeOK, PruneCommitDelta, NEW i \in Item
    PROVE  /\ UNCHANGED <<work, merging, base>>
           /\ \/ head'[i] = head[i] /\ index'[i] = index[i]
              \/ /\ head'[i] = work[i] /\ index'[i] = work[i]
                 /\ i[1] = "delta" /\ ~merging["delta"]
           /\ \/ merging["delta"] \/ i[1] # "delta"
              \/ index[i] = Absent /\ head[i] = Absent
              \/ head'[i] = work[i] /\ index'[i] = work[i]
<1> DEFINE known == {j \in Of("delta") : index[j] # Absent \/ head[j] # Absent}
<1>1. UNCHANGED <<work, merging, base>>
  BY DEF PruneCommitDelta
<1>2. CASE merging["delta"]
  BY <1>1, <1>2 DEF PruneCommitDelta
<1>3. CASE ~merging["delta"]
  <2>1. head' = With(head, known, work) /\ index' = With(index, known, work)
    BY <1>3 DEF PruneCommitDelta
  <2>2. CASE i \in known
    <3>1. i[1] = "delta"
      BY <2>2 DEF Of
    <3> HIDE DEF known
    <3> QED
      BY <1>1, <1>3, <2>1, <2>2, <3>1, WithFacts
  <2>3. CASE i \notin known
    <3>1. i[1] # "delta" \/ (index[i] = Absent /\ head[i] = Absent)
      BY <2>3 DEF Of
    <3> HIDE DEF known
    <3> QED
      BY <1>1, <1>3, <2>1, <2>3, <3>1, WithFacts
  <2> QED
    BY <2>2, <2>3
<1> QED
  BY <1>2, <1>3

LEMMA MarkNext ==
    SyncTypeOK /\ MergeInv /\ MarkInv /\ [SyncNext]_allvars => MarkStep
<1> SUFFICES ASSUME SyncTypeOK, MergeInv, MarkInv, [SyncNext]_allvars PROVE MarkStep
  OBVIOUS
<1>1. CASE QueueStep /\ UNCHANGED syncvars
  <2>1. UNCHANGED merging
    BY <1>1 DEF syncvars
  <2> QED
    BY <1>1, <2>1, WorkOfQueueStep, NoMarkBuilt DEF MarkInv, MarkStep, MarksCommitted
<1>2. CASE SyncAdd
  <2>1. UNCHANGED <<work, head, merging>>
    BY <1>2 DEF SyncAdd, AddStatus, AddTree
  <2>2. \A i \in Item : index'[i] \in {index[i], work[i]}
    BY <1>2 DEF SyncAdd, AddStatus, AddTree, Stage
  <2> QED
    BY <2>1, <2>2 DEF MarkInv, MarkStep, MarksCommitted
<1>3. CASE CommitPath /\ ~merging[cur[1]] /\ UNCHANGED syncvars
  <2>1. UNCHANGED merging
    BY <1>3 DEF syncvars
  <2>2. cur \in Item /\ head'[cur] # Marked /\ index'[cur] # Marked
    BY <1>3, CommitPathFacts, AnyFacts DEF MarkInv
  <2>3. work'[cur] # Marked
    BY <1>3, <2>2, CommitPathFacts DEF MarkInv
  <2> QED
    BY <1>3, <2>1, <2>2, <2>3, CommitPathFacts DEF MarkInv, MarkStep, MarksCommitted
<1>4. CASE CommitIndex /\ Conclude("dport")
  <2>1. \A i \in Item : /\ i \in Trees => head'[i] = index[i]
                        /\ i \notin Trees => head'[i] = head[i]
    BY <1>4, CommitAllFacts DEF CommitIndex
  <2> QED
    BY <1>4, <2>1, MarkCommitAll DEF CommitIndex
<1>5. CASE Pull \/ PullConflicts
  BY <1>5, MarkPull
<1>6. CASE AddUnknown \/ StartSync \/ PullFails \/ Push \/ PushFails \/ SyncRestart
  BY <1>6, MarksUndisturbed
  DEF AddUnknown, StartSync, PullFails, Push, PushFails, SyncRestart, Restart, shared,
      syncvars
<1>7. ASSUME NEW i \in Item, PruneRemove(i) PROVE MarkStep
  <2>1. UNCHANGED <<head, merging>>
    BY <1>7 DEF PruneRemove, shared
  <2>2. \A j \in Item : \/ work'[j] = work[j] /\ index'[j] = index[j]
                        \/ work'[j] = Absent /\ index'[j] = Absent
    BY <1>7 DEF PruneRemove, SyncTypeOK
  <2> QED
    BY <2>1, <2>2, AnyFacts DEF MarkInv, MarkStep, MarksCommitted
<1>8. ASSUME NEW i \in Item, OthersPush(i) PROVE MarkStep
  BY <1>8, MarksUndisturbed DEF OthersPush
<1>9. ASSUME NEW t \in Track, PruneCommit(t) PROVE MarkStep
  <2>1. CASE PruneCommitDports
    <3>1. CASE UNCHANGED <<head, merging>>
      BY <2>1, <3>1, MarksUndisturbed DEF PruneCommitDports, trees
    <3>2. CASE Conclude("dport") /\ head' = With(head, Trees, index)
      <4>1. \A i \in Item : /\ i \in Trees => head'[i] = index[i]
                            /\ i \notin Trees => head'[i] = head[i]
        BY <3>2, CommitAllFacts
      <4> QED
        BY <2>1, <3>2, <4>1, MarkCommitAll DEF PruneCommitDports
    <3> QED
      BY <2>1, <3>1, <3>2 DEF PruneCommitDports
  <2>2. CASE PruneCommitDelta
    BY <2>2, PruneDeltaFacts DEF MarkInv, MarkStep, MarksCommitted
  <2> QED
    BY <1>9, <2>1, <2>2 DEF PruneCommit
<1>10. ASSUME NEW t \in Track, Resolve(t) PROVE MarkStep
  <2>1. \A i \in Item : /\ i[1] = t => merging[i[1]] /\ ~merging'[i[1]]
                        /\ i[1] # t => (merging'[i[1]] <=> merging[i[1]])
    BY <1>10, ResolveFacts, ItemFacts DEF SyncTypeOK
  <2>2. UNCHANGED daemonvars
    BY <1>10 DEF Resolve
  <2>3. MarkInv'
    BY <1>10, <2>1, ResolveFacts DEF MarkInv
  <2>4. ASSUME NEW i \in Item PROVE MarksCommitted(i)
    <3>1. CASE i[1] = t
      <4>1. merging[i[1]] /\ ~merging'[i[1]]
        BY <2>1, <3>1
      <4> QED
        BY <2>2, <4>1 DEF MarksCommitted
    <3>2. CASE i[1] # t
      <4>1. head'[i] = head[i]
        BY <1>10, <3>2, ResolveFacts
      <4> QED
        BY <4>1 DEF MarksCommitted
    <3> QED
      BY <3>1, <3>2
  <2> QED
    BY <2>3, <2>4 DEF MarkStep
<1>11. ASSUME NEW i \in Item, PruneRefused(i) PROVE MarkStep
  BY <1>11, MarksUndisturbed DEF PruneRefused, shared
<1>12. CASE UNCHANGED allvars
  BY <1>12, MarksUndisturbed DEF allvars, trees
<1> QED
  BY <1>1, <1>2, <1>3, <1>4, <1>5, <1>6, <1>7, <1>8, <1>9, <1>10, <1>11, <1>12, SyncNextParts
  DEF GitStep, SyncCommit

\* Conflict markers get into a commit only when it ends the merge they come from,
\* and in DELTA it is a person who does that, never the daemon (dports-daemon.sh,
\* the git add, git status and git commit of each loop).
THEOREM MarksOnlyEndMerges == SyncSpec => MarksEndMerges
<1>1. MarkStep => [\A i \in Item : head'[i] = Marked /\ head[i] # Marked
                     => /\ merging[i[1]] /\ ~merging'[i[1]]
                        /\ (i \in Trees \/ UNCHANGED daemonvars)]_allvars
  BY DEF MarkStep, MarksCommitted
<1>2. MarkStep => MarkInv'
  BY DEF MarkStep
<1> QED
  BY <1>1, <1>2, SyncTypeInit, SyncTypeNext, MergeInit, MergeNext, MarkInit, MarkNext, PTL
  DEF SyncSpec, MarksEndMerges

-----------------------------------------------------------------------------
(* The order of builds. *)

LEMMA SyncOrderTypes ==
    ASSUME SyncTypeOK, NEW i \in Item
    PROVE  /\ work[i] \in Int /\ index[i] \in Int /\ head[i] \in Int
           /\ i[2] \in Port /\ build[i[2]] \in Int /\ build[i[2]] >= 0
<1>1. i[2] \in Port
  BY ItemFacts
<1>2. build[i[2]] \in Int /\ build[i[2]] >= 0
  BY <1>1, BoundsAssumption DEF SyncTypeOK
<1> QED
  BY <1>1, <1>2, AnyFacts DEF SyncTypeOK

\* An item that is the same in all three places, or that a merge or a commit
\* brings into line with one of them, stays in order.
LEMMA SyncOrderStep ==
    ASSUME SyncTypeOK, SyncTypeOK', OrderInv, UNCHANGED build,
           \A i \in Item :
              \/ /\ work'[i] = work[i]
                 /\ \/ index'[i] \in {index[i], work[i]} /\ head'[i] = head[i]
                    \/ index'[i] = index[i] /\ head'[i] = index[i]
                    \/ index'[i] = Torn /\ head'[i] = Torn
              \/ /\ work'[i] \in {work[i], head[i], Theirs}
                 /\ index'[i] = work'[i] /\ head'[i] = work'[i]
              \/ /\ work'[i] \in {Absent, Theirs, Marked}
                 /\ index'[i] = work'[i] /\ head'[i] = head[i]
    PROVE  OrderInv'
<1> SUFFICES ASSUME NEW i \in Item
             PROVE  /\ index'[i] > 0 => head'[i] <= index'[i]
                    /\ work'[i] > 0 => index'[i] <= work'[i]
                    /\ work'[i] > 0 => head'[i] <= work'[i]
                    /\ work'[i] <= build[i[2]]
                    /\ index'[i] <= build[i[2]]
                    /\ head'[i] <= build[i[2]]
  BY DEF OrderInv, NeverOlder
<1>1. /\ index[i] > 0 => head[i] <= index[i]
      /\ work[i] > 0 => index[i] <= work[i]
      /\ work[i] > 0 => head[i] <= work[i]
      /\ work[i] <= build[i[2]]
      /\ index[i] <= build[i[2]]
      /\ head[i] <= build[i[2]]
  BY DEF OrderInv, NeverOlder
<1>2. Absent = 0 /\ Torn = -1 /\ Theirs = -2 /\ Marked = -3
  BY DEF Absent, Torn, Theirs, Marked
<1> QED
  BY <1>1, <1>2, SyncOrderTypes

LEMMA OrderQueueStep ==
    ASSUME SyncTypeOK, SyncTypeOK', OrderInv, QueueStep
    PROVE  OrderInv'
<1>1. UNCHANGED <<index, head>>
  BY WorkOfQueueStep
<1>2. ASSUME NEW p \in Port, NEW success \in BOOLEAN, HookStart(p, success)
      PROVE  OrderInv'
  <2>1. \A q \in Port : build'[q] \in Int /\ build[q] <= build'[q]
    <3>1. build' = [build EXCEPT ![p] = build[p] + 1]
      BY <1>2 DEF HookStart
    <3> QED
      BY <3>1, BoundsAssumption DEF SyncTypeOK
  <2>2. UNCHANGED trees
    BY <1>2 DEF HookStart
  <2> SUFFICES ASSUME NEW i \in Item
               PROVE  /\ work[i] <= build'[i[2]]
                      /\ index[i] <= build'[i[2]]
                      /\ head[i] <= build'[i[2]]
    BY <2>2 DEF OrderInv, NeverOlder, trees
  <2> QED
    BY <2>1, SyncOrderTypes DEF OrderInv
<1>3. ASSUME NEW p \in Port, HookTear(p) \/ HookWrite(p)
      PROVE  OrderInv'
  <2>1. UNCHANGED build
    BY <1>3 DEF HookTear, HookWrite, hookvars
  <2>2. PICK c \in {Absent, Torn, build[p]} : work' = [work EXCEPT ![Target(p)] = c]
    BY <1>3 DEF HookTear, HookWrite
  <2>3. Target(p) \in Item /\ Target(p)[2] = p
    BY ItemFacts DEF Target, SyncTypeOK
  <2> SUFFICES ASSUME NEW i \in Item
               PROVE  /\ index[i] > 0 => head[i] <= index[i]
                      /\ work'[i] > 0 => index[i] <= work'[i]
                      /\ work'[i] > 0 => head[i] <= work'[i]
                      /\ work'[i] <= build[i[2]]
                      /\ index[i] <= build[i[2]]
                      /\ head[i] <= build[i[2]]
    BY <1>1, <2>1 DEF OrderInv, NeverOlder
  <2>4. CASE i = Target(p)
    <3>1. work'[i] = c /\ i[2] = p
      BY <2>2, <2>3, <2>4 DEF SyncTypeOK
    <3> QED
      BY <2>2, <3>1, SyncOrderTypes DEF OrderInv, NeverOlder, Absent, Torn
  <2>5. CASE i # Target(p)
    <3>1. work'[i] = work[i]
      BY <2>2, <2>5 DEF SyncTypeOK
    <3> QED
      BY <3>1 DEF OrderInv, NeverOlder
  <2> QED
    BY <2>4, <2>5
<1>4. CASE /\ ~\E p \in Port : HookTear(p) \/ HookWrite(p)
           /\ ~\E p \in Port, success \in BOOLEAN : HookStart(p, success)
  <2>1. UNCHANGED <<trees, build>>
    BY <1>1, <1>4
    DEF QueueStep, HookStep, HookUnlink, HookCreate, HookFill, FindDelta, FindDport,
        Pick, EndRound, ReadEntry, AddStatusFails, Tasks, CommitFails, RemoveEntry,
        hookvars, trees
  <2> QED
    BY <2>1, OrderUndisturbed
<1> QED
  BY <1>2, <1>3, <1>4

LEMMA OrderPull ==
    ASSUME SyncTypeOK, SyncTypeOK', MergeInv, OrderInv, Pull \/ PullConflicts
    PROVE  OrderInv'
<1>1. UNCHANGED build
  BY DEF Pull, PullConflicts, Quiet, hookvars
<1>2. PICK clash : /\ work' = With(work, Upstream, Merged(clash))
                   /\ index' = With(index, Upstream, Merged(clash))
                   /\ \/ head' = head
                      \/ head' = With(head, Upstream, Merged(clash)) /\ clash = {}
  BY DEF Pull, PullConflicts
<1>3. \A i \in Upstream : \/ Merged(clash)[i] = Theirs
                          \/ Merged(clash)[i] = Marked /\ clash # {}
  BY MergedFacts, UpstreamFacts DEF MergeInv
<1>4. ASSUME NEW i \in Item, i \in Upstream
      PROVE  /\ work'[i] = Merged(clash)[i] /\ index'[i] = Merged(clash)[i]
             /\ head'[i] = head[i] \/ (head'[i] = Merged(clash)[i] /\ clash = {})
  BY <1>2, <1>4, WithFacts
<1>5. ASSUME NEW i \in Item, i \notin Upstream
      PROVE  work'[i] = work[i] /\ index'[i] = index[i] /\ head'[i] = head[i]
  BY <1>2, <1>5, WithFacts
<1> QED
  BY <1>1, <1>3, <1>4, <1>5, SyncOrderStep

LEMMA SyncOrderNext ==
    SyncTypeOK /\ SyncTypeOK' /\ MergeInv /\ OrderInv /\ [SyncNext]_allvars => OrderInv'
<1> SUFFICES ASSUME SyncTypeOK, SyncTypeOK', MergeInv, OrderInv, [SyncNext]_allvars
             PROVE  OrderInv'
  OBVIOUS
<1>1. CASE QueueStep
  BY <1>1, OrderQueueStep
<1>2. CASE SyncAdd
  <2>1. UNCHANGED <<work, head, build>>
    BY <1>2 DEF SyncAdd, AddStatus, AddTree, hookvars
  <2>2. \A i \in Item : index'[i] \in {index[i], work[i]}
    BY <1>2 DEF SyncAdd, AddStatus, AddTree, Stage
  <2> QED
    BY <2>1, <2>2, SyncOrderStep
<1>3. CASE CommitPath
  <2>1. UNCHANGED <<work, build>>
    BY <1>3 DEF CommitPath, hookvars
  <2> QED
    BY <1>3, <2>1, CommitPathFacts, SyncOrderStep
<1>4. CASE CommitIndex
  <2>1. UNCHANGED <<work, index, build>>
    BY <1>4 DEF CommitIndex, hookvars
  <2>2. \A i \in Item : head'[i] \in {index[i], head[i]}
    BY <1>4 DEF CommitIndex
  <2> QED
    BY <2>1, <2>2, SyncOrderStep
<1>5. CASE Pull \/ PullConflicts
  BY <1>5, OrderPull
<1>6. CASE AddUnknown \/ StartSync \/ PullFails \/ Push \/ PushFails \/ SyncRestart
  <2>1. UNCHANGED <<trees, build>>
    BY <1>6
    DEF AddUnknown, StartSync, PullFails, Push, PushFails, SyncRestart, Restart, Quiet,
        hookvars
  <2> QED
    BY <2>1, OrderUndisturbed
<1>7. ASSUME NEW i \in Item, PruneRemove(i) PROVE OrderInv'
  <2>1. UNCHANGED <<head, build>>
    BY <1>7 DEF PruneRemove, hookvars
  <2>2. \A j \in Item : \/ work'[j] = work[j] /\ index'[j] = index[j]
                        \/ work'[j] = Absent /\ index'[j] = Absent
    BY <1>7 DEF PruneRemove, SyncTypeOK
  <2> QED
    BY <2>1, <2>2, SyncOrderStep
<1>8. ASSUME NEW i \in Item, OthersPush(i) PROVE OrderInv'
  BY <1>8, OrderUndisturbed DEF OthersPush, hookvars
<1>9. ASSUME NEW t \in Track, PruneCommit(t) PROVE OrderInv'
  <2>1. UNCHANGED build
    BY <1>9 DEF PruneCommit, hookvars
  <2>2. CASE PruneCommitDports
    <3>1. UNCHANGED <<work, index>>
      BY <2>2 DEF PruneCommitDports
    <3>2. \A i \in Item : head'[i] \in {index[i], head[i]}
      BY <2>2, WithFacts DEF PruneCommitDports
    <3> QED
      BY <2>1, <3>1, <3>2, SyncOrderStep
  <2>3. CASE PruneCommitDelta
    <3>1. UNCHANGED work
      BY <2>3 DEF PruneCommitDelta
    <3>2. \A i \in Item : \/ head'[i] = head[i] /\ index'[i] = index[i]
                          \/ head'[i] = work[i] /\ index'[i] = work[i]
      BY <2>3, PruneDeltaFacts
    <3> QED
      BY <2>1, <3>1, <3>2, SyncOrderStep
  <2> QED
    BY <1>9, <2>2, <2>3 DEF PruneCommit
<1>10. ASSUME NEW t \in Track, Resolve(t) PROVE OrderInv'
  <2>1. UNCHANGED build
    BY <1>10 DEF Resolve, hookvars
  <2> QED
    BY <1>10, <2>1, ResolveFacts, SyncOrderStep
<1>11. ASSUME NEW i \in Item, PruneRefused(i) PROVE OrderInv'
  BY <1>11, OrderUndisturbed DEF PruneRefused, hookvars
<1>12. CASE UNCHANGED allvars
  BY <1>12, OrderUndisturbed DEF allvars, trees
<1> QED
  BY <1>1, <1>2, <1>3, <1>4, <1>5, <1>6, <1>7, <1>8, <1>9, <1>10, <1>11, <1>12, SyncNextParts
  DEF GitStep, SyncCommit

\* No older build ever takes the place of a later one, in the index or in a
\* commit, whoever else merges, prunes, resolves conflicts or commits in the same
\* working trees, whether or not builds overlap and git add fails.
THEOREM SyncInOrder == SyncSpec => []NeverOlder
<1>1. OrderInv => NeverOlder
  BY DEF OrderInv
<1>2. SyncInit => OrderInv
  BY OrderInit DEF SyncInit
<1> QED
  BY <1>1, <1>2, SyncTypeInit, SyncTypeNext, MergeInit, MergeNext, SyncOrderNext, PTL
  DEF SyncSpec

-----------------------------------------------------------------------------
(* No build is lost. *)

KeepInv == QueueKeepsWork /\ InHandInv

LEMMA SyncTarget ==
    ASSUME SyncTypeOK, NEW p \in Port
    PROVE  /\ Target(p) \in Item /\ Target(p)[1] = hooktrack[p] /\ Target(p)[2] = p
           /\ \A i \in Item : i = Target(p) <=> i[2] = p /\ i[1] = hooktrack[p]
  BY ItemFacts DEF Target, SyncTypeOK

\* What no hook but p's does, and what p's does to no item but its own.
LEMMA HookFrame ==
    ASSUME SyncTypeOK, NEW p \in Port, HookTear(p) \/ HookStep(p)
    PROVE  /\ UNCHANGED <<build, index, head, todo, dpc, cur, val>>
           /\ \A q \in Port : q # p => hookpc'[q] = hookpc[q] /\ hooktrack'[q] = hooktrack[q]
           /\ \A i \in Item : i # Target(p) =>
                 /\ work'[i] = work[i] /\ entry'[i] = entry[i]
                 /\ i \in dropped' <=> i \in dropped
           /\ ~HookTear(p) /\ ~HookWrite(p) => UNCHANGED <<work, dropped>>
           /\ stale => stale'
<1>1. UNCHANGED <<build, index, head, todo, dpc, cur, val>>
  BY DEF HookTear, HookStep, HookWrite, HookUnlink, HookCreate, HookFill, trees, hookvars,
         daemonvars
<1>2. \A q \in Port : q # p => hookpc'[q] = hookpc[q] /\ hooktrack'[q] = hooktrack[q]
  BY DEF HookTear, HookStep, HookWrite, HookUnlink, HookCreate, HookFill, hookvars,
         SyncTypeOK
<1>3. PICK c : entry' = entry \/ entry' = [entry EXCEPT ![Target(p)] = c]
  BY DEF HookTear, HookStep, HookWrite, HookUnlink, HookCreate, HookFill
<1>4. PICK d : work' = work \/ work' = [work EXCEPT ![Target(p)] = d]
  BY DEF HookTear, HookStep, HookWrite, HookUnlink, HookCreate, HookFill, trees
<1>5. dropped' = dropped \/ dropped' = dropped \ {Target(p)}
  BY DEF HookTear, HookStep, HookWrite, HookUnlink, HookCreate, HookFill, history
<1>6. ~HookTear(p) /\ ~HookWrite(p) => UNCHANGED <<work, dropped>>
  BY DEF HookTear, HookStep, HookWrite, HookUnlink, HookCreate, HookFill, trees, history
<1>7. stale => stale'
  BY DEF HookTear, HookStep, HookWrite, HookUnlink, HookCreate, HookFill, history
<1> QED
  BY <1>1, <1>2, <1>3, <1>4, <1>5, <1>6, <1>7 DEF SyncTypeOK

LEMMA UnwrittenInit == SyncInit => UnwrittenInv
  BY ItemFacts DEF SyncInit, Init, UnwrittenInv, Unwritten, At, HookBusy

\* A step that writes no build anywhere that is not there already.
LEMMA UnwrittenKept ==
    ASSUME SyncTypeOK, UnwrittenInv, UNCHANGED hookvars,
           \A i \in Item :
              /\ work'[i] \in {work[i], index[i], head[i], Absent, Torn, Theirs, Marked}
              /\ index'[i] \in {work[i], index[i], head[i], Absent, Torn, Theirs, Marked}
              /\ head'[i] \in {work[i], index[i], head[i], Absent, Torn, Theirs, Marked}
    PROVE  UnwrittenInv'
<1>1. UNCHANGED <<build, hookpc, hooktrack>>
  BY DEF hookvars
<1>2. ASSUME NEW i \in Item, Unwritten(i)'
      PROVE  work'[i] < build[i[2]] /\ index'[i] < build[i[2]] /\ head'[i] < build[i[2]]
  <2>1. Unwritten(i) /\ hookpc[i[2]] # "idle" /\ i[2] \in Port
    BY <1>1, <1>2, ItemFacts DEF Unwritten, At, HookBusy
  <2>2. build[i[2]] > 0
    BY <2>1 DEF UnwrittenInv
  <2>3. work[i] < build[i[2]] /\ index[i] < build[i[2]] /\ head[i] < build[i[2]]
    BY <2>1 DEF UnwrittenInv
  <2>4. Absent = 0 /\ Torn = -1 /\ Theirs = -2 /\ Marked = -3
    BY DEF Absent, Torn, Theirs, Marked
  <2> QED
    BY <2>2, <2>3, <2>4, SyncOrderTypes
<1> QED
  BY <1>1, <1>2 DEF UnwrittenInv

LEMMA UnwrittenStart ==
    ASSUME SyncTypeOK, OrderInv, UnwrittenInv,
           NEW p \in Port, NEW success \in BOOLEAN, HookStart(p, success)
    PROVE  UnwrittenInv'
<1>1. /\ UNCHANGED <<work, index, head>>
      /\ \A q \in Port : q # p => /\ hookpc'[q] = hookpc[q] /\ hooktrack'[q] = hooktrack[q]
                                  /\ build'[q] = build[q]
      /\ build'[p] = build[p] + 1
  BY DEF HookStart, trees, SyncTypeOK
<1>2. build[p] \in Int /\ build[p] >= 0
  BY BoundsAssumption DEF SyncTypeOK
<1>3. ASSUME NEW i \in Item, Unwritten(i)'
      PROVE  work[i] < build'[i[2]] /\ index[i] < build'[i[2]] /\ head[i] < build'[i[2]]
  <2>1. CASE i[2] = p
    <3>1. work[i] <= build[p] /\ index[i] <= build[p] /\ head[i] <= build[p]
      BY <2>1 DEF OrderInv
    <3> QED
      BY <1>1, <1>2, <2>1, <3>1, SyncOrderTypes
  <2>2. CASE i[2] # p
    <3>1. i[2] \in Port
      BY ItemFacts
    <3>2. Unwritten(i)
      BY <1>1, <1>3, <2>2, <3>1 DEF Unwritten, At
    <3> QED
      BY <1>1, <2>2, <3>1, <3>2 DEF UnwrittenInv
  <2> QED
    BY <2>1, <2>2
<1>4. \A q \in Port : hookpc'[q] # "idle" => build'[q] > 0
  BY <1>1, <1>2 DEF UnwrittenInv
<1> QED
  BY <1>1, <1>3, <1>4 DEF UnwrittenInv

LEMMA UnwrittenHook ==
    ASSUME SyncTypeOK, UnwrittenInv, NEW p \in Port, HookTear(p) \/ HookStep(p)
    PROVE  UnwrittenInv'
<1>1. CASE HookTear(p)
  <2>1. PICK c \in {Absent, Torn} : work' = [work EXCEPT ![Target(p)] = c]
    BY <1>1 DEF HookTear
  <2>2. UNCHANGED <<index, head, hookvars>>
    BY <1>1 DEF HookTear
  <2>3. \A i \in Item : work'[i] \in {work[i], c}
    BY <2>1 DEF SyncTypeOK
  <2> QED
    BY <2>2, <2>3, UnwrittenKept
<1>2. CASE HookStep(p)
  <2>1. hookpc[p] # "idle"
    BY <1>2 DEF HookStep, HookWrite, HookUnlink, HookCreate, HookFill
  <2>2. ASSUME NEW i \in Item, Unwritten(i)'
        PROVE  Unwritten(i) /\ (HookWrite(p) => i # Target(p))
    <3>1. i[2] \in Port
      BY ItemFacts
    <3>2. CASE i[2] # p
      BY <1>2, <2>2, <3>1, <3>2, HookFrame, SyncTarget DEF Unwritten, At
    <3>3. CASE i[2] = p /\ HookWrite(p)
      <4>1. hookpc'[p] = "unlink" /\ hooktrack'[p] = hooktrack[p] /\ hookpc[p] = "write"
        BY <3>3 DEF HookWrite, SyncTypeOK
      <4>2. i[1] = "delta" /\ hooktrack[p] = "dport"
        BY <2>2, <3>3, <4>1 DEF Unwritten, At
      <4> QED
        BY <3>3, <4>1, <4>2, SyncTarget DEF Unwritten, At, HookBusy
    <3>4. CASE i[2] = p /\ (HookUnlink(p) \/ HookCreate(p))
      <4>1. /\ hookpc'[p] \in {"create", "fill"} /\ hooktrack'[p] = hooktrack[p]
            /\ hookpc[p] \in {"unlink", "create"} /\ ~HookWrite(p)
        BY <3>4 DEF HookWrite, HookUnlink, HookCreate, SyncTypeOK
      <4>2. i[1] = "delta" /\ hooktrack[p] = "dport"
        BY <2>2, <3>4, <4>1 DEF Unwritten, At
      <4> QED
        BY <3>4, <4>1, <4>2 DEF Unwritten, At, HookBusy
    <3>5. CASE i[2] = p /\ HookFill(p)
      <4>1. CASE hooktrack[p] = "dport"
        <5>1. /\ hookpc'[p] = "write" /\ hooktrack'[p] = "delta" /\ hookpc[p] = "fill"
              /\ ~HookWrite(p)
          BY <3>5, <4>1 DEF HookFill, HookWrite, SyncTypeOK
        <5>2. i[1] = "delta"
          BY <2>2, <3>5, <5>1 DEF Unwritten, At
        <5> QED
          BY <3>5, <4>1, <5>1, <5>2 DEF Unwritten, At, HookBusy
      <4>2. CASE hooktrack[p] # "dport"
        <5>1. hookpc'[p] = "idle"
          BY <3>5, <4>2 DEF HookFill, SyncTypeOK
        <5> QED
          BY <2>2, <3>5, <5>1 DEF Unwritten, At, HookBusy
      <4> QED
        BY <4>1, <4>2
    <3> QED
      BY <1>2, <3>2, <3>3, <3>4, <3>5 DEF HookStep
  <2>3. ASSUME NEW i \in Item, Unwritten(i)'
        PROVE  work'[i] < build'[i[2]] /\ index'[i] < build'[i[2]] /\ head'[i] < build'[i[2]]
    <3>1. UNCHANGED <<build, index, head>>
      BY <1>2, HookFrame
    <3>2. work'[i] = work[i]
      <4>1. CASE HookWrite(p)
        BY <1>2, <2>2, <2>3, <4>1, HookFrame
      <4>2. CASE ~HookWrite(p)
        BY <1>2, <4>2 DEF HookStep, HookUnlink, HookCreate, HookFill, trees
      <4> QED
        BY <4>1, <4>2
    <3> QED
      BY <2>2, <2>3, <3>1, <3>2 DEF UnwrittenInv
  <2>4. \A q \in Port : hookpc'[q] # "idle" => build'[q] > 0
    BY <1>2, <2>1, HookFrame DEF UnwrittenInv
  <2> QED
    BY <2>3, <2>4 DEF UnwrittenInv
<1> QED
  BY <1>1, <1>2

LEMMA UnwrittenNext ==
    SyncTypeOK /\ MergeInv /\ OrderInv /\ UnwrittenInv /\ [SyncNext]_allvars => UnwrittenInv'
<1> SUFFICES ASSUME SyncTypeOK, MergeInv, OrderInv, UnwrittenInv, [SyncNext]_allvars
             PROVE  UnwrittenInv'
  OBVIOUS
<1>1. CASE QueueStep
  <2>1. ASSUME NEW p \in Port, NEW success \in BOOLEAN, HookStart(p, success)
        PROVE  UnwrittenInv'
    BY <2>1, UnwrittenStart
  <2>2. ASSUME NEW p \in Port, HookTear(p) \/ HookStep(p) PROVE UnwrittenInv'
    BY <2>2, UnwrittenHook
  <2>3. CASE FindDelta \/ FindDport \/ (\E i \in Item : Pick(i)) \/ EndRound
             \/ ReadEntry \/ AddStatusFails \/ Tasks \/ CommitFails \/ RemoveEntry
    <3>1. UNCHANGED <<work, index, head, hookvars>>
      BY <2>3 DEF FindDelta, FindDport, Pick, EndRound, ReadEntry, AddStatusFails, Tasks,
                  CommitFails, RemoveEntry, trees
    <3> QED
      BY <3>1, UnwrittenKept
  <2> QED
    BY <1>1, <2>1, <2>2, <2>3 DEF QueueStep
<1>2. CASE SyncAdd
  <2>1. UNCHANGED <<work, head, hookvars>>
    BY <1>2 DEF SyncAdd, AddStatus, AddTree
  <2>2. \A i \in Item : index'[i] \in {index[i], work[i]}
    BY <1>2 DEF SyncAdd, AddStatus, AddTree, Stage
  <2> QED
    BY <2>1, <2>2, UnwrittenKept
<1>3. CASE CommitPath
  BY <1>3, CommitPathFacts, UnwrittenKept
<1>4. CASE CommitIndex
  <2>1. UNCHANGED <<work, index, hookvars>>
    BY <1>4 DEF CommitIndex
  <2>2. \A i \in Item : head'[i] \in {index[i], head[i]}
    BY <1>4 DEF CommitIndex
  <2> QED
    BY <2>1, <2>2, UnwrittenKept
<1>5. CASE Pull \/ PullConflicts
  <2>1. UNCHANGED hookvars
    BY <1>5 DEF Pull, PullConflicts, Quiet
  <2>2. PICK clash : /\ work' = With(work, Upstream, Merged(clash))
                     /\ index' = With(index, Upstream, Merged(clash))
                     /\ head' = head \/ head' = With(head, Upstream, Merged(clash))
    BY <1>5 DEF Pull, PullConflicts
  <2>3. \A i \in Upstream : Merged(clash)[i] \in {Theirs, Marked}
    BY MergedFacts, UpstreamFacts DEF MergeInv
  <2>4. \A i \in Item : /\ work'[i] \in {work[i], Theirs, Marked}
                        /\ index'[i] \in {index[i], Theirs, Marked}
                        /\ head'[i] \in {head[i], Theirs, Marked}
    BY <2>2, <2>3, WithFacts
  <2> QED
    BY <2>1, <2>4, UnwrittenKept
<1>6. CASE AddUnknown \/ StartSync \/ PullFails \/ Push \/ PushFails \/ SyncRestart
  <2>1. UNCHANGED <<work, index, head, hookvars>>
    BY <1>6 DEF AddUnknown, StartSync, PullFails, Push, PushFails, SyncRestart, Restart,
                Quiet, trees
  <2> QED
    BY <2>1, UnwrittenKept
<1>7. ASSUME NEW i \in Item, PruneRemove(i) PROVE UnwrittenInv'
  <2>1. UNCHANGED <<head, hookvars>>
    BY <1>7 DEF PruneRemove
  <2>2. \A j \in Item : work'[j] \in {work[j], Absent} /\ index'[j] \in {index[j], Absent}
    BY <1>7 DEF PruneRemove, SyncTypeOK
  <2> QED
    BY <2>1, <2>2, UnwrittenKept
<1>8. ASSUME NEW i \in Item, PruneRefused(i) \/ OthersPush(i) PROVE UnwrittenInv'
  <2>1. UNCHANGED <<work, index, head, hookvars>>
    BY <1>8 DEF PruneRefused, OthersPush, trees
  <2> QED
    BY <2>1, UnwrittenKept
<1>9. ASSUME NEW t \in Track, PruneCommit(t) PROVE UnwrittenInv'
  <2>1. UNCHANGED hookvars
    BY <1>9 DEF PruneCommit
  <2>2. CASE PruneCommitDports
    <3>1. UNCHANGED <<work, index>>
      BY <2>2 DEF PruneCommitDports
    <3>2. \A i \in Item : head'[i] \in {index[i], head[i]}
      BY <2>2, WithFacts DEF PruneCommitDports
    <3> QED
      BY <2>1, <3>1, <3>2, UnwrittenKept
  <2>3. CASE PruneCommitDelta
    <3>1. UNCHANGED work
      BY <2>3 DEF PruneCommitDelta
    <3>2. \A i \in Item : \/ head'[i] = head[i] /\ index'[i] = index[i]
                          \/ head'[i] = work[i] /\ index'[i] = work[i]
      BY <2>3, PruneDeltaFacts
    <3> QED
      BY <2>1, <3>1, <3>2, UnwrittenKept
  <2> QED
    BY <1>9, <2>2, <2>3 DEF PruneCommit
<1>10. ASSUME NEW t \in Track, Resolve(t) PROVE UnwrittenInv'
  BY <1>10, ResolveFacts, UnwrittenKept
<1>11. CASE UNCHANGED allvars
  <2>1. UNCHANGED <<work, index, head, hookvars>>
    BY <1>11 DEF allvars, hookvars
  <2> QED
    BY <2>1, UnwrittenKept
<1> QED
  BY <1>1, <1>2, <1>3, <1>4, <1>5, <1>6, <1>7, <1>8, <1>9, <1>10, <1>11, SyncNextParts
  DEF GitStep, SyncCommit

LEMMA KeepInit == SyncInit => KeepInv
<1> SUFFICES ASSUME SyncInit PROVE KeepInv
  OBVIOUS
<1>1. dpc = "find_delta" /\ \A i \in Item : work[i] = Absent
  BY DEF SyncInit, Init
<1> QED
  BY <1>1 DEF KeepInv, QueueKeepsWork, InHandInv, Absent

\* A step that changes no file, stages nothing and commits nothing.
LEMMA KeepUndisturbed ==
    ASSUME SyncTypeOK, KeepInv, UNCHANGED <<work, index, head>>,
           \A i \in Item : Covered(i) => Covered(i)',
           dpc' \in {"status", "commit", "unlink"} =>
              /\ UNCHANGED <<dpc, cur, val>>
              /\ ~stale' /\ ~BeforeEntry(cur)' => ~stale /\ ~BeforeEntry(cur)
    PROVE  KeepInv'
<1>1. QueueKeepsWork'
  BY DEF KeepInv, QueueKeepsWork
<1>2. InHandInv'
  BY DEF KeepInv, InHandInv
<1> QED
  BY <1>1, <1>2 DEF KeepInv

\* What a hook is about to queue, or has just queued, is covered.
LEMMA HookHolds ==
    ASSUME SyncTypeOK, UnwrittenInv, NEW p \in Port, HookTear(p) \/ HookStep(p)
    PROVE  /\ \A i \in Item : Covered(i) => Covered(i)'
           /\ HookTear(p) \/ HookWrite(p)
                 => \A i \in Item : i = Target(p) => BeforeEntry(i)' /\ Unwritten(i)
           /\ dpc \in {"status", "commit", "unlink"} /\ ~stale' /\ ~BeforeEntry(cur)'
                 => ~stale /\ ~BeforeEntry(cur)
<1>1. UNCHANGED cur /\ (dpc \in {"status", "commit", "unlink"} => cur \in Item)
  BY HookFrame DEF SyncTypeOK
<1>2. Target(p) \in Item
  BY SyncTarget
<1>3. ASSUME NEW i \in Item, i[2] # p
      PROVE  /\ Covered(i) => Covered(i)'
             /\ BeforeEntry(i) => BeforeEntry(i)'
  <2>1. i[2] \in Port /\ i # Target(p)
    BY <1>3, ItemFacts, SyncTarget
  <2>2. BeforeEntry(i) <=> BeforeEntry(i)'
    BY <1>3, <2>1, HookFrame DEF BeforeEntry, At
  <2> QED
    BY <2>1, <2>2, HookFrame DEF Covered
<1>4. CASE HookTear(p) \/ HookWrite(p)
  <2>1. /\ hookpc[p] = "write" /\ hookpc'[p] \in {"write", "unlink"}
        /\ hooktrack'[p] = hooktrack[p] /\ UNCHANGED entry
    BY <1>4 DEF HookTear, HookWrite, hookvars, SyncTypeOK
  <2>2. \A i \in Item : i[2] = p => (BeforeEntry(i)' <=> i = Target(p))
    BY <2>1, SyncTarget DEF BeforeEntry, At
  <2>3. \A i \in Item : i[2] = p => (BeforeEntry(i) <=> i = Target(p))
    BY <2>1, SyncTarget DEF BeforeEntry, At
  <2>4. \A i \in Item : i = Target(p) => BeforeEntry(i)' /\ Unwritten(i)
    BY <2>1, <2>2, SyncTarget DEF Unwritten, At
  <2>5. ASSUME NEW i \in Item, i[2] = p, Covered(i) PROVE Covered(i)'
    <3>1. CASE i = Target(p)
      BY <2>4, <3>1 DEF Covered
    <3>2. CASE i # Target(p)
      <4>1. ~BeforeEntry(i)
        BY <2>3, <2>5, <3>2
      <4>2. entry[i] # NoEntry \/ i \in dropped
        BY <2>5, <4>1 DEF Covered
      <4> QED
        BY <3>2, <4>2, HookFrame DEF Covered
    <3> QED
      BY <3>1, <3>2
  <2>6. ASSUME dpc \in {"status", "commit", "unlink"}, ~stale', ~BeforeEntry(cur)'
        PROVE  ~stale /\ ~BeforeEntry(cur)
    <3>1. cur \in Item /\ ~stale
      BY <1>1, <2>6, HookFrame
    <3>2. CASE cur[2] = p
      BY <2>2, <2>3, <2>6, <3>1, <3>2, <1>1 DEF BeforeEntry, At
    <3>3. CASE cur[2] # p
      BY <1>1, <1>3, <2>6, <3>1, <3>3 DEF BeforeEntry, At
    <3> QED
      BY <3>1, <3>2, <3>3
  <2> QED
    BY <1>3, <2>4, <2>5, <2>6
<1>5. CASE HookUnlink(p)
  <2>1. /\ hookpc[p] = "unlink" /\ hookpc'[p] = "create"
        /\ hooktrack'[p] = hooktrack[p] /\ UNCHANGED <<stale, dropped>>
        /\ ~HookTear(p) /\ ~HookWrite(p)
    BY <1>5 DEF HookUnlink, HookTear, HookWrite, history, SyncTypeOK
  <2>2. \A i \in Item : i[2] = p => (BeforeEntry(i)' <=> i = Target(p))
    BY <2>1, SyncTarget DEF BeforeEntry, At
  <2>3. \A i \in Item : i[2] = p => (BeforeEntry(i) <=> i = Target(p))
    BY <2>1, SyncTarget DEF BeforeEntry, At
  <2>4. \A i \in Item : i[2] = p => (Covered(i) => Covered(i)')
    BY <2>1, <2>2, <2>3, HookFrame DEF Covered
  <2> QED
    BY <1>1, <1>3, <2>1, <2>2, <2>3, <2>4
<1>6. CASE HookCreate(p)
  <2>1. /\ hookpc[p] = "create" /\ hooktrack'[p] = hooktrack[p] /\ UNCHANGED dropped
        /\ entry'[Target(p)] = Blank
        /\ ~HookTear(p) /\ ~HookWrite(p)
        /\ dpc \in {"status", "commit", "unlink"} /\ cur = Target(p) => stale'
    BY <1>6, <1>2 DEF HookCreate, HookTear, HookWrite, SyncTypeOK
  <2>2. \A i \in Item : i[2] = p => (BeforeEntry(i) <=> i = Target(p))
    BY <2>1, SyncTarget DEF BeforeEntry, At
  <2>3. ASSUME NEW i \in Item, i[2] = p, Covered(i) PROVE Covered(i)'
    <3>1. CASE i = Target(p)
      BY <2>1, <3>1 DEF Covered, Blank, NoEntry
    <3>2. CASE i # Target(p)
      BY <2>2, <2>3, <3>2, HookFrame DEF Covered
    <3> QED
      BY <3>1, <3>2
  <2> QED
    BY <1>1, <1>3, <2>1, <2>2, <2>3, HookFrame
<1>7. CASE HookFill(p)
  <2>1. /\ hookpc[p] = "fill" /\ UNCHANGED <<stale, dropped>>
        /\ ~HookTear(p) /\ ~HookWrite(p)
    BY <1>7 DEF HookFill, HookTear, HookWrite, history
  <2>2. \A i \in Item : i[2] = p => ~BeforeEntry(i)
    BY <2>1 DEF BeforeEntry, At
  <2>3. build[p] # NoEntry
    <3>1. build[p] > 0 /\ build[p] \in Int
      BY <2>1, BoundsAssumption DEF UnwrittenInv, SyncTypeOK
    <3> QED
      BY <3>1 DEF NoEntry
  <2>4. \A i \in Item : entry[i] # NoEntry => entry'[i] # NoEntry
    BY <1>7, <2>3 DEF HookFill, SyncTypeOK
  <2>5. \A i \in Item : i[2] = p => (Covered(i) => Covered(i)')
    BY <2>1, <2>2, <2>4 DEF Covered
  <2> QED
    BY <1>1, <1>3, <2>1, <2>2, <2>5
<1> QED
  BY <1>4, <1>5, <1>6, <1>7 DEF HookStep

LEMMA KeepHook ==
    ASSUME SyncTypeOK, UnwrittenInv, KeepInv, NEW p \in Port, HookTear(p) \/ HookStep(p)
    PROVE  KeepInv'
<1>1. CASE ~HookTear(p) /\ ~HookWrite(p)
  BY <1>1, HookFrame, HookHolds, KeepUndisturbed
<1>2. CASE HookTear(p) \/ HookWrite(p)
  <2>1. UNCHANGED <<index, head, dpc, cur, val>> /\ Target(p) \in Item
    BY HookFrame, SyncTarget
  <2>2. \A i \in Item : i # Target(p) => work'[i] = work[i]
    BY HookFrame
  <2>3. work'[Target(p)] > 0 => head[Target(p)] # work'[Target(p)]
    <3>1. CASE HookTear(p)
      BY <2>1, <3>1 DEF HookTear, SyncTypeOK, Absent, Torn
    <3>2. CASE HookWrite(p)
      <4>1. work'[Target(p)] = build[p] /\ Target(p)[2] = p
        BY <2>1, <3>2, SyncTarget DEF HookWrite, SyncTypeOK
      <4>2. head[Target(p)] < build[p]
        BY <1>2, <2>1, <4>1, HookHolds DEF UnwrittenInv
      <4> QED
        BY <2>1, <4>1, <4>2, SyncOrderTypes
    <3> QED
      BY <1>2, <3>1, <3>2
  <2>4. ASSUME NEW i \in Item, work'[i] > 0, work'[i] # head[i] PROVE Covered(i)'
    <3>1. CASE i = Target(p)
      BY <1>2, <3>1, HookHolds DEF Covered
    <3>2. CASE i # Target(p)
      BY <2>2, <2>4, <3>2, HookHolds DEF KeepInv, QueueKeepsWork
    <3> QED
      BY <3>1, <3>2
  <2>5. ASSUME NEW i \in Item, work'[i] > 0, head'[i] = work'[i]
        PROVE  index'[i] = work'[i]
    BY <2>1, <2>2, <2>3, <2>5 DEF KeepInv, InHandInv
  <2>6. ASSUME dpc' \in {"status", "commit", "unlink"}, ~stale', ~BeforeEntry(cur)'
        PROVE  cur \in Item /\ ~stale /\ ~BeforeEntry(cur) /\ work'[cur] = work[cur]
    <3>1. cur \in Item /\ ~stale /\ ~BeforeEntry(cur)
      BY <2>1, <2>6, HookHolds DEF SyncTypeOK
    <3>2. cur # Target(p)
      <4>1. PICK c \in Item : c = cur
        BY <3>1
      <4>2. ~BeforeEntry(c)'
        BY <2>1, <2>6, <4>1 DEF BeforeEntry, At
      <4> QED
        BY <1>2, <4>1, <4>2, HookHolds
    <3> QED
      BY <2>2, <3>1, <3>2
  <2>7. QueueKeepsWork'
    BY <2>1, <2>4 DEF QueueKeepsWork
  <2>8. InHandInv'
    BY <2>1, <2>5, <2>6 DEF KeepInv, InHandInv
  <2> QED
    BY <2>7, <2>8 DEF KeepInv
<1> QED
  BY <1>1, <1>2

LEMMA KeepStart ==
    ASSUME SyncTypeOK, KeepInv,
           NEW p \in Port, NEW success \in BOOLEAN, HookStart(p, success)
    PROVE  KeepInv'
<1>1. /\ hookpc[p] = "idle"
      /\ UNCHANGED <<work, index, head, entry, dpc, cur, val, stale, dropped>>
      /\ \A q \in Port : q # p => hookpc'[q] = hookpc[q] /\ hooktrack'[q] = hooktrack[q]
  BY DEF HookStart, daemonvars, trees, history, SyncTypeOK
<1>2. ASSUME NEW i \in Item, BeforeEntry(i) PROVE BeforeEntry(i)'
  BY <1>1, <1>2, ItemFacts DEF BeforeEntry, At
<1>3. \A i \in Item : Covered(i) => Covered(i)'
  BY <1>1, <1>2 DEF Covered
<1>4. dpc' \in {"status", "commit", "unlink"} /\ BeforeEntry(cur) => BeforeEntry(cur)'
  <2> SUFFICES ASSUME dpc' \in {"status", "commit", "unlink"}, BeforeEntry(cur)
               PROVE  BeforeEntry(cur)'
    OBVIOUS
  <2>1. PICK c \in Item : c = cur
    BY <1>1 DEF SyncTypeOK
  <2>2. BeforeEntry(c)'
    BY <1>2, <2>1
  <2> QED
    BY <1>1, <2>1, <2>2 DEF BeforeEntry, At
<1> QED
  BY <1>1, <1>3, <1>4, KeepUndisturbed

\* A step that takes nothing off the queue leaves every item covered.
LEMMA StillCovered ==
    ASSUME UNCHANGED <<entry, hookvars, dropped>>
    PROVE  \A i : Covered(i)' <=> Covered(i)
  BY DEF Covered, BeforeEntry, At, hookvars

LEMMA KeepAdd ==
    ASSUME SyncTypeOK, KeepInv, SyncAdd
    PROVE  KeepInv'
<1>1. /\ UNCHANGED <<work, head, entry, hookvars, cur, val, dropped>>
      /\ dpc = "add" /\ dpc' = "status" /\ cur \in Item
  BY DEF SyncAdd, AddStatus, AddTree, history, SyncTypeOK
<1>2. index' = Stage \/ (index' = index /\ stale')
  BY DEF SyncAdd, AddStatus, AddTree
<1>3. \A i \in Item : index'[i] \in {work[i], index[i]}
  BY <1>2 DEF Stage
<1>4. cur \in Scope /\ (val # Blank \/ cur \in Trees)
  BY DEF Scope, SyncAdd, AddStatus, AddTree
<1>5. ~stale' => index'[cur] = work[cur]
  BY <1>1, <1>2, <1>4 DEF Stage
<1>6. QueueKeepsWork'
  BY <1>1, StillCovered DEF KeepInv, QueueKeepsWork
<1>7. InHandInv'
  BY <1>1, <1>3, <1>4, <1>5 DEF KeepInv, InHandInv
<1> QED
  BY <1>6, <1>7 DEF KeepInv

LEMMA KeepTasks ==
    ASSUME SyncTypeOK, KeepInv, Tasks
    PROVE  KeepInv'
<1>1. /\ UNCHANGED <<work, index, head, entry, hookvars, cur, val, stale, dropped>>
      /\ dpc = "status" /\ dpc' \in {"commit", "unlink"} /\ cur \in Item
      /\ dpc' = "unlink" => \A i \in Scope : ~Changed(i)
  BY DEF Tasks, trees, history, SyncTypeOK
<1>2. cur \in Scope /\ (val # Blank \/ cur \in Trees)
  BY <1>1 DEF Scope, KeepInv, InHandInv
<1>3. dpc' = "unlink" => head[cur] = index[cur]
  BY <1>1, <1>2 DEF Changed
<1>4. BeforeEntry(cur)' <=> BeforeEntry(cur)
  BY <1>1 DEF BeforeEntry, At, hookvars
<1>5. QueueKeepsWork'
  BY <1>1, StillCovered DEF KeepInv, QueueKeepsWork
<1>6. InHandInv'
  BY <1>1, <1>2, <1>3, <1>4 DEF KeepInv, InHandInv
<1> QED
  BY <1>5, <1>6 DEF KeepInv

LEMMA KeepCommit ==
    ASSUME SyncTypeOK, KeepInv, SyncCommit
    PROVE  KeepInv'
<1>1. /\ UNCHANGED <<work, entry, hookvars, cur, val, stale, dropped>> /\ cur \in Item
      /\ dpc = "commit" /\ dpc' = "unlink"
      /\ val # Blank \/ cur \in Trees
  BY DEF SyncCommit, CommitPath, CommitIndex, history, SyncTypeOK, KeepInv, InHandInv
<1>2. BeforeEntry(cur)' <=> BeforeEntry(cur)
  BY <1>1 DEF BeforeEntry, At, hookvars
<1>3. \A i \in Item : \/ index'[i] = index[i] /\ head'[i] \in {head[i], index[i]}
                      \/ i = cur /\ CommitPath /\ index'[i] = head'[i]
                         /\ head'[i] \in {work[i], Torn}
                         /\ (index[i] = work[i] => head'[i] = work[i])
  <2>1. CASE CommitPath
    BY <2>1, CommitPathFacts
  <2>2. CASE CommitIndex
    BY <2>2 DEF CommitIndex
  <2> QED
    BY <2>1, <2>2 DEF SyncCommit
<1>4. index[cur] = work[cur] => index'[cur] = work[cur] /\ head'[cur] = work[cur]
  <2>1. CASE CommitPath
    BY <2>1, CommitPathFacts
  <2>2. CASE CommitIndex
    BY <1>1, <2>2 DEF CommitIndex
  <2> QED
    BY <2>1, <2>2 DEF SyncCommit
<1>5. ASSUME NEW i \in Item, work[i] > 0, work[i] # head'[i]
      PROVE  Covered(i)
  <2>1. CASE work[i] # head[i]
    BY <1>5, <2>1 DEF KeepInv, QueueKeepsWork
  <2>2. CASE work[i] = head[i]
    <3>1. index[i] = work[i]
      BY <1>5, <2>2 DEF KeepInv, InHandInv
    <3> QED
      BY <1>3, <1>5, <2>2, <3>1
  <2> QED
    BY <2>1, <2>2
<1>6. ASSUME NEW i \in Item, work[i] > 0, work[i] = head'[i]
      PROVE  index'[i] = work[i]
  BY <1>3, <1>6 DEF KeepInv, InHandInv
<1>7. QueueKeepsWork'
  BY <1>1, <1>5, StillCovered DEF QueueKeepsWork
<1>8. InHandInv'
  BY <1>1, <1>2, <1>4, <1>6 DEF KeepInv, InHandInv
<1> QED
  BY <1>7, <1>8 DEF KeepInv

LEMMA KeepRemove ==
    ASSUME SyncTypeOK, KeepInv, RemoveEntry
    PROVE  KeepInv'
<1>1. /\ UNCHANGED <<work, index, head, hookvars>> /\ dpc = "unlink" /\ dpc' = "pick"
      /\ entry' = [entry EXCEPT ![cur] = NoEntry] /\ cur \in Item
      /\ dropped' = IF stale /\ work[cur] # head[cur] /\ ~BeforeEntry(cur)
                      THEN dropped \cup {cur} ELSE dropped
  BY DEF RemoveEntry, NextItem, trees, SyncTypeOK
<1>2. \A i \in Item : BeforeEntry(i)' <=> BeforeEntry(i)
  BY <1>1 DEF BeforeEntry, At, hookvars
<1>3. \A i \in Item : i # cur => (Covered(i) => Covered(i)')
  BY <1>1, <1>2 DEF Covered, SyncTypeOK
<1>4. ASSUME work[cur] > 0, work[cur] # head[cur] PROVE BeforeEntry(cur) \/ cur \in dropped'
  BY <1>1, <1>4 DEF KeepInv, InHandInv
<1>5. ASSUME NEW i \in Item, work[i] > 0, work[i] # head[i] PROVE Covered(i)'
  <2>1. CASE i = cur
    BY <1>2, <1>4, <1>5, <2>1 DEF Covered
  <2>2. CASE i # cur
    BY <1>3, <1>5, <2>2 DEF KeepInv, QueueKeepsWork
  <2> QED
    BY <2>1, <2>2
<1>6. QueueKeepsWork'
  BY <1>1, <1>5 DEF QueueKeepsWork
<1>7. InHandInv'
  BY <1>1 DEF KeepInv, InHandInv
<1> QED
  BY <1>6, <1>7 DEF KeepInv

\* A step of git, after which each item is as it was but for the commit, or is
\* the same in all three places, or is no build.
LEMMA KeepGit ==
    ASSUME SyncTypeOK, KeepInv, UNCHANGED <<entry, hookvars, dropped>>,
           dpc' \in {"status", "commit", "unlink"} => UNCHANGED <<dpc, cur, val, stale>>,
           \A i \in Item :
              \/ /\ work'[i] = work[i] /\ index'[i] = index[i]
                 /\ head'[i] \in {head[i], index[i]}
              \/ index'[i] = work'[i] /\ head'[i] = work'[i]
              \/ index'[i] = work'[i] /\ ~(work'[i] > 0)
    PROVE  KeepInv'
<1>1. ASSUME NEW i \in Item, work'[i] > 0, work'[i] # head'[i] PROVE Covered(i)
  <2>1. work'[i] = work[i] /\ index'[i] = index[i] /\ head'[i] \in {head[i], index[i]}
    BY <1>1
  <2>2. CASE work[i] # head[i]
    BY <1>1, <2>1, <2>2 DEF KeepInv, QueueKeepsWork
  <2>3. CASE work[i] = head[i]
    <3>1. index[i] = work[i]
      BY <1>1, <2>1, <2>3 DEF KeepInv, InHandInv
    <3> QED
      BY <1>1, <2>1, <2>3, <3>1
  <2> QED
    BY <2>2, <2>3
<1>2. ASSUME NEW i \in Item, work'[i] > 0, head'[i] = work'[i] PROVE index'[i] = work'[i]
  BY <1>2 DEF KeepInv, InHandInv
<1>3. ASSUME dpc' \in {"status", "commit", "unlink"}, work'[cur] > 0, ~stale',
             ~BeforeEntry(cur)'
      PROVE  index'[cur] = work'[cur] /\ (dpc = "unlink" => head'[cur] = work'[cur])
  <2>1. UNCHANGED <<dpc, cur, val, stale>> /\ cur \in Item
    BY <1>3 DEF SyncTypeOK
  <2>2. ~BeforeEntry(cur)
    BY <1>3, <2>1 DEF BeforeEntry, At, hookvars
  <2> QED
    BY <1>3, <2>1, <2>2 DEF KeepInv, InHandInv
<1>4. QueueKeepsWork'
  BY <1>1, StillCovered DEF QueueKeepsWork
<1>5. InHandInv'
  BY <1>2, <1>3 DEF KeepInv, InHandInv
<1> QED
  BY <1>4, <1>5 DEF KeepInv

LEMMA KeepGitStep ==
    ASSUME SyncTypeOK, MergeInv, KeepInv, GitStep
    PROVE  KeepInv'
<1>1. /\ UNCHANGED <<entry, hookvars, dropped>>
      /\ dpc' \in {"status", "commit", "unlink"} => UNCHANGED <<dpc, cur, val, stale>>
  BY DEF GitStep, StartSync, Pull, PullConflicts, PullFails, Push, PushFails, PruneRemove,
         PruneRefused, OthersPush, PruneCommit, Resolve, NextRepo, Quiet, daemonvars, history
<1>2. CASE Pull \/ PullConflicts
  <2>1. PICK clash : /\ work' = With(work, Upstream, Merged(clash))
                     /\ index' = With(index, Upstream, Merged(clash))
                     /\ head' = head \/ head' = With(head, Upstream, Merged(clash))
    BY <1>2 DEF Pull, PullConflicts
  <2>2. \A i \in Upstream : Merged(clash)[i] \in {Theirs, Marked}
    BY MergedFacts, UpstreamFacts DEF MergeInv
  <2>3. ~(Theirs > 0) /\ ~(Marked > 0)
    BY DEF Theirs, Marked
  <2>4. \A i \in Item : \/ i \in Upstream /\ work'[i] \in {Theirs, Marked} /\ index'[i] = work'[i]
                        \/ work'[i] = work[i] /\ index'[i] = index[i] /\ head'[i] = head[i]
    BY <2>1, <2>2, WithFacts
  <2> QED
    BY <1>1, <2>3, <2>4, KeepGit
<1>3. CASE StartSync \/ PullFails \/ Push \/ PushFails
           \/ \E i \in Item : PruneRefused(i) \/ OthersPush(i)
  <2>1. UNCHANGED trees
    BY <1>3 DEF StartSync, PullFails, Push, PushFails, PruneRefused, OthersPush
  <2> QED
    BY <1>1, <2>1, KeepGit DEF trees
<1>4. ASSUME NEW i \in Item, PruneRemove(i) PROVE KeepInv'
  <2>1. \A j \in Item : \/ work'[j] = work[j] /\ index'[j] = index[j]
                        \/ work'[j] = Absent /\ index'[j] = Absent
    BY <1>4 DEF PruneRemove, SyncTypeOK
  <2>2. UNCHANGED head /\ ~(Absent > 0)
    BY <1>4 DEF PruneRemove, Absent
  <2> QED
    BY <1>1, <2>1, <2>2, KeepGit
<1>5. ASSUME NEW t \in Track, PruneCommit(t) PROVE KeepInv'
  <2>1. CASE PruneCommitDports
    <3>1. UNCHANGED <<work, index>>
      BY <2>1 DEF PruneCommitDports
    <3>2. \A i \in Item : head'[i] \in {index[i], head[i]}
      BY <2>1, WithFacts DEF PruneCommitDports
    <3> QED
      BY <1>1, <3>1, <3>2, KeepGit
  <2>2. CASE PruneCommitDelta
    <3>1. UNCHANGED work
      BY <2>2 DEF PruneCommitDelta
    <3>2. \A i \in Item : \/ head'[i] = head[i] /\ index'[i] = index[i]
                          \/ head'[i] = work[i] /\ index'[i] = work[i]
      BY <2>2, PruneDeltaFacts
    <3> QED
      BY <1>1, <3>1, <3>2, KeepGit
  <2> QED
    BY <1>5, <2>1, <2>2 DEF PruneCommit
<1>6. ASSUME NEW t \in Track, Resolve(t) PROVE KeepInv'
  <2>1. \A i \in Item :
          \/ work'[i] = work[i] /\ index'[i] = index[i] /\ head'[i] \in {head[i], index[i]}
          \/ index'[i] = work'[i] /\ head'[i] = work'[i]
    BY <1>6, ResolveFacts
  <2> QED
    BY <1>1, <2>1, KeepGit
<1> QED
  BY <1>2, <1>3, <1>4, <1>5, <1>6 DEF GitStep

LEMMA KeepNext ==
    SyncTypeOK /\ MergeInv /\ UnwrittenInv /\ KeepInv /\ [SyncNext]_allvars => KeepInv'
<1> SUFFICES ASSUME SyncTypeOK, MergeInv, UnwrittenInv, KeepInv, [SyncNext]_allvars
             PROVE  KeepInv'
  OBVIOUS
<1>1. ASSUME NEW p \in Port, NEW success \in BOOLEAN, HookStart(p, success)
      PROVE  KeepInv'
  BY <1>1, KeepStart
<1>2. ASSUME NEW p \in Port, HookTear(p) \/ HookStep(p) PROVE KeepInv'
  BY <1>2, KeepHook
<1>3. CASE FindDelta \/ FindDport \/ (\E i \in Item : Pick(i)) \/ EndRound \/ ReadEntry
           \/ AddStatusFails \/ CommitFails \/ AddUnknown \/ SyncRestart
  <2>1. /\ UNCHANGED <<work, index, head, entry, hookvars, dropped>>
        /\ dpc' \notin {"status", "commit", "unlink"}
    BY <1>3
    DEF FindDelta, FindDport, Pick, EndRound, ReadEntry, AddStatusFails, CommitFails,
        AddUnknown, SyncRestart, Restart, NextItem, trees, history
  <2> QED
    BY <2>1, StillCovered, KeepUndisturbed
<1>4. CASE Tasks
  BY <1>4, KeepTasks
<1>5. CASE RemoveEntry
  BY <1>5, KeepRemove
<1>6. CASE SyncAdd
  BY <1>6, KeepAdd
<1>7. CASE SyncCommit
  BY <1>7, KeepCommit
<1>8. CASE GitStep
  BY <1>8, KeepGitStep
<1>9. CASE UNCHANGED allvars
  <2>1. UNCHANGED <<work, index, head, entry, hookvars, dropped, dpc, cur, val, stale>>
    BY <1>9 DEF allvars, hookvars
  <2>2. BeforeEntry(cur)' <=> BeforeEntry(cur)
    BY <2>1 DEF BeforeEntry, At, hookvars
  <2> QED
    BY <2>1, <2>2, StillCovered, KeepUndisturbed
<1> QED
  BY <1>1, <1>2, <1>3, <1>4, <1>5, <1>6, <1>7, <1>8, <1>9, SyncNextParts DEF QueueStep

\* Whatever overlaps, fails, is merged, pruned or restarted, what is committed is
\* staged, and the item the daemon has in hand is staged and committed as it is
\* unless its entry is another build's or git add failed for it.
THEOREM SyncInvariant == SyncSpec => []SyncInv
<1>1. SyncInit => OrderInv
  BY OrderInit DEF SyncInit
<1>2. SyncTypeOK /\ UnwrittenInv /\ KeepInv => SyncInv
  BY DEF KeepInv, SyncInv
<1> QED
  BY <1>1, <1>2, SyncTypeInit, SyncTypeNext, MergeInit, MergeNext, SyncOrderNext,
     UnwrittenInit, UnwrittenNext, KeepInit, KeepNext, PTL
  DEF SyncSpec

\* A build that is not committed keeps its entry, or its hook is on the way to it,
\* through pulls, conflicts, unfinished merges, prune.sh and restarts, but for the
\* two cases of NoLostWork (dports-daemon.sh:59, 65, 82 and 88).
THEOREM WorkIsKept == SyncSpec => []QueueKeepsWork
<1>1. SyncInv => QueueKeepsWork
  BY DEF SyncInv
<1> QED
  BY <1>1, SyncInvariant, PTL

=============================================================================
