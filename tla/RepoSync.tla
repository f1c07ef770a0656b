------------------------------- MODULE RepoSync -------------------------------
(***************************************************************************)
(* The commit queue with the rest of git: the pull and push that           *)
(* dports-daemon.sh does of DELTA and of DPORTS now and then, the other    *)
(* people who push to the same repositories, and prune.sh, which removes   *)
(* and commits in the daemon's own working trees.                          *)
(*                                                                         *)
(* A pull merges what others changed.  git refuses it when a file it would *)
(* change is not committed; when both sides changed an item it may leave   *)
(* the merge unfinished, with marked files, for a person to finish.  Until *)
(* then git refuses every commit of a path and every pull, and the daemon, *)
(* which looks only at exit statuses, goes on.                             *)
(***************************************************************************)
EXTENDS CommitQueue

CONSTANTS
    MaxOther,   \* bound: how many times others push
    Obsolete    \* the items prune.sh may remove

ASSUME SyncAssumption == MaxOther \in Nat /\ Obsolete \subseteq Item

Theirs == -2    \* contents that others wrote, or had a part in
Marked == -3    \* contents with conflict markers, or one side of a deletion

VARIABLES
    origin,     \* origin[i]: what the shared repository holds for i
    base,       \* base[i]: the same when it was last pulled or pushed
    mergehead,  \* MERGE_HEAD: what an unfinished merge takes in
    merging,    \* merging[t]: is there an unfinished merge?
    unmerged,   \* the items git knows to be in conflict
    repo,       \* the repository being pulled or pushed
    pruning,    \* pruning[t]: has prune.sh removals to commit?
    others      \* how many times others pushed

shared == <<origin, base, mergehead, merging, unmerged>>
syncvars == <<origin, base, mergehead, merging, unmerged, repo, pruning, others>>
allvars == <<work, index, head, entry, build, hookpc, hooktrack, dpc, todo, cur,
             val, crashes, stale, dropped, origin, base, mergehead, merging,
             unmerged, repo, pruning, others>>

Any == Content \cup {Theirs, Marked}

SyncTypeOK ==
    /\ work \in [Item -> Any] /\ index \in [Item -> Any] /\ head \in [Item -> Any]
    /\ origin \in [Item -> Any] /\ base \in [Item -> Any]
    /\ mergehead \in [Item -> Any]
    /\ entry \in [Item -> Content] /\ val \in Content
    /\ build \in [Port -> 0..MaxBuild]
    /\ hookpc \in [Port -> {"idle", "write", "unlink", "create", "fill"}]
    /\ hooktrack \in [Port -> Track]
    /\ todo \subseteq Item /\ cur \in Item \cup {NoItem}
    /\ (dpc \in {"read", "add", "status", "commit", "unlink"} => cur \in Item)
    /\ dpc \in {"find_delta", "find_dport", "pick", "read", "add", "status",
                "commit", "unlink", "pull", "push"}
    /\ merging \in [Track -> BOOLEAN] /\ pruning \in [Track -> BOOLEAN]
    /\ unmerged \subseteq {i \in Item : merging[i[1]]}
    /\ repo \in Track
    /\ others \in 0..MaxOther
    /\ stale \in BOOLEAN /\ dropped \subseteq Item

SyncInit ==
    /\ Init
    /\ origin = head /\ base = head /\ mergehead = head
    /\ merging = [t \in Track |-> FALSE]
    /\ unmerged = {}
    /\ repo = "delta"
    /\ pruning = [t \in Track |-> FALSE]
    /\ others = 0

Of(t) == {i \in Item : i[1] = t}

\* f with the values of g at the items of S.
With(f, S, g) == [i \in Item |-> IF i \in S THEN g[i] ELSE f[i]]

-----------------------------------------------------------------------------
(* git in an unfinished merge, as the daemon's other commands meet it. *)

\* A pathspec that neither the index nor the tree knows is an error.
Known == work[cur] # Absent \/ index[cur] # Absent

\* Adding a file tells git that its conflict is settled, an add that fails does
\* not.
SyncAdd ==
    /\ (AddStatus /\ Known) \/ AddTree
    /\ unmerged' \in IF AddFails /\ cur \in Trees /\ index' = index
                       THEN {unmerged, unmerged \ Scope} ELSE {unmerged \ Scope}
    /\ UNCHANGED <<origin, base, mergehead, merging, repo, pruning, others>>

AddUnknown ==
    /\ dpc = "add"
    /\ cur \notin Trees
    /\ ~Known
    /\ NextItem
    /\ UNCHANGED <<trees, entry, hookvars, todo, crashes, dropped, syncvars>>

\* A commit of everything ends the merge, if no conflict is left.
Conclude(t) ==
    /\ unmerged \cap Of(t) = {}
    /\ merging' = [merging EXCEPT ![t] = FALSE]
    /\ base' = IF merging[t] THEN With(base, Of(t), mergehead) ELSE base

\* Mutant: git commits a path in the middle of a merge.
SyncCommit_Partial ==
    \/ CommitPath /\ UNCHANGED syncvars
    \/ /\ CommitIndex
       /\ Conclude("dport")
       /\ UNCHANGED <<origin, mergehead, unmerged, repo, pruning, others>>

\* "cannot do a partial commit during a merge"
SyncCommit ==
    \/ CommitPath /\ ~merging[cur[1]] /\ UNCHANGED syncvars
    \/ /\ CommitIndex
       /\ Conclude("dport")
       /\ UNCHANGED <<origin, mergehead, unmerged, repo, pruning, others>>

-----------------------------------------------------------------------------
(* git pull and git push, every 30 rounds or 15 minutes. *)

StartSync ==
    /\ dpc = "pick"
    /\ todo = {}
    /\ dpc' = "pull"
    /\ UNCHANGED <<trees, entry, hookvars, todo, cur, val, crashes, history, syncvars>>

\* DELTA is done with, and DPORTS is next; or the next round.
NextRepo ==
    /\ repo' = IF repo = "delta" THEN "dport" ELSE "delta"
    /\ dpc' = IF repo = "delta" THEN "pull" ELSE "find_delta"

Quiet == UNCHANGED <<entry, hookvars, todo, cur, val, crashes, history, pruning, others>>

Upstream == {i \in Of(repo) : origin[i] # base[i]}
Local == {i \in Of(repo) : head[i] # base[i]}

Refused ==
    \/ merging[repo]
    \/ \E i \in Upstream : work[i] # index[i] \/ index[i] # head[i]
    \/ /\ Upstream # {} /\ Local # {}
       /\ \E i \in Of(repo) : index[i] # head[i]

\* Refused, or no network: there is no push either.
PullFails ==
    /\ dpc = "pull"
    /\ NextRepo
    /\ UNCHANGED <<trees, shared>> /\ Quiet

\* What the merge makes of the items others changed, those in clash marked.
Merged(clash) ==
    [i \in Upstream |-> IF i \in clash THEN Marked
                        ELSE IF i \in Local THEN Theirs ELSE origin[i]]

Pull ==
    /\ dpc = "pull"
    /\ ~Refused
    /\ work' = With(work, Upstream, Merged({}))
    /\ index' = With(index, Upstream, Merged({}))
    /\ head' = With(head, Upstream, Merged({}))
    /\ base' = With(base, Of(repo), origin)
    /\ dpc' = "push"
    /\ UNCHANGED <<origin, mergehead, merging, unmerged, repo>> /\ Quiet

PullConflicts ==
    /\ dpc = "pull"
    /\ ~Refused
    /\ \E clash \in SUBSET (Upstream \cap Local) \ {{}} :
          /\ work' = With(work, Upstream, Merged(clash))
          /\ index' = With(index, Upstream, Merged(clash))
          /\ unmerged' = unmerged \cup clash
    /\ merging' = [merging EXCEPT ![repo] = TRUE]
    /\ mergehead' = With(mergehead, Of(repo), origin)
    /\ NextRepo
    /\ UNCHANGED <<head, origin, base>> /\ Quiet

\* The shared repository takes only what contains all it has.
Push ==
    /\ dpc = "push"
    /\ \A i \in Of(repo) : origin[i] = base[i]
    /\ origin' = With(origin, Of(repo), head)
    /\ base' = With(base, Of(repo), head)
    /\ NextRepo
    /\ UNCHANGED <<trees, mergehead, merging, unmerged>> /\ Quiet

PushFails ==
    /\ dpc = "push"
    /\ NextRepo
    /\ UNCHANGED <<trees, shared>> /\ Quiet

-----------------------------------------------------------------------------
(* prune.sh, and people. *)

\* git rm -r, which refuses what is not committed.
PruneRemove(i) ==
    /\ i \in Obsolete
    /\ head[i] # Absent /\ work[i] \in {head[i], Absent} /\ index[i] = head[i]
    /\ work' = [work EXCEPT ![i] = Absent]
    /\ index' = [index EXCEPT ![i] = Absent]
    /\ pruning' = [pruning EXCEPT ![i[1]] = TRUE]
    /\ UNCHANGED <<head, entry, hookvars, daemonvars, crashes, history, shared, repo, others>>

\* Refused, for that or for the lock of another git, the directory is named in the
\* message all the same, and there is a commit.
PruneRefused(i) ==
    /\ i \in Obsolete
    /\ work[i] # Absent
    /\ pruning' = [pruning EXCEPT ![i[1]] = TRUE]
    /\ UNCHANGED <<trees, entry, hookvars, daemonvars, crashes, history, shared, repo, others>>

\* In DPORTS the commit takes the whole index.
PruneCommitDports ==
    /\ IF unmerged \cap Trees = {}
         THEN Conclude("dport") /\ head' = With(head, Trees, index)
         ELSE UNCHANGED <<head, merging, base>>
    /\ UNCHANGED <<work, index>>

\* In DELTA it is given ".", and takes every file git knows as it is.
PruneCommitDelta ==
    LET known == {i \in Of("delta") : index[i] # Absent \/ head[i] # Absent}
    IN  /\ IF merging["delta"]
             THEN UNCHANGED <<head, index>>
             ELSE head' = With(head, known, work) /\ index' = With(index, known, work)
        /\ UNCHANGED <<work, merging, base>>

PruneCommit(t) ==
    /\ pruning[t]
    /\ pruning' = [pruning EXCEPT ![t] = FALSE]
    /\ IF t = "dport" THEN PruneCommitDports ELSE PruneCommitDelta
    /\ UNCHANGED <<entry, hookvars, daemonvars, crashes, history, origin, mergehead,
                   unmerged, repo, others>>

OthersPush(i) ==
    /\ others < MaxOther
    /\ origin[i] # Theirs
    /\ origin' = [origin EXCEPT ![i] = Theirs]
    /\ others' = others + 1
    /\ UNCHANGED <<trees, entry, hookvars, daemonvars, crashes, history, base, mergehead,
                   merging, unmerged, repo, pruning>>

\* A person settles what git says is in conflict, marked files one way or the
\* other, and commits the index.
Resolve(t) ==
    LET left == unmerged \cap Of(t)
    IN  /\ merging[t]
        /\ \A i \in left : work[i] # Torn
        /\ \E pick \in [left -> Any] :
              /\ \A i \in left : IF work[i] = Marked
                                   THEN pick[i] \in {head[i], Theirs}
                                   ELSE pick[i] = work[i]
              /\ work' = With(work, left, pick)
              /\ index' = With(index, left, pick)
              /\ head' = With(With(head, Of(t), index), left, pick)
        /\ merging' = [merging EXCEPT ![t] = FALSE]
        /\ base' = With(base, Of(t), mergehead)
        /\ unmerged' = unmerged \ left
        /\ UNCHANGED <<entry, hookvars, daemonvars, crashes, history, origin,
                       mergehead, repo, pruning, others>>

-----------------------------------------------------------------------------

SyncDaemonStep ==
    \/ /\ \/ FindDelta \/ FindDport \/ (\E i \in Item : Pick(i)) \/ EndRound
          \/ ReadEntry \/ AddStatusFails \/ Tasks
          \/ CommitFails \/ RemoveEntry
       /\ UNCHANGED syncvars
    \/ SyncAdd \/ AddUnknown \/ SyncCommit
    \/ StartSync \/ Pull \/ PullConflicts \/ PullFails \/ Push \/ PushFails

SyncRestart == Restart /\ repo' = "delta"
                 /\ UNCHANGED <<shared, pruning, others>>

SyncNext ==
    \/ /\ \/ \E p \in Port, success \in BOOLEAN : HookStart(p, success)
          \/ \E p \in Port : HookTear(p) \/ HookStep(p)
       /\ UNCHANGED syncvars
    \/ SyncDaemonStep \/ SyncRestart
    \/ \E i \in Item : PruneRemove(i) \/ PruneRefused(i) \/ OthersPush(i)
    \/ \E t \in Track : PruneCommit(t) \/ Resolve(t)

SyncSpec == SyncInit /\ [][SyncNext]_allvars

\* As in CommitQueue; and every so many rounds there is a sync, the network is
\* there now and then, and prune.sh goes on to its commit.  Nobody has to
\* finish a merge.
SyncFairness ==
    /\ \A p \in Port : WF_allvars(HookStep(p) /\ UNCHANGED syncvars)
    /\ WF_allvars(SyncDaemonStep)
    /\ \A t \in Track : WF_allvars(PruneCommit(t))
    /\ \A i \in Item : SF_allvars(cur = i /\ AddStatus /\ SyncAdd)
    /\ \A i \in Item : SF_allvars(cur = i /\ CommitPath /\ SyncCommit)
    /\ SF_allvars(StartSync)
    /\ \A t \in Track : /\ SF_allvars(repo = t /\ (Pull \/ PullConflicts))
                        /\ SF_allvars(repo = t /\ Push)

FairSyncSpec == SyncSpec /\ SyncFairness

-----------------------------------------------------------------------------
(* Properties. *)

\* A build that is not committed keeps its entry, or its hook is on the way to
\* it, whatever merges are unfinished and whoever else commits in the same tree,
\* but for the two cases of NoLostWork (every other rm ${item} comes after a git
\* commit or an empty git status).
QueueKeepsWork ==
    \A i \in Item : work[i] > 0 /\ work[i] # head[i] => Covered(i)

\* What is committed is staged, so that a commit of the whole index does not
\* take it back; the item in hand is staged, and then committed, as it is unless
\* its hook is at work again or its entry is stale.
InHandInv ==
    /\ \A i \in Item : work[i] > 0 /\ head[i] = work[i] => index[i] = work[i]
    /\ dpc \in {"status", "commit"} => val # Blank \/ cur \in Trees
    /\ dpc \in {"status", "commit", "unlink"} /\ work[cur] > 0 /\ ~stale /\ ~BeforeEntry(cur)
          => index[cur] = work[cur] /\ (dpc = "unlink" => head[cur] = work[cur])

\* The hook of i's port is yet to write i for its last build.
Unwritten(i) == At(i, {"write"}) \/ (i[1] = "delta" /\ At(<<"dport", i[2]>>, HookBusy))

UnwrittenInv ==
    /\ \A i \in Item : Unwritten(i) =>
          work[i] < build[i[2]] /\ index[i] < build[i[2]] /\ head[i] < build[i[2]]
    /\ \A p \in Port : hookpc[p] # "idle" => build[p] > 0

\* The inductive invariant of QueueKeepsWork, with the types of the variables.
SyncInv == SyncTypeOK /\ QueueKeepsWork /\ InHandInv /\ UnwrittenInv

\* A file that has the marks of a conflict in it gets into a commit only when the
\* commit ends the merge, which in DELTA the daemon never does, although its git
\* add of a marked file tells git that the conflict is settled.
MarksEndMerges ==
    [][\A i \in Item : head'[i] = Marked /\ head[i] # Marked
          => /\ merging[i[1]] /\ ~merging'[i[1]]
             /\ (i \in Trees \/ UNCHANGED daemonvars)]_allvars

\* Everything that is built and was not dropped gets to the shared repository, and
\* everything that others publish into the working tree, of both repositories
\* alike, or a merge is never finished by anybody.
PublishedOrStuck ==
    \A t \in Track :
      <>[](\A i \in Of(t) : work[i] = origin[i] \/ i \in dropped) \/ <>[]merging[t]
=============================================================================
