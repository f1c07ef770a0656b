------------------------------ MODULE CommitQueue ------------------------------
(***************************************************************************)
(* The commit queue between the package builder and the commit daemon.     *)
(*                                                                         *)
(* Poudriere calls scripts/builderhooks/pkgbuild.sh when a port succeeds   *)
(* or fails.  The hook rewrites the port's directory in DPORTS (only on    *)
(* success) and its STATUS file in DELTA, and leaves one entry per changed *)
(* repository in the directory COMQUEUE: dport.<name>, then delta.<name>.  *)
(* scripts/generator/dports-daemon.sh polls COMQUEUE, and for each entry   *)
(* runs git add, git status, git commit and rm.  Nothing locks anything:   *)
(* the file operations of the hooks (poudriere runs several builders) and  *)
(* of the daemon interleave freely, one action per file or git operation.  *)
(*                                                                         *)
(* A thing that can be committed is an item: the STATUS file or the DPORTS *)
(* directory of one port.  Its contents are the number of the build that   *)
(* wrote it, Absent, or Torn when a writer is half way through.            *)
(***************************************************************************)
EXTENDS Integers

CONSTANTS
    Port,       \* the origins being built
    MaxBuild,   \* bound: how many times each port is built
    MaxCrash,   \* bound: how many times the daemon is killed and restarted
    AddFails    \* may git add fail (lock held, unreadable file)?

ASSUME BoundsAssumption == MaxBuild \in Nat /\ MaxCrash \in Nat
ASSUME SwitchAssumption == AddFails \in BOOLEAN

Track == {"delta", "dport"}
Item == Track \X Port
NoItem == <<>>
Trees == {i \in Item : i[1] = "dport"}

Absent == 0
Torn == -1
Content == -1..MaxBuild

NoEntry == 0
Blank == -1     \* created, nothing in it yet

VARIABLES
    work,       \* work[i]: the item's files in the working tree
    index,      \* index[i]: what git has staged for it
    head,       \* head[i]: what the last commit holds for it
    entry,      \* entry[i]: its file in COMQUEUE (the build it names)
    build,      \* build[p]: how many builds of p have ended
    hookpc,     \* hookpc[p]: the file operation p's hook does next
    hooktrack,  \* hooktrack[p]: the item that hook is working on
    dpc,        \* what the daemon does next
    todo,       \* CANDIDATES1 and CANDIDATES2: items left in this round
    cur,        \* item: the entry in hand
    val,        \* VAL3 as read from it; Blank when VAL1 came out empty
    crashes,    \* how many times the daemon has been killed
    stale,      \* history: git add failed for the item in hand, or its entry was
                \* created after it
    dropped     \* history: items that were not committed when a stale entry of
                \* theirs was removed, until their port is built again

trees == <<work, index, head>>
hookvars == <<build, hookpc, hooktrack>>
daemonvars == <<dpc, todo, cur, val>>
history == <<stale, dropped>>
vars == <<work, index, head, entry, build, hookpc, hooktrack, dpc, todo, cur,
          val, crashes, stale, dropped>>

TypeOK ==
    /\ work \in [Item -> Content]
    /\ index \in [Item -> Content]
    /\ head \in [Item -> Content]
    /\ entry \in [Item -> Content]
    /\ build \in [Port -> 0..MaxBuild]
    /\ hookpc \in [Port -> {"idle", "write", "unlink", "create", "fill"}]
    /\ hooktrack \in [Port -> Track]
    /\ dpc \in {"find_delta", "find_dport", "pick", "read", "add", "status",
                "commit", "unlink"}
    /\ todo \subseteq Item
    /\ cur \in Item \cup {NoItem}
    /\ (dpc \in {"read", "add", "status", "commit", "unlink"} => cur \in Item)
    /\ val \in Content
    /\ crashes \in 0..MaxCrash
    /\ stale \in BOOLEAN
    /\ dropped \subseteq Item

Init ==
    /\ work = [i \in Item |-> Absent]
    /\ index = [i \in Item |-> Absent]
    /\ head = [i \in Item |-> Absent]
    /\ entry = [i \in Item |-> NoEntry]
    /\ build = [p \in Port |-> 0]
    /\ hookpc = [p \in Port |-> "idle"]
    /\ hooktrack = [p \in Port |-> "delta"]
    /\ dpc = "find_delta"
    /\ todo = {}
    /\ cur = NoItem
    /\ val = NoEntry
    /\ crashes = 0
    /\ stale = FALSE
    /\ dropped = {}

-----------------------------------------------------------------------------
(* The hook of one port. *)

Target(p) == <<hooktrack[p], p>>
HookBusy == {"write", "unlink", "create", "fill"}
At(i, pcs) == hooktrack[i[2]] = i[1] /\ hookpc[i[2]] \in pcs

\* The hook that is changing item i has not queued it yet.
BeforeEntry(i) == At(i, {"write", "unlink", "create"})

\* A build of p ends: a success has the DPORTS directory and then the STATUS
\* file to rewrite, a failure only the STATUS file.  Nothing waits for the
\* entries of the build before to be committed.
HookStart(p, success) ==
    /\ hookpc[p] = "idle"
    /\ build[p] < MaxBuild
    /\ build' = [build EXCEPT ![p] = @ + 1]
    /\ hookpc' = [hookpc EXCEPT ![p] = "write"]
    /\ hooktrack' = [hooktrack EXCEPT ![p] = IF success THEN "dport" ELSE "delta"]
    /\ UNCHANGED <<trees, entry, daemonvars, crashes, history>>

\* What others can see half way: the three separate writes of write_status,
\* the rm -rf and cp -r of a directory.
HookTear(p) ==
    /\ hookpc[p] = "write"
    /\ \E partial \in IF hooktrack[p] = "dport" THEN {Absent, Torn} ELSE {Torn} :
          work' = [work EXCEPT ![Target(p)] = partial]
    /\ UNCHANGED <<index, head, entry, hookvars, daemonvars, crashes, history>>

HookWrite(p) ==
    /\ hookpc[p] = "write"
    /\ work' = [work EXCEPT ![Target(p)] = build[p]]
    /\ hookpc' = [hookpc EXCEPT ![p] = "unlink"]
    /\ dropped' = dropped \ {Target(p)}
    /\ UNCHANGED <<index, head, entry, build, hooktrack, daemonvars, crashes, stale>>

\* rm -f of the port's old entry, if it has one.
HookUnlink(p) ==
    /\ hookpc[p] = "unlink"
    /\ entry' = [entry EXCEPT ![Target(p)] = NoEntry]
    /\ hookpc' = [hookpc EXCEPT ![p] = "create"]
    /\ UNCHANGED <<trees, build, hooktrack, daemonvars, crashes, history>>

\* The shell opens the redirection of cat: the entry exists and is empty.
HookCreate(p) ==
    /\ hookpc[p] = "create"
    /\ entry' = [entry EXCEPT ![Target(p)] = Blank]
    /\ hookpc' = [hookpc EXCEPT ![p] = "fill"]
    /\ stale' = (stale \/ (Target(p) = cur /\ dpc \in {"status", "commit", "unlink"}))
    /\ UNCHANGED <<trees, build, hooktrack, daemonvars, crashes, dropped>>

\* cat writes the three lines into the file it has open: into no directory
\* entry at all, if the daemon has removed it in the meantime.
HookFill(p) ==
    /\ hookpc[p] = "fill"
    /\ entry' = [entry EXCEPT ![Target(p)] = IF @ = Blank THEN build[p] ELSE @]
    /\ IF hooktrack[p] = "dport"
         THEN /\ hooktrack' = [hooktrack EXCEPT ![p] = "delta"]
              /\ hookpc' = [hookpc EXCEPT ![p] = "write"]
         ELSE /\ hookpc' = [hookpc EXCEPT ![p] = "idle"]
              /\ UNCHANGED hooktrack
    /\ UNCHANGED <<trees, build, daemonvars, crashes, history>>

HookStep(p) ==
    HookWrite(p) \/ HookUnlink(p) \/ HookCreate(p) \/ HookFill(p)

-----------------------------------------------------------------------------
(* The daemon. *)

Queued(t) == {i \in Item : i[1] = t /\ entry[i] # NoEntry}

FindDelta ==
    /\ dpc = "find_delta"
    /\ todo' = Queued("delta")
    /\ dpc' = "find_dport"
    /\ UNCHANGED <<trees, entry, hookvars, cur, val, crashes, history>>

FindDport ==
    /\ dpc = "find_dport"
    /\ todo' = todo \cup Queued("dport")
    /\ dpc' = "pick"
    /\ UNCHANGED <<trees, entry, hookvars, cur, val, crashes, history>>

\* Mutant: an item in hand stays on the list.
Pick_Keeps(i) ==
    /\ dpc = "pick"
    /\ i \in todo
    /\ i \in Trees => todo \subseteq Trees
    /\ cur' = i
    /\ dpc' = "read"
    /\ UNCHANGED <<trees, entry, hookvars, todo, val, crashes, history>>

\* The loop over CANDIDATES1 comes before the one over CANDIDATES2.
Pick(i) ==
    /\ dpc = "pick"
    /\ i \in todo
    /\ i \in Trees => todo \subseteq Trees
    /\ cur' = i
    /\ todo' = todo \ {i}
    /\ dpc' = "read"
    /\ UNCHANGED <<trees, entry, hookvars, val, crashes, history>>

EndRound ==
    /\ dpc = "pick"
    /\ todo = {}
    /\ dpc' = "find_delta"
    /\ UNCHANGED <<trees, entry, hookvars, todo, cur, val, crashes, history>>

\* awk and split: an entry that is empty, or gone, leaves VAL1 empty.
ReadEntry ==
    /\ dpc = "read"
    /\ val' = IF entry[cur] = NoEntry THEN Blank ELSE entry[cur]
    /\ dpc' = "add"
    /\ UNCHANGED <<trees, entry, hookvars, todo, cur, crashes, history>>

NextItem ==
    /\ dpc' = "pick"
    /\ cur' = NoItem
    /\ val' = NoEntry
    /\ stale' = FALSE

\* What a git command given ${VAL1} looks at: without one, all of DPORTS.
Scope == IF val = Blank THEN Trees ELSE {cur}

Stage == [i \in Item |-> IF i \in Scope THEN work[i] ELSE index[i]]

AddStatus ==
    /\ dpc = "add"
    /\ cur \notin Trees
    /\ val # Blank
    /\ index' = Stage
    /\ dpc' = "status"
    /\ UNCHANGED <<work, head, entry, hookvars, todo, cur, val, crashes, history>>

\* git add of /STATUS is outside the repository.  The entry stays queued.
AddStatusFails ==
    /\ dpc = "add"
    /\ cur \notin Trees
    /\ val = Blank \/ AddFails
    /\ NextItem
    /\ UNCHANGED <<trees, entry, hookvars, todo, crashes, dropped>>

\* The $? tested after the assignment of commitmsg is not that of git add: one
\* that fails goes on all the same.
AddTree ==
    /\ dpc = "add"
    /\ cur \in Trees
    /\ \/ index' = Stage /\ UNCHANGED stale
       \/ AddFails /\ UNCHANGED index /\ stale' = TRUE
    /\ dpc' = "status"
    /\ UNCHANGED <<work, head, entry, hookvars, todo, cur, val, crashes, dropped>>

\* Mutant: what is new in the index is not looked at.
Changed_TrackedOnly(i) == index[i] # head[i] /\ head[i] # Absent

\* What git status --untracked-files=no reports.
Changed(i) ==
    \/ index[i] # head[i]
    \/ index[i] # Absent /\ work[i] # index[i]

\* Mutant: an entry without work is left in the queue.
Tasks_Keeps ==
    /\ dpc = "status"
    /\ IF \E i \in Scope : Changed(i)
         THEN dpc' = "commit" /\ UNCHANGED <<cur, val, stale>>
         ELSE NextItem
    /\ UNCHANGED <<trees, entry, hookvars, todo, crashes, dropped>>

Tasks ==
    /\ dpc = "status"
    /\ dpc' = IF \E i \in Scope : Changed(i) THEN "commit" ELSE "unlink"
    /\ UNCHANGED <<trees, entry, hookvars, todo, cur, val, crashes, history>>

\* git commit of a path takes the files git knows under it as they are in the
\* working tree now: all of them, or all but those that were never added.
Committable ==
    IF cur \notin Trees \/ work[cur] \in {index[cur], Absent}
      THEN {work[cur]}
      ELSE {work[cur], Torn}

\* Mutant: the path is left off the commit command.
CommitPath_All ==
    /\ dpc = "commit"
    /\ val # Blank
    /\ \E i \in Item : i[1] = cur[1] /\ index[i] # head[i]
    /\ head' = [i \in Item |-> IF i[1] = cur[1] THEN index[i] ELSE head[i]]
    /\ dpc' = "unlink"
    /\ UNCHANGED <<work, index, entry, hookvars, todo, cur, val, crashes, history>>

\* Mutant: the commit does not refresh the index.
CommitPath_StaleIndex ==
    /\ dpc = "commit"
    /\ val # Blank
    /\ index[cur] # Absent \/ head[cur] # Absent
    /\ \E new \in Committable \ {head[cur]} : head' = [head EXCEPT ![cur] = new]
    /\ dpc' = "unlink"
    /\ UNCHANGED <<work, index, entry, hookvars, todo, cur, val, crashes, history>>

CommitPath ==
    /\ dpc = "commit"
    /\ val # Blank
    /\ index[cur] # Absent \/ head[cur] # Absent
    /\ \E new \in Committable \ {head[cur]} :
          /\ head' = [head EXCEPT ![cur] = new]
          /\ index' = [index EXCEPT ![cur] = new]
    /\ dpc' = "unlink"
    /\ UNCHANGED <<work, entry, hookvars, todo, cur, val, crashes, history>>

\* git commit without a path takes the whole index.
CommitIndex ==
    /\ dpc = "commit"
    /\ val = Blank
    /\ \E i \in Trees : index[i] # head[i]
    /\ head' = [i \in Item |-> IF i \in Trees THEN index[i] ELSE head[i]]
    /\ dpc' = "unlink"
    /\ UNCHANGED <<work, index, entry, hookvars, todo, cur, val, crashes, history>>

\* Mutant: the $? of git commit is not tested.
CommitFails_Ignored ==
    /\ dpc = "commit"
    /\ dpc' = "unlink"
    /\ UNCHANGED <<trees, entry, hookvars, todo, cur, val, crashes, history>>

CommitFails ==
    /\ dpc = "commit"
    /\ NextItem
    /\ UNCHANGED <<trees, entry, hookvars, todo, crashes, dropped>>

RemoveEntry ==
    /\ dpc = "unlink"
    /\ entry' = [entry EXCEPT ![cur] = NoEntry]
    /\ dropped' = IF stale /\ work[cur] # head[cur] /\ ~BeforeEntry(cur)
                    THEN dropped \cup {cur}
                    ELSE dropped
    /\ NextItem
    /\ UNCHANGED <<trees, hookvars, todo, crashes>>

\* The daemon is killed, or the machine reboots, and rc starts it again.
Restart ==
    /\ crashes < MaxCrash
    /\ crashes' = crashes + 1
    /\ dpc' = "find_delta"
    /\ todo' = {}
    /\ cur' = NoItem
    /\ val' = NoEntry
    /\ stale' = FALSE
    /\ UNCHANGED <<trees, entry, hookvars, dropped>>

DaemonStep ==
    \/ FindDelta \/ FindDport \/ (\E i \in Item : Pick(i)) \/ EndRound
    \/ ReadEntry
    \/ AddStatus \/ AddStatusFails \/ AddTree
    \/ Tasks \/ CommitPath \/ CommitIndex \/ CommitFails \/ RemoveEntry

Next ==
    \/ \E p \in Port, success \in BOOLEAN : HookStart(p, success)
    \/ \E p \in Port : HookTear(p) \/ HookStep(p)
    \/ DaemonStep
    \/ Restart

Spec == Init /\ [][Next]_vars

\* A started hook runs on; the daemon loops for ever; an item that is tried
\* again and again is added, and committed, in the end.
Fairness ==
    /\ \A p \in Port : WF_vars(HookStep(p))
    /\ WF_vars(DaemonStep)
    /\ \A i \in Item : SF_vars(cur = i /\ AddStatus) /\ SF_vars(cur = i /\ CommitPath)

FairSpec == Spec /\ Fairness

-----------------------------------------------------------------------------
(* Properties. *)

Covered(i) == entry[i] # NoEntry \/ BeforeEntry(i) \/ i \in dropped

\* What a build changed and no commit holds yet is queued, or its hook is on
\* the way to queueing it.  The daemon removes the entry of work it has not
\* committed in two cases only, and until the port is built again: the entry is
\* another build's, created after git add had staged the one before
\* (dports-daemon.sh:59-65 and 82-88), or git add failed (line 71).
NoLostWork == \A i \in Item : work[i] # head[i] => Covered(i)

\* A commit whose message names a build changes that item only, never to an
\* earlier build, and to something else than the build it names only when the
\* port has been built again since or git add failed (commitmsg of
\* dports-daemon.sh:54 and 79 against what git commit picks up).
CommitMatchesMessage ==
    [][(dpc = "commit" /\ head' # head /\ val # Blank)
          => \E new \in Content :
                /\ head' = [head EXCEPT ![cur] = new]
                /\ \/ new >= val
                   \/ new \in {Absent, Torn} /\ (stale \/ build[cur[2]] > val)]_vars

\* A later build already published is never replaced by an earlier one, even
\* when builds overlap queued entries and git add fails: what is staged is
\* never older than what is committed, nor work than what is staged.
NeverOlder ==
    \A i \in Item :
      /\ index[i] > 0 => head[i] <= index[i]
      /\ work[i] > 0 => index[i] <= work[i]

\* What is staged and differs from the working tree is to be looked at again,
\* so that a commit of the whole index publishes nothing for good.
StagedInv == \A i \in Item : index[i] # work[i] => Covered(i)

InHand == dpc \in {"read", "add", "status", "commit", "unlink"}

\* The items of this round are covered; the one in hand is staged, and then
\* committed, as it is unless its hook is at work again or its entry is stale.
DaemonInv ==
    /\ \A i \in todo : Covered(i) /\ i \notin dropped
    /\ InHand => cur \in Item /\ cur \notin todo /\ Covered(cur) /\ cur \notin dropped
    /\ dpc \in {"status", "commit", "unlink"} /\ val = Blank => cur \in Trees
    /\ dpc \in {"status", "commit"} /\ ~stale /\ ~BeforeEntry(cur)
          => index[cur] = work[cur]
    /\ dpc = "unlink" => index[cur] = head[cur]
    /\ dpc = "unlink" /\ ~stale /\ ~BeforeEntry(cur) => head[cur] = work[cur]

\* The hook of i's port is yet to queue i for its last build.
Pending(i) == BeforeEntry(i) \/ (i[1] = "delta" /\ At(<<"dport", i[2]>>, HookBusy))

\* n names a build of item i whose hook is past it: unless a later one is
\* writing, the item's files are of that build or a later one.
Names(i, n) ==
    /\ n <= build[i[2]]
    /\ n <= work[i] \/ (At(i, {"write"}) /\ work[i] \in {Absent, Torn})
    /\ Pending(i) => n < build[i[2]]

EntryInv ==
    /\ \A i \in Item : At(i, HookBusy) => build[i[2]] > 0
    /\ \A i \in Item : At(i, {"unlink", "create", "fill"}) => work[i] = build[i[2]]
    /\ \A i \in Item : entry[i] > 0 => Names(i, entry[i])
    /\ dpc \in {"add", "status", "commit", "unlink"} /\ val # Blank
          => val > 0 /\ Names(cur, val)
    /\ \A i \in dropped : entry[i] = NoEntry /\ ~At(i, {"unlink", "create"})

\* The inductive invariant of the queue, whatever overlaps and fails, with the
\* types of its variables: nothing is lost because what a build changed stays
\* covered until what was staged of it has been committed.
QueueInv ==
    TypeOK /\ NoLostWork /\ StagedInv /\ DaemonInv /\ EntryInv

\* Whatever a build changed is eventually committed as it is, except what was
\* dropped (the two cases of NoLostWork).
EventuallyCommitted ==
    \A i \in Item : (work[i] # head[i]) ~> (work[i] = head[i] \/ i \in dropped)

\* dports-daemon.sh:4, "It wakes up every 30 seconds and commits work": all of
\* it, in the end.  Not so when a port is built again while the daemon has its
\* entry in hand: the rm of line 59, 65, 82 or 88 takes the new one: violated,
\* so in no .cfg, see README.
CommitsWork == \A i \in Item : (work[i] # head[i]) ~> (work[i] = head[i])

\* Every entry is eventually taken off the queue (the rm of an entry whose
\* work an earlier commit already took along included).
QueueDrains == \A i \in Item : (entry[i] # NoEntry) ~> (entry[i] = NoEntry)

=============================================================================
