# DeltaPorts: a verification development

DeltaPorts keeps the changes that turn the FreeBSD ports tree into DragonFly's
DPorts. Its programs are the shell scripts and the two C programs under
`scripts/`; `ports/` and `special/` are their data. This directory has TLA+
modules of the scripts that keep state, TLC configurations that check them on
small instances, and proofs (TLAPS) about every module. Of the overlays, the wayland
patch that puts a whole event loop on kqueue is a program of its own and is
modelled too.

`PROJECT.json` maps every definition to the lines it is translated from, lists the
runs, the mutants that show each property can fail, the hazards, the findings and
the theorems.

## 1. The system

    FreeBSD ---portsnap---> FPORTS --generate_ports_INDEX--> INDEX
                              |                                |
    people --edits--> DELTA --+------------- merge.sh ---------+--> MERGED
                        ^     |                                        |
                        |     +-- sync1.sh --> POTENTIAL <-------------+
                        |                          |
                        |                      poudriere (builds)
                        |                          |
                        +---- pkgbuild.sh (hook) --+--> DPORTS
                                   |
                               COMQUEUE --> dports-daemon.sh --> git commits
                                                                 of DELTA, DPORTS
    prune.sh: MERGED, FPORTS --> removes from DPORTS and DELTA

None of the scripts locks anything. The parts interact through directories only: what one
script renames, removes or writes is what another finds.

| part | state | operations | hard behaviour | what makes it correct |
|---|---|---|---|---|
| builder hook (`builderhooks/pkgbuild.sh`) | a port's directory in DPORTS, its STATUS, its entries in COMQUEUE | on success: replace the directory, write STATUS, two entries; on failure: STATUS, one entry | several hooks and the daemon interleave, file by file | what it changed is queued; what it queued is whole |
| commit daemon (`generator/dports-daemon.sh`, `dportsd`) | the git index and commits of DELTA and DPORTS, the queue | per entry: git add, status, commit, rm; every 15 minutes pull and push | killed and restarted; git fails; entries rewritten under it; others push, merges conflict | every change is committed, once, as the message says, and published |
| `portsnap fetch` (`portsnap.sh`) | the work directory: tag, tINDEX, INDEX, files/ | fetch_snapshot, fetch_update | downloads and patches fail, mirrors lag, the run is killed between any two commands | a successful run leaves the complete snapshot its tag names, never an older one |
| `portsnap extract`, `update` | the ports tree and .portsnap.INDEX | unpack all, or what differs | tar fails, killed half way | the tree is what .portsnap.INDEX says |
| `phttpget.c` | one connection, counters of requests and replies | send, read headers, read a body, reconnect | pipelining, full buffers both ways, resets, closes at any moment | each file has the reply to its own request; it ends |
| `make_index.c` | the dependency lists of all ports | sort, look up, close the lists, print | recursion that grows lists that are being walked | each list is the closure; a loop is found |
| `merge.sh`, `sync1.sh`, `quicksync.sh` | MERGED, POTENTIAL, WORKAREA | merge, skip, mask or lock each port; merge one port | one WORKAREA for all, no locks, killed half way, STATUS changes meanwhile | an entry has its own port's pieces only; what is skipped is current |
| `generate_ports_INDEX.sh` | INDEX | describe every port | a port that cannot be described | INDEX names what FPORTS has |
| `prune.sh` | DPORTS, DELTA | remove what MERGED or FPORTS no longer have | MERGED is stale or incomplete | only what is gone is removed |
| `mask_NO_PACKAGE.sh` | STATUS files | write MASK | a build ends meanwhile | a mask holds |
| new generator (`new-generator/`) | three trees, MERGED, done markers | phases of filters, each once | a filter fails or is killed before its marker | a filter is not skipped, nor run on its own result |
| wayland event loop (`ports/graphics/wayland/dragonfly/patch-src_event-loop.c`) | the timer heap and its one knote, the signal list and a knote per signal, the batch of events, `destroy_list` | add, update and remove sources, dispatch | callbacks remove and re-arm anything while the batch that called them is half done | no source is used after it is freed; the shared knotes follow what is left |
| `merge-mk.sh`, second half of `merge.sh`, filters | Mk, Templates, Tools, ... of MERGED | copy and patch | none: straight-line, no other writer | - |
| lists and reports, `synclog.py`, `refresh-special-mk-diff.sh`, `share-mk` | none that is read back | print | none | - |

## 2. Modules and plan

Modules, with what each EXTENDS or instantiates:

| module | models | built on |
|---|---|---|
| `CommitQueue` | the hook and the daemon's commit loops | |
| `Ledger`, `MCLedger` | what the queue promises of STATUS files, and the refinement mapping to it | `CommitQueue` |
| `CommitQueueProofs` | proofs about `CommitQueue`, and that it takes the steps of `Ledger` | EXTENDS `MCLedger` |
| `RepoSync`, `MCRepoSync` | pull, push, other people, prune.sh's commits, beside hook and daemon | EXTENDS `CommitQueue` |
| `RepoSyncProofs` | proofs about `RepoSync` | EXTENDS `RepoSync`, `CommitQueueProofs` |
| `PortsnapFetch`, `MCPortsnapFetch` | `portsnap fetch`, histories to run it on | |
| `PortsTree`, `MCPortsTree` | extract and update, beside a cron that fetches | EXTENDS `PortsnapFetch` |
| `PortsTreeProofs` | proofs about `PortsnapFetch` and `PortsTree` | EXTENDS `PortsTree` |
| `Phttpget`, `MCPhttpget` | the HTTP client and a server | |
| `PhttpgetProofs` | proofs about `Phttpget` | EXTENDS `Phttpget` |
| `MakeIndex`, `MCMakeIndex` | `make_index.c` | |
| `MakeIndexProofs` | proofs about `MakeIndex` | EXTENDS `MakeIndex` |
| `MergeTree`, `MCMergeTree` | merge, sync, build, prune | |
| `MergeTreeProofs` | proofs about `MergeTree` | EXTENDS `MergeTree` |
| `Generator` | the new generator: trees, phase, filters, markers | |
| `GeneratorProofs` | proofs about `Generator` | EXTENDS `Generator` |
| `EventLoop`, `MCEventLoop` | the wayland event loop on kqueue | |
| `EventLoopProofs` | proofs about `EventLoop` | EXTENDS `EventLoop` |

All of them are written and checked, and every safety invariant and action property
that a run checks has a theorem. Three theorems have a condition, all about
`portsnap fetch` without kills; what they exclude is what `CompleteAgain` is about and
what `fetch_emptied` shows. Where the code can do what one would not expect of it, the
model does it too, and a property names the case it excepts by a history variable (`stale`
and `dropped`, `begun`, `loose`, `turned`, `unheard`).

What the theorems say, by component, with the conditions they need; each section below
gives the argument:

| component | proved | conditions | only model-checked |
|---|---|---|---|
| `CommitQueue` | `TypeOK`, `QueueInv`, `NoLostWork`, `CommitMatchesMessage`, `NeverOlder`, the steps of `Ledger` | none | `EventuallyCommitted`, `QueueDrains`, the fairness of `Ledger` |
| `RepoSync` | `SyncTypeOK`, `SyncInv`, `QueueKeepsWork`, `NeverOlder`, `MarksEndMerges` | none | `PublishedOrStuck` |
| `PortsnapFetch` | `TypeOK`, `CompleteWhenResumed` | none | `CatchesUp` |
| | `CompleteSnapshot`, `NeverDowngrades`, `IndexNeverEmptied` | no kill (the last also: no REFUSE) | `IndexNeverEmptied` with kills, on the history of run `fetch` |
| `PortsTree` | `TreeAgrees` | none | `TreeCatchesUp` |
| `Phttpget` | `Outstanding`, `RightFiles`, `NeverGivesUp` | none | `Finishes`, `Terminates` |
| `MergeTree` | `OwnPieces`, `UpToDate`, `PruneSpares`, `SkippedIsCurrent` | none | |
| `Generator` | `PhaseIsComplete`, `FinishedStays` | none | `GetsDone` |
| `EventLoop` | `NoUseAfterFree`, `KnoteNamesLive`, `TimerIsArmed`, `SignalReachesAll` | none | `TimersComeDue` |
| `MakeIndex` | `TypeOK`, `NoOverrun`, `RightEnd`, `RightIndex` | none | `Terminates` |

What stays with TLC is liveness: fairness and ENABLED are out of the prover's reach. The
library's induction theorems take a predicate as a parameter, which the provers cannot
instantiate; where a proof needs induction it takes a set of natural numbers instead,
whose complement has a least element (`Induction` of `MakeIndexProofs`).

Each module's type invariant is the first conjunct of one of its safety invariants,
where it is not an invariant of a run by its own name.

## 3. CommitQueue

An *item* is a STATUS file (track `delta`) or a DPORTS directory (track `dport`) of
one port. `work`, `index` and `head` are its contents in the working tree, in git's
index and in the last commit; `entry` its file in COMQUEUE. Contents are the number of
the build that wrote them, or `Torn` while `cp -r` or the three `echo`s of
`write_status` are half way; an entry that is created and not yet filled is `Blank`.

The hook is `HookStart` (RESULT arrives), `HookTear` and `HookWrite` (the files),
`HookUnlink`, `HookCreate`, `HookFill` (rm, open and write of the entry), twice on a
success. The daemon is `FindDelta` and `FindDport` (the two `find`s), `Pick`,
`ReadEntry`, `AddStatus`/`AddTree`, `Tasks` (git status), `CommitPath` or
`CommitIndex` (a blank entry leaves `${VAL1}` empty: git adds and commits
everything), `RemoveEntry`, and `Restart`. Left out: the wording of messages and the
PSF log; pull and push are in `RepoSync`.

Nothing keeps a port from being built again while an entry of its last build is queued
or in the daemon's hands (pkgbuild.sh:21 and 91-93 remove an old entry because there may
be one), so `HookStart` has no such guard. `AddFails` says whether `git add` can fail.
For a DPORTS directory nobody hears of it: line 75 tests the status of the assignment
above it, so `AddTree` goes on to `git status` whether it staged anything or not, and
the entry is removed.

So the daemon does lose work, in two cases, and two histories tell them from everything
else: `stale` is set when the item in hand got a new entry after its `git add`, or its
`git add` failed; `dropped` has the items that were not committed when such an entry was
removed, until their port is built again. `NoLostWork` and `EventuallyCommitted` say that
nothing is lost in any other way, however builds, failed commits and restarts interleave;
`CommitsWork`, in the same module, is what one would like to have and what the first case
violates (section 11). A half-written STATUS can be committed, by the daemon too;
`CommitMatchesMessage` says when: while a later build of the port has begun.

| run | instance | question |
|---|---|---|
| `queue` | 1 port, 2 builds, 2 restarts, failing adds, fair | nothing is lost but in the two cases (`NoLostWork`), commits are what their messages say, the inductive invariant `QueueInv`; it implements `Ledger`; every change is committed unless dropped; every entry goes |

Bounds: two builds are what an entry needs to be rewritten, and contents of an earlier
build to be in the index or in the last commit while a later one is written; a port has an
item in both repositories, and the daemon treats it in both its loops. Ports meet only
where a blank entry commits all of DPORTS; with two ports (two builds each, three in all, no
restart, 3.5 million states) the safety properties hold as well, and the theorems have any number.

Fairness: a hook that started runs to its end; the daemon's loop never stops (rc keeps
it running, and a restart is allowed only `MaxCrash` times); an item that is tried
again and again is added, and committed, in the end (strong fairness: the code retries as
long as the entry is there).

### Proofs

For every set of ports, `MaxBuild` and `MaxCrash`, with builds that overlap and adds that
fail:

- `Typing`: `Spec => []TypeOK`.
- `QueueInvariant`: `[]QueueInv`, and from it `NothingIsLost` and `MessagesMatch`:
  `[]NoLostWork` and `CommitMatchesMessage`.
- `BuildsInOrder`: `[]NeverOlder`.
- `LedgerSteps`: `L!Init /\ [][L!Next]_...`, the safety half of `ImplementsLedger`.

`NoLostWork` is not inductive: that an entry may be removed depends on what the daemon has
in hand being what is committed. `QueueInv` adds to it that what is staged and differs
from the working tree is covered too (`StagedInv`: a commit of the whole index takes it),
that the items of this round are covered and the one in hand keeps its contents between
add, commit and rm unless its hook is at work again or its entry is stale (`DaemonInv`),
and that an entry, and what the daemon has read of it, names a build the files are not
older than (`EntryInv`, `Names`), which is what `MessagesMatch` needs. The proof has
one step per action and in each one step per part. TLC checks `QueueInv` in the run.

`NeverOlder` compares the index with the last commit. A `git commit` of a path takes the
working tree, so `OrderInv` adds that what is committed is never newer than what a
finished build left in the working tree, and that nothing is newer than the port's
current build; that is inductive.

`L` is `Ledger` under the refinement mapping of `MCLedger`: `HookStart` of a failure, or
the end of the DPORTS half of a success, begins a version, `HookWrite` makes it, a commit
that changes a STATUS publishes it, torn only while the next one is being made, and the
removal of a stale entry gives it up; everything else is a stutter. That the first
version of a port is never given up is `LedgerInv`'s part: a STATUS that has an entry is
there, so that what is staged of it, and committed before the entry is removed, is never
nothing.

Only model-checked: liveness, which is out of the prover's reach.

## 4. RepoSync

`CommitQueue` with what else happens to the two repositories. `origin` is the shared
repository, `base` what was last pulled or pushed of it; `merging`, `mergehead` and
`unmerged` are git's MERGE_HEAD and the paths in conflict; `repo` says which of the two
the daemon is at. Contents that others wrote, or that git merged from two sides, are
`Theirs`; a file with conflict markers is `Marked`.

The daemon's actions are those of `CommitQueue`, with git's behaviour in an unfinished
merge added (`SyncAdd` settles a conflict, `SyncCommit` refuses a path and concludes a
merge when it commits the index, `AddUnknown`), and `StartSync`, `Pull`,
`PullConflicts`, `PullFails`, `Push`, `PushFails` (lines 87-114). Around it are
`PruneRemove`, `PruneRefused` (a `git rm` that fails: its port is named in the message,
and there is a commit, all the same) and `PruneCommit` (prune.sh's two different `git
commit`s), `OthersPush`, and `Resolve`, a person who finishes a merge. A git command is
one step, except that its view of a half-copied tree is `Torn` as before.

| run | instance | question |
|---|---|---|
| `repo_publish` | 1 port, 1 build, 1 restart, 1 push of others, prune.sh in DPORTS, fair | everything that is built gets to the shared repository and everything others publish into the trees, or a merge stays unfinished (`PublishedOrStuck`) |
| `repo_prune` | 1 port, 2 builds, 1 push of others, failing adds, prune.sh in DELTA | a build keeps its entry through unfinished merges and prune.sh's commits (`QueueKeepsWork`, with its invariant `SyncInv`); an older build never replaces a newer one (`NeverOlder`); conflict markers get into a commit only when it ends their merge, in DELTA only by a person (`MarksEndMerges`) |

Bounds: one port has an item in each repository, and the repositories are pulled one
after the other; one foreign change is enough for a clean merge, a fast-forward, a
refused pull and a conflict, since `OthersPush` may come at any time. prune.sh's
`git commit .` in DELTA needs a STATUS that was committed once and is being rewritten,
hence two builds in `repo_prune`; liveness over two builds is beyond TLC, hence the
second run.

No property says that only whole STATUS files are published, since they are not:
prune.sh:136 commits, and the daemon then pushes, what a hook has half written, and so does
the daemon itself when a port is built again while its entry is in hand. What holds is
that the half is replaced: the work of that build is covered until it is committed.

### Proofs

`RepoSyncProofs` extends the proofs of `CommitQueue`: where an action of the daemon or of
the hook is unchanged, its lemma there is used again. For any ports, builds, restarts,
pushes of others and items that prune.sh removes, overlapping builds and failing adds
included:

- `SyncTyping`: `[]SyncTypeOK`.
- `MarksOnlyEndMerges`: `MarksEndMerges`. Its invariant (`MarkInv`): markers in the working
  tree are in the index too, and outside a merge the index has none that the last commit
  has not. `MergeInv` says what a merge can bring in at all: nothing but what others
  pushed.
- `SyncInOrder`: `[]NeverOlder`: `OrderInv` of `CommitQueue` still holds when git merges,
  since what others wrote is `Theirs` and no build's number.
- `SyncInvariant`: `[]SyncInv`, and from it `WorkIsKept`: `[]QueueKeepsWork`. `InHandInv`
  says that a build that is committed is staged, so that no commit of the index and no
  merge takes it back, and that the item in hand is staged before `git status` and
  committed before its `rm` unless its hook is at work again or its entry is stale;
  `UnwrittenInv` that a build which is yet to be written is newer than anything there, so
  that what the hook writes is not taken for committed already.

Only model-checked: `PublishedOrStuck` (liveness).

### Fairness

As in `CommitQueue`; a round is in the end followed by a sync, and a pull
and a push that are possible again and again succeed (the network is there now and
then); prune.sh goes on from its removals to its commit. `Resolve` has none: nobody has
to finish a merge, hence the second half of `PublishedOrStuck`.

## 5. PortsnapFetch

A line of INDEX or tINDEX is `<<name, version>>`; the file it names by hash is
`files[line]`: none, whole, or short (a `gzip` was killed). The server's history is a
constant; any of its snapshots can be served (lagging mirrors), a patch can be missing
or not apply, any download can fail. Every command of `fetch_snapshot` (tag, tarball,
rm, mv) and `fetch_update` (tag, metadata patch and fetch, INDEX.new, patches, files,
clean-up, renames) that changes the work directory is an action, and a kill is possible
before each, inside the `rm -f` of many files, and inside `gzip`. REFUSE keeps old
lines of the refused paths. The choice of a server and the public key are a download
that may fail.

| run | instance | question |
|---|---|---|
| `fetch` | 3 snapshots, the second equal to the first, 4 kills, gzip too, fair | INDEX is not emptied; where every clean-up that was begun has been finished, a successful run leaves a complete snapshot (`CompleteWhenResumed`); repeated runs catch up |
| `fetch_emptied` | 3 snapshots, 1 kill | *violated*: an INDEX with no port at all is installed by a run that reports success |

`CompleteSnapshot`, of every successful run, and `NeverDowngrades` are checked in the
run `tree` (section 6), on a longer history and with a refused path, without kills.

The difference between the two runs is how often the server moves. After a kill between
the clean-up of line 811 and the renames of 817-819, tINDEX still names the old INDEX
file, which is gone. If the next run is served the same new snapshot, it has everything
and the run repairs itself (`fetch`). If it is served a newer one, the INDEX file
is in the list of changed lines but not in the patch list (its old file is missing), so
it is never fetched; `gunzip` of a missing file is no error inside the pipeline, and the
empty INDEX.new passes the sanity check.

The history `begun` has what the clean-ups that were begun, and killed, were to leave: the
snapshot and its INDEX. It is emptied when a run comes to its end for the only one in it.
`CompleteWhenResumed` therefore covers every kill in the middle of an update that a later
run takes up again, any number of times, whatever other runs fail or find nothing in
between; it excepts a clean-up begun for one snapshot over what another has left behind,
where the run of `fetch_emptied`, and an "ok" from a lagging mirror over a half-cleaned
directory, are possible. It also excepts short files (`gzip` killed): nothing ever repairs
them (`NoneShort`). A kill between the last renames leaves a tag older than INDEX, which a
lagging mirror can then take back; hence `NeverDowngrades` without kills.

Fairness: cron runs portsnap again and again; every snapshot is served and every
download succeeds now and then.

`NeverDowngrades` is about what INDEX offers, and dates a set of lines by the first
snapshot that offers them (`FirstToOffer`), since a server may publish the same ports
again: going from the third snapshot to a fourth that equals the second is no
downgrade.

With four kills a run can be killed in the first snapshot, in the update to the second
and in two repairs of it; the repeated snapshot makes the test of line 523 matter, where
a newer tag names the same INDEX.

### Proofs

The first part of `PortsTreeProofs`. For every history, every set of refused paths and
any mirrors:

- `FetchTypes`: `[]TypeOK`.
- With no kill (`MaxCrash = 0`), downloads and patches failing at will:
  `CompleteUnlessKilled` (`[]CompleteSnapshot`), `ForwardUnlessKilled`
  (`NeverDowngrades`) and `NotEmptiedUnlessKilled` (`[]IndexNeverEmptied`; with REFUSE an
  INDEX may be empty because everything is refused). The invariant, `SoundInv`, has the
  work directory either blank or a complete snapshot whenever no run is in progress, and
  says for each program counter what of the old and of the new snapshot is in place.
- With any number of kills, torn gzip included: `CompleteAgain` (`[]CompleteWhenResumed`).
  Its invariant, `ResumeInv`, has three parts: what each program counter knows
  (`ControlInv`); what the disk is (`BegunInv`): if `begun` is empty a ready work directory
  has every file that INDEX and tINDEX name (`Settled`), if it has one element the
  directory has all that this snapshot and this INDEX need (`Left`); and what the run in
  progress has fetched so far of the snapshot it is going to (`FetchedInv`), which the
  clean-up then keeps.

Hashes and `FirstToOffer` choose the earliest of a set of snapshots; that there is one is
the library's theorem about well-founded relations (`NatWellFounded`, `HashFacts`). Only
model-checked: `CatchesUp` (liveness).

## 6. PortsTree

`extract` and `update` on the work directory of `PortsnapFetch`, whose actions go on
beside them: portsnap.8 tells people to fetch from cron, and nothing stops a fetch
during an update. `tree[p]` is the set of versions whose files stand at `p`, `v` when
whole and `-v` when cut short (an update whose tar is cut short over another version
leaves both). `record` is .portsnap.INDEX, `todo` the lines the running loop has still
to read.

`extract` is `ExtractRun`, `Extract` per line and `ExtractMetadata`, or `ExtractPath` for
one path, which records nothing; `update` is `UpdateRun` (the cmp), `RemoveOutdated`,
`ListFresh`, `Install` per line and `ExtractMetadata`; both end with `ExtractIndices`.
INDEX is read again in each of these, as the code does. `TarFails` at any line but the
last goes unnoticed; `NotFound` stops the loop. `TreeCrash` kills between commands and
within the `rm`, `TreeCrashInWrite` within tar and within the sort that writes
.portsnap.INDEX.

Two histories keep the properties honest: `goal` is the INDEX the tree is being taken
to, `loose` the paths the scripts have lost sight of and cannot know about: an
unnoticed tar, INDEX changed under a run, an extract that left a port behind that INDEX
no longer names. For every other path a run that reports success leaves exactly what
.portsnap.INDEX says, whatever killed the runs before (`TreeAgrees`), and repeated
fetches and updates bring it to the newest snapshot (`TreeCatchesUp`). Each of the
causes in `loose` is listed in section 11.

Run `tree`: three snapshots in which a port changes and changes back, one goes away and
comes back renewed, and a refused one changes; one kill. A second kill of a tree run
finds the disk in a state that a first one could have left, since a run begins from
INDEX and .portsnap.INDEX alone.

The second part of `PortsTreeProofs` has `TreeIsRecorded`: `TreeSpec => []TreeAgrees`,
without any condition, for any history, paths and kills. A lemma on the way, that the
fetch half of `TreeSpec` behaves as `PortsnapFetch`, is how the module is composed and no
result of its own. Its invariant: the lines of INDEX, `record` and `goal` name each
port once (`LinesInv`), `todo` is what is left of `goal` (`RunInv`), and, for every path
that is neither refused nor in `loose`, what is on disk is what is recorded or, in the
middle of a run or after a kill, something between that and `goal` that a next run
will see (`AgreeInv`). `TreeCatchesUp` is liveness and stays with TLC.

Fairness: portsnap is run again and again, an extract that left no .portsnap.INDEX too;
a run that is not killed ends; and from some time on downloads and tar succeed and the
mirrors are up to date (`<>[][~Trouble]`), since a run that fails every time brings
nothing about.

## 7. Phttpget

`main` of phttpget.c, with its counters `nreq`, `nres`, `firstreq` and `pipelined`, the
request buffer, the connection as two streams with room for `Room` messages each, and a
server that answers in order, with any of the replies of
`MCPhttpget` (HTTP/1.0 and 1.1, with and without body, with a length, in chunks or up to
the end of the connection, close and keep-alive), closes after a reply or while idle, and
whose closing may reset the connection and take unread replies along. A `polite` network
does no more, and sends no body in several chunks; on a `chunking` one it does; a `failing`
one refuses, breaks or times out as well. The bytes of a message
are one element of a stream, which may be cut. Left out: 1xx replies, proxies,
credentials, failures of local files.

A body in one chunk is read as one with a length. Of one in several the code reads the
first only: `copybytes` stops before the CRLF that ends a chunk's data, so the `readln` for
the next size gets that empty line, `clen` stays 0 and the loop ends (603-646). The file
is counted (`"first"`), and what is left of the body is taken for the trailer, up to its
first empty line, and then for the next reply: `garbage`, which may make the header of the
next reply unreadable, or none of it be left, depending on the bytes of the file.

Run `http`: four files, room for one message. A request in the client's buffer, one on
the way, a reply on the way and one being read are all needed for the deadlock that
the code's order of sends and reads avoids (`Finishes`), and the fourth file for a
reconnection in the middle. `RightFiles`: replies carry no name, so counting is all that
ties them to files; a file never has the bytes of another one's reply, and one whose body
broke off is counted only when the connection's end is the body's end (line 658), or
when its first chunk is there. `Outstanding`: what is on the connection is what the
counters say. `NeverGivesUp` and `Finishes`: the rule "give up if the first request of a
connection fails" never gives up a polite server; one that sends chunks can be given up,
and never finished with. `Terminates`: on any network.

Fairness: the program runs, a server that has room and a request answers, and no recv
waits for ever (the program sets SO_RCVTIMEO).

`PhttpgetProofs`, for any number of files, any `Room`, any replies and networks:
`OrderKept` (`[]Outstanding`), `NeverMixedUp` (`[]RightFiles`) and `PolitelyServed`
(`[]NeverGivesUp`). `Outstanding` speaks of one concatenation; the invariant `ClientInv`
speaks of positions instead: the k-th unread reply is that of request `nres + k - 1` (one
more while a body is read), the k-th request on the way follows the replies, and the
three lengths add up to `nreq - nres` while the connection is open. `UnreadFacts` takes
that back to the concatenation. `RightFiles` is inductive beside it, since a body is
read only when its reply is that of `nres`. `FirstInv` is what `NeverGivesUp` needs: on a
polite network the first request of a connection goes out alone, and the server does
not close before its reply has come whole. `Finishes` and `Terminates` are liveness.

## 8. MakeIndex

A port (`PORT *`) is the number of its describe line, directories and package names are
numbers in the order of `portcompare` and `strcmp`. `Read`, `Sort` and `Translate` are
steps 1 to 3 of `main`; the C recursion of `recurse` and `recurse_one` is the variable
`stack`, with one action for a call that goes deeper (`Descend`), one that finds a port
in the middle of its own recursion (`Circular`), one that copies a finished port's run
dependencies (`Extend`, the loops over j and k), and one for each return (`EndList`,
`Return`). `dep` keeps the old array of a list until its frame returns, as the field of
PORT does, and `count` is the allocated size meanwhile, as `*nd` is: an `Extend` from a
port that is not finished would read `Garbage`. The heap sorts (`Largest`,
`Sift`, `HeapSort`), the binary search and the loop over j are recursive functions with
the code's bounds. `Sift` takes a turn for each element of the heap where the code stops
at the first turn that swaps nothing: the turns after that one change nothing either.

Run `make_index`: `NoOverrun`, `RightEnd` (against a reachability that does not
know the algorithm), `RightIndex` and, the program being sequential and always able to
go on, `Terminates`. The walk treats edep, pdep, fdep and bdep alike, so one of them is
filled at a time; four ports in a chain make a list of one grow twice; five lines in
every order make heaps with a last child on either side. Two lines may describe the same
directory, since portsnap.sh:844 appends LOCALDESC to what the server sent.
`realloc` of no bytes (line 462, an empty file) is taken to succeed, as on FreeBSD and
DragonFly.

### Proofs

`MakeIndexProofs`, for every set of directories and every describe file, the only
assumption being that a line has the fields of a described port or is broken:

- `TypeCorrect` (`[]TypeOK`, with a stack no deeper than there are ports),
- `RoomEnough` (`[]NoOverrun`),
- `EndsRight` (`[]RightEnd`): "no entry" exactly if a name has none, "Circular dependency
  loop" exactly if a port needs itself,
- `IndexRight` (`[]RightIndex`): the INDEX is complete and sorted, and its lists are the
  closures.

The first half is about the operators. `Iterated` says that a recursive function that goes
on by G exists and does so; on it rest `HeapSortFacts` (the result is ordered and a
rearrangement of what was sorted: below a place that is sifted every element is no larger
than its parent, `SiftFacts`; so the root is a largest one, `RootIsLargest`), `SearchFacts`
(in an ordered array the search finds a port that has the directory if one has),
`AddAllFacts` (what a list holds after the loop over j, and that it fits the array if it
did before), and `ClosureFacts`, `ClosureLeast` and `ClosureSteps` (`Closure` takes a step
for each port, and that is enough: it is closed, and the least such set).

The second half is the walk, over the lists as `Translate` leaves them (`Net`). The
properties are not inductive: that a list is the closure when it is finished rests on
what the lists it copied from were at that time, and these were finished only because
every port in the middle of its recursion is on the stack. `Walk` says it: a port not seen
has its lists as described, one that is recursed needs itself nowhere and its lists are
closures (`Settled`); the stack has every port in the middle of its recursion once, each
frame has called the next, the lists before the one it is at are finished and those after
it untouched, and the one it is at holds, and nothing more, everything that the elements
before `i` reach (`Frames`). A port met twice on the stack is therefore in a loop
(`LoopFound`); one that returns cannot be in one, as all it names were finished before it
(`NoLoop`); and no stack has more frames than there are ports (`StackFits`). The inductive
invariant `IInv` is what holds at each step of `main`, from `AtSort` to `AtPrint`;
`InvariantHolds` proves it, with a lemma per action.

`Terminates` is liveness and only model-checked.

## 9. MergeTree

Trees are sets of *pieces*: a version of a FreeBSD port, a revision of the port's
overlay (Makefile.DragonFly, dragonfly/, diffs/) or newport; an entry that does not
exist is `NoTree`. `kind` and `attempt` are the first word and the last attempt of a
STATUS; `index` and `fports` the versions in INDEX and FPORTS. `WORKAREA` is one tree.

`merge.sh` is `StartMerge` (the list of INDEX lines and custom ports), `MergeLine` (one
turn of the loop: mask, skip by the awk program, or begin to merge), `Remove`, then
`Fill` (straight copies) or `Clear`, `Copy`, `Overlay`, `Install` through WORKAREA, and
`EndMerge`. `sync1.sh` is `StartSync`, the same steps into POTENTIAL, and `Mirror`,
its last line. The hook is `EndBuild`, in one step, since `CommitQueue` has its
interleavings. `Prune`, `MakeIndex`, `Publish` (POTENTIAL filled from MERGED) and
`ResetMerged` are single steps; the last two and `Prune` run when no script does, as the
head of prune.sh asks. `Upstream` and `Edit` happen at any time, in the middle of a
merge too. A script can be killed at any step; what it has made stays. The text of a
port (sed, patch) and the second half of merge.sh are left out. Two scripts are not
run at once, although nothing prevents it: both empty WORKAREA.

`attempt` is `Never` when the second line of STATUS names no version: what awk compares at
line 18 is then empty, and equals no version. It is `Bare` when there is no second line: the
awk program prints nothing for a PORT or DPORT (lines 17-20), and merge.sh merges it as a
PORT (`MergedAs`). awk compares two versions that look like numbers as numbers, 1.1 and
1.10 for one (`SameVersion`; `Numeric` has the pairs).

Run `merge`: a port that changes and one that is filtered through WORKAREA, two
versions that awk takes for the same, one edit or kill, describe may fail. `OwnPieces`: no
entry holds another port's pieces or a mixture; `UpToDate`: a finished merge.sh has brought
every unchanged port, a DPORT too, up to date, or skipped it since its last attempt equals,
as a number, the version in INDEX; `SkippedIsCurrent`: what it skips as attempted is
that version; `PruneSpares`: pruning spares what is locked or replaced, and what is in
INDEX.

The properties except what the scripts do get wrong or cannot know:

- `UpToDate` says nothing of a DPORT whose STATUS has one line (a custom port of which INDEX
  has no line would be merged from nothing). No STATUS of this repository has one line, and
  mask_NO_PACKAGE.sh writes a reason below MASK.
- `SkippedIsCurrent` is stated for runs without a kill: merge.sh killed between `rm -rf`
  and `cpdup` (lines 111-115) of a port whose build is under way leaves an empty entry
  that is skipped once that version has been attempted. And it excepts ports in `turned`:
  people turned their STATUS back into PORT since their entry was made. A port that was
  locked with an older DPORTS copy than its last attempt keeps that copy then, skipped as
  attempted. That takes two edits, hence not this run but the theorem; with two edits and
  one port (4.8 million states) TLC agrees.
- `PruneSpares` believes INDEX, as prune.sh does through MERGED. prune.sh:107 goes further and
  says that FreeBSD has deleted what it takes, which a port that could not be described
  contradicts: `PrunedIsDeleted`, run `merge_pruned`, *violated*.

Bounds: a merge handles one port at a time, and ports meet only in WORKAREA, so one port
with its whole life and another that goes through WORKAREA show what can be mixed; with
two versions an attempt can be older than, equal to, or newer than an entry.

No liveness is stated: that a version is built in the end depends on people who run
generate_ports_INDEX.sh, merge.sh and poudriere again. What the scripts owe is in
`UpToDate`: each finished merge.sh has brought every version not yet attempted.

`MergeTreeProofs`, for any ports, versions, revisions, edits, kills, words people write and
pairs that awk takes for one, without any condition:

- `PiecesOfOne`: `[]OwnPieces`. `ShapeInv` says what WORKAREA holds from `Clear` to
  `Install`: nothing, then pieces of the port in hand; what the last port left there before
  `Clear` does not matter.
- `MergedIsUpToDate`: `[]UpToDate`. Every unchanged port that is in INDEX or custom is still
  in `todo`, in hand, or settled (`PassInv`), and the one in hand is merged as its STATUS
  asks (`HandInv`).
- `PruneSparesThem`: `PruneSpares`, from the same invariant: prune.sh runs after a merge.sh
  that has ended with a fresh MERGED.
- `SkipsCurrent`: `[]SkippedIsCurrent`. It needs `VersionInv` (no tree and no attempt is ahead
  of FPORTS) and `CurrentInv` (a version that a build or an attempt has reached is in
  MERGED unless the port is in hand, or has been turned into something else since).

## 10. Generator and EventLoop

`Generator` is `bin/generator auto`. `have` is how far each of the three trees is there;
a tree that is there is taken as it is, and the ports tree may be cut short even where
its extract reported success (`TreeMade`: portsnap.sh:899 does not notice a tar that
fails). `merged[o]` is the filter that wrote output `o` last, `done` and `phase` are the
markers. `Start`, `TreeExists`, `TreeMade`, `TreeFails`, `SkipPhase`, `RunPhase`,
`FilterWorks`, `FilterFails`, `Mark` and `MarkPhase` are the run; `Kill` ends it
anywhere, a clone, an extract or a filter half way. `Filter` has the eight scripts of
the phase with what they read and write: the Mk filter also writes Uses, and the
replacements filter writes it again. `Deaf` are the filters that do not look at every
command's status; what they, or filters that ran on an incomplete tree, left is in the
history `unheard` and excepted. Run `generator`, three kills: a phase marked done has
the last work of every filter, in every output that is not in `unheard`
(`PhaseIsComplete`); an output is not touched again when all its filters are marked
(`FinishedStays`: it is what makes a kill between a filter's work and its marker
harmless); the phase gets done, or a tree stays cut short (`GetsDone`). Fairness:
somebody starts it again and again, and what fails works in the end: a tree is made, and
a filter works once its trees are whole. Three kills are enough for one in a tree, one
in the Mk filter and one between work and marker.

`EventLoop` is the kqueue loop of patch-src_event-loop.c. There is one thread; a call of
the program or of a callback is one step, and `Callback` may be any of them, so a
callback adds, updates, stops and removes itself or any other source while the dispatch
is in the middle of its batch. `Wait` is kevent and may fire the timer a tick early,
since the kernel rounds; `Passes` is the clock going on between two readings of it, which
is how `set_timer` comes to find its deadline already past (`stuck`). Dispatch is
`DispatchTimers` and `CallTimer`, `SignalEvent`, `SignalCall` and `SignalDone` (the
`wl_list_for_each_safe`), `FileEvent` and `Destroy`. Run `event_loop`: two timers, two
watchers of one signal and one of another, one file, five calls, three ticks. Two
watchers of one signal are what sharing a knote needs, with a third to tell it from the
list of all; two timers what sharing the one timer knote needs; five calls are two
additions, an arming, and a removal and an addition in a callback. `NoUseAfterFree`,
`KnoteNamesLive`, `TimerIsArmed`, `SignalReachesAll`; and `TimersComeDue`, for which the
clock goes on, a dispatch ends, and kevent returns a timer that has fired. The
signal loop reads its next source before it calls one (`Advance`). A callback may remove
that next source: the loop still goes to it, passes over it, since its fd is -1, and then
follows the links that wl_list_remove has cleared, a null pointer: `pc` is `crashed` and the
program ends, which is why the run has no deadlock check. Until then the four invariants
hold; `SignalReachesAll` is about the loops over a signal's sources that come to their end.
What the comments promise beyond that is `SafeRemoval`, `DispatchedWhenFired` and
`OnlyDueAreCalled` in the same module, all violated (section 11).

`GeneratorProofs`: `PhaseDone` (`[]PhaseIsComplete`, `unheard` excepted as above) and
`NothingRedone` (`FinishedStays`), for any number of kills. The markers are those of the
first filters of the phase, however runs ended (`AtInv`), and an output whose filters
all have markers was written last by the last of them (`DoneInv`).

`EventLoopProofs`, for any sets of timers, watchers, signals and files, any number of
calls and any clock: `MemorySafe`, `KnotesNameLive`, `ArmedInTime` and `AllHear`, which
state the four invariants of the run. One inductive invariant, `LoopInv`, serves all of
them: nothing in the batch or among the collected timers is freed, and both are empty
outside the loops that go through them (`KeptInv`); a signal's knote is there exactly as
long as the list has a source of it, and names one; the knote of the timers is in time
for the earliest deadline, unless `set_timer` failed; in the loop over a signal's
sources those that are still to be called lie ahead in the list (`SignalInv`), unless
the next one was removed, after which the loop comes to no end; this needs that
callbacks put sources at the head of the list and take them off it but never reorder it.
`GetsDone` and `TimersComeDue` are liveness and stay with TLC.

## 11. What disagreed with the code

| run | what |
|---|---|
| `fetch_emptied` | portsnap.sh:578, 713-719 never fetch an INDEX file whose predecessor is missing |
| `merge_pruned` | prune.sh:100-107 takes from DPORTS, as deleted by FreeBSD, what generate_ports_INDEX.sh:15-20 could not describe |

Five properties that the modules define say what the code's own comments say, are violated,
and have no run of their own; naming one in the .cfg of the component's run shows it:

| property | what |
|---|---|
| `CommitsWork` (`CommitQueue`) | dports-daemon.sh:4, "It wakes up every 30 seconds and commits work": an entry that a second build queues between the `git add` and the `rm` of the first one's is removed by that `rm` (59, 65, 82, 88), and the second build is not committed until the port is built again |
| `ChunksAreRead` (`Phttpget`) | phttpget.c:476-481 counts on chunks to tell a body's length: of several the first is saved for the whole (635, section 7) |
| `SafeRemoval` (`EventLoop`) | patch-src_event-loop.c:414-417 has the _safe form of the loop for callbacks that remove sources: one that removes the next source leaves the loop a link that is cleared (418) |
| `DispatchedWhenFired` (`EventLoop`) | 386-388, "dispatches them all when the signal fires": when the source that the signal's event names is removed earlier in the same batch, the others of that signal are not called (720) |
| `OnlyDueAreCalled` (`EventLoop`) | 326-331, the root of the heap is known to be due: when the earlier of two timers is stopped the knote keeps its time, and the other one is called early (332) |

Also seen, without a run of their own. In the queue and the trees it serves:

- an import whose `git add` failed is dropped: dports-daemon.sh:75 tests the result of an
  assignment, not of `git add`;
- a queue entry read before it is filled makes the daemon commit everything staged,
  half-copied directories included (pkgbuild.sh:94, dports-daemon.sh:67, 80);
- a hook killed between changing the tree and writing the entry leaves the change
  uncommitted until the next build; the hook publishes what POTENTIAL holds when a build
  ends, which need not be what was built (pkgbuild.sh:88);
- pkgbuild.sh:51 and 103 drop the word MASK; six STATUS files of `ports/` begin with the
  empty line this leaves, for one ports/www/zenphoto/STATUS (the top-level README.md, at
  line 42, lists MASK among the words a STATUS may begin with);
- an unfinished merge makes every commit of a path and every pull fail until a person
  finishes it; a blank entry or prune.sh's commit of DPORTS can conclude the merge with
  the markers in the files once `git add` has settled them; prune.sh:136 commits ".", a
  half-written STATUS included; an entry whose port prune.sh removed is never committed
  and never removed.

In merge.sh and its neighbours:

- merge.sh killed after line 111 leaves an empty entry, which is skipped once that version
  has been attempted;
- sync1.sh leaves the entry of MERGED when it masks a port (sync1.sh:158, 167).

In portsnap extract and update:

- a tar that fails before the last line is not noticed (899, 908, 969), and
  .portsnap.INDEX is then written as if it had worked: nothing unpacks that port again;
- a fetch between the pipelines of an update makes .portsnap.INDEX name ports that were
  not extracted (981);
- an update killed after its removals, followed by a snapshot in which the port is as it
  was before, ends in "Ports tree is already up to date." with the port missing; so does
  an extract over an up-to-date tree that is killed;
- extract leaves ports in the tree that INDEX no longer names and forgets them.

In the new generator:

- `err` exits with `$exitval`, which nothing sets, so a failed run ends with status 0
  (gen.subr:36); "not executable, skipping" stops the run;
- a ports tree half extracted is taken for whole in every later run; the filters of Mk,
  Templates and Tools ignore a `cp` that fails; a phase that is done is never run again
  on newer sources.

In the event loop:

- set_timer arms nothing when the deadline has come meanwhile (208): the timer waits for
  some other event, and in a dispatch the timers already taken off the heap, and the rest
  of the batch, are dropped (346);
- fd_update never takes a filter away (172-228).

## 12. Not modelled

- portsnap's command line, configuration and cron's random sleep: parameters without
  state of their own.
- The copying of Mk, Templates, Tools and the like by `merge-mk.sh` and the second half of
  `merge.sh`: straight-line, with one writer; the new generator's filters do the same with
  markers and are modelled.
- Lists and reports are read by people only; `refresh-special-mk-diff.sh`, `synclog.py`
  and `share-mk` keep nothing that another part reads.
- `ports/` and `special/`: by far the largest part of the repository, they are data, patches
  to other projects' programs (gdb and kgdb, weston, psutil, ...) that can only be
  understood within those programs. The exception is the wayland loop; its idle and check
  sources and the inside of the timer heap are upstream's and modelled by what the patch
  relies on.
- In the modules themselves: the bytes of messages and files, two of merge.sh and sync1.sh
  at once, and a person's `git merge --abort`, which would throw staged builds away.
- poudriere, git, make and the FreeBSD servers are modelled only by what the scripts see
  of them.

## 13. Running it

    tlc -workers 2 -config CommitQueue.cfg MCLedger
    tlapm CommitQueueProofs.tla

and likewise for the other seven modules named `...Proofs`.

The module of each run is in `PROJECT.json`; `repo_publish` and `fetch` take about two
and a half minutes each with two workers, `repo_prune`, `tree` and `queue` about one, the
others less.
