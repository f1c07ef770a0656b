----------------------------- MODULE PortsnapFetch -----------------------------
(***************************************************************************)
(* The work directory of scripts/portsnap/portsnap/portsnap.sh and the     *)
(* fetch and cron commands that build and update it.                       *)
(*                                                                         *)
(* The server signs numbered snapshots.  A tag names one by date and hash; *)
(* the metadata tINDEX names the file that holds the snapshot's INDEX; the *)
(* INDEX names one file for each port; every named file is kept compressed *)
(* as files/<hash>.gz.  fetch_snapshot builds all of that from a tarball,  *)
(* fetch_update takes it to a later snapshot with patches and single       *)
(* files.  Mirrors lag: any signed snapshot may be the "latest" one served.*)
(* A run can fail at any download, and be killed between any two commands. *)
(*                                                                         *)
(* A line of INDEX or tINDEX is a pair <<name, version>>, which stands for *)
(* the hash in it; a file is the line that names it.                       *)
(***************************************************************************)
EXTENDS Integers, Sequences

CONSTANTS
    Path,       \* names in INDEX
    Version,    \* versions of their contents
    History,    \* History[s]: the lines of INDEX of snapshot s
    Refuse,     \* the paths REFUSE matches
    MaxCrash,   \* bound: how many runs are killed
    TornGzip    \* may a run be killed inside gzip -n files/${Y}?

ASSUME HistoryAssumption ==
    /\ History \in Seq(SUBSET (Path \X Version))
    /\ \A s \in DOMAIN History : \A k, l \in History[s] : k[1] = l[1] => k = l
ASSUME PathAssumption == Path \cap {"INDEX", "none"} = {} /\ Refuse \subseteq Path
ASSUME CrashAssumption == MaxCrash \in Nat /\ TornGzip \in BOOLEAN

Snapshot == DOMAIN History

\* SNAPSHOTHASH: two snapshots with the same contents have the same.
Hash(s) == CHOOSE r \in Snapshot :
              History[r] = History[s] /\ \A q \in 1..(r - 1) : History[q] # History[s]

TIndex(s) == {<<"INDEX", Hash(s)>>}

Line == (Path \X Version) \cup ({"INDEX"} \X Snapshot)
NoTag == 0
NoFile == {<<"none", 0>>}     \* an INDEX or tINDEX that does not exist

VARIABLES
    files,      \* files[l]: the state of files/<hash of l>.gz
    dir,        \* does the directory files exist?
    tag,        \* the snapshot the file tag names, or NoTag
    index,      \* the lines of INDEX, or NoFile
    tindex,     \* the lines of tINDEX, or NoFile
    pc,         \* the command the running portsnap does next
    target,     \* tag.new and tINDEX.new: the snapshot being fetched
    newindex,   \* INDEX.new
    patchlist,  \* the lines that patches are asked for
    result,     \* exit status of the last run
    crashes,    \* how many runs were killed
    begun       \* history: the snapshots and INDEXes that clean-ups were to leave
                \* which were begun, and not finished before another was

disk == <<files, dir, tag, index, tindex>>
run == <<target, newindex, patchlist>>
vars == <<files, dir, tag, index, tindex, pc, target, newindex, patchlist,
          result, crashes, begun>>

TypeOK ==
    /\ files \in [Line -> {"none", "short", "whole"}]
    /\ dir \in BOOLEAN
    /\ tag \in Snapshot \cup {NoTag}
    /\ index \in (SUBSET Line) \cup {NoFile}
    /\ tindex \in (SUBSET Line) \cup {NoFile}
    /\ pc \in {"idle", "snapshot_tag", "tarball", "rm_tag", "rm_INDEX",
               "rm_tINDEX", "rm_files", "mv_tag.new", "mv_tINDEX.new",
               "mv_INDEX.new", "mv_snap", "update_tag", "meta_patch",
               "meta_fetch", "index", "patch", "fetch", "remove", "mv_INDEX",
               "mv_tINDEX", "mv_tag"}
    /\ target \in Snapshot \cup {NoTag}
    /\ newindex \subseteq Line
    /\ patchlist \subseteq Line
    /\ result \in {"none", "ok", "failed"}
    /\ crashes \in 0..MaxCrash
    /\ begun \subseteq Snapshot \X SUBSET Line

Init ==
    /\ files = [l \in Line |-> "none"]
    /\ dir = FALSE
    /\ tag = NoTag
    /\ index = NoFile
    /\ tindex = NoFile
    /\ pc = "idle"
    /\ target = NoTag
    /\ newindex = {}
    /\ patchlist = {}
    /\ result = "none"
    /\ crashes = 0
    /\ begun = {}

Go(from, to) == pc = from /\ pc' = to
Forget == target' = NoTag /\ newindex' = {} /\ patchlist' = {}
Return(from, how) == Go(from, "idle") /\ result' = how /\ Forget

Store(kept) == [l \in Line |-> IF l \in kept THEN "whole" ELSE files[l]]

-----------------------------------------------------------------------------
(* fetch_run *)

\* Mutant: the directory files is not tested.
Ready_NoDir == tag # NoTag /\ index # NoFile /\ tindex # NoFile

Ready == dir /\ tag # NoTag /\ index # NoFile /\ tindex # NoFile

FetchRun ==
    /\ Go("idle", IF Ready THEN "update_tag" ELSE "snapshot_tag")
    /\ result' = "none"
    /\ UNCHANGED <<disk, run, crashes, begun>>

\* A download fails on every mirror, or a signature or a hash is wrong.
FetchFails ==
    /\ \E at \in {"snapshot_tag", "tarball", "update_tag", "meta_patch"} :
          Return(at, "failed")
    /\ UNCHANGED <<disk, crashes, begun>>

-----------------------------------------------------------------------------
(* fetch_snapshot *)

SnapshotTag(s) ==
    /\ Go("snapshot_tag", "tarball")
    /\ target' = s
    /\ UNCHANGED <<disk, newindex, patchlist, result, crashes, begun>>

\* The tarball is extracted to snap/ and all of it verified there.
SnapshotTarball ==
    /\ Go("tarball", "rm_tag")
    /\ newindex' = History[target]
    /\ UNCHANGED <<disk, target, patchlist, result, crashes, begun>>

RemoveTag ==
    /\ Go("rm_tag", "rm_INDEX")
    /\ tag' = NoTag
    /\ UNCHANGED <<files, dir, index, tindex, run, result, crashes, begun>>

RemoveIndex ==
    /\ Go("rm_INDEX", "rm_tINDEX")
    /\ index' = NoFile
    /\ UNCHANGED <<files, dir, tag, tindex, run, result, crashes, begun>>

RemoveTIndex ==
    /\ Go("rm_tINDEX", "rm_files")
    /\ tindex' = NoFile
    /\ UNCHANGED <<files, dir, tag, index, run, result, crashes, begun>>

RemoveFiles ==
    /\ Go("rm_files", "mv_tag.new")
    /\ files' = [l \in Line |-> "none"]
    /\ dir' = FALSE
    /\ UNCHANGED <<tag, index, tindex, run, result, crashes, begun>>

InstallTag ==
    /\ Go("mv_tag.new", "mv_tINDEX.new")
    /\ tag' = target
    /\ UNCHANGED <<files, dir, index, tindex, run, result, crashes, begun>>

InstallTIndex ==
    /\ Go("mv_tINDEX.new", "mv_INDEX.new")
    /\ tindex' = TIndex(target)
    /\ UNCHANGED <<files, dir, tag, index, run, result, crashes, begun>>

InstallIndex ==
    /\ Go("mv_INDEX.new", "mv_snap")
    /\ index' = newindex
    /\ UNCHANGED <<files, dir, tag, tindex, run, result, crashes, begun>>

\* fetch_run goes on with fetch_update.
InstallFiles ==
    /\ Go("mv_snap", "update_tag")
    /\ dir' = TRUE
    /\ files' = Store(TIndex(target) \cup newindex)
    /\ UNCHANGED <<tag, index, tindex, run, result, crashes, begun>>

FetchSnapshot ==
    \/ \E s \in Snapshot : SnapshotTag(s)
    \/ SnapshotTarball
    \/ RemoveTag \/ RemoveIndex \/ RemoveTIndex \/ RemoveFiles
    \/ InstallTag \/ InstallTIndex \/ InstallIndex \/ InstallFiles

-----------------------------------------------------------------------------
(* fetch_update *)

\* Mutant: the dates are not compared.
UpdateTag_AnyDate(s) ==
    /\ pc = "update_tag"
    /\ IF Hash(s) = Hash(tag)
         THEN Return("update_tag", "ok")
         ELSE /\ Go("update_tag", "meta_patch")
              /\ target' = s
              /\ UNCHANGED <<newindex, patchlist, result>>
    /\ UNCHANGED <<disk, crashes, begun>>

\* fetch_update_tagsanity and fetch_update_neededp
UpdateTag(s) ==
    /\ pc = "update_tag"
    /\ IF s < tag
         THEN Return("update_tag", "failed")
         ELSE IF s = tag \/ Hash(s) = Hash(tag)
           THEN Return("update_tag", "ok")
           ELSE /\ Go("update_tag", "meta_patch")
                /\ target' = s
                /\ UNCHANGED <<newindex, patchlist, result>>
    /\ UNCHANGED <<disk, crashes, begun>>

Exists(l) == files[l] # "none"

\* fetch_make_patchlist: names in both lists whose old file is there and whose
\* new file is not.
Patches(old, new) ==
    {l \in new : /\ ~Exists(l)
                 /\ \E k \in old : k[1] = l[1] /\ k # l /\ Exists(k)}

\* A patch can only make the right file out of a whole old one.
Patchable(old, new) ==
    {l \in Patches(old, new) : \E k \in old : k[1] = l[1] /\ files[k] = "whole"}

\* Mutant: a file whose patch was not applied is not asked for again.
Missing_NewOnly(old, new) ==
    {l \in new : ~Exists(l) /\ \A k \in old : k[1] # l[1]}

\* filelist: what is new, and what its patch did not make.
Missing(old, new) ==
    {l \in new : /\ ~Exists(l)
                 /\ l \in patchlist \/ \A k \in old : k[1] # l[1]}

MetaPatch(made) ==
    /\ Go("meta_patch", "meta_fetch")
    /\ made \subseteq Patchable(tindex, TIndex(target))
    /\ patchlist' = Patches(tindex, TIndex(target))
    /\ files' = Store(made)
    /\ UNCHANGED <<dir, tag, index, tindex, target, newindex, result, crashes, begun>>

\* Mutant: the metadata files are not checked.
MetaFetch_Unchecked(got) ==
    /\ Go("meta_fetch", "index")
    /\ got \subseteq Missing(tindex, TIndex(target))
    /\ files' = Store(got)
    /\ UNCHANGED <<dir, tag, index, tindex, run, result, crashes, begun>>

\* What was downloaded and has the right hash is kept even if the run fails.
MetaFetch(got) ==
    /\ pc = "meta_fetch"
    /\ got \subseteq Missing(tindex, TIndex(target))
    /\ files' = Store(got)
    /\ IF got = Missing(tindex, TIndex(target))
         THEN Go("meta_fetch", "index") /\ UNCHANGED <<run, result>>
         ELSE Return("meta_fetch", "failed")
    /\ UNCHANGED <<dir, tag, index, tindex, crashes, begun>>

\* gunzip of the INDEX file: nothing if there is none, its beginning if it is
\* short, and neither is an error.  Lines that REFUSE matches stay as they are.
ReadIndex ==
    /\ Go("index", "patch")
    /\ \E l \in TIndex(target), lines \in SUBSET History[target] :
          /\ files[l] = "whole" => lines = History[target]
          /\ files[l] = "none" => lines = {}
          /\ newindex' = {k \in lines : k[1] \notin Refuse}
                           \cup {k \in index : k[1] \in Refuse}
    /\ UNCHANGED <<disk, target, patchlist, result, crashes, begun>>

\* fetch_index_sanity sees a line that was cut short.
ReadIndexFails ==
    /\ Return("index", "failed")
    /\ \E l \in TIndex(target) : files[l] = "short"
    /\ UNCHANGED <<disk, crashes, begun>>

Patch(made) ==
    /\ Go("patch", "fetch")
    /\ made \subseteq Patchable(index, newindex)
    /\ patchlist' = Patches(index, newindex)
    /\ files' = Store(made)
    /\ UNCHANGED <<dir, tag, index, tindex, target, newindex, result, crashes, begun>>

Fetch(got) ==
    /\ pc = "fetch"
    /\ got \subseteq Missing(index, newindex)
    /\ files' = Store(got)
    /\ IF got = Missing(index, newindex)
         THEN Go("fetch", "remove") /\ UNCHANGED <<run, result>>
         ELSE Return("fetch", "failed")
    /\ UNCHANGED <<dir, tag, index, tindex, crashes, begun>>

\* Mutant: what REFUSE keeps in INDEX is not counted as needed.
OldFiles_NoRefuse ==
    (tindex \cup index) \ (TIndex(target) \cup History[target])

OldFiles == (tindex \cup index) \ (TIndex(target) \cup newindex)

Without(gone) == [l \in Line |-> IF l \in gone THEN "none" ELSE files[l]]

\* The snapshot and the INDEX that are to be left.
Aim == <<Hash(target), newindex>>

RemoveOld ==
    /\ Go("remove", "mv_INDEX")
    /\ files' = Without(OldFiles)
    /\ begun' = begun \cup {Aim}
    /\ UNCHANGED <<dir, tag, index, tindex, run, result, crashes>>

UpdateIndex ==
    /\ Go("mv_INDEX", "mv_tINDEX")
    /\ index' = newindex
    /\ UNCHANGED <<files, dir, tag, tindex, run, result, crashes, begun>>

UpdateTIndex ==
    /\ Go("mv_tINDEX", "mv_tag")
    /\ tindex' = TIndex(target)
    /\ UNCHANGED <<files, dir, tag, index, run, result, crashes, begun>>

UpdateDone ==
    /\ tag' = target
    /\ Return("mv_tag", "ok")
    /\ begun' = IF begun = {Aim} THEN {} ELSE begun
    /\ UNCHANGED <<files, dir, index, tindex, crashes>>

SomePatches ==
    \/ /\ pc = "meta_patch"
       /\ \E made \in SUBSET Patchable(tindex, TIndex(target)) : MetaPatch(made)
    \/ /\ pc = "patch"
       /\ \E made \in SUBSET Patchable(index, newindex) : Patch(made)

SomeFiles ==
    \/ /\ pc = "meta_fetch"
       /\ \E got \in SUBSET Missing(tindex, TIndex(target)) : MetaFetch(got)
    \/ /\ pc = "fetch"
       /\ \E got \in SUBSET Missing(index, newindex) : Fetch(got)

FetchUpdate ==
    \/ \E s \in Snapshot : UpdateTag(s)
    \/ SomePatches \/ SomeFiles
    \/ ReadIndex \/ ReadIndexFails
    \/ RemoveOld \/ UpdateIndex \/ UpdateTIndex \/ UpdateDone

-----------------------------------------------------------------------------
(* Runs that are killed.  The next run finds the disk as they left it. *)

Killed(at) ==
    /\ crashes < MaxCrash
    /\ crashes' = crashes + 1
    /\ Return(at, "none")

Crash ==
    /\ \E at \in {"rm_INDEX", "rm_tINDEX", "rm_files", "mv_tag.new",
                  "mv_tINDEX.new", "mv_INDEX.new", "mv_snap", "meta_fetch",
                  "index", "patch", "fetch", "remove", "mv_INDEX", "mv_tINDEX",
                  "mv_tag"} : Killed(at)
    /\ UNCHANGED <<disk, begun>>

\* Some of the files that rm is removing are gone.
CrashInRemove ==
    /\ \/ /\ Killed("rm_files")
          /\ \E gone \in SUBSET {l \in Line : Exists(l)} : files' = Without(gone)
          /\ UNCHANGED begun
       \/ /\ Killed("remove")
          /\ \E gone \in SUBSET OldFiles : files' = Without(gone)
          /\ begun' = begun \cup {Aim}
    /\ UNCHANGED <<dir, tag, index, tindex>>

\* gzip has begun to write files/<hash>.gz.
CrashInGzip ==
    /\ TornGzip
    /\ \E l \in Line :
          /\ \/ Killed("meta_patch") /\ l \in Patchable(tindex, TIndex(target))
             \/ Killed("patch") /\ l \in Patchable(index, newindex)
          /\ files' = [files EXCEPT ![l] = "short"]
    /\ UNCHANGED <<dir, tag, index, tindex, begun>>

Step == FetchRun \/ FetchFails \/ FetchSnapshot \/ FetchUpdate

Next == Step \/ Crash \/ CrashInRemove \/ CrashInGzip

Spec == Init /\ [][Next]_vars

\* portsnap is run again and again (cron); every download succeeds and every
\* published snapshot is served now and then.
Fairness ==
    /\ WF_vars(Step)
    /\ \A s \in Snapshot : SF_vars(SnapshotTag(s)) /\ SF_vars(UpdateTag(s))
    /\ SF_vars(SnapshotTarball)
    /\ SF_vars(SomePatches)
    /\ SF_vars(MetaFetch(Missing(tindex, TIndex(target))))
    /\ SF_vars(Fetch(Missing(index, newindex)))

FairSpec == Spec /\ Fairness

-----------------------------------------------------------------------------
(* Properties. *)

Whole(lines) == \A l \in lines : files[l] = "whole"

\* A run that reports success leaves every file that INDEX and tINDEX name, and
\* an INDEX that names what the tagged snapshot holds, refused paths aside
\* (portsnap.sh "we should always have a "complete snapshot" of the ports
\* tree").
CompleteSnapshot ==
    result = "ok" =>
      /\ Whole(index) /\ Whole(tindex)
      /\ \A l \in Path \X Version :
            l[1] \notin Refuse => (l \in index <=> l \in History[tag])

\* No gzip was killed half way: the one damage the scripts never repair.
NoneShort == \A l \in Line : files[l] # "short"

\* The same whatever killed the runs before, and however many, where what a
\* clean-up has begun is finished before another begins: when a run is through
\* that is served the same snapshot and reads the same INDEX as the one that was
\* killed, all is well (the order of the commands of fetch_snapshot and the -d
\* files -a -r tag test of fetch_run; the order of fetch_update and its -f tests),
\* short files aside.  Where another snapshot is served in between, what
\* IndexNeverEmptied rules out can happen.
CompleteWhenResumed ==
    /\ TypeOK
    /\ begun = {} /\ NoneShort => CompleteSnapshot

\* A fetch that reports success never leaves an INDEX without any port, unless
\* the server published one (the same comment; portsnap update would take away
\* the whole ports tree).
IndexNeverEmptied ==
    result = "ok" /\ NoneShort => index # {} \/ \E s \in Snapshot : History[s] = {}

\* INDEX is never taken back from what a snapshot was the first to hold to an
\* earlier one, refused paths aside (fetch_update_tagsanity "Cowardly refusing to
\* downgrade").
SameOffer(k, l) == \A m \in (k \ l) \cup (l \ k) : m[1] \in Refuse

FirstToOffer(r, lines) ==
    /\ SameOffer(lines, History[r])
    /\ \A q \in 1..(r - 1) : ~SameOffer(lines, History[q])

NeverDowngrades ==
    [][\A r \in Snapshot :
          index # NoFile /\ index' # index /\ index' # NoFile /\ FirstToOffer(r, index)
            => \E s \in r..Len(History) : SameOffer(index', History[s])]_vars

\* Runs repeated for as long as the server publishes nothing new end up with the
\* newest snapshot, complete.
CatchesUp ==
    \/ <>[](/\ Ready /\ Hash(tag) = Hash(Len(History))
            /\ Whole(index) /\ Whole(tindex) /\ index = History[tag])
    \/ <>[]~NoneShort
=============================================================================
