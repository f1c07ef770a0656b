------------------------------- MODULE PortsTree -------------------------------
(***************************************************************************)
(* portsnap extract and update: the ports tree made from the work          *)
(* directory of PortsnapFetch, and the record of it in .portsnap.INDEX.    *)
(*                                                                         *)
(* extract puts every port of INDEX into PORTSDIR, or only those under one *)
(* path; update takes away what .portsnap.INDEX lists and INDEX does not,  *)
(* and adds what INDEX lists and .portsnap.INDEX does not; both then write *)
(* .portsnap.INDEX anew.  There is no lock: portsnap cron may fetch while  *)
(* a tree is being updated, and INDEX is read again for every pipeline.    *)
(* A run can be killed between any two commands, and any tar can fail.     *)
(*                                                                         *)
(* tree[p] is the set of the versions whose files stand at p: v when all   *)
(* of them do, -v when only a part.                                        *)
(***************************************************************************)
EXTENDS PortsnapFetch

CONSTANTS
    Chosen,     \* the paths that extract is given one at a time
    MaxKill     \* bound: how many extracts and updates are killed

ASSUME TreeAssumption == Chosen \subseteq Path /\ MaxKill \in Nat

VARIABLES
    tree,       \* tree[p]: what ${PORTSDIR}/p holds
    record,     \* the lines of .portsnap.INDEX, or NoFile
    tpc,        \* the command the running extract or update does next
    todo,       \* the lines its while loop has still to read
    kills,      \* how many of them were killed
    outcome,    \* exit status of the last extract or update
    goal,       \* history: the INDEX that the tree is being taken to, or NoFile
    loose       \* history: the paths that the scripts have lost sight of

treevars == <<tree, record, tpc, todo, kills, outcome, goal, loose>>
fetchvars == <<files, dir, tag, index, tindex, pc, target, newindex, patchlist,
               result, crashes, begun>>
allvars == <<files, dir, tag, index, tindex, pc, target, newindex, patchlist,
             result, crashes, begun, tree, record, tpc, todo, kills, outcome, goal,
             loose>>

TreeTypeOK ==
    /\ tree \in [Path -> SUBSET (Version \cup {-v : v \in Version})]
    /\ record \in (SUBSET Line) \cup {NoFile}
    /\ tpc \in {"idle", "extract", "remove", "list", "install", "metadata",
                "indices"}
    /\ todo \subseteq Line
    /\ kills \in 0..MaxKill
    /\ outcome \in {"none", "ok", "failed"}
    /\ goal \in (SUBSET Line) \cup {NoFile}
    /\ loose \subseteq Path

TreeInit ==
    /\ Init
    /\ tree = [p \in Path |-> {}]
    /\ record = NoFile
    /\ tpc = "idle"
    /\ todo = {}
    /\ kills = 0
    /\ outcome = "none"
    /\ goal = NoFile
    /\ loose = {}

Names(lines) == {l[1] : l \in lines}
Offered(lines) == {l \in lines : l[1] \notin Refuse}

TGo(from, to) == tpc = from /\ tpc' = to
TReturn(from, how) == TGo(from, "idle") /\ outcome' = how /\ todo' = {}

\* What INDEX has changed since the goal was read is neither the one nor the
\* other in the tree.
Strayed(lines) ==
    IF goal = NoFile THEN {} ELSE Names((goal \ lines) \cup (lines \ goal))

-----------------------------------------------------------------------------
(* extract_run *)

\* Whatever INDEX does not name is left in the tree and not recorded.
ExtractRun ==
    /\ Ready
    /\ TGo("idle", IF Offered(index) = {} THEN "metadata" ELSE "extract")
    /\ todo' = Offered(index)
    /\ goal' = index
    /\ loose' = loose \cup Strayed(index)
                  \cup {p \in Path \ Names(index) : tree[p] # {}}
    /\ outcome' = "none"
    /\ UNCHANGED <<fetchvars, kills, tree, record>>

\* extract path, the whole of it: one directory is put in place, or cut short,
\* and .portsnap.INDEX does not hear of it.
ExtractPath(l) ==
    /\ Ready
    /\ TGo("idle", "idle")
    /\ l \in index /\ l[1] \in Chosen
    /\ Exists(l)
    /\ \E left \in {{}, {-l[2]}, {l[2]}} :
          /\ left = {l[2]} => files[l] = "whole"
          /\ tree' = [tree EXCEPT ![l[1]] = left]
          /\ loose' = IF l \in record /\ left = {l[2]} THEN loose
                                                      ELSE loose \cup {l[1]}
    /\ outcome' = "none"
    /\ UNCHANGED <<fetchvars, kills, record, todo, goal>>

\* One turn of a while loop whose tar works.
Turn(loop, l) ==
    /\ tpc = loop
    /\ l \in todo
    /\ files[l] = "whole"
    /\ todo' = todo \ {l}
    /\ tpc' = IF todo = {l} THEN "metadata" ELSE loop

\* rm -rf of the old directory, mkdir -p and tar.
Extract(l) ==
    /\ Turn("extract", l)
    /\ tree' = [tree EXCEPT ![l[1]] = {l[2]}]
    /\ loose' = loose \ {l[1]}
    /\ UNCHANGED <<fetchvars, kills, record, outcome, goal>>

Loops == {"extract", "install"}

\* "files/${HASH}.gz not found -- snapshot corrupt": the loop returns 1.
NotFound(loop, l) ==
    /\ tpc = loop
    /\ l \in todo
    /\ ~Exists(l)
    /\ TReturn(loop, "failed")
    /\ UNCHANGED <<fetchvars, kills, tree, record, goal, loose>>

\* What a tar that is cut short leaves: extract has removed the old directory.
CutShort(loop, l) ==
    IF loop = "install" THEN {(tree[l[1]] \ {l[2]}) \cup {-l[2]}}
                        ELSE {{}, {-l[2]}}

\* tar stops half way.  The loop takes its status from the last command of the
\* last turn: of all the others nobody hears.
TarFails(loop, l) ==
    /\ tpc = loop
    /\ l \in todo
    /\ Exists(l)
    /\ \E left \in CutShort(loop, l) : tree' = [tree EXCEPT ![l[1]] = left]
    /\ IF todo = {l}
         THEN TReturn(loop, "failed")
         ELSE TGo(loop, loop) /\ todo' = todo \ {l} /\ UNCHANGED outcome
    /\ loose' = IF todo = {l} THEN loose \cup Names({l} \cap record)
                              ELSE loose \cup {l[1]}
    /\ UNCHANGED <<fetchvars, kills, record, goal>>

-----------------------------------------------------------------------------
(* update_run *)

\* cmp of INDEX and .portsnap.INDEX.
UpdateRun ==
    /\ Ready
    /\ record # NoFile
    /\ IF record = index
         THEN TReturn("idle", "ok")
         ELSE TGo("idle", "remove") /\ outcome' = "none" /\ UNCHANGED todo
    /\ goal' = IF record = index THEN goal ELSE index
    /\ loose' = loose \cup Strayed(index)
    /\ UNCHANGED <<fetchvars, kills, tree, record>>

\* Mutant: only what INDEX no longer names is removed, not what it renews.
Outdated_Deleted == Names(Offered(record)) \ Names(index)

\* comm -23 .portsnap.INDEX INDEX
Outdated == Names(Offered(record \ index))

Cleared(gone) == [p \in Path |-> IF p \in gone THEN {} ELSE tree[p]]

\* What is removed is extracted afresh, if at all.
RemoveOutdated ==
    /\ TGo("remove", "list")
    /\ tree' = Cleared(Outdated)
    /\ goal' = index
    /\ loose' = (loose \ Outdated) \cup Strayed(index)
    /\ UNCHANGED <<fetchvars, kills, record, todo, outcome>>

\* comm -13 .portsnap.INDEX INDEX
Fresh == Offered(index) \ record

\* extract_metadata: lines of REFUSE are kept from the old .portsnap.INDEX.
NewRecord ==
    Offered(index)
      \cup (IF record = NoFile THEN {} ELSE {l \in record : l[1] \in Refuse})

\* Mutant: .portsnap.INDEX is written first.
ListFresh_RecordsFirst ==
    /\ TGo("list", IF Fresh = {} THEN "metadata" ELSE "install")
    /\ todo' = Fresh
    /\ record' = NewRecord
    /\ goal' = index
    /\ loose' = loose \cup Strayed(index)
    /\ UNCHANGED <<fetchvars, kills, tree, outcome>>

ListFresh ==
    /\ TGo("list", IF Fresh = {} THEN "metadata" ELSE "install")
    /\ todo' = Fresh
    /\ goal' = index
    /\ loose' = loose \cup Strayed(index)
    /\ UNCHANGED <<fetchvars, kills, tree, record, outcome>>

\* tar only, over what is there.
Install(l) ==
    /\ Turn("install", l)
    /\ tree' = [tree EXCEPT ![l[1]] = (@ \ {-l[2]}) \cup {l[2]}]
    /\ UNCHANGED <<fetchvars, kills, record, outcome, goal, loose>>

-----------------------------------------------------------------------------
(* What extract and update end with. *)

ExtractMetadata ==
    /\ TGo("metadata", "indices")
    /\ record' = NewRecord
    /\ goal' = NoFile
    /\ loose' = loose \cup Strayed(index)
    /\ UNCHANGED <<fetchvars, kills, tree, todo, outcome>>

\* make_index makes the INDEX files of the tree, or fails.
ExtractIndices ==
    /\ \E how \in {"ok", "failed"} : TReturn("indices", how)
    /\ UNCHANGED <<fetchvars, kills, tree, record, goal, loose>>

TreeKilled(at) ==
    /\ kills < MaxKill
    /\ kills' = kills + 1
    /\ TReturn(at, "none")
    /\ UNCHANGED <<fetchvars, goal>>

TreeCrash ==
    \/ /\ \E at \in {"list", "install", "extract", "metadata"} : TreeKilled(at)
       /\ UNCHANGED <<tree, record, loose>>
    \/ /\ TreeKilled("remove")
       /\ \E gone \in SUBSET Outdated : tree' = Cleared(gone)
       /\ loose' = loose \cup Strayed(index)
       /\ UNCHANGED record

\* Inside tar, and inside the sort that writes .portsnap.INDEX.
TreeCrashInWrite ==
    \/ /\ \E loop \in Loops : TreeKilled(loop)
       /\ \E l \in todo :
             /\ \E left \in CutShort(tpc, l) : tree' = [tree EXCEPT ![l[1]] = left]
             /\ loose' = loose \cup Names({l} \cap record)
       /\ UNCHANGED record
    \/ /\ TreeKilled("metadata")
       /\ \E lines \in SUBSET NewRecord : record' = lines
       /\ loose' = loose \cup Strayed(index)
       /\ UNCHANGED tree

-----------------------------------------------------------------------------

TreeStep ==
    \/ ExtractRun \/ UpdateRun
    \/ \E l \in Line : ExtractPath(l) \/ Extract(l) \/ Install(l)
    \/ \E loop \in Loops, l \in Line : NotFound(loop, l) \/ TarFails(loop, l)
    \/ RemoveOutdated \/ ListFresh \/ ExtractMetadata \/ ExtractIndices

FetchNext == Next /\ UNCHANGED treevars

TreeNext == FetchNext \/ TreeStep \/ TreeCrash \/ TreeCrashInWrite

TreeSpec == TreeInit /\ [][TreeNext]_allvars

\* What the network, the disk and the server do to a run.
Trouble ==
    \/ FetchFails
    \/ SomeFiles /\ pc' = "idle"
    \/ \E s \in 1..(Len(History) - 1) : SnapshotTag(s) \/ UpdateTag(s)
    \/ \E loop \in Loops, l \in todo : TarFails(loop, l)
    \/ tpc = "indices" /\ outcome' = "failed"

\* portsnap is run again and again, an interrupted extract too, and from some
\* time on there is no more trouble.
TreeFairness ==
    /\ WF_vars(Step)
    /\ SF_allvars(UpdateRun \/ (record = NoFile /\ ExtractRun))
    /\ WF_allvars(TreeStep /\ tpc # "idle")
    /\ <>[][~Trouble]_allvars

FairTreeSpec == TreeSpec /\ TreeFairness

-----------------------------------------------------------------------------
(* Properties. *)

Listed(lines, p) == {l[2] : l \in {k \in lines : k[1] = p}}

\* After an extract or update that reports success the tree holds what
\* .portsnap.INDEX says, and update left nothing else in it, whatever killed the
\* runs before.  Not so, and the scripts cannot know: where tar failed before
\* the last line, where INDEX was changed under a run or after one that did not
\* finish, and where extract went over a tree and left something out, or did not
\* finish: there portsnap.sh's "Ports tree is already up to date." may be untrue.
TreeAgrees ==
    /\ TreeTypeOK
    /\ outcome = "ok" => \A p \in Path \ (Refuse \cup loose) : tree[p] = Listed(record, p)

\* Fetch and update repeated bring the tree to the newest snapshot.
TreeCatchesUp ==
    []<>(NoneShort => \A p \in Path \ (Refuse \cup loose) :
                         tree[p] = Listed(History[Len(History)], p))
=============================================================================
