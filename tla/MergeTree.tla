------------------------------- MODULE MergeTree -------------------------------
(***************************************************************************)
(* The trees a port goes through before it is published, and the scripts   *)
(* that move it: generator/merge.sh (FPORTS + DELTA = MERGED, all ports),  *)
(* generator/sync1.sh (the same for one port, into POTENTIAL and MERGED),  *)
(* the builder and its hook (POTENTIAL to DPORTS and STATUS) and           *)
(* generator/prune.sh.  The FreeBSD ports change, and people edit DELTA,   *)
(* at any time.                                                            *)
(*                                                                         *)
(* A tree holds pieces: a version of a FreeBSD port, a revision of the     *)
(* port's overlay (Makefile.DragonFly, dragonfly, diffs) or of its         *)
(* newport.  WORKAREA is one tree that all ports go through.               *)
(***************************************************************************)
EXTENDS Integers, FiniteSets

CONSTANTS
    Port,
    Legacy,         \* ports whose Makefile mentions amd64 or libomp
    Active,         \* bound: the ports that change, are synced and are built
    MaxVersion,     \* bound: versions of a FreeBSD port
    MaxTrouble,     \* bound: edits of DELTA and scripts killed, together
    Chosen,         \* the first words of STATUS that people write
    Fragile,        \* ports whose "make describe" may fail
    Numeric         \* pairs of versions that awk takes for the same number

ASSUME BoundAssumption ==
    MaxVersion \in Nat \ {0} /\ MaxTrouble \in Nat
ASSUME PortAssumption == Legacy \subseteq Port /\ Active \subseteq Port /\ Fragile \subseteq Port
ASSUME SwitchAssumption ==
    /\ Chosen \subseteq {"PORT", "DPORT", "LOCK", "MASK"}
    /\ \A pair \in Numeric : pair \subseteq 0..(MaxVersion + MaxTrouble)

Gone == 0
Never == -1     \* the second line of STATUS names no version
Bare == -2      \* STATUS has no second line
Piece == {"ports"} \X Port \X (1..MaxVersion) \cup {"overlay", "newport"} \X Port \X (1..MaxTrouble)
NoTree == {<<>>}
IsTree(t) == t # NoTree

VARIABLES
    fports,     \* fports[p]: the version in FPORTS, or Gone
    index,      \* index[p]: the version in INDEX, or Gone
    kind,       \* kind[p]: first word of its STATUS, "empty" if that line is empty;
                \* "new": no STATUS in its directory; "none": no directory
    attempt,    \* attempt[p]: Last attempt in its STATUS, Never or Bare
    delta,      \* delta[p]: revisions of its overlay and its newport, 0 without one
    merged, potential, dports,  \* the trees, by port
    area,       \* WORKAREA
    prog,       \* the script that is running: "merge.sh", "sync1.sh" or "none"
    pc,         \* the command it runs next
    todo,       \* TMPFILE.final: the ports left, with their versions
    cur, how,   \* the port in hand and the way it is merged
    building,   \* building[p]: the tree being built, or NoTree
    fresh,      \* "reset": MERGED emptied; "merged": and a whole pass since
    passed,     \* was the last script a merge.sh that came to its end?
    changed,    \* ports that changed since it began
    turned,     \* ports whose STATUS was turned back into PORT since their entry
                \* of MERGED was made
    edits, crashes

sources == <<fports, index, kind, attempt, delta>>
trees == <<merged, potential, dports>>
script == <<prog, pc, todo, cur, how>>
history == <<fresh, passed, changed, turned>>
counts == <<edits, crashes>>
vars == <<fports, index, kind, attempt, delta, merged, potential, dports, area,
          prog, pc, todo, cur, how, building, fresh, passed, changed, turned, edits, crashes>>

Version == 0..MaxVersion
NoPort == <<>>

TypeOK ==
    /\ fports \in [Port -> Version] /\ index \in [Port -> Version]
    /\ kind \in [Port -> {"none", "new", "empty", "PORT", "DPORT", "LOCK", "MASK"}]
    /\ attempt \in [Port -> Bare..(MaxVersion + MaxTrouble)]
    /\ delta \in [Port -> [overlay : 0..MaxTrouble, newport : 0..MaxTrouble]]
    /\ \A tree \in {merged, potential, dports, building} :
          /\ DOMAIN tree = Port
          /\ \A p \in Port : tree[p] = NoTree \/ tree[p] \subseteq Piece
    /\ area \subseteq Piece
    /\ prog \in {"none", "merge.sh", "sync1.sh"}
    /\ pc \in {"idle", "next", "remove", "fill", "clear", "copy", "overlay", "install",
               "mirror"}
    /\ todo \subseteq Port \X Version
    /\ cur \in Port \cup {NoPort}
    /\ how \in {"none", "FAST", "PORT", "DPORT", "LOCK"}
    /\ fresh \in {"none", "reset", "merged"} /\ passed \in BOOLEAN
    /\ changed \subseteq Port /\ turned \subseteq Port
    /\ edits \in 0..MaxTrouble /\ crashes \in 0..MaxTrouble

\* Everything in FPORTS is in INDEX; nothing has been merged or edited yet.
Init ==
    /\ fports = [p \in Port |-> 1]
    /\ index = fports
    /\ kind = [p \in Port |-> "none"]
    /\ attempt = [p \in Port |-> Never]
    /\ delta = [p \in Port |-> [overlay |-> 0, newport |-> 0]]
    /\ merged = [p \in Port |-> NoTree]
    /\ potential = merged
    /\ dports = merged
    /\ area = {}
    /\ prog = "none" /\ pc = "idle" /\ todo = {} /\ cur = NoPort /\ how = "none"
    /\ building = merged
    /\ fresh = "reset" /\ passed = FALSE /\ changed = {} /\ turned = {}
    /\ edits = 0 /\ crashes = 0

-----------------------------------------------------------------------------
(* merge.sh and sync1.sh *)

Go(from, to) == pc = from /\ pc' = to

\* Mutant: ports that FreeBSD does not have are not looked for.
Lines_NoCustom == {l \in Port \X Version : l[2] = index[l[1]] /\ l[2] # Gone}

\* The lines of INDEX and the custom ports that are not in it.
Lines ==
    {l \in Port \X Version :
        \/ l[2] = index[l[1]] /\ l[2] # Gone
        \/ l[2] = 0 /\ index[l[1]] = Gone /\ kind[l[1]] \in {"DPORT", "LOCK"}}

\* WORKAREA is emptied unless a killed merge.sh has left it mounted.
StartMerge ==
    /\ Go("idle", "next")
    /\ prog' = "merge.sh"
    /\ todo' = Lines
    /\ area' \in {area, {}}
    /\ passed' = FALSE
    /\ changed' = {}
    /\ UNCHANGED <<sources, trees, cur, how, building, fresh, turned, counts>>

\* latt == $3: two versions that look like numbers are compared as numbers.
SameVersion(v, w) == v = w \/ {v, w} \in Numeric

\* Mutant: the merged entry need not exist.
Skip_Missing(p, v) ==
    \/ kind[p] = "LOCK"
    \/ kind[p] \in {"PORT", "DPORT"} /\ SameVersion(v, attempt[p])

\* ML = SKIP
Skip(p, v) ==
    /\ IsTree(merged[p])
    /\ \/ kind[p] = "LOCK"
       \/ kind[p] \in {"PORT", "DPORT"} /\ SameVersion(v, attempt[p])

\* The second argument of merge; a STATUS that is not there, or whose first
\* line is none of the known words, stands for PORT.
How(p) ==
    CASE kind[p] = "none" -> "FAST"
      [] kind[p] \in {"DPORT", "LOCK"} -> kind[p]
      [] OTHER -> "PORT"

\* merge.sh waits for the second line of STATUS to say DPORT.
MergedAs(p) == IF kind[p] = "DPORT" /\ attempt[p] = Bare THEN "PORT" ELSE How(p)

MergeLine(line) ==
    /\ pc = "next"
    /\ line \in todo
    /\ todo' = todo \ {line}
    /\ LET p == line[1] IN
         \/ /\ kind[p] = "MASK"
            /\ merged' = [merged EXCEPT ![p] = NoTree]
            /\ UNCHANGED <<pc, cur, how>>
         \/ /\ kind[p] # "MASK" /\ Skip(p, line[2])
            /\ UNCHANGED <<pc, cur, how, merged>>
         \/ /\ kind[p] # "MASK" /\ ~Skip(p, line[2])
            /\ cur' = p
            /\ how' = MergedAs(p)
            /\ pc' = "remove"
            /\ UNCHANGED merged
    /\ UNCHANGED <<sources, potential, dports, area, prog, building, history, counts>>

EndMerge ==
    /\ pc = "next"
    /\ todo = {}
    /\ pc' = "idle" /\ prog' = "none" /\ area' = {}
    /\ passed' = TRUE
    /\ fresh' = IF fresh = "reset" THEN "merged" ELSE fresh
    /\ UNCHANGED <<sources, trees, todo, cur, how, building, changed, turned, counts>>

StartSync(p) ==
    /\ pc = "idle"
    /\ prog' = "sync1.sh"
    /\ passed' = FALSE
    /\ cur' = p
    /\ IF kind[p] = "MASK"
         THEN /\ potential' = [potential EXCEPT ![p] = NoTree]
              /\ pc' = "mirror"
              /\ UNCHANGED how
         ELSE /\ how' = How(p)
              /\ pc' = "remove"
              /\ UNCHANGED potential
    /\ UNCHANGED <<sources, merged, dports, area, todo, building, fresh, changed, turned,
                   counts>>

\* M1, the tree that is being made
M1 == IF prog = "merge.sh" THEN merged[cur] ELSE potential[cur]

Make(tree) ==
    IF prog = "merge.sh"
      THEN merged' = [merged EXCEPT ![cur] = tree] /\ UNCHANGED <<potential, dports>>
      ELSE potential' = [potential EXCEPT ![cur] = tree] /\ UNCHANGED <<merged, dports>>

Made == IF prog = "merge.sh" THEN "next" ELSE "mirror"
Done ==
    /\ cur' = (IF prog = "merge.sh" THEN NoPort ELSE cur)
    /\ how' = "none"
    /\ turned' = IF prog = "merge.sh" /\ how \in {"FAST", "PORT"} THEN turned \ {cur} ELSE turned
    /\ UNCHANGED <<fresh, passed, changed>>

\* rm -rf ${M1}; mkdir -p ${M1}.  A locked port's directory is kept.
Remove ==
    /\ Go("remove", "fill")
    /\ Make(IF how = "LOCK" /\ IsTree(M1) THEN M1 ELSE {})
    /\ area' = IF prog = "sync1.sh" /\ how # "LOCK" THEN {} ELSE area
    /\ UNCHANGED <<sources, prog, todo, cur, how, building, history, counts>>

Overlaid == how = "PORT" /\ delta[cur].overlay # 0

FromPorts(p) == IF fports[p] = Gone THEN {} ELSE {<<"ports", p, fports[p]>>}
FromDelta(p, what) == IF delta[p][what] = 0 THEN {} ELSE {<<what, p, delta[p][what]>>}

\* cpdup straight to M1; it fails, and copies nothing, if its source is missing.
Fill ==
    /\ Go("fill", Made)
    /\ \/ how = "DPORT" /\ Make(FromDelta(cur, "newport"))
       \/ how = "LOCK" /\ Make(IF IsTree(dports[cur]) THEN dports[cur] ELSE M1)
       \/ /\ how \in {"FAST", "PORT"} /\ ~Overlaid
          /\ cur \in Legacy => fports[cur] = Gone
          /\ Make(FromPorts(cur))
    /\ Done
    /\ UNCHANGED <<sources, area, prog, todo, building, counts>>

\* Mutant: rm -rf ${WORKAREA}/* is left out.
Clear_Nothing ==
    /\ Go("fill", "copy")
    /\ how \in {"FAST", "PORT"}
    /\ Overlaid \/ (cur \in Legacy /\ fports[cur] # Gone)
    /\ UNCHANGED <<sources, trees, area, prog, todo, cur, how, building, history, counts>>

Clear ==
    /\ Go("fill", "copy")
    /\ how \in {"FAST", "PORT"}
    /\ Overlaid \/ (cur \in Legacy /\ fports[cur] # Gone)
    /\ area' = {}
    /\ UNCHANGED <<sources, trees, prog, todo, cur, how, building, history, counts>>

\* cp adds to what is in WORKAREA; cpdup makes it the same as its source.
Copy ==
    /\ Go("copy", IF Overlaid THEN "overlay" ELSE "install")
    /\ area' = IF Overlaid
                 THEN IF fports[cur] = Gone THEN area ELSE FromPorts(cur)
                 ELSE area \cup FromPorts(cur)
    /\ UNCHANGED <<sources, trees, prog, todo, cur, how, building, history, counts>>

Overlay ==
    /\ Go("overlay", "install")
    /\ area' = area \cup FromDelta(cur, "overlay")
    /\ UNCHANGED <<sources, trees, prog, todo, cur, how, building, history, counts>>

Install ==
    /\ Go("install", Made)
    /\ Make(area)
    /\ Done
    /\ UNCHANGED <<sources, area, prog, todo, building, counts>>

\* Mutant: the merged entry is left as it was.
Mirror_Not ==
    /\ Go("mirror", "idle")
    /\ prog' = "none" /\ cur' = NoPort /\ how' = "none" /\ area' = {}
    /\ UNCHANGED <<sources, trees, todo, building, history, counts>>

\* The last line of sync1.sh: a merged entry follows the potential one.
Mirror ==
    /\ Go("mirror", "idle")
    /\ merged' = IF IsTree(merged[cur]) /\ IsTree(potential[cur])
                   THEN [merged EXCEPT ![cur] = potential[cur]] ELSE merged
    /\ prog' = "none" /\ cur' = NoPort /\ how' = "none" /\ area' = {}
    /\ UNCHANGED <<sources, potential, dports, todo, building, history, counts>>

Script ==
    \/ \E l \in todo : MergeLine(l)
    \/ EndMerge
    \/ Remove \/ Fill \/ Clear \/ Copy \/ Overlay \/ Install \/ Mirror

\* The script is killed; what it has made so far stays.
Killed ==
    /\ pc # "idle"
    /\ edits + crashes < MaxTrouble
    /\ crashes' = crashes + 1
    /\ pc' = "idle" /\ prog' = "none" /\ todo' = {} /\ cur' = NoPort /\ how' = "none"
    /\ fresh' = "none" /\ passed' = FALSE
    /\ UNCHANGED <<sources, trees, area, building, changed, turned, edits>>

-----------------------------------------------------------------------------
(* The builder, the FreeBSD ports, people, and the scripts they run in one go. *)

Idle == pc = "idle"
Touch(p) == changed' = changed \cup {p}

\* POTENTIAL "consists of all merged ports".
Publish(p) ==
    /\ Idle
    /\ potential' = [potential EXCEPT ![p] = merged[p]]
    /\ UNCHANGED <<sources, merged, dports, area, script, building, history, counts>>

\* The version a tree builds as, PKGV.
Built(t) ==
    LET versions == {piece[3] : piece \in {q \in t : q[1] = "ports"}}
        revisions == {MaxVersion + piece[3] : piece \in {q \in t : q[1] = "newport"}}
    IN versions \cup revisions

StartBuild(p) ==
    /\ ~IsTree(building[p])
    /\ IsTree(potential[p])
    /\ Built(potential[p]) # {}
    /\ building' = [building EXCEPT ![p] = potential[p]]
    /\ UNCHANGED <<sources, trees, area, script, history, counts>>

\* pkgbuild.sh: TYPE keeps the first line of STATUS unless it is MASK; a
\* success copies what POTENTIAL holds by now.
EndBuild(p, success) ==
    /\ IsTree(building[p])
    /\ \E v \in Built(building[p]) : attempt' = [attempt EXCEPT ![p] = v]
    /\ kind' = [kind EXCEPT ![p] =
                  IF @ \in {"none", "new"} THEN "PORT" ELSE IF @ = "MASK" THEN "empty" ELSE @]
    /\ dports' = IF success THEN [dports EXCEPT ![p] = potential[p]] ELSE dports
    /\ building' = [building EXCEPT ![p] = NoTree]
    /\ Touch(p)
    /\ UNCHANGED <<fports, index, delta, merged, potential, area, script, fresh, passed,
                   turned, counts>>

\* A FreeBSD port gets a new version or is removed.
Upstream(p, v) ==
    /\ fports[p] # Gone
    /\ v = fports[p] + 1 \/ v = Gone
    /\ v <= MaxVersion
    /\ fports' = [fports EXCEPT ![p] = v]
    /\ Touch(p)
    /\ UNCHANGED <<index, kind, attempt, delta, trees, area, script, building, fresh,
                   passed, turned, counts>>

\* generate_ports_INDEX.sh: a port that cannot be described is left out.
MakeIndex(lost) ==
    /\ index' = [p \in Port |-> IF p \in lost THEN Gone ELSE fports[p]]
    /\ index' # index
    /\ changed' = changed \cup {p \in Port : index'[p] # index[p]}
    /\ UNCHANGED <<fports, kind, attempt, delta, trees, area, script, building, fresh,
                   passed, turned, counts>>

\* Somebody edits an overlay or a newport, or writes a STATUS, for DPORT with
\* the newport it speaks of; a MASK is followed by its reason.
Edit(p) ==
    /\ edits + crashes < MaxTrouble
    /\ edits' = edits + 1
    /\ \/ /\ \E what \in {"overlay", "newport"} : delta' = [delta EXCEPT ![p][what] = edits + 1]
          /\ kind' = [kind EXCEPT ![p] = IF @ = "none" THEN "new" ELSE @]
          /\ UNCHANGED <<attempt, turned>>
       \/ \E k \in Chosen :
          /\ kind' = [kind EXCEPT ![p] = k]
          /\ \E v \in IF k = "MASK" THEN {Never} ELSE {attempt[p], Bare} :
                attempt' = [attempt EXCEPT ![p] = v]
          /\ delta' = IF k = "DPORT" THEN [delta EXCEPT ![p].newport = edits + 1] ELSE delta
          /\ turned' = IF k = "PORT" /\ kind[p] \notin {"none", "new", "PORT"}
                         THEN turned \cup {p} ELSE turned
    /\ Touch(p)
    /\ UNCHANGED <<fports, index, trees, area, script, building, fresh, passed,
                   crashes>>

\* rm -rf $MERGE/*
ResetMerged ==
    /\ Idle
    /\ merged' = [p \in Port |-> NoTree]
    /\ fresh' = "reset" /\ passed' = FALSE /\ turned' = {}
    /\ UNCHANGED <<sources, potential, dports, area, script, building, changed, counts>>

\* prune.sh confirm, "Only prune with a freshly created MERGE area".
Prune ==
    /\ Idle
    /\ fresh = "merged"
    /\ dports' = [p \in Port |-> IF IsTree(merged[p]) THEN dports[p] ELSE NoTree]
    /\ LET obsolete == {p \in Port : fports[p] = Gone /\ kind[p] \in {"MASK", "PORT"}}
       IN /\ kind' = [p \in Port |-> IF p \in obsolete THEN "none" ELSE kind[p]]
          /\ attempt' = [p \in Port |-> IF p \in obsolete THEN Never ELSE attempt[p]]
          /\ delta' = [p \in Port |-> IF p \in obsolete THEN [overlay |-> 0, newport |-> 0] ELSE delta[p]]
          /\ changed' = changed \cup obsolete
    /\ UNCHANGED <<fports, index, merged, potential, area, script, building, fresh, passed,
                   turned, counts>>

World ==
    \/ StartMerge \/ ResetMerged \/ Prune \/ Killed
    \/ \E lost \in SUBSET Fragile : MakeIndex(lost)
    \/ \E p \in Active :
          \/ StartSync(p) \/ Publish(p) \/ Edit(p)
          \/ StartBuild(p) \/ (\E success \in BOOLEAN : EndBuild(p, success))
          \/ \E v \in Version : Upstream(p, v)

Next == Script \/ World

Spec == Init /\ [][Next]_vars

-----------------------------------------------------------------------------
(* Properties. *)

\* Whatever goes through WORKAREA, a merged or potential entry holds pieces of
\* its own port only, and of each at most one version (merge.sh "ports +
\* overlay = merged").
OwnPieces ==
    /\ TypeOK
    /\ \A p \in Port, t \in {merged, potential} :
        IsTree(t[p]) =>
          /\ \A piece \in t[p] : piece[2] = p
          /\ \A x, y \in t[p] : x[1] = y[1] => x = y

Whole(p) ==
    CASE kind[p] = "none" -> FromPorts(p)
      [] kind[p] = "DPORT" /\ attempt[p] # Bare -> FromDelta(p, "newport")
      [] OTHER -> FromPorts(p) \cup FromDelta(p, "overlay")

\* When merge.sh has come to its end, MERGED has what DELTA and FPORTS ask for,
\* of every port that did not change meanwhile, unless its entry was there and
\* its last attempt is, as a number, the version in INDEX ("last attempt =
\* current version").  Of a DPORT whose STATUS has one line it promises nothing.
UpToDate ==
    passed =>
      \A p \in Port \ changed :
        /\ kind[p] = "MASK" /\ index[p] # Gone => ~IsTree(merged[p])
        /\ kind[p] = "LOCK" => IsTree(merged[p])
        /\ \/ kind[p] \in {"none", "new", "empty", "PORT"} /\ index[p] # Gone
           \/ kind[p] = "DPORT" /\ attempt[p] # Bare
           => \/ merged[p] = Whole(p)
              \/ /\ kind[p] \in {"PORT", "DPORT"}
                 /\ SameVersion(index[p], attempt[p]) /\ IsTree(merged[p])

\* Unless a script was killed, or somebody has turned its STATUS back into PORT
\* since its entry was made, an entry that merge.sh skips because its version
\* was attempted holds that version ("last attempt = current version").
SkippedIsCurrent ==
    crashes = 0 => \A p \in Port \ turned :
        kind[p] = "PORT" /\ attempt[p] = fports[p] /\ fports[p] # Gone
          /\ IsTree(merged[p]) /\ cur # p
          => fports[p] \in Built(merged[p])

\* prune.sh spares what is locked or replaced, even if FreeBSD has removed it,
\* and what is in INDEX, unless it is masked, where it did not change since
\* merge.sh began ("Only prune with a freshly created MERGE area").
PruneSpares ==
    [][Prune => \A p \in Port \ changed :
          \/ kind[p] \in {"DPORT", "LOCK"}
          \/ kind[p] # "MASK" /\ index[p] # Gone
          => dports'[p] = dports[p]]_vars

\* What prune.sh says of the ports it takes from DPORTS, unless DELTA masks
\* them: "FreeBSD Ports maintainers have already deleted the following".
PrunedIsDeleted ==
    [][Prune => \A p \in Port \ changed :
          dports'[p] # dports[p] => kind[p] = "MASK" \/ fports[p] = Gone]_vars
=============================================================================
