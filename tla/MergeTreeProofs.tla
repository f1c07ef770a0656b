---------------------------- MODULE MergeTreeProofs ----------------------------
(* Proofs about MergeTree for any ports, versions, edits and kills. *)
EXTENDS MergeTree, TLAPS

Steps == {"remove", "fill", "copy", "overlay", "install", "mirror"}
InHand(p) == pc \in Steps /\ cur = p

\* Which script is where, and what it holds there.
ControlInv ==
    /\ pc = "idle" <=> prog = "none"
    /\ pc \in Steps \cup {"idle", "next"}
    /\ pc = "next" => prog = "merge.sh" /\ cur = NoPort
    /\ pc = "idle" => cur = NoPort
    /\ pc = "mirror" => prog = "sync1.sh"
    /\ prog # "merge.sh" => todo = {}
    /\ pc \in Steps => cur \in Port
    /\ pc \in {"remove", "fill"} => how \in {"FAST", "PORT", "DPORT", "LOCK"}
    /\ pc \in {"copy", "install"} => how \in {"FAST", "PORT"}
    /\ pc = "overlay" => how = "PORT"

Revisions == [overlay : 0..MaxTrouble, newport : 0..MaxTrouble]

Own(t, p) ==
    /\ t \subseteq Piece
    /\ \A x \in t : x[2] = p
    /\ \A x, y \in t : x[1] = y[1] => x = y

\* Every tree holds pieces of its port only; WORKAREA, from the moment it was
\* cleared, those of the port in hand.
PieceInv ==
    /\ \A p \in Port :
          /\ IsTree(merged[p]) => Own(merged[p], p)
          /\ IsTree(potential[p]) => Own(potential[p], p)
          /\ IsTree(dports[p]) => Own(dports[p], p)
          /\ IsTree(building[p]) => Own(building[p], p)
    /\ pc = "copy" => area = {}
    /\ pc \in {"overlay", "install"} => Own(area, cur)
    /\ pc = "overlay" => \A x \in area : x[1] = "ports"

ShapeInv == TypeOK /\ ControlInv /\ PieceInv

-----------------------------------------------------------------------------
(* Pieces and trees. *)

LEMMA PieceFacts ==
    /\ \A x \in Piece :
          /\ x[2] \in Port
          /\ x[1] = "ports" => x[3] \in 1..MaxVersion
          /\ x[1] # "ports" => x[3] \in 1..MaxTrouble
          /\ x = <<x[1], x[2], x[3]>>
    /\ <<>> \notin Piece
  BY BoundAssumption DEF Piece

LEMMA TreeFacts ==
    ASSUME NEW t, t \subseteq Piece
    PROVE  IsTree(t)
  BY PieceFacts DEF IsTree, NoTree

LEMMA BuiltFacts ==
    ASSUME NEW t, t \subseteq Piece, NEW v \in Built(t)
    PROVE  /\ v \in 1..(MaxVersion + MaxTrouble)
           /\ v <= MaxVersion => \E x \in t : x[1] = "ports" /\ x[3] = v
  BY PieceFacts, BoundAssumption DEF Built

LEMMA FromFacts ==
    ASSUME TypeOK, NEW p \in Port
    PROVE  /\ Own(FromPorts(p), p)
           /\ \A x \in FromPorts(p) : x[1] = "ports"
           /\ Own(FromDelta(p, "overlay"), p)
           /\ \A x \in FromDelta(p, "overlay") : x[1] = "overlay"
           /\ Own(FromDelta(p, "newport"), p)
<1>1. /\ fports[p] \in 0..MaxVersion
      /\ delta[p]["overlay"] \in 0..MaxTrouble /\ delta[p]["newport"] \in 0..MaxTrouble
  BY DEF TypeOK, Version
<1> QED
  BY <1>1, BoundAssumption DEF Own, FromPorts, FromDelta, Gone, Piece

\* Make puts a tree in place of M1 and changes nothing else.
LEMMA MakeFacts ==
    ASSUME TypeOK, cur \in Port, NEW t, Make(t)
    PROVE  /\ DOMAIN merged' = Port /\ DOMAIN potential' = Port
           /\ dports' = dports
           /\ prog = "merge.sh" => merged'[cur] = t /\ potential' = potential
           /\ prog # "merge.sh" => potential'[cur] = t /\ merged' = merged
           /\ \A p \in Port \ {cur} : merged'[p] = merged[p] /\ potential'[p] = potential[p]
  BY DEF TypeOK, Make

-----------------------------------------------------------------------------
(* Types, control and pieces. *)

LEMMA ShapeInit == Init => ShapeInv
<1> SUFFICES ASSUME Init PROVE ShapeInv
  OBVIOUS
<1> USE BoundAssumption DEF Init, Gone, Never, Bare
<1>1. TypeOK
  <2>1. fports \in [Port -> Version] /\ index \in [Port -> Version]
    BY DEF Version
  <2>2. kind \in [Port -> {"none", "new", "empty", "PORT", "DPORT", "LOCK", "MASK"}]
    OBVIOUS
  <2>3. attempt \in [Port -> Bare..(MaxVersion + MaxTrouble)] /\ delta \in [Port -> Revisions]
    BY DEF Revisions
  <2>4. \A tree \in {merged, potential, dports, building} :
          /\ DOMAIN tree = Port
          /\ \A p \in Port : tree[p] = NoTree \/ tree[p] \subseteq Piece
    OBVIOUS
  <2>5. /\ area \subseteq Piece /\ todo \subseteq Port \X Version
        /\ changed \subseteq Port /\ turned \subseteq Port
        /\ edits \in 0..MaxTrouble /\ crashes \in 0..MaxTrouble
    OBVIOUS
  <2>6. /\ prog = "none" /\ pc = "idle" /\ cur = NoPort /\ how = "none"
        /\ fresh = "reset" /\ passed = FALSE
    OBVIOUS
  <2> HIDE DEF Init
  <2> QED
    BY <2>1, <2>2, <2>3, <2>4, <2>5, <2>6 DEF TypeOK, Revisions
<1>2. ControlInv
  BY DEF ControlInv, Steps
<1>3. PieceInv
  BY DEF PieceInv, IsTree
<1> QED
  BY <1>1, <1>2, <1>3 DEF ShapeInv

\* The trees that a step leaves behind.
Trees(f) == DOMAIN f = Port /\ \A p \in Port : IsTree(f[p]) => Own(f[p], p)

LEMMA TreesFacts ==
    ASSUME ShapeInv
    PROVE  /\ Trees(merged) /\ Trees(potential) /\ Trees(dports) /\ Trees(building)
           /\ area \subseteq Piece
  BY DEF ShapeInv, TypeOK, PieceInv, Trees

LEMMA TreesShape ==
    ASSUME ShapeInv,
           Trees(merged'), Trees(potential'), Trees(dports'), Trees(building'),
           area' \subseteq Piece,
           fports' \in [Port -> Version], index' \in [Port -> Version],
           kind' \in [Port -> {"none", "new", "empty", "PORT", "DPORT", "LOCK", "MASK"}],
           attempt' \in [Port -> Bare..(MaxVersion + MaxTrouble)],
           delta' \in [Port -> Revisions],
           todo' \subseteq Port \X Version,
           fresh' \in {"none", "reset", "merged"}, passed' \in BOOLEAN,
           changed' \subseteq Port, turned' \subseteq Port,
           edits' \in 0..MaxTrouble, crashes' \in 0..MaxTrouble,
           ControlInv',
           prog' \in {"none", "merge.sh", "sync1.sh"},
           how' \in {"none", "FAST", "PORT", "DPORT", "LOCK"},
           cur' \in Port \cup {NoPort},
           pc' = "copy" => area' = {},
           pc' \in {"overlay", "install"} => Own(area', cur'),
           pc' = "overlay" => \A x \in area' : x[1] = "ports"
    PROVE  ShapeInv'
<1>1. TypeOK'
  <2>1. \A p \in Port : /\ merged'[p] = NoTree \/ merged'[p] \subseteq Piece
                        /\ potential'[p] = NoTree \/ potential'[p] \subseteq Piece
                        /\ dports'[p] = NoTree \/ dports'[p] \subseteq Piece
                        /\ building'[p] = NoTree \/ building'[p] \subseteq Piece
    BY DEF Trees, Own, IsTree
  <2>2. pc' \in {"idle", "next", "remove", "fill", "clear", "copy", "overlay", "install",
                 "mirror"}
    BY DEF ControlInv, Steps
  <2>3. \A tree \in {merged', potential', dports', building'} :
          /\ DOMAIN tree = Port
          /\ \A p \in Port : tree[p] = NoTree \/ tree[p] \subseteq Piece
    BY <2>1 DEF Trees
  <2> QED
    BY <2>2, <2>3 DEF TypeOK, Revisions
<1>2. PieceInv'
  BY DEF PieceInv, Trees
<1> QED
  BY <1>1, <1>2 DEF ShapeInv

\* The steps of the scripts leave everything else alone.
LEMMA ScriptShape ==
    ASSUME ShapeInv,
           UNCHANGED <<sources, dports, building, counts>>,
           Trees(merged'), Trees(potential'), area' \subseteq Piece,
           todo' \subseteq todo, changed' = changed, turned' \subseteq turned,
           fresh' \in {"none", "reset", "merged"}, passed' \in BOOLEAN,
           prog' \in {"none", prog},
           how' \in {"none", "FAST", "PORT", "DPORT", "LOCK"},
           cur' \in Port \cup {NoPort},
           ControlInv',
           pc' = "copy" => area' = {},
           pc' \in {"overlay", "install"} => Own(area', cur'),
           pc' = "overlay" => \A x \in area' : x[1] = "ports"
    PROVE  ShapeInv'
<1>1. Trees(dports') /\ Trees(building')
  BY TreesFacts
<1>2. TypeOK
  BY DEF ShapeInv
<1>3. /\ fports' = fports /\ index' = index /\ kind' = kind /\ attempt' = attempt
      /\ delta' = delta /\ edits' = edits /\ crashes' = crashes
  BY DEF sources, counts
<1> QED
  BY <1>1, <1>2, <1>3, TreesShape DEF TypeOK, Revisions

LEMMA ShapeMergeLine ==
    ASSUME ShapeInv, NEW l \in todo, MergeLine(l)
    PROVE  ShapeInv'
<1>1. /\ pc = "next" /\ todo' = todo \ {l}
      /\ UNCHANGED <<sources, dports, building, counts>>
      /\ potential' = potential /\ area' = area /\ prog' = prog
      /\ changed' = changed /\ fresh' = fresh /\ passed' = passed /\ turned' = turned
      /\ \/ pc' = "next" /\ cur' = cur /\ how' = how
         \/ pc' = "remove" /\ cur' = l[1] /\ how' = MergedAs(l[1])
      /\ merged' = merged \/ merged' = [merged EXCEPT ![l[1]] = NoTree]
  BY DEF MergeLine, history, trees, sources, counts
<1>2. TypeOK /\ ControlInv
  BY DEF ShapeInv
<1>3. /\ l[1] \in Port /\ how \in {"none", "FAST", "PORT", "DPORT", "LOCK"}
      /\ cur \in Port \cup {NoPort}
      /\ prog \in {"none", "merge.sh", "sync1.sh"}
      /\ fresh \in {"none", "reset", "merged"} /\ passed \in BOOLEAN
      /\ kind[l[1]] \in {"none", "new", "empty", "PORT", "DPORT", "LOCK", "MASK"}
  BY <1>2 DEF TypeOK
<1>4. MergedAs(l[1]) \in {"FAST", "PORT", "DPORT", "LOCK"}
  BY <1>3 DEF How, MergedAs
<1>5. Trees(merged') /\ Trees(potential') /\ area' \subseteq Piece
  BY <1>1, <1>3, TreesFacts DEF Trees, IsTree
<1>6. ControlInv'
  BY <1>1, <1>2, <1>3, <1>4 DEF ControlInv, Steps
<1> QED
  BY <1>1, <1>2, <1>3, <1>4, <1>5, <1>6, ScriptShape

LEMMA ShapeEndMerge == ASSUME ShapeInv, EndMerge PROVE ShapeInv'
<1>1. /\ pc = "next" /\ todo = {} /\ pc' = "idle" /\ prog' = "none" /\ area' = {}
      /\ passed' = TRUE /\ fresh' \in {fresh, "merged"}
      /\ UNCHANGED <<sources, dports, building, counts>>
      /\ UNCHANGED <<merged, potential, todo, cur, how, changed, turned>>
  BY DEF EndMerge, trees, counts
<1>2. TypeOK /\ ControlInv
  BY DEF ShapeInv
<1>3. Trees(merged') /\ Trees(potential') /\ area' \subseteq Piece
  BY <1>1, TreesFacts
<1>4. ControlInv'
  BY <1>1, <1>2 DEF ControlInv, Steps
<1>5. /\ fresh' \in {"none", "reset", "merged"} /\ passed' \in BOOLEAN
      /\ how' \in {"none", "FAST", "PORT", "DPORT", "LOCK"} /\ cur' \in Port \cup {NoPort}
      /\ todo' \subseteq todo /\ prog' \in {"none", prog}
      /\ pc' \notin {"copy", "overlay", "install"}
  BY <1>1, <1>2 DEF TypeOK
<1> QED
  BY <1>1, <1>3, <1>4, <1>5, ScriptShape

\* What the steps that make a tree for the port in hand have in common.
LEMMA ShapeMake ==
    ASSUME ShapeInv, NEW t, t = NoTree \/ Own(t, cur), pc \in Steps, Make(t),
           UNCHANGED <<sources, building, counts, prog, todo>>,
           \/ pc' = "fill" /\ cur' = cur /\ how' = how /\ how # "none" /\ UNCHANGED history
           \/ pc' = Made /\ Done,
           area' \in {area, {}}
    PROVE  ShapeInv'
<1>1. TypeOK /\ ControlInv
  BY DEF ShapeInv
<1>2. cur \in Port
  BY <1>1 DEF ControlInv
<1>3. Trees(merged') /\ Trees(potential') /\ dports' = dports
  BY <1>1, <1>2, MakeFacts, TreesFacts DEF Trees, IsTree
<1>4. /\ UNCHANGED <<sources, dports, building, counts>>
      /\ todo' = todo /\ changed' = changed /\ fresh' = fresh /\ passed' = passed
      /\ prog' = prog /\ turned' \subseteq turned
  BY <1>3 DEF history, Done
<1>5. /\ cur' \in Port \cup {NoPort}
      /\ how' \in {"none", "FAST", "PORT", "DPORT", "LOCK"}
      /\ area' \subseteq Piece /\ pc' \notin {"copy", "overlay", "install"}
      /\ fresh' \in {"none", "reset", "merged"} /\ passed' \in BOOLEAN
  BY <1>1, <1>4, TreesFacts DEF TypeOK, Done, Made
<1>6. ControlInv'
  <2>1. prog \in {"merge.sh", "sync1.sh"}
    BY <1>1 DEF ControlInv, TypeOK, Steps
  <2>2. CASE pc' = "fill" /\ cur' = cur /\ how' = how /\ how # "none" /\ UNCHANGED history
    BY <1>1, <1>2, <1>4, <2>1, <2>2 DEF ControlInv, Steps, TypeOK
  <2>3. CASE pc' = Made /\ Done
    BY <1>1, <1>2, <1>4, <2>1, <2>3 DEF ControlInv, Steps, Made, Done
  <2> QED
    BY <2>2, <2>3
<1> QED
  BY <1>3, <1>4, <1>5, <1>6, ScriptShape

LEMMA ShapeRemove == ASSUME ShapeInv, Remove PROVE ShapeInv'
<1>1. TypeOK /\ ControlInv /\ PieceInv /\ pc = "remove" /\ pc' = "fill"
  BY DEF ShapeInv, Remove, Go
<1>2. cur \in Port /\ how # "none"
  BY <1>1 DEF ControlInv, Steps
<1> DEFINE t == IF how = "LOCK" /\ IsTree(M1) THEN M1 ELSE {}
<1>3. Own(t, cur)
  BY <1>1, <1>2 DEF PieceInv, M1, Own
<1>4. /\ Make(t) /\ area' \in {area, {}}
      /\ UNCHANGED <<sources, prog, todo, cur, how, building, history, counts>>
  BY DEF Remove
<1> HIDE DEF t
<1> QED
  BY <1>1, <1>2, <1>3, <1>4, ShapeMake DEF Steps

LEMMA ShapeFill == ASSUME ShapeInv, Fill PROVE ShapeInv'
<1>1. TypeOK /\ ControlInv /\ PieceInv /\ pc = "fill" /\ pc' = Made /\ Done
  BY DEF ShapeInv, Fill, Go
<1>2. cur \in Port
  BY <1>1 DEF ControlInv, Steps
<1>3. UNCHANGED <<sources, area, prog, todo, building, counts>>
  BY DEF Fill
<1>4. CASE Make(FromDelta(cur, "newport"))
  BY <1>1, <1>2, <1>3, <1>4, FromFacts, ShapeMake DEF Steps
<1>5. CASE Make(IF IsTree(dports[cur]) THEN dports[cur] ELSE M1)
  <2> DEFINE t == IF IsTree(dports[cur]) THEN dports[cur] ELSE M1
  <2>1. t = NoTree \/ Own(t, cur)
    BY <1>1, <1>2 DEF PieceInv, M1, IsTree
  <2> HIDE DEF t
  <2>2. Make(t)
    BY <1>5 DEF t
  <2> QED
    BY <1>1, <1>3, <2>1, <2>2, ShapeMake DEF Steps
<1>6. CASE Make(FromPorts(cur))
  BY <1>1, <1>2, <1>3, <1>6, FromFacts, ShapeMake DEF Steps
<1> QED
  BY <1>4, <1>5, <1>6 DEF Fill

LEMMA ShapeInstall == ASSUME ShapeInv, Install PROVE ShapeInv'
<1>1. TypeOK /\ ControlInv /\ PieceInv /\ pc = "install" /\ pc' = Made /\ Done /\ Make(area)
  BY DEF ShapeInv, Install, Go
<1>2. UNCHANGED <<sources, area, prog, todo, building, counts>>
  BY DEF Install
<1>3. Own(area, cur)
  BY <1>1 DEF PieceInv
<1> QED
  BY <1>1, <1>2, <1>3, ShapeMake DEF Steps

\* The steps through WORKAREA.
LEMMA ShapeArea ==
    ASSUME ShapeInv, pc \in Steps,
           UNCHANGED <<sources, trees, prog, todo, cur, how, building, history, counts>>,
           how \in {"FAST", "PORT"},
           pc' \in {"copy", "overlay", "install"}, pc' = "overlay" => how = "PORT",
           Own(area', cur),
           pc' = "copy" => area' = {},
           pc' = "overlay" => \A x \in area' : x[1] = "ports"
    PROVE  ShapeInv'
<1>1. TypeOK /\ ControlInv
  BY DEF ShapeInv
<1>2. /\ UNCHANGED <<sources, dports, building, counts>>
      /\ UNCHANGED <<merged, potential, prog, todo, cur, how, changed, fresh, passed, turned>>
  BY DEF trees, history
<1>3. Trees(merged') /\ Trees(potential') /\ area' \subseteq Piece
  BY <1>2, TreesFacts DEF Own
<1>4. ControlInv'
  BY <1>1, <1>2 DEF ControlInv, Steps
<1>5. /\ fresh' \in {"none", "reset", "merged"} /\ passed' \in BOOLEAN
      /\ how' \in {"none", "FAST", "PORT", "DPORT", "LOCK"} /\ cur' \in Port \cup {NoPort}
      /\ prog' \in {"none", prog}
  BY <1>1, <1>2 DEF TypeOK
<1> QED
  BY <1>2, <1>3, <1>4, <1>5, ScriptShape

LEMMA ShapeClear == ASSUME ShapeInv, Clear PROVE ShapeInv'
  BY ShapeArea DEF Clear, Go, Own, Steps

LEMMA CopyFacts ==
    ASSUME ShapeInv, Copy
    PROVE  /\ cur \in Port /\ how \in {"FAST", "PORT"}
           /\ area' = FromPorts(cur)
           /\ pc' = (IF Overlaid THEN "overlay" ELSE "install")
<1>1. ControlInv /\ PieceInv /\ pc = "copy" /\ pc' = (IF Overlaid THEN "overlay" ELSE "install")
  BY DEF ShapeInv, Copy, Go
<1>2. cur \in Port /\ how \in {"FAST", "PORT"} /\ area = {}
  BY <1>1 DEF ControlInv, PieceInv, Steps
<1> QED
  BY <1>1, <1>2 DEF Copy, FromPorts

LEMMA ShapeCopy == ASSUME ShapeInv, Copy PROVE ShapeInv'
<1>1. TypeOK /\ pc = "copy"
  BY DEF ShapeInv, Copy, Go
<1>2. Own(area', cur) /\ \A x \in area' : x[1] = "ports"
  BY <1>1, CopyFacts, FromFacts
<1>3. pc' \in {"overlay", "install"} /\ (pc' = "overlay" => how = "PORT")
  BY CopyFacts DEF Overlaid
<1> QED
  BY <1>1, <1>2, <1>3, CopyFacts, ShapeArea DEF Copy, Steps

LEMMA ShapeOverlay == ASSUME ShapeInv, Overlay PROVE ShapeInv'
<1>1. TypeOK /\ ControlInv /\ PieceInv /\ pc = "overlay" /\ pc' = "install"
  BY DEF ShapeInv, Overlay, Go
<1>2. cur \in Port /\ how = "PORT" /\ Own(area, cur) /\ \A x \in area : x[1] = "ports"
  BY <1>1 DEF ControlInv, PieceInv, Steps
<1>3. area' = area \cup FromDelta(cur, "overlay")
  BY DEF Overlay
<1>4. Own(area', cur)
  BY <1>1, <1>2, <1>3, FromFacts DEF Own
<1> QED
  BY <1>1, <1>2, <1>4, ShapeArea DEF Overlay, Steps

LEMMA ShapeMirror == ASSUME ShapeInv, Mirror PROVE ShapeInv'
<1>1. TypeOK /\ ControlInv /\ PieceInv /\ pc = "mirror" /\ cur \in Port
  BY DEF ShapeInv, Mirror, Go, ControlInv, Steps
<1>2. /\ pc' = "idle" /\ prog' = "none" /\ cur' = NoPort /\ how' = "none" /\ area' = {}
      /\ UNCHANGED <<sources, potential, dports, todo, building, history, counts>>
      /\ \/ merged' = merged
         \/ merged' = [merged EXCEPT ![cur] = potential[cur]]
  BY DEF Mirror, Go
<1>3. Trees(merged') /\ Trees(potential')
  BY <1>1, <1>2, TreesFacts DEF Trees
<1>4. ControlInv'
  BY <1>1, <1>2 DEF ControlInv, Steps
<1>5. /\ fresh' \in {"none", "reset", "merged"} /\ passed' \in BOOLEAN
      /\ changed' = changed /\ turned' = turned
  BY <1>1, <1>2 DEF TypeOK, history
<1>6. UNCHANGED <<sources, dports, building, counts>>
  BY <1>2
<1> QED
  BY <1>2, <1>3, <1>4, <1>5, <1>6, ScriptShape

\* The world beside the scripts leaves them and WORKAREA alone.
LEMMA WorldShape ==
    ASSUME ShapeInv, UNCHANGED <<area, script>>,
           Trees(merged'), Trees(potential'), Trees(dports'), Trees(building'),
           fports' \in [Port -> Version], index' \in [Port -> Version],
           kind' \in [Port -> {"none", "new", "empty", "PORT", "DPORT", "LOCK", "MASK"}],
           attempt' \in [Port -> Bare..(MaxVersion + MaxTrouble)],
           delta' \in [Port -> Revisions],
           fresh' \in {"reset", fresh}, passed' \in {FALSE, passed},
           changed' \subseteq Port, turned' \subseteq Port,
           edits' \in 0..MaxTrouble, crashes' = crashes
    PROVE  ShapeInv'
<1>1. TypeOK /\ ControlInv /\ PieceInv
  BY DEF ShapeInv
<1>2. UNCHANGED <<area, prog, pc, todo, cur, how>>
  BY DEF script
<1>3. ControlInv'
  BY <1>1, <1>2 DEF ControlInv
<1>4. /\ fresh' \in {"none", "reset", "merged"} /\ passed' \in BOOLEAN
      /\ crashes' \in 0..MaxTrouble /\ area' \subseteq Piece
      /\ todo' \subseteq Port \X Version /\ prog' \in {"none", "merge.sh", "sync1.sh"}
      /\ how' \in {"none", "FAST", "PORT", "DPORT", "LOCK"} /\ cur' \in Port \cup {NoPort}
  BY <1>1, <1>2 DEF TypeOK
<1>5. /\ pc' = "copy" => area' = {}
      /\ pc' \in {"overlay", "install"} => Own(area', cur')
      /\ pc' = "overlay" => \A x \in area' : x[1] = "ports"
  BY <1>1, <1>2 DEF PieceInv
<1> QED
  BY <1>3, <1>4, <1>5, TreesShape

LEMMA ShapeStartMerge == ASSUME ShapeInv, StartMerge PROVE ShapeInv'
<1>1. TypeOK /\ ControlInv
  BY DEF ShapeInv
<1>2. /\ pc = "idle" /\ pc' = "next" /\ prog' = "merge.sh" /\ todo' = Lines
      /\ area' \in {area, {}} /\ passed' = FALSE /\ changed' = {}
      /\ UNCHANGED <<fports, index, kind, attempt, delta, merged, potential, dports,
                     cur, how, building, fresh, turned, edits, crashes>>
  BY DEF StartMerge, Go, sources, trees, counts
<1>3. /\ Trees(merged') /\ Trees(potential') /\ Trees(dports') /\ Trees(building')
      /\ area' \subseteq Piece
  BY <1>2, TreesFacts
<1>4. ControlInv'
  BY <1>1, <1>2 DEF ControlInv, Steps
<1>5. todo' \subseteq Port \X Version
  BY <1>2 DEF Lines, Version, Gone
<1> QED
  BY <1>1, <1>2, <1>3, <1>4, <1>5, TreesShape DEF TypeOK, Revisions

LEMMA ShapeStartSync == ASSUME ShapeInv, NEW p \in Active, StartSync(p) PROVE ShapeInv'
<1>1. TypeOK /\ ControlInv /\ p \in Port
  BY PortAssumption DEF ShapeInv
<1>2. /\ pc = "idle" /\ prog' = "sync1.sh" /\ passed' = FALSE /\ cur' = p
      /\ \/ /\ potential' = [potential EXCEPT ![p] = NoTree]
            /\ pc' = "mirror" /\ how' = how
         \/ potential' = potential /\ pc' = "remove" /\ how' = How(p)
      /\ UNCHANGED <<fports, index, kind, attempt, delta, merged, dports, area, todo,
                     building, fresh, changed, turned, edits, crashes>>
  BY DEF StartSync, sources, counts
<1>3. How(p) \in {"FAST", "PORT", "DPORT", "LOCK"}
  BY <1>1 DEF TypeOK, How
<1>4. /\ Trees(merged') /\ Trees(potential') /\ Trees(dports') /\ Trees(building')
      /\ area' \subseteq Piece
  BY <1>1, <1>2, TreesFacts DEF Trees, IsTree
<1>5. ControlInv'
  BY <1>1, <1>2, <1>3 DEF ControlInv, Steps
<1>6. how' \in {"none", "FAST", "PORT", "DPORT", "LOCK"}
  BY <1>1, <1>2, <1>3 DEF TypeOK
<1> QED
  BY <1>1, <1>2, <1>4, <1>5, <1>6, TreesShape DEF TypeOK, Revisions

LEMMA ShapeKilled == ASSUME ShapeInv, Killed PROVE ShapeInv'
<1>1. TypeOK /\ ControlInv
  BY DEF ShapeInv
<1>2. /\ edits + crashes < MaxTrouble /\ crashes' = crashes + 1
      /\ pc' = "idle" /\ prog' = "none" /\ todo' = {} /\ cur' = NoPort /\ how' = "none"
      /\ fresh' = "none" /\ passed' = FALSE
      /\ UNCHANGED <<fports, index, kind, attempt, delta, merged, potential, dports, area,
                     building, changed, turned, edits>>
  BY DEF Killed, sources, trees
<1>3. /\ Trees(merged') /\ Trees(potential') /\ Trees(dports') /\ Trees(building')
      /\ area' \subseteq Piece
  BY <1>2, TreesFacts
<1>4. ControlInv'
  BY <1>2 DEF ControlInv, Steps
<1>5. crashes' \in 0..MaxTrouble
  BY <1>1, <1>2, BoundAssumption DEF TypeOK
<1> QED
  BY <1>1, <1>2, <1>3, <1>4, <1>5, TreesShape DEF TypeOK, Revisions

LEMMA ShapePublish == ASSUME ShapeInv, NEW p \in Active, Publish(p) PROVE ShapeInv'
<1>1. TypeOK /\ p \in Port
  BY PortAssumption DEF ShapeInv
<1>2. /\ potential' = [potential EXCEPT ![p] = merged[p]]
      /\ UNCHANGED <<fports, index, kind, attempt, delta, merged, dports, area, script,
                     building, fresh, passed, changed, turned, edits, crashes>>
  BY DEF Publish, sources, history, counts
<1>3. /\ Trees(merged') /\ Trees(potential') /\ Trees(dports') /\ Trees(building')
  BY <1>1, <1>2, TreesFacts DEF Trees
<1> QED
  BY <1>1, <1>2, <1>3, WorldShape DEF TypeOK, Revisions

LEMMA ShapeStartBuild == ASSUME ShapeInv, NEW p \in Active, StartBuild(p) PROVE ShapeInv'
<1>1. TypeOK /\ p \in Port
  BY PortAssumption DEF ShapeInv
<1>2. /\ building' = [building EXCEPT ![p] = potential[p]]
      /\ UNCHANGED <<fports, index, kind, attempt, delta, merged, potential, dports, area,
                     script, fresh, passed, changed, turned, edits, crashes>>
  BY DEF StartBuild, sources, trees, history, counts
<1>3. /\ Trees(merged') /\ Trees(potential') /\ Trees(dports') /\ Trees(building')
  BY <1>1, <1>2, TreesFacts DEF Trees
<1> QED
  BY <1>1, <1>2, <1>3, WorldShape DEF TypeOK, Revisions

LEMMA ShapeEndBuild ==
    ASSUME ShapeInv, NEW p \in Active, NEW success \in BOOLEAN, EndBuild(p, success)
    PROVE  ShapeInv'
<1>1. TypeOK /\ PieceInv /\ p \in Port
  BY PortAssumption DEF ShapeInv
<1>2. PICK v \in Built(building[p]) : attempt' = [attempt EXCEPT ![p] = v]
  BY DEF EndBuild
<1>3. /\ IsTree(building[p])
      /\ kind' = [kind EXCEPT ![p] = IF kind[p] \in {"none", "new"} THEN "PORT"
                                     ELSE IF kind[p] = "MASK" THEN "empty" ELSE kind[p]]
      /\ dports' = dports \/ dports' = [dports EXCEPT ![p] = potential[p]]
      /\ building' = [building EXCEPT ![p] = NoTree]
      /\ changed' = changed \cup {p}
      /\ UNCHANGED <<fports, index, delta, merged, potential, area, script, fresh, passed,
                     turned, edits, crashes>>
  BY DEF EndBuild, Touch, counts
<1>4. v \in 0..(MaxVersion + MaxTrouble)
  <2>1. building[p] \subseteq Piece
    BY <1>1, <1>3 DEF PieceInv, Own
  <2>2. v \in 1..(MaxVersion + MaxTrouble)
    BY <2>1, BuiltFacts
  <2> QED
    BY <2>2, BoundAssumption
<1>5. /\ Trees(merged') /\ Trees(potential') /\ Trees(dports') /\ Trees(building')
  BY <1>1, <1>3, TreesFacts DEF Trees, IsTree
<1>6. kind' \in [Port -> {"none", "new", "empty", "PORT", "DPORT", "LOCK", "MASK"}]
  BY <1>1, <1>3 DEF TypeOK
<1>7. attempt' \in [Port -> Bare..(MaxVersion + MaxTrouble)]
  BY <1>1, <1>2, <1>4, BoundAssumption DEF TypeOK, Bare
<1> QED
  BY <1>1, <1>3, <1>5, <1>6, <1>7, WorldShape DEF TypeOK, Revisions

LEMMA ShapeUpstream ==
    ASSUME ShapeInv, NEW p \in Active, NEW v \in Version, Upstream(p, v)
    PROVE  ShapeInv'
<1>1. TypeOK /\ p \in Port
  BY PortAssumption DEF ShapeInv
<1>2. /\ fports' = [fports EXCEPT ![p] = v] /\ changed' = changed \cup {p}
      /\ UNCHANGED <<index, kind, attempt, delta, merged, potential, dports, area, script,
                     building, fresh, passed, turned, edits, crashes>>
  BY DEF Upstream, Touch, trees, counts
<1>3. /\ Trees(merged') /\ Trees(potential') /\ Trees(dports') /\ Trees(building')
  BY <1>2, TreesFacts
<1> QED
  BY <1>1, <1>2, <1>3, WorldShape DEF TypeOK, Revisions

LEMMA ShapeMakeIndex ==
    ASSUME ShapeInv, NEW lost \in SUBSET Fragile, MakeIndex(lost)
    PROVE  ShapeInv'
<1>1. TypeOK
  BY DEF ShapeInv
<1>2. /\ index' = [p \in Port |-> IF p \in lost THEN Gone ELSE fports[p]]
      /\ changed' \subseteq changed \cup Port
      /\ UNCHANGED <<fports, kind, attempt, delta, merged, potential, dports, area, script,
                     building, fresh, passed, turned, edits, crashes>>
  BY DEF MakeIndex, trees, counts
<1>3. /\ Trees(merged') /\ Trees(potential') /\ Trees(dports') /\ Trees(building')
  BY <1>2, TreesFacts
<1>4. index' \in [Port -> Version]
  BY <1>1, <1>2, BoundAssumption DEF TypeOK, Version, Gone
<1> QED
  BY <1>1, <1>2, <1>3, <1>4, WorldShape DEF TypeOK, Revisions

LEMMA EditFacts ==
    ASSUME TypeOK, NEW p \in Active, Edit(p)
    PROVE  /\ edits' = edits + 1 /\ edits' \in 0..MaxTrouble /\ crashes' = crashes
           /\ changed' = changed \cup {p}
           /\ \/ /\ kind' = [kind EXCEPT ![p] = IF kind[p] = "none" THEN "new" ELSE kind[p]]
                 /\ attempt' = attempt /\ turned' = turned
              \/ \E k \in Chosen :
                   /\ kind' = [kind EXCEPT ![p] = k]
                   /\ \E v \in {attempt[p], Never, Bare} : attempt' = [attempt EXCEPT ![p] = v]
                   /\ turned' = IF k = "PORT" /\ kind[p] \notin {"none", "new", "PORT"}
                                  THEN turned \cup {p} ELSE turned
           /\ \/ delta' = delta
              \/ \E what \in {"overlay", "newport"} :
                    delta' = [delta EXCEPT ![p][what] = edits + 1]
           /\ UNCHANGED <<fports, index, merged, potential, dports, area, script, building,
                          fresh, passed>>
<1>1. edits' = edits + 1 /\ edits' \in 0..MaxTrouble /\ crashes' = crashes
  BY BoundAssumption DEF TypeOK, Edit
<1>2. \/ delta' = delta
      \/ \E what \in {"overlay", "newport"} : delta' = [delta EXCEPT ![p][what] = edits + 1]
  BY DEF Edit
<1> QED
  BY <1>1, <1>2 DEF Edit, Touch, trees

LEMMA ShapeEdit == ASSUME ShapeInv, NEW p \in Active, Edit(p) PROVE ShapeInv'
<1>1. TypeOK /\ p \in Port
  BY PortAssumption DEF ShapeInv
<1>2. /\ Trees(merged') /\ Trees(potential') /\ Trees(dports') /\ Trees(building')
  BY <1>1, EditFacts, TreesFacts
<1>3. kind' \in [Port -> {"none", "new", "empty", "PORT", "DPORT", "LOCK", "MASK"}]
  BY <1>1, EditFacts, SwitchAssumption DEF TypeOK
<1>4. attempt' \in [Port -> Bare..(MaxVersion + MaxTrouble)]
  BY <1>1, EditFacts, BoundAssumption DEF TypeOK, Never, Bare
<1>5. delta' \in [Port -> Revisions]
  <2>1. delta \in [Port -> Revisions] /\ edits + 1 \in 0..MaxTrouble
    BY <1>1, EditFacts DEF TypeOK, Revisions
  <2>2. \A what \in {"overlay", "newport"} :
          [delta[p] EXCEPT ![what] = edits + 1] \in Revisions
    BY <1>1, <2>1 DEF Revisions
  <2>3. \/ delta' = delta
        \/ \E what \in {"overlay", "newport"} :
              delta' = [delta EXCEPT ![p] = [delta[p] EXCEPT ![what] = edits + 1]]
    BY <1>1, EditFacts
  <2> QED
    BY <1>1, <2>1, <2>2, <2>3
<1>6. changed' \subseteq Port /\ turned' \subseteq Port /\ fports' \in [Port -> Version] /\ index' \in [Port -> Version]
  BY <1>1, EditFacts DEF TypeOK
<1> QED
  BY <1>1, <1>2, <1>3, <1>4, <1>5, <1>6, EditFacts, WorldShape

LEMMA ShapeResetMerged == ASSUME ShapeInv, ResetMerged PROVE ShapeInv'
<1>1. TypeOK
  BY DEF ShapeInv
<1>2. /\ merged' = [p \in Port |-> NoTree] /\ fresh' = "reset" /\ passed' = FALSE
      /\ turned' = {}
      /\ UNCHANGED <<fports, index, kind, attempt, delta, potential, dports, area, script,
                     building, changed, edits, crashes>>
  BY DEF ResetMerged, sources, counts
<1>3. /\ Trees(merged') /\ Trees(potential') /\ Trees(dports') /\ Trees(building')
  BY <1>2, TreesFacts DEF Trees, IsTree
<1> QED
  BY <1>1, <1>2, <1>3, WorldShape DEF TypeOK, Revisions

\* The ports that prune.sh takes out of DELTA.
Obsolete == {p \in Port : fports[p] = Gone /\ kind[p] \in {"MASK", "PORT"}}

LEMMA PruneFacts ==
    ASSUME Prune
    PROVE  /\ pc = "idle" /\ fresh = "merged"
           /\ dports' = [p \in Port |-> IF IsTree(merged[p]) THEN dports[p] ELSE NoTree]
           /\ kind' = [p \in Port |-> IF p \in Obsolete THEN "none" ELSE kind[p]]
           /\ attempt' = [p \in Port |-> IF p \in Obsolete THEN Never ELSE attempt[p]]
           /\ delta' = [p \in Port |-> IF p \in Obsolete THEN [overlay |-> 0, newport |-> 0] ELSE delta[p]]
           /\ changed' = changed \cup Obsolete
           /\ UNCHANGED <<fports, index, merged, potential, area, script, building, fresh,
                          passed, turned, edits, crashes>>
  BY DEF Prune, Obsolete, Idle, counts

LEMMA ShapePrune == ASSUME ShapeInv, Prune PROVE ShapeInv'
<1>1. TypeOK
  BY DEF ShapeInv
<1>2. /\ Trees(merged') /\ Trees(potential') /\ Trees(dports') /\ Trees(building')
  BY PruneFacts, TreesFacts DEF Trees, IsTree
<1>3. kind' \in [Port -> {"none", "new", "empty", "PORT", "DPORT", "LOCK", "MASK"}]
  BY <1>1, PruneFacts DEF TypeOK
<1>4. attempt' \in [Port -> Bare..(MaxVersion + MaxTrouble)] /\ delta' \in [Port -> Revisions]
  BY <1>1, PruneFacts, BoundAssumption DEF TypeOK, Never, Bare, Revisions
<1>5. changed' \subseteq Port /\ edits' \in 0..MaxTrouble
  BY <1>1, PruneFacts DEF TypeOK, Obsolete
<1> QED
  BY <1>1, <1>2, <1>3, <1>4, <1>5, PruneFacts, WorldShape DEF TypeOK, Revisions

LEMMA ShapeStep == ShapeInv /\ [Next]_vars => ShapeInv'
<1> SUFFICES ASSUME ShapeInv, [Next]_vars PROVE ShapeInv'
  OBVIOUS
<1>1. CASE Script
  BY <1>1, ShapeMergeLine, ShapeEndMerge, ShapeRemove, ShapeFill, ShapeClear, ShapeCopy,
     ShapeOverlay, ShapeInstall, ShapeMirror DEF Script
<1>2. CASE World
  BY <1>2, ShapeStartMerge, ShapeResetMerged, ShapePrune, ShapeKilled, ShapeMakeIndex,
     ShapeStartSync, ShapePublish, ShapeEdit, ShapeStartBuild, ShapeEndBuild, ShapeUpstream
     DEF World
<1>3. CASE UNCHANGED vars
  BY <1>3 DEF vars, ShapeInv, TypeOK, ControlInv, PieceInv
<1> QED
  BY <1>1, <1>2, <1>3 DEF Next

LEMMA Shape == Spec => []ShapeInv
  BY ShapeInit, ShapeStep, PTL DEF Spec

-----------------------------------------------------------------------------
(* What merge.sh has done with the ports that did not change since it began. *)

\* Ports with a line in INDEX, and custom ports without one.
Listed(p) == index[p] # Gone \/ kind[p] \in {"DPORT", "LOCK"}

Handled(p) == IsTree(merged[p]) <=> kind[p] # "MASK"

\* Up to date, or skipped on the word of its STATUS.
Fit(p) ==
    \/ kind[p] \in {"none", "new", "empty", "PORT"}
    \/ kind[p] = "DPORT" /\ attempt[p] # Bare
    => \/ merged[p] = Whole(p)
       \/ /\ kind[p] \in {"PORT", "DPORT"}
          /\ SameVersion(index[p], attempt[p]) /\ IsTree(merged[p])

Settled(p) == Handled(p) /\ Fit(p)

\* The line of an unchanged port still says its version.
TodoInv == \A l \in todo : l[1] \notin changed => l[2] = index[l[1]]

\* The unchanged port in hand is merged the way its STATUS asks for, and has a
\* directory once the old one is removed; WORKAREA holds what it asks for.
HandInv ==
    pc \in Steps /\ prog = "merge.sh" /\ cur \notin changed =>
      /\ how = MergedAs(cur) /\ kind[cur] # "MASK"
      /\ pc # "remove" => IsTree(merged[cur])
      /\ pc = "overlay" => area = FromPorts(cur)
      /\ pc = "install" => area = Whole(cur)

PassInv ==
    /\ prog # "none" => ~passed
    /\ prog = "merge.sh" =>
         \A p \in Port \ changed :
            Listed(p) => <<p, index[p]>> \in todo \/ InHand(p) \/ Settled(p)
    /\ prog # "merge.sh" =>
         \A p \in Port \ changed :
            Listed(p) => /\ fresh = "merged" => Handled(p)
                         /\ passed => Settled(p)

MergeInv == TodoInv /\ HandInv /\ PassInv

LEMMA MergeInit == Init => MergeInv
  BY DEF Init, MergeInv, TodoInv, HandInv, PassInv, Steps

Same(p) ==
    /\ fports'[p] = fports[p] /\ index'[p] = index[p] /\ kind'[p] = kind[p]
    /\ attempt'[p] = attempt[p] /\ delta'[p] = delta[p]

Quiet == changed \subseteq changed' /\ \A p \in Port \ changed' : Same(p)

LEMMA SameFacts ==
    ASSUME NEW p, Same(p)
    PROVE  /\ Listed(p)' <=> Listed(p)
           /\ MergedAs(p)' = MergedAs(p) /\ Whole(p)' = Whole(p) /\ FromPorts(p)' = FromPorts(p)
           /\ merged'[p] = merged[p] => /\ Handled(p)' <=> Handled(p)
                                        /\ Settled(p)' <=> Settled(p)
<1>1. Listed(p)' <=> Listed(p)
  BY DEF Same, Listed
<1>2. MergedAs(p)' = MergedAs(p)
  BY DEF Same, How, MergedAs
<1>3. FromPorts(p)' = FromPorts(p)
  BY DEF Same, FromPorts
<1>4. Whole(p)' = Whole(p)
  BY DEF Same, Whole, FromPorts, FromDelta
<1>5. ASSUME merged'[p] = merged[p] PROVE Handled(p)' <=> Handled(p)
  BY <1>5 DEF Same, Handled
<1>6. ASSUME merged'[p] = merged[p] PROVE Fit(p)' <=> Fit(p)
  BY <1>4, <1>6 DEF Same, Fit, SameVersion
<1> QED
  BY <1>1, <1>2, <1>3, <1>4, <1>5, <1>6 DEF Settled

LEMMA AllSame ==
    ASSUME UNCHANGED sources, changed' = changed
    PROVE  Quiet /\ \A p : Same(p)
  BY DEF sources, Quiet, Same

\* Steps beside the scripts.
LEMMA MergeBeside ==
    ASSUME ShapeInv, MergeInv, Quiet, UNCHANGED <<merged, area, script, fresh, passed>>
    PROVE  MergeInv'
<1>1. /\ TodoInv /\ HandInv /\ PassInv /\ TypeOK /\ ControlInv
      /\ UNCHANGED <<merged, area, prog, pc, todo, cur, how, fresh, passed>>
  BY DEF MergeInv, script, ShapeInv
<1>2. \A p \in Port \ changed' : Same(p) /\ p \notin changed
  BY DEF Quiet
<1>3. TodoInv'
  BY <1>1, <1>2 DEF TodoInv, TypeOK, Same
<1>4. HandInv'
  <2> SUFFICES ASSUME pc \in Steps, prog = "merge.sh", cur \notin changed'
               PROVE  HandInv'
    BY <1>1 DEF HandInv
  <2>1. cur \in Port /\ Same(cur) /\ cur \notin changed
    BY <1>1, <1>2 DEF ControlInv
  <2>2. /\ MergedAs(cur)' = MergedAs(cur)
        /\ Whole(cur)' = Whole(cur) /\ FromPorts(cur)' = FromPorts(cur)
    <3>1. \A c : c = cur => /\ MergedAs(c)' = MergedAs(c)
                            /\ Whole(c)' = Whole(c) /\ FromPorts(c)' = FromPorts(c)
      BY <2>1, SameFacts
    <3> QED
      BY <1>1, <3>1 DEF How, MergedAs, Whole, FromPorts, FromDelta
  <2> QED
    BY <1>1, <2>1, <2>2 DEF HandInv, Same
<1>5. PassInv'
  <2>1. \A p \in Port \ changed' :
          /\ Listed(p)' <=> Listed(p)
          /\ Handled(p)' <=> Handled(p)
          /\ Settled(p)' <=> Settled(p)
          /\ InHand(p)' <=> InHand(p)
          /\ index'[p] = index[p]
    BY <1>1, <1>2, SameFacts DEF Same, InHand
  <2> QED
    BY <1>1, <1>2, <2>1 DEF PassInv
<1> QED
  BY <1>3, <1>4, <1>5 DEF MergeInv

\* Steps of a script on the port in hand that leave it in hand.
LEMMA MergeInHand ==
    ASSUME ShapeInv, MergeInv, UNCHANGED <<sources, history, prog, todo, cur, how>>,
           pc \in Steps, pc' \in Steps,
           prog # "merge.sh" => merged' = merged,
           \A p \in Port \ {cur} : merged'[p] = merged[p],
           prog = "merge.sh" /\ cur \notin changed =>
             /\ IsTree(merged'[cur]) /\ pc' # "remove"
             /\ pc' = "overlay" => area' = FromPorts(cur)
             /\ pc' = "install" => area' = Whole(cur)
    PROVE  MergeInv'
<1>1. /\ TodoInv /\ HandInv /\ PassInv /\ TypeOK /\ ControlInv
      /\ changed' = changed /\ fresh' = fresh /\ passed' = passed
      /\ UNCHANGED <<prog, todo, cur, how>> /\ UNCHANGED sources
  BY DEF MergeInv, ShapeInv, history
<1>2. Quiet /\ \A p : Same(p)
  BY <1>1, AllSame
<1>3. TodoInv'
  BY <1>1 DEF TodoInv, sources
<1>4. HandInv'
  <2>1. /\ how' = how /\ cur' = cur /\ MergedAs(cur)' = MergedAs(cur) /\ kind' = kind
        /\ Whole(cur)' = Whole(cur) /\ FromPorts(cur)' = FromPorts(cur)
    BY <1>1 DEF How, MergedAs, Whole, FromPorts, FromDelta, sources
  <2> QED
    BY <1>1, <2>1 DEF HandInv
<1>5. PassInv'
  <2>1. \A p \in Port : Listed(p)' <=> Listed(p)
    BY <1>2, SameFacts
  <2>2. \A p \in Port : merged'[p] = merged[p] => (Handled(p)' <=> Handled(p))
    BY <1>2, SameFacts
  <2>3. \A p \in Port : merged'[p] = merged[p] => (Settled(p)' <=> Settled(p))
    BY <1>2, SameFacts
  <2>4. index' = index /\ \A p \in Port : InHand(p)' <=> InHand(p)
    BY <1>1 DEF InHand, sources
  <2>5. CASE prog = "merge.sh"
    <3>1. \A p \in Port \ {cur} : Settled(p)' <=> Settled(p)
      BY <2>3
    <3>2. InHand(cur)'
      BY <1>1 DEF InHand
    <3> QED
      BY <1>1, <2>1, <2>4, <2>5, <3>1, <3>2 DEF PassInv
  <2>6. CASE prog # "merge.sh"
    <3>1. \A p \in Port : merged'[p] = merged[p]
      BY <2>6
    <3> QED
      BY <1>1, <2>1, <2>2, <2>3, <2>6, <3>1 DEF PassInv
  <2> QED
    BY <2>5, <2>6
<1> QED
  BY <1>3, <1>4, <1>5 DEF MergeInv

\* The last step that makes a tree.
LEMMA MergeMade ==
    ASSUME ShapeInv, MergeInv, UNCHANGED <<sources, prog, todo>>,
           pc \in Steps, pc' = Made, Done,
           prog # "merge.sh" => merged' = merged,
           \A p \in Port \ {cur} : merged'[p] = merged[p],
           \A p \in Port \ changed : prog = "merge.sh" /\ p = cur => Settled(p)'
    PROVE  MergeInv'
<1>1. /\ TodoInv /\ HandInv /\ PassInv /\ TypeOK /\ ControlInv
      /\ changed' = changed /\ fresh' = fresh /\ passed' = passed
      /\ UNCHANGED <<prog, todo>> /\ UNCHANGED sources
  BY DEF MergeInv, ShapeInv, Done
<1>2. Quiet /\ \A p : Same(p)
  BY <1>1, AllSame
<1>3. TodoInv'
  BY <1>1 DEF TodoInv, sources
<1>4. HandInv'
  BY <1>1 DEF HandInv, Made, Steps
<1>5. PassInv'
  <2>1. \A p \in Port : Listed(p)' <=> Listed(p)
    BY <1>2, SameFacts
  <2>2. \A p \in Port : merged'[p] = merged[p] => (Handled(p)' <=> Handled(p))
    BY <1>2, SameFacts
  <2>3. \A p \in Port : merged'[p] = merged[p] => (Settled(p)' <=> Settled(p))
    BY <1>2, SameFacts
  <2>4. index' = index
    BY <1>1 DEF sources
  <2>5. CASE prog = "merge.sh"
    <3>1. ASSUME NEW p \in Port \ changed, Listed(p)
          PROVE  <<p, index[p]>> \in todo \/ Settled(p)'
      <4>1. CASE InHand(p)
        BY <2>5, <3>1, <4>1 DEF InHand
      <4>2. CASE ~InHand(p)
        <5>1. p # cur
          BY <4>2 DEF InHand
        <5> QED
          BY <1>1, <2>3, <2>5, <3>1, <4>2, <5>1 DEF PassInv
      <4> QED
        BY <4>1, <4>2
    <3> QED
      BY <1>1, <2>1, <2>4, <2>5, <3>1 DEF PassInv
  <2>6. CASE prog # "merge.sh"
    <3>1. \A p \in Port : merged'[p] = merged[p]
      BY <2>6
    <3> QED
      BY <1>1, <2>1, <2>2, <2>3, <2>6, <3>1 DEF PassInv
  <2> QED
    BY <2>5, <2>6
<1> QED
  BY <1>3, <1>4, <1>5 DEF MergeInv

LEMMA HandFacts ==
    ASSUME ShapeInv, MergeInv, pc \in Steps, prog = "merge.sh", cur \notin changed
    PROVE  /\ cur \in Port /\ kind[cur] # "MASK"
           /\ how = "DPORT" <=> (kind[cur] = "DPORT" /\ attempt[cur] # Bare)
           /\ how = "LOCK" <=> kind[cur] = "LOCK"
           /\ how = "FAST" <=> kind[cur] = "none"
           /\ how = "PORT" <=> (\/ kind[cur] \in {"new", "empty", "PORT"}
                               \/ (kind[cur] = "DPORT" /\ attempt[cur] = Bare))
<1>1. cur \in Port /\ how = MergedAs(cur) /\ kind[cur] # "MASK"
  BY DEF ShapeInv, ControlInv, MergeInv, HandInv
<1>2. kind[cur] \in {"none", "new", "empty", "PORT", "DPORT", "LOCK", "MASK"}
  BY <1>1 DEF ShapeInv, TypeOK
<1>3. CASE kind[cur] = "none"
  BY <1>1, <1>3 DEF How, MergedAs
<1>4. CASE kind[cur] = "LOCK"
  BY <1>1, <1>4 DEF How, MergedAs
<1>5. CASE kind[cur] = "DPORT"
  BY <1>1, <1>5 DEF How, MergedAs
<1>6. CASE kind[cur] \in {"new", "empty", "PORT"}
  <2>1. MergedAs(cur) = "PORT"
    BY <1>6 DEF How, MergedAs
  <2> QED
    BY <1>1, <1>6, <2>1
<1> QED
  BY <1>1, <1>2, <1>3, <1>4, <1>5, <1>6

LEMMA MergeRemove == ASSUME ShapeInv, MergeInv, Remove PROVE MergeInv'
<1>1. /\ TypeOK /\ ControlInv /\ PieceInv /\ pc = "remove" /\ pc' = "fill"
      /\ Make(IF how = "LOCK" /\ IsTree(M1) THEN M1 ELSE {})
      /\ UNCHANGED <<sources, history, prog, todo, cur, how>>
  BY DEF ShapeInv, Remove, Go
<1>2. cur \in Port
  BY <1>1 DEF ControlInv, Steps
<1>3. IsTree(IF how = "LOCK" /\ IsTree(M1) THEN M1 ELSE {})
  BY TreeFacts
<1>4. /\ prog # "merge.sh" => merged' = merged
      /\ \A p \in Port \ {cur} : merged'[p] = merged[p]
      /\ prog = "merge.sh" => IsTree(merged'[cur])
  BY <1>1, <1>2, <1>3, MakeFacts
<1> QED
  BY <1>1, <1>4, MergeInHand DEF Steps

\* What a port that is not overlaid asks for is in FPORTS.
LEMMA WholeFacts ==
    ASSUME ShapeInv, MergeInv, pc \in Steps, prog = "merge.sh", cur \notin changed,
           how \in {"FAST", "PORT"}
    PROVE  /\ ~Overlaid => Whole(cur) = FromPorts(cur)
           /\ Overlaid => Whole(cur) = FromPorts(cur) \cup FromDelta(cur, "overlay")
<1>1. /\ how = "FAST" <=> kind[cur] = "none"
      /\ how = "PORT" <=> (\/ kind[cur] \in {"new", "empty", "PORT"}
                          \/ (kind[cur] = "DPORT" /\ attempt[cur] = Bare))
  BY HandFacts
<1>2. CASE how = "FAST"
  BY <1>1, <1>2 DEF Whole, Overlaid
<1>3. CASE how = "PORT"
  <2>1. Whole(cur) = FromPorts(cur) \cup FromDelta(cur, "overlay")
    BY <1>1, <1>3 DEF Whole
  <2>2. ~Overlaid => FromDelta(cur, "overlay") = {}
    BY <1>3 DEF Overlaid, FromDelta
  <2> QED
    BY <2>1, <2>2
<1> QED
  BY <1>2, <1>3

LEMMA MergeFill == ASSUME ShapeInv, MergeInv, Fill PROVE MergeInv'
<1>1. /\ TypeOK /\ ControlInv /\ PieceInv /\ HandInv
      /\ pc = "fill" /\ pc \in Steps /\ pc' = Made /\ Done
      /\ UNCHANGED <<sources, prog, todo>> /\ changed' = changed
  BY DEF ShapeInv, MergeInv, Fill, Go, Steps, Done
<1>2. cur \in Port
  BY <1>1 DEF ControlInv
<1>3. PICK t : /\ Make(t)
               /\ \/ how = "DPORT" /\ t = FromDelta(cur, "newport")
                  \/ how = "LOCK" /\ t = (IF IsTree(dports[cur]) THEN dports[cur] ELSE M1)
                  \/ how \in {"FAST", "PORT"} /\ ~Overlaid /\ t = FromPorts(cur)
  BY DEF Fill
<1>4. /\ prog # "merge.sh" => merged' = merged
      /\ \A p \in Port \ {cur} : merged'[p] = merged[p]
      /\ prog = "merge.sh" => merged'[cur] = t
  BY <1>1, <1>2, <1>3, MakeFacts
<1>5. ASSUME NEW p \in Port \ changed, prog = "merge.sh", p = cur
      PROVE  Settled(p)'
  <2>1. IsTree(t)
    <3>1. CASE how = "LOCK"
      BY <1>1, <1>3, <1>5, <3>1 DEF HandInv, M1
    <3>2. CASE how # "LOCK"
      BY <1>1, <1>2, <1>3, <3>2, FromFacts, TreeFacts DEF Own
    <3> QED
      BY <3>1, <3>2
  <2>2. Same(p) /\ kind[p] # "MASK" /\ kind'[p] = kind[p] /\ merged'[p] = t
    BY <1>1, <1>4, <1>5, HandFacts DEF sources, Same
  <2>3. Handled(p)'
    BY <2>1, <2>2 DEF Handled
  <2>4. CASE how \in {"FAST", "PORT"}
    <3>1. t = Whole(p)
      BY <1>1, <1>3, <1>5, <2>4, WholeFacts
    <3>2. Whole(p)' = Whole(p)
      BY <2>2, SameFacts
    <3> QED
      BY <2>2, <2>3, <3>1, <3>2 DEF Settled, Fit
  <2>5. CASE how = "DPORT"
    <3>1. kind[p] = "DPORT" /\ attempt[p] # Bare
      BY <1>1, <1>5, <2>5, HandFacts
    <3>2. t = Whole(p)
      BY <1>3, <1>5, <2>5, <3>1 DEF Whole
    <3>3. Whole(p)' = Whole(p)
      BY <2>2, SameFacts
    <3> QED
      BY <2>2, <2>3, <3>2, <3>3 DEF Settled, Fit
  <2>6. CASE how = "LOCK"
    <3>1. kind'[p] = "LOCK"
      BY <1>1, <1>5, <2>2, <2>6, HandFacts
    <3> QED
      BY <2>3, <3>1 DEF Settled, Fit
  <2> QED
    BY <1>3, <2>4, <2>5, <2>6
<1> QED
  BY <1>1, <1>4, <1>5, MergeMade

LEMMA MergeClear == ASSUME ShapeInv, MergeInv, Clear PROVE MergeInv'
<1>1. /\ pc = "fill" /\ pc' = "copy" /\ merged' = merged /\ HandInv
      /\ UNCHANGED <<sources, history, prog, todo, cur, how>>
  BY DEF MergeInv, Clear, Go, trees
<1>2. prog = "merge.sh" /\ cur \notin changed => IsTree(merged'[cur])
  BY <1>1 DEF HandInv, Steps
<1> QED
  BY <1>1, <1>2, MergeInHand DEF Steps

LEMMA MergeCopy == ASSUME ShapeInv, MergeInv, Copy PROVE MergeInv'
<1>1. /\ pc = "copy" /\ merged' = merged /\ HandInv
      /\ UNCHANGED <<sources, history, prog, todo, cur, how>>
  BY DEF MergeInv, Copy, Go, trees
<1>2. /\ area' = FromPorts(cur) /\ how \in {"FAST", "PORT"}
      /\ pc' = (IF Overlaid THEN "overlay" ELSE "install")
  BY CopyFacts
<1>3. prog = "merge.sh" /\ cur \notin changed =>
        /\ IsTree(merged'[cur])
        /\ pc' = "install" => area' = Whole(cur)
  BY <1>1, <1>2, WholeFacts DEF HandInv, Steps
<1> QED
  BY <1>1, <1>2, <1>3, MergeInHand DEF Steps

LEMMA MergeOverlay == ASSUME ShapeInv, MergeInv, Overlay PROVE MergeInv'
<1>1. /\ pc = "overlay" /\ pc' = "install" /\ merged' = merged /\ HandInv /\ ControlInv
      /\ area' = area \cup FromDelta(cur, "overlay")
      /\ UNCHANGED <<sources, history, prog, todo, cur, how>>
  BY DEF MergeInv, ShapeInv, Overlay, Go, trees
<1>2. how = "PORT"
  BY <1>1 DEF ControlInv
<1>3. prog = "merge.sh" /\ cur \notin changed => IsTree(merged'[cur]) /\ area' = Whole(cur)
  <2> SUFFICES ASSUME prog = "merge.sh", cur \notin changed
               PROVE  IsTree(merged'[cur]) /\ area' = Whole(cur)
    OBVIOUS
  <2>1. IsTree(merged[cur]) /\ area = FromPorts(cur)
    BY <1>1 DEF HandInv, Steps
  <2>2. \/ kind[cur] \in {"new", "empty", "PORT"}
        \/ kind[cur] = "DPORT" /\ attempt[cur] = Bare
    BY <1>1, <1>2, HandFacts DEF Steps
  <2>3. Whole(cur) = FromPorts(cur) \cup FromDelta(cur, "overlay")
    BY <2>2 DEF Whole
  <2> QED
    BY <1>1, <2>1, <2>3
<1> QED
  BY <1>1, <1>3, MergeInHand DEF Steps

LEMMA MergeInstall == ASSUME ShapeInv, MergeInv, Install PROVE MergeInv'
<1>1. /\ TypeOK /\ ControlInv /\ PieceInv /\ HandInv
      /\ pc = "install" /\ pc \in Steps /\ pc' = Made /\ Done /\ Make(area)
      /\ UNCHANGED <<sources, prog, todo>> /\ changed' = changed
  BY DEF ShapeInv, MergeInv, Install, Go, Steps, Done
<1>2. cur \in Port
  BY <1>1 DEF ControlInv
<1>3. /\ prog # "merge.sh" => merged' = merged
      /\ \A p \in Port \ {cur} : merged'[p] = merged[p]
      /\ prog = "merge.sh" => merged'[cur] = area
  BY <1>1, <1>2, MakeFacts
<1>4. ASSUME NEW p \in Port \ changed, prog = "merge.sh", p = cur
      PROVE  Settled(p)'
  <2>1. IsTree(area)
    BY <1>1, TreeFacts DEF PieceInv, Own
  <2>2. /\ Same(p) /\ kind[p] # "MASK" /\ kind'[p] = kind[p] /\ merged'[p] = area
        /\ area = Whole(p)
    BY <1>1, <1>3, <1>4, HandFacts DEF HandInv, sources, Same
  <2>3. Whole(p)' = Whole(p)
    BY <2>2, SameFacts
  <2> QED
    BY <2>1, <2>2, <2>3 DEF Settled, Handled, Fit
<1> QED
  BY <1>1, <1>3, <1>4, MergeMade

LEMMA MergeMergeLine ==
    ASSUME ShapeInv, MergeInv, NEW l \in todo, MergeLine(l)
    PROVE  MergeInv'
<1>1. /\ TypeOK /\ ControlInv /\ TodoInv /\ PassInv
      /\ pc = "next" /\ prog = "merge.sh" /\ prog' = prog /\ todo' = todo \ {l}
      /\ changed' = changed /\ passed' = passed /\ UNCHANGED sources
  BY DEF ShapeInv, ControlInv, MergeInv, MergeLine, history
<1>2. /\ l \in Port \X Version /\ l = <<l[1], l[2]>> /\ l[1] \in Port
      /\ \A p \in Port : merged'[p] = merged[p] \/ (p = l[1] /\ merged'[p] = NoTree)
  BY <1>1 DEF TypeOK, MergeLine
<1>3. Quiet /\ (\A p : Same(p)) /\ index' = index /\ kind' = kind
  BY <1>1, AllSame DEF sources
<1>4. TodoInv'
  BY <1>1, <1>3 DEF TodoInv
<1>5. HandInv'
  <2>1. CASE pc' = "next"
    BY <2>1 DEF HandInv, Steps
  <2>2. CASE pc' # "next"
    <3>1. /\ pc' = "remove" /\ cur' = l[1] /\ how' = MergedAs(l[1]) /\ kind[l[1]] # "MASK"
      BY <1>1, <2>2 DEF MergeLine
    <3>2. attempt' = attempt
      BY <1>1 DEF sources
    <3>3. MergedAs(cur)' = MergedAs(l[1])
      BY <1>3, <3>1, <3>2 DEF How, MergedAs
    <3> QED
      BY <1>3, <3>1, <3>3 DEF HandInv
  <2> QED
    BY <2>1, <2>2
<1>6. ASSUME NEW p \in Port \ changed, Listed(p)
      PROVE  <<p, index[p]>> \in todo' \/ InHand(p)' \/ Settled(p)'
  <2>1. <<p, index[p]>> \in todo \/ Settled(p)
    BY <1>1, <1>6 DEF PassInv, InHand, Steps
  <2>2. CASE p # l[1]
    <3>1. merged'[p] = merged[p] /\ <<p, index[p]>> # l
      BY <1>2, <2>2
    <3> QED
      BY <1>1, <1>3, <2>1, <3>1, SameFacts
  <2>3. CASE p = l[1] /\ kind[p] = "MASK"
    <3>1. merged'[p] = NoTree /\ kind'[p] = "MASK"
      BY <1>1, <1>2, <1>3, <2>3 DEF MergeLine, TypeOK
    <3> QED
      BY <3>1 DEF Settled, Handled, Fit, IsTree
  <2>4. CASE p = l[1] /\ kind[p] # "MASK" /\ Skip(p, l[2])
    <3>1. merged' = merged
      BY <2>4 DEF MergeLine
    <3>2. Handled(p)
      BY <2>4 DEF Skip, Handled
    <3>3. l[2] = index[p]
      BY <1>1, <1>6, <2>4 DEF TodoInv
    <3>4. Fit(p)
      BY <2>4, <3>3 DEF Fit, Skip, Handled
    <3> QED
      BY <1>3, <3>1, <3>2, <3>4, SameFacts DEF Settled
  <2>5. CASE p = l[1] /\ kind[p] # "MASK" /\ ~Skip(p, l[2])
    BY <2>5 DEF MergeLine, InHand, Steps
  <2> QED
    BY <2>2, <2>3, <2>4, <2>5
<1>7. PassInv'
  <2>1. \A p \in Port : Listed(p)' <=> Listed(p)
    BY <1>3, SameFacts
  <2> QED
    BY <1>1, <1>3, <1>6, <2>1 DEF PassInv
<1> QED
  BY <1>4, <1>5, <1>7 DEF MergeInv

LEMMA MergeEndMerge == ASSUME ShapeInv, MergeInv, EndMerge PROVE MergeInv'
<1>1. /\ PassInv /\ ControlInv /\ pc = "next" /\ todo = {} /\ todo' = {}
      /\ pc' = "idle" /\ prog' = "none" /\ merged' = merged /\ UNCHANGED sources
      /\ changed' = changed
  BY DEF ShapeInv, MergeInv, EndMerge, trees
<1>2. prog = "merge.sh"
  BY <1>1 DEF ControlInv
<1>3. \A p \in Port \ changed : Listed(p) => Settled(p)
  BY <1>1, <1>2 DEF PassInv, InHand, Steps
<1>4. \A p : /\ Listed(p)' <=> Listed(p)
             /\ Settled(p)' <=> Settled(p)
  BY <1>1, AllSame, SameFacts
<1>5. PassInv'
  BY <1>1, <1>3, <1>4 DEF PassInv, Settled
<1> QED
  BY <1>1, <1>5 DEF MergeInv, TodoInv, HandInv

LEMMA MergeStartMerge == ASSUME ShapeInv, MergeInv, StartMerge PROVE MergeInv'
<1>1. /\ pc' = "next" /\ prog' = "merge.sh" /\ todo' = Lines /\ passed' = FALSE
      /\ changed' = {} /\ index' = index /\ kind' = kind /\ TypeOK
  BY DEF ShapeInv, StartMerge, Go, sources
<1>2. \A l \in Lines : l[2] = index[l[1]]
  BY DEF Lines, Gone
<1>3. \A p \in Port : Listed(p)' => <<p, index[p]>> \in Lines
  <2> SUFFICES ASSUME NEW p \in Port, Listed(p)' PROVE <<p, index[p]>> \in Lines
    OBVIOUS
  <2>1. index[p] \in Version /\ (index[p] # Gone \/ kind[p] \in {"DPORT", "LOCK"})
    BY <1>1 DEF TypeOK, Listed
  <2>2. <<p, index[p]>> \in Port \X Version
    BY <2>1
  <2> QED
    BY <2>1, <2>2 DEF Lines, Gone
<1> QED
  BY <1>1, <1>2, <1>3 DEF MergeInv, TodoInv, HandInv, PassInv, Steps

LEMMA MergeMirror == ASSUME ShapeInv, MergeInv, Mirror PROVE MergeInv'
<1>1. /\ PassInv /\ ControlInv /\ TypeOK /\ pc = "mirror" /\ pc' = "idle" /\ prog' = "none"
      /\ UNCHANGED <<sources, todo, history>>
      /\ \A p \in Port : merged'[p] = merged[p] \/ (IsTree(merged[p]) /\ IsTree(merged'[p]))
  BY DEF ShapeInv, MergeInv, Mirror, Go, TypeOK
<1>2. prog = "sync1.sh" /\ todo' = {}
  BY <1>1 DEF ControlInv
<1>3. changed' = changed /\ fresh' = fresh /\ passed' = passed
  BY <1>1 DEF history
<1>4. \A p \in Port \ changed : Listed(p) /\ fresh = "merged" => Handled(p)
  BY <1>1, <1>2 DEF PassInv
<1>5. \A p \in Port : /\ Listed(p)' <=> Listed(p)
                      /\ Handled(p)' <=> Handled(p)
  <2> TAKE p \in Port
  <2>1. kind' = kind /\ index' = index
    BY <1>1 DEF sources
  <2> QED
    BY <1>1, <2>1 DEF Listed, Handled, IsTree
<1>6. PassInv'
  BY <1>1, <1>2, <1>3, <1>4, <1>5 DEF PassInv
<1> QED
  BY <1>1, <1>2, <1>6 DEF MergeInv, TodoInv, HandInv

LEMMA MergeStartSync ==
    ASSUME ShapeInv, MergeInv, NEW p \in Active, StartSync(p)
    PROVE  MergeInv'
<1>1. /\ PassInv /\ ControlInv /\ pc = "idle" /\ prog' = "sync1.sh" /\ passed' = FALSE
      /\ UNCHANGED <<sources, merged, todo, fresh, changed>>
  BY DEF ShapeInv, MergeInv, StartSync
<1>2. prog = "none" /\ todo' = {}
  BY <1>1 DEF ControlInv
<1>3. \A q : /\ Listed(q)' <=> Listed(q)
             /\ Handled(q)' <=> Handled(q)
  BY <1>1, AllSame, SameFacts
<1>4. PassInv'
  BY <1>1, <1>2, <1>3 DEF PassInv
<1> QED
  BY <1>1, <1>2, <1>4 DEF MergeInv, TodoInv, HandInv

LEMMA MergeStops ==
    ASSUME ShapeInv, Killed \/ ResetMerged
    PROVE  MergeInv'
<1>1. pc' = "idle" /\ prog' = "none" /\ passed' = FALSE /\ fresh' # "merged" /\ todo' = {}
  BY DEF ShapeInv, ControlInv, Killed, ResetMerged, Idle, script
<1> QED
  BY <1>1 DEF MergeInv, TodoInv, HandInv, PassInv, Steps

LEMMA MergeWorld ==
    ASSUME ShapeInv, MergeInv,
           \/ Prune \/ (\E lost \in SUBSET Fragile : MakeIndex(lost))
           \/ \E p \in Active :
                 \/ Publish(p) \/ Edit(p) \/ StartBuild(p)
                 \/ \E success \in BOOLEAN : EndBuild(p, success)
                 \/ \E v \in Version : Upstream(p, v)
    PROVE  MergeInv'
<1>1. TypeOK
  BY DEF ShapeInv
<1>2. ASSUME Prune PROVE Quiet /\ UNCHANGED <<merged, area, script, fresh, passed>>
  <2>1. \A p \in Port \ changed' : p \notin Obsolete
    BY <1>2, PruneFacts
  <2>2. kind' = [p \in Port |-> IF p \in Obsolete THEN "none" ELSE kind[p]]
    BY <1>2, PruneFacts
  <2>3. \A p \in Port \ Obsolete : Same(p)
    BY <1>2, PruneFacts DEF Same
  <2> QED
    BY <1>2, <2>1, <2>3, PruneFacts DEF Quiet
<1>3. ASSUME NEW lost \in SUBSET Fragile, MakeIndex(lost)
      PROVE  Quiet /\ UNCHANGED <<merged, area, script, fresh, passed>>
  BY <1>1, <1>3 DEF MakeIndex, Quiet, Same, trees, TypeOK
<1>4. ASSUME NEW p \in Active, Publish(p)
      PROVE  Quiet /\ UNCHANGED <<merged, area, script, fresh, passed>>
  BY <1>4, AllSame DEF Publish, history
<1>5. ASSUME NEW p \in Active, Edit(p)
      PROVE  Quiet /\ UNCHANGED <<merged, area, script, fresh, passed>>
  BY <1>1, <1>5, EditFacts DEF Quiet, Same, TypeOK
<1>6. ASSUME NEW p \in Active, StartBuild(p)
      PROVE  Quiet /\ UNCHANGED <<merged, area, script, fresh, passed>>
  BY <1>6, AllSame DEF StartBuild, history, trees
<1>7. ASSUME NEW p \in Active, NEW success \in BOOLEAN, EndBuild(p, success)
      PROVE  Quiet /\ UNCHANGED <<merged, area, script, fresh, passed>>
  BY <1>1, <1>7 DEF EndBuild, Quiet, Same, Touch, TypeOK
<1>8. ASSUME NEW p \in Active, NEW v \in Version, Upstream(p, v)
      PROVE  Quiet /\ UNCHANGED <<merged, area, script, fresh, passed>>
  BY <1>1, <1>8 DEF Upstream, Quiet, Same, Touch, TypeOK, trees
<1>9. Quiet /\ UNCHANGED <<merged, area, script, fresh, passed>>
  BY <1>2, <1>3, <1>4, <1>5, <1>6, <1>7, <1>8
<1> QED
  BY <1>9, MergeBeside

LEMMA MergeStep == ShapeInv /\ MergeInv /\ [Next]_vars => MergeInv'
<1> SUFFICES ASSUME ShapeInv, MergeInv, [Next]_vars PROVE MergeInv'
  OBVIOUS
<1>1. CASE Script
  BY <1>1, MergeMergeLine, MergeEndMerge, MergeRemove, MergeFill, MergeClear, MergeCopy,
     MergeOverlay, MergeInstall, MergeMirror DEF Script
<1>2. CASE World
  BY <1>2, MergeStartMerge, MergeStops, MergeWorld, MergeStartSync DEF World
<1>3. CASE UNCHANGED vars
  <2>1. Quiet /\ UNCHANGED <<merged, area, script, fresh, passed>>
    BY <1>3 DEF vars, Quiet, Same, script
  <2> QED
    BY <2>1, MergeBeside
<1> QED
  BY <1>1, <1>2, <1>3 DEF Next

LEMMA Merging == Spec => [](ShapeInv /\ MergeInv)
  BY ShapeInit, ShapeStep, MergeInit, MergeStep, PTL DEF Spec

-----------------------------------------------------------------------------
(* The versions that trees and attempts hold. *)

\* No tree, and no attempt, is ahead of FPORTS, where the port still is.
Within(t, p) ==
    IsTree(t) /\ fports[p] # Gone => \A x \in t : x[1] = "ports" => x[3] <= fports[p]

VersionInv ==
    /\ \A p \in Port :
          /\ Within(merged[p], p)
          /\ Within(potential[p], p)
          /\ Within(dports[p], p)
          /\ Within(building[p], p)
          /\ fports[p] = Gone \/ attempt[p] <= fports[p] \/ attempt[p] > MaxVersion
    /\ pc \in {"overlay", "install"} => Within(area, cur)

LEMMA VersionInit == Init => VersionInv
  BY BoundAssumption DEF Init, VersionInv, Within, IsTree, Never

LEMMA FromWithin ==
    ASSUME TypeOK, NEW p \in Port
    PROVE  /\ Within(FromPorts(p), p)
           /\ Within(FromDelta(p, "overlay"), p) /\ Within(FromDelta(p, "newport"), p)
<1>1. fports[p] \in Int
  BY BoundAssumption DEF TypeOK, Version
<1> QED
  BY <1>1, FromFacts DEF Within, FromPorts, FromDelta

LEMMA VersionMake ==
    ASSUME ShapeInv, VersionInv, cur \in Port, NEW t, Make(t), Within(t, cur),
           UNCHANGED <<sources, building>>, pc' \notin {"overlay", "install"}
    PROVE  VersionInv'
<1>1. /\ TypeOK /\ fports' = fports /\ attempt' = attempt /\ building' = building
  BY DEF ShapeInv, sources
<1>2. \A p \in Port : /\ merged'[p] \in {merged[p], t} /\ (merged'[p] # merged[p] => p = cur)
                      /\ potential'[p] \in {potential[p], t} /\ (potential'[p] # potential[p] => p = cur)
                      /\ dports'[p] = dports[p]
  BY <1>1, MakeFacts
<1>3. \A p \in Port : Within(merged'[p], p) /\ Within(potential'[p], p)
  BY <1>2 DEF VersionInv
<1> QED
  BY <1>1, <1>2, <1>3 DEF VersionInv, Within

LEMMA VersionScript == ASSUME ShapeInv, VersionInv, Script PROVE VersionInv'
<1>1. TypeOK /\ ControlInv /\ PieceInv
  BY DEF ShapeInv
<1>2. ASSUME NEW l \in todo, MergeLine(l) PROVE VersionInv'
  <2>1. /\ pc' \in {"next", "remove"}
        /\ UNCHANGED <<fports, attempt, potential, dports, building>>
        /\ \A p \in Port : merged'[p] \in {merged[p], NoTree}
    BY <1>1, <1>2 DEF MergeLine, sources, TypeOK
  <2> QED
    BY <2>1 DEF VersionInv, Within, IsTree
<1>3. CASE EndMerge
  BY <1>3 DEF EndMerge, VersionInv, Within, sources, trees
<1>4. CASE Remove
  <2>1. cur \in Port /\ Within(IF how = "LOCK" /\ IsTree(M1) THEN M1 ELSE {}, cur)
    BY <1>1, <1>4 DEF Remove, Go, ControlInv, Steps, VersionInv, M1, Within
  <2> QED
    BY <1>4, <2>1, VersionMake DEF Remove, Go
<1>5. CASE Fill
  <2>1. cur \in Port /\ pc' \notin {"overlay", "install"} /\ UNCHANGED <<sources, building>>
    BY <1>1, <1>5 DEF Fill, Go, ControlInv, Steps, Made
  <2>2. PICK t : /\ Make(t)
                 /\ \/ t = FromDelta(cur, "newport")
                    \/ t = dports[cur] \/ t = M1
                    \/ t = FromPorts(cur)
    BY <1>5 DEF Fill
  <2>3. Within(t, cur)
    BY <1>1, <2>1, <2>2, FromWithin DEF VersionInv, M1
  <2> QED
    BY <2>1, <2>2, <2>3, VersionMake
<1>6. CASE Clear
  BY <1>6 DEF Clear, Go, VersionInv, Within, sources, trees
<1>7. CASE Copy
  <2>1. UNCHANGED <<fports, attempt, merged, potential, dports, building, cur>>
    BY <1>7 DEF Copy, sources, trees
  <2>2. Within(area', cur)
    BY <1>1, <1>7, CopyFacts, FromWithin
  <2> QED
    BY <2>1, <2>2 DEF VersionInv, Within
<1>8. CASE Overlay
  <2>1. /\ UNCHANGED <<fports, attempt, merged, potential, dports, building, cur>>
        /\ area' = area \cup FromDelta(cur, "overlay") /\ pc = "overlay"
    BY <1>8 DEF Overlay, Go, sources, trees
  <2>2. cur \in Port /\ Within(area, cur) /\ Own(area, cur)
    BY <1>1, <2>1 DEF VersionInv, ControlInv, PieceInv, Steps
  <2>3. Within(area', cur)
    BY <1>1, <2>1, <2>2, FromFacts, TreeFacts DEF Within, Own
  <2> QED
    BY <2>1, <2>3 DEF VersionInv, Within
<1>9. CASE Install
  <2>1. /\ cur \in Port /\ pc' \notin {"overlay", "install"} /\ UNCHANGED <<sources, building>>
        /\ Within(area, cur) /\ Make(area)
    BY <1>1, <1>9 DEF Install, Go, ControlInv, VersionInv, Steps, Made
  <2> QED
    BY <2>1, VersionMake
<1>10. CASE Mirror
  <2>1. /\ pc' = "idle" /\ UNCHANGED <<fports, attempt, potential, dports, building>>
        /\ \A p \in Port : merged'[p] \in {merged[p], potential[p]}
    BY <1>1, <1>10 DEF Mirror, Go, sources, TypeOK
  <2> QED
    BY <2>1 DEF VersionInv, Within
<1> QED
  BY <1>2, <1>3, <1>4, <1>5, <1>6, <1>7, <1>8, <1>9, <1>10 DEF Script

LEMMA VersionEndBuild ==
    ASSUME ShapeInv, VersionInv, NEW p \in Active, NEW success \in BOOLEAN, EndBuild(p, success)
    PROVE  VersionInv'
<1>1. TypeOK /\ PieceInv /\ p \in Port
  BY PortAssumption DEF ShapeInv
<1>2. PICK v \in Built(building[p]) : attempt' = [attempt EXCEPT ![p] = v]
  BY DEF EndBuild
<1>3. /\ IsTree(building[p]) /\ UNCHANGED <<fports, merged, potential, area, pc, cur>>
      /\ \A q \in Port : /\ dports'[q] \in {dports[q], potential[q]}
                         /\ building'[q] \in {building[q], NoTree}
  BY <1>1 DEF EndBuild, script, TypeOK
<1>4. fports[p] = Gone \/ v <= fports[p] \/ v > MaxVersion
  <2>1. building[p] \subseteq Piece
    BY <1>1, <1>3 DEF PieceInv, Own
  <2>2. v \in Int /\ (v <= MaxVersion => \E x \in building[p] : x[1] = "ports" /\ x[3] = v)
    BY <2>1, BuiltFacts, BoundAssumption
  <2> QED
    BY <1>1, <1>3, <2>2, BoundAssumption DEF VersionInv, Within
<1>5. \A q \in Port : fports[q] = Gone \/ attempt'[q] <= fports[q] \/ attempt'[q] > MaxVersion
  BY <1>1, <1>2, <1>4 DEF VersionInv, TypeOK
<1>6. \A q \in Port : Within(dports[q], q)' /\ Within(building[q], q)'
  BY <1>3 DEF VersionInv, Within, IsTree
<1> QED
  BY <1>3, <1>5, <1>6 DEF VersionInv, Within

LEMMA VersionUpstream ==
    ASSUME ShapeInv, VersionInv, NEW p \in Active, NEW v \in Version, Upstream(p, v)
    PROVE  VersionInv'
<1>1. TypeOK /\ ControlInv /\ PieceInv /\ p \in Port /\ fports[p] \in 0..MaxVersion
  BY PortAssumption DEF ShapeInv, TypeOK, Version
<1>2. /\ v = fports[p] + 1 \/ v = Gone
      /\ fports[p] # Gone /\ fports' = [fports EXCEPT ![p] = v]
      /\ UNCHANGED <<attempt, merged, potential, dports, building, area, pc, cur>>
  BY DEF Upstream, trees, script
<1>3. \A q \in Port : /\ fports'[q] # Gone => fports[q] # Gone /\ fports[q] <= fports'[q]
                      /\ fports[q] \in Int /\ fports'[q] \in Int /\ attempt[q] \in Int
  BY <1>1, <1>2, BoundAssumption DEF TypeOK, Version, Gone
<1>4. \A x \in Piece : x[1] = "ports" => x[3] \in Int
  BY PieceFacts, BoundAssumption
<1>5. \A q \in Port : \A t \in SUBSET Piece : Within(t, q) =>
        (IsTree(t) /\ fports'[q] # Gone => \A x \in t : x[1] = "ports" => x[3] <= fports'[q])
  BY <1>3, <1>4 DEF Within
<1>6. \A q \in Port : /\ Within(merged[q], q)' /\ Within(potential[q], q)'
                      /\ Within(dports[q], q)' /\ Within(building[q], q)'
  BY <1>1, <1>2, <1>5 DEF VersionInv, PieceInv, Own, Within
<1>7. pc \in {"overlay", "install"} => Within(area, cur)'
  BY <1>1, <1>2, <1>5 DEF VersionInv, PieceInv, ControlInv, Own, Within, Steps
<1>8. \A q \in Port : fports'[q] = Gone \/ attempt[q] <= fports'[q] \/ attempt[q] > MaxVersion
  BY <1>3 DEF VersionInv
<1> QED
  BY <1>2, <1>6, <1>7, <1>8 DEF VersionInv

LEMMA VersionWorld == ASSUME ShapeInv, VersionInv, World PROVE VersionInv'
<1>1. TypeOK /\ \A p \in Active : p \in Port
  BY PortAssumption DEF ShapeInv
<1>2. CASE StartMerge
  BY <1>2 DEF StartMerge, Go, VersionInv, Within, sources, trees
<1>3. CASE ResetMerged
  BY <1>3 DEF ResetMerged, VersionInv, Within, IsTree, sources, script
<1>4. CASE Prune
  <2>1. /\ UNCHANGED <<fports, merged, potential, area, building, pc, cur>>
        /\ \A p \in Port : /\ dports'[p] \in {dports[p], NoTree}
                           /\ attempt'[p] = attempt[p] \/ fports[p] = Gone
    BY <1>4, PruneFacts DEF Obsolete, script
  <2> QED
    BY <2>1 DEF VersionInv, Within, IsTree
<1>5. CASE Killed
  BY <1>5 DEF Killed, VersionInv, Within, sources, trees
<1>6. ASSUME NEW lost \in SUBSET Fragile, MakeIndex(lost) PROVE VersionInv'
  BY <1>6 DEF MakeIndex, VersionInv, Within, trees, script
<1>7. ASSUME NEW p \in Active, StartSync(p) PROVE VersionInv'
  <2>1. /\ UNCHANGED <<fports, attempt, merged, dports, building>>
        /\ pc' \in {"mirror", "remove"}
        /\ \A q \in Port : potential'[q] \in {potential[q], NoTree}
    BY <1>1, <1>7 DEF StartSync, sources, TypeOK
  <2> QED
    BY <2>1 DEF VersionInv, Within, IsTree
<1>8. ASSUME NEW p \in Active, Publish(p) PROVE VersionInv'
  <2>1. /\ UNCHANGED <<fports, attempt, merged, dports, building, area, pc, cur>>
        /\ \A q \in Port : potential'[q] \in {potential[q], merged[q]}
    BY <1>1, <1>8 DEF Publish, sources, script, TypeOK
  <2> QED
    BY <2>1 DEF VersionInv, Within
<1>9. ASSUME NEW p \in Active, Edit(p) PROVE VersionInv'
  <2>1. /\ UNCHANGED <<fports, merged, potential, dports, building, area, pc, cur>>
        /\ \A q \in Port : attempt'[q] \in {attempt[q], Never, Bare}
    BY <1>1, <1>9, EditFacts DEF script, TypeOK
  <2>2. \A q \in Port : Never <= fports[q] /\ Bare <= fports[q]
    BY <1>1, BoundAssumption DEF TypeOK, Version, Never, Bare
  <2> QED
    BY <2>1, <2>2 DEF VersionInv, Within
<1>10. ASSUME NEW p \in Active, StartBuild(p) PROVE VersionInv'
  <2>1. /\ UNCHANGED <<fports, attempt, merged, potential, dports, area, pc, cur>>
        /\ \A q \in Port : building'[q] \in {building[q], potential[q]}
    BY <1>1, <1>10 DEF StartBuild, sources, trees, script, TypeOK
  <2> QED
    BY <2>1 DEF VersionInv, Within
<1> QED
  BY <1>2, <1>3, <1>4, <1>5, <1>6, <1>7, <1>8, <1>9, <1>10, VersionEndBuild, VersionUpstream
     DEF World

LEMMA VersionStep == ShapeInv /\ VersionInv /\ [Next]_vars => VersionInv'
<1>1. ASSUME VersionInv, UNCHANGED vars PROVE VersionInv'
  BY <1>1 DEF vars, VersionInv, Within
<1> QED
  BY <1>1, VersionScript, VersionWorld DEF Next

-----------------------------------------------------------------------------
(* Entries that merge.sh may skip. *)

Holds(t, p) == IsTree(t) /\ <<"ports", p, fports[p]>> \in t

\* Merged from FreeBSD's port, and never turned into anything else since its
\* entry was made.
Plain(p) == kind[p] \in {"none", "new", "PORT"} /\ fports[p] # Gone /\ p \notin turned

\* The version in FPORTS was built, is being built or waits for it.
Reached(p) ==
    /\ fports[p] # Gone
    /\ attempt[p] = fports[p] \/ Holds(building[p], p) \/ Holds(potential[p], p)

CurrentInv ==
    crashes = 0 =>
      /\ \A p \in Port :
            Plain(p) /\ Reached(p) /\ IsTree(merged[p]) => Holds(merged[p], p) \/ InHand(p)
      /\ pc \in Steps /\ Plain(cur) =>
            /\ how \notin {"DPORT", "LOCK"}
            /\ pc = "mirror" => /\ IsTree(potential[cur])
                                /\ Reached(cur) => Holds(potential[cur], cur)
      /\ pc \in {"overlay", "install"} /\ Reached(cur) => Holds(area, cur)

LEMMA CurrentInit == Init => CurrentInv
  BY DEF Init, CurrentInv, Steps, IsTree

LEMMA HowFacts ==
    ASSUME TypeOK, NEW p \in Port
    PROVE  /\ Plain(p) => /\ How(p) \in {"FAST", "PORT"}
                          /\ MergedAs(p) \in {"FAST", "PORT"}
                          /\ kind[p] # "MASK"
           /\ fports[p] # Gone => Holds(FromPorts(p), p)
<1>1. Plain(p) => /\ How(p) \in {"FAST", "PORT"}
                  /\ MergedAs(p) \in {"FAST", "PORT"}
                  /\ kind[p] # "MASK"
  BY DEF Plain, How, MergedAs
<1>2. IsTree(FromPorts(p))
  BY FromFacts, TreeFacts DEF Own
<1> QED
  BY <1>1, <1>2 DEF Holds, FromPorts

\* Steps beside the scripts, that bring no version nearer.
LEMMA CurrentBeside ==
    ASSUME ShapeInv, CurrentInv, UNCHANGED <<merged, potential, area, script, crashes>>,
           \A p \in Port : /\ Plain(p)' => Plain(p)
                           /\ Reached(p)' => Reached(p) /\ fports'[p] = fports[p]
    PROVE  CurrentInv'
<1> SUFFICES ASSUME crashes = 0 PROVE CurrentInv'
  BY DEF CurrentInv
<1>1. UNCHANGED <<merged, potential, area, pc, cur, how, crashes>> /\ ControlInv
  BY DEF script, ShapeInv
<1>2. ASSUME NEW p \in Port, Plain(p)', Reached(p)', IsTree(merged'[p])
      PROVE  Holds(merged[p], p)' \/ InHand(p)'
  BY <1>1, <1>2 DEF CurrentInv, Holds, InHand
<1>3. ASSUME pc \in Steps
      PROVE  /\ Plain(cur)' => Plain(cur)
             /\ Reached(cur)' => Reached(cur) /\ fports'[cur] = fports[cur]
  <2>1. cur \in Port
    BY <1>1, <1>3 DEF ControlInv
  <2>2. \A p : p = cur => (Plain(p)' <=> Plain(cur)') /\ (Reached(p)' <=> Reached(cur)')
    BY <1>1
  <2> QED
    BY <2>1, <2>2
<1>4. pc \in Steps /\ Plain(cur)' =>
             /\ how \notin {"DPORT", "LOCK"}
             /\ pc = "mirror" => /\ IsTree(potential[cur])
                                 /\ Reached(cur)' => Holds(potential[cur], cur)'
  BY <1>1, <1>3 DEF CurrentInv, Holds
<1>5. pc \in {"overlay", "install"} /\ Reached(cur)' => Holds(area, cur)'
  BY <1>1, <1>3 DEF CurrentInv, Holds, Steps
<1> QED
  BY <1>1, <1>2, <1>4, <1>5 DEF CurrentInv

LEMMA CurrentEndBuild ==
    ASSUME ShapeInv, CurrentInv, NEW p \in Active, NEW success \in BOOLEAN, EndBuild(p, success)
    PROVE  CurrentInv'
<1>1. TypeOK /\ PieceInv /\ p \in Port
  BY PortAssumption DEF ShapeInv
<1>2. PICK v \in Built(building[p]) : attempt' = [attempt EXCEPT ![p] = v]
  BY DEF EndBuild
<1>3. /\ IsTree(building[p]) /\ building' = [building EXCEPT ![p] = NoTree]
      /\ kind' = [kind EXCEPT ![p] = IF kind[p] \in {"none", "new"} THEN "PORT"
                                     ELSE IF kind[p] = "MASK" THEN "empty" ELSE kind[p]]
      /\ UNCHANGED <<fports, merged, potential, area, script, turned, crashes>>
  BY DEF EndBuild, counts
<1>4. \A q \in Port : Plain(q)' => Plain(q)
  BY <1>1, <1>3 DEF Plain, TypeOK
<1>5. fports[p] = v => Holds(building[p], p)
  <2> SUFFICES ASSUME fports[p] = v PROVE Holds(building[p], p)
    OBVIOUS
  <2>1. Own(building[p], p) /\ v <= MaxVersion
    BY <1>1, <1>3 DEF PieceInv, TypeOK, Version
  <2>2. PICK x \in building[p] : x[1] = "ports" /\ x[3] = v
    BY <2>1, BuiltFacts DEF Own
  <2>3. x = <<"ports", p, v>>
    BY <2>1, <2>2, PieceFacts DEF Own
  <2> QED
    BY <1>3, <2>2, <2>3 DEF Holds
<1>6. \A q \in Port : Reached(q)' => Reached(q)
  BY <1>1, <1>2, <1>3, <1>5 DEF Reached, Holds, IsTree, TypeOK
<1> QED
  BY <1>3, <1>4, <1>6, CurrentBeside

LEMMA CurrentUpstream ==
    ASSUME ShapeInv, VersionInv, CurrentInv,
           NEW p \in Active, NEW v \in Version, Upstream(p, v)
    PROVE  CurrentInv'
<1>1. /\ TypeOK /\ p \in Port /\ fports[p] \in 0..MaxVersion /\ v \in 0..MaxVersion
      /\ attempt[p] \in Int
  BY PortAssumption, BoundAssumption DEF ShapeInv, TypeOK, Version
<1>2. /\ fports[p] # Gone /\ (v = fports[p] + 1 \/ v = Gone)
      /\ fports' = [fports EXCEPT ![p] = v]
      /\ UNCHANGED <<kind, attempt, merged, potential, building, area, script, turned,
                     crashes>>
  BY DEF Upstream, trees, counts
<1>3. \A q \in Port \ {p} : fports'[q] = fports[q]
  BY <1>1, <1>2 DEF TypeOK
<1>4. fports'[p] = v
  BY <1>1, <1>2 DEF TypeOK
<1>5. ASSUME v # Gone PROVE ~Reached(p)'
  <2>1. v = fports[p] + 1 /\ v > fports[p]
    BY <1>1, <1>2, <1>5, BoundAssumption
  <2>2. \A t : Within(t, p) /\ IsTree(t) => <<"ports", p, v>> \notin t
    BY <1>1, <1>2, <2>1, BoundAssumption DEF Within
  <2>3. Within(potential[p], p) /\ Within(building[p], p)
    BY <1>1 DEF VersionInv
  <2>4. attempt[p] # v
    BY <1>1, <1>2, <2>1, BoundAssumption DEF VersionInv
  <2>5. ~(IsTree(potential[p]) /\ <<"ports", p, v>> \in potential[p])
    BY <2>2, <2>3
  <2>6. ~(IsTree(building[p]) /\ <<"ports", p, v>> \in building[p])
    BY <2>2, <2>3
  <2> QED
    BY <1>2, <1>4, <2>4, <2>5, <2>6 DEF Reached, Holds, IsTree
<1>6. \A q \in Port : /\ Plain(q)' => Plain(q)
                      /\ Reached(q)' => Reached(q) /\ fports'[q] = fports[q]
  <2> SUFFICES ASSUME NEW q \in Port
               PROVE  /\ Plain(q)' => Plain(q)
                      /\ Reached(q)' => Reached(q) /\ fports'[q] = fports[q]
    OBVIOUS
  <2>1. CASE q = p
    BY <1>2, <1>4, <1>5, <2>1 DEF Plain, Reached
  <2>2. CASE q # p
    BY <1>2, <1>3, <2>2 DEF Plain, Reached, Holds
  <2> QED
    BY <2>1, <2>2
<1> QED
  BY <1>2, <1>6, CurrentBeside

LEMMA CurrentEdit ==
    ASSUME ShapeInv, CurrentInv, NEW p \in Active, Edit(p)
    PROVE  CurrentInv'
<1>1. TypeOK /\ p \in Port
  BY PortAssumption DEF ShapeInv
<1>2. UNCHANGED <<fports, merged, potential, building, area, script, crashes>>
  BY <1>1, EditFacts
<1>3. \A q \in Port : /\ Plain(q)' => Plain(q)
                      /\ attempt'[q] \in {attempt[q], Never, Bare}
  <2>1. CASE /\ kind' = [kind EXCEPT ![p] = IF kind[p] = "none" THEN "new" ELSE kind[p]]
             /\ attempt' = attempt /\ turned' = turned
    BY <1>1, <1>2, <2>1 DEF Plain, TypeOK
  <2>2. ASSUME NEW k \in Chosen, kind' = [kind EXCEPT ![p] = k],
               \E v \in {attempt[p], Never, Bare} : attempt' = [attempt EXCEPT ![p] = v],
               turned' = IF k = "PORT" /\ kind[p] \notin {"none", "new", "PORT"}
                           THEN turned \cup {p} ELSE turned
        PROVE  \A q \in Port : /\ Plain(q)' => Plain(q)
                               /\ attempt'[q] \in {attempt[q], Never, Bare}
    <3>1. \A q \in Port : attempt'[q] \in {attempt[q], Never, Bare}
      BY <1>1, <2>2 DEF TypeOK
    <3>2. \A q \in Port \ {p} : Plain(q)' => Plain(q)
      BY <1>1, <1>2, <2>2 DEF Plain, TypeOK
    <3>3. kind'[p] = k /\ k \in {"PORT", "DPORT", "LOCK", "MASK"}
      BY <1>1, <2>2, SwitchAssumption DEF TypeOK
    <3>4. Plain(p)' => Plain(p)
      BY <1>2, <2>2, <3>3 DEF Plain
    <3> QED
      BY <3>1, <3>2, <3>4
  <2> QED
    BY <1>1, <2>1, <2>2, EditFacts
<1>4. \A q \in Port : Never # fports[q] /\ Bare # fports[q]
  BY <1>1, BoundAssumption DEF TypeOK, Version, Never, Bare
<1>5. \A q \in Port : /\ Plain(q)' => Plain(q)
                      /\ Reached(q)' => Reached(q) /\ fports'[q] = fports[q]
  BY <1>2, <1>3, <1>4 DEF Reached, Holds
<1> QED
  BY <1>2, <1>5, CurrentBeside

LEMMA CurrentWorld == ASSUME ShapeInv, VersionInv, CurrentInv, World PROVE CurrentInv'
<1>1. TypeOK /\ ControlInv /\ \A p \in Active : p \in Port
  BY PortAssumption DEF ShapeInv
<1>2. CASE StartMerge
  <2>1. /\ pc = "idle" /\ pc' = "next"
        /\ UNCHANGED <<fports, kind, attempt, merged, potential, building, turned, crashes>>
    BY <1>2 DEF StartMerge, Go, sources, trees, counts, history
  <2> QED
    BY <2>1 DEF CurrentInv, Plain, Reached, Holds, InHand, Steps
<1>3. CASE ResetMerged
  <2>1. pc' = "idle" /\ merged' = [p \in Port |-> NoTree]
    BY <1>3 DEF ResetMerged, Idle, script
  <2> QED
    BY <2>1 DEF CurrentInv, IsTree, Steps
<1>4. CASE Prune
  <2>1. \A p \in Port : Plain(p)' => p \notin Obsolete
    BY <1>4, PruneFacts DEF Plain, Obsolete
  <2>2. \A p \in Port \ Obsolete : kind'[p] = kind[p] /\ attempt'[p] = attempt[p]
    BY <1>4, PruneFacts
  <2>3. UNCHANGED <<fports, merged, potential, area, script, building, turned, crashes>>
    BY <1>4, PruneFacts
  <2>4. \A p \in Port : /\ Plain(p)' => Plain(p)
                        /\ Reached(p)' => Reached(p) /\ fports'[p] = fports[p]
    BY <2>1, <2>2, <2>3 DEF Plain, Reached, Holds, Obsolete
  <2> QED
    BY <2>3, <2>4, CurrentBeside
<1>5. CASE Killed
  <2>1. crashes' # 0
    BY <1>1, <1>5 DEF Killed, TypeOK
  <2> QED
    BY <2>1 DEF CurrentInv
<1>6. ASSUME NEW lost \in SUBSET Fragile, MakeIndex(lost) PROVE CurrentInv'
  <2>1. UNCHANGED <<fports, kind, attempt, merged, potential, area, script, building, turned,
                     crashes>>
    BY <1>6 DEF MakeIndex, trees, counts, history
  <2> QED
    BY <2>1, CurrentBeside DEF Plain, Reached, Holds
<1>7. ASSUME NEW p \in Active, StartSync(p) PROVE CurrentInv'
  <2>1. /\ pc = "idle" /\ cur' = p /\ p \in Port
        /\ UNCHANGED <<fports, kind, attempt, merged, building, turned, crashes>>
        /\ \A q \in Port : potential'[q] \in {potential[q], NoTree}
        /\ pc' \in {"mirror", "remove"}
        /\ kind[p] # "MASK" => pc' = "remove" /\ how' = How(p)
    BY <1>1, <1>7 DEF StartSync, sources, counts, history, TypeOK
  <2>2. \A q \in Port : (Plain(q)' <=> Plain(q)) /\ (Reached(q)' => Reached(q))
    BY <2>1 DEF Plain, Reached, Holds, IsTree
  <2>3. Plain(p)' => pc' = "remove" /\ how' \in {"FAST", "PORT"}
    BY <1>1, <2>1, <2>2, HowFacts
  <2>4. Plain(cur)' => Plain(p)'
    BY <2>1 DEF Plain
  <2> QED
    BY <2>1, <2>2, <2>3, <2>4 DEF CurrentInv, InHand, Holds, Steps
<1>8. ASSUME NEW p \in Active, Publish(p) PROVE CurrentInv'
  <2>1. /\ pc = "idle" /\ pc' = "idle"
        /\ UNCHANGED <<fports, kind, attempt, merged, building, turned, crashes>>
        /\ \A q \in Port : potential'[q] \in {potential[q], merged[q]}
    BY <1>1, <1>8 DEF Publish, Idle, sources, script, counts, history, TypeOK
  <2>2. \A q \in Port : (Plain(q)' <=> Plain(q)) /\ (Reached(q)' => Reached(q) \/ Holds(merged[q], q))
    BY <2>1 DEF Plain, Reached, Holds
  <2> QED
    BY <2>1, <2>2 DEF CurrentInv, InHand, Holds, Steps
<1>9. ASSUME NEW p \in Active, StartBuild(p) PROVE CurrentInv'
  <2>1. /\ UNCHANGED <<fports, kind, attempt, merged, potential, area, script, turned, crashes>>
        /\ \A q \in Port : building'[q] \in {building[q], potential[q]}
    BY <1>1, <1>9 DEF StartBuild, sources, trees, counts, history, TypeOK
  <2>2. \A q \in Port : /\ Plain(q)' => Plain(q)
                        /\ Reached(q)' => Reached(q) /\ fports'[q] = fports[q]
    BY <2>1 DEF Plain, Reached, Holds
  <2> QED
    BY <2>1, <2>2, CurrentBeside
<1> QED
  BY <1>2, <1>3, <1>4, <1>5, <1>6, <1>7, <1>8, <1>9, CurrentEndBuild, CurrentUpstream,
     CurrentEdit DEF World

\* The last step that makes a tree.
LEMMA CurrentMade ==
    ASSUME ShapeInv, CurrentInv, pc \in {"fill", "install"}, NEW t, Make(t), pc' = Made, Done,
           UNCHANGED <<sources, building, counts, prog>>,
           crashes = 0 /\ how \in {"FAST", "PORT"} /\ fports[cur] # Gone =>
             IsTree(t) /\ (Reached(cur) => Holds(t, cur))
    PROVE  CurrentInv'
<1> SUFFICES ASSUME crashes = 0 PROVE CurrentInv'
  BY DEF CurrentInv, counts
<1>1. /\ TypeOK /\ cur \in Port
      /\ UNCHANGED <<fports, kind, attempt, building, crashes, prog>>
  BY DEF ShapeInv, ControlInv, sources, counts, Steps
<1>2. /\ \A p \in Port \ {cur} : Plain(p)' <=> Plain(p)
      /\ \A p \in Port : p = cur /\ Plain(p)' => how \in {"FAST", "PORT"} /\ fports[p] # Gone
  <2>1. turned' = turned \/ (turned' = turned \ {cur} /\ how \in {"FAST", "PORT"})
    BY DEF Done
  <2>2. how \in {"FAST", "PORT", "DPORT", "LOCK"}
    BY DEF ShapeInv, ControlInv
  <2>3. Plain(cur) => how \in {"FAST", "PORT"}
    BY <2>2 DEF CurrentInv, Steps
  <2>4. \A p \in Port \ {cur} : Plain(p)' <=> Plain(p)
    BY <1>1, <2>1 DEF Plain
  <2>5. \A p \in Port : p = cur /\ Plain(p)' => how \in {"FAST", "PORT"} /\ fports[p] # Gone
    BY <1>1, <2>1, <2>3 DEF Plain
  <2> QED
    BY <2>4, <2>5
<1>3. \A p \in Port \ {cur} : /\ merged'[p] = merged[p] /\ potential'[p] = potential[p]
                              /\ ~InHand(p)
  BY <1>1, MakeFacts DEF InHand
<1>4. \A p \in Port \ {cur} : Plain(p)' /\ Reached(p)' /\ IsTree(merged'[p]) => Holds(merged[p], p)'
  BY <1>1, <1>2, <1>3 DEF CurrentInv, Reached, Holds
<1>5. CASE prog = "merge.sh"
  <2>1. pc' = "next"
    BY <1>5 DEF Made
  <2>2. merged'[cur] = t /\ potential' = potential
    BY <1>1, <1>5, MakeFacts
  <2>3. \A p \in Port : p = cur /\ Plain(p)' /\ Reached(p)' => Holds(merged[p], p)'
    BY <1>1, <1>2, <2>2 DEF Reached, Holds
  <2> QED
    BY <1>4, <2>1, <2>3 DEF CurrentInv, Steps
<1>6. CASE prog # "merge.sh"
  <2>1. pc' = "mirror" /\ cur' = cur /\ how' = "none"
    BY <1>6 DEF Made, Done
  <2>2. potential'[cur] = t /\ merged' = merged
    BY <1>1, <1>6, MakeFacts
  <2>3. Plain(cur)' => IsTree(potential'[cur]) /\ (Reached(cur)' => Holds(potential[cur], cur)')
    <3>1. Plain(cur)' => how \in {"FAST", "PORT"} /\ fports[cur] # Gone
      <4>1. \A p : p = cur => (Plain(p)' <=> Plain(cur)')
        BY <2>1
      <4> QED
        BY <1>1, <1>2, <4>1
    <3> QED
      BY <1>1, <2>1, <2>2, <3>1 DEF Reached, Holds
  <2>4. InHand(cur)'
    BY <2>1 DEF InHand, Steps
  <2> QED
    BY <1>4, <2>1, <2>3, <2>4 DEF CurrentInv
<1> QED
  BY <1>5, <1>6

LEMMA CurrentRemove == ASSUME ShapeInv, CurrentInv, Remove PROVE CurrentInv'
<1>1. /\ TypeOK /\ ControlInv /\ pc = "remove" /\ pc' = "fill"
      /\ UNCHANGED <<fports, kind, attempt, building, turned, crashes, cur, how>>
      /\ Make(IF how = "LOCK" /\ IsTree(M1) THEN M1 ELSE {})
  BY DEF ShapeInv, Remove, Go, sources, counts, history
<1>2. cur \in Port
  BY <1>1 DEF ControlInv, Steps
<1>3. \A p \in Port \ {cur} : merged'[p] = merged[p] /\ potential'[p] = potential[p]
  BY <1>1, <1>2, MakeFacts
<1>4. \A p \in Port : (Plain(p)' <=> Plain(p)) /\ (InHand(p)' <=> p = cur)
  BY <1>1 DEF Plain, InHand, Steps
<1>5. Plain(cur)' => Plain(cur)
  BY <1>1 DEF Plain
<1> QED
  BY <1>1, <1>3, <1>4, <1>5 DEF CurrentInv, Reached, Holds, InHand, Steps

LEMMA CurrentFill == ASSUME ShapeInv, CurrentInv, Fill PROVE CurrentInv'
<1>1. /\ TypeOK /\ ControlInv /\ pc = "fill" /\ pc \in Steps /\ pc' = Made /\ Done
      /\ UNCHANGED <<sources, building, counts, prog>>
  BY DEF ShapeInv, Fill, Go, Steps
<1>2. cur \in Port
  BY <1>1 DEF ControlInv
<1>3. PICK t : Make(t) /\ (how \in {"FAST", "PORT"} => t = FromPorts(cur))
  BY DEF Fill
<1>4. how \in {"FAST", "PORT"} /\ fports[cur] # Gone => Holds(t, cur)
  BY <1>1, <1>2, <1>3, HowFacts
<1>5. Holds(t, cur) => IsTree(t)
  BY DEF Holds
<1> QED
  BY <1>1, <1>3, <1>4, <1>5, CurrentMade

LEMMA CurrentInstall == ASSUME ShapeInv, CurrentInv, Install PROVE CurrentInv'
<1>1. /\ PieceInv /\ pc = "install" /\ pc \in Steps /\ pc' = Made /\ Done /\ Make(area)
      /\ UNCHANGED <<sources, building, counts, prog>>
  BY DEF ShapeInv, Install, Go, Steps
<1>2. IsTree(area)
  BY <1>1, TreeFacts DEF PieceInv, Own
<1>3. crashes = 0 => (Reached(cur) => Holds(area, cur))
  BY <1>1 DEF CurrentInv
<1> QED
  BY <1>1, <1>2, <1>3, CurrentMade

\* The steps through WORKAREA.
LEMMA CurrentArea ==
    ASSUME ShapeInv, CurrentInv, pc \in Steps, pc' \in {"copy", "overlay", "install"},
           UNCHANGED <<sources, trees, building, turned, counts, cur, how>>,
           crashes = 0 /\ Reached(cur) /\ pc' \in {"overlay", "install"} => Holds(area', cur)
    PROVE  CurrentInv'
<1>1. UNCHANGED <<fports, kind, attempt, merged, potential, building, turned, crashes, cur, how>>
  BY DEF sources, trees, counts
<1>2. \A p : /\ Plain(p)' <=> Plain(p)
             /\ Reached(p)' <=> Reached(p)
             /\ InHand(p)' <=> InHand(p)
             /\ Holds(merged[p], p)' <=> Holds(merged[p], p)
  BY <1>1 DEF Plain, Reached, Holds, InHand, Steps
<1>3. /\ Plain(cur)' <=> Plain(cur)
      /\ Reached(cur)' <=> Reached(cur)
      /\ Holds(area', cur) => Holds(area, cur)'
  BY <1>1 DEF Plain, Reached, Holds
<1> QED
  BY <1>1, <1>2, <1>3 DEF CurrentInv

LEMMA CurrentScript == ASSUME ShapeInv, CurrentInv, Script PROVE CurrentInv'
<1>1. TypeOK /\ ControlInv
  BY DEF ShapeInv
<1>2. ASSUME NEW l \in todo, MergeLine(l) PROVE CurrentInv'
  <2>1. /\ pc = "next" /\ l[1] \in Port
        /\ UNCHANGED <<fports, kind, attempt, potential, building, turned, crashes>>
        /\ \A p \in Port : merged'[p] \in {merged[p], NoTree}
        /\ \/ pc' = "next"
           \/ pc' = "remove" /\ cur' = l[1] /\ how' = MergedAs(l[1])
    BY <1>1, <1>2 DEF MergeLine, sources, counts, history, TypeOK
  <2>2. \A p : /\ Plain(p)' <=> Plain(p)
               /\ Reached(p)' <=> Reached(p)
               /\ ~InHand(p)
    BY <2>1 DEF Plain, Reached, Holds, InHand, Steps
  <2>3. pc' = "remove" /\ Plain(cur)' => how' \in {"FAST", "PORT"}
    <3>1. pc' = "remove" /\ Plain(cur)' => Plain(l[1])
      BY <2>1 DEF Plain
    <3> QED
      BY <1>1, <2>1, <3>1, HowFacts
  <2> QED
    BY <2>1, <2>2, <2>3 DEF CurrentInv, Holds, IsTree, Steps
<1>3. CASE EndMerge
  <2>1. /\ pc = "next" /\ pc' = "idle"
        /\ UNCHANGED <<fports, kind, attempt, merged, potential, building, turned, crashes>>
    BY <1>3 DEF EndMerge, sources, trees, counts
  <2> QED
    BY <2>1 DEF CurrentInv, Plain, Reached, Holds, InHand, Steps
<1>4. CASE Clear
  <2>1. pc \in Steps /\ pc' = "copy" /\ UNCHANGED <<sources, trees, building, turned, counts, cur, how>>
    BY <1>4 DEF Clear, Go, Steps, history
  <2> QED
    BY <2>1, CurrentArea
<1>5. CASE Copy
  <2>1. pc \in Steps /\ UNCHANGED <<sources, trees, building, turned, counts, cur, how>>
    BY <1>5 DEF Copy, Go, Steps, history
  <2>2. fports[cur] # Gone => Holds(area', cur)
    BY <1>1, <1>5, CopyFacts, HowFacts
  <2>3. pc' \in {"overlay", "install"}
    BY <1>5, CopyFacts
  <2> QED
    BY <2>1, <2>2, <2>3, CurrentArea DEF Reached
<1>6. CASE Overlay
  <2>1. /\ pc = "overlay" /\ pc \in Steps /\ pc' = "install"
        /\ area' = area \cup FromDelta(cur, "overlay")
        /\ UNCHANGED <<sources, trees, building, turned, counts, cur, how>>
    BY <1>6 DEF Overlay, Go, Steps, history
  <2>2. cur \in Port /\ area \subseteq Piece
    BY <1>1, <2>1 DEF ControlInv, TypeOK
  <2>3. IsTree(area')
    BY <1>1, <2>1, <2>2, FromFacts, TreeFacts DEF Own
  <2>4. Holds(area, cur) => Holds(area', cur)
    BY <2>1, <2>3 DEF Holds
  <2>5. crashes = 0 /\ Reached(cur) => Holds(area, cur)
    BY <2>1 DEF CurrentInv
  <2> QED
    BY <2>1, <2>4, <2>5, CurrentArea
<1>7. CASE Mirror
  <2>1. /\ pc = "mirror" /\ pc \in Steps /\ pc' = "idle" /\ cur \in Port
        /\ UNCHANGED <<fports, kind, attempt, potential, building, turned, crashes>>
        /\ \A p \in Port \ {cur} : merged'[p] = merged[p]
        /\ merged'[cur] = IF IsTree(merged[cur]) /\ IsTree(potential[cur])
                            THEN potential[cur] ELSE merged[cur]
    BY <1>1, <1>7 DEF Mirror, Go, sources, counts, history, ControlInv, TypeOK, Steps
  <2>2. \A p : /\ Plain(p)' <=> Plain(p)
               /\ Reached(p)' <=> Reached(p)
    BY <2>1 DEF Plain, Reached, Holds
  <2>3. ASSUME crashes = 0,
               NEW p \in Port, Plain(p), Reached(p), IsTree(merged'[p])
        PROVE  Holds(merged[p], p)'
    <3>1. CASE p = cur
      <4>1. IsTree(potential[p]) /\ Holds(potential[p], p)
        BY <2>1, <2>3, <3>1 DEF CurrentInv
      <4> QED
        BY <2>1, <2>3, <3>1, <4>1 DEF Holds
    <3>2. CASE p # cur
      BY <2>1, <2>3, <3>2 DEF CurrentInv, Holds, InHand
    <3> QED
      BY <3>1, <3>2
  <2> QED
    BY <2>1, <2>2, <2>3 DEF CurrentInv, Steps
<1> QED
  BY <1>2, <1>3, <1>4, <1>5, <1>6, <1>7, CurrentRemove, CurrentFill, CurrentInstall DEF Script

LEMMA CurrentStep == ShapeInv /\ VersionInv /\ CurrentInv /\ [Next]_vars => CurrentInv'
<1>1. ASSUME CurrentInv, UNCHANGED vars PROVE CurrentInv'
  BY <1>1 DEF vars, CurrentInv, Plain, Reached, Holds, InHand
<1> QED
  BY <1>1, CurrentScript, CurrentWorld DEF Next

-----------------------------------------------------------------------------
(* The theorems. *)

\* Whatever runs, changes or is killed between two commands, WORKAREA never
\* brings a piece of one port into the entry of another, nor two versions of a
\* piece into one entry.
THEOREM PiecesOfOne == Spec => []OwnPieces
<1>1. ShapeInv => OwnPieces
  BY DEF ShapeInv, PieceInv, OwnPieces, Own
<1> QED
  BY <1>1, Shape, PTL

\* A merge.sh that has come to its end has brought every unchanged port up to
\* date, one that DELTA replaces too, in spite of edits, new versions, builds and
\* syncs in the middle of it, unless it skipped it on the word of its STATUS.
THEOREM MergedIsUpToDate == Spec => []UpToDate
<1>1. ShapeInv /\ MergeInv => UpToDate
  <2> SUFFICES ASSUME ShapeInv, MergeInv, passed, NEW p \in Port \ changed
               PROVE  /\ kind[p] = "MASK" /\ index[p] # Gone => ~IsTree(merged[p])
                      /\ kind[p] = "LOCK" => IsTree(merged[p])
                      /\ \/ kind[p] \in {"none", "new", "empty", "PORT"} /\ index[p] # Gone
                         \/ kind[p] = "DPORT" /\ attempt[p] # Bare
                         => \/ merged[p] = Whole(p)
                            \/ /\ kind[p] \in {"PORT", "DPORT"}
                               /\ SameVersion(index[p], attempt[p]) /\ IsTree(merged[p])
    BY DEF UpToDate
  <2>1. Listed(p) => Handled(p) /\ Fit(p)
    BY DEF ShapeInv, ControlInv, MergeInv, PassInv, Settled
  <2> QED
    BY <2>1 DEF Listed, Handled, Fit
<1> QED
  BY <1>1, Merging, PTL

\* prune.sh never takes out of DPORTS a port that is locked or replaced, or that
\* is in INDEX and not masked: at the time it runs MERGED was emptied and made
\* again, and merge.sh finds these ports by their STATUS or by INDEX.
THEOREM PruneSparesThem == Spec => PruneSpares
<1>1. ASSUME ShapeInv, MergeInv, Prune, NEW p \in Port \ changed,
             \/ kind[p] \in {"DPORT", "LOCK"}
             \/ kind[p] # "MASK" /\ index[p] # Gone
      PROVE  dports'[p] = dports[p]
  <2>1. fresh = "merged" /\ pc = "idle"
    BY <1>1, PruneFacts
  <2>2. prog = "none"
    BY <1>1, <2>1 DEF ShapeInv, ControlInv
  <2>3. Handled(p)
    BY <1>1, <2>1, <2>2 DEF MergeInv, PassInv, Listed
  <2>4. IsTree(merged[p])
    BY <1>1, <2>3 DEF Handled
  <2> QED
    BY <1>1, <2>4, PruneFacts
<1>2. ShapeInv /\ MergeInv /\ [Next]_vars =>
        [Prune => \A p \in Port \ changed :
            \/ kind[p] \in {"DPORT", "LOCK"}
            \/ kind[p] # "MASK" /\ index[p] # Gone
            => dports'[p] = dports[p]]_vars
  BY <1>1
<1> QED
  BY <1>2, Merging, PTL DEF Spec, PruneSpares

\* Whoever locks, replaces, masks and releases ports, an entry that merge.sh
\* skips because its version was attempted holds that version, unless a script
\* was killed or the STATUS was turned back into PORT since the entry was made.
THEOREM SkipsCurrent == Spec => []SkippedIsCurrent
<1>1. CurrentInv => SkippedIsCurrent
  <2> SUFFICES ASSUME CurrentInv, crashes = 0, NEW p \in Port \ turned,
                      kind[p] = "PORT", attempt[p] = fports[p], fports[p] # Gone,
                      IsTree(merged[p]), cur # p
               PROVE  fports[p] \in Built(merged[p])
    BY DEF SkippedIsCurrent
  <2>1. <<"ports", p, fports[p]>> \in merged[p]
    BY DEF CurrentInv, Plain, Reached, Holds, InHand
  <2> QED
    BY <2>1 DEF Built
<1> QED
  BY <1>1, ShapeInit, ShapeStep, VersionInit, VersionStep, CurrentInit, CurrentStep, PTL DEF Spec
=============================================================================
