-------------------------- MODULE CommitQueueProofs --------------------------
(* Proofs about CommitQueue for any set of ports, any number of builds and any *)
(* number of daemon restarts.                                                  *)
EXTENDS MCLedger, TLAPS

LEMMA ItemFacts ==
    /\ \A i \in Item : i = <<i[1], i[2]>> /\ i[1] \in Track /\ i[2] \in Port
    /\ \A t \in Track, p \in Port :
          <<t, p>> \in Item /\ <<t, p>>[1] = t /\ <<t, p>>[2] = p
    /\ Trees \subseteq Item
    /\ "delta" \in Track /\ "dport" \in Track
  BY DEF Item, Track, Trees

-----------------------------------------------------------------------------
(* Typing. *)

LEMMA ContentFacts ==
    /\ Absent \in Content /\ Torn \in Content
    /\ NoEntry \in Content /\ Blank \in Content
    /\ 0..MaxBuild \subseteq Content
  BY BoundsAssumption DEF Content, Absent, Torn, NoEntry, Blank

LEMMA RangeFacts ==
    ASSUME NEW m \in Nat
    PROVE  /\ 0 \in 0..m
           /\ \A n \in 0..m : n + 1 > 0 /\ (n < m => n + 1 \in 0..m)
  OBVIOUS

LEMMA TypeInit == Init => TypeOK
<1> SUFFICES ASSUME Init PROVE TypeOK
  OBVIOUS
<1>1. /\ work \in [Item -> Content] /\ index \in [Item -> Content]
      /\ head \in [Item -> Content] /\ entry \in [Item -> Content]
  BY ContentFacts DEF Init
<1>2. build \in [Port -> 0..MaxBuild] /\ crashes \in 0..MaxCrash
  BY BoundsAssumption, RangeFacts DEF Init
<1>3. /\ hookpc \in [Port -> {"idle", "write", "unlink", "create", "fill"}]
      /\ hooktrack \in [Port -> Track]
  BY ItemFacts DEF Init
<1> QED
  BY <1>1, <1>2, <1>3, ContentFacts DEF Init, TypeOK

LEMMA TypeNext == TypeOK /\ [Next]_vars => TypeOK'
<1> SUFFICES ASSUME TypeOK, [Next]_vars PROVE TypeOK'
  OBVIOUS
<1> USE BoundsAssumption, ContentFacts
<1> USE DEF TypeOK
<1>1. ASSUME NEW p \in Port, NEW success \in BOOLEAN, HookStart(p, success)
      PROVE  TypeOK'
  BY <1>1, RangeFacts, ItemFacts DEF HookStart, trees, daemonvars, history
<1>2. ASSUME NEW p \in Port, HookTear(p) PROVE TypeOK'
  <2>1. Target(p) \in Item
    BY ItemFacts DEF Target
  <2> QED
    BY <1>2, <2>1 DEF HookTear, hookvars, daemonvars, history
<1>3. ASSUME NEW p \in Port, HookStep(p) PROVE TypeOK'
  <2>1. Target(p) \in Item /\ build[p] \in Content
    BY ItemFacts DEF Target
  <2>2. CASE HookWrite(p)
    BY <2>1, <2>2 DEF HookWrite, daemonvars
  <2>3. CASE HookUnlink(p)
    BY <2>1, <2>3 DEF HookUnlink, trees, daemonvars, history
  <2>4. CASE HookCreate(p)
    BY <2>1, <2>4 DEF HookCreate, trees, daemonvars, history
  <2>5. CASE HookFill(p)
    BY <2>1, <2>5 DEF HookFill, trees, daemonvars, history, Track
  <2> QED
    BY <1>3, <2>2, <2>3, <2>4, <2>5 DEF HookStep
<1>4. CASE DaemonStep
  <2>1. CASE FindDelta
    BY <2>1 DEF FindDelta, Queued, trees, hookvars, history
  <2>2. CASE FindDport
    BY <2>2 DEF FindDport, Queued, trees, hookvars, history
  <2>3. ASSUME NEW i \in Item, Pick(i) PROVE TypeOK'
    BY <2>3 DEF Pick, trees, hookvars, history
  <2>4. CASE EndRound
    BY <2>4 DEF EndRound, trees, hookvars, history
  <2>5. CASE ReadEntry
    BY <2>5 DEF ReadEntry, trees, hookvars, history
  <2>6. CASE AddStatus \/ AddTree
    BY <2>6 DEF AddStatus, AddTree, Stage, hookvars, history
  <2>7. CASE AddStatusFails
    BY <2>7 DEF AddStatusFails, NextItem, trees, hookvars, history
  <2>8. CASE Tasks
    BY <2>8 DEF Tasks, trees, hookvars, history
  <2>9. CASE CommitPath
    <3>1. Committable \subseteq Content
      BY <2>9 DEF Committable, CommitPath
    <3> QED
      BY <2>9, <3>1 DEF CommitPath, hookvars, history
  <2>10. CASE CommitIndex
    BY <2>10 DEF CommitIndex, hookvars, history
  <2>11. CASE CommitFails \/ RemoveEntry
    BY <2>11 DEF CommitFails, RemoveEntry, NextItem, trees, hookvars, history
  <2> QED
    BY <1>4, <2>1, <2>2, <2>3, <2>4, <2>5, <2>6, <2>7, <2>8, <2>9, <2>10, <2>11
    DEF DaemonStep
<1>5. CASE Restart
  BY <1>5, RangeFacts DEF Restart, trees, hookvars, history
<1>6. CASE UNCHANGED vars
  BY <1>6 DEF vars
<1> QED
  BY <1>1, <1>2, <1>3, <1>4, <1>5, <1>6 DEF Next

\* Every variable of the queue keeps its type, for any ports and bounds.
THEOREM Typing == Spec => []TypeOK
<1> QED
  BY TypeInit, TypeNext, PTL DEF Spec

-----------------------------------------------------------------------------
(* Nothing is lost: the inductive invariant of the queue.                     *)

LEMMA CodeFacts ==
    /\ Absent = NoEntry /\ Absent # Torn /\ NoEntry # Blank
    /\ ~(NoEntry > 0) /\ ~(Blank > 0)
    /\ \A c \in Content : c \in Int /\ (c > 0 \/ c = NoEntry \/ c = Blank)
    /\ \A c \in Content : c > 0 => c # Torn
  BY BoundsAssumption DEF Content, Absent, Torn, NoEntry, Blank

LEMMA TargetFacts ==
    ASSUME TypeOK, NEW p \in Port
    PROVE  /\ Target(p) \in Item /\ Target(p)[1] = hooktrack[p] /\ Target(p)[2] = p
           /\ \A i \in Item :
                 i # Target(p) => i[2] # p \/ i[1] # hooktrack[p]
  BY ItemFacts DEF TypeOK, Target

\* What a step of p's hook leaves of where the hooks are: other ports' items,
\* and p's other item unless the hook goes on to it.
LEMMA OtherItems ==
    ASSUME TypeOK, NEW p \in Port,
           \A q \in Port : q # p => hookpc'[q] = hookpc[q] /\ hooktrack'[q] = hooktrack[q],
           NEW i \in Item, i[2] # p \/ (i # Target(p) /\ UNCHANGED hooktrack)
    PROVE  /\ \A pcs : At(i, pcs)' <=> At(i, pcs)
           /\ BeforeEntry(i)' <=> BeforeEntry(i)
<1>1. i[2] \in Port
  BY ItemFacts
<1>2. CASE i[2] # p
  BY <1>1, <1>2 DEF At, BeforeEntry
<1>3. CASE i[2] = p
  <2>1. hooktrack'[i[2]] # i[1] /\ hooktrack[i[2]] # i[1]
    BY <1>3, TargetFacts
  <2> QED
    BY <2>1 DEF At, BeforeEntry
<1> QED
  BY <1>2, <1>3

\* What stays covered, staged as it is and in hand as it is.
CoverInv == NoLostWork /\ StagedInv /\ DaemonInv

LEMMA CoverInit == Init => CoverInv
  BY DEF Init, CoverInv, NoLostWork, StagedInv, DaemonInv, InHand

\* A step of a hook that touches no files and uncovers nothing.
LEMMA CoverKept ==
    ASSUME TypeOK, CoverInv, UNCHANGED <<work, index, head, dpc, todo, cur, val, dropped>>,
           \A i \in Item : Covered(i) => Covered(i)',
           stale => stale',
           \A i \in Item :
              \/ BeforeEntry(i) => BeforeEntry(i)'
              \/ i = cur /\ dpc \in {"status", "commit", "unlink"} => stale'
    PROVE  CoverInv'
<1>1. NoLostWork' /\ StagedInv'
  BY DEF CoverInv, NoLostWork, StagedInv
<1>2. DaemonInv'
  <2>1. InHand' <=> InHand
    BY DEF InHand
  <2>2. InHand => cur \in Item
    BY DEF CoverInv, DaemonInv, Covered, BeforeEntry, At
  <2>3. dpc \in {"status", "commit", "unlink"} => InHand
    BY DEF InHand
  <2>4. dpc \in {"status", "commit", "unlink"} /\ ~stale'
           => ~stale /\ (BeforeEntry(cur) => BeforeEntry(cur)')
    BY <2>2, <2>3
  <2> QED
    <3>4. \A i \in todo' : Covered(i)' /\ i \notin dropped'
      BY DEF CoverInv, DaemonInv, TypeOK
    <3>5. InHand' => Covered(cur)'
      BY <2>1, <2>2 DEF CoverInv, DaemonInv, Covered, BeforeEntry, At
    <3>1. /\ InHand' => cur' \in Item /\ cur' \notin todo' /\ cur' \notin dropped'
          /\ dpc' \in {"status", "commit", "unlink"} /\ val' = Blank => cur' \in Trees
          /\ dpc' = "unlink" => index'[cur'] = head'[cur']
      BY <2>1, <2>2 DEF CoverInv, DaemonInv, Covered, BeforeEntry, At
    <3>2. dpc' \in {"status", "commit"} /\ ~stale' /\ ~BeforeEntry(cur)'
             => index'[cur'] = work'[cur']
      BY <2>1, <2>2, <2>4 DEF CoverInv, DaemonInv, Covered, BeforeEntry, At
    <3>3. dpc' = "unlink" /\ ~stale' /\ ~BeforeEntry(cur)' => head'[cur'] = work'[cur']
      BY <2>1, <2>2, <2>4 DEF CoverInv, DaemonInv, Covered, BeforeEntry, At
    <3> QED
      BY <3>1, <3>2, <3>3, <3>4, <3>5 DEF DaemonInv, Covered, BeforeEntry, At
<1> QED
  BY <1>1, <1>2 DEF CoverInv

\* A step of a hook that writes the item t it has not queued yet.
LEMMA CoverWritten ==
    ASSUME TypeOK, CoverInv, NEW t \in Item, BeforeEntry(t), BeforeEntry(t)',
           UNCHANGED <<index, head, entry, dpc, todo, cur, val, stale>>,
           dropped' \in {dropped, dropped \ {t}},
           \A i \in Item : i # t => /\ work'[i] = work[i]
                                    /\ BeforeEntry(i)' <=> BeforeEntry(i)
    PROVE  CoverInv'
<1>1. \A i \in Item : Covered(i) => Covered(i)'
  BY DEF Covered
<1>2. NoLostWork' /\ StagedInv'
  <2>1. Covered(t)'
    BY DEF Covered
  <2> QED
    BY <1>1, <2>1 DEF CoverInv, NoLostWork, StagedInv
<1>3. DaemonInv'
  BY <1>1 DEF CoverInv, DaemonInv, InHand, TypeOK, Covered, BeforeEntry, At
<1> QED
  BY <1>2, <1>3 DEF CoverInv

LEMMA CoverHook ==
    ASSUME TypeOK, CoverInv, EntryInv, NEW p \in Port,
           HookTear(p) \/ HookStep(p) \/ \E success \in BOOLEAN : HookStart(p, success)
    PROVE  CoverInv'
<1>0. PICK t \in Item : t = Target(p) /\ t[1] = hooktrack[p] /\ t[2] = p
  BY TargetFacts
<1>1. ASSUME NEW success \in BOOLEAN, HookStart(p, success) PROVE CoverInv'
  <2>1. /\ hookpc[p] = "idle"
        /\ \A q \in Port : q # p => hookpc'[q] = hookpc[q] /\ hooktrack'[q] = hooktrack[q]
        /\ UNCHANGED <<work, index, head, entry, dpc, todo, cur, val, stale, dropped>>
    BY <1>1 DEF HookStart, trees, daemonvars, history, TypeOK
  <2>2. \A i \in Item : BeforeEntry(i) => BeforeEntry(i)'
    <3> SUFFICES ASSUME NEW i \in Item, BeforeEntry(i) PROVE BeforeEntry(i)'
      OBVIOUS
    <3>1. i[2] # p
      BY <2>1 DEF BeforeEntry, At
    <3> QED
      BY <2>1, <3>1, OtherItems
  <2> QED
    BY <2>1, <2>2, CoverKept DEF Covered
<1>2. CASE HookTear(p)
  <2>1. BeforeEntry(t) /\ BeforeEntry(t)' /\ UNCHANGED hooktrack
    BY <1>0, <1>2 DEF HookTear, hookvars, BeforeEntry, At
  <2>2. /\ UNCHANGED <<index, head, entry, dpc, todo, cur, val, stale, dropped, hookpc>>
        /\ \A i \in Item : i # t => work'[i] = work[i]
    BY <1>0, <1>2 DEF HookTear, hookvars, daemonvars, history, TypeOK
  <2>3. \A i \in Item : i # t => (BeforeEntry(i)' <=> BeforeEntry(i))
    BY <1>0, <2>1, <2>2, OtherItems
  <2> QED
    BY <1>0, <2>1, <2>2, <2>3, CoverWritten
<1>3. CASE HookWrite(p)
  <2>1. BeforeEntry(t) /\ BeforeEntry(t)' /\ UNCHANGED hooktrack
    BY <1>0, <1>3 DEF HookWrite, BeforeEntry, At, TypeOK
  <2>2. /\ UNCHANGED <<index, head, entry, dpc, todo, cur, val, stale>>
        /\ dropped' = dropped \ {t}
        /\ \A i \in Item : i # t => work'[i] = work[i]
        /\ \A q \in Port : q # p => hookpc'[q] = hookpc[q]
    BY <1>0, <1>3 DEF HookWrite, daemonvars, TypeOK
  <2>3. \A i \in Item : i # t => (BeforeEntry(i)' <=> BeforeEntry(i))
    BY <1>0, <2>1, <2>2, OtherItems
  <2> QED
    BY <1>0, <2>1, <2>2, <2>3, CoverWritten
<1>4. CASE HookUnlink(p)
  <2>1. BeforeEntry(t) /\ BeforeEntry(t)' /\ UNCHANGED hooktrack
    BY <1>0, <1>4 DEF HookUnlink, BeforeEntry, At, TypeOK
  <2>2. /\ UNCHANGED <<work, index, head, dpc, todo, cur, val, stale, dropped>>
        /\ \A i \in Item : i # t => entry'[i] = entry[i]
        /\ \A q \in Port : q # p => hookpc'[q] = hookpc[q]
    BY <1>0, <1>4 DEF HookUnlink, trees, daemonvars, history, TypeOK
  <2>3. \A i \in Item : i # t => (BeforeEntry(i)' <=> BeforeEntry(i))
    BY <1>0, <2>1, <2>2, OtherItems
  <2> QED
    BY <1>0, <2>1, <2>2, <2>3, CoverKept DEF Covered
<1>5. CASE HookCreate(p)
  <2>1. /\ UNCHANGED <<work, index, head, dpc, todo, cur, val, dropped, hooktrack>>
        /\ \A i \in Item : i # t => entry'[i] = entry[i]
        /\ entry'[t] = Blank
        /\ \A q \in Port : q # p => hookpc'[q] = hookpc[q]
        /\ stale => stale'
        /\ t = cur /\ dpc \in {"status", "commit", "unlink"} => stale'
    BY <1>0, <1>5 DEF HookCreate, trees, daemonvars, TypeOK
  <2>2. \A i \in Item : i # t => (BeforeEntry(i)' <=> BeforeEntry(i))
    BY <1>0, <2>1, OtherItems
  <2>3. \A i \in Item : Covered(i) => Covered(i)'
    BY <2>1, <2>2, CodeFacts DEF Covered
  <2> QED
    BY <1>0, <2>1, <2>2, <2>3, CoverKept
<1>6. CASE HookFill(p)
  <2>1. /\ UNCHANGED <<work, index, head, dpc, todo, cur, val, stale, dropped>>
        /\ \A i \in Item : i # t => entry'[i] = entry[i]
        /\ entry'[t] = IF entry[t] = Blank THEN build[p] ELSE entry[t]
        /\ hookpc[p] = "fill"
        /\ \A q \in Port : q # p => hookpc'[q] = hookpc[q] /\ hooktrack'[q] = hooktrack[q]
    BY <1>0, <1>6 DEF HookFill, trees, daemonvars, history, TypeOK
  <2>2. At(t, HookBusy)
    BY <1>0, <2>1 DEF At, HookBusy
  <2>3. entry[t] # NoEntry => entry'[t] # NoEntry
    BY <1>0, <2>1, <2>2, CodeFacts DEF EntryInv
  <2>4. \A i \in Item : BeforeEntry(i) => BeforeEntry(i)'
    <3> SUFFICES ASSUME NEW i \in Item, BeforeEntry(i) PROVE BeforeEntry(i)'
      OBVIOUS
    <3>1. i[2] # p
      BY <2>1 DEF BeforeEntry, At
    <3> QED
      BY <2>1, <3>1, OtherItems
  <2>5. \A i \in Item : Covered(i) => Covered(i)'
    BY <2>1, <2>3, <2>4 DEF Covered
  <2> QED
    BY <2>1, <2>4, <2>5, CoverKept
<1> QED
  BY <1>1, <1>2, <1>3, <1>4, <1>5, <1>6 DEF HookStep

\* A step of the daemon that neither commits nor takes an entry away.
LEMMA CoverDaemon ==
    ASSUME TypeOK, CoverInv, EntryInv,
           \/ FindDelta \/ FindDport \/ (\E i \in Item : Pick(i)) \/ EndRound
           \/ ReadEntry \/ AddStatus \/ AddStatusFails \/ AddTree \/ Tasks
           \/ CommitFails \/ Restart
    PROVE  CoverInv'
<1> USE DEF CoverInv
<1>1. UNCHANGED <<work, head, entry, hookpc, hooktrack, dropped>>
  BY DEF FindDelta, FindDport, Pick, EndRound, ReadEntry, AddStatus, AddStatusFails,
         AddTree, Tasks, CommitFails, Restart, hookvars, trees, history
<1>2. \A i \in Item : /\ Covered(i)' <=> Covered(i)
                      /\ BeforeEntry(i)' <=> BeforeEntry(i)
  BY <1>1 DEF Covered, BeforeEntry, At
<1>3. NoLostWork'
  BY <1>1, <1>2 DEF NoLostWork
<1>4. CASE AddStatus \/ (AddTree /\ index' = Stage)
  <2>1. /\ index' = [i \in Item |-> IF i \in Scope THEN work[i] ELSE index[i]]
        /\ dpc = "add" /\ dpc' = "status" /\ cur \in Item
        /\ UNCHANGED <<todo, cur, val>>
        /\ val = Blank => cur \in Trees
    BY <1>4 DEF AddStatus, AddTree, Stage, TypeOK
  <2>2. cur \in Scope
    BY <2>1 DEF Scope
  <2>3. StagedInv'
    BY <1>1, <1>2, <2>1 DEF StagedInv
  <2>4. DaemonInv'
    BY <1>1, <1>2, <2>1, <2>2 DEF DaemonInv, InHand, Covered, BeforeEntry, At
  <2> QED
    BY <1>3, <2>3, <2>4
<1>5. CASE AddTree /\ index' # Stage
  <2>1. /\ UNCHANGED <<index, todo, cur, val>> /\ stale' = TRUE
        /\ dpc = "add" /\ dpc' = "status" /\ cur \in Trees
    BY <1>5 DEF AddTree
  <2> QED
    BY <1>1, <1>2, <1>3, <2>1 DEF DaemonInv, InHand, StagedInv, Covered, BeforeEntry, At
<1>6. CASE FindDelta \/ FindDport
  <2>1. /\ UNCHANGED <<index, cur, val, stale>>
        /\ dpc' \in {"find_dport", "pick"}
        /\ \A i \in todo' : i \in todo \/ (i \in Item /\ entry[i] # NoEntry)
    BY <1>6 DEF FindDelta, FindDport, Queued, trees, history
  <2>2. \A i \in todo' : Covered(i) /\ i \notin dropped
    BY <2>1 DEF DaemonInv, EntryInv, Covered
  <2> QED
    BY <1>1, <1>2, <1>3, <2>1, <2>2, ItemFacts DEF DaemonInv, InHand, StagedInv, TypeOK, Covered, BeforeEntry, At
<1>7. ASSUME NEW i \in Item, Pick(i) PROVE CoverInv'
  BY <1>1, <1>2, <1>3, <1>7 DEF Pick, DaemonInv, InHand, StagedInv, trees, TypeOK, Covered, BeforeEntry, At
<1>8. CASE ReadEntry
  BY <1>1, <1>2, <1>3, <1>8 DEF ReadEntry, DaemonInv, InHand, StagedInv, trees, TypeOK, Covered, BeforeEntry, At
<1>9. CASE EndRound \/ AddStatusFails \/ CommitFails \/ Restart
  <2>1. dpc' \in {"find_delta", "pick"} /\ todo' \subseteq todo /\ UNCHANGED index
    BY <1>9 DEF EndRound, AddStatusFails, CommitFails, Restart, NextItem, trees
  <2> QED
    BY <1>1, <1>2, <1>3, <2>1 DEF DaemonInv, InHand, StagedInv, TypeOK, Covered, BeforeEntry, At
<1>10. CASE Tasks
  <2>1. /\ dpc = "status" /\ cur \in Item
        /\ dpc' = IF \E i \in Scope : Changed(i) THEN "commit" ELSE "unlink"
        /\ UNCHANGED <<index, todo, cur, val, stale>>
    BY <1>10 DEF Tasks, trees, history, TypeOK
  <2>2. cur \in Scope
    BY <2>1 DEF DaemonInv, Scope, Covered, BeforeEntry, At
  <2>3. dpc' = "unlink" => index[cur] = head[cur]
    BY <2>1, <2>2 DEF Changed
  <2> QED
    BY <1>1, <1>2, <1>3, <2>1, <2>3 DEF DaemonInv, InHand, StagedInv, Covered, BeforeEntry, At
<1> QED
  BY <1>4, <1>5, <1>6, <1>7, <1>8, <1>9, <1>10

\* A commit leaves what it could not publish as it is covered.
LEMMA CoverCommit ==
    ASSUME TypeOK, CoverInv, CommitPath \/ CommitIndex
    PROVE  CoverInv'
<1> USE DEF CoverInv
<1>1. /\ dpc = "commit" /\ dpc' = "unlink" /\ cur \in Item
      /\ UNCHANGED <<work, entry, hookpc, hooktrack, todo, cur, val, stale, dropped>>
  BY DEF CommitPath, CommitIndex, hookvars, history, TypeOK
<1>2. \A i \in Item : /\ Covered(i)' <=> Covered(i)
                      /\ BeforeEntry(i)' <=> BeforeEntry(i)
  BY <1>1 DEF Covered, BeforeEntry, At
<1>3. Covered(cur)
  BY <1>1 DEF DaemonInv, InHand, Covered, BeforeEntry, At
<1>4. /\ \A i \in Item : head'[i] # head[i] \/ index'[i] # index[i]
                            => i = cur \/ (head'[i] = index[i] /\ index'[i] = index[i])
      /\ index'[cur] = head'[cur]
      /\ index[cur] = work[cur] => head'[cur] = work[cur]
  <2>1. CASE CommitPath
    <3>1. PICK new \in Committable :
             head' = [head EXCEPT ![cur] = new] /\ index' = [index EXCEPT ![cur] = new]
      BY <2>1 DEF CommitPath
    <3>2. index[cur] = work[cur] => new = work[cur]
      BY <3>1 DEF Committable
    <3> QED
      BY <1>1, <3>1, <3>2 DEF TypeOK
  <2>2. CASE CommitIndex
    BY <1>1, <2>2 DEF CommitIndex, DaemonInv, TypeOK, Covered, BeforeEntry, At
  <2> QED
    BY <2>1, <2>2
<1>5. NoLostWork' /\ StagedInv'
  BY <1>1, <1>2, <1>3, <1>4 DEF NoLostWork, StagedInv
<1>6. DaemonInv'
  BY <1>1, <1>2, <1>4 DEF DaemonInv, InHand, Covered, BeforeEntry, At
<1> QED
  BY <1>5, <1>6

\* The daemon's rm takes the entry of work that is committed, or to be queued
\* again, or the item is dropped.
LEMMA CoverRemove ==
    ASSUME TypeOK, CoverInv, RemoveEntry
    PROVE  CoverInv'
<1> USE DEF CoverInv
<1>0. PICK c \in Item : c = cur
  BY DEF RemoveEntry, TypeOK
<1>1. /\ dpc = "unlink" /\ dpc' = "pick"
      /\ UNCHANGED <<work, index, head, hookpc, hooktrack, todo>>
      /\ \A i \in Item : i # c => entry'[i] = entry[i]
      /\ dropped' = IF stale /\ work[c] # head[c] /\ ~BeforeEntry(c)
                      THEN dropped \cup {c} ELSE dropped
  BY <1>0 DEF RemoveEntry, NextItem, trees, hookvars, TypeOK
<1>2. \A i \in Item : BeforeEntry(i)' <=> BeforeEntry(i)
  BY <1>1 DEF BeforeEntry, At
<1>3. \A i \in Item : i # c /\ Covered(i) => Covered(i)'
  BY <1>1, <1>2 DEF Covered
<1>4. \/ Covered(c)'
      \/ work[c] = head[c] /\ index[c] = work[c]
  BY <1>0, <1>1, <1>2 DEF Covered, DaemonInv
<1>5. NoLostWork' /\ StagedInv'
  BY <1>1, <1>3, <1>4 DEF NoLostWork, StagedInv
<1>6. DaemonInv'
  BY <1>0, <1>1, <1>2, <1>3 DEF DaemonInv, InHand, TypeOK, Covered, BeforeEntry, At
<1> QED
  BY <1>5, <1>6

LEMMA CoverNext == TypeOK /\ CoverInv /\ EntryInv /\ [Next]_vars => CoverInv'
<1> SUFFICES ASSUME TypeOK, CoverInv, EntryInv, [Next]_vars PROVE CoverInv'
  OBVIOUS
<1>1. CASE UNCHANGED vars
  BY <1>1 DEF vars, CoverInv, NoLostWork, StagedInv, DaemonInv, InHand, Covered,
              BeforeEntry, At
<1> QED
  BY <1>1, CoverHook, CoverDaemon, CoverCommit, CoverRemove DEF Next, DaemonStep

-----------------------------------------------------------------------------
(* What the entries name.                                                     *)

LEMMA BuildFacts ==
    ASSUME TypeOK, NEW p \in Port
    PROVE  build[p] \in Int /\ build[p] >= 0 /\ build[p] \in Content
  BY BoundsAssumption DEF TypeOK, Content

\* What a build is named for stays so, when no build but a later one writes the
\* item or is about to queue it.
LEMMA NamesKept ==
    ASSUME TypeOK, TypeOK', NEW i \in Item, NEW n \in Content,
           Names(i, n), build[i[2]] <= build'[i[2]],
           \/ At(i, {"write"})' /\ work'[i] \in {Absent, Torn}
           \/ work'[i] = build'[i[2]]
           \/ work'[i] = work[i] /\ (At(i, {"write"}) => At(i, {"write"})'),
           Pending(i)' => Pending(i) \/ build[i[2]] < build'[i[2]]
    PROVE  Names(i, n)'
<1>1. /\ i[2] \in Port /\ n \in Int /\ work[i] \in Int
      /\ build[i[2]] \in Int /\ build'[i[2]] \in Int
  BY ItemFacts, CodeFacts, BoundsAssumption DEF TypeOK
<1> QED
  BY <1>1 DEF Names

LEMMA EntryInit == Init => EntryInv
<1> SUFFICES ASSUME Init PROVE EntryInv
  OBVIOUS
<1>1. \A i \in Item : /\ ~At(i, HookBusy) /\ ~At(i, {"unlink", "create", "fill"})
                      /\ entry[i] = NoEntry
  BY ItemFacts DEF Init, At, HookBusy
<1> QED
  BY <1>1, CodeFacts DEF Init, EntryInv

\* A step of p's hook, at item t: what has to be seen to for EntryInv.
LEMMA EntryHook ==
    ASSUME TypeOK, TypeOK', EntryInv, NEW p \in Port, NEW t \in Item, t = Target(p),
           UNCHANGED <<build, dpc, cur, val>>,
           \A q \in Port : q # p => hookpc'[q] = hookpc[q] /\ hooktrack'[q] = hooktrack[q],
           At(t, HookBusy),
           \A i \in Item : i # t => work'[i] = work[i] /\ entry'[i] = entry[i],
           dropped' \subseteq dropped,
           \* the item itself
           At(t, {"unlink", "create", "fill"})' => work'[t] = build[p],
           \/ At(t, {"write"})' /\ work'[t] \in {Absent, Torn}
           \/ work'[t] = build[p],
           Pending(t)' => Pending(t),
           \/ entry'[t] = entry[t] \/ ~(entry'[t] > 0)
           \/ \A n \in Content : n = entry'[t] => Names(t, n)',
           t \in dropped' => entry'[t] = NoEntry /\ ~At(t, {"unlink", "create"})',
           \* the port's other item
           \A i \in Item : i # t /\ i[2] = p
              => /\ ~At(i, {"unlink", "create", "fill"})'
                 /\ Pending(i)' => Pending(i)
    PROVE  EntryInv'
<1>0. t[1] = hooktrack[p] /\ t[2] = p
  BY TargetFacts
<1>1. \A i \in Item : i[2] = p => build'[i[2]] > 0
  BY <1>0 DEF EntryInv
<1>2. ASSUME NEW i \in Item, i[2] # p
      PROVE  /\ \A pcs : At(i, pcs)' <=> At(i, pcs)
             /\ Pending(i)' <=> Pending(i)
  <2>1. \A pcs : At(i, pcs)' <=> At(i, pcs)
    BY <1>2, OtherItems
  <2>2. PICK d \in Item : d = <<"dport", i[2]>> /\ d[2] = i[2]
    BY ItemFacts
  <2>3. At(d, HookBusy)' <=> At(d, HookBusy)
    BY <1>2, <2>2, OtherItems DEF HookBusy
  <2> QED
    BY <1>2, <2>1, <2>2, <2>3, OtherItems DEF Pending
<1>3. \A i \in Item : i # t /\ i[2] = p => ~At(i, {"write"})
  BY <1>0, TargetFacts DEF At
<1>4. \A i \in Item : Pending(i)' => Pending(i)
  BY <1>2
<1>5. \A i \in Item : \/ At(i, {"write"})' /\ work'[i] \in {Absent, Torn}
                      \/ work'[i] = build'[i[2]]
                      \/ work'[i] = work[i] /\ (At(i, {"write"}) => At(i, {"write"})')
  BY <1>0, <1>2, <1>3
<1>6. \A i \in Item, n \in Content : Names(i, n) => Names(i, n)'
  <2> SUFFICES ASSUME NEW i \in Item, NEW n \in Content, Names(i, n)
               PROVE  Names(i, n)'
    OBVIOUS
  <2>1. build[i[2]] <= build'[i[2]]
    BY BuildFacts, ItemFacts
  <2> QED
    BY <1>4, <1>5, <2>1, NamesKept
<1>7. \A i \in Item : At(i, HookBusy)' => build'[i[2]] > 0
  BY <1>1, <1>2 DEF EntryInv
<1>8. \A i \in Item : At(i, {"unlink", "create", "fill"})' => work'[i] = build'[i[2]]
  BY <1>0, <1>2 DEF EntryInv
<1>9. ASSUME NEW i \in Item, entry'[i] > 0 PROVE Names(i, entry[i])'
  <2>1. PICK n \in Content : n = entry'[i]
    BY DEF TypeOK
  <2>2. Names(i, n)'
    <3>1. entry'[i] = entry[i] => Names(i, n)
      BY <1>9, <2>1 DEF EntryInv
    <3> QED
      BY <1>6, <1>9, <2>1, <3>1
  <2> QED
    BY <2>1, <2>2 DEF Names
<1>10. ASSUME dpc' \in {"add", "status", "commit", "unlink"}, val' # Blank
       PROVE  val' > 0 /\ Names(cur, val)'
  <2>1. PICK c \in Item, n \in Content : c = cur /\ n = val
    BY <1>10 DEF TypeOK
  <2>2. n > 0 /\ Names(c, n)'
    BY <1>6, <1>10, <2>1 DEF EntryInv
  <2> QED
    BY <2>1, <2>2 DEF Names, Pending, BeforeEntry, At
<1>11. \A i \in dropped' : entry'[i] = NoEntry /\ ~At(i, {"unlink", "create"})'
  <2> SUFFICES ASSUME NEW i \in dropped', i # t
               PROVE  entry'[i] = NoEntry /\ ~At(i, {"unlink", "create"})'
    OBVIOUS
  <2>1. i \in Item /\ i \in dropped
    BY DEF TypeOK
  <2>2. At(i, {"unlink", "create"})' => At(i, {"unlink", "create", "fill"})'
    BY DEF At
  <2> QED
    BY <1>2, <2>1, <2>2 DEF EntryInv
<1> QED
  BY <1>7, <1>8, <1>9, <1>10, <1>11 DEF EntryInv

\* Where p's hook is at its item t, and nowhere at the port's other item.
LEMMA HookAt ==
    ASSUME TypeOK, NEW p \in Port
    PROVE  /\ \A pcs : At(Target(p), pcs) <=> hookpc[p] \in pcs
           /\ \A i \in Item : \A pcs : i # Target(p) /\ i[2] = p => ~At(i, pcs)
           /\ \A i \in Item : i # Target(p) /\ i[2] = p
                 => (Pending(i) <=> i[1] = "delta" /\ hooktrack[p] = "dport"
                                                   /\ hookpc[p] \in HookBusy)
<1>1. \A pcs : At(Target(p), pcs) <=> hookpc[p] \in pcs
  BY TargetFacts DEF At
<1>2. \A i \in Item : \A pcs : i # Target(p) /\ i[2] = p => ~At(i, pcs)
  BY TargetFacts DEF At
<1>3. ASSUME NEW i \in Item, i # Target(p), i[2] = p
      PROVE  Pending(i) <=> i[1] = "delta" /\ hooktrack[p] = "dport"
                                           /\ hookpc[p] \in HookBusy
  <2>1. PICK d \in Item : d = <<"dport", i[2]>> /\ d[1] = "dport" /\ d[2] = p
    BY <1>3, ItemFacts
  <2>2. At(d, HookBusy) <=> hooktrack[p] = "dport" /\ hookpc[p] \in HookBusy
    BY <2>1 DEF At
  <2> QED
    BY <1>2, <1>3, <2>1, <2>2 DEF Pending, BeforeEntry
<1> QED
  BY <1>1, <1>2, <1>3

LEMMA EntryStart ==
    ASSUME TypeOK, TypeOK', EntryInv, NEW p \in Port, NEW success \in BOOLEAN,
           HookStart(p, success)
    PROVE  EntryInv'
<1>1. /\ hookpc[p] = "idle" /\ hookpc'[p] = "write"
      /\ build' = [build EXCEPT ![p] = build[p] + 1]
      /\ \A q \in Port : q # p => hookpc'[q] = hookpc[q] /\ hooktrack'[q] = hooktrack[q]
      /\ UNCHANGED <<work, entry, dpc, cur, val, dropped>>
  BY DEF HookStart, trees, daemonvars, history, TypeOK
<1>2. \A q \in Port : build'[q] = IF q = p THEN build[p] + 1 ELSE build[q]
  BY <1>1 DEF TypeOK
<1>3. \A i \in Item : i[2] = p => \A pcs : At(i, pcs) => "idle" \in pcs
  BY <1>1 DEF At
<1>4. \A i \in Item : i[2] = p => ~At(i, {"unlink", "create", "fill"})' /\ ~At(i, {"unlink", "create"})'
  BY <1>1 DEF At
<1>5. ASSUME NEW i \in Item, i[2] # p
      PROVE  /\ \A pcs : At(i, pcs)' <=> At(i, pcs)
             /\ Pending(i)' <=> Pending(i)
  <2>1. \A pcs : At(i, pcs)' <=> At(i, pcs)
    BY <1>1, <1>5, OtherItems
  <2>2. PICK d \in Item : d = <<"dport", i[2]>> /\ d[2] = i[2]
    BY ItemFacts
  <2>3. At(d, HookBusy)' <=> At(d, HookBusy)
    BY <1>1, <1>5, <2>2, OtherItems DEF HookBusy
  <2> QED
    BY <1>1, <1>5, <2>1, <2>2, <2>3, OtherItems DEF Pending
<1>6. ASSUME NEW i \in Item, NEW n \in Content, Names(i, n) PROVE Names(i, n)'
  <2>1. CASE i[2] = p
    <3>1. build[i[2]] < build'[i[2]]
      BY <1>2, <2>1, BuildFacts
    <3>2. ~At(i, {"write"})
      BY <1>3, <2>1
    <3> QED
      BY <1>1, <1>6, <3>1, <3>2, NamesKept, BuildFacts, ItemFacts
  <2>2. CASE i[2] # p
    <3>1. build[i[2]] = build'[i[2]] /\ build[i[2]] <= build'[i[2]]
      BY <1>2, <2>2, BuildFacts, ItemFacts
    <3>2. work'[i] = work[i]
      BY <1>1
    <3>3. At(i, {"write"}) => At(i, {"write"})'
      BY <1>5, <2>2
    <3> QED
      BY <1>5, <1>6, <2>2, <3>1, <3>2, <3>3, NamesKept
  <2> QED
    BY <2>1, <2>2
<1>7. \A i \in Item : At(i, HookBusy)' => build'[i[2]] > 0
  BY <1>2, <1>5, BuildFacts, ItemFacts DEF EntryInv
<1>8. \A i \in Item : At(i, {"unlink", "create", "fill"})' => work'[i] = build'[i[2]]
  BY <1>1, <1>2, <1>4, <1>5, ItemFacts DEF EntryInv
<1>9. ASSUME NEW i \in Item, entry'[i] > 0 PROVE Names(i, entry[i])'
  <2>1. PICK n \in Content : n = entry[i]
    BY DEF TypeOK
  <2>2. Names(i, n)'
    BY <1>1, <1>6, <1>9, <2>1 DEF EntryInv
  <2> QED
    BY <1>1, <2>1, <2>2 DEF Names
<1>10. ASSUME dpc' \in {"add", "status", "commit", "unlink"}, val' # Blank
       PROVE  val' > 0 /\ Names(cur, val)'
  <2>1. PICK c \in Item, n \in Content : c = cur /\ n = val
    BY <1>1, <1>10 DEF TypeOK
  <2>2. n > 0 /\ Names(c, n)'
    BY <1>1, <1>6, <1>10, <2>1 DEF EntryInv
  <2> QED
    BY <1>1, <2>1, <2>2 DEF Names, Pending, BeforeEntry, At
<1>11. \A i \in dropped' : entry'[i] = NoEntry /\ ~At(i, {"unlink", "create"})'
  BY <1>1, <1>4, <1>5 DEF EntryInv, TypeOK
<1> QED
  BY <1>7, <1>8, <1>9, <1>10, <1>11 DEF EntryInv

LEMMA EntryHooks ==
    ASSUME TypeOK, TypeOK', EntryInv, NEW p \in Port, HookTear(p) \/ HookStep(p)
    PROVE  EntryInv'
<1>0. PICK t \in Item : t = Target(p) /\ t[1] = hooktrack[p] /\ t[2] = p
  BY TargetFacts
<1>1. UNCHANGED <<build, dpc, cur, val>>
  BY DEF HookTear, HookStep, HookWrite, HookUnlink, HookCreate, HookFill, hookvars,
         daemonvars
<1>2. \A q \in Port : q # p => hookpc'[q] = hookpc[q] /\ hooktrack'[q] = hooktrack[q]
  BY DEF HookTear, HookStep, HookWrite, HookUnlink, HookCreate, HookFill, hookvars,
         TypeOK
<1>3. hookpc[p] \in HookBusy /\ At(t, HookBusy)
  BY <1>0, HookAt
  DEF HookTear, HookStep, HookWrite, HookUnlink, HookCreate, HookFill, HookBusy
<1>4. \A i \in Item : i # t => work'[i] = work[i] /\ entry'[i] = entry[i]
  BY <1>0 DEF HookTear, HookStep, HookWrite, HookUnlink, HookCreate, HookFill, trees,
              TypeOK
<1>5. dropped' \subseteq dropped
  BY DEF HookTear, HookStep, HookWrite, HookUnlink, HookCreate, HookFill, history
<1>6. UNCHANGED hooktrack =>
        /\ \A pcs : At(t, pcs)' <=> hookpc'[p] \in pcs
        /\ \A i \in Item : i # t /\ i[2] = p
              => /\ ~At(i, {"unlink", "create", "fill"})'
                 /\ Pending(i)' => Pending(i)
  <2> SUFFICES ASSUME UNCHANGED hooktrack
               PROVE  /\ \A pcs : At(t, pcs)' <=> hookpc'[p] \in pcs
                      /\ \A i \in Item : i # t /\ i[2] = p
                            => /\ ~At(i, {"unlink", "create", "fill"})'
                               /\ Pending(i)' => Pending(i)
    OBVIOUS
  <2>1. \A i \in Item : i # t /\ i[2] = p => hooktrack[p] # i[1]
    BY <1>0, TargetFacts
  <2>2. \A i \in Item : \A pcs : i # t /\ i[2] = p => ~At(i, pcs)'
    BY <2>1 DEF At
  <2>3. ASSUME NEW i \in Item, i # t, i[2] = p, Pending(i)' PROVE Pending(i)
    <3>1. PICK d \in Item : d = <<"dport", i[2]>> /\ d[1] = "dport" /\ d[2] = p
      BY <2>3, ItemFacts
    <3>2. i[1] = "delta" /\ At(d, HookBusy)'
      BY <2>2, <2>3, <3>1 DEF Pending, BeforeEntry
    <3>3. At(d, HookBusy)
      BY <1>3, <3>1, <3>2 DEF At
    <3> QED
      BY <3>1, <3>2, <3>3 DEF Pending
  <2> QED
    BY <1>0, <2>2, <2>3 DEF At
<1>7. t \in dropped => entry[t] = NoEntry /\ hookpc[p] \notin {"unlink", "create"}
  BY <1>0, HookAt DEF EntryInv
<1>8. hookpc[p] \in {"unlink", "create", "fill"} => work[t] = build[p]
  BY <1>0, HookAt DEF EntryInv
<1>9. Pending(t) <=> hookpc[p] \in {"write", "unlink", "create"}
  <2>1. PICK d \in Item : d = <<"dport", p>> /\ d[1] = "dport" /\ d[2] = p
    BY ItemFacts
  <2>2. t[1] = "delta" => ~At(d, HookBusy)
    BY <1>0, <2>1 DEF At
  <2> QED
    BY <1>0, <2>1, <2>2, HookAt DEF Pending, BeforeEntry
<1>10. UNCHANGED hooktrack => (Pending(t)' <=> hookpc'[p] \in {"write", "unlink", "create"})
  <2>1. PICK d \in Item : d = <<"dport", p>> /\ d[1] = "dport" /\ d[2] = p
    BY ItemFacts
  <2>2. UNCHANGED hooktrack /\ t[1] = "delta" => ~At(d, HookBusy)'
    BY <1>0, <2>1 DEF At
  <2> QED
    BY <1>0, <1>6, <2>1, <2>2 DEF Pending, BeforeEntry
<1>11. CASE HookTear(p)
  <2>1. hookpc[p] = "write" /\ UNCHANGED <<hookpc, hooktrack, entry>>
    BY <1>11 DEF HookTear, hookvars
  <2>2. At(t, {"write"})' /\ work'[t] \in {Absent, Torn} /\ Pending(t)
    BY <1>0, <1>6, <1>9, <1>11, <2>1 DEF HookTear, TypeOK
  <2>3. ~At(t, {"unlink", "create", "fill"})' /\ ~At(t, {"unlink", "create"})'
    BY <1>6, <2>1
  <2>4. t \in dropped' => entry'[t] = NoEntry
    BY <1>5, <1>7, <2>1
  <2> QED
    BY <1>0, <1>1, <1>2, <1>3, <1>4, <1>5, <1>6, <2>1, <2>2, <2>3, <2>4, EntryHook
<1>12. CASE HookWrite(p)
  <2>1. /\ hookpc[p] = "write" /\ hookpc'[p] = "unlink" /\ UNCHANGED <<hooktrack, entry>>
        /\ work'[t] = build[p] /\ t \notin dropped'
    BY <1>0, <1>12 DEF HookWrite, TypeOK
  <2>2. Pending(t)
    BY <1>9, <2>1
  <2> QED
    BY <1>0, <1>1, <1>2, <1>3, <1>4, <1>5, <1>6, <2>1, <2>2, EntryHook
<1>13. CASE HookUnlink(p)
  <2>1. /\ hookpc[p] = "unlink" /\ hookpc'[p] = "create"
        /\ entry'[t] = NoEntry /\ UNCHANGED <<work, hooktrack, dropped>>
    BY <1>0, <1>13 DEF HookUnlink, trees, history, TypeOK
  <2>2. Pending(t) /\ t \notin dropped' /\ work'[t] = build[p] /\ ~(entry'[t] > 0)
    BY <1>7, <1>8, <1>9, <2>1, CodeFacts
  <2> QED
    BY <1>0, <1>1, <1>2, <1>3, <1>4, <1>5, <1>6, <2>1, <2>2, EntryHook
<1>14. CASE HookCreate(p)
  <2>1. /\ hookpc[p] = "create" /\ hookpc'[p] = "fill"
        /\ entry'[t] = Blank /\ UNCHANGED <<work, hooktrack, dropped>>
    BY <1>0, <1>14 DEF HookCreate, trees, TypeOK
  <2>2. Pending(t) /\ t \notin dropped' /\ work'[t] = build[p] /\ ~(entry'[t] > 0)
    BY <1>7, <1>8, <1>9, <2>1, CodeFacts
  <2> QED
    BY <1>0, <1>1, <1>2, <1>3, <1>4, <1>5, <1>6, <2>1, <2>2, EntryHook
<1>15. CASE HookFill(p)
  <2>1. /\ hookpc[p] = "fill" /\ UNCHANGED <<work, dropped>>
        /\ entry'[t] = IF entry[t] = Blank THEN build[p] ELSE entry[t]
        /\ \/ /\ hooktrack[p] = "dport" /\ hooktrack'[p] = "delta" /\ hookpc'[p] = "write"
           \/ hookpc'[p] = "idle" /\ UNCHANGED hooktrack
    BY <1>0, <1>15 DEF HookFill, trees, history, TypeOK
  <2>2. \A pcs : "idle" \notin pcs => ~At(t, pcs)'
    BY <1>0, <2>1 DEF At
  <2>3. ~Pending(t)'
    <3>1. PICK d \in Item : d = <<"dport", p>> /\ d[1] = "dport" /\ d[2] = p
      BY ItemFacts
    <3>2. ~At(d, HookBusy)'
      BY <1>0, <2>1, <3>1 DEF At, HookBusy
    <3> QED
      BY <1>0, <2>2, <3>1, <3>2 DEF Pending, BeforeEntry
  <2>4. ASSUME NEW i \in Item, i # t, i[2] = p
        PROVE  /\ ~At(i, {"unlink", "create", "fill"})'
               /\ Pending(i)' => Pending(i)
    <3>1. CASE UNCHANGED hooktrack
      BY <1>6, <2>4, <3>1
    <3>2. CASE hooktrack[p] = "dport" /\ hooktrack'[p] = "delta" /\ hookpc'[p] = "write"
      <4>1. i[1] = "delta"
        <5>1. i[1] # "dport"
          BY <1>0, <2>4, <3>2, TargetFacts
        <5> QED
          BY <5>1, ItemFacts DEF Track
      <4>2. Pending(i)
        BY <1>0, <1>3, <2>4, <3>2, <4>1, HookAt
      <4> QED
        BY <2>4, <3>2, <4>2 DEF At
    <3> QED
      BY <2>1, <3>1, <3>2
  <2>5. \A n \in Content : n = build[p] => Names(t, n)'
    <3>1. work[t] = build[p]
      BY <1>8, <2>1
    <3> QED
      BY <1>0, <1>1, <2>1, <2>3, <3>1, BuildFacts DEF Names
  <2>6. t \in dropped' => entry'[t] = NoEntry
    BY <1>7, <2>1, CodeFacts
  <2>7. \/ entry'[t] = entry[t]
        \/ \A n \in Content : n = entry'[t] => Names(t, n)'
    BY <2>1, <2>5
  <2>8. work'[t] = build[p]
    BY <1>8, <2>1
  <2> QED
    BY <1>0, <1>1, <1>2, <1>3, <1>4, <1>5, <2>2, <2>3, <2>4, <2>6, <2>7, <2>8, EntryHook
<1> QED
  BY <1>11, <1>12, <1>13, <1>14, <1>15 DEF HookStep

LEMMA EntryDaemon ==
    ASSUME TypeOK, TypeOK', CoverInv, EntryInv,
           DaemonStep \/ Restart \/ UNCHANGED vars
    PROVE  EntryInv'
<1>1. UNCHANGED <<work, build, hookpc, hooktrack>>
  BY DEF DaemonStep, FindDelta, FindDport, Pick, EndRound, ReadEntry, AddStatus,
         AddStatusFails, AddTree, Tasks, CommitPath, CommitIndex, CommitFails,
         RemoveEntry, Restart, hookvars, trees, vars
<1>2. \A i \in Item : entry'[i] \in {entry[i], NoEntry}
  BY DEF DaemonStep, FindDelta, FindDport, Pick, EndRound, ReadEntry, AddStatus,
         AddStatusFails, AddTree, Tasks, CommitPath, CommitIndex, CommitFails,
         RemoveEntry, Restart, vars, TypeOK
<1>3. /\ \A i \in Item : \A pcs : At(i, pcs)' <=> At(i, pcs)
      /\ \A i \in Item : \A n : Names(i, n)' <=> Names(i, n)
  BY <1>1 DEF At, Names, Pending, BeforeEntry
<1>4. ASSUME NEW i \in Item, entry'[i] > 0 PROVE Names(i, entry[i])'
  <2>1. entry'[i] = entry[i]
    BY <1>2, <1>4, CodeFacts
  <2>2. Names(i, entry[i])
    BY <1>4, <2>1 DEF EntryInv
  <2> QED
    BY <1>1, <2>1, <2>2 DEF Names, Pending, BeforeEntry, At
<1>5. ASSUME dpc' \in {"add", "status", "commit", "unlink"}, val' # Blank
      PROVE  val' > 0 /\ Names(cur, val)'
  <2>1. \/ UNCHANGED <<cur, val>> /\ dpc \in {"add", "status", "commit", "unlink"}
        \/ ReadEntry
    BY <1>5 DEF DaemonStep, FindDelta, FindDport, Pick, EndRound, AddStatus,
         AddStatusFails, AddTree, Tasks, CommitPath, CommitIndex, CommitFails,
         RemoveEntry, Restart, NextItem, vars
  <2>2. PICK c \in Item : c = cur'
    BY <1>5 DEF TypeOK
  <2>3. cur' = cur /\ val' > 0 /\ Names(c, val')
    <3>1. CASE ReadEntry
      BY <1>5, <2>2, <3>1, CodeFacts DEF ReadEntry, EntryInv, TypeOK
    <3>2. CASE UNCHANGED <<cur, val>> /\ dpc \in {"add", "status", "commit", "unlink"}
      BY <1>5, <2>2, <3>2 DEF EntryInv
    <3> QED
      BY <2>1, <3>1, <3>2
  <2> QED
    BY <1>1, <2>2, <2>3 DEF Names, Pending, BeforeEntry, At
<1>6. ASSUME NEW i \in dropped'
      PROVE  entry'[i] = NoEntry /\ ~At(i, {"unlink", "create"})'
  <2>1. i \in Item
    BY DEF TypeOK
  <2>2. CASE i \in dropped
    BY <1>2, <1>3, <2>1, <2>2 DEF EntryInv
  <2>3. CASE i \notin dropped
    <3>1. /\ i = cur /\ ~BeforeEntry(cur) /\ entry' = [entry EXCEPT ![cur] = NoEntry]
      BY <2>3 DEF DaemonStep, FindDelta, FindDport, Pick, EndRound, ReadEntry,
         AddStatus, AddStatusFails, AddTree, Tasks, CommitPath, CommitIndex,
         CommitFails, RemoveEntry, Restart, history, vars
    <3>2. ~At(i, {"unlink", "create"})
      BY <3>1 DEF BeforeEntry, At
    <3> QED
      BY <1>3, <2>1, <3>1, <3>2 DEF TypeOK
  <2> QED
    BY <2>2, <2>3
<1> QED
  BY <1>1, <1>3, <1>4, <1>5, <1>6 DEF EntryInv

LEMMA EntryNext ==
    TypeOK /\ TypeOK' /\ CoverInv /\ EntryInv /\ [Next]_vars => EntryInv'
  BY EntryStart, EntryHooks, EntryDaemon DEF Next

\* The inductive invariant of the queue, whatever overlaps and fails: it is
\* what the next two theorems rest on (pkgbuild.sh with dports-daemon.sh).
THEOREM QueueInvariant == Spec => []QueueInv
<1> DEFINE I == TypeOK /\ CoverInv /\ EntryInv
<1>1. Init => I
  BY TypeInit, CoverInit, EntryInit
<1>2. I /\ [Next]_vars => I'
  BY TypeNext, CoverNext, EntryNext
<1>3. I <=> QueueInv
  BY DEF CoverInv, QueueInv
<1> QED
  BY <1>1, <1>2, <1>3, PTL DEF Spec

\* The daemon removes the entry of work that no commit holds in the two known
\* cases only: git add failed, or the entry is that of a later build, created
\* after git add (dports-daemon.sh:51-65 and 67-88).
THEOREM NothingIsLost == Spec => []NoLostWork
<1>1. QueueInv => NoLostWork
  BY DEF QueueInv
<1> QED
  BY <1>1, QueueInvariant, PTL

\* A commit that names a build takes that item and no other, and no earlier
\* build of it than it names.
THEOREM MessagesMatch == Spec => CommitMatchesMessage
<1> DEFINE Matches ==
      dpc = "commit" /\ head' # head /\ val # Blank
          => \E new \in Content :
                /\ head' = [head EXCEPT ![cur] = new]
                /\ \/ new >= val
                   \/ new \in {Absent, Torn} /\ (stale \/ build[cur[2]] > val)
<1>1. QueueInv /\ [Next]_vars => [Matches]_vars
  <2> SUFFICES ASSUME QueueInv, Next, dpc = "commit", head' # head, val # Blank
               PROVE  \E new \in Content :
                        /\ head' = [head EXCEPT ![cur] = new]
                        /\ \/ new >= val
                           \/ new \in {Absent, Torn} /\ (stale \/ build[cur[2]] > val)
    BY DEF vars
  <2>1. CommitPath
    BY DEF Next, HookStart, HookTear, HookStep, HookWrite, HookUnlink,
      HookCreate, HookFill, DaemonStep, FindDelta, FindDport, Pick, EndRound,
      ReadEntry, AddStatus, AddStatusFails, AddTree, Tasks,
      CommitIndex, CommitFails, RemoveEntry, Restart, trees
  <2>2. PICK new \in Committable : head' = [head EXCEPT ![cur] = new]
    BY <2>1 DEF CommitPath
  <2>3. TypeOK /\ cur \in Item /\ val \in Content
    BY DEF QueueInv, TypeOK
  <2>4. new \in Content /\ (new = work[cur] \/ (new = Torn /\ index[cur] # work[cur]))
    BY <2>2, <2>3, ContentFacts DEF Committable, TypeOK
  <2>5. val > 0 /\ Names(cur, val)
    BY DEF QueueInv, EntryInv
  <2>6. build[cur[2]] \in Int /\ (BeforeEntry(cur) => build[cur[2]] > val)
    <3>1. build[cur[2]] \in Int
      BY <2>3, ItemFacts, BuildFacts
    <3> QED
      BY <2>3, <2>5, <3>1, CodeFacts DEF Names, Pending
  <2>7. new = Torn /\ index[cur] # work[cur] => stale \/ BeforeEntry(cur)
    BY DEF QueueInv, DaemonInv
  <2>8. \/ new >= val
        \/ new \in {Absent, Torn} /\ (stale \/ build[cur[2]] > val)
    <3>1. CASE new = work[cur]
      <4>1. At(cur, {"write"}) => BeforeEntry(cur)
        BY DEF At, BeforeEntry
      <4> QED
        BY <2>3, <2>4, <2>5, <2>6, <3>1, <4>1, CodeFacts DEF Names
    <3>2. CASE new # work[cur]
      BY <2>4, <2>6, <2>7, <3>2
    <3> QED
      BY <3>1, <3>2
  <2> QED
    BY <2>2, <2>4, <2>8
<1> QED
  BY <1>1, QueueInvariant, PTL DEF Spec, CommitMatchesMessage

-----------------------------------------------------------------------------
(* Builds are published in order, overlapping or not, git add failing or not. *)

\* NeverOlder needs to know two things more: what is in the working tree is not
\* older than the last commit either (git add may stage over Torn), and no build
\* is newer than the last one.
OrderInv ==
    /\ NeverOlder
    /\ \A i \in Item :
          /\ work[i] > 0 => head[i] <= work[i]
          /\ work[i] <= build[i[2]]
          /\ index[i] <= build[i[2]]
          /\ head[i] <= build[i[2]]

LEMMA OrderInit == Init => OrderInv
<1> SUFFICES ASSUME Init PROVE OrderInv
  OBVIOUS
<1>1. /\ work = [i \in Item |-> 0] /\ index = [i \in Item |-> 0]
      /\ head = [i \in Item |-> 0] /\ build = [p \in Port |-> 0]
  BY DEF Init, Absent
<1> QED
  BY <1>1, ItemFacts DEF OrderInv, NeverOlder

LEMMA TreeTypes ==
    ASSUME TypeOK
    PROVE  /\ work \in [Item -> Content] /\ index \in [Item -> Content]
           /\ head \in [Item -> Content] /\ build \in [Port -> 0..MaxBuild]
  BY DEF TypeOK

LEMMA OrderTypes ==
    ASSUME TypeOK, NEW i \in Item
    PROVE  /\ work[i] \in Int /\ index[i] \in Int /\ head[i] \in Int
           /\ i[2] \in Port /\ build[i[2]] \in Int /\ build[i[2]] >= 0
  BY TreeTypes, ItemFacts, BoundsAssumption DEF Content

LEMMA OrderUndisturbed ==
    ASSUME OrderInv, UNCHANGED <<trees, build>>
    PROVE  OrderInv'
  BY DEF OrderInv, NeverOlder, trees

\* Whatever is staged is either what the working tree holds or was staged before.
LEMMA OrderStaged ==
    ASSUME TypeOK, TypeOK', OrderInv, index' = Stage,
           UNCHANGED <<work, head, build>>
    PROVE  OrderInv'
<1> SUFFICES ASSUME NEW i \in Item
             PROVE  /\ index'[i] > 0 => head[i] <= index'[i]
                    /\ work[i] > 0 => index'[i] <= work[i]
                    /\ work[i] > 0 => head[i] <= work[i]
                    /\ work[i] <= build[i[2]]
                    /\ index'[i] <= build[i[2]]
                    /\ head[i] <= build[i[2]]
  BY DEF OrderInv, NeverOlder
<1>1. index'[i] = IF i \in Scope THEN work[i] ELSE index[i]
  BY DEF Stage
<1> QED
  BY <1>1, OrderTypes DEF OrderInv, NeverOlder

LEMMA OrderCommitted ==
    ASSUME TypeOK, TypeOK', OrderInv, CommitPath
    PROVE  OrderInv'
<1>1. cur \in Item
  BY ZenonT(30) DEF CommitPath, TypeOK
<1>2. PICK new \in Committable :
           /\ head' = [head EXCEPT ![cur] = new]
           /\ index' = [index EXCEPT ![cur] = new]
  BY DEF CommitPath
<1>3. work' = work /\ build' = build
  BY DEF CommitPath, hookvars
<1>4. new = work[cur] \/ new = Torn
  BY <1>2 DEF Committable
<1> SUFFICES ASSUME NEW i \in Item
             PROVE  /\ index'[i] > 0 => head'[i] <= index'[i]
                    /\ work[i] > 0 => index'[i] <= work[i]
                    /\ work[i] > 0 => head'[i] <= work[i]
                    /\ work[i] <= build[i[2]]
                    /\ index'[i] <= build[i[2]]
                    /\ head'[i] <= build[i[2]]
  BY <1>3 DEF OrderInv, NeverOlder
<1>5. CASE i = cur
  <2>1. head'[i] = new /\ index'[i] = new
    BY <1>1, <1>2, <1>5, TreeTypes
  <2> QED
    BY <2>1, <1>4, <1>5, OrderTypes DEF OrderInv, NeverOlder, Torn
<1>6. CASE i # cur
  <2>1. head'[i] = head[i] /\ index'[i] = index[i]
    BY <1>2, <1>6, TreeTypes
  <2> QED
    BY <2>1 DEF OrderInv, NeverOlder
<1> QED
  BY <1>5, <1>6

LEMMA OrderNext == TypeOK /\ TypeOK' /\ OrderInv /\ [Next]_vars => OrderInv'
<1> SUFFICES ASSUME TypeOK, TypeOK', OrderInv, [Next]_vars PROVE OrderInv'
  OBVIOUS
<1>1. ASSUME NEW p \in Port, NEW success \in BOOLEAN, HookStart(p, success)
      PROVE  OrderInv'
  <2>1. \A q \in Port : build'[q] \in Int /\ build[q] <= build'[q]
    <3>1. build' = [build EXCEPT ![p] = build[p] + 1]
      BY <1>1 DEF HookStart
    <3> QED
      BY <3>1, TreeTypes
  <2>2. UNCHANGED trees
    BY <1>1 DEF HookStart
  <2> SUFFICES ASSUME NEW i \in Item
               PROVE  /\ work[i] <= build'[i[2]]
                      /\ index[i] <= build'[i[2]]
                      /\ head[i] <= build'[i[2]]
    BY <2>2 DEF OrderInv, NeverOlder, trees
  <2> QED
    BY <2>1, OrderTypes DEF OrderInv
<1>2. ASSUME NEW p \in Port, NEW c,
             work' = [work EXCEPT ![Target(p)] = c], c \in {Absent, Torn, build[p]},
             UNCHANGED <<index, head, build>>
      PROVE  OrderInv'
  <2> SUFFICES ASSUME NEW i \in Item
               PROVE  /\ index[i] > 0 => head[i] <= index[i]
                      /\ work'[i] > 0 => index[i] <= work'[i]
                      /\ work'[i] > 0 => head[i] <= work'[i]
                      /\ work'[i] <= build[i[2]]
                      /\ index[i] <= build[i[2]]
                      /\ head[i] <= build[i[2]]
    BY <1>2 DEF OrderInv, NeverOlder
  <2>1. CASE i = Target(p)
    <3>1. work'[i] = c /\ i[2] = p
      BY <1>2, <2>1, TargetFacts, TreeTypes
    <3> QED
      BY <1>2, <3>1, OrderTypes DEF OrderInv, NeverOlder, Absent, Torn
  <2>2. CASE i # Target(p)
    <3>1. work'[i] = work[i]
      BY <1>2, <2>2, TreeTypes
    <3> QED
      BY <3>1 DEF OrderInv, NeverOlder
  <2> QED
    BY <2>1, <2>2
<1>3. ASSUME NEW p \in Port, HookTear(p) PROVE OrderInv'
  BY <1>2, <1>3 DEF HookTear, hookvars
<1>4. ASSUME NEW p \in Port, HookStep(p) PROVE OrderInv'
  <2>1. CASE HookWrite(p)
    BY <1>2, <2>1 DEF HookWrite
  <2>2. CASE HookUnlink(p) \/ HookCreate(p) \/ HookFill(p)
    BY <2>2, OrderUndisturbed DEF HookUnlink, HookCreate, HookFill
  <2> QED
    BY <1>4, <2>1, <2>2 DEF HookStep
<1>5. CASE AddStatus \/ AddTree
  BY <1>5, OrderStaged, OrderUndisturbed DEF AddStatus, AddTree, hookvars, trees
<1>6. CASE CommitPath
  BY <1>6, OrderCommitted
<1>7. CASE CommitIndex
  <2>1. /\ \A i \in Item : head'[i] = index[i] \/ head'[i] = head[i]
        /\ UNCHANGED <<work, index, build>>
    BY <1>7 DEF CommitIndex, hookvars
  <2> SUFFICES ASSUME NEW i \in Item
               PROVE  /\ index[i] > 0 => head'[i] <= index[i]
                      /\ work[i] > 0 => index[i] <= work[i]
                      /\ work[i] > 0 => head'[i] <= work[i]
                      /\ work[i] <= build[i[2]]
                      /\ index[i] <= build[i[2]]
                      /\ head'[i] <= build[i[2]]
    BY <2>1 DEF OrderInv, NeverOlder
  <2> QED
    BY <2>1, OrderTypes DEF OrderInv, NeverOlder
<1>8. CASE FindDelta \/ FindDport \/ (\E i \in Item : Pick(i)) \/ EndRound
             \/ ReadEntry \/ AddStatusFails \/ Tasks
             \/ CommitFails \/ RemoveEntry \/ Restart
  BY <1>8, OrderUndisturbed
  DEF FindDelta, FindDport, Pick, EndRound, ReadEntry, AddStatusFails,
      Tasks, CommitFails, RemoveEntry, Restart, hookvars
<1>9. CASE UNCHANGED vars
  BY <1>9, OrderUndisturbed DEF vars, trees
<1> QED
  BY <1>1, <1>3, <1>4, <1>5, <1>6, <1>7, <1>8, <1>9 DEF Next, DaemonStep

\* No build ever takes the place of a later one, in the index or in a commit,
\* whether or not builds overlap queued entries and git add fails.
THEOREM BuildsInOrder == Spec => []NeverOlder
<1>1. OrderInv => NeverOlder
  BY DEF OrderInv
<1> QED
  BY <1>1, TypeInit, TypeNext, OrderInit, OrderNext, PTL DEF Spec

-----------------------------------------------------------------------------
(* The STATUS half of the queue is a Ledger, step by step.                    *)

\* The STATUS file of a port is the last one made, or torn while the next is
\* being written; it is never missing while it has an entry, nor from the index
\* once the daemon has staged it.
LedgerInv ==
    /\ \A p \in Port :
          \/ work[StatusOf(p)] = StatusMade[p]
          \/ work[StatusOf(p)] = Torn /\ At(StatusOf(p), {"write"})
    /\ \A i \in Item \ Trees :
          entry[i] # NoEntry \/ i \in todo \/ (InHand /\ i = cur) => work[i] # 0
    /\ dpc \in {"status", "commit", "unlink"} /\ cur \notin Trees => index[cur] # 0

LEMMA StatusFacts ==
    /\ \A p \in Port :
          /\ StatusOf(p) \in Item /\ StatusOf(p) \notin Trees
          /\ StatusOf(p)[1] = "delta" /\ StatusOf(p)[2] = p
          /\ \A q \in Port : StatusOf(p) = StatusOf(q) => p = q
    /\ \A i \in Item \ Trees : i[2] \in Port /\ i = StatusOf(i[2])
  BY ItemFacts DEF StatusOf, Trees, Track

LEMMA LedgerInit == Init => LedgerInv /\ L!Init
<1> SUFFICES ASSUME Init PROVE LedgerInv /\ L!Init
  OBVIOUS
<1>1. \A p \in Port : /\ head[StatusOf(p)] = 0 /\ work[StatusOf(p)] = 0
                      /\ build[p] = 0 /\ hookpc[p] = "idle"
  BY StatusFacts DEF Init, Absent
<1>2. \A p \in Port : StatusWritten(p) /\ ~At(StatusOf(p), {"write"})
  BY <1>1, StatusFacts DEF StatusWritten, At
<1>3. StatusMade = [p \in Port |-> 0] /\ StatusPublished = [p \in Port |-> 0]
  BY <1>1, <1>2 DEF StatusMade, StatusPublished
<1>4. StatusOpen = {} /\ StatusLost = {}
  BY <1>2 DEF Init, StatusOpen, StatusLost
<1>5. LedgerInv
  BY <1>1, <1>3 DEF LedgerInv, Init, InHand
<1> QED
  BY <1>3, <1>4, <1>5 DEF L!Init

ledgerview == <<StatusMade, StatusPublished, StatusOpen, StatusLost>>

\* What a step of the queue is to the ledger.
Booked == UNCHANGED ledgerview \/ L!Next

\* Where p's hook is, told in the terms of the ledger.
LEMMA WrittenFacts ==
    ASSUME TypeOK, NEW p \in Port
    PROVE  /\ At(StatusOf(p), {"write"}) <=> hookpc[p] = "write" /\ hooktrack[p] = "delta"
           /\ StatusMade[p] = IF StatusWritten(p) THEN build[p] ELSE build[p] - 1
           /\ At(StatusOf(p), {"write"}) => ~StatusWritten(p)
  BY StatusFacts DEF At, StatusMade, StatusWritten

\* A step that leaves the hooks and the STATUS files alone.
LEMMA LedgerUndisturbed ==
    ASSUME UNCHANGED hookvars,
           \A p \in Port : head'[StatusOf(p)] = head[StatusOf(p)],
           \A p \in Port : StatusOf(p) \in dropped' <=> StatusOf(p) \in dropped
    PROVE  UNCHANGED ledgerview
<1>1. \A p \in Port : /\ StatusWritten(p)' <=> StatusWritten(p)
                      /\ At(StatusOf(p), {"write"})' <=> At(StatusOf(p), {"write"})
  BY DEF hookvars, StatusWritten, At
<1>2. UNCHANGED StatusMade
  BY <1>1 DEF hookvars, StatusMade
<1>3. UNCHANGED StatusPublished
  BY DEF StatusPublished
<1>4. UNCHANGED <<StatusOpen, StatusLost>>
  BY <1>1 DEF StatusOpen, StatusLost
<1> QED
  BY <1>2, <1>3, <1>4 DEF ledgerview

LEMMA LedgerStart ==
    ASSUME TypeOK, LedgerInv, NEW p \in Port, NEW success \in BOOLEAN,
           HookStart(p, success)
    PROVE  LedgerInv' /\ Booked
<1>1. /\ hookpc[p] = "idle" /\ hookpc'[p] = "write"
      /\ build[p] < MaxBuild
      /\ build' = [build EXCEPT ![p] = build[p] + 1]
      /\ hooktrack'[p] = IF success THEN "dport" ELSE "delta"
      /\ \A q \in Port : q # p => hookpc'[q] = hookpc[q] /\ hooktrack'[q] = hooktrack[q]
      /\ UNCHANGED <<work, index, head, entry, dpc, todo, cur, dropped>>
  BY DEF HookStart, trees, daemonvars, history, TypeOK
<1>2. build[p] \in Int /\ build'[p] = build[p] + 1
      /\ \A q \in Port : q # p => build'[q] = build[q]
  BY <1>1, BuildFacts DEF TypeOK
<1>3. StatusWritten(p) /\ ~StatusWritten(p)'
      /\ \A q \in Port : q # p => (StatusWritten(q)' <=> StatusWritten(q))
  BY <1>1 DEF StatusWritten
<1>4. UNCHANGED StatusMade
  BY <1>2, <1>3 DEF StatusMade
<1>5. UNCHANGED StatusPublished /\ UNCHANGED StatusLost
  BY <1>1 DEF StatusPublished, StatusLost
<1>6. \A q \in Port : At(StatusOf(q), {"write"})'
                        <=> At(StatusOf(q), {"write"}) \/ (q = p /\ ~success)
  BY <1>1, StatusFacts DEF At
<1>7. ~At(StatusOf(p), {"write"})
  BY <1>1, StatusFacts DEF At
<1>8. LedgerInv'
  BY <1>1, <1>4, <1>6 DEF LedgerInv, InHand
<1>9. CASE success
  BY <1>4, <1>5, <1>6, <1>8, <1>9 DEF Booked, ledgerview, StatusOpen
<1>10. CASE ~success
  <2>1. StatusOpen' = StatusOpen \cup {p} /\ p \notin StatusOpen
    BY <1>6, <1>7, <1>10 DEF StatusOpen
  <2>2. StatusMade[p] < MaxBuild
    BY <1>1, <1>3 DEF StatusMade
  <2>3. L!Begin(p)
    BY <1>4, <1>5, <2>1, <2>2 DEF L!Begin
  <2> QED
    BY <1>8, <2>3 DEF Booked, L!Next
<1> QED
  BY <1>9, <1>10

\* The hook writes the directory: nothing to the ledger.
LEMMA LedgerTreeWork ==
    ASSUME TypeOK, LedgerInv, NEW p \in Port, HookTear(p) \/ HookWrite(p),
           hooktrack[p] = "dport"
    PROVE  LedgerInv' /\ Booked
<1>1. /\ UNCHANGED <<index, head, entry, build, hooktrack, dpc, todo, cur>>
      /\ hookpc[p] = "write" /\ hookpc'[p] \in {"write", "unlink"}
      /\ \A q \in Port : q # p => hookpc'[q] = hookpc[q]
      /\ dropped' \in {dropped, dropped \ {Target(p)}}
      /\ \A i \in Item : i # Target(p) => work'[i] = work[i]
  BY DEF HookTear, HookWrite, daemonvars, hookvars, history, TypeOK
<1>2. \A q \in Port : StatusOf(q) # Target(p)
  BY StatusFacts, TargetFacts
<1>3. \A q \in Port : StatusWritten(q)' <=> StatusWritten(q)
  BY <1>1 DEF StatusWritten
<1>4. \A q \in Port : At(StatusOf(q), {"write"})' <=> At(StatusOf(q), {"write"})
  BY <1>1, StatusFacts DEF At
<1>5. UNCHANGED ledgerview
  BY <1>1, <1>2, <1>3, <1>4
  DEF ledgerview, StatusMade, StatusPublished, StatusOpen, StatusLost
<1>6. \A i \in Item \ Trees : work'[i] = work[i]
  BY <1>1, <1>2, StatusFacts
<1> QED
  BY <1>1, <1>2, <1>4, <1>5, <1>6, StatusFacts DEF Booked, ledgerview, LedgerInv, InHand

LEMMA LedgerTear ==
    ASSUME TypeOK, LedgerInv, NEW p \in Port, HookTear(p), hooktrack[p] = "delta"
    PROVE  LedgerInv' /\ Booked
<1>1. /\ UNCHANGED <<index, head, entry, hookvars, dpc, todo, cur, dropped>>
      /\ hookpc[p] = "write" /\ work'[Target(p)] = Torn
      /\ \A i \in Item : i # Target(p) => work'[i] = work[i]
  BY TargetFacts DEF HookTear, daemonvars, history, TypeOK
<1>2. At(StatusOf(p), {"write"}) /\ StatusOf(p) = Target(p)
  BY <1>1, StatusFacts DEF At, StatusOf, Target
<1>3. UNCHANGED ledgerview
  BY <1>1, LedgerUndisturbed
<1>4. \A q \in Port : At(StatusOf(q), {"write"})' <=> At(StatusOf(q), {"write"})
  BY <1>1 DEF At, hookvars
<1>5. LedgerInv'
  BY <1>1, <1>2, <1>3, <1>4, StatusFacts DEF LedgerInv, ledgerview, InHand, Torn
<1> QED
  BY <1>3, <1>5 DEF Booked

LEMMA LedgerWrite ==
    ASSUME TypeOK, EntryInv, LedgerInv, NEW p \in Port, HookWrite(p),
           hooktrack[p] = "delta"
    PROVE  LedgerInv' /\ Booked
<1>1. /\ UNCHANGED <<index, head, entry, build, hooktrack, dpc, todo, cur>>
      /\ hookpc[p] = "write" /\ hookpc'[p] = "unlink"
      /\ \A q \in Port : q # p => hookpc'[q] = hookpc[q]
      /\ work'[Target(p)] = build[p]
      /\ dropped' = dropped \ {Target(p)}
      /\ \A i \in Item : i # Target(p) => work'[i] = work[i]
  BY TargetFacts DEF HookWrite, daemonvars, TypeOK
<1>2. StatusOf(p) = Target(p) /\ At(StatusOf(p), {"write"})
  BY <1>1, StatusFacts DEF At, StatusOf, Target
<1>3. build[p] \in Int /\ build[p] > 0
  <2>1. At(StatusOf(p), HookBusy)
    BY <1>2 DEF At, HookBusy
  <2> QED
    BY <2>1, StatusFacts, BuildFacts DEF EntryInv
<1>4. /\ ~StatusWritten(p) /\ StatusWritten(p)'
      /\ \A q \in Port : q # p => (StatusWritten(q)' <=> StatusWritten(q))
  BY <1>1 DEF StatusWritten
<1>5. \A q \in Port : At(StatusOf(q), {"write"})'
                        <=> At(StatusOf(q), {"write"}) /\ q # p
  BY <1>1, StatusFacts DEF At
<1>6. /\ StatusMade' = [StatusMade EXCEPT ![p] = @ + 1]
      /\ StatusMade'[p] = build[p]
  <2>1. \A q \in Port : StatusMade'[q] = IF q = p THEN build[p] ELSE StatusMade[q]
    BY <1>1, <1>4 DEF StatusMade
  <2>2. StatusMade[p] + 1 = build[p]
    BY <1>3, <1>4 DEF StatusMade
  <2>3. /\ StatusMade' = [q \in Port |-> StatusMade'[q]]
        /\ StatusMade = [q \in Port |-> StatusMade[q]]
    BY DEF StatusMade
  <2> HIDE DEF StatusMade
  <2> QED
    BY <2>1, <2>2, <2>3
<1>7. UNCHANGED StatusPublished
  BY <1>1 DEF StatusPublished
<1>8. StatusOpen' = StatusOpen \ {p} /\ p \in StatusOpen /\ StatusLost' = StatusLost \ {p}
  BY <1>1, <1>2, <1>5, StatusFacts DEF StatusOpen, StatusLost
<1>9. L!Make(p)
  BY <1>6, <1>7, <1>8 DEF L!Make
<1>10. \A q \in Port : q # p => StatusMade'[q] = StatusMade[q]
  BY <1>6 DEF StatusMade
<1>11. LedgerInv'
  BY <1>1, <1>2, <1>3, <1>5, <1>6, <1>10, StatusFacts DEF LedgerInv, InHand
<1> QED
  BY <1>9, <1>11 DEF Booked, L!Next

LEMMA LedgerQueue ==
    ASSUME TypeOK, EntryInv, LedgerInv, NEW p \in Port, HookUnlink(p) \/ HookCreate(p)
    PROVE  LedgerInv' /\ Booked
<1>1. /\ UNCHANGED <<work, index, head, build, hooktrack, dpc, todo, cur, dropped>>
      /\ hookpc[p] \in {"unlink", "create"} /\ hookpc'[p] \in {"create", "fill"}
      /\ \A q \in Port : q # p => hookpc'[q] = hookpc[q]
      /\ \A i \in Item : i # Target(p) => entry'[i] = entry[i]
  BY TargetFacts DEF HookUnlink, HookCreate, trees, daemonvars, history, TypeOK
<1>2. \A q \in Port : /\ StatusWritten(q)' <=> StatusWritten(q)
                      /\ At(StatusOf(q), {"write"})' <=> At(StatusOf(q), {"write"})
  BY <1>1, StatusFacts DEF StatusWritten, At
<1>3. UNCHANGED ledgerview
  BY <1>1, <1>2 DEF ledgerview, StatusMade, StatusPublished, StatusOpen, StatusLost
<1>4. work[Target(p)] # 0
  <2>1. At(Target(p), {"unlink", "create", "fill"}) /\ At(Target(p), HookBusy)
    BY <1>1, TargetFacts DEF At, HookBusy
  <2>2. work[Target(p)] = build[p] /\ build[p] > 0
    BY <2>1, TargetFacts DEF EntryInv
  <2> QED
    BY <2>2, BuildFacts
<1>5. LedgerInv'
  BY <1>1, <1>2, <1>3, <1>4 DEF LedgerInv, ledgerview, InHand
<1> QED
  BY <1>3, <1>5 DEF Booked

LEMMA LedgerFill ==
    ASSUME TypeOK, EntryInv, LedgerInv, NEW p \in Port, HookFill(p)
    PROVE  LedgerInv' /\ Booked
<1>1. /\ UNCHANGED <<work, index, head, build, dpc, todo, cur, dropped>>
      /\ hookpc[p] = "fill"
      /\ \A q \in Port : q # p => hookpc'[q] = hookpc[q] /\ hooktrack'[q] = hooktrack[q]
      /\ \A i \in Item : entry[i] = NoEntry => entry'[i] = NoEntry
      /\ \/ /\ hooktrack[p] = "dport" /\ hooktrack'[p] = "delta" /\ hookpc'[p] = "write"
         \/ hooktrack[p] = "delta" /\ hookpc'[p] = "idle"
  BY CodeFacts DEF HookFill, trees, daemonvars, history, TypeOK, Track
<1>2. UNCHANGED StatusPublished /\ UNCHANGED StatusLost
  BY <1>1 DEF StatusPublished, StatusLost
<1>3. \A q \in Port : StatusWritten(q)' <=> StatusWritten(q)
  BY <1>1 DEF StatusWritten
<1>4. UNCHANGED StatusMade
  BY <1>1, <1>3 DEF StatusMade
<1>5. CASE hooktrack[p] = "delta"
  <2>1. \A q \in Port : At(StatusOf(q), {"write"})' <=> At(StatusOf(q), {"write"})
    BY <1>1, <1>5, StatusFacts DEF At
  <2>2. UNCHANGED StatusOpen
    BY <2>1 DEF StatusOpen
  <2>3. LedgerInv'
    BY <1>1, <1>4, <2>1 DEF LedgerInv, InHand
  <2> QED
    BY <1>2, <1>4, <2>2, <2>3 DEF Booked, ledgerview
<1>6. CASE hooktrack[p] = "dport"
  <2>1. \A q \in Port : At(StatusOf(q), {"write"})' <=> At(StatusOf(q), {"write"}) \/ q = p
    BY <1>1, <1>6, StatusFacts DEF At
  <2>2. ~At(StatusOf(p), {"write"})
    BY <1>6, StatusFacts DEF At
  <2>3. StatusOpen' = StatusOpen \cup {p} /\ p \notin StatusOpen
    BY <2>1, <2>2 DEF StatusOpen
  <2>4. StatusMade[p] < MaxBuild
    <3>1. ~StatusWritten(p)
      BY <1>1, <1>6 DEF StatusWritten
    <3>2. build[p] \in 0..MaxBuild
      BY DEF TypeOK
    <3> QED
      BY <3>1, <3>2, BoundsAssumption DEF StatusMade
  <2>5. L!Begin(p)
    BY <1>2, <1>4, <2>3, <2>4 DEF L!Begin
  <2>6. LedgerInv'
    BY <1>1, <1>4, <2>1 DEF LedgerInv, InHand
  <2> QED
    BY <2>5, <2>6 DEF Booked, L!Next
<1> QED
  BY <1>5, <1>6 DEF TypeOK, Track

\* A step of the daemon that commits no STATUS and removes no entry.
LEMMA LedgerDaemon ==
    ASSUME TypeOK, TypeOK', LedgerInv,
           \/ FindDelta \/ FindDport \/ (\E i \in Item : Pick(i)) \/ EndRound
           \/ ReadEntry \/ AddStatus \/ AddStatusFails \/ AddTree
           \/ Tasks \/ CommitIndex \/ CommitFails \/ Restart \/ UNCHANGED vars
    PROVE  LedgerInv' /\ Booked
<1>1. /\ UNCHANGED <<work, entry, hookvars, dropped>>
      /\ \A i \in Item \ Trees : head'[i] = head[i]
  BY DEF FindDelta, FindDport, Pick, EndRound, ReadEntry, AddStatus, AddStatusFails,
         AddTree, Tasks, CommitIndex, CommitFails, Restart, hookvars, trees, history,
         vars
<1>2. UNCHANGED ledgerview
  BY <1>1, LedgerUndisturbed, StatusFacts
<1>3. \A p \in Port :
          \/ work'[StatusOf(p)] = StatusMade'[p]
          \/ work'[StatusOf(p)] = Torn /\ At(StatusOf(p), {"write"})'
  BY <1>1, <1>2 DEF LedgerInv, ledgerview, At, hookvars
<1>4. \A i \in Item : i \in todo' \/ (InHand' /\ i = cur')
                         => entry[i] # NoEntry \/ i \in todo \/ (InHand /\ i = cur)
  BY DEF FindDelta, FindDport, Queued, Pick, EndRound, ReadEntry, AddStatus,
         AddStatusFails, AddTree, Tasks, CommitIndex, CommitFails, Restart, NextItem,
         InHand, vars
<1>5. \A i \in Item \ Trees :
          entry'[i] # NoEntry \/ i \in todo' \/ (InHand' /\ i = cur') => work'[i] # 0
  BY <1>1, <1>4 DEF LedgerInv
<1>6. ASSUME dpc' \in {"status", "commit", "unlink"}, cur' \notin Trees
      PROVE  index'[cur'] # 0
  <2>1. CASE AddStatus
    <3>1. /\ cur' = cur /\ cur \in Item \ Trees /\ InHand /\ cur \in Scope
          /\ index' = Stage
      BY <2>1 DEF AddStatus, TypeOK, InHand, Scope
    <3>2. index'[cur] = work[cur]
      BY <3>1 DEF Stage
    <3> QED
      BY <3>1, <3>2 DEF LedgerInv
  <2>2. CASE ~AddStatus
    <3>1. /\ UNCHANGED <<index, cur>>
          /\ dpc \in {"status", "commit", "unlink"}
      BY <1>6, <2>2 DEF FindDelta, FindDport, Pick, EndRound, ReadEntry,
         AddStatusFails, AddTree, Tasks, CommitIndex, CommitFails, Restart, NextItem,
         trees, vars
    <3> QED
      BY <1>6, <3>1 DEF LedgerInv
  <2> QED
    BY <2>1, <2>2
<1> QED
  BY <1>2, <1>3, <1>5, <1>6 DEF Booked, LedgerInv

LEMMA LedgerCommit ==
    ASSUME TypeOK, CoverInv, LedgerInv, CommitPath
    PROVE  LedgerInv' /\ Booked
<1>1. PICK c \in Item, new \in Committable :
         /\ c = cur /\ new # head[c]
         /\ head' = [head EXCEPT ![c] = new] /\ index' = [index EXCEPT ![c] = new]
  BY DEF CommitPath, TypeOK
<1>2. /\ UNCHANGED <<work, entry, hookvars, todo, cur, dropped>>
      /\ dpc = "commit" /\ dpc' = "unlink"
  BY DEF CommitPath, history
<1>3. InHand /\ InHand'
  BY <1>2 DEF InHand
<1>4. \A p \in Port : /\ StatusWritten(p)' <=> StatusWritten(p)
                      /\ At(StatusOf(p), {"write"})' <=> At(StatusOf(p), {"write"})
  BY <1>2 DEF hookvars, StatusWritten, At
<1>5. UNCHANGED <<StatusMade, StatusOpen, StatusLost>>
  BY <1>2, <1>4 DEF hookvars, StatusMade, StatusOpen, StatusLost
<1>6. c \notin Trees => new = work[c] /\ work[c] # 0
  BY <1>1, <1>3 DEF Committable, LedgerInv
<1>7. LedgerInv'
  <2>1. cur' \notin Trees => index'[cur'] # 0
    BY <1>1, <1>2, <1>6 DEF TypeOK
  <2> QED
    BY <1>2, <1>3, <1>4, <1>5, <2>1 DEF LedgerInv
<1>8. CASE c \in Trees
  <2>1. UNCHANGED StatusPublished
    BY <1>1, <1>8, StatusFacts DEF StatusPublished, TypeOK
  <2> QED
    BY <1>5, <1>7, <2>1 DEF Booked, ledgerview
<1>9. CASE c \notin Trees
  <2>1. PICK p \in Port : c = StatusOf(p)
    BY <1>9, StatusFacts
  <2>2. StatusPublished' = [StatusPublished EXCEPT ![p] = new]
    <3>1. \A q \in Port : StatusPublished'[q] = IF q = p THEN new ELSE StatusPublished[q]
      BY <1>1, <2>1, StatusFacts DEF StatusPublished, TypeOK
    <3>2. /\ StatusPublished' = [q \in Port |-> StatusPublished'[q]]
          /\ StatusPublished = [q \in Port |-> StatusPublished[q]]
      BY DEF StatusPublished
    <3> HIDE DEF StatusPublished
    <3> QED
      BY <3>1, <3>2
  <2>3. p \notin StatusLost
    BY <1>1, <1>3, <2>1 DEF StatusLost, CoverInv, DaemonInv
  <2>4. StatusPublished[p] # new
    BY <1>1, <2>1 DEF StatusPublished
  <2>5. CASE new = StatusMade[p]
    <3>1. L!Publish(p)
      BY <1>5, <2>2, <2>3, <2>4, <2>5 DEF L!Publish
    <3> QED
      BY <1>7, <3>1 DEF Booked, L!Next
  <2>6. CASE new # StatusMade[p]
    <3>1. new = Torn /\ p \in StatusOpen
      BY <1>6, <1>9, <2>1, <2>6 DEF LedgerInv, StatusOpen
    <3>2. L!PublishTorn(p)
      BY <1>5, <2>2, <2>3, <3>1 DEF L!PublishTorn
    <3> QED
      BY <1>7, <3>2 DEF Booked, L!Next
  <2> QED
    BY <2>5, <2>6
<1> QED
  BY <1>8, <1>9

LEMMA LedgerRemove ==
    ASSUME TypeOK, CoverInv, LedgerInv, RemoveEntry
    PROVE  LedgerInv' /\ Booked
<1>1. PICK c \in Item : c = cur
  BY DEF RemoveEntry, TypeOK
<1>2. /\ UNCHANGED <<work, index, head, hookvars, todo>>
      /\ dpc = "unlink" /\ dpc' = "pick"
      /\ \A i \in Item : entry'[i] \in {entry[i], NoEntry}
      /\ dropped' = IF stale /\ work[c] # head[c] /\ ~BeforeEntry(c)
                      THEN dropped \cup {c} ELSE dropped
  BY <1>1 DEF RemoveEntry, NextItem, trees, TypeOK
<1>3. InHand /\ ~InHand'
  BY <1>2 DEF InHand
<1>4. \A p \in Port : /\ StatusWritten(p)' <=> StatusWritten(p)
                      /\ At(StatusOf(p), {"write"})' <=> At(StatusOf(p), {"write"})
  BY <1>2 DEF hookvars, StatusWritten, At
<1>5. UNCHANGED <<StatusMade, StatusOpen, StatusPublished>>
  BY <1>2, <1>4 DEF hookvars, StatusMade, StatusOpen, StatusPublished
<1>6. LedgerInv'
  BY <1>2, <1>3, <1>4, <1>5 DEF LedgerInv
<1>7. CASE c \notin Trees /\ dropped' # dropped
  <2>1. PICK p \in Port : c = StatusOf(p)
    BY <1>7, StatusFacts
  <2>2. StatusLost' = StatusLost \cup {p}
    BY <1>2, <1>7, <2>1, StatusFacts DEF StatusLost
  <2>3. p \notin StatusLost
    BY <1>1, <1>3, <2>1 DEF StatusLost, CoverInv, DaemonInv
  <2>4. ~At(c, {"write"}) /\ work[c] # head[c]
    BY <1>2, <1>7 DEF BeforeEntry, At
  <2>5. p \notin StatusOpen
    BY <2>1, <2>4 DEF StatusOpen
  <2>6. StatusPublished[p] # StatusMade[p]
    BY <2>1, <2>4 DEF LedgerInv, StatusPublished
  <2>7. StatusPublished[p] # 0
    BY <1>1, <1>2, <1>7, <2>1 DEF LedgerInv, CoverInv, DaemonInv, StatusPublished
  <2>8. L!GiveUp(p)
    BY <1>5, <2>2, <2>3, <2>5, <2>6, <2>7 DEF L!GiveUp
  <2> QED
    BY <1>6, <2>8 DEF Booked, L!Next
<1>8. CASE c \in Trees \/ dropped' = dropped
  <2>1. UNCHANGED StatusLost
    BY <1>2, <1>8, StatusFacts DEF StatusLost
  <2> QED
    BY <1>5, <1>6, <2>1 DEF Booked, ledgerview
<1> QED
  BY <1>7, <1>8

LEMMA LedgerNext ==
    TypeOK /\ TypeOK' /\ CoverInv /\ EntryInv /\ LedgerInv /\ [Next]_vars
      => LedgerInv' /\ Booked
<1> SUFFICES ASSUME TypeOK, TypeOK', CoverInv, EntryInv, LedgerInv, [Next]_vars
             PROVE  LedgerInv' /\ Booked
  OBVIOUS
<1>1. ASSUME NEW p \in Port, NEW success \in BOOLEAN, HookStart(p, success)
      PROVE  LedgerInv' /\ Booked
  BY <1>1, LedgerStart
<1>2. ASSUME NEW p \in Port, HookTear(p) \/ HookStep(p)
      PROVE  LedgerInv' /\ Booked
  <2>1. hooktrack[p] \in {"delta", "dport"}
    BY DEF TypeOK, Track
  <2> QED
    BY <1>2, <2>1, LedgerTreeWork, LedgerTear, LedgerWrite, LedgerQueue, LedgerFill
    DEF HookStep
<1> QED
  BY <1>1, <1>2, LedgerDaemon, LedgerCommit, LedgerRemove DEF Next, DaemonStep

\* The STATUS half of the queue takes the steps of a Ledger and no others, with
\* rebuilds at any time, failing commands and restarts: a commit takes the last
\* STATUS made, whole, or a torn one while the next is being written, and only
\* what was published before is ever given up (dports-daemon.sh with pkgbuild.sh).
THEOREM LedgerSteps ==
    Spec => L!Init /\ [][L!Next]_<<StatusMade, StatusPublished, StatusOpen, StatusLost>>
<1>1. QueueInv /\ QueueInv' /\ LedgerInv /\ [Next]_vars
        => LedgerInv' /\ [L!Next]_<<StatusMade, StatusPublished, StatusOpen, StatusLost>>
  BY LedgerNext DEF Booked, ledgerview, QueueInv, CoverInv
<1> QED
  BY <1>1, LedgerInit, QueueInvariant, PTL DEF Spec

=============================================================================
