---------------------------- MODULE GeneratorProofs ----------------------------
(* Proofs about Generator for any number of kills. *)
EXTENDS Generator, TLAPS

LEMMA FilterFacts ==
    /\ Len(Filter) = 8 /\ DOMAIN Filter = 1..8
    /\ Len(Repo) = 3 /\ DOMAIN Repo = 1..3
    /\ \A a \in 1..3 : Repo[a] \in Tree
  BY DEF Filter, Repo, Tree

LEMMA OutputFacts == \A f \in 1..8 : Filter[f].out \subseteq Output
  BY FilterFacts DEF Output

\* The markers are those of the first k filters.
Prefix(k) == k \in Nat /\ k <= 8 /\ done = 1..k

\* The running generator is at the first filter that has no marker; a filter at
\* its marker has made its outputs, or is excused.
AtInv ==
    \E k \in Nat :
      /\ Prefix(k)
      /\ pc \in {"filter", "mark"} => at = k + 1
      /\ pc = "mark_phase" => k = 8
      /\ phase => k = 8

WorkInv ==
    pc = "mark" => \A o \in Filter[at].out \ unheard : merged[o] = at

Writers(o) == {f \in 1..8 : o \in Filter[f].out}

\* Where every filter that writes an output has its marker, the last of them
\* wrote it.
DoneInv ==
    \A o \in Output \ unheard : Writers(o) \subseteq done => merged[o] = Last(o)

GeneratorInv == TypeOK /\ AtInv /\ WorkInv /\ DoneInv

-----------------------------------------------------------------------------

LEMMA FollowingFacts ==
    ASSUME NEW k, Prefix(k)
    PROVE  /\ Following(0) = k + 1
           /\ k < 8 => Following(k + 1) = k + 2
<1> DEFINE Free(f, g) == /\ g \notin done
                         /\ \A h \in (f + 1)..(g - 1) : h \in done
<1> USE FilterFacts DEF Prefix
<1>1. Following(0) = k + 1
  <2>1. k + 1 \in (0 + 1)..9 /\ Free(0, k + 1)
    OBVIOUS
  <2>2. \A g \in (0 + 1)..9 : Free(0, g) => g = k + 1
    OBVIOUS
  <2> QED
    BY <2>1, <2>2 DEF Following
<1>2. ASSUME k < 8 PROVE Following(k + 1) = k + 2
  <2>1. k + 2 \in (k + 1 + 1)..9 /\ Free(k + 1, k + 2)
    BY <1>2
  <2>2. \A g \in (k + 1 + 1)..9 : Free(k + 1, g) => g = k + 2
    BY <1>2
  <2> QED
    BY <2>1, <2>2 DEF Following
<1> QED
  BY <1>1, <1>2

LEMMA LastFacts ==
    ASSUME NEW o, NEW f \in 1..8, o \in Filter[f].out,
           \A g \in Writers(o) : g <= f
    PROVE  Last(o) = f
  BY FilterFacts DEF Last, Writers

LEMMA TypeStep == TypeOK /\ AtInv /\ [Next]_vars => TypeOK'
<1> SUFFICES ASSUME TypeOK, AtInv, [Next]_vars PROVE TypeOK'
  OBVIOUS
<1> USE FilterFacts, KillAssumption DEF TypeOK, Missing, Part
<1>1. PICK k \in Nat : Prefix(k) /\ (pc \in {"filter", "mark"} => at = k + 1)
  BY DEF AtInv
<1>2. CASE Start
  BY <1>2 DEF Start, Go
<1>3. CASE TreeExists
  BY <1>3 DEF TreeExists, AfterTree, Go
<1>4. CASE TreeMade
  BY <1>4 DEF TreeMade, AfterTree, Go
<1>5. CASE TreeFails
  BY <1>5 DEF TreeFails, End, Go
<1>6. CASE SkipPhase \/ MarkPhase
  BY <1>6 DEF SkipPhase, MarkPhase, End, Go
<1>7. CASE RunPhase
  <2>1. Following(0) = k + 1
    BY <1>1, FollowingFacts DEF Prefix
  <2> QED
    BY <1>7, <2>1 DEF RunPhase, ToFilter, Go
<1>8. CASE FilterWorks
  BY <1>8, OutputFacts DEF FilterWorks, Write, Go
<1>9. CASE FilterFails
  BY <1>9 DEF FilterFails, Write, End, Go
<1>10. CASE Mark
  <2>1. pc = "mark" /\ at = k + 1 /\ k + 1 \in 1..8
    BY <1>1, <1>10 DEF Mark, ToFilter, Go
  <2>2. Following(k + 1) = k + 2
    BY <1>1, <2>1, FollowingFacts DEF Prefix
  <2> QED
    BY <1>10, <2>1, <2>2 DEF Mark, ToFilter, Go
<1>11. CASE Kill
  BY <1>11 DEF Kill, Write, End, Go
<1>12. CASE UNCHANGED vars
  BY <1>12 DEF vars
<1> QED
  BY <1>2, <1>3, <1>4, <1>5, <1>6, <1>7, <1>8, <1>9, <1>10, <1>11, <1>12
  DEF Next, Step

LEMMA AtStep == TypeOK /\ AtInv /\ [Next]_vars => AtInv'
<1> SUFFICES ASSUME TypeOK, AtInv, [Next]_vars PROVE AtInv'
  OBVIOUS
<1> USE FilterFacts DEF Prefix
<1>1. PICK k \in Nat :
        /\ Prefix(k)
        /\ pc \in {"filter", "mark"} => at = k + 1
        /\ pc = "mark_phase" => k = 8
        /\ phase => k = 8
  BY DEF AtInv
<1>2. CASE Start \/ TreeExists \/ TreeMade \/ TreeFails
  <2>1. /\ UNCHANGED <<done, phase>>
        /\ pc' \in {"tree", "phase", "idle"}
    BY <1>2 DEF Start, TreeExists, TreeMade, TreeFails, AfterTree, End, Go
  <2> QED
    BY <1>1, <2>1 DEF AtInv
<1>3. CASE SkipPhase \/ MarkPhase
  BY <1>1, <1>3 DEF SkipPhase, MarkPhase, End, Go, AtInv
<1>4. CASE RunPhase
  <2>1. Following(0) = k + 1
    BY <1>1, FollowingFacts
  <2> QED
    BY <1>1, <1>4, <2>1 DEF RunPhase, ToFilter, Go, AtInv
<1>5. CASE FilterWorks \/ FilterFails
  BY <1>1, <1>5 DEF FilterWorks, FilterFails, End, Go, AtInv
<1>6. CASE Mark
  <2>1. pc = "mark" /\ at = k + 1 /\ k + 1 \in 1..8
    BY <1>1, <1>6 DEF Mark, ToFilter, Go, TypeOK
  <2>2. Following(k + 1) = k + 2
    BY <1>1, <2>1, FollowingFacts
  <2>3. Prefix(k + 1)'
    BY <1>1, <1>6, <2>1 DEF Mark
  <2> QED
    BY <1>1, <1>6, <2>1, <2>2, <2>3 DEF Mark, ToFilter, Go, AtInv
<1>7. CASE Kill
  BY <1>1, <1>7 DEF Kill, End, Go, AtInv
<1>8. CASE UNCHANGED vars
  BY <1>1, <1>8 DEF vars, AtInv
<1> QED
  BY <1>2, <1>3, <1>4, <1>5, <1>6, <1>7, <1>8 DEF Next, Step

LEMMA WorkStep == GeneratorInv /\ [Next]_vars => WorkInv' /\ DoneInv'
<1> SUFFICES ASSUME GeneratorInv, [Next]_vars PROVE WorkInv' /\ DoneInv'
  OBVIOUS
<1> USE FilterFacts, OutputFacts DEF GeneratorInv, TypeOK
<1>1. PICK k \in Nat :
        Prefix(k) /\ (pc \in {"filter", "mark"} => at = k + 1 /\ at \in 1..8)
  BY DEF AtInv
<1>2. CASE UNCHANGED <<merged, done, unheard>> /\ pc' # "mark"
  BY <1>2 DEF WorkInv, DoneInv, Writers, Last
<1>3. ASSUME pc = "filter", UNCHANGED done, unheard \subseteq unheard',
             NEW what,
             UNCHANGED merged \/ Write(at, what)
      PROVE  DoneInv'
  <2> SUFFICES ASSUME NEW o \in Output, o \notin unheard', Writers(o) \subseteq done
               PROVE  merged'[o] = Last(o)
    BY <1>3 DEF DoneInv, Writers, Last
  <2>1. at \notin done
    BY <1>1, <1>3 DEF Prefix
  <2>2. o \notin Filter[at].out
    BY <1>1, <1>3, <2>1 DEF Writers
  <2> QED
    BY <1>3, <2>2 DEF DoneInv, Write
<1>4. CASE FilterWorks
  <2>1. DoneInv'
    <3>1. PICK what : Write(at, what)
      BY <1>1, <1>4 DEF FilterWorks, Go
    <3> QED
      BY <1>3, <1>4, <3>1 DEF FilterWorks, Go
  <2>2. WorkInv'
    BY <1>1, <1>4 DEF FilterWorks, WorkInv, Write, Go
  <2> QED
    BY <2>1, <2>2
<1>5. CASE FilterFails
  BY <1>3, <1>5 DEF FilterFails, WorkInv, End, Go
<1>6. CASE Kill
  <2>1. WorkInv'
    BY <1>6 DEF Kill, WorkInv, End, Go
  <2>2. CASE UNCHANGED merged
    BY <1>6, <2>1, <2>2 DEF Kill, DoneInv, Writers, Last
  <2>3. CASE pc = "filter" /\ Write(at, Part)
    BY <1>3, <1>6, <2>1, <2>3 DEF Kill
  <2> QED
    BY <1>6, <2>2, <2>3 DEF Kill
<1>7. CASE Mark
  <2>1. pc = "mark" /\ at = k + 1 /\ at \in 1..8
    BY <1>1, <1>7 DEF Mark, ToFilter, Go
  <2>2. DoneInv'
    <3> SUFFICES ASSUME NEW o \in Output, o \notin unheard,
                        Writers(o) \subseteq done \cup {at}
                 PROVE  merged[o] = Last(o)
      BY <1>7 DEF Mark, DoneInv, Writers, Last
    <3>1. CASE at \in Writers(o)
      <4>1. Last(o) = at
        BY <1>1, <2>1, <3>1, LastFacts DEF Prefix, Writers
      <4> QED
        BY <2>1, <3>1, <4>1 DEF WorkInv, Writers
    <3>2. CASE at \notin Writers(o)
      BY <3>2 DEF DoneInv
    <3> QED
      BY <3>1, <3>2
  <2>3. WorkInv'
    BY <1>7 DEF Mark, ToFilter, Go, WorkInv
  <2> QED
    BY <2>2, <2>3
<1>8. CASE Start \/ TreeExists \/ TreeMade \/ TreeFails
  BY <1>2, <1>8 DEF Start, TreeExists, TreeMade, TreeFails, AfterTree, End, Go
<1>9. CASE SkipPhase \/ RunPhase \/ MarkPhase
  BY <1>2, <1>9 DEF SkipPhase, RunPhase, MarkPhase, ToFilter, End, Go
<1>10. CASE UNCHANGED vars
  BY <1>10 DEF vars, WorkInv, DoneInv, Writers, Last
<1> QED
  BY <1>4, <1>5, <1>6, <1>7, <1>8, <1>9, <1>10 DEF Next, Step

LEMMA GeneratorInit == Init => GeneratorInv
<1> SUFFICES ASSUME Init PROVE GeneratorInv
  OBVIOUS
<1> USE FilterFacts DEF Init
<1>1. TypeOK
  <2>1. merged \in [Output -> DOMAIN Filter \cup {Missing, Part}]
    BY DEF Missing
  <2>2. have \in [Tree -> {"none", "part", "whole"}]
    OBVIOUS
  <2>3. phase \in BOOLEAN
    OBVIOUS
  <2>4. kills \in 0..MaxKill
    BY KillAssumption
  <2> QED
    BY <2>1, <2>2, <2>3, <2>4 DEF TypeOK
<1>2. AtInv
  <2>1. Prefix(0)
    BY DEF Prefix
  <2> QED
    BY <2>1 DEF AtInv
<1>3. WorkInv
  BY DEF WorkInv
<1>4. ASSUME NEW o \in Output PROVE ~(Writers(o) \subseteq done)
  <2>1. PICK f \in 1..8 : o \in Filter[f].out
    BY DEF Output
  <2> QED
    BY <2>1 DEF Writers
<1> QED
  BY <1>1, <1>2, <1>3, <1>4 DEF GeneratorInv, DoneInv

LEMMA GeneratorInvariant == Spec => []GeneratorInv
<1>1. GeneratorInv /\ [Next]_vars => GeneratorInv'
  BY TypeStep, AtStep, WorkStep DEF GeneratorInv
<1> QED
  BY GeneratorInit, <1>1, PTL DEF Spec

-----------------------------------------------------------------------------

\* A phase that is marked done has the last work of every filter in it, whatever
\* failed or was killed in between: run_phase marks the phase after its filters.
\* The outputs in unheard are excepted, which a filter made of a tree that is not
\* whole, or with an error that it did not notice.
THEOREM PhaseDone == Spec => []PhaseIsComplete
<1>1. GeneratorInv => PhaseIsComplete
  <2> SUFFICES ASSUME GeneratorInv, phase, NEW o \in Output \ unheard
               PROVE  merged[o] = Last(o)
    BY DEF GeneratorInv, PhaseIsComplete
  <2>1. done = 1..8
    BY DEF GeneratorInv, AtInv, Prefix
  <2> QED
    BY <2>1 DEF GeneratorInv, DoneInv, Writers
<1> QED
  BY GeneratorInvariant, <1>1, PTL

\* What every one of its filters is through with is not touched again by a
\* generator that is started anew: run_phase skips what has a marker.
THEOREM NothingRedone == Spec => FinishedStays
<1> DEFINE Kept ==
      \A o \in Output :
         (\A f \in DOMAIN Filter : o \in Filter[f].out => f \in done)
            => merged'[o] = merged[o]
<1>1. GeneratorInv /\ [Next]_vars => [Kept]_vars
  <2> SUFFICES ASSUME GeneratorInv, Next, NEW o \in Output,
                      \A f \in DOMAIN Filter : o \in Filter[f].out => f \in done
               PROVE  merged'[o] = merged[o]
    BY DEF Kept
  <2> USE FilterFacts, OutputFacts DEF GeneratorInv, TypeOK
  <2>1. ASSUME pc = "filter", NEW what, Write(at, what)
        PROVE  merged'[o] = merged[o]
    <3>1. at \in 1..8 /\ at \notin done
      BY <2>1 DEF AtInv, Prefix
    <3> QED
      BY <2>1, <3>1 DEF Write
  <2>2. CASE FilterWorks \/ FilterFails \/ Kill
    BY <2>1, <2>2 DEF FilterWorks, FilterFails, Kill, End, Go
  <2>3. CASE UNCHANGED merged
    BY <2>3
  <2> QED
    BY <2>2, <2>3
    DEF Next, Step, Start, TreeExists, TreeMade, TreeFails, SkipPhase, RunPhase,
        Mark, MarkPhase
<1>2. Spec => [][Kept]_vars
  BY GeneratorInvariant, <1>1, PTL DEF Spec
<1> QED
  BY <1>2 DEF FinishedStays
=============================================================================
