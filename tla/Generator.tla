------------------------------- MODULE Generator -------------------------------
(***************************************************************************)
(* scripts/new-generator: bin/generator auto, which sets up the three      *)
(* trees and then runs the filters of its phase 00.merge-mk in the order   *)
(* of their names, and the eight filters themselves.                       *)
(*                                                                         *)
(* A tree that exists is taken as it is, a filter or a phase that has its  *)
(* marker is never run again, and the first filter that fails ends the     *)
(* run.  The generator keeps nothing else: it is started again by hand,    *)
(* after a failure or after it was killed, and goes on where the markers   *)
(* say.                                                                    *)
(***************************************************************************)
EXTENDS Integers, Sequences

CONSTANT MaxKill    \* bound: how many runs are killed

ASSUME KillAssumption == MaxKill \in Nat

Repo == <<"dports", "delta", "ports">>
Tree == {Repo[r] : r \in DOMAIN Repo}

\* What each filter writes into MERGED, from which trees; Uses is the
\* subdirectory of Mk that special/Mk/replacements is copied over.
Filter ==
    << [out |-> {"GIDs"},       from |-> {"ports"}],
       [out |-> {"UIDs"},       from |-> {"ports"}],
       [out |-> {"Mk", "Uses"}, from |-> {"ports", "delta"}],
       [out |-> {"Templates"},  from |-> {"ports", "delta"}],
       [out |-> {"Uses"},       from |-> {"delta"}],
       [out |-> {"MOVED"},      from |-> {"ports"}],
       [out |-> {"Keywords"},   from |-> {"ports"}],
       [out |-> {"Tools"},      from |-> {"ports"}] >>

Output == UNION {Filter[f].out : f \in DOMAIN Filter}

\* The filters that do not test every command: Mk and Templates only the
\* patches, Tools only the last find.
Deaf == {3, 4, 8}

VARIABLES
    have,       \* have[r]: is that tree missing, there in part, or whole?
    merged,     \* merged[o]: the filter that wrote it last, Missing or Part
    done,       \* the filters that have a marker
    phase,      \* does the phase have one?
    pc,         \* what the running generator does next
    at,         \* the repository or filter it is at
    outcome,    \* how the last run ended; its exit status is 0 in any case
    kills,      \* how many runs were killed
    unheard     \* history: the outputs made from less than whole trees, or
                \* whose filter did not notice an error

vars == <<have, merged, done, phase, pc, at, outcome, kills, unheard>>

Missing == 0
Part == -1

TypeOK ==
    /\ have \in [Tree -> {"none", "part", "whole"}]
    /\ merged \in [Output -> DOMAIN Filter \cup {Missing, Part}]
    /\ done \subseteq DOMAIN Filter
    /\ phase \in BOOLEAN
    /\ pc \in {"idle", "tree", "phase", "filter", "mark", "mark_phase"}
    /\ pc = "tree" => at \in DOMAIN Repo
    /\ pc \in {"filter", "mark"} => at \in DOMAIN Filter
    /\ pc \notin {"tree", "filter", "mark"} => at = 0
    /\ outcome \in {"none", "done", "error"}
    /\ kills \in 0..MaxKill
    /\ unheard \subseteq Output

Init ==
    /\ have = [r \in Tree |-> "none"]
    /\ merged = [o \in Output |-> Missing]
    /\ done = {}
    /\ phase = FALSE
    /\ pc = "idle"
    /\ at = 0
    /\ outcome = "none"
    /\ kills = 0
    /\ unheard = {}

Go(from, to, where) == pc = from /\ pc' = to /\ at' = where
End(from, how) == Go(from, "idle", 0) /\ outcome' = how

-----------------------------------------------------------------------------
(* do_automode *)

Start ==
    /\ Go("idle", "tree", 1)
    /\ outcome' = "none"
    /\ UNCHANGED <<have, merged, done, phase, kills, unheard>>

AfterTree == IF at = Len(Repo) THEN Go("tree", "phase", 0) ELSE Go("tree", "tree", at + 1)

\* Mutant: a tree that is there is an error.
TreeExists_Stops ==
    /\ pc = "tree"
    /\ have[Repo[at]] # "none"
    /\ End("tree", "error")
    /\ UNCHANGED <<have, merged, done, phase, kills, unheard>>

\* "Directory not empty, skipping"
TreeExists ==
    /\ pc = "tree"
    /\ have[Repo[at]] # "none"
    /\ AfterTree
    /\ UNCHANGED <<have, merged, done, phase, outcome, kills, unheard>>

\* git clone, or portsnap fetch and extract, whose loop tells nobody of a port
\* that it left out.
TreeMade ==
    /\ pc = "tree"
    /\ have[Repo[at]] = "none"
    /\ \E made \in {"whole", "part"} :
          /\ made = "part" => Repo[at] = "ports"
          /\ have' = [have EXCEPT ![Repo[at]] = made]
    /\ AfterTree
    /\ UNCHANGED <<merged, done, phase, outcome, kills, unheard>>

\* A git clone that fails takes its directory away, an extract does not.
TreeFails ==
    /\ pc = "tree"
    /\ have[Repo[at]] = "none"
    /\ \E left \in {"none", "part"} :
          /\ left = "part" => Repo[at] = "ports"
          /\ have' = [have EXCEPT ![Repo[at]] = left]
    /\ End("tree", "error")
    /\ UNCHANGED <<merged, done, phase, kills, unheard>>

-----------------------------------------------------------------------------
(* run_phase *)

SkipPhase ==
    /\ phase
    /\ End("phase", "done")
    /\ UNCHANGED <<have, merged, done, phase, kills, unheard>>

\* The filter after f that has no marker.
Following(f) ==
    CHOOSE g \in (f + 1)..(Len(Filter) + 1) :
      /\ g \notin done
      /\ \A h \in (f + 1)..(g - 1) : h \in done

ToFilter(from, f) ==
    IF f > Len(Filter) THEN Go(from, "mark_phase", 0) ELSE Go(from, "filter", f)

RunPhase ==
    /\ ~phase
    /\ ToFilter("phase", Following(0))
    /\ UNCHANGED <<have, merged, done, phase, outcome, kills, unheard>>

Write(f, what) == merged' = [o \in Output |-> IF o \in Filter[f].out THEN what
                                              ELSE merged[o]]

Whole(f) == \A r \in Filter[f].from : have[r] = "whole"

\* A filter that ends well has made its outputs, unless the trees it copies
\* from are not whole or it did not look.
FilterWorks ==
    /\ Go("filter", "mark", at)
    /\ \/ Write(at, at) /\ UNCHANGED unheard
       \/ /\ at \in Deaf \/ ~Whole(at)
          /\ Write(at, Part)
          /\ unheard' = unheard \cup Filter[at].out
    /\ UNCHANGED <<have, done, phase, outcome, kills>>

\* Mutant: a filter may fail ("XXX Maybe skip to the next one?").
FilterFails_Skips ==
    /\ Go("filter", "mark", at)
    /\ Write(at, Part) \/ UNCHANGED merged
    /\ UNCHANGED <<have, done, phase, outcome, kills, unheard>>

\* A file that is not executable is "skipped", and fails.
FilterFails ==
    /\ End("filter", "error")
    /\ Write(at, Part) \/ UNCHANGED merged
    /\ UNCHANGED <<have, done, phase, kills, unheard>>

\* Mutant: the loop goes on to a filter that is marked.
Mark_Again ==
    /\ done' = done \cup {at}
    /\ ToFilter("mark", IF at \in done THEN at + 1 ELSE 1)
    /\ UNCHANGED <<have, merged, phase, outcome, kills, unheard>>

Mark ==
    /\ done' = done \cup {at}
    /\ ToFilter("mark", Following(at))
    /\ UNCHANGED <<have, merged, phase, outcome, kills, unheard>>

\* The only phase; after it the loop of do_automode ends.
MarkPhase ==
    /\ phase' = TRUE
    /\ End("mark_phase", "done")
    /\ UNCHANGED <<have, merged, done, kills, unheard>>

\* git clone can be killed too hard to take its directory away.
Kill ==
    /\ pc # "idle"
    /\ kills < MaxKill
    /\ kills' = kills + 1
    /\ End(pc, "none")
    /\ \/ UNCHANGED <<have, merged>>
       \/ /\ pc = "tree" /\ have[Repo[at]] = "none"
          /\ have' = [have EXCEPT ![Repo[at]] = "part"]
          /\ UNCHANGED merged
       \/ pc = "filter" /\ Write(at, Part) /\ UNCHANGED have
    /\ UNCHANGED <<done, phase, unheard>>

Step ==
    \/ Start \/ TreeExists \/ TreeMade \/ TreeFails
    \/ SkipPhase \/ RunPhase \/ FilterWorks \/ FilterFails \/ Mark \/ MarkPhase

Next == Step \/ Kill

Spec == Init /\ [][Next]_vars

\* Somebody starts the generator again and again, and what it fails to do works
\* in the end, a filter if the trees it copies from are whole.
Fairness ==
    /\ WF_vars(Step)
    /\ SF_vars(TreeMade)
    /\ SF_vars(FilterWorks /\ Whole(at))

FairSpec == Spec /\ Fairness

-----------------------------------------------------------------------------
(* Properties. *)

\* The filter whose work stands in o when all have run: the last that writes it.
Last(o) == CHOOSE f \in DOMAIN Filter :
             /\ o \in Filter[f].out
             /\ \A g \in DOMAIN Filter : o \in Filter[g].out => g <= f

\* A phase that is marked done has left the work of every filter, the
\* replacements over the Mk they replace, whatever was killed or failed and was
\* run again.  Not so where a filter worked on a tree that is not whole, or did
\* not notice an error ("Skip already processed ones": the marker is all that
\* tells).
PhaseIsComplete ==
    /\ TypeOK
    /\ phase => \A o \in Output \ unheard : merged[o] = Last(o)

\* Nothing is redone: once every filter that writes o has its marker, o stays as
\* it is.
FinishedStays ==
    [][\A o \in Output :
         (\A f \in DOMAIN Filter : o \in Filter[f].out => f \in done)
            => merged'[o] = merged[o]]_vars

\* Started again and again, the generator gets through its phase, or a tree was
\* cut short, which no later run repairs.
GetsDone == <>phase \/ <>[](\E r \in DOMAIN have : have[r] = "part")
=============================================================================
