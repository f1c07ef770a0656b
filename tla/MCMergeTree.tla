----------------------------- MODULE MCMergeTree -----------------------------
(* MergeTree for two ports of which one is filtered through WORKAREA even when *)
(* it has no overlay, and for one port that is edited twice; awk takes         *)
(* versions 1 and 2 for the same number.                                       *)
EXTENDS MergeTree, TLC

CONSTANTS p1, p2
TwoPorts == {p1, p2}
LegacyPort == {p2}
ActivePort == {p1}
SameNumber == {{1, 2}}
=============================================================================
