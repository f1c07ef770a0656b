------------------------------ MODULE MCRepoSync ------------------------------
(* RepoSync with one port that prune.sh may remove from one repository or the  *)
(* other.                                                                      *)
EXTENDS RepoSync

CONSTANT p1

StatusFile == {<<"delta", p1>>}
PortTree == {<<"dport", p1>>}
=============================================================================
