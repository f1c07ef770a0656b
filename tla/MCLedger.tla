------------------------------- MODULE MCLedger -------------------------------
(* The refinement of Ledger by the STATUS half of CommitQueue: a version is   *)
(* made when the hook has written it, published when the daemon commits it,   *)
(* given up when the daemon removes the entry that a later build has left.    *)
EXTENDS CommitQueue

StatusOf(p) == <<"delta", p>>

\* The STATUS file of p that its last build is to write is there.
StatusWritten(p) ==
    hookpc[p] # "idle" => hooktrack[p] = "delta" /\ hookpc[p] # "write"

StatusMade == [p \in Port |-> IF StatusWritten(p) THEN build[p] ELSE build[p] - 1]
StatusPublished == [p \in Port |-> head[StatusOf(p)]]
StatusOpen == {p \in Port : At(StatusOf(p), {"write"})}
StatusLost == {p \in Port : StatusOf(p) \in dropped}

L == INSTANCE Ledger WITH
        Key <- Port, MaxMade <- MaxBuild,
        made <- StatusMade, published <- StatusPublished,
        open <- StatusOpen, lost <- StatusLost

\* The STATUS files of DELTA are a ledger: what a build wrote is committed
\* whole, or another build of the port has begun to write; the first STATUS of
\* a port is always committed, and a later one too unless the daemon had the
\* entry of the one before in hand (dports-daemon.sh:4 "It wakes up every 30
\* seconds and commits work").
ImplementsLedger == L!Spec
===============================================================================
