-------------------------------- MODULE Ledger --------------------------------
(* What the commit queue promises about one kind of item: each origin has a   *)
(* last version made and something published of it.  Versions are made one    *)
(* after the other, whatever is published already; publishing takes the last  *)
(* one made, and only while the next one is being made may it take a torn     *)
(* one instead.  A version that is not published may be given up, but never   *)
(* the first one of an origin, and only until the next one is made.           *)
EXTENDS Integers

CONSTANTS
    Key,
    MaxMade,    \* bound: how many versions of an origin are made
    Torn        \* half of a version

VARIABLES
    made,       \* made[k]: the last version of k
    published,  \* published[k]: what is published of it
    open,       \* the origins whose next version is being made
    lost        \* the origins whose last version has been given up

ledger == <<made, published, open, lost>>

Init ==
    /\ made = [k \in Key |-> 0]
    /\ published = [k \in Key |-> 0]
    /\ open = {}
    /\ lost = {}

Begin(k) ==
    /\ k \notin open
    /\ made[k] < MaxMade
    /\ open' = open \cup {k}
    /\ UNCHANGED <<made, published, lost>>

Make(k) ==
    /\ k \in open
    /\ made' = [made EXCEPT ![k] = @ + 1]
    /\ open' = open \ {k}
    /\ lost' = lost \ {k}
    /\ UNCHANGED published

Publish(k) ==
    /\ k \notin lost
    /\ published[k] # made[k]
    /\ published' = [published EXCEPT ![k] = made[k]]
    /\ UNCHANGED <<made, open, lost>>

PublishTorn(k) ==
    /\ k \in open \ lost
    /\ published' = [published EXCEPT ![k] = Torn]
    /\ UNCHANGED <<made, open, lost>>

GiveUp(k) ==
    /\ k \notin open \cup lost
    /\ published[k] \notin {0, made[k]}
    /\ lost' = lost \cup {k}
    /\ UNCHANGED <<made, published, open>>

Next ==
    \E k \in Key : Begin(k) \/ Make(k) \/ Publish(k) \/ PublishTorn(k) \/ GiveUp(k)

Spec ==
    /\ Init
    /\ [][Next]_ledger
    /\ \A k \in Key : WF_ledger(Publish(k) \/ GiveUp(k))
===============================================================================
