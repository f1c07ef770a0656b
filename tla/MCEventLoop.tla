----------------------------- MODULE MCEventLoop -----------------------------
(* EventLoop with two timers, three watchers of two signals and one file. *)
EXTENDS EventLoop

CONSTANTS w1, w2, w3

TwoSignals == [w \in {w1, w2, w3} |-> IF w = w3 THEN 2 ELSE 1]
=============================================================================
