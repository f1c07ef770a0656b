--------------------------- MODULE MCPortsnapFetch ---------------------------
(* PortsnapFetch on short histories: SecondAgain, whose second snapshot equals *)
(* its first, and ThreeSnapshots, in which a changes twice.                    *)
EXTENDS PortsnapFetch

SecondAgain ==
    << {<<"a", 1>>}, {<<"a", 1>>}, {<<"a", 2>>, <<"b", 1>>} >>

ThreeSnapshots ==
    << {<<"a", 1>>}, {<<"a", 2>>, <<"b", 1>>}, {<<"a", 3>>, <<"b", 1>>} >>
=============================================================================
