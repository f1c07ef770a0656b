----------------------------- MODULE MCPortsTree -----------------------------
(* PortsTree on a short history: a changes and changes back, b goes away and   *)
(* comes back renewed, and c, which changes, is the path refused.              *)
EXTENDS PortsTree

ThreeSnapshots ==
    << {<<"a", 1>>, <<"b", 1>>, <<"c", 1>>}, {<<"a", 2>>, <<"c", 2>>},
       {<<"a", 1>>, <<"b", 2>>, <<"c", 2>>} >>
=============================================================================
