----------------------------- MODULE MCCanStack -----------------------------
(* The configurations of a CAN channel for TLC.                              *)
EXTENDS CanStack

\* In the first two configurations faults and requests come to an end; in the others
\* they never do, and each adds something to a hasty user
Configs ==
  {<<"plain", "FULL", {"calm"}>>, <<"none", "LIGHT", {"calm", "bus-off"}>>,
   <<"none", "FULL", {"hasty", "receive"}>>,
   <<"none", "PASSIVE", {"hasty", "wake up", "forbid"}>>,
   <<"none", "NONE", {"hasty", "diagnose", "inhibit"}>>}

\* A user that requests the channel while it is silent
SilentRequests == {<<"none", "FULL", {"calm", "silent"}>>}
=============================================================================
