------------------------------ MODULE MCCanNm ------------------------------
(* A CAN network for TLC: its nodes, and what may happen to them.            *)
EXTENDS CanNmCluster

CONSTANTS n1, n2

Configs == {<<{}, {"lose"}>>, <<{}, {"repeat"}>>, <<{n2}, {"control", "transmit"}>>,
            <<{n2}, {"lose", "repeat"}>>}
=============================================================================
