------------------------------- MODULE MCPump -------------------------------
(* Small instances of Pump for TLC.                                        *)
EXTENDS Pump

Pair    == {1, 2}
PairEnds == {<<1, 2>>, <<2, 1>>}

(* Node 1 talks to node 2 and to node 3.                                   *)
Three   == {1, 2, 3}
HubEnds == {<<1, 2>>, <<2, 1>>, <<1, 3>>, <<3, 1>>}

HubTalks  == <<4, 1, 0>>
BothTalk  == <<3, 3>>

NoneStalls  == {}
ThreeStalls == {3}
=============================================================================
