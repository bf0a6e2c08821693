------------------------------- MODULE MCNode -------------------------------
(* Small instances of Node for TLC.                                        *)
EXTENDS Node

Pair   == {1, 2}
Three  == {1, 2, 3}

OneConn    == {1}
TwoConns   == {1, 2}
ThreeConns == {1, 2, 3}
FourConns  == {1, 2, 3, 4}

(* Who names whom on the command line.                                     *)
NoDials      == {}
OneDial      == {<<2, 1>>}
BothDial     == {<<1, 2>>, <<2, 1>>}
Chain        == {<<1, 2>>, <<2, 3>>}
Star         == {<<1, 2>>, <<3, 2>>}
SelfDial     == {<<1, 1>>, <<2, 1>>, <<2, 3>>}
TieAndThird  == {<<1, 2>>, <<2, 1>>, <<3, 2>>}

(* Node 1 has not forwarded a port for node 3.                             *)
NotOne == {<<3, 1>>}

(* Node 1 can dial nobody but the hub, node 2, and the hub dials nobody.   *)
HubOnly == {<<2, 1>>, <<2, 3>>, <<1, 3>>}

(* As HubOnly, with the keys of nodes 1 and 3 exchanged.                   *)
HubOnlySwapped == {<<2, 1>>, <<2, 3>>, <<3, 1>>}

(* The user of node 1 quits and comes back.                                *)
Nobody  == {}
NodeOne == {1}

OneRoom  == [n \in Three |-> "room"]
TwoRooms == [n \in Three |-> IF n = 3 THEN "other" ELSE "room"]

Short       == {FALSE}
ShortOrLong == {FALSE, TRUE}
=============================================================================
