------------------------------- MODULE Peers -------------------------------
(***************************************************************************)
(* The decisions of the peer registry (src/src/peers.rs).  A peer is named *)
(* by its public key and nothing else.  The code only ever compares two    *)
(* keys for equality and for order, so a key is a natural number.          *)
(***************************************************************************)
EXTENDS Naturals

(* Mistake: the connection we dialled ourselves survives.                  *)
OwnDialWins(me, theirs, inbound) == ~inbound

(* Which of two connections to the same peer survives: the one dialled by  *)
(* the holder of the smaller key.                                          *)
ConnectionWins(me, theirs, inbound) ==
    IF inbound THEN theirs < me ELSE me < theirs

Verdicts == {"self", "duplicate", "superseded", "admitted"}

(* The verdict on a connection to `theirs` whose handshake just completed, *)
(* when the registry of `me` holds the peers `held`.                       *)
Verdict(me, held, theirs, inbound) ==
    CASE theirs = me -> "self"
      [] theirs # me /\ theirs \notin held -> "admitted"
      [] theirs # me /\ theirs \in held ->
            IF ConnectionWins(me, theirs, inbound) THEN "superseded"
                                                   ELSE "duplicate"

(* Mistake: a node declines to dial anyone above itself, and with that     *)
(* strands "any pair reachable in only one direction" (peers.rs:156).      *)
UndialedBelow(me, held, gossiped) == {p \in gossiped \ held : p < me}

(* Everyone gossiped that `me` does not hold.  A set has no repeated entry *)
(* so the `seen` filter of the code has nothing left to remove.            *)
Undialed(me, held, gossiped) == gossiped \ (held \cup {me})
=============================================================================
