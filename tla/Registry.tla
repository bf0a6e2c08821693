------------------------------ MODULE Registry ------------------------------
(***************************************************************************)
(* PeerRegistry (src/src/peers.rs) with the display names that Node leaves *)
(* out: what a node says when two identities answer to one name.  A key is *)
(* chosen by nobody, a name by whoever starts the program.                 *)
(***************************************************************************)
EXTENDS Peers

CONSTANTS
    Me,         \* the key of the node that keeps this registry
    Others,     \* the keys of the peers it may meet
    Names,      \* display names, as they are typed
    MyName,     \* the name of this node
    Canonical,  \* what is left of a name once trimmed and lower-cased
    MayOverlap  \* whether a peer may be back before we notice that it left

ASSUME KeysAssumption == Me \in Nat /\ Others \subseteq Nat \ {Me}
ASSUME NamesAssumption == MyName \in Names /\ Canonical \in [Names -> Names]

VARIABLES
    nameOf,     \* the name each peer runs under at present
    held,       \* the keys in the registry
    name,       \* the name recorded for each of them
    warned      \* the keys whose admission raised NameConflict

vars == <<nameOf, held, name, warned>>

SameName(a, b) == Canonical[a] = Canonical[b]

TypeOK ==
    /\ nameOf \in [Others -> Names]
    /\ held \subseteq Others
    /\ name \in [Others -> Names]
    /\ warned \subseteq held

Init ==
    /\ nameOf \in [Others -> Names]
    /\ held = {}
    /\ name = nameOf
    /\ warned = {}

(* Mistake: names are compared as they were typed.                         *)
TakenExactly(n) == n = MyName \/ \E q \in held : n = name[q]

(* Our own name, or that of a peer we hold, is taken.                      *)
Taken(n) == SameName(n, MyName) \/ \E q \in held : SameName(n, name[q])

(* Under which name a peer we meet is entered.  Only the first of two      *)
(* admissions looks at names.                                              *)
Enter(p) == name' = [name EXCEPT ![p] = nameOf[p]]

AdmitNew(p, inbound) ==
    /\ Verdict(Me, held, p, inbound) = "admitted"
    /\ held' = held \cup {p}
    /\ Enter(p)
    /\ warned' = IF Taken(nameOf[p]) THEN warned \cup {p} ELSE warned
    /\ UNCHANGED nameOf

Supersede(p, inbound) ==
    /\ Verdict(Me, held, p, inbound) = "superseded"
    /\ Enter(p)
    /\ UNCHANGED <<nameOf, held, warned>>

(* The peer leaves, and a new admission will look at its name afresh.      *)
Remove(p) ==
    /\ p \in held
    /\ held' = held \ {p}
    /\ warned' = warned \ {p}
    /\ UNCHANGED <<nameOf, name>>

(* The peer's user restarts it with another --name.  Our end of the old    *)
(* connection may not have noticed yet.                                    *)
Rename(p) ==
    /\ p \in held => MayOverlap
    /\ \E n \in Names : nameOf' = [nameOf EXCEPT ![p] = n]
    /\ UNCHANGED <<held, name, warned>>

Next ==
    \E p \in Others :
        \/ \E inbound \in BOOLEAN : AdmitNew(p, inbound) \/ Supersede(p, inbound)
        \/ Remove(p)
        \/ Rename(p)

Spec == Init /\ [][Next]_vars

-----------------------------------------------------------------------------
(* "So the UI can warn instead of quietly presenting two identities under  *)
(* one name" (peers.rs:67): of any two peers held under one name at least  *)
(* one was announced as a conflict when it came, whoever left and came     *)
(* back in the meantime; and so was every peer that took our own name.     *)
ClashesReported ==
    \A p \in held :
        /\ SameName(name[p], MyName) => p \in warned
        /\ \A q \in held \ {p} : SameName(name[p], name[q]) => {p, q} \cap warned # {}
=============================================================================
