------------------------------ MODULE Channel ------------------------------
(***************************************************************************)
(* What a connection promises for as long as it lasts: per direction, a    *)
(* bounded line of frames.  A frame is taken or refused at once, and those *)
(* that were taken come out in order, each one once, none missing.         *)
(***************************************************************************)
EXTENDS Naturals, Sequences

CONSTANTS
    Ends,     \* the directions, each named by the end that sends
    Messages,
    Bound     \* how many frames one direction may hold

VARIABLES
    transit,  \* per direction, the frames accepted and not yet delivered
    got       \* per direction, the frames delivered

Init ==
    /\ transit = [e \in Ends |-> <<>>]
    /\ got = [e \in Ends |-> <<>>]

Accept(e) ==
    /\ Len(transit[e]) < Bound
    /\ \E m \in Messages : transit' = [transit EXCEPT ![e] = Append(@, m)]
    /\ UNCHANGED got

Deliver(e) ==
    /\ transit[e] # <<>>
    /\ got' = [got EXCEPT ![e] = Append(@, Head(transit[e]))]
    /\ transit' = [transit EXCEPT ![e] = Tail(@)]

Next == \E e \in Ends : Accept(e) \/ Deliver(e)

Spec == Init /\ [][Next]_<<transit, got>>
=============================================================================
