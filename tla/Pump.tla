-------------------------------- MODULE Pump --------------------------------
(***************************************************************************)
(* The pumps of established connections (src/src/node.rs:296-370, 453-481) *)
(* over sockets that fill up.  In Node a frame is written the moment it    *)
(* leaves the queue; here it may have to wait for room in the socket, and  *)
(* while its pump awaits that, it does not read.                           *)
(*                                                                         *)
(* The end of n on its connection to m is <<n, m>>.                        *)
(***************************************************************************)
EXTENDS Naturals, Sequences, FiniteSets

CONSTANTS
    Nodes,
    Links,       \* <<n, m>> and <<m, n>> for every connection
    QueueDepth,  \* SEND_QUEUE_DEPTH
    Capacity,    \* how many frames the sockets of one direction hold
    MaxSays,     \* how many messages each user says (a bound)
    MayStall     \* the nodes whose process may be suspended

ASSUME LinksAssumption ==
    /\ Links \subseteq Nodes \X Nodes
    /\ \A e \in Links : <<e[2], e[1]>> \in Links

ASSUME LimitsAssumption ==
    /\ QueueDepth \in Nat
    /\ Capacity \in Nat
    /\ MaxSays \in [Nodes -> Nat]
    /\ MayStall \subseteq Nodes

VARIABLES
    said,     \* how many messages each user has sent
    pending,  \* the ends each user's last message has still to be put on
    queue,    \* the mpsc channel of each end
    writing,  \* the frame each end is sending: none, or one
    wire,     \* what each end has written and the far end has not read
    got,      \* what was read at the far end of each end
    stalled   \* the nodes that have been suspended

vars == <<said, pending, queue, writing, wire, got, stalled>>

Far(e)    == <<e[2], e[1]>>
EndsOf(n) == {e \in Links : e[1] = n}
Awake(n)  == n \notin stalled

Init ==
    /\ said = [n \in Nodes |-> 0]
    /\ pending = [n \in Nodes |-> {}]
    /\ queue = [e \in Links |-> <<>>]
    /\ writing = [e \in Links |-> <<>>]
    /\ wire = [e \in Links |-> <<>>]
    /\ got = [e \in Links |-> <<>>]
    /\ stalled = {}

-----------------------------------------------------------------------------
(* say: one message, put on the queue of every peer in turn.               *)
Say(n) ==
    /\ Awake(n)
    /\ pending[n] = {}
    /\ said[n] < MaxSays[n]
    /\ said' = [said EXCEPT ![n] = @ + 1]
    /\ pending' = [pending EXCEPT ![n] = EndsOf(n)]
    /\ UNCHANGED <<queue, writing, wire, got, stalled>>

(* Mistake: say awaits room in the queue.                                  *)
PutWaiting(e) ==
    /\ Awake(e[1])
    /\ e \in pending[e[1]]
    /\ Len(queue[e]) < QueueDepth
    /\ queue' = [queue EXCEPT ![e] = Append(@, said[e[1]])]
    /\ pending' = [pending EXCEPT ![e[1]] = @ \ {e}]
    /\ UNCHANGED <<said, writing, wire, got, stalled>>

(* try_send does not wait: a full queue refuses the frame.                 *)
Put(e) ==
    /\ Awake(e[1])
    /\ e \in pending[e[1]]
    /\ queue' = [queue EXCEPT ![e] = IF Len(@) < QueueDepth THEN Append(@, said[e[1]])
                                                            ELSE @]
    /\ pending' = [pending EXCEPT ![e[1]] = @ \ {e}]
    /\ UNCHANGED <<said, writing, wire, got, stalled>>

-----------------------------------------------------------------------------
(* The pump.                                                               *)

(* It is in select!, and not awaiting a send.                              *)
Selecting(e) == Awake(e[1]) /\ writing[e] = <<>>

(* Mistake: the frame is taken by a branch that a frame to read cancels.   *)
ReadCancelling(e) ==
    /\ Awake(e[1])
    /\ wire[Far(e)] # <<>>
    /\ got' = [got EXCEPT ![Far(e)] = Append(@, Head(wire[Far(e)]))]
    /\ wire' = [wire EXCEPT ![Far(e)] = Tail(@)]
    /\ writing' = [writing EXCEPT ![e] = <<>>]
    /\ UNCHANGED <<said, pending, queue, stalled>>

(* framed.next() has a frame: handle_frame deals with it at once.          *)
Read(e) ==
    /\ Selecting(e)
    /\ wire[Far(e)] # <<>>
    /\ got' = [got EXCEPT ![Far(e)] = Append(@, Head(wire[Far(e)]))]
    /\ wire' = [wire EXCEPT ![Far(e)] = Tail(@)]
    /\ UNCHANGED <<said, pending, queue, writing, stalled>>

(* Mistake: the lock on the node's state is held until the send is over.   *)
TakeLocked(e) ==
    /\ Selecting(e)
    /\ \A f \in EndsOf(e[1]) : writing[f] = <<>>
    /\ queue[e] # <<>>
    /\ writing' = [writing EXCEPT ![e] = <<Head(queue[e])>>]
    /\ queue' = [queue EXCEPT ![e] = Tail(@)]
    /\ UNCHANGED <<said, pending, wire, got, stalled>>

(* rx.recv() has a frame: from here on the pump awaits its send.           *)
Take(e) ==
    /\ Selecting(e)
    /\ queue[e] # <<>>
    /\ writing' = [writing EXCEPT ![e] = <<Head(queue[e])>>]
    /\ queue' = [queue EXCEPT ![e] = Tail(@)]
    /\ UNCHANGED <<said, pending, wire, got, stalled>>

(* There is room in the sockets, and send returns.                         *)
Flush(e) ==
    /\ Awake(e[1])
    /\ writing[e] # <<>>
    /\ Len(wire[e]) < Capacity
    /\ wire' = [wire EXCEPT ![e] = @ \o writing[e]]
    /\ writing' = [writing EXCEPT ![e] = <<>>]
    /\ UNCHANGED <<said, pending, queue, got, stalled>>

(* A process is suspended, its sockets still open.                         *)
Stall(n) ==
    /\ n \in MayStall
    /\ stalled' = stalled \cup {n}
    /\ UNCHANGED <<said, pending, queue, writing, wire, got>>

-----------------------------------------------------------------------------
Next ==
    \/ \E n \in Nodes : Say(n) \/ Stall(n)
    \/ \E e \in Links : Put(e) \/ Read(e) \/ Take(e) \/ Flush(e)

Spec == Init /\ [][Next]_vars

(* The runtime polls every pump that can go on, by whichever branch; the   *)
(* users do say what they have to say.                                     *)
Fairness ==
    /\ \A n \in Nodes : WF_vars(Say(n))
    /\ \A e \in Links : WF_vars(Put(e)) /\ WF_vars(Read(e) \/ Take(e) \/ Flush(e))

FairSpec == Spec /\ Fairness

-----------------------------------------------------------------------------
(* Properties.                                                             *)

TypeOK ==
    /\ said \in [Nodes -> Nat]
    /\ pending \in [Nodes -> SUBSET Links]
    /\ queue \in [Links -> Seq(Nat)]
    /\ writing \in [Links -> Seq(Nat)]
    /\ wire \in [Links -> Seq(Nat)]
    /\ got \in [Links -> Seq(Nat)]
    /\ stalled \subseteq Nodes

Ids == UNION {1 .. MaxSays[n] : n \in Nodes}

(* What an end has accepted and the far end has not been handed, oldest    *)
(* first.                                                                  *)
InFlight == [e \in Links |-> wire[e] \o writing[e] \o queue[e]]

(* "Bounded on purpose" (node.rs:32), so that a peer that stops reading    *)
(* does not "grow our memory without limit", and nothing that was accepted *)
(* is lost, doubled or overtaken, whichever branch select! takes and       *)
(* whenever: every connection is a line of bounded length.                 *)
Line == INSTANCE Channel WITH
            Ends <- Links,
            Messages <- Ids,
            Bound <- Capacity + 1 + QueueDepth,
            transit <- InFlight,
            got <- got

IsLine == Line!Spec

(* "Awaiting a full queue would let one unresponsive peer stall messages   *)
(* to everyone else" (node.rs:300): a user who is awake says everything.   *)
SpeaksOn ==
    \A n \in Nodes : <>((said[n] = MaxSays[n] /\ pending[n] = {}) \/ ~Awake(n))

(* The comment on the bound says otherwise: it is of "frames that may      *)
(* queue for one peer before sending blocks", and "a peer that stops       *)
(* reading must slow us down" (node.rs:32-34).  That is, a message waits   *)
(* for as long as the queue that it is to be put on is full.  The code     *)
(* does not do this.                                                       *)
SlowsDown ==
    [][\A e \in Links :
        e \in pending[e[1]] /\ Len(queue[e]) = QueueDepth => e \in pending'[e[1]]]_vars

(* What two who are awake have accepted for each other arrives, whatever   *)
(* becomes of third parties.  True as long as in one of the two directions *)
(* everything fits the sockets.                                            *)
Drains ==
    \A e \in Links :
        []<>(InFlight[e] = <<>> \/ ~Awake(e[1]) \/ ~Awake(e[2]))

(* "Read frames from the peer and write frames queued for it, until either *)
(* side stops" (node.rs:453): no two pumps that are awake wait for each    *)
(* other.                                                                  *)
Blocked(e) == Awake(e[1]) /\ writing[e] # <<>> /\ Len(wire[e]) = Capacity

NoStandstill == \A e \in Links : ~(Blocked(e) /\ Blocked(Far(e)))
=============================================================================
