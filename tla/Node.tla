-------------------------------- MODULE Node --------------------------------
(***************************************************************************)
(* The networking layer of e2ee (src/src/node.rs): symmetric nodes that    *)
(* dial and accept one another, agree on one connection per pair, gossip   *)
(* the membership of the room and send chat frames over the result.        *)
(*                                                                         *)
(* A TCP connection has two ends, and each end is driven by one task       *)
(* (run_connection).  The tasks of a node share its registry, its table of *)
(* senders and its dialling marks under one lock; whatever the code does   *)
(* after unlocking is a step of its own here, so that any other task may   *)
(* run in between.                                                         *)
(***************************************************************************)
EXTENDS Peers, Sequences, FiniteSets

CONSTANTS
    Nodes,       \* the nodes, each named by its public key
    Conns,       \* the TCP connections that may ever be opened (a bound)
    Bootstrap,   \* <<n, m>>: the user of n dials m, at most once
    Unreachable, \* <<n, m>>: n cannot open a connection to m
    Room,        \* the room code each node holds
    QueueDepth,  \* SEND_QUEUE_DEPTH
    MaxGossip,   \* MAX_GOSSIP_PEERS
    MaxSays,     \* how many messages a user may send (a bound)
    LongTexts,   \* which of TRUE, FALSE may be said: does it overflow a frame?
    MaxTimeouts, \* how many handshakes may time out (a bound)
    MaxCuts,     \* how many connections the network may cut (a bound)
    MayRestart,  \* the nodes that may be started again, once each (a bound)
    NoLink, NoSender

ASSUME NodesAssumption == Nodes \subseteq Nat
ASSUME ConnsAssumption == Conns \subseteq Nat
ASSUME BootstrapAssumption == Bootstrap \subseteq Nodes \X Nodes
ASSUME UnreachableAssumption == Unreachable \subseteq Nodes \X Nodes
ASSUME LimitsAssumption ==
    /\ QueueDepth \in Nat \ {0}
    /\ MaxGossip \in Nat
    /\ MaxSays \in Nat
    /\ LongTexts \subseteq BOOLEAN
    /\ MaxTimeouts \in Nat
    /\ MaxCuts \in Nat
    /\ MayRestart \subseteq Nodes

VARIABLES
    link,        \* who dialled whom on each connection, and why
    phase,       \* how far the task at each end has come
    inbox,       \* frames on their way to each end, oldest first
    queue,       \* the mpsc channel each task drains
    registry,    \* PeerRegistry::peers of each node, by key
    connections, \* State::connections of each node: the sender for a peer
    dialing,     \* State::dialing of each node
    dials,       \* the dial tasks of each node that have no socket yet
    shown,       \* the peers the emitted events say are here
    booted,      \* the bootstrap dials made so far
    restarted,   \* the nodes that have been started again
    said,        \* how many messages each user has sent
    pending,     \* what each user and task has still to try_send, and where
    log,         \* the chat messages each node has emitted, in order
    cut,         \* the connections the network has cut
    timeouts     \* how many handshakes have timed out

netVars  == <<link, phase, inbox, queue, cut>>
dialVars == <<dialing, dials>>
bootVars == <<booted, restarted>>
lockVars == <<registry, connections, dialVars>>
chatVars == <<pending, said, log>>
vars == <<link, phase, inbox, queue, registry, connections, dialing, dials, shown,
          booted, restarted, pending, said, log, cut, timeouts>>

-----------------------------------------------------------------------------
(* Ends, frames and phases.                                                *)

Ends == Conns \X {"out", "in"}

(* What puts frames on queues: the users, and the tasks of the ends.       *)
User(n) == <<n, "user">>
Actors  == {User(n) : n \in Nodes} \cup Ends

Links == [from : Nodes, to : Nodes, marked : BOOLEAN]

ASSUME NoneAssumption == NoLink \notin Links /\ NoSender \notin Ends

Messages == [from : Nodes, id : Nat, long : BOOLEAN]

(* A Hello says who is speaking.  An Auth is modelled by what its HMAC     *)
(* proves, the room code its sender holds.  Eof is the end of the stream.  *)
Hello(n)   == [type |-> "Hello", from |-> n]
Auth(r)    == [type |-> "Auth", room |-> r]
Gossip(ps) == [type |-> "Peers", peers |-> ps]
Chat(m)    == [type |-> "Chat", message |-> m]
Eof        == [type |-> "Eof"]

Rooms == {Room[n] : n \in Nodes}

Queued == [type : {"Peers"}, peers : SUBSET Nodes]
            \cup [type : {"Chat"}, message : Messages]

Frames == [type : {"Hello"}, from : Nodes] \cup [type : {"Auth"}, room : Rooms]
            \cup Queued \cup [type : {"Eof"}]

(* idle       no such connection yet                                       *)
(* hello      Hello sent, waiting for theirs                               *)
(* auth       proof sent, waiting for theirs                               *)
(* admitted   entered in the registry, lock released, join not yet emitted *)
(* announcing join emitted, peer list not yet announced                    *)
(* pump       reading and writing frames                                   *)
(* closing    pump returned, lock not yet taken                            *)
(* leaving    removed from the registry, departure not yet emitted         *)
(* ended      run_connection returned, dialling mark not yet cleared       *)
(* done       the task is gone                                             *)
Phases == {"idle", "hello", "auth", "admitted", "announcing", "pump",
           "closing", "leaving", "ended", "done"}

Handshaking == {"hello", "auth"}
Admitted    == {"admitted", "announcing", "pump", "closing"}

Inbound(e) == e[2] = "in"
Far(e)     == <<e[1], IF Inbound(e) THEN "out" ELSE "in">>
Me(e)      == IF Inbound(e) THEN link[e[1]].to ELSE link[e[1]].from
Them(e)    == IF Inbound(e) THEN link[e[1]].from ELSE link[e[1]].to

(* The end holds its socket open.                                          *)
Open(e) == phase[e] \in Handshaking \cup Admitted \cup {"leaving"}

(* The task that dialled for gossip clears its mark when it is over.       *)
Marked(e) == ~Inbound(e) /\ link[e[1]].marked

Reaches(e) == Open(Far(e)) /\ e[1] \notin cut

(* Mistake: a frame goes to the front of the line.                         *)
SentFirst(e, frame) ==
    [inbox EXCEPT ![Far(e)] = IF Reaches(e) THEN <<frame>> \o @ ELSE @]

(* What is written at e arrives at the far end, unless that end has closed *)
(* or the network has cut the connection.                                  *)
Sent(e, frame) ==
    [inbox EXCEPT ![Far(e)] = IF Reaches(e) THEN Append(@, frame) ELSE @]

-----------------------------------------------------------------------------
Init ==
    /\ link = [c \in Conns |-> NoLink]
    /\ phase = [e \in Ends |-> "idle"]
    /\ inbox = [e \in Ends |-> <<>>]
    /\ queue = [e \in Ends |-> <<>>]
    /\ registry = [n \in Nodes |-> {}]
    /\ connections = [n \in Nodes |-> [p \in Nodes |-> NoSender]]
    /\ dialing = [n \in Nodes |-> {}]
    /\ dials = [n \in Nodes |-> {}]
    /\ shown = [n \in Nodes |-> {}]
    /\ booted = {}
    /\ restarted = {}
    /\ said = [n \in Nodes |-> 0]
    /\ pending = [a \in Actors |-> {}]
    /\ log = [n \in Nodes |-> <<>>]
    /\ cut = {}
    /\ timeouts = 0

-----------------------------------------------------------------------------
(* Dialling.                                                               *)

(* A connection opens and a task starts at each end.  Both send their      *)
(* Hello before they read anything.                                        *)
OpenLink(n, m, marked) ==
    \E c \in Conns :
        /\ link[c] = NoLink
        /\ \A d \in Conns : d < c => link[d] # NoLink
        /\ link' = [link EXCEPT ![c] = [from |-> n, to |-> m, marked |-> marked]]
        /\ phase' = [phase EXCEPT ![<<c, "out">>] = "hello", ![<<c, "in">>] = "hello"]
        /\ inbox' = [inbox EXCEPT ![<<c, "out">>] = <<Hello(m)>>,
                                  ![<<c, "in">>] = <<Hello(n)>>]

(* Node::connect: the user names a peer.  Nothing is marked.               *)
Connect(n, m) ==
    /\ <<n, m>> \in Bootstrap \ booted
    /\ <<n, m>> \notin Unreachable
    /\ booted' = booted \cup {<<n, m>>}
    /\ OpenLink(n, m, FALSE)
    /\ UNCHANGED <<queue, lockVars, shown, restarted, chatVars, cut, timeouts>>

(* A dial task handle_gossip spawned opens its connection, ...             *)
GossipDial(n, m) ==
    /\ m \in dials[n]
    /\ <<n, m>> \notin Unreachable
    /\ dials' = [dials EXCEPT ![n] = @ \ {m}]
    /\ OpenLink(n, m, TRUE)
    /\ UNCHANGED <<queue, registry, connections, dialing, shown, bootVars, chatVars, cut,
                   timeouts>>

(* ... or cannot, and finished_dialing clears the mark.                    *)
GossipDialFails(n, m) ==
    /\ m \in dials[n]
    /\ <<n, m>> \in Unreachable
    /\ dials' = [dials EXCEPT ![n] = @ \ {m}]
    /\ dialing' = [dialing EXCEPT ![n] = @ \ {m}]
    /\ UNCHANGED <<netVars, registry, connections, shown, bootVars, chatVars, timeouts>>

-----------------------------------------------------------------------------
(* The handshake, and the verdict on it.                                   *)

(* Mistake: a task ends and leaves its socket open.                        *)
FinishSilently(e) ==
    /\ phase' = [phase EXCEPT ![e] = IF Marked(e) THEN "ended" ELSE "done"]
    /\ inbox' = [inbox EXCEPT ![e] = <<>>]
    /\ queue' = [queue EXCEPT ![e] = <<>>]

(* run_connection returns: its socket and its receiver are dropped.        *)
Finish(e) ==
    /\ phase' = [phase EXCEPT ![e] = IF Marked(e) THEN "ended" ELSE "done"]
    /\ inbox' = [Sent(e, Eof) EXCEPT ![e] = <<>>]
    /\ queue' = [queue EXCEPT ![e] = <<>>]

Waiting(e, type) == inbox[e] # <<>> /\ Head(inbox[e]).type = type

(* Their Hello is read and our proof is sent.                              *)
ReceiveHello(e) ==
    /\ phase[e] = "hello"
    /\ Waiting(e, "Hello")
    /\ phase' = [phase EXCEPT ![e] = "auth"]
    /\ inbox' = [Sent(e, Auth(Room[Me(e)])) EXCEPT ![e] = Tail(@)]
    /\ UNCHANGED <<link, queue, cut, lockVars, shown, bootVars, chatVars, timeouts>>

(* Mistake: any proof will do.                                             *)
ReadsAnyProof(e) == phase[e] = "auth" /\ Waiting(e, "Auth")

(* Their proof is for our room.                                            *)
ReadsProof(e) ==
    /\ phase[e] = "auth"
    /\ Waiting(e, "Auth")
    /\ Head(inbox[e]).room = Room[Me(e)]

VerdictOn(e) == Verdict(Me(e), registry[Me(e)], Them(e), Inbound(e))

(* Both tables are written under one lock.                                 *)
Register(e) ==
    /\ registry' = [registry EXCEPT ![Me(e)] = @ \cup {Them(e)}]
    /\ connections' = [connections EXCEPT ![Me(e)][Them(e)] = e]
    /\ inbox' = [inbox EXCEPT ![e] = Tail(@)]
    /\ UNCHANGED <<link, queue, cut, dialVars, shown, bootVars, chatVars, timeouts>>

AdmitNew(e) ==
    /\ ReadsProof(e)
    /\ VerdictOn(e) = "admitted"
    /\ phase' = [phase EXCEPT ![e] = "admitted"]
    /\ Register(e)

(* The entry in the table is replaced.  The task that held the old one is  *)
(* not told: its channel stays open as long as any sender for it exists,   *)
(* and it keeps one itself (`mine`), so its rx.recv() never yields None.   *)
Supersede(e) ==
    /\ ReadsProof(e)
    /\ VerdictOn(e) = "superseded"
    /\ phase' = [phase EXCEPT ![e] = "pump"]
    /\ Register(e)

Reject(e) ==
    /\ ReadsProof(e)
    /\ VerdictOn(e) \in {"self", "duplicate"}
    /\ Finish(e)
    /\ UNCHANGED <<link, cut, lockVars, shown, bootVars, chatVars, timeouts>>

(* The far end closed, or proved another room.                             *)
HandshakeFails(e) ==
    /\ phase[e] \in Handshaking
    /\ \/ Waiting(e, "Eof")
       \/ phase[e] = "auth" /\ Waiting(e, "Auth") /\ ~ReadsProof(e)
    /\ Finish(e)
    /\ UNCHANGED <<link, cut, lockVars, shown, bootVars, chatVars, timeouts>>

HandshakeTimeout(e) ==
    /\ phase[e] \in Handshaking
    /\ timeouts < MaxTimeouts
    /\ timeouts' = timeouts + 1
    /\ Finish(e)
    /\ UNCHANGED <<link, cut, lockVars, shown, bootVars, chatVars>>

-----------------------------------------------------------------------------
(* Announcing a new peer.                                                  *)

EmitJoined(e) ==
    /\ phase[e] = "admitted"
    /\ phase' = [phase EXCEPT ![e] = "announcing"]
    /\ shown' = [shown EXCEPT ![Me(e)] = @ \cup {Them(e)}]
    /\ UNCHANGED <<link, inbox, queue, cut, lockVars, bootVars, chatVars, timeouts>>

(* Mistake: the senders of peers that are gone are not left out.           *)
SendersUnfiltered(n) == {connections[n][p] : p \in Nodes}

(* Mistake: a frame goes to every admitted connection, superseded or not.  *)
SendersOfAll(n) == {e \in Ends : phase[e] \in Admitted /\ Me(e) = n}

Senders(n) == {connections[n][p] : p \in Nodes} \ {NoSender}

(* Mistake: the last place in a channel is never used.                     *)
AcceptsOneFewer(e) == Open(e) /\ Len(queue[e]) + 1 < QueueDepth

(* try_send: a full or closed channel takes nothing.                       *)
Accepts(e) == Open(e) /\ Len(queue[e]) < QueueDepth

(* What a has collected under the lock to send once it is released: one    *)
(* frame, for each of the senders the table holds at that moment.          *)
ToAll(a, n, frame) ==
    pending' = [pending EXCEPT ![a] = {<<e, frame>> : e \in Senders(n)}]

(* announce_peers: everyone we hold is told of everyone we hold.           *)
AnnouncePeers(e) ==
    /\ phase[e] = "announcing"
    /\ phase' = [phase EXCEPT ![e] = "pump"]
    /\ ToAll(e, Me(e), Gossip(registry[Me(e)]))
    /\ UNCHANGED <<link, inbox, queue, cut, lockVars, shown, bootVars, said, log, timeouts>>

(* The lock is released: one try_send after another, in the order of a     *)
(* hash map.                                                               *)
Put(a, e) ==
    \E p \in pending[a] :
        /\ p[1] = e
        /\ pending' = [pending EXCEPT ![a] = @ \ {p}]
        /\ queue' = [queue EXCEPT ![e] = IF Accepts(e) THEN Append(@, p[2]) ELSE @]
        /\ UNCHANGED <<link, phase, inbox, cut, lockVars, shown, bootVars, said, log, timeouts>>

-----------------------------------------------------------------------------
(* The pump, which starts once the announcement is out.                    *)

Pumping(e) == phase[e] = "pump" /\ pending[e] = {}

(* Mistake: the result of dialing.insert is ignored.                       *)
ChosenAgain(n, heard) == Undialed(n, registry[n], heard)

(* Whom to dial of those we heard of: who is neither held nor being dialled.*)
Chosen(n, heard) == Undialed(n, registry[n], heard) \ dialing[n]

(* handle_gossip picks and marks in one critical section, then spawns a    *)
(* task for each.  A list over the cap is cut short; its order is that of  *)
(* a hash map, so any part of it may remain.                               *)
ReceiveGossip(e) ==
    /\ Pumping(e)
    /\ Waiting(e, "Peers")
    /\ \E heard \in SUBSET Head(inbox[e]).peers :
        /\ IF Cardinality(Head(inbox[e]).peers) <= MaxGossip
           THEN heard = Head(inbox[e]).peers
           ELSE Cardinality(heard) = MaxGossip
        /\ dialing' = [dialing EXCEPT ![Me(e)] = @ \cup Chosen(Me(e), heard)]
        /\ dials' = [dials EXCEPT ![Me(e)] = @ \cup Chosen(Me(e), heard)]
    /\ inbox' = [inbox EXCEPT ![e] = Tail(@)]
    /\ UNCHANGED <<link, phase, queue, cut, registry, connections, shown, bootVars,
                   chatVars, timeouts>>

(* receive_chat emits what the peer of this connection sealed for us.      *)
ReceiveChat(e) ==
    /\ Pumping(e)
    /\ Waiting(e, "Chat")
    /\ log' = [log EXCEPT ![Me(e)] = Append(@, Head(inbox[e]).message)]
    /\ inbox' = [inbox EXCEPT ![e] = Tail(@)]
    /\ UNCHANGED <<link, phase, queue, cut, lockVars, shown, bootVars, pending, said,
                   timeouts>>

ReceiveEof(e) ==
    /\ Pumping(e)
    /\ Waiting(e, "Eof")
    /\ phase' = [phase EXCEPT ![e] = "closing"]
    /\ UNCHANGED <<link, inbox, queue, cut, lockVars, shown, bootVars, chatVars,
                   timeouts>>

(* A frame that does not fit one line cannot be encoded.                   *)
TooLarge(frame) == frame.type = "Chat" /\ frame.message.long

(* Mistake: a frame is taken from the queue only by the write after it, as *)
(* when a send that select! cancelled is tried again.                      *)
WriteFrameAgain(e) ==
    /\ Pumping(e)
    /\ queue[e] # <<>>
    /\ ~TooLarge(Head(queue[e]))
    /\ inbox' = Sent(e, Head(queue[e]))
    /\ queue' \in {queue, [queue EXCEPT ![e] = Tail(@)]}
    /\ UNCHANGED <<link, phase, cut, lockVars, shown, bootVars, chatVars, timeouts>>

WriteFrame(e) ==
    /\ Pumping(e)
    /\ queue[e] # <<>>
    /\ ~TooLarge(Head(queue[e]))
    /\ inbox' = Sent(e, Head(queue[e]))
    /\ queue' = [queue EXCEPT ![e] = Tail(@)]
    /\ UNCHANGED <<link, phase, cut, lockVars, shown, bootVars, chatVars, timeouts>>

(* The frame is too large, or the socket is known to be closed: the pump   *)
(* returns the error.                                                      *)
WriteFails(e) ==
    /\ Pumping(e)
    /\ queue[e] # <<>>
    /\ TooLarge(Head(queue[e])) \/ ~Reaches(e)
    /\ phase' = [phase EXCEPT ![e] = "closing"]
    /\ queue' = [queue EXCEPT ![e] = Tail(@)]
    /\ UNCHANGED <<link, inbox, cut, lockVars, shown, bootVars, chatVars, timeouts>>

-----------------------------------------------------------------------------
(* The end of a connection.                                                *)

(* Mistake: the task takes no entry for its own.                           *)
NeverOurs(e) == FALSE

(* disconnect, the half under the lock: the entry goes if it is still the  *)
(* one this task put there.                                                *)
StillOurs(e) == connections[Me(e)][Them(e)] = e

DisconnectHeld(e) ==
    /\ phase[e] = "closing"
    /\ StillOurs(e)
    /\ registry' = [registry EXCEPT ![Me(e)] = @ \ {Them(e)}]
    /\ connections' = [connections EXCEPT ![Me(e)][Them(e)] = NoSender]
    /\ phase' = [phase EXCEPT ![e] = "leaving"]
    /\ UNCHANGED <<link, inbox, queue, cut, dialVars, shown, bootVars, chatVars, timeouts>>

DisconnectSuperseded(e) ==
    /\ phase[e] = "closing"
    /\ ~StillOurs(e)
    /\ Finish(e)
    /\ UNCHANGED <<link, cut, lockVars, shown, bootVars, chatVars, timeouts>>

(* Mistake: the departure is not emitted.                                  *)
LeaveQuietly(e) ==
    /\ phase[e] = "leaving"
    /\ Finish(e)
    /\ UNCHANGED <<link, cut, lockVars, shown, bootVars, chatVars, timeouts>>

(* disconnect, the half after it.                                          *)
EmitLeft(e) ==
    /\ phase[e] = "leaving"
    /\ shown' = [shown EXCEPT ![Me(e)] = @ \ {Them(e)}]
    /\ Finish(e)
    /\ UNCHANGED <<link, cut, lockVars, bootVars, chatVars, timeouts>>

(* Mistake: only a dial that fails clears its mark.                        *)
FinishedWithMark(e) ==
    /\ phase[e] = "ended"
    /\ phase' = [phase EXCEPT ![e] = "done"]
    /\ UNCHANGED <<link, inbox, queue, cut, lockVars, shown, bootVars, chatVars, timeouts>>

(* The dial task goes on after serve returns, and clears its mark.         *)
FinishedDialing(e) ==
    /\ phase[e] = "ended"
    /\ dialing' = [dialing EXCEPT ![Me(e)] = @ \ {Them(e)}]
    /\ phase' = [phase EXCEPT ![e] = "done"]
    /\ UNCHANGED <<link, inbox, queue, cut, registry, connections, dials, shown, bootVars,
                   chatVars, timeouts>>

-----------------------------------------------------------------------------
(* Sending a message.                                                      *)

(* The senders are collected under the lock, and used after it is released *)
(* one peer after another (Put); with none, nothing is sent.  The user has *)
(* one thread, so a message is out before the next one starts.  Our own    *)
(* echo is not logged: it is not something a peer sent us.                 *)
Say(n) ==
    /\ pending[User(n)] = {}
    /\ said[n] < MaxSays
    /\ Senders(n) # {}
    /\ \E long \in LongTexts :
        ToAll(User(n), n, Chat([from |-> n, id |-> said[n] + 1, long |-> long]))
    /\ said' = [said EXCEPT ![n] = @ + 1]
    /\ UNCHANGED <<netVars, lockVars, shown, bootVars, log, timeouts>>

-----------------------------------------------------------------------------
(* The network cuts a connection: what is in flight is lost and both ends  *)
(* read an error.                                                          *)
Cut(c) ==
    /\ Cardinality(cut) < MaxCuts
    /\ link[c] # NoLink
    /\ c \notin cut
    /\ Open(<<c, "out">>) /\ Open(<<c, "in">>)
    /\ cut' = cut \cup {c}
    /\ inbox' = [inbox EXCEPT ![<<c, "out">>] = <<Eof>>, ![<<c, "in">>] = <<Eof>>]
    /\ UNCHANGED <<link, phase, queue, lockVars, shown, bootVars, chatVars, timeouts>>

-----------------------------------------------------------------------------
(* A user quits and starts the program again, with the same key and the    *)
(* same peers on the command line.  All that Node::start makes is made     *)
(* anew; the sockets of the old process are closed, which the far ends     *)
(* read when they come to it.                                              *)
Runs(n, e) == link[e[1]] # NoLink /\ Me(e) = n

Restart(n) ==
    /\ n \in MayRestart \ restarted
    /\ restarted' = restarted \cup {n}
    /\ booted' = {d \in booted : d[1] # n}
    /\ phase' = [e \in Ends |-> IF Runs(n, e) THEN "done" ELSE phase[e]]
    /\ inbox' = [e \in Ends |->
          CASE Runs(n, e) -> <<>>
            [] ~Runs(n, e) /\ Runs(n, Far(e)) /\ Open(Far(e)) -> Sent(Far(e), Eof)[e]
            [] OTHER -> inbox[e]]
    /\ queue' = [e \in Ends |-> IF Runs(n, e) THEN <<>> ELSE queue[e]]
    /\ registry' = [registry EXCEPT ![n] = {}]
    /\ connections' = [connections EXCEPT ![n] = [p \in Nodes |-> NoSender]]
    /\ dialing' = [dialing EXCEPT ![n] = {}]
    /\ dials' = [dials EXCEPT ![n] = {}]
    /\ shown' = [shown EXCEPT ![n] = {}]
    /\ log' = [log EXCEPT ![n] = <<>>]
    /\ pending' = [a \in Actors |->
          IF a = User(n) \/ a \in {e \in Ends : Runs(n, e)} THEN {} ELSE pending[a]]
    /\ UNCHANGED <<link, cut, said, timeouts>>

-----------------------------------------------------------------------------
(* What a task does when the runtime polls it.                             *)
Task(e) ==
    \/ ReceiveHello(e) \/ AdmitNew(e) \/ Supersede(e) \/ Reject(e)
    \/ HandshakeFails(e)
    \/ EmitJoined(e) \/ AnnouncePeers(e)
    \/ DisconnectHeld(e) \/ DisconnectSuperseded(e) \/ EmitLeft(e)
    \/ FinishedDialing(e)

Reads(e)  == ReceiveGossip(e) \/ ReceiveChat(e) \/ ReceiveEof(e)
Writes(e) == WriteFrame(e) \/ WriteFails(e)

(* TcpStream::connect resolves.                                           *)
Dial == \E n, m \in Nodes : Connect(n, m) \/ GossipDial(n, m) \/ GossipDialFails(n, m)

Next ==
    \/ Dial
    \/ \E e \in Ends : Task(e) \/ Reads(e) \/ Writes(e) \/ HandshakeTimeout(e)
    \/ \E n \in Nodes : Say(n)
    \/ \E a \in Actors, e \in Ends : Put(a, e)
    \/ \E c \in Conns : Cut(c)
    \/ \E n \in Nodes : Restart(n)

Spec == Init /\ [][Next]_vars

(* The runtime polls every task that can make progress, and select! picks  *)
(* at random among its ready branches, so neither reading nor writing      *)
(* starves.  Users, timeouts and the network owe nothing, except that the  *)
(* bootstrap dials are made.                                               *)
Fairness ==
    /\ WF_vars(Dial)
    /\ WF_vars(\E a \in Actors, e \in Ends : Put(a, e))
    /\ \A e \in Ends : WF_vars(Task(e) \/ Reads(e)) /\ WF_vars(Writes(e))

FairSpec == Spec /\ Fairness

-----------------------------------------------------------------------------
(* Properties.                                                             *)

TypeOK ==
    /\ link \in [Conns -> Links \cup {NoLink}]
    /\ phase \in [Ends -> Phases]
    /\ inbox \in [Ends -> Seq(Frames)]
    /\ queue \in [Ends -> Seq(Queued)]
    /\ registry \in [Nodes -> SUBSET Nodes]
    /\ connections \in [Nodes -> [Nodes -> Ends \cup {NoSender}]]
    /\ dialing \in [Nodes -> SUBSET Nodes]
    /\ dials \in [Nodes -> SUBSET Nodes]
    /\ shown \in [Nodes -> SUBSET Nodes]
    /\ booted \subseteq Bootstrap
    /\ restarted \subseteq MayRestart
    /\ pending \in [Actors -> SUBSET (Ends \X Queued)]
    /\ said \in [Nodes -> 0 .. MaxSays]
    /\ log \in [Nodes -> Seq(Messages)]
    /\ cut \subseteq Conns
    /\ timeouts \in 0 .. MaxTimeouts

(* No connection or task is left over from nothing: an end that has        *)
(* started belongs to a connection that was dialled.                       *)
Started == \A e \in Ends : phase[e] # "idle" => link[e[1]] # NoLink

(* "Under one lock, so there is no window where they disagree"             *)
(* (node.rs:152): a node's registry and its table of senders name the same *)
(* peers, and each sender is the channel of a task that still runs, for    *)
(* that very peer: a superseded task that ends never takes down its        *)
(* successor, and no sender outlives its task.                             *)
RegisteredIsLive ==
    \A n, p \in Nodes :
        /\ p \in registry[n] <=> connections[n][p] # NoSender
        /\ \A e \in Ends : connections[n][p] = e =>
              /\ phase[e] \in Admitted
              /\ Me(e) = n
              /\ Them(e) = p
              /\ n # p

(* "So two gossip frames arriving at once cannot both pick the same peer"  *)
(* (node.rs:544): of the gossip dials of one peer, those with a socket and *)
(* those without, at most one is going on at a time, and the peer stays    *)
(* marked as long as it does.                                              *)
GossipDialsOf(n, m) ==
    {c \in Conns : /\ link[c] = [from |-> n, to |-> m, marked |-> TRUE]
                   /\ phase[<<c, "out">>] # "done"}

DialedOnce ==
    \A n, m \in Nodes :
        /\ \A c, d \in GossipDialsOf(n, m) : c = d
        /\ m \in dials[n] => GossipDialsOf(n, m) = {}
        /\ m \in dials[n] \/ GossipDialsOf(n, m) # {} => m \in dialing[n]

(* "Cleared however the attempt ended, so a peer that drops out can be     *)
(* dialled again" (node.rs:568): a mark lasts no longer than the dial it   *)
(* was set for, whether that fails, is refused, times out or succeeds.     *)
MarksCleared ==
    \A n, m \in Nodes : m \in dialing[n] => m \in dials[n] \/ GossipDialsOf(n, m) # {}

(* A frame queued the moment a peer is registered never overtakes the      *)
(* proof that peer is waiting for: no Hello or Auth reaches a pump, and    *)
(* nothing but those (or the end of the stream) heads a handshake's inbox. *)
FramesInOrder ==
    \A e \in Ends : inbox[e] # <<>> =>
        /\ phase[e] = "hello" => Head(inbox[e]).type \in {"Hello", "Eof"}
        /\ phase[e] = "auth"  => Head(inbox[e]).type \in {"Auth", "Eof"}
        /\ phase[e] = "pump"  => Head(inbox[e]).type \in {"Peers", "Chat", "Eof"}

(* Whatever gossip, tiebreaks and self dials do, a node holds only others  *)
(* who proved the room code it holds.                                      *)
OnlyRoommates ==
    \A n \in Nodes : \A p \in registry[n] : Room[p] = Room[n]

(* Two connections may exist to one peer, yet no message is shown twice,   *)
(* and none that its author did not send.                                  *)
NoDuplicates ==
    \A n \in Nodes : \A i, j \in DOMAIN log[n] :
        /\ log[n][i].id <= said[log[n][i].from]
        /\ log[n][i] = log[n][j] => i = j

(* The connections two nodes ever opened to one another, in either         *)
(* direction.                                                              *)
Between(n, p) ==
    {c \in Conns : link[c] # NoLink /\ {link[c].from, link[c].to} = {n, p}}

(* There was never more than one, ...                                      *)
Single(n, p) == \A c, d \in Between(n, p) : c = d

(* ... or never more than one in each direction.                           *)
Crossed(n, p) == \A c, d \in Between(n, p) : link[c].from = link[d].from => c = d

(* With one connection to a peer, its messages are shown in the order they *)
(* were sent, whatever is lost to a full queue or a broken connection.     *)
InOrder ==
    \A n, p \in Nodes : Single(n, p) =>
        \A i, j \in DOMAIN log[n] :
            i < j /\ log[n][i].from = p /\ log[n][j].from = p => log[n][i].id < log[n][j].id

(* Nothing moves unless a user or the network does something new: every    *)
(* dial is over and every task that is left waits for frames.              *)
Quiet ==
    /\ Bootstrap \ Unreachable \subseteq booted
    /\ \A n \in Nodes : dials[n] = {}
    /\ \A a \in Actors : pending[a] = {}
    /\ \A e \in Ends : \/ phase[e] \in {"idle", "done"}
                       \/ phase[e] = "pump" /\ inbox[e] = <<>> /\ queue[e] = <<>>

(* The two nodes hold each other, by the two ends of one connection.       *)
Joined(n, m) ==
    /\ connections[n][m] # NoSender
    /\ connections[m][n] = Far(connections[n][m])

(* Whatever ends a connection, each of its ends takes the peer out of the  *)
(* tables (disconnect, node.rs:648): once quiet, no node holds one that    *)
(* does not hold it, as long as there was one connection between them.     *)
SettledAgree ==
    Quiet => \A n, p \in Nodes : connections[n][p] # NoSender /\ Single(n, p) => Joined(n, p)

(* Nothing broke: no cut, no timeout, no restart, and no text is too long. *)
Undisturbed == cut = {} /\ timeouts = 0 /\ restarted = {} /\ TRUE \notin LongTexts

(* "Letting both dial and discarding the loser connects whenever any       *)
(* direction works" (peers.rs:158), and "exactly one must go, and both     *)
(* nodes have to choose the same one" (peers.rs:121): once quiet, two      *)
(* nodes with one room code are joined if either has dialled the other, as *)
(* long as neither did so twice.                                           *)
DialsConnect ==
    Quiet /\ Undisturbed => \A n, p \in Nodes :
        n # p /\ Room[n] = Room[p] /\ Crossed(n, p) /\ Between(n, p) # {} => Joined(n, p)

(* Once quiet, everyone in the room is joined to everyone else in it.      *)
FullMesh == \A n, m \in Nodes : n # m /\ Room[n] = Room[m] => Joined(n, m)

MeshSettles == Quiet => FullMesh

(* No list of peers is longer than the cap.                                *)
ListsFit == \A n \in Nodes : \A ps \in SUBSET (Nodes \ {n}) : Cardinality(ps) <= MaxGossip

(* An announcement "introduces the newcomer to the room and hands the      *)
(* newcomer the room" (node.rs:502): once quiet, whoever a node holds has  *)
(* had a connection to everyone else it holds, unless it cannot dial them; *)
(* and the two are joined, if nothing broke and neither dialled the other  *)
(* twice.  True as long as no list is cut or refused, of those who had     *)
(* only one connection to the node in between.                             *)
MeshCloses ==
    Quiet /\ ListsFit => \A p \in Nodes : \A n, q \in registry[p] :
        n # q /\ Single(p, n) /\ <<n, q>> \notin Unreachable =>
            /\ Between(n, q) # {}
            /\ Undisturbed /\ Crossed(n, q) => Joined(n, q)

(* What n has shown of p, by number.                                       *)
Heard(n, p) == {log[n][i].id : i \in {j \in DOMAIN log[n] : log[n][j].from = p}}

(* Nobody but n, if anyone, may be in a room with p.                       *)
OnlyRoommate(n, p) == \A m \in Nodes : Room[m] = Room[p] => m \in {n, p}

(* "Everyone in the room receives it" (tests/chat_tests.rs:122): once      *)
(* quiet, a node has shown of every peer it holds whatever that said after *)
(* something it has shown, without a gap, and if it is the only one to     *)
(* hear that peer then all it said, before the other side was through its  *)
(* handshake included.  True as long as no queue overflows, of nodes that  *)
(* had only one connection.                                                *)
Delivered ==
    Quiet => \A n \in Nodes : \A p \in registry[n] : Single(n, p) =>
        \A i \in 1 .. said[p] :
            OnlyRoommate(n, p) \/ (\E j \in Heard(n, p) : j < i) => i \in Heard(n, p)

(* No queue overflows: no property of the code, whose try_send may refuse  *)
(* a frame, but the condition of Delivered and MeshCloses.                 *)
NothingRefused == [][\A a \in Actors, e \in Ends : Put(a, e) /\ Open(e) => Accepts(e)]_vars

(* Once quiet, the joins and departures a user was told of a peer add up   *)
(* to whether the node holds it: "this peer already appears in the room,   *)
(* so announcing the join again would be wrong" (peers.rs:72).  With two   *)
(* connections the events of one may overtake those of the other.          *)
ShownIsHeld ==
    Quiet => \A n, p \in Nodes : Single(n, p) => (p \in shown[n] <=> p \in registry[n])

(* "Dropping a peer's sender ends its task" (node.rs:8), as it does when   *)
(* its connection is superseded: once quiet, every task left is one whose  *)
(* sender the node holds.                                                  *)
NoOrphans == Quiet => \A e \in Ends : phase[e] = "pump" => StillOurs(e)

(* The system falls silent: gossip does not feed on itself (node.rs:502).  *)
FallsSilent == <>[]Quiet

(* Under fair scheduling the room becomes, and stays, a full mesh.         *)
MeshForms == <>[]FullMesh
=============================================================================
