----------------------------- MODULE NodeProofs -----------------------------
(***************************************************************************)
(* Proofs about Node, for every set of nodes and connections.              *)
(***************************************************************************)
EXTENDS Node, SequenceTheorems, TLAPS

(* The tables a node keeps agree, and a connection belongs to every task   *)
(* that has started: without the second conjunct a new connection could    *)
(* take the place of one a sender still points at.                         *)
IInv == TypeOK /\ Started /\ RegisteredIsLive

-----------------------------------------------------------------------------
(* The ends of connections.                                                *)

(* The two ends of a connection are ends, and they are two.                *)
LEMMA FarEnd ==
    ASSUME NEW e \in Ends
    PROVE  Far(e) \in Ends /\ Far(e) # e /\ Far(e)[1] = e[1] /\ e[1] \in Conns
BY DEF Ends, Far, Inbound

(* Whoever drives a task that has started, and whoever it talks to, is a   *)
(* node.                                                                   *)
LEMMA StartedEnd ==
    ASSUME TypeOK, Started, NEW e \in Ends, phase[e] # "idle"
    PROVE  link[e[1]] \in Links /\ Me(e) \in Nodes /\ Them(e) \in Nodes
<1>1. e[1] \in Conns
    BY FarEnd
<1>2. link[e[1]] \in Links
    BY <1>1 DEF TypeOK, Started
<1>. QED
    BY <1>2 DEF Me, Them, Links

(* The frames that are made are frames.                                    *)
LEMMA FrameTypes ==
    /\ \A n \in Nodes : Hello(n) \in Frames
    /\ \A n \in Nodes : Auth(Room[n]) \in Frames
    /\ \A ps \in SUBSET Nodes : Gossip(ps) \in Queued
    /\ \A m \in Messages : Chat(m) \in Queued
    /\ Eof \in Frames
    /\ Queued \subseteq Frames
BY DEF Hello, Auth, Gossip, Chat, Eof, Frames, Queued, Rooms

(* Writing to a connection, and reading from it, keeps every inbox a       *)
(* sequence of frames.                                                     *)
LEMMA SentType ==
    ASSUME TypeOK, NEW e \in Ends, NEW f \in Frames
    PROVE  Sent(e, f) \in [Ends -> Seq(Frames)]
BY FarEnd DEF Sent, TypeOK

(* What is left of an inbox or a queue once its head is read.              *)
LEMMA TailType ==
    ASSUME NEW S, NEW s \in Seq(S), s # << >>
    PROVE  Tail(s) \in Seq(S) /\ Head(s) \in S
BY HeadTailProperties

-----------------------------------------------------------------------------
(* Types.                                                                  *)

(* Init is well typed.                                                     *)
LEMMA InitType ==
    Init => TypeOK
BY LimitsAssumption DEF Init, TypeOK, Phases

(* The three ways to open a connection, and the dial that fails.           *)
LEMMA OpenLinkType ==
    ASSUME TypeOK, NEW n \in Nodes, NEW m \in Nodes, NEW marked \in BOOLEAN,
           OpenLink(n, m, marked)
    PROVE  /\ link' \in [Conns -> Links \cup {NoLink}]
           /\ phase' \in [Ends -> Phases]
           /\ inbox' \in [Ends -> Seq(Frames)]
<1>1. PICK c \in Conns :
        /\ link' = [link EXCEPT ![c] = [from |-> n, to |-> m, marked |-> marked]]
        /\ phase' = [phase EXCEPT ![<<c, "out">>] = "hello", ![<<c, "in">>] = "hello"]
        /\ inbox' = [inbox EXCEPT ![<<c, "out">>] = <<Hello(m)>>,
                                  ![<<c, "in">>] = <<Hello(n)>>]
    BY DEF OpenLink
<1>2. <<Hello(m)>> \in Seq(Frames) /\ <<Hello(n)>> \in Seq(Frames)
    BY FrameTypes
<1>. QED
    BY <1>1, <1>2 DEF TypeOK, Links, Phases

(* Every dial keeps every type.                                            *)
LEMMA DialType ==
    ASSUME TypeOK, Dial
    PROVE  TypeOK'
<1>. USE DEF bootVars
<1>1. ASSUME NEW n \in Nodes, NEW m \in Nodes, Connect(n, m)
      PROVE  TypeOK'
    <2>1. OpenLink(n, m, FALSE)
        BY <1>1 DEF Connect
    <2>2. booted' \subseteq Bootstrap
        BY <1>1 DEF Connect, TypeOK
    <2>. QED
        BY <1>1, <2>1, <2>2, OpenLinkType DEF Connect, TypeOK, lockVars, dialVars, chatVars
<1>2. ASSUME NEW n \in Nodes, NEW m \in Nodes, GossipDial(n, m)
      PROVE  TypeOK'
    <2>1. OpenLink(n, m, TRUE)
        BY <1>2 DEF GossipDial
    <2>. QED
        BY <1>2, <2>1, OpenLinkType DEF GossipDial, TypeOK, lockVars, dialVars, chatVars
<1>3. ASSUME NEW n \in Nodes, NEW m \in Nodes, GossipDialFails(n, m)
      PROVE  TypeOK'
    BY <1>3 DEF GossipDialFails, TypeOK, netVars, chatVars
<1>. QED
    BY <1>1, <1>2, <1>3 DEF Dial

(* The end of a task.                                                      *)
LEMMA FinishType ==
    ASSUME TypeOK, NEW e \in Ends, Finish(e)
    PROVE  /\ phase' \in [Ends -> Phases]
           /\ inbox' \in [Ends -> Seq(Frames)]
           /\ queue' \in [Ends -> Seq(Queued)]
<1>1. Sent(e, Eof) \in [Ends -> Seq(Frames)]
    BY SentType, FrameTypes
<1>. QED
    BY <1>1 DEF Finish, TypeOK, Phases

(* One frame for every sender of a node.                                   *)
LEMMA ToAllType ==
    ASSUME TypeOK, NEW a \in Actors, NEW n \in Nodes, NEW f \in Queued, ToAll(a, n, f)
    PROVE  pending' \in [Actors -> SUBSET (Ends \X Queued)]
<1>1. Senders(n) \subseteq Ends
    BY DEF Senders, TypeOK
<1>2. {<<e, f>> : e \in Senders(n)} \subseteq Ends \X Queued
    BY <1>1
<1>. QED
    BY <1>2 DEF ToAll, TypeOK

(* Everything a task does before it reads frames, and after.               *)
LEMMA TaskType ==
    ASSUME TypeOK, Started, NEW e \in Ends, Task(e) \/ HandshakeTimeout(e)
    PROVE  TypeOK'
<1>. USE DEF bootVars
<1>1. CASE ReceiveHello(e)
    <2>1. Me(e) \in Nodes
        BY <1>1, StartedEnd DEF ReceiveHello
    <2>2. Sent(e, Auth(Room[Me(e)])) \in [Ends -> Seq(Frames)]
        BY <2>1, SentType, FrameTypes
    <2>3. Sent(e, Auth(Room[Me(e)]))[e] = inbox[e] /\ inbox[e] \in Seq(Frames)
        BY FarEnd DEF Sent, TypeOK
    <2>4. Tail(inbox[e]) \in Seq(Frames)
        BY <1>1, <2>3, TailType DEF ReceiveHello, Waiting
    <2>5. inbox' \in [Ends -> Seq(Frames)]
        BY <1>1, <2>2, <2>3, <2>4 DEF ReceiveHello
    <2>. QED
        BY <1>1, <2>5 DEF ReceiveHello, TypeOK, Phases, lockVars, dialVars, chatVars
<1>2. ASSUME ReadsProof(e), Register(e), phase' \in [Ends -> Phases]
      PROVE  TypeOK'
    <2>1. Me(e) \in Nodes /\ Them(e) \in Nodes
        BY <1>2, StartedEnd DEF ReadsProof
    <2>2. Tail(inbox[e]) \in Seq(Frames)
        BY <1>2, TailType DEF ReadsProof, Waiting, TypeOK
    <2>3. inbox' \in [Ends -> Seq(Frames)]
        BY <1>2, <2>2 DEF Register, TypeOK
    <2>4. registry' \in [Nodes -> SUBSET Nodes]
        BY <1>2, <2>1 DEF Register, TypeOK
    <2>5. connections' \in [Nodes -> [Nodes -> Ends \cup {NoSender}]]
        BY <1>2, <2>1 DEF Register, TypeOK
    <2>. QED
        BY <1>2, <2>3, <2>4, <2>5 DEF Register, TypeOK, dialVars, chatVars
<1>3. CASE AdmitNew(e)
    BY <1>2, <1>3 DEF AdmitNew, TypeOK, Phases
<1>4. CASE Supersede(e)
    BY <1>2, <1>4 DEF Supersede, TypeOK, Phases
<1>5. CASE Reject(e)
    BY <1>5, FinishType DEF Reject, TypeOK, lockVars, dialVars, chatVars
<1>6. CASE HandshakeFails(e)
    BY <1>6, FinishType DEF HandshakeFails, TypeOK, lockVars, dialVars, chatVars
<1>7. CASE EmitJoined(e)
    <2>1. Me(e) \in Nodes /\ Them(e) \in Nodes
        BY <1>7, StartedEnd DEF EmitJoined
    <2>. QED
        BY <1>7, <2>1 DEF EmitJoined, TypeOK, Phases, lockVars, dialVars, chatVars
<1>8. CASE AnnouncePeers(e)
    <2>1. Me(e) \in Nodes
        BY <1>8, StartedEnd DEF AnnouncePeers
    <2>2. Gossip(registry[Me(e)]) \in Queued
        BY <2>1, FrameTypes DEF TypeOK
    <2>3. pending' \in [Actors -> SUBSET (Ends \X Queued)]
        BY <1>8, <2>1, <2>2, ToAllType DEF AnnouncePeers, Actors
    <2>. QED
        BY <1>8, <2>3 DEF AnnouncePeers, TypeOK, Phases, lockVars, dialVars
<1>9. CASE DisconnectHeld(e)
    <2>1. Me(e) \in Nodes /\ Them(e) \in Nodes
        BY <1>9, StartedEnd DEF DisconnectHeld
    <2>. QED
        BY <1>9, <2>1 DEF DisconnectHeld, TypeOK, Phases, dialVars, chatVars
<1>10. CASE DisconnectSuperseded(e)
    BY <1>10, FinishType DEF DisconnectSuperseded, TypeOK, lockVars, dialVars, chatVars
<1>11. CASE EmitLeft(e)
    BY <1>11, FinishType DEF EmitLeft, TypeOK, lockVars, dialVars, chatVars
<1>12. CASE FinishedDialing(e)
    BY <1>12 DEF FinishedDialing, TypeOK, Phases, chatVars
<1>13. CASE HandshakeTimeout(e)
    <2>1. timeouts' \in 0 .. MaxTimeouts
        BY <1>13, LimitsAssumption DEF HandshakeTimeout, TypeOK
    <2>. QED
        BY <1>13, <2>1, FinishType DEF HandshakeTimeout, TypeOK, lockVars, dialVars, chatVars
<1>. QED
    BY <1>1, <1>3, <1>4, <1>5, <1>6, <1>7, <1>8, <1>9, <1>10, <1>11, <1>12, <1>13
    DEF Task

(* Everything the pump does.                                               *)
LEMMA PumpType ==
    ASSUME TypeOK, Started, NEW e \in Ends, Reads(e) \/ Writes(e)
    PROVE  TypeOK'
<1>. USE DEF bootVars
<1>1. Me(e) \in Nodes
    BY StartedEnd DEF Reads, Writes, ReceiveGossip, ReceiveChat, ReceiveEof,
                      WriteFrame, WriteFails, Pumping
<1>2. inbox[e] # <<>> => Head(inbox[e]) \in Frames /\ Tail(inbox[e]) \in Seq(Frames)
    BY TailType DEF TypeOK
<1>3. queue[e] # <<>> => Head(queue[e]) \in Queued /\ Tail(queue[e]) \in Seq(Queued)
    BY TailType DEF TypeOK
<1>4. CASE ReceiveGossip(e)
    <2>1. inbox' \in [Ends -> Seq(Frames)]
        BY <1>2, <1>4 DEF ReceiveGossip, Waiting, TypeOK
    <2>2. Head(inbox[e]).peers \subseteq Nodes
        BY <1>2, <1>4 DEF ReceiveGossip, Waiting, Frames, Queued
    <2>3. dialing' \in [Nodes -> SUBSET Nodes] /\ dials' \in [Nodes -> SUBSET Nodes]
        BY <1>1, <1>4, <2>2 DEF ReceiveGossip, Chosen, Undialed, TypeOK
    <2>. QED
        BY <1>4, <2>1, <2>3 DEF ReceiveGossip, TypeOK, chatVars
<1>5. CASE ReceiveChat(e)
    <2>1. inbox' \in [Ends -> Seq(Frames)]
        BY <1>2, <1>5 DEF ReceiveChat, Waiting, TypeOK
    <2>2. Head(inbox[e]).message \in Messages
        BY <1>2, <1>5 DEF ReceiveChat, Waiting, Frames, Queued
    <2>3. log' \in [Nodes -> Seq(Messages)]
        BY <1>1, <1>5, <2>2 DEF ReceiveChat, TypeOK
    <2>. QED
        BY <1>5, <2>1, <2>3 DEF ReceiveChat, TypeOK, lockVars, dialVars
<1>6. CASE ReceiveEof(e)
    BY <1>6 DEF ReceiveEof, TypeOK, Phases, lockVars, dialVars, chatVars
<1>7. CASE WriteFrame(e)
    <2>1. inbox' \in [Ends -> Seq(Frames)]
        BY <1>3, <1>7, SentType, FrameTypes DEF WriteFrame
    <2>2. queue' \in [Ends -> Seq(Queued)]
        BY <1>3, <1>7 DEF WriteFrame, TypeOK
    <2>. QED
        BY <1>7, <2>1, <2>2 DEF WriteFrame, TypeOK, lockVars, dialVars, chatVars
<1>8. CASE WriteFails(e)
    <2>1. queue' \in [Ends -> Seq(Queued)]
        BY <1>3, <1>8 DEF WriteFails, TypeOK
    <2>. QED
        BY <1>8, <2>1 DEF WriteFails, TypeOK, Phases, lockVars, dialVars, chatVars
<1>. QED
    BY <1>4, <1>5, <1>6, <1>7, <1>8 DEF Reads, Writes

(* What users and the network do.                                          *)
LEMMA SayType ==
    ASSUME TypeOK, NEW n \in Nodes, Say(n)
    PROVE  TypeOK'
<1>. USE DEF bootVars
<1>1. PICK long \in LongTexts :
        ToAll(User(n), n, Chat([from |-> n, id |-> said[n] + 1, long |-> long]))
    BY DEF Say
<1>2. said[n] \in 0 .. MaxSays /\ said[n] < MaxSays
    BY DEF Say, TypeOK
<1>3. Chat([from |-> n, id |-> said[n] + 1, long |-> long]) \in Queued
    BY <1>1, <1>2, FrameTypes, LimitsAssumption DEF Messages
<1>4. pending' \in [Actors -> SUBSET (Ends \X Queued)]
    BY <1>1, <1>3, ToAllType DEF Actors
<1>5. said' \in [Nodes -> 0 .. MaxSays]
    BY <1>2, LimitsAssumption DEF Say, TypeOK
<1>. QED
    BY <1>4, <1>5 DEF Say, TypeOK, netVars, lockVars, dialVars

(* A try_send, taken or not, keeps every type.                             *)
LEMMA PutType ==
    ASSUME TypeOK, NEW a \in Actors, NEW e \in Ends, Put(a, e)
    PROVE  TypeOK'
<1>. USE DEF bootVars
<1>1. PICK p \in pending[a] :
        /\ pending' = [pending EXCEPT ![a] = @ \ {p}]
        /\ queue' = [queue EXCEPT ![e] = IF Accepts(e) THEN Append(@, p[2]) ELSE @]
    BY DEF Put
<1>2. p[2] \in Queued
    BY <1>1 DEF TypeOK
<1>3. queue' \in [Ends -> Seq(Queued)]
    BY <1>1, <1>2 DEF TypeOK
<1>4. pending' \in [Actors -> SUBSET (Ends \X Queued)]
    BY <1>1 DEF TypeOK
<1>. QED
    BY <1>3, <1>4 DEF Put, TypeOK, lockVars, dialVars

(* A cut keeps every type.                                                 *)
LEMMA CutType ==
    ASSUME TypeOK, NEW c \in Conns, Cut(c)
    PROVE  TypeOK'
<1>. USE DEF bootVars
<1>1. <<Eof>> \in Seq(Frames)
    BY FrameTypes
<1>2. inbox' \in [Ends -> Seq(Frames)]
    BY <1>1 DEF Cut, TypeOK
<1>. QED
    BY <1>2 DEF Cut, TypeOK, lockVars, dialVars, chatVars

(* What is left of a process that ended, and what its peers are sent.      *)
LEMMA RestartType ==
    ASSUME TypeOK, NEW n \in Nodes, Restart(n)
    PROVE  TypeOK'
<1>1. \A e \in Ends : Far(e) \in Ends
    BY FarEnd
<1>2. \A e \in Ends : inbox'[e] \in Seq(Frames)
    <2>1. \A e \in Ends : Sent(Far(e), Eof)[e] \in Seq(Frames)
        BY <1>1, SentType, FrameTypes
    <2>2. \A e \in Ends : \/ inbox'[e] = <<>>
                          \/ inbox'[e] = Sent(Far(e), Eof)[e]
                          \/ inbox'[e] = inbox[e]
        BY DEF Restart
    <2>3. <<>> \in Seq(Frames) /\ (\A e \in Ends : inbox[e] \in Seq(Frames))
        BY DEF TypeOK
    <2>. QED
        BY <2>1, <2>2, <2>3
<1>3. inbox' \in [Ends -> Seq(Frames)]
    BY <1>2 DEF Restart
<1>4. phase' \in [Ends -> Phases] /\ queue' \in [Ends -> Seq(Queued)]
    BY DEF Restart, TypeOK, Phases
<1>5. pending' \in [Actors -> SUBSET (Ends \X Queued)]
    BY DEF Restart, TypeOK
<1>6. connections' \in [Nodes -> [Nodes -> Ends \cup {NoSender}]]
    BY DEF Restart, TypeOK
<1>7. booted' \subseteq Bootstrap /\ restarted' \subseteq MayRestart
    BY DEF Restart, TypeOK
<1>. QED
    BY <1>3, <1>4, <1>5, <1>6, <1>7 DEF Restart, TypeOK

(* Every step keeps every type.                                            *)
LEMMA TypeStep ==
    ASSUME TypeOK, Started, [Next]_vars
    PROVE  TypeOK'
<1>1. CASE Next
    BY <1>1, DialType, TaskType, PumpType, SayType, PutType, CutType, RestartType
    DEF Next
<1>2. CASE UNCHANGED vars
    BY <1>2 DEF vars, TypeOK
<1>. QED
    BY <1>1, <1>2

-----------------------------------------------------------------------------
(* Connections.                                                            *)

(* A step that neither touches the tables nor ends a registered task keeps *)
(* RegisteredIsLive.                                                       *)
LEMMA TablesKept ==
    ASSUME TypeOK, Started, RegisteredIsLive,
           UNCHANGED <<registry, connections>>,
           \A c \in Conns : link[c] # NoLink => link'[c] = link[c],
           \A e \in Ends : phase[e] \in Admitted => phase'[e] \in Admitted \/ ~StillOurs(e)
    PROVE  RegisteredIsLive'
<1>. SUFFICES ASSUME NEW n \in Nodes, NEW p \in Nodes, NEW e \in Ends, connections[n][p] = e
              PROVE  phase'[e] \in Admitted /\ Me(e)' = n /\ Them(e)' = p /\ n # p
    BY DEF RegisteredIsLive
<1>1. phase[e] \in Admitted /\ Me(e) = n /\ Them(e) = p /\ n # p
    BY DEF RegisteredIsLive
<1>2. StillOurs(e)
    BY <1>1 DEF StillOurs
<1>3. link[e[1]] # NoLink /\ e[1] \in Conns
    BY <1>1, FarEnd DEF Started, Admitted
<1>. QED
    BY <1>1, <1>2, <1>3 DEF Me, Them, Inbound

(* A new connection takes the place of none.                               *)
LEMMA OpenLinkKeeps ==
    ASSUME TypeOK, Started, NEW n \in Nodes, NEW m \in Nodes, NEW marked \in BOOLEAN,
           OpenLink(n, m, marked)
    PROVE  /\ Started'
           /\ \A c \in Conns : link[c] # NoLink => link'[c] = link[c]
           /\ \A e \in Ends : phase[e] \in Admitted => phase'[e] \in Admitted
<1>1. PICK c \in Conns :
        /\ link[c] = NoLink
        /\ link' = [link EXCEPT ![c] = [from |-> n, to |-> m, marked |-> marked]]
        /\ phase' = [phase EXCEPT ![<<c, "out">>] = "hello", ![<<c, "in">>] = "hello"]
    BY DEF OpenLink
<1>2. [from |-> n, to |-> m, marked |-> marked] # NoLink
    BY NoneAssumption DEF Links
<1>3. \A d \in Conns : link[d] # NoLink => link'[d] = link[d] /\ link'[d] # NoLink
    BY <1>1 DEF TypeOK
<1>4. link'[c] # NoLink
    BY <1>1, <1>2 DEF TypeOK
<1>5. \A e \in Ends : e[1] # c => phase'[e] = phase[e]
    BY <1>1 DEF TypeOK, Ends
<1>6. \A e \in Ends : e[1] = c => phase[e] = "idle"
    BY <1>1 DEF Started
<1>7. Started'
    BY <1>3, <1>4, <1>5 DEF Started, Ends
<1>. QED
    BY <1>3, <1>5, <1>6, <1>7 DEF Admitted

(* Only OpenLink starts an end.                                            *)
LEMMA StartedKept ==
    ASSUME Started, link' = link,
           \A e \in Ends : phase'[e] # "idle" => phase[e] # "idle"
    PROVE  Started'
BY DEF Started

(* A dial, whatever comes of it, keeps the tables.                         *)
LEMMA DialKeeps ==
    ASSUME TypeOK, Started, RegisteredIsLive, Dial
    PROVE  Started' /\ RegisteredIsLive'
<1>1. ASSUME NEW n \in Nodes, NEW m \in Nodes, NEW marked \in BOOLEAN,
             OpenLink(n, m, marked), UNCHANGED <<registry, connections>>
      PROVE  Started' /\ RegisteredIsLive'
    BY <1>1, OpenLinkKeeps, TablesKept
<1>2. ASSUME NEW n \in Nodes, NEW m \in Nodes, Connect(n, m)
      PROVE  Started' /\ RegisteredIsLive'
    BY <1>1, <1>2 DEF Connect, lockVars, dialVars
<1>3. ASSUME NEW n \in Nodes, NEW m \in Nodes, GossipDial(n, m)
      PROVE  Started' /\ RegisteredIsLive'
    BY <1>1, <1>3 DEF GossipDial, lockVars, dialVars
<1>4. ASSUME NEW n \in Nodes, NEW m \in Nodes, GossipDialFails(n, m)
      PROVE  Started' /\ RegisteredIsLive'
    BY <1>4, StartedKept, TablesKept DEF GossipDialFails, netVars
<1>. QED
    BY <1>2, <1>3, <1>4 DEF Dial

(* A task moves on: its phase changes, the tables stay, and either it was  *)
(* not registered or it goes on being a live task.                         *)
LEMMA MovesOn ==
    ASSUME TypeOK, Started, RegisteredIsLive, NEW e \in Ends, NEW q,
           phase' = [phase EXCEPT ![e] = q],
           phase[e] # "idle",
           phase[e] \in Admitted => q \in Admitted \/ ~StillOurs(e),
           UNCHANGED <<link, registry, connections>>
    PROVE  Started' /\ RegisteredIsLive'
<1>1. \A f \in Ends : phase'[f] = IF f = e THEN q ELSE phase[f]
    BY DEF TypeOK
<1>2. Started'
    BY <1>1, StartedKept
<1>3. \A f \in Ends : phase[f] \in Admitted => phase'[f] \in Admitted \/ ~StillOurs(f)
    BY <1>1
<1>. QED
    BY <1>2, <1>3, TablesKept

(* An end is entered in the tables.                                        *)
LEMMA RegisterKeeps ==
    ASSUME TypeOK, Started, RegisteredIsLive, NEW e \in Ends, NEW q \in Admitted,
           ReadsProof(e), VerdictOn(e) \in {"admitted", "superseded"},
           phase' = [phase EXCEPT ![e] = q], Register(e)
    PROVE  Started' /\ RegisteredIsLive'
<1>1. Me(e) \in Nodes /\ Them(e) \in Nodes
    BY StartedEnd DEF ReadsProof
<1>2. Me(e) # Them(e)
    BY DEF VerdictOn, Verdict
<1>3. link' = link /\ (\A f \in Ends : phase'[f] = IF f = e THEN q ELSE phase[f])
    BY DEF Register, TypeOK
<1>4. Started'
    BY <1>3, StartedKept DEF ReadsProof
<1>5. \A n, p \in Nodes :
        /\ p \in registry'[n] <=> p \in registry[n] \/ (n = Me(e) /\ p = Them(e))
        /\ connections'[n][p] = IF n = Me(e) /\ p = Them(e) THEN e ELSE connections[n][p]
    BY <1>1 DEF Register, TypeOK
<1>6. e # NoSender
    BY NoneAssumption
<1>7. \A f \in Ends : Me(f)' = Me(f) /\ Them(f)' = Them(f)
    BY <1>3 DEF Me, Them
<1>. QED
    BY <1>2, <1>3, <1>4, <1>5, <1>6, <1>7 DEF RegisteredIsLive

(* ... and taken out of them, when it is the one the tables name.          *)
LEMMA DisconnectKeeps ==
    ASSUME TypeOK, Started, RegisteredIsLive, NEW e \in Ends, DisconnectHeld(e)
    PROVE  Started' /\ RegisteredIsLive'
<1>1. Me(e) \in Nodes /\ Them(e) \in Nodes
    BY StartedEnd DEF DisconnectHeld
<1>2. link' = link /\ (\A f \in Ends : phase'[f] = IF f = e THEN "leaving" ELSE phase[f])
    BY DEF DisconnectHeld, TypeOK
<1>3. Started'
    BY <1>2, StartedKept DEF DisconnectHeld
<1>4. \A n, p \in Nodes :
        /\ p \in registry'[n] <=> p \in registry[n] /\ ~(n = Me(e) /\ p = Them(e))
        /\ connections'[n][p] = IF n = Me(e) /\ p = Them(e) THEN NoSender
                                                            ELSE connections[n][p]
    BY <1>1 DEF DisconnectHeld, TypeOK
<1>5. \A f \in Ends : Me(f)' = Me(f) /\ Them(f)' = Them(f)
    BY <1>2 DEF Me, Them
<1>6. NoSender \notin Ends
    BY NoneAssumption
<1>. QED
    BY <1>2, <1>3, <1>4, <1>5, <1>6 DEF RegisteredIsLive

(* Every step of a task keeps the tables.                                  *)
LEMMA TaskKeeps ==
    ASSUME TypeOK, Started, RegisteredIsLive, NEW e \in Ends,
           Task(e) \/ HandshakeTimeout(e)
    PROVE  Started' /\ RegisteredIsLive'
<1>1. CASE ReceiveHello(e)
    BY <1>1, MovesOn DEF ReceiveHello, lockVars, dialVars, Admitted
<1>2. CASE AdmitNew(e)
    BY <1>2, RegisterKeeps DEF AdmitNew, Admitted
<1>3. CASE Supersede(e)
    BY <1>3, RegisterKeeps DEF Supersede, Admitted
<1>4. CASE Reject(e)
    BY <1>4, MovesOn DEF Reject, ReadsProof, Finish, lockVars, dialVars, Admitted
<1>5. CASE HandshakeFails(e)
    BY <1>5, MovesOn DEF HandshakeFails, Handshaking, Finish, lockVars, dialVars, Admitted
<1>6. CASE EmitJoined(e)
    BY <1>6, MovesOn DEF EmitJoined, lockVars, dialVars, Admitted
<1>7. CASE AnnouncePeers(e)
    BY <1>7, MovesOn DEF AnnouncePeers, lockVars, dialVars, Admitted
<1>8. CASE DisconnectHeld(e)
    BY <1>8, DisconnectKeeps
<1>9. CASE DisconnectSuperseded(e)
    BY <1>9, MovesOn DEF DisconnectSuperseded, Finish, lockVars, dialVars
<1>10. CASE EmitLeft(e)
    BY <1>10, MovesOn DEF EmitLeft, Finish, lockVars, dialVars, Admitted
<1>11. CASE FinishedDialing(e)
    BY <1>11, MovesOn DEF FinishedDialing, Admitted
<1>12. CASE HandshakeTimeout(e)
    BY <1>12, MovesOn DEF HandshakeTimeout, Handshaking, Finish, lockVars, dialVars, Admitted
<1>. QED
    BY <1>1, <1>2, <1>3, <1>4, <1>5, <1>6, <1>7, <1>8, <1>9, <1>10, <1>11, <1>12
    DEF Task

(* Reading, writing and everything that is not a task's leaves every phase *)
(* as it is, or takes a pump to its end.                                   *)
LEMMA OthersKeep ==
    ASSUME TypeOK, Started, RegisteredIsLive,
           \/ \E e \in Ends : Reads(e) \/ Writes(e)
           \/ \E n \in Nodes : Say(n)
           \/ \E a \in Actors, e \in Ends : Put(a, e)
           \/ \E c \in Conns : Cut(c)
           \/ UNCHANGED vars
    PROVE  Started' /\ RegisteredIsLive'
<1>1. ASSUME UNCHANGED <<link, phase, registry, connections>>
      PROVE  Started' /\ RegisteredIsLive'
    BY <1>1, StartedKept, TablesKept
<1>2. ASSUME NEW e \in Ends, ReceiveEof(e) \/ WriteFails(e)
      PROVE  Started' /\ RegisteredIsLive'
    BY <1>2, MovesOn DEF ReceiveEof, WriteFails, Pumping, lockVars, dialVars, Admitted
<1>3. ASSUME NEW e \in Ends, ReceiveGossip(e) \/ ReceiveChat(e) \/ WriteFrame(e)
      PROVE  Started' /\ RegisteredIsLive'
    BY <1>1, <1>3 DEF ReceiveGossip, ReceiveChat, WriteFrame, lockVars, dialVars
<1>. QED
    BY <1>1, <1>2, <1>3 DEF Reads, Writes, Say, Put, Cut, netVars, lockVars, dialVars, vars

(* A node that starts again has empty tables, and the tasks it takes down  *)
(* are its own.                                                            *)
LEMMA RestartKeeps ==
    ASSUME TypeOK, Started, RegisteredIsLive, NEW n \in Nodes, Restart(n)
    PROVE  Started' /\ RegisteredIsLive'
<1>1. link' = link /\ (\A e \in Ends : phase'[e] = IF Runs(n, e) THEN "done" ELSE phase[e])
    BY DEF Restart
<1>2. Started'
    BY <1>1 DEF Started, Runs
<1>3. \A m, p \in Nodes :
        /\ p \in registry'[m] <=> p \in registry[m] /\ m # n
        /\ connections'[m][p] = IF m = n THEN NoSender ELSE connections[m][p]
    BY DEF Restart, TypeOK
<1>4. \A e \in Ends : Me(e)' = Me(e) /\ Them(e)' = Them(e)
    BY <1>1 DEF Me, Them
<1>5. NoSender \notin Ends
    BY NoneAssumption
<1>. QED
    BY <1>1, <1>2, <1>3, <1>4, <1>5 DEF RegisteredIsLive, Runs

-----------------------------------------------------------------------------
(* The theorems.                                                           *)

(* The inductive invariant, which every step keeps.                        *)
THEOREM Invariance == Spec => []IInv
<1>1. Init => IInv
    <2>1. Init => Started /\ RegisteredIsLive
        BY NoneAssumption DEF Init, Started, RegisteredIsLive
    <2>. QED
        BY <2>1, InitType DEF IInv
<1>2. IInv /\ [Next]_vars => IInv'
    <2>. SUFFICES ASSUME IInv, [Next]_vars
                  PROVE  IInv'
        OBVIOUS
    <2>1. TypeOK'
        BY TypeStep DEF IInv
    <2>2. Started' /\ RegisteredIsLive'
        BY DialKeeps, TaskKeeps, OthersKeep, RestartKeeps DEF IInv, Next
    <2>. QED
        BY <2>1, <2>2 DEF IInv
<1>. QED
    BY <1>1, <1>2, PTL DEF Spec

(* Every variable of Node keeps its type.                                  *)
THEOREM TypeCorrect == Spec => []TypeOK
BY Invariance, PTL DEF IInv

(* The registry and the table of senders of a node (State, node.rs) name   *)
(* the same peers at every moment the lock is free, and every sender leads *)
(* to a task that still runs, for that peer.                               *)
THEOREM TablesAgree == Spec => []RegisteredIsLive
BY Invariance, PTL DEF IInv

-----------------------------------------------------------------------------
(* Proofs of the room code.                                                *)

(* Whatever proof is on its way to an end was made by the node at the far  *)
(* end of that very connection.                                            *)
ProofsAreTheirs ==
    \A e \in Ends : \A i \in DOMAIN inbox[e] : inbox[e][i].type = "Auth" =>
        link[e[1]] # NoLink /\ inbox[e][i].room = Room[Them(e)]

RoomInv == ProofsAreTheirs /\ OnlyRoommates

LinksKept == \A c \in Conns : link[c] # NoLink => link'[c] = link[c]

(* No step moves a connection.                                             *)
LEMMA LinksStep ==
    ASSUME TypeOK, [Next]_vars
    PROVE  LinksKept
<1>1. ASSUME NEW n, NEW m, NEW marked, OpenLink(n, m, marked)
      PROVE  LinksKept
    BY <1>1 DEF OpenLink, LinksKept, TypeOK
<1>2. Dial => LinksKept
    BY <1>1 DEF Dial, Connect, GossipDial, GossipDialFails, netVars, LinksKept
<1>3. ASSUME NEW e \in Ends, Task(e) \/ HandshakeTimeout(e)
      PROVE  LinksKept
    BY <1>3 DEF Task, HandshakeTimeout, ReceiveHello, AdmitNew, Supersede, Register,
                Reject, HandshakeFails, EmitJoined, AnnouncePeers, DisconnectHeld,
                DisconnectSuperseded, EmitLeft, FinishedDialing, LinksKept
<1>4. ASSUME NEW e \in Ends, Reads(e) \/ Writes(e)
      PROVE  LinksKept
    BY <1>4 DEF Reads, Writes, ReceiveGossip, ReceiveChat, ReceiveEof, WriteFrame,
                WriteFails, LinksKept
<1>. QED
    BY <1>2, <1>3, <1>4 DEF Next, Say, Put, Cut, Restart, netVars, vars, LinksKept

(* Proofs that were in an inbox stay those of the far end; a new one is    *)
(* all there is to check.                                                  *)
LEMMA InboxKept ==
    ASSUME ProofsAreTheirs, LinksKept,
           \A e \in Ends : \A i \in DOMAIN inbox'[e] :
              \/ inbox'[e][i].type # "Auth"
              \/ link[e[1]] # NoLink /\ inbox'[e][i].room = Room[Them(e)]
              \/ \E j \in DOMAIN inbox[e] : inbox[e][j] = inbox'[e][i]
    PROVE  ProofsAreTheirs'
<1>. SUFFICES ASSUME NEW e \in Ends, NEW i \in DOMAIN inbox'[e],
                     inbox'[e][i].type = "Auth"
              PROVE  link'[e[1]] # NoLink /\ inbox'[e][i].room = Room[Them(e)']
    BY DEF ProofsAreTheirs
<1>1. link[e[1]] # NoLink /\ inbox'[e][i].room = Room[Them(e)]
    BY DEF ProofsAreTheirs
<1>2. link'[e[1]] = link[e[1]]
    BY <1>1, FarEnd DEF LinksKept
<1>. QED
    BY <1>1, <1>2 DEF Them

(* Inboxes that grow by what one end writes and shrink at their heads.     *)
LEMMA InboxSent ==
    ASSUME TypeOK, NEW e \in Ends, NEW f \in Frames, NEW g \in Ends,
           NEW i \in DOMAIN Sent(e, f)[g]
    PROVE  \/ g = Far(e) /\ Sent(e, f)[g][i] = f
           \/ \E j \in DOMAIN inbox[g] : inbox[g][j] = Sent(e, f)[g][i]
<1>1. CASE g = Far(e) /\ Reaches(e)
    <2>1. Sent(e, f)[g] = Append(inbox[g], f) /\ inbox[g] \in Seq(Frames)
        BY <1>1 DEF Sent, TypeOK
    <2>. QED
        BY <1>1, <2>1, AppendProperties
<1>2. CASE ~(g = Far(e) /\ Reaches(e))
    <2>1. Sent(e, f)[g] = inbox[g]
        BY <1>2 DEF Sent, TypeOK
    <2>. QED
        BY <2>1
<1>. QED
    BY <1>1, <1>2

(* The rest of an inbox holds no frame the inbox did not.                  *)
LEMMA InboxTail ==
    ASSUME NEW S, NEW s \in Seq(S), s # << >>, NEW i \in DOMAIN Tail(s)
    PROVE  \E j \in DOMAIN s : s[j] = Tail(s)[i]
<1>1. i + 1 \in DOMAIN s /\ Tail(s)[i] = s[i + 1]
    BY HeadTailProperties
<1>. QED
    BY <1>1

(* The steps that write or read nothing, or make no proof.                 *)
LEMMA ProofsStep ==
    ASSUME IInv, ProofsAreTheirs, [Next]_vars
    PROVE  ProofsAreTheirs'
<1>. USE DEF IInv
<1>1. LinksKept
    BY LinksStep
<1>2. ASSUME inbox' = inbox
      PROVE  ProofsAreTheirs'
    BY <1>1, <1>2, InboxKept
<1>3. ASSUME NEW e \in Ends, inbox[e] # <<>>, inbox' = [inbox EXCEPT ![e] = Tail(@)]
      PROVE  ProofsAreTheirs'
    <2>1. \A g \in Ends : \A i \in DOMAIN inbox'[g] :
            \E j \in DOMAIN inbox[g] : inbox[g][j] = inbox'[g][i]
        <3>1. \A g \in Ends : inbox'[g] = IF g = e THEN Tail(inbox[e]) ELSE inbox[g]
            BY <1>3 DEF TypeOK
        <3>2. \A i \in DOMAIN Tail(inbox[e]) : \E j \in DOMAIN inbox[e] :
                inbox[e][j] = Tail(inbox[e])[i]
            <4>1. inbox[e] \in Seq(Frames)
                BY DEF TypeOK
            <4>. QED
                BY <1>3, <4>1, InboxTail
        <3>. QED
            BY <3>1, <3>2
    <2>. QED
        BY <1>1, <2>1, InboxKept
<1>4. ASSUME NEW e \in Ends, NEW f \in Frames, f.type # "Auth", inbox' = Sent(e, f)
      PROVE  ProofsAreTheirs'
    BY <1>1, <1>4, InboxSent, InboxKept
<1>5. ASSUME NEW e \in Ends, Finish(e)
      PROVE  ProofsAreTheirs'
    <2>1. Eof \in Frames /\ Eof.type # "Auth"
        BY FrameTypes DEF Eof
    <2>2. \A g \in Ends : inbox'[g] = IF g = e THEN <<>> ELSE Sent(e, Eof)[g]
        BY <1>5, <2>1, SentType DEF Finish
    <2>. QED
        BY <1>1, <2>1, <2>2, InboxSent, InboxKept
<1>6. ASSUME NEW e \in Ends, ReceiveHello(e)
      PROVE  ProofsAreTheirs'
    <2>1. link[e[1]] # NoLink /\ Me(e) \in Nodes
        BY <1>6, StartedEnd, NoneAssumption DEF ReceiveHello
    <2>. DEFINE f == Auth(Room[Me(e)])
    <2>2. f \in Frames /\ f.room = Room[Me(e)]
        BY <2>1, FrameTypes DEF Auth
    <2>3. Them(Far(e)) = Me(e)
        BY DEF Them, Me, Far, Inbound, Ends
    <2>4. Sent(e, f)[e] = inbox[e]
        BY FarEnd DEF Sent, TypeOK
    <2>5. \A g \in Ends : inbox'[g] = IF g = e THEN Tail(inbox[e]) ELSE Sent(e, f)[g]
        BY <1>6, <2>2, <2>4, SentType DEF ReceiveHello
    <2>6. \A i \in DOMAIN inbox'[e] : \E j \in DOMAIN inbox[e] : inbox[e][j] = inbox'[e][i]
        <3>1. inbox'[e] = Tail(inbox[e])
            BY <2>5
        <3>2. inbox[e] \in Seq(Frames) /\ inbox[e] # <<>>
            BY <1>6 DEF ReceiveHello, Waiting, TypeOK
        <3>. QED
            BY <3>1, <3>2, InboxTail
    <2>7. \A g \in Ends \ {e} : \A i \in DOMAIN inbox'[g] :
            \/ g = Far(e) /\ inbox'[g][i] = f
            \/ \E j \in DOMAIN inbox[g] : inbox[g][j] = inbox'[g][i]
        BY <2>2, <2>5, InboxSent
    <2>8. link[Far(e)[1]] # NoLink
        BY <2>1, FarEnd
    <2>. HIDE DEF f
    <2>. QED
        BY <1>1, <2>2, <2>3, <2>6, <2>7, <2>8, InboxKept
<1>7. ASSUME NEW n \in Nodes, NEW m \in Nodes, NEW marked \in BOOLEAN,
             OpenLink(n, m, marked)
      PROVE  ProofsAreTheirs'
    <2>1. \A g \in Ends : \/ inbox'[g] = inbox[g]
                          \/ inbox'[g] = <<Hello(m)>>
                          \/ inbox'[g] = <<Hello(n)>>
        BY <1>7 DEF OpenLink, TypeOK
    <2>2. \A g \in Ends : \A i \in DOMAIN inbox'[g] :
            \/ inbox'[g][i].type # "Auth"
            \/ \E j \in DOMAIN inbox[g] : inbox[g][j] = inbox'[g][i]
        BY <2>1 DEF Hello
    <2>. QED
        BY <1>1, <2>2, InboxKept
<1>8. ASSUME NEW c \in Conns, Cut(c)
      PROVE  ProofsAreTheirs'
    <2>1. \A g \in Ends : inbox'[g] = inbox[g] \/ inbox'[g] = <<Eof>>
        BY <1>8 DEF Cut, TypeOK
    <2>2. \A g \in Ends : \A i \in DOMAIN inbox'[g] :
            \/ inbox'[g][i].type # "Auth"
            \/ \E j \in DOMAIN inbox[g] : inbox[g][j] = inbox'[g][i]
        BY <2>1 DEF Eof
    <2>. QED
        BY <1>1, <2>2, InboxKept
<1>9. ASSUME NEW e \in Ends, Task(e) \/ HandshakeTimeout(e)
      PROVE  ProofsAreTheirs'
    BY <1>2, <1>3, <1>5, <1>6, <1>9
    DEF Task, HandshakeTimeout, AdmitNew, Supersede, Register, ReadsProof, Waiting,
        Reject, HandshakeFails, EmitJoined, AnnouncePeers, DisconnectHeld,
        DisconnectSuperseded, EmitLeft, FinishedDialing
<1>10. ASSUME NEW e \in Ends, Reads(e) \/ Writes(e)
       PROVE  ProofsAreTheirs'
    <2>1. CASE WriteFrame(e)
        <3>1. Head(queue[e]) \in Queued
            BY <2>1, TailType DEF WriteFrame, TypeOK
        <3>2. Head(queue[e]) \in Frames /\ Head(queue[e]).type # "Auth"
            BY <3>1, FrameTypes DEF Queued
        <3>. QED
            BY <1>4, <2>1, <3>2 DEF WriteFrame
    <2>. QED
        BY <1>2, <1>3, <1>10, <2>1
        DEF Reads, Writes, ReceiveGossip, ReceiveChat, ReceiveEof, WriteFails, Waiting
<1>11. CASE Dial
    BY <1>2, <1>7, <1>11 DEF Dial, Connect, GossipDial, GossipDialFails, netVars
<1>12. ASSUME NEW n \in Nodes, Restart(n)
       PROVE  ProofsAreTheirs'
    <2>1. Eof \in Frames /\ Eof.type # "Auth"
        BY FrameTypes DEF Eof
    <2>2. \A g \in Ends : inbox'[g] \in {<<>>, Sent(Far(g), Eof)[g], inbox[g]}
        BY <1>12 DEF Restart
    <2>3. \A g \in Ends : Far(g) \in Ends
        BY FarEnd
    <2>4. \A g \in Ends : \A i \in DOMAIN inbox'[g] :
            \/ inbox'[g][i].type # "Auth"
            \/ \E j \in DOMAIN inbox[g] : inbox[g][j] = inbox'[g][i]
        BY <2>1, <2>2, <2>3, InboxSent
    <2>. QED
        BY <1>1, <2>4, InboxKept
<1>. QED
    BY <1>2, <1>8, <1>9, <1>10, <1>11, <1>12 DEF Next, Say, Put, netVars, vars

(* A registry only grows by a peer whose proof was read.                   *)
LEMMA RoommatesStep ==
    ASSUME IInv, ProofsAreTheirs, OnlyRoommates, [Next]_vars
    PROVE  OnlyRoommates'
<1>. USE DEF IInv
<1>1. ASSUME registry' = registry
      PROVE  OnlyRoommates'
    BY <1>1 DEF OnlyRoommates
<1>2. ASSUME NEW e \in Ends, ReadsProof(e), Register(e)
      PROVE  OnlyRoommates'
    <2>1. Head(inbox[e]).type = "Auth" /\ 1 \in DOMAIN inbox[e] /\ Head(inbox[e]) = inbox[e][1]
        BY <1>2 DEF ReadsProof, Waiting, TypeOK
    <2>2. Room[Them(e)] = Room[Me(e)]
        BY <1>2, <2>1 DEF ProofsAreTheirs, ReadsProof
    <2>3. \A n \in Nodes : registry'[n] = IF n = Me(e) THEN registry[n] \cup {Them(e)}
                                                      ELSE registry[n]
        BY <1>2 DEF Register, TypeOK
    <2>. QED
        BY <2>2, <2>3 DEF OnlyRoommates
<1>3. ASSUME NEW e \in Ends, DisconnectHeld(e)
      PROVE  OnlyRoommates'
    BY <1>3 DEF DisconnectHeld, OnlyRoommates, TypeOK
<1>4. ASSUME NEW e \in Ends, Task(e) \/ HandshakeTimeout(e)
      PROVE  OnlyRoommates'
    BY <1>1, <1>2, <1>3, <1>4
    DEF Task, HandshakeTimeout, ReceiveHello, AdmitNew, Supersede, Reject,
        HandshakeFails, EmitJoined, AnnouncePeers, DisconnectSuperseded, EmitLeft,
        FinishedDialing, lockVars, dialVars
<1>5. ASSUME NEW e \in Ends, Reads(e) \/ Writes(e)
      PROVE  OnlyRoommates'
    BY <1>1, <1>5 DEF Reads, Writes, ReceiveGossip, ReceiveChat, ReceiveEof, WriteFrame,
                      WriteFails, lockVars, dialVars
<1>6. CASE Dial
    BY <1>1, <1>6 DEF Dial, Connect, GossipDial, GossipDialFails, lockVars, dialVars
<1>7. ASSUME NEW n \in Nodes, Restart(n)
      PROVE  OnlyRoommates'
    BY <1>7 DEF Restart, OnlyRoommates, TypeOK
<1>. QED
    BY <1>1, <1>4, <1>5, <1>6, <1>7 DEF Next, Say, Put, Cut, lockVars, dialVars, vars

(* The strengthened invariant.                                             *)
LEMMA RoomInvariance == Spec => []RoomInv
<1>1. Init => RoomInv
    BY DEF Init, RoomInv, ProofsAreTheirs, OnlyRoommates
<1>2. IInv /\ RoomInv /\ [Next]_vars => RoomInv'
    BY ProofsStep, RoommatesStep DEF RoomInv
<1>. QED
    BY <1>1, <1>2, Invariance, PTL DEF Spec

(* A node never holds a peer that did not prove the room code it holds     *)
(* itself (handshake and admit, node.rs and peers.rs).                     *)
THEOREM RoommatesOnly == Spec => []OnlyRoommates
BY RoomInvariance, PTL DEF RoomInv

-----------------------------------------------------------------------------
(* Dialling marks.                                                         *)

(* A task that still has its mark to clear is that of a gossip dial.       *)
EndedIsMarked == \A e \in Ends : phase[e] = "ended" => Marked(e)

DialInv == DialedOnce /\ EndedIsMarked

(* The gossip dials of every peer, their marks and their tasks are as they *)
(* were: a task may move on, but neither start nor end.                    *)
LEMMA DialsKept ==
    ASSUME TypeOK, Started, DialInv, LinksKept, link' = link,
           UNCHANGED dialVars,
           \A e \in Ends : phase[e] = "done" => phase'[e] = "done",
           \A e \in Ends : phase'[e] = "ended" => phase[e] = "ended" \/ Marked(e)
    PROVE  DialInv'
<1>1. \A n, m \in Nodes : GossipDialsOf(n, m)' \subseteq GossipDialsOf(n, m)
    BY DEF GossipDialsOf, Ends
<1>2. EndedIsMarked'
    BY DEF DialInv, EndedIsMarked, Marked, Inbound
<1>. QED
    BY <1>1, <1>2 DEF DialInv, DialedOnce, dialVars

(* Both ends of a connection start, and no other.                          *)
LEMMA OpenedPhases ==
    ASSUME TypeOK, NEW c \in Conns, NEW e \in Ends,
           phase' = [phase EXCEPT ![<<c, "out">>] = "hello", ![<<c, "in">>] = "hello"]
    PROVE  phase'[e] = IF e[1] = c THEN "hello" ELSE phase[e]
<1>1. PICK d \in Conns, s \in {"out", "in"} : e = <<d, s>>
    BY DEF Ends
<1>2. e = <<c, "out">> \/ e = <<c, "in">> \/ (e # <<c, "out">> /\ e # <<c, "in">>)
    OBVIOUS
<1>. QED
    BY <1>1, <1>2 DEF TypeOK

(* A new connection that is no gossip dial.                                *)
LEMMA ConnectDials ==
    ASSUME TypeOK, Started, DialInv, NEW n \in Nodes, NEW m \in Nodes, Connect(n, m)
    PROVE  DialInv'
<1>1. PICK c \in Conns :
        /\ link[c] = NoLink
        /\ link' = [link EXCEPT ![c] = [from |-> n, to |-> m, marked |-> FALSE]]
        /\ phase' = [phase EXCEPT ![<<c, "out">>] = "hello", ![<<c, "in">>] = "hello"]
    BY DEF Connect, OpenLink
<1>2. UNCHANGED dialVars
    BY DEF Connect, lockVars
<1>3. link'[c].marked = FALSE /\ (\A d \in Conns \ {c} : link'[d] = link[d])
    BY <1>1 DEF TypeOK
<1>4. \A e \in Ends : phase'[e] = IF e[1] = c THEN "hello" ELSE phase[e]
    BY <1>1, OpenedPhases
<1>5. \A p, q \in Nodes : GossipDialsOf(p, q)' \subseteq GossipDialsOf(p, q)
    BY <1>3, <1>4 DEF GossipDialsOf, Ends
<1>6. EndedIsMarked'
    BY <1>3, <1>4, FarEnd DEF DialInv, EndedIsMarked, Marked, Inbound
<1>. QED
    BY <1>2, <1>5, <1>6 DEF DialInv, DialedOnce, dialVars

(* A dial task becomes a connection.                                       *)
LEMMA GossipDialDials ==
    ASSUME TypeOK, Started, DialInv, NEW n \in Nodes, NEW m \in Nodes, GossipDial(n, m)
    PROVE  DialInv'
<1>1. PICK c \in Conns :
        /\ link[c] = NoLink
        /\ link' = [link EXCEPT ![c] = [from |-> n, to |-> m, marked |-> TRUE]]
        /\ phase' = [phase EXCEPT ![<<c, "out">>] = "hello", ![<<c, "in">>] = "hello"]
    BY DEF GossipDial, OpenLink
<1>2. link'[c] = [from |-> n, to |-> m, marked |-> TRUE]
      /\ (\A d \in Conns \ {c} : link'[d] = link[d])
    BY <1>1 DEF TypeOK
<1>3. \A e \in Ends : phase'[e] = IF e[1] = c THEN "hello" ELSE phase[e]
    BY <1>1, OpenedPhases
<1>4. GossipDialsOf(n, m) = {} /\ m \in dialing[n]
    BY DEF GossipDial, DialInv, DialedOnce
<1>5. GossipDialsOf(n, m)' \subseteq {c}
    BY <1>2, <1>3, <1>4 DEF GossipDialsOf, Ends
<1>6. \A p, q \in Nodes : ~(p = n /\ q = m) =>
        GossipDialsOf(p, q)' \subseteq GossipDialsOf(p, q)
    BY <1>2, <1>3 DEF GossipDialsOf, Ends
<1>7. dialing' = dialing
      /\ (\A p \in Nodes : dials'[p] = IF p = n THEN dials[n] \ {m} ELSE dials[p])
    BY DEF GossipDial, TypeOK
<1>8. EndedIsMarked'
    BY <1>2, <1>3, FarEnd DEF DialInv, EndedIsMarked, Marked, Inbound
<1>. QED
    BY <1>4, <1>5, <1>6, <1>7, <1>8 DEF DialInv, DialedOnce

(* A dial task that fails takes its mark along.                            *)
LEMMA GossipDialFailsDials ==
    ASSUME TypeOK, Started, DialInv, NEW n \in Nodes, NEW m \in Nodes,
           GossipDialFails(n, m)
    PROVE  DialInv'
<1>1. link' = link /\ phase' = phase
    BY DEF GossipDialFails, netVars
<1>2. \A p, q \in Nodes : GossipDialsOf(p, q)' = GossipDialsOf(p, q)
    BY <1>1 DEF GossipDialsOf
<1>3. \A p \in Nodes :
        /\ dialing'[p] = IF p = n THEN dialing[n] \ {m} ELSE dialing[p]
        /\ dials'[p] = IF p = n THEN dials[n] \ {m} ELSE dials[p]
    BY DEF GossipDialFails, TypeOK
<1>4. GossipDialsOf(n, m) = {}
    BY DEF GossipDialFails, DialInv, DialedOnce
<1>5. EndedIsMarked'
    BY <1>1 DEF DialInv, EndedIsMarked, Marked, Inbound
<1>. QED
    BY <1>2, <1>3, <1>4, <1>5 DEF DialInv, DialedOnce

(* Gossip marks only who is not marked yet.                                *)
LEMMA ReceiveGossipDials ==
    ASSUME TypeOK, Started, DialInv, NEW e \in Ends, ReceiveGossip(e)
    PROVE  DialInv'
<1>1. link' = link /\ phase' = phase
    BY DEF ReceiveGossip
<1>2. \A p, q \in Nodes : GossipDialsOf(p, q)' = GossipDialsOf(p, q)
    BY <1>1 DEF GossipDialsOf
<1>3. PICK new \in SUBSET Nodes :
        /\ new \cap dialing[Me(e)] = {}
        /\ dialing' = [dialing EXCEPT ![Me(e)] = @ \cup new]
        /\ dials' = [dials EXCEPT ![Me(e)] = @ \cup new]
    <2>1. inbox[e] # <<>> /\ inbox[e] \in Seq(Frames) /\ Head(inbox[e]).type = "Peers"
        BY DEF ReceiveGossip, Waiting, TypeOK
    <2>2. Head(inbox[e]).peers \subseteq Nodes
        BY <2>1, TailType DEF Frames, Queued
    <2>3. PICK heard \in SUBSET Head(inbox[e]).peers :
            /\ dialing' = [dialing EXCEPT ![Me(e)] = @ \cup Chosen(Me(e), heard)]
            /\ dials' = [dials EXCEPT ![Me(e)] = @ \cup Chosen(Me(e), heard)]
        BY DEF ReceiveGossip
    <2>4. Chosen(Me(e), heard) \subseteq Nodes
          /\ Chosen(Me(e), heard) \cap dialing[Me(e)] = {}
        BY <2>2 DEF Chosen, Undialed
    <2>. QED
        BY <2>3, <2>4
<1>4. \A p \in Nodes :
        /\ dialing'[p] = IF p = Me(e) THEN dialing[p] \cup new ELSE dialing[p]
        /\ dials'[p] = IF p = Me(e) THEN dials[p] \cup new ELSE dials[p]
    BY <1>3 DEF TypeOK
<1>5. EndedIsMarked'
    BY <1>1 DEF DialInv, EndedIsMarked, Marked, Inbound
<1>6. ASSUME NEW p \in Nodes, NEW q \in Nodes
      PROVE  /\ q \in dials'[p] => GossipDialsOf(p, q) = {}
             /\ q \in dials'[p] \/ GossipDialsOf(p, q) # {} => q \in dialing'[p]
    <2>1. CASE p = Me(e) /\ q \in new
        BY <1>3, <1>4, <2>1 DEF DialInv, DialedOnce
    <2>2. CASE ~(p = Me(e) /\ q \in new)
        <3>1. (q \in dials'[p] <=> q \in dials[p]) /\ (q \in dialing'[p] <=> q \in dialing[p])
            BY <1>4, <2>2
        <3>. QED
            BY <3>1 DEF DialInv, DialedOnce
    <2>. QED
        BY <2>1, <2>2
<1>7. \A p, q \in Nodes : \A c, d \in GossipDialsOf(p, q) : c = d
    BY DEF DialInv, DialedOnce
<1>8. DialedOnce'
    BY <1>2, <1>6, <1>7 DEF DialedOnce
<1>. QED
    BY <1>5, <1>8 DEF DialInv

(* The mark goes with the one dial it was set for.                         *)
LEMMA FinishedDialingDials ==
    ASSUME TypeOK, Started, DialInv, NEW e \in Ends, FinishedDialing(e)
    PROVE  DialInv'
<1>1. link' = link /\ dials' = dials
    BY DEF FinishedDialing
<1>2. Marked(e) /\ link[e[1]] \in Links
    BY StartedEnd DEF FinishedDialing, DialInv, EndedIsMarked
<1>3. e = <<e[1], "out">> /\ e[1] \in Conns
    BY <1>2 DEF Marked, Inbound, Ends
<1>4. PICK n \in Nodes, m \in Nodes : n = Me(e) /\ m = Them(e)
    BY StartedEnd DEF FinishedDialing
<1>5. link[e[1]] = [from |-> n, to |-> m, marked |-> TRUE]
    BY <1>2, <1>4 DEF Marked, Me, Them, Links
<1>6. e[1] \in GossipDialsOf(n, m)
    BY <1>3, <1>5 DEF GossipDialsOf, FinishedDialing
<1>7. \A f \in Ends : phase'[f] = IF f = e THEN "done" ELSE phase[f]
    BY DEF FinishedDialing, TypeOK
<1>8. \A p, q \in Nodes : GossipDialsOf(p, q)' \subseteq GossipDialsOf(p, q) \ {e[1]}
    BY <1>1, <1>3, <1>7 DEF GossipDialsOf, Ends
<1>9. GossipDialsOf(n, m)' = {} /\ m \notin dials[n]
    <2>1. (\A c \in GossipDialsOf(n, m) : c = e[1]) /\ m \notin dials[n]
        BY <1>6 DEF DialInv, DialedOnce
    <2>. QED
        BY <1>8, <2>1
<1>10. \A p \in Nodes : dialing'[p] = IF p = n THEN dialing[p] \ {m} ELSE dialing[p]
    BY <1>4 DEF FinishedDialing, TypeOK
<1>11. EndedIsMarked'
    BY <1>1, <1>7 DEF DialInv, EndedIsMarked, Marked, Inbound
<1>12. ASSUME NEW p \in Nodes, NEW q \in Nodes
       PROVE  /\ \A c, d \in GossipDialsOf(p, q)' : c = d
              /\ q \in dials'[p] => GossipDialsOf(p, q)' = {}
              /\ q \in dials'[p] \/ GossipDialsOf(p, q)' # {} => q \in dialing'[p]
    <2>1. CASE p = n /\ q = m
        BY <1>1, <1>9, <2>1
    <2>2. CASE ~(p = n /\ q = m)
        <3>1. q \in dialing'[p] <=> q \in dialing[p]
            BY <1>10, <2>2
        <3>. QED
            BY <1>1, <1>8, <3>1 DEF DialInv, DialedOnce
    <2>. QED
        BY <2>1, <2>2
<1>13. DialedOnce'
    BY <1>12 DEF DialedOnce
<1>. QED
    BY <1>11, <1>13 DEF DialInv

(* Nothing of the dials and marks of a process survives it, and those of   *)
(* other nodes are not touched.                                            *)
LEMMA RestartDials ==
    ASSUME TypeOK, NEW n \in Nodes, Restart(n)
    PROVE  \A p, q \in Nodes :
              /\ GossipDialsOf(p, q)' = IF p = n THEN {} ELSE GossipDialsOf(p, q)
              /\ dials'[p] = IF p = n THEN {} ELSE dials[p]
              /\ dialing'[p] = IF p = n THEN {} ELSE dialing[p]
<1>1. \A p \in Nodes :
        /\ dials'[p] = IF p = n THEN {} ELSE dials[p]
        /\ dialing'[p] = IF p = n THEN {} ELSE dialing[p]
    BY DEF Restart, TypeOK
<1>2. ASSUME NEW p \in Nodes, NEW q \in Nodes, NEW c \in Conns,
             link[c] = [from |-> p, to |-> q, marked |-> TRUE]
      PROVE  phase'[<<c, "out">>] = IF p = n THEN "done" ELSE phase[<<c, "out">>]
    <2>1. <<c, "out">> \in Ends /\ Me(<<c, "out">>) = p
        BY <1>2 DEF Ends, Me, Inbound
    <2>2. [from |-> p, to |-> q, marked |-> TRUE] \in Links
        BY DEF Links
    <2>3. link[c] # NoLink
        BY <1>2, <2>2, NoneAssumption
    <2>. QED
        BY <2>1, <2>3 DEF Restart, Runs
<1>3. \A p, q \in Nodes : GossipDialsOf(p, q)' = IF p = n THEN {} ELSE GossipDialsOf(p, q)
    <2>1. link' = link
        BY DEF Restart
    <2>. QED
        BY <1>2, <2>1 DEF GossipDialsOf
<1>. QED
    BY <1>1, <1>3

(* Every step keeps them.                                                  *)
LEMMA DialStep ==
    ASSUME IInv, DialInv, [Next]_vars
    PROVE  DialInv'
<1>. USE DEF IInv
<1>1. LinksKept
    BY LinksStep
<1>2. ASSUME link' = link, UNCHANGED dialVars, NEW e \in Ends, NEW q,
             phase' = [phase EXCEPT ![e] = q], phase[e] # "done",
             q = "ended" => Marked(e)
      PROVE  DialInv'
    <2>1. \A f \in Ends : phase'[f] = IF f = e THEN q ELSE phase[f]
        BY <1>2 DEF TypeOK
    <2>. QED
        BY <1>1, <1>2, <2>1, DialsKept
<1>3. ASSUME UNCHANGED <<link, phase, dialVars>>
      PROVE  DialInv'
    BY <1>1, <1>3, DialsKept
<1>4. ASSUME NEW e \in Ends, Finish(e), link' = link, UNCHANGED dialVars, phase[e] # "done"
      PROVE  DialInv'
    BY <1>2, <1>4 DEF Finish
<1>5. ASSUME NEW e \in Ends, Task(e) \/ HandshakeTimeout(e)
      PROVE  DialInv'
    <2>1. CASE ReceiveHello(e) \/ EmitJoined(e) \/ AnnouncePeers(e)
        BY <1>2, <2>1 DEF ReceiveHello, EmitJoined, AnnouncePeers, lockVars
    <2>2. CASE AdmitNew(e) \/ Supersede(e) \/ DisconnectHeld(e)
        BY <1>2, <2>2 DEF AdmitNew, Supersede, Register, ReadsProof, DisconnectHeld
    <2>3. CASE Reject(e) \/ HandshakeFails(e) \/ HandshakeTimeout(e)
        BY <1>4, <2>3 DEF Reject, ReadsProof, HandshakeFails, HandshakeTimeout,
                          Handshaking, lockVars
    <2>4. CASE DisconnectSuperseded(e) \/ EmitLeft(e)
        BY <1>4, <2>4 DEF DisconnectSuperseded, EmitLeft, lockVars
    <2>5. CASE FinishedDialing(e)
        BY <2>5, FinishedDialingDials
    <2>. QED
        BY <1>5, <2>1, <2>2, <2>3, <2>4, <2>5 DEF Task
<1>6. ASSUME NEW e \in Ends, Reads(e) \/ Writes(e)
      PROVE  DialInv'
    <2>1. CASE ReceiveGossip(e)
        BY <2>1, ReceiveGossipDials
    <2>2. CASE ReceiveEof(e) \/ WriteFails(e)
        BY <1>2, <2>2 DEF ReceiveEof, WriteFails, Pumping, lockVars
    <2>3. CASE ReceiveChat(e) \/ WriteFrame(e)
        BY <1>3, <2>3 DEF ReceiveChat, WriteFrame, lockVars
    <2>. QED
        BY <1>6, <2>1, <2>2, <2>3 DEF Reads, Writes
<1>7. CASE Dial
    BY <1>7, ConnectDials, GossipDialDials, GossipDialFailsDials DEF Dial
<1>8. ASSUME NEW n \in Nodes, Restart(n)
      PROVE  DialInv'
    <2>1. DialedOnce'
        BY <1>8, RestartDials DEF DialInv, DialedOnce
    <2>2. EndedIsMarked'
        BY <1>8 DEF Restart, DialInv, EndedIsMarked, Marked, Inbound
    <2>. QED
        BY <2>1, <2>2 DEF DialInv
<1>. QED
    BY <1>3, <1>5, <1>6, <1>7, <1>8 DEF Next, Say, Put, Cut, netVars, lockVars, dialVars, vars

(* The marks, and the tasks that have one to clear, are an invariant.      *)
LEMMA DialInvariance == Spec => []DialInv
<1>1. Init => DialInv
    <2>1. ASSUME Init PROVE DialedOnce
        <3>1. \A n, m \in Nodes : GossipDialsOf(n, m) = {}
            <4>1. \A n, m \in Nodes : [from |-> n, to |-> m, marked |-> TRUE] \in Links
                BY DEF Links
            <4>. QED
                BY <2>1, <4>1, NoneAssumption DEF Init, GossipDialsOf
        <3>. QED
            BY <2>1, <3>1 DEF Init, DialedOnce
    <2>2. Init => EndedIsMarked
        BY DEF Init, EndedIsMarked
    <2>. QED
        BY <2>1, <2>2 DEF DialInv
<1>2. IInv /\ DialInv /\ [Next]_vars => DialInv'
    BY DialStep
<1>. QED
    BY <1>1, <1>2, Invariance, PTL DEF Spec

(* However many gossip frames name a peer, and whatever becomes of the     *)
(* dials, a node never has two gossip dials of one peer going on, and it   *)
(* never forgets that it has one (handle_gossip and finished_dialing).     *)
THEOREM NeverDialedTwice == Spec => []DialedOnce
BY DialInvariance, PTL DEF DialInv

-----------------------------------------------------------------------------
(* Marks that are left behind.                                             *)

(* The dials a mark stands for go on: their tasks may move on, and end     *)
(* with a mark still to clear.                                             *)
LEMMA MarksKept ==
    ASSUME MarksCleared, link' = link, UNCHANGED dialVars,
           \A e \in Ends : phase'[e] = "done" => phase[e] = "done" \/ ~Marked(e)
    PROVE  MarksCleared'
<1>1. ASSUME NEW n \in Nodes, NEW m \in Nodes, NEW c \in GossipDialsOf(n, m)
      PROVE  c \in GossipDialsOf(n, m)'
    <2>1. c \in Conns /\ link[c] = [from |-> n, to |-> m, marked |-> TRUE]
          /\ phase[<<c, "out">>] # "done"
        BY DEF GossipDialsOf
    <2>2. <<c, "out">> \in Ends /\ Marked(<<c, "out">>)
        BY <2>1 DEF Ends, Marked, Inbound
    <2>. QED
        BY <2>1, <2>2 DEF GossipDialsOf
<1>. QED
    BY <1>1 DEF MarksCleared, dialVars

(* A connection that opens is none of those that are there.                *)
LEMMA OpeningKeeps ==
    ASSUME TypeOK, NEW n \in Nodes, NEW m \in Nodes, NEW marked \in BOOLEAN,
           OpenLink(n, m, marked)
    PROVE  /\ \A p, q \in Nodes : GossipDialsOf(p, q) \subseteq GossipDialsOf(p, q)'
           /\ marked => GossipDialsOf(n, m)' # {}
<1>1. PICK c \in Conns :
        /\ link[c] = NoLink
        /\ link' = [link EXCEPT ![c] = [from |-> n, to |-> m, marked |-> marked]]
        /\ phase' = [phase EXCEPT ![<<c, "out">>] = "hello", ![<<c, "in">>] = "hello"]
    BY DEF OpenLink
<1>2. link'[c] = [from |-> n, to |-> m, marked |-> marked]
      /\ (\A d \in Conns \ {c} : link'[d] = link[d])
    BY <1>1 DEF TypeOK
<1>3. \A e \in Ends : phase'[e] = IF e[1] = c THEN "hello" ELSE phase[e]
    BY <1>1, OpenedPhases
<1>4. \A p, q \in Nodes : [from |-> p, to |-> q, marked |-> TRUE] # NoLink
    <2>1. \A p, q \in Nodes : [from |-> p, to |-> q, marked |-> TRUE] \in Links
        BY DEF Links
    <2>. QED
        BY <2>1, NoneAssumption
<1>5. \A d \in Conns : <<d, "out">> \in Ends
    BY DEF Ends
<1>6. ASSUME NEW p \in Nodes, NEW q \in Nodes, NEW d \in GossipDialsOf(p, q)
      PROVE  d \in GossipDialsOf(p, q)'
    <2>1. d \in Conns /\ link[d] = [from |-> p, to |-> q, marked |-> TRUE]
          /\ phase[<<d, "out">>] # "done"
        BY <1>6 DEF GossipDialsOf
    <2>2. d # c
        BY <1>1, <1>4, <2>1
    <2>3. link'[d] = link[d]
        BY <1>2, <2>1, <2>2
    <2>4. phase'[<<d, "out">>] = phase[<<d, "out">>]
        BY <1>3, <1>5, <2>1, <2>2
    <2>. QED
        BY <2>1, <2>3, <2>4 DEF GossipDialsOf
<1>7. marked => c \in GossipDialsOf(n, m)'
    BY <1>2, <1>3, <1>5 DEF GossipDialsOf
<1>. QED
    BY <1>6, <1>7

(* A dial that becomes a connection hands its mark to it, and one that     *)
(* fails takes it along.                                                   *)
LEMMA DialMarks ==
    ASSUME TypeOK, MarksCleared, Dial
    PROVE  MarksCleared'
<1>1. PICK n \in Nodes, m \in Nodes :
        Connect(n, m) \/ GossipDial(n, m) \/ GossipDialFails(n, m)
    BY DEF Dial
<1>2. CASE Connect(n, m)
    <2>1. \A p, q \in Nodes : GossipDialsOf(p, q) \subseteq GossipDialsOf(p, q)'
        BY <1>2, OpeningKeeps DEF Connect
    <2>. QED
        BY <1>2, <2>1 DEF Connect, lockVars, dialVars, MarksCleared
<1>3. CASE GossipDial(n, m)
    <2>1. /\ \A p, q \in Nodes : GossipDialsOf(p, q) \subseteq GossipDialsOf(p, q)'
          /\ GossipDialsOf(n, m)' # {}
        BY <1>3, OpeningKeeps DEF GossipDial
    <2>2. dialing' = dialing
          /\ (\A p \in Nodes : dials'[p] = IF p = n THEN dials[n] \ {m} ELSE dials[p])
        BY <1>3 DEF GossipDial, TypeOK
    <2>. QED
        BY <2>1, <2>2 DEF MarksCleared
<1>4. CASE GossipDialFails(n, m)
    <2>1. \A p, q \in Nodes : GossipDialsOf(p, q)' = GossipDialsOf(p, q)
        BY <1>4 DEF GossipDialFails, netVars, GossipDialsOf
    <2>2. \A p \in Nodes :
            /\ dialing'[p] = IF p = n THEN dialing[n] \ {m} ELSE dialing[p]
            /\ dials'[p] = IF p = n THEN dials[n] \ {m} ELSE dials[p]
        BY <1>4 DEF GossipDialFails, TypeOK
    <2>. QED
        BY <2>1, <2>2 DEF MarksCleared
<1>. QED
    BY <1>1, <1>2, <1>3, <1>4
(* Gossip marks whom it is about to dial.                                  *)
LEMMA GossipMarks ==
    ASSUME TypeOK, MarksCleared, NEW e \in Ends, ReceiveGossip(e)
    PROVE  MarksCleared'
<1>1. \A p, q \in Nodes : GossipDialsOf(p, q)' = GossipDialsOf(p, q)
    BY DEF ReceiveGossip, GossipDialsOf
<1>2. PICK new :
        /\ dialing' = [dialing EXCEPT ![Me(e)] = @ \cup new]
        /\ dials' = [dials EXCEPT ![Me(e)] = @ \cup new]
    BY DEF ReceiveGossip
<1>3. \A p \in Nodes :
        /\ dialing'[p] = IF p = Me(e) THEN dialing[p] \cup new ELSE dialing[p]
        /\ dials'[p] = IF p = Me(e) THEN dials[p] \cup new ELSE dials[p]
    BY <1>2 DEF TypeOK
<1>. QED
    BY <1>1, <1>3 DEF MarksCleared

(* The mark goes, and of the dials only the one it was set for.            *)
LEMMA FinishedDialingMarks ==
    ASSUME TypeOK, Started, DialInv, MarksCleared, NEW e \in Ends, FinishedDialing(e)
    PROVE  MarksCleared'
<1>1. link' = link /\ dials' = dials
    BY DEF FinishedDialing
<1>2. link[e[1]] \in Links /\ Me(e) \in Nodes /\ Them(e) \in Nodes
    BY StartedEnd DEF FinishedDialing
<1>3. Marked(e)
    BY DEF FinishedDialing, DialInv, EndedIsMarked
<1>4. link[e[1]] = [from |-> Me(e), to |-> Them(e), marked |-> TRUE]
    BY <1>2, <1>3 DEF Marked, Me, Them, Links
<1>5. \A f \in Ends : phase'[f] = IF f = e THEN "done" ELSE phase[f]
    BY DEF FinishedDialing, TypeOK
<1>6. \A p \in Nodes :
        dialing'[p] = IF p = Me(e) THEN dialing[p] \ {Them(e)} ELSE dialing[p]
    BY <1>2 DEF FinishedDialing, TypeOK
<1>7. ASSUME NEW p \in Nodes, NEW q \in Nodes, ~(p = Me(e) /\ q = Them(e)),
             NEW c \in GossipDialsOf(p, q)
      PROVE  c \in GossipDialsOf(p, q)'
    <2>1. c \in Conns /\ link[c] = [from |-> p, to |-> q, marked |-> TRUE]
          /\ phase[<<c, "out">>] # "done"
        BY <1>7 DEF GossipDialsOf
    <2>2. c # e[1]
        BY <1>4, <1>7, <2>1
    <2>3. <<c, "out">> \in Ends /\ <<c, "out">> # e
        BY <2>1, <2>2 DEF Ends
    <2>. QED
        BY <1>1, <1>5, <2>1, <2>3 DEF GossipDialsOf
<1>8. ASSUME NEW p \in Nodes, NEW q \in Nodes, q \in dialing'[p]
      PROVE  q \in dials'[p] \/ GossipDialsOf(p, q)' # {}
    <2>1. q \in dialing[p] /\ ~(p = Me(e) /\ q = Them(e))
        BY <1>6, <1>8
    <2>2. q \in dials[p] \/ GossipDialsOf(p, q) # {}
        BY <2>1 DEF MarksCleared
    <2>. QED
        BY <1>1, <1>7, <2>1, <2>2
<1>. QED
    BY <1>8 DEF MarksCleared

(* Every step keeps marks to the dials they were set for.                  *)
LEMMA MarksStep ==
    ASSUME IInv, DialInv, MarksCleared, [Next]_vars
    PROVE  MarksCleared'
<1>. USE DEF IInv
<1>1. ASSUME link' = link, UNCHANGED dialVars, NEW e \in Ends, NEW q,
             phase' = [phase EXCEPT ![e] = q], q = "done" => ~Marked(e)
      PROVE  MarksCleared'
    <2>1. \A f \in Ends : phase'[f] = IF f = e THEN q ELSE phase[f]
        BY <1>1 DEF TypeOK
    <2>. QED
        BY <1>1, <2>1, MarksKept
<1>2. ASSUME UNCHANGED <<link, phase, dialVars>>
      PROVE  MarksCleared'
    BY <1>2, MarksKept
<1>3. ASSUME NEW e \in Ends, Finish(e), link' = link, UNCHANGED dialVars
      PROVE  MarksCleared'
    BY <1>1, <1>3 DEF Finish
<1>4. ASSUME NEW e \in Ends, Task(e) \/ HandshakeTimeout(e)
      PROVE  MarksCleared'
    <2>1. CASE ReceiveHello(e) \/ EmitJoined(e) \/ AnnouncePeers(e)
        BY <1>1, <2>1 DEF ReceiveHello, EmitJoined, AnnouncePeers, lockVars
    <2>2. CASE AdmitNew(e) \/ Supersede(e) \/ DisconnectHeld(e)
        BY <1>1, <2>2 DEF AdmitNew, Supersede, Register, ReadsProof, DisconnectHeld
    <2>3. CASE Reject(e) \/ HandshakeFails(e) \/ HandshakeTimeout(e)
        BY <1>3, <2>3 DEF Reject, HandshakeFails, HandshakeTimeout, lockVars
    <2>4. CASE DisconnectSuperseded(e) \/ EmitLeft(e)
        BY <1>3, <2>4 DEF DisconnectSuperseded, EmitLeft, lockVars
    <2>5. CASE FinishedDialing(e)
        BY <2>5, FinishedDialingMarks
    <2>. QED
        BY <1>4, <2>1, <2>2, <2>3, <2>4, <2>5 DEF Task
<1>5. ASSUME NEW e \in Ends, Reads(e) \/ Writes(e)
      PROVE  MarksCleared'
    <2>1. CASE ReceiveGossip(e)
        BY <2>1, GossipMarks
    <2>2. CASE ReceiveEof(e) \/ WriteFails(e)
        BY <1>1, <2>2 DEF ReceiveEof, WriteFails, lockVars
    <2>3. CASE ReceiveChat(e) \/ WriteFrame(e)
        BY <1>2, <2>3 DEF ReceiveChat, WriteFrame, lockVars
    <2>. QED
        BY <1>5, <2>1, <2>2, <2>3 DEF Reads, Writes
<1>6. CASE Dial
    BY <1>6, DialMarks
<1>7. ASSUME NEW n \in Nodes, Restart(n)
      PROVE  MarksCleared'
    BY <1>7, RestartDials DEF MarksCleared
<1>. QED
    BY <1>2, <1>4, <1>5, <1>6, <1>7 DEF Next, Say, Put, Cut, netVars, lockVars, dialVars, vars

(* Whatever becomes of a dial, its mark goes when it does, so the peer can *)
(* be dialled again (finished_dialing, node.rs:568-577).                   *)
THEOREM NoMarkLeftBehind == Spec => []MarksCleared
<1>1. Init => MarksCleared
    BY DEF Init, MarksCleared
<1>2. IInv /\ DialInv /\ MarksCleared /\ [Next]_vars => MarksCleared'
    BY MarksStep
<1>. QED
    BY <1>1, <1>2, Invariance, DialInvariance, PTL DEF Spec

-----------------------------------------------------------------------------
(* The order of frames.                                                    *)

(* Where in what it still has to read an end in phase p finds the proof.   *)
Due(p) == CASE p = "hello" -> 2 [] p = "auth" -> 1 [] p \notin Handshaking -> 0

(* What an end in phase p has to read: a Hello before the proof, a proof   *)
(* in its place, and everything else after it or the end of the stream.    *)
Ordered(p, s) ==
    \A i \in DOMAIN s :
        /\ s[i].type = "Hello" => p = "hello" /\ i = 1
        /\ s[i].type = "Auth" => i = Due(p)
        /\ s[i].type \in {"Peers", "Chat"} => i > Due(p)

(* How much of it there is, as long as nothing ended the connection: the   *)
(* proof is missing until the far end, in phase q, has left "hello".       *)
Counted(p, q, s) ==
    IF q = "hello" THEN Len(s) + 1 = Due(p) ELSE Len(s) >= Due(p)

Linked(e) == Open(e) /\ Open(Far(e)) /\ e[1] \notin cut

FrameInv ==
    \A e \in Ends :
        /\ Ordered(phase[e], inbox[e])
        /\ Linked(e) => Counted(phase[e], phase[Far(e)], inbox[e])

(* Far ends come in pairs, and so do linked ends.                          *)
LEMMA FarFar ==
    ASSUME NEW e \in Ends
    PROVE  /\ Far(Far(e)) = e
           /\ \A g \in Ends : g[1] = e[1] => g = e \/ g = Far(e)
           /\ Linked(Far(e)) = Linked(e)
<1>1. Far(Far(e)) = e /\ Far(e)[1] = e[1]
    BY DEF Ends, Far, Inbound
<1>2. \A g \in Ends : g[1] = e[1] => g = e \/ g = Far(e)
    BY DEF Ends, Far, Inbound
<1>3. Linked(Far(e)) = Linked(e)
    BY <1>1 DEF Linked
<1>. QED
    BY <1>1, <1>2, <1>3

(* One more frame, in its turn.                                            *)
LEMMA OrderedAppend ==
    ASSUME NEW p, NEW s \in Seq(Frames), NEW f \in Frames, Ordered(p, s),
           f.type # "Hello",
           f.type = "Auth" => Len(s) + 1 = Due(p),
           f.type \in {"Peers", "Chat"} => Len(s) >= Due(p)
    PROVE  Ordered(p, Append(s, f))
<1>1. Due(p) \in 0 .. 2
    BY DEF Due, Handshaking
<1>2. ASSUME NEW i \in DOMAIN Append(s, f)
      PROVE  (i \in DOMAIN s /\ Append(s, f)[i] = s[i]) \/ (i = Len(s) + 1 /\ Append(s, f)[i] = f)
    BY <1>2, AppendProperties
<1>. QED
    BY <1>1, <1>2 DEF Ordered

(* The first frame is read, and its reader moves on to phase q.            *)
LEMMA OrderedTail ==
    ASSUME NEW p, NEW q, NEW s \in Seq(Frames), s # <<>>, Ordered(p, s),
           q # "hello", Due(p) = Due(q) + 1 \/ (Due(p) = 0 /\ Due(q) = 0)
    PROVE  Ordered(q, Tail(s)) /\ Len(Tail(s)) = Len(s) - 1 /\ Len(s) \in Nat \ {0}
<1>1. Due(q) \in 0 .. 2
    BY DEF Due, Handshaking
<1>2. Tail(s) \in Seq(Frames) /\ Len(Tail(s)) = Len(s) - 1 /\ Len(s) \in Nat \ {0}
    BY HeadTailProperties, EmptySeq
<1>3. \A i \in DOMAIN Tail(s) : i \in Nat \ {0} /\ i + 1 \in DOMAIN s /\ Tail(s)[i] = s[i + 1]
    BY HeadTailProperties
<1>. QED
    BY <1>1, <1>2, <1>3 DEF Ordered

(* A step that writes and reads nothing, in which no end leaves or enters  *)
(* the handshake and none comes to life.                                   *)
LEMMA FramesKept ==
    ASSUME FrameInv, UNCHANGED <<inbox, cut>>,
           \A e \in Ends : \/ phase'[e] = phase[e]
                           \/ /\ phase[e] \notin Handshaking /\ phase'[e] \notin Handshaking
                              /\ Open(e)' => Open(e)
    PROVE  FrameInv'
<1>. SUFFICES ASSUME NEW e \in Ends
              PROVE  /\ Ordered(phase'[e], inbox[e])
                     /\ Linked(e)' => Counted(phase'[e], phase'[Far(e)], inbox[e])
    BY DEF FrameInv
<1>1. Far(e) \in Ends
    BY FarEnd
<1>2. \A g \in Ends : /\ Due(phase'[g]) = Due(phase[g])
                      /\ phase'[g] = "hello" <=> phase[g] = "hello"
                      /\ Open(g)' => Open(g)
    BY DEF Due, Handshaking, Open
<1>3. Ordered(phase'[e], inbox[e])
    BY <1>2 DEF FrameInv, Ordered
<1>4. Linked(e)' => Linked(e)
    BY <1>1, <1>2 DEF Linked, Far, Inbound
<1>. QED
    BY <1>1, <1>2, <1>3, <1>4 DEF FrameInv, Counted

(* A task ends, and its far end is sent the end of the stream.             *)
LEMMA FinishFrames ==
    ASSUME TypeOK, FrameInv, NEW e \in Ends, Finish(e), cut' = cut
    PROVE  FrameInv'
<1>. SUFFICES ASSUME NEW g \in Ends
              PROVE  /\ Ordered(phase'[g], inbox'[g])
                     /\ Linked(g)' => Counted(phase'[g], phase'[Far(g)], inbox'[g])
    BY DEF FrameInv
<1>1. Eof \in Frames /\ Eof.type = "Eof"
    BY FrameTypes DEF Eof
<1>2. \A h \in Ends : inbox'[h] = IF h = e THEN <<>> ELSE Sent(e, Eof)[h]
    BY <1>1, SentType DEF Finish
<1>3. \A h \in Ends : h # e => phase'[h] = phase[h]
    BY DEF Finish, TypeOK
<1>4. ~Open(e)'
    BY DEF Finish, Open, Handshaking, Admitted, TypeOK
<1>5. CASE g = e
    BY <1>2, <1>4, <1>5 DEF Linked, Ordered
<1>6. CASE g = Far(e)
    <2>1. ~Linked(g)'
        BY <1>4, <1>6, FarFar DEF Linked, Far, Inbound
    <2>2. g # e /\ inbox'[g] \in {inbox[g], Append(inbox[g], Eof)}
        BY <1>2, <1>6, FarEnd DEF Sent, TypeOK
    <2>3. Ordered(phase[g], inbox[g]) /\ inbox[g] \in Seq(Frames)
        BY DEF FrameInv, TypeOK
    <2>4. Ordered(phase[g], inbox'[g])
        BY <1>1, <2>2, <2>3, OrderedAppend
    <2>. QED
        BY <1>3, <2>1, <2>2, <2>4
<1>7. CASE g # e /\ g # Far(e)
    <2>1. inbox'[g] = inbox[g]
        BY <1>2, <1>7 DEF Sent, TypeOK
    <2>2. Far(g) # e /\ Far(g) \in Ends
        BY <1>7, FarFar, FarEnd
    <2>3. phase'[g] = phase[g] /\ phase'[Far(g)] = phase[Far(g)]
        BY <1>3, <1>7, <2>2
    <2>4. Linked(g)' = Linked(g)
        BY <2>3 DEF Linked, Open, Far, Inbound
    <2>. QED
        BY <2>1, <2>3, <2>4 DEF FrameInv
<1>. QED
    BY <1>5, <1>6, <1>7

(* The Hello is read and answered with the proof.                          *)
LEMMA HelloFrames ==
    ASSUME TypeOK, Started, FrameInv, NEW e \in Ends, ReceiveHello(e)
    PROVE  FrameInv'
<1>. DEFINE f == Auth(Room[Me(e)])
<1>. SUFFICES ASSUME NEW g \in Ends
              PROVE  /\ Ordered(phase'[g], inbox'[g])
                     /\ Linked(g)' => Counted(phase'[g], phase'[Far(g)], inbox'[g])
    BY DEF FrameInv
<1>1. f \in Frames /\ f.type = "Auth"
    BY StartedEnd, FrameTypes DEF ReceiveHello, Auth
<1>2. Far(e) # e /\ Far(e) \in Ends /\ Far(Far(e)) = e
    BY FarEnd, FarFar
<1>3. \A h \in Ends : phase'[h] = IF h = e THEN "auth" ELSE phase[h]
    BY DEF ReceiveHello, TypeOK
<1>4. phase[e] = "hello" /\ Open(e) /\ Open(e)' /\ cut' = cut
    BY <1>3 DEF ReceiveHello, Open, Handshaking
<1>5. Linked(g)' = Linked(g)
    <2>1. \A h \in Ends : Open(h)' = Open(h)
        BY <1>3, <1>4 DEF Open
    <2>2. Far(g) \in Ends
        BY FarEnd
    <2>. QED
        BY <1>4, <2>1, <2>2 DEF Linked, Far, Inbound
<1>6. \A h \in Ends : inbox'[h] = IF h = e THEN Tail(inbox[e]) ELSE Sent(e, f)[h]
    BY <1>1, <1>2, SentType DEF ReceiveHello, Sent, TypeOK
<1>7. inbox[g] \in Seq(Frames) /\ Ordered(phase[g], inbox[g])
      /\ (Linked(g) => Counted(phase[g], phase[Far(g)], inbox[g]))
    BY DEF FrameInv, TypeOK
<1>8. CASE g = e
    <2>1. inbox[e] # <<>>
        BY DEF ReceiveHello, Waiting
    <2>2. Due("hello") = Due("auth") + 1 /\ Due("auth") = 1
        BY DEF Due, Handshaking
    <2>3. /\ Ordered(phase'[e], Tail(inbox[e]))
          /\ Len(Tail(inbox[e])) = Len(inbox[e]) - 1
          /\ Len(inbox[e]) \in Nat \ {0}
        <3>1. phase'[e] # "hello" /\ Due(phase[e]) = Due(phase'[e]) + 1
            BY <1>3, <1>4, <2>2
        <3>. QED
            BY <1>7, <1>8, <2>1, <3>1, OrderedTail
    <2>4. phase'[Far(e)] = phase[Far(e)]
        BY <1>2, <1>3
    <2>5. Linked(e) => Counted("auth", phase[Far(e)], Tail(inbox[e]))
        BY <1>4, <1>7, <1>8, <2>2, <2>3 DEF Counted
    <2>. QED
        BY <1>3, <1>5, <1>6, <1>8, <2>3, <2>4, <2>5
<1>9. CASE g = Far(e) /\ Reaches(e)
    <2>1. Linked(g)
        BY <1>2, <1>4, <1>9, FarEnd DEF Linked, Reaches
    <2>2. Len(inbox[g]) + 1 = Due(phase[g]) /\ Len(inbox[g]) \in Nat
        BY <1>2, <1>4, <1>7, <1>9, <2>1 DEF Counted
    <2>3. inbox'[g] = Append(inbox[g], f)
        BY <1>2, <1>6, <1>9 DEF Sent, TypeOK
    <2>4. Len(inbox'[g]) = Len(inbox[g]) + 1
        BY <1>1, <1>7, <2>3
    <2>5. Ordered(phase[g], inbox'[g])
        BY <1>1, <1>7, <2>2, <2>3, OrderedAppend
    <2>6. phase'[g] = phase[g] /\ phase'[Far(g)] = "auth"
        BY <1>2, <1>3, <1>9
    <2>7. Counted(phase[g], "auth", inbox'[g])
        BY <2>2, <2>4 DEF Counted
    <2>. QED
        BY <2>5, <2>6, <2>7
<1>10. CASE g # e /\ ~(g = Far(e) /\ Reaches(e))
    <2>1. inbox'[g] = inbox[g] /\ phase'[g] = phase[g]
        BY <1>3, <1>6, <1>10 DEF Sent, TypeOK
    <2>2. Linked(g) => Far(g) # e
        BY <1>2, <1>10, FarFar, FarEnd DEF Linked, Reaches
    <2>3. Linked(g) => phase'[Far(g)] = phase[Far(g)]
        BY <1>3, <2>2, FarEnd
    <2>. QED
        BY <1>5, <1>7, <2>1, <2>3
<1>. QED
    BY <1>2, <1>8, <1>9, <1>10

(* A frame is read in its turn: by a pump, or the proof by whoever waits   *)
(* for it.                                                                 *)
LEMMA ReadFrames ==
    ASSUME TypeOK, FrameInv, NEW e \in Ends, NEW q \in Admitted,
           inbox[e] # <<>>, inbox' = [inbox EXCEPT ![e] = Tail(@)],
           phase' = [phase EXCEPT ![e] = q], cut' = cut,
           phase[e] = "auth" \/ phase[e] \in Admitted
    PROVE  FrameInv'
<1>. SUFFICES ASSUME NEW g \in Ends
              PROVE  /\ Ordered(phase'[g], inbox'[g])
                     /\ Linked(g)' => Counted(phase'[g], phase'[Far(g)], inbox'[g])
    BY DEF FrameInv
<1>1. \A h \in Ends : /\ phase'[h] = IF h = e THEN q ELSE phase[h]
                      /\ inbox'[h] = IF h = e THEN Tail(inbox[e]) ELSE inbox[h]
    BY DEF TypeOK
<1>2. Far(g) \in Ends /\ Far(e) \in Ends /\ Far(e) # e
    BY FarEnd
<1>3. \A h \in Ends : Open(h)' = Open(h)
    BY <1>1 DEF Open, Handshaking, Admitted
<1>4. Linked(g)' = Linked(g)
    BY <1>2, <1>3 DEF Linked, Far, Inbound
<1>5. q # "hello" /\ phase[e] # "hello" /\ Due(q) = 0
      /\ (Due(phase[e]) = 1 \/ Due(phase[e]) = 0)
    BY DEF Due, Handshaking, Admitted
<1>6. inbox[g] \in Seq(Frames) /\ Ordered(phase[g], inbox[g])
      /\ (Linked(g) => Counted(phase[g], phase[Far(g)], inbox[g]))
    BY DEF FrameInv, TypeOK
<1>7. CASE g = e
    <2>1. /\ Ordered(q, Tail(inbox[e]))
          /\ Len(Tail(inbox[e])) = Len(inbox[e]) - 1
          /\ Len(inbox[e]) \in Nat \ {0}
        BY <1>5, <1>6, <1>7, OrderedTail
    <2>2. phase'[Far(e)] = phase[Far(e)]
        BY <1>1, <1>2
    <2>3. Linked(e) => Counted(q, phase[Far(e)], Tail(inbox[e]))
        BY <1>5, <1>6, <1>7, <2>1 DEF Counted
    <2>. QED
        BY <1>1, <1>4, <1>7, <2>1, <2>2, <2>3
<1>8. CASE g # e
    <2>1. phase'[Far(g)] = "hello" <=> phase[Far(g)] = "hello"
        BY <1>1, <1>2, <1>5
    <2>. QED
        BY <1>1, <1>4, <1>6, <1>8, <2>1 DEF Counted
<1>. QED
    BY <1>7, <1>8

(* A pump writes behind the proof.                                         *)
LEMMA WriteFrames ==
    ASSUME TypeOK, FrameInv, NEW e \in Ends, WriteFrame(e)
    PROVE  FrameInv'
<1>. DEFINE f == Head(queue[e])
<1>. SUFFICES ASSUME NEW g \in Ends
              PROVE  /\ Ordered(phase'[g], inbox'[g])
                     /\ Linked(g)' => Counted(phase'[g], phase'[Far(g)], inbox'[g])
    BY DEF FrameInv
<1>. phase' = phase /\ Linked(g)' = Linked(g)
    BY DEF WriteFrame, Linked, Open, Far, Inbound
<1>1. f \in Frames /\ f.type \in {"Peers", "Chat"}
    BY TailType, FrameTypes DEF WriteFrame, TypeOK, Queued
<1>2. inbox' = Sent(e, f) /\ phase[e] = "pump"
    BY DEF WriteFrame, Pumping
<1>3. inbox[g] \in Seq(Frames) /\ Ordered(phase[g], inbox[g])
      /\ (Linked(g) => Counted(phase[g], phase[Far(g)], inbox[g]))
    BY DEF FrameInv, TypeOK
<1>4. CASE g = Far(e) /\ Reaches(e)
    <2>1. Linked(g) /\ Far(g) = e
        BY <1>2, <1>4, FarEnd, FarFar DEF Linked, Reaches, Open, Admitted
    <2>2. Len(inbox[g]) >= Due(phase[g]) /\ Len(inbox[g]) \in Nat
        BY <1>2, <1>3, <2>1 DEF Counted
    <2>3. inbox'[g] = Append(inbox[g], f)
        BY <1>2, <1>4 DEF Sent, TypeOK
    <2>4. Ordered(phase[g], inbox'[g])
        BY <1>1, <1>3, <2>2, <2>3, OrderedAppend
    <2>5. Len(inbox'[g]) >= Due(phase[g])
        <3>1. Len(inbox'[g]) = Len(inbox[g]) + 1
            BY <1>1, <1>3, <2>3
        <3>2. Due(phase[g]) \in Nat
            BY DEF Due, Handshaking
        <3>. QED
            BY <2>2, <3>1, <3>2
    <2>. QED
        BY <1>2, <2>1, <2>4, <2>5 DEF Counted
<1>5. CASE ~(g = Far(e) /\ Reaches(e))
    BY <1>2, <1>3, <1>5 DEF Sent, TypeOK
<1>. QED
    BY <1>4, <1>5

(* A connection opens: each end has one Hello to read, and no proof yet.   *)
LEMMA OpenFrames ==
    ASSUME TypeOK, FrameInv, NEW n \in Nodes, NEW m \in Nodes, NEW marked \in BOOLEAN,
           OpenLink(n, m, marked), cut' = cut
    PROVE  FrameInv'
<1>1. PICK c \in Conns :
        /\ phase' = [phase EXCEPT ![<<c, "out">>] = "hello", ![<<c, "in">>] = "hello"]
        /\ inbox' = [inbox EXCEPT ![<<c, "out">>] = <<Hello(m)>>,
                                  ![<<c, "in">>] = <<Hello(n)>>]
    BY DEF OpenLink
<1>. SUFFICES ASSUME NEW g \in Ends
              PROVE  /\ Ordered(phase'[g], inbox'[g])
                     /\ Linked(g)' => Counted(phase'[g], phase'[Far(g)], inbox'[g])
    BY DEF FrameInv
<1>2. Far(g) \in Ends /\ Far(g)[1] = g[1]
    BY FarEnd
<1>3. \A h \in Ends : phase'[h] = IF h[1] = c THEN "hello" ELSE phase[h]
    BY <1>1, OpenedPhases
<1>4. CASE g[1] = c
    <2>0. g = <<c, "out">> \/ g = <<c, "in">>
        BY <1>4 DEF Ends
    <2>1. inbox'[g] = <<Hello(m)>> \/ inbox'[g] = <<Hello(n)>>
        BY <1>1, <2>0 DEF TypeOK
    <2>2. phase'[g] = "hello" /\ phase'[Far(g)] = "hello"
        BY <1>2, <1>3, <1>4
    <2>3. Len(inbox'[g]) = 1 /\ inbox'[g][1].type = "Hello" /\ DOMAIN inbox'[g] = {1}
        BY <2>1 DEF Hello
    <2>. QED
        BY <2>2, <2>3 DEF Ordered, Counted, Due, Handshaking
<1>5. CASE g[1] # c
    <2>1. inbox'[g] = inbox[g]
        BY <1>1, <1>5 DEF TypeOK
    <2>2. phase'[g] = phase[g] /\ phase'[Far(g)] = phase[Far(g)]
        BY <1>2, <1>3, <1>5
    <2>3. Linked(g)' = Linked(g)
        BY <2>2 DEF Linked, Open, Far, Inbound
    <2>. QED
        BY <2>1, <2>2, <2>3 DEF FrameInv
<1>. QED
    BY <1>4, <1>5

(* What is in flight on a connection that is cut is lost.                  *)
LEMMA CutFrames ==
    ASSUME TypeOK, FrameInv, NEW c \in Conns, Cut(c)
    PROVE  FrameInv'
<1>. SUFFICES ASSUME NEW g \in Ends
              PROVE  /\ Ordered(phase'[g], inbox'[g])
                     /\ Linked(g)' => Counted(phase'[g], phase'[Far(g)], inbox'[g])
    BY DEF FrameInv
<1>. phase' = phase
    BY DEF Cut
<1>1. CASE g[1] = c
    <2>1. ~Linked(g)'
        BY <1>1 DEF Cut, Linked
    <2>0. g = <<c, "out">> \/ g = <<c, "in">>
        BY <1>1 DEF Ends
    <2>2. inbox'[g] = <<Eof>>
        BY <2>0 DEF Cut, TypeOK
    <2>3. \A i \in DOMAIN inbox'[g] : inbox'[g][i].type = "Eof"
        BY <2>2 DEF Eof
    <2>. QED
        BY <2>1, <2>3 DEF Ordered
<1>2. CASE g[1] # c
    <2>1. inbox'[g] = inbox[g]
        BY <1>2 DEF Cut, TypeOK
    <2>2. Linked(g)' => Linked(g)
        BY DEF Cut, Linked, Open, Far, Inbound
    <2>. QED
        BY <2>1, <2>2 DEF FrameInv
<1>. QED
    BY <1>1, <1>2

(* A process that ends closes its connections.                             *)
LEMMA RestartFrames ==
    ASSUME TypeOK, FrameInv, NEW n \in Nodes, Restart(n)
    PROVE  FrameInv'
<1>. SUFFICES ASSUME NEW g \in Ends
              PROVE  /\ Ordered(phase'[g], inbox'[g])
                     /\ Linked(g)' => Counted(phase'[g], phase'[Far(g)], inbox'[g])
    BY DEF FrameInv
<1>1. Far(g) \in Ends
    BY FarEnd
<1>2. \A h \in Ends : phase'[h] = IF Runs(n, h) THEN "done" ELSE phase[h]
    BY DEF Restart
<1>3. \A h \in Ends : Runs(n, h) => ~Open(h)'
    BY <1>2 DEF Open, Handshaking, Admitted
<1>4. CASE Runs(n, g)
    <2>1. inbox'[g] = <<>> /\ ~Linked(g)'
        BY <1>3, <1>4 DEF Restart, Linked
    <2>. QED
        BY <2>1 DEF Ordered
<1>5. CASE ~Runs(n, g) /\ Runs(n, Far(g))
    <2>1. ~Linked(g)'
        BY <1>1, <1>3, <1>5 DEF Linked, Far, Inbound
    <2>2. Eof \in Frames /\ Eof.type = "Eof"
        BY FrameTypes DEF Eof
    <2>3. inbox'[g] \in {inbox[g], Append(inbox[g], Eof)}
        BY <1>1, <1>5, FarFar DEF Restart, Sent, TypeOK
    <2>4. Ordered(phase[g], inbox[g]) /\ inbox[g] \in Seq(Frames)
        BY DEF FrameInv, TypeOK
    <2>5. Ordered(phase[g], inbox'[g])
        BY <2>2, <2>3, <2>4, OrderedAppend
    <2>. QED
        BY <1>2, <1>5, <2>1, <2>5
<1>6. CASE ~Runs(n, g) /\ ~Runs(n, Far(g))
    <2>1. inbox'[g] = inbox[g]
        BY <1>6 DEF Restart
    <2>2. phase'[g] = phase[g] /\ phase'[Far(g)] = phase[Far(g)] /\ cut' = cut
        BY <1>1, <1>2, <1>6 DEF Restart
    <2>3. Linked(g)' = Linked(g)
        BY <2>2 DEF Linked, Open, Far, Inbound
    <2>. QED
        BY <2>1, <2>2, <2>3 DEF FrameInv
<1>. QED
    BY <1>4, <1>5, <1>6

(* Every step keeps the frames in order.                                   *)
LEMMA FrameStep ==
    ASSUME IInv, FrameInv, [Next]_vars
    PROVE  FrameInv'
<1>. USE DEF IInv
<1>1. ASSUME UNCHANGED <<phase, inbox, cut>>
      PROVE  FrameInv'
    BY <1>1, FramesKept
<1>2. ASSUME NEW e \in Ends, NEW q, phase' = [phase EXCEPT ![e] = q], UNCHANGED <<inbox, cut>>,
             phase[e] \notin Handshaking, q \notin Handshaking,
             Open(e) \/ q = "done"
      PROVE  FrameInv'
    <2>1. \A g \in Ends : phase'[g] = IF g = e THEN q ELSE phase[g]
        BY <1>2 DEF TypeOK
    <2>2. Open(e)' => Open(e)
        BY <1>2, <2>1 DEF Open, Handshaking, Admitted
    <2>. QED
        BY <1>2, <2>1, <2>2, FramesKept
<1>3. ASSUME NEW e \in Ends, Task(e) \/ HandshakeTimeout(e)
      PROVE  FrameInv'
    <2>1. CASE ReceiveHello(e)
        BY <2>1, HelloFrames
    <2>2. CASE AdmitNew(e) \/ Supersede(e)
        BY <2>2, ReadFrames DEF AdmitNew, Supersede, ReadsProof, Waiting, Register, Admitted
    <2>3. CASE Reject(e) \/ HandshakeFails(e) \/ HandshakeTimeout(e)
        BY <2>3, FinishFrames DEF Reject, HandshakeFails, HandshakeTimeout
    <2>4. CASE DisconnectSuperseded(e) \/ EmitLeft(e)
        BY <2>4, FinishFrames DEF DisconnectSuperseded, EmitLeft
    <2>5. CASE EmitJoined(e) \/ AnnouncePeers(e) \/ DisconnectHeld(e)
        BY <1>2, <2>5 DEF EmitJoined, AnnouncePeers, DisconnectHeld, Handshaking, Open, Admitted
    <2>6. CASE FinishedDialing(e)
        BY <1>2, <2>6 DEF FinishedDialing, Handshaking
    <2>. QED
        BY <1>3, <2>1, <2>2, <2>3, <2>4, <2>5, <2>6 DEF Task
<1>4. ASSUME NEW e \in Ends, Reads(e) \/ Writes(e)
      PROVE  FrameInv'
    <2>1. CASE ReceiveGossip(e) \/ ReceiveChat(e)
        <3>1. phase' = [phase EXCEPT ![e] = "pump"]
            BY <2>1 DEF ReceiveGossip, ReceiveChat, Pumping, TypeOK
        <3>. QED
            BY <2>1, <3>1, ReadFrames DEF ReceiveGossip, ReceiveChat, Pumping, Waiting, Admitted
    <2>2. CASE ReceiveEof(e) \/ WriteFails(e)
        BY <1>2, <2>2 DEF ReceiveEof, WriteFails, Pumping, Handshaking, Open, Admitted
    <2>3. CASE WriteFrame(e)
        BY <2>3, WriteFrames
    <2>. QED
        BY <1>4, <2>1, <2>2, <2>3 DEF Reads, Writes
<1>5. CASE Dial
    <2>1. ASSUME NEW n \in Nodes, NEW m \in Nodes, Connect(n, m)
          PROVE  FrameInv'
        BY <2>1, OpenFrames DEF Connect
    <2>2. ASSUME NEW n \in Nodes, NEW m \in Nodes, GossipDial(n, m)
          PROVE  FrameInv'
        BY <2>2, OpenFrames DEF GossipDial
    <2>3. ASSUME NEW n \in Nodes, NEW m \in Nodes, GossipDialFails(n, m)
          PROVE  FrameInv'
        BY <1>1, <2>3 DEF GossipDialFails, netVars
    <2>. QED
        BY <1>5, <2>1, <2>2, <2>3 DEF Dial
<1>. QED
    BY <1>1, <1>3, <1>4, <1>5, CutFrames, RestartFrames DEF Next, Say, Put, netVars, vars

(* Whatever a registered peer is sent, and however early, it finds our     *)
(* proof first: no handshake meets a frame it does not expect, and no pump *)
(* one of the handshake (run_connection and handshake, node.rs).           *)
THEOREM HandshakesUndisturbed == Spec => []FramesInOrder
<1>1. Init => FrameInv
    BY DEF Init, FrameInv, Ordered, Linked, Open, Handshaking, Admitted
<1>2. IInv /\ FrameInv /\ [Next]_vars => FrameInv'
    BY FrameStep
<1>3. TypeOK /\ FrameInv => FramesInOrder
    <2>. SUFFICES ASSUME TypeOK, FrameInv, NEW e \in Ends, inbox[e] # <<>>
                  PROVE  /\ phase[e] = "hello" => Head(inbox[e]).type \in {"Hello", "Eof"}
                         /\ phase[e] = "auth" => Head(inbox[e]).type \in {"Auth", "Eof"}
                         /\ phase[e] = "pump" => Head(inbox[e]).type \in {"Peers", "Chat", "Eof"}
        BY DEF FramesInOrder
    <2>1. inbox[e] \in Seq(Frames) /\ 1 \in DOMAIN inbox[e] /\ Head(inbox[e]) = inbox[e][1]
        BY DEF TypeOK
    <2>2. inbox[e][1].type \in {"Hello", "Auth", "Peers", "Chat", "Eof"}
        BY <2>1 DEF Frames, Queued
    <2>3. Ordered(phase[e], inbox[e])
        BY DEF FrameInv
    <2>. QED
        BY <2>1, <2>2, <2>3 DEF Ordered, Due, Handshaking
<1>. QED
    BY <1>1, <1>2, <1>3, Invariance, PTL DEF Spec, IInv

-----------------------------------------------------------------------------
(* The end of the stream.                                                  *)

HasEof(e) == \E i \in DOMAIN inbox[e] : inbox[e][i].type = "Eof"

(* Whoever holds a socket whose other end is gone, or that the network     *)
(* has cut, has the end of the stream still to read, and only connections  *)
(* that were opened are cut.                                               *)
EndsTold ==
    /\ \A e \in Ends : Open(e) /\ ~Reaches(e) => HasEof(e)
    /\ \A c \in cut : link[c] # NoLink

(* No task starts or ends, and no end of a stream is read.                 *)
LEMMA ToldKept ==
    ASSUME EndsTold, LinksKept, TypeOK, cut' = cut,
           \A e \in Ends : Open(e)' = Open(e),
           \A e \in Ends : HasEof(e) => HasEof(e)'
    PROVE  EndsTold'
<1>1. ASSUME NEW e \in Ends, Open(e)', ~Reaches(e)'
      PROVE  HasEof(e)'
    <2>1. Far(e) \in Ends /\ Far(e)' = Far(e)
        BY FarEnd DEF Far, Inbound
    <2>2. Open(e) /\ ~Reaches(e)
        BY <1>1, <2>1 DEF Reaches
    <2>. QED
        BY <2>2 DEF EndsTold
<1>2. \A c \in cut' : link'[c] # NoLink
    BY DEF EndsTold, LinksKept, TypeOK
<1>. QED
    BY <1>1, <1>2 DEF EndsTold

(* A frame that is read takes no end of the stream with it, ...            *)
LEMMA EofTail ==
    ASSUME NEW s \in Seq(Frames), s # <<>>, Head(s).type # "Eof",
           NEW i \in DOMAIN s, s[i].type = "Eof"
    PROVE  \E j \in DOMAIN Tail(s) : Tail(s)[j].type = "Eof"
<1>1. DOMAIN s = 1 .. Len(s) /\ Head(s) = s[1] /\ Len(s) \in Nat
    OBVIOUS
<1>2. i # 1 /\ i - 1 \in 1 .. Len(s) - 1
    BY <1>1
<1>3. DOMAIN Tail(s) = 1 .. Len(s) - 1 /\ Tail(s)[i - 1] = s[i]
    BY <1>1, <1>2, HeadTailProperties
<1>. QED
    BY <1>2, <1>3

(* ... nor does one that is sent.                                          *)
LEMMA EofSent ==
    ASSUME TypeOK, NEW e \in Ends, NEW f \in Frames, NEW g \in Ends
    PROVE  /\ HasEof(g) => \E i \in DOMAIN Sent(e, f)[g] : Sent(e, f)[g][i].type = "Eof"
           /\ g = Far(e) /\ Reaches(e) /\ f.type = "Eof" =>
                  \E i \in DOMAIN Sent(e, f)[g] : Sent(e, f)[g][i].type = "Eof"
<1>1. CASE g = Far(e) /\ Reaches(e)
    <2>1. Sent(e, f)[g] = Append(inbox[g], f) /\ inbox[g] \in Seq(Frames)
        BY <1>1 DEF Sent, TypeOK
    <2>2. /\ \A i \in DOMAIN inbox[g] : /\ i \in DOMAIN Append(inbox[g], f)
                                        /\ Append(inbox[g], f)[i] = inbox[g][i]
          /\ Len(inbox[g]) + 1 \in DOMAIN Append(inbox[g], f)
          /\ Append(inbox[g], f)[Len(inbox[g]) + 1] = f
        BY <2>1, AppendProperties
    <2>. QED
        BY <2>1, <2>2 DEF HasEof
<1>2. CASE ~(g = Far(e) /\ Reaches(e))
    <2>1. Sent(e, f)[g] = inbox[g]
        BY <1>2 DEF Sent, TypeOK
    <2>. QED
        BY <1>2, <2>1 DEF HasEof
<1>. QED
    BY <1>1, <1>2

(* The end of a task is told to its far end.                               *)
LEMMA FinishTold ==
    ASSUME TypeOK, EndsTold, LinksKept, NEW e \in Ends, Finish(e), cut' = cut, Open(e)
    PROVE  EndsTold'
<1>1. Eof \in Frames /\ Eof.type = "Eof"
    BY FrameTypes DEF Eof
<1>2. \A h \in Ends : inbox'[h] = IF h = e THEN <<>> ELSE Sent(e, Eof)[h]
    BY <1>1, SentType DEF Finish
<1>3. \A h \in Ends : h # e => phase'[h] = phase[h]
    BY DEF Finish, TypeOK
<1>4. ~Open(e)'
    BY DEF Finish, Open, Handshaking, Admitted, TypeOK
<1>5. ASSUME NEW g \in Ends, Open(g)', ~Reaches(g)'
      PROVE  HasEof(g)'
    <2>1. g # e /\ Open(g)
        BY <1>3, <1>4, <1>5 DEF Open
    <2>2. CASE HasEof(g)
        BY <1>1, <1>2, <2>1, <2>2, EofSent DEF HasEof
    <2>3. CASE ~HasEof(g)
        <3>1. Reaches(g)
            BY <2>1, <2>3 DEF EndsTold
        <3>2. Far(g) \in Ends /\ Far(g)[1] = g[1] /\ Far(Far(g)) = g /\ Far(g)' = Far(g)
            BY FarEnd, FarFar DEF Far, Inbound
        <3>3. Far(g) = e
            BY <1>3, <1>5, <3>1, <3>2 DEF Reaches, Open
        <3>4. g = Far(e) /\ Reaches(e)
            BY <2>1, <3>1, <3>2, <3>3 DEF Reaches
        <3>. QED
            BY <1>1, <1>2, <2>1, <3>4, EofSent DEF HasEof
    <2>. QED
        BY <2>2, <2>3
<1>6. \A c \in cut' : link'[c] # NoLink
    BY DEF EndsTold, LinksKept, TypeOK
<1>. QED
    BY <1>5, <1>6 DEF EndsTold

(* Both ends of a new connection are there.                                *)
LEMMA OpenTold ==
    ASSUME TypeOK, EndsTold, NEW n \in Nodes, NEW m \in Nodes, NEW marked \in BOOLEAN,
           OpenLink(n, m, marked), cut' = cut
    PROVE  EndsTold'
<1>1. PICK c \in Conns :
        /\ link[c] = NoLink
        /\ link' = [link EXCEPT ![c] = [from |-> n, to |-> m, marked |-> marked]]
        /\ phase' = [phase EXCEPT ![<<c, "out">>] = "hello", ![<<c, "in">>] = "hello"]
        /\ inbox' = [inbox EXCEPT ![<<c, "out">>] = <<Hello(m)>>,
                                  ![<<c, "in">>] = <<Hello(n)>>]
    BY DEF OpenLink
<1>2. \A h \in Ends : phase'[h] = IF h[1] = c THEN "hello" ELSE phase[h]
    BY <1>1, OpenedPhases
<1>3. \A h \in Ends : h[1] # c => inbox'[h] = inbox[h]
    BY <1>1 DEF TypeOK
<1>4. ASSUME NEW g \in Ends, Open(g)', ~Reaches(g)'
      PROVE  HasEof(g)'
    <2>1. Far(g) \in Ends /\ Far(g)[1] = g[1] /\ Far(g)' = Far(g)
        BY FarEnd DEF Far, Inbound
    <2>2. g[1] # c
        <3>1. c \notin cut
            BY <1>1 DEF EndsTold
        <3>. QED
            BY <1>2, <1>4, <2>1, <3>1 DEF Reaches, Open, Handshaking
    <2>3. Open(g) /\ ~Reaches(g)
        BY <1>2, <1>4, <2>1, <2>2 DEF Reaches, Open
    <2>. QED
        BY <1>3, <2>2, <2>3 DEF EndsTold, HasEof
<1>5. \A d \in cut' : link'[d] # NoLink
    BY <1>1 DEF EndsTold, TypeOK
<1>. QED
    BY <1>4, <1>5 DEF EndsTold

(* The network tells both ends.                                            *)
LEMMA CutTold ==
    ASSUME TypeOK, EndsTold, NEW c \in Conns, Cut(c)
    PROVE  EndsTold'
<1>1. phase' = phase /\ link' = link /\ cut' = cut \cup {c} /\ link[c] # NoLink
    BY DEF Cut
<1>2. ASSUME NEW g \in Ends, g[1] = c
      PROVE  HasEof(g)'
    <2>1. g = <<c, "out">> \/ g = <<c, "in">>
        BY <1>2 DEF Ends
    <2>2. inbox'[g] = <<Eof>>
        BY <2>1 DEF Cut, TypeOK
    <2>3. 1 \in DOMAIN inbox'[g] /\ inbox'[g][1].type = "Eof"
        BY <2>2 DEF Eof
    <2>. QED
        BY <2>3 DEF HasEof
<1>3. ASSUME NEW g \in Ends, g[1] # c, Open(g)', ~Reaches(g)'
      PROVE  HasEof(g)'
    <2>1. inbox'[g] = inbox[g]
        BY <1>3 DEF Cut, TypeOK
    <2>2. Open(g) /\ ~Reaches(g)
        BY <1>1, <1>3 DEF Reaches, Open, Far, Inbound
    <2>. QED
        BY <2>1, <2>2 DEF EndsTold, HasEof
<1>. QED
    BY <1>1, <1>2, <1>3 DEF EndsTold

(* The system tells the peers of a process that ends.                      *)
LEMMA RestartTold ==
    ASSUME TypeOK, EndsTold, NEW n \in Nodes, Restart(n)
    PROVE  EndsTold'
<1>1. \A h \in Ends : phase'[h] = IF Runs(n, h) THEN "done" ELSE phase[h]
    BY DEF Restart
<1>2. cut' = cut /\ link' = link
    BY DEF Restart
<1>3. ASSUME NEW g \in Ends, Open(g)', ~Reaches(g)'
      PROVE  HasEof(g)'
    <2>1. Far(g) \in Ends /\ Far(g)[1] = g[1] /\ Far(Far(g)) = g /\ Far(g)' = Far(g)
        BY FarEnd, FarFar DEF Far, Inbound
    <2>2. ~Runs(n, g) /\ Open(g)
        BY <1>1, <1>3 DEF Open, Handshaking, Admitted
    <2>3. Eof \in Frames /\ Eof.type = "Eof"
        BY FrameTypes DEF Eof
    <2>4. inbox'[g] = IF Runs(n, Far(g)) /\ Open(Far(g)) THEN Sent(Far(g), Eof)[g] ELSE inbox[g]
        BY <2>2 DEF Restart
    <2>5. CASE HasEof(g)
        BY <2>1, <2>3, <2>4, <2>5, EofSent DEF HasEof
    <2>6. CASE ~HasEof(g)
        <3>1. Reaches(g)
            BY <2>2, <2>6 DEF EndsTold
        <3>2. Runs(n, Far(g)) /\ Open(Far(g))
            BY <1>1, <1>2, <1>3, <2>1, <3>1 DEF Reaches, Open
        <3>3. Reaches(Far(g))
            BY <2>1, <2>2, <3>1 DEF Reaches
        <3>. QED
            BY <2>1, <2>3, <2>4, <3>2, <3>3, EofSent DEF HasEof
    <2>. QED
        BY <2>5, <2>6
<1>. QED
    BY <1>2, <1>3 DEF EndsTold

(* Every step leaves it so.                                                *)
LEMMA ToldStep ==
    ASSUME IInv, EndsTold, [Next]_vars
    PROVE  EndsTold'
<1>. USE DEF IInv
<1>1. LinksKept
    BY LinksStep
<1>2. ASSUME UNCHANGED <<inbox, cut>>, \A e \in Ends : Open(e)' = Open(e)
      PROVE  EndsTold'
    BY <1>1, <1>2, ToldKept DEF HasEof
<1>3. ASSUME NEW e \in Ends, NEW q, phase' = [phase EXCEPT ![e] = q], UNCHANGED <<inbox, cut>>,
             Open(e) <=> q \in Handshaking \cup Admitted \cup {"leaving"}
      PROVE  EndsTold'
    BY <1>2, <1>3 DEF Open, TypeOK
<1>4. ASSUME NEW e \in Ends, NEW q \in Admitted, Open(e), inbox[e] # <<>>,
             Head(inbox[e]).type # "Eof", inbox' = [inbox EXCEPT ![e] = Tail(@)],
             phase' = [phase EXCEPT ![e] = q], cut' = cut
      PROVE  EndsTold'
    <2>1. \A g \in Ends : Open(g)' = Open(g)
        BY <1>4 DEF Open, TypeOK
    <2>2. \A g \in Ends : inbox'[g] = IF g = e THEN Tail(inbox[e]) ELSE inbox[g]
        BY <1>4 DEF TypeOK
    <2>3. inbox[e] \in Seq(Frames)
        BY DEF TypeOK
    <2>4. \A g \in Ends : HasEof(g) => HasEof(g)'
        BY <1>4, <2>2, <2>3, EofTail DEF HasEof
    <2>. QED
        BY <1>1, <1>4, <2>1, <2>4, ToldKept
<1>5. ASSUME NEW e \in Ends, ReceiveHello(e)
      PROVE  EndsTold'
    <2>. DEFINE f == Auth(Room[Me(e)])
    <2>1. f \in Frames
        BY <1>5, StartedEnd, FrameTypes DEF ReceiveHello
    <2>2. Sent(e, f)[e] = inbox[e]
        BY FarEnd DEF Sent, TypeOK
    <2>3. \A g \in Ends : inbox'[g] = IF g = e THEN Tail(inbox[e]) ELSE Sent(e, f)[g]
        BY <1>5, <2>1, <2>2, SentType DEF ReceiveHello
    <2>4. inbox[e] \in Seq(Frames) /\ inbox[e] # <<>> /\ Head(inbox[e]).type # "Eof"
        BY <1>5 DEF ReceiveHello, Waiting, TypeOK
    <2>5. HasEof(e) => HasEof(e)'
        BY <2>3, <2>4, EofTail DEF HasEof
    <2>6. \A g \in Ends : HasEof(g) => HasEof(g)'
        BY <2>1, <2>3, <2>5, EofSent DEF HasEof
    <2>7. \A g \in Ends : Open(g)' = Open(g)
        BY <1>5 DEF ReceiveHello, Open, Handshaking, TypeOK
    <2>. QED
        BY <1>1, <1>5, <2>6, <2>7, ToldKept DEF ReceiveHello
<1>6. ASSUME NEW e \in Ends, Task(e) \/ HandshakeTimeout(e)
      PROVE  EndsTold'
    <2>1. CASE AdmitNew(e) \/ Supersede(e)
        BY <1>4, <2>1 DEF AdmitNew, Supersede, ReadsProof, Waiting, Register, Open, Handshaking,
                          Admitted
    <2>2. CASE Reject(e) \/ HandshakeFails(e) \/ HandshakeTimeout(e) \/ DisconnectSuperseded(e)
               \/ EmitLeft(e)
        BY <1>1, <2>2, FinishTold
        DEF Reject, ReadsProof, HandshakeFails, HandshakeTimeout, DisconnectSuperseded, EmitLeft,
            Open, Handshaking, Admitted
    <2>3. CASE EmitJoined(e) \/ AnnouncePeers(e) \/ DisconnectHeld(e) \/ FinishedDialing(e)
        BY <1>3, <2>3 DEF EmitJoined, AnnouncePeers, DisconnectHeld, FinishedDialing, Open,
                          Handshaking, Admitted
    <2>. QED
        BY <1>5, <1>6, <2>1, <2>2, <2>3 DEF Task
<1>7. ASSUME NEW e \in Ends, Reads(e) \/ Writes(e)
      PROVE  EndsTold'
    <2>1. CASE ReceiveGossip(e) \/ ReceiveChat(e)
        <3>1. phase' = [phase EXCEPT ![e] = "pump"]
            BY <2>1 DEF ReceiveGossip, ReceiveChat, Pumping, TypeOK
        <3>. QED
            BY <1>4, <2>1, <3>1 DEF ReceiveGossip, ReceiveChat, Pumping, Waiting, Open, Admitted
    <2>2. CASE ReceiveEof(e) \/ WriteFails(e)
        BY <1>3, <2>2 DEF ReceiveEof, WriteFails, Pumping, Open, Handshaking, Admitted
    <2>3. CASE WriteFrame(e)
        <3>1. Head(queue[e]) \in Frames
            BY <2>3, TailType, FrameTypes DEF WriteFrame, TypeOK
        <3>2. \A g \in Ends : HasEof(g) => HasEof(g)'
            BY <2>3, <3>1, EofSent DEF WriteFrame, HasEof
        <3>3. \A g \in Ends : Open(g)' = Open(g)
            BY <2>3 DEF WriteFrame, Open
        <3>. QED
            BY <1>1, <2>3, <3>2, <3>3, ToldKept DEF WriteFrame
    <2>. QED
        BY <1>7, <2>1, <2>2, <2>3 DEF Reads, Writes
<1>8. CASE Dial
    <2>1. ASSUME NEW n \in Nodes, NEW m \in Nodes, Connect(n, m)
          PROVE  EndsTold'
        BY <2>1, OpenTold DEF Connect
    <2>2. ASSUME NEW n \in Nodes, NEW m \in Nodes, GossipDial(n, m)
          PROVE  EndsTold'
        BY <2>2, OpenTold DEF GossipDial
    <2>3. ASSUME NEW n \in Nodes, NEW m \in Nodes, GossipDialFails(n, m)
          PROVE  EndsTold'
        BY <1>2, <2>3 DEF GossipDialFails, netVars, Open
    <2>. QED
        BY <1>8, <2>1, <2>2, <2>3 DEF Dial
<1>9. CASE UNCHANGED <<inbox, cut, phase>>
    BY <1>2, <1>9 DEF Open
<1>. QED
    BY <1>6, <1>7, <1>8, <1>9, CutTold, RestartTold DEF Next, Say, Put, netVars, vars

-----------------------------------------------------------------------------
(* Rivals.                                                                 *)

(* The ends at one node of the connections to one peer.                    *)
Rivals(e) == {f \in Ends : link[f[1]] # NoLink /\ Me(f) = Me(e) /\ Them(f) = Them(e)}

Wins(e) == ConnectionWins(Me(e), Them(e), Inbound(e))

(* No other connection ever opened between the two is a match for it.      *)
Foremost(e) == \A f \in Rivals(e) : f = e \/ (Wins(e) /\ ~Wins(f))

(* Both ends of a connection come to the same decision on it (admit and    *)
(* connection_wins, peers.rs): each node sees the direction from its side. *)
LEMMA BothDecideAlike ==
    ASSUME NEW me, NEW theirs, NEW inbound \in BOOLEAN
    PROVE  ConnectionWins(me, theirs, inbound) <=> ConnectionWins(theirs, me, ~inbound)
BY DEF ConnectionWins

(* Of two connections in opposite directions between two nodes one wins,   *)
(* and not both.                                                           *)
LEMMA OneWins ==
    ASSUME NEW me \in Nat, NEW theirs \in Nat, me # theirs
    PROVE  ConnectionWins(me, theirs, TRUE) <=> ~ConnectionWins(me, theirs, FALSE)
BY DEF ConnectionWins

(* What the far end is, seen from there.                                   *)
LEMMA FarSide ==
    ASSUME NEW e \in Ends
    PROVE  /\ Me(Far(e)) = Them(e) /\ Them(Far(e)) = Me(e) /\ Inbound(Far(e)) = ~Inbound(e)
           /\ Wins(Far(e)) <=> Wins(e)
<1>1. Me(Far(e)) = Them(e) /\ Them(Far(e)) = Me(e) /\ Inbound(Far(e)) = ~Inbound(e)
    BY DEF Me, Them, Far, Inbound, Ends
<1>2. Inbound(e) \in BOOLEAN
    BY DEF Inbound
<1>. QED
    BY <1>1, <1>2, BothDecideAlike DEF Wins

(* What beats every rival at one end does at the other.                    *)
LEMMA FarForemost ==
    ASSUME NEW e \in Ends, Foremost(e)
    PROVE  Foremost(Far(e))
<1>. SUFFICES ASSUME NEW f \in Rivals(Far(e)), f # Far(e)
              PROVE  Wins(Far(e)) /\ ~Wins(f)
    BY DEF Foremost
<1>1. f \in Ends /\ link[f[1]] # NoLink /\ Me(f) = Them(e) /\ Them(f) = Me(e)
    BY FarSide DEF Rivals
<1>2. Far(f) \in Ends /\ Far(f)[1] = f[1] /\ Far(Far(f)) = f
    BY <1>1, FarEnd, FarFar
<1>3. Far(f) \in Rivals(e) /\ Far(f) # e
    BY <1>1, <1>2, FarSide DEF Rivals
<1>4. Wins(e) /\ ~Wins(Far(f))
    BY <1>3 DEF Foremost
<1>. QED
    BY <1>1, <1>4, FarSide

(* Connections are added, never moved: an end that has no match now had    *)
(* none before.                                                            *)
LEMMA ForemostBefore ==
    ASSUME LinksKept, NEW e \in Ends, link[e[1]] # NoLink, Foremost(e)'
    PROVE  Foremost(e) /\ Me(e)' = Me(e) /\ Them(e)' = Them(e)
<1>1. ASSUME NEW f \in Ends, link[f[1]] # NoLink
      PROVE  link'[f[1]] = link[f[1]] /\ Me(f)' = Me(f) /\ Them(f)' = Them(f) /\ Wins(f)' = Wins(f)
    <2>1. link'[f[1]] = link[f[1]]
        BY <1>1, FarEnd DEF LinksKept
    <2>. QED
        BY <2>1 DEF Me, Them, Inbound, Wins
<1>2. ASSUME NEW f \in Rivals(e)
      PROVE  f \in Rivals(e)'
    BY <1>1, <1>2 DEF Rivals
<1>. QED
    BY <1>1, <1>2 DEF Foremost, Rivals

(* A single connection has no rival.                                       *)
LEMMA SingleForemost ==
    ASSUME TypeOK, NEW e \in Ends, link[e[1]] # NoLink, Me(e) # Them(e),
           Single(Me(e), Them(e))
    PROVE  Rivals(e) = {e} /\ Foremost(e)
<1>1. ASSUME NEW f \in Rivals(e)
      PROVE  f = e
    <2>1. f \in Ends /\ link[f[1]] # NoLink /\ Me(f) = Me(e) /\ Them(f) = Them(e)
        BY <1>1 DEF Rivals
    <2>2. f[1] \in Between(Me(e), Them(e)) /\ e[1] \in Between(Me(e), Them(e))
        BY <2>1, FarEnd DEF Between, Me, Them
    <2>3. f[1] = e[1]
        BY <2>2 DEF Single
    <2>4. f = e \/ f = Far(e)
        BY <2>1, <2>3, FarFar
    <2>. QED
        BY <2>1, <2>4, FarSide
<1>2. e \in Rivals(e)
    BY DEF Rivals
<1>. QED
    BY <1>1, <1>2 DEF Foremost

(* Of two nodes that opened no more than one connection in each direction, *)
(* one connection has no match.                                            *)
LEMMA CrossedForemost ==
    ASSUME TypeOK, NEW n \in Nodes, NEW p \in Nodes, n # p, Crossed(n, p), Between(n, p) # {}
    PROVE  \E e \in Ends : /\ link[e[1]] # NoLink /\ Me(e) = n /\ Them(e) = p
                           /\ Foremost(e)
<1>. DEFINE At(e) == e \in Ends /\ link[e[1]] # NoLink /\ Me(e) = n /\ Them(e) = p
<1>1. \A e : At(e) => e[1] \in Between(n, p) /\ Inbound(e) \in BOOLEAN
    BY FarEnd DEF Between, Me, Them, Inbound
<1>2. \A e, f : At(e) /\ At(f) /\ Inbound(e) = Inbound(f) => e = f
    <2>. SUFFICES ASSUME NEW e, NEW f, At(e), At(f), Inbound(e) = Inbound(f)
                  PROVE  e = f
        OBVIOUS
    <2>1. link[e[1]].from = link[f[1]].from
        BY DEF Me, Them
    <2>2. e[1] = f[1]
        BY <1>1, <2>1 DEF Crossed
    <2>. QED
        BY <2>2 DEF Inbound, Ends
<1>3. \E e : At(e)
    <2>1. PICK c \in Conns : link[c] # NoLink /\ {link[c].from, link[c].to} = {n, p}
        BY DEF Between
    <2>2. \/ link[c].from = n /\ link[c].to = p
          \/ link[c].from = p /\ link[c].to = n
        BY <2>1
    <2>3. At(<<c, "out">>) \/ At(<<c, "in">>)
        BY <2>1, <2>2 DEF Ends, Me, Them, Inbound
    <2>. QED
        BY <2>3
<1>4. \A e, f : At(e) /\ At(f) /\ e # f => (Wins(e) <=> ~Wins(f))
    <2>. SUFFICES ASSUME NEW e, NEW f, At(e), At(f), e # f
                  PROVE  Wins(e) <=> ~Wins(f)
        OBVIOUS
    <2>1. Inbound(e) # Inbound(f) /\ Inbound(e) \in BOOLEAN /\ Inbound(f) \in BOOLEAN
        BY <1>1, <1>2
    <2>2. n \in Nat /\ p \in Nat
        BY NodesAssumption
    <2>3. Wins(e) = ConnectionWins(n, p, Inbound(e)) /\ Wins(f) = ConnectionWins(n, p, Inbound(f))
        BY DEF Wins
    <2>4. ConnectionWins(n, p, TRUE) <=> ~ConnectionWins(n, p, FALSE)
        BY <2>2, OneWins
    <2>5. CASE Inbound(e)
        <3>1. Inbound(e) = TRUE /\ Inbound(f) = FALSE
            BY <2>1, <2>5
        <3>. QED
            BY <2>3, <2>4, <3>1
    <2>6. CASE ~Inbound(e)
        <3>1. Inbound(e) = FALSE /\ Inbound(f) = TRUE
            BY <2>1, <2>6
        <3>. QED
            BY <2>3, <2>4, <3>1
    <2>. HIDE DEF At
    <2>. QED
        BY <2>5, <2>6
<1>5. \E e : At(e) /\ \A f : At(f) => f = e \/ (Wins(e) /\ ~Wins(f))
    BY <1>3, <1>4
<1>6. \A e, f : At(e) => (At(f) <=> f \in Rivals(e))
    BY DEF Rivals
<1>. QED
    BY <1>5, <1>6 DEF Foremost

-----------------------------------------------------------------------------
(* Who is held.                                                            *)

Present == Admitted \cup {"leaving"}

(* No node ever takes itself in, and an admitted end that has no match is  *)
(* the one the tables name: only a connection that beats it could have     *)
(* taken its place.                                                        *)
HeldInv ==
    \A e \in Ends :
        /\ phase[e] \in Present => Me(e) # Them(e)
        /\ phase[e] \in Admitted /\ Foremost(e) => StillOurs(e)

(* A step that admits nobody and leaves the senders as they are.           *)
LEMMA HeldKept ==
    ASSUME TypeOK, Started, HeldInv, LinksKept, connections' = connections,
           \A e \in Ends : phase'[e] \in Present => phase[e] \in Present,
           \A e \in Ends : phase'[e] \in Admitted => phase[e] \in Admitted
    PROVE  HeldInv'
<1>. SUFFICES ASSUME NEW e \in Ends, phase'[e] \in Present
              PROVE  /\ Me(e)' # Them(e)'
                     /\ phase'[e] \in Admitted /\ Foremost(e)' => StillOurs(e)'
    BY DEF HeldInv, Present
<1>1. phase[e] \in Present /\ link[e[1]] # NoLink
    BY DEF Started, Present, Admitted
<1>2. Me(e)' = Me(e) /\ Them(e)' = Them(e)
    BY <1>1, FarEnd DEF LinksKept, Me, Them, Inbound
<1>3. Foremost(e)' => Foremost(e)
    BY <1>1, ForemostBefore
<1>. QED
    BY <1>1, <1>2, <1>3 DEF HeldInv, StillOurs

(* A registration takes the place of nobody it does not beat.              *)
LEMMA RegisterHeld ==
    ASSUME TypeOK, Started, RegisteredIsLive, HeldInv, NEW e \in Ends, NEW q \in Admitted,
           ReadsProof(e), VerdictOn(e) \in {"admitted", "superseded"},
           phase' = [phase EXCEPT ![e] = q], Register(e)
    PROVE  HeldInv'
<1>1. Me(e) \in Nodes /\ Them(e) \in Nodes /\ link[e[1]] # NoLink
    BY StartedEnd DEF ReadsProof, Started
<1>2. Me(e) # Them(e)
    BY DEF VerdictOn, Verdict
<1>3. link' = link /\ (\A f \in Ends : phase'[f] = IF f = e THEN q ELSE phase[f])
    BY DEF Register, TypeOK
<1>4. \A n, p \in Nodes :
        connections'[n][p] = IF n = Me(e) /\ p = Them(e) THEN e ELSE connections[n][p]
    BY <1>1 DEF Register, TypeOK
<1>5. \A f \in Ends : Me(f)' = Me(f) /\ Them(f)' = Them(f) /\ Foremost(f)' = Foremost(f)
    BY <1>3 DEF Me, Them, Inbound, Foremost, Rivals, Wins
<1>6. ASSUME NEW g \in Ends, g # e, phase[g] \in Admitted, Foremost(g)
      PROVE  StillOurs(g)'
    <2>1. StillOurs(g) /\ Me(g) \in Nodes /\ Them(g) \in Nodes
        BY <1>6, StartedEnd DEF HeldInv, Admitted
    <2>2. ~(Me(g) = Me(e) /\ Them(g) = Them(e))
        <3>. SUFFICES ASSUME Me(g) = Me(e), Them(g) = Them(e)
                      PROVE  FALSE
            OBVIOUS
        <3>1. Them(e) \in registry[Me(e)]
            BY <1>1, <2>1, NoneAssumption DEF StillOurs, RegisteredIsLive
        <3>2. Wins(e)
            BY <3>1 DEF VerdictOn, Verdict, Wins
        <3>3. e \in Rivals(g)
            BY <1>1 DEF Rivals
        <3>. QED
            BY <1>6, <3>2, <3>3 DEF Foremost
    <2>. QED
        BY <1>4, <1>5, <2>1, <2>2 DEF StillOurs
<1>7. StillOurs(e)'
    BY <1>1, <1>4, <1>5 DEF StillOurs
<1>. QED
    BY <1>2, <1>3, <1>5, <1>6, <1>7 DEF HeldInv, Present

(* Who is taken out of the tables has left.                                *)
LEMMA DisconnectHolds ==
    ASSUME TypeOK, Started, HeldInv, NEW e \in Ends, DisconnectHeld(e)
    PROVE  HeldInv'
<1>1. Me(e) \in Nodes /\ Them(e) \in Nodes /\ Me(e) # Them(e)
    BY StartedEnd DEF DisconnectHeld, HeldInv, Present, Admitted
<1>2. link' = link /\ (\A f \in Ends : phase'[f] = IF f = e THEN "leaving" ELSE phase[f])
    BY DEF DisconnectHeld, TypeOK
<1>3. \A n, p \in Nodes :
        connections'[n][p] = IF n = Me(e) /\ p = Them(e) THEN NoSender ELSE connections[n][p]
    BY <1>1 DEF DisconnectHeld, TypeOK
<1>4. \A f \in Ends : Me(f)' = Me(f) /\ Them(f)' = Them(f) /\ Foremost(f)' = Foremost(f)
    BY <1>2 DEF Me, Them, Inbound, Foremost, Rivals, Wins
<1>5. ASSUME NEW g \in Ends, g # e, phase[g] \in Admitted, Foremost(g)
      PROVE  StillOurs(g)'
    <2>1. StillOurs(g) /\ Me(g) \in Nodes /\ Them(g) \in Nodes
        BY <1>5, StartedEnd DEF HeldInv, Admitted
    <2>2. ~(Me(g) = Me(e) /\ Them(g) = Them(e))
        BY <1>5, <2>1 DEF StillOurs, DisconnectHeld
    <2>. QED
        BY <1>3, <1>4, <2>1, <2>2 DEF StillOurs
<1>6. "leaving" \notin Admitted
    BY DEF Admitted
<1>. QED
    BY <1>1, <1>2, <1>4, <1>5, <1>6 DEF HeldInv, Present

(* A node that starts again takes no other node's entries with it.         *)
LEMMA RestartHolds ==
    ASSUME TypeOK, Started, HeldInv, NEW n \in Nodes, Restart(n)
    PROVE  HeldInv'
<1>1. link' = link /\ (\A e \in Ends : phase'[e] = IF Runs(n, e) THEN "done" ELSE phase[e])
    BY DEF Restart
<1>2. \A m, p \in Nodes : connections'[m][p] = IF m = n THEN NoSender ELSE connections[m][p]
    BY DEF Restart, TypeOK
<1>3. \A f \in Ends : Me(f)' = Me(f) /\ Them(f)' = Them(f) /\ Foremost(f)' = Foremost(f)
    BY <1>1 DEF Me, Them, Inbound, Foremost, Rivals, Wins
<1>4. ASSUME NEW g \in Ends, phase'[g] \in Present
      PROVE  /\ phase'[g] = phase[g] /\ Me(g) # n
             /\ Me(g) \in Nodes /\ Them(g) \in Nodes
    <2>1. ~Runs(n, g) /\ phase'[g] = phase[g]
        BY <1>1, <1>4 DEF Present, Admitted
    <2>2. Me(g) \in Nodes /\ Them(g) \in Nodes /\ link[g[1]] # NoLink
        BY <1>4, <2>1, StartedEnd DEF Started, Present, Admitted
    <2>. QED
        BY <2>1, <2>2 DEF Runs
<1>. QED
    BY <1>2, <1>3, <1>4 DEF HeldInv, StillOurs, Present

(* Every step leaves it so.                                                *)
LEMMA HeldStep ==
    ASSUME IInv, HeldInv, [Next]_vars
    PROVE  HeldInv'
<1>. USE DEF IInv
<1>1. LinksKept
    BY LinksStep
<1>2. ASSUME UNCHANGED <<phase, connections>>
      PROVE  HeldInv'
    BY <1>1, <1>2, HeldKept
<1>3. ASSUME NEW e \in Ends, NEW q, phase' = [phase EXCEPT ![e] = q], connections' = connections,
             q \in Present => phase[e] \in Present, q \in Admitted => phase[e] \in Admitted
      PROVE  HeldInv'
    <2>1. \A f \in Ends : phase'[f] = IF f = e THEN q ELSE phase[f]
        BY <1>3 DEF TypeOK
    <2>. QED
        BY <1>1, <1>3, <2>1, HeldKept
<1>4. ASSUME NEW e \in Ends, Task(e) \/ HandshakeTimeout(e)
      PROVE  HeldInv'
    <2>1. CASE AdmitNew(e)
        BY <2>1, RegisterHeld DEF AdmitNew, Admitted
    <2>2. CASE Supersede(e)
        BY <2>2, RegisterHeld DEF Supersede, Admitted
    <2>3. CASE DisconnectHeld(e)
        BY <2>3, DisconnectHolds
    <2>4. CASE Reject(e) \/ HandshakeFails(e) \/ HandshakeTimeout(e) \/ DisconnectSuperseded(e)
               \/ EmitLeft(e)
        BY <1>3, <2>4 DEF Reject, HandshakeFails, HandshakeTimeout, DisconnectSuperseded, EmitLeft,
                          Finish, lockVars, Present, Admitted
    <2>5. CASE ReceiveHello(e) \/ EmitJoined(e) \/ AnnouncePeers(e) \/ FinishedDialing(e)
        BY <1>3, <2>5 DEF ReceiveHello, EmitJoined, AnnouncePeers, FinishedDialing, lockVars,
                          Present, Admitted
    <2>. QED
        BY <1>4, <2>1, <2>2, <2>3, <2>4, <2>5 DEF Task
<1>5. ASSUME NEW e \in Ends, Reads(e) \/ Writes(e)
      PROVE  HeldInv'
    <2>1. CASE ReceiveEof(e) \/ WriteFails(e)
        BY <1>3, <2>1 DEF ReceiveEof, WriteFails, Pumping, lockVars, Present, Admitted
    <2>. QED
        BY <1>2, <1>5, <2>1 DEF Reads, Writes, ReceiveGossip, ReceiveChat, WriteFrame, lockVars
<1>6. CASE Dial
    <2>1. ASSUME NEW n \in Nodes, NEW m \in Nodes, NEW marked, OpenLink(n, m, marked),
                 connections' = connections
          PROVE  HeldInv'
        <3>1. \A e \in Ends : phase'[e] = phase[e] \/ phase'[e] = "hello"
            BY <2>1 DEF OpenLink, TypeOK
        <3>. QED
            BY <1>1, <2>1, <3>1, HeldKept DEF Present, Admitted
    <2>. QED
        BY <1>2, <1>6, <2>1 DEF Dial, Connect, GossipDial, GossipDialFails, netVars, lockVars
<1>. QED
    BY <1>2, <1>4, <1>5, <1>6, RestartHolds DEF Next, Say, Put, Cut, netVars, lockVars, vars

(* The invariant of who is held.                                           *)
LEMMA HeldInvariance == Spec => []HeldInv
<1>1. Init => HeldInv
    BY DEF Init, HeldInv, Present, Admitted
<1>2. IInv /\ HeldInv /\ [Next]_vars => HeldInv'
    BY HeldStep
<1>. QED
    BY <1>1, <1>2, Invariance, PTL DEF Spec

-----------------------------------------------------------------------------
(* Who is shown.                                                           *)

(* The phases of a task between its PeerJoined and its PeerLeft.           *)
Visible == {"announcing", "pump", "closing", "leaving"}

(* With one connection to a peer, it is shown as long as its task is       *)
(* between the two events.                                                 *)
ShownInv ==
    \A n, p \in Nodes : Single(n, p) =>
        (p \in shown[n] <=> \E e \in Ends : phase[e] \in Visible /\ Me(e) = n /\ Them(e) = p)

(* Connections are added: a single one was single.                         *)
LEMMA SingleBefore ==
    ASSUME LinksKept, NEW n, NEW p, Single(n, p)'
    PROVE  Single(n, p)
<1>1. Between(n, p) \subseteq Between(n, p)'
    BY DEF Between, LinksKept
<1>. QED
    BY <1>1 DEF Single

(* A step with no event, in which no task passes either of its two.        *)
LEMMA ShownKept ==
    ASSUME TypeOK, Started, ShownInv, LinksKept, shown' = shown,
           \A e \in Ends : phase'[e] \in Visible <=> phase[e] \in Visible
    PROVE  ShownInv'
<1>. SUFFICES ASSUME NEW n \in Nodes, NEW p \in Nodes, Single(n, p)'
              PROVE  p \in shown[n] <=>
                        \E e \in Ends : phase'[e] \in Visible /\ Me(e)' = n /\ Them(e)' = p
    BY DEF ShownInv, Visible
<1>1. Single(n, p)
    BY SingleBefore
<1>2. ASSUME NEW e \in Ends, phase[e] \in Visible
      PROVE  Me(e)' = Me(e) /\ Them(e)' = Them(e)
    BY <1>2, FarEnd DEF LinksKept, Me, Them, Inbound, Started, Visible
<1>. QED
    BY <1>1, <1>2 DEF ShownInv

(* A task passes from its phase to phase q. If this changes whether it is  *)
(* between its events, then by one of them, or it was not alone.           *)
LEMMA ShownMoves ==
    ASSUME TypeOK, Started, ShownInv, NEW e \in Ends, NEW q,
           phase[e] # "idle", phase' = [phase EXCEPT ![e] = q], link' = link,
           \/ shown' = [shown EXCEPT ![Me(e)] = @ \cup {Them(e)}] /\ q \in Visible
           \/ /\ shown' = [shown EXCEPT ![Me(e)] = @ \ {Them(e)}] /\ q \notin Visible
              /\ Single(Me(e), Them(e)) => Rivals(e) = {e}
           \/ shown' = shown /\ ~Single(Me(e), Them(e))
    PROVE  ShownInv'
<1>8. \A f \in Ends : Me(f)' = Me(f) /\ Them(f)' = Them(f)
    BY DEF Me, Them, Inbound
<1>9. \A n, p : Single(n, p)' = Single(n, p)
    BY DEF Single, Between
<1>. SUFFICES ASSUME NEW n \in Nodes, NEW p \in Nodes, Single(n, p)
              PROVE  p \in shown'[n] <=>
                        \E f \in Ends : phase'[f] \in Visible /\ Me(f) = n /\ Them(f) = p
    BY <1>8, <1>9 DEF ShownInv
<1>1. \A f \in Ends : phase'[f] = IF f = e THEN q ELSE phase[f]
    BY DEF TypeOK
<1>2. p \in shown[n] <=> \E f \in Ends : phase[f] \in Visible /\ Me(f) = n /\ Them(f) = p
    BY DEF ShownInv
<1>3. Me(e) \in Nodes /\ Them(e) \in Nodes
    BY StartedEnd
<1>4. CASE ~(n = Me(e) /\ p = Them(e))
    <2>1. p \in shown'[n] <=> p \in shown[n]
        BY <1>3, <1>4 DEF TypeOK
    <2>. QED
        BY <1>1, <1>2, <1>4, <2>1
<1>5. CASE n = Me(e) /\ p = Them(e)
    <2>1. CASE shown' = [shown EXCEPT ![Me(e)] = @ \cup {Them(e)}] /\ q \in Visible
        BY <1>1, <1>3, <1>5, <2>1 DEF TypeOK
    <2>2. CASE shown' = [shown EXCEPT ![Me(e)] = @ \ {Them(e)}] /\ q \notin Visible
               /\ Rivals(e) = {e}
        <3>1. p \notin shown'[n]
            BY <1>3, <1>5, <2>2 DEF TypeOK
        <3>2. ASSUME NEW f \in Ends, phase'[f] \in Visible, Me(f) = n, Them(f) = p
              PROVE  FALSE
            <4>1. f # e /\ phase[f] \in Visible
                BY <1>1, <2>2, <3>2
            <4>2. f \in Rivals(e)
                BY <1>5, <3>2, <4>1 DEF Rivals, Started, Visible
            <4>. QED
                BY <2>2, <4>1, <4>2
        <3>. QED
            BY <3>1, <3>2
    <2>. QED
        BY <1>5, <2>1, <2>2
<1>. QED
    BY <1>4, <1>5

(* Every step leaves it so.                                                *)
LEMMA ShownStep ==
    ASSUME IInv, HeldInv, ShownInv, [Next]_vars
    PROVE  ShownInv'
<1>. USE DEF IInv
<1>1. LinksKept
    BY LinksStep
<1>2. ASSUME UNCHANGED <<phase, shown>>
      PROVE  ShownInv'
    BY <1>1, <1>2, ShownKept
<1>3. ASSUME NEW e \in Ends, NEW q, phase' = [phase EXCEPT ![e] = q], shown' = shown,
             q \in Visible <=> phase[e] \in Visible
      PROVE  ShownInv'
    <2>1. \A f \in Ends : phase'[f] = IF f = e THEN q ELSE phase[f]
        BY <1>3 DEF TypeOK
    <2>. QED
        BY <1>1, <1>3, <2>1, ShownKept
<1>4. ASSUME NEW e \in Ends, phase[e] # "idle", Me(e) # Them(e)
      PROVE  Single(Me(e), Them(e)) => Rivals(e) = {e} /\ Foremost(e)
    BY <1>4, SingleForemost DEF Started
<1>5. ASSUME NEW e \in Ends, Task(e) \/ HandshakeTimeout(e)
      PROVE  ShownInv'
    <2>1. CASE EmitJoined(e)
        BY <2>1, ShownMoves DEF EmitJoined, Visible
    <2>2. CASE EmitLeft(e)
        <3>1. phase[e] # "idle" /\ Me(e) # Them(e)
            BY <2>2 DEF EmitLeft, HeldInv, Present
        <3>. DEFINE q == IF Marked(e) THEN "ended" ELSE "done"
        <3>2. q \notin Visible /\ phase' = [phase EXCEPT ![e] = q] /\ link' = link
              /\ shown' = [shown EXCEPT ![Me(e)] = @ \ {Them(e)}]
            BY <2>2 DEF EmitLeft, Finish, Visible
        <3>. HIDE DEF q
        <3>. QED
            BY <1>4, <3>1, <3>2, ShownMoves
    <2>3. CASE DisconnectSuperseded(e)
        <3>1. phase[e] # "idle" /\ phase[e] \in Admitted /\ Me(e) # Them(e)
            BY <2>3 DEF DisconnectSuperseded, HeldInv, Present, Admitted
        <3>2. ~Single(Me(e), Them(e))
            BY <1>4, <2>3, <3>1 DEF DisconnectSuperseded, HeldInv
        <3>. QED
            BY <2>3, <3>1, <3>2, ShownMoves DEF DisconnectSuperseded, Finish
    <2>4. CASE Supersede(e)
        <3>1. phase[e] = "auth" /\ Me(e) \in Nodes /\ Them(e) \in Nodes
            BY <2>4, StartedEnd DEF Supersede, ReadsProof
        <3>2. Me(e) # Them(e) /\ Them(e) \in registry[Me(e)]
            BY <2>4 DEF Supersede, VerdictOn, Verdict
        <3>3. connections[Me(e)][Them(e)] \in Ends
            BY <3>1, <3>2 DEF RegisteredIsLive, TypeOK
        <3>4. PICK f \in Ends : connections[Me(e)][Them(e)] = f
            BY <3>3
        <3>5. phase[f] \in Admitted /\ Me(f) = Me(e) /\ Them(f) = Them(e)
            BY <3>1, <3>4 DEF RegisteredIsLive
        <3>6. f \in Rivals(e) /\ f # e
            BY <3>1, <3>5 DEF Rivals, Started, Admitted
        <3>7. ~Single(Me(e), Them(e))
            BY <1>4, <3>1, <3>2, <3>6
        <3>. QED
            BY <2>4, <3>1, <3>7, ShownMoves DEF Supersede, Register
    <2>5. CASE Reject(e) \/ HandshakeFails(e) \/ HandshakeTimeout(e)
        BY <1>3, <2>5 DEF Reject, ReadsProof, HandshakeFails, HandshakeTimeout, Handshaking, Finish,
                          Visible
    <2>6. CASE ReceiveHello(e) \/ AdmitNew(e) \/ AnnouncePeers(e) \/ DisconnectHeld(e)
               \/ FinishedDialing(e)
        BY <1>3, <2>6 DEF ReceiveHello, AdmitNew, ReadsProof, Register, AnnouncePeers,
                          DisconnectHeld, FinishedDialing, Visible
    <2>. QED
        BY <1>5, <2>1, <2>2, <2>3, <2>4, <2>5, <2>6 DEF Task
<1>6. ASSUME NEW e \in Ends, Reads(e) \/ Writes(e)
      PROVE  ShownInv'
    <2>1. CASE ReceiveEof(e) \/ WriteFails(e)
        BY <1>3, <2>1 DEF ReceiveEof, WriteFails, Pumping, Visible
    <2>. QED
        BY <1>2, <1>6, <2>1 DEF Reads, Writes, ReceiveGossip, ReceiveChat, WriteFrame
<1>7. CASE Dial
    <2>1. ASSUME NEW n \in Nodes, NEW m \in Nodes, NEW marked \in BOOLEAN, OpenLink(n, m, marked),
                 shown' = shown
          PROVE  ShownInv'
        <3>1. PICK c \in Conns :
                /\ link[c] = NoLink
                /\ phase' = [phase EXCEPT ![<<c, "out">>] = "hello", ![<<c, "in">>] = "hello"]
            BY <2>1 DEF OpenLink
        <3>2. \A f \in Ends : phase'[f] = IF f[1] = c THEN "hello" ELSE phase[f]
            BY <3>1, OpenedPhases
        <3>3. \A f \in Ends : f[1] = c => phase[f] = "idle"
            BY <3>1 DEF Started
        <3>. QED
            BY <1>1, <2>1, <3>2, <3>3, ShownKept DEF Visible
    <2>. QED
        BY <1>2, <1>7, <2>1 DEF Dial, Connect, GossipDial, GossipDialFails, netVars
<1>8. ASSUME NEW n \in Nodes, Restart(n)
      PROVE  ShownInv'
    <2>1. /\ link' = link
          /\ \A f \in Ends : phase'[f] = IF Runs(n, f) THEN "done" ELSE phase[f]
          /\ \A m \in Nodes : shown'[m] = IF m = n THEN {} ELSE shown[m]
        BY <1>8 DEF Restart, TypeOK
    <2>2. \A f \in Ends : Me(f)' = Me(f) /\ Them(f)' = Them(f)
        BY <2>1 DEF Me, Them, Inbound
    <2>3. \A m, p : Single(m, p)' = Single(m, p)
        BY <2>1 DEF Single, Between
    <2>4. \A f \in Ends : phase'[f] \in Visible <=> phase[f] \in Visible /\ Me(f) # n
        BY <2>1 DEF Runs, Started, Visible
    <2>. QED
        BY <2>1, <2>2, <2>3, <2>4 DEF ShownInv
<1>. QED
    BY <1>2, <1>5, <1>6, <1>7, <1>8 DEF Next, Say, Put, Cut, netVars, vars

(* The joins and departures a user was told of a peer with one connection  *)
(* add up to whether the node holds it, once nothing is on its way         *)
(* (run_connection and disconnect, node.rs): no event is missing, doubled  *)
(* or overtaken.                                                           *)
THEOREM ShownAddsUp == Spec => []ShownIsHeld
<1>1. Init => ShownInv
    BY DEF Init, ShownInv, Visible
<1>2. IInv /\ HeldInv /\ ShownInv /\ [Next]_vars => ShownInv'
    BY ShownStep
<1>3. IInv /\ HeldInv /\ ShownInv => ShownIsHeld
    <2>. SUFFICES ASSUME TypeOK, Started, RegisteredIsLive, HeldInv, ShownInv, Quiet,
                         NEW n \in Nodes, NEW p \in Nodes, Single(n, p)
                  PROVE  p \in shown[n] <=> p \in registry[n]
        BY DEF ShownIsHeld, IInv
    <2>1. ASSUME NEW e \in Ends, phase[e] \in Visible, Me(e) = n, Them(e) = p
          PROVE  p \in registry[n]
        <3>1. phase[e] = "pump" /\ phase[e] \in Admitted /\ link[e[1]] # NoLink
            BY <2>1 DEF Quiet, Visible, Admitted, Started
        <3>2. Me(e) # Them(e)
            BY <3>1 DEF HeldInv, Present
        <3>3. Foremost(e)
            BY <2>1, <3>1, <3>2, SingleForemost
        <3>. QED
            BY <2>1, <3>1, <3>3, NoneAssumption DEF HeldInv, StillOurs, RegisteredIsLive
    <2>2. ASSUME p \in registry[n]
          PROVE  \E e \in Ends : phase[e] \in Visible /\ Me(e) = n /\ Them(e) = p
        <3>1. connections[n][p] \in Ends
            BY <2>2 DEF RegisteredIsLive, TypeOK
        <3>2. PICK e \in Ends : connections[n][p] = e
            BY <3>1
        <3>3. phase[e] \in Admitted /\ Me(e) = n /\ Them(e) = p
            BY <3>2 DEF RegisteredIsLive
        <3>4. phase[e] = "pump"
            BY <3>3 DEF Quiet, Admitted
        <3>. QED
            BY <3>3, <3>4 DEF Visible
    <2>. QED
        BY <2>1, <2>2 DEF ShownInv
<1>. QED
    BY <1>1, <1>2, <1>3, Invariance, HeldInvariance, PTL DEF Spec

-----------------------------------------------------------------------------
(* Who is held once nothing is on its way.                                 *)

(* A socket whose other end is gone has the end of the stream to read.     *)
LEMMA ToldInvariance == Spec => []EndsTold
<1>1. Init => EndsTold
    BY DEF Init, EndsTold, Open, Handshaking, Admitted
<1>2. IInv /\ EndsTold /\ [Next]_vars => EndsTold'
    BY ToldStep
<1>. QED
    BY <1>1, <1>2, Invariance, PTL DEF Spec

(* In a settled state the other end of a held connection is a pump too.    *)
LEMMA QuietReaches ==
    ASSUME EndsTold, Quiet, NEW e \in Ends, phase[e] = "pump"
    PROVE  phase[Far(e)] = "pump"
<1>1. ~HasEof(e)
    BY DEF Quiet, HasEof
<1>2. Reaches(e)
    BY <1>1 DEF EndsTold, Open, Admitted
<1>. QED
    BY <1>2, FarEnd DEF Reaches, Open, Handshaking, Admitted, Quiet

(* A node never goes on holding a peer that does not hold it, when one     *)
(* connection was all there was between them: whatever ended it at one     *)
(* end, the other end comes to know, and disconnect (node.rs) takes the    *)
(* peer out of the tables.                                                 *)
THEOREM NobodyHeldInVain == Spec => []SettledAgree
<1>1. IInv /\ HeldInv /\ EndsTold => SettledAgree
    <2>. SUFFICES ASSUME TypeOK, Started, RegisteredIsLive, HeldInv, EndsTold, Quiet,
                         NEW n \in Nodes, NEW p \in Nodes,
                         connections[n][p] # NoSender, Single(n, p)
                  PROVE  Joined(n, p)
        BY DEF SettledAgree, IInv
    <2>1. PICK e \in Ends : connections[n][p] = e
        BY DEF TypeOK
    <2>2. phase[e] = "pump" /\ Me(e) = n /\ Them(e) = p /\ n # p
        BY <2>1 DEF RegisteredIsLive, Quiet, Admitted
    <2>3. phase[Far(e)] = "pump" /\ Far(e) \in Ends
        BY <2>2, QuietReaches, FarEnd
    <2>4. Foremost(e)
        BY <2>2, SingleForemost DEF Started
    <2>5. StillOurs(Far(e))
        BY <2>3, <2>4, FarForemost DEF HeldInv, Admitted
    <2>6. connections[p][n] = Far(e)
        BY <2>2, <2>5, FarSide DEF StillOurs
    <2>. QED
        BY <2>1, <2>6 DEF Joined
<1>. QED
    BY <1>1, Invariance, HeldInvariance, ToldInvariance, PTL

-----------------------------------------------------------------------------
(* What comes of a dial.                                                   *)

(* The frames that can be queued if only the texts of LongTexts are said.  *)
Sayable == {f \in Queued : f.type = "Chat" => f.message.long \in LongTexts}

SaidInv ==
    /\ \A e \in Ends : queue[e] \in Seq(Sayable)
    /\ \A a \in Actors : \A p \in pending[a] : p[2] \in Sayable

(* Nothing is added.                                                       *)
LEMMA SaidKept ==
    ASSUME SaidInv,
           \A e \in Ends : \/ queue'[e] \in {queue[e], <<>>}
                           \/ (queue[e] # <<>> /\ queue'[e] = Tail(queue[e])),
           \A a \in Actors : pending'[a] \subseteq pending[a]
    PROVE  SaidInv'
<1>1. ASSUME NEW e \in Ends
      PROVE  queue'[e] \in Seq(Sayable)
    <2>1. queue[e] \in Seq(Sayable) /\ <<>> \in Seq(Sayable)
        BY DEF SaidInv
    <2>2. queue[e] # <<>> => Tail(queue[e]) \in Seq(Sayable)
        BY <2>1, TailType
    <2>. QED
        BY <2>1, <2>2
<1>2. \A a \in Actors : \A p \in pending'[a] : p[2] \in Sayable
    BY DEF SaidInv
<1>. QED
    BY <1>1, <1>2 DEF SaidInv

(* Every step leaves it so.                                                *)
LEMMA SaidStep ==
    ASSUME IInv, SaidInv, [Next]_vars
    PROVE  SaidInv'
<1>. USE DEF IInv
<1>1. ASSUME queue' = queue, pending' = pending
      PROVE  SaidInv'
    BY <1>1 DEF SaidInv
<1>2. ASSUME NEW a \in Actors, NEW n, NEW f \in Sayable, ToAll(a, n, f), queue' = queue
      PROVE  SaidInv'
    <2>1. \A b \in Actors : \A p \in pending'[b] : p \in pending[b] \/ p[2] = f
        BY <1>2 DEF ToAll, TypeOK
    <2>2. \A b \in Actors : \A p \in pending'[b] : p[2] \in Sayable
        BY <2>1 DEF SaidInv
    <2>. QED
        BY <1>2, <2>2 DEF SaidInv
<1>3. ASSUME NEW e \in Ends, Task(e) \/ HandshakeTimeout(e)
      PROVE  SaidInv'
    <2>1. CASE AnnouncePeers(e)
        <3>1. Gossip(registry[Me(e)]) \in Sayable /\ e \in Actors
            BY <2>1, StartedEnd, FrameTypes DEF AnnouncePeers, Sayable, Gossip, TypeOK, Actors
        <3>. QED
            BY <1>2, <2>1, <3>1 DEF AnnouncePeers
    <2>2. ASSUME Finish(e), pending' = pending
          PROVE  SaidInv'
        <3>1. \A g \in Ends : queue'[g] \in {queue[g], <<>>}
            BY <2>2 DEF Finish, TypeOK
        <3>. QED
            BY <2>2, <3>1, SaidKept
    <2>3. CASE Reject(e) \/ HandshakeFails(e) \/ HandshakeTimeout(e) \/ DisconnectSuperseded(e)
               \/ EmitLeft(e)
        BY <2>2, <2>3
        DEF Reject, HandshakeFails, HandshakeTimeout, DisconnectSuperseded, EmitLeft, chatVars
    <2>4. CASE ReceiveHello(e) \/ AdmitNew(e) \/ Supersede(e) \/ EmitJoined(e)
               \/ DisconnectHeld(e) \/ FinishedDialing(e)
        BY <1>1, <2>4
        DEF ReceiveHello, AdmitNew, Supersede, Register, EmitJoined, DisconnectHeld,
            FinishedDialing, chatVars
    <2>. QED
        BY <1>3, <2>1, <2>3, <2>4 DEF Task
<1>4. ASSUME NEW e \in Ends, Reads(e) \/ Writes(e)
      PROVE  SaidInv'
    <2>1. CASE Writes(e)
        <3>1. queue[e] # <<>> /\ pending' = pending /\ queue' = [queue EXCEPT ![e] = Tail(@)]
            BY <2>1 DEF Writes, WriteFrame, WriteFails, chatVars
        <3>2. \A g \in Ends : queue'[g] = IF g = e THEN Tail(queue[e]) ELSE queue[g]
            BY <3>1 DEF TypeOK
        <3>. QED
            BY <3>1, <3>2, SaidKept
    <2>2. CASE Reads(e)
        BY <1>1, <2>2 DEF Reads, ReceiveGossip, ReceiveChat, ReceiveEof, chatVars
    <2>. QED
        BY <1>4, <2>1, <2>2
<1>5. ASSUME NEW n \in Nodes, Say(n)
      PROVE  SaidInv'
    <2>1. PICK long \in LongTexts :
            ToAll(User(n), n, Chat([from |-> n, id |-> said[n] + 1, long |-> long]))
        BY <1>5 DEF Say
    <2>. DEFINE m == [from |-> n, id |-> said[n] + 1, long |-> long]
    <2>2. m \in Messages /\ m.long = long
        BY LimitsAssumption DEF Messages, TypeOK
    <2>3. Chat(m) \in Sayable
        BY <2>2, FrameTypes DEF Sayable, Chat
    <2>4. User(n) \in Actors
        BY DEF Actors
    <2>. QED
        BY <1>2, <1>5, <2>1, <2>3, <2>4 DEF Say, netVars
<1>6. ASSUME NEW a \in Actors, NEW e \in Ends, Put(a, e)
      PROVE  SaidInv'
    <2>1. PICK p \in pending[a] :
            /\ pending' = [pending EXCEPT ![a] = @ \ {p}]
            /\ queue' = [queue EXCEPT ![e] = IF Accepts(e) THEN Append(@, p[2]) ELSE @]
        BY <1>6 DEF Put
    <2>2. p[2] \in Sayable
        BY DEF SaidInv
    <2>3. ASSUME NEW g \in Ends
          PROVE  queue'[g] \in Seq(Sayable)
        <3>1. queue[g] \in Seq(Sayable)
            BY DEF SaidInv
        <3>2. Append(queue[g], p[2]) \in Seq(Sayable)
            BY <2>2, <3>1
        <3>3. queue'[g] = queue[g] \/ queue'[g] = Append(queue[g], p[2])
            BY <2>1 DEF TypeOK
        <3>. QED
            BY <3>1, <3>2, <3>3
    <2>4. \A b \in Actors : pending'[b] \subseteq pending[b]
        BY <2>1 DEF TypeOK
    <2>5. \A b \in Actors : \A q \in pending'[b] : q[2] \in Sayable
        BY <2>4 DEF SaidInv
    <2>. QED
        BY <2>3, <2>5 DEF SaidInv
<1>7. ASSUME NEW n \in Nodes, Restart(n)
      PROVE  SaidInv'
    <2>1. \A e \in Ends : queue'[e] \in {queue[e], <<>>}
        BY <1>7 DEF Restart
    <2>2. \A a \in Actors : pending'[a] \subseteq pending[a]
        BY <1>7 DEF Restart
    <2>. QED
        BY <2>1, <2>2, SaidKept
<1>8. CASE Dial \/ (\E c \in Conns : Cut(c)) \/ UNCHANGED vars
    BY <1>1, <1>8 DEF Dial, Connect, GossipDial, GossipDialFails, Cut, netVars, chatVars, vars
<1>. QED
    BY <1>3, <1>4, <1>5, <1>6, <1>7, <1>8 DEF Next

(* The phases of a task that is not to end.                                *)
Staying == {"hello", "auth", "admitted", "announcing", "pump"}

(* A connection of two nodes with one room code that has no match.         *)
Lasting(e) ==
    /\ link[e[1]] # NoLink /\ Me(e) # Them(e) /\ Room[Me(e)] = Room[Them(e)]
    /\ Foremost(e)

(* As long as nothing breaks, it never ends.                               *)
LastingInv == Undisturbed => \A e \in Ends : Lasting(e) => phase[e] \in Staying /\ ~HasEof(e)

(* It is lasting at both ends.                                             *)
LEMMA FarLasting ==
    ASSUME NEW e \in Ends, Lasting(e)
    PROVE  Lasting(Far(e)) /\ Far(e) \in Ends
BY FarEnd, FarSide, FarForemost DEF Lasting

(* Its far end is there to be written to.                                  *)
LEMMA LastingReaches ==
    ASSUME LastingInv, Undisturbed, NEW e \in Ends, Lasting(e)
    PROVE  Reaches(e)
BY FarLasting DEF LastingInv, Undisturbed, Reaches, Open, Staying, Handshaking, Admitted

(* What was lasting after a step that opens nothing was so before it.      *)
LEMMA LastingKept ==
    ASSUME LinksKept, \A c \in Conns : link'[c] # NoLink => link[c] # NoLink,
           \A e \in Ends : Lasting(e) => phase'[e] \in Staying /\ ~HasEof(e)'
    PROVE  LastingInv'
<1>1. ASSUME NEW e \in Ends, Lasting(e)'
      PROVE  Lasting(e)
    <2>1. link[e[1]] # NoLink
        BY <1>1, FarEnd DEF Lasting
    <2>. QED
        BY <1>1, <2>1, ForemostBefore DEF Lasting
<1>. QED
    BY <1>1 DEF LastingInv

(* Nothing but an end of the stream brings one.                            *)
LEMMA NoEofSent ==
    ASSUME TypeOK, NEW e \in Ends, NEW f \in Frames, NEW g \in Ends, ~HasEof(g),
           g = Far(e) => f.type # "Eof"
    PROVE  \A i \in DOMAIN Sent(e, f)[g] : Sent(e, f)[g][i].type # "Eof"
BY InboxSent DEF HasEof

(* A task that is not lasting ends, which no lasting one is told of.       *)
LEMMA FinishLasting ==
    ASSUME TypeOK, LastingInv, LinksKept, Undisturbed, link' = link,
           NEW e \in Ends, Finish(e), ~Lasting(e)
    PROVE  LastingInv'
<1>1. ASSUME NEW g \in Ends, Lasting(g)
      PROVE  phase'[g] \in Staying /\ ~HasEof(g)'
    <2>1. phase[g] \in Staying /\ ~HasEof(g) /\ g # e
        BY <1>1 DEF LastingInv
    <2>2. g # Far(e)
        BY <1>1, FarFar, FarLasting
    <2>3. phase'[g] = phase[g]
        BY <2>1 DEF Finish, TypeOK
    <2>4. inbox'[g] = inbox[g]
        BY <2>1, <2>2, SentType, FrameTypes DEF Finish, Sent, TypeOK
    <2>. QED
        BY <2>1, <2>3, <2>4 DEF HasEof
<1>. QED
    BY <1>1, LastingKept

(* A lasting connection is not turned down, ...                            *)
LEMMA LastingAdmitted ==
    ASSUME TypeOK, Started, RegisteredIsLive, NEW e \in Ends, Lasting(e), phase[e] = "auth"
    PROVE  VerdictOn(e) \in {"admitted", "superseded"}
<1>. SUFFICES ASSUME Them(e) \in registry[Me(e)]
              PROVE  Wins(e)
    BY DEF VerdictOn, Verdict, Lasting, Wins
<1>1. Me(e) \in Nodes /\ Them(e) \in Nodes
    BY StartedEnd
<1>2. PICK f \in Ends : connections[Me(e)][Them(e)] = f
    BY <1>1 DEF RegisteredIsLive, TypeOK
<1>3. phase[f] \in Admitted /\ Me(f) = Me(e) /\ Them(f) = Them(e)
    BY <1>1, <1>2 DEF RegisteredIsLive
<1>4. f \in Rivals(e) /\ f # e
    BY <1>3 DEF Rivals, Started, Admitted
<1>. QED
    BY <1>4 DEF Lasting, Foremost

(* ... its handshake does not fail, ...                                    *)
LEMMA LastingHandshake ==
    ASSUME TypeOK, ProofsAreTheirs, LastingInv, Undisturbed, NEW e \in Ends, HandshakeFails(e)
    PROVE  ~Lasting(e)
<1>. SUFFICES ASSUME Lasting(e)
              PROVE  FALSE
    OBVIOUS
<1>1. ~HasEof(e)
    BY DEF LastingInv
<1>2. inbox[e] # <<>> => 1 \in DOMAIN inbox[e] /\ Head(inbox[e]) = inbox[e][1]
    BY DEF TypeOK
<1>3. phase[e] = "auth" /\ Waiting(e, "Auth") /\ ~ReadsProof(e)
    BY <1>1, <1>2 DEF HandshakeFails, Waiting, HasEof
<1>. QED
    BY <1>2, <1>3 DEF Waiting, ReadsProof, ProofsAreTheirs, Lasting

(* ... and its pump does not.                                              *)
LEMMA LastingWrites ==
    ASSUME TypeOK, SaidInv, LastingInv, Undisturbed, NEW e \in Ends, WriteFails(e)
    PROVE  ~Lasting(e)
<1>. SUFFICES ASSUME Lasting(e)
              PROVE  FALSE
    OBVIOUS
<1>1. Head(queue[e]) \in Sayable
    BY TailType DEF SaidInv, WriteFails
<1>2. ~TooLarge(Head(queue[e]))
    BY <1>1, LimitsAssumption DEF TooLarge, Sayable, Undisturbed
<1>. QED
    BY <1>2, LastingReaches DEF WriteFails

(* A connection that is opened is new at both ends.                        *)
LEMMA OpenLasting ==
    ASSUME TypeOK, LastingInv, Undisturbed, LinksKept,
           NEW n \in Nodes, NEW m \in Nodes, NEW marked \in BOOLEAN, OpenLink(n, m, marked)
    PROVE  LastingInv'
<1>1. PICK c \in Conns :
        /\ link[c] = NoLink
        /\ link' = [link EXCEPT ![c] = [from |-> n, to |-> m, marked |-> marked]]
        /\ phase' = [phase EXCEPT ![<<c, "out">>] = "hello", ![<<c, "in">>] = "hello"]
        /\ inbox' = [inbox EXCEPT ![<<c, "out">>] = <<Hello(m)>>,
                                  ![<<c, "in">>] = <<Hello(n)>>]
    BY DEF OpenLink
<1>2. \A g \in Ends : phase'[g] = IF g[1] = c THEN "hello" ELSE phase[g]
    BY <1>1, OpenedPhases
<1>3. ASSUME NEW g \in Ends, g[1] = c
      PROVE  ~HasEof(g)'
    <2>1. g = <<c, "out">> \/ g = <<c, "in">>
        BY <1>3 DEF Ends
    <2>2. inbox'[g] = <<Hello(m)>> \/ inbox'[g] = <<Hello(n)>>
        BY <1>1, <2>1 DEF TypeOK
    <2>. QED
        BY <2>2 DEF HasEof, Hello
<1>4. ASSUME NEW g \in Ends, g[1] # c, Lasting(g)'
      PROVE  phase'[g] \in Staying /\ ~HasEof(g)'
    <2>1. link[g[1]] # NoLink
        BY <1>1, <1>4, FarEnd DEF Lasting, TypeOK
    <2>2. Lasting(g)
        BY <1>4, <2>1, ForemostBefore DEF Lasting
    <2>3. inbox'[g] = inbox[g]
        BY <1>1, <1>4 DEF TypeOK
    <2>. QED
        BY <1>2, <1>4, <2>2, <2>3 DEF LastingInv, HasEof
<1>. QED
    BY <1>2, <1>3, <1>4 DEF LastingInv, Staying

(* What disturbs the network is not undone.                                *)
LEMMA UndisturbedBefore ==
    ASSUME TypeOK, [Next]_vars, Undisturbed'
    PROVE  Undisturbed
<1>. DEFINE Calm == UNCHANGED <<cut, restarted, timeouts>>
<1>1. Dial => Calm
    BY DEF Dial, Connect, GossipDial, GossipDialFails, netVars, bootVars
<1>2. ASSUME NEW e \in Ends, Task(e)
      PROVE  Calm
    BY <1>2 DEF Task, ReceiveHello, AdmitNew, Supersede, Register, Reject, HandshakeFails,
                EmitJoined, AnnouncePeers, DisconnectHeld, DisconnectSuperseded, EmitLeft,
                FinishedDialing, bootVars
<1>3. ASSUME NEW e \in Ends, Reads(e) \/ Writes(e)
      PROVE  Calm
    BY <1>3 DEF Reads, Writes, ReceiveGossip, ReceiveChat, ReceiveEof, WriteFrame, WriteFails,
                bootVars
<1>4. ASSUME NEW e \in Ends, HandshakeTimeout(e)
      PROVE  FALSE
    BY <1>4 DEF HandshakeTimeout, Undisturbed, TypeOK
<1>5. ASSUME NEW c \in Conns, Cut(c)
      PROVE  FALSE
    BY <1>5 DEF Cut, Undisturbed
<1>6. ASSUME NEW n \in Nodes, Restart(n)
      PROVE  FALSE
    BY <1>6 DEF Restart, Undisturbed
<1>7. Calm
    BY <1>1, <1>2, <1>3, <1>4, <1>5, <1>6 DEF Next, Say, Put, netVars, bootVars, vars
<1>. QED
    BY <1>7 DEF Undisturbed

(* Every step leaves it so.                                                *)
LEMMA LastingStep ==
    ASSUME IInv, ProofsAreTheirs, SaidInv, LastingInv, [Next]_vars
    PROVE  LastingInv'
<1>. SUFFICES ASSUME Undisturbed'
              PROVE  LastingInv'
    BY DEF LastingInv
<1>. USE DEF IInv
<1>1. LinksKept /\ Undisturbed
    BY LinksStep, UndisturbedBefore
<1>2. ASSUME link' = link,
             \A e \in Ends : Lasting(e) => phase'[e] \in Staying /\ ~HasEof(e)'
      PROVE  LastingInv'
    BY <1>1, <1>2, LastingKept
<1>3. ASSUME link' = link, inbox' = inbox, NEW e \in Ends, NEW q,
             phase' = [phase EXCEPT ![e] = q], q \in Staying \/ ~Lasting(e)
      PROVE  LastingInv'
    <2>1. \A g \in Ends : phase'[g] = IF g = e THEN q ELSE phase[g]
        BY <1>3 DEF TypeOK
    <2>. QED
        BY <1>1, <1>2, <1>3, <2>1 DEF LastingInv, HasEof
<1>4. ASSUME link' = link, NEW e \in Ends, NEW f \in Frames, f.type # "Eof",
             \A g \in Ends : g # e => inbox'[g] = Sent(e, f)[g] \/ inbox'[g] = inbox[g],
             inbox'[e] = inbox[e] \/ (inbox[e] # <<>> /\ inbox'[e] = Tail(inbox[e])),
             NEW q \in Staying, phase' = [phase EXCEPT ![e] = q]
      PROVE  LastingInv'
    <2>1. ASSUME NEW g \in Ends, Lasting(g)
          PROVE  phase'[g] \in Staying /\ ~HasEof(g)'
        <3>1. phase[g] \in Staying /\ ~HasEof(g)
            BY <1>1, <2>1 DEF LastingInv
        <3>2. phase'[g] \in Staying
            BY <1>4, <3>1 DEF TypeOK
        <3>3. CASE inbox'[g] = inbox[g]
            BY <3>1, <3>2, <3>3 DEF HasEof
        <3>4. CASE g = e /\ inbox[e] # <<>> /\ inbox'[e] = Tail(inbox[e])
            <4>1. inbox[e] \in Seq(Frames)
                BY DEF TypeOK
            <4>. QED
                BY <3>1, <3>2, <3>4, <4>1, InboxTail DEF HasEof
        <3>5. CASE g # e /\ inbox'[g] = Sent(e, f)[g]
            BY <1>4, <3>1, <3>2, <3>5, NoEofSent DEF HasEof
        <3>. QED
            BY <1>4, <3>3, <3>4, <3>5
    <2>. QED
        BY <1>2, <1>4, <2>1
<1>5. ASSUME link' = link, NEW e \in Ends, inbox[e] # <<>>, inbox' = [inbox EXCEPT ![e] = Tail(@)],
             NEW q \in Staying, phase' = [phase EXCEPT ![e] = q]
      PROVE  LastingInv'
    <2>1. \A g \in Ends : g # e => inbox'[g] = inbox[g]
        BY <1>5 DEF TypeOK
    <2>2. inbox'[e] = Tail(inbox[e])
        BY <1>5 DEF TypeOK
    <2>. DEFINE f == Gossip({})
    <2>3. f \in Frames /\ f.type # "Eof"
        BY FrameTypes DEF Gossip
    <2>. QED
        BY <1>4, <1>5, <2>1, <2>2, <2>3
<1>6. ASSUME NEW e \in Ends, Finish(e), link' = link, ~Lasting(e)
      PROVE  LastingInv'
    BY <1>1, <1>6, FinishLasting
<1>7. ASSUME NEW e \in Ends, Task(e) \/ HandshakeTimeout(e)
      PROVE  LastingInv'
    <2>1. CASE ReceiveHello(e)
        <3>. DEFINE f == Auth(Room[Me(e)])
        <3>1. f \in Frames /\ f.type # "Eof"
            BY <2>1, StartedEnd, FrameTypes DEF ReceiveHello, Auth
        <3>2. inbox[e] # <<>> /\ phase' = [phase EXCEPT ![e] = "auth"] /\ link' = link
            BY <2>1 DEF ReceiveHello, Waiting
        <3>3. Sent(e, f)[e] = inbox[e]
            BY FarEnd DEF Sent, TypeOK
        <3>4. \A g \in Ends : inbox'[g] = IF g = e THEN Tail(inbox[e]) ELSE Sent(e, f)[g]
            BY <2>1, <3>1, <3>3, SentType DEF ReceiveHello
        <3>. QED
            BY <1>4, <3>1, <3>2, <3>4 DEF Staying
    <2>2. CASE AdmitNew(e) \/ Supersede(e)
        BY <1>5, <2>2 DEF AdmitNew, Supersede, ReadsProof, Waiting, Register, Staying
    <2>3. CASE Reject(e)
        <3>1. ~Lasting(e)
            BY <2>3, LastingAdmitted DEF Reject, ReadsProof
        <3>. QED
            BY <1>6, <2>3, <3>1 DEF Reject
    <2>4. CASE HandshakeFails(e)
        <3>1. ~Lasting(e)
            BY <1>1, <2>4, LastingHandshake
        <3>. QED
            BY <1>6, <2>4, <3>1 DEF HandshakeFails
    <2>5. CASE HandshakeTimeout(e)
        BY <2>5 DEF HandshakeTimeout, Undisturbed, TypeOK
    <2>6. CASE DisconnectSuperseded(e) \/ EmitLeft(e)
        <3>1. ~Lasting(e)
            BY <1>1, <2>6 DEF LastingInv, DisconnectSuperseded, EmitLeft, Staying
        <3>. QED
            BY <1>6, <2>6, <3>1 DEF DisconnectSuperseded, EmitLeft
    <2>7. CASE DisconnectHeld(e) \/ FinishedDialing(e)
        <3>1. ~Lasting(e)
            BY <1>1, <2>7 DEF LastingInv, DisconnectHeld, FinishedDialing, Staying
        <3>. QED
            BY <1>3, <2>7, <3>1 DEF DisconnectHeld, FinishedDialing
    <2>8. CASE EmitJoined(e) \/ AnnouncePeers(e)
        BY <1>3, <2>8 DEF EmitJoined, AnnouncePeers, Staying
    <2>. QED
        BY <1>7, <2>1, <2>2, <2>3, <2>4, <2>5, <2>6, <2>7, <2>8 DEF Task
<1>8. ASSUME NEW e \in Ends, Reads(e) \/ Writes(e)
      PROVE  LastingInv'
    <2>1. phase[e] = "pump" /\ phase = [phase EXCEPT ![e] = "pump"]
        BY <1>8 DEF Reads, Writes, ReceiveGossip, ReceiveChat, ReceiveEof, WriteFrame, WriteFails,
                    Pumping, TypeOK
    <2>2. CASE ReceiveGossip(e) \/ ReceiveChat(e)
        <3>1. phase' = phase /\ link' = link /\ inbox[e] # <<>>
              /\ inbox' = [inbox EXCEPT ![e] = Tail(@)]
            BY <2>2 DEF ReceiveGossip, ReceiveChat, Waiting
        <3>. QED
            BY <1>5, <2>1, <3>1 DEF Staying
    <2>3. CASE ReceiveEof(e)
        <3>1. 1 \in DOMAIN inbox[e] /\ Head(inbox[e]) = inbox[e][1]
            BY <2>3 DEF ReceiveEof, Waiting, TypeOK
        <3>2. ~Lasting(e)
            BY <1>1, <2>3, <3>1 DEF LastingInv, HasEof, ReceiveEof, Waiting
        <3>. QED
            BY <1>3, <2>3, <3>2 DEF ReceiveEof
    <2>4. CASE WriteFrame(e)
        <3>. DEFINE f == Head(queue[e])
        <3>. f \in Queued
            BY <2>4, TailType DEF WriteFrame, TypeOK
        <3>1. f \in Frames /\ f.type # "Eof"
            BY FrameTypes DEF Queued
        <3>2. inbox' = Sent(e, f) /\ link' = link /\ phase' = phase
            BY <2>4 DEF WriteFrame
        <3>3. Sent(e, f)[e] = inbox[e]
            BY FarEnd DEF Sent, TypeOK
        <3>. QED
            BY <1>4, <2>1, <3>1, <3>2, <3>3 DEF Staying
    <2>5. CASE WriteFails(e)
        <3>1. ~Lasting(e)
            BY <1>1, <2>5, LastingWrites
        <3>. QED
            BY <1>3, <2>5, <3>1 DEF WriteFails
    <2>. QED
        BY <1>8, <2>2, <2>3, <2>4, <2>5 DEF Reads, Writes
<1>9. ASSUME UNCHANGED <<link, phase, inbox>>
      PROVE  LastingInv'
    BY <1>1, <1>2, <1>9 DEF LastingInv, HasEof
<1>10. CASE Dial
    <2>1. ASSUME NEW n \in Nodes, NEW m \in Nodes, Connect(n, m)
          PROVE  LastingInv'
        BY <1>1, <2>1, OpenLasting DEF Connect
    <2>2. ASSUME NEW n \in Nodes, NEW m \in Nodes, GossipDial(n, m)
          PROVE  LastingInv'
        BY <1>1, <2>2, OpenLasting DEF GossipDial
    <2>3. ASSUME NEW n \in Nodes, NEW m \in Nodes, GossipDialFails(n, m)
          PROVE  LastingInv'
        BY <1>9, <2>3 DEF GossipDialFails, netVars
    <2>. QED
        BY <1>10, <2>1, <2>2, <2>3 DEF Dial
<1>11. ASSUME NEW c \in Conns, Cut(c)
       PROVE  LastingInv'
    BY <1>11 DEF Cut, Undisturbed
<1>12. ASSUME NEW n \in Nodes, Restart(n)
       PROVE  LastingInv'
    BY <1>12 DEF Restart, Undisturbed
<1>. QED
    BY <1>7, <1>8, <1>9, <1>10, <1>11, <1>12 DEF Next, Say, Put, netVars, vars

(* Two nodes of one room that dialled one another, no more than once each  *)
(* way, are joined once nothing is on its way, however the dials and their *)
(* handshakes crossed (admit and connection_wins, peers.rs): both ends     *)
(* keep the same connection, and the one discarded takes nothing with it.  *)
THEOREM EitherDialConnects == Spec => []DialsConnect
<1>1. Init => SaidInv /\ LastingInv
    <2>1. \A S : <<>> \in Seq(S)
        OBVIOUS
    <2>. QED
        BY <2>1, FarEnd DEF Init, SaidInv, LastingInv, Lasting
<1>2. IInv /\ ProofsAreTheirs /\ SaidInv /\ LastingInv /\ [Next]_vars => SaidInv' /\ LastingInv'
    BY SaidStep, LastingStep
<1>3. IInv /\ HeldInv /\ LastingInv => DialsConnect
    <2>. SUFFICES ASSUME TypeOK, Started, RegisteredIsLive, HeldInv, LastingInv,
                         Quiet, Undisturbed, NEW n \in Nodes, NEW p \in Nodes, n # p,
                         Room[n] = Room[p], Crossed(n, p), Between(n, p) # {}
                  PROVE  Joined(n, p)
        BY DEF DialsConnect, IInv
    <2>1. PICK e \in Ends : /\ link[e[1]] # NoLink /\ Me(e) = n /\ Them(e) = p
                            /\ Foremost(e)
        BY CrossedForemost
    <2>2. Lasting(e) /\ Lasting(Far(e)) /\ Far(e) \in Ends
        BY <2>1, FarLasting DEF Lasting
    <2>3. phase[e] = "pump" /\ phase[Far(e)] = "pump"
        BY <2>2 DEF LastingInv, Staying, Quiet
    <2>4. StillOurs(e) /\ StillOurs(Far(e))
        BY <2>2, <2>3 DEF HeldInv, Lasting, Admitted
    <2>5. connections[n][p] = e /\ connections[p][n] = Far(e)
        BY <2>1, <2>4, FarSide DEF StillOurs
    <2>. QED
        BY <2>5, NoneAssumption DEF Joined
<1>. QED
    BY <1>1, <1>2, <1>3, Invariance, HeldInvariance, RoomInvariance, PTL DEF Spec, RoomInv
=============================================================================
