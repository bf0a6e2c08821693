---------------------------- MODULE MessageProofs ----------------------------
(***************************************************************************)
(* Proofs about the messages of Node, for every set of nodes and           *)
(* connections: nothing a user says is shown twice, however many           *)
(* connections lead to a peer and whatever becomes of them; with one       *)
(* connection all is shown in the order it was said; and as long as no     *)
(* queue overflows nothing is left out, and whoever shares a peer is       *)
(* introduced.                                                             *)
(***************************************************************************)
EXTENDS NodeProofs

(* There is a copy of message m for node n: on a queue or an inbox of end  *)
(* p, at i; in the log of p, at i; or still to be put, by p, on the queue  *)
(* of end i.                                                               *)
Copy(k, p, i, n, m) ==
    \/ k = "queue" /\ p \in Ends /\ i \in DOMAIN queue[p] /\ queue[p][i] = Chat(m) /\ n = Them(p)
    \/ k = "inbox" /\ p \in Ends /\ i \in DOMAIN inbox[p] /\ inbox[p][i] = Chat(m) /\ n = Me(p)
    \/ k = "log"   /\ p \in Nodes /\ i \in DOMAIN log[p]  /\ log[p][i] = m         /\ n = p
    \/ k = "owed"  /\ p \in Actors /\ <<i, Chat(m)>> \in pending[p]                /\ n = Them(i)

(* Of every message said, there is at most one copy for each node, ...     *)
OneCopy ==
    \A n, m, k, p, i, l, q, j :
        Copy(k, p, i, n, m) /\ Copy(l, q, j, n, m) => k = l /\ p = q /\ i = j

(* ... of others there is none, ...                                        *)
OnlySaid ==
    \A n, m, k, p, i :
        Copy(k, p, i, n, m) => m \in Messages /\ m.id <= said[m.from]

(* ... and none waits for a connection that is still to be opened.         *)
Dormant ==
    \A e \in Ends : link[e[1]] = NoLink =>
        /\ queue[e] = <<>>
        /\ \A a \in Actors : \A p \in pending[a] : p[1] # e

CopyInv == OneCopy /\ OnlySaid

(* Where a copy was before the queues and inboxes moved up.                *)
Before(di, dq, k, p, i) ==
    IF k = "inbox" THEN i + di[p] ELSE IF k = "queue" THEN i + dq[p] ELSE i

(* A step that makes no copy and moves none to another place.              *)
Unmade(di, dq) ==
    \A k, p, i, n, m : Copy(k, p, i, n, m)' => Copy(k, p, Before(di, dq, k, p, i), n, m)

NoneMade == \E di, dq \in [Ends -> {0, 1}] : Unmade(di, dq)

(* A step in which one copy, of message m0 for n0, goes from one place to  *)
(* another, and no other goes where it was.                                *)
Moves(di, dq, k0, p0, i0, k1, p1, i1, n0, m0) ==
    /\ Copy(k0, p0, i0, n0, m0)
    /\ \A k, p, i, n, m : Copy(k, p, i, n, m)' =>
          \/ k = k1 /\ p = p1 /\ i = i1 /\ n = n0 /\ m = m0
          \/ /\ Copy(k, p, Before(di, dq, k, p, i), n, m)
             /\ ~(k = k0 /\ p = p0 /\ Before(di, dq, k, p, i) = i0 /\ m = m0)

OneMoves(k0, p0, i0, k1, p1, i1, n0, m0) ==
    \E di, dq \in [Ends -> {0, 1}] : Moves(di, dq, k0, p0, i0, k1, p1, i1, n0, m0)

(* A message is read and shown; written to the socket; put on a queue.     *)
Shows(e) ==
    OneMoves("inbox", e, 1, "log", Me(e), Len(log[Me(e)]) + 1, Me(e), Head(inbox[e]).message)

Transmits(e) ==
    OneMoves("queue", e, 1, "inbox", Far(e), Len(inbox[Far(e)]) + 1, Them(e),
            Head(queue[e]).message)

Enqueues(a, e, m) ==
    OneMoves("owed", a, e, "queue", e, Len(queue[e]) + 1, Them(e), m)

(* A step in which n says m0: its copies are new, and owed to each sender. *)
Makes(n, m0) ==
    /\ said[n] \in Nat /\ m0 \in Messages /\ m0.from = n /\ m0.id = said[n] + 1
    /\ pending[User(n)] = {}
    /\ \A k, p, i, q, m : Copy(k, p, i, q, m)' =>
          \/ Copy(k, p, i, q, m)
          \/ k = "owed" /\ p = User(n) /\ i \in Senders(n) /\ q = Them(i) /\ m = m0

-----------------------------------------------------------------------------
(* What is kept.                                                           *)

(* The copies of t are those of s, each as far as d further down.          *)
Shifted(t, s, d) ==
    \A i \in DOMAIN t : t[i].type = "Chat" => i + d \in DOMAIN s /\ t[i] = s[i + d]

(* Different messages make different frames.                               *)
LEMMA ChatFrames ==
    /\ \A m : Chat(m).type = "Chat"
    /\ \A m, l : Chat(m) = Chat(l) => m = l
BY DEF Chat

(* What is untouched, dropped or read, and what has grown by another frame.*)
LEMMA Shifts ==
    /\ \A S : \A s \in Seq(S) : Shifted(s, s, 0) /\ Shifted(<<>>, s, 0)
    /\ \A S : \A s \in Seq(S) : s # <<>> => Shifted(Tail(s), s, 1)
    /\ \A S : \A s \in Seq(S) : \A f \in S : f.type # "Chat" => Shifted(Append(s, f), s, 0)
<1>1. ASSUME NEW S, NEW s \in Seq(S)
      PROVE  Shifted(s, s, 0) /\ Shifted(<<>>, s, 0)
    <2>1. DOMAIN s = 1 .. Len(s)
        OBVIOUS
    <2>. QED
        BY <2>1 DEF Shifted
<1>2. ASSUME NEW S, NEW s \in Seq(S), s # <<>>
      PROVE  Shifted(Tail(s), s, 1)
    <2>1. \A i \in DOMAIN Tail(s) : i + 1 \in DOMAIN s /\ Tail(s)[i] = s[i + 1]
        BY <1>2, HeadTailProperties
    <2>. QED
        BY <2>1 DEF Shifted
<1>3. ASSUME NEW S, NEW s \in Seq(S), NEW f \in S, f.type # "Chat"
      PROVE  Shifted(Append(s, f), s, 0)
    <2>1. ASSUME NEW i \in DOMAIN Append(s, f)
          PROVE  /\ i \in Nat
                 /\ \/ i \in DOMAIN s /\ Append(s, f)[i] = s[i]
                    \/ Append(s, f)[i] = f
        BY <2>1, AppendProperties
    <2>. QED
        BY <1>3, <2>1 DEF Shifted
<1>. QED
    BY <1>1, <1>2, <1>3

(* A step that makes no copy.                                              *)
LEMMA CopiesKept ==
    ASSUME TypeOK, link' = link,
           NEW di \in [Ends -> {0, 1}], NEW dq \in [Ends -> {0, 1}],
           \A e \in Ends : Shifted(inbox'[e], inbox[e], di[e]),
           \A e \in Ends : Shifted(queue'[e], queue[e], dq[e]),
           \A n \in Nodes : log'[n] = log[n] \/ log'[n] = <<>>,
           \A a \in Actors : \A p \in pending'[a] : p[2].type = "Chat" => p \in pending[a]
    PROVE  NoneMade
<1>. USE DEF Before
<1>1. ASSUME NEW k, NEW p, NEW i, NEW n, NEW m, Copy(k, p, i, n, m)'
      PROVE  Copy(k, p, Before(di, dq, k, p, i), n, m)
    <2>1. CASE k = "queue"
        <3>1. p \in Ends /\ i \in DOMAIN queue'[p] /\ queue'[p][i] = Chat(m) /\ n = Them(p)
            BY <1>1, <2>1 DEF Copy, Them, Inbound
        <3>2. i + dq[p] \in DOMAIN queue[p] /\ queue[p][i + dq[p]] = Chat(m)
            BY <3>1, ChatFrames DEF Shifted
        <3>. QED
            BY <2>1, <3>1, <3>2 DEF Copy
    <2>2. CASE k = "inbox"
        <3>1. p \in Ends /\ i \in DOMAIN inbox'[p] /\ inbox'[p][i] = Chat(m) /\ n = Me(p)
            BY <1>1, <2>2 DEF Copy, Me, Inbound
        <3>2. i + di[p] \in DOMAIN inbox[p] /\ inbox[p][i + di[p]] = Chat(m)
            BY <3>1, ChatFrames DEF Shifted
        <3>. QED
            BY <2>2, <3>1, <3>2 DEF Copy
    <2>3. CASE k = "log"
        BY <1>1, <2>3 DEF Copy
    <2>4. CASE k = "owed"
        <3>1. p \in Actors /\ <<i, Chat(m)>> \in pending'[p] /\ n = Them(i)
            BY <1>1, <2>4 DEF Copy, Them, Inbound
        <3>2. <<i, Chat(m)>> \in pending[p]
            BY <3>1, ChatFrames
        <3>. QED
            BY <2>4, <3>1, <3>2 DEF Copy
    <2>. QED
        BY <1>1, <2>1, <2>2, <2>3, <2>4 DEF Copy
<1>. QED
    BY <1>1 DEF NoneMade, Unmade

(* Nothing is copied by it.                                                *)
LEMMA UnmadeCopies ==
    ASSUME TypeOK', CopyInv, said' = said, NoneMade
    PROVE  CopyInv'
<1>. USE DEF Before
<1>1. PICK di \in [Ends -> {0, 1}], dq \in [Ends -> {0, 1}] :
        \A k, p, i, n, m : Copy(k, p, i, n, m)' => Copy(k, p, Before(di, dq, k, p, i), n, m)
    BY DEF NoneMade, Unmade
<1>2. ASSUME NEW k, NEW p, NEW i, NEW n, NEW m, Copy(k, p, i, n, m)', k \in {"queue", "inbox"}
      PROVE  p \in Ends /\ i \in Nat
    BY <1>2 DEF Copy, TypeOK
<1>3. OnlySaid'
    <2>. SUFFICES ASSUME NEW n, NEW m, NEW k, NEW p, NEW i, Copy(k, p, i, n, m)'
                  PROVE  m \in Messages /\ m.id <= said[m.from]
        BY DEF OnlySaid
    <2>1. Copy(k, p, Before(di, dq, k, p, i), n, m)
        BY <1>1
    <2>. QED
        BY <2>1 DEF CopyInv, OnlySaid
<1>4. OneCopy'
    <2>. SUFFICES ASSUME NEW n, NEW m, NEW k, NEW p, NEW i, NEW l, NEW q, NEW j,
                         Copy(k, p, i, n, m)', Copy(l, q, j, n, m)'
                  PROVE  k = l /\ p = q /\ i = j
        BY DEF OneCopy
    <2>1. Copy(k, p, Before(di, dq, k, p, i), n, m) /\ Copy(l, q, Before(di, dq, l, q, j), n, m)
        BY <1>1
    <2>2. k = l /\ p = q /\ Before(di, dq, k, p, i) = Before(di, dq, l, q, j)
        BY <2>1 DEF CopyInv, OneCopy
    <2>3. CASE k \in {"queue", "inbox"}
        BY <1>2, <2>2, <2>3
    <2>4. CASE k \notin {"queue", "inbox"}
        BY <2>2, <2>4
    <2>. QED
        BY <2>2, <2>3, <2>4
<1>. QED
    BY <1>3, <1>4 DEF CopyInv

-----------------------------------------------------------------------------
(* What is moved.                                                          *)

(* It stays the only one.                                                  *)
LEMMA CopyMoved ==
    ASSUME TypeOK, TypeOK', CopyInv, said' = said,
           NEW di \in [Ends -> {0, 1}], NEW dq \in [Ends -> {0, 1}],
           NEW k0, NEW p0, NEW i0, NEW k1, NEW p1, NEW i1, NEW n0, NEW m0,
           Moves(di, dq, k0, p0, i0, k1, p1, i1, n0, m0)
    PROVE  CopyInv'
<1>. USE DEF Moves
<1>1. OnlySaid'
    BY DEF CopyInv, OnlySaid
<1>3. ASSUME NEW k, NEW p, NEW i, NEW n, NEW m, Copy(k, p, i, n, m)', k \in {"queue", "inbox"}
      PROVE  p \in Ends /\ i \in Nat
    BY <1>3 DEF Copy, TypeOK
<1>2. OneCopy'
    <2>. SUFFICES ASSUME NEW n, NEW m, NEW k, NEW p, NEW i, NEW l, NEW q, NEW j,
                         Copy(k, p, i, n, m)', Copy(l, q, j, n, m)'
                  PROVE  k = l /\ p = q /\ i = j
        BY DEF OneCopy
    <2>1. CASE Copy(k, p, Before(di, dq, k, p, i), n, m) /\ Copy(l, q, Before(di, dq, l, q, j), n, m)
        <3>1. k = l /\ p = q /\ Before(di, dq, k, p, i) = Before(di, dq, l, q, j)
            BY <2>1 DEF CopyInv, OneCopy
        <3>2. k \in {"queue", "inbox"} => p \in Ends /\ i \in Nat /\ j \in Nat
            BY <1>3, <3>1
        <3>3. CASE k \in {"queue", "inbox"}
            <4>1. di[p] \in {0, 1} /\ dq[p] \in {0, 1}
                BY <3>2, <3>3
            <4>2. CASE k = "queue"
                <5>1. i + dq[p] = j + dq[p]
                    BY <3>1, <4>2 DEF Before
                <5>. QED
                    BY <3>1, <3>2, <3>3, <4>1, <5>1
            <4>3. CASE k = "inbox"
                <5>1. i + di[p] = j + di[p]
                    BY <3>1, <4>3 DEF Before
                <5>. QED
                    BY <3>1, <3>2, <3>3, <4>1, <5>1
            <4>. QED
                BY <3>3, <4>2, <4>3
        <3>4. CASE k \notin {"queue", "inbox"}
            BY <3>1, <3>4 DEF Before
        <3>. QED
            BY <3>3, <3>4
    <2>2. CASE m = m0 /\ n = n0
        <3>1. ~(/\ Copy(k, p, Before(di, dq, k, p, i), n, m)
                /\ ~(k = k0 /\ p = p0 /\ Before(di, dq, k, p, i) = i0 /\ m = m0))
            BY <2>2 DEF CopyInv, OneCopy
        <3>2. ~(/\ Copy(l, q, Before(di, dq, l, q, j), n, m)
                /\ ~(l = k0 /\ q = p0 /\ Before(di, dq, l, q, j) = i0 /\ m = m0))
            BY <2>2 DEF CopyInv, OneCopy
        <3>. QED
            BY <3>1, <3>2
    <2>. QED
        BY <2>1, <2>2
<1>. QED
    BY <1>1, <1>2 DEF CopyInv

(* receive_chat: from the inbox to the log.                                *)
LEMMA ChatMoves ==
    ASSUME TypeOK, Started, NEW e \in Ends, ReceiveChat(e)
    PROVE  Shows(e)
<1>. DEFINE di == [g \in Ends |-> IF g = e THEN 1 ELSE 0]
            dq == [g \in Ends |-> 0]
            m0 == Head(inbox[e]).message
            n0 == Me(e)
            i1 == Len(log[n0]) + 1
<1>1. /\ inbox[e] # <<>> /\ inbox[e] \in Seq(Frames) /\ Head(inbox[e]).type = "Chat"
      /\ Head(inbox[e]) = inbox[e][1] /\ 1 \in DOMAIN inbox[e]
    BY DEF ReceiveChat, Waiting, TypeOK
<1>2. inbox[e][1] = Chat(m0)
    <2>1. inbox[e][1] \in [type : {"Chat"}, message : Messages]
        BY <1>1 DEF Frames, Queued
    <2>. QED
        BY <1>1, <2>1 DEF Chat
<1>3. n0 \in Nodes
    BY StartedEnd DEF ReceiveChat, Pumping
<1>4. Copy("inbox", e, 1, n0, m0)
    BY <1>1, <1>2 DEF Copy
<1>5. ASSUME NEW k, NEW p, NEW i, NEW n, NEW m, Copy(k, p, i, n, m)'
      PROVE  \/ k = "log" /\ p = n0 /\ i = i1 /\ n = n0 /\ m = m0
             \/ /\ Copy(k, p, Before(di, dq, k, p, i), n, m)
                /\ ~(k = "inbox" /\ p = e /\ Before(di, dq, k, p, i) = 1)
    <2>. USE DEF Before
    <2>1. CASE k = "inbox"
        <3>1. p \in Ends /\ i \in DOMAIN inbox'[p] /\ inbox'[p][i] = Chat(m) /\ n = Me(p)
            BY <1>5, <2>1 DEF Copy, ReceiveChat, Me, Inbound
        <3>2. CASE p = e
            <4>1. inbox'[p] = Tail(inbox[p])
                BY <3>1, <3>2 DEF ReceiveChat, TypeOK
            <4>2. i \in Nat \ {0} /\ i + 1 \in DOMAIN inbox[p] /\ inbox[p][i + 1] = Chat(m)
                BY <1>1, <3>1, <3>2, <4>1, HeadTailProperties
            <4>. QED
                BY <2>1, <3>1, <3>2, <4>2 DEF Copy
        <3>3. CASE p # e
            <4>1. inbox'[p] = inbox[p] /\ i \in Nat
                BY <3>1, <3>3 DEF ReceiveChat, TypeOK
            <4>. QED
                BY <2>1, <3>1, <3>3, <4>1 DEF Copy
        <3>. QED
            BY <3>2, <3>3
    <2>2. CASE k = "log"
        <3>1. p \in Nodes /\ i \in DOMAIN log'[p] /\ log'[p][i] = m /\ n = p
            BY <1>5, <2>2 DEF Copy
        <3>2. CASE p = n0
            <4>1. log'[p] = Append(log[p], m0) /\ log[p] \in Seq(Messages)
                BY <3>1, <3>2 DEF ReceiveChat, TypeOK
            <4>2. \/ i \in DOMAIN log[p] /\ log[p][i] = m
                  \/ i = i1 /\ m = m0
                BY <3>1, <3>2, <4>1, AppendProperties
            <4>. QED
                BY <2>2, <3>1, <3>2, <4>2 DEF Copy
        <3>3. CASE p # n0
            BY <2>2, <3>1, <3>3 DEF Copy, ReceiveChat, TypeOK
        <3>. QED
            BY <3>2, <3>3
    <2>3. CASE k = "queue"
        <3>1. p \in Ends /\ i \in DOMAIN queue[p] /\ queue[p][i] = Chat(m) /\ n = Them(p)
            BY <1>5, <2>3 DEF Copy, ReceiveChat, Them, Inbound
        <3>2. i \in Nat
            BY <3>1 DEF TypeOK
        <3>. QED
            BY <2>3, <3>1, <3>2 DEF Copy
    <2>4. CASE k = "owed"
        BY <1>5, <2>4 DEF Copy, ReceiveChat, Them, Inbound
    <2>. QED
        BY <1>5, <2>1, <2>2, <2>3, <2>4 DEF Copy
<1>6. said' = said /\ di \in [Ends -> {0, 1}] /\ dq \in [Ends -> {0, 1}]
    BY DEF ReceiveChat
<1>7. Moves(di, dq, "inbox", e, 1, "log", n0, i1, n0, m0)
    <2>. HIDE DEF di, dq, m0, n0, i1
    <2>. QED
        BY <1>4, <1>5 DEF Moves
<1>. QED
    BY <1>6, <1>7 DEF OneMoves, Shows

(* The pump: from the queue to the inbox at the far end.                   *)
LEMMA WriteMoves ==
    ASSUME TypeOK, NEW e \in Ends, WriteFrame(e), Reaches(e),
           Head(queue[e]).type = "Chat"
    PROVE  Transmits(e)
<1>. DEFINE dq == [g \in Ends |-> IF g = e THEN 1 ELSE 0]
            di == [g \in Ends |-> 0]
            f  == Far(e)
            m0 == Head(queue[e]).message
            n0 == Them(e)
            i1 == Len(inbox[f]) + 1
<1>1. /\ queue[e] # <<>> /\ queue[e] \in Seq(Queued)
      /\ Head(queue[e]) = queue[e][1] /\ 1 \in DOMAIN queue[e]
    BY DEF WriteFrame, TypeOK
<1>2. queue[e][1] = Chat(m0)
    <2>1. queue[e][1] \in [type : {"Chat"}, message : Messages]
        BY <1>1 DEF Queued
    <2>. QED
        BY <1>1, <2>1 DEF Chat
<1>3. f \in Ends /\ f # e /\ Me(f) = n0
    BY FarEnd DEF Far, Me, Them, Inbound, Ends
<1>4. Copy("queue", e, 1, n0, m0)
    BY <1>1, <1>2 DEF Copy
<1>5. ASSUME NEW k, NEW p, NEW i, NEW n, NEW m, Copy(k, p, i, n, m)'
      PROVE  \/ k = "inbox" /\ p = f /\ i = i1 /\ n = n0 /\ m = m0
             \/ /\ Copy(k, p, Before(di, dq, k, p, i), n, m)
                /\ ~(k = "queue" /\ p = e /\ Before(di, dq, k, p, i) = 1)
    <2>. USE DEF Before
    <2>1. CASE k = "queue"
        <3>1. p \in Ends /\ i \in DOMAIN queue'[p] /\ queue'[p][i] = Chat(m) /\ n = Them(p)
            BY <1>5, <2>1 DEF Copy, WriteFrame, Them, Inbound
        <3>2. CASE p = e
            <4>1. queue'[p] = Tail(queue[p])
                BY <3>1, <3>2 DEF WriteFrame, TypeOK
            <4>2. i \in Nat \ {0} /\ i + 1 \in DOMAIN queue[p] /\ queue[p][i + 1] = Chat(m)
                BY <1>1, <3>1, <3>2, <4>1, HeadTailProperties
            <4>. QED
                BY <2>1, <3>1, <3>2, <4>2 DEF Copy
        <3>3. CASE p # e
            <4>1. queue'[p] = queue[p] /\ i \in Nat
                BY <3>1, <3>3 DEF WriteFrame, TypeOK
            <4>. QED
                BY <2>1, <3>1, <3>3, <4>1 DEF Copy
        <3>. QED
            BY <3>2, <3>3
    <2>2. CASE k = "inbox"
        <3>1. p \in Ends /\ i \in DOMAIN inbox'[p] /\ inbox'[p][i] = Chat(m) /\ n = Me(p)
            BY <1>5, <2>2 DEF Copy, WriteFrame, Me, Inbound
        <3>2. CASE p = f
            <4>1. inbox'[p] = Append(inbox[p], queue[e][1]) /\ inbox[p] \in Seq(Frames)
                BY <1>1, <1>3, <3>1, <3>2 DEF WriteFrame, Sent, TypeOK
            <4>2. queue[e][1] \in Frames
                BY <1>1 DEF Frames
            <4>3. \/ i \in DOMAIN inbox[p] /\ inbox[p][i] = Chat(m)
                  \/ i = i1 /\ queue[e][1] = Chat(m)
                BY <3>1, <3>2, <4>1, <4>2, AppendProperties
            <4>4. CASE i \in DOMAIN inbox[p] /\ inbox[p][i] = Chat(m)
                <5>1. i + 0 = i
                    BY <4>1, <4>4
                <5>. QED
                    BY <2>2, <3>1, <4>4, <5>1 DEF Copy
            <4>5. CASE i = i1 /\ queue[e][1] = Chat(m)
                BY <1>2, <1>3, <2>2, <3>1, <3>2, <4>5, ChatFrames
            <4>. QED
                BY <4>3, <4>4, <4>5
        <3>3. CASE p # f
            <4>1. inbox'[p] = inbox[p] /\ i \in Nat
                BY <3>1, <3>3 DEF WriteFrame, Sent, TypeOK
            <4>. QED
                BY <2>2, <3>1, <4>1 DEF Copy
        <3>. QED
            BY <3>2, <3>3
    <2>3. CASE k \in {"log", "owed"}
        BY <1>5, <2>3 DEF Copy, WriteFrame, chatVars, Them, Inbound
    <2>. QED
        BY <1>5, <2>1, <2>2, <2>3 DEF Copy
<1>6. said' = said /\ di \in [Ends -> {0, 1}] /\ dq \in [Ends -> {0, 1}]
    BY DEF WriteFrame, chatVars
<1>7. Moves(di, dq, "queue", e, 1, "inbox", f, i1, n0, m0)
    <2>. HIDE DEF di, dq, f, m0, n0, i1
    <2>. QED
        BY <1>4, <1>5 DEF Moves
<1>. QED
    BY <1>6, <1>7 DEF OneMoves, Transmits

(* try_send: from whoever owes it to the queue.                            *)
LEMMA PutMoves ==
    ASSUME TypeOK, NEW a \in Actors, NEW e \in Ends, NEW p0 \in pending[a],
           p0[1] = e, pending' = [pending EXCEPT ![a] = @ \ {p0}],
           queue' = [queue EXCEPT ![e] = Append(@, p0[2])], p0[2].type = "Chat",
           UNCHANGED <<link, inbox, log, said>>
    PROVE  Enqueues(a, e, p0[2].message)
<1>. DEFINE d  == [g \in Ends |-> 0]
            m0 == p0[2].message
            n0 == Them(e)
            i1 == Len(queue[e]) + 1
<1>1. p0 = <<e, Chat(m0)>>
    <2>1. p0 \in Ends \X Queued
        BY DEF TypeOK
    <2>2. p0[2] \in [type : {"Chat"}, message : Messages]
        BY <2>1 DEF Queued
    <2>. QED
        BY <2>1, <2>2 DEF Chat
<1>2. Copy("owed", a, e, n0, m0)
    BY <1>1 DEF Copy
<1>3. ASSUME NEW k, NEW p, NEW i, NEW n, NEW m, Copy(k, p, i, n, m)'
      PROVE  \/ k = "queue" /\ p = e /\ i = i1 /\ n = n0 /\ m = m0
             \/ /\ Copy(k, p, Before(d, d, k, p, i), n, m)
                /\ ~(k = "owed" /\ p = a /\ Before(d, d, k, p, i) = e /\ m = m0)
    <2>. USE DEF Before
    <2>1. CASE k = "queue"
        <3>1. p \in Ends /\ i \in DOMAIN queue'[p] /\ queue'[p][i] = Chat(m) /\ n = Them(p)
            BY <1>3, <2>1 DEF Copy, Them, Inbound
        <3>2. CASE p = e
            <4>1. queue'[p] = Append(queue[p], Chat(m0)) /\ queue[p] \in Seq(Queued)
                BY <1>1, <3>1, <3>2 DEF TypeOK
            <4>2. Chat(m0) \in Queued
                BY <1>1 DEF TypeOK
            <4>3. \/ i \in DOMAIN queue[p] /\ queue[p][i] = Chat(m)
                  \/ i = i1 /\ Chat(m0) = Chat(m)
                BY <3>1, <3>2, <4>1, <4>2, AppendProperties
            <4>4. CASE i \in DOMAIN queue[p] /\ queue[p][i] = Chat(m)
                <5>1. i + 0 = i
                    BY <4>1, <4>4
                <5>. QED
                    BY <2>1, <3>1, <4>4, <5>1 DEF Copy
            <4>5. CASE i = i1 /\ Chat(m0) = Chat(m)
                BY <2>1, <3>1, <3>2, <4>5, ChatFrames
            <4>. QED
                BY <4>3, <4>4, <4>5
        <3>3. CASE p # e
            <4>1. queue'[p] = queue[p]
                BY <3>1, <3>3 DEF TypeOK
            <4>2. i \in DOMAIN queue[p] /\ i \in Nat
                BY <3>1, <4>1 DEF TypeOK
            <4>3. i + d[p] = i
                BY <3>1, <4>2
            <4>4. Copy("queue", p, i, n, m)
                BY <3>1, <4>1 DEF Copy
            <4>. QED
                BY <2>1, <4>3, <4>4
        <3>. QED
            BY <3>2, <3>3
    <2>2. CASE k = "inbox"
        <3>1. p \in Ends /\ i \in DOMAIN inbox[p] /\ inbox[p][i] = Chat(m) /\ n = Me(p)
            BY <1>3, <2>2 DEF Copy, Me, Inbound
        <3>2. i \in Nat
            BY <3>1 DEF TypeOK
        <3>. QED
            BY <2>2, <3>1, <3>2 DEF Copy
    <2>3. CASE k = "log"
        BY <1>3, <2>3 DEF Copy
    <2>4. CASE k = "owed"
        <3>1. p \in Actors /\ <<i, Chat(m)>> \in pending'[p] /\ n = Them(i)
            BY <1>3, <2>4 DEF Copy, Them, Inbound
        <3>2. <<i, Chat(m)>> \in pending[p] /\ (p = a => <<i, Chat(m)>> # p0)
            BY <3>1 DEF TypeOK
        <3>. QED
            BY <1>1, <2>4, <3>1, <3>2 DEF Copy
    <2>. QED
        BY <1>3, <2>1, <2>2, <2>3, <2>4 DEF Copy
<1>4. d \in [Ends -> {0, 1}]
    OBVIOUS
<1>5. Moves(d, d, "owed", a, e, "queue", e, i1, n0, m0)
    <2>. HIDE DEF d, m0, n0, i1
    <2>. QED
        BY <1>2, <1>3 DEF Moves
<1>. QED
    BY <1>4, <1>5 DEF OneMoves, Enqueues

-----------------------------------------------------------------------------
(* What is read, dropped or added that is no message.                      *)

Shrunk(t, s) == \E d \in {0, 1} : Shifted(t, s, d)

(* An inbox or a queue that is left alone, emptied, read, or grows by      *)
(* another frame.                                                          *)
LEMMA Shrinks ==
    /\ \A S : \A s \in Seq(S) : Shrunk(s, s) /\ Shrunk(<<>>, s)
    /\ \A S : \A s \in Seq(S) : s # <<>> => Shrunk(Tail(s), s)
    /\ \A S : \A s \in Seq(S) : \A f \in S : f.type # "Chat" => Shrunk(Append(s, f), s)
BY Shifts DEF Shrunk

(* A step that makes no copy, however far each queue and inbox moves up.   *)
LEMMA CopiesShrink ==
    ASSUME TypeOK, link' = link,
           \A e \in Ends : Shrunk(inbox'[e], inbox[e]),
           \A e \in Ends : Shrunk(queue'[e], queue[e]),
           \A n \in Nodes : log'[n] = log[n] \/ log'[n] = <<>>,
           \A a \in Actors : \A p \in pending'[a] : p[2].type = "Chat" => p \in pending[a]
    PROVE  NoneMade
<1>. DEFINE di == [e \in Ends |-> CHOOSE d \in {0, 1} : Shifted(inbox'[e], inbox[e], d)]
            dq == [e \in Ends |-> CHOOSE d \in {0, 1} : Shifted(queue'[e], queue[e], d)]
<1>1. \A e \in Ends : di[e] \in {0, 1} /\ Shifted(inbox'[e], inbox[e], di[e])
    BY DEF Shrunk
<1>2. \A e \in Ends : dq[e] \in {0, 1} /\ Shifted(queue'[e], queue[e], dq[e])
    BY DEF Shrunk
<1>3. di \in [Ends -> {0, 1}] /\ dq \in [Ends -> {0, 1}]
    BY <1>1, <1>2
<1>. HIDE DEF di, dq
<1>. QED
    BY <1>1, <1>2, <1>3, CopiesKept

(* Another frame, that is no message, is on its way.                       *)
LEMMA SentShrinks ==
    ASSUME TypeOK, NEW e \in Ends, NEW f \in Frames, f.type # "Chat"
    PROVE  /\ Sent(e, f)[e] = inbox[e]
           /\ \A g \in Ends : Shrunk(Sent(e, f)[g], inbox[g])
<1>1. Sent(e, f)[e] = inbox[e]
    BY FarEnd DEF Sent, TypeOK
<1>2. ASSUME NEW g \in Ends
      PROVE  Shrunk(Sent(e, f)[g], inbox[g])
    <2>1. inbox[g] \in Seq(Frames)
        BY DEF TypeOK
    <2>2. Sent(e, f)[g] \in {inbox[g], Append(inbox[g], f)}
        BY DEF Sent, TypeOK
    <2>. QED
        BY <2>1, <2>2, Shrinks
<1>. QED
    BY <1>1, <1>2

(* A task ends: what it had yet to read and to write is dropped.           *)
LEMMA FinishShrinks ==
    ASSUME TypeOK, NEW e \in Ends, Finish(e), UNCHANGED <<link, chatVars>>
    PROVE  NoneMade
<1>1. Eof \in Frames /\ Eof.type # "Chat"
    BY FrameTypes DEF Eof
<1>2. ASSUME NEW g \in Ends
      PROVE  Shrunk(inbox'[g], inbox[g]) /\ Shrunk(queue'[g], queue[g])
    <2>1. inbox[g] \in Seq(Frames) /\ queue[g] \in Seq(Queued)
        BY DEF TypeOK
    <2>2. inbox'[g] = IF g = e THEN <<>> ELSE Sent(e, Eof)[g]
        BY <1>1, SentType DEF Finish
    <2>3. queue'[g] = IF g = e THEN <<>> ELSE queue[g]
        BY DEF Finish, TypeOK
    <2>. QED
        BY <1>1, <2>1, <2>2, <2>3, SentShrinks, Shrinks
<1>. QED
    BY <1>2, CopiesShrink DEF chatVars

(* A frame is read, and nothing logged.                                    *)
LEMMA ReadShrinks ==
    ASSUME TypeOK, NEW e \in Ends, inbox[e] # <<>>,
           inbox' = [inbox EXCEPT ![e] = Tail(@)], UNCHANGED <<link, queue, chatVars>>
    PROVE  NoneMade
<1>1. ASSUME NEW g \in Ends
      PROVE  Shrunk(inbox'[g], inbox[g]) /\ Shrunk(queue'[g], queue[g])
    <2>1. inbox[g] \in Seq(Frames) /\ queue[g] \in Seq(Queued)
        BY DEF TypeOK
    <2>2. inbox'[g] = IF g = e THEN Tail(inbox[g]) ELSE inbox[g]
        BY DEF TypeOK
    <2>. QED
        BY <2>1, <2>2, Shrinks
<1>. QED
    BY <1>1, CopiesShrink DEF chatVars

(* Their Hello is read and answered.                                       *)
LEMMA HelloShrinks ==
    ASSUME TypeOK, Started, NEW e \in Ends, ReceiveHello(e)
    PROVE  NoneMade
<1>. DEFINE f == Auth(Room[Me(e)])
<1>1. f \in Frames /\ f.type # "Chat"
    BY StartedEnd, FrameTypes DEF ReceiveHello, Auth
<1>2. ASSUME NEW g \in Ends
      PROVE  Shrunk(inbox'[g], inbox[g]) /\ Shrunk(queue'[g], queue[g])
    <2>1. inbox[g] \in Seq(Frames) /\ queue[g] \in Seq(Queued)
        BY DEF TypeOK
    <2>2. inbox'[g] = IF g = e THEN Tail(Sent(e, f)[e]) ELSE Sent(e, f)[g]
        BY <1>1, SentType DEF ReceiveHello
    <2>3. inbox[e] # <<>> /\ queue' = queue
        BY DEF ReceiveHello, Waiting
    <2>. QED
        BY <1>1, <2>1, <2>2, <2>3, SentShrinks, Shrinks
<1>. QED
    BY <1>2, CopiesShrink DEF ReceiveHello, chatVars

(* A frame leaves the queue, and none that is a message arrives.           *)
LEMMA WriteShrinks ==
    ASSUME TypeOK, NEW e \in Ends,
           (WriteFrame(e) /\ ~(Reaches(e) /\ Head(queue[e]).type = "Chat")) \/ WriteFails(e)
    PROVE  NoneMade
<1>. DEFINE f == Head(queue[e])
<1>1. queue[e] # <<>> /\ f \in Frames
    BY TailType, FrameTypes DEF WriteFrame, WriteFails, TypeOK
<1>2. ASSUME NEW g \in Ends
      PROVE  Shrunk(inbox'[g], inbox[g]) /\ Shrunk(queue'[g], queue[g])
    <2>1. inbox[g] \in Seq(Frames) /\ queue[g] \in Seq(Queued)
        BY DEF TypeOK
    <2>2. queue'[g] = IF g = e THEN Tail(queue[g]) ELSE queue[g]
        BY DEF WriteFrame, WriteFails, TypeOK
    <2>3. \/ inbox'[g] = inbox[g]
          \/ f.type # "Chat" /\ inbox'[g] = Append(inbox[g], f)
        BY DEF WriteFrame, WriteFails, Sent, TypeOK
    <2>. QED
        BY <1>1, <2>1, <2>2, <2>3, Shrinks
<1>. QED
    BY <1>2, CopiesShrink DEF WriteFrame, WriteFails, chatVars

(* What is in flight on a connection that is cut is lost.                  *)
LEMMA CutShrinks ==
    ASSUME TypeOK, NEW c \in Conns, Cut(c)
    PROVE  NoneMade
<1>1. ASSUME NEW g \in Ends
      PROVE  Shrunk(inbox'[g], inbox[g]) /\ Shrunk(queue'[g], queue[g])
    <2>1. inbox[g] \in Seq(Frames) /\ queue[g] \in Seq(Queued) /\ queue' = queue
        BY DEF Cut, TypeOK
    <2>2. inbox'[g] = inbox[g] \/ inbox'[g] = <<Eof>>
        BY DEF Cut, TypeOK
    <2>3. \A i \in DOMAIN <<Eof>> : <<Eof>>[i].type # "Chat"
        BY DEF Eof
    <2>4. Shrunk(<<Eof>>, inbox[g])
        BY <2>3 DEF Shrunk, Shifted
    <2>. QED
        BY <2>1, <2>2, <2>4, Shrinks
<1>. QED
    BY <1>1, CopiesShrink DEF Cut, chatVars

(* A node that starts again has shown nothing and owes nothing.            *)
LEMMA RestartShrinks ==
    ASSUME TypeOK, NEW n \in Nodes, Restart(n)
    PROVE  NoneMade
<1>1. Eof \in Frames /\ Eof.type # "Chat"
    BY FrameTypes DEF Eof
<1>2. ASSUME NEW g \in Ends
      PROVE  Shrunk(inbox'[g], inbox[g]) /\ Shrunk(queue'[g], queue[g])
    <2>1. inbox[g] \in Seq(Frames) /\ queue[g] \in Seq(Queued) /\ Far(g) \in Ends
        BY FarEnd DEF TypeOK
    <2>2. inbox'[g] \in {<<>>, Sent(Far(g), Eof)[g], inbox[g]}
        BY DEF Restart
    <2>3. queue'[g] \in {<<>>, queue[g]}
        BY DEF Restart
    <2>4. Shrunk(Sent(Far(g), Eof)[g], inbox[g])
        BY <1>1, <2>1, SentShrinks
    <2>. QED
        BY <2>1, <2>2, <2>3, <2>4, Shrinks
<1>3. \A m \in Nodes : log'[m] = log[m] \/ log'[m] = <<>>
    BY DEF Restart, TypeOK
<1>4. \A a \in Actors : \A p \in pending'[a] : p \in pending[a]
    BY DEF Restart
<1>. QED
    BY <1>2, <1>3, <1>4, CopiesShrink DEF Restart

(* The announcement of an admission, and a frame no queue takes.           *)
LEMMA OwedShrinks ==
    ASSUME TypeOK, UNCHANGED <<link, inbox, log>>,
           \A e \in Ends : Shrunk(queue'[e], queue[e]),
           \A a \in Actors : \A p \in pending'[a] : p[2].type = "Chat" => p \in pending[a]
    PROVE  NoneMade
<1>1. \A e \in Ends : Shrunk(inbox'[e], inbox[e])
    BY Shrinks DEF TypeOK
<1>. QED
    BY <1>1, CopiesShrink

-----------------------------------------------------------------------------
(* What is new.                                                            *)

(* A message is said: every copy of it is owed.                            *)
LEMMA SayMakes ==
    ASSUME TypeOK, NEW n \in Nodes, Say(n)
    PROVE  \E m0 : Makes(n, m0)
<1>1. PICK long \in LongTexts :
        ToAll(User(n), n, Chat([from |-> n, id |-> said[n] + 1, long |-> long]))
    BY DEF Say
<1>. DEFINE m0 == [from |-> n, id |-> said[n] + 1, long |-> long]
<1>2. said[n] \in Nat /\ m0 \in Messages /\ m0.from = n /\ m0.id = said[n] + 1
    BY LimitsAssumption DEF TypeOK, Messages
<1>3. User(n) \in Actors /\ pending[User(n)] = {}
    BY DEF Actors, Say
<1>4. ASSUME NEW k, NEW p, NEW i, NEW q, NEW m, Copy(k, p, i, q, m)'
      PROVE  \/ Copy(k, p, i, q, m)
             \/ k = "owed" /\ p = User(n) /\ i \in Senders(n) /\ q = Them(i) /\ m = m0
    <2>. HIDE DEF m0
    <2>1. UNCHANGED <<link, queue, inbox, log>>
        BY DEF Say, netVars
    <2>2. CASE k # "owed"
        BY <1>4, <2>1, <2>2 DEF Copy, Them, Me, Inbound
    <2>3. CASE k = "owed"
        <3>1. p \in Actors /\ <<i, Chat(m)>> \in pending'[p] /\ q = Them(i)
            BY <1>4, <2>1, <2>3 DEF Copy, Them, Inbound
        <3>2. CASE p = User(n)
            <4>1. pending'[p] = {<<e, Chat(m0)>> : e \in Senders(n)}
                BY <1>1, <1>3, <3>2 DEF ToAll, TypeOK, m0
            <4>2. i \in Senders(n) /\ Chat(m) = Chat(m0)
                BY <3>1, <4>1
            <4>. QED
                BY <2>3, <3>1, <3>2, <4>2, ChatFrames
        <3>3. CASE p # User(n)
            <4>1. pending'[p] = pending[p]
                BY <1>1, <3>1, <3>3 DEF ToAll, TypeOK
            <4>. QED
                BY <2>3, <3>1, <4>1 DEF Copy
        <3>. QED
            BY <3>2, <3>3
    <2>. QED
        BY <2>2, <2>3
<1>. HIDE DEF m0
<1>. QED
    BY <1>2, <1>3, <1>4 DEF Makes

(* It is like none before it, and no two senders lead to the same peer.    *)
LEMMA SayCopies ==
    ASSUME TypeOK, RegisteredIsLive, CopyInv, NEW n \in Nodes, Say(n), NEW m0, Makes(n, m0)
    PROVE  CopyInv'
<1>. USE DEF Makes
<1>5. \A q \in Nodes : said[q] \in Nat /\ said'[q] = IF q = n THEN said[q] + 1 ELSE said[q]
    BY LimitsAssumption DEF Say, TypeOK
<1>6. ASSUME NEW k, NEW p, NEW i, NEW q, NEW m, Copy(k, p, i, q, m)
      PROVE  m \in Messages /\ m.id <= said[m.from] /\ m # m0
    BY <1>6 DEF CopyInv, OnlySaid
<1>7. ASSUME NEW i \in Senders(n), NEW j \in Senders(n), Them(i) = Them(j)
      PROVE  i = j
    <2>1. PICK p \in Nodes : connections[n][p] = i /\ i # NoSender
        BY DEF Senders
    <2>2. PICK q \in Nodes : connections[n][q] = j /\ j # NoSender
        BY DEF Senders
    <2>3. i \in Ends /\ j \in Ends
        BY <2>1, <2>2 DEF TypeOK
    <2>4. Them(i) = p /\ Them(j) = q
        BY <2>1, <2>2, <2>3 DEF RegisteredIsLive
    <2>. QED
        BY <1>7, <2>1, <2>2, <2>4
<1>8. OnlySaid'
    <2>. SUFFICES ASSUME NEW q, NEW m, NEW k, NEW p, NEW i, Copy(k, p, i, q, m)'
                  PROVE  m \in Messages /\ m.id <= said'[m.from]
        BY DEF OnlySaid
    <2>1. CASE Copy(k, p, i, q, m)
        <3>1. m.from \in Nodes /\ m.id \in Nat /\ m.id <= said[m.from] /\ m \in Messages
            BY <1>6, <2>1 DEF Messages
        <3>. QED
            BY <1>5, <3>1
    <2>2. CASE m = m0
        BY <1>5, <2>2
    <2>. QED
        BY <2>1, <2>2
<1>9. OneCopy'
    <2>. SUFFICES ASSUME NEW q, NEW m, NEW k, NEW p, NEW i, NEW l, NEW r, NEW j,
                         Copy(k, p, i, q, m)', Copy(l, r, j, q, m)'
                  PROVE  k = l /\ p = r /\ i = j
        BY DEF OneCopy
    <2>1. CASE m = m0
        BY <1>6, <1>7, <2>1
    <2>2. CASE m # m0
        <3>1. Copy(k, p, i, q, m) /\ Copy(l, r, j, q, m)
            BY <2>2
        <3>. QED
            BY <3>1 DEF CopyInv, OneCopy
    <2>. QED
        BY <2>1, <2>2
<1>. QED
    BY <1>8, <1>9 DEF CopyInv

(* A connection opens: nothing was waiting for it.                         *)
LEMMA OpenCopies ==
    ASSUME TypeOK, Dormant, NEW n \in Nodes, NEW m \in Nodes,
           NEW marked \in BOOLEAN, OpenLink(n, m, marked), UNCHANGED <<queue, chatVars>>
    PROVE  NoneMade
<1>1. PICK c \in Conns :
        /\ link[c] = NoLink
        /\ link' = [link EXCEPT ![c] = [from |-> n, to |-> m, marked |-> marked]]
        /\ inbox' = [inbox EXCEPT ![<<c, "out">>] = <<Hello(m)>>,
                                  ![<<c, "in">>] = <<Hello(n)>>]
    BY DEF OpenLink
<1>2. ASSUME NEW e \in Ends, e[1] # c
      PROVE  inbox'[e] = inbox[e] /\ Me(e)' = Me(e) /\ Them(e)' = Them(e)
    <2>1. link'[e[1]] = link[e[1]]
        BY <1>1, <1>2, FarEnd DEF TypeOK
    <2>. QED
        BY <1>1, <1>2, <2>1 DEF Me, Them, Inbound, TypeOK
<1>3. ASSUME NEW e \in Ends, e[1] = c
      PROVE  /\ \A i \in DOMAIN inbox'[e] : inbox'[e][i].type # "Chat"
             /\ queue[e] = <<>>
             /\ \A a \in Actors : \A p \in pending[a] : p[1] # e
    <2>1. e = <<c, "out">> \/ e = <<c, "in">>
        BY <1>3 DEF Ends
    <2>2. inbox'[e] = <<Hello(m)>> \/ inbox'[e] = <<Hello(n)>>
        BY <1>1, <2>1 DEF TypeOK
    <2>3. \A i \in DOMAIN inbox'[e] : inbox'[e][i].type # "Chat"
        BY <2>2 DEF Hello
    <2>. QED
        BY <1>1, <1>3, <2>3 DEF Dormant
<1>4. ASSUME NEW k, NEW p, NEW i, NEW q, NEW l, Copy(k, p, i, q, l)'
      PROVE  Copy(k, p, i, q, l)
    <2>. USE <1>2, <1>3, <1>4, ChatFrames DEF Copy, chatVars
    <2>1. CASE k = "queue"
        <3>1. p \in Ends /\ i \in DOMAIN queue[p] /\ queue[p][i] = Chat(l) /\ q = Them(p)'
            BY <2>1
        <3>2. p[1] # c
            BY <3>1
        <3>. QED
            BY <2>1, <3>1, <3>2
    <2>2. CASE k = "inbox"
        <3>1. p \in Ends /\ i \in DOMAIN inbox'[p] /\ inbox'[p][i] = Chat(l) /\ q = Me(p)'
            BY <2>2
        <3>2. p[1] # c
            BY <3>1
        <3>. QED
            BY <2>2, <3>1, <3>2
    <2>3. CASE k = "log"
        BY <2>3
    <2>4. CASE k = "owed"
        <3>1. p \in Actors /\ <<i, Chat(l)>> \in pending[p] /\ q = Them(i)'
            BY <2>4
        <3>2. i \in Ends
            BY <3>1 DEF TypeOK
        <3>3. i[1] # c
            BY <3>1, <3>2
        <3>. QED
            BY <2>4, <3>1, <3>2, <3>3
    <2>. QED
        BY <2>1, <2>2, <2>3, <2>4
<1>. DEFINE d == [e \in Ends |-> 0]
<1>5. ASSUME NEW k, NEW p, NEW i, NEW q, NEW l, Copy(k, p, i, q, l)
      PROVE  Before(d, d, k, p, i) = i
    <2>1. k \in {"queue", "inbox"} => p \in Ends /\ i \in Nat
        BY <1>5 DEF Copy, TypeOK
    <2>. QED
        BY <2>1 DEF Before
<1>6. d \in [Ends -> {0, 1}]
    OBVIOUS
<1>. HIDE DEF d
<1>. QED
    BY <1>4, <1>5, <1>6 DEF NoneMade, Unmade

-----------------------------------------------------------------------------
(* Nothing waits for a connection still to be opened.                      *)

(* Queues grow, and frames are owed, only where a task has started.        *)
LEMMA DormantKept ==
    ASSUME TypeOK, TypeOK', Started, Dormant,
           \A c \in Conns : link'[c] = NoLink => link[c] = NoLink,
           \A e \in Ends : queue'[e] # <<>> => queue[e] # <<>> \/ phase[e] # "idle",
           \A a \in Actors : \A p \in pending'[a] : p \in pending[a] \/ phase[p[1]] # "idle"
    PROVE  Dormant'
<1>. SUFFICES ASSUME NEW e \in Ends, link'[e[1]] = NoLink
              PROVE  /\ queue'[e] = <<>>
                     /\ \A a \in Actors : \A p \in pending'[a] : p[1] # e
    BY DEF Dormant
<1>1. link[e[1]] = NoLink
    BY FarEnd
<1>. QED
    BY <1>1 DEF Dormant, Started

(* Whom a node would send to has a task that has started.                  *)
LEMMA SendersStarted ==
    ASSUME TypeOK, RegisteredIsLive, NEW n \in Nodes, NEW e \in Senders(n)
    PROVE  e \in Ends /\ phase[e] # "idle"
<1>1. PICK p \in Nodes : connections[n][p] = e /\ e # NoSender
    BY DEF Senders
<1>2. e \in Ends
    BY <1>1 DEF TypeOK
<1>. QED
    BY <1>1, <1>2 DEF RegisteredIsLive, Admitted

(* Every step leaves it so.                                                *)
LEMMA DormantStep ==
    ASSUME TypeOK, TypeOK', Started, RegisteredIsLive, Dormant, [Next]_vars
    PROVE  Dormant'
<1>1. ASSUME link' = link,
             \A e \in Ends : queue'[e] # <<>> => queue[e] # <<>> \/ phase[e] # "idle",
             \A a \in Actors : pending'[a] \subseteq pending[a]
      PROVE  Dormant'
    BY <1>1, DormantKept
<1>2. ASSUME NEW a \in Actors, NEW n \in Nodes, NEW f, ToAll(a, n, f), UNCHANGED <<link, queue>>
      PROVE  Dormant'
    <2>1. \A b \in Actors : \A p \in pending'[b] :
              p \in pending[b] \/ \E e \in Senders(n) : p = <<e, f>>
        BY <1>2 DEF ToAll, TypeOK
    <2>2. \A b \in Actors : \A p \in pending'[b] : p \in pending[b] \/ phase[p[1]] # "idle"
        BY <2>1, SendersStarted
    <2>. QED
        BY <1>2, <2>2, DormantKept
<1>3. CASE Dial
    <2>1. ASSUME NEW n \in Nodes, NEW m \in Nodes, NEW marked \in BOOLEAN,
                 OpenLink(n, m, marked), UNCHANGED <<queue, pending>>
          PROVE  Dormant'
        <3>1. \A c \in Conns : link[c] # NoLink => link'[c] = link[c]
            BY <2>1, OpenLinkKeeps
        <3>. QED
            BY <2>1, <3>1, DormantKept
    <2>2. ASSUME NEW n \in Nodes, NEW m \in Nodes, Connect(n, m)
          PROVE  Dormant'
        BY <2>1, <2>2 DEF Connect, chatVars
    <2>3. ASSUME NEW n \in Nodes, NEW m \in Nodes, GossipDial(n, m)
          PROVE  Dormant'
        BY <2>1, <2>3 DEF GossipDial, chatVars
    <2>4. ASSUME NEW n \in Nodes, NEW m \in Nodes, GossipDialFails(n, m)
          PROVE  Dormant'
        BY <1>1, <2>4 DEF GossipDialFails, netVars, chatVars
    <2>. QED
        BY <1>3, <2>2, <2>3, <2>4 DEF Dial
<1>4. ASSUME NEW e \in Ends, Task(e) \/ HandshakeTimeout(e)
      PROVE  Dormant'
    <2>1. CASE AnnouncePeers(e)
        <3>1. Me(e) \in Nodes /\ e \in Actors
            BY <2>1, StartedEnd DEF AnnouncePeers, Actors
        <3>. QED
            BY <1>2, <2>1, <3>1 DEF AnnouncePeers
    <2>2. ASSUME Finish(e), UNCHANGED <<link, chatVars>>
          PROVE  Dormant'
        BY <1>1, <2>2 DEF Finish, chatVars, TypeOK
    <2>3. CASE Reject(e) \/ HandshakeFails(e) \/ HandshakeTimeout(e)
               \/ DisconnectSuperseded(e) \/ EmitLeft(e)
        BY <2>2, <2>3 DEF Reject, HandshakeFails, HandshakeTimeout, DisconnectSuperseded, EmitLeft
    <2>4. CASE ReceiveHello(e) \/ AdmitNew(e) \/ Supersede(e) \/ EmitJoined(e)
               \/ DisconnectHeld(e) \/ FinishedDialing(e)
        BY <1>1, <2>4 DEF ReceiveHello, AdmitNew, Supersede, Register, EmitJoined,
                          DisconnectHeld, FinishedDialing, chatVars
    <2>. QED
        BY <1>4, <2>1, <2>3, <2>4 DEF Task
<1>5. ASSUME NEW e \in Ends, Reads(e) \/ Writes(e)
      PROVE  Dormant'
    <2>1. CASE Reads(e)
        BY <1>1, <2>1 DEF Reads, ReceiveGossip, ReceiveChat, ReceiveEof, chatVars
    <2>2. CASE Writes(e)
        <3>1. /\ phase[e] # "idle" /\ link' = link /\ pending' = pending
              /\ queue' = [queue EXCEPT ![e] = Tail(@)]
            BY <2>2 DEF Writes, WriteFrame, WriteFails, Pumping, chatVars
        <3>2. \A g \in Ends : g # e => queue'[g] = queue[g]
            BY <3>1 DEF TypeOK
        <3>. QED
            BY <1>1, <3>1, <3>2
    <2>. QED
        BY <1>5, <2>1, <2>2
<1>6. ASSUME NEW n \in Nodes, Say(n)
      PROVE  Dormant'
    <2>1. PICK f : ToAll(User(n), n, f)
        BY <1>6 DEF Say
    <2>2. User(n) \in Actors
        BY DEF Actors
    <2>. QED
        BY <1>2, <1>6, <2>1, <2>2 DEF Say, netVars
<1>7. ASSUME NEW a \in Actors, NEW e \in Ends, Put(a, e)
      PROVE  Dormant'
    <2>1. PICK p \in pending[a] :
            /\ p[1] = e
            /\ pending' = [pending EXCEPT ![a] = @ \ {p}]
            /\ queue' = [queue EXCEPT ![e] = IF Accepts(e) THEN Append(@, p[2]) ELSE @]
            /\ link' = link
        BY <1>7 DEF Put
    <2>2. \A g \in Ends : queue'[g] = queue[g] \/ phase[g] # "idle"
        BY <2>1 DEF Accepts, Open, Handshaking, Admitted, TypeOK
    <2>3. \A b \in Actors : pending'[b] \subseteq pending[b]
        BY <2>1 DEF TypeOK
    <2>. QED
        BY <1>1, <2>1, <2>2, <2>3
<1>8. ASSUME NEW n \in Nodes, Restart(n)
      PROVE  Dormant'
    <2>1. /\ \A e \in Ends : queue'[e] \in {<<>>, queue[e]}
          /\ \A a \in Actors : pending'[a] \subseteq pending[a]
          /\ link' = link
        BY <1>8 DEF Restart
    <2>. QED
        BY <1>1, <2>1
<1>9. CASE (\E c \in Conns : Cut(c)) \/ UNCHANGED vars
    BY <1>1, <1>9 DEF Cut, chatVars, vars
<1>. QED
    BY <1>3, <1>4, <1>5, <1>6, <1>7, <1>8, <1>9 DEF Next

-----------------------------------------------------------------------------
(* The theorem.                                                            *)

(* What a step may do to the copies.                                       *)
CopySteps ==
    \/ said' = said /\ NoneMade
    \/ said' = said /\ \E e \in Ends : Shows(e)
    \/ said' = said /\ \E e \in Ends : Transmits(e)
    \/ said' = said /\ \E a \in Actors, e \in Ends : \E m : Enqueues(a, e, m)
    \/ \E n \in Nodes : Say(n) /\ \E m : Makes(n, m)

(* No step does anything else to them.                                     *)
LEMMA CopyStep ==
    ASSUME TypeOK, Started, Dormant, [Next]_vars
    PROVE  CopySteps
<1>. USE DEF CopySteps
<1>1. ASSUME UNCHANGED <<link, inbox, queue, chatVars>>
      PROVE  CopySteps
    <2>1. \A e \in Ends : Shrunk(queue[e], queue[e])
        BY Shrinks DEF TypeOK
    <2>. QED
        BY <1>1, <2>1, OwedShrinks DEF chatVars
<1>2. CASE Dial
    <2>1. ASSUME NEW n \in Nodes, NEW m \in Nodes, Connect(n, m)
          PROVE  CopySteps
        BY <2>1, OpenCopies DEF Connect, chatVars
    <2>2. ASSUME NEW n \in Nodes, NEW m \in Nodes, GossipDial(n, m)
          PROVE  CopySteps
        BY <2>2, OpenCopies DEF GossipDial, chatVars
    <2>3. ASSUME NEW n \in Nodes, NEW m \in Nodes, GossipDialFails(n, m)
          PROVE  CopySteps
        BY <1>1, <2>3 DEF GossipDialFails, netVars
    <2>. QED
        BY <1>2, <2>1, <2>2, <2>3 DEF Dial
<1>3. ASSUME NEW e \in Ends, Task(e) \/ HandshakeTimeout(e)
      PROVE  CopySteps
    <2>1. CASE ReceiveHello(e)
        BY <2>1, HelloShrinks DEF ReceiveHello, chatVars
    <2>2. CASE AdmitNew(e) \/ Supersede(e)
        BY <2>2, ReadShrinks DEF AdmitNew, Supersede, ReadsProof, Waiting, Register, chatVars
    <2>3. CASE Reject(e) \/ HandshakeFails(e) \/ HandshakeTimeout(e)
               \/ DisconnectSuperseded(e) \/ EmitLeft(e)
        BY <2>3, FinishShrinks
        DEF Reject, HandshakeFails, HandshakeTimeout, DisconnectSuperseded, EmitLeft, chatVars
    <2>4. CASE AnnouncePeers(e)
        <3>1. e \in Actors /\ Gossip(registry[Me(e)]).type # "Chat"
            BY DEF Actors, Gossip
        <3>2. \A a \in Actors : \A p \in pending'[a] :
                  p \in pending[a] \/ p[2] = Gossip(registry[Me(e)])
            BY <2>4, <3>1 DEF AnnouncePeers, ToAll, TypeOK
        <3>3. \A g \in Ends : Shrunk(queue[g], queue[g])
            BY Shrinks DEF TypeOK
        <3>. QED
            BY <2>4, <3>1, <3>2, <3>3, OwedShrinks DEF AnnouncePeers
    <2>5. CASE EmitJoined(e) \/ DisconnectHeld(e) \/ FinishedDialing(e)
        BY <1>1, <2>5 DEF EmitJoined, DisconnectHeld, FinishedDialing
    <2>. QED
        BY <1>3, <2>1, <2>2, <2>3, <2>4, <2>5 DEF Task
<1>4. ASSUME NEW e \in Ends, Reads(e) \/ Writes(e)
      PROVE  CopySteps
    <2>1. CASE ReceiveGossip(e)
        BY <2>1, ReadShrinks DEF ReceiveGossip, Waiting, chatVars
    <2>2. CASE ReceiveChat(e)
        BY <2>2, ChatMoves DEF ReceiveChat
    <2>3. CASE ReceiveEof(e)
        BY <1>1, <2>3 DEF ReceiveEof
    <2>4. CASE WriteFrame(e) /\ Reaches(e) /\ Head(queue[e]).type = "Chat"
        BY <2>4, WriteMoves DEF WriteFrame, chatVars
    <2>5. CASE (WriteFrame(e) /\ ~(Reaches(e) /\ Head(queue[e]).type = "Chat")) \/ WriteFails(e)
        BY <2>5, WriteShrinks DEF WriteFrame, WriteFails, chatVars
    <2>. QED
        BY <1>4, <2>1, <2>2, <2>3, <2>4, <2>5 DEF Reads, Writes
<1>5. ASSUME NEW a \in Actors, NEW e \in Ends, Put(a, e)
      PROVE  CopySteps
    <2>1. PICK p \in pending[a] :
            /\ p[1] = e
            /\ pending' = [pending EXCEPT ![a] = @ \ {p}]
            /\ queue' = [queue EXCEPT ![e] = IF Accepts(e) THEN Append(@, p[2]) ELSE @]
            /\ UNCHANGED <<link, inbox, log, said>>
        BY <1>5 DEF Put
    <2>2. CASE Accepts(e) /\ p[2].type = "Chat"
        <3>1. queue' = [queue EXCEPT ![e] = Append(@, p[2])]
            BY <2>1, <2>2
        <3>. QED
            BY <2>1, <2>2, <3>1, PutMoves
    <2>3. CASE ~(Accepts(e) /\ p[2].type = "Chat")
        <3>1. p[2] \in Queued
            BY DEF TypeOK
        <3>2. ASSUME NEW g \in Ends
              PROVE  Shrunk(queue'[g], queue[g])
            <4>1. queue[g] \in Seq(Queued)
                BY DEF TypeOK
            <4>2. CASE Accepts(e) /\ g = e
                <5>1. queue'[g] = Append(queue[g], p[2]) /\ p[2].type # "Chat"
                    BY <2>1, <2>3, <4>2 DEF TypeOK
                <5>. QED
                    BY <3>1, <4>1, <5>1, Shrinks
            <4>3. CASE ~(Accepts(e) /\ g = e)
                <5>1. queue'[g] = queue[g]
                    BY <2>1, <4>3 DEF TypeOK
                <5>. QED
                    BY <4>1, <5>1, Shrinks
            <4>. QED
                BY <4>2, <4>3
        <3>3. \A b \in Actors : pending'[b] \subseteq pending[b]
            BY <2>1 DEF TypeOK
        <3>. QED
            BY <2>1, <3>2, <3>3, OwedShrinks
    <2>. QED
        BY <2>2, <2>3
<1>6. CASE UNCHANGED vars
    BY <1>1, <1>6 DEF vars, chatVars
<1>7. ASSUME NEW n \in Nodes, Say(n)
      PROVE  CopySteps
    BY <1>7, SayMakes
<1>8. CASE (\E c \in Conns : Cut(c)) \/ (\E n \in Nodes : Restart(n))
    BY <1>8, CutShrinks, RestartShrinks DEF Cut, Restart, chatVars
<1>. QED
    BY <1>2, <1>3, <1>4, <1>5, <1>6, <1>7, <1>8 DEF Next

(* None of that makes a second copy.                                       *)
LEMMA CopiesStep ==
    ASSUME TypeOK, TypeOK', RegisteredIsLive, CopyInv, CopySteps
    PROVE  CopyInv'
<1>1. ASSUME NEW k0, NEW p0, NEW i0, NEW k1, NEW p1, NEW i1, NEW n0, NEW m0, said' = said,
             OneMoves(k0, p0, i0, k1, p1, i1, n0, m0)
      PROVE  CopyInv'
    BY <1>1, CopyMoved DEF OneMoves
<1>2. CASE said' = said /\ NoneMade
    BY <1>2, UnmadeCopies
<1>3. ASSUME said' = said, NEW e \in Ends, Shows(e) \/ Transmits(e)
      PROVE  CopyInv'
    BY <1>1, <1>3 DEF Shows, Transmits
<1>4. ASSUME said' = said, NEW a \in Actors, NEW e \in Ends, NEW m, Enqueues(a, e, m)
      PROVE  CopyInv'
    BY <1>1, <1>4 DEF Enqueues
<1>5. ASSUME NEW n \in Nodes, NEW m, Say(n), Makes(n, m)
      PROVE  CopyInv'
    BY <1>5, SayCopies
<1>. QED
    BY <1>2, <1>3, <1>4, <1>5 DEF CopySteps

(* The strengthened invariant.                                             *)
LEMMA CopyInvariance == Spec => [](Dormant /\ CopyInv)
<1>1. Init => Dormant /\ CopyInv
    BY DEF Init, Dormant, CopyInv, OneCopy, OnlySaid, Copy
<1>2. IInv /\ IInv' /\ Dormant /\ CopyInv /\ [Next]_vars => Dormant' /\ CopyInv'
    BY DormantStep, CopyStep, CopiesStep DEF IInv
<1>. QED
    BY <1>1, <1>2, Invariance, PTL DEF Spec

(* A message is put once on the queue of the one connection its author     *)
(* holds to a peer, and taken once from there, from the socket and by the  *)
(* reader, whatever becomes of that connection: send_chat, pump and        *)
(* receive_chat (node.rs) show a user nothing twice, and nothing unsaid.   *)
THEOREM NeverShownTwice == Spec => []NoDuplicates
<1>1. CopyInv => NoDuplicates
    <2>. SUFFICES ASSUME CopyInv, NEW n \in Nodes, NEW i \in DOMAIN log[n], NEW j \in DOMAIN log[n]
                  PROVE  /\ log[n][i].id <= said[log[n][i].from]
                         /\ log[n][i] = log[n][j] => i = j
        BY DEF NoDuplicates
    <2>1. Copy("log", n, i, n, log[n][i]) /\ Copy("log", n, j, n, log[n][j])
        BY DEF Copy
    <2>. QED
        BY <2>1 DEF CopyInv, OneCopy, OnlySaid
<1>. QED
    BY <1>1, CopyInvariance, PTL

-----------------------------------------------------------------------------
(* The order of messages.                                                  *)

(* The end a copy on its way waits at.                                     *)
Side(k, p, i) == IF k = "owed" THEN i ELSE p

(* It is an end of a connection between its author and whom it is for, and *)
(* its author is the user who owes it.                                     *)
OnPath(k, p, i, n, m) ==
    /\ Side(k, p, i) \in Ends /\ link[Side(k, p, i)[1]] # NoLink /\ n # m.from
    /\ k = "inbox" => Me(Side(k, p, i)) = n /\ Them(Side(k, p, i)) = m.from
    /\ k # "inbox" => Me(Side(k, p, i)) = m.from /\ Them(Side(k, p, i)) = n
    /\ k = "owed" => p = User(m.from)

(* No user owes two messages at a time.                                    *)
PathInv ==
    /\ \A k, p, i, n, m : Copy(k, p, i, n, m) /\ k # "log" => OnPath(k, p, i, n, m)
    /\ \A p, i, n, m, j, q, w : Copy("owed", p, i, n, m) /\ Copy("owed", p, j, q, w) => m = w

(* How far a message still has to go.                                      *)
Rank(k) == CASE k = "log" -> 0 [] k = "inbox" -> 1 [] k = "queue" -> 2 [] k = "owed" -> 3

(* It is ahead of another by the place it is at, or in a line they share.  *)
Ahead(k, i, l, j) == Rank(k) < Rank(l) \/ (k = l /\ k # "owed" /\ i < j)

(* Of two messages of one author for a node that never had more than one   *)
(* connection to it, the one ahead was said first.                         *)
OrderInv ==
    \A n, m, w, k, p, i, l, q, j :
        /\ Copy(k, p, i, n, m) /\ Copy(l, q, j, n, w)
        /\ m.from = w.from /\ Single(n, m.from) /\ Ahead(k, i, l, j)
        => m.id < w.id

(* Where there is a copy.                                                  *)
LEMMA CopyPlaces ==
    ASSUME NEW k, NEW p, NEW i, NEW n, NEW m, Copy(k, p, i, n, m)
    PROVE  /\ k \in {"log", "inbox", "queue", "owed"}
           /\ k = "log" => p = n
           /\ k = "inbox" => p \in Ends /\ i \in DOMAIN inbox[p] /\ inbox[p][i] = Chat(m)
           /\ k = "queue" => p \in Ends /\ i \in DOMAIN queue[p] /\ queue[p][i] = Chat(m)
BY DEF Copy

(* With one connection between them, there is one way to go.               *)
LEMMA SamePath ==
    ASSUME PathInv, NEW n, NEW m, NEW w, NEW k, NEW p, NEW i, NEW l, NEW q, NEW j,
           Copy(k, p, i, n, m), Copy(l, q, j, n, w), k # "log", l # "log",
           m.from = w.from, Single(n, m.from)
    PROVE  /\ (k = "inbox" <=> l = "inbox") => Side(k, p, i) = Side(l, q, j)
           /\ k # "inbox" /\ l = "inbox" => Side(l, q, j) = Far(Side(k, p, i))
<1>. DEFINE e == Side(k, p, i)
            f == Side(l, q, j)
<1>1. OnPath(k, p, i, n, m) /\ OnPath(l, q, j, n, w)
    BY DEF PathInv
<1>2. e \in Ends /\ f \in Ends /\ n # m.from
    BY <1>1 DEF OnPath
<1>3. /\ k = "inbox" => Me(e) = n /\ Them(e) = m.from
      /\ k # "inbox" => Me(e) = m.from /\ Them(e) = n
      /\ l = "inbox" => Me(f) = n /\ Them(f) = m.from
      /\ l # "inbox" => Me(f) = m.from /\ Them(f) = n
      /\ link[e[1]] # NoLink /\ link[f[1]] # NoLink
    BY <1>1 DEF OnPath
<1>. HIDE DEF e, f
<1>4. \A g \in Ends : {link[g[1]].from, link[g[1]].to} = {Me(g), Them(g)} /\ g[1] \in Conns
    BY FarEnd DEF Me, Them
<1>5. e[1] \in Between(n, m.from) /\ f[1] \in Between(n, m.from)
    BY <1>2, <1>3, <1>4 DEF Between
<1>6. f[1] = e[1]
    BY <1>5 DEF Single
<1>7. f = e \/ f = Far(e)
    BY <1>2, <1>6, FarFar
<1>8. Me(Far(e)) = Them(e)
    BY <1>2, FarSide
<1>9. /\ (k = "inbox" <=> l = "inbox") => e = f
      /\ k # "inbox" /\ l = "inbox" => f = Far(e)
    BY <1>2, <1>3, <1>7, <1>8
<1>. QED
    BY <1>9 DEF e, f

(* Messages keep to their path.                                            *)
LEMMA PathStep ==
    ASSUME TypeOK, Started, RegisteredIsLive, LinksKept, PathInv, CopySteps
    PROVE  PathInv'
<1>1. ASSUME NEW e \in Ends, link[e[1]] # NoLink
      PROVE  link'[e[1]] # NoLink /\ Me(e)' = Me(e) /\ Them(e)' = Them(e)
    <2>1. link'[e[1]] = link[e[1]]
        BY <1>1, FarEnd DEF LinksKept
    <2>. QED
        BY <1>1, <2>1 DEF Me, Them, Inbound
<1>2. ASSUME NEW k, NEW p, NEW i, NEW n, NEW m, OnPath(k, p, i, n, m)
      PROVE  OnPath(k, p, i, n, m)'
    BY <1>1, <1>2 DEF OnPath, Side
<1>3. ASSUME NEW k, NEW p, NEW i, NEW n, NEW m, NEW di, NEW dq,
             Copy(k, p, Before(di, dq, k, p, i), n, m), k # "log"
      PROVE  OnPath(k, p, i, n, m)
    <2>1. OnPath(k, p, Before(di, dq, k, p, i), n, m)
        BY <1>3 DEF PathInv
    <2>2. Side(k, p, Before(di, dq, k, p, i)) = Side(k, p, i)
        BY DEF Side, Before
    <2>. QED
        BY <2>1, <2>2 DEF OnPath
<1>4. ASSUME NEW di, NEW dq,
             \A p, i, n, m : Copy("owed", p, i, n, m)' => Copy("owed", p, Before(di, dq, "owed", p, i), n, m)
      PROVE  \A p, i, n, m, j, q, w :
                 Copy("owed", p, i, n, m)' /\ Copy("owed", p, j, q, w)' => m = w
    BY <1>4 DEF PathInv
<1>5. ASSUME NEW k0, NEW p0, NEW i0, NEW k1, NEW p1, NEW i1, NEW n0, NEW m0,
             OneMoves(k0, p0, i0, k1, p1, i1, n0, m0),
             k1 # "log" => OnPath(k1, p1, i1, n0, m0), k1 # "owed"
      PROVE  PathInv'
    <2>1. PICK di, dq : Moves(di, dq, k0, p0, i0, k1, p1, i1, n0, m0)
        BY <1>5 DEF OneMoves
    <2>2. ASSUME NEW k, NEW p, NEW i, NEW n, NEW m, Copy(k, p, i, n, m)', k # "log"
          PROVE  OnPath(k, p, i, n, m)'
        BY <1>2, <1>3, <1>5, <2>1, <2>2 DEF Moves
    <2>3. \A p, i, n, m : Copy("owed", p, i, n, m)' => Copy("owed", p, Before(di, dq, "owed", p, i), n, m)
        BY <1>5, <2>1 DEF Moves
    <2>. QED
        BY <1>4, <2>2, <2>3 DEF PathInv
<1>6. CASE NoneMade
    <2>1. PICK di, dq : Unmade(di, dq)
        BY <1>6 DEF NoneMade
    <2>2. ASSUME NEW k, NEW p, NEW i, NEW n, NEW m, Copy(k, p, i, n, m)', k # "log"
          PROVE  OnPath(k, p, i, n, m)'
        BY <1>2, <1>3, <2>1, <2>2 DEF Unmade
    <2>3. \A p, i, n, m : Copy("owed", p, i, n, m)' => Copy("owed", p, Before(di, dq, "owed", p, i), n, m)
        BY <2>1 DEF Unmade
    <2>. QED
        BY <1>4, <2>2, <2>3 DEF PathInv
<1>7. ASSUME NEW e \in Ends, Shows(e)
      PROVE  PathInv'
    BY <1>5, <1>7 DEF Shows
<1>8. ASSUME NEW e \in Ends, Transmits(e)
      PROVE  PathInv'
    <2>. DEFINE m0 == Head(queue[e]).message
    <2>1. OnPath("queue", e, 1, Them(e), m0)
        BY <1>8 DEF Transmits, OneMoves, Moves, PathInv
    <2>2. OnPath("inbox", Far(e), Len(inbox[Far(e)]) + 1, Them(e), m0)
        BY <2>1, FarEnd, FarSide DEF OnPath, Side
    <2>. QED
        BY <1>5, <1>8, <2>2 DEF Transmits
<1>9. ASSUME NEW a \in Actors, NEW e \in Ends, NEW m, Enqueues(a, e, m)
      PROVE  PathInv'
    <2>1. OnPath("owed", a, e, Them(e), m)
        BY <1>9 DEF Enqueues, OneMoves, Moves, PathInv
    <2>2. OnPath("queue", e, Len(queue[e]) + 1, Them(e), m)
        BY <2>1 DEF OnPath, Side
    <2>. QED
        BY <1>5, <1>9, <2>2 DEF Enqueues
<1>10. ASSUME NEW n \in Nodes, NEW m0, Makes(n, m0)
       PROVE  PathInv'
    <2>1. ASSUME NEW i \in Senders(n)
          PROVE  /\ i \in Ends /\ link[i[1]] # NoLink
                 /\ Me(i) = n /\ Them(i) # n
        <3>1. PICK p \in Nodes : connections[n][p] = i /\ i # NoSender
            BY <2>1 DEF Senders
        <3>2. i \in Ends
            BY <3>1 DEF TypeOK
        <3>. QED
            BY <3>1, <3>2 DEF RegisteredIsLive, Started, Admitted
    <2>2. ASSUME NEW i \in Senders(n)
          PROVE  OnPath("owed", User(n), i, Them(i), m0)
        BY <1>10, <2>1 DEF OnPath, Side, Makes
    <2>3. ASSUME NEW k, NEW p, NEW i, NEW q, NEW m, Copy(k, p, i, q, m)', k # "log"
          PROVE  OnPath(k, p, i, q, m)'
        BY <1>2, <1>10, <2>2, <2>3 DEF Makes, PathInv
    <2>4. \A i, q, m : ~Copy("owed", User(n), i, q, m)
        BY <1>10 DEF Makes, Copy
    <2>5. \A p, i, q, m, j, r, w :
              Copy("owed", p, i, q, m)' /\ Copy("owed", p, j, r, w)' => m = w
        BY <1>10, <2>4 DEF Makes, PathInv
    <2>. QED
        BY <2>3, <2>5 DEF PathInv
<1>. QED
    BY <1>6, <1>7, <1>8, <1>9, <1>10 DEF CopySteps

(* Two messages that stay where they are stay in order.                    *)
LEMMA AheadBefore ==
    ASSUME TypeOK, TypeOK', PathInv, NEW di \in [Ends -> {0, 1}], NEW dq \in [Ends -> {0, 1}],
           NEW n, NEW m, NEW w, NEW k, NEW p, NEW i, NEW l, NEW q, NEW j,
           Copy(k, p, i, n, m)', Copy(l, q, j, n, w)',
           Copy(k, p, Before(di, dq, k, p, i), n, m), Copy(l, q, Before(di, dq, l, q, j), n, w),
           m.from = w.from, Single(n, m.from), Ahead(k, i, l, j)
    PROVE  Ahead(k, Before(di, dq, k, p, i), l, Before(di, dq, l, q, j))
<1>1. CASE Rank(k) < Rank(l)
    BY <1>1 DEF Ahead
<1>2. CASE k = l /\ k # "owed" /\ i < j
    <2>1. p = q
        <3>1. CASE k = "log"
            BY <1>2, <3>1, CopyPlaces
        <3>2. CASE k # "log"
            BY <1>2, <3>2, SamePath DEF Side
        <3>. QED
            BY <3>1, <3>2
    <2>2. i \in Nat /\ j \in Nat
        BY <1>2 DEF Copy, TypeOK
    <2>3. k \in {"inbox", "queue"} => p \in Ends
        BY CopyPlaces
    <2>4. Before(di, dq, k, p, i) < Before(di, dq, k, p, j)
        BY <1>2, <2>2, <2>3 DEF Before
    <2>. QED
        BY <1>2, <2>1, <2>4 DEF Ahead
<1>. QED
    BY <1>1, <1>2 DEF Ahead

(* One message moves on, and whatever was ahead of it stays ahead, and     *)
(* whatever was behind it behind.                                          *)
KeepsPlace(di, dq, k0, p0, i0, k1, i1, n0, m0) ==
    \A l, q, j, w :
        /\ Copy(l, q, j, n0, w)' /\ Copy(l, q, Before(di, dq, l, q, j), n0, w)
        /\ ~(l = k0 /\ q = p0 /\ Before(di, dq, l, q, j) = i0 /\ w = m0)
        /\ m0.from = w.from /\ Single(n0, m0.from)
        => /\ Ahead(l, j, k1, i1) => Ahead(l, Before(di, dq, l, q, j), k0, i0)
           /\ Ahead(k1, i1, l, j) => Ahead(k0, i0, l, Before(di, dq, l, q, j))

(* Then all stay in order.                                                 *)
LEMMA OrderMoved ==
    ASSUME TypeOK, TypeOK', LinksKept, PathInv, OrderInv,
           NEW di \in [Ends -> {0, 1}], NEW dq \in [Ends -> {0, 1}],
           NEW k0, NEW p0, NEW i0, NEW k1, NEW p1, NEW i1 \in Nat, NEW n0, NEW m0,
           Moves(di, dq, k0, p0, i0, k1, p1, i1, n0, m0),
           KeepsPlace(di, dq, k0, p0, i0, k1, i1, n0, m0)
    PROVE  OrderInv'
<1>. SUFFICES ASSUME NEW n, NEW m, NEW w, NEW k, NEW p, NEW i, NEW l, NEW q, NEW j,
                     Copy(k, p, i, n, m)', Copy(l, q, j, n, w)',
                     m.from = w.from, Single(n, m.from)', Ahead(k, i, l, j)
              PROVE  m.id < w.id
    BY DEF OrderInv
<1>. DEFINE Old(kk, pp, ii, mm) ==
                /\ Copy(kk, pp, Before(di, dq, kk, pp, ii), n, mm)
                /\ ~(kk = k0 /\ pp = p0 /\ Before(di, dq, kk, pp, ii) = i0 /\ mm = m0)
            New(kk, pp, ii, mm) == kk = k1 /\ pp = p1 /\ ii = i1 /\ n = n0 /\ mm = m0
<1>1. Single(n, m.from)
    BY SingleBefore
<1>2. (New(k, p, i, m) \/ Old(k, p, i, m)) /\ (New(l, q, j, w) \/ Old(l, q, j, w))
    BY DEF Moves
<1>3. Copy(k0, p0, i0, n0, m0)
    BY DEF Moves
<1>4. CASE Old(k, p, i, m) /\ Old(l, q, j, w)
    BY <1>1, <1>4, AheadBefore DEF OrderInv
<1>5. CASE New(k, p, i, m) /\ Old(l, q, j, w)
    <2>1. Ahead(k0, i0, l, Before(di, dq, l, q, j))
        BY <1>1, <1>5 DEF KeepsPlace
    <2>. QED
        BY <1>1, <1>3, <1>5, <2>1 DEF OrderInv
<1>6. CASE Old(k, p, i, m) /\ New(l, q, j, w)
    <2>1. Ahead(k, Before(di, dq, k, p, i), k0, i0)
        BY <1>1, <1>6 DEF KeepsPlace
    <2>. QED
        BY <1>1, <1>3, <1>6, <2>1 DEF OrderInv
<1>7. CASE New(k, p, i, m) /\ New(l, q, j, w)
    <2>. k1 \in {"log", "inbox", "queue", "owed"}
        BY <1>7 DEF Copy
    <2>1. ~(Rank(k1) < Rank(k1)) /\ ~(i1 < i1)
        BY DEF Rank
    <2>. QED
        BY <1>7, <2>1 DEF Ahead
<1>. QED
    BY <1>2, <1>4, <1>5, <1>6, <1>7

(* A message is shown after those that were read before it, and ahead of   *)
(* those still in the inbox.                                               *)
LEMMA OrderShows ==
    ASSUME TypeOK, TypeOK', LinksKept, PathInv, OrderInv, NEW e \in Ends, Shows(e)
    PROVE  OrderInv'
<1>. DEFINE m0 == Head(inbox[e]).message
            n0 == Me(e)
            i1 == Len(log[n0]) + 1
<1>1. PICK di \in [Ends -> {0, 1}], dq \in [Ends -> {0, 1}] :
        Moves(di, dq, "inbox", e, 1, "log", n0, i1, n0, m0)
    BY DEF Shows, OneMoves
<1>. HIDE DEF m0, n0
<1>2. Copy("inbox", e, 1, n0, m0) /\ inbox[e][1] = Chat(m0)
    BY <1>1 DEF Moves, Copy
<1>3. ASSUME NEW l, NEW q, NEW j, NEW w,
             Copy(l, q, j, n0, w)', Copy(l, q, Before(di, dq, l, q, j), n0, w),
             ~(l = "inbox" /\ q = e /\ Before(di, dq, l, q, j) = 1 /\ w = m0),
             m0.from = w.from, Single(n0, m0.from)
      PROVE  /\ Ahead(l, j, "log", i1) => Ahead(l, Before(di, dq, l, q, j), "inbox", 1)
             /\ Ahead("log", i1, l, j) => Ahead("inbox", 1, l, Before(di, dq, l, q, j))
    <2>1. CASE l = "log"
        <3>1. q = n0 /\ q \in Nodes /\ j \in DOMAIN log[q]
            BY <1>3, <2>1 DEF Copy, Before
        <3>2. j \in Nat /\ j < i1
            BY <3>1 DEF TypeOK
        <3>3. ~(i1 < j)
            BY <3>1, <3>2 DEF TypeOK
        <3>. QED
            BY <2>1, <3>3 DEF Ahead, Rank
    <2>2. CASE l = "inbox"
        <3>1. q = e
            BY <1>2, <1>3, <2>2, SamePath DEF Side
        <3>2. Before(di, dq, l, q, j) \in DOMAIN inbox[e] /\ inbox[e][Before(di, dq, l, q, j)] = Chat(w)
            BY <1>3, <2>2, <3>1 DEF Copy
        <3>3. Before(di, dq, l, q, j) # 1
            BY <1>2, <1>3, <2>2, <3>1, <3>2, ChatFrames
        <3>4. Before(di, dq, l, q, j) \in Nat \ {0, 1}
            BY <3>2, <3>3 DEF TypeOK
        <3>. QED
            BY <2>2, <3>4 DEF Ahead, Rank
    <2>3. CASE l \in {"queue", "owed"}
        BY <2>3 DEF Ahead, Rank
    <2>. QED
        BY <1>3, <2>1, <2>2, <2>3 DEF Copy
<1>4. i1 \in Nat
    <2>1. link[e[1]] \in Links
        <3>1. OnPath("inbox", e, 1, n0, m0)
            BY <1>2 DEF PathInv
        <3>2. link[e[1]] # NoLink
            BY <3>1 DEF OnPath, Side
        <3>. QED
            BY <3>2, FarEnd DEF TypeOK
    <2>2. n0 \in Nodes
        BY <2>1 DEF n0, Me, Links
    <2>. QED
        BY <2>2 DEF TypeOK
<1>. HIDE DEF i1
<1>5. KeepsPlace(di, dq, "inbox", e, 1, "log", i1, n0, m0)
    BY <1>3 DEF KeepsPlace
<1>. QED
    BY <1>1, <1>4, <1>5, OrderMoved

(* A message that is written comes after all that is in the inbox at the   *)
(* far end, and ahead of what is left on the queue.                        *)
LEMMA OrderTransmits ==
    ASSUME TypeOK, TypeOK', LinksKept, PathInv, OrderInv, NEW e \in Ends, Transmits(e)
    PROVE  OrderInv'
<1>. DEFINE m0 == Head(queue[e]).message
            n0 == Them(e)
            i1 == Len(inbox[Far(e)]) + 1
<1>1. PICK di \in [Ends -> {0, 1}], dq \in [Ends -> {0, 1}] :
        Moves(di, dq, "queue", e, 1, "inbox", Far(e), i1, n0, m0)
    BY DEF Transmits, OneMoves
<1>. HIDE DEF m0, n0
<1>2. Copy("queue", e, 1, n0, m0) /\ queue[e][1] = Chat(m0)
    BY <1>1 DEF Moves, Copy
<1>3. Far(e) \in Ends
    BY FarEnd
<1>4. ASSUME NEW l, NEW q, NEW j, NEW w,
             Copy(l, q, j, n0, w)', Copy(l, q, Before(di, dq, l, q, j), n0, w),
             ~(l = "queue" /\ q = e /\ Before(di, dq, l, q, j) = 1 /\ w = m0),
             m0.from = w.from, Single(n0, m0.from)
      PROVE  /\ Ahead(l, j, "inbox", i1) => Ahead(l, Before(di, dq, l, q, j), "queue", 1)
             /\ Ahead("inbox", i1, l, j) => Ahead("queue", 1, l, Before(di, dq, l, q, j))
    <2>1. CASE l = "inbox"
        <3>1. q = Far(e)
            BY <1>2, <1>4, <2>1, SamePath DEF Side
        <3>2. j + di[q] \in DOMAIN inbox[q] /\ di[q] \in {0, 1}
            BY <1>3, <1>4, <2>1, <3>1 DEF Copy, Before
        <3>3. j \in Nat
            BY <1>4, <2>1 DEF Copy, TypeOK
        <3>4. ~(i1 < j)
            BY <1>3, <3>1, <3>2, <3>3 DEF TypeOK
        <3>. QED
            BY <2>1, <3>4 DEF Ahead, Rank
    <2>2. CASE l = "queue"
        <3>1. q = e
            BY <1>2, <1>4, <2>2, SamePath DEF Side
        <3>2. Before(di, dq, l, q, j) \in DOMAIN queue[e] /\ queue[e][Before(di, dq, l, q, j)] = Chat(w)
            BY <1>4, <2>2, <3>1 DEF Copy
        <3>3. Before(di, dq, l, q, j) # 1
            BY <1>2, <1>4, <2>2, <3>1, <3>2, ChatFrames
        <3>4. Before(di, dq, l, q, j) \in Nat \ {0, 1}
            BY <3>2, <3>3 DEF TypeOK
        <3>. QED
            BY <2>2, <3>4 DEF Ahead, Rank
    <2>3. CASE l \in {"log", "owed"}
        BY <2>3 DEF Ahead, Rank
    <2>. QED
        BY <1>4, <2>1, <2>2, <2>3 DEF Copy
<1>5. i1 \in Nat
    BY <1>3 DEF TypeOK
<1>. HIDE DEF i1
<1>6. KeepsPlace(di, dq, "queue", e, 1, "inbox", i1, n0, m0)
    BY <1>4 DEF KeepsPlace
<1>. QED
    BY <1>1, <1>5, <1>6, OrderMoved

(* A message that is put on a queue comes last there, and its author owes  *)
(* no other.                                                               *)
LEMMA OrderEnqueues ==
    ASSUME TypeOK, TypeOK', LinksKept, PathInv, OneCopy, OrderInv,
           NEW a \in Actors, NEW e \in Ends, NEW m0, Enqueues(a, e, m0)
    PROVE  OrderInv'
<1>. DEFINE n0 == Them(e)
            i1 == Len(queue[e]) + 1
<1>1. PICK di \in [Ends -> {0, 1}], dq \in [Ends -> {0, 1}] :
        Moves(di, dq, "owed", a, e, "queue", e, i1, n0, m0)
    BY DEF Enqueues, OneMoves
<1>. HIDE DEF n0
<1>2. Copy("owed", a, e, n0, m0)
    BY <1>1 DEF Moves
<1>3. ASSUME NEW l, NEW q, NEW j, NEW w,
             Copy(l, q, j, n0, w)', Copy(l, q, Before(di, dq, l, q, j), n0, w),
             ~(l = "owed" /\ q = a /\ Before(di, dq, l, q, j) = e /\ w = m0),
             m0.from = w.from, Single(n0, m0.from)
      PROVE  /\ Ahead(l, j, "queue", i1) => Ahead(l, Before(di, dq, l, q, j), "owed", e)
             /\ Ahead("queue", i1, l, j) => Ahead("owed", e, l, Before(di, dq, l, q, j))
    <2>1. CASE l = "queue"
        <3>1. q = e
            BY <1>2, <1>3, <2>1, SamePath DEF Side
        <3>2. j + dq[q] \in DOMAIN queue[q] /\ j \in Nat /\ dq[q] \in {0, 1}
            BY <1>3, <2>1, <3>1 DEF Copy, Before, TypeOK
        <3>3. ~(i1 < j)
            BY <3>1, <3>2 DEF TypeOK
        <3>. QED
            BY <2>1, <3>3 DEF Ahead, Rank
    <2>2. CASE l = "owed"
        <3>1. OnPath("owed", a, e, n0, m0) /\ OnPath("owed", q, j, n0, w)
            BY <1>2, <1>3, <2>2 DEF PathInv, Before
        <3>2. a = q
            BY <1>3, <3>1 DEF OnPath
        <3>3. w = m0
            BY <1>2, <1>3, <2>2, <3>2 DEF PathInv, Before
        <3>. QED
            BY <1>2, <1>3, <2>2, <3>2, <3>3 DEF OneCopy
    <2>3. CASE l \in {"log", "inbox"}
        BY <2>3 DEF Ahead, Rank
    <2>. QED
        BY <1>3, <2>1, <2>2, <2>3 DEF Copy
<1>4. i1 \in Nat
    BY DEF TypeOK
<1>. HIDE DEF i1
<1>5. KeepsPlace(di, dq, "owed", a, e, "queue", i1, n0, m0)
    BY <1>3 DEF KeepsPlace
<1>. QED
    BY <1>1, <1>4, <1>5, OrderMoved

(* A message that is said is the last.                                     *)
LEMMA OrderMakes ==
    ASSUME LinksKept, OnlySaid, OrderInv, NEW n0 \in Nodes, NEW m0, Makes(n0, m0)
    PROVE  OrderInv'
<1>. SUFFICES ASSUME NEW n, NEW m, NEW w, NEW k, NEW p, NEW i, NEW l, NEW q, NEW j,
                     Copy(k, p, i, n, m)', Copy(l, q, j, n, w)',
                     m.from = w.from, Single(n, m.from)', Ahead(k, i, l, j)
              PROVE  m.id < w.id
    BY DEF OrderInv
<1>1. Single(n, m.from)
    BY SingleBefore
<1>2. Copy(k, p, i, n, m)
    <2>1. k \in {"log", "inbox", "queue", "owed"} /\ l \in {"log", "inbox", "queue", "owed"}
        BY DEF Copy
    <2>2. k # "owed"
        BY <2>1 DEF Ahead, Rank
    <2>. QED
        BY <2>2 DEF Makes
<1>3. CASE Copy(l, q, j, n, w)
    BY <1>1, <1>2, <1>3 DEF OrderInv
<1>4. CASE w = m0
    <2>1. m \in Messages /\ m.id <= said[n0] /\ m.id \in Nat /\ said[n0] \in Nat
        BY <1>2, <1>4 DEF OnlySaid, Makes, Messages
    <2>. QED
        BY <1>4, <2>1 DEF Makes
<1>. QED
    BY <1>3, <1>4 DEF Makes

(* Messages stay in order.                                                 *)
LEMMA OrderStep ==
    ASSUME TypeOK, TypeOK', LinksKept, PathInv, CopyInv, OrderInv, CopySteps
    PROVE  OrderInv'
<1>1. CASE NoneMade
    <2>1. PICK di \in [Ends -> {0, 1}], dq \in [Ends -> {0, 1}] : Unmade(di, dq)
        BY <1>1 DEF NoneMade
    <2>. SUFFICES ASSUME NEW n, NEW m, NEW w, NEW k, NEW p, NEW i, NEW l, NEW q, NEW j,
                         Copy(k, p, i, n, m)', Copy(l, q, j, n, w)',
                         m.from = w.from, Single(n, m.from)', Ahead(k, i, l, j)
                  PROVE  m.id < w.id
        BY DEF OrderInv
    <2>2. Single(n, m.from)
        BY SingleBefore
    <2>3. Copy(k, p, Before(di, dq, k, p, i), n, m) /\ Copy(l, q, Before(di, dq, l, q, j), n, w)
        BY <2>1 DEF Unmade
    <2>. QED
        BY <2>2, <2>3, AheadBefore DEF OrderInv
<1>. QED
    BY <1>1, OrderShows, OrderTransmits, OrderEnqueues, OrderMakes DEF CopySteps, CopyInv

(* With one connection to a peer, what it says is shown in the order it    *)
(* was said, whatever else is lost (send_chat, the queue of run_connection,*)
(* pump and receive_chat, node.rs): a message is handed over whole, from   *)
(* the user to the one queue, to the socket and to the reader, and never   *)
(* overtakes one that was handed over before.                              *)
THEOREM ShownInTurn == Spec => []InOrder
<1>1. Init => PathInv /\ OrderInv
    BY DEF Init, PathInv, OrderInv, Copy
<1>2. /\ IInv /\ IInv' /\ Dormant /\ CopyInv /\ PathInv /\ OrderInv /\ [Next]_vars
      => PathInv' /\ OrderInv'
    BY LinksStep, CopyStep, PathStep, OrderStep DEF IInv
<1>3. TypeOK /\ OrderInv => InOrder
    <2>. SUFFICES ASSUME TypeOK, OrderInv, NEW n \in Nodes, NEW p \in Nodes, Single(n, p),
                         NEW i \in DOMAIN log[n], NEW j \in DOMAIN log[n], i < j,
                         log[n][i].from = p, log[n][j].from = p
                  PROVE  log[n][i].id < log[n][j].id
        BY DEF InOrder
    <2>1. Copy("log", n, i, n, log[n][i]) /\ Copy("log", n, j, n, log[n][j])
        BY DEF Copy
    <2>2. Ahead("log", i, "log", j)
        BY DEF Ahead
    <2>. QED
        BY <2>1, <2>2 DEF OrderInv
<1>. QED
    BY <1>1, <1>2, <1>3, Invariance, CopyInvariance, PTL DEF Spec, IInv

-----------------------------------------------------------------------------
(* What is heard.                                                          *)

In(x, s) == \E i \in DOMAIN s : s[i] = x

(* The one connection there ever was between two nodes, with a task at     *)
(* each end that is not about to leave.                                    *)
Whole(e) ==
    /\ link[e[1]] # NoLink /\ Me(e) # Them(e) /\ Single(Me(e), Them(e))
    /\ e[1] \notin cut
    /\ phase[e] \in Staying /\ phase[Far(e)] \in Staying

(* A frame is on its way along a connection, or a has yet to send it.      *)
Carried(e, f, a) == In(f, queue[e]) \/ In(f, inbox[Far(e)]) \/ <<e, f>> \in pending[a]

(* A message is on its way, or was shown at the end of it.                 *)
Underway(e, m) == Carried(e, Chat(m), User(Me(e))) \/ In(m, log[Them(e)])

(* Sequences lose nothing but their heads.                                 *)
LEMMA InSequence ==
    ASSUME NEW S, NEW s \in Seq(S), NEW x \in S, NEW y
    PROVE  /\ In(y, s) => In(y, Append(s, x))
           /\ In(x, Append(s, x))
           /\ s # <<>> /\ In(y, s) => y = Head(s) \/ In(y, Tail(s))
<1>1. /\ DOMAIN Append(s, x) = 1 .. Len(s) + 1 /\ DOMAIN s = 1 .. Len(s)
      /\ \A i \in DOMAIN s : Append(s, x)[i] = s[i]
      /\ Append(s, x)[Len(s) + 1] = x /\ Len(s) \in Nat
    OBVIOUS
<1>2. ASSUME s # <<>>, NEW i \in DOMAIN s, i # 1
      PROVE  i - 1 \in DOMAIN Tail(s) /\ Tail(s)[i - 1] = s[i]
    BY <1>2, HeadTailProperties
<1>3. s # <<>> => Head(s) = s[1]
    OBVIOUS
<1>4. In(y, s) => In(y, Append(s, x))
    BY <1>1 DEF In
<1>5. In(x, Append(s, x))
    <2>1. Len(s) + 1 \in DOMAIN Append(s, x)
        BY <1>1
    <2>. QED
        BY <1>1, <2>1 DEF In
<1>6. s # <<>> /\ In(y, s) => y = Head(s) \/ In(y, Tail(s))
    BY <1>2, <1>3 DEF In
<1>. QED
    BY <1>4, <1>5, <1>6

(* What is written keeps what is there, and arrives if it reaches the end. *)
LEMMA InSent ==
    ASSUME TypeOK, NEW e \in Ends, NEW f \in Frames, NEW g \in Ends
    PROVE  /\ \A y : In(y, inbox[g]) => In(y, Sent(e, f)[g])
           /\ Reaches(e) => In(f, Sent(e, f)[Far(e)])
<1>1. inbox[g] \in Seq(Frames) /\ Far(e) \in Ends /\ inbox[Far(e)] \in Seq(Frames)
    BY FarEnd DEF TypeOK
<1>2. Sent(e, f)[g] \in {inbox[g], Append(inbox[g], f)}
    BY DEF Sent, TypeOK
<1>3. Reaches(e) => Sent(e, f)[Far(e)] = Append(inbox[Far(e)], f)
    BY <1>1 DEF Sent, TypeOK
<1>. QED
    BY <1>1, <1>2, <1>3, InSequence

(* A task that stays after a step stayed before it, and in a handshake, if *)
(* its connection was there: no task goes back to what it has left.        *)
LEMMA PhasesBefore ==
    ASSUME IInv, [Next]_vars, NEW g \in Ends, link[g[1]] # NoLink
    PROVE  /\ phase'[g] \in Staying => phase[g] \in Staying
           /\ phase'[g] \in Handshaking => phase[g] \in Handshaking
           /\ cut \subseteq cut'
<1>. DEFINE Goal == /\ phase'[g] \in Staying => phase[g] \in Staying
                    /\ phase'[g] \in Handshaking => phase[g] \in Handshaking
                    /\ cut \subseteq cut'
<1>. USE DEF IInv
<1>1. CASE UNCHANGED <<phase, cut>>
    BY <1>1
<1>2. ASSUME NEW e \in Ends, NEW q, phase' = [phase EXCEPT ![e] = q], cut' = cut,
             q \in Staying => phase[e] \in Staying,
             q \in Handshaking => phase[e] \in Handshaking
      PROVE  Goal
    BY <1>2 DEF TypeOK
<1>3. ASSUME NEW n \in Nodes, NEW m \in Nodes, NEW marked, OpenLink(n, m, marked), cut' = cut
      PROVE  Goal
    <2>1. PICK c \in Conns :
            /\ link[c] = NoLink
            /\ phase' = [phase EXCEPT ![<<c, "out">>] = "hello", ![<<c, "in">>] = "hello"]
        BY <1>3 DEF OpenLink
    <2>2. g # <<c, "out">> /\ g # <<c, "in">>
        BY <2>1
    <2>. QED
        BY <1>3, <2>1, <2>2 DEF TypeOK
<1>4. CASE Dial
    BY <1>1, <1>3, <1>4 DEF Dial, Connect, GossipDial, GossipDialFails, netVars
<1>5. ASSUME NEW e \in Ends, Finish(e), cut' = cut
      PROVE  Goal
    <2>1. PICK q \in {"ended", "done"} : phase' = [phase EXCEPT ![e] = q]
        BY <1>5 DEF Finish
    <2>. QED
        BY <1>2, <1>5, <2>1 DEF Staying, Handshaking
<1>6. ASSUME NEW e \in Ends, Task(e) \/ HandshakeTimeout(e)
      PROVE  Goal
    <2>1. CASE ReceiveHello(e)
        BY <1>2, <2>1 DEF ReceiveHello, Staying, Handshaking
    <2>2. CASE AdmitNew(e) \/ Supersede(e)
        BY <1>2, <2>2 DEF AdmitNew, Supersede, ReadsProof, Register, Staying, Handshaking
    <2>3. CASE Reject(e) \/ HandshakeFails(e) \/ HandshakeTimeout(e)
               \/ DisconnectSuperseded(e) \/ EmitLeft(e)
        BY <1>5, <2>3
        DEF Reject, HandshakeFails, HandshakeTimeout, DisconnectSuperseded, EmitLeft
    <2>4. CASE EmitJoined(e) \/ AnnouncePeers(e)
        BY <1>2, <2>4 DEF EmitJoined, AnnouncePeers, Staying, Handshaking
    <2>5. CASE DisconnectHeld(e) \/ FinishedDialing(e)
        BY <1>2, <2>5 DEF DisconnectHeld, FinishedDialing, Staying, Handshaking
    <2>. QED
        BY <1>6, <2>1, <2>2, <2>3, <2>4, <2>5 DEF Task
<1>7. ASSUME NEW e \in Ends, Reads(e) \/ Writes(e)
      PROVE  Goal
    <2>1. CASE ReceiveEof(e) \/ WriteFails(e)
        BY <1>2, <2>1 DEF ReceiveEof, WriteFails, Staying, Handshaking
    <2>. QED
        BY <1>1, <1>7, <2>1 DEF Reads, Writes, ReceiveGossip, ReceiveChat, WriteFrame
<1>8. ASSUME NEW n \in Nodes, Restart(n)
      PROVE  Goal
    BY <1>8 DEF Restart, Staying, Handshaking
<1>9. ASSUME NEW c \in Conns, Cut(c)
      PROVE  Goal
    BY <1>9 DEF Cut
<1>. QED
    BY <1>1, <1>4, <1>6, <1>7, <1>8, <1>9 DEF Next, Say, Put, netVars, vars

(* A connection that is whole was so before, unless it was just opened.    *)
LEMMA WholeBefore ==
    ASSUME IInv, [Next]_vars, LinksKept, NEW e \in Ends, link[e[1]] # NoLink, Whole(e)'
    PROVE  Whole(e) /\ Me(e)' = Me(e) /\ Them(e)' = Them(e)
<1>1. link'[e[1]] = link[e[1]] /\ Far(e) \in Ends /\ Far(e)' = Far(e) /\ Far(e)[1] = e[1]
    BY FarEnd DEF LinksKept, Far, Inbound
<1>2. Me(e)' = Me(e) /\ Them(e)' = Them(e)
    BY <1>1 DEF Me, Them, Inbound
<1>3. Single(Me(e), Them(e))
    BY <1>2, SingleBefore DEF Whole
<1>4. e[1] \notin cut /\ phase[e] \in Staying /\ phase[Far(e)] \in Staying
    BY <1>1, PhasesBefore DEF Whole
<1>. QED
    BY <1>2, <1>3, <1>4 DEF Whole

(* On a connection that stays whole, no step loses a frame but the one     *)
(* that reads it, as long as no queue refuses it.                          *)
LEMMA CarriedKept ==
    ASSUME IInv, [Next]_vars, LinksKept, NEW e \in Ends, Whole(e), Whole(e)',
           NEW x \in Queued, NEW a \in Actors, Carried(e, x, a),
           \A b \in Actors, g \in Ends : Put(b, g) /\ Open(g) => Accepts(g)
    PROVE  \/ Carried(e, x, a)'
           \/ /\ ReceiveGossip(Far(e)) \/ ReceiveChat(Far(e))
              /\ x = Head(inbox[Far(e)])
           \/ a \in Ends /\ AnnouncePeers(a)
           \/ \E m \in Nodes : /\ Restart(m) /\ m # Me(e) /\ m # Them(e)
                               /\ a = User(m) \/ (a \in Ends /\ Runs(m, a))
<1>. USE DEF IInv
<1>. DEFINE Read == /\ ReceiveGossip(Far(e)) \/ ReceiveChat(Far(e))
                    /\ x = Head(inbox[Far(e)])
            Again == \E m \in Nodes : /\ Restart(m) /\ m # Me(e) /\ m # Them(e)
                                      /\ a = User(m) \/ (a \in Ends /\ Runs(m, a))
            Goal  == Carried(e, x, a)' \/ Read \/ (a \in Ends /\ AnnouncePeers(a)) \/ Again
            Queue == In(x, queue[e]) => Goal
            Inbox == In(x, inbox[Far(e)]) => Goal
            Owed  == <<e, x>> \in pending[a] => Goal
<1>1. /\ Me(e)' = Me(e) /\ Them(e)' = Them(e)
      /\ Far(e) \in Ends /\ Far(e)' = Far(e) /\ Far(e) # e /\ Far(Far(e)) = e
      /\ Me(e) \in Nodes /\ Them(e) \in Nodes
    <2>1. link'[e[1]] = link[e[1]]
        BY FarEnd DEF LinksKept, Whole
    <2>2. phase[e] # "idle"
        BY DEF Whole, Staying
    <2>. QED
        BY <2>1, <2>2, FarEnd, FarFar, StartedEnd DEF Me, Them, Far, Inbound
<1>2. /\ In(x, queue'[e]) => Goal
      /\ In(x, inbox'[Far(e)]) => Goal
      /\ <<e, x>> \in pending'[a] => Goal
      /\ Read => Goal
      /\ Again => Goal
      /\ a \in Ends /\ AnnouncePeers(a) => Goal
    BY <1>1 DEF Carried
<1>. HIDE DEF Goal
<1>3. /\ queue' = queue => Queue
      /\ inbox' = inbox => Inbox
      /\ pending' = pending => Owed
    BY <1>2
<1>4. Queue /\ Inbox /\ Owed => Goal
    BY DEF Carried
<1>5. /\ phase[e] \in Staying /\ phase[Far(e)] \in Staying
      /\ phase'[e] \in Staying /\ phase'[Far(e)] \in Staying
      /\ e[1] \notin cut' /\ link[e[1]] # NoLink
    BY <1>1 DEF Whole
<1>6. Open(e) /\ Reaches(e)
    BY <1>1, FarEnd DEF Whole, Staying, Open, Reaches, Handshaking, Admitted
<1>7. /\ queue[e] \in Seq(Queued) /\ inbox[Far(e)] \in Seq(Frames)
      /\ x \in Frames /\ x.type \in {"Peers", "Chat"}
    BY <1>1, FrameTypes DEF TypeOK, Queued
<1>9. ASSUME NEW f \in Ends, NEW y \in Frames, inbox' = Sent(f, y)
      PROVE  Inbox
    BY <1>1, <1>2, <1>9, InSent
<1>10. ASSUME NEW f \in Ends, NEW y \in Frames,
              inbox' = [Sent(f, y) EXCEPT ![f] = Tail(inbox[f])],
              inbox[f] # <<>>, Head(inbox[f]).type \notin {"Peers", "Chat"}
       PROVE  Inbox
    <2>1. inbox'[Far(e)] = IF f = Far(e) THEN Tail(inbox[Far(e)]) ELSE Sent(f, y)[Far(e)]
        BY <1>1, <1>10, SentType
    <2>2. In(x, inbox[Far(e)]) => In(x, inbox'[Far(e)])
        BY <1>1, <1>7, <1>10, <2>1, InSent, InSequence
    <2>. QED
        BY <1>2, <2>2
<1>11. ASSUME NEW f \in Ends, inbox' = [inbox EXCEPT ![f] = Tail(@)],
              inbox[f] # <<>>, f = Far(e) /\ x = Head(inbox[f]) => Goal
       PROVE  Inbox
    <2>1. inbox'[Far(e)] = IF f = Far(e) THEN Tail(inbox[Far(e)]) ELSE inbox[Far(e)]
        BY <1>1, <1>11 DEF TypeOK
    <2>2. In(x, inbox[Far(e)]) => In(x, inbox'[Far(e)]) \/ Goal
        BY <1>7, <1>11, <2>1, InSequence
    <2>. QED
        BY <1>2, <2>2
<1>12. ASSUME NEW f \in Ends, Finish(f), pending' = pending
       PROVE  Goal
    <2>1. \E q \in {"ended", "done"} : phase' = [phase EXCEPT ![f] = q]
        BY <1>12 DEF Finish
    <2>2. f # e /\ f # Far(e)
        BY <1>1, <1>5, <2>1 DEF TypeOK, Staying
    <2>3. queue'[e] = queue[e] /\ inbox'[Far(e)] = Sent(f, Eof)[Far(e)]
        BY <1>1, <1>12, <2>2, SentType, FrameTypes DEF Finish, TypeOK
    <2>4. Queue /\ Inbox
        BY <1>1, <1>2, <2>3, InSent, FrameTypes
    <2>. QED
        BY <1>3, <1>4, <1>12, <2>4
<1>. USE DEF chatVars
<1>13. ASSUME NEW f \in Ends, Task(f) \/ HandshakeTimeout(f)
       PROVE  Goal
    <2>1. CASE ReceiveHello(f)
        <3>. DEFINE y == Auth(Room[Me(f)])
        <3>1. y \in Frames
            BY <2>1, StartedEnd, FrameTypes DEF ReceiveHello
        <3>2. Sent(f, y)[f] = inbox[f] /\ Sent(f, y) \in [Ends -> Seq(Frames)]
            BY <3>1, FarEnd, SentType DEF Sent, TypeOK
        <3>3. inbox' = [Sent(f, y) EXCEPT ![f] = Tail(inbox[f])]
            BY <2>1, <3>2 DEF ReceiveHello
        <3>. HIDE DEF y
        <3>. QED
            BY <1>3, <1>4, <1>10, <2>1, <3>1, <3>3 DEF ReceiveHello, Waiting
    <2>2. CASE AdmitNew(f) \/ Supersede(f)
        <3>1. inbox[f] # <<>> /\ Head(inbox[f]).type = "Auth" /\ Register(f)
            BY <2>2 DEF AdmitNew, Supersede, ReadsProof, Waiting
        <3>. QED
            BY <1>3, <1>4, <1>7, <1>11, <3>1 DEF Register
    <2>3. CASE Reject(f) \/ HandshakeFails(f) \/ HandshakeTimeout(f)
               \/ DisconnectSuperseded(f) \/ EmitLeft(f)
        BY <1>12, <2>3
        DEF Reject, HandshakeFails, HandshakeTimeout, DisconnectSuperseded, EmitLeft
    <2>4. CASE AnnouncePeers(f)
        <3>1. f # a => pending'[a] = pending[a]
            BY <2>4 DEF AnnouncePeers, ToAll, TypeOK
        <3>. QED
            BY <1>2, <1>3, <1>4, <2>4, <3>1 DEF AnnouncePeers
    <2>5. CASE EmitJoined(f) \/ DisconnectHeld(f) \/ FinishedDialing(f)
        BY <1>3, <1>4, <2>5 DEF EmitJoined, DisconnectHeld, FinishedDialing
    <2>. QED
        BY <1>13, <2>1, <2>2, <2>3, <2>4, <2>5 DEF Task
<1>14. ASSUME NEW f \in Ends, Reads(f)
       PROVE  Goal
    <2>1. CASE ReceiveGossip(f) \/ ReceiveChat(f)
        BY <1>2, <1>3, <1>4, <1>11, <2>1 DEF ReceiveGossip, ReceiveChat, Waiting
    <2>3. CASE ReceiveEof(f)
        BY <1>3, <1>4, <2>3 DEF ReceiveEof
    <2>. QED
        BY <1>14, <2>1, <2>3 DEF Reads
<1>15. ASSUME NEW f \in Ends, Writes(f)
       PROVE  Goal
    <2>1. CASE WriteFrame(f)
        <3>. DEFINE y == Head(queue[f])
        <3>1. queue[f] \in Seq(Queued) /\ queue[f] # <<>> /\ y \in Frames
              /\ queue' = [queue EXCEPT ![f] = Tail(@)] /\ inbox' = Sent(f, y)
            BY <2>1, TailType, FrameTypes DEF WriteFrame, TypeOK
        <3>2. Inbox
            BY <1>9, <3>1
        <3>3. CASE f = e /\ y = x
            BY <1>1, <1>2, <1>4, <1>6, <3>1, <3>3, InSent
        <3>4. CASE ~(f = e /\ y = x)
            <4>1. In(x, queue[e]) => In(x, queue'[e])
                BY <1>7, <3>1, <3>4, InSequence DEF TypeOK
            <4>. QED
                BY <1>2, <1>3, <1>4, <2>1, <3>2, <4>1 DEF WriteFrame
        <3>. QED
            BY <3>3, <3>4
    <2>2. CASE WriteFails(f)
        <3>1. f # e
            BY <1>5, <2>2 DEF WriteFails, Staying, TypeOK
        <3>2. queue'[e] = queue[e]
            BY <2>2, <3>1 DEF WriteFails, TypeOK
        <3>. QED
            BY <1>2, <1>3, <1>4, <2>2, <3>2 DEF WriteFails
    <2>. QED
        BY <1>15, <2>1, <2>2 DEF Writes
<1>16. ASSUME NEW b \in Actors, NEW f \in Ends, Put(b, f)
       PROVE  Goal
    <2>1. PICK p \in pending[b] :
            /\ p[1] = f
            /\ pending' = [pending EXCEPT ![b] = @ \ {p}]
            /\ queue' = [queue EXCEPT ![f] = IF Accepts(f) THEN Append(@, p[2]) ELSE @]
            /\ UNCHANGED inbox
        BY <1>16 DEF Put
    <2>2. p[2] \in Queued
        BY DEF TypeOK
    <2>3. queue'[e] = IF f = e /\ Accepts(f) THEN Append(queue[e], p[2]) ELSE queue[e]
        BY <2>1 DEF TypeOK
    <2>4. Queue
        BY <1>2, <1>7, <2>2, <2>3, InSequence
    <2>5. CASE p = <<e, x>>
        <3>1. queue'[e] = Append(queue[e], x)
            BY <1>6, <1>16, <2>1, <2>3, <2>5
        <3>. QED
            BY <1>2, <1>7, <3>1, InSequence
    <2>6. CASE p # <<e, x>>
        <3>1. Owed
            BY <1>2, <2>1, <2>6 DEF TypeOK
        <3>. QED
            BY <1>3, <1>4, <2>1, <2>4, <3>1
    <2>. QED
        BY <2>5, <2>6
<1>17. ASSUME NEW n \in Nodes, Say(n)
       PROVE  Goal
    <2>1. pending[User(n)] = {} /\ UNCHANGED <<queue, inbox>>
        BY <1>17 DEF Say, netVars
    <2>2. a # User(n) => pending'[a] = pending[a]
        BY <1>17 DEF Say, ToAll, TypeOK
    <2>. QED
        BY <1>2, <1>3, <1>4, <2>1, <2>2
<1>18. ASSUME NEW n \in Nodes, NEW k \in Nodes, NEW marked, OpenLink(n, k, marked),
              UNCHANGED <<queue, chatVars>>
       PROVE  Goal
    <2>1. PICK c \in Conns :
            /\ link[c] = NoLink
            /\ inbox' = [inbox EXCEPT ![<<c, "out">>] = <<Hello(k)>>,
                                      ![<<c, "in">>] = <<Hello(n)>>]
        BY <1>18 DEF OpenLink
    <2>2. Far(e) # <<c, "out">> /\ Far(e) # <<c, "in">>
        BY <1>5, <2>1, FarEnd
    <2>3. inbox'[Far(e)] = inbox[Far(e)]
        BY <1>1, <2>1, <2>2 DEF TypeOK
    <2>. QED
        BY <1>2, <1>3, <1>4, <1>18, <2>3
<1>19. ASSUME Dial
       PROVE  Goal
    <2>1. ASSUME NEW n \in Nodes, NEW k \in Nodes, GossipDialFails(n, k)
          PROVE  Goal
        BY <1>3, <1>4, <2>1 DEF GossipDialFails, netVars
    <2>2. ASSUME NEW n \in Nodes, NEW k \in Nodes, Connect(n, k)
          PROVE  Goal
        BY <1>18, <2>2 DEF Connect
    <2>3. ASSUME NEW n \in Nodes, NEW k \in Nodes, GossipDial(n, k)
          PROVE  Goal
        BY <1>18, <2>3 DEF GossipDial
    <2>. QED
        BY <1>19, <2>1, <2>2, <2>3 DEF Dial
<1>20. ASSUME NEW c \in Conns, Cut(c)
       PROVE  Goal
    <2>1. e[1] # c
        BY <1>5, <1>20 DEF Cut
    <2>2. Far(e) # <<c, "out">> /\ Far(e) # <<c, "in">>
        BY <2>1, FarEnd
    <2>3. inbox'[Far(e)] = inbox[Far(e)]
        BY <1>1, <1>20, <2>2 DEF Cut, TypeOK
    <2>. QED
        BY <1>2, <1>3, <1>4, <1>20, <2>3 DEF Cut
<1>21. ASSUME NEW n \in Nodes, Restart(n)
       PROVE  Goal
    <2>1. ~Runs(n, e) /\ ~Runs(n, Far(e))
        BY <1>1, <1>5, <1>21 DEF Restart, Staying
    <2>2. n # Me(e) /\ n # Them(e) /\ ~Runs(n, Far(Far(e)))
        BY <1>1, <1>5, <2>1, FarEnd, FarSide DEF Runs
    <2>3. queue'[e] = queue[e] /\ inbox'[Far(e)] = inbox[Far(e)]
        BY <1>1, <1>21, <2>1, <2>2 DEF Restart
    <2>4. pending'[a] = pending[a] \/ Goal
        BY <1>2, <1>21, <2>2 DEF Restart
    <2>. QED
        BY <1>2, <1>4, <2>3, <2>4
<1>22. ASSUME UNCHANGED vars
       PROVE  Goal
    BY <1>3, <1>4, <1>22 DEF vars
<1>23. Goal
    BY <1>13, <1>14, <1>15, <1>16, <1>17, <1>19, <1>20, <1>21, <1>22 DEF Next
<1>. QED
    BY <1>23 DEF Goal

(* What is read is shown; what was shown stays so, unless the node starts  *)
(* again.                                                                  *)
LEMMA LogKept ==
    ASSUME IInv, [Next]_vars, NEW n \in Nodes, ~Restart(n)
    PROVE  /\ \A w : In(w, log[n]) => In(w, log'[n])
           /\ \A f \in Ends : ReceiveChat(f) /\ Me(f) = n => In(Head(inbox[f]).message, log'[n])
<1>. USE DEF IInv
<1>. DEFINE Goal == \A w : In(w, log[n]) => In(w, log'[n])
<1>1. log'[n] = log[n] => Goal
    OBVIOUS
<1>2. ASSUME NEW f \in Ends, ReceiveChat(f)
      PROVE  Goal /\ (Me(f) = n => In(Head(inbox[f]).message, log'[n]))
    <2>. DEFINE x == Head(inbox[f]).message
    <2>1. Head(inbox[f]) \in Frames /\ Head(inbox[f]).type = "Chat" /\ phase[f] # "idle"
        BY <1>2, TailType DEF ReceiveChat, Waiting, Pumping, TypeOK
    <2>2. x \in Messages /\ Me(f) \in Nodes
        BY <2>1, StartedEnd DEF Frames, Queued
    <2>3. log'[n] = IF Me(f) = n THEN Append(log[n], x) ELSE log[n]
        BY <1>2, <2>2 DEF ReceiveChat, TypeOK
    <2>4. log[n] \in Seq(Messages)
        BY DEF TypeOK
    <2>. HIDE DEF x
    <2>5. Goal /\ (Me(f) = n => In(x, log'[n]))
        BY <2>2, <2>3, <2>4, InSequence
    <2>. QED
        BY <2>5 DEF x
<1>3. ASSUME NEW m \in Nodes, Restart(m)
      PROVE  Goal
    <2>1. log'[n] = log[n]
        BY <1>3 DEF Restart, TypeOK
    <2>. QED
        BY <2>1
<1>. HIDE DEF Goal
<1>4. log' = log => Goal
    BY <1>1
<1>. USE DEF chatVars
<1>5. Dial => Goal
    BY <1>4 DEF Dial, Connect, GossipDial, GossipDialFails
<1>6. ASSUME NEW f \in Ends, Task(f) \/ HandshakeTimeout(f)
      PROVE  Goal
    BY <1>4, <1>6 DEF Task, HandshakeTimeout, ReceiveHello, AdmitNew, Supersede, Register,
        Reject, HandshakeFails, EmitJoined, AnnouncePeers, DisconnectHeld,
        DisconnectSuperseded, EmitLeft, FinishedDialing
<1>7. ASSUME NEW f \in Ends, Reads(f) \/ Writes(f)
      PROVE  Goal
    BY <1>2, <1>4, <1>7 DEF Reads, Writes, ReceiveGossip, ReceiveEof, WriteFrame, WriteFails
<1>8. Goal
    BY <1>3, <1>4, <1>5, <1>6, <1>7 DEF Next, Say, Put, Cut, netVars, vars
<1>. QED
    BY <1>2, <1>8 DEF Goal

(* On a connection that stays whole, no step loses a message, as long as   *)
(* no queue refuses it.                                                    *)
LEMMA UnderwayKept ==
    ASSUME IInv, [Next]_vars, LinksKept, NEW e \in Ends, Whole(e), Whole(e)',
           NEW w \in Messages, Underway(e, w),
           \A a \in Actors, g \in Ends : Put(a, g) /\ Open(g) => Accepts(g)
    PROVE  Underway(e, w)'
<1>. USE DEF IInv
<1>1. /\ Me(e)' = Me(e) /\ Them(e)' = Them(e) /\ Far(e)' = Far(e) /\ Far(e) \in Ends
      /\ Me(e) \in Nodes /\ Them(e) \in Nodes
    <2>1. link'[e[1]] = link[e[1]]
        BY FarEnd DEF LinksKept, Whole
    <2>2. phase[e] # "idle"
        BY DEF Whole, Staying
    <2>. QED
        BY <2>1, <2>2, FarEnd, StartedEnd DEF Me, Them, Far, Inbound
<1>2. User(Me(e)) \in Actors \ Ends /\ User(Me(e))' = User(Me(e))
    BY <1>1 DEF User, Actors, Ends
<1>3. /\ Carried(e, Chat(w), User(Me(e)))' => Underway(e, w)'
      /\ In(w, log'[Them(e)]) => Underway(e, w)'
    BY <1>1, <1>2 DEF Carried, Underway
<1>4. ~Restart(Them(e))
    <2>1. phase'[Far(e)] # "done"
        BY <1>1 DEF Whole, Staying
    <2>2. Runs(Them(e), Far(e))
        BY <1>1, FarEnd, FarSide DEF Whole, Runs
    <2>. QED
        BY <1>1, <2>1, <2>2 DEF Restart
<1>5. CASE In(w, log[Them(e)])
    BY <1>1, <1>3, <1>4, <1>5, LogKept
<1>6. CASE Carried(e, Chat(w), User(Me(e)))
    <2>1. Chat(w) \in Queued /\ Chat(w).type = "Chat" /\ Chat(w).message = w
        BY FrameTypes DEF Chat
    <2>2. \A m : User(Me(e)) = User(m) => m = Me(e)
        BY DEF User
    <2>3. \/ Carried(e, Chat(w), User(Me(e)))'
          \/ /\ ReceiveGossip(Far(e)) \/ ReceiveChat(Far(e))
             /\ Chat(w) = Head(inbox[Far(e)])
        <3>. HIDE DEF IInv
        <3>. QED
            BY <1>2, <1>6, <2>1, <2>2, CarriedKept
    <2>4. ReceiveGossip(Far(e)) => Head(inbox[Far(e)]) # Chat(w)
        BY <2>1 DEF ReceiveGossip, Waiting
    <2>5. ReceiveChat(Far(e)) /\ Head(inbox[Far(e)]) = Chat(w) => In(w, log'[Them(e)])
        BY <1>1, <1>4, <2>1, FarSide, LogKept
    <2>. QED
        BY <1>3, <2>3, <2>4, <2>5
<1>. QED
    BY <1>5, <1>6 DEF Underway, Carried

(* The i-th message of its author is underway.                             *)
Has(e, i) == \E m \in Messages : m.from = Me(e) /\ m.id = i /\ Underway(e, m)

(* A connection that is whole misses nothing of what was said after a      *)
(* message it has; and if it leads to the only roommate, nothing at all,   *)
(* for who is alone in the tables says nothing.                            *)
HeardInv ==
    \A e \in Ends : Whole(e) =>
        /\ phase[e] \in Handshaking => \A i \in Nat : ~Has(e, i)
        /\ \A i \in 1 .. said[Me(e)] :
              OnlyRoommate(Them(e), Me(e)) \/ (\E j \in Nat : Has(e, j) /\ j < i) => Has(e, i)

(* Before two nodes had a connection, neither heard the other, and who has *)
(* no other roommate said nothing.                                         *)
StrangersInv ==
    \A n, p \in Nodes : Between(n, p) = {} =>
        /\ \A i \in DOMAIN log[n] : log[n][i].from # p
        /\ n # p /\ OnlyRoommate(n, p) => said[p] = 0

(* A connection is one between its two ends, seen from either.             *)
LEMMA EndBetween ==
    ASSUME NEW e \in Ends, link[e[1]] # NoLink
    PROVE  e[1] \in Between(Me(e), Them(e)) /\ e[1] \in Between(Them(e), Me(e))
BY FarEnd DEF Between, Me, Them

(* Where the tables lead.                                                  *)
LEMMA SenderOf ==
    ASSUME TypeOK, Started, RegisteredIsLive, NEW n \in Nodes, NEW f \in Senders(n)
    PROVE  /\ f \in Ends /\ link[f[1]] # NoLink /\ phase[f] \in Admitted
           /\ Me(f) = n /\ Them(f) \in registry[n] /\ Them(f) # n
<1>1. PICK p \in Nodes : connections[n][p] = f /\ f # NoSender
    BY DEF Senders
<1>2. f \in Ends
    BY <1>1 DEF TypeOK
<1>. QED
    BY <1>1, <1>2 DEF RegisteredIsLive, Started, Admitted

(* What is underway is a copy ...                                          *)
LEMMA HasCopied ==
    ASSUME TypeOK', NEW e \in Ends, Whole(e)', NEW i, Has(e, i)',
           NEW a, NEW n, Me(e)' = a, Them(e)' = n
    PROVE  \E k, p, x, m : Copy(k, p, x, n, m)' /\ m.from = a /\ m.id = i
<1>1. PICK m \in Messages : m.from = a /\ m.id = i /\ Underway(e, m)'
    BY DEF Has
<1>2. /\ Far(e) \in Ends /\ Me(Far(e))' = n
      /\ a \in Nodes /\ n \in Nodes /\ User(a) \in Actors
    <2>1. link'[e[1]] \in Links
        BY FarEnd DEF Whole, TypeOK
    <2>. QED
        BY <2>1, FarEnd DEF Me, Them, Far, Inbound, Ends, Links, Actors
<1>3. ASSUME NEW x \in DOMAIN queue'[e], queue'[e][x] = Chat(m)
      PROVE  Copy("queue", e, x, n, m)'
    BY <1>3 DEF Copy
<1>4. ASSUME NEW x \in DOMAIN inbox'[Far(e)], inbox'[Far(e)][x] = Chat(m)
      PROVE  Copy("inbox", Far(e), x, n, m)'
    BY <1>2, <1>4 DEF Copy
<1>5. ASSUME <<e, Chat(m)>> \in pending'[User(a)]
      PROVE  Copy("owed", User(a), e, n, m)'
    BY <1>2, <1>5 DEF Copy
<1>6. ASSUME NEW x \in DOMAIN log'[n], log'[n][x] = m
      PROVE  Copy("log", n, x, n, m)'
    BY <1>2, <1>6 DEF Copy
<1>7. \/ In(Chat(m), queue[e])' \/ In(Chat(m), inbox[Far(e)])'
      \/ <<e, Chat(m)>> \in pending'[User(a)] \/ In(m, log[Them(e)])'
    BY <1>1 DEF Underway, User, Carried
<1>8. Far(e)' = Far(e)
    BY DEF Far, Inbound
<1>. QED
    BY <1>1, <1>3, <1>4, <1>5, <1>6, <1>7, <1>8 DEF In

(* ... and every copy on a connection that is whole is underway there.     *)
LEMMA CopyUnderway ==
    ASSUME IInv, PathInv, OnlySaid, NEW e \in Ends, Whole(e),
           NEW k, NEW p, NEW x, NEW m, Copy(k, p, x, Them(e), m), m.from = Me(e)
    PROVE  Has(e, m.id)
<1>. USE DEF IInv
<1>1. Far(e) \in Ends /\ Far(e) # e /\ Me(Far(e)) = Them(e) /\ Me(e) # Them(e)
    BY FarEnd, FarSide DEF Whole
<1>2. m \in Messages
    BY DEF OnlySaid
<1>3. CASE k = "log"
    BY <1>2, <1>3 DEF Copy, Underway, In, Has
<1>4. CASE k # "log"
    <2>. DEFINE f == Side(k, p, x)
    <2>1. OnPath(k, p, x, Them(e), m)
        BY <1>4 DEF PathInv
    <2>2. /\ f \in Ends /\ link[f[1]] # NoLink
          /\ k = "inbox" => Me(f) = Them(e) /\ Them(f) = Me(e)
          /\ k # "inbox" => Me(f) = Me(e) /\ Them(f) = Them(e)
          /\ k = "owed" => p = User(Me(e))
        BY <2>1 DEF OnPath
    <2>. HIDE DEF f
    <2>3. f[1] \in Between(Me(e), Them(e)) /\ e[1] \in Between(Me(e), Them(e))
        BY <2>2, EndBetween DEF Whole
    <2>4. f = e \/ f = Far(e)
        BY <2>2, <2>3, FarFar DEF Whole, Single
    <2>5. f = IF k = "inbox" THEN Far(e) ELSE e
        BY <1>1, <2>2, <2>4
    <2>6. (k = "owed" => x = f) /\ (k # "owed" => p = f)
        BY DEF f, Side
    <2>7. Underway(e, m)
        BY <1>1, <1>4, <2>2, <2>5, <2>6 DEF Copy, Underway, In, Carried
    <2>. QED
        BY <1>2, <2>7 DEF Has
<1>. QED
    BY <1>3, <1>4

(* A copy is not the first of its message, unless that was just said.      *)
LEMMA CopyBefore ==
    ASSUME CopySteps, NEW k, NEW p, NEW x, NEW n, NEW m, Copy(k, p, x, n, m)'
    PROVE  \/ \E l, q, y : Copy(l, q, y, n, m)
           \/ \E a \in Nodes : /\ Say(a) /\ m.from = a /\ m.id = said[a] + 1
                              /\ \E f \in Senders(a) : n = Them(f)
<1>1. CASE NoneMade
    BY <1>1 DEF NoneMade, Unmade
<1>2. ASSUME NEW k0, NEW p0, NEW i0, NEW k1, NEW p1, NEW i1, NEW n0, NEW m0,
             OneMoves(k0, p0, i0, k1, p1, i1, n0, m0)
      PROVE  \E l, q, y : Copy(l, q, y, n, m)
    BY <1>2 DEF OneMoves, Moves
<1>3. ASSUME NEW a \in Nodes, Say(a), NEW m0, Makes(a, m0)
      PROVE  \/ \E l, q, y : Copy(l, q, y, n, m)
             \/ /\ m.from = a /\ m.id = said[a] + 1
                /\ \E f \in Senders(a) : n = Them(f)
    BY <1>3 DEF Makes
<1>. QED
    BY <1>1, <1>2, <1>3 DEF CopySteps, Shows, Transmits, Enqueues

(* Who has a copy of a message has had a connection to its author.         *)
LEMMA CopyBetween ==
    ASSUME IInv, PathInv, OnlySaid, StrangersInv, NEW n \in Nodes,
           NEW k, NEW p, NEW x, NEW m, Copy(k, p, x, n, m)
    PROVE  Between(n, m.from) # {}
<1>1. CASE k = "log"
    <2>1. m.from \in Nodes
        BY DEF OnlySaid, Messages
    <2>. QED
        BY <1>1, <2>1 DEF Copy, StrangersInv
<1>2. CASE k # "log"
    <2>1. OnPath(k, p, x, n, m)
        BY <1>2 DEF PathInv
    <2>. QED
        BY <2>1, EndBetween DEF OnPath
<1>. QED
    BY <1>1, <1>2

(* What becomes of the count of what was said.                             *)
LEMMA SaidBefore ==
    ASSUME TypeOK, CopySteps, NEW p \in Nodes
    PROVE  /\ ~Say(p) => said'[p] = said[p]
           /\ Say(p) => said'[p] = said[p] + 1
<1>1. ASSUME NEW a \in Nodes, Say(a)
      PROVE  said'[p] = IF p = a THEN said[p] + 1 ELSE said[p]
    BY <1>1 DEF Say, TypeOK
<1>. QED
    BY <1>1 DEF CopySteps

(* What the tables lead to is the only connection there is.                *)
LEMMA SenderOnly ==
    ASSUME IInv, NEW e \in Ends, Whole(e), NEW f \in Senders(Me(e)), Them(f) = Them(e)
    PROVE  f = e
<1>1. Me(e) \in Nodes
    BY StartedEnd DEF Whole, Staying, IInv
<1>2. f \in Rivals(e)
    BY <1>1, SenderOf DEF Rivals, IInv
<1>. QED
    BY <1>2, SingleForemost DEF Whole, IInv

(* Who knows nobody stays so until a connection opens.                     *)
LEMMA StrangersStep ==
    ASSUME IInv, PathInv, OnlySaid, OnlyRoommates, StrangersInv, LinksKept, CopySteps
    PROVE  StrangersInv'
<1>. USE DEF IInv
<1>. SUFFICES ASSUME NEW n \in Nodes, NEW p \in Nodes, Between(n, p)' = {}
              PROVE  /\ \A i \in DOMAIN log'[n] : log'[n][i].from # p
                     /\ n # p /\ OnlyRoommate(n, p) => said'[p] = 0
    BY DEF StrangersInv, OnlyRoommate
<1>1. Between(n, p) = {}
    BY DEF Between, LinksKept
<1>2. ASSUME NEW f \in Senders(p), n = Them(f)
      PROVE  FALSE
    <2>1. f \in Ends /\ link[f[1]] # NoLink /\ Me(f) = p
        BY SenderOf
    <2>. QED
        BY <1>1, <1>2, <2>1, EndBetween
<1>3. ASSUME NEW i \in DOMAIN log'[n], log'[n][i].from = p
      PROVE  FALSE
    <2>. PICK m : m = log'[n][i]
        OBVIOUS
    <2>1. Copy("log", n, i, n, m)' /\ m.from = p
        BY <1>3 DEF Copy
    <2>2. \/ \E l, q, y : Copy(l, q, y, n, m)
          \/ \E f \in Senders(p) : n = Them(f)
        BY <2>1, CopyBefore
    <2>. QED
        BY <1>1, <1>2, <2>1, <2>2, CopyBetween
<1>4. ASSUME n # p, OnlyRoommate(n, p)
      PROVE  said'[p] = 0
    <2>1. ~Say(p)
        <3>1. SUFFICES ASSUME NEW f \in Senders(p)
                       PROVE  FALSE
            BY DEF Say
        <3>2. f \in Ends /\ Them(f) \in registry[p] /\ Them(f) # p
            BY SenderOf
        <3>3. Them(f) \in Nodes /\ Room[Them(f)] = Room[p]
            BY <3>2 DEF OnlyRoommates, TypeOK
        <3>. QED
            BY <1>2, <1>4, <3>2, <3>3 DEF OnlyRoommate
    <2>2. said[p] = 0
        BY <1>1, <1>4 DEF StrangersInv
    <2>. QED
        BY <2>1, <2>2, SaidBefore
<1>. QED
    BY <1>3, <1>4

(* A connection that is whole keeps what it has, has nothing new but what  *)
(* is said, and misses nothing of that if the tables lead to it.           *)
LEMMA HeardStep ==
    ASSUME IInv, IInv', [Next]_vars, LinksKept, CopySteps, PathInv, OnlySaid, HeldInv,
           OnlyRoommates, StrangersInv, HeardInv,
           \A a \in Actors, g \in Ends : Put(a, g) /\ Open(g) => Accepts(g)
    PROVE  HeardInv'
<1>. USE DEF IInv
<1>. SUFFICES ASSUME NEW e \in Ends, Whole(e)',
                     NEW a, NEW n, Me(e)' = a, Them(e)' = n
              PROVE  /\ phase'[e] \in Handshaking => \A i \in Nat : ~Has(e, i)'
                     /\ \A i \in 1 .. said'[a] :
                           OnlyRoommate(n, a) \/ (\E j \in Nat : Has(e, j)' /\ j < i)
                              => Has(e, i)'
    BY DEF HeardInv, OnlyRoommate
<1>1. a \in Nodes /\ n \in Nodes /\ a # n /\ said[a] \in Nat
    <2>1. link'[e[1]] \in Links
        BY FarEnd DEF Whole, TypeOK
    <2>2. a \in Nodes /\ n \in Nodes
        BY <2>1 DEF Me, Them, Inbound, Links
    <2>. QED
        BY <2>2 DEF Whole, TypeOK
<1>2. ASSUME NEW i, Has(e, i)'
      PROVE  \/ \E k, p, x, m : Copy(k, p, x, n, m) /\ m.from = a /\ m.id = i
             \/ /\ Say(a) /\ i = said[a] + 1
                /\ \E f \in Senders(a) : Them(f) = n
    BY <1>2, HasCopied, CopyBefore
<1>3. CASE link[e[1]] = NoLink
    <2>1. Between(n, a) = {}
        <3>1. e[1] \in Between(n, a)'
            BY FarEnd DEF Between, Me, Them, Whole, Inbound
        <3>2. Single(n, a)'
            BY DEF Whole, Single, Between
        <3>3. Between(n, a) \subseteq Between(n, a)' \ {e[1]}
            BY <1>3 DEF Between, LinksKept
        <3>. QED
            BY <3>1, <3>2, <3>3 DEF Single
    <2>2. \A b \in Nodes : ~Say(b)
        BY <1>3 DEF Say, netVars, Whole
    <2>3. \A i : ~Has(e, i)'
        BY <1>1, <1>2, <2>1, <2>2, CopyBetween
    <2>4. OnlyRoommate(n, a) => said'[a] = 0
        BY <1>1, <2>1, <2>2, SaidBefore DEF StrangersInv
    <2>. QED
        BY <2>3, <2>4
<1>4. CASE link[e[1]] # NoLink
    <2>1. Whole(e) /\ Me(e) = a /\ Them(e) = n
        BY <1>4, WholeBefore
    <2>2. ASSUME NEW i, Has(e, i)
          PROVE  Has(e, i)'
        BY <2>1, <2>2, UnderwayKept DEF Has
    <2>3. ASSUME NEW i, Has(e, i)'
          PROVE  Has(e, i) \/ (Say(a) /\ i = said[a] + 1 /\ e \in Senders(a))
        BY <1>2, <2>1, <2>3, CopyUnderway, SenderOnly
    <2>4. phase'[e] \in Handshaking => phase[e] \in Handshaking
        BY <1>4, PhasesBefore
    <2>5. /\ phase[e] \in Handshaking => \A i \in Nat : ~Has(e, i)
          /\ \A i \in 1 .. said[a] :
                OnlyRoommate(n, a) \/ (\E j \in Nat : Has(e, j) /\ j < i) => Has(e, i)
        BY <2>1 DEF HeardInv
    <2>6. CASE ~Say(a)
        <3>1. said'[a] = said[a]
            BY <1>1, <2>6, SaidBefore
        <3>. QED
            BY <2>2, <2>3, <2>4, <2>5, <2>6, <3>1
    <2>7. CASE Say(a) /\ e \in Senders(a)
        <3>1. said'[a] = said[a] + 1
            BY <1>1, <2>7, SaidBefore
        <3>2. phase'[e] \notin Handshaking
            BY <1>1, <2>4, <2>7, SenderOf DEF Admitted, Handshaking
        <3>. PICK last : last = said[a] + 1
            OBVIOUS
        <3>3. Has(e, last)'
            <4>. DEFINE M(long) == [from |-> a, id |-> said[a] + 1, long |-> long]
            <4>1. \E long \in LongTexts : ToAll(User(a), a, Chat(M(long)))
                BY <2>7 DEF Say
            <4>2. PICK m : /\ m \in Messages /\ m.from = a /\ m.id = last
                           /\ ToAll(User(a), a, Chat(m))
                BY <1>1, <4>1, LimitsAssumption DEF Messages
            <4>3. <<e, Chat(m)>> \in pending'[User(a)]
                <5>1. User(a) \in Actors
                    BY <1>1 DEF Actors
                <5>2. pending'[User(a)] = {<<f, Chat(m)>> : f \in Senders(a)}
                    BY <4>2, <5>1 DEF ToAll, TypeOK
                <5>. QED
                    BY <2>7, <5>2
            <4>. QED
                BY <4>2, <4>3 DEF Has, Underway, User, Carried
        <3>4. ASSUME NEW i \in 1 .. said[a] + 1, i # last,
                     OnlyRoommate(n, a) \/ (\E j \in Nat : Has(e, j)' /\ j < i)
              PROVE  Has(e, i)'
            <4>1. i \in 1 .. said[a]
                BY <1>1, <3>4
            <4>2. ASSUME NEW j \in Nat, Has(e, j)', j < i
                  PROVE  Has(e, j)
                BY <1>1, <2>3, <4>1, <4>2
            <4>. QED
                BY <2>2, <2>5, <3>4, <4>1, <4>2
        <3>. QED
            BY <3>1, <3>2, <3>3, <3>4
    <2>8. CASE Say(a) /\ e \notin Senders(a)
        <3>1. phase[e] \in Handshaking
            <4>1. e # NoSender
                BY NoneAssumption
            <4>2. ~StillOurs(e)
                BY <1>1, <2>1, <2>8, <4>1 DEF StillOurs, Senders
            <4>3. phase[e] \notin Admitted
                BY <2>1, <4>2, SingleForemost DEF HeldInv, Whole
            <4>. QED
                BY <2>1, <4>3 DEF Whole, Staying, Admitted, Handshaking
        <3>2. \A i \in Nat : ~Has(e, i)'
            BY <2>3, <2>5, <2>8, <3>1
        <3>3. ASSUME OnlyRoommate(n, a)
              PROVE  FALSE
            <4>1. PICK f \in Senders(a) : TRUE
                BY <2>8 DEF Say
            <4>2. Them(f) \in registry[a] /\ Them(f) # a
                BY <1>1, SenderOf
            <4>3. Them(f) \in Nodes /\ Room[Them(f)] = Room[a]
                BY <1>1, <4>2 DEF OnlyRoommates, TypeOK
            <4>4. Them(f) = n
                BY <3>3, <4>2, <4>3 DEF OnlyRoommate
            <4>. QED
                BY <2>1, <2>8, <4>4, SenderOnly
        <3>. QED
            BY <3>2, <3>3
    <2>. QED
        BY <2>6, <2>7, <2>8
<1>. QED
    BY <1>3, <1>4

(* Every copy keeps to one connection.                                     *)
LEMMA PathInvariance == Spec => []PathInv
<1>1. Init => PathInv
    BY DEF Init, PathInv, Copy
<1>2. IInv /\ Dormant /\ PathInv /\ [Next]_vars => PathInv'
    BY LinksStep, CopyStep, PathStep DEF IInv
<1>. QED
    BY <1>1, <1>2, Invariance, CopyInvariance, PTL DEF Spec

(* "Everyone in the room receives it" (tests/chat_tests.rs:122), of the    *)
(* peers a node holds by the only connection there was: as long as no      *)
(* queue is full when a frame is put on it, the locks that are let go      *)
(* between collecting the senders and using them, the handshakes that are  *)
(* still under way and the tasks that end lose nothing (send_chat,         *)
(* run_connection, pump and receive_chat, node.rs).                        *)
THEOREM AllIsHeard == Spec /\ NothingRefused => []Delivered
<1>. DEFINE Q == \A a \in Actors, e \in Ends : Put(a, e) /\ Open(e) => Accepts(e)
<1>1. Init => StrangersInv /\ HeardInv
    <2>1. Init => StrangersInv
        BY DEF Init, StrangersInv
    <2>2. Init => HeardInv
        BY FarEnd DEF Init, HeardInv, Whole
    <2>. QED
        BY <2>1, <2>2
<1>2. /\ IInv /\ IInv' /\ Dormant /\ CopyInv /\ PathInv /\ HeldInv /\ RoomInv
      /\ StrangersInv /\ HeardInv /\ [Next]_vars /\ [Q]_vars
      => StrangersInv' /\ HeardInv'
    <2>. SUFFICES ASSUME IInv, IInv', Dormant, CopyInv, PathInv, HeldInv, RoomInv,
                         StrangersInv, HeardInv, [Next]_vars, [Q]_vars
                  PROVE  StrangersInv' /\ HeardInv'
        OBVIOUS
    <2>1. LinksKept /\ CopySteps /\ OnlySaid /\ OnlyRoommates
        BY LinksStep, CopyStep DEF IInv, CopyInv, RoomInv
    <2>2. Q
        <3>1. ASSUME UNCHANGED vars, NEW a \in Actors, NEW e \in Ends, Put(a, e)
              PROVE  FALSE
            BY <3>1 DEF Put, vars, IInv, TypeOK
        <3>. QED
            BY <3>1
    <2>. QED
        BY <2>1, <2>2, StrangersStep, HeardStep
<1>3. IInv /\ EndsTold /\ HeardInv => Delivered
    <2>. SUFFICES ASSUME TypeOK, Started, RegisteredIsLive, EndsTold, HeardInv, Quiet,
                         NEW n \in Nodes, NEW p \in registry[n], Single(n, p),
                         NEW i \in 1 .. said[p],
                         OnlyRoommate(n, p) \/ (\E j \in Heard(n, p) : j < i)
                  PROVE  i \in Heard(n, p)
        BY DEF Delivered, IInv
    <2>1. p \in Nodes
        BY DEF TypeOK
    <2>2. PICK f \in Ends : connections[n][p] = f
        BY <2>1 DEF TypeOK, RegisteredIsLive
    <2>3. phase[f] = "pump" /\ Me(f) = n /\ Them(f) = p /\ n # p
        BY <2>1, <2>2 DEF RegisteredIsLive, Quiet, Admitted
    <2>4. PICK e \in Ends : e = Far(f) /\ Far(e) = f /\ e[1] = f[1]
        BY FarEnd, FarFar
    <2>5. Me(e) = p /\ Them(e) = n /\ phase[e] = "pump"
        BY <2>3, <2>4, FarSide, QuietReaches
    <2>6. Whole(e)
        <3>1. ~HasEof(e)
            BY <2>5 DEF Quiet, HasEof
        <3>2. e[1] \notin cut
            BY <2>5, <3>1 DEF EndsTold, Reaches, Open, Admitted
        <3>3. Single(p, n)
            BY DEF Single, Between
        <3>4. link[e[1]] # NoLink
            BY <2>5 DEF Started
        <3>. QED
            BY <2>3, <2>4, <2>5, <3>2, <3>3, <3>4 DEF Whole, Staying
    <2>7. \A x \in DOMAIN log[n] : log[n][x] \in Messages
        BY DEF TypeOK
    <2>8. ASSUME NEW j \in Nat
          PROVE  Has(e, j) <=> j \in Heard(n, p)
        <3>1. queue[e] = <<>> /\ inbox[f] = <<>> /\ pending[User(p)] = {}
            BY <2>1, <2>3, <2>5 DEF Quiet, Actors
        <3>2. \A m : Underway(e, m) <=> In(m, log[n])
            BY <2>4, <2>5, <3>1 DEF Underway, In, Carried
        <3>. QED
            BY <2>5, <2>7, <3>2 DEF Has, Heard, In
    <2>9. \A j \in Heard(n, p) : j \in Nat
        BY <2>7 DEF Heard, Messages
    <2>10. i \in Nat
        BY <2>1 DEF TypeOK
    <2>. QED
        BY <2>5, <2>6, <2>8, <2>9, <2>10 DEF HeardInv
<1>. QED
    BY <1>1, <1>2, <1>3, Invariance, CopyInvariance, PathInvariance, HeldInvariance,
       RoomInvariance, ToldInvariance, PTL DEF Spec, NothingRefused
-----------------------------------------------------------------------------
(* Who is introduced.                                                      *)

(* A node has been told of a peer for good: it has had a connection to it, *)
(* is about to, or cannot.                                                 *)
Knows(n, q) == q \in dials[n] \/ Between(n, q) # {} \/ <<n, q>> \in Unreachable

(* A node has yet to announce whom it holds, ...                           *)
Announces(n) ==
    \E a \in Ends : link[a[1]] # NoLink /\ Me(a) = n /\ phase[a] \in {"admitted", "announcing"}

(* ... or a peer list it announced is on its way, ...                      *)
ListUnderway(e, ps) ==
    \E a \in Ends : link[a[1]] # NoLink /\ Me(a) = Me(e) /\ Carried(e, Gossip(ps), a)

(* ... and q is on it.                                                     *)
Telling(e, q) == \E ps \in SUBSET (Nodes \ {Me(e)}) : q \in ps /\ ListUnderway(e, ps)

(* Of whomever a node holds, the peer at the far end of a connection that  *)
(* is whole and in the tables knows, or will.                              *)
GossipInv ==
    \A e \in Ends : Whole(e) /\ StillOurs(e) => \A q \in registry[Me(e)] \ {Them(e)} :
        Announces(Me(e)) \/ Telling(e, q) \/ Knows(Them(e), q)

(* Nobody enters the tables but by an admission.                           *)
LEMMA TablesBefore ==
    ASSUME IInv, [Next]_vars, NEW n \in Nodes, NEW p \in Nodes
    PROVE  \/ /\ \A e \in Ends : connections'[n][p] = e => connections[n][p] = e
              /\ p \in registry'[n] => p \in registry[n]
           \/ \E e \in Ends : (AdmitNew(e) \/ Supersede(e)) /\ Me(e) = n /\ Them(e) = p
<1>. USE DEF IInv
<1>. DEFINE Kept == /\ \A e \in Ends : connections'[n][p] = e => connections[n][p] = e
                    /\ p \in registry'[n] => p \in registry[n]
<1>1. UNCHANGED <<registry, connections>> => Kept
    OBVIOUS
<1>2. ASSUME NEW e \in Ends, AdmitNew(e) \/ Supersede(e), ~(Me(e) = n /\ Them(e) = p)
      PROVE  Kept
    <2>1. registry' = [registry EXCEPT ![Me(e)] = @ \cup {Them(e)}]
          /\ connections' = [connections EXCEPT ![Me(e)][Them(e)] = e]
        BY <1>2 DEF AdmitNew, Supersede, Register
    <2>. QED
        BY <1>2, <2>1 DEF TypeOK
<1>3. ASSUME NEW e \in Ends, DisconnectHeld(e)
      PROVE  Kept
    BY <1>3, NoneAssumption DEF DisconnectHeld, TypeOK
<1>4. ASSUME NEW m \in Nodes, Restart(m)
      PROVE  Kept
    BY <1>4, NoneAssumption DEF Restart, TypeOK
<1>. HIDE DEF Kept
<1>. USE DEF lockVars
<1>5. Dial => Kept
    BY <1>1 DEF Dial, Connect, GossipDial, GossipDialFails
<1>6. ASSUME NEW e \in Ends, Task(e) \/ HandshakeTimeout(e), ~AdmitNew(e), ~Supersede(e)
      PROVE  Kept
    BY <1>1, <1>3, <1>6 DEF Task, HandshakeTimeout, ReceiveHello,
        Reject, HandshakeFails, EmitJoined, AnnouncePeers,
        DisconnectSuperseded, EmitLeft, FinishedDialing
<1>7. ASSUME NEW e \in Ends, Reads(e) \/ Writes(e)
      PROVE  Kept
    BY <1>1, <1>7 DEF Reads, Writes, ReceiveGossip, ReceiveChat, ReceiveEof, WriteFrame, WriteFails
<1>8. Kept \/ \E e \in Ends : (AdmitNew(e) \/ Supersede(e)) /\ Me(e) = n /\ Them(e) = p
    BY <1>1, <1>2, <1>4, <1>5, <1>6, <1>7 DEF Next, Say, Put, Cut, vars
<1>. QED
    BY <1>8 DEF Kept

(* What an announcement that is due waits for.                             *)
LEMMA AnnouncesKept ==
    ASSUME IInv, [Next]_vars, LinksKept, NEW n \in Nodes, Announces(n), ~Restart(n)
    PROVE  Announces(n)' \/ \E a \in Ends : AnnouncePeers(a) /\ link[a[1]] # NoLink /\ Me(a) = n
<1>. USE DEF IInv
<1>1. PICK a \in Ends : /\ link[a[1]] # NoLink /\ Me(a) = n
                        /\ phase[a] \in {"admitted", "announcing"}
    BY DEF Announces
<1>2. link'[a[1]] # NoLink /\ Me(a)' = n
    <2>1. link'[a[1]] = link[a[1]]
        BY <1>1, FarEnd DEF LinksKept
    <2>. QED
        BY <1>1, <2>1 DEF Me, Inbound
<1>. DEFINE Goal == Announces(n)' \/ AnnouncePeers(a)
<1>3. phase'[a] \in {"admitted", "announcing"} => Goal
    BY <1>2 DEF Announces
<1>. HIDE DEF Goal
<1>4. phase' = phase => Goal
    BY <1>1, <1>3
<1>5. ASSUME NEW e \in Ends, NEW q, phase' = [phase EXCEPT ![e] = q],
             phase[e] \notin {"admitted", "announcing"}
      PROVE  Goal
    BY <1>1, <1>3, <1>5 DEF TypeOK
<1>6. ASSUME NEW k \in Nodes, NEW m \in Nodes, NEW marked, OpenLink(k, m, marked)
      PROVE  Goal
    <2>1. PICK c \in Conns :
            /\ link[c] = NoLink
            /\ phase' = [phase EXCEPT ![<<c, "out">>] = "hello", ![<<c, "in">>] = "hello"]
        BY <1>6 DEF OpenLink
    <2>2. a # <<c, "out">> /\ a # <<c, "in">>
        BY <1>1, <2>1
    <2>. QED
        BY <1>1, <1>3, <2>1, <2>2 DEF TypeOK
<1>7. Dial => Goal
    BY <1>4, <1>6 DEF Dial, Connect, GossipDial, GossipDialFails, netVars
<1>8. ASSUME NEW e \in Ends, Finish(e), phase[e] \notin {"admitted", "announcing"}
      PROVE  Goal
    BY <1>5, <1>8 DEF Finish
<1>9. ASSUME NEW e \in Ends, Task(e) \/ HandshakeTimeout(e)
      PROVE  Goal
    <2>1. CASE ReceiveHello(e) \/ AdmitNew(e) \/ Supersede(e)
        BY <1>5, <2>1 DEF ReceiveHello, AdmitNew, Supersede, ReadsProof
    <2>2. CASE Reject(e) \/ HandshakeFails(e) \/ HandshakeTimeout(e)
               \/ DisconnectSuperseded(e) \/ EmitLeft(e)
        BY <1>8, <2>2
        DEF Reject, ReadsProof, HandshakeFails, HandshakeTimeout, DisconnectSuperseded, EmitLeft,
            Handshaking
    <2>3. CASE EmitJoined(e)
        <3>1. phase'[a] \in {"admitted", "announcing"}
            BY <1>1, <2>3 DEF EmitJoined, TypeOK
        <3>. QED
            BY <1>3, <3>1
    <2>4. CASE AnnouncePeers(e)
        <3>1. e # a => phase'[a] = phase[a]
            BY <2>4 DEF AnnouncePeers, TypeOK
        <3>. QED
            BY <1>1, <1>3, <2>4, <3>1 DEF Goal
    <2>5. CASE DisconnectHeld(e) \/ FinishedDialing(e)
        BY <1>5, <2>5 DEF DisconnectHeld, FinishedDialing
    <2>. QED
        BY <1>9, <2>1, <2>2, <2>3, <2>4, <2>5 DEF Task
<1>10. ASSUME NEW e \in Ends, Reads(e) \/ Writes(e)
      PROVE  Goal
    BY <1>4, <1>5, <1>10 DEF Reads, Writes, ReceiveGossip, ReceiveChat, ReceiveEof,
        WriteFrame, WriteFails, Pumping
<1>11. ASSUME NEW m \in Nodes, Restart(m)
      PROVE  Goal
    BY <1>1, <1>3, <1>11 DEF Restart, Runs
<1>12. Goal
    BY <1>4, <1>7, <1>9, <1>10, <1>11 DEF Next, Say, Put, Cut, netVars, vars
<1>. QED
    BY <1>1, <1>12 DEF Goal

(* Who knows a peer goes on knowing it.                                    *)
LEMMA KnowsKept ==
    ASSUME IInv, [Next]_vars, LinksKept, NEW n \in Nodes, NEW q, Knows(n, q), ~Restart(n)
    PROVE  Knows(n, q)'
<1>. USE DEF IInv
<1>1. Between(n, q) \subseteq Between(n, q)'
    BY DEF Between, LinksKept
<1>2. /\ q \in dials'[n] => Knows(n, q)'
      /\ Between(n, q)' # {} => Knows(n, q)'
      /\ <<n, q>> \in Unreachable => Knows(n, q)'
    BY DEF Knows
<1>. SUFFICES ASSUME q \in dials[n]
              PROVE  Knows(n, q)'
    BY <1>1, <1>2 DEF Knows
<1>3. dials' = dials => Knows(n, q)'
    BY <1>2
<1>4. ASSUME NEW k \in Nodes, NEW m \in Nodes, GossipDial(k, m)
      PROVE  Knows(n, q)'
    <2>1. CASE k = n /\ m = q
        <3>1. PICK c \in Conns : link' = [link EXCEPT ![c] = [from |-> k, to |-> m, marked |-> TRUE]]
            BY <1>4 DEF GossipDial, OpenLink
        <3>2. \A b \in BOOLEAN : [from |-> k, to |-> m, marked |-> b] # NoLink
            BY NoneAssumption DEF Links
        <3>3. c \in Between(n, q)'
            BY <2>1, <3>1, <3>2 DEF Between, TypeOK
        <3>. QED
            BY <1>2, <3>3
    <2>2. CASE ~(k = n /\ m = q)
        BY <1>2, <1>4, <2>2 DEF GossipDial, TypeOK
    <2>. QED
        BY <2>1, <2>2
<1>5. ASSUME NEW k \in Nodes, NEW m \in Nodes, GossipDialFails(k, m)
      PROVE  Knows(n, q)'
    BY <1>2, <1>5 DEF GossipDialFails, TypeOK
<1>. USE DEF lockVars, dialVars
<1>6. Dial => Knows(n, q)'
    BY <1>3, <1>4, <1>5 DEF Dial, Connect
<1>7. ASSUME NEW e \in Ends, Task(e) \/ HandshakeTimeout(e)
      PROVE  Knows(n, q)'
    BY <1>3, <1>7 DEF Task, HandshakeTimeout, ReceiveHello, AdmitNew, Supersede, Register,
        Reject, HandshakeFails, EmitJoined, AnnouncePeers, DisconnectHeld,
        DisconnectSuperseded, EmitLeft, FinishedDialing
<1>8. ASSUME NEW e \in Ends, ReceiveGossip(e)
      PROVE  Knows(n, q)'
    BY <1>2, <1>8 DEF ReceiveGossip, TypeOK
<1>9. ASSUME NEW e \in Ends, Reads(e) \/ Writes(e)
      PROVE  Knows(n, q)'
    BY <1>3, <1>8, <1>9 DEF Reads, Writes, ReceiveChat, ReceiveEof, WriteFrame, WriteFails
<1>10. ASSUME NEW m \in Nodes, Restart(m)
      PROVE  Knows(n, q)'
    <2>1. m # n
        BY <1>10
    <2>2. dials'[n] = dials[n]
        BY <1>10, <2>1 DEF Restart, TypeOK
    <2>. QED
        BY <1>2, <2>2
<1>. QED
    BY <1>3, <1>6, <1>7, <1>9, <1>10 DEF Next, Say, Put, Cut, vars

(* A peer list that was sent arrives, unless it is just being read or just *)
(* being made anew.                                                        *)
LEMMA ListKept ==
    ASSUME IInv, [Next]_vars, LinksKept, NEW e \in Ends, Whole(e), Whole(e)',
           NEW ps \in SUBSET Nodes, ListUnderway(e, ps),
           \A a \in Actors, g \in Ends : Put(a, g) /\ Open(g) => Accepts(g)
    PROVE  \/ ListUnderway(e, ps)'
           \/ ReceiveGossip(Far(e)) /\ Head(inbox[Far(e)]).peers = ps
           \/ \E a \in Ends : AnnouncePeers(a) /\ link[a[1]] # NoLink /\ Me(a) = Me(e)
<1>. USE DEF IInv
<1>1. PICK a \in Ends : /\ link[a[1]] # NoLink /\ Me(a) = Me(e)
                        /\ Carried(e, Gossip(ps), a)
    <2>1. link[e[1]] # NoLink
        BY DEF Whole
    <2>. QED
        BY <2>1 DEF ListUnderway
<1>2. Gossip(ps) \in Queued /\ Gossip(ps).type = "Peers" /\ Gossip(ps).peers = ps /\ a \in Actors
    BY FrameTypes DEF Gossip, Actors
<1>3. Me(e)' = Me(e) /\ Me(a)' = Me(a) /\ link'[a[1]] # NoLink
    <2>1. link'[e[1]] = link[e[1]] /\ link'[a[1]] = link[a[1]]
        BY <1>1, FarEnd DEF LinksKept, Whole
    <2>. QED
        BY <1>1, <2>1 DEF Me, Inbound
<1>4. Carried(e, Gossip(ps), a)' => ListUnderway(e, ps)'
    BY <1>1, <1>3 DEF ListUnderway
<1>5. ~ReceiveChat(Far(e)) \/ Head(inbox[Far(e)]) # Gossip(ps)
    BY <1>2 DEF ReceiveChat, Waiting
<1>6. \A m \in Nodes : a # User(m)
    BY DEF User, Ends
<1>7. \A m : Runs(m, a) => m = Me(e)
    BY <1>1 DEF Runs
<1>8. \/ Carried(e, Gossip(ps), a)'
      \/ /\ ReceiveGossip(Far(e)) \/ ReceiveChat(Far(e))
         /\ Gossip(ps) = Head(inbox[Far(e)])
      \/ a \in Ends /\ AnnouncePeers(a)
    <2>. HIDE DEF IInv
    <2>. QED
        BY <1>1, <1>2, <1>6, <1>7, CarriedKept
<1>. QED
    BY <1>1, <1>2, <1>4, <1>5, <1>8

(* A peer list that is read whole is known: whoever is on it is held, is   *)
(* being dialled, or will be.                                              *)
LEMMA ReadIsKnown ==
    ASSUME IInv, LinksKept, MarksCleared, ListsFit, NEW f \in Ends, ReceiveGossip(f),
           NEW n, Me(f) = n, NEW m \in Nodes, Head(inbox[f]).peers \in SUBSET (Nodes \ {m}),
           NEW q \in Head(inbox[f]).peers, q # n
    PROVE  Knows(n, q)'
<1>. USE DEF IInv
<1>1. n \in Nodes /\ q \in Nodes
    BY StartedEnd DEF ReceiveGossip, Pumping
<1>2. Cardinality(Head(inbox[f]).peers) <= MaxGossip
    BY DEF ListsFit
<1>3. dials' = [dials EXCEPT ![n] = @ \cup Chosen(n, Head(inbox[f]).peers)]
    BY <1>1, <1>2 DEF ReceiveGossip
<1>4. link' = link
    BY DEF ReceiveGossip
<1>5. \/ q \in dials'[n]
      \/ q \in registry[n]
      \/ q \in dialing[n]
    BY <1>1, <1>3 DEF Chosen, Undialed, TypeOK
<1>6. q \in dials[n] => q \in dials'[n]
    BY <1>1, <1>3 DEF TypeOK
<1>7. ASSUME q \in registry[n]
      PROVE  Between(n, q) # {}
    <2>1. PICK g \in Ends : connections[n][q] = g
        BY <1>1, <1>7 DEF TypeOK, RegisteredIsLive
    <2>2. Me(g) = n /\ Them(g) = q /\ link[g[1]] # NoLink
        BY <1>1, <2>1 DEF RegisteredIsLive, Started, Admitted
    <2>. QED
        BY <2>2, EndBetween
<1>8. ASSUME q \in dialing[n]
      PROVE  q \in dials[n] \/ Between(n, q) # {}
    <2>1. q \in dials[n] \/ GossipDialsOf(n, q) # {}
        BY <1>1, <1>8 DEF MarksCleared
    <2>2. \A b \in BOOLEAN : [from |-> n, to |-> q, marked |-> b] # NoLink
        BY <1>1, NoneAssumption DEF Links
    <2>3. ASSUME NEW c \in GossipDialsOf(n, q)
          PROVE  c \in Between(n, q)
        <3>1. PICK b \in BOOLEAN : c \in Conns /\ link[c] = [from |-> n, to |-> q, marked |-> b]
            BY DEF GossipDialsOf
        <3>2. link[c].from = n /\ link[c].to = q /\ link[c] # NoLink
            BY <2>2, <3>1
        <3>. QED
            BY <3>1, <3>2 DEF Between
    <2>. QED
        BY <2>1, <2>3
<1>9. Between(n, q)' = Between(n, q)
    BY <1>4 DEF Between
<1>. QED
    BY <1>5, <1>6, <1>7, <1>8, <1>9 DEF Knows

(* Whoever enters the tables has not been in them.                         *)
LEMMA EnteredAnew ==
    ASSUME IInv, NEW e \in Ends, Supersede(e)
    PROVE  Them(e) \in registry[Me(e)]
BY DEF Supersede, VerdictOn, Verdict

(* An announcement is for everyone in the tables.                          *)
LEMMA AnnouncedTold ==
    ASSUME IInv, NEW e \in Ends, StillOurs(e), link[e[1]] # NoLink,
           NEW a \in Ends, AnnouncePeers(a), link[a[1]] # NoLink, Me(a) = Me(e)
    PROVE  \E ps \in SUBSET (Nodes \ {Me(e)}) : ps = registry[Me(e)] /\ ListUnderway(e, ps)'
<1>. USE DEF IInv
<1>1. Me(e) \in Nodes /\ Them(e) \in Nodes
    <2>1. link[e[1]] \in Links
        BY FarEnd DEF TypeOK
    <2>. QED
        BY <2>1 DEF Me, Them, Links
<1>. PICK ps : ps = registry[Me(e)]
    OBVIOUS
<1>2. e \in Senders(Me(e))
    BY <1>1, NoneAssumption DEF Senders, StillOurs
<1>3. pending'[a] = {<<f, Gossip(ps)>> : f \in Senders(Me(e))}
    BY DEF AnnouncePeers, ToAll, TypeOK, Actors
<1>4. link' = link
    BY DEF AnnouncePeers
<1>5. Me(a)' = Me(a) /\ Me(e)' = Me(e)
    BY <1>4 DEF Me, Inbound
<1>6. ListUnderway(e, ps)'
    BY <1>2, <1>3, <1>4, <1>5 DEF ListUnderway, Carried
<1>7. ps \in SUBSET (Nodes \ {Me(e)})
    <2>1. \A r \in registry[Me(e)] : r \in Nodes /\ connections[Me(e)][r] # NoSender
        BY <1>1 DEF RegisteredIsLive, TypeOK
    <2>2. \A r \in registry[Me(e)] : connections[Me(e)][r] \in Ends
        BY <1>1, <2>1 DEF TypeOK
    <2>. QED
        BY <1>1, <2>1, <2>2 DEF RegisteredIsLive
<1>. QED
    BY <1>6, <1>7

(* On a connection that stays whole, the other end is told of whom a node  *)
(* holds, or knows them.                                                   *)
LEMMA GossipStep ==
    ASSUME IInv, IInv', [Next]_vars, LinksKept, MarksCleared, ListsFit, GossipInv,
           \A a \in Actors, g \in Ends : Put(a, g) /\ Open(g) => Accepts(g)
    PROVE  GossipInv'
<1>. SUFFICES ASSUME NEW e \in Ends, Whole(e)', StillOurs(e)',
                     NEW p, NEW n, Me(e)' = p, Them(e)' = n, NEW q \in registry'[p], q # n
              PROVE  Announces(p)' \/ Telling(e, q)' \/ Knows(n, q)'
    BY DEF GossipInv, Announces, Knows, Between
<1>. DEFINE Goal == Announces(p)' \/ Telling(e, q)' \/ Knows(n, q)'
<1>1. /\ link'[e[1]] # NoLink /\ p \in Nodes /\ n \in Nodes /\ q \in Nodes
      /\ connections'[p][n] = e
    <2>1. link'[e[1]] \in Links
        BY FarEnd DEF Whole, IInv, TypeOK
    <2>2. p \in Nodes /\ n \in Nodes
        BY <2>1 DEF Me, Them, Inbound, Links
    <2>. QED
        BY <2>2 DEF Whole, StillOurs, IInv, TypeOK
<1>2. ASSUME NEW g \in Ends, AdmitNew(g), Me(g) = p
      PROVE  Goal
    <2>1. link[g[1]] # NoLink
        BY <1>2 DEF AdmitNew, ReadsProof, IInv, Started
    <2>2. link' = link /\ phase'[g] = "admitted"
        BY <1>2 DEF AdmitNew, Register, IInv, TypeOK
    <2>3. Me(g)' = p
        BY <1>2, <2>2 DEF Me, Inbound
    <2>. QED
        BY <2>1, <2>2, <2>3 DEF Announces
<1>3. \/ Goal
      \/ connections[p][n] = e
      \/ \E g \in Ends : Supersede(g) /\ Me(g) = p /\ Them(g) = n
    BY <1>1, <1>2, TablesBefore
<1>4. CASE link[e[1]] = NoLink
    <2>1. phase[e] = "idle"
        BY <1>4 DEF IInv, Started
    <2>2. connections[p][n] # e
        BY <1>1, <2>1 DEF IInv, RegisteredIsLive, Admitted
    <2>3. ASSUME NEW g \in Ends, Supersede(g), Me(g) = p, Them(g) = n
          PROVE  FALSE
        <3>1. connections'[p][n] = g
            BY <1>1, <2>3 DEF Supersede, Register, IInv, TypeOK
        <3>. QED
            BY <1>1, <2>1, <2>3, <3>1 DEF Supersede, ReadsProof
    <2>. QED
        BY <1>3, <2>2, <2>3
<1>5. CASE link[e[1]] # NoLink
    <2>1. Whole(e) /\ Me(e) = p /\ Them(e) = n
        BY <1>5, WholeBefore
    <2>2. Goal \/ StillOurs(e)
        <3>1. ASSUME NEW g \in Ends, Supersede(g), Me(g) = p, Them(g) = n
              PROVE  connections[p][n] = e
            <4>1. n \in registry[p]
                BY <3>1, EnteredAnew
            <4>2. PICK f \in Senders(p) : connections[p][n] = f
                BY <1>1, <4>1 DEF Senders, IInv, RegisteredIsLive
            <4>3. Them(f) = n
                BY <1>1, <4>2, SenderOf DEF IInv, RegisteredIsLive
            <4>. QED
                BY <2>1, <4>2, <4>3, SenderOnly
        <3>. QED
            BY <1>3, <2>1, <3>1 DEF StillOurs
    <2>3. Goal \/ q \in registry[p]
        BY <1>1, <1>2, TablesBefore, EnteredAnew
    <2>4. ~Restart(p) /\ ~Restart(n)
        <3>1. Runs(p, e) /\ Runs(n, Far(e)) /\ Far(e) \in Ends /\ Far(e)' = Far(e)
            BY <1>5, <2>1, FarEnd, FarSide DEF Runs, Far, Inbound
        <3>2. phase'[e] # "done" /\ phase'[Far(e)] # "done"
            BY <3>1 DEF Whole, Staying
        <3>. QED
            BY <3>1, <3>2 DEF Restart
    <2>. SUFFICES ASSUME StillOurs(e), q \in registry[p]
                  PROVE  Goal
        BY <2>2, <2>3
    <2>5. ASSUME NEW a \in Ends, AnnouncePeers(a), link[a[1]] # NoLink, Me(a) = p
          PROVE  Goal
        <3>1. PICK ps \in SUBSET (Nodes \ {p}) : q \in ps /\ ListUnderway(e, ps)'
            BY <1>5, <2>1, <2>5, AnnouncedTold
        <3>. QED
            BY <3>1 DEF Telling
    <2>6. CASE Announces(p)
        BY <1>1, <2>4, <2>5, <2>6, AnnouncesKept
    <2>7. CASE Telling(e, q)
        <3>1. PICK ps \in SUBSET (Nodes \ {p}) : q \in ps /\ ListUnderway(e, ps)
            BY <2>1, <2>7 DEF Telling
        <3>2. ListUnderway(e, ps)' => Goal
            BY <3>1 DEF Telling
        <3>3. ASSUME ReceiveGossip(Far(e)), Head(inbox[Far(e)]).peers = ps
              PROVE  Goal
            <4>1. Far(e) \in Ends /\ Me(Far(e)) = n
                BY <2>1, FarEnd, FarSide
            <4>2. Knows(n, q)'
                BY <1>1, <3>1, <3>3, <4>1, ReadIsKnown
            <4>. QED
                BY <4>2
        <3>4. \/ ListUnderway(e, ps)'
              \/ ReceiveGossip(Far(e)) /\ Head(inbox[Far(e)]).peers = ps
              \/ \E a \in Ends : AnnouncePeers(a) /\ link[a[1]] # NoLink /\ Me(a) = p
            BY <2>1, <3>1, ListKept
        <3>. QED
            BY <2>5, <3>2, <3>3, <3>4
    <2>8. CASE Knows(n, q)
        BY <1>1, <2>4, <2>8, KnowsKept
    <2>. QED
        BY <2>1, <2>6, <2>7, <2>8 DEF GossipInv
<1>. QED
    BY <1>4, <1>5

(* Once nothing is on its way, whoever was told knows for good.            *)
LEMMA QuietKnows ==
    ASSUME IInv, EndsTold, GossipInv, Quiet, NEW p \in Nodes, NEW n \in registry[p],
           NEW q \in registry[p], n # q, Single(p, n), <<n, q>> \notin Unreachable
    PROVE  Between(n, q) # {}
<1>. USE DEF IInv
<1>1. n \in Nodes /\ q \in Nodes
    BY DEF TypeOK
<1>2. PICK e \in Ends : connections[p][n] = e
    BY <1>1 DEF TypeOK, RegisteredIsLive
<1>3. phase[e] = "pump" /\ Me(e) = p /\ Them(e) = n /\ n # p
    BY <1>1, <1>2 DEF RegisteredIsLive, Quiet, Admitted
<1>4. Far(e) \in Ends /\ phase[Far(e)] = "pump"
    BY <1>3, FarEnd, QuietReaches
<1>5. Whole(e)
    <2>1. e[1] \notin cut
        BY <1>3 DEF EndsTold, Reaches, Open, Admitted, Quiet, HasEof
    <2>. QED
        BY <1>3, <1>4, <2>1 DEF Whole, Staying, Started
<1>6. Announces(p) \/ Telling(e, q) \/ Knows(n, q)
    BY <1>2, <1>3, <1>5 DEF GossipInv, StillOurs
<1>7. ~Announces(p)
    BY DEF Announces, Quiet
<1>8. ~Telling(e, q)
    <2>1. queue[e] = <<>> /\ inbox[Far(e)] = <<>>
        BY <1>3, <1>4 DEF Quiet
    <2>2. \A a \in Ends : pending[a] = {}
        BY DEF Quiet, Actors
    <2>3. \A x : ~In(x, queue[e]) /\ ~In(x, inbox[Far(e)])
        BY <2>1 DEF In
    <2>. QED
        BY <2>2, <2>3 DEF Telling, ListUnderway, Carried
<1>. QED
    BY <1>1, <1>6, <1>7, <1>8 DEF Knows, Quiet

(* "Introduces the newcomer to the room and hands the newcomer the room"   *)
(* (node.rs:502): whoever two nodes have in common, by the only connection *)
(* there was to one of them, has brought them together once nothing is on  *)
(* its way.  Peer lists taken from the tables before another step changed  *)
(* them, marks that keep a second dial from being made (handle_gossip),    *)
(* dials that fail and nodes that start again lose no introduction, as     *)
(* long as no queue is full when a list is put on it.                      *)
THEOREM PeersOfPeersMeet == Spec /\ NothingRefused => []MeshCloses
<1>. DEFINE Q == \A a \in Actors, e \in Ends : Put(a, e) /\ Open(e) => Accepts(e)
            Inv == ListsFit => GossipInv
<1>1. Init => Inv
    BY FarEnd DEF Init, GossipInv, Whole
<1>2. /\ IInv /\ IInv' /\ MarksCleared /\ Inv /\ [Next]_vars /\ [Q]_vars => Inv'
    <2>. SUFFICES ASSUME IInv, IInv', MarksCleared, ListsFit, GossipInv, [Next]_vars, [Q]_vars
                  PROVE  GossipInv'
        BY DEF ListsFit
    <2>1. LinksKept
        BY LinksStep DEF IInv
    <2>2. Q
        <3>1. ASSUME UNCHANGED vars, NEW a \in Actors, NEW e \in Ends, Put(a, e)
              PROVE  FALSE
            BY <3>1 DEF Put, vars, IInv, TypeOK
        <3>. QED
            BY <3>1
    <2>. QED
        BY <2>1, <2>2, GossipStep
<1>3. IInv /\ EndsTold /\ OnlyRoommates /\ DialsConnect /\ Inv => MeshCloses
    <2>. SUFFICES ASSUME IInv, EndsTold, OnlyRoommates, DialsConnect, GossipInv, Quiet,
                         NEW p \in Nodes, NEW n \in registry[p], NEW q \in registry[p],
                         n # q, Single(p, n), <<n, q>> \notin Unreachable
                  PROVE  /\ Between(n, q) # {}
                         /\ Undisturbed /\ Crossed(n, q) => Joined(n, q)
        BY DEF MeshCloses
    <2>1. Between(n, q) # {}
        BY QuietKnows
    <2>2. n \in Nodes /\ q \in Nodes
        BY DEF IInv, TypeOK
    <2>3. Room[n] = Room[q]
        BY DEF OnlyRoommates
    <2>. QED
        BY <2>1, <2>2, <2>3 DEF DialsConnect
<1>. QED
    BY <1>1, <1>2, <1>3, Invariance, NoMarkLeftBehind, ToldInvariance, RoommatesOnly,
       EitherDialConnects, PTL DEF Spec, NothingRefused
=============================================================================
