----------------------------- MODULE PumpProofs -----------------------------
(***************************************************************************)
(* Proofs about Pump, for any connections, depths and capacities: types,   *)
(* and that every connection is a bounded line of frames (Channel).        *)
(***************************************************************************)
EXTENDS Pump, SequenceTheorems, TLAPS

-----------------------------------------------------------------------------
(* Sequences.                                                              *)

(* What is at the head of a concatenation: a line of frames is kept in      *)
(* several sequences.                                                      *)
LEMMA ConcatHead ==
    ASSUME NEW S, NEW s \in Seq(S), NEW t \in Seq(S), s # <<>>
    PROVE  /\ s \o t # <<>>
           /\ Head(s \o t) = Head(s)
           /\ Tail(s \o t) = Tail(s) \o t
<1>1. s \o t \in Seq(S) /\ Len(s \o t) = Len(s) + Len(t)
    BY ConcatProperties
<1>2. Len(s) \in Nat \ {0} /\ Len(t) \in Nat
    BY EmptySeq, LenProperties
<1>3. s \o t # <<>>
    BY <1>1, <1>2, EmptySeq
<1>4. Head(s \o t) = Head(s)
    BY <1>1, <1>2, <1>3, ConcatProperties
<1>5. /\ Tail(s \o t) \in Seq(S)
      /\ Len(Tail(s \o t)) = Len(s) + Len(t) - 1
      /\ \A i \in 1 .. Len(s) + Len(t) - 1 : Tail(s \o t)[i] = (s \o t)[i + 1]
    BY <1>1, <1>3, HeadTailProperties
<1>6. /\ Tail(s) \in Seq(S)
      /\ Len(Tail(s)) = Len(s) - 1
      /\ \A i \in 1 .. Len(s) - 1 : Tail(s)[i] = s[i + 1]
    BY HeadTailProperties
<1>7. /\ Tail(s) \o t \in Seq(S)
      /\ Len(Tail(s) \o t) = Len(s) - 1 + Len(t)
      /\ \A i \in 1 .. Len(s) - 1 + Len(t) :
            (Tail(s) \o t)[i] = IF i <= Len(s) - 1 THEN Tail(s)[i] ELSE t[i - (Len(s) - 1)]
    BY <1>6, ConcatProperties
<1>8. \A i \in 1 .. Len(s) + Len(t) :
            (s \o t)[i] = IF i <= Len(s) THEN s[i] ELSE t[i - Len(s)]
    BY ConcatProperties
<1>9. ASSUME NEW i \in 1 .. Len(s) + Len(t) - 1
      PROVE  Tail(s \o t)[i] = (Tail(s) \o t)[i]
    <2>1. Tail(s \o t)[i] = IF i + 1 <= Len(s) THEN s[i + 1] ELSE t[i + 1 - Len(s)]
        BY <1>2, <1>5, <1>8
    <2>2. i - (Len(s) - 1) = i + 1 - Len(s)
        BY <1>2
    <2>3. (Tail(s) \o t)[i] = IF i <= Len(s) - 1 THEN s[i + 1] ELSE t[i + 1 - Len(s)]
        BY <1>2, <1>6, <1>7, <2>2
    <2>. QED
        BY <1>2, <2>1, <2>3
<1>10. Tail(s \o t) = Tail(s) \o t
    BY <1>2, <1>5, <1>7, <1>9, SeqEqual
<1>. QED
    BY <1>3, <1>4, <1>10

(* A sequence is its head and its tail.                                    *)
LEMMA HeadThenTail ==
    ASSUME NEW S, NEW s \in Seq(S), s # <<>>
    PROVE  <<Head(s)>> \o Tail(s) = s
<1>1. Len(s) \in Nat \ {0}
    BY EmptySeq
<1>2. Head(s) \in S /\ Tail(s) \in Seq(S) /\ Len(Tail(s)) = Len(s) - 1
      /\ \A i \in 1 .. Len(s) - 1 : Tail(s)[i] = s[i + 1]
    BY HeadTailProperties
<1>3. <<Head(s)>> \in Seq(S) /\ Len(<<Head(s)>>) = 1 /\ <<Head(s)>>[1] = s[1]
    BY <1>1, <1>2
<1>4. /\ <<Head(s)>> \o Tail(s) \in Seq(S)
      /\ Len(<<Head(s)>> \o Tail(s)) = Len(s)
      /\ \A i \in 1 .. Len(s) :
            (<<Head(s)>> \o Tail(s))[i] = IF i <= 1 THEN <<Head(s)>>[i] ELSE Tail(s)[i - 1]
    BY <1>1, <1>2, <1>3, ConcatProperties
<1>5. ASSUME NEW i \in 1 .. Len(s)
      PROVE  (<<Head(s)>> \o Tail(s))[i] = s[i]
    <2>1. CASE i = 1
        BY <1>3, <1>4, <2>1
    <2>2. CASE i # 1
        <3>1. i - 1 \in 1 .. Len(s) - 1 /\ i - 1 + 1 = i /\ ~(i <= 1)
            BY <1>1, <2>2
        <3>. QED
            BY <1>2, <1>4, <3>1
    <2>. QED
        BY <2>1, <2>2
<1>. QED
    BY <1>4, <1>5, SeqEqual

-----------------------------------------------------------------------------
(* Nothing holds more than it has room for.                                *)
Fits ==
    \A e \in Links :
        /\ Len(queue[e]) <= QueueDepth
        /\ Len(writing[e]) <= 1
        /\ Len(wire[e]) <= Capacity

(* A user who still has to put a message on a queue has said one.          *)
Owed ==
    \A n \in Nodes :
        /\ said[n] <= MaxSays[n]
        /\ pending[n] # {} => said[n] # 0

PumpInv == TypeOK /\ Fits /\ Owed

(* The end at the other side is an end, of which this one is the far end.  *)
LEMMA FarEnd ==
    ASSUME NEW e \in Links
    PROVE  /\ Far(e) \in Links
           /\ Far(Far(e)) = e
           /\ e[1] \in Nodes
           /\ e[2] \in Nodes
BY LinksAssumption DEF Far

-----------------------------------------------------------------------------
(* Arithmetic and sequences.                                               *)

(* One more fits where there is room.                                      *)
LEMMA Room ==
    /\ \A i, j, c \in Nat : i < c /\ j <= 1 => i + j <= c
    /\ \A i, j, k, c, d \in Nat : i <= c /\ j <= 1 /\ k < d => i + j + k < c + 1 + d
OBVIOUS

(* Lines of numbers.                                                       *)
LEMMA Lines ==
    /\ \A s, t \in Seq(Nat) : s \o t \in Seq(Nat) /\ Len(s \o t) = Len(s) + Len(t)
    /\ \A s, t, u \in Seq(Nat) : (s \o t) \o u = s \o (t \o u)
    /\ \A s \in Seq(Nat) : Len(s) \in Nat
<1>1. ASSUME NEW s \in Seq(Nat), NEW t \in Seq(Nat)
      PROVE  s \o t \in Seq(Nat) /\ Len(s \o t) = Len(s) + Len(t)
    BY ConcatProperties
<1>2. ASSUME NEW s \in Seq(Nat), NEW t \in Seq(Nat), NEW u \in Seq(Nat)
      PROVE  (s \o t) \o u = s \o (t \o u)
    BY ConcatAssociative
<1>3. ASSUME NEW s \in Seq(Nat)
      PROVE  Len(s) \in Nat
    BY LenProperties
<1>. QED
    BY <1>1, <1>2, <1>3

-----------------------------------------------------------------------------
(* The inductive invariant.                                                *)

(* What goes over a channel is the number of a message.                    *)
LEMMA SaidType ==
    ASSUME PumpInv, NEW n \in Nodes, pending[n] # {}
    PROVE  said[n] \in Ids /\ said[n] \in Nat
<1>1. said[n] \in Nat /\ said[n] # 0 /\ said[n] <= MaxSays[n] /\ MaxSays[n] \in Nat
    BY LimitsAssumption DEF PumpInv, TypeOK, Owed
<1>2. said[n] \in 1 .. MaxSays[n]
    BY <1>1
<1>. QED
    BY <1>1, <1>2 DEF Ids

(* One queue, one send and one stretch of wire per end.                    *)
LEMMA PumpStep ==
    ASSUME PumpInv, [Next]_vars
    PROVE  PumpInv'
<1>. USE DEF PumpInv
<1>1. ASSUME NEW n \in Nodes, Say(n)
      PROVE  PumpInv'
    <2>1. said[n] + 1 \in Nat /\ said[n] + 1 <= MaxSays[n] /\ said[n] + 1 # 0
        <3>1. said[n] \in Nat /\ MaxSays[n] \in Nat /\ said[n] < MaxSays[n]
            BY <1>1, LimitsAssumption DEF Say, TypeOK
        <3>. QED
            BY <3>1
    <2>2. EndsOf(n) \subseteq Links
        BY DEF EndsOf
    <2>3. TypeOK'
        BY <1>1, <2>1, <2>2 DEF Say, TypeOK
    <2>4. Fits'
        BY <1>1 DEF Say, Fits
    <2>5. Owed'
        BY <1>1, <2>1 DEF Say, Owed, TypeOK
    <2>. QED
        BY <2>3, <2>4, <2>5
<1>2. ASSUME NEW e \in Links, Put(e)
      PROVE  PumpInv'
    <2>1. e[1] \in Nodes /\ said[e[1]] \in Nat
        BY FarEnd DEF TypeOK
    <2>2. queue[e] \in Seq(Nat) /\ Len(queue[e]) \in Nat
        BY LenProperties DEF TypeOK
    <2>3. /\ Append(queue[e], said[e[1]]) \in Seq(Nat)
          /\ Len(Append(queue[e], said[e[1]])) = Len(queue[e]) + 1
        BY <2>1, <2>2, AppendProperties
    <2>4. TypeOK'
        BY <1>2, <2>1, <2>2, <2>3 DEF Put, TypeOK
    <2>5. Fits'
        BY <1>2, <2>2, <2>3, LimitsAssumption DEF Put, Fits, TypeOK
    <2>6. Owed'
        BY <1>2, <2>1 DEF Put, Owed, TypeOK
    <2>. QED
        BY <2>4, <2>5, <2>6
<1>3. ASSUME NEW e \in Links, Read(e)
      PROVE  PumpInv'
    <2>1. PICK f \in Links : f = Far(e)
        BY FarEnd
    <2>2. wire[f] \in Seq(Nat) /\ wire[f] # <<>> /\ got[f] \in Seq(Nat)
        BY <1>3, <2>1 DEF Read, TypeOK
    <2>3. /\ Head(wire[f]) \in Nat
          /\ Tail(wire[f]) \in Seq(Nat)
          /\ Len(Tail(wire[f])) = Len(wire[f]) - 1
        BY <2>2, HeadTailProperties
    <2>4. Append(got[f], Head(wire[f])) \in Seq(Nat)
        BY <2>2, <2>3, AppendProperties
    <2>5. TypeOK'
        BY <1>3, <2>1, <2>3, <2>4 DEF Read, TypeOK
    <2>6. Len(wire[f]) \in Nat
        BY <2>2, LenProperties
    <2>7. Fits'
        BY <1>3, <2>1, <2>3, <2>6, LimitsAssumption DEF Read, Fits, TypeOK
    <2>8. Owed'
        BY <1>3 DEF Read, Owed
    <2>. QED
        BY <2>5, <2>7, <2>8
<1>4. ASSUME NEW e \in Links, Take(e)
      PROVE  PumpInv'
    <2>1. queue[e] \in Seq(Nat) /\ queue[e] # <<>> /\ Len(queue[e]) \in Nat
        BY <1>4, LenProperties DEF Take, TypeOK
    <2>2. /\ Head(queue[e]) \in Nat
          /\ Tail(queue[e]) \in Seq(Nat)
          /\ Len(Tail(queue[e])) = Len(queue[e]) - 1
        BY <2>1, HeadTailProperties
    <2>3. <<Head(queue[e])>> \in Seq(Nat) /\ Len(<<Head(queue[e])>>) = 1
        BY <2>2
    <2>4. TypeOK'
        BY <1>4, <2>2, <2>3 DEF Take, TypeOK
    <2>5. Fits'
        BY <1>4, <2>1, <2>2, <2>3, LimitsAssumption DEF Take, Fits, TypeOK
    <2>6. Owed'
        BY <1>4 DEF Take, Owed
    <2>. QED
        BY <2>4, <2>5, <2>6
<1>5. ASSUME NEW e \in Links, Flush(e)
      PROVE  PumpInv'
    <2>1. /\ wire[e] \in Seq(Nat) /\ writing[e] \in Seq(Nat)
          /\ Len(wire[e]) \in Nat /\ Len(writing[e]) \in Nat
        BY LenProperties DEF TypeOK
    <2>2. /\ wire[e] \o writing[e] \in Seq(Nat)
          /\ Len(wire[e] \o writing[e]) = Len(wire[e]) + Len(writing[e])
        BY <2>1, ConcatProperties
    <2>3. <<>> \in Seq(Nat) /\ Len(<<>>) = 0
        BY EmptySeq
    <2>4. Len(wire[e]) < Capacity /\ Len(writing[e]) <= 1
        BY <1>5 DEF Flush, Fits
    <2>5. Len(wire[e] \o writing[e]) <= Capacity
        <3>1. PICK i \in Nat, j \in Nat : i = Len(wire[e]) /\ j = Len(writing[e])
            BY <2>1
        <3>2. i < Capacity /\ j <= 1 /\ Capacity \in Nat
            BY <2>4, <3>1, LimitsAssumption
        <3>3. i + j <= Capacity
            BY <3>2, Room
        <3>. QED
            BY <2>2, <3>1, <3>3
    <2>6. TypeOK'
        BY <1>5, <2>2, <2>3 DEF Flush, TypeOK
    <2>7. Fits'
        BY <1>5, <2>3, <2>5, LimitsAssumption DEF Flush, Fits, TypeOK
    <2>8. Owed'
        BY <1>5 DEF Flush, Owed
    <2>. QED
        BY <2>6, <2>7, <2>8
<1>6. ASSUME NEW n \in Nodes, Stall(n)
      PROVE  PumpInv'
    BY <1>6, LimitsAssumption DEF Stall, TypeOK, Fits, Owed
<1>7. CASE UNCHANGED vars
    BY <1>7 DEF vars, TypeOK, Fits, Owed
<1>. QED
    BY <1>1, <1>2, <1>3, <1>4, <1>5, <1>6, <1>7 DEF Next

(* At the start nothing holds anything.                                    *)
LEMMA PumpInit ==
    Init => PumpInv
<1>1. <<>> \in Seq(Nat) /\ Len(<<>>) = 0
    BY EmptySeq
<1>. QED
    BY <1>1, LimitsAssumption DEF Init, PumpInv, TypeOK, Fits, Owed

(* The types, and how much each part of a connection holds.                *)
THEOREM Invariance == Spec => []PumpInv
<1>. QED
    BY PumpInit, PumpStep, PTL DEF Spec

(* Every variable of the pumps keeps its type.                             *)
THEOREM TypeCorrect == Spec => []TypeOK
<1>1. PumpInv => TypeOK
    BY DEF PumpInv
<1>. QED
    BY <1>1, Invariance, PTL

-----------------------------------------------------------------------------
(* The line.                                                               *)

(* What a direction holds, and how much.                                   *)
LEMMA LineType ==
    ASSUME PumpInv, NEW e \in Links
    PROVE  /\ wire[e] \in Seq(Nat)
           /\ writing[e] \in Seq(Nat)
           /\ queue[e] \in Seq(Nat)
           /\ InFlight[e] = wire[e] \o (writing[e] \o queue[e])
           /\ Len(InFlight[e]) = Len(wire[e]) + Len(writing[e]) + Len(queue[e])
<1>1. wire[e] \in Seq(Nat) /\ writing[e] \in Seq(Nat) /\ queue[e] \in Seq(Nat)
    BY DEF PumpInv, TypeOK
<1>2. wire[e] \o writing[e] \in Seq(Nat)
      /\ Len(wire[e] \o writing[e]) = Len(wire[e]) + Len(writing[e])
    BY <1>1, ConcatProperties
<1>3. InFlight[e] = (wire[e] \o writing[e]) \o queue[e]
    BY DEF InFlight
<1>4. Len(InFlight[e]) = Len(wire[e] \o writing[e]) + Len(queue[e])
    BY <1>1, <1>2, <1>3, Lines
<1>5. InFlight[e] = wire[e] \o (writing[e] \o queue[e])
    BY <1>1, <1>3, Lines
<1>. QED
    BY <1>1, <1>2, <1>4, <1>5

(* A frame that is accepted joins the end of the line, and only if there   *)
(* is room.                                                                *)
LEMMA PutAccepts ==
    ASSUME PumpInv, NEW e \in Links, Put(e)
    PROVE  Line!Accept(e) \/ UNCHANGED <<InFlight, got>>
<1>1. e[1] \in Nodes /\ said[e[1]] \in Ids /\ said[e[1]] \in Nat
    BY FarEnd, SaidType DEF Put
<1>2. wire' = wire /\ writing' = writing /\ got' = got
    BY DEF Put
<1>3. CASE Len(queue[e]) < QueueDepth
    <2>1. queue' = [queue EXCEPT ![e] = Append(queue[e], said[e[1]])]
        BY <1>3 DEF Put
    <2>2. wire[e] \o writing[e] \in Seq(Nat) /\ queue[e] \in Seq(Nat)
        BY LineType, ConcatProperties
    <2>3. (wire[e] \o writing[e]) \o Append(queue[e], said[e[1]])
            = Append((wire[e] \o writing[e]) \o queue[e], said[e[1]])
        <3>1. Append(queue[e], said[e[1]]) = queue[e] \o <<said[e[1]]>>
            BY <1>1, <2>2, AppendIsConcat
        <3>2. (wire[e] \o writing[e]) \o queue[e] \in Seq(Nat)
            BY <2>2, ConcatProperties
        <3>3. Append((wire[e] \o writing[e]) \o queue[e], said[e[1]])
                = ((wire[e] \o writing[e]) \o queue[e]) \o <<said[e[1]]>>
            BY <1>1, <3>2, AppendIsConcat
        <3>4. <<said[e[1]]>> \in Seq(Nat)
            BY <1>1
        <3>5. (wire[e] \o writing[e]) \o (queue[e] \o <<said[e[1]]>>)
                = ((wire[e] \o writing[e]) \o queue[e]) \o <<said[e[1]]>>
            BY <2>2, <3>4, Lines
        <3>. QED
            BY <3>1, <3>3, <3>5
    <2>4. InFlight' = [InFlight EXCEPT ![e] = Append(InFlight[e], said[e[1]])]
        BY <1>2, <2>1, <2>3 DEF InFlight, PumpInv, TypeOK
    <2>5. Len(InFlight[e]) < Capacity + 1 + QueueDepth
        <3>1. Len(InFlight[e]) = Len(wire[e]) + Len(writing[e]) + Len(queue[e])
            BY LineType
        <3>2. PICK i \in Nat, j \in Nat, k \in Nat :
                i = Len(wire[e]) /\ j = Len(writing[e]) /\ k = Len(queue[e])
            BY LineType, Lines
        <3>3. i <= Capacity /\ j <= 1 /\ k < QueueDepth
              /\ Capacity \in Nat /\ QueueDepth \in Nat
            BY <1>3, <3>2, LimitsAssumption DEF PumpInv, Fits
        <3>4. i + j + k < Capacity + 1 + QueueDepth
            BY <3>3, Room
        <3>. QED
            BY <3>1, <3>2, <3>4
    <2>. QED
        BY <1>1, <1>2, <2>4, <2>5 DEF Line!Accept
<1>4. CASE ~(Len(queue[e]) < QueueDepth)
    BY <1>2, <1>4 DEF Put, InFlight, PumpInv, TypeOK
<1>. QED
    BY <1>3, <1>4

(* What is read is the oldest frame of the line.                           *)
LEMMA ReadDelivers ==
    ASSUME PumpInv, NEW e \in Links, Read(e)
    PROVE  \E f \in Links : Line!Deliver(f)
<1>1. PICK f \in Links : f = Far(e)
    BY FarEnd
<1>2. /\ wire[f] # <<>>
      /\ got' = [got EXCEPT ![f] = Append(got[f], Head(wire[f]))]
      /\ wire' = [wire EXCEPT ![f] = Tail(wire[f])]
      /\ writing' = writing /\ queue' = queue
    BY <1>1 DEF Read
<1>3. wire[f] \in Seq(Nat) /\ writing[f] \o queue[f] \in Seq(Nat)
      /\ InFlight[f] = wire[f] \o (writing[f] \o queue[f])
    BY LineType, Lines
<1>4. /\ InFlight[f] # <<>>
      /\ Head(InFlight[f]) = Head(wire[f])
      /\ Tail(InFlight[f]) = Tail(wire[f]) \o (writing[f] \o queue[f])
    <2>1. PICK s \in Seq(Nat), t \in Seq(Nat) : s = wire[f] /\ t = writing[f] \o queue[f]
        BY <1>3
    <2>2. s # <<>>
        BY <1>2, <2>1
    <2>3. s \o t # <<>> /\ Head(s \o t) = Head(s) /\ Tail(s \o t) = Tail(s) \o t
        BY <2>2, ConcatHead
    <2>. QED
        BY <1>3, <2>1, <2>3
<1>5. Tail(InFlight[f]) = (Tail(wire[f]) \o writing[f]) \o queue[f]
    <2>1. Tail(wire[f]) \in Seq(Nat)
        BY <1>2, <1>3, HeadTailProperties
    <2>. QED
        BY <1>4, <2>1, LineType, Lines
<1>6. InFlight' = [InFlight EXCEPT ![f] = Tail(InFlight[f])]
    BY <1>2, <1>5 DEF InFlight, PumpInv, TypeOK
<1>. QED
    BY <1>2, <1>4, <1>6 DEF Line!Deliver

(* Taking a frame from the queue, and writing it, moves nothing in line.   *)
LEMMA PumpMovesNothing ==
    ASSUME PumpInv, NEW e \in Links, Take(e) \/ Flush(e)
    PROVE  UNCHANGED <<InFlight, got>>
<1>1. wire[e] \in Seq(Nat) /\ writing[e] \in Seq(Nat) /\ queue[e] \in Seq(Nat)
    BY LineType
<1>2. CASE Take(e)
    <2>1. writing[e] = <<>> /\ queue[e] # <<>> /\ wire' = wire /\ got' = got
        BY <1>2 DEF Take, Selecting
    <2>2. Head(queue[e]) \in Nat /\ Tail(queue[e]) \in Seq(Nat)
        BY <1>1, <2>1, HeadTailProperties
    <2>3. <<Head(queue[e])>> \o Tail(queue[e]) = queue[e]
        BY <1>1, <2>1, HeadThenTail
    <2>4. <<Head(queue[e])>> \in Seq(Nat)
        BY <2>2
    <2>5. (wire[e] \o <<Head(queue[e])>>) \o Tail(queue[e])
            = wire[e] \o (<<Head(queue[e])>> \o Tail(queue[e]))
        BY <1>1, <2>2, <2>4, Lines
    <2>6. wire[e] \o writing[e] = wire[e]
        BY <1>1, <2>1, ConcatEmptySeq
    <2>7. InFlight' = InFlight
        BY <1>2, <2>1, <2>3, <2>5, <2>6 DEF Take, InFlight, PumpInv, TypeOK
    <2>. QED
        BY <2>1, <2>7
<1>3. CASE Flush(e)
    <2>1. wire[e] \o writing[e] \in Seq(Nat) /\ queue' = queue /\ got' = got
        BY <1>1, <1>3, ConcatProperties DEF Flush
    <2>2. (wire[e] \o writing[e]) \o <<>> = wire[e] \o writing[e]
        BY <2>1, ConcatEmptySeq
    <2>3. InFlight' = InFlight
        BY <1>3, <2>1, <2>2 DEF Flush, InFlight, PumpInv, TypeOK
    <2>. QED
        BY <2>1, <2>3
<1>. QED
    BY <1>2, <1>3

(* What is kept for a peer that stops reading is "bounded on purpose"      *)
(* (node.rs:32), and no frame that is accepted is lost, doubled or         *)
(* overtaken: every connection is a line of bounded length.                *)
THEOREM EveryConnectionIsALine == Spec => IsLine
<1>1. Init => Line!Init
    BY ConcatEmptySeq, EmptySeq DEF Init, Line!Init, InFlight
<1>2. PumpInv /\ [Next]_vars => [Line!Next]_<<InFlight, got>>
    <2>. SUFFICES ASSUME PumpInv, [Next]_vars
                  PROVE  [Line!Next]_<<InFlight, got>>
        OBVIOUS
    <2>1. ASSUME NEW n \in Nodes, Say(n) \/ Stall(n)
          PROVE  UNCHANGED <<InFlight, got>>
        BY <2>1 DEF Say, Stall, InFlight
    <2>2. CASE UNCHANGED vars
        BY <2>2 DEF vars, InFlight
    <2>. QED
        BY <2>1, <2>2, PutAccepts, ReadDelivers, PumpMovesNothing DEF Next, Line!Next
<1>. QED
    BY <1>1, <1>2, Invariance, PTL DEF Spec, IsLine, Line!Spec
=============================================================================
