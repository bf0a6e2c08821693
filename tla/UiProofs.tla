------------------------------ MODULE UiProofs ------------------------------
(***************************************************************************)
(* Proofs about Ui, for any number and size of events, and any height and  *)
(* page: the log is a line of events (Channel), its reader is not dragged  *)
(* away, and who follows it sees its end.                                  *)
(***************************************************************************)
EXTENDS Ui, SequenceTheorems, TLAPS

-----------------------------------------------------------------------------
(* Sequences: a line of events is kept in several.                         *)

(* What is at the head of a concatenation.                                 *)
LEMMA ConcatHead ==
    ASSUME NEW S, NEW s \in Seq(S), NEW t \in Seq(S), s # <<>>
    PROVE  /\ s \o t # <<>>
           /\ Head(s \o t) = Head(s)
           /\ Tail(s \o t) = Tail(s) \o t
<1>1. s \o t \in Seq(S) /\ Len(s \o t) = Len(s) + Len(t)
    BY ConcatProperties
<1>2. Len(s) \in Nat \ {0} /\ Len(t) \in Nat
    BY EmptySeq, LenProperties
<1>3. s \o t # <<>>
    BY <1>1, <1>2, EmptySeq
<1>4. Head(s \o t) = Head(s)
    BY <1>1, <1>2, <1>3, ConcatProperties
<1>5. /\ Tail(s \o t) \in Seq(S)
      /\ Len(Tail(s \o t)) = Len(s) + Len(t) - 1
      /\ \A i \in 1 .. Len(s) + Len(t) - 1 : Tail(s \o t)[i] = (s \o t)[i + 1]
    BY <1>1, <1>3, HeadTailProperties
<1>6. /\ Tail(s) \in Seq(S)
      /\ Len(Tail(s)) = Len(s) - 1
      /\ \A i \in 1 .. Len(s) - 1 : Tail(s)[i] = s[i + 1]
    BY HeadTailProperties
<1>7. /\ Tail(s) \o t \in Seq(S)
      /\ Len(Tail(s) \o t) = Len(s) - 1 + Len(t)
      /\ \A i \in 1 .. Len(s) - 1 + Len(t) :
            (Tail(s) \o t)[i] = IF i <= Len(s) - 1 THEN Tail(s)[i] ELSE t[i - (Len(s) - 1)]
    BY <1>6, ConcatProperties
<1>8. \A i \in 1 .. Len(s) + Len(t) :
            (s \o t)[i] = IF i <= Len(s) THEN s[i] ELSE t[i - Len(s)]
    BY ConcatProperties
<1>9. ASSUME NEW i \in 1 .. Len(s) + Len(t) - 1
      PROVE  Tail(s \o t)[i] = (Tail(s) \o t)[i]
    <2>1. Tail(s \o t)[i] = IF i + 1 <= Len(s) THEN s[i + 1] ELSE t[i + 1 - Len(s)]
        BY <1>2, <1>5, <1>8
    <2>2. i - (Len(s) - 1) = i + 1 - Len(s)
        BY <1>2
    <2>3. (Tail(s) \o t)[i] = IF i <= Len(s) - 1 THEN s[i + 1] ELSE t[i + 1 - Len(s)]
        BY <1>2, <1>6, <1>7, <2>2
    <2>. QED
        BY <1>2, <2>1, <2>3
<1>10. Tail(s \o t) = Tail(s) \o t
    BY <1>2, <1>5, <1>7, <1>9, SeqEqual
<1>. QED
    BY <1>3, <1>4, <1>10

(* A sequence is its head and its tail.                                    *)
LEMMA HeadThenTail ==
    ASSUME NEW S, NEW s \in Seq(S), s # <<>>
    PROVE  <<Head(s)>> \o Tail(s) = s
<1>1. Len(s) \in Nat \ {0}
    BY EmptySeq
<1>2. Head(s) \in S /\ Tail(s) \in Seq(S) /\ Len(Tail(s)) = Len(s) - 1
      /\ \A i \in 1 .. Len(s) - 1 : Tail(s)[i] = s[i + 1]
    BY HeadTailProperties
<1>3. <<Head(s)>> \in Seq(S) /\ Len(<<Head(s)>>) = 1 /\ <<Head(s)>>[1] = s[1]
    BY <1>1, <1>2
<1>4. /\ <<Head(s)>> \o Tail(s) \in Seq(S)
      /\ Len(<<Head(s)>> \o Tail(s)) = Len(s)
      /\ \A i \in 1 .. Len(s) :
            (<<Head(s)>> \o Tail(s))[i] = IF i <= 1 THEN <<Head(s)>>[i] ELSE Tail(s)[i - 1]
    BY <1>1, <1>2, <1>3, ConcatProperties
<1>5. ASSUME NEW i \in 1 .. Len(s)
      PROVE  (<<Head(s)>> \o Tail(s))[i] = s[i]
    <2>1. CASE i = 1
        BY <1>3, <1>4, <2>1
    <2>2. CASE i # 1
        <3>1. i - 1 \in 1 .. Len(s) - 1 /\ i - 1 + 1 = i /\ ~(i <= 1)
            BY <1>1, <2>2
        <3>. QED
            BY <1>2, <1>4, <3>1
    <2>. QED
        BY <2>1, <2>2
<1>. QED
    BY <1>4, <1>5, SeqEqual

(* The head of a line may move to the end of the line before it, ...       *)
LEMMA HeadMoves ==
    ASSUME NEW S, NEW s \in Seq(S), NEW t \in Seq(S), t # <<>>
    PROVE  Append(s, Head(t)) \o Tail(t) = s \o t
<1>1. Head(t) \in S /\ Tail(t) \in Seq(S)
    BY HeadTailProperties
<1>2. <<Head(t)>> \in Seq(S)
    BY <1>1
<1>3. Append(s, Head(t)) = s \o <<Head(t)>>
    BY <1>1, AppendIsConcat
<1>4. (s \o <<Head(t)>>) \o Tail(t) = s \o (<<Head(t)>> \o Tail(t))
    BY <1>1, <1>2, ConcatAssociative
<1>. QED
    BY <1>3, <1>4, HeadThenTail

(* ... and what joins the last line joins the whole.                       *)
LEMMA LastJoins ==
    ASSUME NEW S, NEW s \in Seq(S), NEW t \in Seq(S), NEW x \in S
    PROVE  s \o Append(t, x) = Append(s \o t, x)
<1>1. s \o t \in Seq(S) /\ <<x>> \in Seq(S)
    BY ConcatProperties
<1>2. Append(t, x) = t \o <<x>> /\ Append(s \o t, x) = (s \o t) \o <<x>>
    BY <1>1, AppendIsConcat
<1>. QED
    BY <1>1, <1>2, ConcatAssociative

-----------------------------------------------------------------------------
(* Cursive's reading of the log: it sticks to the bottom, or is somewhere  *)
(* above it.                                                               *)
Settled ==
    /\ strategy = "stick" => top = Bottom(laid)
    /\ live => strategy = "stick"

(* Where events can be waiting, and how many there are.                    *)
Waiting ==
    /\ replay # <<>> => screen = "build"
    /\ pending # <<>> => screen \in {"setup", "start", "dial", "closed"}

Counted ==
    Len(applied) + Len(replay) + Len(pending) + Len(sink) + Len(events) = emitted

UiInv == TypeOK /\ Settled /\ Waiting /\ Counted

-----------------------------------------------------------------------------
(* Small numbers.                                                          *)

LEMMA Offsets ==
    /\ \A a, b \in Nat : Less(a, b) \in Nat /\ AtMost(a, b) \in Nat
    /\ \A n \in Nat : Bottom(n) \in Nat
    /\ \A m, n \in Nat : m <= n => Bottom(m) <= Bottom(n)
BY BoundsAssumption DEF Less, AtMost, Bottom

(* What Head, Tail and Append do to a line of events.                      *)
LEMMA Moves ==
    /\ <<>> \in Seq(Events) /\ Len(<<>>) = 0
    /\ \A s \in Seq(Events) : Len(s) \in Nat
    /\ \A s \in Seq(Events) : \A x \in Events :
        Append(s, x) \in Seq(Events) /\ Len(Append(s, x)) = Len(s) + 1
    /\ \A s \in Seq(Events) : s # <<>> =>
        /\ Head(s) \in Events /\ Tail(s) \in Seq(Events)
        /\ Len(s) # 0 /\ Len(Tail(s)) = Len(s) - 1
<1>1. ASSUME NEW s \in Seq(Events), NEW x \in Events
      PROVE  Append(s, x) \in Seq(Events) /\ Len(Append(s, x)) = Len(s) + 1
    BY AppendProperties
<1>2. ASSUME NEW s \in Seq(Events), s # <<>>
      PROVE  /\ Head(s) \in Events /\ Tail(s) \in Seq(Events)
             /\ Len(s) # 0 /\ Len(Tail(s)) = Len(s) - 1
    BY <1>2, HeadTailProperties, EmptySeq
<1>3. ASSUME NEW s \in Seq(Events)
      PROVE  Len(s) \in Nat
    BY LenProperties
<1>. QED
    BY <1>1, <1>2, <1>3, EmptySeq

(* Lines of events may be joined from either side.                         *)
LEMMA EventLines ==
    \A s, t, u \in Seq(Events) : (s \o t) \o u = s \o (t \o u)
BY ConcatAssociative

(* The five lengths, as numbers.                                           *)
LEMMA Lengths ==
    ASSUME UiInv
    PROVE  \E a, b, c, d, f \in Nat :
                /\ a = Len(applied) /\ b = Len(replay) /\ c = Len(pending)
                /\ d = Len(sink) /\ f = Len(events)
                /\ a + b + c + d + f = emitted
                /\ emitted \in Nat
BY Moves, BoundsAssumption DEF UiInv, TypeOK, Counted

-----------------------------------------------------------------------------
(* The feed.                                                               *)

FeedOK ==
    /\ emitted \in 0 .. MaxEvents
    /\ events \in Seq(Events) /\ sink \in Seq(Events)
    /\ pending \in Seq(Events) /\ replay \in Seq(Events) /\ applied \in Seq(Events)
    /\ Counted

(* A new event has a number of its own.                                    *)
LEMMA NewEventOK ==
    ASSUME UiInv, NewEvent
    PROVE  /\ FeedOK'
           /\ Way!Accept("ui")
<1>1. PICK size \in Sizes : events' = Append(events, [id |-> emitted + 1, size |-> size])
    BY DEF NewEvent
<1>2. PICK x \in Events : events' = Append(events, x)
    <2>1. emitted + 1 \in 1 .. MaxEvents
        BY BoundsAssumption DEF NewEvent, UiInv, TypeOK
    <2>. QED
        BY <1>1, <2>1 DEF Events
<1>3. /\ emitted' = emitted + 1 /\ emitted < MaxEvents /\ sink' = sink
      /\ pending' = pending /\ replay' = replay /\ applied' = applied
    BY DEF NewEvent
<1>4. PICK a, b, c, d, f \in Nat :
                /\ a = Len(applied) /\ b = Len(replay) /\ c = Len(pending)
                /\ d = Len(sink) /\ f = Len(events)
                /\ a + b + c + d + f = emitted
                /\ emitted \in Nat
    BY Lengths
<1>5. events \in Seq(Events) /\ sink \in Seq(Events) /\ pending \in Seq(Events)
      /\ replay \in Seq(Events) /\ applied \in Seq(Events)
    BY DEF UiInv, TypeOK
<1>6. events' \in Seq(Events) /\ Len(events') = f + 1
    BY <1>2, <1>4, <1>5, Moves
<1>7. Counted'
    <2>1. a + b + c + d + (f + 1) = emitted + 1
        BY <1>4
    <2>. QED
        BY <1>3, <1>4, <1>6, <2>1 DEF Counted
<1>8. FeedOK'
    BY <1>3, <1>5, <1>6, <1>7, BoundsAssumption DEF FeedOK, UiInv, TypeOK
<1>9. Way!Accept("ui")
    <2>1. PICK s \in Seq(Events) : s = replay \o pending \o sink
        BY <1>5, ConcatProperties
    <2>2. s \o Append(events, x) = Append(s \o events, x)
        BY <1>2, <1>5, LastJoins
    <2>3. Len(s \o events) < MaxEvents
        <3>1. Len(s) = b + c + d
            BY <1>4, <1>5, <2>1, ConcatProperties
        <3>2. Len(s \o events) = b + c + d + f
            BY <1>4, <1>5, <3>1, ConcatProperties
        <3>3. b + c + d + f < MaxEvents
            BY <1>3, <1>4, BoundsAssumption
        <3>. QED
            BY <3>2, <3>3
    <2>4. s' = s /\ applied' = applied
        BY <1>3, <2>1
    <2>. QED
        BY <1>2, <1>3, <2>1, <2>2, <2>3 DEF Way!Accept
<1>. QED
    BY <1>8, <1>9

(* The forwarder moves an event on, and the line stays as it is.           *)
LEMMA ForwardOK ==
    ASSUME UiInv, Forward
    PROVE  /\ FeedOK'
           /\ UNCHANGED <<replay \o pending \o sink \o events, applied>>
<1>1. PICK a, b, c, d, f \in Nat :
                /\ a = Len(applied) /\ b = Len(replay) /\ c = Len(pending)
                /\ d = Len(sink) /\ f = Len(events)
                /\ a + b + c + d + f = emitted
                /\ emitted \in Nat
    BY Lengths
<1>2. events \in Seq(Events) /\ sink \in Seq(Events) /\ pending \in Seq(Events)
      /\ replay \in Seq(Events) /\ applied \in Seq(Events)
    BY DEF UiInv, TypeOK
<1>3. /\ sink' \in Seq(Events) /\ Len(sink') = d + 1
      /\ events' \in Seq(Events) /\ Len(events') = f - 1 /\ f # 0
    BY <1>1, <1>2, Moves DEF Forward
<1>4. a + b + c + (d + 1) + (f - 1) = emitted
    <2>1. a + b + c + d + f = emitted /\ f # 0
        BY <1>1, <1>3
    <2>. QED
        BY <2>1
<1>5. FeedOK'
    BY <1>1, <1>2, <1>3, <1>4 DEF FeedOK, Counted, Forward, UiInv, TypeOK
<1>6. (replay \o pending) \o sink' \o events' = (replay \o pending) \o sink \o events
    <2>1. PICK s \in Seq(Events) : s = replay \o pending
        BY <1>2, ConcatProperties
    <2>2. Append(sink, Head(events)) \o Tail(events) = sink \o events
        BY <1>2, HeadMoves DEF Forward
    <2>3. (s \o sink') \o events' = s \o (sink' \o events')
        BY <1>2, <1>3, EventLines
    <2>4. (s \o sink) \o events = s \o (sink \o events)
        BY <1>2, EventLines
    <2>. QED
        BY <2>1, <2>2, <2>3, <2>4 DEF Forward
<1>. QED
    BY <1>5, <1>6 DEF Forward

(* So does holding an event.                                               *)
LEMMA HoldOK ==
    ASSUME UiInv, Hold
    PROVE  /\ FeedOK'
           /\ UNCHANGED <<replay \o pending \o sink \o events, applied>>
<1>1. PICK a, b, c, d, f \in Nat :
                /\ a = Len(applied) /\ b = Len(replay) /\ c = Len(pending)
                /\ d = Len(sink) /\ f = Len(events)
                /\ a + b + c + d + f = emitted
                /\ emitted \in Nat
    BY Lengths
<1>2. events \in Seq(Events) /\ sink \in Seq(Events) /\ pending \in Seq(Events)
      /\ replay \in Seq(Events) /\ applied \in Seq(Events)
    BY DEF UiInv, TypeOK
<1>3. /\ pending' \in Seq(Events) /\ Len(pending') = c + 1
      /\ sink' \in Seq(Events) /\ Len(sink') = d - 1 /\ d # 0
    BY <1>1, <1>2, Moves DEF Hold
<1>4. a + b + (c + 1) + (d - 1) + f = emitted
    <2>1. a + b + c + d + f = emitted /\ d # 0
        BY <1>1, <1>3
    <2>. QED
        BY <2>1
<1>5. FeedOK'
    BY <1>1, <1>2, <1>3, <1>4 DEF FeedOK, Counted, Hold, UiInv, TypeOK
<1>6. (replay \o pending') \o sink' = (replay \o pending) \o sink
    <2>1. Append(pending, Head(sink)) \o Tail(sink) = pending \o sink
        BY <1>2, HeadMoves DEF Hold
    <2>2. (replay \o pending') \o sink' = replay \o (pending' \o sink')
        BY <1>2, <1>3, EventLines
    <2>3. (replay \o pending) \o sink = replay \o (pending \o sink)
        BY <1>2, EventLines
    <2>. QED
        BY <2>1, <2>2, <2>3 DEF Hold
<1>. QED
    BY <1>5, <1>6 DEF Hold

(* What a log is given is the oldest event that waits, ...                 *)
LEMMA ApplyOK ==
    ASSUME UiInv, Apply
    PROVE  FeedOK' /\ rows' \in Nat /\ Way!Deliver("ui")
<1>1. PICK a, b, c, d, f \in Nat :
                /\ a = Len(applied) /\ b = Len(replay) /\ c = Len(pending)
                /\ d = Len(sink) /\ f = Len(events)
                /\ a + b + c + d + f = emitted
                /\ emitted \in Nat
    BY Lengths
<1>2. events \in Seq(Events) /\ sink \in Seq(Events) /\ pending \in Seq(Events)
      /\ replay \in Seq(Events) /\ applied \in Seq(Events)
    BY DEF UiInv, TypeOK
<1>3. /\ sink' \in Seq(Events) /\ Len(sink') = d - 1 /\ d # 0
      /\ applied' \in Seq(Events) /\ Len(applied') = a + 1
    BY <1>1, <1>2, Moves DEF Apply, Write
<1>4. (a + 1) + b + c + (d - 1) + f = emitted
    <2>1. a + b + c + d + f = emitted /\ d # 0
        BY <1>1, <1>3
    <2>. QED
        BY <2>1
<1>5. FeedOK'
    BY <1>1, <1>2, <1>3, <1>4 DEF FeedOK, Counted, Apply, Write, UiInv, TypeOK
<1>6. rows' \in Nat
    <2>1. Head(sink) \in Events
        BY <1>2, Moves DEF Apply
    <2>2. Head(sink).size \in Nat
        BY <2>1, BoundsAssumption DEF Events
    <2>. QED
        BY <2>2 DEF Apply, Write, UiInv, TypeOK
<1>7. pending = <<>> /\ replay = <<>>
    BY DEF Apply, UiInv, Waiting
<1>8. Way!Deliver("ui")
    <2>1. /\ replay \o pending \o sink = sink
          /\ replay' \o pending' \o sink' = Tail(sink)
        <3>1. <<>> \o <<>> = <<>> /\ <<>> \o sink = sink /\ <<>> \o Tail(sink) = Tail(sink)
            BY <1>2, <1>3, Moves, ConcatEmptySeq DEF Apply
        <3>. QED
            BY <1>7, <3>1 DEF Apply
    <2>2. /\ sink \o events # <<>> /\ Head(sink \o events) = Head(sink)
          /\ Tail(sink \o events) = Tail(sink) \o events
        BY <1>2, ConcatHead DEF Apply
    <2>. QED
        BY <2>1, <2>2 DEF Way!Deliver, Apply, Write
<1>. QED
    BY <1>5, <1>6, <1>8

(* ... also while build catches up.                                        *)
LEMMA ReplayOK ==
    ASSUME UiInv, Replay
    PROVE  FeedOK' /\ rows' \in Nat /\ Way!Deliver("ui")
<1>1. PICK a, b, c, d, f \in Nat :
                /\ a = Len(applied) /\ b = Len(replay) /\ c = Len(pending)
                /\ d = Len(sink) /\ f = Len(events)
                /\ a + b + c + d + f = emitted
                /\ emitted \in Nat
    BY Lengths
<1>2. events \in Seq(Events) /\ sink \in Seq(Events) /\ pending \in Seq(Events)
      /\ replay \in Seq(Events) /\ applied \in Seq(Events)
    BY DEF UiInv, TypeOK
<1>3. /\ replay' \in Seq(Events) /\ Len(replay') = b - 1 /\ b # 0
      /\ applied' \in Seq(Events) /\ Len(applied') = a + 1
    BY <1>1, <1>2, Moves DEF Replay, Write
<1>4. (a + 1) + (b - 1) + c + d + f = emitted
    <2>1. a + b + c + d + f = emitted /\ b # 0
        BY <1>1, <1>3
    <2>. QED
        BY <2>1
<1>5. FeedOK'
    BY <1>1, <1>2, <1>3, <1>4 DEF FeedOK, Counted, Replay, Write, UiInv, TypeOK
<1>6. rows' \in Nat
    <2>1. Head(replay) \in Events
        BY <1>2, Moves DEF Replay
    <2>2. Head(replay).size \in Nat
        BY <2>1, BoundsAssumption DEF Events
    <2>. QED
        BY <2>2 DEF Replay, Write, UiInv, TypeOK
<1>7. Way!Deliver("ui")
    <2>1. PICK rest \in Seq(Events) : rest = (pending \o sink) \o events
        BY <1>2, ConcatProperties
    <2>2. Tail(replay) \in Seq(Events)
        BY <1>2, Moves DEF Replay
    <2>3. ASSUME NEW first \in Seq(Events)
          PROVE  first \o pending \o sink \o events = first \o rest
        <3>1. pending \in Seq(Events) /\ sink \in Seq(Events) /\ events \in Seq(Events)
            BY <1>2
        <3>2. PICK next \in Seq(Events) : next = pending \o sink
            BY <3>1, ConcatProperties
        <3>3. (first \o pending) \o sink = first \o (pending \o sink)
            BY <3>1, EventLines
        <3>4. (first \o next) \o events = first \o (next \o events)
            BY <3>1, EventLines
        <3>. QED
            BY <2>1, <3>2, <3>3, <3>4
    <2>4. /\ replay \o pending \o sink \o events = replay \o rest
          /\ Tail(replay) \o pending \o sink \o events = Tail(replay) \o rest
        BY <1>2, <2>2, <2>3, Zenon
    <2>5. /\ replay \o rest # <<>> /\ Head(replay \o rest) = Head(replay)
          /\ Tail(replay \o rest) = Tail(replay) \o rest
        BY <1>2, ConcatHead DEF Replay
    <2>. QED
        BY <2>4, <2>5 DEF Way!Deliver, Replay, Write
<1>. QED
    BY <1>5, <1>6, <1>7

(* build takes the held events as they are.                                *)
LEMMA BuildOK ==
    ASSUME UiInv, Build
    PROVE  /\ FeedOK'
           /\ UNCHANGED <<replay \o pending \o sink \o events, applied>>
<1>1. PICK a, b, c, d, f \in Nat :
                /\ a = Len(applied) /\ b = Len(replay) /\ c = Len(pending)
                /\ d = Len(sink) /\ f = Len(events)
                /\ a + b + c + d + f = emitted
                /\ emitted \in Nat
    BY Lengths
<1>2. replay = <<>> /\ b = 0
    BY <1>1, Moves DEF Build, UiInv, Waiting
<1>3. a + c + 0 + d + f = emitted
    <2>1. a + b + c + d + f = emitted /\ b = 0
        BY <1>1, <1>2
    <2>. QED
        BY <2>1
<1>4. FeedOK'
    BY <1>1, <1>3, Moves DEF FeedOK, Counted, Build, UiInv, TypeOK
<1>5. <<>> \o pending = pending /\ pending \o <<>> = pending
    BY ConcatEmptySeq DEF UiInv, TypeOK
<1>. QED
    BY <1>2, <1>4, <1>5 DEF Build

-----------------------------------------------------------------------------
(* The view.                                                               *)

ViewOK ==
    /\ rows \in Nat /\ laid \in Nat /\ top \in Nat
    /\ strategy \in {"stick", "keep"} /\ live \in BOOLEAN
    /\ Settled

LEMMA FollowOK ==
    ASSUME UiInv, Follow, rows' \in Nat, laid' = laid
    PROVE  ViewOK'
BY Offsets DEF UiInv, TypeOK, Follow, ViewOK, Settled, Bottom

(* A reader who leaves the bottom gives up following, one who reaches it   *)
(* has it restored.                                                        *)
LEMMA ScrollOK ==
    ASSUME UiInv, NEW target \in Nat, NEW otherwise \in {"stick", "keep"},
           ScrollTo(target, otherwise), UNCHANGED <<rows, laid>>,
           otherwise = "keep" \/ (otherwise = strategy /\ target >= top)
    PROVE  ViewOK'
<1>1. Bottom(laid) \in Nat /\ Bottom(laid)' = Bottom(laid)
    BY Offsets DEF UiInv, TypeOK, Bottom
<1>2. PICK b \in Nat : b = Bottom(laid) /\ b = Bottom(laid)'
    BY <1>1
<1>3. top' \in Nat
    BY <1>1, Offsets DEF ScrollTo
<1>4. strategy' \in {"stick", "keep"} /\ live' \in BOOLEAN
    BY DEF ScrollTo, UiInv, TypeOK
<1>5. strategy' = "stick" => top' = b
    <2>1. CASE target >= b
        BY <1>2, <2>1 DEF ScrollTo, AtMost
    <2>2. CASE ~(target >= b)
        BY <1>2, <2>2 DEF ScrollTo, AtMost, UiInv, Settled, TypeOK
    <2>. QED
        BY <2>1, <2>2
<1>6. live' => strategy' = "stick"
    BY DEF ScrollTo
<1>. QED
    BY <1>2, <1>3, <1>4, <1>5, <1>6 DEF ViewOK, Settled, UiInv, TypeOK

LEMMA LayoutOK ==
    ASSUME UiInv, Layout
    PROVE  ViewOK'
BY Offsets DEF UiInv, TypeOK, Layout, ViewOK, Settled, Bottom

-----------------------------------------------------------------------------
(* The inductive invariant.                                                *)

LEMMA UiInit == Init => UiInv
<1>. SUFFICES ASSUME Init
              PROVE  UiInv
    OBVIOUS
<1>1. TypeOK
    <2>1. 0 \in 0 .. MaxEvents /\ 0 \in 0 .. MaxKeys /\ 0 \in 0 .. MaxTries /\ 0 \in Nat
        BY BoundsAssumption
    <2>2. live \in BOOLEAN /\ esc \in BOOLEAN /\ named \in BOOLEAN
        BY DEF Init
    <2>3. <<>> \in Seq(Events)
        BY EmptySeq
    <2>. QED
        BY <2>1, <2>2, <2>3 DEF Init, TypeOK
<1>2. Settled
    BY BoundsAssumption DEF Init, Settled, Bottom, Less
<1>3. Waiting
    BY DEF Init, Waiting
<1>4. Counted
    BY Moves DEF Init, Counted
<1>. QED
    BY <1>1, <1>2, <1>3, <1>4 DEF UiInv

(* What a key does to all but the feed.                                    *)
LEMMA KeysOK ==
    ASSUME UiInv, Key
    PROVE  keys' \in 0 .. MaxKeys /\ named' = named /\ esc' = esc /\ tries' = tries
           /\ pending = <<>> /\ replay = <<>>
BY BoundsAssumption DEF UiInv, TypeOK, Key, Waiting

(* What the thread does besides keys, the feed and the view.               *)
LEMMA StagesOK ==
    ASSUME UiInv, Run \/ PressConnect \/ StartFails \/ Bind \/ Open \/ PressEsc \/ Escape
    PROVE  UiInv'
<1>1. UNCHANGED <<emitted, events, sink, pending, replay, applied>>
      /\ UNCHANGED <<rows, laid, top, strategy, live>>
    BY DEF feed, view, Run, PressConnect, StartFails, Bind, Open, PressEsc, Escape
<1>2. Settled' /\ Counted'
    BY <1>1 DEF UiInv, Settled, Counted, Bottom, Less
<1>3. Waiting'
    BY <1>1 DEF UiInv, Waiting, Run, PressConnect, StartFails, Bind, Open, PressEsc, Escape, Free
<1>4. TypeOK'
    <2>1. /\ screen' \in {"main", "setup", "start", "dial", "build", "chat", "closed"}
          /\ named' \in BOOLEAN /\ esc' \in BOOLEAN
        BY DEF UiInv, TypeOK, Run, PressConnect, StartFails, Bind, Open, PressEsc, Escape
    <2>2. keys' \in 0 .. MaxKeys
        BY DEF UiInv, TypeOK, Run, PressConnect, StartFails, Bind, Open, PressEsc, Escape
    <2>3. tries' \in 0 .. MaxTries
        BY BoundsAssumption
            DEF UiInv, TypeOK, Run, PressConnect, StartFails, Bind, Open, PressEsc, Escape
    <2>. QED
        BY <1>1, <2>1, <2>2, <2>3 DEF UiInv, TypeOK
<1>. QED
    BY <1>2, <1>3, <1>4 DEF UiInv

(* The invariant holds if feed and view are in order and the rest is.      *)
LEMMA Parts ==
    ASSUME FeedOK', ViewOK', Waiting',
           screen' \in {"main", "setup", "start", "dial", "build", "chat", "closed"},
           named' \in BOOLEAN, esc' \in BOOLEAN,
           keys' \in 0 .. MaxKeys, tries' \in 0 .. MaxTries
    PROVE  UiInv'
BY DEF FeedOK, ViewOK, UiInv, TypeOK

LEMMA KeptParts ==
    ASSUME UiInv
    PROVE  /\ UNCHANGED feed => FeedOK'
           /\ UNCHANGED view => ViewOK'
           /\ UNCHANGED <<laid, top, strategy, live>> /\ rows' \in Nat => ViewOK'
BY DEF UiInv, TypeOK, FeedOK, ViewOK, feed, view, Counted, Settled, Bottom, Less

LEMMA UiStep ==
    ASSUME UiInv, [Next]_vars
    PROVE  UiInv'
<1>. USE DEF UiInv, TypeOK
<1>1. CASE Emit
    BY <1>1, NewEventOK, KeptParts, Parts DEF Emit, NewEvent, Waiting
<1>2. CASE Forward
    BY <1>2, ForwardOK, KeptParts, Parts DEF Forward, Waiting
<1>3. CASE Hold
    BY <1>3, HoldOK, KeptParts, Parts DEF Hold, Waiting
<1>4. CASE Apply
    BY <1>4, ApplyOK, KeptParts, Parts DEF Apply, Write, Waiting
<1>5. CASE Run \/ PressConnect \/ StartFails \/ Bind \/ Open \/ PressEsc \/ Escape
    BY <1>5, StagesOK
<1>6. CASE Build
    BY <1>6, BuildOK, KeptParts, Parts DEF Build, Waiting
<1>7. CASE Replay
    BY <1>7, ReplayOK, KeptParts, Parts DEF Replay, Write, Waiting
<1>8. CASE PageUp
    <2>1. Less(top, Page) \in Nat
        BY Offsets, BoundsAssumption
    <2>2. ViewOK'
        BY <1>8, <2>1, ScrollOK DEF PageUp
    <2>. QED
        BY <1>8, <2>2, KeysOK, KeptParts, Parts DEF PageUp, Waiting, feed
<1>9. CASE PageDown
    <2>1. top + Page \in Nat /\ top + Page >= top
        BY BoundsAssumption
    <2>2. ViewOK'
        BY <1>9, <2>1, ScrollOK DEF PageDown
    <2>. QED
        BY <1>9, <2>2, KeysOK, KeptParts, Parts DEF PageDown, Waiting, feed
<1>10. CASE CtrlE \/ EnterNothing
    <2>1. ViewOK'
        BY <1>10, FollowOK DEF CtrlE, EnterNothing
    <2>. QED
        BY <1>10, <2>1, KeysOK, KeptParts, Parts DEF CtrlE, EnterNothing, Waiting, feed
<1>11. CASE EnterMessage
    <2>1. ViewOK'
        BY <1>11, FollowOK DEF EnterMessage
    <2>. QED
        BY <1>11, <2>1, KeysOK, NewEventOK, Parts DEF EnterMessage, NewEvent, Waiting
<1>12. CASE EnterClear
    <2>1. ViewOK'
        BY <1>12, FollowOK DEF EnterClear
    <2>. QED
        BY <1>12, <2>1, KeysOK, KeptParts, Parts DEF EnterClear, Waiting, feed
<1>13. CASE EnterCommand
    <2>1. rows' \in Nat
        BY <1>13, BoundsAssumption DEF EnterCommand
    <2>2. ViewOK'
        BY <1>13, <2>1, FollowOK DEF EnterCommand
    <2>. QED
        BY <1>13, <2>2, KeysOK, KeptParts, Parts DEF EnterCommand, Waiting, feed
<1>14. CASE EnterQuit
    <2>1. ViewOK'
        BY <1>14, FollowOK DEF EnterQuit
    <2>. QED
        BY <1>14, <2>1, KeysOK, KeptParts, Parts DEF EnterQuit, Waiting, feed
<1>15. CASE Layout
    BY <1>15, LayoutOK, KeptParts, Parts DEF Layout, Waiting, feed
<1>16. CASE UNCHANGED vars
    BY <1>16, KeptParts, Parts DEF vars, feed, view, Waiting
<1>. QED
    BY <1>1, <1>2, <1>3, <1>4, <1>5, <1>6, <1>7, <1>8, <1>9, <1>10, <1>11, <1>12,
       <1>13, <1>14, <1>15, <1>16 DEF Next

(* The types, the state of the view and where events wait.                 *)
THEOREM Invariance == Spec => []UiInv
<1>. QED
    BY UiInit, UiStep, PTL DEF Spec

-----------------------------------------------------------------------------
(* Every variable of the interface keeps its type; no offset underflows.   *)
THEOREM TypeCorrect == Spec => []TypeOK
<1>1. UiInv => TypeOK
    BY DEF UiInv
<1>. QED
    BY <1>1, Invariance, PTL

(* From Enter or Ctrl+E on (ui.rs:705, 758) the newest line is in sight,   *)
(* until the reader pages back.                                            *)
THEOREM FollowersSee == Spec => []NewestInSight
<1>1. UiInv => NewestInSight
    BY DEF UiInv, Settled, NewestInSight
<1>. QED
    BY <1>1, Invariance, PTL

(* Nothing but a key moves the lines of who is reading back (ui.rs:656).   *)
THEOREM ReadersStay == Spec => NotDragged
<1>1. UiInv /\ [Next]_vars =>
        [keys' = keys /\ top < Bottom(laid) /\ rows >= laid => top' = top]_vars
    <2>. SUFFICES ASSUME UiInv, [Next]_vars, keys' = keys, top < Bottom(laid), rows >= laid
                  PROVE  top' = top
        OBVIOUS
    <2>1. strategy = "keep"
        BY Offsets DEF UiInv, TypeOK, Settled
    <2>2. ~Key
        BY DEF Key, UiInv, TypeOK
    <2>3. CASE Layout
        <3>1. Bottom(laid) <= Bottom(rows) /\ Bottom(laid) \in Nat /\ Bottom(rows) \in Nat
            BY Offsets DEF UiInv, TypeOK
        <3>2. AtMost(top, Bottom(rows)) = top
            BY <3>1 DEF AtMost, UiInv, TypeOK
        <3>. QED
            BY <2>1, <2>3, <3>2 DEF Layout
    <2>. QED
        BY <2>2, <2>3 DEF Next, vars, view, Emit, Forward, Hold, Apply, Run, PressConnect,
            StartFails, Bind, Build, Replay, Open, PageUp, PageDown, CtrlE, EnterNothing,
            EnterMessage, EnterClear, EnterCommand, EnterQuit, PressEsc, Escape
<1>. QED
    BY <1>1, Invariance, PTL DEF Spec, NotDragged

(* Whatever screen is up when an event comes (ui.rs:318, 606), it is       *)
(* written to the log once and in its turn.                                *)
THEOREM EventsKeepTheirTurn == Spec => LogIsALine
<1>1. Init => Way!Init
    BY Moves, ConcatEmptySeq DEF Init, Way!Init
<1>2. UiInv /\ [Next]_vars => [Way!Next]_<<[e \in {"ui"} |-> replay \o pending \o sink \o events],
                                          [e \in {"ui"} |-> applied]>>
    <2>. SUFFICES ASSUME UiInv, Next
                  PROVE  Way!Next \/ UNCHANGED <<replay \o pending \o sink \o events, applied>>
        BY DEF vars
    <2>1. CASE Emit \/ EnterMessage
        BY <2>1, NewEventOK DEF Emit, EnterMessage, Way!Next
    <2>2. CASE Apply \/ Replay
        BY <2>2, ApplyOK, ReplayOK DEF Way!Next
    <2>3. CASE Forward \/ Hold \/ Build
        BY <2>3, ForwardOK, HoldOK, BuildOK
    <2>. QED
        BY <2>1, <2>2, <2>3 DEF Next, feed, Run, PressConnect, StartFails, Bind, Open, PageUp,
            PageDown, CtrlE, EnterNothing, EnterClear, EnterCommand, EnterQuit, Layout,
            PressEsc, Escape
<1>. QED
    BY <1>1, <1>2, Invariance, PTL DEF Spec, LogIsALine, Way!Spec
=============================================================================
