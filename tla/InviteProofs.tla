---------------------------- MODULE InviteProofs ----------------------------
(***************************************************************************)
(* Proofs about RoomCode and Invite.                                       *)
(*                                                                         *)
(* parse reads what display shows, for every code of whole groups of five  *)
(* bytes, and every way of writing a code down but two (SpelledIsRead).    *)
(* From that follows the invariant of Invite: what is in a room field, and *)
(* what was shown, stands for the code it came from.                       *)
(*                                                                         *)
(* Five bytes are eight characters.  Encoding is followed for such a round *)
(* (EncodeRound), Decoding likewise (DecodeRound), and each for all rounds *)
(* by induction on their number.  Induction is stated for a set of numbers.*)
(***************************************************************************)
EXTENDS Invite, SequenceTheorems, WellFoundedInduction, TLAPS

-----------------------------------------------------------------------------
(* Induction and recursion.                                                *)

(* Induction on the natural numbers, for what a set has to say of them.    *)
LEMMA Induction ==
    ASSUME NEW T, 0 \in T, \A n \in Nat : n \in T => n + 1 \in T
    PROVE  Nat \subseteq T
<1>. DEFINE Rest == Nat \ T
<1>1. SUFFICES ASSUME Rest # {} PROVE FALSE
    OBVIOUS
<1>2. PICK x \in Rest : \A y \in Rest : <<y, x>> \notin OpToRel(<, Nat)
    <2>1. \E x \in Rest : \A y \in Rest : ~(<<y, x>> \in OpToRel(<, Nat))
        BY <1>1, NatLessThanWellFounded, WFMin
    <2>. QED
        BY <2>1
<1>3. x \in Nat /\ x # 0
    OBVIOUS
<1>4. x - 1 \in Rest
    BY <1>3
<1>5. <<x - 1, x>> \in OpToRel(<, Nat)
    BY <1>3 DEF OpToRel
<1>. QED
    BY <1>2, <1>4, <1>5

(* Induction up to a number.                                               *)
LEMMA InductionUpTo ==
    ASSUME NEW n \in Nat, NEW T, 0 \in T, \A i \in 1 .. n : i - 1 \in T => i \in T
    PROVE  0 .. n \subseteq T
<1>. DEFINE U == {i \in Nat : i <= n => i \in T}
<1>1. 0 \in U
    OBVIOUS
<1>2. ASSUME NEW i \in Nat, i \in U
      PROVE  i + 1 \in U
    <2>. SUFFICES ASSUME i + 1 <= n PROVE i + 1 \in T
        OBVIOUS
    <2>1. i \in T /\ i + 1 \in 1 .. n /\ (i + 1) - 1 = i
        BY <1>2
    <2>. QED
        BY <2>1
<1>3. Nat \subseteq U
    <2>. HIDE DEF U
    <2>. QED
        BY <1>1, <1>2, Induction
<1>. QED
    BY <1>3

(* The functions that a recursive definition defines, of which there is one *)
(* if its steps stay in a set.                                             *)
Defined(n, S, s0, step) ==
    {f \in [0 .. n -> S] : f[0] = s0 /\ \A i \in 1 .. n : f[i] = step[i][f[i - 1]]}

(* There is a function for every first value and every step.               *)
LEMMA Recursion ==
    ASSUME NEW n \in Nat, NEW S, NEW s0 \in S, NEW step \in [1 .. n -> [S -> S]]
    PROVE  Defined(n, S, s0, step) # {}
<1>. DEFINE Upto(k) == Defined(k, S, s0, step)
            T == {k \in 0 .. n : Upto(k) # {}}
<1>1. 0 \in T
    <2>. DEFINE f == [i \in 0 .. 0 |-> s0]
    <2>1. f \in [0 .. 0 -> S] /\ f[0] = s0 /\ 1 .. 0 = {}
        OBVIOUS
    <2>. HIDE DEF f
    <2>2. f \in Upto(0)
        BY <2>1 DEF Defined
    <2>. QED
        BY <2>2
<1>2. ASSUME NEW k \in 1 .. n, k - 1 \in T
      PROVE  k \in T
    <2>1. PICK f \in [0 .. k - 1 -> S] :
                  f[0] = s0 /\ \A i \in 1 .. k - 1 : f[i] = step[i][f[i - 1]]
        BY <1>2 DEF Defined
    <2>. DEFINE g == [i \in 0 .. k |-> IF i < k THEN f[i] ELSE step[k][f[k - 1]]]
    <2>2. step[k][f[k - 1]] \in S
        BY <2>1
    <2>3. g \in [0 .. k -> S] /\ g[0] = s0
        BY <2>1, <2>2
    <2>4. ASSUME NEW i \in 1 .. k
          PROVE  g[i] = step[i][g[i - 1]]
        <3>1. CASE i < k
            BY <2>1, <3>1
        <3>2. CASE i = k
            BY <2>1, <3>2
        <3>. QED
            BY <3>1, <3>2
    <2>. HIDE DEF g
    <2>5. g \in Upto(k)
        BY <2>3, <2>4 DEF Defined
    <2>. QED
        BY <2>5
<1>3. 0 .. n \subseteq T
    <2>. HIDE DEF T
    <2>. QED
        BY <1>1, <1>2, InductionUpTo
<1>4. Upto(n) # {}
    BY <1>3
<1>. QED
    BY <1>4

(* No character is in two of the alphabets, or twice in one.               *)
LEMMA Distinct ==
    /\ DOMAIN Alphabet = 1 .. 32
    /\ DOMAIN Capitals = 1 .. 26
    /\ DOMAIN Smalls = 1 .. 26
    /\ \A i, j \in 1 .. 32 : Alphabet[i] = Alphabet[j] => i = j
    /\ \A i, j \in 1 .. 26 : Capitals[i] = Capitals[j] => i = j
    /\ \A i, j \in 1 .. 26 : Smalls[i] = Smalls[j] => i = j
    /\ \A i \in 1 .. 32, j \in 1 .. 26 : Alphabet[i] # Smalls[j]
    /\ \A i, j \in 1 .. 26 : Capitals[i] # Smalls[j]
<1>1. DOMAIN Alphabet = 1 .. 32 BY DEF Alphabet
<1>2. DOMAIN Capitals = 1 .. 26 BY DEF Capitals
<1>3. DOMAIN Smalls = 1 .. 26 BY DEF Smalls
<1>4. \A i, j \in 1 .. 32 : Alphabet[i] = Alphabet[j] => i = j BY DEF Alphabet
<1>5. \A i, j \in 1 .. 26 : Capitals[i] = Capitals[j] => i = j BY DEF Capitals
<1>6. \A i, j \in 1 .. 26 : Smalls[i] = Smalls[j] => i = j BY DEF Smalls
<1>7. \A i \in 1 .. 32, j \in 1 .. 26 : Alphabet[i] # Smalls[j] BY DEF Alphabet, Smalls
<1>8. \A i, j \in 1 .. 26 : Capitals[i] # Smalls[j] BY DEF Capitals, Smalls
<1>. QED BY <1>1,<1>2,<1>3,<1>4,<1>5,<1>6,<1>7,<1>8

(* The elements of the alphabets.                                          *)
LEMMA InRange ==
    /\ \A i \in 1 .. 32 : Alphabet[i] \in Range(Alphabet)
    /\ \A i \in 1 .. 26 : Capitals[i] \in Range(Capitals) /\ Smalls[i] \in Range(Smalls)
BY Distinct DEF Range

(* What small letters and their lookalikes are read as.                    *)
LEMMA UpperLower ==
    ASSUME NEW c \in Range(Alphabet) \cup Range(Capitals)
    PROVE  Upper(c) = c /\ Upper(Lower(c)) = c
<1>1. \A j \in 1 .. 26 : c # Smalls[j]
    <2>1. CASE c \in Range(Alphabet)
        <3>1. PICK i \in 1 .. 32 : c = Alphabet[i]
            BY <2>1, Distinct DEF Range
        <3>. QED
            BY <3>1, Distinct
    <2>2. CASE c \in Range(Capitals)
        <3>1. PICK i \in 1 .. 26 : c = Capitals[i]
            BY <2>2, Distinct DEF Range
        <3>. QED
            BY <3>1, Distinct
    <2>. QED
        BY <2>1, <2>2
<1>2. Upper(c) = c
    BY <1>1, Distinct DEF Upper
<1>3. CASE \E i \in 1 .. 26 : Capitals[i] = c
    <2>1. PICK i \in 1 .. 26 : Capitals[i] = c
        BY <1>3
    <2>2. (CHOOSE j \in DOMAIN Capitals : Capitals[j] = c) = i
        BY <2>1, Distinct
    <2>3. Lower(c) = Smalls[i]
        BY <2>1, <2>2, Distinct DEF Lower
    <2>4. (CHOOSE j \in DOMAIN Smalls : Smalls[j] = Smalls[i]) = i
        BY Distinct
    <2>5. Upper(Smalls[i]) = Capitals[i]
        BY <2>4, Distinct DEF Upper
    <2>. QED
        BY <1>2, <2>1, <2>3, <2>5
<1>4. CASE ~ \E i \in 1 .. 26 : Capitals[i] = c
    <2>1. Lower(c) = c
        BY <1>4, Distinct DEF Lower
    <2>. QED
        BY <1>2, <2>1
<1>. QED
    BY <1>3, <1>4

(* However a character of a code is spelled, it is read as what it is.     *)
LEMMA CharacterRead ==
    ASSUME NEW k \in 1 .. 32, NEW i \in Nat,
           NEW c \in {Alphabet[k], Alike(Alphabet[k], i)}, NEW x \in {c, Lower(c)}
    PROVE  x \in DOMAIN ValueOf /\ ValueOf[x] = k - 1 /\ x \notin Separators
<1>1. \/ c = Alphabet[k]
      \/ Alphabet[k] = "0" /\ c = "O"
      \/ Alphabet[k] = "1" /\ c \in {"I", "L"}
    BY DEF Alike
<1>2. /\ Capitals[23] = "I" /\ Capitals[24] = "L" /\ Capitals[25] = "O"
      /\ \A j \in 1 .. 32 : Alphabet[j] \notin {"I", "L", "O"} \cup Separators
      /\ \A j \in 1 .. 26 : Capitals[j] \notin Separators /\ Smalls[j] \notin Separators
    BY DEF Capitals, Alphabet, Smalls, Separators
<1>3. c \in Range(Alphabet) \cup Range(Capitals)
    <2>1. Capitals[23] \in Range(Capitals) /\ Capitals[24] \in Range(Capitals)
          /\ Capitals[25] \in Range(Capitals)
        BY InRange
    <2>. QED
        BY <1>1, <1>2, <2>1, InRange
<1>4. Upper(x) = c
    BY <1>3, UpperLower
<1>5. Folded(x) = Alphabet[k]
    BY <1>1, <1>2, <1>4 DEF Folded
<1>6. x \in Characters /\ x \notin Separators
    <2>1. Lower(c) = c \/ \E j \in 1 .. 26 : Lower(c) = Smalls[j]
        <3>1. CASE \E j \in DOMAIN Capitals : Capitals[j] = c
            <4>1. (CHOOSE j \in DOMAIN Capitals : Capitals[j] = c) \in 1 .. 26
                BY <3>1, Distinct
            <4>. QED
                BY <3>1, <4>1 DEF Lower
        <3>2. CASE ~ \E j \in DOMAIN Capitals : Capitals[j] = c
            BY <3>2 DEF Lower
        <3>. QED
            BY <3>1, <3>2
    <2>2. c \in Characters /\ c \notin Separators
        <3>1. \A y \in Range(Alphabet) : \E j \in 1 .. 32 : y = Alphabet[j]
            BY Distinct DEF Range
        <3>2. \A y \in Range(Capitals) : \E j \in 1 .. 26 : y = Capitals[j]
            BY Distinct DEF Range
        <3>. QED
            BY <1>2, <1>3, <3>1, <3>2 DEF Characters
    <2>3. \A j \in 1 .. 26 : Smalls[j] \in Characters /\ Smalls[j] \notin Separators
        BY <1>2, InRange DEF Characters
    <2>. QED
        BY <2>1, <2>2, <2>3
<1>7. (CHOOSE j \in DOMAIN Alphabet : Alphabet[j] = Alphabet[k]) = k
    BY Distinct
<1>8. Folded(x) \in Range(Alphabet)
    BY <1>5, InRange
<1>. QED
    BY <1>5, <1>6, <1>7, <1>8 DEF ValueOf

-----------------------------------------------------------------------------
(* display: what one byte adds.                                            *)

U16 == {b \in Nat : b < 65536}

Symbol(v) == Alphabet[(v % 32) + 1]

Coder(S) == [bits : U16, width : 0 .. 7, out : Seq(S)]
Encoder == {acc \in Coder(Range(Alphabet)) : acc.width \in 0 .. 4}

(* Five bits choose a character.                                           *)
LEMMA SymbolInAlphabet == \A v \in Int : Symbol(v) \in Range(Alphabet)
<1>1. \A v \in Int : (v % 32) + 1 \in 1 .. 32
    OBVIOUS
<1>. QED
    BY <1>1, InRange DEF Symbol

(* The two bytes that the u16 holds.                                       *)
LEMMA TwoBytes ==
    ASSUME NEW b \in Nat, NEW a \in Byte
    PROVE  LET bits == (b % 256) * 256 + a
           IN  (b * 256 + a) % 65536 = bits /\ bits \in U16 /\ bits % 256 = a
<1>. DEFINE r == b % 256
<1>1. a \in Nat /\ a < 256 /\ r \in Nat /\ r < 256
    BY DEF Byte
<1>2. (b * 256 + a) % 65536 = r * 256 + a
    BY <1>1
<1>. HIDE DEF r
<1>3. r * 256 + a \in U16
    BY <1>1 DEF U16
<1>4. (r * 256 + a) % 256 = a
    BY <1>1
<1>. QED
    BY <1>2, <1>3, <1>4 DEF r

(* One character at the end of a sequence, ...                             *)
LEMMA OneMore ==
    ASSUME NEW S, NEW s \in Seq(S), NEW f, f = [i \in 1 .. 1 |-> f[i]], f[1] \in S
    PROVE  s \o f = Append(s, f[1])
<1>1. f = <<f[1]>>
    OBVIOUS
<1>. QED
    BY <1>1, AppendIsConcat

(* ... and two.                                                            *)
LEMMA TwoMore ==
    ASSUME NEW S, NEW s \in Seq(S), NEW f, f = [i \in 1 .. 2 |-> f[i]], f[1] \in S, f[2] \in S
    PROVE  s \o f = Append(Append(s, f[1]), f[2])
<1>1. f \in Seq(S) /\ Len(f) = 2
    <2>1. f \in [1 .. 2 -> S]
        OBVIOUS
    <2>. QED
        BY <2>1, IsASeq, LenProperties
<1>2. /\ s \o f \in Seq(S) /\ Len(s \o f) = Len(s) + 2
      /\ \A i \in 1 .. Len(s) + 2 : (s \o f)[i] = IF i <= Len(s) THEN s[i] ELSE f[i - Len(s)]
    BY <1>1, ConcatProperties
<1>. DEFINE t == Append(Append(s, f[1]), f[2])
<1>3. /\ t \in Seq(S) /\ Len(t) = Len(s) + 2
      /\ \A i \in 1 .. Len(s) : t[i] = s[i]
      /\ t[Len(s) + 1] = f[1] /\ t[Len(s) + 2] = f[2]
    OBVIOUS
<1>. HIDE DEF t
<1>4. \A i \in 1 .. Len(s) + 2 : (s \o f)[i] = t[i]
    BY <1>2, <1>3, LenProperties
<1>. QED
    BY <1>2, <1>3, <1>4, SeqEqual

(* What the u16 holds when a byte has been shifted in.                     *)
Held(acc, a) == (acc.bits % 256) * 256 + a

(* The u16 does not lose what is still needed.                             *)
LEMMA EncoderTypes ==
    ASSUME NEW acc \in Encoder, NEW a \in Byte
    PROVE  /\ acc.bits \in Nat /\ acc.width \in 0 .. 4 /\ acc.out \in Seq(Range(Alphabet))
           /\ (acc.bits * 256 + a) % 2^16 = Held(acc, a)
           /\ Held(acc, a) \in U16 /\ Held(acc, a) \in Nat /\ Held(acc, a) % 256 = a
           /\ \A s \in Nat \ {0} : Symbol(Held(acc, a) \div s) \in Range(Alphabet)
<1>1. acc.bits \in Nat /\ acc.width \in 0 .. 4 /\ acc.out \in Seq(Range(Alphabet))
    BY DEF Encoder, Coder, U16
<1>2. 2^16 = 65536
    OBVIOUS
<1>3. (acc.bits * 256 + a) % 2^16 = Held(acc, a) /\ Held(acc, a) \in U16 /\ Held(acc, a) % 256 = a
    BY <1>1, <1>2, TwoBytes DEF Held
<1>4. Held(acc, a) \in Nat
    BY <1>3 DEF U16
<1>5. \A s \in Nat \ {0} : Held(acc, a) \div s \in Int
    BY <1>4
<1>. QED
    BY <1>1, <1>3, <1>4, <1>5, SymbolInAlphabet

(* A byte after up to one bit left over adds one character, ...            *)
LEMMA EncodeToOne ==
    ASSUME NEW acc \in Encoder, NEW a \in Byte, NEW e \in {3, 4}, acc.width + 3 = e,
           NEW s \in Nat \ {0}, s = 2^e
    PROVE  Encode(acc, a) = [bits |-> Held(acc, a), width |-> e,
                             out |-> Append(acc.out, Symbol(Held(acc, a) \div s))]
<1>. DEFINE bits  == Held(acc, a)
            width == acc.width + 8
            add   == [i \in 1 .. width \div 5 |-> Alphabet[((bits \div 2^(width - 5 * i)) % 32) + 1]]
<1>1. width = e + 5 /\ width \div 5 = 1 /\ width % 5 = e /\ width - 5 * 1 = e
    <2>1. acc.width \in 0 .. 4
        BY EncoderTypes
    <2>. QED
        BY <2>1
<1>2. Encode(acc, a) = [bits |-> bits, width |-> e, out |-> acc.out \o add]
    BY <1>1, EncoderTypes, ZenonT(30) DEF Encode
<1>3. add = [i \in 1 .. 1 |-> add[i]] /\ add[1] = Symbol(bits \div s)
    BY <1>1 DEF Symbol
<1>. HIDE DEF add
<1>4. acc.out \o add = Append(acc.out, add[1])
    BY <1>3, EncoderTypes, OneMore
<1>. QED
    BY <1>2, <1>3, <1>4

(* ... and after more, two.                                                *)
LEMMA EncodeToTwo ==
    ASSUME NEW acc \in Encoder, NEW a \in Byte, NEW e \in {0, 1, 2}, acc.width = e + 2,
           NEW s \in Nat \ {0}, s = 2^(e + 5), NEW t \in Nat \ {0}, t = 2^e
    PROVE  Encode(acc, a) =
               [bits |-> Held(acc, a), width |-> e,
                out |-> Append(Append(acc.out, Symbol(Held(acc, a) \div s)),
                               Symbol(Held(acc, a) \div t))]
<1>. DEFINE bits  == Held(acc, a)
            width == acc.width + 8
            add   == [i \in 1 .. width \div 5 |-> Alphabet[((bits \div 2^(width - 5 * i)) % 32) + 1]]
<1>1. /\ width = e + 10 /\ width \div 5 = 2 /\ width % 5 = e
      /\ width - 5 * 1 = e + 5 /\ width - 5 * 2 = e
    BY EncoderTypes
<1>2. Encode(acc, a) = [bits |-> bits, width |-> e, out |-> acc.out \o add]
    BY <1>1, EncoderTypes, ZenonT(30) DEF Encode
<1>3. /\ add = [i \in 1 .. 2 |-> add[i]]
      /\ add[1] = Symbol(bits \div s) /\ add[2] = Symbol(bits \div t)
    BY <1>1 DEF Symbol
<1>. HIDE DEF add
<1>4. acc.out \o add = Append(Append(acc.out, add[1]), add[2])
    BY <1>3, EncoderTypes, TwoMore, SMTT(30)
<1>. QED
    BY <1>2, <1>3, <1>4

(* Every byte adds one character, or two.                                  *)
One(acc, a, s)    == Append(acc.out, Symbol(Held(acc, a) \div s))
Two(acc, a, s, t) == Append(One(acc, a, s), Symbol(Held(acc, a) \div t))

(* What Encode does, by the bits that were left over.                      *)
LEMMA EncodeStep ==
    ASSUME NEW acc \in Encoder, NEW a \in Byte
    PROVE  LET next == Encode(acc, a)
           IN  /\ next \in Encoder
               /\ next.bits = Held(acc, a)
               /\ acc.width = 0 => next.width = 3 /\ next.out = One(acc, a, 8)
               /\ acc.width = 1 => next.width = 4 /\ next.out = One(acc, a, 16)
               /\ acc.width = 2 => next.width = 0 /\ next.out = Two(acc, a, 32, 1)
               /\ acc.width = 3 => next.width = 1 /\ next.out = Two(acc, a, 64, 2)
               /\ acc.width = 4 => next.width = 2 /\ next.out = Two(acc, a, 128, 4)
<1>1. /\ 2^0 = 1 /\ 2^1 = 2 /\ 2^2 = 4 /\ 2^3 = 8 /\ 2^4 = 16
      /\ 2^(0 + 5) = 32 /\ 2^(1 + 5) = 64 /\ 2^(2 + 5) = 128
    OBVIOUS
<1>2. acc.width \in 0 .. 4 /\ acc.out \in Seq(Range(Alphabet)) /\ Held(acc, a) \in U16
    BY EncoderTypes
<1>3. /\ \A s \in Nat \ {0} : One(acc, a, s) \in Seq(Range(Alphabet))
      /\ \A s, t \in Nat \ {0} : Two(acc, a, s, t) \in Seq(Range(Alphabet))
    BY EncoderTypes, AppendProperties DEF One, Two
<1>4. ASSUME NEW w \in 0 .. 4, NEW out \in Seq(Range(Alphabet))
      PROVE  [bits |-> Held(acc, a), width |-> w, out |-> out] \in Encoder
    BY <1>2 DEF Encoder, Coder
<1>5. CASE acc.width = 0
    <2>1. Encode(acc, a) = [bits |-> Held(acc, a), width |-> 3, out |-> One(acc, a, 8)]
        BY <1>1, <1>5, EncodeToOne DEF One
    <2>. QED
        BY <1>3, <1>4, <1>5, <2>1
<1>6. CASE acc.width = 1
    <2>1. Encode(acc, a) = [bits |-> Held(acc, a), width |-> 4, out |-> One(acc, a, 16)]
        BY <1>1, <1>6, EncodeToOne DEF One
    <2>. QED
        BY <1>3, <1>4, <1>6, <2>1
<1>7. CASE acc.width = 2
    <2>1. Encode(acc, a) = [bits |-> Held(acc, a), width |-> 0, out |-> Two(acc, a, 32, 1)]
        BY <1>1, <1>7, EncodeToTwo DEF One, Two
    <2>. QED
        BY <1>3, <1>4, <1>7, <2>1
<1>8. CASE acc.width = 3
    <2>1. Encode(acc, a) = [bits |-> Held(acc, a), width |-> 1, out |-> Two(acc, a, 64, 2)]
        BY <1>1, <1>8, EncodeToTwo DEF One, Two
    <2>. QED
        BY <1>3, <1>4, <1>8, <2>1
<1>9. CASE acc.width = 4
    <2>1. Encode(acc, a) = [bits |-> Held(acc, a), width |-> 2, out |-> Two(acc, a, 128, 4)]
        BY <1>1, <1>9, EncodeToTwo DEF One, Two
    <2>. QED
        BY <1>3, <1>4, <1>9, <2>1
<1>. QED
    BY <1>2, <1>5, <1>6, <1>7, <1>8, <1>9

(* What a code is shown as: the definition does define.                    *)
LEMMA EmptyCoder ==
    Empty.bits = 0 /\ Empty.width = 0 /\ Empty.out = <<>> /\ \A S : Empty \in Coder(S)
BY DEF Empty, Coder, U16

(* Encoding goes through the bytes of a code.                              *)
LEMMA EncodingSteps ==
    ASSUME NEW n \in Nat, NEW code \in [1 .. n -> Byte]
    PROVE  /\ Len(code) = n
           /\ Encoding(code) \in [0 .. n -> Encoder]
           /\ Encoding(code)[0] = Empty
           /\ \A i \in 1 .. n : Encoding(code)[i] = Encode(Encoding(code)[i - 1], code[i])
<1>1. Len(code) = n
    BY IsASeq, LenProperties
<1>2. Empty \in Encoder
    BY EmptyCoder DEF Encoder
<1>. DEFINE step == [i \in 1 .. n |-> [acc \in Encoder |-> Encode(acc, code[i])]]
            is(f) == f = [i \in 0 .. n |-> IF i = 0 THEN Empty ELSE Encode(f[i - 1], code[i])]
<1>3. step \in [1 .. n -> [Encoder -> Encoder]]
    BY EncodeStep
<1>. HIDE DEF step
<1>4. PICK f \in [0 .. n -> Encoder] : f[0] = Empty /\ \A i \in 1 .. n : f[i] = step[i][f[i - 1]]
    <2>1. Defined(n, Encoder, Empty, step) # {}
        BY <1>2, <1>3, Recursion
    <2>. QED
        BY <2>1 DEF Defined
<1>5. \A i \in 1 .. n : f[i] = Encode(f[i - 1], code[i])
    <2>1. \A i \in 1 .. n : f[i - 1] \in Encoder
        BY <1>4
    <2>2. \A i \in 1 .. n, acc \in Encoder : step[i][acc] = Encode(acc, code[i])
        BY DEF step
    <2>. QED
        BY <1>4, <2>1, <2>2
<1>6. is(f)
    BY <1>4, <1>5
<1>7. Encoding(code) = CHOOSE g : is(g)
    BY <1>1 DEF Encoding
<1>. DEFINE g == Encoding(code)
<1>8. is(g)
    <2>. HIDE DEF is
    <2>. QED
        BY <1>6, <1>7
<1>. HIDE DEF g
<1>9. /\ g = [i \in 0 .. n |-> g[i]] /\ g[0] = Empty
      /\ \A i \in 1 .. n : g[i] = Encode(g[i - 1], code[i])
    BY <1>8
<1>. DEFINE T == {i \in 0 .. n : g[i] \in Encoder}
<1>10. 0 \in T
    BY <1>2, <1>9
<1>11. ASSUME NEW i \in 1 .. n, i - 1 \in T
       PROVE  i \in T
    <2>1. g[i] \in Encoder
        BY <1>9, <1>11, EncodeStep, ZenonT(30)
    <2>. QED
        BY <2>1
<1>12. 0 .. n \subseteq T
    <2>. HIDE DEF T
    <2>. QED
        BY <1>10, <1>11, InductionUpTo
<1>13. g \in [0 .. n -> Encoder]
    BY <1>9, <1>12
<1>. QED
    BY <1>1, <1>9, <1>13 DEF g

(* Five bytes as eight numbers of five bits.                               *)
Fives(a, b, c, d, e) ==
    <<a \div 8, (a % 8) * 4 + b \div 64, (b \div 2) % 32, (b % 2) * 16 + c \div 16,
      (c % 16) * 2 + d \div 128, (d \div 4) % 32, (d % 4) * 8 + e \div 32, e % 32>>

(* None of the eight is larger than five bits.                             *)
LEMMA FivesAreFive ==
    ASSUME NEW a \in Byte, NEW b \in Byte, NEW c \in Byte, NEW d \in Byte, NEW e \in Byte,
           NEW k \in 1 .. 8
    PROVE  Fives(a, b, c, d, e)[k] \in Nat /\ Fives(a, b, c, d, e)[k] < 32
BY DEF Fives, Byte

(* What comes to the end of a sequence.                                    *)
Extends(t, s, k) == Len(t) = Len(s) + k /\ \A i \in 1 .. Len(s) : t[i] = s[i]

(* Where the one character goes, ...                                       *)
LEMMA OneAdded ==
    ASSUME NEW acc \in Encoder, NEW a \in Byte, NEW s \in Nat \ {0}
    PROVE  /\ Extends(One(acc, a, s), acc.out, 1)
           /\ One(acc, a, s)[Len(acc.out) + 1] = Symbol(Held(acc, a) \div s)
BY EncoderTypes, AppendProperties DEF One, Extends

(* ... and where the two go.                                               *)
LEMMA TwoAdded ==
    ASSUME NEW acc \in Encoder, NEW a \in Byte, NEW s \in Nat \ {0}, NEW t \in Nat \ {0}
    PROVE  /\ Extends(Two(acc, a, s, t), acc.out, 2)
           /\ Two(acc, a, s, t)[Len(acc.out) + 1] = Symbol(Held(acc, a) \div s)
           /\ Two(acc, a, s, t)[Len(acc.out) + 2] = Symbol(Held(acc, a) \div t)
<1>1. /\ One(acc, a, s) \in Seq(Range(Alphabet)) /\ Len(acc.out) \in Nat
      /\ Symbol(Held(acc, a) \div t) \in Range(Alphabet)
    BY EncoderTypes, AppendProperties, LenProperties DEF One
<1>. QED
    BY <1>1, OneAdded, AppendProperties DEF Two, Extends

(* The bits of two bytes that one character is made of.                    *)
LEMMA ShiftBy32 ==
    ASSUME NEW z \in Nat, z < 256, NEW a \in Nat, a < 256
    PROVE  ((z * 256 + a) \div 32) % 32 = (z % 4) * 8 + a \div 32
OBVIOUS

(* What a byte adds, by the bits that are left over from the byte before.  *)
LEMMA After0 ==
    ASSUME NEW acc \in Encoder, acc.width = 0, NEW a \in Byte, NEW z, z = acc.bits % 256
    PROVE  LET next == Encode(acc, a)
           IN  /\ next \in Encoder /\ next.width = 3 /\ next.bits % 256 = a
               /\ Extends(next.out, acc.out, 1)
               /\ next.out[Len(acc.out) + 1] = Alphabet[a \div 8 + 1]
<1>. DEFINE next == Encode(acc, a)
<1>1. next \in Encoder /\ next.width = 3 /\ next.bits = Held(acc, a) /\ next.out = One(acc, a, 8)
    BY EncodeStep
<1>2. Held(acc, a) % 256 = a /\ acc.bits \in Nat
    BY EncoderTypes
<1>3. (Held(acc, a) \div 8) % 32 = a \div 8
    <2>1. z \in Nat /\ z < 256 /\ a \in Nat /\ a < 256
        BY <1>2 DEF Byte
    <2>2. Held(acc, a) = z * 256 + a
        BY DEF Held
    <2>3. ((z * 256 + a) \div 8) % 32 = a \div 8
        BY <2>1
    <2>. QED
        BY <2>2, <2>3
<1>4. Symbol(Held(acc, a) \div 8) = Alphabet[a \div 8 + 1]
    BY <1>3 DEF Symbol
<1>. HIDE DEF next
<1>5. QED
    BY <1>1, <1>2, <1>4, OneAdded DEF next

(* After one bit left over, ...                                            *)
LEMMA After1 ==
    ASSUME NEW acc \in Encoder, acc.width = 1, NEW a \in Byte, NEW z, z = acc.bits % 256
    PROVE  LET next == Encode(acc, a)
           IN  /\ next \in Encoder /\ next.width = 4 /\ next.bits % 256 = a
               /\ Extends(next.out, acc.out, 1)
               /\ next.out[Len(acc.out) + 1] = Alphabet[((z % 2) * 16 + a \div 16) + 1]
<1>. DEFINE next == Encode(acc, a)
<1>1. next \in Encoder /\ next.width = 4 /\ next.bits = Held(acc, a) /\ next.out = One(acc, a, 16)
    BY EncodeStep
<1>2. Held(acc, a) % 256 = a /\ acc.bits \in Nat
    BY EncoderTypes
<1>3. (Held(acc, a) \div 16) % 32 = ((z % 2) * 16 + a \div 16)
    <2>1. z \in Nat /\ z < 256 /\ a \in Nat /\ a < 256
        BY <1>2 DEF Byte
    <2>2. Held(acc, a) = z * 256 + a
        BY DEF Held
    <2>3. ((z * 256 + a) \div 16) % 32 = ((z % 2) * 16 + a \div 16)
        BY <2>1
    <2>. QED
        BY <2>2, <2>3
<1>4. Symbol(Held(acc, a) \div 16) = Alphabet[((z % 2) * 16 + a \div 16) + 1]
    BY <1>3 DEF Symbol
<1>. HIDE DEF next
<1>5. QED
    BY <1>1, <1>2, <1>4, OneAdded DEF next

(* ... after two, ...                                                      *)
LEMMA After2 ==
    ASSUME NEW acc \in Encoder, acc.width = 2, NEW a \in Byte, NEW z, z = acc.bits % 256
    PROVE  LET next == Encode(acc, a)
           IN  /\ next \in Encoder /\ next.width = 0 /\ next.bits % 256 = a
               /\ Extends(next.out, acc.out, 2)
               /\ next.out[Len(acc.out) + 1] = Alphabet[((z % 4) * 8 + a \div 32) + 1]
               /\ next.out[Len(acc.out) + 2] = Alphabet[(a % 32) + 1]
<1>. DEFINE next == Encode(acc, a)
<1>1. next \in Encoder /\ next.width = 0 /\ next.bits = Held(acc, a) /\ next.out = Two(acc, a, 32, 1)
    BY EncodeStep
<1>2. Held(acc, a) % 256 = a /\ acc.bits \in Nat
    BY EncoderTypes
<1>3. (Held(acc, a) \div 32) % 32 = ((z % 4) * 8 + a \div 32) /\ (Held(acc, a) \div 1) % 32 = (a % 32)
    <2>1. z \in Nat /\ z < 256 /\ a \in Nat /\ a < 256
        BY <1>2 DEF Byte
    <2>2. Held(acc, a) = z * 256 + a
        BY DEF Held
    <2>3. ((z * 256 + a) \div 32) % 32 = ((z % 4) * 8 + a \div 32)
        BY <2>1, ShiftBy32, ZenonT(30)
    <2>4. ((z * 256 + a) \div 1) % 32 = (a % 32)
        BY <2>1
    <2>. QED
        BY <2>2, <2>3, <2>4
<1>4. Symbol(Held(acc, a) \div 32) = Alphabet[((z % 4) * 8 + a \div 32) + 1] /\ Symbol(Held(acc, a) \div 1) = Alphabet[(a % 32) + 1]
    BY <1>3 DEF Symbol
<1>. HIDE DEF next
<1>5. QED
    BY <1>1, <1>2, <1>4, TwoAdded DEF next

(* ... after three ...                                                     *)
LEMMA After3 ==
    ASSUME NEW acc \in Encoder, acc.width = 3, NEW a \in Byte, NEW z, z = acc.bits % 256
    PROVE  LET next == Encode(acc, a)
           IN  /\ next \in Encoder /\ next.width = 1 /\ next.bits % 256 = a
               /\ Extends(next.out, acc.out, 2)
               /\ next.out[Len(acc.out) + 1] = Alphabet[((z % 8) * 4 + a \div 64) + 1]
               /\ next.out[Len(acc.out) + 2] = Alphabet[((a \div 2) % 32) + 1]
<1>. DEFINE next == Encode(acc, a)
<1>1. next \in Encoder /\ next.width = 1 /\ next.bits = Held(acc, a) /\ next.out = Two(acc, a, 64, 2)
    BY EncodeStep
<1>2. Held(acc, a) % 256 = a /\ acc.bits \in Nat
    BY EncoderTypes
<1>3. (Held(acc, a) \div 64) % 32 = ((z % 8) * 4 + a \div 64) /\ (Held(acc, a) \div 2) % 32 = ((a \div 2) % 32)
    <2>1. z \in Nat /\ z < 256 /\ a \in Nat /\ a < 256
        BY <1>2 DEF Byte
    <2>2. Held(acc, a) = z * 256 + a
        BY DEF Held
    <2>3. ((z * 256 + a) \div 64) % 32 = ((z % 8) * 4 + a \div 64)
        BY <2>1
    <2>4. ((z * 256 + a) \div 2) % 32 = ((a \div 2) % 32)
        BY <2>1
    <2>. QED
        BY <2>2, <2>3, <2>4
<1>4. Symbol(Held(acc, a) \div 64) = Alphabet[((z % 8) * 4 + a \div 64) + 1] /\ Symbol(Held(acc, a) \div 2) = Alphabet[((a \div 2) % 32) + 1]
    BY <1>3 DEF Symbol
<1>. HIDE DEF next
<1>5. QED
    BY <1>1, <1>2, <1>4, TwoAdded DEF next

(* ... and after four.                                                     *)
LEMMA After4 ==
    ASSUME NEW acc \in Encoder, acc.width = 4, NEW a \in Byte, NEW z, z = acc.bits % 256
    PROVE  LET next == Encode(acc, a)
           IN  /\ next \in Encoder /\ next.width = 2 /\ next.bits % 256 = a
               /\ Extends(next.out, acc.out, 2)
               /\ next.out[Len(acc.out) + 1] = Alphabet[((z % 16) * 2 + a \div 128) + 1]
               /\ next.out[Len(acc.out) + 2] = Alphabet[((a \div 4) % 32) + 1]
<1>. DEFINE next == Encode(acc, a)
<1>1. next \in Encoder /\ next.width = 2 /\ next.bits = Held(acc, a) /\ next.out = Two(acc, a, 128, 4)
    BY EncodeStep
<1>2. Held(acc, a) % 256 = a /\ acc.bits \in Nat
    BY EncoderTypes
<1>3. (Held(acc, a) \div 128) % 32 = ((z % 16) * 2 + a \div 128) /\ (Held(acc, a) \div 4) % 32 = ((a \div 4) % 32)
    <2>1. z \in Nat /\ z < 256 /\ a \in Nat /\ a < 256
        BY <1>2 DEF Byte
    <2>2. Held(acc, a) = z * 256 + a
        BY DEF Held
    <2>3. ((z * 256 + a) \div 128) % 32 = ((z % 16) * 2 + a \div 128)
        BY <2>1
    <2>4. ((z * 256 + a) \div 4) % 32 = ((a \div 4) % 32)
        BY <2>1
    <2>. QED
        BY <2>2, <2>3, <2>4
<1>4. Symbol(Held(acc, a) \div 128) = Alphabet[((z % 16) * 2 + a \div 128) + 1] /\ Symbol(Held(acc, a) \div 4) = Alphabet[((a \div 4) % 32) + 1]
    BY <1>3 DEF Symbol
<1>. HIDE DEF next
<1>5. QED
    BY <1>1, <1>2, <1>4, TwoAdded DEF next

(* The eight characters of the five bytes from 5 * j on.                   *)
FivesOf(code, j) == Fives(code[5 * j + 1], code[5 * j + 2], code[5 * j + 3],
                          code[5 * j + 4], code[5 * j + 5])

(* What one byte adds after another.                                       *)
LEMMA FiveBytesExtend ==
    ASSUME NEW t0, NEW t1, NEW t2, NEW t3, NEW t4, NEW t5, Len(t0) \in Nat,
           Extends(t1, t0, 1), Extends(t2, t1, 2), Extends(t3, t2, 1), Extends(t4, t3, 2),
           Extends(t5, t4, 2)
    PROVE  /\ Extends(t5, t0, 8)
           /\ t5[Len(t0) + 1] = t1[Len(t0) + 1]
           /\ t5[Len(t0) + 2] = t2[Len(t1) + 1] /\ t5[Len(t0) + 3] = t2[Len(t1) + 2]
           /\ t5[Len(t0) + 4] = t3[Len(t2) + 1]
           /\ t5[Len(t0) + 5] = t4[Len(t3) + 1] /\ t5[Len(t0) + 6] = t4[Len(t3) + 2]
           /\ t5[Len(t0) + 7] = t5[Len(t4) + 1] /\ t5[Len(t0) + 8] = t5[Len(t4) + 2]
<1>. DEFINE L == Len(t0)
<1>1. /\ Len(t1) = L + 1 /\ Len(t2) = L + 3 /\ Len(t3) = L + 4 /\ Len(t4) = L + 6
      /\ Len(t5) = L + 8
    <2>1. /\ Len(t1) = Len(t0) + 1 /\ Len(t2) = Len(t1) + 2 /\ Len(t3) = Len(t2) + 1
          /\ Len(t4) = Len(t3) + 2 /\ Len(t5) = Len(t4) + 2
        BY DEF Extends
    <2>. QED
        BY <2>1
<1>2. /\ \A k \in 1 .. L : t1[k] = t0[k]
      /\ \A k \in 1 .. L + 1 : t2[k] = t1[k]
      /\ \A k \in 1 .. L + 3 : t3[k] = t2[k]
      /\ \A k \in 1 .. L + 4 : t4[k] = t3[k]
      /\ \A k \in 1 .. L + 6 : t5[k] = t4[k]
    <2>1. /\ (\A k \in 1 .. Len(t0) : t1[k] = t0[k]) /\ (\A k \in 1 .. Len(t1) : t2[k] = t1[k])
          /\ (\A k \in 1 .. Len(t2) : t3[k] = t2[k]) /\ (\A k \in 1 .. Len(t3) : t4[k] = t3[k])
          /\ \A k \in 1 .. Len(t4) : t5[k] = t4[k]
        BY DEF Extends
    <2>. QED
        BY <1>1, <2>1
<1>3. L \in Nat
    OBVIOUS
<1>. HIDE DEF L
<1>4. \A k \in 1 .. L : t5[k] = t0[k]
    BY <1>2, <1>3
<1>5. /\ t5[L + 1] = t1[L + 1] /\ t5[L + 2] = t2[L + 2] /\ t5[L + 3] = t2[L + 3]
      /\ t5[L + 4] = t3[L + 4] /\ t5[L + 5] = t4[L + 5] /\ t5[L + 6] = t4[L + 6]
    BY <1>2, <1>3
<1>6. /\ (L + 1) + 1 = L + 2 /\ (L + 1) + 2 = L + 3 /\ (L + 3) + 1 = L + 4
      /\ (L + 4) + 1 = L + 5 /\ (L + 4) + 2 = L + 6 /\ (L + 6) + 1 = L + 7
      /\ (L + 6) + 2 = L + 8
    BY <1>3
<1>. QED
    BY <1>1, <1>4, <1>5, <1>6 DEF Extends, L

(* Five bytes, one after another, from a state with no bit over.           *)
Steps5(st, bs) ==
    /\ st \in [0 .. 5 -> Encoder] /\ bs \in [1 .. 5 -> Byte]
    /\ st[0].width = 0
    /\ \A k \in 1 .. 5 : st[k] = Encode(st[k - 1], bs[k])

EightMore(s, t, v) == Extends(t, s, 8) /\ \A k \in 1 .. 8 : t[Len(s) + k] = Alphabet[v[k] + 1]

(* Five bytes leave no bit over, and are shown as their eight numbers.     *)
LEMMA FiveBytes ==
    ASSUME NEW st, NEW bs, Steps5(st, bs)
    PROVE  /\ st[5].width = 0
           /\ EightMore(st[0].out, st[5].out, Fives(bs[1], bs[2], bs[3], bs[4], bs[5]))
<1>. DEFINE s0 == st[0]  s1 == st[1]  s2 == st[2]  s3 == st[3]  s4 == st[4]  s5 == st[5]
            a == bs[1]  b == bs[2]  c == bs[3]  d == bs[4]  e == bs[5]
            v == Fives(a, b, c, d, e)
            L == Len(s0.out)
<1>1. a \in Byte /\ b \in Byte /\ c \in Byte /\ d \in Byte /\ e \in Byte
    BY DEF Steps5
<1>2. s0 \in Encoder /\ s0.width = 0
    BY DEF Steps5
<1>3. /\ s1 = Encode(s0, a) /\ s2 = Encode(s1, b) /\ s3 = Encode(s2, c)
      /\ s4 = Encode(s3, d) /\ s5 = Encode(s4, e)
    BY DEF Steps5
<1>4. /\ v[1] = a \div 8              /\ v[2] = (a % 8) * 4 + b \div 64
      /\ v[3] = (b \div 2) % 32       /\ v[4] = (b % 2) * 16 + c \div 16
      /\ v[5] = (c % 16) * 2 + d \div 128  /\ v[6] = (d \div 4) % 32
      /\ v[7] = (d % 4) * 8 + e \div 32    /\ v[8] = e % 32
    BY DEF Fives
<1>5. L \in Nat
    BY <1>2, EncoderTypes, LenProperties DEF Encoder, Coder
<1>. HIDE DEF s0, s1, s2, s3, s4, s5, a, b, c, d, e, v
<1>6. /\ s1 \in Encoder /\ s1.width = 3 /\ s1.bits % 256 = a
      /\ Extends(s1.out, s0.out, 1)
      /\ s1.out[L + 1] = Alphabet[v[1] + 1]
    BY <1>1, <1>2, <1>3, <1>4, After0
<1>7. /\ s2 \in Encoder /\ s2.width = 1 /\ s2.bits % 256 = b
      /\ Extends(s2.out, s1.out, 2)
      /\ s2.out[Len(s1.out) + 1] = Alphabet[v[2] + 1]
      /\ s2.out[Len(s1.out) + 2] = Alphabet[v[3] + 1]
    <2>1. s2 \in Encoder /\ s2.width = 1 /\ s2.bits % 256 = b
          /\ Extends(s2.out, s1.out, 2)
          /\ s2.out[Len(s1.out) + 1] = Alphabet[((a % 8) * 4 + b \div 64) + 1]
          /\ s2.out[Len(s1.out) + 2] = Alphabet[((b \div 2) % 32) + 1]
        BY <1>1, <1>3, <1>6, After3
    <2>. QED
        BY <1>4, <2>1
<1>8. /\ s3 \in Encoder /\ s3.width = 4 /\ s3.bits % 256 = c
      /\ Extends(s3.out, s2.out, 1)
      /\ s3.out[Len(s2.out) + 1] = Alphabet[v[4] + 1]
    BY <1>1, <1>3, <1>4, <1>7, After1
<1>9. /\ s4 \in Encoder /\ s4.width = 2 /\ s4.bits % 256 = d
       /\ Extends(s4.out, s3.out, 2)
       /\ s4.out[Len(s3.out) + 1] = Alphabet[v[5] + 1]
       /\ s4.out[Len(s3.out) + 2] = Alphabet[v[6] + 1]
    <2>1. s4 \in Encoder /\ s4.width = 2 /\ s4.bits % 256 = d
          /\ Extends(s4.out, s3.out, 2)
          /\ s4.out[Len(s3.out) + 1] = Alphabet[((c % 16) * 2 + d \div 128) + 1]
          /\ s4.out[Len(s3.out) + 2] = Alphabet[((d \div 4) % 32) + 1]
        BY <1>1, <1>3, <1>8, After4
    <2>. QED
        BY <1>4, <2>1
<1>10. /\ s5.width = 0
       /\ Extends(s5.out, s4.out, 2)
       /\ s5.out[Len(s4.out) + 1] = Alphabet[v[7] + 1]
       /\ s5.out[Len(s4.out) + 2] = Alphabet[v[8] + 1]
    <2>1. s5.width = 0
          /\ Extends(s5.out, s4.out, 2)
          /\ s5.out[Len(s4.out) + 1] = Alphabet[((d % 4) * 8 + e \div 32) + 1]
          /\ s5.out[Len(s4.out) + 2] = Alphabet[(e % 32) + 1]
        BY <1>1, <1>3, <1>9, After2
    <2>. QED
        BY <1>4, <2>1
<1>. DEFINE t0 == s0.out  t1 == s1.out  t2 == s2.out  t3 == s3.out  t4 == s4.out  t5 == s5.out
<1>. HIDE DEF t0, t1, t2, t3, t4, t5
<1>11. /\ Extends(t1, t0, 1) /\ Extends(t2, t1, 2) /\ Extends(t3, t2, 1) /\ Extends(t4, t3, 2)
       /\ Extends(t5, t4, 2) /\ Len(t0) \in Nat /\ L = Len(t0)
    BY <1>5, <1>6, <1>7, <1>8, <1>9, <1>10 DEF t0, t1, t2, t3, t4, t5, L
<1>12. /\ t1[Len(t0) + 1] = Alphabet[v[1] + 1] /\ t2[Len(t1) + 1] = Alphabet[v[2] + 1]
       /\ t2[Len(t1) + 2] = Alphabet[v[3] + 1] /\ t3[Len(t2) + 1] = Alphabet[v[4] + 1]
       /\ t4[Len(t3) + 1] = Alphabet[v[5] + 1] /\ t4[Len(t3) + 2] = Alphabet[v[6] + 1]
       /\ t5[Len(t4) + 1] = Alphabet[v[7] + 1] /\ t5[Len(t4) + 2] = Alphabet[v[8] + 1]
    BY <1>6, <1>7, <1>8, <1>9, <1>10, <1>11 DEF t0, t1, t2, t3, t4, t5
<1>. HIDE DEF L
<1>13. /\ Extends(t5, t0, 8)
       /\ t5[Len(t0) + 1] = Alphabet[v[1] + 1] /\ t5[Len(t0) + 2] = Alphabet[v[2] + 1]
       /\ t5[Len(t0) + 3] = Alphabet[v[3] + 1] /\ t5[Len(t0) + 4] = Alphabet[v[4] + 1]
       /\ t5[Len(t0) + 5] = Alphabet[v[5] + 1] /\ t5[Len(t0) + 6] = Alphabet[v[6] + 1]
       /\ t5[Len(t0) + 7] = Alphabet[v[7] + 1] /\ t5[Len(t0) + 8] = Alphabet[v[8] + 1]
    BY <1>11, <1>12, FiveBytesExtend
<1>14. \A k \in 1 .. 8 : t5[L + k] = Alphabet[v[k] + 1]
    <2>1. \A k \in 1 .. 8 : k = 1 \/ k = 2 \/ k = 3 \/ k = 4 \/ k = 5 \/ k = 6 \/ k = 7 \/ k = 8
        OBVIOUS
    <2>. QED
        BY <1>11, <1>13, <2>1
<1>. QED
    BY <1>10, <1>11, <1>13, <1>14 DEF EightMore, v, t0, t5, s0, s5, a, b, c, d, e

(* A round of five bytes leaves no bit over and adds its eight characters. *)
LEMMA EncodeRound ==
    ASSUME NEW n \in Nat, NEW code \in [1 .. n -> Byte], NEW j \in Nat, 5 * j + 5 <= n,
           Encoding(code)[5 * j].width = 0
    PROVE  /\ Encoding(code)[5 * j + 5].width = 0
           /\ EightMore(Encoding(code)[5 * j].out, Encoding(code)[5 * j + 5].out, FivesOf(code, j))
<1>. DEFINE g == Encoding(code)
<1>1. g \in [0 .. n -> Encoder] /\ \A i \in 1 .. n : g[i] = Encode(g[i - 1], code[i])
    BY EncodingSteps
<1>2. PICK i \in Nat : i = 5 * j
    OBVIOUS
<1>. HIDE DEF g
<1>. DEFINE st == [k \in 0 .. 5 |-> g[i + k]]
            bs == [k \in 1 .. 5 |-> code[i + k]]
<1>3. \A k \in 1 .. 5 : i + k \in 1 .. n /\ (i + k) - 1 = i + (k - 1) /\ k - 1 \in 0 .. 5
    BY <1>2
<1>4. \A k \in 0 .. 5 : i + k \in 0 .. n
    BY <1>2
<1>5. st \in [0 .. 5 -> Encoder] /\ bs \in [1 .. 5 -> Byte]
    BY <1>1, <1>3, <1>4
<1>6. (\A l \in 0 .. 5 : st[l] = g[i + l]) /\ (\A l \in 1 .. 5 : bs[l] = code[i + l])
    OBVIOUS
<1>7. ASSUME NEW k \in 1 .. 5
      PROVE  st[k] = Encode(st[k - 1], bs[k])
    <2>1. g[i + k] = Encode(g[(i + k) - 1], code[i + k])
        BY <1>1, <1>3
    <2>. HIDE DEF st, bs
    <2>2. st[k] = g[i + k] /\ st[k - 1] = g[i + (k - 1)] /\ bs[k] = code[i + k]
        <3>1. k \in 0 .. 5 /\ k - 1 \in 0 .. 5
            OBVIOUS
        <3>. QED
            BY <1>6, <3>1
    <2>. QED
        BY <1>3, <2>1, <2>2
<1>8. st[0] = g[5 * j] /\ st[5] = g[5 * j + 5]
    BY <1>2
<1>9. Fives(bs[1], bs[2], bs[3], bs[4], bs[5]) = FivesOf(code, j)
    BY <1>2 DEF FivesOf
<1>10. st[0].width = 0
    BY <1>8 DEF g
<1>11. st[5].width = 0 /\ EightMore(st[0].out, st[5].out, FivesOf(code, j))
    <2>. HIDE DEF st, bs
    <2>1. Steps5(st, bs)
        BY <1>5, <1>7, <1>10 DEF Steps5
    <2>. QED
        BY <1>9, <2>1, FiveBytes
<1>. HIDE DEF st
<1>. QED
    BY <1>8, <1>11 DEF g

(* The characters of a whole number of rounds.                             *)
LEMMA EncodedRounds ==
    ASSUME NEW m \in Nat, NEW code \in [1 .. 5 * m -> Byte]
    PROVE  /\ Encoded(code) \in Seq(Range(Alphabet)) /\ Len(Encoded(code)) = 8 * m
           /\ \A j \in 0 .. m - 1, k \in 1 .. 8 :
                  Encoded(code)[8 * j + k] = Alphabet[FivesOf(code, j)[k] + 1]
<1>. DEFINE g == Encoding(code)
            Right(j) == /\ g[5 * j].width = 0 /\ Len(g[5 * j].out) = 8 * j
                        /\ \A l \in 0 .. j - 1, k \in 1 .. 8 :
                               g[5 * j].out[8 * l + k] = Alphabet[FivesOf(code, l)[k] + 1]
            T == {j \in 0 .. m : Right(j)}
<1>1. 5 * m \in Nat
    OBVIOUS
<1>2. Len(code) = 5 * m /\ g \in [0 .. 5 * m -> Encoder] /\ g[0] = Empty
    BY <1>1, EncodingSteps
<1>3. 0 \in T
    <2>1. 5 * 0 = 0 /\ 8 * 0 = 0 /\ 0 .. 0 - 1 = {} /\ 0 \in 0 .. m
        OBVIOUS
    <2>2. Right(0)
        BY <1>2, <2>1, EmptyCoder, EmptySeq
    <2>. QED
        BY <2>1, <2>2
<1>4. ASSUME NEW i \in 1 .. m, i - 1 \in T
      PROVE  i \in T
    <2>. DEFINE j == i - 1
                s == g[5 * j]  t == g[5 * j + 5]
    <2>1. j \in Nat /\ 5 * j + 5 <= 5 * m /\ 5 * j + 5 = 5 * i /\ 8 * j + 8 = 8 * i
        OBVIOUS
    <2>2. Right(j)
        BY <1>4
    <2>3. /\ t.width = 0 /\ Len(t.out) = Len(s.out) + 8
          /\ \A p \in 1 .. Len(s.out) : t.out[p] = s.out[p]
          /\ \A k \in 1 .. 8 : t.out[Len(s.out) + k] = Alphabet[FivesOf(code, j)[k] + 1]
        <3>1. g[5 * j].width = 0
            BY <2>2
        <3>. QED
            BY <1>1, <2>1, <3>1, EncodeRound, ZenonT(30) DEF EightMore, Extends
    <2>4. ASSUME NEW l \in 0 .. i - 1, NEW k \in 1 .. 8
          PROVE  t.out[8 * l + k] = Alphabet[FivesOf(code, l)[k] + 1]
        <3>1. CASE l = j
            BY <2>2, <2>3, <3>1
        <3>2. CASE l # j
            <4>1. l \in 0 .. j - 1 /\ 8 * l + k \in 1 .. 8 * j
                BY <3>2
            <4>2. Len(s.out) = 8 * j /\ s.out[8 * l + k] = Alphabet[FivesOf(code, l)[k] + 1]
                BY <2>2, <4>1
            <4>. HIDE DEF j, s, t
            <4>. QED
                BY <2>3, <4>1, <4>2
        <3>. QED
            BY <3>1, <3>2
    <2>5. Len(t.out) = 8 * i
        <3>1. Len(s.out) = 8 * j
            BY <2>2
        <3>. QED
            BY <2>1, <2>3, <3>1
    <2>6. t = g[5 * i]
        BY <2>1
    <2>7. Right(i)
        <3>1. t.width = 0
            BY <2>3
        <3>. HIDE DEF g, t, s, j, T
        <3>. QED
            BY <2>4, <2>5, <2>6, <3>1
    <2>. QED
        BY <2>7
<1>5. Right(m)
    <2>1. 0 .. m \subseteq T
        <3>. HIDE DEF T
        <3>. QED
            BY <1>3, <1>4, InductionUpTo
    <2>. QED
        BY <2>1
<1>6. g[5 * m].out \in Seq(Range(Alphabet))
    BY <1>1, <1>2 DEF Encoder, Coder
<1>7. Encoded(code) = g[5 * m].out
    BY <1>2 DEF Encoded
<1>. QED
    BY <1>5, <1>6, <1>7

-----------------------------------------------------------------------------
(* parse: what one character adds.                                         *)

Decoder == Coder(Byte)

(* A character is five bits.                                               *)
LEMMA ValueOfType == \A c \in DOMAIN ValueOf : ValueOf[c] \in Nat /\ ValueOf[c] < 32
<1>. SUFFICES ASSUME NEW c \in DOMAIN ValueOf
              PROVE  ValueOf[c] \in Nat /\ ValueOf[c] < 32
    OBVIOUS
<1>1. c \in Characters /\ Folded(c) \in Range(Alphabet)
    BY DEF ValueOf
<1>2. \E i \in DOMAIN Alphabet : Alphabet[i] = Folded(c)
    BY <1>1, Distinct DEF Range
<1>3. (CHOOSE i \in DOMAIN Alphabet : Alphabet[i] = Folded(c)) \in 1 .. 32
    BY <1>2, Distinct
<1>4. ValueOf[c] = (CHOOSE i \in DOMAIN Alphabet : Alphabet[i] = Folded(c)) - 1
    BY <1>1 DEF ValueOf
<1>5. \A i \in 1 .. 32 : i - 1 \in Nat /\ i - 1 < 32
    OBVIOUS
<1>. QED
    BY <1>3, <1>4, <1>5

(* The last three characters, as the u16 holds them.                       *)
Recent(acc, v) == (acc.bits % 1024) * 32 + v

(* The u16 does not lose what the next byte is made of.                    *)
LEMMA ThreeCharacters ==
    ASSUME NEW b \in Nat, NEW v \in Nat, v < 32
    PROVE  LET bits == (b * 32 + v) % 65536
               held == (b % 1024) * 32 + v
           IN  /\ bits \in Nat /\ bits < 65536
               /\ bits % 32 = v /\ bits % 1024 = (b % 32) * 32 + v
               /\ bits % 256 = held % 256
               /\ (bits \div 2) % 256 = (held \div 2) % 256
               /\ (bits \div 4) % 256 = (held \div 4) % 256
               /\ (bits \div 8) % 256 = (held \div 8) % 256
               /\ (bits \div 16) % 256 = (held \div 16) % 256
<1>. DEFINE bits == (b * 32 + v) % 65536
            held == (b % 1024) * 32 + v
<1>1. bits \in Nat /\ bits < 65536 /\ held \in Nat
    OBVIOUS
<1>2. bits % 32768 = held
    OBVIOUS
<1>3. bits % 32 = v
    OBVIOUS
<1>4. bits % 1024 = (b % 32) * 32 + v
    OBVIOUS
<1>. HIDE DEF bits, held
<1>5. bits % 256 = held % 256
    BY <1>1, <1>2
<1>6. (bits \div 2) % 256 = (held \div 2) % 256
    BY <1>1, <1>2
<1>7. (bits \div 4) % 256 = (held \div 4) % 256
    BY <1>1, <1>2
<1>8. (bits \div 8) % 256 = (held \div 8) % 256
    BY <1>1, <1>2
<1>9. (bits \div 16) % 256 = (held \div 16) % 256
    BY <1>1, <1>2
<1>. QED
    BY <1>1, <1>3, <1>4, <1>5, <1>6, <1>7, <1>8, <1>9 DEF bits, held

Shifted(acc, c) == (acc.bits * 32 + ValueOf[c]) % 65536

ByteOf(acc, c, s) == Append(acc.out, (Shifted(acc, c) \div s) % 256)

(* Five bits are kept, or make a byte with those that were kept.           *)
LEMMA DecodeStep ==
    ASSUME NEW acc \in Decoder, NEW c \in DOMAIN ValueOf
    PROVE  LET next == Decode(acc, c)
           IN  /\ next \in Decoder
               /\ next.bits = Shifted(acc, c)
               /\ acc.width < 3 => next.width = acc.width + 5 /\ next.out = acc.out
               /\ acc.width = 3 => next.width = 0 /\ next.out = ByteOf(acc, c, 1)
               /\ acc.width = 4 => next.width = 1 /\ next.out = ByteOf(acc, c, 2)
               /\ acc.width = 5 => next.width = 2 /\ next.out = ByteOf(acc, c, 4)
               /\ acc.width = 6 => next.width = 3 /\ next.out = ByteOf(acc, c, 8)
               /\ acc.width = 7 => next.width = 4 /\ next.out = ByteOf(acc, c, 16)
<1>. DEFINE bits == Shifted(acc, c)
<1>1. acc.bits \in Nat /\ acc.width \in 0 .. 7 /\ acc.out \in Seq(Byte)
    BY DEF Decoder, Coder, U16
<1>2. bits \in U16 /\ bits \in Nat
    <2>1. ValueOf[c] \in Nat
        BY ValueOfType
    <2>. QED
        BY <1>1, <2>1 DEF U16, Shifted
<1>3. (acc.bits * 32 + ValueOf[c]) % 2^16 = bits
    <2>1. 2^16 = 65536
        OBVIOUS
    <2>. QED
        BY <2>1 DEF Shifted
<1>4. \A s \in Nat \ {0} : ByteOf(acc, c, s) \in Seq(Byte)
    <2>1. \A s \in Nat \ {0} : (bits \div s) % 256 \in Byte
        <3>1. \A s \in Nat \ {0} : bits \div s \in Int
            BY <1>2
        <3>2. \A x \in Int : x % 256 \in Byte
            BY DEF Byte
        <3>. HIDE DEF bits
        <3>. QED
            BY <3>1, <3>2
    <2>. QED
        BY <1>1, <2>1, AppendProperties DEF ByteOf
<1>5. ASSUME NEW w \in 0 .. 7, NEW o \in Seq(Byte)
      PROVE  [bits |-> bits, width |-> w, out |-> o] \in Decoder
    BY <1>2 DEF Decoder, Coder
<1>6. CASE acc.width < 3
    <2>1. Decode(acc, c) = [bits |-> bits, width |-> acc.width + 5, out |-> acc.out]
        BY <1>1, <1>3, <1>6, SMTT(30) DEF Decode
    <2>2. acc.width + 5 \in 0 .. 7
        BY <1>1, <1>6
    <2>. HIDE DEF bits
    <2>. QED
        BY <1>1, <1>5, <1>6, <2>1, <2>2 DEF bits
<1>7. ASSUME NEW e \in 0 .. 4, acc.width = e + 3, NEW s \in Nat \ {0}, s = 2^e
      PROVE  Decode(acc, c) = [bits |-> bits, width |-> e, out |-> ByteOf(acc, c, s)]
    <2>1. acc.width + 5 = e + 8 /\ ~(e + 8 < 8) /\ (e + 8) - 8 = e
        BY <1>7
    <2>. QED
        BY <1>3, <1>7, <2>1 DEF Decode, ByteOf
<1>8. 2^0 = 1 /\ 2^1 = 2 /\ 2^2 = 4 /\ 2^3 = 8 /\ 2^4 = 16
    OBVIOUS
<1>9. CASE acc.width = 3
    <2>1. Decode(acc, c) = [bits |-> bits, width |-> 0, out |-> ByteOf(acc, c, 1)]
        BY <1>7, <1>8, <1>9
    <2>. QED
        BY <1>4, <1>5, <1>9, <2>1
<1>10. CASE acc.width = 4
    <2>1. Decode(acc, c) = [bits |-> bits, width |-> 1, out |-> ByteOf(acc, c, 2)]
        BY <1>7, <1>8, <1>10
    <2>. QED
        BY <1>4, <1>5, <1>10, <2>1
<1>11. CASE acc.width = 5
    <2>1. Decode(acc, c) = [bits |-> bits, width |-> 2, out |-> ByteOf(acc, c, 4)]
        BY <1>7, <1>8, <1>11
    <2>. QED
        BY <1>4, <1>5, <1>11, <2>1
<1>12. CASE acc.width = 6
    <2>1. Decode(acc, c) = [bits |-> bits, width |-> 3, out |-> ByteOf(acc, c, 8)]
        BY <1>7, <1>8, <1>12
    <2>. QED
        BY <1>4, <1>5, <1>12, <2>1
<1>13. CASE acc.width = 7
    <2>1. Decode(acc, c) = [bits |-> bits, width |-> 4, out |-> ByteOf(acc, c, 16)]
        BY <1>7, <1>8, <1>13
    <2>. QED
        BY <1>4, <1>5, <1>13, <2>1
<1>14. acc.width < 3 \/ acc.width \in 3 .. 7
    BY <1>1
<1>. QED
    BY <1>6, <1>9, <1>10, <1>11, <1>12, <1>13, <1>14

(* Decoding goes through the characters of a text.                         *)
LEMMA DecodingSteps ==
    ASSUME NEW n \in Nat, NEW chars \in [1 .. n -> DOMAIN ValueOf]
    PROVE  /\ Len(chars) = n
           /\ Decoding(chars) \in [0 .. n -> Decoder]
           /\ Decoding(chars)[0] = Empty
           /\ \A i \in 1 .. n : Decoding(chars)[i] = Decode(Decoding(chars)[i - 1], chars[i])
<1>1. Len(chars) = n
    BY IsASeq, LenProperties
<1>2. Empty \in Decoder
    BY EmptyCoder DEF Decoder
<1>. DEFINE step == [i \in 1 .. n |-> [acc \in Decoder |-> Decode(acc, chars[i])]]
            is(f) == f = [i \in 0 .. n |-> IF i = 0 THEN Empty ELSE Decode(f[i - 1], chars[i])]
<1>3. step \in [1 .. n -> [Decoder -> Decoder]]
    BY DecodeStep
<1>. HIDE DEF step
<1>4. PICK f \in [0 .. n -> Decoder] : f[0] = Empty /\ \A i \in 1 .. n : f[i] = step[i][f[i - 1]]
    <2>1. Defined(n, Decoder, Empty, step) # {}
        BY <1>2, <1>3, Recursion
    <2>. QED
        BY <2>1 DEF Defined
<1>5. \A i \in 1 .. n : f[i] = Decode(f[i - 1], chars[i])
    <2>1. \A i \in 1 .. n : f[i - 1] \in Decoder
        BY <1>4
    <2>2. \A i \in 1 .. n, acc \in Decoder : step[i][acc] = Decode(acc, chars[i])
        BY DEF step
    <2>. QED
        BY <1>4, <2>1, <2>2
<1>6. is(f)
    BY <1>4, <1>5
<1>7. Decoding(chars) = CHOOSE g : is(g)
    BY <1>1 DEF Decoding
<1>. DEFINE g == Decoding(chars)
<1>8. is(g)
    <2>. HIDE DEF is
    <2>. QED
        BY <1>6, <1>7
<1>. HIDE DEF g
<1>9. /\ g = [i \in 0 .. n |-> g[i]] /\ g[0] = Empty
      /\ \A i \in 1 .. n : g[i] = Decode(g[i - 1], chars[i])
    BY <1>8
<1>. DEFINE T == {i \in 0 .. n : g[i] \in Decoder}
<1>10. 0 \in T
    BY <1>2, <1>9
<1>11. ASSUME NEW i \in 1 .. n, i - 1 \in T
       PROVE  i \in T
    <2>1. g[i] \in Decoder
        <3>1. g[i] = Decode(g[i - 1], chars[i]) /\ g[i - 1] \in Decoder /\ chars[i] \in DOMAIN ValueOf
            BY <1>9, <1>11
        <3>. QED
            BY <3>1, DecodeStep
    <2>. QED
        BY <2>1
<1>12. 0 .. n \subseteq T
    <2>. HIDE DEF T
    <2>. QED
        BY <1>10, <1>11, InductionUpTo
<1>13. g \in [0 .. n -> Decoder]
    BY <1>9, <1>12
<1>. QED
    BY <1>1, <1>9, <1>13 DEF g

(* What a character adds to what was read.                                 *)
LEMMA ByteAdded ==
    ASSUME NEW acc \in Decoder, NEW c \in DOMAIN ValueOf, NEW s \in Nat \ {0}
    PROVE  /\ Extends(ByteOf(acc, c, s), acc.out, 1)
           /\ ByteOf(acc, c, s)[Len(acc.out) + 1] = (Shifted(acc, c) \div s) % 256
BY AppendProperties DEF Decoder, Coder, ByteOf, Extends

(* What Decode does, by the bits that were left over.                      *)
LEMMA CharacterAdded ==
    ASSUME NEW acc \in Decoder, NEW c \in DOMAIN ValueOf
    PROVE  LET next == Decode(acc, c)
               v    == ValueOf[c]
               Adds(w, s) == /\ next.width = w /\ Extends(next.out, acc.out, 1)
                             /\ next.out[Len(acc.out) + 1] = (Recent(acc, v) \div s) % 256
           IN  /\ next \in Decoder
               /\ next.bits % 32 = v /\ next.bits % 1024 = (acc.bits % 32) * 32 + v
               /\ acc.width < 3 => next.width = acc.width + 5 /\ next.out = acc.out
               /\ acc.width = 3 => Adds(0, 1)
               /\ acc.width = 4 => Adds(1, 2)
               /\ acc.width = 5 => Adds(2, 4)
               /\ acc.width = 6 => Adds(3, 8)
               /\ acc.width = 7 => Adds(4, 16)
<1>. DEFINE next == Decode(acc, c)
            v    == ValueOf[c]
            bits == Shifted(acc, c)
            held == Recent(acc, v)
<1>1. v \in Nat /\ v < 32 /\ acc.bits \in Nat
    BY ValueOfType DEF Decoder, Coder, U16
<1>2. /\ bits \in Nat
      /\ bits % 32 = v /\ bits % 1024 = (acc.bits % 32) * 32 + v
      /\ bits % 256 = held % 256
      /\ (bits \div 2) % 256 = (held \div 2) % 256
      /\ (bits \div 4) % 256 = (held \div 4) % 256
      /\ (bits \div 8) % 256 = (held \div 8) % 256
      /\ (bits \div 16) % 256 = (held \div 16) % 256
    <2>. DEFINE b == acc.bits
    <2>1. b \in Nat /\ v \in Nat /\ v < 32 /\ bits = (b * 32 + v) % 65536 /\ held = (b % 1024) * 32 + v
        BY <1>1 DEF Shifted, Recent
    <2>. HIDE DEF b, v, bits, held
    <2>2. LET x == (b * 32 + v) % 65536
              y == (b % 1024) * 32 + v
          IN  /\ x \in Nat
              /\ x % 32 = v /\ x % 1024 = (b % 32) * 32 + v
              /\ x % 256 = y % 256
              /\ (x \div 2) % 256 = (y \div 2) % 256
              /\ (x \div 4) % 256 = (y \div 4) % 256
              /\ (x \div 8) % 256 = (y \div 8) % 256
              /\ (x \div 16) % 256 = (y \div 16) % 256
        BY <2>1, ThreeCharacters, SMTT(30)
    <2>. QED
        BY <2>1, <2>2 DEF b
<1>3. (bits \div 1) % 256 = (held \div 1) % 256
    <2>1. held \in Nat
        BY <1>1 DEF Recent
    <2>. HIDE DEF bits, held
    <2>2. bits \div 1 = bits /\ held \div 1 = held
        BY <1>2, <2>1
    <2>. QED
        BY <1>2, <2>2
<1>4. ASSUME NEW s \in Nat \ {0}, next.out = ByteOf(acc, c, s),
             (bits \div s) % 256 = (held \div s) % 256
      PROVE  /\ Extends(next.out, acc.out, 1)
             /\ next.out[Len(acc.out) + 1] = (held \div s) % 256
    BY <1>4, ByteAdded
<1>5. /\ next \in Decoder /\ next.bits = bits
      /\ acc.width < 3 => next.width = acc.width + 5 /\ next.out = acc.out
      /\ acc.width = 3 => next.width = 0 /\ next.out = ByteOf(acc, c, 1)
      /\ acc.width = 4 => next.width = 1 /\ next.out = ByteOf(acc, c, 2)
      /\ acc.width = 5 => next.width = 2 /\ next.out = ByteOf(acc, c, 4)
      /\ acc.width = 6 => next.width = 3 /\ next.out = ByteOf(acc, c, 8)
      /\ acc.width = 7 => next.width = 4 /\ next.out = ByteOf(acc, c, 16)
    BY DecodeStep
<1>. HIDE DEF next, v, bits, held
<1>6. /\ acc.width = 3 => next.width = 0 /\ Extends(next.out, acc.out, 1)
                          /\ next.out[Len(acc.out) + 1] = (held \div 1) % 256
      /\ acc.width = 4 => next.width = 1 /\ Extends(next.out, acc.out, 1)
                          /\ next.out[Len(acc.out) + 1] = (held \div 2) % 256
      /\ acc.width = 5 => next.width = 2 /\ Extends(next.out, acc.out, 1)
                          /\ next.out[Len(acc.out) + 1] = (held \div 4) % 256
      /\ acc.width = 6 => next.width = 3 /\ Extends(next.out, acc.out, 1)
                          /\ next.out[Len(acc.out) + 1] = (held \div 8) % 256
      /\ acc.width = 7 => next.width = 4 /\ Extends(next.out, acc.out, 1)
                          /\ next.out[Len(acc.out) + 1] = (held \div 16) % 256
    <2>1. 1 \in Nat \ {0} /\ 2 \in Nat \ {0} /\ 4 \in Nat \ {0} /\ 8 \in Nat \ {0} /\ 16 \in Nat \ {0}
        OBVIOUS
    <2>. QED
        BY <1>2, <1>3, <1>4, <1>5, <2>1
<1>. QED
    BY <1>2, <1>5, <1>6 DEF next, v, held

(* The five bytes are there again.                                         *)
LEMMA FirstBack ==
    ASSUME NEW a \in Nat, a < 256, NEW b \in Nat, b < 256, NEW q \in Nat, q % 32 = a \div 8
    PROVE  ((q * 32 + ((a % 8) * 4 + b \div 64)) \div 4) % 256 = a
<1>1. (b \div 64) < 4 /\ b \div 64 \in Nat
    OBVIOUS
<1>2. \E h \in Nat : q = h * 32 + a \div 8
    <2>1. q = (q \div 32) * 32 + a \div 8 /\ q \div 32 \in Nat
        OBVIOUS
    <2>. QED
        BY <2>1
<1>3. PICK h \in Nat : q = h * 32 + a \div 8
    BY <1>2
<1>4. (q * 32 + ((a % 8) * 4 + b \div 64)) \div 4 = h * 256 + a
    BY <1>1, <1>3
<1>. QED
    BY <1>4

(* The second byte of five is what three of the numbers say, ...           *)
LEMMA SecondBack ==
    ASSUME NEW a \in Nat, a < 256, NEW b \in Nat, b < 256, NEW c \in Nat, c < 256
    PROVE  (((((a % 8) * 4 + b \div 64) * 32 + ((b \div 2) % 32)) * 32 + ((b % 2) * 16 + c \div 16))
                \div 16) % 256 = b
OBVIOUS

(* ... and so is the third, ...                                            *)
LEMMA ThirdBack ==
    ASSUME NEW b \in Nat, b < 256, NEW c \in Nat, c < 256, NEW d \in Nat, d < 256
    PROVE  (((((b \div 2) % 32) * 32 + ((b % 2) * 16 + c \div 16)) * 32 + ((c % 16) * 2 + d \div 128))
                \div 2) % 256 = c
OBVIOUS

(* ... the fourth ...                                                      *)
LEMMA FourthBack ==
    ASSUME NEW c \in Nat, c < 256, NEW d \in Nat, d < 256, NEW e \in Nat, e < 256
    PROVE  (((((c % 16) * 2 + d \div 128) * 32 + ((d \div 4) % 32)) * 32 + ((d % 4) * 8 + e \div 32))
                \div 8) % 256 = d
OBVIOUS

(* ... and the fifth.                                                      *)
LEMMA FifthBack ==
    ASSUME NEW d \in Nat, d < 256, NEW e \in Nat, e < 256
    PROVE  (((((d \div 4) % 32) * 32 + ((d % 4) * 8 + e \div 32)) * 32 + (e % 32)) \div 1) % 256 = e
OBVIOUS

(* One added after another.                                                *)
LEMMA FiveExtensions ==
    ASSUME NEW t0, NEW t1, NEW t2, NEW t3, NEW t4, NEW t5, Len(t0) \in Nat,
           Extends(t1, t0, 1), Extends(t2, t1, 1), Extends(t3, t2, 1), Extends(t4, t3, 1),
           Extends(t5, t4, 1)
    PROVE  /\ Extends(t5, t0, 5)
           /\ t5[Len(t0) + 1] = t1[Len(t0) + 1] /\ t5[Len(t0) + 2] = t2[Len(t1) + 1]
           /\ t5[Len(t0) + 3] = t3[Len(t2) + 1] /\ t5[Len(t0) + 4] = t4[Len(t3) + 1]
           /\ t5[Len(t0) + 5] = t5[Len(t4) + 1]
<1>. DEFINE L == Len(t0)
<1>1. /\ Len(t1) = L + 1 /\ Len(t2) = L + 2 /\ Len(t3) = L + 3 /\ Len(t4) = L + 4
      /\ Len(t5) = L + 5
    <2>1. /\ Len(t1) = Len(t0) + 1 /\ Len(t2) = Len(t1) + 1 /\ Len(t3) = Len(t2) + 1
          /\ Len(t4) = Len(t3) + 1 /\ Len(t5) = Len(t4) + 1
        BY DEF Extends
    <2>. QED
        BY <2>1
<1>2. /\ \A k \in 1 .. L : t1[k] = t0[k]
      /\ \A k \in 1 .. L + 1 : t2[k] = t1[k]
      /\ \A k \in 1 .. L + 2 : t3[k] = t2[k]
      /\ \A k \in 1 .. L + 3 : t4[k] = t3[k]
      /\ \A k \in 1 .. L + 4 : t5[k] = t4[k]
    <2>1. /\ (\A k \in 1 .. Len(t0) : t1[k] = t0[k]) /\ (\A k \in 1 .. Len(t1) : t2[k] = t1[k])
          /\ (\A k \in 1 .. Len(t2) : t3[k] = t2[k]) /\ (\A k \in 1 .. Len(t3) : t4[k] = t3[k])
          /\ \A k \in 1 .. Len(t4) : t5[k] = t4[k]
        BY DEF Extends
    <2>. QED
        BY <1>1, <2>1
<1>3. L \in Nat
    OBVIOUS
<1>. HIDE DEF L
<1>4. \A k \in 1 .. L : t5[k] = t0[k]
    BY <1>2, <1>3
<1>5. /\ t5[L + 1] = t1[L + 1] /\ t5[L + 2] = t2[L + 2] /\ t5[L + 3] = t3[L + 3]
      /\ t5[L + 4] = t4[L + 4]
    BY <1>2, <1>3
<1>6. /\ (L + 1) + 1 = L + 2 /\ (L + 2) + 1 = L + 3 /\ (L + 3) + 1 = L + 4 /\ (L + 4) + 1 = L + 5
    BY <1>3
<1>. QED
    BY <1>1, <1>4, <1>5, <1>6 DEF Extends, L

BitsOf(q, v, s) == ((q * 32 + v) \div s) % 256

(* What a character adds, by the bits that are left over from before.      *)
LEMMA Kept ==
    ASSUME NEW acc \in Decoder, NEW w \in 0 .. 2, acc.width = w, NEW c \in DOMAIN ValueOf,
           NEW v, v = ValueOf[c], NEW u, u = acc.bits % 32
    PROVE  LET next == Decode(acc, c)
           IN  /\ next \in Decoder /\ next.width = w + 5 /\ next.out = acc.out
               /\ next.bits % 32 = v /\ next.bits % 1024 = u * 32 + v
BY CharacterAdded

(* With three bits left over a character completes a byte, ...             *)
LEMMA Made3 ==
    ASSUME NEW acc \in Decoder, acc.width = 3, NEW c \in DOMAIN ValueOf,
           NEW v, v = ValueOf[c], NEW u, u = acc.bits % 32, NEW q, q = acc.bits % 1024
    PROVE  LET next == Decode(acc, c)
           IN  /\ next \in Decoder /\ next.width = 0
               /\ next.bits % 32 = v /\ next.bits % 1024 = u * 32 + v
               /\ Extends(next.out, acc.out, 1)
               /\ next.out[Len(acc.out) + 1] = BitsOf(q, v, 1)
<1>1. Recent(acc, v) = q * 32 + v
    BY DEF Recent
<1>. QED
    BY <1>1, CharacterAdded DEF BitsOf

(* ... and so it does with four, ...                                       *)
LEMMA Made4 ==
    ASSUME NEW acc \in Decoder, acc.width = 4, NEW c \in DOMAIN ValueOf,
           NEW v, v = ValueOf[c], NEW u, u = acc.bits % 32, NEW q, q = acc.bits % 1024
    PROVE  LET next == Decode(acc, c)
           IN  /\ next \in Decoder /\ next.width = 1
               /\ next.bits % 32 = v /\ next.bits % 1024 = u * 32 + v
               /\ Extends(next.out, acc.out, 1)
               /\ next.out[Len(acc.out) + 1] = BitsOf(q, v, 2)
<1>1. Recent(acc, v) = q * 32 + v
    BY DEF Recent
<1>. QED
    BY <1>1, CharacterAdded DEF BitsOf

(* ... with five, ...                                                      *)
LEMMA Made5 ==
    ASSUME NEW acc \in Decoder, acc.width = 5, NEW c \in DOMAIN ValueOf,
           NEW v, v = ValueOf[c], NEW u, u = acc.bits % 32, NEW q, q = acc.bits % 1024
    PROVE  LET next == Decode(acc, c)
           IN  /\ next \in Decoder /\ next.width = 2
               /\ next.bits % 32 = v /\ next.bits % 1024 = u * 32 + v
               /\ Extends(next.out, acc.out, 1)
               /\ next.out[Len(acc.out) + 1] = BitsOf(q, v, 4)
<1>1. Recent(acc, v) = q * 32 + v
    BY DEF Recent
<1>. QED
    BY <1>1, CharacterAdded DEF BitsOf

(* ... with six ...                                                        *)
LEMMA Made6 ==
    ASSUME NEW acc \in Decoder, acc.width = 6, NEW c \in DOMAIN ValueOf,
           NEW v, v = ValueOf[c], NEW u, u = acc.bits % 32, NEW q, q = acc.bits % 1024
    PROVE  LET next == Decode(acc, c)
           IN  /\ next \in Decoder /\ next.width = 3
               /\ next.bits % 32 = v /\ next.bits % 1024 = u * 32 + v
               /\ Extends(next.out, acc.out, 1)
               /\ next.out[Len(acc.out) + 1] = BitsOf(q, v, 8)
<1>1. Recent(acc, v) = q * 32 + v
    BY DEF Recent
<1>. QED
    BY <1>1, CharacterAdded DEF BitsOf

(* ... and with seven.                                                     *)
LEMMA Made7 ==
    ASSUME NEW acc \in Decoder, acc.width = 7, NEW c \in DOMAIN ValueOf,
           NEW v, v = ValueOf[c], NEW u, u = acc.bits % 32, NEW q, q = acc.bits % 1024
    PROVE  LET next == Decode(acc, c)
           IN  /\ next \in Decoder /\ next.width = 4
               /\ next.bits % 32 = v /\ next.bits % 1024 = u * 32 + v
               /\ Extends(next.out, acc.out, 1)
               /\ next.out[Len(acc.out) + 1] = BitsOf(q, v, 16)
<1>1. Recent(acc, v) = q * 32 + v
    BY DEF Recent
<1>. QED
    BY <1>1, CharacterAdded DEF BitsOf

(* Eight characters, one after another, from a state with no bit over.     *)
Steps8(st, cs) ==
    /\ st \in [0 .. 8 -> Decoder] /\ cs \in [1 .. 8 -> DOMAIN ValueOf]
    /\ st[0].width = 0
    /\ \A k \in 1 .. 8 : st[k] = Decode(st[k - 1], cs[k])

Reads8(cs, v) == \A k \in 1 .. 8 : ValueOf[cs[k]] = v[k]

FiveMore(s, t, a, b, c, d, e) ==
    /\ Extends(t, s, 5)
    /\ t[Len(s) + 1] = a /\ t[Len(s) + 2] = b /\ t[Len(s) + 3] = c
    /\ t[Len(s) + 4] = d /\ t[Len(s) + 5] = e

Octet(chars, j) == [k \in 1 .. 8 |-> chars[8 * j + k]]

(* Eight characters that spell five bytes are read as them.                *)
LEMMA EightCharacters ==
    ASSUME NEW st, NEW cs, Steps8(st, cs),
           NEW a \in Byte, NEW b \in Byte, NEW c \in Byte, NEW d \in Byte, NEW e \in Byte,
           Reads8(cs, Fives(a, b, c, d, e))
    PROVE  st[8].width = 0 /\ FiveMore(st[0].out, st[8].out, a, b, c, d, e)
<1>. DEFINE s0 == st[0]  s1 == st[1]  s2 == st[2]  s3 == st[3]  s4 == st[4]
            s5 == st[5]  s6 == st[6]  s7 == st[7]  s8 == st[8]
            c1 == cs[1]  c2 == cs[2]  c3 == cs[3]  c4 == cs[4]
            c5 == cs[5]  c6 == cs[6]  c7 == cs[7]  c8 == cs[8]
            v1 == a \div 8                   v2 == (a % 8) * 4 + b \div 64
            v3 == (b \div 2) % 32            v4 == (b % 2) * 16 + c \div 16
            v5 == (c % 16) * 2 + d \div 128  v6 == (d \div 4) % 32
            v7 == (d % 4) * 8 + e \div 32    v8 == e % 32
            q  == s1.bits % 1024
<1>1. /\ v1 = ValueOf[c1] /\ v2 = ValueOf[c2] /\ v3 = ValueOf[c3] /\ v4 = ValueOf[c4]
      /\ v5 = ValueOf[c5] /\ v6 = ValueOf[c6] /\ v7 = ValueOf[c7] /\ v8 = ValueOf[c8]
    BY DEF Reads8, Fives
<1>2. /\ a \in Nat /\ a < 256 /\ b \in Nat /\ b < 256 /\ c \in Nat /\ c < 256
      /\ d \in Nat /\ d < 256 /\ e \in Nat /\ e < 256
    BY DEF Byte
<1>3. /\ BitsOf(v2 * 32 + v3, v4, 16) = b
      /\ BitsOf(v3 * 32 + v4, v5, 2) = c
      /\ BitsOf(v5 * 32 + v6, v7, 8) = d
      /\ BitsOf(v6 * 32 + v7, v8, 1) = e
    BY <1>2, SecondBack, ThirdBack, FourthBack, FifthBack DEF BitsOf
<1>4. \A x \in Nat : x % 32 = v1 => BitsOf(x, v2, 4) = a
    BY <1>2, FirstBack DEF BitsOf
<1>5. /\ s0 \in Decoder /\ s0.width = 0
      /\ c1 \in DOMAIN ValueOf /\ c2 \in DOMAIN ValueOf /\ c3 \in DOMAIN ValueOf
      /\ c4 \in DOMAIN ValueOf /\ c5 \in DOMAIN ValueOf /\ c6 \in DOMAIN ValueOf
      /\ c7 \in DOMAIN ValueOf /\ c8 \in DOMAIN ValueOf
      /\ s1 = Decode(s0, c1) /\ s2 = Decode(s1, c2) /\ s3 = Decode(s2, c3)
      /\ s4 = Decode(s3, c4) /\ s5 = Decode(s4, c5) /\ s6 = Decode(s5, c6)
      /\ s7 = Decode(s6, c7) /\ s8 = Decode(s7, c8)
    BY DEF Steps8
<1>. HIDE DEF s0, s1, s2, s3, s4, s5, s6, s7, s8, c1, c2, c3, c4, c5, c6, c7, c8, v1, v2, v3, v4, v5, v6, v7, v8, q
<1>6. /\ s1 \in Decoder /\ s1.width = 5 /\ s1.out = s0.out /\ s1.bits % 32 = v1
    <2>1. 0 \in 0 .. 2 /\ 0 + 5 = 5
        OBVIOUS
    <2>. QED
        BY <1>5, <1>1, <2>1, Kept
<1>7. /\ s2 \in Decoder /\ s2.width = 2 /\ s2.bits % 32 = v2
      /\ Extends(s2.out, s1.out, 1)
      /\ s2.out[Len(s1.out) + 1] = BitsOf(q, v2, 4)
    <2>1. q = s1.bits % 1024
        BY DEF q
    <2>. QED
        BY <1>5, <1>1, <1>6, <2>1, Made5
<1>8. /\ s3 \in Decoder /\ s3.width = 7 /\ s3.out = s2.out
      /\ s3.bits % 32 = v3 /\ s3.bits % 1024 = v2 * 32 + v3
    <2>1. 2 \in 0 .. 2 /\ 2 + 5 = 7
        OBVIOUS
    <2>. QED
        BY <1>5, <1>1, <1>7, <2>1, Kept
<1>9. /\ s4 \in Decoder /\ s4.width = 4
      /\ s4.bits % 32 = v4 /\ s4.bits % 1024 = v3 * 32 + v4
      /\ Extends(s4.out, s3.out, 1)
      /\ s4.out[Len(s3.out) + 1] = BitsOf(v2 * 32 + v3, v4, 16)
    BY <1>5, <1>1, <1>8, Made7
<1>10. /\ s5 \in Decoder /\ s5.width = 1 /\ s5.bits % 32 = v5
      /\ Extends(s5.out, s4.out, 1)
      /\ s5.out[Len(s4.out) + 1] = BitsOf(v3 * 32 + v4, v5, 2)
    BY <1>5, <1>1, <1>9, Made4
<1>11. /\ s6 \in Decoder /\ s6.width = 6 /\ s6.out = s5.out
       /\ s6.bits % 32 = v6 /\ s6.bits % 1024 = v5 * 32 + v6
    <2>1. 1 \in 0 .. 2 /\ 1 + 5 = 6
        OBVIOUS
    <2>. QED
        BY <1>5, <1>1, <1>10, <2>1, Kept
<1>12. /\ s7 \in Decoder /\ s7.width = 3 /\ s7.bits % 1024 = v6 * 32 + v7
       /\ Extends(s7.out, s6.out, 1)
       /\ s7.out[Len(s6.out) + 1] = BitsOf(v5 * 32 + v6, v7, 8)
    BY <1>5, <1>1, <1>11, Made6
<1>13. /\ s8.width = 0
       /\ Extends(s8.out, s7.out, 1)
       /\ s8.out[Len(s7.out) + 1] = BitsOf(v6 * 32 + v7, v8, 1)
    BY <1>5, <1>1, <1>12, Made3
<1>14. BitsOf(q, v2, 4) = a
    <2>1. s1.bits \in Nat
        BY <1>6 DEF Decoder, Coder, U16
    <2>2. \A x \in Nat : x % 1024 \in Nat /\ (x % 1024) % 32 = x % 32
        OBVIOUS
    <2>3. q \in Nat /\ q % 32 = v1
        BY <1>6, <2>1, <2>2 DEF q
    <2>. QED
        BY <1>4, <2>3
<1>. DEFINE t0 == s0.out  t1 == s2.out  t2 == s4.out  t3 == s5.out  t4 == s7.out  t5 == s8.out
<1>15. /\ Extends(t1, t0, 1) /\ t1[Len(t0) + 1] = a
       /\ Extends(t2, t1, 1) /\ t2[Len(t1) + 1] = b
       /\ Extends(t3, t2, 1) /\ t3[Len(t2) + 1] = c
       /\ Extends(t4, t3, 1) /\ t4[Len(t3) + 1] = d
       /\ Extends(t5, t4, 1) /\ t5[Len(t4) + 1] = e
    BY <1>3, <1>6, <1>7, <1>8, <1>9, <1>10, <1>11, <1>12, <1>13, <1>14
<1>16. Len(t0) \in Nat
    BY <1>5, LenProperties DEF Decoder, Coder
<1>. HIDE DEF t0, t1, t2, t3, t4, t5
<1>17. /\ Extends(t5, t0, 5)
       /\ t5[Len(t0) + 1] = a /\ t5[Len(t0) + 2] = b /\ t5[Len(t0) + 3] = c
       /\ t5[Len(t0) + 4] = d /\ t5[Len(t0) + 5] = e
    BY <1>15, <1>16, FiveExtensions
<1>. QED
    BY <1>13, <1>17 DEF FiveMore, t0, t5, s0, s8

(* A round of eight characters leaves no bit over and adds its five bytes. *)
LEMMA DecodeRound ==
    ASSUME NEW n \in Nat, NEW chars \in [1 .. n -> DOMAIN ValueOf], NEW j \in Nat, 8 * j + 8 <= n,
           Decoding(chars)[8 * j].width = 0,
           NEW a \in Byte, NEW b \in Byte, NEW c \in Byte, NEW d \in Byte, NEW e \in Byte,
           Reads8(Octet(chars, j), Fives(a, b, c, d, e))
    PROVE  /\ Decoding(chars)[8 * j + 8].width = 0
           /\ FiveMore(Decoding(chars)[8 * j].out, Decoding(chars)[8 * j + 8].out, a, b, c, d, e)
<1>. DEFINE g == Decoding(chars)
            v == Fives(a, b, c, d, e)
<1>1. g \in [0 .. n -> Decoder] /\ \A i \in 1 .. n : g[i] = Decode(g[i - 1], chars[i])
    BY DecodingSteps
<1>2. PICK i \in Nat : i = 8 * j
    OBVIOUS
<1>. HIDE DEF g
<1>. DEFINE st == [k \in 0 .. 8 |-> g[i + k]]
            cs == [k \in 1 .. 8 |-> chars[i + k]]
<1>3. \A k \in 1 .. 8 : i + k \in 1 .. n /\ (i + k) - 1 = i + (k - 1) /\ k - 1 \in 0 .. 8
    BY <1>2
<1>4. \A k \in 0 .. 8 : i + k \in 0 .. n
    BY <1>2
<1>5. st \in [0 .. 8 -> Decoder] /\ cs \in [1 .. 8 -> DOMAIN ValueOf]
    BY <1>1, <1>3, <1>4
<1>6. (\A l \in 0 .. 8 : st[l] = g[i + l]) /\ (\A l \in 1 .. 8 : cs[l] = chars[i + l])
    OBVIOUS
<1>7. ASSUME NEW k \in 1 .. 8
      PROVE  st[k] = Decode(st[k - 1], cs[k])
    <2>1. g[i + k] = Decode(g[(i + k) - 1], chars[i + k])
        BY <1>1, <1>3
    <2>. HIDE DEF st, cs
    <2>2. st[k] = g[i + k] /\ st[k - 1] = g[i + (k - 1)] /\ cs[k] = chars[i + k]
        <3>1. k \in 0 .. 8 /\ k - 1 \in 0 .. 8
            OBVIOUS
        <3>. QED
            BY <1>6, <3>1
    <2>. QED
        BY <1>3, <2>1, <2>2
<1>8. Reads8(cs, v)
    BY <1>2 DEF Octet
<1>9. st[0] = g[8 * j] /\ st[8] = g[8 * j + 8]
    BY <1>2
<1>10. st[0].width = 0
    BY <1>9 DEF g
<1>11. st[8].width = 0 /\ FiveMore(st[0].out, st[8].out, a, b, c, d, e)
    <2>. HIDE DEF st, cs
    <2>1. Steps8(st, cs)
        BY <1>5, <1>7, <1>10 DEF Steps8
    <2>. QED
        BY <1>8, <2>1, EightCharacters
<1>. HIDE DEF st
<1>. QED
    BY <1>9, <1>11 DEF g

(* The characters of the code, round by round, in whatever form.           *)
Spells(chars, code, m) ==
    \A j \in 0 .. m - 1 : Reads8(Octet(chars, j), FivesOf(code, j))

FiveOf(out, code, j) ==
    /\ out[5 * j + 1] = code[5 * j + 1] /\ out[5 * j + 2] = code[5 * j + 2]
    /\ out[5 * j + 3] = code[5 * j + 3] /\ out[5 * j + 4] = code[5 * j + 4]
    /\ out[5 * j + 5] = code[5 * j + 5]

(* A round of eight characters adds its five bytes, and leaves no bit over. *)
LEMMA OneRound ==
    ASSUME NEW m \in Nat, NEW code \in [1 .. 5 * m -> Byte],
           NEW chars \in [1 .. 8 * m -> DOMAIN ValueOf], Spells(chars, code, m),
           NEW j \in 0 .. m - 1, Decoding(chars)[8 * j].width = 0,
           Len(Decoding(chars)[8 * j].out) = 5 * j
    PROVE  LET s == Decoding(chars)[8 * j].out
               t == Decoding(chars)[8 * (j + 1)].out
           IN  /\ Decoding(chars)[8 * (j + 1)].width = 0
               /\ Len(t) = 5 * (j + 1)
               /\ \A p \in 1 .. 5 * j : t[p] = s[p]
               /\ FiveOf(t, code, j)
<1>. DEFINE n == 8 * m
            g == Decoding(chars)
            a == code[5 * j + 1]  b == code[5 * j + 2]  c == code[5 * j + 3]
            d == code[5 * j + 4]  e == code[5 * j + 5]
<1>1. n \in Nat /\ j \in Nat /\ 8 * j + 8 <= n /\ 8 * (j + 1) = 8 * j + 8 /\ 5 * (j + 1) = 5 * j + 5
    OBVIOUS
<1>2. a \in Byte /\ b \in Byte /\ c \in Byte /\ d \in Byte /\ e \in Byte
    <2>1. /\ 5 * j + 1 \in 1 .. 5 * m /\ 5 * j + 2 \in 1 .. 5 * m /\ 5 * j + 3 \in 1 .. 5 * m
          /\ 5 * j + 4 \in 1 .. 5 * m /\ 5 * j + 5 \in 1 .. 5 * m
        OBVIOUS
    <2>. QED
        BY <2>1
<1>3. Reads8(Octet(chars, j), Fives(a, b, c, d, e))
    BY DEF Spells, FivesOf
<1>. HIDE DEF n, a, b, c, d, e
<1>4. g[8 * j + 8].width = 0 /\ FiveMore(g[8 * j].out, g[8 * j + 8].out, a, b, c, d, e)
    <2>1. chars \in [1 .. n -> DOMAIN ValueOf]
        BY DEF n
    <2>. QED
        BY <1>1, <1>2, <1>3, <2>1, DecodeRound
<1>. DEFINE u == g[8 * j].out  t == g[8 * j + 8].out
<1>5. /\ g[8 * j + 8].width = 0 /\ Extends(t, u, 5) /\ Len(u) = 5 * j
      /\ t[5 * j + 1] = a /\ t[5 * j + 2] = b /\ t[5 * j + 3] = c
      /\ t[5 * j + 4] = d /\ t[5 * j + 5] = e
    BY <1>4 DEF FiveMore
<1>. HIDE DEF t, u
<1>6. FiveOf(t, code, j)
    BY <1>5 DEF FiveOf, a, b, c, d, e
<1>. QED
    BY <1>1, <1>5, <1>6 DEF Extends, t, u

(* What is spelled is what is read.                                        *)
LEMMA DecodedRounds ==
    ASSUME NEW m \in Nat, NEW code \in [1 .. 5 * m -> Byte],
           NEW chars \in [1 .. 8 * m -> DOMAIN ValueOf], Spells(chars, code, m)
    PROVE  Decoding(chars)[8 * m].out = code
<1>. DEFINE g == Decoding(chars)
            Right(j) == /\ g[8 * j].width = 0 /\ Len(g[8 * j].out) = 5 * j
                        /\ \A l \in 0 .. j - 1 : FiveOf(g[8 * j].out, code, l)
            T == {j \in 0 .. m : Right(j)}
<1>1. 8 * m \in Nat /\ 5 * m \in Nat
    OBVIOUS
<1>2. g \in [0 .. 8 * m -> Decoder] /\ g[0] = Empty
    BY <1>1, DecodingSteps
<1>3. 0 \in T
    <2>1. 8 * 0 = 0 /\ 5 * 0 = 0 /\ 0 .. 0 - 1 = {} /\ 0 \in 0 .. m
        OBVIOUS
    <2>2. Right(0)
        BY <1>2, <2>1, EmptyCoder, EmptySeq
    <2>. QED
        BY <2>1, <2>2
<1>4. ASSUME NEW i \in 1 .. m, i - 1 \in T
      PROVE  i \in T
    <2>. DEFINE j == i - 1
                s == g[8 * j].out  t == g[8 * i].out
    <2>1. j \in 0 .. m - 1 /\ j + 1 = i /\ Right(j)
        BY <1>4
    <2>2. /\ g[8 * i].width = 0 /\ Len(t) = 5 * i
          /\ \A p \in 1 .. 5 * j : t[p] = s[p]
          /\ FiveOf(t, code, j)
        <3>1. g[8 * j].width = 0 /\ Len(g[8 * j].out) = 5 * j
            BY <2>1
        <3>. HIDE DEF j
        <3>. QED
            BY <2>1, <3>1, OneRound
    <2>3. ASSUME NEW l \in 0 .. i - 1
          PROVE  FiveOf(t, code, l)
        <3>1. CASE l = j
            BY <2>2, <3>1
        <3>2. CASE l # j
            <4>1. l \in 0 .. j - 1
                BY <3>2
            <4>2. FiveOf(s, code, l)
                BY <2>1, <4>1
            <4>3. /\ 5 * l + 1 \in 1 .. 5 * j /\ 5 * l + 2 \in 1 .. 5 * j /\ 5 * l + 3 \in 1 .. 5 * j
                  /\ 5 * l + 4 \in 1 .. 5 * j /\ 5 * l + 5 \in 1 .. 5 * j
                BY <4>1
            <4>. HIDE DEF j, s, t
            <4>. QED
                BY <2>2, <4>2, <4>3 DEF FiveOf
        <3>. QED
            BY <3>1, <3>2
    <2>. QED
        BY <2>2, <2>3
<1>5. Right(m)
    <2>1. 0 .. m \subseteq T
        <3>. HIDE DEF T
        <3>. QED
            BY <1>3, <1>4, InductionUpTo
    <2>. QED
        BY <2>1
<1>. DEFINE out == g[8 * m].out
<1>6. out \in Seq(Byte)
    BY <1>1, <1>2 DEF Decoder, Coder
<1>7. Len(out) = 5 * m /\ \A l \in 0 .. m - 1 : FiveOf(out, code, l)
    BY <1>5
<1>. HIDE DEF out
<1>8. ASSUME NEW p \in 1 .. 5 * m
      PROVE  out[p] = code[p]
    <2>. DEFINE l == (p - 1) \div 5
    <2>1. l \in 0 .. m - 1 /\ (p = 5 * l + 1 \/ p = 5 * l + 2 \/ p = 5 * l + 3 \/ p = 5 * l + 4 \/ p = 5 * l + 5)
        OBVIOUS
    <2>. HIDE DEF l
    <2>2. FiveOf(out, code, l)
        BY <1>7, <2>1
    <2>. QED
        BY <2>1, <2>2 DEF FiveOf
<1>9. code \in Seq(Byte) /\ Len(code) = 5 * m
    BY <1>1, IsASeq, LenProperties
<1>10. out = code
    BY <1>6, <1>7, <1>8, <1>9, SeqEqual
<1>. QED
    BY <1>10 DEF out

-----------------------------------------------------------------------------
(* parse: what is dropped before the characters are counted.               *)

Cleans(f, text, n, S) ==
    /\ Len(text) = n /\ f \in [0 .. n -> S] /\ f[0] = <<>>
    /\ \A i \in 1 .. n : f[i] = Keep(f[i - 1], text[i])

(* Cleaning goes through the characters of a text.                         *)
LEMMA CleaningSteps ==
    ASSUME NEW X, NEW n \in Nat, NEW text \in [1 .. n -> X]
    PROVE  Cleans(Cleaning(text), text, n, Seq(X))
<1>1. Len(text) = n
    BY IsASeq, LenProperties
<1>. DEFINE S == Seq(X)
            step == [i \in 1 .. n |-> [acc \in S |-> Keep(acc, text[i])]]
            is(f) == f = [i \in 0 .. n |-> IF i = 0 THEN <<>> ELSE Keep(f[i - 1], text[i])]
<1>2. <<>> \in S
    BY EmptySeq
<1>3. \A acc \in S, c \in X : Keep(acc, c) \in S
    BY AppendProperties DEF Keep
<1>. HIDE DEF S
<1>4. step \in [1 .. n -> [S -> S]]
    BY <1>3
<1>5. \A i \in 1 .. n, acc \in S : step[i][acc] = Keep(acc, text[i])
    OBVIOUS
<1>. HIDE DEF step
<1>6. PICK f \in [0 .. n -> S] : f[0] = <<>> /\ \A i \in 1 .. n : f[i] = step[i][f[i - 1]]
    <2>1. Defined(n, S, <<>>, step) # {}
        BY <1>2, <1>4, Recursion
    <2>. QED
        BY <2>1 DEF Defined
<1>7. \A i \in 1 .. n : f[i] = Keep(f[i - 1], text[i])
    <2>1. \A i \in 1 .. n : f[i - 1] \in S
        BY <1>6
    <2>. QED
        BY <1>5, <1>6, <2>1
<1>8. is(f)
    BY <1>6, <1>7
<1>9. Cleaning(text) = CHOOSE g : is(g)
    BY <1>1 DEF Cleaning
<1>. DEFINE g == Cleaning(text)
<1>10. is(g)
    <2>. HIDE DEF is
    <2>. QED
        BY <1>8, <1>9
<1>. HIDE DEF g
<1>11. /\ g = [i \in 0 .. n |-> g[i]] /\ g[0] = <<>>
       /\ \A i \in 1 .. n : g[i] = Keep(g[i - 1], text[i])
    BY <1>10
<1>. DEFINE T == {i \in 0 .. n : g[i] \in S}
<1>12. 0 \in T
    BY <1>2, <1>11
<1>13. ASSUME NEW i \in 1 .. n, i - 1 \in T
       PROVE  i \in T
    <2>1. g[i] = Keep(g[i - 1], text[i]) /\ g[i - 1] \in S /\ text[i] \in X
        BY <1>11, <1>13
    <2>2. g[i] \in S
        BY <1>3, <2>1
    <2>. QED
        BY <2>2
<1>14. 0 .. n \subseteq T
    <2>. HIDE DEF T
    <2>. QED
        BY <1>12, <1>13, InductionUpTo
<1>15. g \in [0 .. n -> S]
    BY <1>11, <1>14
<1>. QED
    BY <1>1, <1>11, <1>15 DEF g, S, Cleans

(* What is kept of a text, by how many characters are kept up to where.    *)
Keeps(text, n, s, count) ==
    /\ count[0] = 0 /\ count[n] = Len(s)
    /\ \A i \in 1 .. n :
        IF text[i] \in Separators THEN count[i] = count[i - 1]
        ELSE count[i] = count[i - 1] + 1 /\ text[i] = s[count[i]]

(* A sequence that counts through what is no separator is what is left.    *)
LEMMA CleanedIs ==
    ASSUME NEW X, NEW n \in Nat, NEW text \in [1 .. n -> X], NEW s \in Seq(X),
           NEW count \in [0 .. n -> Nat], Keeps(text, n, s, count)
    PROVE  Cleaned(text) = s
<1>. DEFINE g == Cleaning(text)
            Right(i) == Len(g[i]) = count[i] /\ \A p \in 1 .. count[i] : g[i][p] = s[p]
            T == {i \in 0 .. n : Right(i)}
<1>1. Cleans(g, text, n, Seq(X))
    BY CleaningSteps
<1>2. /\ Len(text) = n /\ g \in [0 .. n -> Seq(X)] /\ g[0] = <<>>
      /\ \A i \in 1 .. n : g[i] = Keep(g[i - 1], text[i])
    BY <1>1 DEF Cleans
<1>3. 0 \in T
    <2>1. Right(0)
        BY <1>2, EmptySeq DEF Keeps
    <2>. QED
        BY <2>1
<1>4. ASSUME NEW i \in 1 .. n, i - 1 \in T
      PROVE  i \in T
    <2>. DEFINE a == g[i - 1]  b == g[i]  l == count[i - 1]
    <2>1. Len(a) = l /\ (\A p \in 1 .. l : a[p] = s[p]) /\ a \in Seq(X) /\ l \in Nat /\ text[i] \in X
        BY <1>2, <1>4
    <2>2. CASE text[i] \in Separators
        <3>1. b = a /\ count[i] = l
            BY <1>2, <2>2 DEF Keep, Keeps
        <3>2. Right(i)
            BY <2>1, <3>1
        <3>. QED
            BY <3>2
    <2>3. CASE text[i] \notin Separators
        <3>1. b = Append(a, text[i]) /\ count[i] = l + 1 /\ text[i] = s[l + 1]
            BY <1>2, <2>3 DEF Keep, Keeps
        <3>. HIDE DEF a, b, l
        <3>2. Len(b) = l + 1 /\ (\A p \in 1 .. l : b[p] = a[p]) /\ b[l + 1] = s[l + 1]
            BY <2>1, <3>1, AppendProperties
        <3>3. \A p \in 1 .. l + 1 : b[p] = s[p]
            BY <2>1, <3>2
        <3>4. Right(i)
            BY <3>1, <3>2, <3>3 DEF b
        <3>. QED
            BY <3>4
    <2>. QED
        BY <2>2, <2>3
<1>5. Right(n)
    <2>1. 0 .. n \subseteq T
        <3>. HIDE DEF T
        <3>. QED
            BY <1>3, <1>4, InductionUpTo
    <2>. QED
        BY <2>1
<1>6. g[n] \in Seq(X) /\ Len(g[n]) = Len(s) /\ \A p \in 1 .. Len(s) : g[n][p] = s[p]
    BY <1>2, <1>5 DEF Keeps
<1>7. g[n] = s
    <2>. HIDE DEF g
    <2>. QED
        BY <1>6, SeqEqual
<1>. QED
    BY <1>2, <1>7 DEF Cleaned

Solid(s) == \A i \in 1 .. Len(s) : s[i] \notin Separators

(* A text without separators is kept as it is.                             *)
LEMMA CleanedPlain ==
    ASSUME NEW X, NEW text \in Seq(X), Solid(text)
    PROVE  Cleaned(text) = text
<1>. DEFINE n == Len(text)
            count == [i \in 0 .. n |-> i]
<1>1. n \in Nat /\ text \in [1 .. n -> X] /\ count \in [0 .. n -> Nat]
    BY LenProperties
<1>2. Keeps(text, n, text, count)
    BY <1>1 DEF Keeps, Solid
<1>. HIDE DEF n, count
<1>. QED
    BY <1>1, <1>2, CleanedIs

(* What a sequence is that is put together of two.                         *)
Joins(u, s, t, X) ==
    /\ u \in Seq(X) /\ Len(u) = Len(s) + Len(t)
    /\ \A i \in 1 .. Len(s) : u[i] = s[i]
    /\ \A j \in 1 .. Len(t) : u[Len(s) + j] = t[j]

(* A concatenation is such a sequence.                                     *)
LEMMA JoinedOf ==
    ASSUME NEW X, NEW s \in Seq(X), NEW t \in Seq(X)
    PROVE  Joins(s \o t, s, t, X)
<1>. DEFINE u == s \o t
            k == Len(s)
            l == Len(t)
<1>1. /\ u \in Seq(X) /\ Len(u) = k + l
      /\ \A i \in 1 .. k + l : u[i] = IF i <= k THEN s[i] ELSE t[i - k]
    BY ConcatProperties
<1>2. k \in Nat /\ l \in Nat
    BY LenProperties
<1>. HIDE DEF u, k, l
<1>3. \A i \in 1 .. k : u[i] = s[i]
    BY <1>1, <1>2
<1>4. ASSUME NEW j \in 1 .. l
      PROVE  u[k + j] = t[j]
    <2>1. k + j \in 1 .. k + l /\ ~(k + j <= k) /\ (k + j) - k = j
        BY <1>2
    <2>. QED
        BY <1>1, <2>1
<1>5. Joins(u, s, t, X)
    BY <1>1, <1>3, <1>4 DEF Joins, k, l
<1>. QED
    BY <1>5 DEF u

(* Groups of four, and what is in front of them, are run together.         *)
Groups(G, chars, g, l, X) ==
    /\ G \in Seq(X) /\ Len(G) = l
    /\ \A r \in 1 .. l : G[r] = IF r % 5 = 0 THEN g ELSE chars[r - (r \div 5)]

(* What Grouped makes of whole rounds: groups of four.                     *)
LEMMA GroupedAre ==
    ASSUME NEW m \in Nat \ {0}, NEW X, NEW chars \in Seq(X), Len(chars) = 8 * m, NEW g \in X
    PROVE  Groups(Grouped(chars, g), chars, g, 10 * m - 1, X)
<1>. DEFINE l == 10 * m - 1
            G == Grouped(chars, g)
<1>1. 8 * m + ((8 * m - 1) \div 4) = l /\ l \in Nat
    OBVIOUS
<1>2. \A r \in 1 .. l : r % 5 # 0 => r - (r \div 5) \in 1 .. 8 * m
    OBVIOUS
<1>3. G = [p \in 1 .. l |-> IF p % 5 = 0 THEN g ELSE chars[p - (p \div 5)]]
    BY <1>1 DEF Grouped
<1>4. \A i \in 1 .. 8 * m : chars[i] \in X
    OBVIOUS
<1>. HIDE DEF l, G
<1>5. G \in [1 .. l -> X]
    BY <1>2, <1>3, <1>4
<1>6. G \in Seq(X) /\ Len(G) = l
    BY <1>1, <1>5, IsASeq, LenProperties
<1>7. \A r \in 1 .. l : G[r] = IF r % 5 = 0 THEN g ELSE chars[r - (r \div 5)]
    BY <1>3
<1>. QED
    BY <1>6, <1>7 DEF Groups, l, G

(* How many characters are kept up to where, in a text that starts with P  *)
(* of them.                                                                *)
Kept4(P, n) == [p \in 0 .. n |-> IF p <= P THEN p ELSE P + ((p - P - 1) - ((p - P - 1) \div 5))]

Counts(count, P, l) ==
    /\ count \in [0 .. P + 1 + l -> Nat]
    /\ \A p \in 0 .. P : count[p] = p
    /\ \A r \in 0 .. l : count[P + 1 + r] = P + (r - (r \div 5))

(* How Kept4 counts before the groups and in them.                         *)
LEMMA KeptCounts ==
    ASSUME NEW P \in Nat, NEW l \in Nat
    PROVE  Counts(Kept4(P, P + 1 + l), P, l)
<1>. DEFINE n == P + 1 + l
            count == Kept4(P, n)
<1>1. \A p \in 0 .. P : p \in 0 .. n /\ p <= P
    OBVIOUS
<1>2. \A r \in 0 .. l : /\ P + 1 + r \in 0 .. n /\ ~(P + 1 + r <= P) /\ (P + 1 + r) - P - 1 = r
                        /\ P + (r - (r \div 5)) \in Nat
    OBVIOUS
<1>3. count = [p \in 0 .. n |-> IF p <= P THEN p ELSE P + ((p - P - 1) - ((p - P - 1) \div 5))]
    BY DEF Kept4
<1>4. \A p \in 0 .. n : p \in 0 .. P \/ \E r \in 0 .. l : p = P + 1 + r
    <2>. SUFFICES ASSUME NEW p \in 0 .. n, p \notin 0 .. P
                  PROVE  \E r \in 0 .. l : p = P + 1 + r
        OBVIOUS
    <2>1. p - P - 1 \in 0 .. l /\ p = P + 1 + (p - P - 1)
        OBVIOUS
    <2>. QED
        BY <2>1
<1>. HIDE DEF n, count
<1>5. \A p \in 0 .. P : count[p] = p
    BY <1>1, <1>3
<1>6. \A r \in 0 .. l : count[P + 1 + r] = P + (r - (r \div 5))
    BY <1>2, <1>3
<1>7. ASSUME NEW p \in 0 .. n
      PROVE  count[p] \in Nat
    <2>1. CASE p \in 0 .. P
        BY <1>5, <2>1
    <2>2. ASSUME NEW r \in 0 .. l, p = P + 1 + r
          PROVE  count[p] \in Nat
        <3>1. P + (r - (r \div 5)) \in Nat
            BY <1>2
        <3>. QED
            BY <1>6, <2>2, <3>1
    <2>. QED
        BY <1>4, <2>1, <2>2
<1>8. count \in [0 .. n -> Nat]
    BY <1>3, <1>7
<1>. QED
    BY <1>5, <1>6, <1>8 DEF Counts, n, count

(* A text of that form, position by position.                              *)
Laid(text, prefix, chars, g, l, X) ==
    /\ text \in Seq(X) /\ Len(text) = Len(prefix) + 1 + l
    /\ \A p \in 1 .. Len(prefix) : text[p] = prefix[p]
    /\ text[Len(prefix) + 1] = g
    /\ \A r \in 1 .. l : text[Len(prefix) + 1 + r] = IF r % 5 = 0 THEN g ELSE chars[r - (r \div 5)]

(* A prefix, a separator and groups are so laid out.                       *)
LEMMA LaidOut ==
    ASSUME NEW X, NEW prefix \in Seq(X), NEW g \in X, NEW chars, NEW l \in Nat, NEW G,
           Groups(G, chars, g, l, X)
    PROVE  Laid(prefix \o <<g>> \o G, prefix, chars, g, l, X)
<1>. DEFINE P == Len(prefix)
            front == prefix \o <<g>>
            text == front \o G
<1>1. <<g>> \in Seq(X) /\ Len(<<g>>) = 1 /\ <<g>>[1] = g /\ P \in Nat
    BY LenProperties
<1>2. Joins(front, prefix, <<g>>, X)
    BY <1>1, JoinedOf
<1>3. /\ front \in Seq(X) /\ Len(front) = P + 1
      /\ \A p \in 1 .. P : front[p] = prefix[p]
      /\ front[P + 1] = g
    BY <1>1, <1>2 DEF Joins
<1>4. Joins(text, front, G, X)
    BY <1>3, JoinedOf DEF Groups
<1>. HIDE DEF P, front, text
<1>5. /\ text \in Seq(X) /\ Len(text) = P + 1 + l
      /\ \A p \in 1 .. P + 1 : text[p] = front[p]
      /\ \A r \in 1 .. l : text[P + 1 + r] = G[r]
    BY <1>3, <1>4 DEF Joins, Groups
<1>6. \A p \in 1 .. P : text[p] = prefix[p]
    BY <1>1, <1>3, <1>5
<1>7. text[P + 1] = g
    BY <1>1, <1>3, <1>5
<1>8. \A r \in 1 .. l : text[P + 1 + r] = IF r % 5 = 0 THEN g ELSE chars[r - (r \div 5)]
    BY <1>5 DEF Groups
<1>9. Laid(text, prefix, chars, g, l, X)
    BY <1>5, <1>6, <1>7, <1>8 DEF Laid, P
<1>. QED
    BY <1>9 DEF text, front

(* Without the separators a prefix and the characters are left.            *)
LEMMA LaidKeeps ==
    ASSUME NEW m \in Nat \ {0}, NEW X, NEW prefix \in Seq(X), NEW chars \in Seq(X),
           Len(chars) = 8 * m, NEW g \in Separators, NEW text, NEW l, l = 10 * m - 1,
           Laid(text, prefix, chars, g, l, X), Solid(prefix), Solid(chars), NEW s,
           Joins(s, prefix, chars, X)
    PROVE  LET n == Len(prefix) + 1 + l IN Keeps(text, n, s, Kept4(Len(prefix), n))
<1>1. PICK P \in Nat : P = Len(prefix)
    BY LenProperties
<1>. DEFINE n == P + 1 + l
            count == Kept4(P, n)
<1>2. l \in Nat /\ l - (l \div 5) = 8 * m
    OBVIOUS
<1>3. /\ \A p \in 0 .. P : count[p] = p
      /\ \A r \in 0 .. l : count[P + 1 + r] = P + (r - (r \div 5))
    <2>1. Counts(count, P, l)
        BY <1>2, KeptCounts
    <2>. HIDE DEF count, n
    <2>. QED
        BY <2>1 DEF Counts
<1>4. /\ \A p \in 1 .. P : text[p] = prefix[p] /\ text[p] = s[p] /\ text[p] \notin Separators
      /\ text[P + 1] \in Separators
      /\ \A r \in 1 .. l : text[P + 1 + r] = IF r % 5 = 0 THEN g ELSE chars[r - (r \div 5)]
      /\ \A q \in 1 .. 8 * m : s[P + q] = chars[q] /\ chars[q] \notin Separators
      /\ Len(s) = P + 8 * m
    BY <1>1 DEF Laid, Solid, Joins
<1>. HIDE DEF count
<1>5. ASSUME NEW p \in 1 .. n
      PROVE  IF text[p] \in Separators THEN count[p] = count[p - 1]
             ELSE count[p] = count[p - 1] + 1 /\ text[p] = s[count[p]]
    <2>1. CASE p <= P
        <3>1. p \in 1 .. P /\ p \in 0 .. P /\ p - 1 \in 0 .. P /\ p = (p - 1) + 1
            BY <2>1
        <3>. QED
            BY <1>3, <1>4, <3>1
    <2>2. CASE p = P + 1
        <3>1. 0 \in 0 .. l /\ P + 1 + 0 = p /\ P + (0 - (0 \div 5)) = P /\ P \in 0 .. P /\ p - 1 = P
            BY <1>2, <2>2
        <3>2. count[p] = P /\ count[p - 1] = P
            BY <1>3, <3>1
        <3>. QED
            BY <1>4, <2>2, <3>2
    <2>3. CASE ~(p <= P + 1)
        <3>. DEFINE r == p - P - 1
        <3>1. r \in 1 .. l /\ r \in 0 .. l /\ r - 1 \in 0 .. l /\ p = P + 1 + r /\ p - 1 = P + 1 + (r - 1)
            BY <1>2, <2>3
        <3>. HIDE DEF r
        <3>2. /\ count[p] = P + (r - (r \div 5))
              /\ count[p - 1] = P + ((r - 1) - ((r - 1) \div 5))
            BY <1>3, <3>1
        <3>3. CASE r % 5 = 0
            <4>1. text[p] = g
                BY <1>4, <3>1, <3>3
            <4>2. (r - 1) - ((r - 1) \div 5) = r - (r \div 5)
                BY <3>1, <3>3
            <4>. QED
                BY <3>2, <4>1, <4>2
        <3>4. CASE r % 5 # 0
            <4>. DEFINE q == r - (r \div 5)
            <4>1. q \in 1 .. 8 * m /\ q = ((r - 1) - ((r - 1) \div 5)) + 1
                BY <3>1, <3>4
            <4>2. text[p] = chars[q]
                BY <1>4, <3>1, <3>4
            <4>3. count[p] = P + q /\ count[p - 1] = P + (q - 1)
                BY <3>1, <3>2, <4>1
            <4>4. s[P + q] = chars[q] /\ chars[q] \notin Separators
                <5>. HIDE DEF q
                <5>. QED
                    BY <1>4, <4>1
            <4>. HIDE DEF q
            <4>5. P + q = (P + (q - 1)) + 1
                BY <4>1
            <4>. QED
                BY <4>2, <4>3, <4>4, <4>5
        <3>. QED
            BY <3>3, <3>4
    <2>. QED
        BY <2>1, <2>2, <2>3
<1>6. count[0] = 0 /\ count[n] = Len(s)
    <2>1. 0 \in 0 .. P /\ l \in 0 .. l
        BY <1>2
    <2>. QED
        BY <1>2, <1>3, <1>4, <2>1, ZenonT(20)
<1>7. Keeps(text, n, s, count)
    BY <1>5, <1>6 DEF Keeps
<1>. QED
    BY <1>1, <1>7 DEF count

(* What texts are made of.                                                 *)
Marks == Characters \cup Separators

(* So cleaning undoes the groups.                                          *)
LEMMA CleanedGroups ==
    ASSUME NEW m \in Nat \ {0}, NEW prefix \in Seq(Marks), NEW chars \in Seq(Marks),
           Len(chars) = 8 * m, NEW g \in Marks, g \in Separators, Solid(prefix), Solid(chars)
    PROVE  Cleaned(prefix \o <<g>> \o Grouped(chars, g)) = prefix \o chars
<1>. DEFINE l == 10 * m - 1
            G == Grouped(chars, g)
            text == prefix \o <<g>> \o G
            s == prefix \o chars
            P == Len(prefix)
            n == P + 1 + l
<1>1. l \in Nat /\ P \in Nat /\ n \in Nat
    BY LenProperties
<1>2. Groups(G, chars, g, l, Marks)
    BY GroupedAre
<1>3. Joins(s, prefix, chars, Marks)
    BY JoinedOf
<1>4. l = 10 * m - 1
    OBVIOUS
<1>. HIDE DEF l, G
<1>5. Laid(text, prefix, chars, g, l, Marks)
    BY <1>1, <1>2, LaidOut
<1>. HIDE DEF text, s
<1>6. Keeps(text, n, s, Kept4(P, n))
    BY <1>3, <1>4, <1>5, LaidKeeps
<1>7. Kept4(P, n) \in [0 .. n -> Nat]
    <2>. HIDE DEF P
    <2>. QED
        BY <1>1, KeptCounts DEF Counts
<1>8. s \in Seq(Marks) /\ text \in Seq(Marks) /\ Len(text) = n
    BY <1>3, <1>5 DEF Joins, Laid
<1>. HIDE DEF n, P
<1>9. text \in [1 .. n -> Marks]
    BY <1>8, LenProperties
<1>10. Cleaned(text) = s
    BY <1>1, <1>6, <1>7, <1>8, <1>9, CleanedIs
<1>. QED
    BY <1>10 DEF text, s, G

-----------------------------------------------------------------------------
(* However a code is written down.                                         *)

(* What has a value is a character.                                        *)
LEMMA ReadableAreMarks == DOMAIN ValueOf \subseteq Marks
BY DEF ValueOf, Marks

(* However a character is written down, it is read as itself.              *)
LEMMA WrittenRead ==
    ASSUME NEW k \in 1 .. 32, NEW i \in Nat, NEW style \in Style
    PROVE  LET x == Written(Alphabet[k], i, style)
           IN  x \in DOMAIN ValueOf /\ ValueOf[x] = k - 1 /\ x \notin Separators
<1>. DEFINE c == IF style.alike THEN Alike(Alphabet[k], i) ELSE Alphabet[k]
            x == Written(Alphabet[k], i, style)
<1>1. c \in {Alphabet[k], Alike(Alphabet[k], i)}
    OBVIOUS
<1>2. x \in {c, Lower(c)}
    BY DEF Written
<1>. HIDE DEF c, x
<1>3. x \in DOMAIN ValueOf /\ ValueOf[x] = k - 1 /\ x \notin Separators
    BY <1>1, <1>2, CharacterRead
<1>. QED
    BY <1>3 DEF x

(* However a code is written down, its characters spell its bytes.         *)
LEMMA LettersRead ==
    ASSUME NEW m \in Nat \ {0}, NEW code \in [1 .. 5 * m -> Byte], NEW style \in Style
    PROVE  LET chars == Letters(code, style)
           IN  /\ chars \in [1 .. 8 * m -> DOMAIN ValueOf]
               /\ chars \in Seq(Marks) /\ Len(chars) = 8 * m
               /\ Solid(chars) /\ Spells(chars, code, m)
               /\ \A i \in 1 .. 8 * m : chars[i] = Written(Encoded(code)[i], i, style)
<1>. DEFINE shown == Encoded(code)
            chars == Letters(code, style)
            v(j, k) == FivesOf(code, j)[k]
<1>1. /\ Len(shown) = 8 * m
      /\ \A j \in 0 .. m - 1, k \in 1 .. 8 : shown[8 * j + k] = Alphabet[v(j, k) + 1]
    BY EncodedRounds
<1>2. ASSUME NEW j \in 0 .. m - 1, NEW k \in 1 .. 8
      PROVE  v(j, k) + 1 \in 1 .. 32 /\ (v(j, k) + 1) - 1 = v(j, k)
    <2>1. /\ 5 * j + 1 \in 1 .. 5 * m /\ 5 * j + 2 \in 1 .. 5 * m /\ 5 * j + 3 \in 1 .. 5 * m
          /\ 5 * j + 4 \in 1 .. 5 * m /\ 5 * j + 5 \in 1 .. 5 * m
        OBVIOUS
    <2>2. /\ code[5 * j + 1] \in Byte /\ code[5 * j + 2] \in Byte /\ code[5 * j + 3] \in Byte
          /\ code[5 * j + 4] \in Byte /\ code[5 * j + 5] \in Byte
        BY <2>1
    <2>3. v(j, k) \in Nat /\ v(j, k) < 32
        BY <2>2, FivesAreFive DEF FivesOf
    <2>4. \A w \in Nat : w < 32 => w + 1 \in 1 .. 32 /\ (w + 1) - 1 = w
        OBVIOUS
    <2>. HIDE DEF v
    <2>. QED
        BY <2>3, <2>4
<1>. HIDE DEF v, shown
<1>3. chars = [i \in 1 .. 8 * m |-> Written(shown[i], i, style)]
    BY <1>1 DEF Letters, shown
<1>. HIDE DEF chars
<1>4. ASSUME NEW j \in 0 .. m - 1, NEW k \in 1 .. 8
      PROVE  LET x == chars[8 * j + k]
             IN  x \in DOMAIN ValueOf /\ ValueOf[x] = v(j, k) /\ x \notin Separators
    <2>1. 8 * j + k \in 1 .. 8 * m /\ 8 * j + k \in Nat
        OBVIOUS
    <2>2. chars[8 * j + k] = Written(Alphabet[v(j, k) + 1], 8 * j + k, style)
        BY <1>1, <1>3, <2>1
    <2>3. PICK w \in 1 .. 32 : w = v(j, k) + 1 /\ w - 1 = v(j, k)
        BY <1>2
    <2>4. LET x == Written(Alphabet[w], 8 * j + k, style)
          IN  x \in DOMAIN ValueOf /\ ValueOf[x] = w - 1 /\ x \notin Separators
        BY <2>1, WrittenRead
    <2>. QED
        BY <2>2, <2>3, <2>4
<1>5. \A i \in 1 .. 8 * m : \E j \in 0 .. m - 1, k \in 1 .. 8 : i = 8 * j + k
    <2>. SUFFICES ASSUME NEW i \in 1 .. 8 * m
                  PROVE  \E j \in 0 .. m - 1, k \in 1 .. 8 : i = 8 * j + k
        OBVIOUS
    <2>. DEFINE j == (i - 1) \div 8
                k == i - 8 * j
    <2>1. j \in 0 .. m - 1 /\ k \in 1 .. 8 /\ i = 8 * j + k
        OBVIOUS
    <2>. HIDE DEF j, k
    <2>. QED
        BY <2>1
<1>6. \A i \in 1 .. 8 * m : chars[i] \in DOMAIN ValueOf /\ chars[i] \notin Separators
    BY <1>4, <1>5
<1>7. chars \in [1 .. 8 * m -> DOMAIN ValueOf]
    BY <1>3, <1>6
<1>8. chars \in Seq(Marks) /\ Len(chars) = 8 * m
    <2>1. 8 * m \in Nat /\ chars \in [1 .. 8 * m -> Marks]
        BY <1>7, ReadableAreMarks
    <2>. QED
        BY <2>1, IsASeq, LenProperties
<1>9. Solid(chars)
    BY <1>6, <1>8 DEF Solid
<1>10. Spells(chars, code, m)
    <2>. SUFFICES ASSUME NEW j \in 0 .. m - 1, NEW k \in 1 .. 8
                  PROVE  ValueOf[Octet(chars, j)[k]] = v(j, k)
        BY DEF Spells, Reads8, v
    <2>1. Octet(chars, j)[k] = chars[8 * j + k]
        BY DEF Octet
    <2>. QED
        BY <1>4, <2>1
<1>11. \A i \in 1 .. 8 * m : chars[i] = Written(shown[i], i, style)
    BY <1>3
<1>. QED
    BY <1>7, <1>8, <1>9, <1>10, <1>11 DEF chars, shown

(* A code has a whole number of rounds.                                    *)
LEMMA WholeRounds == \E m \in Nat \ {0} : CodeBytes = 5 * m /\ Length = 8 * m
<1>1. CodeBytes \in Nat \ {0} /\ (CodeBytes * 8) % 5 = 0
    BY CodeAssumption
<1>. DEFINE m == CodeBytes \div 5
<1>2. m \in Nat \ {0} /\ CodeBytes = 5 * m
    BY <1>1
<1>. HIDE DEF m
<1>3. (CodeBytes * 8) \div 5 = 8 * m
    BY <1>2
<1>. QED
    BY <1>2, <1>3 DEF Length

(* The first three characters of a sequence.                               *)
LEMMA StartsWith ==
    ASSUME NEW X, NEW t \in Seq(X), Len(t) >= 3, NEW x \in X, NEW y \in X, NEW z \in X
    PROVE  IsPrefix(<<x, y, z>>, t) <=> t[1] = x /\ t[2] = y /\ t[3] = z
<1>. DEFINE s == <<x, y, z>>
            a == SubSeq(s, 1, 3)
            b == SubSeq(t, 1, 3)
<1>1. s \in Seq(X) /\ Len(s) = 3 /\ s[1] = x /\ s[2] = y /\ s[3] = z
    OBVIOUS
<1>2. \A i \in 1 .. 3 : s[i] \in X /\ t[i] \in X
    BY <1>1, LenProperties
<1>3. 3 - 1 + 1 = 3 /\ \A i \in 1 .. 3 : 1 + i - 1 = i
    OBVIOUS
<1>. HIDE DEF s
<1>4. a \in Seq(X) /\ Len(a) = 3 /\ \A i \in 1 .. 3 : a[i] = s[i]
    BY <1>2, <1>3, SubSeqProperties
<1>5. b \in Seq(X) /\ Len(b) = 3 /\ \A i \in 1 .. 3 : b[i] = t[i]
    BY <1>2, <1>3, SubSeqProperties
<1>6. IsPrefix(s, t) <=> a = b
    BY <1>1 DEF IsPrefix
<1>. HIDE DEF a, b
<1>7. a = b <=> \A i \in 1 .. 3 : a[i] = b[i]
    BY <1>4, <1>5, SeqEqual
<1>8. (\A i \in 1 .. 3 : a[i] = b[i]) <=> t[1] = x /\ t[2] = y /\ t[3] = z
    <2>1. \A i \in 1 .. 3 : i = 1 \/ i = 2 \/ i = 3
        OBVIOUS
    <2>. QED
        BY <1>1, <1>4, <1>5, <2>1
<1>. QED
    BY <1>6, <1>7, <1>8 DEF s

(* The prefix, and what looks like it.                                     *)
StartsTio(t) ==
    \/ t[1] = "T" /\ t[2] = "I" /\ t[3] = "O"
    \/ t[1] = "t" /\ t[2] = "i" /\ t[3] = "o"

(* Where the characters of the prefix are in the alphabets.                *)
LEMMA TioMarks ==
    /\ Alphabet[1] = "0" /\ Alphabet[2] = "1" /\ Alphabet[27] = "T"
    /\ Lower("T") = "t" /\ Lower("I") = "i" /\ Lower("O") = "o"
    /\ Lower("0") = "0" /\ Lower("1") = "1"
    /\ {"T", "I", "O", "t", "i", "o"} \subseteq Marks \ Separators
<1>1. /\ Capitals[17] = "T" /\ Capitals[23] = "I" /\ Capitals[25] = "O"
      /\ Smalls[17] = "t" /\ Smalls[23] = "i" /\ Smalls[25] = "o"
      /\ \A j \in 1 .. 26 : Capitals[j] # "0" /\ Capitals[j] # "1"
    BY DEF Capitals, Smalls
<1>2. Alphabet[1] = "0" /\ Alphabet[2] = "1" /\ Alphabet[27] = "T"
    BY DEF Alphabet
<1>3. \A k \in 1 .. 26 : Lower(Capitals[k]) = Smalls[k]
    <2>. SUFFICES ASSUME NEW k \in 1 .. 26
                  PROVE  Lower(Capitals[k]) = Smalls[k]
        OBVIOUS
    <2>1. (CHOOSE j \in DOMAIN Capitals : Capitals[j] = Capitals[k]) = k
        BY Distinct
    <2>. QED
        BY <2>1, Distinct DEF Lower
<1>4. Lower("T") = "t" /\ Lower("I") = "i" /\ Lower("O") = "o"
    BY <1>1, <1>3
<1>5. Lower("0") = "0" /\ Lower("1") = "1"
    BY <1>1, Distinct DEF Lower
<1>6. {"T", "I", "O", "t", "i", "o"} \subseteq Characters
    <2>1. \A j \in 1 .. 26 : Capitals[j] \in Characters /\ Smalls[j] \in Characters
        BY InRange DEF Characters
    <2>. QED
        BY <1>1, <2>1
<1>7. {"T", "I", "O", "t", "i", "o"} \cap Separators = {}
    BY DEF Separators
<1>. QED
    BY <1>2, <1>4, <1>5, <1>6, <1>7 DEF Marks

(* What Strip does with three characters and more.                         *)
LEMMA StripOf ==
    ASSUME NEW t \in Seq(Marks), Len(t) >= 3
    PROVE  /\ StartsTio(t) => Strip(t) = SubSeq(t, 4, Len(t)) /\ Len(Strip(t)) = Len(t) - 3
           /\ ~StartsTio(t) => Strip(t) = t
<1>1. /\ IsPrefix(<<"T", "I", "O">>, t) <=> t[1] = "T" /\ t[2] = "I" /\ t[3] = "O"
      /\ IsPrefix(<<"t", "i", "o">>, t) <=> t[1] = "t" /\ t[2] = "i" /\ t[3] = "o"
    BY TioMarks, StartsWith
<1>2. (IsPrefix(<<"T", "I", "O">>, t) \/ IsPrefix(<<"t", "i", "o">>, t)) <=> StartsTio(t)
    BY <1>1 DEF StartsTio
<1>3. Len(SubSeq(t, 4, Len(t))) = Len(t) - 3
    <2>. DEFINE n == Len(t)
                l == Len(SubSeq(t, 4, n))
    <2>1. n \in Nat /\ n >= 3 /\ \A i \in 4 .. n : t[i] \in Marks
        BY LenProperties
    <2>. HIDE DEF n
    <2>2. l = IF 4 <= n THEN n - 4 + 1 ELSE 0
        BY <2>1, SubSeqProperties
    <2>. HIDE DEF l
    <2>3. l = n - 3
        BY <2>1, <2>2
    <2>. QED
        BY <2>3 DEF l, n
<1>. QED
    BY <1>2, <1>3 DEF Strip

(* Strip takes the prefix away, and no more.                               *)
LEMMA StripPrefix ==
    ASSUME NEW t \in Seq(Marks), NEW u \in {<<"T", "I", "O">>, <<"t", "i", "o">>}
    PROVE  Strip(u \o t) = t
<1>. DEFINE s == u \o t
            r == SubSeq(s, 4, Len(s))
<1>1. u \in Seq(Marks) /\ Len(u) = 3 /\ StartsTio(u)
    <2>1. CASE u = <<"T", "I", "O">>
        <3>1. "T" \in Marks /\ "I" \in Marks /\ "O" \in Marks
            BY TioMarks
        <3>. QED
            BY <2>1, <3>1 DEF StartsTio
    <2>2. CASE u = <<"t", "i", "o">>
        <3>1. "t" \in Marks /\ "i" \in Marks /\ "o" \in Marks
            BY TioMarks
        <3>. QED
            BY <2>2, <3>1 DEF StartsTio
    <2>. QED
        BY <2>1, <2>2
<1>2. Joins(s, u, t, Marks)
    BY <1>1, JoinedOf
<1>3. Len(t) \in Nat
    BY LenProperties
<1>. HIDE DEF s
<1>4. /\ s \in Seq(Marks) /\ Len(s) = 3 + Len(t)
      /\ s[1] = u[1] /\ s[2] = u[2] /\ s[3] = u[3]
      /\ \A j \in 1 .. Len(t) : s[3 + j] = t[j]
    BY <1>1, <1>2 DEF Joins
<1>5. StartsTio(s)
    BY <1>1, <1>4 DEF StartsTio
<1>6. Len(s) >= 3 /\ Len(s) \in Nat
    BY <1>3, <1>4
<1>7. Strip(s) = r
    BY <1>4, <1>5, <1>6, StripOf
<1>8. \A i \in 4 .. Len(s) : s[i] \in Marks
    BY <1>4, <1>6, LenProperties
<1>9. r \in Seq(Marks) /\ \A i \in 1 .. Len(s) - 4 + 1 : r[i] = s[4 + i - 1]
    BY <1>6, <1>8, SubSeqProperties
<1>10. Len(r) = Len(t)
    <2>1. Len(r) = IF 4 <= Len(s) THEN Len(s) - 4 + 1 ELSE 0
        BY <1>6, <1>8, SubSeqProperties
    <2>. HIDE DEF r
    <2>. QED
        BY <1>3, <1>4, <2>1
<1>. HIDE DEF r
<1>11. ASSUME NEW i \in 1 .. Len(t)
       PROVE  r[i] = t[i]
    <2>1. i \in 1 .. Len(s) - 4 + 1 /\ 4 + i - 1 = 3 + i
        BY <1>3, <1>4
    <2>. QED
        BY <1>4, <1>9, <2>1
<1>12. r = t
    BY <1>9, <1>10, <1>11, SeqEqual
<1>. QED
    BY <1>7, <1>12 DEF s

(* Which code, written down how, starts with what looks like the prefix.   *)
LEMMA TioWritten ==
    ASSUME NEW c \in Range(Alphabet), NEW style \in Style
    PROVE  /\ Written(c, 1, style) \in {"T", "t"} => c = "T"
           /\ Written(c, 2, style) \in {"I", "i"} => c = "1" /\ style.alike
           /\ Written(c, 3, style) \in {"O", "o"} => c = "0"
<1>1. PICK k \in 1 .. 32 : c = Alphabet[k]
    BY Distinct DEF Range
<1>2. \A i \in Nat : ValueOf[Written(c, i, style)] = k - 1
    BY <1>1, WrittenRead
<1>3. ValueOf["T"] = 26 /\ ValueOf["t"] = 26
    BY TioMarks, CharacterRead
<1>4. ValueOf["I"] = 1 /\ ValueOf["i"] = 1
    <2>1. Alike("1", 2) = "I"
        BY DEF Alike
    <2>. QED
        BY <2>1, TioMarks, CharacterRead
<1>5. ValueOf["O"] = 0 /\ ValueOf["o"] = 0
    <2>1. Alike("0", 2) = "O"
        BY DEF Alike
    <2>. QED
        BY <2>1, TioMarks, CharacterRead
<1>6. ASSUME Written(c, 1, style) \in {"T", "t"}
      PROVE  c = "T"
    <2>1. k - 1 = 26
        BY <1>2, <1>3, <1>6
    <2>2. k = 27
        BY <2>1
    <2>. QED
        BY <1>1, <2>2, TioMarks
<1>7. ASSUME Written(c, 2, style) \in {"I", "i"}
      PROVE  c = "1" /\ style.alike
    <2>1. k - 1 = 1
        BY <1>2, <1>4, <1>7
    <2>2. k = 2
        BY <2>1
    <2>3. c = "1"
        BY <1>1, <2>2, TioMarks
    <2>4. ~style.alike => Written(c, 2, style) = "1"
        BY <2>3, TioMarks DEF Written
    <2>. QED
        BY <1>7, <2>3, <2>4
<1>8. ASSUME Written(c, 3, style) \in {"O", "o"}
      PROVE  c = "0"
    <2>1. k - 1 = 0
        BY <1>2, <1>5, <1>8
    <2>2. k = 1
        BY <2>1
    <2>. QED
        BY <1>1, <2>2, TioMarks
<1>. QED
    BY <1>6, <1>7, <1>8

(* Which codes have characters that look like the prefix.                  *)
LEMMA LettersLikePrefix ==
    ASSUME NEW m \in Nat \ {0}, NEW code \in [1 .. 5 * m -> Byte], NEW style \in Style
    PROVE  StartsTio(Letters(code, style))
               <=> style.alike /\ IsPrefix(<<"T", "1", "0">>, Encoded(code))
<1>. DEFINE shown == Encoded(code)
            chars == Letters(code, style)
<1>1. shown \in Seq(Range(Alphabet)) /\ Len(shown) = 8 * m
    BY EncodedRounds
<1>2. 1 \in 1 .. 8 * m /\ 2 \in 1 .. 8 * m /\ 3 \in 1 .. 8 * m /\ 8 * m >= 3
    OBVIOUS
<1>3. /\ chars[1] = Written(shown[1], 1, style)
      /\ chars[2] = Written(shown[2], 2, style)
      /\ chars[3] = Written(shown[3], 3, style)
    BY <1>2, LettersRead
<1>. HIDE DEF shown, chars
<1>4. shown[1] \in Range(Alphabet) /\ shown[2] \in Range(Alphabet) /\ shown[3] \in Range(Alphabet)
    BY <1>1, <1>2, LenProperties
<1>5. IsPrefix(<<"T", "1", "0">>, shown) <=> shown[1] = "T" /\ shown[2] = "1" /\ shown[3] = "0"
    <2>1. "T" \in Range(Alphabet) /\ "1" \in Range(Alphabet) /\ "0" \in Range(Alphabet)
        <3>1. Alphabet[1] \in Range(Alphabet) /\ Alphabet[2] \in Range(Alphabet)
              /\ Alphabet[27] \in Range(Alphabet)
            BY InRange
        <3>. QED
            BY <3>1, TioMarks
    <2>. QED
        BY <1>1, <1>2, <2>1, StartsWith
<1>6. StartsTio(chars) => style.alike /\ shown[1] = "T" /\ shown[2] = "1" /\ shown[3] = "0"
    BY <1>3, <1>4, TioWritten DEF StartsTio
<1>7. ASSUME style.alike, shown[1] = "T", shown[2] = "1", shown[3] = "0"
      PROVE  StartsTio(chars)
    <2>1. Alike("T", 1) = "T" /\ Alike("1", 2) = "I" /\ Alike("0", 3) = "O"
        BY DEF Alike
    <2>2. CASE style.lower
        BY <1>3, <1>7, <2>1, <2>2, TioMarks DEF Written, StartsTio
    <2>3. CASE ~style.lower
        BY <1>3, <1>7, <2>1, <2>3 DEF Written, StartsTio
    <2>. QED
        BY <2>2, <2>3
<1>. QED
    BY <1>5, <1>6, <1>7 DEF shown, chars

(* The prefix and the separator of a way of writing.                       *)
LEMMA StyleParts ==
    ASSUME NEW style \in Style
    PROVE  /\ style.prefix \in Seq(Marks) /\ Solid(style.prefix)
           /\ \/ style.prefix = <<>>
              \/ style.prefix \in {<<"T", "I", "O">>, <<"t", "i", "o">>}
              \/ style.prefix = <<"T", "i", "o">>
           /\ style.gap = <<>> \/ \E g \in Separators : g \in Marks /\ style.gap = <<g>>
<1>1. /\ style.prefix \in {<<>>, <<"T", "I", "O">>, <<"t", "i", "o">>, <<"T", "i", "o">>}
      /\ style.gap \in {<<>>, <<"-">>, <<" ">>}
    BY DEF Style
<1>. DEFINE Good == Marks \ Separators
<1>2. "T" \in Good /\ "I" \in Good /\ "O" \in Good /\ "t" \in Good /\ "i" \in Good /\ "o" \in Good
    BY TioMarks
<1>. HIDE DEF Good
<1>3. \A x, y, z \in Good : <<x, y, z>> \in Seq(Good)
    OBVIOUS
<1>4. style.prefix \in Seq(Good)
    <2>1. <<>> \in Seq(Good)
        OBVIOUS
    <2>. QED
        BY <1>1, <1>2, <1>3, <2>1
<1>5. \A s \in Seq(Good) : s \in Seq(Marks) /\ Solid(s)
    BY DEF Good, Solid
<1>6. \A g \in {"-", " "} : g \in Separators /\ g \in Marks
    BY DEF Separators, Marks
<1>7. style.gap = <<>> \/ \E g \in Separators : g \in Marks /\ style.gap = <<g>>
    BY <1>1, <1>6
<1>. QED
    BY <1>1, <1>4, <1>5, <1>7

(* What is written down is a text, not a blank one, and loses nothing but  *)
(* the separators.                                                         *)
LEMMA SpelledText ==
    ASSUME NEW m \in Nat \ {0}, NEW code \in [1 .. 5 * m -> Byte], NEW style \in Style
    PROVE  LET text == Spelled(code, style)
           IN  /\ text \in Seq(Marks) /\ ~Blank(text)
               /\ Cleaned(text) = style.prefix \o Letters(code, style)
<1>. DEFINE P == style.prefix
            chars == Letters(code, style)
            text == Spelled(code, style)
<1>1. P \in Seq(Marks) /\ Solid(P) /\ Len(P) \in Nat
    BY StyleParts, LenProperties
<1>2. chars \in Seq(Marks) /\ Len(chars) = 8 * m /\ Solid(chars)
    BY LettersRead
<1>. HIDE DEF P, chars
<1>3. 1 \in 1 .. 8 * m /\ chars[1] # " "
    <2>1. 1 \in 1 .. 8 * m /\ " " \in Separators
        BY DEF Separators
    <2>. QED
        BY <1>2, <2>1 DEF Solid
<1>4. ASSUME NEW t \in Seq(Marks), NEW i \in 1 .. Len(t), t[i] = chars[1]
      PROVE  ~Blank(t)
    <2>1. i \in DOMAIN t
        BY LenProperties
    <2>. QED
        BY <1>3, <1>4, <2>1 DEF Blank
<1>5. CASE style.gap = <<>>
    <2>1. text = P \o chars
        BY <1>5 DEF Spelled, P, chars
    <2>. HIDE DEF text
    <2>2. Joins(text, P, chars, Marks)
        BY <1>1, <1>2, <2>1, JoinedOf
    <2>3. Solid(text)
        <3>. DEFINE k == Len(P)
        <3>1. /\ \A i \in 1 .. k : text[i] \notin Separators
              /\ \A j \in 1 .. 8 * m : text[k + j] \notin Separators
              /\ Len(text) = k + 8 * m /\ k \in Nat
            BY <1>1, <1>2, <2>2 DEF Joins, Solid
        <3>. HIDE DEF k
        <3>2. ASSUME NEW i \in 1 .. k + 8 * m
              PROVE  text[i] \notin Separators
            <4>1. CASE i <= k
                BY <3>1, <4>1
            <4>2. CASE ~(i <= k)
                <5>1. i - k \in 1 .. 8 * m /\ i = k + (i - k)
                    BY <3>1, <4>2
                <5>. QED
                    BY <3>1, <5>1
            <4>. QED
                BY <4>1, <4>2
        <3>. QED
            BY <3>1, <3>2 DEF Solid
    <2>4. text \in Seq(Marks)
        BY <2>2 DEF Joins
    <2>5. Cleaned(text) = text
        BY <2>3, <2>4, CleanedPlain
    <2>6. Len(P) + 1 \in 1 .. Len(text) /\ text[Len(P) + 1] = chars[1]
        <3>1. Len(text) = Len(P) + 8 * m /\ text[Len(P) + 1] = chars[1]
            BY <1>2, <1>3, <2>2 DEF Joins
        <3>. QED
            BY <1>1, <3>1
    <2>7. ~Blank(text)
        BY <1>4, <2>4, <2>6
    <2>. QED
        BY <2>1, <2>4, <2>5, <2>7 DEF text, P, chars
<1>6. CASE style.gap # <<>>
    <2>1. PICK g \in Separators : g \in Marks /\ style.gap = <<g>>
        BY <1>6, StyleParts
    <2>2. Head(<<g>>) = g
        OBVIOUS
    <2>3. text = P \o <<g>> \o Grouped(chars, g)
        BY <1>6, <2>1, <2>2 DEF Spelled, P, chars
    <2>. HIDE DEF text
    <2>4. Cleaned(text) = P \o chars
        <3>1. g \in Marks /\ g \in Separators
            BY <2>1
        <3>2. Cleaned(P \o <<g>> \o Grouped(chars, g)) = P \o chars
            BY <1>1, <1>2, <3>1, CleanedGroups
        <3>. QED
            BY <2>3, <3>2
    <2>. DEFINE l == 10 * m - 1
    <2>5. l \in Nat /\ 1 \in 1 .. l
        OBVIOUS
    <2>6. Groups(Grouped(chars, g), chars, g, l, Marks)
        BY <1>2, <2>1, GroupedAre
    <2>. HIDE DEF l
    <2>7. Laid(text, P, chars, g, l, Marks)
        BY <1>1, <2>1, <2>3, <2>5, <2>6, LaidOut
    <2>8. text \in Seq(Marks) /\ Len(text) = Len(P) + 1 + l
          /\ text[Len(P) + 1 + 1] = chars[1]
        <3>1. 1 % 5 # 0 /\ 1 - (1 \div 5) = 1
            OBVIOUS
        <3>2. text[Len(P) + 1 + 1] = IF 1 % 5 = 0 THEN g ELSE chars[1 - (1 \div 5)]
            BY <2>5, <2>7 DEF Laid
        <3>. QED
            BY <2>7, <3>1, <3>2 DEF Laid
    <2>9. Len(P) + 1 + 1 \in 1 .. Len(text)
        BY <1>1, <2>5, <2>8
    <2>10. ~Blank(text)
        BY <1>4, <2>8, <2>9
    <2>. QED
        BY <2>4, <2>8, <2>10 DEF text, P, chars
<1>. QED
    BY <1>5, <1>6

(* The characters of a code are read as that code, ...                     *)
LEMMA LettersParsed ==
    ASSUME NEW code \in Codes, NEW style \in Style, NEW text,
           Strip(Cleaned(text)) = Letters(code, style)
    PROVE  Parse(text) = code
<1>1. PICK m \in Nat \ {0} : CodeBytes = 5 * m /\ Length = 8 * m
    BY WholeRounds
<1>. DEFINE chars == Letters(code, style)
<1>2. code \in [1 .. 5 * m -> Byte] /\ m \in Nat
    BY <1>1 DEF Codes
<1>3. /\ chars \in [1 .. 8 * m -> DOMAIN ValueOf] /\ Len(chars) = 8 * m
      /\ Spells(chars, code, m)
    BY <1>2, LettersRead
<1>. HIDE DEF chars
<1>4. Decoding(chars)[8 * m].out = code
    BY <1>2, <1>3, DecodedRounds
<1>5. Range(chars) \subseteq DOMAIN ValueOf
    BY <1>3 DEF Range
<1>6. Readable(chars)
    BY <1>1, <1>3, <1>5 DEF Readable
<1>7. Strip(Cleaned(text)) = chars
    BY DEF chars
<1>. QED
    BY <1>1, <1>4, <1>6, <1>7 DEF Parse

(* ... and what has another length is read as none.                        *)
LEMMA LengthMatters ==
    ASSUME NEW text, Len(Strip(Cleaned(text))) # Length
    PROVE  Parse(text) = Malformed
BY DEF Parse, Readable

(* A code that is written down is read as that code, or, in the two ways of *)
(* Confusing, as none.                                                     *)
THEOREM SpelledIsRead ==
    ASSUME NEW code \in Codes, NEW style \in Style
    PROVE  Parse(Spelled(code, style)) = IF Confusing(Meaning(code, style)) THEN Malformed ELSE code
<1>1. PICK m \in Nat \ {0} : CodeBytes = 5 * m /\ Length = 8 * m
    BY WholeRounds
<1>. DEFINE P == style.prefix
            chars == Letters(code, style)
            text == Spelled(code, style)
            like == P = <<>> /\ style.alike /\ IsPrefix(<<"T", "1", "0">>, Encoded(code))
<1>2. code \in [1 .. 5 * m -> Byte]
    BY <1>1 DEF Codes
<1>3. Cleaned(text) = P \o chars
    BY <1>2, SpelledText
<1>4. chars \in Seq(Marks) /\ Len(chars) = 8 * m
    BY <1>2, LettersRead
<1>5. 8 * m \in Nat /\ 8 * m >= 3 /\ 8 * m - 3 # 8 * m /\ 8 * m + 3 # 8 * m /\ 8 * m + 3 >= 3
      /\ 3 + 8 * m = 8 * m + 3
    OBVIOUS
<1>6. Confusing(Meaning(code, style)) <=> P = <<"T", "i", "o">> \/ like
    BY DEF Confusing, Meaning
<1>7. StartsTio(chars) <=> style.alike /\ IsPrefix(<<"T", "1", "0">>, Encoded(code))
    BY <1>2, LettersLikePrefix
<1>8. P \in Seq(Marks) /\ (P = <<>> \/ P \in {<<"T", "I", "O">>, <<"t", "i", "o">>} \/ P = <<"T", "i", "o">>)
    BY StyleParts
<1>9. <<>> # <<"T", "i", "o">> /\ <<"T", "I", "O">> # <<"T", "i", "o">> /\ <<"t", "i", "o">> # <<"T", "i", "o">>
      /\ <<>> # <<"T", "I", "O">> /\ <<>> # <<"t", "i", "o">>
    OBVIOUS
<1>. HIDE DEF P, text, chars
<1>10. CASE P \in {<<"T", "I", "O">>, <<"t", "i", "o">>}
    <2>1. Strip(Cleaned(text)) = chars
        BY <1>3, <1>4, <1>10, StripPrefix
    <2>2. Parse(text) = code
        BY <2>1, LettersParsed DEF chars
    <2>3. ~Confusing(Meaning(code, style))
        BY <1>6, <1>9, <1>10
    <2>. QED
        BY <2>2, <2>3 DEF text
<1>11. CASE P = <<"T", "i", "o">>
    <2>. DEFINE s == P \o chars
    <2>1. Len(P) = 3 /\ P[1] = "T" /\ P[2] = "i" /\ P[3] = "o"
        BY <1>11
    <2>2. Joins(s, P, chars, Marks)
        BY <1>4, <1>8, JoinedOf
    <2>. HIDE DEF s
    <2>3. /\ s \in Seq(Marks) /\ Len(s) = 8 * m + 3
          /\ s[1] = "T" /\ s[2] = "i"
        BY <1>4, <1>5, <2>1, <2>2 DEF Joins
    <2>4. ~StartsTio(s)
        BY <2>3 DEF StartsTio
    <2>5. Len(s) >= 3
        BY <1>5, <2>3
    <2>6. Strip(s) = s
        BY <2>3, <2>4, <2>5, StripOf
    <2>7. Len(Strip(Cleaned(text))) # Length
        BY <1>1, <1>3, <1>5, <2>3, <2>6 DEF s
    <2>8. Parse(text) = Malformed
        BY <2>7, LengthMatters
    <2>. QED
        BY <1>6, <1>11, <2>8 DEF text
<1>12. CASE P = <<>>
    <2>1. P \o chars = chars
        BY <1>4, <1>12, ConcatEmptySeq
    <2>2. Len(chars) >= 3
        BY <1>4, <1>5
    <2>3. CASE StartsTio(chars)
        <3>1. Len(Strip(chars)) = Len(chars) - 3
            BY <1>4, <2>2, <2>3, StripOf
        <3>2. Len(Strip(Cleaned(text))) # Length
            BY <1>1, <1>3, <1>4, <1>5, <2>1, <3>1
        <3>3. Parse(text) = Malformed
            BY <3>2, LengthMatters
        <3>. QED
            BY <1>6, <1>7, <1>12, <2>3, <3>3 DEF text
    <2>4. CASE ~StartsTio(chars)
        <3>1. Strip(Cleaned(text)) = chars
            BY <1>3, <1>4, <2>1, <2>2, <2>4, StripOf
        <3>2. Parse(text) = code
            BY <3>1, LettersParsed DEF chars
        <3>. QED
            BY <1>6, <1>7, <1>9, <1>12, <2>4, <3>2 DEF text
    <2>. QED
        BY <2>3, <2>4
<1>. QED
    BY <1>8, <1>10, <1>11, <1>12

(* What the screen shows of a code is one way of writing it down, and is   *)
(* read as that code.                                                      *)
LEMMA ShownIsSpelled ==
    ASSUME NEW code \in Codes
    PROVE  Display(code) = Spelled(code, AsShown)
<1>1. PICK m \in Nat \ {0} : CodeBytes = 5 * m /\ Length = 8 * m
    BY WholeRounds
<1>. DEFINE shown == Encoded(code)
<1>2. code \in [1 .. 5 * m -> Byte]
    BY <1>1 DEF Codes
<1>3. Len(shown) = 8 * m /\ shown \in [1 .. 8 * m -> Range(Alphabet)]
    BY <1>2, EncodedRounds
<1>. HIDE DEF shown
<1>4. \A c, i : Written(c, i, AsShown) = c
    BY DEF Written, AsShown
<1>5. Letters(code, AsShown) = [i \in 1 .. 8 * m |-> shown[i]]
    BY <1>3, <1>4 DEF Letters, shown
<1>6. Letters(code, AsShown) = shown
    BY <1>3, <1>5
<1>7. AsShown.gap = <<"-">> /\ AsShown.gap # <<>> /\ Head(AsShown.gap) = "-"
      /\ AsShown.prefix = <<"T", "I", "O">>
    BY DEF AsShown
<1>8. <<"T", "I", "O">> \o <<"-">> = <<"T", "I", "O", "-">>
    <2>. DEFINE X == {"T", "I", "O", "-"}
                s == <<"T", "I", "O">>
                t == <<"-">>
                u == <<"T", "I", "O", "-">>
    <2>1. s \in Seq(X) /\ t \in Seq(X) /\ u \in Seq(X) /\ Len(s) = 3 /\ Len(t) = 1 /\ Len(u) = 4
          /\ s[1] = "T" /\ s[2] = "I" /\ s[3] = "O" /\ t[1] = "-"
          /\ u[1] = "T" /\ u[2] = "I" /\ u[3] = "O" /\ u[4] = "-"
        OBVIOUS
    <2>. HIDE DEF X, s, t, u
    <2>2. Joins(s \o t, s, t, X)
        BY <2>1, JoinedOf
    <2>. DEFINE v == s \o t
    <2>. HIDE DEF v
    <2>3. /\ v \in Seq(X) /\ Len(v) = 4
          /\ v[1] = "T" /\ v[2] = "I" /\ v[3] = "O" /\ v[3 + 1] = "-"
        BY <2>1, <2>2 DEF Joins, v
    <2>4. \A i \in 1 .. 4 : v[i] = u[i]
        BY <2>1, <2>3
    <2>5. v = u
        BY <2>1, <2>3, <2>4
    <2>. QED
        BY <2>5 DEF s, t, u, v
<1>9. Spelled(code, AsShown) = AsShown.prefix \o AsShown.gap \o Grouped(shown, Head(AsShown.gap))
    BY <1>6, <1>7 DEF Spelled
<1>10. Display(code) = <<"T", "I", "O", "-">> \o Grouped(shown, "-")
    BY DEF Display, shown
<1>. QED
    BY <1>7, <1>8, <1>9, <1>10

(* What the screen shows is written in none of the two.                    *)
LEMMA AsShownIsPlain ==
    ASSUME NEW code
    PROVE  AsShown \in Style /\ ~Confusing(Meaning(code, AsShown))
<1>1. AsShown \in Style
    BY DEF AsShown, Style
<1>2. AsShown.prefix = <<"T", "I", "O">> /\ <<"T", "I", "O">> # <<"T", "i", "o">>
      /\ <<"T", "I", "O">> # <<>>
    BY DEF AsShown
<1>3. Meaning(code, AsShown).style = AsShown
    BY DEF Meaning
<1>. QED
    BY <1>1, <1>2, <1>3 DEF Confusing

(* parse reads what display shows as the code it shows, for every code.    *)
THEOREM ShownIsRead == \A code \in Codes : Parse(Display(code)) = code
<1>. SUFFICES ASSUME NEW code \in Codes PROVE Parse(Display(code)) = code
    OBVIOUS
<1>1. ~Confusing(Meaning(code, AsShown)) /\ AsShown \in Style
    BY AsShownIsPlain
<1>2. Parse(Spelled(code, AsShown)) = code
    BY <1>1, SpelledIsRead
<1>. QED
    BY <1>2, ShownIsSpelled

(* What is written down is a text.                                         *)
LEMMA SpelledIsText ==
    ASSUME NEW code \in Codes, NEW style \in Style
    PROVE  Spelled(code, style) \in Texts /\ ~Blank(Spelled(code, style))
<1>1. PICK m \in Nat \ {0} : CodeBytes = 5 * m /\ Length = 8 * m
    BY WholeRounds
<1>2. code \in [1 .. 5 * m -> Byte]
    BY <1>1 DEF Codes
<1>. QED
    BY <1>2, SpelledText DEF Texts, Marks

(* A text that is no blank one, and that parse reads as it is meant.       *)
Stands(text, meaning) ==
    /\ text \in Texts /\ ~Blank(text)
    /\ Parse(text) = IF meaning.code = Nothing \/ Confusing(meaning) THEN Malformed
                     ELSE meaning.code

FieldInv ==
    \A p \in People :
        IF Blank(field[p]) THEN meant[p] = Meaning(own[p], AsShown)
        ELSE Stands(field[p], meant[p])

ToldInv == \A p \in People : told[p] # Nothing => Stands(told[p].text, told[p].meant)

(* Who found whose proof good is settled by the rooms, which no longer     *)
(* change.                                                                 *)
MetInv ==
    \A p, q \in People :
        /\ {p, q} \in tried => /\ screen[p] = "chat" /\ screen[q] = "chat"
                               /\ (<<p, q>> \in met) <=> (room[p] = room[q])
        /\ <<p, q>> \in met => {p, q} \in tried

IInv == TypeOK /\ FieldInv /\ ToldInv /\ ReadAsMeant /\ ToldTheTruth /\ MetInv

(* What the screen shows stands for its code, ...                          *)
LEMMA StandsShown ==
    ASSUME NEW code \in Codes
    PROVE  Display(code) \in Texts /\ Stands(Display(code), Meaning(code, AsShown))
<1>1. AsShown \in Style /\ ~Confusing(Meaning(code, AsShown))
    BY AsShownIsPlain
<1>2. Display(code) \in Texts /\ ~Blank(Display(code))
    BY <1>1, ShownIsSpelled, SpelledIsText
<1>3. Meaning(code, AsShown).code = code /\ code # Nothing
    BY NothingAssumption DEF Meaning
<1>. QED
    BY <1>1, <1>2, <1>3, ShownIsRead DEF Stands

(* ... and so does what is written down.                                   *)
LEMMA StandsSpelled ==
    ASSUME NEW code \in Codes, NEW style \in Style
    PROVE  Spelled(code, style) \in Texts /\ Stands(Spelled(code, style), Meaning(code, style))
<1>1. Meaning(code, style).code = code /\ code # Nothing
    BY NothingAssumption DEF Meaning
<1>. QED
    BY <1>1, SpelledIsText, SpelledIsRead DEF Stands

(* The type of a meaning.                                                  *)
LEMMA MeaningType ==
    ASSUME NEW code \in Codes \cup {Nothing}, NEW style \in Style
    PROVE  Meaning(code, style) \in Meanings
BY DEF Meaning, Meanings

(* What is shown is what it stands for, and what is said of the copy holds. *)
LEMMA ShowKeeps ==
    ASSUME TypeOK, ToldInv, ToldTheTruth, NEW p \in People, NEW text \in Texts,
           NEW meaning \in Meanings, Stands(text, meaning), Show(p, text, meaning), tools' = tools
    PROVE  /\ told' \in [People -> [text : Texts, via : Outcomes, meant : Meanings] \cup {Nothing}]
           /\ clip' \in [People -> Texts \cup {Nothing}]
           /\ ToldInv' /\ ToldTheTruth'
<1>1. PICK via \in Outcomes :
          /\ Copied(p, text, via)
          /\ told' = [told EXCEPT ![p] = [text |-> text, via |-> via, meant |-> meaning]]
    BY DEF Show
<1>2. /\ told \in [People -> [text : Texts, via : Outcomes, meant : Meanings] \cup {Nothing}]
      /\ clip \in [People -> Texts \cup {Nothing}]
    BY DEF TypeOK
<1>3. /\ told'[p] = [text |-> text, via |-> via, meant |-> meaning]
      /\ \A q \in People \ {p} : told'[q] = told[q]
      /\ told' \in [People -> [text : Texts, via : Outcomes, meant : Meanings] \cup {Nothing}]
    BY <1>1, <1>2
<1>4. /\ clip' \in [People -> Texts \cup {Nothing}]
      /\ \A q \in People \ {p} : clip'[q] = clip[q]
      /\ via \in Range(TOOLS) => clip'[p] = text
      /\ via = "NoTool" <=> \A t \in DOMAIN TOOLS : Missing(t)
    <2>1. CASE \E t \in DOMAIN TOOLS :
                   /\ tools[t] = "works"
                   /\ via = TOOLS[t]
                   /\ clip' = [clip EXCEPT ![p] = text]
        <3>1. PICK t \in DOMAIN TOOLS : /\ tools[t] = "works"
                                        /\ via = TOOLS[t]
                                        /\ clip' = [clip EXCEPT ![p] = text]
            BY <2>1
        <3>2. via \in Range(TOOLS) /\ via # "NoTool"
            BY <3>1, ToolsAssumption DEF Range
        <3>3. ~Missing(t)
            BY <3>1 DEF Missing
        <3>. QED
            BY <1>2, <3>1, <3>2, <3>3
    <2>2. CASE via = Reason /\ clip' = clip
        <3>1. via \notin Range(TOOLS)
            BY <2>2, ToolsAssumption DEF Reason
        <3>2. via = "NoTool" <=> \A t \in DOMAIN TOOLS : Missing(t)
            BY <2>2 DEF Reason
        <3>. QED
            BY <1>2, <2>2, <3>1, <3>2
    <2>. QED
        BY <1>1, <2>1, <2>2 DEF Copied
<1>5. ToldInv'
    BY <1>3 DEF ToldInv
<1>6. ToldTheTruth'
    <2>1. \A t : Missing(t)' <=> Missing(t)
        BY DEF Missing
    <2>2. told'[p].text = text /\ told'[p].via = via
        BY <1>3
    <2>3. /\ told'[p].via \in Range(TOOLS) => clip'[p] = told'[p].text
          /\ (told'[p].via = "NoTool") <=> (\A t \in DOMAIN TOOLS : Missing(t)')
        BY <1>4, <2>1, <2>2
    <2>4. ASSUME NEW q \in People \ {p}, told'[q] # Nothing
          PROVE  /\ told'[q].via \in Range(TOOLS) => clip'[q] = told'[q].text
                 /\ (told'[q].via = "NoTool") <=> (\A t \in DOMAIN TOOLS : Missing(t)')
        BY <1>3, <1>4, <2>1, <2>4 DEF ToldTheTruth
    <2>. QED
        BY <2>3, <2>4 DEF ToldTheTruth
<1>. QED
    BY <1>3, <1>4, <1>5, <1>6

(* What is entered is read as it is meant.                                 *)
LEMMA EnterKeeps ==
    ASSUME IInv, NEW p \in People, NEW text \in Texts, NEW meaning \in Meanings,
           IF Blank(text) THEN meaning = Meaning(own[p], AsShown) ELSE Stands(text, meaning),
           Enter(p, text, meaning)
    PROVE  IInv'
<1>. USE DEF Enter
<1>1. /\ field' \in [People -> Texts] /\ field'[p] = text /\ meant'[p] = meaning
      /\ meant' \in [People -> Meanings]
      /\ \A q \in People \ {p} : field'[q] = field[q] /\ meant'[q] = meant[q]
      /\ screen[p] = "setup" /\ edits' \in 0 .. MaxEdits
      /\ UNCHANGED <<own, tools, screen, refused, told, clip, room, met, tried>>
    BY EditsAssumption DEF IInv, TypeOK
<1>2. TypeOK'
    BY <1>1 DEF IInv, TypeOK
<1>3. FieldInv'
    BY <1>1 DEF IInv, FieldInv
<1>4. ToldInv' /\ MetInv'
    BY <1>1 DEF IInv, ToldInv, MetInv
<1>5. ReadAsMeant'
    <2>1. \A q \in People : screen'[q] = "chat" => q # p
        BY <1>1
    <2>. QED
        BY <1>1, <2>1 DEF IInv, ReadAsMeant
<1>6. ToldTheTruth'
    BY <1>1 DEF IInv, ToldTheTruth, Missing
<1>. QED
    BY <1>2, <1>3, <1>4, <1>5, <1>6 DEF IInv

(* A blank text.                                                           *)
LEMMA BlankTexts == \A text \in {<<>>, <<" ">>} : text \in Texts /\ Blank(text)
<1>1. <<>> \in Texts
    BY EmptySeq DEF Texts
<1>2. DOMAIN <<>> = {}
    OBVIOUS
<1>3. " " \in Separators
    BY DEF Separators
<1>4. <<" ">> \in Seq({" "}) 
    OBVIOUS
<1>5. <<" ">> \in Texts
    <2>1. \A x \in Marks : <<x>> \in Seq(Marks)
        OBVIOUS
    <2>. QED
        BY <1>3, <2>1 DEF Texts, Marks
<1>6. Len(<<" ">>) = 1 /\ <<" ">>[1] = " "
    OBVIOUS
<1>7. DOMAIN <<" ">> = {1}
    BY <1>4, <1>6, LenProperties
<1>. QED
    BY <1>1, <1>2, <1>5, <1>6, <1>7 DEF Blank

(* The field first holds what is shown of the code of the launcher.        *)
LEMMA Start == Init => IInv
<1>. SUFFICES ASSUME Init PROVE IInv
    OBVIOUS
<1>. USE DEF Init
<1>1. own \in [People -> Codes]
    BY OwnsAssumption
<1>2. \A p \in People : /\ field[p] = Display(own[p]) /\ meant[p] = Meaning(own[p], AsShown)
                        /\ field[p] \in Texts /\ meant[p] \in Meanings
                        /\ Stands(field[p], meant[p])
    BY <1>1, StandsShown, MeaningType, AsShownIsPlain
<1>3. TypeOK
    <2>1. field \in [People -> Texts] /\ meant \in [People -> Meanings]
        BY <1>2
    <2>2. met \subseteq People \X People /\ \A pair \in tried : \E p, q \in People : p # q /\ pair = {p, q}
        OBVIOUS
    <2>3. edits \in 0 .. MaxEdits
        BY EditsAssumption
    <2>4. /\ screen \in [People -> {"setup", "chat"}]
          /\ refused \in [People -> Meanings \cup {Nothing}]
          /\ told \in [People -> [text : Texts, via : Outcomes, meant : Meanings] \cup {Nothing}]
          /\ clip \in [People -> Texts \cup {Nothing}]
          /\ room \in [People -> Codes \cup {Nothing}]
          /\ \A p \in People : screen[p] = "chat" <=> room[p] # Nothing
        OBVIOUS
    <2>. QED
        BY <1>1, <2>1, <2>2, <2>3, <2>4 DEF TypeOK
<1>4. FieldInv
    BY <1>2 DEF FieldInv, Stands
<1>5. ToldInv /\ ReadAsMeant /\ ToldTheTruth /\ MetInv
    BY DEF ToldInv, ReadAsMeant, ToldTheTruth, MetInv
<1>. QED
    BY <1>3, <1>4, <1>5 DEF IInv

(* What Connect reads in the field of somebody.                            *)
LEMMA TypedIs ==
    ASSUME IInv, NEW p \in People
    PROVE  Typed(p) = IF meant[p].code = Nothing \/ (Confusing(meant[p]) /\ ~Blank(field[p]))
                      THEN Malformed ELSE meant[p].code
<1>1. CASE Blank(field[p])
    <2>1. meant[p].code = own[p] /\ own[p] \in Codes
        BY <1>1 DEF IInv, TypeOK, FieldInv, Meaning
    <2>. QED
        BY <1>1, <2>1, NothingAssumption DEF Typed
<1>2. CASE ~Blank(field[p])
    BY <1>2 DEF IInv, FieldInv, Stands, Typed
<1>. QED
    BY <1>1, <1>2

(* Every step keeps the invariant.                                         *)
LEMMA Steps == IInv /\ [Next]_vars => IInv'
<1>. SUFFICES ASSUME IInv, [Next]_vars PROVE IInv'
    OBVIOUS
<1>1. CASE UNCHANGED vars
    BY <1>1 DEF vars, IInv, TypeOK, FieldInv, ToldInv, ReadAsMeant, ToldTheTruth, MetInv, Missing
<1>2. ASSUME NEW p \in People, EnterBlank(p)
      PROVE  IInv'
    <2>1. PICK text \in {<<>>, <<" ">>} : Enter(p, text, Meaning(own[p], AsShown))
        BY <1>2 DEF EnterBlank
    <2>2. text \in Texts /\ Blank(text)
        BY BlankTexts
    <2>3. Meaning(own[p], AsShown) \in Meanings
        <3>1. own[p] \in Codes \cup {Nothing}
            BY DEF IInv, TypeOK
        <3>. QED
            BY <3>1, MeaningType, AsShownIsPlain
    <2>. QED
        BY <2>1, <2>2, <2>3, EnterKeeps
<1>3. ASSUME NEW p \in People, EnterRubbish(p)
      PROVE  IInv'
    <2>. DEFINE meaning == Meaning(Nothing, AsShown)
    <2>1. PICK text \in Rubbish : Enter(p, text, meaning)
        BY <1>3 DEF EnterRubbish
    <2>2. text \in Texts /\ ~Blank(text) /\ Parse(text) = Malformed
        BY RubbishAssumption
    <2>3. meaning \in Meanings
        BY MeaningType, AsShownIsPlain
    <2>4. meaning.code = Nothing
        BY DEF Meaning
    <2>. HIDE DEF meaning
    <2>5. Stands(text, meaning)
        BY <2>2, <2>4 DEF Stands
    <2>. QED
        BY <2>1, <2>2, <2>3, <2>5, EnterKeeps
<1>4. ASSUME NEW p \in People, TypeCode(p)
      PROVE  IInv'
    <2>1. PICK q \in People \ {p}, style \in Styles :
              /\ told[q] # Nothing
              /\ told[q].meant.code # Nothing
              /\ Enter(p, Spelled(told[q].meant.code, style), Meaning(told[q].meant.code, style))
        BY <1>4 DEF TypeCode
    <2>. DEFINE code == told[q].meant.code
    <2>2. code \in Codes /\ style \in Style
        BY <2>1, StylesAssumption DEF IInv, TypeOK, Meanings
    <2>3. Enter(p, Spelled(code, style), Meaning(code, style))
        BY <2>1
    <2>. HIDE DEF code
    <2>4. /\ Spelled(code, style) \in Texts /\ Stands(Spelled(code, style), Meaning(code, style))
          /\ ~Blank(Spelled(code, style)) /\ Meaning(code, style) \in Meanings
        BY <2>2, StandsSpelled, MeaningType DEF Stands
    <2>. QED
        BY <2>3, <2>4, EnterKeeps
<1>5. ASSUME NEW p \in People, PasteCode(p)
      PROVE  IInv'
    <2>1. PICK q \in People \ {p} :
              /\ told[q] # Nothing
              /\ told[q].via \in Range(TOOLS)
              /\ Enter(p, clip[q], told[q].meant)
        BY <1>5 DEF PasteCode
    <2>2. /\ clip[q] = told[q].text
          /\ told[q].text \in Texts /\ told[q].meant \in Meanings
        BY <2>1 DEF IInv, TypeOK, ToldTheTruth
    <2>3. Stands(told[q].text, told[q].meant)
        BY <2>1 DEF IInv, ToldInv
    <2>4. ~Blank(clip[q]) /\ Stands(clip[q], told[q].meant) /\ clip[q] \in Texts
        BY <2>2, <2>3 DEF Stands
    <2>. QED
        BY <2>1, <2>2, <2>4, EnterKeeps
<1>6. ASSUME NEW p \in People, CopyRoom(p)
      PROVE  IInv'
    <2>. DEFINE text == IF Blank(field[p]) THEN Display(own[p]) ELSE field[p]
    <2>1. text \in Texts /\ meant[p] \in Meanings /\ Stands(text, meant[p])
        BY StandsShown DEF IInv, TypeOK, FieldInv
    <2>2. /\ Show(p, text, meant[p])
          /\ refused' = [refused EXCEPT ![p] = Nothing]
          /\ UNCHANGED <<own, tools, screen, field, meant, room, met, tried, edits>>
        BY <1>6 DEF CopyRoom
    <2>. HIDE DEF text
    <2>3. /\ told' \in [People -> [text : Texts, via : Outcomes, meant : Meanings] \cup {Nothing}]
          /\ clip' \in [People -> Texts \cup {Nothing}]
          /\ ToldInv' /\ ToldTheTruth'
        BY <2>1, <2>2, ShowKeeps DEF IInv
    <2>4. /\ refused' \in [People -> Meanings \cup {Nothing}] /\ refused'[p] = Nothing
          /\ \A q \in People \ {p} : refused'[q] = refused[q]
        BY <2>2 DEF IInv, TypeOK
    <2>5. TypeOK'
        BY <2>2, <2>3, <2>4 DEF IInv, TypeOK
    <2>6. FieldInv' /\ MetInv'
        BY <2>2 DEF IInv, FieldInv, MetInv
    <2>7. ReadAsMeant'
        BY <2>2, <2>4 DEF IInv, ReadAsMeant
    <2>. QED
        BY <2>3, <2>5, <2>6, <2>7 DEF IInv
<1>7. ASSUME NEW p \in People, Connect(p)
      PROVE  IInv'
    <2>1. /\ screen[p] = "setup" /\ Typed(p) # Malformed
          /\ room' = [room EXCEPT ![p] = Typed(p)]
          /\ screen' = [screen EXCEPT ![p] = "chat"]
          /\ refused' = [refused EXCEPT ![p] = Nothing]
          /\ UNCHANGED <<own, tools, field, meant, told, clip, met, tried, edits>>
        BY <1>7 DEF Connect
    <2>2. Typed(p) = meant[p].code /\ meant[p].code # Nothing
        BY <2>1, TypedIs
    <2>3. meant[p].code \in Codes
        BY <2>2 DEF IInv, TypeOK, Meanings
    <2>4. /\ room' \in [People -> Codes \cup {Nothing}] /\ room'[p] = meant[p].code
          /\ screen' \in [People -> {"setup", "chat"}] /\ screen'[p] = "chat"
          /\ refused' \in [People -> Meanings \cup {Nothing}] /\ refused'[p] = Nothing
          /\ \A q \in People \ {p} : /\ room'[q] = room[q] /\ screen'[q] = screen[q]
                                     /\ refused'[q] = refused[q]
        BY <2>1, <2>2, <2>3 DEF IInv, TypeOK
    <2>5. TypeOK'
        BY <2>1, <2>2, <2>4 DEF IInv, TypeOK
    <2>6. FieldInv' /\ ToldInv'
        BY <2>1 DEF IInv, FieldInv, ToldInv
    <2>7. ToldTheTruth'
        BY <2>1 DEF IInv, ToldTheTruth, Missing
    <2>8. ReadAsMeant'
        BY <2>1, <2>4 DEF IInv, ReadAsMeant
    <2>9. MetInv'
        BY <2>1, <2>4 DEF IInv, MetInv
    <2>. QED
        BY <2>5, <2>6, <2>7, <2>8, <2>9 DEF IInv
<1>8. ASSUME NEW p \in People, ConnectRefused(p)
      PROVE  IInv'
    <2>1. /\ Typed(p) = Malformed
          /\ refused' = [refused EXCEPT ![p] = meant[p]]
          /\ UNCHANGED <<own, tools, screen, field, meant, told, clip, room, met, tried, edits>>
        BY <1>8 DEF ConnectRefused
    <2>2. meant[p].code = Nothing \/ Confusing(meant[p])
        <3>1. meant[p].code \in Codes \cup {Nothing}
            BY DEF IInv, TypeOK, Meanings
        <3>. QED
            BY <2>1, <3>1, TypedIs, MalformedAssumption
    <2>3. /\ refused' \in [People -> Meanings \cup {Nothing}] /\ refused'[p] = meant[p]
          /\ \A q \in People \ {p} : refused'[q] = refused[q]
        BY <2>1 DEF IInv, TypeOK
    <2>4. TypeOK'
        BY <2>1, <2>3 DEF IInv, TypeOK
    <2>5. FieldInv' /\ ToldInv' /\ MetInv'
        BY <2>1 DEF IInv, FieldInv, ToldInv, MetInv
    <2>6. ToldTheTruth'
        BY <2>1 DEF IInv, ToldTheTruth, Missing
    <2>7. ReadAsMeant'
        <3>1. ASSUME NEW q \in People
              PROVE  /\ screen'[q] = "chat" => room'[q] = meant'[q].code
                     /\ refused'[q] # Nothing => refused'[q].code = Nothing \/ Confusing(refused'[q])
            <4>1. CASE q = p
                BY <2>1, <2>2, <2>3, <4>1 DEF IInv, ReadAsMeant
            <4>2. CASE q # p
                BY <2>1, <2>3, <4>2 DEF IInv, ReadAsMeant
            <4>. QED
                BY <4>1, <4>2
        <3>. QED
            BY <3>1 DEF ReadAsMeant
    <2>. QED
        BY <2>4, <2>5, <2>6, <2>7 DEF IInv
<1>9. ASSUME NEW p \in People, SlashRoom(p)
      PROVE  IInv'
    <2>1. /\ screen[p] = "chat"
          /\ Show(p, Display(room[p]), Meaning(meant[p].code, AsShown))
          /\ UNCHANGED <<own, tools, screen, field, meant, refused, room, met, tried, edits>>
        BY <1>9 DEF SlashRoom
    <2>. DEFINE code == room[p]
    <2>2. code \in Codes /\ meant[p].code = code
        BY <2>1 DEF IInv, TypeOK, ReadAsMeant
    <2>3. Show(p, Display(code), Meaning(code, AsShown))
        BY <2>1, <2>2
    <2>. HIDE DEF code
    <2>4. /\ Display(code) \in Texts /\ Stands(Display(code), Meaning(code, AsShown))
          /\ Meaning(code, AsShown) \in Meanings
        BY <2>2, StandsShown, MeaningType, AsShownIsPlain
    <2>5. /\ told' \in [People -> [text : Texts, via : Outcomes, meant : Meanings] \cup {Nothing}]
          /\ clip' \in [People -> Texts \cup {Nothing}]
          /\ ToldInv' /\ ToldTheTruth'
        BY <2>1, <2>3, <2>4, ShowKeeps DEF IInv
    <2>6. TypeOK'
        BY <2>1, <2>5 DEF IInv, TypeOK
    <2>7. FieldInv' /\ MetInv' /\ ReadAsMeant'
        BY <2>1 DEF IInv, FieldInv, MetInv, ReadAsMeant
    <2>. QED
        BY <2>5, <2>6, <2>7 DEF IInv
<1>10. ASSUME NEW p \in People, NEW q \in People, p # q, Meet(p, q)
      PROVE  IInv'
    <2>1. /\ screen[p] = "chat" /\ screen[q] = "chat"
          /\ {p, q} \notin tried
          /\ tried' = tried \cup {{p, q}}
          /\ met' = met \cup {e \in {<<p, q>>, <<q, p>>} : Accepts(e[1], e[2])}
          /\ UNCHANGED <<own, tools, screen, field, meant, refused, told, clip, room, edits>>
        BY <1>10 DEF Meet
    <2>2. \A a, b \in People : Accepts(a, b) <=> room[a] = room[b]
        BY DEF Accepts, Verify, Proof
    <2>3. /\ \A a, b \in People : <<a, b>> \in met' <=>
                 \/ <<a, b>> \in met
                 \/ ((a = p /\ b = q) \/ (a = q /\ b = p)) /\ room[a] = room[b]
          /\ met' \subseteq People \X People
        <3>1. met \subseteq People \X People
            BY DEF IInv, TypeOK
        <3>. QED
            BY <2>1, <2>2, <3>1
    <2>4. TypeOK'
        <3>1. \A pair \in tried' : \E a, b \in People : a # b /\ pair = {a, b}
            BY <1>10, <2>1 DEF IInv, TypeOK
        <3>. QED
            BY <2>1, <2>3, <3>1 DEF IInv, TypeOK
    <2>5. FieldInv' /\ ToldInv' /\ ReadAsMeant'
        BY <2>1 DEF IInv, FieldInv, ToldInv, ReadAsMeant
    <2>6. ToldTheTruth'
        BY <2>1 DEF IInv, ToldTheTruth, Missing
    <2>7. MetInv'
        <3>1. ASSUME NEW a \in People, NEW b \in People
              PROVE  /\ {a, b} \in tried' => /\ screen[a] = "chat" /\ screen[b] = "chat"
                                             /\ (<<a, b>> \in met') <=> (room[a] = room[b])
                     /\ <<a, b>> \in met' => {a, b} \in tried'
            <4>1. /\ {a, b} \in tried => /\ screen[a] = "chat" /\ screen[b] = "chat"
                                         /\ (<<a, b>> \in met) <=> (room[a] = room[b])
                  /\ <<a, b>> \in met => {a, b} \in tried
                BY DEF IInv, MetInv
            <4>2. {a, b} = {p, q} <=> ((a = p /\ b = q) \/ (a = q /\ b = p))
                BY <1>10
            <4>3. {a, b} \in tried' <=> {a, b} \in tried \/ {a, b} = {p, q}
                BY <2>1
            <4>4. CASE {a, b} = {p, q}
                BY <2>1, <2>3, <4>1, <4>2, <4>3, <4>4
            <4>5. CASE {a, b} # {p, q}
                BY <2>3, <4>1, <4>2, <4>3, <4>5
            <4>. QED
                BY <4>4, <4>5
        <3>. QED
            BY <2>1, <3>1 DEF MetInv
    <2>. QED
        BY <2>4, <2>5, <2>6, <2>7 DEF IInv
<1>. QED
    BY <1>1, <1>2, <1>3, <1>4, <1>5, <1>6, <1>7, <1>8, <1>9, <1>10 DEF Next

(* So it always holds.                                                     *)
LEMMA Invariant == Spec => []IInv
<1>. QED
    BY Start, Steps, PTL DEF Spec

(* A code is a code, a text a text, and who chats has a room.              *)
THEOREM TypeCorrect == Spec => []TypeOK
<1>1. IInv => TypeOK
    BY DEF IInv
<1>. QED
    BY <1>1, Invariant, PTL

(* Whoever connects is in the room of the code that the field stands for,  *)
(* whichever way the code came there, and for codes of every length.       *)
THEOREM ReadRight == Spec => []ReadAsMeant
<1>1. IInv => ReadAsMeant
    BY DEF IInv
<1>. QED
    BY <1>1, Invariant, PTL

(* Who connects accepts the other if the two stand for one code, and only  *)
(* then.                                                                   *)
THEOREM InvitedAccept == Spec => []InvitedMeet
<1>1. IInv => InvitedMeet
    BY DEF IInv, MetInv, ReadAsMeant, InvitedMeet
<1>. QED
    BY <1>1, Invariant, PTL

(* What is said of a copy is true of the clipboard and the tools.          *)
THEOREM CopySaidRight == Spec => []ToldTheTruth
<1>1. IInv => ToldTheTruth
    BY DEF IInv
<1>. QED
    BY <1>1, Invariant, PTL
=============================================================================
