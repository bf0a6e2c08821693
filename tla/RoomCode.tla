------------------------------ MODULE RoomCode ------------------------------
(***************************************************************************)
(* Room codes (src/src/room.rs:28-206): how one is shown, how a typed one  *)
(* is read, and how it is proved over a connection.                        *)
(*                                                                         *)
(* A code is a sequence of bytes; a text is a sequence of characters.      *)
(***************************************************************************)
EXTENDS Integers, Sequences, SequencesExt

CONSTANTS
    CodeBytes,  \* CODE_BYTES
    Malformed   \* RoomError::Malformed

Byte  == 0 .. 255
Codes == [1 .. CodeBytes -> Byte]

ASSUME MalformedAssumption == Malformed \notin Codes

ASSUME CodeAssumption == CodeBytes \in Nat \ {0} /\ (CodeBytes * 8) % 5 = 0

Alphabet ==
    <<"0", "1", "2", "3", "4", "5", "6", "7", "8", "9", "A", "B", "C", "D", "E", "F",
      "G", "H", "J", "K", "M", "N", "P", "Q", "R", "S", "T", "V", "W", "X", "Y", "Z">>

Capitals ==
    <<"A", "B", "C", "D", "E", "F", "G", "H", "J", "K", "M", "N", "P", "Q", "R", "S",
      "T", "V", "W", "X", "Y", "Z", "I", "L", "O", "U">>
Smalls ==
    <<"a", "b", "c", "d", "e", "f", "g", "h", "j", "k", "m", "n", "p", "q", "r", "s",
      "t", "v", "w", "x", "y", "z", "i", "l", "o", "u">>

Separators == {"-", " ", "_"}

Length == (CodeBytes * 8) \div 5

-----------------------------------------------------------------------------
(* Mistake: what is left over waits for the next byte, and is forgotten.   *)
EncodeOne(acc, byte) ==
    LET bits  == (acc.bits * 256 + byte) % 2^16
        width == acc.width + 8
    IN  [bits  |-> bits,
         width |-> width - 5,
         out   |-> Append(acc.out, Alphabet[((bits \div 2^(width - 5)) % 32) + 1])]

(* display: eight bits in, five bits out, through a u16.                   *)
Encode(acc, byte) ==
    LET bits  == (acc.bits * 256 + byte) % 2^16
        width == acc.width + 8
    IN  [bits  |-> bits,
         width |-> width % 5,
         out   |-> acc.out \o [i \in 1 .. width \div 5 |->
                                  Alphabet[((bits \div 2^(width - 5 * i)) % 32) + 1]]]

Empty == [bits |-> 0, width |-> 0, out |-> <<>>]

Encoding(code) ==
    LET after[i \in 0 .. Len(code)] == IF i = 0 THEN Empty ELSE Encode(after[i - 1], code[i])
    IN  after

Encoded(code) == Encoding(code)[Len(code)].out

(* Groups of four.                                                         *)
Grouped(chars, separator) ==
    LET gaps == (Len(chars) - 1) \div 4
    IN  [p \in 1 .. Len(chars) + gaps |->
            IF p % 5 = 0 THEN separator ELSE chars[p - (p \div 5)]]

Display(code) == <<"T", "I", "O", "-">> \o Grouped(Encoded(code), "-")

-----------------------------------------------------------------------------
(* parse.                                                                  *)
Keep(chars, c) == IF c \in Separators THEN chars ELSE Append(chars, c)

Cleaning(text) ==
    LET kept[i \in 0 .. Len(text)] == IF i = 0 THEN <<>> ELSE Keep(kept[i - 1], text[i])
    IN  kept

Cleaned(text) == Cleaning(text)[Len(text)]

(* Mistake: the prefix goes by its letters, and however often it is there. *)
StripAll(chars) == SelectSeq(chars, LAMBDA c : c \notin {"T", "I", "O", "t", "i", "o"})

Strip(chars) ==
    IF IsPrefix(<<"T", "I", "O">>, chars) \/ IsPrefix(<<"t", "i", "o">>, chars)
    THEN SubSeq(chars, 4, Len(chars))
    ELSE chars

Upper(c) ==
    IF \E i \in DOMAIN Smalls : Smalls[i] = c
    THEN Capitals[CHOOSE i \in DOMAIN Smalls : Smalls[i] = c]
    ELSE c

Folded(c) ==
    CASE Upper(c) \in {"I", "L"} -> "1"
      [] Upper(c) = "O"          -> "0"
      [] OTHER                   -> Upper(c)

Characters == Range(Alphabet) \cup Range(Capitals) \cup Range(Smalls)

ValueOf ==
    [c \in {d \in Characters : Folded(d) \in Range(Alphabet)} |->
        (CHOOSE i \in DOMAIN Alphabet : Alphabet[i] = Folded(c)) - 1]

Readable(chars) == Len(chars) = Length /\ Range(chars) \subseteq DOMAIN ValueOf

(* Mistake: a byte keeps the bits of those before it.                      *)
DecodeWide(acc, c) ==
    LET bits  == (acc.bits * 32 + ValueOf[c]) % 2^16
        width == acc.width + 5
    IN  IF width < 8
        THEN [bits |-> bits, width |-> width, out |-> acc.out]
        ELSE [bits |-> bits, width |-> width - 8,
              out  |-> Append(acc.out, bits \div 2^(width - 8))]

(* Five bits in, eight bits out.                                           *)
Decode(acc, c) ==
    LET bits  == (acc.bits * 32 + ValueOf[c]) % 2^16
        width == acc.width + 5
    IN  IF width < 8
        THEN [bits |-> bits, width |-> width, out |-> acc.out]
        ELSE [bits |-> bits, width |-> width - 8,
              out  |-> Append(acc.out, (bits \div 2^(width - 8)) % 256)]

Decoding(chars) ==
    LET after[i \in 0 .. Len(chars)] == IF i = 0 THEN Empty ELSE Decode(after[i - 1], chars[i])
    IN  after

Parse(text) ==
    LET chars == Strip(Cleaned(text))
    IN  IF Readable(chars) THEN Decoding(chars)[Length].out ELSE Malformed

-----------------------------------------------------------------------------
(* proof, verify: the HMAC stands for everything that goes into it.  A side is  *)
(* one end of a connection, with its public key and the nonce it made for it.    *)
Proof(code, my, their) == <<code, my, their>>

(* Mistake: the proof of the other is computed from one's own side.              *)
VerifyOwn(code, claimed, their, my) == claimed = Proof(code, my, their)

Verify(code, claimed, their, my) == claimed = Proof(code, their, my)
=============================================================================
