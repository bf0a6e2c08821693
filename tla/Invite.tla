------------------------------- MODULE Invite -------------------------------
(***************************************************************************)
(* A room code on its way from the screen of one person to the connection  *)
(* of another: the room field of the setup screen and /room (ui.rs), the   *)
(* clipboard (clipboard.rs), however it is passed on and typed, and the    *)
(* codes and proofs of RoomCode.                                           *)
(*                                                                         *)
(* What the room file remembers is in Startup, the rest of the handshake   *)
(* in Node.  Blanks at the ends of a text, which trim takes away and parse *)
(* drops, are left out.                                                    *)
(***************************************************************************)
EXTENDS RoomCode

CONSTANTS
    People,     \* who runs the program
    Owns,       \* the codes their launchers may start with, a function of People
    TOOLS,      \* the clipboard tools, in the order they are tried
    Rubbish,    \* texts that are no code
    Styles,     \* the ways of writing a code down (a bound)
    MaxEdits,   \* how often a room field may be edited (a bound)
    Nothing

VARIABLES
    own,        \* Launcher::room
    tools,      \* what becomes of each clipboard tool on these machines
    screen,     \* setup, or chat
    field,      \* the text in the room field
    meant,      \* the code it stands for, and how that is spelled there
    refused,    \* what the setup screen says was no code
    told,       \* what the last copy showed: the text, what it stands for,
                \* and what came of it
    clip,       \* the clipboard
    room,       \* the room of the node
    met,        \* who found the proof of whom good
    tried,      \* who connected to whom
    edits

vars == <<own, tools, screen, field, meant, refused, told, clip, room, met, tried, edits>>

Style ==
    [prefix : {<<>>, <<"T", "I", "O">>, <<"t", "i", "o">>, <<"T", "i", "o">>},
     lower  : BOOLEAN,
     gap    : {<<>>, <<"-">>, <<" ">>},
     alike  : BOOLEAN]

Blank(text) == \A i \in DOMAIN text : text[i] = " "

Texts == Seq(Characters \cup Separators)

ASSUME OwnsAssumption == Owns \subseteq [People -> Codes]
ASSUME ToolsAssumption == {"NoTool", "Failed"} \cap Range(TOOLS) = {}
ASSUME RubbishAssumption ==
    Rubbish \subseteq Texts /\ \A text \in Rubbish : ~Blank(text) /\ Parse(text) = Malformed
ASSUME StylesAssumption == Styles \subseteq Style
ASSUME EditsAssumption == MaxEdits \in Nat
ASSUME NothingAssumption == Nothing \notin Codes

AsShown == [prefix |-> <<"T", "I", "O">>, lower |-> FALSE, gap |-> <<"-">>, alike |-> FALSE]

(* What copy may return: the name of a tool, or a CopyError.               *)
Outcomes == Range(TOOLS) \cup {"NoTool", "Failed"}

Meaning(code, style) == [code |-> code, style |-> style]

(* How somebody may write a code down: in small letters, and with letters  *)
(* for the digits that look like them.                                     *)
Lower(c) ==
    IF \E i \in DOMAIN Capitals : Capitals[i] = c
    THEN Smalls[CHOOSE i \in DOMAIN Capitals : Capitals[i] = c]
    ELSE c

Alike(c, i) ==
    CASE c = "0" -> "O"
      [] c = "1" -> IF i % 2 = 0 THEN "I" ELSE "L"
      [] OTHER   -> c

Written(c, i, style) ==
    LET char == IF style.alike THEN Alike(c, i) ELSE c
    IN  IF style.lower THEN Lower(char) ELSE char

Letters(code, style) ==
    LET shown == Encoded(code)
    IN  [i \in 1 .. Len(shown) |-> Written(shown[i], i, style)]

Spelled(code, style) ==
    IF style.gap = <<>>
    THEN style.prefix \o Letters(code, style)
    ELSE style.prefix \o style.gap \o Grouped(Letters(code, style), Head(style.gap))

(* Two ways of writing a code that parse does not follow: a prefix in      *)
(* mixed case, and T10 at its start, without prefix, spelled TIO.          *)
Confusing(meaning) ==
    \/ meaning.style.prefix = <<"T", "i", "o">>
    \/ /\ meaning.style.prefix = <<>>
       /\ meaning.style.alike
       /\ IsPrefix(<<"T", "1", "0">>, Encoded(meaning.code))

Init ==
    /\ own \in Owns
    /\ tools \in [DOMAIN TOOLS -> {"absent", "fails", "works"}]
    /\ screen = [p \in People |-> "setup"]
    /\ field = [p \in People |-> Display(own[p])]
    /\ meant = [p \in People |-> Meaning(own[p], AsShown)]
    /\ refused = [p \in People |-> Nothing]
    /\ told = [p \in People |-> Nothing]
    /\ clip = [p \in People |-> Nothing]
    /\ room = [p \in People |-> Nothing]
    /\ met = {} /\ tried = {}
    /\ edits = 0

-----------------------------------------------------------------------------
(* clipboard::copy.                                                        *)

Missing(t) == tools[t] = "absent"

(* Mistake: a tool that is not there counts as the last error.             *)
ReasonOfLast == IF Missing(Len(TOOLS)) THEN "NoTool" ELSE "Failed"

Reason == IF \A t \in DOMAIN TOOLS : Missing(t) THEN "NoTool" ELSE "Failed"

(* try_tool for the first tool that works.  One that fails may have taken  *)
(* the text all the same; nobody counts on it.                             *)
Copied(p, text, via) ==
    \/ \E t \in DOMAIN TOOLS :
        /\ tools[t] = "works"
        /\ \A s \in 1 .. t - 1 : tools[s] # "works"
        /\ via = TOOLS[t]
        /\ clip' = [clip EXCEPT ![p] = text]
    \/ /\ \A t \in DOMAIN TOOLS : tools[t] # "works"
       /\ via = Reason
       /\ clip' = clip

Show(p, text, meaning) ==
    \E via \in Outcomes :
        /\ Copied(p, text, via)
        /\ told' = [told EXCEPT ![p] = [text |-> text, via |-> via, meant |-> meaning]]

-----------------------------------------------------------------------------
(* The setup screen.                                                       *)

Enter(p, text, meaning) ==
    /\ screen[p] = "setup"
    /\ edits < MaxEdits
    /\ edits' = edits + 1
    /\ field' = [field EXCEPT ![p] = text]
    /\ meant' = [meant EXCEPT ![p] = meaning]
    /\ UNCHANGED <<own, tools, screen, refused, told, clip, room, met, tried>>

EnterBlank(p) ==
    \E text \in {<<>>, <<" ">>} : Enter(p, text, Meaning(own[p], AsShown))

EnterRubbish(p) ==
    \E text \in Rubbish : Enter(p, text, Meaning(Nothing, AsShown))

(* What another was shown, read out and typed ...                          *)
TypeCode(p) ==
    \E q \in People \ {p}, style \in Styles :
        /\ told[q] # Nothing
        /\ told[q].meant.code # Nothing
        /\ Enter(p, Spelled(told[q].meant.code, style), Meaning(told[q].meant.code, style))

(* ... or taken from the clipboard, sent and pasted.                       *)
PasteCode(p) ==
    \E q \in People \ {p} :
        /\ told[q] # Nothing
        /\ told[q].via \in Range(TOOLS)
        /\ Enter(p, clip[q], told[q].meant)

CopyRoom(p) ==
    /\ screen[p] = "setup"
    /\ Show(p, IF Blank(field[p]) THEN Display(own[p]) ELSE field[p], meant[p])
    /\ refused' = [refused EXCEPT ![p] = Nothing]
    /\ UNCHANGED <<own, tools, screen, field, meant, room, met, tried, edits>>

Typed(p) == IF Blank(field[p]) THEN own[p] ELSE Parse(field[p])

Connect(p) ==
    /\ screen[p] = "setup"
    /\ Typed(p) # Malformed
    /\ room' = [room EXCEPT ![p] = Typed(p)]
    /\ screen' = [screen EXCEPT ![p] = "chat"]
    /\ refused' = [refused EXCEPT ![p] = Nothing]
    /\ UNCHANGED <<own, tools, field, meant, told, clip, met, tried, edits>>

ConnectRefused(p) ==
    /\ screen[p] = "setup"
    /\ Typed(p) = Malformed
    /\ refused' = [refused EXCEPT ![p] = meant[p]]
    /\ UNCHANGED <<own, tools, screen, field, meant, told, clip, room, met, tried, edits>>

-----------------------------------------------------------------------------
(* The chat.                                                               *)

SlashRoom(p) ==
    /\ screen[p] = "chat"
    /\ Show(p, Display(room[p]), Meaning(meant[p].code, AsShown))
    /\ UNCHANGED <<own, tools, screen, field, meant, refused, room, met, tried, edits>>

(* Whether p finds the proof of q good.                                    *)
Accepts(p, q) == Verify(room[p], Proof(room[q], q, p), q, p)

Meet(p, q) ==
    /\ screen[p] = "chat" /\ screen[q] = "chat"
    /\ {p, q} \notin tried
    /\ tried' = tried \cup {{p, q}}
    /\ met' = met \cup {e \in {<<p, q>>, <<q, p>>} : Accepts(e[1], e[2])}
    /\ UNCHANGED <<own, tools, screen, field, meant, refused, told, clip, room, edits>>

-----------------------------------------------------------------------------
Next ==
    \/ \E p \in People :
        \/ EnterBlank(p) \/ EnterRubbish(p) \/ TypeCode(p) \/ PasteCode(p)
        \/ CopyRoom(p) \/ Connect(p) \/ ConnectRefused(p) \/ SlashRoom(p)
    \/ \E p, q \in People : p # q /\ Meet(p, q)

Spec == Init /\ [][Next]_vars

-----------------------------------------------------------------------------
(* The type invariant.                                                     *)
Meanings == [code : Codes \cup {Nothing}, style : Style]

TypeOK ==
    /\ own \in [People -> Codes]
    /\ tools \in [DOMAIN TOOLS -> {"absent", "fails", "works"}]
    /\ screen \in [People -> {"setup", "chat"}]
    /\ field \in [People -> Texts]
    /\ meant \in [People -> Meanings]
    /\ refused \in [People -> Meanings \cup {Nothing}]
    /\ told \in [People -> [text : Texts, via : Outcomes, meant : Meanings] \cup {Nothing}]
    /\ clip \in [People -> Texts \cup {Nothing}]
    /\ room \in [People -> Codes \cup {Nothing}]
    /\ \A p \in People : screen[p] = "chat" <=> room[p] # Nothing
    /\ met \subseteq People \X People
    /\ \A pair \in tried : \E p, q \in People : p # q /\ pair = {p, q}
    /\ edits \in 0 .. MaxEdits

(* A code that was shown on a screen or copied is read as that code and no *)
(* other, however it was passed on and typed; and only the two spellings   *)
(* of Confusing, and what is no code at all, are refused.                  *)
ReadAsMeant ==
    \A p \in People :
        /\ screen[p] = "chat" => room[p] = meant[p].code
        /\ refused[p] # Nothing => refused[p].code = Nothing \/ Confusing(refused[p])

(* The two who connect accept each other if the code of the one came from  *)
(* the other, or both from a third, and neither does if it did not.        *)
InvitedMeet ==
    \A p, q \in People :
        {p, q} \in tried => ((<<p, q>> \in met) <=> (meant[p].code = meant[q].code))

(* Who is told that a code was copied has it on the clipboard; who is told *)
(* to install a tool has none of them.                                     *)
ToldTheTruth ==
    \A p \in People : told[p] # Nothing =>
        /\ told[p].via \in Range(TOOLS) => clip[p] = told[p].text
        /\ (told[p].via = "NoTool") <=> (\A t \in DOMAIN TOOLS : Missing(t))
=============================================================================
