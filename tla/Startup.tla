------------------------------- MODULE Startup ------------------------------
(***************************************************************************)
(* What the program keeps on disk, and how a run comes by it: the identity *)
(* file (identity.rs) and the room file (room.rs), both written through    *)
(* secretfile.rs, read and written by resolve_identity and resolve_room    *)
(* (main.rs) and by Launcher::start (ui.rs).                               *)
(*                                                                         *)
(* Several runs of the program may share the files; each file operation is *)
(* a step, and a run may be killed between any two of them.  --ephemeral   *)
(* and --identity, which take a run away from the shared identity, and     *)
(* permissions are left out.                                               *)
(***************************************************************************)
EXTENDS Naturals

CONSTANTS
    Runs,       \* the runs of the program that may be going on at once
    Keys,       \* the keypairs that may be generated (a bound)
    Codes,      \* the room codes that may be generated or typed (a bound)
    MaxStarts,  \* how many times the program may be started (a bound)
    MaxKills,   \* how many times it may be killed while it starts (a bound)
    Modes,      \* whether --plain or --name may be given (TRUE: no setup
                \* screen), left out (FALSE), or both
    Nothing,    \* no file, no argument, a blank field
    Fragment    \* a file that was created and not completely written

ASSUME NothingAssumption ==
    /\ Nothing \notin Keys \cup Codes \cup {"new"}
    /\ Fragment \notin Keys \cup Codes \cup {Nothing}
ASSUME BoundsAssumption == MaxStarts \in Nat /\ MaxKills \in Nat /\ Modes \subseteq BOOLEAN

VARIABLES
    idFile,     \* what the identity file holds
    roomFile,   \* what the room file holds
    stored,     \* the last code that was completely written there
    pc,         \* what each run does next
    id,         \* the keypair of each run
    args,       \* its arguments: --room, where "new" stands for --new-room,
                \* and whether --plain or --name takes it past the setup screen
    room,       \* Launcher::room, which prefills the setup screen
    joining,    \* the room a run is to start its node in, once it knows
    minted,     \* the keys and codes that were ever generated or typed
    crowded,    \* a run was started while another was going on
    starts,     \* how many times the program was started
    kills       \* how many times it was killed

vars == <<idFile, roomFile, stored, pc, id, args, room, joining, minted, crowded, starts, kills>>

disk  == <<idFile, roomFile, stored>>
mind  == <<id, args, room, joining>>
count == <<crowded, starts, kills>>

Saving   == {"check", "remove", "create", "write"}
Starting == {"identity", "readId", "createId", "writeId", "room", "readRoom"} \cup Saving
Phases   == {"off", "setup", "bind", "running"} \cup Starting

Args   == [room : Codes \cup {Nothing, "new"}, plain : BOOLEAN]
NoArgs == [room |-> Nothing, plain |-> FALSE]

TypeOK ==
    /\ idFile \in Keys \cup {Nothing, Fragment}
    /\ roomFile \in Codes \cup {Nothing, Fragment}
    /\ stored \in Codes \cup {Nothing}
    /\ pc \in [Runs -> Phases]
    /\ id \in [Runs -> Keys \cup {Nothing}]
    /\ args \in [Runs -> Args]
    /\ room \in [Runs -> Codes \cup {Nothing}]
    /\ joining \in [Runs -> Codes \cup {Nothing}]
    /\ minted \subseteq Keys \cup Codes
    /\ crowded \in BOOLEAN
    /\ starts \in 0 .. MaxStarts
    /\ kills \in 0 .. MaxKills

Init ==
    /\ idFile = Nothing /\ roomFile = Nothing /\ stored = Nothing
    /\ pc = [r \in Runs |-> "off"]
    /\ id = [r \in Runs |-> Nothing]
    /\ args = [r \in Runs |-> NoArgs]
    /\ room = [r \in Runs |-> Nothing]
    /\ joining = [r \in Runs |-> Nothing]
    /\ minted = {}
    /\ crowded = FALSE /\ starts = 0 /\ kills = 0

Go(r, from, to) == pc[r] = from /\ pc' = [pc EXCEPT ![r] = to]

-----------------------------------------------------------------------------
(* Starting and stopping.                                                  *)

Start(r) ==
    /\ Go(r, "off", "identity")
    /\ starts < MaxStarts
    /\ starts' = starts + 1
    /\ crowded' = (crowded \/ \E s \in Runs : pc[s] # "off")
    /\ \E a \in Args :
        /\ a.plain \in Modes
        /\ args' = [args EXCEPT ![r] = a]
        /\ minted' = minted \cup ({a.room} \cap Codes)
    /\ UNCHANGED <<disk, id, room, joining, kills>>

(* What a run knows is gone with it.                                       *)
Stop(r) ==
    /\ pc' = [pc EXCEPT ![r] = "off"]
    /\ id' = [id EXCEPT ![r] = Nothing]
    /\ args' = [args EXCEPT ![r] = NoArgs]
    /\ room' = [room EXCEPT ![r] = Nothing]
    /\ joining' = [joining EXCEPT ![r] = Nothing]
    /\ UNCHANGED <<disk, minted, crowded, starts>>

Quit(r) ==
    /\ pc[r] \in {"setup", "running"}
    /\ Stop(r)
    /\ UNCHANGED kills

Kill(r) ==
    /\ pc[r] \in Starting
    /\ kills < MaxKills
    /\ kills' = kills + 1
    /\ Stop(r)

-----------------------------------------------------------------------------
(* identity::load_or_create.                                               *)

FindIdentity(r) ==
    /\ idFile # Nothing
    /\ Go(r, "identity", "readId")
    /\ UNCHANGED <<disk, mind, minted, count>>

GenerateIdentity(r) ==
    /\ idFile = Nothing
    /\ Go(r, "identity", "createId")
    /\ \E k \in Keys \ minted :
        /\ id' = [id EXCEPT ![r] = k]
        /\ minted' = minted \cup {k}
    /\ UNCHANGED <<disk, args, room, joining, count>>

(* Mistake: a file that was not completely written is taken as it is.      *)
ReadIdentityAnyway(r) ==
    /\ Go(r, "readId", "room")
    /\ id' = [id EXCEPT ![r] = idFile]
    /\ UNCHANGED <<disk, args, room, joining, minted, count>>

ReadIdentity(r) ==
    /\ idFile \in Keys
    /\ Go(r, "readId", "room")
    /\ id' = [id EXCEPT ![r] = idFile]
    /\ UNCHANGED <<disk, args, room, joining, minted, count>>

(* Mistake: create instead of create_new.                                  *)
OverwriteIdentity(r) ==
    /\ Go(r, "createId", "writeId")
    /\ idFile' = Fragment
    /\ UNCHANGED <<roomFile, stored, mind, minted, count>>

(* write_new creates the file, then writes it.                             *)
CreateIdentity(r) ==
    /\ idFile = Nothing
    /\ Go(r, "createId", "writeId")
    /\ idFile' = Fragment
    /\ UNCHANGED <<roomFile, stored, mind, minted, count>>

WriteIdentity(r) ==
    /\ Go(r, "writeId", "room")
    /\ idFile' = id[r]
    /\ UNCHANGED <<roomFile, stored, mind, minted, count>>

(* The file is malformed, or another run created it first: the program     *)
(* stops rather than run under another identity.                           *)
IdentityFails(r) ==
    /\ \/ pc[r] = "readId" /\ idFile \notin Keys
       \/ pc[r] = "createId" /\ idFile # Nothing
    /\ Stop(r)
    /\ UNCHANGED kills

-----------------------------------------------------------------------------
(* resolve_room and room::load_or_create.                                  *)

(* Mistake: the code on the command line is not remembered.                *)
GivenRoomOnce(r) ==
    /\ args[r].room \in Codes
    /\ Go(r, "room", "setup")
    /\ room' = [room EXCEPT ![r] = args[r].room]
    /\ UNCHANGED <<disk, id, args, joining, minted, count>>

GivenRoom(r) ==
    /\ args[r].room \in Codes
    /\ Go(r, "room", "check")
    /\ room' = [room EXCEPT ![r] = args[r].room]
    /\ UNCHANGED <<disk, id, args, joining, minted, count>>

FindRoom(r) ==
    /\ args[r].room = Nothing
    /\ roomFile # Nothing
    /\ Go(r, "room", "readRoom")
    /\ UNCHANGED <<disk, mind, minted, count>>

(* --new-room, or no room file: a code nobody has yet.                     *)
GenerateRoom(r) ==
    /\ args[r].room = "new" \/ (args[r].room = Nothing /\ roomFile = Nothing)
    /\ Go(r, "room", "check")
    /\ \E c \in Codes \ minted :
        /\ room' = [room EXCEPT ![r] = c]
        /\ minted' = minted \cup {c}
    /\ UNCHANGED <<disk, id, args, joining, count>>

ReadRoom(r) ==
    /\ roomFile \in Codes
    /\ Go(r, "readRoom", "setup")
    /\ room' = [room EXCEPT ![r] = roomFile]
    /\ UNCHANGED <<disk, id, args, joining, minted, count>>

ReadRoomFails(r) ==
    /\ pc[r] = "readRoom" /\ roomFile \notin Codes
    /\ Stop(r)
    /\ UNCHANGED kills

-----------------------------------------------------------------------------
(* room::save, called as the program starts and again by the launcher,     *)
(* which by then knows the room to join.                                   *)

InLauncher(r) == joining[r] # Nothing

CheckSaved(r) ==
    /\ Go(r, "check", IF roomFile = Nothing THEN "create" ELSE "remove")
    /\ UNCHANGED <<disk, mind, minted, count>>

(* Mistake: the old code is removed and the new one not written.           *)
RemoveOnly(r) ==
    /\ roomFile # Nothing
    /\ Go(r, "remove", IF InLauncher(r) THEN "bind" ELSE "setup")
    /\ roomFile' = Nothing
    /\ UNCHANGED <<idFile, stored, mind, minted, count>>

RemoveSaved(r) ==
    /\ roomFile # Nothing
    /\ Go(r, "remove", "create")
    /\ roomFile' = Nothing
    /\ UNCHANGED <<idFile, stored, mind, minted, count>>

CreateSaved(r) ==
    /\ roomFile = Nothing
    /\ Go(r, "create", "write")
    /\ roomFile' = Fragment
    /\ UNCHANGED <<idFile, stored, mind, minted, count>>

WriteSaved(r) ==
    /\ Go(r, "write", IF InLauncher(r) THEN "bind" ELSE "setup")
    /\ roomFile' = IF InLauncher(r) THEN joining[r] ELSE room[r]
    /\ stored' = roomFile'
    /\ UNCHANGED <<idFile, mind, minted, count>>

(* Launcher::start returns an error, which the setup screen shows and      *)
(* --plain, like anything that fails before, does not survive.             *)
TryAgain(r) ==
    \/ /\ args[r].plain \/ ~InLauncher(r)
       /\ Stop(r)
    \/ /\ ~args[r].plain /\ InLauncher(r)
       /\ pc' = [pc EXCEPT ![r] = "setup"]
       /\ joining' = [joining EXCEPT ![r] = Nothing]
       /\ UNCHANGED <<disk, id, args, room, minted, crowded, starts>>

(* Another run was in the way.                                             *)
SaveFails(r) ==
    /\ \/ pc[r] = "remove" /\ roomFile = Nothing
       \/ pc[r] = "create" /\ roomFile # Nothing
    /\ TryAgain(r)
    /\ UNCHANGED kills

-----------------------------------------------------------------------------
(* Launcher::start.                                                        *)

(* The user leaves the prefilled code, empties the field or types another. *)
Connect(r) ==
    /\ \E code \in IF args[r].plain THEN {room[r]} ELSE Codes :
        /\ Go(r, "setup", IF code = room[r] THEN "bind" ELSE "check")
        /\ joining' = [joining EXCEPT ![r] = code]
        /\ minted' = minted \cup {code}
    /\ UNCHANGED <<disk, id, args, room, count>>

Bind(r) ==
    /\ Go(r, "bind", "running")
    /\ UNCHANGED <<disk, mind, minted, count>>

(* The address to listen on is taken.                                      *)
BindFails(r) ==
    /\ pc[r] = "bind"
    /\ TryAgain(r)
    /\ UNCHANGED kills

Step(r) ==
    \/ Start(r) \/ Quit(r) \/ Kill(r)
    \/ FindIdentity(r) \/ GenerateIdentity(r) \/ ReadIdentity(r)
    \/ CreateIdentity(r) \/ WriteIdentity(r) \/ IdentityFails(r)
    \/ GivenRoom(r) \/ FindRoom(r) \/ GenerateRoom(r)
    \/ ReadRoom(r) \/ ReadRoomFails(r)
    \/ CheckSaved(r) \/ RemoveSaved(r) \/ CreateSaved(r) \/ WriteSaved(r)
    \/ SaveFails(r)
    \/ Connect(r) \/ Bind(r) \/ BindFails(r)

Next == \E r \in Runs : Step(r)

Spec == Init /\ [][Next]_vars

-----------------------------------------------------------------------------
(* "Silently running under a different identity would be the worst outcome *)
(* available" (main.rs:153): whatever starts at the same time, and however *)
(* a start was cut short, a run that has an identity to run under has the  *)
(* one on disk, ...                                                        *)
OneIdentity ==
    \A r \in Runs : pc[r] \notin {"off", "identity", "readId", "createId", "writeId"} =>
        id[r] = idFile /\ idFile \in Keys

(* ... which, once written, is never written again.                        *)
IdentityKept == [][(idFile \in Keys) => idFile' = idFile]_vars

(* A code on the command line is "remembered, so it only has to be typed   *)
(* once" (main.rs:198), and without one the stored code is used: the room  *)
(* a node without setup screen runs in is the room the next start finds,   *)
(* whatever was typed, killed or failed before, as long as no two runs     *)
(* overlap.                                                                *)
GivenIsRemembered ==
    ~crowded => \A r \in Runs : pc[r] = "running" /\ args[r].plain => roomFile = joining[r]

(* A code typed on the setup screen, too, "becomes the room from now on"   *)
(* (ui.rs:250), so that "a code only has to be typed the once" (ui.rs:196).*)
RunningIsRemembered ==
    ~crowded => \A r \in Runs : pc[r] = "running" => roomFile = joining[r]

(* A room is made up only "if there is none" (room.rs:228): never once one *)
(* was stored, as long as no run is killed while it replaces the file, and *)
(* no other one reads it meanwhile.                                        *)
NoneForgotten ==
    [][\A r \in Runs :
        kills = 0 /\ ~crowded /\ args[r].room = Nothing /\ GenerateRoom(r)
            => stored = Nothing]_vars
=============================================================================
