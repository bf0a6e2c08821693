---------------------------- MODULE StartupProofs ---------------------------
(***************************************************************************)
(* What Startup promises about the identity, for any number of runs of the *)
(* program, and about the room, until two runs overlap: for any keys and   *)
(* codes, however often the program is started and killed.                 *)
(***************************************************************************)
EXTENDS Startup, TLAPS

(* Past the resolution of the room, a run knows a code.                    *)
RoomKnown ==
    \A r \in Runs : pc[r] \in Saving \cup {"setup", "bind", "running"} => room[r] \in Codes

(* A run holds the key it is about to write, and only the run that created *)
(* the identity file writes it: the file stays a fragment until it does.   *)
OneWriter ==
    /\ \A r \in Runs : pc[r] \in {"createId", "writeId"} => id[r] \in Keys
    /\ \A r \in Runs : pc[r] = "writeId" => idFile = Fragment
    /\ \A r, s \in Runs : pc[r] = "writeId" /\ pc[s] = "writeId" => r = s

IInv == TypeOK /\ RoomKnown /\ OneWriter /\ OneIdentity

Early == {"off", "identity", "readId", "createId", "writeId"}

(* The initial state, with no file and no run.                             *)
LEMMA InitInv == Init => IInv
  <1> SUFFICES ASSUME Init PROVE IInv
    OBVIOUS
  <1>1. TypeOK
    <2>1. crowded \in BOOLEAN
      BY DEF Init
    <2>2. starts \in 0 .. MaxStarts /\ kills \in 0 .. MaxKills
      BY BoundsAssumption DEF Init
    <2> QED BY <2>1, <2>2 DEF Init, TypeOK, Args, NoArgs, Phases, Starting, Saving
  <1>2. RoomKnown /\ OneWriter /\ OneIdentity
    BY DEF Init, RoomKnown, OneWriter, OneIdentity, Saving
  <1> QED BY <1>1, <1>2 DEF IInv

(* The next step of a run is one it may take.                              *)
LEMMA GoType ==
    ASSUME TypeOK, NEW r \in Runs, NEW from, NEW to \in Phases, Go(r, from, to)
    PROVE  pc' \in [Runs -> Phases]
  BY DEF TypeOK, Go

(* A run that has its identity and goes on disturbs nobody's.              *)
LEMMA AsideInv ==
    ASSUME IInv, NEW r \in Runs, NEW to, pc[r] \notin Early,
           to \notin Early, pc' = [pc EXCEPT ![r] = to], idFile' = idFile, id' = id
    PROVE  OneWriter' /\ OneIdentity'
  <1>1. /\ pc'[r] \notin Early
        /\ \A s \in Runs \ {r} : pc'[s] = pc[s]
    BY DEF IInv, TypeOK
  <1>2. OneWriter'
    BY <1>1 DEF IInv, OneWriter, Early
  <1>3. OneIdentity'
    BY <1>1 DEF IInv, OneIdentity, Early
  <1> QED BY <1>2, <1>3

(* A run that stops keeps nothing and changes no file.                     *)
LEMMA StopInv ==
    ASSUME IInv, NEW r \in Runs, Stop(r), kills' \in 0 .. MaxKills
    PROVE  IInv'
  <1>1. TypeOK'
    BY DEF IInv, TypeOK, Args, NoArgs, Stop, disk, Phases, Starting
  <1>2. RoomKnown'
    BY DEF IInv, TypeOK, RoomKnown, Stop, disk, Saving
  <1>3. OneWriter'
    BY DEF IInv, TypeOK, OneWriter, Stop, disk
  <1>4. OneIdentity'
    BY DEF IInv, TypeOK, OneIdentity, Stop, disk
  <1> QED BY <1>1, <1>2, <1>3, <1>4 DEF IInv

(* A run that starts knows nothing yet.                                    *)
LEMMA StartInv ==
    ASSUME IInv, NEW r \in Runs, Start(r)
    PROVE  IInv'
  <1> USE DEF Start, Go, disk
  <1>1. TypeOK'
    <2>1. pc' \in [Runs -> Phases]
      BY GoType DEF IInv, Phases, Starting
    <2>2. starts' \in 0 .. MaxStarts
      BY BoundsAssumption DEF IInv, TypeOK
    <2>3. args' \in [Runs -> Args] /\ minted' \subseteq Keys \cup Codes
      BY DEF IInv, TypeOK, Args
    <2>4. crowded' \in BOOLEAN
      OBVIOUS
    <2> QED BY <2>1, <2>2, <2>3, <2>4 DEF IInv, TypeOK
  <1>2. RoomKnown'
    BY DEF IInv, TypeOK, RoomKnown, Saving
  <1>3. OneWriter'
    BY DEF IInv, TypeOK, OneWriter
  <1>4. OneIdentity'
    BY DEF IInv, TypeOK, OneIdentity
  <1> QED BY <1>1, <1>2, <1>3, <1>4 DEF IInv

(* Every way to stop is Stop.                                              *)
LEMMA StoppingInv ==
    ASSUME IInv, NEW r \in Runs,
           Quit(r) \/ Kill(r) \/ IdentityFails(r) \/ ReadRoomFails(r)
    PROVE  IInv'
  <1>1. Stop(r)
    BY DEF Quit, Kill, IdentityFails, ReadRoomFails
  <1>2. kills' \in 0 .. MaxKills
    <2>1. kills \in 0 .. MaxKills
      BY DEF IInv, TypeOK
    <2>2. kills' = kills \/ (kills < MaxKills /\ kills' = kills + 1)
      BY DEF Quit, Kill, IdentityFails, ReadRoomFails
    <2> QED BY <2>1, <2>2, BoundsAssumption
  <1> QED BY <1>1, <1>2, StopInv

(* Resolving the identity: the steps that read and write its file.         *)
LEMMA IdentityInv ==
    ASSUME IInv, NEW r \in Runs,
           \/ FindIdentity(r) \/ GenerateIdentity(r) \/ ReadIdentity(r)
           \/ CreateIdentity(r) \/ WriteIdentity(r)
    PROVE  IInv'
  <1> USE DEF Go, disk, mind, count
  <1>1. CASE FindIdentity(r)
    BY <1>1 DEF FindIdentity, IInv, TypeOK, RoomKnown, OneWriter, OneIdentity, Phases,
       Starting, Saving
  <1>2. CASE GenerateIdentity(r)
    <2>1. TypeOK'
      BY <1>2 DEF GenerateIdentity, IInv, TypeOK, Phases, Starting
    <2>2. RoomKnown'
      BY <1>2 DEF GenerateIdentity, IInv, TypeOK, RoomKnown, Saving
    <2>3. OneWriter'
      BY <1>2 DEF GenerateIdentity, IInv, TypeOK, OneWriter
    <2>4. OneIdentity'
      BY <1>2 DEF GenerateIdentity, IInv, TypeOK, OneIdentity
    <2> QED BY <2>1, <2>2, <2>3, <2>4 DEF IInv
  <1>3. CASE ReadIdentity(r)
    <2>1. TypeOK'
      BY <1>3 DEF ReadIdentity, IInv, TypeOK, Phases, Starting
    <2>2. RoomKnown'
      BY <1>3 DEF ReadIdentity, IInv, TypeOK, RoomKnown, Saving
    <2>3. OneWriter'
      BY <1>3 DEF ReadIdentity, IInv, TypeOK, OneWriter
    <2>4. OneIdentity'
      BY <1>3 DEF ReadIdentity, IInv, TypeOK, OneIdentity
    <2> QED BY <2>1, <2>2, <2>3, <2>4 DEF IInv
  <1>4. CASE CreateIdentity(r)
    <2>1. TypeOK'
      BY <1>4 DEF CreateIdentity, IInv, TypeOK, Phases, Starting
    <2>2. RoomKnown'
      BY <1>4 DEF CreateIdentity, IInv, TypeOK, RoomKnown, Saving
    <2>3. OneWriter'
      BY <1>4, NothingAssumption DEF CreateIdentity, IInv, TypeOK, OneWriter
    <2>4. OneIdentity'
      BY <1>4, NothingAssumption DEF CreateIdentity, IInv, TypeOK, OneIdentity
    <2> QED BY <2>1, <2>2, <2>3, <2>4 DEF IInv
  <1>5. CASE WriteIdentity(r)
    <2>1. TypeOK'
      BY <1>5 DEF WriteIdentity, IInv, TypeOK, OneWriter, Phases, Starting
    <2>2. RoomKnown'
      BY <1>5 DEF WriteIdentity, IInv, TypeOK, RoomKnown, Saving
    <2>3. OneWriter'
      BY <1>5 DEF WriteIdentity, IInv, TypeOK, OneWriter
    <2>4. OneIdentity'
      BY <1>5, NothingAssumption DEF WriteIdentity, IInv, TypeOK, OneWriter, OneIdentity
    <2> QED BY <2>1, <2>2, <2>3, <2>4 DEF IInv
  <1> QED BY <1>1, <1>2, <1>3, <1>4, <1>5

(* Resolving the room leaves the identity alone.                           *)
LEMMA RoomInv ==
    ASSUME IInv, NEW r \in Runs,
           GivenRoom(r) \/ FindRoom(r) \/ GenerateRoom(r) \/ ReadRoom(r)
    PROVE  IInv'
  <1> USE DEF Go, disk, mind, count, GivenRoom, FindRoom, GenerateRoom, ReadRoom
  <1>1. TypeOK'
    <2>1. pc' \in [Runs -> Phases]
      BY GoType DEF IInv, Phases, Starting, Saving
    <2>2. room' = room \/ \E c \in Codes : room' = [room EXCEPT ![r] = c]
      BY DEF IInv, TypeOK
    <2>3. room' \in [Runs -> Codes \cup {Nothing}]
      <3> HIDE DEF GivenRoom, FindRoom, GenerateRoom, ReadRoom
      <3> QED BY <2>2 DEF IInv, TypeOK
    <2>4. minted' \subseteq Keys \cup Codes
      <3>1. minted' = minted \/ \E c \in Codes : minted' = minted \cup {c}
        OBVIOUS
      <3> HIDE DEF GivenRoom, FindRoom, GenerateRoom, ReadRoom
      <3> QED BY <3>1 DEF IInv, TypeOK
    <2>5. UNCHANGED <<idFile, roomFile, stored, id, args, joining, crowded, starts, kills>>
      OBVIOUS
    <2> HIDE DEF GivenRoom, FindRoom, GenerateRoom, ReadRoom
    <2> QED BY <2>1, <2>3, <2>4, <2>5 DEF IInv, TypeOK
  <1>2. RoomKnown'
    BY DEF IInv, TypeOK, RoomKnown, Saving
  <1>3. OneWriter' /\ OneIdentity'
    BY AsideInv DEF Early
  <1> QED BY <1>1, <1>2, <1>3 DEF IInv

(* Nor does saving it.                                                     *)
LEMMA SaveInv ==
    ASSUME IInv, NEW r \in Runs,
           CheckSaved(r) \/ RemoveSaved(r) \/ CreateSaved(r) \/ WriteSaved(r)
    PROVE  IInv'
  <1> USE DEF Go, disk, mind, count, CheckSaved, RemoveSaved, CreateSaved, WriteSaved,
          InLauncher
  <1>1. TypeOK'
    <2>1. pc' \in [Runs -> Phases]
      BY GoType DEF IInv, Phases, Starting, Saving
    <2>2. CASE WriteSaved(r)
      <3>1. roomFile' \in Codes
        BY <2>2 DEF IInv, TypeOK, RoomKnown, Saving
      <3> QED BY <2>1, <2>2, <3>1 DEF IInv, TypeOK
    <2>3. CASE ~WriteSaved(r)
      BY <2>1, <2>3 DEF IInv, TypeOK
    <2> QED BY <2>2, <2>3
  <1>2. RoomKnown'
    BY DEF IInv, TypeOK, RoomKnown, Saving
  <1>3. OneWriter' /\ OneIdentity'
    BY AsideInv DEF Early
  <1> QED BY <1>1, <1>2, <1>3 DEF IInv

(* A failed save or bind stops the run or takes it back to the screen.     *)
LEMMA TryAgainInv ==
    ASSUME IInv, NEW r \in Runs, SaveFails(r) \/ BindFails(r)
    PROVE  IInv'
  <1>1. TryAgain(r) /\ kills' \in 0 .. MaxKills /\ pc[r] \in Saving \cup {"bind"}
    BY DEF SaveFails, BindFails, IInv, TypeOK, Saving
  <1>2. CASE Stop(r)
    BY <1>1, <1>2, StopInv
  <1>3. CASE ~Stop(r)
    <2> USE <1>1, <1>3 DEF TryAgain, disk
    <2>1. TypeOK'
      BY DEF IInv, TypeOK, Phases
    <2>2. RoomKnown'
      BY DEF IInv, TypeOK, RoomKnown
    <2>3. OneWriter' /\ OneIdentity'
      BY AsideInv DEF Early, Saving
    <2> QED BY <2>1, <2>2, <2>3 DEF IInv
  <1> QED BY <1>2, <1>3

(* The launcher settles which room to join.                                *)
LEMMA LaunchInv ==
    ASSUME IInv, NEW r \in Runs, Connect(r) \/ Bind(r)
    PROVE  IInv'
  <1> USE DEF Go, disk, mind, count, Connect, Bind
  <1>1. TypeOK'
    <2>1. pc' \in [Runs -> Phases]
      BY GoType DEF IInv, Phases, Starting, Saving
    <2>2. joining' \in [Runs -> Codes \cup {Nothing}] /\ minted' \subseteq Keys \cup Codes
      BY DEF IInv, TypeOK, RoomKnown
    <2> QED BY <2>1, <2>2 DEF IInv, TypeOK
  <1>2. RoomKnown'
    BY DEF IInv, TypeOK, RoomKnown, Saving
  <1>3. OneWriter' /\ OneIdentity'
    BY AsideInv DEF Early
  <1> QED BY <1>1, <1>2, <1>3 DEF IInv

(* Nothing happens.                                                        *)
LEMMA StutterInv == IInv /\ UNCHANGED vars => IInv'
  BY DEF IInv, TypeOK, RoomKnown, OneWriter, OneIdentity, vars

(* The invariant is inductive.                                             *)
LEMMA NextInv == IInv /\ [Next]_vars => IInv'
  <1> SUFFICES ASSUME IInv, Next PROVE IInv'
    BY StutterInv
  <1>1. PICK r \in Runs :
            \/ Start(r)
            \/ Quit(r) \/ Kill(r) \/ IdentityFails(r) \/ ReadRoomFails(r)
            \/ FindIdentity(r) \/ GenerateIdentity(r) \/ ReadIdentity(r)
            \/ CreateIdentity(r) \/ WriteIdentity(r)
            \/ GivenRoom(r) \/ FindRoom(r) \/ GenerateRoom(r) \/ ReadRoom(r)
            \/ CheckSaved(r) \/ RemoveSaved(r) \/ CreateSaved(r) \/ WriteSaved(r)
            \/ SaveFails(r) \/ BindFails(r)
            \/ Connect(r) \/ Bind(r)
    BY DEF Next, Step
  <1> QED BY <1>1, StartInv, StoppingInv, IdentityInv, RoomInv, SaveInv, TryAgainInv,
             LaunchInv

(* The four parts of the invariant hold in every reachable state.          *)
THEOREM Invariance == Spec => []IInv
  BY InitInv, NextInv, PTL DEF Spec

(* TypeOK of Startup, for all constants.                                   *)
THEOREM TypeCorrect == Spec => []TypeOK
  <1>1. IInv => TypeOK
    BY DEF IInv
  <1> QED BY <1>1, Invariance, PTL

(* No run ever runs under an identity other than the one on disk           *)
(* (main.rs:153), however many start at once and wherever one is killed.   *)
THEOREM NeverAnother == Spec => []OneIdentity
  <1>1. IInv => OneIdentity
    BY DEF IInv
  <1> QED BY <1>1, Invariance, PTL

(* No step replaces an identity that was completely written: the file is   *)
(* created only where there is none, and completed only as a fragment.     *)
THEOREM NeverReplaced == Spec => IdentityKept
  <1>1. IInv /\ [Next]_vars => [(idFile \in Keys) => idFile' = idFile]_vars
    <2> SUFFICES ASSUME IInv, Next, idFile \in Keys PROVE idFile' = idFile
      OBVIOUS
    <2>1. \A r \in Runs : CreateIdentity(r) => FALSE
      BY NothingAssumption DEF CreateIdentity, Go
    <2>2. \A r \in Runs : WriteIdentity(r) => FALSE
      BY NothingAssumption DEF WriteIdentity, Go, IInv, OneWriter
    <2> QED
      BY <2>1, <2>2 DEF Next, Step, disk, TryAgain, Stop, Start, Quit, Kill, FindIdentity,
         GenerateIdentity, ReadIdentity, IdentityFails, GivenRoom, FindRoom, GenerateRoom,
         ReadRoom, ReadRoomFails, CheckSaved, RemoveSaved, CreateSaved, WriteSaved,
         SaveFails, Connect, Bind, BindFails
  <1> QED BY <1>1, Invariance, PTL DEF Spec, IdentityKept

-----------------------------------------------------------------------------
(* The room.                                                               *)

(* Until two runs have overlapped, one run is going on at most.            *)
Solo == ~crowded => \A r, s \in Runs : pc[r] # "off" /\ pc[s] # "off" => r = s

(* Before a run presses Connect it joins no room yet; and one without the  *)
(* setup screen saves a code only as it starts, so that the file has it    *)
(* from there on.                                                          *)
Remembered(r) ==
    /\ pc[r] \in Early \cup {"room", "readRoom", "setup"} => joining[r] = Nothing
    /\ args[r].plain =>
        /\ pc[r] \in Saving => joining[r] = Nothing
        /\ pc[r] = "setup" => roomFile = room[r]
        /\ pc[r] \in {"bind", "running"} => roomFile = joining[r]

Remembers == ~crowded => \A r \in Runs : Remembered(r)

(* A step is that of a run that starts or is going on, and of no other.    *)
LEMMA Elsewhere ==
    ASSUME IInv, NEW r \in Runs, Step(r)
    PROVE  /\ \A s \in Runs \ {r} : pc'[s] = pc[s] /\ joining'[s] = joining[s]
           /\ Start(r) \/ (pc[r] # "off" /\ crowded' = crowded)
  <1> USE DEF IInv, TypeOK, Go, mind, count
  <1>1. CASE Start(r)
    BY <1>1 DEF Start
  <1>2. CASE Quit(r) \/ Kill(r) \/ IdentityFails(r) \/ ReadRoomFails(r)
    BY <1>2 DEF Quit, Kill, IdentityFails, ReadRoomFails, Stop, Starting, Saving
  <1>3. CASE FindIdentity(r) \/ GenerateIdentity(r) \/ ReadIdentity(r)
             \/ CreateIdentity(r) \/ WriteIdentity(r)
    BY <1>3 DEF FindIdentity, GenerateIdentity, ReadIdentity, CreateIdentity, WriteIdentity
  <1>4. CASE GivenRoom(r) \/ FindRoom(r) \/ GenerateRoom(r) \/ ReadRoom(r)
    BY <1>4 DEF GivenRoom, FindRoom, GenerateRoom, ReadRoom
  <1>5. CASE CheckSaved(r) \/ RemoveSaved(r) \/ CreateSaved(r) \/ WriteSaved(r)
    BY <1>5 DEF CheckSaved, RemoveSaved, CreateSaved, WriteSaved
  <1>6. CASE SaveFails(r) \/ BindFails(r)
    BY <1>6 DEF SaveFails, BindFails, TryAgain, Stop
  <1>7. CASE Connect(r) \/ Bind(r)
    BY <1>7 DEF Connect, Bind
  <1> QED BY <1>1, <1>2, <1>3, <1>4, <1>5, <1>6, <1>7 DEF Step

(* Who starts while another is going on makes it crowded.                  *)
LEMMA SoloStep ==
    ASSUME IInv, Solo, NEW r \in Runs, Step(r)
    PROVE  Solo' /\ (~crowded' => ~crowded /\ \A s \in Runs \ {r} : pc[s] = "off")
  <1>1. CASE Start(r)
    BY <1>1, Elsewhere DEF Start, Solo
  <1>2. CASE ~Start(r)
    BY <1>2, Elsewhere DEF Solo
  <1> QED BY <1>1, <1>2

(* Another run that is off stays off, and joins no room.                   *)
LEMMA RemembersAll ==
    ASSUME IInv, Solo, Remembers, NEW r \in Runs, Step(r),
           ~crowded' /\ Remembered(r) => Remembered(r)'
    PROVE  Remembers'
  <1> SUFFICES ASSUME ~crowded', NEW s \in Runs PROVE Remembered(s)'
    BY DEF Remembers
  <1>1. ~crowded /\ Remembered(s) /\ (s # r => pc[s] = "off")
    BY SoloStep DEF Remembers
  <1>2. CASE s = r
    BY <1>1, <1>2
  <1>3. CASE s # r
    BY <1>1, <1>3, Elsewhere DEF Remembered, Early, Saving
  <1> QED BY <1>2, <1>3

(* A run that starts, or ends, joins no room.                              *)
LEMMA RemembersComing ==
    ASSUME IInv, NEW r \in Runs, Remembered(r), Start(r) \/ Stop(r)
    PROVE  Remembered(r)'
  <1>1. pc'[r] \in Early /\ joining'[r] = Nothing
    BY DEF IInv, TypeOK, Remembered, Start, Stop, Go, Early
  <1> QED BY <1>1 DEF Remembered, Early, Saving

(* While the identity is resolved, no room is.                             *)
LEMMA RemembersIdentity ==
    ASSUME IInv, NEW r \in Runs, Remembered(r),
           \/ FindIdentity(r) \/ GenerateIdentity(r) \/ ReadIdentity(r)
           \/ CreateIdentity(r) \/ WriteIdentity(r)
    PROVE  Remembered(r)'
  <1>1. /\ pc[r] \in Early
        /\ pc'[r] \in {"readId", "createId", "writeId", "room"}
        /\ joining' = joining
    BY DEF IInv, TypeOK, FindIdentity, GenerateIdentity, ReadIdentity, CreateIdentity,
       WriteIdentity, Go, Early, mind
  <1> QED BY <1>1 DEF Remembered, Early, Saving

(* A code that is read is in the file; any other is about to be saved.     *)
LEMMA RemembersRoom ==
    ASSUME IInv, NEW r \in Runs, Remembered(r),
           GivenRoom(r) \/ FindRoom(r) \/ GenerateRoom(r) \/ ReadRoom(r)
    PROVE  Remembered(r)'
  <1>1. /\ pc[r] \in {"room", "readRoom"}
        /\ joining' = joining /\ args' = args /\ roomFile' = roomFile
        /\ \/ pc'[r] \in {"check", "readRoom"}
           \/ pc'[r] = "setup" /\ room'[r] = roomFile
    BY DEF IInv, TypeOK, GivenRoom, FindRoom, GenerateRoom, ReadRoom, Go, disk, mind
  <1> QED BY <1>1 DEF Remembered, Early, Saving

(* Saving ends with the code in the file.                                  *)
LEMMA RemembersSaved ==
    ASSUME IInv, NEW r \in Runs, Remembered(r),
           CheckSaved(r) \/ RemoveSaved(r) \/ CreateSaved(r) \/ WriteSaved(r)
    PROVE  Remembered(r)'
  <1>1. /\ pc[r] \in Saving
        /\ joining' = joining /\ args' = args /\ room' = room
    BY DEF IInv, TypeOK, CheckSaved, RemoveSaved, CreateSaved, WriteSaved, Go, Saving, mind
  <1>2. CASE WriteSaved(r)
    <2>1. /\ pc'[r] = IF InLauncher(r) THEN "bind" ELSE "setup"
          /\ roomFile' = IF InLauncher(r) THEN joining[r] ELSE room[r]
      BY <1>2 DEF IInv, TypeOK, WriteSaved, Go
    <2> QED BY <1>1, <2>1 DEF Remembered, InLauncher, Early, Saving
  <1>3. CASE ~WriteSaved(r)
    <2>1. pc'[r] \in Saving
      BY <1>3 DEF IInv, TypeOK, CheckSaved, RemoveSaved, CreateSaved, Go, Saving
    <2> QED BY <1>1, <2>1 DEF Remembered, Early, Saving
  <1> QED BY <1>2, <1>3

(* The room that is joined without the setup screen is the one resolved.   *)
LEMMA RemembersLaunch ==
    ASSUME IInv, NEW r \in Runs, Remembered(r),
           Connect(r) \/ Bind(r)
    PROVE  Remembered(r)'
  <1>1. CASE Connect(r)
    <2>1. /\ pc[r] = "setup"
          /\ args' = args /\ roomFile' = roomFile
          /\ pc'[r] \in {"bind", "check"}
          /\ args[r].plain => pc'[r] = "bind" /\ joining'[r] = room[r]
      BY <1>1 DEF IInv, TypeOK, Connect, Go, disk
    <2> QED BY <2>1 DEF Remembered, Early, Saving
  <1>2. CASE Bind(r)
    <2>1. /\ pc[r] = "bind" /\ pc'[r] = "running"
          /\ UNCHANGED <<args, joining, roomFile>>
      BY <1>2 DEF IInv, TypeOK, Bind, Go, disk, mind
    <2> QED BY <2>1 DEF Remembered, Early, Saving
  <1> QED BY <1>1, <1>2

(* A failure ends a run without setup screen.                              *)
LEMMA RemembersFailing ==
    ASSUME IInv, NEW r \in Runs, Remembered(r), TryAgain(r)
    PROVE  Remembered(r)'
  <1>1. CASE Stop(r)
    BY <1>1, RemembersComing
  <1>2. CASE ~Stop(r)
    <2>1. /\ ~args[r].plain /\ args' = args
          /\ pc'[r] = "setup" /\ joining'[r] = Nothing
      BY <1>2 DEF IInv, TypeOK, TryAgain
    <2> QED BY <2>1 DEF Remembered, Saving
  <1> QED BY <1>1, <1>2

(* GivenIsRemembered: until two runs overlap, the room that a run without  *)
(* setup screen joins (resolve_room, Launcher::start) is the one the next  *)
(* start finds, however many starts, failures and kills came before.       *)
THEOREM AlwaysRemembered == Spec => []GivenIsRemembered
  <1>1. Init => Solo /\ Remembers
    BY DEF Init, Solo, Remembers, Remembered, NoArgs
  <1>2. IInv /\ Solo /\ Remembers /\ [Next]_vars => Solo' /\ Remembers'
    <2> SUFFICES ASSUME IInv, Solo, Remembers, [Next]_vars PROVE Solo' /\ Remembers'
      OBVIOUS
    <2>1. CASE UNCHANGED vars
      BY <2>1 DEF Solo, Remembers, Remembered, vars
    <2>2. ASSUME NEW r \in Runs, Step(r)
          PROVE  Solo' /\ Remembers'
      <3>1. CASE Start(r) \/ Quit(r) \/ Kill(r) \/ IdentityFails(r) \/ ReadRoomFails(r)
        BY <2>2, <3>1, RemembersComing, RemembersAll, SoloStep
            DEF Quit, Kill, IdentityFails, ReadRoomFails
      <3>2. CASE SaveFails(r) \/ BindFails(r)
        BY <2>2, <3>2, RemembersFailing, RemembersAll, SoloStep DEF SaveFails, BindFails
      <3>3. CASE \/ FindIdentity(r) \/ GenerateIdentity(r) \/ ReadIdentity(r)
                 \/ CreateIdentity(r) \/ WriteIdentity(r)
        BY <2>2, <3>3, RemembersIdentity, RemembersAll, SoloStep
      <3>4. CASE GivenRoom(r) \/ FindRoom(r) \/ GenerateRoom(r) \/ ReadRoom(r)
        BY <2>2, <3>4, RemembersRoom, RemembersAll, SoloStep
      <3>5. CASE CheckSaved(r) \/ RemoveSaved(r) \/ CreateSaved(r) \/ WriteSaved(r)
        BY <2>2, <3>5, RemembersSaved, RemembersAll, SoloStep
      <3>6. CASE Connect(r) \/ Bind(r)
        BY <2>2, <3>6, RemembersLaunch, RemembersAll, SoloStep
      <3> QED BY <2>2, <3>1, <3>2, <3>3, <3>4, <3>5, <3>6 DEF Step
    <2> QED BY <2>1, <2>2 DEF Next
  <1>3. Remembers => GivenIsRemembered
    BY DEF Remembers, Remembered, GivenIsRemembered
  <1> QED BY <1>1, <1>2, <1>3, Invariance, PTL DEF Spec

-----------------------------------------------------------------------------
(* A room that was stored.                                                 *)

(* Unless a run was killed, a code that was stored is missing from the     *)
(* file only while a run is between removing the file and creating it.     *)
Replaced ==
    kills = 0 /\ roomFile = Nothing /\ stored # Nothing => \E r \in Runs : pc[r] = "create"

(* A step that leaves the files alone, of a run that is not about to       *)
(* create the room file, forgets no room.                                  *)
LEMMA ReplacedAside ==
    ASSUME IInv, Replaced, NEW r \in Runs, NEW to,
           pc[r] # "create" \/ roomFile # Nothing,
           pc' = [pc EXCEPT ![r] = to], UNCHANGED <<roomFile, stored, kills>>
    PROVE  Replaced'
  BY DEF IInv, TypeOK, Replaced

(* Nor does a run that stops, or whose save or bind fails: only one that   *)
(* is killed may leave no file behind.                                     *)
LEMMA ReplacedStopping ==
    ASSUME IInv, Replaced, NEW r \in Runs,
           \/ Quit(r) \/ Kill(r) \/ IdentityFails(r) \/ ReadRoomFails(r)
           \/ SaveFails(r) \/ BindFails(r)
    PROVE  Replaced'
  <1>1. CASE Kill(r)
    <2>1. kills' # 0
      BY <1>1, BoundsAssumption DEF IInv, TypeOK, Kill
    <2> QED BY <2>1 DEF Replaced
  <1>2. CASE ~Kill(r)
    <2> USE <1>2 DEF Quit, IdentityFails, ReadRoomFails, SaveFails, BindFails
    <2>1. pc[r] # "create" \/ roomFile # Nothing
      OBVIOUS
    <2>2. PICK to : pc' = [pc EXCEPT ![r] = to]
      BY DEF TryAgain, Stop
    <2>3. UNCHANGED <<roomFile, stored, kills>>
      BY DEF TryAgain, Stop, disk
    <2> HIDE DEF Quit, IdentityFails, ReadRoomFails, SaveFails, BindFails
    <2> QED BY <2>1, <2>2, <2>3, ReplacedAside
  <1> QED BY <1>1, <1>2

(* Nor do the steps before and after the file is replaced.                 *)
LEMMA ReplacedStepping ==
    ASSUME IInv, Replaced, NEW r \in Runs,
           \/ Start(r) \/ FindIdentity(r) \/ GenerateIdentity(r) \/ ReadIdentity(r)
           \/ CreateIdentity(r) \/ WriteIdentity(r)
           \/ GivenRoom(r) \/ FindRoom(r) \/ GenerateRoom(r) \/ ReadRoom(r)
           \/ CheckSaved(r) \/ Connect(r) \/ Bind(r)
    PROVE  Replaced'
  <1> USE DEF Start, FindIdentity, GenerateIdentity, ReadIdentity, CreateIdentity,
          WriteIdentity, GivenRoom, FindRoom, GenerateRoom, ReadRoom, CheckSaved, Connect,
          Bind, Go
  <1>1. pc[r] # "create"
    OBVIOUS
  <1>2. PICK to : pc' = [pc EXCEPT ![r] = to]
    OBVIOUS
  <1>3. UNCHANGED <<roomFile, stored, kills>>
    BY DEF disk, count
  <1> HIDE DEF Start, FindIdentity, GenerateIdentity, ReadIdentity, CreateIdentity,
          WriteIdentity, GivenRoom, FindRoom, GenerateRoom, ReadRoom, CheckSaved, Connect,
          Bind, Go
  <1> QED BY <1>1, <1>2, <1>3, ReplacedAside

(* The three steps of a replacement: the run that removes the file is the  *)
(* one that creates it, and what it then writes is a code.                 *)
LEMMA ReplacedSaving ==
    ASSUME IInv, Replaced, NEW r \in Runs,
           RemoveSaved(r) \/ CreateSaved(r) \/ WriteSaved(r)
    PROVE  Replaced'
  <1>1. CASE RemoveSaved(r)
    BY <1>1 DEF IInv, TypeOK, RemoveSaved, Go, Replaced
  <1>2. CASE CreateSaved(r)
    BY <1>2, NothingAssumption DEF CreateSaved, Replaced
  <1>3. CASE WriteSaved(r)
    <2>1. roomFile' \in Codes
      BY <1>3 DEF IInv, TypeOK, RoomKnown, WriteSaved, InLauncher, Go, Saving
    <2> QED BY <2>1, NothingAssumption DEF Replaced
  <1> QED BY <1>1, <1>2, <1>3

(* NoneForgotten: until two runs overlap, a room is made up                *)
(* (room::load_or_create) only where none was ever stored, unless a run    *)
(* was killed between removing the file and writing it again.              *)
THEOREM NeverForgotten == Spec => NoneForgotten
  <1>1. Init => Solo /\ Replaced
    BY DEF Init, Solo, Replaced
  <1>2. IInv /\ Solo /\ Replaced /\ [Next]_vars => Solo' /\ Replaced'
    <2>1. UNCHANGED vars /\ Solo /\ Replaced => Solo' /\ Replaced'
      BY DEF Solo, Replaced, vars
    <2>2. ASSUME IInv, Solo, Replaced, NEW r \in Runs, Step(r)
          PROVE  Solo' /\ Replaced'
      BY <2>2, SoloStep, ReplacedStopping, ReplacedStepping, ReplacedSaving DEF Step
    <2> QED BY <2>1, <2>2 DEF Next
  <1>3. Solo /\ Replaced => \A r \in Runs :
            kills = 0 /\ ~crowded /\ args[r].room = Nothing /\ GenerateRoom(r)
                => stored = Nothing
    <2> SUFFICES ASSUME Solo, Replaced, kills = 0, ~crowded, stored # Nothing,
                        NEW r \in Runs, args[r].room = Nothing, GenerateRoom(r)
                 PROVE  FALSE
      OBVIOUS
    <2>1. pc[r] = "room" /\ roomFile = Nothing
      BY NothingAssumption DEF GenerateRoom, Go
    <2>2. PICK s \in Runs : pc[s] = "create"
      BY <2>1 DEF Replaced
    <2> QED BY <2>1, <2>2 DEF Solo
  <1> QED BY <1>1, <1>2, <1>3, Invariance, PTL DEF Spec, NoneForgotten
=============================================================================
