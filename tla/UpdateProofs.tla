---------------------------- MODULE UpdateProofs ----------------------------
(***************************************************************************)
(* Proofs about Update, for any number of updates side by side or one      *)
(* after the other, any process ids and any number of faults.              *)
(***************************************************************************)
EXTENDS Update, TLAPS

(* Two updates that run at once know of each other, and only a script that *)
(* was left alone can have the process id of another.                      *)
Apart ==
    \A u, v \in Updates :
        Active(u) /\ Active(v) /\ u # v =>
            u \in beside /\ (Pid[u] = Pid[v] => {u, v} \cap gone # {})

(* Nothing is known of a file before there is one, a file that is moved is *)
(* written, and who was not killed has the directory to itself.            *)
InTurn ==
    \A u \in Updates :
        /\ pc[u] \in {"off", "clone", "build", "stage"} => target # u /\ staged # u
        /\ pc[u] = "move" => u \in whole
        /\ u \in gone => pc[u] \in Script \cup {"interrupted"}
        /\ pc[u] = "clone" => dir[Pid[u]] = "empty"
        /\ pc[u] \in {"build", "stage"} /\ u \notin gone => HasClone(u)
        /\ pc[u] \in {"write", "move"} => staged \in {u, NoFile} \cup beside

(* What an update that has the copy to itself can rely on.                 *)
Alone ==
    \A u \in Updates \ beside :
        /\ pc[u] \in {"clone", "build", "stage", "write", "move"} =>
                Modified = before[u] /\ target # u
        /\ pc[u] \in {"write", "move"} => staged = u
        /\ pc[u] \in {"finish", "verify"} =>
                target = u /\ u \in whole /\ before[u] # Modified
        /\ pc[u] = "failed" => u \in failed

UpdateInv == TypeOK /\ Apart /\ InTurn /\ Alone /\ NoCloneBehind /\ CopyIsWhole

LEMMA Names ==
    /\ Original \notin Updates /\ NoFile \notin Updates /\ Original # NoFile
    /\ \A u \in Updates : Pid[u] \in Pids
BY UpdatesAssumption DEF Pids

LEMMA UpdateInit == Init => UpdateInv
<1>. SUFFICES ASSUME Init
              PROVE  UpdateInv
    OBVIOUS
<1>1. 0 \in 0 .. MaxFaults
    BY FaultsAssumption
<1>2. TypeOK
    BY <1>1 DEF Init, TypeOK, Files
<1>3. Apart /\ InTurn /\ Alone
    BY Names DEF Init, Apart, InTurn, Alone, Active, Script, Running
<1>4. NoCloneBehind /\ CopyIsWhole
    BY DEF Init, NoCloneBehind, CopyIsWhole
<1>. QED
    BY <1>2, <1>3, <1>4 DEF UpdateInv

-----------------------------------------------------------------------------
LEMMA TypeStep ==
    ASSUME UpdateInv, NEW w \in Updates, Step(w)
    PROVE  TypeOK'
<1>. USE Names, FaultsAssumption
        DEF UpdateInv, TypeOK, Go, Return, Dies, Fault, Script, Running, Ended, Files, Modified
<1>1. CASE Begin(w)
    <2>1. Modified \in Files \X BOOLEAN
        <3>1. target \in Files
            OBVIOUS
        <3>2. (target \in whole) \in BOOLEAN
            OBVIOUS
        <3>. QED
            BY <3>1, <3>2, Zenon
    <2>2. beside' \subseteq Updates
        BY <1>1 DEF Begin, Joined
    <2>. QED
        BY <1>1, <2>1, <2>2 DEF Begin
<1>2. CASE Clone(w) \/ CloneFails(w)
    BY <1>2 DEF Clone, CloneFails
<1>3. CASE Build(w) \/ Stage(w) \/ Write(w)
    BY <1>3 DEF Build, Stage, Write
<1>4. CASE Move(w) \/ Finish(w)
    BY <1>4 DEF Move, Finish
<1>5. CASE Bereft(w)
    BY <1>5 DEF Bereft
<1>6. CASE ScriptFails(w)
    BY <1>6 DEF ScriptFails
<1>7. CASE Verify(w) \/ VerifyFails(w)
    BY <1>7 DEF Verify, VerifyFails
<1>8. CASE Interrupt(w) \/ Kill(w)
    BY <1>8 DEF Interrupt, Kill
<1>. QED
    BY <1>1, <1>2, <1>3, <1>4, <1>5, <1>6, <1>7, <1>8 DEF Step

(* Who is running after a step was running before, or has just begun.      *)
LEMMA Others ==
    ASSUME UpdateInv, NEW w \in Updates, Step(w)
    PROVE  /\ \A v \in Updates \ {w} : pc'[v] = pc[v] /\ before'[v] = before[v]
           /\ Begin(w) \/ Active(w)
           /\ beside \subseteq beside'
           /\ failed \subseteq failed'
           /\ \A v \in Updates \ {w} : v \in gone' <=> v \in gone
           /\ \A p \in Pids \ {Pid[w]} : dir'[p] = dir[p]
           /\ ~Begin(w) => before' = before /\ beside' = beside
<1>. USE Names DEF UpdateInv, TypeOK, Go, Return, Dies, Fault, Active, Script, Running
<1>1. CASE Begin(w)
    BY <1>1 DEF Begin, Joined
<1>2. CASE Clone(w) \/ CloneFails(w) \/ Verify(w) \/ VerifyFails(w)
    BY <1>2 DEF Begin, Clone, CloneFails, Verify, VerifyFails
<1>3. CASE Build(w) \/ Stage(w) \/ Write(w) \/ Move(w) \/ Finish(w)
    BY <1>3 DEF Begin, Build, Stage, Write, Move, Finish
<1>4. CASE Bereft(w) \/ ScriptFails(w)
    BY <1>4 DEF Begin, Bereft, ScriptFails
<1>5. CASE Interrupt(w) \/ Kill(w)
    BY <1>5 DEF Begin, Interrupt, Kill
<1>. QED
    BY <1>1, <1>2, <1>3, <1>4, <1>5 DEF Step

(* Which steps write files.                                                *)
LEMMA FilesKept ==
    ASSUME UpdateInv, NEW w \in Updates, Step(w)
    PROVE  /\ whole \subseteq whole'
           /\ ~Write(w) => whole' = whole
           /\ ~Move(w) => target' = target
           /\ ~Stage(w) => staged' \in {staged, NoFile}
           /\ ~Stage(w) /\ ~Move(w) => staged' = staged
BY DEF Step, Begin, Clone, CloneFails, Build, Stage, Write, Move, Finish, Bereft, ScriptFails,
    Verify, VerifyFails, Interrupt, Kill

(* A step of a script that was left alone does nothing to the directory.   *)
LEMMA DirKept ==
    ASSUME UpdateInv, NEW w \in Updates, Step(w), w \in gone
    PROVE  dir' = dir
<1>1. pc[w] \in Script \cup {"interrupted"}
    BY DEF UpdateInv, InTurn
<1>2. ~Begin(w) /\ ~Clone(w) /\ ~CloneFails(w) /\ ~Verify(w) /\ ~VerifyFails(w)
      /\ ~Interrupt(w) /\ ~Kill(w)
    BY <1>1 DEF Script, Begin, Clone, CloneFails, Verify, VerifyFails, Interrupt, Kill, Go, Return
<1>. QED
    BY <1>2 DEF Step, Build, Stage, Write, Move, Finish, Bereft, ScriptFails, Dies

LEMMA ApartStep ==
    ASSUME UpdateInv, NEW w \in Updates, Step(w)
    PROVE  Apart'
<1>0. gone \subseteq gone'
    BY DEF Step, Begin, Clone, CloneFails, Build, Stage, Write, Move, Finish, Bereft,
        ScriptFails, Verify, VerifyFails, Interrupt, Kill
<1>1. CASE Begin(w)
    <2>1. /\ \A v \in Updates : Pid[v] = Pid[w] /\ Active(v) => v \in gone
          /\ \A v \in Updates : Active(v) => v \in beside' /\ w \in beside'
        BY <1>1 DEF Begin, Free, Joined
    <2>2. \A v \in Updates \ {w} : Active(v)' <=> Active(v)
        BY Others DEF Active
    <2>. QED
        BY <1>0, <2>1, <2>2, Others DEF Apart, UpdateInv
<1>2. CASE ~Begin(w)
    <2>1. \A v \in Updates : Active(v)' => Active(v)
        BY <1>2, Others DEF Active
    <2>. QED
        BY <1>0, <2>1, Others DEF Apart, UpdateInv
<1>. QED
    BY <1>1, <1>2

(* An update that has the copy to itself takes every step there is.        *)
LEMMA OnlyMine ==
    ASSUME UpdateInv, NEW w \in Updates, Step(w),
           NEW u \in Updates, Active(u), u \notin beside'
    PROVE  u = w
<1>1. CASE Begin(w)
    BY <1>1 DEF Begin, Joined
<1>2. CASE Active(w)
    BY <1>2, Others DEF UpdateInv, Apart
<1>. QED
    BY <1>1, <1>2, Others

(* Of an update that was not killed, no other one changes the directory.   *)
LEMMA OwnsDir ==
    ASSUME UpdateInv, NEW w \in Updates, Step(w),
           NEW u \in Updates, u # w, Active(u), u \notin gone
    PROVE  dir'[Pid[u]] = dir[Pid[u]]
<1>1. CASE Pid[u] # Pid[w]
    BY <1>1, Others, Names
<1>2. CASE Pid[u] = Pid[w]
    <2>1. ~Begin(w)
        BY <1>2 DEF Begin, Free
    <2>2. w \in gone
        BY <1>2, <2>1, Others DEF UpdateInv, Apart
    <2>. QED
        BY <2>2, DirKept
<1>. QED
    BY <1>1, <1>2

LEMMA InTurnStep ==
    ASSUME UpdateInv, NEW w \in Updates, Step(w)
    PROVE  InTurn'
<1>. SUFFICES ASSUME NEW u \in Updates
              PROVE  /\ pc'[u] \in {"off", "clone", "build", "stage"} =>
                            target' # u /\ staged' # u
                     /\ pc'[u] = "move" => u \in whole'
                     /\ u \in gone' => pc'[u] \in Script \cup {"interrupted"}
                     /\ pc'[u] = "clone" => dir'[Pid[u]] = "empty"
                     /\ pc'[u] \in {"build", "stage"} /\ u \notin gone' =>
                            dir'[Pid[u]] = "clone"
                     /\ pc'[u] \in {"write", "move"} => staged' \in {u, NoFile} \cup beside'
    BY DEF InTurn, HasClone
<1>. USE Names
<1>1. CASE u = w
    <2>. USE <1>1 DEF UpdateInv, InTurn, TypeOK, Go, Return, Dies, Fault, Active, Script,
            Running, Ended, HasClone
    <2>1. CASE Begin(w)
        BY <2>1 DEF Begin
    <2>2. CASE Clone(w) \/ CloneFails(w) \/ Verify(w) \/ VerifyFails(w)
        BY <2>2 DEF Clone, CloneFails, Verify, VerifyFails
    <2>3. CASE Build(w) \/ Stage(w)
        BY <2>3 DEF Build, Stage
    <2>4. CASE Write(w) \/ Move(w) \/ Finish(w)
        BY <2>4 DEF Write, Move, Finish
    <2>5. CASE Bereft(w) \/ ScriptFails(w)
        BY <2>5 DEF Bereft, ScriptFails
    <2>6. CASE Interrupt(w)
        BY <2>6 DEF Interrupt
    <2>7. CASE Kill(w)
        BY <2>7 DEF Kill
    <2>. QED
        BY <2>1, <2>2, <2>3, <2>4, <2>5, <2>6, <2>7 DEF Step
<1>2. CASE u # w
    <2>1. pc'[u] = pc[u] /\ (u \in gone' <=> u \in gone)
        BY <1>2, Others
    <2>2. pc[u] \in {"off", "clone", "build", "stage"} => target' # u /\ staged' # u
        BY <1>2, FilesKept DEF UpdateInv, InTurn, Stage, Move
    <2>3. pc[u] = "move" => u \in whole'
        BY FilesKept DEF UpdateInv, InTurn
    <2>4. /\ u \in gone => pc[u] \in Script \cup {"interrupted"}
          /\ pc[u] = "clone" => Active(u) /\ u \notin gone /\ dir[Pid[u]] = "empty"
          /\ pc[u] \in {"build", "stage"} /\ u \notin gone => dir[Pid[u]] = "clone"
          /\ pc[u] \in {"build", "stage", "write", "move"} => Active(u)
        BY DEF UpdateInv, InTurn, HasClone, Active, Running, Script
    <2>5. Active(u) /\ u \notin gone => dir'[Pid[u]] = dir[Pid[u]]
        BY <1>2, OwnsDir
    <2>6. pc[u] \in {"write", "move"} => staged' \in {u, NoFile} \cup beside'
        <3>1. pc[u] \in {"write", "move"} =>
                Active(u) /\ staged \in {u, NoFile} \cup beside'
            BY Others DEF UpdateInv, InTurn, Active, Running, Script
        <3>2. staged' \in {staged, NoFile} \/ (staged' = w /\ Active(w))
            BY FilesKept DEF Go, Active, Running, Script, Stage
        <3>3. Active(u) /\ Active(w) => w \in beside'
            BY <1>2, Others DEF UpdateInv, Apart
        <3>. QED
            BY <3>1, <3>2, <3>3
    <2>. QED
        BY <2>1, <2>2, <2>3, <2>4, <2>5, <2>6
<1>. QED
    BY <1>1, <1>2

(* The steps of an update that has the copy to itself.                     *)
LEMMA AloneStep ==
    ASSUME UpdateInv, NEW w \in Updates, Step(w)
    PROVE  Alone'
<1>. SUFFICES ASSUME NEW u \in Updates, u \notin beside'
              PROVE  /\ pc'[u] \in {"clone", "build", "stage", "write", "move"} =>
                            Modified' = before'[u] /\ target' # u
                     /\ pc'[u] \in {"write", "move"} => staged' = u
                     /\ pc'[u] \in {"finish", "verify"} =>
                            target' = u /\ u \in whole' /\ before'[u] # Modified'
                     /\ pc'[u] = "failed" => u \in failed'
    BY DEF Alone
<1>. USE Names
<1>1. u \notin beside
    BY Others
<1>2. CASE u # w
    <2>1. pc'[u] = pc[u] /\ ~Active(u)
        BY <1>2, Others, OnlyMine
    <2>2. pc[u] = "failed" => u \in failed'
        BY <1>1, Others DEF UpdateInv, Alone
    <2>. QED
        BY <2>1, <2>2 DEF Active, Running, Script
<1>3. CASE u = w
    <2>. USE <1>1, <1>3 DEF UpdateInv, Alone, InTurn, TypeOK, Go, Return, Fault, Script,
            Running, Ended, Modified, Active, HasClone
    <2>1. CASE Begin(w)
        BY <2>1 DEF Begin
    <2>2. CASE Clone(w) \/ CloneFails(w)
        BY <2>2 DEF Clone, CloneFails
    <2>3. CASE Build(w) \/ Stage(w)
        BY <2>3 DEF Build, Stage
    <2>4. CASE Write(w)
        BY <2>4 DEF Write
    <2>5. CASE Move(w)
        BY <2>5 DEF Move
    <2>6. CASE Finish(w)
        BY <2>6 DEF Finish
    <2>7. CASE Bereft(w)
        <3>1. w \in gone
            BY <2>7 DEF Bereft
        <3>2. pc'[w] = "interrupted"
            BY <2>7, <3>1 DEF Bereft, Dies
        <3>. QED
            BY <3>2
    <2>8. CASE ScriptFails(w)
        BY <2>8 DEF ScriptFails, Dies
    <2>9. CASE Verify(w) \/ VerifyFails(w)
        BY <2>9 DEF Verify, VerifyFails
    <2>10. CASE Interrupt(w) \/ Kill(w)
        BY <2>10 DEF Interrupt, Kill
    <2>. QED
        BY <2>1, <2>2, <2>3, <2>4, <2>5, <2>6, <2>7, <2>8, <2>9, <2>10 DEF Step
<1>. QED
    BY <1>2, <1>3

(* Whoever returns takes the directory along.                              *)
LEMMA NoCloneStep ==
    ASSUME UpdateInv, NEW w \in Updates, Step(w)
    PROVE  NoCloneBehind'
<1>. SUFFICES ASSUME NEW p \in Pids, dir'[p] # "none"
              PROVE  \E u \in Updates :
                        Pid[u] = p /\ (Active(u)' \/ pc'[u] = "interrupted")
    BY DEF NoCloneBehind
<1>. USE Names
<1>1. CASE p = Pid[w]
    <2>1. Active(w)' \/ pc'[w] = "interrupted" \/ dir'[p] = "none"
        <3>. USE <1>1 DEF UpdateInv, TypeOK, Go, Return, Dies, Fault, Active, Script, Running, Ended
        <3>1. CASE Begin(w) \/ Clone(w) \/ CloneFails(w) \/ Verify(w) \/ VerifyFails(w)
            BY <3>1 DEF Begin, Clone, CloneFails, Verify, VerifyFails
        <3>2. CASE Build(w) \/ Stage(w) \/ Write(w) \/ Move(w) \/ Finish(w)
            BY <3>2 DEF Build, Stage, Write, Move, Finish
        <3>3. CASE Bereft(w) \/ ScriptFails(w) \/ Interrupt(w) \/ Kill(w)
            BY <3>3 DEF Bereft, ScriptFails, Interrupt, Kill
        <3>. QED
            BY <3>1, <3>2, <3>3 DEF Step
    <2>. QED
        BY <1>1, <2>1
<1>2. CASE p # Pid[w]
    <2>1. PICK u \in Updates : Pid[u] = p /\ (Active(u) \/ pc[u] = "interrupted")
        BY <1>2, Others DEF UpdateInv, NoCloneBehind
    <2>2. pc'[u] = pc[u]
        BY <1>2, <2>1, Others
    <2>. QED
        BY <2>1, <2>2 DEF Active
<1>. QED
    BY <1>1, <1>2

(* What is moved is the mover's own, or was written beside it.             *)
LEMMA CopyStep ==
    ASSUME UpdateInv, NEW w \in Updates, Step(w)
    PROVE  CopyIsWhole'
<1>1. CASE Move(w)
    <2>1. target' = staged /\ staged \in {w} \cup beside /\ w \in whole /\ whole' = whole
        BY <1>1 DEF Move, Go, UpdateInv, InTurn
    <2>. QED
        BY <2>1, Others DEF CopyIsWhole
<1>2. CASE ~Move(w)
    BY <1>2, FilesKept, Others DEF UpdateInv, CopyIsWhole
<1>. QED
    BY <1>1, <1>2

-----------------------------------------------------------------------------
(* The inductive invariant: types, who runs beside whom, and what an       *)
(* update that has the copy to itself can rely on.                         *)
THEOREM Invariance == Spec => []UpdateInv
<1>1. ASSUME UpdateInv, [Next]_vars
      PROVE  UpdateInv'
    <2>1. ASSUME NEW w \in Updates, Step(w)
          PROVE  UpdateInv'
        BY <1>1, <2>1, TypeStep, ApartStep, InTurnStep, AloneStep, NoCloneStep, CopyStep
            DEF UpdateInv
    <2>2. CASE UNCHANGED vars
        BY <1>1, <2>2 DEF vars, UpdateInv, TypeOK, Apart, InTurn, Alone, NoCloneBehind,
            CopyIsWhole, Active, HasClone, Modified
    <2>. QED
        BY <1>1, <2>1, <2>2 DEF Next
<1>. QED
    BY <1>1, UpdateInit, PTL DEF Spec

(* Every variable of an update keeps its type.                             *)
THEOREM TypeCorrect == Spec => []TypeOK
<1>1. UpdateInv => TypeOK
    BY DEF UpdateInv
<1>. QED
    BY <1>1, Invariance, PTL

(* "A failed update does not leave a clone behind" (update.rs:184).        *)
THEOREM NothingBehind == Spec => []NoCloneBehind
<1>1. UpdateInv => NoCloneBehind
    BY DEF UpdateInv
<1>. QED
    BY <1>1, Invariance, PTL

(* The installed copy is whole whenever it is looked at, interrupts        *)
(* included, unless it was written beside another update                   *)
(* (install.sh:222).                                                       *)
THEOREM NeverHalfWritten == Spec => []CopyIsWhole
<1>1. UpdateInv => CopyIsWhole
    BY DEF UpdateInv
<1>. QED
    BY <1>1, Invariance, PTL

(* Nothing that an earlier update has left makes a later one fail.         *)
THEOREM AlwaysStartsOver == Spec => []StartsOver
<1>1. UpdateInv => StartsOver
    BY DEF UpdateInv, Alone, StartsOver
<1>. QED
    BY <1>1, Invariance, PTL

(* However an update that has the copy to itself comes to an end without   *)
(* success, its script before the mv, behind it, or alone (install.sh:225):*)
(* the copy is the one it found, or its own new one, whole.                *)
THEOREM NeitherLost == Spec => OldOrNew
<1>1. UpdateInv /\ [Next]_vars =>
        [\A u \in Updates \ beside :
            Active(u) /\ pc'[u] \in {"failed", "interrupted"} =>
                IF pc[u] \in {"finish", "verify"}
                THEN target' = u /\ u \in whole'
                ELSE Modified' = before[u]]_vars
    <2>. SUFFICES ASSUME UpdateInv, NEW w \in Updates, Step(w), NEW u \in Updates,
                         u \notin beside, Active(u), pc'[u] \in {"failed", "interrupted"}
                  PROVE  IF pc[u] \in {"finish", "verify"}
                         THEN target' = u /\ u \in whole'
                         ELSE Modified' = before[u]
        BY DEF Next
    <2>1. u = w
        BY Others DEF Active, Script, Running
    <2>2. ~Write(w) /\ ~Move(w)
        BY <2>1, Names DEF Write, Move, Go, UpdateInv, TypeOK
    <2>3. target' = target /\ whole' = whole
        BY <2>2, FilesKept
    <2>. QED
        BY <2>3 DEF UpdateInv, Alone, Modified, Active, Script, Running
<1>. QED
    BY <1>1, Invariance, PTL DEF Spec, OldOrNew

(* An update that has the copy to itself and comes to look at it finds     *)
(* what it built.                                                          *)
THEOREM InstallsWhatItBuilt == Spec => InstallsItsOwn
<1>1. UpdateInv /\ [Next]_vars =>
        [\A u \in Updates \ beside :
            pc[u] = "verify" /\ pc'[u] # "verify" =>
                /\ pc'[u] # "unchanged"
                /\ target' = u /\ u \in whole']_vars
    <2>. SUFFICES ASSUME UpdateInv, NEW w \in Updates, Step(w), NEW u \in Updates,
                         u \notin beside, pc[u] = "verify", pc'[u] # "verify"
                  PROVE  pc'[u] # "unchanged" /\ target' = u /\ u \in whole'
        BY DEF Next
    <2>1. u = w
        BY Others
    <2>2. ~Write(w) /\ ~Move(w) /\ (Verify(w) \/ VerifyFails(w) \/ Interrupt(w))
        BY <2>1, Names DEF UpdateInv, TypeOK, Go, Return, Dies, Script, Step, Begin, Clone,
            CloneFails, Build, Stage, Write, Move, Finish, Bereft, ScriptFails, Kill
    <2>3. target' = target /\ whole' = whole
        BY <2>2, FilesKept
    <2>4. target = u /\ u \in whole /\ before[u] # Modified
        BY DEF UpdateInv, Alone
    <2>5. pc'[u] # "unchanged"
        BY <2>1, <2>2, <2>4 DEF Verify, VerifyFails, Interrupt, Return, Go, UpdateInv, TypeOK
    <2>. QED
        BY <2>3, <2>4, <2>5
<1>. QED
    BY <1>1, Invariance, PTL DEF Spec, InstallsItsOwn
=============================================================================
