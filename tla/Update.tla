------------------------------- MODULE Update -------------------------------
(***************************************************************************)
(* chat update (src/src/update.rs), and the part of install.sh that it     *)
(* runs: clone into a directory of its own, build, write the new copy      *)
(* beside the old one, move it into place, say so, look whether that has   *)
(* changed the copy that is running.                                       *)
(*                                                                         *)
(* Updates of one copy may run side by side.  A file is known by who wrote *)
(* it (its inode): a name can be given to another file while that one is   *)
(* still being written.  The script is a process of its own: it may end    *)
(* with an error anywhere, also when the copy is in place, and it goes on  *)
(* when the update that started it is killed.                              *)
(***************************************************************************)
EXTENDS Naturals, FiniteSets

CONSTANTS
    Updates,   \* the runs of chat update
    Pid,       \* the process id of each, which names its directory
    MaxFaults, \* how many times a tool, the disk or a pipe fails or a process
               \* is killed (a bound)
    Original,  \* the copy that was there first
    NoFile

ASSUME UpdatesAssumption == {Original, NoFile} \cap Updates = {} /\ Original # NoFile
ASSUME FaultsAssumption == MaxFaults \in Nat

VARIABLES
    pc,      \* what each update does next, or how it ended
    dir,     \* the directory of each process id: "none", "empty" or "clone"
    target,  \* the file that is the installed copy
    staged,  \* the file under its name with .new appended
    whole,   \* the files that are completely written
    before,  \* what each update noted of the copy that was there
    beside,  \* the updates that did not have the copy to themselves
    gone,    \* the updates that were killed, though their script may go on
    failed,  \* the updates to which something was done by the outside
    faults   \* how many times there was such a fault

vars == <<pc, dir, target, staged, whole, before, beside, gone, failed, faults>>

Files == Updates \cup {Original}
Pids  == {Pid[u] : u \in Updates}

Script  == {"build", "stage", "write", "move", "finish"}
Running == Script \cup {"clone", "verify"}
Ended   == {"updated", "failed", "unchanged"}
Active(u) == pc[u] \in Running

(* What modified tells apart: another file, or more written to it.         *)
Modified == <<target, target \in whole>>

Init ==
    /\ pc = [u \in Updates |-> "off"]
    /\ dir = [p \in Pids |-> "none"]
    /\ target = Original
    /\ staged = NoFile
    /\ whole = {Original}
    /\ before = [u \in Updates |-> <<Original, TRUE>>]
    /\ beside = {}
    /\ gone = {}
    /\ failed = {}
    /\ faults = 0

-----------------------------------------------------------------------------
Go(u, from, to) ==
    /\ pc[u] = from
    /\ pc' = [pc EXCEPT ![u] = to]

(* run returns, or panics; either way it drops the TempDir.                *)
Return(u, from, how) ==
    /\ Go(u, from, how)
    /\ dir' = [dir EXCEPT ![Pid[u]] = "none"]

Fault(u) ==
    /\ faults < MaxFaults
    /\ faults' = faults + 1
    /\ failed' = failed \cup {u}

(* No update of this process id is running; a script may be.               *)
Free(p) == \A v \in Updates : Pid[v] = p /\ Active(v) => v \in gone

(* Whoever runs is beside u from now on, and u beside them.                *)
Joined(u) ==
    LET others == {v \in Updates : Active(v)}
    IN  IF others = {} THEN beside ELSE beside \cup others \cup {u}

(* Mistake: the directory is created unless there is one.                  *)
BeginOver(u) ==
    /\ Free(Pid[u])
    /\ Go(u, "off", "clone")
    /\ before' = [before EXCEPT ![u] = Modified]
    /\ dir' = [dir EXCEPT ![Pid[u]] = IF @ = "none" THEN "empty" ELSE @]
    /\ beside' = Joined(u)
    /\ UNCHANGED <<target, staged, whole, gone, failed, faults>>

(* The copy is looked at, and TempDir::new makes an empty directory.  An   *)
(* earlier update may have left one under the same process id.             *)
Begin(u) ==
    /\ Free(Pid[u])
    /\ Go(u, "off", "clone")
    /\ before' = [before EXCEPT ![u] = Modified]
    /\ dir' = [dir EXCEPT ![Pid[u]] = "empty"]
    /\ beside' = Joined(u)
    /\ UNCHANGED <<target, staged, whole, gone, failed, faults>>

(* git does not clone into a directory that has something in it.           *)
Clone(u) ==
    /\ IF dir[Pid[u]] = "empty"
       THEN Go(u, "clone", "build") /\ dir' = [dir EXCEPT ![Pid[u]] = "clone"]
       ELSE Return(u, "clone", "failed")
    /\ UNCHANGED <<target, staged, whole, before, beside, gone, failed, faults>>

(* Mistake: the directory is removed at the end of run, and not by Drop.   *)
CloneFailsLeaving(u) ==
    /\ Fault(u)
    /\ Go(u, "clone", "failed")
    /\ UNCHANGED <<dir, target, staged, whole, before, beside, gone>>

CloneFails(u) ==
    /\ Fault(u)
    /\ Return(u, "clone", "failed")
    /\ UNCHANGED <<target, staged, whole, before, beside, gone>>

-----------------------------------------------------------------------------
(* install.sh.                                                             *)

(* The script ends with an error, and so do install and run, if they are   *)
(* there to see it.                                                        *)
Dies(u) ==
    \E from \in Script :
        IF u \in gone
        THEN Go(u, from, "interrupted") /\ UNCHANGED dir
        ELSE Return(u, from, "failed")

HasClone(u) == dir[Pid[u]] = "clone"

Build(u) ==
    /\ HasClone(u)
    /\ Go(u, "build", "stage")
    /\ UNCHANGED <<dir, target, staged, whole, before, beside, gone, failed, faults>>

(* Mistake: the new copy is installed under the name it is to have.        *)
StageInPlace(u) ==
    /\ HasClone(u)
    /\ Go(u, "stage", "write")
    /\ target' = u
    /\ staged' = u
    /\ UNCHANGED <<dir, whole, before, beside, gone, failed, faults>>

(* Mistake: a file that is there already is taken for the new copy.        *)
StageUnlessThere(u) ==
    /\ HasClone(u)
    /\ Go(u, "stage", IF staged = NoFile THEN "write" ELSE "move")
    /\ staged' = IF staged = NoFile THEN u ELSE staged
    /\ UNCHANGED <<dir, target, whole, before, beside, gone, failed, faults>>

(* install takes the name from whatever file has it ...                    *)
Stage(u) ==
    /\ HasClone(u)
    /\ Go(u, "stage", "write")
    /\ staged' = u
    /\ UNCHANGED <<dir, target, whole, before, beside, gone, failed, faults>>

(* ... and copies the build into its own, whatever has become of the name. *)
Write(u) ==
    /\ Go(u, "write", "move")
    /\ whole' = whole \cup {u}
    /\ UNCHANGED <<dir, target, staged, before, beside, gone, failed, faults>>

Move(u) ==
    /\ staged # NoFile
    /\ Go(u, "move", "finish")
    /\ target' = staged
    /\ staged' = NoFile
    /\ UNCHANGED <<dir, whole, before, beside, gone, failed, faults>>

(* The rest is only said; the script ends with status 0.                   *)
Finish(u) ==
    /\ Go(u, "finish", IF u \in gone THEN "interrupted" ELSE "verify")
    /\ UNCHANGED <<dir, target, staged, whole, before, beside, gone, failed, faults>>

(* What a step needs is no longer there: the file was moved by another     *)
(* update, or the clone of a script that is alone was removed by one that  *)
(* got the same process id.                                                *)
Bereft(u) ==
    /\ \/ pc[u] \in {"build", "stage"} /\ ~HasClone(u)
       \/ pc[u] = "move" /\ staged = NoFile
    /\ Dies(u)
    /\ UNCHANGED <<target, staged, whole, before, beside, gone, failed, faults>>

(* The build, the disk, or a pipe that is written to fails under set -eu,  *)
(* or the script is killed: at any of its steps, the last one included.    *)
ScriptFails(u) ==
    /\ Fault(u)
    /\ Dies(u)
    /\ UNCHANGED <<target, staged, whole, before, beside, gone>>

-----------------------------------------------------------------------------
Verify(u) ==
    /\ Return(u, "verify", IF Modified = before[u] THEN "unchanged" ELSE "updated")
    /\ UNCHANGED <<target, staged, whole, before, beside, gone, failed, faults>>

(* println! panics when nobody reads any longer what it prints.            *)
VerifyFails(u) ==
    /\ Fault(u)
    /\ Return(u, "verify", "failed")
    /\ UNCHANGED <<target, staged, whole, before, beside, gone>>

(* The update is killed with what it has started, git in the middle of its *)
(* clone perhaps; nothing is dropped.                                      *)
Interrupt(u) ==
    /\ Active(u) /\ u \notin gone
    /\ Fault(u)
    /\ pc' = [pc EXCEPT ![u] = "interrupted"]
    /\ dir' \in {dir, [dir EXCEPT ![Pid[u]] = "clone"]}
    /\ UNCHANGED <<target, staged, whole, before, beside, gone>>

(* The update is killed, and its script goes on: by itself it does not     *)
(* stop for a Ctrl-C either, its trap does not exit.                       *)
Kill(u) ==
    /\ pc[u] \in Script /\ u \notin gone
    /\ Fault(u)
    /\ gone' = gone \cup {u}
    /\ UNCHANGED <<pc, dir, target, staged, whole, before, beside>>

Step(u) ==
    \/ Begin(u) \/ Clone(u) \/ CloneFails(u)
    \/ Build(u) \/ Stage(u) \/ Write(u) \/ Move(u) \/ Finish(u)
    \/ Bereft(u) \/ ScriptFails(u)
    \/ Verify(u) \/ VerifyFails(u) \/ Interrupt(u) \/ Kill(u)

Next == \E u \in Updates : Step(u)

Spec == Init /\ [][Next]_vars

-----------------------------------------------------------------------------
(* Properties.                                                             *)

TypeOK ==
    /\ pc \in [Updates -> Running \cup Ended \cup {"off", "interrupted"}]
    /\ dir \in [Pids -> {"none", "empty", "clone"}]
    /\ target \in Files
    /\ staged \in Files \cup {NoFile}
    /\ whole \subseteq Files
    /\ before \in [Updates -> Files \X BOOLEAN]
    /\ beside \subseteq Updates
    /\ gone \subseteq Updates
    /\ failed \subseteq Updates
    /\ faults \in 0 .. MaxFaults

(* "A failed update does not leave a clone behind" (update.rs:184): the    *)
(* directories that are there belong to an update that is running or was   *)
(* interrupted.                                                            *)
NoCloneBehind ==
    \A p \in Pids : dir[p] # "none" =>
        \E u \in Updates : Pid[u] = p /\ (Active(u) \/ pc[u] = "interrupted")

(* "An existing copy is never left half-written if this is interrupted     *)
(* mid-write" (install.sh:222), unless it was written by an update that    *)
(* had another one beside it.                                              *)
CopyIsWhole == target \in whole \cup beside

(* "The update failed; your existing copy is untouched" (update.rs:169),   *)
(* said when the script ended with an error.                               *)
FailsUntouched ==
    [][\A u \in Updates :
        pc[u] \in Script /\ pc'[u] = "failed" => Modified' = before[u]]_vars

(* What is true instead, of every way in which an update that has the copy *)
(* to itself may end without success: until the script is past its mv the  *)
(* copy is as it was found, and from then on it is this update's own and   *)
(* whole.                                                                  *)
OldOrNew ==
    [][\A u \in Updates \ beside :
        Active(u) /\ pc'[u] \in {"failed", "interrupted"} =>
            IF pc[u] \in {"finish", "verify"}
            THEN target' = u /\ u \in whole'
            ELSE Modified' = before[u]]_vars

(* What an interrupted update has left does not stand in the way of a      *)
(* later one: it fails only if something outside fails, ...                *)
StartsOver == \A u \in Updates : pc[u] = "failed" => u \in failed \cup beside

(* ... and what it finds installed in the end is what it has built.        *)
InstallsItsOwn ==
    [][\A u \in Updates \ beside :
        pc[u] = "verify" /\ pc'[u] # "verify" =>
            /\ pc'[u] # "unchanged"
            /\ target' = u /\ u \in whole']_vars
=============================================================================
