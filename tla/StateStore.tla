----------------------------- MODULE StateStore -----------------------------
(***************************************************************************)
(* Locking and durable writing of the state file                           *)
(* (crates/core/src/state/persist.rs): several runs of the program, the    *)
(* lock file they contend for, the steps of one write, the faults each     *)
(* step can end in, killed processes, power loss, the operator who removes *)
(* a stale lock the way docs/operations.md says, and a writer that does    *)
(* not take the lock (another machine, a hand edit).                       *)
(*                                                                         *)
(* Abstracted: the document is its serial and the set of changes it        *)
(* contains; what the changes are is KeyState's business.                  *)
(***************************************************************************)
EXTENDS Naturals, FiniteSets

CONSTANTS
  Run,         (* processes: each one is one invocation of a command       *)
  MaxWrites,   (* writes one run attempts                                  *)
  MaxSerial,   (* the largest serial: u64::MAX, small for TLC              *)
  MaxFaults,   (* faults (process deaths, power losses) in a behaviour     *)
  Foreign      (* when the unlocked writer may write:                      *)
               (* "never", "outside_window" (not between another writer's  *)
               (* serial check and its rename) or "always"                 *)

ASSUME StoreAssumption ==
  /\ MaxWrites \in Nat /\ MaxSerial \in Nat /\ MaxFaults \in Nat
  /\ Foreign \in {"never", "outside_window", "always"}
  /\ "foreign" \notin Run

VARIABLES
  lock,     (* whether <state>.lock exists                                 *)
  disk,     (* the document a read returns                                 *)
  synced,   (* the document a power loss leaves                            *)
  pc,       (* where each run is                                           *)
  mem,      (* the State value each run holds                              *)
  writes,   (* writes each run has begun                                   *)
  operator, (* the operator: "away", or "seen" after pgrep found no run    *)
  foreign,  (* the document the unlocked writer wrote, Empty before that   *)
  faults,   (* faults so far                                               *)
  acked,    (* history: documents whose write returned Ok                  *)
  failed    (* history: changes whose write failed before the rename       *)

file == <<disk, synced>>
history == <<acked, failed>>
vars == <<lock, disk, synced, pc, mem, writes, operator, foreign, faults,
          acked, failed>>

ForeignChange == <<"foreign", 1>>
Change == (Run \X (1 .. MaxWrites)) \cup {ForeignChange}
Document == [serial : 0 .. MaxSerial, changes : SUBSET Change]
Empty == [serial |-> 0, changes |-> {}]

(* The steps between a run's start and its end. *)
Unlocked == {"idle", "started", "ended"}
Locked == {"locked", "holding", "checked", "temporary", "renamed"}

Running(p) == pc[p] \notin {"idle", "ended"}

(* The change a run is writing: its writes-th. *)
Mine(p) == <<p, writes[p]>>

(* Slip: the document is written with the serial it was read with. *)
UnnumberedCandidate(p) == [serial |-> mem[p].serial,
                           changes |-> mem[p].changes \cup {Mine(p)}]

(* write(): the candidate is the state in memory with the next serial. *)
Candidate(p) == [serial |-> mem[p].serial + 1,
                 changes |-> mem[p].changes \cup {Mine(p)}]

Goto(p, label) == pc' = [pc EXCEPT ![p] = label]

Init ==
  /\ lock = FALSE
  /\ disk = Empty /\ synced = Empty
  /\ pc = [p \in Run |-> "idle"]
  /\ mem = [p \in Run |-> Empty]
  /\ writes = [p \in Run |-> 0]
  /\ operator = "away"
  /\ foreign = Empty
  /\ faults = 0
  /\ acked = {} /\ failed = {}

-----------------------------------------------------------------------------
(* A run takes the lock, reads, writes some number of times, releases. *)

Start(p) ==
  /\ pc[p] = "idle"
  /\ Goto(p, "started")
  /\ UNCHANGED <<lock, file, mem, writes, operator, foreign, faults, history>>

(* Slip: the lock file is opened without O_EXCL. *)
CreateLockShared(p) == lock' = TRUE /\ Goto(p, "locked")

(* StateFile::lock: O_EXCL creation decides; contention fails at once. *)
CreateLock(p) ==
  /\ ~lock
  /\ lock' = TRUE
  /\ Goto(p, "locked")

(* Slip: contention waits for the lock instead of failing. *)
AwaitLock(p) == UNCHANGED <<pc, lock>>

(* StateError::Locked *)
RefuseLock(p) == Goto(p, "ended") /\ UNCHANGED lock

Lock(p) ==
  /\ pc[p] = "started"
  /\ \/ CreateLock(p)
     \/ lock /\ RefuseLock(p)
  /\ UNCHANGED <<file, mem, writes, operator, foreign, faults, history>>

(* StateLock::read; the run works on this value from now on. *)
Read(p) ==
  /\ pc[p] = "locked"
  /\ mem' = [mem EXCEPT ![p] = disk]
  /\ Goto(p, "holding")
  /\ UNCHANGED <<lock, file, writes, operator, foreign, faults, history>>

(* Slips: no comparison with the disk; a serial that does not move when it *)
(* runs out.                                                               *)
SerialUnchecked(p) == mem[p].serial < MaxSerial
SerialUnbounded(p) == disk.serial = mem[p].serial

(* The comparison with the serial on disk and the checked_add.             *)
SerialAgrees(p) == disk.serial = mem[p].serial /\ mem[p].serial < MaxSerial

(* StateLock::write up to persist(): Conflict and SerialExhausted end the  *)
(* attempt with nothing touched and the change rolled back in memory.      *)
BeginWrite(p) ==
  /\ pc[p] = "holding"
  /\ writes[p] < MaxWrites
  /\ writes' = [writes EXCEPT ![p] = @ + 1]
  /\ IF SerialAgrees(p)
     THEN Goto(p, "checked") /\ UNCHANGED failed
     ELSE /\ failed' = failed \cup {<<p, writes[p] + 1>>}
          /\ UNCHANGED pc
  /\ UNCHANGED <<lock, file, mem, operator, foreign, faults, acked>>

(* Slip: the document is written over the old one instead of beside it. *)
WriteInPlace(p) == disk' = [disk EXCEPT !.changes = @ \cup {Mine(p)}]

(* create_temporary and write_durably: a sibling file nothing reads. *)
WriteBeside(p) == UNCHANGED disk

(* persist(), before the rename: Fault::BeforeTemp and DuringWrite leave   *)
(* the old document and no temporary file.                                 *)
WriteTemporary(p) ==
  /\ pc[p] = "checked"
  /\ \/ WriteBeside(p) /\ Goto(p, "temporary") /\ UNCHANGED failed
     \/ /\ WriteBeside(p) /\ Goto(p, "holding")
        /\ failed' = failed \cup {Mine(p)}
  /\ UNCHANGED <<lock, synced, mem, writes, operator, foreign, faults, acked>>

(* rename(2), atomic; Fault::BeforeRename and a failed rename leave the    *)
(* old document.                                                           *)
Rename(p) ==
  /\ pc[p] = "temporary"
  /\ \/ disk' = Candidate(p) /\ Goto(p, "renamed") /\ UNCHANGED failed
     \/ /\ Goto(p, "holding")
        /\ failed' = failed \cup {Mine(p)} /\ UNCHANGED disk
  /\ UNCHANGED <<lock, synced, mem, writes, operator, foreign, faults, acked>>

(* sync_directory.  Fault::AfterRename: the new document is in place, the  *)
(* write reports failure and the serial in memory stays behind, so the     *)
(* run's next write meets a Conflict.                                      *)
SyncDirectory(p) ==
  /\ pc[p] = "renamed"
  /\ Goto(p, "holding")
  /\ \/ /\ synced' = disk
        /\ mem' = [mem EXCEPT ![p] = Candidate(p)]
        /\ acked' = acked \cup {Candidate(p)}
     \/ UNCHANGED <<synced, mem, acked>>
  /\ UNCHANGED <<lock, disk, writes, operator, foreign, faults, failed>>

(* Drop for StateLock removes the file by name, whoever created it. *)
RemoveLock == lock' = FALSE

Release(p) ==
  /\ pc[p] = "holding"
  /\ RemoveLock
  /\ Goto(p, "ended")
  /\ UNCHANGED <<file, mem, writes, operator, foreign, faults, history>>

-----------------------------------------------------------------------------
(* What goes wrong around a run. *)

(* A killed process leaves the lock file behind.  A temporary file it      *)
(* leaves is never read.                                                   *)
Crash(p) ==
  /\ Running(p)
  /\ faults < MaxFaults
  /\ faults' = faults + 1
  /\ Goto(p, "ended")
  /\ UNCHANGED <<lock, file, mem, writes, operator, foreign, history>>

(* Every process dies; an unsynced rename may be undone, and so may the    *)
(* last creation or removal of the lock file.                              *)
PowerLoss ==
  /\ faults < MaxFaults
  /\ faults' = faults + 1
  /\ disk' \in {disk, synced}
  /\ synced' = disk'
  /\ lock' \in BOOLEAN
  /\ pc' = [p \in Run |-> IF Running(p) THEN "ended" ELSE pc[p]]
  /\ operator' = "away"
  /\ foreign' = IF foreign \in acked THEN foreign ELSE Empty
  /\ UNCHANGED <<mem, writes, history>>

(* docs/operations.md: pgrep finds no run; then rm removes the lock file.  *)
OperatorLooks ==
  /\ operator = "away"
  /\ lock
  /\ \A p \in Run : ~Running(p)
  /\ operator' = "seen"
  /\ UNCHANGED <<lock, file, pc, mem, writes, foreign, faults, history>>

OperatorRemovesLock ==
  /\ operator = "seen"
  /\ operator' = "away"
  /\ lock' = FALSE
  /\ UNCHANGED <<file, pc, mem, writes, foreign, faults, history>>

(* A writer on the same file that does not see the lock. *)
ForeignWrite ==
  /\ \/ Foreign = "always"
     \/ /\ Foreign = "outside_window"
        /\ \A p \in Run : pc[p] \notin {"checked", "temporary"}
  /\ foreign = Empty
  /\ disk.serial < MaxSerial
  /\ disk' = [serial |-> disk.serial + 1,
              changes |-> disk.changes \cup {ForeignChange}]
  /\ foreign' = disk'
  /\ UNCHANGED <<lock, synced, pc, mem, writes, operator, faults, history>>

ForeignSync ==
  /\ foreign # Empty /\ foreign \notin acked
  /\ synced' = disk
  /\ acked' = acked \cup {foreign}
  /\ UNCHANGED <<lock, disk, pc, mem, writes, operator, foreign, faults, failed>>

RunStep(p) ==
  \/ Lock(p)
  \/ Read(p)
  \/ BeginWrite(p)
  \/ WriteTemporary(p)
  \/ Rename(p)
  \/ SyncDirectory(p)
  \/ Release(p)

Next ==
  \/ \E p \in Run : Start(p) \/ RunStep(p) \/ Crash(p)
  \/ PowerLoss
  \/ OperatorLooks
  \/ OperatorRemovesLock
  \/ ForeignWrite
  \/ ForeignSync

Spec == Init /\ [][Next]_vars

(* A run that was started keeps executing until it ends or dies, and the   *)
(* operator gets round to a stale lock once no run is left.                *)
FairSpec ==
  /\ Spec
  /\ \A p \in Run : WF_vars(RunStep(p))
  /\ WF_vars(OperatorLooks)
  /\ WF_vars(OperatorRemovesLock)

-----------------------------------------------------------------------------
TypeOK ==
  /\ lock \in BOOLEAN
  /\ disk \in Document /\ synced \in Document
  /\ pc \in [Run -> Unlocked \cup Locked]
  /\ mem \in [Run -> Document]
  /\ writes \in [Run -> 0 .. MaxWrites + 1]
  /\ operator \in {"away", "seen"}
  /\ foreign \in Document
  /\ faults \in 0 .. MaxFaults
  /\ acked \subseteq Document
  /\ failed \subseteq Change

(* One writer at a time, though killed runs leave the lock behind, power   *)
(* losses can undo its removal and the operator removes it by name.        *)
OneWriter == \A p, q \in Run : pc[p] \in Locked /\ pc[q] \in Locked => p = q

(* A write that returned Ok is in every later document, and survives a     *)
(* power loss: nobody overwrites a change he has not read.                 *)
AcknowledgedSurvives ==
  \A d \in acked : d.changes \subseteq disk.changes
                /\ d.changes \subseteq synced.changes

(* The durability guarantee's other half: a write that failed before the   *)
(* rename left no trace, in this run or in any later document.             *)
FailedLeavesNoTrace ==
  failed \cap (disk.changes \cup synced.changes) = {}

(* The signal StateError::Conflict depends on: two documents that were     *)
(* reported durable never share a serial.                                  *)
SerialNamesOneDocument ==
  \A d, e \in acked : d.serial = e.serial => d = e

(* The lock is always released in the end, by the run that took it or, if  *)
(* that run was killed, by the operator: no sequence of deaths, power      *)
(* losses and contending runs leaves every later run locked out for ever.  *)
LockEventuallyFree == lock ~> ~lock

(* The file implements the atomic file of the module's guarantee. *)
Guarantee == INSTANCE AtomicFile WITH visible <- disk, durable <- synced
ImplementsAtomicFile == Guarantee!Spec
=============================================================================
