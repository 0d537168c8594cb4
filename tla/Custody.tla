------------------------------ MODULE Custody ------------------------------
(***************************************************************************)
(* What the commands that handle credentials act on: the ledger as a run   *)
(* finds it on disk, the run itself, and the keys OpenRouter holds.  The   *)
(* lock admits one run at a time (StateStore shows that), so there is at   *)
(* most one; the ledger as that run holds it in memory is the one on disk, *)
(* except after a write whose directory could not be synced.               *)
(*                                                                         *)
(* Every request is one step that chooses both what OpenRouter does and    *)
(* what the run is told: an answer can be lost, a request can be applied   *)
(* after its answer was given up on, and a success is not yet evidence.    *)
(***************************************************************************)
EXTENDS KeyLedger

CONSTANT MaxFaults   (* mishaps (below) in a behaviour *)

ASSUME MaxFaultsAssumption == MaxFaults \in Nat

VARIABLES
  disk,       (* the ledger a read of the state file returns               *)
  synced,     (* the ledger a power loss leaves                            *)
  run,        (* the command holding the lock, None when there is none     *)
  remote,     (* the keys OpenRouter holds                                 *)
  inflight,   (* creation attempts OpenRouter may yet apply                *)
  plaintext,  (* history: how far each key's plaintext went                *)
  waived,     (* history: attempts an operator took responsibility for, by *)
              (* attesting what became of them or forgetting their address *)
  faults      (* mishaps so far                                            *)

ledger == <<disk, synced>>
world == <<remote, inflight, plaintext>>
vars == <<disk, synced, run, remote, inflight, plaintext, waived, faults>>

(* A mishap is a step after which the run knows less than, or something    *)
(* else than, what happened: a write that fails, an answer that is lost,   *)
(* an accepted request without effect.  A plain refusal is none, nor is a  *)
(* killed process.                                                         *)
Mishap == faults < MaxFaults /\ faults' = faults + 1
Plain == UNCHANGED faults


(* One POST /keys: the operation it was journaled as, and its address,     *)
(* whose display name the key carries.                                     *)
Attempt == [id : OpId, addr : Address]

Restriction == {"settings", "guardrail"}
Live == {"enabled", "disabled"}
RemoteKey == [life : Live \cup {"none", "gone", "vanished"},
              secured : SUBSET Restriction,
              maker : Attempt \cup {None}]
NoRemoteKey == [life |-> "none", secured |-> {}, maker |-> None]

Exists(h) == remote[h].life \in Live

Command == {"apply", "rotate", "resolve", "replace", "retire", "delete",
            "decommission", "forget", "import"}

(* The lock is free: a command may start.  What a command does before its  *)
(* first request or write is one step with it, since nothing else can      *)
(* change the ledger meanwhile.                                            *)
Idle == run = None

(* A run: where it is (pc), the address and hash it works on, the attempt  *)
(* it is making, the addresses it has yet to issue a key for, whether its  *)
(* memory still agrees with the disk, what a disable established, and      *)
(* where it goes once that is known.                                       *)
RunAt(cmd, pc, a, h, todo) ==
  [cmd |-> cmd, pc |-> pc, addr |-> a, hash |-> h, id |-> None,
   todo |-> todo, fresh |-> TRUE, verdict |-> None, then |-> "end"]

At(pc) == run # None /\ run.pc = pc
Goto(pc) == [run EXCEPT !.pc = pc]

(* disable_and_confirm, to be followed by `then`. *)
GotoDisable(me, then) == [me EXCEPT !.pc = "disable", !.then = then]
Ended == None

-----------------------------------------------------------------------------
(* Issuer::journal, and every `lock.write(..)?` beside it: the mutation is *)
(* refused, or written, or rolled back.  A write that fails after the      *)
(* rename leaves the disk ahead of the memory that was rolled back, and    *)
(* every later write of that run meets the serial comparison.              *)
JournalAs(me, can, next, done, otherwise) ==
  \/ /\ can /\ me.fresh
     /\ disk' = next /\ synced' = next
     /\ run' = done
     /\ Plain
  \/ /\ can /\ me.fresh
     /\ disk' = next /\ UNCHANGED synced
     /\ run' = IF otherwise = Ended THEN Ended
               ELSE [otherwise EXCEPT !.fresh = FALSE]
     /\ Mishap
  \/ /\ UNCHANGED ledger
     /\ run' = otherwise
     /\ IF can /\ me.fresh THEN Mishap ELSE Plain

Journal(can, next, done, otherwise) ==
  JournalAs(run, can, next, done, otherwise)

(* The attempts with these identifiers are the operator's to answer for    *)
(* once the write that says so is on disk.                                 *)
Answered(ids) ==
  waived' = IF disk' = disk THEN waived ELSE waived \cup ids

(* The mutations of the run's own address. *)
JournalAdvance(t, done, otherwise) ==
  Journal(CanAdvanceKey(disk, run.addr, t, run.hash),
          AdvanceKey(disk, run.addr, t, run.hash), done, otherwise)

(* The retained entry of the run's hash, and the write of its new status.  *)
Entry == CHOOSE r \in disk[run.addr].retained : r.hash = run.hash
HasEntry == /\ Bound(disk, run.addr)
            /\ \E r \in disk[run.addr].retained : r.hash = run.hash

JournalStatus(status, done, otherwise) ==
  Journal(HasEntry, SetRetainedStatus(disk, run.addr, Entry, status),
          done, otherwise)

-----------------------------------------------------------------------------
(* An idempotent write about the run's key: applied and answered, refused, *)
(* or one of the two without the other.                                    *)
Request(applied, answered, unanswered) ==
  \/ remote' = applied /\ run' = answered /\ Plain
  \/ remote' = remote /\ run' = unanswered /\ Plain
  \/ remote' = applied /\ run' = unanswered /\ Mishap
  \/ remote' = remote /\ run' = answered /\ Mishap

Switched(h, life) == [remote EXCEPT ![h].life = life]

(* disable_and_confirm: a PATCH whose own answer proves nothing, then a    *)
(* read.  A 404 from either is the strongest proof.                        *)
Concluded(me, verdict) == [me EXCEPT !.pc = me.then, !.verdict = verdict]

Dead == {"disabled", "absent"}
Verdict == Dead \cup {"unproven"}

(* Slip: the PATCH's answer is taken for the fact. *)
TrustDisable(me) == Concluded(me, "disabled")
ReadBack(me) == [me EXCEPT !.pc = "confirm"]

Disable(me) ==
  /\ \/ Exists(me.hash) /\ Request(Switched(me.hash, "disabled"),
                                  ReadBack(me), Concluded(me, "unproven"))
     \/ /\ ~Exists(me.hash)
        /\ run' \in {Concluded(me, "absent"), Concluded(me, "unproven")}
        /\ UNCHANGED <<remote, faults>>
  /\ UNCHANGED <<ledger, inflight, plaintext, waived>>

DisableTracked == At("disable") /\ Disable(run)

ConfirmDisabled ==
  /\ At("confirm")
  /\ \/ /\ run' = Concluded(run,
             IF ~Exists(run.hash) THEN "absent"
             ELSE IF remote[run.hash].life = "disabled" THEN "disabled"
             ELSE "unproven")
        /\ Plain
     \/ run' = Concluded(run, "unproven") /\ Mishap
  /\ UNCHANGED <<ledger, world, waived>>

(* A command that succeeds, or fails beside a result, prints a document    *)
(* that says one of these of its key; the lock is given up with it.        *)
Said == {"promoted", "unpromoted", "retired", "retirement_failed",
         "failed_candidate", "untracked", "current", "cleared", "released",
         "bound"}

Reporting(me, said) == [me EXCEPT !.pc = "report", !.verdict = said]

Report ==
  /\ At("report")
  /\ run' = Ended
  /\ UNCHANGED <<ledger, world, waived, faults>>

(* A run that has nothing left to do gives up the lock. *)
End ==
  /\ At("end")
  /\ run' = Ended
  /\ UNCHANGED <<ledger, world, waived, faults>>
=============================================================================
