----------------------------- MODULE Keymaster -----------------------------
(***************************************************************************)
(* The credential commands of the program together, one run at a time, in  *)
(* any order an operator may run them, with what happens around them:      *)
(* killed processes, power loss, requests applied late, keys deleted in    *)
(* OpenRouter's console.                                                   *)
(***************************************************************************)
EXTENDS Reports

CONSTANT Preexisting    (* keys OpenRouter holds that no run created       *)

Init ==
  /\ disk = NoKeys /\ synced = NoKeys
  /\ run = None
  /\ remote = [h \in Hash |-> IF h \in Preexisting
                              THEN [NoRemoteKey EXCEPT !.life = "enabled"]
                              ELSE NoRemoteKey]
  /\ inflight = {}
  /\ plaintext = [h \in Hash |-> "unseen"]
  /\ waived = {}
  /\ faults = 0

-----------------------------------------------------------------------------
(* A killed process: whatever it had not written is gone, and so is the    *)
(* plaintext it held.                                                      *)
Crash ==
  /\ run # None
  /\ run' = None
  /\ UNCHANGED <<ledger, world, waived, faults>>

(* The machine stops: a rename that was not synced survives or does not.   *)
PowerLoss ==
  /\ disk # synced
  /\ run' = None
  /\ \/ synced' = disk /\ UNCHANGED disk
     \/ disk' = synced /\ UNCHANGED synced
  /\ UNCHANGED <<world, waived, faults>>

(* OpenRouter applies a creation nobody waits for any more. *)
LateCreate ==
  /\ \E attempt \in inflight :
       /\ \E h \in Hash : MakeKey(h, attempt)
       /\ inflight' = inflight \ {attempt}
  /\ UNCHANGED <<ledger, run, plaintext, waived, faults>>

ConsoleDelete ==
  /\ \E h \in Hash :
       /\ Exists(h)
       /\ remote' = [remote EXCEPT ![h].life = "vanished"]
  /\ Mishap
  /\ UNCHANGED <<ledger, run, inflight, plaintext, waived>>

RunStep == IssueStep \/ Plan \/ NothingToIssue \/ RecordCleanUp \/ LifecycleStep

Next ==
  \/ \E a \in Address : StartRecovery(a) \/ StartLifecycle(a)
  \/ RunStep
  \/ Crash
  \/ PowerLoss
  \/ LateCreate
  \/ ConsoleDelete

Spec == Init /\ [][Next]_vars

(* A run goes on until it ends or is killed, and an operator eventually    *)
(* does what the reports say about a standing operation, and nothing else  *)
(* about it, however often other commands get there first.  That those     *)
(* commands succeed is not assumed: only mishaps are bounded.              *)
FairSpec ==
  /\ Spec
  /\ WF_vars(RunStep)
  /\ \A a \in Address : SF_vars(FollowAdvice(a))

-----------------------------------------------------------------------------
PhaseOfRun == {"plan", "begin", "post", "abandon",
  "doubt_create", "record", "settings", "assign", "verify", "secured",
  "start_delivery", "deliver", "acknowledge", "promote", "reject",
  "doubt_delivery", "cleaned", "disable", "confirm", "end",
  "retired", "report", "delete", "confirm_delete", "drop", "keep", "decommissioned",
  "decommissioned_delete"}

RunState == [cmd : Command, pc : PhaseOfRun, addr : Address,
             hash : Hash \cup {None}, id : OpId \cup {None},
             todo : SUBSET Address, fresh : BOOLEAN,
             verdict : Verdict \cup Said \cup {None}, then : PhaseOfRun]

TypeOK ==
  /\ disk \in Keys /\ synced \in Keys
  /\ run \in RunState \cup {None}
  /\ remote \in [Hash -> RemoteKey]
  /\ inflight \subseteq Attempt
  /\ plaintext \in [Hash -> {"unseen", "handed", "delivered"}]
  /\ waived \subseteq OpId
  /\ faults \in 0 .. MaxFaults

(* A ledger accounts for an attempt: the key it made is owned, or its      *)
(* operation still stands with no hash.                                    *)
Stands(k, id) == \E a \in Address : /\ PendingIn(k, a, HashlessPhase)
                                    /\ k[a].pending.id = id

(* A live credential is never one no local record leads to: whatever was   *)
(* lost, killed or applied late, each key a run created (or may yet have   *)
(* created) is owned by an address or is what a standing operation asks an *)
(* operator about, until an operator has answered for it.                  *)
NoSilentOrphan ==
  /\ \A h \in Hash :
       Exists(h) /\ remote[h].maker # None
         => LET id == remote[h].maker.id
            IN id \in waived \/ \A k \in Ledgers : Owned(k, h) \/ Stands(k, id)
  /\ \A t \in inflight :
       t.id \in waived \/ \A k \in Ledgers : Stands(k, t.id)

(* A plaintext reaches a receiver only once the key carries the            *)
(* restrictions and the guardrail it is configured with, whatever the      *)
(* answers to the requests said.                                           *)
ExposedIsRestricted ==
  \A h \in Hash : plaintext[h] # "unseen" => remote[h].secured = Restriction

(* The key an address uses, if a run issued it, is one whose plaintext is  *)
(* at its destination: no lost acknowledgement, crash or fast-forward      *)
(* makes current a key nobody holds.                                       *)
CurrentWasDelivered ==
  \A k \in Ledgers : \A a \in Address :
    Bound(k, a) /\ k[a].current # None /\ k[a].current.receiver # None
      => plaintext[k[a].current.hash] = "delivered"

(* Whatever a command reports of its key is so, on disk and at OpenRouter: *)
(* a successor called promoted is the address's key, in every ledger a     *)
(* power loss may leave, and its plaintext is at the destination; one      *)
(* called unpromoted is what the next apply promotes, and no power loss    *)
(* takes that away; a key called retired cannot be used and one called     *)
(* untracked does not exist.                                               *)
ReportedIsSo == At("report") => Holds(run.verdict, run.addr, run.hash)

(* A hash the ledger calls retired cannot be used.                         *)
RetiredIsDead ==
  \A k \in Ledgers : \A a \in Address : Bound(k, a) =>
    \A r \in k[a].retained :
      r.status = "retired" => remote[r.hash].life # "enabled"

(* Runs disable and delete only as asked: a current key only by a          *)
(* decommission, and a key whose plaintext a destination holds never in    *)
(* the course of an apply or a rotation, however those fail.               *)
Killed(h) == remote[h].life = "enabled" /\ remote'[h].life \in {"disabled", "gone"}

ServingKeyKilledOnlyOnRequest ==
  [][\A h \in Hash : Killed(h) =>
       /\ (\E a \in Address : /\ Bound(disk, a) /\ disk[a].current # None
                              /\ disk[a].current.hash = h)
            => run'.cmd = "decommission"
       /\ plaintext[h] = "delivered" => run'.cmd \notin {"apply", "rotate"}]_vars

(* No request is sent about a key that the ledger on disk does not name:   *)
(* its hash is recorded before any follow-up call.                         *)
FollowUpOnlyOnTrackedKeys ==
  [][\A h \in Hash :
       \/ Killed(h)
       \/ Exists(h) /\ remote'[h].secured # remote[h].secured
       => Owned(disk, h)]_vars

(* Every operation is settled by an operator who follows the advice: in    *)
(* whatever phase it was left, the command the reports name for that phase *)
(* is one that accepts it, and ends it.                                    *)
OperationAt(a, id) == IsPending(disk, a) /\ disk[a].pending.id = id

EveryOperationSettles ==
  \A a \in Address, id \in OpId : OperationAt(a, id) ~> ~OperationAt(a, id)
=============================================================================
