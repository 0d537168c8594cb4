------------------------------ MODULE Recovery ------------------------------
(***************************************************************************)
(* The commands that start an issuance or settle one that did not finish:  *)
(* apply (crates/core/src/ops/apply.rs, with the planner's decisions about *)
(* keys in crates/core/src/plan/mod.rs), rotate (ops/rotate.rs) and        *)
(* recover resolve / replace (ops/recover.rs).                             *)
(***************************************************************************)
EXTENDS Issuance

(* The binding of a on disk has an operation in one of these phases. *)
InPhase(a, phases) == PendingIn(disk, a, phases)

-----------------------------------------------------------------------------
(* apply.  fast_forward promotes a delivered operation before planning.   *)
FastForward(a) ==
  /\ Idle
  /\ InPhase(a, {"delivered"})
  /\ JournalAs(RunAt("apply", "plan", a, None, {}),
               CanPromoteKey(disk, a), PromoteKey(disk, a),
               RunAt("apply", "plan", a, None, {}), Ended)
  /\ UNCHANGED <<world, waived>>

(* unowned_keys_named: a live key OpenRouter shows under the address's     *)
(* name that no address owns asks for adoption, never for a create.        *)
NameTaken(a) ==
  \E h \in Hash : /\ Exists(h) /\ remote[h].maker # None
                  /\ remote[h].maker.addr = a
                  /\ ~Owned(disk, h)

(* plan_key, for a key the configuration gives a receiver: Create, or      *)
(* Replace when the configuration asks for a successor.  A current key     *)
(* OpenRouter does not show is Missing and never recreated.                *)
Issuable(a) ==
  IF Bound(disk, a) /\ disk[a].current # None
  THEN Exists(disk[a].current.hash)
  ELSE ~NameTaken(a)

(* An operation in any phase holds every issuance back: RecoveryRequired   *)
(* blocks the plan, a secured one every other create, a delivered one a    *)
(* bound run.  Which keys are configured, and which of them have drifted   *)
(* past patching, is the configuration's choice.                           *)
Plan ==
  /\ Idle \/ At("plan")
  /\ NothingPending(disk)
  /\ \E todo \in SUBSET {a \in Address : Issuable(a)}, a \in Address :
       /\ a \in todo
       /\ Begin(RunAt("apply", "begin", a, None, todo \ {a}))

NothingToIssue ==
  /\ At("plan")
  /\ run' = Ended
  /\ UNCHANGED <<ledger, world, waived, faults>>

Rotate(a) ==
  /\ Idle
  /\ NothingPending(disk)
  /\ Bound(disk, a) /\ disk[a].current # None
  /\ Begin(RunAt("rotate", "begin", a, None, {}))

-----------------------------------------------------------------------------
(* recover resolve: an operator's word about an ambiguous create.          *)

(* The operator answers for the attempt from here on, right or wrong. *)
ResolveAbsence(a) ==
  /\ Idle
  /\ IsPending(disk, a)
  /\ LET me == RunAt("resolve", "report", a, None, {})
     IN JournalAs(me, CanClearAmbiguous(disk, a), DropPending(disk, a),
                  Reporting(me, "cleared"), Ended)
  /\ Answered({disk[a].pending.id})
  /\ UNCHANGED world

(* The key is fetched by the exact hash the operator names, and tracked    *)
(* before anything is sent about it.                                       *)
ResolveLeaked(a, h) ==
  /\ Idle
  /\ InPhase(a, HashlessPhase)
  /\ Exists(h)
  /\ LET me == RunAt("resolve", "leak", a, h, {})
     IN JournalAs(me, CanRetainLeaked(disk, a, h), RetainPending(disk, a, h),
                  GotoDisable(me, "cleaned"), Ended)
  /\ Answered({disk[a].pending.id})
  /\ UNCHANGED world

(* recover replace: check_replaceable, preflight, then close the dead      *)
(* operation, clean up its key, and issue the successor.                   *)
Replaceable == HashedPhase \ {"delivered"}

RetireDead(a) ==
  /\ Idle
  /\ InPhase(a, Replaceable)
  /\ Successor(a) # None
  /\ LET me == RunAt("replace", "retire_candidate", a, disk[a].pending.hash, {})
     IN JournalAs(me, CanRetireCandidate(disk, a), RetireCandidate(disk, a),
                  GotoDisable(me, "cleaned"), Ended)
  /\ UNCHANGED <<world, waived>>

Proven == run.verdict \in Dead

AfterCleanUp(status) ==
  IF run.cmd = "replace" THEN RunAt("replace", "begin", run.addr, None, {})
  ELSE Reporting(run, status)

(* clean_up *)
RecordCleanUp ==
  /\ At("cleaned")
  /\ \/ Proven /\ JournalStatus("retired", AfterCleanUp("retired"), Ended)
     \/ /\ ~Proven /\ run' = AfterCleanUp("failed_candidate")
        /\ UNCHANGED <<ledger, faults>>
  /\ UNCHANGED <<world, waived>>

StartRecovery(a) ==
  \/ FastForward(a)
  \/ Rotate(a)
  \/ ResolveAbsence(a)
  \/ \E h \in Hash : ResolveLeaked(a, h)
  \/ RetireDead(a)
=============================================================================
