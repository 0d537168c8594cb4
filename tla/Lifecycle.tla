----------------------------- MODULE Lifecycle -----------------------------
(***************************************************************************)
(* The commands that end a key's life, and the one that adopts a key       *)
(* (crates/core/src/ops/lifecycle.rs, ops/import.rs): retire, delete key,  *)
(* decommission [--delete], state forget, import key.                      *)
(***************************************************************************)
EXTENDS Recovery

Retains(a, h) ==
  Bound(disk, a) /\ \E r \in disk[a].retained : r.hash = h

(* retire_hash: only a retained hash, and only one a fresh read shows. *)
StartRetire(a, h) ==
  /\ Idle
  /\ Retains(a, h)
  /\ LET me == [RunAt("retire", "retired", a, h, {}) EXCEPT !.then = "retired"]
     IN \/ remote[h].life = "enabled" /\ Disable(me)
        \/ /\ remote[h].life = "disabled"
           /\ run' = Concluded(me, "disabled")
           /\ UNCHANGED <<ledger, world, waived, faults>>

(* record_status writes nothing when the entry already says so. *)
RecordStatusOnce(status) ==
  \/ /\ HasEntry /\ Entry.status = status
     /\ run' = Reporting(run, status) /\ UNCHANGED <<ledger, faults>>
  \/ /\ HasEntry => Entry.status # status
     /\ JournalStatus(status, Reporting(run, status), Ended)

RecordRetired ==
  /\ At("retired")
  /\ RecordStatusOnce(IF Proven THEN "retired" ELSE "retirement_failed")
  /\ UNCHANGED <<world, waived>>

-----------------------------------------------------------------------------
(* attempt_delete: one DELETE, then a read; only a 404 proves absence.     *)

(* Slip: the DELETE's own answer is taken for the fact. *)
TrustDelete == "drop"
ReadDeleted == "confirm_delete"

Delete(me) ==
  LET to(pc) == [me EXCEPT !.pc = pc]
  IN /\ \/ Exists(me.hash) /\ Request(Switched(me.hash, "gone"),
                                     to(ReadDeleted), to("keep"))
        \/ /\ ~Exists(me.hash)
           /\ run' \in {to("drop"), to("keep")}
           /\ UNCHANGED <<remote, faults>>
     /\ UNCHANGED <<ledger, inflight, plaintext, waived>>

StartDelete(a, h) ==
  /\ Idle
  /\ Retains(a, h)
  /\ Delete(RunAt("delete", "delete", a, h, {}))

DeleteDecommissioned == At("delete") /\ Delete(run)

ConfirmDeleted ==
  /\ At("confirm_delete")
  /\ \/ run' = (IF Exists(run.hash) THEN Goto("keep") ELSE Goto("drop"))
        /\ Plain
     \/ run' = Goto("keep") /\ Mishap
  /\ UNCHANGED <<ledger, world, waived>>

DropDeleted ==
  /\ At("drop")
  /\ Journal(HasEntry, DropRetained(disk, run.addr, Entry),
             Reporting(run, "untracked"), Ended)
  /\ UNCHANGED <<world, waived>>

KeepUndeleted ==
  /\ At("keep")
  /\ RecordStatusOnce("retirement_failed")
  /\ UNCHANGED <<world, waived>>

-----------------------------------------------------------------------------
(* decommission_key: take_out_of_service, then one write, then --delete.   *)

StartDecommission(a) ==
  /\ Idle
  /\ NothingPending(disk)
  /\ Bound(disk, a) /\ disk[a].current # None
  /\ \E then \in {"decommissioned", "decommissioned_delete"} :
       LET h == disk[a].current.hash
           me == [RunAt("decommission", then, a, h, {}) EXCEPT !.then = then]
       IN \/ remote[h].life = "enabled" /\ Disable(me)
          \/ /\ remote[h].life # "enabled"
             /\ run' = Concluded(me, IF Exists(h) THEN "disabled" ELSE "absent")
             /\ UNCHANGED <<ledger, world, waived, faults>>

(* A hash this run's read already found absent is not deleted again. *)
AfterDecommission ==
  IF run.pc = "decommissioned" THEN Reporting(run, "retired")
  ELSE IF run.verdict = "absent" THEN Goto("drop") ELSE Goto("delete")

RecordDecommission ==
  /\ run # None
  /\ run.pc \in {"decommissioned", "decommissioned_delete"}
  /\ \/ /\ Proven
        /\ Journal(CanDecommission(disk, run.addr, run.hash),
                   Decommission(disk, run.addr, "retired"),
                   AfterDecommission, Ended)
     \/ /\ ~Proven /\ run' = Reporting(run, "current")
        /\ UNCHANGED <<ledger, faults>>
  /\ UNCHANGED <<world, waived>>

-----------------------------------------------------------------------------
(* state forget relinquishes the address's keys: whoever runs it answers   *)
(* for them.                                                               *)
Forget(a) ==
  /\ Idle
  /\ Bound(disk, a)
  /\ LET me == RunAt("forget", "report", a, None, {})
     IN JournalAs(me, CanForgetKey(disk, a), ForgetKey(disk, a),
                  Reporting(me, "released"), Ended)
  /\ Answered({remote[h].maker.id :
                h \in {k \in Hash : /\ Names(disk[a], k)
                                    /\ remote[k].maker # None}})
  /\ UNCHANGED world

(* import key: a key OpenRouter shows, at the next generation.  Importing  *)
(* a hash the address uses already at most moves its generation (KeyState).*)
Import(a, h) ==
  /\ Idle
  /\ Exists(h) /\ ~Owned(disk, h)
  /\ LET g == Successor(a)
         me == RunAt("import", "report", a, h, {})
     IN JournalAs(me, g # None /\ CanBindKey(disk, a, h, g),
                  BindKey(disk, a, h, g), Reporting(me, "bound"), Ended)
  /\ UNCHANGED <<world, waived>>

LifecycleStep ==
  \/ DisableTracked
  \/ ConfirmDisabled
  \/ End
  \/ Report
  \/ RecordRetired
  \/ DeleteDecommissioned
  \/ ConfirmDeleted
  \/ DropDeleted
  \/ KeepUndeleted
  \/ RecordDecommission

StartLifecycle(a) ==
  \/ \E h \in Hash : \/ StartRetire(a, h)
                     \/ StartDelete(a, h)
                     \/ Import(a, h)
  \/ StartDecommission(a)
  \/ Forget(a)
=============================================================================
