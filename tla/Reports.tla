------------------------------ MODULE Reports ------------------------------
(***************************************************************************)
(* What the credential commands tell an operator (crates/core/src/report): *)
(* the result document of a command that got far enough to have one, and   *)
(* the advice that plan, status and recover inspect give about an          *)
(* operation that did not finish.  Wording, layout and scrubbing are left  *)
(* out: a document is what it claims of the key it names.                  *)
(***************************************************************************)
EXTENDS Lifecycle

Ledgers == {disk, synced}

IsCurrent(k, a, h) ==
  Bound(k, a) /\ k[a].current # None /\ k[a].current.hash = h

IsDelivered(k, a, h) ==
  PendingIn(k, a, {"delivered"}) /\ k[a].pending.hash = h

RecordedAs(status, a, h) ==
  \E r \in disk[a].retained : r.hash = h /\ r.status = status

(* RotateReport and ReplaceReport *)
PromotedHolds(a, h) ==
  /\ plaintext[h] = "delivered"
  /\ \A k \in Ledgers : IsCurrent(k, a, h)

UnpromotedHolds(a, h) ==
  /\ plaintext[h] = "delivered"
  /\ \A k \in Ledgers : IsDelivered(k, a, h) \/ IsCurrent(k, a, h)

(* RetireReport, ResolveReport::leaked, and a decommission without delete. *)
(* A command that finds on disk what it would write writes nothing, so     *)
(* these claims are no more durable than the write that put it there.      *)
RetiredHolds(a, h) ==
  RecordedAs("retired", a, h) /\ remote[h].life # "enabled"

StillTrackedHolds(status, a, h) == RecordedAs(status, a, h)

(* DeleteReport, and a decommission that deleted. *)
UntrackedHolds(h) ==
  ~Exists(h) /\ \A k \in Ledgers : ~Owned(k, h)

(* DecommissionReport: a disable nothing proved moves nothing. *)
CurrentHolds(a, h) == IsCurrent(disk, a, h)

(* ResolveReport::absence *)
ClearedHolds(a) == \A k \in Ledgers : ~IsPending(k, a)

(* ForgetReport, ImportReport *)
ReleasedHolds(a) == \A k \in Ledgers : ~Bound(k, a)
BoundHolds(a, h) == \A k \in Ledgers : IsCurrent(k, a, h)

Holds(said, a, h) ==
  CASE said = "promoted" -> PromotedHolds(a, h)
    [] said = "unpromoted" -> UnpromotedHolds(a, h)
    [] said = "retired" -> RetiredHolds(a, h)
    [] said \in {"retirement_failed", "failed_candidate"} ->
         StillTrackedHolds(said, a, h)
    [] said = "untracked" -> UntrackedHolds(h)
    [] said = "current" -> CurrentHolds(a, h)
    [] said = "cleared" -> ClearedHolds(a)
    [] said = "released" -> ReleasedHolds(a)
    [] said = "bound" -> BoundHolds(a, h)

-----------------------------------------------------------------------------
(* Slip: `secured` is left to apply, as the planner's Replace suggests. *)
RemediationOfPlan(phase) ==
  IF phase \in HashlessPhase THEN "resolve"
  ELSE IF phase \in {"secured", "delivered"} THEN "apply" ELSE "replace"

(* remediation: the command a report names for an operation in a phase. *)
Remediation(phase) ==
  IF phase \in HashlessPhase THEN "resolve"
  ELSE IF phase = "delivered" THEN "apply" ELSE "replace"

(* recover inspect's candidates: keys no address owns.  Those under the    *)
(* operation's name are listed; one made about then is too, whatever its   *)
(* name.                                                                   *)
Unowned(h) == Exists(h) /\ ~Owned(disk, h)

Listed(a) == {h \in Hash : /\ Unowned(h) /\ remote[h].maker # None
                           /\ remote[h].maker.addr = a}

(* The operator runs the command the advice names; about a create whose    *)
(* answer was lost, they attest absence only if nothing was listed by      *)
(* name.                                                                   *)
FollowAdvice(a) ==
  /\ IsPending(disk, a)
  /\ CASE Remediation(disk[a].pending.phase) = "apply" -> FastForward(a)
       [] Remediation(disk[a].pending.phase) = "replace" -> RetireDead(a)
       [] OTHER -> \/ Listed(a) = {} /\ ResolveAbsence(a)
                   \/ \E h \in Hash : Unowned(h) /\ ResolveLeaked(a, h)
=============================================================================
