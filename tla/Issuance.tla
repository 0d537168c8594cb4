------------------------------ MODULE Issuance ------------------------------
(***************************************************************************)
(* The journaled one-shot key creation (crates/core/src/ops/issuance.rs):  *)
(* a straight line of steps with a durable write between any two that a    *)
(* crash could fall between.  apply, rotate and recover replace all run it.*)
(*                                                                         *)
(* Abstracted: every managed key has a guardrail (without one the assign   *)
(* and its verification are skipped, a subset of these behaviours), and    *)
(* the fields of a PATCH are one thing, "settings".                        *)
(***************************************************************************)
EXTENDS Custody

(* The configuration asks for no generation of its own here: KeyState      *)
(* covers every configured number.                                         *)
Successor(a) == NextGeneration(disk, a, 1)

(* OperationId::mint: a name nothing that still counts carries, so that a  *)
(* few names stand for any number of attempts.                             *)
Minted(id) ==
  /\ \A a \in Address :
       /\ IsPending(disk, a) => disk[a].pending.id # id
       /\ IsPending(synced, a) => synced[a].pending.id # id
  /\ \A h \in Hash :
       (Exists(h) \/ Owned(disk, h)) /\ remote[h].maker # None
         => remote[h].maker.id # id
  /\ \A t \in inflight : t.id # id
  /\ id \notin waived

(* preflight and begin.  A preflight that fails (a configuration, a drifted*)
(* guardrail, no generation left) has written and sent nothing.            *)
Begin(me) ==
  /\ \E id \in OpId, r \in Receiver :
       /\ Minted(id)
       /\ Successor(me.addr) # None
       /\ LET g == Successor(me.addr)
          IN JournalAs(me, CanBeginCreate(disk, me.addr, g),
                       BeginCreate(disk, me.addr, g, r, id),
                       [me EXCEPT !.pc = "post", !.id = id, !.hash = None],
                       Ended)
  /\ UNCHANGED <<world, waived>>

BeginNext == At("begin") /\ Begin(run)

Unprepared ==
  /\ At("begin")
  /\ run' = Ended
  /\ UNCHANGED <<ledger, world, waived, faults>>

-----------------------------------------------------------------------------
(* Client::create_key_once. *)

NewKey(attempt) == [life |-> "enabled", secured |-> {}, maker |-> attempt]

MakeKey(h, attempt) ==
  /\ remote[h].life = "none"
  /\ remote' = [remote EXCEPT ![h] = NewKey(attempt)]

ThisAttempt == [id |-> run.id, addr |-> run.addr]

(* Slip: an answer that proves nothing is taken for a refusal. *)
PresumeRefused == Goto("abandon")

(* classify_create: everything but a well-formed 4xx. *)
OutcomeUnknown == Goto("doubt_create")

Post ==
  /\ At("post")
  /\ \/ \E h \in Hash :                        (* made, and answered *)
          /\ MakeKey(h, ThisAttempt)
          /\ run' = [run EXCEPT !.pc = "record", !.hash = h]
          /\ UNCHANGED inflight /\ Plain
     \/ \E h \in Hash :                        (* made, the answer lost *)
          /\ MakeKey(h, ThisAttempt)
          /\ run' = OutcomeUnknown
          /\ UNCHANGED inflight /\ Mishap
     \/ /\ inflight' = inflight \cup {ThisAttempt}
        /\ run' = OutcomeUnknown               (* made later, or never *)
        /\ UNCHANGED remote /\ Mishap
     \/ /\ run' = Goto("abandon")              (* is_definite_rejection *)
        /\ UNCHANGED <<remote, inflight>> /\ Plain
  /\ UNCHANGED <<ledger, plaintext, waived>>

AbandonRefused ==
  /\ At("abandon")
  /\ Journal(CanAbandonCreate(disk, run.addr), DropPending(disk, run.addr),
             Ended, Ended)
  /\ UNCHANGED <<world, waived>>

DoubtCreate ==
  /\ At("doubt_create")
  /\ JournalAdvance("create_ambiguous", Ended, Ended)
  /\ UNCHANGED <<world, waived>>

(* Slip: a key whose hash could not be recorded is disabled on the spot. *)
DisableUnrecorded == GotoDisable(run, "end")

(* Nothing touches a key whose hash is not durable. *)
LeaveUnrecorded == Goto("doubt_create")

(* record_hash *)
RecordHash ==
  /\ At("record")
  /\ JournalAdvance("created", Goto("settings"), LeaveUnrecorded)
  /\ UNCHANGED <<world, waived>>

-----------------------------------------------------------------------------
(* secure: restrict the key, then prove it.  Every failure from here on is *)
(* `undeliverable`: disable what may be a live credential, keep it tracked.*)
Undeliverable == GotoDisable(run, "end")

Restricted(what) ==
  IF Exists(run.hash)
  THEN [remote EXCEPT ![run.hash].secured = @ \cup {what}] ELSE remote

UpdateSettings ==
  /\ At("settings")
  /\ Request(Restricted("settings"), Goto("assign"), Undeliverable)
  /\ UNCHANGED <<ledger, inflight, plaintext, waived>>

AssignGuardrail ==
  /\ At("assign")
  /\ Request(Restricted("guardrail"), Goto("verify"), Undeliverable)
  /\ UNCHANGED <<ledger, inflight, plaintext, waived>>

(* Slip: the settings are read back and the assignment is not. *)
ReadsSettings == Exists(run.hash) /\ "settings" \in remote[run.hash].secured
ReadsSecured == Exists(run.hash) /\ remote[run.hash].secured = Restriction

(* verify_secured: both reads must answer, and agree. *)
VerifySecured ==
  /\ At("verify")
  /\ \/ ReadsSecured /\ run' = Goto("secured") /\ Plain
     \/ ReadsSecured /\ run' = Undeliverable /\ Mishap
     \/ ~ReadsSecured /\ run' = Undeliverable /\ Plain
  /\ UNCHANGED <<ledger, world, waived>>

RecordSecured ==
  /\ At("secured")
  /\ JournalAdvance("secured", Goto("start_delivery"), Undeliverable)
  /\ UNCHANGED <<world, waived>>

-----------------------------------------------------------------------------
(* deliver: once, and what the acknowledgement proves. *)

StartDelivery ==
  /\ At("start_delivery")
  /\ JournalAdvance("delivery_started", Goto("deliver"), Undeliverable)
  /\ UNCHANGED <<world, waived>>

(* The receiver was given the plaintext; "delivered": and committed it.    *)
Handed(outcome) == plaintext' = [plaintext EXCEPT ![run.hash] = outcome]

(* Slip: a lost acknowledgement is taken for success. *)
PresumeDelivered == Goto("acknowledge")
AcknowledgementLost == Goto("doubt_delivery")

Deliver ==
  /\ At("deliver")
  /\ \/ Handed("delivered") /\ run' = Goto("acknowledge") /\ Plain
     \/ Handed("handed") /\ run' = Goto("reject") /\ Plain
     \/ /\ Handed("delivered") \/ Handed("handed")
        /\ run' = AcknowledgementLost
        /\ Mishap
  /\ UNCHANGED <<ledger, remote, inflight, waived>>

(* promote, first half. *)
Acknowledge ==
  /\ At("acknowledge")
  /\ JournalAdvance("delivered", Goto("promote"), Ended)
  /\ UNCHANGED <<world, waived>>

(* Slip: a delivered key is reported as its address's key.                *)
PresumePromoted(landed) == "promoted"

(* Issued::promoted *)
Promotion(landed) == IF landed THEN "promoted" ELSE "unpromoted"

(* Issuer::issue reports success whether or not the promotion was          *)
(* recorded, and apply goes on to its next key.                            *)
AfterIssue(landed) ==
  IF run.todo = {} THEN {Reporting(run, Promotion(landed))}
  ELSE {[run EXCEPT !.pc = "begin", !.addr = a, !.todo = @ \ {a},
                    !.hash = None, !.id = None] : a \in run.todo}

PromoteIssued ==
  /\ At("promote")
  /\ \E done \in AfterIssue(TRUE), otherwise \in AfterIssue(FALSE) :
       Journal(CanPromoteKey(disk, run.addr), PromoteKey(disk, run.addr),
               done, otherwise)
  /\ UNCHANGED <<world, waived>>

(* record_rejection: the key is disabled whether or not this is recorded. *)
RecordRejection ==
  /\ At("reject")
  /\ JournalAdvance("delivery_rejected", Undeliverable, Undeliverable)
  /\ UNCHANGED <<world, waived>>

(* Slip: a key that may have reached its destination is disabled. *)
DisableDoubtful == GotoDisable(run, "end")
LeaveDoubtful == Ended

(* record_ambiguity: a consumer may be using the key, so it is left alone. *)
DoubtDelivery ==
  /\ At("doubt_delivery")
  /\ JournalAdvance("delivery_ambiguous", LeaveDoubtful, Ended)
  /\ UNCHANGED <<world, waived>>

IssueStep ==
  \/ BeginNext
  \/ Unprepared
  \/ Post
  \/ AbandonRefused
  \/ DoubtCreate
  \/ RecordHash
  \/ UpdateSettings
  \/ AssignGuardrail
  \/ VerifySecured
  \/ RecordSecured
  \/ StartDelivery
  \/ Deliver
  \/ Acknowledge
  \/ PromoteIssued
  \/ RecordRejection
  \/ DoubtDelivery
=============================================================================
