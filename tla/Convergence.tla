---------------------------- MODULE Convergence ----------------------------
(* ops::apply over workspaces, guardrails, log destinations, keys and         *)
(* assignments: a run plans from one read, executes phase by phase, stops at  *)
(* the first failure, reads again and reports.  Around it the commands that   *)
(* bind and release (import, state forget, delete), OpenRouter's console, and *)
(* an operator who follows the reports.  Issuance is one step here, with the  *)
(* results Issuance shows it can have; the state file is StateStore's, so a   *)
(* write of it is made, or fails before or after it took effect.              *)
EXTENDS Integers, Planner

CONSTANTS MaxMishaps,   \* bound: lost, refused or ignored requests, failed local
                        \* writes, killed runs
          MaxEdits,     \* bound: the console's steps and the operator's own
          Ignores,      \* whether OpenRouter may answer a write it did not make
          Adopts        \* whether the operator imports a default guardrail by its
                        \* identity when a key's report says it is not bound

ASSUME ConvergenceBounds == {MaxMishaps, MaxEdits} \subseteq Nat /\ {Ignores, Adopts} \subseteq BOOLEAN

VARIABLES doc,       \* the state file
          remote,    \* OpenRouter's objects, by identity
          want,      \* the configuration each destination block asks for
          run,       \* the apply in progress
          mishaps, edits

vars == <<doc, remote, want, run, mishaps, edits>>

Object(within, under, config) == [matches |-> TRUE, within |-> within, under |-> under, config |-> config]
Objects == [matches : BOOLEAN, within : WorkspaceIds \cup {None},
            under : GuardrailIds \cup {None}, config : Configs \cup {None}]

(* The bindings a run may have to record.                                     *)
Records == [on : Blocks, id : Ids, default : Defaults \cup {None}, digest : Configs \cup {None}]
ASSUME NoRecordAssumption == None \notin Records

(* `todo` holds the actions left, `record` the binding a write has still to   *)
(* record, `held` what the run held back itself, `waiting` that the planner   *)
(* held a write back, `left` that an operator has work.  `disturbed`, kept    *)
(* for the properties: something beside the run changed OpenRouter meanwhile. *)
Idle == [at |-> "idle", todo |-> {}, record |-> None, held |-> {}, attempted |-> {}, issued |-> {},
         waiting |-> FALSE, left |-> FALSE, failed |-> FALSE, skipped |-> FALSE,
         outcome |-> None, disturbed |-> FALSE]

-----------------------------------------------------------------------------
(* OpenRouter.                                                                *)

With(id, object) == [i \in DOMAIN remote \cup {id} |-> IF i = id THEN object ELSE remote[i]]
Patched(id) == [remote EXCEPT ![id].matches = TRUE]

(* What deleting an object takes with it: a workspace its contents, a         *)
(* guardrail the assignments to it.                                           *)
Contents(id) == {i \in DOMAIN remote : remote[i].within = id}
Without(id) == LET gone == {id} \cup Contents(id)
               IN  [i \in DOMAIN remote \ gone |->
                       IF remote[i].under \in gone THEN [remote[i] EXCEPT !.under = None] ELSE remote[i]]

(* An identity is new.                                                        *)
Mentioned == Owned(doc) \cup {doc.default[w] : w \in Workspaces}
             \cup (IF run.record = None THEN {} ELSE {run.record.id})
Fresh(b) == {i \in Named[b] : /\ i \notin DOMAIN remote \cup Mentioned
                              /\ DefaultGuardrail(i) \notin DOMAIN remote \cup Mentioned}

Mishap == mishaps < MaxMishaps /\ mishaps' = mishaps + 1
Smooth == mishaps' = mishaps

-----------------------------------------------------------------------------
(* Starting: fast_forward, the read, record_default_identities, the plan.     *)

Promoted(d) == IF d.pending # None /\ d.pending.phase = "delivered"
                 THEN Promote(d, d.pending.key, d.pending.hash) ELSE d
(* Slip: a default guardrail's identity is learnt from a create response or   *)
(* an import only.                                                            *)
LeftBlank(d, seen) == d
Backfilled(d, seen) ==
    [d EXCEPT !.default = [w \in Workspaces |->
        IF @[w] = None /\ d.id[w] \in DOMAIN seen THEN DefaultGuardrail(d.id[w]) ELSE @[w]]]
Prepared == Backfilled(Promoted(doc), remote)

Begun(plan) == [Idle EXCEPT !.at = "executing",
                            !.todo = {a \in plan : Executable(a)},
                            !.waiting = \E a \in plan : Writes(a) /\ a.blocked,
                            !.left = \E a \in plan : HoldsBack(a)]

Start == /\ run.at = "idle"
         /\ doc' = Prepared
         /\ LET plan == Plan(Prepared, remote, want)
            IN  run' = IF StopsRun(plan) THEN [Idle EXCEPT !.at = "reported", !.outcome = "blocked"]
                                         ELSE Begun(plan)
         /\ UNCHANGED <<remote, want, mishaps, edits>>

-----------------------------------------------------------------------------
(* Executing.                                                                 *)

Phase(action) == CASE action.on \in Workspaces   -> 1
                   [] action.on \in Destinations -> 2
                   [] action.on \in Guardrails   -> 3
                   [] action.on \in Keys         -> 4
                   [] OTHER                      -> 5

Turn(a) == /\ run.at = "executing"
           /\ a \in run.todo
           /\ \A b \in run.todo : Phase(a) <= Phase(b)
           /\ a.needs \cap run.held = {}

Done(a) == [run EXCEPT !.todo = @ \ {a}, !.attempted = @ \cup {a.on}]
Failed(a) == [run EXCEPT !.at = "verifying", !.todo = {}, !.record = None, !.failed = TRUE,
                         !.attempted = @ \cup {a.on}]
Recording(a, record) == [Done(a) EXCEPT !.at = "recording", !.record = record]
Unmade(a) == [run EXCEPT !.todo = @ \ {a}, !.held = @ \cup {a.on}]

(* runtime_holdback: what this run held back did not happen.                  *)
HoldBack == \E a \in run.todo :
    /\ run.at = "executing"
    /\ \A b \in run.todo : Phase(a) <= Phase(b)
    /\ a.needs \cap run.held # {}
    /\ run' = Unmade(a)
    /\ UNCHANGED <<doc, remote, want, mishaps, edits>>

(* A create: answered; answered by a refusal, as one in a workspace that is   *)
(* gone is, or not at all.                                                    *)
Hosted(object) == object.within \in DOMAIN remote \cup {None}
Post(a, id, object, record) ==
    /\ \/ Hosted(object) /\ Smooth /\ remote' = With(id, object) /\ run' = Recording(a, record)
       \/ ~Hosted(object) /\ Smooth /\ remote' = remote /\ run' = Failed(a)
       \/ Hosted(object) /\ Mishap /\ remote' \in {With(id, object), remote} /\ run' = Failed(a)
    /\ UNCHANGED <<doc, want, edits>>

(* A write to an object: made; without effect; refused or unanswered.         *)
Patch(a, after, next) ==
    /\ \/ Smooth /\ remote' = after /\ run' = next
       \/ Ignores /\ Mishap /\ remote' = remote /\ run' = next
       \/ Mishap /\ remote' \in {after, remote} /\ run' = Failed(a)
    /\ UNCHANGED <<doc, want, edits>>

(* The object is gone: the server says so, and nothing changes.               *)
Gone(a) == run' = Failed(a) /\ UNCHANGED <<doc, remote, want, mishaps, edits>>

(* The create response may not disclose the default guardrail's identity.     *)
CreateWorkspace(w, a) ==
    \E i \in Fresh(w) : \E default \in {DefaultGuardrail(i), None} :
        Post(a, i, Object(None, None, None), [on |-> w, id |-> i, default |-> default, digest |-> None])

UpdateWorkspace(a) == IF a.id \in DOMAIN remote THEN Patch(a, Patched(a.id), Done(a)) ELSE Gone(a)

CreateDestination(d, a) ==
    \E i \in Fresh(d) :
        Post(a, i, Object(PlacedIn(doc, d), None, want[d]),
             [on |-> d, id |-> i, default |-> None, digest |-> want[d]])

UpdateDestination(d, a) ==
    IF a.id \notin DOMAIN remote THEN Gone(a)
    ELSE Patch(a, [remote EXCEPT ![a.id].matches = TRUE,
                                 ![a.id].config = IF a.config THEN want[d] ELSE @],
               IF a.config THEN Recording(a, [on |-> d, id |-> a.id, default |-> None, digest |-> want[d]])
                           ELSE Done(a))

(* workspace_default: the identity a guardrail block is written to when that  *)
(* is a workspace's to give.                                                  *)
WorkspaceDefault(g) ==
    IF Bound(doc, g) THEN IF \E w \in Workspaces : doc.default[w] = doc.id[g] THEN doc.id[g] ELSE None
                     ELSE NamedDefault(doc, g)
DefaultRecord(g, id) == [on |-> g, id |-> id, default |-> None, digest |-> None]

(* The default guardrail of a workspace that is there is written, wherever it *)
(* was; a run records its binding when nothing does.                          *)
Materialize(g, a, id) ==
    LET home == CHOOSE i \in WorkspaceIds : DefaultGuardrail(i) = id
    IN  IF home \notin DOMAIN remote THEN Gone(a)
        ELSE Patch(a, With(id, Object(home, None, None)),
                   IF Bound(doc, g) THEN Done(a) ELSE Recording(a, DefaultRecord(g, id)))

CreateOrdinary(g) == WorkspaceDefault(g) = None /\ DefaultingTo(g) = None

CreateGuardrail(g, a) ==
    \/ WorkspaceDefault(g) # None /\ Materialize(g, a, WorkspaceDefault(g))
    \/ /\ WorkspaceDefault(g) = None /\ DefaultingTo(g) # None
       /\ run' = Unmade(a)
       /\ UNCHANGED <<doc, remote, want, mishaps, edits>>
    \/ /\ CreateOrdinary(g)
       /\ \E i \in Fresh(g) : Post(a, i, Object(PlacedIn(doc, g), None, None), DefaultRecord(g, i))

UpdateGuardrail(g, a) ==
    IF a.id \notin DOMAIN remote THEN Gone(a)
    ELSE Patch(a, Patched(a.id), IF WorkspaceDefault(g) = a.id /\ ~Bound(doc, g)
                                   THEN Recording(a, DefaultRecord(g, a.id)) ELSE Done(a))

UpdateKey(a) == IF a.id \in DOMAIN remote THEN Patch(a, Patched(a.id), Done(a)) ELSE Gone(a)

(* Slip: the guardrail the plan was computed from is trusted.                 *)
TrustsPlan(k) == RailOf[k] # None => Bound(doc, RailOf[k])
(* converged_guardrail: read again before anything is created.                *)
RailConverged(k) == RailOf[k] # None =>
    LET id == doc.id[RailOf[k]] IN id \in DOMAIN remote /\ remote[id].matches

(* Delivered and promoted; delivered, the promotion not recorded; left        *)
(* standing, the key dead or unknown; or refused before there was a key.      *)
Issue(k, a) ==
    IF doc.pending # None \/ ~RailConverged(k) \/ PlacedIn(doc, k) \notin DOMAIN remote \cup {None}
    THEN Gone(a)
    ELSE \E i \in Fresh(k) :
        LET rail == IF RailOf[k] = None THEN None ELSE doc.id[RailOf[k]]
            made == With(i, Object(PlacedIn(doc, k), rail, None))
            Standing(phase) == [doc EXCEPT !.pending = [key |-> k, hash |-> i, phase |-> phase]]
            issued == [Done(a) EXCEPT !.issued = @ \cup {k}]
        IN  /\ \/ Smooth /\ remote' = made /\ doc' = Promote(doc, k, i) /\ run' = issued
               \/ Mishap /\ remote' = made /\ doc' = Standing("delivered") /\ run' = issued
               \/ Mishap /\ remote' = made /\ doc' = Standing("dead") /\ run' = Failed(a)
               \/ Mishap /\ remote' \in {made, remote} /\ doc' = Standing("unknown") /\ run' = Failed(a)
               \/ Mishap /\ UNCHANGED <<remote, doc>> /\ run' = Failed(a)
            /\ UNCHANGED <<want, edits>>

(* The assignment beside a key this run issued was made with it.              *)
Assign(k, a) ==
    LET hash == doc.id[k]
        rail == doc.id[RailOf[k]]
    IN  \/ /\ k \in run.issued
           /\ run' = Done(a)
           /\ UNCHANGED <<doc, remote, want, mishaps, edits>>
        \/ /\ k \notin run.issued
           /\ rail = None \/ hash = None
           /\ run' = [run EXCEPT !.todo = @ \ {a}, !.skipped = TRUE]
           /\ UNCHANGED <<doc, remote, want, mishaps, edits>>
        \/ /\ k \notin run.issued
           /\ rail # None /\ hash # None
           /\ IF {rail, hash} \subseteq DOMAIN remote
                THEN Patch(a, [remote EXCEPT ![hash].under = rail], Done(a)) ELSE Gone(a)

Unassign(k, a) ==
    IF doc.id[k] \in DOMAIN remote /\ remote[doc.id[k]].under = a.id
      THEN Patch(a, [remote EXCEPT ![doc.id[k]].under = None], Done(a)) ELSE Gone(a)

Execute(a) ==
    /\ Turn(a)
    /\ \/ a.on \in Workspaces /\ a.kind = "create" /\ CreateWorkspace(a.on, a)
       \/ a.on \in Workspaces /\ a.kind = "update" /\ UpdateWorkspace(a)
       \/ a.on \in Destinations /\ a.kind = "create" /\ CreateDestination(a.on, a)
       \/ a.on \in Destinations /\ a.kind = "update" /\ UpdateDestination(a.on, a)
       \/ a.on \in Guardrails /\ a.kind = "create" /\ CreateGuardrail(a.on, a)
       \/ a.on \in Guardrails /\ a.kind = "update" /\ UpdateGuardrail(a.on, a)
       \/ a.on \in Keys /\ CreatesItsResource(a) /\ Issue(a.on, a)
       \/ a.on \in Keys /\ a.kind = "update" /\ UpdateKey(a)
       \/ a.kind = "assign" /\ Assign(BlockOf(a.on), a)
       \/ a.kind = "unassign" /\ Unassign(BlockOf(a.on), a)

(* The binding a write calls for; a workspace's carries its default           *)
(* guardrail's, and either both are written or neither.                       *)
Recorded(r) ==
    CASE r.on \in Workspaces   -> BindDefault(BindWorkspace(doc, r.on, r.id, r.default), r.on, r.default)
      [] r.on \in Destinations -> BindDestination(doc, r.on, r.id, r.digest)
      [] OTHER                 -> Bind(doc, r.on, r.id)
Recordable(r) ==
    CASE r.on \in Workspaces   -> CanBind(doc, r.on, r.id) /\ CanBindDefault(doc, r.on, r.default)
      [] r.on \in Destinations -> CanBind(doc, r.on, r.id)
      [] OTHER                 -> IF r.id \in Defaults THEN CanBind(doc, r.on, r.id)
                                                       ELSE CanReplaceGuardrail(doc, r.on, r.id)

GiveUp == [run EXCEPT !.at = "verifying", !.todo = {}, !.record = None, !.failed = TRUE]
Record ==
    /\ run.at = "recording"
    /\ \/ /\ Recordable(run.record) /\ Smooth
          /\ doc' = Recorded(run.record)
          /\ run' = [run EXCEPT !.at = "executing", !.record = None]
       \/ /\ Recordable(run.record) /\ Mishap
          /\ doc' \in {Recorded(run.record), doc}
          /\ run' = GiveUp
       \/ /\ ~Recordable(run.record) /\ Smooth
          /\ doc' = doc
          /\ run' = GiveUp
    /\ UNCHANGED <<remote, want, edits>>

-----------------------------------------------------------------------------
(* Verifying and reporting.                                                   *)

Settled(plan) == {a.on : a \in plan} \ {a.on : a \in {a \in plan : a.kind # "no_op"}}

(* Slip: what the writes answered is what they did.                           *)
AnswersConfirm == TRUE
(* verify: a write counts if a plan made from a fresh read has nothing left   *)
(* to say.  A run whose record failed replans from its memory; it failed.     *)
WritesConfirm == run.attempted \subseteq Settled(Plan(doc, remote, want))

Outcome(confirmed) ==
    CASE run.failed \/ ~confirmed                -> "failed"
      [] ~run.failed /\ confirmed /\ run.skipped -> "incomplete"
      [] OTHER -> IF run.waiting \/ run.held # {} THEN "held_back"
                  ELSE IF run.attempted # {} THEN "applied"
                  ELSE IF run.left THEN "held_back" ELSE "converged"

Reported(confirmed) == [run EXCEPT !.at = "reported", !.outcome = Outcome(confirmed)]

Verify == /\ \/ run.at = "verifying"
             \/ run.at = "executing" /\ run.todo = {}
          /\ \/ Smooth /\ run' = Reported(WritesConfirm)
             \/ run.attempted # {} /\ Mishap /\ run' = Reported(FALSE)
          /\ UNCHANGED <<doc, remote, want, edits>>

End == /\ run.at = "reported"
       /\ run' = Idle
       /\ UNCHANGED <<doc, remote, want, mishaps, edits>>

Kill == /\ run.at # "idle"
        /\ Mishap
        /\ run' = Idle
        /\ UNCHANGED <<doc, remote, want, edits>>

-----------------------------------------------------------------------------
(* The commands beside apply; each holds the lock from start to end.          *)

(* The one-to-one rule, and for a guardrail the workspace it must sit in.     *)
CanImport(b, i) ==
    /\ i \in DOMAIN remote /\ i \in IdsFor(b)
    /\ CanBind(doc, b, i)
    /\ b \in Guardrails => ~Elsewhere(doc, b, remote[i].within)
    /\ b \in Workspaces => CanBindDefault(doc, b, DefaultGuardrail(i))
Imported(b, i) ==
    CASE b \in Workspaces   -> BindDefault(BindWorkspace(doc, b, i, DefaultGuardrail(i)), b, DefaultGuardrail(i))
      [] b \in Destinations -> BindDestination(doc, b, i, None)
      [] OTHER              -> Bind(doc, b, i)

Import(b, i) == CanImport(b, i) /\ doc' = Imported(b, i) /\ UNCHANGED <<remote, run>>
ForgetBinding(b) == CanForget(doc, b) /\ doc' = Forget(doc, b) /\ UNCHANGED <<remote, run>>

(* Slip: only guardrails count as what a workspace holds.                     *)
ObservedRails(w) == (Contents(doc.id[w]) \cap GuardrailIds) \ {doc.default[w]}
ObservedChildren(w) == Contents(doc.id[w]) \ {doc.default[w]}

(* delete workspace, delete log-destination: what the workspace holds is read *)
(* before the request; only a 404 proves the object gone.                     *)
BeginDelete(b) == /\ b \in Workspaces \cup Destinations
                  /\ Bound(doc, b)
                  /\ b \in Workspaces => ObservedChildren(b) = {}
                  /\ run' = [Idle EXCEPT !.at = "deleting", !.record = DefaultRecord(b, doc.id[b])]
                  /\ UNCHANGED <<doc, remote>>

Delete == LET b == run.record.on
              id == run.record.id
          IN  /\ run.at = "deleting"
              /\ run' = Idle
              /\ \/ id \notin DOMAIN remote /\ Smooth /\ doc' = Forget(doc, b) /\ UNCHANGED remote
                 \/ id \in DOMAIN remote /\ Smooth /\ doc' = Forget(doc, b) /\ remote' = Without(id)
                 \/ /\ id \in DOMAIN remote /\ Mishap
                    /\ remote' \in {Without(id), remote} /\ UNCHANGED doc
              /\ UNCHANGED <<want, edits>>

(* recover: an operator settles what an issuance left; Keymaster models it.   *)
Recover == /\ doc.pending # None /\ doc.pending.phase # "delivered"
           /\ doc' = [doc EXCEPT !.pending = None, !.retained[doc.pending.key] = @ \cup {doc.pending.hash}]
           /\ UNCHANGED <<remote, run>>

(* The console, whenever it likes.                                            *)
Disturbed == run' = IF run.at = "idle" THEN run ELSE [run EXCEPT !.disturbed = TRUE]
ConsoleDelete(i) == i \in DOMAIN remote /\ remote' = Without(i) /\ Disturbed /\ UNCHANGED doc
ConsoleEdit(i) == /\ i \in DOMAIN remote
                  /\ \/ remote' = [remote EXCEPT ![i].matches = FALSE]
                     \/ /\ i \in KeyIds
                        /\ \E g \in {None} \cup (GuardrailIds \cap DOMAIN remote) :
                              remote' = [remote EXCEPT ![i].under = g]
                  /\ Disturbed
                  /\ UNCHANGED doc
ConsoleCreate(b) == \E i \in Fresh(b) : \E within \in {None} \cup (WorkspaceIds \cap DOMAIN remote) :
    /\ b \in Workspaces => within = None
    /\ remote' = With(i, Object(within, None, None))
    /\ Disturbed
    /\ UNCHANGED doc

Reconfigure == /\ run.at = "idle"
               /\ \E d \in Destinations : \E c \in Configs \ {want[d]} : want' = [want EXCEPT ![d] = c]
               /\ UNCHANGED <<doc, remote, run>>

Edit == /\ edits < MaxEdits
        /\ edits' = edits + 1
        /\ \/ /\ \/ \E i \in DOMAIN remote : ConsoleDelete(i) \/ ConsoleEdit(i)
                 \/ \E b \in Blocks : ConsoleCreate(b)
                 \/ /\ run.at = "idle"
                    /\ \E b \in Blocks : \/ \E i \in Ids : Import(b, i)
                                         \/ ForgetBinding(b)
                                         \/ BeginDelete(b)
              /\ UNCHANGED <<want, mishaps>>
           \/ Reconfigure /\ UNCHANGED mishaps

(* What the report says an operator has to do: import what answers to the     *)
(* name, once no other binding forbids it, or remove it if it may never be    *)
(* bound; release what is missing, in the wrong place or at the wrong address.*)
InTheWay(b, i) == {g \in Guardrails : /\ b \in Workspaces /\ Bound(doc, g)
                                      /\ (g = DefaultOf[b]) # (doc.id[g] = DefaultGuardrail(i))}
Adopt(b, i) == \/ Import(b, i)
               \/ \E g \in InTheWay(b, i) : ~CanImport(b, i) /\ ForgetBinding(g)
               \/ ~CanImport(b, i) /\ InTheWay(b, i) = {} /\ ConsoleDelete(i)

Heed(a) ==
    \/ a.kind = "adoption_required" /\ \E i \in UnownedNamed(doc, remote, a.on) : Adopt(a.on, i)
    \/ a.kind = "missing" /\ ForgetBinding(a.on)
    \/ /\ a.on \in Destinations /\ doc.id[a.on] \in DOMAIN remote
       /\ Elsewhere(doc, a.on, remote[doc.id[a.on]].within)
       /\ BeginDelete(a.on)
    \/ /\ a.on \in Guardrails /\ (DefaultConflict(doc, a.on) \/ FixedElsewhere(doc, remote, a.on))
       /\ \E g \in Guardrails : doc.id[g] = a.id /\ ForgetBinding(g)
    \/ /\ Adopts /\ a.on \in Guardrails /\ a.kind = "no_op" /\ ~Bound(doc, a.on)
       /\ Import(a.on, a.id)

Follow == /\ run.at = "idle"
          /\ Recover \/ \E a \in Proposals(doc, remote, want) : Heed(a)
          /\ UNCHANGED <<want, mishaps, edits>>

-----------------------------------------------------------------------------
Init == /\ doc = Empty
        /\ remote = [i \in {} |-> None]
        /\ want \in [Destinations -> Configs]
        /\ run = Idle
        /\ mishaps = 0
        /\ edits = 0

Run == \/ \E a \in run.todo : Execute(a)
       \/ HoldBack
       \/ Record
       \/ Verify
       \/ End
       \/ Delete

Next == Start \/ Run \/ Kill \/ Edit \/ Follow

Spec == Init /\ [][Next]_vars

(* A run that was started goes on, and apply is run again and again: some     *)
(* step of Start or Run is always possible (weak fairness, written out).  The *)
(* operator does what the reports ask, though a run may hold the lock         *)
(* whenever he looks.                                                         *)
FairSpec == Spec /\ []<><<Start \/ Run>>_vars /\ SF_vars(Follow)

-----------------------------------------------------------------------------
(* The variables hold what they are meant to, and the document is one the     *)
(* reader accepts: no remote object is bound at two addresses.                *)
TypeOK == /\ doc \in Documents /\ OneAddressEach(doc)
          /\ DOMAIN remote \subseteq Ids /\ \A i \in DOMAIN remote : remote[i] \in Objects
          /\ want \in [Destinations -> Configs]
          /\ run.at \in {"idle", "executing", "recording", "verifying", "reported", "deleting"}
          /\ run.record \in Records \cup {None}
          /\ (run.at \in {"recording", "deleting"}) = (run.record # None)
          /\ mishaps \in 0..MaxMishaps /\ edits \in 0..MaxEdits

OwnStep == run.at # "idle" /\ edits' = edits
Bindable == Owned(doc) \cup {doc.default[w] : w \in Workspaces}
Taken(id) == {id, DefaultGuardrail(id)} \cup (IF run.disturbed THEN Contents(id) ELSE {})
Touchable == IF run.at = "deleting" THEN Taken(run.record.id) ELSE Bindable

Unassigned(i) == /\ remote[i].under \in Touchable
                 /\ i \in DOMAIN remote' /\ remote'[i] = [remote[i] EXCEPT !.under = None]

(* A run changes no object that no address owns, a workspace's own default    *)
(* guardrail apart; a delete removes the object it names and, of what a       *)
(* workspace held when it was read, the default guardrail only.  With a       *)
(* guardrail go the assignments to it.  Where the console did something after *)
(* the read, what the workspace holds by then goes with it: the server has no *)
(* delete on a condition (lifecycle.rs, delete_tracked_workspace).            *)
OnlyOwnedTouched ==
    [][OwnStep => \A i \in DOMAIN remote :
          \/ i \in Touchable
          \/ i \in DOMAIN remote' /\ remote'[i] = remote[i]
          \/ run.at = "deleting" /\ Unassigned(i)]_vars

(* Whatever answers were lost, records failed and objects vanished before:    *)
(* apply creates nothing for a block whose own object is there, a key's       *)
(* successor apart, nor while one that no address owns answers to its name.   *)
(* (The console may create one after the run has read.)  This is not what     *)
(* the code tells the operator of an object it could not record, "a second    *)
(* workspace will be created under the same name" (apply.rs, untracked and    *)
(* its two fellows): the next plan asks for its adoption instead.             *)
CreatesNoSecond ==
    [][OwnStep /\ ~run.disturbed => \A b \in Blocks : \A i \in Named[b] \cap (DOMAIN remote' \ DOMAIN remote) :
          IF doc.id[b] \in DOMAIN remote THEN b \in Keys ELSE UnownedNamed(doc, remote, b) = {}]_vars

(* A key apply puts into service is in its workspace and under its guardrail, *)
(* and that guardrail is there and as configured.                             *)
IssuedUnderGuardrail ==
    [][\A k \in Keys : run.at = "executing" /\ doc'.id[k] # doc.id[k] =>
          LET key == remote'[doc'.id[k]]
          IN  /\ ~Elsewhere(doc, k, key.within)
              /\ IF RailOf[k] = None THEN key.under = None
                 ELSE /\ key.under = doc.id[RailOf[k]]
                      /\ key.under \in DOMAIN remote /\ remote[key.under].matches]_vars

IdentityOf(b) == IF b \in Guardrails THEN GuardrailIdentity(doc, b) ELSE doc.id[b]
InPlace(b) == /\ IdentityOf(b) \in DOMAIN remote
              /\ remote[IdentityOf(b)].matches
              /\ ~Elsewhere(doc, b, remote[IdentityOf(b)].within)
Assigned(k) == remote[doc.id[k]].under = IF RailOf[k] = None THEN None ELSE doc.id[RailOf[k]]
ConfigHeld(d) == remote[doc.id[d]].config = want[d]

Matching == /\ \A b \in Blocks : InPlace(b)
            /\ \A k \in Keys : Assigned(k)
(* What a report may leave to the operator: an object to adopt, one gone, one *)
(* in another workspace than its block's, a default guardrail at odds with    *)
(* its binding.                                                               *)
OperatorsTurn(b) == \/ IdentityOf(b) = None /\ Named[b] \cap DOMAIN remote # {}
                    \/ IdentityOf(b) # None /\ IdentityOf(b) \notin DOMAIN remote
                    \/ /\ IdentityOf(b) \in DOMAIN remote
                       /\ Elsewhere(doc, b, remote[IdentityOf(b)].within)
                    \/ b \in Guardrails /\ DefaultConflict(doc, b)

(* What a report says holds.  `converged`: every block's object is there, as  *)
(* configured, in its workspace, and every key under its guardrail.           *)
(* `applied`: so is all that no operator has to clear first.  Where no write  *)
(* of a destination's configuration went wrong, OpenRouter holds it.          *)
ReportHolds ==
    run.at = "reported" /\ ~run.disturbed =>
        /\ run.outcome = "converged" => Matching
        /\ run.outcome = "applied" =>
              /\ \A b \in Blocks : InPlace(b) \/ OperatorsTurn(b)
              /\ \A k \in Keys : InPlace(k) => Assigned(k)
        /\ run.outcome \in {"converged", "applied"} /\ mishaps = 0 =>
              \A d \in Destinations : InPlace(d) => ConfigHeld(d)

(* Once nothing interferes any more, applying again and doing what the        *)
(* reports ask brings OpenRouter to the configuration and keeps it there.     *)
EventuallyMatches == <>[]Matching

(* ADR-0006 item 3: "an equal digest is converged".                           *)
ConvergedConfigHeld ==
    run.at = "reported" /\ run.outcome = "converged" /\ ~run.disturbed =>
        \A d \in Destinations : ConfigHeld(d)
=============================================================================
