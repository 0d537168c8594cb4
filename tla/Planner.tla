------------------------------ MODULE Planner ------------------------------
(* plan::plan: from the document and one complete read of OpenRouter, what is *)
(* to be done about each configured block, and what holds it back.  A remote  *)
(* object is [matches, within, under, config]: whether its managed fields are *)
(* as configured, its workspace, a key's guardrail, a destination's           *)
(* write-only configuration, which no read returns.  A run's --workspace      *)
(* scope, budgets (Budgets) and reports on what the configuration no longer   *)
(* describes are left out.                                                    *)
EXTENDS Bindings

Kinds == {"recovery_required", "create", "update", "replace", "unassign", "assign",
          "adoption_required", "missing", "no_op"}

Assignment(k) == <<"assignment", k>>
ASSUME AssignmentsAssumption == \A k \in Keys : Assignment(k) \notin Blocks

(* `id` is what the write is addressed to, `needs` what must come first,      *)
(* `config` whether a destination's configuration travels with it.            *)
Action(on, kind, id, needs) ==
    [on |-> on, kind |-> kind, id |-> id, needs |-> needs, config |-> FALSE, blocked |-> FALSE]
Blocked(action) == [action EXCEPT !.blocked = TRUE]

Writes(action) == action.kind \in {"create", "update", "replace", "unassign", "assign"}
Executable(action) == Writes(action) /\ ~action.blocked
BlocksDependents(action) == action.kind \in {"recovery_required", "adoption_required", "missing"}
HoldsBack(action) == Writes(action) \/ BlocksDependents(action) \/ action.blocked
CreatesItsResource(action) == action.kind \in {"create", "replace"}

-----------------------------------------------------------------------------
(* Where a block's object belongs: in the workspace the block names, or the   *)
(* one that names it as its default.                                          *)
Home(b) == IF Placement[b] # None THEN Placement[b]
           ELSE IF b \in Guardrails THEN DefaultingTo(b) ELSE None
PlacedIn(doc, b) == IF Home(b) = None THEN None ELSE doc.id[Home(b)]
WorkspaceNeed(b) == {Home(b)} \ {None}

Elsewhere(doc, b, within) == PlacedIn(doc, b) # None /\ within # PlacedIn(doc, b)

(* Objects that answer to the block's name and that no address owns.          *)
UnownedNamed(doc, seen, b) == (Named[b] \cap DOMAIN seen) \ Owned(doc)

AsConfigured(seen, id) == IF seen[id].matches THEN "no_op" ELSE "update"
(* Slip: what the state file does not know is not there.                      *)
CreateRegardless(doc, seen, b) == "create"
AdoptOrCreate(doc, seen, b) == IF UnownedNamed(doc, seen, b) = {} THEN "create" ELSE "adoption_required"

WorkspaceAction(doc, seen, w) ==
    Action(w, CASE ~Bound(doc, w)                -> AdoptOrCreate(doc, seen, w)
                [] Bound(doc, w) /\ doc.id[w] \notin DOMAIN seen -> "missing"
                [] OTHER                         -> AsConfigured(seen, doc.id[w]),
           doc.id[w], {})

(* An equal digest is all the evidence there is of an equal configuration.    *)
DestinationAction(doc, seen, want, d) ==
    LET id == doc.id[d]
        present == id \in DOMAIN seen
        stale == doc.digest[d] # want[d]
        kind == CASE ~Bound(doc, d) -> AdoptOrCreate(doc, seen, d)
                  [] Bound(doc, d) /\ ~present -> "missing"
                  [] OTHER -> IF stale THEN "update" ELSE AsConfigured(seen, id)
        action == [Action(d, kind, id, WorkspaceNeed(d)) EXCEPT !.config = stale]
    IN  IF present /\ Elsewhere(doc, d, seen[id].within)
          THEN Blocked(Action(d, "no_op", id, WorkspaceNeed(d))) ELSE action

-----------------------------------------------------------------------------
(* A default guardrail's identity is its workspace's to supply.               *)
NamedDefault(doc, g) == IF DefaultingTo(g) = None THEN None ELSE doc.default[DefaultingTo(g)]
GuardrailIdentity(doc, g) == IF Bound(doc, g) THEN doc.id[g] ELSE NamedDefault(doc, g)

DefaultConflict(doc, g) ==
    NamedDefault(doc, g) # None /\ IF Bound(doc, g) THEN doc.id[g] # NamedDefault(doc, g)
                                   ELSE \E h \in Guardrails : doc.id[h] = NamedDefault(doc, g)

(* The bound workspaces that are there and name this identity: such a default *)
(* guardrail is never missing, only not yet written.                          *)
Defaulting(doc, seen, id) == {w \in Workspaces : doc.default[w] = id /\ doc.id[w] \in DOMAIN seen}

FixedElsewhere(doc, seen, g) ==
    LET id == GuardrailIdentity(doc, g)
    IN  \/ id \in DOMAIN seen /\ Elsewhere(doc, g, seen[id].within)
        \/ /\ id # None /\ id \notin DOMAIN seen
           /\ \E w \in Defaulting(doc, seen, id) : Elsewhere(doc, g, doc.id[w])

(* A guardrail that is gone is recreated only if nothing answers to its name. *)
MayRecreate(doc, seen, g) == Named[g] # {} /\ Named[g] \cap DOMAIN seen = {}

GuardrailKind(doc, seen, g) ==
    LET id == GuardrailIdentity(doc, g)
    IN  CASE id = None /\ DefaultingTo(g) # None -> "create"
          [] id = None /\ DefaultingTo(g) = None -> AdoptOrCreate(doc, seen, g)
          [] id \in DOMAIN seen -> AsConfigured(seen, id)
          [] OTHER -> IF Defaulting(doc, seen, id) # {} \/ MayRecreate(doc, seen, g)
                        THEN "create" ELSE "missing"

GuardrailAction(doc, seen, g) ==
    LET id == GuardrailIdentity(doc, g)
        needs == WorkspaceNeed(g)
    IN  IF DefaultConflict(doc, g) \/ FixedElsewhere(doc, seen, g)
          THEN Blocked(Action(g, "no_op", id, needs))
          ELSE Action(g, GuardrailKind(doc, seen, g), id, needs)

-----------------------------------------------------------------------------
(* Keys and their assignments.  A key's workspace is fixed at creation, so a  *)
(* difference in it is a replacement.                                         *)
KeyNeeds(k) == ({Placement[k]} \cup {RailOf[k]}) \ {None}

KeyKind(doc, seen, k) ==
    LET id == doc.id[k]
    IN  CASE PendingAt(doc, k) -> (CASE doc.pending.phase = "unknown" -> "recovery_required"
                                     [] doc.pending.phase = "dead" -> "replace"
                                     [] OTHER -> "no_op")
          [] ~PendingAt(doc, k) /\ ~Bound(doc, k) -> AdoptOrCreate(doc, seen, k)
          [] ~PendingAt(doc, k) /\ Bound(doc, k) /\ id \notin DOMAIN seen -> "missing"
          [] OTHER -> IF Elsewhere(doc, k, seen[id].within) THEN "replace" ELSE AsConfigured(seen, id)

KeyAction(doc, seen, k) ==
    LET kind == KeyKind(doc, seen, k)
        needs == IF kind \in {"create", "replace"} THEN KeyNeeds(k) ELSE {}
        action == Action(k, kind, doc.id[k], needs)
    IN  IF PendingAt(doc, k) /\ doc.pending.phase # "delivered" THEN Blocked(action) ELSE action

(* Only a guardrail that is bound and present can be the one a key is under.  *)
AssignmentAction(doc, seen, k) ==
    LET at == Assignment(k)
        rail == RailOf[k]
        held == seen[doc.id[k]].under
    IN  CASE KeyKind(doc, seen, k) \in {"create", "replace"} ->
                IF rail = None THEN {} ELSE {Action(at, "assign", None, {k, rail})}
          [] KeyKind(doc, seen, k) \notin {"create", "replace"} /\ doc.id[k] \notin DOMAIN seen -> {}
          [] OTHER ->
                IF rail = None
                  THEN {Action(at, IF held = None THEN "no_op" ELSE "unassign", held, {})}
                  ELSE IF doc.id[rail] \in DOMAIN seen /\ held = doc.id[rail]
                    THEN {Action(at, "no_op", held, {})}
                    ELSE {Action(at, "assign", None, {rail})}

Proposals(doc, seen, want) ==
         {WorkspaceAction(doc, seen, w) : w \in Workspaces}
    \cup {DestinationAction(doc, seen, want, d) : d \in Destinations}
    \cup {GuardrailAction(doc, seen, g) : g \in Guardrails}
    \cup {KeyAction(doc, seen, k) : k \in Keys}
    \cup UNION {AssignmentAction(doc, seen, k) : k \in {k \in Keys : ~PendingAt(doc, k)}}

-----------------------------------------------------------------------------
(* mark_blocked.                                                              *)

(* One key at a time: while an operation stands, no other key is created.     *)
HeldByOperation(doc, action) ==
    /\ doc.pending # None /\ doc.pending.phase = "dead"
    /\ action.on \in Keys \ {doc.pending.key}
    /\ CreatesItsResource(action)

(* What exists already, in a block whose workspace nothing binds: there is    *)
(* nothing to judge its placement by.                                         *)
BlockOf(on) == IF on \in Blocks THEN on ELSE CHOOSE k \in Keys : on = Assignment(k)
Exists(doc, b) == Bound(doc, b) \/ (b \in Keys /\ (PendingAt(doc, b) \/ doc.retained[b] # {}))
Unplaceable(doc, plan) ==
    {a.on : a \in {a \in plan :
        LET b == BlockOf(a.on)
        IN  /\ b \notin Workspaces
            /\ Exists(doc, b) /\ Placement[b] # None /\ ~Bound(doc, Placement[b])
            /\ ~CreatesItsResource(a)
            /\ \A c \in plan : c.on = b /\ a.on # b => ~CreatesItsResource(c)}}

Dependents(plan, on) == {a.on : a \in {a \in plan : a.needs \cap on # {}}}

(* The fixpoint: a workspace, a guardrail in it, a key under that, and the    *)
(* key's assignment are the longest chain there is.                           *)
AllDependents(plan, on) ==
    LET once == on \cup Dependents(plan, on)
        twice == once \cup Dependents(plan, once)
    IN  twice \cup Dependents(plan, twice)

Plan(doc, seen, want) ==
    LET proposed == {IF HeldByOperation(doc, a) THEN Blocked(a) ELSE a : a \in Proposals(doc, seen, want)}
        unplaceable == Unplaceable(doc, proposed)
        unresolved == AllDependents(proposed, unplaceable \cup
                          {a.on : a \in {a \in proposed : BlocksDependents(a) \/ a.blocked}})
        Waits(a) == ~BlocksDependents(a) /\ (a.on \in unplaceable \/ a.needs \cap unresolved # {})
    IN  {IF Waits(a) THEN Blocked(a) ELSE a : a \in proposed}

(* is_blocked of a plan: an operation of unknown outcome stops the run.       *)
StopsRun(plan) == \E a \in plan : a.kind = "recovery_required"
=============================================================================
