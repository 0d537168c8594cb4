------------------------------ MODULE Budgets ------------------------------
(* The spending budgets of one workspace, and what apply lets happen inside   *)
(* the workspace while they are not in force: diff::workspace_changes,        *)
(* ops::apply::budget_writes and write_budgets, the planner's                 *)
(* hold_back_unbudgeted and the run's own note_unbudgeted.  An interval is    *)
(* its rank, narrowest first; an amount of 0 is a budget that is not set.     *)
(* The server is external: what it refuses is what config::validate and       *)
(* apply say of it.                                                           *)
EXTENDS Integers, FiniteSets, Sequences, SequencesExt

CONSTANTS Widest,      \* the rank of the widest interval (4 in the code: lifetime)
          MaxAmount,   \* bound: amounts are 1..MaxAmount
          MaxMishaps,  \* bound: lost answers, declined writes, stopped runs
          MaxEdits     \* bound: edits of the configuration

ASSUME BoundsAssumption == {Widest, MaxAmount} \subseteq Nat \ {0} /\ {MaxMishaps, MaxEdits} \subseteq Nat

VARIABLES want,      \* the workspace's block in the configuration
          remote,    \* the workspace at OpenRouter
          bound,     \* whether the state file binds the workspace
          run,       \* the apply in progress
          inFlight,  \* writes whose answer was lost and that may still take effect
          mishaps, edits

vars == <<want, remote, bound, run, inFlight, mishaps, edits>>

Absent == 0
Interval == 1..Widest

(* lifetime > monthly > weekly > daily, over the intervals that are set.      *)
Ordered(table) == \A i, j \in Interval :
    i < j /\ table[i] # Absent /\ table[j] # Absent => table[i] < table[j]

Table == {t \in [Interval -> 0..MaxAmount] : Ordered(t)}
NoBudgets == [i \in Interval |-> Absent]

(* A validated block: `budgets` may be left unmanaged, and the BYOK setting   *)
(* needs a budget to travel with.                                             *)
Block == {b \in [managed : BOOLEAN, budgets : Table, byok : {"on", "off", "unmanaged"}] :
             /\ ~b.managed => b.budgets = NoBudgets
             /\ b.byok # "unmanaged" => b.budgets # NoBudgets}

Workspace == [budgets : Table, byok : {"on", "off"}]
Unread == [budgets |-> NoBudgets, byok |-> "absent"]

-----------------------------------------------------------------------------
(* What a plan computes from one read.                                        *)

Changed(block, read) == {i \in Interval : block.managed /\ block.budgets[i] # read.budgets[i]}
ByokChanged(block, read) == block.byok # "unmanaged" /\ block.byok # read.byok
BudgetsDiffer(block, read) == Changed(block, read) # {} \/ ByokChanged(block, read)

NarrowestFirst(S) == CHOOSE s \in [1..Cardinality(S) -> S] :
                         \A p, q \in DOMAIN s : p < q => s[p] < s[q]
WidestFirst(S) == Reverse(NarrowestFirst(S))

Deleted(block, read) == {i \in Changed(block, read) : block.budgets[i] = Absent}
Decreased(block, read) == {i \in Changed(block, read) :
                             block.budgets[i] # Absent /\ block.budgets[i] < read.budgets[i]}
Increased(block, read) == Changed(block, read) \ (Deleted(block, read) \cup Decreased(block, read))

(* Slips: an interval that changes anyway is written again; the setting has   *)
(* no request to travel with.                                                 *)
CarriersTwice(block, read) == IF ByokChanged(block, read)
                                THEN {i \in Interval : block.budgets[i] # Absent} ELSE {}
NoCarriers(block, read) == {}

(* The intervals a changed BYOK setting rewrites with the value they have.    *)
Carriers(block, read) == IF ByokChanged(block, read)
                           THEN {i \in Interval \ Changed(block, read) : block.budgets[i] # Absent} ELSE {}

(* Slip: increases narrowest first.                                           *)
BudgetWritesNarrow(block, read) == NarrowestFirst(Deleted(block, read))
                                   \o NarrowestFirst(Increased(block, read))
                                   \o NarrowestFirst(Decreased(block, read))
                                   \o WidestFirst(Carriers(block, read))
(* Deletes, then increases, then decreases, then the carriers.                *)
BudgetWrites(block, read) == NarrowestFirst(Deleted(block, read))
                             \o WidestFirst(Increased(block, read))
                             \o NarrowestFirst(Decreased(block, read))
                             \o WidestFirst(Carriers(block, read))

-----------------------------------------------------------------------------
(* The server's side of one write.                                            *)

Request(i) == [interval |-> i, amount |-> want.budgets[i],
               byok |-> IF ByokChanged(want, run.read) THEN want.byok ELSE "unmanaged"]

Requests == [interval : Interval, amount : 0..MaxAmount, byok : {"on", "off", "unmanaged"}]

TableAfter(r) == [remote.budgets EXCEPT ![r.interval] = r.amount]
Accepts(r) == Ordered(TableAfter(r))
Applied(r) == [budgets |-> TableAfter(r),
               byok |-> IF r.amount = Absent \/ r.byok = "unmanaged" THEN remote.byok ELSE r.byok]

-----------------------------------------------------------------------------
(* A run.  `read` is what it planned from, `left` the intervals still to be   *)
(* written, `held` that the planner held the workspace's issuing and widening *)
(* writes back, `refused` the intervals the ordering rule refused, `failed`   *)
(* those declined for another reason or never answered.  `disturbed` and      *)
(* `landed` are kept for the properties: something other than the run's own   *)
(* writes decided an outcome, and a write given up on took effect since the   *)
(* read.                                                                      *)

Idle == [at |-> "idle", read |-> Unread, left |-> <<>>, held |-> FALSE, refused |-> {},
         failed |-> {}, disturbed |-> FALSE, landed |-> FALSE]

Started(read, held) == [Idle EXCEPT !.at = "writing", !.read = read, !.held = held,
                                    !.left = BudgetWrites(want, read)]

Init == /\ want \in {b \in Block : b.managed}
        /\ bound \in BOOLEAN
        /\ remote \in IF bound THEN Workspace ELSE {[budgets |-> NoBudgets, byok |-> "off"]}
        /\ run = Idle
        /\ inFlight = {}
        /\ mishaps = 0
        /\ edits = 0

(* apply reads and plans a workspace it has bound.                            *)
PlanBound == /\ run.at = "idle"
             /\ bound
             /\ run' = Started(remote, BudgetsDiffer(want, remote))
             /\ UNCHANGED <<want, remote, bound, inFlight, mishaps, edits>>

(* create_workspace: the workspace exists and is recorded, its budgets are    *)
(* next.  The planner had no binding to judge, so it held nothing back.       *)
CreateWorkspace == /\ run.at = "idle"
                   /\ ~bound
                   /\ bound' = TRUE
                   /\ run' = Started(Unread, FALSE)
                   /\ UNCHANGED <<want, remote, inFlight, mishaps, edits>>

Advanced == [run EXCEPT !.left = Tail(@)]

Settle == /\ run.at = "writing"
          /\ run.left # <<>>
          /\ Accepts(Request(Head(run.left)))
          /\ remote' = Applied(Request(Head(run.left)))
          /\ run' = Advanced
          /\ UNCHANGED <<want, bound, inFlight, mishaps, edits>>

(* The intervals after a refused one are still attempted.                     *)
AttemptRest == [run EXCEPT !.left = Tail(@), !.refused = @ \cup {Head(run.left)}]

Refuse == /\ run.at = "writing"
          /\ run.left # <<>>
          /\ ~Accepts(Request(Head(run.left)))
          /\ run' = AttemptRest
          /\ UNCHANGED <<want, remote, bound, inFlight, mishaps, edits>>

(* A definite refusal that is not the ordering rule's: a plan restriction.    *)
Decline == /\ run.at = "writing"
           /\ run.left # <<>>
           /\ mishaps < MaxMishaps
           /\ run' = [Advanced EXCEPT !.failed = @ \cup {Head(run.left)}, !.disturbed = TRUE]
           /\ mishaps' = mishaps + 1
           /\ UNCHANGED <<want, remote, bound, inFlight, edits>>

(* An answer that settles nothing: the write may take effect, at any time.    *)
LoseAnswer == /\ run.at = "writing"
              /\ run.left # <<>>
              /\ mishaps < MaxMishaps
              /\ inFlight' = inFlight \cup {Request(Head(run.left))}
              /\ run' = [Advanced EXCEPT !.failed = @ \cup {Head(run.left)}, !.disturbed = TRUE]
              /\ mishaps' = mishaps + 1
              /\ UNCHANGED <<want, remote, bound, edits>>

(* A write given up on reaches the server, or never does.                     *)
Land(r) == /\ remote' = IF Accepts(r) THEN Applied(r) ELSE remote
           /\ inFlight' = inFlight \ {r}
           /\ run' = IF run.at = "idle" THEN run ELSE [run EXCEPT !.disturbed = TRUE, !.landed = TRUE]
           /\ UNCHANGED <<want, bound, mishaps, edits>>

Vanish(r) == /\ inFlight' = inFlight \ {r}
             /\ UNCHANGED <<want, remote, bound, run, mishaps, edits>>

(* Slip: a write without an answer counts as settled.                         *)
RefusalsOnly == run.refused = {}
(* The run's own judgement, once its budget writes are through.               *)
Converged == run.refused = {} /\ run.failed = {}

(* The phases after the workspaces: a key is issued, or a limit widened,      *)
(* unless the planner or this run holds it back.                              *)
Proceed == /\ run.at = "writing"
           /\ run.left = <<>>
           /\ run' = IF ~run.held /\ Converged THEN [run EXCEPT !.at = "issuing"] ELSE [run EXCEPT !.at = "held"]
           /\ UNCHANGED <<want, remote, bound, inFlight, mishaps, edits>>

Finish == /\ run.at \in {"issuing", "held"}
          /\ run' = Idle
          /\ UNCHANGED <<want, remote, bound, inFlight, mishaps, edits>>

(* The process dies, or the workspace's own PATCH fails and the run stops.    *)
Stop == /\ run.at # "idle"
        /\ mishaps < MaxMishaps
        /\ run' = Idle
        /\ mishaps' = mishaps + 1
        /\ UNCHANGED <<want, remote, bound, inFlight, edits>>

(* The operator edits the block between two runs: a run keeps the one it      *)
(* loaded.                                                                    *)
Edit == /\ run.at = "idle"
        /\ edits < MaxEdits
        /\ want' \in Block
        /\ edits' = edits + 1
        /\ UNCHANGED <<remote, bound, run, inFlight, mishaps>>

Write == Settle \/ Refuse
Work == PlanBound \/ CreateWorkspace \/ Write \/ Proceed \/ Finish

Next == \/ Work
        \/ Decline
        \/ LoseAnswer
        \/ \E r \in inFlight : Land(r) \/ Vanish(r)
        \/ Stop
        \/ Edit

Spec == Init /\ [][Next]_vars

(* Runs go on and are started again; a write given up on lands or is lost.    *)
FairSpec == Spec /\ WF_vars(Work) /\ WF_vars(\E r \in inFlight : Land(r) \/ Vanish(r))

-----------------------------------------------------------------------------
(* The variables hold what they are meant to, the server's table is ordered,  *)
(* and no interval is written twice in one run.                               *)
TypeOK == /\ want \in Block
          /\ remote \in Workspace
          /\ bound \in BOOLEAN
          /\ run.at \in {"idle", "writing", "issuing", "held"}
          /\ run.read \in Workspace \cup {Unread}
          /\ IsInjective(run.left) /\ ToSet(run.left) \subseteq Interval
          /\ ToSet(run.left) \cap (run.refused \cup run.failed) = {}
          /\ inFlight \subseteq Requests
          /\ mishaps \in 0..MaxMishaps /\ edits \in 0..MaxEdits

(* Whether every budget the block manages is what the server holds.           *)
InForce == ~BudgetsDiffer(want, remote)

(* ADR-0004 item 4: nothing is issued or widened in a workspace whose         *)
(* configured budget is not in force.  A write an earlier run gave up on and  *)
(* that lands between this run's read and its issuance is beyond any client.  *)
IssuingUnderBudget == run.at = "issuing" => InForce \/ run.landed

(* The order of budget_writes meets the server's rule: when nothing but the   *)
(* run's own writes touches the table, the only write the rule refuses sets   *)
(* an interval that was not set, no wider than a narrower one still to be     *)
(* decreased.                                                                 *)
RefusedOnlyBesideAddition ==
    run.disturbed \/ \A i \in run.refused :
        /\ run.read.budgets[i] = Absent
        /\ \E n \in Decreased(want, run.read) : n < i /\ run.read.budgets[n] >= want.budgets[i]

(* A refused interval hides no other: at the end of an undisturbed run every  *)
(* interval but the refused ones is as configured.                            *)
OnlyRefusedMissing == run.at \in {"issuing", "held"} /\ ~run.disturbed
                        => Changed(want, remote) \subseteq run.refused

(* Both: a refusal is of one shape, and stays alone.                          *)
RefusalIsContained == RefusedOnlyBesideAddition /\ OnlyRefusedMissing

(* Whatever was refused, lost or landed late, applying again brings the       *)
(* budgets into force and keeps them there.                                   *)
BudgetsComeIntoForce == <>[]InForce
=============================================================================
