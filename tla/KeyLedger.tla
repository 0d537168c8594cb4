----------------------------- MODULE KeyLedger -----------------------------
(***************************************************************************)
(* The key section of the state file (crates/core/src/state/mod.rs) as a   *)
(* value: what one address owns, and every mutation of it as a guard       *)
(* (CanX: the early returns of the method) and a result (X: what the       *)
(* method assigns).  No variables: KeyState drives these operators as the  *)
(* state API, Issuance drives them as the commands do.                     *)
(*                                                                         *)
(* Abstracted: timestamps, the display name and the workspace of a pending *)
(* operation, which no mutation reads.  Nor does one read the operation    *)
(* identifier: it is kept as the name of one creation attempt.  The Vec of *)
(* retained hashes is a set: its order is never read, and distinctness of  *)
(* its hashes is an invariant.                                             *)
(*                                                                         *)
(* A definition marked Slip is a plausible mistake in the one after it,    *)
(* kept to show that the properties can tell the two apart.                *)
(***************************************************************************)
EXTENDS Integers

CONSTANTS
  Address,         (* local key addresses                                  *)
  Hash,            (* identities of remote keys                            *)
  Receiver,        (* fingerprints of delivery destinations                *)
  OpId,            (* operation identifiers                                *)
  MaxGeneration,   (* the largest generation: u32::MAX, small for TLC      *)
  None             (* Option::None, and an address with no binding         *)

ASSUME MaxGenerationAssumption == MaxGeneration \in Nat \ {0}

Generation == 1 .. MaxGeneration

ImportedOrigin == "imported"
CreatedOrigin  == "created"
Origin == {ImportedOrigin, CreatedOrigin}

HashlessPhase == {"create_started", "create_ambiguous"}
HashedPhase == {"created", "secured", "delivery_started",
                "delivery_ambiguous", "delivered"}
Phase == HashlessPhase \cup HashedPhase

RetainedStatus == {"awaiting_retirement", "retired", "retirement_failed",
                   "failed_candidate"}

CurrentKey == [hash : Hash, generation : Generation,
               receiver : Receiver \cup {None}]
RetainedKey == [hash : Hash, generation : Generation,
                status : RetainedStatus]
PendingOperation == [id : OpId, generation : Generation, phase : Phase,
                     hash : Hash \cup {None}, rejected : BOOLEAN,
                     receiver : Receiver]
KeyBinding == [origin : Origin,
               current : CurrentKey \cup {None},
               pending : PendingOperation \cup {None},
               retained : SUBSET RetainedKey,
               generation_floor : 0 .. MaxGeneration]

(* None is a value of its own: no hash, receiver or record is None. *)
ASSUME NoneAssumption ==
  /\ None \notin Hash
  /\ None \notin Receiver
  /\ None \notin CurrentKey
  /\ None \notin PendingOperation
  /\ None \notin KeyBinding

(* State::keys: a BTreeMap; None marks an address it has no entry for. *)
Keys == [Address -> KeyBinding \cup {None}]
NoKeys == [a \in Address |-> None]

-----------------------------------------------------------------------------
(* Reading a binding. *)

Bound(keys, a) == keys[a] # None
IsPending(keys, a) == Bound(keys, a) /\ keys[a].pending # None

(* KeyBinding::hashes *)
Names(b, h) == \/ b.current # None /\ b.current.hash = h
               \/ b.pending # None /\ b.pending.hash = h
               \/ \E r \in b.retained : r.hash = h

(* State::address_owning *)
Owns(keys, a, h) == Bound(keys, a) /\ Names(keys[a], h)
Owned(keys, h) == \E a \in Address : Owns(keys, a, h)

(* The generations of the current key and of the retained keys, whose      *)
(* largest is KeyBinding::settled_generation.                              *)
Settled(b) == {r.generation : r \in b.retained}
              \cup (IF b.current = None THEN {} ELSE {b.current.generation})

(* Every generation KeyBinding::highest_generation takes the largest of.   *)
Recorded(keys, a) ==
  IF ~Bound(keys, a) THEN {0}
  ELSE Settled(keys[a]) \cup {keys[a].generation_floor}
       \cup (IF keys[a].pending = None THEN {}
             ELSE {keys[a].pending.generation})

(* g > highest_generation, without naming the maximum *)
Unspent(keys, a, g) == \A n \in Recorded(keys, a) : g > n

HighestGeneration(keys, a) ==
  CHOOSE n \in Recorded(keys, a) : \A m \in Recorded(keys, a) : n >= m

(* Slip: the successor is taken without checked_add. *)
NextGenerationUnchecked(keys, a, desired) ==
  LET next == HighestGeneration(keys, a) + 1
  IN IF desired > next THEN desired ELSE next

(* next_generation (ops/issuance.rs): the higher of the configured and the *)
(* next free number; None when checked_add overflows.                      *)
NextGeneration(keys, a, desired) ==
  LET next == HighestGeneration(keys, a) + 1
  IN IF next > MaxGeneration THEN None
     ELSE IF desired > next THEN desired ELSE next

(* check_nothing_pending: one operation in the whole file. *)
NothingPending(keys) == \A a \in Address : ~IsPending(keys, a)

PendingIn(keys, a, phases) ==
  IsPending(keys, a) /\ keys[a].pending.phase \in phases

Put(keys, a, b) == [keys EXCEPT ![a] = b]

RetainedAs(h, g, status) == [hash |-> h, generation |-> g, status |-> status]

-----------------------------------------------------------------------------
(* Slip: an import that does not look at the retained hashes. *)
CanBindSuperseded(keys, a, h, g) ==
  /\ g >= 1
  /\ \A b \in Address \ {a} : ~Owns(keys, b, h)
  /\ Bound(keys, a) =>
       /\ keys[a].pending = None
       /\ keys[a].current # None => keys[a].current.hash = h
       /\ Unspent(keys, a, g)

(* import: State::bind_key with State::check_bindable *)
CanBindKey(keys, a, h, g) ==
  /\ g >= 1
  /\ \A b \in Address \ {a} : ~Owns(keys, b, h)
  /\ Bound(keys, a) =>
       /\ keys[a].pending = None
       /\ \A r \in keys[a].retained : r.hash # h
       /\ keys[a].current # None => keys[a].current.hash = h
       /\ \/ keys[a].current # None /\ keys[a].current.generation = g
          \/ Unspent(keys, a, g)

BindKey(keys, a, h, g) ==
  IF Bound(keys, a) /\ keys[a].current # None
  THEN Put(keys, a, [keys[a] EXCEPT !.current = [@ EXCEPT !.generation = g]])
  ELSE Put(keys, a,
    [origin |-> ImportedOrigin,
     current |-> [hash |-> h, generation |-> g, receiver |-> None],
     pending |-> None,
     retained |-> IF Bound(keys, a) THEN keys[a].retained ELSE {},
     generation_floor |->
       IF Bound(keys, a) THEN keys[a].generation_floor ELSE 0])

(* State::begin_create *)
CanBeginCreate(keys, a, g) == NothingPending(keys) /\ Unspent(keys, a, g)

BeginCreate(keys, a, g, r, id) ==
  LET operation == [id |-> id, generation |-> g, phase |-> "create_started",
                    hash |-> None, rejected |-> FALSE, receiver |-> r]
  IN IF Bound(keys, a)
     THEN Put(keys, a, [keys[a] EXCEPT !.pending = operation])
     ELSE Put(keys, a,
       [origin |-> CreatedOrigin, current |-> None, pending |-> operation,
        retained |-> {}, generation_floor |-> 0])

-----------------------------------------------------------------------------
(* State::advance_key, one pair of operators per Transition that differs.  *)
(* Transition::requires and ::target.                                      *)
Step == [create_ambiguous   |-> <<"create_started", "create_ambiguous">>,
         created            |-> <<"create_started", "created">>,
         secured            |-> <<"created", "secured">>,
         delivery_started   |-> <<"secured", "delivery_started">>,
         delivery_ambiguous |-> <<"delivery_started", "delivery_ambiguous">>,
         delivery_rejected  |-> <<"delivery_started", "secured">>,
         delivered          |-> <<"delivery_started", "delivered">>]

Transition == {"create_ambiguous", "created", "secured", "delivery_started",
               "delivery_ambiguous", "delivery_rejected", "delivered"}

(* Slip: a delivery the receiver refused may be started again. *)
CanRedeliver(keys, a, t, h) ==
  /\ PendingIn(keys, a, {Step[t][1]})
  /\ t = "created" => ~Owned(keys, h)

(* h is the hash Transition::Created carries; the others ignore it. *)
CanAdvanceKey(keys, a, t, h) ==
  /\ PendingIn(keys, a, {Step[t][1]})
  /\ t = "created" => ~Owned(keys, h)
  /\ t = "delivery_started" => ~keys[a].pending.rejected

AdvanceKey(keys, a, t, h) ==
  LET p == keys[a].pending
  IN Put(keys, a, [keys[a] EXCEPT !.pending =
       [p EXCEPT !.phase = Step[t][2],
                 !.hash = IF t = "created" THEN h ELSE p.hash,
                 !.rejected = (t = "delivery_rejected") \/ p.rejected]])

-----------------------------------------------------------------------------
(* Leaving the pending slot. *)

DropPending(keys, a) == Put(keys, a, [keys[a] EXCEPT !.pending = None])

(* The operation's key h moves to the retained hashes, never to be current.*)
RetainPending(keys, a, h) ==
  LET failed == RetainedAs(h, keys[a].pending.generation, "failed_candidate")
  IN Put(keys, a, [keys[a] EXCEPT !.pending = None,
                                  !.retained = @ \cup {failed}])

(* State::abandon_create *)
CanAbandonCreate(keys, a) == PendingIn(keys, a, {"create_started"})

(* State::clear_ambiguous_create *)
CanClearAmbiguous(keys, a) == PendingIn(keys, a, HashlessPhase)

(* Slip: the attested hash is not compared with the ones already owned. *)
CanRetainAnything(keys, a, h) == PendingIn(keys, a, HashlessPhase)

(* State::retain_leaked_candidate *)
CanRetainLeaked(keys, a, h) ==
  PendingIn(keys, a, HashlessPhase) /\ ~Owned(keys, h)

(* State::retire_candidate *)
CanRetireCandidate(keys, a) == PendingIn(keys, a, HashedPhase \ {"delivered"})
RetireCandidate(keys, a) == RetainPending(keys, a, keys[a].pending.hash)

(* State::promote_key *)
CanPromoteKey(keys, a) == PendingIn(keys, a, {"delivered"})
PromoteKey(keys, a) ==
  LET b == keys[a]
      predecessor == IF b.current = None THEN {}
                     ELSE {RetainedAs(b.current.hash, b.current.generation,
                                      "awaiting_retirement")}
  IN Put(keys, a,
       [origin |-> CreatedOrigin,
        current |-> [hash |-> b.pending.hash,
                     generation |-> b.pending.generation,
                     receiver |-> b.pending.receiver],
        pending |-> None,
        retained |-> b.retained \cup predecessor,
        generation_floor |-> b.generation_floor])

-----------------------------------------------------------------------------
(* The end of a key's life. *)

(* State::decommission_current *)
CanDecommission(keys, a, h) ==
  /\ Bound(keys, a)
  /\ keys[a].pending = None
  /\ keys[a].current # None /\ keys[a].current.hash = h

Decommission(keys, a, status) ==
  LET b == keys[a]
      old == RetainedAs(b.current.hash, b.current.generation, status)
  IN Put(keys, a, [b EXCEPT !.current = None, !.retained = @ \cup {old}])

(* State::drop_retained; r is the entry whose hash the caller names. *)
CanDropRetained(keys, a, r) == Bound(keys, a) /\ r \in keys[a].retained

(* Slip: a dropped key releases its generation. *)
KeptFloor(floor, g) == floor
RaisedFloor(floor, g) == IF g > floor THEN g ELSE floor

DropRetained(keys, a, r) ==
  LET b == keys[a]
  IN Put(keys, a, [b EXCEPT !.retained = @ \ {r},
                            !.generation_floor = RaisedFloor(@, r.generation)])

(* State::set_retained_status *)
SetRetainedStatus(keys, a, r, status) ==
  LET b == keys[a]
  IN Put(keys, a, [b EXCEPT
       !.retained = (@ \ {r}) \cup {[r EXCEPT !.status = status]}])

(* State::forget_key: the whole binding goes, its high-water mark with it. *)
CanForgetKey(keys, a) == Bound(keys, a) /\ keys[a].pending = None
ForgetKey(keys, a) == Put(keys, a, None)

-----------------------------------------------------------------------------
(* State::check_invariants: what the reader and the writer of the file     *)
(* refuse a ledger for.                                                    *)

(* check_one_operation *)
OneOperation(keys) ==
  \A a, b \in Address : IsPending(keys, a) /\ IsPending(keys, b) => a = b

(* One remote key belongs to exactly one address ...                       *)
DistinctHashes(keys) ==
  \A a, b \in Address : \A h \in Hash :
    Owns(keys, a, h) /\ Owns(keys, b, h) => a = b

(* ... in exactly one role. *)
DistinctRoles(b) ==
  /\ \A r, s \in b.retained : r.hash = s.hash => r = s
  /\ b.current # None => \A r \in b.retained : r.hash # b.current.hash
  /\ b.pending # None => \A r \in b.retained : r.hash # b.pending.hash
  /\ b.current # None /\ b.pending # None
       => b.current.hash # b.pending.hash

(* check_distinct_generations *)
DistinctGenerations(b) ==
  /\ \A r, s \in b.retained : r.generation = s.generation => r = s
  /\ b.current # None =>
       \A r \in b.retained : r.generation # b.current.generation

(* check_delivery_record *)
DeliveryRecord(b) ==
  b.current # None => (b.origin = CreatedOrigin <=> b.current.receiver # None)

(* the tail of check_binding *)
PendingShape(b) ==
  b.pending # None =>
    /\ b.pending.phase \in HashedPhase <=> b.pending.hash # None
    /\ b.pending.rejected => b.pending.phase = "secured"
    /\ \A n \in Settled(b) : b.pending.generation > n

(* check_binding *)
CheckBinding(b) ==
  /\ DistinctRoles(b)
  /\ DistinctGenerations(b)
  /\ DeliveryRecord(b)
  /\ PendingShape(b)

CheckInvariants(keys) ==
  /\ OneOperation(keys)
  /\ DistinctHashes(keys)
  /\ \A a \in Address : Bound(keys, a) => CheckBinding(keys[a])
=============================================================================
