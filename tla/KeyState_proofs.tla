-------------------------- MODULE KeyState_proofs --------------------------
(***************************************************************************)
(* The promises of the state API, for every number of addresses, hashes,   *)
(* receivers and generations and every sequence of accepted mutations.     *)
(***************************************************************************)
EXTENDS KeyState, KeyLedger_proofs

-----------------------------------------------------------------------------
(* The ledger stays well typed and passes check_invariants.                *)

Inv == TypeOK /\ LedgerConsistent

LEMMA InvConsistent == Inv => Consistent(keys)
BY DEF Inv, TypeOK, LedgerConsistent, Consistent

LEMMA InitInv == Init => Inv
<1> SUFFICES ASSUME Init PROVE Inv
  OBVIOUS
<1>1. keys \in Keys /\ \A a \in Address : ~Bound(keys, a)
  BY DEF Init, NoKeys, Keys, Bound
<1>2. LedgerConsistent
  BY <1>1 DEF LedgerConsistent, CheckInvariants, OneOperation, IsPending,
       DistinctHashes, Owns
<1> QED BY <1>1, <1>2 DEF Inv, TypeOK, Init

(* The histories keep their types whatever the mutation. *)
LEMMA BecomeTyped ==
  ASSUME TypeOK, NEW next, Consistent(next), Become(next)
  PROVE  /\ keys' \in Keys /\ LedgerConsistent'
         /\ named' \subseteq Address \X Generation \X Hash
BY DEF TypeOK, Become, Consistent, LedgerConsistent, RecordedNames

(* One step per mutation: its lemma in KeyLedger_proofs applies. *)
LEMMA NextInv == Inv /\ [Next]_vars => Inv'
<1> SUFFICES ASSUME Inv, [Next]_vars PROVE Inv'
  OBVIOUS
<1> USE DEF Inv
<1>0. Consistent(keys)
  BY InvConsistent
<1>1. ASSUME NEW a \in Address, NEW h \in Hash, NEW g \in Generation,
             ImportKey(a, h, g)
      PROVE  Inv'
  <2>1. Consistent(BindKey(keys, a, h, g))
    BY <1>0, <1>1, BindConsistent DEF ImportKey
  <2> QED BY <1>1, <2>1, BecomeTyped DEF ImportKey, TypeOK
<1>2. ASSUME NEW a \in Address, NEW desired \in Generation,
             NEW r \in Receiver, NEW id \in OpId,
             StartCreate(a, desired, r, id)
      PROVE  Inv'
  <2> DEFINE g == NextGeneration(keys, a, desired)
  <2>1. g \in Generation
    BY <1>2, NextGenerationUnspent DEF StartCreate, TypeOK
  <2>2. Consistent(BeginCreate(keys, a, g, r, id))
    BY <1>0, <1>2, <2>1, BeginCreateConsistent DEF StartCreate
  <2> QED BY <1>2, <2>2, BecomeTyped DEF StartCreate, TypeOK
<1>3. ASSUME NEW a \in Address, NEW t \in Transition, NEW h \in Hash,
             Advance(a, t, h)
      PROVE  Inv'
  <2>1. Consistent(AdvanceKey(keys, a, t, h))
    BY <1>0, <1>3, AdvanceConsistent DEF Advance
  <2>2. handed' \subseteq Hash
    <3>1. CASE t # "delivery_started"
      BY <1>3, <3>1 DEF Advance, TypeOK
    <3>2. CASE t = "delivery_started"
      <4>1. /\ IsPending(keys, a) /\ keys[a].pending.phase = "secured"
            /\ keys[a] \in KeyBinding /\ CheckBinding(keys[a])
        BY <1>0, <1>3, <3>2, BoundWellFormed
           DEF Advance, CanAdvanceKey, PendingIn, IsPending, Step
      <4>2. keys[a].pending.hash \in Hash
        BY <4>1 DEF IsPending, KeyBinding, PendingOperation, CheckBinding,
             PendingShape, HashedPhase
      <4> QED BY <1>3, <3>2, <4>2 DEF Advance, TypeOK
    <3> QED BY <3>1, <3>2
  <2> QED BY <1>3, <2>1, <2>2, BecomeTyped DEF Advance, TypeOK
<1>4. ASSUME NEW a \in Address, AbandonCreate(a) \/ AttestAbsence(a)
      PROVE  Inv'
  <2>1. Consistent(DropPending(keys, a))
    BY <1>0, <1>4, DropPendingConsistent
       DEF AbandonCreate, AttestAbsence, CanAbandonCreate,
           CanClearAmbiguous, PendingIn
  <2> QED BY <1>4, <2>1, BecomeTyped DEF AbandonCreate, AttestAbsence, TypeOK
<1>5. ASSUME NEW a \in Address, RetireFailed(a)
      PROVE  Inv'
  <2>1. keys[a].pending.hash \in Hash /\ IsPending(keys, a)
    <3>1. /\ IsPending(keys, a) /\ keys[a].pending.phase \in HashedPhase
          /\ keys[a] \in KeyBinding /\ CheckBinding(keys[a])
      BY <1>0, <1>5, BoundWellFormed
         DEF RetireFailed, CanRetireCandidate, PendingIn, IsPending
    <3> QED BY <3>1 DEF IsPending, KeyBinding, PendingOperation,
                 CheckBinding, PendingShape
  <2>2. Consistent(RetireCandidate(keys, a))
    BY <1>0, <2>1, RetainConsistent DEF RetireCandidate
  <2> QED BY <1>5, <2>2, BecomeTyped DEF RetireFailed, TypeOK
<1>6. ASSUME NEW a \in Address, NEW h \in Hash, AttestLeak(a, h)
      PROVE  Inv'
  <2>1. Consistent(RetainPending(keys, a, h))
    BY <1>0, <1>6, RetainConsistent
       DEF AttestLeak, CanRetainLeaked, PendingIn
  <2> QED BY <1>6, <2>1, BecomeTyped DEF AttestLeak, TypeOK
<1>7. ASSUME NEW a \in Address, Promote(a)
      PROVE  Inv'
  <2>1. Consistent(PromoteKey(keys, a))
    BY <1>0, <1>7, PromoteConsistent DEF Promote
  <2> QED BY <1>7, <2>1, BecomeTyped DEF Promote, TypeOK
<1>8. ASSUME NEW a \in Address, NEW h \in Hash,
             DecommissionCurrent(a, h, "retired")
      PROVE  Inv'
  <2>1. Consistent(Decommission(keys, a, "retired"))
    BY <1>0, <1>8, DecommissionConsistent
       DEF DecommissionCurrent, RetainedStatus
  <2> QED BY <1>8, <2>1, BecomeTyped DEF DecommissionCurrent, TypeOK
<1>9. ASSUME NEW a \in Address, NEW r \in RetainedKey, ReleaseRetained(a, r)
      PROVE  Inv'
  <2>1. Consistent(DropRetained(keys, a, r))
    BY <1>0, <1>9, DropConsistent DEF ReleaseRetained
  <2> QED BY <1>9, <2>1, BecomeTyped DEF ReleaseRetained, TypeOK
<1>10. ASSUME NEW a \in Address, NEW r \in RetainedKey,
              NEW status \in {"retired", "retirement_failed"},
              RecordStatus(a, r, status)
       PROVE  Inv'
  <2>1. Consistent(SetRetainedStatus(keys, a, r, status))
    BY <1>0, <1>10, StatusConsistent DEF RecordStatus, RetainedStatus
  <2> QED BY <1>10, <2>1, BecomeTyped DEF RecordStatus, TypeOK
<1>11. ASSUME NEW a \in Address, Forget(a)
       PROVE  Inv'
  <2>1. Consistent(ForgetKey(keys, a))
    BY <1>0, ForgetConsistent
  <2> QED BY <1>11, <2>1 DEF Forget, TypeOK, Consistent, LedgerConsistent
<1>12. ASSUME UNCHANGED vars PROVE Inv'
  BY <1>12 DEF vars, TypeOK, LedgerConsistent
<1> QED BY <1>1, <1>2, <1>3, <1>4, <1>5, <1>6, <1>7, <1>8, <1>9, <1>10,
          <1>11, <1>12 DEF Next, Settle

LEMMA SpecInv == Spec => []Inv
BY InitInv, NextInv, PTL DEF Spec

(* Every ledger the state API can reach is well typed. *)
THEOREM StateTyped == Spec => []TypeOK
<1>1. Inv => TypeOK
  BY DEF Inv
<1> QED BY <1>1, SpecInv, PTL

(* No sequence of accepted mutations reaches a ledger check_invariants     *)
(* refuses, so none makes the file unwritable or unreadable.               *)
THEOREM StateConsistent == Spec => []LedgerConsistent
<1>1. Inv => LedgerConsistent
  BY DEF Inv
<1> QED BY <1>1, SpecInv, PTL

-----------------------------------------------------------------------------
(* At-most-once delivery.                                                  *)

(* An operation that may still start its delivery has a key no delivery    *)
(* was started of: with the promise, inductive.                            *)
Undelivered ==
  \A a \in Address :
    PendingIn(keys, a, {"created", "secured"}) /\ ~keys[a].pending.rejected
      => keys[a].pending.hash \notin handed

(* What a mutation that is not an advance leaves in the pending slots. *)
NoNewOperation ==
  \A a \in Address : IsPending(keys', a) =>
    \/ IsPending(keys, a) /\ keys'[a].pending = keys[a].pending
    \/ keys'[a].pending.phase = "create_started"

(* An operation that failed leaves its key, recorded or attested, behind.  *)
LEMMA FailedStep ==
  ASSUME Inv, NEW a \in Address,
         RetireFailed(a) \/ \E h \in Hash : AttestLeak(a, h)
  PROVE  \E h \in Hash :
           /\ IsPending(keys, a) /\ keys' = RetainPending(keys, a, h)
           /\ keys[a].pending.hash \in {h, None}
<1>0. Consistent(keys)
  BY InvConsistent
<1>1. CASE RetireFailed(a)
  <2>1. PendingIn(keys, a, HashedPhase)
    BY <1>1 DEF RetireFailed, CanRetireCandidate, PendingIn
  <2> QED BY <1>0, <1>1, <2>1, PendingHash
            DEF RetireFailed, RetireCandidate, Become, PendingIn
<1>2. CASE \E h \in Hash : AttestLeak(a, h)
  <2>1. PICK h \in Hash : AttestLeak(a, h)
    BY <1>2
  <2>2. /\ IsPending(keys, a) /\ keys' = RetainPending(keys, a, h)
        /\ keys[a].pending.phase \in HashlessPhase
    BY <2>1 DEF AttestLeak, CanRetainLeaked, PendingIn, Become
  <2>3. CheckBinding(keys[a])
    BY <1>0, <2>2, BoundWellFormed DEF IsPending
  <2>4. keys[a].pending.hash = None
    BY <2>2, <2>3 DEF CheckBinding, PendingShape, IsPending, HashlessPhase,
         HashedPhase
  <2> QED BY <2>2, <2>4
<1> QED BY <1>1, <1>2

(* Only StartCreate and Advance put anything in a pending slot. *)
LEMMA QuietSteps ==
  ASSUME Inv, [Next]_vars,
         ~\E a \in Address, t \in Transition, h \in Hash : Advance(a, t, h)
  PROVE  NoNewOperation /\ handed' = handed
<1>0. Consistent(keys) /\ keys \in Keys
  BY InvConsistent DEF Consistent
<1>1. ASSUME NEW a \in Address, Changed(keys', keys, a),
             \/ keys'[a].pending = None
             \/ Bound(keys, a) /\ keys'[a].pending = keys[a].pending
             \/ keys'[a].pending.phase = "create_started"
      PROVE  NoNewOperation
  BY <1>1 DEF Changed, NoNewOperation, IsPending, Bound
<1>2. ASSUME NEW a \in Address, NEW h \in Hash, NEW g \in Generation,
             ImportKey(a, h, g)
      PROVE  NoNewOperation
  <2>1. CASE Bound(keys, a) /\ keys[a].current # None
    BY <1>0, <1>1, <1>2, <2>1, RebindFields DEF ImportKey, Become
  <2>2. CASE ~(Bound(keys, a) /\ keys[a].current # None)
    BY <1>0, <1>1, <1>2, <2>2, BindFields DEF ImportKey, Become
  <2> QED BY <2>1, <2>2
<1>3. ASSUME NEW a \in Address, NEW d \in Generation, NEW r \in Receiver,
             NEW id \in OpId, StartCreate(a, d, r, id)
      PROVE  NoNewOperation
  <2> DEFINE g == NextGeneration(keys, a, d)
  <2>1. g \in Generation /\ keys' = BeginCreate(keys, a, g, r, id)
    BY <1>0, <1>3, NextGenerationUnspent DEF StartCreate, Become
  <2> HIDE DEF g
  <2> QED BY <1>0, <1>1, <2>1, BeginFields
<1>4. ASSUME NEW a \in Address, AbandonCreate(a) \/ AttestAbsence(a)
      PROVE  NoNewOperation
  <2>1. Bound(keys, a) /\ keys' = DropPending(keys, a)
    BY <1>4 DEF AbandonCreate, AttestAbsence, CanAbandonCreate,
         CanClearAmbiguous, PendingIn, IsPending, Become
  <2> QED BY <1>0, <1>1, <2>1, DropPendingFields
<1>5. ASSUME NEW a \in Address, RetireFailed(a) \/ \E h \in Hash : AttestLeak(a, h)
      PROVE  NoNewOperation
  <2>1. PICK h \in Hash : IsPending(keys, a) /\ keys' = RetainPending(keys, a, h)
    BY <1>5, FailedStep
  <2> QED BY <1>0, <1>1, <2>1, RetainFields
<1>6. ASSUME NEW a \in Address, Promote(a)
      PROVE  NoNewOperation
  <2>1. IsPending(keys, a) /\ PendingIn(keys, a, HashedPhase)
    BY <1>6 DEF Promote, CanPromoteKey, PendingIn, HashedPhase
  <2> QED BY <1>0, <1>1, <1>6, <2>1, PendingHash, PromoteFields
            DEF Promote, Become
<1>7. ASSUME NEW a \in Address, NEW h \in Hash,
             DecommissionCurrent(a, h, "retired")
      PROVE  NoNewOperation
  BY <1>0, <1>1, <1>7, DecommissionFields
     DEF DecommissionCurrent, CanDecommission, Become, RetainedStatus
<1>8. ASSUME NEW a \in Address, NEW r \in RetainedKey, ReleaseRetained(a, r)
      PROVE  NoNewOperation
  BY <1>0, <1>1, <1>8, DropFields
     DEF ReleaseRetained, CanDropRetained, Become
<1>9. ASSUME NEW a \in Address, NEW r \in RetainedKey,
             NEW status \in {"retired", "retirement_failed"},
             RecordStatus(a, r, status)
      PROVE  NoNewOperation
  BY <1>0, <1>1, <1>9, StatusFields
     DEF RecordStatus, CanDropRetained, Become, RetainedStatus
<1>10. ASSUME NEW a \in Address, Forget(a)
       PROVE  NoNewOperation
  BY <1>0, <1>10
     DEF Forget, ForgetKey, Put, Keys, NoNewOperation, IsPending, Bound
<1>11. ASSUME UNCHANGED vars
       PROVE  NoNewOperation
  BY <1>11 DEF vars, NoNewOperation, IsPending, Bound
<1>12. ASSUME NEW a \in Address, Settle(a)
       PROVE  NoNewOperation /\ handed' = handed
  <2>1. NoNewOperation
    BY <1>4, <1>5, <1>6, <1>7, <1>8, <1>9, <1>10, <1>12 DEF Settle
  <2>2. handed' = handed
    BY <1>12 DEF Settle, AbandonCreate, AttestAbsence, RetireFailed,
         Promote, AttestLeak, DecommissionCurrent, ReleaseRetained,
         RecordStatus, Forget
  <2> QED BY <2>1, <2>2
<1> QED
  BY <1>2, <1>3, <1>11, <1>12 DEF Next, ImportKey, StartCreate, vars

(* What an advance does to the operation. *)
LEMMA AdvancedOperation ==
  ASSUME Inv, NEW a \in Address, NEW t \in Transition, NEW h \in Hash,
         Advance(a, t, h)
  PROVE  /\ IsPending(keys, a) /\ keys[a].pending.phase = Step[t][1]
         /\ t = "delivery_started" => ~keys[a].pending.rejected
         /\ t = "created" => h \notin handed
         /\ handed' = IF t = "delivery_started"
                      THEN handed \cup {keys[a].pending.hash} ELSE handed
         /\ Changed(keys', keys, a)
         /\ keys'[a].current = keys[a].current
         /\ keys'[a].retained = keys[a].retained
         /\ keys'[a].generation_floor = keys[a].generation_floor
         /\ IsPending(keys', a)
         /\ keys'[a].pending.generation = keys[a].pending.generation
         /\ keys'[a].pending.phase = Step[t][2]
         /\ keys'[a].pending.hash =
              IF t = "created" THEN h ELSE keys[a].pending.hash
         /\ keys'[a].pending.rejected =
              ((t = "delivery_rejected") \/ keys[a].pending.rejected)
         /\ \A c \in Address \ {a} : ~IsPending(keys', c)
<1>1. /\ Consistent(keys) /\ keys \in Keys
      /\ IsPending(keys, a) /\ keys[a].pending.phase = Step[t][1]
      /\ t = "delivery_started" => ~keys[a].pending.rejected
      /\ t = "created" => h \notin handed
      /\ handed' = IF t = "delivery_started"
                   THEN handed \cup {keys[a].pending.hash} ELSE handed
      /\ keys' = AdvanceKey(keys, a, t, h)
  BY InvConsistent DEF Consistent, Advance, CanAdvanceKey, PendingIn, Become
<1>2. /\ Changed(keys', keys, a)
      /\ keys'[a].current = keys[a].current
      /\ keys'[a].retained = keys[a].retained
      /\ keys'[a].generation_floor = keys[a].generation_floor
      /\ keys'[a].pending # None
      /\ keys'[a].pending.generation = keys[a].pending.generation
      /\ keys'[a].pending.phase = Step[t][2]
      /\ keys'[a].pending.hash =
           IF t = "created" THEN h ELSE keys[a].pending.hash
      /\ keys'[a].pending.rejected =
           ((t = "delivery_rejected") \/ keys[a].pending.rejected)
  BY <1>1, AdvanceFields
<1>3. IsPending(keys', a)
  BY <1>2 DEF Changed, IsPending, Bound
<1>4. \A c \in Address \ {a} : ~IsPending(keys', c)
  BY <1>1, <1>2, PendingAlone DEF Changed, IsPending, Bound
<1> QED BY <1>1, <1>2, <1>3, <1>4

LEMMA InitUndelivered == Init => Undelivered
BY DEF Init, NoKeys, Undelivered, PendingIn, IsPending, Bound

LEMMA NextUndelivered == Inv /\ Undelivered /\ [Next]_vars => Undelivered'
<1> SUFFICES ASSUME Inv, Undelivered, [Next]_vars PROVE Undelivered'
  OBVIOUS
<1>1. CASE \E a \in Address, t \in Transition, h \in Hash : Advance(a, t, h)
  <2>1. PICK a \in Address, t \in Transition, h \in Hash : Advance(a, t, h)
    BY <1>1
  <2>2. ASSUME PendingIn(keys', a, {"created", "secured"}),
               ~keys'[a].pending.rejected
        PROVE  keys'[a].pending.hash \notin handed'
    <3>1. t \in {"created", "secured"}
      <4>1. /\ Step[t][2] \in {"created", "secured"}
            /\ t # "delivery_rejected"
        BY <2>1, <2>2, AdvancedOperation DEF PendingIn
      <4> QED BY <4>1 DEF Step, Transition
    <3>2. CASE t = "created"
      BY <2>1, <3>2, AdvancedOperation
    <3>3. CASE t = "secured"
      BY <2>1, <2>2, <3>3, AdvancedOperation
         DEF Undelivered, PendingIn, Step
    <3> QED BY <3>1, <3>2, <3>3
  <2>3. \A c \in Address \ {a} : ~IsPending(keys', c)
    BY <2>1, AdvancedOperation
  <2> QED BY <2>2, <2>3 DEF Undelivered, PendingIn
<1>2. CASE ~\E a \in Address, t \in Transition, h \in Hash : Advance(a, t, h)
  BY <1>2, QuietSteps DEF NoNewOperation, Undelivered, PendingIn
<1> QED BY <1>1, <1>2

(* No operation's key is offered to a receiver twice: whatever mutations   *)
(* come between, a delivery is started of a key none was started of.       *)
THEOREM StateDeliversOnce == Spec => DeliveryStartsOnce
<1>1. Inv /\ Undelivered /\ [Next]_vars =>
        [\A a \in Address : PendingIn(keys', a, {"delivery_started"}) =>
           \/ PendingIn(keys, a, {"delivery_started"})
           \/ keys'[a].pending.hash \notin handed]_vars
  <2> SUFFICES ASSUME Inv, Undelivered, [Next]_vars, NEW b \in Address,
                      PendingIn(keys', b, {"delivery_started"})
               PROVE  \/ PendingIn(keys, b, {"delivery_started"})
                      \/ keys'[b].pending.hash \notin handed
    OBVIOUS
  <2>1. CASE \E a \in Address, t \in Transition, h \in Hash : Advance(a, t, h)
    <3>1. PICK a \in Address, t \in Transition, h \in Hash : Advance(a, t, h)
      BY <2>1
    <3>2. a = b
      BY <3>1, AdvancedOperation DEF PendingIn
    <3>3. t = "delivery_started"
      BY <3>1, <3>2, AdvancedOperation DEF PendingIn, Step, Transition
    <3> QED BY <3>1, <3>2, <3>3, AdvancedOperation
              DEF Undelivered, PendingIn, Step
  <2>2. CASE ~\E a \in Address, t \in Transition, h \in Hash :
               Advance(a, t, h)
    BY <2>2, QuietSteps DEF NoNewOperation, PendingIn
  <2> QED BY <2>1, <2>2
<1> QED BY <1>1, SpecInv, InitUndelivered, NextUndelivered, PTL
          DEF Spec, DeliveryStartsOnce

-----------------------------------------------------------------------------
(* A superseded key stays superseded.                                      *)

RetainsHash(k, a, h) == Bound(k, a) /\ \E r \in k[a].retained : r.hash = h

(* h is the current key of a, or the key of its operation. *)
UsesHash(k, a, h) ==
  \/ Bound(k, a) /\ k[a].current # None /\ k[a].current.hash = h
  \/ IsPending(k, a) /\ k[a].pending.hash = h

(* No mutation lets a retained hash go and puts a key in use at once. *)
KeepsRetained ==
  \A a \in Address : \A h \in Hash :
    RetainsHash(keys, a, h) => RetainsHash(keys', a, h)
UsesNothingNew ==
  \A a \in Address : \A h \in Hash :
    UsesHash(keys', a, h) => UsesHash(keys, a, h)

LEMMA RetainedOrUsed ==
  ASSUME Inv, [Next]_vars
  PROVE  KeepsRetained \/ UsesNothingNew
<1>0. Consistent(keys) /\ keys \in Keys
  BY InvConsistent DEF Consistent
<1>1. ASSUME NEW a \in Address, Changed(keys', keys, a),
             Bound(keys, a) =>
               \A r \in keys[a].retained :
                 \E s \in keys'[a].retained : s.hash = r.hash
      PROVE  KeepsRetained
  BY <1>1 DEF Changed, KeepsRetained, RetainsHash, Bound
<1>2. ASSUME NEW a \in Address, NEW h \in Hash, NEW g \in Generation,
             ImportKey(a, h, g)
      PROVE  KeepsRetained
  <2>1. CASE Bound(keys, a) /\ keys[a].current # None
    BY <1>0, <1>1, <1>2, <2>1, RebindFields DEF ImportKey, Become
  <2>2. CASE ~(Bound(keys, a) /\ keys[a].current # None)
    BY <1>0, <1>1, <1>2, <2>2, BindFields DEF ImportKey, Become
  <2> QED BY <2>1, <2>2
<1>3. ASSUME NEW a \in Address, NEW d \in Generation, NEW r \in Receiver,
             NEW id \in OpId, StartCreate(a, d, r, id)
      PROVE  KeepsRetained
  <2> DEFINE g == NextGeneration(keys, a, d)
  <2>1. g \in Generation /\ keys' = BeginCreate(keys, a, g, r, id)
    BY <1>0, <1>3, NextGenerationUnspent DEF StartCreate, Become
  <2> HIDE DEF g
  <2> QED BY <1>0, <1>1, <2>1, BeginFields
<1>4. ASSUME NEW a \in Address, NEW t \in Transition, NEW h \in Hash,
             Advance(a, t, h)
      PROVE  KeepsRetained
  BY <1>1, <1>4, AdvancedOperation
<1>5. ASSUME NEW a \in Address, AbandonCreate(a) \/ AttestAbsence(a)
      PROVE  KeepsRetained
  <2>1. Bound(keys, a) /\ keys' = DropPending(keys, a)
    BY <1>5 DEF AbandonCreate, AttestAbsence, CanAbandonCreate,
         CanClearAmbiguous, PendingIn, IsPending, Become
  <2> QED BY <1>0, <1>1, <2>1, DropPendingFields
<1>6. ASSUME NEW a \in Address, RetireFailed(a) \/ \E h \in Hash : AttestLeak(a, h)
      PROVE  KeepsRetained
  <2>1. PICK h \in Hash : IsPending(keys, a) /\ keys' = RetainPending(keys, a, h)
    BY <1>6, FailedStep
  <2> QED BY <1>0, <1>1, <2>1, RetainFields
<1>7. ASSUME NEW a \in Address, Promote(a)
      PROVE  KeepsRetained
  <2>1. IsPending(keys, a) /\ PendingIn(keys, a, HashedPhase)
    BY <1>7 DEF Promote, CanPromoteKey, PendingIn, HashedPhase
  <2> QED BY <1>0, <1>1, <1>7, <2>1, PendingHash, PromoteFields
            DEF Promote, Become
<1>8. ASSUME NEW a \in Address, NEW h \in Hash,
             DecommissionCurrent(a, h, "retired")
      PROVE  KeepsRetained
  BY <1>0, <1>1, <1>8, DecommissionFields
     DEF DecommissionCurrent, CanDecommission, Become, RetainedStatus
<1>9. ASSUME NEW a \in Address, NEW r \in RetainedKey, ReleaseRetained(a, r)
      PROVE  UsesNothingNew
  <2>1. /\ Changed(keys', keys, a) /\ Bound(keys, a)
        /\ keys'[a].current = keys[a].current
        /\ keys'[a].pending = keys[a].pending
    BY <1>0, <1>9, DropFields DEF ReleaseRetained, CanDropRetained, Become
  <2> QED BY <2>1 DEF Changed, UsesNothingNew, UsesHash, IsPending, Bound
<1>10. ASSUME NEW a \in Address, NEW r \in RetainedKey,
              NEW status \in {"retired", "retirement_failed"},
              RecordStatus(a, r, status)
       PROVE  KeepsRetained
  <2> DEFINE new == [r EXCEPT !.status = status]
  <2>1. /\ Changed(keys', keys, a)
        /\ keys'[a].retained = (keys[a].retained \ {r}) \cup {new}
        /\ new.hash = r.hash
    BY <1>0, <1>10, StatusFields DEF RecordStatus, Become, RetainedStatus
  <2> HIDE DEF new
  <2>2. \A s \in keys[a].retained :
          \E n \in keys'[a].retained : n.hash = s.hash
    BY <2>1
  <2> QED BY <1>1, <2>1, <2>2
<1>11. ASSUME NEW a \in Address, Forget(a)
       PROVE  UsesNothingNew
  BY <1>0, <1>11 DEF Forget, ForgetKey, Put, Keys, UsesNothingNew, UsesHash,
       IsPending, Bound
<1>12. ASSUME UNCHANGED vars
       PROVE  KeepsRetained
  BY <1>12 DEF vars, KeepsRetained, RetainsHash, Bound
<1> QED BY <1>2, <1>3, <1>4, <1>5, <1>6, <1>7, <1>8, <1>9, <1>10, <1>11,
          <1>12 DEF Next, Settle

(* One hash has one role in the whole ledger. *)
LEMMA RetainedIsUnused ==
  ASSUME NEW k, Consistent(k), NEW a \in Address, NEW b \in Address,
         NEW h \in Hash, RetainsHash(k, a, h)
  PROVE  ~UsesHash(k, b, h)
<1>1. CASE a = b
  <2>1. CheckBinding(k[a]) /\ Bound(k, a)
    BY BoundWellFormed DEF RetainsHash
  <2> QED BY <1>1, <2>1
            DEF CheckBinding, DistinctRoles, RetainsHash, UsesHash, IsPending
<1>2. CASE a # b
  <2>1. Owns(k, a, h)
    BY DEF RetainsHash, Owns, Names
  <2>2. ~Owns(k, b, h)
    BY <1>2, <2>1 DEF Consistent, CheckInvariants, DistinctHashes
  <2> QED BY <2>2 DEF UsesHash, Owns, Names, IsPending
<1> QED BY <1>1, <1>2

(* No accepted mutation brings a retained hash back into use. *)
THEOREM StateKeepsSuperseded == Spec => RetainedNeverReturns
<1>1. ASSUME Inv, [Next]_vars, NEW a \in Address, NEW b \in Address,
             NEW h \in Hash, RetainsHash(keys, a, h)
      PROVE  ~UsesHash(keys', b, h)
  <2>1. Consistent(keys) /\ Consistent(keys')
    <3>1. Inv'
      BY <1>1, NextInv
    <3> QED BY <1>1, <3>1, InvConsistent
              DEF Inv, TypeOK, LedgerConsistent, Consistent
  <2>2. CASE KeepsRetained
    <3>1. RetainsHash(keys', a, h)
      BY <1>1, <2>2 DEF KeepsRetained
    <3> QED BY <2>1, <3>1, RetainedIsUnused
  <2>3. CASE UsesNothingNew
    BY <1>1, <2>1, <2>3, RetainedIsUnused DEF UsesNothingNew
  <2> QED BY <1>1, <2>2, <2>3, RetainedOrUsed
<1>2. Inv /\ [Next]_vars =>
        [\A a \in Address : Bound(keys, a) => \A r \in keys[a].retained :
           \A b \in Address :
             /\ Bound(keys', b) /\ keys'[b].current # None
                  => keys'[b].current.hash # r.hash
             /\ IsPending(keys', b) => keys'[b].pending.hash # r.hash]_vars
  <2> SUFFICES ASSUME Inv, [Next]_vars,
                      NEW a \in Address, Bound(keys, a), NEW r \in keys[a].retained,
                      NEW b \in Address
               PROVE  ~UsesHash(keys', b, r.hash)
    BY DEF UsesHash
  <2>1. r.hash \in Hash
    BY DEF Inv, TypeOK, Keys, KeyBinding, RetainedKey, Bound
  <2> QED BY <1>1, <2>1 DEF RetainsHash
<1> QED BY <1>2, SpecInv, PTL DEF Spec, RetainedNeverReturns

-----------------------------------------------------------------------------
(* A generation names one key.                                             *)

(* The numbers a binding will not give again while it exists: all it has   *)
(* recorded but the number of an operation whose key is still unknown.     *)
Sealed(b) ==
  Settled(b) \cup {b.generation_floor}
  \cup (IF b.pending = None \/ b.pending.hash = None THEN {}
        ELSE {b.pending.generation})

(* Every name ever recorded is at or below a sealed number, so a new name, *)
(* above them all, repeats none.                                           *)
NamesSealed ==
  /\ RecordedNames(keys) \subseteq named
  /\ \A t \in named :
       Bound(keys, t[1]) /\ \E n \in Sealed(keys[t[1]]) : t[2] <= n
  /\ \A a \in Address : IsPending(keys, a) =>
       keys[a].pending.generation > keys[a].generation_floor

(* A name a ledger records is a sealed number. *)
LEMMA RecordedSealed ==
  ASSUME NEW b, NEW g, NEW h \in Hash, Records(b, g, h)
  PROVE  g \in Sealed(b)
BY NoneAssumption DEF Records, Sealed, Settled

LEMMA SealedNumbers ==
  ASSUME NEW k \in Keys, NEW a \in Address, Bound(k, a)
  PROVE  Sealed(k[a]) \subseteq 0 .. MaxGeneration
<1>1. /\ k[a] \in KeyBinding
      /\ k[a].current # None => k[a].current \in CurrentKey
      /\ k[a].pending # None => k[a].pending \in PendingOperation
  BY BoundTyped
<1> QED BY <1>1 DEF Sealed, Settled, KeyBinding, CurrentKey, RetainedKey,
          PendingOperation, Generation

(* A mutation that seals all that was sealed, and records at most one new  *)
(* name, above all of it, keeps the promise.                               *)
LEMMA NamesAdvance ==
  ASSUME Inv, NamesSealed, GenerationNamesOneKey, Inv',
         NEW a \in Address, Changed(keys', keys, a),
         named' = named \cup RecordedNames(keys'),
         NEW g0, NEW h0,
         \A g \in Generation : \A h \in Hash : Records(keys'[a], g, h) =>
           \/ Bound(keys, a) /\ Records(keys[a], g, h)
           \/ /\ g = g0 /\ h = h0
              /\ Bound(keys, a) => \A n \in Sealed(keys[a]) : g > n,
         Bound(keys, a) =>
           \A n \in Sealed(keys[a]) : \E m \in Sealed(keys'[a]) : n <= m,
         IsPending(keys', a) =>
           keys'[a].pending.generation > keys'[a].generation_floor
  PROVE  NamesSealed' /\ GenerationNamesOneKey'
<1>1. /\ keys \in Keys /\ keys' \in Keys /\ Bound(keys', a)
      /\ \A c \in Address \ {a} : keys'[c] = keys[c]
      /\ named \subseteq Address \X Generation \X Hash
  BY DEF Inv, TypeOK, Changed, Bound
<1>2. ASSUME NEW t \in RecordedNames(keys')
      PROVE  \/ t \in named
             \/ /\ t = <<a, g0, h0>> /\ t[2] \in Generation
                /\ Bound(keys, a) => \A n \in Sealed(keys[a]) : t[2] > n
  <2>1. /\ t \in Address \X Generation \X Hash
        /\ Bound(keys', t[1]) /\ Records(keys'[t[1]], t[2], t[3])
    BY <1>2 DEF RecordedNames
  <2>2. ASSUME Bound(keys, t[1]), Records(keys[t[1]], t[2], t[3])
        PROVE  t \in named
    BY <2>1, <2>2 DEF RecordedNames, NamesSealed
  <2>3. CASE t[1] = a
    BY <2>1, <2>2, <2>3
  <2>4. CASE t[1] # a
    BY <1>1, <2>1, <2>2, <2>4 DEF Bound
  <2> QED BY <2>3, <2>4
<1>3. ASSUME NEW t \in named, t[1] = a,
             Bound(keys, a) => \A n \in Sealed(keys[a]) : g0 > n,
             g0 \in Generation
      PROVE  t[2] # g0
  <2>1. Bound(keys, a) /\ \E n \in Sealed(keys[a]) : t[2] <= n
    BY <1>3 DEF NamesSealed
  <2>2. Sealed(keys[a]) \subseteq 0 .. MaxGeneration /\ t[2] \in Generation
    BY <1>1, <2>1, SealedNumbers
  <2>3. PICK n \in Sealed(keys[a]) : t[2] <= n
    BY <2>1
  <2>4. g0 > n /\ n \in Int /\ t[2] \in Int /\ g0 \in Int
    BY <1>3, <2>1, <2>2, <2>3, MaxGenerationAssumption DEF Generation
  <2> QED BY <2>3, <2>4
<1>4. GenerationNamesOneKey'
  BY <1>2, <1>3 DEF GenerationNamesOneKey
<1>5. ASSUME NEW t \in named'
      PROVE  Bound(keys', t[1]) /\ \E n \in Sealed(keys'[t[1]]) : t[2] <= n
  <2>1. CASE t \in RecordedNames(keys')
    <3>1. /\ t[1] \in Address /\ t[2] \in Generation /\ t[3] \in Hash
          /\ Bound(keys', t[1]) /\ Records(keys'[t[1]], t[2], t[3])
      BY <2>1 DEF RecordedNames
    <3>2. t[2] \in Sealed(keys'[t[1]])
      BY <3>1, RecordedSealed
    <3>3. t[2] <= t[2]
      BY <3>1 DEF Generation
    <3> QED BY <3>1, <3>2, <3>3
  <2>2. CASE t \in named
    <3>1. Bound(keys, t[1]) /\ t[1] \in Address /\ t[2] \in Generation
      BY <1>1, <2>2 DEF NamesSealed
    <3>2. PICK n \in Sealed(keys[t[1]]) : t[2] <= n
      BY <2>2 DEF NamesSealed
    <3>3. CASE t[1] # a
      BY <1>1, <3>1, <3>2, <3>3 DEF Bound
    <3>4. CASE t[1] = a
      <4>1. PICK m \in Sealed(keys'[a]) : n <= m
        BY <3>1, <3>2, <3>4
      <4>2. n \in Int /\ m \in Int /\ t[2] \in Int
        BY <1>1, <3>1, <3>2, <3>4, <4>1, SealedNumbers,
           MaxGenerationAssumption DEF Generation
      <4> QED BY <1>1, <3>2, <3>4, <4>1, <4>2
    <3> QED BY <3>3, <3>4
  <2> QED BY <1>5, <2>1, <2>2
<1>6. \A c \in Address : IsPending(keys', c) =>
        keys'[c].pending.generation > keys'[c].generation_floor
  BY <1>1 DEF NamesSealed, IsPending, Bound
<1>7. NamesSealed'
  BY <1>5, <1>6 DEF NamesSealed
<1> QED BY <1>4, <1>7

LEMMA SealedRecorded ==
  ASSUME NEW k, NEW a, Bound(k, a)
  PROVE  Sealed(k[a]) \subseteq Recorded(k, a)
BY DEF Sealed, Recorded

LEMMA InitNames == Init => NamesSealed /\ GenerationNamesOneKey
<1> SUFFICES ASSUME Init PROVE NamesSealed /\ GenerationNamesOneKey
  OBVIOUS
<1>1. named = {} /\ \A a \in Address : ~Bound(keys, a)
  BY DEF Init, NoKeys, Bound
<1>2. RecordedNames(keys) = {}
  BY <1>1 DEF RecordedNames
<1> QED BY <1>1, <1>2 DEF NamesSealed, GenerationNamesOneKey, IsPending

LEMMA NextNames ==
  Inv /\ NamesSealed /\ GenerationNamesOneKey /\ [Next]_vars
    => NamesSealed' /\ GenerationNamesOneKey'
<1> SUFFICES ASSUME Inv, NamesSealed, GenerationNamesOneKey, [Next]_vars
             PROVE  NamesSealed' /\ GenerationNamesOneKey'
  OBVIOUS
<1>0. Consistent(keys) /\ keys \in Keys /\ Inv'
  BY InvConsistent, NextInv DEF Consistent
<1>1. ASSUME NEW a \in Address, Bound(keys, a)
      PROVE  \A n \in Sealed(keys[a]) : n \in Int /\ n <= n
  BY <1>0, <1>1, SealedNumbers, MaxGenerationAssumption
(* The mutations that record no new name and unseal no number. *)
<1>2. ASSUME NEW a \in Address, Changed(keys', keys, a),
             named' = named \cup RecordedNames(keys'),
             Bound(keys, a),
             \A g \in Generation : \A h \in Hash :
               Records(keys'[a], g, h) => Records(keys[a], g, h),
             \A n \in Sealed(keys[a]) :
               n \in Int => \E m \in Sealed(keys'[a]) : n <= m,
             IsPending(keys', a) =>
               keys'[a].pending.generation > keys'[a].generation_floor
      PROVE  NamesSealed' /\ GenerationNamesOneKey'
  <2>1. \A n \in Sealed(keys[a]) : \E m \in Sealed(keys'[a]) : n <= m
    BY <1>1, <1>2
  <2> QED BY <1>0, <1>2, <2>1, NamesAdvance
<1>3. ASSUME NEW a \in Address, NEW h \in Hash, NEW g \in Generation,
             ImportKey(a, h, g)
      PROVE  NamesSealed' /\ GenerationNamesOneKey'
  <2>1. CASE Bound(keys, a) /\ keys[a].current # None
    <3>1. /\ Changed(keys', keys, a)
          /\ keys'[a].current # None
          /\ keys'[a].current.hash = keys[a].current.hash
          /\ keys'[a].current.generation = g
          /\ keys'[a].pending = None
          /\ keys'[a].retained = keys[a].retained
          /\ keys'[a].generation_floor = keys[a].generation_floor
          /\ keys[a].current.hash = h /\ keys[a].pending = None
          /\ named' = named \cup RecordedNames(keys')
      BY <1>0, <1>3, <2>1, RebindFields DEF ImportKey, Become, CanBindKey
    <3>2. CASE g = keys[a].current.generation
      <4>1. \A i \in Generation : \A j \in Hash :
              Records(keys'[a], i, j) => Records(keys[a], i, j)
        BY <2>1, <3>1, <3>2 DEF Records
      <4>2. Sealed(keys'[a]) = Sealed(keys[a])
        BY <2>1, <3>1, <3>2 DEF Sealed, Settled
      <4> QED BY <1>1, <1>2, <2>1, <3>1, <4>1, <4>2 DEF IsPending
    <3>3. CASE Unspent(keys, a, g)
      <4>1. \A n \in Sealed(keys[a]) : g > n
        BY <2>1, <3>3, SealedRecorded DEF Unspent
      <4>2. g \in Sealed(keys'[a])
        BY <3>1 DEF Sealed, Settled
      <4>3. \A n \in Sealed(keys[a]) : \E m \in Sealed(keys'[a]) : n <= m
        <5>1. \A n \in Sealed(keys[a]) : n \in Int
          BY <1>1, <2>1
        <5>2. \A n \in Sealed(keys[a]) : n <= g
          BY <4>1, <5>1 DEF Generation
        <5> QED BY <4>2, <5>2
      <4>4. \A i \in Generation : \A j \in Hash : Records(keys'[a], i, j) =>
              Records(keys[a], i, j) \/ (i = g /\ j = h)
        BY <3>1 DEF Records
      <4> QED BY <1>0, <2>1, <3>1, <4>1, <4>3, <4>4, NamesAdvance
                DEF IsPending
    <3> QED BY <1>3, <2>1, <3>2, <3>3 DEF ImportKey, CanBindKey
  <2>2. CASE ~(Bound(keys, a) /\ keys[a].current # None)
    <3>1. /\ Changed(keys', keys, a)
          /\ keys'[a].current # None
          /\ keys'[a].current.hash = h
          /\ keys'[a].current.generation = g
          /\ keys'[a].pending = None
          /\ keys'[a].retained =
               IF Bound(keys, a) THEN keys[a].retained ELSE {}
          /\ keys'[a].generation_floor =
               IF Bound(keys, a) THEN keys[a].generation_floor ELSE 0
          /\ Bound(keys, a) => keys[a].pending = None
          /\ Bound(keys, a) => Unspent(keys, a, g)
          /\ named' = named \cup RecordedNames(keys')
      BY <1>0, <1>3, <2>2, BindFields DEF ImportKey, Become, CanBindKey
    <3>2. Bound(keys, a) => \A n \in Sealed(keys[a]) : g > n
      BY <3>1, SealedRecorded DEF Unspent
    <3>3. Bound(keys, a) => Sealed(keys[a]) \subseteq Sealed(keys'[a])
      BY <2>2, <3>1 DEF Sealed, Settled
    <3>4. \A i \in Generation : \A j \in Hash : Records(keys'[a], i, j) =>
            (Bound(keys, a) /\ Records(keys[a], i, j)) \/ (i = g /\ j = h)
      BY <3>1 DEF Records
    <3> QED BY <1>0, <1>1, <3>1, <3>2, <3>3, <3>4, NamesAdvance
              DEF IsPending
  <2> QED BY <2>1, <2>2
<1>4. ASSUME NEW a \in Address, NEW d \in Generation, NEW r \in Receiver,
             NEW id \in OpId, StartCreate(a, d, r, id)
      PROVE  NamesSealed' /\ GenerationNamesOneKey'
  <2> DEFINE g == NextGeneration(keys, a, d)
  <2>1. /\ g \in Generation /\ keys' = BeginCreate(keys, a, g, r, id)
        /\ Unspent(keys, a, g) /\ ~IsPending(keys, a)
        /\ named' = named \cup RecordedNames(keys')
    BY <1>0, <1>4, NextGenerationUnspent
       DEF StartCreate, Become, CanBeginCreate, NothingPending
  <2> HIDE DEF g
  <2>2. /\ Changed(keys', keys, a)
        /\ keys'[a].pending.hash = None
        /\ keys'[a].pending.generation = g
        /\ Bound(keys, a) =>
             /\ keys'[a].current = keys[a].current
             /\ keys'[a].retained = keys[a].retained
             /\ keys'[a].generation_floor = keys[a].generation_floor
        /\ ~Bound(keys, a) =>
             /\ keys'[a].current = None
             /\ keys'[a].retained = {}
             /\ keys'[a].generation_floor = 0
    BY <1>0, <2>1, BeginFields
  <2>3. g > keys'[a].generation_floor
    BY <2>1, <2>2 DEF Unspent, Recorded, Generation
  <2>4. Bound(keys, a) => Sealed(keys[a]) \subseteq Sealed(keys'[a])
    BY <2>1, <2>2 DEF Sealed, Settled, IsPending
  <2>5. \A i \in Generation : \A j \in Hash : Records(keys'[a], i, j) =>
          Bound(keys, a) /\ Records(keys[a], i, j)
    BY <2>2, NoneAssumption DEF Records
  <2> QED BY <1>0, <1>1, <2>1, <2>2, <2>3, <2>4, <2>5, NamesAdvance
            DEF IsPending
(* The number of an operation whose key is unknown is above all sealed.    *)
<1>5. ASSUME NEW a \in Address, IsPending(keys, a)
      PROVE  /\ keys[a].pending.generation \in Generation
             /\ keys[a].pending.generation > keys[a].generation_floor
             /\ keys[a].pending.hash = None =>
                  \A n \in Sealed(keys[a]) : keys[a].pending.generation > n
             /\ keys[a].pending.phase \in HashlessPhase =>
                  keys[a].pending.hash = None
  <2>1. CheckBinding(keys[a]) /\ keys[a].pending \in PendingOperation
    BY <1>0, <1>5, BoundWellFormed DEF IsPending
  <2>2. keys[a].pending.generation > keys[a].generation_floor
    BY <1>5 DEF NamesSealed
  <2> QED BY <1>5, <2>1, <2>2 DEF CheckBinding, PendingShape, Sealed,
            IsPending, PendingOperation, HashlessPhase, HashedPhase
<1>6. ASSUME NEW a \in Address, NEW t \in Transition, NEW h \in Hash,
             Advance(a, t, h)
      PROVE  NamesSealed' /\ GenerationNamesOneKey'
  <2> DEFINE p == keys[a].pending
  <2>1. /\ IsPending(keys, a) /\ Bound(keys, a) /\ p.phase = Step[t][1]
        /\ Changed(keys', keys, a)
        /\ keys'[a].current = keys[a].current
        /\ keys'[a].retained = keys[a].retained
        /\ keys'[a].generation_floor = keys[a].generation_floor
        /\ keys'[a].pending # None
        /\ keys'[a].pending.generation = p.generation
        /\ keys'[a].pending.hash = IF t = "created" THEN h ELSE p.hash
        /\ named' = named \cup RecordedNames(keys')
    BY <1>6, AdvancedOperation DEF Advance, Become, IsPending
  <2>2. keys'[a].pending.generation > keys'[a].generation_floor
    BY <1>5, <2>1
  <2>3. CASE t = "created"
    <3>1. p.hash = None
      BY <1>5, <2>1, <2>3 DEF Step, HashlessPhase
    <3>2. \A n \in Sealed(keys[a]) : p.generation > n
      BY <1>5, <2>1, <3>1
    <3>3. Sealed(keys[a]) \subseteq Sealed(keys'[a])
      BY <2>1, <3>1 DEF Sealed, Settled
    <3>4. \A i \in Generation : \A j \in Hash : Records(keys'[a], i, j) =>
            Records(keys[a], i, j) \/ (i = p.generation /\ j = h)
      BY <2>1, <2>3 DEF Records
    <3> QED BY <1>0, <1>1, <2>1, <2>2, <3>2, <3>3, <3>4, NamesAdvance
  <2>4. CASE t # "created"
    <3>1. Sealed(keys'[a]) = Sealed(keys[a])
      BY <2>1, <2>4 DEF Sealed, Settled, IsPending
    <3>2. \A i \in Generation : \A j \in Hash :
            Records(keys'[a], i, j) => Records(keys[a], i, j)
      BY <2>1, <2>4 DEF Records, IsPending
    <3> QED BY <1>1, <1>2, <2>1, <2>2, <3>1, <3>2
  <2> QED BY <2>3, <2>4
<1>7. ASSUME NEW a \in Address, AbandonCreate(a) \/ AttestAbsence(a)
      PROVE  NamesSealed' /\ GenerationNamesOneKey'
  <2>1. /\ IsPending(keys, a) /\ Bound(keys, a)
        /\ keys[a].pending.phase \in HashlessPhase
        /\ keys' = DropPending(keys, a)
        /\ named' = named \cup RecordedNames(keys')
    BY <1>7 DEF AbandonCreate, AttestAbsence, CanAbandonCreate,
         CanClearAmbiguous, PendingIn, IsPending, Become, HashlessPhase
  <2>2. /\ Changed(keys', keys, a)
        /\ keys'[a].current = keys[a].current
        /\ keys'[a].pending = None
        /\ keys'[a].retained = keys[a].retained
        /\ keys'[a].generation_floor = keys[a].generation_floor
    BY <1>0, <2>1, DropPendingFields
  <2>3. keys[a].pending.hash = None
    BY <1>5, <2>1
  <2>4. Sealed(keys'[a]) = Sealed(keys[a])
    BY <2>2, <2>3 DEF Sealed, Settled
  <2>5. \A i \in Generation : \A j \in Hash :
          Records(keys'[a], i, j) => Records(keys[a], i, j)
    BY <2>2 DEF Records
  <2> QED BY <1>1, <1>2, <2>1, <2>2, <2>4, <2>5 DEF IsPending
<1>8. ASSUME NEW a \in Address,
             RetireFailed(a) \/ \E h \in Hash : AttestLeak(a, h)
      PROVE  NamesSealed' /\ GenerationNamesOneKey'
  <2> DEFINE p == keys[a].pending
  <2>1. PICK h \in Hash : /\ IsPending(keys, a)
                          /\ keys' = RetainPending(keys, a, h)
                          /\ p.hash \in {h, None}
    BY <1>8, FailedStep
  <2> DEFINE old == RetainedAs(h, p.generation, "failed_candidate")
  <2>2. /\ Changed(keys', keys, a)
        /\ keys'[a].current = keys[a].current
        /\ keys'[a].pending = None
        /\ keys'[a].retained = keys[a].retained \cup {old}
        /\ keys'[a].generation_floor = keys[a].generation_floor
        /\ old.hash = h /\ old.generation = p.generation
    BY <1>0, <2>1, RetainFields
  <2> HIDE DEF old
  <2>3. named' = named \cup RecordedNames(keys') /\ Bound(keys, a)
    BY <1>8, <2>1 DEF RetireFailed, AttestLeak, Become, IsPending
  <2>4. Sealed(keys[a]) \subseteq Sealed(keys'[a])
    BY <2>2 DEF Sealed, Settled
  <2>5. \A i \in Generation : \A j \in Hash : Records(keys'[a], i, j) =>
          Records(keys[a], i, j) \/ (i = p.generation /\ j = h)
    BY <2>2 DEF Records
  <2>6. CASE p.hash = h
    <3>1. Records(keys[a], p.generation, h)
      BY <2>1, <2>6 DEF Records, IsPending
    <3> QED BY <1>1, <1>2, <2>2, <2>3, <2>4, <2>5, <3>1 DEF IsPending
  <2>7. CASE p.hash = None
    <3>1. \A n \in Sealed(keys[a]) : p.generation > n
      BY <1>5, <2>1, <2>7
    <3> QED BY <1>0, <1>1, <2>2, <2>3, <2>4, <2>5, <3>1, NamesAdvance
              DEF IsPending
  <2> QED BY <2>1, <2>6, <2>7
<1>9. ASSUME NEW a \in Address, Promote(a)
      PROVE  NamesSealed' /\ GenerationNamesOneKey'
  <2> DEFINE p == keys[a].pending
             c == keys[a].current
             old == RetainedAs(c.hash, c.generation, "awaiting_retirement")
  <2>1. /\ IsPending(keys, a) /\ Bound(keys, a) /\ p # None
        /\ p.hash \in Hash
        /\ keys' = PromoteKey(keys, a)
        /\ named' = named \cup RecordedNames(keys')
    <3>1. PendingIn(keys, a, HashedPhase)
      BY <1>9 DEF Promote, CanPromoteKey, PendingIn, HashedPhase
    <3> QED BY <1>0, <1>9, <3>1, PendingHash
              DEF Promote, Become, PendingIn, IsPending
  <2>2. /\ Changed(keys', keys, a)
        /\ keys'[a].current # None
        /\ keys'[a].current.hash = p.hash
        /\ keys'[a].current.generation = p.generation
        /\ keys'[a].pending = None
        /\ keys'[a].retained =
             keys[a].retained \cup (IF c = None THEN {} ELSE {old})
        /\ keys'[a].generation_floor = keys[a].generation_floor
        /\ c # None => old.hash = c.hash /\ old.generation = c.generation
    BY <1>0, <2>1, PromoteFields
  <2> HIDE DEF old
  <2>3. Sealed(keys[a]) \subseteq Sealed(keys'[a])
    BY <2>1, <2>2 DEF Sealed, Settled
  <2>4. \A i \in Generation : \A j \in Hash :
          Records(keys'[a], i, j) => Records(keys[a], i, j)
    BY <2>1, <2>2 DEF Records
  <2> QED BY <1>1, <1>2, <2>1, <2>2, <2>3, <2>4 DEF IsPending
<1>10. ASSUME NEW a \in Address, NEW h \in Hash,
              DecommissionCurrent(a, h, "retired")
       PROVE  NamesSealed' /\ GenerationNamesOneKey'
  <2> DEFINE c == keys[a].current
             old == RetainedAs(c.hash, c.generation, "retired")
  <2>1. /\ Bound(keys, a) /\ c # None /\ keys[a].pending = None
        /\ keys' = Decommission(keys, a, "retired")
        /\ named' = named \cup RecordedNames(keys')
    BY <1>10 DEF DecommissionCurrent, CanDecommission, Become
  <2>2. /\ Changed(keys', keys, a)
        /\ keys'[a].current = None
        /\ keys'[a].pending = keys[a].pending
        /\ keys'[a].retained = keys[a].retained \cup {old}
        /\ keys'[a].generation_floor = keys[a].generation_floor
        /\ old.hash = c.hash /\ old.generation = c.generation
    BY <1>0, <2>1, DecommissionFields DEF RetainedStatus
  <2> HIDE DEF old
  <2>3. Sealed(keys[a]) \subseteq Sealed(keys'[a])
    BY <2>1, <2>2 DEF Sealed, Settled
  <2>4. \A i \in Generation : \A j \in Hash :
          Records(keys'[a], i, j) => Records(keys[a], i, j)
    BY <2>1, <2>2 DEF Records
  <2> QED BY <1>1, <1>2, <2>1, <2>2, <2>3, <2>4 DEF IsPending
<1>11. ASSUME NEW a \in Address, NEW r \in RetainedKey,
              ReleaseRetained(a, r)
       PROVE  NamesSealed' /\ GenerationNamesOneKey'
  <2> DEFINE floor == keys[a].generation_floor
             raised == RaisedFloor(floor, r.generation)
  <2>1. /\ Bound(keys, a) /\ r \in keys[a].retained
        /\ named' = named \cup RecordedNames(keys')
        /\ Changed(keys', keys, a)
        /\ keys'[a].current = keys[a].current
        /\ keys'[a].pending = keys[a].pending
        /\ keys'[a].retained = keys[a].retained \ {r}
        /\ keys'[a].generation_floor = raised
    BY <1>0, <1>11, DropFields DEF ReleaseRetained, CanDropRetained, Become
  <2>2. floor \in Int /\ r.generation \in Int
    <3>1. keys[a] \in KeyBinding
      BY <1>0, <2>1, BoundTyped
    <3> QED BY <2>1, <3>1, MaxGenerationAssumption
              DEF KeyBinding, RetainedKey, Generation
  <2>3. raised \in {floor, r.generation}
        /\ raised >= floor /\ raised >= r.generation
    BY <2>2 DEF RaisedFloor
  <2> HIDE DEF raised
  <2>4. \A n \in Sealed(keys[a]) :
          n = floor \/ n = r.generation \/ n \in Sealed(keys'[a])
    BY <2>1 DEF Sealed, Settled
  <2>5. raised \in Sealed(keys'[a])
    BY <2>1 DEF Sealed
  <2>6. \A n \in Sealed(keys[a]) : \E m \in Sealed(keys'[a]) : n <= m
    BY <1>1, <2>1, <2>2, <2>3, <2>4, <2>5
  <2>7. IsPending(keys', a) => keys'[a].pending.generation > raised
    <3> SUFFICES ASSUME IsPending(keys', a)
                 PROVE  keys'[a].pending.generation > raised
      OBVIOUS
    <3>1. IsPending(keys, a)
      BY <2>1 DEF IsPending
    <3>2. CheckBinding(keys[a]) /\ r.generation \in Settled(keys[a])
      BY <1>0, <2>1, BoundWellFormed DEF Settled
    <3>3. keys[a].pending.generation > r.generation
      BY <3>1, <3>2 DEF CheckBinding, PendingShape, IsPending
    <3> QED BY <1>5, <2>1, <2>3, <3>1, <3>3
  <2>8. \A i \in Generation : \A j \in Hash :
          Records(keys'[a], i, j) => Records(keys[a], i, j)
    BY <2>1 DEF Records
  <2> QED BY <1>2, <2>1, <2>6, <2>7, <2>8
<1>12. ASSUME NEW a \in Address, NEW r \in RetainedKey,
              NEW status \in {"retired", "retirement_failed"},
              RecordStatus(a, r, status)
       PROVE  NamesSealed' /\ GenerationNamesOneKey'
  <2> DEFINE new == [r EXCEPT !.status = status]
  <2>1. /\ Bound(keys, a) /\ r \in keys[a].retained
        /\ named' = named \cup RecordedNames(keys')
        /\ Changed(keys', keys, a)
        /\ keys'[a].current = keys[a].current
        /\ keys'[a].pending = keys[a].pending
        /\ keys'[a].retained = (keys[a].retained \ {r}) \cup {new}
        /\ keys'[a].generation_floor = keys[a].generation_floor
        /\ new.hash = r.hash /\ new.generation = r.generation
    BY <1>0, <1>12, StatusFields
       DEF RecordStatus, CanDropRetained, Become, RetainedStatus
  <2> HIDE DEF new
  <2>2. Sealed(keys[a]) \subseteq Sealed(keys'[a])
    BY <2>1 DEF Sealed, Settled
  <2>3. \A i \in Generation : \A j \in Hash :
          Records(keys'[a], i, j) => Records(keys[a], i, j)
    BY <2>1 DEF Records
  <2>4. IsPending(keys', a) => IsPending(keys, a)
    BY <2>1 DEF IsPending
  <2> QED BY <1>1, <1>2, <1>5, <2>1, <2>2, <2>3, <2>4
<1>13. ASSUME NEW a \in Address, Forget(a)
       PROVE  NamesSealed' /\ GenerationNamesOneKey'
  <2>1. /\ named' = {t \in named : t[1] # a}
        /\ ~Bound(keys', a)
        /\ \A c \in Address \ {a} : keys'[c] = keys[c]
    BY <1>0, <1>13 DEF Forget, ForgetKey, Put, Keys, Bound
  <2>2. RecordedNames(keys') \subseteq named'
    <3>1. \A t \in RecordedNames(keys') : t[1] # a /\ t \in RecordedNames(keys)
      BY <2>1 DEF RecordedNames, Bound
    <3> QED BY <2>1, <3>1 DEF NamesSealed
  <2>3. \A t \in named' : Bound(keys', t[1])
                          /\ \E n \in Sealed(keys'[t[1]]) : t[2] <= n
    <3>1. \A t \in named' : t[1] \in Address \ {a} /\ t \in named
      BY <1>0, <2>1 DEF Inv, TypeOK
    <3> QED BY <2>1, <3>1 DEF NamesSealed, Bound
  <2>4. \A c \in Address : IsPending(keys', c) =>
          keys'[c].pending.generation > keys'[c].generation_floor
    BY <2>1 DEF NamesSealed, IsPending, Bound
  <2>5. GenerationNamesOneKey'
    BY <2>1 DEF GenerationNamesOneKey
  <2> QED BY <2>2, <2>3, <2>4, <2>5 DEF NamesSealed
<1>14. ASSUME UNCHANGED vars
       PROVE  NamesSealed' /\ GenerationNamesOneKey'
  BY <1>14 DEF vars, NamesSealed, GenerationNamesOneKey, RecordedNames,
       IsPending, Bound
<1> QED BY <1>3, <1>4, <1>6, <1>7, <1>8, <1>9, <1>10, <1>11, <1>12, <1>13,
          <1>14 DEF Next, Settle

(* Until the operator forgets an address, each of its generations stays    *)
(* the name of one key, whatever was dropped, attested or imported since.  *)
THEOREM StateNamesOneKey == Spec => []GenerationNamesOneKey
BY SpecInv, InitNames, NextNames, PTL DEF Spec
=============================================================================
