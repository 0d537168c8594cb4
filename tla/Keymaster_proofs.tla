-------------------------- MODULE Keymaster_proofs --------------------------
(***************************************************************************)
(* Custody, for every number of addresses, keys, attempts and mishaps:     *)
(* what the credential commands keep true of the keys OpenRouter holds, of *)
(* the ledger on disk and of the one a power loss leaves, in any order and *)
(* whatever is lost, killed or applied late.                               *)
(*                                                                         *)
(* The invariant has two parts: what is true between runs as well (Ground: *)
(* what each of the two ledgers says of the keys OpenRouter holds), and    *)
(* what is true of the run, by where it is (Placed).  A mutation of the    *)
(* ledger matters to Ground only by what it adds and takes away, which its *)
(* ...Effect lemma says.                                                   *)
(***************************************************************************)
EXTENDS Keymaster, KeyLedger_proofs

-----------------------------------------------------------------------------
(* What each mutation of the ledger adds to, and takes from, what custody  *)
(* depends on: the hashes a ledger names, the ones it calls delivered, in  *)
(* use or retired, and the attempts that stand in it with no hash.         *)

(* At one address, *)
ServesAt(k, a, h) ==
  /\ Bound(k, a) /\ k[a].current # None
  /\ k[a].current.hash = h /\ k[a].current.receiver # None
RetiredAt(k, a, h) ==
  Bound(k, a) /\ \E r \in k[a].retained : r.hash = h /\ r.status = "retired"
StandsAt(k, a, id) == PendingIn(k, a, HashlessPhase) /\ k[a].pending.id = id

(* and anywhere. *)
InUse(k, h) == \E a \in Address : ServesAt(k, a, h)
AwaitsPromotion(k, h) == \E a \in Address : IsDelivered(k, a, h)
CalledRetired(k, h) == \E a \in Address : RetiredAt(k, a, h)

(* next is k but for hashes it may newly name, call delivered or retired,  *)
(* or no longer name, and attempts that may no longer stand.               *)
EffectAt(next, k, a, named, delivered, retired, dropped, settled) ==
  /\ \A h \in Hash :
       /\ Owns(next, a, h) => Owns(k, a, h) \/ h \in named
       /\ Owns(k, a, h) => Owns(next, a, h) \/ h \in dropped
       /\ ServesAt(next, a, h) => ServesAt(k, a, h) \/ IsDelivered(k, a, h)
       /\ IsDelivered(next, a, h) => IsDelivered(k, a, h) \/ h \in delivered
       /\ RetiredAt(next, a, h) => RetiredAt(k, a, h) \/ h \in retired
  /\ \A id \in OpId : StandsAt(k, a, id) => StandsAt(next, a, id) \/ id \in settled

Effect(next, k, named, delivered, retired, dropped, settled) ==
  /\ \A h \in Hash :
       /\ Owned(next, h) => Owned(k, h) \/ h \in named
       /\ Owned(k, h) => Owned(next, h) \/ h \in dropped
       /\ InUse(next, h) => InUse(k, h) \/ AwaitsPromotion(k, h)
       /\ AwaitsPromotion(next, h) => AwaitsPromotion(k, h) \/ h \in delivered
       /\ CalledRetired(next, h) => CalledRetired(k, h) \/ h \in retired
  /\ \A id \in OpId : Stands(k, id) => Stands(next, id) \/ id \in settled

LEMMA EffectOfChange ==
  ASSUME NEW next, NEW k, NEW a \in Address,
         \A c \in Address \ {a} : next[c] = k[c],
         NEW named, NEW delivered, NEW retired, NEW dropped, NEW settled,
         EffectAt(next, k, a, named, delivered, retired, dropped, settled)
  PROVE  Effect(next, k, named, delivered, retired, dropped, settled)
<1>1. ASSUME NEW c \in Address \ {a}, NEW h
      PROVE  /\ Owns(next, c, h) <=> Owns(k, c, h)
             /\ ServesAt(next, c, h) <=> ServesAt(k, c, h)
             /\ IsDelivered(next, c, h) <=> IsDelivered(k, c, h)
             /\ RetiredAt(next, c, h) <=> RetiredAt(k, c, h)
             /\ StandsAt(next, c, h) <=> StandsAt(k, c, h)
  BY DEF Owns, ServesAt, IsDelivered, RetiredAt, StandsAt, PendingIn,
         IsPending, Bound
<1>2. ASSUME NEW h \in Hash
      PROVE  /\ Owned(next, h) => Owned(k, h) \/ h \in named
             /\ Owned(k, h) => Owned(next, h) \/ h \in dropped
             /\ InUse(next, h) => InUse(k, h) \/ AwaitsPromotion(k, h)
             /\ AwaitsPromotion(next, h) =>
                  AwaitsPromotion(k, h) \/ h \in delivered
             /\ CalledRetired(next, h) => CalledRetired(k, h) \/ h \in retired
  BY <1>1 DEF EffectAt, Owned, InUse, AwaitsPromotion, CalledRetired
<1>3. ASSUME NEW id \in OpId, Stands(k, id)
      PROVE  Stands(next, id) \/ id \in settled
  BY <1>1, <1>3 DEF EffectAt, Stands, StandsAt
<1> QED BY <1>2, <1>3 DEF Effect

-----------------------------------------------------------------------------
(* One lemma per mutation. *)

LEMMA BindEffect ==
  ASSUME NEW k, Consistent(k), NEW a \in Address, NEW h \in Hash,
         NEW g \in Generation, CanBindKey(k, a, h, g), ~Owned(k, h)
  PROVE  LET next == BindKey(k, a, h, g)
         IN /\ Effect(next, k, {h}, {}, {}, {}, {})
            /\ IsCurrent(next, a, h)
<1> DEFINE next == BindKey(k, a, h, g)
<1>1. ~(Bound(k, a) /\ k[a].current # None)
  BY DEF CanBindKey, Owned, Owns, Names
<1>2. /\ Changed(next, k, a)
      /\ next[a].current # None
      /\ next[a].current.hash = h
      /\ next[a].current.receiver = None
      /\ next[a].pending = None
      /\ next[a].retained = IF Bound(k, a) THEN k[a].retained ELSE {}
  BY <1>1, BindFields DEF Consistent
<1> HIDE DEF next
<1>3. Bound(k, a) => k[a].pending = None
  BY DEF CanBindKey
<1>4. EffectAt(next, k, a, {h}, {}, {}, {}, {})
  BY <1>1, <1>2, <1>3
  DEF EffectAt, Changed, Owns, Names, ServesAt, IsDelivered, RetiredAt,
      StandsAt, PendingIn, IsPending, Bound
<1>5. IsCurrent(next, a, h)
  BY <1>2 DEF IsCurrent, Changed, Bound
<1> QED BY <1>2, <1>4, <1>5, EffectOfChange DEF next, Changed

LEMMA BeginEffect ==
  ASSUME NEW k, Consistent(k), NEW a \in Address, NEW g \in Generation,
         NEW r \in Receiver, NEW id \in OpId, CanBeginCreate(k, a, g)
  PROVE  LET next == BeginCreate(k, a, g, r, id)
         IN /\ Effect(next, k, {}, {}, {}, {}, {})
            /\ StandsAt(next, a, id)
<1> DEFINE next == BeginCreate(k, a, g, r, id)
<1>1. /\ Changed(next, k, a)
      /\ next[a].pending # None
      /\ next[a].pending.phase = "create_started"
      /\ next[a].pending.hash = None
      /\ next[a].pending.id = id
      /\ Bound(k, a) => /\ next[a].current = k[a].current
                        /\ next[a].retained = k[a].retained
      /\ ~Bound(k, a) => next[a].current = None /\ next[a].retained = {}
  BY BeginFields DEF Consistent
<1> HIDE DEF next
<1>2. ~IsPending(k, a)
  BY DEF CanBeginCreate, NothingPending
<1>3. \A h \in Hash : h # None
  BY NoneAssumption
<1>4. EffectAt(next, k, a, {}, {}, {}, {}, {})
  BY <1>1, <1>2, <1>3
  DEF EffectAt, Changed, Owns, Names, ServesAt, IsDelivered, RetiredAt,
      StandsAt, PendingIn, IsPending, Bound
<1>5. StandsAt(next, a, id)
  BY <1>1 DEF StandsAt, PendingIn, IsPending, Bound, Changed, HashlessPhase
<1> QED BY <1>1, <1>4, <1>5, EffectOfChange DEF next, Changed

(* What an advance leaves of the operation, *)
LEMMA AdvanceShape ==
  ASSUME NEW k \in Keys, NEW a \in Address, NEW t \in Transition,
         NEW h, t = "created" => h \in Hash, CanAdvanceKey(k, a, t, h)
  PROVE  LET next == AdvanceKey(k, a, t, h)
         IN /\ IsPending(next, a)
            /\ next[a].pending.phase = Step[t][2]
            /\ next[a].pending.hash =
                 IF t = "created" THEN h ELSE k[a].pending.hash
<1>1. IsPending(k, a)
  BY DEF CanAdvanceKey, PendingIn
<1>2. LET next == AdvanceKey(k, a, t, h)
      IN /\ Changed(next, k, a) /\ next[a].pending # None
         /\ next[a].pending.phase = Step[t][2]
         /\ next[a].pending.hash =
              IF t = "created" THEN h ELSE k[a].pending.hash
  BY <1>1, AdvanceFields
<1> QED BY <1>2 DEF IsPending, Bound, Changed

(* and what it adds and takes away. *)
LEMMA AdvanceEffect ==
  ASSUME NEW k, Consistent(k), NEW a \in Address, NEW t \in Transition,
         NEW h, t = "created" => h \in Hash, CanAdvanceKey(k, a, t, h)
  PROVE  LET next == AdvanceKey(k, a, t, h)
             p == k[a].pending
         IN Effect(next, k, IF t = "created" THEN {h} ELSE {},
                   IF t = "delivered" THEN {p.hash} ELSE {}, {}, {},
                   IF t = "created" THEN {p.id} ELSE {})
<1> DEFINE next == AdvanceKey(k, a, t, h)
           p == k[a].pending
           q == next[a].pending
<1>1. IsPending(k, a) /\ p.phase = Step[t][1]
  BY DEF CanAdvanceKey, PendingIn
<1>2. /\ Changed(next, k, a)
      /\ next[a].current = k[a].current
      /\ next[a].retained = k[a].retained
      /\ q # None /\ q.id = p.id
      /\ q.phase = Step[t][2]
      /\ q.hash = IF t = "created" THEN h ELSE p.hash
  BY <1>1, AdvanceFields DEF Consistent
<1>3. t = "created" => p.hash = None
  BY <1>1, BoundWellFormed
  DEF IsPending, CheckBinding, PendingShape, Step, HashedPhase
<1> HIDE DEF next
<1>4. Bound(k, a) /\ Bound(next, a) /\ IsPending(next, a)
  BY <1>1, <1>2 DEF IsPending, Bound, Changed
<1>5. \A x \in Hash : x # None
  BY NoneAssumption
<1>6. \A x \in Hash : /\ Owns(next, a, x) =>
                         Owns(k, a, x) \/ (t = "created" /\ x = h)
                      /\ Owns(k, a, x) => Owns(next, a, x)
  <2>1. CASE t = "created"
    <3>1. q.hash = h /\ p.hash = None /\ q # None /\ p # None
      BY <1>1, <1>2, <1>3, <2>1 DEF IsPending
    <3> QED BY <1>2, <1>4, <1>5, <2>1, <3>1 DEF Owns, Names
  <2>2. CASE t # "created"
    <3>1. q.hash = p.hash /\ q # None /\ p # None
      BY <1>1, <1>2, <2>2 DEF IsPending
    <3> QED BY <1>2, <1>4, <3>1 DEF Owns, Names
  <2> QED BY <2>1, <2>2
<1>7. \A x \in Hash : /\ ServesAt(next, a, x) => ServesAt(k, a, x)
                      /\ RetiredAt(next, a, x) => RetiredAt(k, a, x)
  BY <1>2, <1>4 DEF ServesAt, RetiredAt
<1>8. \A x \in Hash : IsDelivered(next, a, x) => t = "delivered" /\ x = p.hash
  BY <1>2 DEF IsDelivered, PendingIn, Transition, Step
<1>9. \A id \in OpId : StandsAt(k, a, id) =>
        StandsAt(next, a, id) \/ (t = "created" /\ id = p.id)
  BY <1>1, <1>2, <1>4
  DEF StandsAt, PendingIn, HashlessPhase, Transition, Step
<1>10. EffectAt(next, k, a, IF t = "created" THEN {h} ELSE {},
                IF t = "delivered" THEN {p.hash} ELSE {}, {}, {},
                IF t = "created" THEN {p.id} ELSE {})
  BY <1>6, <1>7, <1>8, <1>9 DEF EffectAt
<1> QED BY <1>2, <1>4, <1>10, EffectOfChange DEF next, Changed

LEMMA DropPendingEffect ==
  ASSUME NEW k, Consistent(k), NEW a \in Address,
         PendingIn(k, a, HashlessPhase)
  PROVE  LET next == DropPending(k, a)
         IN /\ Effect(next, k, {}, {}, {}, {}, {k[a].pending.id})
            /\ ~IsPending(next, a)
<1> DEFINE next == DropPending(k, a)
<1>1. Bound(k, a) /\ k[a].pending # None /\ k[a].pending.hash = None
  BY BoundWellFormed
  DEF PendingIn, IsPending, CheckBinding, PendingShape, HashlessPhase,
      HashedPhase
<1>2. /\ Changed(next, k, a)
      /\ next[a].current = k[a].current
      /\ next[a].pending = None
      /\ next[a].retained = k[a].retained
  BY <1>1, DropPendingFields DEF Consistent
<1> HIDE DEF next
<1>3. \A h \in Hash : h # None
  BY NoneAssumption
<1>4. EffectAt(next, k, a, {}, {}, {}, {}, {k[a].pending.id})
  BY <1>1, <1>2, <1>3
  DEF EffectAt, Changed, Owns, Names, ServesAt, IsDelivered, RetiredAt,
      StandsAt, PendingIn, IsPending, Bound
<1> QED BY <1>2, <1>4, EffectOfChange DEF next, Changed, IsPending

(* The key an operation is closed with is retained as a failed candidate;  *)
(* a hashless one no longer stands.                                        *)
LEMMA RetainEffect ==
  ASSUME NEW k, Consistent(k), NEW a \in Address, IsPending(k, a),
         NEW h \in Hash, k[a].pending.hash \in {None, h}
  PROVE  LET next == RetainPending(k, a, h)
         IN /\ Effect(next, k, {h}, {}, {}, {},
                      IF k[a].pending.hash = None THEN {k[a].pending.id} ELSE {})
            /\ Bound(next, a)
            /\ \E r \in next[a].retained :
                 r.hash = h /\ r.status = "failed_candidate"
<1> DEFINE next == RetainPending(k, a, h)
           old == RetainedAs(h, k[a].pending.generation, "failed_candidate")
           settled == IF k[a].pending.hash = None THEN {k[a].pending.id} ELSE {}
<1>1. Bound(k, a) /\ k[a].pending # None
  BY DEF IsPending
<1>2. /\ Changed(next, k, a)
      /\ next[a].current = k[a].current
      /\ next[a].pending = None
      /\ next[a].retained = k[a].retained \cup {old}
  BY <1>1, RetainFields DEF Consistent
<1>3. old.hash = h /\ old.status = "failed_candidate"
  BY DEF RetainedAs
<1>4. k[a].pending.phase \in HashlessPhase => k[a].pending.hash = None
  BY <1>1, BoundWellFormed DEF CheckBinding, PendingShape, HashlessPhase,
                               HashedPhase
<1> HIDE DEF next, old
<1>5. Bound(next, a)
  BY <1>2 DEF Bound, Changed
<1>6. \A x \in Hash : /\ Owns(next, a, x) => Owns(k, a, x) \/ x = h
                      /\ Owns(k, a, x) => Owns(next, a, x)
  <2>1. \A x \in Hash : x # None
    BY NoneAssumption
  <2> QED BY <1>1, <1>2, <1>3, <1>5, <2>1 DEF Owns, Names
<1>7. \A x \in Hash : /\ ServesAt(next, a, x) => ServesAt(k, a, x)
                      /\ ~IsDelivered(next, a, x)
                      /\ RetiredAt(next, a, x) => RetiredAt(k, a, x)
  BY <1>1, <1>2, <1>3, <1>5
  DEF ServesAt, IsDelivered, RetiredAt, PendingIn, IsPending
<1>8. \A id \in OpId : StandsAt(k, a, id) => id \in settled
  BY <1>4 DEF StandsAt, PendingIn
<1>9. EffectAt(next, k, a, {h}, {}, {}, {}, settled)
  BY <1>6, <1>7, <1>8 DEF EffectAt
<1> HIDE DEF settled
<1>10. Effect(next, k, {h}, {}, {}, {}, settled)
  BY <1>2, <1>9, EffectOfChange DEF Changed
<1> QED BY <1>2, <1>3, <1>5, <1>10 DEF next, settled

LEMMA PromoteEffect ==
  ASSUME NEW k, Consistent(k), NEW a \in Address, CanPromoteKey(k, a)
  PROVE  LET next == PromoteKey(k, a)
         IN /\ Effect(next, k, {}, {}, {}, {}, {})
            /\ IsCurrent(next, a, k[a].pending.hash)
<1> DEFINE next == PromoteKey(k, a)
           c == k[a].current
           old == RetainedAs(c.hash, c.generation, "awaiting_retirement")
<1>1. /\ IsPending(k, a) /\ k[a].pending.phase = "delivered"
      /\ k[a].pending.hash \in Hash
  BY PendingHash DEF CanPromoteKey, PendingIn, HashedPhase
<1>2. /\ Changed(next, k, a)
      /\ next[a].current # None
      /\ next[a].current.hash = k[a].pending.hash
      /\ next[a].pending = None
      /\ next[a].retained = k[a].retained \cup (IF c = None THEN {} ELSE {old})
  BY <1>1, PromoteFields DEF Consistent
<1>3. old.hash = c.hash /\ old.status = "awaiting_retirement"
  BY DEF RetainedAs
<1> HIDE DEF next, old
<1>4. Bound(k, a) /\ Bound(next, a) /\ k[a].pending # None
  BY <1>1, <1>2 DEF IsPending, Bound, Changed
<1>5. \A x \in Hash : Owns(next, a, x) <=> Owns(k, a, x)
  BY <1>2, <1>3, <1>4 DEF Owns, Names
<1>6. \A x \in Hash : /\ ServesAt(next, a, x) => IsDelivered(k, a, x)
                      /\ ~IsDelivered(next, a, x)
                      /\ RetiredAt(next, a, x) => RetiredAt(k, a, x)
  BY <1>1, <1>2, <1>3, <1>4
  DEF ServesAt, IsDelivered, RetiredAt, PendingIn, IsPending
<1>7. \A id \in OpId : ~StandsAt(k, a, id)
  BY <1>1 DEF StandsAt, PendingIn, HashlessPhase
<1>8. EffectAt(next, k, a, {}, {}, {}, {}, {})
  BY <1>5, <1>6, <1>7 DEF EffectAt
<1>9. IsCurrent(next, a, k[a].pending.hash)
  BY <1>2, <1>4 DEF IsCurrent
<1> QED BY <1>2, <1>8, <1>9, EffectOfChange DEF next, Changed

LEMMA DecommissionEffect ==
  ASSUME NEW k, Consistent(k), NEW a \in Address, NEW h \in Hash,
         CanDecommission(k, a, h)
  PROVE  LET next == Decommission(k, a, "retired")
         IN /\ Effect(next, k, {}, {}, {h}, {}, {})
            /\ RetiredAt(next, a, h)
<1> DEFINE next == Decommission(k, a, "retired")
           c == k[a].current
           old == RetainedAs(c.hash, c.generation, "retired")
<1>1. Bound(k, a) /\ k[a].pending = None /\ c # None /\ c.hash = h
  BY DEF CanDecommission
<1>2. /\ Changed(next, k, a)
      /\ next[a].current = None
      /\ next[a].pending = None
      /\ next[a].retained = k[a].retained \cup {old}
  BY <1>1, DecommissionFields DEF Consistent, RetainedStatus
<1>3. old.hash = h /\ old.status = "retired"
  BY <1>1 DEF RetainedAs
<1> HIDE DEF next, old
<1>4. Bound(next, a)
  BY <1>2 DEF Bound, Changed
<1>5. \A x \in Hash : Owns(next, a, x) <=> Owns(k, a, x)
  BY <1>1, <1>2, <1>3, <1>4 DEF Owns, Names
<1>6. \A x \in Hash : /\ ~ServesAt(next, a, x) /\ ~IsDelivered(next, a, x)
                      /\ RetiredAt(next, a, x) => RetiredAt(k, a, x) \/ x = h
  BY <1>1, <1>2, <1>3, <1>4
  DEF ServesAt, IsDelivered, RetiredAt, PendingIn, IsPending
<1>7. \A id \in OpId : ~StandsAt(k, a, id)
  BY <1>1 DEF StandsAt, PendingIn, IsPending
<1>8. EffectAt(next, k, a, {}, {}, {h}, {}, {})
  BY <1>5, <1>6, <1>7 DEF EffectAt
<1>9. RetiredAt(next, a, h)
  BY <1>2, <1>3, <1>4 DEF RetiredAt
<1> QED BY <1>2, <1>8, <1>9, EffectOfChange DEF next, Changed

LEMMA DropRetainedEffect ==
  ASSUME NEW k, Consistent(k), NEW a \in Address, NEW r,
         CanDropRetained(k, a, r), r.hash \in Hash
  PROVE  LET next == DropRetained(k, a, r)
         IN /\ Effect(next, k, {}, {}, {}, {r.hash}, {})
            /\ ~Owned(next, r.hash)
<1> DEFINE next == DropRetained(k, a, r)
<1>1. Bound(k, a) /\ r \in k[a].retained
  BY DEF CanDropRetained
<1>2. /\ Changed(next, k, a)
      /\ next[a].current = k[a].current
      /\ next[a].pending = k[a].pending
      /\ next[a].retained = k[a].retained \ {r}
  BY DropFields DEF Consistent
<1> HIDE DEF next
<1>3. Bound(next, a)
  BY <1>2 DEF Bound, Changed
<1>4. EffectAt(next, k, a, {}, {}, {}, {r.hash}, {})
  BY <1>1, <1>2, <1>3
  DEF EffectAt, Owns, Names, ServesAt, IsDelivered, RetiredAt, StandsAt,
      PendingIn, IsPending
<1>5. ~Owns(next, a, r.hash)
  BY <1>1, <1>2, <1>3, BoundWellFormed
  DEF Owns, Names, CheckBinding, DistinctRoles
<1>6. \A c \in Address \ {a} : ~Owns(next, c, r.hash)
  <2>1. \A c \in Address \ {a} : ~Owns(k, c, r.hash)
    BY <1>1, NamesKept DEF Names
  <2> QED BY <1>2, <2>1 DEF Owns, Bound, Changed
<1> QED BY <1>2, <1>4, <1>5, <1>6, EffectOfChange DEF next, Changed, Owned

LEMMA StatusShape ==
  ASSUME NEW k, Consistent(k), NEW a \in Address, NEW r,
         NEW status \in RetainedStatus, CanDropRetained(k, a, r)
  PROVE  \E s \in SetRetainedStatus(k, a, r, status)[a].retained :
           s.hash = r.hash /\ s.status = status
<1> DEFINE new == [r EXCEPT !.status = status]
<1>1. new \in SetRetainedStatus(k, a, r, status)[a].retained
      /\ new.hash = r.hash
  BY StatusFields DEF Consistent
<1>2. new.status = status
  <2>1. r \in RetainedKey
    BY BoundWellFormed DEF KeyBinding, CanDropRetained
  <2> QED BY <2>1 DEF RetainedKey
<1> QED BY <1>1, <1>2

LEMMA StatusEffect ==
  ASSUME NEW k, Consistent(k), NEW a \in Address, NEW r,
         NEW status \in RetainedStatus, CanDropRetained(k, a, r)
  PROVE  LET next == SetRetainedStatus(k, a, r, status)
         IN Effect(next, k, {}, {},
                   IF status = "retired" THEN {r.hash} ELSE {}, {}, {})
<1> DEFINE next == SetRetainedStatus(k, a, r, status)
           new == [r EXCEPT !.status = status]
           retired == IF status = "retired" THEN {r.hash} ELSE {}
<1>1. Bound(k, a) /\ r \in k[a].retained
  BY DEF CanDropRetained
<1>2. /\ Changed(next, k, a)
      /\ next[a].current = k[a].current
      /\ next[a].pending = k[a].pending
      /\ next[a].retained = (k[a].retained \ {r}) \cup {new}
      /\ new.hash = r.hash
  BY StatusFields DEF Consistent
<1>3. new.status = status
  <2>1. r \in RetainedKey
    BY <1>1, BoundWellFormed DEF KeyBinding
  <2> QED BY <2>1 DEF RetainedKey
<1> HIDE DEF next, new
<1>4. Bound(next, a)
  BY <1>2 DEF Bound, Changed
<1>5. \A x \in Hash : Owns(next, a, x) <=> Owns(k, a, x)
  BY <1>1, <1>2, <1>4 DEF Owns, Names
<1>6. \A x \in Hash : RetiredAt(next, a, x) => RetiredAt(k, a, x) \/ x \in retired
  BY <1>1, <1>2, <1>3, <1>4 DEF RetiredAt
<1>7. EffectAt(next, k, a, {}, {}, retired, {}, {})
  BY <1>1, <1>2, <1>4, <1>5, <1>6
  DEF EffectAt, ServesAt, IsDelivered, StandsAt, PendingIn, IsPending
<1> HIDE DEF retired
<1>8. Effect(next, k, {}, {}, retired, {}, {})
  BY <1>2, <1>7, EffectOfChange DEF Changed
<1> QED BY <1>2, <1>3, <1>4, <1>8 DEF next, retired

LEMMA ForgetEffect ==
  ASSUME NEW k, Consistent(k), NEW a \in Address, CanForgetKey(k, a)
  PROVE  LET next == ForgetKey(k, a)
         IN /\ Effect(next, k, {}, {}, {}, {h \in Hash : Names(k[a], h)}, {})
            /\ ~Bound(next, a)
<1> DEFINE next == ForgetKey(k, a)
<1>1. /\ next[a] = None
      /\ \A c \in Address \ {a} : next[c] = k[c]
  BY DEF ForgetKey, Put, Consistent, Keys
<1>2. k[a].pending = None
  BY DEF CanForgetKey
<1> HIDE DEF next
<1>3. EffectAt(next, k, a, {}, {}, {}, {h \in Hash : Names(k[a], h)}, {})
  BY <1>1, <1>2
  DEF EffectAt, Owns, ServesAt, IsDelivered, RetiredAt, StandsAt, PendingIn,
      IsPending, Bound
<1> QED BY <1>1, <1>3, EffectOfChange DEF next, Bound

-----------------------------------------------------------------------------
(* A key in one role is in no other.                                       *)

LEMMA PendingIsNotCurrent ==
  ASSUME NEW k, Consistent(k), NEW a \in Address, IsPending(k, a),
         k[a].pending.hash \in Hash
  PROVE  \A c \in Address : ~IsCurrent(k, c, k[a].pending.hash)
<1>1. Bound(k, a) /\ k[a].pending # None /\ Names(k[a], k[a].pending.hash)
  BY DEF IsPending, Names
<1>2. ~IsCurrent(k, a, k[a].pending.hash)
  BY <1>1, BoundWellFormed DEF IsCurrent, CheckBinding, DistinctRoles
<1>3. \A c \in Address \ {a} : ~IsCurrent(k, c, k[a].pending.hash)
  BY <1>1, NamesKept DEF IsCurrent, Owns, Names
<1> QED BY <1>2, <1>3

LEMMA RetainedIsNotCurrent ==
  ASSUME NEW k, Consistent(k), NEW a \in Address, Bound(k, a),
         NEW r \in k[a].retained, r.hash \in Hash
  PROVE  \A c \in Address : ~IsCurrent(k, c, r.hash)
<1>1. Names(k[a], r.hash)
  BY DEF Names
<1>2. ~IsCurrent(k, a, r.hash)
  BY BoundWellFormed DEF IsCurrent, CheckBinding, DistinctRoles
<1>3. \A c \in Address \ {a} : ~IsCurrent(k, c, r.hash)
  BY <1>1, NamesKept DEF IsCurrent, Owns, Names
<1> QED BY <1>2, <1>3

-----------------------------------------------------------------------------
(* What a ledger says, given the keys OpenRouter holds, the attempts it    *)
(* may yet apply, how far each plaintext went, and the attempts answered   *)
(* for.                                                                    *)
KeptIn(k, held, attempts, told, answered) ==
  /\ Consistent(k)
  /\ \A h \in Hash :
       /\ Owned(k, h) => held[h].life # "none"
       /\ InUse(k, h) \/ AwaitsPromotion(k, h) => told[h] = "delivered"
       /\ CalledRetired(k, h) => held[h].life # "enabled"
       /\ held[h].life \in Live /\ held[h].maker # None
            => \/ held[h].maker.id \in answered
               \/ Owned(k, h) \/ Stands(k, held[h].maker.id)
  /\ \A t \in attempts : t.id \in answered \/ Stands(k, t.id)

Kept(k) == KeptIn(k, remote, inflight, plaintext, waived)

Guarded ==
  /\ \A h \in Hash : remote[h].life = "none" => plaintext[h] = "unseen"
  /\ ExposedIsRestricted

Ground ==
  /\ remote \in [Hash -> RemoteKey]
  /\ inflight \subseteq Attempt
  /\ plaintext \in [Hash -> {"unseen", "handed", "delivered"}]
  /\ waived \subseteq OpId
  /\ faults \in 0 .. MaxFaults
  /\ Guarded /\ Kept(disk) /\ Kept(synced)

-----------------------------------------------------------------------------
(* What is true of the run, by where it is.                                *)

In(labels) == run # None /\ run.pc \in labels

Decommissioning == {"decommissioned", "decommissioned_delete"}
Concluding == {"cleaned", "retired"} \cup Decommissioning
Disabling == {"disable", "confirm"}
Following == {"settings", "assign", "verify", "secured", "start_delivery",
              "deliver", "acknowledge", "promote", "reject", "doubt_delivery"}
Deleting == {"delete", "confirm_delete", "drop", "keep"}
Tracking == Following \cup Disabling \cup Concluding \cup Deleting
Undelivering == {"record", "settings", "assign", "verify", "secured",
                 "start_delivery", "deliver"}

(* Whatever a run follows up on is on disk,                                *)
Tracked ==
  In(Tracking) => run.hash \in Hash /\ Owns(disk, run.addr, run.hash)

(* as the key of its operation while the transaction goes straight on.     *)
Follows ==
  In(Following) => /\ IsPending(disk, run.addr)
                   /\ disk[run.addr].pending.hash = run.hash

(* The plaintext has gone no further than the run knows.                   *)
Told ==
  /\ In(Undelivering) => run.hash \in Hash /\ plaintext[run.hash] = "unseen"
  /\ In({"secured", "start_delivery", "deliver"}) =>
       remote[run.hash].secured = Restriction
  /\ In({"acknowledge", "promote"}) => plaintext[run.hash] = "delivered"
  /\ In({"reject"}) => plaintext[run.hash] = "handed"
  /\ In({"promote"}) =>
       \A k \in Ledgers : IsDelivered(k, run.addr, run.hash)

(* Until its hash is recorded, an attempt stands on disk under an          *)
(* identifier that no other key, made or yet to be made, answers to.       *)
Sole ==
  /\ In({"post", "abandon", "record"}) =>
       /\ IsPending(disk, run.addr) /\ disk[run.addr].pending.id = run.id
       /\ run.id \in OpId
       /\ \A t \in inflight : t.id # run.id
       /\ \A h \in Hash :
            Exists(h) /\ remote[h].maker # None /\ remote[h].maker.id = run.id
              => In({"record"}) /\ h = run.hash
  /\ In({"post"}) => \A k \in Ledgers : Stands(k, run.id)
  /\ In({"record"}) => remote[run.hash].life # "none"

(* At one of these, or on the way there through a disable. *)
Heading(labels) == In(labels) \/ (In(Disabling) /\ run.then \in labels)

(* What a disable may do to its key, and where it leads.                   *)
Spared ==
  /\ In(Disabling) => run.then \in {"end"} \cup Concluding
  /\ In({"delete"}) \/ Heading(Decommissioning) => run.cmd = "decommission"
  /\ In({"disable"}) /\ run.cmd # "decommission" =>
       \A a \in Address : ~IsCurrent(disk, a, run.hash)
  /\ In({"disable"}) /\ run.cmd \in {"apply", "rotate"} =>
       plaintext[run.hash] # "delivered"

(* A verdict is about the key as it is, and stays: no key that was made is *)
(* made again.                                                             *)
Proved ==
  /\ In(Concluding) /\ run.verdict \in Dead => remote[run.hash].life # "enabled"
  /\ In(Concluding) /\ run.verdict = "absent" => ~Exists(run.hash)
  /\ In({"drop"}) => ~Exists(run.hash)
  /\ In({"report"}) => run.verdict \in Said
  /\ In({"report"}) /\ run.verdict \in {"retired", "untracked"} =>
       run.hash \in Hash /\ remote[run.hash].life # "none"

(* What a disable leaves in the file until its outcome is recorded.        *)
Unrecorded ==
  /\ Heading({"cleaned"}) =>
       RecordedAs("failed_candidate", run.addr, run.hash)
  /\ Heading(Decommissioning) =>
       IsCurrent(disk, run.addr, run.hash)

Placed ==
  /\ Tracked /\ Follows /\ Told /\ Sole /\ Spared /\ Proved /\ Unrecorded
  /\ ReportedIsSo

Inv == Ground /\ run \in RunState \cup {None} /\ Placed

-----------------------------------------------------------------------------
(* What a mutation, and what the world, may do to one ledger.              *)

LEMMA RetiredIsOwned ==
  ASSUME NEW k, NEW h, CalledRetired(k, h)
  PROVE  Owned(k, h)
BY DEF CalledRetired, RetiredAt, Owned, Owns, Names

LEMMA MutationKept ==
  ASSUME NEW k, NEW held \in [Hash -> RemoteKey], NEW attempts \in SUBSET Attempt,
         NEW told, NEW answered, NEW more \in SUBSET OpId,
         answered \subseteq more,
         KeptIn(k, held, attempts, told, answered),
         NEW next, Consistent(next),
         NEW named, NEW delivered, NEW retired, NEW dropped, NEW settled,
         Effect(next, k, named, delivered, retired, dropped, settled),
         \A h \in Hash :
           /\ h \in named => held[h].life # "none"
           /\ h \in delivered => told[h] = "delivered"
           /\ h \in retired => held[h].life # "enabled"
           /\ held[h].life \in Live /\ held[h].maker # None =>
                /\ h \in dropped => held[h].maker.id \in more
                /\ held[h].maker.id \in settled =>
                     held[h].maker.id \in more \/ Owned(next, h),
         \A t \in attempts : t.id \in settled => t.id \in more
  PROVE  KeptIn(next, held, attempts, told, more)
<1>1. ASSUME NEW h \in Hash, held[h].life \in Live, held[h].maker # None,
             held[h].maker.id \notin more
      PROVE  Owned(next, h) \/ Stands(next, held[h].maker.id)
  <2>1. held[h].maker.id \in OpId
    BY <1>1 DEF RemoteKey, Attempt
  <2>2. Owned(k, h) \/ Stands(k, held[h].maker.id)
    BY <1>1 DEF KeptIn
  <2> QED BY <1>1, <2>1, <2>2 DEF Effect
<1>2. ASSUME NEW t \in attempts, t.id \notin more
      PROVE  Stands(next, t.id)
  <2>1. t.id \in OpId
    BY DEF Attempt
  <2>2. Stands(k, t.id)
    BY <1>2 DEF KeptIn
  <2> QED BY <1>2, <2>1, <2>2 DEF Effect
<1>3. ASSUME NEW h \in Hash
      PROVE  /\ Owned(next, h) => held[h].life # "none"
             /\ InUse(next, h) \/ AwaitsPromotion(next, h)
                  => told[h] = "delivered"
             /\ CalledRetired(next, h) => held[h].life # "enabled"
  BY DEF KeptIn, Effect
<1> QED BY <1>1, <1>2, <1>3 DEF KeptIn

LEMMA WorldKept ==
  ASSUME NEW k, NEW held, NEW attempts, NEW told, NEW answered,
         KeptIn(k, held, attempts, told, answered),
         NEW held2, NEW attempts2, NEW told2, NEW answered2,
         answered \subseteq answered2,
         \A h \in Hash :
           /\ held[h].life # "none" =>
                /\ held2[h].life # "none"
                /\ held2[h].life = "enabled" => held[h].life = "enabled"
           /\ told[h] = "delivered" => told2[h] = "delivered"
           /\ held2[h].life \in Live /\ held2[h].maker # None =>
                \/ held[h].life \in Live /\ held[h].maker = held2[h].maker
                \/ held2[h].maker.id \in answered2
                \/ Stands(k, held2[h].maker.id),
         \A t \in attempts2 :
           t \in attempts \/ t.id \in answered2 \/ Stands(k, t.id)
  PROVE  KeptIn(k, held2, attempts2, told2, answered2)
<1>1. ASSUME NEW h \in Hash
      PROVE  /\ Owned(k, h) => held2[h].life # "none"
             /\ InUse(k, h) \/ AwaitsPromotion(k, h) => told2[h] = "delivered"
             /\ CalledRetired(k, h) => held2[h].life # "enabled"
             /\ held2[h].life \in Live /\ held2[h].maker # None
                  => \/ held2[h].maker.id \in answered2
                     \/ Owned(k, h) \/ Stands(k, held2[h].maker.id)
  BY RetiredIsOwned DEF KeptIn
<1>2. \A t \in attempts2 : t.id \in answered2 \/ Stands(k, t.id)
  BY DEF KeptIn
<1> QED BY <1>1, <1>2 DEF KeptIn

-----------------------------------------------------------------------------
(* A step that writes the ledger leaves the world alone; what it may not   *)
(* write about the ledger on disk, it did not write.                       *)
LEMMA JournalGround ==
  ASSUME Ground, UNCHANGED world,
         waived \subseteq waived', waived' \subseteq OpId,
         NEW me, NEW can, NEW next, NEW done, NEW otherwise,
         JournalAs(me, can, next, done, otherwise),
         can /\ disk' = next =>
           KeptIn(next, remote, inflight, plaintext, waived')
  PROVE  Ground'
<1>1. /\ remote' = remote /\ inflight' = inflight /\ plaintext' = plaintext
  BY DEF world
<1>2. \A k : Kept(k) => KeptIn(k, remote, inflight, plaintext, waived')
  BY WorldKept DEF Kept
<1>3. /\ KeptIn(disk', remote, inflight, plaintext, waived')
      /\ KeptIn(synced', remote, inflight, plaintext, waived')
  BY <1>2 DEF JournalAs, Ground, ledger
<1>4. Kept(disk)' /\ Kept(synced)'
  BY <1>1, <1>3 DEF Kept
<1>5. faults' \in 0 .. MaxFaults
  BY MaxFaultsAssumption DEF JournalAs, Mishap, Plain, Ground
<1>6. Guarded'
  BY <1>1 DEF Guarded, Ground, ExposedIsRestricted
<1> QED BY <1>1, <1>4, <1>5, <1>6 DEF Ground

(* A step that leaves the ledger alone. *)
LEMMA WorldGround ==
  ASSUME Ground, UNCHANGED <<ledger, waived>>,
         remote' \in [Hash -> RemoteKey], inflight' \subseteq Attempt,
         plaintext' \in [Hash -> {"unseen", "handed", "delivered"}],
         Plain \/ Mishap,
         \A h \in Hash :
           /\ remote[h].life # "none" =>
                /\ remote'[h].life # "none"
                /\ remote'[h].life = "enabled" => remote[h].life = "enabled"
           /\ remote'[h].life = "none" => plaintext'[h] = "unseen"
           /\ plaintext'[h] # "unseen" => remote'[h].secured = Restriction
           /\ plaintext[h] = "delivered" => plaintext'[h] = "delivered"
           /\ remote'[h].life \in Live /\ remote'[h].maker # None =>
                \/ remote[h].life \in Live /\ remote[h].maker = remote'[h].maker
                \/ remote'[h].maker.id \in waived
                \/ \A k \in Ledgers : Stands(k, remote'[h].maker.id),
         \A t \in inflight' :
           t \in inflight \/ \A k \in Ledgers : Stands(k, t.id)
  PROVE  Ground'
<1>1. disk' = disk /\ synced' = synced /\ waived' = waived
  BY DEF ledger
<1>2. ASSUME NEW k \in Ledgers, Kept(k)
      PROVE  KeptIn(k, remote', inflight', plaintext', waived')
  BY <1>1, <1>2, WorldKept DEF Kept
<1>3. Kept(disk)' /\ Kept(synced)'
  BY <1>1, <1>2 DEF Kept, Ground, Ledgers
<1>4. faults' \in 0 .. MaxFaults
  BY MaxFaultsAssumption DEF Mishap, Plain, Ground
<1> QED BY <1>1, <1>3, <1>4 DEF Ground, Guarded, ExposedIsRestricted

-----------------------------------------------------------------------------
(* Where a run may go next, and what has to be true there.                 *)

LEMMA EndedPlaced ==
  ASSUME run' = None
  PROVE  Placed'
BY DEF Placed, Tracked, Follows, Told, Sole, Spared, Proved, Unrecorded,
       ReportedIsSo, In, Heading, At

LEMMA UnboundPlaced ==
  ASSUME run'.pc \in {"plan", "begin", "doubt_create", "end"}
  PROVE  Placed'
BY DEF Placed, Tracked, Follows, Told, Sole, Spared, Proved, Unrecorded,
       ReportedIsSo, In, Heading, At, Tracking, Following, Disabling,
       Concluding, Decommissioning, Deleting, Undelivering

LEMMA FollowingPlaced ==
  ASSUME run'.pc \in Following, Tracked', Follows', Told'
  PROVE  Placed'
BY DEF Placed, Sole, Spared, Proved, Unrecorded,
       ReportedIsSo, In, Heading, At, Following, Disabling,
       Concluding, Decommissioning

LEMMA DisablingPlaced ==
  ASSUME run'.pc \in Disabling, Tracked', Spared', Unrecorded'
  PROVE  Placed'
BY DEF Placed, Follows, Told, Sole, Proved, ReportedIsSo, In, At, Following,
       Disabling, Concluding, Decommissioning, Undelivering

LEMMA ConcludingPlaced ==
  ASSUME run'.pc \in Concluding, Tracked', Spared', Proved', Unrecorded'
  PROVE  Placed'
BY DEF Placed, Follows, Told, Sole, ReportedIsSo, In, At, Following,
       Concluding, Decommissioning, Undelivering

LEMMA DeletingPlaced ==
  ASSUME run'.pc \in Deleting, Tracked', Spared', Proved'
  PROVE  Placed'
BY DEF Placed, Follows, Told, Sole, Unrecorded, ReportedIsSo, In, Heading,
       At, Following, Disabling, Deleting, Decommissioning, Undelivering

LEMMA ReportPlaced ==
  ASSUME run'.pc = "report", Proved', ReportedIsSo'
  PROVE  Placed'
BY DEF Placed, Tracked, Follows, Told, Sole, Spared, Unrecorded, In, Heading,
       Tracking, Following, Disabling, Concluding, Decommissioning, Deleting,
       Undelivering

(* A run a failed write goes on with differs in its memory's freshness.    *)
Alike(r, s) ==
  /\ r.cmd = s.cmd /\ r.pc = s.pc /\ r.addr = s.addr /\ r.hash = s.hash
  /\ r.id = s.id /\ r.verdict = s.verdict /\ r.then = s.then

LEMMA StaleTyped ==
  ASSUME NEW r \in RunState
  PROVE  LET s == [r EXCEPT !.fresh = FALSE]
         IN s \in RunState /\ Alike(s, r)
BY DEF RunState, Alike

LEMMA GotoTyped ==
  ASSUME NEW r \in RunState, NEW pc \in PhaseOfRun
  PROVE  LET s == [r EXCEPT !.pc = pc]
         IN /\ s \in RunState
            /\ s.cmd = r.cmd /\ s.pc = pc /\ s.addr = r.addr
            /\ s.hash = r.hash /\ s.id = r.id /\ s.verdict = r.verdict
            /\ s.then = r.then
BY DEF RunState

LEMMA DisableTyped ==
  ASSUME NEW r \in RunState, NEW then \in PhaseOfRun
  PROVE  LET s == GotoDisable(r, then)
         IN /\ s \in RunState
            /\ s.cmd = r.cmd /\ s.pc = "disable" /\ s.addr = r.addr
            /\ s.hash = r.hash /\ s.then = then
<1>1. "disable" \in PhaseOfRun
  BY DEF PhaseOfRun
<1> QED BY <1>1 DEF RunState, GotoDisable

LEMMA ConcludedTyped ==
  ASSUME NEW r \in RunState, NEW verdict \in Verdict
  PROVE  LET s == Concluded(r, verdict)
         IN /\ s \in RunState
            /\ s.cmd = r.cmd /\ s.pc = r.then /\ s.addr = r.addr
            /\ s.hash = r.hash /\ s.verdict = verdict /\ s.then = r.then
BY DEF RunState, Concluded

LEMMA ReportingTyped ==
  ASSUME NEW r \in RunState, NEW said \in Said
  PROVE  LET s == Reporting(r, said)
         IN /\ s \in RunState
            /\ s.pc = "report" /\ s.addr = r.addr /\ s.hash = r.hash
            /\ s.verdict = said
BY DEF RunState, Reporting, PhaseOfRun

LEMMA NewRunTyped ==
  ASSUME NEW cmd \in Command, NEW pc \in PhaseOfRun, NEW a \in Address,
         NEW h \in Hash \cup {None}, NEW todo \in SUBSET Address
  PROVE  LET r == RunAt(cmd, pc, a, h, todo)
         IN /\ r \in RunState
            /\ r.cmd = cmd /\ r.pc = pc /\ r.addr = a /\ r.hash = h
            /\ r.todo = todo /\ r.verdict = None
BY DEF RunState, RunAt, PhaseOfRun

(* What a journaled step does with the run. *)
LEMMA JournalRun ==
  ASSUME NEW me, NEW can, NEW next, NEW done, NEW otherwise,
         otherwise \in RunState \cup {None},
         JournalAs(me, can, next, done, otherwise)
  PROVE  \/ /\ can /\ disk' = next /\ synced' = next
            /\ run' = done
         \/ run' = None
         \/ /\ (can /\ disk' = next) \/ disk' = disk
            /\ synced' = synced
            /\ otherwise # None
            /\ run' \in RunState /\ Alike(run', otherwise)
<1>1. \A r \in RunState : Alike(r, r)
  BY DEF Alike
<1> QED BY <1>1, StaleTyped DEF JournalAs, ledger, Ended

-----------------------------------------------------------------------------
(* Between two requests.                                                   *)

(* At a label, run is a record. *)
LEMMA RunIsTyped ==
  ASSUME Inv, run # None
  PROVE  run \in RunState
BY DEF Inv

LEMMA SuccessorUnspent ==
  ASSUME Kept(disk), NEW a \in Address, Successor(a) # None
  PROVE  Successor(a) \in Generation /\ Unspent(disk, a, Successor(a))
<1>1. disk \in Keys /\ 1 \in Generation
  BY MaxGenerationAssumption DEF Kept, KeptIn, Consistent, Generation
<1> QED BY <1>1, NextGenerationUnspent DEF Successor

LEMMA BeginPreserves ==
  ASSUME Inv, NEW me, me.addr \in Address,
         me \in RunState, Begin(me)
  PROVE  Inv'
<1>1. PICK id \in OpId, r \in Receiver :
        /\ Minted(id)
        /\ Successor(me.addr) # None
        /\ JournalAs(me, CanBeginCreate(disk, me.addr, Successor(me.addr)),
                     BeginCreate(disk, me.addr, Successor(me.addr), r, id),
                     [me EXCEPT !.pc = "post", !.id = id, !.hash = None],
                     Ended)
  BY DEF Begin
<1> DEFINE a == me.addr
           g == Successor(a)
           can == CanBeginCreate(disk, a, g)
           next == BeginCreate(disk, a, g, r, id)
           done == [me EXCEPT !.pc = "post", !.id = id, !.hash = None]
<1>2. UNCHANGED world /\ waived' = waived
  BY DEF Begin
<1>3. Ground /\ Kept(disk)
  BY DEF Inv, Ground
<1>4. g \in Generation
  BY <1>1, <1>3, SuccessorUnspent
<1>5. ASSUME can
      PROVE  /\ Consistent(next)
             /\ Effect(next, disk, {}, {}, {}, {}, {})
             /\ StandsAt(next, a, id)
  <2>1. Consistent(disk)
    BY <1>3 DEF Kept, KeptIn
  <2> HIDE DEF g
  <2> QED BY <1>4, <1>5, <2>1, BeginEffect, BeginCreateConsistent
<1>6. done \in RunState /\ done.pc = "post" /\ done.addr = a /\ done.id = id
  BY DEF RunState, PhaseOfRun
<1> HIDE DEF can, next, done, g
<1>7. JournalAs(me, can, next, done, None)
  BY <1>1 DEF can, next, done, g, Ended
<1>8. can => KeptIn(next, remote, inflight, plaintext, waived')
  BY <1>2, <1>3, <1>5, MutationKept DEF Kept, Ground
<1>9. Ground'
  BY <1>2, <1>3, <1>7, <1>8, JournalGround DEF Ground
<1>10. \/ can /\ disk' = next /\ synced' = next /\ run' = done
       \/ run' = None
  BY <1>7, JournalRun
<1>11. CASE can /\ disk' = next /\ synced' = next /\ run' = done
  <2>1. /\ IsPending(next, a) /\ next[a].pending.id = id
        /\ Stands(next, id)
    BY <1>5, <1>11 DEF StandsAt, PendingIn, Stands
  <2>2. /\ \A h \in Hash : Exists(h) /\ remote[h].maker # None
                             => remote[h].maker.id # id
        /\ \A t \in inflight : t.id # id
    BY <1>1 DEF Minted
  <2>3. remote' = remote /\ inflight' = inflight
    BY <1>2 DEF world
  <2>4. Sole'
    BY <1>6, <1>11, <2>1, <2>2, <2>3 DEF Sole, In, Ledgers, Exists
  <2>5. Placed'
    BY <1>6, <1>11, <2>4
    DEF Placed, Tracked, Follows, Told, Spared, Proved, Unrecorded,
        ReportedIsSo, In, Heading, At, Tracking, Following, Disabling,
        Concluding, Decommissioning, Deleting, Undelivering
  <2> QED BY <1>6, <1>9, <1>11, <2>5 DEF Inv
<1>12. CASE run' = None
  BY <1>9, <1>12, EndedPlaced DEF Inv
<1> QED BY <1>10, <1>11, <1>12

-----------------------------------------------------------------------------
(* The transaction.                                                        *)

LEMMA PendingOwned ==
  ASSUME NEW k, NEW a \in Address, IsPending(k, a)
  PROVE  Owns(k, a, k[a].pending.hash)
BY DEF IsPending, Owns, Names

LEMMA LedgersConsistent ==
  ASSUME Inv
  PROVE  Ground /\ Kept(disk) /\ Consistent(disk) /\ Consistent(synced)
BY DEF Inv, Ground, Kept, KeptIn

(* What a journaled transition of the run's operation leaves.              *)
LEMMA AdvanceJournaled ==
  ASSUME Inv, run # None, UNCHANGED <<world, waived>>,
         NEW t \in Transition, NEW done, NEW otherwise,
         otherwise \in RunState \cup {None},
         JournalAdvance(t, done, otherwise),
         t = "created" =>
           /\ run.hash \in Hash /\ remote[run.hash].life # "none"
           /\ \A h \in Hash :
                Exists(h) /\ remote[h].maker # None
                  /\ remote[h].maker.id = disk[run.addr].pending.id
                  => h = run.hash
           /\ \A attempt \in inflight :
                attempt.id # disk[run.addr].pending.id,
         t = "delivered" =>
           plaintext[disk[run.addr].pending.hash] = "delivered"
  PROVE  LET p == disk[run.addr].pending
             q == disk'[run.addr].pending
             advanced == /\ IsPending(disk', run.addr)
                         /\ q.hash = (IF t = "created" THEN run.hash ELSE p.hash)
         IN /\ Ground'
            /\ \/ /\ advanced /\ q.phase = Step[t][2]
                  /\ synced' = disk' /\ run' = done
               \/ run' = None
               \/ /\ advanced \/ disk' = disk
                  /\ otherwise # None
                  /\ run' \in RunState /\ Alike(run', otherwise)
<1> DEFINE a == run.addr
           p == disk[a].pending
           can == CanAdvanceKey(disk, a, t, run.hash)
           next == AdvanceKey(disk, a, t, run.hash)
           hash == IF t = "created" THEN run.hash ELSE p.hash
<1>1. a \in Address
  BY RunIsTyped DEF RunState
<1>2. Ground /\ Kept(disk) /\ Consistent(disk)
  BY LedgersConsistent
<1>3. /\ remote' = remote /\ inflight' = inflight /\ plaintext' = plaintext
      /\ waived' = waived
  BY DEF world
<1>4. JournalAs(run, can, next, done, otherwise)
  BY DEF JournalAdvance, Journal
<1> DEFINE settled == IF t = "created" THEN {p.id} ELSE {}
           named == IF t = "created" THEN {run.hash} ELSE {}
           delivered == IF t = "delivered" THEN {p.hash} ELSE {}
<1>5. ASSUME can
      PROVE  /\ Consistent(next)
             /\ Effect(next, disk, named, delivered, {}, {}, settled)
             /\ IsPending(next, a)
             /\ next[a].pending.phase = Step[t][2]
             /\ next[a].pending.hash = hash
  <2>1. t = "created" => run.hash \in Hash
    OBVIOUS
  <2>2. Consistent(next)
    BY <1>1, <1>2, <1>5, <2>1, AdvanceConsistent
  <2>3. Effect(next, disk, named, delivered, {}, {}, settled)
    BY <1>1, <1>2, <1>5, <2>1, AdvanceEffect
  <2>4. /\ IsPending(next, a)
        /\ next[a].pending.phase = Step[t][2]
        /\ next[a].pending.hash = hash
    BY <1>1, <1>2, <1>5, <2>1, AdvanceShape DEF Consistent
  <2> QED BY <2>2, <2>3, <2>4
<1>6. can => KeptIn(next, remote, inflight, plaintext, waived)
  <2>1. ASSUME can, t = "created"
        PROVE  Owned(next, run.hash)
    BY <1>1, <1>5, <2>1, PendingOwned DEF Owned
  <2> HIDE DEF can, next
  <2>2. \A h \in Hash :
          /\ h \in named => remote[h].life # "none"
          /\ h \in delivered => plaintext[h] = "delivered"
          /\ can /\ remote[h].life \in Live /\ remote[h].maker # None
               /\ remote[h].maker.id \in settled => Owned(next, h)
    BY <2>1 DEF Exists
  <2>3. \A attempt \in inflight : attempt.id \notin settled
    OBVIOUS
  <2> HIDE DEF named, delivered, settled
  <2> QED BY <1>2, <1>5, <2>2, <2>3, MutationKept DEF Kept, Ground
<1> HIDE DEF can, next, named, delivered, settled
<1>7. Ground'
  BY <1>2, <1>3, <1>4, <1>6, JournalGround DEF Ground
<1>8. \/ /\ can /\ disk' = next /\ synced' = next /\ run' = done
      \/ run' = None
      \/ /\ (can /\ disk' = next) \/ disk' = disk
         /\ otherwise # None
         /\ run' \in RunState /\ Alike(run', otherwise)
  BY <1>4, JournalRun
<1> QED BY <1>5, <1>7, <1>8

(* A run whose key cannot be delivered disables it.                        *)
LEMMA UndeliverablePlaced ==
  ASSUME Inv, run # None, run.hash \in Hash,
         run' \in RunState, Alike(run', Undeliverable),
         Consistent(disk'), IsPending(disk', run.addr),
         disk'[run.addr].pending.hash = run.hash,
         plaintext'[run.hash] # "delivered"
  PROVE  Placed'
<1>1. run \in RunState /\ run.addr \in Address /\ "end" \in PhaseOfRun
  BY RunIsTyped DEF RunState, PhaseOfRun
<1>2. /\ run'.pc = "disable" /\ run'.then = "end"
      /\ run'.hash = run.hash /\ run'.addr = run.addr
  BY <1>1, DisableTyped DEF Alike, Undeliverable
<1>3. Tracked'
  BY <1>1, <1>2, PendingOwned DEF Tracked
<1>4. \A a \in Address : ~IsCurrent(disk', a, run.hash)
  BY <1>1, PendingIsNotCurrent
<1>5. Spared'
  BY <1>2, <1>4 DEF Spared, In, Heading, Decommissioning, Disabling, Concluding, IsCurrent, Bound
<1>6. Unrecorded'
  BY <1>2 DEF Unrecorded, In, Heading, Decommissioning
<1> QED BY <1>2, <1>3, <1>5, <1>6, DisablingPlaced DEF Disabling

(* While the transaction goes straight on, its key is the operation's.     *)
LEMMA OnTheLine ==
  ASSUME Inv, In(Following)
  PROVE  /\ run \in RunState /\ run.addr \in Address /\ run.hash \in Hash
         /\ IsPending(disk, run.addr)
         /\ disk[run.addr].pending.hash = run.hash
         /\ remote[run.hash].life # "none"
<1>1. run \in RunState /\ run.addr \in Address
  BY RunIsTyped DEF In, RunState
<1>2. run.hash \in Hash /\ Owns(disk, run.addr, run.hash)
  BY DEF Inv, Placed, Tracked, In, Tracking
<1>3. remote[run.hash].life # "none"
  BY <1>1, <1>2, LedgersConsistent DEF Kept, KeptIn, Owned
<1> QED BY <1>1, <1>2, <1>3 DEF Inv, Placed, Follows

LEMMA PostPreserves ==
  ASSUME Inv, Post
  PROVE  Inv'
<1>1. /\ run \in RunState /\ run.pc = "post" /\ run # None
      /\ run.addr \in Address
  BY RunIsTyped DEF Post, At, RunState
<1>2. /\ run.id \in OpId
      /\ \A t \in inflight : t.id # run.id
      /\ \A h \in Hash :
           Exists(h) /\ remote[h].maker # None => remote[h].maker.id # run.id
      /\ IsPending(disk, run.addr) /\ disk[run.addr].pending.id = run.id
      /\ \A k \in Ledgers : Stands(k, run.id)
  BY <1>1 DEF Inv, Placed, Sole, In
<1>3. UNCHANGED <<ledger, waived>> /\ plaintext' = plaintext
  BY DEF Post
<1>4. Ground
  BY DEF Inv
<1>5. /\ ThisAttempt \in Attempt /\ ThisAttempt.id = run.id
  BY <1>1, <1>2 DEF ThisAttempt, Attempt
<1>6. /\ Goto("doubt_create") \in RunState
      /\ Goto("doubt_create").pc = "doubt_create"
      /\ Goto("abandon") \in RunState /\ Goto("abandon").pc = "abandon"
      /\ Goto("abandon").addr = run.addr /\ Goto("abandon").id = run.id
  <2>1. "doubt_create" \in PhaseOfRun /\ "abandon" \in PhaseOfRun
    BY DEF PhaseOfRun
  <2> QED BY <1>1, <2>1, GotoTyped DEF Goto
<1>7. ASSUME NEW h \in Hash, MakeKey(h, ThisAttempt), inflight' = inflight,
             Plain \/ Mishap
      PROVE  /\ Ground'
             /\ remote'[h].life = "enabled" /\ plaintext[h] = "unseen"
             /\ \A g \in Hash \ {h} : remote'[g] = remote[g]
  <2>1. /\ remote[h].life = "none"
        /\ remote' = [remote EXCEPT ![h] = NewKey(ThisAttempt)]
    BY <1>7 DEF MakeKey
  <2>2. NewKey(ThisAttempt) \in RemoteKey
    BY <1>5 DEF NewKey, RemoteKey, Live
  <2>3. /\ remote' \in [Hash -> RemoteKey]
        /\ remote'[h] = NewKey(ThisAttempt)
        /\ \A g \in Hash \ {h} : remote'[g] = remote[g]
    BY <1>4, <2>1, <2>2 DEF Ground
  <2>4. /\ remote'[h].life = "enabled" /\ remote'[h].maker.id = run.id
    BY <1>5, <2>3 DEF NewKey
  <2>5. plaintext[h] = "unseen"
    BY <1>4, <2>1 DEF Ground, Guarded
  <2>6. \A g \in Hash :
          /\ remote[g].life # "none" =>
               /\ remote'[g].life # "none"
               /\ remote'[g].life = "enabled" => remote[g].life = "enabled"
          /\ remote'[g].life = "none" => plaintext'[g] = "unseen"
          /\ plaintext'[g] # "unseen" => remote'[g].secured = Restriction
          /\ plaintext[g] = "delivered" => plaintext'[g] = "delivered"
          /\ remote'[g].life \in Live /\ remote'[g].maker # None =>
               \/ remote[g].life \in Live /\ remote[g].maker = remote'[g].maker
               \/ remote'[g].maker.id \in waived
               \/ \A k \in Ledgers : Stands(k, remote'[g].maker.id)
    BY <1>2, <1>3, <1>4, <2>1, <2>3, <2>4, <2>5
    DEF Ground, Guarded, ExposedIsRestricted
  <2>7. Ground'
    BY <1>3, <1>4, <1>7, <2>3, <2>6, WorldGround DEF Ground
  <2> QED BY <2>3, <2>4, <2>5, <2>7
<1>8. CASE \E h \in Hash : /\ MakeKey(h, ThisAttempt)
                           /\ run' = [run EXCEPT !.pc = "record", !.hash = h]
                           /\ UNCHANGED inflight /\ Plain
  <2>1. PICK h \in Hash : /\ MakeKey(h, ThisAttempt)
                          /\ run' = [run EXCEPT !.pc = "record", !.hash = h]
                          /\ UNCHANGED inflight /\ Plain
    BY <1>8
  <2>2. /\ run' \in RunState /\ run'.pc = "record" /\ run'.hash = h
        /\ run'.addr = run.addr /\ run'.id = run.id
    <3>1. "record" \in PhaseOfRun
      BY DEF PhaseOfRun
    <3> QED BY <1>1, <2>1, <3>1 DEF RunState
  <2>3. /\ Ground'
        /\ remote'[h].life = "enabled" /\ plaintext[h] = "unseen"
        /\ \A g \in Hash \ {h} : remote'[g] = remote[g]
    BY <1>7, <2>1
  <2>4. Sole'
    BY <1>2, <1>3, <2>1, <2>2, <2>3 DEF Sole, In, Exists, ledger
  <2>5. Told'
    BY <1>3, <2>2, <2>3 DEF Told, In
  <2>6. Placed'
    BY <2>2, <2>4, <2>5
    DEF Placed, Tracked, Follows, Spared, Proved, Unrecorded,
        ReportedIsSo, In, Heading, At, Tracking, Following, Disabling,
        Concluding, Decommissioning, Deleting
  <2> QED BY <2>2, <2>3, <2>6 DEF Inv
<1>9. CASE \E h \in Hash : /\ MakeKey(h, ThisAttempt)
                           /\ run' = OutcomeUnknown
                           /\ UNCHANGED inflight /\ Mishap
  BY <1>6, <1>7, <1>9, UnboundPlaced DEF Inv, OutcomeUnknown
<1>10. CASE /\ inflight' = inflight \cup {ThisAttempt}
            /\ run' = OutcomeUnknown
            /\ UNCHANGED remote /\ Mishap
  <2>1. inflight' \subseteq Attempt
    BY <1>4, <1>5, <1>10 DEF Ground
  <2>2. \A t \in inflight' : t \in inflight \/ \A k \in Ledgers : Stands(k, t.id)
    BY <1>2, <1>5, <1>10
  <2>3. Ground'
    BY <1>3, <1>4, <1>10, <2>1, <2>2, WorldGround
    DEF Ground, Guarded, ExposedIsRestricted
  <2> QED BY <1>6, <1>10, <2>3, UnboundPlaced DEF Inv, OutcomeUnknown
<1>11. CASE run' = Goto("abandon") /\ UNCHANGED <<remote, inflight>> /\ Plain
  <2>1. Ground'
    BY <1>3, <1>4, <1>11, WorldGround DEF Ground, Guarded, ExposedIsRestricted
  <2>2. Sole'
    BY <1>2, <1>3, <1>6, <1>11 DEF Sole, In, Exists, ledger
  <2>3. Placed'
    BY <1>6, <1>11, <2>2
    DEF Placed, Tracked, Follows, Told, Spared, Proved, Unrecorded,
        ReportedIsSo, In, Heading, At, Tracking, Following, Disabling,
        Concluding, Decommissioning, Deleting, Undelivering
  <2> QED BY <1>6, <1>11, <2>1, <2>3 DEF Inv
<1> QED BY <1>8, <1>9, <1>10, <1>11 DEF Post

LEMMA PendingTracked ==
  ASSUME run'.addr \in Address, run'.hash \in Hash,
         IsPending(disk', run'.addr),
         disk'[run'.addr].pending.hash = run'.hash
  PROVE  Tracked' /\ Follows'
BY PendingOwned DEF Tracked, Follows

LEMMA UnpreparedPreserves ==
  ASSUME Inv, run' = None, UNCHANGED <<ledger, world, waived, faults>>
  PROVE  Inv'
<1>1. Ground'
  BY DEF Inv, Ground, Guarded, ExposedIsRestricted, Kept, ledger, world
<1> QED BY <1>1, EndedPlaced DEF Inv

LEMMA AbandonPreserves ==
  ASSUME Inv, AbandonRefused
  PROVE  Inv'
<1> DEFINE a == run.addr
           can == CanAbandonCreate(disk, a)
           next == DropPending(disk, a)
<1>1. /\ run.pc = "abandon" /\ run # None /\ a \in Address
  BY RunIsTyped DEF AbandonRefused, At, RunState
<1>2. /\ disk[a].pending.id = run.id
      /\ \A t \in inflight : t.id # run.id
      /\ \A h \in Hash :
           Exists(h) /\ remote[h].maker # None => remote[h].maker.id # run.id
  BY <1>1 DEF Inv, Placed, Sole, In
<1>3. Ground /\ Kept(disk) /\ Consistent(disk)
  BY LedgersConsistent
<1>4. /\ UNCHANGED world /\ waived' = waived
      /\ JournalAs(run, can, next, None, None)
  BY DEF AbandonRefused, Journal, Ended
<1>5. ASSUME can
      PROVE  /\ Consistent(next)
             /\ Effect(next, disk, {}, {}, {}, {}, {run.id})
  <2>1. PendingIn(disk, a, HashlessPhase) /\ IsPending(disk, a)
    BY <1>5 DEF CanAbandonCreate, PendingIn, HashlessPhase
  <2> QED BY <1>1, <1>2, <1>3, <2>1, DropPendingEffect, DropPendingConsistent
<1> HIDE DEF can, next
<1>6. can => KeptIn(next, remote, inflight, plaintext, waived)
  BY <1>2, <1>3, <1>5, MutationKept DEF Kept, Ground, Exists
<1>7. Ground'
  BY <1>3, <1>4, <1>6, JournalGround DEF Ground
<1>8. run' = None
  BY <1>4, JournalRun
<1> QED BY <1>7, <1>8, EndedPlaced DEF Inv

LEMMA DoubtCreatePreserves ==
  ASSUME Inv, DoubtCreate
  PROVE  Inv'
<1>1. run # None /\ "create_ambiguous" \in Transition
  BY DEF DoubtCreate, At, Transition
<1>2. Ground' /\ run' = None
  BY <1>1, AdvanceJournaled DEF DoubtCreate, Ended
<1> QED BY <1>2, EndedPlaced DEF Inv

LEMMA RecordHashPreserves ==
  ASSUME Inv, RecordHash
  PROVE  Inv'
<1>1. /\ run.pc = "record" /\ run # None /\ run \in RunState
      /\ run.addr \in Address
  BY RunIsTyped DEF RecordHash, At, RunState
<1>2. /\ run.hash \in Hash /\ plaintext[run.hash] = "unseen"
      /\ remote[run.hash].life # "none"
      /\ disk[run.addr].pending.id = run.id
      /\ \A t \in inflight : t.id # run.id
      /\ \A h \in Hash : Exists(h) /\ remote[h].maker # None
                           /\ remote[h].maker.id = run.id => h = run.hash
  BY <1>1 DEF Inv, Placed, Sole, Told, In, Undelivering
<1>3. /\ UNCHANGED <<world, waived>> /\ plaintext' = plaintext
      /\ JournalAdvance("created", Goto("settings"), Goto("doubt_create"))
  BY DEF RecordHash, LeaveUnrecorded, world
<1>4. "settings" \in PhaseOfRun /\ "doubt_create" \in PhaseOfRun
  BY DEF PhaseOfRun
<1>5. /\ Goto("settings") \in RunState /\ Goto("settings").pc = "settings"
      /\ Goto("settings").addr = run.addr /\ Goto("settings").hash = run.hash
      /\ Goto("doubt_create") \in RunState
      /\ Goto("doubt_create").pc = "doubt_create"
  BY <1>1, <1>4, GotoTyped DEF Goto
<1>6. /\ "created" \in Transition /\ "created" # "delivered"
  BY DEF Transition
<1>7. /\ Ground'
      /\ \/ /\ IsPending(disk', run.addr)
            /\ disk'[run.addr].pending.hash = run.hash
            /\ run' = Goto("settings")
         \/ run' = None
         \/ run' \in RunState /\ Alike(run', Goto("doubt_create"))
  BY <1>1, <1>2, <1>3, <1>5, <1>6, AdvanceJournaled
<1>8. CASE /\ IsPending(disk', run.addr)
           /\ disk'[run.addr].pending.hash = run.hash
           /\ run' = Goto("settings")
  <2>1. Tracked' /\ Follows'
    BY <1>1, <1>2, <1>5, <1>8, PendingTracked
  <2>2. Told'
    BY <1>2, <1>3, <1>5, <1>8 DEF Told, In
  <2> QED BY <1>5, <1>7, <1>8, <2>1, <2>2, FollowingPlaced DEF Inv, Following
<1>9. CASE run' = None
  BY <1>7, <1>9, EndedPlaced DEF Inv
<1>10. CASE run' \in RunState /\ Alike(run', Goto("doubt_create"))
  BY <1>5, <1>7, <1>10, UnboundPlaced DEF Inv, Alike
<1> QED BY <1>7, <1>8, <1>9, <1>10

(* A PATCH or an assignment about the key.                                 *)
LEMMA SecuringPreserves ==
  ASSUME Inv, In({"settings", "assign"}), NEW what \in Restriction,
         NEW pc \in {"assign", "verify"},
         Request(Restricted(what), Goto(pc), Undeliverable),
         UNCHANGED <<ledger, inflight, plaintext, waived>>
  PROVE  Inv'
<1>1. /\ run.pc \in {"settings", "assign"} /\ run # None
      /\ In(Following) /\ In(Undelivering)
  BY DEF In, Following, Undelivering
<1>2. /\ run \in RunState /\ run.addr \in Address /\ run.hash \in Hash
      /\ IsPending(disk, run.addr)
      /\ disk[run.addr].pending.hash = run.hash
      /\ remote[run.hash].life # "none"
  BY <1>1, OnTheLine
<1>3. plaintext[run.hash] = "unseen"
  BY <1>1 DEF Inv, Placed, Told
<1>4. Ground
  BY DEF Inv
<1>5. \/ remote' = remote
      \/ /\ Exists(run.hash)
         /\ remote' = [remote EXCEPT ![run.hash].secured = @ \cup {what}]
  BY DEF Request, Restricted
<1>6. Ground'
  <2>1. CASE remote' = remote
    BY <1>4, <2>1, WorldGround
    DEF Ground, Guarded, ExposedIsRestricted, Request
  <2>2. CASE remote' = [remote EXCEPT ![run.hash].secured = @ \cup {what}]
    <3>1. /\ remote' \in [Hash -> RemoteKey]
          /\ \A h \in Hash : /\ remote'[h].life = remote[h].life
                             /\ remote'[h].maker = remote[h].maker
                             /\ h # run.hash => remote'[h] = remote[h]
      BY <1>2, <1>4, <2>2 DEF Ground, RemoteKey
    <3>2. Plain \/ Mishap
      BY DEF Request
    <3> QED BY <1>2, <1>3, <1>4, <3>1, <3>2, WorldGround
        DEF Ground, Guarded, ExposedIsRestricted
  <2> QED BY <1>5, <2>1, <2>2
<1>7. pc \in PhaseOfRun /\ "end" \in PhaseOfRun
  BY DEF PhaseOfRun
<1>8. /\ Goto(pc) \in RunState /\ Goto(pc).pc = pc
      /\ Goto(pc).addr = run.addr /\ Goto(pc).hash = run.hash
      /\ Undeliverable \in RunState
  BY <1>2, <1>7, GotoTyped, DisableTyped DEF Goto, Undeliverable
<1>9. CASE run' = Goto(pc)
  <2>1. Tracked' /\ Follows'
    BY <1>2, <1>8, <1>9, PendingTracked DEF ledger
  <2>2. Told'
    BY <1>2, <1>3, <1>8, <1>9 DEF Told, In
  <2> QED BY <1>6, <1>8, <1>9, <2>1, <2>2, FollowingPlaced DEF Inv, Following
<1>10. CASE run' = Undeliverable
  <2>1. Alike(run', Undeliverable) /\ run' \in RunState
    BY <1>8, <1>10 DEF Alike
  <2>2. Consistent(disk') /\ disk' = disk
    BY LedgersConsistent DEF ledger
  <2>3. Placed'
    BY <1>1, <1>2, <1>3, <2>1, <2>2, UndeliverablePlaced
  <2> QED BY <1>6, <2>1, <2>3 DEF Inv
<1> QED BY <1>9, <1>10 DEF Request

LEMMA VerifyPreserves ==
  ASSUME Inv, VerifySecured
  PROVE  Inv'
<1>1. run.pc = "verify" /\ run # None /\ In(Following) /\ In(Undelivering)
  BY DEF VerifySecured, At, In, Following, Undelivering
<1>2. /\ run \in RunState /\ run.addr \in Address /\ run.hash \in Hash
      /\ IsPending(disk, run.addr)
      /\ disk[run.addr].pending.hash = run.hash
  BY <1>1, OnTheLine
<1>3. plaintext[run.hash] = "unseen"
  BY <1>1 DEF Inv, Placed, Told
<1>4. /\ UNCHANGED <<ledger, waived>> /\ remote' = remote
      /\ inflight' = inflight /\ plaintext' = plaintext
      /\ Plain \/ Mishap
  BY DEF VerifySecured, world
<1>5. Ground'
  BY <1>4, WorldGround DEF Inv, Ground, Guarded, ExposedIsRestricted
<1>6. "secured" \in PhaseOfRun /\ "end" \in PhaseOfRun
  BY DEF PhaseOfRun
<1>7. /\ Goto("secured") \in RunState /\ Goto("secured").pc = "secured"
      /\ Goto("secured").addr = run.addr /\ Goto("secured").hash = run.hash
      /\ Undeliverable \in RunState
  BY <1>2, <1>6, GotoTyped, DisableTyped DEF Goto, Undeliverable
<1>8. CASE ReadsSecured /\ run' = Goto("secured")
  <2>1. Tracked' /\ Follows'
    BY <1>2, <1>4, <1>7, <1>8, PendingTracked DEF ledger
  <2>2. Told'
    BY <1>2, <1>3, <1>4, <1>7, <1>8 DEF Told, In, ReadsSecured
  <2> QED BY <1>5, <1>7, <1>8, <2>1, <2>2, FollowingPlaced DEF Inv, Following
<1>9. CASE run' = Undeliverable
  <2>1. Alike(run', Undeliverable) /\ run' \in RunState
    BY <1>7, <1>9 DEF Alike
  <2>2. Consistent(disk') /\ disk' = disk
    BY <1>4, LedgersConsistent DEF ledger
  <2>3. Placed'
    BY <1>1, <1>2, <1>3, <1>4, <2>1, <2>2, UndeliverablePlaced
  <2> QED BY <1>5, <2>1, <2>3 DEF Inv
<1> QED BY <1>8, <1>9 DEF VerifySecured

(* A transition on the line whose failure makes the key undeliverable.     *)
LEMMA ProceedPreserves ==
  ASSUME Inv, In({"secured", "start_delivery"}),
         NEW t \in {"secured", "delivery_started"},
         NEW pc \in {"start_delivery", "deliver"},
         JournalAdvance(t, Goto(pc), Undeliverable),
         UNCHANGED <<world, waived>>
  PROVE  Inv'
<1>1. /\ run # None /\ In(Following) /\ In(Undelivering)
      /\ In({"secured", "start_delivery", "deliver"})
  BY DEF In, Following, Undelivering
<1>2. /\ run \in RunState /\ run.addr \in Address /\ run.hash \in Hash
      /\ IsPending(disk, run.addr)
      /\ disk[run.addr].pending.hash = run.hash
  BY <1>1, OnTheLine
<1>3. plaintext[run.hash] = "unseen" /\ remote[run.hash].secured = Restriction
  BY <1>1 DEF Inv, Placed, Told
<1>4. plaintext' = plaintext /\ remote' = remote
  BY DEF world
<1>5. pc \in PhaseOfRun /\ "end" \in PhaseOfRun
  BY DEF PhaseOfRun
<1>6. /\ Goto(pc) \in RunState /\ Goto(pc).pc = pc
      /\ Goto(pc).addr = run.addr /\ Goto(pc).hash = run.hash
      /\ Undeliverable \in RunState
  BY <1>2, <1>5, GotoTyped, DisableTyped DEF Goto, Undeliverable
<1>7. t \in Transition /\ t # "created" /\ t # "delivered"
  BY DEF Transition
<1>8. /\ Ground'
      /\ \/ /\ IsPending(disk', run.addr)
            /\ disk'[run.addr].pending.hash = run.hash
            /\ run' = Goto(pc)
         \/ run' = None
         \/ /\ IsPending(disk', run.addr)
            /\ disk'[run.addr].pending.hash = run.hash
            /\ run' \in RunState /\ Alike(run', Undeliverable)
  BY <1>1, <1>2, <1>6, <1>7, AdvanceJournaled
<1>9. CASE /\ IsPending(disk', run.addr)
           /\ disk'[run.addr].pending.hash = run.hash
           /\ run' = Goto(pc)
  <2>1. Tracked' /\ Follows'
    BY <1>2, <1>6, <1>9, PendingTracked
  <2>2. Told'
    BY <1>2, <1>3, <1>4, <1>6, <1>9 DEF Told, In
  <2> QED BY <1>6, <1>8, <1>9, <2>1, <2>2, FollowingPlaced DEF Inv, Following
<1>10. CASE run' = None
  BY <1>8, <1>10, EndedPlaced DEF Inv
<1>11. CASE /\ IsPending(disk', run.addr)
            /\ disk'[run.addr].pending.hash = run.hash
            /\ run' \in RunState /\ Alike(run', Undeliverable)
  <2>1. Consistent(disk')
    BY <1>8 DEF Ground, Kept, KeptIn
  <2>2. Placed'
    BY <1>1, <1>2, <1>3, <1>4, <1>11, <2>1, UndeliverablePlaced
  <2> QED BY <1>8, <1>11, <2>2 DEF Inv
<1> QED BY <1>8, <1>9, <1>10, <1>11

LEMMA RejectionPreserves ==
  ASSUME Inv, RecordRejection
  PROVE  Inv'
<1>1. run.pc = "reject" /\ run # None /\ In(Following) /\ In({"reject"})
  BY DEF RecordRejection, At, In, Following
<1>2. /\ run \in RunState /\ run.addr \in Address /\ run.hash \in Hash
      /\ IsPending(disk, run.addr)
      /\ disk[run.addr].pending.hash = run.hash
  BY <1>1, OnTheLine
<1>3. plaintext[run.hash] = "handed"
  BY <1>1 DEF Inv, Placed, Told
<1>4. /\ plaintext' = plaintext /\ UNCHANGED <<world, waived>>
      /\ JournalAdvance("delivery_rejected", Undeliverable, Undeliverable)
  BY DEF RecordRejection, world
<1>5. "end" \in PhaseOfRun
  BY DEF PhaseOfRun
<1>6. Undeliverable \in RunState /\ Alike(Undeliverable, Undeliverable)
  BY <1>2, <1>5, DisableTyped DEF Undeliverable, Alike
<1>7. /\ "delivery_rejected" \in Transition
      /\ "delivery_rejected" \notin {"created", "delivered"}
  BY DEF Transition
<1>8. /\ Ground'
      /\ \/ run' = None
         \/ /\ IsPending(disk', run.addr)
            /\ disk'[run.addr].pending.hash = run.hash
            /\ run' \in RunState /\ Alike(run', Undeliverable)
  BY <1>1, <1>2, <1>4, <1>6, <1>7, AdvanceJournaled
<1>9. CASE run' = None
  BY <1>8, <1>9, EndedPlaced DEF Inv
<1>10. CASE /\ IsPending(disk', run.addr)
            /\ disk'[run.addr].pending.hash = run.hash
            /\ run' \in RunState /\ Alike(run', Undeliverable)
  <2>1. Consistent(disk')
    BY <1>8 DEF Ground, Kept, KeptIn
  <2>2. Placed'
    BY <1>1, <1>2, <1>3, <1>4, <1>10, <2>1, UndeliverablePlaced
  <2> QED BY <1>8, <1>10, <2>2 DEF Inv
<1> QED BY <1>8, <1>9, <1>10

LEMMA DeliverPreserves ==
  ASSUME Inv, Deliver
  PROVE  Inv'
<1>1. /\ run.pc = "deliver" /\ run # None /\ In(Following) /\ In(Undelivering)
      /\ In({"secured", "start_delivery", "deliver"})
  BY DEF Deliver, At, In, Following, Undelivering
<1>2. /\ run \in RunState /\ run.addr \in Address /\ run.hash \in Hash
      /\ IsPending(disk, run.addr)
      /\ disk[run.addr].pending.hash = run.hash
      /\ remote[run.hash].life # "none"
  BY <1>1, OnTheLine
<1>3. plaintext[run.hash] = "unseen" /\ remote[run.hash].secured = Restriction
  BY <1>1 DEF Inv, Placed, Told
<1>4. /\ UNCHANGED <<ledger, waived>> /\ remote' = remote
      /\ inflight' = inflight
  BY DEF Deliver
<1>5. Ground
  BY DEF Inv
<1>6. PICK pc \in {"acknowledge", "reject", "doubt_delivery"},
           outcome \in {"handed", "delivered"} :
        /\ plaintext' = [plaintext EXCEPT ![run.hash] = outcome]
        /\ run' = Goto(pc)
        /\ pc = "acknowledge" => outcome = "delivered"
        /\ pc = "reject" => outcome = "handed"
        /\ Plain \/ Mishap
  BY DEF Deliver, Handed, AcknowledgementLost
<1>7. /\ plaintext' \in [Hash -> {"unseen", "handed", "delivered"}]
      /\ plaintext'[run.hash] = outcome
      /\ \A h \in Hash \ {run.hash} : plaintext'[h] = plaintext[h]
  BY <1>2, <1>5, <1>6 DEF Ground
<1>8. Ground'
  BY <1>2, <1>3, <1>4, <1>5, <1>6, <1>7, WorldGround
  DEF Ground, Guarded, ExposedIsRestricted
<1>9. pc \in PhaseOfRun
  BY DEF PhaseOfRun
<1>10. /\ Goto(pc) \in RunState /\ Goto(pc).pc = pc
       /\ Goto(pc).addr = run.addr /\ Goto(pc).hash = run.hash
  BY <1>2, <1>9, GotoTyped DEF Goto
<1>11. Tracked' /\ Follows'
  BY <1>2, <1>4, <1>6, <1>10, PendingTracked DEF ledger
<1>12. Told'
  BY <1>6, <1>7, <1>10 DEF Told, In, Undelivering
<1> QED BY <1>6, <1>8, <1>10, <1>11, <1>12, FollowingPlaced DEF Inv, Following

LEMMA AcknowledgePreserves ==
  ASSUME Inv, Acknowledge
  PROVE  Inv'
<1>1. /\ run.pc = "acknowledge" /\ run # None /\ In(Following)
      /\ In({"acknowledge", "promote"})
  BY DEF Acknowledge, At, In, Following
<1>2. /\ run \in RunState /\ run.addr \in Address /\ run.hash \in Hash
      /\ IsPending(disk, run.addr)
      /\ disk[run.addr].pending.hash = run.hash
  BY <1>1, OnTheLine
<1>3. plaintext[run.hash] = "delivered"
  BY <1>1 DEF Inv, Placed, Told
<1>4. /\ plaintext' = plaintext /\ UNCHANGED <<world, waived>>
      /\ JournalAdvance("delivered", Goto("promote"), None)
  BY DEF Acknowledge, world, Ended
<1>5. "promote" \in PhaseOfRun
  BY DEF PhaseOfRun
<1>6. /\ Goto("promote") \in RunState /\ Goto("promote").pc = "promote"
      /\ Goto("promote").addr = run.addr /\ Goto("promote").hash = run.hash
  BY <1>2, <1>5, GotoTyped DEF Goto
<1>7. /\ "delivered" \in Transition /\ "delivered" # "created"
      /\ Step["delivered"][2] = "delivered"
  BY DEF Transition, Step
<1>8. /\ Ground'
      /\ \/ /\ IsPending(disk', run.addr)
            /\ disk'[run.addr].pending.hash = run.hash
            /\ disk'[run.addr].pending.phase = "delivered"
            /\ synced' = disk' /\ run' = Goto("promote")
         \/ run' = None
  BY <1>1, <1>2, <1>3, <1>4, <1>6, <1>7, AdvanceJournaled
<1>9. CASE /\ IsPending(disk', run.addr)
           /\ disk'[run.addr].pending.hash = run.hash
           /\ disk'[run.addr].pending.phase = "delivered"
           /\ synced' = disk' /\ run' = Goto("promote")
  <2>1. Tracked' /\ Follows'
    BY <1>2, <1>6, <1>9, PendingTracked
  <2>2. IsDelivered(disk', run.addr, run.hash)
    BY <1>9 DEF IsDelivered, PendingIn
  <2>3. Told'
    BY <1>3, <1>4, <1>6, <1>9, <2>2 DEF Told, In, Undelivering, Ledgers
  <2> QED BY <1>6, <1>8, <1>9, <2>1, <2>3, FollowingPlaced DEF Inv, Following
<1>10. CASE run' = None
  BY <1>8, <1>10, EndedPlaced DEF Inv
<1> QED BY <1>8, <1>9, <1>10

LEMMA DoubtDeliveryPreserves ==
  ASSUME Inv, DoubtDelivery
  PROVE  Inv'
<1>1. /\ run # None /\ "delivery_ambiguous" \in Transition
      /\ "delivery_ambiguous" \notin {"created", "delivered"}
  BY DEF DoubtDelivery, At, Transition
<1>2. Ground' /\ run' = None
  BY <1>1, AdvanceJournaled DEF DoubtDelivery, LeaveDoubtful, Ended
<1> QED BY <1>2, EndedPlaced DEF Inv

(* Promoting a delivered operation changes what the ledger says of no key  *)
(* but that it serves now.                                                 *)
LEMMA PromotionGround ==
  ASSUME Inv, NEW a \in Address, UNCHANGED <<world, waived>>,
         NEW me, NEW done, NEW otherwise,
         JournalAs(me, CanPromoteKey(disk, a), PromoteKey(disk, a),
                   done, otherwise)
  PROVE  /\ Ground'
         /\ CanPromoteKey(disk, a) =>
              IsCurrent(PromoteKey(disk, a), a, disk[a].pending.hash)
<1> DEFINE can == CanPromoteKey(disk, a)
           next == PromoteKey(disk, a)
<1>1. Ground /\ Kept(disk) /\ Consistent(disk)
  BY LedgersConsistent
<1>2. ASSUME can
      PROVE  /\ Consistent(next)
             /\ Effect(next, disk, {}, {}, {}, {}, {})
             /\ IsCurrent(next, a, disk[a].pending.hash)
  BY <1>1, <1>2, PromoteEffect, PromoteConsistent
<1> HIDE DEF can, next
<1>3. can => KeptIn(next, remote, inflight, plaintext, waived)
  BY <1>1, <1>2, MutationKept DEF Kept, Ground
<1>4. Ground'
  BY <1>1, <1>3, JournalGround DEF Ground, can, next
<1> QED BY <1>2, <1>4 DEF can, next

LEMMA PromoteIssuedPreserves ==
  ASSUME Inv, PromoteIssued
  PROVE  Inv'
<1>1. /\ run.pc = "promote" /\ run # None /\ In(Following)
      /\ In({"acknowledge", "promote"}) /\ In({"promote"})
  BY DEF PromoteIssued, At, In, Following
<1>2. /\ run \in RunState /\ run.addr \in Address /\ run.hash \in Hash
      /\ disk[run.addr].pending.hash = run.hash
  BY <1>1, OnTheLine
<1>3. /\ plaintext[run.hash] = "delivered"
      /\ IsDelivered(disk, run.addr, run.hash)
      /\ IsDelivered(synced, run.addr, run.hash)
  BY <1>1 DEF Inv, Placed, Told, Ledgers
<1>4. PICK done \in AfterIssue(TRUE), otherwise \in AfterIssue(FALSE) :
        JournalAs(run, CanPromoteKey(disk, run.addr),
                  PromoteKey(disk, run.addr), done, otherwise)
  BY DEF PromoteIssued, Journal
<1>5. UNCHANGED <<world, waived>> /\ plaintext' = plaintext
  BY DEF PromoteIssued, world
<1> DEFINE can == CanPromoteKey(disk, run.addr)
           next == PromoteKey(disk, run.addr)
<1>6. Ground' /\ (can => IsCurrent(next, run.addr, run.hash))
  BY <1>2, <1>4, <1>5, PromotionGround
<1>7. ASSUME NEW landed \in BOOLEAN, NEW r \in AfterIssue(landed)
      PROVE  /\ r \in RunState
             /\ \/ r.pc = "begin"
                \/ /\ r.pc = "report" /\ r.addr = run.addr /\ r.hash = run.hash
                   /\ r.verdict = IF landed THEN "promoted" ELSE "unpromoted"
  <2>1. CASE run.todo = {}
    <3>1. r = Reporting(run, IF landed THEN "promoted" ELSE "unpromoted")
      BY <1>7, <2>1 DEF AfterIssue, Promotion
    <3>2. {"promoted", "unpromoted"} \subseteq Said
      BY DEF Said
    <3> QED BY <1>2, <3>1, <3>2, ReportingTyped
  <2>2. CASE run.todo # {}
    <3>1. PICK a \in run.todo :
            r = [run EXCEPT !.pc = "begin", !.addr = a, !.todo = @ \ {a},
                            !.hash = None, !.id = None]
      BY <1>7, <2>2 DEF AfterIssue
    <3>2. run.todo \subseteq Address
      BY <1>2 DEF RunState
    <3>3. "begin" \in PhaseOfRun
      BY DEF PhaseOfRun
    <3> QED BY <1>2, <3>1, <3>2, <3>3 DEF RunState
  <2> QED BY <2>1, <2>2
<1> HIDE DEF can, next
<1>8. done \in RunState /\ otherwise \in RunState
  BY <1>7
<1>9. \/ can /\ disk' = next /\ synced' = next /\ run' = done
      \/ run' = None
      \/ /\ (can /\ disk' = next) \/ disk' = disk
         /\ synced' = synced
         /\ run' \in RunState /\ Alike(run', otherwise)
  BY <1>4, <1>8, JournalRun DEF can, next
<1>10. ASSUME run'.pc = "report", run'.addr = run.addr, run'.hash = run.hash,
              \/ /\ run'.verdict = "promoted"
                 /\ can /\ disk' = next /\ synced' = next
              \/ /\ run'.verdict = "unpromoted"
                 /\ (can /\ disk' = next) \/ disk' = disk
                 /\ synced' = synced
       PROVE  Placed'
  <2>1. Proved'
    BY <1>10 DEF Proved, In, Concluding, Decommissioning, Said
  <2>2. CASE run'.verdict = "promoted"
    <3>1. PromotedHolds(run.addr, run.hash)'
      BY <1>3, <1>5, <1>6, <1>10, <2>2 DEF PromotedHolds, Ledgers
    <3>2. ReportedIsSo'
      BY <1>10, <2>2, <3>1 DEF ReportedIsSo, Holds, PromotedHolds
    <3> QED BY <1>10, <2>1, <3>2, ReportPlaced
  <2>3. CASE run'.verdict = "unpromoted"
    <3>1. UnpromotedHolds(run.addr, run.hash)'
      BY <1>3, <1>5, <1>6, <1>10, <2>3 DEF UnpromotedHolds, Ledgers
    <3>2. ReportedIsSo'
      BY <1>10, <2>3, <3>1 DEF ReportedIsSo, Holds, UnpromotedHolds
    <3> QED BY <1>10, <2>1, <3>2, ReportPlaced
  <2> QED BY <1>10, <2>2, <2>3
<1>11. Placed'
  BY <1>7, <1>9, <1>10, EndedPlaced, UnboundPlaced DEF Alike
<1> QED BY <1>6, <1>8, <1>9, <1>11 DEF Inv

-----------------------------------------------------------------------------
(* Starting an issuance, and settling one that did not finish.             *)

LEMMA FastForwardPreserves ==
  ASSUME Inv, NEW a \in Address, FastForward(a)
  PROVE  Inv'
<1> DEFINE me == RunAt("apply", "plan", a, None, {})
<1>1. "apply" \in Command /\ "plan" \in PhaseOfRun
  BY DEF Command, PhaseOfRun
<1>2. me \in RunState /\ me.pc = "plan"
  BY <1>1, NewRunTyped
<1>3. /\ JournalAs(me, CanPromoteKey(disk, a), PromoteKey(disk, a), me, None)
      /\ UNCHANGED <<world, waived>>
  BY DEF FastForward, Ended
<1> HIDE DEF me
<1>4. Ground'
  BY <1>3, PromotionGround
<1>5. run' \in {me, None}
  BY <1>3, JournalRun
<1> QED BY <1>2, <1>4, <1>5, UnboundPlaced, EndedPlaced DEF Inv

LEMMA PlanPreserves ==
  ASSUME Inv, Plan
  PROVE  Inv'
<1>1. PICK todo \in SUBSET Address, a \in Address :
        Begin(RunAt("apply", "begin", a, None, todo \ {a}))
  BY DEF Plan
<1>2. "apply" \in Command /\ "begin" \in PhaseOfRun
  BY DEF Command, PhaseOfRun
<1>3. /\ RunAt("apply", "begin", a, None, todo \ {a}) \in RunState
      /\ RunAt("apply", "begin", a, None, todo \ {a}).addr = a
  BY <1>2, NewRunTyped
<1> QED BY <1>1, <1>3, BeginPreserves

LEMMA RotatePreserves ==
  ASSUME Inv, NEW a \in Address, Rotate(a)
  PROVE  Inv'
<1>1. "rotate" \in Command /\ "begin" \in PhaseOfRun
  BY DEF Command, PhaseOfRun
<1>2. /\ RunAt("rotate", "begin", a, None, {}) \in RunState
      /\ RunAt("rotate", "begin", a, None, {}).addr = a
  BY <1>1, NewRunTyped
<1> QED BY <1>2, BeginPreserves DEF Rotate

LEMMA BeginNextPreserves ==
  ASSUME Inv, BeginNext
  PROVE  Inv'
<1>1. run \in RunState /\ run.addr \in Address
  BY RunIsTyped DEF BeginNext, At, RunState
<1> QED BY <1>1, BeginPreserves DEF BeginNext

LEMMA ResolveAbsencePreserves ==
  ASSUME Inv, NEW a \in Address, ResolveAbsence(a)
  PROVE  Inv'
<1> DEFINE me == RunAt("resolve", "report", a, None, {})
           done == Reporting(me, "cleared")
           id == disk[a].pending.id
           can == CanClearAmbiguous(disk, a)
           next == DropPending(disk, a)
<1>1. /\ "resolve" \in Command /\ "report" \in PhaseOfRun
      /\ "cleared" \in Said
  BY DEF Command, PhaseOfRun, Said
<1>2. me \in RunState /\ me.addr = a
  BY <1>1, NewRunTyped
<1>3. /\ done \in RunState /\ done.pc = "report" /\ done.addr = a
      /\ done.verdict = "cleared"
  <2> HIDE DEF me
  <2> QED BY <1>1, <1>2, ReportingTyped
<1>4. Ground /\ Kept(disk) /\ Consistent(disk)
  BY LedgersConsistent
<1>5. IsPending(disk, a) /\ id \in OpId
  BY <1>4, BoundWellFormed DEF ResolveAbsence, IsPending, PendingOperation
<1>6. ASSUME can
      PROVE  /\ Consistent(next)
             /\ Effect(next, disk, {}, {}, {}, {}, {id})
             /\ ~IsPending(next, a)
  <2>1. PendingIn(disk, a, HashlessPhase)
    BY <1>6 DEF CanClearAmbiguous
  <2> QED BY <1>4, <1>5, <2>1, DropPendingEffect, DropPendingConsistent
<1>7. /\ JournalAs(me, can, next, done, None)
      /\ waived' = IF disk' = disk THEN waived ELSE waived \cup {id}
      /\ UNCHANGED world
  BY DEF ResolveAbsence, Answered, Ended
<1> HIDE DEF me, done, can, next
<1>8. waived \subseteq waived' /\ waived' \subseteq OpId
  BY <1>4, <1>5, <1>7 DEF Ground
<1>9. can /\ disk' = next =>
        KeptIn(next, remote, inflight, plaintext, waived')
  <2>1. SUFFICES ASSUME can, disk' = next
                 PROVE  KeptIn(next, remote, inflight, plaintext, waived')
    OBVIOUS
  <2>2. id \in waived'
    BY <1>5, <1>6, <1>7, <2>1
  <2> QED BY <1>4, <1>6, <1>8, <2>1, <2>2, MutationKept DEF Kept, Ground
<1>10. Ground'
  BY <1>4, <1>7, <1>8, <1>9, JournalGround DEF Ground
<1>11. \/ can /\ disk' = next /\ synced' = next /\ run' = done
       \/ run' = None
  BY <1>7, JournalRun
<1>12. CASE can /\ disk' = next /\ synced' = next /\ run' = done
  <2>1. ReportedIsSo'
    BY <1>3, <1>6, <1>12 DEF ReportedIsSo, Holds, ClearedHolds, Ledgers
  <2>2. Proved'
    BY <1>1, <1>3, <1>12 DEF Proved, In, Concluding, Decommissioning
  <2> QED BY <1>3, <1>10, <1>12, <2>1, <2>2, ReportPlaced DEF Inv
<1>13. CASE run' = None
  BY <1>10, <1>13, EndedPlaced DEF Inv
<1> QED BY <1>11, <1>12, <1>13

(* A key an operation was closed with is disabled, never one in use.       *)
LEMMA CleanUpPlaced ==
  ASSUME NEW a \in Address, NEW h \in Hash, Consistent(disk'),
         NEW r \in disk'[a].retained, Bound(disk', a),
         r.hash = h, r.status = "failed_candidate",
         run'.pc = "disable", run'.then = "cleaned", run'.addr = a,
         run'.hash = h, run'.cmd \in {"resolve", "replace"}
  PROVE  Placed'
<1>1. Tracked'
  BY DEF Tracked, Owns, Names
<1>2. \A c \in Address : ~IsCurrent(disk', c, h)
  BY RetainedIsNotCurrent
<1>3. Spared'
  BY <1>2 DEF Spared, In, Heading, Decommissioning, Disabling, Concluding,
              IsCurrent, Bound
<1>4. Unrecorded'
  BY DEF Unrecorded, RecordedAs, In, Heading, Decommissioning
<1> QED BY <1>1, <1>3, <1>4, DisablingPlaced DEF Disabling

LEMMA ResolveLeakedPreserves ==
  ASSUME Inv, NEW a \in Address, NEW h \in Hash, ResolveLeaked(a, h)
  PROVE  Inv'
<1> DEFINE me == RunAt("resolve", "leak", a, h, {})
           done == GotoDisable(me, "cleaned")
           id == disk[a].pending.id
           can == CanRetainLeaked(disk, a, h)
           next == RetainPending(disk, a, h)
<1>1. /\ "resolve" \in Command /\ "disable" \in PhaseOfRun
      /\ "cleaned" \in PhaseOfRun
  BY DEF Command, PhaseOfRun
<1>2. /\ done \in RunState /\ done.pc = "disable" /\ done.then = "cleaned"
      /\ done.addr = a /\ done.hash = h /\ done.cmd = "resolve"
  BY <1>1 DEF RunState, GotoDisable, RunAt
<1>3. Ground /\ Kept(disk) /\ Consistent(disk)
  BY LedgersConsistent
<1>4. /\ PendingIn(disk, a, HashlessPhase) /\ IsPending(disk, a)
      /\ remote[h].life # "none"
  BY DEF ResolveLeaked, InPhase, PendingIn, Exists, Live
<1>5. id \in OpId /\ disk[a].pending.hash = None
  BY <1>3, <1>4, BoundWellFormed
  DEF PendingIn, IsPending, PendingOperation, CheckBinding, PendingShape,
      HashlessPhase, HashedPhase
<1>6. ASSUME can
      PROVE  /\ Consistent(next)
             /\ Effect(next, disk, {h}, {}, {}, {}, {id})
             /\ Bound(next, a)
             /\ \E r \in next[a].retained :
                  r.hash = h /\ r.status = "failed_candidate"
             /\ next # disk
  <2>1. ~Owned(disk, h)
    BY <1>6 DEF CanRetainLeaked
  <2>2. Consistent(next)
    BY <1>3, <1>4, <2>1, RetainConsistent
  <2>3. /\ Effect(next, disk, {h}, {}, {}, {}, {id})
        /\ Bound(next, a)
        /\ \E r \in next[a].retained :
             r.hash = h /\ r.status = "failed_candidate"
    BY <1>3, <1>4, <1>5, RetainEffect
  <2>4. Owned(next, h)
    BY <2>3 DEF Owned, Owns, Names
  <2> QED BY <2>1, <2>2, <2>3, <2>4
<1>7. /\ JournalAs(me, can, next, done, None)
      /\ waived' = IF disk' = disk THEN waived ELSE waived \cup {id}
      /\ UNCHANGED world
  BY DEF ResolveLeaked, Answered, Ended
<1> HIDE DEF me, done, can, next
<1>8. waived \subseteq waived' /\ waived' \subseteq OpId
  BY <1>3, <1>5, <1>7 DEF Ground
<1>9. can /\ disk' = next =>
        KeptIn(next, remote, inflight, plaintext, waived')
  <2>1. SUFFICES ASSUME can, disk' = next
                 PROVE  KeptIn(next, remote, inflight, plaintext, waived')
    OBVIOUS
  <2>2. id \in waived'
    BY <1>6, <1>7, <2>1
  <2> QED BY <1>3, <1>4, <1>6, <1>8, <2>1, <2>2, MutationKept DEF Kept, Ground
<1>10. Ground'
  BY <1>3, <1>7, <1>8, <1>9, JournalGround DEF Ground
<1>11. \/ can /\ disk' = next /\ run' = done
       \/ run' = None
  BY <1>7, JournalRun
<1>12. CASE can /\ disk' = next /\ run' = done
  BY <1>2, <1>6, <1>10, <1>12, CleanUpPlaced DEF Inv
<1>13. CASE run' = None
  BY <1>10, <1>13, EndedPlaced DEF Inv
<1> QED BY <1>11, <1>12, <1>13

LEMMA RetireDeadPreserves ==
  ASSUME Inv, NEW a \in Address, RetireDead(a)
  PROVE  Inv'
<1> DEFINE h == disk[a].pending.hash
           me == RunAt("replace", "retire_candidate", a, h, {})
           done == GotoDisable(me, "cleaned")
           can == CanRetireCandidate(disk, a)
           next == RetainPending(disk, a, h)
<1>1. Ground /\ Kept(disk) /\ Consistent(disk)
  BY LedgersConsistent
<1>2. /\ PendingIn(disk, a, HashedPhase) /\ IsPending(disk, a)
  BY DEF RetireDead, InPhase, PendingIn, Replaceable
<1>3. h \in Hash /\ h # None
  BY <1>1, <1>2, PendingHash, NoneAssumption
<1>4. remote[h].life # "none"
  BY <1>1, <1>2, <1>3, PendingOwned DEF Kept, KeptIn, Owned
<1>5. /\ "replace" \in Command /\ "disable" \in PhaseOfRun
      /\ "cleaned" \in PhaseOfRun
  BY DEF Command, PhaseOfRun
<1> HIDE DEF h
<1>6. /\ done \in RunState /\ done.pc = "disable" /\ done.then = "cleaned"
      /\ done.addr = a /\ done.hash = h /\ done.cmd = "replace"
  BY <1>3, <1>5 DEF RunState, GotoDisable, RunAt
<1>7. /\ Consistent(next)
      /\ Effect(next, disk, {h}, {}, {}, {}, {})
      /\ Bound(next, a)
      /\ \E r \in next[a].retained :
           r.hash = h /\ r.status = "failed_candidate"
  <2>1. disk[a].pending.hash = h
    BY DEF h
  <2>2. Consistent(next)
    BY <1>1, <1>2, <1>3, <2>1, RetainConsistent
  <2> QED BY <1>1, <1>2, <1>3, <2>1, <2>2, RetainEffect
<1>8. /\ JournalAs(me, can, next, done, None)
      /\ UNCHANGED world /\ waived' = waived
  BY DEF RetireDead, RetireCandidate, Ended, h
<1> HIDE DEF me, done, can, next
<1>9. KeptIn(next, remote, inflight, plaintext, waived)
  BY <1>1, <1>4, <1>7, MutationKept DEF Kept, Ground
<1>10. Ground'
  BY <1>1, <1>8, <1>9, JournalGround DEF Ground
<1>11. \/ disk' = next /\ run' = done
       \/ run' = None
  BY <1>8, JournalRun
<1>12. CASE disk' = next /\ run' = done
  BY <1>3, <1>6, <1>7, <1>10, <1>12, CleanUpPlaced DEF Inv
<1>13. CASE run' = None
  BY <1>10, <1>13, EndedPlaced DEF Inv
<1> QED BY <1>11, <1>12, <1>13

-----------------------------------------------------------------------------
(* What a command records of its key, and says of it.                      *)

LEMMA RetainedEntry ==
  ASSUME HasEntry
  PROVE  /\ CanDropRetained(disk, run.addr, Entry)
         /\ Entry.hash = run.hash
BY DEF HasEntry, Entry, CanDropRetained

LEMMA StatusJournaled ==
  ASSUME Inv, run \in RunState, run.hash \in Hash,
         NEW status \in RetainedStatus, NEW done,
         JournalStatus(status, done, None), UNCHANGED <<world, waived>>,
         status = "retired" => remote[run.hash].life # "enabled"
  PROVE  /\ Ground'
         /\ \/ run' = None
            \/ /\ run' = done
               /\ \E r \in disk'[run.addr].retained :
                    r.hash = run.hash /\ r.status = status
<1> DEFINE a == run.addr
           next == SetRetainedStatus(disk, a, Entry, status)
<1>1. a \in Address
  BY DEF RunState
<1>2. Ground /\ Kept(disk) /\ Consistent(disk)
  BY LedgersConsistent
<1>3. JournalAs(run, HasEntry, next, done, None)
  BY DEF JournalStatus, Journal
<1> DEFINE retired == IF status = "retired" THEN {run.hash} ELSE {}
<1>4. ASSUME HasEntry
      PROVE  /\ Consistent(next)
             /\ Effect(next, disk, {}, {}, retired, {}, {})
             /\ \E r \in next[a].retained :
                  r.hash = run.hash /\ r.status = status
  <2>1. CanDropRetained(disk, a, Entry) /\ Entry.hash = run.hash
    BY <1>4, RetainedEntry
  <2> DEFINE e == Entry
  <2> HIDE DEF e
  <2>2. Consistent(SetRetainedStatus(disk, a, e, status))
    BY <1>1, <1>2, <2>1, StatusConsistent DEF e
  <2>3. /\ Effect(SetRetainedStatus(disk, a, e, status), disk, {}, {},
                  IF status = "retired" THEN {e.hash} ELSE {}, {}, {})
        /\ \E r \in SetRetainedStatus(disk, a, e, status)[a].retained :
             r.hash = e.hash /\ r.status = status
    <3>1. Effect(SetRetainedStatus(disk, a, e, status), disk, {}, {},
                 IF status = "retired" THEN {e.hash} ELSE {}, {}, {})
      BY <1>1, <1>2, <2>1, StatusEffect DEF e
    <3>2. \E r \in SetRetainedStatus(disk, a, e, status)[a].retained :
            r.hash = e.hash /\ r.status = status
      BY <1>1, <1>2, <2>1, StatusShape DEF e
    <3> QED BY <3>1, <3>2
  <2> QED BY <2>1, <2>2, <2>3 DEF e
<1>5. \A h \in Hash : h \in retired => remote[h].life # "enabled"
  OBVIOUS
<1> HIDE DEF next, retired
<1>6. HasEntry => KeptIn(next, remote, inflight, plaintext, waived)
  BY <1>2, <1>4, <1>5, MutationKept DEF Kept, Ground
<1>7. Ground'
  BY <1>2, <1>3, <1>6, JournalGround DEF Ground
<1>8. \/ HasEntry /\ disk' = next /\ run' = done
      \/ run' = None
  BY <1>3, JournalRun
<1> QED BY <1>4, <1>7, <1>8

LEMMA StatusReported ==
  ASSUME NEW status \in {"retired", "retirement_failed", "failed_candidate"},
         run.hash \in Hash,
         run'.pc = "report", run'.verdict = status, run'.hash = run.hash,
         run'.addr = run.addr,
         \E r \in disk'[run.addr].retained :
           r.hash = run.hash /\ r.status = status,
         status = "retired" =>
           remote'[run.hash].life \notin {"none", "enabled"}
  PROVE  Placed'
<1>1. RecordedAs(status, run.addr, run.hash)'
  BY DEF RecordedAs
<1>2. ReportedIsSo'
  BY <1>1 DEF ReportedIsSo, Holds, RetiredHolds, StillTrackedHolds, RecordedAs
<1>3. Proved'
  BY DEF Proved, In, Concluding, Decommissioning, Said
<1> QED BY <1>2, <1>3, ReportPlaced

(* Where a disable came to an end. *)
LEMMA AtConclusion ==
  ASSUME Inv, In(Concluding)
  PROVE  /\ run \in RunState /\ run.addr \in Address /\ run.hash \in Hash
         /\ Owns(disk, run.addr, run.hash)
         /\ remote[run.hash].life # "none"
         /\ Proven => remote[run.hash].life # "enabled"
<1>1. run \in RunState /\ run.addr \in Address
  BY RunIsTyped DEF In, RunState
<1>2. run.hash \in Hash /\ Owns(disk, run.addr, run.hash)
  BY DEF Inv, Placed, Tracked, In, Tracking
<1>3. remote[run.hash].life # "none"
  BY <1>1, <1>2, LedgersConsistent DEF Kept, KeptIn, Owned
<1> QED BY <1>1, <1>2, <1>3 DEF Inv, Placed, Proved, Proven

LEMMA CleanUpPreserves ==
  ASSUME Inv, RecordCleanUp
  PROVE  Inv'
<1>1. /\ run.pc = "cleaned" /\ run # None /\ In(Concluding)
      /\ Heading({"cleaned"})
  BY DEF RecordCleanUp, At, In, Concluding, Heading
<1>2. /\ run \in RunState /\ run.addr \in Address /\ run.hash \in Hash
      /\ Proven => remote[run.hash].life \notin {"none", "enabled"}
  BY <1>1, AtConclusion
<1>3. RecordedAs("failed_candidate", run.addr, run.hash)
  BY <1>1 DEF Inv, Placed, Unrecorded
<1>4. UNCHANGED <<world, waived>> /\ remote' = remote
  BY DEF RecordCleanUp, world
<1>5. ASSUME NEW status \in {"retired", "failed_candidate"}
      PROVE  /\ AfterCleanUp(status) \in RunState
             /\ \/ AfterCleanUp(status).pc = "begin"
                \/ /\ AfterCleanUp(status).pc = "report"
                   /\ AfterCleanUp(status).verdict = status
                   /\ AfterCleanUp(status).hash = run.hash
                   /\ AfterCleanUp(status).addr = run.addr
  <2>1. "replace" \in Command /\ "begin" \in PhaseOfRun /\ status \in Said
    BY DEF Command, PhaseOfRun, Said
  <2>2. CASE run.cmd = "replace"
    <3>1. \A a \in Address :
            /\ RunAt("replace", "begin", a, None, {}) \in RunState
            /\ RunAt("replace", "begin", a, None, {}).pc = "begin"
      BY <2>1, NewRunTyped
    <3> QED BY <1>2, <2>2, <3>1 DEF AfterCleanUp
  <2>3. CASE run.cmd # "replace"
    BY <1>2, <2>1, <2>3, ReportingTyped DEF AfterCleanUp
  <2> QED BY <2>2, <2>3
<1>6. CASE Proven /\ JournalStatus("retired", AfterCleanUp("retired"), Ended)
  <2>1. "retired" \in RetainedStatus
    BY DEF RetainedStatus
  <2>2. /\ Ground'
        /\ \/ run' = None
           \/ /\ run' = AfterCleanUp("retired")
              /\ \E r \in disk'[run.addr].retained :
                   r.hash = run.hash /\ r.status = "retired"
    BY <1>2, <1>4, <1>6, <2>1, StatusJournaled DEF Ended
  <2> QED BY <1>2, <1>4, <1>5, <1>6, <2>2, EndedPlaced, UnboundPlaced,
             StatusReported DEF Inv
<1>7. CASE /\ ~Proven /\ run' = AfterCleanUp("failed_candidate")
           /\ UNCHANGED <<ledger, faults>>
  <2>1. Ground'
    BY <1>4, <1>7, WorldGround
    DEF Inv, Ground, Guarded, ExposedIsRestricted, world, Plain
  <2>2. \E r \in disk'[run.addr].retained :
          r.hash = run.hash /\ r.status = "failed_candidate"
    BY <1>3, <1>7 DEF RecordedAs, ledger
  <2> QED BY <1>2, <1>5, <1>7, <2>1, <2>2, UnboundPlaced, StatusReported DEF Inv
<1> QED BY <1>6, <1>7 DEF RecordCleanUp

LEMMA StatusOncePreserves ==
  ASSUME Inv, run \in RunState, run.hash \in Hash,
         NEW status \in {"retired", "retirement_failed"},
         RecordStatusOnce(status), UNCHANGED <<world, waived>>,
         status = "retired" =>
           remote[run.hash].life \notin {"none", "enabled"}
  PROVE  Inv'
<1>1. status \in RetainedStatus /\ status \in Said
  BY DEF RetainedStatus, Said
<1>2. /\ Reporting(run, status) \in RunState
      /\ Reporting(run, status).pc = "report"
      /\ Reporting(run, status).addr = run.addr
      /\ Reporting(run, status).hash = run.hash
      /\ Reporting(run, status).verdict = status
  BY <1>1, ReportingTyped
<1>3. remote' = remote
  BY DEF world
<1>4. CASE /\ HasEntry /\ Entry.status = status
           /\ run' = Reporting(run, status) /\ UNCHANGED <<ledger, faults>>
  <2>1. Ground'
    BY <1>4, WorldGround
    DEF Inv, Ground, Guarded, ExposedIsRestricted, world, Plain
  <2>2. \E r \in disk'[run.addr].retained :
          r.hash = run.hash /\ r.status = status
    BY <1>4, RetainedEntry DEF CanDropRetained, ledger
  <2> QED BY <1>2, <1>3, <1>4, <2>1, <2>2, StatusReported DEF Inv
<1>5. CASE JournalStatus(status, Reporting(run, status), Ended)
  <2>1. /\ Ground'
        /\ \/ run' = None
           \/ /\ run' = Reporting(run, status)
              /\ \E r \in disk'[run.addr].retained :
                   r.hash = run.hash /\ r.status = status
    BY <1>1, <1>5, StatusJournaled DEF Ended
  <2> QED BY <1>2, <1>3, <2>1, EndedPlaced, StatusReported DEF Inv
<1> QED BY <1>4, <1>5 DEF RecordStatusOnce

LEMMA RetiredPreserves ==
  ASSUME Inv, RecordRetired
  PROVE  Inv'
<1>1. In(Concluding)
  BY DEF RecordRetired, At, In, Concluding
<1>2. /\ run \in RunState /\ run.hash \in Hash
      /\ Proven => remote[run.hash].life \notin {"none", "enabled"}
  BY <1>1, AtConclusion
<1> QED BY <1>2, StatusOncePreserves DEF RecordRetired

(* The key of a deletion. *)
LEMMA AtDeletion ==
  ASSUME Inv, In(Deleting)
  PROVE  /\ run \in RunState /\ run.addr \in Address /\ run.hash \in Hash
         /\ Owns(disk, run.addr, run.hash)
         /\ remote[run.hash].life # "none"
<1>1. run \in RunState /\ run.addr \in Address
  BY RunIsTyped DEF In, RunState
<1>2. run.hash \in Hash /\ Owns(disk, run.addr, run.hash)
  BY DEF Inv, Placed, Tracked, In, Tracking
<1>3. remote[run.hash].life # "none"
  BY <1>1, <1>2, LedgersConsistent DEF Kept, KeptIn, Owned
<1> QED BY <1>1, <1>2, <1>3

LEMMA KeepPreserves ==
  ASSUME Inv, KeepUndeleted
  PROVE  Inv'
<1>1. In(Deleting)
  BY DEF KeepUndeleted, At, In, Deleting
<1>2. run \in RunState /\ run.hash \in Hash
  BY <1>1, AtDeletion
<1> QED BY <1>2, StatusOncePreserves DEF KeepUndeleted

LEMMA DropPreserves ==
  ASSUME Inv, DropDeleted
  PROVE  Inv'
<1> DEFINE a == run.addr
           e == Entry
           done == Reporting(run, "untracked")
           next == DropRetained(disk, a, e)
<1>1. In(Deleting) /\ In({"drop"})
  BY DEF DropDeleted, At, In, Deleting
<1>2. /\ run \in RunState /\ a \in Address /\ run.hash \in Hash
      /\ remote[run.hash].life # "none"
  BY <1>1, AtDeletion
<1>3. ~Exists(run.hash)
  BY <1>1 DEF Inv, Placed, Proved
<1>4. "untracked" \in Said
  BY DEF Said
<1>5. /\ done \in RunState /\ done.pc = "report" /\ done.hash = run.hash
      /\ done.verdict = "untracked"
  BY <1>2, <1>4, ReportingTyped
<1>6. Ground /\ Kept(disk) /\ Consistent(disk)
  BY LedgersConsistent
<1>7. /\ JournalAs(run, HasEntry, next, done, None)
      /\ UNCHANGED world /\ waived' = waived /\ remote' = remote
  BY DEF DropDeleted, Journal, Ended, world
<1>8. ASSUME HasEntry
      PROVE  /\ Consistent(next)
             /\ Effect(next, disk, {}, {}, {}, {run.hash}, {})
             /\ ~Owned(next, run.hash)
  <2>1. CanDropRetained(disk, a, e) /\ e.hash = run.hash
    BY <1>8, RetainedEntry
  <2> HIDE DEF e
  <2>2. Consistent(next)
    BY <1>2, <1>6, <2>1, DropConsistent
  <2>3. Effect(next, disk, {}, {}, {}, {e.hash}, {}) /\ ~Owned(next, e.hash)
    BY <1>2, <1>6, <2>1, DropRetainedEffect
  <2> QED BY <2>1, <2>2, <2>3
<1> HIDE DEF done, next
<1>9. HasEntry => KeptIn(next, remote, inflight, plaintext, waived)
  BY <1>3, <1>6, <1>8, MutationKept DEF Kept, Ground, Exists
<1>10. Ground'
  BY <1>6, <1>7, <1>9, JournalGround DEF Ground
<1>11. \/ HasEntry /\ disk' = next /\ synced' = next /\ run' = done
       \/ run' = None
  BY <1>7, JournalRun
<1>12. CASE HasEntry /\ disk' = next /\ synced' = next /\ run' = done
  <2>1. ReportedIsSo'
    BY <1>3, <1>5, <1>7, <1>8, <1>12
    DEF ReportedIsSo, Holds, UntrackedHolds, Ledgers, Exists
  <2>2. Proved'
    BY <1>2, <1>4, <1>5, <1>7, <1>12 DEF Proved, In, Concluding, Decommissioning
  <2> QED BY <1>5, <1>10, <1>12, <2>1, <2>2, ReportPlaced DEF Inv
<1>13. CASE run' = None
  BY <1>10, <1>13, EndedPlaced DEF Inv
<1> QED BY <1>11, <1>12, <1>13

(* A deletion goes on about a key that is still tracked. *)
LEMMA DeletionPlaced ==
  ASSUME run'.pc \in Deleting, run'.hash \in Hash,
         Owns(disk', run'.addr, run'.hash),
         run'.pc = "delete" => run'.cmd = "decommission",
         run'.pc = "drop" => remote'[run'.hash].life \notin Live
  PROVE  Placed'
<1>1. Tracked'
  BY DEF Tracked
<1>2. Spared'
  BY DEF Spared, In, Heading, Deleting, Disabling, Decommissioning
<1>3. Proved'
  BY DEF Proved, In, Exists, Deleting, Concluding, Decommissioning
<1> QED BY <1>1, <1>2, <1>3, DeletingPlaced

LEMMA DecommissionPreserves ==
  ASSUME Inv, RecordDecommission
  PROVE  Inv'
<1> DEFINE a == run.addr
           can == CanDecommission(disk, a, run.hash)
           next == Decommission(disk, a, "retired")
           done == AfterDecommission
<1>1. /\ run # None /\ run.pc \in Decommissioning /\ In(Concluding)
      /\ Heading(Decommissioning)
  BY DEF RecordDecommission, In, Heading, Concluding, Decommissioning
<1>2. /\ run \in RunState /\ a \in Address /\ run.hash \in Hash
      /\ Proven => remote[run.hash].life \notin {"none", "enabled"}
  BY <1>1, AtConclusion
<1>3. /\ IsCurrent(disk, a, run.hash) /\ run.cmd = "decommission"
      /\ run.verdict = "absent" => ~Exists(run.hash)
  BY <1>1 DEF Inv, Placed, Unrecorded, Spared, Proved
<1>4. UNCHANGED <<world, waived>> /\ remote' = remote
  BY DEF RecordDecommission, world
<1>5. Ground /\ Kept(disk) /\ Consistent(disk)
  BY LedgersConsistent
<1>6. CASE Proven /\ Journal(can, next, done, Ended)
  <2>1. JournalAs(run, can, next, done, None)
    BY <1>6 DEF Journal, Ended
  <2>2. ASSUME can
        PROVE  /\ Consistent(next)
               /\ Effect(next, disk, {}, {}, {run.hash}, {}, {})
               /\ RetiredAt(next, a, run.hash)
    <3>1. "retired" \in RetainedStatus
      BY DEF RetainedStatus
    <3> QED BY <1>2, <1>5, <2>2, <3>1, DecommissionEffect, DecommissionConsistent
  <2> HIDE DEF can, next
  <2>3. can => KeptIn(next, remote, inflight, plaintext, waived)
    BY <1>2, <1>5, <1>6, <2>2, MutationKept DEF Kept, Ground
  <2>4. Ground'
    BY <1>4, <1>5, <2>1, <2>3, JournalGround DEF Ground
  <2>5. \/ can /\ disk' = next /\ run' = done
        \/ run' = None
    BY <2>1, JournalRun
  <2>6. CASE can /\ disk' = next /\ run' = done
    <3>1. /\ \E r \in disk'[a].retained :
               r.hash = run.hash /\ r.status = "retired"
          /\ Owns(disk', a, run.hash)
      BY <2>2, <2>6 DEF RetiredAt, Owns, Names
    <3>2. CASE run.pc = "decommissioned"
      <4>1. "retired" \in Said
        BY DEF Said
      <4>2. /\ run' \in RunState /\ run'.pc = "report" /\ run'.addr = a
            /\ run'.hash = run.hash /\ run'.verdict = "retired"
        BY <1>2, <2>6, <3>2, <4>1, ReportingTyped DEF AfterDecommission
      <4> QED BY <1>2, <1>4, <1>6, <2>4, <3>1, <4>2, StatusReported
          DEF Inv
    <3>3. CASE run.pc # "decommissioned"
      <4>1. "drop" \in PhaseOfRun /\ "delete" \in PhaseOfRun
        BY DEF PhaseOfRun
      <4>2. PICK pc \in {"drop", "delete"} :
              /\ run' = Goto(pc)
              /\ pc = "drop" => run.verdict = "absent"
        BY <2>6, <3>3 DEF AfterDecommission
      <4>3. /\ run' \in RunState /\ run'.pc = pc /\ run'.addr = a
            /\ run'.hash = run.hash /\ run'.cmd = run.cmd
        BY <1>2, <4>1, <4>2, GotoTyped DEF Goto
      <4> QED BY <1>2, <1>3, <1>4, <2>4, <3>1, <4>2, <4>3, DeletionPlaced
          DEF Inv, Deleting, Exists
    <3> QED BY <3>2, <3>3
  <2>7. CASE run' = None
    BY <2>4, <2>7, EndedPlaced DEF Inv
  <2> QED BY <2>5, <2>6, <2>7
<1>7. CASE ~Proven /\ run' = Reporting(run, "current")
           /\ UNCHANGED <<ledger, faults>>
  <2>1. Ground'
    BY <1>4, <1>7, WorldGround
    DEF Inv, Ground, Guarded, ExposedIsRestricted, world, Plain
  <2>2. "current" \in Said
    BY DEF Said
  <2>3. /\ run' \in RunState /\ run'.pc = "report" /\ run'.addr = a
        /\ run'.hash = run.hash /\ run'.verdict = "current"
    BY <1>2, <1>7, <2>2, ReportingTyped
  <2>4. IsCurrent(disk', a, run.hash)
    BY <1>3, <1>7 DEF ledger
  <2>5. ReportedIsSo'
    BY <2>3, <2>4
    DEF ReportedIsSo, Holds, CurrentHolds, IsCurrent, Bound
  <2>6. Proved'
    BY <2>2, <2>3 DEF Proved, In, Concluding, Decommissioning
  <2> QED BY <2>1, <2>3, <2>5, <2>6, ReportPlaced DEF Inv
<1> QED BY <1>6, <1>7 DEF RecordDecommission

LEMMA ForgetPreserves ==
  ASSUME Inv, NEW a \in Address, Forget(a)
  PROVE  Inv'
<1> DEFINE me == RunAt("forget", "report", a, None, {})
           done == Reporting(me, "released")
           held == {h \in Hash : Names(disk[a], h)}
           ids == {remote[h].maker.id :
                     h \in {k \in Hash : /\ Names(disk[a], k)
                                         /\ remote[k].maker # None}}
           can == CanForgetKey(disk, a)
           next == ForgetKey(disk, a)
<1>1. /\ "forget" \in Command /\ "report" \in PhaseOfRun
      /\ "released" \in Said
  BY DEF Command, PhaseOfRun, Said
<1>2. me \in RunState /\ me.addr = a
  BY <1>1, NewRunTyped
<1>3. /\ done \in RunState /\ done.pc = "report" /\ done.addr = a
      /\ done.verdict = "released"
  <2> HIDE DEF me
  <2> QED BY <1>1, <1>2, ReportingTyped
<1>4. Ground /\ Kept(disk) /\ Consistent(disk)
  BY LedgersConsistent
<1>5. ids \subseteq OpId
  BY <1>4 DEF Ground, RemoteKey, Attempt
<1>6. Bound(disk, a)
  BY DEF Forget
<1>7. ASSUME can
      PROVE  /\ Consistent(next)
             /\ Effect(next, disk, {}, {}, {}, held, {})
             /\ ~Bound(next, a)
  BY <1>4, <1>7, ForgetEffect, ForgetConsistent
<1>8. \A h \in Hash : h \in held /\ remote[h].maker # None
                        => remote[h].maker.id \in ids
  OBVIOUS
<1>9. /\ JournalAs(me, can, next, done, None)
      /\ waived' = IF disk' = disk THEN waived ELSE waived \cup ids
      /\ UNCHANGED world
  BY DEF Forget, Answered, Ended
<1> HIDE DEF me, done, held, ids, can, next
<1>10. waived \subseteq waived' /\ waived' \subseteq OpId
  BY <1>4, <1>5, <1>9 DEF Ground
<1>11. can /\ disk' = next =>
         KeptIn(next, remote, inflight, plaintext, waived')
  <2>1. SUFFICES ASSUME can, disk' = next
                 PROVE  KeptIn(next, remote, inflight, plaintext, waived')
    OBVIOUS
  <2>2. waived' = waived \cup ids
    BY <1>6, <1>7, <1>9, <2>1
  <2> QED BY <1>4, <1>7, <1>8, <1>10, <2>1, <2>2, MutationKept DEF Kept, Ground
<1>12. Ground'
  BY <1>4, <1>9, <1>10, <1>11, JournalGround DEF Ground
<1>13. \/ can /\ disk' = next /\ synced' = next /\ run' = done
       \/ run' = None
  BY <1>9, JournalRun
<1>14. CASE can /\ disk' = next /\ synced' = next /\ run' = done
  <2>1. ReportedIsSo'
    BY <1>3, <1>7, <1>14 DEF ReportedIsSo, Holds, ReleasedHolds, Ledgers
  <2>2. Proved'
    BY <1>1, <1>3, <1>14 DEF Proved, In, Concluding, Decommissioning
  <2> QED BY <1>3, <1>12, <1>14, <2>1, <2>2, ReportPlaced DEF Inv
<1>15. CASE run' = None
  BY <1>12, <1>15, EndedPlaced DEF Inv
<1> QED BY <1>13, <1>14, <1>15

LEMMA ImportPreserves ==
  ASSUME Inv, NEW a \in Address, NEW h \in Hash, Import(a, h)
  PROVE  Inv'
<1> DEFINE g == Successor(a)
           me == RunAt("import", "report", a, h, {})
           done == Reporting(me, "bound")
           can == g # None /\ CanBindKey(disk, a, h, g)
           next == BindKey(disk, a, h, g)
<1>1. /\ "import" \in Command /\ "report" \in PhaseOfRun
      /\ "bound" \in Said
  BY DEF Command, PhaseOfRun, Said
<1>2. me \in RunState /\ me.addr = a /\ me.hash = h
  BY <1>1, NewRunTyped
<1>3. /\ done \in RunState /\ done.pc = "report" /\ done.addr = a
      /\ done.hash = h /\ done.verdict = "bound"
  <2> HIDE DEF me
  <2> QED BY <1>1, <1>2, ReportingTyped
<1>4. Ground /\ Kept(disk) /\ Consistent(disk)
  BY LedgersConsistent
<1>5. ~Owned(disk, h) /\ remote[h].life # "none"
  BY DEF Import, Exists, Live
<1>6. ASSUME can
      PROVE  /\ Consistent(next)
             /\ Effect(next, disk, {h}, {}, {}, {}, {})
             /\ IsCurrent(next, a, h)
  <2>1. g \in Generation /\ CanBindKey(disk, a, h, g)
    BY <1>4, <1>6, SuccessorUnspent
  <2> HIDE DEF g
  <2> QED BY <1>4, <1>5, <2>1, BindEffect, BindConsistent
<1>7. /\ JournalAs(me, can, next, done, None)
      /\ UNCHANGED world /\ waived' = waived
  BY DEF Import, Ended
<1> HIDE DEF me, done, can, next
<1>8. can => KeptIn(next, remote, inflight, plaintext, waived)
  BY <1>4, <1>5, <1>6, MutationKept DEF Kept, Ground
<1>9. Ground'
  BY <1>4, <1>7, <1>8, JournalGround DEF Ground
<1>10. \/ can /\ disk' = next /\ synced' = next /\ run' = done
       \/ run' = None
  BY <1>7, JournalRun
<1>11. CASE can /\ disk' = next /\ synced' = next /\ run' = done
  <2>1. ReportedIsSo'
    BY <1>3, <1>6, <1>11
    DEF ReportedIsSo, Holds, BoundHolds, IsCurrent, Ledgers, Bound
  <2>2. Proved'
    BY <1>1, <1>3, <1>11 DEF Proved, In, Concluding, Decommissioning
  <2> QED BY <1>3, <1>9, <1>11, <2>1, <2>2, ReportPlaced DEF Inv
<1>12. CASE run' = None
  BY <1>9, <1>12, EndedPlaced DEF Inv
<1> QED BY <1>10, <1>11, <1>12

-----------------------------------------------------------------------------
(* Disabling and deleting.                                                 *)

(* A run that may disable its key: where that leads, and what it leaves.   *)
Disables(me) ==
  /\ me \in RunState /\ me.hash \in Hash /\ Owns(disk, me.addr, me.hash)
  /\ me.then \in {"end"} \cup Concluding
  /\ me.then \in Decommissioning =>
       me.cmd = "decommission" /\ IsCurrent(disk, me.addr, me.hash)
  /\ me.then = "cleaned" =>
       RecordedAs("failed_candidate", me.addr, me.hash)

LEMMA AtDisabling ==
  ASSUME Inv, In(Disabling)
  PROVE  Disables(run)
<1>1. run \in RunState
  BY RunIsTyped DEF In
<1>2. run.hash \in Hash /\ Owns(disk, run.addr, run.hash)
  BY DEF Inv, Placed, Tracked, In, Tracking
<1>3. /\ run.then \in {"end"} \cup Concluding
      /\ run.then \in Decommissioning => run.cmd = "decommission"
      /\ run.then \in Decommissioning => IsCurrent(disk, run.addr, run.hash)
      /\ run.then = "cleaned" =>
           RecordedAs("failed_candidate", run.addr, run.hash)
  BY DEF Inv, Placed, Spared, Unrecorded, Heading
<1> QED BY <1>1, <1>2, <1>3 DEF Disables

LEMMA ConcludedPlaced ==
  ASSUME NEW me, Disables(me), disk' = disk, NEW verdict \in Verdict,
         run' = Concluded(me, verdict),
         verdict \in Dead => remote'[me.hash].life # "enabled",
         verdict = "absent" => remote'[me.hash].life \notin Live
  PROVE  Placed' /\ run' \in RunState
<1>1. /\ run' \in RunState /\ run'.cmd = me.cmd /\ run'.pc = me.then
      /\ run'.addr = me.addr /\ run'.hash = me.hash /\ run'.verdict = verdict
      /\ run'.then = me.then
  BY ConcludedTyped DEF Disables
<1>2. CASE me.then = "end"
  BY <1>1, <1>2, UnboundPlaced
<1>3. CASE me.then \in Concluding
  <2>1. Tracked'
    BY <1>1 DEF Disables, Tracked
  <2>2. Spared'
    BY <1>1, <1>3
    DEF Disables, Spared, In, Heading, Concluding, Decommissioning, Disabling
  <2>3. Proved'
    BY <1>1, <1>3 DEF Proved, In, Exists, Concluding, Decommissioning
  <2>4. me.then \in Decommissioning => IsCurrent(disk', run'.addr, run'.hash)
    BY <1>1 DEF Disables
  <2>5. me.then = "cleaned" =>
          \E r \in disk'[run'.addr].retained :
            r.hash = run'.hash /\ r.status = "failed_candidate"
    BY <1>1 DEF Disables, RecordedAs
  <2>6. Unrecorded'
    BY <1>1, <1>3, <2>4, <2>5
    DEF Unrecorded, In, Heading, Concluding, Decommissioning, Disabling,
        RecordedAs, IsCurrent, Bound
  <2> QED BY <1>1, <1>3, <2>1, <2>2, <2>3, <2>6, ConcludingPlaced
<1> QED BY <1>1, <1>2, <1>3 DEF Disables

LEMMA ConfirmingPlaced ==
  ASSUME NEW me, Disables(me), disk' = disk, run' = ReadBack(me)
  PROVE  Placed' /\ run' \in RunState
<1>1. "confirm" \in PhaseOfRun
  BY DEF PhaseOfRun
<1>2. /\ run' \in RunState /\ run'.cmd = me.cmd /\ run'.pc = "confirm"
      /\ run'.addr = me.addr /\ run'.hash = me.hash /\ run'.then = me.then
  BY <1>1, GotoTyped DEF Disables, ReadBack
<1>3. Tracked'
  BY <1>2 DEF Disables, Tracked
<1>4. Spared'
  BY <1>2
  DEF Disables, Spared, In, Heading, Concluding, Decommissioning, Disabling
<1>5. me.then \in Decommissioning => IsCurrent(disk', run'.addr, run'.hash)
  BY <1>2 DEF Disables
<1>6. me.then = "cleaned" =>
        \E r \in disk'[run'.addr].retained :
          r.hash = run'.hash /\ r.status = "failed_candidate"
  BY <1>2 DEF Disables, RecordedAs
<1>7. Unrecorded'
  BY <1>2, <1>5, <1>6
  DEF Unrecorded, In, Heading, Decommissioning, RecordedAs, IsCurrent, Bound
<1> QED BY <1>2, <1>3, <1>4, <1>7, DisablingPlaced DEF Disabling

(* A key is switched off; nothing else of the world moves.                 *)
LEMMA SwitchedGround ==
  ASSUME Ground, UNCHANGED <<ledger, inflight, plaintext, waived>>,
         Plain \/ Mishap,
         NEW h \in Hash, NEW life \in {"disabled", "gone", "vanished"},
         remote' = remote \/ (Exists(h) /\ remote' = Switched(h, life))
  PROVE  /\ Ground'
         /\ \A g \in Hash : /\ remote'[g].maker = remote[g].maker
                            /\ remote'[g].secured = remote[g].secured
                            /\ g # h => remote'[g] = remote[g]
         /\ remote' # remote => remote'[h].life = life
<1>1. CASE remote' = remote
  <2>1. Ground'
    BY <1>1, WorldGround DEF Ground, Guarded, ExposedIsRestricted
  <2> QED BY <1>1, <2>1
<1>2. CASE Exists(h) /\ remote' = Switched(h, life)
  <2>1. /\ remote' \in [Hash -> RemoteKey]
        /\ \A g \in Hash : /\ remote'[g].maker = remote[g].maker
                           /\ remote'[g].secured = remote[g].secured
                           /\ g # h => remote'[g] = remote[g]
        /\ remote'[h].life = life
    BY <1>2 DEF Ground, Switched, RemoteKey, Live
  <2>2. \A g \in Hash :
          /\ remote[g].life # "none" =>
               /\ remote'[g].life # "none"
               /\ remote'[g].life = "enabled" => remote[g].life = "enabled"
          /\ remote'[g].life = "none" => remote[g].life = "none"
          /\ remote'[g].life \in Live => remote[g].life \in Live
    BY <1>2, <2>1 DEF Exists
  <2>3. Ground'
    BY <2>1, <2>2, WorldGround DEF Ground, Guarded, ExposedIsRestricted
  <2> QED BY <2>1, <2>3
<1> QED BY <1>1, <1>2

LEMMA DisablePreserves ==
  ASSUME Inv, NEW me, Disables(me), Disable(me)
  PROVE  Inv'
<1>1. me.hash \in Hash
  BY DEF Disables
<1>2. /\ UNCHANGED <<ledger, inflight, plaintext, waived>> /\ disk' = disk
      /\ Plain \/ Mishap
      /\ \/ remote' = remote
         \/ Exists(me.hash) /\ remote' = Switched(me.hash, "disabled")
  BY DEF Disable, Request, ledger, Plain
<1>3. Ground'
  BY <1>1, <1>2, SwitchedGround DEF Inv
<1>4. "unproven" \in Verdict \ Dead /\ "absent" \in Verdict
  BY DEF Verdict, Dead
<1>5. \/ run' = ReadBack(me) \/ run' = Concluded(me, "unproven")
      \/ run' = Concluded(me, "absent") /\ remote' = remote /\ ~Exists(me.hash)
  BY DEF Disable, Request
<1>6. Placed' /\ run' \in RunState
  BY <1>2, <1>4, <1>5, ConfirmingPlaced, ConcludedPlaced DEF Exists, Live
<1> QED BY <1>3, <1>6 DEF Inv

LEMMA DisableTrackedPreserves ==
  ASSUME Inv, DisableTracked
  PROVE  Inv'
<1>1. In(Disabling)
  BY DEF DisableTracked, At, In, Disabling
<1> QED BY <1>1, AtDisabling, DisablePreserves DEF DisableTracked

LEMMA ConfirmPreserves ==
  ASSUME Inv, ConfirmDisabled
  PROVE  Inv'
<1>1. In(Disabling)
  BY DEF ConfirmDisabled, At, In, Disabling
<1>2. Disables(run)
  BY <1>1, AtDisabling
<1>3. /\ UNCHANGED <<ledger, waived>> /\ disk' = disk /\ remote' = remote
      /\ inflight' = inflight /\ plaintext' = plaintext
      /\ Plain \/ Mishap
  BY DEF ConfirmDisabled, ledger, world
<1>4. Ground'
  BY <1>3, WorldGround DEF Inv, Ground, Guarded, ExposedIsRestricted
<1>5. PICK verdict \in Verdict :
        /\ run' = Concluded(run, verdict)
        /\ verdict = "absent" => ~Exists(run.hash)
        /\ verdict \in Dead => remote[run.hash].life # "enabled"
  BY DEF ConfirmDisabled, Verdict, Dead, Exists, Live
<1>6. Placed' /\ run' \in RunState
  BY <1>2, <1>3, <1>5, ConcludedPlaced DEF Exists
<1> QED BY <1>4, <1>6 DEF Inv

LEMMA StartRetirePreserves ==
  ASSUME Inv, NEW a \in Address, NEW h \in Hash, StartRetire(a, h)
  PROVE  Inv'
<1> DEFINE me == [RunAt("retire", "retired", a, h, {}) EXCEPT !.then = "retired"]
<1>1. "retire" \in Command /\ "retired" \in PhaseOfRun
  BY DEF Command, PhaseOfRun
<1>2. /\ me \in RunState /\ me.addr = a /\ me.hash = h /\ me.then = "retired"
  BY <1>1 DEF RunState, RunAt
<1>3. Owns(disk, a, h)
  BY DEF StartRetire, Retains, Owns, Names
<1>4. Disables(me)
  BY <1>2, <1>3 DEF Disables, Concluding, Decommissioning
<1>5. CASE remote[h].life = "enabled" /\ Disable(me)
  <2> HIDE DEF me
  <2> QED BY <1>4, <1>5, DisablePreserves
<1>6. CASE /\ remote[h].life = "disabled"
           /\ run' = Concluded(me, "disabled")
           /\ UNCHANGED <<ledger, world, waived, faults>>
  <2>1. Ground'
    BY <1>6, WorldGround
    DEF Inv, Ground, Guarded, ExposedIsRestricted, world, Plain
  <2>2. disk' = disk /\ remote' = remote /\ "disabled" \in Verdict
    BY <1>6 DEF ledger, world, Verdict, Dead
  <2>3. Placed' /\ run' \in RunState
    <3> HIDE DEF me
    <3> QED BY <1>2, <1>4, <1>6, <2>2, ConcludedPlaced
  <2> QED BY <2>1, <2>3 DEF Inv
<1> QED BY <1>5, <1>6 DEF StartRetire

LEMMA StartDecommissionPreserves ==
  ASSUME Inv, NEW a \in Address, StartDecommission(a)
  PROVE  Inv'
<1>1. PICK then \in Decommissioning :
        LET h == disk[a].current.hash
            me == [RunAt("decommission", then, a, h, {}) EXCEPT !.then = then]
        IN \/ remote[h].life = "enabled" /\ Disable(me)
           \/ /\ remote[h].life # "enabled"
              /\ run' = Concluded(me, IF Exists(h) THEN "disabled" ELSE "absent")
              /\ UNCHANGED <<ledger, world, waived, faults>>
  BY DEF StartDecommission, Decommissioning
<1> DEFINE h == disk[a].current.hash
           me == [RunAt("decommission", then, a, h, {}) EXCEPT !.then = then]
           verdict == IF Exists(h) THEN "disabled" ELSE "absent"
<1>2. /\ Bound(disk, a) /\ disk[a].current # None
      /\ disk[a].current \in CurrentKey
  BY LedgersConsistent, BoundWellFormed DEF StartDecommission
<1>3. h \in Hash /\ IsCurrent(disk, a, h) /\ Owns(disk, a, h)
  BY <1>2 DEF CurrentKey, IsCurrent, Owns, Names
<1> HIDE DEF h
<1>4. "decommission" \in Command /\ then \in PhaseOfRun
  BY DEF Command, PhaseOfRun, Decommissioning
<1>5. /\ me \in RunState /\ me.addr = a /\ me.hash = h /\ me.then = then
      /\ me.cmd = "decommission"
  BY <1>3, <1>4 DEF RunState, RunAt, PhaseOfRun
<1>6. Disables(me)
  BY <1>3, <1>5 DEF Disables, Concluding, Decommissioning
<1> HIDE DEF me
<1>7. CASE Disable(me)
  BY <1>6, <1>7, DisablePreserves
<1>8. CASE /\ remote[h].life # "enabled"
           /\ run' = Concluded(me, verdict)
           /\ UNCHANGED <<ledger, world, waived, faults>>
  <2>1. Ground'
    BY <1>8, WorldGround
    DEF Inv, Ground, Guarded, ExposedIsRestricted, world, Plain
  <2>2. /\ disk' = disk /\ remote' = remote /\ verdict \in Verdict
        /\ verdict = "absent" => ~Exists(h)
    BY <1>8 DEF ledger, world, Verdict, Dead
  <2>3. Placed' /\ run' \in RunState
    <3> HIDE DEF verdict
    <3> QED BY <1>5, <1>6, <1>8, <2>2, ConcludedPlaced DEF Exists
  <2> QED BY <2>1, <2>3 DEF Inv
<1> QED BY <1>1, <1>7, <1>8 DEF h, me

LEMMA DeletePreserves ==
  ASSUME Inv, NEW me \in RunState, me.hash \in Hash,
         Owns(disk, me.addr, me.hash), Delete(me)
  PROVE  Inv'
<1>1. /\ UNCHANGED <<ledger, inflight, plaintext, waived>> /\ disk' = disk
      /\ Plain \/ Mishap
      /\ \/ remote' = remote
         \/ Exists(me.hash) /\ remote' = Switched(me.hash, "gone")
  BY DEF Delete, Request, ledger, Plain
<1>2. Ground'
  BY <1>1, SwitchedGround DEF Inv
<1>3. PICK pc \in {"confirm_delete", "keep", "drop"} :
        /\ run' = [me EXCEPT !.pc = pc]
        /\ pc = "drop" => remote' = remote /\ ~Exists(me.hash)
  BY DEF Delete, Request, ReadDeleted
<1>4. pc \in PhaseOfRun
  BY DEF PhaseOfRun
<1>5. /\ run' \in RunState /\ run'.pc = pc /\ run'.addr = me.addr
      /\ run'.hash = me.hash
  BY <1>3, <1>4, GotoTyped
<1>6. Placed'
  BY <1>1, <1>3, <1>5, DeletionPlaced DEF Deleting, Exists
<1> QED BY <1>2, <1>5, <1>6 DEF Inv

LEMMA StartDeletePreserves ==
  ASSUME Inv, NEW a \in Address, NEW h \in Hash, StartDelete(a, h)
  PROVE  Inv'
<1> DEFINE me == RunAt("delete", "delete", a, h, {})
<1>1. "delete" \in Command /\ "delete" \in PhaseOfRun
  BY DEF Command, PhaseOfRun
<1>2. me \in RunState /\ me.addr = a /\ me.hash = h
  BY <1>1, NewRunTyped
<1>3. Owns(disk, a, h) /\ Delete(me)
  BY DEF StartDelete, Retains, Owns, Names
<1> HIDE DEF me
<1> QED BY <1>2, <1>3, DeletePreserves

LEMMA DeleteDecommissionedPreserves ==
  ASSUME Inv, DeleteDecommissioned
  PROVE  Inv'
<1>1. In(Deleting)
  BY DEF DeleteDecommissioned, At, In, Deleting
<1> QED BY <1>1, AtDeletion, DeletePreserves DEF DeleteDecommissioned

LEMMA ConfirmDeletedPreserves ==
  ASSUME Inv, ConfirmDeleted
  PROVE  Inv'
<1>1. In(Deleting)
  BY DEF ConfirmDeleted, At, In, Deleting
<1>2. /\ run \in RunState /\ run.addr \in Address /\ run.hash \in Hash
      /\ Owns(disk, run.addr, run.hash)
  BY <1>1, AtDeletion
<1>3. /\ UNCHANGED <<ledger, waived>> /\ disk' = disk /\ remote' = remote
      /\ inflight' = inflight /\ plaintext' = plaintext
      /\ Plain \/ Mishap
  BY DEF ConfirmDeleted, ledger, world
<1>4. Ground'
  BY <1>3, WorldGround DEF Inv, Ground, Guarded, ExposedIsRestricted
<1>5. PICK pc \in {"keep", "drop"} :
        run' = Goto(pc) /\ (pc = "drop" => ~Exists(run.hash))
  BY DEF ConfirmDeleted
<1>6. pc \in PhaseOfRun
  BY DEF PhaseOfRun
<1>7. /\ run' \in RunState /\ run'.pc = pc /\ run'.addr = run.addr
      /\ run'.hash = run.hash
  BY <1>2, <1>5, <1>6, GotoTyped DEF Goto
<1>8. Placed'
  BY <1>2, <1>3, <1>5, <1>7, DeletionPlaced DEF Deleting, Exists
<1> QED BY <1>4, <1>7, <1>8 DEF Inv

-----------------------------------------------------------------------------
(* What happens around a run.                                              *)

LEMMA PowerLossPreserves ==
  ASSUME Inv, PowerLoss
  PROVE  Inv'
<1>1. /\ remote' = remote /\ inflight' = inflight /\ plaintext' = plaintext
      /\ waived' = waived /\ faults' = faults /\ run' = None
      /\ disk' \in {disk, synced} /\ synced' \in {disk, synced}
  BY DEF PowerLoss, world
<1>2. Ground'
  BY <1>1 DEF Inv, Ground, Guarded, ExposedIsRestricted, Kept
<1> QED BY <1>1, <1>2, EndedPlaced DEF Inv

(* Nothing a run relies on is undone by a key made late, or deleted in the *)
(* console.                                                                *)
LEMMA RunStays ==
  ASSUME Inv, UNCHANGED <<ledger, run, plaintext>>, inflight' \subseteq inflight,
         \A h \in Hash :
           /\ remote[h].life # "none" =>
                /\ remote'[h].life # "none"
                /\ remote'[h].life = "enabled" => remote[h].life = "enabled"
                /\ remote'[h].life \in Live => Exists(h)
                /\ remote'[h].secured = remote[h].secured
                /\ remote'[h].maker = remote[h].maker
           /\ remote[h].life = "none" /\ remote'[h].life \in Live =>
                remote'[h].maker \in inflight
  PROVE  Placed'
<1>1. /\ disk' = disk /\ synced' = synced /\ run' = run
      /\ plaintext' = plaintext /\ Ledgers' = Ledgers
  BY DEF ledger, Ledgers
<1>2. Tracked' /\ Follows' /\ Spared' /\ Unrecorded'
  BY <1>1
  DEF Inv, Placed, Tracked, Follows, Spared, Unrecorded, In, Heading,
      RecordedAs, IsCurrent
<1>3. Told'
  <2>1. ASSUME In({"secured", "start_delivery", "deliver"})
        PROVE  remote'[run.hash].secured = Restriction
    <3>1. In(Following)
      BY <2>1 DEF In, Following
    <3>2. run.hash \in Hash /\ remote[run.hash].life # "none"
      BY <3>1, OnTheLine
    <3> QED BY <2>1, <3>2 DEF Inv, Placed, Told
  <2> QED BY <1>1, <2>1 DEF Inv, Placed, Told, In
<1>4. Sole'
  BY <1>1 DEF Inv, Placed, Sole, Told, In, Exists, Undelivering
<1>5. Proved'
  <2>1. ASSUME In(Concluding)
        PROVE  /\ run.verdict \in Dead => remote'[run.hash].life # "enabled"
               /\ run.verdict = "absent" => remote'[run.hash].life \notin Live
    BY <2>1, AtConclusion DEF Inv, Placed, Proved
  <2>2. ASSUME In({"drop"})
        PROVE  remote'[run.hash].life \notin Live
    <3>1. In(Deleting)
      BY <2>2 DEF In, Deleting
    <3> QED BY <2>2, <3>1, AtDeletion DEF Inv, Placed, Proved
  <2>3. In({"report"}) =>
          /\ run.verdict \in Said
          /\ run.verdict \in {"retired", "untracked"} =>
               run.hash \in Hash /\ remote'[run.hash].life # "none"
    BY DEF Inv, Placed, Proved
  <2> QED BY <1>1, <2>1, <2>2, <2>3 DEF Proved, In, Exists
<1>6. ReportedIsSo'
  <2>1. SUFFICES ASSUME At("report")
                 PROVE  Holds(run.verdict, run.addr, run.hash)'
    BY <1>1 DEF ReportedIsSo, At
  <2>2. /\ Holds(run.verdict, run.addr, run.hash)
        /\ run.verdict \in Said
        /\ run.verdict \in {"retired", "untracked"} =>
             run.hash \in Hash /\ remote[run.hash].life # "none"
    BY <2>1 DEF Inv, Placed, ReportedIsSo, Proved, In, At
  <2>3. CASE run.verdict = "retired"
    BY <1>1, <2>2, <2>3 DEF Holds, RetiredHolds, RecordedAs
  <2>4. CASE run.verdict = "untracked"
    BY <1>1, <2>2, <2>4 DEF Holds, UntrackedHolds, Exists, Owned
  <2>5. CASE run.verdict \in Said \ {"retired", "untracked"}
    BY <1>1, <2>2, <2>5
    DEF Holds, Said, PromotedHolds, UnpromotedHolds, StillTrackedHolds,
        RecordedAs, CurrentHolds, ClearedHolds, ReleasedHolds, BoundHolds
  <2> QED BY <2>2, <2>3, <2>4, <2>5
<1> QED BY <1>2, <1>3, <1>4, <1>5, <1>6 DEF Placed

LEMMA LateCreatePreserves ==
  ASSUME Inv, LateCreate
  PROVE  Inv'
<1>1. PICK attempt \in inflight, h \in Hash :
        MakeKey(h, attempt) /\ inflight' = inflight \ {attempt}
  BY DEF LateCreate
<1>2. /\ UNCHANGED <<ledger, run, plaintext, waived>> /\ plaintext' = plaintext
      /\ Plain /\ run' = run
  BY DEF LateCreate, Plain
<1>3. Ground
  BY DEF Inv
<1>4. attempt \in Attempt /\ inflight' \subseteq Attempt
  BY <1>1, <1>3 DEF Ground
<1>5. /\ remote[h].life = "none"
      /\ remote' = [remote EXCEPT ![h] = NewKey(attempt)]
  BY <1>1 DEF MakeKey
<1>6. NewKey(attempt) \in RemoteKey
  BY <1>4 DEF NewKey, RemoteKey, Live
<1>7. /\ remote' \in [Hash -> RemoteKey]
      /\ remote'[h].life = "enabled" /\ remote'[h].maker = attempt
      /\ \A g \in Hash \ {h} : remote'[g] = remote[g]
  BY <1>3, <1>5, <1>6 DEF Ground, NewKey
<1>8. attempt.id \in waived \/ \A k \in Ledgers : Stands(k, attempt.id)
  BY <1>3 DEF Ground, Kept, KeptIn, Ledgers
<1>9. plaintext[h] = "unseen"
  BY <1>3, <1>5 DEF Ground, Guarded
<1>10. \A g \in Hash :
         /\ remote[g].life # "none" =>
              /\ remote'[g].life # "none"
              /\ remote'[g].life = "enabled" => remote[g].life = "enabled"
         /\ remote'[g].life = "none" => plaintext'[g] = "unseen"
         /\ plaintext'[g] # "unseen" => remote'[g].secured = Restriction
         /\ plaintext[g] = "delivered" => plaintext'[g] = "delivered"
         /\ remote'[g].life \in Live /\ remote'[g].maker # None =>
              \/ remote[g].life \in Live /\ remote[g].maker = remote'[g].maker
              \/ remote'[g].maker.id \in waived
              \/ \A k \in Ledgers : Stands(k, remote'[g].maker.id)
  BY <1>2, <1>3, <1>5, <1>7, <1>8, <1>9
  DEF Ground, Guarded, ExposedIsRestricted
<1>11. Ground'
  BY <1>1, <1>2, <1>3, <1>4, <1>7, <1>10, WorldGround DEF Ground
<1>12. Placed'
  <2>1. \A g \in Hash :
          /\ remote[g].life # "none" => remote'[g] = remote[g]
          /\ remote[g].life = "none" /\ remote'[g].life \in Live =>
               remote'[g].maker \in inflight
    BY <1>5, <1>7 DEF Live
  <2>2. inflight' \subseteq inflight
    BY <1>1
  <2> QED BY <1>2, <2>1, <2>2, RunStays DEF Exists
<1> QED BY <1>2, <1>11, <1>12 DEF Inv

LEMMA ConsoleDeletePreserves ==
  ASSUME Inv, ConsoleDelete
  PROVE  Inv'
<1>1. PICK h \in Hash :
        Exists(h) /\ remote' = [remote EXCEPT ![h].life = "vanished"]
  BY DEF ConsoleDelete
<1>2. /\ UNCHANGED <<ledger, run, inflight, plaintext, waived>> /\ Mishap
      /\ run' = run /\ inflight' = inflight
  BY DEF ConsoleDelete
<1>3. /\ Ground'
      /\ \A g \in Hash : /\ remote'[g].maker = remote[g].maker
                         /\ remote'[g].secured = remote[g].secured
                         /\ g # h => remote'[g] = remote[g]
      /\ remote' # remote => remote'[h].life = "vanished"
  BY <1>1, <1>2, SwitchedGround DEF Inv, Switched
<1>4. Placed'
  BY <1>1, <1>2, <1>3, RunStays DEF Exists, Live
<1> QED BY <1>2, <1>3, <1>4 DEF Inv

-----------------------------------------------------------------------------
(* The invariant holds.                                                    *)

LEMMA InitInv ==
  ASSUME Init
  PROVE  Inv
<1>1. \A a \in Address : NoKeys[a] = None
  BY DEF NoKeys
<1>2. Consistent(NoKeys)
  BY <1>1, NoneAssumption
  DEF Consistent, NoKeys, Keys, CheckInvariants, OneOperation, DistinctHashes,
      IsPending, Bound, Owns
<1>3. \A h \in Hash : /\ ~Owned(NoKeys, h) /\ ~InUse(NoKeys, h)
                      /\ ~AwaitsPromotion(NoKeys, h)
  BY <1>1 DEF Owned, Owns, InUse, ServesAt, AwaitsPromotion, IsDelivered,
              PendingIn, IsPending, Bound
<1>4. \A h \in Hash : ~CalledRetired(NoKeys, h)
  BY <1>1 DEF CalledRetired, RetiredAt, Bound
<1>5. /\ remote \in [Hash -> RemoteKey]
      /\ \A h \in Hash : remote[h].maker = None
  BY DEF Init, RemoteKey, NoRemoteKey, Live
<1>6. KeptIn(NoKeys, remote, {}, plaintext, {})
  BY <1>2, <1>3, <1>4, <1>5 DEF KeptIn
<1>7. Ground
  BY <1>5, <1>6, MaxFaultsAssumption
  DEF Init, Ground, Guarded, ExposedIsRestricted, Kept
<1>8. Placed
  BY DEF Init, Placed, Tracked, Follows, Told, Sole, Spared, Proved,
         Unrecorded, ReportedIsSo, In, Heading, At
<1> QED BY <1>7, <1>8 DEF Init, Inv

LEMMA IssueStepPreserves ==
  ASSUME Inv, IssueStep
  PROVE  Inv'
<1>1. CASE BeginNext
  BY <1>1, BeginNextPreserves
<1>2. CASE Unprepared
  BY <1>2, UnpreparedPreserves DEF Unprepared, Ended
<1>3. CASE Post
  BY <1>3, PostPreserves
<1>4. CASE AbandonRefused
  BY <1>4, AbandonPreserves
<1>5. CASE DoubtCreate
  BY <1>5, DoubtCreatePreserves
<1>6. CASE RecordHash
  BY <1>6, RecordHashPreserves
<1>7. CASE UpdateSettings
  <2>1. In({"settings", "assign"}) /\ "settings" \in Restriction
    BY <1>7 DEF UpdateSettings, At, In, Restriction
  <2> QED BY <1>7, <2>1, SecuringPreserves DEF UpdateSettings
<1>8. CASE AssignGuardrail
  <2>1. In({"settings", "assign"}) /\ "guardrail" \in Restriction
    BY <1>8 DEF AssignGuardrail, At, In, Restriction
  <2> QED BY <1>8, <2>1, SecuringPreserves DEF AssignGuardrail
<1>9. CASE VerifySecured
  BY <1>9, VerifyPreserves
<1>10. CASE RecordSecured
  <2>1. In({"secured", "start_delivery"})
    BY <1>10 DEF RecordSecured, At, In
  <2> QED BY <1>10, <2>1, ProceedPreserves DEF RecordSecured
<1>11. CASE StartDelivery
  <2>1. In({"secured", "start_delivery"})
    BY <1>11 DEF StartDelivery, At, In
  <2> QED BY <1>11, <2>1, ProceedPreserves DEF StartDelivery
<1>12. CASE Deliver
  BY <1>12, DeliverPreserves
<1>13. CASE Acknowledge
  BY <1>13, AcknowledgePreserves
<1>14. CASE PromoteIssued
  BY <1>14, PromoteIssuedPreserves
<1>15. CASE RecordRejection
  BY <1>15, RejectionPreserves
<1>16. CASE DoubtDelivery
  BY <1>16, DoubtDeliveryPreserves
<1> QED BY <1>1, <1>2, <1>3, <1>4, <1>5, <1>6, <1>7, <1>8, <1>9, <1>10, <1>11,
           <1>12, <1>13, <1>14, <1>15, <1>16 DEF IssueStep

LEMMA LifecycleStepPreserves ==
  ASSUME Inv, LifecycleStep
  PROVE  Inv'
<1>1. CASE DisableTracked
  BY <1>1, DisableTrackedPreserves
<1>2. CASE ConfirmDisabled
  BY <1>2, ConfirmPreserves
<1>3. CASE End
  BY <1>3, UnpreparedPreserves DEF End, Ended
<1>4. CASE Report
  BY <1>4, UnpreparedPreserves DEF Report, Ended
<1>5. CASE RecordRetired
  BY <1>5, RetiredPreserves
<1>6. CASE DeleteDecommissioned
  BY <1>6, DeleteDecommissionedPreserves
<1>7. CASE ConfirmDeleted
  BY <1>7, ConfirmDeletedPreserves
<1>8. CASE DropDeleted
  BY <1>8, DropPreserves
<1>9. CASE KeepUndeleted
  BY <1>9, KeepPreserves
<1>10. CASE RecordDecommission
  BY <1>10, DecommissionPreserves
<1> QED BY <1>1, <1>2, <1>3, <1>4, <1>5, <1>6, <1>7, <1>8, <1>9, <1>10
        DEF LifecycleStep

LEMMA StartPreserves ==
  ASSUME Inv, NEW a \in Address, StartRecovery(a) \/ StartLifecycle(a)
  PROVE  Inv'
<1>1. CASE StartRecovery(a)
  BY <1>1, FastForwardPreserves, RotatePreserves, ResolveAbsencePreserves,
     ResolveLeakedPreserves, RetireDeadPreserves DEF StartRecovery
<1>2. CASE StartLifecycle(a)
  BY <1>2, StartRetirePreserves, StartDeletePreserves, ImportPreserves,
     StartDecommissionPreserves, ForgetPreserves DEF StartLifecycle
<1> QED BY <1>1, <1>2

LEMMA RunStepPreserves ==
  ASSUME Inv, RunStep
  PROVE  Inv'
BY IssueStepPreserves, PlanPreserves, UnpreparedPreserves, CleanUpPreserves,
   LifecycleStepPreserves DEF RunStep, NothingToIssue, Ended

LEMMA NextInv ==
  ASSUME Inv, [Next]_vars
  PROVE  Inv'
<1>1. CASE \E a \in Address : StartRecovery(a) \/ StartLifecycle(a)
  BY <1>1, StartPreserves
<1>2. CASE RunStep
  BY <1>2, RunStepPreserves
<1>3. CASE Crash
  BY <1>3, UnpreparedPreserves DEF Crash
<1>4. CASE PowerLoss
  BY <1>4, PowerLossPreserves
<1>5. CASE LateCreate
  BY <1>5, LateCreatePreserves
<1>6. CASE ConsoleDelete
  BY <1>6, ConsoleDeletePreserves
<1>7. CASE UNCHANGED vars
  <2>1. /\ disk' = disk /\ synced' = synced /\ run' = run /\ remote' = remote
        /\ inflight' = inflight /\ plaintext' = plaintext
        /\ waived' = waived /\ faults' = faults
    BY <1>7 DEF vars
  <2>2. Ground' /\ run' \in RunState \cup {None}
    BY <2>1 DEF Inv, Ground, Guarded, ExposedIsRestricted, Kept
  <2>3. Placed'
    BY <2>1, RunStays DEF ledger, Exists, Live
  <2> QED BY <2>2, <2>3 DEF Inv
<1> QED BY <1>1, <1>2, <1>3, <1>4, <1>5, <1>6, <1>7 DEF Next

LEMMA Invariant == Spec => []Inv
<1>1. Init => Inv
  BY InitInv
<1>2. Inv /\ [Next]_vars => Inv'
  BY NextInv
<1> QED BY <1>1, <1>2, PTL DEF Spec

-----------------------------------------------------------------------------
(* What it says, for every number of keys, addresses and mishaps.          *)

(* Every ledger is one the state file's checks accept the types of, and    *)
(* every run, key and attempt is of its type.                              *)
THEOREM KeymasterTyped == Spec => []TypeOK
<1>1. Inv => TypeOK
  BY DEF Inv, Ground, Kept, KeptIn, Consistent, TypeOK
<1> QED BY <1>1, Invariant, PTL

(* Each key a run made, or may yet have made, is one a ledger leads to, or *)
(* one an operator has answered for, whatever was lost or killed.          *)
THEOREM NoOrphanIsSilent == Spec => []NoSilentOrphan
<1>1. Inv => NoSilentOrphan
  BY DEF Inv, Ground, Kept, KeptIn, NoSilentOrphan, Ledgers, Exists
<1> QED BY <1>1, Invariant, PTL

(* No receiver is handed a key that is not restricted yet.                 *)
THEOREM OnlyRestrictedKeysLeave == Spec => []ExposedIsRestricted
<1>1. Inv => ExposedIsRestricted
  BY DEF Inv, Ground, Guarded
<1> QED BY <1>1, Invariant, PTL

(* An issued key becomes its address's only once its destination has it.   *)
THEOREM CurrentKeysAreHeld == Spec => []CurrentWasDelivered
<1>1. Inv => CurrentWasDelivered
  <2>1. SUFFICES ASSUME Inv, NEW k \in Ledgers, NEW a \in Address,
                        Bound(k, a), k[a].current # None,
                        k[a].current.receiver # None
                 PROVE  plaintext[k[a].current.hash] = "delivered"
    BY DEF CurrentWasDelivered
  <2>2. Kept(k)
    BY <2>1 DEF Inv, Ground, Ledgers
  <2>3. k[a].current.hash \in Hash
    BY <2>1, <2>2, BoundWellFormed DEF Kept, KeptIn, CurrentKey
  <2>4. InUse(k, k[a].current.hash)
    BY <2>1 DEF InUse, ServesAt
  <2> QED BY <2>1, <2>2, <2>3, <2>4 DEF Kept, KeptIn
<1> QED BY <1>1, Invariant, PTL

(* A key a ledger calls retired cannot be used any more.                   *)
THEOREM RetiredKeysStayDead == Spec => []RetiredIsDead
<1>1. Inv => RetiredIsDead
  <2>1. SUFFICES ASSUME Inv, NEW k \in Ledgers, NEW a \in Address, Bound(k, a),
                        NEW r \in k[a].retained, r.status = "retired"
                 PROVE  remote[r.hash].life # "enabled"
    BY DEF RetiredIsDead
  <2>2. Kept(k)
    BY <2>1 DEF Inv, Ground, Ledgers
  <2>3. r.hash \in Hash
    BY <2>1, <2>2, BoundWellFormed DEF Kept, KeptIn, KeyBinding, RetainedKey
  <2>4. CalledRetired(k, r.hash)
    BY <2>1 DEF CalledRetired, RetiredAt
  <2> QED BY <2>1, <2>2, <2>3, <2>4 DEF Kept, KeptIn
<1> QED BY <1>1, Invariant, PTL

(* What a command says of its key when it ends is so.                      *)
THEOREM ReportsAreTrue == Spec => []ReportedIsSo
<1>1. Inv => ReportedIsSo
  BY DEF Inv, Placed
<1> QED BY <1>1, Invariant, PTL

-----------------------------------------------------------------------------
(* Which keys a step may touch.                                            *)

Touched(h) ==
  \/ Killed(h)
  \/ Exists(h) /\ remote'[h].secured # remote[h].secured

Rightly(h) ==
  /\ Owned(disk, h)
  /\ Killed(h) =>
       /\ (\E a \in Address : IsCurrent(disk, a, h)) => run'.cmd = "decommission"
       /\ plaintext[h] = "delivered" => run'.cmd \notin {"apply", "rotate"}

LEMMA MadeIsNotTouched ==
  ASSUME Inv, NEW g \in Hash, NEW attempt, MakeKey(g, attempt), NEW h \in Hash
  PROVE  ~Touched(h)
<1>1. remote[g].life = "none" /\ remote' = [remote EXCEPT ![g] = NewKey(attempt)]
  BY DEF MakeKey
<1>2. h # g => remote'[h] = remote[h]
  BY <1>1 DEF Inv, Ground
<1> QED BY <1>1, <1>2 DEF Touched, Killed, Exists, Live

LEMMA SwitchTouches ==
  ASSUME Inv, NEW me \in RunState, me.hash \in Hash, Disable(me) \/ Delete(me),
         NEW h \in Hash, Touched(h)
  PROVE  h = me.hash /\ run'.cmd = me.cmd
<1>1. PICK life \in {"disabled", "gone"} :
        \/ remote' = remote
        \/ remote' = [remote EXCEPT ![me.hash].life = life]
  BY DEF Disable, Delete, Request, Switched
<1>2. h # me.hash => remote'[h] = remote[h]
  BY <1>1 DEF Inv, Ground
<1>3. h = me.hash
  BY <1>2 DEF Touched, Killed
<1>4. ASSUME Disable(me) PROVE run'.cmd = me.cmd
  <2>1. \/ run' = ReadBack(me)
        \/ \E verdict \in {"unproven", "absent"} : run' = Concluded(me, verdict)
    BY <1>4 DEF Disable, Request
  <2>2. {"unproven", "absent"} \subseteq Verdict
    BY DEF Verdict, Dead
  <2>3. ReadBack(me).cmd = me.cmd
    BY DEF ReadBack, RunState
  <2> QED BY <2>1, <2>2, <2>3, ConcludedTyped
<1>5. ASSUME Delete(me) PROVE run'.cmd = me.cmd
  <2>1. PICK pc \in {"confirm_delete", "keep", "drop"} : run' = [me EXCEPT !.pc = pc]
    BY <1>5 DEF Delete, Request, ReadDeleted
  <2>2. pc \in PhaseOfRun
    BY DEF PhaseOfRun
  <2> QED BY <2>1, <2>2, GotoTyped
<1> QED BY <1>3, <1>4, <1>5

LEMMA SecuringTouches ==
  ASSUME Inv, In({"settings", "assign"}), NEW what, NEW answered, NEW unanswered,
         Request(Restricted(what), answered, unanswered),
         NEW h \in Hash, Touched(h)
  PROVE  Rightly(h)
<1>1. In(Following)
  BY DEF In, Following
<1>2. /\ run.addr \in Address /\ run.hash \in Hash
      /\ IsPending(disk, run.addr)
      /\ disk[run.addr].pending.hash = run.hash
  BY <1>1, OnTheLine
<1>3. \/ remote' = remote
      \/ remote' = [remote EXCEPT ![run.hash].secured = @ \cup {what}]
  BY DEF Request, Restricted
<1>4. /\ remote'[h].life = remote[h].life
      /\ h # run.hash => remote'[h] = remote[h]
  BY <1>2, <1>3 DEF Inv, Ground, RemoteKey
<1>5. h = run.hash /\ ~Killed(h)
  BY <1>4 DEF Touched, Killed
<1>6. Owned(disk, h)
  BY <1>2, <1>5, PendingOwned DEF Owned
<1> QED BY <1>5, <1>6 DEF Rightly

LEMMA StartTouches ==
  ASSUME Inv, NEW a \in Address, StartRecovery(a) \/ StartLifecycle(a),
         NEW h \in Hash, Touched(h)
  PROVE  Rightly(h)
<1>1. remote' # remote
  BY DEF Touched, Killed
<1>2. Consistent(disk)
  BY LedgersConsistent
<1>3. ASSUME NEW g \in Hash, Retains(a, g)
      PROVE  /\ Owned(disk, g)
             /\ \A c \in Address : ~IsCurrent(disk, c, g)
  BY <1>2, <1>3, RetainedIsNotCurrent DEF Retains, Owned, Owns, Names
<1>4. ~StartRecovery(a)
  BY <1>1 DEF StartRecovery, FastForward, Rotate, Begin, ResolveAbsence,
              ResolveLeaked, RetireDead, world
<1>5. ASSUME NEW g \in Hash, StartRetire(a, g)
      PROVE  Rightly(h)
  <2> DEFINE me == [RunAt("retire", "retired", a, g, {}) EXCEPT !.then = "retired"]
  <2>1. "retire" \in Command /\ "retired" \in PhaseOfRun
    BY DEF Command, PhaseOfRun
  <2>2. me \in RunState /\ me.hash = g /\ me.cmd = "retire"
    BY <2>1 DEF RunState, RunAt
  <2>3. Disable(me) /\ Retains(a, g)
    BY <1>1, <1>5 DEF StartRetire, world
  <2> HIDE DEF me
  <2>4. h = g /\ run'.cmd = "retire"
    BY <2>2, <2>3, SwitchTouches
  <2> QED BY <1>3, <2>3, <2>4 DEF Rightly
<1>6. ASSUME NEW g \in Hash, StartDelete(a, g)
      PROVE  Rightly(h)
  <2> DEFINE me == RunAt("delete", "delete", a, g, {})
  <2>1. "delete" \in Command /\ "delete" \in PhaseOfRun
    BY DEF Command, PhaseOfRun
  <2>2. me \in RunState /\ me.hash = g /\ me.cmd = "delete"
    BY <2>1, NewRunTyped
  <2>3. Delete(me) /\ Retains(a, g)
    BY <1>6 DEF StartDelete
  <2> HIDE DEF me
  <2>4. h = g /\ run'.cmd = "delete"
    BY <2>2, <2>3, SwitchTouches
  <2> QED BY <1>3, <2>3, <2>4 DEF Rightly
<1>7. CASE StartDecommission(a)
  <2>1. PICK then \in Decommissioning :
          Disable([RunAt("decommission", then, a, disk[a].current.hash, {})
                     EXCEPT !.then = then])
    BY <1>1, <1>7 DEF StartDecommission, Decommissioning, world
  <2> DEFINE g == disk[a].current.hash
             me == [RunAt("decommission", then, a, g, {}) EXCEPT !.then = then]
  <2>2. g \in Hash /\ Owned(disk, g)
    BY <1>2, <1>7, BoundWellFormed
    DEF StartDecommission, CurrentKey, Owned, Owns, Names
  <2> HIDE DEF g
  <2>3. "decommission" \in Command /\ then \in PhaseOfRun
    BY DEF Command, PhaseOfRun, Decommissioning
  <2>4. me \in RunState /\ me.hash = g /\ me.cmd = "decommission"
    BY <2>2, <2>3 DEF RunState, RunAt, PhaseOfRun
  <2>5. Disable(me)
    BY <2>1 DEF g
  <2> HIDE DEF me
  <2>6. h = g /\ run'.cmd = "decommission"
    BY <2>2, <2>4, <2>5, SwitchTouches
  <2> QED BY <2>2, <2>6 DEF Rightly
<1>8. ~Forget(a) /\ \A g \in Hash : ~Import(a, g)
  BY <1>1 DEF Forget, Import, world
<1> QED BY <1>4, <1>5, <1>6, <1>7, <1>8 DEF StartLifecycle

LEMMA RunTouches ==
  ASSUME Inv, RunStep, NEW h \in Hash, Touched(h)
  PROVE  Rightly(h)
<1>1. remote' # remote
  BY DEF Touched, Killed
<1>2. CASE IssueStep
  <2>1. ~Post
    BY <1>1, MadeIsNotTouched DEF Post
  <2>2. CASE UpdateSettings
    BY <2>2, SecuringTouches DEF UpdateSettings, At, In
  <2>3. CASE AssignGuardrail
    BY <2>3, SecuringTouches DEF AssignGuardrail, At, In
  <2> QED BY <1>1, <1>2, <2>1, <2>2, <2>3
      DEF IssueStep, BeginNext, Begin, Unprepared, AbandonRefused, DoubtCreate,
          RecordHash, VerifySecured, RecordSecured, StartDelivery, Deliver,
          Acknowledge, PromoteIssued, RecordRejection, DoubtDelivery, world
<1>3. CASE DisableTracked
  <2>1. In(Disabling) /\ In({"disable"})
    BY <1>3 DEF DisableTracked, At, In, Disabling
  <2>2. Disables(run) /\ run \in RunState /\ run.addr \in Address
    BY <2>1, AtDisabling DEF Disables, RunState
  <2>3. h = run.hash /\ run'.cmd = run.cmd
    BY <1>3, <2>2, SwitchTouches DEF DisableTracked, Disables
  <2>4. /\ run.cmd # "decommission" =>
             \A a \in Address : ~IsCurrent(disk, a, run.hash)
        /\ run.cmd \in {"apply", "rotate"} => plaintext[run.hash] # "delivered"
    BY <2>1 DEF Inv, Placed, Spared
  <2>5. Owned(disk, h)
    BY <2>2, <2>3 DEF Disables, Owned
  <2> QED BY <2>3, <2>4, <2>5 DEF Rightly
<1>4. CASE DeleteDecommissioned
  <2>1. In(Deleting) /\ In({"delete"})
    BY <1>4 DEF DeleteDecommissioned, At, In, Deleting
  <2>2. /\ run \in RunState /\ run.addr \in Address /\ run.hash \in Hash
        /\ Owns(disk, run.addr, run.hash)
    BY <2>1, AtDeletion
  <2>3. run.cmd = "decommission"
    BY <2>1 DEF Inv, Placed, Spared
  <2>4. h = run.hash /\ run'.cmd = run.cmd
    BY <1>4, <2>2, SwitchTouches DEF DeleteDecommissioned
  <2> QED BY <2>2, <2>3, <2>4 DEF Rightly, Owned
<1> QED BY <1>1, <1>2, <1>3, <1>4
    DEF RunStep, Plan, Begin, NothingToIssue, RecordCleanUp, LifecycleStep,
        ConfirmDisabled, End, Report, RecordRetired, ConfirmDeleted,
        DropDeleted, KeepUndeleted, RecordDecommission, world

LEMMA StepTouches ==
  ASSUME Inv, [Next]_vars, NEW h \in Hash, Touched(h)
  PROVE  Rightly(h)
<1>1. remote' # remote
  BY DEF Touched, Killed
<1>2. ~LateCreate
  BY MadeIsNotTouched DEF LateCreate
<1>3. ~ConsoleDelete
  <2>1. SUFFICES ASSUME ConsoleDelete PROVE FALSE
    OBVIOUS
  <2>2. PICK g \in Hash : remote' = [remote EXCEPT ![g].life = "vanished"]
    BY <2>1 DEF ConsoleDelete
  <2>3. /\ h # g => remote'[h] = remote[h]
        /\ remote'[g].life = "vanished"
        /\ remote'[g].secured = remote[g].secured
    BY <2>2 DEF Inv, Ground, RemoteKey
  <2> QED BY <2>3 DEF Touched, Killed
<1>4. \/ \E a \in Address : StartRecovery(a) \/ StartLifecycle(a)
      \/ RunStep
  BY <1>1, <1>2, <1>3 DEF Next, Crash, PowerLoss, vars, world
<1> QED BY <1>4, StartTouches, RunTouches

(* No request is sent about a key that no address on disk owns, whatever   *)
(* step comes next and however many keys and addresses there are.          *)
THEOREM OnlyTrackedKeysAreTouched == Spec => FollowUpOnlyOnTrackedKeys
<1>1. Inv /\ [Next]_vars =>
        [\A h \in Hash :
           \/ Killed(h)
           \/ Exists(h) /\ remote'[h].secured # remote[h].secured
           => Owned(disk, h)]_vars
  BY StepTouches DEF Touched, Rightly
<1> QED BY <1>1, Invariant, PTL DEF Spec, FollowUpOnlyOnTrackedKeys

(* Only a decommission ends the key an address uses, and no apply or       *)
(* rotation ends a key whose plaintext a destination holds.                *)
THEOREM ServingKeysAreSpared == Spec => ServingKeyKilledOnlyOnRequest
<1>1. Inv /\ [Next]_vars =>
        [\A h \in Hash : Killed(h) =>
           /\ (\E a \in Address : /\ Bound(disk, a) /\ disk[a].current # None
                                  /\ disk[a].current.hash = h)
                => run'.cmd = "decommission"
           /\ plaintext[h] = "delivered" => run'.cmd \notin {"apply", "rotate"}]_vars
  BY StepTouches DEF Touched, Rightly, IsCurrent
<1> QED BY <1>1, Invariant, PTL DEF Spec, ServingKeyKilledOnlyOnRequest
=============================================================================
