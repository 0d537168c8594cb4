-------------------------- MODULE KeyLedger_proofs --------------------------
(***************************************************************************)
(* Each mutation of the key ledger keeps the ledger well formed, for every *)
(* number of addresses, hashes, receivers and generations.                 *)
(*                                                                         *)
(* First what each mutation leaves in the one binding it replaces (the     *)
(* ...Fields lemmas), then that the result passes check_invariants:        *)
(* ChangedConsistent reduces that to three questions about the binding:    *)
(* does it pass check_binding, is its operation the only one, are its      *)
(* hashes nobody else's.                                                   *)
(***************************************************************************)
EXTENDS KeyLedger, WellFoundedInduction, TLAPS

Consistent(keys) == keys \in Keys /\ CheckInvariants(keys)

(* next is keys with another binding at a. *)
Changed(next, keys, a) ==
  /\ next \in Keys
  /\ next[a] \in KeyBinding /\ next[a] # None
  /\ \A c \in Address \ {a} : next[c] = keys[c]

LEMMA PutChanged ==
  ASSUME NEW keys \in Keys, NEW a \in Address, NEW b \in KeyBinding
  PROVE  Changed(Put(keys, a, b), keys, a) /\ Put(keys, a, b)[a] = b
BY NoneAssumption DEF Put, Keys, Changed

LEMMA BoundTyped ==
  ASSUME NEW keys \in Keys, NEW a \in Address, Bound(keys, a)
  PROVE  /\ keys[a] \in KeyBinding
         /\ keys[a].current # None => keys[a].current \in CurrentKey
         /\ keys[a].pending # None => keys[a].pending \in PendingOperation
BY DEF Keys, Bound, KeyBinding

-----------------------------------------------------------------------------
(* What a mutation leaves in the binding it replaces.                      *)

(* State::bind_key at an address that has a current key *)
LEMMA RebindFields ==
  ASSUME NEW keys \in Keys, NEW a \in Address, NEW h, NEW g \in Generation,
         Bound(keys, a), keys[a].current # None
  PROVE  LET next == BindKey(keys, a, h, g)
         IN /\ Changed(next, keys, a)
            /\ next[a].origin = keys[a].origin
            /\ next[a].current # None
            /\ next[a].current.hash = keys[a].current.hash
            /\ next[a].current.receiver = keys[a].current.receiver
            /\ next[a].current.generation = g
            /\ next[a].pending = keys[a].pending
            /\ next[a].retained = keys[a].retained
            /\ next[a].generation_floor = keys[a].generation_floor
<1> DEFINE c == [keys[a].current EXCEPT !.generation = g]
           b == [keys[a] EXCEPT !.current = c]
<1>1. keys[a] \in KeyBinding /\ keys[a].current \in CurrentKey
  BY BoundTyped
<1>2. /\ c \in CurrentKey /\ c.hash = keys[a].current.hash
      /\ c.receiver = keys[a].current.receiver /\ c.generation = g
  BY <1>1 DEF CurrentKey
<1>3. /\ b \in KeyBinding /\ b.current = c /\ b.origin = keys[a].origin
      /\ b.pending = keys[a].pending /\ b.retained = keys[a].retained
      /\ b.generation_floor = keys[a].generation_floor
  BY <1>1, <1>2 DEF KeyBinding
<1>4. c # None
  BY <1>2, NoneAssumption
<1>5. BindKey(keys, a, h, g) = Put(keys, a, b)
  BY DEF BindKey
<1> HIDE DEF b, c
<1> QED BY <1>2, <1>3, <1>4, <1>5, PutChanged

(* State::bind_key at a new address, or one whose key was decommissioned *)
LEMMA BindFields ==
  ASSUME NEW keys \in Keys, NEW a \in Address, NEW h \in Hash,
         NEW g \in Generation, ~(Bound(keys, a) /\ keys[a].current # None)
  PROVE  LET next == BindKey(keys, a, h, g)
         IN /\ Changed(next, keys, a)
            /\ next[a].origin = ImportedOrigin
            /\ next[a].current # None
            /\ next[a].current.hash = h
            /\ next[a].current.receiver = None
            /\ next[a].current.generation = g
            /\ next[a].pending = None
            /\ next[a].retained =
                 IF Bound(keys, a) THEN keys[a].retained ELSE {}
            /\ next[a].generation_floor =
                 IF Bound(keys, a) THEN keys[a].generation_floor ELSE 0
<1> DEFINE kept == IF Bound(keys, a) THEN keys[a].retained ELSE {}
           floor == IF Bound(keys, a) THEN keys[a].generation_floor ELSE 0
           current == [hash |-> h, generation |-> g, receiver |-> None]
           b == [origin |-> ImportedOrigin, current |-> current,
                 pending |-> None, retained |-> kept,
                 generation_floor |-> floor]
<1>1. Bound(keys, a) => keys[a] \in KeyBinding
  BY BoundTyped
<1>2. current \in CurrentKey /\ current # None
  BY NoneAssumption DEF CurrentKey
<1>3. kept \in SUBSET RetainedKey /\ floor \in 0 .. MaxGeneration
  BY <1>1, MaxGenerationAssumption DEF KeyBinding
<1>4. b \in KeyBinding
  BY <1>2, <1>3 DEF KeyBinding, Origin
<1>5. BindKey(keys, a, h, g) = Put(keys, a, b)
  BY DEF BindKey
<1>6. /\ b.origin = ImportedOrigin /\ b.current = current
      /\ current.hash = h /\ current.receiver = None
      /\ current.generation = g
      /\ b.pending = None /\ b.retained = kept
      /\ b.generation_floor = floor
  OBVIOUS
<1> HIDE DEF b, current
<1>7. /\ Changed(Put(keys, a, b), keys, a)
      /\ Put(keys, a, b)[a] = b
  BY <1>4, PutChanged
<1> QED BY <1>2, <1>5, <1>6, <1>7

(* State::begin_create *)
LEMMA BeginFields ==
  ASSUME NEW keys \in Keys, NEW a \in Address, NEW g \in Generation,
         NEW r \in Receiver, NEW id \in OpId
  PROVE  LET next == BeginCreate(keys, a, g, r, id)
         IN /\ Changed(next, keys, a)
            /\ next[a].pending # None
            /\ next[a].pending.phase = "create_started"
            /\ next[a].pending.hash = None
            /\ next[a].pending.id = id
            /\ next[a].pending.generation = g
            /\ ~next[a].pending.rejected
            /\ Bound(keys, a) =>
                 /\ next[a].origin = keys[a].origin
                 /\ next[a].current = keys[a].current
                 /\ next[a].retained = keys[a].retained
                 /\ next[a].generation_floor = keys[a].generation_floor
            /\ ~Bound(keys, a) =>
                 /\ next[a].current = None
                 /\ next[a].retained = {}
                 /\ next[a].generation_floor = 0
<1> DEFINE operation == [id |-> id, generation |-> g,
                         phase |-> "create_started", hash |-> None,
                         rejected |-> FALSE, receiver |-> r]
           fresh == [origin |-> CreatedOrigin, current |-> None,
                     pending |-> operation, retained |-> {},
                     generation_floor |-> 0]
           again == [keys[a] EXCEPT !.pending = operation]
           b == IF Bound(keys, a) THEN again ELSE fresh
<1>1. operation \in PendingOperation
  BY DEF PendingOperation, Phase, HashlessPhase
<1>2. /\ operation # None /\ operation.phase = "create_started"
      /\ operation.hash = None /\ operation.id = id
      /\ operation.generation = g
      /\ ~operation.rejected
  BY <1>1, NoneAssumption
<1>3. /\ fresh \in KeyBinding /\ fresh.pending = operation
      /\ fresh.current = None /\ fresh.retained = {}
      /\ fresh.generation_floor = 0
  BY <1>1, MaxGenerationAssumption DEF KeyBinding, Origin
<1>4. Bound(keys, a) =>
        /\ again \in KeyBinding /\ again.pending = operation
        /\ again.origin = keys[a].origin
        /\ again.current = keys[a].current
        /\ again.retained = keys[a].retained
        /\ again.generation_floor = keys[a].generation_floor
  BY <1>1, BoundTyped DEF KeyBinding
<1>5. BeginCreate(keys, a, g, r, id) = Put(keys, a, b)
  BY DEF BeginCreate
<1> HIDE DEF operation, fresh, again
<1>6. b \in KeyBinding
  BY <1>3, <1>4
<1> QED BY <1>2, <1>3, <1>4, <1>5, <1>6, PutChanged

(* Transition::target and the fields State::advance_key assigns *)
LEMMA AdvanceFields ==
  ASSUME NEW keys \in Keys, NEW a \in Address, NEW t \in Transition,
         NEW h, t = "created" => h \in Hash, IsPending(keys, a)
  PROVE  LET next == AdvanceKey(keys, a, t, h)
             p == keys[a].pending
             q == next[a].pending
         IN /\ Changed(next, keys, a)
            /\ next[a].origin = keys[a].origin
            /\ next[a].current = keys[a].current
            /\ next[a].retained = keys[a].retained
            /\ next[a].generation_floor = keys[a].generation_floor
            /\ q # None
            /\ q.id = p.id
            /\ q.phase = Step[t][2]
            /\ q.hash = IF t = "created" THEN h ELSE p.hash
            /\ q.rejected = ((t = "delivery_rejected") \/ p.rejected)
            /\ q.generation = p.generation
<1> DEFINE p == keys[a].pending
           q == [p EXCEPT !.phase = Step[t][2],
                   !.hash = IF t = "created" THEN h ELSE p.hash,
                   !.rejected = (t = "delivery_rejected") \/ p.rejected]
           b == [keys[a] EXCEPT !.pending = q]
<1>1. keys[a] \in KeyBinding /\ p \in PendingOperation
  BY BoundTyped DEF IsPending
<1>2. Step[t][2] \in Phase
  BY DEF Transition, Step, Phase, HashlessPhase, HashedPhase
<1>3. q \in PendingOperation
  BY <1>1, <1>2 DEF PendingOperation
<1>4. /\ q # None
      /\ q.id = p.id
      /\ q.phase = Step[t][2]
      /\ q.hash = (IF t = "created" THEN h ELSE p.hash)
      /\ q.rejected = ((t = "delivery_rejected") \/ p.rejected)
      /\ q.generation = p.generation
  <2>1. q # None
    BY <1>3, NoneAssumption
  <2> QED BY <2>1, <1>1 DEF PendingOperation
<1>5. /\ b \in KeyBinding /\ b.pending = q
      /\ b.origin = keys[a].origin /\ b.current = keys[a].current
      /\ b.retained = keys[a].retained
      /\ b.generation_floor = keys[a].generation_floor
  BY <1>1, <1>3 DEF KeyBinding
<1>6. AdvanceKey(keys, a, t, h) = Put(keys, a, b)
  BY DEF AdvanceKey
<1> HIDE DEF b, q
<1> QED BY <1>4, <1>5, <1>6, PutChanged

(* State::abandon_create, State::clear_ambiguous_create *)
LEMMA DropPendingFields ==
  ASSUME NEW keys \in Keys, NEW a \in Address, Bound(keys, a)
  PROVE  LET next == DropPending(keys, a)
         IN /\ Changed(next, keys, a)
            /\ next[a].origin = keys[a].origin
            /\ next[a].current = keys[a].current
            /\ next[a].pending = None
            /\ next[a].retained = keys[a].retained
            /\ next[a].generation_floor = keys[a].generation_floor
<1> DEFINE b == [keys[a] EXCEPT !.pending = None]
<1>1. /\ b \in KeyBinding /\ b.pending = None
      /\ b.origin = keys[a].origin /\ b.current = keys[a].current
      /\ b.retained = keys[a].retained
      /\ b.generation_floor = keys[a].generation_floor
  BY BoundTyped DEF KeyBinding
<1>2. DropPending(keys, a) = Put(keys, a, b)
  BY DEF DropPending
<1> HIDE DEF b
<1> QED BY <1>1, <1>2, PutChanged

(* State::retain_leaked_candidate, State::retire_candidate *)
LEMMA RetainFields ==
  ASSUME NEW keys \in Keys, NEW a \in Address, IsPending(keys, a),
         NEW h \in Hash
  PROVE  LET next == RetainPending(keys, a, h)
             old == RetainedAs(h, keys[a].pending.generation,
                               "failed_candidate")
         IN /\ Changed(next, keys, a)
            /\ next[a].origin = keys[a].origin
            /\ next[a].current = keys[a].current
            /\ next[a].pending = None
            /\ next[a].retained = keys[a].retained \cup {old}
            /\ next[a].generation_floor = keys[a].generation_floor
            /\ old.hash = h /\ old.generation = keys[a].pending.generation
<1> DEFINE old == RetainedAs(h, keys[a].pending.generation,
                             "failed_candidate")
           b == [keys[a] EXCEPT !.pending = None, !.retained = @ \cup {old}]
<1>1. keys[a] \in KeyBinding /\ keys[a].pending \in PendingOperation
  BY BoundTyped DEF IsPending
<1>2. /\ old \in RetainedKey /\ old.hash = h
      /\ old.generation = keys[a].pending.generation
  BY <1>1 DEF RetainedKey, RetainedAs, RetainedStatus, PendingOperation
<1>3. /\ b \in KeyBinding /\ b.pending = None
      /\ b.current = keys[a].current
      /\ b.retained = keys[a].retained \cup {old}
      /\ b.origin = keys[a].origin
      /\ b.generation_floor = keys[a].generation_floor
  BY <1>1, <1>2 DEF KeyBinding
<1>4. RetainPending(keys, a, h) = Put(keys, a, b)
  BY DEF RetainPending
<1> HIDE DEF b, old
<1>5. /\ Changed(Put(keys, a, b), keys, a)
      /\ Put(keys, a, b)[a] = b
  BY <1>3, PutChanged
<1> QED BY <1>2, <1>3, <1>4, <1>5 DEF old

(* State::promote_key *)
LEMMA PromoteFields ==
  ASSUME NEW keys \in Keys, NEW a \in Address, IsPending(keys, a),
         keys[a].pending.hash \in Hash
  PROVE  LET next == PromoteKey(keys, a)
             p == keys[a].pending
             c == keys[a].current
             old == RetainedAs(c.hash, c.generation, "awaiting_retirement")
         IN /\ Changed(next, keys, a)
            /\ next[a].origin = CreatedOrigin
            /\ next[a].current # None
            /\ next[a].current.hash = p.hash
            /\ next[a].current.generation = p.generation
            /\ next[a].current.receiver # None
            /\ next[a].pending = None
            /\ next[a].retained =
                 keys[a].retained \cup (IF c = None THEN {} ELSE {old})
            /\ next[a].generation_floor = keys[a].generation_floor
            /\ c # None => old.hash = c.hash /\ old.generation = c.generation
<1> DEFINE p == keys[a].pending
           c == keys[a].current
           old == RetainedAs(c.hash, c.generation, "awaiting_retirement")
           predecessor == IF c = None THEN {} ELSE {old}
           current == [hash |-> p.hash, generation |-> p.generation,
                       receiver |-> p.receiver]
           b == [origin |-> CreatedOrigin, current |-> current,
                 pending |-> None,
                 retained |-> keys[a].retained \cup predecessor,
                 generation_floor |-> keys[a].generation_floor]
<1>1. /\ keys[a] \in KeyBinding /\ p \in PendingOperation
      /\ c # None => c \in CurrentKey
  BY BoundTyped DEF IsPending
<1>2. /\ current \in CurrentKey /\ current # None
      /\ current.hash = p.hash /\ current.generation = p.generation
      /\ current.receiver # None
  <2>1. current \in CurrentKey /\ p.receiver \in Receiver
    BY <1>1 DEF CurrentKey, PendingOperation
  <2> QED BY <2>1, NoneAssumption
<1>3. c # None => /\ old \in RetainedKey /\ old.hash = c.hash
                  /\ old.generation = c.generation
  BY <1>1 DEF CurrentKey, RetainedAs, RetainedKey, RetainedStatus
<1>4. b \in KeyBinding
  BY <1>1, <1>2, <1>3 DEF KeyBinding, Origin
<1>5. PromoteKey(keys, a) = Put(keys, a, b)
  BY DEF PromoteKey
<1>6. /\ b.origin = CreatedOrigin /\ b.current = current
      /\ b.pending = None /\ b.retained = keys[a].retained \cup predecessor
      /\ b.generation_floor = keys[a].generation_floor
  OBVIOUS
<1> HIDE DEF b, current
<1>7. /\ Changed(Put(keys, a, b), keys, a)
      /\ Put(keys, a, b)[a] = b
  BY <1>4, PutChanged
<1> QED BY <1>2, <1>3, <1>5, <1>6, <1>7

(* State::decommission_current *)
LEMMA DecommissionFields ==
  ASSUME NEW keys \in Keys, NEW a \in Address, NEW status \in RetainedStatus,
         Bound(keys, a), keys[a].current # None
  PROVE  LET next == Decommission(keys, a, status)
             c == keys[a].current
             old == RetainedAs(c.hash, c.generation, status)
         IN /\ Changed(next, keys, a)
            /\ next[a].origin = keys[a].origin
            /\ next[a].current = None
            /\ next[a].pending = keys[a].pending
            /\ next[a].retained = keys[a].retained \cup {old}
            /\ next[a].generation_floor = keys[a].generation_floor
            /\ old.hash = c.hash /\ old.generation = c.generation
<1> DEFINE c == keys[a].current
           old == RetainedAs(c.hash, c.generation, status)
           b == [keys[a] EXCEPT !.current = None, !.retained = @ \cup {old}]
<1>1. keys[a] \in KeyBinding /\ c \in CurrentKey
  BY BoundTyped
<1>2. /\ old \in RetainedKey /\ old.hash = c.hash
      /\ old.generation = c.generation
  BY <1>1 DEF CurrentKey, RetainedAs, RetainedKey
<1>3. /\ b \in KeyBinding /\ b.current = None
      /\ b.pending = keys[a].pending /\ b.origin = keys[a].origin
      /\ b.retained = keys[a].retained \cup {old}
      /\ b.generation_floor = keys[a].generation_floor
  BY <1>1, <1>2 DEF KeyBinding
<1>4. Decommission(keys, a, status) = Put(keys, a, b)
  BY DEF Decommission
<1> HIDE DEF b, old
<1>5. /\ Changed(Put(keys, a, b), keys, a)
      /\ Put(keys, a, b)[a] = b
  BY <1>3, PutChanged
<1> QED BY <1>2, <1>3, <1>4, <1>5 DEF old

(* State::drop_retained *)
LEMMA DropFields ==
  ASSUME NEW keys \in Keys, NEW a \in Address, NEW r,
         CanDropRetained(keys, a, r)
  PROVE  LET next == DropRetained(keys, a, r)
         IN /\ Changed(next, keys, a)
            /\ next[a].origin = keys[a].origin
            /\ next[a].current = keys[a].current
            /\ next[a].pending = keys[a].pending
            /\ next[a].retained = keys[a].retained \ {r}
            /\ next[a].generation_floor =
                 RaisedFloor(keys[a].generation_floor, r.generation)
<1> DEFINE floor == RaisedFloor(keys[a].generation_floor, r.generation)
           b == [keys[a] EXCEPT !.retained = @ \ {r},
                                !.generation_floor = floor]
<1>1. keys[a] \in KeyBinding
  BY BoundTyped DEF CanDropRetained
<1>2. floor \in 0 .. MaxGeneration
  BY <1>1 DEF CanDropRetained, RaisedFloor, KeyBinding, RetainedKey,
       Generation
<1>3. /\ b \in KeyBinding /\ b.origin = keys[a].origin
      /\ b.current = keys[a].current /\ b.pending = keys[a].pending
      /\ b.retained = keys[a].retained \ {r} /\ b.generation_floor = floor
  BY <1>1, <1>2 DEF KeyBinding
<1>4. DropRetained(keys, a, r) = Put(keys, a, b)
  BY DEF DropRetained
<1> HIDE DEF b
<1>5. /\ Changed(Put(keys, a, b), keys, a)
      /\ Put(keys, a, b)[a] = b
  BY <1>3, PutChanged
<1> QED BY <1>3, <1>4, <1>5

(* State::set_retained_status *)
LEMMA StatusFields ==
  ASSUME NEW keys \in Keys, NEW a \in Address, NEW r,
         NEW status \in RetainedStatus, CanDropRetained(keys, a, r)
  PROVE  LET next == SetRetainedStatus(keys, a, r, status)
             new == [r EXCEPT !.status = status]
         IN /\ Changed(next, keys, a)
            /\ next[a].origin = keys[a].origin
            /\ next[a].current = keys[a].current
            /\ next[a].pending = keys[a].pending
            /\ next[a].retained = (keys[a].retained \ {r}) \cup {new}
            /\ next[a].generation_floor = keys[a].generation_floor
            /\ new.hash = r.hash /\ new.generation = r.generation
<1> DEFINE new == [r EXCEPT !.status = status]
           b == [keys[a] EXCEPT !.retained = (@ \ {r}) \cup {new}]
<1>1. keys[a] \in KeyBinding /\ r \in RetainedKey
  <2>1. keys[a] \in KeyBinding /\ r \in keys[a].retained
    BY BoundTyped DEF CanDropRetained
  <2> QED BY <2>1 DEF KeyBinding
<1>2. /\ new \in RetainedKey /\ new.hash = r.hash
      /\ new.generation = r.generation
  BY <1>1 DEF RetainedKey
<1>3. /\ b \in KeyBinding /\ b.origin = keys[a].origin
      /\ b.current = keys[a].current /\ b.pending = keys[a].pending
      /\ b.retained = (keys[a].retained \ {r}) \cup {new}
      /\ b.generation_floor = keys[a].generation_floor
  BY <1>1, <1>2 DEF KeyBinding
<1>4. SetRetainedStatus(keys, a, r, status) = Put(keys, a, b)
  BY DEF SetRetainedStatus
<1> HIDE DEF b, new
<1>5. /\ Changed(Put(keys, a, b), keys, a)
      /\ Put(keys, a, b)[a] = b
  BY <1>3, PutChanged
<1> QED BY <1>2, <1>3, <1>4, <1>5 DEF new

-----------------------------------------------------------------------------
(* Consistency of a ledger changed at one address.                         *)

LEMMA ChangedConsistent ==
  ASSUME NEW keys, Consistent(keys), NEW a \in Address, NEW next,
         Changed(next, keys, a), CheckBinding(next[a]),
         next[a].pending # None =>
           \A c \in Address \ {a} : ~IsPending(keys, c),
         \A h \in Hash : Names(next[a], h) =>
           \A c \in Address \ {a} : ~Owns(keys, c, h)
  PROVE  Consistent(next)
<1>1. OneOperation(next)
  BY DEF Changed, Consistent, CheckInvariants, OneOperation, IsPending, Bound
<1>2. DistinctHashes(next)
  BY DEF Changed, Consistent, CheckInvariants, DistinctHashes, Owns, Bound
<1>3. \A c \in Address : Bound(next, c) => CheckBinding(next[c])
  BY DEF Changed, Consistent, CheckInvariants, Bound
<1> QED BY <1>1, <1>2, <1>3 DEF Changed, Consistent, CheckInvariants

(* What consistency says of one binding. *)
LEMMA BoundWellFormed ==
  ASSUME NEW keys, Consistent(keys), NEW a \in Address, Bound(keys, a)
  PROVE  /\ keys \in Keys
         /\ CheckBinding(keys[a]) /\ keys[a] \in KeyBinding
         /\ keys[a].current # None => keys[a].current \in CurrentKey
         /\ keys[a].pending # None => keys[a].pending \in PendingOperation
BY BoundTyped DEF Consistent, CheckInvariants

(* A binding that names nothing new is still nobody else's. *)
LEMMA NamesKept ==
  ASSUME NEW keys, Consistent(keys), NEW a \in Address, Bound(keys, a),
         NEW h \in Hash, Names(keys[a], h)
  PROVE  \A c \in Address \ {a} : ~Owns(keys, c, h)
BY DEF Consistent, CheckInvariants, DistinctHashes, Owns

(* An address with an operation is the only one. *)
LEMMA PendingAlone ==
  ASSUME NEW keys, Consistent(keys), NEW a \in Address, IsPending(keys, a)
  PROVE  \A c \in Address \ {a} : ~IsPending(keys, c)
BY DEF Consistent, CheckInvariants, OneOperation

(* Settled generations are numbers, and an operation is above them all. *)
LEMMA SettledBelow ==
  ASSUME NEW keys, Consistent(keys), NEW a \in Address, Bound(keys, a)
  PROVE  /\ Settled(keys[a]) \subseteq Generation
         /\ keys[a].pending # None =>
              /\ keys[a].pending.generation \in Generation
              /\ \A n \in Settled(keys[a]) : n # keys[a].pending.generation
<1>1. /\ CheckBinding(keys[a]) /\ keys[a] \in KeyBinding
      /\ keys[a].current # None => keys[a].current \in CurrentKey
      /\ keys[a].pending # None => keys[a].pending \in PendingOperation
  BY BoundWellFormed
<1>2. Settled(keys[a]) \subseteq Generation
  BY <1>1 DEF Settled, KeyBinding, RetainedKey, CurrentKey
<1>3. ASSUME keys[a].pending # None
      PROVE  keys[a].pending.generation \in Generation
  BY <1>1, <1>3 DEF PendingOperation
<1>4. ASSUME keys[a].pending # None, NEW n \in Settled(keys[a])
      PROVE  n # keys[a].pending.generation
  <2>1. keys[a].pending.generation > n
    BY <1>1, <1>4 DEF CheckBinding, PendingShape
  <2> QED BY <2>1, <1>2, <1>3, <1>4 DEF Generation
<1> QED BY <1>2, <1>3, <1>4

(* A hashed operation has a key. *)
LEMMA PendingHash ==
  ASSUME NEW keys, Consistent(keys), NEW a \in Address,
         PendingIn(keys, a, HashedPhase)
  PROVE  keys[a].pending.hash \in Hash
<1>1. /\ CheckBinding(keys[a]) /\ keys[a].pending \in PendingOperation
      /\ keys[a].pending # None
      /\ keys[a].pending.phase \in HashedPhase
  BY BoundWellFormed DEF PendingIn, IsPending
<1> QED BY <1>1 DEF CheckBinding, PendingShape, PendingOperation

LEMMA BindConsistent ==
  ASSUME NEW keys, Consistent(keys), NEW a \in Address, NEW h \in Hash,
         NEW g \in Generation, CanBindKey(keys, a, h, g)
  PROVE  Consistent(BindKey(keys, a, h, g))
<1> DEFINE next == BindKey(keys, a, h, g)
<1>1. keys \in Keys
  BY DEF Consistent
<1>2. CASE Bound(keys, a) /\ keys[a].current # None
  <2>1. /\ Changed(next, keys, a)
        /\ next[a].origin = keys[a].origin
        /\ next[a].current # None
        /\ next[a].current.hash = keys[a].current.hash
        /\ next[a].current.receiver = keys[a].current.receiver
        /\ next[a].current.generation = g
        /\ next[a].pending = keys[a].pending
        /\ next[a].retained = keys[a].retained
    BY <1>1, <1>2, RebindFields
  <2> HIDE DEF next
  <2>2. CheckBinding(keys[a]) /\ keys[a].pending = None
    BY <1>2, BoundWellFormed DEF CanBindKey
  <2>3. \A r \in keys[a].retained : r.generation # g
    <3>1. CASE keys[a].current.generation = g
      BY <3>1, <1>2, <2>2 DEF CheckBinding, DistinctGenerations
    <3>2. CASE Unspent(keys, a, g)
      <4>1. \A n \in Settled(keys[a]) : g > n /\ n \in Generation
        BY <1>2, <3>2, SettledBelow DEF Unspent, Recorded
      <4> QED BY <4>1 DEF Settled, Generation
    <3> QED BY <1>2, <3>1, <3>2 DEF CanBindKey
  <2>4. CheckBinding(next[a])
    BY <1>2, <2>1, <2>2, <2>3 DEF CheckBinding, DistinctRoles,
         DistinctGenerations, DeliveryRecord, PendingShape
  <2>5. \A i \in Hash : Names(next[a], i) => Names(keys[a], i)
    BY <1>2, <2>1 DEF Names
  <2>6. Consistent(next)
    BY <1>2, <2>1, <2>2, <2>4, <2>5, ChangedConsistent, NamesKept
  <2> QED BY <2>6 DEF next
<1>3. CASE ~(Bound(keys, a) /\ keys[a].current # None)
  <2> DEFINE kept == IF Bound(keys, a) THEN keys[a].retained ELSE {}
  <2>1. /\ Changed(next, keys, a)
        /\ next[a].origin = ImportedOrigin
        /\ next[a].current # None
        /\ next[a].current.hash = h
        /\ next[a].current.receiver = None
        /\ next[a].current.generation = g
        /\ next[a].pending = None
        /\ next[a].retained = kept
    BY <1>1, <1>3, BindFields
  <2> HIDE DEF next
  <2>2. /\ \A r \in kept : r.hash # h /\ r.generation # g
        /\ \A r, s \in kept : r.hash = s.hash => r = s
        /\ \A r, s \in kept : r.generation = s.generation => r = s
    <3>1. CASE Bound(keys, a)
      <4>1. \A n \in Settled(keys[a]) : g > n /\ n \in Generation
        BY <1>3, <3>1, SettledBelow DEF CanBindKey, Unspent, Recorded
      <4>2. \A r \in kept : r.generation # g
        BY <4>1, <3>1 DEF Settled, Generation
      <4>3. CheckBinding(keys[a])
        BY <3>1, BoundWellFormed
      <4> QED BY <4>2, <4>3, <3>1 DEF CanBindKey, CheckBinding,
                   DistinctRoles, DistinctGenerations
    <3> QED BY <3>1
  <2>3. CheckBinding(next[a])
    BY <2>1, <2>2 DEF CheckBinding, DistinctRoles, DistinctGenerations,
         DeliveryRecord, PendingShape, ImportedOrigin, CreatedOrigin
  <2>4. \A i \in Hash : Names(next[a], i) =>
           i = h \/ (Bound(keys, a) /\ Names(keys[a], i))
    BY <2>1 DEF Names
  <2>5. \A i \in Hash : Names(next[a], i) =>
          \A c \in Address \ {a} : ~Owns(keys, c, i)
    BY <2>4, NamesKept DEF CanBindKey
  <2>6. Consistent(next)
    BY <2>1, <2>3, <2>5, ChangedConsistent
  <2> QED BY <2>6 DEF next
<1> QED BY <1>2, <1>3

LEMMA BeginCreateConsistent ==
  ASSUME NEW keys, Consistent(keys), NEW a \in Address, NEW g \in Generation,
         NEW r \in Receiver, NEW id \in OpId, CanBeginCreate(keys, a, g)
  PROVE  Consistent(BeginCreate(keys, a, g, r, id))
<1> DEFINE next == BeginCreate(keys, a, g, r, id)
<1>1. /\ Changed(next, keys, a)
      /\ next[a].pending # None
      /\ next[a].pending.phase = "create_started"
      /\ next[a].pending.hash = None
      /\ next[a].pending.generation = g
      /\ ~next[a].pending.rejected
      /\ Bound(keys, a) =>
           /\ next[a].origin = keys[a].origin
           /\ next[a].current = keys[a].current
           /\ next[a].retained = keys[a].retained
      /\ ~Bound(keys, a) =>
           next[a].current = None /\ next[a].retained = {}
  <2>1. keys \in Keys
    BY DEF Consistent
  <2> QED BY <2>1, BeginFields
<1> HIDE DEF next
<1>2. \A c \in Address : ~IsPending(keys, c)
  BY DEF CanBeginCreate, NothingPending
<1>3. \A n \in Settled(next[a]) : g > n
  BY <1>1 DEF CanBeginCreate, Unspent, Recorded, Settled
<1>4. PendingShape(next[a])
  BY <1>1, <1>3 DEF PendingShape, HashedPhase
<1>5. Bound(keys, a) =>
        /\ CheckBinding(keys[a])
        /\ keys[a].current # None => keys[a].current.hash # None
        /\ \A s \in keys[a].retained : s.hash # None
  <2> SUFFICES ASSUME Bound(keys, a)
               PROVE  /\ CheckBinding(keys[a])
                      /\ keys[a].current # None => keys[a].current.hash # None
                      /\ \A s \in keys[a].retained : s.hash # None
    OBVIOUS
  <2>1. /\ CheckBinding(keys[a]) /\ keys[a] \in KeyBinding
        /\ keys[a].current # None => keys[a].current \in CurrentKey
    BY BoundWellFormed
  <2> QED BY <2>1, NoneAssumption DEF KeyBinding, CurrentKey, RetainedKey
<1>6. DistinctRoles(next[a])
  BY <1>1, <1>5 DEF CheckBinding, DistinctRoles
<1>7. DistinctGenerations(next[a]) /\ DeliveryRecord(next[a])
  BY <1>1, <1>5 DEF CheckBinding, DistinctGenerations, DeliveryRecord
<1>8. \A h \in Hash : Names(next[a], h) => Bound(keys, a) /\ Names(keys[a], h)
  BY <1>1, NoneAssumption DEF Names
<1>9. Consistent(next)
  BY <1>1, <1>2, <1>4, <1>6, <1>7, <1>8, ChangedConsistent, NamesKept
     DEF CheckBinding
<1> QED BY <1>9 DEF next

(* State::advance_key *)
LEMMA AdvanceConsistent ==
  ASSUME NEW keys, Consistent(keys), NEW a \in Address, NEW t \in Transition,
         NEW h, t = "created" => h \in Hash, CanAdvanceKey(keys, a, t, h)
  PROVE  Consistent(AdvanceKey(keys, a, t, h))
<1> DEFINE next == AdvanceKey(keys, a, t, h)
           p == keys[a].pending
           q == next[a].pending
<1>1. /\ IsPending(keys, a) /\ Bound(keys, a)
      /\ p.phase = Step[t][1] /\ p # None
  BY DEF CanAdvanceKey, PendingIn, IsPending
<1>2. keys \in Keys /\ CheckBinding(keys[a])
  BY <1>1, BoundWellFormed
<1>3. /\ Changed(next, keys, a)
      /\ next[a].origin = keys[a].origin
      /\ next[a].current = keys[a].current
      /\ next[a].retained = keys[a].retained
      /\ q # None
      /\ q.phase = Step[t][2]
      /\ q.hash = (IF t = "created" THEN h ELSE p.hash)
      /\ q.rejected = ((t = "delivery_rejected") \/ p.rejected)
      /\ q.generation = p.generation
  BY <1>1, <1>2, AdvanceFields
<1> HIDE DEF next
<1>4. /\ Step[t][1] \in HashedPhase <=> t \notin {"created", "create_ambiguous"}
      /\ Step[t][2] \in HashedPhase <=> t # "create_ambiguous"
      /\ t = "delivery_rejected" => Step[t][2] = "secured"
      /\ Step[t][1] = "secured" => t = "delivery_started"
  BY DEF Transition, Step, HashedPhase
<1>5. /\ p.phase \in HashedPhase <=> p.hash # None
      /\ p.rejected => p.phase = "secured"
      /\ \A n \in Settled(keys[a]) : p.generation > n
  BY <1>1, <1>2 DEF CheckBinding, PendingShape
<1>6. t = "created" => ~Names(keys[a], h)
  BY <1>1 DEF CanAdvanceKey, Owned, Owns
<1>7. DistinctRoles(next[a])
  BY <1>1, <1>2, <1>3, <1>6 DEF CheckBinding, DistinctRoles, Names
<1>8. DistinctGenerations(next[a]) /\ DeliveryRecord(next[a])
  BY <1>2, <1>3 DEF CheckBinding, DistinctGenerations, DeliveryRecord
<1>9. PendingShape(next[a])
  <2>1. q.phase \in HashedPhase <=> q.hash # None
    BY <1>1, <1>3, <1>4, <1>5, NoneAssumption
  <2>2. q.rejected => q.phase = "secured"
    <3>1. CASE p.rejected
      BY <3>1, <1>1, <1>4, <1>5 DEF CanAdvanceKey
    <3>2. CASE ~p.rejected
      BY <3>2, <1>3, <1>4
    <3> QED BY <3>1, <3>2
  <2>3. \A n \in Settled(next[a]) : q.generation > n
    BY <1>3, <1>5 DEF Settled
  <2> QED BY <2>1, <2>2, <2>3 DEF PendingShape
<1>10. \A i \in Hash : Names(next[a], i) =>
         Names(keys[a], i) \/ (t = "created" /\ i = h)
  BY <1>1, <1>3 DEF Names
<1>11. \A i \in Hash : Names(next[a], i) =>
         \A c \in Address \ {a} : ~Owns(keys, c, i)
  BY <1>1, <1>10, NamesKept DEF CanAdvanceKey, Owned
<1>12. \A c \in Address \ {a} : ~IsPending(keys, c)
  BY <1>1, PendingAlone
<1>13. Consistent(next)
  BY <1>3, <1>7, <1>8, <1>9, <1>11, <1>12, ChangedConsistent
     DEF CheckBinding
<1> QED BY <1>13 DEF next

(* State::abandon_create, State::clear_ambiguous_create: no key was made.  *)
LEMMA DropPendingConsistent ==
  ASSUME NEW keys, Consistent(keys), NEW a \in Address, IsPending(keys, a)
  PROVE  Consistent(DropPending(keys, a))
<1> DEFINE next == DropPending(keys, a)
<1>1. Bound(keys, a) /\ keys \in Keys /\ CheckBinding(keys[a])
  BY BoundWellFormed DEF IsPending
<1>2. /\ Changed(next, keys, a)
      /\ next[a].origin = keys[a].origin
      /\ next[a].current = keys[a].current
      /\ next[a].pending = None
      /\ next[a].retained = keys[a].retained
  BY <1>1, DropPendingFields
<1> HIDE DEF next
<1>3. CheckBinding(next[a])
  BY <1>1, <1>2 DEF CheckBinding, DistinctRoles, DistinctGenerations,
       DeliveryRecord, PendingShape
<1>4. \A h \in Hash : Names(next[a], h) => Names(keys[a], h)
  BY <1>2 DEF Names
<1>5. Consistent(next)
  BY <1>1, <1>2, <1>3, <1>4, ChangedConsistent, NamesKept
<1> QED BY <1>5 DEF next

(* State::retain_leaked_candidate and State::retire_candidate: the key of  *)
(* the operation, recorded or attested, joins the retained ones.           *)
LEMMA RetainConsistent ==
  ASSUME NEW keys, Consistent(keys), NEW a \in Address, IsPending(keys, a),
         NEW h \in Hash,
         keys[a].pending.hash = h \/ ~Owned(keys, h)
  PROVE  Consistent(RetainPending(keys, a, h))
<1> DEFINE next == RetainPending(keys, a, h)
           p == keys[a].pending
           old == RetainedAs(h, p.generation, "failed_candidate")
<1>1. Bound(keys, a) /\ p # None /\ keys \in Keys /\ CheckBinding(keys[a])
  BY BoundWellFormed DEF IsPending
<1>2. /\ Changed(next, keys, a)
      /\ next[a].origin = keys[a].origin
      /\ next[a].current = keys[a].current
      /\ next[a].pending = None
      /\ next[a].retained = keys[a].retained \cup {old}
      /\ old.hash = h /\ old.generation = p.generation
  BY <1>1, RetainFields
<1> HIDE DEF next, old
<1>3. /\ \A r \in keys[a].retained : r.hash # h
      /\ keys[a].current # None => keys[a].current.hash # h
  <2>1. CASE p.hash = h
    BY <2>1, <1>1 DEF CheckBinding, DistinctRoles
  <2>2. CASE ~Owned(keys, h)
    BY <2>2, <1>1 DEF Owned, Owns, Names
  <2> QED BY <2>1, <2>2
<1>4. /\ \A r \in keys[a].retained : r.generation # p.generation
      /\ keys[a].current # None => keys[a].current.generation # p.generation
  <2>1. \A n \in Settled(keys[a]) : n # p.generation
    BY <1>1, SettledBelow
  <2> QED BY <2>1 DEF Settled
<1>5. DistinctRoles(next[a])
  BY <1>1, <1>2, <1>3 DEF CheckBinding, DistinctRoles
<1>6. DistinctGenerations(next[a])
  BY <1>1, <1>2, <1>4 DEF CheckBinding, DistinctGenerations
<1>7. DeliveryRecord(next[a]) /\ PendingShape(next[a])
  BY <1>1, <1>2 DEF CheckBinding, DeliveryRecord, PendingShape
<1>8. \A i \in Hash : Names(next[a], i) => Names(keys[a], i) \/ i = h
  BY <1>2 DEF Names
<1>9. \A i \in Hash : Names(next[a], i) =>
        \A c \in Address \ {a} : ~Owns(keys, c, i)
  <2>1. Names(keys[a], h) \/ ~Owned(keys, h)
    BY <1>1 DEF Names
  <2> QED BY <2>1, <1>1, <1>8, NamesKept DEF Owned
<1>10. Consistent(next)
  BY <1>2, <1>5, <1>6, <1>7, <1>9, ChangedConsistent DEF CheckBinding
<1> QED BY <1>10 DEF next

(* State::promote_key: the delivered key becomes current, its predecessor  *)
(* a retained one.                                                         *)
LEMMA PromoteConsistent ==
  ASSUME NEW keys, Consistent(keys), NEW a \in Address,
         CanPromoteKey(keys, a)
  PROVE  Consistent(PromoteKey(keys, a))
<1> DEFINE next == PromoteKey(keys, a)
           p == keys[a].pending
           c == keys[a].current
           old == RetainedAs(c.hash, c.generation, "awaiting_retirement")
<1>1. /\ IsPending(keys, a) /\ Bound(keys, a) /\ p # None
      /\ PendingIn(keys, a, HashedPhase)
  BY DEF CanPromoteKey, PendingIn, IsPending, HashedPhase
<1>2. keys \in Keys /\ CheckBinding(keys[a]) /\ p.hash \in Hash
  BY <1>1, BoundWellFormed, PendingHash
<1>3. /\ Changed(next, keys, a)
      /\ next[a].origin = CreatedOrigin
      /\ next[a].current # None
      /\ next[a].current.hash = p.hash
      /\ next[a].current.generation = p.generation
      /\ next[a].current.receiver # None
      /\ next[a].pending = None
      /\ next[a].retained =
           keys[a].retained \cup (IF c = None THEN {} ELSE {old})
      /\ c # None => old.hash = c.hash /\ old.generation = c.generation
  BY <1>1, <1>2, PromoteFields
<1> HIDE DEF next, old
<1>4. /\ \A r \in keys[a].retained : r.generation # p.generation
      /\ c # None => c.generation # p.generation
  <2>1. \A n \in Settled(keys[a]) : n # p.generation
    BY <1>1, SettledBelow
  <2> QED BY <2>1 DEF Settled
<1>5. DistinctRoles(next[a])
  BY <1>1, <1>2, <1>3 DEF CheckBinding, DistinctRoles
<1>6. DistinctGenerations(next[a])
  BY <1>2, <1>3, <1>4 DEF CheckBinding, DistinctGenerations
<1>7. DeliveryRecord(next[a]) /\ PendingShape(next[a])
  BY <1>3 DEF DeliveryRecord, PendingShape
<1>8. \A i \in Hash : Names(next[a], i) => Names(keys[a], i)
  BY <1>1, <1>3 DEF Names
<1>9. Consistent(next)
  BY <1>1, <1>3, <1>5, <1>6, <1>7, <1>8, ChangedConsistent, NamesKept
     DEF CheckBinding
<1> QED BY <1>9 DEF next

(* State::decommission_current: the current key becomes a retained one.    *)
LEMMA DecommissionConsistent ==
  ASSUME NEW keys, Consistent(keys), NEW a \in Address, NEW h,
         NEW status \in RetainedStatus, CanDecommission(keys, a, h)
  PROVE  Consistent(Decommission(keys, a, status))
<1> DEFINE next == Decommission(keys, a, status)
           c == keys[a].current
           old == RetainedAs(c.hash, c.generation, status)
<1>1. /\ Bound(keys, a) /\ c # None /\ keys[a].pending = None
      /\ keys \in Keys /\ CheckBinding(keys[a])
  BY BoundWellFormed DEF CanDecommission
<1>2. /\ Changed(next, keys, a)
      /\ next[a].origin = keys[a].origin
      /\ next[a].current = None
      /\ next[a].pending = None
      /\ next[a].retained = keys[a].retained \cup {old}
      /\ old.hash = c.hash /\ old.generation = c.generation
  BY <1>1, DecommissionFields
<1> HIDE DEF next, old
<1>3. DistinctRoles(next[a]) /\ DistinctGenerations(next[a])
  BY <1>1, <1>2 DEF CheckBinding, DistinctRoles, DistinctGenerations
<1>4. DeliveryRecord(next[a]) /\ PendingShape(next[a])
  BY <1>2 DEF DeliveryRecord, PendingShape
<1>5. \A i \in Hash : Names(next[a], i) => Names(keys[a], i)
  BY <1>1, <1>2 DEF Names
<1>6. Consistent(next)
  BY <1>1, <1>2, <1>3, <1>4, <1>5, ChangedConsistent, NamesKept
     DEF CheckBinding
<1> QED BY <1>6 DEF next

(* State::drop_retained *)
LEMMA DropConsistent ==
  ASSUME NEW keys, Consistent(keys), NEW a \in Address, NEW r,
         CanDropRetained(keys, a, r)
  PROVE  Consistent(DropRetained(keys, a, r))
<1> DEFINE next == DropRetained(keys, a, r)
<1>1. Bound(keys, a) /\ keys \in Keys /\ CheckBinding(keys[a])
  BY BoundWellFormed DEF CanDropRetained
<1>2. /\ Changed(next, keys, a)
      /\ next[a].origin = keys[a].origin
      /\ next[a].current = keys[a].current
      /\ next[a].pending = keys[a].pending
      /\ next[a].retained = keys[a].retained \ {r}
  BY <1>1, DropFields
<1> HIDE DEF next
<1>3. DistinctRoles(next[a]) /\ DistinctGenerations(next[a])
  BY <1>1, <1>2 DEF CheckBinding, DistinctRoles, DistinctGenerations
<1>4. DeliveryRecord(next[a]) /\ PendingShape(next[a])
  BY <1>1, <1>2 DEF CheckBinding, DeliveryRecord, PendingShape, Settled
<1>5. \A i \in Hash : Names(next[a], i) => Names(keys[a], i)
  BY <1>2 DEF Names
<1>6. next[a].pending # None => \A c \in Address \ {a} : ~IsPending(keys, c)
  BY <1>1, <1>2, PendingAlone DEF IsPending
<1>7. Consistent(next)
  BY <1>1, <1>2, <1>3, <1>4, <1>5, <1>6, ChangedConsistent, NamesKept
     DEF CheckBinding
<1> QED BY <1>7 DEF next

(* State::set_retained_status *)
LEMMA StatusConsistent ==
  ASSUME NEW keys, Consistent(keys), NEW a \in Address, NEW r,
         NEW status \in RetainedStatus, CanDropRetained(keys, a, r)
  PROVE  Consistent(SetRetainedStatus(keys, a, r, status))
<1> DEFINE next == SetRetainedStatus(keys, a, r, status)
           new == [r EXCEPT !.status = status]
<1>1. /\ Bound(keys, a) /\ keys \in Keys /\ CheckBinding(keys[a])
      /\ r \in keys[a].retained
  BY BoundWellFormed DEF CanDropRetained
<1>2. /\ Changed(next, keys, a)
      /\ next[a].origin = keys[a].origin
      /\ next[a].current = keys[a].current
      /\ next[a].pending = keys[a].pending
      /\ next[a].retained = (keys[a].retained \ {r}) \cup {new}
      /\ new.hash = r.hash /\ new.generation = r.generation
  BY <1>1, StatusFields
<1> HIDE DEF next, new
<1>3. DistinctRoles(next[a]) /\ DistinctGenerations(next[a])
  BY <1>1, <1>2 DEF CheckBinding, DistinctRoles, DistinctGenerations
<1>4. DeliveryRecord(next[a]) /\ PendingShape(next[a])
  BY <1>1, <1>2 DEF CheckBinding, DeliveryRecord, PendingShape, Settled
<1>5. \A i \in Hash : Names(next[a], i) => Names(keys[a], i)
  BY <1>1, <1>2 DEF Names
<1>6. next[a].pending # None => \A c \in Address \ {a} : ~IsPending(keys, c)
  BY <1>1, <1>2, PendingAlone DEF IsPending
<1>7. Consistent(next)
  BY <1>1, <1>2, <1>3, <1>4, <1>5, <1>6, ChangedConsistent, NamesKept
     DEF CheckBinding
<1> QED BY <1>7 DEF next

(* State::forget_key *)
LEMMA ForgetConsistent ==
  ASSUME NEW keys, Consistent(keys), NEW a \in Address
  PROVE  Consistent(ForgetKey(keys, a))
<1> DEFINE new == ForgetKey(keys, a)
<1>1. /\ new \in Keys /\ ~Bound(new, a)
      /\ \A c \in Address \ {a} : new[c] = keys[c]
  BY DEF Consistent, ForgetKey, Put, Keys, Bound
<1> HIDE DEF new
<1>2. OneOperation(new)
  BY <1>1 DEF Consistent, CheckInvariants, OneOperation, IsPending, Bound
<1>3. DistinctHashes(new)
  BY <1>1 DEF Consistent, CheckInvariants, DistinctHashes, Owns, Bound
<1>4. \A c \in Address : Bound(new, c) => CheckBinding(new[c])
  BY <1>1 DEF Consistent, CheckInvariants, Bound
<1> QED BY <1>1, <1>2, <1>3, <1>4 DEF Consistent, CheckInvariants, new

-----------------------------------------------------------------------------
(* next_generation (ops/issuance.rs)                                       *)

(* A set of bounded naturals has a largest member. *)
LEMMA Largest ==
  ASSUME NEW M \in Nat, NEW S \in SUBSET (0 .. M), S # {}
  PROVE  \E n \in S : \A m \in S : n >= m
<1> DEFINE R == {p \in Nat \X Nat : p[1] < p[2]}
           T == {M - n : n \in S}
<1>1. IsWellFoundedOn(R, Nat)
  BY NatLessThanWellFounded DEF OpToRel
<1>2. T \subseteq Nat /\ T # {}
  <2>1. \A n \in 0 .. M : M - n \in Nat
    OBVIOUS
  <2>2. T \subseteq Nat
    BY <2>1
  <2> QED BY <2>2
<1> HIDE DEF R
<1>3. PICK x \in T : \A y \in T : <<y, x>> \notin R
  BY <1>1, <1>2, WFMin
<1>4. PICK n \in S : x = M - n
  BY <1>3
<1>5. ASSUME NEW m \in S PROVE n >= m
  <2>1. M - m \in Nat /\ M - n \in Nat /\ M - m \in T
    OBVIOUS
  <2>2. <<M - m, M - n>> \notin R
    BY <1>3, <1>4, <2>1
  <2>3. ~(M - m < M - n)
    BY <2>1, <2>2 DEF R
  <2> QED BY <2>3
<1> QED BY <1>5

(* The next generation exists as a u32 or is refused, and is above every   *)
(* number the address has on record.                                       *)
LEMMA NextGenerationUnspent ==
  ASSUME NEW keys \in Keys, NEW a \in Address, NEW desired \in Generation,
         NextGeneration(keys, a, desired) # None
  PROVE  LET g == NextGeneration(keys, a, desired)
         IN g \in Generation /\ Unspent(keys, a, g)
<1> DEFINE R == Recorded(keys, a)
           top == HighestGeneration(keys, a)
<1>1. R \in SUBSET (0 .. MaxGeneration) /\ R # {}
  <2>1. CASE ~Bound(keys, a)
    BY <2>1, MaxGenerationAssumption DEF Recorded
  <2>2. CASE Bound(keys, a)
    <3>1. keys[a] \in KeyBinding
      BY <2>2 DEF Keys, Bound
    <3>2. Settled(keys[a]) \subseteq 0 .. MaxGeneration
      BY <3>1 DEF Settled, KeyBinding, RetainedKey, CurrentKey, Generation
    <3>3. keys[a].generation_floor \in 0 .. MaxGeneration
      BY <3>1 DEF KeyBinding
    <3>4. keys[a].pending # None =>
            keys[a].pending.generation \in 0 .. MaxGeneration
      BY <3>1 DEF KeyBinding, PendingOperation, Generation
    <3> QED BY <2>2, <3>2, <3>3, <3>4 DEF Recorded
  <2> QED BY <2>1, <2>2
<1>2. \E n \in R : \A m \in R : n >= m
  BY <1>1, Largest, MaxGenerationAssumption
<1>3. top \in 0 .. MaxGeneration /\ \A m \in R : top >= m
  BY <1>1, <1>2 DEF HighestGeneration
<1> HIDE DEF top
<1>4. NextGeneration(keys, a, desired) =
        IF top + 1 > MaxGeneration THEN None
        ELSE IF desired > top + 1 THEN desired ELSE top + 1
  BY DEF NextGeneration, top
<1>5. ~(top + 1 > MaxGeneration)
  BY <1>4
<1> DEFINE g == NextGeneration(keys, a, desired)
<1>6. g \in Generation /\ g > top
  BY <1>3, <1>4, <1>5, MaxGenerationAssumption DEF Generation
<1> HIDE DEF g
<1>7. \A m \in R : m \in Int
  BY <1>1, MaxGenerationAssumption
<1>8. \A m \in R : g > m
  BY <1>3, <1>6, <1>7 DEF Generation
<1> QED BY <1>6, <1>8 DEF Unspent, g

=============================================================================
