------------------------------ MODULE KeyState ------------------------------
(***************************************************************************)
(* The state API over the key section of the ledger: any legal sequence of *)
(* the mutations State offers (crates/core/src/state/mod.rs), each as one  *)
(* action with the arguments any caller could pass.  A refused mutation    *)
(* leaves the ledger alone, so it is no step.                              *)
(***************************************************************************)
EXTENDS KeyLedger

VARIABLES
  keys,      (* State::keys                                                *)
  named,     (* history: every (address, generation, hash) recorded since  *)
             (* the address was last released by `state forget`            *)
  handed     (* history: hashes whose delivery has been started            *)

vars == <<keys, named, handed>>

(* A binding records that generation g is the key h. *)
Records(b, g, h) ==
  \/ b.current # None /\ b.current.generation = g /\ b.current.hash = h
  \/ b.pending # None /\ b.pending.generation = g /\ b.pending.hash = h
  \/ \E r \in b.retained : r.generation = g /\ r.hash = h

(* The (address, generation, hash) triples a ledger records. *)
RecordedNames(k) ==
  {t \in Address \X Generation \X Hash :
     Bound(k, t[1]) /\ Records(k[t[1]], t[2], t[3])}

Init ==
  /\ keys = NoKeys
  /\ named = {}
  /\ handed = {}

(* The step every mutation takes: the ledger moves, the history follows. *)
Become(next) ==
  /\ keys' = next
  /\ named' = named \cup RecordedNames(next)

ImportKey(a, h, g) ==
  /\ CanBindKey(keys, a, h, g)
  /\ Become(BindKey(keys, a, h, g))
  /\ UNCHANGED handed

StartCreate(a, desired, r, id) ==
  /\ NextGeneration(keys, a, desired) # None
  /\ LET g == NextGeneration(keys, a, desired)
     IN /\ CanBeginCreate(keys, a, g)
        /\ Become(BeginCreate(keys, a, g, r, id))
  /\ UNCHANGED handed

(* OpenRouter issues an identity once, so the hash of a created key is     *)
(* none that was handed to a receiver before.                              *)
Advance(a, t, h) ==
  /\ CanAdvanceKey(keys, a, t, h)
  /\ t = "created" => h \notin handed
  /\ Become(AdvanceKey(keys, a, t, h))
  /\ handed' = IF t = "delivery_started"
               THEN handed \cup {keys[a].pending.hash} ELSE handed

AbandonCreate(a) ==
  /\ CanAbandonCreate(keys, a)
  /\ Become(DropPending(keys, a))
  /\ UNCHANGED handed

AttestAbsence(a) ==
  /\ CanClearAmbiguous(keys, a)
  /\ Become(DropPending(keys, a))
  /\ UNCHANGED handed

AttestLeak(a, h) ==
  /\ CanRetainLeaked(keys, a, h)
  /\ Become(RetainPending(keys, a, h))
  /\ UNCHANGED handed

RetireFailed(a) ==
  /\ CanRetireCandidate(keys, a)
  /\ Become(RetireCandidate(keys, a))
  /\ UNCHANGED handed

Promote(a) ==
  /\ CanPromoteKey(keys, a)
  /\ Become(PromoteKey(keys, a))
  /\ UNCHANGED handed

DecommissionCurrent(a, h, status) ==
  /\ CanDecommission(keys, a, h)
  /\ Become(Decommission(keys, a, status))
  /\ UNCHANGED handed

ReleaseRetained(a, r) ==
  /\ CanDropRetained(keys, a, r)
  /\ Become(DropRetained(keys, a, r))
  /\ UNCHANGED handed

RecordStatus(a, r, status) ==
  /\ CanDropRetained(keys, a, r)
  /\ Become(SetRetainedStatus(keys, a, r, status))
  /\ UNCHANGED handed

Forget(a) ==
  /\ CanForgetKey(keys, a)
  /\ keys' = ForgetKey(keys, a)
  /\ named' = {t \in named : t[1] # a}
  /\ UNCHANGED handed

(* The mutations that say what became of a remote key. *)
Settle(a) ==
  \/ AbandonCreate(a)
  \/ AttestAbsence(a)
  \/ RetireFailed(a)
  \/ Promote(a)
  \/ \E h \in Hash : AttestLeak(a, h)
  \/ \E h \in Hash : DecommissionCurrent(a, h, "retired")
  \/ \E r \in RetainedKey : ReleaseRetained(a, r)
  \/ \E r \in RetainedKey, status \in {"retired", "retirement_failed"} :
       RecordStatus(a, r, status)
  \/ Forget(a)

Next ==
  \E a \in Address :
    \/ \E h \in Hash, g \in Generation : ImportKey(a, h, g)
    \/ \E g \in Generation, r \in Receiver, id \in OpId :
         StartCreate(a, g, r, id)
    \/ \E t \in Transition, h \in Hash : Advance(a, t, h)
    \/ Settle(a)

Spec == Init /\ [][Next]_vars

-----------------------------------------------------------------------------
TypeOK ==
  /\ keys \in Keys
  /\ named \subseteq Address \X Generation \X Hash
  /\ handed \subseteq Hash

(* The checks StateLock::write and the reader make on a ledger             *)
(* (check_invariants) hold after every sequence of mutations that were not *)
(* refused: no sequence of legal calls makes the file unwritable, and the  *)
(* unreachable branches of retire_candidate and promote_key stay so.       *)
LedgerConsistent == CheckInvariants(keys)

(* A generation names one remote key at an address, across drops,          *)
(* attestations, failed attempts and re-imports, until `state forget`      *)
(* relinquishes the address's whole record.                                *)
GenerationNamesOneKey ==
  \A s, t \in named : s[1] = t[1] /\ s[2] = t[2] => s[3] = t[3]

(* At-most-once delivery: once an operation's delivery has been started,   *)
(* no sequence of later mutations starts a delivery of the same key, after *)
(* a refusal or an attestation either.                                     *)
DeliveryStartsOnce ==
  [][\A a \in Address :
       PendingIn(keys', a, {"delivery_started"}) =>
         \/ PendingIn(keys, a, {"delivery_started"})
         \/ keys'[a].pending.hash \notin handed]_vars

(* A hash an address has retained (a predecessor, a failed candidate) is   *)
(* never current or in an operation again while it stays in the ledger: no *)
(* import and no attestation brings a superseded key back.                 *)
RetainedNeverReturns ==
  [][\A a \in Address : Bound(keys, a) => \A r \in keys[a].retained :
       \A b \in Address :
         /\ Bound(keys', b) /\ keys'[b].current # None
              => keys'[b].current.hash # r.hash
         /\ IsPending(keys', b) => keys'[b].pending.hash # r.hash]_vars
=============================================================================
