----------------------------- MODULE AtomicFile -----------------------------
(***************************************************************************)
(* What the state file promises its readers                                *)
(* (crates/core/src/state/persist.rs, "Durability guarantee"): whole       *)
(* documents only, each derived from the one before it by one change and   *)
(* numbered one higher, and a power loss that can only go back to the last *)
(* document known to be durable.                                           *)
(***************************************************************************)
EXTENDS Naturals

CONSTANTS
  Change,     (* the changes a writer can make                             *)
  MaxSerial   (* the largest serial: u64::MAX, small for TLC               *)

VARIABLES
  visible,    (* the document a reader sees                                *)
  durable     (* the document that survives a power loss                   *)

vars == <<visible, durable>>

Document == [serial : 0 .. MaxSerial, changes : SUBSET Change]

Init ==
  /\ visible = [serial |-> 0, changes |-> {}]
  /\ durable = visible

Publish ==
  /\ \E c \in Change :
       visible' = [serial |-> visible.serial + 1,
                   changes |-> visible.changes \cup {c}]
  /\ visible'.serial <= MaxSerial
  /\ UNCHANGED durable

MakeDurable == durable' = visible /\ UNCHANGED visible

LosePower == visible' = durable /\ UNCHANGED durable

Next == Publish \/ MakeDurable \/ LosePower

Spec == Init /\ [][Next]_vars
=============================================================================
