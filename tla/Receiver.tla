------------------------------ MODULE Receiver ------------------------------
(***************************************************************************)
(* What the three receivers have in common (crates/core/src/receiver/      *)
(* mod.rs): `receive` is called once and returns one Outcome, of which the *)
(* acknowledgement is kept.  The process may be killed at any point of it, *)
(* and then there is no answer.                                            *)
(***************************************************************************)
EXTENDS Naturals

CONSTANT None

VARIABLES
  kind,       (* the receiver the configuration names                      *)
  pc,         (* where the delivery is                                     *)
  answer,     (* the acknowledgement, None until there is one              *)
  committed   (* an adapter, or the host, has stored the key               *)

delivery == <<kind, pc, answer, committed>>

Kind == {"file", "command", "caller"}
Acknowledgement == {"delivered", "rejected", "ambiguous"}

ASSUME NoneAssumption == None \notin Acknowledgement

(* from_config, and the first step of each receiver. *)
First == [file |-> "resolve", command |-> "spawn", caller |-> "call"]

At(label) == pc = label
Goto(label) == pc' = label /\ UNCHANGED answer
Answer(a) == pc' = "done" /\ answer' = a

Alive == pc # "dead"
Returned == pc \in {"done", "dead"}

(* The process is killed.  After it has answered that still ends the       *)
(* threads a command receiver may have left behind.                        *)
Die == Alive /\ Goto("dead") /\ UNCHANGED <<kind, committed>>
=============================================================================
