---------------------------- MODULE MCKeymaster ----------------------------
(* Keymaster for TLC.  Hashes no key exists for yet, and operation         *)
(* identifiers, are interchangeable; the symmetry is used in runs that     *)
(* check no liveness property.                                             *)
EXTENDS Keymaster, TLC

Symmetry == Permutations(Hash \ Preexisting) \cup Permutations(OpId)
              \cup Permutations(Address)
=============================================================================
