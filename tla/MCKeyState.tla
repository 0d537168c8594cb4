----------------------------- MODULE MCKeyState -----------------------------
(* KeyState for TLC: addresses and hashes are interchangeable, and no      *)
(* property of these runs is a liveness property, so symmetry is sound.    *)
EXTENDS KeyState, TLC

Symmetry == Permutations(Address) \cup Permutations(Hash)
=============================================================================
