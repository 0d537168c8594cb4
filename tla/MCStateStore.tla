---------------------------- MODULE MCStateStore ----------------------------
(* StateStore for TLC; no symmetry, since one run checks liveness.         *)
EXTENDS StateStore
=============================================================================
