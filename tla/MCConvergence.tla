--------------------------- MODULE MCConvergence ---------------------------
(* Convergence with the values MCConvergence_*.cfg give its constants: one    *)
(* workspace "w", with a default guardrail "g", an ordinary one "r", a log    *)
(* destination "d" and a key "k", as far as each run has them.                *)
EXTENDS Convergence, TLC

CONSTANTS w, g, r, d, k, w1, w2, r1, r2, d1, d2, k1, k2, k3

MCNamed == [b \in Blocks |-> CASE b = w -> {w1, w2}
                              [] b = r -> {r1, r2}
                              [] b = d -> {d1, d2}
                              [] b = k -> {k1, k2, k3}
                              [] OTHER -> {}]

(* Fewer identities for the deepest run, and they are interchangeable.        *)
FewNamed == [b \in Blocks |-> MCNamed[b] \ {k3}]
IdSymmetry == UNION {Permutations(pair) : pair \in {{w1, w2}, {r1, r2}, {d1, d2}, {k1, k2}}}

DefaultIsG == [x \in Workspaces |-> g]
NoDefault == [x \in Workspaces |-> None]
AllInW == [b \in Blocks |-> IF b \in {w, g} THEN None ELSE w]
UnderG == [x \in Keys |-> g]
UnderR == [x \in Keys |-> r]
=============================================================================
