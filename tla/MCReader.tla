----------------------------- MODULE MCReader -----------------------------
(* Reader for TLC: a default workspace with three keys, another one with     *)
(* two keys, a guardrail and a destination, one assignment.                  *)
EXTENDS Reader

CONSTANTS w0, w1, k1, k2, k3, k4, k5, g1, a1, d1, n1, n2

MCWorkspace == {w0, w1}
MCFresh == <<n1, n2>>
MCStart == [c \in Collection |->
    CASE c = <<"workspaces", None>> -> <<w0, w1>>
      [] c = <<"keys", w0>>         -> <<k1, k2, k3>>
      [] c = <<"keys", w1>>         -> <<k4, k5>>
      [] c = <<"guardrails", w1>>   -> <<g1>>
      [] c = <<"assignments", None>> -> <<a1>>
      [] c = <<"destinations", w1>> -> <<d1>>
      [] OTHER                      -> <<>>]
MCChanging == {<<"workspaces", None>>, <<"keys", w0>>, <<"keys", w1>>, <<"destinations", w1>>}
=============================================================================
