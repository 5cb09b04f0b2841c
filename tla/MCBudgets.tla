----------------------------- MODULE MCBudgets -----------------------------
(***************************************************************************)
(* An instance of Budgets: a capped key, a key that may not use the model, *)
(* and the master token, which only the cap of the organisation limits.    *)
(***************************************************************************)
EXTENDS Budgets, TLC

CONSTANTS key, outsider, master, small

Tokens == {key, outsider, master}
ChatAndStream == {"chat", "stream"}
OneModel == {small}
Allowlists == [c \in Callers |-> IF c = outsider THEN {} ELSE {small}]
CapOfKey == [c \in Callers |-> IF c = key THEN 1 ELSE 0]
WindowOfKey == [c \in Callers |-> IF c = key THEN 2 ELSE 0]
Symmetry == Permutations(Requests)
=============================================================================
