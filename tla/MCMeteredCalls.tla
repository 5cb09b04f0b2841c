--------------------------- MODULE MCMeteredCalls ---------------------------
(***************************************************************************)
(* Instances of MeteredCalls: one key capped in requests and, where two    *)
(* keys are used, one capped in tokens, over two minutes of two ticks.     *)
(***************************************************************************)
EXTENDS MeteredCalls, TLC

CONSTANTS perRequest, perToken

MCRPM == perRequest :> 1
MCTPM == perToken :> 3

\* A negative total stands for a provider that reports nothing usable.
MCTokenCounts == {-1, 2}

CallerSymmetry == Permutations(Callers)
=============================================================================
