-------------------------- MODULE MCResponseCache --------------------------
(***************************************************************************)
(* Instances of ResponseCache.  The keys are not symmetric, because the    *)
(* idle callers carry one of them.                                         *)
(***************************************************************************)
EXTENDS ResponseCache, TLC

Symmetry == Permutations(Callers)
=============================================================================
