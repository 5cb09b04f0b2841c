----------------------------- MODULE MCOAuthStore -----------------------------
(* Instance of OAuthStore.                                                     *)
EXTENDS OAuthStore

MCClientOf == [p \in Callers |-> IF p = "probe" THEN "c2" ELSE "c1"]
===============================================================================
