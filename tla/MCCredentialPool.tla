-------------------------- MODULE MCCredentialPool --------------------------
(***************************************************************************)
(* Instances of CredentialPool.  In MixedCapable only some credentials     *)
(* have the optional methods, and none can generate images.                *)
(***************************************************************************)
EXTENDS CredentialPool, TLC

MixedCapable ==
    [m \in AllMethods |->
        CASE m = "chat" -> Creds
          [] m = "passthrough" -> Creds \ {1}
          [] OTHER -> {}]

HintOrNone == {0, 2}
Symmetry == Permutations(Callers)
=============================================================================
