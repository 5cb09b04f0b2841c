------------------------------ MODULE MCRouter ------------------------------
(***************************************************************************)
(* Instances of Router.  The fallback map has a cycle (chat, backup), a    *)
(* model reached on two paths (spare), and a name with neither deployments *)
(* nor fallbacks.  One deployment, pooled, serves two models.              *)
(***************************************************************************)
EXTENDS Router, TLC

CONSTANTS chat, backup, spare, unknown, direct, pooled

MCModels == {chat, backup, spare, unknown}
SmallModels == {chat, backup, spare}
MCDeps == {direct, pooled}

MCDeployments ==
    chat :> {direct, pooled} @@ backup :> {} @@ spare :> {pooled}
      @@ unknown :> {}

SmallDeployments ==
    chat :> {direct} @@ backup :> {} @@ spare :> {pooled}

MCFallbacks == chat :> <<unknown, backup>> @@ backup :> <<chat, spare>>
SmallFallbacks == chat :> <<backup>> @@ backup :> <<chat, spare>>

\* Every provider has the chat methods; only some have the other two.
MCCapable ==
    [mode \in Modes |->
        IF mode \in {"passthrough", "image"} THEN {direct} ELSE MCDeps]

NoCaps == [k \in {} |-> 0]
ChatCap == <<chat, direct>> :> 1

ChatOnly == {"complete"}
PassthroughOnly == {"passthrough"}
OtherModes == Modes \ ChatOnly

NothingBlocked == {{}}
SpareBlocked == {{}, {spare}}

\* The other deployment may hang.
DirectOnly == {direct}

NoHint == {0}
LongHint == {0, 2}
OneCount == {1}

Symmetry == Permutations(Requests)
=============================================================================
