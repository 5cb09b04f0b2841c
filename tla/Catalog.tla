------------------------------ MODULE Catalog ------------------------------
(***************************************************************************)
(* The routing configuration, fixed once a Router is built (router.New):   *)
(* which deployments a logical model has, its fallback models, and which   *)
(* deployments have the method an endpoint needs.                          *)
(***************************************************************************)
EXTENDS Integers, Sequences

CONSTANTS
    Models,       \* logical model names, configured or merely asked for
    Deps,         \* deployment names
    Deployments,  \* Deployments[m]: the deployments configured under m
    Fallbacks,    \* the fallback map: ordered fallback models of some models
    Capable       \* Capable[mode]: deployments whose provider has the method

Modes == {"complete", "stream", "passthrough", "embed", "image"}

ASSUME CatalogAssumption ==
    /\ Models # {}
    /\ Deps # {}
    /\ Deployments \in [Models -> SUBSET Deps]
    /\ DOMAIN Fallbacks \subseteq Models
    /\ Fallbacks \in [DOMAIN Fallbacks -> Seq(Models)]
    /\ Capable \in [Modes -> SUBSET Deps]

\* One logical model's view of one deployment: cooldowns and meter use it.
DepKeys == Models \X Deps

\* Embed and GenerateImage neither follow fallbacks nor use cooldowns.
Walks(mode) == mode \in {"complete", "stream", "passthrough"}

\* The deployments a frame's loop does not skip for lack of the method.
Candidates(m, mode) == Deployments[m] \cap Capable[mode]

FallbacksOf(m, mode) ==
    IF Walks(mode) /\ m \in DOMAIN Fallbacks THEN Fallbacks[m] ELSE <<>>

\* No deployments and, on a walking endpoint, no entry in the fallback map.
Unconfigured(m, mode) ==
    /\ Deployments[m] = {}
    /\ Walks(mode) => m \notin DOMAIN Fallbacks

-----------------------------------------------------------------------------
(***************************************************************************)
(* What a request may use: the models reachable from its entry model along *)
(* fallbacks that are not blocked, and the candidates among their          *)
(* deployments.  Reachable is the least set closed under the fallback map. *)
(***************************************************************************)
Query == [mode : Modes, entry : Models, blocked : SUBSET Models]

Closed(S, q) ==
    \A m \in S :
        LET fbs == FallbacksOf(m, q.mode)
        IN  \A i \in DOMAIN fbs : fbs[i] \in S \cup q.blocked

Reachable(q) ==
    LET closed == {S \in SUBSET Models : q.entry \in S /\ Closed(S, q)}
    IN  {m \in Models : \A S \in closed : m \in S}

Offered(q) ==
    LET reachable == Reachable(q)
    IN  {k \in DepKeys :
            k[1] \in reachable /\ k[2] \in Candidates(k[1], q.mode)}
=============================================================================
