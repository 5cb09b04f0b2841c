------------------------------ MODULE Dispatch ------------------------------
(***************************************************************************)
(* What routing promises a client, without saying how the deployments are  *)
(* walked: a request tries deployments it may use, each at most once,      *)
(* passes over others, and is answered by one of them, rejected in the     *)
(* name of one of them, or given up when none is left.                     *)
(***************************************************************************)
EXTENDS Catalog

CONSTANT Requests

VARIABLES
    query,    \* query[r]: what r asks for
    status,   \* status[r]: how far r is
    current,  \* current[r]: the deployment that works on r, <<>> if none
    tried,    \* tried[r]: deployments r was sent to
    passed,   \* passed[r]: deployments r was not sent to
    result    \* result[r]: the answer and the deployment it is due to

vars == <<query, status, current, tried, passed, result>>

Pending == [kind |-> "none", key |-> <<>>]

TypeOK ==
    /\ query \in [Requests -> Query]
    /\ status \in [Requests -> {"idle", "open", "closed"}]
    /\ current \in [Requests -> DepKeys \cup {<<>>}]
    /\ tried \in [Requests -> SUBSET DepKeys]
    /\ passed \in [Requests -> SUBSET DepKeys]

Init ==
    /\ query \in [Requests -> Query]
    /\ status = [r \in Requests |-> "idle"]
    /\ current = [r \in Requests |-> <<>>]
    /\ tried = [r \in Requests |-> {}]
    /\ passed = [r \in Requests |-> {}]
    /\ result = [r \in Requests |-> Pending]

Open(r) ==
    /\ status[r] = "idle"
    /\ status' = [status EXCEPT ![r] = "open"]
    /\ query'[r] \in Query
    /\ query'[r].entry \notin query'[r].blocked
    /\ query' = [query EXCEPT ![r] = query'[r]]
    /\ UNCHANGED <<current, tried, passed, result>>

Fresh(r) == Offered(query[r]) \ (tried[r] \cup passed[r])

PassOver(r) ==
    /\ status[r] = "open" /\ current[r] = <<>>
    /\ UNCHANGED <<query, status, current, tried, result>>
    /\ \E k \in DepKeys :
         /\ passed' = [passed EXCEPT ![r] = @ \cup {k}]
         /\ k \in Fresh(r)

Try(r) ==
    /\ status[r] = "open" /\ current[r] = <<>>
    /\ UNCHANGED <<query, status, passed, result>>
    /\ \E k \in DepKeys :
         /\ current' = [current EXCEPT ![r] = k]
         /\ tried' = [tried EXCEPT ![r] = @ \cup {k}]
         /\ k \in Fresh(r)

Resume(r) ==
    /\ current[r] # <<>>
    /\ current' = [current EXCEPT ![r] = <<>>]
    /\ UNCHANGED <<query, status, tried, passed, result>>

\* Served by, or rejected by, the deployment at work.
Conclude(r) ==
    /\ current[r] # <<>>
    /\ \E kind \in {"served", "terminal"} :
         result' = [result EXCEPT ![r] = [kind |-> kind, key |-> current[r]]]
    /\ status' = [status EXCEPT ![r] = "closed"]
    /\ current' = [current EXCEPT ![r] = <<>>]
    /\ UNCHANGED <<query, tried, passed>>

(***************************************************************************)
(* When a request is given up, and how.  A chat request with anything on   *)
(* offer is told to come back later, a 429; the flat 500 and the 404 are   *)
(* for requests with nothing on offer.  An endpoint that needs a method    *)
(* may refuse for the lack of it.                                          *)
(***************************************************************************)
MayGiveUp(r, kind) ==
    LET q == query[r]
    IN  CASE kind = "invalid_request" ->
               /\ q.mode \in {"passthrough", "image"}
               /\ \E m \in Reachable(q) : Candidates(m, q.mode) = {}
          [] kind = "rate_limit" -> Fresh(r) = {} /\ Offered(q) # {}
          [] kind \in {"all_failed", "no_deployment"} ->
               /\ Fresh(r) = {}
               /\ q.mode \in {"complete", "stream"} => Offered(q) = {}

GiveUp(r) ==
    /\ status[r] = "open" /\ current[r] = <<>>
    /\ \E kind \in {"rate_limit", "all_failed", "no_deployment",
                    "invalid_request"} :
         /\ result' = [result EXCEPT ![r] = [kind |-> kind, key |-> <<>>]]
         /\ MayGiveUp(r, kind)
    /\ status' = [status EXCEPT ![r] = "closed"]
    /\ UNCHANGED <<query, current, tried, passed>>

Next ==
    \E r \in Requests :
        \/ Open(r) \/ PassOver(r) \/ Try(r) \/ Resume(r)
        \/ Conclude(r) \/ GiveUp(r)

Spec == Init /\ [][Next]_vars
=============================================================================
