----------------------------- MODULE Inventory -----------------------------
(***************************************************************************)
(* The three tables that say which radios there are and which answer:      *)
(* provider_endpoints, managed_nodes and node_endpoints, and what          *)
(* inventory/service.py reads from and writes to them.  A radio is found   *)
(* by the identity it presents, which may be incomplete: a session whose   *)
(* configuration did not arrive in full still counts as connected.         *)
(***************************************************************************)
EXTENDS Naturals, FiniteSets

CONSTANTS
    Endpoints,             \* addresses, in the order of their hosts
    Stations,              \* the radios
    Slots,                 \* the rows managed_nodes may come to hold
    FailuresBeforeOffline  \* scheduler_reachability_failures_before_offline

ASSUME InventoryAssumption ==
    /\ Endpoints \subseteq Nat
    /\ Slots \subseteq Nat
    /\ FailuresBeforeOffline \in Nat

VARIABLES
    endpoint,  \* provider_endpoints: reachable, and the failures in meta_json
    nodes,     \* managed_nodes: provider_node_id and reachable
    links      \* node_endpoints: which node has which endpoint

inventoryVars == <<endpoint, nodes, links>>

\* A station presents its owner id, an alias (its number or short name) or
\* nothing, which is stored as "local-unknown".  Rows of earlier versions may
\* carry another id that starts with "local-".
Owner(s) == <<"owner", s>>
Alias(s) == <<"alias", s>>
Legacy(s) == <<"legacy", s>>
Unknown == <<"unknown", "">>
Absent == <<"absent", "">>

Ids == {Owner(s) : s \in Stations} \cup {Alias(s) : s \in Stations}
       \cup {Legacy(s) : s \in Stations} \cup {Unknown}

\* provider_node_id LIKE 'local-%'
LocalLike(id) == id[1] \in {"legacy", "unknown"}

Threshold == IF FailuresBeforeOffline = 0 THEN 1 ELSE FailuresBeforeOffline

\* The counter of failures is only ever compared with the threshold, so it
\* stays at the threshold once it is there.
Saturate(n) == IF n > Threshold THEN Threshold ELSE n

InventoryTypeOK ==
    /\ endpoint \in [Endpoints -> [known : BOOLEAN, reachable : BOOLEAN,
                                   failures : 0..Threshold]]
    /\ nodes \in [Slots -> [id : Ids \cup {Absent}, reachable : BOOLEAN]]
    /\ links \subseteq Slots \X Endpoints

Known == {e \in Endpoints : endpoint[e].known}
Reachable == {e \in Known : endpoint[e].reachable}
Rows == {n \in Slots : nodes[n].id # Absent}
EndpointsOf(n) == {e \in Endpoints : <<n, e>> \in links}
IdInUse(id) == \E n \in Slots : nodes[n].id = id
TakenByOther(id, n) == \E k \in Slots \ {n} : nodes[k].id = id

----------------------------------------------------------------------------
(* upsert_nodes, of the one node a session reports.                        *)

ByEndpoint_mutant(ids, e) ==  \* the join on the endpoint is missing
    {n \in Rows : nodes[n].id \in ids}

\* The rows with one of these ids and this endpoint.
ByEndpoint(ids, e) == {n \in Rows : nodes[n].id \in ids /\ <<n, e>> \in links}

Lookup_mutant(id, e) ==  \* placeholders are not upgraded
    IF IdInUse(id) THEN {n \in Rows : nodes[n].id = id} ELSE {}

\* The rows the SELECTs may return for a radio that presents id at e: the row
\* with this id, else a placeholder of this endpoint, "local-unknown" first.
Lookup(id, e) ==
    IF IdInUse(id) THEN {n \in Rows : nodes[n].id = id}
    ELSE IF id = Unknown THEN {}
    ELSE IF ByEndpoint({Unknown}, e) # {} THEN ByEndpoint({Unknown}, e)
    ELSE ByEndpoint({i \in Ids : LocalLike(i)}, e)

InsertNode_mutant(id, e) ==  \* the endpoint is only recorded for known nodes
    /\ ~IdInUse(id)
    /\ \E n \in Slots \ Rows :
          /\ \A k \in Slots \ Rows : n <= k
          /\ nodes' = [nodes EXCEPT ![n] = [id |-> id, reachable |-> TRUE]]
    /\ UNCHANGED <<endpoint, links>>

\* No row found: insert one, reachable, with its endpoint.  The unique
\* constraint on the id makes the commit fail if the id came into use.
InsertNode(id, e) ==
    /\ ~IdInUse(id)
    /\ \E n \in Slots \ Rows :
          /\ \A k \in Slots \ Rows : n <= k
          /\ nodes' = [nodes EXCEPT ![n] = [id |-> id, reachable |-> TRUE]]
          /\ links' = links \cup {<<n, e>>}
    /\ UNCHANGED endpoint

\* Row n found: a placeholder gets the id, the row becomes reachable and has
\* the endpoint.  The ORM writes reachable only if the row was read as not
\* reachable (was): otherwise a value committed since stays.
UpdateNode(n, id, upgrade, was, e) ==
    /\ upgrade => ~TakenByOther(id, n)
    /\ nodes' = [nodes EXCEPT ![n] =
                   [id |-> IF upgrade THEN id ELSE @.id,
                    reachable |-> IF was THEN @.reachable ELSE TRUE]]
    /\ links' = links \cup {<<n, e>>}
    /\ UNCHANGED endpoint

----------------------------------------------------------------------------
(* refresh_transport_reachability.                                         *)

Judge_mutant(row, answers) ==  \* an answer takes one failure back
    LET failures == IF answers THEN row.failures - 1 ELSE Saturate(row.failures + 1)
    IN [reachable |-> answers \/ (row.reachable /\ failures < Threshold),
        failures |-> failures]

JudgeEarly_mutant(row, answers) ==  \* the failures allowed, not those needed
    LET failures == IF answers THEN 0 ELSE Saturate(row.failures + 1)
    IN [reachable |-> answers \/ (row.reachable /\ failures + 1 < Threshold),
        failures |-> failures]

\* The verdict on an endpoint row after a ping.
Judge(row, answers) ==
    LET failures == IF answers THEN 0 ELSE Saturate(row.failures + 1)
    IN [reachable |-> answers \/ (row.reachable /\ failures < Threshold),
        failures |-> failures]

\* The rows as they will be, after verdicts on rows read earlier: the counter
\* is always written, reachable only where the verdict changes what was read.
Judged(before, verdict) ==
    [e \in Endpoints |->
        IF e \notin DOMAIN verdict THEN endpoint[e]
        ELSE [known |-> TRUE,
              reachable |-> IF verdict[e].reachable = before[e].reachable
                            THEN endpoint[e].reachable ELSE verdict[e].reachable,
              failures |-> verdict[e].failures]]

NodeOnline_mutant(n, verdict) ==  \* all() for any()
    \A e \in EndpointsOf(n) : e \in DOMAIN verdict /\ verdict[e].reachable

\* A node is online if one of its endpoints was judged reachable; an endpoint
\* without a verdict counts as not reachable.
NodeOnline(n, verdict) ==
    \E e \in EndpointsOf(n) : e \in DOMAIN verdict /\ verdict[e].reachable
=============================================================================
