-------------------------- MODULE InventoryProps --------------------------
(* What InventorySync is expected to satisfy.                              *)
EXTENDS InventorySync

\* Operations connect to the endpoint of the row they are asked to change
\* (operations/service.py:199 takes endpoints[0]), and the provider then acts
\* on whatever radio it reached (provider.py:273).  A row with an identity has
\* an endpoint of another station only if several stations were stored in it
\* without any identity (provider.py:399 gives them all the same one): however
\* synchronisations overlap, incomplete identities (node number, short name)
\* and a placeholder that one station only was stored in do no harm.
LinksTruthful ==
    \A l \in links :
        LET n == l[1] station == nodes[n].id[2]
        IN nodes[n].id # Unknown /\ station # At[l[2]] =>
               \E s, k \in nameless[n] : s # k

OneAddress(station) ==
    \A e, a \in Endpoints : At[e] = station /\ At[a] = station => e = a

\* A station with one address that was never stored under less than its owner
\* id is listed once, whatever placeholder of an earlier version it was listed
\* under first (the row is upgraded in place: upsert_nodes;
\* tests/unit/test_inventory_node_id_upgrade.py), whatever synchronisations of
\* it run at the same time and whatever the other stations present.
Identified == {n \in Rows : nodes[n].id # Unknown}
ListedOnce ==
    \A n, k \in Identified :
        LET station == nodes[n].id[2]
        IN station = nodes[k].id[2] /\ station \notin partial /\ OneAddress(station)
           => n = k

\* Every node can be operated on: it has an endpoint, over all inserts,
\* upgrades and rolled back transactions ("Node has no TCP endpoint").
NodesLinked == \A n \in Rows : EndpointsOf(n) # {}

\* An endpoint goes offline only after as many failed pings in a row as
\* configured: none that counts was made before the last answer, none is
\* counted twice, and one of a refresh that was aborted is not counted, with
\* scans and synchronisations committing while the refresh pings.  A scan that
\* finds the port open does not start the count again (discovery/service.py:63).
OfflineEnough ==
    \A e \in Known :
        endpoint[e].reachable /\ ~endpoint'[e].reachable => missed'[e] = Threshold
OfflineAfterFailures == [][OfflineEnough]_vars

EndpointsAgree == \A e \in Known : endpoint[e].reachable <=> e \in answers
NodesAgree ==
    \A n \in Rows : nodes[n].reachable <=> EndpointsOf(n) \cap answers # {}

\* When the hosts stop changing and nobody scans, the endpoints' status becomes and stays what
\* the hosts answer, and the nodes' status agrees with it again and again
\* (not always: a synchronisation over TCP takes a node for reachable although
\* its host does not answer pings), whatever synchronisations go on meanwhile.
Converges ==
    <>[][FALSE]_<<answers, scanVars>> => (<>[]EndpointsAgree /\ []<>NodesAgree)
=============================================================================
