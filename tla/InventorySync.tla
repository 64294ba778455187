--------------------------- MODULE InventorySync ---------------------------
(***************************************************************************)
(* The processes that keep the inventory up to date, each with a database  *)
(* session of its own:                                                     *)
(*   - the scheduled reachability refresh (app.py _scheduled_reachability),*)
(*     which pings every known endpoint in turn before it commits;         *)
(*   - synchronisations (sync/service.py), of all reachable endpoints or   *)
(*     of one node, by the scheduler, requests, jobs and the command line; *)
(*   - discovery scans (discovery/service.py).                             *)
(* Between a process's reads and its commit the others go on.  A row that  *)
(* a session has flushed is locked until the session commits.              *)
(***************************************************************************)
EXTENDS Inventory

CONSTANTS
    Syncers, Discoverers,
    Targets,     \* the hosts scans are given
    At,          \* the station at each address
    Presents,    \* how completely stations identify themselves
    DbMayFail,   \* a statement or a commit may raise
    Scheduled,   \* settings.scheduler_enabled: reachability is refreshed
    HostsChange  \* hosts start and stop to answer pings

ASSUME SyncAssumption ==
    /\ Targets \subseteq Endpoints
    /\ At \in [Endpoints -> Stations]
    /\ Presents \subseteq {"owner", "alias", "unknown"}
    /\ DbMayFail \in BOOLEAN
    /\ Scheduled \in BOOLEAN
    /\ HostsChange \in BOOLEAN

VARIABLES
    answers,   \* environment: the hosts that answer a ping
    rpc,       \* refresh: where it is
    before,    \* the endpoint rows it has read
    verdict,   \* its verdicts so far
    held,      \* the endpoints whose rows it has flushed
    touched,   \* the node_endpoints rows it has read and will write
    turning,   \* the nodes it will turn online and offline
    missed,    \* history: failed pings since the last one that was answered,
               \* up to Threshold; a scan answers none
    spc, todo, \* synchronisations: where each is, endpoints still to be done
    plan,      \* the write a synchronisation is about to commit
    loaded,    \* the node row sync_node has read before its radio session
    nameless,  \* history: the stations stored in a row without any identity
    partial,   \* history: the stations ever stored under less than their
               \* owner id
    dpc, found \* scans: where each is, what it found and what it read there

refreshVars == <<rpc, before, verdict, held, touched, turning, missed>>
identified == <<nameless, partial>>
syncVars == <<spc, todo, plan, loaded, identified>>
scanVars == <<dpc, found>>
vars == <<endpoint, nodes, links, answers, refreshVars, syncVars, scanVars>>

NoNode == [slot |-> {}, was |-> FALSE]

\* slot is the row to update, or empty for an insert.
Plan == [slot : SUBSET Slots, was : BOOLEAN, upgrade : BOOLEAN,
         id : Ids, e : Endpoints]
NoPlan == [slot |-> {}, was |-> FALSE, upgrade |-> FALSE, id |-> Unknown, e |-> 0]

Unread == [e \in Endpoints |->
              [known |-> FALSE, reachable |-> FALSE, failures |-> 0]]

EndpointRow == [known : BOOLEAN, reachable : BOOLEAN, failures : 0..Threshold]

RefreshTypeOK ==
    /\ rpc \in {"idle", "probe", "commit"}
    /\ before \in [Endpoints -> EndpointRow]
    /\ DOMAIN verdict \subseteq Endpoints
    /\ \A e \in DOMAIN verdict :
          verdict[e] \in [reachable : BOOLEAN, failures : 0..Threshold]
    /\ held \subseteq DOMAIN verdict
    /\ touched \subseteq Slots \X Endpoints
    /\ turning \in [online : SUBSET Slots, offline : SUBSET Slots]
    /\ missed \in [Endpoints -> 0..Threshold]

SyncTypeOK ==
    /\ spc \in [Syncers -> {"idle", "next", "commit"}]
    /\ todo \in [Syncers -> SUBSET Endpoints]
    /\ plan \in [Syncers -> Plan \cup {NoPlan}]
    /\ loaded \in [Syncers -> [slot : SUBSET Slots, was : BOOLEAN]]
    /\ nameless \in [Slots -> SUBSET Stations]
    /\ partial \subseteq Stations

ScanTypeOK ==
    /\ dpc \in [Discoverers -> {"idle", "commit"}]
    /\ found \in [Discoverers -> [Endpoints -> {"none", "new", "off", "on"}]]

TypeOK ==
    InventoryTypeOK /\ answers \subseteq Endpoints
    /\ RefreshTypeOK /\ SyncTypeOK /\ ScanTypeOK

\* The tables may hold what an earlier version left: a legacy row for a
\* station, with the endpoint it was seen at.
Init ==
    /\ \E known \in SUBSET Endpoints, old \in SUBSET Slots :
          /\ endpoint = [e \in Endpoints |->
                [known |-> e \in known, reachable |-> e \in known, failures |-> 0]]
          /\ \E at \in [old -> known] :
                /\ \A n, k \in old : At[at[n]] = At[at[k]] => n = k
                /\ nodes = [n \in Slots |->
                      [id |-> IF n \in old THEN Legacy(At[at[n]]) ELSE Absent,
                       reachable |-> n \in old]]
                /\ links = {<<n, at[n]>> : n \in old}
    /\ answers = {}
    /\ rpc = "idle"
    /\ before = Unread
    /\ verdict = <<>>
    /\ held = {}
    /\ touched = {}
    /\ turning = [online |-> {}, offline |-> {}]
    /\ missed = [e \in Endpoints |-> 0]
    /\ spc = [s \in Syncers |-> "idle"]
    /\ todo = [s \in Syncers |-> {}]
    /\ plan = [s \in Syncers |-> NoPlan]
    /\ loaded = [s \in Syncers |-> NoNode]
    /\ nameless = [n \in Slots |-> {}]
    /\ partial = {}
    /\ dpc = [d \in Discoverers |-> "idle"]
    /\ found = [d \in Discoverers |-> [e \in Endpoints |-> "none"]]

HostChanges(e) ==
    /\ HostsChange
    /\ answers' = IF e \in answers THEN answers \ {e} ELSE answers \cup {e}
    /\ UNCHANGED <<inventoryVars, refreshVars, syncVars, scanVars>>

----------------------------------------------------------------------------
(* refresh_transport_reachability.  Its session flushes what it has        *)
(* changed before each SELECT.                                             *)

RefreshStart ==
    /\ Scheduled /\ rpc = "idle"
    /\ rpc' = "probe"
    /\ before' = endpoint
    /\ UNCHANGED <<inventoryVars, answers, verdict, held, touched, turning, missed,
                   syncVars, scanVars>>

Unprobed == {e \in Endpoints : before[e].known} \ DOMAIN verdict

\* Ping the next host, then select the node endpoints of its endpoint; the
\* SELECT flushes the rows of the endpoints judged before.
Probe ==
    /\ rpc = "probe"
    /\ \E e \in Unprobed :
          /\ \A k \in Unprobed : e <= k
          /\ verdict' = [k \in DOMAIN verdict \cup {e} |->
                            IF k = e THEN Judge(before[e], e \in answers) ELSE verdict[k]]
          /\ touched' = touched \cup {l \in links : l[2] = e}
    /\ held' = DOMAIN verdict
    /\ UNCHANGED <<inventoryVars, answers, rpc, before, turning, missed, syncVars, scanVars>>

\* All judged: flush the last one and select the nodes with their endpoints.
ReadNodes ==
    /\ rpc = "probe" /\ Unprobed = {}
    /\ rpc' = "commit"
    /\ held' = DOMAIN verdict
    /\ turning' =
         [online |-> {n \in Rows : ~nodes[n].reachable /\ NodeOnline(n, verdict)},
          offline |-> {n \in Rows : nodes[n].reachable /\ ~NodeOnline(n, verdict)}]
    /\ UNCHANGED <<inventoryVars, answers, before, verdict, touched, missed, syncVars, scanVars>>

RefreshIdle ==
    /\ rpc' = "idle"
    /\ before' = Unread
    /\ verdict' = <<>>
    /\ held' = {}
    /\ touched' = {}
    /\ turning' = [online |-> {}, offline |-> {}]

RefreshCommit ==
    /\ rpc = "commit"
    /\ endpoint' = Judged(before, verdict)
    /\ nodes' = [n \in Slots |->
          [nodes[n] EXCEPT !.reachable = (@ \/ n \in turning.online) /\ n \notin turning.offline]]
    /\ missed' = [e \in Endpoints |->
          IF e \notin DOMAIN verdict THEN missed[e]
          ELSE IF verdict[e].failures = 0 THEN 0 ELSE Saturate(missed[e] + 1)]
    /\ RefreshIdle
    /\ UNCHANGED <<links, answers, syncVars, scanVars>>

\* s is about to update a node the refresh turns, and one of that node's
\* endpoint rows the refresh holds: the second of them to flush meets the
\* first one's lock and the database ends the wait by aborting one.
Collide(s) ==
    /\ rpc = "commit" /\ spc[s] = "commit"
    /\ \E n \in plan[s].slot :
          /\ n \in turning.online \cup turning.offline
          /\ <<n, plan[s].e>> \in touched

\* The refresh is aborted; nothing catches that, and the next tick of the
\* scheduler starts another one.
RefreshFail ==
    /\ rpc # "idle"
    /\ DbMayFail \/ \E s \in Syncers : Collide(s)
    /\ RefreshIdle
    /\ UNCHANGED <<inventoryVars, answers, missed, syncVars, scanVars>>

RefreshStep == RefreshStart \/ Probe \/ ReadNodes \/ RefreshCommit

----------------------------------------------------------------------------
(* sync_all and sync_node.                                                 *)

Goto(s, label) == spc' = [spc EXCEPT ![s] = label]

SyncAll(s) ==
    /\ spc[s] = "idle"
    /\ Goto(s, "next")
    /\ todo' = [todo EXCEPT ![s] = Reachable]
    /\ UNCHANGED <<inventoryVars, answers, refreshVars, plan, loaded, identified, scanVars>>

\* sync_node reads the node and takes the first of its endpoints.
SyncNode(s) ==
    /\ spc[s] = "idle"
    /\ Goto(s, "next")
    /\ \E l \in links :
          /\ todo' = [todo EXCEPT ![s] = {l[2]}]
          /\ loaded' = [loaded EXCEPT ![s] =
                [slot |-> {l[1]}, was |-> nodes[l[1]].reachable]]
    /\ UNCHANGED <<inventoryVars, answers, refreshVars, plan, identified, scanVars>>

\* The radio at e is connected to and presents id.  The lookups go to the
\* database, but a row the session holds already keeps the values it has.
Fetch(s) ==
    /\ spc[s] = "next"
    /\ \E e \in todo[s], kind \in Presents :
          LET id == IF kind = "unknown" THEN Unknown ELSE <<kind, At[e]>>
              Write(slot, was) ==
                 [slot |-> slot, was |-> was, id |-> id, e |-> e,
                  upgrade |-> slot # {} /\ ~IdInUse(id)]
          IN /\ todo' = [todo EXCEPT ![s] = @ \ {e}]
             /\ \/ /\ Lookup(id, e) = {}
                   /\ plan' = [plan EXCEPT ![s] = Write({}, FALSE)]
                \/ \E n \in Lookup(id, e) :
                      plan' = [plan EXCEPT ![s] =
                         Write({n}, IF loaded[s].slot = {n} THEN loaded[s].was
                                                          ELSE nodes[n].reachable)]
    /\ loaded' = [loaded EXCEPT ![s] = NoNode]
    /\ Goto(s, "commit")
    /\ UNCHANGED <<inventoryVars, answers, refreshVars, identified, scanVars>>

\* The session with the radio at e fails, or reports no local node.
FetchFail(s) ==
    /\ spc[s] = "next"
    /\ \E e \in todo[s] : todo' = [todo EXCEPT ![s] = @ \ {e}]
    /\ loaded' = [loaded EXCEPT ![s] = NoNode]
    /\ UNCHANGED <<inventoryVars, answers, refreshVars, spc, plan, identified, scanVars>>

Written(s) ==
    /\ plan' = [plan EXCEPT ![s] = NoPlan]
    /\ Goto(s, "next")
    /\ UNCHANGED <<answers, refreshVars, todo, loaded, scanVars>>

\* For the histories: row n was stored for the station at plan[s].e.
StoredAs(s, n) ==
    LET station == At[plan[s].e]
    IN /\ nameless' = IF plan[s].id = Unknown
                      THEN [nameless EXCEPT ![n] = @ \cup {station}] ELSE nameless
       /\ partial' = IF plan[s].id = Owner(station) THEN partial
                                                   ELSE partial \cup {station}

Insert(s) ==
    /\ spc[s] = "commit" /\ plan[s].slot = {}
    /\ InsertNode(plan[s].id, plan[s].e)
    /\ \E n \in Rows' \ Rows : StoredAs(s, n)
    /\ Written(s)

\* The row of the endpoint must not be locked by the refresh.
Update(s) ==
    /\ spc[s] = "commit"
    /\ \E n \in plan[s].slot :
          /\ ~(plan[s].e \in held /\ <<n, plan[s].e>> \in touched)
          /\ UpdateNode(n, plan[s].id, plan[s].upgrade, plan[s].was, plan[s].e)
          /\ StoredAs(s, n)
    /\ Written(s)

\* The id came into use since the lookup, the database broke a deadlock or
\* failed: the transaction is rolled back.
SyncFail(s) ==
    /\ spc[s] = "commit"
    /\ \/ DbMayFail
       \/ plan[s].slot = {} /\ IdInUse(plan[s].id)
       \/ plan[s].upgrade /\ \E n \in plan[s].slot : TakenByOther(plan[s].id, n)
       \/ Collide(s)
    /\ Written(s)
    /\ UNCHANGED <<inventoryVars, identified>>

SyncDone(s) ==
    /\ spc[s] = "next" /\ todo[s] = {}
    /\ Goto(s, "idle")
    /\ UNCHANGED <<inventoryVars, answers, refreshVars, todo, plan, loaded,
                   identified, scanVars>>

SyncStep(s) ==
    \/ Fetch(s) \/ FetchFail(s) \/ Insert(s) \/ Update(s) \/ SyncFail(s) \/ SyncDone(s)

----------------------------------------------------------------------------
(* DiscoveryService.scan.                                                  *)

\* Some targets had their port open (a scan that finds none changes nothing);
\* their rows are looked up.
Scan(d) ==
    /\ dpc[d] = "idle"
    /\ dpc' = [dpc EXCEPT ![d] = "commit"]
    /\ \E open \in SUBSET Targets \ {{}} :
          found' = [found EXCEPT ![d] = [e \in Endpoints |->
             IF e \notin open THEN "none"
             ELSE IF e \notin Known THEN "new"
             ELSE IF e \in Reachable THEN "on" ELSE "off"]]
    /\ UNCHANGED <<inventoryVars, answers, refreshVars, syncVars>>

ScanIdle(d) ==
    /\ dpc' = [dpc EXCEPT ![d] = "idle"]
    /\ found' = [found EXCEPT ![d] = [e \in Endpoints |-> "none"]]
    /\ UNCHANGED <<answers, syncVars, refreshVars>>

\* One commit: new rows are reachable, known ones become so; the counter of
\* failures stays.  A row that was read as reachable is not written.
Save(d) ==
    /\ dpc[d] = "commit"
    /\ \A e \in Endpoints : found[d][e] = "new" => e \notin Known
    /\ \A e \in held : found[d][e] = "none"
    /\ endpoint' = [e \in Endpoints |->
          CASE found[d][e] = "new" -> [known |-> TRUE, reachable |-> TRUE, failures |-> 0]
            [] found[d][e] = "off" -> [endpoint[e] EXCEPT !.reachable = TRUE]
            [] OTHER -> endpoint[e]]
    /\ ScanIdle(d)
    /\ UNCHANGED <<nodes, links>>

\* Another scan inserted one of the new endpoints first, or the database
\* failed: everything this scan found is rolled back.
SaveFail(d) ==
    /\ dpc[d] = "commit"
    /\ DbMayFail \/ \E e \in Known : found[d][e] = "new"
    /\ ScanIdle(d)
    /\ UNCHANGED inventoryVars

ScanStep(d) == Save(d) \/ SaveFail(d)

----------------------------------------------------------------------------
Next ==
    \/ \E e \in Endpoints : HostChanges(e)
    \/ RefreshStep \/ RefreshFail
    \/ \E s \in Syncers : SyncAll(s) \/ SyncNode(s) \/ SyncStep(s)
    \/ \E d \in Discoverers : Scan(d) \/ ScanStep(d)

Spec == Init /\ [][Next]_vars

\* The scheduler starts the refresh every five minutes, and what has started
\* goes on: pings and radio sessions have timeouts.  A refresh that is aborted
\* met the commit of a synchronisation within the instant of its own; that it
\* is not so every time is the strong fairness of the commit.
Fairness ==
    /\ WF_vars(RefreshStep) /\ SF_vars(RefreshCommit)
    /\ \A s \in Syncers : WF_vars(SyncStep(s))
    /\ \A d \in Discoverers : WF_vars(ScanStep(d))

FairSpec == Spec /\ Fairness
=============================================================================
