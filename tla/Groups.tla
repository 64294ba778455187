------------------------------- MODULE Groups -------------------------------
(***************************************************************************)
(* Groups of nodes (groups/service.py), as requests of several operators   *)
(* change them at the same time, and the group job of jobs/queue.py that   *)
(* patches the members.  Each request is a handler with a transaction of   *)
(* its own.  Isolation is PostgreSQL's READ COMMITTED: a statement sees    *)
(* what is committed, and an insert of a unique key waits for another      *)
(* transaction that has inserted the same key.                             *)
(***************************************************************************)
EXTENDS Naturals, FiniteSets, Lists

CONSTANTS
    Nodes,
    Names,          \* group names; a group is known by its name, which is unique
    Filters,        \* dynamic filters; "none" is the empty one
    Handlers,       \* threads that serve requests, one after the other
    Lists,          \* what operators select: sequences of nodes, maybe with doubles
    Order,          \* all nodes, in the order SELECTs return them
    DbMayFail,      \* a commit may raise
    AtOnce          \* bound: requests and jobs in progress at the same time

ASSUME GroupsAssumption ==
    /\ "none" \in Filters
    /\ Lists \subseteq Seq(Nodes) \ {<<>>}
    /\ Order \in Seq(Nodes) /\ ToSet(Order) = Nodes
    /\ DbMayFail \in BOOLEAN
    /\ AtOnce \in Nat \ {0}

VARIABLES
    groups,         \* node_groups: the filter of each group, or "absent"
    members,        \* node_group_members, committed
    matches,        \* environment: the filters each node satisfies, as the
                    \* synchronisations change its attributes; kept only
                    \* while a job will still look at it
    pc,
    ask,            \* the request of a handler
    rows,           \* nodes it has still to insert
    inserted,       \* nodes it has inserted and not committed
    jpc,            \* the thread that runs group jobs
    target,         \* the group of the job and its filter
    assigned,       \* the members it has read
    left,           \* nodes it has still to patch
    done,           \* history: of the nodes a request names, those that were
                    \* what it asks for, members or none, at some time of it
    ever,           \* history: nodes that were assigned, or matched the filter,
                    \* at some time while the job resolved its members
    kept, fitting   \* history: those that were assigned throughout, and those
                    \* that matched throughout

requests == <<pc, ask, rows, inserted>>
job == <<jpc, target, assigned, left>>
history == <<done, ever, kept, fitting>>
tables == <<groups, members>>
vars == <<tables, matches, requests, job, history>>

Kinds == {"none", "create", "assign", "import", "remove", "configure"}
Request == [kind : Kinds, group : Names \cup {"none"}, list : Seq(Nodes), filter : Filters]
Asks(kind, g, list, f) == [kind |-> kind, group |-> g, list |-> list, filter |-> f]
NoAsk == Asks("none", "none", <<>>, "none")

TypeOK ==
    /\ groups \in [Names -> Filters \cup {"absent"}]
    /\ members \subseteq Names \X Nodes
    /\ matches \in [Nodes -> SUBSET (Filters \ {"none"})]
    /\ pc \in [Handlers -> {"idle", "find", "create", "read", "insert", "commit",
                            "delete", "save", "audit"}]
    /\ ask \in [Handlers -> Request]
    /\ rows \in [Handlers -> Seq(Nodes)]
    /\ inserted \in [Handlers -> SUBSET Nodes]
    /\ jpc \in {"idle", "assigned", "dynamic", "patch"}
    /\ target \in [group : Names \cup {"none"}, filter : Filters]
    /\ assigned \in Seq(Nodes) /\ left \in Seq(Nodes)
    /\ done \in [Handlers -> SUBSET Nodes]
    /\ ever \subseteq Nodes /\ kept \subseteq Nodes /\ fitting \subseteq Nodes

NoTarget == [group |-> "none", filter |-> "none"]
NoMatches == [n \in Nodes |-> {}]

Init ==
    /\ groups = [g \in Names |-> "absent"]
    /\ members = {}
    /\ matches = NoMatches
    /\ pc = [h \in Handlers |-> "idle"]
    /\ ask = [h \in Handlers |-> NoAsk]
    /\ rows = [h \in Handlers |-> <<>>]
    /\ inserted = [h \in Handlers |-> {}]
    /\ jpc = "idle"
    /\ target = NoTarget
    /\ assigned = <<>> /\ left = <<>>
    /\ done = [h \in Handlers |-> {}]
    /\ ever = {} /\ kept = {} /\ fitting = {}

MembersOf(g) == {n \in Nodes : <<g, n>> \in members}
Exists(g) == groups[g] # "absent"

Move(h, from, to) == pc[h] = from /\ pc' = [pc EXCEPT ![h] = to]

\* The bound has room for one more.
Room == Cardinality({h \in Handlers : pc[h] # "idle"}) + (IF jpc = "idle" THEN 0 ELSE 1) < AtOnce

\* A request arrives at an idle handler.
Arrive(h, label, request) ==
    /\ Room
    /\ Move(h, "idle", label)
    /\ ask' = [ask EXCEPT ![h] = request]
    /\ UNCHANGED <<tables, matches, rows, inserted, job>>

\* The handler answers: its transaction is over, its locals are gone.
Answer(h, from) ==
    /\ Move(h, from, "idle")
    /\ ask' = [ask EXCEPT ![h] = NoAsk]
    /\ rows' = [rows EXCEPT ![h] = <<>>]
    /\ inserted' = [inserted EXCEPT ![h] = {}]

-----------------------------------------------------------------------------
(* Requests.  Pages offer the groups that exist.                           *)

GroupCreate(h) == \E g \in Names, f \in Filters :
    Arrive(h, "create", Asks("create", g, <<>>, f))

AssignNode(h) == \E g \in Names, n \in Nodes :
    Exists(g) /\ Arrive(h, "read", Asks("assign", g, <<n>>, "none"))

AssignSelected_mutant(h) == \E g \in Names \cup {"none"}, l \in Lists :
    Arrive(h, "read", Asks("assign", g, l, "none"))

AssignSelected(h) == \E g \in Names, l \in Lists :
    Exists(g) /\ Arrive(h, "read", Asks("assign", g, l, "none"))

\* Some nodes, in the order of a SELECT and without doubles.
Selection(N) == Keep(Order, N)
Selections == {Selection(N) : N \in SUBSET Nodes \ {{}}}
SelectionsOfLists == {Selection(ToSet(l)) : l \in Lists}

\* The candidates of a zero-hop import come out of a SELECT.
ZeroHopImport(h) == \E g \in Names, l \in Selections :
    Arrive(h, "find", Asks("import", g, l, "none"))

RemoveNode(h) == \E g \in Names, n \in Nodes :
    Exists(g) /\ Arrive(h, "delete", Asks("remove", g, <<n>>, "none"))

\* Removal makes the list a set first.
RemoveSelected(h) == \E g \in Names, l \in SelectionsOfLists :
    Exists(g) /\ Arrive(h, "delete", Asks("remove", g, l, "none"))

Configure(h) == \E g \in Names, f \in Filters :
    Exists(g) /\ Arrive(h, "save", Asks("configure", g, <<>>, f))

-----------------------------------------------------------------------------
(* What the service does for them.                                         *)

\* From here on an import assigns like the others.
AsAssign(h) == [ask EXCEPT ![h].kind = IF @ = "import" THEN "assign" ELSE @]

\* get_group_by_name: a group that is not there will be created.
FindGroup(h) ==
    /\ Move(h, "find", IF Exists(ask[h].group) THEN "read" ELSE "create")
    /\ ask' = IF Exists(ask[h].group) THEN AsAssign(h) ELSE ask
    /\ UNCHANGED <<tables, matches, rows, inserted, job>>

\* The row is inserted and committed.
Create(h) ==
    /\ Move(h, "create", IF ask[h].kind = "import" THEN "read" ELSE "audit")
    /\ ~Exists(ask[h].group)
    /\ groups' = [groups EXCEPT ![ask[h].group] = ask[h].filter]
    /\ ask' = AsAssign(h)
    /\ UNCHANGED <<members, matches, rows, inserted, job>>

\* The name has been taken since.
CreateTaken(h) ==
    /\ pc[h] = "create" /\ Exists(ask[h].group)
    /\ Answer(h, "create")
    /\ UNCHANGED <<tables, matches, job>>

\* What assign_node and assign_nodes will insert: the nodes asked for that are
\* no members yet, also twice when they were asked for twice.
Missing(h) == Keep(ask[h].list, Nodes \ MembersOf(ask[h].group))

ReadMembers(h) ==
    /\ pc[h] = "read"
    /\ rows' = [rows EXCEPT ![h] = Missing(h)]
    /\ pc' = [pc EXCEPT ![h] = IF rows'[h] = <<>> THEN "audit" ELSE "insert"]
    /\ UNCHANGED <<tables, matches, ask, inserted, job>>

\* Handlers whose uncommitted row is the one h wants to insert.
WaitsFor(h) ==
    IF pc[h] # "insert" THEN {}
    ELSE {k \in Handlers \ {h} : ask[k].group = ask[h].group /\ Head(rows[h]) \in inserted[k]}

Taken(h) == pc[h] = "insert" /\ Head(rows[h]) \in MembersOf(ask[h].group) \cup inserted[h]

\* The commit flushes the new rows one after the other.
Insert(h) ==
    /\ Move(h, "insert", IF Len(rows[h]) = 1 THEN "commit" ELSE "insert")
    /\ WaitsFor(h) = {}
    /\ ~Taken(h)
    /\ inserted' = [inserted EXCEPT ![h] = @ \cup {Head(rows[h])}]
    /\ rows' = [rows EXCEPT ![h] = Tail(@)]
    /\ UNCHANGED <<tables, matches, ask, job>>

InsertTaken_mutant(h) ==
    /\ WaitsFor(h) = {} /\ Taken(h)
    /\ Move(h, "insert", "audit")
    /\ rows' = [rows EXCEPT ![h] = <<>>]
    /\ inserted' = [inserted EXCEPT ![h] = {}]
    /\ UNCHANGED <<tables, matches, ask, job>>

InsertTaken_mutant2(h) ==
    /\ WaitsFor(h) = {} /\ Taken(h)
    /\ Move(h, "insert", "read")
    /\ rows' = [rows EXCEPT ![h] = <<>>]
    /\ inserted' = [inserted EXCEPT ![h] = {}]
    /\ UNCHANGED <<tables, matches, ask, job>>

\* The unique constraint fails the whole request.
InsertTaken(h) ==
    /\ WaitsFor(h) = {} /\ Taken(h)
    /\ Answer(h, "insert")
    /\ UNCHANGED <<tables, matches, job>>

Stuck(S) == S # {} /\ \A h \in S : WaitsFor(h) \cap S # {}

\* Two lists in different orders: the database ends the deadlock.
DeadlockVictim(h) ==
    /\ Answer(h, "insert")
    /\ \E S \in SUBSET Handlers : h \in S /\ Stuck(S)
    /\ UNCHANGED <<tables, matches, job>>

Commit(h) ==
    /\ Move(h, "commit", "audit")
    /\ members' = members \cup {<<ask[h].group, n>> : n \in inserted[h]}
    /\ inserted' = [inserted EXCEPT ![h] = {}]
    /\ UNCHANGED <<groups, matches, ask, rows, job>>

\* One DELETE statement and its commit.
Delete(h) ==
    /\ Move(h, "delete", "audit")
    /\ members' = members \ {<<ask[h].group, n>> : n \in ToSet(ask[h].list)}
    /\ UNCHANGED <<groups, matches, ask, rows, inserted, job>>

\* update_group
SaveGroup(h) ==
    /\ Move(h, "save", "audit")
    /\ groups' = [groups EXCEPT ![ask[h].group] = ask[h].filter]
    /\ UNCHANGED <<members, matches, ask, rows, inserted, job>>

\* The answer is a success only if the audit row is written too.
Audit(h) ==
    /\ Answer(h, "audit")
    /\ UNCHANGED <<tables, matches, job>>

CommitFails(h) ==
    /\ DbMayFail
    /\ \E label \in {"create", "commit", "delete", "save", "audit"} : Answer(h, label)
    /\ UNCHANGED <<tables, matches, job>>

-----------------------------------------------------------------------------
(* The job: _run_group_patch_job.                                          *)

\* A job for some group reaches its turn.
JobStart == \E g \in Names :
    /\ Exists(g)
    /\ Room
    /\ jpc = "idle" /\ jpc' = "assigned"
    /\ target' = [group |-> g, filter |-> groups[g]]
    /\ matches' \in [Nodes -> SUBSET (Filters \ {"none"})]
    /\ UNCHANGED <<tables, requests, assigned, left>>

ListAssigned ==
    /\ jpc = "assigned" /\ jpc' = "dynamic"
    /\ assigned' = Selection(MembersOf(target.group))
    /\ UNCHANGED <<tables, matches, requests, target, left>>

ResolveDynamic_mutant ==
    LET dynamic == Selection({n \in Nodes : target.filter \in matches[n]}) IN
    /\ jpc = "dynamic" /\ jpc' = "patch"
    /\ left' = IF assigned = <<>> THEN dynamic ELSE assigned
    /\ assigned' = <<>> /\ matches' = NoMatches
    /\ UNCHANGED <<tables, requests, target>>

\* A node that is assigned and matches is in the list once.
ResolveDynamic ==
    LET dynamic == Selection({n \in Nodes : target.filter \in matches[n]}) IN
    /\ jpc = "dynamic" /\ jpc' = "patch"
    /\ left' = Dedup(assigned \o dynamic)
    /\ assigned' = <<>> /\ matches' = NoMatches
    /\ UNCHANGED <<tables, requests, target>>

\* Whether the patch succeeds or is rolled back, the loop goes on.
PatchMember ==
    /\ jpc = "patch" /\ left # <<>>
    /\ left' = Tail(left)
    /\ UNCHANGED <<tables, matches, requests, jpc, target, assigned>>

JobEnd ==
    /\ jpc = "patch" /\ left = <<>> /\ jpc' = "idle"
    /\ target' = NoTarget
    /\ UNCHANGED <<tables, matches, requests, assigned, left>>

\* A synchronisation changes what filters a node satisfies.
NodeChanges == \E n \in Nodes, F \in SUBSET (Filters \ {"none"}) :
    /\ jpc \in {"assigned", "dynamic"}
    /\ matches' = [matches EXCEPT ![n] = F]
    /\ UNCHANGED <<tables, requests, job>>

Arrival(h) ==
    \/ GroupCreate(h) \/ AssignNode(h) \/ AssignSelected(h) \/ ZeroHopImport(h)
    \/ RemoveNode(h) \/ RemoveSelected(h) \/ Configure(h)

Serve(h) ==
    \/ FindGroup(h) \/ Create(h) \/ CreateTaken(h) \/ ReadMembers(h)
    \/ Insert(h) \/ InsertTaken(h) \/ DeadlockVictim(h) \/ Commit(h) \/ Delete(h) \/ SaveGroup(h) \/ Audit(h)

JobStep == ListAssigned \/ ResolveDynamic \/ PatchMember \/ JobEnd

Step ==
    \/ \E h \in Handlers : Arrival(h) \/ Serve(h) \/ CommitFails(h)
    \/ JobStart \/ JobStep
    \/ NodeChanges

\* What the history variables record of each step.
Over(h) == pc'[h] = "idle"
Since(h, seen) == IF pc[h] = "idle" THEN {} ELSE seen
AsAsked(h) ==
    {n \in ToSet(ask'[h].list) :
        IF ask'[h].kind = "remove" THEN <<ask'[h].group, n>> \notin members'
        ELSE <<ask'[h].group, n>> \in members'}
Assigned == {n \in Nodes : <<target'.group, n>> \in members'}
Matching == {n \in Nodes : target'.filter \in matches'[n]}

Record ==
    /\ done' = [h \in Handlers |-> IF Over(h) THEN {} ELSE Since(h, done[h]) \cup AsAsked(h)]
    /\ CASE jpc' \in {"idle", "patch"} -> ever' = {} /\ kept' = {} /\ fitting' = {}
         [] jpc = "idle" /\ jpc' = "assigned" ->
              ever' = Assigned \cup Matching /\ kept' = Assigned /\ fitting' = Matching
         [] OTHER -> /\ ever' = ever \cup Assigned \cup Matching
                     /\ kept' = kept \cap Assigned
                     /\ fitting' = fitting \cap Matching

Next == Step /\ Record

Spec == Init /\ [][Next]_vars

\* Threads go on; database and radios answer.  An insert that waits for another
\* transaction is woken when that one ends, and does not lose the row to new
\* requests for ever.
FairSpec ==
    /\ Spec
    /\ \A h \in Handlers : SF_requests(Serve(h))
    /\ WF_job(JobStep)
=============================================================================
