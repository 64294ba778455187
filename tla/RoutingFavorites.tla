-------------------------- MODULE RoutingFavorites --------------------------
(***************************************************************************)
(* The NodeDB of each managed radio, the copy of it in the inventory, and  *)
(* the jobs that change it: requests of api/app.py collect, from the       *)
(* copies, the neighbours that some radio hears directly and queue jobs    *)
(* that set or remove their favourite flag, or remove them, on each        *)
(* destination.  The jobs of a favourite refresh synchronise the inventory *)
(* before they end.                                                        *)
(***************************************************************************)
EXTENDS Naturals, FiniteSets, Lists

CONSTANTS
    Radios,       \* managed radios, known by their node id
    Peers,        \* ids of all nodes of the mesh
    Order,        \* all of them, in the order of sorted() and of SELECTs
    Routers,      \* peers whose role is one of the routing roles
    Workers,      \* threads that run jobs: one in external mode
    Starts,       \* NodeDBs to begin with
    MaxEvents,    \* bound: changes of the mesh, and synchronisations of a
                  \* radio outside of jobs
    MaxRequests,  \* bound: requests
    MayFail       \* what may fail: "connect", "nack", "ack", "sync", "commit"

Contents == {d \in [seen : SUBSET Peers, near : SUBSET Peers, fav : SUBSET Peers] :
                d.near \subseteq d.seen /\ d.fav \subseteq d.seen}

ASSUME RoutingFavoritesAssumption ==
    /\ Radios \subseteq Peers /\ Routers \subseteq Peers
    /\ Order \in Seq(Peers) /\ ToSet(Order) = Peers /\ IsInjective(Order)
    /\ Starts \subseteq [Radios -> Contents]
    /\ MaxEvents \in Nat /\ MaxRequests \in Nat
    /\ MayFail \subseteq {"connect", "nack", "ack", "sync", "commit"}

VARIABLES
    nodeDB,       \* of each radio: the nodes it knows, those it hears within
                  \* the hops that requests ask for, and its favourites
    copy,         \* nodesInMesh in the inventory: the NodeDB of the last sync
    queue,        \* jobs in the order of their creation
    running,      \* the job of each thread
    wpc,
    left,         \* destinations the job has still to do, or endpoints to sync
    togo,         \* targets to do on the destination at hand
    refused,      \* one of them has failed
    tally,        \* results recorded: destinations that succeeded, that failed
    snapshot,     \* the NodeDB that the sync of a job has read
    fetched,      \* what synchronisations outside of jobs have read and not
                  \* stored yet
    events, requests,  \* counters for the bounds
    refresh,      \* history: the last refresh, as long as nothing disturbs it
    reached       \* history: of the targets on the destination at hand, those
                  \* that were as the job wants them at some time of it

mesh == <<nodeDB, events, fetched>>
worker == <<running, wpc, left, togo, refused, tally, snapshot>>
history == <<refresh, reached>>
vars == <<mesh, copy, queue, worker, requests, history>>

Actions == {"set_favorite", "remove_favorite", "remove_node"}
Job == [bulk : BOOLEAN, dests : SUBSET Radios, targets : SUBSET Peers,
        action : Actions, refresh : BOOLEAN, dry : BOOLEAN]
NoJob == [bulk |-> FALSE, dests |-> {}, targets |-> {}, action |-> "set_favorite",
          refresh |-> FALSE, dry |-> TRUE]
NoTally == [ok |-> FALSE, failed |-> FALSE]
Nothing == [seen |-> {}, near |-> {}, fav |-> {}]
NoRefresh == [on |-> FALSE, dests |-> {}, roles |-> {}, targets |-> {},
              synced |-> {}, late |-> {}]
Reading == [radio : Radios, found : Contents]

TypeOK ==
    /\ nodeDB \in [Radios -> Contents]
    /\ copy \in [Radios -> Contents]
    /\ queue \in Seq(Job)
    /\ running \in [Workers -> Job]
    /\ wpc \in [Workers -> {"idle", "dest", "target", "sync", "write"}]
    /\ left \in [Workers -> Seq(Radios)]
    /\ togo \in [Workers -> SUBSET Peers]
    /\ refused \in [Workers -> BOOLEAN]
    /\ tally \in [Workers -> [ok : BOOLEAN, failed : BOOLEAN]]
    /\ snapshot \in [Workers -> Contents]
    /\ fetched \subseteq Reading
    /\ events \in 0..MaxEvents /\ requests \in 0..MaxRequests
    /\ refresh \in [on : BOOLEAN, dests : SUBSET Radios, roles : SUBSET Peers,
                    targets : SUBSET Peers, synced : SUBSET Radios, late : SUBSET Radios]
    /\ reached \in [Workers -> SUBSET Peers]

Init ==
    /\ nodeDB \in Starts
    /\ copy = nodeDB
    /\ queue = <<>>
    /\ running = [w \in Workers |-> NoJob]
    /\ wpc = [w \in Workers |-> "idle"]
    /\ left = [w \in Workers |-> <<>>]
    /\ togo = [w \in Workers |-> {}]
    /\ refused = [w \in Workers |-> FALSE]
    /\ tally = [w \in Workers |-> NoTally]
    /\ snapshot = [w \in Workers |-> Nothing]
    /\ fetched = {}
    /\ events = 0 /\ requests = 0
    /\ refresh = NoRefresh
    /\ reached = [w \in Workers |-> {}]

InOrder(S) == Keep(Order, S)
Quiet == queue = <<>> /\ \A w \in Workers : wpc[w] = "idle"

-----------------------------------------------------------------------------
(* The mesh.                                                               *)

\* A radio hears of a peer, directly or through others, or loses sight of it.
Hear == \E r \in Radios : \E p \in Peers \ {r} :
    /\ events < MaxEvents /\ events' = events + 1
    /\ \E near \in {nodeDB[r].near \cup {p}, nodeDB[r].near \ {p}} :
          nodeDB' = [nodeDB EXCEPT ![r] = [seen |-> @.seen \cup {p}, near |-> near, fav |-> @.fav]]
    /\ UNCHANGED <<copy, queue, worker, requests, fetched>>

\* The scheduler, or a request, synchronises a radio: it reads the NodeDB in a
\* session, and stores it when the session is over.
Fetch == \E r \in Radios :
    /\ events < MaxEvents /\ events' = events + 1
    /\ fetched' = fetched \cup {[radio |-> r, found |-> nodeDB[r]]}
    /\ UNCHANGED <<nodeDB, copy, queue, worker, requests>>

Store(reading) ==
    /\ copy' = [copy EXCEPT ![reading.radio] = reading.found]
    /\ fetched' = fetched \ {reading}
    /\ UNCHANGED <<nodeDB, events, queue, worker, requests>>

-----------------------------------------------------------------------------
(* Requests.  A request names roles; an empty field means every role.      *)

RoleSets == {Routers, Peers}

\* What the sources hear directly, and what they have for favourites.
Heard(sources, roles) == UNION {copy[r].near \cap roles : r \in sources}
Favorites(sources, roles) == UNION {copy[r].fav \cap roles : r \in sources}

Queue(jobs) ==
    /\ requests < MaxRequests /\ requests' = requests + 1
    /\ queue' = queue \o jobs
    /\ UNCHANGED <<mesh, copy, worker>>

BulkJob(dests, targets, action, again, dry) ==
    [bulk |-> TRUE, dests |-> dests, targets |-> targets, action |-> action,
     refresh |-> again, dry |-> dry]

\* All nodes, or the members of a group, are destinations; those of them that
\* have one of the roles are the sources.  With no role given none is.
RoutingFavorites == \E N \in SUBSET Radios, action \in Actions, dry \in BOOLEAN :
    LET targets == Heard(N \cap Routers, Routers) IN
    /\ targets # {}
    /\ Queue(<<BulkJob(N, targets, action, FALSE, dry)>>)

RefreshJobs_mutant(N, roles, removeUnseen, dry) ==
    LET heard == Heard(N, roles)
        stale == IF removeUnseen THEN {} ELSE Favorites(N, roles) \ heard
    IN (IF heard = {} THEN <<>> ELSE <<BulkJob(N, heard, "set_favorite", TRUE, dry)>>)
       \o (IF stale = {} THEN <<>> ELSE <<BulkJob(N, stale, "remove_favorite", TRUE, dry)>>)

\* One job sets what is heard, one removes what is favourite and not heard.
RefreshJobs(N, roles, removeUnseen, dry) ==
    LET heard == Heard(N, roles)
        stale == IF removeUnseen THEN Favorites(N, roles) \ heard ELSE {}
    IN (IF heard = {} THEN <<>> ELSE <<BulkJob(N, heard, "set_favorite", TRUE, dry)>>)
       \o (IF stale = {} THEN <<>> ELSE <<BulkJob(N, stale, "remove_favorite", TRUE, dry)>>)

Refresh(N, roles, removeUnseen, dry) ==
    LET jobs == RefreshJobs(N, roles, removeUnseen, dry) IN jobs # <<>> /\ Queue(jobs)

\* The page of one node: some of what it hears, itself not excluded.
ZeroHopNodeDB == \E r \in Radios, roles \in RoleSets, action \in Actions, dry \in BOOLEAN :
    \E targets \in SUBSET Heard({r}, roles) \ {{}} :
        Queue(<<[bulk |-> FALSE, dests |-> {r}, targets |-> targets, action |-> action,
                 refresh |-> FALSE, dry |-> dry]>>)

-----------------------------------------------------------------------------
(* Jobs: _run_bulk_nodedb_job and _run_node_nodedb_job.                    *)

\* Everything but jobs and radios stays.
Work(w, label) == wpc' = [wpc EXCEPT ![w] = label] /\ UNCHANGED <<events, requests, fetched>>

Start(w) ==
    /\ wpc[w] = "idle" /\ queue # <<>>
    /\ Work(w, "dest")
    /\ running' = [running EXCEPT ![w] = Head(queue)]
    /\ queue' = Tail(queue)
    /\ left' = [left EXCEPT ![w] = InOrder(Head(queue).dests)]
    /\ UNCHANGED <<nodeDB, copy, togo, refused, tally, snapshot>>

TargetsOn_mutant(w, r) == running[w].targets

\* Bulk jobs leave a radio's own entry alone.
TargetsOn(w, r) == running[w].targets \ (IF running[w].bulk THEN {r} ELSE {})

Record_mutant(w, failed) ==
    /\ Work(w, "dest")
    /\ left' = IF failed THEN left ELSE [left EXCEPT ![w] = Tail(@)]
    /\ tally' = [tally EXCEPT ![w] = [ok |-> @.ok \/ ~failed, failed |-> @.failed \/ failed]]
    /\ refused' = [refused EXCEPT ![w] = FALSE]
    /\ togo' = [togo EXCEPT ![w] = {}]
    /\ UNCHANGED <<nodeDB, copy, queue, running, snapshot>>

Record(w, failed) ==
    /\ Work(w, "dest")
    /\ left' = [left EXCEPT ![w] = Tail(@)]
    /\ tally' = [tally EXCEPT ![w] = [ok |-> @.ok \/ ~failed, failed |-> @.failed \/ failed]]
    /\ refused' = [refused EXCEPT ![w] = FALSE]
    /\ togo' = [togo EXCEPT ![w] = {}]
    /\ UNCHANGED <<nodeDB, copy, queue, running, snapshot>>

AtDest(w) == wpc[w] = "dest" /\ left[w] # <<>>

SkipDest(w) ==
    /\ AtDest(w) /\ TargetsOn(w, Head(left[w])) = {}
    /\ Record(w, FALSE)

Connect(w) ==
    /\ AtDest(w) /\ TargetsOn(w, Head(left[w])) # {}
    /\ Work(w, "target")
    /\ togo' = [togo EXCEPT ![w] = TargetsOn(w, Head(left[w]))]
    /\ UNCHANGED <<nodeDB, copy, queue, running, left, refused, tally, snapshot>>

ConnectFails(w) ==
    /\ "connect" \in MayFail
    /\ AtDest(w) /\ TargetsOn(w, Head(left[w])) # {}
    /\ Record(w, TRUE)

\* What a radio does with an admin message; it knows no favourites that it
\* does not know as nodes.
Changed(contents, action, p) ==
    CASE action = "set_favorite" -> [contents EXCEPT !.fav = @ \cup ({p} \cap contents.seen)]
      [] action = "remove_favorite" -> [contents EXCEPT !.fav = @ \ {p}]
      [] action = "remove_node" ->
           [seen |-> contents.seen \ {p}, near |-> contents.near \ {p}, fav |-> contents.fav \ {p}]

\* One target: the radio applies it and acknowledges, refuses it, or applies it
\* and the acknowledgement is lost.  A failure is counted, the loop goes on.
Mutate_mutant(w) == \E outcome \in {"ack", "nack", "lost"} :
    LET r == Head(left[w]) p == Head(InOrder(togo[w])) IN
    /\ wpc[w] = "target" /\ togo[w] # {}
    /\ outcome = "nack" => "nack" \in MayFail
    /\ outcome = "lost" => "ack" \in MayFail
    /\ nodeDB' = IF outcome = "nack" \/ running[w].dry THEN nodeDB
                 ELSE [nodeDB EXCEPT ![r] = Changed(@, running[w].action, p)]
    /\ refused' = [refused EXCEPT ![w] = outcome # "ack"]
    /\ togo' = [togo EXCEPT ![w] = @ \ {p}]
    /\ Work(w, "target")
    /\ UNCHANGED <<copy, queue, running, left, tally, snapshot>>

Mutate(w) == \E outcome \in {"ack", "nack", "lost"} :
    LET r == Head(left[w]) p == Head(InOrder(togo[w])) IN
    /\ wpc[w] = "target" /\ togo[w] # {}
    /\ outcome = "nack" => "nack" \in MayFail /\ ~running[w].dry
    /\ outcome = "lost" => "ack" \in MayFail /\ ~running[w].dry
    /\ nodeDB' = IF outcome = "nack" \/ running[w].dry THEN nodeDB
                 ELSE [nodeDB EXCEPT ![r] = Changed(@, running[w].action, p)]
    /\ refused' = [refused EXCEPT ![w] = @ \/ outcome # "ack"]
    /\ togo' = [togo EXCEPT ![w] = @ \ {p}]
    /\ Work(w, "target")
    /\ UNCHANGED <<copy, queue, running, left, tally, snapshot>>

\* The result of the destination; its audit row may fail to be stored.
DestDone(w) == \E commit \in {"ok"} \cup (MayFail \cap {"commit"}) :
    /\ wpc[w] = "target" /\ togo[w] = {}
    /\ Record(w, refused[w] \/ commit # "ok")

\* The thread is free.
Finish(w) ==
    /\ Work(w, "idle")
    /\ running' = [running EXCEPT ![w] = NoJob]
    /\ left' = [left EXCEPT ![w] = <<>>]
    /\ tally' = [tally EXCEPT ![w] = NoTally]
    /\ UNCHANGED <<nodeDB, copy, queue, togo, refused, snapshot>>

Resyncs(w) == running[w].refresh /\ ~running[w].dry /\ tally[w].ok

JobDone(w) ==
    /\ wpc[w] = "dest" /\ left[w] = <<>> /\ ~Resyncs(w)
    /\ Finish(w)

StartSync_mutant(w) ==
    /\ wpc[w] = "dest" /\ left[w] = <<>> /\ Resyncs(w)
    /\ Work(w, "sync")
    /\ left' = [left EXCEPT ![w] = Order]
    /\ UNCHANGED <<nodeDB, copy, queue, running, togo, refused, tally, snapshot>>

\* After a refresh: sync_all, if any destination succeeded.  It takes the
\* radios that the inventory has as reachable just then.
StartSync(w) == \E reachable \in SUBSET Radios :
    /\ wpc[w] = "dest" /\ left[w] = <<>> /\ Resyncs(w)
    /\ Work(w, "sync")
    /\ left' = [left EXCEPT ![w] = InOrder(reachable)]
    /\ UNCHANGED <<nodeDB, copy, queue, running, togo, refused, tally, snapshot>>

AtSync(w) == wpc[w] = "sync" /\ left[w] # <<>>

SyncRead(w) ==
    /\ AtSync(w)
    /\ Work(w, "write")
    /\ snapshot' = [snapshot EXCEPT ![w] = nodeDB[Head(left[w])]]
    /\ UNCHANGED <<nodeDB, copy, queue, running, left, togo, refused, tally>>

SyncFails(w) ==
    /\ "sync" \in MayFail /\ AtSync(w)
    /\ Work(w, "sync")
    /\ left' = [left EXCEPT ![w] = Tail(@)]
    /\ tally' = [tally EXCEPT ![w].failed = TRUE]
    /\ UNCHANGED <<nodeDB, copy, queue, running, togo, refused, snapshot>>

SyncWrite_mutant(w) ==
    /\ wpc[w] = "write"
    /\ Work(w, "sync")
    /\ left' = [left EXCEPT ![w] = Tail(@)]
    /\ snapshot' = [snapshot EXCEPT ![w] = Nothing]
    /\ UNCHANGED <<nodeDB, copy, queue, running, togo, refused, tally>>

SyncWrite(w) ==
    /\ wpc[w] = "write"
    /\ Work(w, "sync")
    /\ copy' = [copy EXCEPT ![Head(left[w])] = snapshot[w]]
    /\ left' = [left EXCEPT ![w] = Tail(@)]
    /\ snapshot' = [snapshot EXCEPT ![w] = Nothing]
    /\ UNCHANGED <<nodeDB, queue, running, togo, refused, tally>>

SyncDone(w) ==
    /\ wpc[w] = "sync" /\ left[w] = <<>>
    /\ Finish(w)

JobStep(w) ==
    \/ Start(w) \/ SkipDest(w) \/ Connect(w) \/ ConnectFails(w) \/ Mutate(w) \/ DestDone(w)
    \/ JobDone(w) \/ StartSync(w) \/ SyncRead(w) \/ SyncFails(w) \/ SyncWrite(w) \/ SyncDone(w)

-----------------------------------------------------------------------------
(* The visibility page, a summary of the copies.                           *)

\* The managed nodes that a node hears directly, and those it marks.
Visible(r) == (copy[r].near \cap Radios) \ {r}
Marked(r) == Visible(r) \cap copy[r].fav

Links(r) == LET peers == InOrder(Visible(r)) IN [k \in DOMAIN peers |-> <<r, peers[k]>>]

\* The peers of each row of the page, from the first row to the last.
Rows ==
    LET radios == InOrder(Radios)
        rows[i \in 0..Len(radios)] ==
          IF i = 0 THEN <<>> ELSE rows[i - 1] \o Links(radios[i])
    IN rows[Len(radios)]

PairKey_mutant(r, s) == <<r, s>>

\* A pair is kept once, for whichever side comes first.
PairKey(r, s) == {r, s}

AddRow(pairs, row) ==
    LET r == row[1] s == row[2] IN
    IF r \notin Visible(s) THEN [pairs EXCEPT !.oneWay = Append(pairs.oneWay, row)]
    ELSE IF PairKey(r, s) \in pairs.keys THEN pairs
    ELSE [oneWay |-> pairs.oneWay,
          keys |-> pairs.keys \cup {PairKey(r, s)},
          mutual |-> Append(pairs.mutual, [left |-> r, right |-> s,
                                           leftMarks |-> s \in Marked(r),
                                           rightMarks |-> r \in Marked(s)])]

Pairs ==
    LET rows == Rows
        pairs[i \in 0..Len(rows)] ==
          IF i = 0 THEN [keys |-> {}, mutual |-> <<>>, oneWay |-> <<>>]
          ELSE AddRow(pairs[i - 1], rows[i])
    IN pairs[Len(rows)]

Gaps(r) == Cardinality(Visible(r)) - Cardinality(Marked(r))
Covered(r) == Visible(r) # {} /\ Gaps(r) = 0

-----------------------------------------------------------------------------
(* History.                                                                *)

\* Whether a peer is, on a radio, what the action makes it.  Of a node that the
\* radio does not know there is nothing to make.
AsWanted(contents, action, p) ==
    CASE action = "set_favorite" -> p \in contents.fav \/ p \notin contents.seen
      [] action = "remove_favorite" -> p \notin contents.fav
      [] action = "remove_node" -> p \notin contents.seen

Reach == reached' =
    [w \in Workers |->
        IF wpc'[w] # "target" THEN {}
        ELSE reached[w] \cup {p \in TargetsOn(w, Head(left[w])) :
                                AsWanted(nodeDB'[Head(left[w])], running[w].action, p)}]

\* A refresh counts from a request that finds no jobs, and copies that are up to
\* date, until the mesh changes, another request comes or something fails.
RefreshRequest == \E N \in SUBSET Radios \ {{}}, roles \in RoleSets,
                     removeUnseen \in BOOLEAN, dry \in BOOLEAN :
    /\ Refresh(N, roles, removeUnseen, dry)
    /\ refresh' =
         IF Quiet /\ removeUnseen /\ ~dry /\ \A r \in N : copy[r] = nodeDB[r]
         THEN [on |-> TRUE, dests |-> N, roles |-> roles, targets |-> Heard(N, roles),
               synced |-> Radios, late |-> {}]
         ELSE NoRefresh

Failed(w) == tally'[w].failed \/ refused'[w]

\* What a refresh remembers of synchronisations: the radios that the last
\* sync_all of its jobs has taken, all before the first one; and which radios
\* had changed between the reading and the storing of their last one.
Taken(r, S) == IF r.on THEN [r EXCEPT !.synced = S] ELSE r
Stored(r, radio, found) ==
    IF ~r.on THEN r
    ELSE [r EXCEPT !.late = IF found = nodeDB[radio] THEN @ \ {radio} ELSE @ \cup {radio}]

JobStepRecorded(w) ==
    /\ JobStep(w)
    /\ refresh' = IF Failed(w) THEN NoRefresh
                  ELSE CASE wpc[w] = "dest" /\ wpc'[w] = "sync" -> Taken(refresh, ToSet(left'[w]))
                         [] wpc[w] = "write" -> Stored(refresh, Head(left[w]), snapshot[w])
                         [] OTHER -> refresh

Next ==
    /\ \/ (Hear \/ RoutingFavorites \/ ZeroHopNodeDB) /\ refresh' = NoRefresh
       \/ Fetch /\ UNCHANGED refresh
       \/ \E reading \in fetched :
             Store(reading) /\ refresh' = Stored(refresh, reading.radio, reading.found)
       \/ RefreshRequest
       \/ \E w \in Workers : JobStepRecorded(w)
    /\ Reach

Spec == Init /\ [][Next]_vars

\* A thread goes on with the job it has taken; radios answer or time out.
FairSpec == Spec /\ \A w \in Workers : WF_vars(wpc[w] # "idle" /\ JobStepRecorded(w) /\ Reach)
=============================================================================
