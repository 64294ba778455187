--------------------------- MODULE NodeOperations ---------------------------
(***************************************************************************)
(* Sessions with the radios.  A patch session (operations/service.py       *)
(* apply_patch, run by the patch jobs of jobs/queue.py or by               *)
(* POST /api/batch/patch) reads a node's row, connects to its radio,       *)
(* writes to it, and records in the row what it wrote.  A synchronisation  *)
(* (sync/service.py) connects, reads the radio and overwrites the row.     *)
(* Each session is a thread with a database session of its own; nothing    *)
(* keeps two of them off the same node.                                    *)
(***************************************************************************)
EXTENDS Naturals, FiniteSets

CONSTANTS
    Nodes,          \* managed nodes, each with its radio
    Patchers,       \* threads that run one patch request each, over some nodes
    Batches,        \* those of them that serve POST /api/batch/patch
    Syncers,        \* threads that synchronise, again and again
    Processes,
    ProcessOf,      \* the operating system process of each thread
    Requests,       \* the patches: attributes to set, and whether it is a dry run
    Retries,        \* provider_connect_retries
    MayFail,        \* subset of Failures: what goes wrong in this deployment
    Fields          \* the configuration fields looked at, of Settings

Sessions == Patchers \cup Syncers

\* commit: a commit raises; write: a session breaks while it writes to the
\* radio; partial: a radio's configuration does not arrive in full; refuse: a
\* radio cannot be reached; kill: a process is killed.
Failures == {"commit", "write", "partial", "refuse", "kill"}

\* What a patch may set.  Two fields of one configuration section and one of
\* another stand for localConfig, moduleConfig and channels: each section, or
\* channel, is one message to the radio.
Columns == {"name", "role", "favorite", "position", "altitude"}
Settings == {"hopLimit", "region", "mqttRoot"}
Cells == Columns \cup Fields
Section(f) == IF f = "mqttRoot" THEN "mqtt" ELSE "lora"

\* The attributes a patch makes the radio take.  The role is none of them.
Sent == {"name", "position", "altitude"} \cup Fields

ASSUME OperationsAssumption ==
    /\ Batches \subseteq Patchers
    /\ Patchers \cap Syncers = {}
    /\ ProcessOf \in [Sessions -> Processes]
    /\ Requests \subseteq [cells : SUBSET Cells, dry : BOOLEAN]
    /\ Retries \in Nat
    /\ MayFail \subseteq Failures
    /\ Fields \subseteq Settings

VARIABLES
    radio,          \* environment: the attributes each radio has
    row,            \* managed_nodes: columns and the fields in raw_metadata
    pc,
    at,             \* the node a session works on; all of them for the mark
    todo,           \* the nodes it has still to do
    req,            \* the request of a patcher
    full,           \* syncers: sync_all rather than sync_node
    seen,           \* the rows as the session's ORM has loaded them
    view,           \* the radio as the session saw it when it connected
    left,           \* the writes to the radio still to be made
    tries,          \* connects that failed
    timeout,        \* per process: socket.getdefaulttimeout()
    previous,       \* the value a thread will restore
    crossed,        \* history: sessions in a connect that overlapped another of
                    \* their process
    unscoped,       \* history: processes in which connects have overlapped
    poisoned,       \* database sessions that need a rollback before any use
    outcome,        \* what a patcher reports for each node
    tainted,        \* history: sessions that overlapped another on their node,
                    \* or saw only part of the configuration
    doubtful        \* history: nodes where a tainted or broken session ended
                    \* since the last sound synchronisation

tables == <<radio, row>>
plan == <<todo, req, full>>
session == <<at, seen, view, left, tries>>
sockets == <<timeout, previous, crossed, unscoped>>
results == <<poisoned, outcome>>
history == <<tainted, doubtful>>
vars == <<tables, pc, plan, session, sockets, results, history>>

\* A patcher writes itself as the value; altitude zero is what the radio is
\* told when a position comes without an altitude; default is what a message
\* holds for a field that did not arrive.
Values == {"old", "zero", "default", "yes"} \cup Patchers

Row == [Cells -> Values]
Writes == {"owner", "position", "lora", "mqtt"}
Labels == {"idle", "next", "connect", "opening", "write", "load", "commit",
           "audit", "mark", "marking", "done"}

TypeOK ==
    /\ radio \in [Nodes -> Row]
    /\ row \in [Nodes -> Row]
    /\ pc \in [Sessions -> Labels]
    /\ at \in [Sessions -> SUBSET Nodes]
    /\ todo \in [Sessions -> SUBSET Nodes]
    /\ req \in [Patchers -> [cells : SUBSET Cells, dry : BOOLEAN]]
    /\ full \in [Syncers -> BOOLEAN]
    /\ seen \in [Sessions -> [Nodes -> Row]]
    /\ view \in [Sessions -> Row]
    /\ left \in [Patchers -> SUBSET Writes]
    /\ tries \in [Sessions -> 0..Retries]
    /\ timeout \in [Processes -> {"none", "set"}]
    /\ previous \in [Sessions -> {"none", "set"}]
    /\ crossed \subseteq Sessions
    /\ unscoped \subseteq Processes
    /\ poisoned \subseteq Batches
    /\ outcome \in [Patchers -> [Nodes -> {"none", "success", "failed"}]]
    /\ tainted \subseteq Sessions
    /\ doubtful \subseteq Nodes

Blank == [c \in Cells |-> "old"]
Unread == [n \in Nodes |-> Blank]
Nothing == [cells |-> {}, dry |-> FALSE]

Init ==
    /\ radio = Unread
    /\ row = Unread
    /\ pc = [s \in Sessions |-> "idle"]
    /\ at = [s \in Sessions |-> {}]
    /\ todo = [s \in Sessions |-> {}]
    /\ req = [p \in Patchers |-> Nothing]
    /\ full = [s \in Syncers |-> FALSE]
    /\ seen = [s \in Sessions |-> Unread]
    /\ view = [s \in Sessions |-> Blank]
    /\ left = [p \in Patchers |-> {}]
    /\ tries = [s \in Sessions |-> 0]
    /\ timeout = [q \in Processes |-> "none"]
    /\ previous = [s \in Sessions |-> "none"]
    /\ crossed = {}
    /\ unscoped = {}
    /\ poisoned = {}
    /\ outcome = [p \in Patchers |-> [n \in Nodes |-> "none"]]
    /\ tainted = {}
    /\ doubtful = {}

Goto(s, label) == pc' = [pc EXCEPT ![s] = label]
Move(s, from, to) == pc[s] = from /\ Goto(s, to)

On(n) == {s \in Sessions : n \in at[s]}

\* Session s turns to the nodes N; whoever is there already overlaps with it.
Enter(s, N) ==
    LET others == UNION {On(n) : n \in N} IN
    /\ at' = [at EXCEPT ![s] = N]
    /\ tainted' = IF others = {} THEN tainted ELSE tainted \cup {s} \cup others

\* Session s is done with its nodes and forgets them.  Broken says that the
\* radio or the row may have got less than the other; sound, that the row was
\* taken from the radio.
Leave(s, broken, sound) ==
    /\ at' = [at EXCEPT ![s] = {}]
    /\ tainted' = tainted \ {s}
    /\ doubtful' = IF broken \/ s \in tainted THEN doubtful \cup at[s]
                   ELSE IF sound THEN doubtful \ at[s] ELSE doubtful
    /\ seen' = [seen EXCEPT ![s] = Unread]
    /\ view' = [view EXCEPT ![s] = Blank]
    /\ tries' = [tries EXCEPT ![s] = 0]

Abandon(p) == left' = [left EXCEPT ![p] = {}]

-----------------------------------------------------------------------------
(* Connecting, for patchers and syncers alike.                             *)

TakeTimeout(s) ==
    /\ previous' = [previous EXCEPT ![s] = timeout[ProcessOf[s]]]
    /\ timeout' = [timeout EXCEPT ![ProcessOf[s]] = "set"]

RestoreTimeout_mutant(s) ==
    /\ previous' = [previous EXCEPT ![s] = "none"]
    /\ UNCHANGED timeout

RestoreTimeout(s) ==
    /\ timeout' = [timeout EXCEPT ![ProcessOf[s]] = previous[s]]
    /\ previous' = [previous EXCEPT ![s] = "none"]

\* Who else of the process is within a connect now.
Beside(s) == {t \in Sessions \ {s} : ProcessOf[t] = ProcessOf[s] /\ pc[t] = "opening"}

Cross(s) ==
    IF Beside(s) = {} THEN UNCHANGED <<crossed, unscoped>>
    ELSE /\ crossed' = crossed \cup {s} \cup Beside(s)
         /\ unscoped' = unscoped \cup {ProcessOf[s]}

Uncross(s) == crossed' = crossed \ {s} /\ UNCHANGED unscoped

Open(s) ==
    /\ Move(s, "connect", "opening")
    /\ TakeTimeout(s)
    /\ Cross(s)
    /\ UNCHANGED <<tables, plan, session, results, history>>

\* Some attributes make apply_patch connect, those that are not only local.
Remote(p) == req[p].cells \cap ({"name", "role", "position"} \cup Fields) # {}

Messages_mutant(p) ==
    LET asked == req[p].cells IN
    IF req[p].dry THEN {}
    ELSE {m \in Writes : \/ m = "owner" /\ "name" \in asked
                         \/ \E f \in asked \cap Fields : m = Section(f)}

\* What a patch sends to the radio, of what it is asked for.
Messages(p) ==
    LET asked == req[p].cells IN
    IF req[p].dry THEN {}
    ELSE {m \in Writes : \/ m = "owner" /\ "name" \in asked
                         \/ m = "position" /\ "position" \in asked
                         \/ \E f \in asked \cap Fields : m = Section(f)}

\* What follows the connect: a patch writes, a synchronisation loads the row
\* it will overwrite, unless sync_node has loaded it before.
AfterConnect(s) ==
    IF s \in Syncers THEN IF full[s] THEN "load" ELSE "commit"
    ELSE IF Messages(s) = {} THEN "commit" ELSE "write"

\* The session is there.  Of the configuration, the sections in missing did
\* not arrive, which waitForConfig reports and connect ignores.  Sections come
\* in their order, so that the last ones are missing.
Opened(s, missing) ==
    /\ Move(s, "opening", AfterConnect(s))
    /\ RestoreTimeout(s)
    /\ Uncross(s)
    /\ missing # {} => "partial" \in MayFail
    /\ \E n \in at[s] :
          view' = [view EXCEPT ![s] = [c \in Cells |->
                      IF c \in Fields /\ Section(c) \in missing THEN "default"
                      ELSE radio[n][c]]]
    /\ tainted' = IF missing = {} THEN tainted ELSE tainted \cup {s}
    /\ left' = IF s \in Patchers THEN [left EXCEPT ![s] = Messages(s)] ELSE left
    /\ tries' = [tries EXCEPT ![s] = 0]
    /\ UNCHANGED <<tables, plan, at, seen, results, doubtful>>

Refused_mutant(s) ==
    /\ "refuse" \in MayFail
    /\ tries[s] <= Retries
    /\ Move(s, "opening", "connect")
    /\ RestoreTimeout(s)
    /\ Uncross(s)
    /\ tries' = [tries EXCEPT ![s] = @ + 1]
    /\ UNCHANGED <<tables, plan, at, seen, view, left, results, history>>

Refused(s) ==
    /\ "refuse" \in MayFail
    /\ tries[s] < Retries
    /\ Move(s, "opening", "connect")
    /\ RestoreTimeout(s)
    /\ Uncross(s)
    /\ tries' = [tries EXCEPT ![s] = @ + 1]
    /\ UNCHANGED <<tables, plan, at, seen, view, left, results, history>>

\* connect has no try left and raises.
GaveUp(s) ==
    /\ "refuse" \in MayFail
    /\ tries[s] = Retries
    /\ RestoreTimeout(s)
    /\ Uncross(s)
    /\ Leave(s, FALSE, FALSE)
    /\ IF s \in Patchers
       THEN /\ Move(s, "opening", "next")
            /\ outcome' = [outcome EXCEPT ![s] = [n \in Nodes |->
                              IF n \in at[s] THEN "failed" ELSE @[n]]]
       ELSE /\ Move(s, "opening", IF full[s] THEN "next" ELSE "idle")
            /\ UNCHANGED outcome
    /\ UNCHANGED <<tables, plan, left, poisoned>>

-----------------------------------------------------------------------------
(* Patches.                                                                *)

Report(p, result) ==
    outcome' = [outcome EXCEPT ![p] = [n \in Nodes |->
                   IF n \in at[p] THEN result ELSE @[n]]]

\* A request arrives: what to set, and on which nodes.
Begin(p) ==
    /\ Move(p, "idle", "next")
    /\ \E r \in Requests : req' = [req EXCEPT ![p] = r]
    /\ \E N \in SUBSET Nodes \ {{}} : todo' = [todo EXCEPT ![p] = N]
    /\ UNCHANGED <<tables, full, session, sockets, results, history>>

\* apply_patch for the next node, from db.get to the connect.
Pick(p, n) ==
    /\ n \in todo[p]
    /\ p \notin poisoned
    /\ Move(p, "next", IF Remote(p) THEN "connect" ELSE "commit")
    /\ todo' = [todo EXCEPT ![p] = @ \ {n}]
    /\ Enter(p, {n})
    /\ seen' = [seen EXCEPT ![p][n] = row[n]]
    /\ UNCHANGED <<tables, req, full, view, left, tries, sockets, results, doubtful>>

\* A poisoned session cannot even read the node.
PickPoisoned(p, n) ==
    /\ n \in todo[p]
    /\ p \in poisoned
    /\ pc[p] = "next"
    /\ todo' = [todo EXCEPT ![p] = @ \ {n}]
    /\ outcome' = [outcome EXCEPT ![p][n] = "failed"]
    /\ UNCHANGED <<tables, pc, req, full, session, sockets, poisoned, history>>

Told_mutant(p, m, n) ==
    LET asked == req[p].cells IN
    [c \in Cells |->
        CASE m = "owner" /\ c = "name" -> p
          [] m = "position" /\ c = "position" -> p
          [] m = "position" /\ c = "altitude" -> IF c \in asked THEN p ELSE "zero"
          [] c \in Fields /\ m = Section(c) -> IF c \in asked THEN p ELSE seen[p][n][c]
          [] OTHER -> radio[n][c]]

\* The radio's attributes after message m: a section is written as a whole,
\* with what the session saw of it where the patch asks for nothing.
Told(p, m, n) ==
    LET asked == req[p].cells IN
    [c \in Cells |->
        CASE m = "owner" /\ c = "name" -> p
          [] m = "position" /\ c = "position" -> p
          [] m = "position" /\ c = "altitude" -> IF c \in asked THEN p ELSE "zero"
          [] c \in Fields /\ m = Section(c) -> IF c \in asked THEN p ELSE view[p][c]
          [] OTHER -> radio[n][c]]

\* Messages are sent in this order.
Rank == [owner |-> 1, position |-> 2, lora |-> 3, mqtt |-> 4]
IsNext(p, m) == m \in left[p] /\ \A k \in left[p] : Rank[m] <= Rank[k]

Write(p, m) ==
    /\ IsNext(p, m)
    /\ Move(p, "write", IF left[p] = {m} THEN "commit" ELSE "write")
    /\ left' = [left EXCEPT ![p] = @ \ {m}]
    /\ radio' = [n \in Nodes |-> IF n \in at[p] THEN Told(p, m, n) ELSE radio[n]]
    /\ UNCHANGED <<row, plan, at, seen, view, tries, sockets, results, history>>

\* The session breaks on message m, which the radio may have got.
WriteFails(p, m) ==
    /\ "write" \in MayFail
    /\ IsNext(p, m)
    /\ Move(p, "write", "next")
    /\ \/ radio' = [n \in Nodes |-> IF n \in at[p] THEN Told(p, m, n) ELSE radio[n]]
       \/ UNCHANGED radio
    /\ Leave(p, TRUE, FALSE)
    /\ Abandon(p)
    /\ Report(p, "failed")
    /\ UNCHANGED <<row, plan, sockets, poisoned>>

Recorded_mutant(p) ==
    IF req[p].dry THEN {} ELSE IF Remote(p) THEN req[p].cells \cap Columns
    ELSE req[p].cells \cap {"favorite"}

\* The attributes a commit records.  A dry run skips the columns but neither
\* the altitude nor what is merged into raw_metadata.
Recorded(p) ==
    LET asked == req[p].cells IN
    IF Remote(p) THEN IF req[p].dry THEN asked \cap (Fields \cup {"altitude"}) ELSE asked
    ELSE IF req[p].dry THEN {} ELSE asked \cap {"favorite"}

\* raw_metadata is one column: written whole, with the fields as loaded.
Patched(p, n) ==
    [c \in Cells |->
        CASE c \in Recorded(p) -> p
          [] c \in Fields \ Recorded(p) /\ Recorded(p) \cap Fields # {} -> seen[p][n][c]
          [] OTHER -> row[n][c]]

Commit(p) ==
    /\ p \in Patchers
    /\ Move(p, "commit", "audit")
    /\ row' = [n \in Nodes |-> IF n \in at[p] THEN Patched(p, n) ELSE row[n]]
    /\ UNCHANGED <<radio, plan, session, sockets, results, history>>

\* The job runners roll back; the loop of the batch request does not.
MayPoison(p) == \/ p \in Batches /\ poisoned' = poisoned \cup {p}
                \/ UNCHANGED poisoned

CommitFails(p) ==
    /\ "commit" \in MayFail
    /\ p \in Patchers
    /\ Remote(p) \/ Recorded(p) # {}
    /\ Move(p, "commit", "next")
    /\ MayPoison(p)
    /\ Leave(p, TRUE, FALSE)
    /\ Report(p, "failed")
    /\ UNCHANGED <<tables, plan, left, sockets>>

Audit(p) ==
    /\ p \in Patchers
    /\ Move(p, "audit", "next")
    /\ Leave(p, FALSE, FALSE)
    /\ Report(p, "success")
    /\ UNCHANGED <<tables, plan, left, sockets, poisoned>>

\* The node is reported as failed although radio and row are written.
AuditFails(p) ==
    /\ "commit" \in MayFail
    /\ p \in Patchers
    /\ Move(p, "audit", "next")
    /\ MayPoison(p)
    /\ Leave(p, FALSE, FALSE)
    /\ Report(p, "failed")
    /\ UNCHANGED <<tables, plan, left, sockets>>

\* The last node is done: the results are handed out, the database session
\* is closed.
End(p) ==
    /\ p \in Patchers
    /\ todo[p] = {}
    /\ Move(p, "next", "done")
    /\ req' = [req EXCEPT ![p] = Nothing]
    /\ outcome' = [outcome EXCEPT ![p] = [n \in Nodes |-> "none"]]
    /\ poisoned' = poisoned \ {p}
    /\ UNCHANGED <<tables, todo, full, session, sockets, history>>

-----------------------------------------------------------------------------
(* Synchronisations.                                                       *)

\* sync_all takes the nodes N that the inventory has as reachable just then.
SyncAll(s, N) ==
    /\ s \in Syncers
    /\ Move(s, "idle", "next")
    /\ todo' = [todo EXCEPT ![s] = N]
    /\ full' = [full EXCEPT ![s] = TRUE]
    /\ UNCHANGED <<tables, req, session, sockets, results, history>>

\* sync_node has loaded the node before it connects.
SyncNode(s, n) ==
    /\ s \in Syncers
    /\ Move(s, "idle", "connect")
    /\ full' = [full EXCEPT ![s] = FALSE]
    /\ Enter(s, {n})
    /\ seen' = [seen EXCEPT ![s][n] = row[n]]
    /\ UNCHANGED <<tables, todo, req, view, left, tries, sockets, results, doubtful>>

Turn(s, n) ==
    /\ s \in Syncers
    /\ n \in todo[s]
    /\ Move(s, "next", "connect")
    /\ todo' = [todo EXCEPT ![s] = @ \ {n}]
    /\ Enter(s, {n})
    /\ UNCHANGED <<tables, req, full, seen, view, left, tries, sockets, results, doubtful>>

Load(s) ==
    /\ Move(s, "load", "commit")
    /\ seen' = [seen EXCEPT ![s] = [n \in Nodes |-> IF n \in at[s] THEN row[n] ELSE @[n]]]
    /\ UNCHANGED <<tables, plan, at, view, left, tries, sockets, results, history>>

Synced_mutant(s, n) ==
    LET found == [view[s] EXCEPT !["favorite"] = "yes"] IN
    [c \in Cells |-> IF c \in Columns /\ found[c] # seen[s][n][c] THEN found[c]
                     ELSE row[n][c]]

\* A column is written if it differs from the value loaded.  raw_metadata
\* always does.
Synced(s, n) ==
    LET found == [view[s] EXCEPT !["favorite"] = "yes"] IN
    [c \in Cells |-> IF c \in Fields \/ found[c] # seen[s][n][c] THEN found[c]
                     ELSE row[n][c]]

SyncCommit(s) ==
    /\ s \in Syncers
    /\ Move(s, "commit", IF full[s] THEN "next" ELSE "idle")
    /\ row' = [n \in Nodes |-> IF n \in at[s] THEN Synced(s, n) ELSE row[n]]
    /\ Leave(s, FALSE, TRUE)
    /\ UNCHANGED <<radio, plan, left, sockets, results>>

SyncFails(s) ==
    /\ "commit" \in MayFail
    /\ s \in Syncers
    /\ Move(s, "commit", IF full[s] THEN "next" ELSE "idle")
    /\ Leave(s, FALSE, FALSE)
    /\ UNCHANGED <<tables, plan, left, sockets, results>>

\* stale_mark reads all nodes, and writes the raw_metadata of those whose
\* freshness changed: the whole of it, as read.
MarkRead(s) ==
    /\ s \in Syncers
    /\ todo[s] = {}
    /\ Move(s, "next", "marking")
    /\ Enter(s, Nodes)
    /\ seen' = [seen EXCEPT ![s] = row]
    /\ UNCHANGED <<tables, plan, view, left, tries, sockets, results, doubtful>>

Marked(s, n) == [c \in Cells |-> IF c \in Fields THEN seen[s][n][c] ELSE row[n][c]]

MarkCommit(s, changed) ==
    /\ Move(s, "marking", "idle")
    /\ row' = [n \in Nodes |-> IF n \in changed THEN Marked(s, n) ELSE row[n]]
    /\ Leave(s, FALSE, FALSE)
    /\ UNCHANGED <<radio, plan, left, sockets, results>>

MarkFails(s) ==
    /\ "commit" \in MayFail
    /\ Move(s, "marking", "idle")
    /\ Leave(s, FALSE, FALSE)
    /\ UNCHANGED <<tables, plan, left, sockets, results>>

-----------------------------------------------------------------------------
\* A process is killed with all its threads.  Its syncers start again later;
\* the requests of its patchers are lost.
Kill(q) ==
    LET dead == {s \in Sessions : ProcessOf[s] = q /\ pc[s] \notin {"idle", "done"}} IN
    /\ "kill" \in MayFail
    /\ dead # {}
    /\ pc' = [s \in Sessions |-> IF s \notin dead THEN pc[s]
                                 ELSE IF s \in Patchers THEN "done" ELSE "idle"]
    /\ at' = [s \in Sessions |-> IF s \in dead THEN {} ELSE at[s]]
    /\ todo' = [s \in Sessions |-> IF s \in dead THEN {} ELSE todo[s]]
    /\ seen' = [s \in Sessions |-> IF s \in dead THEN Unread ELSE seen[s]]
    /\ view' = [s \in Sessions |-> IF s \in dead THEN Blank ELSE view[s]]
    /\ left' = [p \in Patchers |-> IF p \in dead THEN {} ELSE left[p]]
    /\ tries' = [s \in Sessions |-> IF s \in dead THEN 0 ELSE tries[s]]
    /\ timeout' = [timeout EXCEPT ![q] = "none"]
    /\ previous' = [s \in Sessions |-> IF s \in dead THEN "none" ELSE previous[s]]
    /\ crossed' = crossed \ dead
    /\ unscoped' = unscoped \ {q}
    /\ tainted' = tainted \ dead
    /\ doubtful' = doubtful \cup UNION {at[s] : s \in dead \cap (Patchers \cup tainted)}
    /\ req' = [p \in Patchers |-> IF p \in dead THEN Nothing ELSE req[p]]
    /\ outcome' = [p \in Patchers |-> IF p \in dead THEN [n \in Nodes |-> "none"] ELSE outcome[p]]
    /\ poisoned' = poisoned \ dead
    /\ UNCHANGED <<tables, full>>

Session(s) ==
    \/ Open(s)
    \/ \E missing \in {{}, {"mqtt"}, {"lora", "mqtt"}} : Opened(s, missing)
    \/ Refused(s) \/ GaveUp(s)

Patch(p) ==
    \/ Begin(p)
    \/ \E n \in Nodes : Pick(p, n) \/ PickPoisoned(p, n)
    \/ \E m \in Writes : Write(p, m) \/ WriteFails(p, m)
    \/ Commit(p) \/ CommitFails(p) \/ Audit(p) \/ AuditFails(p) \/ End(p)

Sync(s) ==
    \/ \E N \in SUBSET Nodes : SyncAll(s, N)
    \/ \E n \in Nodes : SyncNode(s, n) \/ Turn(s, n)
    \/ Load(s) \/ SyncCommit(s) \/ SyncFails(s)
    \/ MarkRead(s) \/ MarkFails(s)
    \/ \E changed \in SUBSET Nodes : MarkCommit(s, changed)

Next ==
    \/ \E s \in Sessions : Session(s)
    \/ \E p \in Patchers : Patch(p)
    \/ \E s \in Syncers : Sync(s)
    \/ \E q \in Processes : Kill(q)

Spec == Init /\ [][Next]_vars

\* Threads go on, sync_all is started again and again by the scheduler, and
\* each radio is at times among the reachable ones, answers at times in full,
\* and has at times its row saved from what it answered.
FairSpec ==
    /\ Spec
    /\ \A p \in Patchers : WF_vars((Session(p) \/ Patch(p)) /\ ~Begin(p))
    /\ \A s \in Syncers :
          /\ WF_vars((Session(s) \/ Sync(s)) /\ pc[s] # "idle")
          /\ \A n \in Nodes :
                /\ SF_vars(\E N \in SUBSET Nodes : n \in N /\ SyncAll(s, N))
                /\ SF_vars(Opened(s, {}) /\ full[s] /\ at[s] = {n})
                /\ SF_vars(SyncCommit(s) /\ full[s] /\ at[s] = {n} /\ view[s] = radio[n])
=============================================================================
