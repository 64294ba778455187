------------------------ MODULE NodeOperations_proofs ------------------------
(* For any nodes, threads and patches: types, the socket timeout, and what *)
(* a patch may make a radio take.                                          *)
EXTENDS NodeOperationsProps, TLAPS

USE OperationsAssumption DEF Sessions

-----------------------------------------------------------------------------
(* Types.                                                                  *)

LEMMA NamesOfCells == Columns \subseteq Cells /\ Fields \subseteq Cells /\ "favorite" \in Columns
BY DEF Cells, Columns

LEMMA SomeValues == {"old", "zero", "default", "yes"} \subseteq Values /\ Patchers \subseteq Values
BY DEF Values

LEMMA TypeInit == Init => TypeOK
BY SomeValues
   DEF Init, TypeOK, Unread, Blank, Nothing, Row, Labels

\* What Enter and Leave do to the variables they set.
LEMMA EnterType ==
    ASSUME TypeOK, NEW s \in Sessions, NEW N \in SUBSET Nodes, Enter(s, N)
    PROVE  at' \in [Sessions -> SUBSET Nodes] /\ tainted' \subseteq Sessions
BY DEF TypeOK, Enter, On

LEMMA LeaveType ==
    ASSUME TypeOK, NEW s \in Sessions, NEW broken \in BOOLEAN, NEW sound \in BOOLEAN,
           Leave(s, broken, sound)
    PROVE  /\ at' \in [Sessions -> SUBSET Nodes]
           /\ tainted' \subseteq Sessions
           /\ doubtful' \subseteq Nodes
           /\ seen' \in [Sessions -> [Nodes -> Row]]
           /\ view' \in [Sessions -> Row]
           /\ tries' \in [Sessions -> 0..Retries]
<1>1. Blank \in Row /\ Unread \in [Nodes -> Row]
  BY SomeValues DEF Blank, Row, Unread
<1> QED
  BY <1>1 DEF TypeOK, Leave

Outcomes == {"none", "success", "failed"}

LEMMA ReportType ==
    ASSUME TypeOK, NEW p \in Patchers, NEW result \in {"success", "failed"}, Report(p, result)
    PROVE  outcome' \in [Patchers -> [Nodes -> Outcomes]]
<1> DEFINE reported == [n \in Nodes |-> IF n \in at[p] THEN result ELSE outcome[p][n]]
<1>1. outcome' = [outcome EXCEPT ![p] = reported]
  BY DEF Report
<1>2. reported \in [Nodes -> Outcomes]
  BY DEF TypeOK, Outcomes
<1> QED
  BY <1>1, <1>2 DEF TypeOK, Outcomes

\* What a session sees of its radio, without the sections that are missing.
Received(n, missing) ==
    [c \in Cells |-> IF c \in Fields /\ Section(c) \in missing THEN "default"
                     ELSE radio[n][c]]

LEMMA TypeSession ==
    ASSUME TypeOK, NEW s \in Sessions, Session(s)
    PROVE  TypeOK'
<1>1. CASE Open(s)
  BY <1>1 DEF TypeOK, Open, Move, Goto, TakeTimeout, Cross, Beside, plan, session, tables, results,
              history, Labels
<1>2. ASSUME NEW missing, Opened(s, missing) PROVE TypeOK'
  <2>1. view' \in [Sessions -> Row]
    <3>1. PICK n \in at[s] : view' = [view EXCEPT ![s] = Received(n, missing)]
      BY <1>2 DEF Opened, Received
    <3>2. Received(n, missing) \in Row
      <4>1. radio[n] \in [Cells -> Values]
        BY DEF TypeOK, Row
      <4> QED
        BY <4>1, SomeValues DEF Received, Row
    <3> QED
      BY <3>1, <3>2 DEF TypeOK
  <2>2. pc' \in [Sessions -> Labels]
    BY <1>2 DEF TypeOK, Opened, Move, Goto, AfterConnect, Labels
  <2>3. left' \in [Patchers -> SUBSET Writes]
    BY <1>2 DEF TypeOK, Opened, Messages
  <2>4. tainted' \subseteq Sessions /\ tries' \in [Sessions -> 0..Retries]
    BY <1>2 DEF TypeOK, Opened
  <2>5. /\ timeout' \in [Processes -> {"none", "set"}] /\ previous' \in [Sessions -> {"none", "set"}]
        /\ crossed' \subseteq Sessions /\ unscoped' \subseteq Processes
    BY <1>2 DEF TypeOK, Opened, RestoreTimeout, Uncross
  <2>6. UNCHANGED <<tables, plan, at, seen, results, doubtful>>
    BY <1>2 DEF Opened
  <2> QED
    BY <2>1, <2>2, <2>3, <2>4, <2>5, <2>6 DEF TypeOK, plan, tables, results
<1>3. CASE Refused(s)
  BY <1>3 DEF TypeOK, Refused, Move, Goto, RestoreTimeout, Uncross, plan, tables, results, history, Labels
<1>4. CASE GaveUp(s)
  <2>1. pc' \in [Sessions -> Labels]
    BY <1>4 DEF TypeOK, GaveUp, Move, Goto, Labels
  <2>2. outcome' \in [Patchers -> [Nodes -> Outcomes]]
    <3>1. CASE s \in Patchers
      <4>1. Report(s, "failed")
        BY <1>4, <3>1 DEF GaveUp, Report
      <4> QED
        BY <3>1, <4>1, ReportType
    <3>2. CASE s \notin Patchers
      BY <1>4, <3>2 DEF TypeOK, GaveUp, Outcomes
    <3> QED
      BY <3>1, <3>2
  <2>3. /\ timeout' \in [Processes -> {"none", "set"}] /\ previous' \in [Sessions -> {"none", "set"}]
        /\ crossed' \subseteq Sessions /\ unscoped' \subseteq Processes
    BY <1>4 DEF TypeOK, GaveUp, RestoreTimeout, Uncross
  <2> QED
    BY <1>4, <2>1, <2>2, <2>3, LeaveType DEF TypeOK, GaveUp, plan, tables, Outcomes
<1> QED
  BY <1>1, <1>2, <1>3, <1>4 DEF Session

LEMMA TypePatch ==
    ASSUME TypeOK, NEW p \in Patchers, Patch(p)
    PROVE  TypeOK'
<1>0. p \in Sessions
  OBVIOUS
<1>1. CASE Begin(p)
  BY <1>1, <1>0 DEF TypeOK, Begin, Move, Goto, tables, session, sockets, results, history, Labels
<1>2. ASSUME NEW n \in Nodes, Pick(p, n) PROVE TypeOK'
  <2>1. at' \in [Sessions -> SUBSET Nodes] /\ tainted' \subseteq Sessions
    BY <1>0, <1>2, EnterType DEF Pick
  <2>2. seen' \in [Sessions -> [Nodes -> Row]]
    BY <1>0, <1>2 DEF TypeOK, Pick
  <2> QED
    BY <1>0, <1>2, <2>1, <2>2 DEF TypeOK, Pick, Move, Goto, tables, sockets, results, Labels
<1>3. ASSUME NEW n \in Nodes, PickPoisoned(p, n) PROVE TypeOK'
  BY <1>0, <1>3 DEF TypeOK, PickPoisoned, tables, session, sockets, history
<1>4. ASSUME NEW m \in Writes, NEW n \in Nodes PROVE Told(p, m, n) \in Row
  <2>1. /\ radio[n] \in [Cells -> Values] /\ view[p] \in [Cells -> Values]
        /\ p \in Values /\ "zero" \in Values
    BY <1>0, SomeValues DEF TypeOK, Row
  <2> QED
    BY <2>1 DEF Told, Row
<1>5. ASSUME NEW m \in Writes, Write(p, m) PROVE TypeOK'
  <2>1. radio' \in [Nodes -> Row]
    BY <1>4, <1>5 DEF TypeOK, Write
  <2> QED
    BY <1>0, <1>5, <2>1
       DEF TypeOK, Write, Move, Goto, plan, sockets, results, history, Labels
<1>6. ASSUME NEW m \in Writes, WriteFails(p, m) PROVE TypeOK'
  <2>1. radio' \in [Nodes -> Row]
    <3>1. CASE UNCHANGED radio
      BY <3>1 DEF TypeOK
    <3>2. CASE radio' = [n \in Nodes |-> IF n \in at[p] THEN Told(p, m, n) ELSE radio[n]]
      BY <1>4, <3>2 DEF TypeOK
    <3> QED
      BY <1>6, <3>1, <3>2 DEF WriteFails
  <2>2. outcome' \in [Patchers -> [Nodes -> Outcomes]]
    BY <1>6, ReportType DEF WriteFails
  <2> QED
    BY <1>0, <1>6, <2>1, <2>2, LeaveType
       DEF TypeOK, WriteFails, Abandon, Move, Goto, plan, sockets, Labels, Outcomes
<1>7. CASE Commit(p)
  <2>1. ASSUME NEW n \in Nodes PROVE Patched(p, n) \in Row
    <3>1. row[n] \in [Cells -> Values] /\ seen[p][n] \in [Cells -> Values] /\ p \in Values
      BY <1>0, SomeValues DEF TypeOK, Row
    <3> QED
      BY <3>1 DEF Patched, Row
  <2>2. row' \in [Nodes -> Row]
    BY <1>7, <2>1 DEF TypeOK, Commit
  <2> QED
    BY <1>0, <1>7, <2>2
       DEF TypeOK, Commit, Move, Goto, plan, session, sockets, results, history, Labels
<1>8. CASE CommitFails(p) \/ Audit(p) \/ AuditFails(p)
  <2>1. pc' \in [Sessions -> Labels]
    BY <1>0, <1>8 DEF TypeOK, CommitFails, Audit, AuditFails, Move, Goto, Labels
  <2>2. poisoned' \subseteq Batches /\ UNCHANGED <<tables, plan, left, sockets>>
    BY <1>8 DEF TypeOK, CommitFails, Audit, AuditFails, MayPoison
  <2>3. \E broken \in BOOLEAN : Leave(p, broken, FALSE)
    BY <1>8 DEF CommitFails, Audit, AuditFails
  <2>4. /\ at' \in [Sessions -> SUBSET Nodes] /\ tainted' \subseteq Sessions
        /\ doubtful' \subseteq Nodes /\ tries' \in [Sessions -> 0..Retries]
        /\ seen' \in [Sessions -> [Nodes -> Row]] /\ view' \in [Sessions -> Row]
    BY <1>0, <2>3, LeaveType
  <2>5. outcome' \in [Patchers -> [Nodes -> Outcomes]]
    BY <1>8, ReportType DEF CommitFails, Audit, AuditFails
  <2> QED
    BY <2>1, <2>2, <2>4, <2>5 DEF TypeOK, tables, plan, sockets, Outcomes
<1>9. CASE End(p)
  BY <1>0, <1>9 DEF TypeOK, End, Nothing, Move, Goto, tables, session, sockets, history, Labels
<1> QED
  BY <1>1, <1>2, <1>3, <1>5, <1>6, <1>7, <1>8, <1>9 DEF Patch

LEMMA TypeSync ==
    ASSUME TypeOK, NEW s \in Syncers, Sync(s)
    PROVE  TypeOK'
<1>1. CASE \E N \in SUBSET Nodes : SyncAll(s, N)
  BY <1>1 DEF TypeOK, SyncAll, Move, Goto, tables, session, sockets, results, history, Labels
<1>2. ASSUME NEW n \in Nodes, SyncNode(s, n) PROVE TypeOK'
  <2>1. at' \in [Sessions -> SUBSET Nodes] /\ tainted' \subseteq Sessions
    BY <1>2, EnterType DEF SyncNode
  <2>2. seen' \in [Sessions -> [Nodes -> Row]]
    BY <1>2 DEF TypeOK, SyncNode
  <2> QED
    BY <1>2, <2>1, <2>2 DEF TypeOK, SyncNode, Move, Goto, tables, sockets, results, Labels
<1>3. ASSUME NEW n \in Nodes, Turn(s, n) PROVE TypeOK'
  <2>1. at' \in [Sessions -> SUBSET Nodes] /\ tainted' \subseteq Sessions
    BY <1>3, EnterType DEF Turn
  <2> QED
    BY <1>3, <2>1 DEF TypeOK, Turn, Move, Goto, tables, sockets, results, Labels
<1>4. CASE Load(s)
  <2>1. seen' \in [Sessions -> [Nodes -> Row]]
    BY <1>4 DEF TypeOK, Load
  <2> QED
    BY <1>4, <2>1 DEF TypeOK, Load, Move, Goto, tables, plan, sockets, results, history, Labels
<1>5. ASSUME NEW n \in Nodes PROVE Synced(s, n) \in Row /\ Marked(s, n) \in Row
  <2>1. /\ row[n] \in [Cells -> Values] /\ seen[s][n] \in [Cells -> Values]
        /\ view[s] \in [Cells -> Values] /\ "yes" \in Values
    BY SomeValues DEF TypeOK, Row
  <2>2. [view[s] EXCEPT !["favorite"] = "yes"] \in [Cells -> Values]
    BY <2>1
  <2>3. Marked(s, n) \in Row
    BY <2>1 DEF Marked, Row
  <2> QED
    BY <2>1, <2>2, <2>3 DEF Synced, Row
<1>6. CASE SyncCommit(s) \/ SyncFails(s) \/ MarkFails(s) \/ \E changed \in SUBSET Nodes : MarkCommit(s, changed)
  <2>1. pc' \in [Sessions -> Labels] /\ UNCHANGED <<radio, plan, left, sockets, results>>
    BY <1>6 DEF TypeOK, SyncCommit, SyncFails, MarkFails, MarkCommit, Move, Goto, Labels, tables
  <2>2. row' \in [Nodes -> Row]
    <3>1. CASE SyncCommit(s)
      BY <1>5, <3>1 DEF TypeOK, SyncCommit
    <3>2. CASE SyncFails(s) \/ MarkFails(s)
      BY <3>2 DEF TypeOK, SyncFails, MarkFails, tables
    <3>3. ASSUME NEW changed, MarkCommit(s, changed) PROVE row' \in [Nodes -> Row]
      BY <1>5, <3>3 DEF TypeOK, MarkCommit
    <3> QED
      BY <1>6, <3>1, <3>2, <3>3
  <2>3. \E sound \in BOOLEAN : Leave(s, FALSE, sound)
    BY <1>6 DEF SyncCommit, SyncFails, MarkFails, MarkCommit
  <2>4. /\ at' \in [Sessions -> SUBSET Nodes] /\ tainted' \subseteq Sessions
        /\ doubtful' \subseteq Nodes /\ tries' \in [Sessions -> 0..Retries]
        /\ seen' \in [Sessions -> [Nodes -> Row]] /\ view' \in [Sessions -> Row]
    BY <2>3, LeaveType
  <2> QED
    BY <2>1, <2>2, <2>4 DEF TypeOK, plan, sockets, results
<1>7. CASE MarkRead(s)
  <2>1. at' \in [Sessions -> SUBSET Nodes] /\ tainted' \subseteq Sessions
    BY <1>7, EnterType DEF MarkRead
  <2> QED
    BY <1>7, <2>1 DEF TypeOK, MarkRead, Move, Goto, tables, plan, sockets, results, Labels
<1> QED
  BY <1>1, <1>2, <1>3, <1>4, <1>6, <1>7 DEF Sync

LEMMA TypeKill ==
    ASSUME TypeOK, NEW q \in Processes, Kill(q)
    PROVE  TypeOK'
<1>1. Blank \in Row /\ Unread \in [Nodes -> Row]
  BY SomeValues DEF Blank, Row, Unread
<1>2. pc' \in [Sessions -> Labels]
  BY DEF TypeOK, Kill, Labels
<1>3. /\ at' \in [Sessions -> SUBSET Nodes] /\ todo' \in [Sessions -> SUBSET Nodes]
      /\ left' \in [Patchers -> SUBSET Writes] /\ tries' \in [Sessions -> 0..Retries]
  BY DEF TypeOK, Kill
<1>4. seen' \in [Sessions -> [Nodes -> Row]] /\ view' \in [Sessions -> Row]
  BY <1>1 DEF TypeOK, Kill
<1>5. /\ timeout' \in [Processes -> {"none", "set"}] /\ previous' \in [Sessions -> {"none", "set"}]
      /\ crossed' \subseteq Sessions /\ unscoped' \subseteq Processes
  BY DEF TypeOK, Kill
<1>6. tainted' \subseteq Sessions /\ doubtful' \subseteq Nodes /\ poisoned' \subseteq Batches
  BY DEF TypeOK, Kill
<1>7. /\ req' \in [Patchers -> [cells : SUBSET Cells, dry : BOOLEAN]]
      /\ outcome' \in [Patchers -> [Nodes -> {"none", "success", "failed"}]]
  BY DEF TypeOK, Kill, Nothing
<1> QED
  BY <1>2, <1>3, <1>4, <1>5, <1>6, <1>7 DEF TypeOK, Kill, tables

\* Every variable keeps its type, whatever the constants are.
THEOREM TypeCorrect == Spec => []TypeOK
<1>1. ASSUME TypeOK, [Next]_vars PROVE TypeOK'
  <2>1. CASE UNCHANGED vars
    BY <1>1, <2>1 DEF TypeOK, vars, tables, plan, session, sockets, results, history
  <2> QED
    BY <1>1, <2>1, TypeSession, TypePatch, TypeSync, TypeKill DEF Next
<1> QED
  BY TypeInit, <1>1, PTL DEF Spec

-----------------------------------------------------------------------------
(* The socket timeout.  A session that is alone in its connect is the only *)
(* one to restore the default; and as long as connects have not overlapped *)
(* in a process, what each of its sessions keeps to restore is the default *)
(* the process began with.                                                 *)

TimeoutInv ==
    /\ \A s \in Sessions : pc[s] = "opening" /\ s \notin crossed => timeout[ProcessOf[s]] = "set"
    /\ \A s, t \in Sessions :
          s # t /\ ProcessOf[s] = ProcessOf[t] /\ pc[s] = "opening" /\ pc[t] = "opening" =>
             s \in crossed /\ ProcessOf[s] \in unscoped
    /\ \A s \in Sessions : pc[s] # "opening" \/ ProcessOf[s] \notin unscoped => previous[s] = "none"
    /\ \A q \in Processes \ unscoped :
          (\A s \in Sessions : ProcessOf[s] = q => pc[s] # "opening") => timeout[q] = "none"

\* Steps that do not touch sockets keep sessions in, or out of, the connect.
Connecting(s) == pc[s] = "opening"

LEMMA TimeoutQuiet ==
    ASSUME TimeoutInv, UNCHANGED sockets, \A s \in Sessions : Connecting(s)' = Connecting(s)
    PROVE  TimeoutInv'
BY DEF TimeoutInv, sockets, Connecting

LEMMA TimeoutSession ==
    ASSUME TypeOK, TimeoutInv, NEW s \in Sessions, Session(s)
    PROVE  TimeoutInv'
<1>0. ProcessOf[s] \in Processes
  OBVIOUS
<1>1. CASE Open(s)
  <2>1. /\ pc[s] = "connect" /\ pc' = [pc EXCEPT ![s] = "opening"]
        /\ previous' = [previous EXCEPT ![s] = timeout[ProcessOf[s]]]
        /\ timeout' = [timeout EXCEPT ![ProcessOf[s]] = "set"]
    BY <1>1 DEF Open, TakeTimeout, Move, Goto
  <2>2. CASE Beside(s) = {}
    <3>1. /\ UNCHANGED <<crossed, unscoped>>
          /\ \A t \in Sessions : ProcessOf[t] = ProcessOf[s] => pc[t] # "opening"
      BY <1>1, <2>1, <2>2 DEF Open, Cross, Beside
    <3>2. ProcessOf[s] \notin unscoped => previous'[s] = "none"
      BY <1>0, <2>1, <3>1 DEF TypeOK, TimeoutInv
    <3> QED
      BY <1>0, <2>1, <3>1, <3>2 DEF TypeOK, TimeoutInv
  <2>3. CASE Beside(s) # {}
    <3>1. /\ crossed' = crossed \cup {s} \cup Beside(s)
          /\ unscoped' = unscoped \cup {ProcessOf[s]}
      BY <1>1, <2>3 DEF Open, Cross
    <3>2. \A t \in Sessions \ {s} :
             ProcessOf[t] = ProcessOf[s] /\ pc[t] = "opening" => t \in crossed'
      BY <3>1 DEF Beside
    <3> QED
      BY <1>0, <2>1, <3>1, <3>2 DEF TypeOK, TimeoutInv
  <2> QED
    BY <2>2, <2>3
<1>2. ASSUME RestoreTimeout(s), Uncross(s), NEW label \in Labels \ {"opening"}, Move(s, "opening", label)
      PROVE  TimeoutInv'
  <2>1. /\ pc[s] = "opening" /\ pc' = [pc EXCEPT ![s] = label]
        /\ previous' = [previous EXCEPT ![s] = "none"]
        /\ timeout' = [timeout EXCEPT ![ProcessOf[s]] = previous[s]]
        /\ crossed' = crossed \ {s} /\ unscoped' = unscoped
    BY <1>2 DEF RestoreTimeout, Uncross, Move, Goto
  <2>2. ProcessOf[s] \notin unscoped => timeout'[ProcessOf[s]] = "none"
    BY <1>0, <2>1 DEF TypeOK, TimeoutInv
  <2>3. ASSUME NEW t \in Sessions, pc'[t] = "opening"
        PROVE  t # s /\ pc[t] = "opening" /\ (ProcessOf[t] = ProcessOf[s] => t \in crossed')
    BY <2>1, <2>3, <1>2 DEF TypeOK, TimeoutInv
  <2> QED
    BY <1>0, <1>2, <2>1, <2>2, <2>3 DEF TypeOK, TimeoutInv
<1>3. ASSUME NEW missing, Opened(s, missing) PROVE TimeoutInv'
  BY <1>2, <1>3 DEF Opened, AfterConnect, Labels
<1>4. CASE Refused(s)
  BY <1>2, <1>4 DEF Refused, Labels
<1>5. CASE GaveUp(s)
  BY <1>2, <1>5 DEF GaveUp, Labels
<1> QED
  BY <1>1, <1>3, <1>4, <1>5 DEF Session

LEMMA TimeoutPatch ==
    ASSUME TypeOK, TimeoutInv, NEW p \in Patchers, Patch(p)
    PROVE  TimeoutInv'
<1>1. UNCHANGED sockets
  BY DEF Patch, Begin, Pick, PickPoisoned, Write, WriteFails, Commit, CommitFails, Audit,
         AuditFails, End
<1>2. \E from, to \in Labels \ {"opening"} : Move(p, from, to) \/ UNCHANGED pc
  <2>1. ASSUME NEW m, Write(p, m) \/ WriteFails(p, m)
        PROVE  \E from, to \in Labels \ {"opening"} : Move(p, from, to)
    BY <2>1 DEF Write, WriteFails, Labels
  <2>2. ASSUME NEW n, Pick(p, n) \/ PickPoisoned(p, n)
        PROVE  \E from, to \in Labels \ {"opening"} : Move(p, from, to) \/ UNCHANGED pc
    BY <2>2 DEF Pick, PickPoisoned, Labels
  <2> QED
    BY <2>1, <2>2 DEF Patch, Begin, Commit, CommitFails, Audit, AuditFails, End, Labels
<1> QED
  BY <1>1, <1>2, TimeoutQuiet DEF TypeOK, Move, Goto, Connecting

LEMMA TimeoutSync ==
    ASSUME TypeOK, TimeoutInv, NEW s \in Syncers, Sync(s)
    PROVE  TimeoutInv'
<1>1. UNCHANGED sockets
  BY DEF Sync, SyncAll, SyncNode, Turn, Load, SyncCommit, SyncFails, MarkRead, MarkFails, MarkCommit
<1>2. \E from, to \in Labels \ {"opening"} : Move(s, from, to)
  <2>1. ASSUME NEW n, SyncNode(s, n) \/ Turn(s, n)
        PROVE  \E from, to \in Labels \ {"opening"} : Move(s, from, to)
    BY <2>1 DEF SyncNode, Turn, Labels
  <2>2. ASSUME NEW changed, MarkCommit(s, changed)
        PROVE  \E from, to \in Labels \ {"opening"} : Move(s, from, to)
    BY <2>2 DEF MarkCommit, Labels
  <2> QED
    BY <2>1, <2>2 DEF Sync, SyncAll, Load, SyncCommit, SyncFails, MarkRead, MarkFails, Labels
<1> QED
  BY <1>1, <1>2, TimeoutQuiet DEF TypeOK, Move, Goto, Connecting

\* The process is gone, and with it all its sessions that could be connecting.
LEMMA TimeoutKill ==
    ASSUME TypeOK, TimeoutInv, NEW q \in Processes, Kill(q)
    PROVE  TimeoutInv'
<1>1. \A s \in Sessions : /\ pc'[s] = "opening" <=> pc[s] = "opening" /\ ProcessOf[s] # q
                          /\ pc'[s] = "opening" => (s \in crossed' <=> s \in crossed)
  BY DEF Kill, TypeOK
<1>2. /\ timeout' = [timeout EXCEPT ![q] = "none"] /\ unscoped' = unscoped \ {q}
      /\ \A s \in Sessions : previous'[s] = IF ProcessOf[s] = q THEN "none" ELSE previous[s]
  BY DEF Kill, TypeOK, TimeoutInv
<1> QED
  BY <1>1, <1>2 DEF TypeOK, TimeoutInv

\* However many sessions a process runs: a connect that no other of its process
\* overlaps has its limit, and a process keeps its own default until two of
\* its connects overlap.
THEOREM TimeoutKept == Spec => []TimeoutScoped
<1>1. Init => TimeoutInv
  BY DEF Init, TimeoutInv
<1>2. ASSUME TypeOK, TimeoutInv, [Next]_vars PROVE TimeoutInv'
  <2>1. CASE UNCHANGED vars
    BY <1>2, <2>1, TimeoutQuiet DEF vars, Connecting
  <2> QED
    BY <1>2, <2>1, TimeoutSession, TimeoutPatch, TimeoutSync, TimeoutKill DEF Next
<1>3. TimeoutInv => TimeoutScoped
  BY DEF TimeoutInv, TimeoutScoped
<1> QED
  BY <1>1, <1>2, <1>3, TypeCorrect, PTL DEF Spec

-----------------------------------------------------------------------------
(* What patches write.  A session that overlaps another on its node, or    *)
(* has not seen all of the configuration, is tainted.  One that is not     *)
(* has its node for itself: what it saw of the radio, and what it has      *)
(* written to radio and row, is still there.                               *)

\* A position that comes without an altitude makes the radio's altitude zero.
AltitudeGiven == \A r \in Requests : "position" \in r.cells => "altitude" \in r.cells

\* An altitude that comes without a position is not even sent.
Effective == \A r \in Requests : ~r.dry /\ ("altitude" \in r.cells => "position" \in r.cells)

Carrier(c) == CASE c = "name" -> "owner"
                [] c \in {"position", "altitude"} -> "position"
                [] OTHER -> Section(c)

\* Of the sections still to be written, p has seen what the radio has.
Fresh(p, n) == \A f \in Fields : Section(f) \in left[p] => view[p][f] = radio[n][f]

\* Whatever p was asked to write and need not write any more is on the radio,
\* and, after the commit, in the row.
Stored(p, n) ==
    /\ pc[p] \in {"write", "commit", "audit"} =>
          \A c \in req[p].cells \cap Sent : Carrier(c) \notin left[p] => radio[n][c] = p
    /\ pc[p] = "audit" => \A c \in req[p].cells : row[n][c] = p

PatchInv(p) ==
    /\ req[p] \in Requests \cup {Nothing}
    /\ left[p] \subseteq (IF pc[p] = "write" THEN Messages(p) ELSE {})
    /\ \A n, k \in at[p] : n = k
    /\ p \notin tainted => \A n \in at[p] : Fresh(p, n) /\ (Effective => Stored(p, n))

Apart == \A s, t \in Sessions : s # t /\ at[s] \cap at[t] # {} => {s, t} \subseteq tainted

WriteInv ==
    /\ Apart
    /\ \A p \in Patchers : PatchInv(p)
    /\ \A s \in Syncers : pc[s] = "marking" => at[s] = Nodes

\* A step of session s that leaves the others, and other nodes than its own,
\* alone.
Alone(s) ==
    /\ \A t \in Sessions \ {s} : /\ pc'[t] = pc[t] /\ at'[t] = at[t]
                                 /\ view'[t] = view[t] /\ seen'[t] = seen[t]
                                 /\ t \in tainted => t \in tainted'
    /\ \A t \in Syncers \ {s} : full'[t] = full[t]
    /\ \A p \in Patchers \ {s} : req'[p] = req[p] /\ left'[p] = left[p]
    /\ \A n \in Nodes \ at[s] : radio'[n] = radio[n] /\ row'[n] = row[n]

\* It keeps off the others' nodes, or taints them.
Minds(s) ==
    \A t \in Sessions \ {s} : at'[s] \cap at[t] # {} => {s, t} \subseteq tainted'

LEMMA OthersKeep ==
    ASSUME TypeOK, WriteInv, NEW s \in Sessions, Alone(s), Minds(s),
           s \in Patchers => PatchInv(s)',
           s \in Syncers => (pc'[s] = "marking" => at'[s] = Nodes)
    PROVE  WriteInv' /\ Alone(s)
<1>1. ASSUME NEW p \in Patchers, p # s PROVE PatchInv(p)'
  <2>1. pc'[p] = pc[p] /\ at'[p] = at[p] /\ view'[p] = view[p] /\ req'[p] = req[p] /\ left'[p] = left[p]
    BY <1>1 DEF Alone
  <2>2. PatchInv(p)
    BY DEF WriteInv
  <2>3. ASSUME p \notin tainted', NEW n \in at[p] PROVE radio'[n] = radio[n] /\ row'[n] = row[n]
    <3>1. p \notin tainted
      BY <1>1, <2>3 DEF Alone
    <3>2. n \notin at[s]
      BY <1>1, <3>1 DEF WriteInv, Apart
    <3> QED
      BY <3>2, <2>3 DEF Alone, TypeOK
  <2>4. p \notin tainted' => p \notin tainted
    BY <1>1 DEF Alone
  <2>5. ASSUME p \notin tainted', NEW n \in at[p] PROVE Fresh(p, n)'
    BY <2>1, <2>2, <2>3, <2>4, <2>5 DEF PatchInv, Fresh
  <2>6. ASSUME p \notin tainted', NEW n \in at[p], Effective PROVE Stored(p, n)'
    BY <2>1, <2>2, <2>3, <2>4, <2>6 DEF PatchInv, Stored
  <2>7. Messages(p)' = Messages(p)
    BY <2>1 DEF Messages
  <2> QED
    BY <2>1, <2>2, <2>5, <2>6, <2>7 DEF PatchInv, Effective
<1>2. Apart'
  BY DEF WriteInv, Apart, Alone, Minds
<1>3. \A t \in Syncers : pc'[t] = "marking" => at'[t] = Nodes
  BY DEF WriteInv, Alone
<1> QED
  BY <1>1, <1>2, <1>3 DEF WriteInv

\* Turning to nodes taints; leaving them, or staying, disturbs nobody.
LEMMA EnterMinds ==
    ASSUME TypeOK, NEW s \in Sessions, NEW N \in SUBSET Nodes, Enter(s, N)
    PROVE  /\ Minds(s) /\ at'[s] = N /\ tainted \subseteq tainted'
           /\ \A t \in Sessions \ {s} : at'[t] = at[t]
<1>1. at'[s] = N /\ tainted \subseteq tainted' /\ \A t \in Sessions \ {s} : at'[t] = at[t]
  BY DEF Enter, TypeOK
<1>2. ASSUME NEW t \in Sessions \ {s}, NEW n \in N, n \in at[t] PROVE {s, t} \subseteq tainted'
  <2>1. t \in On(n)
    BY <1>2 DEF On
  <2>2. t \in UNION {On(k) : k \in N}
    BY <2>1
  <2> QED
    BY <2>2 DEF Enter
<1> QED
  BY <1>1, <1>2 DEF Minds

LEMMA LeaveMinds ==
    ASSUME TypeOK, NEW s \in Sessions, NEW broken, NEW sound, Leave(s, broken, sound)
    PROVE  /\ Minds(s) /\ at'[s] = {} /\ tainted' = tainted \ {s}
           /\ \A t \in Sessions \ {s} : at'[t] = at[t] /\ view'[t] = view[t] /\ seen'[t] = seen[t]
BY DEF Leave, Minds, TypeOK

LEMMA StayMinds ==
    ASSUME TypeOK, WriteInv, NEW s \in Sessions, at' = at, tainted \subseteq tainted'
    PROVE  Minds(s)
BY DEF WriteInv, Apart, Minds

\* A patcher that works on no node, or has left it, has nothing to keep.
LEMMA NowhereInv ==
    ASSUME NEW p \in Patchers, at'[p] = {}, left'[p] = {}, req'[p] \in Requests \cup {Nothing}
    PROVE  PatchInv(p)'
BY DEF PatchInv

LEMMA WriteSession ==
    ASSUME TypeOK, WriteInv, NEW s \in Sessions, Session(s)
    PROVE  WriteInv' /\ Alone(s)
<1>0. s \in Patchers => PatchInv(s)
  BY DEF WriteInv
<1>1. CASE Open(s) \/ Refused(s)
  <2>1. /\ UNCHANGED <<tables, plan, at, seen, view, left, results, history>>
        /\ \E label \in {"connect", "opening"} : pc' = [pc EXCEPT ![s] = label]
        /\ pc[s] \in {"connect", "opening"}
    BY <1>1 DEF Open, Refused, Move, Goto, session
  <2>2. Alone(s) /\ Minds(s)
    BY <2>1, StayMinds DEF TypeOK, Alone, tables, plan, history
  <2>3. s \in Patchers => PatchInv(s)'
    BY <1>0, <2>1 DEF TypeOK, PatchInv, Fresh, Stored, tables, plan, history
  <2>4. pc'[s] # "marking"
    BY <2>1 DEF TypeOK
  <2> QED
    BY <2>2, <2>3, <2>4, OthersKeep
<1>2. ASSUME NEW missing, Opened(s, missing) PROVE WriteInv' /\ Alone(s)
  <2>1. /\ UNCHANGED <<tables, plan, at, seen, results, doubtful>>
        /\ pc' = [pc EXCEPT ![s] = AfterConnect(s)]
        /\ tainted' = IF missing = {} THEN tainted ELSE tainted \cup {s}
        /\ left' = IF s \in Patchers THEN [left EXCEPT ![s] = Messages(s)] ELSE left
    BY <1>2 DEF Opened, Move, Goto
  <2>2. PICK n \in at[s] : view' = [view EXCEPT ![s] = Received(n, missing)]
    BY <1>2 DEF Opened, Received
  <2>3. Alone(s) /\ Minds(s)
    BY <2>1, <2>2, StayMinds DEF TypeOK, Alone, tables, plan
  <2>4. ASSUME s \in Patchers PROVE PatchInv(s)'
    <3>1. /\ left'[s] = Messages(s) /\ req'[s] = req[s] /\ at'[s] = at[s] /\ view'[s] = Received(n, missing)
          /\ pc'[s] = IF Messages(s) = {} THEN "commit" ELSE "write"
      BY <2>1, <2>2, <2>4 DEF TypeOK, AfterConnect, plan
    <3>2. Messages(s)' = Messages(s)
      BY <3>1 DEF Messages
    <3>3. ASSUME s \notin tainted', NEW k \in at'[s] PROVE Fresh(s, k)'
      <4>1. missing = {} /\ k = n
        BY <1>0, <2>1, <2>4, <3>1, <3>3 DEF PatchInv
      <4> QED
        BY <2>1, <3>1, <4>1, NamesOfCells DEF Fresh, Received, tables
    <3>4. ASSUME Effective, NEW k \in at'[s] PROVE Stored(s, k)'
      <4>1. ~req[s].dry /\ ("altitude" \in req[s].cells => "position" \in req[s].cells)
        BY <1>0, <2>4, <3>4 DEF PatchInv, Effective, Nothing
      <4>2. \A c \in req[s].cells \cap Sent : Carrier(c) \in Messages(s)
        BY <4>1 DEF Sent, Carrier, Messages, Writes, Section, Settings
      <4> QED
        BY <3>1, <4>2 DEF Stored
    <3> QED
      BY <1>0, <2>4, <3>1, <3>2, <3>3, <3>4 DEF PatchInv
  <2>5. pc'[s] # "marking"
    BY <2>1 DEF TypeOK, AfterConnect
  <2> QED
    BY <2>3, <2>4, <2>5, OthersKeep
<1>3. CASE GaveUp(s)
  <2>1. /\ Leave(s, FALSE, FALSE) /\ UNCHANGED <<tables, plan, left, poisoned>>
        /\ \E label \in {"next", "idle"} : pc' = [pc EXCEPT ![s] = label]
        /\ pc[s] = "opening"
    BY <1>3 DEF GaveUp, Move, Goto
  <2>2. /\ Minds(s) /\ at'[s] = {} /\ tainted' = tainted \ {s}
        /\ \A t \in Sessions \ {s} : at'[t] = at[t] /\ view'[t] = view[t] /\ seen'[t] = seen[t]
    BY <2>1, LeaveMinds
  <2>3. Alone(s)
    BY <2>1, <2>2 DEF TypeOK, Alone, tables, plan
  <2>4. s \in Patchers => PatchInv(s)'
    BY <1>0, <2>1, <2>2, NowhereInv DEF PatchInv, plan
  <2>5. pc'[s] # "marking"
    BY <2>1 DEF TypeOK
  <2> QED
    BY <2>2, <2>3, <2>4, <2>5, OthersKeep
<1> QED
  BY <1>1, <1>2, <1>3 DEF Session

\* What a message leaves and what it sets.
LEMMA ToldCells ==
    ASSUME TypeOK, NEW p \in Patchers, NEW m \in Messages(p), NEW n \in Nodes, NEW c \in Cells
    PROVE  /\ c \in Sent /\ Carrier(c) = m /\ c \in req[p].cells => Told(p, m, n)[c] = p
           /\ c \in Sent /\ Carrier(c) # m => Told(p, m, n)[c] = radio[n][c]
           /\ c \notin Sent => Told(p, m, n)[c] = radio[n][c]
           /\ c \in Fields /\ Section(c) = m /\ c \notin req[p].cells => Told(p, m, n)[c] = view[p][c]
           /\ c = "name" /\ m = "owner" => c \in req[p].cells
           /\ c = "position" /\ m = "position" => c \in req[p].cells
           /\ c = "altitude" /\ m = "position" => "position" \in req[p].cells
BY DEF Told, Sent, Carrier, Section, Settings, Messages, Cells, Columns

LEMMA WriteMessage ==
    ASSUME TypeOK, WriteInv, NEW p \in Patchers, NEW m \in Writes, Write(p, m)
    PROVE  WriteInv' /\ Alone(p)
<1>1. /\ m \in left[p] /\ left' = [left EXCEPT ![p] = @ \ {m}] /\ pc[p] = "write"
      /\ pc' = [pc EXCEPT ![p] = IF left[p] = {m} THEN "commit" ELSE "write"]
      /\ UNCHANGED <<row, plan, at, seen, view, tries, sockets, results, history>>
  BY DEF Write, IsNext, Move, Goto
<1>2. radio' = [n \in Nodes |-> IF n \in at[p] THEN Told(p, m, n) ELSE radio[n]]
  BY DEF Write
<1>3. PatchInv(p) /\ m \in Messages(p)
  BY <1>1 DEF WriteInv, PatchInv
<1>4. Alone(p) /\ Minds(p)
  BY <1>1, <1>2, StayMinds DEF TypeOK, Alone, plan, history
<1>5. /\ pc'[p] \in {"write", "commit"} /\ left'[p] = left[p] \ {m} /\ req'[p] = req[p]
      /\ at'[p] = at[p] /\ view'[p] = view[p] /\ tainted' = tainted
  BY <1>1 DEF TypeOK, plan, history
<1>6. ASSUME p \notin tainted, NEW n \in at[p] PROVE Fresh(p, n)'
  <2>1. n \in Nodes /\ radio'[n] = Told(p, m, n)
    BY <1>2, <1>6 DEF TypeOK
  <2>2. ASSUME NEW f \in Fields, Section(f) \in left'[p] PROVE view'[p][f] = radio'[n][f]
    <3>1. f \in Cells /\ f \in Sent /\ Carrier(f) = Section(f) /\ Section(f) # m
      BY <1>5, <2>2 DEF Cells, Sent, Carrier, Settings
    <3>2. radio'[n][f] = radio[n][f]
      BY <1>3, <2>1, <3>1, ToldCells
    <3> QED
      BY <1>3, <1>5, <1>6, <2>2, <3>2 DEF PatchInv, Fresh
  <2> QED
    BY <2>2 DEF Fresh
<1>7. ASSUME p \notin tainted, NEW n \in at[p], Effective PROVE Stored(p, n)'
  <2>1. n \in Nodes /\ radio'[n] = Told(p, m, n)
    BY <1>2, <1>7 DEF TypeOK
  <2>2. ASSUME NEW c \in req[p].cells \cap Sent, Carrier(c) \notin left'[p] PROVE radio'[n][c] = p
    <3>0. c \in Cells
      BY <2>2 DEF Sent, Cells, Columns
    <3>1. CASE Carrier(c) = m
      BY <1>3, <2>1, <2>2, <3>0, <3>1, ToldCells
    <3>2. CASE Carrier(c) # m
      <4>1. radio[n][c] = p
        BY <1>1, <1>3, <1>5, <1>7, <2>2, <3>2 DEF PatchInv, Stored
      <4> QED
        BY <1>3, <2>1, <2>2, <3>0, <3>2, <4>1, ToldCells
    <3> QED
      BY <3>1, <3>2
  <2> QED
    BY <1>5, <2>2 DEF Stored
<1>8. PatchInv(p)'
  <2>1. left'[p] \subseteq (IF pc'[p] = "write" THEN Messages(p)' ELSE {})
    <3>1. Messages(p)' = Messages(p)
      BY <1>5 DEF Messages
    <3> QED
      BY <1>1, <1>3, <1>5, <3>1 DEF PatchInv, TypeOK
  <2> QED
    BY <1>3, <1>5, <1>6, <1>7, <2>1 DEF PatchInv
<1> QED
  BY <1>4, <1>8, OthersKeep

\* The node is behind: the patch failed, or has been reported.
LEMMA WriteLeave ==
    ASSUME TypeOK, WriteInv, NEW p \in Patchers, NEW broken, NEW sound, Leave(p, broken, sound),
           left'[p] = {}, \A q \in Patchers \ {p} : left'[q] = left[q], req' = req, full' = full,
           \A n \in Nodes \ at[p] : radio'[n] = radio[n] /\ row'[n] = row[n],
           \E from, to \in Labels : Move(p, from, to)
    PROVE  WriteInv' /\ Alone(p)
<1>1. /\ Minds(p) /\ at'[p] = {} /\ tainted' = tainted \ {p}
      /\ \A t \in Sessions \ {p} : at'[t] = at[t] /\ view'[t] = view[t] /\ seen'[t] = seen[t]
  BY LeaveMinds
<1>2. Alone(p)
  BY <1>1 DEF TypeOK, Alone, Move, Goto
<1>3. PatchInv(p)'
  BY <1>1, NowhereInv DEF WriteInv, PatchInv
<1> QED
  BY <1>1, <1>2, <1>3, OthersKeep

LEMMA WriteCommit ==
    ASSUME TypeOK, WriteInv, NEW p \in Patchers, Commit(p)
    PROVE  WriteInv' /\ Alone(p)
<1>1. /\ pc[p] = "commit" /\ pc' = [pc EXCEPT ![p] = "audit"]
      /\ UNCHANGED <<radio, plan, session, sockets, results, history>>
      /\ row' = [n \in Nodes |-> IF n \in at[p] THEN Patched(p, n) ELSE row[n]]
  BY DEF Commit, Move, Goto
<1>2. Alone(p) /\ Minds(p)
  BY <1>1, StayMinds DEF TypeOK, Alone, plan, session, history
<1>3. PatchInv(p)
  BY DEF WriteInv
<1>4. ASSUME p \notin tainted, NEW n \in at[p], Effective PROVE Stored(p, n)'
  <2>1. \/ ~req[p].dry /\ ("altitude" \in req[p].cells => "position" \in req[p].cells)
        \/ req[p] = Nothing
    BY <1>3, <1>4 DEF PatchInv, Effective
  <2>2. req[p].cells \subseteq Recorded(p) /\ req[p].cells \subseteq Cells
    BY <2>1 DEF Recorded, Remote, Cells, Columns, Nothing, TypeOK
  <2>3. n \in Nodes /\ row'[n] = Patched(p, n)
    BY <1>1, <1>4 DEF TypeOK
  <2>4. \A c \in req[p].cells : row'[n][c] = p
    BY <2>2, <2>3 DEF Patched
  <2>5. left'[p] = left[p] /\ req'[p] = req[p] /\ radio' = radio
    BY <1>1 DEF plan, session
  <2> QED
    BY <1>1, <1>3, <1>4, <2>4, <2>5 DEF PatchInv, Stored
<1>5. req'[p] = req[p] /\ left'[p] = {} /\ at'[p] = at[p] /\ tainted' = tainted
  BY <1>1, <1>3 DEF PatchInv, plan, session, history
<1>6. PatchInv(p)'
  BY <1>3, <1>4, <1>5 DEF PatchInv, Fresh
<1> QED
  BY <1>2, <1>6, OthersKeep

LEMMA WritePatch ==
    ASSUME TypeOK, WriteInv, NEW p \in Patchers, Patch(p)
    PROVE  WriteInv' /\ Alone(p)
<1>0. PatchInv(p) /\ p \in Sessions
  BY DEF WriteInv
<1>1. CASE Begin(p)
  <2>1. /\ pc[p] = "idle" /\ pc' = [pc EXCEPT ![p] = "next"] /\ UNCHANGED <<tables, full, session, sockets, results, history>>
        /\ \E r \in Requests : req' = [req EXCEPT ![p] = r]
    BY <1>1 DEF Begin, Move, Goto
  <2>2. Alone(p) /\ Minds(p)
    BY <2>1, StayMinds DEF TypeOK, Alone, tables, session, history
  <2>3. PatchInv(p)'
    BY <1>0, <2>1 DEF TypeOK, PatchInv, Fresh, Stored, session, history
  <2> QED
    BY <2>2, <2>3, OthersKeep
<1>2. ASSUME NEW n \in Nodes, Pick(p, n) PROVE WriteInv' /\ Alone(p)
  <2>1. /\ Enter(p, {n}) /\ UNCHANGED <<tables, req, full, view, left, tries, sockets, results, doubtful>>
        /\ pc[p] = "next" /\ pc' = [pc EXCEPT ![p] = IF Remote(p) THEN "connect" ELSE "commit"]
        /\ \A t \in Sessions \ {p} : seen'[t] = seen[t]
    BY <1>2 DEF Pick, Move, Goto, TypeOK
  <2>2. Minds(p) /\ at'[p] = {n} /\ tainted \subseteq tainted' /\ \A t \in Sessions \ {p} : at'[t] = at[t]
    BY <2>1, EnterMinds
  <2>3. Alone(p)
    BY <2>1, <2>2 DEF TypeOK, Alone, tables
  <2>4. left'[p] = {} /\ req'[p] = req[p] /\ pc'[p] = IF Remote(p) THEN "connect" ELSE "commit"
    BY <1>0, <2>1 DEF PatchInv, TypeOK
  <2>5. ASSUME Effective PROVE Stored(p, n)'
    <3>1. ~Remote(p) => req[p].cells \cap Sent = {}
      BY <1>0, <2>5 DEF PatchInv, Effective, Nothing, Remote, Sent
    <3> QED
      BY <2>4, <3>1 DEF Stored
  <2>6. PatchInv(p)'
    BY <1>0, <2>2, <2>4, <2>5 DEF PatchInv, Fresh
  <2> QED
    BY <2>2, <2>3, <2>6, OthersKeep
<1>3. ASSUME NEW n \in Nodes, PickPoisoned(p, n) PROVE WriteInv' /\ Alone(p)
  <2>1. UNCHANGED <<tables, pc, req, full, session, sockets, poisoned, history>>
    BY <1>3 DEF PickPoisoned
  <2>2. Alone(p) /\ Minds(p) /\ PatchInv(p)'
    BY <1>0, <2>1, StayMinds DEF Alone, PatchInv, Fresh, Stored, Messages, tables, session, history
  <2> QED
    BY <2>2, OthersKeep
<1>4. ASSUME NEW m \in Writes, WriteFails(p, m) PROVE WriteInv' /\ Alone(p)
  <2>1. \A n \in Nodes \ at[p] : radio'[n] = radio[n] /\ row'[n] = row[n]
    BY <1>4 DEF WriteFails
  <2> QED
    BY <1>4, <2>1, WriteLeave DEF WriteFails, Abandon, plan, Labels, TypeOK
<1>5. CASE CommitFails(p) \/ Audit(p) \/ AuditFails(p)
  <2>1. /\ UNCHANGED <<tables, plan, left, sockets>> /\ \E broken \in BOOLEAN : Leave(p, broken, FALSE)
        /\ \E from \in {"commit", "audit"} : Move(p, from, "next")
    BY <1>5 DEF CommitFails, Audit, AuditFails
  <2>2. left'[p] = {}
    BY <1>0, <2>1 DEF PatchInv, Move
  <2> QED
    BY <2>1, <2>2, WriteLeave DEF tables, plan, Labels
<1>6. CASE End(p)
  <2>1. /\ pc[p] = "next" /\ pc' = [pc EXCEPT ![p] = "done"]
        /\ UNCHANGED <<tables, todo, full, session, sockets, history>>
        /\ req' = [req EXCEPT ![p] = Nothing]
    BY <1>6 DEF End, Move, Goto
  <2>2. Alone(p) /\ Minds(p)
    BY <2>1, StayMinds DEF TypeOK, Alone, tables, session, history
  <2>3. PatchInv(p)'
    BY <1>0, <2>1 DEF TypeOK, PatchInv, Fresh, Stored, session, history
  <2> QED
    BY <2>2, <2>3, OthersKeep
<1> QED
  BY <1>1, <1>2, <1>3, <1>4, <1>5, <1>6, WriteMessage, WriteCommit DEF Patch

LEMMA WriteSync ==
    ASSUME TypeOK, WriteInv, NEW s \in Syncers, Sync(s)
    PROVE  WriteInv' /\ Alone(s)
<1>0. s \in Sessions /\ s \notin Patchers
  OBVIOUS
<1>1. CASE Load(s) \/ \E N \in SUBSET Nodes : SyncAll(s, N)
  <2>1. /\ UNCHANGED <<tables, req, at, view, left, history>>
        /\ \E label \in {"next", "commit"} : pc' = [pc EXCEPT ![s] = label]
        /\ \A t \in Sessions \ {s} : seen'[t] = seen[t]
        /\ \A t \in Syncers \ {s} : full'[t] = full[t]
    BY <1>1 DEF SyncAll, Load, Move, Goto, session, plan, TypeOK
  <2>2. Alone(s) /\ Minds(s) /\ pc'[s] # "marking"
    BY <2>1, StayMinds DEF TypeOK, Alone, tables, history
  <2> QED
    BY <1>0, <2>2, OthersKeep
<1>2. ASSUME NEW N \in SUBSET Nodes, Enter(s, N), UNCHANGED <<tables, req, view, left>>,
             NEW label \in {"connect", "marking"}, pc' = [pc EXCEPT ![s] = label],
             label = "marking" => N = Nodes,
             \A t \in Sessions \ {s} : seen'[t] = seen[t],
             \A t \in Syncers \ {s} : full'[t] = full[t]
      PROVE  WriteInv' /\ Alone(s)
  <2>1. Minds(s) /\ at'[s] = N /\ tainted \subseteq tainted' /\ \A t \in Sessions \ {s} : at'[t] = at[t]
    BY <1>2, EnterMinds
  <2>2. Alone(s) /\ (pc'[s] = "marking" => at'[s] = Nodes)
    BY <1>2, <2>1 DEF TypeOK, Alone, tables
  <2> QED
    BY <1>0, <2>1, <2>2, OthersKeep
<1>3. ASSUME NEW n \in Nodes, SyncNode(s, n) \/ Turn(s, n) PROVE WriteInv' /\ Alone(s)
  <2>1. /\ Enter(s, {n}) /\ UNCHANGED <<tables, req, view, left>>
        /\ pc' = [pc EXCEPT ![s] = "connect"]
    BY <1>3 DEF SyncNode, Turn, Move, Goto
  <2>2. /\ \A t \in Sessions \ {s} : seen'[t] = seen[t]
        /\ \A t \in Syncers \ {s} : full'[t] = full[t]
    BY <1>3 DEF SyncNode, Turn, TypeOK
  <2>3. {n} \in SUBSET Nodes /\ "connect" # "marking"
    OBVIOUS
  <2> QED
    BY <1>2, <2>1, <2>2, <2>3
<1>4. CASE MarkRead(s)
  BY <1>2, <1>4 DEF MarkRead, Move, Goto, plan, TypeOK
<1>5. CASE SyncCommit(s) \/ SyncFails(s) \/ MarkFails(s) \/ \E changed \in SUBSET Nodes : MarkCommit(s, changed)
  <2>1. /\ \E sound \in BOOLEAN : Leave(s, FALSE, sound)
        /\ \E label \in {"next", "idle"} : pc' = [pc EXCEPT ![s] = label]
        /\ UNCHANGED <<radio, plan, left>>
    BY <1>5 DEF SyncCommit, SyncFails, MarkFails, MarkCommit, Move, Goto, tables
  <2>2. \A n \in Nodes \ at[s] : row'[n] = row[n]
    <3>1. CASE SyncCommit(s) \/ SyncFails(s) \/ MarkFails(s)
      BY <3>1 DEF SyncCommit, SyncFails, MarkFails, tables
    <3>2. ASSUME NEW changed, MarkCommit(s, changed) PROVE at[s] = Nodes
      BY <3>2 DEF MarkCommit, Move, WriteInv
    <3> QED
      BY <1>5, <3>1, <3>2
  <2>3. /\ Minds(s) /\ at'[s] = {} /\ tainted' = tainted \ {s}
        /\ \A t \in Sessions \ {s} : at'[t] = at[t] /\ view'[t] = view[t] /\ seen'[t] = seen[t]
    BY <2>1, LeaveMinds
  <2>4. Alone(s) /\ pc'[s] # "marking"
    BY <2>1, <2>2, <2>3 DEF TypeOK, Alone, plan
  <2> QED
    BY <1>0, <2>3, <2>4, OthersKeep
<1> QED
  BY <1>1, <1>3, <1>4, <1>5 DEF Sync

\* The dead are nowhere; for those who live nothing changes.
LEMMA WriteKill ==
    ASSUME TypeOK, WriteInv, NEW q \in Processes, Kill(q)
    PROVE  WriteInv'
<1> DEFINE dead == {s \in Sessions : ProcessOf[s] = q /\ pc[s] \notin {"idle", "done"}}
<1>1. /\ \A s \in dead : at'[s] = {} /\ pc'[s] # "marking"
      /\ \A p \in Patchers \cap dead : left'[p] = {} /\ req'[p] = Nothing
      /\ tainted' = tainted \ dead /\ UNCHANGED tables
  BY DEF Kill, TypeOK
<1>2. /\ \A s \in Sessions \ dead : at'[s] = at[s] /\ pc'[s] = pc[s] /\ view'[s] = view[s]
      /\ \A p \in Patchers \ dead : left'[p] = left[p] /\ req'[p] = req[p]
  BY DEF Kill, TypeOK
<1> HIDE DEF dead
<1>3. Apart'
  BY <1>1, <1>2 DEF WriteInv, Apart
<1>4. ASSUME NEW p \in Patchers PROVE PatchInv(p)'
  <2>1. CASE p \in dead
    BY <1>1, <2>1, NowhereInv
  <2>2. CASE p \notin dead
    BY <1>1, <1>2, <2>2 DEF WriteInv, PatchInv, Fresh, Stored, Messages, tables
  <2> QED
    BY <2>1, <2>2
<1>5. \A s \in Syncers : pc'[s] = "marking" => at'[s] = Nodes
  BY <1>1, <1>2 DEF WriteInv
<1> QED
  BY <1>3, <1>4, <1>5 DEF WriteInv

THEOREM Writing == Spec => []WriteInv
<1>1. Init => WriteInv
  BY DEF Init, WriteInv, Apart, PatchInv
<1>2. ASSUME TypeOK, WriteInv, [Next]_vars PROVE WriteInv'
  <2>1. CASE UNCHANGED vars
    BY <1>2, <2>1
       DEF vars, tables, plan, session, history, WriteInv, Apart, PatchInv, Fresh, Stored, Messages
  <2> QED
    BY <1>2, <2>1, WriteSession, WritePatch, WriteSync, WriteKill DEF Next
<1> QED
  BY <1>1, <1>2, TypeCorrect, PTL DEF Spec

-----------------------------------------------------------------------------
(* What the steps that write to a radio, or report, do in such a state.    *)

\* Only messages of patches change radios.
LEMMA RadioChanges ==
    ASSUME TypeOK, [Next]_vars, radio' # radio
    PROVE  \E p \in Patchers, m \in Writes :
              /\ m \in left[p] /\ pc[p] = "write"
              /\ radio' = [n \in Nodes |-> IF n \in at[p] THEN Told(p, m, n) ELSE radio[n]]
<1>1. ~ UNCHANGED vars
  BY DEF vars, tables
<1>2. ASSUME NEW s \in Sessions, Session(s) PROVE UNCHANGED radio
  BY <1>2 DEF Session, Open, Opened, Refused, GaveUp, tables
<1>3. ASSUME NEW s \in Syncers, Sync(s) PROVE UNCHANGED radio
  BY <1>3 DEF Sync, SyncAll, SyncNode, Turn, Load, SyncCommit, SyncFails, MarkRead, MarkFails,
              MarkCommit, tables
<1>4. ASSUME NEW q \in Processes, Kill(q) PROVE UNCHANGED radio
  BY <1>4 DEF Kill, tables
<1>5. PICK p \in Patchers : Patch(p)
  BY <1>1, <1>2, <1>3, <1>4 DEF Next
<1>6. \E m \in Writes : Write(p, m) \/ WriteFails(p, m)
  BY <1>5 DEF Patch, Begin, Pick, PickPoisoned, Commit, CommitFails, Audit, AuditFails, End, tables
<1> QED
  BY <1>6 DEF Write, WriteFails, IsNext, Move

LEMMA AskedStep ==
    ASSUME AltitudeGiven, TypeOK, WriteInv, [Next]_vars,
           NEW n \in Nodes, NEW c \in Cells, radio'[n][c] # radio[n][c]
    PROVE  \E p \in Patchers : /\ n \in at[p]
                               /\ ~req[p].dry
                               /\ c \in req[p].cells \/ p \in tainted
<1>1. PICK p \in Patchers, m \in Writes :
        /\ m \in left[p] /\ pc[p] = "write"
        /\ radio' = [k \in Nodes |-> IF k \in at[p] THEN Told(p, m, k) ELSE radio[k]]
  BY RadioChanges
<1>2. n \in at[p] /\ radio'[n] = Told(p, m, n)
  BY <1>1
<1>3. PatchInv(p) /\ m \in Messages(p)
  BY <1>1 DEF WriteInv, PatchInv
<1>4. ~req[p].dry
  BY <1>3 DEF Messages
<1>5. ASSUME c \notin req[p].cells, p \notin tainted PROVE FALSE
  <2>1. c \in Sent /\ Carrier(c) = m
    BY <1>2, <1>3, ToldCells
  <2>2. CASE c \in Fields
    <3>1. Section(c) = m
      BY <2>1, <2>2 DEF Carrier, Settings
    <3>2. view[p][c] = radio[n][c]
      BY <1>1, <1>2, <1>3, <1>5, <2>2, <3>1 DEF PatchInv, Fresh
    <3> QED
      BY <1>2, <1>3, <1>5, <2>2, <3>1, <3>2, ToldCells
  <2>3. CASE c \in {"name", "position"}
    BY <1>3, <1>5, <2>1, <2>3, ToldCells DEF Carrier
  <2>4. CASE c = "altitude"
    <3>1. "position" \in req[p].cells
      BY <1>3, <2>1, <2>4, ToldCells DEF Carrier
    <3> QED
      BY <1>3, <1>5, <2>4, <3>1 DEF PatchInv, AltitudeGiven, Nothing
  <2> QED
    BY <2>1, <2>2, <2>3, <2>4 DEF Sent
<1> QED
  BY <1>2, <1>4, <1>5

\* If whoever asks for a position says how high, a patch makes its radio take
\* what it was asked for and nothing else.
THEOREM NothingElse ==
    ASSUME AltitudeGiven PROVE Spec => OnlyAsked
<1>1. ASSUME TypeOK, WriteInv, [Next]_vars
      PROVE  [\A n \in Nodes, c \in Cells : radio'[n][c] # radio[n][c] =>
                \E p \in Patchers : /\ n \in at[p]
                                    /\ ~req[p].dry
                                    /\ c \in req[p].cells \/ p \in tainted]_vars
  BY <1>1, AskedStep
<1> QED
  BY <1>1, TypeCorrect, Writing, PTL DEF Spec, OnlyAsked

\* Only the report after the audit is a success.
LEMMA Successes ==
    ASSUME TypeOK, [Next]_vars, NEW p \in Patchers, NEW n \in Nodes,
           outcome'[p][n] = "success", outcome[p][n] # "success"
    PROVE  pc[p] = "audit" /\ n \in at[p] /\ UNCHANGED tables
<1>1. ~ UNCHANGED outcome
  OBVIOUS
<1>2. ASSUME NEW s \in Sessions, Session(s) PROVE FALSE
  <2>1. GaveUp(s) /\ s \in Patchers
    BY <1>1, <1>2 DEF Session, Open, Opened, Refused, GaveUp, results
  <2>2. Report(s, "failed")
    BY <2>1 DEF GaveUp, Report
  <2> QED
    BY <2>1, <2>2 DEF Report, TypeOK
<1>3. ASSUME NEW s \in Syncers, Sync(s) PROVE FALSE
  BY <1>1, <1>3 DEF Sync, SyncAll, SyncNode, Turn, Load, SyncCommit, SyncFails, MarkRead,
                    MarkFails, MarkCommit, results
<1>4. ASSUME NEW q \in Processes, Kill(q) PROVE FALSE
  BY <1>4 DEF Kill, TypeOK
<1>5. PICK k \in Patchers : Patch(k)
  BY <1>1, <1>2, <1>3, <1>4 DEF Next, vars, results
<1>6. CASE Audit(k)
  BY <1>6 DEF Audit, Move, Report, TypeOK
<1>7. ASSUME Report(k, "failed") PROVE FALSE
  BY <1>7 DEF Report, TypeOK
<1>8. ASSUME NEW m \in Nodes, PickPoisoned(k, m) PROVE FALSE
  BY <1>8 DEF PickPoisoned, TypeOK
<1>9. ASSUME End(k) PROVE FALSE
  BY <1>9 DEF End, TypeOK
<1> QED
  BY <1>1, <1>5, <1>6, <1>7, <1>8, <1>9
     DEF Patch, Begin, Pick, Write, WriteFails, Commit, CommitFails, AuditFails, results

\* Where patches are no dry runs and no altitude comes without its position,
\* whoever is told that a patch succeeded finds it on the radio and in the row.
THEOREM SuccessHolds ==
    ASSUME Effective PROVE Spec => SuccessIsWritten
<1>1. ASSUME TypeOK, WriteInv, [Next]_vars, NEW p \in Patchers, NEW n \in Nodes,
             outcome'[p][n] = "success", outcome[p][n] # "success", p \notin tainted
      PROVE  \A c \in req[p].cells : /\ row'[n][c] = p
                                     /\ c \in Sent => radio'[n][c] = p
  <2>1. pc[p] = "audit" /\ n \in at[p] /\ UNCHANGED tables
    BY <1>1, Successes
  <2>2. Stored(p, n) /\ left[p] = {}
    BY <1>1, <2>1 DEF WriteInv, PatchInv
  <2> QED
    BY <2>1, <2>2 DEF Stored, tables
<1>2. ASSUME TypeOK, WriteInv, [Next]_vars
      PROVE  [\A p \in Patchers, n \in Nodes :
                outcome'[p][n] = "success" /\ outcome[p][n] # "success" /\ p \notin tainted =>
                   \A c \in req[p].cells : /\ row'[n][c] = p
                                           /\ c \in Sent => radio'[n][c] = p]_vars
  BY <1>1, <1>2
<1> QED
  BY <1>2, TypeCorrect, Writing, PTL DEF Spec, SuccessIsWritten

-----------------------------------------------------------------------------
(* The inventory agrees with the radios.  A session that has its node for  *)
(* itself has seen the row, and the radio, as they are.  So what it does   *)
(* not mean to change it writes back as it was, and row and radio differ   *)
(* at most in what a patch is just about to set.                           *)

Loaded(s) ==
    IF s \in Patchers THEN pc[s] \in {"connect", "opening", "write", "commit"}
    ELSE pc[s] \in {"commit", "marking"} \/ (~full[s] /\ pc[s] \in {"connect", "opening"})

LookInv(s) ==
    /\ pc[s] \in {"idle", "next", "done"} => at[s] = {}
    /\ s \in Syncers /\ pc[s] = "next" => full[s]
    /\ s \in Syncers /\ pc[s] # "marking" => \A n, k \in at[s] : n = k
    /\ s \notin tainted => \A n \in at[s] :
          /\ Loaded(s) => seen[s][n] = row[n]
          /\ s \in Syncers /\ pc[s] \in {"load", "commit"} => view[s] = radio[n]

Setting(p, n) == n \in at[p] /\ pc[p] \in {"write", "commit", "audit"}

AgreeInv(n) ==
    n \notin doubtful /\ (\A s \in Sessions : n \in at[s] => s \notin tainted) =>
        \A c \in Sent : (\A p \in Patchers : Setting(p, n) => c \notin req[p].cells) =>
            row[n][c] = radio[n][c]

AgreementInv == (\A s \in Sessions : LookInv(s)) /\ (\A n \in Nodes : AgreeInv(n))

LEMMA LookOthers ==
    ASSUME TypeOK, WriteInv, NEW s \in Sessions, Alone(s),
           NEW t \in Sessions, t # s, LookInv(t)
    PROVE  LookInv(t)'
<1>1. /\ pc'[t] = pc[t] /\ at'[t] = at[t] /\ view'[t] = view[t] /\ seen'[t] = seen[t]
      /\ t \in Syncers => full'[t] = full[t]
      /\ t \in tainted => t \in tainted'
  BY DEF Alone
<1>2. ASSUME t \notin tainted', NEW n \in at[t] PROVE radio'[n] = radio[n] /\ row'[n] = row[n]
  <2>1. n \notin at[s]
    BY <1>1, <1>2 DEF WriteInv, Apart
  <2> QED
    BY <2>1, <1>2 DEF Alone, TypeOK
<1>3. Loaded(t)' <=> Loaded(t)
  BY <1>1 DEF Loaded
<1> QED
  BY <1>1, <1>2, <1>3 DEF LookInv

\* A step that leaves a node as it is and ends nothing on it.
LEMMA AgreeQuiet ==
    ASSUME TypeOK, NEW n \in Nodes, AgreeInv(n), radio'[n] = radio[n], row'[n] = row[n],
           n \in doubtful => n \in doubtful',
           \A t \in Sessions : n \in at[t] => n \in at'[t] /\ (t \in tainted => t \in tainted'),
           \A p \in Patchers : Setting(p, n) => Setting(p, n)' /\ req'[p] = req[p]
    PROVE  AgreeInv(n)'
BY DEF AgreeInv

\* Nothing changes on nodes that the session neither leaves nor enters.
LEMMA AgreeElsewhere ==
    ASSUME TypeOK, NEW s \in Sessions, Alone(s), NEW n \in Nodes, n \notin at[s],
           n \in doubtful => n \in doubtful', AgreeInv(n)
    PROVE  AgreeInv(n)'
<1>1. radio'[n] = radio[n] /\ row'[n] = row[n]
  BY DEF Alone
<1>2. \A t \in Sessions : n \in at[t] => n \in at'[t] /\ (t \in tainted => t \in tainted')
  BY DEF Alone
<1>3. \A p \in Patchers : Setting(p, n) => Setting(p, n)' /\ req'[p] = req[p]
  BY DEF Alone, Setting
<1> QED
  BY <1>1, <1>2, <1>3, AgreeQuiet

\* A session that leaves its node sound and untainted was alone there.
LEMMA AgreeLeave ==
    ASSUME TypeOK, WriteInv, NEW s \in Sessions, NEW broken, NEW sound, Leave(s, broken, sound),
           NEW n \in at[s],
           ~broken /\ s \notin tainted /\ n \notin doubtful' =>
               \A c \in Sent : row'[n][c] = radio'[n][c]
    PROVE  AgreeInv(n)'
<1>1. broken \/ s \in tainted => n \in doubtful'
  BY DEF Leave
<1> QED
  BY <1>1 DEF AgreeInv

\* Then, if nobody was setting anything, row and radio agreed.
LEMMA AgreedAlone ==
    ASSUME TypeOK, WriteInv, NEW s \in Sessions, NEW n \in at[s], s \notin tainted,
           n \notin doubtful, AgreeInv(n),
           NEW c \in Sent, s \in Patchers /\ Setting(s, n) => c \notin req[s].cells
    PROVE  row[n][c] = radio[n][c]
<1>1. \A t \in Sessions : n \in at[t] => t = s
  BY DEF WriteInv, Apart
<1>2. \A p \in Patchers : Setting(p, n) => c \notin req[p].cells
  BY <1>1 DEF Setting
<1>3. n \in Nodes
  BY DEF TypeOK
<1> QED
  BY <1>1, <1>2, <1>3 DEF AgreeInv

LEMMA LeaveElsewhere ==
    ASSUME NEW s \in Sessions, NEW broken, NEW sound, Leave(s, broken, sound)
    PROVE  \A n \in Nodes \ at[s] : n \in doubtful' <=> n \in doubtful
BY DEF Leave

LEMMA SentCells == Sent \subseteq Cells /\ "favorite" \notin Sent
BY DEF Sent, Cells, Columns, Settings

LEMMA AgreeSession ==
    ASSUME TypeOK, WriteInv, AgreementInv, NEW s \in Sessions, Session(s)
    PROVE  AgreementInv'
<1>0. LookInv(s) /\ Alone(s) /\ \A t \in Sessions \ {s} : LookInv(t)'
  BY WriteSession, LookOthers DEF AgreementInv
<1>1. CASE Open(s) \/ Refused(s)
  <2>1. /\ UNCHANGED <<tables, plan, at, seen, view, results, history>>
        /\ pc[s] \in {"connect", "opening"} /\ pc'[s] \in {"connect", "opening"}
    BY <1>1 DEF Open, Refused, Move, Goto, session, TypeOK
  <2>2. LookInv(s)'
    BY <1>0, <2>1 DEF LookInv, Loaded, tables, plan, history
  <2>3. ASSUME NEW n \in Nodes PROVE AgreeInv(n)'
    <3>1. \A p \in Patchers : Setting(p, n) => Setting(p, n)' /\ req'[p] = req[p]
      BY <1>0, <2>1 DEF Alone, Setting, plan
    <3> QED
      BY <2>1, <3>1, AgreeQuiet DEF AgreementInv, tables, history
  <2> QED
    BY <1>0, <2>2, <2>3 DEF AgreementInv
<1>2. ASSUME NEW missing, Opened(s, missing) PROVE AgreementInv'
  <2>1. /\ UNCHANGED <<tables, plan, at, seen, results, doubtful>>
        /\ pc[s] = "opening" /\ pc'[s] = AfterConnect(s)
        /\ tainted' = IF missing = {} THEN tainted ELSE tainted \cup {s}
    BY <1>2 DEF Opened, Move, Goto, TypeOK
  <2>2. PICK n \in at[s] : view' = [view EXCEPT ![s] = Received(n, missing)]
    BY <1>2 DEF Opened, Received
  <2>3. LookInv(s)'
    <3>1. ASSUME s \notin tainted', s \in Syncers, NEW k \in at[s] PROVE view'[s] = radio[k]
      <4>1. k = n /\ missing = {}
        BY <1>0, <2>1, <3>1 DEF LookInv
      <4>2. radio[n] \in [Cells -> Values]
        BY DEF TypeOK, Row
      <4>3. Received(n, missing) = radio[n]
        BY <4>1, <4>2 DEF Received
      <4> QED
        BY <2>2, <4>1, <4>3 DEF TypeOK
    <3> QED
      BY <1>0, <2>1, <3>1 DEF LookInv, Loaded, AfterConnect, tables, plan
  <2>4. ASSUME NEW k \in Nodes PROVE AgreeInv(k)'
    <3>1. \A p \in Patchers : Setting(p, k) => Setting(p, k)' /\ req'[p] = req[p]
      BY <1>0, <2>1 DEF Alone, Setting, plan
    <3> QED
      BY <2>1, <3>1, AgreeQuiet DEF AgreementInv, tables
  <2> QED
    BY <1>0, <2>3, <2>4 DEF AgreementInv
<1>3. CASE GaveUp(s)
  <2>1. Leave(s, FALSE, FALSE) /\ pc[s] = "opening" /\ UNCHANGED tables
    BY <1>3 DEF GaveUp, Move
  <2>2. LookInv(s)'
    <3>1. at'[s] = {}
      BY <2>1, LeaveMinds
    <3>2. s \in Syncers /\ pc'[s] = "next" => full'[s]
      BY <1>3 DEF GaveUp, Move, Goto, plan, TypeOK
    <3> QED
      BY <3>1, <3>2 DEF LookInv
  <2>3. ASSUME NEW n \in at[s] PROVE AgreeInv(n)'
    <3>1. AgreeInv(n)
      BY DEF TypeOK, AgreementInv
    <3>2. s \notin tainted /\ n \notin doubtful' => n \notin doubtful
      BY <2>1 DEF Leave
    <3>3. s \notin tainted /\ n \notin doubtful' => \A c \in Sent : row'[n][c] = radio'[n][c]
      BY <2>1, <3>1, <3>2, AgreedAlone DEF Setting, tables
    <3> QED
      BY <2>1, <3>3, AgreeLeave
  <2>4. \A n \in Nodes \ at[s] : AgreeInv(n)'
    BY <1>0, <2>1, LeaveElsewhere, AgreeElsewhere DEF AgreementInv
  <2> QED
    BY <1>0, <2>2, <2>3, <2>4 DEF AgreementInv
<1> QED
  BY <1>1, <1>2, <1>3 DEF Session

LEMMA AgreePatch ==
    ASSUME AltitudeGiven, Effective, TypeOK, WriteInv, AgreementInv, NEW p \in Patchers, Patch(p)
    PROVE  AgreementInv'
<1>0. LookInv(p) /\ PatchInv(p) /\ p \in Sessions /\ p \notin Syncers
  BY DEF AgreementInv, WriteInv
<1>1. Alone(p) /\ \A t \in Sessions \ {p} : LookInv(t)'
  BY <1>0, WritePatch, LookOthers DEF AgreementInv
<1>2. ASSUME UNCHANGED <<tables, at, seen, history>>, pc[p] \in {"idle", "next"},
             pc'[p] \in {"idle", "next", "done"}
      PROVE  AgreementInv'
  <2>1. LookInv(p)'
    BY <1>0, <1>2 DEF LookInv, Loaded, tables, history
  <2>2. ASSUME NEW n \in Nodes PROVE AgreeInv(n)'
    <3>1. \A q \in Patchers : Setting(q, n) => Setting(q, n)' /\ req'[q] = req[q]
      BY <1>1, <1>2 DEF Alone, Setting
    <3> QED
      BY <1>2, <3>1, AgreeQuiet DEF AgreementInv, tables, history
  <2> QED
    BY <1>1, <2>1, <2>2 DEF AgreementInv
<1>3. CASE Begin(p) \/ End(p) \/ \E n \in Nodes : PickPoisoned(p, n)
  BY <1>2, <1>3 DEF Begin, End, PickPoisoned, Move, Goto, session, TypeOK
<1>4. ASSUME NEW n \in Nodes, Pick(p, n) PROVE AgreementInv'
  <2>1. /\ Enter(p, {n}) /\ UNCHANGED <<tables, req, doubtful>> /\ pc[p] = "next"
        /\ pc'[p] = IF Remote(p) THEN "connect" ELSE "commit"
        /\ seen'[p][n] = row[n]
    BY <1>4 DEF Pick, Move, Goto, TypeOK
  <2>2. at'[p] = {n} /\ tainted \subseteq tainted' /\ \A t \in Sessions \ {p} : at'[t] = at[t]
    BY <2>1, EnterMinds
  <2>3. LookInv(p)'
    BY <1>0, <2>1, <2>2 DEF LookInv, tables
  <2>4. AgreeInv(n)'
    <3>1. \A q \in Patchers : Setting(q, n) => Setting(q, n)' /\ req'[q] = req[q]
      BY <1>1, <2>1 DEF Alone, Setting
    <3> QED
      BY <2>1, <2>2, <3>1, AgreeQuiet DEF AgreementInv, tables
  <2>5. ASSUME NEW k \in Nodes, k # n PROVE AgreeInv(k)'
    <3>1. AgreeInv(k) /\ \A q \in Patchers : Setting(q, k) => Setting(q, k)' /\ req'[q] = req[q]
      BY <1>1, <2>1 DEF Alone, Setting, AgreementInv
    <3>2. k \notin at[p]
      BY <1>0, <2>1 DEF LookInv
    <3> QED
      BY <1>0, <1>1, <2>1, <3>1, <3>2, AgreeElsewhere
  <2> QED
    BY <1>1, <2>3, <2>4, <2>5 DEF AgreementInv
<1>5. ASSUME NEW m \in Writes, Write(p, m) PROVE AgreementInv'
  <2>1. /\ UNCHANGED <<row, plan, at, seen, history>> /\ m \in left[p]
        /\ pc[p] = "write" /\ pc'[p] \in {"write", "commit"}
    BY <1>5 DEF Write, IsNext, Move, Goto, TypeOK
  <2>2. LookInv(p)'
    BY <1>0, <2>1 DEF LookInv, Loaded, history
  <2>3. ASSUME NEW n \in Nodes, n \in at[p] PROVE AgreeInv(n)'
    <3>1. CASE p \in tainted
      BY <1>0, <2>1, <2>3, <3>1 DEF AgreeInv, history
    <3>2. CASE p \notin tainted
      <4>1. ASSUME NEW c \in Sent, c \notin req[p].cells PROVE radio'[n][c] = radio[n][c]
        <5>1. \A q \in Patchers : n \in at[q] => q = p
          BY <1>0, <2>3, <3>2 DEF WriteInv, Apart
        <5>2. [Next]_vars
          BY <1>0, <1>5 DEF Next, Patch
        <5> QED
          BY <3>2, <4>1, <5>1, <5>2, AskedStep, SentCells
      <4>2. \A q \in Patchers : Setting(q, n) <=> Setting(q, n)'
        BY <1>1, <2>1 DEF Alone, Setting
      <4>3. Setting(p, n) /\ AgreeInv(n)
        BY <2>1, <2>3 DEF Setting, AgreementInv
      <4> QED
        BY <2>1, <4>1, <4>2, <4>3 DEF AgreeInv, plan, history
    <3> QED
      BY <3>1, <3>2
  <2>4. \A n \in Nodes \ at[p] : AgreeInv(n)'
    BY <1>0, <1>1, <2>1, AgreeElsewhere DEF AgreementInv, history
  <2> QED
    BY <1>1, <2>2, <2>3, <2>4 DEF AgreementInv
<1>6. CASE Commit(p)
  <2>1. /\ UNCHANGED <<radio, plan, session, history>> /\ pc[p] = "commit" /\ pc'[p] = "audit"
        /\ row' = [n \in Nodes |-> IF n \in at[p] THEN Patched(p, n) ELSE row[n]]
    BY <1>6 DEF Commit, Move, Goto, TypeOK
  <2>2. LookInv(p)'
    BY <1>0, <2>1 DEF LookInv, Loaded, session, history
  <2>3. ASSUME NEW n \in Nodes, n \in at[p] PROVE AgreeInv(n)'
    <3>1. CASE p \in tainted
      BY <1>0, <2>1, <2>3, <3>1 DEF AgreeInv, session, history
    <3>2. CASE p \notin tainted
      <4>1. ASSUME NEW c \in Sent, c \notin req[p].cells PROVE row'[n][c] = row[n][c]
        <5>1. seen[p][n] = row[n] /\ c \in Cells /\ c \notin Recorded(p)
          BY <1>0, <2>1, <2>3, <3>2, <4>1, SentCells DEF LookInv, Loaded, Recorded
        <5> QED
          BY <2>1, <2>3, <5>1 DEF Patched
      <4>2. \A q \in Patchers : Setting(q, n) <=> Setting(q, n)'
        BY <1>1, <2>1 DEF Alone, Setting, session
      <4>3. Setting(p, n) /\ AgreeInv(n)
        BY <2>1, <2>3 DEF Setting, AgreementInv
      <4> QED
        BY <2>1, <4>1, <4>2, <4>3 DEF AgreeInv, plan, session, history
    <3> QED
      BY <3>1, <3>2
  <2>4. \A n \in Nodes \ at[p] : AgreeInv(n)'
    BY <1>0, <1>1, <2>1, AgreeElsewhere DEF AgreementInv, history
  <2> QED
    BY <1>1, <2>2, <2>3, <2>4 DEF AgreementInv
<1>7. ASSUME NEW broken \in BOOLEAN, Leave(p, broken, FALSE),
             ~broken => pc[p] = "audit" /\ UNCHANGED tables
      PROVE  AgreementInv'
  <2>1. LookInv(p)'
    BY <1>0, <1>7 DEF Leave, LookInv, TypeOK
  <2>2. ASSUME NEW n \in at[p] PROVE AgreeInv(n)'
    <3>1. ASSUME ~broken, p \notin tainted, n \notin doubtful', NEW c \in Sent
          PROVE  row'[n][c] = radio'[n][c]
      <4>1. CASE c \in req[p].cells
        BY <1>0, <1>7, <2>2, <3>1, <4>1 DEF PatchInv, Stored, tables
      <4>2. CASE c \notin req[p].cells
        <5>1. n \notin doubtful /\ AgreeInv(n)
          BY <1>7, <3>1 DEF Leave, AgreementInv, TypeOK
        <5> QED
          BY <1>0, <1>7, <3>1, <4>2, <5>1, AgreedAlone DEF tables
      <4> QED
        BY <4>1, <4>2
    <3> QED
      BY <1>0, <1>7, <3>1, AgreeLeave
  <2>3. \A n \in Nodes \ at[p] : AgreeInv(n)'
    BY <1>0, <1>1, <1>7, LeaveElsewhere, AgreeElsewhere DEF AgreementInv
  <2> QED
    BY <1>1, <2>1, <2>2, <2>3 DEF AgreementInv
<1>8. CASE CommitFails(p) \/ Audit(p) \/ AuditFails(p) \/ \E m \in Writes : WriteFails(p, m)
  BY <1>7, <1>8 DEF CommitFails, Audit, AuditFails, WriteFails, Move
<1> QED
  BY <1>3, <1>4, <1>5, <1>6, <1>8 DEF Patch

LEMMA AgreeSync ==
    ASSUME TypeOK, WriteInv, AgreementInv, NEW s \in Syncers, Sync(s)
    PROVE  AgreementInv'
<1>0. LookInv(s) /\ s \in Sessions /\ s \notin Patchers
  BY DEF AgreementInv
<1>1. Alone(s) /\ \A t \in Sessions \ {s} : LookInv(t)'
  BY <1>0, WriteSync, LookOthers DEF AgreementInv
<1>2. CASE Load(s) \/ \E N \in SUBSET Nodes : SyncAll(s, N)
  <2>1. UNCHANGED <<tables, at, view, req, history>>
    BY <1>2 DEF SyncAll, Load, session, plan
  <2>2. LookInv(s)'
    <3>1. CASE \E N \in SUBSET Nodes : SyncAll(s, N)
      BY <1>0, <2>1, <3>1 DEF SyncAll, Move, Goto, LookInv, Loaded, TypeOK, tables, history
    <3>2. CASE Load(s)
      <4>1. pc[s] = "load" /\ pc'[s] = "commit" /\ \A n \in at[s] : seen'[s][n] = row[n]
        BY <3>2 DEF Load, Move, Goto, TypeOK
      <4> QED
        BY <1>0, <2>1, <4>1 DEF LookInv, Loaded, tables, history
    <3> QED
      BY <1>2, <3>1, <3>2
  <2>3. ASSUME NEW n \in Nodes PROVE AgreeInv(n)'
    <3>1. \A q \in Patchers : Setting(q, n) => Setting(q, n)' /\ req'[q] = req[q]
      BY <1>0, <1>1, <2>1 DEF Alone, Setting
    <3> QED
      BY <2>1, <3>1, AgreeQuiet DEF AgreementInv, tables, history
  <2> QED
    BY <1>1, <2>2, <2>3 DEF AgreementInv
<1>3. ASSUME NEW N \in SUBSET Nodes, Enter(s, N), UNCHANGED <<tables, req, doubtful>>, at[s] = {},
             LookInv(s)'
      PROVE  AgreementInv'
  <2>1. at'[s] = N /\ tainted \subseteq tainted' /\ \A t \in Sessions \ {s} : at'[t] = at[t]
    BY <1>3, EnterMinds
  <2>2. ASSUME NEW n \in Nodes PROVE AgreeInv(n)'
    <3>1. \A q \in Patchers : Setting(q, n) => Setting(q, n)' /\ req'[q] = req[q]
      BY <1>0, <1>1, <1>3 DEF Alone, Setting
    <3> QED
      BY <1>3, <2>1, <3>1, AgreeQuiet DEF AgreementInv, tables
  <2> QED
    BY <1>1, <1>3, <2>2 DEF AgreementInv
<1>4. ASSUME NEW n \in Nodes, SyncNode(s, n) \/ Turn(s, n) PROVE AgreementInv'
  <2>1. /\ Enter(s, {n}) /\ UNCHANGED <<tables, req, doubtful>> /\ pc'[s] = "connect"
        /\ pc[s] \in {"idle", "next"} /\ at'[s] = {n}
    BY <1>4, EnterMinds DEF SyncNode, Turn, Move, Goto, TypeOK
  <2>2. ~full'[s] => seen'[s][n] = row[n]
    <3>1. CASE SyncNode(s, n)
      BY <3>1 DEF SyncNode, TypeOK
    <3>2. CASE Turn(s, n)
      BY <1>0, <3>2 DEF Turn, Move, LookInv
    <3> QED
      BY <1>4, <3>1, <3>2
  <2>3. LookInv(s)' /\ at[s] = {}
    BY <1>0, <2>1, <2>2 DEF LookInv, Loaded, tables
  <2> QED
    BY <1>3, <2>1, <2>3
<1>5. CASE MarkRead(s)
  <2>1. /\ Enter(s, Nodes) /\ UNCHANGED <<tables, req, doubtful>> /\ pc'[s] = "marking"
        /\ pc[s] = "next" /\ at'[s] = Nodes /\ seen'[s] = row
    BY <1>5, EnterMinds DEF MarkRead, Move, Goto, TypeOK, plan
  <2>2. LookInv(s)' /\ at[s] = {}
    BY <1>0, <2>1 DEF LookInv, Loaded, tables
  <2> QED
    BY <1>3, <2>1, <2>2
<1>6. ASSUME NEW sound \in BOOLEAN, Leave(s, FALSE, sound), pc'[s] = "next" => full'[s],
             \A n \in at[s] : s \notin tainted /\ n \notin doubtful' =>
                 \A c \in Sent : row'[n][c] = radio'[n][c]
      PROVE  AgreementInv'
  <2>1. LookInv(s)'
    <3>1. at'[s] = {}
      BY <1>6, LeaveMinds
    <3> QED
      BY <1>6, <3>1 DEF LookInv
  <2>2. \A n \in at[s] : AgreeInv(n)'
    BY <1>0, <1>6, AgreeLeave
  <2>3. \A n \in Nodes \ at[s] : AgreeInv(n)'
    BY <1>0, <1>1, <1>6, LeaveElsewhere, AgreeElsewhere DEF AgreementInv
  <2> QED
    BY <1>1, <2>1, <2>2, <2>3 DEF AgreementInv
<1>7. ASSUME NEW n \in at[s], Leave(s, FALSE, FALSE), s \notin tainted, n \notin doubtful', NEW c \in Sent
      PROVE  row[n][c] = radio[n][c]
  <2>1. n \notin doubtful /\ AgreeInv(n)
    BY <1>7 DEF Leave, AgreementInv, TypeOK
  <2> QED
    BY <1>0, <1>7, <2>1, AgreedAlone
<1>8. CASE SyncCommit(s)
  <2>1. /\ Leave(s, FALSE, TRUE) /\ pc[s] = "commit" /\ UNCHANGED radio
        /\ pc'[s] = "next" => full'[s]
        /\ row' = [n \in Nodes |-> IF n \in at[s] THEN Synced(s, n) ELSE row[n]]
    BY <1>8 DEF SyncCommit, Move, Goto, plan, TypeOK
  <2>2. ASSUME NEW n \in at[s], s \notin tainted, NEW c \in Sent PROVE row'[n][c] = radio'[n][c]
    <3>1. view[s] = radio[n] /\ seen[s][n] = row[n]
      BY <1>0, <2>1, <2>2 DEF LookInv, Loaded
    <3>2. n \in Nodes /\ view[s] \in [Cells -> Values] /\ c \in Cells /\ c # "favorite"
      BY <1>0, SentCells DEF TypeOK, Row
    <3>3. Synced(s, n)[c] = view[s][c]
      BY <3>1, <3>2 DEF Synced
    <3> QED
      BY <2>1, <2>2, <3>1, <3>2, <3>3
  <2> QED
    BY <1>6, <2>1, <2>2
<1>9. CASE SyncFails(s) \/ MarkFails(s)
  <2>1. Leave(s, FALSE, FALSE) /\ UNCHANGED tables /\ (pc'[s] = "next" => full'[s])
    BY <1>9 DEF SyncFails, MarkFails, Move, Goto, plan, TypeOK
  <2> QED
    BY <1>6, <1>7, <2>1 DEF tables
<1>10. ASSUME NEW changed, MarkCommit(s, changed) PROVE AgreementInv'
  <2>1. /\ Leave(s, FALSE, FALSE) /\ pc[s] = "marking" /\ UNCHANGED radio
        /\ pc'[s] # "next"
        /\ row' = [n \in Nodes |-> IF n \in changed THEN Marked(s, n) ELSE row[n]]
    BY <1>10 DEF MarkCommit, Move, Goto, TypeOK
  <2>2. ASSUME NEW n \in at[s], s \notin tainted, NEW c \in Sent PROVE row'[n][c] = row[n][c]
    <3>1. seen[s][n] = row[n] /\ n \in Nodes /\ c \in Cells
      BY <1>0, <2>1, <2>2, SentCells DEF LookInv, Loaded, TypeOK
    <3> QED
      BY <2>1, <3>1 DEF Marked
  <2> QED
    BY <1>6, <1>7, <2>1, <2>2
<1> QED
  BY <1>2, <1>4, <1>5, <1>8, <1>9, <1>10 DEF Sync

\* A node that a dead patcher was on becomes doubtful; a dead synchronisation
\* had changed nothing.
LEMMA AgreeKill ==
    ASSUME TypeOK, WriteInv, AgreementInv, NEW q \in Processes, Kill(q)
    PROVE  AgreementInv'
<1> DEFINE dead == {s \in Sessions : ProcessOf[s] = q /\ pc[s] \notin {"idle", "done"}}
<1>1. /\ \A s \in dead : at'[s] = {} /\ pc'[s] \in {"idle", "done"}
      /\ \A s \in Sessions \ dead : /\ at'[s] = at[s] /\ pc'[s] = pc[s]
                                    /\ seen'[s] = seen[s] /\ view'[s] = view[s]
      /\ \A p \in Patchers \ dead : req'[p] = req[p]
      /\ tainted' = tainted \ dead /\ UNCHANGED <<tables, full>>
      /\ \A s \in dead : s \in Patchers \/ s \in tainted => at[s] \subseteq doubtful'
      /\ doubtful \subseteq doubtful'
  BY DEF Kill, TypeOK
<1> HIDE DEF dead
<1>2. ASSUME NEW s \in Sessions PROVE LookInv(s)'
  BY <1>1, <1>2 DEF AgreementInv, LookInv, Loaded, tables
<1>3. ASSUME NEW n \in Nodes, n \notin doubtful', \A s \in Sessions : n \in at'[s] => s \notin tainted',
             NEW c \in Sent, \A p \in Patchers : Setting(p, n)' => c \notin req'[p].cells
      PROVE  row'[n][c] = radio'[n][c]
  <2>1. \A s \in Sessions : n \in at[s] => s \notin tainted
    BY <1>1, <1>3
  <2>2. \A p \in Patchers : Setting(p, n) => c \notin req[p].cells
    BY <1>1, <1>3 DEF Setting
  <2> QED
    BY <1>1, <1>3, <2>1, <2>2 DEF AgreementInv, AgreeInv, tables
<1> QED
  BY <1>2, <1>3 DEF AgreementInv, AgreeInv

\* Where patches are no dry runs, and position and altitude come together, a
\* node that nobody is on, and that no overlap or failure has touched since its
\* last synchronisation, shows what its radio has.
THEOREM Agreement ==
    ASSUME AltitudeGiven, Effective PROVE Spec => []AloneAgrees
<1>1. Init => AgreementInv
  BY DEF Init, AgreementInv, LookInv, AgreeInv, Unread
<1>2. ASSUME TypeOK, WriteInv, AgreementInv, [Next]_vars PROVE AgreementInv'
  <2>1. CASE UNCHANGED vars
    BY <1>2, <2>1
       DEF vars, tables, plan, session, history, AgreementInv, LookInv, Loaded, AgreeInv, Setting
  <2> QED
    BY <1>2, <2>1, AgreeSession, AgreePatch, AgreeSync, AgreeKill DEF Next
<1>3. AgreementInv => AloneAgrees
  BY DEF AgreementInv, AgreeInv, AloneAgrees, Agrees, On, Setting
<1> QED
  BY <1>1, <1>2, <1>3, TypeCorrect, Writing, PTL DEF Spec
=============================================================================
