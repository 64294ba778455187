------------------------ MODULE InventorySync_proofs ------------------------
(* Proofs of the safety properties of InventorySync for any number of      *)
(* stations, addresses, synchronisations and scans.                        *)
EXTENDS InventoryProps, TLAPS

USE InventoryAssumption, SyncAssumption DEF identified

(***************************************************************************)
(* Typing.                                                                 *)
(***************************************************************************)

\* TypeOK alone is not inductive: who is about to commit has made a plan.
PlanMade == \A s \in Syncers : spc[s] = "commit" => plan[s] \in Plan

TypeInv == TypeOK /\ PlanMade

LEMMA ThresholdType == Threshold \in Nat \ {0}
BY DEF Threshold

LEMMA SaturateType ==
    ASSUME NEW n \in Nat PROVE Saturate(n) \in 0..Threshold
BY ThresholdType DEF Saturate

\* A verdict on a well typed row is well typed.
LEMMA JudgeType ==
    ASSUME NEW row \in EndpointRow, NEW answer \in BOOLEAN
    PROVE  Judge(row, answer) \in [reachable : BOOLEAN, failures : 0..Threshold]
<1> DEFINE failures == IF answer THEN 0 ELSE Saturate(row.failures + 1)
<1>1. failures \in 0..Threshold
  BY SaturateType, ThresholdType DEF EndpointRow
<1>2. (answer \/ (row.reachable /\ failures < Threshold)) \in BOOLEAN
  OBVIOUS
<1> QED
  BY <1>1, <1>2 DEF Judge

\* The writes of an upsert keep the tables well typed.
LEMMA UpsertType ==
    ASSUME InventoryTypeOK, NEW id \in Ids, NEW e \in Endpoints,
           \/ InsertNode(id, e)
           \/ \E n \in Slots, upgrade, was \in BOOLEAN : UpdateNode(n, id, upgrade, was, e)
    PROVE  InventoryTypeOK'
<1>1. CASE InsertNode(id, e)
  BY <1>1 DEF InsertNode, InventoryTypeOK, Rows
<1>2. ASSUME NEW n \in Slots, NEW upgrade \in BOOLEAN, NEW was \in BOOLEAN,
             UpdateNode(n, id, upgrade, was, e)
      PROVE  InventoryTypeOK'
  <2> DEFINE row == [id |-> IF upgrade THEN id ELSE nodes[n].id,
                     reachable |-> IF was THEN nodes[n].reachable ELSE TRUE]
  <2>1. row \in [id : Ids \cup {Absent}, reachable : BOOLEAN]
    BY DEF InventoryTypeOK
  <2>2. nodes' = [nodes EXCEPT ![n] = row]
    BY <1>2 DEF UpdateNode
  <2>3. nodes' \in [Slots -> [id : Ids \cup {Absent}, reachable : BOOLEAN]]
    BY <2>1, <2>2 DEF InventoryTypeOK
  <2>4. links' \subseteq Slots \X Endpoints
    BY <1>2 DEF UpdateNode, InventoryTypeOK
  <2>5. UNCHANGED endpoint
    BY <1>2 DEF UpdateNode
  <2> QED
    BY <2>3, <2>4, <2>5 DEF InventoryTypeOK
<1> QED
  BY <1>1, <1>2

LEMMA TypeInit == Init => TypeInv
<1> SUFFICES ASSUME Init PROVE TypeInv
  OBVIOUS
<1>1. InventoryTypeOK
  <2>1. PICK known \in SUBSET Endpoints, old \in SUBSET Slots :
          /\ endpoint = [e \in Endpoints |->
                [known |-> e \in known, reachable |-> e \in known, failures |-> 0]]
          /\ \E at \in [old -> known] :
                /\ \A n, k \in old : At[at[n]] = At[at[k]] => n = k
                /\ nodes = [n \in Slots |->
                      [id |-> IF n \in old THEN Legacy(At[at[n]]) ELSE Absent,
                       reachable |-> n \in old]]
                /\ links = {<<n, at[n]>> : n \in old}
    BY DEF Init
  <2>2. PICK at \in [old -> known] :
                /\ nodes = [n \in Slots |->
                      [id |-> IF n \in old THEN Legacy(At[at[n]]) ELSE Absent,
                       reachable |-> n \in old]]
                /\ links = {<<n, at[n]>> : n \in old}
    BY <2>1
  <2>3. endpoint \in [Endpoints -> [known : BOOLEAN, reachable : BOOLEAN, failures : 0..Threshold]]
    BY <2>1, ThresholdType
  <2>4. \A n \in old : Legacy(At[at[n]]) \in Ids
    BY <2>2 DEF Ids
  <2>5. nodes \in [Slots -> [id : Ids \cup {Absent}, reachable : BOOLEAN]]
    BY <2>2, <2>4
  <2>6. links \subseteq Slots \X Endpoints
    <3>1. \A n \in old : <<n, at[n]>> \in Slots \X Endpoints
      BY <2>2
    <3> QED
      BY <2>2, <3>1
  <2> QED
    BY <2>3, <2>5, <2>6 DEF InventoryTypeOK
<1>2. RefreshTypeOK
  BY <1>1, ThresholdType DEF Init, RefreshTypeOK, InventoryTypeOK, EndpointRow, Unread
<1>3. SyncTypeOK /\ ScanTypeOK /\ answers \subseteq Endpoints
  BY DEF Init, SyncTypeOK, ScanTypeOK, NoNode
<1>4. PlanMade
  BY DEF Init, PlanMade
<1> QED
  BY <1>1, <1>2, <1>3, <1>4 DEF TypeOK, TypeInv

LEMMA TypeRefresh ==
    ASSUME TypeInv, RefreshStep \/ RefreshFail
    PROVE  TypeInv'
<1>0. PlanMade'
  BY DEF RefreshStep, RefreshStart, Probe, ReadNodes, RefreshCommit, RefreshFail,
     syncVars, TypeInv, PlanMade
<1> SUFFICES TypeOK'
  BY <1>0 DEF TypeInv
<1> USE DEF TypeInv, TypeOK
<1>1. CASE RefreshStart
  <2>1. InventoryTypeOK' /\ SyncTypeOK' /\ ScanTypeOK' /\ answers' \subseteq Endpoints
    BY <1>1 DEF RefreshStart, inventoryVars, syncVars, scanVars,
       InventoryTypeOK, SyncTypeOK, ScanTypeOK
  <2>2. RefreshTypeOK'
    BY <1>1 DEF RefreshStart, RefreshTypeOK, InventoryTypeOK, EndpointRow
  <2> QED
    BY <2>1, <2>2
<1>2. CASE Probe
  <2>1. InventoryTypeOK' /\ SyncTypeOK' /\ ScanTypeOK' /\ answers' \subseteq Endpoints
    BY <1>2 DEF Probe, inventoryVars, syncVars, scanVars,
       InventoryTypeOK, SyncTypeOK, ScanTypeOK
  <2>2. PICK e \in Unprobed :
           /\ verdict' = [k \in DOMAIN verdict \cup {e} |->
                             IF k = e THEN Judge(before[e], e \in answers) ELSE verdict[k]]
           /\ touched' = touched \cup {l \in links : l[2] = e}
    BY <1>2 DEF Probe
  <2>3. e \in Endpoints /\ before[e] \in EndpointRow
    BY DEF Unprobed, RefreshTypeOK
  <2>4. Judge(before[e], e \in answers) \in [reachable : BOOLEAN, failures : 0..Threshold]
    <3>1. (e \in answers) \in BOOLEAN
      OBVIOUS
    <3> QED
      BY <2>3, <3>1, JudgeType
  <2>5. DOMAIN verdict' = DOMAIN verdict \cup {e}
    BY <2>2
  <2>6. \A k \in DOMAIN verdict' :
           verdict'[k] \in [reachable : BOOLEAN, failures : 0..Threshold]
    BY <2>2, <2>4, <2>5 DEF RefreshTypeOK
  <2>7. touched' \subseteq Slots \X Endpoints
    BY <2>2 DEF RefreshTypeOK, InventoryTypeOK
  <2>8. UNCHANGED <<rpc, before, turning, missed>> /\ held' = DOMAIN verdict
    BY <1>2 DEF Probe
  <2>9. RefreshTypeOK'
    BY <2>3, <2>5, <2>6, <2>7, <2>8 DEF RefreshTypeOK
  <2> QED
    BY <2>1, <2>9
<1>3. CASE ReadNodes
  <2>1. InventoryTypeOK' /\ SyncTypeOK' /\ ScanTypeOK' /\ answers' \subseteq Endpoints
    BY <1>3 DEF ReadNodes, inventoryVars, syncVars, scanVars,
       InventoryTypeOK, SyncTypeOK, ScanTypeOK
  <2>2. turning' \in [online : SUBSET Slots, offline : SUBSET Slots]
    BY <1>3 DEF ReadNodes, Rows
  <2>3. RefreshTypeOK'
    BY <1>3, <2>2 DEF ReadNodes, RefreshTypeOK
  <2> QED
    BY <2>1, <2>3
<1>4. CASE RefreshCommit
  <2>1. SyncTypeOK' /\ ScanTypeOK' /\ answers' \subseteq Endpoints /\ UNCHANGED links
    BY <1>4 DEF RefreshCommit, syncVars, scanVars, SyncTypeOK, ScanTypeOK
  <2>2. ASSUME NEW e \in Endpoints
        PROVE  Judged(before, verdict)[e] \in EndpointRow
    <3>1. CASE e \notin DOMAIN verdict
      BY <3>1 DEF Judged, InventoryTypeOK, EndpointRow
    <3>2. CASE e \in DOMAIN verdict
      BY <3>2 DEF Judged, InventoryTypeOK, RefreshTypeOK, EndpointRow
    <3> QED
      BY <3>1, <3>2
  <2>3. endpoint' \in [Endpoints -> EndpointRow]
    BY <1>4, <2>2 DEF RefreshCommit, Judged
  <2>4. nodes' \in [Slots -> [id : Ids \cup {Absent}, reachable : BOOLEAN]]
    BY <1>4 DEF RefreshCommit, InventoryTypeOK
  <2>5. InventoryTypeOK'
    BY <2>1, <2>3, <2>4 DEF InventoryTypeOK, EndpointRow
  <2>6. missed' \in [Endpoints -> 0..Threshold]
    <3>1. \A e \in Endpoints : Saturate(missed[e] + 1) \in 0..Threshold
      BY SaturateType, ThresholdType DEF RefreshTypeOK
    <3> QED
      BY <1>4, <3>1, ThresholdType DEF RefreshCommit, RefreshTypeOK
  <2>7. RefreshTypeOK'
    BY <1>4, <2>6, ThresholdType DEF RefreshCommit, RefreshIdle, RefreshTypeOK, Unread, EndpointRow
  <2> QED
    BY <2>1, <2>5, <2>7
<1>5. CASE RefreshFail
  BY <1>5, ThresholdType DEF RefreshFail, RefreshIdle, inventoryVars, syncVars, scanVars,
     InventoryTypeOK, RefreshTypeOK, SyncTypeOK, ScanTypeOK, Unread, EndpointRow
<1> QED
  BY <1>1, <1>2, <1>3, <1>4, <1>5 DEF RefreshStep

\* The identity a station presents is one of the identities there are.
LEMMA PresentedId ==
    ASSUME NEW kind \in Presents, NEW e \in Endpoints
    PROVE  (IF kind = "unknown" THEN Unknown ELSE <<kind, At[e]>>) \in Ids
BY DEF Ids, Owner, Alias

LEMMA LookupRows ==
    ASSUME NEW id, NEW e PROVE Lookup(id, e) \subseteq Rows
BY DEF Lookup, ByEndpoint

LEMMA TypeSync ==
    ASSUME TypeInv, NEW s \in Syncers, SyncAll(s) \/ SyncNode(s) \/ SyncStep(s)
    PROVE  TypeInv'
<1> USE DEF TypeInv, TypeOK, Goto
<1>1. CASE SyncAll(s) \/ SyncNode(s) \/ FetchFail(s) \/ SyncDone(s)
  <2>1. InventoryTypeOK' /\ RefreshTypeOK' /\ ScanTypeOK' /\ answers' \subseteq Endpoints
    BY <1>1 DEF SyncAll, SyncNode, FetchFail, SyncDone, inventoryVars, refreshVars,
       scanVars, InventoryTypeOK, RefreshTypeOK, ScanTypeOK
  <2>2. CASE SyncAll(s)
    BY <2>1, <2>2 DEF SyncAll, SyncTypeOK, PlanMade, Reachable, Known
  <2>3. CASE SyncNode(s)
    <3>1. PICK l \in links :
             /\ todo' = [todo EXCEPT ![s] = {l[2]}]
             /\ loaded' = [loaded EXCEPT ![s] =
                   [slot |-> {l[1]}, was |-> nodes[l[1]].reachable]]
      BY <2>3 DEF SyncNode
    <3>2. l[1] \in Slots /\ l[2] \in Endpoints /\ nodes[l[1]].reachable \in BOOLEAN
      BY DEF InventoryTypeOK
    <3>3. /\ todo' \in [Syncers -> SUBSET Endpoints]
          /\ loaded' \in [Syncers -> [slot : SUBSET Slots, was : BOOLEAN]]
      BY <3>1, <3>2 DEF SyncTypeOK
    <3>4. /\ spc' \in [Syncers -> {"idle", "next", "commit"}]
          /\ UNCHANGED <<plan, nameless, partial>>
      BY <2>3 DEF SyncNode, SyncTypeOK
    <3>5. SyncTypeOK' /\ PlanMade'
      BY <2>3, <3>3, <3>4 DEF SyncNode, SyncTypeOK, PlanMade
    <3> QED
      BY <2>1, <3>5
  <2>4. CASE FetchFail(s)
    BY <2>1, <2>4 DEF FetchFail, SyncTypeOK, PlanMade, NoNode
  <2>5. CASE SyncDone(s)
    BY <2>1, <2>5 DEF SyncDone, SyncTypeOK, PlanMade
  <2> QED
    BY <1>1, <2>2, <2>3, <2>4, <2>5
<1>2. CASE Fetch(s)
  <2>1. InventoryTypeOK' /\ RefreshTypeOK' /\ ScanTypeOK' /\ answers' \subseteq Endpoints
    BY <1>2 DEF Fetch, inventoryVars, refreshVars,
       scanVars, InventoryTypeOK, RefreshTypeOK, ScanTypeOK
  <2>2. PICK p \in Plan : plan' = [plan EXCEPT ![s] = p]
    <3>1. PICK e \in todo[s], kind \in Presents :
            LET id == IF kind = "unknown" THEN Unknown ELSE <<kind, At[e]>>
                Write(slot, was) ==
                   [slot |-> slot, was |-> was, id |-> id, e |-> e,
                    upgrade |-> slot # {} /\ ~IdInUse(id)]
            IN \/ plan' = [plan EXCEPT ![s] = Write({}, FALSE)]
               \/ \E n \in Lookup(id, e) :
                     plan' = [plan EXCEPT ![s] =
                        Write({n}, IF loaded[s].slot = {n} THEN loaded[s].was
                                                         ELSE nodes[n].reachable)]
      BY <1>2 DEF Fetch
    <3> DEFINE id == IF kind = "unknown" THEN Unknown ELSE <<kind, At[e]>>
               Write(slot, was) ==
                 [slot |-> slot, was |-> was, id |-> id, e |-> e,
                  upgrade |-> slot # {} /\ ~IdInUse(id)]
    <3>2. e \in Endpoints /\ id \in Ids
      BY PresentedId DEF SyncTypeOK
    <3>3. ASSUME NEW slot \in SUBSET Slots, NEW was \in BOOLEAN
          PROVE  Write(slot, was) \in Plan
      BY <3>2 DEF Plan
    <3>4. CASE plan' = [plan EXCEPT ![s] = Write({}, FALSE)]
      BY <3>3, <3>4
    <3>5. ASSUME NEW n \in Lookup(id, e),
                 plan' = [plan EXCEPT ![s] =
                        Write({n}, IF loaded[s].slot = {n} THEN loaded[s].was
                                                         ELSE nodes[n].reachable)]
          PROVE  \E p \in Plan : plan' = [plan EXCEPT ![s] = p]
      <4>1. n \in Slots
        BY LookupRows DEF Rows
      <4>2. (IF loaded[s].slot = {n} THEN loaded[s].was ELSE nodes[n].reachable) \in BOOLEAN
        BY <4>1 DEF SyncTypeOK, InventoryTypeOK
      <4> QED
        BY <3>3, <3>5, <4>1, <4>2
    <3> QED
      BY <3>1, <3>4, <3>5
  <2>3. SyncTypeOK' /\ PlanMade'
    BY <1>2, <2>2 DEF Fetch, SyncTypeOK, PlanMade, NoNode
  <2> QED
    BY <2>1, <2>3
<1>3. CASE Insert(s) \/ Update(s) \/ SyncFail(s)
  <2>1. Written(s)
    BY <1>3 DEF Insert, Update, SyncFail
  <2>2. RefreshTypeOK' /\ ScanTypeOK' /\ answers' \subseteq Endpoints
    BY <2>1 DEF Written, refreshVars, scanVars, RefreshTypeOK, ScanTypeOK
  <2>4. plan[s] \in Plan
    BY <1>3 DEF Insert, Update, SyncFail, PlanMade
  <2>6. nameless' \in [Slots -> SUBSET Stations] /\ partial' \subseteq Stations
    <3>1. nameless \in [Slots -> SUBSET Stations] /\ partial \subseteq Stations
      BY DEF SyncTypeOK
    <3>2. CASE SyncFail(s)
      BY <3>1, <3>2 DEF SyncFail
    <3>3. CASE Insert(s) \/ Update(s)
      <4>1. PICK n : StoredAs(s, n)
        BY <3>3 DEF Insert, Update
      <4>2. At[plan[s].e] \in Stations
        BY <2>4 DEF Plan
      <4> QED
        BY <3>1, <4>1, <4>2 DEF StoredAs
    <3> QED
      BY <1>3, <3>2, <3>3
  <2>3. SyncTypeOK' /\ PlanMade'
    BY <2>1, <2>6 DEF Written, SyncTypeOK, PlanMade
  <2>5. InventoryTypeOK'
    <3>1. CASE Insert(s)
      BY <2>4, <3>1, UpsertType DEF Insert, Plan
    <3>2. CASE Update(s)
      <4>1. PICK n \in plan[s].slot :
               UpdateNode(n, plan[s].id, plan[s].upgrade, plan[s].was, plan[s].e)
        BY <3>2 DEF Update
      <4>2. /\ n \in Slots /\ plan[s].id \in Ids /\ plan[s].e \in Endpoints
            /\ plan[s].upgrade \in BOOLEAN /\ plan[s].was \in BOOLEAN
        BY <2>4 DEF Plan
      <4> QED
        BY <4>1, <4>2, UpsertType
    <3>3. CASE SyncFail(s)
      BY <3>3 DEF SyncFail, inventoryVars, InventoryTypeOK
    <3> QED
      BY <1>3, <3>1, <3>2, <3>3
  <2> QED
    BY <2>2, <2>3, <2>5
<1> QED
  BY <1>1, <1>2, <1>3 DEF SyncStep

LEMMA TypeScan ==
    ASSUME TypeInv, NEW d \in Discoverers, Scan(d) \/ ScanStep(d)
    PROVE  TypeInv'
<1> USE DEF TypeInv, TypeOK
<1>1. SyncTypeOK' /\ PlanMade' /\ answers' \subseteq Endpoints /\ UNCHANGED <<nodes, links>>
  BY DEF Scan, ScanStep, Save, SaveFail, ScanIdle, inventoryVars, syncVars, SyncTypeOK, PlanMade
<1>2. CASE Scan(d)
  BY <1>1, <1>2 DEF Scan, inventoryVars, refreshVars, InventoryTypeOK, RefreshTypeOK, ScanTypeOK
<1>3. CASE Save(d)
  <2>1. endpoint' \in [Endpoints -> EndpointRow]
    <3>1. \A e \in Endpoints : endpoint[e] \in EndpointRow
      BY DEF InventoryTypeOK, EndpointRow
    <3>2. \A e \in Endpoints : [endpoint[e] EXCEPT !.reachable = TRUE] \in EndpointRow
      BY <3>1 DEF EndpointRow
    <3>3. [known |-> TRUE, reachable |-> TRUE, failures |-> 0] \in EndpointRow
      BY ThresholdType DEF EndpointRow
    <3> QED
      BY <1>3, <3>1, <3>2, <3>3 DEF Save
  <2>2. missed' \in [Endpoints -> 0..Threshold]
    BY <1>3 DEF Save, ScanIdle, refreshVars, RefreshTypeOK
  <2>3. RefreshTypeOK'
    BY <1>3, <2>2 DEF Save, ScanIdle, refreshVars, RefreshTypeOK
  <2>4. ScanTypeOK'
    BY <1>3 DEF Save, ScanIdle, ScanTypeOK
  <2> QED
    BY <1>1, <2>1, <2>3, <2>4 DEF InventoryTypeOK, EndpointRow
<1>4. CASE SaveFail(d)
  BY <1>1, <1>4 DEF SaveFail, ScanIdle, inventoryVars, refreshVars, InventoryTypeOK, RefreshTypeOK, ScanTypeOK
<1> QED
  BY <1>2, <1>3, <1>4 DEF ScanStep

LEMMA TypeRest ==
    ASSUME TypeInv, (\E e \in Endpoints : HostChanges(e)) \/ UNCHANGED vars
    PROVE  TypeInv'
<1> USE DEF TypeInv, TypeOK, inventoryVars, refreshVars, syncVars, scanVars,
            InventoryTypeOK, RefreshTypeOK, SyncTypeOK, ScanTypeOK, PlanMade
<1>1. CASE \E e \in Endpoints : HostChanges(e)
  BY <1>1 DEF HostChanges
<1>2. CASE UNCHANGED vars
  BY <1>2 DEF vars
<1> QED
  BY <1>1, <1>2

THEOREM Typing == Spec => []TypeInv
<1>1. ASSUME TypeInv, [Next]_vars PROVE TypeInv'
  BY <1>1, TypeRefresh, TypeSync, TypeScan, TypeRest DEF Next
<1> QED
  BY TypeInit, <1>1, PTL DEF Spec

\* Every variable keeps its type, whatever the constants are.
THEOREM TypeCorrect == Spec => []TypeOK
<1>1. TypeInv => TypeOK
  BY DEF TypeInv
<1> QED
  BY Typing, <1>1, PTL

(***************************************************************************)
(* Identity.  The stations of a row are the one it names and those that    *)
(* were stored in it without an identity; they only become more.  The      *)
(* endpoints of the row belong to them, and whoever plans to write the row *)
(* is one of them, however long ago it looked the row up.                  *)
(***************************************************************************)

StationOf(id) == id[2]

StationsOf(n) == IF nameless[n] = {} THEN {StationOf(nodes[n].id)} ELSE nameless[n]

RowsTrue ==
    /\ \A n \in Slots : nodes[n].id = Unknown => nameless[n] # {}
    /\ \A n \in Slots \ Rows : nameless[n] = {}
    /\ \A n \in Rows : nodes[n].id # Unknown => StationOf(nodes[n].id) \in StationsOf(n)
    /\ \A l \in links : l[1] \in Rows /\ At[l[2]] \in StationsOf(l[1])

\* Row n may be written for a station that presents id at e.
Belongs(n, id, e) ==
    /\ n \in Rows
    /\ IF id = Unknown THEN nameless[n] # {} ELSE At[e] \in StationsOf(n)

PlanTrue(s) ==
    /\ plan[s].id # Unknown => StationOf(plan[s].id) = At[plan[s].e]
    /\ plan[s].id = Unknown => ~plan[s].upgrade
    /\ \A n \in plan[s].slot : Belongs(n, plan[s].id, plan[s].e)

IdentityInv == RowsTrue /\ \A s \in Syncers : spc[s] = "commit" => PlanTrue(s)

LEMMA IdKinds ==
    /\ \A i \in Ids : i # Absent
    /\ \A s : Legacy(s) # Unknown /\ Legacy(s) # Absent
    /\ Absent # Unknown
<1>1. ASSUME NEW i \in Ids PROVE i # Absent
  <2>1. (\E s \in Stations : i \in {Owner(s), Alias(s), Legacy(s)}) \/ i = Unknown
    BY DEF Ids
  <2>3. \A s : Owner(s)[1] = "owner" /\ Alias(s)[1] = "alias" /\ Legacy(s)[1] = "legacy"
    BY DEF Owner, Alias, Legacy
  <2>4. Unknown[1] = "unknown"
    BY DEF Unknown
  <2>2. Absent[1] = "absent"
    BY DEF Absent
  <2> QED
    BY <2>1, <2>2, <2>3, <2>4
<1>2. ASSUME NEW s PROVE Legacy(s) # Unknown /\ Legacy(s) # Absent
  <2>1. Legacy(s)[1] = "legacy" /\ Unknown[1] = "unknown" /\ Absent[1] = "absent"
    BY DEF Legacy, Unknown, Absent
  <2> QED
    BY <2>1
<1>3. Absent # Unknown
  <2>1. Unknown[1] = "unknown" /\ Absent[1] = "absent"
    BY DEF Unknown, Absent
  <2> QED
    BY <2>1
<1> QED
  BY <1>1, <1>2, <1>3

\* The rows an initial state has, with the endpoints of their stations.
LEMMA InitRows ==
    ASSUME Init
    PROVE  /\ \A n \in Rows : \E e \in Endpoints :
                 <<n, e>> \in links /\ nodes[n].id = Legacy(At[e])
           /\ \A l \in links : l[1] \in Rows /\ nodes[l[1]].id = Legacy(At[l[2]])
           /\ ListedOnce
<1>1. PICK known \in SUBSET Endpoints, old \in SUBSET Slots : \E at \in [old -> known] :
                /\ \A n, k \in old : At[at[n]] = At[at[k]] => n = k
                /\ nodes = [n \in Slots |->
                      [id |-> IF n \in old THEN Legacy(At[at[n]]) ELSE Absent,
                       reachable |-> n \in old]]
                /\ links = {<<n, at[n]>> : n \in old}
  BY DEF Init
<1>2. PICK at \in [old -> known] :
                /\ \A n, k \in old : At[at[n]] = At[at[k]] => n = k
                /\ nodes = [n \in Slots |->
                      [id |-> IF n \in old THEN Legacy(At[at[n]]) ELSE Absent,
                       reachable |-> n \in old]]
                /\ links = {<<n, at[n]>> : n \in old}
  BY <1>1
<1>3. \A n \in old : n \in Slots /\ at[n] \in Endpoints /\ nodes[n].id = Legacy(At[at[n]])
  BY <1>2
<1>4. Rows = old
  BY <1>2, <1>3, IdKinds DEF Rows
<1>5. \A n \in old : <<n, at[n]>> \in links
  BY <1>2
<1>6. ASSUME NEW l \in links PROVE l[1] \in Rows /\ nodes[l[1]].id = Legacy(At[l[2]])
  <2>1. PICK n \in old : l = <<n, at[n]>>
    BY <1>2
  <2>2. l[1] = n /\ l[2] = at[n]
    BY <2>1
  <2> QED
    BY <1>3, <1>4, <2>2
<1>7. ListedOnce
  <2> SUFFICES ASSUME NEW n \in Rows, NEW k \in Rows, nodes[n].id[2] = nodes[k].id[2]
               PROVE  n = k
    BY DEF ListedOnce, Identified
  <2>1. At[at[n]] = At[at[k]]
    BY <1>3, <1>4 DEF Legacy
  <2> QED
    BY <1>2, <1>4, <2>1
<1>8. ASSUME NEW n \in Rows
      PROVE  \E e \in Endpoints : <<n, e>> \in links /\ nodes[n].id = Legacy(At[e])
  <2>1. n \in old
    BY <1>4
  <2>2. at[n] \in Endpoints /\ <<n, at[n]>> \in links /\ nodes[n].id = Legacy(At[at[n]])
    BY <1>3, <1>5, <2>1
  <2> QED
    BY <2>2
<1> QED
  BY <1>6, <1>7, <1>8

LEMMA IdentityInit ==
    ASSUME Init PROVE IdentityInv
<1>1. nameless = [n \in Slots |-> {}]
  BY DEF Init
<1>2. ASSUME NEW n \in Slots PROVE nodes[n].id # Unknown
  <2>1. CASE n \in Rows
    BY <2>1, InitRows, IdKinds
  <2>2. CASE n \notin Rows
    BY <2>2, IdKinds DEF Rows
  <2> QED
    BY <2>1, <2>2
<1>3. \A n \in Slots : StationsOf(n) = {StationOf(nodes[n].id)}
  BY <1>1 DEF StationsOf
<1>4. ASSUME NEW l \in links PROVE l[1] \in Rows /\ At[l[2]] \in StationsOf(l[1])
  <2>1. l[1] \in Rows /\ nodes[l[1]].id = Legacy(At[l[2]])
    BY InitRows
  <2>2. StationOf(nodes[l[1]].id) = At[l[2]]
    BY <2>1 DEF StationOf, Legacy
  <2> QED
    BY <1>3, <2>1, <2>2 DEF Rows
<1>5. RowsTrue
  BY <1>1, <1>2, <1>3, <1>4 DEF RowsTrue, Rows
<1>6. \A s \in Syncers : spc[s] # "commit"
  BY DEF Init
<1> QED
  BY <1>5, <1>6 DEF IdentityInv

\* A lookup only returns rows the station at the endpoint belongs to.
LEMMA LookupTrue ==
    ASSUME RowsTrue, NEW id, NEW e, id # Unknown => StationOf(id) = At[e],
           NEW n \in Lookup(id, e)
    PROVE  Belongs(n, id, e)
<1>1. n \in Rows
  BY LookupRows
<1>2. CASE id = Unknown
  <2>1. nodes[n].id = Unknown
    BY <1>2 DEF Lookup
  <2> QED
    BY <1>1, <1>2, <2>1 DEF Belongs, RowsTrue, Rows
<1>3. CASE id # Unknown
  <2>1. nodes[n].id = id \/ <<n, e>> \in links
    BY <1>3 DEF Lookup, ByEndpoint
  <2>2. CASE nodes[n].id = id
    BY <1>1, <1>3, <2>2 DEF RowsTrue, Belongs
  <2>3. CASE <<n, e>> \in links
    <3>1. <<n, e>>[1] = n /\ <<n, e>>[2] = e
      OBVIOUS
    <3>2. At[e] \in StationsOf(n)
      BY <2>3, <3>1 DEF RowsTrue
    <3> QED
      BY <1>1, <1>3, <3>2 DEF Belongs
  <2> QED
    BY <2>1, <2>2, <2>3
<1> QED
  BY <1>2, <1>3

\* Steps that change no identity, no endpoint of a node and no plan.
LEMMA IdentityQuiet ==
    ASSUME TypeInv, IdentityInv,
           \A n \in Slots : nodes'[n].id = nodes[n].id,
           UNCHANGED <<links, nameless>>,
           \A s \in Syncers : spc'[s] = "commit" => spc[s] = "commit" /\ plan'[s] = plan[s]
    PROVE  IdentityInv'
<1>1. Rows' = Rows /\ \A n \in Slots : StationsOf(n)' = StationsOf(n)
  BY DEF Rows, StationsOf
<1>2. RowsTrue'
  <2>1. \A n \in Slots : nodes'[n].id = nodes[n].id /\ nameless'[n] = nameless[n]
    OBVIOUS
  <2>2. \A n \in Rows : nodes[n].id # Unknown => StationOf(nodes'[n].id) \in StationsOf(n)'
    BY <1>1, <2>1 DEF IdentityInv, RowsTrue, Rows
  <2>3. ASSUME NEW l \in links PROVE l[1] \in Rows /\ At[l[2]] \in StationsOf(l[1])'
    <3>1. l[1] \in Rows /\ At[l[2]] \in StationsOf(l[1])
      BY DEF IdentityInv, RowsTrue
    <3>2. PICK n \in Slots : n = l[1]
      BY <3>1 DEF Rows
    <3>3. StationsOf(n)' = StationsOf(n)
      BY <1>1
    <3> QED
      BY <3>1, <3>2, <3>3
  <2> QED
    BY <1>1, <2>1, <2>2, <2>3 DEF IdentityInv, RowsTrue, Rows
<1>3. ASSUME NEW s \in Syncers, spc'[s] = "commit" PROVE PlanTrue(s)'
  <2>1. PlanTrue(s) /\ plan'[s] = plan[s]
    BY <1>3 DEF IdentityInv
  <2>2. \A n \in plan[s].slot : Belongs(n, plan[s].id, plan[s].e)'
    BY <1>1, <2>1 DEF PlanTrue, Belongs, Rows
  <2> QED
    BY <2>1, <2>2 DEF PlanTrue
<1> QED
  BY <1>2, <1>3 DEF IdentityInv

\* The write of a plan, seen row by row: row n is written, no other row is.
WriteOf(s, n) ==
    /\ n \in Slots
    /\ n \in Rows => Belongs(n, plan[s].id, plan[s].e)
    /\ \A k \in Slots \ {n} : nodes'[k] = nodes[k] /\ nameless'[k] = nameless[k]
    /\ \/ nodes'[n].id = plan[s].id /\ (n \in Rows => plan[s].id # Unknown)
       \/ n \in Rows /\ nodes'[n].id = nodes[n].id
    /\ links' = links \cup {<<n, plan[s].e>>}
    /\ nameless'[n] = IF plan[s].id = Unknown THEN nameless[n] \cup {At[plan[s].e]}
                                             ELSE nameless[n]
    /\ partial' = IF plan[s].id = Owner(At[plan[s].e]) THEN partial
                                                      ELSE partial \cup {At[plan[s].e]}

LEMMA WriteIs ==
    ASSUME TypeInv, IdentityInv, NEW s \in Syncers, Insert(s) \/ Update(s)
    PROVE  /\ plan[s] \in Plan /\ PlanTrue(s)
           /\ \E n : WriteOf(s, n) /\ (Insert(s) => n \notin Rows) /\ (Update(s) => n \in Rows)
<1>1. plan[s] \in Plan /\ PlanTrue(s)
  BY DEF Insert, Update, TypeInv, PlanMade, IdentityInv
<1>2. /\ nodes \in [Slots -> [id : Ids \cup {Absent}, reachable : BOOLEAN]]
      /\ nameless \in [Slots -> SUBSET Stations]
  BY DEF TypeInv, TypeOK, InventoryTypeOK, SyncTypeOK
<1>3. ~(Insert(s) /\ Update(s))
  BY DEF Insert, Update
<1>4. CASE Insert(s)
  <2>1. PICK n \in Slots \ Rows :
           /\ nodes' = [nodes EXCEPT ![n] = [id |-> plan[s].id, reachable |-> TRUE]]
           /\ links' = links \cup {<<n, plan[s].e>>}
    BY <1>4 DEF Insert, InsertNode
  <2>2. nodes'[n].id = plan[s].id /\ \A k \in Slots \ {n} : nodes'[k] = nodes[k]
    BY <1>2, <2>1
  <2>3. Rows' \ Rows \subseteq {n}
    BY <2>2 DEF Rows
  <2>4. StoredAs(s, n)
    BY <1>4, <2>3 DEF Insert
  <2>5. WriteOf(s, n)
    BY <1>2, <2>1, <2>2, <2>4 DEF WriteOf, StoredAs
  <2> QED
    BY <1>1, <1>3, <1>4, <2>1, <2>5
<1>5. CASE Update(s)
  <2>1. PICK n \in plan[s].slot :
           /\ UpdateNode(n, plan[s].id, plan[s].upgrade, plan[s].was, plan[s].e)
           /\ StoredAs(s, n)
    BY <1>5 DEF Update
  <2>2. n \in Slots /\ n \in Rows /\ Belongs(n, plan[s].id, plan[s].e)
    BY <1>1, <2>1 DEF PlanTrue, Plan, Belongs
  <2>3. /\ nodes'[n].id = IF plan[s].upgrade THEN plan[s].id ELSE nodes[n].id
        /\ \A k \in Slots \ {n} : nodes'[k] = nodes[k]
    BY <1>2, <2>1, <2>2 DEF UpdateNode
  <2>4. links' = links \cup {<<n, plan[s].e>>}
    BY <2>1 DEF UpdateNode
  <2>5. WriteOf(s, n)
    BY <1>1, <1>2, <2>1, <2>2, <2>3, <2>4 DEF WriteOf, StoredAs, PlanTrue
  <2> QED
    BY <1>1, <1>3, <1>5, <2>2, <2>5
<1> QED
  BY <1>4, <1>5

\* The stations of a row only become more, and the row written has the
\* station of the plan among them.
LEMMA IdentityWrite ==
    ASSUME TypeInv, IdentityInv, NEW s \in Syncers, Insert(s) \/ Update(s)
    PROVE  /\ IdentityInv'
           /\ \A k \in Rows : k \in Rows' /\ StationsOf(k) \subseteq StationsOf(k)'
<1>1. plan[s] \in Plan /\ PlanTrue(s)
  BY WriteIs
<1>2. PICK n : WriteOf(s, n)
  BY WriteIs
<1>3. plan[s].id # Absent
  BY <1>1, IdKinds DEF Plan
<1>4. n \in Slots /\ n \in Rows' /\ At[plan[s].e] \in StationsOf(n)'
  <2>1. n \in Slots /\ n \in Rows'
    BY <1>2, <1>3 DEF WriteOf, Rows
  <2>2. CASE plan[s].id = Unknown
    <3>1. nameless'[n] = nameless[n] \cup {At[plan[s].e]}
      BY <1>2, <2>2 DEF WriteOf
    <3>2. At[plan[s].e] \in nameless'[n]
      BY <3>1
    <3>3. StationsOf(n)' = nameless'[n]
      BY <3>2 DEF StationsOf
    <3> QED
      BY <2>1, <3>2, <3>3
  <2>3. CASE plan[s].id # Unknown /\ n \in Rows
    <3>1. At[plan[s].e] \in StationsOf(n) /\ nameless'[n] = nameless[n]
      BY <1>2, <2>3 DEF WriteOf, Belongs
    <3>2. CASE nodes'[n].id = nodes[n].id
      <4>1. StationsOf(n)' = StationsOf(n)
        BY <3>1, <3>2 DEF StationsOf
      <4> QED
        BY <2>1, <3>1, <4>1
    <3>3. CASE nodes'[n].id = plan[s].id
      <4>1. StationOf(nodes'[n].id) = At[plan[s].e]
        BY <1>1, <2>3, <3>3 DEF PlanTrue
      <4>2. At[plan[s].e] \in StationsOf(n)'
        BY <3>1, <4>1 DEF StationsOf
      <4> QED
        BY <2>1, <4>2
    <3> QED
      BY <1>2, <3>2, <3>3 DEF WriteOf
  <2>4. CASE plan[s].id # Unknown /\ n \notin Rows
    <3>1. nodes'[n].id = plan[s].id /\ nameless'[n] = {}
      BY <1>2, <2>1, <2>4 DEF WriteOf, IdentityInv, RowsTrue
    <3>2. StationOf(nodes'[n].id) = At[plan[s].e]
      BY <1>1, <2>4, <3>1 DEF PlanTrue
    <3>3. At[plan[s].e] \in StationsOf(n)'
      BY <3>1, <3>2 DEF StationsOf
    <3> QED
      BY <2>1, <3>3
  <2> QED
    BY <2>1, <2>2, <2>3, <2>4
<1>5. ASSUME NEW k \in Rows PROVE k \in Rows' /\ StationsOf(k) \subseteq StationsOf(k)'
  <2>1. CASE k # n
    BY <1>2, <2>1 DEF WriteOf, Rows, StationsOf
  <2>2. CASE k = n
    <3>1. CASE nameless[n] # {}
      BY <1>2, <1>4, <2>2, <3>1 DEF WriteOf, StationsOf
    <3>2. CASE nameless[n] = {}
      <4>1. plan[s].id # Unknown /\ At[plan[s].e] \in StationsOf(n)
        BY <1>2, <2>2, <3>2 DEF WriteOf, Belongs
      <4>2. StationsOf(n) = {At[plan[s].e]}
        BY <3>2, <4>1 DEF StationsOf
      <4> QED
        BY <1>4, <2>2, <4>2
    <3> QED
      BY <3>1, <3>2
  <2> QED
    BY <2>1, <2>2
<1>6. RowsTrue'
  <2>1. ASSUME NEW k \in Slots, nodes'[k].id = Unknown PROVE nameless'[k] # {}
    <3>1. CASE k # n
      BY <1>2, <2>1, <3>1 DEF WriteOf, IdentityInv, RowsTrue
    <3>2. CASE k = n
      BY <1>2, <2>1, <3>2 DEF WriteOf, IdentityInv, RowsTrue
    <3> QED
      BY <3>1, <3>2
  <2>2. \A k \in Slots \ Rows' : nameless'[k] = {}
    BY <1>2, <1>4, <1>5 DEF WriteOf, IdentityInv, RowsTrue
  <2>3. ASSUME NEW k \in Rows', nodes'[k].id # Unknown
        PROVE  StationOf(nodes'[k].id) \in StationsOf(k)'
    <3>1. CASE k # n
      BY <1>2, <2>3, <3>1 DEF WriteOf, IdentityInv, RowsTrue, Rows, StationsOf
    <3>2. CASE k = n /\ nodes'[n].id = plan[s].id
      BY <1>1, <1>4, <2>3, <3>2 DEF PlanTrue
    <3>3. CASE k = n /\ n \in Rows /\ nodes'[n].id = nodes[n].id
      BY <1>5, <2>3, <3>3 DEF IdentityInv, RowsTrue
    <3> QED
      BY <1>2, <3>1, <3>2, <3>3 DEF WriteOf
  <2>4. ASSUME NEW l \in links' PROVE l[1] \in Rows' /\ At[l[2]] \in StationsOf(l[1])'
    <3>1. CASE l \in links
      BY <1>5, <3>1 DEF IdentityInv, RowsTrue
    <3>2. CASE l = <<n, plan[s].e>>
      BY <1>4, <3>2
    <3> QED
      BY <1>2, <2>4, <3>1, <3>2 DEF WriteOf
  <2> QED
    BY <2>1, <2>2, <2>3, <2>4 DEF RowsTrue
<1>7. ASSUME NEW x \in Syncers, spc'[x] = "commit" PROVE PlanTrue(x)'
  <2>1. x # s /\ spc[x] = "commit" /\ plan'[x] = plan[x]
    BY <1>7 DEF Insert, Update, Written, Goto, TypeInv, TypeOK, SyncTypeOK
  <2>2. PlanTrue(x) /\ \A k \in Slots : nameless[k] \subseteq nameless'[k]
    BY <1>2, <2>1 DEF IdentityInv, WriteOf
  <2>3. ASSUME NEW k \in plan[x].slot PROVE Belongs(k, plan[x].id, plan[x].e)'
    <3>1. Belongs(k, plan[x].id, plan[x].e) /\ k \in Slots
      BY <2>2 DEF PlanTrue, Belongs, Rows
    <3> QED
      BY <1>5, <2>1, <2>2, <3>1 DEF Belongs
  <2> QED
    BY <2>1, <2>2, <2>3 DEF PlanTrue
<1> QED
  BY <1>5, <1>6, <1>7 DEF IdentityInv

\* The identity the station at e presents, and the plan made of it.
Presented(kind, e) == IF kind = "unknown" THEN Unknown ELSE <<kind, At[e]>>

Planned(s, kind, e) ==
    /\ e \in todo[s]
    /\ plan'[s].id = Presented(kind, e)
    /\ plan'[s].e = e
    /\ plan'[s].upgrade = (plan'[s].slot # {} /\ ~IdInUse(Presented(kind, e)))
    /\ \/ plan'[s].slot = {} /\ Lookup(Presented(kind, e), e) = {}
       \/ \E n \in Lookup(Presented(kind, e), e) : plan'[s].slot = {n}

LEMMA FetchPlans ==
    ASSUME TypeInv, NEW s \in Syncers, Fetch(s)
    PROVE  /\ \E kind \in Presents, e \in Endpoints : Planned(s, kind, e)
           /\ UNCHANGED <<nodes, links, nameless, partial>>
           /\ \A x \in Syncers \ {s} : plan'[x] = plan[x] /\ spc'[x] = spc[x]
<1>1. PICK e \in todo[s], kind \in Presents :
        LET id == IF kind = "unknown" THEN Unknown ELSE <<kind, At[e]>>
            Write(slot, was) ==
               [slot |-> slot, was |-> was, id |-> id, e |-> e,
                upgrade |-> slot # {} /\ ~IdInUse(id)]
        IN \/ /\ Lookup(id, e) = {}
              /\ plan' = [plan EXCEPT ![s] = Write({}, FALSE)]
           \/ \E n \in Lookup(id, e) :
                 plan' = [plan EXCEPT ![s] =
                    Write({n}, IF loaded[s].slot = {n} THEN loaded[s].was
                                                     ELSE nodes[n].reachable)]
  BY DEF Fetch
<1> DEFINE id == Presented(kind, e)
           Write(slot, was) ==
               [slot |-> slot, was |-> was, id |-> id, e |-> e,
                upgrade |-> slot # {} /\ ~IdInUse(id)]
<1>2. \/ Lookup(id, e) = {} /\ plan' = [plan EXCEPT ![s] = Write({}, FALSE)]
      \/ \E n \in Lookup(id, e) : \E was : plan' = [plan EXCEPT ![s] = Write({n}, was)]
  BY <1>1 DEF Presented
<1>3. e \in Endpoints
  BY DEF TypeInv, TypeOK, SyncTypeOK
<1>4. plan \in [Syncers -> Plan \cup {NoPlan}] /\ spc \in [Syncers -> {"idle", "next", "commit"}]
  BY DEF TypeInv, TypeOK, SyncTypeOK
<1>5. CASE Lookup(id, e) = {} /\ plan' = [plan EXCEPT ![s] = Write({}, FALSE)]
  <2>1. plan'[s] = Write({}, FALSE) /\ \A x \in Syncers \ {s} : plan'[x] = plan[x]
    BY <1>4, <1>5
  <2>2. Planned(s, kind, e)
    <3>1. /\ plan'[s].slot = {} /\ plan'[s].id = id /\ plan'[s].e = e
          /\ plan'[s].upgrade = ({} # {} /\ ~IdInUse(id))
      BY <2>1
    <3> QED
      BY <1>5, <3>1 DEF Planned
  <2> QED
    BY <1>3, <1>4, <2>1, <2>2 DEF Fetch, Goto, inventoryVars
<1>6. ASSUME NEW n \in Lookup(id, e), NEW was, plan' = [plan EXCEPT ![s] = Write({n}, was)]
      PROVE  /\ \E k \in Presents, a \in Endpoints : Planned(s, k, a)
             /\ UNCHANGED <<nodes, links, nameless, partial>>
             /\ \A x \in Syncers \ {s} : plan'[x] = plan[x] /\ spc'[x] = spc[x]
  <2>1. plan'[s] = Write({n}, was) /\ \A x \in Syncers \ {s} : plan'[x] = plan[x]
    BY <1>4, <1>6
  <2>2. Planned(s, kind, e)
    <3>1. /\ plan'[s].slot = {n} /\ plan'[s].id = id /\ plan'[s].e = e
          /\ plan'[s].upgrade = ({n} # {} /\ ~IdInUse(id))
      BY <2>1
    <3> QED
      BY <1>6, <3>1 DEF Planned
  <2> QED
    BY <1>3, <1>4, <2>1, <2>2 DEF Fetch, Goto, inventoryVars
<1> QED
  BY <1>2, <1>5, <1>6

\* A station that gives an identity gives its own.
LEMMA PresentedTrue ==
    ASSUME NEW kind \in Presents, NEW e \in Endpoints, Presented(kind, e) # Unknown
    PROVE  StationOf(Presented(kind, e)) = At[e]
<1>1. Presented(kind, e)[2] = At[e]
  BY DEF Presented
<1> QED
  BY <1>1 DEF StationOf

LEMMA IdentityFetch ==
    ASSUME TypeInv, IdentityInv, NEW s \in Syncers, Fetch(s)
    PROVE  IdentityInv'
<1>1. PICK kind \in Presents, e \in Endpoints : Planned(s, kind, e)
  BY FetchPlans
<1>2. /\ UNCHANGED <<nodes, links, nameless>>
      /\ \A x \in Syncers \ {s} : plan'[x] = plan[x] /\ spc'[x] = spc[x]
  BY FetchPlans
<1> DEFINE id == Presented(kind, e)
<1>3. id # Unknown => StationOf(id) = At[e]
  BY PresentedTrue
<1>4. RowsTrue' /\ Rows' = Rows /\ \A n \in Slots : StationsOf(n)' = StationsOf(n)
  BY <1>2 DEF IdentityInv, RowsTrue, Rows, StationsOf
<1>5. plan'[s].id = id /\ plan'[s].e = e
  BY <1>1 DEF Planned
<1>6. ASSUME NEW n \in plan'[s].slot PROVE Belongs(n, id, e)
  <2>1. n \in Lookup(id, e)
    BY <1>1 DEF Planned
  <2> QED
    BY <1>3, <2>1, LookupTrue DEF IdentityInv
<1>7. ASSUME id = Unknown PROVE ~plan'[s].upgrade
  <2>1. CASE plan'[s].slot = {}
    BY <1>1, <2>1 DEF Planned
  <2>2. CASE \E n \in Lookup(id, e) : plan'[s].slot = {n}
    <3>1. IdInUse(id)
      BY <1>7, <2>2 DEF Lookup
    <3> QED
      BY <1>1, <3>1 DEF Planned
  <2> QED
    BY <1>1, <2>1, <2>2 DEF Planned
<1>8. PlanTrue(s)'
  <2>1. \A n \in plan'[s].slot : Belongs(n, id, e)'
    BY <1>2, <1>4, <1>6 DEF Belongs, Rows
  <2> QED
    BY <1>2, <1>3, <1>5, <1>7, <2>1 DEF PlanTrue
<1>9. ASSUME NEW x \in Syncers, x # s, spc'[x] = "commit" PROVE PlanTrue(x)'
  <2>1. PlanTrue(x) /\ plan'[x] = plan[x]
    BY <1>2, <1>9 DEF IdentityInv
  <2>2. \A n \in plan[x].slot : Belongs(n, plan[x].id, plan[x].e)'
    BY <1>2, <1>4, <2>1 DEF PlanTrue, Belongs, Rows
  <2> QED
    BY <2>1, <2>2 DEF PlanTrue
<1> QED
  BY <1>4, <1>8, <1>9 DEF IdentityInv

\* The steps that are no write and no lookup.
LEMMA QuietSteps ==
    ASSUME TypeInv, [Next]_vars,
           ~\E s \in Syncers : Fetch(s) \/ Insert(s) \/ Update(s)
    PROVE  /\ \A n \in Slots : nodes'[n].id = nodes[n].id
           /\ UNCHANGED <<links, nameless, partial>>
           /\ \A s \in Syncers : spc'[s] = "commit" => spc[s] = "commit" /\ plan'[s] = plan[s]
<1> USE DEF inventoryVars, syncVars
<1>1. CASE (\E e \in Endpoints : HostChanges(e)) \/ UNCHANGED vars
  BY <1>1 DEF HostChanges, vars
<1>2. CASE RefreshStep \/ RefreshFail
  BY <1>2 DEF RefreshStep, RefreshFail, RefreshStart, Probe, ReadNodes, RefreshCommit,
     TypeInv, TypeOK, InventoryTypeOK
<1>3. ASSUME NEW s \in Syncers,
             SyncAll(s) \/ SyncNode(s) \/ FetchFail(s) \/ SyncFail(s) \/ SyncDone(s)
      PROVE  /\ UNCHANGED <<nodes, links, nameless, partial>>
             /\ \A x \in Syncers : spc'[x] = "commit" => spc[x] = "commit" /\ plan'[x] = plan[x]
  BY <1>3 DEF SyncAll, SyncNode, FetchFail, SyncFail, SyncDone, Written, Goto,
     TypeInv, TypeOK, SyncTypeOK
<1>4. ASSUME NEW d \in Discoverers, Scan(d) \/ ScanStep(d)
      PROVE  UNCHANGED <<nodes, links, spc, plan, nameless, partial>>
  BY <1>4 DEF Scan, ScanStep, Save, SaveFail, ScanIdle
<1> QED
  BY <1>1, <1>2, <1>3, <1>4 DEF Next, SyncStep

LEMMA IdentityStep ==
    ASSUME TypeInv, IdentityInv, [Next]_vars
    PROVE  IdentityInv'
<1>1. CASE \E s \in Syncers : Fetch(s)
  BY <1>1, IdentityFetch
<1>2. CASE \E s \in Syncers : Insert(s) \/ Update(s)
  BY <1>2, IdentityWrite
<1>3. CASE ~\E s \in Syncers : Fetch(s) \/ Insert(s) \/ Update(s)
  BY <1>3, QuietSteps, IdentityQuiet
<1> QED
  BY <1>1, <1>2, <1>3

\* A row with an identity has an endpoint of another station only if several
\* stations were stored in it without one.
THEOREM Identity == Spec => []LinksTruthful
<1>1. ASSUME IdentityInv PROVE LinksTruthful
  <2> SUFFICES ASSUME NEW l \in links, nodes[l[1]].id # Unknown,
                      StationOf(nodes[l[1]].id) # At[l[2]]
               PROVE  \E s, k \in nameless[l[1]] : s # k
    BY DEF LinksTruthful, StationOf
  <2>1. /\ At[l[2]] \in StationsOf(l[1])
        /\ StationOf(nodes[l[1]].id) \in StationsOf(l[1])
    BY <1>1 DEF IdentityInv, RowsTrue
  <2> QED
    BY <2>1 DEF StationsOf
<1> QED
  BY IdentityInit, IdentityStep, <1>1, Typing, PTL DEF Spec

\* What a write of s does to the rows: at most one comes to be, and the row
\* written has the endpoint of the plan.
LEMMA WriteRows ==
    ASSUME TypeInv, NEW s \in Syncers, Insert(s) \/ Update(s)
    PROVE  /\ links \subseteq links' /\ plan[s].e \in Endpoints
           /\ \A n \in Rows' : n \in Rows \/ <<n, plan[s].e>> \in links'
           /\ \A n \in Slots : nodes'[n].id = nodes[n].id \/ nodes'[n].id = plan[s].id
<1>1. plan[s] \in Plan
  BY DEF Insert, Update, TypeInv, PlanMade
<1>2. plan[s].e \in Endpoints
  BY <1>1 DEF Plan
<1>3. CASE Insert(s)
  <2>1. PICK n \in Slots \ Rows :
           /\ nodes' = [nodes EXCEPT ![n] = [id |-> plan[s].id, reachable |-> TRUE]]
           /\ links' = links \cup {<<n, plan[s].e>>}
    BY <1>3 DEF Insert, InsertNode
  <2>2. nodes'[n].id = plan[s].id /\ \A k \in Slots \ {n} : nodes'[k] = nodes[k]
    BY <2>1 DEF TypeInv, TypeOK, InventoryTypeOK
  <2> QED
    BY <1>2, <2>1, <2>2 DEF Rows
<1>4. CASE Update(s)
  <2>1. PICK n \in plan[s].slot :
           UpdateNode(n, plan[s].id, plan[s].upgrade, plan[s].was, plan[s].e)
    BY <1>4 DEF Update
  <2>2. \A k \in Slots \ {n} : nodes'[k] = nodes[k]
    BY <2>1 DEF UpdateNode, TypeInv, TypeOK, InventoryTypeOK
  <2>3. links' = links \cup {<<n, plan[s].e>>}
    BY <2>1 DEF UpdateNode
  <2>4. n \in Slots
    BY <1>1, <2>1 DEF Plan
  <2>5. nodes'[n].id = nodes[n].id \/ nodes'[n].id = plan[s].id
    BY <2>1, <2>4 DEF UpdateNode, TypeInv, TypeOK, InventoryTypeOK
  <2> QED
    BY <1>2, <2>2, <2>3, <2>5 DEF Rows
<1> QED
  BY <1>3, <1>4

LEMMA LinkedStep ==
    ASSUME TypeInv, NodesLinked, [Next]_vars
    PROVE  NodesLinked'
<1>1. ASSUME NEW s \in Syncers, Insert(s) \/ Update(s) PROVE NodesLinked'
  BY <1>1, WriteRows DEF NodesLinked, EndpointsOf
<1>2. ASSUME NEW s \in Syncers, Fetch(s) PROVE NodesLinked'
  BY <1>2, FetchPlans DEF NodesLinked, EndpointsOf, Rows
<1>3. CASE ~\E s \in Syncers : Fetch(s) \/ Insert(s) \/ Update(s)
  BY <1>3, QuietSteps DEF NodesLinked, EndpointsOf, Rows
<1> QED
  BY <1>1, <1>2, <1>3

\* Every node can be operated on: it has an endpoint.
THEOREM Linked == Spec => []NodesLinked
<1>1. Init => NodesLinked
  BY InitRows DEF NodesLinked, EndpointsOf
<1> QED
  BY <1>1, LinkedStep, Typing, PTL DEF Spec

(***************************************************************************)
(* Once.  A row of a station with one address that was always stored under *)
(* its owner id is found whenever there is one: by its id, or as a         *)
(* placeholder by its endpoint, since every row has one.  So a plan to     *)
(* insert a row was made when there was no row of the station, and the     *)
(* unique constraint on the id rejects it if another synchronisation       *)
(* inserted the row since.                                                 *)
(***************************************************************************)

Whole(station) == station \notin partial /\ OneAddress(station)

WholeRow(n) == Whole(StationOf(nodes[n].id))

\* Whole stations are listed under the owner id or the placeholder of an
\* earlier version.
RowKind(n) ==
    WholeRow(n) => nodes[n].id \in {Owner(StationOf(nodes[n].id)),
                                    Legacy(StationOf(nodes[n].id))}

PlanFresh(s) ==
    Whole(At[plan[s].e]) /\ plan[s].id = Owner(At[plan[s].e]) /\ plan[s].slot = {} =>
        \A n \in Identified :
            StationOf(nodes[n].id) = At[plan[s].e] => nodes[n].id = plan[s].id

OnceInv ==
    /\ ListedOnce
    /\ \A n \in Slots : nameless[n] \subseteq partial
    /\ \A n \in Identified : RowKind(n)
    /\ \A s \in Syncers : spc[s] = "commit" => PlanFresh(s)

LEMMA Kinds ==
    ASSUME NEW s
    PROVE  /\ Owner(s)[1] = "owner" /\ StationOf(Owner(s)) = s
           /\ Legacy(s)[1] = "legacy" /\ StationOf(Legacy(s)) = s
           /\ Owner(s) # Unknown /\ Owner(s) # Absent
<1>1. Owner(s)[1] = "owner" /\ Owner(s)[2] = s
  BY DEF Owner
<1>2. Legacy(s)[1] = "legacy" /\ Legacy(s)[2] = s
  BY DEF Legacy
<1>3. Unknown[1] = "unknown" /\ Absent[1] = "absent"
  BY DEF Unknown, Absent
<1> QED
  BY <1>1, <1>2, <1>3 DEF StationOf

\* A whole station with a row is found at its address.
LEMMA LookupFinds ==
    ASSUME TypeInv, IdentityInv, NodesLinked, OnceInv, NEW e \in Endpoints, Whole(At[e]),
           NEW n \in Identified, StationOf(nodes[n].id) = At[e]
    PROVE  Lookup(Owner(At[e]), e) # {}
<1>0. n \in Rows /\ n \in Slots /\ nodes[n].id # Unknown
  BY DEF Identified, Rows
<1>1. nodes[n].id = Owner(At[e]) \/ nodes[n].id = Legacy(At[e])
  BY DEF OnceInv, RowKind, WholeRow
<1>3. CASE IdInUse(Owner(At[e]))
  <2>1. PICK k \in Slots : nodes[k].id = Owner(At[e])
    BY <1>3 DEF IdInUse
  <2>2. k \in Rows
    BY <2>1, Kinds DEF Rows
  <2> QED
    BY <1>3, <2>1, <2>2 DEF Lookup
<1>4. CASE ~IdInUse(Owner(At[e]))
  <2>1. nodes[n].id = Legacy(At[e])
    BY <1>0, <1>1, <1>4 DEF IdInUse
  <2>2. PICK a \in Endpoints : <<n, a>> \in links
    BY <1>0 DEF NodesLinked, EndpointsOf
  <2>3. nameless[n] = {}
    <3>1. At[e] \in StationsOf(n)
      BY <1>0 DEF IdentityInv, RowsTrue
    <3>2. At[e] \notin nameless[n]
      BY <1>0 DEF OnceInv, Whole
    <3> QED
      BY <3>1, <3>2 DEF StationsOf
  <2>4. <<n, e>> \in links
    <3>1. <<n, a>>[1] = n /\ <<n, a>>[2] = a
      OBVIOUS
    <3>2. At[a] \in StationsOf(n)
      BY <2>2, <3>1 DEF IdentityInv, RowsTrue
    <3>3. At[a] = At[e]
      BY <2>3, <3>2 DEF StationsOf
    <3>4. a = e
      BY <3>3 DEF Whole, OneAddress
    <3> QED
      BY <2>2, <3>4
  <2>5. nodes[n].id \in {i \in Ids : LocalLike(i)}
    <3>1. nodes[n].id \in Ids
      BY <2>1 DEF Ids
    <3> QED
      BY <2>1, <3>1, Kinds DEF LocalLike
  <2>6. n \in ByEndpoint({i \in Ids : LocalLike(i)}, e)
    BY <1>0, <2>4, <2>5 DEF ByEndpoint
  <2> QED
    BY <1>4, <2>6, Kinds DEF Lookup
<1> QED
  BY <1>3, <1>4

LEMMA OnceInit ==
    ASSUME Init PROVE OnceInv
<1>1. ASSUME NEW n \in Identified PROVE RowKind(n)
  <2>1. PICK e \in Endpoints : nodes[n].id = Legacy(At[e])
    BY InitRows DEF Identified
  <2>2. StationOf(nodes[n].id) = At[e]
    BY <2>1, Kinds
  <2> QED
    BY <2>1, <2>2 DEF RowKind
<1>2. \A s \in Syncers : spc[s] # "commit"
  BY DEF Init
<1>3. \A n \in Slots : nameless[n] = {}
  BY DEF Init
<1> QED
  BY <1>1, <1>2, <1>3, InitRows DEF OnceInv

LEMMA OnceFetch ==
    ASSUME TypeInv, IdentityInv, NodesLinked, OnceInv, NEW s \in Syncers, Fetch(s)
    PROVE  OnceInv'
<1>1. PICK kind \in Presents, e \in Endpoints : Planned(s, kind, e)
  BY FetchPlans
<1>2. /\ UNCHANGED <<nodes, links, nameless, partial>>
      /\ \A x \in Syncers \ {s} : plan'[x] = plan[x] /\ spc'[x] = spc[x]
  BY FetchPlans
<1>3. Identified' = Identified /\ \A st : Whole(st)' = Whole(st)
  BY <1>2 DEF Identified, Rows, Whole
<1>4. ListedOnce' /\ \A n \in Identified' : RowKind(n)'
  BY <1>2, <1>3 DEF OnceInv, ListedOnce, RowKind, WholeRow, Whole, Identified, Rows
<1>5. plan'[s].id = Presented(kind, e) /\ plan'[s].e = e
  BY <1>1 DEF Planned
<1>6. ASSUME Whole(At[e]), plan'[s].id = Owner(At[e]), plan'[s].slot = {},
             NEW n \in Identified
      PROVE  StationOf(nodes[n].id) # At[e]
  <2>1. Lookup(Owner(At[e]), e) = {}
    BY <1>1, <1>5, <1>6 DEF Planned
  <2> QED
    BY <1>6, <2>1, LookupFinds
<1>7. PlanFresh(s)'
  BY <1>2, <1>3, <1>5, <1>6 DEF PlanFresh
<1>8. ASSUME NEW x \in Syncers, x # s, spc'[x] = "commit" PROVE PlanFresh(x)'
  <2>1. PlanFresh(x) /\ plan'[x] = plan[x]
    BY <1>2, <1>8 DEF OnceInv
  <2> QED
    BY <1>2, <1>3, <2>1 DEF PlanFresh
<1> QED
  BY <1>2, <1>4, <1>7, <1>8 DEF OnceInv

\* What a write leaves of the rows of a whole station: those it had, or its
\* first one.
LEMMA WholeRows ==
    ASSUME TypeInv, IdentityInv, OnceInv, NEW s \in Syncers, Insert(s) \/ Update(s),
           NEW k \in Identified', WholeRow(k)'
    PROVE  \/ /\ k \in Identified /\ WholeRow(k)
              /\ StationOf(nodes'[k].id) = StationOf(nodes[k].id)
              /\ nodes'[k].id \in {nodes[k].id, plan[s].id}
              /\ nodes'[k].id = plan[s].id =>
                    plan[s].id = Owner(StationOf(nodes[k].id)) \/ nodes'[k].id = nodes[k].id
           \/ /\ nodes'[k].id = plan[s].id
              /\ plan[s].id = Owner(At[plan[s].e])
              /\ \A j \in Identified : StationOf(nodes[j].id) # At[plan[s].e]
              /\ \A j \in Slots \ {k} : nodes'[j] = nodes[j]
<1>1. plan[s] \in Plan /\ PlanTrue(s)
  BY WriteIs
<1>2. PICK n : /\ WriteOf(s, n)
               /\ Insert(s) => n \notin Rows
               /\ Update(s) => n \in Rows
  BY WriteIs
<1> DEFINE station == StationOf(nodes'[k].id)
<1>3. k \in Slots /\ nodes'[k].id # Unknown /\ nodes'[k].id # Absent
  BY DEF Identified, Rows
<1>4. partial \subseteq partial'
  BY <1>2 DEF WriteOf
<1>5. Whole(station)
  BY <1>4 DEF Whole, WholeRow
<1>6. CASE nodes'[k].id = nodes[k].id
  BY <1>3, <1>5, <1>6 DEF Identified, Rows, WholeRow
<1>7. CASE nodes'[k].id # nodes[k].id
  <2>1. k = n /\ nodes'[n].id = plan[s].id
    BY <1>2, <1>3, <1>7 DEF WriteOf
  <2>2. plan[s].id # Unknown /\ station = At[plan[s].e]
    BY <1>1, <1>3, <2>1 DEF PlanTrue
  <2>3. plan[s].id = Owner(At[plan[s].e])
    <3>1. station \notin partial'
      BY DEF Whole, WholeRow
    <3> QED
      BY <1>2, <2>2, <3>1 DEF WriteOf
  <2>4. CASE k \in Rows
    <3>1. station \in StationsOf(k)
      BY <1>2, <2>1, <2>2, <2>4 DEF WriteOf, Belongs
    <3>2. nameless[k] \subseteq partial /\ station \notin partial
      BY <1>3, <1>5 DEF OnceInv, Whole
    <3>3. nameless[k] = {} /\ StationOf(nodes[k].id) = station
      BY <3>1, <3>2 DEF StationsOf
    <3>4. nodes[k].id # Unknown
      BY <1>3, <3>3 DEF IdentityInv, RowsTrue
    <3>5. k \in Identified
      BY <2>4, <3>4 DEF Identified
    <3> QED
      BY <1>5, <2>1, <2>2, <2>3, <3>3, <3>5 DEF WholeRow
  <2>5. CASE k \notin Rows
    <3>1. Insert(s)
      BY <1>2, <2>1, <2>5
    <3>2. plan[s].slot = {} /\ ~IdInUse(plan[s].id) /\ spc[s] = "commit"
      BY <3>1 DEF Insert, InsertNode
    <3>3. ASSUME NEW j \in Identified PROVE StationOf(nodes[j].id) # At[plan[s].e]
      <4>1. nodes[j].id # plan[s].id
        BY <3>2 DEF IdInUse, Identified, Rows
      <4>2. PlanFresh(s)
        BY <3>2 DEF OnceInv
      <4> QED
        BY <1>5, <2>2, <2>3, <3>2, <4>1, <4>2 DEF PlanFresh
    <3>4. \A j \in Slots \ {k} : nodes'[j] = nodes[j]
      BY <1>2, <2>1 DEF WriteOf
    <3> QED
      BY <2>1, <2>3, <3>3, <3>4
  <2> QED
    BY <2>4, <2>5
<1> QED
  BY <1>6, <1>7

LEMMA OnceWrite ==
    ASSUME TypeInv, IdentityInv, OnceInv, NEW s \in Syncers, Insert(s) \/ Update(s)
    PROVE  OnceInv'
<1>1. plan[s] \in Plan /\ PlanTrue(s)
  BY WriteIs
<1>2. PICK n : WriteOf(s, n)
  BY WriteIs
<1>3. ASSUME NEW k \in Identified' PROVE RowKind(k)'
  <2> SUFFICES ASSUME WholeRow(k)'
               PROVE  nodes'[k].id \in {Owner(StationOf(nodes'[k].id)), Legacy(StationOf(nodes'[k].id))}
    BY DEF RowKind
  <2>1. CASE /\ nodes'[k].id = plan[s].id
             /\ plan[s].id = Owner(At[plan[s].e])
    BY <2>1, Kinds
  <2>2. CASE /\ k \in Identified /\ WholeRow(k)
             /\ nodes'[k].id = nodes[k].id
    BY <2>2 DEF OnceInv, RowKind
  <2>3. CASE /\ k \in Identified
             /\ nodes'[k].id = plan[s].id
             /\ plan[s].id = Owner(StationOf(nodes[k].id))
    BY <2>3, Kinds
  <2> QED
    BY <2>1, <2>2, <2>3, WholeRows
<1>4. ListedOnce'
  <2> SUFFICES ASSUME NEW k \in Identified', NEW j \in Identified',
                      StationOf(nodes'[k].id) = StationOf(nodes'[j].id),
                      WholeRow(k)'
               PROVE  k = j
    BY DEF ListedOnce, WholeRow, Whole, StationOf
  <2> DEFINE Old(i) == /\ i \in Identified /\ WholeRow(i)
                       /\ StationOf(nodes'[i].id) = StationOf(nodes[i].id)
             First(i) == /\ nodes'[i].id = plan[s].id
                         /\ plan[s].id = Owner(At[plan[s].e])
                         /\ \A x \in Identified : StationOf(nodes[x].id) # At[plan[s].e]
                         /\ \A x \in Slots \ {i} : nodes'[x] = nodes[x]
  <2>0. WholeRow(j)'
    BY DEF WholeRow
  <2>1. (Old(k) \/ First(k)) /\ (Old(j) \/ First(j))
    <3>1. Old(k) \/ First(k)
      BY WholeRows
    <3>2. Old(j) \/ First(j)
      BY <2>0, WholeRows
    <3> QED
      BY <3>1, <3>2
  <2>2. CASE Old(k) /\ Old(j)
    BY <2>2 DEF OnceInv, ListedOnce, WholeRow, Whole, StationOf
  <2>3. ASSUME NEW x \in Identified', NEW y \in Identified', x # y, First(x),
               StationOf(nodes'[x].id) = StationOf(nodes'[y].id)
        PROVE  FALSE
    <3>1. StationOf(nodes'[y].id) = At[plan[s].e]
      BY <2>3, Kinds
    <3>2. nodes'[y] = nodes[y] /\ y \in Identified
      BY <2>3 DEF Identified, Rows
    <3> QED
      BY <2>3, <3>1, <3>2
  <2> QED
    BY <2>1, <2>2, <2>3
<1>5. ASSUME NEW x \in Syncers, spc'[x] = "commit" PROVE PlanFresh(x)'
  <2>1. x # s /\ spc[x] = "commit" /\ plan'[x] = plan[x]
    BY <1>5 DEF Insert, Update, Written, Goto, TypeInv, TypeOK, SyncTypeOK
  <2>2. PlanFresh(x)
    BY <2>1 DEF OnceInv
  <2>3. ASSUME Whole(At[plan[x].e])', plan[x].id = Owner(At[plan[x].e]), plan[x].slot = {},
               NEW k \in Identified', StationOf(nodes'[k].id) = At[plan[x].e]
        PROVE  nodes'[k].id = plan[x].id
    <3>1. Whole(At[plan[x].e])
      BY <1>2, <2>1, <2>3 DEF WriteOf, Whole
    <3>2. WholeRow(k)'
      BY <2>1, <2>3 DEF WholeRow, Whole
    <3>3. CASE /\ nodes'[k].id = plan[s].id
               /\ plan[s].id = Owner(At[plan[s].e])
      BY <2>3, <3>3, Kinds
    <3>4. CASE /\ k \in Identified /\ nodes'[k].id = nodes[k].id
      BY <2>2, <2>3, <3>1, <3>4 DEF PlanFresh
    <3>5. CASE /\ nodes'[k].id = plan[s].id
               /\ plan[s].id = Owner(StationOf(nodes[k].id))
      BY <2>3, <3>5, Kinds
    <3> QED
      BY <3>2, <3>3, <3>4, <3>5, WholeRows
  <2> QED
    BY <2>1, <2>3 DEF PlanFresh
<1>6. \A k \in Slots : nameless'[k] \subseteq partial'
  <2>1. plan[s].id = Unknown => plan[s].id # Owner(At[plan[s].e])
    BY Kinds
  <2> QED
    BY <1>2, <2>1 DEF WriteOf, OnceInv
<1> QED
  BY <1>3, <1>4, <1>5, <1>6 DEF OnceInv

\* A station with one address that was always stored under its owner id is
\* listed once.
THEOREM Once == Spec => []ListedOnce
<1> DEFINE Inv == IdentityInv /\ NodesLinked /\ OnceInv
<1>1. Init => Inv
  BY IdentityInit, OnceInit, InitRows DEF NodesLinked, EndpointsOf
<1>2. ASSUME TypeInv, Inv, [Next]_vars PROVE Inv'
  <2>1. CASE \E s \in Syncers : Fetch(s)
    BY <1>2, <2>1, IdentityStep, OnceFetch, LinkedStep
  <2>2. CASE \E s \in Syncers : Insert(s) \/ Update(s)
    BY <1>2, <2>2, IdentityStep, OnceWrite, LinkedStep
  <2>3. CASE ~\E s \in Syncers : Fetch(s) \/ Insert(s) \/ Update(s)
    <3>1. /\ \A n \in Slots : nodes'[n].id = nodes[n].id
          /\ UNCHANGED <<links, nameless, partial>>
          /\ \A s \in Syncers : spc'[s] = "commit" => spc[s] = "commit" /\ plan'[s] = plan[s]
      BY <1>2, <2>3, QuietSteps
    <3>2. Identified' = Identified /\ \A st : Whole(st)' = Whole(st)
      BY <3>1 DEF Identified, Rows, Whole
    <3>3. ListedOnce' /\ \A n \in Identified' : RowKind(n)'
      BY <1>2, <3>1, <3>2 DEF OnceInv, ListedOnce, RowKind, WholeRow, Whole, Identified, Rows
    <3>4. ASSUME NEW s \in Syncers, spc'[s] = "commit" PROVE PlanFresh(s)'
      <4>1. PlanFresh(s) /\ plan'[s] = plan[s]
        BY <1>2, <3>1, <3>4 DEF OnceInv
      <4>2. \A n \in Identified : nodes'[n].id = nodes[n].id
        BY <3>1 DEF Identified, Rows
      <4>3. Whole(At[plan[s].e])' => Whole(At[plan[s].e])
        BY <3>1, <4>1 DEF Whole
      <4> QED
        BY <3>2, <4>1, <4>2, <4>3 DEF PlanFresh
    <3>5. OnceInv'
      BY <1>2, <3>1, <3>3, <3>4 DEF OnceInv
    <3> QED
      BY <1>2, <3>5, IdentityStep, LinkedStep
  <2> QED
    BY <2>1, <2>2, <2>3
<1>3. Inv => ListedOnce
  BY DEF OnceInv
<1> QED
  BY <1>1, <1>2, <1>3, Typing, PTL DEF Spec

(***************************************************************************)
(* Reachability.  Only the refresh counts failures, so the counters of the *)
(* rows it judged are still as it read them when it commits, and they are  *)
(* the number of failed pings.  Scans change the status of these rows and  *)
(* insert others, which nobody has pinged.                                 *)
(***************************************************************************)

CountInv ==
    /\ \A e \in Endpoints : endpoint[e].failures = missed[e]
    /\ \A e \in Endpoints \ Known : missed[e] = 0
    /\ rpc = "idle" => DOMAIN verdict = {}
    /\ rpc # "idle" => \A e \in Endpoints : before[e].known => before[e].failures = missed[e]
    /\ \A e \in DOMAIN verdict :
          before[e].known /\ \E answer \in BOOLEAN : verdict[e] = Judge(before[e], answer)

\* What a verdict is, field by field.
LEMMA JudgeFields ==
    ASSUME NEW row \in EndpointRow, NEW answer \in BOOLEAN
    PROVE  /\ Judge(row, answer).failures = IF answer THEN 0 ELSE Saturate(row.failures + 1)
           /\ Judge(row, answer).reachable =
                (answer \/ (row.reachable /\ Judge(row, answer).failures < Threshold))
BY DEF Judge

\* A failed ping counts, up to the threshold.
LEMMA SaturateStep ==
    ASSUME NEW n \in 0..Threshold
    PROVE  /\ Saturate(n + 1) \in 1..Threshold
           /\ ~(Saturate(n + 1) < Threshold) => Saturate(n + 1) = Threshold
BY ThresholdType DEF Saturate

\* The commit of the refresh, for one endpoint.
LEMMA CountCommit ==
    ASSUME TypeInv, CountInv, RefreshCommit, NEW e \in Endpoints
    PROVE  /\ endpoint'[e].failures = missed'[e]
           /\ endpoint[e].reachable /\ ~endpoint'[e].reachable => missed'[e] = Threshold
<1>1. /\ before[e] \in EndpointRow /\ endpoint[e].reachable \in BOOLEAN
      /\ missed \in [Endpoints -> 0..Threshold]
      /\ rpc # "idle"
  BY DEF RefreshCommit, TypeInv, TypeOK, RefreshTypeOK, InventoryTypeOK
<1>2. endpoint'[e] = Judged(before, verdict)[e]
  BY DEF RefreshCommit
<1>3. missed'[e] = IF e \notin DOMAIN verdict THEN missed[e]
                   ELSE IF verdict[e].failures = 0 THEN 0 ELSE Saturate(missed[e] + 1)
  BY DEF RefreshCommit
<1>4. CASE e \notin DOMAIN verdict
  BY <1>2, <1>3, <1>4 DEF Judged, CountInv
<1>5. CASE e \in DOMAIN verdict
  <2>1. PICK answer \in BOOLEAN : verdict[e] = Judge(before[e], answer)
    BY <1>5 DEF CountInv
  <2>0. before[e].known
    BY <1>5 DEF CountInv
  <2>2. /\ endpoint'[e].failures = verdict[e].failures
        /\ endpoint'[e].reachable = IF verdict[e].reachable = before[e].reachable
                                    THEN endpoint[e].reachable ELSE verdict[e].reachable
    BY <1>2, <1>5 DEF Judged
  <2>3. before[e].failures = missed[e] /\ missed[e] \in 0..Threshold
    BY <1>1, <2>0 DEF CountInv
  <2>4. CASE answer
    <3>1. verdict[e].failures = 0 /\ verdict[e].reachable
      BY <1>1, <2>1, <2>4, JudgeFields
    <3> QED
      BY <1>3, <1>5, <1>1, <2>2, <3>1
  <2>5. CASE ~answer
    <3>1. verdict[e].failures = Saturate(missed[e] + 1)
      BY <1>1, <2>1, <2>3, <2>5, JudgeFields
    <3>2. verdict[e].reachable = (before[e].reachable /\ verdict[e].failures < Threshold)
      BY <1>1, <2>1, <2>5, JudgeFields
    <3>3. missed'[e] = verdict[e].failures
      BY <1>3, <1>5, <2>3, <3>1, SaturateStep
    <3>4. ASSUME endpoint[e].reachable, ~endpoint'[e].reachable PROVE missed'[e] = Threshold
      <4>2. before[e].reachable \in BOOLEAN
        BY <1>1 DEF EndpointRow
      <4>1. ~(verdict[e].failures < Threshold)
        <5> SUFFICES ASSUME verdict[e].failures < Threshold PROVE FALSE
          OBVIOUS
        <5>1. verdict[e].reachable = before[e].reachable
          BY <3>2, <4>2
        <5> QED
          BY <2>2, <3>4, <5>1
      <4> QED
        BY <2>3, <3>1, <3>3, <4>1, SaturateStep
    <3> QED
      BY <2>2, <3>3, <3>4
  <2> QED
    BY <2>4, <2>5
<1> QED
  BY <1>4, <1>5

LEMMA CountInit ==
    ASSUME Init PROVE CountInv
BY DEF Init, CountInv

\* Synchronisations and hosts change no endpoint row.
LEMMA CountOthers ==
    ASSUME Next \/ UNCHANGED vars, ~RefreshStep, ~RefreshFail,
           ~\E d \in Discoverers : Scan(d) \/ ScanStep(d)
    PROVE  UNCHANGED <<endpoint, refreshVars>>
BY DEF Next, vars, HostChanges, SyncAll, SyncNode, SyncStep, Fetch, FetchFail, Insert, Update,
   SyncFail, SyncDone, Written, InsertNode, UpdateNode, inventoryVars, refreshVars

LEMMA CountRefresh ==
    ASSUME TypeInv, CountInv, RefreshStep \/ RefreshFail
    PROVE  CountInv' /\ (~RefreshCommit => UNCHANGED endpoint)
<1>1. CASE RefreshStart
  BY <1>1 DEF RefreshStart, CountInv, inventoryVars, Known
<1>2. CASE Probe
  <2>1. PICK e \in Unprobed :
           verdict' = [k \in DOMAIN verdict \cup {e} |->
                          IF k = e THEN Judge(before[e], e \in answers) ELSE verdict[k]]
    BY <1>2 DEF Probe
  <2>2. (e \in answers) \in BOOLEAN /\ before[e].known
    BY DEF Unprobed
  <2>3. \A k \in DOMAIN verdict' :
           before[k].known /\ \E answer \in BOOLEAN : verdict'[k] = Judge(before[k], answer)
    BY <2>1, <2>2 DEF CountInv
  <2> QED
    BY <1>2, <2>3 DEF Probe, CountInv, inventoryVars, Known
<1>3. CASE ReadNodes
  BY <1>3 DEF ReadNodes, CountInv, inventoryVars, Known
<1>4. CASE RefreshCommit
  <2>1. \A e \in Endpoints : endpoint'[e].failures = missed'[e]
    BY <1>4, CountCommit
  <2>2. rpc' = "idle" /\ DOMAIN verdict' = {}
    BY <1>4 DEF RefreshCommit, RefreshIdle
  <2>3. ASSUME NEW e \in Endpoints \ Known' PROVE missed'[e] = 0
    <3>1. endpoint'[e] = Judged(before, verdict)[e]
      BY <1>4 DEF RefreshCommit
    <3>2. e \notin DOMAIN verdict /\ e \notin Known
      BY <3>1 DEF Judged, Known
    <3> QED
      BY <1>4, <3>2 DEF RefreshCommit, CountInv
  <2> QED
    BY <1>4, <2>1, <2>2, <2>3 DEF CountInv
<1>5. CASE RefreshFail
  BY <1>5 DEF RefreshFail, RefreshIdle, CountInv, inventoryVars, Known
<1> QED
  BY <1>1, <1>2, <1>3, <1>4, <1>5 DEF RefreshStep

\* A scan takes no endpoint offline and leaves the counters.
LEMMA CountScan ==
    ASSUME TypeInv, CountInv, NEW d \in Discoverers, Scan(d) \/ ScanStep(d)
    PROVE  /\ CountInv'
           /\ \A e \in Endpoints : endpoint[e].reachable => endpoint'[e].reachable
<1>1. UNCHANGED refreshVars
  BY DEF Scan, ScanStep, Save, SaveFail, ScanIdle
<1>2. UNCHANGED <<rpc, before, verdict, missed>>
  BY <1>1 DEF refreshVars
<1>3. CASE UNCHANGED endpoint
  BY <1>2, <1>3 DEF CountInv, Known
<1>4. CASE Save(d)
  <2>1. ASSUME NEW e \in Endpoints
        PROVE  /\ endpoint'[e].failures = missed[e]
               /\ endpoint[e].known => endpoint'[e].known
               /\ endpoint[e].reachable => endpoint'[e].reachable
    <3>1. endpoint[e] \in EndpointRow /\ endpoint[e].failures = missed[e]
      BY DEF TypeInv, TypeOK, InventoryTypeOK, EndpointRow, CountInv
    <3>2. CASE found[d][e] = "new"
      <4>1. e \notin Known
        BY <1>4, <3>2 DEF Save
      <4>2. missed[e] = 0
        BY <4>1 DEF CountInv
      <4>3. endpoint'[e] = [known |-> TRUE, reachable |-> TRUE, failures |-> 0]
        BY <1>4, <3>2 DEF Save
      <4> QED
        BY <4>2, <4>3
    <3>3. CASE found[d][e] = "off"
      <4>1. endpoint'[e] = [endpoint[e] EXCEPT !.reachable = TRUE]
        BY <1>4, <3>3 DEF Save
      <4> QED
        BY <3>1, <4>1 DEF EndpointRow
    <3>4. CASE found[d][e] \notin {"new", "off"}
      <4>1. endpoint'[e] = endpoint[e]
        BY <1>4, <3>4 DEF Save
      <4> QED
        BY <3>1, <4>1
    <3> QED
      BY <3>2, <3>3, <3>4
  <2> QED
    BY <1>2, <2>1 DEF CountInv, Known
<1> QED
  BY <1>3, <1>4 DEF Scan, ScanStep, SaveFail, inventoryVars

\* An endpoint goes offline only after as many failed pings as configured.
THEOREM Patience == Spec => OfflineAfterFailures
<1>1. ASSUME TypeInv, CountInv, [Next]_vars
      PROVE  CountInv' /\ [OfflineEnough]_vars
  <2>1. CASE RefreshStep \/ RefreshFail
    <3>1. CASE RefreshCommit
      BY <1>1, <2>1, <3>1, CountRefresh, CountCommit DEF OfflineEnough, Known
    <3>2. CASE ~RefreshCommit
      BY <1>1, <2>1, <3>2, CountRefresh DEF OfflineEnough
    <3> QED
      BY <3>1, <3>2
  <2>2. CASE \E d \in Discoverers : Scan(d) \/ ScanStep(d)
    BY <1>1, <2>2, CountScan DEF OfflineEnough, Known
  <2>3. CASE ~RefreshStep /\ ~RefreshFail /\ ~\E d \in Discoverers : Scan(d) \/ ScanStep(d)
    <3>1. UNCHANGED <<endpoint, refreshVars>>
      BY <1>1, <2>3, CountOthers
    <3> QED
      BY <1>1, <3>1 DEF CountInv, OfflineEnough, refreshVars, Known
  <2> QED
    BY <2>1, <2>2, <2>3
<1> QED
  BY <1>1, CountInit, Typing, PTL DEF Spec, OfflineAfterFailures
=============================================================================
