---------------------------- MODULE Groups_proofs ----------------------------
(* For any number of nodes, groups, handlers and selections, whatever the  *)
(* selections name twice: a request that goes on to report success did all *)
(* of its list, and the group job patches each member once and nobody else. *)
EXTENDS GroupsProps, Lists_proofs, SequenceTheorems

\* What a request is at each label of its handler.
Fits(label, request) ==
    /\ label # "idle" => request.group \in Names
    /\ label = "find" => request.kind = "import"
    /\ label = "create" => request.kind \in {"create", "import"}
    /\ label \in {"read", "insert", "commit"} => request.kind = "assign"
    /\ label = "delete" => request.kind = "remove"
    /\ label = "save" => request.kind = "configure"
    /\ request.kind \in {"none", "create", "configure"} => request.list = <<>>
Labelled(h) == Fits(pc[h], ask[h])

\* No node of the list gets lost: what was no member when the members were read
\* is either a row to insert, or inserted, or was a member since.
Covered(h) ==
    /\ pc[h] = "insert" => rows[h] # <<>>
    /\ pc[h] = "commit" => rows[h] = <<>>
    /\ pc[h] \in {"insert", "commit"} =>
         ToSet(ask[h].list) \subseteq done[h] \cup ToSet(rows[h]) \cup inserted[h]
    /\ done[h] \subseteq ToSet(ask[h].list)
    /\ pc[h] = "audit" => done[h] = ToSet(ask[h].list)

RequestInv == \A h \in Handlers : Labelled(h) /\ Covered(h)

Fitting == {n \in Nodes : target.filter \in matches[n]}

\* What the history knows while the job reads the members.
JobInv ==
    /\ jpc \in {"assigned", "dynamic"} =>
         /\ kept \subseteq MembersOf(target.group) /\ MembersOf(target.group) \subseteq ever
         /\ fitting \subseteq Fitting /\ Fitting \subseteq ever
    /\ jpc = "dynamic" => kept \subseteq ToSet(assigned) /\ ToSet(assigned) \subseteq ever
    /\ IsInjective(left)

Inv == TypeOK /\ RequestInv /\ JobInv

USE GroupsAssumption

Labels == {"idle", "find", "create", "read", "insert", "commit", "delete", "save", "audit"}
RequestTypes ==
    /\ pc \in [Handlers -> Labels]
    /\ ask \in [Handlers -> Request]
    /\ rows \in [Handlers -> Seq(Nodes)]
    /\ inserted \in [Handlers -> SUBSET Nodes]
    /\ done \in [Handlers -> SUBSET Nodes]

LEMMA TypesOf == TypeOK => RequestTypes
BY DEF TypeOK, RequestTypes, Labels

LEMMA NoAskTyped == NoAsk \in Request
BY DEF NoAsk, Asks, Request, Kinds

LEMMA SelectionOf ==
    ASSUME NEW N \in SUBSET Nodes
    PROVE  Selection(N) \in Seq(Nodes) /\ ToSet(Selection(N)) = N
<1>1. Order \in Seq(Nodes) /\ ToSet(Order) \cap N = N
  OBVIOUS
<1> QED
  BY <1>1, KeepOf DEF Selection

LEMMA SelectionsTyped ==
    /\ Selections \subseteq Seq(Nodes)
    /\ SelectionsOfLists \subseteq Seq(Nodes)
<1>1. \A l \in Lists : ToSet(l) \in SUBSET Nodes
  <2> SUFFICES ASSUME NEW l \in Lists PROVE ToSet(l) \subseteq Nodes
    OBVIOUS
  <2>1. l \in Seq(Nodes)
    OBVIOUS
  <2> QED
    BY <2>1 DEF ToSet
<1> QED
  BY <1>1, SelectionOf DEF Selections, SelectionsOfLists

-----------------------------------------------------------------------------
(* Requests.                                                               *)

\* What the step of another thread leaves of a request.
LEMMA Untouched ==
    ASSUME TypeOK, Record, NEW h \in Handlers, Labelled(h), Covered(h),
           pc'[h] = pc[h], ask'[h] = ask[h], rows'[h] = rows[h], inserted'[h] = inserted[h]
    PROVE  Labelled(h)' /\ Covered(h)'
<1>1. Labelled(h)'
  BY DEF Labelled, Fits
<1>2. done'[h] = IF pc[h] = "idle" THEN {} ELSE done[h] \cup AsAsked(h)
  BY DEF Record, Over, Since
<1>3. AsAsked(h) \subseteq ToSet(ask[h].list)
  BY DEF AsAsked
<1>4. Covered(h)'
  BY <1>2, <1>3 DEF Covered
<1> QED
  BY <1>1, <1>4

LEMMA DoneOf ==
    ASSUME Record, ask' \in [Handlers -> Request], TypeOK
    PROVE  /\ done' \in [Handlers -> SUBSET Nodes]
           /\ \A h \in Handlers : done'[h] = IF pc'[h] = "idle" THEN {}
                                            ELSE (IF pc[h] = "idle" THEN {} ELSE done[h]) \cup AsAsked(h)
<1>1. \A h \in Handlers : done'[h] = IF pc'[h] = "idle" THEN {}
                                     ELSE (IF pc[h] = "idle" THEN {} ELSE done[h]) \cup AsAsked(h)
  BY DEF Record, Over, Since
<1>2. ASSUME NEW h \in Handlers PROVE AsAsked(h) \subseteq Nodes
  <2>1. ask'[h].list \in Seq(Nodes)
    BY DEF Request
  <2> QED
    BY <2>1 DEF AsAsked, ToSet
<1>3. \A h \in Handlers : done[h] \subseteq Nodes
  BY DEF TypeOK
<1>4. done' = [h \in Handlers |-> done'[h]]
  BY DEF Record
<1>5. \A h \in Handlers : done'[h] \subseteq Nodes
  BY <1>1, <1>2, <1>3
<1> QED
  BY <1>1, <1>4, <1>5

\* The step of handler h keeps everything of the requests if it keeps what is
\* known of its own.
OwnStep(h) ==
    /\ RequestTypes'
    /\ \A k \in Handlers \ {h} : /\ pc'[k] = pc[k] /\ ask'[k] = ask[k]
                                /\ rows'[k] = rows[k] /\ inserted'[k] = inserted[k]
    /\ Labelled(h)' /\ Covered(h)'

LEMMA OwnSteps ==
    ASSUME TypeOK, RequestInv, Record, NEW h \in Handlers, OwnStep(h)
    PROVE  RequestTypes' /\ RequestInv'
<1>1. \A k \in Handlers : Labelled(k)' /\ Covered(k)'
  <2> SUFFICES ASSUME NEW k \in Handlers PROVE Labelled(k)' /\ Covered(k)'
    OBVIOUS
  <2>1. CASE k = h
    BY <2>1 DEF OwnStep
  <2>2. CASE k # h
    BY <2>2, Untouched DEF OwnStep, RequestInv
  <2> QED
    BY <2>1, <2>2
<1> QED
  BY <1>1 DEF OwnStep, RequestInv

LEMMA Arrives ==
    ASSUME TypeOK, RequestInv, Record, NEW h \in Handlers,
           NEW label \in {"find", "create", "read", "delete", "save"}, NEW r \in Request,
           Fits(label, r), Arrive(h, label, r)
    PROVE  OwnStep(h)
<1>1. /\ pc' = [pc EXCEPT ![h] = label] /\ pc[h] = "idle"
      /\ ask' = [ask EXCEPT ![h] = r] /\ rows' = rows /\ inserted' = inserted
  BY DEF Arrive, Move, requests
<1>2. RequestTypes
  BY TypesOf
<1>3. /\ pc' \in [Handlers -> Labels] /\ ask' \in [Handlers -> Request]
      /\ pc'[h] = label /\ ask'[h] = r
      /\ \A k \in Handlers \ {h} : pc'[k] = pc[k] /\ ask'[k] = ask[k]
  BY <1>1, <1>2 DEF RequestTypes, Labels
<1>4. done' \in [Handlers -> SUBSET Nodes] /\ done'[h] = AsAsked(h)
  BY <1>1, <1>3, DoneOf
<1>5. AsAsked(h) \subseteq ToSet(ask'[h].list)
  BY DEF AsAsked
<1>6. Labelled(h)'
  BY <1>3 DEF Labelled
<1>7. Covered(h)'
  BY <1>3, <1>4, <1>5 DEF Covered
<1>8. RequestTypes'
  BY <1>1, <1>2, <1>3, <1>4 DEF RequestTypes
<1> QED
  BY <1>1, <1>3, <1>6, <1>7, <1>8 DEF OwnStep

LEMMA Answers ==
    ASSUME TypeOK, RequestInv, Record, NEW h \in Handlers, NEW label, Answer(h, label)
    PROVE  OwnStep(h)
<1>1. /\ pc' = [pc EXCEPT ![h] = "idle"] /\ ask' = [ask EXCEPT ![h] = NoAsk]
      /\ rows' = [rows EXCEPT ![h] = <<>>] /\ inserted' = [inserted EXCEPT ![h] = {}]
  BY DEF Answer, Move
<1>2. RequestTypes
  BY TypesOf
<1>3. /\ pc' \in [Handlers -> Labels] /\ ask' \in [Handlers -> Request]
      /\ rows' \in [Handlers -> Seq(Nodes)] /\ inserted' \in [Handlers -> SUBSET Nodes]
      /\ pc'[h] = "idle" /\ ask'[h] = NoAsk
      /\ \A k \in Handlers \ {h} : /\ pc'[k] = pc[k] /\ ask'[k] = ask[k]
                                  /\ rows'[k] = rows[k] /\ inserted'[k] = inserted[k]
  BY <1>1, <1>2, NoAskTyped DEF RequestTypes, Labels
<1>4. done' \in [Handlers -> SUBSET Nodes] /\ done'[h] = {}
  BY <1>3, DoneOf
<1>5. Labelled(h)'
  BY <1>3 DEF Labelled, Fits, NoAsk, Asks
<1>6. Covered(h)'
  BY <1>3, <1>4 DEF Covered
<1>7. RequestTypes'
  BY <1>3, <1>4 DEF RequestTypes
<1> QED
  BY <1>3, <1>5, <1>6, <1>7 DEF OwnStep

-----------------------------------------------------------------------------
(* What the service does for them, action by action.                       *)

LEMMA ArrivalStep ==
    ASSUME TypeOK, RequestInv, Record, NEW h \in Handlers, Arrival(h)
    PROVE  OwnStep(h)
<1>1. CASE GroupCreate(h)
  <2>1. PICK g \in Names, f \in Filters : Arrive(h, "create", Asks("create", g, <<>>, f))
    BY <1>1 DEF GroupCreate
  <2>2. Asks("create", g, <<>>, f) \in Request /\ Fits("create", Asks("create", g, <<>>, f))
    BY DEF Asks, Request, Kinds, Fits
  <2> QED
    BY <2>1, <2>2, Arrives
<1>2. CASE AssignNode(h)
  <2>1. PICK g \in Names, n \in Nodes : Arrive(h, "read", Asks("assign", g, <<n>>, "none"))
    BY <1>2 DEF AssignNode
  <2>2. Asks("assign", g, <<n>>, "none") \in Request /\ Fits("read", Asks("assign", g, <<n>>, "none"))
    BY DEF Asks, Request, Kinds, Fits
  <2> QED
    BY <2>1, <2>2, Arrives
<1>3. CASE AssignSelected(h)
  <2>1. PICK g \in Names, l \in Lists : Arrive(h, "read", Asks("assign", g, l, "none"))
    BY <1>3 DEF AssignSelected
  <2>2. Asks("assign", g, l, "none") \in Request /\ Fits("read", Asks("assign", g, l, "none"))
    BY DEF Asks, Request, Kinds, Fits
  <2> QED
    BY <2>1, <2>2, Arrives
<1>4. CASE ZeroHopImport(h)
  <2>1. PICK g \in Names, l \in Selections : Arrive(h, "find", Asks("import", g, l, "none"))
    BY <1>4 DEF ZeroHopImport
  <2>2. Asks("import", g, l, "none") \in Request /\ Fits("find", Asks("import", g, l, "none"))
    BY SelectionsTyped DEF Asks, Request, Kinds, Fits
  <2> QED
    BY <2>1, <2>2, Arrives
<1>5. CASE RemoveNode(h)
  <2>1. PICK g \in Names, n \in Nodes : Arrive(h, "delete", Asks("remove", g, <<n>>, "none"))
    BY <1>5 DEF RemoveNode
  <2>2. Asks("remove", g, <<n>>, "none") \in Request /\ Fits("delete", Asks("remove", g, <<n>>, "none"))
    BY DEF Asks, Request, Kinds, Fits
  <2> QED
    BY <2>1, <2>2, Arrives
<1>6. CASE RemoveSelected(h)
  <2>1. PICK g \in Names, l \in SelectionsOfLists : Arrive(h, "delete", Asks("remove", g, l, "none"))
    BY <1>6 DEF RemoveSelected
  <2>2. Asks("remove", g, l, "none") \in Request /\ Fits("delete", Asks("remove", g, l, "none"))
    BY SelectionsTyped DEF Asks, Request, Kinds, Fits
  <2> QED
    BY <2>1, <2>2, Arrives
<1>7. CASE Configure(h)
  <2>1. PICK g \in Names, f \in Filters : Arrive(h, "save", Asks("configure", g, <<>>, f))
    BY <1>7 DEF Configure
  <2>2. Asks("configure", g, <<>>, f) \in Request /\ Fits("save", Asks("configure", g, <<>>, f))
    BY DEF Asks, Request, Kinds, Fits
  <2> QED
    BY <2>1, <2>2, Arrives
<1> QED
  BY <1>1, <1>2, <1>3, <1>4, <1>5, <1>6, <1>7 DEF Arrival

\* An action that goes on to a label with a request r, rows and inserted nodes.
GoesOn(h, label, r, newRows, newInserted) ==
    /\ pc[h] # "idle" /\ pc' = [pc EXCEPT ![h] = label]
    /\ ask' = [ask EXCEPT ![h] = r] /\ r.list = ask[h].list
    /\ rows' = [rows EXCEPT ![h] = newRows]
    /\ inserted' = [inserted EXCEPT ![h] = newInserted]
    /\ Fits(label, r)
    /\ label = "insert" => newRows # <<>>
    /\ label = "commit" => newRows = <<>>
    /\ label \in {"insert", "commit"} =>
         ToSet(ask[h].list) \subseteq done[h] \cup AsAsked(h) \cup ToSet(newRows) \cup newInserted
    /\ label = "audit" => ToSet(ask[h].list) \subseteq done[h] \cup AsAsked(h)

LEMMA Goes ==
    ASSUME TypeOK, RequestInv, Record, NEW h \in Handlers,
           NEW label \in Labels \ {"idle"}, NEW r \in Request,
           NEW newRows \in Seq(Nodes), NEW newInserted \in SUBSET Nodes,
           GoesOn(h, label, r, newRows, newInserted)
    PROVE  OwnStep(h)
<1>1. RequestTypes
  BY TypesOf
<1>2. /\ pc' \in [Handlers -> Labels] /\ ask' \in [Handlers -> Request]
      /\ rows' \in [Handlers -> Seq(Nodes)] /\ inserted' \in [Handlers -> SUBSET Nodes]
      /\ pc'[h] = label /\ ask'[h] = r /\ rows'[h] = newRows /\ inserted'[h] = newInserted
      /\ \A k \in Handlers \ {h} : /\ pc'[k] = pc[k] /\ ask'[k] = ask[k]
                                  /\ rows'[k] = rows[k] /\ inserted'[k] = inserted[k]
  BY <1>1 DEF RequestTypes, GoesOn
<1>3. done' \in [Handlers -> SUBSET Nodes] /\ done'[h] = done[h] \cup AsAsked(h)
  BY <1>2, DoneOf DEF GoesOn
<1>4. AsAsked(h) \subseteq ToSet(ask[h].list) /\ done[h] \subseteq ToSet(ask[h].list)
  BY <1>2 DEF AsAsked, RequestInv, Covered, GoesOn
<1>5. Labelled(h)'
  BY <1>2 DEF Labelled, GoesOn
<1>6. Covered(h)'
  BY <1>2, <1>3, <1>4 DEF Covered, GoesOn
<1>7. RequestTypes'
  BY <1>2, <1>3 DEF RequestTypes
<1> QED
  BY <1>2, <1>5, <1>6, <1>7 DEF OwnStep

\* What is known of a handler before its step.
LEMMA Before ==
    ASSUME TypeOK, RequestInv, NEW h \in Handlers
    PROVE  /\ ask[h] \in Request /\ ask[h].list \in Seq(Nodes)
           /\ rows[h] \in Seq(Nodes) /\ inserted[h] \in SUBSET Nodes
           /\ ask = [ask EXCEPT ![h] = ask[h]] /\ rows = [rows EXCEPT ![h] = rows[h]]
           /\ inserted = [inserted EXCEPT ![h] = inserted[h]]
           /\ Fits(pc[h], ask[h]) /\ Covered(h)
<1>1. RequestTypes
  BY TypesOf
<1> QED
  BY <1>1 DEF RequestTypes, RequestInv, Labelled, Request

\* The request as an assignment.
Assigning(r) == [r EXCEPT !.kind = IF r.kind = "import" THEN "assign" ELSE r.kind]

LEMMA AsAssigning ==
    ASSUME TypeOK, RequestInv, NEW h \in Handlers
    PROVE  /\ AsAssign(h) = [ask EXCEPT ![h] = Assigning(ask[h])]
           /\ Assigning(ask[h]) \in Request
           /\ Assigning(ask[h]).list = ask[h].list /\ Assigning(ask[h]).group = ask[h].group
           /\ Assigning(ask[h]).kind = IF ask[h].kind = "import" THEN "assign" ELSE ask[h].kind
<1>1. ask \in [Handlers -> Request]
  BY DEF TypeOK
<1> QED
  BY <1>1 DEF AsAssign, Assigning, Request, Kinds

LEMMA FindGroupStep ==
    ASSUME TypeOK, RequestInv, Record, NEW h \in Handlers, FindGroup(h)
    PROVE  OwnStep(h)
<1>1. /\ pc[h] = "find" /\ rows' = rows /\ inserted' = inserted
      /\ pc' = [pc EXCEPT ![h] = IF Exists(ask[h].group) THEN "read" ELSE "create"]
      /\ ask' = IF Exists(ask[h].group) THEN AsAssign(h) ELSE ask
  BY DEF FindGroup, Move, job
<1>2. CASE Exists(ask[h].group)
  <2>1. GoesOn(h, "read", Assigning(ask[h]), rows[h], inserted[h])
    BY <1>1, <1>2, Before, AsAssigning DEF GoesOn, Fits
  <2> QED
    BY <2>1, Before, AsAssigning, Goes DEF Labels
<1>3. CASE ~Exists(ask[h].group)
  <2>1. GoesOn(h, "create", ask[h], rows[h], inserted[h])
    BY <1>1, <1>3, Before DEF GoesOn, Fits
  <2> QED
    BY <2>1, Before, Goes DEF Labels
<1> QED
  BY <1>2, <1>3

LEMMA CreateStep ==
    ASSUME TypeOK, RequestInv, Record, NEW h \in Handlers, Create(h)
    PROVE  OwnStep(h) /\ groups' \in [Names -> Filters \cup {"absent"}]
<1>1. /\ pc[h] = "create" /\ rows' = rows /\ inserted' = inserted /\ ask' = AsAssign(h)
      /\ pc' = [pc EXCEPT ![h] = IF ask[h].kind = "import" THEN "read" ELSE "audit"]
      /\ groups' = [groups EXCEPT ![ask[h].group] = ask[h].filter]
  BY DEF Create, Move, job
<1>2. ASSUME ask[h].kind = "import" PROVE OwnStep(h)
  <2>1. GoesOn(h, "read", Assigning(ask[h]), rows[h], inserted[h])
    BY <1>1, <1>2, Before, AsAssigning DEF GoesOn, Fits
  <2> QED
    BY <2>1, Before, AsAssigning, Goes DEF Labels
<1>3. ASSUME ask[h].kind # "import" PROVE OwnStep(h)
  <2>1. ask[h].kind = "create" /\ ToSet(ask[h].list) = {}
    BY <1>1, <1>3, Before DEF Fits, ToSet
  <2>2. GoesOn(h, "audit", Assigning(ask[h]), rows[h], inserted[h])
    BY <1>1, <1>3, <2>1, Before, AsAssigning DEF GoesOn, Fits
  <2> QED
    BY <2>2, Before, AsAssigning, Goes DEF Labels
<1>4. groups' \in [Names -> Filters \cup {"absent"}]
  BY <1>1, Before DEF TypeOK, Request
<1> QED
  BY <1>2, <1>3, <1>4

\* What is a member is as an assignment asks for; a removal, the other way round.
LEMMA AsAskedOf ==
    ASSUME NEW h \in Handlers, ask'[h].list = ask[h].list, ask'[h].group = ask[h].group
    PROVE  /\ ask'[h].kind # "remove" =>
                AsAsked(h) = {n \in ToSet(ask[h].list) : <<ask[h].group, n>> \in members'}
           /\ ask'[h].kind = "remove" =>
                AsAsked(h) = {n \in ToSet(ask[h].list) : <<ask[h].group, n>> \notin members'}
BY DEF AsAsked

LEMMA ReadMembersStep ==
    ASSUME TypeOK, RequestInv, Record, NEW h \in Handlers, ReadMembers(h)
    PROVE  OwnStep(h)
<1>1. /\ pc[h] = "read" /\ ask' = ask /\ inserted' = inserted /\ members' = members
      /\ rows' = [rows EXCEPT ![h] = Missing(h)]
      /\ pc' = [pc EXCEPT ![h] = IF rows'[h] = <<>> THEN "audit" ELSE "insert"]
  BY DEF ReadMembers, job, tables
<1>2. /\ Missing(h) \in Seq(Nodes)
      /\ ToSet(Missing(h)) = ToSet(ask[h].list) \ MembersOf(ask[h].group)
  <2>1. ToSet(ask[h].list) \subseteq Nodes
    BY Before DEF ToSet
  <2> QED
    BY <2>1, Before, KeepOf DEF Missing
<1>3. rows'[h] = Missing(h)
  BY <1>1 DEF TypeOK
<1>4. ToSet(ask[h].list) \cap MembersOf(ask[h].group) \subseteq AsAsked(h)
  BY <1>1, AsAskedOf, Before DEF Fits, MembersOf
<1>5. CASE Missing(h) = <<>>
  <2>1. ToSet(Missing(h)) = {}
    BY <1>5 DEF ToSet
  <2>2. GoesOn(h, "audit", ask[h], Missing(h), inserted[h])
    BY <1>1, <1>2, <1>3, <1>4, <1>5, <2>1, Before DEF GoesOn, Fits
  <2> QED
    BY <1>2, <2>2, Before, Goes DEF Labels
<1>6. CASE Missing(h) # <<>>
  <2>1. GoesOn(h, "insert", ask[h], Missing(h), inserted[h])
    BY <1>1, <1>2, <1>3, <1>4, <1>6, Before DEF GoesOn, Fits
  <2> QED
    BY <1>2, <2>1, Before, Goes DEF Labels
<1> QED
  BY <1>5, <1>6

LEMMA InsertStep ==
    ASSUME TypeOK, RequestInv, Record, NEW h \in Handlers, Insert(h)
    PROVE  OwnStep(h)
<1>1. /\ pc[h] = "insert" /\ ask' = ask
      /\ pc' = [pc EXCEPT ![h] = IF Len(rows[h]) = 1 THEN "commit" ELSE "insert"]
      /\ inserted' = [inserted EXCEPT ![h] = inserted[h] \cup {Head(rows[h])}]
      /\ rows' = [rows EXCEPT ![h] = Tail(rows[h])]
  BY DEF Insert, Move, TypeOK
<1>2. rows[h] # <<>> /\ rows[h] \in Seq(Nodes)
  BY <1>1, Before DEF Covered
<1>3. /\ Tail(rows[h]) \in Seq(Nodes) /\ Head(rows[h]) \in Nodes
      /\ ToSet(rows[h]) = ToSet(Tail(rows[h])) \cup {Head(rows[h])}
  BY <1>2, TailOf
<1>4. Len(rows[h]) = 1 <=> Tail(rows[h]) = <<>>
  <2>1. Len(Tail(rows[h])) = Len(rows[h]) - 1 /\ Len(rows[h]) \in Nat
    BY <1>2, TailOf
  <2>2. Tail(rows[h]) = <<>> <=> Len(Tail(rows[h])) = 0
    BY <1>3, EmptySeq
  <2> QED
    BY <2>1, <2>2
<1>5. ToSet(ask[h].list) \subseteq done[h] \cup ToSet(rows[h]) \cup inserted[h]
  BY <1>1, Before DEF Covered
<1>6. Fits("insert", ask[h]) /\ Fits("commit", ask[h])
  BY <1>1, Before DEF Fits
<1>7. PICK newInserted \in SUBSET Nodes : newInserted = inserted[h] \cup {Head(rows[h])}
  BY <1>3, Before
<1>8. CASE Len(rows[h]) = 1
  <2>1. GoesOn(h, "commit", ask[h], Tail(rows[h]), newInserted)
    BY <1>1, <1>3, <1>4, <1>5, <1>6, <1>7, <1>8, Before DEF GoesOn
  <2> QED
    BY <1>3, <2>1, Before, Goes DEF Labels
<1>9. CASE Len(rows[h]) # 1
  <2>1. GoesOn(h, "insert", ask[h], Tail(rows[h]), newInserted)
    BY <1>1, <1>3, <1>4, <1>5, <1>6, <1>7, <1>9, Before DEF GoesOn
  <2> QED
    BY <1>3, <2>1, Before, Goes DEF Labels
<1> QED
  BY <1>8, <1>9

LEMMA CommitStep ==
    ASSUME TypeOK, RequestInv, Record, NEW h \in Handlers, Commit(h)
    PROVE  OwnStep(h) /\ members' \subseteq Names \X Nodes
<1>1. /\ pc[h] = "commit" /\ ask' = ask /\ rows' = rows
      /\ pc' = [pc EXCEPT ![h] = "audit"]
      /\ inserted' = [inserted EXCEPT ![h] = {}]
      /\ members' = members \cup {<<ask[h].group, n>> : n \in inserted[h]}
  BY DEF Commit, Move, job
<1>2. ToSet(ask[h].list) \subseteq done[h] \cup inserted[h]
  <2>1. ToSet(rows[h]) = {}
    BY <1>1, Before DEF Covered, ToSet
  <2> QED
    BY <1>1, <2>1, Before DEF Covered
<1>3. ToSet(ask[h].list) \cap inserted[h] \subseteq AsAsked(h)
  <2>1. ask[h].kind = "assign"
    BY <1>1, Before DEF Fits
  <2>2. AsAsked(h) = {n \in ToSet(ask[h].list) : <<ask[h].group, n>> \in members'}
    BY <1>1, <2>1, AsAskedOf
  <2> QED
    BY <1>1, <2>2
<1>4. GoesOn(h, "audit", ask[h], rows[h], {})
  BY <1>1, <1>2, <1>3, Before DEF GoesOn, Fits
<1>5. members' \subseteq Names \X Nodes
  BY <1>1, Before DEF TypeOK, Fits
<1> QED
  BY <1>4, <1>5, Before, Goes DEF Labels

LEMMA DeleteStep ==
    ASSUME TypeOK, RequestInv, Record, NEW h \in Handlers, Delete(h)
    PROVE  OwnStep(h) /\ members' \subseteq Names \X Nodes
<1>1. /\ pc[h] = "delete" /\ ask' = ask /\ rows' = rows /\ inserted' = inserted
      /\ pc' = [pc EXCEPT ![h] = "audit"]
      /\ members' = members \ {<<ask[h].group, n>> : n \in ToSet(ask[h].list)}
  BY DEF Delete, Move, job
<1>2. ToSet(ask[h].list) \subseteq AsAsked(h)
  <2>1. ask[h].kind = "remove"
    BY <1>1, Before DEF Fits
  <2>2. AsAsked(h) = {n \in ToSet(ask[h].list) : <<ask[h].group, n>> \notin members'}
    BY <1>1, <2>1, AsAskedOf
  <2> QED
    BY <1>1, <2>2
<1>3. GoesOn(h, "audit", ask[h], rows[h], inserted[h])
  BY <1>1, <1>2, Before DEF GoesOn, Fits
<1>4. members' \subseteq Names \X Nodes
  BY <1>1 DEF TypeOK
<1> QED
  BY <1>3, <1>4, Before, Goes DEF Labels

LEMMA SaveGroupStep ==
    ASSUME TypeOK, RequestInv, Record, NEW h \in Handlers, SaveGroup(h)
    PROVE  OwnStep(h) /\ groups' \in [Names -> Filters \cup {"absent"}]
<1>1. /\ pc[h] = "save" /\ ask' = ask /\ rows' = rows /\ inserted' = inserted
      /\ pc' = [pc EXCEPT ![h] = "audit"]
      /\ groups' = [groups EXCEPT ![ask[h].group] = ask[h].filter]
  BY DEF SaveGroup, Move, job
<1>2. ToSet(ask[h].list) = {}
  <2>1. ask[h].list = <<>>
    BY <1>1, Before DEF Fits
  <2> QED
    BY <2>1 DEF ToSet
<1>3. GoesOn(h, "audit", ask[h], rows[h], inserted[h])
  BY <1>1, <1>2, Before DEF GoesOn, Fits
<1>4. groups' \in [Names -> Filters \cup {"absent"}]
  BY <1>1, Before DEF TypeOK, Request
<1> QED
  BY <1>3, <1>4, Before, Goes DEF Labels

\* Every step of a handler.
LEMMA HandlerStep ==
    ASSUME TypeOK, RequestInv, Record, NEW h \in Handlers,
           Arrival(h) \/ Serve(h) \/ CommitFails(h)
    PROVE  /\ RequestTypes' /\ RequestInv'
           /\ groups' \in [Names -> Filters \cup {"absent"}] /\ members' \subseteq Names \X Nodes
           /\ UNCHANGED <<matches, job>>
<1>1. groups \in [Names -> Filters \cup {"absent"}] /\ members \subseteq Names \X Nodes
  BY DEF TypeOK
<1> DEFINE Rest == /\ groups' \in [Names -> Filters \cup {"absent"}]
                   /\ members' \subseteq Names \X Nodes
                   /\ UNCHANGED <<matches, job>>
<1>2. ASSUME Arrival(h) PROVE OwnStep(h) /\ Rest
  <2>1. UNCHANGED <<tables, matches, job>>
    BY <1>2 DEF Arrival, GroupCreate, AssignNode, AssignSelected, ZeroHopImport, RemoveNode,
                RemoveSelected, Configure, Arrive
  <2> QED
    BY <1>1, <1>2, <2>1, ArrivalStep DEF tables
<1>3. ASSUME FindGroup(h) PROVE OwnStep(h) /\ Rest
  BY <1>1, <1>3, FindGroupStep DEF FindGroup, tables
<1>4. ASSUME Create(h) PROVE OwnStep(h) /\ Rest
  BY <1>1, <1>4, CreateStep DEF Create
<1>5. ASSUME CreateTaken(h) \/ InsertTaken(h) \/ DeadlockVictim(h) \/ Audit(h) \/ CommitFails(h)
      PROVE  OwnStep(h) /\ Rest
  <2>1. UNCHANGED <<tables, matches, job>> /\ \E label : Answer(h, label)
    BY <1>5 DEF CreateTaken, InsertTaken, DeadlockVictim, Audit, CommitFails
  <2> QED
    BY <1>1, <2>1, Answers DEF tables
<1>6. ASSUME ReadMembers(h) PROVE OwnStep(h) /\ Rest
  BY <1>1, <1>6, ReadMembersStep DEF ReadMembers, tables
<1>7. ASSUME Insert(h) PROVE OwnStep(h) /\ Rest
  BY <1>1, <1>7, InsertStep DEF Insert, tables
<1>8. ASSUME Commit(h) PROVE OwnStep(h) /\ Rest
  BY <1>1, <1>8, CommitStep DEF Commit
<1>9. ASSUME Delete(h) PROVE OwnStep(h) /\ Rest
  BY <1>1, <1>9, DeleteStep DEF Delete
<1>10. ASSUME SaveGroup(h) PROVE OwnStep(h) /\ Rest
  BY <1>1, <1>10, SaveGroupStep DEF SaveGroup
<1>11. OwnStep(h) /\ Rest
  BY <1>2, <1>3, <1>4, <1>5, <1>6, <1>7, <1>8, <1>9, <1>10 DEF Serve
<1> QED
  BY <1>11, OwnSteps

\* A step that is of no handler.
LEMMA OtherStep ==
    ASSUME TypeOK, RequestInv, Record, UNCHANGED <<tables, requests>>
    PROVE  /\ RequestTypes' /\ RequestInv'
           /\ groups' \in [Names -> Filters \cup {"absent"}] /\ members' \subseteq Names \X Nodes
<1>1. RequestTypes
  BY TypesOf
<1>2. UNCHANGED <<groups, members, pc, ask, rows, inserted>>
  BY DEF tables, requests
<1>3. ask' \in [Handlers -> Request]
  BY <1>1, <1>2 DEF RequestTypes
<1>4. RequestTypes'
  BY <1>1, <1>2, <1>3, DoneOf DEF RequestTypes
<1>5. RequestInv'
  <2> SUFFICES ASSUME NEW h \in Handlers PROVE Labelled(h)' /\ Covered(h)'
    BY DEF RequestInv
  <2> QED
    BY <1>2, Untouched DEF RequestInv
<1> QED
  BY <1>2, <1>4, <1>5 DEF TypeOK

-----------------------------------------------------------------------------
(* The job.                                                                *)

JobTypes ==
    /\ matches \in [Nodes -> SUBSET (Filters \ {"none"})]
    /\ jpc \in {"idle", "assigned", "dynamic", "patch"}
    /\ target \in [group : Names \cup {"none"}, filter : Filters]
    /\ assigned \in Seq(Nodes) /\ left \in Seq(Nodes)

HistoryTypes == ever \subseteq Nodes /\ kept \subseteq Nodes /\ fitting \subseteq Nodes

\* What Record makes of the history of the job.
LEMMA HistoryOf ==
    ASSUME Record
    PROVE  /\ jpc' \in {"idle", "patch"} => ever' = {} /\ kept' = {} /\ fitting' = {}
           /\ jpc = "idle" /\ jpc' = "assigned" =>
                ever' = Assigned \cup Matching /\ kept' = Assigned /\ fitting' = Matching
           /\ ~(jpc' \in {"idle", "patch"}) /\ ~(jpc = "idle" /\ jpc' = "assigned") =>
                /\ ever' = ever \cup Assigned \cup Matching
                /\ kept' = kept \cap Assigned /\ fitting' = fitting \cap Matching
BY DEF Record

LEMMA HistoryStep ==
    ASSUME TypeOK, JobInv, Record, members' \subseteq Names \X Nodes
    PROVE  /\ HistoryTypes'
           /\ jpc' \in {"assigned", "dynamic"} =>
                /\ kept' \subseteq Assigned /\ Assigned \subseteq ever'
                /\ fitting' \subseteq Matching /\ Matching \subseteq ever'
<1>1. Assigned \subseteq Nodes /\ Matching \subseteq Nodes
  BY DEF Assigned, Matching
<1>2. HistoryTypes
  BY DEF TypeOK, HistoryTypes
<1> QED
  BY <1>1, <1>2, HistoryOf DEF HistoryTypes

LEMMA NowOf == Assigned = MembersOf(target.group)' /\ Matching = Fitting'
BY DEF Assigned, Matching, MembersOf, Fitting

\* What the job has read stays right for its history as long as it is not read again.
LEMMA AssignedStays ==
    ASSUME TypeOK, JobInv, Record, jpc = "dynamic", jpc' = "dynamic", assigned' = assigned
    PROVE  kept' \subseteq ToSet(assigned') /\ ToSet(assigned') \subseteq ever'
<1>1. kept' = kept \cap Assigned /\ ever' = ever \cup Assigned \cup Matching
  BY HistoryOf
<1> QED
  BY <1>1 DEF JobInv

\* Job steps that change neither what is assigned nor what is left.
LEMMA JobInvKept ==
    ASSUME TypeOK, JobInv, Record, members' \subseteq Names \X Nodes,
           left' = left, assigned' = assigned, jpc' = "dynamic" => jpc = "dynamic"
    PROVE  JobInv' /\ HistoryTypes'
<1>1. jpc' = "dynamic" => kept' \subseteq ToSet(assigned') /\ ToSet(assigned') \subseteq ever'
  BY AssignedStays
<1>2. IsInjective(left')
  BY DEF JobInv
<1> QED
  BY <1>1, <1>2, HistoryStep, NowOf DEF JobInv

LEMMA JobTyped == TypeOK => JobTypes /\ HistoryTypes
BY DEF TypeOK, JobTypes, HistoryTypes

LEMMA NoMatchesTyped == NoMatches \in [Nodes -> SUBSET (Filters \ {"none"})]
BY DEF NoMatches

LEMMA JobStartStep ==
    ASSUME TypeOK, JobInv, Record, JobStart
    PROVE  JobTypes' /\ HistoryTypes' /\ JobInv'
<1>1. PICK g \in Names :
         /\ Exists(g) /\ jpc = "idle" /\ jpc' = "assigned"
         /\ target' = [group |-> g, filter |-> groups[g]]
         /\ matches' \in [Nodes -> SUBSET (Filters \ {"none"})]
         /\ assigned' = assigned /\ left' = left /\ members' = members
  BY DEF JobStart, tables
<1>2. groups[g] \in Filters
  BY <1>1 DEF Exists, TypeOK
<1>3. JobTypes'
  BY <1>1, <1>2, JobTyped DEF JobTypes
<1>4. members' \subseteq Names \X Nodes
  BY <1>1 DEF TypeOK
<1> QED
  BY <1>1, <1>3, <1>4, JobInvKept

LEMMA ListAssignedStep ==
    ASSUME TypeOK, JobInv, Record, ListAssigned
    PROVE  JobTypes' /\ HistoryTypes' /\ JobInv'
<1>1. /\ jpc = "assigned" /\ jpc' = "dynamic"
      /\ assigned' = Selection(MembersOf(target.group))
      /\ UNCHANGED <<members, matches, target, left>>
  BY DEF ListAssigned, tables
<1>2. MembersOf(target.group) \in SUBSET Nodes
  BY DEF MembersOf
<1>3. assigned' \in Seq(Nodes) /\ ToSet(assigned') = MembersOf(target.group)
  BY <1>1, <1>2, SelectionOf
<1>4. JobTypes'
  BY <1>1, <1>3, JobTyped DEF JobTypes
<1>5. members' \subseteq Names \X Nodes
  BY <1>1 DEF TypeOK
<1>6. kept' \subseteq kept /\ ever \subseteq ever'
  BY <1>1, HistoryOf
<1>7. kept' \subseteq ToSet(assigned') /\ ToSet(assigned') \subseteq ever'
  BY <1>1, <1>3, <1>6 DEF JobInv
<1>8. IsInjective(left')
  BY <1>1 DEF JobInv
<1> QED
  BY <1>1, <1>4, <1>5, <1>7, <1>8, HistoryStep, NowOf DEF JobInv

\* The nodes that match are read, and joined to those that are assigned.
LEMMA Resolved ==
    ASSUME TypeOK, ResolveDynamic
    PROVE  /\ left' \in Seq(Nodes) /\ IsInjective(left')
           /\ ToSet(left') = ToSet(assigned) \cup Fitting
<1> DEFINE dynamic == Selection({n \in Nodes : target.filter \in matches[n]})
<1>1. left' = Dedup(assigned \o dynamic)
  BY DEF ResolveDynamic
<1>2. dynamic \in Seq(Nodes) /\ ToSet(dynamic) = Fitting
  BY SelectionOf DEF Fitting
<1>3. assigned \in Seq(Nodes)
  BY DEF TypeOK
<1> HIDE DEF dynamic
<1>4. assigned \o dynamic \in Seq(Nodes) /\ ToSet(assigned \o dynamic) = ToSet(assigned) \cup Fitting
  BY <1>2, <1>3, ConcatOf
<1> QED
  BY <1>1, <1>4, DedupOf

LEMMA ResolveDynamicStep ==
    ASSUME TypeOK, JobInv, Record, ResolveDynamic
    PROVE  JobTypes' /\ HistoryTypes' /\ JobInv'
<1>1. /\ jpc' = "patch" /\ assigned' = <<>> /\ matches' = NoMatches
      /\ UNCHANGED <<members, target>>
  BY DEF ResolveDynamic, tables
<1>2. <<>> \in Seq(Nodes)
  OBVIOUS
<1>3. JobTypes'
  BY <1>1, <1>2, Resolved, JobTyped, NoMatchesTyped DEF JobTypes
<1>4. members' \subseteq Names \X Nodes
  BY <1>1 DEF TypeOK
<1> QED
  BY <1>1, <1>3, <1>4, Resolved, HistoryStep DEF JobInv

LEMMA PatchMemberStep ==
    ASSUME TypeOK, JobInv, Record, PatchMember
    PROVE  JobTypes' /\ HistoryTypes' /\ JobInv'
<1>1. /\ jpc = "patch" /\ left # <<>> /\ left' = Tail(left)
      /\ UNCHANGED <<members, matches, jpc, target, assigned>>
  BY DEF PatchMember, tables
<1>2. left' \in Seq(Nodes) /\ IsInjective(left')
  BY <1>1, TailOf, JobTyped DEF JobTypes, JobInv
<1>3. JobTypes'
  BY <1>1, <1>2, JobTyped DEF JobTypes
<1>4. members' \subseteq Names \X Nodes
  BY <1>1 DEF TypeOK
<1> QED
  BY <1>1, <1>2, <1>3, <1>4, HistoryStep DEF JobInv

LEMMA JobEndStep ==
    ASSUME TypeOK, JobInv, Record, JobEnd
    PROVE  JobTypes' /\ HistoryTypes' /\ JobInv'
<1>1. /\ jpc' = "idle" /\ target' = NoTarget
      /\ UNCHANGED <<members, matches, assigned, left>>
  BY DEF JobEnd, tables
<1>2. NoTarget \in [group : Names \cup {"none"}, filter : Filters]
  BY DEF NoTarget
<1>3. JobTypes'
  BY <1>1, <1>2, JobTyped DEF JobTypes
<1>4. members' \subseteq Names \X Nodes
  BY <1>1 DEF TypeOK
<1> QED
  BY <1>1, <1>3, <1>4, JobInvKept

LEMMA NodeChangesStep ==
    ASSUME TypeOK, JobInv, Record, NodeChanges
    PROVE  JobTypes' /\ HistoryTypes' /\ JobInv'
<1>1. /\ \E n \in Nodes, F \in SUBSET (Filters \ {"none"}) : matches' = [matches EXCEPT ![n] = F]
      /\ UNCHANGED <<members, jpc, target, assigned, left>>
  BY DEF NodeChanges, tables, job
<1>2. matches' \in [Nodes -> SUBSET (Filters \ {"none"})]
  BY <1>1 DEF TypeOK
<1>3. JobTypes'
  BY <1>1, <1>2, JobTyped DEF JobTypes
<1>4. members' \subseteq Names \X Nodes
  BY <1>1 DEF TypeOK
<1> QED
  BY <1>1, <1>3, <1>4, JobInvKept

-----------------------------------------------------------------------------
(* Everything together.                                                    *)

LEMMA TypesTogether ==
    ASSUME RequestTypes, JobTypes, HistoryTypes,
           groups \in [Names -> Filters \cup {"absent"}], members \subseteq Names \X Nodes
    PROVE  TypeOK
BY DEF TypeOK, RequestTypes, JobTypes, HistoryTypes, Labels

LEMMA InvInit == Init => Inv
<1> SUFFICES ASSUME Init PROVE Inv
  OBVIOUS
<1>1. RequestTypes
  <2>1. <<>> \in Seq(Nodes)
    OBVIOUS
  <2> QED
    BY <2>1, NoAskTyped DEF Init, RequestTypes, Labels
<1>2. JobTypes /\ HistoryTypes
  <2>1. <<>> \in Seq(Nodes) /\ NoTarget \in [group : Names \cup {"none"}, filter : Filters]
    BY DEF NoTarget
  <2> QED
    BY <2>1, NoMatchesTyped DEF Init, JobTypes, HistoryTypes
<1>3. groups \in [Names -> Filters \cup {"absent"}] /\ members \subseteq Names \X Nodes
  BY DEF Init
<1>4. RequestInv
  BY DEF Init, RequestInv, Labelled, Fits, Covered, NoAsk, Asks
<1>5. JobInv
  BY DEF Init, JobInv, IsInjective
<1> QED
  BY <1>1, <1>2, <1>3, <1>4, <1>5, TypesTogether DEF Inv

LEMMA InvNext == Inv /\ [Next]_vars => Inv'
<1> SUFFICES ASSUME Inv, [Next]_vars PROVE Inv'
  OBVIOUS
<1> USE DEF Inv
<1> DEFINE RequestsAfter == /\ RequestTypes' /\ RequestInv'
                            /\ groups' \in [Names -> Filters \cup {"absent"}]
                            /\ members' \subseteq Names \X Nodes
           JobAfter == JobTypes' /\ HistoryTypes' /\ JobInv'
<1>1. ASSUME NEW h \in Handlers, Record, Arrival(h) \/ Serve(h) \/ CommitFails(h)
      PROVE  RequestsAfter /\ JobAfter
  <2>1. RequestsAfter /\ UNCHANGED <<matches, jpc, target, assigned, left>>
    BY <1>1, HandlerStep DEF job
  <2>2. JobTypes'
    BY <2>1, JobTyped DEF JobTypes
  <2> QED
    BY <1>1, <2>1, <2>2, JobInvKept
<1>2. ASSUME Record, JobStart \/ JobStep \/ NodeChanges
      PROVE  RequestsAfter /\ JobAfter
  <2>1. UNCHANGED <<tables, requests>>
    BY <1>2 DEF JobStart, JobStep, ListAssigned, ResolveDynamic, PatchMember, JobEnd, NodeChanges
  <2> QED
    BY <1>2, <2>1, OtherStep, JobStartStep, ListAssignedStep, ResolveDynamicStep, PatchMemberStep,
       JobEndStep, NodeChangesStep DEF JobStep
<1>3. CASE Next
  <2>1. RequestsAfter /\ JobAfter
    BY <1>1, <1>2, <1>3 DEF Next, Step
  <2>2. TypeOK'
    BY <2>1, TypesTogether DEF TypeOK, RequestTypes, JobTypes, HistoryTypes, Labels
  <2> QED
    BY <2>1, <2>2
<1>4. CASE UNCHANGED vars
  BY <1>4 DEF vars, tables, requests, job, history, TypeOK, RequestInv, Labelled, Covered, JobInv,
              MembersOf, Fitting
<1> QED
  BY <1>3, <1>4

\* The inductive invariant, with the types of the tables, handlers and the job.
THEOREM Types == Spec => []TypeOK /\ []Inv
<1>1. Inv => TypeOK
  BY DEF Inv
<1> QED
  BY <1>1, InvInit, InvNext, PTL DEF Spec

\* Whatever other requests change meanwhile, and however often a list names a
\* node, a handler reports success only when each node of its list was, at some
\* time of the request, what it asks for: no part of a list counts as the whole.
THEOREM DoneAsAskedHolds == Spec => []DoneAsAsked
<1>1. Inv => DoneAsAsked
  BY DEF Inv, RequestInv, Covered, DoneAsAsked
<1> QED
  BY <1>1, Types, PTL

\* The group job patches no node twice.
THEOREM OncePerNodeHolds == Spec => []OncePerNode
<1>1. Inv => OncePerNode
  BY DEF Inv, JobInv, OncePerNode
<1> QED
  BY <1>1, Types, PTL

\* It patches who was assigned, or matched, all the time that it read the members,
\* and nobody who was never either.
THEOREM PatchesMembers == Spec => JobPatchesMembers
<1>1. Inv /\ [Next]_vars =>
        [Resolves => kept \cup fitting \subseteq ToSet(left') /\ ToSet(left') \subseteq ever]_vars
  <2> SUFFICES ASSUME Inv, Next, Resolves
               PROVE  kept \cup fitting \subseteq ToSet(left') /\ ToSet(left') \subseteq ever
    OBVIOUS
  <2>1. jpc = "dynamic" /\ jpc' = "patch"
    BY DEF Resolves
  <2>2. ResolveDynamic
    <3>1. ASSUME NEW h \in Handlers, Record, Arrival(h) \/ Serve(h) \/ CommitFails(h) PROVE FALSE
      BY <2>1, <3>1, HandlerStep DEF Inv, job
    <3> QED
      BY <2>1, <3>1 DEF Next, Step, JobStart, JobStep, ListAssigned, PatchMember, JobEnd, NodeChanges, job
  <2>3. ToSet(left') = ToSet(assigned) \cup Fitting
    BY <2>2, Resolved DEF Inv
  <2> QED
    BY <2>1, <2>3 DEF Inv, JobInv
<1> QED
  BY <1>1, Types, PTL DEF Spec, JobPatchesMembers
=============================================================================
