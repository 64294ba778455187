----------------------- MODULE RoutingFavorites_proofs -----------------------
(* For any number of radios, peers, threads and requests, and whatever      *)
(* fails: jobs change only their targets, a destination that counts as done *)
(* had them as wanted, an undisturbed refresh ends in what it promises, and *)
(* the visibility page counts what the copies say.                          *)
EXTENDS RoutingFavoritesProps, Lists_proofs, SequenceTheorems

\* Where a thread is in its job; what it need not do any more on the radio at
\* hand was once as wanted, unless one of the targets has failed.
Busy(w) ==
    /\ wpc[w] \in {"target", "write"} => left[w] # <<>>
    /\ wpc[w] \in {"dest", "target"} => ToSet(left[w]) \subseteq running[w].dests
    /\ wpc[w] = "target" => togo[w] \subseteq TargetsOn(w, Head(left[w]))
    /\ wpc[w] = "target" /\ ~refused[w] /\ ~running[w].dry =>
          TargetsOn(w, Head(left[w])) \ togo[w] \subseteq reached[w]

BusyInv == \A w \in Workers : Busy(w)

\* One of the two jobs of the refresh.
Ours(job) ==
    /\ job.bulk /\ job.refresh /\ ~job.dry /\ job.dests = refresh.dests
    /\ \/ job.action = "set_favorite" /\ job.targets = refresh.targets
       \/ job.action = "remove_favorite" /\ job.targets \cap refresh.targets = {}

OnlyOurs ==
    /\ \A job \in ToSet(queue) : Ours(job)
    /\ \A w \in Workers : wpc[w] # "idle" => Ours(running[w])

\* A job with this action has still to come to peer p on radio r.
Coming(w, r, p, action) ==
    /\ wpc[w] \in {"dest", "target"} /\ r \in ToSet(left[w])
    /\ running[w].action = action /\ p \in running[w].targets
    /\ wpc[w] = "target" /\ r = Head(left[w]) => p \in togo[w]
Pending(r, p, action) ==
    \/ \E job \in ToSet(queue) : job.action = action /\ p \in job.targets
    \/ \E w \in Workers : Coming(w, r, p, action)

\* What a radio does not have as the refresh wants it is pending.
Promised(r) == \A p \in Peers \ {r} :
    /\ p \in refresh.targets \cap nodeDB[r].seen /\ p \notin nodeDB[r].fav =>
          Pending(r, p, "set_favorite")
    /\ p \in nodeDB[r].fav \cap refresh.roles /\ p \notin refresh.targets =>
          Pending(r, p, "remove_favorite")

SettleInv == refresh.on =>
    /\ OnlyOurs
    /\ refresh.targets \subseteq refresh.roles
    /\ \A r \in refresh.dests :
          Promised(r) /\ nodeDB[r].near \cap refresh.roles \subseteq refresh.targets

\* The thread will synchronise, or has still to synchronise radio r.
Syncs(w, r) ==
    \/ wpc[w] = "target"
    \/ wpc[w] = "dest" /\ tally[w].ok
    \/ wpc[w] \in {"sync", "write"} /\ r \in ToSet(left[w])

\* Why the copy of radio r may not be what the radio has.
Shown(r) ==
    \/ copy[r] = nodeDB[r]
    \/ r \in refresh.late \/ r \notin refresh.synced
    \/ \E w \in Workers : Syncs(w, r)
ShowInv == refresh.on => \A r \in refresh.dests : Shown(r)

Inv == TypeOK /\ BusyInv /\ SettleInv /\ ShowInv

USE RoutingFavoritesAssumption

Labels == {"idle", "dest", "target", "sync", "write"}
Tally == [ok : BOOLEAN, failed : BOOLEAN]
RefreshRecord == [on : BOOLEAN, dests : SUBSET Radios, roles : SUBSET Peers,
                  targets : SUBSET Peers, synced : SUBSET Radios, late : SUBSET Radios]

WorkerTypes ==
    /\ running \in [Workers -> Job] /\ wpc \in [Workers -> Labels]
    /\ left \in [Workers -> Seq(Radios)] /\ togo \in [Workers -> SUBSET Peers]
    /\ refused \in [Workers -> BOOLEAN] /\ tally \in [Workers -> Tally]
    /\ snapshot \in [Workers -> Contents]

OtherTypes ==
    /\ nodeDB \in [Radios -> Contents] /\ copy \in [Radios -> Contents]
    /\ queue \in Seq(Job) /\ fetched \subseteq Reading
    /\ events \in 0..MaxEvents /\ requests \in 0..MaxRequests

HistoryTypes == refresh \in RefreshRecord /\ reached \in [Workers -> SUBSET Peers]

LEMMA TypesOf == TypeOK <=> WorkerTypes /\ OtherTypes /\ HistoryTypes
BY DEF TypeOK, WorkerTypes, OtherTypes, HistoryTypes, Labels, Tally, RefreshRecord

LEMMA Empty ==
    /\ NoJob \in Job /\ NoTally \in Tally /\ Nothing \in Contents /\ NoRefresh \in RefreshRecord
    /\ <<>> \in Seq(Radios) /\ <<>> \in Seq(Job) /\ ToSet(<<>>) = {} /\ ~NoRefresh.on
<1>1. NoJob \in Job
  BY DEF NoJob, Job, Actions
<1>2. NoTally \in Tally
  BY DEF NoTally, Tally
<1>3. Nothing \in Contents
  BY DEF Nothing, Contents
<1>4. NoRefresh \in RefreshRecord /\ ~NoRefresh.on
  BY DEF NoRefresh, RefreshRecord
<1>5. <<>> \in Seq(Radios) /\ <<>> \in Seq(Job) /\ ToSet(<<>>) = {}
  BY DEF ToSet
<1> QED
  BY <1>1, <1>2, <1>3, <1>4, <1>5

\* Lists are in the order of Order, without anything else.
LEMMA InOrderOf ==
    ASSUME NEW S \in SUBSET Peers
    PROVE  /\ InOrder(S) \in Seq(S) /\ ToSet(InOrder(S)) = S
           /\ S # {} => InOrder(S) # <<>> /\ Head(InOrder(S)) \in S
<1>1. InOrder(S) \in Seq(Peers) /\ ToSet(InOrder(S)) = S
  <2>1. Order \in Seq(Peers) /\ ToSet(Order) = Peers
    OBVIOUS
  <2>2. Keep(Order, S) \in Seq(Peers) /\ ToSet(Keep(Order, S)) = ToSet(Order) \cap S
    BY <2>1, KeepOf
  <2>3. ToSet(Keep(Order, S)) = S
    BY <2>1, <2>2
  <2> QED
    BY <2>2, <2>3 DEF InOrder
<1>2. InOrder(S) \in Seq(S)
  <2>1. \A i \in 1..Len(InOrder(S)) : InOrder(S)[i] \in S
    BY <1>1 DEF ToSet
  <2> QED
    BY <1>1, <2>1
<1>3. ASSUME S # {} PROVE InOrder(S) # <<>> /\ Head(InOrder(S)) \in S
  <2>1. InOrder(S) # <<>>
    BY <1>1, <1>3, Empty
  <2> QED
    BY <1>2, <2>1
<1> QED
  BY <1>1, <1>2, <1>3

LEMMA PeersFinite == IsFiniteSet(Peers) /\ IsFiniteSet(Radios)
<1>1. DOMAIN Order = 1..Len(Order) /\ Len(Order) \in Nat
  OBVIOUS
<1>2. IsFiniteSet(DOMAIN Order)
  BY <1>1, FS_Interval
<1>3. Order \in Surjection(DOMAIN Order, Peers)
  <2>1. Order \in [DOMAIN Order -> Peers] /\ {Order[i] : i \in DOMAIN Order} = Peers
    BY DEF ToSet
  <2> QED
    BY <2>1 DEF Surjection
<1>4. IsFiniteSet(Peers)
  BY <1>2, <1>3, FS_Surjection
<1> QED
  BY <1>4, FS_Subset

-----------------------------------------------------------------------------
(* The step of one thread.                                                 *)

\* What thread w has after a step, and that the others have what they had.
Same(v) == /\ wpc'[v] = wpc[v] /\ running'[v] = running[v] /\ left'[v] = left[v]
           /\ togo'[v] = togo[v] /\ refused'[v] = refused[v] /\ tally'[v] = tally[v]
           /\ snapshot'[v] = snapshot[v]
Own(w) == WorkerTypes' /\ \A v \in Workers \ {w} : Same(v)
After(w, label, job, dests, targets, no, results, read) ==
    /\ Own(w)
    /\ wpc'[w] = label /\ running'[w] = job /\ left'[w] = dests /\ togo'[w] = targets
    /\ refused'[w] = no /\ tally'[w] = results /\ snapshot'[w] = read

\* The same, of the functions.
Sets(w, label, job, dests, targets, no, results, read) ==
    /\ wpc' = [wpc EXCEPT ![w] = label] /\ running' = [running EXCEPT ![w] = job]
    /\ left' = [left EXCEPT ![w] = dests] /\ togo' = [togo EXCEPT ![w] = targets]
    /\ refused' = [refused EXCEPT ![w] = no] /\ tally' = [tally EXCEPT ![w] = results]
    /\ snapshot' = [snapshot EXCEPT ![w] = read]

LEMMA AfterOf ==
    ASSUME WorkerTypes, NEW w \in Workers, NEW label \in Labels, NEW job \in Job,
           NEW dests \in Seq(Radios), NEW targets \in SUBSET Peers, NEW no \in BOOLEAN,
           NEW results \in Tally, NEW read \in Contents,
           Sets(w, label, job, dests, targets, no, results, read)
    PROVE  After(w, label, job, dests, targets, no, results, read)
<1> USE DEF Sets
<1>1. WorkerTypes'
  BY DEF WorkerTypes
<1>2. ASSUME NEW v \in Workers \ {w} PROVE Same(v)
  BY DEF WorkerTypes, Same
<1>3. /\ wpc'[w] = label /\ running'[w] = job /\ left'[w] = dests /\ togo'[w] = targets
      /\ refused'[w] = no /\ tally'[w] = results /\ snapshot'[w] = read
  BY DEF WorkerTypes
<1> QED
  BY <1>1, <1>2, <1>3 DEF After, Own

\* What is known of a thread before its step.
LEMMA Before ==
    ASSUME WorkerTypes, NEW w \in Workers
    PROVE  /\ wpc[w] \in Labels /\ running[w] \in Job /\ left[w] \in Seq(Radios)
           /\ togo[w] \in SUBSET Peers /\ refused[w] \in BOOLEAN /\ tally[w] \in Tally
           /\ snapshot[w] \in Contents
           /\ running = [running EXCEPT ![w] = running[w]]
           /\ left = [left EXCEPT ![w] = left[w]] /\ togo = [togo EXCEPT ![w] = togo[w]]
           /\ refused = [refused EXCEPT ![w] = refused[w]]
           /\ tally = [tally EXCEPT ![w] = tally[w]]
           /\ snapshot = [snapshot EXCEPT ![w] = snapshot[w]]
BY DEF WorkerTypes

LEMMA JobOf ==
    ASSUME NEW job \in Job
    PROVE  /\ job.dests \in SUBSET Radios /\ job.targets \in SUBSET Peers
           /\ job.action \in Actions /\ job.bulk \in BOOLEAN
BY DEF Job

LEMMA TargetsOf ==
    ASSUME WorkerTypes, NEW w \in Workers, NEW r
    PROVE  /\ TargetsOn(w, r) \in SUBSET Peers
           /\ TargetsOn(w, r) \subseteq running[w].targets
           /\ running[w].bulk => r \notin TargetsOn(w, r)
           /\ \A p \in running[w].targets \ {r} : p \in TargetsOn(w, r)
BY Before, JobOf DEF TargetsOn

\* What an action does, thread by thread.
LEMMA StartDoes ==
    ASSUME TypeOK, NEW w \in Workers, Start(w)
    PROVE  /\ After(w, "dest", Head(queue), InOrder(Head(queue).dests), togo[w], refused[w], tally[w], snapshot[w])
           /\ wpc[w] = "idle" /\ nodeDB' = nodeDB /\ copy' = copy
           /\ queue' \in Seq(Job) /\ Head(queue) \in Job
           /\ ToSet(queue) = ToSet(queue') \cup {Head(queue)}
           /\ ToSet(InOrder(Head(queue).dests)) = Head(queue).dests
<1>1. WorkerTypes /\ queue \in Seq(Job) /\ queue # <<>> /\ queue' = Tail(queue)
  BY TypesOf DEF OtherTypes, Start
<1>2. queue' \in Seq(Job) /\ Head(queue) \in Job /\ ToSet(queue) = ToSet(queue') \cup {Head(queue)}
  BY <1>1, TailOf
<1>3. Head(queue).dests \in SUBSET Radios
  BY <1>2, JobOf
<1>4. /\ InOrder(Head(queue).dests) \in Seq(Head(queue).dests)
      /\ ToSet(InOrder(Head(queue).dests)) = Head(queue).dests
  BY <1>3, InOrderOf
<1>5. InOrder(Head(queue).dests) \in Seq(Radios)
  BY <1>3, <1>4
<1>6. After(w, "dest", Head(queue), InOrder(Head(queue).dests), togo[w], refused[w], tally[w], snapshot[w])
  <2>1. Sets(w, "dest", Head(queue), InOrder(Head(queue).dests), togo[w], refused[w], tally[w], snapshot[w])
    BY <1>1, <1>2, <1>5, Before DEF Sets, Start, Work
  <2> QED
    BY <1>1, <1>2, <1>5, Before, <2>1, AfterOf DEF Labels
<1> QED
  BY <1>2, <1>4, <1>6 DEF Start

\* A result: of a destination that succeeded, or that failed.
Results(w, failed) == [ok |-> tally[w].ok \/ ~failed, failed |-> tally[w].failed \/ failed]

LEMMA RecordDoes ==
    ASSUME TypeOK, NEW w \in Workers, NEW failed \in BOOLEAN, Record(w, failed), left[w] # <<>>
    PROVE  /\ After(w, "dest", running[w], Tail(left[w]), {}, FALSE, Results(w, failed), snapshot[w])
           /\ nodeDB' = nodeDB /\ copy' = copy /\ queue' = queue
           /\ tally'[w].ok = (tally[w].ok \/ ~failed) /\ tally'[w].failed = (tally[w].failed \/ failed)
<1>1. WorkerTypes
  BY TypesOf
<1>2. Tail(left[w]) \in Seq(Radios)
  BY <1>1, Before, TailOf
<1>3. Results(w, failed) \in Tally
  BY <1>1, Before DEF Results, Tally
<1>4. tally' = [tally EXCEPT ![w] = Results(w, failed)]
  BY <1>1 DEF Record, WorkerTypes, Results
<1>5. left' = [left EXCEPT ![w] = Tail(left[w])]
  BY <1>1 DEF Record, WorkerTypes
<1>6. After(w, "dest", running[w], Tail(left[w]), {}, FALSE, Results(w, failed), snapshot[w])
  <2>1. Sets(w, "dest", running[w], Tail(left[w]), {}, FALSE, Results(w, failed), snapshot[w])
    BY <1>1, <1>2, <1>3, <1>4, <1>5, Before DEF Sets, Record, Work
  <2> QED
    BY <1>1, <1>2, <1>3, <1>4, <1>5, Before, <2>1, AfterOf DEF Labels
<1> QED
  BY <1>6 DEF Record, After, Results

LEMMA ConnectDoes ==
    ASSUME TypeOK, NEW w \in Workers, Connect(w)
    PROVE  /\ After(w, "target", running[w], left[w], TargetsOn(w, Head(left[w])), refused[w], tally[w], snapshot[w])
           /\ wpc[w] = "dest" /\ left[w] # <<>>
           /\ nodeDB' = nodeDB /\ copy' = copy /\ queue' = queue
<1>1. WorkerTypes
  BY TypesOf
<1>2. After(w, "target", running[w], left[w], TargetsOn(w, Head(left[w])), refused[w], tally[w], snapshot[w])
  <2>1. Sets(w, "target", running[w], left[w], TargetsOn(w, Head(left[w])), refused[w], tally[w], snapshot[w])
    BY <1>1, Before, TargetsOf DEF Sets, Connect, Work
  <2> QED
    BY <1>1, Before, TargetsOf, <2>1, AfterOf DEF Labels
<1> QED
  BY <1>2 DEF Connect, AtDest

LEMMA FinishDoes ==
    ASSUME TypeOK, NEW w \in Workers, Finish(w)
    PROVE  /\ After(w, "idle", NoJob, <<>>, togo[w], refused[w], NoTally, snapshot[w])
           /\ nodeDB' = nodeDB /\ copy' = copy /\ queue' = queue
<1>1. WorkerTypes
  BY TypesOf
<1>2. After(w, "idle", NoJob, <<>>, togo[w], refused[w], NoTally, snapshot[w])
  <2>1. Sets(w, "idle", NoJob, <<>>, togo[w], refused[w], NoTally, snapshot[w])
    BY <1>1, Before DEF Sets, Finish, Work
  <2>2. NoJob \in Job /\ NoTally \in Tally /\ <<>> \in Seq(Radios)
    BY Empty
  <2>3. "idle" \in Labels /\ togo[w] \in SUBSET Peers /\ refused[w] \in BOOLEAN /\ snapshot[w] \in Contents
    BY <1>1, Before DEF Labels
  <2> QED
    BY <1>1, <2>1, <2>2, <2>3, AfterOf
<1> QED
  BY <1>2 DEF Finish

LEMMA StartSyncDoes ==
    ASSUME TypeOK, NEW w \in Workers, StartSync(w)
    PROVE  /\ Own(w) /\ wpc'[w] = "sync" /\ wpc[w] = "dest" /\ left[w] = <<>>
           /\ running'[w] = running[w] /\ refused'[w] = refused[w] /\ tally'[w] = tally[w]
           /\ nodeDB' = nodeDB /\ copy' = copy /\ queue' = queue
<1>1. WorkerTypes
  BY TypesOf
<1>2. PICK reachable \in SUBSET Radios : left' = [left EXCEPT ![w] = InOrder(reachable)]
  BY DEF StartSync
<1>3. InOrder(reachable) \in Seq(Radios)
  <2>1. reachable \in SUBSET Peers
    OBVIOUS
  <2>2. InOrder(reachable) \in Seq(reachable)
    BY <2>1, InOrderOf
  <2> QED
    BY <2>2
<1>4. After(w, "sync", running[w], InOrder(reachable), togo[w], refused[w], tally[w], snapshot[w])
  <2>1. Sets(w, "sync", running[w], InOrder(reachable), togo[w], refused[w], tally[w], snapshot[w])
    BY <1>1, <1>2, Before DEF Sets, StartSync, Work
  <2> QED
    BY <1>1, <1>3, Before, <2>1, AfterOf DEF Labels
<1> QED
  BY <1>4 DEF StartSync, After

LEMMA SyncReadDoes ==
    ASSUME TypeOK, NEW w \in Workers, SyncRead(w)
    PROVE  /\ After(w, "write", running[w], left[w], togo[w], refused[w], tally[w], nodeDB[Head(left[w])])
           /\ wpc[w] = "sync" /\ left[w] # <<>>
           /\ nodeDB' = nodeDB /\ copy' = copy /\ queue' = queue
<1>1. WorkerTypes /\ nodeDB \in [Radios -> Contents]
  BY TypesOf DEF OtherTypes
<1>2. left[w] # <<>> /\ nodeDB[Head(left[w])] \in Contents
  BY <1>1, Before, TailOf DEF SyncRead, AtSync
<1>3. After(w, "write", running[w], left[w], togo[w], refused[w], tally[w], nodeDB[Head(left[w])])
  <2>1. Sets(w, "write", running[w], left[w], togo[w], refused[w], tally[w], nodeDB[Head(left[w])])
    BY <1>1, <1>2, Before DEF Sets, SyncRead, Work
  <2> QED
    BY <1>1, <1>2, Before, <2>1, AfterOf DEF Labels
<1> QED
  BY <1>2, <1>3 DEF SyncRead, AtSync

LEMMA SyncFailsDoes ==
    ASSUME TypeOK, NEW w \in Workers, SyncFails(w)
    PROVE  /\ Own(w) /\ wpc'[w] = "sync" /\ tally'[w].failed
           /\ nodeDB' = nodeDB /\ copy' = copy /\ queue' = queue
<1>1. WorkerTypes
  BY TypesOf
<1>2. Tail(left[w]) \in Seq(Radios)
  BY <1>1, Before, TailOf DEF SyncFails, AtSync
<1>3. PICK results : results = [tally[w] EXCEPT !.failed = TRUE]
  OBVIOUS
<1>4. results \in Tally /\ results.failed
  BY <1>1, <1>3, Before DEF Tally
<1>5. Sets(w, "sync", running[w], Tail(left[w]), togo[w], refused[w], results, snapshot[w])
  <2>1. tally' = [tally EXCEPT ![w] = results]
    BY <1>3 DEF SyncFails
  <2>2. left' = [left EXCEPT ![w] = Tail(left[w])]
    BY DEF SyncFails
  <2>3. /\ wpc' = [wpc EXCEPT ![w] = "sync"]
        /\ running' = running /\ togo' = togo /\ refused' = refused /\ snapshot' = snapshot
    BY DEF SyncFails, Work
  <2> QED
    BY <1>1, <2>1, <2>2, <2>3, Before DEF Sets
<1>6. After(w, "sync", running[w], Tail(left[w]), togo[w], refused[w], results, snapshot[w])
  <2>1. results \in Tally /\ "sync" \in Labels
    BY <1>4 DEF Labels
  <2>2. /\ running[w] \in Job /\ togo[w] \in SUBSET Peers
        /\ refused[w] \in BOOLEAN /\ snapshot[w] \in Contents
    BY <1>1, Before
  <2> QED
    BY <1>1, <1>2, <1>5, <2>1, <2>2, AfterOf
<1> QED
  BY <1>4, <1>6 DEF SyncFails, After

LEMMA SyncWriteDoes ==
    ASSUME TypeOK, NEW w \in Workers, SyncWrite(w), left[w] # <<>>
    PROVE  /\ After(w, "sync", running[w], Tail(left[w]), togo[w], refused[w], tally[w], Nothing)
           /\ copy' \in [Radios -> Contents] /\ Head(left[w]) \in Radios
           /\ \A r \in Radios : copy'[r] = IF r = Head(left[w]) THEN snapshot[w] ELSE copy[r]
           /\ nodeDB' = nodeDB /\ queue' = queue
<1>1. WorkerTypes /\ copy \in [Radios -> Contents]
  BY TypesOf DEF OtherTypes
<1>2. Tail(left[w]) \in Seq(Radios) /\ Head(left[w]) \in Radios
  BY <1>1, Before, TailOf
<1>3. left' = [left EXCEPT ![w] = Tail(left[w])]
  BY <1>1 DEF SyncWrite, WorkerTypes
<1>4. After(w, "sync", running[w], Tail(left[w]), togo[w], refused[w], tally[w], Nothing)
  <2>1. Sets(w, "sync", running[w], Tail(left[w]), togo[w], refused[w], tally[w], Nothing)
    BY <1>1, <1>3, Before DEF Sets, SyncWrite, Work
  <2>2. Nothing \in Contents /\ "sync" \in Labels
    BY Empty DEF Labels
  <2>3. /\ running[w] \in Job /\ togo[w] \in SUBSET Peers
        /\ refused[w] \in BOOLEAN /\ tally[w] \in Tally
    BY <1>1, Before
  <2> QED
    BY <1>1, <1>2, <2>1, <2>2, <2>3, AfterOf
<1>5. /\ copy' \in [Radios -> Contents]
      /\ \A r \in Radios : copy'[r] = IF r = Head(left[w]) THEN snapshot[w] ELSE copy[r]
  BY <1>1, <1>2, Before DEF SyncWrite
<1> QED
  BY <1>2, <1>4, <1>5 DEF SyncWrite

\* What the radio at hand becomes, and the target it is about.
LEMMA ChangedOf ==
    ASSUME NEW d \in Contents, NEW action \in Actions, NEW p \in Peers
    PROVE  /\ Changed(d, action, p) \in Contents
           /\ AsWanted(Changed(d, action, p), action, p)
           /\ Touched(d, Changed(d, action, p)) \subseteq {p}
           /\ Changed(d, action, p).near \subseteq d.near
           /\ action = "set_favorite" =>
                 /\ Changed(d, action, p).seen = d.seen
                 /\ Changed(d, action, p).fav = d.fav \cup ({p} \cap d.seen)
           /\ action = "remove_favorite" =>
                 /\ Changed(d, action, p).seen = d.seen
                 /\ Changed(d, action, p).fav = d.fav \ {p}
<1>1. /\ d.seen \in SUBSET Peers /\ d.near \in SUBSET Peers /\ d.fav \in SUBSET Peers
      /\ d.near \subseteq d.seen /\ d.fav \subseteq d.seen
  BY DEF Contents
<1>2. CASE action = "set_favorite"
  <2>1. PICK e : e = Changed(d, action, p)
    OBVIOUS
  <2>2. e \in Contents /\ e.seen = d.seen /\ e.near = d.near /\ e.fav = d.fav \cup ({p} \cap d.seen)
    BY <1>1, <1>2, <2>1 DEF Changed, Contents
  <2>3. AsWanted(e, action, p) /\ Touched(d, e) \subseteq {p}
    BY <1>1, <1>2, <2>2 DEF AsWanted, Touched
  <2> QED
    BY <1>2, <2>1, <2>2, <2>3
<1>3. CASE action = "remove_favorite"
  <2>1. PICK e : e = Changed(d, action, p)
    OBVIOUS
  <2>2. e \in Contents /\ e.seen = d.seen /\ e.near = d.near /\ e.fav = d.fav \ {p}
    BY <1>1, <1>3, <2>1 DEF Changed, Contents
  <2>3. AsWanted(e, action, p) /\ Touched(d, e) \subseteq {p}
    BY <1>1, <1>3, <2>2 DEF AsWanted, Touched
  <2> QED
    BY <1>3, <2>1, <2>2, <2>3
<1>4. CASE action = "remove_node"
  <2>1. PICK e : e = Changed(d, action, p)
    OBVIOUS
  <2>2. /\ e \in Contents /\ e.seen = d.seen \ {p} /\ e.near = d.near \ {p}
        /\ e.fav = d.fav \ {p}
    BY <1>1, <1>4, <2>1 DEF Changed, Contents
  <2>3. AsWanted(e, action, p) /\ Touched(d, e) \subseteq {p}
    BY <1>1, <1>4, <2>2 DEF AsWanted, Touched
  <2> QED
    BY <1>4, <2>1, <2>2, <2>3
<1> QED
  BY <1>2, <1>3, <1>4 DEF Actions

\* One target p of thread w: what the answer was, what the radio has.
Mutates(w, p, outcome) ==
    /\ wpc[w] = "target" /\ p \in togo[w]
    /\ After(w, "target", running[w], left[w], togo[w] \ {p}, refused[w] \/ outcome # "ack", tally[w], snapshot[w])
    /\ copy' = copy /\ queue' = queue
    /\ IF outcome = "nack" \/ running[w].dry THEN nodeDB' = nodeDB
       ELSE nodeDB' = [nodeDB EXCEPT ![Head(left[w])] = Changed(nodeDB[Head(left[w])], running[w].action, p)]

LEMMA MutateDoes ==
    ASSUME TypeOK, NEW w \in Workers, Mutate(w)
    PROVE  \E p \in Peers, outcome \in {"ack", "nack", "lost"} : Mutates(w, p, outcome)
<1>1. WorkerTypes /\ nodeDB \in [Radios -> Contents]
  BY TypesOf DEF OtherTypes
<1>2. togo[w] # {}
  BY DEF Mutate
<1>3. PICK p \in togo[w] : p = Head(InOrder(togo[w]))
  BY <1>1, <1>2, Before, InOrderOf
<1>4. PICK outcome \in {"ack", "nack", "lost"} :
        /\ wpc[w] = "target"
        /\ nodeDB' = IF outcome = "nack" \/ running[w].dry THEN nodeDB
                     ELSE [nodeDB EXCEPT ![Head(left[w])] = Changed(@, running[w].action, p)]
        /\ refused' = [refused EXCEPT ![w] = @ \/ outcome # "ack"]
        /\ togo' = [togo EXCEPT ![w] = @ \ {p}]
        /\ Work(w, "target")
        /\ UNCHANGED <<copy, queue, running, left, tally, snapshot>>
  BY <1>3 DEF Mutate
<1>5. (refused[w] \/ outcome # "ack") \in BOOLEAN /\ togo[w] \ {p} \in SUBSET Peers
  BY <1>1, Before
<1>6. /\ refused' = [refused EXCEPT ![w] = (refused[w] \/ outcome # "ack")]
      /\ togo' = [togo EXCEPT ![w] = togo[w] \ {p}]
  BY <1>1, <1>4 DEF WorkerTypes
<1>7. After(w, "target", running[w], left[w], togo[w] \ {p}, refused[w] \/ outcome # "ack", tally[w], snapshot[w])
  <2>1. Sets(w, "target", running[w], left[w], togo[w] \ {p}, refused[w] \/ outcome # "ack", tally[w], snapshot[w])
    BY <1>1, <1>4, <1>5, <1>6, Before DEF Sets, Work
  <2> QED
    BY <1>1, <1>4, <1>5, <1>6, Before, <2>1, AfterOf DEF Labels
<1>8. IF outcome = "nack" \/ running[w].dry THEN nodeDB' = nodeDB
      ELSE nodeDB' = [nodeDB EXCEPT ![Head(left[w])] = Changed(nodeDB[Head(left[w])], running[w].action, p)]
  BY <1>4
<1>9. p \in Peers
  BY <1>1, Before
<1> QED
  BY <1>4, <1>7, <1>8, <1>9 DEF Mutates

-----------------------------------------------------------------------------
(* What a target is made, and stays with the history of its thread.        *)

LEMMA ReachOf ==
    ASSUME TypeOK, WorkerTypes', OtherTypes', Reach
    PROVE  /\ reached' \in [Workers -> SUBSET Peers]
           /\ \A w \in Workers : wpc'[w] = "target" => reached[w] \subseteq reached'[w]
           /\ \A w \in Workers : wpc'[w] = "target" =>
                 \A p \in TargetsOn(w, Head(left[w])) :
                    AsWanted(nodeDB'[Head(left[w])], running[w].action, p) => p \in reached'[w]
<1>1. WorkerTypes /\ reached \in [Workers -> SUBSET Peers]
  BY TypesOf DEF HistoryTypes
<1>2. \A w \in Workers : TargetsOn(w, Head(left[w])) \in SUBSET Peers
  BY <1>1, TargetsOf
<1>3. \A w \in Workers : reached'[w] =
         IF wpc'[w] # "target" THEN {}
         ELSE reached[w] \cup {p \in TargetsOn(w, Head(left[w])) :
                                  AsWanted(nodeDB'[Head(left[w])], running[w].action, p)}
  BY DEF Reach
<1>4. reached' = [w \in Workers |-> reached'[w]]
  BY DEF Reach
<1>5. \A w \in Workers : reached'[w] \in SUBSET Peers
  BY <1>1, <1>2, <1>3
<1> QED
  BY <1>3, <1>4, <1>5

\* What the step of another thread, or of no thread, leaves.
LEMMA Untouched ==
    ASSUME TypeOK, WorkerTypes', OtherTypes', Reach, NEW v \in Workers, Same(v), Busy(v)
    PROVE  Busy(v)'
<1>1. \A r : TargetsOn(v, r)' = TargetsOn(v, r)
  BY DEF Same, TargetsOn
<1>2. wpc'[v] = "target" => reached[v] \subseteq reached'[v]
  BY ReachOf
<1> QED
  BY <1>1, <1>2 DEF Same, Busy

LEMMA OwnSteps ==
    ASSUME TypeOK, BusyInv, NEW w \in Workers, Own(w), OtherTypes', Reach, Busy(w)'
    PROVE  BusyInv'
<1>1. ASSUME NEW v \in Workers PROVE Busy(v)'
  <2>1. CASE v = w
    BY <2>1
  <2>2. CASE v # w
    BY <2>2, Untouched DEF Own, BusyInv
  <2> QED
    BY <2>1, <2>2
<1> QED
  BY <1>1 DEF BusyInv

\* No thread does anything.
Resting == wpc' = wpc /\ running' = running /\ left' = left /\ togo' = togo
           /\ refused' = refused /\ tally' = tally /\ snapshot' = snapshot

LEMMA Rests ==
    ASSUME TypeOK, BusyInv, Resting, OtherTypes', Reach
    PROVE  WorkerTypes' /\ BusyInv'
<1>1. WorkerTypes'
  BY TypesOf DEF Resting, WorkerTypes
<1>2. \A v \in Workers : Same(v)
  BY DEF Resting, Same
<1> QED
  BY <1>1, <1>2, Untouched DEF BusyInv

\* Each action of a thread keeps the types and what is known of its job.
Stays(w) == WorkerTypes' /\ OtherTypes' /\ BusyInv'

LEMMA BusyStep ==
    ASSUME Inv, NEW w \in Workers, JobStep(w), Reach
    PROVE  Own(w) /\ Stays(w)
<1>1. TypeOK /\ BusyInv /\ WorkerTypes /\ OtherTypes /\ Busy(w) /\ left[w] \in Seq(Radios)
  BY TypesOf, Before DEF Inv, BusyInv
<1>2. ASSUME Own(w), OtherTypes', Busy(w)' PROVE Own(w) /\ Stays(w)
  BY <1>1, <1>2, OwnSteps DEF Stays, Own
<1>3. events' = events /\ requests' = requests /\ fetched' = fetched
  BY DEF JobStep, Start, SkipDest, Connect, ConnectFails, Mutate, DestDone, JobDone, StartSync,
         SyncRead, SyncFails, SyncWrite, SyncDone, Record, Finish, Work
<1>4. ASSUME nodeDB' = nodeDB, copy' = copy, queue' = queue PROVE OtherTypes'
  BY <1>1, <1>3, <1>4 DEF OtherTypes
<1>5. CASE Start(w)
  <2>1. OtherTypes'
    BY <1>1, <1>3, <1>5, StartDoes DEF OtherTypes
  <2>2. Busy(w)'
    BY <1>1, <1>5, StartDoes DEF After, Busy
  <2> QED
    BY <1>1, <1>2, <1>5, <2>1, <2>2, StartDoes DEF After
<1>6. ASSUME NEW failed \in BOOLEAN, Record(w, failed), left[w] # <<>>,
             ToSet(left[w]) \subseteq running[w].dests
      PROVE  Own(w) /\ Stays(w)
  <2>1. After(w, "dest", running[w], Tail(left[w]), {}, FALSE, Results(w, failed), snapshot[w])
    BY <1>1, <1>6, RecordDoes
  <2>2. OtherTypes'
    BY <1>1, <1>4, <1>6, RecordDoes
  <2>3. ToSet(Tail(left[w])) \subseteq ToSet(left[w])
    BY <1>1, <1>6, TailOf
  <2>4. Busy(w)'
    BY <1>6, <2>1, <2>3 DEF After, Busy
  <2> QED
    BY <1>2, <2>1, <2>2, <2>4 DEF After
<1>7. CASE SkipDest(w) \/ ConnectFails(w)
  BY <1>1, <1>6, <1>7 DEF SkipDest, ConnectFails, AtDest, Busy
<1>8. CASE DestDone(w)
  <2>1. PICK commit : Record(w, refused[w] \/ commit # "ok")
    BY <1>8 DEF DestDone
  <2>2. (refused[w] \/ commit # "ok") \in BOOLEAN
    BY <1>1, Before
  <2>3. left[w] # <<>> /\ ToSet(left[w]) \subseteq running[w].dests
    BY <1>1, <1>8 DEF DestDone, Busy
  <2> QED
    BY <1>6, <2>1, <2>2, <2>3
<1>9. CASE Connect(w)
  <2>1. OtherTypes'
    BY <1>1, <1>4, <1>9, ConnectDoes
  <2>2. /\ wpc'[w] = "target" /\ running'[w] = running[w] /\ left'[w] = left[w]
        /\ togo'[w] = TargetsOn(w, Head(left[w])) /\ wpc[w] = "dest" /\ left[w] # <<>> /\ Own(w)
    BY <1>1, <1>9, ConnectDoes DEF After
  <2>3. \A r : TargetsOn(w, r)' = TargetsOn(w, r)
    BY <2>2 DEF TargetsOn
  <2>4. Busy(w)'
    BY <1>1, <2>2, <2>3 DEF Busy
  <2> QED
    BY <1>2, <2>1, <2>2, <2>4
<1>10. CASE Mutate(w)
  <2>1. PICK p \in Peers, outcome \in {"ack", "nack", "lost"} : Mutates(w, p, outcome)
    BY <1>1, <1>10, MutateDoes
  <2> DEFINE r == Head(left[w])
  <2>2. /\ wpc[w] = "target" /\ wpc'[w] = "target" /\ p \in togo[w] /\ Own(w)
        /\ running'[w] = running[w] /\ left'[w] = left[w] /\ togo'[w] = togo[w] \ {p}
        /\ refused'[w] = (refused[w] \/ outcome # "ack") /\ copy' = copy /\ queue' = queue
    BY <2>1 DEF Mutates, After
  <2>3. r \in Radios /\ running[w].action \in Actions /\ nodeDB[r] \in Contents
    BY <1>1, <2>2, TailOf, Before, JobOf DEF Busy, OtherTypes
  <2>4. Changed(nodeDB[r], running[w].action, p) \in Contents
    BY <2>3, ChangedOf
  <2>5. nodeDB' \in [Radios -> Contents]
    BY <1>1, <2>1, <2>3, <2>4 DEF Mutates, OtherTypes
  <2>6. OtherTypes'
    BY <1>1, <1>3, <2>2, <2>5 DEF OtherTypes
  <2>7. \A q : TargetsOn(w, q)' = TargetsOn(w, q)
    BY <2>2 DEF TargetsOn
  <2>8. ASSUME ~refused'[w], ~running[w].dry
        PROVE  ~refused[w] /\ p \in reached'[w]
    <3>1. ~refused[w] /\ outcome = "ack"
      BY <2>2, <2>8
    <3>2. nodeDB'[r] = Changed(nodeDB[r], running[w].action, p)
      BY <1>1, <2>1, <2>3, <2>8, <3>1 DEF Mutates, OtherTypes
    <3>3. AsWanted(nodeDB'[r], running[w].action, p)
      BY <2>3, <3>2, ChangedOf
    <3>4. p \in TargetsOn(w, r)
      BY <1>1, <2>2 DEF Busy
    <3>5. WorkerTypes'
      BY <2>2 DEF Own
    <3> QED
      BY <1>1, <2>2, <2>6, <3>1, <3>3, <3>4, <3>5, ReachOf
  <2>9. reached[w] \subseteq reached'[w]
    BY <1>1, <2>2, <2>6, ReachOf DEF Own
  <2>10. Busy(w)'
    BY <1>1, <2>2, <2>7, <2>8, <2>9 DEF Busy
  <2> QED
    BY <1>2, <2>2, <2>6, <2>10
<1>11. CASE JobDone(w) \/ SyncDone(w)
  <2>1. Finish(w)
    BY <1>11 DEF JobDone, SyncDone
  <2>2. OtherTypes'
    BY <1>1, <1>4, <2>1, FinishDoes
  <2>3. Own(w) /\ wpc'[w] = "idle"
    BY <1>1, <2>1, FinishDoes DEF After
  <2>4. Busy(w)'
    BY <2>3 DEF Busy
  <2> QED
    BY <1>2, <2>2, <2>3, <2>4
<1>12. CASE StartSync(w)
  <2>1. OtherTypes' /\ Own(w) /\ wpc'[w] = "sync"
    BY <1>1, <1>4, <1>12, StartSyncDoes
  <2>2. Busy(w)'
    BY <2>1 DEF Busy
  <2> QED
    BY <1>2, <2>1, <2>2
<1>13. CASE SyncRead(w)
  <2>1. OtherTypes' /\ Own(w) /\ wpc'[w] = "write" /\ left'[w] # <<>>
    BY <1>1, <1>4, <1>13, SyncReadDoes DEF After
  <2>2. Busy(w)'
    BY <2>1 DEF Busy
  <2> QED
    BY <1>2, <2>1, <2>2
<1>14. CASE SyncFails(w)
  <2>1. OtherTypes' /\ Own(w) /\ wpc'[w] = "sync"
    BY <1>1, <1>4, <1>14, SyncFailsDoes
  <2>2. Busy(w)'
    BY <2>1 DEF Busy
  <2> QED
    BY <1>2, <2>1, <2>2
<1>15. CASE SyncWrite(w)
  <2>1. left[w] # <<>>
    BY <1>1, <1>15 DEF SyncWrite, Busy
  <2>2. /\ Own(w) /\ wpc'[w] = "sync" /\ copy' \in [Radios -> Contents]
        /\ nodeDB' = nodeDB /\ queue' = queue
    BY <1>1, <1>15, <2>1, SyncWriteDoes DEF After
  <2>3. OtherTypes'
    BY <1>1, <1>3, <2>2 DEF OtherTypes
  <2>4. Busy(w)'
    BY <2>2 DEF Busy
  <2> QED
    BY <1>2, <2>2, <2>3, <2>4
<1> QED
  BY <1>5, <1>7, <1>8, <1>9, <1>10, <1>11, <1>12, <1>13, <1>14, <1>15 DEF JobStep

-----------------------------------------------------------------------------
(* A refresh that nothing disturbs.                                        *)

\* It goes on being one, about the same radios and peers.
Continues ==
    /\ refresh' \in RefreshRecord
    /\ refresh'.on => /\ refresh.on /\ refresh'.dests = refresh.dests
                      /\ refresh'.roles = refresh.roles /\ refresh'.targets = refresh.targets

LEMMA TakenOf ==
    ASSUME refresh \in RefreshRecord, NEW S \in SUBSET Radios
    PROVE  /\ Taken(refresh, S) \in RefreshRecord /\ Taken(refresh, S).on = refresh.on
           /\ Taken(refresh, S).dests = refresh.dests /\ Taken(refresh, S).roles = refresh.roles
           /\ Taken(refresh, S).targets = refresh.targets
           /\ refresh.on => Taken(refresh, S).synced = S
BY DEF Taken, RefreshRecord

LEMMA StoredOf ==
    ASSUME refresh \in RefreshRecord, NEW radio \in Radios, NEW found
    PROVE  /\ Stored(refresh, radio, found) \in RefreshRecord
           /\ Stored(refresh, radio, found).on = refresh.on
           /\ Stored(refresh, radio, found).dests = refresh.dests
           /\ Stored(refresh, radio, found).roles = refresh.roles
           /\ Stored(refresh, radio, found).targets = refresh.targets
           /\ Stored(refresh, radio, found).synced = refresh.synced
           /\ refresh.late \ {radio} \subseteq Stored(refresh, radio, found).late
           /\ refresh.on /\ found # nodeDB[radio] => radio \in Stored(refresh, radio, found).late
BY DEF Stored, RefreshRecord

\* What a step of thread w makes of it.
Begins(w) == wpc[w] = "dest" /\ wpc'[w] = "sync"
LEMMA RefreshOf ==
    ASSUME Inv, NEW w \in Workers, JobStepRecorded(w), Reach
    PROVE  /\ Continues
           /\ refresh'.on => ~tally'[w].failed /\ ~refused'[w]
           /\ refresh'.on /\ Begins(w) => refresh'.synced = ToSet(left'[w])
           /\ refresh'.on /\ wpc[w] = "write" =>
                refresh' = Stored(refresh, Head(left[w]), snapshot[w])
           /\ refresh'.on /\ ~Begins(w) /\ wpc[w] # "write" => refresh' = refresh
<1>1. refresh \in RefreshRecord /\ Busy(w) /\ left[w] \in Seq(Radios)
  BY TypesOf, Before DEF Inv, HistoryTypes, BusyInv
<1>2. CASE Failed(w)
  <2>1. refresh' = NoRefresh
    BY <1>2 DEF JobStepRecorded
  <2> QED
    BY <2>1, Empty DEF Continues
<1>3. CASE ~Failed(w)
  <2>1. refresh' = CASE Begins(w) -> Taken(refresh, ToSet(left'[w]))
                     [] wpc[w] = "write" -> Stored(refresh, Head(left[w]), snapshot[w])
                     [] OTHER -> refresh
    BY <1>3 DEF JobStepRecorded, Begins
  <2>2. ~tally'[w].failed /\ ~refused'[w]
    BY <1>3 DEF Failed
  <2>3. CASE Begins(w)
    <3>1. refresh' = Taken(refresh, ToSet(left'[w])) /\ wpc[w] # "write"
      BY <2>1, <2>3 DEF Begins
    <3>2. left'[w] \in Seq(Radios)
      BY BusyStep DEF JobStepRecorded, Stays, WorkerTypes
    <3>3. ToSet(left'[w]) \in SUBSET Radios
      BY <3>2 DEF ToSet
    <3> QED
      BY <1>1, <2>2, <2>3, <3>1, <3>3, TakenOf DEF Continues
  <2>4. CASE wpc[w] = "write"
    <3>1. refresh' = Stored(refresh, Head(left[w]), snapshot[w]) /\ ~Begins(w)
      BY <2>1, <2>4 DEF Begins
    <3>2. Head(left[w]) \in Radios
      BY <1>1, <2>4, TailOf DEF Busy
    <3> QED
      BY <1>1, <2>2, <2>4, <3>1, <3>2, StoredOf DEF Continues
  <2>5. CASE ~Begins(w) /\ wpc[w] # "write"
    BY <1>1, <2>1, <2>2, <2>5 DEF Continues
  <2> QED
    BY <2>3, <2>4, <2>5
<1> QED
  BY <1>2, <1>3

\* What has still to come in a job goes on to come.
LEMMA ComingKept ==
    ASSUME NEW v \in Workers, Same(v), NEW r, NEW p, NEW action, Coming(v, r, p, action)
    PROVE  Coming(v, r, p, action)'
BY DEF Same, Coming

\* What thread w takes, it has still to do; what it leaves is done.
Hands(w) ==
    /\ ToSet(queue') \subseteq ToSet(queue)
    /\ wpc'[w] # "idle" => \/ running'[w] \in ToSet(queue)
                           \/ wpc[w] # "idle" /\ running'[w] = running[w]
    /\ \A r \in refresh.dests : \A p \in Peers \ {r} : \A action \in Actions :
          \/ Coming(w, r, p, action)
          \/ \E job \in ToSet(queue) \ ToSet(queue') : job.action = action /\ p \in job.targets
          => Coming(w, r, p, action)'

LEMMA PendingKept ==
    ASSUME NEW w \in Workers, Own(w), Hands(w), NEW r \in refresh.dests, NEW p \in Peers \ {r},
           NEW action \in Actions, Pending(r, p, action)
    PROVE  Pending(r, p, action)'
<1>1. ASSUME NEW job \in ToSet(queue), job.action = action, p \in job.targets
      PROVE  Pending(r, p, action)'
  BY <1>1 DEF Hands, Pending
<1>2. ASSUME NEW v \in Workers, Coming(v, r, p, action) PROVE Pending(r, p, action)'
  <2>1. Coming(v, r, p, action)'
    BY <1>2, ComingKept DEF Hands, Own
  <2> QED
    BY <2>1 DEF Pending
<1> QED
  BY <1>1, <1>2 DEF Pending

LEMMA OursKept ==
    ASSUME SettleInv, Continues, refresh'.on, NEW w \in Workers, Own(w), Hands(w)
    PROVE  OnlyOurs'
<1>1. /\ refresh.on /\ refresh'.dests = refresh.dests /\ refresh'.targets = refresh.targets
      /\ OnlyOurs
  BY DEF Continues, SettleInv
<1>2. \A job \in ToSet(queue') : Ours(job)'
  BY <1>1 DEF OnlyOurs, Ours, Hands
<1>3. ASSUME NEW v \in Workers, wpc'[v] # "idle" PROVE Ours(running[v])'
  <2>1. \/ running'[v] \in ToSet(queue)
        \/ wpc[v] # "idle" /\ running'[v] = running[v]
    BY <1>3 DEF Hands, Own, Same
  <2>2. PICK job : job = running'[v]
    OBVIOUS
  <2>3. Ours(job)
    BY <1>1, <2>1, <2>2 DEF OnlyOurs
  <2> QED
    BY <1>1, <2>2, <2>3 DEF Ours
<1> QED
  BY <1>2, <1>3 DEF OnlyOurs

LEMMA SettleKept ==
    ASSUME SettleInv, Continues, NEW w \in Workers, Own(w), nodeDB' = nodeDB,
           refresh.on /\ refresh'.on => Hands(w)
    PROVE  SettleInv'
<1> SUFFICES ASSUME refresh'.on
             PROVE  /\ OnlyOurs'
                    /\ refresh'.targets \subseteq refresh'.roles
                    /\ \A r \in refresh'.dests :
                          Promised(r)' /\ nodeDB'[r].near \cap refresh'.roles \subseteq refresh'.targets
  BY DEF SettleInv
<1>1. /\ refresh.on /\ refresh'.dests = refresh.dests /\ refresh'.targets = refresh.targets
      /\ refresh'.roles = refresh.roles /\ Hands(w)
  BY DEF Continues
<1>2. OnlyOurs'
  BY <1>1, OursKept
<1>3. ASSUME NEW r \in refresh.dests PROVE Promised(r)'
  <2> SUFFICES ASSUME NEW p \in Peers \ {r}
               PROVE  /\ p \in refresh'.targets \cap nodeDB'[r].seen /\ p \notin nodeDB'[r].fav =>
                            Pending(r, p, "set_favorite")'
                      /\ p \in nodeDB'[r].fav \cap refresh'.roles /\ p \notin refresh'.targets =>
                            Pending(r, p, "remove_favorite")'
    BY DEF Promised
  <2>1. Promised(r)
    BY <1>1 DEF SettleInv
  <2>2. \A action \in Actions : Pending(r, p, action) => Pending(r, p, action)'
    BY <1>1, PendingKept
  <2> QED
    BY <1>1, <2>1, <2>2 DEF Promised, Actions
<1>4. \A r \in refresh.dests : nodeDB[r].near \cap refresh.roles \subseteq refresh.targets
  BY <1>1 DEF SettleInv
<1>5. refresh.targets \subseteq refresh.roles
  BY <1>1 DEF SettleInv
<1> QED
  BY <1>1, <1>2, <1>3, <1>4, <1>5

\* Nothing is handed over.
LEMMA HandsOwn ==
    ASSUME NEW w \in Workers, queue' = queue,
           wpc'[w] # "idle" => wpc[w] # "idle" /\ running'[w] = running[w],
           \A r \in refresh.dests : \A p \in Peers \ {r} : \A action \in Actions :
              Coming(w, r, p, action) => Coming(w, r, p, action)'
    PROVE  Hands(w)
BY DEF Hands

\* A destination is over when nothing of it has still to come.
LEMMA RecordHands ==
    ASSUME TypeOK, NEW w \in Workers, NEW failed \in BOOLEAN, Record(w, failed), left[w] # <<>>,
           wpc[w] # "idle",
           \A r \in refresh.dests : \A p \in Peers \ {r} : \A action \in Actions :
              Coming(w, r, p, action) => r # Head(left[w])
    PROVE  Hands(w)
<1>1. left[w] \in Seq(Radios)
  BY TypesOf, Before
<1>2. /\ wpc'[w] = "dest" /\ running'[w] = running[w] /\ left'[w] = Tail(left[w])
      /\ queue' = queue
  BY RecordDoes DEF After
<1>3. ToSet(left[w]) = ToSet(Tail(left[w])) \cup {Head(left[w])}
  BY <1>1, TailOf
<1>4. ASSUME NEW r \in refresh.dests, NEW p \in Peers \ {r}, NEW action \in Actions,
             Coming(w, r, p, action)
      PROVE  Coming(w, r, p, action)'
  BY <1>2, <1>3, <1>4 DEF Coming
<1> QED
  BY <1>2, <1>4, HandsOwn

LEMMA StartHands ==
    ASSUME TypeOK, SettleInv, refresh.on, NEW w \in Workers, Start(w)
    PROVE  Hands(w)
<1>1. /\ After(w, "dest", Head(queue), InOrder(Head(queue).dests), togo[w], refused[w], tally[w], snapshot[w])
      /\ wpc[w] = "idle" /\ ToSet(queue) = ToSet(queue') \cup {Head(queue)}
      /\ ToSet(InOrder(Head(queue).dests)) = Head(queue).dests
  BY StartDoes
<1>2. PICK job : job = Head(queue)
  OBVIOUS
<1>3. /\ wpc'[w] = "dest" /\ running'[w] = job /\ ToSet(left'[w]) = job.dests
      /\ ToSet(queue) = ToSet(queue') \cup {job}
  BY <1>1, <1>2 DEF After
<1>4. job.dests = refresh.dests
  BY <1>3 DEF SettleInv, OnlyOurs, Ours
<1>5. ASSUME NEW r \in refresh.dests, NEW p \in Peers \ {r}, NEW action \in Actions,
             NEW other \in ToSet(queue) \ ToSet(queue'), other.action = action, p \in other.targets
      PROVE  Coming(w, r, p, action)'
  <2>1. other = job
    BY <1>3
  <2> QED
    BY <1>3, <1>4, <1>5, <2>1 DEF Coming
<1>6. \A r, p, action : ~Coming(w, r, p, action)
  BY <1>1 DEF Coming
<1> QED
  BY <1>3, <1>5, <1>6 DEF Hands

LEMMA ConnectHands ==
    ASSUME TypeOK, NEW w \in Workers, Connect(w)
    PROVE  Hands(w)
<1>1. /\ wpc'[w] = "target" /\ running'[w] = running[w] /\ left'[w] = left[w]
      /\ togo'[w] = TargetsOn(w, Head(left[w])) /\ wpc[w] = "dest" /\ queue' = queue
  BY ConnectDoes DEF After
<1>2. \A p \in running[w].targets \ {Head(left[w])} : p \in TargetsOn(w, Head(left[w]))
  BY TypesOf, TargetsOf
<1>3. ASSUME NEW r \in refresh.dests, NEW p \in Peers \ {r}, NEW action \in Actions,
             Coming(w, r, p, action)
      PROVE  Coming(w, r, p, action)'
  BY <1>1, <1>2, <1>3 DEF Coming
<1> QED
  BY <1>1, <1>3, HandsOwn

\* Nothing has still to come in a job that is done or synchronises.
LEMMA NoneHands ==
    ASSUME NEW w \in Workers, queue' = queue,
           wpc[w] \in {"idle", "sync", "write"} \/ left[w] = <<>>,
           wpc'[w] # "idle" => wpc[w] # "idle" /\ running'[w] = running[w]
    PROVE  Hands(w)
<1>1. \A r, p, action : ~Coming(w, r, p, action)
  BY Empty DEF Coming
<1> QED
  BY <1>1, HandsOwn

\* What an undisturbed step may change of a radio.
LEMMA MutateSettles ==
    ASSUME Inv, NEW w \in Workers, Mutate(w), Continues, refresh'.on => ~refused'[w]
    PROVE  SettleInv'
<1> SUFFICES ASSUME refresh'.on
             PROVE  /\ OnlyOurs'
                    /\ refresh'.targets \subseteq refresh'.roles
                    /\ \A r \in refresh'.dests :
                          Promised(r)' /\ nodeDB'[r].near \cap refresh'.roles \subseteq refresh'.targets
  BY DEF SettleInv
<1>1. /\ refresh.on /\ refresh'.dests = refresh.dests /\ refresh'.targets = refresh.targets
      /\ refresh'.roles = refresh.roles /\ ~refused'[w]
  BY DEF Continues
<1>2. /\ TypeOK /\ WorkerTypes /\ nodeDB \in [Radios -> Contents] /\ Busy(w) /\ SettleInv
      /\ refresh.dests \subseteq Radios
  BY TypesOf DEF Inv, OtherTypes, BusyInv, HistoryTypes, RefreshRecord
<1>3. PICK q \in Peers, outcome \in {"ack", "nack", "lost"} : Mutates(w, q, outcome)
  BY <1>2, MutateDoes
<1>4. PICK s : s = Head(left[w])
  OBVIOUS
<1>5. PICK action : action = running[w].action
  OBVIOUS
<1>6. /\ wpc[w] = "target" /\ wpc'[w] = "target" /\ q \in togo[w] /\ Own(w)
      /\ running'[w] = running[w] /\ left'[w] = left[w] /\ togo'[w] = togo[w] \ {q}
      /\ refused'[w] = (refused[w] \/ outcome # "ack") /\ queue' = queue
  BY <1>3 DEF Mutates, After
<1>7. /\ Ours(running[w]) /\ s \in Radios /\ action \in {"set_favorite", "remove_favorite"}
      /\ action = "set_favorite" => running[w].targets = refresh.targets
      /\ action = "remove_favorite" => running[w].targets \cap refresh.targets = {}
      /\ q \in running[w].targets /\ nodeDB[s] \in Contents /\ action \in Actions
  <2>1. Ours(running[w])
    BY <1>1, <1>2, <1>6 DEF SettleInv, OnlyOurs
  <2>2. s \in Radios
    BY <1>2, <1>4, <1>6, Before, TailOf DEF Busy
  <2>3. q \in running[w].targets
    BY <1>2, <1>6, TargetsOf DEF Busy
  <2> QED
    BY <1>2, <1>5, <2>1, <2>2, <2>3 DEF Ours, Actions
<1>8. \A r \in Radios : nodeDB'[r] = IF r = s THEN Changed(nodeDB[s], action, q) ELSE nodeDB[r]
  <2>1. ~running[w].dry /\ outcome = "ack"
    BY <1>1, <1>6, <1>7 DEF Ours
  <2>2. nodeDB' = [nodeDB EXCEPT ![s] = Changed(nodeDB[s], action, q)]
    BY <1>3, <1>4, <1>5, <2>1 DEF Mutates
  <2> QED
    BY <1>2, <2>2
<1>9. \A r \in Radios :
        /\ nodeDB'[r].near \subseteq nodeDB[r].near /\ nodeDB'[r].seen = nodeDB[r].seen
        /\ r # s => nodeDB'[r].fav = nodeDB[r].fav
        /\ action = "set_favorite" => nodeDB'[s].fav = nodeDB[s].fav \cup ({q} \cap nodeDB[s].seen)
        /\ action = "remove_favorite" => nodeDB'[s].fav = nodeDB[s].fav \ {q}
  BY <1>7, <1>8, ChangedOf
<1>10. ASSUME NEW r \in refresh.dests, NEW p \in Peers \ {r}, NEW a \in Actions, Pending(r, p, a),
              ~(r = s /\ p = q /\ a = action)
       PROVE  Pending(r, p, a)'
  <2>1. CASE \E job \in ToSet(queue) : job.action = a /\ p \in job.targets
    BY <1>6, <2>1 DEF Pending
  <2>2. ASSUME NEW v \in Workers, Coming(v, r, p, a) PROVE Coming(v, r, p, a)'
    <3>1. CASE v = w
      BY <1>4, <1>5, <1>6, <1>10, <2>2, <3>1 DEF Coming
    <3>2. CASE v # w
      BY <1>6, <2>2, <3>2, ComingKept DEF Own
    <3> QED
      BY <3>1, <3>2
  <2> QED
    BY <1>10, <2>1, <2>2 DEF Pending
<1>11. ASSUME NEW r \in refresh.dests PROVE Promised(r)'
  <2> SUFFICES ASSUME NEW p \in Peers \ {r}
               PROVE  /\ p \in refresh'.targets \cap nodeDB'[r].seen /\ p \notin nodeDB'[r].fav =>
                            Pending(r, p, "set_favorite")'
                      /\ p \in nodeDB'[r].fav \cap refresh'.roles /\ p \notin refresh'.targets =>
                            Pending(r, p, "remove_favorite")'
    BY DEF Promised
  <2>1. Promised(r)
    BY <1>1, <1>2 DEF SettleInv
  <2>2. r \in Radios /\ "set_favorite" \in Actions /\ "remove_favorite" \in Actions
    BY <1>2 DEF Actions
  <2>3. ASSUME p \in refresh.targets, p \in nodeDB'[r].seen, p \notin nodeDB'[r].fav
        PROVE  Pending(r, p, "set_favorite")'
    <3>1. p \in nodeDB[r].seen /\ p \notin nodeDB[r].fav
      BY <1>7, <1>9, <2>2, <2>3
    <3>2. Pending(r, p, "set_favorite")
      BY <2>1, <2>3, <3>1 DEF Promised
    <3>3. ~(r = s /\ p = q /\ action = "set_favorite")
      BY <1>9, <2>2, <2>3
    <3> QED
      BY <1>10, <2>2, <3>2, <3>3
  <2>4. ASSUME p \in nodeDB'[r].fav, p \in refresh.roles, p \notin refresh.targets
        PROVE  Pending(r, p, "remove_favorite")'
    <3>1. p \in nodeDB[r].fav
      BY <1>7, <1>9, <2>2, <2>4
    <3>2. Pending(r, p, "remove_favorite")
      BY <2>1, <2>4, <3>1 DEF Promised
    <3>3. ~(r = s /\ p = q /\ action = "remove_favorite")
      BY <1>9, <2>2, <2>4
    <3> QED
      BY <1>10, <2>2, <3>2, <3>3
  <2> QED
    BY <1>1, <2>3, <2>4
<1>12. OnlyOurs'
  <2>1. OnlyOurs
    BY <1>1, <1>2 DEF SettleInv
  <2>2. \A job \in ToSet(queue') : Ours(job)'
    BY <1>1, <1>6, <2>1 DEF OnlyOurs, Ours
  <2>3. \A v \in Workers : running'[v] = running[v] /\ (wpc'[v] # "idle" => wpc[v] # "idle")
    BY <1>6 DEF Own, Same
  <2>4. \A v \in Workers : wpc'[v] # "idle" => Ours(running[v])'
    BY <1>1, <2>1, <2>3 DEF OnlyOurs, Ours
  <2> QED
    BY <2>2, <2>4 DEF OnlyOurs
<1>13. \A r \in refresh.dests : nodeDB'[r].near \cap refresh.roles \subseteq refresh.targets
  <2>1. \A r \in refresh.dests : nodeDB[r].near \cap refresh.roles \subseteq refresh.targets
    BY <1>1, <1>2 DEF SettleInv
  <2> QED
    BY <1>2, <1>9, <2>1
<1>14. refresh.targets \subseteq refresh.roles
  BY <1>1, <1>2 DEF SettleInv
<1> QED
  BY <1>1, <1>11, <1>12, <1>13, <1>14

LEMMA SettleStep ==
    ASSUME Inv, NEW w \in Workers, JobStepRecorded(w), Reach
    PROVE  SettleInv'
<1>1. TypeOK /\ SettleInv /\ Busy(w) /\ WorkerTypes /\ left[w] \in Seq(Radios)
  BY TypesOf, Before DEF Inv, BusyInv
<1>2. JobStep(w) /\ Own(w)
  BY BusyStep DEF JobStepRecorded
<1>3. Continues /\ (refresh'.on => ~tally'[w].failed /\ ~refused'[w])
  BY RefreshOf
<1>4. CASE Mutate(w)
  BY <1>3, <1>4, MutateSettles
<1>5. ASSUME nodeDB' = nodeDB, refresh.on /\ refresh'.on => Hands(w) PROVE SettleInv'
  BY <1>1, <1>2, <1>3, <1>5, SettleKept
<1>6. CASE Start(w)
  BY <1>1, <1>5, <1>6, StartHands, StartDoes
<1>7. CASE Connect(w)
  BY <1>1, <1>5, <1>7, ConnectHands, ConnectDoes
<1>8. CASE SkipDest(w)
  <2>1. Record(w, FALSE) /\ left[w] # <<>> /\ wpc[w] = "dest" /\ TargetsOn(w, Head(left[w])) = {}
    BY <1>8 DEF SkipDest, AtDest
  <2>2. \A p \in running[w].targets \ {Head(left[w])} : p \in TargetsOn(w, Head(left[w]))
    BY <1>1, TargetsOf
  <2>3. \A r \in refresh.dests : \A p \in Peers \ {r} : \A action \in Actions :
           Coming(w, r, p, action) => r # Head(left[w])
    BY <2>1, <2>2 DEF Coming
  <2>4. Hands(w) /\ nodeDB' = nodeDB
    BY <1>1, <2>1, <2>3, RecordHands, RecordDoes
  <2> QED
    BY <1>5, <2>4
<1>9. CASE ConnectFails(w)
  <2>1. Record(w, TRUE) /\ left[w] # <<>>
    BY <1>9 DEF ConnectFails, AtDest
  <2>2. tally'[w].failed /\ nodeDB' = nodeDB
    BY <1>1, <2>1, RecordDoes
  <2> QED
    BY <1>3, <1>5, <2>2
<1>10. CASE DestDone(w)
  <2>1. PICK failed \in BOOLEAN : Record(w, failed)
    <3>1. PICK commit : Record(w, refused[w] \/ commit # "ok")
      BY <1>10 DEF DestDone
    <3>2. (refused[w] \/ commit # "ok") \in BOOLEAN
      BY <1>1, Before
    <3> QED
      BY <3>1, <3>2
  <2>2. left[w] # <<>> /\ wpc[w] = "target" /\ togo[w] = {}
    BY <1>1, <1>10 DEF DestDone, Busy
  <2>3. \A r \in refresh.dests : \A p \in Peers \ {r} : \A action \in Actions :
           Coming(w, r, p, action) => r # Head(left[w])
    BY <2>2 DEF Coming
  <2>4. Hands(w) /\ nodeDB' = nodeDB
    BY <1>1, <2>1, <2>2, <2>3, RecordHands, RecordDoes
  <2> QED
    BY <1>5, <2>4
<1>11. CASE JobDone(w) \/ SyncDone(w)
  <2>1. Finish(w) /\ left[w] = <<>>
    BY <1>11 DEF JobDone, SyncDone
  <2>2. wpc'[w] = "idle" /\ queue' = queue /\ nodeDB' = nodeDB
    BY <1>1, <2>1, FinishDoes DEF After
  <2> QED
    BY <1>5, <2>1, <2>2, NoneHands
<1>12. CASE StartSync(w)
  <2>1. /\ wpc[w] = "dest" /\ left[w] = <<>> /\ queue' = queue /\ nodeDB' = nodeDB
        /\ running'[w] = running[w]
    BY <1>1, <1>12, StartSyncDoes DEF After
  <2> QED
    BY <1>5, <2>1, NoneHands
<1>13. CASE SyncRead(w)
  <2>1. /\ wpc[w] = "sync" /\ queue' = queue /\ nodeDB' = nodeDB /\ running'[w] = running[w]
    BY <1>1, <1>13, SyncReadDoes DEF After
  <2> QED
    BY <1>5, <2>1, NoneHands
<1>14. CASE SyncFails(w)
  BY <1>1, <1>3, <1>5, <1>14, SyncFailsDoes
<1>15. CASE SyncWrite(w)
  <2>1. left[w] # <<>> /\ wpc[w] = "write"
    BY <1>1, <1>15 DEF SyncWrite, Busy
  <2>2. queue' = queue /\ nodeDB' = nodeDB /\ running'[w] = running[w]
    BY <1>1, <1>15, <2>1, SyncWriteDoes DEF After
  <2> QED
    BY <1>5, <2>1, <2>2, NoneHands
<1> QED
  BY <1>2, <1>4, <1>6, <1>7, <1>8, <1>9, <1>10, <1>11, <1>12, <1>13, <1>14, <1>15 DEF JobStep

-----------------------------------------------------------------------------
(* The synchronisations of a refresh whose jobs run one after the other.   *)

\* What the step of thread w makes of a radio that the others do not synchronise.
LEMMA ShowStep ==
    ASSUME Inv, NEW w \in Workers, JobStepRecorded(w), Reach
    PROVE  ShowInv'
<1> SUFFICES ASSUME refresh'.on, NEW r \in refresh'.dests PROVE Shown(r)'
  BY DEF ShowInv
<1>1. /\ TypeOK /\ Busy(w) /\ WorkerTypes /\ left[w] \in Seq(Radios) /\ JobStep(w) /\ Own(w)
      /\ refresh \in RefreshRecord
  BY TypesOf, Before, BusyStep DEF Inv, BusyInv, JobStepRecorded, HistoryTypes
<1>2. /\ ~tally'[w].failed /\ refresh.on /\ refresh'.dests = refresh.dests
      /\ Begins(w) => refresh'.synced = ToSet(left'[w])
      /\ wpc[w] = "write" => refresh' = Stored(refresh, Head(left[w]), snapshot[w])
      /\ ~Begins(w) /\ wpc[w] # "write" => refresh' = refresh
  BY RefreshOf DEF Continues
<1>3. r \in Radios /\ Shown(r) /\ (wpc[w] # "idle" => Ours(running[w]))
  BY <1>1, <1>2 DEF Inv, ShowInv, SettleInv, OnlyOurs, RefreshRecord
<1>4. ASSUME Syncs(w, r)' PROVE Shown(r)'
  BY <1>4 DEF Shown
<1>5. ASSUME NEW v \in Workers \ {w}, Syncs(v, r) PROVE Shown(r)'
  <2>1. Syncs(v, r)'
    BY <1>1, <1>5 DEF Own, Same, Syncs
  <2> QED
    BY <2>1 DEF Shown
<1>6. ASSUME copy'[r] = copy[r], nodeDB'[r] = nodeDB[r], ~Begins(w), wpc[w] # "write",
             Syncs(w, r) => Syncs(w, r)'
      PROVE  Shown(r)'
  <2>1. refresh' = refresh
    BY <1>2, <1>6
  <2> QED
    BY <1>3, <1>4, <1>5, <1>6, <2>1 DEF Shown
<1>7. ASSUME NEW failed \in BOOLEAN, Record(w, failed), left[w] # <<>> PROVE Shown(r)'
  <2>1. wpc'[w] = "dest" /\ tally'[w].ok
    BY <1>1, <1>2, <1>7, RecordDoes DEF After
  <2> QED
    BY <1>4, <2>1 DEF Syncs
<1>8. CASE Start(w)
  <2>1. wpc[w] = "idle" /\ wpc'[w] = "dest" /\ nodeDB' = nodeDB /\ copy' = copy
    BY <1>1, <1>8, StartDoes DEF After
  <2> QED
    BY <1>6, <2>1 DEF Syncs, Begins
<1>9. CASE SkipDest(w) \/ ConnectFails(w)
  BY <1>7, <1>9 DEF SkipDest, ConnectFails, AtDest
<1>10. CASE DestDone(w)
  <2>1. PICK commit : Record(w, refused[w] \/ commit # "ok")
    BY <1>10 DEF DestDone
  <2>2. (refused[w] \/ commit # "ok") \in BOOLEAN
    BY <1>1, Before
  <2>3. left[w] # <<>>
    BY <1>1, <1>10 DEF DestDone, Busy
  <2> QED
    BY <1>7, <2>1, <2>2, <2>3
<1>11. CASE Connect(w) \/ Mutate(w)
  <2>1. wpc'[w] = "target"
    BY <1>1, <1>11, ConnectDoes, MutateDoes DEF After, Mutates
  <2> QED
    BY <1>4, <2>1 DEF Syncs
<1>12. CASE JobDone(w) \/ SyncDone(w)
  <2>1. Finish(w) /\ left[w] = <<>> /\ wpc[w] \in {"dest", "sync"} /\ (wpc[w] = "dest" => ~Resyncs(w))
    BY <1>12 DEF JobDone, SyncDone
  <2>2. wpc'[w] = "idle" /\ nodeDB' = nodeDB /\ copy' = copy
    BY <1>1, <2>1, FinishDoes DEF After
  <2>3. wpc[w] = "dest" => ~tally[w].ok
    BY <1>3, <2>1 DEF Resyncs, Ours
  <2>4. ~Syncs(w, r)
    BY <2>1, <2>3, Empty DEF Syncs
  <2> QED
    BY <1>6, <2>1, <2>2, <2>4 DEF Begins
<1>13. CASE StartSync(w)
  <2>1. Begins(w) /\ wpc'[w] = "sync"
    BY <1>1, <1>13, StartSyncDoes DEF Begins
  <2>2. CASE r \in ToSet(left'[w])
    BY <1>4, <2>1, <2>2 DEF Syncs
  <2>3. CASE r \notin ToSet(left'[w])
    <3>1. r \notin refresh'.synced
      BY <1>2, <2>1, <2>3
    <3> QED
      BY <3>1 DEF Shown
  <2> QED
    BY <2>2, <2>3
<1>14. CASE SyncRead(w)
  <2>1. /\ wpc[w] = "sync" /\ wpc'[w] = "write" /\ left'[w] = left[w] /\ nodeDB' = nodeDB
        /\ copy' = copy
    BY <1>1, <1>14, SyncReadDoes DEF After
  <2> QED
    BY <1>6, <2>1 DEF Syncs, Begins
<1>15. CASE SyncFails(w)
  BY <1>1, <1>2, <1>15, SyncFailsDoes
<1>16. CASE SyncWrite(w)
  <2>1. left[w] # <<>> /\ wpc[w] = "write"
    BY <1>1, <1>16 DEF SyncWrite, Busy
  <2>2. /\ wpc'[w] = "sync" /\ left'[w] = Tail(left[w]) /\ nodeDB' = nodeDB
        /\ copy'[r] = IF r = Head(left[w]) THEN snapshot[w] ELSE copy[r]
    BY <1>1, <1>3, <1>16, <2>1, SyncWriteDoes DEF After
  <2>3. ToSet(left[w]) = ToSet(Tail(left[w])) \cup {Head(left[w])} /\ Head(left[w]) \in Radios
    BY <1>1, <2>1, TailOf
  <2>4. /\ refresh'.synced = refresh.synced
        /\ refresh.late \ {Head(left[w])} \subseteq refresh'.late
        /\ snapshot[w] # nodeDB[Head(left[w])] => Head(left[w]) \in refresh'.late
    <3>1. refresh' = Stored(refresh, Head(left[w]), snapshot[w]) /\ refresh.on
      BY <1>2, <2>1
    <3>2. refresh \in RefreshRecord /\ Head(left[w]) \in Radios
      BY <1>1, <2>3
    <3> QED
      BY <3>1, <3>2, StoredOf
  <2>5. CASE r = Head(left[w])
    BY <2>2, <2>4, <2>5 DEF Shown
  <2>6. CASE r # Head(left[w])
    <3>1. Syncs(w, r) => Syncs(w, r)'
      BY <2>1, <2>2, <2>3, <2>6 DEF Syncs
    <3> QED
      BY <1>3, <1>4, <1>5, <2>2, <2>4, <2>6, <3>1 DEF Shown
  <2> QED
    BY <2>5, <2>6
<1> QED
  BY <1>1, <1>8, <1>9, <1>10, <1>11, <1>12, <1>13, <1>14, <1>15, <1>16 DEF JobStep

-----------------------------------------------------------------------------
(* The mesh, the scheduler, and requests.                                  *)

LEMMA HeardIn ==
    ASSUME OtherTypes, NEW N \in SUBSET Radios, NEW roles
    PROVE  /\ Heard(N, roles) \in SUBSET Peers /\ Heard(N, roles) \subseteq roles
           /\ Favorites(N, roles) \in SUBSET Peers
           /\ \A r \in N : copy[r].near \cap roles \subseteq Heard(N, roles)
           /\ \A r \in N : copy[r].fav \cap roles \subseteq Favorites(N, roles)
<1>1. \A r \in N : copy[r].near \in SUBSET Peers /\ copy[r].fav \in SUBSET Peers
  BY DEF OtherTypes, Contents
<1> QED
  BY <1>1 DEF Heard, Favorites

LEMMA BulkJobTyped ==
    ASSUME NEW N \in SUBSET Radios, NEW targets \in SUBSET Peers, NEW action \in Actions,
           NEW again \in BOOLEAN, NEW dry \in BOOLEAN
    PROVE  BulkJob(N, targets, action, again, dry) \in Job
BY DEF BulkJob, Job

LEMMA QueueTyped ==
    ASSUME OtherTypes, NEW jobs \in Seq(Job), Queue(jobs)
    PROVE  OtherTypes' /\ Resting /\ queue' = queue \o jobs /\ nodeDB' = nodeDB /\ copy' = copy
<1>1. /\ requests' \in 0..MaxRequests /\ queue' = queue \o jobs /\ events' = events
      /\ nodeDB' = nodeDB /\ copy' = copy /\ fetched' = fetched
  BY DEF Queue, OtherTypes, mesh
<1>2. queue \o jobs \in Seq(Job)
  BY DEF OtherTypes
<1>3. Resting
  BY DEF Queue, worker, Resting
<1> QED
  BY <1>1, <1>2, <1>3 DEF OtherTypes

\* The jobs of a refresh.
AboutRefresh(jobs, N, roles, removeUnseen, dry) ==
    /\ jobs \in Seq(Job)
    /\ \A job \in ToSet(jobs) :
          /\ job.bulk /\ job.refresh /\ job.dests = N /\ (~dry => ~job.dry)
          /\ \/ job.action = "set_favorite" /\ job.targets = Heard(N, roles)
             \/ job.action = "remove_favorite" /\ job.targets \cap Heard(N, roles) = {}
    /\ \A p \in Heard(N, roles) : \E job \in ToSet(jobs) :
          job.action = "set_favorite" /\ p \in job.targets
    /\ removeUnseen =>
         \A p \in Favorites(N, roles) \ Heard(N, roles) : \E job \in ToSet(jobs) :
            job.action = "remove_favorite" /\ p \in job.targets

LEMMA RefreshJobsOf ==
    ASSUME OtherTypes, NEW N \in SUBSET Radios, NEW roles, NEW removeUnseen \in BOOLEAN, NEW dry \in BOOLEAN
    PROVE  AboutRefresh(RefreshJobs(N, roles, removeUnseen, dry), N, roles, removeUnseen, dry)
<1>1. PICK heard : heard = Heard(N, roles)
  OBVIOUS
<1>2. PICK stale : stale = IF removeUnseen THEN Favorites(N, roles) \ heard ELSE {}
  OBVIOUS
<1>3. PICK set : set = BulkJob(N, heard, "set_favorite", TRUE, dry)
  OBVIOUS
<1>4. PICK remove : remove = BulkJob(N, stale, "remove_favorite", TRUE, dry)
  OBVIOUS
<1>5. PICK s : s = IF heard = {} THEN <<>> ELSE <<set>>
  OBVIOUS
<1>6. PICK t : t = IF stale = {} THEN <<>> ELSE <<remove>>
  OBVIOUS
<1>7. RefreshJobs(N, roles, removeUnseen, dry) = s \o t
  BY <1>1, <1>2, <1>3, <1>4, <1>5, <1>6 DEF RefreshJobs
<1>8. heard \in SUBSET Peers /\ stale \in SUBSET Peers
  BY <1>1, <1>2, HeardIn
<1>9. set \in Job /\ remove \in Job
  BY <1>3, <1>4, <1>8, BulkJobTyped DEF Actions
<1>10. /\ s \in Seq(Job) /\ ToSet(s) = IF heard = {} THEN {} ELSE {set}
       /\ t \in Seq(Job) /\ ToSet(t) = IF stale = {} THEN {} ELSE {remove}
  BY <1>5, <1>6, <1>9, Empty DEF ToSet
<1>11. s \o t \in Seq(Job) /\ ToSet(s \o t) = ToSet(s) \cup ToSet(t)
  BY <1>10, ConcatOf
<1>12. /\ set.bulk /\ set.refresh /\ set.dests = N /\ (~dry => ~set.dry)
       /\ set.action = "set_favorite" /\ set.targets = heard
  BY <1>3 DEF BulkJob
<1>13. /\ remove.bulk /\ remove.refresh /\ remove.dests = N /\ (~dry => ~remove.dry)
       /\ remove.action = "remove_favorite" /\ remove.targets = stale
  BY <1>4 DEF BulkJob
<1>14. stale \cap heard = {}
  BY <1>2
<1>15. PICK jobs : jobs = s \o t
  OBVIOUS
<1>16. jobs \in Seq(Job) /\ ToSet(jobs) = ToSet(s) \cup ToSet(t)
  BY <1>11, <1>15
<1>17. AboutRefresh(jobs, N, roles, removeUnseen, dry)
  BY <1>1, <1>2, <1>10, <1>12, <1>13, <1>14, <1>16 DEF AboutRefresh
<1> QED
  BY <1>7, <1>15, <1>17

\* A step of no job that leaves the radios and the refresh.
LEMMA SettleRests ==
    ASSUME SettleInv, Resting, Continues, nodeDB' = nodeDB, queue' = queue
    PROVE  SettleInv'
<1> SUFFICES ASSUME refresh'.on PROVE SettleInv'
  BY DEF SettleInv
<1>1. /\ refresh.on /\ refresh'.dests = refresh.dests /\ refresh'.targets = refresh.targets
      /\ refresh'.roles = refresh.roles
  BY DEF Continues
<1>2. OnlyOurs'
  BY <1>1 DEF Resting, SettleInv, OnlyOurs, Ours
<1>3. \A r, p, action : Pending(r, p, action) => Pending(r, p, action)'
  BY DEF Resting, Pending, Coming
<1>4. \A r \in refresh'.dests : Promised(r)'
  BY <1>1, <1>3 DEF SettleInv, Promised
<1> QED
  BY <1>1, <1>2, <1>4 DEF SettleInv

\* The request that begins one.
LEMMA RefreshStep ==
    ASSUME Inv, RefreshRequest
    PROVE  OtherTypes' /\ Resting /\ refresh' \in RefreshRecord /\ SettleInv' /\ ShowInv'
<1>1. PICK N \in SUBSET Radios \ {{}}, roles \in RoleSets, removeUnseen \in BOOLEAN, dry \in BOOLEAN :
        /\ Refresh(N, roles, removeUnseen, dry)
        /\ refresh' =
             IF Quiet /\ removeUnseen /\ ~dry /\ \A r \in N : copy[r] = nodeDB[r]
             THEN [on |-> TRUE, dests |-> N, roles |-> roles, targets |-> Heard(N, roles),
                   synced |-> Radios, late |-> {}]
             ELSE NoRefresh
  BY DEF RefreshRequest
<1>2. OtherTypes /\ N \in SUBSET Radios /\ roles \in SUBSET Peers
  BY TypesOf DEF Inv, RoleSets
<1>3. PICK jobs : jobs = RefreshJobs(N, roles, removeUnseen, dry)
  OBVIOUS
<1>4. AboutRefresh(jobs, N, roles, removeUnseen, dry)
  BY <1>2, <1>3, RefreshJobsOf
<1>5. OtherTypes' /\ Resting /\ queue' = queue \o jobs /\ nodeDB' = nodeDB /\ copy' = copy
  <2>1. Queue(jobs) /\ jobs \in Seq(Job)
    BY <1>1, <1>3, <1>4 DEF Refresh, AboutRefresh
  <2> QED
    BY <1>2, <2>1, QueueTyped
<1>6. CASE refresh' = NoRefresh
  BY <1>5, <1>6, Empty DEF SettleInv, ShowInv
<1>7. CASE /\ Quiet /\ removeUnseen /\ ~dry /\ (\A r \in N : copy[r] = nodeDB[r])
           /\ refresh' = [on |-> TRUE, dests |-> N, roles |-> roles, targets |-> Heard(N, roles),
                   synced |-> Radios, late |-> {}]
  <2>1. Heard(N, roles) \in SUBSET Peers /\ Heard(N, roles) \subseteq roles
    BY <1>2, HeardIn
  <2>2. /\ refresh' \in RefreshRecord /\ refresh'.dests = N /\ refresh'.roles = roles
        /\ refresh'.targets = Heard(N, roles) /\ refresh'.on
    BY <1>2, <1>7, <2>1 DEF RefreshRecord
  <2>3. queue' = jobs /\ \A w \in Workers : wpc'[w] = "idle"
    BY <1>4, <1>5, <1>7 DEF Quiet, Resting, AboutRefresh
  <2>4. OnlyOurs'
    BY <1>4, <1>7, <2>2, <2>3 DEF OnlyOurs, Ours, AboutRefresh
  <2>5. ASSUME NEW r \in N
        PROVE  Promised(r)' /\ nodeDB'[r].near \cap roles \subseteq Heard(N, roles)
    <3>1. /\ nodeDB'[r].near \cap roles \subseteq Heard(N, roles)
          /\ nodeDB'[r].fav \cap roles \subseteq Favorites(N, roles)
      BY <1>2, <1>5, <1>7, HeardIn
    <3>2. Promised(r)'
      BY <1>4, <1>7, <2>2, <2>3, <3>1 DEF Promised, Pending, AboutRefresh
    <3> QED
      BY <3>1, <3>2
  <2>6. SettleInv'
    BY <2>1, <2>2, <2>4, <2>5 DEF SettleInv
  <2>7. ShowInv'
    BY <1>5, <1>7, <2>2 DEF ShowInv, Shown
  <2> QED
    BY <1>5, <2>2, <2>6, <2>7
<1> QED
  BY <1>1, <1>6, <1>7

LEMMA HearStep ==
    ASSUME Inv, Hear
    PROVE  OtherTypes' /\ Resting
<1>1. PICK r \in Radios, p \in Peers :
        /\ events < MaxEvents /\ events' = events + 1
        /\ \E near \in {nodeDB[r].near \cup {p}, nodeDB[r].near \ {p}} :
              nodeDB' = [nodeDB EXCEPT ![r] = [seen |-> @.seen \cup {p}, near |-> near, fav |-> @.fav]]
        /\ UNCHANGED <<copy, queue, worker, requests, fetched>>
  BY DEF Hear
<1>2. OtherTypes
  BY TypesOf DEF Inv
<1>3. nodeDB' \in [Radios -> Contents]
  <2>1. PICK d : d = nodeDB[r]
    OBVIOUS
  <2>2. /\ d.seen \in SUBSET Peers /\ d.near \in SUBSET Peers /\ d.fav \in SUBSET Peers
        /\ d.near \subseteq d.seen /\ d.fav \subseteq d.seen
    BY <1>2, <2>1 DEF OtherTypes, Contents
  <2>3. PICK near \in {d.near \cup {p}, d.near \ {p}} :
           nodeDB' = [nodeDB EXCEPT ![r] = [seen |-> d.seen \cup {p}, near |-> near, fav |-> d.fav]]
    BY <1>1, <2>1
  <2>4. [seen |-> d.seen \cup {p}, near |-> near, fav |-> d.fav] \in Contents
    BY <2>2, <2>3 DEF Contents
  <2> QED
    BY <1>2, <2>3, <2>4 DEF OtherTypes
<1>4. Resting
  BY <1>1 DEF worker, Resting
<1> QED
  BY <1>1, <1>2, <1>3, <1>4 DEF OtherTypes

\* A synchronisation outside of jobs: of its reading nothing is known.
LEMMA FetchStep ==
    ASSUME Inv, Fetch, UNCHANGED refresh
    PROVE  OtherTypes' /\ Resting /\ refresh' \in RefreshRecord /\ SettleInv' /\ ShowInv'
<1>1. PICK r \in Radios :
        /\ events < MaxEvents /\ events' = events + 1
        /\ fetched' = fetched \cup {[radio |-> r, found |-> nodeDB[r]]}
        /\ UNCHANGED <<nodeDB, copy, queue, worker, requests>>
  BY DEF Fetch
<1>2. OtherTypes /\ refresh \in RefreshRecord
  BY TypesOf DEF Inv, HistoryTypes
<1>3. Resting
  BY <1>1 DEF worker, Resting
<1>4. OtherTypes'
  <2>1. [radio |-> r, found |-> nodeDB[r]] \in Reading
    BY <1>2 DEF OtherTypes, Reading
  <2> QED
    BY <1>1, <1>2, <2>1 DEF OtherTypes
<1>5. SettleInv'
  BY <1>1, <1>2, <1>3, SettleRests DEF Inv, Continues
<1>6. \A w, s : Syncs(w, s)' <=> Syncs(w, s)
  BY <1>3 DEF Resting, Syncs
<1>7. ShowInv'
  BY <1>1, <1>6 DEF Inv, ShowInv, Shown
<1> QED
  BY <1>2, <1>3, <1>4, <1>5, <1>7

LEMMA StoreStep ==
    ASSUME Inv, NEW reading \in fetched, Store(reading),
           refresh' = Stored(refresh, reading.radio, reading.found)
    PROVE  OtherTypes' /\ Resting /\ refresh' \in RefreshRecord /\ SettleInv' /\ ShowInv'
<1>1. OtherTypes /\ refresh \in RefreshRecord /\ SettleInv /\ ShowInv
  BY TypesOf DEF Inv, HistoryTypes
<1>2. reading.radio \in Radios /\ reading.found \in Contents
  BY <1>1 DEF OtherTypes, Reading
<1>3. /\ copy' = [copy EXCEPT ![reading.radio] = reading.found]
      /\ fetched' = fetched \ {reading}
      /\ UNCHANGED <<nodeDB, events, queue, requests>> /\ Resting
  BY DEF Store, worker, Resting
<1>4. /\ copy' \in [Radios -> Contents]
      /\ \A r \in Radios : copy'[r] = IF r = reading.radio THEN reading.found ELSE copy[r]
  BY <1>1, <1>2, <1>3 DEF OtherTypes
<1>5. OtherTypes'
  BY <1>1, <1>3, <1>4 DEF OtherTypes
<1>6. /\ refresh' \in RefreshRecord /\ refresh'.on = refresh.on /\ refresh'.dests = refresh.dests
      /\ refresh'.roles = refresh.roles /\ refresh'.targets = refresh.targets
      /\ refresh'.synced = refresh.synced
      /\ refresh.late \ {reading.radio} \subseteq refresh'.late
      /\ refresh.on /\ reading.found # nodeDB[reading.radio] => reading.radio \in refresh'.late
  BY <1>1, <1>2, StoredOf
<1>7. SettleInv'
  BY <1>1, <1>3, <1>6, SettleRests DEF Continues
<1>8. \A w, r : Syncs(w, r)' <=> Syncs(w, r)
  BY <1>3 DEF Resting, Syncs
<1>9. ASSUME refresh.on, NEW r \in refresh.dests PROVE Shown(r)'
  <2>1. r \in Radios /\ Shown(r)
    BY <1>1, <1>9 DEF ShowInv, RefreshRecord
  <2>2. CASE r = reading.radio
    BY <1>3, <1>4, <1>6, <1>9, <2>1, <2>2 DEF Shown
  <2>3. CASE r # reading.radio
    BY <1>3, <1>4, <1>6, <1>8, <2>1, <2>3 DEF Shown
  <2> QED
    BY <2>2, <2>3
<1>10. ShowInv'
  BY <1>6, <1>9 DEF ShowInv
<1> QED
  BY <1>3, <1>5, <1>6, <1>7, <1>10

LEMMA RequestStep ==
    ASSUME Inv, RoutingFavorites \/ ZeroHopNodeDB
    PROVE  OtherTypes' /\ Resting
<1>1. OtherTypes
  BY TypesOf DEF Inv
<1>2. CASE RoutingFavorites
  <2>1. PICK N \in SUBSET Radios, action \in Actions, dry \in BOOLEAN :
           Queue(<<BulkJob(N, Heard(N \cap Routers, Routers), action, FALSE, dry)>>)
    BY <1>2 DEF RoutingFavorites
  <2>2. PICK job : job = BulkJob(N, Heard(N \cap Routers, Routers), action, FALSE, dry)
    OBVIOUS
  <2>3. Heard(N \cap Routers, Routers) \in SUBSET Peers
    BY <1>1, HeardIn
  <2>4. job \in Job
    BY <2>2, <2>3, BulkJobTyped
  <2>5. <<job>> \in Seq(Job)
    BY <2>4
  <2>6. Queue(<<job>>)
    BY <2>1, <2>2
  <2> QED
    BY <1>1, <2>5, <2>6, QueueTyped
<1>3. CASE ZeroHopNodeDB
  <2>1. PICK r \in Radios, roles \in RoleSets, action \in Actions, dry \in BOOLEAN :
           \E targets \in SUBSET Heard({r}, roles) \ {{}} :
              Queue(<<[bulk |-> FALSE, dests |-> {r}, targets |-> targets, action |-> action,
                       refresh |-> FALSE, dry |-> dry]>>)
    BY <1>3 DEF ZeroHopNodeDB
  <2>2. PICK targets \in SUBSET Heard({r}, roles) :
           Queue(<<[bulk |-> FALSE, dests |-> {r}, targets |-> targets, action |-> action,
                    refresh |-> FALSE, dry |-> dry]>>)
    BY <2>1
  <2>3. PICK job : job = [bulk |-> FALSE, dests |-> {r}, targets |-> targets, action |-> action,
                          refresh |-> FALSE, dry |-> dry]
    OBVIOUS
  <2>4. targets \in SUBSET Peers
    <3>1. {r} \in SUBSET Radios
      OBVIOUS
    <3>2. Heard({r}, roles) \in SUBSET Peers
      BY <1>1, <3>1, HeardIn
    <3> QED
      BY <3>2
  <2>5. job \in Job
    BY <2>3, <2>4 DEF Job
  <2>6. <<job>> \in Seq(Job)
    BY <2>5
  <2>7. Queue(<<job>>)
    BY <2>2, <2>3
  <2> QED
    BY <1>1, <2>6, <2>7, QueueTyped
<1> QED
  BY <1>2, <1>3

-----------------------------------------------------------------------------
(* The theorems.                                                           *)

LEMMA InitInv == Init => Inv
<1> SUFFICES ASSUME Init PROVE Inv
  OBVIOUS
<1>1. WorkerTypes
  BY Empty DEF Init, WorkerTypes, Labels
<1>2. OtherTypes
  BY Empty DEF Init, OtherTypes
<1>3. HistoryTypes
  BY Empty DEF Init, HistoryTypes
<1>4. BusyInv
  BY DEF Init, BusyInv, Busy
<1>5. SettleInv /\ ShowInv
  BY Empty DEF Init, SettleInv, ShowInv
<1> QED
  BY <1>1, <1>2, <1>3, <1>4, <1>5, TypesOf DEF Inv

LEMMA StepInv == Inv /\ [Next]_vars => Inv'
<1> SUFFICES ASSUME Inv, [Next]_vars PROVE Inv'
  OBVIOUS
<1>1. TypeOK /\ BusyInv
  BY DEF Inv
<1>2. ASSUME Reach, WorkerTypes', OtherTypes', BusyInv', refresh' \in RefreshRecord, SettleInv', ShowInv'
      PROVE  Inv'
  <2>1. HistoryTypes'
    BY <1>1, <1>2, ReachOf DEF HistoryTypes
  <2>2. TypeOK'
    BY <1>2, <2>1, TypesOf DEF TypeOK, WorkerTypes, OtherTypes, HistoryTypes, Labels, Tally, RefreshRecord
  <2> QED
    BY <1>2, <2>2 DEF Inv
<1>3. ASSUME Reach, OtherTypes', Resting, refresh' \in RefreshRecord, SettleInv', ShowInv'
      PROVE  Inv'
  BY <1>1, <1>2, <1>3, Rests
<1>4. ASSUME refresh' = NoRefresh PROVE refresh' \in RefreshRecord /\ SettleInv' /\ ShowInv'
  BY <1>4, Empty DEF SettleInv, ShowInv
<1>5. CASE Hear /\ refresh' = NoRefresh /\ Reach
  BY <1>3, <1>4, <1>5, HearStep
<1>6. CASE Fetch /\ UNCHANGED refresh /\ Reach
  BY <1>3, <1>6, FetchStep
<1>11. ASSUME NEW reading \in fetched, Store(reading), Reach,
              refresh' = Stored(refresh, reading.radio, reading.found)
       PROVE  Inv'
  BY <1>3, <1>11, StoreStep
<1>7. CASE (RoutingFavorites \/ ZeroHopNodeDB) /\ refresh' = NoRefresh /\ Reach
  BY <1>3, <1>4, <1>7, RequestStep
<1>8. CASE RefreshRequest /\ Reach
  BY <1>3, <1>8, RefreshStep
<1>9. ASSUME NEW w \in Workers, JobStepRecorded(w), Reach PROVE Inv'
  <2>1. WorkerTypes' /\ OtherTypes' /\ BusyInv'
    BY <1>9, BusyStep DEF JobStepRecorded, Stays
  <2>2. refresh' \in RefreshRecord
    BY <1>1, <1>9, RefreshOf DEF Continues
  <2> QED
    BY <1>2, <1>9, <2>1, <2>2, SettleStep, ShowStep
<1>10. CASE UNCHANGED vars
  <2>1. /\ Resting /\ nodeDB' = nodeDB /\ copy' = copy /\ queue' = queue /\ events' = events
        /\ requests' = requests /\ refresh' = refresh /\ reached' = reached /\ fetched' = fetched
    BY <1>10 DEF vars, mesh, worker, history, Resting
  <2>2. TypeOK'
    BY <1>1, <2>1 DEF TypeOK, Resting
  <2>3. BusyInv'
    BY <1>1, <2>1 DEF BusyInv, Busy, TargetsOn, Resting
  <2>4. SettleInv'
    BY <1>1, <2>1, SettleRests, TypesOf DEF Inv, Continues, HistoryTypes
  <2>5. \A w, r : Syncs(w, r)' <=> Syncs(w, r)
    BY <2>1 DEF Resting, Syncs
  <2>6. ShowInv'
    BY <2>1, <2>5 DEF Inv, ShowInv, Shown
  <2> QED
    BY <2>2, <2>3, <2>4, <2>6 DEF Inv
<1> QED
  BY <1>5, <1>6, <1>7, <1>8, <1>9, <1>10, <1>11 DEF Next

\* The invariant, and with it the types: in every run, for all constants.
THEOREM Types == Spec => []TypeOK /\ []Inv
<1>1. Inv => TypeOK
  BY DEF Inv
<1> QED
  BY <1>1, InitInv, StepInv, PTL DEF Spec

\* A destination that is going to count as done has had each of its targets as
\* the action wants it (operations/service.py:215-228), with any number of
\* threads changing the same radio meanwhile.
THEOREM SuccessReached == Spec => []SuccessIsReached
<1>1. Inv => SuccessIsReached
  <2> SUFFICES ASSUME Inv, NEW w \in Workers, wpc[w] = "target", togo[w] = {}, ~refused[w], ~running[w].dry
               PROVE  TargetsOn(w, Head(left[w])) \subseteq reached[w]
    BY DEF SuccessIsReached
  <2> QED
    BY DEF Inv, BusyInv, Busy
<1> QED
  BY <1>1, InitInv, StepInv, PTL DEF Spec

\* The two jobs of a refresh, however their steps are interleaved, leave each
\* radio with just the favourites the request has chosen (app.py:2597-2630).
THEOREM RefreshSettled == Spec => []RefreshSettles
<1>1. Inv => RefreshSettles
  <2> SUFFICES ASSUME Inv, refresh.on, Quiet, NEW r \in refresh.dests
               PROVE  (nodeDB[r].fav \cap refresh.roles) \ {r} = (refresh.targets \cap nodeDB[r].seen) \ {r}
    BY DEF RefreshSettles
  <2>1. r \in Radios /\ nodeDB[r] \in Contents /\ refresh.targets \subseteq Peers
    BY TypesOf DEF Inv, HistoryTypes, OtherTypes, RefreshRecord
  <2>2. nodeDB[r].fav \subseteq nodeDB[r].seen /\ nodeDB[r].fav \subseteq Peers
    BY <2>1 DEF Contents
  <2>3. \A p, action : ~Pending(r, p, action)
    BY Empty DEF Quiet, Pending, Coming
  <2>4. Promised(r) /\ refresh.targets \subseteq refresh.roles
    BY DEF Inv, SettleInv
  <2> QED
    BY <2>1, <2>2, <2>3, <2>4 DEF Promised
<1> QED
  BY <1>1, InitInv, StepInv, PTL DEF Spec

\* Each destination that the last sync_all of the jobs took has its copy up to
\* date, and no gap on the visibility page, however jobs and synchronisations
\* were interleaved, unless a reading older than the last change of the radio
\* was stored last.
THEOREM RefreshShown == Spec => []RefreshShows
<1>1. Inv => RefreshShows
  <2> SUFFICES ASSUME Inv, refresh.on, Quiet,
                      NEW r \in (refresh.dests \cap refresh.synced) \ refresh.late
               PROVE  copy[r] = nodeDB[r] /\ (refresh.roles = Peers => Gaps(r) = 0)
    BY DEF RefreshShows
  <2>1. r \in Radios /\ nodeDB[r] \in Contents /\ refresh.targets \subseteq Peers
    BY TypesOf DEF Inv, HistoryTypes, OtherTypes, RefreshRecord
  <2>2. \A p, action : ~Pending(r, p, action)
    BY Empty DEF Quiet, Pending, Coming
  <2>3. copy[r] = nodeDB[r]
    BY DEF Inv, ShowInv, Shown, Quiet, Syncs
  <2>4. ASSUME refresh.roles = Peers PROVE Gaps(r) = 0
    <3>1. Promised(r) /\ nodeDB[r].near \cap refresh.roles \subseteq refresh.targets
      BY DEF Inv, SettleInv
    <3>2. nodeDB[r].near \subseteq nodeDB[r].seen /\ nodeDB[r].near \subseteq Peers
      BY <2>1 DEF Contents
    <3>3. \A p \in nodeDB[r].near \ {r} : p \in nodeDB[r].fav
      BY <2>2, <2>4, <3>1, <3>2 DEF Promised
    <3>4. Marked(r) = Visible(r)
      BY <2>3, <3>3 DEF Marked, Visible
    <3>5. Cardinality(Visible(r)) \in Nat
      <4>1. Visible(r) \subseteq Radios
        BY DEF Visible
      <4> QED
        BY <4>1, PeersFinite, FS_Subset, FS_CardinalityType
    <3> QED
      BY <3>4, <3>5 DEF Gaps
  <2> QED
    BY <2>3, <2>4
<1> QED
  BY <1>1, InitInv, StepInv, PTL DEF Spec

\* A job changes on a radio only its targets: never what no job of the thread
\* is about, nor anything in a dry run, nor, by a bulk job, the radio's own
\* entry (jobs/queue.py:139-141).
THEOREM TargetsOnly == Spec => OnlyTargets
<1> DEFINE Allowed == events' = events =>
              \A r \in Radios : \A p \in Touched(nodeDB[r], nodeDB'[r]) :
                 \E w \in Workers : LET job == running[w] IN
                     /\ wpc[w] = "target" /\ r = Head(left[w]) /\ ~job.dry
                     /\ r \in job.dests /\ p \in job.targets
                     /\ job.bulk => p # r
<1>1. ASSUME nodeDB' = nodeDB PROVE Allowed
  BY <1>1 DEF Touched
<1>2. ASSUME Inv, NEW w \in Workers, Mutate(w) PROVE Allowed
  <2>1. PICK q \in Peers, outcome \in {"ack", "nack", "lost"} : Mutates(w, q, outcome)
    BY <1>2, MutateDoes DEF Inv
  <2>2. /\ TypeOK /\ WorkerTypes /\ nodeDB \in [Radios -> Contents] /\ Busy(w)
        /\ left[w] \in Seq(Radios) /\ running[w] \in Job
    BY <1>2, TypesOf, Before DEF Inv, OtherTypes, BusyInv
  <2>3. wpc[w] = "target" /\ q \in togo[w] /\ left[w] # <<>>
    BY <2>1, <2>2 DEF Mutates, Busy
  <2>4. PICK s : s = Head(left[w])
    OBVIOUS
  <2>5. s \in Radios /\ s \in ToSet(left[w]) /\ ToSet(left[w]) \subseteq running[w].dests
    BY <2>2, <2>3, <2>4, TailOf DEF Busy
  <2>6. q \in TargetsOn(w, s)
    BY <2>2, <2>3, <2>4 DEF Busy
  <2>7. q \in running[w].targets /\ (running[w].bulk => q # s)
    BY <2>2, <2>6, TargetsOf
  <2>8. CASE outcome = "nack" \/ running[w].dry
    BY <1>1, <2>1, <2>8 DEF Mutates
  <2>9. CASE ~(outcome = "nack" \/ running[w].dry)
    <3>1. \A r \in Radios : nodeDB'[r] = IF r = s THEN Changed(nodeDB[s], running[w].action, q) ELSE nodeDB[r]
      BY <2>1, <2>2, <2>4, <2>9 DEF Mutates
    <3>2. Touched(nodeDB[s], nodeDB'[s]) \subseteq {q}
      <4>1. running[w].action \in Actions /\ nodeDB[s] \in Contents
        BY <2>2, <2>5, JobOf
      <4> QED
        BY <2>5, <3>1, <4>1, ChangedOf
    <3>3. \A r \in Radios : r # s => Touched(nodeDB[r], nodeDB'[r]) = {}
      BY <3>1 DEF Touched
    <3> QED
      BY <2>3, <2>4, <2>5, <2>7, <2>9, <3>2, <3>3
  <2> QED
    BY <2>8, <2>9
<1>3. Inv /\ [Next]_vars => [Allowed]_vars
  <2> SUFFICES ASSUME Inv, Next PROVE Allowed
    OBVIOUS
  <2>1. CASE Hear
    <3>1. events' = events + 1 /\ events \in Nat
      BY <2>1 DEF Hear, Inv, TypeOK
    <3> QED
      BY <3>1
  <2>2. CASE Fetch \/ RoutingFavorites \/ ZeroHopNodeDB \/ RefreshRequest \/ \E reading \in fetched : Store(reading)
    <3>1. nodeDB' = nodeDB
      BY <2>2 DEF Fetch, Store, RoutingFavorites, ZeroHopNodeDB, RefreshRequest, Refresh, Queue, mesh
    <3> QED
      BY <1>1, <3>1
  <2>3. ASSUME NEW w \in Workers, JobStep(w) PROVE Allowed
    <3>1. Mutate(w) \/ nodeDB' = nodeDB
      BY <2>3 DEF JobStep, Start, SkipDest, Connect, ConnectFails, DestDone, JobDone, StartSync,
                  SyncRead, SyncFails, SyncWrite, SyncDone, Record, Finish
    <3> QED
      BY <1>1, <1>2, <2>3, <3>1
  <2> QED
    BY <2>1, <2>2, <2>3 DEF Next, JobStepRecorded
<1> QED
  BY <1>3, InitInv, StepInv, PTL DEF Spec, OnlyTargets

-----------------------------------------------------------------------------
(* The visibility page.                                                    *)

LEMMA InOrderOnce ==
    ASSUME NEW S \in SUBSET Peers
    PROVE  IsInjective(InOrder(S))
<1>1. Order \in Seq(Peers) /\ IsInjective(Order)
  OBVIOUS
<1> QED
  BY <1>1, KeepOf DEF InOrder

\* Pairs of radios; those of which the first hears the second; those that hear
\* each other.
Ways == Radios \X Radios
Seen == {x \in Ways : x[2] \in Visible(x[1])}
Both == {x \in Seen : x[1] \in Visible(x[2])}

LEMMA VisibleOf ==
    /\ \A r : Visible(r) \subseteq Radios /\ r \notin Visible(r) /\ Marked(r) \subseteq Visible(r)
    /\ \A r : IsFiniteSet(Visible(r))
<1>1. \A r : Visible(r) \subseteq Radios /\ r \notin Visible(r) /\ Marked(r) \subseteq Visible(r)
  BY DEF Visible, Marked
<1> QED
  BY <1>1, PeersFinite, FS_Subset

LEMMA LinksOf ==
    ASSUME NEW r \in Radios
    PROVE  /\ Links(r) \in Seq(Ways) /\ ToSet(Links(r)) = {r} \X Visible(r)
           /\ IsInjective(Links(r))
<1>1. Visible(r) \in SUBSET Peers /\ Visible(r) \subseteq Radios
  BY VisibleOf
<1>2. PICK peers : peers = InOrder(Visible(r))
  OBVIOUS
<1>3. /\ peers \in Seq(Visible(r)) /\ ToSet(peers) = Visible(r) /\ IsInjective(peers)
      /\ Links(r) = [k \in DOMAIN peers |-> <<r, peers[k]>>]
  BY <1>1, <1>2, InOrderOf, InOrderOnce DEF Links
<1>4. Len(peers) \in Nat /\ DOMAIN peers = 1..Len(peers) /\ \A k \in DOMAIN peers : peers[k] \in Visible(r)
  BY <1>3
<1>5. Links(r) \in Seq(Ways)
  <2>1. \A k \in 1..Len(peers) : <<r, peers[k]>> \in Ways
    BY <1>1, <1>4 DEF Ways
  <2> QED
    BY <1>3, <1>4, <2>1
<1>6. ToSet(Links(r)) = {r} \X Visible(r)
  <2>1. Visible(r) = {peers[k] : k \in DOMAIN peers}
    BY <1>3 DEF ToSet
  <2>2. ToSet(Links(r)) = {<<r, peers[k]>> : k \in DOMAIN peers}
    BY <1>3 DEF ToSet
  <2> QED
    BY <2>1, <2>2
<1>7. IsInjective(Links(r))
  BY <1>3 DEF IsInjective
<1> QED
  BY <1>5, <1>6, <1>7

LEMMA RowsUnroll ==
    \E H \in [0..Len(InOrder(Radios)) -> Seq(Ways)] :
        /\ H[0] = <<>>
        /\ \A i \in 1..Len(InOrder(Radios)) : H[i] = H[i - 1] \o Links(InOrder(Radios)[i])
        /\ Rows = H[Len(InOrder(Radios))]
<1> DEFINE R == InOrder(Radios)
           n == Len(R)
           step == [p \in (1..n) \X Seq(Ways) |-> p[2] \o Links(R[p[1]])]
           Is(F) == F = [i \in 0..n |-> IF i = 0 THEN <<>> ELSE F[i - 1] \o Links(R[i])]
<1>0. R \in Seq(Radios)
  BY InOrderOf
<1>1. /\ n \in Nat /\ DOMAIN R = 1..n
      /\ \A i \in 1..n : R[i] \in Radios /\ i \in 0..n /\ i # 0 /\ i - 1 \in 0..n
      /\ \A i \in 0..n : i = 0 \/ i \in 1..n
      /\ 0 \in 0..n /\ n \in 0..n
  <2> HIDE DEF R
  <2> QED
    BY <1>0
<1>2. Rows = (CHOOSE F : Is(F))[n]
  BY DEF Rows
<1>3. \A i \in 1..n : \A q \in Seq(Ways) : q \o Links(R[i]) \in Seq(Ways)
  <2> TAKE i \in 1..n
  <2>1. R[i] \in Radios
    BY <1>1
  <2>2. Links(R[i]) \in Seq(Ways)
    BY <2>1, LinksOf
  <2> HIDE DEF R
  <2> QED
    BY <2>2
<1> HIDE DEF R
<1>4. step \in [(1..n) \X Seq(Ways) -> Seq(Ways)]
  BY <1>3
<1>5. PICK G \in [0..n -> Seq(Ways)] : IsLoop(G, n, <<>>, step)
  <2>1. <<>> \in Seq(Ways)
    OBVIOUS
  <2>2. n \in Nat
    BY <1>1
  <2> HIDE DEF step, n
  <2> QED
    BY <1>4, <2>1, <2>2, LoopExists
<1>6. Is(G)
  <2> SUFFICES ASSUME NEW i \in 1..n
               PROVE  step[<<i, G[i - 1]>>] = G[i - 1] \o Links(R[i])
    <3> HIDE DEF step, n
    <3> QED
      BY <1>1, <1>5 DEF IsLoop
  <2>1. G[i - 1] \in Seq(Ways)
    BY <1>1
  <2> QED
    BY <2>1
<1>7. PICK H : Is(H) /\ Rows = H[n]
  <2> HIDE DEF Is
  <2> QED
    BY <1>2, <1>6
<1>8. H[0] = <<>>
  <2> HIDE DEF n
  <2> QED
    BY <1>1, <1>7
<1>9. ASSUME NEW i \in 1..n
      PROVE  H[i] = H[i - 1] \o Links(R[i])
  <2> HIDE DEF n
  <2> QED
    BY <1>1, <1>7
<1>10. H \in [0..n -> Seq(Ways)]
  <2>1. H = [i \in 0..n |-> H[i]]
    BY <1>7
  <2>2. ASSUME NEW i \in 1..n, H[i - 1] \in Seq(Ways) PROVE H[i] \in Seq(Ways)
    BY <1>3, <1>9, <2>2
  <2>3. H[0] \in Seq(Ways)
    BY <1>8
  <2> HIDE DEF n
  <2> QED
    BY <1>1, <2>1, <2>2, <2>3, Climbs
<1> QED
  BY <1>7, <1>8, <1>9, <1>10 DEF R

\* The rows list each link once.
LEMMA RowsOf == Rows \in Seq(Ways) /\ ToSet(Rows) = Seen /\ IsInjective(Rows)
<1>1. PICK R : R = InOrder(Radios)
  OBVIOUS
<1>2. R \in Seq(Radios) /\ ToSet(R) = Radios /\ IsInjective(R)
  BY <1>1, InOrderOf, InOrderOnce
<1>3. PICK H \in [0..Len(R) -> Seq(Ways)] :
         /\ H[0] = <<>>
         /\ \A i \in 1..Len(R) : H[i] = H[i - 1] \o Links(R[i])
         /\ Rows = H[Len(R)]
  BY <1>1, RowsUnroll
<1> DEFINE Good(i) == /\ ToSet(H[i]) = {x \in Seen : x[1] \in FirstOf(R, i)}
                      /\ IsInjective(H[i])
           P == {i \in 0..Len(R) : Good(i)}
<1>4. Len(R) \in Nat /\ \A i \in 1..Len(R) : R[i] \in Radios /\ i - 1 \in 0..Len(R)
  BY <1>2
<1>5. 0 \in P
  <2>1. H[0] = <<>> /\ FirstOf(R, 0) = {}
    BY <1>2, <1>3, FirstOfs
  <2>2. ToSet(H[0]) = {} /\ IsInjective(H[0])
    BY <2>1 DEF ToSet, IsInjective
  <2> QED
    BY <1>4, <2>1, <2>2
<1>6. ASSUME NEW i \in 1..Len(R), Good(i - 1) PROVE Good(i)
  <2>1. FirstOf(R, i) = FirstOf(R, i - 1) \cup {R[i]} /\ R[i] \notin FirstOf(R, i - 1)
    BY <1>2, FirstOfs
  <2>2. PICK q : q = H[i - 1]
    OBVIOUS
  <2>3. PICK l : l = Links(R[i])
    OBVIOUS
  <2>4. q \in Seq(Ways) /\ ToSet(q) = {x \in Seen : x[1] \in FirstOf(R, i - 1)} /\ IsInjective(q)
    BY <1>4, <1>6, <2>2
  <2>5. l \in Seq(Ways) /\ ToSet(l) = {R[i]} \X Visible(R[i]) /\ IsInjective(l)
    BY <1>4, <2>3, LinksOf
  <2>6. ToSet(l) = {x \in Seen : x[1] = R[i]}
    BY <1>4, <2>5, VisibleOf DEF Seen, Ways
  <2>7. ToSet(q) \cap ToSet(l) = {}
    BY <2>1, <2>4, <2>6
  <2>8. ToSet(q \o l) = ToSet(q) \cup ToSet(l) /\ IsInjective(q \o l)
    BY <2>4, <2>5, <2>7, ConcatOf, ConcatOnce
  <2>9. H[i] = q \o l
    BY <1>3, <2>2, <2>3
  <2>10. ToSet(q) \cup ToSet(l) = {x \in Seen : x[1] \in FirstOf(R, i)}
    BY <2>1, <2>4, <2>6
  <2> QED
    BY <2>8, <2>9, <2>10
<1>7. 0..Len(R) \subseteq P
  <2>1. \A i \in 1..Len(R) : i - 1 \in P => i \in P
    BY <1>4, <1>6
  <2> HIDE DEF P
  <2> QED
    BY <1>4, <1>5, <2>1, UpTo
<1>8. Good(Len(R))
  BY <1>4, <1>7
<1>9. FirstOf(R, Len(R)) = Radios
  BY <1>2, FirstOfs
<1>10. \A x \in Seen : x[1] \in Radios
  BY DEF Seen, Ways
<1> QED
  BY <1>3, <1>4, <1>8, <1>9, <1>10

\* What the page keeps of a pair, and what it may keep.
Entry == [left : Radios, right : Radios, leftMarks : BOOLEAN, rightMarks : BOOLEAN]
KeyOf(e) == {e.left, e.right}
Honest(e) == /\ <<e.left, e.right>> \in Both
             /\ e.leftMarks = (e.right \in Marked(e.left))
             /\ e.rightMarks = (e.left \in Marked(e.right))
PairsRecord == [keys : SUBSET SUBSET Radios, mutual : Seq(Entry), oneWay : Seq(Ways)]
NoPairs == [keys |-> {}, mutual |-> <<>>, oneWay |-> <<>>]
NewEntry(x) == [left |-> x[1], right |-> x[2],
                leftMarks |-> x[2] \in Marked(x[1]), rightMarks |-> x[1] \in Marked(x[2])]

LEMMA NewEntryOf ==
    ASSUME NEW x \in Ways
    PROVE  /\ NewEntry(x) \in Entry /\ KeyOf(NewEntry(x)) = {x[1], x[2]}
           /\ x \in Both => Honest(NewEntry(x))
<1>1. x[1] \in Radios /\ x[2] \in Radios /\ x = <<x[1], x[2]>>
  BY DEF Ways
<1>2. NewEntry(x) \in Entry
  BY <1>1 DEF NewEntry, Entry
<1>3. NewEntry(x).left = x[1] /\ NewEntry(x).right = x[2]
  BY DEF NewEntry
<1>4. /\ NewEntry(x).leftMarks = (x[2] \in Marked(x[1]))
      /\ NewEntry(x).rightMarks = (x[1] \in Marked(x[2]))
  BY DEF NewEntry
<1> QED
  BY <1>1, <1>2, <1>3, <1>4, Zenon DEF KeyOf, Honest

\* A row is a one-way link, or of a pair already kept, or a new pair.
LEMMA AddRowOf ==
    ASSUME NEW P \in PairsRecord, NEW x \in Seen
    PROVE  /\ AddRow(P, x) \in PairsRecord
           /\ x \notin Both => /\ AddRow(P, x).keys = P.keys /\ AddRow(P, x).mutual = P.mutual
                               /\ AddRow(P, x).oneWay = Append(P.oneWay, x)
           /\ x \in Both /\ {x[1], x[2]} \in P.keys => AddRow(P, x) = P
           /\ x \in Both /\ {x[1], x[2]} \notin P.keys =>
                /\ AddRow(P, x).keys = P.keys \cup {{x[1], x[2]}}
                /\ AddRow(P, x).mutual = Append(P.mutual, NewEntry(x))
                /\ AddRow(P, x).oneWay = P.oneWay
<1>1. x \in Ways /\ x[1] \in Radios /\ x[2] \in Radios
  BY DEF Seen, Ways
<1>2. P.keys \in SUBSET SUBSET Radios /\ P.mutual \in Seq(Entry) /\ P.oneWay \in Seq(Ways)
  BY DEF PairsRecord
<1>3. CASE x \notin Both
  <2>1. x[1] \notin Visible(x[2])
    BY <1>3 DEF Both
  <2>2. AddRow(P, x) = [P EXCEPT !.oneWay = Append(P.oneWay, x)]
    BY <2>1 DEF AddRow
  <2>3. Append(P.oneWay, x) \in Seq(Ways)
    BY <1>1, <1>2
  <2> QED
    BY <1>3, <2>2, <2>3 DEF PairsRecord
<1>4. CASE x \in Both /\ {x[1], x[2]} \in P.keys
  <2>1. AddRow(P, x) = P
    BY <1>4 DEF AddRow, Both, PairKey
  <2> QED
    BY <1>4, <2>1
<1>5. CASE x \in Both /\ {x[1], x[2]} \notin P.keys
  <2>1. AddRow(P, x) = [oneWay |-> P.oneWay, keys |-> P.keys \cup {{x[1], x[2]}},
                        mutual |-> Append(P.mutual, NewEntry(x))]
    BY <1>5 DEF AddRow, Both, PairKey, NewEntry
  <2>2. Append(P.mutual, NewEntry(x)) \in Seq(Entry)
    BY <1>1, <1>2, NewEntryOf
  <2>3. P.keys \cup {{x[1], x[2]}} \in SUBSET SUBSET Radios
    BY <1>1, <1>2
  <2> QED
    BY <1>2, <1>5, <2>1, <2>2, <2>3 DEF PairsRecord
<1> QED
  BY <1>3, <1>4, <1>5

LEMMA PairsUnroll ==
    \E H \in [0..Len(Rows) -> PairsRecord] :
        /\ H[0] = NoPairs
        /\ \A i \in 1..Len(Rows) : H[i] = AddRow(H[i - 1], Rows[i])
        /\ Pairs = H[Len(Rows)]
<1> DEFINE n == Len(Rows)
           step == [p \in (1..n) \X PairsRecord |-> AddRow(p[2], Rows[p[1]])]
           Is(F) == F = [i \in 0..n |-> IF i = 0 THEN NoPairs ELSE AddRow(F[i - 1], Rows[i])]
<1>1. /\ n \in Nat
      /\ \A i \in 1..n : Rows[i] \in Seen /\ i \in 0..n /\ i # 0 /\ i - 1 \in 0..n
      /\ \A i \in 0..n : i = 0 \/ i \in 1..n
      /\ 0 \in 0..n /\ n \in 0..n
  BY RowsOf DEF ToSet
<1>2. Pairs = (CHOOSE F : Is(F))[n]
  BY DEF Pairs, NoPairs
<1>3. \A i \in 1..n : \A P \in PairsRecord : AddRow(P, Rows[i]) \in PairsRecord
  BY <1>1, AddRowOf
<1>4. step \in [(1..n) \X PairsRecord -> PairsRecord]
  BY <1>3
<1>5. NoPairs \in PairsRecord
  BY DEF NoPairs, PairsRecord
<1>6. PICK G \in [0..n -> PairsRecord] : IsLoop(G, n, NoPairs, step)
  <2>1. n \in Nat
    BY <1>1
  <2> HIDE DEF step, n
  <2> QED
    BY <1>4, <1>5, <2>1, LoopExists
<1>7. Is(G)
  <2> SUFFICES ASSUME NEW i \in 1..n
               PROVE  step[<<i, G[i - 1]>>] = AddRow(G[i - 1], Rows[i])
    <3> HIDE DEF step, n
    <3> QED
      BY <1>1, <1>6 DEF IsLoop
  <2>1. G[i - 1] \in PairsRecord
    BY <1>1
  <2> QED
    BY <2>1
<1>8. PICK H : Is(H) /\ Pairs = H[n]
  <2> HIDE DEF Is
  <2> QED
    BY <1>2, <1>7
<1>9. H[0] = NoPairs
  <2> HIDE DEF n
  <2> QED
    BY <1>1, <1>8
<1>10. ASSUME NEW i \in 1..n
      PROVE  H[i] = AddRow(H[i - 1], Rows[i])
  <2> HIDE DEF n
  <2> QED
    BY <1>1, <1>8
<1>11. H \in [0..n -> PairsRecord]
  <2>1. H = [i \in 0..n |-> H[i]]
    BY <1>8
  <2>2. ASSUME NEW i \in 1..n, H[i - 1] \in PairsRecord PROVE H[i] \in PairsRecord
    BY <1>3, <1>10, <2>2
  <2>3. H[0] \in PairsRecord
    BY <1>5, <1>9
  <2> HIDE DEF n
  <2> QED
    BY <1>1, <2>1, <2>2, <2>3, Climbs
<1> QED
  BY <1>8, <1>9, <1>10, <1>11

\* No two entries of a list are about the same pair.
Apart(s) == \A j, k \in 1..Len(s) : KeyOf(s[j]) = KeyOf(s[k]) => j = k
KeysOf(s) == {KeyOf(s[k]) : k \in 1..Len(s)}

LEMMA AppendApart ==
    ASSUME NEW s \in Seq(Entry), NEW e \in Entry
    PROVE  /\ KeysOf(Append(s, e)) = KeysOf(s) \cup {KeyOf(e)}
           /\ Apart(s) /\ KeyOf(e) \notin KeysOf(s) => Apart(Append(s, e))
<1>1. /\ Len(s) \in Nat /\ Len(Append(s, e)) = Len(s) + 1 /\ Append(s, e)[Len(s) + 1] = e
      /\ \A k \in 1..Len(s) : Append(s, e)[k] = s[k]
  OBVIOUS
<1>2. 1..(Len(s) + 1) = (1..Len(s)) \cup {Len(s) + 1}
  BY <1>1
<1>3. KeysOf(Append(s, e)) = KeysOf(s) \cup {KeyOf(e)}
  BY <1>1, <1>2 DEF KeysOf
<1>4. ASSUME Apart(s), KeyOf(e) \notin KeysOf(s),
             NEW j \in 1..(Len(s) + 1), NEW k \in 1..(Len(s) + 1),
             KeyOf(Append(s, e)[j]) = KeyOf(Append(s, e)[k])
      PROVE  j = k
  <2>1. \A l \in 1..Len(s) : KeyOf(s[l]) # KeyOf(e)
    BY <1>4 DEF KeysOf
  <2> QED
    BY <1>1, <1>2, <1>4, <2>1 DEF Apart
<1> QED
  BY <1>1, <1>3, <1>4 DEF Apart

\* What the loop has found after some rows.
Found(P, rows) ==
    /\ ToSet(P.oneWay) = rows \ Both /\ IsInjective(P.oneWay)
    /\ P.keys = {{x[1], x[2]} : x \in rows \cap Both} /\ P.keys = KeysOf(P.mutual)
    /\ Apart(P.mutual) /\ \A e \in ToSet(P.mutual) : Honest(e)

LEMMA NoneFound == NoPairs \in PairsRecord /\ Found(NoPairs, {})
<1>1. NoPairs.keys = {} /\ NoPairs.mutual = <<>> /\ NoPairs.oneWay = <<>>
  BY DEF NoPairs
<1>2. ToSet(<<>>) = {} /\ IsInjective(<<>>) /\ KeysOf(<<>>) = {} /\ Apart(<<>>)
  BY DEF ToSet, IsInjective, KeysOf, Apart
<1>3. NoPairs \in PairsRecord
  BY DEF NoPairs, PairsRecord
<1> QED
  BY <1>1, <1>2, <1>3 DEF Found

LEMMA RowFound ==
    ASSUME NEW P \in PairsRecord, NEW rows, Found(P, rows), NEW x \in Seen, x \notin rows
    PROVE  Found(AddRow(P, x), rows \cup {x})
<1>1. P.keys \in SUBSET SUBSET Radios /\ P.mutual \in Seq(Entry) /\ P.oneWay \in Seq(Ways)
  BY DEF PairsRecord
<1>2. x \in Ways
  BY DEF Seen
<1>3. CASE x \notin Both
  <2>1. PICK Q : Q = AddRow(P, x)
    OBVIOUS
  <2>2. Q.keys = P.keys /\ Q.mutual = P.mutual /\ Q.oneWay = Append(P.oneWay, x)
    BY <1>3, <2>1, AddRowOf
  <2>3. x \notin ToSet(P.oneWay)
    BY DEF Found
  <2>4. ToSet(Q.oneWay) = ToSet(P.oneWay) \cup {x} /\ IsInjective(Q.oneWay)
    BY <1>1, <1>2, <2>2, <2>3, AppendOf DEF Found
  <2>5. (rows \cup {x}) \cap Both = rows \cap Both /\ (rows \cup {x}) \ Both = (rows \ Both) \cup {x}
    BY <1>3
  <2> QED
    BY <2>1, <2>2, <2>4, <2>5 DEF Found
<1>4. CASE x \in Both
  <2>1. (rows \cup {x}) \cap Both = (rows \cap Both) \cup {x} /\ (rows \cup {x}) \ Both = rows \ Both
    BY <1>4
  <2>2. {{y[1], y[2]} : y \in (rows \cap Both) \cup {x}} = {{y[1], y[2]} : y \in rows \cap Both} \cup {{x[1], x[2]}}
    OBVIOUS
  <2>3. CASE {x[1], x[2]} \in P.keys
    <3>1. AddRow(P, x) = P
      BY <1>4, <2>3, AddRowOf
    <3>2. P.keys = P.keys \cup {{x[1], x[2]}}
      BY <2>3
    <3> QED
      BY <2>1, <2>2, <3>1, <3>2 DEF Found
  <2>4. CASE {x[1], x[2]} \notin P.keys
    <3>1. PICK Q : Q = AddRow(P, x)
      OBVIOUS
    <3>2. PICK e : e = NewEntry(x)
      OBVIOUS
    <3>3. e \in Entry /\ KeyOf(e) = {x[1], x[2]} /\ Honest(e)
      BY <1>2, <1>4, <3>2, NewEntryOf
    <3>4. /\ Q.keys = P.keys \cup {{x[1], x[2]}} /\ Q.mutual = Append(P.mutual, e)
          /\ Q.oneWay = P.oneWay
      BY <1>4, <2>4, <3>1, <3>2, AddRowOf
    <3>5. KeysOf(Q.mutual) = KeysOf(P.mutual) \cup {{x[1], x[2]}} /\ Apart(Q.mutual)
      <4>1. KeyOf(e) \notin KeysOf(P.mutual) /\ Apart(P.mutual)
        BY <2>4, <3>3 DEF Found
      <4>2. PICK m : m = P.mutual
        OBVIOUS
      <4>3. KeysOf(Append(m, e)) = KeysOf(m) \cup {KeyOf(e)} /\ Apart(Append(m, e))
        BY <1>1, <3>3, <4>1, <4>2, AppendApart
      <4> QED
        BY <3>3, <3>4, <4>2, <4>3
    <3>6. ToSet(Q.mutual) = ToSet(P.mutual) \cup {e}
      BY <1>1, <3>3, <3>4, AppendOf
    <3> QED
      BY <2>1, <2>2, <3>1, <3>3, <3>4, <3>5, <3>6 DEF Found
  <2> QED
    BY <2>3, <2>4
<1> QED
  BY <1>3, <1>4

LEMMA PairsOf == Pairs \in PairsRecord /\ Found(Pairs, Seen)
<1>1. PICK q : q = Rows
  OBVIOUS
<1>2. q \in Seq(Ways) /\ ToSet(q) = Seen /\ IsInjective(q)
  BY <1>1, RowsOf
<1>3. PICK H \in [0..Len(q) -> PairsRecord] :
         /\ H[0] = NoPairs
         /\ \A i \in 1..Len(q) : H[i] = AddRow(H[i - 1], q[i])
         /\ Pairs = H[Len(q)]
  BY <1>1, PairsUnroll
<1> DEFINE P == {i \in 0..Len(q) : Found(H[i], FirstOf(q, i))}
<1>4. Len(q) \in Nat /\ DOMAIN q = 1..Len(q) /\ \A i \in 1..Len(q) : i - 1 \in 0..Len(q)
  BY <1>2
<1>5. 0 \in P
  <2>1. FirstOf(q, 0) = {} /\ 0 \in 0..Len(q)
    BY <1>2, <1>4, FirstOfs
  <2>2. Found(H[0], FirstOf(q, 0))
    BY <1>3, <2>1, NoneFound
  <2> QED
    BY <2>1, <2>2
<1>6. ASSUME NEW i \in 1..Len(q), Found(H[i - 1], FirstOf(q, i - 1)) PROVE Found(H[i], FirstOf(q, i))
  <2>1. FirstOf(q, i) = FirstOf(q, i - 1) \cup {q[i]} /\ q[i] \notin FirstOf(q, i - 1)
    BY <1>2, FirstOfs
  <2>2. q[i] \in Seen
    BY <1>2, <1>4 DEF ToSet
  <2>3. H[i - 1] \in PairsRecord
    BY <1>4
  <2>4. Found(AddRow(H[i - 1], q[i]), FirstOf(q, i - 1) \cup {q[i]})
    BY <1>6, <2>1, <2>2, <2>3, RowFound
  <2> QED
    BY <1>3, <2>1, <2>4
<1>7. 0..Len(q) \subseteq P
  <2>1. \A i \in 1..Len(q) : i - 1 \in P => i \in P
    BY <1>4, <1>6
  <2> HIDE DEF P
  <2> QED
    BY <1>4, <1>5, <2>1, UpTo
<1>8. Found(H[Len(q)], FirstOf(q, Len(q))) /\ H[Len(q)] \in PairsRecord
  BY <1>4, <1>7
<1> QED
  BY <1>2, <1>3, <1>8, FirstOfs

\* Each pair has two rows, one in each direction.
LEMMA TwoRows ==
    ASSUME NEW s \in Seq(Entry), Apart(s), \A e \in ToSet(s) : Honest(e),
           KeysOf(s) = {{x[1], x[2]} : x \in Both}
    PROVE  IsFiniteSet(Both) /\ Cardinality(Both) = 2 * Len(s)
<1> DEFINE there == [k \in 1..Len(s) |-> <<s[k].left, s[k].right>>]
           back == [k \in 1..Len(s) |-> <<s[k].right, s[k].left>>]
<1>1. /\ Len(s) \in Nat /\ DOMAIN s = 1..Len(s) /\ \A k \in 1..Len(s) : s[k] \in Entry /\ Honest(s[k])
  BY DEF ToSet
<1>2. \A k \in 1..Len(s) : s[k].left \in Radios /\ s[k].right \in Radios
  BY <1>1 DEF Entry
<1>3. \A k \in 1..Len(s) : <<s[k].left, s[k].right>> \in Both
  BY <1>1 DEF Honest
<1>4. \A x \in Both : x = <<x[1], x[2]>> /\ x[1] # x[2] /\ x[1] \in Radios /\ x[2] \in Radios
  BY VisibleOf DEF Both, Seen, Ways
<1>5. \A u, v \in Radios : <<u, v>> \in Both => <<v, u>> \in Both /\ u # v
  BY VisibleOf DEF Both, Seen, Ways
<1>6. there \in Seq(Ways) /\ back \in Seq(Ways) /\ Len(there) = Len(s) /\ Len(back) = Len(s)
  BY <1>1, <1>2 DEF Ways
<1>7. IsInjective(there) /\ IsInjective(back)
  <2>1. ASSUME NEW j \in 1..Len(s), NEW k \in 1..Len(s),
               s[j].left = s[k].left, s[j].right = s[k].right
        PROVE  j = k
    BY <2>1 DEF Apart, KeyOf
  <2> QED
    BY <2>1 DEF IsInjective
<1>8. ToSet(there) \cup ToSet(back) = Both
  <2>1. ToSet(there) \cup ToSet(back) \subseteq Both
    BY <1>2, <1>3, <1>5 DEF ToSet
  <2>2. ASSUME NEW x \in Both PROVE x \in ToSet(there) \cup ToSet(back)
    <3>1. {x[1], x[2]} \in KeysOf(s)
      OBVIOUS
    <3>2. PICK k \in 1..Len(s) : {x[1], x[2]} = {s[k].left, s[k].right}
      BY <3>1 DEF KeysOf, KeyOf
    <3>3. \/ x[1] = s[k].left /\ x[2] = s[k].right
          \/ x[1] = s[k].right /\ x[2] = s[k].left
      BY <3>2
    <3>4. x = there[k] \/ x = back[k]
      BY <1>4, <3>3
    <3> QED
      BY <3>4 DEF ToSet
  <2> QED
    BY <2>1, <2>2
<1>9. ToSet(there) \cap ToSet(back) = {}
  <2> SUFFICES ASSUME NEW j \in 1..Len(s), NEW k \in 1..Len(s), there[j] = back[k] PROVE FALSE
    BY DEF ToSet
  <2>1. s[j].left = s[k].right /\ s[j].right = s[k].left
    OBVIOUS
  <2>2. j = k
    BY <2>1 DEF Apart, KeyOf
  <2> QED
    BY <1>2, <1>3, <1>5, <2>1, <2>2
<1>10. /\ IsFiniteSet(ToSet(there)) /\ Cardinality(ToSet(there)) = Len(s)
       /\ IsFiniteSet(ToSet(back)) /\ Cardinality(ToSet(back)) = Len(s)
  <2> HIDE DEF there, back
  <2> QED
    BY <1>6, <1>7, OnceLen
<1> HIDE DEF there, back
<1>11. /\ IsFiniteSet(Both)
       /\ Cardinality(Both) = Cardinality(ToSet(there)) + Cardinality(ToSet(back))
                                - Cardinality(ToSet(there) \cap ToSet(back))
  BY <1>8, <1>10, FS_Union
<1>12. Cardinality(ToSet(there) \cap ToSet(back)) = 0
  BY <1>9, FS_EmptySet
<1> QED
  BY <1>1, <1>10, <1>11, <1>12

LEMMA KeysCounted ==
    ASSUME NEW s \in Seq(Entry), Apart(s)
    PROVE  Cardinality(KeysOf(s)) = Len(s)
<1>1. PICK keys : keys = [k \in 1..Len(s) |-> KeyOf(s[k])]
  OBVIOUS
<1>2. Len(s) \in Nat /\ \A k \in 1..Len(s) : s[k] \in Entry
  OBVIOUS
<1>3. \A k \in 1..Len(s) : KeyOf(s[k]) \in SUBSET Radios
  BY <1>2 DEF KeyOf, Entry
<1>4. keys \in Seq(SUBSET Radios) /\ Len(keys) = Len(s)
  BY <1>1, <1>2, <1>3
<1>5. ToSet(keys) = KeysOf(s)
  BY <1>1 DEF ToSet, KeysOf
<1>6. IsInjective(keys)
  BY <1>1 DEF IsInjective, Apart
<1> QED
  BY <1>4, <1>5, <1>6, OnceLen

\* A row without gaps marks all it hears.
LEMMA CoveredMarks ==
    ASSUME NEW r, Covered(r), NEW s \in Visible(r)
    PROVE  s \in Marked(r)
<1>1. /\ Marked(r) \subseteq Visible(r) /\ IsFiniteSet(Visible(r))
      /\ Cardinality(Visible(r)) - Cardinality(Marked(r)) = 0
  BY VisibleOf DEF Covered, Gaps
<1>2. /\ IsFiniteSet(Marked(r)) /\ Cardinality(Marked(r)) \in Nat /\ Cardinality(Visible(r)) \in Nat
      /\ Marked(r) # Visible(r) => Cardinality(Marked(r)) < Cardinality(Visible(r))
  BY <1>1, FS_Subset, FS_CardinalityType
<1>3. Marked(r) = Visible(r)
  BY <1>1, <1>2
<1> QED
  BY <1>3

\* The page counts each mutual pair once and each link of a row as mutual or
\* one-way, with the marks of the right side (api/app.py:1075-1130), for any
\* number of radios and whatever the copies of their NodeDBs say.
THEOREM PageAgrees == Spec => []VisibilityAgrees
<1> DEFINE mutual == {i \in SUBSET Radios : \E r, s \in i :
                         i = {r, s} /\ s \in Visible(r) /\ r \in Visible(s)}
           oneWay == {i \in Radios \X Radios : i[2] \in Visible(i[1]) /\ i[1] \notin Visible(i[2])}
<1>1. PICK pairs : pairs = Pairs
  OBVIOUS
<1>2. /\ pairs.mutual \in Seq(Entry) /\ pairs.oneWay \in Seq(Ways)
      /\ ToSet(pairs.oneWay) = Seen \ Both /\ IsInjective(pairs.oneWay)
      /\ KeysOf(pairs.mutual) = {{x[1], x[2]} : x \in Both}
      /\ Apart(pairs.mutual) /\ \A e \in ToSet(pairs.mutual) : Honest(e)
  <2>1. pairs.keys = {{x[1], x[2]} : x \in Seen \cap Both} /\ Seen \cap Both = Both
    BY <1>1, PairsOf DEF Found, Both
  <2> QED
    BY <1>1, <2>1, PairsOf DEF Found, PairsRecord
<1>3. PICK m : m = pairs.mutual
  OBVIOUS
<1>4. PICK o : o = pairs.oneWay
  OBVIOUS
<1>5. /\ DOMAIN m = 1..Len(m) /\ Len(m) \in Nat /\ DOMAIN o = 1..Len(o) /\ Len(o) \in Nat
      /\ \A k \in DOMAIN m : Honest(m[k])
  BY <1>2, <1>3, <1>4 DEF ToSet
<1>6. KeysOf(m) = mutual
  <2>1. ASSUME NEW x \in Both PROVE {x[1], x[2]} \in mutual
    <3>1. x[1] \in Radios /\ x[2] \in Radios /\ x[2] \in Visible(x[1]) /\ x[1] \in Visible(x[2])
      BY DEF Both, Seen, Ways
    <3> QED
      BY <3>1
  <2>2. ASSUME NEW r \in Radios, NEW s \in Radios, s \in Visible(r), r \in Visible(s)
        PROVE  {r, s} \in {{x[1], x[2]} : x \in Both}
    <3>1. <<r, s>> \in Both /\ <<r, s>>[1] = r /\ <<r, s>>[2] = s
      BY <2>2 DEF Both, Seen, Ways
    <3> QED
      BY <3>1
  <2>3. ASSUME NEW i \in mutual PROVE i \in {{x[1], x[2]} : x \in Both}
    <3>1. PICK r, s \in i : i = {r, s} /\ s \in Visible(r) /\ r \in Visible(s)
      OBVIOUS
    <3>2. r \in Radios /\ s \in Radios
      OBVIOUS
    <3>3. {r, s} \in {{x[1], x[2]} : x \in Both}
      BY <2>2, <3>1, <3>2
    <3> QED
      BY <3>1, <3>3
  <2>4. \A i \in {{x[1], x[2]} : x \in Both} : i \in mutual
    BY <2>1
  <2> QED
    BY <1>2, <1>3, <2>3, <2>4
<1>7. Len(m) = Cardinality(mutual)
  <2> HIDE DEF mutual
  <2> QED
    BY <1>2, <1>3, <1>6, KeysCounted
<1>8. ToSet(o) = oneWay
  BY <1>2, <1>4 DEF Seen, Both, Ways
<1>9. Len(o) = Cardinality(oneWay) /\ IsFiniteSet(oneWay)
  <2> HIDE DEF oneWay
  <2> QED
    BY <1>2, <1>4, <1>8, OnceLen
<1>10. Len(Rows) = 2 * Len(m) + Len(o)
  <2>1. Len(Rows) = Cardinality(Seen)
    BY RowsOf, OnceLen
  <2>2. IsFiniteSet(Both) /\ Cardinality(Both) = 2 * Len(m)
    BY <1>2, <1>3, TwoRows
  <2>3. Seen = Both \cup ToSet(o) /\ Both \cap ToSet(o) = {} /\ IsFiniteSet(ToSet(o))
    BY <1>2, <1>4, <1>8, <1>9 DEF Both
  <2>4. Cardinality(Seen) = Cardinality(Both) + Cardinality(ToSet(o)) - Cardinality(Both \cap ToSet(o))
    BY <2>2, <2>3, FS_Union
  <2>5. Cardinality(Both \cap ToSet(o)) = 0 /\ Cardinality(ToSet(o)) = Len(o)
    BY <1>8, <1>9, <2>3, FS_EmptySet
  <2> QED
    BY <1>5, <2>1, <2>2, <2>4, <2>5
<1>11. {{m[i].left, m[i].right} : i \in DOMAIN m} = KeysOf(m)
  BY <1>5 DEF KeysOf, KeyOf
<1>12. ASSUME NEW r \in Radios, Covered(r), NEW i \in DOMAIN m
       PROVE  (m[i].left = r => m[i].leftMarks) /\ (m[i].right = r => m[i].rightMarks)
  <2>1. /\ <<m[i].left, m[i].right>> \in Both
        /\ m[i].leftMarks = (m[i].right \in Marked(m[i].left))
        /\ m[i].rightMarks = (m[i].left \in Marked(m[i].right))
    BY <1>5 DEF Honest
  <2>2. m[i].right \in Visible(m[i].left) /\ m[i].left \in Visible(m[i].right)
    BY <2>1 DEF Both, Seen
  <2>3. m[i].left = r => m[i].right \in Marked(m[i].left)
    BY <1>12, <2>2, CoveredMarks
  <2>4. m[i].right = r => m[i].left \in Marked(m[i].right)
    BY <1>12, <2>2, CoveredMarks
  <2> QED
    BY <2>1, <2>3, <2>4, Zenon
<1>13. VisibilityAgrees
  <2> HIDE DEF mutual, oneWay
  <2>1. m = Pairs.mutual /\ o = Pairs.oneWay
    BY <1>1, <1>3, <1>4
  <2>2. /\ {{m[i].left, m[i].right} : i \in DOMAIN m} = mutual
        /\ Len(m) = Cardinality(mutual)
        /\ ToSet(o) = oneWay /\ Len(o) = Cardinality(oneWay)
        /\ Len(Rows) = 2 * Len(m) + Len(o)
        /\ \A r \in Radios : Covered(r) =>
              \A i \in DOMAIN m :
                 /\ m[i].left = r => m[i].leftMarks
                 /\ m[i].right = r => m[i].rightMarks
    BY <1>6, <1>7, <1>8, <1>9, <1>10, <1>11, <1>12
  <2>3. /\ {{Pairs.mutual[i].left, Pairs.mutual[i].right} : i \in DOMAIN Pairs.mutual} = mutual
        /\ Len(Pairs.mutual) = Cardinality(mutual)
        /\ ToSet(Pairs.oneWay) = oneWay /\ Len(Pairs.oneWay) = Cardinality(oneWay)
        /\ Len(Rows) = 2 * Len(Pairs.mutual) + Len(Pairs.oneWay)
        /\ \A r \in Radios : Covered(r) =>
              \A i \in DOMAIN Pairs.mutual :
                 /\ Pairs.mutual[i].left = r => Pairs.mutual[i].leftMarks
                 /\ Pairs.mutual[i].right = r => Pairs.mutual[i].rightMarks
    BY <2>1, <2>2, Zenon
  <2> QED
    BY <2>3, Zenon DEF VisibilityAgrees, mutual, oneWay
<1> QED
  BY <1>13, PTL
=============================================================================
