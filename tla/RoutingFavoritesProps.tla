----------------------- MODULE RoutingFavoritesProps -----------------------
(* What NodeDB jobs may change and what a favourite refresh achieves.      *)
EXTENDS RoutingFavorites

\* Whose entries differ between two NodeDBs.
Touched(d, e) ==
    {p \in Peers : \/ (p \in d.seen) # (p \in e.seen)
                   \/ (p \in d.near) # (p \in e.near)
                   \/ (p \in d.fav) # (p \in e.fav)}

\* A job changes a NodeDB only on one of its destinations, only for its targets
\* and not in a dry run; a bulk job never touches the entry of the radio
\* itself, although the targets of one destination are what all of them hear,
\* so that each hears some other one (exclude_self, jobs/queue.py:139-141).
OnlyTargets ==
    [][events' = events =>
         \A r \in Radios : \A p \in Touched(nodeDB[r], nodeDB'[r]) :
            \E w \in Workers : LET job == running[w] IN
                /\ wpc[w] = "target" /\ r = Head(left[w]) /\ ~job.dry
                /\ r \in job.dests /\ p \in job.targets
                /\ job.bulk => p # r]_vars

\* A destination that counts as done had each of its targets as the action
\* wants it, at some time of the job: one target that failed is not covered by
\* the others that did not (operations/service.py:214-240).  Other jobs may
\* change the same flags meanwhile, so not necessarily all at one time.
SuccessIsReached ==
    \A w \in Workers :
        wpc[w] = "target" /\ togo[w] = {} /\ ~refused[w] /\ ~running[w].dry =>
            TargetsOn(w, Head(left[w])) \subseteq reached[w]

\* When the jobs of an undisturbed refresh that removes what is not heard have
\* ended, in whatever order and however they overlapped, each radio marks, of
\* the roles asked for, just the nodes that some source hears directly
\* (app.py:2604-2647: the sets of the two jobs are disjoint).
RefreshSettles ==
    refresh.on /\ Quiet =>
        \A r \in refresh.dests :
            (nodeDB[r].fav \cap refresh.roles) \ {r} = (refresh.targets \cap nodeDB[r].seen) \ {r}

\* Then the inventory knows it too, of each destination that the last sync_all
\* of the jobs found reachable (jobs/queue.py:185-187, sync/service.py:58), and
\* the visibility page shows no gap: each managed neighbour is marked.  This
\* holds for jobs on two threads at once, whose synchronisations interleave
\* with the changes of the other, and next to those of the scheduler; only
\* what was read before a change and stored after it (late) may be what the
\* inventory is left with.
RefreshShows ==
    refresh.on /\ Quiet =>
        \A r \in (refresh.dests \cap refresh.synced) \ refresh.late :
            /\ copy[r] = nodeDB[r]
            /\ refresh.roles = Peers => Gaps(r) = 0

\* The page counts each mutual pair once, whichever side it is met from, and
\* every link of a row as mutual or one-way, with the marks of the right side
\* (app.py:1084-1142).
VisibilityAgrees ==
    LET mutual == {i \in SUBSET Radios : \E r, s \in i :
                       i = {r, s} /\ s \in Visible(r) /\ r \in Visible(s)}
        oneWay == {i \in Radios \X Radios : i[2] \in Visible(i[1]) /\ i[1] \notin Visible(i[2])}
        pairs == Pairs
        Kept(i) == pairs.mutual[i]
    IN /\ {{Kept(i).left, Kept(i).right} : i \in DOMAIN pairs.mutual} = mutual
       /\ Len(pairs.mutual) = Cardinality(mutual)
       /\ ToSet(pairs.oneWay) = oneWay /\ Len(pairs.oneWay) = Cardinality(oneWay)
       /\ Len(Rows) = 2 * Len(pairs.mutual) + Len(pairs.oneWay)
       /\ \A r \in Radios : Covered(r) =>
             \A i \in DOMAIN pairs.mutual :
                /\ Kept(i).left = r => Kept(i).leftMarks
                /\ Kept(i).right = r => Kept(i).rightMarks

\* A thread that has taken a job is free again some time, also when radios
\* refuse what they are told or do not answer.
JobsEnd == \A w \in Workers : wpc[w] # "idle" ~> wpc[w] = "idle"
=============================================================================
