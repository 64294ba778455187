-------------------------- MODULE FleetConfigProps --------------------------
(* What reaches the radios of a fleet.                                     *)
EXTENDS FleetConfig

Setting(r, p) ==
    CASE p[1] = "local" -> r.local[p[2]][p[3]]
      [] p[1] = "module" -> r.module[p[2]][p[3]]
      [] p[1] = "channels" -> r.channels[p[2]][p[3]]

Fields(shape, name) == {<<name, q[1], q[2]>> : q \in UNION {{s} \X shape[s] : s \in DOMAIN shape}}
AllFields == Fields(LocalFields, "local") \cup Fields(ModuleFields, "module")
               \cup {<<"channels", i, f>> : i \in Channels, f \in ChannelFields}

\* A job writes to each node what the request asked for and, under it, what is
\* cloned when the job runs, field by field, and leaves every other field of the
\* radio and of its copy alone: however sections and channels nest, nothing beside
\* a field that is set gets lost or moves to another channel on its way through
\* the merges (app.py:593-631, queue.py:566-597, operations/service.py:19-55).
\* Module sections with a name in two words reach the copy only.
AsReviewed ==
    [][working /\ left # <<>> /\ left' = Tail(left) /\ (radio' # radio \/ copy' # copy) =>
         LET n == Head(left) IN
         /\ \A p \in AllFields :
              Setting(radio'[n], p) =
                IF p \in DOMAIN current /\ (p[1] = "module" => p[2] # "ambientLighting") THEN current[p]
                ELSE Setting(radio[n], p)
         /\ Shown(copy'[n]) = Over(current, Shown(copy[n]))]_vars

\* No radio ever gets the private key of another, whatever is cloned from where
\* (queue.py:600-607, the profile of app.py:1244-1259).
KeysStayPut == \A n \in Nodes : radio[n].local.security.privateKey = Keys[n]

\* After a synchronisation with the alignment profile, with no other job or change
\* of a radio and no node failing, the radio of every target agrees with that of the
\* source in each of the profile's local fields that the source has off its default,
\* and the comparison with the same profile shows both as the same
\* (app.py:1314-1371, 2236-2257): although one part is computed from the copies
\* when it is asked for and the other when the job runs, and synchronisations read
\* radios before the job has written them and store their copies after it.  Only a
\* copy that was last stored so, after its radio had changed, may show a difference,
\* and only such a copy of the source leads the job itself astray.
AlignedMatch ==
    aligned.on /\ ~working /\ queue = <<>> =>
        \A n \in aligned.nodes :
            /\ {aligned.source, n} \cap late = {} => AlignmentDifferences(copy[aligned.source], copy[n]) = {}
            /\ \A p \in ComparedFields \ {<<"channels", 0, "uplinkEnabled">>} :
                  Setting(radio[aligned.source], p) \in {0, Setting(radio[n], p)}
=============================================================================
