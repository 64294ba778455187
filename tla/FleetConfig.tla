---------------------------- MODULE FleetConfig ----------------------------
(***************************************************************************)
(* How the pages of api/app.py turn forms into patches, how the jobs merge *)
(* them with what is cloned from another node, and what comes out on the   *)
(* radios and in the inventory's copies of their configuration: batch      *)
(* changes, the synchronisation of nodes with a source node, the page of   *)
(* one node and the saved default settings.                                *)
(*                                                                         *)
(* A configuration is kept by section and field.  The fields stand for     *)
(* those the code treats alike; 0 is the default of every field, which a   *)
(* radio leaves out when it reports its configuration.                     *)
(***************************************************************************)
EXTENDS Lists, Naturals, Sequences, FiniteSets, SequencesExt

CONSTANTS
    Nodes,
    Order,        \* all nodes, in the order of lists
    Keys,         \* private key of each node
    Starts,       \* configurations the radios may have to begin with, but for the keys
    Patches,      \* what operators write into the JSON fields
    Forms,        \* what they fill in the other fields
    Targets,      \* sets of nodes they choose
    Selections,   \* which parts they tick to be cloned or compared
    Syncers,      \* threads that synchronise nodes
    MaxRequests,  \* bound: requests
    MaxPages,     \* bound: pages open at a time
    MaxEvents     \* bound: pages opened, radios read, and changes made on them by other means

LocalFields == [lora |-> {"hopLimit", "txPower"}, device |-> {"role"}, security |-> {"privateKey"}]
ModuleFields == [telemetry |-> {"deviceUpdateInterval"}, ambientLighting |-> {"blue"}]
ChannelFields == {"uplinkEnabled"}
NoNumbers == {"role", "uplinkEnabled"}  \* the fields that are not numbers
Channels == {0, 1}
Values == 0..3
Switch == {0, 1}

\* Some of the fields have a value; or every one.
IsPart(t, shape) ==
    \A s \in DOMAIN t : s \in DOMAIN shape /\ DOMAIN t[s] \subseteq shape[s]
                        /\ \A f \in DOMAIN t[s] : t[s][f] \in Values
IsFull(t, shape) ==
    IsPart(t, shape) /\ DOMAIN t = DOMAIN shape /\ \A s \in DOMAIN t : DOMAIN t[s] = shape[s]
\* A channel of a list has an index or, as a radio reports channel 0, none.
IsRow(row) == /\ row.index \in {{}} \cup {{i} : i \in Channels}
              /\ DOMAIN row.settings \subseteq ChannelFields
              /\ \A f \in DOMAIN row.settings : row.settings[f] \in Switch
IsConfig(c) == /\ IsPart(c.local, LocalFields) /\ IsPart(c.module, ModuleFields)
               /\ c.channels \in Seq({c.channels[i] : i \in DOMAIN c.channels})
               /\ \A i \in DOMAIN c.channels : IsRow(c.channels[i])
IsRadio(r) == /\ r = [local |-> r.local, module |-> r.module, channels |-> r.channels]
              /\ IsFull(r.local, LocalFields) /\ IsFull(r.module, ModuleFields)
              /\ r.channels \in [Channels -> [ChannelFields -> Switch]]

EmptyPatch == [local |-> <<>>, module |-> <<>>, channels |-> <<>>]
NoForm == [hopLimit |-> {}, interval |-> {}, uplink |-> {}]

ASSUME FleetConfigAssumption ==
    /\ Order \in Seq(Nodes) /\ ToSet(Order) = Nodes /\ IsInjective(Order)
    /\ Keys \in [Nodes -> Values \ {0}]
    /\ \A start \in Starts : \A n \in Nodes : IsRadio(start[n])
    /\ \A p \in Patches : IsConfig(p) /\ "security" \notin DOMAIN p.local
    /\ Forms \subseteq [hopLimit : SUBSET Values, interval : SUBSET Values, uplink : SUBSET Switch]
    /\ Targets \subseteq (SUBSET Nodes) \ {{}}
    /\ Selections \subseteq [source : {{}}, local : BOOLEAN, module : BOOLEAN, channels : BOOLEAN, role : BOOLEAN]
    /\ MaxRequests \in Nat /\ MaxPages \in Nat /\ MaxEvents \in Nat

VARIABLES
    radio,      \* configurations of the radios
    copy,       \* raw_metadata: what the inventory has of them
    defaults,   \* the saved default settings, if there are any
    queue,      \* jobs: [nodes, base, clone, asked], the latter history
    working,    \* a job is running
    patch,      \* the patch it writes to each of its nodes
    left,       \* nodes it has still to do
    pages,      \* structured editors in browsers: [node, found], the copy as it was shown
    fetched,    \* what each synchronisation has read and not stored yet: [node, found]
    requests, events,  \* counters for the bounds
    current,    \* history: the settings that the running job is to write
    late,       \* history: nodes whose copy was last read from the radio too early,
                \* it has changed before the reading was stored
    aligned     \* history: the last synchronisation with the alignment profile,
                \* as long as nothing disturbs it

jobVars == <<queue, working, patch, left>>
readings == <<pages, fetched>>
vars == <<radio, copy, defaults, jobVars, readings, requests, events, current, late, aligned>>

NoClone == [source |-> {}, local |-> FALSE, module |-> FALSE, channels |-> FALSE, role |-> FALSE]
NoAlignment == [on |-> FALSE, source |-> Order[1], nodes |-> {}]

Restrict2(t, keep(_, _)) ==
    [s \in DOMAIN t |-> [f \in {f \in DOMAIN t[s] : keep(s, f)} |-> t[s][f]]]

\* MessageToDict: defaults are left out, also the index of channel 0.
Report(r) ==
    [local |-> Restrict2(r.local, LAMBDA s, f : r.local[s][f] # 0),
     module |-> Restrict2(r.module, LAMBDA s, f : r.module[s][f] # 0),
     channels |-> [i \in 1..2 |->
        [index |-> {i - 1} \ {0},
         settings |-> [f \in {f \in ChannelFields : r.channels[i - 1][f] # 0} |-> r.channels[i - 1][f]]]]]

Init ==
    /\ \E start \in Starts :
          radio = [n \in Nodes |-> [local |-> [start[n].local EXCEPT !["security"] = [privateKey |-> Keys[n]]],
                                    module |-> start[n].module, channels |-> start[n].channels]]
    /\ copy = [n \in Nodes |-> Report(radio[n])]
    /\ defaults = {}
    /\ queue = <<>> /\ working = FALSE /\ patch = EmptyPatch /\ left = <<>>
    /\ pages = {} /\ fetched = [y \in Syncers |-> {}]
    /\ requests = 0 /\ events = 0
    /\ current = <<>> /\ late = {}
    /\ aligned = NoAlignment

-----------------------------------------------------------------------------
(* Merging: _merge_patch, _merge_dict and _deep_merge_dict; and the lists  *)
(* of channels, which are merged by their index.                           *)

\* What f has, and of what it leaves open what g has.
Over(f, g) == [x \in DOMAIN f \cup DOMAIN g |-> IF x \in DOMAIN f THEN f[x] ELSE g[x]]

Merge(base, extra) ==
    [s \in DOMAIN base \cup DOMAIN extra |->
        IF s \notin DOMAIN extra THEN base[s]
        ELSE IF s \notin DOMAIN base THEN extra[s]
        ELSE Over(extra[s], base[s])]

\* The rows that have an index, and which.
Given(rows) ==
    [k \in {k \in DOMAIN rows : rows[k].index # {}} |-> CHOOSE i \in rows[k].index : TRUE]

\* A row without an index counts by its place.
Places(rows) ==
    [k \in DOMAIN rows |-> IF rows[k].index = {} THEN k - 1 ELSE CHOOSE i \in rows[k].index : TRUE]

\* Rows by their index: a later one replaces an earlier one of the same index.
ByIndex(rows, at) == [i \in Range(at) |-> rows[Max({k \in DOMAIN at : at[k] = i})]]

Indexed(rows) == Keep(rows, {rows[k] : k \in DOMAIN Given(rows)})

\* Settings, and over them what items say of channel i, the later the stronger.
Override(settings, items, i) ==
    LET own == {k \in DOMAIN Given(items) : Given(items)[k] = i}
        having(f) == {k \in own : f \in DOMAIN items[k].settings}
    IN [f \in DOMAIN settings \cup UNION {DOMAIN items[k].settings : k \in own} |->
           IF having(f) = {} THEN settings[f] ELSE items[Max(having(f))].settings[f]]

AsList(rows) == LET order == Keep(<<0, 1>>, DOMAIN rows) IN [k \in DOMAIN order |-> rows[order[k]]]

MergeRows(rows, items) ==
    AsList([i \in DOMAIN rows \cup Range(Given(items)) |->
        IF i \notin Range(Given(items)) THEN rows[i]
        ELSE [index |-> {i},
              settings |-> Override(IF i \in DOMAIN rows THEN rows[i].settings ELSE <<>>, items, i)]])

\* _merge_list_patch, _merge_channels_patch: rows without an index are dropped.
MergePatchRows(base, extra) == MergeRows(ByIndex(base, Given(base)), extra)

MergeCopyRows_mutant(rows, extra) == MergePatchRows(rows, extra)

\* _merge_channels: they are kept.
MergeCopyRows(rows, extra) == MergeRows(ByIndex(rows, Places(rows)), extra)

MergePatches_mutant(base, extra) ==
    [local |-> Merge(extra.local, base.local), module |-> Merge(extra.module, base.module),
     channels |-> MergePatchRows(base.channels, extra.channels)]

MergePatches(base, extra) ==
    [local |-> Merge(base.local, extra.local), module |-> Merge(base.module, extra.module),
     channels |-> MergePatchRows(base.channels, extra.channels)]

-----------------------------------------------------------------------------
(* The fields of a configuration one by one, with those of the channels as *)
(* they are in the rows by index.                                          *)

Paths(t) == UNION {{s} \X DOMAIN t[s] : s \in DOMAIN t}

Settings(rows) == [i \in DOMAIN rows |-> rows[i].settings]

Flat(c, rows) ==
    LET local == [p \in {<<"local", q[1], q[2]>> : q \in Paths(c.local)} |-> c.local[p[2]][p[3]]]
        module == [p \in {<<"module", q[1], q[2]>> : q \in Paths(c.module)} |-> c.module[p[2]][p[3]]]
        channels == [p \in {<<"channels", q[1], q[2]>> : q \in Paths(Settings(rows))} |->
                        Settings(rows)[p[2]][p[3]]]
    IN Over(local, Over(module, channels))

\* What a patch says.
Explicit(c) == Flat(c, ByIndex(c.channels, Given(c.channels)))

\* As the comparison sees a copy: channels without an index by their place.
Shown(c) == Flat(c, ByIndex(c.channels, Places(c.channels)))

-----------------------------------------------------------------------------
(* Forms.                                                                  *)

Section(s, f, given) ==
    [t \in IF given = {} THEN {} ELSE {s} |-> [g \in {f} |-> CHOOSE v \in given : TRUE]]

PrimaryChannel(form) ==
    IF form.uplink = {} THEN <<>>
    ELSE << [index |-> {0}, settings |-> [uplinkEnabled |-> CHOOSE v \in form.uplink : TRUE]] >>

\* The page of one node and the default settings take every number.
FormPatch(form) ==
    [local |-> Section("lora", "hopLimit", form.hopLimit),
     module |-> Section("telemetry", "deviceUpdateInterval", form.interval),
     channels |-> PrimaryChannel(form)]

\* The batch form drops a hop limit of 0.
BaselinePatch(form) == FormPatch([form EXCEPT !.hopLimit = @ \ {0}])

-----------------------------------------------------------------------------
(* The alignment profile.                                                  *)

AlignedFields == {<<"lora", "hopLimit">>, <<"device", "role">>}
OmittedFields == {<<"ambientLighting", "blue">>}
ComparedFields == {<<"local", q[1], q[2]>> : q \in AlignedFields}
                    \cup {<<"module", "telemetry", "deviceUpdateInterval">>}
                    \cup {<<"channels", i, "uplinkEnabled">> : i \in Channels}

AlignmentLocal_mutant(c) == [s \in {"lora"} \cap DOMAIN c.local |-> c.local[s]]

AlignmentLocal(c) ==
    LET t == Restrict2(c.local, LAMBDA s, f : <<s, f>> \in AlignedFields)
    IN [s \in {s \in DOMAIN t : DOMAIN t[s] # {}} |-> t[s]]

AlignmentModule(c) == Restrict2(c.module, LAMBDA s, f : <<s, f>> \notin OmittedFields)

-----------------------------------------------------------------------------
(* Requests.                                                               *)

InOrder(N) == Keep(Order, N)

Queue(N, base, clone, asked) ==
    /\ requests < MaxRequests /\ requests' = requests + 1
    /\ queue' = Append(queue, [nodes |-> InOrder(N), base |-> base, clone |-> clone, asked |-> asked])
    /\ UNCHANGED <<radio, copy, working, patch, left, fetched, events>>

Clones == {[select EXCEPT !.source = {n}] : select \in Selections, n \in Nodes} \cup {NoClone}

BatchConfigure == \E N \in Targets, json \in Patches, form \in Forms, clone \in Clones :
    LET base == MergePatches(json, BaselinePatch(form)) IN
    /\ Queue(N, base, clone, Over(Explicit(BaselinePatch(form)), Explicit(json)))
    /\ base # EmptyPatch \/ clone # NoClone
    /\ UNCHANGED <<defaults, pages>>

\* Compare, then synchronise with the source node.
CompareSync(source, N, alignment, select) ==
    LET base == [local |-> IF alignment /\ select.local THEN AlignmentLocal(copy[source]) ELSE <<>>,
                 module |-> IF alignment /\ select.module THEN AlignmentModule(copy[source]) ELSE <<>>,
                 channels |-> <<>>]
    IN /\ select.local \/ select.module \/ select.channels
       /\ Queue(N, base, [source |-> {source}, local |-> select.local /\ ~alignment,
                          module |-> select.module /\ ~alignment,
                          channels |-> select.channels, role |-> FALSE],
                Explicit(base))
       /\ UNCHANGED <<defaults, pages>>

\* The page of one node has JSON fields for the whole configuration as well,
\* under those for changes.  Rows are merged only where there is something under
\* them or over them: a list that stands alone goes on as it was typed.
NodePatch(whole, json, form) ==
    LET extra == FormPatch(form)
        rows == IF whole.channels = <<>> THEN json.channels
                ELSE MergePatchRows(whole.channels, json.channels)
    IN [local |-> Merge(Merge(whole.local, json.local), extra.local),
        module |-> Merge(Merge(whole.module, json.module), extra.module),
        channels |-> IF extra.channels = <<>> THEN rows ELSE MergePatchRows(rows, extra.channels)]

NodeConfigure == \E n \in Nodes, whole \in Patches, json \in Patches, form \in Forms :
    /\ Queue({n}, NodePatch(whole, json, form), NoClone,
             Over(Explicit(FormPatch(form)), Over(Explicit(json), Explicit(whole))))
    /\ UNCHANGED <<defaults, pages>>

\* The structured editor is rendered from the copy; older pages stay open or not.
OpenPage == \E n \in Nodes, kept \in SUBSET pages :
    /\ events < MaxEvents /\ events' = events + 1
    /\ Cardinality(kept) < MaxPages
    /\ pages' = kept \cup {[node |-> n, found |-> copy[n]]}
    /\ UNCHANGED <<radio, copy, defaults, jobVars, fetched, requests>>

\* It shows every field but the secret ones.  A choice that the copy leaves out
\* stands at its first value, a number is an empty field.
Fill(t, shape) ==
    [s \in DOMAIN shape |->
        [f \in {f \in shape[s] : f \in NoNumbers \/ (s \in DOMAIN t /\ f \in DOMAIN t[s])} |->
            IF s \in DOMAIN t /\ f \in DOMAIN t[s] THEN t[s][f] ELSE 0]]

EditorPatch(c) ==
    [local |-> Fill(c.local, [s \in DOMAIN LocalFields \ {"security"} |-> LocalFields[s]]),
     module |-> Fill(c.module, ModuleFields),
     channels |-> LET rows == Indexed(c.channels) IN
                  [k \in DOMAIN rows |-> [index |-> rows[k].index,
                                              settings |-> Over(rows[k].settings, [f \in ChannelFields |-> 0])]]]

\* No field is empty.
Complete(p) ==
    /\ \A s \in DOMAIN LocalFields \ {"security"} : LocalFields[s] \subseteq DOMAIN p.local[s]
    /\ \A s \in DOMAIN ModuleFields : ModuleFields[s] \subseteq DOMAIN p.module[s]

\* All of them are sent, not only those that were changed, as they were when the
\* page was rendered.  An empty number is an error: no job.
StructuredConfigure == \E page \in pages, typed \in Patches :
    LET edited == [local |-> typed.local, module |-> typed.module, channels |-> <<>>]
        sent == MergePatches(EditorPatch(page.found), edited)
    IN /\ pages' = pages \ {page}
       /\ \/ /\ Complete(sent)
             /\ Queue({page.node}, sent, NoClone, Over(Explicit(edited), Explicit(EditorPatch(page.found))))
             /\ UNCHANGED defaults
          \/ /\ ~Complete(sent)
             /\ UNCHANGED <<radio, copy, defaults, jobVars, fetched, requests, events>>

SaveDefaults == \E form \in Forms :
    /\ requests < MaxRequests /\ requests' = requests + 1
    /\ defaults' = {FormPatch(form)}
    /\ UNCHANGED <<radio, copy, jobVars, readings, events>>

ApplyDefaults == \E saved \in defaults :
    /\ Queue(Nodes, saved, NoClone, Explicit(saved))
    /\ UNCHANGED <<defaults, pages>>

-----------------------------------------------------------------------------
(* Jobs.                                                                   *)

Sanitize_mutant(local, role) ==
    Restrict2(local, LAMBDA s, f : <<s, f>> = <<"device", "role">> => role)

\* Private keys are never cloned, the role only when asked for.
Sanitize(local, role) ==
    Restrict2([s \in DOMAIN local \ {"security"} |-> local[s]],
              LAMBDA s, f : <<s, f>> = <<"device", "role">> => role)

\* What is cloned from the source's copy.  A row of channels without an index is
\* not, so channel 0 only if a patch has put it into the copy.
Cloned(clone) ==
    LET c == copy[CHOOSE n \in clone.source : TRUE] IN
    IF clone.source = {} THEN EmptyPatch
    ELSE [local |-> IF clone.local THEN Sanitize(c.local, clone.role) ELSE <<>>,
          module |-> IF clone.module THEN c.module ELSE <<>>,
          channels |-> IF clone.channels THEN Indexed(c.channels) ELSE <<>>]

\* The source is read when the job runs, not when it was asked for.  Where
\* nothing is cloned, the rows of a list are merged only among themselves, which
\* radios and copies would do with them as well.
StartJob ==
    /\ ~working /\ queue # <<>>
    /\ working' = TRUE
    /\ patch' = MergePatches(Cloned(Head(queue).clone), Head(queue).base)
    /\ left' = Head(queue).nodes
    /\ queue' = Tail(queue)
    /\ UNCHANGED <<radio, copy, defaults, readings, requests, events>>

\* Sections whose name in Python differs from the name in the patch are passed
\* over (ambientLighting, ambient_lighting).
Sent(p) == [local |-> p.local, module |-> [s \in DOMAIN p.module \ {"ambientLighting"} |-> p.module[s]],
            channels |-> p.channels]

\* What becomes of a radio and of a copy.
Written(r, p) == [local |-> Merge(r.local, p.local), module |-> Merge(r.module, p.module),
                  channels |-> [i \in Channels |-> Override(r.channels[i], p.channels, i)]]

Patched(c, p) == [local |-> Merge(c.local, p.local), module |-> Merge(c.module, p.module),
                  channels |-> MergeCopyRows(c.channels, p.channels)]

\* apply_patch on the next node: the radio is written, then the copy read before is
\* merged and stored.  A synchronisation that stores its reading in between is
\* overwritten, as if it had failed.
PatchNode ==
    LET n == Head(left) IN
    /\ working /\ left # <<>>
    /\ radio' = [radio EXCEPT ![n] = Written(radio[n], Sent(patch))]
    /\ copy' = [copy EXCEPT ![n] = Patched(copy[n], patch)]
    /\ left' = Tail(left)
    /\ UNCHANGED <<defaults, queue, working, patch, readings, requests, events>>

\* No connection: the node is left as it is, the job goes on.
PatchFails ==
    /\ working /\ left # <<>>
    /\ left' = Tail(left)
    /\ UNCHANGED <<radio, copy, defaults, queue, working, patch, readings, requests, events>>

EndJob ==
    /\ working /\ left = <<>>
    /\ working' = FALSE /\ patch' = EmptyPatch
    /\ UNCHANGED <<radio, copy, defaults, queue, left, readings, requests, events>>

\* A synchronisation, by the scheduler or a job, reads a radio over its session ...
Fetch(y) == \E n \in Nodes :
    /\ events < MaxEvents /\ events' = events + 1
    /\ fetched[y] = {} /\ fetched' = [fetched EXCEPT ![y] = {[node |-> n, found |-> Report(radio[n])]}]
    /\ UNCHANGED <<radio, copy, defaults, jobVars, pages, requests>>

\* ... and replaces the copy by what it has read, whatever the copy is by now ...
Store(y, reading) ==
    /\ fetched' = [fetched EXCEPT ![y] = {}]
    /\ copy' = [copy EXCEPT ![reading.node] = reading.found]
    /\ UNCHANGED <<radio, defaults, jobVars, pages, requests, events>>

\* ... unless the transaction fails.
SyncFails(y) ==
    /\ fetched[y] # {} /\ fetched' = [fetched EXCEPT ![y] = {}]
    /\ UNCHANGED <<radio, copy, defaults, jobVars, pages, requests, events>>

\* Somebody takes a setting of a radio back to its default with another program.
RadioChanges == \E n \in Nodes, form \in {[NoForm EXCEPT !.hopLimit = {0}], [NoForm EXCEPT !.uplink = {0}]} :
    /\ events < MaxEvents /\ events' = events + 1
    /\ radio' = [radio EXCEPT ![n] = Written(radio[n], FormPatch(form))]
    /\ UNCHANGED <<copy, defaults, jobVars, readings, requests>>

-----------------------------------------------------------------------------
(* The comparison of two nodes.                                            *)

\* Where they differ.
Differences(a, b) ==
    LET x == Shown(a) y == Shown(b) IN
    {p \in DOMAIN x \cup DOMAIN y :
        ~(p \in DOMAIN x /\ p \in DOMAIN y) \/ x[p] # y[p]}

\* With the alignment profile: only its fields, and only where both have one.
AlignmentDifferences(a, b) ==
    Differences(a, b) \cap ComparedFields \cap DOMAIN Shown(a) \cap DOMAIN Shown(b)

-----------------------------------------------------------------------------
(* History.                                                                *)

Accurate(N) == \A n \in N : copy[n] = Report(radio[n])

CompareSyncRequest ==
    \E source \in Nodes, N \in Targets, alignment \in BOOLEAN, select \in Selections :
        /\ CompareSync(source, N, alignment, select)
        /\ aligned' = IF /\ alignment /\ select.local /\ select.module /\ select.channels
                         /\ ~working /\ queue = <<>> /\ Accurate({source} \cup N)
                      THEN [on |-> TRUE, source |-> source, nodes |-> N]
                      ELSE NoAlignment

Outdated(reading) ==
    IF reading.found = Report(radio[reading.node]) THEN late \ {reading.node} ELSE late \cup {reading.node}

Next ==
    \/ /\ BatchConfigure \/ NodeConfigure \/ StructuredConfigure \/ SaveDefaults \/ ApplyDefaults \/ RadioChanges
       /\ aligned' = NoAlignment /\ UNCHANGED <<current, late>>
    \/ CompareSyncRequest /\ UNCHANGED <<current, late>>
    \/ /\ OpenPage \/ \E y \in Syncers : Fetch(y) \/ SyncFails(y)
       /\ UNCHANGED <<current, late, aligned>>
    \/ /\ \E y \in Syncers : \E reading \in fetched[y] : Store(y, reading) /\ late' = Outdated(reading)
       /\ UNCHANGED <<current, aligned>>
    \/ /\ StartJob
       /\ current' = Over(Head(queue).asked, Explicit(Cloned(Head(queue).clone)))
       /\ aligned' = IF aligned.source \in late THEN NoAlignment ELSE aligned
       /\ UNCHANGED late
    \/ PatchNode /\ UNCHANGED <<current, late, aligned>>
    \/ PatchFails /\ aligned' = NoAlignment /\ UNCHANGED <<current, late>>
    \/ EndJob /\ current' = <<>> /\ UNCHANGED <<late, aligned>>

Spec == Init /\ [][Next]_vars

\* A copy lists both channels in order; only the first may lack its index.
IsCopy(c) == /\ IsConfig(c) /\ Len(c.channels) = 2
             /\ c.channels[1].index \subseteq {0} /\ c.channels[2].index = {1}

TypeOK ==
    /\ \A n \in Nodes : IsRadio(radio[n]) /\ IsCopy(copy[n])
    /\ Cardinality(defaults) <= 1 /\ (\A saved \in defaults : IsConfig(saved)) /\ IsConfig(patch)
    /\ \A i \in DOMAIN queue : IsConfig(queue[i].base) /\ queue[i].nodes \in Seq(Nodes)
    /\ working \in BOOLEAN /\ left \in Seq(Nodes)
    /\ \A page \in pages : page.node \in Nodes /\ IsCopy(page.found)
    /\ \A y \in Syncers : \A reading \in fetched[y] : reading.node \in Nodes /\ IsCopy(reading.found)
    /\ requests \in 0..MaxRequests /\ events \in 0..MaxEvents
=============================================================================
