------------------------- MODULE NodeOperationsProps -------------------------
(***************************************************************************)
(* What patches and synchronisations must keep between a radio and its     *)
(* row.                                                                    *)
(***************************************************************************)
EXTENDS NodeOperations

Agrees(n) == \A c \in Sent : row[n][c] = radio[n][c]

\* Where nobody is at work, and nothing has broken or overlapped since the
\* last synchronisation, the inventory shows what the radio has: patches
\* record what they wrote (operations/service.py:124-157), and neither they
\* nor synchronisations nor the freshness mark bring back what was before.
AloneAgrees == \A n \in Nodes : On(n) = {} /\ n \notin doubtful => Agrees(n)

\* A patch makes a radio take what it was asked for and nothing else,
\* although a configuration section is written whole
\* (providers/meshtastic/provider.py:460-487): the rest of it must be what the
\* radio has.  Sessions that overlapped or saw a part only are excused.
OnlyAsked ==
    [][\A n \in Nodes, c \in Cells : radio'[n][c] # radio[n][c] =>
          \E p \in Patchers : /\ n \in at[p]
                              /\ ~req[p].dry
                              /\ c \in req[p].cells \/ p \in tainted]_vars

\* Whoever is told that a patch succeeded finds it on the radio and in the
\* inventory (operations/service.py:161-183): also when earlier nodes of the
\* same request failed, when the connect had to be tried again, and when the
\* session of a batch was poisoned.
SuccessIsWritten ==
    [][\A p \in Patchers, n \in Nodes :
          outcome'[p][n] = "success" /\ outcome[p][n] # "success" /\ p \notin tainted =>
             \A c \in req[p].cells : /\ row'[n][c] = p
                                     /\ c \in Sent => radio'[n][c] = p]_vars

\* The default timeout of sockets is one for the whole process, and each
\* connect sets and restores it for itself
\* (providers/meshtastic/provider.py:317-323).  A connect during which no other
\* connect of its process was under way has its limit all along, also in a
\* process whose default was lost before.  A process has its own default
\* back once its connects are over, unless two of them have ever overlapped.
TimeoutScoped ==
    /\ \A s \in Sessions : pc[s] = "opening" /\ s \notin crossed => timeout[ProcessOf[s]] = "set"
    /\ \A q \in Processes \ unscoped :
          (\A s \in Sessions : ProcessOf[s] = q => pc[s] # "opening") => timeout[q] = "none"

\* However patches break, overlap or are lost, a node that can be synchronised
\* shows what its radio has again and again.
CatchesUp == \A n \in Nodes : []<>Agrees(n)

\* A dry run changes neither a radio nor the inventory.
DryRunChangesNothing ==
    [][\A p \in Patchers : req[p].dry /\ pc'[p] # pc[p] => UNCHANGED tables]_vars

=============================================================================
