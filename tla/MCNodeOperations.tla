-------------------------- MODULE MCNodeOperations --------------------------
(* Requests and processes for TLC. *)
EXTENDS NodeOperationsProps, TLC

Symmetry == Permutations(Nodes)

\* A session in a process of its own, as external workers have.
Apart == [s \in Sessions |-> s]
\* All sessions in the one process there is, as with the local executor.
Together == [s \in Sessions |-> CHOOSE q \in Processes : TRUE]

Ask(cells) == [cells |-> cells, dry |-> FALSE]
Rehearse(cells) == [cells |-> cells, dry |-> TRUE]

Local == Ask({"favorite"})
MCRequests == {Local, Ask({"name", "position", "altitude", "hopLimit"})}
MixedRequests == {Local, Ask({"name", "role", "hopLimit"}), Ask({"position", "altitude", "mqttRoot"}),
                  Rehearse({"name", "altitude", "hopLimit"})}
DryRequests == {Rehearse({"name"}), Rehearse({"name", "hopLimit"})}
=============================================================================
