---------------------------- MODULE GroupsProps ----------------------------
(* What concurrent changes of a group and the group job must keep.         *)
EXTENDS Groups

\* A handler that goes on to report success did all it was asked: every node
\* it was to assign was a member at some time of the request, and every node
\* it was to remove was none.  So the check for existing members
\* (groups/service.py:52-77) may be out of date when the rows are inserted, but
\* part of a list is never reported as the whole.
DoneAsAsked ==
    \A h \in Handlers : pc[h] = "audit" => done[h] = ToSet(ask[h].list)

Resolves == jpc = "dynamic" /\ jpc' = "patch"

\* The group job patches the members: nobody who was neither assigned nor
\* matched the filter while the members were read, and everybody who was
\* assigned, or matched, all the time.  The two are read one after the other
\* (groups/service.py:136-142), with changes in between.
JobPatchesMembers ==
    [][Resolves => kept \cup fitting \subseteq ToSet(left') /\ ToSet(left') \subseteq ever]_vars

\* It patches each of them once, also a node that is assigned and matches the
\* filter, or was assigned while it ran (dedup, groups/service.py:139-141).
OncePerNode == IsInjective(left)

\* Every request is answered and every job ends, also when lists in different
\* orders lock each other's rows or a list names a node twice.
EverythingEnds ==
    /\ \A h \in Handlers : pc[h] # "idle" ~> pc[h] = "idle"
    /\ jpc # "idle" ~> jpc = "idle"
=============================================================================
