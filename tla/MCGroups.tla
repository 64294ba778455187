------------------------------ MODULE MCGroups ------------------------------
(* Selections of two nodes for TLC.                                        *)
EXTENDS GroupsProps

CONSTANTS n1, n2
MCOrder == <<n1, n2>>
\* In either order, and one that names a node twice.
MCLists == {<<n1, n2>>, <<n2, n1>>, <<n1, n1>>}
=============================================================================
