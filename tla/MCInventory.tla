---------------------------- MODULE MCInventory ----------------------------
(* Small instances of InventorySync for TLC.                               *)
EXTENDS InventoryProps, TLC

\* One address for each of two stations, or two for one.
Stations2 == {"A", "B"}
OneEach == (1 :> "A") @@ (2 :> "B")
Stations1 == {"A"}
TwoOfOne == (1 :> "A") @@ (2 :> "A")

Symmetry == Permutations(Syncers)
=============================================================================
