--------------------------- MODULE MCPatchRegistry ---------------------------
(* Instances of PatchRegistry for TLC. *)
EXTENDS PatchRegistry, TLC

CONSTANTS alice, bob, carol, x, y

\* Every operation races a rename and a removal; renames race each other.
ThreeHosts == (alice :> {"add", "start", "stop"})
           @@ (bob :> {"rename", "remove"})
           @@ (carol :> {"rename", "start", "startModule"})

\* The names are alike.
Alike == Permutations(Names)
=============================================================================
