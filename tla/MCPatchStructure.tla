-------------------------- MODULE MCPatchStructure --------------------------
(* Two hosts build, and two take apart. *)
EXTENDS PatchStructure, TLC

CONSTANTS alice, bob, carol

Builders == alice :> {"addPatch", "addModule", "connect"}
         @@ bob :> {"addBatch", "removeModule"}
         @@ carol :> {"disconnect", "removePatch"}

SomeWires == {<<1, 2>>, <<2, 3>>}

=============================================================================
