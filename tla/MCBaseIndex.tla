---------------------------- MODULE MCBaseIndex ----------------------------
(***************************************************************************)
(* A genesis block with a branch of two blocks and a branch of three.      *)
(***************************************************************************)
EXTENDS BaseIndex, FiniteSets

CONSTANTS g, a1, a2, b1, b2, b3

MCBlocks == {g, a1, a2, b1, b2, b3}
MCParent == [b \in MCBlocks |-> CASE b = g -> None [] b = a1 -> g [] b = a2 -> a1
                                 [] b = b1 -> g [] b = b2 -> b1 [] b = b3 -> b2]
MCAncestors[b \in MCBlocks] == {b} \cup IF b = g THEN {} ELSE MCAncestors[MCParent[b]]
MCHeight == [b \in MCBlocks |-> Cardinality(MCAncestors[b]) - 1]
=============================================================================
