-------------------------- MODULE MCCoinsRecovery --------------------------
(***************************************************************************)
(* Two branches on one block: a2, whose coinbase repeats that of a1 (o1),  *)
(* and b2 and b3, the latter at BIP34Height.  The transaction of o2 is in  *)
(* a2 and in b3, which spends o2 at once, and o1: that it can do only on a *)
(* node that has not connected and disconnected a2.                        *)
(***************************************************************************)
EXTENDS CoinsRecovery, TLC

MCBlocks == {"g", "a1", "a2", "b2", "b3"}
MCOutpoints == {"o1", "o2"}
MCParent == "g" :> "null" @@ "a1" :> "g" @@ "a2" :> "a1" @@ "b2" :> "a1" @@ "b3" :> "b2"
MCAncestors == "g" :> {"g"} @@ "a1" :> {"g", "a1"} @@ "a2" :> {"g", "a1", "a2"}
               @@ "b2" :> {"g", "a1", "b2"} @@ "b3" :> {"g", "a1", "b2", "b3"}
MCCreates == "g" :> {} @@ "a1" :> {"o1"} @@ "a2" :> {"o1", "o2"} @@ "b2" :> {} @@ "b3" :> {"o2"}
MCSpends == "g" :> {} @@ "a1" :> {} @@ "a2" :> {} @@ "b2" :> {} @@ "b3" :> {"o1", "o2"}
MCHeight == "g" :> 0 @@ "a1" :> 1 @@ "a2" :> 2 @@ "b2" :> 2 @@ "b3" :> 3
MCCoin == [b \in MCBlocks |-> [o \in MCOutpoints |-> MCHeight[b]]]
MCLegacy == {"a1", "a2", "b2"}
MCUtxo == LET g == [o \in MCOutpoints |-> Spent]
              a1 == Connected(g, "a1")
              b2 == Connected(a1, "b2")
          IN  "g" :> g @@ "a1" :> a1 @@ "a2" :> Connected(a1, "a2")
              @@ "b2" :> b2 @@ "b3" :> Connected(b2, "b3")
=============================================================================
