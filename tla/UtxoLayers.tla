----------------------------- MODULE UtxoLayers -----------------------------
(***************************************************************************)
(* What the stack of coin views promises, with no caching: three maps from *)
(* outpoints to the unspent coin each one holds, one map for the database, *)
(* one for the chainstate's coins tip and one for the scratch view a block *)
(* is connected or disconnected on, each with the block it stands for.     *)
(***************************************************************************)

CONSTANTS Outpoints, Coins, Spent, Blocks, NullHash

VARIABLES diskMap, tipMap, viewMap,    \* outpoint -> coin or Spent
          diskBest, tipBest, viewBest  \* the block each map is the UTXO set of

lvars == <<diskMap, tipMap, viewMap, diskBest, tipBest, viewBest>>

Init ==
    /\ diskMap = [o \in Outpoints |-> Spent]
    /\ tipMap = diskMap /\ viewMap = diskMap
    /\ diskBest = NullHash /\ tipBest = NullHash /\ viewBest = NullHash

\* A block's effects are written to the scratch view one outpoint at a time.
Write(o, c) ==
    /\ viewMap' = [viewMap EXCEPT ![o] = c]
    /\ UNCHANGED <<diskMap, tipMap, diskBest, tipBest, viewBest>>

SetBest(b) ==
    /\ viewBest' = b
    /\ UNCHANGED <<diskMap, tipMap, viewMap, diskBest, tipBest>>

\* Committing the scratch view replaces the tip's map by the view's.
Commit ==
    /\ tipMap' = viewMap /\ tipBest' = viewBest
    /\ UNCHANGED <<diskMap, viewMap, diskBest, viewBest>>

\* Abandoning the scratch view loses exactly the writes since the last commit.
Abandon ==
    /\ viewMap' = tipMap /\ viewBest' = tipBest
    /\ UNCHANGED <<diskMap, tipMap, diskBest, tipBest>>

\* Flushing the tip makes the database hold exactly what the tip holds.
Persist ==
    /\ diskMap' = tipMap /\ diskBest' = tipBest
    /\ UNCHANGED <<tipMap, viewMap, tipBest, viewBest>>

\* Loading one coin of a UTXO snapshot goes to the tip, under no scratch view.
Load(o, c) ==
    /\ viewMap = tipMap
    /\ tipMap' = [tipMap EXCEPT ![o] = c]
    /\ viewMap' = tipMap'
    /\ UNCHANGED <<diskMap, diskBest, tipBest, viewBest>>

\* A snapshot's base block is set on the tip, under no scratch view.
LoadBest(b) ==
    /\ viewBest = tipBest
    /\ tipBest' = b /\ viewBest' = b
    /\ UNCHANGED <<diskMap, tipMap, viewMap, diskBest>>

Next ==
    \/ \E o \in Outpoints, c \in Coins \cup {Spent} : Write(o, c)
    \/ \E o \in Outpoints, c \in Coins : Load(o, c)
    \/ \E b \in Blocks : SetBest(b) \/ LoadBest(b)
    \/ Commit \/ Abandon \/ Persist

Spec == Init /\ [][Next]_lvars
=============================================================================
