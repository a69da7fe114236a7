---------------------------- MODULE MCChainState ----------------------------
\* Small block trees for ChainState.  A tree gives each block its path from
\* the genesis block, its chain work and its address.
EXTENDS ChainState, Sequences

CONSTANT Path

AllBlocks == DOMAIN Path
ParentOf == [b \in AllBlocks |-> IF Len(Path[b]) = 1 THEN None ELSE Path[b][Len(Path[b]) - 1]]
AncestorsOf == [b \in AllBlocks |-> {Path[b][i] : i \in 1..Len(Path[b])}]
HeightOf == [b \in AllBlocks |-> Len(Path[b]) - 1]

\* Two branches of three blocks.
RacePath == [g |-> <<"g">>, a1 |-> <<"g", "a1">>, a2 |-> <<"g", "a1", "a2">>,
             a3 |-> <<"g", "a1", "a2", "a3">>, b1 |-> <<"g", "b1">>,
             b2 |-> <<"g", "b1", "b2">>, b3 |-> <<"g", "b1", "b2", "b3">>]
RaceAddress == [g |-> 1, a1 |-> 5, a2 |-> 4, a3 |-> 7, b1 |-> 3, b2 |-> 6, b3 |-> 2]

\* The same with a fourth block on the b branch.
LongPath == [b \in {"b4"} \cup DOMAIN RacePath |->
                IF b = "b4" THEN <<"g", "b1", "b2", "b3", "b4">> ELSE RacePath[b]]
LongAddress == [b \in {"b4"} \cup DOMAIN RacePath |-> IF b = "b4" THEN 8 ELSE RaceAddress[b]]

\* Two children of a1 against a branch of two blocks.
ForkPath == [g |-> <<"g">>, a1 |-> <<"g", "a1">>, a2 |-> <<"g", "a1", "a2">>,
             c2 |-> <<"g", "a1", "c2">>, b1 |-> <<"g", "b1">>, b2 |-> <<"g", "b1", "b2">>]
ForkAddress == [g |-> 1, a1 |-> 5, a2 |-> 4, c2 |-> 2, b1 |-> 3, b2 |-> 6]

\* Every block has the same proof.
UnitWork == [b \in AllBlocks |-> Len(Path[b])]

\* The b branch is mined at a higher difficulty: b1 outweighs a1 and a2.
HeavyWork == [b \in AllBlocks |->
                 Len(Path[b]) * (IF "b1" \in AncestorsOf[b] THEN 2 ELSE 1)]
====
