------------------------------- MODULE MCPow -------------------------------
(***************************************************************************)
(* Two questions about proof of work: a chain of headers whose targets     *)
(* have few digits, and the coinbases a parent block may have.             *)
(***************************************************************************)
EXTENDS Pow, Auxpow, FiniteSets

CONSTANT Base

Digit == INSTANCE Compact
MCToCompact(t) == Digit!GetCompact(t)
MCFromCompact(c) == Digit!SetCompact(c)

\* Blocks that come early, on time and late, and one with an earlier time.
MCGaps == {-3, 1, 2, 5, 8, 12, 30}

VARIABLE coinbase  \* of the parent block, None while headers are looked at
-----------------------------------------------------------------------------
Hashes == Blocks \cup Others
Nonces == 0..2

\* Leaves that make a tree of height h, and the tree itself.
Leaves(h) == [1..2 ^ h -> Hashes]

RECURSIVE MerkleRoot(_)
MerkleRoot(s) ==
    IF Len(s) = 1 THEN s[1]
    ELSE MerkleRoot([i \in 1..Len(s) \div 2 |-> Hash(s[2 * i - 1], s[2 * i])])

\* Some trees: all small ones, and the larger ones that have no block twice.
Trees == Leaves(0) \cup Leaves(1)
         \cup {s \in Leaves(2) : \A i, j \in 1..4 : i # j /\ s[i] = s[j] => s[i] \in Others}

Commitment(s, n) == <<Root(MerkleRoot(s)), Number(Len(s)), Number(n)>>
Starts == {<<>>, <<Header>>, <<Filling(1)>>, <<Filling(21)>>, <<Filling(21), Header>>}

\* One commitment, or two of them with or without a second header.
Coinbases ==
    {st \o Commitment(s, n) : st \in Starts, s \in Trees, n \in Nonces}
    \cup {st \o Commitment(s, 0) \o more \o Commitment(t, 0) :
             st \in Starts, s \in Trees, t \in Leaves(0) \cup Leaves(1), more \in {<<>>, <<Header>>}}

Branches == {<<>>} \cup {<<h>> : h \in Hashes}
            \cup {<<h, Hash(i, j)>> : h \in Hashes, i \in Hashes, j \in Hashes}

\* With the coinbase, with one that has no inputs, or without one.
Proofs(c) == [vChainMerkleBranch : Branches, nChainIndex : -1..3,
              m_coinbase_tx : {None, <<>>, <<c>>}, m_merkle_branch : {<<>>},
              hashMerkleRoot : {<<c>>, <<>>}]
-----------------------------------------------------------------------------
MCInit ==
    /\ HeaderInit /\ coinbase \in {None} \cup Coinbases
    /\ coinbase # None => nBits = ToCompact(bnPowLimit)

MCNext == coinbase = None /\ HeaderNext /\ UNCHANGED coinbase

MCSpec == MCInit /\ [][MCNext]_<<headerVars, coinbase>>
-----------------------------------------------------------------------------
\* One coinbase cannot prove the work of two blocks of this chain: with the
\* tree's size and nonce fixed in the coinbase, CAuxPow::Check leaves a block no
\* choice of its place.
OneBlockPerCoinbase ==
    coinbase # None =>
        Cardinality({b \in Blocks : \E proof \in Proofs(coinbase) : Check(b, proof)}) <= 1

\* Where a merged miner puts the block: the slot that GetExpectedIndex gives.
Slotted(b, h, n, other) ==
    [i \in 1..2 ^ h |-> IF i = GetExpectedIndex(n, ChainId, h) + 1 THEN b ELSE other]

\* A coinbase made the way merged miners make it is accepted: the block in its
\* slot of a tree of any height, the root behind a header or in the first bytes.
CommitmentAccepted ==
    \A b \in Blocks, h \in 0..2, n \in Nonces, other \in Others, st \in Starts :
        coinbase = st \o Commitment(Slotted(b, h, n, other), n) /\ st # <<Filling(21)>>
        => \E proof \in Proofs(coinbase) : Check(b, proof)
=============================================================================
