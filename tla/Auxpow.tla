------------------------------- MODULE Auxpow -------------------------------
(***************************************************************************)
(* CAuxPow::Check (auxpow.cpp): whether a parent block's coinbase commits  *)
(* to a block of this chain.  Hash is taken as free of collisions.  The    *)
(* coinbase transaction is its inputs, and an input its script: a sequence *)
(* of items with their sizes in bytes, the merged mining header, a merkle  *)
(* root, a 32-bit number or filling; a root is found only where it was put.*)
(***************************************************************************)
EXTENDS Integers, Sequences, SequencesExt

CONSTANTS
    Blocks,   \* hashes of this chain's blocks
    Others,   \* any other hashes, below or beside them in a tree
    Zero,     \* uint256{}
    None,     \* no transaction
    ChainId, ParentChainId,
    Word,     \* 2^32: unsigned arithmetic is modulo this
    MaxBranch \* 30

Header == [type |-> "header", size |-> 4]
Root(r) == [type |-> "root", root |-> r, size |-> 32]
Number(n) == [type |-> "number", value |-> n, size |-> 4]
Filling(n) == [type |-> "filling", size |-> n]

Hash(l, r) == <<l, r>>

\* MUTANT of CheckMerkleBranch: the bits of the index are read the wrong way.
CheckMerkleBranchSwapped(hash, branch, index) ==
    IF index = -1 THEN Zero
    ELSE FoldLeft(LAMBDA at, h :
                    [hash |-> IF at.index % 2 = 0 THEN Hash(h, at.hash) ELSE Hash(at.hash, h),
                     index |-> at.index \div 2],
                  [hash |-> hash, index |-> index], branch).hash

CheckMerkleBranch(hash, branch, index) ==
    IF index = -1 THEN Zero
    ELSE FoldLeft(LAMBDA at, h :
                    [hash |-> IF at.index % 2 = 1 THEN Hash(h, at.hash) ELSE Hash(at.hash, h),
                     index |-> at.index \div 2],
                  [hash |-> hash, index |-> index], branch).hash

\* One step of the pseudo-random numbers.
Scramble(n) == (n * (1103515245 % Word) + 12345) % Word
GetExpectedIndex(nonce, chain_id, height) ==
    Scramble((Scramble(nonce) + chain_id) % Word) % 2 ^ height

\* Bytes before item i, and the places of an item.
Offset(script, i) == FoldLeft(LAMBDA n, item : n + item.size, 0, SubSeq(script, 1, i - 1))
Found(script, item) == {i \in 1..Len(script) : script[i] = item}
First(S) == CHOOSE i \in S : \A j \in S : i <= j

\* Where the root is, if it is where it may be: just behind the only header, or,
\* without a header, in the first bytes.
RootPlaced(script, root_pos) ==
    LET headers == Found(script, Header)
    IN IF headers # {} THEN headers = {root_pos - 1}
       ELSE Offset(script, root_pos) <= 20

\* What of the coinbase's script follows the root, up to the nonce: the header
\* and the root are where they may be, or there is nothing.
AfterRoot(script, root) ==
    LET roots == Found(script, Root(root))
    IN IF roots # {} /\ RootPlaced(script, First(roots)) /\ Len(script) >= First(roots) + 2
       THEN SubSeq(script, First(roots) + 1, First(roots) + 2) ELSE <<>>

\* The coinbase is there, belongs to the parent block and has an input.
CoinbaseOK(proof) ==
    /\ proof.m_coinbase_tx # None
    /\ CheckMerkleBranch(proof.m_coinbase_tx, proof.m_merkle_branch, 0) = proof.hashMerkleRoot
    /\ proof.m_coinbase_tx # <<>>

\* MUTANT of Check: the index is not compared with the expected one.
CheckAnyIndex(block, proof) ==
    LET root == CheckMerkleBranch(block, proof.vChainMerkleBranch, proof.nChainIndex)
    IN CoinbaseOK(proof) /\
       LET rest == AfterRoot(proof.m_coinbase_tx[1], root)
       IN rest # <<>> /\ rest[1] = Number(2 ^ Len(proof.vChainMerkleBranch))

Check(block, proof) ==
    LET root == CheckMerkleBranch(block, proof.vChainMerkleBranch, proof.nChainIndex)
        height == Len(proof.vChainMerkleBranch)
    IN /\ ParentChainId # ChainId
       /\ height <= MaxBranch
       /\ CoinbaseOK(proof)
       /\ LET rest == AfterRoot(proof.m_coinbase_tx[1], root)
          IN /\ rest # <<>>
             /\ rest[1] = Number(2 ^ height) /\ rest[2].type = "number"
             /\ proof.nChainIndex = GetExpectedIndex(rest[2].value, ChainId, height)
=============================================================================
