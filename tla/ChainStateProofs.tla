-------------------------- MODULE ChainStateProofs --------------------------
(***************************************************************************)
(* Proofs about ChainState, for every block tree and every choice of bad   *)
(* blocks, by these inductive invariants (ChainTipProofs has the others):  *)
(*   IInv      the types, and that neither the active chain nor the path   *)
(*             to pindexMostWork ever holds a block marked invalid;        *)
(*   Caused    every failure flag has its cause on the path;               *)
(*   LinkInv   without pruning, what nChainTx, setBlockIndexCandidates and *)
(*             the ReceivedBlockTransactions queue mean;                   *)
(*   Kept      what was received and not failed is not forgotten;          *)
(*   ExactInv  what was received is linked, parked or lost.                *)
(***************************************************************************)
EXTENDS ChainState, WellFoundedInduction, TLAPS

\* Most leaves are first-order: Zenon takes them, and the others cite SMT.
USE ZenonT(20)

-----------------------------------------------------------------------------
(* Arguments by the lowest block.                                          *)

\* A set of naturals that is not empty has a least element.
LEMMA LeastNat ==
    ASSUME NEW T, T \subseteq Nat, T # {}
    PROVE  \E x \in T : \A y \in T : x <= y
<1> DEFINE R == {ss \in Nat \X Nat : ss[1] < ss[2]}
<1>1. IsWellFoundedOn(R, Nat)
  BY SMT, NatLessThanWellFounded DEF OpToRel
<1>2. ASSUME NEW x \in Nat, NEW y \in Nat, y < x PROVE <<y, x>> \in R
  <2>1. <<y, x>> \in Nat \X Nat /\ <<y, x>>[1] = y /\ <<y, x>>[2] = x
    BY SMT
  <2> QED
    BY SMT, <2>1, <1>2
<1> HIDE DEF R
<1>3. PICK x \in T : \A y \in T : ~(<<y, x>> \in R)
  BY <1>1, WFMin
<1>4. ASSUME NEW y \in T PROVE x <= y
  <2>1. x \in Nat /\ y \in Nat
    BY SMT
  <2>2. ~(y < x)
    BY <2>1, <1>2, <1>3
  <2> QED
    BY SMT, <2>1, <2>2
<1> QED
  BY SMT, <1>4

\* A set of blocks that is not empty and lacks the genesis block holds one whose
\* parent is not in it.
LEMMA LowestBlock ==
    ASSUME NEW S, S \subseteq Blocks \ {Genesis}, S # {}
    PROVE  \E b \in S : Parent[b] \in Blocks \ S
<1> DEFINE T == {Height[b] : b \in S}
<1>1. PICK h \in T : \A y \in T : h <= y
  <2>1. T \subseteq Nat /\ T # {}
    BY SMT, WorkAssumption
  <2> QED
    BY <2>1, LeastNat
<1>2. PICK b \in S : Height[b] = h
  BY SMT, <1>1
<1>3. Parent[b] \in Blocks /\ Height[b] = Height[Parent[b]] + 1 /\ Height[Parent[b]] \in Nat
  BY SMT, TreeAssumption, WorkAssumption
<1>4. Parent[b] \notin S
  <2> SUFFICES ASSUME Parent[b] \in S PROVE FALSE
    BY SMT
  <2>1. h <= Height[Parent[b]]
    BY SMT, <1>1
  <2> QED
    BY SMT, <1>2, <1>3, <2>1
<1> QED
  BY SMT, <1>3, <1>4

\* The shape of the block tree, with what follows from TreeAssumption for the
\* lowest block that would contradict it: every path begins at the genesis block,
\* is a path to each of its blocks, never comes back, and does not branch.
LEMMA TreeFacts ==
    /\ Genesis \in Blocks /\ None \notin Blocks
    /\ Parent \in [Blocks -> Blocks \cup {None}]
    /\ \A b \in Blocks : Parent[b] = None <=> b = Genesis
    /\ Ancestors \in [Blocks -> SUBSET Blocks]
    /\ Ancestors[Genesis] = {Genesis}
    /\ \A b \in Blocks \ {Genesis} : Ancestors[b] = {b} \cup Ancestors[Parent[b]]
    /\ \A b \in Blocks : Genesis \in Ancestors[b]
    /\ \A b \in Blocks \ {Genesis} : b \notin Ancestors[Parent[b]]
    /\ \A b \in Blocks : \A x \in Ancestors[b] : Ancestors[x] \subseteq Ancestors[b]
    /\ \A b \in Blocks : \A x, y \in Ancestors[b] : x \in Ancestors[y] \/ y \in Ancestors[x]
<1>0. \A b \in Blocks \ {Genesis} : Parent[b] \in Blocks /\ Ancestors[b] = {b} \cup Ancestors[Parent[b]]
  BY SMT, TreeAssumption
<1>1. \A b \in Blocks : Genesis \in Ancestors[b]
  <2> DEFINE S == {b \in Blocks : Genesis \notin Ancestors[b]}
  <2> SUFFICES ASSUME S # {} PROVE FALSE
    BY SMT
  <2>1. PICK b \in S : Parent[b] \in Blocks \ S
    BY TreeAssumption, LowestBlock
  <2> QED
    BY SMT, <1>0, <2>1, TreeAssumption
<1>2. \A b \in Blocks : \A x \in Ancestors[b] : Ancestors[x] \subseteq Ancestors[b]
  <2> DEFINE S == {b \in Blocks : \E x \in Ancestors[b] : ~(Ancestors[x] \subseteq Ancestors[b])}
  <2> SUFFICES ASSUME S # {} PROVE FALSE
    BY SMT
  <2>1. PICK b \in S : Parent[b] \in Blocks \ S
    BY TreeAssumption, LowestBlock
  <2> QED
    BY SMT, <1>0, <2>1, TreeAssumption
<1>3. \A b \in Blocks : \A x \in Ancestors[b] : Height[x] <= Height[b]
  <2> DEFINE S == {b \in Blocks : \E x \in Ancestors[b] : ~(Height[x] <= Height[b])}
  <2> SUFFICES ASSUME S # {} PROVE FALSE
    BY SMT
  <2>1. S \subseteq Blocks \ {Genesis}
    BY SMT, TreeAssumption, WorkAssumption
  <2>2. PICK b \in S : Parent[b] \in Blocks \ S
    BY <2>1, LowestBlock
  <2>3. PICK x \in Ancestors[b] : ~(Height[x] <= Height[b])
    BY SMT
  <2>4. /\ b \in Blocks \ {Genesis} /\ x \in Blocks
        /\ Height[b] \in Nat /\ Height[x] \in Nat /\ Height[Parent[b]] \in Nat
        /\ Height[b] = Height[Parent[b]] + 1
    BY SMT, <2>1, <2>2, TreeAssumption, WorkAssumption
  <2>5. x # b /\ x \in Ancestors[Parent[b]]
    BY SMT, <1>0, <2>3, <2>4
  <2>6. Height[x] <= Height[Parent[b]]
    BY SMT, <2>2, <2>5
  <2> QED
    BY SMT, <2>3, <2>4, <2>6
<1>4. \A b \in Blocks \ {Genesis} : b \notin Ancestors[Parent[b]]
  <2> SUFFICES ASSUME NEW b \in Blocks \ {Genesis}, b \in Ancestors[Parent[b]] PROVE FALSE
    BY SMT
  <2>1. Height[b] <= Height[Parent[b]]
    BY SMT, <1>0, <1>3
  <2> QED
    BY SMT, <1>0, <2>1, WorkAssumption
<1>5. \A b \in Blocks : \A x, y \in Ancestors[b] : x \in Ancestors[y] \/ y \in Ancestors[x]
  <2> DEFINE S == {b \in Blocks : \E x, y \in Ancestors[b] :
                                     x \notin Ancestors[y] /\ y \notin Ancestors[x]}
  <2> SUFFICES ASSUME S # {} PROVE FALSE
    BY SMT
  <2>1. PICK b \in S : Parent[b] \in Blocks \ S
    BY TreeAssumption, LowestBlock
  <2> QED
    BY SMT, <1>0, <2>1, TreeAssumption
<1> QED
  BY SMT, <1>1, <1>2, <1>4, <1>5, TreeAssumption

-----------------------------------------------------------------------------
(* Types, and the failure flags of the active chain.                       *)

\* m_block_index holds the ancestors of each of its blocks.
IndexClosed == \A b \in index : Ancestors[b] \subseteq index

\* m_chain is the path to its tip, of blocks that were received.
ChainIsPath == chain = Ancestors[tip] /\ chain \subseteq processed

\* A block that ContextualCheckBlock rejects is never counted as received.
ProcessedGood == processed \cap BadContext = {}

\* m_failed_blocks holds only blocks that are marked.
FailedBlocksMarked == failedBlocks \subseteq failed

\* The path to pindexMostWork was received.
MostWorkProcessed == abc.mostWork # None => Ancestors[abc.mostWork] \subseteq processed

\* What the locals of ActivateBestChain and InvalidateBlock mean at each point:
\* the block InvalidateBlock is about to mark descends from its target.
Locals ==
    /\ abc.pc \in {"idle", "walk", "aborted"} => abc.mostWork = None
    /\ abc.pc = "step" => abc.mostWork # None /\ abc.old # None
    /\ abc.pc = "walk" => /\ abc.target \in index \ {Genesis}
                          /\ abc.toMark \in index
                          /\ abc.target \in Ancestors[abc.toMark]

\* The inductive invariant.
IInv ==
    /\ TypeOK /\ IndexClosed /\ ChainIsPath /\ ProcessedGood /\ FailedBlocksMarked
    /\ ActiveChainClean /\ MostWorkUsable /\ MostWorkProcessed /\ Locals

LEMMA HolderGrows ==
    ASSUME NEW S, NEW T, S \subseteq T, NEW a \in Holder(S)
    PROVE  a \in Holder(T)
  BY SMT DEF Holder

LEMMA IdleLemma ==
    ASSUME NEW S
    PROVE  Idle \in Holder(S)
  BY SMT DEF Holder, Idle

LEMMA InitLemma == Init => IInv
<1> SUFFICES ASSUME Init PROVE IInv
  BY SMT
<1>1. index = {Genesis} /\ processed = {Genesis}
  BY SMT, TreeFacts DEF Init, index, processed, TRANSACTIONS
<1>2. StatusOK /\ SetsOK
  BY SMT, <1>1, TreeFacts DEF Init, StatusOK, SetsOK, TREE, TRANSACTIONS, SCRIPTS
<1>3. NumbersOK
  BY SMT, InputAssumption DEF Init, NumbersOK
<1>4. abc \in Holder(index) /\ pending \in BOOLEAN
  BY IdleLemma DEF Init
<1>5. IndexClosed /\ ChainIsPath /\ ProcessedGood /\ FailedBlocksMarked /\ ActiveChainClean
  BY SMT, <1>1, TreeFacts, InputAssumption DEF Init, failed, IndexClosed, ChainIsPath,
     ProcessedGood, FailedBlocksMarked, ActiveChainClean
<1>6. MostWorkUsable /\ MostWorkProcessed /\ Locals
  BY DEF Init, MostWorkUsable, MostWorkProcessed, Locals, Idle
<1> QED
  BY SMT, <1>2, <1>3, <1>4, <1>5, <1>6 DEF IInv, TypeOK

\* Validity is only ever raised, and only of blocks that are not marked.
LEMMA RaiseLemma ==
    ASSUME StatusOK, NEW b \in Blocks, NEW upTo \in {TREE, TRANSACTIONS, SCRIPTS},
           valid' = RaiseValidity(b, upTo)
    PROVE  /\ valid' \in [Blocks -> {0, TREE, TRANSACTIONS, SCRIPTS}]
           /\ index \subseteq index' /\ processed \subseteq processed'
           /\ index' \subseteq index \cup {b}
           /\ processed' \subseteq processed \cup (IF upTo = TREE THEN {} ELSE {b})
           /\ b \notin failed => b \in index' /\ (upTo # TREE => b \in processed')
  BY SMT DEF StatusOK, RaiseValidity, index, processed, TREE, TRANSACTIONS, SCRIPTS

LEMMA ProcessedLemma ==
    ASSUME StatusOK
    PROVE  processed \subseteq index
  BY SMT DEF processed, index, TRANSACTIONS, StatusOK, TREE, SCRIPTS

LEMMA IdsLemma ==
    ASSUME NEW n \in Nat \ {0}, NEW r \in Int, NEW l \in Nat
    PROVE  [next |-> n, reverse |-> r, lastPrecious |-> l]
              \in [next : Nat \ {0}, reverse : Int, lastPrecious : Nat]
  BY SMT

LEMMA SameValid ==
    ASSUME UNCHANGED valid
    PROVE  index' = index /\ processed' = processed
  BY SMT DEF index, processed

\* Between two ancestors of a block one is below the other, so a block that is
\* above f and not below it has f among its ancestors.
LEMMA AboveLemma ==
    ASSUME NEW b \in Blocks, NEW f \in Ancestors[b], NEW y \in Ancestors[b] \ Ancestors[f]
    PROVE  f \in Ancestors[y]
  BY SMT, TreeFacts

LEMMA SelfLemma ==
    ASSUME NEW b \in Blocks
    PROVE  b \in Ancestors[b] /\ Ancestors[b] \subseteq Blocks
  BY SMT, TreeFacts

\* Ancestors of ancestors are ancestors.
LEMMA TransitiveLemma ==
    ASSUME NEW b \in Blocks, NEW x \in Ancestors[b], NEW f \in Ancestors[x]
    PROVE  f \in Ancestors[b]
  BY SMT, TreeFacts

\* What is above a block that is not on the active chain is not on it either.
LEMMA OffChainLemma ==
    ASSUME chain = Ancestors[tip], tip \in Blocks,
           NEW y, NEW x \in Ancestors[y], x \notin chain
    PROVE  y \notin chain
  BY SMT, TransitiveLemma

LEMMA TipLemma ==
    ASSUME SetsOK
    PROVE  tip \in Blocks /\ tip \in index
  BY SMT DEF SetsOK, index

\* A block that extends the tip is not on the active chain.
LEMMA ExtendsTipLemma ==
    ASSUME chain = Ancestors[tip], NEW b \in Blocks, Parent[b] = tip, tip \in Blocks
    PROVE  b # Genesis /\ b \notin chain
  BY TreeFacts

LEMMA AcceptBlockHeaderLemma ==
    ASSUME IInv, NEW b \in Blocks, AcceptBlockHeader(b)
    PROVE  IInv'
<1> DEFINE p == Parent[b]
<1>0. b # Genesis /\ p \in index \ failed /\ p \in Blocks
  BY TreeFacts DEF AcceptBlockHeader, index
<1> USE DEF IInv, TypeOK
<1>1. CASE valid' = RaiseValidity(b, TREE) /\ UNCHANGED failedChild
           /\ bestHeader' = IF Work[bestHeader] < Work[b] THEN b ELSE bestHeader
  <2>1. /\ valid' \in [Blocks -> {0, TREE, TRANSACTIONS, SCRIPTS}]
        /\ index \subseteq index' /\ index' \subseteq index \cup {b} /\ processed' = processed
        /\ b \in index' /\ failed' = failed
    <3>1. /\ valid' \in [Blocks -> {0, TREE, TRANSACTIONS, SCRIPTS}]
          /\ index \subseteq index' /\ index' \subseteq index \cup {b}
          /\ processed \subseteq processed' /\ processed' \subseteq processed \cup {}
          /\ b \notin failed => b \in index'
      BY <1>1, RaiseLemma
    <3>2. failed' = failed
      BY <1>1 DEF AcceptBlockHeader, failed
    <3>3. b \notin failed
      BY DEF AcceptBlockHeader, StatusOK, failed
    <3> QED
      BY <3>1, <3>2, <3>3
  <2>2. StatusOK' /\ SetsOK'
    BY <2>1, <1>1 DEF AcceptBlockHeader, StatusOK, SetsOK, chainVars
  <2>3. NumbersOK' /\ abc' \in Holder(index') /\ pending' \in BOOLEAN
    BY <2>1, HolderGrows DEF AcceptBlockHeader, NumbersOK
  <2>4. IndexClosed'
    BY SMT, <1>0, <2>1, TreeFacts DEF IndexClosed
  <2> QED
    BY <2>1, <2>2, <2>3, <2>4 DEF AcceptBlockHeader, ChainIsPath, ProcessedGood, chainVars,
       FailedBlocksMarked, ActiveChainClean, MostWorkUsable, MostWorkProcessed, Locals
<1>2. ASSUME NEW f \in failedBlocks \cap Ancestors[p],
             failedChild' = failedChild \cup Tainted(b, f), UNCHANGED <<valid, bestHeader>>
      PROVE  IInv'
  <2>1. index' = index /\ processed' = processed /\ failed' = failed \cup Tainted(b, f)
    BY <1>2, SameValid DEF AcceptBlockHeader, failed
  <2>2. \A y \in Tainted(b, f) : f \in Ancestors[y] /\ y \in index
    BY <1>0, AboveLemma DEF Tainted, IndexClosed
  <2>3. f \in failed /\ f \notin chain
    BY DEF FailedBlocksMarked, ActiveChainClean
  <2>4. TypeOK'
    BY <2>1, <2>2, <1>2 DEF AcceptBlockHeader, StatusOK, SetsOK, NumbersOK, chainVars
  <2>5. ActiveChainClean'
    <3>1. chain' = chain /\ chain = Ancestors[tip] /\ tip \in Blocks
      BY TipLemma DEF AcceptBlockHeader, chainVars, ChainIsPath
    <3>2. \A y \in Tainted(b, f) : y \notin chain
      BY <2>2, <2>3, <3>1, OffChainLemma
    <3> QED
      BY <2>1, <3>1, <3>2 DEF ActiveChainClean
  <2>6. MostWorkUsable'
    <3> DEFINE w == abc.mostWork
    <3>1. w \in index \cup {None} /\ UNCHANGED <<abc, chain>>
      BY DEF Holder, AcceptBlockHeader, chainVars
    <3>2. ASSUME w # None, NEW y \in Ancestors[w] \ chain, y \in Tainted(b, f) PROVE FALSE
      BY <2>2, <2>3, <3>1, <3>2, TreeFacts DEF MostWorkUsable, index
    <3> QED
      BY <2>1, <3>1, <3>2 DEF MostWorkUsable
  <2> QED
    BY <2>1, <2>4, <2>5, <2>6 DEF AcceptBlockHeader, ChainIsPath, ProcessedGood, chainVars,
       FailedBlocksMarked, MostWorkProcessed, Locals, IndexClosed
<1> QED
  BY <1>1, <1>2 DEF AcceptBlockHeader

LEMMA AcceptBlockLemma ==
    ASSUME IInv, NEW b \in Blocks, NEW fRequested \in BOOLEAN, AcceptBlock(b, fRequested)
    PROVE  IInv'
<1> USE DEF IInv, TypeOK
<1>0. b \in index \ failed /\ UNCHANGED <<chain, tip, abc, calls, restarts, seq, ids>>
  BY DEF AcceptBlock, chainVars
<1>1. CASE b \in BadContext /\ failedValid' = failedValid \cup {b}
           /\ UNCHANGED <<valid, haveData, linked, unlinked, queue, pending>>
  <2>1. index' = index /\ processed' = processed /\ failed' = failed \cup {b}
    BY <1>1, SameValid DEF AcceptBlock, failed
  <2>2. b \notin processed
    BY SMT, <1>1 DEF ProcessedGood
  <2>3. TypeOK'
    BY <2>1, <1>0, <1>1 DEF AcceptBlock, StatusOK, SetsOK, NumbersOK
  <2> QED
    BY <2>1, <2>2, <2>3, <1>0 DEF AcceptBlock, ChainIsPath, ProcessedGood, ActiveChainClean,
       FailedBlocksMarked, MostWorkUsable, MostWorkProcessed, Locals, IndexClosed
<1>2. CASE /\ b \notin BadContext
           /\ haveData' = haveData \cup {b}
           /\ linked' = linked \ {b}
           /\ valid' = RaiseValidity(b, TRANSACTIONS)
           /\ IF Parent[b] = None \/ Parent[b] \in linked
              THEN queue' = {b} /\ UNCHANGED unlinked
              ELSE unlinked' = Parked(b) /\ UNCHANGED queue
           /\ pending' = TRUE
           /\ UNCHANGED failedValid
  <2>1. /\ valid' \in [Blocks -> {0, TREE, TRANSACTIONS, SCRIPTS}]
        /\ index' = index /\ processed' = processed \cup {b} /\ failed' = failed
    <3>1. /\ valid' \in [Blocks -> {0, TREE, TRANSACTIONS, SCRIPTS}]
          /\ index \subseteq index' /\ index' \subseteq index \cup {b}
          /\ processed \subseteq processed'
          /\ processed' \subseteq processed \cup (IF TRANSACTIONS = TREE THEN {} ELSE {b})
          /\ b \notin failed => b \in index' /\ (TRANSACTIONS # TREE => b \in processed')
      <4>1. StatusOK /\ valid' = RaiseValidity(b, TRANSACTIONS)
        BY <1>2
      <4> QED
        BY SMT, <4>1, RaiseLemma
    <3>2. failed' = failed
      BY <1>2 DEF AcceptBlock, failed
    <3>3. TRANSACTIONS # TREE
      BY SMT DEF TREE, TRANSACTIONS
    <3>4. b \in index /\ b \notin failed
      BY <1>0
    <3> HIDE DEF IInv, TypeOK
    <3> QED
      BY <3>1, <3>2, <3>3, <3>4
  <2>2. StatusOK'
    BY <2>1, <1>2 DEF AcceptBlock, StatusOK
  <2>3. SetsOK'
    <3>1. UNCHANGED <<chain, tip, candidates, failedBlocks, bestHeader, bestInvalid>>
      BY <1>2 DEF AcceptBlock, chainVars
    <3>2. /\ queue' \subseteq queue \cup {b} /\ unlinked' \subseteq unlinked \cup {b}
          /\ Parent[b] = None => unlinked' = unlinked
      BY <1>2 DEF Parked
    <3>3. b = Genesis => Parent[b] = None
      BY SMT, TreeFacts
    <3>4. unlinked' \subseteq processed' \ {Genesis} /\ queue' \subseteq processed'
      <4>1. unlinked \subseteq processed \ {Genesis} /\ queue \subseteq processed
        BY SMT DEF SetsOK
      <4> HIDE DEF IInv, TypeOK
      <4> QED
        BY SMT, <2>1, <3>2, <3>3, <4>1
    <3> QED
      BY <2>1, <3>1, <3>4 DEF SetsOK
  <2>4. NumbersOK' /\ abc' \in Holder(index') /\ pending' \in BOOLEAN
    BY <2>1, <1>0, <1>2 DEF NumbersOK
  <2> QED
    BY <2>1, <2>2, <2>3, <2>4, <1>0, <1>2 DEF AcceptBlock, ChainIsPath, ProcessedGood,
       ActiveChainClean, FailedBlocksMarked, MostWorkUsable, MostWorkProcessed, Locals, IndexClosed
<1> QED
  BY <1>1, <1>2 DEF AcceptBlock

LEMMA ReceivedBlockTransactionsLemma ==
    ASSUME IInv, NEW b \in queue, ReceivedBlockTransactions(b)
    PROVE  IInv'
<1> USE DEF IInv, TypeOK
<1>1. /\ index' = index /\ processed' = processed /\ failed' = failed
      /\ UNCHANGED <<chain, tip, abc, calls, restarts, pending>>
  BY SMT, SameValid DEF ReceivedBlockTransactions, failed, chainVars
<1>2. b \in processed /\ b \in index /\ b \in Blocks
  <2>1. b \in processed
    BY DEF SetsOK
  <2> QED
    BY SMT, <2>1, ProcessedLemma DEF processed
<1>3. StatusOK'
  BY SMT, <1>1, <1>2 DEF ReceivedBlockTransactions, StatusOK
<1>4. SetsOK'
  BY SMT, <1>1, <1>2 DEF ReceivedBlockTransactions, SetsOK, Waiting, TryAddBlockIndexCandidate
<1>5. NumbersOK'
  <2>1. ids.next \in Nat \ {0} /\ ids.reverse \in Int /\ ids.lastPrecious \in Nat
    BY SMT DEF NumbersOK
  <2>2. ids' \in [next : Nat \ {0}, reverse : Int, lastPrecious : Nat]
    BY SMT, <2>1 DEF NumbersOK, ReceivedBlockTransactions
  <2>3. seq' \in [Blocks -> Int]
    BY SMT, <2>1, <1>2 DEF NumbersOK, ReceivedBlockTransactions
  <2> QED
    BY SMT, <2>2, <2>3, <1>1 DEF NumbersOK
<1> QED
  BY <1>1, <1>3, <1>4, <1>5 DEF ReceivedBlockTransactions, ChainIsPath, ProcessedGood,
     ActiveChainClean, FailedBlocksMarked, MostWorkUsable, MostWorkProcessed, Locals, IndexClosed

\* A step that changes nothing but who holds m_chainstate_mutex, and the flags
\* of the callers.
LEMMA HolderStep ==
    ASSUME IInv, UNCHANGED <<status, chainVars, sets, queue, restarts>>,
           calls' \in 0..MaxCalls, pending' \in BOOLEAN, abc' \in Holder(index),
           Locals', MostWorkUsable', MostWorkProcessed'
    PROVE  IInv'
<1> USE DEF IInv, TypeOK
<1>1. index' = index /\ processed' = processed /\ failed' = failed
  BY SMT, SameValid DEF status, failed
<1>2. StatusOK' /\ SetsOK' /\ NumbersOK'
  BY <1>1 DEF StatusOK, SetsOK, NumbersOK, status, chainVars, sets
<1> QED
  BY <1>1, <1>2 DEF status, chainVars, sets, ChainIsPath, ProcessedGood, ActiveChainClean,
     FailedBlocksMarked, IndexClosed

LEMMA ActivateBestChainLemma ==
    ASSUME IInv, ActivateBestChain
    PROVE  IInv'
<1> USE DEF IInv, TypeOK
<1>1. tip \in index /\ calls \in 0..MaxCalls
  BY SMT DEF SetsOK, NumbersOK
<1>2. /\ abc' \in Holder(index) /\ abc'.pc = "find" /\ abc'.mostWork \in {None, abc.mostWork}
      /\ pending' \in BOOLEAN
  <2>1. CASE abc' = [Idle EXCEPT !.pc = "find", !.start = tip] /\ pending' = FALSE
    BY <2>1, <1>1 DEF Idle, Holder
  <2>2. CASE abc' = [abc EXCEPT !.pc = "find", !.start = tip, !.connected = FALSE]
             /\ UNCHANGED pending
    BY <2>2, <1>1 DEF Holder
  <2> QED
    BY <2>1, <2>2 DEF ActivateBestChain
<1>3. Locals' /\ MostWorkUsable' /\ MostWorkProcessed'
  BY <1>2, SameValid DEF ActivateBestChain, status, chainVars, sets, Locals, MostWorkUsable,
     MostWorkProcessed, failed
<1> QED
  BY SMT, <1>1, <1>2, <1>3, HolderStep DEF ActivateBestChain

LEMMA FindMostWorkChainDiscardLemma ==
    ASSUME IInv, FindMostWorkChainDiscard
    PROVE  IInv'
<1> USE DEF IInv, TypeOK
<1>1. PICK best \in Best : \E x \in Unusable(best) :
         /\ Unusable(best) \cap (Ancestors[best] \ Ancestors[x]) = {}
         /\ IF x \in failed
            THEN /\ failedChild' = failedChild \cup (Ancestors[best] \ Ancestors[x])
                 /\ bestInvalid' = MoreInvalid(bestInvalid, best)
                 /\ UNCHANGED unlinked
            ELSE /\ unlinked' = ParkedAbove(Ancestors[best] \ Ancestors[x])
                 /\ UNCHANGED <<failedChild, bestInvalid>>
         /\ candidates' = candidates \ ((Ancestors[best] \ Ancestors[x]) \cup {x})
  BY DEF FindMostWorkChainDiscard
<1>a. PICK x \in Unusable(best) :
         /\ Unusable(best) \cap (Ancestors[best] \ Ancestors[x]) = {}
         /\ IF x \in failed
            THEN /\ failedChild' = failedChild \cup (Ancestors[best] \ Ancestors[x])
                 /\ bestInvalid' = MoreInvalid(bestInvalid, best)
                 /\ UNCHANGED unlinked
            ELSE /\ unlinked' = ParkedAbove(Ancestors[best] \ Ancestors[x])
                 /\ UNCHANGED <<failedChild, bestInvalid>>
         /\ candidates' = candidates \ ((Ancestors[best] \ Ancestors[x]) \cup {x})
  BY <1>1
<1> DEFINE above == Ancestors[best] \ Ancestors[x]
<1>2. best \in index /\ best \in Blocks /\ x \in Ancestors[best] \ chain /\ x \in Blocks
  BY TreeFacts DEF Best, Unusable, SetsOK, index
<1>3. \A y \in above : x \in Ancestors[y] /\ y \in index /\ y \in Blocks
  BY <1>2, AboveLemma DEF IndexClosed, index
<1>4. above \cap chain = {} /\ above \subseteq haveData
  <2>1. chain = Ancestors[tip] /\ tip \in Blocks
    BY TipLemma DEF ChainIsPath
  <2>2. \A y \in above : y \notin chain
    BY <1>2, <1>3, <2>1, OffChainLemma
  <2>3. \A y \in above : y \in Ancestors[best] /\ y \notin Unusable(best)
    BY <1>a
  <2> QED
    BY <2>2, <2>3 DEF Unusable
<1>5. /\ index' = index /\ processed' = processed
      /\ UNCHANGED <<chain, tip, abc, calls, restarts, pending, seq, ids, failedValid>>
      /\ abc.mostWork = None
  BY SameValid DEF FindMostWorkChainDiscard, chainVars
<1>6. failed \subseteq failed' /\ failed' \subseteq failed \cup above
  BY <1>a, <1>5 DEF failed
<1>7. StatusOK'
  BY <1>a, <1>3, <1>5 DEF StatusOK, FindMostWorkChainDiscard
<1>8. SetsOK'
  <2>1. UNCHANGED <<failedBlocks, bestHeader, queue>>
    BY DEF FindMostWorkChainDiscard
  <2>2. candidates' \subseteq index /\ bestInvalid' \in index \cup {None}
    BY <1>a, <1>2 DEF SetsOK, MoreInvalid
  <2>3. Genesis \in chain
    BY TreeFacts DEF ChainIsPath, SetsOK, index
  <2>4. above \subseteq processed \ {Genesis}
    BY <1>4, <2>3 DEF StatusOK
  <2>5. unlinked' \subseteq processed \ {Genesis}
    BY <1>a, <2>4 DEF SetsOK, ParkedAbove
  <2> QED
    BY <1>5, <2>1, <2>2, <2>5 DEF SetsOK
<1>9. NumbersOK'
  BY <1>5 DEF NumbersOK
<1> QED
  BY <1>4, <1>5, <1>6, <1>7, <1>8, <1>9 DEF FindMostWorkChainDiscard, ChainIsPath, ProcessedGood,
     ActiveChainClean, FailedBlocksMarked, MostWorkUsable, MostWorkProcessed, Locals, IndexClosed

LEMMA FindMostWorkChainLemma ==
    ASSUME IInv, FindMostWorkChain
    PROVE  IInv'
<1> USE DEF IInv, TypeOK
<1>1. PICK w \in MostWork \ {None, tip} :
         /\ abc.mostWork # None \/ Unusable(w) = {}
         /\ abc' = [abc EXCEPT !.pc = "step", !.mostWork = w, !.old = tip]
  BY DEF FindMostWorkChain
<1>2. w \in index /\ tip \in index /\ calls \in 0..MaxCalls
  BY DEF MostWork, Best, SetsOK, NumbersOK, Holder
<1>3. abc' \in Holder(index) /\ abc'.pc = "step" /\ abc'.mostWork = w /\ abc'.old = tip
  BY <1>1, <1>2 DEF Holder
<1>4. /\ index' = index /\ processed' = processed /\ failed' = failed
      /\ UNCHANGED <<chain, tip, pending, calls>>
  BY SameValid DEF FindMostWorkChain, status, chainVars, failed
<1>5. w \in Blocks /\ tip \in Blocks /\ None \notin Blocks
  BY <1>2, TreeFacts DEF index
<1>6. (Ancestors[w] \ chain) \cap failed = {} /\ Ancestors[w] \subseteq processed
  <2>1. CASE abc.mostWork # None
    BY <2>1 DEF MostWork, MostWorkUsable, MostWorkProcessed
  <2>2. CASE Unusable(w) = {}
    BY <2>2 DEF Unusable, StatusOK, ChainIsPath
  <2> QED
    BY SMT, <1>1, <2>1, <2>2
<1>7. Locals' /\ MostWorkUsable' /\ MostWorkProcessed'
  BY <1>3, <1>4, <1>5, <1>6 DEF Locals, MostWorkUsable, MostWorkProcessed
<1> QED
  BY <1>2, <1>3, <1>4, <1>7, HolderStep DEF FindMostWorkChain

LEMMA NothingToDoLemma ==
    ASSUME IInv, NothingToDo
    PROVE  IInv'
<1> USE DEF IInv, TypeOK
<1>1. abc' = Idle \/ abc' = [Idle EXCEPT !.pc = "begin"]
  BY SMT DEF NothingToDo
<1>2. abc' \in Holder(index) /\ abc'.mostWork = None /\ abc'.pc \in {"idle", "begin"}
  <2>1. CASE abc' = Idle
    BY <2>1 DEF Idle, Holder
  <2>2. CASE abc' = [Idle EXCEPT !.pc = "begin"]
    BY <2>2 DEF Idle, Holder
  <2> QED
    BY <1>1, <2>1, <2>2
<1>3. Locals' /\ MostWorkUsable' /\ MostWorkProcessed'
  BY <1>2 DEF Locals, MostWorkUsable, MostWorkProcessed
<1> QED
  BY <1>2, <1>3, HolderStep DEF NothingToDo, NumbersOK

LEMMA ConnectTipErrorLemma ==
    ASSUME IInv, abc' = [Idle EXCEPT !.pc = "aborted"],
           UNCHANGED <<status, chainVars, sets, queue, pending, calls, restarts>>
    PROVE  IInv'
<1> USE DEF IInv, TypeOK
<1>2. abc' \in Holder(index) /\ abc'.mostWork = None /\ abc'.pc = "aborted"
  BY DEF Idle, Holder
<1>3. Locals' /\ MostWorkUsable' /\ MostWorkProcessed'
  BY <1>2 DEF Locals, MostWorkUsable, MostWorkProcessed
<1> QED
  BY <1>2, <1>3, HolderStep DEF NumbersOK

\* The tip taken off the active chain leaves the path to its parent.
LEMMA ShorterChain ==
    ASSUME IInv, tip # Genesis
    PROVE  /\ Parent[tip] \in chain \ {tip} /\ chain \ {tip} = Ancestors[Parent[tip]]
           /\ tip \in Blocks /\ Parent[tip] \in Blocks
<1>1. tip \in Blocks
  BY DEF IInv, TypeOK, SetsOK, index
<1>2. Parent[tip] \in Blocks
  BY <1>1, TreeFacts
<1>3. Parent[tip] \in Ancestors[Parent[tip]]
  BY SMT, <1>2, TreeFacts
<1>4. tip \notin Ancestors[Parent[tip]] /\ Ancestors[tip] = {tip} \cup Ancestors[Parent[tip]]
  BY <1>1, TreeFacts
<1>5. chain = Ancestors[tip]
  BY DEF IInv, ChainIsPath
<1> QED
  BY <1>1, <1>2, <1>3, <1>4, <1>5

LEMMA DisconnectTipLemma ==
    ASSUME IInv, DisconnectTip
    PROVE  IInv'
<1> USE DEF IInv, TypeOK
<1>1. CASE abc' = [Idle EXCEPT !.pc = "aborted"] /\ UNCHANGED chainVars
  BY <1>1, ConnectTipErrorLemma DEF DisconnectTip
<1>2. CASE chain' = chain \ {tip} /\ tip' = Parent[tip] /\ UNCHANGED abc
  <2>1. /\ index' = index /\ processed' = processed /\ failed' = failed
        /\ tip \notin Ancestors[abc.mostWork] /\ abc.mostWork \in Blocks
    BY SameValid DEF DisconnectTip, status, failed, Locals, Holder, index
  <2>2. /\ tip' \in chain' /\ chain' = Ancestors[tip'] /\ chain' \subseteq chain
    BY <1>2, <2>1, ShorterChain, TreeFacts
  <2>3. StatusOK' /\ SetsOK' /\ NumbersOK'
    BY <2>1, <2>2 DEF DisconnectTip, StatusOK, SetsOK, NumbersOK, status, sets
  <2>4. MostWorkUsable'
    BY <1>2, <2>1 DEF MostWorkUsable
  <2> QED
    BY <1>2, <2>1, <2>2, <2>3, <2>4 DEF DisconnectTip, sets, ChainIsPath, ProcessedGood,
       ActiveChainClean, FailedBlocksMarked, MostWorkProcessed, Locals, IndexClosed
<1> QED
  BY SMT, <1>1, <1>2 DEF DisconnectTip

LEMMA AfterStepLemma ==
    ASSUME NEW S, abc \in Holder(S), NEW t, NEW w \in S \cup {None}
    PROVE  /\ AfterStep(t, w) \in Holder(S)
           /\ AfterStep(t, w).mostWork \in {w, None}
           /\ AfterStep(t, w).pc \in {"find", "begin", "idle"}
           /\ AfterStep(t, w).pc = "idle" => AfterStep(t, w).mostWork = None
  BY DEF AfterStep, Idle, Holder

LEMMA ConnectTipLemma ==
    ASSUME IInv, ConnectTip
    PROVE  IInv'
<1> USE DEF IInv, TypeOK
<1> DEFINE w == abc.mostWork
<1>1. PICK b \in NextBlock :
         /\ b \in haveData /\ b \notin BadConnect
         /\ valid' = RaiseValidity(b, SCRIPTS)
         /\ chain' = chain \cup {b} /\ tip' = b
         /\ candidates' = PruneBlockIndexCandidates(candidates, seq, b)
         /\ abc' = IF b = abc.mostWork \/ Work[b] > Work[abc.old]
                   THEN AfterStep(b, abc.mostWork) ELSE abc
  BY DEF ConnectTip
<1>2. w \in index /\ w \in Blocks
  BY DEF ConnectTip, Locals, Holder, index
<1>3. b \in Blocks /\ b \in Ancestors[w] /\ Parent[b] = tip /\ tip \in Blocks /\ b # Genesis
  <2>1. b \in Ancestors[w] /\ Parent[b] = tip
    BY DEF NextBlock
  <2>2. tip \in Blocks /\ chain = Ancestors[tip]
    BY TipLemma DEF ChainIsPath
  <2>3. b \in Blocks
    BY <1>2, <2>1, SelfLemma
  <2> QED
    BY <2>1, <2>2, <2>3, ExtendsTipLemma
<1>4. b \in processed /\ b \in index
  BY <1>1, <1>2, <1>3 DEF StatusOK, IndexClosed
<1>5. b \notin chain /\ b \notin failed
  <2>1. b \notin chain
    BY <1>3, ExtendsTipLemma DEF ChainIsPath
  <2> QED
    BY <1>2, <1>3, <2>1, TreeFacts DEF MostWorkUsable
<1>6. /\ valid' \in [Blocks -> {0, TREE, TRANSACTIONS, SCRIPTS}]
      /\ index' = index /\ processed' = processed /\ failed' = failed
  <2>1. /\ valid' \in [Blocks -> {0, TREE, TRANSACTIONS, SCRIPTS}]
        /\ index \subseteq index' /\ index' \subseteq index \cup {b}
        /\ processed \subseteq processed' /\ processed' \subseteq processed \cup {b}
    BY <1>1, <1>3, RaiseLemma DEF TREE, SCRIPTS
  <2> QED
    BY <2>1, <1>4 DEF ConnectTip, failed
<1>7. chain' = Ancestors[tip']
  <2>1. Ancestors[b] = {b} \cup Ancestors[Parent[b]]
    BY <1>3, TreeFacts
  <2> QED
    BY <1>1, <1>3, <2>1 DEF ChainIsPath
<1>8. /\ abc' \in Holder(index) /\ abc'.mostWork \in {w, None}
      /\ abc'.pc \in {"find", "begin", "idle", "step"}
      /\ abc'.pc = "idle" => abc'.mostWork = None
      /\ abc'.pc = "step" => abc' = abc
  <2>1. CASE abc' = abc
    BY <2>1 DEF ConnectTip
  <2>2. CASE abc' = AfterStep(b, w)
    <3>0. abc \in Holder(index) /\ w \in index \cup {None}
      BY <1>2
    <3> HIDE DEF IInv, TypeOK, w
    <3>1. /\ AfterStep(b, w) \in Holder(index)
          /\ AfterStep(b, w).mostWork \in {w, None}
          /\ AfterStep(b, w).pc \in {"find", "begin", "idle"}
          /\ AfterStep(b, w).pc = "idle" => AfterStep(b, w).mostWork = None
      BY <3>0, AfterStepLemma
    <3> QED
      BY <3>1, <2>2
  <2> QED
    BY <1>1, <2>1, <2>2
<1>9. StatusOK' /\ SetsOK' /\ NumbersOK' /\ pending' \in BOOLEAN
  BY <1>1, <1>4, <1>6 DEF ConnectTip, StatusOK, SetsOK, NumbersOK, PruneBlockIndexCandidates
<1>10. MostWorkUsable' /\ MostWorkProcessed' /\ Locals'
  BY <1>1, <1>6, <1>8 DEF MostWorkUsable, MostWorkProcessed, Locals
<1>11. ProcessedGood' /\ FailedBlocksMarked' /\ IndexClosed'
  BY <1>6 DEF ConnectTip, ProcessedGood, FailedBlocksMarked, IndexClosed
<1>12. ActiveChainClean' /\ ChainIsPath'
  BY <1>1, <1>4, <1>5, <1>6, <1>7 DEF ActiveChainClean, ChainIsPath
<1> QED
  BY <1>6, <1>8, <1>9, <1>10, <1>11, <1>12

LEMMA ConnectTipInvalidLemma ==
    ASSUME IInv, ConnectTipInvalid
    PROVE  IInv'
<1> USE DEF IInv, TypeOK
<1> DEFINE w == abc.mostWork
<1>1. PICK b \in NextBlock :
         /\ b \in haveData /\ b \in BadConnect
         /\ failedValid' = failedValid \cup {b}
         /\ failedBlocks' = failedBlocks \cup {b}
         /\ candidates' = candidates \ {b}
         /\ bestInvalid' = MoreInvalid(MoreInvalid(bestInvalid, b), abc.mostWork)
         /\ bestHeader' = HeaderAfter(b, tip)
  BY DEF ConnectTipInvalid
<1>2. w \in index /\ w \in Blocks
  BY DEF ConnectTipInvalid, Locals, Holder, index
<1>3. b \in Blocks /\ b \in Ancestors[w] /\ Parent[b] = tip /\ tip \in Blocks /\ b # Genesis
  <2>1. b \in Ancestors[w] /\ Parent[b] = tip
    BY DEF NextBlock
  <2>2. tip \in Blocks /\ chain = Ancestors[tip]
    BY SMT, TipLemma DEF ChainIsPath
  <2>3. b \in Blocks
    BY <1>2, <2>1, SelfLemma
  <2> QED
    BY SMT, <2>1, <2>2, <2>3, ExtendsTipLemma
<1>4. b \in index /\ b \notin chain
  BY <1>2, <1>3, ExtendsTipLemma DEF IndexClosed, ChainIsPath
<1>5. /\ index' = index /\ processed' = processed /\ failed' = failed \cup {b}
      /\ UNCHANGED <<chain, tip, queue, pending, calls, restarts>>
  BY <1>1, SameValid DEF ConnectTipInvalid, failed, chainVars
<1>6. /\ abc' \in Holder(index) /\ abc'.mostWork = None
      /\ abc'.pc \in {"find", "begin", "idle"}
  BY AfterStepLemma DEF ConnectTipInvalid
<1>7. StatusOK' /\ NumbersOK'
  BY <1>1, <1>4, <1>5 DEF ConnectTipInvalid, StatusOK, NumbersOK
<1>8. SetsOK'
  BY <1>1, <1>2, <1>4, <1>5 DEF ConnectTipInvalid, SetsOK, MoreInvalid, HeaderAfter
<1> QED
  BY <1>1, <1>4, <1>5, <1>6, <1>7, <1>8 DEF ChainIsPath, ProcessedGood, ActiveChainClean,
     FailedBlocksMarked, IndexClosed, MostWorkUsable, MostWorkProcessed, Locals

LEMMA InvalidateBlockLemma ==
    ASSUME IInv, NEW b \in Blocks, InvalidateBlock(b)
    PROVE  IInv'
<1> USE DEF IInv, TypeOK
<1> DEFINE S == {c \in index \ chain : /\ ~Worse(seq, c, Parent[b])
                                      /\ IsValid(c, TRANSACTIONS)
                                      /\ c \in linked}
<1>1. abc' = [Idle EXCEPT !.pc = "walk", !.target = b, !.toMark = b, !.byWork = S]
  BY DEF InvalidateBlock
<1>2. b \in index \ {Genesis} /\ S \subseteq index /\ b \in Ancestors[b]
  BY SMT, TreeFacts DEF InvalidateBlock
<1> HIDE DEF S
<1>3. /\ abc' \in Holder(index) /\ abc'.mostWork = None /\ abc'.pc = "walk"
      /\ abc'.target = b /\ abc'.toMark = b
  BY <1>1, <1>2 DEF Idle, Holder
<1>4. calls' \in 0..MaxCalls
  BY SMT, InputAssumption DEF InvalidateBlock, NumbersOK
<1>5. index' = index
  BY SMT, SameValid DEF InvalidateBlock, status
<1>6. Locals' /\ MostWorkUsable' /\ MostWorkProcessed'
  BY <1>2, <1>3, <1>5 DEF Locals, MostWorkUsable, MostWorkProcessed
<1> QED
  BY <1>3, <1>4, <1>6, HolderStep DEF InvalidateBlock

\* In particular InvalidateBlock never finds its parent-most block marked
\* already: the blocks below the tip are clean.
LEMMA InvalidateWalkLemma ==
    ASSUME IInv, InvalidateWalk
    PROVE  IInv'
<1> USE DEF IInv, TypeOK
<1>1. CASE abc' = Idle /\ pending' = TRUE /\ UNCHANGED <<failedValid, failedChild, chainVars, candidates>>
  <2>1. abc' \in Holder(index) /\ abc'.mostWork = None /\ abc'.pc = "idle"
    BY <1>1 DEF Idle, Holder
  <2>2. Locals' /\ MostWorkUsable' /\ MostWorkProcessed'
    BY <2>1 DEF Locals, MostWorkUsable, MostWorkProcessed
  <2> QED
    BY <1>1, <2>1, <2>2, HolderStep DEF InvalidateWalk, NumbersOK, status, sets
<1> DEFINE p == Parent[tip]
           add == {c \in abc.byWork : Work[c] >= Work[p] /\ ~Worse(seq, c, p)}
<1>2. CASE /\ chain' = chain \ {tip} /\ tip' = p
           /\ failedValid' = (failedValid \cup {tip}) \
                 (IF p = abc.toMark /\ p \in failedValid THEN {p} ELSE {})
           /\ failedChild' = failedChild \cup
                 (IF p = abc.toMark /\ p \in failedValid THEN {p} ELSE {})
           /\ candidates' = (candidates \ {tip}) \cup {p} \cup add
           /\ abc' = [abc EXCEPT !.toMark = tip, !.byWork = @ \ add]
           /\ UNCHANGED pending
  <2>1. add \subseteq index /\ tip \in index /\ abc.target \in chain /\ abc.pc = "walk"
    BY DEF InvalidateWalk, Holder, SetsOK
  <2>2. tip # Genesis
    <3>1. abc.target # Genesis /\ chain = Ancestors[tip]
      BY <2>1 DEF ChainIsPath, Locals
    <3>2. Ancestors[Genesis] = {Genesis}
      BY TreeFacts
    <3> QED
      BY <2>1, <3>1, <3>2
  <2>3. /\ p \in chain \ {tip} /\ chain \ {tip} = Ancestors[p] /\ p \in index
    BY <2>2, ShorterChain DEF SetsOK
  <2>4. failedValid' = failedValid \cup {tip} /\ failedChild' = failedChild
    BY <1>2, <2>3 DEF ActiveChainClean, failed
  <2>5. /\ index' = index /\ processed' = processed /\ failed' = failed \cup {tip}
    BY <2>4, SameValid DEF InvalidateWalk, failed
  <2> HIDE DEF add
  <2>6. /\ abc' \in Holder(index) /\ abc'.mostWork = None /\ abc'.pc = "walk"
        /\ abc'.target = abc.target /\ abc'.toMark = tip
    BY <1>2, <2>1 DEF Holder, Locals
  <2>7. StatusOK' /\ NumbersOK'
    BY <2>1, <2>4, <2>5 DEF InvalidateWalk, StatusOK, NumbersOK
  <2>8. SetsOK'
    BY <1>2, <2>1, <2>3, <2>5 DEF InvalidateWalk, SetsOK
  <2>9. Locals'
    BY <2>1, <2>5, <2>6 DEF Locals, ChainIsPath
  <2> QED
    BY <1>2, <2>3, <2>5, <2>6, <2>7, <2>8, <2>9 DEF InvalidateWalk, ChainIsPath, ProcessedGood,
       ActiveChainClean, FailedBlocksMarked, IndexClosed, MostWorkUsable, MostWorkProcessed
<1> QED
  BY <1>1, <1>2 DEF InvalidateWalk

\* The block InvalidateBlock marks last is not on the active chain: its check
\* "something is interfering" never fires.
LEMMA InvalidateMarkLemma ==
    ASSUME IInv, InvalidateMark
    PROVE  IInv'
<1> USE DEF IInv, TypeOK
<1> DEFINE m == abc.toMark
<1>1. m \in index /\ m \in Blocks /\ abc.target \in Ancestors[m] /\ abc.target \notin chain
  BY DEF InvalidateMark, Locals, index
<1>2. m \notin chain
  BY <1>1, OffChainLemma, TipLemma DEF ChainIsPath
<1>3. /\ index' = index /\ processed' = processed /\ failed' = failed \cup {m}
      /\ UNCHANGED <<chain, tip, queue, calls, restarts>>
  BY SameValid DEF InvalidateMark, failed, chainVars
<1>4. abc' \in Holder(index) /\ abc'.mostWork = None /\ abc'.pc = "idle"
  BY IdleLemma DEF InvalidateMark, Idle
<1>5. StatusOK' /\ NumbersOK' /\ pending' \in BOOLEAN
  BY <1>1, <1>3 DEF InvalidateMark, StatusOK, NumbersOK
<1>6. Missed \subseteq index
  <2>1. processed \subseteq index
    BY ProcessedLemma
  <2> QED
    BY <2>1 DEF Missed, StatusOK
<1>7. SetsOK'
  BY <1>1, <1>3, <1>6 DEF InvalidateMark, SetsOK, MoreInvalid, HeaderAfter
<1> QED
  BY <1>2, <1>3, <1>4, <1>5, <1>7 DEF InvalidateMark, ChainIsPath, ProcessedGood,
     ActiveChainClean, FailedBlocksMarked, IndexClosed, MostWorkUsable, MostWorkProcessed, Locals

LEMMA ResetBlockFailureFlagsLemma ==
    ASSUME IInv, NEW b \in Blocks, ResetBlockFailureFlags(b)
    PROVE  IInv'
<1> USE DEF IInv, TypeOK
<1> DEFINE reset == {x \in index : ~IsValid(x, TRANSACTIONS) /\ b \in Ancestors[x]}
           cleared == reset \cup Ancestors[b]
<1>1. /\ index' = index /\ processed' = processed /\ failed' = failed \ cleared
      /\ UNCHANGED <<chain, tip, queue, abc, restarts, seq, ids>>
  BY SameValid DEF ResetBlockFailureFlags, failed, chainVars
<1>2. reset \subseteq index
  OBVIOUS
<1>3. StatusOK' /\ pending' \in BOOLEAN
  BY <1>1 DEF ResetBlockFailureFlags, StatusOK
<1>4. SetsOK'
  BY <1>1, <1>2 DEF ResetBlockFailureFlags, SetsOK
<1>5. NumbersOK'
  <2>1. calls' \in 0..MaxCalls
    <3>1. calls' = calls + 1 /\ calls < MaxCalls /\ calls \in 0..MaxCalls
      BY DEF ResetBlockFailureFlags, NumbersOK
    <3> QED
      BY SMT, <3>1, InputAssumption
  <2> QED
    BY <1>1, <2>1 DEF NumbersOK
<1>6. FailedBlocksMarked'
  BY <1>1 DEF ResetBlockFailureFlags, FailedBlocksMarked
<1> QED
  BY <1>1, <1>3, <1>4, <1>5, <1>6 DEF ChainIsPath, ProcessedGood, ActiveChainClean, IndexClosed,
     MostWorkUsable, MostWorkProcessed, Locals

LEMMA PreciousBlockLemma ==
    ASSUME IInv, NEW b \in Blocks, PreciousBlock(b)
    PROVE  IInv'
<1> USE DEF IInv, TypeOK
<1>1. /\ index' = index /\ processed' = processed /\ failed' = failed
      /\ UNCHANGED <<chain, tip, queue, abc, restarts>>
  BY SameValid DEF PreciousBlock, failed, chainVars
<1>2. StatusOK' /\ pending' \in BOOLEAN
  BY <1>1 DEF PreciousBlock, StatusOK
<1>3. SetsOK'
  BY <1>1 DEF PreciousBlock, SetsOK, PreciousCandidates, PruneBlockIndexCandidates
<1>4. NumbersOK'
  <2> DEFINE reverse == IF Work[tip] > ids.lastPrecious THEN -1 ELSE ids.reverse
  <2>1. ids.next \in Nat \ {0} /\ ids.reverse \in Int /\ ids.lastPrecious \in Nat
    BY DEF NumbersOK
  <2>2. reverse \in Int /\ Work[tip] \in Nat
    <3>1. Work[tip] \in Nat
      BY TipLemma, WorkAssumption
    <3> HIDE DEF IInv, TypeOK
    <3> QED
      BY SMT, <2>1, <3>1
  <2>3. /\ seq' = [seq EXCEPT ![b] = reverse]
        /\ ids' = [next |-> ids.next, reverse |-> reverse - 1, lastPrecious |-> Work[tip]]
    BY DEF PreciousBlock
  <2> HIDE DEF reverse
  <2> HIDE DEF IInv, TypeOK
  <2>4. ids' \in [next : Nat \ {0}, reverse : Int, lastPrecious : Nat]
    <3>1. reverse - 1 \in Int
      BY SMT, <2>2
    <3> QED
      BY <2>1, <2>2, <2>3, <3>1, IdsLemma
  <2>5. seq' \in [Blocks -> Int]
    BY <2>2, <2>3 DEF NumbersOK, IInv, TypeOK
  <2>6. calls' \in 0..MaxCalls
    <3>1. calls' = calls + 1 /\ calls < MaxCalls /\ calls \in 0..MaxCalls
      BY DEF PreciousBlock, NumbersOK, IInv, TypeOK
    <3> QED
      BY SMT, <3>1, InputAssumption
  <2> QED
    BY <2>4, <2>5, <2>6, <1>1 DEF NumbersOK, IInv, TypeOK
<1> QED
  BY <1>1, <1>2, <1>3, <1>4 DEF PreciousBlock, ChainIsPath, ProcessedGood, ActiveChainClean,
     FailedBlocksMarked, IndexClosed, MostWorkUsable, MostWorkProcessed, Locals

LEMMA PruneOneBlockFileLemma ==
    ASSUME IInv, NEW b \in Blocks, PruneOneBlockFile(b)
    PROVE  IInv'
<1> USE DEF IInv, TypeOK
<1>1. /\ index' = index /\ processed' = processed /\ failed' = failed
      /\ UNCHANGED <<chain, tip, queue, abc, restarts, calls, pending>>
  BY SameValid DEF PruneOneBlockFile, failed, chainVars
<1>2. StatusOK' /\ SetsOK' /\ NumbersOK'
  BY <1>1 DEF PruneOneBlockFile, StatusOK, SetsOK, NumbersOK, Unparked
<1> QED
  BY <1>1, <1>2 DEF PruneOneBlockFile, ChainIsPath, ProcessedGood, ActiveChainClean,
     FailedBlocksMarked, IndexClosed, MostWorkUsable, MostWorkProcessed, Locals

LEMMA LoadBlockIndexLemma ==
    ASSUME IInv, LoadBlockIndex
    PROVE  IInv'
<1> USE DEF IInv, TypeOK
<1>1. /\ index' = index /\ processed' = processed /\ failed' = failed \cup FailedDescendants
      /\ UNCHANGED <<chain, tip, queue, calls, failedValid, haveData, valid>>
  BY SameValid DEF LoadBlockIndex, failed, chainVars
<1>2. processed \subseteq index /\ FailedDescendants \subseteq index
  BY ProcessedLemma DEF FailedDescendants
<1>3. FailedDescendants \cap chain = {}
  <2>1. chain = Ancestors[tip] /\ tip \in Blocks
    BY TipLemma DEF ChainIsPath
  <2>2. \A f \in failed : f \notin chain
    BY DEF ActiveChainClean
  <2>3. \A y \in FailedDescendants : \E f \in failed : f \in Ancestors[y]
    BY DEF FailedDescendants
  <2> QED
    BY <2>1, <2>2, <2>3, OffChainLemma
<1>4. linked' \subseteq processed
  <2>1. linked' = {b \in Blocks : Ancestors[b] \subseteq processed}
    BY DEF LoadBlockIndex
  <2>2. \A b \in Blocks : b \in Ancestors[b]
    BY SelfLemma
  <2> QED
    BY <2>1, <2>2
<1>5. StatusOK' /\ pending' \in BOOLEAN
  BY <1>1, <1>2, <1>4 DEF LoadBlockIndex, StatusOK
<1>6. SetsOK'
  <2>1. bestHeader' \in index
    BY DEF LoadBlockIndex
  <2>2. bestInvalid' \in index \cup {None}
    BY <1>1, <1>5 DEF LoadBlockIndex, StatusOK
  <2>3. candidates' \subseteq index
    BY <1>2 DEF LoadBlockIndex, PruneBlockIndexCandidates
  <2>4. unlinked' \subseteq processed \ {Genesis} /\ failedBlocks' = {}
    BY DEF LoadBlockIndex
  <2> QED
    BY <1>1, <2>1, <2>2, <2>3, <2>4 DEF SetsOK
<1>7. NumbersOK'
  <2>2. ids' \in [next : Nat \ {0}, reverse : Int, lastPrecious : Nat]
    <3>1. ids' = [next |-> 1, reverse |-> -1, lastPrecious |-> 0]
      BY DEF LoadBlockIndex
    <3> QED
      BY SMT, <3>1, IdsLemma
  <2>3. restarts' \in 0..MaxRestarts
    <3>1. restarts' = restarts + 1 /\ restarts < MaxRestarts /\ restarts \in 0..MaxRestarts
      BY DEF LoadBlockIndex, NumbersOK
    <3> QED
      BY SMT, <3>1, InputAssumption
  <2>4. seq' \in [Blocks -> Int]
    <3>1. seq' = [b \in Blocks |-> 0]
      BY DEF LoadBlockIndex
    <3> QED
      BY SMT, <3>1
  <2> QED
    BY <2>2, <2>3, <2>4, <1>1 DEF NumbersOK
<1>8. abc' \in Holder(index) /\ abc'.mostWork = None /\ abc'.pc = "idle"
  BY IdleLemma DEF LoadBlockIndex, Idle
<1> QED
  BY <1>1, <1>3, <1>5, <1>6, <1>7, <1>8 DEF LoadBlockIndex, ChainIsPath, ProcessedGood,
     ActiveChainClean, FailedBlocksMarked, IndexClosed, MostWorkUsable, MostWorkProcessed, Locals

LEMMA StutterLemma ==
    ASSUME IInv, UNCHANGED vars
    PROVE  IInv'
  BY DEF IInv, TypeOK, vars, status, chainVars, sets, StatusOK, SetsOK, NumbersOK, ChainIsPath,
     ProcessedGood, ActiveChainClean, FailedBlocksMarked, IndexClosed, MostWorkUsable,
     MostWorkProcessed, Locals, index, processed, failed

LEMMA NextLemma == IInv /\ [Next]_vars => IInv'
<1> SUFFICES ASSUME IInv, [Next]_vars PROVE IInv'
  OBVIOUS
<1>1. ASSUME NEW b \in Blocks, AcceptBlockHeader(b) PROVE IInv'
  BY SMT, <1>1, AcceptBlockHeaderLemma
<1>2. ASSUME NEW b \in Blocks, NEW r \in BOOLEAN, AcceptBlock(b, r) PROVE IInv'
  BY SMT, <1>2, AcceptBlockLemma
<1>3. ASSUME NEW b \in queue, ReceivedBlockTransactions(b) PROVE IInv'
  BY SMT, <1>3, ReceivedBlockTransactionsLemma
<1>4. CASE Activate
  BY SMT, <1>4, ActivateBestChainLemma, FindMostWorkChainDiscardLemma, FindMostWorkChainLemma,
     NothingToDoLemma, DisconnectTipLemma, ConnectTipLemma, ConnectTipInvalidLemma DEF Activate
<1>5. CASE ConnectTipError
  BY <1>5, ConnectTipErrorLemma DEF ConnectTipError
<1>6. ASSUME NEW b \in Invalidated, InvalidateBlock(b) PROVE IInv'
  BY <1>6, InvalidateBlockLemma, InputAssumption
<1>7. CASE Invalidate
  BY <1>7, InvalidateWalkLemma, InvalidateMarkLemma DEF Invalidate
<1>8. ASSUME NEW b \in Reconsidered, ResetBlockFailureFlags(b) PROVE IInv'
  BY <1>8, ResetBlockFailureFlagsLemma, InputAssumption
<1>9. ASSUME NEW b \in Precious, PreciousBlock(b) PROVE IInv'
  BY <1>9, PreciousBlockLemma, InputAssumption
<1>10. ASSUME NEW b \in Prunable, PruneOneBlockFile(b) PROVE IInv'
  BY <1>10, PruneOneBlockFileLemma, InputAssumption
<1>11. CASE LoadBlockIndex
  BY SMT, <1>11, LoadBlockIndexLemma
<1>12. CASE UNCHANGED vars
  BY SMT, <1>12, StutterLemma
<1> QED
  BY <1>1, <1>2, <1>3, <1>4, <1>5, <1>6, <1>7, <1>8, <1>9, <1>10, <1>11, <1>12 DEF Next

\* The inductive invariant holds of every behaviour.
THEOREM InvariantTheorem == Spec => []IInv
  BY InitLemma, NextLemma, PTL DEF Spec

\* The variables of the block index and of the running calls keep their types.
THEOREM TypeTheorem == Spec => []TypeOK
<1>1. IInv => TypeOK
  BY SMT DEF IInv
<1> QED
  BY <1>1, InvariantTheorem, PTL

\* However headers, blocks, RPCs, pruning and restarts interleave, no block of
\* the active chain is marked invalid, in no intermediate state either.
THEOREM ActiveChainCleanTheorem == Spec => []ActiveChainClean
<1>1. IInv => ActiveChainClean
  BY SMT DEF IInv
<1> QED
  BY <1>1, InvariantTheorem, PTL

\* pindexMostWork, kept by ActivateBestChain while cs_main is released, never
\* has a failed block on the path still to be connected.
THEOREM MostWorkUsableTheorem == Spec => []MostWorkUsable
<1>1. IInv => MostWorkUsable
  BY DEF IInv
<1> QED
  BY <1>1, InvariantTheorem, PTL

-----------------------------------------------------------------------------
(* Causes of failure flags.                                                *)

\* FailedHaveCause at every step, also while cs_main is held.
Caused == \A b \in failed : Invalid(b)

\* A step that takes no BLOCK_FAILED_VALID away and marks only blocks with
\* BLOCK_FAILED_VALID or above a failed block.
LEMMA CauseLemma ==
    ASSUME IInv, IInv', Caused, failedValid \subseteq failedValid',
           \A b \in failed' \ failed : b \in failedValid' \/ Ancestors[b] \cap failed # {}
    PROVE  Caused'
<1> SUFFICES ASSUME NEW b \in failed' PROVE Ancestors[b] \cap failedValid' # {}
  BY DEF Caused, Invalid
<1>0. b \in Blocks
  BY DEF IInv, TypeOK, StatusOK, index, failed
<1>1. CASE b \in failed
  BY <1>1 DEF Caused, Invalid
<1>2. CASE b \in failedValid'
  BY <1>0, <1>2, SelfLemma
<1>3. ASSUME NEW x \in failed, x \in Ancestors[b] PROVE Ancestors[b] \cap failedValid' # {}
  <2>1. PICK f \in Ancestors[x] : f \in failedValid
    BY DEF Caused, Invalid
  <2>2. f \in Ancestors[b]
    BY <1>0, <1>3, TransitiveLemma
  <2> QED
    BY <2>1, <2>2
<1> QED
  BY <1>1, <1>2, <1>3

LEMMA CausedStep ==
    ASSUME Reconsidered = {}, IInv, IInv', Caused, Next
    PROVE  Caused'
<1>1. ASSUME NEW b \in Blocks, AcceptBlockHeader(b) PROVE Caused'
  <2>1. CASE UNCHANGED failedChild
    BY <1>1, <2>1, CauseLemma DEF AcceptBlockHeader, failed
  <2>2. ASSUME NEW f \in failedBlocks \cap Ancestors[Parent[b]],
               failedChild' = failedChild \cup Tainted(b, f)
        PROVE  Caused'
    <3>1. f \in failed /\ Parent[b] \in Blocks
      BY <1>1 DEF IInv, FailedBlocksMarked, AcceptBlockHeader, index
    <3>2. \A y \in Tainted(b, f) : f \in Ancestors[y]
      BY <3>1, AboveLemma DEF Tainted
    <3> QED
      BY <1>1, <2>2, <3>1, <3>2, CauseLemma DEF AcceptBlockHeader, failed
  <2> QED
    BY <1>1, <2>1, <2>2 DEF AcceptBlockHeader
<1>2. ASSUME NEW b \in Blocks, NEW r \in BOOLEAN, AcceptBlock(b, r) PROVE Caused'
  BY <1>2, CauseLemma DEF AcceptBlock, failed
<1>3. ASSUME NEW b \in queue, ReceivedBlockTransactions(b) PROVE Caused'
  BY <1>3, CauseLemma DEF ReceivedBlockTransactions, failed
<1>4. CASE FindMostWorkChainDiscard
  <2>1. PICK best \in Best : \E x \in Unusable(best) :
           \/ UNCHANGED failedChild
           \/ x \in failed /\ failedChild' = failedChild \cup (Ancestors[best] \ Ancestors[x])
    BY <1>4 DEF FindMostWorkChainDiscard
  <2>2. PICK x \in Unusable(best) :
           \/ UNCHANGED failedChild
           \/ x \in failed /\ failedChild' = failedChild \cup (Ancestors[best] \ Ancestors[x])
    BY <2>1
  <2>3. best \in Blocks /\ x \in Ancestors[best]
    BY DEF IInv, TypeOK, SetsOK, Best, Unusable, index
  <2>4. \A y \in Ancestors[best] \ Ancestors[x] : x \in Ancestors[y]
    BY <2>3, AboveLemma
  <2> QED
    BY <1>4, <2>2, <2>4, CauseLemma DEF FindMostWorkChainDiscard, failed
<1>5. CASE ActivateBestChain \/ FindMostWorkChain \/ NothingToDo \/ DisconnectTip \/ ConnectTipError
  BY <1>5, CauseLemma DEF ActivateBestChain, FindMostWorkChain, NothingToDo, DisconnectTip,
     ConnectTipError, status, failed
<1>6. CASE ConnectTip \/ ConnectTipInvalid
  BY <1>6, CauseLemma DEF ConnectTip, ConnectTipInvalid, failed
<1>7. ASSUME NEW b \in Invalidated, InvalidateBlock(b) PROVE Caused'
  BY <1>7, CauseLemma DEF InvalidateBlock, status, failed
<1>8. CASE InvalidateWalk
  <2>1. \/ UNCHANGED <<failedValid, failedChild>>
        \/ /\ failedValid' = (failedValid \cup {tip}) \
                 (IF Parent[tip] = abc.toMark /\ Parent[tip] \in failedValid THEN {Parent[tip]} ELSE {})
           /\ failedChild' = failedChild \cup
                 (IF Parent[tip] = abc.toMark /\ Parent[tip] \in failedValid THEN {Parent[tip]} ELSE {})
    BY SMT, <1>8 DEF InvalidateWalk
  <2>2. tip # Genesis
    <3>1. abc.target \in chain /\ abc.target # Genesis /\ chain = Ancestors[tip]
      BY <1>8 DEF InvalidateWalk, IInv, Locals, ChainIsPath
    <3>2. Ancestors[Genesis] = {Genesis}
      BY TreeFacts
    <3> QED
      BY <3>1, <3>2
  <2>3. Parent[tip] \notin failedValid
    BY <2>2, ShorterChain DEF IInv, ActiveChainClean, failed
  <2> QED
    BY <2>1, <2>3, CauseLemma DEF failed
<1>9. CASE InvalidateMark
  BY <1>9, CauseLemma DEF InvalidateMark, failed
<1>10. ASSUME NEW b \in Precious, PreciousBlock(b) PROVE Caused'
  BY <1>10, CauseLemma DEF PreciousBlock, failed
<1>11. ASSUME NEW b \in Prunable, PruneOneBlockFile(b) PROVE Caused'
  BY <1>11, CauseLemma DEF PruneOneBlockFile, failed
<1>12. CASE LoadBlockIndex
  BY <1>12, CauseLemma DEF LoadBlockIndex, FailedDescendants, failed
<1> QED
  BY <1>1, <1>2, <1>3, <1>4, <1>5, <1>6, <1>7, <1>8, <1>9, <1>10, <1>11, <1>12
  DEF Next, Activate, Invalidate

\* Without reconsiderblock, every block with a failure flag has a cause.
THEOREM CausedTheorem == Reconsidered = {} => (Spec => []Caused)
<1> SUFFICES ASSUME Reconsidered = {} PROVE Spec => []Caused
  OBVIOUS
<1>1. Init => Caused
  BY DEF Init, Caused, failed
<1>2. IInv /\ IInv' /\ Caused /\ [Next]_vars => Caused'
  <2>1. ASSUME Caused, UNCHANGED vars PROVE Caused'
    BY <2>1 DEF Caused, Invalid, failed, vars, status
  <2> QED
    BY SMT, <2>1, CausedStep
<1> QED
  BY <1>1, <1>2, InvariantTheorem, PTL DEF Spec

\* As long as reconsiderblock is not called, every block with a failure flag has
\* a BLOCK_FAILED_VALID block below it (CheckBlockIndex's first rule on flags).
THEOREM FailedHaveCauseTheorem == Reconsidered = {} => (Spec => []FailedHaveCause)
<1>1. Caused => FailedHaveCause
  BY DEF Caused, FailedHaveCause
<1> QED
  BY <1>1, CausedTheorem, PTL

-----------------------------------------------------------------------------
(* The order of setBlockIndexCandidates.                                   *)

\* CBlockIndexWorkComparator is a strict total order that ranks work first.
LEMMA OrderLemma ==
    ASSUME NEW s \in [Blocks -> Int], NEW a \in Blocks, NEW b \in Blocks, NEW c \in Blocks
    PROVE  /\ ~Worse(s, a, a)
           /\ Worse(s, a, b) => ~Worse(s, b, a)
           /\ ~Worse(s, a, b) /\ ~Worse(s, b, c) => ~Worse(s, a, c)
           /\ Work[a] < Work[b] => Worse(s, a, b)
           /\ ~Worse(s, a, b) => Work[b] <= Work[a]
<1>1. /\ Work[a] \in Nat /\ Work[b] \in Nat /\ Work[c] \in Nat
      /\ Addr[a] \in Nat /\ Addr[b] \in Nat /\ Addr[c] \in Nat
      /\ s[a] \in Int /\ s[b] \in Int /\ s[c] \in Int
  BY WorkAssumption
<1>2. /\ ~Worse(s, a, a)
      /\ Worse(s, a, b) => ~Worse(s, b, a)
      /\ Work[a] < Work[b] => Worse(s, a, b)
      /\ ~Worse(s, a, b) => Work[b] <= Work[a]
  BY SMT, <1>1 DEF Worse
<1>3. ~Worse(s, a, b) /\ ~Worse(s, b, c) => ~Worse(s, a, c)
  BY SMT, <1>1 DEF Worse
<1> QED
  BY <1>2, <1>3

\* Renumbering a third block leaves the order of two others as it was.
LEMMA RenumberLemma ==
    ASSUME NEW s \in [Blocks -> Int], NEW b \in Blocks, NEW n \in Int,
           NEW x \in Blocks \ {b}, NEW y \in Blocks \ {b}
    PROVE  Worse([s EXCEPT ![b] = n], x, y) <=> Worse(s, x, y)
  BY DEF Worse

\* The types, in the form the proofs below use them.
LEMMA StateFacts ==
    ASSUME IInv
    PROVE  /\ tip \in Blocks /\ tip # None /\ seq \in [Blocks -> Int] /\ abc \in Holder(index)
           /\ linked \subseteq Blocks /\ queue \subseteq Blocks /\ None \notin candidates
           /\ abc.mostWork \in Blocks \cup {None} /\ abc.start \in Blocks \cup {None}
<1>1. abc \in Holder(index)
  BY DEF IInv, TypeOK
<1>2. abc.mostWork \in Blocks \cup {None} /\ abc.start \in Blocks \cup {None}
  BY <1>1 DEF Holder, index
<1> QED
  BY SMT, <1>1, <1>2, TreeFacts
  DEF IInv, TypeOK, StatusOK, SetsOK, NumbersOK, index, processed

-----------------------------------------------------------------------------
(* What is linked, without pruning.                                        *)

\* Every block that was received still has its data.
Stored == haveData = processed

\* The ancestors of a block that has nChainTx have it too.
LinkedClosed == \A b \in linked : Ancestors[b] \subseteq linked

\* A block in the queue of ReceivedBlockTransactions is about to be linked.
QueueReady == \A b \in queue : b \notin linked /\ (b # Genesis => Parent[b] \in linked)

\* A block in m_blocks_unlinked waits for a parent that is not linked.
ParkedWaits == \A b \in unlinked : b \notin linked \cup queue /\ Parent[b] \notin linked

\* Everything that may become the tip, or was it, is linked.
OnlyLinked ==
    /\ chain \cup candidates \cup abc.byWork \subseteq linked
    /\ {abc.mostWork, abc.start} \subseteq linked \cup {None}

\* No candidate is worse than the tip, in no intermediate state either.
NoneWorse == \A b \in candidates : ~Worse(seq, b, tip)

LinkInv ==
    /\ Stored /\ LinkedClosed /\ QueueReady /\ ParkedWaits /\ OnlyLinked /\ NoneWorse

LEMMA LinkFacts ==
    ASSUME IInv, LinkInv
    PROVE  /\ tip \in linked /\ Genesis \in linked /\ tip \in Blocks
           /\ linked \subseteq processed /\ linked \subseteq Blocks /\ linked \subseteq haveData
           /\ seq \in [Blocks -> Int]
<1>1. tip \in chain /\ linked \subseteq processed /\ tip \in Blocks /\ seq \in [Blocks -> Int]
  BY TipLemma DEF IInv, TypeOK, SetsOK, StatusOK, NumbersOK
<1>2. tip \in linked
  BY <1>1 DEF LinkInv, OnlyLinked
<1>3. Genesis \in Ancestors[tip]
  BY <1>1, TreeFacts
<1>4. Genesis \in linked
  BY <1>2, <1>3 DEF LinkInv, LinkedClosed
<1> QED
  BY <1>1, <1>2, <1>4 DEF LinkInv, Stored, processed

LEMMA LinkInit == Init => LinkInv
<1> SUFFICES ASSUME Init PROVE LinkInv
  BY SMT
<1>1. processed = {Genesis}
  BY SMT, TreeFacts DEF Init, processed, TRANSACTIONS
<1>2. Stored /\ LinkedClosed /\ QueueReady /\ ParkedWaits
  BY <1>1, TreeFacts DEF Init, Stored, LinkedClosed, QueueReady, ParkedWaits
<1>3. OnlyLinked
  BY DEF Init, OnlyLinked, Idle
<1>4. NoneWorse
  <2>1. seq \in [Blocks -> Int] /\ Genesis \in Blocks
    BY SMT, TreeFacts DEF Init
  <2> QED
    BY SMT, <2>1, OrderLemma DEF Init, NoneWorse
<1> QED
  BY <1>2, <1>3, <1>4 DEF LinkInv

\* A step that links and parks nothing.
LEMMA LinkFrame ==
    ASSUME LinkInv, UNCHANGED <<haveData, linked, unlinked, queue>>, processed' = processed,
           OnlyLinked', NoneWorse'
    PROVE  LinkInv'
  BY DEF LinkInv, Stored, LinkedClosed, QueueReady, ParkedWaits

LEMMA LinkAcceptBlockHeader ==
    ASSUME IInv, IInv', LinkInv, NEW b \in Blocks, AcceptBlockHeader(b)
    PROVE  LinkInv'
<1>1. /\ UNCHANGED <<haveData, linked, unlinked, queue, chain, tip, seq, candidates, abc>>
  BY DEF AcceptBlockHeader, chainVars
<1>2. processed' = processed
  <2>1. CASE valid' = RaiseValidity(b, TREE)
    BY <2>1, RaiseLemma DEF IInv, TypeOK
  <2>2. CASE UNCHANGED valid
    BY <2>2, SameValid
  <2> QED
    BY <2>1, <2>2 DEF AcceptBlockHeader
<1>3. OnlyLinked' /\ NoneWorse'
  BY <1>1 DEF LinkInv, OnlyLinked, NoneWorse
<1> QED
  BY <1>1, <1>2, <1>3, LinkFrame

LEMMA LinkAcceptBlock ==
    ASSUME IInv, IInv', LinkInv, NEW b \in Blocks, NEW r \in BOOLEAN, AcceptBlock(b, r)
    PROVE  LinkInv'
<1>1. /\ UNCHANGED <<chain, tip, seq, candidates, abc>>
      /\ queue = {} /\ b \notin haveData /\ b \notin failed
  BY DEF AcceptBlock, chainVars, CsMainFree, Wanted
<1>2. b \notin processed /\ b \notin linked
  BY <1>1, LinkFacts DEF LinkInv, Stored
<1>3. CASE UNCHANGED <<valid, haveData, linked, unlinked, queue>>
  <2>1. OnlyLinked' /\ NoneWorse'
    BY <1>1, <1>3 DEF LinkInv, OnlyLinked, NoneWorse
  <2> QED
    BY <1>3, <2>1, SameValid, LinkFrame
<1>4. CASE /\ haveData' = haveData \cup {b}
           /\ linked' = linked \ {b}
           /\ valid' = RaiseValidity(b, TRANSACTIONS)
           /\ IF Parent[b] = None \/ Parent[b] \in linked
              THEN queue' = {b} /\ UNCHANGED unlinked
              ELSE unlinked' = Parked(b) /\ UNCHANGED queue
  <2>1. linked' = linked
    BY <1>2, <1>4
  <2>2. processed' = processed \cup {b}
    <3>1. StatusOK
      BY DEF IInv, TypeOK
    <3>2. TRANSACTIONS # TREE
      BY SMT DEF TRANSACTIONS, TREE
    <3> QED
      BY SMT, <1>1, <1>4, <3>1, <3>2, RaiseLemma
  <2>3. OnlyLinked' /\ NoneWorse' /\ LinkedClosed' /\ Stored'
    BY <1>1, <1>4, <2>1, <2>2 DEF LinkInv, OnlyLinked, NoneWorse, LinkedClosed, Stored
  <2>4. b \notin unlinked
    BY <1>2 DEF IInv, TypeOK, SetsOK
  <2>5. QueueReady' /\ ParkedWaits'
    <3>1. CASE (Parent[b] = None \/ Parent[b] \in linked) /\ queue' = {b} /\ UNCHANGED unlinked
      BY SMT, <1>2, <2>1, <2>4, <3>1, TreeFacts DEF LinkInv, QueueReady, ParkedWaits
    <3>2. CASE Parent[b] \notin linked /\ unlinked' = Parked(b) /\ UNCHANGED queue
      BY <1>1, <1>2, <2>1, <3>2 DEF LinkInv, QueueReady, ParkedWaits, Parked
    <3> QED
      BY <1>4, <3>1, <3>2
  <2> QED
    BY <2>3, <2>5 DEF LinkInv
<1> QED
  BY <1>3, <1>4 DEF AcceptBlock

LEMMA LinkReceived ==
    ASSUME IInv, IInv', LinkInv, NEW b \in queue, ReceivedBlockTransactions(b)
    PROVE  LinkInv'
<1>1. /\ UNCHANGED <<valid, haveData, chain, tip, abc>>
      /\ linked' = linked \cup {b} /\ seq' = [seq EXCEPT ![b] = ids.next]
      /\ candidates' = TryAddBlockIndexCandidate(b, seq')
      /\ queue' = (queue \ {b}) \cup Waiting(b)
      /\ unlinked' = unlinked \ Waiting(b)
  BY DEF ReceivedBlockTransactions, chainVars
<1>2. b \in Blocks /\ b \notin linked /\ (b # Genesis => Parent[b] \in linked) /\ ids.next \in Int
  <2>1. b \notin linked /\ (b # Genesis => Parent[b] \in linked)
    BY DEF LinkInv, QueueReady
  <2>2. b \in Blocks
    BY DEF IInv, TypeOK, SetsOK, processed
  <2>3. ids.next \in Int
    BY SMT DEF IInv, TypeOK, NumbersOK
  <2> QED
    BY <2>1, <2>2, <2>3
<1>3. tip \in linked /\ Genesis \in linked /\ linked \subseteq Blocks /\ seq \in [Blocks -> Int]
  BY LinkFacts
<1>4. Stored'
  BY <1>1, SameValid DEF LinkInv, Stored
<1>5. LinkedClosed'
  <2>1. Ancestors[b] = {b} \cup Ancestors[Parent[b]]
    BY <1>2, <1>3, TreeFacts
  <2> QED
    BY <1>1, <1>2, <1>3, <2>1 DEF LinkInv, LinkedClosed
<1>6. QueueReady' /\ ParkedWaits'
  BY <1>1, <1>2, <1>3 DEF LinkInv, QueueReady, ParkedWaits, Waiting
<1>7. OnlyLinked'
  BY <1>1 DEF LinkInv, OnlyLinked, TryAddBlockIndexCandidate
<1>8. NoneWorse'
  <2>1. ASSUME NEW c \in candidates PROVE ~Worse(seq', c, tip)
    <3>1. c \in Blocks /\ c # b /\ tip # b
      BY <1>2, <1>3 DEF LinkInv, OnlyLinked
    <3> QED
      BY <1>1, <1>2, <1>3, <3>1, RenumberLemma DEF LinkInv, NoneWorse
  <2> QED
    BY <1>1, <2>1 DEF NoneWorse, TryAddBlockIndexCandidate
<1> QED
  BY <1>4, <1>5, <1>6, <1>7, <1>8 DEF LinkInv

\* A step of the holder of m_chainstate_mutex that leaves the index, the
\* candidates and the active chain alone.
LEMMA LinkHolder ==
    ASSUME LinkInv, UNCHANGED <<status, chainVars, sets, queue>>,
           abc'.byWork \subseteq linked,
           {abc'.mostWork, abc'.start} \subseteq linked \cup {None}
    PROVE  LinkInv'
<1>1. OnlyLinked' /\ NoneWorse'
  BY DEF LinkInv, OnlyLinked, NoneWorse, status, chainVars, sets
<1> QED
  BY <1>1, SameValid, LinkFrame DEF status, sets

LEMMA LinkActivateBestChain ==
    ASSUME IInv, IInv', LinkInv, ActivateBestChain
    PROVE  LinkInv'
<1>1. tip \in linked
  BY LinkFacts
<1>2. abc \in Holder(index) /\ abc.byWork \subseteq linked /\ abc.mostWork \in linked \cup {None}
  BY DEF IInv, TypeOK, LinkInv, OnlyLinked
<1>3. abc'.byWork \subseteq linked /\ {abc'.mostWork, abc'.start} \subseteq linked \cup {None}
  <2>1. CASE abc' = [Idle EXCEPT !.pc = "find", !.start = tip]
    BY SMT, <1>1, <2>1 DEF Idle
  <2>2. CASE abc' = [abc EXCEPT !.pc = "find", !.start = tip, !.connected = FALSE]
    BY <1>1, <1>2, <2>2 DEF Holder
  <2> QED
    BY SMT, <2>1, <2>2 DEF ActivateBestChain
<1> QED
  BY SMT, <1>3, LinkHolder DEF ActivateBestChain

\* Without pruning a candidate is only ever discarded for a failed ancestor.
LEMMA DiscardFailed ==
    ASSUME IInv, LinkInv, NEW best \in Best, NEW x \in Unusable(best)
    PROVE  x \in failed
<1>1. Ancestors[best] \subseteq haveData
  BY LinkFacts DEF Best, LinkInv, OnlyLinked, LinkedClosed
<1> QED
  BY <1>1 DEF Unusable

LEMMA LinkDiscard ==
    ASSUME IInv, IInv', LinkInv, FindMostWorkChainDiscard
    PROVE  LinkInv'
<1>1. UNCHANGED <<valid, haveData, linked, seq, chain, tip, queue, abc>> /\ candidates' \subseteq candidates
  BY DEF FindMostWorkChainDiscard, chainVars
<1>2. UNCHANGED unlinked
  BY DiscardFailed DEF FindMostWorkChainDiscard
<1>3. OnlyLinked' /\ NoneWorse'
  BY <1>1 DEF LinkInv, OnlyLinked, NoneWorse
<1> QED
  BY <1>1, <1>2, <1>3, SameValid, LinkFrame

LEMMA LinkFindMostWorkChain ==
    ASSUME IInv, IInv', LinkInv, FindMostWorkChain
    PROVE  LinkInv'
<1>1. PICK w \in MostWork \ {None, tip} :
         abc' = [abc EXCEPT !.pc = "step", !.mostWork = w, !.old = tip]
  BY DEF FindMostWorkChain
<1>2. w \in linked
  BY DEF MostWork, Best, LinkInv, OnlyLinked
<1>3. /\ abc \in Holder(index) /\ abc.byWork \subseteq linked /\ abc.start \in linked \cup {None}
  BY DEF IInv, TypeOK, LinkInv, OnlyLinked
<1>4. abc'.byWork \subseteq linked /\ {abc'.mostWork, abc'.start} \subseteq linked \cup {None}
  BY SMT, <1>1, <1>2, <1>3 DEF Holder
<1> QED
  BY SMT, <1>4, LinkHolder DEF FindMostWorkChain

LEMMA IdleFields ==
    ASSUME NEW a, a \in {Idle, [Idle EXCEPT !.pc = "begin"], [Idle EXCEPT !.pc = "aborted"]}
    PROVE  a.byWork = {} /\ a.mostWork = None /\ a.start = None
  BY SMT DEF Idle

LEMMA LinkNothingToDo ==
    ASSUME IInv, IInv', LinkInv, NothingToDo \/ ConnectTipError
    PROVE  LinkInv'
<1>1. abc' \in {Idle, [Idle EXCEPT !.pc = "begin"], [Idle EXCEPT !.pc = "aborted"]}
  BY SMT DEF NothingToDo, ConnectTipError
<1>2. abc'.byWork = {} /\ abc'.mostWork = None /\ abc'.start = None
  BY SMT, <1>1, IdleFields
<1> QED
  BY SMT, <1>2, LinkHolder DEF NothingToDo, ConnectTipError

\* The parent of the tip has less work than the tip.
LEMMA ParentWorse ==
    ASSUME IInv, LinkInv, tip # Genesis, NEW b \in Blocks, ~Worse(seq, b, tip)
    PROVE  ~Worse(seq, b, Parent[tip])
<1>1. tip \in Blocks /\ Parent[tip] \in Blocks /\ Work[Parent[tip]] < Work[tip]
  BY ShorterChain, WorkAssumption
<1>2. seq \in [Blocks -> Int]
  BY LinkFacts
<1>3. ~Worse(seq, tip, Parent[tip])
  <2>1. Worse(seq, Parent[tip], tip)
    BY <1>1, <1>2, OrderLemma
  <2> QED
    BY <1>1, <1>2, <2>1, OrderLemma
<1> QED
  BY <1>1, <1>2, <1>3, OrderLemma

LEMMA LinkDisconnectTip ==
    ASSUME IInv, IInv', LinkInv, DisconnectTip
    PROVE  LinkInv'
<1>1. CASE abc' = [Idle EXCEPT !.pc = "aborted"] /\ UNCHANGED chainVars
  <2>1. abc'.byWork = {} /\ abc'.mostWork = None /\ abc'.start = None
    BY <1>1, IdleFields
  <2> QED
    BY SMT, <1>1, <2>1, LinkHolder DEF DisconnectTip
<1>2. CASE chain' = chain \ {tip} /\ tip' = Parent[tip] /\ UNCHANGED abc
  <2>1. UNCHANGED <<valid, haveData, linked, seq, unlinked, queue, candidates>>
    BY DEF DisconnectTip, status, sets
  <2>2. tip # Genesis
    <3>1. abc.mostWork \in Blocks /\ tip \notin Ancestors[abc.mostWork]
      BY DEF DisconnectTip, IInv, TypeOK, Locals, Holder, index
    <3> QED
      BY <3>1, TreeFacts
  <2>3. NoneWorse'
    <3>1. candidates \subseteq Blocks
      BY DEF IInv, TypeOK, SetsOK, index
    <3> QED
      BY <1>2, <2>1, <2>2, <3>1, ParentWorse DEF LinkInv, NoneWorse
  <2>4. OnlyLinked'
    BY <1>2, <2>1 DEF LinkInv, OnlyLinked
  <2> QED
    BY <2>1, <2>3, <2>4, SameValid, LinkFrame
<1> QED
  BY SMT, <1>1, <1>2 DEF DisconnectTip

LEMMA AfterStepFields ==
    ASSUME NEW S, abc \in Holder(S), NEW t, NEW w
    PROVE  /\ AfterStep(t, w).byWork \subseteq abc.byWork
           /\ AfterStep(t, w).mostWork \in {w, None}
           /\ AfterStep(t, w).start \in {abc.start, None}
  BY DEF AfterStep, Idle, Holder

\* The next block on the path to pindexMostWork is linked and extends the tip.
LEMMA NextBlockLemma ==
    ASSUME IInv, LinkInv, abc.pc = "step", NEW b \in NextBlock
    PROVE  /\ b \in linked /\ b \in Blocks /\ b # Genesis /\ Parent[b] = tip
           /\ abc.mostWork \in linked /\ abc.mostWork \in Blocks /\ b \in Ancestors[abc.mostWork]
           /\ Work[tip] < Work[b]
<1>1. abc.mostWork \in linked /\ abc.mostWork \in Blocks /\ b \in Ancestors[abc.mostWork]
  BY LinkFacts DEF IInv, Locals, LinkInv, OnlyLinked, NextBlock
<1>2. b \in linked /\ b \in Blocks /\ Parent[b] = tip /\ tip \in Blocks
  BY <1>1, LinkFacts, SelfLemma DEF LinkInv, LinkedClosed, NextBlock
<1>3. b # Genesis
  BY <1>2, TreeFacts
<1> QED
  BY <1>1, <1>2, <1>3, WorkAssumption

LEMMA LinkConnectTip ==
    ASSUME IInv, IInv', LinkInv, ConnectTip
    PROVE  LinkInv'
<1>1. PICK b \in NextBlock :
         /\ b \in haveData
         /\ valid' = RaiseValidity(b, SCRIPTS)
         /\ chain' = chain \cup {b} /\ tip' = b
         /\ candidates' = PruneBlockIndexCandidates(candidates, seq, b)
         /\ abc' = IF b = abc.mostWork \/ Work[b] > Work[abc.old]
                   THEN AfterStep(b, abc.mostWork) ELSE abc
  BY DEF ConnectTip
<1>2. UNCHANGED <<haveData, linked, seq, unlinked, queue>> /\ abc.pc = "step"
  BY DEF ConnectTip
<1>3. b \in linked /\ b \in Blocks
  BY <1>2, NextBlockLemma
<1>4. processed' = processed
  <2>1. StatusOK /\ b \in processed
    BY <1>3, LinkFacts DEF IInv, TypeOK
  <2>2. processed \subseteq processed' /\ processed' \subseteq processed \cup {b}
    BY <1>1, <1>3, <2>1, RaiseLemma DEF TREE, SCRIPTS
  <2> QED
    BY <2>1, <2>2
<1>5. OnlyLinked'
  <2>1. candidates' \subseteq candidates
    BY <1>1 DEF PruneBlockIndexCandidates
  <2>2. /\ abc'.byWork \subseteq abc.byWork /\ abc'.mostWork \in {abc.mostWork, None}
        /\ abc'.start \in {abc.start, None}
    <3>1. CASE abc' = abc
      BY <3>1
    <3>2. CASE abc' = AfterStep(b, abc.mostWork)
      <4>1. abc \in Holder(index)
        BY DEF IInv, TypeOK
      <4> QED
        BY <3>2, <4>1, AfterStepFields
    <3> QED
      BY <1>1, <3>1, <3>2
  <2> QED
    BY <1>1, <1>2, <1>3, <2>1, <2>2 DEF LinkInv, OnlyLinked
<1>6. NoneWorse'
  BY <1>1, <1>2 DEF NoneWorse, PruneBlockIndexCandidates
<1> QED
  BY <1>2, <1>4, <1>5, <1>6, LinkFrame

LEMMA LinkConnectTipInvalid ==
    ASSUME IInv, IInv', LinkInv, ConnectTipInvalid
    PROVE  LinkInv'
<1>1. /\ UNCHANGED <<valid, haveData, linked, seq, chain, tip, unlinked, queue>>
      /\ candidates' \subseteq candidates /\ abc' = AfterStep(tip, None)
  BY DEF ConnectTipInvalid, chainVars
<1>2. abc \in Holder(index)
  BY DEF IInv, TypeOK
<1>3. /\ abc'.byWork \subseteq abc.byWork /\ abc'.mostWork = None
      /\ abc'.start \in {abc.start, None}
  BY <1>1, <1>2, AfterStepFields
<1>4. OnlyLinked' /\ NoneWorse'
  BY <1>1, <1>3 DEF LinkInv, OnlyLinked, NoneWorse
<1> QED
  BY <1>1, <1>4, SameValid, LinkFrame

LEMMA LinkInvalidateBlock ==
    ASSUME IInv, IInv', LinkInv, NEW b \in Blocks, InvalidateBlock(b)
    PROVE  LinkInv'
<1> DEFINE S == {c \in index \ chain : /\ ~Worse(seq, c, Parent[b])
                                      /\ IsValid(c, TRANSACTIONS)
                                      /\ c \in linked}
<1>1. abc' = [Idle EXCEPT !.pc = "walk", !.target = b, !.toMark = b, !.byWork = S]
  BY DEF InvalidateBlock
<1>2. S \subseteq linked
  BY SMT
<1> HIDE DEF S
<1>3. abc'.byWork \subseteq linked /\ abc'.mostWork = None /\ abc'.start = None
  BY <1>1, <1>2 DEF Idle
<1> QED
  BY SMT, <1>3, LinkHolder DEF InvalidateBlock

\* InvalidateBlock only disconnects above its target.
LEMMA WalkLemma ==
    ASSUME IInv, InvalidateWalk
    PROVE  tip # Genesis
<1>1. abc.target \in chain /\ abc.target # Genesis /\ chain = Ancestors[tip]
  BY DEF InvalidateWalk, IInv, Locals, ChainIsPath
<1> QED
  BY <1>1, TreeFacts

LEMMA LinkInvalidateWalk ==
    ASSUME IInv, IInv', LinkInv, InvalidateWalk
    PROVE  LinkInv'
<1> DEFINE p == Parent[tip]
           add == {c \in abc.byWork : Work[c] >= Work[p] /\ ~Worse(seq, c, p)}
<1>1. /\ UNCHANGED <<valid, haveData, linked, seq, unlinked, queue>> /\ tip # Genesis
  BY WalkLemma DEF InvalidateWalk
<1>2. /\ chain' = chain \ {tip} /\ tip' = p
      /\ candidates' = (candidates \ {tip}) \cup {p} \cup add
      /\ abc' = [abc EXCEPT !.toMark = tip, !.byWork = @ \ add]
  BY LinkFacts DEF InvalidateWalk
<1>3. p \in chain /\ p \in Blocks /\ seq \in [Blocks -> Int]
  BY <1>1, ShorterChain, LinkFacts
<1>4. add \subseteq abc.byWork
  OBVIOUS
<1>5. NoneWorse'
  <2>1. ASSUME NEW c \in candidates PROVE ~Worse(seq, c, p)
    <3>1. c \in Blocks
      BY DEF IInv, TypeOK, SetsOK, index
    <3> QED
      BY <1>1, <3>1, ParentWorse DEF LinkInv, NoneWorse
  <2>2. ~Worse(seq, p, p)
    BY <1>3, OrderLemma
  <2> QED
    BY <1>1, <1>2, <2>1, <2>2 DEF NoneWorse
<1> HIDE DEF add
<1>6. /\ abc'.byWork \subseteq abc.byWork /\ abc'.mostWork = abc.mostWork
      /\ abc'.start = abc.start
  <2>1. abc \in Holder(index)
    BY SMT DEF IInv, TypeOK
  <2> QED
    BY <1>2, <2>1 DEF Holder
<1>7. OnlyLinked'
  BY <1>1, <1>2, <1>3, <1>4, <1>6 DEF LinkInv, OnlyLinked
<1> QED
  BY <1>1, <1>5, <1>7, SameValid, LinkFrame

LEMMA LinkInvalidateMark ==
    ASSUME IInv, IInv', LinkInv, InvalidateMark
    PROVE  LinkInv'
<1>1. /\ UNCHANGED <<valid, haveData, linked, seq, chain, tip, unlinked, queue>>
      /\ candidates' = (candidates \ {abc.toMark}) \cup Missed /\ abc' = Idle
  BY DEF InvalidateMark, chainVars
<1>2. abc'.byWork = {} /\ abc'.mostWork = None /\ abc'.start = None
  BY SMT, <1>1, IdleFields
<1>3. OnlyLinked' /\ NoneWorse'
  BY <1>1, <1>2 DEF LinkInv, OnlyLinked, NoneWorse, Missed
<1> QED
  BY <1>1, <1>3, SameValid, LinkFrame

LEMMA LinkReset ==
    ASSUME IInv, IInv', LinkInv, NEW b \in Blocks, ResetBlockFailureFlags(b)
    PROVE  LinkInv'
<1>1. UNCHANGED <<valid, haveData, linked, seq, chain, tip, unlinked, queue, abc>>
  BY DEF ResetBlockFailureFlags, chainVars
<1>2. \A x \in candidates' \ candidates : x \in linked /\ Worse(seq, tip, x)
  BY DEF ResetBlockFailureFlags
<1>3. tip \in Blocks /\ seq \in [Blocks -> Int] /\ linked \subseteq Blocks
  BY LinkFacts
<1>4. NoneWorse'
  <2>1. ASSUME NEW c \in candidates' \ candidates PROVE ~Worse(seq, c, tip)
    BY <1>2, <1>3, OrderLemma
  <2> QED
    BY <1>1, <2>1 DEF LinkInv, NoneWorse
<1>5. OnlyLinked'
  BY <1>1, <1>2 DEF LinkInv, OnlyLinked
<1> QED
  BY <1>1, <1>4, <1>5, SameValid, LinkFrame

LEMMA LinkPrecious ==
    ASSUME IInv, IInv', LinkInv, NEW b \in Blocks, PreciousBlock(b)
    PROVE  LinkInv'
<1> DEFINE reverse == IF Work[tip] > ids.lastPrecious THEN -1 ELSE ids.reverse
<1>1. /\ UNCHANGED <<valid, haveData, linked, chain, tip, unlinked, queue, abc>>
      /\ seq' = [seq EXCEPT ![b] = reverse] /\ candidates' = PreciousCandidates(b, seq')
  BY DEF PreciousBlock, chainVars
<1>2. reverse \in Int
  BY SMT DEF IInv, TypeOK, NumbersOK
<1>3. tip \in linked /\ tip \in Blocks /\ seq \in [Blocks -> Int] /\ linked \subseteq Blocks
  BY LinkFacts
<1> HIDE DEF reverse
<1>4. CASE IsValid(b, TRANSACTIONS) /\ b \in linked
  <2>1. candidates' = {c \in candidates \cup {b} : ~Worse(seq', c, tip)}
    BY <1>1, <1>4 DEF PreciousCandidates, PruneBlockIndexCandidates
  <2>2. OnlyLinked' /\ NoneWorse'
    BY <1>1, <1>4, <2>1 DEF LinkInv, OnlyLinked, NoneWorse
  <2> QED
    BY <1>1, <2>2, SameValid, LinkFrame
<1>5. CASE ~(IsValid(b, TRANSACTIONS) /\ b \in linked)
  <2>1. candidates' = candidates \ {b}
    BY <1>1, <1>5 DEF PreciousCandidates
  <2>2. IsValid(tip, TRANSACTIONS)
    BY <1>3, LinkFacts DEF IsValid, processed, IInv, ActiveChainClean, TypeOK, SetsOK
  <2>3. b # tip
    BY <1>3, <1>5, <2>2
  <2>4. ASSUME NEW c \in candidates \ {b} PROVE ~Worse(seq', c, tip)
    <3>1. c \in Blocks /\ ~Worse(seq, c, tip)
      BY <1>3 DEF LinkInv, OnlyLinked, NoneWorse
    <3> QED
      BY <1>1, <1>2, <1>3, <2>3, <3>1, RenumberLemma
  <2>5. OnlyLinked' /\ NoneWorse'
    BY <1>1, <2>1, <2>4 DEF LinkInv, OnlyLinked, NoneWorse
  <2> QED
    BY <1>1, <2>5, SameValid, LinkFrame
<1> QED
  BY <1>4, <1>5

LEMMA LinkLoad ==
    ASSUME IInv, IInv', LinkInv, LoadBlockIndex
    PROVE  LinkInv'
<1>1. /\ UNCHANGED <<valid, haveData, chain, tip, queue>> /\ queue = {} /\ abc' = Idle
      /\ linked' = {b \in Blocks : Ancestors[b] \subseteq processed}
      /\ unlinked' = {b \in processed \ linked' : b # Genesis}
      /\ candidates' \subseteq linked' /\ \A b \in candidates' : ~Worse(seq', b, tip)
  BY DEF LoadBlockIndex, chainVars, PruneBlockIndexCandidates
<1>2. Stored' /\ QueueReady' /\ NoneWorse'
  BY <1>1, SameValid DEF LinkInv, Stored, QueueReady, NoneWorse
<1>3. LinkedClosed'
  <2>1. ASSUME NEW b \in linked', NEW x \in Ancestors[b] PROVE x \in linked'
    BY <1>1, TreeFacts
  <2> QED
    BY <2>1 DEF LinkedClosed
<1>4. OnlyLinked'
  <2>1. chain = Ancestors[tip] /\ chain \subseteq processed /\ tip \in Blocks
    BY TipLemma DEF IInv, ChainIsPath, TypeOK
  <2>2. chain \subseteq linked'
    BY <1>1, <2>1, TreeFacts
  <2>3. abc'.byWork = {} /\ abc'.mostWork = None /\ abc'.start = None
    BY SMT, <1>1, IdleFields
  <2> QED
    BY <1>1, <2>2, <2>3 DEF OnlyLinked
<1>5. ParkedWaits'
  <2>1. ASSUME NEW b \in unlinked' PROVE Parent[b] \notin linked'
    <3>1. b \in processed /\ b \notin linked' /\ b # Genesis /\ b \in Blocks
      BY <1>1 DEF processed
    <3>2. Ancestors[b] = {b} \cup Ancestors[Parent[b]]
      BY <3>1, TreeFacts
    <3> QED
      BY <1>1, <3>1, <3>2
  <2> QED
    BY <1>1, <2>1 DEF ParkedWaits
<1> QED
  BY <1>2, <1>3, <1>4, <1>5 DEF LinkInv

LEMMA LinkNext ==
    ASSUME Prunable = {}, IInv, IInv', LinkInv, [Next]_vars
    PROVE  LinkInv'
<1>1. ASSUME NEW b \in Blocks, AcceptBlockHeader(b) PROVE LinkInv'
  BY <1>1, LinkAcceptBlockHeader
<1>2. ASSUME NEW b \in Blocks, NEW r \in BOOLEAN, AcceptBlock(b, r) PROVE LinkInv'
  BY <1>2, LinkAcceptBlock
<1>3. ASSUME NEW b \in queue, ReceivedBlockTransactions(b) PROVE LinkInv'
  BY <1>3, LinkReceived
<1>4. CASE Activate
  BY <1>4, LinkActivateBestChain, LinkDiscard, LinkFindMostWorkChain, LinkNothingToDo,
     LinkDisconnectTip, LinkConnectTip, LinkConnectTipInvalid DEF Activate
<1>5. CASE ConnectTipError
  BY <1>5, LinkNothingToDo
<1>6. ASSUME NEW b \in Invalidated, InvalidateBlock(b) PROVE LinkInv'
  BY <1>6, LinkInvalidateBlock, InputAssumption
<1>7. CASE Invalidate
  BY <1>7, LinkInvalidateWalk, LinkInvalidateMark DEF Invalidate
<1>8. ASSUME NEW b \in Reconsidered, ResetBlockFailureFlags(b) PROVE LinkInv'
  BY <1>8, LinkReset, InputAssumption
<1>9. ASSUME NEW b \in Precious, PreciousBlock(b) PROVE LinkInv'
  BY <1>9, LinkPrecious, InputAssumption
<1>10. CASE LoadBlockIndex
  BY <1>10, LinkLoad
<1>11. CASE UNCHANGED vars
  <2>1. UNCHANGED <<status, chainVars, sets, queue, abc>>
    BY <1>11 DEF vars
  <2> QED
    BY <2>1, LinkHolder DEF LinkInv, OnlyLinked
<1> QED
  BY <1>1, <1>2, <1>3, <1>4, <1>5, <1>6, <1>7, <1>8, <1>9, <1>10, <1>11 DEF Next

\* Without pruning, what is linked is closed under ancestors and every candidate
\* is linked, whatever the RPCs do.
THEOREM LinkTheorem == Prunable = {} => (Spec => []LinkInv)
<1> SUFFICES ASSUME Prunable = {} PROVE Spec => []LinkInv
  OBVIOUS
<1>1. IInv /\ IInv' /\ LinkInv /\ [Next]_vars => LinkInv'
  BY SMT, LinkNext
<1> QED
  BY <1>1, LinkInit, InvariantTheorem, PTL DEF Spec

\* Without pruning, setBlockIndexCandidates never holds a block that is worse
\* than the tip or waits for an ancestor, whatever invalidateblock,
\* reconsiderblock, preciousblock and restarts do to the index in between.
THEOREM CandidatesSoundTheorem == Prunable = {} => (Spec => []CandidatesSound)
<1> SUFFICES ASSUME Prunable = {} PROVE Spec => []CandidatesSound
  BY SMT
<1>1. IInv /\ LinkInv => CandidatesSound
  <2> SUFFICES ASSUME IInv, LinkInv, NEW b \in candidates
               PROVE  ~Worse(seq, b, tip) /\ ~NeverProcessed(b)
    BY DEF CandidatesSound
  <2>1. Ancestors[b] \subseteq processed
    BY LinkFacts DEF LinkInv, OnlyLinked, LinkedClosed
  <2> QED
    BY <2>1 DEF LinkInv, NoneWorse, NeverProcessed
<1> QED
  BY <1>1, LinkTheorem, InvariantTheorem, PTL

\* Without pruning, ReceivedBlockTransactions never changes the sort key of a
\* block that is in setBlockIndexCandidates: what it numbers is not linked yet,
\* and everything in the set is.
THEOREM SortKeyStableTheorem == Prunable = {} => (Spec => SortKeyStable)
<1> SUFFICES ASSUME Prunable = {} PROVE Spec => SortKeyStable
  OBVIOUS
<1>1. IInv /\ LinkInv /\ [Next]_vars =>
         [queue # {} => \A b \in candidates : seq'[b] = seq[b]]_vars
  <2> SUFFICES ASSUME IInv, LinkInv, Next, queue # {}, NEW c \in candidates
               PROVE  seq'[c] = seq[c]
    OBVIOUS
  <2>1. ASSUME NEW b \in queue, ReceivedBlockTransactions(b) PROVE seq'[c] = seq[c]
    <3>1. c # b /\ seq \in [Blocks -> Int]
      BY LinkFacts DEF LinkInv, OnlyLinked, QueueReady
    <3> QED
      BY SMT, <2>1, <3>1 DEF ReceivedBlockTransactions
  <2>2. CASE Activate \/ ConnectTipError \/ Invalidate
    BY <2>2 DEF Activate, ConnectTipError, Invalidate, ActivateBestChain, NothingToDo,
       FindMostWorkChainDiscard, FindMostWorkChain, DisconnectTip, ConnectTip,
       ConnectTipInvalid, InvalidateWalk, InvalidateMark, status
  <2>3. ASSUME NEW b \in Blocks, InvalidateBlock(b) PROVE seq'[c] = seq[c]
    BY SMT, <2>3 DEF InvalidateBlock, status
  <2>4. ASSUME NEW b \in Blocks, \/ AcceptBlockHeader(b) \/ PreciousBlock(b)
                                 \/ ResetBlockFailureFlags(b)
                                 \/ \E r \in BOOLEAN : AcceptBlock(b, r)
        PROVE  FALSE
    BY <2>4 DEF AcceptBlockHeader, PreciousBlock, ResetBlockFailureFlags, AcceptBlock, CsMainFree
  <2>5. ~LoadBlockIndex
    BY DEF LoadBlockIndex
  <2> QED
    BY <2>1, <2>2, <2>3, <2>4, <2>5, InputAssumption DEF Next
<1> QED
  BY <1>1, LinkTheorem, InvariantTheorem, PTL DEF Spec, SortKeyStable

\* The same along one path: a block of S has an ancestor in S whose parent is
\* not in S.
LEMMA LowestAncestor ==
    ASSUME NEW S, S \subseteq Blocks \ {Genesis}, NEW b \in S
    PROVE  \E x \in S : x \in Ancestors[b] /\ Parent[x] \in Ancestors[b] \ S
<1> DEFINE U == S \cap Ancestors[b]
<1>1. PICK x \in U : Parent[x] \in Blocks \ U
  <2>1. U \subseteq Blocks \ {Genesis} /\ U # {}
    BY SelfLemma
  <2> QED
    BY <2>1, LowestBlock
<1>2. Ancestors[x] = {x} \cup Ancestors[Parent[x]] /\ Parent[x] \in Ancestors[Parent[x]]
  BY SMT, <1>1, TreeFacts
<1>3. Parent[x] \in Ancestors[b]
  BY <1>2, TransitiveLemma
<1> QED
  BY <1>1, <1>3

\* A block has more work than each of its ancestors.
LEMMA AncestorsLessWork ==
    ASSUME NEW b \in Blocks, NEW a \in Ancestors[b], a # b
    PROVE  Work[a] < Work[b]
<1> DEFINE S == {x \in Ancestors[b] : a \in Ancestors[x] /\ a # x /\ ~(Work[a] < Work[x])}
<1> SUFFICES ASSUME b \in S PROVE FALSE
  BY SelfLemma
<1>0. a \in Blocks /\ \A x \in S : x \in Blocks
  BY SelfLemma
<1>1. S \subseteq Blocks \ {Genesis}
  BY SMT, <1>0, TreeFacts
<1>2. PICK x \in S : Parent[x] \in Ancestors[b] \ S
  BY <1>1, LowestAncestor
<1>3. x \in Blocks \ {Genesis} /\ Parent[x] \in Blocks
  BY <1>1, <1>2, SelfLemma
<1>4. a \in Ancestors[Parent[x]]
  BY SMT, <1>3, TreeFacts
<1>5. a = Parent[x] \/ Work[a] < Work[Parent[x]]
  BY <1>2, <1>4
<1>6. Work[Parent[x]] < Work[x] /\ Work[x] \in Nat /\ Work[a] \in Nat /\ Work[Parent[x]] \in Nat
  BY <1>0, <1>3, WorkAssumption
<1> HIDE DEF S
<1>7. Work[a] < Work[x]
  BY SMT, <1>5, <1>6
<1> QED
  BY <1>7 DEF S

-----------------------------------------------------------------------------
(* Nothing that was received is forgotten.                                 *)

Clean(b) == Ancestors[b] \cap failed = {}

\* A block that was received and has no failed ancestor is linked, about to be,
\* or parked.
Kept == \A b \in processed : b \in linked \cup queue \cup unlinked \/ ~Clean(b)

\* Then, outside ReceivedBlockTransactions, it is linked as soon as all its
\* ancestors have been received: the lowest one that is not could not be parked.
LEMMA KeptLinked ==
    ASSUME IInv, LinkInv, Kept, queue = {},
           NEW b \in Blocks, Ancestors[b] \subseteq processed, Clean(b)
    PROVE  b \in linked
<1> DEFINE S == Ancestors[b] \ linked
<1> SUFFICES ASSUME b \in S PROVE FALSE
  BY SelfLemma
<1>1. S \subseteq Blocks \ {Genesis}
  BY SelfLemma, LinkFacts
<1>2. PICK x \in S : Parent[x] \in Ancestors[b] \ S
  BY <1>1, LowestAncestor
<1>3. x \in processed /\ x \notin linked /\ Parent[x] \in linked /\ x \in Blocks
  BY <1>2, SelfLemma
<1>4. Clean(x)
  BY <1>2, TransitiveLemma DEF Clean
<1>5. x \in unlinked
  BY <1>3, <1>4 DEF Kept
<1> QED
  BY <1>3, <1>5 DEF LinkInv, ParkedWaits

\* Only reconsiderblock takes failure flags away.
LEMMA FailedGrows ==
    ASSUME Reconsidered = {}, Next
    PROVE  failed \subseteq failed'
<1>1. ASSUME NEW b \in Blocks, AcceptBlockHeader(b) \/ \E r \in BOOLEAN : AcceptBlock(b, r)
      PROVE  failed \subseteq failed'
  BY <1>1 DEF AcceptBlockHeader, AcceptBlock, failed
<1>2. ASSUME NEW b, ReceivedBlockTransactions(b) \/ InvalidateBlock(b) \/ PreciousBlock(b)
                    \/ PruneOneBlockFile(b)
      PROVE  failed \subseteq failed'
  BY <1>2 DEF ReceivedBlockTransactions, InvalidateBlock, PreciousBlock, PruneOneBlockFile,
     status, failed
<1>3. CASE Activate
  BY <1>3 DEF Activate, ActivateBestChain, FindMostWorkChainDiscard, FindMostWorkChain, NothingToDo,
     DisconnectTip, ConnectTip, ConnectTipInvalid, status, failed
<1>4. CASE ConnectTipError \/ LoadBlockIndex \/ InvalidateMark
  BY <1>4 DEF ConnectTipError, LoadBlockIndex, InvalidateMark, status, failed
<1>5. CASE InvalidateWalk
  BY <1>5 DEF InvalidateWalk, failed
<1> QED
  BY <1>1, <1>2, <1>3, <1>4, <1>5 DEF Next, Invalidate

LEMMA CleanShrinks ==
    ASSUME failed \subseteq failed', NEW b, Clean(b)'
    PROVE  Clean(b)
  BY DEF Clean

\* A step that receives nothing and takes no block out of the three places.
LEMMA KeptFrame ==
    ASSUME Kept, failed \subseteq failed', processed' = processed,
           linked \cup queue \cup unlinked \subseteq linked' \cup queue' \cup unlinked'
    PROVE  Kept'
  BY CleanShrinks DEF Kept

LEMMA KeptStep ==
    ASSUME Prunable = {}, Reconsidered = {}, IInv, LinkInv, Kept, Next
    PROVE  Kept'
<1>0. failed \subseteq failed'
  BY SMT, FailedGrows
<1>1. ASSUME NEW b \in Blocks, AcceptBlockHeader(b) PROVE Kept'
  <2>1. processed' = processed
    <3>1. CASE valid' = RaiseValidity(b, TREE)
      BY <3>1, RaiseLemma DEF IInv, TypeOK
    <3>2. CASE UNCHANGED valid
      BY SMT, <3>2, SameValid
    <3> QED
      BY <1>1, <3>1, <3>2 DEF AcceptBlockHeader
  <2> QED
    BY <1>0, <1>1, <2>1, KeptFrame DEF AcceptBlockHeader
<1>2. ASSUME NEW b \in Blocks, NEW r \in BOOLEAN, AcceptBlock(b, r) PROVE Kept'
  <2>1. CASE UNCHANGED <<valid, linked, unlinked, queue>>
    BY <1>0, <2>1, SameValid, KeptFrame
  <2>2. CASE /\ linked' = linked \ {b}
             /\ valid' = RaiseValidity(b, TRANSACTIONS)
             /\ IF Parent[b] = None \/ Parent[b] \in linked
                THEN queue' = {b} /\ UNCHANGED unlinked
                ELSE unlinked' = Parked(b) /\ UNCHANGED queue
    <3>1. processed' \subseteq processed \cup {b}
      <4>1. StatusOK /\ TRANSACTIONS # TREE
        BY SMT DEF IInv, TypeOK, TRANSACTIONS, TREE
      <4> QED
        BY <2>2, <4>1, RaiseLemma
    <3>2. b \notin linked /\ queue = {}
      BY <1>2, LinkFacts DEF AcceptBlock, Wanted, CsMainFree
    <3>3. linked \cup queue \cup unlinked \subseteq linked' \cup queue' \cup unlinked'
      BY <2>2, <3>2 DEF Parked
    <3>4. Parent[b] # None => Parent[b] \in Ancestors[b]
      BY SMT, TreeFacts
    <3>5. b \in queue' \cup unlinked' \/ ~Clean(b)'
      <4>1. CASE queue' = {b}
        BY <4>1
      <4>2. CASE Parent[b] # None /\ Parent[b] \notin failed /\ unlinked' = Parked(b)
        BY <4>2 DEF Parked
      <4>3. CASE Parent[b] # None /\ Parent[b] \in failed
        BY <1>0, <3>4, <4>3 DEF Clean
      <4> QED
        BY <2>2, <4>1, <4>2, <4>3
    <3> QED
      BY <1>0, <3>1, <3>3, <3>5, CleanShrinks DEF Kept
  <2> QED
    BY <1>2, <2>1, <2>2 DEF AcceptBlock
<1>3. ASSUME NEW b \in queue, ReceivedBlockTransactions(b) PROVE Kept'
  BY <1>0, <1>3, SameValid, KeptFrame DEF ReceivedBlockTransactions
<1>4. CASE FindMostWorkChainDiscard
  BY <1>0, <1>4, SameValid, KeptFrame DEF FindMostWorkChainDiscard, ParkedAbove
<1>5. CASE ActivateBestChain \/ FindMostWorkChain \/ NothingToDo \/ DisconnectTip \/ ConnectTipError
  BY <1>0, <1>5, SameValid, KeptFrame DEF ActivateBestChain, FindMostWorkChain, NothingToDo,
     DisconnectTip, ConnectTipError, status, sets
<1>6. CASE ConnectTip
  <2>1. PICK b \in NextBlock : valid' = RaiseValidity(b, SCRIPTS)
    BY <1>6 DEF ConnectTip
  <2>2. StatusOK /\ b \in processed /\ b \in Blocks
    BY <1>6, NextBlockLemma, LinkFacts DEF ConnectTip, IInv, TypeOK
  <2>3. processed \subseteq processed' /\ processed' \subseteq processed \cup {b}
    BY <2>1, <2>2, RaiseLemma DEF TREE, SCRIPTS
  <2> QED
    BY <1>0, <1>6, <2>2, <2>3, KeptFrame DEF ConnectTip
<1>7. CASE ConnectTipInvalid \/ Invalidate
  BY <1>0, <1>7, SameValid, KeptFrame DEF ConnectTipInvalid, Invalidate, InvalidateWalk,
     InvalidateMark
<1>8. ASSUME NEW b \in Blocks, InvalidateBlock(b) \/ PreciousBlock(b) PROVE Kept'
  BY <1>0, <1>8, SameValid, KeptFrame DEF InvalidateBlock, PreciousBlock, status, sets
<1>9. CASE LoadBlockIndex
  <2>1. /\ processed' = processed /\ unlinked' = {b \in processed \ linked' : b # Genesis}
        /\ linked' = {b \in Blocks : Ancestors[b] \subseteq processed}
    BY <1>9, SameValid DEF LoadBlockIndex
  <2>2. Genesis \in linked'
    BY SMT, <2>1, LinkFacts, TreeFacts
  <2> QED
    BY <2>1, <2>2 DEF Kept
<1> QED
  BY <1>1, <1>2, <1>3, <1>4, <1>5, <1>6, <1>7, <1>8, <1>9, InputAssumption DEF Next, Activate

\* Without pruning and reconsiderblock, ReceivedBlockTransactions, FindMostWorkChain
\* and LoadBlockIndex between them never lose track of a block that was received.
THEOREM KeptTheorem == Prunable = {} /\ Reconsidered = {} => (Spec => []Kept)
<1> SUFFICES ASSUME Prunable = {}, Reconsidered = {} PROVE Spec => []Kept
  OBVIOUS
<1>1. Init => Kept
  BY SMT, TreeFacts DEF Init, Kept, processed, TRANSACTIONS
<1>2. IInv /\ LinkInv /\ Kept /\ [Next]_vars => Kept'
  <2>1. ASSUME Kept, UNCHANGED vars PROVE Kept'
    BY <2>1, SameValid, KeptFrame DEF vars, status, sets, failed
  <2> QED
    BY <2>1, KeptStep
<1> QED
  BY <1>1, <1>2, InvariantTheorem, LinkTheorem, PTL DEF Spec

\* Without pruning and reconsiderblock, a stored block that waits for an ancestor
\* is parked in m_blocks_unlinked, in whatever order blocks came and failed.
THEOREM UnlinkedCompleteTheorem ==
    Prunable = {} /\ Reconsidered = {} => (Spec => []UnlinkedComplete)
<1> SUFFICES ASSUME Prunable = {}, Reconsidered = {} PROVE Spec => []UnlinkedComplete
  OBVIOUS
<1>1. IInv /\ LinkInv /\ Kept /\ Caused => UnlinkedComplete
  <2> SUFFICES ASSUME IInv, LinkInv, Kept, Caused, queue = {}, NEW b \in haveData \ {Genesis},
                      ~Invalid(b), NeverProcessed(b) \/ Missing(b)
               PROVE  b \in unlinked
    BY DEF UnlinkedComplete, CsMainFree
  <2>1. b \in processed /\ b \in Blocks
    BY DEF LinkInv, Stored, processed
  <2>2. Clean(b)
    BY <2>1, TransitiveLemma DEF Clean, Caused, Invalid
  <2>3. b \notin linked
    BY LinkFacts DEF LinkInv, Stored, LinkedClosed, NeverProcessed, Missing
  <2> QED
    BY <2>1, <2>2, <2>3 DEF Kept
<1> QED
  BY <1>1, InvariantTheorem, LinkTheorem, KeptTheorem, CausedTheorem, PTL

-----------------------------------------------------------------------------
(* nChainTx and m_blocks_unlinked are exact as long as no block is marked  *)
(* by hand.                                                                *)

\* Where ActivateBestChain goes after a step.
LEMMA AfterStepCases ==
    ASSUME NEW S, abc \in Holder(S), NEW t, NEW w
    PROVE  \/ /\ Worse(seq, t, abc.start)
              /\ AfterStep(t, w).pc = "find" /\ AfterStep(t, w).mostWork = w
              /\ AfterStep(t, w).start = abc.start
           \/ /\ ~Worse(seq, t, abc.start)
              /\ AfterStep(t, w).pc = "begin" /\ AfterStep(t, w).mostWork = w /\ t # w
           \/ /\ ~Worse(seq, t, abc.start)
              /\ AfterStep(t, w).pc = "idle" /\ AfterStep(t, w).mostWork = None /\ t = w
<1>1. CASE Worse(seq, t, abc.start)
  BY SMT, <1>1 DEF AfterStep, Holder
<1>2. CASE ~Worse(seq, t, abc.start) /\ t # w
  BY <1>2 DEF AfterStep, Idle
<1>3. CASE ~Worse(seq, t, abc.start) /\ t = w
  BY <1>3 DEF AfterStep, Idle
<1> QED
  BY <1>1, <1>2, <1>3

\* A failed block that is not linked has an ancestor, or is one, that will never
\* be received.
FailedLost == \A b \in failed \ linked : Ancestors[b] \cap (failed \ processed) # {}

\* A block that was received is linked, about to be, parked, or lost.
Accounted ==
    \A b \in processed : \/ b \in linked \cup queue \cup unlinked
                         \/ Ancestors[b] \cap (failed \ processed) # {}

ExactInv == FailedLost /\ Accounted /\ failedBlocks \subseteq linked /\ abc.pc # "walk"

LEMMA ExactLinked ==
    ASSUME IInv, LinkInv, ExactInv, queue = {}, NEW b \in Blocks, Ancestors[b] \subseteq processed
    PROVE  b \in linked
<1> DEFINE S == Ancestors[b] \ linked
<1> SUFFICES ASSUME b \in S PROVE FALSE
  BY SelfLemma
<1>1. S \subseteq Blocks \ {Genesis}
  BY SelfLemma, LinkFacts
<1>2. PICK x \in S : Parent[x] \in Ancestors[b] \ S
  BY <1>1, LowestAncestor
<1>3. x \in processed /\ x \notin linked /\ Parent[x] \in linked /\ x \in Blocks
  BY <1>2, SelfLemma
<1>4. Ancestors[x] \cap (failed \ processed) = {}
  BY <1>2, TransitiveLemma
<1>5. x \in unlinked
  BY <1>3, <1>4 DEF ExactInv, Accounted
<1> QED
  BY <1>3, <1>5 DEF LinkInv, ParkedWaits

\* A step that receives nothing, and marks only what is linked or lost.
LEMMA ExactFrame ==
    ASSUME ExactInv, processed' = processed, failed \subseteq failed', linked \subseteq linked',
           \A b \in failed' \ failed : \/ b \in linked'
                                       \/ Ancestors[b] \cap (failed' \ processed) # {},
           linked \cup queue \cup unlinked \subseteq linked' \cup queue' \cup unlinked',
           failedBlocks' \subseteq linked', abc'.pc # "walk"
    PROVE  ExactInv'
<1>1. \A b : Ancestors[b] \cap (failed \ processed) # {} =>
                Ancestors[b] \cap (failed' \ processed') # {}
  OBVIOUS
<1>2. FailedLost'
  BY <1>1 DEF ExactInv, FailedLost
<1>3. Accounted'
  BY <1>1 DEF ExactInv, Accounted
<1> QED
  BY <1>2, <1>3 DEF ExactInv

LEMMA ExactAcceptBlockHeader ==
    ASSUME IInv, LinkInv, ExactInv, NEW b \in Blocks, AcceptBlockHeader(b)
    PROVE  ExactInv'
<1>1. /\ UNCHANGED <<failedValid, linked, unlinked, queue, failedBlocks, abc>>
      /\ queue = {} /\ Parent[b] \in Blocks
  BY DEF AcceptBlockHeader, CsMainFree, index
<1>2. CASE valid' = RaiseValidity(b, TREE) /\ UNCHANGED failedChild
  <2>1. processed' = processed /\ failed' = failed
    BY <1>1, <1>2, RaiseLemma DEF IInv, TypeOK, failed
  <2> QED
    BY <1>1, <2>1, ExactFrame DEF ExactInv
<1>3. ASSUME NEW f \in failedBlocks \cap Ancestors[Parent[b]],
             failedChild' = failedChild \cup Tainted(b, f), UNCHANGED valid
      PROVE  ExactInv'
  <2>1. processed' = processed /\ failed' = failed \cup Tainted(b, f)
    BY <1>1, <1>3, SameValid DEF failed
  <2>2. Ancestors[f] \subseteq processed
    BY LinkFacts DEF ExactInv, LinkInv, LinkedClosed
  <2>3. ASSUME NEW y \in Tainted(b, f), y \notin linked
        PROVE  Ancestors[y] \cap (failed' \ processed) # {}
    <3>1. y \in Blocks /\ y \in Ancestors[Parent[b]]
      BY <1>1, SelfLemma DEF Tainted
    <3>2. PICK z \in Ancestors[y] : z \notin processed
      BY <1>1, <2>3, <3>1, ExactLinked
    <3>3. z \in Tainted(b, f)
      BY <1>1, <2>2, <3>1, <3>2, TransitiveLemma DEF Tainted
    <3> QED
      BY <2>1, <3>2, <3>3
  <2> QED
    BY <1>1, <2>1, <2>3, ExactFrame DEF ExactInv
<1> QED
  BY <1>2, <1>3 DEF AcceptBlockHeader

LEMMA ExactAcceptBlock ==
    ASSUME IInv, LinkInv, ExactInv, NEW b \in Blocks, NEW r \in BOOLEAN, AcceptBlock(b, r)
    PROVE  ExactInv'
<1>1. /\ UNCHANGED <<failedChild, failedBlocks, abc>> /\ b \notin failed
      /\ queue = {} /\ b \notin processed /\ b \notin linked
  BY LinkFacts DEF AcceptBlock, CsMainFree, Wanted, LinkInv, Stored
<1>2. CASE failedValid' = failedValid \cup {b} /\ UNCHANGED <<valid, linked, unlinked, queue>>
  <2>1. processed' = processed /\ failed' = failed \cup {b} /\ b \in Ancestors[b]
    BY <1>1, <1>2, SameValid, SelfLemma DEF failed
  <2> QED
    BY <1>1, <1>2, <2>1, ExactFrame DEF ExactInv
<1>3. CASE /\ linked' = linked \ {b}
           /\ valid' = RaiseValidity(b, TRANSACTIONS)
           /\ IF Parent[b] = None \/ Parent[b] \in linked
              THEN queue' = {b} /\ UNCHANGED unlinked
              ELSE unlinked' = Parked(b) /\ UNCHANGED queue
           /\ UNCHANGED failedValid
  <2>1. processed \subseteq processed' /\ processed' \subseteq processed \cup {b}
    <3>1. StatusOK /\ TRANSACTIONS # TREE
      BY SMT DEF IInv, TypeOK, TRANSACTIONS, TREE
    <3> QED
      BY <1>3, <3>1, RaiseLemma
  <2>2. linked' = linked /\ failed' = failed
    BY <1>1, <1>3 DEF failed
  <2>3. failed' \ processed' = failed \ processed
    BY <1>1, <2>1, <2>2
  <2>4. linked \cup queue \cup unlinked \subseteq linked' \cup queue' \cup unlinked'
    BY <1>1, <1>3, <2>2 DEF Parked
  <2>5. \/ b \in queue' \cup unlinked'
        \/ Ancestors[b] \cap (failed \ processed) # {}
    <3>1. CASE queue' = {b}
      BY <3>1
    <3>2. CASE Parent[b] # None /\ Parent[b] \notin failed /\ unlinked' = Parked(b)
      BY <3>2 DEF Parked
    <3>3. CASE Parent[b] # None /\ Parent[b] \notin linked /\ Parent[b] \in failed
      <4>1. Ancestors[Parent[b]] \cap (failed \ processed) # {}
        BY <3>3 DEF ExactInv, FailedLost
      <4>2. Ancestors[Parent[b]] \subseteq Ancestors[b]
        BY <3>3, TreeFacts
      <4> QED
        BY <4>1, <4>2
    <3> QED
      BY <1>3, <3>1, <3>2, <3>3
  <2>6. FailedLost'
    BY <2>2, <2>3 DEF ExactInv, FailedLost
  <2>7. Accounted'
    BY <2>1, <2>3, <2>4, <2>5 DEF ExactInv, Accounted
  <2> QED
    BY <1>1, <2>2, <2>6, <2>7 DEF ExactInv
<1> QED
  BY <1>2, <1>3 DEF AcceptBlock

LEMMA ExactDiscard ==
    ASSUME IInv, LinkInv, ExactInv, FindMostWorkChainDiscard
    PROVE  ExactInv'
<1>1. PICK best \in Best : \E x \in Unusable(best) :
         failedChild' \subseteq failedChild \cup (Ancestors[best] \ Ancestors[x])
  BY DEF FindMostWorkChainDiscard
<1>2. /\ UNCHANGED <<valid, failedValid, linked, queue, failedBlocks, abc>>
      /\ unlinked \subseteq unlinked' /\ failedChild \subseteq failedChild'
  BY DEF FindMostWorkChainDiscard, ParkedAbove
<1>3. Ancestors[best] \subseteq linked
  BY DEF Best, LinkInv, OnlyLinked, LinkedClosed
<1>4. failed \subseteq failed' /\ failed' \ failed \subseteq linked
  BY <1>1, <1>2, <1>3 DEF failed
<1> QED
  BY <1>2, <1>4, SameValid, ExactFrame DEF ExactInv

LEMMA ExactLoad ==
    ASSUME IInv, LinkInv, ExactInv, LoadBlockIndex
    PROVE  ExactInv'
<1>1. /\ UNCHANGED <<valid, queue>> /\ abc' = Idle /\ failedBlocks' = {}
      /\ linked' = {b \in Blocks : Ancestors[b] \subseteq processed}
      /\ unlinked' = {b \in processed \ linked' : b # Genesis}
      /\ failed' = failed \cup FailedDescendants
  BY DEF LoadBlockIndex, failed
<1>2. processed' = processed /\ queue = {} /\ abc'.pc # "walk"
  <2>1. processed' = processed
    BY <1>1, SameValid
  <2>2. queue = {}
    BY DEF LoadBlockIndex
  <2>3. abc'.pc # "walk"
    BY <1>1 DEF Idle
  <2> QED
    BY <2>1, <2>2, <2>3
<1>3. Genesis \in linked' /\ linked \subseteq linked'
  BY <1>1, LinkFacts, TreeFacts DEF LinkInv, LinkedClosed
<1>4. ASSUME NEW y \in FailedDescendants, y \notin linked'
      PROVE  Ancestors[y] \cap (failed' \ processed) # {}
  <2>1. y \in index /\ y \in Blocks
    BY DEF FailedDescendants, index
  <2>2. PICK f \in failed : f \in Ancestors[y]
    BY DEF FailedDescendants
  <2>3. CASE f \notin linked
    <3>1. PICK z \in Ancestors[f] : z \in failed \ processed
      BY <2>3 DEF ExactInv, FailedLost
    <3> QED
      BY <1>1, <2>1, <2>2, <3>1, TransitiveLemma
  <2>4. CASE f \in linked
    <3>1. PICK z \in Ancestors[y] : z \notin processed
      BY <1>1, <1>4, <2>1
    <3>2. z \notin Ancestors[f]
      BY <2>4, <3>1, LinkFacts DEF LinkInv, LinkedClosed
    <3>3. f \in Ancestors[z] /\ z \in index
      BY <2>1, <2>2, <3>1, <3>2, AboveLemma DEF IInv, IndexClosed
    <3>4. z \in failed'
      BY <1>1, <2>2, <3>3 DEF FailedDescendants
    <3> QED
      BY <3>1, <3>4
  <2> QED
    BY <2>3, <2>4
<1>5. linked \cup queue \cup unlinked \subseteq linked' \cup queue' \cup unlinked'
  BY <1>1, <1>2, <1>3 DEF IInv, TypeOK, SetsOK
<1> QED
  BY <1>1, <1>2, <1>3, <1>4, <1>5, ExactFrame

LEMMA ExactNext ==
    ASSUME Prunable = {}, Invalidated = {}, Reconsidered = {}, IInv, LinkInv, ExactInv, [Next]_vars
    PROVE  ExactInv'
<1>0. abc \in Holder(index)
  BY DEF IInv, TypeOK
<1>1. ASSUME NEW b \in Blocks, AcceptBlockHeader(b) PROVE ExactInv'
  BY <1>1, ExactAcceptBlockHeader
<1>2. ASSUME NEW b \in Blocks, NEW r \in BOOLEAN, AcceptBlock(b, r) PROVE ExactInv'
  BY <1>2, ExactAcceptBlock
<1>3. ASSUME NEW b, ReceivedBlockTransactions(b) \/ PreciousBlock(b) PROVE ExactInv'
  BY <1>3, SameValid, ExactFrame DEF ReceivedBlockTransactions, PreciousBlock, failed, ExactInv
<1>4. CASE FindMostWorkChainDiscard
  BY <1>4, ExactDiscard
<1>5. CASE ActivateBestChain \/ FindMostWorkChain \/ NothingToDo \/ DisconnectTip \/ ConnectTipError
  <2>1. UNCHANGED <<valid, failedValid, failedChild, linked, queue, unlinked, failedBlocks>>
    BY <1>5 DEF ActivateBestChain, FindMostWorkChain, NothingToDo, DisconnectTip, ConnectTipError,
       status, sets
  <2>2. abc'.pc # "walk"
    <3>1. CASE ActivateBestChain \/ FindMostWorkChain
      BY <1>0, <3>1 DEF ActivateBestChain, FindMostWorkChain, Idle, Holder
    <3>2. CASE NothingToDo \/ DisconnectTip \/ ConnectTipError
      BY SMT, <3>2 DEF NothingToDo, DisconnectTip, ConnectTipError, Idle, ExactInv
    <3> QED
      BY <1>5, <3>1, <3>2
  <2> QED
    BY <2>1, <2>2, SameValid, ExactFrame DEF failed, ExactInv
<1>6. CASE ConnectTip
  <2>1. PICK b \in NextBlock : /\ valid' = RaiseValidity(b, SCRIPTS)
                               /\ abc' = abc \/ abc' = AfterStep(b, abc.mostWork)
    BY <1>6 DEF ConnectTip
  <2>2. StatusOK /\ b \in processed /\ b \in Blocks
    BY <1>6, NextBlockLemma, LinkFacts DEF ConnectTip, IInv, TypeOK
  <2>3. processed \subseteq processed' /\ processed' \subseteq processed \cup {b}
    BY <2>1, <2>2, RaiseLemma DEF TREE, SCRIPTS
  <2>4. abc'.pc # "walk"
    BY SMT, <1>0, <2>1, AfterStepCases DEF ExactInv
  <2> QED
    BY <1>6, <2>2, <2>3, <2>4, ExactFrame DEF ConnectTip, failed, ExactInv
<1>7. CASE ConnectTipInvalid
  <2>1. PICK b \in NextBlock : /\ failedValid' = failedValid \cup {b}
                               /\ failedBlocks' = failedBlocks \cup {b}
    BY <1>7 DEF ConnectTipInvalid
  <2>2. b \in linked
    BY <1>7, NextBlockLemma DEF ConnectTipInvalid
  <2>3. abc'.pc # "walk"
    BY <1>0, <1>7, AfterStepCases DEF ConnectTipInvalid
  <2> QED
    BY <1>7, <2>1, <2>2, <2>3, SameValid, ExactFrame DEF ConnectTipInvalid, failed, ExactInv
<1>8. ~Invalidate
  BY DEF Invalidate, InvalidateWalk, InvalidateMark, ExactInv
<1>9. CASE LoadBlockIndex
  BY SMT, <1>9, ExactLoad
<1>10. CASE UNCHANGED vars
  BY <1>10, SameValid, ExactFrame DEF vars, status, sets, failed, ExactInv
<1> QED
  BY <1>1, <1>2, <1>3, <1>4, <1>5, <1>6, <1>7, <1>8, <1>9, <1>10 DEF Next, Activate

\* Without pruning, invalidateblock and reconsiderblock, a block that was received
\* is linked or parked unless it descends from one that never will be: ExactInv.
THEOREM ExactTheorem ==
    Prunable = {} /\ Invalidated = {} /\ Reconsidered = {} => (Spec => []ExactInv)
<1> SUFFICES ASSUME Prunable = {}, Invalidated = {}, Reconsidered = {} PROVE Spec => []ExactInv
  OBVIOUS
<1>1. Init => ExactInv
  <2> SUFFICES ASSUME Init PROVE ExactInv
    OBVIOUS
  <2>1. failed = {} /\ failedBlocks = {} /\ linked = {Genesis} /\ abc.pc # "walk"
    BY DEF Init, Idle, failed
  <2>2. processed = {Genesis}
    BY SMT, TreeFacts DEF Init, processed, TRANSACTIONS
  <2> QED
    BY <2>1, <2>2 DEF ExactInv, FailedLost, Accounted
<1>2. IInv /\ LinkInv /\ ExactInv /\ [Next]_vars => ExactInv'
  BY ExactNext
<1> QED
  BY <1>1, <1>2, InvariantTheorem, LinkTheorem, PTL DEF Spec

\* Without pruning, invalidateblock and reconsiderblock, nChainTx is set exactly
\* for the blocks all of whose ancestors have been received, in whatever order
\* headers and blocks came, failed blocks and their descendants included.
THEOREM LinkedIffProcessedTheorem ==
    Prunable = {} /\ Invalidated = {} /\ Reconsidered = {} => (Spec => []LinkedIffProcessed)
<1> SUFFICES ASSUME Prunable = {}, Invalidated = {}, Reconsidered = {}
             PROVE  Spec => []LinkedIffProcessed
  OBVIOUS
<1>1. IInv /\ LinkInv /\ ExactInv => LinkedIffProcessed
  <2> SUFFICES ASSUME IInv, LinkInv, ExactInv, queue = {}, NEW b \in Blocks
               PROVE  b \in linked <=> Ancestors[b] \subseteq processed
    BY DEF LinkedIffProcessed, CsMainFree, NeverProcessed, index
  <2> QED
    BY ExactLinked, LinkFacts DEF LinkInv, LinkedClosed
<1> QED
  BY <1>1, InvariantTheorem, LinkTheorem, ExactTheorem, PTL

\* Under the same hypotheses a parked block has its data and waits for an
\* ancestor that has not been received.
THEOREM UnlinkedSoundTheorem ==
    Prunable = {} /\ Invalidated = {} /\ Reconsidered = {} => (Spec => []UnlinkedSound)
<1> SUFFICES ASSUME Prunable = {}, Invalidated = {}, Reconsidered = {} PROVE Spec => []UnlinkedSound
  BY SMT
<1>1. IInv /\ LinkInv /\ ExactInv => UnlinkedSound
  <2> SUFFICES ASSUME IInv, LinkInv, ExactInv, queue = {}, NEW b \in unlinked
               PROVE  b \in haveData /\ Missing(b)
    BY DEF UnlinkedSound, CsMainFree
  <2>1. b \in processed /\ b \in Blocks /\ b \notin linked /\ haveData = processed
    BY DEF IInv, TypeOK, SetsOK, processed, LinkInv, ParkedWaits, Stored
  <2> QED
    BY <2>1, ExactLinked DEF Missing
<1> QED
  BY <1>1, InvariantTheorem, LinkTheorem, ExactTheorem, PTL
=============================================================================
