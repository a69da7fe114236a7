----------------------------- MODULE ChainState -----------------------------
(***************************************************************************)
(* The block tree and the active chain (validation.cpp, blockstorage.cpp): *)
(* headers and blocks arrive in any order, ActivateBestChain moves the     *)
(* tip, and the RPCs invalidateblock, reconsiderblock and preciousblock    *)
(* interfere.                                                              *)
(*                                                                         *)
(* cs_main protects everything; ActivateBestChain and InvalidateBlock      *)
(* release it between their steps and keep only m_chainstate_mutex, whose  *)
(* holder is `abc' below.  The loops that run under one hold of cs_main    *)
(* are unrolled into actions, and CsMainFree says when another thread may  *)
(* get in between.                                                         *)
(***************************************************************************)
EXTENDS Integers, FiniteSets

CONSTANTS
    Blocks,            \* all block hashes
    Genesis,
    None,              \* nullptr
    Parent,            \* pprev
    Ancestors,         \* a block and everything below it: GetAncestor over all heights
    Height,            \* nHeight
    Work,              \* nChainWork
    Addr,              \* the address of a CBlockIndex
    BadContext,        \* blocks ContextualCheckBlock rejects
    BadConnect,        \* blocks ConnectBlock rejects
    MinBlocksToKeep,   \* MIN_BLOCKS_TO_KEEP
    Invalidated,       \* blocks invalidateblock may be called on
    Reconsidered,      \* blocks reconsiderblock may be called on
    Precious,          \* blocks preciousblock may be called on
    Prunable,          \* blocks whose file pruning may delete
    MaxCalls,          \* bound on the calls of these three RPCs
    MaxSequenceId,     \* bound on nBlockSequenceId: no pruning past it
    MaxRestarts        \* bound on restarts

\* The block index is a tree and Ancestors the path to each block.
ASSUME TreeAssumption ==
    /\ Genesis \in Blocks /\ None \notin Blocks
    /\ Parent \in [Blocks -> Blocks \cup {None}]
    /\ \A b \in Blocks : Parent[b] = None <=> b = Genesis
    /\ Ancestors \in [Blocks -> SUBSET Blocks]
    /\ Ancestors[Genesis] = {Genesis}
    /\ \A b \in Blocks \ {Genesis} : Ancestors[b] = {b} \cup Ancestors[Parent[b]]

ASSUME WorkAssumption ==
    /\ Height \in [Blocks -> Nat] /\ Work \in [Blocks -> Nat] /\ Addr \in [Blocks -> Nat]
    /\ \A b \in Blocks \ {Genesis} :
          Height[b] = Height[Parent[b]] + 1 /\ Work[Parent[b]] < Work[b]
    /\ \A a, b \in Blocks : Addr[a] = Addr[b] => a = b

ASSUME InputAssumption ==
    /\ BadContext \subseteq Blocks \ {Genesis} /\ BadConnect \subseteq Blocks \ {Genesis}
    /\ Invalidated \cup Reconsidered \cup Precious \cup Prunable \subseteq Blocks
    /\ MinBlocksToKeep \in Nat \ {0} /\ MaxCalls \in Nat
    /\ MaxSequenceId \in Nat /\ MaxRestarts \in Nat

\* BLOCK_VALID_MASK of nStatus; 0 for a block that is not in m_block_index.
TREE == 2
TRANSACTIONS == 3
SCRIPTS == 5

VARIABLES
    valid,         \* validity level of each CBlockIndex
    failedValid,   \* the blocks with BLOCK_FAILED_VALID
    failedChild,   \* the blocks with BLOCK_FAILED_CHILD
    haveData,      \* the blocks with BLOCK_HAVE_DATA
    linked,        \* HaveTxsDownloaded(): nChainTx # 0
    seq,           \* nSequenceId
    ids,           \* nBlockSequenceId, nBlockReverseSequenceId, nLastPreciousChainwork
    chain,         \* the blocks of m_chain
    tip,           \* m_chain.Tip()
    candidates,    \* setBlockIndexCandidates
    unlinked,      \* the blocks that are values in m_blocks_unlinked (their key is pprev)
    failedBlocks,  \* m_failed_blocks
    bestHeader,    \* m_best_header
    bestInvalid,   \* m_best_invalid
    queue,         \* the queue of ReceivedBlockTransactions; cs_main is held until it is empty
    abc,           \* the holder of m_chainstate_mutex and its locals
    pending,       \* a thread is about to call ActivateBestChain
    calls,         \* RPCs called so far
    restarts

status == <<valid, failedValid, failedChild, haveData, linked, seq, ids>>
chainVars == <<chain, tip>>
sets == <<candidates, unlinked, failedBlocks, bestHeader, bestInvalid>>
vars == <<status, chainVars, sets, queue, abc, pending, calls, restarts>>

Idle == [pc |-> "idle", mostWork |-> None, start |-> None, old |-> None,
         connected |-> FALSE, target |-> None, toMark |-> None, byWork |-> {}]

index == {b \in Blocks : valid[b] > 0}
failed == failedValid \cup failedChild
processed == {b \in Blocks : valid[b] >= TRANSACTIONS}   \* nTx > 0
IsValid(b, upTo) == b \notin failed /\ valid[b] >= upTo

\* CBlockIndexWorkComparator: a sorts before (is worse than) b.
Worse(s, a, b) ==
    \/ Work[a] < Work[b]
    \/ Work[a] = Work[b] /\ s[a] > s[b]
    \/ Work[a] = Work[b] /\ s[a] = s[b] /\ Addr[a] > Addr[b]

\* { *setBlockIndexCandidates.rbegin() }: the order is total.
Best == {b \in candidates : \A c \in candidates : ~Worse(seq, b, c)}

CsMainFree == queue = {} /\ abc.pc \in {"idle", "begin", "walk"}

PruneBlockIndexCandidates(S, s, t) == {b \in S : ~Worse(s, b, t)}

\* The two effects of InvalidChainFound(b), with the tip at t.
MoreInvalid(invalid, b) == IF invalid = None \/ Work[b] > Work[invalid] THEN b ELSE invalid
HeaderAfter(b, t) == IF b \in Ancestors[bestHeader] THEN t ELSE bestHeader

RaiseValidity(b, upTo) ==
    [valid EXCEPT ![b] = IF b \in failed \/ @ >= upTo THEN @ ELSE upTo]

-----------------------------------------------------------------------------
(* Headers and blocks from the network, under one hold of cs_main each.    *)

Init ==
    /\ valid = [b \in Blocks |-> IF b = Genesis THEN TRANSACTIONS ELSE 0]
    /\ failedValid = {} /\ failedChild = {}
    /\ haveData = {Genesis} /\ linked = {Genesis}
    /\ seq = [b \in Blocks |-> IF b = Genesis THEN 1 ELSE 0]
    /\ ids = [next |-> 2, reverse |-> -1, lastPrecious |-> 0]
    /\ chain = {Genesis} /\ tip = Genesis
    /\ candidates = {Genesis} /\ unlinked = {} /\ failedBlocks = {}
    /\ bestHeader = Genesis /\ bestInvalid = None
    /\ queue = {} /\ abc = Idle /\ pending = FALSE /\ calls = 0 /\ restarts = 0

\* MUTANT of Tainted: the walk goes on below the failed block.
TaintedTooFar(b, f) == Ancestors[Parent[b]] \ {f}

\* The blocks between the failed block f and the new header b.
Tainted(b, f) == Ancestors[Parent[b]] \ Ancestors[f]

\* AcceptBlockHeader of a header that is not in the index yet.  A parent whose
\* scripts have not been checked may descend from a block in m_failed_blocks:
\* then the path to it is marked and the header is refused.
AcceptBlockHeader(b) ==
    /\ CsMainFree
    /\ b \notin index
    /\ Parent[b] \in index \ failed
    /\ UNCHANGED <<haveData, linked, seq, ids, failedValid, chainVars, candidates, unlinked,
                   failedBlocks, bestInvalid, queue, abc, pending, calls, restarts>>
    /\ LET failedAncestors ==
               IF IsValid(Parent[b], SCRIPTS) THEN {}
               ELSE failedBlocks \cap Ancestors[Parent[b]]
       IN  \/ /\ failedAncestors = {}
              /\ valid' = RaiseValidity(b, TREE)
              /\ bestHeader' = IF Work[bestHeader] < Work[b] THEN b ELSE bestHeader
              /\ UNCHANGED failedChild
           \/ /\ \E f \in failedAncestors :
                    failedChild' = failedChild \cup Tainted(b, f)
              /\ UNCHANGED <<valid, bestHeader>>

\* MUTANT of Wanted: a block that is stored already is processed again.
WantedAgain(b, fRequested) ==
    fRequested \/ /\ b \notin processed
                  /\ Work[b] >= Work[tip]
                  /\ Height[b] <= Height[tip] + MinBlocksToKeep

\* AcceptBlock goes on with a block it does not have and either asked for or
\* finds useful.
Wanted(b, fRequested) ==
    /\ b \notin haveData
    /\ fRequested \/ /\ b \notin processed
                     /\ Work[b] >= Work[tip]
                     /\ Height[b] <= Height[tip] + MinBlocksToKeep

\* m_blocks_unlinked after a block whose parent is not linked was stored.
Parked(b) == IF Parent[b] \in failed THEN unlinked ELSE unlinked \cup {b}

\* AcceptBlock of a block whose header is in the index, from ProcessNewBlock,
\* which calls ActivateBestChain once cs_main is released.
AcceptBlock(b, fRequested) ==
    /\ CsMainFree
    /\ b \in index \ failed /\ Wanted(b, fRequested)
    /\ UNCHANGED <<failedChild, seq, ids, chainVars, candidates, failedBlocks,
                   bestHeader, bestInvalid, abc, calls, restarts>>
    /\ \/ /\ b \in BadContext
          /\ failedValid' = failedValid \cup {b}
          /\ UNCHANGED <<valid, haveData, linked, unlinked, queue, pending>>
       \/ /\ b \notin BadContext
          /\ haveData' = haveData \cup {b}
          /\ linked' = linked \ {b}
          /\ valid' = RaiseValidity(b, TRANSACTIONS)
          /\ IF Parent[b] = None \/ Parent[b] \in linked
             THEN queue' = {b} /\ UNCHANGED unlinked
             ELSE unlinked' = Parked(b) /\ UNCHANGED queue
          /\ pending' = TRUE
          /\ UNCHANGED failedValid

TryAddBlockIndexCandidate(b, s) ==
    IF Worse(s, b, tip) THEN candidates ELSE candidates \cup {b}

\* MUTANT of Waiting: the descendants of a late block are forgotten.
WaitingNone(b) == {}

\* The range of m_blocks_unlinked under b.
Waiting(b) == {c \in unlinked : Parent[c] = b}

\* One turn of the loop of ReceivedBlockTransactions, TryAddBlockIndexCandidate
\* included: b is linked, numbered, tried as a candidate, and the blocks that
\* were waiting for it join the queue.
ReceivedBlockTransactions(b) ==
    /\ b \in queue
    /\ linked' = linked \cup {b}
    /\ seq' = [seq EXCEPT ![b] = ids.next]
    /\ ids' = [ids EXCEPT !.next = @ + 1]
    /\ candidates' = TryAddBlockIndexCandidate(b, seq')
    /\ queue' = (queue \ {b}) \cup Waiting(b)
    /\ unlinked' = unlinked \ Waiting(b)
    /\ UNCHANGED <<valid, failedValid, failedChild, haveData, chainVars, failedBlocks,
                   bestHeader, bestInvalid, abc, pending, calls, restarts>>

-----------------------------------------------------------------------------
(* ActivateBestChain.  pc "begin" is the head of its outer loop, with      *)
(* cs_main released; "find" and "step" are inside one hold of cs_main.     *)

ActivateBestChain ==
    /\ queue = {}
    /\ \/ /\ abc.pc = "idle" /\ pending
          /\ abc' = [Idle EXCEPT !.pc = "find", !.start = tip]
          /\ pending' = FALSE
       \/ /\ abc.pc = "begin"
          /\ abc' = [abc EXCEPT !.pc = "find", !.start = tip, !.connected = FALSE]
          /\ UNCHANGED pending
    /\ UNCHANGED <<status, chainVars, sets, queue, calls, restarts>>

\* The blocks of the path from the active chain to b that make b unusable.
Unusable(b) == {x \in Ancestors[b] \ chain : x \in failed \/ x \notin haveData}

\* MUTANT of ParkedAbove: the blocks above the gap are dropped.
ParkedAboveNone(above) == unlinked

ParkedAbove(above) == unlinked \cup above

\* One turn of FindMostWorkChain that discards the best candidate: walking down
\* from it, x is the first block that failed or lacks data.  Everything above x
\* is marked or parked, and the whole path from the candidate to x is erased.
FindMostWorkChainDiscard ==
    /\ abc.pc = "find" /\ abc.mostWork = None
    /\ \E best \in Best : \E x \in Unusable(best) :
          LET above == Ancestors[best] \ Ancestors[x]
          IN  /\ Unusable(best) \cap above = {}
              /\ IF x \in failed
                 THEN /\ failedChild' = failedChild \cup above
                      /\ bestInvalid' = MoreInvalid(bestInvalid, best)
                      /\ UNCHANGED unlinked
                 ELSE /\ unlinked' = ParkedAbove(above)
                      /\ UNCHANGED <<failedChild, bestInvalid>>
              /\ candidates' = candidates \ (above \cup {x})
    /\ UNCHANGED <<valid, failedValid, haveData, linked, seq, ids, chainVars,
                   failedBlocks, bestHeader, queue, abc, pending, calls, restarts>>

\* pindexMostWork: found anew, or kept from before cs_main was released.
MostWork == IF abc.mostWork # None THEN {abc.mostWork}
            ELSE IF candidates = {} THEN {None} ELSE Best

\* FindMostWorkChain is done and there is something to do: ActivateBestChainStep
\* begins, with the current tip as pindexOldTip.
FindMostWorkChain ==
    /\ abc.pc = "find"
    /\ \E w \in MostWork \ {None, tip} :
          /\ abc.mostWork # None \/ Unusable(w) = {}
          /\ abc' = [abc EXCEPT !.pc = "step", !.mostWork = w, !.old = tip]
    /\ UNCHANGED <<status, chainVars, sets, queue, pending, calls, restarts>>

\* The break out of the inner loop: nothing to do (any more).
NothingToDo ==
    /\ abc.pc = "find"
    /\ \E w \in MostWork \cap {None, tip} :
          abc' = IF abc.connected /\ w # tip THEN [Idle EXCEPT !.pc = "begin"] ELSE Idle
    /\ UNCHANGED <<status, chainVars, sets, queue, pending, calls, restarts>>

\* ActivateBestChainStep disconnects down to the fork with pindexMostWork.  A
\* block whose data is gone cannot be disconnected: AbortNode.
DisconnectTip ==
    /\ abc.pc = "step" /\ tip \notin Ancestors[abc.mostWork]
    /\ \/ /\ tip \in haveData
          /\ chain' = chain \ {tip} /\ tip' = Parent[tip]
          /\ UNCHANGED abc
       \/ /\ tip \notin haveData
          /\ abc' = [Idle EXCEPT !.pc = "aborted"]
          /\ UNCHANGED chainVars
    /\ UNCHANGED <<status, sets, queue, pending, calls, restarts>>

\* MUTANT of AfterStep: cs_main is released wherever the step ended.
AfterStepAlways(t, w) ==
    IF t # w THEN [Idle EXCEPT !.pc = "begin", !.mostWork = w] ELSE Idle

\* MUTANT of AfterStep: one round is enough.
AfterStepOnce(t, w) ==
    IF Worse(seq, t, abc.start)
    THEN [abc EXCEPT !.pc = "find", !.mostWork = w, !.old = None, !.connected = TRUE]
    ELSE Idle

\* MUTANT of AfterStep: the failed pindexMostWork is not wiped.
AfterStepForever(t, w) == [abc EXCEPT !.pc = "find"]

\* The rest of ActivateBestChain's inner and outer loop after a step that ended
\* with tip t and pindexMostWork w: stay in until the tip is no worse than at
\* the start, go round again until the tip is pindexMostWork.
AfterStep(t, w) ==
    IF Worse(seq, t, abc.start)
    THEN [abc EXCEPT !.pc = "find", !.mostWork = w, !.old = None, !.connected = TRUE]
    ELSE IF t # w THEN [Idle EXCEPT !.pc = "begin", !.mostWork = w] ELSE Idle

\* The block on the path to pindexMostWork that comes after the tip.
NextBlock == {b \in Ancestors[abc.mostWork] : Parent[b] = tip}

\* ConnectTip of a valid block, PruneBlockIndexCandidates, and the early exit as
\* soon as the tip has more work than pindexOldTip.
ConnectTip ==
    /\ abc.pc = "step"
    /\ \E b \in NextBlock :
          /\ b \in haveData /\ b \notin BadConnect
          /\ valid' = RaiseValidity(b, SCRIPTS)
          /\ chain' = chain \cup {b} /\ tip' = b
          /\ candidates' = PruneBlockIndexCandidates(candidates, seq, b)
          /\ abc' = IF b = abc.mostWork \/ Work[b] > Work[abc.old]
                    THEN AfterStep(b, abc.mostWork) ELSE abc
    /\ UNCHANGED <<failedValid, failedChild, haveData, linked, seq, ids, unlinked,
                   failedBlocks, bestHeader, bestInvalid, queue, pending, calls, restarts>>

\* ConnectTip of an invalid block: InvalidBlockFound on it, InvalidChainFound on
\* the end of the path, and pindexMostWork is wiped.
ConnectTipInvalid ==
    /\ abc.pc = "step"
    /\ \E b \in NextBlock :
          /\ b \in haveData /\ b \in BadConnect
          /\ failedValid' = failedValid \cup {b}
          /\ failedBlocks' = failedBlocks \cup {b}
          /\ candidates' = candidates \ {b}
          /\ bestInvalid' = MoreInvalid(MoreInvalid(bestInvalid, b), abc.mostWork)
          /\ bestHeader' = HeaderAfter(b, tip)
    /\ abc' = AfterStep(tip, None)
    /\ UNCHANGED <<valid, failedChild, haveData, linked, seq, ids, chainVars, unlinked,
                   queue, pending, calls, restarts>>

\* ConnectTip that cannot read its block, or any other system error: AbortNode,
\* ActivateBestChain returns false and the node shuts down; what it still accepts
\* until then is left out.
ConnectTipError ==
    /\ abc.pc = "step"
    /\ \E b \in NextBlock : b \notin haveData \/ restarts < MaxRestarts
    /\ abc' = [Idle EXCEPT !.pc = "aborted"]
    /\ UNCHANGED <<status, chainVars, sets, queue, pending, calls, restarts>>

-----------------------------------------------------------------------------
(* The RPCs.  InvalidateBlock holds m_chainstate_mutex throughout and      *)
(* cs_main only for each of the steps; the others hold cs_main once and    *)
(* then call ActivateBestChain.                                            *)

\* The first step collects the blocks off the active chain that may become
\* candidates while it is disconnected.
InvalidateBlock(b) ==
    /\ abc.pc = "idle" /\ queue = {}
    /\ b \in index \ {Genesis} /\ calls < MaxCalls
    /\ calls' = calls + 1
    /\ abc' = [Idle EXCEPT !.pc = "walk", !.target = b, !.toMark = b,
                  !.byWork = {c \in index \ chain : /\ ~Worse(seq, c, Parent[b])
                                                    /\ IsValid(c, TRANSACTIONS)
                                                    /\ c \in linked}]
    /\ UNCHANGED <<status, chainVars, sets, queue, pending, restarts>>

\* One turn of its loop: disconnect the tip, mark it, and make its parent and
\* the collected blocks that are no worse candidates.
InvalidateWalk ==
    /\ abc.pc = "walk" /\ queue = {}
    /\ abc.target \in chain
    /\ \/ /\ tip \notin haveData
          /\ abc' = Idle /\ pending' = TRUE
          /\ UNCHANGED <<failedValid, failedChild, chainVars, candidates>>
       \/ LET p == Parent[tip]
              again == p = abc.toMark /\ p \in failedValid
              add == {c \in abc.byWork : Work[c] >= Work[p] /\ ~Worse(seq, c, p)}
          IN  /\ tip \in haveData
              /\ chain' = chain \ {tip} /\ tip' = p
              /\ failedValid' = (failedValid \cup {tip}) \ (IF again THEN {p} ELSE {})
              /\ failedChild' = failedChild \cup (IF again THEN {p} ELSE {})
              /\ candidates' = (candidates \ {tip}) \cup {p} \cup add
              /\ abc' = [abc EXCEPT !.toMark = tip, !.byWork = @ \ add]
              /\ UNCHANGED pending
    /\ UNCHANGED <<valid, haveData, linked, seq, ids, unlinked, failedBlocks,
                   bestHeader, bestInvalid, queue, calls, restarts>>

\* MUTANT of Missed: without the sweep.
MissedNone == {}

\* The blocks the final sweep over the index makes candidates.
Missed == {c \in linked : /\ c # abc.toMark /\ IsValid(c, TRANSACTIONS)
                          /\ ~Worse(seq, c, tip)}

\* Its last step: mark the block (the last disconnected one), and sweep the
\* whole index for candidates that the walk missed.
InvalidateMark ==
    /\ abc.pc = "walk" /\ queue = {}
    /\ abc.target \notin chain
    /\ failedValid' = failedValid \cup {abc.toMark}
    /\ failedBlocks' = failedBlocks \cup {abc.toMark}
    /\ candidates' = (candidates \ {abc.toMark}) \cup Missed
    /\ bestInvalid' = MoreInvalid(bestInvalid, abc.toMark)
    /\ bestHeader' = HeaderAfter(abc.toMark, tip)
    /\ abc' = Idle /\ pending' = TRUE
    /\ UNCHANGED <<valid, failedChild, haveData, linked, seq, ids, chainVars, unlinked,
                   queue, calls, restarts>>

\* reconsiderblock: the flags of b, of its descendants and of its ancestors.
ResetBlockFailureFlags(b) ==
    /\ CsMainFree
    /\ b \in index /\ calls < MaxCalls
    /\ LET reset == {x \in index : ~IsValid(x, TRANSACTIONS) /\ b \in Ancestors[x]}
           cleared == reset \cup Ancestors[b]
       IN  /\ failedValid' = failedValid \ cleared
           /\ failedChild' = failedChild \ cleared
           /\ failedBlocks' = failedBlocks \ cleared
           /\ candidates' = candidates \cup
                 {x \in reset : x \in processed \cap linked /\ Worse(seq, tip, x)}
           /\ bestInvalid' = IF bestInvalid \in reset THEN None ELSE bestInvalid
    /\ pending' = TRUE /\ calls' = calls + 1
    /\ UNCHANGED <<valid, haveData, linked, seq, ids, chainVars, unlinked, bestHeader,
                   queue, abc, restarts>>

\* MUTANT of PreciousCandidates: the set is not pruned afterwards.
PreciousCandidatesUnpruned(b, s) == candidates \cup {b}

\* setBlockIndexCandidates after b was erased, renumbered and inserted again.
PreciousCandidates(b, s) ==
    IF IsValid(b, TRANSACTIONS) /\ b \in linked
    THEN PruneBlockIndexCandidates(candidates \cup {b}, s, tip)
    ELSE candidates \ {b}

\* preciousblock: b gets a sequence id below every other one.
PreciousBlock(b) ==
    /\ CsMainFree
    /\ b \in index /\ Work[b] >= Work[tip] /\ calls < MaxCalls
    /\ LET reverse == IF Work[tip] > ids.lastPrecious THEN -1 ELSE ids.reverse
       IN  /\ seq' = [seq EXCEPT ![b] = reverse]
           /\ ids' = [next |-> ids.next, reverse |-> reverse - 1, lastPrecious |-> Work[tip]]
    /\ candidates' = PreciousCandidates(b, seq')
    /\ pending' = TRUE /\ calls' = calls + 1
    /\ UNCHANGED <<valid, failedValid, failedChild, haveData, linked, chainVars, unlinked,
                   failedBlocks, bestHeader, bestInvalid, queue, abc, restarts>>

-----------------------------------------------------------------------------
(* Pruning and restarting.                                                 *)

\* MUTANT of Unparked: a pruned block stays in m_blocks_unlinked.
UnparkedNever(b) == unlinked

Unparked(b) == unlinked \ {b}

\* PruneOneBlockFile, for a file that holds just b; FlushStateToDisk calls it
\* with cs_main held, from RPCs and from inside ActivateBestChainStep.
PruneOneBlockFile(b) ==
    /\ CsMainFree \/ (queue = {} /\ abc.pc = "step")
    /\ b \in haveData /\ Height[b] + MinBlocksToKeep <= Height[tip]
    /\ ids.next < MaxSequenceId
    /\ haveData' = haveData \ {b}
    /\ unlinked' = Unparked(b)
    /\ UNCHANGED <<valid, failedValid, failedChild, linked, seq, ids, chainVars, candidates,
                   failedBlocks, bestHeader, bestInvalid, queue, abc, pending, calls, restarts>>

\* MUTANT of FailedDescendants: whatever comes after a failed block in height
\* order is marked.
FailedDescendantsByHeight == {b \in index \ failed : \E f \in failed : Height[f] < Height[b]}

\* The blocks LoadBlockIndex marks BLOCK_FAILED_CHILD.
FailedDescendants == {b \in index \ failed : Ancestors[b] \cap failed # {}}

\* A clean shutdown and a new start: LoadBlockIndex rebuilds what is not stored,
\* LoadChainTip sets the tip from the coins database, and ActivateBestChain
\* follows.  Blocks loaded from disk have sequence id 0.
LoadBlockIndex ==
    /\ restarts < MaxRestarts
    /\ queue = {} /\ abc.pc \in {"idle", "begin", "aborted"}
    /\ seq' = [b \in Blocks |-> 0]
    /\ ids' = [next |-> 1, reverse |-> -1, lastPrecious |-> 0]
    /\ failedChild' = failedChild \cup FailedDescendants
    /\ linked' = {b \in Blocks : Ancestors[b] \subseteq processed}
    /\ unlinked' = {b \in processed \ linked' : b # Genesis}
    /\ candidates' = PruneBlockIndexCandidates(
           {b \in processed \cap linked' : b \notin failedValid \cup failedChild'}, seq', tip)
    /\ failedBlocks' = {}
    /\ LET bad == failedValid \cup failedChild'
           good == index \ bad
       IN  /\ \/ bad = {} /\ bestInvalid' = None
              \/ \E b \in bad : (\A c \in bad : Work[c] <= Work[b]) /\ bestInvalid' = b
           /\ \E b \in good : (\A c \in good : ~Worse(seq', b, c)) /\ bestHeader' = b
    /\ abc' = Idle /\ pending' = TRUE /\ restarts' = restarts + 1
    /\ UNCHANGED <<valid, failedValid, haveData, chainVars, queue, calls>>

-----------------------------------------------------------------------------
Activate ==
    \/ ActivateBestChain \/ FindMostWorkChainDiscard \/ FindMostWorkChain \/ NothingToDo
    \/ DisconnectTip \/ ConnectTip \/ ConnectTipInvalid

Invalidate == InvalidateWalk \/ InvalidateMark

Link == \E b \in queue : ReceivedBlockTransactions(b)

Next ==
    \/ \E b \in Blocks : AcceptBlockHeader(b)
    \/ \E b \in Blocks, fRequested \in BOOLEAN : AcceptBlock(b, fRequested)
    \/ \E b \in queue : ReceivedBlockTransactions(b)
    \/ Activate \/ ConnectTipError
    \/ \E b \in Invalidated : InvalidateBlock(b)
    \/ Invalidate
    \/ \E b \in Reconsidered : ResetBlockFailureFlags(b)
    \/ \E b \in Precious : PreciousBlock(b)
    \/ \E b \in Prunable : PruneOneBlockFile(b)
    \/ LoadBlockIndex

Spec == Init /\ [][Next]_vars

\* A thread inside one of these calls keeps running; whether blocks, RPCs or
\* restarts come is up to the outside.
Fairness == WF_vars(Activate) /\ WF_vars(Invalidate) /\ WF_vars(Link)
FairSpec == Spec /\ Fairness

-----------------------------------------------------------------------------
Holder(S) ==
    [pc : {"idle", "begin", "find", "step", "walk", "aborted"},
     mostWork : S \cup {None}, start : S \cup {None}, old : S \cup {None},
     connected : BOOLEAN, target : S \cup {None}, toMark : S \cup {None}, byWork : SUBSET S]

StatusOK ==
    /\ valid \in [Blocks -> {0, TREE, TRANSACTIONS, SCRIPTS}]
    /\ failedValid \subseteq index /\ failedChild \subseteq index
    /\ haveData \subseteq processed /\ linked \subseteq processed

SetsOK ==
    /\ chain \subseteq index /\ tip \in chain
    /\ candidates \subseteq index /\ unlinked \subseteq processed \ {Genesis}
    /\ failedBlocks \subseteq index
    /\ bestHeader \in index /\ bestInvalid \in index \cup {None}
    /\ queue \subseteq processed

NumbersOK ==
    /\ seq \in [Blocks -> Int]
    /\ ids \in [next : Nat \ {0}, reverse : Int, lastPrecious : Nat]
    /\ calls \in 0..MaxCalls /\ restarts \in 0..MaxRestarts

\* Every variable has its type.
TypeOK == StatusOK /\ SetsOK /\ NumbersOK /\ abc \in Holder(index) /\ pending \in BOOLEAN

NeverProcessed(b) == Ancestors[b] \ processed # {}
Invalid(b) == Ancestors[b] \cap failedValid # {}
Missing(b) == Ancestors[b] \ haveData # {}

\* CheckBlockIndex: nChainTx is set exactly for the blocks all of whose
\* ancestors have been received, in whatever order they came.
LinkedIffProcessed ==
    CsMainFree => \A b \in index : b \in linked <=> ~NeverProcessed(b)

\* CheckBlockIndex: a failure flag has a cause, a block below that failed.
FailedHaveCause ==
    CsMainFree => \A b \in failed : Invalid(b)

\* CheckBlockIndex: setBlockIndexCandidates holds no block that is worse than
\* the tip or waits for an ancestor.
CandidatesSound ==
    CsMainFree => \A b \in candidates : ~Worse(seq, b, tip) /\ ~NeverProcessed(b)

Deserving(b) ==
    /\ ~Worse(seq, b, tip) /\ ~NeverProcessed(b) /\ ~Invalid(b)
    /\ ~Missing(b) \/ b = tip

\* CheckBlockIndex: it holds every block that could replace the tip, and the tip,
\* except while InvalidateBlock is between two of its steps.
CandidatesComplete ==
    CsMainFree /\ abc.pc # "walk" =>
        \A b \in index : Deserving(b) => b \in candidates

\* "We only want to mark the last disconnected block as BLOCK_FAILED_VALID; its
\* children need to be BLOCK_FAILED_CHILD instead."
OnlyLastFailedValid ==
    abc.pc = "idle" => \A b \in failedValid : Parent[b] \notin failedValid

\* CheckBlockIndex: a stored block that waits for an ancestor is parked in
\* m_blocks_unlinked, and so is one that lost its place in
\* setBlockIndexCandidates because an ancestor's data was pruned.
UnlinkedComplete ==
    CsMainFree =>
        \A b \in haveData \ {Genesis} :
            /\ ~Invalid(b)
            /\ \/ NeverProcessed(b)
               \/ Missing(b) /\ ~Worse(seq, b, tip) /\ b \notin candidates
            => b \in unlinked

\* CheckBlockIndex: a parked block has its data and lacks some ancestor's.
UnlinkedSound ==
    CsMainFree => \A b \in unlinked : b \in haveData /\ Missing(b)

\* No block of the active chain is ever marked invalid, not even while cs_main
\* is held.
ActiveChainClean == chain \cap failed = {}

\* pindexMostWork, kept while cs_main is released, never goes stale: the path
\* to it stays free of failed blocks.
MostWorkUsable ==
    abc.mostWork # None => (Ancestors[abc.mostWork] \ chain) \cap failed = {}

\* ActivateBestChain never releases cs_main with a tip worse than it found.
TipNeverWorse ==
    [][abc.pc \in {"find", "step"} /\ abc'.pc \in {"idle", "begin"}
          => ~Worse(seq, tip', abc.start)]_vars

AtRest == abc.pc = "idle" /\ ~pending /\ queue = {}

\* When no call is in progress, no usable chain is better than the active one.
TipIsBest ==
    AtRest => \A b \in linked :
        Ancestors[b] \cap failed = {} /\ Ancestors[b] \ chain \subseteq haveData
            => ~Worse(seq, tip, b)

\* ReceivedBlockTransactions never renumbers a block inside the ordered set
\* setBlockIndexCandidates, where the number is part of the sort key.
SortKeyStable ==
    [][queue # {} => \A b \in candidates : seq'[b] = seq[b]]_vars

\* Every call comes to an end: the retries of ActivateBestChain and the walk of
\* InvalidateBlock terminate.
Settles == <>[](AtRest \/ abc.pc = "aborted")

====
