----------------------------- MODULE BaseIndex -----------------------------
(***************************************************************************)
(* BaseIndex (index/base.cpp) with the data of CoinStatsIndex              *)
(* (index/coinstatsindex.cpp): the thread that builds the index from the   *)
(* blocks on disk, the callbacks that keep it up to date, rewinds, commits *)
(* and what is found at the next start, while the active chain changes and *)
(* the node is shut down or dies.                                          *)
(*                                                                         *)
(* The statistics of a block (muhash and totals) are which blocks they     *)
(* have counted, and how often.  Callbacks come from a queue in order, one *)
(* at a time (module CallbackQueue).  A write to the index database        *)
(* outlives the process.  The chainstate was flushed once, with genesis.   *)
(***************************************************************************)
EXTENDS Integers, Sequences

CONSTANTS
    Blocks, Genesis, None,
    Parent,       \* pprev
    Ancestors,    \* the path to each block
    nHeight,
    MaxChanges,   \* bound on the changes of the active chain and on flushes
    MaxRestarts   \* bound on the restarts

ASSUME TreeAssumption ==
    /\ Genesis \in Blocks /\ None \notin Blocks
    /\ Parent \in [Blocks -> Blocks \cup {None}]
    /\ \A b \in Blocks : Parent[b] = None <=> b = Genesis
    /\ Ancestors \in [Blocks -> SUBSET Blocks] /\ nHeight \in [Blocks -> Nat]
    /\ Ancestors[Genesis] = {Genesis} /\ nHeight[Genesis] = 0
    /\ \A b \in Blocks \ {Genesis} : /\ Ancestors[b] = {b} \cup Ancestors[Parent[b]]
                                    /\ nHeight[b] = nHeight[Parent[b]] + 1

\* A block that is not there is neither an entry nor the statistics of a block.
ASSUME NoneAssumption ==
    None \notin [Blocks -> Int] /\ None \notin [block : Blocks, value : [Blocks -> Int]]

VARIABLES
    tip, flushed,      \* the active chain's tip, in memory and on disk
    queue,             \* validation callbacks
    status,            \* of the node
    m_interrupt, m_synced, m_best_block_index,
    m_muhash,          \* with the totals beside it: how often each block is counted
    pindex, sync,      \* ThreadSync's local and its place
    cb,                \* the place of the callback at the head of the queue
    db,                \* the index database
    committed,         \* history: every block that was indexed at some commit
    changes, restarts

chainVars == <<tip, flushed, changes>>
callVars == <<queue, cb>>
memVars == <<m_synced, m_best_block_index, m_muhash, pindex, sync>>
nodeVars == <<status, m_interrupt, restarts>>
vars == <<chainVars, callVars, memVars, nodeVars, db, committed>>

ChainOf(b) == IF b = None THEN {} ELSE Ancestors[b]
Heights == {nHeight[b] : b \in Blocks}

\* CBlockIndex::GetAncestor: the block at a height of the path to b.
GetAncestor(b, height) == CHOOSE x \in Ancestors[b] : nHeight[x] = height

\* The last block that two paths share.
LastCommon(a, b) == CHOOSE x \in Ancestors[a] \cap Ancestors[b] :
                       \A y \in Ancestors[a] \cap Ancestors[b] : nHeight[y] <= nHeight[x]

\* CChain::FindFork: the last block of the active chain that is b or below it.
FindFork(b) == LastCommon(b, tip)

Empty == [b \in Blocks |-> 0]
\* What the statistics of a block are by definition.
Value(b) == [x \in Blocks |-> IF x \in ChainOf(b) THEN 1 ELSE 0]

EmptyDB == [height |-> [h \in Heights |-> None], hash |-> [b \in Blocks |-> None],
            best |-> None, muhash |-> Empty]

Init ==
    /\ tip \in {b \in Blocks : nHeight[b] <= 1} /\ flushed = Genesis /\ changes = 0
    /\ queue = <<>> /\ cb = "idle"
    /\ m_synced = FALSE /\ m_best_block_index = None /\ m_muhash = Empty
    /\ pindex = None /\ sync = "next"
    /\ status = "up" /\ m_interrupt = FALSE /\ restarts = 0
    /\ db = EmptyDB /\ committed = {}
-----------------------------------------------------------------------------
(* The database of CoinStatsIndex. *)

LookUpOne(d, b) ==
    IF d.height[nHeight[b]] = None THEN None
    ELSE IF d.height[nHeight[b]].block = b THEN d.height[nHeight[b]].value
    ELSE d.hash[b]

\* CustomAppend: m_muhash with b counted, if the entry of its parent is found.
CanAppend(d, b) == b # Genesis => LookUpOne(d, Parent[b]) # None
Counted(m, b) == [m EXCEPT ![b] = @ + 1]
Appended(d, m, b) == [d EXCEPT !.height[nHeight[b]] = [block |-> b, value |-> Counted(m, b)]]

\* MUTANT of CopyHeightIndexToHashIndex: the loop ends one entry early.
CopyAllButTip(d, cur, new) ==
    [d EXCEPT !.hash = [b \in Blocks |->
        IF /\ nHeight[b] >= nHeight[new] /\ nHeight[b] < nHeight[cur]
           /\ d.height[nHeight[b]].block = b
        THEN d.height[nHeight[b]].value ELSE @[b]]]

\* CustomRewind first copies the entries that will be overwritten.
CanCopy(d, cur, new) == \A h \in nHeight[new]..nHeight[cur] : d.height[h] # None
CopyHeightIndexToHashIndex(d, cur, new) ==
    [d EXCEPT !.hash = [b \in Blocks |->
        IF /\ nHeight[b] >= nHeight[new] /\ nHeight[b] <= nHeight[cur]
           /\ d.height[nHeight[b]].block = b
        THEN d.height[nHeight[b]].value ELSE @[b]]]

\* Then it takes back block by block.  ReverseBlock compares what is left with
\* the entry of the block below.  (That it may fail to find that entry is not
\* looked at by its caller; it counts as a failed comparison here.)
Reversed(m, cur, new) ==
    [b \in Blocks |-> IF b \in Ancestors[cur] \ Ancestors[new] THEN m[b] - 1 ELSE m[b]]
CanReverse(d, m, cur, new) ==
    \A b \in Ancestors[cur] \ Ancestors[new] :
        LookUpOne(d, Parent[b]) = Reversed(m, cur, Parent[b])

\* Commit writes the locator of the best block, and DB_MUHASH, in one batch.
Committed(d, b, m) == IF b = None THEN d ELSE [d EXCEPT !.best = b, !.muhash = m]

Commit(d, b, m) ==
    /\ db' = Committed(d, b, m)
    /\ committed' = committed \cup ChainOf(b)

\* FatalError asks for a shutdown; the index does nothing more.
FatalError == status' = "fatal"
-----------------------------------------------------------------------------
(* The active chain, as validation.cpp changes it under cs_main. *)

\* A chain with more work is activated and its callbacks are added.
ActivateBestChain(b) ==
    /\ status = "up" /\ changes < MaxChanges
    /\ b \notin Ancestors[tip] /\ nHeight[b] > nHeight[tip]
    /\ tip' = b /\ changes' = changes + 1
    /\ queue' = queue \o [i \in 1..(nHeight[b] - nHeight[FindFork(b)]) |->
                   [type |-> "BlockConnected", block |-> GetAncestor(b, nHeight[FindFork(b)] + i)]]
    /\ UNCHANGED <<flushed, cb, memVars, nodeVars, db, committed>>

\* The tip is disconnected; an index is not told.
DisconnectTip ==
    /\ status = "up" /\ changes < MaxChanges /\ tip # Genesis
    /\ tip' = Parent[tip] /\ changes' = changes + 1
    /\ UNCHANGED <<flushed, callVars, memVars, nodeVars, db, committed>>

FlushStateToDisk ==
    /\ status = "up" /\ flushed # tip
    /\ m_interrupt \/ changes < MaxChanges
    /\ flushed' = tip /\ changes' = IF m_interrupt THEN changes ELSE changes + 1
    /\ queue' = Append(queue, [type |-> "ChainStateFlushed", block |-> tip])
    /\ UNCHANGED <<tip, cb, memVars, nodeVars, db, committed>>
-----------------------------------------------------------------------------
(* ThreadSync. *)

\* chain.Next(b), if there is one.
NextOf(b) == {c \in Ancestors[tip] : Parent[c] = b}

NextSyncBlock ==
    IF pindex = None THEN {Genesis} ELSE NextOf(FindFork(pindex))

SyncInterrupted ==
    /\ status = "up" /\ sync = "next" /\ m_interrupt
    /\ m_best_block_index' = pindex /\ Commit(db, pindex, m_muhash)
    /\ sync' = "done"
    /\ UNCHANGED <<chainVars, callVars, nodeVars, m_synced, m_muhash, pindex>>

\* MUTANT of SyncDone: m_synced is set without the best block.
SyncDoneStale ==
    /\ status = "up" /\ sync = "next" /\ ~m_interrupt /\ NextSyncBlock = {}
    /\ m_synced' = TRUE
    /\ Commit(db, m_best_block_index, m_muhash)
    /\ sync' = "done"
    /\ UNCHANGED <<chainVars, callVars, nodeVars, m_best_block_index, m_muhash, pindex>>

\* Under cs_main: there is no next block,
SyncDone ==
    /\ status = "up" /\ sync = "next" /\ ~m_interrupt /\ NextSyncBlock = {}
    /\ m_best_block_index' = pindex /\ m_synced' = TRUE
    /\ Commit(db, pindex, m_muhash)
    /\ sync' = "done"
    /\ UNCHANGED <<chainVars, callVars, nodeVars, m_muhash, pindex>>

\* or there is one; Rewind goes down to its parent first if need be.  Rewind's
\* assertion on m_best_block_index ends the process when it fails.  The two
\* writes of Rewind are one step here and two in the callback below.
SyncNext ==
    /\ status = "up" /\ sync = "next" /\ ~m_interrupt
    /\ \E next \in NextSyncBlock :
         LET new == Parent[next]
             copied == CopyHeightIndexToHashIndex(db, pindex, new)
         IN \/ /\ new = pindex /\ pindex' = next /\ sync' = "locator"
               /\ UNCHANGED <<m_best_block_index, m_muhash, db, committed, status>>
            \/ /\ new # pindex /\ pindex # m_best_block_index /\ status' = "aborted"
               /\ UNCHANGED <<m_best_block_index, m_muhash, pindex, sync, db, committed>>
            \/ /\ new # pindex /\ pindex = m_best_block_index
               /\ IF CanCopy(db, pindex, new) /\ CanReverse(copied, m_muhash, pindex, new)
                    THEN /\ m_muhash' = Reversed(m_muhash, pindex, new)
                         /\ m_best_block_index' = new /\ Commit(copied, new, m_muhash')
                         /\ pindex' = next /\ sync' = "locator"
                         /\ UNCHANGED status
                    ELSE /\ FatalError
                         /\ UNCHANGED <<m_best_block_index, m_muhash, pindex, sync, db, committed>>
    /\ UNCHANGED <<chainVars, callVars, m_synced, m_interrupt, restarts>>

\* Now and then the block before is committed,
SyncLocator ==
    /\ status = "up" /\ sync = "locator" /\ sync' = "append"
    /\ \/ UNCHANGED <<m_best_block_index, db, committed>>
       \/ /\ m_best_block_index' = Parent[pindex]
          /\ Commit(db, Parent[pindex], m_muhash)
    /\ UNCHANGED <<chainVars, callVars, nodeVars, m_synced, m_muhash, pindex>>

\* and the block is added.
SyncAppend ==
    /\ status = "up" /\ sync = "append"
    /\ IF CanAppend(db, pindex)
         THEN /\ db' = Appended(db, m_muhash, pindex) /\ m_muhash' = Counted(m_muhash, pindex)
              /\ sync' = "next" /\ UNCHANGED status
         ELSE FatalError /\ UNCHANGED <<db, m_muhash, sync>>
    /\ UNCHANGED <<chainVars, callVars, m_interrupt, restarts, m_synced, m_best_block_index, pindex, committed>>
-----------------------------------------------------------------------------
(* The callbacks. *)

Callback(type) == status = "up" /\ queue # <<>> /\ Head(queue).type = type
block == Head(queue).block

\* MUTANT of Connects: the block is only compared with the best block.
ConnectsToBest(b) == m_best_block_index # None /\ Parent[b] = m_best_block_index

\* BlockConnected goes on with a block whose parent is on the best block's chain,
Connects(b) == m_best_block_index # None /\ Parent[b] \in Ancestors[m_best_block_index]

BlockConnected ==
    /\ Callback("BlockConnected") /\ cb = "idle"
    /\ \/ /\ ~m_synced
          /\ queue' = Tail(queue) /\ UNCHANGED <<cb, status>>
       \/ /\ m_synced /\ Connects(block)
          /\ cb' = IF m_best_block_index = Parent[block] THEN "append" ELSE "copy"
          /\ UNCHANGED <<queue, status>>
       \/ /\ m_synced /\ ~Connects(block)
          /\ IF m_best_block_index = None
               THEN FatalError /\ UNCHANGED <<queue, cb>>
               ELSE queue' = Tail(queue) /\ UNCHANGED <<cb, status>>
    /\ UNCHANGED <<chainVars, memVars, m_interrupt, restarts, db, committed>>

\* rewinds to that parent, which writes twice,
RewindCopy ==
    /\ Callback("BlockConnected") /\ cb = "copy"
    /\ IF CanCopy(db, m_best_block_index, Parent[block])
         THEN /\ db' = CopyHeightIndexToHashIndex(db, m_best_block_index, Parent[block])
              /\ cb' = "reverse" /\ UNCHANGED status
         ELSE FatalError /\ UNCHANGED <<cb, db>>
    /\ UNCHANGED <<chainVars, queue, memVars, m_interrupt, restarts, committed>>

Rewind ==
    /\ Callback("BlockConnected") /\ cb = "reverse"
    /\ LET cur == m_best_block_index
           new == Parent[block]
       IN IF CanReverse(db, m_muhash, cur, new)
            THEN /\ m_muhash' = Reversed(m_muhash, cur, new)
                 /\ m_best_block_index' = new /\ Commit(db, new, m_muhash')
                 /\ cb' = "append" /\ UNCHANGED status
            ELSE FatalError /\ UNCHANGED <<cb, m_muhash, m_best_block_index, db, committed>>
    /\ UNCHANGED <<chainVars, queue, m_synced, pindex, sync, m_interrupt, restarts>>

\* and adds the block.
BlockAppend ==
    /\ Callback("BlockConnected") /\ cb = "append"
    /\ IF CanAppend(db, block)
         THEN /\ db' = Appended(db, m_muhash, block) /\ m_muhash' = Counted(m_muhash, block)
              /\ m_best_block_index' = block
              /\ cb' = "idle" /\ queue' = Tail(queue) /\ UNCHANGED status
         ELSE FatalError /\ UNCHANGED <<cb, queue, db, m_muhash, m_best_block_index>>
    /\ UNCHANGED <<chainVars, m_synced, pindex, sync, m_interrupt, restarts, committed>>

\* A flush of a block that is not on the best block's chain is not followed by
\* a commit.
ChainStateFlushed ==
    /\ Callback("ChainStateFlushed")
    /\ IF m_synced /\ block \in ChainOf(m_best_block_index)
         THEN Commit(db, m_best_block_index, m_muhash)
         ELSE UNCHANGED <<db, committed>>
    /\ queue' = Tail(queue)
    /\ UNCHANGED <<chainVars, cb, memVars, nodeVars>>
-----------------------------------------------------------------------------
(* The node. *)

Interrupt ==
    /\ status = "up" /\ m_interrupt' = TRUE /\ ~m_interrupt
    /\ UNCHANGED <<chainVars, callVars, memVars, status, restarts, db, committed>>

\* Only what is on disk stays.
Forget ==
    /\ status' = "down" /\ m_interrupt' = FALSE
    /\ tip' = flushed /\ queue' = <<>> /\ cb' = "idle"
    /\ m_synced' = FALSE /\ m_best_block_index' = None /\ m_muhash' = Empty
    /\ pindex' = None /\ sync' = "next"
    /\ UNCHANGED <<flushed, changes, restarts, db, committed>>

\* Shutdown flushes the chainstate, runs the callbacks that are left and stops
\* the index.
Stop ==
    /\ status = "up" /\ m_interrupt /\ flushed = tip /\ queue = <<>> /\ sync = "done"
    /\ Forget

Crash == status \in {"up", "aborted"} /\ Forget

\* FindForkInGlobalIndex: the first block of the locator that is on the chain
\* or above its tip.
FindForkInGlobalIndex(locator) ==
    IF flushed \in Ancestors[locator] THEN flushed
    ELSE LastCommon(locator, flushed)

\* MUTANT of CustomInit: the entry is not compared with DB_MUHASH.
CustomInitUnchecked(best) == best # None => LookUpOne(db, best) # None

\* CustomInit accepts a best block whose entry agrees with DB_MUHASH.
CustomInit(best) == best # None => LookUpOne(db, best) = db.muhash

\* BaseIndex::Start with the chainstate that is on disk.
Start ==
    /\ status = "down" /\ restarts < MaxRestarts /\ restarts' = restarts + 1
    /\ LET best == IF db.best = None THEN None ELSE FindForkInGlobalIndex(db.best)
       IN /\ status' = IF CustomInit(best) THEN "up" ELSE "failed"
          /\ m_best_block_index' = best /\ pindex' = best
          /\ m_synced' = (best = flushed)
          /\ sync' = IF best = flushed THEN "done" ELSE "next"
    /\ m_muhash' = db.muhash
    /\ UNCHANGED <<chainVars, callVars, m_interrupt, db, committed>>

\* Nothing is left to do.
Quiet ==
    /\ status = "up" => queue = <<>> /\ sync = "done"
    /\ UNCHANGED vars

ThreadSync == SyncInterrupted \/ SyncDone \/ SyncNext \/ SyncLocator \/ SyncAppend
RunCallback == BlockConnected \/ RewindCopy \/ Rewind \/ BlockAppend \/ ChainStateFlushed

Next ==
    \/ \E b \in Blocks : ActivateBestChain(b)
    \/ DisconnectTip \/ FlushStateToDisk
    \/ ThreadSync \/ RunCallback
    \/ Interrupt \/ Stop \/ Crash \/ Start
    \/ Quiet

\* The sync thread and the thread that runs callbacks go on while they can.
Spec == Init /\ [][Next]_vars /\ WF_vars(ThreadSync) /\ WF_vars(RunCallback)
-----------------------------------------------------------------------------
\* The index never comes to a FatalError or a failed comparison of ReverseBlock:
\* whatever the order of callbacks, reorganisations and restarts, the entries
\* that CustomAppend and CustomRewind look for are there and the totals agree.
NoFatalError == status # "fatal"

\* A block that was indexed at some commit is found with its right statistics
\* ever after, reorganised out, rewound or interrupted by a crash as it may be,
\* and the running totals on disk are those of the best block on disk.
CommittedServed ==
    /\ \A b \in committed : LookUpOne(db, b) = Value(b)
    /\ db.muhash = Value(db.best)

\* When the index says it is synced and the callbacks have run, which is what
\* BlockUntilSyncedToCurrentChain waits for, it covers the active chain: the
\* hand-over from the sync thread to the callbacks loses no block, and stale
\* callbacks do not leave it on another branch.
CoversTip ==
    status = "up" /\ m_synced /\ queue = <<>> =>
        /\ tip \in ChainOf(m_best_block_index)
        /\ \A b \in Ancestors[tip] : LookUpOne(db, b) = Value(b)

\* Once the chain rests, a node that stays up and is not told to stop is synced for
\* good; of one that was stopped or had a fatal error nothing is said.
CatchesUp ==
    <>[](status = "up" /\ ~m_interrupt => m_synced /\ tip \in ChainOf(m_best_block_index))
=============================================================================
