--------------------------- MODULE CoinsRecovery ---------------------------
(***************************************************************************)
(* Crashes, and what survives them: FlushStateToDisk writes the block      *)
(* index and then the coins, the coins in several batches, and             *)
(* ReplayBlocks repairs at the next start what an interrupted flush left   *)
(* behind (validation.cpp, txdb.cpp, node/chainstate.cpp).                 *)
(*                                                                         *)
(* CoinsTip() is a plain map here: CoinsCache shows that a stack of caches *)
(* is one, and that a clean entry equals the database's, so that a batch   *)
(* changes just those outpoints in which the map and the database differ.  *)
(*                                                                         *)
(* BIP30 is not enforced for mainnet blocks below BIP34Height, 1977347: a  *)
(* coinbase may repeat an earlier one whose outputs are unspent, and       *)
(* replaces their coins, which are in no undo data.  Disconnecting such a  *)
(* block leaves neither coin.                                              *)
(***************************************************************************)
EXTENDS Integers

CONSTANTS
    Blocks, Genesis,
    Null,         \* uint256()
    Parent,       \* pprev
    Ancestors,    \* a block and everything below it
    Outpoints,
    Creates,      \* the outpoints each block's transactions add
    Spends,       \* those they spend, some of their own included
    Coin,         \* the Coin of an outpoint a block creates: it contains the height
    Coins,        \* all such values
    Spent,        \* no unspent coin
    Utxo,         \* the UTXO set at each block, of a node that went there straight
    Coinbases,    \* the outpoints of coinbase transactions
    Legacy,       \* the blocks with legacy_mainnet_pre_bip34
    MaxCrashes,   \* bound on crashes
    MaxFailures   \* bound on failed batch writes

Touched(b) == Creates[b] \cup Spends[b]

\* The blocks that lie on the way from a to b.
Between(a, b) == (Ancestors[a] \cup Ancestors[b]) \ (Ancestors[a] \cap Ancestors[b])

TouchedBetween(a, b) == {o \in Outpoints : \E y \in Between(a, b) : o \in Touched(y)}

\* The effect of ConnectBlock and of RollforwardBlock on the coins.
Connected(m, b) ==
    [o \in Outpoints |-> IF o \in Spends[b] THEN Spent
                         ELSE IF o \in Creates[b] THEN Coin[b][o] ELSE m[o]]

\* MUTANT of Disconnected: outputs are removed before inputs are restored.
DisconnectedRestoresLast(m, b) ==
    [o \in Outpoints |-> IF o \in Spends[b] \cap Creates[b] THEN Coin[b][o]
                         ELSE IF o \in Spends[b] THEN Utxo[Parent[b]][o]
                         ELSE IF o \in Creates[b] THEN Spent ELSE m[o]]

\* DisconnectBlock: the undo data holds the coins the block spent, and nothing
\* of a coin that its coinbase replaced.
Disconnected(m, b) ==
    [o \in Outpoints |-> IF o \in Creates[b] THEN Spent
                         ELSE IF o \in Spends[b] THEN Utxo[Parent[b]][o] ELSE m[o]]

ASSUME TreeAssumption ==
    /\ Genesis \in Blocks /\ Null \notin Blocks
    /\ Parent \in [Blocks -> Blocks \cup {Null}]
    /\ \A b \in Blocks : Parent[b] = Null <=> b = Genesis
    /\ Ancestors \in [Blocks -> SUBSET Blocks]
    /\ Ancestors[Genesis] = {Genesis}
    /\ \A b \in Blocks \ {Genesis} : Ancestors[b] = {b} \cup Ancestors[Parent[b]]
    /\ \A b \in Blocks : Genesis \in Ancestors[b]
    /\ \A b \in Blocks \ {Genesis} : b \notin Ancestors[Parent[b]]

\* The outpoints of a block that are unspent before it.
Repeats(b) == {o \in Creates[b] : Utxo[Parent[b]][o] # Spent}

\* The blocks below BIP34Height, but for the genesis block.
ASSUME LegacyAssumption ==
    /\ Legacy \subseteq Blocks \ {Genesis}
    /\ \A b \in Legacy : Ancestors[b] \ {Genesis} \subseteq Legacy

\* Every block is valid on its parent's UTXO set by the rules of its height: what
\* it creates is not there (BIP30), except that a legacy block's coinbase may
\* repeat an earlier one.  Other transactions repeat none that is unspent; for a
\* legacy block nothing checks that, but AddCoin's callers rely on it.  The last
\* fact follows by induction over the way from a to b.
ASSUME UtxoAssumption ==
    /\ Creates \in [Blocks -> SUBSET Outpoints] /\ Spends \in [Blocks -> SUBSET Outpoints]
    /\ Spent \notin Coins /\ Coinbases \subseteq Outpoints
    /\ Coin \in [Blocks -> [Outpoints -> Coins]]
    /\ Utxo \in [Blocks -> [Outpoints -> Coins \cup {Spent}]]
    /\ Utxo[Genesis] = [o \in Outpoints |-> Spent]
    /\ \A b \in Blocks \ {Genesis} :
          /\ Utxo[b] = Connected(Utxo[Parent[b]], b)
          /\ Repeats(b) \subseteq Coinbases
          /\ b \notin Legacy => Repeats(b) = {}
    /\ \A a, b \in Blocks : \A o \in Outpoints \ TouchedBetween(a, b) : Utxo[a][o] = Utxo[b][o]

ASSUME BoundAssumption == MaxCrashes \in Nat /\ MaxFailures \in Nat

VARIABLES
    pc,        \* what the process is doing
    known,     \* m_block_index and the block files, in memory and in the page cache
    stored,    \* what of them is on disk
    tip,       \* m_chain.Tip(), or how far ReplayBlocks has come
    coins,     \* CoinsTip(), or the cache of ReplayBlocks
    db,        \* the coins database
    durable,   \* what of it a power failure leaves: it is written without sync
    crashes, failures

vars == <<pc, known, stored, tip, coins, db, durable, crashes, failures>>

NoCoins == [o \in Outpoints |-> Spent]

\* DB_BEST_BLOCK and the two DB_HEAD_BLOCKS; Null for what is not there.
Db(c, best, to, from) == [coins |-> c, best |-> best, to |-> to, from |-> from]

Init ==
    /\ pc = "off" /\ known = {Genesis} /\ stored = {Genesis}
    /\ tip = Genesis /\ coins = NoCoins
    /\ db = Db(NoCoins, Null, Null, Null) /\ durable = db
    /\ crashes = 0 /\ failures = 0

\* Memory is lost, all but what is on disk.  The genesis block counts as stored:
\* LoadGenesisBlock adds it at every start.
Off(onDisk) ==
    /\ pc' = "off" /\ stored' = onDisk /\ known' = onDisk
    /\ tip' = Genesis /\ coins' = NoCoins

-----------------------------------------------------------------------------
(* The running node.                                                       *)

ReceiveBlock(b) ==
    /\ pc = "run" /\ b \notin known /\ Parent[b] \in known
    /\ known' = known \cup {b}
    /\ UNCHANGED <<pc, stored, tip, coins, db, durable, crashes, failures>>

\* What ConnectBlock finds: all inputs are there, and no output is where BIP30 is
\* enforced.
Connectable(m, b) ==
    /\ \A o \in Spends[b] \ Creates[b] : m[o] # Spent
    /\ b \notin Legacy => \A o \in Creates[b] : m[o] = Spent

\* MUTANT of Clean: no is_bip30_exception.
CleanStrict(m, b) ==
    /\ \A o \in Spends[b] : m[o] = Spent
    /\ \A o \in Creates[b] \ Spends[b] : m[o] = Coin[b][o]

\* DISCONNECT_OK: the inputs are not there, and the outputs are as they were
\* created, or is_bip30_exception excuses them.
Clean(m, b) ==
    /\ \A o \in Spends[b] : m[o] = Spent
    /\ \A o \in Creates[b] \ Spends[b] :
          m[o] = Coin[b][o] \/ (b \in Legacy /\ o \in Coinbases)

ConnectTip(b) ==
    /\ pc = "run" /\ b \in known /\ Parent[b] = tip /\ Connectable(coins, b)
    /\ tip' = b /\ coins' = Connected(coins, b)
    /\ UNCHANGED <<pc, known, stored, db, durable, crashes, failures>>

\* A block that is not clean stays: AbortNode, "Failed to disconnect block".
DisconnectTip ==
    /\ pc = "run" /\ tip # Genesis /\ Clean(coins, tip)
    /\ tip' = Parent[tip] /\ coins' = Disconnected(coins, tip)
    /\ UNCHANGED <<pc, known, stored, db, durable, crashes, failures>>

\* FlushBlockFile, whose fsyncs are taken to succeed (it reports a failure to
\* AbortNode only, and FlushStateToDisk goes on) and to cover the undo data, and
\* WriteBlockIndexDB, which writes with sync.
IndexWritten == known

\* FlushStateToDisk up to the coins: it stops there (a periodic write), goes on
\* to flush them, or finds no disk space, before or after writing the index.  Then
\* AbortNode requests a shutdown, and until it comes the node runs on.
FlushStateToDisk ==
    /\ pc = "run"
    /\ \/ stored' = IndexWritten /\ pc' \in {"run", "flush"}
       \/ stored' = stored /\ pc' = "run"
    /\ UNCHANGED <<known, tip, coins, db, durable, crashes, failures>>

\* Shutdown flushes once more, also after AbortNode; failing that it just exits.
Shutdown ==
    /\ pc = "run"
    /\ \/ stored' = IndexWritten /\ pc' = "shutdown" /\ UNCHANGED <<known, tip, coins>>
       \/ Off(stored) \/ Off(known)
    /\ UNCHANGED <<db, durable, crashes, failures>>

-----------------------------------------------------------------------------
(* CCoinsViewDB::BatchWrite.                                               *)

Flushing == pc \in {"flush", "shutdown", "replayed"}

\* The outpoints whose entries are still to be written.
Unwritten == {o \in Outpoints : coins[o] # db.coins[o]}

Written(S) == [o \in Outpoints |-> IF o \in S THEN coins[o] ELSE db.coins[o]]

\* MUTANT of OldTip: an interrupted transition is forgotten.
OldTipBest == db.best

OldTip == IF db.best = Null THEN db.from ELSE db.best

\* assert(old_heads[0] == hashBlock)
HeadsAgree == db.to # Null => db.to = tip

\* A batch that is full is written and the loop goes on.
PartialBatch ==
    /\ Flushing /\ HeadsAgree
    /\ \E S \in SUBSET Unwritten : db' = Db(Written(S), Null, tip, OldTip)
    /\ UNCHANGED <<pc, known, stored, tip, coins, durable, crashes, failures>>

\* The last batch.  ReplayBlocks is followed by LoadChainTip.
FinalBatch ==
    /\ Flushing /\ HeadsAgree
    /\ db' = Db(coins, tip, Null, Null)
    /\ IF pc = "shutdown" THEN Off(stored)
       ELSE pc' = "run" /\ UNCHANGED <<known, stored, tip, coins>>
    /\ UNCHANGED <<durable, crashes, failures>>

\* The assertion fails and ends the process.
AssertionFails ==
    /\ Flushing /\ ~HeadsAgree
    /\ Off(stored)
    /\ UNCHANGED <<db, durable, crashes, failures>>

\* WriteBatch throws; the entries of the batch have been erased from the cache
\* already.  ReplayBlocks does not catch it, FlushStateToDisk calls AbortNode.
WriteFails ==
    /\ Flushing /\ HeadsAgree /\ failures < MaxFailures
    /\ failures' = failures + 1
    /\ \E S \in SUBSET Unwritten :
          IF pc = "replayed" THEN Off(stored)
          ELSE /\ pc' = "run"
               /\ coins' = [o \in Outpoints |-> IF o \in S THEN db.coins[o] ELSE coins[o]]
               /\ UNCHANGED <<known, stored, tip>>
    /\ UNCHANGED <<db, durable, crashes>>

\* The database's log reaches the disk, up to some batch.
Sync ==
    /\ durable # db /\ durable' = db
    /\ UNCHANGED <<pc, known, stored, tip, coins, db, crashes, failures>>

Crash ==
    /\ crashes < MaxCrashes
    /\ crashes' = crashes + 1
    /\ db' = durable
    /\ Off(stored)
    /\ UNCHANGED <<durable, failures>>

-----------------------------------------------------------------------------
(* LoadChainstate: ReplayBlocks, then LoadChainTip.                        *)

\* No transition is in progress.  An empty database starts at the genesis block.
LoadChainTip ==
    /\ pc = "off" /\ db.to = Null
    /\ \/ db.best = Null /\ pc' = "run" /\ tip' = Genesis
       \/ db.best # Null /\ db.best \in known /\ pc' = "run" /\ tip' = db.best
       \/ db.best # Null /\ db.best \notin known /\ pc' = "failed" /\ UNCHANGED tip
    /\ coins' = db.coins
    /\ UNCHANGED <<known, stored, db, durable, crashes, failures>>

ReplayBlocks ==
    /\ pc = "off" /\ db.to # Null
    /\ IF db.to \notin known \/ db.from \notin known \cup {Null}
       THEN pc' = "failed" /\ UNCHANGED <<tip, coins>>
       ELSE /\ pc' = "replay" /\ coins' = db.coins
            /\ tip' = IF db.from = Null THEN Genesis ELSE db.from
    /\ UNCHANGED <<known, stored, db, durable, crashes, failures>>


\* Down the old branch to the fork.
RollbackBlock ==
    /\ pc = "replay" /\ tip \notin Ancestors[db.to]
    /\ IF tip \in known
       THEN coins' = Disconnected(coins, tip) /\ tip' = Parent[tip] /\ UNCHANGED pc
       ELSE pc' = "failed" /\ UNCHANGED <<coins, tip>>
    /\ UNCHANGED <<known, stored, db, durable, crashes, failures>>

\* Up the new branch.
RollforwardBlock ==
    /\ pc = "replay" /\ tip \in Ancestors[db.to] \ {db.to}
    /\ \E b \in Ancestors[db.to] :
          /\ Parent[b] = tip
          /\ IF b \in known
             THEN coins' = Connected(coins, b) /\ tip' = b /\ UNCHANGED pc
             ELSE pc' = "failed" /\ UNCHANGED <<coins, tip>>
    /\ UNCHANGED <<known, stored, db, durable, crashes, failures>>

\* MUTANT of Replayed: the fork is taken for the new tip.
ReplayedAtFork ==
    /\ pc = "replay" /\ tip \in Ancestors[db.to]
    /\ pc' = "replayed"
    /\ UNCHANGED <<known, stored, tip, coins, db, durable, crashes, failures>>

\* cache.SetBestBlock and cache.Flush.
Replayed ==
    /\ pc = "replay" /\ tip = db.to
    /\ pc' = "replayed"
    /\ UNCHANGED <<known, stored, tip, coins, db, durable, crashes, failures>>

Start == LoadChainTip \/ ReplayBlocks \/ RollbackBlock \/ RollforwardBlock \/ Replayed

Next ==
    \/ \E b \in Blocks : ReceiveBlock(b) \/ ConnectTip(b)
    \/ DisconnectTip \/ FlushStateToDisk \/ Shutdown
    \/ PartialBatch \/ FinalBatch \/ AssertionFails \/ WriteFails \/ Sync \/ Crash
    \/ Start

Spec == Init /\ [][Next]_vars

\* The node is started again, and a process that is starting or flushing goes on.
Fairness == WF_vars(Start) /\ WF_vars(FinalBatch \/ AssertionFails)
FairSpec == Spec /\ Fairness

-----------------------------------------------------------------------------
Map == [Outpoints -> Coins \cup {Spent}]
DbType == [coins : Map, best : Blocks \cup {Null}, to : Blocks \cup {Null}, from : Blocks \cup {Null}]

\* Every variable has its type.
TypeOK ==
    /\ pc \in {"off", "replay", "replayed", "run", "flush", "shutdown", "failed"}
    /\ known \subseteq Blocks /\ stored \subseteq known
    /\ tip \in Blocks /\ coins \in Map
    /\ db \in DbType /\ durable \in DbType
    /\ crashes \in 0..MaxCrashes /\ failures \in 0..MaxFailures

\* A coin of block t that is lost: one of the blocks S has a coinbase that repeats
\* it, and the coin is the one that was there before that block.
Lost(o, t, S) == \E y \in S \ {Genesis} : o \in Repeats(y) /\ o \notin TouchedBetween(Parent[y], t)

HasCoin(m, o, t, S) == m[o] = Utxo[t][o] \/ (m[o] = Spent /\ Lost(o, t, S))

\* m holds the coins of block t, except lost ones, and no others.
CoinsOf(m, t, S) == \A o \in Outpoints : HasCoin(m, o, t, S)

\* "Mark the database as consistent with hashBlock again": as long as no write
\* fails, DB_BEST_BLOCK tells the truth about the coins, in the database and in
\* what a power failure would leave of it, whenever the node crashed before, also
\* during a replay.  All that may be missing is a coin that a stored block's
\* coinbase repeated.
BestIsConsistent ==
    failures = 0 =>
        \A d \in {db, durable} : d.best # Null => CoinsOf(d.coins, d.best, stored)

Settled == pc \in {"run", "flush", "shutdown", "replayed"}

\* As long as no write fails, the node runs, or resumes after a replay, with the
\* coins of its tip: it has none that the chain does not have, and lacks none but
\* those that DisconnectBlock could not give back, of a repeated coinbase.
TipIsConsistent == failures = 0 /\ Settled => CoinsOf(coins, tip, known)

\* Where no block is exempt from BIP30, on every network but mainnet, the coins
\* are exactly those of the tip as long as no write fails.
TipIsExact == Legacy = {} /\ failures = 0 /\ Settled => coins = Utxo[tip]

\* As long as no write fails, DisconnectBlock finds the tip clean, also when coins
\* of it were lost before: no reorganisation ends in AbortNode.
DisconnectIsClean == failures = 0 /\ pc = "run" /\ tip # Genesis => Clean(coins, tip)

\* However the flushes and crashes fall, the blocks that the coins database
\* names, and those a replay needs, are on disk: no start fails.
StartSucceeds == pc # "failed"

\* As long as no write fails, BatchWrite's assert(old_heads[0] == hashBlock) holds,
\* also when a replay was itself interrupted.
HeadsMatch == failures = 0 /\ Flushing => HeadsAgree


\* The same as BestIsConsistent after failed writes, too.
LastBatchMarksConsistent ==
    db.best # Null => CoinsOf(db.coins, db.best, stored)
=============================================================================
