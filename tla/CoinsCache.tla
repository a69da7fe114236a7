----------------------------- MODULE CoinsCache -----------------------------
(***************************************************************************)
(* CCoinsViewCache (coins.cpp): the scratch view of a block under          *)
(* (dis)connection, on top of the chainstate's coins tip, on top of the    *)
(* coins database.  Each cache holds entries with a coin and the flags     *)
(* DIRTY (must be written to the parent) and FRESH (the parent has no      *)
(* unspent coin here, so a spend may drop the entry without a trace).      *)
(*                                                                         *)
(* The properties below are what makes those flags safe: whatever order    *)
(* fetches, additions, spends, flushes, syncs and evictions come in, the   *)
(* stack behaves as three plain maps (UtxoLayers).                         *)
(***************************************************************************)

CONSTANTS
    Outpoints,  \* COutPoint
    Coins,      \* the unspent values a Coin can have
    Spent,      \* a Coin with IsSpent()
    NoEntry,    \* cacheCoins.find() == end()
    Blocks,     \* block hashes
    NullHash    \* uint256()

ASSUME SpentAssumption == Spent \notin Coins
ASSUME NullHashAssumption == NullHash \notin Blocks
ASSUME NoEntryAssumption ==
    NoEntry \notin [coin : Coins \cup {Spent}, dirty : BOOLEAN, fresh : BOOLEAN]

VARIABLES
    disk,      \* CCoinsViewDB: outpoint -> coin, Spent when it has no record
    tip,       \* cacheCoins of Chainstate::CoinsTip()
    view,      \* cacheCoins of the CCoinsViewCache ConnectTip/DisconnectTip build on it
    diskHash,  \* DB_BEST_BLOCK
    tipHash,   \* hashBlock of the tip cache, NullHash until it is read or set
    viewHash   \* hashBlock of the view

vars == <<disk, tip, view, diskHash, tipHash, viewHash>>

CoinOrSpent == Coins \cup {Spent}
Entry == [coin : CoinOrSpent, dirty : BOOLEAN, fresh : BOOLEAN]
Cache == [Outpoints -> Entry \cup {NoEntry}]
Hash == Blocks \cup {NullHash}

EmptyCache == [o \in Outpoints |-> NoEntry]

\* What GetCoin answers through a cache whose parent answers `parent'.
Overlay(cache, parent) ==
    [o \in Outpoints |-> IF cache[o] = NoEntry THEN parent[o] ELSE cache[o].coin]

TipCoins == Overlay(tip, disk)
ViewCoins == Overlay(view, TipCoins)

\* GetBestBlock: a null hashBlock is looked up in the parent.
BestBlock(hash, parentBest) == IF hash = NullHash THEN parentBest ELSE hash
TipBest == BestBlock(tipHash, diskHash)
ViewBest == BestBlock(viewHash, TipBest)

-----------------------------------------------------------------------------
(* Operations on one cache, as functions of the cache and its parent.      *)

\* An unmodified copy of an unspent coin of the parent is cached; a coin the
\* parent does not have is not.
FetchCoin(cache, parent, o) ==
    IF cache[o] # NoEntry \/ parent[o] = Spent
    THEN cache
    ELSE [cache EXCEPT ![o] = [coin |-> parent[o], dirty |-> FALSE, fresh |-> FALSE]]

\* The entry an emplace finds or creates.
Emplaced(cache, o) ==
    IF cache[o] = NoEntry
    THEN [coin |-> Spent, dirty |-> FALSE, fresh |-> FALSE]
    ELSE cache[o]

\* Under the contract that ViewAddCoin states, AddCoin does not throw.
AddCoin(cache, o, c, possible_overwrite) ==
    LET e == Emplaced(cache, o)
    IN  [cache EXCEPT ![o] =
            [coin |-> c, dirty |-> TRUE,
             fresh |-> e.fresh \/ (~possible_overwrite /\ ~e.dirty)]]

\* A FRESH entry disappears, any other stays as a spent one to be flushed.
SpendCoin(cache, parent, o) ==
    LET fetched == FetchCoin(cache, parent, o)
    IN  CASE fetched[o] = NoEntry -> fetched
          [] fetched[o] # NoEntry /\ fetched[o].fresh -> [fetched EXCEPT ![o] = NoEntry]
          [] OTHER -> [fetched EXCEPT ![o] = [coin |-> Spent, dirty |-> TRUE, fresh |-> FALSE]]

\* MUTANT of MergeEntry: the child's FRESH is copied over an existing entry.
MergeEntryCopiesFresh(e, us) ==
    IF e = NoEntry \/ ~e.dirty THEN us
    ELSE IF us # NoEntry /\ us.fresh /\ e.coin = Spent THEN NoEntry
    ELSE [coin |-> e.coin, dirty |-> TRUE, fresh |-> e.fresh]

\* BatchWrite of one child entry e into the parent's entry us.  It throws where e
\* is FRESH and us unspent, which FreshIsTruthful excludes.
MergeEntry(e, us) ==
    IF e = NoEntry \/ ~e.dirty THEN us
    ELSE IF us = NoEntry
         THEN IF e.fresh /\ e.coin = Spent THEN NoEntry
              ELSE [coin |-> e.coin, dirty |-> TRUE, fresh |-> e.fresh]
         ELSE IF us.fresh /\ e.coin = Spent THEN NoEntry
              ELSE [coin |-> e.coin, dirty |-> TRUE, fresh |-> us.fresh]

BatchWrite(child, cache) == [o \in Outpoints |-> MergeEntry(child[o], cache[o])]

\* CCoinsViewDB::BatchWrite, taken here as one atomic write.
DbBatchWrite(child, db) ==
    [o \in Outpoints |-> IF child[o] # NoEntry /\ child[o].dirty THEN child[o].coin ELSE db[o]]

\* What Sync leaves in the cache: unspent coins, all of them clean.
Synced(cache) ==
    [o \in Outpoints |->
        IF cache[o] = NoEntry \/ cache[o].coin = Spent THEN NoEntry
        ELSE [coin |-> cache[o].coin, dirty |-> FALSE, fresh |-> FALSE]]

-----------------------------------------------------------------------------
Init ==
    /\ disk = [o \in Outpoints |-> Spent] /\ tip = EmptyCache /\ view = EmptyCache
    /\ diskHash = NullHash /\ tipHash = NullHash /\ viewHash = NullHash

\* GetCoin, AccessCoin, HaveCoin, HaveInputs on the view: a miss is looked up
\* in the tip by the same rule, so both caches may gain an entry.
ViewFetch(o) ==
    /\ tip' = IF view[o] = NoEntry THEN FetchCoin(tip, disk, o) ELSE tip
    /\ view' = FetchCoin(view, TipCoins, o)
    /\ UNCHANGED <<disk, diskHash, tipHash, viewHash>>

\* The same on the tip (mempool and RPC lookups).
TipFetch(o) ==
    /\ tip' = FetchCoin(tip, disk, o)
    /\ UNCHANGED <<disk, view, diskHash, tipHash, viewHash>>

\* AddCoin's contract (coins.h): possible_overwrite is set if an unspent coin may
\* be there.  ApplyTxInUndo asks HaveCoin, AddCoins sets it for every coinbase.
\* For other outputs AddCoins relies on their transaction not being repeated while
\* they are unspent: BIP30 where it is enforced, and nothing but the history of
\* the chain on mainnet below BIP34Height.
ViewAddCoin(o, c, possible_overwrite) ==
    /\ possible_overwrite \/ ViewCoins[o] = Spent
    /\ view' = AddCoin(view, o, c, possible_overwrite)
    /\ UNCHANGED <<disk, tip, diskHash, tipHash, viewHash>>

ViewSpendCoin(o) ==
    /\ tip' = IF view[o] = NoEntry THEN FetchCoin(tip, disk, o) ELSE tip
    /\ view' = SpendCoin(view, TipCoins, o)
    /\ UNCHANGED <<disk, diskHash, tipHash, viewHash>>

ViewSetBestBlock(b) ==
    /\ viewHash' = b
    /\ UNCHANGED <<disk, tip, view, diskHash, tipHash>>

\* ConnectBlock and DisconnectBlock compare GetBestBlock() with the block they
\* work on, which caches the parent's answer in both hashBlocks.
ViewGetBestBlock ==
    /\ tipHash' = TipBest /\ viewHash' = ViewBest
    /\ UNCHANGED <<disk, tip, view, diskHash>>

\* view.Flush() at the end of ConnectTip/DisconnectTip, which both have set
\* the view's best block by then.
ViewFlush ==
    /\ viewHash # NullHash
    /\ tip' = BatchWrite(view, tip) /\ tipHash' = viewHash
    /\ view' = EmptyCache
    /\ UNCHANGED <<disk, diskHash, viewHash>>

\* view.Sync() keeps the unspent entries.
ViewSync ==
    /\ viewHash # NullHash
    /\ tip' = BatchWrite(view, tip) /\ tipHash' = viewHash
    /\ view' = Synced(view)
    /\ UNCHANGED <<disk, diskHash, viewHash>>

\* The view goes out of scope unflushed (ConnectBlock failed), and the next
\* one starts empty.
ViewDestroy ==
    /\ view' = EmptyCache /\ viewHash' = NullHash
    /\ UNCHANGED <<disk, tip, diskHash, tipHash>>

\* MUTANT of Uncache: modified entries are evicted too.
UncacheDirty(o) ==
    /\ tip' = [tip EXCEPT ![o] = NoEntry]
    /\ UNCHANGED <<disk, view, diskHash, tipHash, viewHash>>

\* Uncache drops an entry without flags only.
Uncache(o) ==
    /\ tip[o] # NoEntry /\ ~tip[o].dirty /\ ~tip[o].fresh
    /\ tip' = [tip EXCEPT ![o] = NoEntry]
    /\ UNCHANGED <<disk, view, diskHash, tipHash, viewHash>>

\* FlushStateToDisk flushes the tip when GetBestBlock() is not null (reading
\* it also caches it).
TipFlush ==
    /\ TipBest # NullHash
    /\ disk' = DbBatchWrite(tip, disk) /\ diskHash' = TipBest
    /\ tip' = EmptyCache /\ tipHash' = TipBest
    /\ UNCHANGED <<view, viewHash>>

TipSync ==
    /\ TipBest # NullHash
    /\ disk' = DbBatchWrite(tip, disk) /\ diskHash' = TipBest
    /\ tip' = Synced(tip) /\ tipHash' = TipBest
    /\ UNCHANGED <<view, viewHash>>

\* EmplaceCoinInternalDANGER, while a snapshot is loaded and no view exists:
\* an outpoint already cached keeps its entry.
TipEmplaceCoin(o, c) ==
    /\ view = EmptyCache
    /\ tip' = IF tip[o] # NoEntry THEN tip
              ELSE [tip EXCEPT ![o] = [coin |-> c, dirty |-> TRUE, fresh |-> FALSE]]
    /\ UNCHANGED <<disk, view, diskHash, tipHash, viewHash>>

TipSetBestBlock(b) ==
    /\ viewHash = NullHash
    /\ tipHash' = b
    /\ UNCHANGED <<disk, tip, view, diskHash, viewHash>>

Next ==
    \/ \E o \in Outpoints :
          \/ ViewFetch(o) \/ TipFetch(o) \/ ViewSpendCoin(o) \/ Uncache(o)
          \/ \E c \in Coins :
                \/ \E possible_overwrite \in BOOLEAN : ViewAddCoin(o, c, possible_overwrite)
                \/ TipEmplaceCoin(o, c)
    \/ \E b \in Blocks : ViewSetBestBlock(b) \/ TipSetBestBlock(b)
    \/ ViewGetBestBlock \/ ViewFlush \/ ViewSync \/ ViewDestroy
    \/ TipFlush \/ TipSync

Spec == Init /\ [][Next]_vars

-----------------------------------------------------------------------------
\* Type correctness of the three layers.
TypeOK ==
    /\ disk \in [Outpoints -> CoinOrSpent] /\ tip \in Cache /\ view \in Cache
    /\ diskHash \in Hash /\ tipHash \in Hash /\ viewHash \in Hash

\* Only the flag combinations coins.h lists occur (the first part of
\* CCoinsViewCache::SanityCheck).
EntryOK(e) ==
    e # NoEntry =>
        /\ ~(e.fresh /\ ~e.dirty /\ e.coin # Spent)
        /\ ~(~e.fresh /\ ~e.dirty /\ e.coin = Spent)
        /\ ~(e.fresh /\ e.dirty /\ e.coin = Spent)

\* What the flags of an entry claim about the parent.
EntryTruthful(e, parentCoin) ==
    e # NoEntry =>
        /\ e.fresh => parentCoin = Spent
        /\ ~e.dirty => e.coin = parentCoin

LayerOK(cache, parent) ==
    \A o \in Outpoints : EntryOK(cache[o]) /\ EntryTruthful(cache[o], parent[o])

\* SanityCheck's assertion on flags holds in both caches at every moment.
SanityCheck == \A o \in Outpoints : EntryOK(tip[o]) /\ EntryOK(view[o])

\* A FRESH entry never hides an unspent coin of the layer below: coins.h warns
\* that one would survive its own spending when the cache is flushed.
\* BatchWrite's "FRESH flag misapplied" is thrown for such an entry.
FreshIsTruthful ==
    \A o \in Outpoints :
        /\ tip[o] # NoEntry /\ tip[o].fresh => disk[o] = Spent
        /\ view[o] # NoEntry /\ view[o].fresh => TipCoins[o] = Spent

\* An entry that Flush would skip, or Uncache would drop, says the same as the
\* layer below, so neither loses a change.
CleanIsRedundant ==
    \A o \in Outpoints :
        /\ tip[o] # NoEntry /\ ~tip[o].dirty => tip[o].coin = disk[o]
        /\ view[o] # NoEntry /\ ~view[o].dirty => view[o].coin = TipCoins[o]

\* The flags of both caches are truthful at every moment: the combinations that
\* SanityCheck admits, no FRESH entry over an unspent coin, no clean entry that
\* differs from the layer below.  This is inductive, and the refinement rests
\* on it.
Inv == TypeOK /\ LayerOK(tip, disk) /\ LayerOK(view, TipCoins)

Layers == INSTANCE UtxoLayers WITH
    diskMap <- disk, tipMap <- TipCoins, viewMap <- ViewCoins,
    diskBest <- diskHash, tipBest <- TipBest, viewBest <- ViewBest

\* The cache stack implements three plain maps: a fetch, an eviction or a
\* sync changes nothing a reader sees, a flush moves exactly the child's map.
ImplementsLayers == Layers!Spec
=============================================================================
