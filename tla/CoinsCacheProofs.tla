-------------------------- MODULE CoinsCacheProofs --------------------------
(***************************************************************************)
(* The invariant Inv of CoinsCache is inductive for every set of           *)
(* outpoints, coins and blocks, and with it every step of the cache stack  *)
(* is a step (or a stutter) of the three plain maps of UtxoLayers.         *)
(***************************************************************************)
EXTENDS CoinsCache, TLAPS

\* Any coin with any flags is an entry, and no entry is NoEntry.
LEMMA EntryLemma ==
    ASSUME NEW c \in CoinOrSpent, NEW d \in BOOLEAN, NEW f \in BOOLEAN
    PROVE  /\ [coin |-> c, dirty |-> d, fresh |-> f] \in Entry
           /\ [coin |-> c, dirty |-> d, fresh |-> f] # NoEntry
BY NoEntryAssumption DEF Entry, CoinOrSpent

\* GetCoin through a well-typed cache yields a well-typed map.
LEMMA OverlayType ==
    ASSUME NEW cache \in Cache, NEW parent \in [Outpoints -> CoinOrSpent]
    PROVE  Overlay(cache, parent) \in [Outpoints -> CoinOrSpent]
BY NoEntryAssumption DEF Overlay, Cache, Entry, CoinOrSpent

\* FetchCoin keeps a cache well-formed and is invisible through it.
LEMMA FetchLemma ==
    ASSUME NEW cache \in Cache, NEW parent \in [Outpoints -> CoinOrSpent],
           NEW o \in Outpoints, LayerOK(cache, parent)
    PROVE  /\ FetchCoin(cache, parent, o) \in Cache
           /\ LayerOK(FetchCoin(cache, parent, o), parent)
           /\ Overlay(FetchCoin(cache, parent, o), parent) = Overlay(cache, parent)
BY NoEntryAssumption
DEF FetchCoin, LayerOK, EntryOK, EntryTruthful, Overlay, Cache, Entry, CoinOrSpent

\* SpendCoin keeps a cache well-formed and makes exactly o spent through it.
LEMMA SpendLemma ==
    ASSUME NEW cache \in Cache, NEW parent \in [Outpoints -> CoinOrSpent],
           NEW o \in Outpoints, LayerOK(cache, parent)
    PROVE  /\ SpendCoin(cache, parent, o) \in Cache
           /\ LayerOK(SpendCoin(cache, parent, o), parent)
           /\ Overlay(SpendCoin(cache, parent, o), parent)
                = [Overlay(cache, parent) EXCEPT ![o] = Spent]
<1> DEFINE f == FetchCoin(cache, parent, o)
<1>1. f \in Cache /\ LayerOK(f, parent) /\ Overlay(f, parent) = Overlay(cache, parent)
  BY FetchLemma
<1> HIDE DEF f
<1>2. CASE f[o] = NoEntry
  <2>1. SpendCoin(cache, parent, o) = f
    BY <1>2 DEF SpendCoin, f
  <2>2. parent[o] = Spent
    <3>1. [coin |-> parent[o], dirty |-> FALSE, fresh |-> FALSE] # NoEntry
      BY Zenon, EntryLemma
    <3> QED BY <1>2, <3>1 DEF f, FetchCoin, Cache
  <2> QED BY Zenon, <1>1, <1>2, <2>1, <2>2 DEF Overlay
<1>3. CASE f[o] # NoEntry /\ f[o].fresh
  <2>1. SpendCoin(cache, parent, o) = [f EXCEPT ![o] = NoEntry]
    BY <1>3 DEF SpendCoin, f
  <2>2. [f EXCEPT ![o] = NoEntry] \in Cache
    BY <1>1 DEF Cache
  <2>3. LayerOK([f EXCEPT ![o] = NoEntry], parent)
    BY Zenon, <1>1 DEF LayerOK, EntryOK, EntryTruthful, Cache
  <2>4. parent[o] = Spent
    BY <1>1, <1>3 DEF LayerOK, EntryTruthful
  <2>5. Overlay([f EXCEPT ![o] = NoEntry], parent) = [Overlay(f, parent) EXCEPT ![o] = Spent]
    BY Zenon, <1>1, <2>4 DEF Overlay, Cache
  <2> QED BY <1>1, <2>1, <2>2, <2>3, <2>5
<1>4. CASE f[o] # NoEntry /\ ~f[o].fresh
  <2> DEFINE e == [coin |-> Spent, dirty |-> TRUE, fresh |-> FALSE]
  <2>1. SpendCoin(cache, parent, o) = [f EXCEPT ![o] = e]
    BY <1>4 DEF SpendCoin, f
  <2>2. e \in Entry /\ e # NoEntry
    BY Zenon, EntryLemma DEF CoinOrSpent
  <2>3. e.coin = Spent /\ e.dirty /\ ~e.fresh
    OBVIOUS
  <2> HIDE DEF e
  <2>4. [f EXCEPT ![o] = e] \in Cache
    BY <1>1, <2>2 DEF Cache
  <2>5. LayerOK([f EXCEPT ![o] = e], parent)
    BY Zenon, <1>1, <2>3 DEF LayerOK, EntryOK, EntryTruthful, Cache
  <2>6. Overlay([f EXCEPT ![o] = e], parent) = [Overlay(f, parent) EXCEPT ![o] = Spent]
    BY Zenon, <1>1, <2>2, <2>3 DEF Overlay, Cache
  <2> QED BY <1>1, <2>1, <2>4, <2>5, <2>6
<1> QED BY <1>2, <1>3, <1>4

\* AddCoin, called as its contract asks, keeps a cache well-formed and makes
\* exactly o unspent with the new coin.
LEMMA AddLemma ==
    ASSUME NEW cache \in Cache, NEW parent \in [Outpoints -> CoinOrSpent],
           NEW o \in Outpoints, NEW c \in Coins, NEW overwrite \in BOOLEAN,
           LayerOK(cache, parent),
           overwrite \/ Overlay(cache, parent)[o] = Spent
    PROVE  /\ AddCoin(cache, o, c, overwrite) \in Cache
           /\ LayerOK(AddCoin(cache, o, c, overwrite), parent)
           /\ Overlay(AddCoin(cache, o, c, overwrite), parent)
                = [Overlay(cache, parent) EXCEPT ![o] = c]
<1> DEFINE old == Emplaced(cache, o)
           e == [coin |-> c, dirty |-> TRUE,
                 fresh |-> old.fresh \/ (~overwrite /\ ~old.dirty)]
<1>1. old \in Entry
  BY Zenon, EntryLemma DEF Emplaced, Cache, CoinOrSpent
<1>2. /\ old.fresh => parent[o] = Spent
      /\ ~old.dirty => old.coin = parent[o] \/ cache[o] = NoEntry
      /\ cache[o] # NoEntry => old = cache[o]
      /\ cache[o] = NoEntry => ~old.fresh /\ ~old.dirty
  BY DEF Emplaced, LayerOK, EntryTruthful
<1>3. AddCoin(cache, o, c, overwrite) = [cache EXCEPT ![o] = e]
  BY DEF AddCoin
<1>4. e.fresh \in BOOLEAN
  BY <1>1 DEF Entry
<1>5. e \in Entry /\ e # NoEntry
  BY Zenon, <1>4, EntryLemma DEF CoinOrSpent
<1>6. e.coin = c /\ e.dirty /\ c # Spent
  BY SpentAssumption
<1>7. e.fresh => parent[o] = Spent
  <2>1. CASE old.fresh
    BY <2>1, <1>2
  <2>2. CASE ~overwrite /\ ~old.dirty
    BY <2>2, <1>2 DEF Overlay
  <2> QED BY Zenon, <2>1, <2>2
<1> HIDE DEF e, old
<1>8. [cache EXCEPT ![o] = e] \in Cache
  BY <1>5 DEF Cache
<1>9. LayerOK([cache EXCEPT ![o] = e], parent)
  BY Zenon, <1>6, <1>7 DEF LayerOK, EntryOK, EntryTruthful, Cache
<1>10. Overlay([cache EXCEPT ![o] = e], parent) = [Overlay(cache, parent) EXCEPT ![o] = c]
  BY Zenon, <1>5, <1>6 DEF Overlay, Cache
<1> QED BY <1>3, <1>8, <1>9, <1>10

\* Writing a child's entries into its parent cache moves the child's map up:
\* the parent stays well-formed over the grandparent and answers as the child.
LEMMA BatchWriteLemma ==
    ASSUME NEW child \in Cache, NEW cache \in Cache,
           NEW parent \in [Outpoints -> CoinOrSpent],
           LayerOK(cache, parent), LayerOK(child, Overlay(cache, parent))
    PROVE  /\ BatchWrite(child, cache) \in Cache
           /\ LayerOK(BatchWrite(child, cache), parent)
           /\ Overlay(BatchWrite(child, cache), parent) = Overlay(child, Overlay(cache, parent))
<1> DEFINE merged(o) == MergeEntry(child[o], cache[o])
<1>1. ASSUME NEW o \in Outpoints
      PROVE  /\ merged(o) \in Entry \cup {NoEntry}
             /\ EntryOK(merged(o)) /\ EntryTruthful(merged(o), parent[o])
             /\ (IF merged(o) = NoEntry THEN parent[o] ELSE merged(o).coin)
                  = Overlay(child, Overlay(cache, parent))[o]
  <2> DEFINE e == child[o]  us == cache[o]  below == Overlay(cache, parent)[o]
  <2>1. e \in Entry \cup {NoEntry} /\ us \in Entry \cup {NoEntry}
    BY DEF Cache
  <2>2. EntryOK(e) /\ EntryTruthful(e, below) /\ EntryOK(us) /\ EntryTruthful(us, parent[o])
    BY DEF LayerOK
  <2>3. below = (IF us = NoEntry THEN parent[o] ELSE us.coin)
    BY DEF Overlay
  <2>4. Overlay(child, Overlay(cache, parent))[o] = (IF e = NoEntry THEN below ELSE e.coin)
    BY DEF Overlay
  <2> HIDE DEF e, us, below
  <2>5. CASE e = NoEntry \/ ~e.dirty
    <3>1. merged(o) = us
      BY <2>5 DEF MergeEntry, e, us
    <3>2. e # NoEntry => e.coin = below
      BY <2>2, <2>5 DEF EntryTruthful
    <3> QED BY <2>1, <2>2, <2>3, <2>4, <3>1, <3>2
  <2>6. CASE e # NoEntry /\ e.dirty /\ us = NoEntry
    <3>1. ~(e.fresh /\ e.coin = Spent)
      BY <2>2, <2>6 DEF EntryOK
    <3> DEFINE m == [coin |-> e.coin, dirty |-> TRUE, fresh |-> e.fresh]
    <3>2. merged(o) = m
      BY <2>6, <3>1 DEF MergeEntry, e, us
    <3>3. e.coin \in CoinOrSpent /\ e.fresh \in BOOLEAN
      BY <2>1, <2>6 DEF Entry
    <3>4. m \in Entry /\ m # NoEntry
      BY Zenon, <3>3, EntryLemma
    <3>5. m.coin = e.coin /\ m.dirty /\ m.fresh = e.fresh
      OBVIOUS
    <3> HIDE DEF m
    <3>6. EntryOK(m) /\ EntryTruthful(m, parent[o])
      BY <2>2, <2>3, <2>6, <3>1, <3>5 DEF EntryOK, EntryTruthful
    <3> QED BY <2>4, <2>6, <3>2, <3>4, <3>5, <3>6
  <2>7. CASE e # NoEntry /\ e.dirty /\ us # NoEntry /\ us.fresh /\ e.coin = Spent
    <3>1. merged(o) = NoEntry
      BY <2>7 DEF MergeEntry, e, us
    <3>2. parent[o] = Spent
      BY <2>2, <2>7 DEF EntryTruthful
    <3> QED BY <2>4, <2>7, <3>1, <3>2 DEF EntryOK, EntryTruthful
  <2>8. CASE e # NoEntry /\ e.dirty /\ us # NoEntry /\ ~(us.fresh /\ e.coin = Spent)
    <3> DEFINE m == [coin |-> e.coin, dirty |-> TRUE, fresh |-> us.fresh]
    <3>1. us \in Entry /\ e \in Entry
      BY <2>1, <2>8
    <3>3. merged(o) = m
      BY <2>8 DEF MergeEntry, e, us
    <3>4. e.coin \in CoinOrSpent /\ us.fresh \in BOOLEAN
      BY <3>1 DEF Entry
    <3>5. m \in Entry /\ m # NoEntry
      BY Zenon, <3>4, EntryLemma
    <3>6. m.coin = e.coin /\ m.dirty /\ m.fresh = us.fresh
      OBVIOUS
    <3> HIDE DEF m
    <3>7. EntryOK(m) /\ EntryTruthful(m, parent[o])
      BY <2>2, <2>8, <3>6 DEF EntryOK, EntryTruthful
    <3> QED BY <2>4, <2>8, <3>3, <3>5, <3>6, <3>7
  <2> QED BY <2>1, <2>5, <2>6, <2>7, <2>8 DEF Entry
<1> HIDE DEF merged
<1>2. BatchWrite(child, cache) = [o \in Outpoints |-> merged(o)]
  BY DEF BatchWrite, merged
<1>3. BatchWrite(child, cache) \in Cache
  BY <1>1, <1>2 DEF Cache
<1>4. LayerOK(BatchWrite(child, cache), parent)
  BY Zenon, <1>1, <1>2 DEF LayerOK
<1>5. Overlay(BatchWrite(child, cache), parent)
        = [o \in Outpoints |-> Overlay(child, Overlay(cache, parent))[o]]
  BY <1>1, <1>2 DEF Overlay
<1> QED BY <1>3, <1>4, <1>5 DEF Overlay

\* Writing a cache to the database makes the database answer as the cache did.
LEMMA DbBatchWriteLemma ==
    ASSUME NEW cache \in Cache, NEW db \in [Outpoints -> CoinOrSpent], LayerOK(cache, db)
    PROVE  DbBatchWrite(cache, db) = Overlay(cache, db)
BY DEF DbBatchWrite, Overlay, LayerOK, EntryTruthful

\* A cache that was written out and then synced is well-formed over what it
\* was written to, and answers as before.
LEMMA SyncLemma ==
    ASSUME NEW cache \in Cache, NEW parent \in [Outpoints -> CoinOrSpent]
    PROVE  LET now == Overlay(cache, parent)
           IN  /\ Synced(cache) \in Cache
               /\ LayerOK(Synced(cache), now)
               /\ Overlay(Synced(cache), now) = now
<1> DEFINE now == Overlay(cache, parent)
           s(o) == Synced(cache)[o]
<1>1. ASSUME NEW o \in Outpoints
      PROVE  /\ s(o) \in Entry \cup {NoEntry}
             /\ EntryOK(s(o)) /\ EntryTruthful(s(o), now[o])
             /\ s(o) # NoEntry => s(o).coin = now[o]
  <2>1. CASE cache[o] = NoEntry \/ cache[o].coin = Spent
    BY <2>1 DEF Synced, EntryOK, EntryTruthful
  <2>2. CASE cache[o] # NoEntry /\ cache[o].coin # Spent
    <3>1. cache[o].coin \in CoinOrSpent /\ now[o] = cache[o].coin
      BY <2>2 DEF Cache, Entry, Overlay
    <3> DEFINE m == [coin |-> cache[o].coin, dirty |-> FALSE, fresh |-> FALSE]
    <3>2. s(o) = m
      BY <2>2 DEF Synced
    <3>3. m \in Entry /\ m # NoEntry
      BY Zenon, <3>1, EntryLemma
    <3>4. m.coin = cache[o].coin /\ ~m.dirty /\ ~m.fresh
      OBVIOUS
    <3> HIDE DEF m
    <3> QED BY <2>2, <3>1, <3>2, <3>3, <3>4 DEF EntryOK, EntryTruthful
  <2> QED BY <2>1, <2>2
<1>2. Synced(cache) = [o \in Outpoints |-> s(o)]
  BY DEF Synced
<1>3. now = [o \in Outpoints |-> now[o]]
  BY DEF Overlay
<1> HIDE DEF s, now
<1>4. Synced(cache) \in Cache
  BY <1>1, <1>2 DEF Cache
<1>5. LayerOK(Synced(cache), now)
  BY Zenon, <1>1, <1>2 DEF LayerOK
<1>6. Overlay(Synced(cache), now) = [o \in Outpoints |-> now[o]]
  BY <1>1, <1>2 DEF Overlay
<1> QED BY <1>3, <1>4, <1>5, <1>6 DEF now

\* An empty cache is well-formed over anything and answers as its parent.
LEMMA EmptyLemma ==
    ASSUME NEW parent \in [Outpoints -> CoinOrSpent]
    PROVE  /\ EmptyCache \in Cache
           /\ LayerOK(EmptyCache, parent)
           /\ Overlay(EmptyCache, parent) = parent
BY DEF EmptyCache, Cache, LayerOK, EntryOK, EntryTruthful, Overlay

-----------------------------------------------------------------------------
\* Every step keeps Inv, and is a step of the three maps or changes none.
LEMMA StepLemma ==
    ASSUME Inv, [Next]_vars
    PROVE  Inv' /\ [Layers!Next]_(Layers!lvars)
<1> DEFINE LStep == Layers!Next \/ UNCHANGED Layers!lvars
<1>t. /\ disk \in [Outpoints -> CoinOrSpent] /\ tip \in Cache /\ view \in Cache
      /\ diskHash \in Hash /\ tipHash \in Hash /\ viewHash \in Hash
      /\ LayerOK(tip, disk) /\ LayerOK(view, TipCoins)
  BY DEF Inv, TypeOK
<1>m. TipCoins \in [Outpoints -> CoinOrSpent] /\ ViewCoins \in [Outpoints -> CoinOrSpent]
  BY <1>t, OverlayType DEF TipCoins, ViewCoins
<1>h. TipBest \in Hash /\ ViewBest \in Hash
  BY <1>t DEF TipBest, ViewBest, BestBlock
<1>f. ASSUME NEW o \in Outpoints
      PROVE  LET f == IF view[o] = NoEntry THEN FetchCoin(tip, disk, o) ELSE tip
             IN  f \in Cache /\ LayerOK(f, disk) /\ Overlay(f, disk) = TipCoins
  BY <1>t, FetchLemma DEF TipCoins
<1>1. ASSUME NEW o \in Outpoints, ViewFetch(o)
      PROVE  Inv' /\ LStep
  <2>1. /\ tip' \in Cache /\ LayerOK(tip', disk') /\ TipCoins' = TipCoins
        /\ UNCHANGED <<disk, diskHash, tipHash, viewHash>>
    BY <1>f, <1>1 DEF ViewFetch, TipCoins
  <2>2. view' \in Cache /\ LayerOK(view', TipCoins) /\ Overlay(view', TipCoins) = ViewCoins
    BY <1>t, <1>m, <1>1, FetchLemma DEF ViewFetch, ViewCoins
  <2>3. ViewCoins' = ViewCoins
    BY <2>1, <2>2 DEF ViewCoins
  <2> QED BY <1>t, <2>1, <2>2, <2>3
          DEF Inv, TypeOK, TipBest, ViewBest, BestBlock, Layers!lvars
<1>2. ASSUME NEW o \in Outpoints, TipFetch(o)
      PROVE  Inv' /\ LStep
  <2>1. /\ tip' \in Cache /\ LayerOK(tip', disk') /\ TipCoins' = TipCoins
        /\ UNCHANGED <<disk, view, diskHash, tipHash, viewHash>>
    BY <1>t, <1>2, FetchLemma DEF TipFetch, TipCoins
  <2> QED BY <1>t, <2>1 DEF Inv, TypeOK, ViewCoins, TipBest, ViewBest, BestBlock, Layers!lvars
<1>3. ASSUME NEW o \in Outpoints, ViewSpendCoin(o)
      PROVE  Inv' /\ LStep
  <2>1. /\ tip' \in Cache /\ LayerOK(tip', disk') /\ TipCoins' = TipCoins
        /\ UNCHANGED <<disk, diskHash, tipHash, viewHash>>
    BY <1>f, <1>3 DEF ViewSpendCoin, TipCoins
  <2>2. /\ view' \in Cache /\ LayerOK(view', TipCoins)
        /\ Overlay(view', TipCoins) = [ViewCoins EXCEPT ![o] = Spent]
    BY <1>t, <1>m, <1>3, SpendLemma DEF ViewSpendCoin, ViewCoins
  <2>3. ViewCoins' = [ViewCoins EXCEPT ![o] = Spent]
    BY <2>1, <2>2 DEF ViewCoins
  <2>4. TipBest' = TipBest /\ ViewBest' = ViewBest
    BY <2>1 DEF TipBest, ViewBest, BestBlock
  <2>5. Layers!Write(o, Spent)
    BY <2>1, <2>3, <2>4 DEF Layers!Write
  <2> QED BY <1>t, <2>1, <2>2, <2>5 DEF Inv, TypeOK, Layers!Next
<1>4. ASSUME NEW o \in Outpoints, Uncache(o)
      PROVE  Inv' /\ LStep
  <2>1. /\ tip' = [tip EXCEPT ![o] = NoEntry] /\ tip[o] # NoEntry /\ tip[o].coin = disk[o]
        /\ UNCHANGED <<disk, view, diskHash, tipHash, viewHash>>
    BY <1>t, <1>4 DEF Uncache, LayerOK, EntryTruthful
  <2>2. tip' \in Cache /\ LayerOK(tip', disk')
    BY <1>t, <2>1 DEF Cache, LayerOK, EntryOK, EntryTruthful
  <2>3. TipCoins' = TipCoins
    BY <1>t, <2>1 DEF TipCoins, Overlay, Cache
  <2> QED BY <1>t, <2>1, <2>2, <2>3
          DEF Inv, TypeOK, ViewCoins, TipBest, ViewBest, BestBlock, Layers!lvars
<1>5. ASSUME NEW o \in Outpoints, NEW c \in Coins, NEW ow \in BOOLEAN, ViewAddCoin(o, c, ow)
      PROVE  Inv' /\ LStep
  <2>1. UNCHANGED <<disk, tip, diskHash, tipHash, viewHash>> /\ TipCoins' = TipCoins
    BY <1>5 DEF ViewAddCoin, TipCoins
  <2>2. /\ view' \in Cache /\ LayerOK(view', TipCoins)
        /\ Overlay(view', TipCoins) = [ViewCoins EXCEPT ![o] = c]
    BY <1>t, <1>m, <1>5, AddLemma DEF ViewAddCoin, ViewCoins
  <2>3. ViewCoins' = [ViewCoins EXCEPT ![o] = c]
    BY <2>1, <2>2 DEF ViewCoins
  <2>4. TipBest' = TipBest /\ ViewBest' = ViewBest
    BY <2>1 DEF TipBest, ViewBest, BestBlock
  <2>5. Layers!Write(o, c)
    BY <2>1, <2>3, <2>4 DEF Layers!Write
  <2> QED BY <1>t, <2>1, <2>2, <2>5 DEF Inv, TypeOK, Layers!Next
<1>6. ASSUME NEW o \in Outpoints, NEW c \in Coins, TipEmplaceCoin(o, c)
      PROVE  Inv' /\ LStep
  <2>1. UNCHANGED <<disk, view, diskHash, tipHash, viewHash>> /\ view = EmptyCache
    BY <1>6 DEF TipEmplaceCoin
  <2>2. TipBest' = TipBest /\ ViewBest' = ViewBest
    BY <2>1 DEF TipBest, ViewBest, BestBlock
  <2>3. CASE tip[o] # NoEntry
    <3>1. tip' = tip
      BY <1>6, <2>3 DEF TipEmplaceCoin
    <3> QED BY <1>t, <2>1, <2>2, <3>1 DEF Inv, TypeOK, TipCoins, ViewCoins, Layers!lvars
  <2>4. CASE tip[o] = NoEntry
    <3> DEFINE e == [coin |-> c, dirty |-> TRUE, fresh |-> FALSE]
    <3>1. tip' = [tip EXCEPT ![o] = e]
      BY <1>6, <2>4 DEF TipEmplaceCoin
    <3>2. e \in Entry /\ e # NoEntry /\ e.coin = c /\ e.dirty /\ ~e.fresh
      BY Zenon, EntryLemma DEF CoinOrSpent
    <3> HIDE DEF e
    <3>3. tip' \in Cache
      BY <1>t, <3>1, <3>2 DEF Cache
    <3>4. LayerOK(tip', disk')
      BY <1>t, <2>1, <3>1, <3>2, SpentAssumption DEF LayerOK, EntryOK, EntryTruthful, Cache
    <3>5. TipCoins' = [TipCoins EXCEPT ![o] = c]
      BY <1>t, <2>1, <3>1, <3>2 DEF TipCoins, Overlay, Cache
    <3>6. TipCoins' \in [Outpoints -> CoinOrSpent]
      BY <1>m, <3>5 DEF CoinOrSpent
    <3>7. view' = EmptyCache /\ LayerOK(view', TipCoins') /\ ViewCoins' = TipCoins'
      BY <2>1, <3>6, EmptyLemma DEF ViewCoins
    <3>8. ViewCoins = TipCoins
      BY <1>m, <2>1, EmptyLemma DEF ViewCoins
    <3>9. Layers!Load(o, c)
      BY <2>1, <2>2, <3>5, <3>7, <3>8 DEF Layers!Load
    <3> QED BY <1>t, <2>1, <3>3, <3>4, <3>7, <3>9 DEF Inv, TypeOK, Layers!Next
  <2> QED BY <2>3, <2>4
<1>7. ASSUME NEW b \in Blocks, ViewSetBestBlock(b)
      PROVE  Inv' /\ LStep
  <2>1. UNCHANGED <<disk, tip, view, diskHash, tipHash>> /\ viewHash' = b
    BY <1>7 DEF ViewSetBestBlock
  <2>2. TipCoins' = TipCoins /\ ViewCoins' = ViewCoins /\ TipBest' = TipBest
    BY <2>1 DEF TipCoins, ViewCoins, TipBest, BestBlock
  <2>3. ViewBest' = b
    BY <2>1, NullHashAssumption DEF ViewBest, BestBlock
  <2>4. Layers!SetBest(b)
    BY <2>1, <2>2, <2>3 DEF Layers!SetBest
  <2> QED BY <1>t, <2>1, <2>2, <2>4 DEF Inv, TypeOK, Hash, Layers!Next
<1>8. ASSUME NEW b \in Blocks, TipSetBestBlock(b)
      PROVE  Inv' /\ LStep
  <2>1. UNCHANGED <<disk, tip, view, diskHash, viewHash>> /\ tipHash' = b /\ viewHash = NullHash
    BY <1>8 DEF TipSetBestBlock
  <2>2. TipCoins' = TipCoins /\ ViewCoins' = ViewCoins
    BY <2>1 DEF TipCoins, ViewCoins
  <2>3. TipBest' = b /\ ViewBest' = b /\ ViewBest = TipBest
    BY <2>1, NullHashAssumption DEF TipBest, ViewBest, BestBlock
  <2>4. Layers!LoadBest(b)
    BY <2>1, <2>2, <2>3 DEF Layers!LoadBest
  <2> QED BY <1>t, <2>1, <2>2, <2>4 DEF Inv, TypeOK, Hash, Layers!Next
<1>9. ASSUME ViewGetBestBlock
      PROVE  Inv' /\ LStep
  <2>1. UNCHANGED <<disk, tip, view, diskHash>> /\ tipHash' = TipBest /\ viewHash' = ViewBest
    BY <1>9 DEF ViewGetBestBlock
  <2>2. TipCoins' = TipCoins /\ ViewCoins' = ViewCoins
    BY <2>1 DEF TipCoins, ViewCoins
  <2>3. TipBest' = TipBest
    BY <2>1 DEF TipBest, BestBlock
  <2>4. ViewBest' = ViewBest
    BY <2>1, <2>3 DEF ViewBest, BestBlock
  <2> QED BY <1>t, <1>h, <2>1, <2>2, <2>3, <2>4 DEF Inv, TypeOK, Layers!lvars
<1>10. ASSUME ViewFlush \/ ViewSync
       PROVE  Inv' /\ LStep
  <2>1. /\ UNCHANGED <<disk, diskHash, viewHash>> /\ tipHash' = viewHash /\ viewHash # NullHash
        /\ tip' = BatchWrite(view, tip)
        /\ view' = EmptyCache \/ view' = Synced(view)
    BY <1>10 DEF ViewFlush, ViewSync
  <2>2. tip' \in Cache /\ LayerOK(tip', disk') /\ TipCoins' = ViewCoins
    BY <1>t, <2>1, BatchWriteLemma DEF TipCoins, ViewCoins
  <2>3. view' \in Cache /\ LayerOK(view', ViewCoins) /\ Overlay(view', ViewCoins) = ViewCoins
    BY <1>t, <1>m, <2>1, EmptyLemma, SyncLemma DEF ViewCoins
  <2>4. ViewCoins' = ViewCoins
    BY <2>2, <2>3 DEF ViewCoins
  <2>5. TipBest' = ViewBest /\ ViewBest' = ViewBest
    BY <2>1 DEF TipBest, ViewBest, BestBlock
  <2>6. Layers!Commit
    BY <2>1, <2>2, <2>4, <2>5 DEF Layers!Commit
  <2> QED BY <1>t, <2>1, <2>2, <2>3, <2>6 DEF Inv, TypeOK, Layers!Next
<1>11. ASSUME ViewDestroy
       PROVE  Inv' /\ LStep
  <2>1. UNCHANGED <<disk, tip, diskHash, tipHash>> /\ view' = EmptyCache /\ viewHash' = NullHash
    BY <1>11 DEF ViewDestroy
  <2>2. TipCoins' = TipCoins /\ TipBest' = TipBest /\ ViewBest' = TipBest
    BY <2>1 DEF TipCoins, TipBest, ViewBest, BestBlock
  <2>3. view' \in Cache /\ LayerOK(view', TipCoins') /\ ViewCoins' = TipCoins
    BY <1>m, <2>1, <2>2, EmptyLemma DEF ViewCoins
  <2>4. Layers!Abandon
    BY <2>1, <2>2, <2>3 DEF Layers!Abandon
  <2> QED BY <1>t, <2>1, <2>2, <2>3, <2>4 DEF Inv, TypeOK, Hash, Layers!Next
<1>12. ASSUME TipFlush \/ TipSync
       PROVE  Inv' /\ LStep
  <2>1. /\ UNCHANGED <<view, viewHash>> /\ diskHash' = TipBest /\ tipHash' = TipBest
        /\ disk' = DbBatchWrite(tip, disk)
        /\ tip' = EmptyCache \/ tip' = Synced(tip)
    BY <1>12 DEF TipFlush, TipSync
  <2>2. disk' = TipCoins
    BY <1>t, <2>1, DbBatchWriteLemma DEF TipCoins
  <2>3. tip' \in Cache /\ LayerOK(tip', TipCoins) /\ Overlay(tip', TipCoins) = TipCoins
    BY <1>t, <1>m, <2>1, EmptyLemma, SyncLemma DEF TipCoins
  <2>4. TipCoins' = TipCoins
    BY <2>2, <2>3 DEF TipCoins
  <2>5. ViewCoins' = ViewCoins
    BY <2>1, <2>4 DEF ViewCoins
  <2>6. TipBest' = TipBest /\ ViewBest' = ViewBest
    BY <2>1 DEF TipBest, ViewBest, BestBlock
  <2>7. Layers!Persist
    BY <2>1, <2>2, <2>4, <2>5, <2>6 DEF Layers!Persist
  <2> QED BY <1>t, <1>m, <1>h, <2>1, <2>2, <2>3, <2>4, <2>7 DEF Inv, TypeOK, Layers!Next
<1>13. ASSUME UNCHANGED vars
       PROVE  Inv' /\ LStep
  BY <1>t, <1>13
  DEF vars, Inv, TypeOK, TipCoins, ViewCoins, TipBest, ViewBest, BestBlock, Layers!lvars
<1> HIDE DEF LStep
<1>14. Inv' /\ LStep
  <2>1. ASSUME NEW o \in Outpoints,
               \/ ViewFetch(o) \/ TipFetch(o) \/ ViewSpendCoin(o) \/ Uncache(o)
               \/ \E c \in Coins :
                     \/ \E ow \in BOOLEAN : ViewAddCoin(o, c, ow)
                     \/ TipEmplaceCoin(o, c)
        PROVE  Inv' /\ LStep
    BY <1>1, <1>2, <1>3, <1>4, <1>5, <1>6, <2>1
  <2>2. ASSUME NEW b \in Blocks, ViewSetBestBlock(b) \/ TipSetBestBlock(b)
        PROVE  Inv' /\ LStep
    BY <1>7, <1>8, <2>2
  <2>3. ASSUME ViewGetBestBlock \/ ViewFlush \/ ViewSync \/ ViewDestroy \/ TipFlush \/ TipSync
        PROVE  Inv' /\ LStep
    BY <1>9, <1>10, <1>11, <1>12, <2>3
  <2> QED BY <1>13, <2>1, <2>2, <2>3 DEF Next
<1> QED BY <1>14 DEF LStep

\* The initial caches satisfy Inv and map to the initial maps.
LEMMA InitLemma ==
    Init => Inv /\ Layers!Init
<1> SUFFICES ASSUME Init PROVE Inv /\ Layers!Init
  OBVIOUS
<1>1. disk \in [Outpoints -> CoinOrSpent]
  BY DEF Init, CoinOrSpent
<1>2. TipCoins = disk /\ LayerOK(tip, disk) /\ tip \in Cache
  BY <1>1, EmptyLemma DEF Init, TipCoins
<1>3. ViewCoins = disk /\ LayerOK(view, TipCoins) /\ view \in Cache
  BY <1>1, <1>2, EmptyLemma DEF Init, ViewCoins
<1> QED BY <1>1, <1>2, <1>3
        DEF Init, Inv, TypeOK, Hash, TipBest, ViewBest, BestBlock, Layers!Init

\* Inv holds in every reachable state, whatever the sets of outpoints, coins
\* and blocks are.
THEOREM InvariantTheorem == Spec => []Inv
<1>1. Init => Inv
  BY InitLemma
<1>2. Inv /\ [Next]_vars => Inv'
  BY StepLemma
<1> QED BY <1>1, <1>2, PTL DEF Spec

\* Type correctness of the cache stack.
THEOREM TypeTheorem == Spec => []TypeOK
<1>1. Inv => TypeOK
  BY DEF Inv
<1> QED BY <1>1, InvariantTheorem, PTL

\* The flags are always one of the five combinations SanityCheck allows.
THEOREM SanityCheckTheorem == Spec => []SanityCheck
<1>1. Inv => SanityCheck
  BY Zenon DEF Inv, LayerOK, SanityCheck
<1> QED BY <1>1, InvariantTheorem, PTL

\* FRESH is only ever set over a parent without an unspent coin.
THEOREM FreshIsTruthfulTheorem == Spec => []FreshIsTruthful
<1>1. Inv => FreshIsTruthful
  BY Zenon DEF Inv, LayerOK, EntryTruthful, FreshIsTruthful
<1> QED BY <1>1, InvariantTheorem, PTL

\* An entry without DIRTY never differs from its parent.
THEOREM CleanIsRedundantTheorem == Spec => []CleanIsRedundant
<1>1. Inv => CleanIsRedundant
  BY Zenon DEF Inv, LayerOK, EntryTruthful, CleanIsRedundant
<1> QED BY <1>1, InvariantTheorem, PTL

\* The cache stack implements the three plain maps.
THEOREM RefinementTheorem == Spec => ImplementsLayers
<1>1. Init => Layers!Init
  BY InitLemma
<1>2. Inv /\ [Next]_vars => [Layers!Next]_(Layers!lvars)
  BY StepLemma
<1> QED BY <1>1, <1>2, InvariantTheorem, PTL DEF Spec, ImplementsLayers, Layers!Spec
=============================================================================
