------------------------ MODULE CoinsRecoveryProofs ------------------------
(***************************************************************************)
(* For every block tree, every assignment of coins to blocks, every size   *)
(* of batches and any number of crashes, the coins database recovers.  The *)
(* idea: while a flush from block f to block t is under way, each outpoint *)
(* that no block between f and t touches has its right value, or is lost   *)
(* for good, and the replay gives every other outpoint its value anew,     *)
(* whatever it finds.                                                      *)
(***************************************************************************)
EXTENDS CoinsRecovery, TLAPS

\* m has the coins of block a, but for what the way from a to b touches.
Agrees(m, a, b, S) == \A o \in Outpoints \ TouchedBetween(a, b) : HasCoin(m, o, a, S)

From(d) == IF d.from = Null THEN Genesis ELSE d.from

\* The blocks a database names are stored, and name one state or one transition.
DbKnown(d) ==
    /\ d.best \in stored \cup {Null} /\ d.to \in stored \cup {Null} /\ d.from \in stored \cup {Null}
    /\ d.best # Null => d.to = Null
    /\ d.to = Null => d.from = Null

\* Its coins are those of the block, or on their way.
DbExact(d, S) ==
    /\ d.best # Null => CoinsOf(d.coins, d.best, S)
    /\ d.best = Null /\ d.to = Null => d.coins = NoCoins
    /\ d.to # Null => Agrees(d.coins, From(d), d.to, S)

Closed == \A S \in {known, stored} : Genesis \in S /\ \A b \in S : Ancestors[b] \subseteq S

\* What the process is doing fits what the database says.
Phase ==
    /\ pc # "failed" /\ tip \in known
    /\ pc # "run" => stored = known
    /\ pc = "replay" => db.to # Null
    /\ pc = "replayed" => db.to = tip

\* As long as no write failed: a flush ends what it began, and the coins are right.
CoinsExact ==
    /\ pc = "run" => db.to = Null
    /\ pc \in {"flush", "shutdown"} => HeadsAgree
    /\ Settled => CoinsOf(coins, tip, known)
    /\ pc = "replay" => Agrees(coins, tip, db.to, known)

Known == Closed /\ Phase /\ DbKnown(db) /\ DbKnown(durable)
Exact == failures = 0 => CoinsExact /\ DbExact(db, stored) /\ DbExact(durable, stored)
IInv == TypeOK /\ Known /\ Exact

-----------------------------------------------------------------------------
LEMMA NoCoinsLemma == NoCoins \in Map /\ Utxo[Genesis] = NoCoins
  BY UtxoAssumption DEF NoCoins, Map

LEMMA ConnectedType ==
    ASSUME NEW m \in Map, NEW b \in Blocks
    PROVE  Connected(m, b) \in Map
  BY UtxoAssumption DEF Connected, Map

LEMMA DisconnectedType ==
    ASSUME NEW m \in Map, NEW b \in Blocks \ {Genesis}
    PROVE  Disconnected(m, b) \in Map
<1>1. Parent[b] \in Blocks
  BY TreeAssumption
<1>2. Utxo[Parent[b]] \in Map
  BY <1>1, UtxoAssumption DEF Map
<1> QED
  BY <1>2 DEF Disconnected, Map

\* What a smaller set of blocks explains, a larger one does.
LEMMA LostMonotone ==
    ASSUME NEW m, NEW t, NEW S, NEW T, S \subseteq T
    PROVE  /\ \A o : HasCoin(m, o, t, S) => HasCoin(m, o, t, T)
           /\ CoinsOf(m, t, S) => CoinsOf(m, t, T)
           /\ \A b : Agrees(m, t, b, S) => Agrees(m, t, b, T)
<1>1. \A o : HasCoin(m, o, t, S) => HasCoin(m, o, t, T)
  BY DEF HasCoin, Lost
<1> QED
  BY <1>1 DEF CoinsOf, Agrees

LEMMA DbExactMonotone ==
    ASSUME NEW d, NEW S, NEW T, S \subseteq T, DbExact(d, S)
    PROVE  DbExact(d, T)
  BY LostMonotone DEF DbExact

\* A coin, lost or not, stays what it is on a way that does not touch it.
LEMMA HasCoinMoves ==
    ASSUME NEW m, NEW a \in Blocks, NEW b \in Blocks, NEW S \in SUBSET Blocks,
           NEW o \in Outpoints \ TouchedBetween(a, b), HasCoin(m, o, a, S)
    PROVE  HasCoin(m, o, b, S)
<1>1. Utxo[a][o] = Utxo[b][o]
  BY UtxoAssumption
<1>2. ASSUME NEW y, o \notin TouchedBetween(y, a) PROVE o \notin TouchedBetween(y, b)
  BY <1>2 DEF TouchedBetween, Between
<1> QED
  BY <1>1, <1>2 DEF HasCoin, Lost

\* The way between a block and its parent is the block.
LEMMA BetweenParent ==
    ASSUME NEW b \in Blocks \ {Genesis}
    PROVE  /\ Parent[b] \in Blocks
           /\ TouchedBetween(b, Parent[b]) \subseteq Touched(b)
           /\ TouchedBetween(Parent[b], b) \subseteq Touched(b)
<1>1. Parent[b] \in Blocks /\ Ancestors[b] = {b} \cup Ancestors[Parent[b]]
  BY TreeAssumption
<1> QED
  BY <1>1 DEF TouchedBetween, Between

\* Connecting a block gives all it touches their values after it.
LEMMA ConnectedHasCoin ==
    ASSUME NEW m \in Map, NEW b \in Blocks \ {Genesis}, NEW S \in SUBSET Blocks,
           NEW o \in Outpoints, o \in Touched(b) \/ HasCoin(m, o, Parent[b], S)
    PROVE  HasCoin(Connected(m, b), o, b, S)
<1>1. Parent[b] \in Blocks /\ Utxo[b] = Connected(Utxo[Parent[b]], b)
  BY BetweenParent, UtxoAssumption
<1>2. CASE o \in Touched(b)
  <2>1. Connected(m, b)[o] = Utxo[b][o]
    BY <1>1, <1>2 DEF Connected, Touched
  <2> QED
    BY <2>1 DEF HasCoin
<1>3. CASE o \notin Touched(b)
  <2>1. HasCoin(m, o, b, S)
    BY <1>1, <1>3, BetweenParent, HasCoinMoves
  <2>2. Connected(m, b)[o] = m[o]
    BY <1>3 DEF Connected, Touched
  <2> QED
    BY <2>1, <2>2 DEF HasCoin
<1> QED
  BY <1>2, <1>3

\* Disconnecting a block gives all it touched their values before it, or loses the
\* coin that its coinbase had replaced.
LEMMA DisconnectedHasCoin ==
    ASSUME NEW m \in Map, NEW S \in SUBSET Blocks, NEW b \in S \ {Genesis},
           NEW o \in Outpoints, o \in Touched(b) \/ HasCoin(m, o, b, S)
    PROVE  HasCoin(Disconnected(m, b), o, Parent[b], S)
<1> DEFINE p == Parent[b]
<1>1. p \in Blocks
  BY BetweenParent
<1>2. CASE o \in Creates[b]
  <2>1. Disconnected(m, b)[o] = Spent
    BY <1>2 DEF Disconnected
  <2>2. ASSUME Utxo[p][o] # Spent PROVE Lost(o, p, S)
    <3>1. o \in Repeats(b)
      BY <1>2, <2>2 DEF Repeats
    <3>2. o \notin TouchedBetween(p, p)
      BY DEF TouchedBetween, Between
    <3> QED
      BY <3>1, <3>2 DEF Lost
  <2> QED
    BY <2>1, <2>2 DEF HasCoin
<1>3. CASE o \in Spends[b] \ Creates[b]
  BY <1>3 DEF Disconnected, HasCoin
<1>4. CASE o \notin Touched(b)
  <2>1. HasCoin(m, o, p, S)
    BY <1>1, <1>4, BetweenParent, HasCoinMoves
  <2>2. Disconnected(m, b)[o] = m[o]
    BY <1>4 DEF Disconnected, Touched
  <2> QED
    BY <2>1, <2>2 DEF HasCoin
<1> QED
  BY <1>2, <1>3, <1>4 DEF Touched

\* One block nearer from either side.
LEMMA BetweenDown ==
    ASSUME NEW n \in Blocks, NEW c \in Blocks \ {Genesis}, c \notin Ancestors[n]
    PROVE  Between(Parent[c], n) = Between(c, n) \ {c}
<1>1. Ancestors[c] = {c} \cup Ancestors[Parent[c]] /\ c \notin Ancestors[Parent[c]]
  BY TreeAssumption
<1> QED
  BY <1>1 DEF Between

LEMMA BetweenUp ==
    ASSUME NEW n \in Blocks, NEW b \in Ancestors[n], b \in Blocks \ {Genesis}
    PROVE  Between(b, n) = Between(Parent[b], n) \ {b}
<1>1. Ancestors[b] = {b} \cup Ancestors[Parent[b]] /\ b \notin Ancestors[Parent[b]]
  BY TreeAssumption
<1> QED
  BY <1>1 DEF Between

LEMMA RollbackAgrees ==
    ASSUME NEW m \in Map, NEW n \in Blocks, NEW S \in SUBSET Blocks, NEW c \in S \ {Genesis},
           c \notin Ancestors[n], Agrees(m, c, n, S)
    PROVE  Agrees(Disconnected(m, c), Parent[c], n, S)
<1> SUFFICES ASSUME NEW o \in Outpoints \ TouchedBetween(Parent[c], n)
             PROVE  HasCoin(Disconnected(m, c), o, Parent[c], S)
  BY DEF Agrees
<1>1. CASE o \in Touched(c)
  BY <1>1, DisconnectedHasCoin
<1>2. CASE o \notin Touched(c)
  <2>1. o \notin TouchedBetween(c, n)
    BY <1>2, BetweenDown DEF TouchedBetween
  <2> QED
    BY <2>1, DisconnectedHasCoin DEF Agrees
<1> QED
  BY <1>1, <1>2

LEMMA RollforwardAgrees ==
    ASSUME NEW m \in Map, NEW n \in Blocks, NEW S \in SUBSET Blocks, NEW b \in Ancestors[n],
           b \in Blocks \ {Genesis}, Agrees(m, Parent[b], n, S)
    PROVE  Agrees(Connected(m, b), b, n, S)
<1> SUFFICES ASSUME NEW o \in Outpoints \ TouchedBetween(b, n)
             PROVE  HasCoin(Connected(m, b), o, b, S)
  BY DEF Agrees
<1>1. CASE o \in Touched(b)
  BY <1>1, ConnectedHasCoin
<1>2. CASE o \notin Touched(b)
  <2>1. o \notin TouchedBetween(Parent[b], n)
    BY <1>2, BetweenUp DEF TouchedBetween
  <2> QED
    BY <2>1, ConnectedHasCoin DEF Agrees
<1> QED
  BY <1>1, <1>2

\* Nothing lies between a block and itself.
LEMMA AgreesExact ==
    ASSUME NEW m, NEW n, NEW S, Agrees(m, n, n, S)
    PROVE  CoinsOf(m, n, S)
<1>1. TouchedBetween(n, n) = {}
  BY DEF TouchedBetween, Between
<1> QED
  BY <1>1 DEF Agrees, CoinsOf

-----------------------------------------------------------------------------
LEMMA InitLemma == Init => IInv
<1> SUFFICES ASSUME Init PROVE IInv
  OBVIOUS
<1>1. TypeOK
  BY NoCoinsLemma, TreeAssumption, BoundAssumption DEF Init, TypeOK, Db, DbType
<1>2. Known
  BY TreeAssumption DEF Init, Known, Closed, Phase, DbKnown, Db
<1>3. Exact
  BY DEF Init, Exact, CoinsExact, DbExact, Db, Settled
<1> QED
  BY <1>1, <1>2, <1>3 DEF IInv

\* A block below Genesis does not exist, and the tree is closed downwards.
LEMMA ParentLemma ==
    ASSUME Closed, NEW b \in known \cap Blocks, b # Genesis
    PROVE  Parent[b] \in known
<1>1. Parent[b] \in Ancestors[b]
  <2>1. Parent[b] \in Blocks /\ Ancestors[b] = {b} \cup Ancestors[Parent[b]]
    BY TreeAssumption
  <2>2. Parent[b] \in Ancestors[Parent[b]]
    BY <2>1, TreeAssumption
  <2> QED
    BY <2>1, <2>2
<1> QED
  BY <1>1 DEF Closed

LEMMA ReceiveBlockLemma ==
    ASSUME IInv, NEW b \in Blocks, ReceiveBlock(b)
    PROVE  IInv'
<1>1. /\ known' = known \cup {b} /\ pc = "run" /\ Parent[b] \in known
      /\ UNCHANGED <<pc, stored, tip, coins, db, durable, crashes, failures>>
  BY DEF ReceiveBlock
<1>2. TypeOK'
  BY <1>1 DEF IInv, TypeOK
<1>3. Closed'
  <2>1. b # Genesis
    BY DEF ReceiveBlock, IInv, Known, Closed
  <2>2. Ancestors[b] = {b} \cup Ancestors[Parent[b]]
    BY <2>1, TreeAssumption
  <2>3. Ancestors[Parent[b]] \subseteq known
    BY <1>1 DEF IInv, Known, Closed
  <2> QED
    BY <1>1, <2>2, <2>3 DEF IInv, Known, Closed
<1>4. Phase' /\ DbKnown(db)' /\ DbKnown(durable)'
  BY <1>1 DEF IInv, Known, Phase, DbKnown
<1>5. CoinsOf(coins, tip, known) => CoinsOf(coins', tip', known')
  BY <1>1, LostMonotone
<1>6. Exact'
  BY <1>1, <1>5 DEF IInv, Exact, CoinsExact, HeadsAgree, Settled
<1> QED
  BY <1>2, <1>3, <1>4, <1>6 DEF IInv, Known

LEMMA ConnectTipLemma ==
    ASSUME IInv, NEW b \in Blocks, ConnectTip(b)
    PROVE  IInv'
<1>1. /\ tip' = b /\ coins' = Connected(coins, b) /\ pc = "run" /\ b \in known /\ Parent[b] = tip
      /\ UNCHANGED <<pc, known, stored, db, durable, crashes, failures>>
  BY DEF ConnectTip
<1>2. TypeOK'
  BY <1>1, ConnectedType DEF IInv, TypeOK
<1>3. Known'
  BY <1>1 DEF IInv, Known, Closed, Phase, DbKnown
<1>4. b # Genesis
  BY <1>1, TreeAssumption DEF IInv, TypeOK
<1>5. CoinsOf(coins, tip, known) => CoinsOf(coins', b, known)
  BY <1>1, <1>4, ConnectedHasCoin DEF CoinsOf, IInv, TypeOK
<1>6. Exact'
  BY <1>1, <1>5 DEF IInv, Exact, CoinsExact, HeadsAgree, Settled
<1> QED
  BY <1>2, <1>3, <1>6 DEF IInv

LEMMA DisconnectTipLemma ==
    ASSUME IInv, DisconnectTip
    PROVE  IInv'
<1>1. /\ tip' = Parent[tip] /\ coins' = Disconnected(coins, tip) /\ pc = "run"
      /\ tip \in Blocks \ {Genesis} /\ tip \in known
      /\ UNCHANGED <<pc, known, stored, db, durable, crashes, failures>>
  BY DEF DisconnectTip, IInv, TypeOK, Known, Phase
<1>2. Parent[tip] \in known
  BY <1>1, ParentLemma DEF IInv, Known
<1>3. TypeOK'
  BY <1>1, <1>2, DisconnectedType DEF IInv, TypeOK
<1>4. Known'
  BY <1>1, <1>2 DEF IInv, Known, Closed, Phase, DbKnown
<1>5. CoinsOf(coins, tip, known) => CoinsOf(coins', Parent[tip], known)
  BY <1>1, DisconnectedHasCoin DEF CoinsOf, IInv, TypeOK
<1>6. Exact'
  BY <1>1, <1>5 DEF IInv, Exact, CoinsExact, HeadsAgree, Settled
<1> QED
  BY <1>3, <1>4, <1>6 DEF IInv

LEMMA FlushStateToDiskLemma ==
    ASSUME IInv, FlushStateToDisk
    PROVE  IInv'
<1>1. /\ stored' \in {stored, known} /\ pc = "run" /\ pc' \in {"run", "flush"}
      /\ pc' = "flush" => stored' = known
      /\ UNCHANGED <<known, tip, coins, db, durable, crashes, failures>>
  BY DEF FlushStateToDisk, IndexWritten
<1>2. stored \subseteq stored' /\ TypeOK'
  BY <1>1 DEF IInv, TypeOK
<1>3. Known'
  BY <1>1, <1>2 DEF IInv, Known, Closed, Phase, DbKnown
<1>4. Exact'
  BY <1>1, <1>2, DbExactMonotone DEF IInv, Exact, CoinsExact, HeadsAgree, Settled
<1> QED
  BY <1>2, <1>3, <1>4 DEF IInv

\* However the process ends, it leaves what the next start needs.
LEMMA OffLemma ==
    ASSUME IInv, NEW S \in {stored, known}, Off(S), db' \in {db, durable}, durable' = durable,
           crashes' \in 0..MaxCrashes, failures' \in 0..MaxFailures, failures' = 0 => failures = 0
    PROVE  IInv'
<1>1. stored' = S /\ known' = S /\ pc' = "off" /\ tip' = Genesis /\ coins' = NoCoins
  BY DEF Off
<1>2. TypeOK'
  BY <1>1, NoCoinsLemma, TreeAssumption DEF IInv, TypeOK
<1>3. Closed' /\ stored \subseteq S
  BY <1>1 DEF IInv, TypeOK, Known, Closed
<1>4. DbKnown(db)' /\ DbKnown(durable)'
  BY <1>1, <1>3 DEF IInv, Known, DbKnown
<1>5. Phase'
  BY <1>1, <1>3 DEF Phase, Closed
<1>6. Exact'
  BY <1>1, <1>3, DbExactMonotone DEF IInv, Exact, CoinsExact, Settled
<1> QED
  BY <1>2, <1>3, <1>4, <1>5, <1>6 DEF IInv, Known

LEMMA ShutdownLemma ==
    ASSUME IInv, Shutdown
    PROVE  IInv'
<1>0. crashes \in 0..MaxCrashes /\ failures \in 0..MaxFailures
  BY DEF IInv, TypeOK
<1>1. CASE Off(stored)
  BY <1>0, <1>1, OffLemma DEF Shutdown
<1>2. CASE Off(known)
  BY <1>0, <1>2, OffLemma DEF Shutdown
<1>3. CASE stored' = known /\ pc' = "shutdown" /\ UNCHANGED <<known, tip, coins>>
  <2>1. pc = "run" /\ UNCHANGED <<db, durable, crashes, failures>>
    BY DEF Shutdown
  <2>2. stored \subseteq stored' /\ TypeOK'
    BY <1>3, <2>1 DEF IInv, TypeOK
  <2>3. Known'
    BY <1>3, <2>1, <2>2 DEF IInv, Known, Closed, Phase, DbKnown
  <2>4. Exact'
    BY <1>3, <2>1, <2>2, DbExactMonotone DEF IInv, Exact, CoinsExact, HeadsAgree, Settled
  <2> QED
    BY <2>2, <2>3, <2>4 DEF IInv
<1> QED
  BY <1>1, <1>2, <1>3 DEF Shutdown, IndexWritten

\* A batch mixes the values before and after: where no block on the way touches
\* an outpoint, both are the same.
LEMMA PartialBatchLemma ==
    ASSUME IInv, PartialBatch
    PROVE  IInv'
<1>1. PICK S \in SUBSET Unwritten : db' = Db(Written(S), Null, tip, OldTip)
  BY DEF PartialBatch
<1>2. /\ Flushing /\ HeadsAgree /\ tip \in stored /\ tip # Null
      /\ UNCHANGED <<pc, known, stored, tip, coins, durable, crashes, failures>>
  BY TreeAssumption DEF PartialBatch, IInv, TypeOK, Known, Phase, Flushing
<1>3. /\ db'.coins = Written(S) /\ db'.best = Null /\ db'.to = tip /\ db'.from = OldTip
      /\ db' \in [coins : {Written(S)}, best : {Null}, to : {tip}, from : {OldTip}]
  BY <1>1 DEF Db
<1>4. Written(S) \in Map /\ OldTip \in stored \cup {Null} /\ OldTip \in Blocks \cup {Null}
  BY DEF Written, Map, OldTip, IInv, TypeOK, DbType, Known, DbKnown
<1>5. TypeOK'
  <2>1. db' \in DbType
    BY <1>3, <1>4 DEF DbType, IInv, TypeOK
  <2> QED
    BY <1>2, <2>1 DEF IInv, TypeOK
<1>6. Known'
  BY <1>2, <1>3, <1>4 DEF IInv, Known, Closed, Phase, DbKnown, Flushing
<1>7. ASSUME failures = 0 PROVE Agrees(Written(S), From(db'), tip, stored)
  <2>1. CoinsOf(coins, tip, stored) /\ DbExact(db, stored) /\ DbKnown(db)
    BY <1>2, <1>7 DEF IInv, Exact, CoinsExact, Flushing, Known, Phase, Settled
  <2> DEFINE f == From(db')
  <2>2. f = IF OldTip = Null THEN Genesis ELSE OldTip
    BY <1>3 DEF From
  <2>3. f \in Blocks /\ tip \in Blocks /\ stored \in SUBSET Blocks
    BY <1>4, <2>2, TreeAssumption DEF IInv, TypeOK
  <2>4. Agrees(db.coins, f, tip, stored)
    <3>1. CASE db.best # Null
      BY <2>1, <2>2, <3>1 DEF OldTip, DbExact, Agrees, CoinsOf
    <3>2. CASE db.best = Null /\ db.to = Null
      <4>1. f = Genesis /\ db.coins = Utxo[Genesis]
        BY <2>1, <2>2, <3>2, NoCoinsLemma DEF OldTip, DbExact, DbKnown
      <4> QED
        BY <4>1 DEF Agrees, HasCoin
    <3>3. CASE db.best = Null /\ db.to # Null
      <4>1. f = From(db) /\ db.to = tip
        BY <1>2, <2>2, <3>3 DEF OldTip, From, HeadsAgree
      <4> QED
        BY <2>1, <3>3, <4>1 DEF DbExact
    <3> QED
      BY <3>1, <3>2, <3>3
  <2> HIDE DEF f
  <2>5. ASSUME NEW o \in Outpoints \ TouchedBetween(f, tip) PROVE HasCoin(coins, o, f, stored)
    <3>1. o \notin TouchedBetween(tip, f)
      BY DEF TouchedBetween, Between
    <3> QED
      BY <2>1, <2>3, <3>1, HasCoinMoves DEF CoinsOf
  <2>6. Agrees(Written(S), f, tip, stored)
    <3> SUFFICES ASSUME NEW o \in Outpoints \ TouchedBetween(f, tip)
                 PROVE  HasCoin(Written(S), o, f, stored)
      BY DEF Agrees
    <3>1. HasCoin(coins, o, f, stored) /\ HasCoin(db.coins, o, f, stored)
      BY <2>4, <2>5 DEF Agrees
    <3>2. Written(S)[o] \in {coins[o], db.coins[o]}
      BY DEF Written
    <3> QED
      BY <3>1, <3>2 DEF HasCoin
  <2> QED
    BY <2>6 DEF f
<1>8. Exact'
  <2> SUFFICES ASSUME failures = 0 PROVE CoinsExact' /\ DbExact(db', stored) /\ DbExact(durable, stored)
    BY <1>2 DEF Exact
  <2>1. CoinsExact'
    BY <1>2, <1>3 DEF IInv, Exact, CoinsExact, HeadsAgree, Flushing, Settled
  <2>2. DbExact(db', stored)
    BY <1>2, <1>3, <1>7 DEF DbExact
  <2> QED
    BY <1>2, <2>1, <2>2 DEF IInv, Exact
<1> QED
  BY <1>5, <1>6, <1>8 DEF IInv

LEMMA FinalBatchLemma ==
    ASSUME IInv, FinalBatch
    PROVE  IInv'
<1>1. /\ db' = Db(coins, tip, Null, Null) /\ Flushing /\ tip \in stored /\ tip # Null
      /\ UNCHANGED <<durable, crashes, failures>>
  BY TreeAssumption DEF FinalBatch, IInv, TypeOK, Known, Phase, Flushing
<1>2. db'.coins = coins /\ db'.best = tip /\ db'.to = Null /\ db'.from = Null /\ db' \in DbType
  BY <1>1 DEF Db, DbType, IInv, TypeOK
<1>3. failures = 0 => DbExact(db', stored)
  BY <1>1, <1>2 DEF IInv, Exact, CoinsExact, DbExact, Flushing, Known, Phase, Settled
<1>4. CASE pc = "shutdown" /\ Off(stored)
  <2>1. stored' = stored /\ known' = stored /\ pc' = "off" /\ tip' = Genesis /\ coins' = NoCoins
    BY <1>4 DEF Off
  <2>2. TypeOK'
    BY <1>1, <1>2, <2>1, NoCoinsLemma, TreeAssumption DEF IInv, TypeOK
  <2>3. Known'
    BY <1>1, <1>2, <2>1 DEF IInv, Known, Closed, Phase, DbKnown
  <2>4. Exact'
    BY <1>1, <1>3, <2>1 DEF IInv, Exact, CoinsExact, Settled
  <2> QED
    BY <2>2, <2>3, <2>4 DEF IInv
<1>5. CASE pc' = "run" /\ UNCHANGED <<known, stored, tip, coins>>
  <2>1. TypeOK'
    BY <1>1, <1>2, <1>5 DEF IInv, TypeOK
  <2>2. Known'
    BY <1>1, <1>2, <1>5 DEF IInv, Known, Closed, Phase, DbKnown
  <2>3. Exact'
    BY <1>1, <1>2, <1>3, <1>5 DEF IInv, Exact, CoinsExact, Flushing, Settled
  <2> QED
    BY <2>1, <2>2, <2>3 DEF IInv
<1> QED
  BY <1>4, <1>5 DEF FinalBatch

LEMMA AssertionFailsLemma ==
    ASSUME IInv, AssertionFails
    PROVE  IInv'
<1>1. crashes \in 0..MaxCrashes /\ failures \in 0..MaxFailures
  BY DEF IInv, TypeOK
<1> QED
  BY <1>1, OffLemma DEF AssertionFails

LEMMA WriteFailsLemma ==
    ASSUME IInv, WriteFails
    PROVE  IInv'
<1>1. /\ failures' = failures + 1 /\ failures < MaxFailures /\ Flushing
      /\ failures \in 0..MaxFailures /\ crashes \in 0..MaxCrashes
      /\ UNCHANGED <<db, durable, crashes>>
  BY DEF WriteFails, IInv, TypeOK
<1>2. failures' \in 0..MaxFailures /\ failures' # 0
  BY <1>1, BoundAssumption
<1>3. CASE Off(stored)
  BY <1>1, <1>2, <1>3, OffLemma
<1>4. ASSUME NEW S \in SUBSET Unwritten, pc' = "run", UNCHANGED <<known, stored, tip>>,
             coins' = [o \in Outpoints |-> IF o \in S THEN db.coins[o] ELSE coins[o]]
      PROVE  IInv'
  <2>1. coins' \in Map
    BY <1>4 DEF IInv, TypeOK, DbType, Map
  <2>2. TypeOK'
    BY <1>1, <1>2, <1>4, <2>1 DEF IInv, TypeOK
  <2>3. Known'
    BY <1>1, <1>4 DEF IInv, Known, Closed, Phase, DbKnown
  <2> QED
    BY <1>2, <2>2, <2>3 DEF IInv, Exact
<1> QED
  BY <1>3, <1>4 DEF WriteFails

LEMMA SyncLemma ==
    ASSUME IInv, Sync
    PROVE  IInv'
<1>1. durable' = db /\ UNCHANGED <<pc, known, stored, tip, coins, db, crashes, failures>>
  BY DEF Sync
<1>2. TypeOK' /\ Known'
  BY <1>1 DEF IInv, TypeOK, Known, Closed, Phase, DbKnown
<1>3. Exact'
  BY <1>1 DEF IInv, Exact, CoinsExact, HeadsAgree, Settled
<1> QED
  BY <1>2, <1>3 DEF IInv

LEMMA CrashLemma ==
    ASSUME IInv, Crash
    PROVE  IInv'
<1>1. crashes' \in 0..MaxCrashes /\ failures \in 0..MaxFailures
  BY BoundAssumption DEF Crash, IInv, TypeOK
<1> QED
  BY <1>1, OffLemma DEF Crash

LEMMA LoadChainTipLemma ==
    ASSUME IInv, LoadChainTip
    PROVE  IInv'
<1>1. /\ db.to = Null /\ coins' = db.coins /\ stored \subseteq known /\ Genesis \in known
      /\ UNCHANGED <<known, stored, db, durable, crashes, failures>>
  BY DEF LoadChainTip, IInv, TypeOK, Known, Closed
<1>2. db.best \in stored \cup {Null}
  BY DEF IInv, Known, DbKnown
<1>3. /\ pc' = "run" /\ tip' = IF db.best = Null THEN Genesis ELSE db.best
      /\ tip' \in known
  BY <1>1, <1>2 DEF LoadChainTip
<1>4. TypeOK'
  BY <1>1, <1>3 DEF IInv, TypeOK, DbType
<1>5. Known'
  BY <1>1, <1>3 DEF IInv, Known, Closed, Phase, DbKnown
<1>6. DbExact(db, stored) => CoinsOf(coins', tip', known)
  <2>1. CASE db.best # Null
    BY <1>1, <1>3, <2>1, LostMonotone DEF DbExact
  <2>2. CASE db.best = Null
    BY <1>1, <1>3, <2>2, NoCoinsLemma DEF DbExact, CoinsOf, HasCoin
  <2> QED
    BY <2>1, <2>2
<1>7. Exact'
  BY <1>1, <1>3, <1>6 DEF IInv, Exact, CoinsExact, Settled
<1> QED
  BY <1>4, <1>5, <1>7 DEF IInv

LEMMA ReplayBlocksLemma ==
    ASSUME IInv, ReplayBlocks
    PROVE  IInv'
<1>1. /\ pc = "off" /\ db.to # Null /\ stored \subseteq known /\ Genesis \in known
      /\ UNCHANGED <<known, stored, db, durable, crashes, failures>>
  BY DEF ReplayBlocks, IInv, TypeOK, Known, Closed
<1>2. db.to \in known /\ db.from \in known \cup {Null}
  BY <1>1 DEF IInv, Known, DbKnown
<1>3. pc' = "replay" /\ coins' = db.coins /\ tip' = From(db) /\ tip' \in known
  BY <1>1, <1>2 DEF ReplayBlocks, From
<1>4. TypeOK'
  BY <1>1, <1>3 DEF IInv, TypeOK, DbType
<1>5. Known'
  BY <1>1, <1>3 DEF IInv, Known, Closed, Phase, DbKnown
<1>6. DbExact(db, stored) => Agrees(coins', tip', db.to, known)
  BY <1>1, <1>3, LostMonotone DEF DbExact
<1>7. Exact'
  BY <1>1, <1>3, <1>6 DEF IInv, Exact, CoinsExact, Settled
<1> QED
  BY <1>4, <1>5, <1>7 DEF IInv

LEMMA RollbackBlockLemma ==
    ASSUME IInv, RollbackBlock
    PROVE  IInv'
<1>1. /\ pc = "replay" /\ tip \notin Ancestors[db.to] /\ tip \in known /\ tip \in Blocks
      /\ db.to \in Blocks /\ coins \in Map
      /\ UNCHANGED <<known, stored, db, durable, crashes, failures>>
  BY DEF RollbackBlock, IInv, TypeOK, DbType, Known, Phase
<1>2. pc' = pc /\ coins' = Disconnected(coins, tip) /\ tip' = Parent[tip]
  BY <1>1 DEF RollbackBlock
<1>3. tip # Genesis
  BY <1>1, TreeAssumption
<1>4. Parent[tip] \in known
  BY <1>1, <1>3, ParentLemma DEF IInv, Known
<1>5. TypeOK'
  BY <1>1, <1>2, <1>3, <1>4, DisconnectedType DEF IInv, TypeOK
<1>6. Known'
  BY <1>1, <1>2, <1>4 DEF IInv, Known, Closed, Phase, DbKnown
<1>7. Agrees(coins, tip, db.to, known) => Agrees(coins', tip', db.to, known)
  <2>1. known \in SUBSET Blocks
    BY DEF IInv, TypeOK
  <2> QED
    BY <1>1, <1>2, <1>3, <2>1, RollbackAgrees
<1>8. Exact'
  BY <1>1, <1>2, <1>7 DEF IInv, Exact, CoinsExact, Settled
<1> QED
  BY <1>5, <1>6, <1>8 DEF IInv

LEMMA RollforwardBlockLemma ==
    ASSUME IInv, RollforwardBlock
    PROVE  IInv'
<1>1. /\ pc = "replay" /\ tip \in Blocks /\ db.to \in Blocks /\ db.to \in known /\ coins \in Map
      /\ UNCHANGED <<known, stored, db, durable, crashes, failures>>
  BY DEF RollforwardBlock, IInv, TypeOK, DbType, Known, Phase, DbKnown
<1>2. PICK b \in Ancestors[db.to] :
         /\ Parent[b] = tip
         /\ IF b \in known
            THEN coins' = Connected(coins, b) /\ tip' = b /\ UNCHANGED pc
            ELSE pc' = "failed" /\ UNCHANGED <<coins, tip>>
  BY DEF RollforwardBlock
<1>3. b \in known /\ b \in Blocks
  BY <1>1 DEF IInv, TypeOK, Known, Closed
<1>4. b # Genesis
  BY <1>1, <1>2, <1>3, TreeAssumption
<1>5. pc' = pc /\ coins' = Connected(coins, b) /\ tip' = b
  BY <1>2, <1>3
<1>6. TypeOK'
  BY <1>1, <1>3, <1>5, ConnectedType DEF IInv, TypeOK
<1>7. Known'
  BY <1>1, <1>3, <1>5 DEF IInv, Known, Closed, Phase, DbKnown
<1>8. Agrees(coins, tip, db.to, known) => Agrees(coins', tip', db.to, known)
  <2>1. known \in SUBSET Blocks
    BY DEF IInv, TypeOK
  <2> QED
    BY <1>1, <1>2, <1>3, <1>4, <1>5, <2>1, RollforwardAgrees
<1>9. Exact'
  BY <1>1, <1>5, <1>8 DEF IInv, Exact, CoinsExact, Settled
<1> QED
  BY <1>6, <1>7, <1>9 DEF IInv

LEMMA ReplayedLemma ==
    ASSUME IInv, Replayed
    PROVE  IInv'
<1>1. /\ pc = "replay" /\ tip = db.to /\ pc' = "replayed" /\ coins \in Map /\ tip \in Blocks
      /\ UNCHANGED <<known, stored, tip, coins, db, durable, crashes, failures>>
  BY DEF Replayed, IInv, TypeOK
<1>2. TypeOK'
  BY <1>1 DEF IInv, TypeOK
<1>3. tip \in stored
  BY <1>1, TreeAssumption DEF IInv, Known, DbKnown
<1>4. Known'
  BY <1>1, <1>3 DEF IInv, Known, Closed, Phase, DbKnown
<1>5. Agrees(coins, tip, db.to, known) => CoinsOf(coins, tip, known)
  BY <1>1, AgreesExact
<1>6. Exact'
  BY <1>1, <1>5 DEF IInv, Exact, CoinsExact, Settled
<1> QED
  BY <1>2, <1>4, <1>6 DEF IInv

LEMMA NextLemma == IInv /\ [Next]_vars => IInv'
<1> SUFFICES ASSUME IInv, [Next]_vars PROVE IInv'
  OBVIOUS
<1>1. ASSUME NEW b \in Blocks, ReceiveBlock(b) \/ ConnectTip(b) PROVE IInv'
  BY <1>1, ReceiveBlockLemma, ConnectTipLemma
<1>2. CASE DisconnectTip \/ FlushStateToDisk \/ Shutdown
  BY <1>2, DisconnectTipLemma, FlushStateToDiskLemma, ShutdownLemma
<1>3. CASE PartialBatch \/ FinalBatch \/ AssertionFails \/ WriteFails
  BY <1>3, PartialBatchLemma, FinalBatchLemma, AssertionFailsLemma, WriteFailsLemma
<1>4. CASE Sync \/ Crash
  BY <1>4, SyncLemma, CrashLemma
<1>5. CASE Start
  BY <1>5, LoadChainTipLemma, ReplayBlocksLemma, RollbackBlockLemma, RollforwardBlockLemma,
     ReplayedLemma DEF Start
<1>6. CASE UNCHANGED vars
  <2>1. TypeOK' /\ Known'
    BY <1>6 DEF vars, IInv, TypeOK, Known, Closed, Phase, DbKnown
  <2>2. Exact'
    BY <1>6 DEF vars, IInv, Exact, CoinsExact, HeadsAgree, Settled
  <2> QED
    BY <2>1, <2>2 DEF IInv
<1> QED
  BY <1>1, <1>2, <1>3, <1>4, <1>5, <1>6 DEF Next

\* The inductive invariant holds of every behaviour.
THEOREM InvariantTheorem == Spec => []IInv
  BY InitLemma, NextLemma, PTL DEF Spec

\* As long as no write fails, DB_BEST_BLOCK tells the truth about the coins on
\* disk, however often the node crashed, within BatchWrite and within
\* ReplayBlocks; only coins of repeated coinbases may be missing.
THEOREM BestIsConsistentTheorem == Spec => []BestIsConsistent
<1>1. IInv => BestIsConsistent
  BY DEF IInv, Exact, DbExact, BestIsConsistent
<1> QED
  BY <1>1, InvariantTheorem, PTL

\* As long as no write fails, the node has the coins of its tip after every start,
\* the replay of an interrupted flush included, and after every reorganisation;
\* only coins of repeated coinbases may be missing.
THEOREM TipIsConsistentTheorem == Spec => []TipIsConsistent
<1>1. IInv => TipIsConsistent
  BY DEF IInv, Exact, CoinsExact, TipIsConsistent
<1> QED
  BY <1>1, InvariantTheorem, PTL

\* Where BIP30 is enforced for every block, none is missing.
THEOREM TipIsExactTheorem == Spec => []TipIsExact
<1>1. IInv => TipIsExact
  <2> SUFFICES ASSUME IInv, Legacy = {}, failures = 0, Settled PROVE coins = Utxo[tip]
    BY DEF TipIsExact
  <2>1. CoinsOf(coins, tip, known) /\ known \subseteq Blocks /\ tip \in Blocks /\ coins \in Map
    BY DEF IInv, TypeOK, Exact, CoinsExact
  <2>2. \A y \in Blocks \ {Genesis} : Repeats(y) = {}
    BY UtxoAssumption
  <2>3. \A o \in Outpoints : coins[o] = Utxo[tip][o]
    BY <2>1, <2>2 DEF CoinsOf, HasCoin, Lost
  <2>4. Utxo[tip] \in Map
    BY <2>1, UtxoAssumption DEF Map
  <2> QED
    BY <2>1, <2>3, <2>4 DEF Map
<1> QED
  BY <1>1, InvariantTheorem, PTL

\* As long as no write fails, DisconnectBlock finds every tip clean: what is
\* missing of it is an output of a legacy block's coinbase.
THEOREM DisconnectIsCleanTheorem == Spec => []DisconnectIsClean
<1>1. IInv => DisconnectIsClean
  <2> SUFFICES ASSUME IInv, failures = 0, pc = "run", tip # Genesis PROVE Clean(coins, tip)
    BY DEF DisconnectIsClean
  <2>1. CoinsOf(coins, tip, known) /\ known \subseteq Blocks /\ tip \in Blocks \ {Genesis}
    BY DEF IInv, TypeOK, Exact, CoinsExact, Settled
  <2>2. Parent[tip] \in Blocks /\ Utxo[tip] = Connected(Utxo[Parent[tip]], tip)
    BY <2>1, BetweenParent, UtxoAssumption
  <2>3. ASSUME NEW o \in Spends[tip] PROVE coins[o] = Spent
    <3>1. o \in Outpoints
      BY <2>1, UtxoAssumption
    <3>2. Utxo[tip][o] = Spent
      BY <2>2, <3>1 DEF Connected
    <3> QED
      BY <2>1, <3>1, <3>2 DEF CoinsOf, HasCoin
  <2>4. ASSUME NEW o \in Creates[tip] \ Spends[tip], coins[o] # Coin[tip][o]
        PROVE  tip \in Legacy /\ o \in Coinbases
    <3>1. o \in Outpoints
      BY <2>1, UtxoAssumption
    <3>2. Utxo[tip][o] = Coin[tip][o]
      BY <2>2, <3>1 DEF Connected
    <3>3. PICK y \in known \ {Genesis} : o \in Repeats(y) /\ o \notin TouchedBetween(Parent[y], tip)
      BY <2>1, <2>4, <3>1, <3>2 DEF CoinsOf, HasCoin, Lost
    <3>4. y \in Legacy /\ o \in Coinbases
      BY <2>1, <3>3, UtxoAssumption
    <3>5. tip \in Ancestors[Parent[y]]
      <4>1. tip \in Ancestors[tip]
        BY <2>1, TreeAssumption
      <4> QED
        BY <3>1, <3>3, <4>1 DEF TouchedBetween, Between, Touched
    <3>6. tip \in Ancestors[y]
      BY <2>1, <3>3, <3>5, TreeAssumption
    <3> QED
      BY <2>1, <3>4, <3>6, LegacyAssumption
  <2> QED
    BY <2>3, <2>4 DEF Clean
<1> QED
  BY <1>1, InvariantTheorem, PTL

\* LoadChainstate finds every block that the coins database names and every block
\* the replay needs, since FlushStateToDisk writes the block index first.
THEOREM StartSucceedsTheorem == Spec => []StartSucceeds
<1>1. IInv => StartSucceeds
  BY DEF IInv, Known, Phase, StartSucceeds
<1> QED
  BY <1>1, InvariantTheorem, PTL

\* The assertion in BatchWrite holds: a transition that was begun is ended before
\* another one begins.
THEOREM HeadsMatchTheorem == Spec => []HeadsMatch
<1>1. IInv => HeadsMatch
  BY DEF IInv, Known, Phase, Exact, CoinsExact, HeadsMatch, Flushing, HeadsAgree
<1> QED
  BY <1>1, InvariantTheorem, PTL
=============================================================================
