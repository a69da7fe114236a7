-------------------------- MODULE BaseIndexProofs --------------------------
(***************************************************************************)
(* Proofs about BaseIndex, for every block tree and every bound on the     *)
(* changes of the chain and the restarts, by two inductive invariants:     *)
(*   IndexInv  the entries, the totals and the best block agree, in memory *)
(*             and on disk, at each step of ThreadSync, of a callback and  *)
(*             of a restart;                                               *)
(*   QueueInv  the callbacks that are left lead from the best block to the *)
(*             tip.                                                        *)
(***************************************************************************)
EXTENDS BaseIndex, WellFoundedInduction, TLAPS

\* Most leaves are first-order: Zenon takes them, and the others cite SMT.
USE ZenonT(20)

-----------------------------------------------------------------------------
(* The inductive invariants.                                               *)

\* The types.
Stats == [Blocks -> Int]
Entry == [block : Blocks, value : Stats]
Event == [type : {"BlockConnected", "ChainStateFlushed"}, block : Blocks]
MaybeBlock == Blocks \cup {None}

Database == [height : [Heights -> Entry \cup {None}], hash : [Blocks -> Stats \cup {None}],
             best : MaybeBlock, muhash : Stats]

\* Every entry of the database is that of its block: by height, of some block of
\* that height.
EntriesTrue(d) ==
    /\ d \in Database
    /\ \A h \in Heights : d.height[h] # None =>
          nHeight[d.height[h].block] = h /\ d.height[h].value = Value(d.height[h].block)
    /\ \A b \in Blocks : d.hash[b] # None => d.hash[b] = Value(b)

\* The entries by height up to b are those of the path to b.
OnPath(d, b) ==
    \A x \in ChainOf(b) : d.height[nHeight[x]] = [block |-> x, value |-> Value(x)]

\* b has been copied to the entries by hash.
Copied(d, b) == d.height[nHeight[b]] # None /\ d.hash[b] = Value(b)

\* What is on disk, when the blocks of c were committed: the totals are those of
\* the best block, the entries by height up to it are those of its path, and the
\* other blocks of c have been copied.
DiskOK(d, c) ==
    /\ EntriesTrue(d) /\ OnPath(d, d.best)
    /\ d.muhash = Value(d.best)
    /\ c \subseteq Blocks /\ \A x \in c \ ChainOf(d.best) : Copied(d, x)

\* The block whose statistics m_muhash has.
Current ==
    IF sync = "done" THEN m_best_block_index ELSE IF sync = "next" THEN pindex ELSE Parent[pindex]

\* What is in memory.
MemoryOK ==
    /\ tip \in Blocks /\ flushed \in Blocks
    /\ queue \in Seq(Event) /\ cb \in {"idle", "copy", "reverse", "append"}
    /\ m_synced \in BOOLEAN /\ sync \in {"next", "locator", "append", "done"}
    /\ m_best_block_index \in MaybeBlock /\ pindex \in MaybeBlock
    /\ sync \in {"locator", "append"} => pindex \in Blocks
    /\ m_synced => sync = "done" /\ m_best_block_index # None
    /\ status = "down" => tip = flushed /\ queue = <<>> /\ cb = "idle"

\* A callback that is under way.
CallbackInv ==
    cb # "idle" =>
        /\ m_synced /\ queue # <<>> /\ Head(queue).type = "BlockConnected" /\ block # Genesis
        /\ cb = "append" => m_best_block_index = Parent[block]
        /\ cb # "append" => Parent[block] \in Ancestors[m_best_block_index]
        /\ cb = "reverse" =>
              \A x \in Ancestors[m_best_block_index] \ Ancestors[Parent[block]] : Copied(db, x)

\* A running index: the running totals are those of the current block, the entries
\* by height up to it are those of its path, and the best block on disk is on it.
RunInv ==
    status = "up" =>
        /\ m_muhash = Value(Current)
        /\ OnPath(db, Current)
        /\ db.best # None => db.best \in ChainOf(Current)
        /\ CallbackInv

\* The inductive invariant of the index.
IndexInv == MemoryOK /\ DiskOK(db, committed) /\ RunInv /\ status # "fatal"

\* The callback at i is a BlockConnected.
Connection(q, i) == i \in DOMAIN q /\ q[i].type = "BlockConnected"

\* BlockConnected callbacks follow each other: the parent of each block is on the
\* path to the block before, and the tip on the path to the last one.
Follows(q) ==
    /\ \A i \in DOMAIN q : Connection(q, i) => q[i].block # Genesis
    /\ \A i, j \in DOMAIN q :
          (/\ i < j /\ Connection(q, i) /\ Connection(q, j)
           /\ \A k \in DOMAIN q : i < k /\ k < j => ~ Connection(q, k))
          => Parent[q[j].block] \in Ancestors[q[i].block]
EndsAt(q, t) ==
    \A i \in DOMAIN q :
        Connection(q, i) /\ (\A k \in DOMAIN q : i < k => ~ Connection(q, k)) => t \in Ancestors[q[i].block]

\* The best block covers the tip, or some callback will connect to it.
Covering(q, t, b) ==
    t \in ChainOf(b) \/ \E i \in DOMAIN q : Connection(q, i) /\ Parent[q[i].block] \in ChainOf(b)

\* The inductive invariant of the callbacks that are left.
QueueInv ==
    /\ Follows(queue) /\ EndsAt(queue, tip)
    /\ status = "up" /\ m_synced => Covering(queue, tip, m_best_block_index)

-----------------------------------------------------------------------------
(* The block tree.                                                         *)

\* A set of naturals that is not empty has a least element.
LEMMA LeastNat ==
    ASSUME NEW T, T \subseteq Nat, T # {}
    PROVE  \E x \in T : \A y \in T : x <= y
<1> DEFINE R == {ss \in Nat \X Nat : ss[1] < ss[2]}
<1>1. IsWellFoundedOn(R, Nat)
  BY SMT, NatLessThanWellFounded DEF OpToRel
<1>2. ASSUME NEW x \in Nat, NEW y \in Nat, y < x PROVE <<y, x>> \in R
  <2>1. <<y, x>> \in Nat \X Nat /\ <<y, x>>[1] = y /\ <<y, x>>[2] = x
    BY SMT
  <2> QED
    BY SMT, <2>1, <1>2
<1> HIDE DEF R
<1>3. PICK x \in T : \A y \in T : ~(<<y, x>> \in R)
  BY <1>1, WFMin
<1>4. ASSUME NEW y \in T PROVE x <= y
  <2>1. x \in Nat /\ y \in Nat
    BY SMT
  <2>2. ~(y < x)
    BY <2>1, <1>2, <1>3
  <2> QED
    BY SMT, <2>1, <2>2
<1> QED
  BY SMT, <1>4

\* A set of blocks that is not empty and lacks the genesis block holds one whose
\* parent is not in it.
LEMMA LowestBlock ==
    ASSUME NEW S, S \subseteq Blocks \ {Genesis}, S # {}
    PROVE  \E b \in S : Parent[b] \in Blocks \ S
<1> DEFINE T == {nHeight[b] : b \in S}
<1>1. PICK h \in T : \A y \in T : h <= y
  <2>1. T \subseteq Nat /\ T # {}
    BY SMT, TreeAssumption
  <2> QED
    BY <2>1, LeastNat
<1>2. PICK b \in S : nHeight[b] = h
  BY SMT, <1>1
<1>3. Parent[b] \in Blocks /\ nHeight[b] = nHeight[Parent[b]] + 1 /\ nHeight[Parent[b]] \in Nat
  BY SMT, TreeAssumption
<1>4. Parent[b] \notin S
  <2> SUFFICES ASSUME Parent[b] \in S PROVE FALSE
    BY SMT
  <2>1. h <= nHeight[Parent[b]]
    BY SMT, <1>1
  <2> QED
    BY SMT, <1>2, <1>3, <2>1
<1> QED
  BY SMT, <1>3, <1>4

\* The shape of the block tree, with what follows from TreeAssumption for the
\* lowest block that would contradict it: every path begins at the genesis block,
\* is a path to each of its blocks, never comes back, and does not branch.
LEMMA TreeFacts ==
    /\ Genesis \in Blocks /\ None \notin Blocks
    /\ Parent \in [Blocks -> Blocks \cup {None}]
    /\ \A b \in Blocks : Parent[b] = None <=> b = Genesis
    /\ Ancestors \in [Blocks -> SUBSET Blocks]
    /\ Ancestors[Genesis] = {Genesis}
    /\ \A b \in Blocks \ {Genesis} : Ancestors[b] = {b} \cup Ancestors[Parent[b]]
    /\ \A b \in Blocks : Genesis \in Ancestors[b]
    /\ \A b \in Blocks \ {Genesis} : b \notin Ancestors[Parent[b]]
    /\ \A b \in Blocks : \A x \in Ancestors[b] : Ancestors[x] \subseteq Ancestors[b]
    /\ \A b \in Blocks : \A x, y \in Ancestors[b] : x \in Ancestors[y] \/ y \in Ancestors[x]
<1>0. \A b \in Blocks \ {Genesis} : Parent[b] \in Blocks /\ Ancestors[b] = {b} \cup Ancestors[Parent[b]]
  BY TreeAssumption
<1>1. \A b \in Blocks : Genesis \in Ancestors[b]
  <2> DEFINE S == {b \in Blocks : Genesis \notin Ancestors[b]}
  <2> SUFFICES ASSUME S # {} PROVE FALSE
    BY SMT
  <2>1. PICK b \in S : Parent[b] \in Blocks \ S
    BY TreeAssumption, LowestBlock
  <2> QED
    BY SMT, <1>0, <2>1, TreeAssumption
<1>2. \A b \in Blocks : \A x \in Ancestors[b] : Ancestors[x] \subseteq Ancestors[b]
  <2> DEFINE S == {b \in Blocks : \E x \in Ancestors[b] : ~(Ancestors[x] \subseteq Ancestors[b])}
  <2> SUFFICES ASSUME S # {} PROVE FALSE
    BY SMT
  <2>1. PICK b \in S : Parent[b] \in Blocks \ S
    BY TreeAssumption, LowestBlock
  <2> QED
    BY SMT, <1>0, <2>1, TreeAssumption
<1>3. \A b \in Blocks : \A x \in Ancestors[b] : nHeight[x] <= nHeight[b]
  <2> DEFINE S == {b \in Blocks : \E x \in Ancestors[b] : ~(nHeight[x] <= nHeight[b])}
  <2> SUFFICES ASSUME S # {} PROVE FALSE
    BY SMT
  <2>1. S \subseteq Blocks \ {Genesis}
    BY SMT, TreeAssumption
  <2>2. PICK b \in S : Parent[b] \in Blocks \ S
    BY <2>1, LowestBlock
  <2>3. PICK x \in Ancestors[b] : ~(nHeight[x] <= nHeight[b])
    BY SMT
  <2>4. /\ b \in Blocks \ {Genesis} /\ x \in Blocks
        /\ nHeight[b] \in Nat /\ nHeight[x] \in Nat /\ nHeight[Parent[b]] \in Nat
        /\ nHeight[b] = nHeight[Parent[b]] + 1
    BY SMT, <2>1, <2>2, TreeAssumption
  <2>5. x # b /\ x \in Ancestors[Parent[b]]
    BY SMT, <1>0, <2>3, <2>4
  <2>6. nHeight[x] <= nHeight[Parent[b]]
    BY SMT, <2>2, <2>5
  <2> QED
    BY SMT, <2>3, <2>4, <2>6
<1>4. \A b \in Blocks \ {Genesis} : b \notin Ancestors[Parent[b]]
  <2> SUFFICES ASSUME NEW b \in Blocks \ {Genesis}, b \in Ancestors[Parent[b]] PROVE FALSE
    OBVIOUS
  <2>1. nHeight[b] <= nHeight[Parent[b]]
    BY SMT, <1>0, <1>3
  <2> QED
    BY SMT, <1>0, <2>1, TreeAssumption
<1>5. \A b \in Blocks : \A x, y \in Ancestors[b] : x \in Ancestors[y] \/ y \in Ancestors[x]
  <2> DEFINE S == {b \in Blocks : \E x, y \in Ancestors[b] :
                                     x \notin Ancestors[y] /\ y \notin Ancestors[x]}
  <2> SUFFICES ASSUME S # {} PROVE FALSE
    BY SMT
  <2>1. PICK b \in S : Parent[b] \in Blocks \ S
    BY TreeAssumption, LowestBlock
  <2> QED
    BY SMT, <1>0, <2>1, TreeAssumption
<1> QED
  BY SMT, <1>1, <1>2, <1>4, <1>5, TreeAssumption

\* A path climbs: heights grow along it, and it has one block at each height.
LEMMA PathHeights ==
    ASSUME NEW b \in Blocks
    PROVE  /\ \A x \in Ancestors[b] : nHeight[x] <= nHeight[b]
           /\ \A x \in Ancestors[b] : nHeight[x] = nHeight[b] => x = b
           /\ \A x, y \in Ancestors[b] : nHeight[x] = nHeight[y] => x = y
           /\ \A h \in 0..nHeight[b] : \E x \in Ancestors[b] : nHeight[x] = h
<1>0. \A c \in Blocks \ {Genesis} :
         /\ Parent[c] \in Blocks /\ Ancestors[c] = {c} \cup Ancestors[Parent[c]]
         /\ nHeight[c] \in Nat /\ nHeight[Parent[c]] \in Nat /\ nHeight[c] = nHeight[Parent[c]] + 1
  BY SMT, TreeAssumption
<1>1. \A c \in Blocks : \A x \in Ancestors[c] : nHeight[x] <= nHeight[c] /\ (nHeight[x] = nHeight[c] => x = c)
  <2> DEFINE S == {c \in Blocks : \E x \in Ancestors[c] :
                      ~(nHeight[x] <= nHeight[c] /\ (nHeight[x] = nHeight[c] => x = c))}
  <2> SUFFICES ASSUME S # {} PROVE FALSE
    BY SMT
  <2>1. S \subseteq Blocks \ {Genesis}
    BY SMT, TreeAssumption
  <2>2. PICK c \in S : Parent[c] \in Blocks \ S
    BY <2>1, LowestBlock
  <2>3. PICK x \in Ancestors[c] : ~(nHeight[x] <= nHeight[c] /\ (nHeight[x] = nHeight[c] => x = c))
    BY SMT
  <2>4. c \in Blocks \ {Genesis} /\ x \in Blocks /\ nHeight[x] \in Nat
    BY SMT, <2>1, TreeAssumption
  <2>5. x # c /\ x \in Ancestors[Parent[c]]
    BY SMT, <1>0, <2>3, <2>4
  <2>6. nHeight[x] <= nHeight[Parent[c]]
    BY SMT, <2>2, <2>5
  <2> QED
    BY SMT, <1>0, <2>3, <2>4, <2>6
<1>2. ASSUME NEW x \in Ancestors[b], NEW y \in Ancestors[b], nHeight[x] = nHeight[y] PROVE x = y
  BY SMT, <1>1, <1>2, TreeFacts
<1>3. \A c \in Blocks : \A h \in 0..nHeight[c] : \E x \in Ancestors[c] : nHeight[x] = h
  <2> DEFINE S == {c \in Blocks : \E h \in 0..nHeight[c] : \A x \in Ancestors[c] : nHeight[x] # h}
  <2> SUFFICES ASSUME S # {} PROVE FALSE
    BY SMT
  <2>1. S \subseteq Blocks \ {Genesis}
    BY SMT, TreeAssumption
  <2>2. PICK c \in S : Parent[c] \in Blocks \ S
    BY <2>1, LowestBlock
  <2>3. PICK h \in 0..nHeight[c] : \A x \in Ancestors[c] : nHeight[x] # h
    BY SMT
  <2>4. c \in Blocks \ {Genesis} /\ c \in Ancestors[c] /\ h # nHeight[c]
    BY SMT, <1>0, <2>1, <2>3
  <2>5. h \in 0..nHeight[Parent[c]]
    BY SMT, <1>0, <2>3, <2>4
  <2>6. PICK x \in Ancestors[Parent[c]] : nHeight[x] = h
    BY SMT, <2>2, <2>5
  <2> QED
    BY SMT, <1>0, <2>3, <2>4, <2>6
<1> QED
  BY SMT, <1>1, <1>2, <1>3

\* A block that is not the last of a path has its successor there.
LEMMA ChildOnPath ==
    ASSUME NEW b \in Blocks, NEW x \in Ancestors[b], x # b
    PROVE  \E c \in Ancestors[b] : c # Genesis /\ Parent[c] = x
<1> DEFINE S == {c \in Ancestors[b] : x \in Ancestors[c] /\ c # x}
<1>1. S \subseteq Blocks \ {Genesis} /\ b \in S
  BY SMT, TreeFacts
<1>2. PICK c \in S : Parent[c] \in Blocks \ S
  BY <1>1, LowestBlock
<1>3. c \in Blocks \ {Genesis} /\ Parent[c] \in Blocks /\ Ancestors[c] = {c} \cup Ancestors[Parent[c]]
  BY SMT, <1>1, TreeFacts
<1>4. Parent[c] \in Ancestors[Parent[c]] /\ Ancestors[c] \subseteq Ancestors[b]
  BY SMT, <1>3, TreeFacts
<1>5. Parent[c] = x
  BY SMT, <1>2, <1>3, <1>4
<1> QED
  BY SMT, <1>1, <1>5

\* GetAncestor finds the block of a path at each of its heights, and the one below
\* it is its parent.
LEMMA GetAncestorFacts ==
    ASSUME NEW b \in Blocks, NEW h \in 0..nHeight[b]
    PROVE  /\ GetAncestor(b, h) \in Ancestors[b] /\ nHeight[GetAncestor(b, h)] = h
           /\ h > 0 => GetAncestor(b, h) # Genesis /\ Parent[GetAncestor(b, h)] = GetAncestor(b, h - 1)
<1>1. \A k \in 0..nHeight[b] : GetAncestor(b, k) \in Ancestors[b] /\ nHeight[GetAncestor(b, k)] = k
  BY SMT, PathHeights DEF GetAncestor
<1>2. ASSUME h > 0 PROVE GetAncestor(b, h) # Genesis /\ Parent[GetAncestor(b, h)] = GetAncestor(b, h - 1)
  <2> DEFINE c == GetAncestor(b, h)
             p == GetAncestor(b, h - 1)
  <2>1. nHeight[b] \in Nat /\ h - 1 \in 0..nHeight[b]
    BY SMT, <1>2, TreeAssumption
  <2>2. c \in Ancestors[b] /\ nHeight[c] = h /\ p \in Ancestors[b] /\ nHeight[p] = h - 1
    BY SMT, <1>1, <2>1
  <2> HIDE DEF c, p
  <2>3. c \in Blocks /\ c # Genesis
    BY SMT, <1>2, <2>2, TreeAssumption
  <2>4. Parent[c] \in Ancestors[b] /\ nHeight[Parent[c]] = h - 1
    <3>1. Parent[c] \in Blocks /\ Ancestors[c] = {c} \cup Ancestors[Parent[c]]
          /\ nHeight[c] = nHeight[Parent[c]] + 1 /\ nHeight[Parent[c]] \in Nat
      BY SMT, <2>3, TreeAssumption
    <3>2. Parent[c] \in Ancestors[c] /\ Ancestors[c] \subseteq Ancestors[b]
      BY SMT, <2>2, <3>1, TreeFacts
    <3> QED
      BY SMT, <2>2, <3>1, <3>2
  <2>5. Parent[c] = p
    BY SMT, <2>2, <2>4, PathHeights
  <2> QED
    BY SMT, <2>3, <2>5 DEF c, p
<1> QED
  BY SMT, <1>1, <1>2

\* Two paths share the path to their last common block, and no more.
LEMMA LastCommonFacts ==
    ASSUME NEW a \in Blocks, NEW b \in Blocks
    PROVE  /\ LastCommon(a, b) \in Ancestors[a] \cap Ancestors[b]
           /\ \A y \in Ancestors[a] \cap Ancestors[b] : y \in Ancestors[LastCommon(a, b)]
<1> DEFINE C == Ancestors[a] \cap Ancestors[b]
           T == {nHeight[a] - nHeight[y] : y \in C}
<1>1. C \subseteq Blocks /\ Genesis \in C
  BY SMT, TreeFacts
<1>2. \A y \in C : nHeight[y] \in Nat /\ nHeight[y] <= nHeight[a]
  BY SMT, <1>1, PathHeights, TreeAssumption
<1>3. nHeight[a] \in Nat
  BY SMT, TreeAssumption
<1>4. T \subseteq Nat /\ T # {}
  BY SMT, <1>1, <1>2, <1>3
<1>5. PICK d \in T : \A e \in T : d <= e
  BY <1>4, LeastNat
<1>6. PICK x \in C : d = nHeight[a] - nHeight[x]
  BY SMT, <1>5
<1>7. ASSUME NEW y \in C PROVE nHeight[y] <= nHeight[x]
  <2>1. d <= nHeight[a] - nHeight[y]
    BY SMT, <1>5
  <2> QED
    BY SMT, <1>2, <1>3, <1>6, <2>1
<1>8. LastCommon(a, b) \in C /\ \A y \in C : nHeight[y] <= nHeight[LastCommon(a, b)]
  BY SMT, <1>7 DEF LastCommon
<1>9. ASSUME NEW y \in C PROVE y \in Ancestors[LastCommon(a, b)]
  <2> DEFINE z == LastCommon(a, b)
  <2>1. z \in Ancestors[a] /\ y \in Ancestors[a] /\ z \in Blocks /\ y \in Blocks /\ nHeight[y] <= nHeight[z]
    BY SMT, <1>1, <1>8
  <2> HIDE DEF z
  <2>2. y \in Ancestors[z] \/ z \in Ancestors[y]
    BY SMT, <2>1, TreeFacts
  <2>3. CASE z \in Ancestors[y]
    <3>1. nHeight[z] <= nHeight[y] /\ nHeight[z] \in Nat /\ nHeight[y] \in Nat
      BY SMT, <2>1, <2>3, PathHeights, TreeAssumption
    <3>2. nHeight[z] = nHeight[y]
      BY SMT, <2>1, <3>1
    <3>3. z = y
      BY SMT, <2>1, <2>3, <3>2, PathHeights
    <3> QED
      BY SMT, <2>1, <3>3, TreeFacts DEF z
  <2> QED
    BY SMT, <2>2, <2>3 DEF z
<1> QED
  BY SMT, <1>8, <1>9

-----------------------------------------------------------------------------
(* The statistics and the entries.                                         *)

\* The path to a block, and to none, without its last block.
LEMMA ChainFacts ==
    ASSUME NEW b \in Blocks
    PROVE  /\ Parent[b] \in MaybeBlock /\ ChainOf(b) = Ancestors[b] /\ b \in ChainOf(b)
           /\ ChainOf(b) = {b} \cup ChainOf(Parent[b]) /\ b \notin ChainOf(Parent[b])
           /\ ChainOf(b) \subseteq Blocks
           /\ \A x \in ChainOf(Parent[b]) : nHeight[x] # nHeight[b]
<1>1. /\ Parent[b] \in MaybeBlock /\ ChainOf(b) = Ancestors[b] /\ b \in ChainOf(b)
      /\ ChainOf(b) = {b} \cup ChainOf(Parent[b]) /\ b \notin ChainOf(Parent[b])
      /\ ChainOf(b) \subseteq Blocks
  BY SMT, TreeFacts DEF ChainOf, MaybeBlock
<1>2. ASSUME NEW x \in ChainOf(Parent[b]), nHeight[x] = nHeight[b] PROVE FALSE
  <2>1. x \in Ancestors[b]
    BY SMT, <1>1
  <2>2. x = b
    BY SMT, <1>2, <2>1, PathHeights
  <2> QED
    BY SMT, <1>1, <2>2
<1> QED
  BY SMT, <1>1, <1>2

\* The statistics of a block are its own.
LEMMA ValueFacts ==
    ASSUME NEW b \in MaybeBlock
    PROVE  /\ Value(b) \in Stats /\ Value(b) # None
           /\ \A a \in MaybeBlock : Value(a) = Value(b) => a = b
<1>1. Value(b) \in Stats /\ Value(b) # None
  BY SMT, NoneAssumption DEF Value, Stats
<1>2. ASSUME NEW a \in MaybeBlock, Value(a) = Value(b) PROVE a = b
  <2>1. \A c \in MaybeBlock : ChainOf(c) = {x \in Blocks : Value(c)[x] = 1}
    <3> TAKE c \in MaybeBlock
    <3>1. ChainOf(c) \subseteq Blocks
      BY SMT, TreeFacts DEF ChainOf, MaybeBlock
    <3>2. \A x \in Blocks : Value(c)[x] = IF x \in ChainOf(c) THEN 1 ELSE 0
      BY SMT DEF Value
    <3>3. ASSUME NEW x \in Blocks PROVE x \in ChainOf(c) <=> Value(c)[x] = 1
      <4>1. CASE x \in ChainOf(c)
        BY SMT, <3>2, <4>1
      <4>2. CASE x \notin ChainOf(c)
        <5>1. Value(c)[x] = 0
          BY SMT, <3>2, <4>2
        <5> QED
          BY SMT, <4>2, <5>1
      <4> QED
        BY SMT, <4>1, <4>2
    <3> QED
      BY SMT, <3>1, <3>3
  <2>2. ChainOf(a) = ChainOf(b)
    BY SMT, <1>2, <2>1
  <2>3. CASE a = None \/ b = None
    BY SMT, <2>2, <2>3, TreeFacts DEF ChainOf, MaybeBlock
  <2>4. CASE a \in Blocks /\ b \in Blocks
    <3>1. a \in Ancestors[b] /\ b \in Ancestors[a]
      BY SMT, <2>2, <2>4, ChainFacts
    <3>2. nHeight[a] = nHeight[b]
      BY SMT, <2>4, <3>1, PathHeights, TreeAssumption
    <3> QED
      BY SMT, <2>4, <3>1, <3>2, PathHeights
  <2> QED
    BY SMT, <2>3, <2>4 DEF MaybeBlock
<1> QED
  BY SMT, <1>1, <1>2

\* LookUpOne finds the statistics of a block or nothing; it finds a block of the
\* current path, and one that was copied.
LEMMA LookUpFacts ==
    ASSUME NEW d, EntriesTrue(d), NEW b \in Blocks
    PROVE  /\ LookUpOne(d, b) # None => LookUpOne(d, b) = Value(b)
           /\ Copied(d, b) => LookUpOne(d, b) = Value(b)
           /\ \A c \in MaybeBlock : OnPath(d, c) /\ b \in ChainOf(c) => LookUpOne(d, b) = Value(b)
<1>1. nHeight[b] \in Heights
  BY SMT DEF Heights
<1>2. d.height[nHeight[b]] \in Entry \cup {None}
  BY SMT, <1>1 DEF EntriesTrue, Database
<1>3. LookUpOne(d, b) # None => LookUpOne(d, b) = Value(b)
  BY <1>1 DEF EntriesTrue, LookUpOne
<1>4. Copied(d, b) => LookUpOne(d, b) = Value(b)
  BY SMT, <1>1 DEF EntriesTrue, LookUpOne, Copied
<1>5. ASSUME NEW c \in MaybeBlock, OnPath(d, c), b \in ChainOf(c) PROVE LookUpOne(d, b) = Value(b)
  <2>1. d.height[nHeight[b]] = [block |-> b, value |-> Value(b)]
    BY SMT, <1>5 DEF OnPath
  <2>2. Value(b) \in Stats
    BY SMT, ValueFacts DEF MaybeBlock
  <2>3. d.height[nHeight[b]] # None /\ d.height[nHeight[b]].block = b /\ d.height[nHeight[b]].value = Value(b)
    BY SMT, <2>1, <2>2, NoneAssumption DEF Stats
  <2> QED
    BY SMT, <2>3 DEF LookUpOne
<1> QED
  BY SMT, <1>3, <1>4, <1>5

\* CustomAppend on top of the current path: the parent is found, the totals are
\* those of the block, and the block is on the path now.
LEMMA AppendFacts ==
    ASSUME NEW d, EntriesTrue(d), NEW b \in Blocks, OnPath(d, Parent[b]), NEW m, m = Value(Parent[b])
    PROVE  /\ CanAppend(d, b)
           /\ Counted(m, b) = Value(b)
           /\ EntriesTrue(Appended(d, m, b)) /\ OnPath(Appended(d, m, b), b)
           /\ \A c \in MaybeBlock : OnPath(d, c) /\ (c = None \/ c \in ChainOf(Parent[b]))
                                    => OnPath(Appended(d, m, b), c)
           /\ \A x \in Blocks : Copied(d, x) => Copied(Appended(d, m, b), x)
           /\ Appended(d, m, b).best = d.best /\ Appended(d, m, b).muhash = d.muhash
<1> DEFINE v == Value(b)
           h == nHeight[b]
           e == Appended(d, m, b)
<1>1. Parent[b] \in MaybeBlock /\ ChainOf(Parent[b]) \subseteq Blocks
  BY SMT, ChainFacts
<1>2. CanAppend(d, b)
  <2> SUFFICES ASSUME b # Genesis PROVE LookUpOne(d, Parent[b]) # None
    BY SMT DEF CanAppend
  <2>1. Parent[b] \in Blocks
    BY SMT, TreeFacts
  <2>2. Parent[b] \in ChainOf(Parent[b])
    BY SMT, <2>1, ChainFacts
  <2> QED
    BY <1>1, <2>1, <2>2, LookUpFacts, ValueFacts
<1>3. Counted(m, b) = v
  <2>1. b \notin ChainOf(Parent[b]) /\ ChainOf(b) = {b} \cup ChainOf(Parent[b])
    BY SMT, ChainFacts
  <2>2. \A x \in Blocks : m[x] = IF x \in ChainOf(Parent[b]) THEN 1 ELSE 0
    BY DEF Value
  <2>3. m = [x \in Blocks |-> m[x]]
    BY SMT DEF Value
  <2>4. Counted(m, b) = [x \in Blocks |-> IF x = b THEN m[b] + 1 ELSE m[x]]
    BY <2>3 DEF Counted
  <2>5. ASSUME NEW x \in Blocks
        PROVE  (IF x = b THEN m[b] + 1 ELSE m[x]) = IF x \in ChainOf(b) THEN 1 ELSE 0
    <3>1. CASE x = b
      <4>1. m[b] = 0
        BY SMT, <2>1, <2>2
      <4> QED
        BY SMT, <2>1, <3>1, <4>1
    <3>2. CASE x # b
      BY SMT, <2>1, <2>2, <3>2
    <3> QED
      BY SMT, <3>1, <3>2
  <2>6. Counted(m, b) = [x \in Blocks |-> IF x \in ChainOf(b) THEN 1 ELSE 0]
    BY SMT, <2>4, <2>5
  <2> QED
    BY SMT, <2>6 DEF Value
<1>4. v \in Stats /\ h \in Heights
  BY SMT, ValueFacts DEF MaybeBlock, Heights
<1>5. e = [d EXCEPT !.height[h] = [block |-> b, value |-> v]]
  BY SMT, <1>3 DEF Appended
<1> HIDE DEF v, e
<1>6. [block |-> b, value |-> v] \in Entry
  BY SMT, <1>4 DEF Entry
<1>7. /\ e \in Database
      /\ e.hash = d.hash /\ e.best = d.best /\ e.muhash = d.muhash
      /\ e.height = [d.height EXCEPT ![h] = [block |-> b, value |-> v]]
  BY SMT, <1>4, <1>5, <1>6 DEF EntriesTrue, Database
<1>8. e.height[h] = [block |-> b, value |-> v] /\ \A k \in Heights \ {h} : e.height[k] = d.height[k]
  BY SMT, <1>4, <1>7 DEF EntriesTrue, Database
<1>9. EntriesTrue(e)
  <2>1. ASSUME NEW k \in Heights, e.height[k] # None
        PROVE  nHeight[e.height[k].block] = k /\ e.height[k].value = Value(e.height[k].block)
    BY SMT, <1>8, <2>1 DEF EntriesTrue, v
  <2> QED
    BY <1>7, <2>1 DEF EntriesTrue
<1>10. ASSUME NEW x \in ChainOf(Parent[b]), d.height[nHeight[x]] = [block |-> x, value |-> Value(x)]
       PROVE  e.height[nHeight[x]] = [block |-> x, value |-> Value(x)]
  <2>1. nHeight[x] \in Heights \ {h}
    BY <1>1, ChainFacts DEF Heights
  <2> QED
    BY <1>8, <1>10, <2>1
<1>11. OnPath(e, b)
  <2>1. ChainOf(b) = {b} \cup ChainOf(Parent[b])
    BY ChainFacts
  <2> QED
    BY <1>8, <1>10, <2>1 DEF OnPath, v
<1>12. ASSUME NEW c \in MaybeBlock, OnPath(d, c), c = None \/ c \in ChainOf(Parent[b])
       PROVE  OnPath(e, c)
  <2>1. ChainOf(c) \subseteq ChainOf(Parent[b])
    BY SMT, <1>12, TreeFacts DEF ChainOf, MaybeBlock
  <2> QED
    BY <1>10, <1>12, <2>1 DEF OnPath
<1>13. ASSUME NEW x \in Blocks, Copied(d, x) PROVE Copied(e, x)
  <2>1. nHeight[x] \in Heights
    BY SMT DEF Heights
  <2>2. [block |-> b, value |-> v] # None
    BY SMT, <1>6, NoneAssumption DEF Entry, Stats
  <2> QED
    BY <1>7, <1>8, <1>13, <2>1, <2>2 DEF Copied
<1> QED
  BY <1>2, <1>3, <1>7, <1>9, <1>11, <1>12, <1>13 DEF e, v

\* A block of the current path has its entry by height.
LEMMA PathEntry ==
    ASSUME NEW d, NEW c \in MaybeBlock, OnPath(d, c), NEW x \in ChainOf(c)
    PROVE  /\ x \in Blocks /\ d.height[nHeight[x]] # None
           /\ d.height[nHeight[x]].block = x /\ d.height[nHeight[x]].value = Value(x)
<1>1. x \in Blocks
  BY SMT, TreeFacts DEF ChainOf, MaybeBlock
<1>2. Value(x) \in Stats
  BY SMT, <1>1, ValueFacts DEF MaybeBlock
<1>3. d.height[nHeight[x]] = [block |-> x, value |-> Value(x)]
  BY DEF OnPath
<1> QED
  BY SMT, <1>1, <1>2, <1>3, NoneAssumption DEF Stats

\* CopyHeightIndexToHashIndex finds every entry between the two blocks, writes no
\* wrong one, and copies what will be taken back.
LEMMA CopyFacts ==
    ASSUME NEW d, EntriesTrue(d), NEW cur \in Blocks, NEW new \in Ancestors[cur], OnPath(d, cur)
    PROVE  LET e == CopyHeightIndexToHashIndex(d, cur, new)
           IN  /\ CanCopy(d, cur, new) /\ EntriesTrue(e)
               /\ e.height = d.height /\ e.best = d.best /\ e.muhash = d.muhash
               /\ \A x \in Ancestors[cur] \ Ancestors[new] : Copied(e, x)
               /\ \A x \in Blocks : Copied(d, x) => Copied(e, x)
<1> DEFINE e == CopyHeightIndexToHashIndex(d, cur, new)
           T(b) == /\ nHeight[b] >= nHeight[new] /\ nHeight[b] <= nHeight[cur]
                   /\ d.height[nHeight[b]].block = b
           H == [b \in Blocks |-> IF T(b) THEN d.height[nHeight[b]].value ELSE d.hash[b]]
<1>1. cur \in MaybeBlock /\ ChainOf(cur) = Ancestors[cur] /\ new \in Blocks /\ Ancestors[cur] \subseteq Blocks
  BY SMT, ChainFacts, TreeFacts DEF MaybeBlock
<1>2. nHeight[new] \in Nat /\ nHeight[cur] \in Nat /\ nHeight[new] <= nHeight[cur]
  BY SMT, <1>1, PathHeights, TreeAssumption
<1>3. ASSUME NEW h \in nHeight[new]..nHeight[cur] PROVE d.height[h] # None /\ h \in Heights
  <2>1. h \in 0..nHeight[cur]
    BY SMT, <1>2
  <2>2. PICK x \in Ancestors[cur] : nHeight[x] = h
    BY SMT, <2>1, PathHeights
  <2> QED
    BY <1>1, <2>2, PathEntry DEF Heights
<1>4. CanCopy(d, cur, new)
  BY SMT, <1>3 DEF CanCopy
<1>5. ASSUME NEW b \in Blocks, T(b)
      PROVE  d.height[nHeight[b]] # None /\ d.height[nHeight[b]].value = Value(b) /\ H[b] = Value(b)
  <2>1. nHeight[b] \in nHeight[new]..nHeight[cur]
    BY SMT, <1>2, <1>5, TreeAssumption
  <2> QED
    BY <1>3, <1>5, <2>1 DEF EntriesTrue
<1>6. H \in [Blocks -> Stats \cup {None}] /\ \A b \in Blocks : H[b] # None => H[b] = Value(b)
  <2>1. ASSUME NEW b \in Blocks PROVE H[b] \in Stats \cup {None} /\ (H[b] # None => H[b] = Value(b))
    <3>1. CASE T(b)
      BY <1>5, <3>1, ValueFacts DEF MaybeBlock
    <3>2. CASE ~ T(b)
      BY <3>2 DEF EntriesTrue, Database
    <3> QED
      BY <3>1, <3>2
  <2> QED
    BY <2>1
<1>7. e = [d EXCEPT !.hash = H]
  BY SMT DEF CopyHeightIndexToHashIndex
<1> HIDE DEF H, e
<1>8. /\ e \in Database /\ e.hash = H
      /\ e.height = d.height /\ e.best = d.best /\ e.muhash = d.muhash
  BY SMT, <1>6, <1>7 DEF EntriesTrue, Database
<1>9. EntriesTrue(e)
  BY <1>6, <1>8 DEF EntriesTrue
<1>10. ASSUME NEW x \in Ancestors[cur] \ Ancestors[new] PROVE Copied(e, x)
  <2>1. x \in Blocks /\ new \in Ancestors[x]
    BY SMT, <1>1, TreeFacts
  <2>2. nHeight[new] <= nHeight[x] /\ nHeight[x] <= nHeight[cur] /\ nHeight[x] \in Nat
    BY <1>1, <2>1, PathHeights, TreeAssumption
  <2>3. T(x)
    BY SMT, <1>1, <1>2, <2>2, PathEntry
  <2> QED
    BY <1>5, <1>8, <2>1, <2>3 DEF Copied
<1>11. ASSUME NEW x \in Blocks, Copied(d, x) PROVE Copied(e, x)
  <2>1. H[x] = Value(x)
    <3>1. CASE T(x)
      BY <1>5, <3>1
    <3>2. CASE ~ T(x)
      BY <1>11, <3>2 DEF H, Copied
    <3> QED
      BY SMT, <3>1, <3>2
  <2> QED
    BY SMT, <1>8, <1>11, <2>1 DEF Copied
<1> QED
  BY SMT, <1>4, <1>8, <1>9, <1>10, <1>11 DEF e

\* ReverseBlock takes the totals back to those of the block below, which is what it
\* finds there.
LEMMA ReverseFacts ==
    ASSUME NEW d, EntriesTrue(d), NEW cur \in Blocks, NEW new \in Ancestors[cur], OnPath(d, cur),
           NEW m, m = Value(cur)
    PROVE  Reversed(m, cur, new) = Value(new) /\ CanReverse(d, m, cur, new)
<1>1. cur \in MaybeBlock /\ ChainOf(cur) = Ancestors[cur] /\ Ancestors[cur] \subseteq Blocks
  BY SMT, ChainFacts, TreeFacts DEF MaybeBlock
<1>2. ASSUME NEW p \in Ancestors[cur] PROVE Reversed(m, cur, p) = Value(p)
  <2>1. p \in Blocks /\ ChainOf(p) = Ancestors[p] /\ Ancestors[p] \subseteq Ancestors[cur]
    BY <1>1, ChainFacts, TreeFacts
  <2>2. \A x \in Blocks : m[x] = IF x \in Ancestors[cur] THEN 1 ELSE 0
    BY <1>1 DEF Value
  <2>3. ASSUME NEW x \in Blocks
        PROVE  (IF x \in Ancestors[cur] \ Ancestors[p] THEN m[x] - 1 ELSE m[x])
                  = IF x \in ChainOf(p) THEN 1 ELSE 0
    <3>1. CASE x \in Ancestors[cur] \ Ancestors[p]
      <4>1. m[x] = 1
        BY SMT, <2>2, <3>1
      <4> QED
        BY SMT, <2>1, <3>1, <4>1
    <3>2. CASE x \notin Ancestors[cur] \ Ancestors[p]
      BY <2>1, <2>2, <3>2
    <3> QED
      BY <3>1, <3>2
  <2> QED
    BY SMT, <2>3 DEF Reversed, Value
<1>3. ASSUME NEW b \in Ancestors[cur] \ Ancestors[new]
      PROVE  LookUpOne(d, Parent[b]) = Reversed(m, cur, Parent[b])
  <2>1. b \in Blocks \ {Genesis}
    BY SMT, <1>1, TreeFacts
  <2>2. Parent[b] \in Blocks /\ Parent[b] \in Ancestors[b]
    BY SMT, <2>1, TreeFacts
  <2>3. Parent[b] \in Ancestors[cur]
    BY SMT, <2>2, TreeFacts
  <2> QED
    BY <1>1, <1>2, <2>2, <2>3, LookUpFacts
<1> QED
  BY <1>2, <1>3 DEF CanReverse

\* Commit on a block of the current path: what is no longer below the best block
\* must have been copied.
LEMMA CommitFacts ==
    ASSUME NEW d, NEW c, DiskOK(d, c), NEW b \in MaybeBlock, NEW m, m = Value(b), OnPath(d, b),
           b # None => \A x \in ChainOf(d.best) \ ChainOf(b) : Copied(d, x)
    PROVE  LET e == Committed(d, b, m)
           IN  /\ DiskOK(e, c \cup ChainOf(b))
               /\ e.height = d.height /\ e.hash = d.hash /\ (b # None => e.best = b)
               /\ b = None => e = d
<1> DEFINE e == Committed(d, b, m)
<1>0. ChainOf(b) \subseteq Blocks
  BY SMT, TreeFacts DEF ChainOf, MaybeBlock
<1>1. CASE b = None
  BY SMT, <1>1 DEF Committed, ChainOf, DiskOK
<1>2. CASE b # None
  <2>1. m \in Stats
    BY SMT, ValueFacts
  <2>2. e = [d EXCEPT !.best = b, !.muhash = m]
    BY SMT, <1>2 DEF Committed
  <2> HIDE DEF e
  <2>3. e \in Database /\ e.height = d.height /\ e.hash = d.hash /\ e.best = b /\ e.muhash = m
    BY <2>1, <2>2 DEF DiskOK, EntriesTrue, Database
  <2>4. EntriesTrue(e)
    BY <2>3 DEF DiskOK, EntriesTrue
  <2>5. OnPath(e, b)
    BY <2>3 DEF OnPath
  <2>6. \A x \in Blocks : Copied(d, x) => Copied(e, x)
    BY <2>3 DEF Copied
  <2>7. ASSUME NEW x \in (c \cup ChainOf(b)) \ ChainOf(b) PROVE Copied(e, x)
    BY <1>2, <2>6 DEF DiskOK
  <2> QED
    BY <1>0, <1>2, <2>3, <2>4, <2>5, <2>7 DEF DiskOK, e
<1> QED
  BY SMT, <1>1, <1>2

-----------------------------------------------------------------------------
(* The steps that keep IndexInv.                                           *)

\* What is on disk after b was added on top of the current path,
LEMMA AppendDisk ==
    ASSUME NEW d, NEW c, DiskOK(d, c), NEW b \in Blocks, OnPath(d, Parent[b]),
           NEW m, m = Value(Parent[b]), d.best # None => d.best \in ChainOf(Parent[b])
    PROVE  /\ CanAppend(d, b) /\ Counted(m, b) = Value(b)
           /\ DiskOK(Appended(d, m, b), c) /\ OnPath(Appended(d, m, b), b)
           /\ Appended(d, m, b).best # None => Appended(d, m, b).best \in ChainOf(b)
<1> DEFINE e == Appended(d, m, b)
<1>1. EntriesTrue(d) /\ OnPath(d, d.best) /\ d.best \in MaybeBlock /\ c \subseteq Blocks
  BY DEF DiskOK, EntriesTrue, Database
<1>2. /\ CanAppend(d, b) /\ Counted(m, b) = Value(b) /\ EntriesTrue(e) /\ OnPath(e, b)
      /\ OnPath(e, d.best) /\ e.best = d.best /\ e.muhash = d.muhash
      /\ \A x \in Blocks : Copied(d, x) => Copied(e, x)
  BY <1>1, AppendFacts
<1>3. ChainOf(b) = {b} \cup ChainOf(Parent[b])
  BY ChainFacts
<1> HIDE DEF e
<1>4. DiskOK(e, c)
  BY <1>1, <1>2 DEF DiskOK
<1> QED
  BY <1>2, <1>3, <1>4 DEF e

\* and after the index was taken back to new and this was committed.
LEMMA RewindDisk ==
    ASSUME NEW d, NEW c, DiskOK(d, c), NEW cur \in Blocks, NEW new \in Ancestors[cur], OnPath(d, cur),
           d.best # None => d.best \in Ancestors[cur],
           \A x \in Ancestors[cur] \ Ancestors[new] : Copied(d, x)
    PROVE  LET e == Committed(d, new, Value(new))
           IN  DiskOK(e, c \cup ChainOf(new)) /\ OnPath(e, new) /\ e.best = new
<1>1. new \in Blocks /\ new \in MaybeBlock /\ new # None /\ ChainOf(new) = Ancestors[new]
      /\ Ancestors[new] \subseteq Ancestors[cur]
  BY ChainFacts, TreeFacts DEF MaybeBlock
<1>2. OnPath(d, new)
  BY SMT, <1>1, ChainFacts DEF OnPath
<1>3. ChainOf(d.best) \subseteq Ancestors[cur]
  BY SMT, TreeFacts DEF ChainOf
<1>4. \A x \in ChainOf(d.best) \ ChainOf(new) : Copied(d, x)
  BY <1>1, <1>3
<1> DEFINE e == Committed(d, new, Value(new))
<1>5. DiskOK(e, c \cup ChainOf(new)) /\ e.height = d.height /\ e.best = new
  BY SMT, <1>1, <1>2, <1>4, CommitFacts
<1> HIDE DEF e
<1>6. OnPath(e, new)
  BY <1>2, <1>5 DEF OnPath
<1> QED
  BY <1>5, <1>6 DEF e

\* A commit of the current block.
LEMMA CommitCurrent ==
    ASSUME IndexInv, status = "up", Commit(db, Current, m_muhash)
    PROVE  /\ DiskOK(db', committed') /\ OnPath(db', Current)
           /\ db'.best # None => db'.best \in ChainOf(Current)
<1>1. /\ DiskOK(db, committed) /\ m_muhash = Value(Current) /\ OnPath(db, Current)
      /\ db.best # None => db.best \in ChainOf(Current)
  BY DEF IndexInv, RunInv
<1>2. Current \in MaybeBlock
  BY SMT, TreeFacts DEF IndexInv, MemoryOK, Current, MaybeBlock
<1> DEFINE cur == Current
<1>3. db' = Committed(db, cur, m_muhash) /\ committed' = committed \cup ChainOf(cur)
  BY DEF Commit
<1> HIDE DEF cur
<1>4. ChainOf(db.best) \subseteq ChainOf(cur)
  BY SMT, <1>1, <1>2, TreeFacts DEF ChainOf, MaybeBlock, cur
<1>5. /\ DiskOK(db', committed') /\ db'.height = db.height
      /\ cur # None => db'.best = cur
      /\ cur = None => db' = db
  BY SMT, <1>1, <1>2, <1>3, <1>4, CommitFacts DEF cur
<1>6. OnPath(db', cur)
  BY <1>1, <1>5 DEF OnPath, cur
<1>7. db'.best # None => db'.best \in ChainOf(cur)
  BY SMT, <1>1, <1>2, <1>5, ChainFacts DEF cur, MaybeBlock
<1> QED
  BY SMT, <1>5, <1>6, <1>7 DEF cur

\* A step of the chain or of the node that the index does not see.
LEMMA SameIndex ==
    ASSUME IndexInv, UNCHANGED <<memVars, cb, status, db, committed>>, MemoryOK',
           cb # "idle" /\ queue # <<>> => queue' # <<>> /\ Head(queue') = Head(queue)
    PROVE  IndexInv'
<1>1. Current' = Current
  BY DEF Current, memVars
<1>2. CallbackInv => CallbackInv'
  BY DEF CallbackInv, block, Copied, memVars
<1>3. RunInv'
  BY SMT, <1>1, <1>2 DEF IndexInv, RunInv, memVars, OnPath
<1> QED
  BY SMT, <1>3 DEF IndexInv, DiskOK

\* SyncInterrupted keeps IndexInv.
LEMMA SyncInterruptedIndex ==
    ASSUME IndexInv, SyncInterrupted
    PROVE  IndexInv'
<1>1. status = "up" /\ Current = pindex /\ ~ m_synced /\ cb = "idle"
  BY DEF IndexInv, RunInv, CallbackInv, MemoryOK, SyncInterrupted, Current
<1>2. /\ DiskOK(db', committed') /\ OnPath(db', pindex)
      /\ db'.best # None => db'.best \in ChainOf(pindex)
  BY SMT, <1>1, CommitCurrent DEF SyncInterrupted
<1>3. Current' = pindex
  BY DEF SyncInterrupted, Current
<1>4. RunInv'
  BY <1>1, <1>2, <1>3 DEF SyncInterrupted, IndexInv, RunInv, CallbackInv, callVars
<1>5. MemoryOK' /\ status' # "fatal"
  BY <1>1 DEF SyncInterrupted, IndexInv, MemoryOK, chainVars, callVars, nodeVars
<1> QED
  BY <1>2, <1>4, <1>5 DEF IndexInv

\* SyncDone keeps IndexInv.
LEMMA SyncDoneIndex ==
    ASSUME IndexInv, SyncDone
    PROVE  IndexInv'
<1>1. status = "up" /\ Current = pindex /\ ~ m_synced /\ cb = "idle"
  BY DEF IndexInv, RunInv, CallbackInv, MemoryOK, SyncDone, Current
<1>2. /\ DiskOK(db', committed') /\ OnPath(db', pindex)
      /\ db'.best # None => db'.best \in ChainOf(pindex)
  BY SMT, <1>1, CommitCurrent DEF SyncDone
<1>3. Current' = pindex /\ pindex # None
  BY DEF SyncDone, Current, NextSyncBlock
<1>4. RunInv'
  BY <1>1, <1>2, <1>3 DEF SyncDone, IndexInv, RunInv, CallbackInv, callVars
<1>5. MemoryOK' /\ status' # "fatal"
  BY <1>1, <1>3 DEF SyncDone, IndexInv, MemoryOK, chainVars, callVars, nodeVars
<1> QED
  BY SMT, <1>2, <1>4, <1>5 DEF IndexInv

\* SyncLocator keeps IndexInv.
LEMMA SyncLocatorIndex ==
    ASSUME IndexInv, SyncLocator
    PROVE  IndexInv'
<1>1. status = "up" /\ Current = Parent[pindex] /\ pindex \in Blocks /\ ~ m_synced /\ cb = "idle"
  BY DEF IndexInv, RunInv, CallbackInv, MemoryOK, SyncLocator, Current
<1>2. /\ DiskOK(db', committed') /\ OnPath(db', Current)
      /\ db'.best # None => db'.best \in ChainOf(Current)
  <2>1. CASE UNCHANGED <<m_best_block_index, db, committed>>
    BY SMT, <1>1, <2>1 DEF IndexInv, RunInv
  <2>2. CASE Commit(db, Parent[pindex], m_muhash)
    BY <1>1, <2>2, CommitCurrent
  <2> QED
    BY SMT, <2>1, <2>2 DEF SyncLocator
<1>3. Current' = Current
  BY <1>1 DEF SyncLocator, Current
<1>4. RunInv'
  BY <1>1, <1>2, <1>3 DEF SyncLocator, IndexInv, RunInv, CallbackInv, callVars
<1>5. MemoryOK' /\ status' # "fatal"
  BY SMT, <1>1, TreeFacts DEF SyncLocator, IndexInv, MemoryOK, MaybeBlock, chainVars, callVars, nodeVars
<1> QED
  BY <1>2, <1>4, <1>5 DEF IndexInv

\* SyncAppend keeps IndexInv.
LEMMA SyncAppendIndex ==
    ASSUME IndexInv, SyncAppend
    PROVE  IndexInv'
<1>1. /\ status = "up" /\ Current = Parent[pindex] /\ pindex \in Blocks /\ ~ m_synced /\ cb = "idle"
      /\ DiskOK(db, committed) /\ OnPath(db, Parent[pindex]) /\ m_muhash = Value(Parent[pindex])
      /\ db.best # None => db.best \in ChainOf(Parent[pindex])
  BY DEF IndexInv, RunInv, CallbackInv, MemoryOK, SyncAppend, Current
<1>2. /\ CanAppend(db, pindex) /\ Counted(m_muhash, pindex) = Value(pindex)
      /\ DiskOK(Appended(db, m_muhash, pindex), committed)
      /\ OnPath(Appended(db, m_muhash, pindex), pindex)
      /\ Appended(db, m_muhash, pindex).best # None =>
            Appended(db, m_muhash, pindex).best \in ChainOf(pindex)
  BY <1>1, AppendDisk
<1>3. /\ db' = Appended(db, m_muhash, pindex) /\ m_muhash' = Value(pindex) /\ sync' = "next"
      /\ UNCHANGED <<status, chainVars, callVars, m_synced, m_best_block_index, pindex, committed>>
  BY <1>2 DEF SyncAppend
<1>4. Current' = pindex
  BY <1>3 DEF Current
<1>5. RunInv'
  BY <1>1, <1>2, <1>3, <1>4 DEF RunInv, CallbackInv, callVars
<1>6. MemoryOK' /\ status' # "fatal"
  BY <1>1, <1>3 DEF IndexInv, MemoryOK, chainVars, callVars
<1> QED
  BY <1>2, <1>3, <1>5, <1>6 DEF IndexInv

\* What Rewind finds and leaves, when the current path is that of cur.
LEMMA RewindFacts ==
    ASSUME NEW d, NEW c, DiskOK(d, c), NEW cur \in Blocks, NEW new \in Ancestors[cur], OnPath(d, cur),
           d.best # None => d.best \in Ancestors[cur]
    PROVE  LET e == CopyHeightIndexToHashIndex(d, cur, new)
           IN  /\ CanCopy(d, cur, new) /\ CanReverse(e, Value(cur), cur, new)
               /\ DiskOK(e, c) /\ OnPath(e, cur) /\ e.best = d.best
               /\ \A x \in Ancestors[cur] \ Ancestors[new] : Copied(e, x)
<1> DEFINE e == CopyHeightIndexToHashIndex(d, cur, new)
<1>1. EntriesTrue(d) /\ c \subseteq Blocks /\ d.best \in MaybeBlock
  BY DEF DiskOK, EntriesTrue, Database
<1>2. /\ CanCopy(d, cur, new) /\ EntriesTrue(e)
      /\ e.height = d.height /\ e.best = d.best /\ e.muhash = d.muhash
      /\ \A x \in Ancestors[cur] \ Ancestors[new] : Copied(e, x)
      /\ \A x \in Blocks : Copied(d, x) => Copied(e, x)
  BY <1>1, CopyFacts
<1> HIDE DEF e
<1>3. OnPath(e, cur) /\ (OnPath(d, d.best) => OnPath(e, e.best))
  BY <1>2 DEF OnPath
<1>4. DiskOK(e, c)
  BY <1>1, <1>2, <1>3 DEF DiskOK
<1>5. CanReverse(e, Value(cur), cur, new)
  BY <1>2, <1>3, ReverseFacts
<1> QED
  BY <1>2, <1>3, <1>4, <1>5 DEF e

\* SyncNext keeps IndexInv.
LEMMA SyncNextIndex ==
    ASSUME IndexInv, SyncNext
    PROVE  IndexInv'
<1>1. /\ status = "up" /\ Current = pindex /\ ~ m_synced /\ cb = "idle" /\ tip \in Blocks
      /\ pindex \in MaybeBlock
      /\ DiskOK(db, committed) /\ OnPath(db, pindex) /\ m_muhash = Value(pindex)
      /\ db.best # None => db.best \in ChainOf(pindex)
  BY DEF IndexInv, RunInv, CallbackInv, MemoryOK, SyncNext, Current
<1>2. /\ UNCHANGED <<chainVars, callVars, m_synced>>
  BY DEF SyncNext
<1> DEFINE copied(new) == CopyHeightIndexToHashIndex(db, pindex, new)
           Go(next) == Parent[next] = pindex /\ pindex' = next /\ sync' = "locator"
                       /\ UNCHANGED <<m_best_block_index, m_muhash, db, committed, status>>
           Abort == status' = "aborted"
                    /\ UNCHANGED <<m_best_block_index, m_muhash, pindex, sync, db, committed>>
           Back(next) == /\ Parent[next] # pindex /\ pindex = m_best_block_index
                         /\ IF CanCopy(db, pindex, Parent[next]) /\ CanReverse(copied(Parent[next]), m_muhash, pindex, Parent[next])
                              THEN /\ m_muhash' = Reversed(m_muhash, pindex, Parent[next])
                                   /\ m_best_block_index' = Parent[next]
                                   /\ Commit(copied(Parent[next]), Parent[next], m_muhash')
                                   /\ pindex' = next /\ sync' = "locator"
                                   /\ UNCHANGED status
                              ELSE /\ FatalError
                                   /\ UNCHANGED <<m_best_block_index, m_muhash, pindex, sync, db, committed>>
<1>3. PICK next \in NextSyncBlock : Go(next) \/ Abort \/ Back(next)
  BY DEF SyncNext
<1>4. next \in Blocks
  BY <1>1, <1>3, TreeFacts DEF NextSyncBlock, NextOf
<1>5. CASE Go(next)
  <2>1. Current' = pindex
    BY <1>5 DEF Current
  <2>2. RunInv'
    BY <1>1, <1>2, <1>5, <2>1 DEF RunInv, CallbackInv, callVars
  <2>3. MemoryOK' /\ status' # "fatal"
    BY <1>1, <1>2, <1>4, <1>5 DEF IndexInv, MemoryOK, MaybeBlock, chainVars, callVars
  <2> QED
    BY <1>1, <1>5, <2>2, <2>3 DEF IndexInv
<1>6. CASE Abort
  <2>1. MemoryOK' /\ RunInv' /\ status' # "fatal"
    BY <1>1, <1>2, <1>6 DEF IndexInv, RunInv, MemoryOK, chainVars, callVars
  <2> QED
    BY <1>1, <1>6, <2>1 DEF IndexInv
<1>7. CASE Back(next)
  <2> DEFINE new == Parent[next]
             e == copied(new)
  <2>1. pindex \in Blocks /\ new \in Ancestors[pindex]
    <3>1. pindex # None
      BY <1>3, <1>7, TreeFacts DEF NextSyncBlock
    <3>2. pindex \in Blocks
      BY SMT, <1>1, <3>1 DEF MaybeBlock
    <3>3. new = FindFork(pindex)
      BY <1>3, <3>1 DEF NextSyncBlock, NextOf
    <3> QED
      BY <1>1, <3>2, <3>3, LastCommonFacts DEF FindFork
  <2>2. ChainOf(pindex) = Ancestors[pindex] /\ new \in Blocks
    BY SMT, <2>1, ChainFacts
  <2>3. /\ CanCopy(db, pindex, new) /\ CanReverse(e, m_muhash, pindex, new)
        /\ DiskOK(e, committed) /\ OnPath(e, pindex) /\ e.best = db.best
        /\ \A x \in Ancestors[pindex] \ Ancestors[new] : Copied(e, x)
    BY <1>1, <2>1, <2>2, RewindFacts
  <2>4. Reversed(m_muhash, pindex, new) = Value(new)
    BY SMT, <1>1, <2>1, ReverseFacts DEF DiskOK
  <2>5. /\ m_muhash' = Value(new) /\ m_best_block_index' = new
        /\ db' = Committed(e, new, Value(new)) /\ committed' = committed \cup ChainOf(new)
        /\ pindex' = next /\ sync' = "locator" /\ status' = status
    BY <1>7, <2>3, <2>4 DEF Commit
  <2> HIDE DEF e
  <2>6. DiskOK(db', committed') /\ OnPath(db', new) /\ db'.best = new
    <3>1. e.best # None => e.best \in Ancestors[pindex]
      BY <1>1, <2>2, <2>3
    <3>2. LET f == Committed(e, new, Value(new))
          IN  DiskOK(f, committed \cup ChainOf(new)) /\ OnPath(f, new) /\ f.best = new
      BY <2>1, <2>3, <3>1, RewindDisk
    <3> QED
      BY <2>5, <3>2
  <2>7. Current' = new
    BY <2>5 DEF Current
  <2>8. RunInv'
    BY <1>1, <1>2, <2>2, <2>5, <2>6, <2>7, ChainFacts DEF RunInv, CallbackInv, callVars
  <2>9. MemoryOK' /\ status' # "fatal"
    BY <1>1, <1>2, <1>4, <2>2, <2>5 DEF IndexInv, MemoryOK, MaybeBlock, chainVars, callVars
  <2> QED
    BY <2>6, <2>8, <2>9 DEF IndexInv
<1> QED
  BY <1>3, <1>5, <1>6, <1>7

\* A callback that is being run: its block, and the current block.
LEMMA CallbackFacts ==
    ASSUME IndexInv, Callback("BlockConnected"), m_synced
    PROVE  /\ status = "up" /\ Current = m_best_block_index /\ m_best_block_index \in Blocks
           /\ sync = "done" /\ block \in Blocks /\ Tail(queue) \in Seq(Event)
           /\ DiskOK(db, committed) /\ OnPath(db, m_best_block_index)
           /\ m_muhash = Value(m_best_block_index)
           /\ db.best # None => db.best \in ChainOf(m_best_block_index)
           /\ ChainOf(m_best_block_index) = Ancestors[m_best_block_index]
           /\ CallbackInv
<1>1. queue \in Seq(Event) /\ queue # <<>>
  BY SMT DEF IndexInv, MemoryOK, Callback
<1>2. Head(queue) \in Event /\ Tail(queue) \in Seq(Event)
  BY SMT, <1>1
<1>3. block \in Blocks
  BY SMT, <1>2 DEF block, Event
<1>4. m_best_block_index \in Blocks
  BY DEF IndexInv, MemoryOK, MaybeBlock
<1> QED
  BY <1>2, <1>3, <1>4, ChainFacts DEF IndexInv, RunInv, MemoryOK, Callback, Current

\* BlockConnected keeps IndexInv.
LEMMA BlockConnectedIndex ==
    ASSUME IndexInv, BlockConnected
    PROVE  IndexInv'
<1>1. /\ Callback("BlockConnected") /\ cb = "idle" /\ queue \in Seq(Event) /\ queue # <<>>
      /\ UNCHANGED <<chainVars, memVars, db, committed>>
  BY DEF BlockConnected, Callback, IndexInv, MemoryOK
<1>2. Tail(queue) \in Seq(Event)
  BY SMT, <1>1
<1>3. CASE queue' = Tail(queue) /\ UNCHANGED <<cb, status>>
  <2>1. MemoryOK'
    BY <1>1, <1>2, <1>3 DEF Callback, IndexInv, MemoryOK, chainVars, memVars
  <2> QED
    BY SMT, <1>1, <1>3, <2>1, SameIndex
<1>4. CASE /\ m_synced /\ Connects(block) /\ UNCHANGED <<queue, status>>
           /\ cb' = IF m_best_block_index = Parent[block] THEN "append" ELSE "copy"
  <2>1. block \in Blocks /\ block' = block
    BY <1>1, <1>4, CallbackFacts DEF block
  <2>2. block # Genesis /\ Parent[block] \in Ancestors[m_best_block_index]
    BY SMT, <1>1, <1>4, CallbackFacts, TreeFacts DEF Connects
  <2>3. CallbackInv'
    BY <1>1, <1>4, <2>1, <2>2 DEF CallbackInv, Callback, memVars
  <2>4. Current' = Current
    BY <1>1 DEF Current, memVars
  <2>5. RunInv'
    BY <1>1, <1>4, <2>3, <2>4 DEF IndexInv, RunInv, memVars
  <2>6. MemoryOK'
    BY <1>1, <1>4 DEF Callback, IndexInv, MemoryOK, chainVars, memVars
  <2> QED
    BY <1>1, <1>4, <2>5, <2>6 DEF IndexInv
<1> QED
  BY <1>3, <1>4 DEF BlockConnected, IndexInv, MemoryOK

\* RewindCopy keeps IndexInv.
LEMMA RewindCopyIndex ==
    ASSUME IndexInv, RewindCopy
    PROVE  IndexInv'
<1>1. Callback("BlockConnected") /\ cb = "copy" /\ m_synced /\ Parent[block] \in Ancestors[m_best_block_index]
  BY DEF RewindCopy, Callback, IndexInv, RunInv, CallbackInv
<1> DEFINE cur == m_best_block_index
           new == Parent[block]
           e == CopyHeightIndexToHashIndex(db, cur, new)
<1>2. /\ CanCopy(db, cur, new) /\ DiskOK(e, committed) /\ OnPath(e, cur) /\ e.best = db.best
      /\ \A x \in Ancestors[cur] \ Ancestors[new] : Copied(e, x)
  BY <1>1, CallbackFacts, RewindFacts
<1>3. db' = e /\ cb' = "reverse" /\ UNCHANGED <<status, chainVars, queue, memVars, committed>>
  BY <1>2 DEF RewindCopy
<1> HIDE DEF e
<1>4. block' = block /\ Current' = Current /\ Current = cur
  BY <1>1, <1>3, CallbackFacts DEF block, Current, memVars
<1>5. CallbackInv'
  BY <1>1, <1>2, <1>3, <1>4, CallbackFacts DEF CallbackInv, memVars
<1>6. RunInv'
  BY <1>1, <1>2, <1>3, <1>4, <1>5, CallbackFacts DEF RunInv, memVars
<1>7. MemoryOK' /\ status' # "fatal"
  BY <1>1, <1>3 DEF Callback, IndexInv, MemoryOK, chainVars, memVars
<1> QED
  BY <1>2, <1>3, <1>6, <1>7 DEF IndexInv

\* Rewind keeps IndexInv.
LEMMA RewindIndex ==
    ASSUME IndexInv, Rewind
    PROVE  IndexInv'
<1> DEFINE cur == m_best_block_index
           new == Parent[block]
<1>1. /\ Callback("BlockConnected") /\ cb = "reverse" /\ m_synced /\ new \in Ancestors[cur]
      /\ block # Genesis /\ \A x \in Ancestors[cur] \ Ancestors[new] : Copied(db, x)
  BY DEF Rewind, Callback, IndexInv, RunInv, CallbackInv
<1>2. /\ status = "up" /\ cur \in Blocks /\ block \in Blocks /\ sync = "done"
      /\ DiskOK(db, committed) /\ OnPath(db, cur) /\ m_muhash = Value(cur)
      /\ db.best # None => db.best \in Ancestors[cur]
  BY <1>1, CallbackFacts
<1>3. CanReverse(db, m_muhash, cur, new) /\ Reversed(m_muhash, cur, new) = Value(new)
  BY SMT, <1>1, <1>2, ReverseFacts DEF DiskOK
<1>4. /\ m_muhash' = Value(new) /\ m_best_block_index' = new /\ cb' = "append"
      /\ db' = Committed(db, new, Value(new)) /\ committed' = committed \cup ChainOf(new)
      /\ UNCHANGED <<status, chainVars, queue, m_synced, pindex, sync>>
  BY <1>3 DEF Rewind, Commit
<1>5. DiskOK(db', committed') /\ OnPath(db', new) /\ db'.best = new
  BY <1>1, <1>2, <1>4, RewindDisk
<1>6. block' = block /\ Current' = new /\ new \in Blocks
  <2>1. queue' = queue /\ sync' = sync /\ m_best_block_index' = new
    BY <1>4
  <2>2. block' = block /\ Current' = new
    BY <1>2, <2>1 DEF block, Current
  <2>3. new \in Blocks
    BY <1>1, <1>2, TreeFacts
  <2> QED
    BY <2>2, <2>3
<1>7. CallbackInv'
  BY <1>1, <1>4, <1>6 DEF CallbackInv, Callback
<1>8. RunInv'
  BY <1>4, <1>5, <1>6, <1>7, ChainFacts DEF RunInv
<1>9. MemoryOK' /\ status' # "fatal"
  BY <1>1, <1>2, <1>4, <1>6, TreeFacts DEF Callback, IndexInv, MemoryOK, MaybeBlock, chainVars
<1> QED
  BY <1>5, <1>8, <1>9 DEF IndexInv

\* BlockAppend keeps IndexInv.
LEMMA BlockAppendIndex ==
    ASSUME IndexInv, BlockAppend
    PROVE  IndexInv'
<1>1. Callback("BlockConnected") /\ cb = "append" /\ m_synced /\ m_best_block_index = Parent[block]
  BY DEF BlockAppend, Callback, IndexInv, RunInv, CallbackInv
<1>2. /\ status = "up" /\ block \in Blocks /\ sync = "done" /\ Tail(queue) \in Seq(Event)
      /\ DiskOK(db, committed) /\ OnPath(db, Parent[block]) /\ m_muhash = Value(Parent[block])
      /\ db.best # None => db.best \in ChainOf(Parent[block])
  BY <1>1, CallbackFacts
<1> DEFINE b == block
           e == Appended(db, m_muhash, b)
<1>3. /\ CanAppend(db, b) /\ Counted(m_muhash, b) = Value(b) /\ DiskOK(e, committed) /\ OnPath(e, b)
      /\ e.best # None => e.best \in ChainOf(b)
  BY <1>2, AppendDisk
<1>4. /\ db' = e /\ m_muhash' = Value(b) /\ m_best_block_index' = b /\ cb' = "idle"
      /\ queue' = Tail(queue)
      /\ UNCHANGED <<status, chainVars, m_synced, pindex, sync, committed>>
  BY <1>3 DEF BlockAppend
<1> HIDE DEF b, e
<1>5. Current' = b /\ b \in Blocks
  BY <1>2, <1>4 DEF Current, b
<1>6. RunInv'
  BY <1>3, <1>4, <1>5 DEF RunInv, CallbackInv
<1>7. MemoryOK' /\ status' # "fatal"
  BY <1>2, <1>4, <1>5, TreeFacts DEF IndexInv, MemoryOK, MaybeBlock, chainVars
<1> QED
  BY <1>3, <1>4, <1>6, <1>7 DEF IndexInv

\* ChainStateFlushed keeps IndexInv.
LEMMA ChainStateFlushedIndex ==
    ASSUME IndexInv, ChainStateFlushed
    PROVE  IndexInv'
<1>1. /\ status = "up" /\ queue \in Seq(Event) /\ queue # <<>> /\ cb = "idle"
      /\ queue' = Tail(queue) /\ UNCHANGED <<chainVars, cb, memVars, nodeVars>>
  BY DEF ChainStateFlushed, Callback, IndexInv, RunInv, CallbackInv, MemoryOK
<1>2. Tail(queue) \in Seq(Event)
  BY SMT, <1>1
<1>3. MemoryOK'
  BY <1>1, <1>2 DEF IndexInv, MemoryOK, chainVars, memVars, nodeVars
<1>4. CASE UNCHANGED <<db, committed>>
  BY <1>1, <1>3, <1>4, SameIndex DEF nodeVars
<1>5. CASE m_synced /\ Commit(db, m_best_block_index, m_muhash)
  <2>1. Current = m_best_block_index /\ Current' = Current
    BY <1>1, <1>5 DEF IndexInv, MemoryOK, Current, memVars
  <2>2. /\ DiskOK(db', committed') /\ OnPath(db', Current)
        /\ db'.best # None => db'.best \in ChainOf(Current)
    BY <1>1, <1>5, <2>1, CommitCurrent
  <2>3. RunInv' /\ status' # "fatal"
    BY <1>1, <2>1, <2>2 DEF IndexInv, RunInv, CallbackInv, memVars, nodeVars
  <2> QED
    BY <1>3, <2>2, <2>3 DEF IndexInv
<1> QED
  BY <1>4, <1>5 DEF ChainStateFlushed

\* The blocks that ActivateBestChain(b) connects, lowest first.
LEMMA NewEvents ==
    ASSUME tip \in Blocks, NEW b \in Blocks, b \notin Ancestors[tip]
    PROVE  LET fork == FindFork(b)
               n == nHeight[b] - nHeight[fork]
               new == [i \in 1..n |-> [type |-> "BlockConnected", block |-> GetAncestor(b, nHeight[fork] + i)]]
           IN  /\ n \in Nat \ {0} /\ new \in Seq(Event) /\ Len(new) = n
               /\ \A i \in 1..n : new[i].type = "BlockConnected" /\ new[i].block # Genesis
               /\ Parent[new[1].block] \in Ancestors[tip]
               /\ \A i \in 1..n : i > 1 => Parent[new[i].block] = new[i - 1].block
               /\ new[n].block = b
<1> DEFINE fork == FindFork(b)
           hb == nHeight[b]
           hf == nHeight[fork]
           n == hb - hf
           new == [i \in 1..n |-> [type |-> "BlockConnected", block |-> GetAncestor(b, hf + i)]]
<1>1. fork \in Ancestors[b] /\ fork \in Ancestors[tip] /\ fork # b /\ fork \in Blocks /\ Ancestors[b] \subseteq Blocks
  BY LastCommonFacts, TreeFacts DEF FindFork
<1> HIDE DEF fork
<1>2. hb \in Nat /\ hf \in Nat /\ hf < hb
  <2>1. hb \in Nat /\ hf \in Nat /\ hf <= hb
    BY <1>1, PathHeights, TreeAssumption
  <2>2. hf # hb
    BY <1>1, PathHeights
  <2> QED
    BY SMT, <2>1, <2>2
<1> HIDE DEF hb, hf
<1>3. n \in Nat \ {0}
  BY SMT, <1>2
<1>4. ASSUME NEW i \in 1..n
      PROVE  /\ GetAncestor(b, hf + i) \in Ancestors[b] /\ GetAncestor(b, hf + i) # Genesis
             /\ Parent[GetAncestor(b, hf + i)] = GetAncestor(b, (hf + i) - 1)
  <2>1. hf + i \in 0..hb /\ hf + i > 0
    BY SMT, <1>2
  <2> QED
    BY <2>1, GetAncestorFacts DEF hb
<1>5. GetAncestor(b, hf) = fork /\ GetAncestor(b, hb) = b
  <2>1. hf \in 0..hb /\ hb \in 0..hb
    BY SMT, <1>2
  <2>2. /\ GetAncestor(b, hf) \in Ancestors[b] /\ nHeight[GetAncestor(b, hf)] = hf
        /\ GetAncestor(b, hb) \in Ancestors[b] /\ nHeight[GetAncestor(b, hb)] = hb
    BY <2>1, GetAncestorFacts DEF hb
  <2>3. nHeight[fork] = hf /\ nHeight[b] = hb /\ b \in Ancestors[b]
    BY SMT, TreeFacts DEF hf, hb
  <2> QED
    BY <1>1, <2>2, <2>3, PathHeights
<1>6. \A i \in 1..n : new[i] = [type |-> "BlockConnected", block |-> GetAncestor(b, hf + i)]
  OBVIOUS
<1>7. new \in Seq(Event) /\ Len(new) = n
  <2>1. \A i \in 1..n : new[i] \in Event
    BY <1>1, <1>4, <1>6 DEF Event
  <2>2. new \in [1..n -> Event]
    BY <2>1
  <2> QED
    BY SMT, <1>3, <2>2
<1> HIDE DEF new
<1>8. ASSUME NEW i \in 1..n PROVE new[i].type = "BlockConnected" /\ new[i].block = GetAncestor(b, hf + i)
  <2> DEFINE x == GetAncestor(b, hf + i)
  <2>1. new[i] = [type |-> "BlockConnected", block |-> x]
    BY <1>6
  <2> HIDE DEF x
  <2>2. new[i].type = "BlockConnected" /\ new[i].block = x
    BY SMT, <2>1
  <2> QED
    BY <2>2 DEF x
<1>9. Parent[new[1].block] \in Ancestors[tip]
  <2>1. 1 \in 1..n /\ (hf + 1) - 1 = hf
    BY SMT, <1>2, <1>3
  <2> QED
    BY <1>1, <1>4, <1>5, <1>8, <2>1
<1>10. ASSUME NEW i \in 1..n, i > 1 PROVE Parent[new[i].block] = new[i - 1].block
  <2>1. i - 1 \in 1..n /\ hf + (i - 1) = (hf + i) - 1
    BY SMT, <1>2, <1>3, <1>10
  <2> QED
    BY <1>4, <1>8, <2>1
<1>11. new[n].block = b
  <2>1. n \in 1..n /\ hf + n = hb
    BY SMT, <1>2, <1>3
  <2> QED
    BY <1>5, <1>8, <2>1
<1>12. \A i \in 1..n : new[i].type = "BlockConnected" /\ new[i].block # Genesis
  BY <1>4, <1>8
<1> QED
  BY <1>3, <1>7, <1>9, <1>10, <1>11, <1>12 DEF new, hb, hf, fork

\* The steps of the active chain keep IndexInv, and so does Interrupt.
LEMMA ChainIndex ==
    ASSUME IndexInv,
           \/ \E b \in Blocks : ActivateBestChain(b)
           \/ DisconnectTip \/ FlushStateToDisk \/ Interrupt
    PROVE  IndexInv'
<1>1. queue \in Seq(Event) /\ tip \in Blocks
  BY DEF IndexInv, MemoryOK
<1>2. ASSUME NEW b \in Blocks, ActivateBestChain(b) PROVE IndexInv'
  <2> DEFINE new == [i \in 1..(nHeight[b] - nHeight[FindFork(b)]) |->
                        [type |-> "BlockConnected", block |-> GetAncestor(b, nHeight[FindFork(b)] + i)]]
  <2>1. new \in Seq(Event)
    BY <1>1, <1>2, NewEvents DEF ActivateBestChain
  <2>2. queue' = queue \o new /\ tip' = b /\ status = "up"
        /\ UNCHANGED <<flushed, cb, memVars, nodeVars, db, committed>>
    BY <1>2 DEF ActivateBestChain
  <2> HIDE DEF new
  <2>3. queue' \in Seq(Event) /\ (queue # <<>> => queue' # <<>> /\ Head(queue') = Head(queue))
    BY SMT, <1>1, <2>1, <2>2
  <2>4. MemoryOK'
    BY <2>2, <2>3 DEF IndexInv, MemoryOK, memVars, nodeVars
  <2> QED
    BY SMT, <2>2, <2>3, <2>4, SameIndex DEF nodeVars
<1>3. CASE DisconnectTip
  <2>1. tip' \in Blocks
    BY <1>1, <1>3, TreeFacts DEF DisconnectTip
  <2>2. MemoryOK'
    BY <1>3, <2>1 DEF DisconnectTip, IndexInv, MemoryOK, memVars, nodeVars, callVars
  <2> QED
    BY <1>3, <2>2, SameIndex DEF DisconnectTip, nodeVars, callVars
<1>4. CASE FlushStateToDisk
  <2> DEFINE e == [type |-> "ChainStateFlushed", block |-> tip]
  <2>1. e \in Event
    BY <1>1 DEF Event
  <2>2. queue' = Append(queue, e) /\ flushed' = tip /\ status = "up"
        /\ UNCHANGED <<tip, cb, memVars, nodeVars, db, committed>>
    BY <1>4 DEF FlushStateToDisk
  <2> HIDE DEF e
  <2>3. queue' \in Seq(Event) /\ (queue # <<>> => queue' # <<>> /\ Head(queue') = Head(queue))
    BY SMT, <1>1, <2>1, <2>2
  <2>4. MemoryOK'
    BY <1>1, <2>2, <2>3 DEF IndexInv, MemoryOK, memVars, nodeVars
  <2> QED
    BY <2>2, <2>3, <2>4, SameIndex DEF nodeVars
<1>5. CASE Interrupt
  <2>1. MemoryOK'
    BY <1>5 DEF Interrupt, IndexInv, MemoryOK, chainVars, callVars, memVars
  <2> QED
    BY <1>5, <2>1, SameIndex DEF Interrupt, callVars
<1> QED
  BY SMT, <1>2, <1>3, <1>4, <1>5

\* Forget keeps IndexInv.
LEMMA ForgetIndex ==
    ASSUME IndexInv, Forget
    PROVE  IndexInv'
<1>0. <<>> \in Seq(Event)
  BY SMT
<1>1. MemoryOK'
  BY <1>0 DEF Forget, IndexInv, MemoryOK, MaybeBlock
<1>2. RunInv' /\ status' # "fatal"
  BY DEF Forget, RunInv
<1> QED
  BY <1>1, <1>2 DEF Forget, IndexInv

\* BaseIndex::Start goes on only from the block whose totals are on disk.
LEMMA StartIndex ==
    ASSUME IndexInv, Start
    PROVE  IndexInv'
<1> DEFINE best == IF db.best = None THEN None ELSE FindForkInGlobalIndex(db.best)
<1>1. /\ status = "down" /\ tip = flushed /\ flushed \in Blocks /\ queue = <<>> /\ cb = "idle"
      /\ DiskOK(db, committed) /\ db.best \in MaybeBlock
  BY DEF Start, IndexInv, MemoryOK, DiskOK, EntriesTrue, Database
<1>2. /\ status' = (IF CustomInit(best) THEN "up" ELSE "failed")
      /\ m_best_block_index' = best /\ pindex' = best /\ m_synced' = (best = flushed)
      /\ sync' = (IF best = flushed THEN "done" ELSE "next")
      /\ m_muhash' = db.muhash /\ UNCHANGED <<chainVars, callVars, db, committed>>
  BY DEF Start
<1>3. db.best # None => best \in Blocks
  BY SMT, <1>1, LastCommonFacts, TreeFacts DEF FindForkInGlobalIndex, MaybeBlock
<1>4. best \in MaybeBlock
  BY SMT, <1>3 DEF MaybeBlock
<1>5. CustomInit(best) => best = db.best
  <2> SUFFICES ASSUME CustomInit(best), best # None PROVE best = db.best
    BY <1>1, <1>3, TreeFacts
  <2>1. best \in Blocks
    BY <1>3
  <2> HIDE DEF best
  <2>2. LookUpOne(db, best) = Value(db.best)
    BY <1>1 DEF CustomInit, DiskOK
  <2>3. LookUpOne(db, best) = Value(best)
    BY <1>1, <2>1, <2>2, LookUpFacts, ValueFacts DEF DiskOK
  <2> QED
    BY <1>1, <1>4, <2>2, <2>3, ValueFacts
<1> HIDE DEF best
<1>6. Current' = best
  BY <1>2 DEF Current
<1>7. RunInv'
  <2> SUFFICES ASSUME status' = "up" PROVE RunInv'
    BY DEF RunInv
  <2>1. best = db.best
    BY <1>2, <1>5
  <2>2. m_muhash' = Value(best) /\ OnPath(db, best)
    BY <1>1, <1>2, <2>1 DEF DiskOK
  <2>3. db.best # None => db.best \in ChainOf(best)
    BY <1>1, <2>1, ChainFacts DEF MaybeBlock
  <2>4. CallbackInv'
    BY <1>1, <1>2 DEF CallbackInv, callVars
  <2> QED
    BY <1>2, <1>6, <2>2, <2>3, <2>4 DEF RunInv
<1>8. MemoryOK' /\ status' # "fatal"
  <2>1. m_synced' \in BOOLEAN /\ (m_synced' => sync' = "done" /\ m_best_block_index' # None)
    BY <1>1, <1>2, TreeFacts
  <2>2. sync' \in {"next", "done"} /\ status' \in {"up", "failed"}
    BY <1>2
  <2> QED
    BY <1>1, <1>2, <1>4, <2>1, <2>2 DEF IndexInv, MemoryOK, chainVars, callVars
<1> QED
  BY <1>1, <1>2, <1>7, <1>8 DEF IndexInv

\* The initial states have IndexInv.
LEMMA IndexInit == Init => IndexInv
<1> SUFFICES ASSUME Init PROVE IndexInv
  BY SMT
<1>1. db = EmptyDB /\ db.best = None /\ db.muhash = Empty
  BY DEF Init, EmptyDB
<1>2. ChainOf(None) = {} /\ Value(None) = Empty /\ Empty \in Stats
  BY SMT DEF ChainOf, Value, Empty, Stats
<1>3. db \in Database
  <2>1. [h \in Heights |-> None] \in [Heights -> Entry \cup {None}]
    BY SMT
  <2>2. [b \in Blocks |-> None] \in [Blocks -> Stats \cup {None}]
    BY SMT
  <2> QED
    BY SMT, <1>1, <1>2, <2>1, <2>2 DEF EmptyDB, Database, MaybeBlock
<1>4. EntriesTrue(db)
  BY <1>1, <1>3 DEF EntriesTrue, EmptyDB
<1>5. DiskOK(db, committed)
  BY <1>1, <1>2, <1>4 DEF DiskOK, OnPath, Init
<1>6. MemoryOK /\ status # "fatal"
  <2>1. <<>> \in Seq(Event)
    BY SMT
  <2> QED
    BY <2>1, TreeFacts DEF Init, MemoryOK, MaybeBlock
<1>7. Current = None /\ cb = "idle" /\ m_muhash = Empty
  BY DEF Init, Current
<1>8. RunInv
  BY <1>1, <1>2, <1>7 DEF RunInv, OnPath, CallbackInv
<1> QED
  BY SMT, <1>5, <1>6, <1>8 DEF IndexInv

\* Every step keeps IndexInv.
LEMMA IndexStep == IndexInv /\ [Next]_vars => IndexInv'
<1> SUFFICES ASSUME IndexInv, [Next]_vars PROVE IndexInv'
  OBVIOUS
<1>1. CASE ThreadSync
  BY SMT, <1>1, SyncInterruptedIndex, SyncDoneIndex, SyncNextIndex, SyncLocatorIndex, SyncAppendIndex DEF ThreadSync
<1>2. CASE RunCallback
  BY SMT, <1>2, BlockConnectedIndex, RewindCopyIndex, RewindIndex, BlockAppendIndex, ChainStateFlushedIndex
     DEF RunCallback
<1>3. CASE UNCHANGED vars
  <2>1. MemoryOK'
    BY <1>3 DEF vars, chainVars, callVars, memVars, nodeVars, IndexInv, MemoryOK
  <2> QED
    BY <1>3, <2>1, SameIndex DEF vars, callVars, nodeVars
<1> QED
  BY <1>1, <1>2, <1>3, ChainIndex, ForgetIndex, StartIndex DEF Next, Stop, Crash, Quiet

\* What the index has in memory and on disk fits together at every step.
THEOREM IndexTheorem == Spec => []IndexInv
  BY IndexInit, IndexStep, PTL DEF Spec

\* The index never comes to a FatalError: CustomAppend finds the entry of the
\* parent, CopyHeightIndexToHashIndex every entry it copies and ReverseBlock the
\* totals it expects, on every block tree and for every order of callbacks,
\* reorganisations, commits, crashes and restarts.
THEOREM NoFatalErrorTheorem == Spec => []NoFatalError
<1>1. IndexInv => NoFatalError
  BY SMT DEF IndexInv, NoFatalError
<1> QED
  BY <1>1, IndexTheorem, PTL

\* Every block that was below the best block at some Commit is found with its right
\* statistics ever after, and DB_MUHASH agrees with the best block on disk.
THEOREM CommittedServedTheorem == Spec => []CommittedServed
<1>1. IndexInv => CommittedServed
  <2> SUFFICES ASSUME IndexInv PROVE CommittedServed
    OBVIOUS
  <2>1. DiskOK(db, committed) /\ EntriesTrue(db) /\ db.best \in MaybeBlock
    BY DEF IndexInv, DiskOK, EntriesTrue, Database
  <2>2. ASSUME NEW b \in committed PROVE LookUpOne(db, b) = Value(b)
    <3>1. b \in Blocks
      BY <2>1 DEF DiskOK
    <3>2. CASE b \in ChainOf(db.best)
      BY <2>1, <3>1, <3>2, LookUpFacts DEF DiskOK
    <3>3. CASE b \notin ChainOf(db.best)
      BY <2>1, <3>1, <3>3, LookUpFacts DEF DiskOK
    <3> QED
      BY SMT, <3>2, <3>3
  <2> QED
    BY <2>1, <2>2 DEF CommittedServed, DiskOK
<1> QED
  BY <1>1, IndexTheorem, PTL

-----------------------------------------------------------------------------
(* The queue of callbacks.                                                 *)

\* A callback is taken from the queue.
LEMMA TailFollows ==
    ASSUME NEW q \in Seq(Event), q # <<>>, Follows(q), NEW t \in Blocks, EndsAt(q, t)
    PROVE  Follows(Tail(q)) /\ EndsAt(Tail(q), t)
<1> DEFINE r == Tail(q)
<1>1. r \in Seq(Event) /\ Len(r) = Len(q) - 1 /\ Len(q) \in Nat \ {0} /\ \A i \in 1..Len(r) : r[i] = q[i + 1]
  BY SMT
<1>2. DOMAIN q = 1..Len(q) /\ DOMAIN r = 1..Len(r)
  BY SMT, <1>1
<1> HIDE DEF r
<1>3. \A i \in 1..Len(r) : i + 1 \in 1..Len(q) /\ (Connection(r, i) <=> Connection(q, i + 1))
  BY SMT, <1>1, <1>2 DEF Connection
<1>4. \A k \in 1..Len(q) : k > 1 => k - 1 \in 1..Len(r) /\ (k - 1) + 1 = k
  BY SMT, <1>1
<1>5. ASSUME NEW i \in DOMAIN r, NEW j \in DOMAIN r, i < j, Connection(r, i), Connection(r, j),
             \A k \in DOMAIN r : i < k /\ k < j => ~ Connection(r, k)
      PROVE  Parent[r[j].block] \in Ancestors[r[i].block]
  <2>1. i \in 1..Len(r) /\ j \in 1..Len(r) /\ i + 1 < j + 1
    BY SMT, <1>1, <1>2, <1>5
  <2>2. ASSUME NEW k \in DOMAIN q, i + 1 < k, k < j + 1 PROVE ~ Connection(q, k)
    <3>1. k - 1 \in 1..Len(r) /\ (k - 1) + 1 = k /\ i < k - 1 /\ k - 1 < j
      BY SMT, <1>1, <1>2, <1>4, <2>1, <2>2
    <3> QED
      BY <1>2, <1>3, <1>5, <3>1
  <2>3. Parent[q[j + 1].block] \in Ancestors[q[i + 1].block]
    BY <1>2, <1>3, <1>5, <2>1, <2>2 DEF Follows
  <2> QED
    BY <1>1, <2>1, <2>3
<1>6. Follows(r)
  BY <1>1, <1>2, <1>3, <1>5 DEF Follows
<1>7. ASSUME NEW i \in DOMAIN r, Connection(r, i), \A k \in DOMAIN r : i < k => ~ Connection(r, k)
      PROVE  t \in Ancestors[r[i].block]
  <2>1. i \in 1..Len(r)
    BY SMT, <1>2
  <2>2. ASSUME NEW k \in DOMAIN q, i + 1 < k PROVE ~ Connection(q, k)
    <3>1. k - 1 \in 1..Len(r) /\ (k - 1) + 1 = k /\ i < k - 1
      BY SMT, <1>1, <1>2, <1>4, <2>1, <2>2
    <3> QED
      BY <1>2, <1>3, <1>7, <3>1
  <2>3. t \in Ancestors[q[i + 1].block]
    BY <1>2, <1>3, <1>7, <2>1, <2>2 DEF EndsAt
  <2> QED
    BY <1>1, <2>1, <2>3
<1>8. EndsAt(r, t)
  BY <1>7 DEF EndsAt
<1> QED
  BY <1>6, <1>8 DEF r

\* It was a flush, or one that did not connect: the index is covering as before;
\* or it has connected its block.
LEMMA TailCovering ==
    ASSUME NEW q \in Seq(Event), q # <<>>, Follows(q), NEW t \in Blocks, EndsAt(q, t),
           NEW b \in MaybeBlock, NEW c \in MaybeBlock,
           \/ /\ c = b /\ Covering(q, t, b)
              /\ Connection(q, 1) => Parent[q[1].block] \notin ChainOf(b)
           \/ Connection(q, 1) /\ c = q[1].block
    PROVE  Covering(Tail(q), t, c)
<1> DEFINE r == Tail(q)
<1>1. r \in Seq(Event) /\ Len(r) = Len(q) - 1 /\ Len(q) \in Nat \ {0} /\ \A i \in 1..Len(r) : r[i] = q[i + 1]
  BY SMT
<1>2. DOMAIN q = 1..Len(q) /\ DOMAIN r = 1..Len(r)
  BY SMT, <1>1
<1> HIDE DEF r
<1>3. ASSUME NEW k \in DOMAIN q, k > 1 PROVE k - 1 \in DOMAIN r /\ r[k - 1] = q[k]
  <2>1. k - 1 \in 1..Len(r) /\ (k - 1) + 1 = k
    BY SMT, <1>1, <1>2, <1>3
  <2> QED
    BY <1>1, <1>2, <2>1
<1>4. CASE /\ c = b /\ Covering(q, t, b)
           /\ Connection(q, 1) => Parent[q[1].block] \notin ChainOf(b)
  <2>1. CASE t \in ChainOf(b)
    BY <1>4, <2>1 DEF Covering
  <2>2. CASE \E i \in DOMAIN q : Connection(q, i) /\ Parent[q[i].block] \in ChainOf(b)
    <3>1. PICK i \in DOMAIN q : Connection(q, i) /\ Parent[q[i].block] \in ChainOf(b)
      BY <2>2
    <3>2. i > 1
      BY SMT, <1>2, <1>4, <3>1
    <3>3. i - 1 \in DOMAIN r /\ Connection(r, i - 1) /\ Parent[r[i - 1].block] \in ChainOf(c)
      BY <1>3, <1>4, <3>1, <3>2 DEF Connection
    <3> QED
      BY <3>3 DEF Covering, r
  <2> QED
    BY <1>4, <2>1, <2>2 DEF Covering
<1>5. CASE Connection(q, 1) /\ c = q[1].block
  <2>0. 1 \in DOMAIN q /\ q[1] \in Event /\ c \in Blocks /\ ChainOf(c) = Ancestors[c]
    <3>1. 1 \in DOMAIN q /\ q[1] \in Event
      BY SMT, <1>1, <1>2
    <3>2. c \in Blocks
      BY <1>5, <3>1 DEF Event
    <3> QED
      BY <3>1, <3>2, ChainFacts
  <2>1. CASE \A k \in DOMAIN q : 1 < k => ~ Connection(q, k)
    BY <1>5, <2>0, <2>1 DEF EndsAt, Covering
  <2>2. CASE \E k \in DOMAIN q : 1 < k /\ Connection(q, k)
    <3> DEFINE K == {k \in DOMAIN q : 1 < k /\ Connection(q, k)}
    <3>1. K \subseteq Nat /\ K # {}
      BY SMT, <1>2, <2>2
    <3>2. PICK k \in K : \A j \in K : k <= j
      BY <3>1, LeastNat
    <3>3. k \in DOMAIN q /\ 1 < k /\ Connection(q, k)
      BY <3>2
    <3>4. ASSUME NEW j \in DOMAIN q, 1 < j, j < k PROVE ~ Connection(q, j)
      <4> SUFFICES ASSUME Connection(q, j) PROVE FALSE
        OBVIOUS
      <4>1. k <= j
        BY <3>2, <3>4
      <4> QED
        BY SMT, <1>2, <3>3, <3>4, <4>1
    <3> HIDE DEF K
    <3>5. Parent[q[k].block] \in Ancestors[q[1].block]
      BY <1>5, <2>0, <3>3, <3>4 DEF Follows
    <3>6. k - 1 \in DOMAIN r /\ Connection(r, k - 1) /\ Parent[r[k - 1].block] \in ChainOf(c)
      BY <1>3, <1>5, <2>0, <3>3, <3>5 DEF Connection
    <3> QED
      BY <3>6 DEF Covering, r
  <2> QED
    BY <2>1, <2>2
<1> QED
  BY <1>4, <1>5

\* A flush is added to the queue.
LEMMA FlushFollows ==
    ASSUME NEW q \in Seq(Event), NEW e \in Event, e.type # "BlockConnected", Follows(q),
           NEW t \in Blocks, EndsAt(q, t)
    PROVE  /\ Follows(Append(q, e)) /\ EndsAt(Append(q, e), t)
           /\ \A b \in MaybeBlock : Covering(q, t, b) => Covering(Append(q, e), t, b)
<1> DEFINE r == Append(q, e)
<1>1. /\ r \in Seq(Event) /\ Len(r) = Len(q) + 1 /\ Len(q) \in Nat
      /\ \A i \in 1..Len(q) : r[i] = q[i]
      /\ r[Len(q) + 1] = e
  BY SMT
<1>2. DOMAIN q = 1..Len(q) /\ DOMAIN r = 1..Len(r)
  BY SMT, <1>1
<1> HIDE DEF r
<1>3. \A i \in DOMAIN q : i \in DOMAIN r /\ r[i] = q[i] /\ (Connection(r, i) <=> Connection(q, i))
  BY SMT, <1>1, <1>2 DEF Connection
<1>4. \A i \in DOMAIN r : Connection(r, i) => i \in DOMAIN q
  <2>1. \A i \in DOMAIN r : i \in DOMAIN q \/ i = Len(q) + 1
    BY SMT, <1>1, <1>2
  <2> QED
    BY <1>1, <2>1 DEF Connection
<1>5. Follows(r)
  <2>1. ASSUME NEW i \in DOMAIN r, NEW j \in DOMAIN r, i < j, Connection(r, i), Connection(r, j),
               \A k \in DOMAIN r : i < k /\ k < j => ~ Connection(r, k)
        PROVE  Parent[r[j].block] \in Ancestors[r[i].block]
    BY <1>3, <1>4, <2>1 DEF Follows
  <2>2. \A i \in DOMAIN r : Connection(r, i) => r[i].block # Genesis
    BY <1>3, <1>4 DEF Follows
  <2> QED
    BY <2>1, <2>2 DEF Follows
<1>6. EndsAt(r, t)
  BY <1>3, <1>4 DEF EndsAt
<1>7. \A b \in MaybeBlock : Covering(q, t, b) => Covering(r, t, b)
  BY <1>3 DEF Covering
<1> QED
  BY <1>5, <1>6, <1>7 DEF r

\* A block is on its own branch, and so is the branch of each block below it.
LEMMA OwnAncestor == ASSUME NEW b \in Blocks PROVE b \in Ancestors[b]
  BY SMT, TreeFacts

LEMMA AncestorsBelow ==
    ASSUME NEW b \in Blocks, NEW x \in Ancestors[b], NEW y \in Ancestors[x]
    PROVE  y \in Ancestors[b]
  BY TreeFacts

\* A chain of blocks to connect has a first one.
LEMMA FirstIndex == ASSUME NEW n \in Nat \ {0} PROVE 1 \in 1..n
  BY SMT

\* ActivateBestChain adds the callbacks of the blocks it connects.
LEMMA ConnectFollows ==
    ASSUME NEW q \in Seq(Event), Follows(q), NEW t \in Blocks, EndsAt(q, t),
           NEW new \in Seq(Event), NEW n \in Nat \ {0}, Len(new) = n,
           \A i \in 1..n : new[i].type = "BlockConnected" /\ new[i].block # Genesis,
           Parent[new[1].block] \in Ancestors[t],
           \A i \in 1..n : i > 1 => Parent[new[i].block] = new[i - 1].block
    PROVE  /\ Follows(q \o new) /\ EndsAt(q \o new, new[n].block)
           /\ \A b \in MaybeBlock : Covering(q, t, b) => Covering(q \o new, new[n].block, b)
<1> DEFINE r == q \o new
           m == Len(q)
<1>1. /\ m \in Nat /\ r \in Seq(Event) /\ Len(r) = m + n
      /\ \A i \in 1..m : r[i] = q[i]
      /\ \A i \in 1..n : r[m + i] = new[i]
  <2>1. /\ r \in Seq(Event) /\ Len(r) = m + n
        /\ \A i \in 1..(m + n) : r[i] = IF i <= m THEN q[i] ELSE new[i - m]
    BY SMT
  <2>2. m \in Nat
    BY SMT
  <2> HIDE DEF r, m
  <2>3. ASSUME NEW i \in 1..m PROVE r[i] = q[i]
    BY SMT, <2>1, <2>2
  <2>4. ASSUME NEW i \in 1..n PROVE r[m + i] = new[i]
    <3>1. m + i \in 1..(m + n) /\ ~(m + i <= m) /\ (m + i) - m = i
      BY SMT, <2>2
    <3> QED
      BY <2>1, <3>1
  <2> QED
    BY <2>1, <2>2, <2>3, <2>4
<1>2. DOMAIN q = 1..m /\ DOMAIN r = 1..(m + n) /\ \A i \in DOMAIN q : q[i] \in Event
  BY SMT, <1>1
<1> HIDE DEF r, m
<1>3. \A i \in 1..m : i \in DOMAIN q /\ i \in DOMAIN r /\ r[i] = q[i] /\ (Connection(r, i) <=> Connection(q, i))
  BY SMT, <1>1, <1>2 DEF Connection
<1>4. ASSUME NEW i \in 1..n
      PROVE  m + i \in DOMAIN r /\ r[m + i] = new[i] /\ Connection(r, m + i) /\ r[m + i].block # Genesis
  <2>1. m + i \in 1..(m + n) /\ r[m + i] = new[i]
    BY SMT, <1>1
  <2> QED
    BY <1>2, <2>1 DEF Connection
<1>5. ASSUME NEW i \in DOMAIN r PROVE i \in 1..m \/ \E h \in 1..n : i = m + h
  <2>1. i \in 1..m \/ (i - m \in 1..n /\ i = m + (i - m))
    BY SMT, <1>1, <1>2
  <2> QED
    BY <2>1
<1>6. \A i \in DOMAIN r : Connection(r, i) => r[i].block # Genesis
  <2> SUFFICES ASSUME NEW i \in DOMAIN r, Connection(r, i) PROVE r[i].block # Genesis
    OBVIOUS
  <2>1. CASE i \in 1..m
    BY <1>3, <2>1 DEF Follows
  <2>2. CASE \E h \in 1..n : i = m + h
    BY <1>4, <2>2
  <2> QED
    BY <1>5, <2>1, <2>2
<1>7. ASSUME NEW i \in DOMAIN r, NEW j \in DOMAIN r, i < j, Connection(r, i), Connection(r, j),
             \A k \in DOMAIN r : i < k /\ k < j => ~ Connection(r, k)
      PROVE  Parent[r[j].block] \in Ancestors[r[i].block]
  <2>1. CASE j \in 1..m
    <3>1. i \in 1..m
      BY SMT, <1>1, <1>2, <1>7, <2>1
    <3>2. \A k \in DOMAIN q : i < k /\ k < j => ~ Connection(q, k)
      BY <1>2, <1>3, <1>7
    <3>3. Parent[q[j].block] \in Ancestors[q[i].block]
      BY <1>3, <1>7, <2>1, <3>1, <3>2 DEF Follows
    <3> QED
      BY <1>3, <2>1, <3>1, <3>3
  <2>2. CASE j = m + 1
    <3>1. i \in 1..m
      BY SMT, <1>1, <1>2, <1>7, <2>2
    <3>2. \A k \in DOMAIN q : i < k => ~ Connection(q, k)
      <4> TAKE k \in DOMAIN q
      <4>1. k \in 1..m /\ k < j
        BY SMT, <1>1, <1>2, <2>2
      <4> QED
        BY <1>3, <1>7, <4>1
    <3>3. t \in Ancestors[q[i].block] /\ q[i] \in Event
      <4>1. i \in DOMAIN q /\ Connection(q, i) /\ q[i] \in Event
        BY <1>2, <1>3, <1>7, <3>1
      <4> QED
        BY <3>2, <4>1 DEF EndsAt
    <3>4. q[i].block \in Blocks
      BY <3>3 DEF Event
    <3>5. r[j] = new[1]
      <4>1. 1 \in 1..n
        BY FirstIndex
      <4> QED
        BY <1>1, <2>2, <4>1
    <3>6. Parent[new[1].block] \in Ancestors[q[i].block]
      BY <3>3, <3>4, AncestorsBelow
    <3> QED
      BY <1>3, <3>1, <3>5, <3>6
  <2>3. CASE \E h \in 1..n : h # 1 /\ j = m + h
    <3>0. PICK h \in 1..n : h # 1 /\ j = m + h
      BY <2>3
    <3>1. h - 1 \in 1..n /\ h > 1 /\ m + (h - 1) = j - 1 /\ j - 1 < j
      BY SMT, <1>1, <3>0
    <3>2. r[j] = new[h] /\ r[j - 1] = new[h - 1] /\ j - 1 \in DOMAIN r /\ Connection(r, j - 1)
      <4>1. r[m + (h - 1)] = new[h - 1] /\ m + (h - 1) \in DOMAIN r /\ Connection(r, m + (h - 1))
        BY <1>4, <3>1
      <4> QED
        BY <1>1, <3>0, <3>1, <4>1
    <3>3. i = j - 1
      <4>1. ~(i < j - 1)
        BY <1>7, <3>1, <3>2
      <4>2. i \in Int /\ j \in Int
        BY SMT, <1>2
      <4> QED
        BY SMT, <1>7, <4>1, <4>2
    <3>4. new[h - 1] \in Event
      BY SMT, <3>1
    <3>5. Parent[r[j].block] = r[i].block /\ r[i].block \in Blocks
      BY <3>1, <3>2, <3>3, <3>4 DEF Event
    <3> QED
      BY SMT, <3>5, TreeFacts
  <2> QED
    BY <1>5, <2>1, <2>2, <2>3
<1>8. Follows(r)
  BY <1>6, <1>7 DEF Follows
<1>9. EndsAt(r, new[n].block)
  <2> SUFFICES ASSUME NEW i \in DOMAIN r, Connection(r, i), \A k \in DOMAIN r : i < k => ~ Connection(r, k)
               PROVE  new[n].block \in Ancestors[r[i].block]
    BY DEF EndsAt
  <2>1. m + n \in DOMAIN r /\ Connection(r, m + n) /\ r[m + n] = new[n] /\ new[n] \in Event
    BY SMT, <1>1, <1>4
  <2>2. i = m + n
    <3>1. ~(i < m + n)
      BY <2>1
    <3> QED
      BY SMT, <1>1, <1>2, <3>1
  <2>3. new[n].block \in Blocks
    BY <2>1 DEF Event
  <2>4. new[n].block \in Ancestors[new[n].block]
    BY <2>3, OwnAncestor
  <2> QED
    BY <2>1, <2>2, <2>4
<1>10. ASSUME NEW b \in MaybeBlock, Covering(q, t, b) PROVE Covering(r, new[n].block, b)
  <2>1. CASE t \in ChainOf(b)
    <3>1. Parent[new[1].block] \in ChainOf(b)
      BY SMT, <2>1, TreeFacts DEF ChainOf, MaybeBlock
    <3>2. 1 \in 1..n
      BY FirstIndex
    <3> QED
      BY <1>4, <3>1, <3>2 DEF Covering
  <2>2. CASE \E i \in DOMAIN q : Connection(q, i) /\ Parent[q[i].block] \in ChainOf(b)
    BY <1>2, <1>3, <2>2 DEF Covering
  <2> QED
    BY <1>10, <2>1, <2>2 DEF Covering
<1> QED
  BY <1>8, <1>9, <1>10 DEF r

\* The first callback of the queue.
LEMMA FirstEvent ==
    ASSUME IndexInv, queue # <<>>
    PROVE  /\ queue \in Seq(Event) /\ queue[1] = Head(queue) /\ queue[1].block = block /\ 1 \in DOMAIN queue
           /\ Connection(queue, 1) <=> Head(queue).type = "BlockConnected"
<1>1. queue \in Seq(Event)
  BY DEF IndexInv, MemoryOK
<1>2. queue[1] = Head(queue) /\ 1 \in DOMAIN queue
  BY SMT, <1>1
<1> QED
  BY <1>1, <1>2 DEF Connection, block

\* The steps of the active chain.
LEMMA ChainQueue ==
    ASSUME IndexInv, QueueInv,
           (\E b \in Blocks : ActivateBestChain(b)) \/ DisconnectTip \/ FlushStateToDisk
    PROVE  QueueInv'
<1>1. /\ queue \in Seq(Event) /\ tip \in Blocks /\ m_best_block_index \in MaybeBlock
      /\ Follows(queue) /\ EndsAt(queue, tip)
      /\ status = "up" /\ m_synced => Covering(queue, tip, m_best_block_index)
  BY DEF IndexInv, MemoryOK, QueueInv
<1>2. ASSUME NEW b \in Blocks, ActivateBestChain(b) PROVE QueueInv'
  <2> DEFINE n == nHeight[b] - nHeight[FindFork(b)]
             new == [i \in 1..n |-> [type |-> "BlockConnected",
                                     block |-> GetAncestor(b, nHeight[FindFork(b)] + i)]]
  <2>1. /\ n \in Nat \ {0} /\ new \in Seq(Event) /\ Len(new) = n
        /\ \A i \in 1..n : new[i].type = "BlockConnected" /\ new[i].block # Genesis
        /\ Parent[new[1].block] \in Ancestors[tip]
        /\ \A i \in 1..n : i > 1 => Parent[new[i].block] = new[i - 1].block
        /\ new[n].block = b
    BY <1>1, <1>2, NewEvents DEF ActivateBestChain
  <2>2. queue' = queue \o new /\ tip' = b /\ UNCHANGED <<memVars, nodeVars>>
    BY <1>2 DEF ActivateBestChain
  <2> HIDE DEF n, new
  <2>3. /\ Follows(queue \o new) /\ EndsAt(queue \o new, b)
        /\ \A c \in MaybeBlock : Covering(queue, tip, c) => Covering(queue \o new, b, c)
    BY <1>1, <2>1, ConnectFollows
  <2> QED
    BY <1>1, <2>2, <2>3 DEF QueueInv, memVars, nodeVars
<1>3. CASE DisconnectTip
  <2>1. Parent[tip] \in Blocks /\ \A x \in Blocks : tip \in Ancestors[x] => Parent[tip] \in Ancestors[x]
    BY SMT, <1>1, <1>3, TreeFacts DEF DisconnectTip
  <2>2. \A i \in DOMAIN queue : queue[i].block \in Blocks
    <3>1. \A i \in DOMAIN queue : queue[i] \in Event
      BY SMT, <1>1
    <3> QED
      BY <3>1 DEF Event
  <2>3. EndsAt(queue, Parent[tip])
    BY <1>1, <2>1, <2>2 DEF EndsAt
  <2>4. \A c \in MaybeBlock : Covering(queue, tip, c) => Covering(queue, Parent[tip], c)
    BY <2>1 DEF Covering, ChainOf, MaybeBlock
  <2>5. queue' = queue /\ tip' = Parent[tip] /\ UNCHANGED <<memVars, nodeVars>>
    BY <1>3 DEF DisconnectTip, callVars
  <2> QED
    BY <1>1, <2>3, <2>4, <2>5 DEF QueueInv, memVars, nodeVars
<1>4. CASE FlushStateToDisk
  <2> DEFINE e == [type |-> "ChainStateFlushed", block |-> tip]
  <2>1. e \in Event /\ e.type # "BlockConnected"
    BY <1>1 DEF Event
  <2>2. queue' = Append(queue, e) /\ UNCHANGED <<tip, memVars, nodeVars>>
    BY <1>4 DEF FlushStateToDisk
  <2> HIDE DEF e
  <2>3. /\ Follows(Append(queue, e)) /\ EndsAt(Append(queue, e), tip)
        /\ \A b \in MaybeBlock : Covering(queue, tip, b) => Covering(Append(queue, e), tip, b)
    BY <1>1, <2>1, FlushFollows
  <2> QED
    BY <1>1, <2>2, <2>3 DEF QueueInv, memVars, nodeVars
<1> QED
  BY <1>2, <1>3, <1>4

\* The sync thread: it ends where the active chain has no next block.
LEMMA SyncQueue ==
    ASSUME IndexInv, QueueInv, ThreadSync
    PROVE  QueueInv'
<1>1. ~ m_synced /\ tip \in Blocks /\ pindex \in MaybeBlock
  BY DEF ThreadSync, SyncInterrupted, SyncDone, SyncNext, SyncLocator, SyncAppend, IndexInv, MemoryOK
<1>2. UNCHANGED <<queue, tip>>
  BY DEF ThreadSync, SyncInterrupted, SyncDone, SyncNext, SyncLocator, SyncAppend, chainVars, callVars
<1>3. CASE m_synced' = m_synced
  BY <1>1, <1>2, <1>3 DEF QueueInv
<1>4. CASE SyncDone
  <2>1. pindex \in Blocks /\ NextOf(FindFork(pindex)) = {} /\ m_best_block_index' = pindex
    BY <1>1, <1>4 DEF SyncDone, NextSyncBlock, MaybeBlock
  <2>2. FindFork(pindex) \in Ancestors[pindex] /\ FindFork(pindex) \in Ancestors[tip]
    BY <1>1, <2>1, LastCommonFacts DEF FindFork
  <2>3. FindFork(pindex) = tip
    <3> SUFFICES ASSUME FindFork(pindex) # tip PROVE FALSE
      OBVIOUS
    <3>1. \E c \in Ancestors[tip] : Parent[c] = FindFork(pindex)
      BY <1>1, <2>2, ChildOnPath
    <3> QED
      BY <2>1, <3>1 DEF NextOf
  <2>4. tip \in ChainOf(pindex)
    BY <2>1, <2>2, <2>3, ChainFacts
  <2> QED
    BY <1>2, <2>1, <2>4 DEF QueueInv, Covering
<1> QED
  BY <1>3, <1>4 DEF ThreadSync, SyncInterrupted, SyncNext, SyncLocator, SyncAppend

\* A callback that is dropped connects to nothing the best block has, and one that
\* is not leaves the best block below the next.
LEMMA CallbackQueue ==
    ASSUME IndexInv, QueueInv, RunCallback
    PROVE  QueueInv'
<1>1. /\ status = "up" /\ queue # <<>> /\ UNCHANGED <<tip, m_synced>>
      /\ tip \in Blocks /\ m_best_block_index \in MaybeBlock /\ queue \in Seq(Event)
      /\ Follows(queue) /\ EndsAt(queue, tip)
  BY DEF RunCallback, BlockConnected, RewindCopy, Rewind, BlockAppend, ChainStateFlushed, Callback,
         chainVars, memVars, IndexInv, MemoryOK, QueueInv
<1>2. Follows(Tail(queue)) /\ EndsAt(Tail(queue), tip)
  BY <1>1, TailFollows
<1>3. CASE ~ m_synced /\ queue' = Tail(queue)
  BY <1>1, <1>2, <1>3 DEF QueueInv
<1>4. ASSUME m_synced, queue' = Tail(queue), m_best_block_index' = m_best_block_index,
             Head(queue).type = "BlockConnected" => Parent[block] \notin ChainOf(m_best_block_index)
      PROVE  QueueInv'
  <2>1. Covering(Tail(queue), tip, m_best_block_index)
    BY <1>1, <1>4, FirstEvent, TailCovering DEF QueueInv
  <2> QED
    BY <1>1, <1>2, <1>4, <2>1 DEF QueueInv
<1>5. CASE UNCHANGED <<queue, m_best_block_index, status>>
  BY <1>1, <1>5 DEF QueueInv
<1>6. CASE BlockConnected
  <2>1. m_best_block_index' = m_best_block_index
    BY <1>6 DEF BlockConnected, memVars
  <2>2. ASSUME m_synced, ~ Connects(block) PROVE Parent[block] \notin ChainOf(m_best_block_index)
    BY <2>2 DEF Connects, ChainOf
  <2>3. ASSUME m_synced PROVE m_best_block_index # None
    BY <2>3 DEF IndexInv, MemoryOK
  <2> QED
    BY <1>3, <1>4, <1>5, <1>6, <2>1, <2>2, <2>3 DEF BlockConnected
<1>7. CASE RewindCopy
  <2>1. CASE UNCHANGED status
    BY <1>5, <1>7, <2>1 DEF RewindCopy, memVars
  <2>2. CASE status' = "fatal"
    BY <1>1, <1>7, <2>2 DEF RewindCopy, QueueInv
  <2> QED
    BY <1>7, <2>1, <2>2 DEF RewindCopy, FatalError
<1>8. CASE Rewind
  <2>1. CASE status' = "fatal"
    BY <1>1, <1>8, <2>1 DEF Rewind, QueueInv
  <2>2. CASE m_best_block_index' = Parent[block] /\ cb' = "append"
    <3>1. IndexInv' /\ queue' = queue /\ m_synced
      BY <1>8, RewindIndex, IndexStep DEF Rewind, IndexInv, RunInv, CallbackInv, Callback
    <3>2. Head(queue).type = "BlockConnected" /\ Parent[block] \in Blocks
      BY <1>8, CallbackFacts, TreeFacts, <3>1 DEF Rewind, Callback, IndexInv, RunInv, CallbackInv
    <3>3. Parent[queue[1].block] \in ChainOf(Parent[block]) /\ Connection(queue, 1) /\ 1 \in DOMAIN queue
      BY <1>1, <3>2, FirstEvent, ChainFacts
    <3> QED
      BY <1>1, <2>2, <3>1, <3>3 DEF QueueInv, Covering
  <2> QED
    BY <1>8, <2>1, <2>2 DEF Rewind, FatalError
<1>9. CASE BlockAppend
  <2>1. CASE status' = "fatal"
    BY <1>1, <1>9, <2>1 DEF BlockAppend, FatalError, QueueInv
  <2>2. CASE m_best_block_index' = block /\ queue' = Tail(queue)
    <3>1. m_synced /\ Callback("BlockConnected")
      BY <1>9 DEF BlockAppend, Callback, IndexInv, RunInv, CallbackInv
    <3>2. Connection(queue, 1) /\ block = queue[1].block /\ block \in MaybeBlock
      BY <1>1, <3>1, FirstEvent, CallbackFacts DEF Callback, MaybeBlock
    <3>3. Covering(Tail(queue), tip, block)
      BY <1>1, <3>2, TailCovering
    <3> QED
      BY <1>1, <1>2, <2>2, <3>3 DEF QueueInv
  <2> QED
    BY <1>9, <2>1, <2>2 DEF BlockAppend, FatalError
<1>10. CASE ChainStateFlushed
  <2>1. queue' = Tail(queue) /\ m_best_block_index' = m_best_block_index /\ Head(queue).type # "BlockConnected"
    BY <1>10 DEF ChainStateFlushed, Callback, memVars
  <2> QED
    BY <1>3, <1>4, <2>1, <1>1 DEF IndexInv, MemoryOK
<1> QED
  BY SMT, <1>6, <1>7, <1>8, <1>9, <1>10 DEF RunCallback

\* Every step keeps QueueInv.
LEMMA QueueStep == IndexInv /\ QueueInv /\ [Next]_vars => QueueInv'
<1> SUFFICES ASSUME IndexInv, QueueInv, [Next]_vars PROVE QueueInv'
  OBVIOUS
<1>0. Follows(<<>>) /\ EndsAt(<<>>, tip')
  BY SMT DEF Follows, EndsAt
<1>1. CASE Forget
  BY <1>0, <1>1 DEF Forget, QueueInv
<1>2. CASE Start
  <2>1. queue' = <<>> /\ tip' = flushed /\ flushed \in Blocks
    BY <1>2 DEF Start, IndexInv, MemoryOK, callVars, chainVars
  <2>2. m_synced' => m_best_block_index' = flushed
    BY <1>2 DEF Start
  <2>3. flushed \in ChainOf(flushed)
    BY <2>1, ChainFacts
  <2> QED
    BY <1>0, <2>1, <2>2, <2>3 DEF QueueInv, Covering
<1>3. CASE UNCHANGED <<queue, tip, memVars, status>>
  BY <1>3 DEF QueueInv, memVars
<1> QED
  BY <1>1, <1>2, <1>3, ChainQueue, SyncQueue, CallbackQueue
     DEF Next, Stop, Crash, Quiet, Interrupt, vars, chainVars, callVars, nodeVars

\* When the index is synced and its callbacks have run, it is on the active chain and
\* serves every block of it: no order of callbacks, reorganisations and restarts makes
\* the hand-over from ThreadSync to BlockConnected lose a block.
THEOREM CoversTipTheorem == Spec => []CoversTip
<1>1. Init => QueueInv
  BY SMT DEF Init, QueueInv, Follows, EndsAt
<1>2. IndexInv /\ QueueInv => CoversTip
  <2> SUFFICES ASSUME IndexInv, QueueInv, status = "up", m_synced, queue = <<>>
               PROVE  tip \in ChainOf(m_best_block_index) /\ \A b \in Ancestors[tip] : LookUpOne(db, b) = Value(b)
    BY DEF CoversTip
  <2>1. tip \in ChainOf(m_best_block_index)
    BY SMT DEF QueueInv, Covering
  <2>2. /\ EntriesTrue(db) /\ OnPath(db, m_best_block_index) /\ m_best_block_index \in Blocks /\ tip \in Blocks
        /\ m_best_block_index \in MaybeBlock
    BY DEF IndexInv, RunInv, MemoryOK, MaybeBlock, Current, DiskOK
  <2>3. Ancestors[tip] \subseteq ChainOf(m_best_block_index) /\ Ancestors[tip] \subseteq Blocks
    BY SMT, <2>1, <2>2, ChainFacts, TreeFacts
  <2> QED
    BY <2>1, <2>2, <2>3, LookUpFacts
<1> QED
  BY <1>1, <1>2, QueueStep, IndexTheorem, PTL DEF Spec
=============================================================================
