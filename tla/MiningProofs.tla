---------------------------- MODULE MiningProofs ----------------------------
(***************************************************************************)
(* What a miner relies on.                                                 *)
(*                                                                         *)
(* Pow, for every timespan, limit and compact form that PowAssumption and  *)
(* CompactAssumption admit, and for timestamps of any kind: the targets    *)
(* that GetNextWorkRequired demands pass PermittedDifficultyTransition,    *)
(* and steady times leave the target alone.                                *)
(*                                                                         *)
(* AuxpowMiner, for any number of threads, scripts and templates, any size *)
(* of the cache and any order of the hashes: what the calls of merged      *)
(* mining hand out and report.                                             *)
(***************************************************************************)
EXTENDS Pow, AuxpowMiner, TLAPS

T == nPowTargetTimespan
-----------------------------------------------------------------------------
(* The retarget rule: arithmetic. *)

\* Multiplication keeps the order (bnNew *= nActualTimespan).
LEMMA MultMonotone ==
    ASSUME NEW x \in Nat, NEW a \in Nat, NEW b \in Nat, a <= b
    PROVE  x * a <= x * b
<1>1. b - a \in Nat /\ b = a + (b - a)  OBVIOUS
<1>2. x * b = x * a + x * (b - a)  BY <1>1
<1>3. x * (b - a) \in Nat /\ x * a \in Nat /\ x * b \in Nat  BY <1>1
<1> QED  BY <1>2, <1>3

\* So does division (bnNew /= nTargetTimespan).
LEMMA DivMonotone ==
    ASSUME NEW a \in Nat, NEW b \in Nat, NEW d \in Nat \ {0}, a <= b
    PROVE  a \div d \in Nat /\ b \div d \in Nat /\ a \div d <= b \div d
  OBVIOUS

\* And dividing takes a multiplication back.
LEMMA DivOfMult ==
    ASSUME NEW a \in Nat, NEW d \in Nat \ {0}
    PROVE  (a * d) \div d = a
  OBVIOUS
-----------------------------------------------------------------------------
(* The operators of Pow. *)

\* The timespan that counts lies in PermittedDifficultyTransition's bounds: below
\* CapHeight the 15% rule applies to every fast interval, above it a timespan
\* that is not replaced is a quarter at least.
LEMMA ClampedBounds ==
    ASSUME NEW actual \in Int, NEW height \in Nat
    PROVE  /\ Clamped(actual, height) \in Nat /\ Clamped(actual, height) <= T * 2
           /\ height < CapHeight => (T * 100) \div 115 <= Clamped(actual, height)
           /\ height >= CapHeight => T \div 4 <= Clamped(actual, height)
<1>1. T \in Nat /\ T > 0 /\ CapHeight \in Nat  BY PowAssumption DEF T
<1>2. /\ T \div 4 \in Nat /\ T \div 4 <= T
      /\ (T * 100) \div 115 \in Nat /\ (T * 100) \div 115 <= T
      /\ (T * 100) \div 103 \in Nat /\ (T * 100) \div 103 <= T /\ T \div 4 <= (T * 100) \div 103
  BY <1>1
<1> QED  BY <1>1, <1>2 DEF Clamped, Least, T

\* A scaled target is a target, and grows with the timespan.
LEMMA ScaledMonotone ==
    ASSUME NEW bits, FromCompact(bits) \in Nat, NEW a \in Nat, NEW b \in Nat, a <= b
    PROVE  /\ Scaled(bits, a) \in 0..bnPowLimit /\ Scaled(bits, b) \in 0..bnPowLimit
           /\ Scaled(bits, a) <= Scaled(bits, b)
<1> DEFINE x == FromCompact(bits)
<1>1. T \in Nat \ {0} /\ bnPowLimit \in Nat  BY PowAssumption DEF T
<1>2. x * a \in Nat /\ x * b \in Nat /\ x * a <= x * b  BY MultMonotone
<1> HIDE DEF x
<1>3. /\ (x * a) \div T \in Nat /\ (x * b) \div T \in Nat
      /\ (x * a) \div T <= (x * b) \div T
  BY <1>1, <1>2, DivMonotone
<1> QED  BY <1>1, <1>3 DEF Scaled, Least, T, x

\* What an nBits stands for, when it is the compact form of a target.
LEMMA SetCompactOfBits ==
    ASSUME NEW t \in 0..bnPowLimit
    PROVE  FromCompact(ToCompact(t)) \in 0..bnPowLimit
<1>1. Rounded(t) \in 0..t  BY CompactAssumption
<1> QED  BY <1>1, PowAssumption DEF Rounded

\* The entries of since that GetNextWorkRequired looks at exist.
LEMMA LookbackInRange ==
    ASSUME NEW s \in [0..DifficultyAdjustmentInterval -> Int]
    PROVE  s[BlocksToGoBack] \in Int
<1>1. DifficultyAdjustmentInterval \in Nat \ {0}  BY PowAssumption
<1>2. BlocksToGoBack \in 0..DifficultyAdjustmentInterval  BY <1>1 DEF BlocksToGoBack
<1> QED  BY <1>2
-----------------------------------------------------------------------------
(* The chain of headers. *)

\* The target the next retarget gives is a target again.
LEMMA NextWorkIsCompact ==
    ASSUME HeaderTypeOK
    PROVE  \E t \in 0..bnPowLimit : GetNextWorkRequired = ToCompact(t)
<1>1. CASE (nHeight + 1) % DifficultyAdjustmentInterval # 0
  BY <1>1 DEF HeaderTypeOK, GetNextWorkRequired
<1>2. CASE (nHeight + 1) % DifficultyAdjustmentInterval = 0
  <2> DEFINE span == Clamped(since[BlocksToGoBack], nHeight)
  <2>1. FromCompact(nBits) \in Nat  BY SetCompactOfBits, PowAssumption DEF HeaderTypeOK
  <2>2. since[BlocksToGoBack] \in Int /\ nHeight \in Nat
    BY LookbackInRange, PowAssumption DEF HeaderTypeOK
  <2>3. span \in Nat  BY <2>2, ClampedBounds
  <2> HIDE DEF span
  <2>4. Scaled(nBits, span) \in 0..bnPowLimit  BY <2>1, <2>3, ScaledMonotone
  <2>5. GetNextWorkRequired = ToCompact(Scaled(nBits, span))
    BY <1>2 DEF GetNextWorkRequired, CalculateNextWorkRequired, span
  <2> QED  BY <2>4, <2>5
<1> QED  BY <1>1, <1>2

\* Every nBits is the compact form of a target within the limit, and the history
\* of times is there to be looked at.
THEOREM TypeCorrect == HeaderSpec => []HeaderTypeOK
<1>1. HeaderInit => HeaderTypeOK
  <2> SUFFICES ASSUME HeaderInit PROVE HeaderTypeOK  OBVIOUS
  <2>1. nHeight \in 0..MaxHeaders  BY PowAssumption DEF HeaderInit
  <2>2. since \in [0..DifficultyAdjustmentInterval -> Int]  BY DEF HeaderInit
  <2>3. \E t \in 0..bnPowLimit : nBits = ToCompact(t)  BY PowAssumption DEF HeaderInit
  <2> QED  BY <2>1, <2>2, <2>3 DEF HeaderTypeOK
<1>2. HeaderTypeOK /\ [HeaderNext]_headerVars => HeaderTypeOK'
  <2> SUFFICES ASSUME HeaderTypeOK, [HeaderNext]_headerVars PROVE HeaderTypeOK'  OBVIOUS
  <2>1. CASE UNCHANGED headerVars  BY <2>1 DEF HeaderTypeOK, headerVars
  <2>2. ASSUME NEW gap \in Gaps, AcceptBlockHeader(gap) PROVE HeaderTypeOK'
    <3>1. nHeight' \in 0..MaxHeaders  BY <2>2, PowAssumption DEF HeaderTypeOK, AcceptBlockHeader
    <3>2. since' \in [0..DifficultyAdjustmentInterval -> Int]
      <4>1. gap \in Int /\ DifficultyAdjustmentInterval \in Nat  BY PowAssumption
      <4>2. ASSUME NEW i \in 0..DifficultyAdjustmentInterval, i # 0
            PROVE  since[i - 1] + gap \in Int
        <5>1. i - 1 \in 0..DifficultyAdjustmentInterval  BY <4>1, <4>2
        <5> QED  BY <5>1, <4>1 DEF HeaderTypeOK
      <4> QED  BY <2>2, <4>2 DEF AcceptBlockHeader
    <3>3. \E t \in 0..bnPowLimit : nBits' = ToCompact(t)
      BY <2>2, NextWorkIsCompact DEF AcceptBlockHeader
    <3> QED  BY <3>1, <3>2, <3>3 DEF HeaderTypeOK
  <2> QED  BY <2>1, <2>2 DEF HeaderNext
<1> QED  BY <1>1, <1>2, PTL DEF HeaderSpec

\* Header presync turns away no header that validation accepts, whatever the
\* timestamps: the timespan that CalculateNextWorkRequired counts lies between the
\* two that PermittedDifficultyTransition takes, scaling and rounding keep order.
THEOREM AcceptedIsPermitted == HeaderSpec => TransitionsPermitted
<1>1. HeaderTypeOK /\ [HeaderNext]_headerVars => [PermittedDifficultyTransition(nHeight', nBits, nBits')]_headerVars
  <2> SUFFICES ASSUME HeaderTypeOK, NEW gap \in Gaps, AcceptBlockHeader(gap)
               PROVE  PermittedDifficultyTransition(nHeight', nBits, nBits')
    BY DEF HeaderNext
  <2>1. nHeight' = nHeight + 1 /\ nHeight \in Nat /\ nBits' = GetNextWorkRequired
    BY PowAssumption DEF AcceptBlockHeader, HeaderTypeOK
  <2>2. CASE (nHeight + 1) % DifficultyAdjustmentInterval # 0
    BY <2>1, <2>2 DEF GetNextWorkRequired, PermittedDifficultyTransition
  <2>3. CASE (nHeight + 1) % DifficultyAdjustmentInterval = 0
    <3> DEFINE span == Clamped(since[BlocksToGoBack], nHeight)
               smallest == IF nHeight + 1 <= CapHeight THEN (T * 100) \div 115 ELSE T \div 4
    <3>1. FromCompact(nBits) \in Nat  BY SetCompactOfBits, PowAssumption DEF HeaderTypeOK
    <3>2. since[BlocksToGoBack] \in Int  BY Zenon, LookbackInRange DEF HeaderTypeOK
    <3>3. T \in Nat /\ CapHeight \in Nat  BY PowAssumption DEF T
    <3>4. span \in Nat /\ smallest \in Nat /\ smallest <= span /\ span <= T * 2
      <4>1. /\ span \in Nat /\ span <= T * 2
            /\ nHeight < CapHeight => (T * 100) \div 115 <= span
            /\ nHeight >= CapHeight => T \div 4 <= span
        BY Zenon, <2>1, <3>2, ClampedBounds
      <4>2. (T * 100) \div 115 \in Nat /\ T \div 4 \in Nat  BY <3>3
      <4> HIDE DEF span
      <4> QED  BY <2>1, <3>3, <4>1, <4>2
    <3>5. nBits' = ToCompact(Scaled(nBits, span))
      BY <2>1, <2>3 DEF GetNextWorkRequired, CalculateNextWorkRequired
    <3>6. PermittedDifficultyTransition(nHeight', nBits, nBits') <=>
              /\ Rounded(Scaled(nBits, span)) <= Rounded(Scaled(nBits, T * 2))
              /\ Rounded(Scaled(nBits, span)) >= Rounded(Scaled(nBits, smallest))
      BY <2>1, <2>3, <3>5 DEF PermittedDifficultyTransition, Rounded, T
    <3> HIDE DEF span, smallest
    <3>7. Rounded(Scaled(nBits, span)) <= Rounded(Scaled(nBits, T * 2))
      BY <3>1, <3>3, <3>4, ScaledMonotone, CompactAssumption
    <3>8. /\ Scaled(nBits, smallest) \in 0..bnPowLimit /\ Scaled(nBits, span) \in 0..bnPowLimit
          /\ Scaled(nBits, smallest) <= Scaled(nBits, span)
      BY <3>1, <3>4, ScaledMonotone
    <3>9. Rounded(Scaled(nBits, smallest)) <= Rounded(Scaled(nBits, span))
      BY <3>8, CompactAssumption
    <3>10. /\ Rounded(Scaled(nBits, smallest)) \in Int /\ Rounded(Scaled(nBits, span)) \in Int
      BY <3>8, CompactAssumption
    <3> QED  BY <3>6, <3>7, <3>9, <3>10
  <2> QED  BY <2>2, <2>3
<1> QED  BY <1>1, TypeCorrect, PTL DEF HeaderSpec, TransitionsPermitted

\* From LookbackHeight on, blocks that came exactly on time leave the target as it
\* is: the timespan is the target timespan, which no clamp touches, and rounding
\* a rounded target changes nothing.
THEOREM SteadyIsStable == HeaderSpec => SteadyTimesKeepTarget
<1> DEFINE Steady == /\ nHeight' >= LookbackHeight /\ nHeight' # DifficultyAdjustmentInterval
                     /\ \A i \in 0..DifficultyAdjustmentInterval : since[i] = i * nPowTargetSpacing
<1>1. HeaderTypeOK /\ [HeaderNext]_headerVars => [Steady => nBits' = nBits]_headerVars
  <2> SUFFICES ASSUME HeaderTypeOK, NEW gap \in Gaps, AcceptBlockHeader(gap), Steady,
                      (nHeight + 1) % DifficultyAdjustmentInterval = 0
               PROVE  nBits' = nBits
    BY DEF HeaderNext, AcceptBlockHeader, GetNextWorkRequired
  <2>1. nHeight' = nHeight + 1 /\ nHeight \in Nat /\ DifficultyAdjustmentInterval \in Nat
    BY PowAssumption DEF AcceptBlockHeader, HeaderTypeOK
  <2>2. BlocksToGoBack = DifficultyAdjustmentInterval  BY <2>1 DEF BlocksToGoBack
  <2>3. since[BlocksToGoBack] = T  BY <2>1, <2>2, PowAssumption DEF T
  <2>4. Clamped(T, nHeight) = T
    <3>1. T \in Nat /\ T > 0 /\ CapHeight \in Nat  BY PowAssumption DEF T
    <3>2. /\ T \div 4 \in Nat /\ T \div 4 <= T
          /\ (T * 100) \div 115 \in Nat /\ (T * 100) \div 115 <= T
      BY <3>1
    <3> QED  BY <2>1, <3>1, <3>2 DEF Clamped, Least, T
  <2>5. PICK t \in 0..bnPowLimit : nBits = ToCompact(t)  BY DEF HeaderTypeOK
  <2>6. FromCompact(nBits) = Rounded(t) /\ Rounded(t) \in 0..bnPowLimit
    BY <2>5, SetCompactOfBits DEF Rounded
  <2>7. Scaled(nBits, T) = Rounded(t)
    <3>1. Rounded(t) \in Nat /\ Rounded(t) <= bnPowLimit /\ bnPowLimit \in Nat /\ T \in Nat \ {0}
      BY <2>6, PowAssumption DEF T
    <3>2. (Rounded(t) * T) \div T = Rounded(t)  BY <3>1, DivOfMult
    <3> QED  BY <2>6, <3>1, <3>2 DEF Scaled, Least, T
  <2>8. nBits' = ToCompact(Scaled(nBits, T))
    BY <2>3, <2>4 DEF AcceptBlockHeader, GetNextWorkRequired, CalculateNextWorkRequired
  <2> QED  BY <2>5, <2>7, <2>8, CompactAssumption
<1> QED  BY <1>1, TypeCorrect, PTL DEF HeaderSpec, SteadyTimesKeepTarget
-----------------------------------------------------------------------------
(* The calls of merged mining. *)

Header == [prev : Nat, script : Scripts, nonce : Nat, auxpow : BOOLEAN]

Caller == [pc : {"free", "insert", "check", "process", "activate", "return"},
           hash : Header \cup {None}, good : BOOLEAN, newBlock : BOOLEAN,
           accepted : BOOLEAN, found : BOOLEAN, valid : BOOLEAN, result : Results]

\* A thread between CreateNewBlock and its insertion has a template.
ThreadsOK ==
    /\ thread \in [Threads -> Caller]
    /\ \A t \in Threads : thread[t].pc = "insert" => thread[t].hash \in Header

CacheOK == tip \in Nat /\ extraNonce \in Nat /\ blocks \subseteq Header /\ returned \in Seq(Header)

\* A StateCatcher that says valid belongs to a block that was connected.
Caught == \A t \in Threads : thread[t].valid => thread[t].hash \in connected

IInv == ThreadsOK /\ CacheOK /\ CacheCurrent /\ Caught

LEMMA FreeLemma ==
    ASSUME NEW r \in Results
    PROVE  Free(r) \in Caller /\ Free(r).pc = "free" /\ ~ Free(r).valid /\ Free(r).result = r
  BY DEF Free, Caller

LEMMA BegunLemma ==
    ASSUME NEW pc \in {"insert", "check"}, NEW b \in Header, NEW good \in BOOLEAN
    PROVE  /\ Begun(pc, b, good) \in Caller
           /\ Begun(pc, b, good).pc = pc /\ Begun(pc, b, good).hash = b /\ ~ Begun(pc, b, good).valid
<1>1. Begun(pc, b, good) \in Caller
  <2>1. CASE good = TRUE
    BY <2>1 DEF Begun, Caller, Results
  <2>2. CASE good = FALSE
    BY <2>2 DEF Begun, Caller, Results
  <2> QED
    BY Zenon, <2>1, <2>2
<1> QED
  BY <1>1 DEF Begun

LEMMA InitLemma == Init => IInv
<1> SUFFICES ASSUME Init PROVE IInv
  OBVIOUS
<1>1. Free("none") \in Caller /\ Free("none").pc = "free" /\ ~ Free("none").valid
  BY Zenon, FreeLemma DEF Results
<1>2. thread \in [Threads -> Caller] /\ \A t \in Threads : thread[t] = Free("none")
  BY <1>1 DEF Init
<1>3. ThreadsOK /\ Caught
  BY <1>1, <1>2 DEF ThreadsOK, Caught
<1>4. CacheOK /\ CacheCurrent
  BY DEF Init, CacheOK, CacheCurrent
<1> QED
  BY <1>3, <1>4 DEF IInv

\* A step that replaces the record of one thread.
LEMMA OneThread ==
    ASSUME ThreadsOK, Caught, NEW t \in Threads, NEW r \in Caller,
           thread' = [thread EXCEPT ![t] = r],
           r.pc = "insert" => r.hash \in Header,
           r.valid => r.hash \in connected, connected' = connected
    PROVE  ThreadsOK' /\ Caught'
  BY DEF ThreadsOK, Caught

LEMMA SameCache ==
    ASSUME CacheOK, CacheCurrent, UNCHANGED <<cacheVars, returned>>, tip' \in Nat
    PROVE  CacheOK' /\ CacheCurrent'
  BY DEF CacheOK, CacheCurrent, cacheVars

LEMMA CreateNewBlockLemma ==
    ASSUME IInv, NEW t \in Threads, NEW s \in Scripts, CreateNewBlock(t, s)
    PROVE  IInv'
<1> DEFINE b == [prev |-> tip, script |-> s, nonce |-> 0, auxpow |-> FALSE]
           r == Begun("insert", b, FALSE)
<1>1. b \in Header
  BY DEF IInv, CacheOK, Header
<1>2. thread' = [thread EXCEPT ![t] = r]
  BY DEF CreateNewBlock
<1> HIDE DEF b
<1>3. r \in Caller /\ r.pc = "insert" /\ r.hash = b /\ ~ r.valid
  BY Zenon, <1>1, BegunLemma
<1> HIDE DEF r
<1>4. ThreadsOK' /\ Caught'
  BY Zenon, <1>1, <1>2, <1>3, OneThread DEF IInv, CreateNewBlock, chainVars
<1> QED
  BY <1>4, SameCache DEF IInv, CreateNewBlock, chainVars, CacheOK

LEMMA CacheTemplateLemma ==
    ASSUME IInv, NEW t \in Threads, CacheTemplate(t)
    PROVE  IInv'
<1> DEFINE h == thread[t].hash
           nonce == IF prevHash = h.prev THEN extraNonce + 1 ELSE 1
           block == Finished(h, nonce)
<1>1. h \in Header
  BY DEF IInv, ThreadsOK, CacheTemplate
<1>2. nonce \in Nat \ {0} /\ (prevHash = h.prev => nonce = extraNonce + 1)
  BY DEF IInv, CacheOK
<1>3. /\ prevHash' = h.prev /\ extraNonce' = nonce
      /\ blocks' = Evicted(KeptFor(h.prev) \cup {block})
      /\ returned' = Append(returned, block) /\ UNCHANGED chainVars
      /\ thread' = [thread EXCEPT ![t] = Free("created")]
  BY DEF CacheTemplate
<1> HIDE DEF nonce
<1>4. block \in Header /\ block.prev = h.prev /\ block.nonce = nonce
  BY Zenon, <1>1, <1>2 DEF Finished, Header
<1> HIDE DEF block
<1>5. blocks' \subseteq KeptFor(h.prev) \cup {block}
  BY <1>3 DEF Evicted
<1>6. KeptFor(h.prev) \subseteq Header /\ \A c \in KeptFor(h.prev) :
         c.prev = h.prev /\ c.nonce \in 1..extraNonce /\ prevHash = h.prev
  BY DEF KeptFor, IInv, CacheOK, CacheCurrent
<1>7. CacheOK'
  <2>1. returned' \in Seq(Header) /\ extraNonce' \in Nat /\ tip' \in Nat
    BY <1>2, <1>3, <1>4 DEF IInv, CacheOK, chainVars
  <2>2. blocks' \subseteq Header
    BY <1>4, <1>5, <1>6
  <2> QED
    BY <2>1, <2>2 DEF CacheOK
<1>8. CacheCurrent'
  <2>1. \A c \in blocks' : c.prev = prevHash' /\ c.nonce \in 1..extraNonce'
    <3>1. ASSUME NEW c \in blocks' PROVE c.prev = h.prev /\ c.nonce \in 1..nonce
      <4>1. CASE c = block
        BY <1>2, <1>4, <4>1
      <4>2. CASE c \in KeptFor(h.prev)
        BY <1>2, <1>6, <4>2 DEF IInv, CacheOK
      <4> QED
        BY <1>5, <4>1, <4>2
    <3> QED
      BY Zenon, <1>3, <3>1
  <2>2. ASSUME NEW a \in blocks', NEW c \in blocks', a.nonce = c.nonce PROVE a = c
    <3>1. CASE a \in KeptFor(h.prev) /\ c \in KeptFor(h.prev)
      BY <2>2, <3>1 DEF IInv, CacheCurrent, KeptFor
    <3>2. \A x \in KeptFor(h.prev) : x.nonce # nonce
      BY <1>2, <1>6 DEF IInv, CacheOK
    <3> QED
      BY <1>4, <1>5, <2>2, <3>1, <3>2
  <2> QED
    BY <2>1, <2>2 DEF CacheCurrent
<1>9. ThreadsOK' /\ Caught'
  <2>1. /\ Free("created") \in Caller /\ Free("created").pc = "free" /\ ~ Free("created").valid
    BY Zenon, FreeLemma DEF Results
  <2> QED
    BY Zenon, <1>3, <2>1, OneThread DEF IInv, chainVars
<1> QED
  BY <1>7, <1>8, <1>9 DEF IInv

LEMMA FindTemplateLemma ==
    ASSUME IInv, NEW t \in Threads, NEW i \in DOMAIN returned, NEW good \in BOOLEAN,
           FindTemplate(t, returned[i], good)
    PROVE  IInv'
<1> DEFINE r == Begun("check", returned[i], good)
<1>1. returned[i] \in Header
  BY DEF IInv, CacheOK
<1>2. r \in Caller /\ r.pc = "check" /\ ~ r.valid
  BY <1>1, BegunLemma
<1>3. thread' = [thread EXCEPT ![t] = r] \/ thread' = [thread EXCEPT ![t] = Free("block hash unknown")]
  BY Zenon DEF FindTemplate
<1> HIDE DEF r
<1>4. ThreadsOK' /\ Caught'
  <2>1. LET f == Free("block hash unknown") IN f \in Caller /\ f.pc = "free" /\ ~ f.valid
    BY Zenon, FreeLemma DEF Results
  <2>2. connected' = connected /\ ThreadsOK /\ Caught
    BY Zenon DEF FindTemplate, chainVars, IInv
  <2> QED
    BY Zenon, <1>2, <1>3, <2>1, <2>2, OneThread
<1> QED
  BY Zenon, <1>4, SameCache DEF IInv, FindTemplate, chainVars, CacheOK

LEMMA FieldsLemma ==
    ASSUME NEW c \in Caller, NEW pc \in {"process", "activate", "return"},
           NEW a \in BOOLEAN, NEW n \in BOOLEAN
    PROVE  /\ [c EXCEPT !.pc = pc] \in Caller /\ [c EXCEPT !.pc = pc].pc = pc
           /\ [c EXCEPT !.pc = pc].hash = c.hash /\ [c EXCEPT !.pc = pc].valid = c.valid
           /\ LET d == [c EXCEPT !.pc = pc, !.accepted = a, !.newBlock = n]
              IN  d \in Caller /\ d.pc = pc /\ d.hash = c.hash /\ d.valid = c.valid
  BY Zenon DEF Caller

\* The signal leaves the calls as they are, but for what the catchers hold.
LEMMA BlockRejectedLemma ==
    ASSUME NEW th \in [Threads -> Caller], NEW hash
    PROVE  LET new == BlockChecked(th, hash, FALSE)
           IN  /\ new \in [Threads -> Caller]
               /\ \A t \in Threads : new[t].pc = th[t].pc /\ new[t].hash = th[t].hash
               /\ \A t \in Threads : new[t].valid => th[t].valid
<1> DEFINE set(c) == [c EXCEPT !.found = TRUE, !.valid = FALSE]
<1>1. \A c \in Caller : set(c) \in Caller /\ set(c).pc = c.pc /\ set(c).hash = c.hash /\ set(c).valid = FALSE
  BY Zenon DEF Caller
<1>2. BlockChecked(th, hash, FALSE) =
        [t \in Threads |-> IF th[t].pc \in {"process", "activate", "return"} /\ th[t].hash = hash
                           THEN set(th[t]) ELSE th[t]]
  BY DEF BlockChecked
<1> HIDE DEF set
<1> QED
  BY Zenon, <1>1, <1>2

LEMMA BlockAcceptedLemma ==
    ASSUME NEW th \in [Threads -> Caller], NEW hash
    PROVE  LET new == BlockChecked(th, hash, TRUE)
           IN  /\ new \in [Threads -> Caller]
               /\ \A t \in Threads : new[t].pc = th[t].pc /\ new[t].hash = th[t].hash
               /\ \A t \in Threads : new[t].valid => th[t].valid \/ th[t].hash = hash
<1> DEFINE set(c) == [c EXCEPT !.found = TRUE, !.valid = TRUE]
<1>1. \A c \in Caller : set(c) \in Caller /\ set(c).pc = c.pc /\ set(c).hash = c.hash /\ set(c).valid = TRUE
  BY Zenon DEF Caller
<1>2. BlockChecked(th, hash, TRUE) =
        [t \in Threads |-> IF th[t].pc \in {"process", "activate", "return"} /\ th[t].hash = hash
                           THEN set(th[t]) ELSE th[t]]
  BY DEF BlockChecked
<1> HIDE DEF set
<1> QED
  BY Zenon, <1>1, <1>2

LEMMA CheckDuplicateLemma ==
    ASSUME IInv, NEW t \in Threads, CheckDuplicate(t)
    PROVE  IInv'
<1> DEFINE next == [thread[t] EXCEPT !.pc = "process"]
<1>1. thread[t] \in Caller /\ ThreadsOK /\ Caught /\ CacheOK /\ CacheCurrent
  BY DEF IInv, ThreadsOK
<1>2. next \in Caller /\ next.pc = "process" /\ next.hash = thread[t].hash /\ next.valid = thread[t].valid
  BY Zenon, <1>1, FieldsLemma
<1>3. next.valid => next.hash \in connected
  BY <1>1, <1>2 DEF Caught
<1>4. \A r \in {"mutated", "duplicate", "duplicate-invalid"} :
        Free(r) \in Caller /\ Free(r).pc = "free" /\ ~ Free(r).valid
  BY Zenon, FreeLemma DEF Results
<1>5. \E r \in {next, Free("mutated"), Free("duplicate"), Free("duplicate-invalid")} :
        thread' = [thread EXCEPT ![t] = r]
  BY Zenon DEF CheckDuplicate
<1>6. connected' = connected /\ tip' = tip /\ UNCHANGED <<cacheVars, returned>>
  BY DEF CheckDuplicate, chainVars
<1> HIDE DEF next
<1>7. ThreadsOK' /\ Caught'
  <2>1. PICK r \in {next, Free("mutated"), Free("duplicate"), Free("duplicate-invalid")} :
           thread' = [thread EXCEPT ![t] = r]
    BY Zenon, <1>5
  <2>2. r \in Caller /\ r.pc # "insert" /\ (r.valid => r.hash \in connected)
    BY <1>2, <1>3, <1>4
  <2> QED
    BY Zenon, <1>1, <1>6, <2>1, <2>2, OneThread
<1> QED
  BY <1>1, <1>6, <1>7, SameCache DEF IInv, CacheOK

LEMMA ProcessNewBlockLemma ==
    ASSUME IInv, NEW t \in Threads, ProcessNewBlock(t)
    PROVE  IInv'
<1> DEFINE accepted == thread[t].good /\ thread[t].hash \notin refused
           new == accepted /\ thread[t].hash \notin stored \cup connected
           pc == IF accepted THEN "activate" ELSE "return"
           r == [thread[t] EXCEPT !.pc = pc, !.accepted = accepted, !.newBlock = new]
           mine == [thread EXCEPT ![t] = r]
<1>1. thread \in [Threads -> Caller] /\ thread[t] \in Caller
      /\ ThreadsOK /\ Caught /\ CacheOK /\ CacheCurrent
  BY DEF IInv, ThreadsOK
<1>2. thread' = mine \/ thread' = BlockChecked(mine, thread[t].hash, FALSE)
  BY Zenon DEF ProcessNewBlock
<1>3. connected' = connected /\ tip' = tip /\ UNCHANGED <<cacheVars, returned>>
  BY DEF ProcessNewBlock
<1>4. accepted \in BOOLEAN /\ new \in BOOLEAN /\ pc \in {"process", "activate", "return"}
      /\ pc # "insert"
  OBVIOUS
<1> HIDE DEF accepted, new, pc
<1>5. r \in Caller /\ r.pc = pc /\ r.hash = thread[t].hash /\ r.valid = thread[t].valid
  BY Zenon, <1>1, <1>4 DEF Caller
<1> HIDE DEF r
<1>6. mine \in [Threads -> Caller] /\ \A u \in Threads :
         (mine[u].valid => mine[u].hash \in connected) /\ (mine[u].pc = "insert" => mine[u].hash \in Header)
  BY <1>1, <1>4, <1>5 DEF ThreadsOK, Caught
<1> HIDE DEF mine
<1>7. ThreadsOK' /\ Caught'
  <2>1. CASE thread' = mine
    BY <1>3, <1>6, <2>1 DEF ThreadsOK, Caught
  <2>2. CASE thread' = BlockChecked(mine, thread[t].hash, FALSE)
    <3> DEFINE th == BlockChecked(mine, thread[t].hash, FALSE)
    <3>1. /\ th \in [Threads -> Caller]
          /\ \A u \in Threads : th[u].pc = mine[u].pc /\ th[u].hash = mine[u].hash
          /\ \A u \in Threads : th[u].valid => mine[u].valid
      BY Zenon, <1>6, BlockRejectedLemma
    <3> HIDE DEF th
    <3>2. thread' = th
      BY <2>2 DEF th
    <3> QED
      BY <1>3, <1>6, <3>1, <3>2 DEF ThreadsOK, Caught
  <2> QED
    BY Zenon, <1>2, <2>1, <2>2
<1> QED
  BY <1>1, <1>3, <1>7, SameCache DEF IInv, CacheOK

LEMMA ConnectTipLemma ==
    ASSUME IInv, NEW b, ConnectTip(b)
    PROVE  IInv'
<1> DEFINE th == BlockChecked(thread, b, TRUE)
<1>1. thread \in [Threads -> Caller] /\ ThreadsOK /\ Caught /\ CacheOK /\ CacheCurrent
  BY DEF IInv, ThreadsOK
<1>2. thread' = th /\ connected' = connected \cup {b} /\ tip' = tip + 1 /\ UNCHANGED <<cacheVars, returned>>
  BY DEF ConnectTip
<1>3. /\ th \in [Threads -> Caller]
      /\ \A u \in Threads : th[u].pc = thread[u].pc /\ th[u].hash = thread[u].hash
      /\ \A u \in Threads : th[u].valid => thread[u].valid \/ thread[u].hash = b
  BY Zenon, <1>1, BlockAcceptedLemma
<1> HIDE DEF th
<1>4. ThreadsOK' /\ Caught'
  BY <1>1, <1>2, <1>3 DEF ThreadsOK, Caught
<1> QED
  BY <1>1, <1>2, <1>4, SameCache DEF IInv, CacheOK

LEMMA ConnectTipFailsLemma ==
    ASSUME IInv, NEW b, ConnectTipFails(b)
    PROVE  IInv'
<1> DEFINE th == BlockChecked(thread, b, FALSE)
<1>1. thread \in [Threads -> Caller] /\ ThreadsOK /\ Caught /\ CacheOK /\ CacheCurrent
  BY DEF IInv, ThreadsOK
<1>2. thread' = th /\ connected' = connected /\ tip' = tip /\ UNCHANGED <<cacheVars, returned>>
  BY DEF ConnectTipFails
<1>3. /\ th \in [Threads -> Caller]
      /\ \A u \in Threads : th[u].pc = thread[u].pc /\ th[u].hash = thread[u].hash
      /\ \A u \in Threads : th[u].valid => thread[u].valid
  BY Zenon, <1>1, BlockRejectedLemma
<1> HIDE DEF th
<1>4. ThreadsOK' /\ Caught'
  BY <1>1, <1>2, <1>3 DEF ThreadsOK, Caught
<1> QED
  BY <1>1, <1>2, <1>4, SameCache DEF IInv, CacheOK

LEMMA ActivatedLemma ==
    ASSUME IInv, NEW t \in Threads, Activated(t)
    PROVE  IInv'
<1> DEFINE r == [thread[t] EXCEPT !.pc = "return"]
<1>1. thread[t] \in Caller /\ ThreadsOK /\ Caught /\ CacheOK /\ CacheCurrent
  BY DEF IInv, ThreadsOK
<1>2. thread' = [thread EXCEPT ![t] = r] /\ connected' = connected /\ tip' = tip
      /\ UNCHANGED <<cacheVars, returned>>
  BY DEF Activated, chainVars
<1>3. r \in Caller /\ r.pc = "return" /\ r.hash = thread[t].hash /\ r.valid = thread[t].valid
  BY <1>1 DEF Caller
<1> HIDE DEF r
<1>4. r.valid => r.hash \in connected
  BY Zenon, <1>1, <1>3 DEF Caught
<1>5. ThreadsOK' /\ Caught'
  BY Zenon, <1>1, <1>2, <1>3, <1>4, OneThread
<1> QED
  BY <1>1, <1>2, <1>5, SameCache DEF IInv, CacheOK

LEMMA ReturnResultLemma ==
    ASSUME IInv, NEW t \in Threads, ReturnResult(t)
    PROVE  IInv'
<1> DEFINE v == Verdict(thread[t])
<1>1. ThreadsOK /\ Caught /\ CacheOK /\ CacheCurrent
  BY DEF IInv
<1>2. thread' = [thread EXCEPT ![t] = Free(v)] /\ connected' = connected /\ tip' = tip
      /\ UNCHANGED <<cacheVars, returned>>
  BY DEF ReturnResult, chainVars
<1>3. v \in Results
  BY DEF Verdict, Results
<1> HIDE DEF v
<1>4. Free(v) \in Caller /\ Free(v).pc = "free" /\ ~ Free(v).valid
  BY <1>3, FreeLemma
<1>5. ThreadsOK' /\ Caught'
  BY Zenon, <1>1, <1>2, <1>4, OneThread
<1> QED
  BY <1>1, <1>2, <1>5, SameCache DEF IInv, CacheOK

LEMMA NextLemma == IInv /\ [Next]_vars => IInv'
<1> SUFFICES ASSUME IInv, [Next]_vars PROVE IInv'
  OBVIOUS
<1>1. ASSUME NEW t \in Threads, NEW s \in Scripts, CreateNewBlock(t, s) PROVE IInv'
  BY <1>1, CreateNewBlockLemma
<1>2. ASSUME NEW t \in Threads, Step(t) PROVE IInv'
  BY <1>2, CacheTemplateLemma, CheckDuplicateLemma, ProcessNewBlockLemma, ActivatedLemma, ReturnResultLemma
     DEF Step
<1>3. ASSUME NEW t \in Threads, NEW i \in DOMAIN returned, NEW good \in BOOLEAN,
             FindTemplate(t, returned[i], good)
      PROVE  IInv'
  BY <1>3, FindTemplateLemma
<1>4. ASSUME NEW b, ConnectTip(b) PROVE IInv'
  BY <1>4, ConnectTipLemma
<1>5. ASSUME NEW b, InvalidateBlock(b) PROVE IInv'
  BY <1>5 DEF InvalidateBlock, IInv, ThreadsOK, CacheOK, CacheCurrent, Caught, cacheVars
<1>6. CASE PeerBlock
  BY <1>6 DEF PeerBlock, IInv, ThreadsOK, CacheOK, CacheCurrent, Caught, cacheVars
<1>7. CASE UNCHANGED vars
  BY <1>7 DEF vars, cacheVars, chainVars, IInv, ThreadsOK, CacheOK, CacheCurrent, Caught
<1>8. ASSUME NEW b, ConnectTipFails(b) PROVE IInv'
  BY <1>8, ConnectTipFailsLemma
<1> QED
  BY <1>1, <1>2, <1>3, <1>4, <1>5, <1>6, <1>7, <1>8 DEF Next

\* The facts the theorems rest on.
THEOREM InvariantTheorem == Spec => []IInv
  BY InitLemma, NextLemma, PTL DEF Spec

\* g_auxpow_blocks mixes no tips: whatever order the calls of createauxblock,
\* which read the tip before they take g_auxpow_mutex, insert in.
THEOREM CacheCurrentTheorem == Spec => []CacheCurrent
<1>1. IInv => CacheCurrent
  BY DEF IInv
<1> QED
  BY <1>1, InvariantTheorem, PTL

\* Every template that can be submitted already has its AuxPoW bit: those of the
\* cache, and those a call has found there and not yet looked at.
Flagged ==
    /\ \A b \in blocks : b.auxpow = TRUE
    /\ \A t \in Threads : thread[t].pc = "check" =>
          thread[t].hash \in Header /\ thread[t].hash.auxpow = TRUE
    /\ NeverMutated

\* A step that replaces the record of one thread.
LEMMA OneThreadFlagged ==
    ASSUME ThreadsOK, Flagged, NEW t \in Threads, NEW r, thread' = [thread EXCEPT ![t] = r],
           r.pc = "check" => r.hash \in Header /\ r.hash.auxpow = TRUE,
           r.result # "mutated", \A b \in blocks' : b.auxpow = TRUE
    PROVE  Flagged'
  BY DEF ThreadsOK, Flagged, NeverMutated

\* The signal BlockChecked changes neither the place of a call, nor its block, nor
\* its result.
LEMMA BlockCheckedKeeps ==
    ASSUME NEW th \in [Threads -> Caller], NEW h, NEW t \in Threads,
           NEW c \in {BlockChecked(th, h, TRUE)[t], BlockChecked(th, h, FALSE)[t]}
    PROVE  c.pc = th[t].pc /\ c.hash = th[t].hash /\ c.result = th[t].result
<1>1. th[t] \in Caller
  OBVIOUS
<1>2. c \in {th[t], [th[t] EXCEPT !.found = TRUE, !.valid = TRUE], [th[t] EXCEPT !.found = TRUE, !.valid = FALSE]}
  BY DEF BlockChecked
<1> QED
  BY Zenon, <1>1, <1>2 DEF Caller

LEMMA CacheTemplateFlagged ==
    ASSUME IInv, Flagged, NEW t \in Threads, CacheTemplate(t)
    PROVE  Flagged'
<1> DEFINE h == thread[t].hash
           nonce == IF prevHash = h.prev THEN extraNonce + 1 ELSE 1
<1>1. blocks' = Evicted(KeptFor(h.prev) \cup {Finished(h, nonce)})
  BY DEF CacheTemplate
<1> HIDE DEF nonce
<1>2. Finished(h, nonce).auxpow = TRUE
  BY DEF CacheTemplate, IInv, ThreadsOK, Header, Finished
<1>3. \A b \in blocks' : b.auxpow = TRUE
  BY Zenon, <1>1, <1>2 DEF Evicted, KeptFor, Flagged
<1>4. Free("created").pc # "check" /\ Free("created").result # "mutated"
  BY DEF Free
<1> QED
  BY Zenon, <1>3, <1>4, OneThreadFlagged DEF CacheTemplate, IInv

LEMMA FindTemplateFlagged ==
    ASSUME IInv, Flagged, NEW t \in Threads, NEW i \in DOMAIN returned, NEW good \in BOOLEAN,
           FindTemplate(t, returned[i], good)
    PROVE  Flagged'
<1> DEFINE r == IF returned[i] \in blocks THEN Begun("check", returned[i], good)
                ELSE Free("block hash unknown")
<1>1. thread' = [thread EXCEPT ![t] = r] /\ blocks' = blocks
  BY Zenon DEF FindTemplate, cacheVars
<1>2. r.result # "mutated" /\ (r.pc = "check" => returned[i] \in blocks /\ r.hash = returned[i])
  BY Zenon DEF Begun, Free
<1> QED
  BY Zenon, <1>1, <1>2, OneThreadFlagged DEF IInv, CacheOK, Flagged

LEMMA CheckDuplicateFlagged ==
    ASSUME IInv, Flagged, NEW t \in Threads, CheckDuplicate(t)
    PROVE  Flagged'
<1> DEFINE hash == thread[t].hash
<1>1. thread[t] \in Caller /\ thread[t].result # "mutated" /\ hash \in Header /\ hash.auxpow = TRUE
  BY DEF IInv, ThreadsOK, Flagged, NeverMutated, CheckDuplicate
<1>2. [hash EXCEPT !.auxpow = TRUE] = hash
  BY Zenon, <1>1 DEF Header
<1>3. PICK r \in {Free("duplicate"), Free("duplicate-invalid"), [thread[t] EXCEPT !.pc = "process"]} :
         thread' = [thread EXCEPT ![t] = r]
  BY Zenon, <1>2 DEF CheckDuplicate
<1>4. r.pc # "check" /\ r.result # "mutated"
  BY <1>1, <1>3 DEF Free, Caller
<1> QED
  BY Zenon, <1>3, <1>4, OneThreadFlagged DEF IInv, CheckDuplicate, cacheVars, Flagged

LEMMA ProcessNewBlockFlagged ==
    ASSUME IInv, Flagged, NEW t \in Threads, ProcessNewBlock(t)
    PROVE  Flagged'
<1> DEFINE hash == thread[t].hash
           accepted == thread[t].good /\ hash \notin refused
           new == accepted /\ hash \notin stored \cup connected
           pc == IF accepted THEN "activate" ELSE "return"
           r == [thread[t] EXCEPT !.pc = pc, !.accepted = accepted, !.newBlock = new]
           mine == [thread EXCEPT ![t] = r]
<1>1. thread[t] \in Caller /\ thread[t].result # "mutated" /\ blocks' = blocks
  BY DEF IInv, ThreadsOK, Flagged, NeverMutated, ProcessNewBlock, cacheVars
<1>2. thread' = mine \/ thread' = BlockChecked(mine, hash, FALSE)
  BY Zenon DEF ProcessNewBlock
<1>3. accepted \in BOOLEAN /\ new \in BOOLEAN /\ pc \in {"process", "activate", "return"}
  BY <1>1 DEF Caller
<1> HIDE DEF accepted, new, pc
<1>4. r \in Caller /\ r.pc = pc /\ r.result = thread[t].result
  BY Zenon, <1>1, <1>3 DEF Caller
<1> HIDE DEF r
<1>5. mine \in [Threads -> Caller] /\ mine[t] = r /\ \A u \in Threads \ {t} : mine[u] = thread[u]
  BY <1>4 DEF IInv, ThreadsOK
<1> HIDE DEF mine
<1>6. \A u \in Threads : /\ thread'[u].pc = mine[u].pc /\ thread'[u].hash = mine[u].hash
                         /\ thread'[u].result = mine[u].result
  <2>1. CASE thread' = mine
    BY <2>1
  <2>2. CASE thread' = BlockChecked(mine, hash, FALSE)
    <3>1. \A u \in Threads : LET c == BlockChecked(mine, hash, FALSE)[u]
                             IN  c.pc = mine[u].pc /\ c.hash = mine[u].hash /\ c.result = mine[u].result
      BY Zenon, <1>5, BlockCheckedKeeps
    <3> QED
      BY Zenon, <2>2, <3>1
  <2> QED
    BY Zenon, <1>2, <2>1, <2>2
<1> QED
  BY <1>1, <1>3, <1>4, <1>5, <1>6 DEF Flagged, NeverMutated

LEMMA FlaggedStep == IInv /\ Flagged /\ [Next]_vars => Flagged'
<1> SUFFICES ASSUME IInv, Flagged, [Next]_vars PROVE Flagged'
  OBVIOUS
<1>0. ThreadsOK
  BY DEF IInv
<1>1. ASSUME NEW t \in Threads, NEW s \in Scripts, CreateNewBlock(t, s) PROVE Flagged'
  <2>1. PICK b : thread' = [thread EXCEPT ![t] = Begun("insert", b, FALSE)]
    BY Zenon, <1>1 DEF CreateNewBlock
  <2>2. Begun("insert", b, FALSE).pc # "check" /\ Begun("insert", b, FALSE).result # "mutated"
    BY DEF Begun
  <2> QED
    BY Zenon, <1>0, <1>1, <2>1, <2>2, OneThreadFlagged DEF CreateNewBlock, cacheVars, Flagged
<1>2. ASSUME NEW t \in Threads, Activated(t) PROVE Flagged'
  <2>1. thread[t] \in Caller /\ thread[t].result # "mutated"
    BY DEF IInv, ThreadsOK, Flagged, NeverMutated
  <2>2. LET r == [thread[t] EXCEPT !.pc = "return"] IN r.pc # "check" /\ r.result # "mutated"
    BY <2>1 DEF Caller
  <2> QED
    BY Zenon, <1>0, <1>2, <2>2, OneThreadFlagged DEF Activated, cacheVars, Flagged
<1>3. ASSUME NEW t \in Threads, ReturnResult(t) PROVE Flagged'
  <2>1. Free(Verdict(thread[t])).pc # "check" /\ Free(Verdict(thread[t])).result # "mutated"
    BY DEF Free, Verdict
  <2> QED
    BY Zenon, <1>0, <1>3, <2>1, OneThreadFlagged DEF ReturnResult, cacheVars, Flagged
<1>4. ASSUME NEW b, ConnectTip(b) PROVE Flagged'
  <2>1. \A t \in Threads : /\ thread'[t].pc = thread[t].pc /\ thread'[t].hash = thread[t].hash
                           /\ thread'[t].result = thread[t].result
    <3>1. thread' = BlockChecked(thread, b, TRUE) /\ thread \in [Threads -> Caller]
      BY <1>0, <1>4 DEF ConnectTip, ThreadsOK
    <3> QED
      BY Zenon, <3>1, BlockCheckedKeeps
  <2> QED
    BY Zenon, <1>4, <2>1 DEF ConnectTip, cacheVars, Flagged, NeverMutated
<1>6. ASSUME NEW b, ConnectTipFails(b) PROVE Flagged'
  <2>1. \A t \in Threads : /\ thread'[t].pc = thread[t].pc /\ thread'[t].hash = thread[t].hash
                           /\ thread'[t].result = thread[t].result
    <3>1. thread' = BlockChecked(thread, b, FALSE) /\ thread \in [Threads -> Caller]
      BY <1>0, <1>6 DEF ConnectTipFails, ThreadsOK
    <3> QED
      BY Zenon, <3>1, BlockCheckedKeeps
  <2> QED
    BY Zenon, <1>6, <2>1 DEF ConnectTipFails, cacheVars, Flagged, NeverMutated
<1>5. ASSUME UNCHANGED <<blocks, thread>> PROVE Flagged'
  BY <1>5 DEF Flagged, NeverMutated
<1> QED
  BY <1>1, <1>2, <1>3, <1>4, <1>5, <1>6, CacheTemplateFlagged, FindTemplateFlagged, CheckDuplicateFlagged,
     ProcessNewBlockFlagged
     DEF Next, Step, PeerBlock, InvalidateBlock, vars, cacheVars

\* submitauxblock never answers that the payload mutated the block: what
\* createauxblock hands out has the version bit that SetAuxpow sets, whatever
\* calls run at the same time.
THEOREM NeverMutatedTheorem == Spec => []NeverMutated
<1>1. Init => Flagged
  BY DEF Init, Flagged, NeverMutated, Free
<1>2. Flagged => NeverMutated
  BY DEF Flagged
<1> QED
  BY <1>1, <1>2, FlaggedStep, InvariantTheorem, PTL DEF Spec

\* Only ReturnResult ends a call that has its verdict.
LEMMA ReturnLemma ==
    ASSUME IInv, Next, NEW t \in Threads, thread[t].pc = "return", thread'[t].pc = "free"
    PROVE  ReturnResult(t)
<1>1. thread \in [Threads -> Caller] /\ thread[t] \in Caller
  BY DEF IInv, ThreadsOK
<1>2. ASSUME NEW u \in Threads, NEW s \in Scripts, CreateNewBlock(u, s) PROVE FALSE
  BY Zenon, <1>1, <1>2 DEF CreateNewBlock
<1>3. ASSUME NEW u \in Threads, Step(u) PROVE u = t /\ ReturnResult(t)
  <2>1. CASE CacheTemplate(u)
    BY <1>1, <2>1 DEF CacheTemplate
  <2>2. CASE CheckDuplicate(u)
    BY <1>1, <2>2 DEF CheckDuplicate
  <2>3. CASE Activated(u)
    BY <1>1, <2>3 DEF Activated
  <2>4. CASE ReturnResult(u)
    BY Zenon, <1>1, <2>4 DEF ReturnResult
  <2>5. CASE ProcessNewBlock(u)
    <3>1. PICK r : r \in Caller /\ r.pc \in {"activate", "return"} /\
            LET mine == [thread EXCEPT ![u] = r]
            IN  thread' = mine \/ thread' = BlockChecked(mine, thread[u].hash, FALSE)
      <4> DEFINE accepted == thread[u].good /\ thread[u].hash \notin refused
                 new == accepted /\ thread[u].hash \notin stored \cup connected
                 pc == IF accepted THEN "activate" ELSE "return"
                 r == [thread[u] EXCEPT !.pc = pc, !.accepted = accepted, !.newBlock = new]
      <4>1. thread' = [thread EXCEPT ![u] = r] \/ thread' = BlockChecked([thread EXCEPT ![u] = r], thread[u].hash, FALSE)
        BY Zenon, <2>5 DEF ProcessNewBlock
      <4>2. accepted \in BOOLEAN /\ new \in BOOLEAN /\ pc \in {"activate", "return"}
        OBVIOUS
      <4> HIDE DEF accepted, new, pc
      <4>3. r \in Caller /\ r.pc = pc
        BY Zenon, <1>1, <4>2 DEF Caller
      <4> HIDE DEF r
      <4> QED
        BY Zenon, <4>1, <4>2, <4>3
    <3> DEFINE mine == [thread EXCEPT ![u] = r]
    <3>2. mine \in [Threads -> Caller] /\ mine[t].pc # "free"
      BY <1>1, <3>1
    <3> HIDE DEF mine
    <3>3. BlockChecked(mine, thread[u].hash, FALSE)[t].pc = mine[t].pc
      <4> DEFINE h == thread[u].hash
                 new == BlockChecked(mine, h, FALSE)
      <4> HIDE DEF h
      <4>1. /\ new \in [Threads -> Caller]
            /\ \A v \in Threads : new[v].pc = mine[v].pc /\ new[v].hash = mine[v].hash
            /\ \A v \in Threads : new[v].valid => mine[v].valid
        BY Zenon, <3>2, BlockRejectedLemma
      <4> QED
        BY Zenon, <4>1 DEF h
    <3> QED
      BY Zenon, <3>1, <3>2, <3>3 DEF mine
  <2> QED
    BY <1>3, <2>1, <2>2, <2>3, <2>4, <2>5 DEF Step
<1>4. ASSUME NEW u \in Threads, NEW i \in DOMAIN returned, NEW good \in BOOLEAN,
             FindTemplate(u, returned[i], good)
      PROVE  FALSE
  BY Zenon, <1>1, <1>4 DEF FindTemplate
<1>5. ASSUME NEW b, ConnectTip(b) PROVE FALSE
  <2>1. thread' = BlockChecked(thread, b, TRUE)
    BY <1>5 DEF ConnectTip
  <2>2. BlockChecked(thread, b, TRUE)[t].pc = thread[t].pc
    <3>1. /\ BlockChecked(thread, b, TRUE) \in [Threads -> Caller]
          /\ \A u \in Threads : /\ BlockChecked(thread, b, TRUE)[u].pc = thread[u].pc
                                /\ BlockChecked(thread, b, TRUE)[u].hash = thread[u].hash
      BY Zenon, <1>1, BlockAcceptedLemma
    <3> QED
      BY Zenon, <3>1
  <2> QED
    BY Zenon, <2>1, <2>2
<1>6. ASSUME NEW b, InvalidateBlock(b) PROVE FALSE
  BY <1>6 DEF InvalidateBlock
<1>7. CASE PeerBlock
  BY <1>7 DEF PeerBlock
<1>8. ASSUME NEW b, ConnectTipFails(b) PROVE FALSE
  <2>1. thread' = BlockChecked(thread, b, FALSE)
    BY <1>8 DEF ConnectTipFails
  <2>2. /\ BlockChecked(thread, b, FALSE) \in [Threads -> Caller]
        /\ \A u \in Threads : /\ BlockChecked(thread, b, FALSE)[u].pc = thread[u].pc
                              /\ BlockChecked(thread, b, FALSE)[u].hash = thread[u].hash
    BY Zenon, <1>1, BlockRejectedLemma
  <2> QED
    BY Zenon, <2>1, <2>2
<1> QED
  BY Zenon, <1>2, <1>3, <1>4, <1>5, <1>6, <1>7, <1>8 DEF Next

\* submitauxblock answers true only for a block that was connected, whatever
\* calls with the same hash run beside it.
THEOREM TrueMeansConnectedTheorem == Spec => TrueMeansConnected
<1>1. IInv /\ [Next]_vars => [TrueIsConnected]_vars
  <2> SUFFICES ASSUME IInv, Next, NEW t \in Threads, thread[t].pc = "return",
                      thread'[t].pc = "free", thread'[t].result = "true"
               PROVE  thread[t].hash \in connected
    BY DEF TrueIsConnected, AnswersTrue
  <2>1. thread'[t] = Free(Verdict(thread[t])) /\ Caught
    BY ReturnLemma DEF ReturnResult, IInv, ThreadsOK
  <2>2. Verdict(thread[t]) = "true"
    <3>1. Free(Verdict(thread[t])).result = Verdict(thread[t])
      BY DEF Free
    <3> QED
      BY <2>1, <3>1
  <2>3. thread[t].valid
    BY <2>2 DEF Verdict
  <2> QED
    BY <2>1, <2>3 DEF Caught
<1> QED
  BY <1>1, InvariantTheorem, PTL DEF Spec, TrueMeansConnected
====
