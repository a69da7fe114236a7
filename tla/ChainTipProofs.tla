--------------------------- MODULE ChainTipProofs ---------------------------
(***************************************************************************)
(* Proofs about the tip of ChainState and what may replace it, for every   *)
(* block tree and every choice of bad blocks, by two more invariants:      *)
(*   NomInv    what could replace the tip is a candidate, also inside      *)
(*             ActivateBestChain;                                          *)
(*   Settled   what ActivateBestChain leaves behind.                       *)
(***************************************************************************)
EXTENDS ChainStateProofs

\* Most leaves are first-order: Zenon takes them, and the others cite SMT.
USE ZenonT(20)

-----------------------------------------------------------------------------
(* Every block that deserves it is a candidate, and the tip never gets     *)
(* worse.                                                                  *)

Active == abc.pc \in {"find", "step"}

\* A linked block with no failed ancestor that is no worse than the tip is a
\* candidate.  Inside ActivateBestChain, where the tip may be far below the one
\* it began with, the block must be no worse than that one either.
Nominated ==
    abc.pc \in {"idle", "begin", "find", "step"} =>
        \A b \in linked :
            Clean(b) /\ ~Worse(seq, b, tip) /\ (Active => ~Worse(seq, b, abc.start))
                => b \in candidates

\* ConnectBlock accepted every block of the active chain.
ChainConnectable == chain \cap BadConnect = {}

\* The tip ActivateBestChain began with can be reached again, and nothing is
\* linked meanwhile.
StartUsable ==
    Active => /\ abc.start # None /\ queue = {}
              /\ Ancestors[abc.start] \cap (failed \cup BadConnect) = {}

\* It begins a step no better than it began, and before the fork is reached the
\* tip is no better either.
StartAhead ==
    /\ abc.pc = "find" => ~Worse(seq, abc.start, tip)
    /\ abc.pc = "step" => ~Worse(seq, abc.start, tip) \/ tip \in Ancestors[abc.mostWork]

\* pindexMostWork is no worse than the tip it began with.
TargetAhead ==
    abc.mostWork # None =>
        /\ Active => ~Worse(seq, abc.mostWork, abc.start)
        /\ abc.pc = "begin" => Work[tip] < Work[abc.mostWork]

NomInv == Nominated /\ ChainConnectable /\ StartUsable /\ StartAhead /\ TargetAhead

LEMMA NomInit == Init => NomInv
  BY SMT, InputAssumption DEF Init, Idle, NomInv, Nominated, ChainConnectable, StartUsable, StartAhead,
     TargetAhead, Active

\* A step outside ActivateBestChain that nominates nothing and links nothing.
LEMMA NomFrame ==
    ASSUME NomInv, ~Active, UNCHANGED <<chain, tip, seq, candidates, abc>>,
           linked' \subseteq linked, failed \subseteq failed'
    PROVE  NomInv'
<1>1. ~Active'
  BY DEF Active
<1>2. Nominated'
  BY SMT, <1>1, CleanShrinks DEF NomInv, Nominated
<1> QED
  BY <1>1, <1>2 DEF NomInv, ChainConnectable, StartUsable, StartAhead, TargetAhead, Active

LEMMA NomAccept ==
    ASSUME IInv, LinkInv, NomInv, NEW b \in Blocks,
           AcceptBlockHeader(b) \/ \E r \in BOOLEAN : AcceptBlock(b, r)
    PROVE  NomInv'
<1>1. /\ UNCHANGED <<chain, tip, seq, candidates, abc>>
      /\ linked' \subseteq linked /\ failed \subseteq failed'
  BY DEF AcceptBlockHeader, AcceptBlock, chainVars, failed
<1>2. ~Active
  BY SMT DEF AcceptBlockHeader, AcceptBlock, CsMainFree, Active
<1> QED
  BY SMT, <1>1, <1>2, NomFrame

LEMMA NomReceived ==
    ASSUME IInv, LinkInv, NomInv, NEW b \in queue, ReceivedBlockTransactions(b)
    PROVE  NomInv'
<1>1. /\ UNCHANGED <<chain, tip, abc, failedValid, failedChild>>
      /\ linked' = linked \cup {b} /\ seq' = [seq EXCEPT ![b] = ids.next]
      /\ candidates' = TryAddBlockIndexCandidate(b, seq')
  BY DEF ReceivedBlockTransactions, chainVars
<1>2. b \in Blocks /\ b \notin linked /\ ids.next \in Int
  BY SMT DEF IInv, TypeOK, SetsOK, NumbersOK, processed, LinkInv, QueueReady
<1>3. tip \in linked /\ linked \subseteq Blocks /\ seq \in [Blocks -> Int]
  BY SMT, LinkFacts
<1>4. ~Active /\ ~Active' /\ failed' = failed
  BY <1>1 DEF NomInv, StartUsable, Active, failed
<1>5. Nominated'
  <2> SUFFICES ASSUME abc.pc \in {"idle", "begin", "find", "step"},
                      NEW c \in linked', Clean(c), ~Worse(seq', c, tip)
               PROVE  c \in candidates'
    BY <1>1, <1>4 DEF Nominated, Clean
  <2>1. CASE c = b
    BY <1>1, <2>1 DEF TryAddBlockIndexCandidate
  <2>2. CASE c # b
    <3>1. c \in linked /\ c \in Blocks /\ tip # b
      BY <1>1, <1>2, <1>3, <2>2
    <3>2. ~Worse(seq, c, tip)
      BY <1>1, <1>2, <1>3, <2>2, <3>1, RenumberLemma
    <3>3. c \in candidates
      BY SMT, <1>4, <3>1, <3>2 DEF NomInv, Nominated
    <3> QED
      BY <1>1, <3>3 DEF TryAddBlockIndexCandidate
  <2> QED
    BY <2>1, <2>2
<1> QED
  BY SMT, <1>1, <1>4, <1>5 DEF NomInv, ChainConnectable, StartUsable, StartAhead, TargetAhead, Active

LEMMA NomActivateBestChain ==
    ASSUME IInv, LinkInv, NomInv, ActivateBestChain
    PROVE  NomInv'
<1>1. /\ UNCHANGED <<chain, tip, seq, candidates, linked, failedValid, failedChild, queue>>
      /\ queue = {} /\ abc.pc \in {"idle", "begin"}
  BY SMT DEF ActivateBestChain, status, chainVars, sets
<1>2. /\ abc'.pc = "find" /\ abc'.start = tip
      /\ abc'.mostWork = None \/ (abc.pc = "begin" /\ abc'.mostWork = abc.mostWork)
  <2>1. CASE abc' = [Idle EXCEPT !.pc = "find", !.start = tip]
    BY SMT, <2>1 DEF Idle
  <2>2. CASE abc.pc = "begin" /\ abc' = [abc EXCEPT !.pc = "find", !.start = tip, !.connected = FALSE]
    <3>1. abc \in Holder(index)
      BY DEF IInv, TypeOK
    <3> QED
      BY SMT, <2>2, <3>1 DEF Holder
  <2> QED
    BY SMT, <2>1, <2>2 DEF ActivateBestChain
<1>3. tip \in Blocks /\ tip # None /\ seq \in [Blocks -> Int] /\ failed' = failed
  BY SMT, <1>1, LinkFacts, TreeFacts DEF failed
<1>4. ~Worse(seq, tip, tip)
  BY SMT, <1>3, OrderLemma
<1>5. Nominated'
  BY <1>1, <1>2, <1>3 DEF NomInv, Nominated, Clean, Active
<1>6. StartUsable' /\ ChainConnectable'
  BY <1>1, <1>2, <1>3 DEF NomInv, ChainConnectable, StartUsable, IInv, ChainIsPath, ActiveChainClean
<1>7. StartAhead'
  BY <1>1, <1>2, <1>4 DEF StartAhead
<1>8. TargetAhead'
  <2> SUFFICES ASSUME abc'.mostWork # None PROVE ~Worse(seq, abc'.mostWork, tip)
    BY <1>1, <1>2 DEF TargetAhead
  <2>1. abc'.mostWork = abc.mostWork /\ Work[tip] < Work[abc.mostWork] /\ abc.mostWork \in Blocks
    BY <1>2, LinkFacts DEF NomInv, TargetAhead, LinkInv, OnlyLinked
  <2> QED
    BY <1>3, <2>1, OrderLemma
<1> QED
  BY SMT, <1>5, <1>6, <1>7, <1>8 DEF NomInv

\* Inside ActivateBestChain the tip it began with stays a candidate.
LEMMA StartCandidate ==
    ASSUME IInv, LinkInv, NomInv, abc.pc = "find"
    PROVE  abc.start \in candidates /\ abc.start \in Blocks
<1>1. abc.start \in linked /\ abc.start \in Blocks /\ seq \in [Blocks -> Int]
  BY LinkFacts DEF NomInv, StartUsable, Active, LinkInv, OnlyLinked
<1>2. Clean(abc.start) /\ ~Worse(seq, abc.start, tip)
  BY DEF NomInv, StartUsable, StartAhead, Active, Clean
<1>3. ~Worse(seq, abc.start, abc.start)
  BY SMT, <1>1, OrderLemma
<1> QED
  BY <1>1, <1>2, <1>3 DEF NomInv, Nominated

LEMMA NomDiscard ==
    ASSUME IInv, LinkInv, NomInv, FindMostWorkChainDiscard
    PROVE  NomInv'
<1>1. PICK best \in Best : \E x \in Unusable(best) :
         /\ failedChild' = IF x \in failed THEN failedChild \cup (Ancestors[best] \ Ancestors[x])
                           ELSE failedChild
         /\ candidates' = candidates \ ((Ancestors[best] \ Ancestors[x]) \cup {x})
  BY DEF FindMostWorkChainDiscard
<1>2. PICK x \in Unusable(best) :
         /\ failedChild' = IF x \in failed THEN failedChild \cup (Ancestors[best] \ Ancestors[x])
                           ELSE failedChild
         /\ candidates' = candidates \ ((Ancestors[best] \ Ancestors[x]) \cup {x})
  BY <1>1
<1> DEFINE above == Ancestors[best] \ Ancestors[x]
<1>3. UNCHANGED <<chain, tip, seq, linked, queue, abc, failedValid>> /\ abc.pc = "find"
  BY DEF FindMostWorkChainDiscard, chainVars
<1>4. x \in failed /\ failed' = failed \cup above
  BY SMT, <1>2, <1>3, DiscardFailed DEF failed
<1>5. best \in Blocks /\ x \in Ancestors[best]
  BY DEF IInv, TypeOK, SetsOK, Best, Unusable, index
<1>6. \A y \in above : x \in Ancestors[y]
  BY SMT, <1>5, AboveLemma
<1>7. Nominated'
  <2> SUFFICES ASSUME NEW c \in linked, Clean(c)', ~Worse(seq, c, tip),
                      Active => ~Worse(seq, c, abc.start)
               PROVE  c \in candidates'
    BY <1>3 DEF Nominated, Active
  <2>1. c \in candidates
    BY <1>3, <1>4, CleanShrinks DEF NomInv, Nominated
  <2>2. c \in Ancestors[c]
    BY LinkFacts, SelfLemma
  <2>3. c \notin above \cup {x}
    BY <1>4, <2>2 DEF Clean
  <2> QED
    BY <1>2, <2>1, <2>3
<1>8. StartUsable'
  <2>1. abc.start \in Blocks /\ Ancestors[abc.start] \cap (failed \cup BadConnect) = {}
    BY <1>3, StartCandidate DEF NomInv, StartUsable, Active
  <2>2. Ancestors[abc.start] \cap above = {}
    BY <1>4, <1>6, <2>1, TransitiveLemma
  <2> QED
    BY <1>3, <1>4, <2>1, <2>2 DEF NomInv, StartUsable, Active
<1> QED
  BY <1>3, <1>7, <1>8 DEF NomInv, ChainConnectable, StartAhead, TargetAhead, Active

LEMMA NomFindMostWorkChain ==
    ASSUME IInv, LinkInv, NomInv, FindMostWorkChain
    PROVE  NomInv'
<1>1. PICK w \in MostWork \ {None, tip} :
         abc' = [abc EXCEPT !.pc = "step", !.mostWork = w, !.old = tip]
  BY DEF FindMostWorkChain
<1>2. /\ UNCHANGED <<chain, tip, seq, candidates, linked, failedValid, failedChild, queue>>
      /\ abc.pc = "find"
  BY DEF FindMostWorkChain, status, chainVars, sets
<1>3. abc'.pc = "step" /\ abc'.mostWork = w /\ abc'.start = abc.start
  <2>1. abc \in Holder(index)
    BY DEF IInv, TypeOK
  <2> QED
    BY SMT, <1>1, <2>1 DEF Holder
<1>4. failed' = failed /\ Active /\ Active'
  BY SMT, <1>2, <1>3 DEF failed, Active
<1>5. ~Worse(seq, w, abc.start)
  <2>1. CASE abc.mostWork # None
    BY <1>4, <2>1 DEF MostWork, NomInv, TargetAhead
  <2>2. CASE abc.mostWork = None
    BY <1>2, <2>2, StartCandidate DEF MostWork, Best
  <2> QED
    BY <2>1, <2>2
<1>6. Nominated' /\ ChainConnectable' /\ StartUsable'
  BY <1>2, <1>3, <1>4 DEF NomInv, Nominated, ChainConnectable, StartUsable, Clean
<1>7. StartAhead' /\ TargetAhead'
  BY <1>2, <1>3, <1>5 DEF NomInv, StartAhead, TargetAhead
<1> QED
  BY <1>6, <1>7 DEF NomInv

\* There is nothing left to do only when the tip is no worse than the one
\* ActivateBestChain began with.
LEMMA NothingToDoNotWorse ==
    ASSUME IInv, LinkInv, NomInv, NothingToDo
    PROVE  ~Worse(seq, tip, abc.start)
<1> SUFFICES ASSUME Worse(seq, tip, abc.start) PROVE FALSE
  OBVIOUS
<1>1. PICK w \in MostWork : w \in {None, tip}
  BY SMT DEF NothingToDo
<1>2. abc.pc = "find" /\ abc.start \in candidates /\ tip # None
  BY SMT, StartCandidate, LinkFacts, TreeFacts DEF NothingToDo
<1>3. CASE abc.mostWork # None
  <2>1. abc.mostWork = tip
    BY <1>1, <1>3 DEF MostWork
  <2>2. ~Worse(seq, abc.mostWork, abc.start)
    BY <1>2, <1>3 DEF NomInv, TargetAhead, Active
  <2> QED
    BY <2>1, <2>2
<1>4. CASE abc.mostWork = None
  <2>1. None \notin candidates
    BY TreeFacts DEF IInv, TypeOK, SetsOK, index
  <2>2. tip \in Best
    BY <1>1, <1>2, <1>4, <2>1 DEF MostWork, Best
  <2> QED
    BY <1>2, <2>2 DEF Best
<1> QED
  BY <1>3, <1>4

LEMMA NomNothingToDo ==
    ASSUME IInv, LinkInv, NomInv, NothingToDo
    PROVE  NomInv'
<1>1. /\ UNCHANGED <<chain, tip, seq, candidates, linked, failedValid, failedChild>>
      /\ abc.pc = "find"
  BY DEF NothingToDo, status, chainVars, sets
<1>2. abc'.mostWork = None /\ abc'.pc \in {"idle", "begin"}
  BY SMT DEF NothingToDo, Idle
<1>3. failed' = failed /\ ~Active' /\ Active
  BY SMT, <1>1, <1>2 DEF failed, Active
<1>4. /\ tip \in Blocks /\ abc.start \in Blocks /\ linked \subseteq Blocks
      /\ seq \in [Blocks -> Int]
  BY <1>1, LinkFacts, StartCandidate
<1>5. Nominated'
  <2> SUFFICES ASSUME NEW c \in linked, Clean(c), ~Worse(seq, c, tip) PROVE c \in candidates
    BY <1>1, <1>3 DEF Nominated, Clean
  <2>1. ~Worse(seq, c, abc.start)
    BY <1>4, NothingToDoNotWorse, OrderLemma
  <2> QED
    BY <1>1, <2>1 DEF NomInv, Nominated
<1> QED
  BY <1>1, <1>2, <1>3, <1>5 DEF NomInv, ChainConnectable, StartUsable, StartAhead, TargetAhead

LEMMA NomDisconnectTip ==
    ASSUME IInv, LinkInv, NomInv, DisconnectTip
    PROVE  NomInv'
<1>1. /\ UNCHANGED <<seq, candidates, linked, failedValid, failedChild, queue>>
      /\ abc.pc = "step" /\ tip \notin Ancestors[abc.mostWork]
  BY DEF DisconnectTip, status, sets
<1>2. chain' = chain \ {tip} /\ tip' = Parent[tip] /\ UNCHANGED abc
  BY SMT, LinkFacts DEF DisconnectTip
<1>3. failed' = failed /\ Active /\ Active'
  BY <1>1, <1>2 DEF failed, Active
<1>4. tip # Genesis
  <2>1. abc.mostWork \in Blocks
    BY <1>1 DEF IInv, TypeOK, Locals, Holder, index
  <2> QED
    BY <1>1, <2>1, TreeFacts
<1>5. /\ abc.start \in linked /\ abc.start \in Blocks /\ tip \in Blocks
      /\ linked \subseteq Blocks /\ seq \in [Blocks -> Int]
  BY <1>3, LinkFacts DEF NomInv, StartUsable, LinkInv, OnlyLinked
<1>6. ~Worse(seq, abc.start, tip)
  BY <1>1 DEF NomInv, StartAhead
<1>7. Nominated'
  <2> SUFFICES ASSUME NEW c \in linked, Clean(c), ~Worse(seq, c, abc.start) PROVE c \in candidates
    BY <1>1, <1>2, <1>3 DEF Nominated, Clean
  <2>1. ~Worse(seq, c, tip)
    BY <1>5, <1>6, OrderLemma
  <2> QED
    BY <1>1, <2>1 DEF NomInv, Nominated
<1>8. StartAhead'
  <2>1. ~Worse(seq, abc.start, Parent[tip])
    BY <1>4, <1>5, <1>6, ParentWorse
  <2> QED
    BY <1>1, <1>2, <2>1 DEF StartAhead
<1> QED
  BY <1>1, <1>2, <1>3, <1>7, <1>8
  DEF NomInv, ChainConnectable, StartUsable, TargetAhead

LEMMA NomConnectTip ==
    ASSUME IInv, LinkInv, NomInv, ConnectTip
    PROVE  NomInv'
<1> DEFINE w == abc.mostWork
           st == abc.start
<1>1. PICK b \in NextBlock :
         /\ b \notin BadConnect
         /\ chain' = chain \cup {b} /\ tip' = b
         /\ candidates' = PruneBlockIndexCandidates(candidates, seq, b)
         /\ abc' = IF b = abc.mostWork \/ Work[b] > Work[abc.old]
                   THEN AfterStep(b, abc.mostWork) ELSE abc
  BY DEF ConnectTip
<1>2. /\ UNCHANGED <<linked, seq, failedValid, failedChild, queue>>
      /\ abc.pc = "step"
  BY DEF ConnectTip
<1>3. /\ b \in Blocks /\ w \in Blocks /\ b \in Ancestors[w] /\ Work[tip] < Work[b]
      /\ tip \in Blocks /\ linked \subseteq Blocks /\ seq \in [Blocks -> Int]
  BY SMT, <1>2, NextBlockLemma, LinkFacts
<1>4. failed' = failed /\ Active
  BY <1>2 DEF failed, Active
<1>5. st \in Blocks
  BY <1>4, LinkFacts DEF NomInv, StartUsable, LinkInv, OnlyLinked
<1>6. \/ abc' = abc
      \/ Worse(seq, b, st) /\ abc'.pc = "find" /\ abc'.mostWork = w /\ abc'.start = st
      \/ ~Worse(seq, b, st) /\ abc'.pc = "begin" /\ abc'.mostWork = w /\ b # w
      \/ ~Worse(seq, b, st) /\ abc'.pc = "idle" /\ abc'.mostWork = None
  <2>1. abc \in Holder(index)
    BY DEF IInv, TypeOK
  <2> QED
    BY SMT, <1>1, <2>1, AfterStepCases
<1> HIDE DEF w, st
<1>7. /\ Active' => abc'.start = st /\ abc'.mostWork = w
      /\ ~Active' => ~Worse(seq, b, st)
  BY SMT, <1>4, <1>6 DEF Active, w, st
<1>8. Nominated'
  <2> SUFFICES ASSUME NEW c \in linked, Clean(c), ~Worse(seq, c, b),
                      Active' => ~Worse(seq, c, abc'.start)
               PROVE  c \in candidates'
    BY <1>1, <1>2, <1>4 DEF Nominated, Clean
  <2>1. ~Worse(seq, c, st)
    BY <1>3, <1>5, <1>7, OrderLemma
  <2>2. ~Worse(seq, b, tip)
    BY <1>3, OrderLemma
  <2>3. ~Worse(seq, c, tip)
    BY <1>3, <2>2, OrderLemma
  <2>4. c \in candidates
    BY <1>2, <2>1, <2>3 DEF NomInv, Nominated, st
  <2> QED
    BY <1>1, <2>4 DEF PruneBlockIndexCandidates
<1>9. StartAhead'
  <2>1. abc'.pc = "find" => ~Worse(seq, st, b) /\ abc'.start = st
    BY <1>2, <1>3, <1>5, <1>6, OrderLemma
  <2>2. abc'.pc = "step" => b \in Ancestors[abc'.mostWork]
    BY <1>3, <1>7 DEF Active
  <2> QED
    BY <1>1, <1>2, <2>1, <2>2 DEF StartAhead
<1>10. TargetAhead'
  <2>1. Active' /\ abc'.mostWork # None => ~Worse(seq, abc'.mostWork, abc'.start)
    BY <1>4, <1>7 DEF NomInv, TargetAhead, w, st
  <2>2. abc'.pc = "begin" => Work[b] < Work[abc'.mostWork]
    BY <1>2, <1>3, <1>6, AncestorsLessWork
  <2> QED
    BY <1>1, <1>2, <2>1, <2>2 DEF TargetAhead
<1>11. ChainConnectable' /\ StartUsable'
  BY <1>1, <1>2, <1>4, <1>7 DEF NomInv, ChainConnectable, StartUsable, st
<1> QED
  BY <1>8, <1>9, <1>10, <1>11 DEF NomInv

LEMMA NomConnectTipInvalid ==
    ASSUME IInv, LinkInv, NomInv, ConnectTipInvalid
    PROVE  NomInv'
<1> DEFINE st == abc.start
<1>1. PICK b \in BadConnect : failedValid' = failedValid \cup {b} /\ candidates' = candidates \ {b}
  BY DEF ConnectTipInvalid
<1>2. /\ UNCHANGED <<linked, seq, chain, tip, failedChild, queue>>
      /\ abc.pc = "step" /\ abc' = AfterStep(tip, None)
  BY DEF ConnectTipInvalid, chainVars
<1>3. tip \in Blocks /\ tip # None /\ linked \subseteq Blocks /\ seq \in [Blocks -> Int]
  BY LinkFacts, TreeFacts
<1>4. failed' = failed \cup {b} /\ Active
  BY <1>1, <1>2 DEF failed, Active
<1>5. st \in Blocks
  BY <1>4, LinkFacts DEF NomInv, StartUsable, LinkInv, OnlyLinked
<1>6. /\ abc'.mostWork = None
      /\ \/ Worse(seq, tip, st) /\ abc'.pc = "find" /\ abc'.start = st
         \/ ~Worse(seq, tip, st) /\ abc'.pc = "begin"
  <2>1. abc \in Holder(index)
    BY DEF IInv, TypeOK
  <2> QED
    BY SMT, <1>2, <1>3, <2>1, AfterStepCases
<1> HIDE DEF st
<1>7. Nominated'
  <2> SUFFICES ASSUME NEW c \in linked, Clean(c)', ~Worse(seq, c, tip),
                      Active' => ~Worse(seq, c, abc'.start)
               PROVE  c \in candidates'
    BY <1>2 DEF Nominated
  <2>1. ~Worse(seq, c, st)
    BY <1>3, <1>5, <1>6, OrderLemma DEF Active
  <2>2. Clean(c) /\ c \in Ancestors[c]
    BY <1>3, <1>4, CleanShrinks, SelfLemma
  <2>3. c \in candidates /\ c # b
    BY <1>2, <1>4, <2>1, <2>2 DEF NomInv, Nominated, Clean, st
  <2> QED
    BY SMT, <1>1, <2>3
<1>8. StartAhead'
  BY <1>2, <1>3, <1>5, <1>6, OrderLemma DEF StartAhead
<1>9. StartUsable'
  BY <1>2, <1>4, <1>6 DEF NomInv, StartUsable, Active, st
<1> QED
  BY <1>2, <1>6, <1>7, <1>8, <1>9 DEF NomInv, ChainConnectable, TargetAhead

\* A step to a state in which nothing is nominated or in progress.
LEMMA NomAway ==
    ASSUME NomInv, abc'.pc \in {"walk", "aborted"}, chain' \subseteq chain
    PROVE  NomInv'
  BY DEF NomInv, Nominated, ChainConnectable, StartUsable, StartAhead, TargetAhead, Active

LEMMA NomInvalidate ==
    ASSUME IInv, LinkInv, NomInv, \/ ConnectTipError \/ InvalidateWalk
                                  \/ \E b \in Blocks : InvalidateBlock(b)
    PROVE  NomInv'
<1>1. abc'.pc \in {"walk", "aborted"}
  <2>1. ASSUME NEW b \in Blocks, InvalidateBlock(b) PROVE abc'.pc = "walk"
    BY <2>1 DEF InvalidateBlock, Idle
  <2>2. CASE ConnectTipError
    BY <2>2 DEF ConnectTipError, Idle
  <2>3. CASE InvalidateWalk
    <3>1. abc \in Holder(index)
      BY DEF IInv, TypeOK
    <3> QED
      BY <2>3, <3>1, LinkFacts DEF InvalidateWalk, Holder
  <2> QED
    BY <2>1, <2>2, <2>3
<1>2. chain' \subseteq chain
  BY DEF InvalidateBlock, ConnectTipError, InvalidateWalk, chainVars
<1> QED
  BY SMT, <1>1, <1>2, NomAway

\* The sweep at the end of InvalidateBlock finds every block that deserves it.
LEMMA NomInvalidateMark ==
    ASSUME IInv, LinkInv, NomInv, InvalidateMark
    PROVE  NomInv'
<1>1. /\ UNCHANGED <<linked, seq, chain, tip, failedChild>>
      /\ failedValid' = failedValid \cup {abc.toMark}
      /\ candidates' = (candidates \ {abc.toMark}) \cup Missed /\ abc' = Idle
  BY DEF InvalidateMark, chainVars
<1>2. abc'.pc = "idle" /\ abc'.mostWork = None /\ ~Active'
  BY SMT, <1>1 DEF Idle, Active
<1>3. failed' = failed \cup {abc.toMark}
  BY <1>1 DEF failed
<1>4. Nominated'
  <2> SUFFICES ASSUME NEW c \in linked, Clean(c)', ~Worse(seq, c, tip) PROVE c \in candidates'
    BY <1>1, <1>2 DEF Nominated
  <2>1. c \in processed /\ c \in Ancestors[c]
    BY LinkFacts, SelfLemma
  <2>2. c \notin failed /\ c # abc.toMark
    BY <1>3, <2>1 DEF Clean
  <2>3. IsValid(c, TRANSACTIONS)
    BY <2>1, <2>2 DEF IsValid, processed
  <2> QED
    BY <1>1, <2>2, <2>3 DEF Missed
<1> QED
  BY <1>1, <1>2, <1>4 DEF NomInv, ChainConnectable, StartUsable, StartAhead, TargetAhead

LEMMA NomLoad ==
    ASSUME IInv, LinkInv, NomInv, LoadBlockIndex
    PROVE  NomInv'
<1>1. /\ UNCHANGED <<valid, chain, tip>> /\ abc' = Idle
      /\ linked' = {b \in Blocks : Ancestors[b] \subseteq processed}
      /\ candidates' = {b \in processed \cap linked' : /\ b \notin failed'
                                                       /\ ~Worse(seq', b, tip)}
  BY DEF LoadBlockIndex, chainVars, PruneBlockIndexCandidates, failed
<1>2. abc'.pc = "idle" /\ abc'.mostWork = None /\ ~Active'
  BY SMT, <1>1 DEF Idle, Active
<1>3. Nominated'
  <2> SUFFICES ASSUME NEW c \in linked', Clean(c)', ~Worse(seq', c, tip) PROVE c \in candidates'
    BY <1>1, <1>2 DEF Nominated
  <2>1. c \in Ancestors[c]
    BY <1>1, SelfLemma
  <2> QED
    BY <1>1, <2>1 DEF Clean
<1> QED
  BY <1>1, <1>2, <1>3 DEF NomInv, ChainConnectable, StartUsable, StartAhead, TargetAhead

LEMMA NomNext ==
    ASSUME Prunable = {}, Reconsidered = {}, Precious = {}, IInv, LinkInv, NomInv, [Next]_vars
    PROVE  NomInv'
<1>1. ASSUME NEW b \in Blocks, AcceptBlockHeader(b) \/ \E r \in BOOLEAN : AcceptBlock(b, r)
      PROVE  NomInv'
  BY <1>1, NomAccept
<1>2. ASSUME NEW b \in queue, ReceivedBlockTransactions(b) PROVE NomInv'
  BY <1>2, NomReceived
<1>3. CASE Activate
  BY <1>3, NomActivateBestChain, NomDiscard, NomFindMostWorkChain, NomNothingToDo,
     NomDisconnectTip, NomConnectTip, NomConnectTipInvalid DEF Activate
<1>4. CASE ConnectTipError \/ \E b \in Invalidated : InvalidateBlock(b)
  BY <1>4, NomInvalidate, InputAssumption
<1>5. CASE Invalidate
  BY <1>5, NomInvalidate, NomInvalidateMark DEF Invalidate
<1>6. CASE LoadBlockIndex
  BY SMT, <1>6, NomLoad
<1>7. CASE UNCHANGED vars
  BY <1>7 DEF vars, status, chainVars, sets, failed, NomInv, Nominated, ChainConnectable,
     StartUsable, StartAhead, TargetAhead, Active, Clean
<1> QED
  BY <1>1, <1>2, <1>3, <1>4, <1>5, <1>6, <1>7 DEF Next

\* Without pruning, reconsiderblock and preciousblock, setBlockIndexCandidates is
\* complete at every step, those inside ActivateBestChain included: NomInv.
THEOREM NominatedTheorem ==
    Prunable = {} /\ Reconsidered = {} /\ Precious = {} => (Spec => []NomInv)
<1> SUFFICES ASSUME Prunable = {}, Reconsidered = {}, Precious = {} PROVE Spec => []NomInv
  OBVIOUS
<1>1. IInv /\ LinkInv /\ NomInv /\ [Next]_vars => NomInv'
  BY SMT, NomNext
<1> QED
  BY <1>1, NomInit, InvariantTheorem, LinkTheorem, PTL DEF Spec

\* A failure flag on the path to a block has its cause on the path.
LEMMA CleanLemma ==
    ASSUME Caused, NEW b \in Blocks, ~Invalid(b)
    PROVE  Clean(b)
  BY TransitiveLemma DEF Clean, Caused, Invalid

\* Without pruning, reconsiderblock and preciousblock, setBlockIndexCandidates
\* holds every block that could replace the tip whenever cs_main is released,
\* through reorganisations, failing blocks, invalidateblock and restarts.
THEOREM CandidatesCompleteTheorem ==
    Prunable = {} /\ Reconsidered = {} /\ Precious = {} => (Spec => []CandidatesComplete)
<1> SUFFICES ASSUME Prunable = {}, Reconsidered = {}, Precious = {}
             PROVE  Spec => []CandidatesComplete
  BY SMT
<1>1. IInv /\ LinkInv /\ Kept /\ Caused /\ NomInv => CandidatesComplete
  <2> SUFFICES ASSUME IInv, LinkInv, Kept, Caused, NomInv, CsMainFree, abc.pc # "walk",
                      NEW b \in index, Deserving(b)
               PROVE  b \in candidates
    BY DEF CandidatesComplete
  <2>1. b \in Blocks /\ Ancestors[b] \subseteq processed /\ ~Worse(seq, b, tip) /\ ~Invalid(b)
    BY DEF Deserving, NeverProcessed, index
  <2>2. Clean(b)
    BY <2>1, CleanLemma
  <2>3. b \in linked
    BY <2>1, <2>2, KeptLinked DEF CsMainFree
  <2> QED
    BY <2>1, <2>2, <2>3 DEF CsMainFree, NomInv, Nominated, Active
<1> QED
  BY <1>1, InvariantTheorem, LinkTheorem, KeptTheorem, CausedTheorem, NominatedTheorem, PTL

\* ActivateBestChain releases cs_main after a step that leaves the tip no worse
\* than it found it, or when there is nothing to do.
LEMMA ReleaseStep ==
    ASSUME IInv, Next, NothingToDo => ~Worse(seq, tip, abc.start),
           abc.pc \in {"find", "step"}, abc'.pc \in {"idle", "begin"}
    PROVE  ~Worse(seq, tip', abc.start)
<1>0. abc \in Holder(index)
  BY DEF IInv, TypeOK
<1>1. CASE NothingToDo
  BY SMT, <1>1 DEF NothingToDo, chainVars
<1>2. CASE ConnectTip
  <2>1. PICK b : tip' = b /\ (abc' = AfterStep(b, abc.mostWork) \/ abc' = abc)
    BY <1>2 DEF ConnectTip
  <2>2. abc' = AfterStep(b, abc.mostWork)
    BY <2>1
  <2> QED
    BY <1>0, <2>1, <2>2, AfterStepCases
<1>3. CASE ConnectTipInvalid
  BY <1>0, <1>3, AfterStepCases DEF ConnectTipInvalid, chainVars
<1>4. ~(ActivateBestChain \/ FindMostWorkChainDiscard \/ FindMostWorkChain \/ DisconnectTip)
  BY <1>0 DEF ActivateBestChain, FindMostWorkChainDiscard, FindMostWorkChain, DisconnectTip,
     Idle, Holder
<1>5. ~(ConnectTipError \/ Invalidate \/ LoadBlockIndex)
  BY DEF ConnectTipError, Invalidate, InvalidateWalk, InvalidateMark, LoadBlockIndex, Idle
<1>6. ASSUME NEW b, InvalidateBlock(b) \/ AcceptBlockHeader(b) \/ ReceivedBlockTransactions(b)
                    \/ \E r \in BOOLEAN : AcceptBlock(b, r)
      PROVE  FALSE
  BY SMT, <1>6 DEF InvalidateBlock, AcceptBlockHeader, AcceptBlock, ReceivedBlockTransactions, CsMainFree
<1>7. ASSUME NEW b, ResetBlockFailureFlags(b) \/ PreciousBlock(b) \/ PruneOneBlockFile(b)
      PROVE  FALSE
  BY <1>7 DEF ResetBlockFailureFlags, PreciousBlock, PruneOneBlockFile
<1> QED
  BY <1>1, <1>2, <1>3, <1>4, <1>5, <1>6, <1>7 DEF Next, Activate

\* Without pruning, reconsiderblock and preciousblock, ActivateBestChain never
\* releases cs_main with a tip that is worse than the one it found, however many
\* of the chains it tries turn out to be invalid.
THEOREM TipNeverWorseTheorem ==
    Prunable = {} /\ Reconsidered = {} /\ Precious = {} => (Spec => TipNeverWorse)
<1> SUFFICES ASSUME Prunable = {}, Reconsidered = {}, Precious = {} PROVE Spec => TipNeverWorse
  OBVIOUS
<1>1. IInv /\ LinkInv /\ NomInv /\ [Next]_vars =>
         [abc.pc \in {"find", "step"} /\ abc'.pc \in {"idle", "begin"}
             => ~Worse(seq, tip', abc.start)]_vars
  BY SMT, ReleaseStep, NothingToDoNotWorse
<1> QED
  BY <1>1, NominatedTheorem, LinkTheorem, InvariantTheorem, PTL DEF Spec, TipNeverWorse

-----------------------------------------------------------------------------
(* At rest the tip is the best there is.                                   *)

\* Unless a call of ActivateBestChain is still to come, no candidate is better
\* than the tip, or than pindexMostWork while the way to it is not finished.
Settled ==
    /\ queue # {} => pending
    /\ ~pending => /\ abc.pc = "idle" => \A c \in candidates : ~Worse(seq, tip, c)
                   /\ abc.mostWork # None =>
                         \A c \in candidates : ~Worse(seq, abc.mostWork, c)

\* A step that leaves what is in the order alone.
LEMMA SettledFrame ==
    ASSUME Settled, UNCHANGED <<tip, seq, abc>>, candidates' \subseteq candidates,
           queue' # {} => pending', ~pending' => ~pending
    PROVE  Settled'
  BY DEF Settled

LEMMA SettledStep ==
    ASSUME Reconsidered = {}, Precious = {}, IInv, Settled, Next
    PROVE  Settled'
<1>0. abc \in Holder(index) /\ pending \in BOOLEAN
  BY DEF IInv, TypeOK
<1>1. ASSUME NEW b \in Blocks, AcceptBlockHeader(b) \/ \E r \in BOOLEAN : AcceptBlock(b, r)
      PROVE  Settled'
  BY <1>1, SettledFrame DEF AcceptBlockHeader, AcceptBlock, chainVars, Settled
<1>2. ASSUME NEW b \in queue, ReceivedBlockTransactions(b) PROVE Settled'
  BY <1>2 DEF ReceivedBlockTransactions, Settled
<1>3. CASE ActivateBestChain
  <2>1. queue' = {} /\ UNCHANGED <<seq, candidates>>
    BY <1>3 DEF ActivateBestChain, status, sets
  <2>2. CASE abc' = [Idle EXCEPT !.pc = "find", !.start = tip]
    <3>1. abc'.pc = "find" /\ abc'.mostWork = None
      BY <2>2 DEF Idle
    <3> QED
      BY <2>1, <3>1 DEF Settled
  <2>3. CASE abc' = [abc EXCEPT !.pc = "find", !.start = tip, !.connected = FALSE] /\ UNCHANGED pending
    <3>1. abc'.pc = "find" /\ abc'.mostWork = abc.mostWork
      BY <1>0, <2>3 DEF Holder
    <3> QED
      BY <2>1, <2>3, <3>1 DEF Settled
  <2> QED
    BY <1>3, <2>2, <2>3 DEF ActivateBestChain
<1>4. CASE FindMostWorkChainDiscard
  BY <1>4, SettledFrame DEF FindMostWorkChainDiscard, chainVars, Settled
<1>5. CASE FindMostWorkChain
  <2>1. PICK w \in MostWork \ {None, tip} :
           abc' = [abc EXCEPT !.pc = "step", !.mostWork = w, !.old = tip]
    BY <1>5 DEF FindMostWorkChain
  <2>2. abc'.pc = "step" /\ abc'.mostWork = w
    BY <1>0, <2>1 DEF Holder
  <2>3. UNCHANGED <<tip, seq, candidates, queue, pending>>
    BY <1>5 DEF FindMostWorkChain, status, chainVars, sets
  <2>4. ~pending => \A c \in candidates : ~Worse(seq, w, c)
    BY DEF MostWork, Best, Settled
  <2> QED
    BY <2>2, <2>3, <2>4 DEF Settled
<1>6. CASE NothingToDo
  <2>1. PICK w \in MostWork \cap {None, tip} :
           abc' = IF abc.connected /\ w # tip THEN [Idle EXCEPT !.pc = "begin"] ELSE Idle
    BY <1>6 DEF NothingToDo
  <2>2. UNCHANGED <<tip, seq, candidates, queue, pending>>
    BY <1>6 DEF NothingToDo, status, chainVars, sets
  <2>3. abc'.mostWork = None
    BY <2>1 DEF Idle
  <2>4. ~pending => \A c \in candidates : ~Worse(seq, tip, c)
    <3>1. tip # None /\ None \notin candidates
      BY StateFacts
    <3>2. CASE abc.mostWork # None
      <4>1. abc.mostWork = tip
        BY <2>1, <3>2 DEF MostWork
      <4> QED
        BY <3>2, <4>1 DEF Settled
    <3>3. CASE abc.mostWork = None
      BY SMT, <2>1, <3>1, <3>3 DEF MostWork, Best
    <3> QED
      BY <3>2, <3>3
  <2> QED
    BY SMT, <2>2, <2>3, <2>4 DEF Settled
<1>7. CASE DisconnectTip \/ ConnectTipError
  <2>1. UNCHANGED <<seq, candidates, queue, pending>> /\ abc.pc = "step"
    BY <1>7 DEF DisconnectTip, ConnectTipError, status, sets
  <2>2. CASE UNCHANGED abc
    BY <2>1, <2>2 DEF Settled
  <2>3. CASE abc' = [Idle EXCEPT !.pc = "aborted"]
    <3>1. abc'.pc = "aborted" /\ abc'.mostWork = None
      BY <2>3 DEF Idle
    <3> QED
      BY <2>1, <3>1 DEF Settled
  <2> QED
    BY <1>7, <2>2, <2>3 DEF DisconnectTip, ConnectTipError
<1>8. CASE ConnectTip
  <2>1. PICK b \in NextBlock :
           /\ tip' = b /\ candidates' \subseteq candidates
           /\ abc' = abc \/ abc' = AfterStep(b, abc.mostWork)
    BY <1>8 DEF ConnectTip, PruneBlockIndexCandidates
  <2>2. UNCHANGED <<seq, queue, pending>> /\ abc.pc = "step" /\ abc.mostWork # None
    BY <1>8 DEF ConnectTip, IInv, Locals
  <2>3. \/ abc'.pc # "idle" /\ abc'.mostWork = abc.mostWork
        \/ abc'.mostWork = None /\ b = abc.mostWork
    BY SMT, <1>0, <2>1, <2>2, AfterStepCases
  <2> QED
    BY <2>1, <2>2, <2>3 DEF Settled
<1>9. CASE ConnectTipInvalid
  <2>1. UNCHANGED <<tip, seq, queue, pending>> /\ abc' = AfterStep(tip, None)
    BY <1>9 DEF ConnectTipInvalid, chainVars
  <2>2. tip # None
    BY StateFacts
  <2>3. abc'.pc # "idle" /\ abc'.mostWork = None
    BY SMT, <1>0, <2>1, <2>2, AfterStepCases
  <2> QED
    BY <2>1, <2>3 DEF Settled
<1>10. ASSUME NEW b, InvalidateBlock(b) PROVE Settled'
  <2>1. UNCHANGED <<queue, pending>> /\ abc'.pc = "walk" /\ abc'.mostWork = None
    BY <1>10 DEF InvalidateBlock, Idle
  <2> QED
    BY <2>1 DEF Settled
<1>11. CASE InvalidateWalk
  <2>1. UNCHANGED queue /\ queue = {} /\ abc.pc = "walk" /\ abc.mostWork = None
    BY <1>11 DEF InvalidateWalk, IInv, Locals
  <2>2. \/ abc'.pc = "walk" /\ abc'.mostWork = None
        \/ pending'
    BY <1>0, <1>11, <2>1 DEF InvalidateWalk, Holder
  <2> QED
    BY <2>1, <2>2 DEF Settled
<1>12. CASE InvalidateMark \/ LoadBlockIndex
  BY <1>12 DEF InvalidateMark, LoadBlockIndex, Settled
<1>13. ASSUME NEW b, PruneOneBlockFile(b) PROVE Settled'
  BY <1>13, SettledFrame DEF PruneOneBlockFile, chainVars, Settled
<1> QED
  BY SMTT(20), <1>1, <1>2, <1>3, <1>4, <1>5, <1>6, <1>7, <1>8, <1>9, <1>10, <1>11, <1>12, <1>13
  DEF Next, Activate, Invalidate

\* Without reconsiderblock and preciousblock: whenever no call of
\* ActivateBestChain is to come, no candidate is better than the tip.
THEOREM SettledTheorem == Reconsidered = {} /\ Precious = {} => (Spec => []Settled)
<1> SUFFICES ASSUME Reconsidered = {}, Precious = {} PROVE Spec => []Settled
  OBVIOUS
<1>1. Init => Settled
  <2> SUFFICES ASSUME Init PROVE Settled
    OBVIOUS
  <2>1. seq \in [Blocks -> Int] /\ Genesis \in Blocks
    BY SMT, TreeFacts DEF Init
  <2>2. ~Worse(seq, Genesis, Genesis)
    BY <2>1, OrderLemma
  <2> QED
    BY SMT, <2>2 DEF Init, Settled, Idle
<1>2. IInv /\ Settled /\ [Next]_vars => Settled'
  <2>1. ASSUME Settled, UNCHANGED vars PROVE Settled'
    BY <2>1 DEF vars, status, chainVars, sets, Settled
  <2> QED
    BY <2>1, SettledStep
<1> QED
  BY <1>1, <1>2, InvariantTheorem, PTL DEF Spec

\* Without pruning, reconsiderblock and preciousblock, no usable chain is better
\* than the active one once every call has returned.
THEOREM TipIsBestTheorem ==
    Prunable = {} /\ Reconsidered = {} /\ Precious = {} => (Spec => []TipIsBest)
<1> SUFFICES ASSUME Prunable = {}, Reconsidered = {}, Precious = {} PROVE Spec => []TipIsBest
  BY SMT
<1>1. IInv /\ LinkInv /\ NomInv /\ Settled => TipIsBest
  <2> SUFFICES ASSUME IInv, LinkInv, NomInv, Settled, AtRest, NEW b \in linked, Clean(b)
               PROVE  ~Worse(seq, tip, b)
    BY DEF TipIsBest, Clean
  <2> SUFFICES ASSUME Worse(seq, tip, b) PROVE FALSE
    OBVIOUS
  <2>1. ~Worse(seq, b, tip)
    BY SMT, LinkFacts, OrderLemma
  <2>2. b \in candidates
    BY <2>1 DEF AtRest, NomInv, Nominated, Active
  <2> QED
    BY <2>2 DEF AtRest, Settled
<1> QED
  BY <1>1, InvariantTheorem, LinkTheorem, NominatedTheorem, SettledTheorem, PTL
=============================================================================
