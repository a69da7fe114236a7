-------------------------- MODULE CheckQueueProofs --------------------------
(***************************************************************************)
(* Proofs about CheckQueue, for any number of workers, any set of checks   *)
(* and any batch size.                                                     *)
(***************************************************************************)
EXTENDS CheckQueue, FiniteSetTheorems, TLAPS

PCs == {"out", "lock", "wait", "woken", "work", "add", "notify_one", "notify_all"}

Shape ==
    /\ queue \subseteq Checks /\ added \subseteq Checks
    /\ pc \in [Threads -> PCs] /\ batch \in [Threads -> SUBSET Checks]
    /\ DOMAIN fOk = Threads

\* A thread holds a batch only between taking and accounting for it.
Holding ==
    /\ \A t \in Threads : batch[t] # {} => pc[t] \in {"work", "lock"}
    /\ \A t \in Threads : batch[t] \cap queue = {}
    /\ \A t, u \in Threads : t # u => batch[t] \cap batch[u] = {}

\* nTodo counts the pending checks, all of which belong to this control.
Counted == nTodo = Cardinality(Pending) /\ Pending \subseteq added

\* A failed check of this control is pending, or the status knows of it; and
\* the status is never worse than the checks.
Tracked ==
    /\ pc[Master] # "out" /\ fAllOk => added \cap Bad \subseteq Pending
    /\ pc[Master] # "out" /\ ~fAllOk => added \cap Bad # {}
    /\ \A t \in Threads : batch[t] # {} /\ ~fOk[t] => added \cap Bad # {}
    /\ \A t \in Threads : pc[t] = "lock" /\ fOk[t] => batch[t] \cap Bad = {}

AtRest ==
    /\ pc[Master] = "out" => nTodo = 0 /\ fAllOk
    /\ m_request_stop => pc[Master] = "out"

IInv == Shape /\ Holding /\ Counted /\ Tracked /\ AtRest /\ VerdictExact

\* The checks pending beside the batch of t.
Left(t) == {c \in Checks : c \in queue \/ \E u \in Threads \ {t} : c \in batch[u]}

LEMMA LeftLemma ==
    ASSUME Shape, Holding, Counted, NEW t \in Threads
    PROVE  /\ IsFiniteSet(Pending) /\ IsFiniteSet(Left(t)) /\ IsFiniteSet(batch[t])
           /\ Left(t) = Pending \ batch[t] /\ batch[t] \subseteq Pending
           /\ Cardinality(Left(t)) = nTodo - Cardinality(batch[t])
           /\ Left(t) \subseteq added
<1>1. batch[t] \subseteq Checks /\ batch[t] \subseteq Pending /\ Pending \subseteq Checks
  BY DEF Shape, Pending
<1>2. Left(t) = Pending \ batch[t]
  BY DEF Left, Pending, Holding, Shape
<1>3. IsFiniteSet(Pending) /\ IsFiniteSet(batch[t]) /\ IsFiniteSet(Left(t))
  BY <1>1, <1>2, PoolAssumption, FS_Subset
<1>4. Cardinality(Pending \ batch[t]) = Cardinality(Pending) - Cardinality(Pending \cap batch[t])
  BY Zenon, <1>3, FS_Difference
<1>5. Pending \cap batch[t] = batch[t]
  BY <1>1
<1> QED
  BY <1>1, <1>2, <1>3, <1>4, <1>5 DEF Counted

LEMMA InitLemma == Init => IInv
<1> SUFFICES ASSUME Init PROVE IInv
  OBVIOUS
<1>1. Shape /\ Holding
  BY DEF Init, Shape, Holding, PCs
<1>2. Pending = {}
  BY DEF Init, Pending
<1>3. Counted
  BY <1>2, FS_EmptySet DEF Init, Counted
<1>4. Tracked /\ AtRest /\ VerdictExact
  BY DEF Init, Tracked, AtRest, VerdictExact, Threads
<1> QED
  BY <1>1, <1>3, <1>4 DEF IInv

\* What Decide starts from: the batch of t has been accounted for.
Ready(t, pcs, allOk, todo) ==
    /\ t \in Threads /\ pc[t] \in {"lock", "woken"}
    /\ pcs \in [Threads -> PCs]
    /\ \A u \in Threads : pcs[u] = pc[u] \/ (pc[u] = "wait" /\ pcs[u] = "woken")
    /\ todo = Cardinality(Left(t)) /\ Left(t) \subseteq added /\ IsFiniteSet(Left(t))
    /\ pc[Master] # "out" /\ allOk => added \cap Bad \subseteq Left(t)
    /\ pc[Master] # "out" /\ ~allOk => added \cap Bad # {}
    /\ pc[Master] = "out" => todo = 0 /\ allOk

\* The three ways to leave without a new batch.
LEMMA LeaveLemma ==
    ASSUME IInv, NEW t \in Threads, NEW pcs, NEW allOk, NEW todo, Ready(t, pcs, allOk, todo),
           NEW to \in {"out", "wait"}, pc' = [pcs EXCEPT ![t] = to],
           batch' = [batch EXCEPT ![t] = {}], UNCHANGED <<queue, fOk, added>>, nTodo' = todo
    PROVE  Shape' /\ Holding' /\ Counted' /\ Pending' = Left(t)
<1>1. Shape'
  BY DEF IInv, Shape, Ready, PCs
<1>2. Pending' = Left(t)
  BY DEF IInv, Shape, Pending, Left
<1>3. Holding'
  <2>1. \A u \in Threads : (batch')[u] = IF u = t THEN {} ELSE batch[u]
    BY DEF IInv, Shape
  <2>2. \A u \in Threads : u # t /\ batch[u] # {} => (pc')[u] = pc[u]
    BY DEF IInv, Shape, Holding, Ready
  <2> QED
    BY <2>1, <2>2 DEF IInv, Holding
<1> QED
  BY <1>1, <1>2, <1>3 DEF Counted, Ready

LEMMA DecideLemma ==
    ASSUME IInv, NEW t, NEW pcs, NEW idle, NEW total, NEW allOk, NEW todo,
           Ready(t, pcs, allOk, todo), Decide(t, pcs, idle, total, allOk, todo)
    PROVE  IInv'
<1> USE DEF Ready
<1>m. Master \in Threads
  BY DEF Threads
<1>1. CASE ReturnResult(t, pcs, idle, total, allOk, todo)
  <2>1. t = Master /\ todo = 0 /\ pc' = [pcs EXCEPT ![t] = "out"] /\ batch' = [batch EXCEPT ![t] = {}]
        /\ UNCHANGED <<queue, fOk, added, m_request_stop>> /\ nTodo' = todo /\ ~m_request_stop
    BY <1>1 DEF ReturnResult, Finished, Decide
  <2>2. Shape' /\ Holding' /\ Counted' /\ Pending' = Left(t)
    BY Zenon, <2>1, LeaveLemma
  <2>3. Left(t) = {}
    BY Zenon, <2>1, FS_EmptySet
  <2>4. (pc')[Master] = "out" /\ pc[Master] # "out"
    BY <1>m, <2>1
  <2>5. Tracked'
    <3>1. \A u \in Threads : (batch')[u] = {}
      BY <2>2, <2>3 DEF Pending, Shape
    <3> QED
      BY <2>4, <3>1 DEF Tracked
  <2>6. AtRest'
    BY <1>1, <2>1, <2>4 DEF AtRest, ReturnResult
  <2>7. VerdictExact'
    <3>1. verdict' = allOk /\ added' = added
      BY <1>1 DEF ReturnResult
    <3>2. allOk => added \cap Bad = {}
      BY <2>3, <2>4
    <3>3. ~allOk => added \cap Bad # {}
      BY <2>4
    <3> QED
      BY <3>1, <3>2, <3>3 DEF VerdictExact
  <2> QED
    BY <2>2, <2>5, <2>6, <2>7 DEF IInv
<1>2. CASE GoWait(t, pcs, idle, total, allOk, todo) \/ StopLoop(t, pcs, idle, total, allOk, todo)
  <2>1. PICK to \in {"out", "wait"} : pc' = [pcs EXCEPT ![t] = to] /\ (to = "out" => m_request_stop)
    BY <1>2 DEF GoWait, StopLoop
  <2>2. /\ batch' = [batch EXCEPT ![t] = {}] /\ UNCHANGED <<queue, fOk, added>> /\ nTodo' = todo
        /\ UNCHANGED <<verdict, m_request_stop>>
    BY <1>2 DEF GoWait, StopLoop, Decide
  <2>3. fAllOk' = allOk
    BY <1>2 DEF GoWait, StopLoop
  <2>4. Shape' /\ Holding' /\ Counted' /\ Pending' = Left(t)
    BY Zenon, <2>1, <2>2, LeaveLemma
  <2>5. (pc')[Master] = "out" <=> pc[Master] = "out"
    BY <1>m, <2>1 DEF IInv, AtRest
  <2>6. Tracked'
    <3>1. pc[Master] # "out" /\ fAllOk' => added' \cap Bad \subseteq Pending'
      BY <2>2, <2>3, <2>4
    <3>2. pc[Master] # "out" /\ ~fAllOk' => added' \cap Bad # {}
      BY <2>2, <2>3
    <3>3. \A u \in Threads : (batch')[u] = IF u = t THEN {} ELSE batch[u]
      BY <2>2 DEF IInv, Shape
    <3>4. \A u \in Threads : (batch')[u] # {} /\ ~(fOk')[u] => added' \cap Bad # {}
      BY <2>2, <3>3 DEF IInv, Tracked
    <3>5. \A u \in Threads : u # t /\ (pc')[u] = "lock" => pc[u] = "lock"
      BY <2>1
    <3>6. \A u \in Threads : (pc')[u] = "lock" /\ (fOk')[u] => (batch')[u] \cap Bad = {}
      <4>1. \A u \in Threads : pc[u] = "lock" /\ fOk[u] => batch[u] \cap Bad = {}
        BY DEF IInv, Tracked
      <4>2. fOk' = fOk
        BY <2>2
      <4> QED
        BY <3>3, <3>5, <4>1, <4>2
    <3> QED
      BY <2>5, <3>1, <3>2, <3>4, <3>6 DEF Tracked
  <2>7. AtRest' /\ VerdictExact'
    BY <2>2, <2>3, <2>5 DEF IInv, AtRest, VerdictExact
  <2> QED
    BY <2>4, <2>6, <2>7 DEF IInv
<1>3. CASE TakeBatch(t, pcs, idle, total, allOk, todo)
  <2>1. PICK S \in SUBSET queue : queue' = queue \ S /\ batch' = [batch EXCEPT ![t] = S]
    BY Zenon, <1>3 DEF TakeBatch
  <2>2. /\ fOk' = [fOk EXCEPT ![t] = allOk] /\ pc' = [pcs EXCEPT ![t] = "work"] /\ nTodo' = todo
        /\ UNCHANGED <<added, verdict, m_request_stop>>
    BY <1>3 DEF TakeBatch, Decide
  <2>3. fAllOk' = allOk
    BY <1>3 DEF TakeBatch
  <2>4. \A u \in Threads : (batch')[u] = IF u = t THEN S ELSE batch[u]
    BY <2>1 DEF IInv, Shape
  <2>5. \A u \in Threads : u # t => /\ (pc')[u] = "lock" <=> pc[u] = "lock"
                                    /\ (pc')[u] = "work" <=> pc[u] = "work"
    BY <2>2
  <2>6. Shape'
    BY <2>1, <2>2 DEF IInv, Shape, PCs
  <2>7. Pending' = Left(t)
    BY <2>1, <2>4 DEF IInv, Shape, Pending, Left
  <2>8. Counted'
    BY <2>2, <2>7 DEF Counted
  <2>9. Holding'
    <3>1. (pc')[t] = "work"
      BY <2>2
    <3>2. \A u \in Threads : (batch')[u] # {} => (pc')[u] \in {"work", "lock"}
      BY <2>4, <2>5, <3>1 DEF IInv, Holding
    <3>3. /\ \A u \in Threads : batch[u] \cap queue = {}
          /\ \A u, v \in Threads : u # v => batch[u] \cap batch[v] = {}
      BY DEF IInv, Holding
    <3>4. \A u \in Threads : (batch')[u] \cap queue' = {}
      BY <2>1, <2>4, <3>3
    <3>5. \A u, v \in Threads : u # v => (batch')[u] \cap (batch')[v] = {}
      BY <2>1, <2>4, <3>3
    <3> QED
      BY <3>2, <3>4, <3>5 DEF Holding
  <2>10. (pc')[Master] = "out" <=> pc[Master] = "out"
    BY <1>m, <2>2
  <2>11. Tracked'
    <3>1. pc[Master] # "out" /\ fAllOk' => added' \cap Bad \subseteq Pending'
      BY <2>2, <2>3, <2>7
    <3>2. pc[Master] # "out" /\ ~fAllOk' => added' \cap Bad # {}
      BY <2>2, <2>3
    <3>3. ~allOk => added \cap Bad # {}
      OBVIOUS
    <3>4. (fOk')[t] = allOk /\ \A u \in Threads : u # t => (fOk')[u] = fOk[u]
      BY <2>2 DEF IInv, Shape
    <3>5. \A u \in Threads : (batch')[u] # {} /\ ~(fOk')[u] => added' \cap Bad # {}
      BY <2>2, <2>4, <3>3, <3>4 DEF IInv, Tracked
    <3>6. (pc')[t] = "work"
      BY <2>2
    <3>7. \A u \in Threads : (pc')[u] = "lock" /\ (fOk')[u] => (batch')[u] \cap Bad = {}
      BY <2>4, <2>5, <3>4, <3>6 DEF IInv, Tracked
    <3> QED
      BY <2>10, <3>1, <3>2, <3>5, <3>7 DEF Tracked
  <2>12. AtRest' /\ VerdictExact'
    BY <2>2, <2>3, <2>10 DEF IInv, AtRest, VerdictExact
  <2> QED
    BY <2>6, <2>8, <2>9, <2>11, <2>12 DEF IInv
<1> QED
  BY <1>1, <1>2, <1>3 DEF Decide

\* A thread without a batch is ready as it is.
LEMMA ReadyLemma ==
    ASSUME IInv, NEW t \in Threads, pc[t] \in {"lock", "woken"}, batch[t] = {}
    PROVE  Ready(t, pc, fAllOk, nTodo)
<1>1. Left(t) = Pending /\ IsFiniteSet(Left(t)) /\ Left(t) \subseteq added
  BY Zenon, LeftLemma DEF IInv
<1> QED
  BY <1>1 DEF Ready, IInv, Shape, Counted, Tracked, AtRest

LEMMA LoopLemma ==
    ASSUME IInv, NEW t \in Threads, Loop(t)
    PROVE  IInv'
<1>1. CASE EnterLoop(t)
  BY <1>1, ReadyLemma, DecideLemma DEF EnterLoop
<1>2. CASE WakeUp(t)
  <2>1. batch[t] = {} /\ pc[t] = "woken"
    BY <1>2 DEF WakeUp, IInv, Holding
  <2> QED
    BY <1>2, <2>1, ReadyLemma, DecideLemma DEF WakeUp
<1>3. CASE FinishBatch(t)
  <2> DEFINE todo == nTodo - Cardinality(batch[t])
             pcs == NotifyMaster(t, todo)
             allOk == Merged(t)
  <2>1. pc[t] = "lock" /\ batch[t] # {} /\ Decide(t, pcs, nIdle, nTotal, allOk, todo)
    BY <1>3 DEF FinishBatch
  <2>2. /\ Left(t) = Pending \ batch[t] /\ batch[t] \subseteq Pending /\ Left(t) \subseteq added
        /\ IsFiniteSet(Left(t)) /\ IsFiniteSet(Pending) /\ todo = Cardinality(Left(t))
    BY LeftLemma DEF IInv
  <2>3. pc[Master] # "out"
    <3>1. Pending # {}
      BY <2>1, <2>2
    <3>2. nTodo # 0
      BY <2>2, <3>1, FS_EmptySet DEF IInv, Counted
    <3> QED
      BY <3>2 DEF IInv, AtRest
  <2>4. /\ pcs \in [Threads -> PCs]
        /\ \A u \in Threads : pcs[u] = pc[u] \/ (pc[u] = "wait" /\ pcs[u] = "woken")
    BY DEF NotifyMaster, Woken, Waiting, IInv, Shape, PCs
  <2>5. allOk => added \cap Bad \subseteq Left(t)
    BY <2>1, <2>2, <2>3 DEF Merged, IInv, Tracked
  <2>6. ~allOk => added \cap Bad # {}
    BY <2>1, <2>3 DEF Merged, IInv, Tracked
  <2> HIDE DEF todo, pcs, allOk
  <2>7. Ready(t, pcs, allOk, todo)
    BY <2>1, <2>2, <2>3, <2>4, <2>5, <2>6 DEF Ready
  <2> QED
    BY <2>1, <2>7, DecideLemma
<1>4. CASE Execute(t)
  <2> DEFINE ok == fOk[t] /\ batch[t] \cap Bad = {}
  <2>1. pc[t] = "work" /\ pc' = [pc EXCEPT ![t] = "lock"] /\ fOk' = [fOk EXCEPT ![t] = ok]
    BY <1>4 DEF Execute
  <2>2. UNCHANGED <<queue, fAllOk, nTodo, m_request_stop, batch, added, verdict>>
    BY <1>4 DEF Execute, countVars, controlVars
  <2>3. Pending' = Pending
    BY <2>2 DEF Pending
  <2>4. (pc')[Master] = "out" <=> pc[Master] = "out"
    BY <2>1 DEF IInv, Shape, Threads
  <2>5. Shape' /\ Holding' /\ Counted'
    BY <2>1, <2>2, <2>3 DEF IInv, Shape, Holding, Counted, PCs
  <2>6. Tracked'
    <3>1. \A u \in Threads : u # t => (fOk')[u] = fOk[u] /\ (pc')[u] = pc[u]
      BY <2>1 DEF IInv, Shape
    <3>2. (fOk')[t] = ok
      BY <2>1 DEF IInv, Shape
    <3>3. ok => batch[t] \cap Bad = {}
      OBVIOUS
    <3>4. batch[t] # {} /\ ~ok => added \cap Bad # {}
      BY DEF IInv, Tracked, Counted, Pending, Shape
    <3> HIDE DEF ok
    <3>5. \A u \in Threads : (batch')[u] # {} /\ ~(fOk')[u] => added' \cap Bad # {}
      BY <2>2, <3>1, <3>2, <3>4 DEF IInv, Tracked
    <3>6. \A u \in Threads : (pc')[u] = "lock" /\ (fOk')[u] => (batch')[u] \cap Bad = {}
      BY <2>2, <3>1, <3>2, <3>3 DEF IInv, Tracked
    <3> QED
      BY <2>2, <2>3, <2>4, <3>5, <3>6 DEF IInv, Tracked
  <2>7. AtRest' /\ VerdictExact'
    BY <2>2, <2>4 DEF IInv, AtRest, VerdictExact
  <2> QED
    BY <2>5, <2>6, <2>7 DEF IInv
<1> QED
  BY <1>1, <1>2, <1>3, <1>4 DEF Loop

\* A step that moves threads without a batch about, into no state that claims
\* a finished batch, and leaves the master in or out of its control.
LEMMA MoveLemma ==
    ASSUME IInv, pc' \in [Threads -> PCs],
           \A t \in Threads : (pc')[t] # pc[t] => batch[t] = {},
           (pc')[Master] = "out" <=> pc[Master] = "out",
           fAllOk' <=> fAllOk, UNCHANGED <<queue, nTodo, batch, fOk, added, verdict>>,
           m_request_stop' => pc[Master] = "out"
    PROVE  IInv'
<1>1. Pending' = Pending
  BY DEF Pending
<1>2. Shape' /\ Holding' /\ Counted'
  BY <1>1 DEF IInv, Shape, Holding, Counted
<1>3. Tracked'
  BY <1>1 DEF IInv, Tracked
<1>4. AtRest' /\ VerdictExact'
  BY DEF IInv, AtRest, VerdictExact
<1> QED
  BY <1>2, <1>3, <1>4 DEF IInv

LEMMA ControlLemma ==
    ASSUME IInv, Control
    PROVE  IInv'
<1>1. /\ pc[Master] = "out" /\ pc' = [pc EXCEPT ![Master] = "add"] /\ added' = {} /\ ~m_request_stop
      /\ UNCHANGED <<queue, fAllOk, nTodo, m_request_stop, batch, fOk, verdict>>
  BY DEF Control, countVars
<1>2. Master \in Threads
  BY DEF Threads
<1>3. Pending = {} /\ nTodo = 0 /\ fAllOk
  <2>1. nTodo = 0 /\ fAllOk
    BY <1>1 DEF IInv, AtRest
  <2>2. IsFiniteSet(Pending)
    BY <1>2, LeftLemma DEF IInv
  <2> QED
    BY Zenon, <2>1, <2>2, FS_EmptySet DEF IInv, Counted
<1>4. Pending' = Pending
  BY <1>1 DEF Pending
<1>5. queue = {} /\ \A t \in Threads : batch[t] = {}
  BY <1>3 DEF Pending, IInv, Shape
<1>6. Shape' /\ Holding' /\ Counted'
  BY Zenon, <1>1, <1>3, <1>4, <1>5 DEF IInv, Shape, Holding, Counted, PCs
<1>7. Tracked'
  BY <1>1, <1>3, <1>5 DEF Tracked
<1>8. AtRest' /\ VerdictExact'
  BY <1>1, <1>2 DEF AtRest, VerdictExact, IInv, Shape
<1> QED
  BY <1>6, <1>7, <1>8 DEF IInv

LEMMA AddLemma ==
    ASSUME IInv, NEW vChecks \in SUBSET (Checks \ added), Add(vChecks)
    PROVE  IInv'
<1>1. /\ pc[Master] = "add" /\ queue' = queue \cup vChecks /\ nTodo' = nTodo + Cardinality(vChecks)
      /\ \E to \in {"notify_one", "notify_all"} : pc' = [pc EXCEPT ![Master] = to]
      /\ added' = added \cup vChecks /\ UNCHANGED <<fAllOk, m_request_stop, batch, fOk, verdict>>
  BY Zenon DEF Add
<1>2. Master \in Threads /\ ~m_request_stop
  BY <1>1 DEF Threads, IInv, AtRest
<1>3. Pending' = Pending \cup vChecks /\ Pending \cap vChecks = {}
  BY <1>1 DEF Pending, IInv, Counted
<1>4. Cardinality(Pending') = nTodo'
  <2>1. IsFiniteSet(Pending)
    BY <1>2, LeftLemma DEF IInv
  <2>2. IsFiniteSet(vChecks) /\ IsFiniteSet(Pending)
    BY <2>1, PoolAssumption, FS_Subset
  <2>3. Cardinality(Pending \cup vChecks) = Cardinality(Pending) + Cardinality(vChecks) - 0
    BY <1>3, <2>2, FS_Union, FS_EmptySet
  <2>4. Cardinality(Pending) \in Nat /\ Cardinality(vChecks) \in Nat
    BY <2>2, FS_CardinalityType
  <2> QED
    BY <1>1, <1>3, <2>3, <2>4 DEF IInv, Counted
<1>5. Counted'
  BY <1>1, <1>3, <1>4 DEF Counted, IInv
<1>6. PICK to \in {"notify_one", "notify_all"} : pc' = [pc EXCEPT ![Master] = to]
  BY Zenon, <1>1
<1>7. (pc')[Master] # "out" /\ (pc')[Master] # "lock" /\ \A t \in Threads : t # Master => (pc')[t] = pc[t]
  BY <1>2, <1>6 DEF IInv, Shape
<1>8. batch[Master] = {}
  BY <1>1, <1>2 DEF IInv, Holding
<1>9. Shape'
  BY Zenon, <1>1, <1>6 DEF IInv, Shape, PCs
<1>10. Holding'
  <2>1. \A t \in Threads : batch[t] \cap vChecks = {}
    BY <1>3 DEF Pending, IInv, Shape
  <2> QED
    BY <1>1, <1>7, <1>8, <2>1 DEF IInv, Holding
<1>11. Tracked'
  BY <1>1, <1>3, <1>7 DEF IInv, Tracked
<1>12. AtRest' /\ VerdictExact'
  BY <1>1, <1>2, <1>7 DEF AtRest, VerdictExact
<1> QED
  BY <1>5, <1>9, <1>10, <1>11, <1>12 DEF IInv

LEMMA NextLemma == IInv /\ [Next]_vars => IInv'
<1> SUFFICES ASSUME IInv, [Next]_vars PROVE IInv'
  OBVIOUS
<1>m. Master \in Threads /\ Workers \subseteq Threads /\ pc \in [Threads -> PCs] /\ Master \notin Workers
  BY PoolAssumption DEF Threads, IInv, Shape
<1>h. \A t \in Threads : pc[t] \notin {"work", "lock"} => batch[t] = {}
  BY DEF IInv, Holding
<1>s. m_request_stop => pc[Master] = "out"
  BY DEF IInv, AtRest
<1>1. ASSUME NEW t \in Threads, Loop(t) PROVE IInv'
  BY <1>1, LoopLemma
<1>2. ASSUME NEW t \in Threads, SpuriousWakeup(t) PROVE IInv'
  BY <1>2, <1>m, <1>h, <1>s, MoveLemma DEF SpuriousWakeup, Woken, Waiting, PCs, countVars, controlVars
<1>3. CASE Control
  BY <1>3, ControlLemma
<1>4. CASE Notify
  <2>1. PICK S \in Notified : pc' = [Woken(S) EXCEPT ![Master] = "add"]
    BY Zenon, <1>4 DEF Notify
  <2>2. \A t \in Threads \ {Master} : (pc')[t] = pc[t] \/ (pc[t] = "wait" /\ (pc')[t] = "woken")
    BY <2>1 DEF Notified, Woken, Waiting
  <2>3. pc' \in [Threads -> PCs] /\ (pc')[Master] = "add" /\ pc[Master] \in {"notify_one", "notify_all"}
    BY <1>4, <1>m, <2>1 DEF Woken, PCs, Notify
  <2> QED
    BY <1>4, <1>m, <1>h, <1>s, <2>2, <2>3, MoveLemma DEF Notify, countVars, controlVars
<1>5. CASE Wait
  BY <1>5, <1>m, <1>h, <1>s, MoveLemma DEF Wait, PCs, countVars, controlVars
<1>6. CASE EarlyReturn
  BY <1>6, <1>m, <1>h, <1>s, MoveLemma DEF EarlyReturn, PCs, countVars
<1>7. ASSUME NEW vChecks \in SUBSET (Checks \ added), Add(vChecks) PROVE IInv'
  BY <1>7, AddLemma
<1>8. CASE StartWorkerThreads
  <2>1. /\ pc[Master] = "out" /\ pc' = [t \in Threads |-> IF t \in Workers THEN "lock" ELSE pc[t]]
        /\ fAllOk' /\ UNCHANGED <<queue, nTodo, batch, fOk, added, verdict, m_request_stop>>
    BY <1>8 DEF StartWorkerThreads, controlVars
  <2>2. fAllOk /\ nTodo = 0 /\ Cardinality(Pending) = 0
    BY <2>1 DEF IInv, AtRest, Counted
  <2>3. \A t \in Threads : batch[t] = {}
    <3>1. Pending = {}
      BY <1>m, <2>2, LeftLemma, FS_EmptySet DEF IInv
    <3> QED
      BY <3>1 DEF Pending, IInv, Shape
  <2> QED
    BY <1>m, <2>1, <2>2, <2>3, MoveLemma DEF PCs
<1>9. CASE StopWorkerThreads
  BY <1>9, <1>m, <1>h, MoveLemma DEF StopWorkerThreads, Woken, Waiting, PCs, countVars, controlVars
<1>10. CASE Joined
  BY <1>10, <1>m, <1>h, <1>s, MoveLemma DEF Joined, countVars, controlVars
<1>11. CASE UNCHANGED vars
  BY <1>11, <1>m, <1>h, <1>s, MoveLemma DEF vars, countVars, controlVars
<1> QED
  BY <1>1, <1>2, <1>3, <1>4, <1>5, <1>6, <1>7, <1>8, <1>9, <1>10, <1>11 DEF Next

\* The facts the two theorems rest on.
THEOREM InvariantTheorem == Spec => []IInv
  BY InitLemma, NextLemma, PTL DEF Spec

\* ~CCheckQueueControl "guarantees the passed queue is finished before
\* continuing": when Wait has returned, no check is queued or being run.
THEOREM QueueFinishedTheorem == Spec => []QueueFinished
<1>1. IInv => QueueFinished
  <2> SUFFICES ASSUME IInv, pc[Master] = "out" PROVE Pending = {} /\ nTodo = 0
    BY DEF QueueFinished
  <2>1. nTodo = 0 /\ nTodo = Cardinality(Pending)
    BY DEF IInv, AtRest, Counted
  <2>2. IsFiniteSet(Pending)
    BY LeftLemma DEF IInv, Threads
  <2> QED
    BY <2>1, <2>2, FS_EmptySet
<1> QED
  BY <1>1, InvariantTheorem, PTL

\* Wait returns true exactly if every check of its own control passes.
THEOREM VerdictExactTheorem == Spec => []VerdictExact
<1>1. IInv => VerdictExact
  BY DEF IInv
<1> QED
  BY <1>1, InvariantTheorem, PTL
====
