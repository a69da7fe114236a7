----------------------------- MODULE CheckQueue -----------------------------
(***************************************************************************)
(* The pool of script verification threads (checkqueue.h).  ConnectBlock,  *)
(* the master, adds the checks of a block through a CCheckQueueControl and *)
(* then joins the workers until all checks are done.                       *)
(*                                                                         *)
(* A critical section of m_mutex is one step; it ends where cond.wait      *)
(* releases the mutex.  The order of the queue is left open: it is a set,  *)
(* and any of its elements may be in the next batch.                       *)
(***************************************************************************)
EXTENDS Integers, FiniteSets

CONSTANTS
    Workers,    \* m_worker_threads
    Master,     \* the thread that holds m_control_mutex, if any
    Checks,     \* the checks of one block
    Bad,        \* those that fail
    nBatchSize

Threads == Workers \cup {Master}

ASSUME PoolAssumption ==
    /\ Master \notin Workers /\ IsFiniteSet(Workers)
    /\ Bad \subseteq Checks /\ IsFiniteSet(Checks) /\ nBatchSize \in Nat \ {0}

VARIABLES
    queue, nIdle, nTotal, fAllOk, nTodo, m_request_stop,
    started,   \* HasThreads()
    pc,        \* each thread: outside Loop ("out"), at its lock, in cond.wait, woken, or working
    batch,     \* the checks counted by its nNow
    fOk,
    added,     \* the checks of the current or last control
    verdict,   \* what the last Wait returned
    txsdata    \* ConnectBlock's txsdata, which the checks point into, is alive

countVars == <<nIdle, nTotal, fAllOk, nTodo>>
controlVars == <<added, verdict, txsdata>>
vars == <<queue, countVars, m_request_stop, started, pc, batch, fOk, controlVars>>

Init ==
    /\ queue = {} /\ nIdle = 0 /\ nTotal = 0 /\ fAllOk = TRUE /\ nTodo = 0
    /\ m_request_stop = FALSE /\ started = FALSE
    /\ pc = [t \in Threads |-> "out"]
    /\ batch = [t \in Threads |-> {}] /\ fOk = [t \in Threads |-> TRUE]
    /\ added = {} /\ verdict = TRUE /\ txsdata = FALSE

-----------------------------------------------------------------------------
(* Condition variables: a thread in cond.wait is notified or wakes by      *)
(* itself, and then has to lock m_mutex again.                             *)

Waiting(S) == {t \in S : pc[t] = "wait"}

Woken(S) == [t \in Threads |-> IF t \in S THEN "woken" ELSE pc[t]]

SpuriousWakeup(t) ==
    /\ t \in Waiting(Threads)
    /\ pc' = Woken({t})
    /\ UNCHANGED <<queue, countVars, m_request_stop, started, batch, fOk, controlVars>>

-----------------------------------------------------------------------------
(* Loop.                                                                   *)

\* nNow, once the thread is counted in total.
BatchOf(total) ==
    LET share == Cardinality(queue) \div (total + nIdle + 1)
        least == IF share < nBatchSize THEN share ELSE nBatchSize
    IN  IF least > 1 THEN least ELSE 1

\* MUTANT of Finished: the master does not wait for batches in progress.
FinishedWhenEmpty(t, todo) == t = Master

\* Whether the thread may leave with the result.
Finished(t, todo) == t = Master /\ todo = 0

\* The rest of the critical section, with the status and counts of this moment.
\* pcs is pc after the notifications so far, idle is nIdle without this thread.
ReturnResult(t, pcs, idle, total, allOk, todo) ==
    /\ queue = {} /\ ~m_request_stop /\ Finished(t, todo)
    /\ verdict' = allOk /\ fAllOk' = TRUE
    /\ nTotal' = total - 1 /\ nIdle' = idle /\ nTodo' = todo
    /\ pc' = [pcs EXCEPT ![t] = "out"]
    /\ batch' = [batch EXCEPT ![t] = {}]
    /\ UNCHANGED <<queue, fOk, added>>

GoWait(t, pcs, idle, total, allOk, todo) ==
    /\ queue = {} /\ ~m_request_stop /\ ~Finished(t, todo)
    /\ nIdle' = idle + 1 /\ nTotal' = total /\ fAllOk' = allOk /\ nTodo' = todo
    /\ pc' = [pcs EXCEPT ![t] = "wait"]
    /\ batch' = [batch EXCEPT ![t] = {}]
    /\ UNCHANGED <<queue, fOk, added, verdict>>

TakeBatch(t, pcs, idle, total, allOk, todo) ==
    /\ queue # {} /\ ~m_request_stop
    /\ \E S \in SUBSET queue :
          /\ Cardinality(S) = BatchOf(total)
          /\ queue' = queue \ S
          /\ batch' = [batch EXCEPT ![t] = S]
    /\ fOk' = [fOk EXCEPT ![t] = allOk]
    /\ nIdle' = idle /\ nTotal' = total /\ fAllOk' = allOk /\ nTodo' = todo
    /\ pc' = [pcs EXCEPT ![t] = "work"]
    /\ UNCHANGED <<added, verdict>>

\* A worker leaves Loop; the counts are not reset here.
StopLoop(t, pcs, idle, total, allOk, todo) ==
    /\ m_request_stop
    /\ nIdle' = idle /\ nTotal' = total /\ fAllOk' = allOk /\ nTodo' = todo
    /\ pc' = [pcs EXCEPT ![t] = "out"]
    /\ batch' = [batch EXCEPT ![t] = {}]
    /\ UNCHANGED <<queue, fOk, added, verdict>>

Decide(t, pcs, idle, total, allOk, todo) ==
    /\ \/ ReturnResult(t, pcs, idle, total, allOk, todo)
       \/ GoWait(t, pcs, idle, total, allOk, todo)
       \/ TakeBatch(t, pcs, idle, total, allOk, todo)
       \/ StopLoop(t, pcs, idle, total, allOk, todo)
    /\ UNCHANGED <<m_request_stop, started, txsdata>>

\* MUTANT of NotifyMaster: the last batch is not announced.
NotifyMasterNever(t, todo) == pc

\* m_master_cv.notify_one() of a worker whose batch was the last one.
NotifyMaster(t, todo) ==
    IF todo = 0 /\ t # Master THEN Woken(Waiting({Master})) ELSE pc

\* MUTANT of Merged: the status of the last batch wins.
MergedLast(t) == fOk[t]

\* fAllOk &= fOk
Merged(t) == fAllOk /\ fOk[t]

\* The first critical section of Loop.
EnterLoop(t) ==
    /\ pc[t] = "lock" /\ batch[t] = {}
    /\ Decide(t, pc, nIdle, nTotal + 1, fAllOk, nTodo)

\* The critical section after a batch.
FinishBatch(t) ==
    /\ pc[t] = "lock" /\ batch[t] # {}
    /\ LET todo == nTodo - Cardinality(batch[t])
       IN  Decide(t, NotifyMaster(t, todo), nIdle, nTotal, Merged(t), todo)

\* The critical section after cond.wait.
WakeUp(t) ==
    /\ pc[t] = "woken"
    /\ Decide(t, pc, nIdle - 1, nTotal, fAllOk, nTodo)

\* The checks of a batch, outside m_mutex; none is run once one has failed.
Execute(t) ==
    /\ pc[t] = "work"
    /\ fOk' = [fOk EXCEPT ![t] = fOk[t] /\ batch[t] \cap Bad = {}]
    /\ pc' = [pc EXCEPT ![t] = "lock"]
    /\ UNCHANGED <<queue, countVars, m_request_stop, started, batch, controlVars>>

-----------------------------------------------------------------------------
(* CCheckQueueControl in ConnectBlock.  pc[Master] is "add" while the      *)
(* control exists, "notify_one" or "notify_all" at the end of Add.         *)

\* Only with worker threads, and not during shutdown: Shutdown stops every
\* thread that connects blocks before the workers.
Control ==
    /\ pc[Master] = "out" /\ started /\ ~m_request_stop
    /\ pc' = [pc EXCEPT ![Master] = "add"]
    /\ added' = {} /\ txsdata' = TRUE
    /\ UNCHANGED <<queue, countVars, m_request_stop, started, batch, fOk, verdict>>

Add(vChecks) ==
    /\ pc[Master] = "add" /\ vChecks # {}
    /\ queue' = queue \cup vChecks
    /\ nTodo' = nTodo + Cardinality(vChecks)
    /\ pc' = [pc EXCEPT ![Master] = IF Cardinality(vChecks) = 1 THEN "notify_one" ELSE "notify_all"]
    /\ added' = added \cup vChecks
    /\ UNCHANGED <<nIdle, nTotal, fAllOk, m_request_stop, started, batch, fOk, verdict, txsdata>>

\* MUTANT of Notified: a single check wakes nobody.
NotifiedMany == IF pc[Master] = "notify_one" THEN {{}} ELSE {Waiting(Workers)}

\* The sets of workers that the notification of Add may wake.
Notified ==
    IF pc[Master] = "notify_all" \/ Waiting(Workers) = {} THEN {Waiting(Workers)}
    ELSE {{t} : t \in Waiting(Workers)}

Notify ==
    /\ pc[Master] \in {"notify_one", "notify_all"}
    /\ \E S \in Notified : pc' = [Woken(S) EXCEPT ![Master] = "add"]
    /\ UNCHANGED <<queue, countVars, m_request_stop, started, batch, fOk, controlVars>>

\* control.Wait().
Wait ==
    /\ pc[Master] = "add"
    /\ pc' = [pc EXCEPT ![Master] = "lock"]
    /\ UNCHANGED <<queue, countVars, m_request_stop, started, batch, fOk, controlVars>>

\* ConnectBlock returns early: txsdata, declared after control, is destroyed
\* before ~CCheckQueueControl calls Wait.
EarlyReturn ==
    /\ pc[Master] = "add"
    /\ pc' = [pc EXCEPT ![Master] = "lock"]
    /\ txsdata' = FALSE
    /\ UNCHANGED <<queue, countVars, m_request_stop, started, batch, fOk, added, verdict>>

-----------------------------------------------------------------------------

StartWorkerThreads ==
    /\ ~started /\ pc[Master] = "out"
    /\ started' = TRUE
    /\ nIdle' = 0 /\ nTotal' = 0 /\ fAllOk' = TRUE
    /\ pc' = [t \in Threads |-> IF t \in Workers THEN "lock" ELSE pc[t]]
    /\ UNCHANGED <<queue, nTodo, m_request_stop, batch, fOk, controlVars>>

\* The flag is set under m_mutex and the workers are notified after it: nobody
\* starts to wait in between, so this is one step.
StopWorkerThreads ==
    /\ started /\ ~m_request_stop /\ pc[Master] = "out"
    /\ m_request_stop' = TRUE
    /\ pc' = Woken(Waiting(Workers))
    /\ UNCHANGED <<queue, countVars, started, batch, fOk, controlVars>>

\* All workers have been joined.
Joined ==
    /\ m_request_stop /\ \A t \in Workers : pc[t] = "out"
    /\ m_request_stop' = FALSE /\ started' = FALSE
    /\ UNCHANGED <<queue, countVars, pc, batch, fOk, controlVars>>

Loop(t) == EnterLoop(t) \/ FinishBatch(t) \/ WakeUp(t) \/ Execute(t)

Next ==
    \/ \E t \in Threads : Loop(t) \/ SpuriousWakeup(t)
    \/ Control \/ Notify \/ Wait \/ EarlyReturn
    \/ \E vChecks \in SUBSET (Checks \ added) : Add(vChecks)
    \/ StartWorkerThreads \/ StopWorkerThreads \/ Joined

Spec == Init /\ [][Next]_vars

\* Threads inside the queue keep running; the master may take as long as it
\* likes between two calls.
Fairness == WF_vars(Notify) /\ WF_vars(Joined) /\ \A t \in Threads : WF_vars(Loop(t))
FairSpec == Spec /\ Fairness

-----------------------------------------------------------------------------
\* The checks that nTodo counts.
Pending == {c \in Checks : c \in queue \/ \E t \in Threads : c \in batch[t]}

\* Every variable has its type; the counts are those of the threads in Loop.
TypeOK ==
    /\ queue \subseteq Checks /\ added \subseteq Checks
    /\ nTodo \in 0..Cardinality(Checks)
    /\ nIdle = Cardinality({t \in Threads : pc[t] \in {"wait", "woken"}})
    /\ nTotal \in 0..Cardinality(Threads)
    /\ {fAllOk, m_request_stop, started, verdict, txsdata} \subseteq BOOLEAN
    /\ pc \in [Threads -> {"out", "lock", "wait", "woken", "work", "add", "notify_one", "notify_all"}]
    /\ batch \in [Threads -> SUBSET Checks] /\ fOk \in [Threads -> BOOLEAN]

\* CCheckQueueControl "guarantees the passed queue is finished before
\* continuing": outside a control no check is queued or in a batch.
QueueFinished == pc[Master] = "out" => Pending = {} /\ nTodo = 0

\* Wait returns whether all checks of this control passed; neither a failure of
\* an earlier block nor a batch that was skipped changes that.
VerdictExact == pc[Master] = "out" => (verdict <=> added \cap Bad = {})

\* Wait returns.
WaitReturns == pc[Master] = "lock" ~> pc[Master] = "out"

\* Added checks are taken by the workers even if the master never calls Wait.
QueueDrains == queue # {} ~> queue = {}

\* StopWorkerThreads joins all workers.
Stops == m_request_stop ~> ~started

\* The pool comes to rest: Add's notification of one worker loses no check, and
\* StopWorkerThreads no worker.
PoolSettles == QueueDrains /\ Stops

\* "keep txsdata in scope for as long as `control`": no check runs when txsdata
\* is gone.
TxsdataInScope == ~txsdata => \A t \in Threads : ~(pc[t] = "work" /\ fOk[t])
====
