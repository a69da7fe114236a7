----------------------------- MODULE Scheduler -----------------------------
(***************************************************************************)
(* CScheduler and the SingleThreadedSchedulerClient that runs validation   *)
(* callbacks on it (scheduler.cpp), with the threads that add callbacks    *)
(* (ActivateBestChain, which waits for the queue to drain when it is too   *)
(* long) and the order in which Shutdown stops them (init.cpp).            *)
(*                                                                         *)
(* newTaskMutex and m_callbacks_mutex guard the two queues; what happens   *)
(* under one of them is one step.  Time is what a waiting thread can tell: *)
(* the first `ripe' tasks of taskQueue are due, the rest is not.           *)
(***************************************************************************)
EXTENDS Integers, Sequences

CONSTANTS
    Workers,      \* threads in serviceQueue
    Producers,    \* threads that add callbacks
    Loaders,      \* the ones among them that Shutdown joins after the scheduler
    Main,         \* the thread that runs Shutdown
    None,
    Limit,        \* LimitValidationInterfaceQueue waits above this length
    MaxCallbacks  \* bound on the callbacks added

ASSUME ThreadAssumption ==
    /\ Loaders \subseteq Producers /\ Main \notin Workers \cup Producers
    /\ Workers \cap Producers = {} /\ None \notin Workers \cup Producers \cup {Main}

Threads == Workers \cup Producers \cup {Main}

VARIABLES
    taskQueue, ripe,          \* CScheduler::taskQueue by time; how many are due
    stopRequested,
    m_callbacks_pending,      \* records: a number, and whose promise it sets
    m_are_callbacks_running,
    pc,
    waitFor,                  \* a thread in wait_until: whether its time has come
    callback,                 \* ProcessQueue's local
    m_chainstate_mutex,       \* the thread in ActivateBestChain
    promise,                  \* SyncWithValidationInterfaceQueue's local
    added                     \* number of callbacks added so far

taskVars == <<taskQueue, ripe>>
clientVars == <<m_callbacks_pending, m_are_callbacks_running, callback, promise, added,
                m_chainstate_mutex>>
vars == <<taskVars, stopRequested, clientVars, pc, waitFor>>

\* One task repeats itself (scheduleEvery); it is not due yet.
Init ==
    /\ taskQueue = <<"Repeat">> /\ ripe = 0
    /\ stopRequested = FALSE
    /\ m_callbacks_pending = <<>> /\ m_are_callbacks_running = FALSE
    /\ pc = [t \in Threads |-> IF t \in Workers THEN "service" ELSE "idle"]
    /\ waitFor = [w \in Workers |-> "notify"]
    /\ callback = [t \in Threads |-> None]
    /\ promise = [p \in Producers |-> "none"]
    /\ m_chainstate_mutex = None
    /\ added = 0

Goto(t, l) == pc' = [pc EXCEPT ![t] = l]

Waiting == {w \in Workers : pc[w] = "wait"}

\* A thread that is woken goes round its loop, unless its time has come: then
\* wait_until says so whatever woke it.
Woken(w) == IF waitFor[w] = "due" THEN "wait" ELSE "service"

\* Thread t goes on to l after newTaskScheduled.notify_one().
NotifyOne(t, l) ==
    IF Waiting = {} THEN Goto(t, l)
    ELSE \E w \in Waiting : pc' = [pc EXCEPT ![t] = l, ![w] = Woken(w)]
-----------------------------------------------------------------------------
\* serviceQueue up to its next wait: for a task to be scheduled, or until the
\* time of the first one.
Service(w) ==
    /\ pc[w] = "service"
    /\ \/ /\ stopRequested
          /\ NotifyOne(w, "exited") /\ UNCHANGED waitFor
       \/ /\ ~stopRequested
          /\ waitFor' = [waitFor EXCEPT ![w] = IF taskQueue = <<>> THEN "notify"
                                               ELSE IF ripe > 0 THEN "due" ELSE "later"]
          /\ Goto(w, "wait")
    /\ UNCHANGED <<taskVars, stopRequested, clientVars>>

\* wait_until returns because its time has come: the first task is taken,
\* whichever it is by now.
TimeOut(w) ==
    /\ pc[w] = "wait" /\ waitFor[w] = "due"
    /\ IF stopRequested \/ taskQueue = <<>>
         THEN Goto(w, "service") /\ UNCHANGED taskVars
         ELSE /\ Goto(w, Head(taskQueue))
              /\ taskQueue' = Tail(taskQueue) /\ ripe' = IF ripe = 0 THEN 0 ELSE ripe - 1
    /\ UNCHANGED <<stopRequested, clientVars, waitFor>>

SpuriousWakeup(w) ==
    /\ pc[w] = "wait" /\ waitFor[w] # "due" /\ Goto(w, "service")
    /\ UNCHANGED <<taskVars, stopRequested, clientVars, waitFor>>

\* Time passes: the next task is due.
Tick ==
    /\ ripe < Len(taskQueue) /\ ripe' = ripe + 1
    /\ waitFor' = [w \in Workers |-> IF waitFor[w] = "later" THEN "due" ELSE waitFor[w]]
    /\ UNCHANGED <<taskQueue, stopRequested, clientVars, pc>>

\* Repeat: the task runs and schedules itself again.
Repeat(w) ==
    /\ pc[w] = "Repeat"
    /\ taskQueue' = Append(taskQueue, "Repeat") /\ NotifyOne(w, "service")
    /\ UNCHANGED <<ripe, stopRequested, clientVars, waitFor>>
-----------------------------------------------------------------------------
\* Where a thread goes on after MaybeScheduleProcessQueue.
Return(t) ==
    CASE t \in Workers -> "service"
      [] t \in Producers -> IF promise[t] # "none" THEN "promised"
                            ELSE IF m_chainstate_mutex = t THEN "connected" ELSE "idle"
      [] t = Main -> "emptying"

MaybeScheduleProcessQueue(t) ==
    /\ pc[t] = "maybe"
    /\ Goto(t, IF m_are_callbacks_running \/ m_callbacks_pending = <<>> THEN Return(t) ELSE "schedule")
    /\ UNCHANGED <<taskVars, stopRequested, clientVars, waitFor>>

\* schedule(ProcessQueue, now): behind the tasks that are due.
Schedule(t) ==
    /\ pc[t] = "schedule"
    /\ taskQueue' = SubSeq(taskQueue, 1, ripe) \o <<"ProcessQueue">>
                      \o SubSeq(taskQueue, ripe + 1, Len(taskQueue))
    /\ ripe' = ripe + 1
    /\ NotifyOne(t, Return(t))
    /\ UNCHANGED <<stopRequested, clientVars, waitFor>>

\* AddToProcessQueue up to the release of the mutex.
AddToProcessQueue(t, p) ==
    /\ m_callbacks_pending' = Append(m_callbacks_pending, [id |-> added, promise |-> p])
    /\ added' = added + 1
    /\ Goto(t, "maybe")
    /\ UNCHANGED <<taskVars, stopRequested, m_are_callbacks_running, callback, waitFor>>

\* MUTANT of ProcessQueue: it does not look whether callbacks are running.
ProcessQueueUnchecked(t) ==
    /\ pc[t] = "ProcessQueue"
    /\ IF m_callbacks_pending = <<>>
         THEN /\ Goto(t, Return(t))
              /\ UNCHANGED <<m_are_callbacks_running, callback, m_callbacks_pending>>
         ELSE /\ m_are_callbacks_running' = TRUE
              /\ callback' = [callback EXCEPT ![t] = Head(m_callbacks_pending)]
              /\ m_callbacks_pending' = Tail(m_callbacks_pending)
              /\ Goto(t, "callback")
    /\ UNCHANGED <<taskVars, stopRequested, promise, added, m_chainstate_mutex, waitFor>>

\* The start of ProcessQueue.
ProcessQueue(t) ==
    /\ pc[t] = "ProcessQueue"
    /\ IF m_are_callbacks_running \/ m_callbacks_pending = <<>>
         THEN /\ Goto(t, Return(t))
              /\ UNCHANGED <<m_are_callbacks_running, callback, m_callbacks_pending>>
         ELSE /\ m_are_callbacks_running' = TRUE
              /\ callback' = [callback EXCEPT ![t] = Head(m_callbacks_pending)]
              /\ m_callbacks_pending' = Tail(m_callbacks_pending)
              /\ Goto(t, "callback")
    /\ UNCHANGED <<taskVars, stopRequested, promise, added, m_chainstate_mutex, waitFor>>

\* The callback runs; the one that SyncWithValidationInterfaceQueue added sets
\* its promise.
RunCallback(t) ==
    /\ pc[t] = "callback" /\ Goto(t, "ran")
    /\ callback' = [callback EXCEPT ![t] = None]
    /\ promise' = [p \in Producers |-> IF callback[t].promise = p THEN "set" ELSE promise[p]]
    /\ UNCHANGED <<taskVars, stopRequested, m_callbacks_pending, m_are_callbacks_running, added, m_chainstate_mutex, waitFor>>

\* MUTANT of CallbacksRan: ProcessQueue does not schedule itself again.
CallbacksRanUnscheduled(t) ==
    /\ pc[t] = "ran"
    /\ m_are_callbacks_running' = FALSE /\ Goto(t, Return(t))
    /\ UNCHANGED <<taskVars, stopRequested, m_callbacks_pending, callback, promise, added, m_chainstate_mutex, waitFor>>

\* ~RAIICallbacksRunning
CallbacksRan(t) ==
    /\ pc[t] = "ran"
    /\ m_are_callbacks_running' = FALSE /\ Goto(t, "maybe")
    /\ UNCHANGED <<taskVars, stopRequested, m_callbacks_pending, callback, promise, added, m_chainstate_mutex, waitFor>>
-----------------------------------------------------------------------------
\* A callback that is not about the chain, a transaction's for one.
TransactionAddedToMempool(p) ==
    /\ pc[p] = "idle" /\ pc[Main] = "idle" /\ p \notin Loaders /\ added < MaxCallbacks
    /\ AddToProcessQueue(p, None) /\ UNCHANGED <<promise, m_chainstate_mutex>>

\* ActivateBestChain: LimitValidationInterfaceQueue waits for the callbacks that
\* are pending if there are too many of them,
LimitValidationInterfaceQueue(p) ==
    /\ pc[p] = "idle" /\ pc[Main] = "idle" /\ added < MaxCallbacks
    /\ m_chainstate_mutex = None /\ m_chainstate_mutex' = p
    /\ IF Len(m_callbacks_pending) > Limit
         THEN /\ AddToProcessQueue(p, p)
              /\ promise' = [promise EXCEPT ![p] = "unset"]
         ELSE /\ Goto(p, "activate")
              /\ UNCHANGED <<taskVars, stopRequested, m_callbacks_pending, m_are_callbacks_running, callback, promise, added, waitFor>>

\* promise.get_future().wait()
FutureWait(p) ==
    /\ pc[p] = "promised" /\ promise[p] = "set"
    /\ promise' = [promise EXCEPT ![p] = "none"] /\ Goto(p, "activate")
    /\ UNCHANGED <<taskVars, stopRequested, m_callbacks_pending, m_are_callbacks_running, callback, added, m_chainstate_mutex, waitFor>>

\* and then a block is connected and its BlockConnected callback added.
BlockConnected(p) ==
    pc[p] = "activate" /\ AddToProcessQueue(p, None) /\ UNCHANGED <<promise, m_chainstate_mutex>>

ActivateBestChainDone(p) ==
    /\ pc[p] = "connected" /\ Goto(p, "idle") /\ m_chainstate_mutex' = None
    /\ UNCHANGED <<taskVars, stopRequested, m_callbacks_pending, m_are_callbacks_running, callback, promise, added, waitFor>>
-----------------------------------------------------------------------------
\* MUTANT of Stop: the waiting threads are not notified.
StopUnnotified ==
    /\ pc[Main] = "idle" /\ \A p \in Producers \ Loaders : pc[p] = "idle"
    /\ stopRequested' = TRUE
    /\ Goto(Main, "joining")
    /\ UNCHANGED <<taskVars, clientVars, waitFor>>

\* Shutdown: when the threads of the RPC server and of CConnman are joined,
\* CScheduler::stop() notifies all service threads
Stop ==
    /\ pc[Main] = "idle" /\ \A p \in Producers \ Loaders : pc[p] = "idle"
    /\ stopRequested' = TRUE
    /\ pc' = [t \in Threads |-> IF t = Main THEN "joining"
                               ELSE IF t \in Waiting THEN Woken(t) ELSE pc[t]]
    /\ UNCHANGED <<taskVars, clientVars, waitFor>>

\* and joins them, then m_load_block; the flush of the chainstate adds one more
\* callback,
Join ==
    /\ pc[Main] = "joining"
    /\ \A w \in Workers : pc[w] = "exited"
    /\ \A p \in Loaders : pc[p] = "idle"
    /\ AddToProcessQueue(Main, None) /\ UNCHANGED <<promise, m_chainstate_mutex>>

\* and EmptyQueue runs what is left on this thread.
EmptyQueue ==
    /\ pc[Main] = "emptying"
    /\ Goto(Main, IF m_callbacks_pending = <<>> THEN "stopped" ELSE "ProcessQueue")
    /\ UNCHANGED <<taskVars, stopRequested, clientVars, waitFor>>

Work(w) == Service(w) \/ TimeOut(w) \/ Repeat(w)
Client(t) == ProcessQueue(t) \/ RunCallback(t) \/ CallbacksRan(t)
             \/ MaybeScheduleProcessQueue(t) \/ Schedule(t)
Activate(p) == FutureWait(p) \/ BlockConnected(p) \/ ActivateBestChainDone(p)

Terminated == pc[Main] = "stopped" /\ UNCHANGED vars

Next ==
    \/ \E w \in Workers : Work(w) \/ SpuriousWakeup(w)
    \/ \E t \in Threads : Client(t)
    \/ \E p \in Producers : \/ TransactionAddedToMempool(p)
                            \/ LimitValidationInterfaceQueue(p) \/ Activate(p)
    \/ Stop \/ Join \/ EmptyQueue
    \/ Tick
    \/ Terminated

\* Every thread that can take a step eventually does; no block need ever be
\* connected, no wakeup be spurious and no shutdown happen.
Fairness ==
    /\ \A w \in Workers : WF_vars(Work(w))
    /\ \A t \in Threads : WF_vars(Client(t))
    /\ \A p \in Producers : WF_vars(Activate(p))
    /\ WF_vars(Join \/ EmptyQueue)

Spec == Init /\ [][Next]_vars /\ Fairness
-----------------------------------------------------------------------------
Labels == {"service", "wait", "exited", "Repeat", "ProcessQueue", "callback", "ran",
           "maybe", "schedule", "idle", "promised", "activate", "connected",
           "joining", "emptying", "stopped"}
Callbacks == [id : Nat, promise : Producers \cup {None}]

TypeOK ==
    /\ taskQueue \in Seq({"ProcessQueue", "Repeat"}) /\ ripe \in 0..Len(taskQueue)
    /\ stopRequested \in BOOLEAN /\ m_are_callbacks_running \in BOOLEAN
    /\ m_callbacks_pending \in Seq(Callbacks) /\ added \in Nat
    /\ pc \in [Threads -> Labels] /\ waitFor \in [Workers -> {"notify", "due", "later"}]
    /\ callback \in [Threads -> Callbacks \cup {None}]
    /\ promise \in [Producers -> {"none", "unset", "set"}]
    /\ m_chainstate_mutex \in Producers \cup {None}

\* SingleThreadedSchedulerClient on any number of service threads is a queue:
\* callbacks run one at a time, in order, once each, and none is left behind,
\* although MaybeScheduleProcessQueue decides before it schedules and although
\* the service threads stop with callbacks pending.
Queue == INSTANCE CallbackQueue WITH
    pending <- m_callbacks_pending,
    running <- {callback[t] : t \in {u \in Threads : pc[u] = "callback"}}

ImplementsQueue == Queue!Spec

\* Shutdown comes to its end: no service thread sleeps through stop(), no
\* thread it joins waits for a callback that nobody runs any more, and it ends
\* with nothing pending.
ShutdownCompletes ==
    (pc[Main] = "joining") ~> (pc[Main] = "stopped" /\ m_callbacks_pending = <<>>)

\* LimitValidationInterfaceQueue returns, and the queue was drained up to it.
SyncReturns == \A p \in Producers : (promise[p] = "unset") ~> (promise[p] = "none")
=============================================================================
