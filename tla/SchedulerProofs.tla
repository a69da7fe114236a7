-------------------------- MODULE SchedulerProofs --------------------------
(***************************************************************************)
(* For any number of service threads and of threads that add callbacks,    *)
(* the SingleThreadedSchedulerClient runs callbacks one at a time and in   *)
(* the order they were added: the safety part of ImplementsQueue.          *)
(***************************************************************************)
EXTENDS Scheduler, TLAPS

\* Where a thread holds m_are_callbacks_running.
Inside == {"callback", "ran"}

\* One thread at most is inside ProcessQueue's loop, and the flag says so.
Exclusive ==
    /\ \A t, u \in Threads : pc[t] \in Inside /\ pc[u] \in Inside => t = u
    /\ m_are_callbacks_running <=> \E t \in Threads : pc[t] \in Inside

IInv == TypeOK /\ Exclusive

\* A step after which the same threads are at the same places inside.
SameInside ==
    /\ pc' \in [Threads -> Labels]
    /\ \A t \in Threads : /\ pc'[t] = "callback" <=> pc[t] = "callback"
                          /\ pc'[t] = "ran" <=> pc[t] = "ran"

LEMMA ThreadsAre == Workers \subseteq Threads /\ Producers \subseteq Threads /\ Main \in Threads
  BY DEF Threads

\* A thread that goes from one place outside to another.
LEMMA GotoOutside ==
    ASSUME TypeOK, NEW t \in Threads, NEW l \in Labels \ Inside, pc[t] \notin Inside, Goto(t, l)
    PROVE  SameInside
  BY DEF TypeOK, Goto, SameInside, Inside

\* The same, with a waiting thread notified.
LEMMA NotifyOutside ==
    ASSUME TypeOK, NEW t \in Threads, NEW l \in Labels \ Inside, pc[t] \notin Inside, NotifyOne(t, l)
    PROVE  SameInside
<1>1. CASE Waiting = {}  BY <1>1, GotoOutside DEF NotifyOne
<1>2. CASE Waiting # {}
  <2>1. PICK w \in Waiting : pc' = [pc EXCEPT ![t] = l, ![w] = Woken(w)]
    BY <1>2 DEF NotifyOne
  <2>2. w \in Threads /\ pc[w] = "wait"  BY <2>1, ThreadsAre DEF Waiting
  <2>3. Woken(w) \in {"wait", "service"}  BY DEF Woken
  <2> QED  BY <2>1, <2>2, <2>3 DEF TypeOK, SameInside, Inside, Labels
<1> QED  BY <1>1, <1>2

LEMMA ReturnOutside ==
    ASSUME NEW t \in Threads
    PROVE  Return(t) \in Labels \ Inside
<1>1. t \in Workers \/ t \in Producers \/ t = Main  BY DEF Threads
<1> QED  BY <1>1, ThreadAssumption DEF Return, Labels, Inside

\* Such steps keep the flag right, and are steps of the queue: nothing, or a
\* callback that is added.
LEMMA OutsideStep ==
    ASSUME IInv, SameInside, UNCHANGED <<m_are_callbacks_running, callback>>,
           \/ UNCHANGED m_callbacks_pending
           \/ \E c \in Callbacks : m_callbacks_pending' = Append(m_callbacks_pending, c)
    PROVE  Exclusive' /\ [Queue!Next]_(Queue!qvars)
<1>1. Exclusive'  BY DEF IInv, Exclusive, SameInside, Inside
<1> DEFINE running == {callback[t] : t \in {u \in Threads : pc[u] = "callback"}}
<1>2. running' = running
  <2>1. {u \in Threads : pc'[u] = "callback"} = {u \in Threads : pc[u] = "callback"}
    BY DEF SameInside
  <2> QED  BY <2>1
<1>3. CASE UNCHANGED m_callbacks_pending  BY <1>1, <1>2, <1>3 DEF Queue!qvars
<1>4. ASSUME NEW c \in Callbacks, m_callbacks_pending' = Append(m_callbacks_pending, c)
      PROVE  Queue!AddToProcessQueue
  <2>1. m_callbacks_pending \in Seq(Callbacks)  BY DEF IInv, TypeOK
  <2>2. /\ Append(m_callbacks_pending, c) # <<>>
        /\ LET a == Append(m_callbacks_pending, c) IN SubSeq(a, 1, Len(a) - 1) = m_callbacks_pending
    BY <2>1
  <2> QED  BY Zenon, <1>2, <1>4, <2>2 DEF Queue!AddToProcessQueue
<1> QED  BY <1>1, <1>3, <1>4 DEF Queue!Next
-----------------------------------------------------------------------------
(* The steps of each thread. *)

\* A step that only moves threads outside and touches neither queue of callbacks.
LEMMA MoveStep ==
    ASSUME IInv, SameInside, UNCHANGED clientVars,
           taskQueue' \in Seq({"ProcessQueue", "Repeat"}), ripe' \in 0..Len(taskQueue'),
           stopRequested' \in BOOLEAN, waitFor' \in [Workers -> {"notify", "due", "later"}]
    PROVE  IInv' /\ [Queue!Next]_(Queue!qvars)
<1>1. TypeOK'  BY DEF IInv, TypeOK, SameInside, clientVars
<1>2. Exclusive' /\ [Queue!Next]_(Queue!qvars)  BY OutsideStep DEF clientVars
<1> QED  BY <1>1, <1>2 DEF IInv

\* serviceQueue: no task is taken but those that were scheduled.
LEMMA WorkStep ==
    ASSUME IInv, NEW w \in Workers, Work(w) \/ SpuriousWakeup(w)
    PROVE  IInv' /\ [Queue!Next]_(Queue!qvars)
<1> w \in Threads  BY ThreadsAre
<1> TypeOK  BY DEF IInv
<1>1. CASE Service(w)
  <2>1. pc[w] \notin Inside  BY <1>1 DEF Service, Inside
  <2>2. SameInside
    <3>1. CASE NotifyOne(w, "exited")  BY <2>1, <3>1, NotifyOutside DEF Labels, Inside
    <3>2. CASE Goto(w, "wait")  BY <2>1, <3>2, GotoOutside DEF Labels, Inside
    <3> QED  BY <1>1, <3>1, <3>2 DEF Service
  <2>3. waitFor' \in [Workers -> {"notify", "due", "later"}]  BY <1>1 DEF Service, TypeOK
  <2> QED  BY <1>1, <2>2, <2>3, MoveStep DEF Service, TypeOK, taskVars
<1>2. CASE TimeOut(w)
  <2>1. pc[w] \notin Inside  BY <1>2 DEF TimeOut, Inside
  <2>2. CASE stopRequested \/ taskQueue = <<>>
    <3>1. SameInside  BY <1>2, <2>1, <2>2, GotoOutside DEF TimeOut, Labels, Inside
    <3> QED  BY <1>2, <2>2, <3>1, MoveStep DEF TimeOut, TypeOK, taskVars
  <2>3. CASE ~stopRequested /\ taskQueue # <<>>
    <3>1. /\ Head(taskQueue) \in {"ProcessQueue", "Repeat"}
          /\ Tail(taskQueue) \in Seq({"ProcessQueue", "Repeat"})
          /\ Len(Tail(taskQueue)) = Len(taskQueue) - 1 /\ Len(taskQueue) \in Nat
      BY <2>3 DEF TypeOK
    <3>2. Head(taskQueue) \in Labels \ Inside  BY <3>1 DEF Labels, Inside
    <3>3. /\ Goto(w, Head(taskQueue))
          /\ taskQueue' = Tail(taskQueue) /\ ripe' = IF ripe = 0 THEN 0 ELSE ripe - 1
      BY <1>2, <2>3 DEF TimeOut
    <3>4. SameInside  BY <2>1, <3>2, <3>3, GotoOutside
    <3>5. ripe' \in 0..Len(taskQueue')
      <4>1. ripe \in 0..Len(taskQueue)  BY DEF TypeOK
      <4>2. Len(taskQueue) # 0  BY <2>3 DEF TypeOK
      <4> QED  BY <3>1, <3>3, <4>1, <4>2
    <3> QED  BY <1>2, <3>1, <3>3, <3>4, <3>5, MoveStep DEF TimeOut, TypeOK
  <2> QED  BY <2>2, <2>3
<1>3. CASE SpuriousWakeup(w)
  <2>1. SameInside  BY <1>3, GotoOutside DEF SpuriousWakeup, Labels, Inside
  <2> QED  BY <1>3, <2>1, MoveStep DEF SpuriousWakeup, TypeOK, taskVars
<1>4. CASE Repeat(w)
  <2>1. SameInside  BY <1>4, NotifyOutside DEF Repeat, Labels, Inside
  <2>2. /\ Append(taskQueue, "Repeat") \in Seq({"ProcessQueue", "Repeat"})
        /\ Len(Append(taskQueue, "Repeat")) = Len(taskQueue) + 1 /\ Len(taskQueue) \in Nat
    BY DEF TypeOK
  <2>3. taskQueue' = Append(taskQueue, "Repeat") /\ ripe' = ripe /\ ripe \in 0..Len(taskQueue)
    BY <1>4 DEF Repeat, TypeOK
  <2>4. ripe' \in 0..Len(taskQueue')  BY <2>2, <2>3
  <2> QED  BY <1>4, <2>1, <2>2, <2>3, <2>4, MoveStep DEF Repeat, TypeOK
<1> QED  BY <1>1, <1>2, <1>3, <1>4 DEF Work

\* ProcessQueue takes a callback only when no thread is inside: the first one of
\* the queue begins.
LEMMA ProcessQueueStep ==
    ASSUME IInv, NEW t \in Threads, ProcessQueue(t)
    PROVE  IInv' /\ [Queue!Next]_(Queue!qvars)
<1> DEFINE c == Head(m_callbacks_pending)
<1> TypeOK  BY DEF IInv
<1>1. CASE m_are_callbacks_running \/ m_callbacks_pending = <<>>
  <2>1. SameInside  BY <1>1, GotoOutside, ReturnOutside DEF ProcessQueue, Inside
  <2>2. UNCHANGED clientVars  BY <1>1 DEF ProcessQueue, clientVars
  <2> QED  BY <2>1, <2>2, MoveStep DEF ProcessQueue, TypeOK, taskVars
<1>2. CASE ~m_are_callbacks_running /\ m_callbacks_pending # <<>>
  <2>1. /\ m_are_callbacks_running' = TRUE /\ callback' = [callback EXCEPT ![t] = c]
        /\ m_callbacks_pending' = Tail(m_callbacks_pending) /\ Goto(t, "callback")
        /\ UNCHANGED <<taskVars, stopRequested, promise, added, m_chainstate_mutex, waitFor>>
    BY <1>2 DEF ProcessQueue
  <2>2. c \in Callbacks /\ Tail(m_callbacks_pending) \in Seq(Callbacks)
    BY <1>2 DEF TypeOK
  <2>3. pc' = [pc EXCEPT ![t] = "callback"] /\ pc' \in [Threads -> Labels]
    BY <2>1 DEF Goto, TypeOK, Labels
  <2>4. callback' \in [Threads -> Callbacks \cup {None}] /\ callback'[t] = c
    BY <2>1, <2>2 DEF TypeOK
  <2>5. TypeOK'  BY <2>1, <2>2, <2>3, <2>4 DEF TypeOK, taskVars
  <2>6. \A u \in Threads : pc[u] \notin Inside  BY <1>2 DEF IInv, Exclusive
  <2>7. \A u \in Threads : u # t => pc'[u] \notin Inside  BY <2>3, <2>6 DEF TypeOK
  <2>8. pc'[t] = "callback"  BY <2>3 DEF TypeOK
  <2>9. Exclusive'  BY <2>1, <2>7, <2>8 DEF Exclusive, Inside
  <2>10. {u \in Threads : pc[u] = "callback"} = {}  BY <2>6 DEF Inside
  <2>11. {u \in Threads : pc'[u] = "callback"} = {t}  BY <2>7, <2>8 DEF Inside
  <2>12. Queue!Begin  BY <1>2, <2>1, <2>4, <2>10, <2>11 DEF Queue!Begin
  <2> QED  BY <2>5, <2>9, <2>12 DEF IInv, Queue!Next
<1> QED  BY <1>1, <1>2

\* The callback ends; its thread is the only one inside.
LEMMA RunCallbackStep ==
    ASSUME IInv, NEW t \in Threads, RunCallback(t)
    PROVE  IInv' /\ [Queue!Next]_(Queue!qvars)
<1> TypeOK  BY DEF IInv
<1>1. pc[t] = "callback" /\ pc' = [pc EXCEPT ![t] = "ran"] /\ pc' \in [Threads -> Labels]
  BY DEF RunCallback, Goto, TypeOK, Labels
<1>2. callback' \in [Threads -> Callbacks \cup {None}]  BY DEF RunCallback, TypeOK
<1>3. promise' \in [Producers -> {"none", "unset", "set"}]  BY DEF RunCallback, TypeOK
<1>4. TypeOK'  BY <1>1, <1>2, <1>3 DEF RunCallback, TypeOK, taskVars
<1>5. \A u \in Threads : u # t => pc'[u] = pc[u] /\ pc[u] \notin Inside
  BY <1>1 DEF IInv, Exclusive, Inside, TypeOK
<1>6. pc'[t] = "ran"  BY <1>1 DEF TypeOK
<1>7. m_are_callbacks_running /\ m_are_callbacks_running' = m_are_callbacks_running
  BY <1>1 DEF RunCallback, IInv, Exclusive, Inside
<1>8. Exclusive'  BY <1>5, <1>6, <1>7 DEF Exclusive, Inside
<1>9. {u \in Threads : pc[u] = "callback"} = {t}  BY <1>1, <1>5 DEF Inside
<1>10. {u \in Threads : pc'[u] = "callback"} = {}  BY <1>5, <1>6 DEF Inside
<1>11. Queue!End  BY <1>9, <1>10 DEF Queue!End, RunCallback
<1> QED  BY <1>4, <1>8, <1>11 DEF IInv, Queue!Next

\* The flag is taken back by the thread that set it.
LEMMA CallbacksRanStep ==
    ASSUME IInv, NEW t \in Threads, CallbacksRan(t)
    PROVE  IInv' /\ [Queue!Next]_(Queue!qvars)
<1> TypeOK  BY DEF IInv
<1>1. pc[t] = "ran" /\ pc' = [pc EXCEPT ![t] = "maybe"] /\ pc' \in [Threads -> Labels]
  BY DEF CallbacksRan, Goto, TypeOK, Labels
<1>2. TypeOK'  BY Zenon, <1>1 DEF CallbacksRan, TypeOK, taskVars
<1>3. \A u \in Threads : u # t => pc'[u] = pc[u] /\ pc[u] \notin Inside
  BY <1>1 DEF IInv, Exclusive, Inside, TypeOK
<1>4. pc'[t] = "maybe"  BY <1>1 DEF TypeOK
<1>5. Exclusive'  BY <1>3, <1>4 DEF Exclusive, Inside, CallbacksRan
<1>6. {u \in Threads : pc[u] = "callback"} = {}  BY <1>1, <1>3 DEF Inside
<1>7. {u \in Threads : pc'[u] = "callback"} = {}  BY <1>3, <1>4 DEF Inside
<1>8. UNCHANGED Queue!qvars  BY <1>6, <1>7 DEF Queue!qvars, CallbacksRan
<1> QED  BY <1>2, <1>5, <1>8 DEF IInv

\* MaybeScheduleProcessQueue and schedule only decide where ProcessQueue runs.
LEMMA ScheduleStep ==
    ASSUME IInv, NEW t \in Threads, MaybeScheduleProcessQueue(t) \/ Schedule(t)
    PROVE  IInv' /\ [Queue!Next]_(Queue!qvars)
<1> TypeOK  BY DEF IInv
<1> DEFINE Tasks == {"ProcessQueue", "Repeat"}
<1>1. CASE MaybeScheduleProcessQueue(t)
  <2>1. SameInside
    <3>1. pc[t] \notin Inside  BY <1>1 DEF MaybeScheduleProcessQueue, Inside
    <3>2. "schedule" \in Labels \ Inside  BY DEF Labels, Inside
    <3>3. PICK l \in Labels \ Inside : Goto(t, l)
      BY <1>1, <3>2, ReturnOutside DEF MaybeScheduleProcessQueue
    <3> QED  BY <3>1, <3>3, GotoOutside
  <2> QED  BY <1>1, <2>1, MoveStep DEF MaybeScheduleProcessQueue, TypeOK, taskVars
<1>2. CASE Schedule(t)
  <2>1. SameInside  BY Zenon, <1>2, NotifyOutside, ReturnOutside DEF Schedule, Inside
  <2>2. taskQueue \in Seq(Tasks) /\ ripe \in 0..Len(taskQueue) /\ Len(taskQueue) \in Nat
    BY DEF TypeOK
  <2>3. /\ SubSeq(taskQueue, 1, ripe) \in Seq(Tasks) /\ Len(SubSeq(taskQueue, 1, ripe)) = ripe
        /\ SubSeq(taskQueue, ripe + 1, Len(taskQueue)) \in Seq(Tasks)
        /\ Len(SubSeq(taskQueue, ripe + 1, Len(taskQueue))) = Len(taskQueue) - ripe
    <3> HIDE DEF Tasks
    <3> QED  BY <2>2
  <2>4. <<"ProcessQueue">> \in Seq(Tasks) /\ Len(<<"ProcessQueue">>) = 1  OBVIOUS
  <2>5. taskQueue' \in Seq(Tasks) /\ Len(taskQueue') = Len(taskQueue) + 1
    <3> DEFINE a == SubSeq(taskQueue, 1, ripe) \o <<"ProcessQueue">>
               b == SubSeq(taskQueue, ripe + 1, Len(taskQueue))
    <3> HIDE DEF Tasks
    <3>1. a \in Seq(Tasks) /\ Len(a) = ripe + 1  BY <2>3, <2>4
    <3>2. b \in Seq(Tasks) /\ Len(b) = Len(taskQueue) - ripe  BY <2>3
    <3>3. taskQueue' = a \o b  BY <1>2, Zenon DEF Schedule
    <3> HIDE DEF a, b
    <3>4. a \o b \in Seq(Tasks) /\ Len(a \o b) = Len(a) + Len(b)  BY <3>1, <3>2
    <3>5. Len(a \o b) = Len(taskQueue) + 1  BY <2>2, <3>1, <3>2, <3>4
    <3> QED  BY <3>3, <3>4, <3>5, Zenon
  <2>6. ripe' \in 0..Len(taskQueue')
    <3>1. ripe' = ripe + 1  BY <1>2 DEF Schedule
    <3> QED  BY <2>2, <2>5, <3>1
  <2> QED  BY <1>2, <2>1, <2>5, <2>6, MoveStep DEF Schedule, TypeOK
<1> QED  BY <1>1, <1>2

\* A callback is added behind the others, by a thread outside.
LEMMA AddStep ==
    ASSUME IInv, NEW t \in Threads, NEW p \in Producers \cup {None},
           pc[t] \notin Inside, AddToProcessQueue(t, p),
           promise' \in [Producers -> {"none", "unset", "set"}],
           m_chainstate_mutex' \in Producers \cup {None}
    PROVE  IInv' /\ [Queue!Next]_(Queue!qvars)
<1> DEFINE c == [id |-> added, promise |-> p]
<1> TypeOK  BY DEF IInv
<1>1. SameInside  BY GotoOutside DEF AddToProcessQueue, Labels, Inside
<1>2. c \in Callbacks /\ m_callbacks_pending' = Append(m_callbacks_pending, c)
  BY DEF AddToProcessQueue, Callbacks, TypeOK
<1>3. m_callbacks_pending' \in Seq(Callbacks)  BY <1>2 DEF TypeOK
<1>4. TypeOK'
  <2>1. UNCHANGED <<taskQueue, ripe, stopRequested, m_are_callbacks_running, callback, waitFor>>
    BY DEF AddToProcessQueue, taskVars
  <2>2. added' \in Nat  BY DEF AddToProcessQueue, TypeOK
  <2> QED  BY <1>1, <1>3, <2>1, <2>2 DEF TypeOK, SameInside
<1> HIDE DEF c
<1>5. Exclusive' /\ [Queue!Next]_(Queue!qvars)
  BY <1>1, <1>2, OutsideStep DEF AddToProcessQueue
<1> QED  BY <1>4, <1>5 DEF IInv

\* The threads that add callbacks.
LEMMA ProducerStep ==
    ASSUME IInv, NEW p \in Producers,
           TransactionAddedToMempool(p) \/ LimitValidationInterfaceQueue(p) \/ Activate(p)
    PROVE  IInv' /\ [Queue!Next]_(Queue!qvars)
<1> TypeOK  BY DEF IInv
<1> p \in Threads  BY ThreadsAre
<1>1. CASE TransactionAddedToMempool(p)
  BY <1>1, AddStep DEF TransactionAddedToMempool, Inside, TypeOK
<1>2. CASE LimitValidationInterfaceQueue(p)
  <2>1. pc[p] \notin Inside /\ m_chainstate_mutex' \in Producers \cup {None}
    BY <1>2 DEF LimitValidationInterfaceQueue, Inside
  <2>2. CASE Len(m_callbacks_pending) > Limit
    <3>1. promise' \in [Producers -> {"none", "unset", "set"}]
      BY <1>2, <2>2 DEF LimitValidationInterfaceQueue, TypeOK
    <3> QED  BY <1>2, <2>1, <2>2, <3>1, AddStep DEF LimitValidationInterfaceQueue
  <2>3. CASE ~(Len(m_callbacks_pending) > Limit)
    <3>1. SameInside  BY <1>2, <2>1, <2>3, GotoOutside DEF LimitValidationInterfaceQueue, Labels, Inside
    <3>2. UNCHANGED <<taskVars, stopRequested, m_callbacks_pending, m_are_callbacks_running, callback, promise, added, waitFor>>
      BY <1>2, <2>3 DEF LimitValidationInterfaceQueue
    <3>3. TypeOK'  BY <2>1, <3>1, <3>2 DEF TypeOK, SameInside, taskVars
    <3>4. Exclusive' /\ [Queue!Next]_(Queue!qvars)  BY <3>1, <3>2, OutsideStep
    <3> QED  BY <3>3, <3>4 DEF IInv
  <2> QED  BY <2>2, <2>3
<1>3. CASE FutureWait(p)
  <2>1. SameInside  BY <1>3, GotoOutside DEF FutureWait, Labels, Inside
  <2>2. TypeOK'  BY <1>3, <2>1 DEF FutureWait, TypeOK, SameInside, taskVars
  <2>3. Exclusive' /\ [Queue!Next]_(Queue!qvars)  BY <1>3, <2>1, OutsideStep DEF FutureWait
  <2> QED  BY <2>2, <2>3 DEF IInv
<1>4. CASE BlockConnected(p)
  BY <1>4, AddStep DEF BlockConnected, Inside, TypeOK
<1>5. CASE ActivateBestChainDone(p)
  <2>1. SameInside  BY <1>5, GotoOutside DEF ActivateBestChainDone, Labels, Inside
  <2>2. TypeOK'  BY <1>5, <2>1 DEF ActivateBestChainDone, TypeOK, SameInside, taskVars
  <2>3. Exclusive' /\ [Queue!Next]_(Queue!qvars)  BY <1>5, <2>1, OutsideStep DEF ActivateBestChainDone
  <2> QED  BY <2>2, <2>3 DEF IInv
<1> QED  BY <1>1, <1>2, <1>3, <1>4, <1>5 DEF Activate

\* Shutdown, and the clock.
LEMMA ShutdownStep ==
    ASSUME IInv, Stop \/ Join \/ EmptyQueue \/ Tick
    PROVE  IInv' /\ [Queue!Next]_(Queue!qvars)
<1> TypeOK  BY DEF IInv
<1> Main \in Threads  BY ThreadsAre
<1>1. CASE Stop
  <2>1. \A w : Woken(w) \in {"wait", "service"}  BY DEF Woken
  <2>2. SameInside  BY <1>1, <2>1 DEF Stop, Waiting, TypeOK, SameInside, Labels
  <2> QED  BY <1>1, <2>2, MoveStep DEF Stop, TypeOK, taskVars
<1>2. CASE Join
  BY <1>2, AddStep DEF Join, Inside, TypeOK
<1>3. CASE EmptyQueue
  <2>1. SameInside
    <3>1. pc[Main] \notin Inside  BY <1>3 DEF EmptyQueue, Inside
    <3>2. PICK l \in Labels \ Inside : Goto(Main, l)  BY <1>3 DEF EmptyQueue, Labels, Inside
    <3> QED  BY <3>1, <3>2, GotoOutside
  <2> QED  BY <1>3, <2>1, MoveStep DEF EmptyQueue, TypeOK, taskVars
<1>4. CASE Tick
  <2>1. SameInside  BY <1>4 DEF Tick, SameInside, TypeOK
  <2>2. Len(taskQueue) \in Nat  BY DEF TypeOK
  <2>3. ripe' \in 0..Len(taskQueue')  BY <1>4, <2>2 DEF Tick, TypeOK
  <2>4. waitFor' \in [Workers -> {"notify", "due", "later"}]  BY <1>4 DEF Tick, TypeOK
  <2> QED  BY <1>4, <2>1, <2>3, <2>4, MoveStep DEF Tick, TypeOK
<1> QED  BY <1>1, <1>2, <1>3, <1>4
-----------------------------------------------------------------------------
LEMMA InitIInv == Init => IInv /\ Queue!Init
<1> SUFFICES ASSUME Init PROVE IInv /\ Queue!Init  OBVIOUS
<1>1. pc \in [Threads -> Labels] /\ \A t \in Threads : pc[t] \notin Inside
  BY DEF Init, Labels, Inside
<1>2. TypeOK
  <2>1. taskQueue \in Seq({"ProcessQueue", "Repeat"}) /\ ripe \in 0..Len(taskQueue)
    BY DEF Init
  <2>2. m_callbacks_pending \in Seq(Callbacks)  BY DEF Init
  <2>3. /\ waitFor \in [Workers -> {"notify", "due", "later"}]
        /\ callback \in [Threads -> Callbacks \cup {None}]
        /\ promise \in [Producers -> {"none", "unset", "set"}]
    BY DEF Init
  <2> QED  BY Zenon, <1>1, <2>1, <2>2, <2>3 DEF Init, TypeOK
<1>3. Exclusive  BY <1>1 DEF Init, Exclusive
<1>4. {u \in Threads : pc[u] = "callback"} = {}  BY <1>1 DEF Inside
<1>5. Queue!Init  BY Zenon, <1>4 DEF Init, Queue!Init
<1> QED  BY <1>2, <1>3, <1>5 DEF IInv

LEMMA NextIInv == IInv /\ [Next]_vars => IInv' /\ [Queue!Next]_(Queue!qvars)
<1> SUFFICES ASSUME IInv, [Next]_vars PROVE IInv' /\ [Queue!Next]_(Queue!qvars)  OBVIOUS
<1>1. CASE UNCHANGED vars
  <2>1. TypeOK'  BY <1>1 DEF IInv, TypeOK, vars, taskVars, clientVars
  <2>2. Exclusive'  BY <1>1 DEF IInv, Exclusive, vars, clientVars
  <2>3. UNCHANGED Queue!qvars  BY <1>1 DEF Queue!qvars, vars, clientVars
  <2> QED  BY <2>1, <2>2, <2>3 DEF IInv
<1>2. ASSUME NEW t \in Threads, Client(t) PROVE IInv' /\ [Queue!Next]_(Queue!qvars)
  BY <1>2, ProcessQueueStep, RunCallbackStep, CallbacksRanStep, ScheduleStep DEF Client
<1> QED  BY <1>1, <1>2, WorkStep, ProducerStep, ShutdownStep DEF Next, Terminated

\* At most one thread is inside ProcessQueue's loop, and m_are_callbacks_running is
\* set exactly while one is.
THEOREM OneAtATime == Spec => []Exclusive
<1>1. IInv => Exclusive  BY DEF IInv
<1>2. IInv /\ [Next]_vars => IInv'  BY NextIInv
<1> QED  BY <1>1, <1>2, InitIInv, PTL DEF Spec

\* The client queue on any number of threads behaves like a queue: callbacks run
\* one at a time, in the order AddToProcessQueue added them, each once.
THEOREM IsAQueue == Spec => Queue!Init /\ [][Queue!Next]_(Queue!qvars)
<1>1. IInv /\ [Next]_vars => IInv'  BY NextIInv
<1>2. IInv /\ [Next]_vars => [Queue!Next]_(Queue!qvars)  BY NextIInv
<1> QED  BY <1>1, <1>2, InitIInv, PTL DEF Spec
=============================================================================
