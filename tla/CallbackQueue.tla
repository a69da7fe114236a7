--------------------------- MODULE CallbackQueue ---------------------------
(***************************************************************************)
(* What a SingleThreadedSchedulerClient promises: callbacks are run one at *)
(* a time, in the order they were added, each of them once, and every one  *)
(* of them eventually.                                                     *)
(***************************************************************************)
EXTENDS Integers, Sequences

VARIABLES pending,  \* callbacks that wait, in order
          running   \* the callback that is being run, if any

qvars == <<pending, running>>

Init == pending = <<>> /\ running = {}

\* Any callback may be added.
AddToProcessQueue ==
    pending' # <<>> /\ SubSeq(pending', 1, Len(pending') - 1) = pending /\ UNCHANGED running

Begin ==
    /\ running = {} /\ pending # <<>>
    /\ running' = {Head(pending)} /\ pending' = Tail(pending)

End == running # {} /\ running' = {} /\ UNCHANGED pending

Next == AddToProcessQueue \/ Begin \/ End

Fairness == WF_qvars(Begin) /\ WF_qvars(End)

Spec == Init /\ [][Next]_qvars /\ Fairness
=============================================================================
