-------------------------- MODULE TxRequestTracker --------------------------
(***************************************************************************)
(* What TxRequestTracker promises its caller, as the naive structure its   *)
(* fuzz test compares it with keeps it: one announcement per peer and      *)
(* transaction, a CANDIDATE, REQUESTED or COMPLETED one.  Which candidate  *)
(* is the best is not recorded but found by GetRequestable at the time it  *)
(* is given.                                                               *)
(***************************************************************************)
EXTENDS Integers, Sequences, SequencesExt

CONSTANTS Peers, TxHashes, Times, ComputePriority

VARIABLES anns,      \* the announcements
          sequence   \* number of the next announcement

avars == <<anns, sequence>>

Init == anns = {} /\ sequence = 0

\* Transactions whose only announcements are COMPLETED are deleted.
Cleanup(A) == {a \in A : \E b \in A : b.txhash = a.txhash /\ b.state # "COMPLETED"}

\* The announcements A with those that satisfy P turned into the given state.
Turn(A, P(_), state) == {IF P(a) THEN [a EXCEPT !.state = state] ELSE a : a \in A}

ReceivedInv(peer, txhash, reqtime) ==
    /\ ~\E a \in anns : a.peer = peer /\ a.txhash = txhash
    /\ anns' = anns \cup {[peer |-> peer, txhash |-> txhash, state |-> "CANDIDATE",
                           time |-> reqtime, sequence |-> sequence]}
    /\ sequence' = sequence + 1

DisconnectedPeer(peer) ==
    /\ anns' = Cleanup({a \in anns : a.peer # peer})
    /\ UNCHANGED sequence

ForgetTxHash(txhash) ==
    /\ anns' = {a \in anns : a.txhash # txhash}
    /\ UNCHANGED sequence

RequestedTx(peer, txhash, expiry) ==
    /\ anns' =
         IF \E a \in anns : a.peer = peer /\ a.txhash = txhash /\ a.state = "CANDIDATE"
           THEN {IF a.txhash # txhash THEN a
                 ELSE IF a.peer = peer THEN [a EXCEPT !.state = "REQUESTED", !.time = expiry]
                 ELSE IF a.state = "REQUESTED" THEN [a EXCEPT !.state = "COMPLETED"]
                 ELSE a : a \in anns}
           ELSE anns
    /\ UNCHANGED sequence

ReceivedResponse(peer, txhash) ==
    /\ anns' = Cleanup(Turn(anns, LAMBDA a : a.peer = peer /\ a.txhash = txhash, "COMPLETED"))
    /\ UNCHANGED sequence

\* a is the announcement of A to request at time now: no request of its
\* transaction is outstanding and no candidate that is due has more priority.
IsSelected(A, a, now) ==
    LET Due(b) == b.txhash = a.txhash /\ b.state = "CANDIDATE" /\ b.time <= now
    IN  /\ Due(a)
        /\ \A b \in A : b.txhash = a.txhash => b.state # "REQUESTED"
        /\ \A b \in A : Due(b) => ComputePriority[b.txhash][b.peer] <= ComputePriority[a.txhash][a.peer]

\* The requests that expire at time now, and the announcements left then.
Expires(a, now) == a.state = "REQUESTED" /\ a.time <= now
ExpiredAt(now) == {<<a.peer, a.txhash>> : a \in {a \in anns : Expires(a, now)}}
LeftAt(now) == Cleanup(Turn(anns, LAMBDA a : Expires(a, now), "COMPLETED"))

\* What GetRequestable returns.
Requestable(peer, now) ==
    LET selected == {a \in LeftAt(now) : a.peer = peer /\ IsSelected(LeftAt(now), a, now)}
        order == SetToSortSeq(selected, LAMBDA a, b : a.sequence < b.sequence)
    IN  [i \in DOMAIN order |-> order[i].txhash]

GetRequestable(now) == anns' = LeftAt(now) /\ UNCHANGED sequence

Next ==
    \/ \E peer \in Peers, txhash \in TxHashes :
         \/ \E t \in Times : ReceivedInv(peer, txhash, t) \/ RequestedTx(peer, txhash, t)
         \/ ReceivedResponse(peer, txhash)
    \/ \E peer \in Peers : DisconnectedPeer(peer)
    \/ \E now \in Times : GetRequestable(now)
    \/ \E txhash \in TxHashes : ForgetTxHash(txhash)

Spec == Init /\ [][Next]_avars
=============================================================================
