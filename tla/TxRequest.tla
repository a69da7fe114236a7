------------------------------ MODULE TxRequest ------------------------------
(***************************************************************************)
(* TxRequestTracker::Impl (txrequest.cpp): the announcements of            *)
(* transactions by peers, with the best candidate of every transaction     *)
(* maintained by each call instead of searched for, and with per-peer      *)
(* counters kept beside the index.  All calls are made under cs_main, one  *)
(* at a time; the times they carry come from a clock that may be set back. *)
(*                                                                         *)
(* Whether a peer is preferred is fixed before it announces anything, so   *)
(* ComputePriority is given per transaction and peer; the txid/wtxid flag  *)
(* is carried by the code but decides nothing and is left out.             *)
(***************************************************************************)
EXTENDS Integers, FiniteSets, Sequences, SequencesExt

CONSTANTS
    Announced,       \* the pairs <<peer, txhash>> that peers may announce
    ComputePriority, \* txhash -> peer -> priority
    MaxTime,         \* times are 0..MaxTime
    MaxSequence      \* bound on m_current_sequence

Peers == {p[1] : p \in Announced}
TxHashes == {p[2] : p \in Announced}
Times == 0..MaxTime

\* Priorities are salted 63-bit hashes below the preferred bit: two peers do
\* not have the same one.
ASSUME PriorityAssumption ==
    /\ ComputePriority \in [TxHashes -> [Peers -> Nat]]
    /\ \A t \in TxHashes : \A p, q \in Peers :
         ComputePriority[t][p] = ComputePriority[t][q] => p = q

VARIABLES
    m_index,             \* the announcements
    m_peerinfo,          \* peer -> counters, for the peers with announcements
    m_current_sequence

vars == <<m_index, m_peerinfo, m_current_sequence>>

\* enum class State, in its order: the sort order of the ByTxHash index.
State == <<"CANDIDATE_DELAYED", "CANDIDATE_READY", "CANDIDATE_BEST", "REQUESTED", "COMPLETED">>
Ord(state) == CHOOSE i \in DOMAIN State : State[i] = state

IsSelected(ann) == ann.state \in {"CANDIDATE_BEST", "REQUESTED"}
IsWaiting(ann) == ann.state \in {"REQUESTED", "CANDIDATE_DELAYED"}
IsSelectable(ann) == ann.state \in {"CANDIDATE_READY", "CANDIDATE_BEST"}

Priority(ann) == ComputePriority[ann.txhash][ann.peer]

Init == m_index = {} /\ m_peerinfo = <<>> /\ m_current_sequence = 0

\* The two structures a call works on.
Tracker == [index |-> m_index, info |-> m_peerinfo]

Bit(b) == IF b THEN 1 ELSE 0

\* The counters of a peer after one of its announcements lost (d = -1) or
\* got (d = 1) the state it has in ann.
Counted(info, ann, d) ==
    [info EXCEPT ![ann.peer].completed = @ + d * Bit(ann.state = "COMPLETED"),
                 ![ann.peer].requested = @ + d * Bit(ann.state = "REQUESTED")]

Erase(t, ann) ==
    LET info == [Counted(t.info, ann, -1) EXCEPT ![ann.peer].total = @ - 1]
    IN  [index |-> t.index \ {ann},
         info |-> IF info[ann.peer].total = 0
                    THEN [p \in DOMAIN info \ {ann.peer} |-> info[p]]
                    ELSE info]

Modify(t, ann, new) ==
    [index |-> (t.index \ {ann}) \cup {new},
     info |-> Counted(Counted(t.info, ann, -1), new, 1)]

SetState(t, ann, state) == Modify(t, ann, [ann EXCEPT !.state = state])

\* The announcements of the same transaction before and after ann in ByTxHash,
\* sorted by state and, among the READY ones, by priority.
Before(a, b) ==
    \/ Ord(a.state) < Ord(b.state)
    \/ a.state = "CANDIDATE_READY" /\ b.state = "CANDIDATE_READY" /\ Priority(a) < Priority(b)
Predecessors(t, ann) == {a \in t.index : a.txhash = ann.txhash /\ Before(a, ann)}
Successors(t, ann) == {a \in t.index : a.txhash = ann.txhash /\ Before(ann, a)}
Greatest(S) == CHOOSE a \in S : \A b \in S : ~Before(a, b)
Least(S) == CHOOSE a \in S : \A b \in S : ~Before(b, a)

\* MUTANT of PromoteCandidateReady: a best candidate is never replaced.
PromoteNever(t, ann) ==
    LET ready == [ann EXCEPT !.state = "CANDIDATE_READY"]
        t1 == Modify(t, ann, ready)
        after == {a \in Successors(t1, ready) : a.state # "COMPLETED"}
    IN  IF after = {} THEN SetState(t1, ready, "CANDIDATE_BEST") ELSE t1

PromoteCandidateReady(t, ann) ==
    LET ready == [ann EXCEPT !.state = "CANDIDATE_READY"]
        t1 == Modify(t, ann, ready)
        after == Successors(t1, ready)
        next == Least(after)
    IN  IF after = {} \/ next.state = "COMPLETED"
          THEN SetState(t1, ready, "CANDIDATE_BEST")
        ELSE IF next.state = "CANDIDATE_BEST" /\ Priority(ready) > Priority(next)
          THEN SetState(SetState(t1, next, "CANDIDATE_READY"), ready, "CANDIDATE_BEST")
        ELSE t1

ChangeAndReselect(t, ann, state) ==
    LET before == Predecessors(t, ann)
        prev == Greatest(before)
        reselect == IsSelected(ann) /\ before # {} /\ prev.state = "CANDIDATE_READY"
    IN  SetState(IF reselect THEN SetState(t, prev, "CANDIDATE_BEST") ELSE t, ann, state)

\* MUTANT of IsOnlyNonCompleted: candidates that are not ready do not count.
IsOnlyUndelayed(t, ann) ==
    \A a \in t.index \ {ann} :
        a.txhash = ann.txhash => a.state \in {"COMPLETED", "CANDIDATE_DELAYED"}

IsOnlyNonCompleted(t, ann) ==
    \A a \in t.index \ {ann} : a.txhash = ann.txhash => a.state = "COMPLETED"

EraseAll(t, txhash) ==
    FoldSet(LAMBDA ann, u : Erase(u, ann), t, {a \in t.index : a.txhash = txhash})

MakeCompleted(t, ann) ==
    IF ann.state = "COMPLETED" THEN t
    ELSE IF IsOnlyNonCompleted(t, ann) THEN EraseAll(t, ann.txhash)
    ELSE ChangeAndReselect(t, ann, "COMPLETED")

\* The first loop of SetTimePoint: the outcomes <<tracker, expired>> of turning
\* the waiting announcements that are due, from old to new and in any order
\* among equal times, into ready and completed ones.
RECURSIVE Forward(_, _, _)
Forward(t, now, expired) ==
    LET due == {a \in t.index : IsWaiting(a) /\ a.time <= now}
        oldest == {a \in due : \A b \in due : a.time <= b.time}
    IN  IF due = {} THEN {<<t, expired>>}
        ELSE UNION {IF a.state = "CANDIDATE_DELAYED"
                      THEN Forward(PromoteCandidateReady(t, a), now, expired)
                      ELSE Forward(MakeCompleted(t, a), now, expired \cup {<<a.peer, a.txhash>>})
                    : a \in oldest}

\* MUTANT of Backward: SetTimePoint has no second loop.
NeverBackward(t, now) == {t}

\* The second loop: ready announcements that are no longer due, latest first.
RECURSIVE Backward(_, _)
Backward(t, now) ==
    LET early == {a \in t.index : IsSelectable(a) /\ a.time > now}
        latest == {a \in early : \A b \in early : a.time >= b.time}
    IN  IF early = {} THEN {t}
        ELSE UNION {Backward(ChangeAndReselect(t, a, "CANDIDATE_DELAYED"), now) : a \in latest}

\* The outcomes of SetTimePoint.
SetTimePoint(t, now) ==
    UNION {{<<b, f[2]>> : b \in Backward(f[1], now)} : f \in Forward(t, now, {})}

\* The announcement of a peer and a transaction, a set of at most one.
Find(peer, txhash) == {a \in m_index : a.peer = peer /\ a.txhash = txhash}

Become(t) == m_index' = t.index /\ m_peerinfo' = t.info

ReceivedInv(peer, txhash, reqtime) ==
    /\ m_current_sequence < MaxSequence
    /\ IF Find(peer, txhash) # {}
         THEN UNCHANGED <<m_index, m_peerinfo, m_current_sequence>>
         ELSE /\ m_index' = m_index \cup
                   {[peer |-> peer, txhash |-> txhash, state |-> "CANDIDATE_DELAYED",
                     time |-> reqtime, sequence |-> m_current_sequence]}
              /\ m_peerinfo' =
                   [p \in DOMAIN m_peerinfo \cup {peer} |->
                      IF p # peer THEN m_peerinfo[p]
                      ELSE IF p \in DOMAIN m_peerinfo THEN [m_peerinfo[p] EXCEPT !.total = @ + 1]
                      ELSE [total |-> 1, completed |-> 0, requested |-> 0]]
              /\ m_current_sequence' = m_current_sequence + 1

DisconnectedPeer(peer) ==
    LET Drop(ann, t) == LET t1 == MakeCompleted(t, ann)
                            left == {a \in t1.index : a.peer = peer /\ a.txhash = ann.txhash}
                        IN  FoldSet(LAMBDA a, u : Erase(u, a), t1, left)
    IN  /\ Become(FoldSet(Drop, Tracker, {a \in m_index : a.peer = peer}))
        /\ UNCHANGED m_current_sequence

ForgetTxHash(txhash) ==
    /\ Become(EraseAll(Tracker, txhash))
    /\ UNCHANGED m_current_sequence

\* MUTANT of Requestable: in the order of priority instead of announcement.
RequestableByPriority(t, peer) ==
    LET selected == {a \in t.index : a.peer = peer /\ a.state = "CANDIDATE_BEST"}
        order == SetToSortSeq(selected, LAMBDA a, b : Priority(a) > Priority(b))
    IN  [i \in DOMAIN order |-> order[i].txhash]

\* What GetRequestable returns once the time is set.
Requestable(t, peer) ==
    LET selected == {a \in t.index : a.peer = peer /\ a.state = "CANDIDATE_BEST"}
        order == SetToSortSeq(selected, LAMBDA a, b : a.sequence < b.sequence)
    IN  [i \in DOMAIN order |-> order[i].txhash]

\* The effect of GetRequestable, for any peer.
GetRequestable(now) ==
    /\ \E out \in SetTimePoint(Tracker, now) : Become(out[1])
    /\ UNCHANGED m_current_sequence

\* The announcement requested before ann's was: a best candidate is ready
\* again, a request is no longer waited for.
Displace(t, ann) ==
    LET old == {a \in t.index : a.txhash = ann.txhash /\ Ord(a.state) >= Ord("CANDIDATE_BEST")}
        o == Least(old)
    IN  IF ann.state = "CANDIDATE_BEST" \/ old = {} THEN t
        ELSE IF o.state = "CANDIDATE_BEST" THEN SetState(t, o, "CANDIDATE_READY")
        ELSE IF o.state = "REQUESTED" THEN SetState(t, o, "COMPLETED")
        ELSE t

RequestedTx(peer, txhash, expiry) ==
    /\ UNCHANGED m_current_sequence
    /\ \/ /\ \A a \in Find(peer, txhash) : a.state \in {"REQUESTED", "COMPLETED"}
          /\ UNCHANGED <<m_index, m_peerinfo>>
       \/ \E a \in Find(peer, txhash) :
            /\ a.state \notin {"REQUESTED", "COMPLETED"}
            /\ Become(Modify(Displace(Tracker, a), a,
                             [a EXCEPT !.state = "REQUESTED", !.time = expiry]))

ReceivedResponse(peer, txhash) ==
    /\ Become(FoldSet(LAMBDA a, t : MakeCompleted(t, a), Tracker, Find(peer, txhash)))
    /\ UNCHANGED m_current_sequence

Next ==
    \/ \E p \in Announced :
         \/ \E t \in Times : ReceivedInv(p[1], p[2], t) \/ RequestedTx(p[1], p[2], t)
         \/ ReceivedResponse(p[1], p[2])
    \/ \E peer \in Peers : DisconnectedPeer(peer)
    \/ \E now \in Times : GetRequestable(now)
    \/ \E txhash \in TxHashes : ForgetTxHash(txhash)

Spec == Init /\ [][Next]_vars
-----------------------------------------------------------------------------
\* RecomputePeerInfo: the counters as the index gives them.
RecomputePeerInfo ==
    [p \in {a.peer : a \in m_index} |->
        LET Of(P(_)) == Cardinality({a \in m_index : a.peer = p /\ P(a)})
        IN  [total |-> Of(LAMBDA a : TRUE),
             completed |-> Of(LAMBDA a : a.state = "COMPLETED"),
             requested |-> Of(LAMBDA a : a.state = "REQUESTED")]]

\* SanityCheck: the counters are those of the index; no transaction has only
\* COMPLETED announcements, or two that are selected, or a READY one and none
\* selected, or a READY one better than its BEST one; and no peer has
\* announced a transaction twice.
SanityCheck ==
    /\ m_peerinfo = RecomputePeerInfo
    /\ \A a \in m_index :
         LET same == {b \in m_index : b.txhash = a.txhash}
             selected == {b \in same : IsSelected(b)}
         IN  /\ \E b \in same : b.state # "COMPLETED"
             /\ Cardinality(selected) <= 1
             /\ a.state = "CANDIDATE_READY" =>
                  /\ selected # {}
                  /\ \A b \in selected : b.state = "CANDIDATE_BEST" => Priority(b) >= Priority(a)
             /\ \A b \in same : b.peer = a.peer => b = a

\* The tracker implements the naive structure: every call changes which
\* announcements are candidates, requested and completed exactly as it does.
Naive == INSTANCE TxRequestTracker WITH
    anns <- {[a EXCEPT !.state = IF @ \in {"REQUESTED", "COMPLETED"} THEN @ ELSE "CANDIDATE"]
             : a \in m_index},
    sequence <- m_current_sequence

ImplementsNaive == Naive!Spec

\* Whatever time GetRequestable is given, also one before that of an earlier
\* call, it returns the transactions of which the peer is the best candidate
\* that is due, in announcement order, and exactly the expired requests.
AnswersExact ==
    \A now \in Times : \A out \in SetTimePoint(Tracker, now) :
        /\ out[2] = Naive!ExpiredAt(now)
        /\ \A peer \in Peers : Requestable(out[1], peer) = Naive!Requestable(peer, now)

\* PostGetRequestableSanityCheck: after GetRequestable(now) what waits for a
\* time waits for one after now, and no candidate that can be selected has a
\* time after now, also when the clock was set back.
PostGetRequestableSanityCheck ==
    \A now \in Times : \A out \in SetTimePoint(Tracker, now) : \A a \in out[1].index :
        /\ IsWaiting(a) => a.time > now
        /\ IsSelectable(a) => a.time <= now
=============================================================================
