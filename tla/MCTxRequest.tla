---------------------------- MODULE MCTxRequest ----------------------------
EXTENDS TxRequest

\* Three peers announce one transaction and one of them a second one: p2 is
\* preferred, and the salt orders the others differently for the two.
MCAnnounced == {<<"p1", "t1">>, <<"p2", "t1">>, <<"p3", "t1">>, <<"p1", "t2">>}
MCComputePriority ==
    "t1" :> ("p1" :> 1 @@ "p2" :> 12 @@ "p3" :> 3) @@
    "t2" :> ("p1" :> 2 @@ "p2" :> 14 @@ "p3" :> 1)
=============================================================================
