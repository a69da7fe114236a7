---------------------------- MODULE MCAuxpowMiner ----------------------------
\* An order of hashes in which neither older nor newer templates come first;
\* one script.
EXTENDS AuxpowMiner

MixedRank ==
    [b \in [prev : 0..MaxHeight, script : Scripts, nonce : 0..MaxCreated, auxpow : BOOLEAN] |->
        b.nonce + 10 * b.prev + (IF b.auxpow THEN 100 ELSE 0) + 1000 * (b.nonce % 2)]
====
