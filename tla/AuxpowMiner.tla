----------------------------- MODULE AuxpowMiner -----------------------------
(***************************************************************************)
(* Merged mining over RPC (rpc/auxpow_miner.cpp): createauxblock hands out *)
(* block templates and keeps them in g_auxpow_blocks, submitauxblock finds *)
(* one by its hash, adds the AuxPoW payload and processes it.  Calls run   *)
(* on several RPC worker threads; g_auxpow_mutex guards only the cache,    *)
(* cs_main only the chain, and neither is held for a whole call.           *)
(*                                                                         *)
(* The active chain is its height: it grows by a block of a peer or by a   *)
(* submitted block that builds on the tip, and is not reorganised.  The    *)
(* hash of a template is the template itself.                              *)
(***************************************************************************)
EXTENDS Integers, FiniteSets, Sequences

CONSTANTS
    Threads,             \* RPC worker threads
    Scripts,             \* payout scripts
    None,
    Rank,                \* the order of template hashes in std::map<uint256, ...>
    MaxAuxpowBlockCache, \* MAX_AUXPOW_BLOCK_CACHE
    AuxpowStartHeight,   \* nAuxpowStartHeight
    MaxHeight,           \* bound on the chain
    MaxCreated           \* bound on the templates handed out

\* A template: the height of its parent, what its coinbase pays, the extra
\* nonce, and the AuxPoW bit of its version.
Template == [prev : 0..MaxHeight, script : Scripts, nonce : 0..MaxCreated, auxpow : BOOLEAN]

ASSUME ParameterAssumption ==
    /\ MaxAuxpowBlockCache \in Nat \ {0} /\ AuxpowStartHeight \in Nat
    /\ MaxHeight \in Nat /\ MaxCreated \in Nat
    /\ Rank \in [Template -> Int]
    /\ \A a, b \in Template : Rank[a] = Rank[b] => a = b

VARIABLES
    blocks,      \* g_auxpow_blocks
    prevHash,    \* g_auxpow_prev_hash
    extraNonce,  \* g_auxpow_extra_nonce
    tip,         \* height of the active chain
    stored,      \* submitted blocks in the index that are not connected
    connected,   \* submitted blocks that were connected
    refused,     \* submitted blocks marked invalid
    returned,    \* the templates createauxblock has returned, in order
    thread       \* each thread: the locals of its call, and the result of the last one

cacheVars == <<blocks, prevHash, extraNonce>>
chainVars == <<tip, stored, connected, refused>>
vars == <<cacheVars, chainVars, returned, thread>>

\* found and valid are the fields of the submitauxblock_StateCatcher.
Free(result) == [pc |-> "free", hash |-> None, good |-> FALSE, newBlock |-> FALSE,
                 accepted |-> FALSE, found |-> FALSE, valid |-> FALSE, result |-> result]

\* A call that has its block.
Begun(pc, hash, good) ==
    [pc |-> pc, hash |-> hash, good |-> good, newBlock |-> FALSE,
     accepted |-> FALSE, found |-> FALSE, valid |-> FALSE, result |-> "none"]

Init ==
    /\ blocks = {} /\ prevHash = None /\ extraNonce = 0
    /\ tip = 0 /\ stored = {} /\ connected = {} /\ refused = {}
    /\ returned = <<>>
    /\ thread = [t \in Threads |-> Free("none")]

\* AuxMiningCheck of a node that has peers and is synced.
AuxMiningCheck == tip + 1 >= AuxpowStartHeight

-----------------------------------------------------------------------------
(* createauxblock, and getauxblock without arguments.                      *)

Creating == {t \in Threads : thread[t].pc = "insert"}

\* BlockAssembler::CreateNewBlock reads the tip under cs_main and releases it.
CreateNewBlock(t, script) ==
    /\ thread[t].pc = "free" /\ AuxMiningCheck
    /\ Len(returned) + Cardinality(Creating) < MaxCreated
    /\ thread' = [thread EXCEPT ![t] =
           Begun("insert", [prev |-> tip, script |-> script, nonce |-> 0, auxpow |-> FALSE], FALSE)]
    /\ UNCHANGED <<cacheVars, chainVars, returned>>

\* MUTANT of Finished: the version bit is left to the submitter.
FinishedUnflagged(b, nonce) == [b EXCEPT !.nonce = nonce]

\* The template with its extra nonce and its AuxPoW bit.
Finished(b, nonce) == [b EXCEPT !.nonce = nonce, !.auxpow = TRUE]

\* The map without its first element, as long as it is too large.
Evicted(S) == IF Cardinality(S) > MaxAuxpowBlockCache
              THEN {b \in S : \E c \in S : Rank[c] < Rank[b]} ELSE S

\* MUTANT of KeptFor: the templates of the old tip are kept.
KeptForAll(prev) == blocks

\* The cached templates that survive a template on prev.
KeptFor(prev) == IF prevHash = prev THEN blocks ELSE {}

\* The rest of AuxMiningCreateBlock, under g_auxpow_mutex.
CacheTemplate(t) ==
    /\ thread[t].pc = "insert"
    /\ LET prev == thread[t].hash.prev
           nonce == IF prevHash = prev THEN extraNonce + 1 ELSE 1
           block == Finished(thread[t].hash, nonce)
       IN  /\ prevHash' = prev
           /\ extraNonce' = nonce
           /\ blocks' = Evicted(KeptFor(prev) \cup {block})
           /\ returned' = Append(returned, block)
    /\ thread' = [thread EXCEPT ![t] = Free("created")]
    /\ UNCHANGED chainVars

-----------------------------------------------------------------------------
(* submitauxblock, and getauxblock with a hash and a payload.              *)

\* The hash is looked up and the block copied under g_auxpow_mutex; good says
\* whether the payload proves the work.
FindTemplate(t, hash, good) ==
    /\ thread[t].pc = "free" /\ AuxMiningCheck
    /\ thread' = [thread EXCEPT ![t] =
           IF hash \in blocks THEN Begun("check", hash, good) ELSE Free("block hash unknown")]
    /\ UNCHANGED <<cacheVars, chainVars, returned>>

\* SetAuxpow sets the version bit, so the copy's hash must be looked at; then,
\* under cs_main, the index is, and the StateCatcher is registered.
CheckDuplicate(t) ==
    /\ thread[t].pc = "check"
    /\ LET hash == thread[t].hash
           copy == [hash EXCEPT !.auxpow = TRUE]
       IN  thread' = [thread EXCEPT ![t] =
               IF copy # hash THEN Free("mutated")
               ELSE IF hash \in connected THEN Free("duplicate")
               ELSE IF hash \in refused THEN Free("duplicate-invalid")
               ELSE [thread[t] EXCEPT !.pc = "process"]]
    /\ UNCHANGED <<cacheVars, chainVars, returned>>

\* MUTANT of BlockChecked: the catcher does not compare hashes.
BlockCheckedAny(th, hash, ok) ==
    [t \in Threads |-> IF th[t].pc \in {"process", "activate", "return"}
                       THEN [th[t] EXCEPT !.found = TRUE, !.valid = ok] ELSE th[t]]

\* The signal BlockChecked reaches every registered StateCatcher of that hash.
BlockChecked(th, hash, ok) ==
    [t \in Threads |-> IF th[t].pc \in {"process", "activate", "return"} /\ th[t].hash = hash
                       THEN [th[t] EXCEPT !.found = TRUE, !.valid = ok] ELSE th[t]]

\* ProcessNewBlock up to AcceptBlock, under cs_main: a bad payload fails
\* CheckBlock, a block that was marked fails AcceptBlock.
ProcessNewBlock(t) ==
    /\ thread[t].pc = "process"
    /\ LET hash == thread[t].hash
           accepted == thread[t].good /\ hash \notin refused
           new == accepted /\ hash \notin stored \cup connected
           mine == [thread EXCEPT ![t] =
                       [@ EXCEPT !.pc = IF accepted THEN "activate" ELSE "return",
                                 !.accepted = accepted, !.newBlock = new]]
       IN  /\ stored' = IF new THEN stored \cup {hash} ELSE stored
           /\ thread' = IF accepted THEN mine ELSE BlockChecked(mine, hash, FALSE)
    /\ UNCHANGED <<cacheVars, tip, connected, refused, returned>>

Connectable == {b \in stored : b.prev = tip}

\* Some thread's ActivateBestChain connects a stored block to the tip.
ConnectTip(b) ==
    /\ b \in Connectable /\ tip < MaxHeight
    /\ \E t \in Threads : thread[t].pc = "activate"
    /\ tip' = tip + 1
    /\ stored' = stored \ {b} /\ connected' = connected \cup {b}
    /\ thread' = BlockChecked(thread, b, TRUE)
    /\ UNCHANGED <<cacheVars, refused, returned>>

\* ConnectBlock finds the block invalid: InvalidBlockFound marks it.
ConnectTipFails(b) ==
    /\ b \in Connectable
    /\ \E t \in Threads : thread[t].pc = "activate"
    /\ stored' = stored \ {b} /\ refused' = refused \cup {b}
    /\ thread' = BlockChecked(thread, b, FALSE)
    /\ UNCHANGED <<cacheVars, tip, connected, returned>>

\* ActivateBestChain has nothing left to connect.
Activated(t) ==
    /\ thread[t].pc = "activate"
    /\ Connectable = {} \/ tip = MaxHeight
    /\ thread' = [thread EXCEPT ![t] = [@ EXCEPT !.pc = "return"]]
    /\ UNCHANGED <<cacheVars, chainVars, returned>>

\* What AuxMiningSubmitBlock makes of the StateCatcher.
Verdict(th) ==
    IF ~th.newBlock /\ th.accepted THEN "duplicate"
    ELSE IF ~th.found THEN "inconclusive"
    ELSE IF th.valid THEN "true" ELSE "rejected"

ReturnResult(t) ==
    /\ thread[t].pc = "return"
    /\ thread' = [thread EXCEPT ![t] = Free(Verdict(thread[t]))]
    /\ UNCHANGED <<cacheVars, chainVars, returned>>

-----------------------------------------------------------------------------
\* A block of a peer becomes the tip; its BlockChecked finds no StateCatcher.
PeerBlock ==
    /\ tip < MaxHeight
    /\ tip' = tip + 1
    /\ UNCHANGED <<cacheVars, stored, connected, refused, returned, thread>>

\* invalidateblock on a submitted block that is off the active chain.
InvalidateBlock(b) ==
    /\ b \in stored
    /\ stored' = stored \ {b} /\ refused' = refused \cup {b}
    /\ UNCHANGED <<cacheVars, tip, connected, returned, thread>>

Step(t) == CacheTemplate(t) \/ CheckDuplicate(t) \/ ProcessNewBlock(t) \/ Activated(t) \/ ReturnResult(t)

Next ==
    \/ \E t \in Threads, s \in Scripts : CreateNewBlock(t, s)
    \/ \E t \in Threads : Step(t)
    \/ \E t \in Threads, i \in DOMAIN returned, good \in BOOLEAN : FindTemplate(t, returned[i], good)
    \/ \E b \in stored : ConnectTip(b) \/ ConnectTipFails(b) \/ InvalidateBlock(b)
    \/ PeerBlock

Spec == Init /\ [][Next]_vars

-----------------------------------------------------------------------------
Results == {"none", "created", "block hash unknown", "mutated", "duplicate",
            "duplicate-invalid", "inconclusive", "rejected", "true"}

Call == [pc : {"free", "insert", "check", "process", "activate", "return"},
         hash : Template \cup {None}, good : BOOLEAN, newBlock : BOOLEAN, accepted : BOOLEAN,
         found : BOOLEAN, valid : BOOLEAN, result : Results]

\* Every variable has its type, and the cache stays within its limit.
TypeOK ==
    /\ blocks \subseteq Template /\ Cardinality(blocks) <= MaxAuxpowBlockCache
    /\ prevHash \in 0..MaxHeight \cup {None} /\ extraNonce \in 0..MaxCreated
    /\ tip \in 0..MaxHeight
    /\ stored \subseteq Template /\ connected \subseteq Template /\ refused \subseteq Template
    /\ returned \in Seq(Template)
    /\ thread \in [Threads -> Call]

\* The cache mixes no tips: every cached template builds on g_auxpow_prev_hash
\* and has the extra nonce of its own createauxblock.
CacheCurrent ==
    /\ \A b \in blocks : b.prev = prevHash /\ b.nonce \in 1..extraNonce
    /\ \A a, b \in blocks : a.nonce = b.nonce => a = b

\* "AuxPoW mutated block header hash" is never the answer: the version bit that
\* SetAuxpow sets was part of the hash that was handed out.
NeverMutated == \A t \in Threads : thread[t].result # "mutated"

AnswersTrue(t) ==
    thread[t].pc = "return" /\ thread'[t].pc = "free" /\ thread'[t].result = "true"

TrueIsConnected == \A t \in Threads : AnswersTrue(t) => thread[t].hash \in connected

\* submitauxblock answers true only for a block that was connected.
TrueMeansConnected == [][TrueIsConnected]_vars

\* "Submit a solved AuxPoW payload for a block previously returned by
\* createauxblock": a template on the current tip is known as long as no more
\* than MAX_AUXPOW_BLOCK_CACHE were returned since.
ReturnedIsKnown ==
    \A i \in DOMAIN returned :
        i + MaxAuxpowBlockCache > Len(returned) /\ returned[i].prev = tip => returned[i] \in blocks
====
