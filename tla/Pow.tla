-------------------------------- MODULE Pow --------------------------------
(***************************************************************************)
(* The retarget rule (pow.cpp) along a chain of headers with any           *)
(* timestamps: what ContextualCheckBlockHeader demands of the next block   *)
(* (GetNextWorkRequired), and what header presync lets pass without        *)
(* knowing the timestamps (PermittedDifficultyTransition).                 *)
(*                                                                         *)
(* The rules of the networks that retarget, the main chain and signet.     *)
(***************************************************************************)
EXTENDS Integers

CONSTANTS
    nPowTargetTimespan, nPowTargetSpacing,
    bnPowLimit,
    ToCompact(_), FromCompact(_),  \* arith_uint256::GetCompact and SetCompact, see Compact
    CapHeight,       \* 3500: the rule for fast blocks changes
    LookbackHeight,  \* 150000: the timespan covers the whole interval
    Gaps,            \* differences between the times of two blocks
    StartTargets,    \* the first block's target
    MaxHeaders

DifficultyAdjustmentInterval == nPowTargetTimespan \div nPowTargetSpacing

\* A target and the target its compact form stands for.
Rounded(t) == FromCompact(ToCompact(t))

ASSUME PowAssumption ==
    /\ nPowTargetTimespan \in Nat \ {0} /\ nPowTargetSpacing \in Nat \ {0}
    /\ DifficultyAdjustmentInterval \in Nat \ {0}
    /\ nPowTargetTimespan = DifficultyAdjustmentInterval * nPowTargetSpacing
    /\ bnPowLimit \in Nat /\ StartTargets \subseteq 0..bnPowLimit
    /\ CapHeight \in Nat /\ LookbackHeight \in Nat /\ MaxHeaders \in Nat
    /\ Gaps \subseteq Int

\* The compact form rounds down, keeps the order, and rounds only once.
ASSUME CompactAssumption ==
    /\ \A t \in 0..bnPowLimit : Rounded(t) \in 0..t
    /\ \A s, t \in 0..bnPowLimit : s <= t => Rounded(s) <= Rounded(t)
    /\ \A t \in 0..bnPowLimit : ToCompact(Rounded(t)) = ToCompact(t)

VARIABLES
    nHeight, nBits,  \* of the last header
    since            \* how long before it the ones before it were made

headerVars == <<nHeight, nBits, since>>
-----------------------------------------------------------------------------
Least(a, b) == IF a <= b THEN a ELSE b

\* A target scaled by a timespan, within the limit.
Scaled(bits, timespan) ==
    Least((FromCompact(bits) * timespan) \div nPowTargetTimespan, bnPowLimit)

\* MUTANT of Clamped: the rules change with the new block's height, not the last's.
ClampedEarly(actual, height) ==
    LET fast == IF actual < nPowTargetTimespan \div 4 /\ height + 1 >= CapHeight
                  THEN (nPowTargetTimespan * 100) \div 103
                ELSE IF actual < (nPowTargetTimespan * 100) \div 115 /\ height + 1 < CapHeight
                  THEN (nPowTargetTimespan * 100) \div 115
                ELSE actual
    IN Least(fast, nPowTargetTimespan * 2)

\* The timespan that counts, for the height of the last block before.
Clamped(actual, height) ==
    LET fast == IF actual < nPowTargetTimespan \div 4 /\ height >= CapHeight
                  THEN (nPowTargetTimespan * 100) \div 103
                ELSE IF actual < (nPowTargetTimespan * 100) \div 115 /\ height < CapHeight
                  THEN (nPowTargetTimespan * 100) \div 115
                ELSE actual
    IN Least(fast, nPowTargetTimespan * 2)

CalculateNextWorkRequired(actual) ==
    ToCompact(Scaled(nBits, Clamped(actual, nHeight)))

\* MUTANT of BlocksToGoBack: the interval is never looked at as a whole.
BlocksToGoBackLess == DifficultyAdjustmentInterval - 1

BlocksToGoBack ==
    IF nHeight + 1 >= LookbackHeight /\ nHeight + 1 # DifficultyAdjustmentInterval
    THEN DifficultyAdjustmentInterval ELSE DifficultyAdjustmentInterval - 1

GetNextWorkRequired ==
    IF (nHeight + 1) % DifficultyAdjustmentInterval # 0 THEN nBits
    ELSE CalculateNextWorkRequired(since[BlocksToGoBack])

PermittedDifficultyTransition(height, old, new) ==
    IF height % DifficultyAdjustmentInterval = 0
    THEN LET smallest == IF height <= CapHeight THEN (nPowTargetTimespan * 100) \div 115
                         ELSE nPowTargetTimespan \div 4
             largest == nPowTargetTimespan * 2
         IN /\ FromCompact(new) <= Rounded(Scaled(old, largest))
            /\ FromCompact(new) >= Rounded(Scaled(old, smallest))
    ELSE old = new
-----------------------------------------------------------------------------
HeaderInit ==
    /\ nHeight = 0 /\ since = [i \in 0..DifficultyAdjustmentInterval |-> 0]
    /\ nBits \in {ToCompact(t) : t \in StartTargets}

\* A header that passes ContextualCheckBlockHeader's check of nBits; times may
\* go back.
AcceptBlockHeader(gap) ==
    /\ nHeight < MaxHeaders
    /\ nHeight' = nHeight + 1
    /\ nBits' = GetNextWorkRequired
    /\ since' = [i \in 0..DifficultyAdjustmentInterval |->
                    IF i = 0 THEN 0 ELSE since[i - 1] + gap]

HeaderNext == \E gap \in Gaps : AcceptBlockHeader(gap)

HeaderSpec == HeaderInit /\ [][HeaderNext]_headerVars
-----------------------------------------------------------------------------
HeaderTypeOK ==
    /\ nHeight \in 0..MaxHeaders
    /\ since \in [0..DifficultyAdjustmentInterval -> Int]
    /\ \E t \in 0..bnPowLimit : nBits = ToCompact(t)

\* Header presync never turns away a header that validation would accept:
\* whatever the timestamps were, the next target lies in the envelope of
\* PermittedDifficultyTransition, across the change of rule at CapHeight, with
\* both sides rounded to compact form.
TransitionsPermitted ==
    [][PermittedDifficultyTransition(nHeight', nBits, nBits')]_headerVars

\* After blocks that came exactly on time the target stays as it is, from
\* LookbackHeight on: the timespan GetNextWorkRequired takes then covers as many
\* gaps as the target timespan does.
SteadyTimesKeepTarget ==
    [][nHeight' >= LookbackHeight /\ nHeight' # DifficultyAdjustmentInterval
       /\ (\A i \in 0..DifficultyAdjustmentInterval : since[i] = i * nPowTargetSpacing)
       => nBits' = nBits]_headerVars
=============================================================================
