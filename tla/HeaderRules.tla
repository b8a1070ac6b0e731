----------------------------- MODULE HeaderRules -----------------------------
(***************************************************************************)
(* What a header owes to the headers before it (validation.cpp,            *)
(* ContextualCheckBlockHeader) and what the node derives from them: the    *)
(* next difficulty (pow.cpp) and, with a cache that every query fills      *)
(* further, the state of a version bits deployment (versionbits.cpp).      *)
(*                                                                         *)
(* Headers arrive in any order that has parents first, on any branch, and  *)
(* the states of any blocks are asked for in between.  The clock only      *)
(* delays a header (time-too-new), so it is not a variable.                *)
(***************************************************************************)
EXTENDS BlockTree, PowDifficulty

CONSTANTS
    nMedianTimeSpan,      \* 11
    HeaderTime,           \* the times a header may carry
    Asked,                \* bound: the blocks whose state is asked for
    Checkpoint,           \* GetCheckpoint's block, or NoBlock
    StrictHeight,         \* 2688000, where the newer rules begin
    Backstep,             \* 15: how far a time may then go back
    Period, Threshold, MinActivationHeight, BeginTime, EndTime

ALWAYS_ACTIVE == -1
NEVER_ACTIVE  == -2

VARIABLES
    header,      \* header[b]: its time, version and difficulty
    m_caches     \* the cache of the deployment: ends of periods to states

headerVars == <<header, m_caches>>

(* The timespans a block can have on the way to GetNextWorkRequired.       *)
Timespan ==
    {1, nPowTargetSpacing} \cup
        {s \in {t - u : t, u \in HeaderTime} : s \in Nat \ {0}}

(* A timespan is the difference of two times, and the logarithm of the     *)
(* next power of two fits an unsigned 64 bit number: with the values of    *)
(* the main network it does for every timespan of 64 bits.                 *)
ASSUME LogAssumption ==
    /\ HeaderTime \subseteq Nat
    /\ LogBits \in Nat /\ DifficultyBits \in Nat /\ log2e64 \in Nat \ {0}
    /\ \A s \in Timespan :
           (FloorLog2(s) + 1) * Pow2[LogBits + DifficultyBits] <= UINT64_MAX * log2e64

(* The tree is not so tall that a chain of blocks that took no time at all *)
(* reaches the last unit of an unsigned 64 bit difficulty: with the values *)
(* of the main network, 3.3 million blocks in a row of one second each.    *)
ASSUME HeightAssumption ==
    \A b \in Block : min_difficulty + nHeight[b] * (log_target \div SlowDown)
                         + TWO_POW48 <= UINT64_MAX

(* The numbers of a deployment; a period has a block, as has the past that *)
(* the median is taken of.                                                 *)
ASSUME DeploymentAssumption ==
    /\ Period \in Nat \ {0} /\ nMedianTimeSpan \in Nat \ {0}
    /\ BeginTime \in Int

NoHeader == [nTime |-> -1, nVersion |-> "none", nBits |-> 0]

(* An nVersion below 2, below 4, at least 4 without and with the bit.      *)
Version == {"one", "two", "top", "signal"}

Known == {b \in Block : header[b] # NoHeader}

HeaderInit ==
    /\ header = [b \in Block |->
                    IF b = Genesis THEN [nTime |-> 0, nVersion |-> "one",
                                         nBits |-> min_difficulty]
                    ELSE NoHeader]
    /\ m_caches = <<>>

nTime(b) == header[b].nTime

(* GetAncestor(height), nullptr below the genesis block.                   *)
GetAncestor(b, height) ==
    IF height < 0 THEN NoBlock
    ELSE CHOOSE c \in Ancestors[b] : nHeight[c] = height

(* The median of the last nMedianTimeSpan times, the upper one of two.     *)
GetMedianTimePast(b) ==
    LET last == {c \in Ancestors[b] : nHeight[b] - nHeight[c] < nMedianTimeSpan}
        half == Cardinality(last) \div 2
        AtMost(t) == {c \in last : nTime(c) <= t}
    IN  CHOOSE t \in {nTime(c) : c \in last} :
            /\ Cardinality(AtMost(t)) > half
            /\ Cardinality(AtMost(t - 1)) <= half

-----------------------------------------------------------------------------
(* The difficulty                                                          *)

(* Deviation: a time that goes back counts as a block that is on time.     *)
ActualTimespan_Deviation(last) ==
    LET span == nTime(last) - nTime(pprev[last])
    IN  IF nHeight[last] < 2 \/ span < 1 THEN nPowTargetSpacing ELSE span

(* The time the last block took, 1 if it goes back; the genesis block does *)
(* not count.                                                              *)
ActualTimespan(last) ==
    IF nHeight[last] < 2 THEN nPowTargetSpacing
    ELSE Larger(1, nTime(last) - nTime(pprev[last]))

GetNextWorkRequired(last) ==
    next_difficulty(header[last].nBits, ActualTimespan(last))

-----------------------------------------------------------------------------
(* The version bits                                                        *)

(* The last block of the period before the one after b, and the one a      *)
(* period before that.                                                     *)
PeriodParent(b) ==
    IF b = NoBlock THEN NoBlock
    ELSE GetAncestor(b, nHeight[b] - ((nHeight[b] + 1) % Period))
PreviousPeriod(b) == GetAncestor(b, nHeight[b] - Period)

(* The blocks the walk backwards from the end b of a period visits.        *)
PeriodEnds(b) ==
    IF b = NoBlock THEN {NoBlock}
    ELSE {NoBlock} \cup {c \in Ancestors[b] : (nHeight[c] + 1) % Period = 0}

Condition(b) == header[b].nVersion = "signal"

(* The blocks of the period that b ends that signal.                       *)
Count(b) ==
    Cardinality({c \in Ancestors[b] : nHeight[b] - nHeight[c] < Period
                                      /\ Condition(c)})

(* The state after the period that b ends, from the state before it.       *)
NextState(state, b) ==
    CASE state = "defined" ->
             IF GetMedianTimePast(b) >= BeginTime THEN "started" ELSE state
      [] state = "started" ->
             IF Count(b) >= Threshold THEN "locked_in"
             ELSE IF GetMedianTimePast(b) >= EndTime THEN "failed" ELSE state
      [] state = "locked_in" ->
             IF nHeight[b] + 1 >= MinActivationHeight THEN "active" ELSE state
      [] OTHER -> state

(* GetStateFor(prev, cache): the state and the cache it leaves.  The walk  *)
(* backwards over the ends of periods stops at a block whose state is      *)
(* known, or is "defined" because the block is before the start time; the  *)
(* states of the blocks it passed are then computed forwards.              *)
GetStateFor(prev, cache) ==
    LET first == PeriodParent(prev)
        line  == PeriodEnds(first)
        stops == {b \in line : \/ b \in DOMAIN cache \cup {NoBlock}
                               \/ GetMedianTimePast(b) < BeginTime}
        last  == CHOOSE b \in stops : stops \subseteq PeriodEnds(b)
        state[b \in DOMAIN cache \cup {last} \cup (line \ PeriodEnds(last))] ==
            IF b \in DOMAIN cache THEN cache[b]
            ELSE IF b = last THEN "defined"
            ELSE NextState(state[PreviousPeriod(b)], b)
    IN  CASE BeginTime = ALWAYS_ACTIVE -> [state |-> "active", cache |-> cache]
          [] BeginTime = NEVER_ACTIVE -> [state |-> "failed", cache |-> cache]
          [] OTHER -> [state |-> state[first], cache |-> state]

(* GetStateSinceHeightFor(prev, cache): the height and the cache it        *)
(* leaves; walk[i] is the end of a period that the loop has asked for      *)
(* after i rounds, and the answer.                                         *)
GetStateSinceHeightFor(prev, cache) ==
    LET now   == GetStateFor(prev, cache)
        first == PeriodParent(prev)
        walk[i \in 0..nHeight[first]] ==
            IF i = 0 THEN [at |-> first, got |-> now]
            ELSE LET w == walk[i - 1]
                     before == PreviousPeriod(w.at)
                 IN  IF w.got.state # now.state \/ before = NoBlock THEN w
                     ELSE [at |-> before, got |-> GetStateFor(before, w.got.cache)]
        end   == walk[nHeight[first]]
    IN  IF BeginTime \in {ALWAYS_ACTIVE, NEVER_ACTIVE} \/ now.state = "defined"
        THEN [height |-> 0, cache |-> now.cache]
        ELSE [height |-> nHeight[end.at] + 1 +
                         (IF end.got.state = now.state THEN 0 ELSE Period),
              cache |-> end.got.cache]

-----------------------------------------------------------------------------

(* Deviation: the time is not compared with the median of the past.        *)
ContextualCheckBlockHeader_Deviation(b, t, v) ==
    LET prev == pprev[b]
    IN  /\ ~(Checkpoint \in Known /\ nHeight[b] < nHeight[Checkpoint])
        /\ nHeight[b] >= StrictHeight => t >= nTime(prev) - Backstep
        /\ v # "one" /\ ~(v = "two" /\ nHeight[b] >= StrictHeight)

(* The checks of a header of time t and version v, but the one of nBits.   *)
ContextualCheckBlockHeader(b, t, v) ==
    LET prev == pprev[b]
    IN  /\ ~(Checkpoint \in Known /\ nHeight[b] < nHeight[Checkpoint])
        /\ t > GetMedianTimePast(prev)
        /\ nHeight[b] >= StrictHeight => t >= nTime(prev) - Backstep
        /\ v # "one" /\ ~(v = "two" /\ nHeight[b] >= StrictHeight)

(* A header is accepted; its nBits are what GetNextWorkRequired asks for.  *)
AcceptBlockHeader(b, t, v) ==
    /\ b \notin Known /\ pprev[b] \in Known
    /\ ContextualCheckBlockHeader(b, t, v)
    /\ header' = [header EXCEPT ![b] = [nTime |-> t, nVersion |-> v,
                                        nBits |-> GetNextWorkRequired(pprev[b])]]
    /\ UNCHANGED m_caches

(* IsActiveAfter, ComputeBlockVersion and GBTStatus ask for one state.     *)
IsActiveAfter(b) ==
    /\ m_caches' = GetStateFor(b, m_caches).cache
    /\ UNCHANGED header

(* Info asks for the states of b and of the block after it, and since when *)
(* the former holds.                                                       *)
Info(b) ==
    LET one == GetStateFor(pprev[b], m_caches).cache
        two == GetStateFor(b, one).cache
    IN  /\ m_caches' = GetStateSinceHeightFor(pprev[b], two).cache
        /\ UNCHANGED header

HeaderNext ==
    \/ \E b \in Block, t \in HeaderTime, v \in Version : AcceptBlockHeader(b, t, v)
    \/ \E b \in Known \cap Asked : IsActiveAfter(b) \/ Info(b)

HeaderSpec == HeaderInit /\ [][HeaderNext]_headerVars

-----------------------------------------------------------------------------

(* The states of BIP 9, from the genesis block on, without a cache and     *)
(* without a shortcut.                                                     *)
StateAfter[b \in Block \cup {NoBlock}] ==
    IF b = NoBlock THEN "defined" ELSE NextState(StateAfter[PreviousPeriod(b)], b)

(* What a deployment without a vote makes of it.                           *)
Settled(state) ==
    CASE BeginTime = ALWAYS_ACTIVE -> "active"
      [] BeginTime = NEVER_ACTIVE -> "failed"
      [] OTHER -> state

(* "every earlier block will be before the start time": the cache and the  *)
(* walk that stops early give every block the state that BIP 9 gives it,   *)
(* and the height of the first block from which on it held, whatever was   *)
(* asked before and on whichever branch.                                   *)
VersionBitsFaithful ==
    LET ends  == {b \in Known : (nHeight[b] + 1) % Period = 0}
        after == [b \in ends \cup {NoBlock} |-> StateAfter[b]]
        Of(b) == Settled(after[PeriodParent(pprev[b])])
    IN  /\ \A b \in DOMAIN m_caches : m_caches[b] = after[b]
        /\ \A b \in Known :
               GetStateFor(b, m_caches).state = Settled(after[PeriodParent(b)])
        /\ \A b \in Known \ {Genesis} :
               LET since == GetStateSinceHeightFor(pprev[b], m_caches).height
               IN  /\ since <= nHeight[b]
                   /\ \A c \in Ancestors[b] :
                         /\ nHeight[c] >= since => Of(c) = Of(b)
                         /\ nHeight[c] = since - 1 => Of(c) # Of(b)

(* The difficulty of every header is the one of the formula, no step of    *)
(* which wrapped around, and of two siblings the later one never makes the *)
(* next block harder, even if a time goes back.                            *)
DifficultyFollowsTime ==
    /\ \A b \in Known \ {Genesis} :
           header[b].nBits =
               RetargetReference(header[pprev[b]].nBits,
                                 log_actual(ActualTimespan(pprev[b])))
    /\ \A b, c \in Known \ {Genesis} :
           pprev[b] = pprev[c] /\ nTime(b) <= nTime(c) =>
               GetNextWorkRequired(c) <= GetNextWorkRequired(b)

=============================================================================
