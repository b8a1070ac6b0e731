---------------------------- MODULE PowDifficulty ----------------------------
(***************************************************************************)
(* The difficulty of the next block (pow.cpp, PoWCore/PoWUtils.cpp).  A    *)
(* difficulty is a 64 bit fixed point number; one unit of it is TWO_POW48, *)
(* a factor e of the block rate.  The unsigned arithmetic of the source is *)
(* kept, wrap-around included; the widths are constants, so that TLC can   *)
(* compute with small ones.                                                *)
(***************************************************************************)
EXTENDS Integers

CONSTANTS
    UINT64_MAX,
    TWO_POW48,
    min_difficulty,
    nPowTargetSpacing,   \* the timespan of a block that is on time
    log_target,          \* log_150_48, its logarithm
    log2e64,             \* log2(e), with LogBits fractional bits
    LogBits,             \* 64: the fractional bits of log2e64
    DifficultyBits,      \* 48: the fractional bits of a difficulty
    SlowDown,            \* 2^8: what an increase is divided by
    FastDown             \* 2^6: what a decrease is divided by

ASSUME PowAssumption ==
    /\ UINT64_MAX \in Nat /\ log_target \in 0..UINT64_MAX
    /\ TWO_POW48 \in Nat \ {0} /\ nPowTargetSpacing \in Nat \ {0}
    /\ min_difficulty \in TWO_POW48..(UINT64_MAX - TWO_POW48)
    /\ SlowDown \in Nat \ {0} /\ FastDown \in Nat \ {0}

(* An unsigned 64 bit result.                                              *)
U64(x) == x % (UINT64_MAX + 1)

(* 2^k, by which mpz_mul_2exp multiplies and mpz_div_2exp divides.         *)
Pow2[k \in Nat] == IF k = 0 THEN 1 ELSE 2 * Pow2[k - 1]

(* mpz_sizeinbase(n, 2) - 1                                                *)
FloorLog2(n) == CHOOSE k \in 0..n : Pow2[k] <= n /\ n < Pow2[k + 1]

(* One bit more of a logarithm.  Squaring the mantissa doubles the         *)
(* logarithm, and a mantissa of 2 or more is the next bit of it.           *)
LogBit(last, unit) ==
    LET square == (last.mantissa * last.mantissa) \div unit
        carry  == square \div unit >= 2
    IN  [mantissa |-> IF carry THEN square \div 2 ELSE square,
         bits |-> 2 * last.bits + (IF carry THEN 1 ELSE 0)]

(* mpz_log2: log2 of src with accuracy fractional bits.                    *)
mpz_log2(src, accuracy) ==
    LET whole == FloorLog2(src)
        n[i \in 0..accuracy] ==
            IF i = 0 THEN [mantissa |-> src * Pow2[accuracy], bits |-> 0]
            ELSE LogBit(n[i - 1], Pow2[accuracy + whole])
    IN  whole * Pow2[accuracy] + n[accuracy].bits

(* log(timespan) with DifficultyBits fractional bits.                      *)
log_actual(timespan) ==
    mpz_log2(timespan, LogBits + DifficultyBits) \div log2e64

-----------------------------------------------------------------------------

(* next_difficulty, from the logarithm of the actual timespan on.          *)
Retarget(difficulty, actual) ==
    LET shift   == IF actual > log_target THEN FastDown ELSE SlowDown
        up      == log_target \div shift
        down    == actual \div shift
        sum     == U64(U64(difficulty + up) - down)
        floored == IF actual > log_target /\ difficulty < U64(down - up)
                   THEN min_difficulty ELSE sum
        capped  == IF actual < log_target
                         /\ U64(UINT64_MAX - U64(up - down)) < difficulty
                   THEN UINT64_MAX ELSE floored
        high    == U64(difficulty + TWO_POW48)
        low     == U64(difficulty - TWO_POW48)
        below   == IF capped > high THEN high ELSE capped
        next    == IF below < low THEN low ELSE below
    IN  IF next < min_difficulty THEN min_difficulty ELSE next

(* GetNextWorkRequired always asks for the rules that are not testnet's.   *)
next_difficulty(difficulty, actual_timespan) ==
    Retarget(difficulty, log_actual(actual_timespan))

-----------------------------------------------------------------------------

(* The same on unbounded integers: the change by log(target / actual),     *)
(* divided, within one unit, and never below the minimum.                  *)
Larger(a, b)  == IF a > b THEN a ELSE b
Smaller(a, b) == IF a < b THEN a ELSE b

RetargetReference(difficulty, actual) ==
    LET shift == IF actual > log_target THEN FastDown ELSE SlowDown
        next  == difficulty + log_target \div shift - actual \div shift
    IN  Larger(min_difficulty,
               Larger(difficulty - TWO_POW48,
                      Smaller(difficulty + TWO_POW48, next)))

=============================================================================
