-------------------------------- MODULE Pow --------------------------------
(***************************************************************************)
(* The proof-of-work rules of src/src/pow.cpp, with the compact numbers    *)
(* and the 256-bit arithmetic of src/src/arith_uint256.cpp.  The sizes are *)
(* parameters: a compact number has a size and a word of three digits in   *)
(* base Radix (256 in the code), a target has Digits digits (32).          *)
(***************************************************************************)
EXTENDS Integers

CONSTANTS Radix, Digits,
          PowLimit,                    \* params.powLimit
          Window, Spacing,             \* nPowTargetWindow, nPowTargetSpacing
          AllowMinDifficulty, NoRetargeting

ASSUME PowAssumption ==
    /\ {Radix, Digits, PowLimit, Window, Spacing} \subseteq Nat \ {0}
    /\ Radix >= 2 /\ Digits >= 3 /\ Window * Spacing >= 3
    /\ AllowMinDifficulty \in BOOLEAN /\ NoRetargeting \in BOOLEAN

Modulus == Radix^Digits
Wrap(n) == n % Modulus

SignBit == (Radix^3) \div 2

(* nBits: the size in the top byte, then the word with its sign bit clear. *)
Size(bits) == bits \div Radix^3
Word(bits) == bits % SignBit

SetCompact(bits) ==
    IF Size(bits) <= 3 THEN Word(bits) \div Radix^(3 - Size(bits))
    ELSE Wrap(Word(bits) * Radix^(Size(bits) - 3))

(* The number of bytes of n. *)
Bytes(n) == CHOOSE k \in 0..Digits : n < Radix^k /\ \A j \in 0..(k - 1) : n >= Radix^j

GetCompact(n) ==
    LET size == Bytes(n)
        word == IF size <= 3 THEN n * Radix^(3 - size) ELSE n \div Radix^(size - 3)
    IN  IF word >= SignBit THEN (size + 1) * Radix^3 + word \div Radix
        ELSE size * Radix^3 + word

GetBlockProof(bits) ==
    LET target == SetCompact(bits)
    IN  IF target = 0 THEN 0 ELSE (Modulus - 1 - target) \div (target + 1) + 1

-----------------------------------------------------------------------------
(* CalculateNextWorkRequired: target(i) is that of the i-th block back. *)
PastTargetAvg(target) ==
    LET avg[i \in Nat] ==
          IF i <= 1 THEN target[1]
          ELSE Wrap(Wrap(avg[i - 1] * i) + target[i]) \div (i + 1)
    IN  avg[Window]

TargetTimespan == Window * Spacing

Clamped(span) ==
    IF span < TargetTimespan \div 3 THEN TargetTimespan \div 3
    ELSE IF span > TargetTimespan * 3 THEN TargetTimespan * 3 ELSE span

Retargeted(avg, span) ==
    LET new == Wrap(avg * Clamped(span)) \div TargetTimespan
    IN  IF new > PowLimit THEN PowLimit ELSE new

(* height and bits, time of pindexLast; past its bits and those before it; *)
(* first the time of the last one of these.                                *)
CalculateNextWorkRequired(height, past, span) ==
    IF height < Window THEN GetCompact(PowLimit)
    ELSE GetCompact(Retargeted(PastTargetAvg([i \in 1..Window |-> SetCompact(past[i])]), span))

(* gap is how much later than pindexLast the block is. *)
GetNextWorkRequired(height, past, span, gap) ==
    IF NoRetargeting THEN past[1]
    ELSE IF AllowMinDifficulty /\ gap > 5 * Spacing
         THEN LET new == Wrap(SetCompact(past[1]) * 10)
              IN  GetCompact(IF new > PowLimit THEN PowLimit ELSE new)
    ELSE CalculateNextWorkRequired(height, past, span)

(* The compact numbers are compared as they are. *)
PermittedDifficultyTransition(old, new) ==
    /\ new <= PowLimit
    /\ new <= Wrap(old * 3)
    /\ new >= old \div 3
=============================================================================
