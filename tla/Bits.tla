-------------------------------- MODULE Bits --------------------------------
(***************************************************************************)
(* The integer idioms that NVSim's bookkeeping of bits is built from.      *)
(***************************************************************************)
EXTENDS Integers

\* isPow2 of formula.cpp, for the powers that an int can hold.
MaxLog == 30
IsPow2(n) == \E k \in 0 .. MaxLog : n = 2 ^ k

(***************************************************************************)
(* (int)(log2(num / den) + 0.1): the logarithm is rounded down after 0.1   *)
(* is added, so a ratio within 7% below a power of two counts as that      *)
(* power, and a negative sum is truncated towards zero.  2^0.1 is taken as *)
(* 1.0718.                                                                 *)
(***************************************************************************)
Log2(num, den) ==
  LET up == num * 10718
      down == den * 10000
  IN  IF up >= down
      THEN CHOOSE k \in 0 .. MaxLog : 2 ^ k * down <= up /\ up < 2 ^ (k + 1) * down
      ELSE -(CHOOSE k \in 0 .. MaxLog : 2 ^ k * up <= down /\ down < 2 ^ (k + 1) * up)

\* (int)log2(n) for n > 0.
FloorLog2(n) == CHOOSE k \in 0 .. MaxLog : 2 ^ k <= n /\ n < 2 ^ (k + 1)

\* "_numActive... > num...": warn and use the smaller one.
AtMost(n, most) == IF n > most THEN most ELSE n
=============================================================================
