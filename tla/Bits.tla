-------------------------------- MODULE Bits --------------------------------
(***************************************************************************)
(* What C computes on the bits of an unsigned integer, as recursion over   *)
(* them, the lowest bit first: recursive functions, which can be proved    *)
(* about (Arithmetic.tla), and not the operators of the Bitwise module.    *)
(***************************************************************************)
EXTENDS Integers

\* 1ull << n
Shifted[n \in Nat] == IF n = 0 THEN 1 ELSE 2 * Shifted[n - 1]

\* __builtin_ctzll(n), the number of zero bits below the lowest one
CountTrailingZeros[n \in Nat \ {0}] ==
  IF n % 2 = 1 THEN 0 ELSE 1 + CountTrailingZeros[n \div 2]

\* x & y
BitAnd[x \in Nat] ==
  [y \in Nat |-> IF x = 0 THEN 0 ELSE 2 * BitAnd[x \div 2][y \div 2] + (x % 2) * (y % 2)]
=============================================================================
