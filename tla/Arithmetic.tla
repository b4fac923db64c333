----------------------------- MODULE Arithmetic -----------------------------
(***************************************************************************)
(* Facts about numbers that the proofs rest on and the provers do not      *)
(* know.  The SMT backend knows % only by its definition, nothing of its   *)
(* being unchanged by a multiple of the modulus; and no prover can use an  *)
(* induction theorem that takes a predicate.  So induction is stated here  *)
(* about a set of numbers, from the well-foundedness of <, and recursion   *)
(* as the existence of a function, from which follows what the recursive   *)
(* definitions of Bits.tla compute.                                        *)
(***************************************************************************)
EXTENDS Bits, WellFoundedInduction, TLAPS

(* Remainders. *)

\* What % and \div mean for a positive modulus.
LEMMA ModDef ==
  \A n \in Nat \ {0}, x \in Int :
    /\ x % n \in 0 .. (n - 1)
    /\ x \div n \in Int
    /\ x = (n * (x \div n)) + (x % n)
BY SMT

\* An index below the modulus is its own remainder: no wrap.
LEMMA ModBelow == \A n \in Nat \ {0}, x \in Nat : x < n => x % n = x
BY SMT

\* One wrap of an increment past the end of the word.
LEMMA ModAbove ==
  \A n \in Nat \ {0}, x \in Nat : n <= x /\ x < 2 * n => x % n = x - n
BY SMT

\* One wrap of a difference whose subtrahend is ahead.
LEMMA ModNegative ==
  \A n \in Nat \ {0}, x \in Int : x < 0 /\ -n <= x => x % n = x + n
BY SMT

\* A positive multiple of the modulus is at least the modulus.
LEMMA MulAtLeast == \A n \in Nat \ {0}, k \in Int : n * k > 0 => n * k >= n
BY SMT

(* A number has only one remainder. *)
LEMMA ModUnique ==
  ASSUME NEW n \in Nat \ {0}, NEW k \in Int, NEW l \in Int,
         NEW r \in 0 .. (n - 1), NEW s \in 0 .. (n - 1),
         n * k + r = n * l + s
  PROVE  r = s
<1>1. n * (k - l) = s - r
  OBVIOUS
<1>2. n * (l - k) = r - s
  OBVIOUS
<1>3. CASE k = l
  BY <1>3
<1>4. CASE k > l
  <2>1. k - l >= 1
    BY <1>4
  <2>2. n * (k - l) >= n
    BY <2>1
  <2> QED
    BY <1>1, <2>2
<1>5. CASE k < l
  <2>1. l - k >= 1
    BY <1>5
  <2>2. n * (l - k) >= n
    BY <2>1
  <2> QED
    BY <1>2, <2>2
<1> QED
  BY <1>3, <1>4, <1>5

(* Adding a multiple of the modulus changes nothing. *)
LEMMA ModShift ==
  ASSUME NEW n \in Nat \ {0}, NEW x \in Int, NEW k \in Int
  PROVE  (x + n * k) % n = x % n
<1> DEFINE y == x + n * k
<1>1. /\ x % n \in 0 .. (n - 1)
      /\ x \div n \in Int
      /\ x = (n * (x \div n)) + (x % n)
  BY ModDef
<1>2. y \in Int
  OBVIOUS
<1>3. /\ y % n \in 0 .. (n - 1)
      /\ y \div n \in Int
      /\ y = (n * (y \div n)) + (y % n)
  BY ModDef, <1>2
<1>4. y = n * ((x \div n) + k) + (x % n)
  BY <1>1
<1>5. (x \div n) + k \in Int
  BY <1>1
<1> QED
  BY <1>1, <1>3, <1>4, <1>5, ModUnique

\* Twice a number, and a bit, by twice the modulus.
LEMMA ModDouble ==
  ASSUME NEW n \in Nat \ {0}, NEW x \in Nat, NEW b \in {0, 1}
  PROVE  (2 * x + b) % (2 * n) = 2 * (x % n) + b
<1> DEFINE q == x \div n
           r == x % n
           s == 2 * r + b
<1>1. r \in 0 .. (n - 1) /\ q \in Int /\ x = n * q + r
  BY ModDef
<1> HIDE DEF q, r
<1>2. s \in 0 .. (2 * n - 1) /\ s \in Nat /\ s < 2 * n
  BY <1>1
<1>3. 2 * x + b = s + (2 * n) * q
  <2>1. (2 * n) * q = 2 * (n * q) /\ n * q \in Int
    BY <1>1
  <2> DEFINE p == n * q
  <2> HIDE DEF p
  <2>2. x = p + r /\ p \in Int /\ (2 * n) * q = 2 * p
    BY <1>1, <2>1 DEF p
  <2> QED
    BY <1>1, <2>2
<1> HIDE DEF s
<1>4. (s + (2 * n) * q) % (2 * n) = s % (2 * n)
  <2> DEFINE d == 2 * n
  <2>1. d \in Nat \ {0} /\ s \in Int /\ q \in Int
    BY <1>1, <1>2
  <2> HIDE DEF d
  <2>2. (s + d * q) % d = s % d
    BY <2>1, ModShift
  <2> QED
    BY <2>2 DEF d
<1>5. s % (2 * n) = s
  BY <1>2, ModBelow
<1> QED
  BY <1>3, <1>4, <1>5 DEF s, r

(* Two numbers less than the modulus apart have different remainders. *)
LEMMA ModApart ==
  ASSUME NEW n \in Nat \ {0}, NEW x \in Int, NEW y \in Int,
         x < y, y - x < n
  PROVE  x % n # y % n
<1> SUFFICES ASSUME x % n = y % n
             PROVE  FALSE
  OBVIOUS
<1> DEFINE k == (y \div n) - (x \div n)
<1>1. /\ x % n \in 0 .. (n - 1)
      /\ x \div n \in Int
      /\ x = (n * (x \div n)) + (x % n)
  BY ModDef
<1>2. /\ y % n \in 0 .. (n - 1)
      /\ y \div n \in Int
      /\ y = (n * (y \div n)) + (y % n)
  BY ModDef
<1>3. k \in Int
  BY <1>1, <1>2
<1>4. y - x = n * k
  BY <1>1, <1>2
<1>5. n * k > 0 /\ n * k < n
  BY <1>4
<1> HIDE DEF k
<1>6. n * k >= n
  BY <1>3, <1>5, MulAtLeast
<1> QED
  BY <1>3, <1>5, <1>6
-----------------------------------------------------------------------------
(* Induction and recursion. *)

\* A set of numbers that is not empty has a least one.
LEMMA Least ==
  ASSUME NEW T \in SUBSET Nat, T # {}
  PROVE  \E m \in T : \A k \in T : m <= k
<1> DEFINE R == OpToRel(<, Nat)
<1>1. IsWellFoundedOn(R, Nat)
  BY NatLessThanWellFounded
<1>2. \E m \in T : \A k \in T : << k, m >> \notin R
  <2> HIDE DEF R
  <2> QED
    BY <1>1, WFMin
<1>3. PICK m \in T : \A k \in T : << k, m >> \notin R
  BY <1>2
<1>4. \A k \in T : ~(k < m)
  BY <1>3 DEF OpToRel
<1> QED
  BY <1>4

\* A set that has every number all of whose predecessors it has, has them all.
LEMMA StrongInduction ==
  ASSUME NEW S, \A n \in Nat : (\A m \in 0 .. (n - 1) : m \in S) => n \in S
  PROVE  \A n \in Nat : n \in S
<1> SUFFICES ASSUME NEW n \in Nat, n \notin S PROVE FALSE
  OBVIOUS
<1> DEFINE T == {k \in Nat : k \notin S}
<1>1. PICK m \in T : \A k \in T : m <= k
  <2>1. n \in T /\ T \in SUBSET Nat
    OBVIOUS
  <2> HIDE DEF T
  <2> QED
    BY <2>1, Least
<1>2. \A k \in 0 .. (m - 1) : k \in S
  BY <1>1
<1> QED
  BY <1>1, <1>2

\* The same from one number to the next.
LEMMA Induction ==
  ASSUME NEW S, 0 \in S, \A n \in Nat : n \in S => n + 1 \in S
  PROVE  \A n \in Nat : n \in S
<1>1. ASSUME NEW n \in Nat, \A m \in 0 .. (n - 1) : m \in S
      PROVE  n \in S
  <2>1. CASE n = 0
    BY <2>1
  <2>2. CASE n # 0
    <3>1. n - 1 \in Nat /\ n - 1 \in 0 .. (n - 1) /\ (n - 1) + 1 = n
      BY <2>2
    <3>2. n - 1 \in S
      BY <1>1, <3>1
    <3> QED
      BY <3>1, <3>2
  <2> QED
    BY <2>1, <2>2
<1> QED
  BY <1>1, StrongInduction

(* A function on the numbers is defined by its value at 0 and how its value *)
(* at any other number comes from its value at a smaller one, before[n].    *)
IsRecursion(V, v0, before, step) ==
  /\ v0 \in V
  /\ before \in [Nat \ {0} -> Nat] /\ \A n \in Nat \ {0} : before[n] < n
  /\ step \in [Nat \ {0} -> [V -> V]]

Solves(f, V, v0, before, step) ==
  /\ f \in [Nat -> V]
  /\ f[0] = v0
  /\ \A n \in Nat \ {0} : f[n] = step[n][f[before[n]]]

\* There is such a function.
LEMMA Recursion ==
  ASSUME NEW V, NEW v0, NEW before, NEW step, IsRecursion(V, v0, before, step)
  PROVE  \E f : Solves(f, V, v0, before, step)
<1> USE DEF IsRecursion
<1> DEFINE Upto(k, g) == /\ g \in [0 .. k -> V] /\ g[0] = v0
                         /\ \A n \in 1 .. k : g[n] = step[n][g[before[n]]]
<1>1. \A k \in Nat : \E g : Upto(k, g)
  <2> DEFINE S == {k \in Nat : \E g : Upto(k, g)}
  <2>1. 0 \in S
    <3>1. Upto(0, [n \in 0 .. 0 |-> v0])
      OBVIOUS
    <3> QED
      BY <3>1
  <2>2. ASSUME NEW k \in Nat, k \in S PROVE k + 1 \in S
    <3>1. PICK g : Upto(k, g)
      BY <2>2
    <3> DEFINE h == [n \in 0 .. (k + 1) |-> IF n = k + 1 THEN step[n][g[before[n]]] ELSE g[n]]
    <3>2. \A n \in 1 .. (k + 1) : before[n] \in 0 .. k /\ before[n] # k + 1
                                  /\ before[n] \in 0 .. (k + 1)
      OBVIOUS
    <3>3. \A n \in 1 .. (k + 1) : step[n][g[before[n]]] \in V
      <4> SUFFICES ASSUME NEW n \in 1 .. (k + 1) PROVE step[n][g[before[n]]] \in V
        OBVIOUS
      <4>1. n \in Nat \ {0} /\ step[n] \in [V -> V]
        OBVIOUS
      <4>2. g[before[n]] \in V
        BY <3>1, <3>2
      <4> QED
        BY <4>1, <4>2
    <3>4. /\ \A n \in 0 .. k : h[n] = g[n]
          /\ h[k + 1] = step[k + 1][g[before[k + 1]]]
      OBVIOUS
    <3>5. h \in [0 .. (k + 1) -> V] /\ h[0] = v0
      BY <3>1, <3>3
    <3> HIDE DEF h
    <3>6. \A n \in 1 .. (k + 1) : h[n] = step[n][h[before[n]]]
      <4> SUFFICES ASSUME NEW n \in 1 .. (k + 1) PROVE h[n] = step[n][h[before[n]]]
        OBVIOUS
      <4>1. h[before[n]] = g[before[n]]
        BY <3>2, <3>4
      <4>2. n = k + 1 \/ n \in 1 .. k
        OBVIOUS
      <4>3. CASE n \in 1 .. k
        BY <3>1, <3>4, <4>1, <4>3
      <4> QED
        BY <3>4, <4>1, <4>2, <4>3
    <3>7. k + 1 \in Nat
      OBVIOUS
    <3>8. h \in [0 .. (k + 1) -> V] /\ h[0] = v0 /\ \A n \in 1 .. (k + 1) : h[n] = step[n][h[before[n]]]
      BY <3>5, <3>6
    <3> QED
      BY <3>7, <3>8
  <2> HIDE DEF S
  <2>3. \A k \in Nat : k \in S
    BY <2>1, <2>2, Induction
  <2> QED
    BY <2>3 DEF S
<1>2. ASSUME NEW k \in Nat, NEW l \in Nat, NEW g, NEW h, Upto(k, g), Upto(l, h)
      PROVE  \A n \in Nat : n <= k /\ n <= l => g[n] = h[n]
  <2> DEFINE S == {n \in Nat : n <= k /\ n <= l => g[n] = h[n]}
  <2>1. ASSUME NEW n \in Nat, \A m \in 0 .. (n - 1) : m \in S
        PROVE  n \in S
    <3>1. CASE n = 0
      BY <1>2, <3>1
    <3>2. CASE n # 0 /\ n <= k /\ n <= l
      <4>1. before[n] \in 0 .. (n - 1) /\ before[n] <= k /\ before[n] <= l
        BY <3>2
      <4>2. g[before[n]] = h[before[n]]
        BY <2>1, <4>1
      <4> QED
        BY <1>2, <3>2, <4>2
    <3> QED
      BY <3>1, <3>2
  <2> HIDE DEF S
  <2>2. \A n \in Nat : n \in S
    BY <2>1, StrongInduction
  <2> QED
    BY <2>2 DEF S
<1> DEFINE G(k) == CHOOSE g : Upto(k, g)
<1>3. \A k \in Nat : Upto(k, G(k))
  BY <1>1
<1> DEFINE f == [n \in Nat |-> G(n)[n]]
<1> HIDE DEF G
<1>4. \A n \in Nat : f[n] \in V
  BY <1>3
<1>5. f[0] = v0
  BY <1>3
<1>6. ASSUME NEW n \in Nat \ {0}
      PROVE  f[n] = step[n][f[before[n]]]
  <2>1. before[n] \in Nat /\ before[n] <= n
    OBVIOUS
  <2>2. Upto(n, G(n)) /\ Upto(before[n], G(before[n]))
    BY <1>3, <2>1
  <2>3. G(n)[before[n]] = G(before[n])[before[n]]
    <3> HIDE DEF Upto
    <3> QED
      BY <1>2, <2>1, <2>2
  <2>4. G(n)[n] = step[n][G(n)[before[n]]]
    BY <2>2
  <2> QED
    BY <2>1, <2>3, <2>4
<1>7. Solves(f, V, v0, before, step)
  BY <1>4, <1>5, <1>6 DEF Solves
<1> QED
  BY <1>7
-----------------------------------------------------------------------------
(* Powers of two. *)

\* A shift to the left doubles.
LEMMA ShiftedIs ==
  /\ Shifted \in [Nat -> Nat \ {0}]
  /\ Shifted[0] = 1
  /\ \A n \in Nat : Shifted[n + 1] = 2 * Shifted[n]
<1> DEFINE before == [n \in Nat \ {0} |-> n - 1]
           step == [n \in Nat \ {0} |-> [v \in Nat \ {0} |-> 2 * v]]
<1>1. PICK f \in [Nat -> Nat \ {0}] :
        f[0] = 1 /\ \A n \in Nat \ {0} : f[n] = step[n][f[before[n]]]
  <2>1. IsRecursion(Nat \ {0}, 1, before, step)
    BY DEF IsRecursion
  <2> HIDE DEF before, step
  <2>2. PICK f : Solves(f, Nat \ {0}, 1, before, step)
    BY <2>1, Recursion
  <2> QED
    BY <2>2 DEF Solves
<1>2. \A n \in Nat \ {0} : f[n] = 2 * f[n - 1]
  <2> SUFFICES ASSUME NEW n \in Nat \ {0} PROVE f[n] = 2 * f[n - 1]
    OBVIOUS
  <2>1. f[n - 1] \in Nat \ {0}
    OBVIOUS
  <2> QED
    BY <1>1, <2>1
<1>3. f = [n \in Nat |-> IF n = 0 THEN 1 ELSE 2 * f[n - 1]]
  BY <1>1, <1>2
<1>4. Shifted = [n \in Nat |-> IF n = 0 THEN 1 ELSE 2 * Shifted[n - 1]]
  BY <1>3 DEF Shifted
<1>5. \A n \in Nat : Shifted[n + 1] = 2 * Shifted[n]
  BY <1>4
<1>6. Shifted[0] = 1
  BY <1>4
<1>7. \A n \in Nat : Shifted[n] \in Nat \ {0}
  <2> DEFINE S == {n \in Nat : Shifted[n] \in Nat \ {0}}
  <2>1. 0 \in S /\ \A n \in Nat : n \in S => n + 1 \in S
    BY <1>5, <1>6
  <2> HIDE DEF S
  <2>2. \A n \in Nat : n \in S
    BY <2>1, Induction
  <2> QED
    BY <2>2 DEF S
<1> QED
  BY <1>4, <1>5, <1>6, <1>7

\* Two shifts are one shift by the sum.
LEMMA ShiftedSum ==
  \A m, n \in Nat : Shifted[m + n] = Shifted[m] * Shifted[n]
<1> SUFFICES ASSUME NEW m \in Nat
             PROVE  \A n \in Nat : Shifted[m + n] = Shifted[m] * Shifted[n]
  OBVIOUS
<1> DEFINE S == {n \in Nat : Shifted[m + n] = Shifted[m] * Shifted[n]}
<1>1. 0 \in S
  BY ShiftedIs
<1>2. ASSUME NEW n \in Nat, n \in S PROVE n + 1 \in S
  <2>1. Shifted[m + n] = Shifted[m] * Shifted[n]
    BY <1>2
  <2>2. Shifted[m + (n + 1)] = 2 * Shifted[m + n] /\ Shifted[n + 1] = 2 * Shifted[n]
    <3>1. m + (n + 1) = (m + n) + 1 /\ m + n \in Nat
      OBVIOUS
    <3> QED
      BY <3>1, ShiftedIs
  <2>3. Shifted[m] \in Nat /\ Shifted[n] \in Nat
    BY ShiftedIs
  <2>4. Shifted[m + (n + 1)] = Shifted[m] * Shifted[n + 1]
    BY <2>1, <2>2, <2>3
  <2> QED
    BY <2>4
<1> HIDE DEF S
<1>3. \A n \in Nat : n \in S
  BY <1>1, <1>2, Induction
<1> QED
  BY <1>3 DEF S

\* A smaller power of two divides a larger one.
LEMMA ShiftedDivides ==
  ASSUME NEW m \in Nat, NEW n \in Nat, Shifted[m] < Shifted[n]
  PROVE  m < n /\ Shifted[n] % Shifted[m] = 0
<1>1. ASSUME NEW k \in Nat, NEW l \in Nat, l <= k
      PROVE  Shifted[k - l] \in Nat \ {0} /\ Shifted[k] = Shifted[l] * Shifted[k - l]
  <2>1. k - l \in Nat /\ l + (k - l) = k
    BY <1>1
  <2>2. Shifted[l + (k - l)] = Shifted[l] * Shifted[k - l]
    BY <2>1, ShiftedSum
  <2> QED
    BY <2>1, <2>2, ShiftedIs
<1>2. Shifted[m] \in Nat \ {0} /\ Shifted[n] \in Nat \ {0}
  BY ShiftedIs
<1>3. m < n
  <2> SUFFICES ASSUME n <= m PROVE FALSE
    OBVIOUS
  <2> DEFINE x == Shifted[n]
             y == Shifted[m - n]
  <2>1. x \in Nat \ {0} /\ y \in Nat \ {0} /\ Shifted[m] = x * y
    BY <1>1, <1>2
  <2> HIDE DEF x, y
  <2>2. x * y >= x
    <3>1. x * y > 0
      BY <2>1
    <3> QED
      BY <2>1, <3>1, MulAtLeast
  <2> QED
    BY <1>2, <2>1, <2>2 DEF x
<1>4. Shifted[n] = 0 + Shifted[m] * Shifted[n - m] /\ Shifted[n - m] \in Nat
  BY <1>1, <1>2, <1>3
<1>5. Shifted[n] % Shifted[m] = 0 % Shifted[m]
  BY <1>2, <1>4, ModShift
<1> QED
  BY <1>2, <1>3, <1>5, ModBelow
-----------------------------------------------------------------------------
(* Bits. *)

\* A number is its lowest bit and twice the number of the others.
LEMMA LowestBit ==
  \A n \in Nat :
    /\ n \div 2 \in Nat /\ n % 2 \in {0, 1} /\ n = 2 * (n \div 2) + (n % 2)
    /\ n # 0 => n \div 2 < n
    /\ n # 0 /\ n % 2 = 0 => n \div 2 # 0
BY SMT

\* Both recursions below go from a number to the one without its lowest bit.
LEMMA Halving ==
  /\ [n \in Nat \ {0} |-> n \div 2] \in [Nat \ {0} -> Nat]
  /\ \A n \in Nat \ {0} : [k \in Nat \ {0} |-> k \div 2][n] < n
BY LowestBit

\* The number of zero bits below the lowest one.
LEMMA CountTrailingZerosIs ==
  \A n \in Nat \ {0} :
    /\ CountTrailingZeros[n] \in Nat
    /\ n % 2 = 1 => CountTrailingZeros[n] = 0
    /\ n % 2 = 0 => CountTrailingZeros[n] = 1 + CountTrailingZeros[n \div 2]
<1> DEFINE before == [n \in Nat \ {0} |-> n \div 2]
           step == [n \in Nat \ {0} |-> [v \in Nat |-> IF n % 2 = 1 THEN 0 ELSE 1 + v]]
<1>1. PICK f : Solves(f, Nat, 0, before, step)
  <2>1. IsRecursion(Nat, 0, before, step)
    BY Halving DEF IsRecursion
  <2> HIDE DEF before, step
  <2> QED
    BY <2>1, Recursion
<1> DEFINE g == [n \in Nat \ {0} |-> f[n]]
<1>2. g \in [Nat \ {0} -> Nat]
  BY <1>1 DEF Solves
<1>3. g = [n \in Nat \ {0} |-> IF n % 2 = 1 THEN 0 ELSE 1 + g[n \div 2]]
  <2> SUFFICES ASSUME NEW n \in Nat \ {0}
               PROVE  g[n] = IF n % 2 = 1 THEN 0 ELSE 1 + g[n \div 2]
    OBVIOUS
  <2>1. n \div 2 \in Nat /\ f[n \div 2] \in Nat
    BY <1>1, LowestBit DEF Solves
  <2>2. f[n] = IF n % 2 = 1 THEN 0 ELSE 1 + f[n \div 2]
    BY <1>1, <2>1 DEF Solves
  <2> QED
    BY <2>2, LowestBit
<1> HIDE DEF g
<1>4. CountTrailingZeros =
        [n \in Nat \ {0} |-> IF n % 2 = 1 THEN 0 ELSE 1 + CountTrailingZeros[n \div 2]]
  BY <1>3 DEF CountTrailingZeros
<1>5. \A n \in Nat \ {0} : CountTrailingZeros[n] \in Nat
  <2> DEFINE S == {n \in Nat : n # 0 => CountTrailingZeros[n] \in Nat}
  <2>1. ASSUME NEW n \in Nat, \A m \in 0 .. (n - 1) : m \in S
        PROVE  n \in S
    <3>1. n # 0 /\ n % 2 = 0 => n \div 2 \in 0 .. (n - 1) /\ n \div 2 # 0
      BY LowestBit
    <3> QED
      BY <1>4, <2>1, <3>1
  <2> HIDE DEF S
  <2>2. \A n \in Nat : n \in S
    BY <2>1, StrongInduction
  <2> QED
    BY <2>2 DEF S
<1> QED
  BY <1>4, <1>5

\* What is left of a number without its trailing zeros is odd.
LEMMA TrailingZeros ==
  \A n \in Nat \ {0} : \E k \in Nat : n = Shifted[CountTrailingZeros[n]] * k /\ k % 2 = 1
<1> DEFINE Odd(n) == \E k \in Nat : n = Shifted[CountTrailingZeros[n]] * k /\ k % 2 = 1
           S == {n \in Nat : n # 0 => Odd(n)}
<1>1. ASSUME NEW n \in Nat, \A m \in 0 .. (n - 1) : m \in S
      PROVE  n \in S
  <2>1. CASE n = 0
    BY <2>1
  <2>2. CASE n # 0 /\ n % 2 = 1
    BY <2>2, ShiftedIs, CountTrailingZerosIs
  <2>3. CASE n # 0 /\ n % 2 = 0
    <3> DEFINE h == n \div 2
    <3>1. h \in 0 .. (n - 1) /\ h \in Nat \ {0} /\ n = 2 * h
      BY <2>3, LowestBit
    <3>2. PICK k \in Nat : h = Shifted[CountTrailingZeros[h]] * k /\ k % 2 = 1
      BY <1>1, <3>1
    <3>3. /\ CountTrailingZeros[h] \in Nat
          /\ CountTrailingZeros[n] = CountTrailingZeros[h] + 1
      BY <2>3, <3>1, CountTrailingZerosIs
    <3> HIDE DEF h
    <3>4. /\ Shifted[CountTrailingZeros[n]] = 2 * Shifted[CountTrailingZeros[h]]
          /\ Shifted[CountTrailingZeros[h]] \in Nat
      BY <3>3, ShiftedIs
    <3>5. n = Shifted[CountTrailingZeros[n]] * k
      BY <3>1, <3>2, <3>4
    <3> QED
      BY <3>2, <3>5
  <2> QED
    BY <2>1, <2>2, <2>3, LowestBit
<1> HIDE DEF S
<1>2. \A n \in Nat : n \in S
  BY <1>1, StrongInduction
<1> QED
  BY <1>2 DEF S

\* The bitwise and, bit by bit.
LEMMA BitAndIs ==
  \A x, y \in Nat :
    /\ BitAnd[x][y] \in Nat
    /\ x = 0 => BitAnd[x][y] = 0
    /\ x # 0 => BitAnd[x][y] = 2 * BitAnd[x \div 2][y \div 2] + (x % 2) * (y % 2)
<1> DEFINE before == [n \in Nat \ {0} |-> n \div 2]
           step == [n \in Nat \ {0} |->
                      [v \in [Nat -> Nat] |->
                         [y \in Nat |-> 2 * v[y \div 2] + (n % 2) * (y % 2)]]]
           zero == [y \in Nat |-> 0]
<1>1. PICK f : Solves(f, [Nat -> Nat], zero, before, step)
  <2>1. ASSUME NEW n \in Nat \ {0}, NEW v \in [Nat -> Nat]
        PROVE  [y \in Nat |-> 2 * v[y \div 2] + (n % 2) * (y % 2)] \in [Nat -> Nat]
    <3> SUFFICES ASSUME NEW y \in Nat
                 PROVE  2 * v[y \div 2] + (n % 2) * (y % 2) \in Nat
      OBVIOUS
    <3>1. v[y \div 2] \in Nat /\ n % 2 \in {0, 1} /\ y % 2 \in {0, 1}
      BY LowestBit
    <3> QED
      BY <3>1
  <2>2. IsRecursion([Nat -> Nat], zero, before, step)
    BY <2>1, Halving DEF IsRecursion
  <2> HIDE DEF before, step, zero
  <2> QED
    BY <2>2, Recursion
<1>2. \A x \in Nat : f[x] \in [Nat -> Nat]
  BY <1>1 DEF Solves
<1>3. f[0] = zero
  BY <1>1 DEF Solves
<1>4. \A x \in Nat \ {0} : f[x] = [y \in Nat |-> 2 * f[x \div 2][y \div 2] + (x % 2) * (y % 2)]
  <2> SUFFICES ASSUME NEW x \in Nat \ {0}
               PROVE  f[x] = [y \in Nat |-> 2 * f[x \div 2][y \div 2] + (x % 2) * (y % 2)]
    OBVIOUS
  <2>1. x \div 2 \in Nat /\ f[x \div 2] \in [Nat -> Nat]
    BY <1>2, LowestBit
  <2>2. f[x] = step[x][f[before[x]]] /\ before[x] = x \div 2
    BY <1>1 DEF Solves
  <2> DEFINE double == [v \in [Nat -> Nat] |->
                        [y \in Nat |-> 2 * v[y \div 2] + (x % 2) * (y % 2)]]
             g == f[x \div 2]
  <2>3. step[x] = double
    OBVIOUS
  <2> HIDE DEF step, before, g
  <2>4. double[g] = [y \in Nat |-> 2 * g[y \div 2] + (x % 2) * (y % 2)]
    BY <2>1 DEF g
  <2> HIDE DEF double
  <2> QED
    BY <2>2, <2>3, <2>4 DEF g
<1>5. f = [x \in Nat |->
            [y \in Nat |-> IF x = 0 THEN 0 ELSE 2 * f[x \div 2][y \div 2] + (x % 2) * (y % 2)]]
  <2> DEFINE row(x) == [y \in Nat |-> IF x = 0 THEN 0
                                      ELSE 2 * f[x \div 2][y \div 2] + (x % 2) * (y % 2)]
  <2>1. ASSUME NEW x \in Nat PROVE f[x] = row(x)
    <3>1. CASE x = 0
      BY <1>3, <3>1
    <3>2. CASE x # 0
      <4>1. f[x] = [y \in Nat |-> 2 * f[x \div 2][y \div 2] + (x % 2) * (y % 2)]
        BY <1>4, <3>2
      <4> QED
        BY <3>2, <4>1
    <3> QED
      BY <3>1, <3>2
  <2>2. DOMAIN f = Nat /\ f = [x \in DOMAIN f |-> f[x]]
    BY <1>1 DEF Solves
  <2> HIDE DEF row
  <2>3. f = [x \in Nat |-> row(x)]
    BY <2>1, <2>2
  <2> QED
    BY <2>3 DEF row
<1>6. BitAnd = [x \in Nat |->
                 [y \in Nat |-> IF x = 0 THEN 0
                                ELSE 2 * BitAnd[x \div 2][y \div 2] + (x % 2) * (y % 2)]]
  BY <1>5 DEF BitAnd
<1>7. \A x, y \in Nat :
        BitAnd[x][y] = IF x = 0 THEN 0 ELSE 2 * BitAnd[x \div 2][y \div 2] + (x % 2) * (y % 2)
  BY <1>6
<1>8. \A x \in Nat : \A y \in Nat : BitAnd[x][y] \in Nat
  <2> DEFINE S == {x \in Nat : \A y \in Nat : BitAnd[x][y] \in Nat}
  <2>1. ASSUME NEW x \in Nat, \A m \in 0 .. (x - 1) : m \in S
        PROVE  x \in S
    <3> SUFFICES ASSUME NEW y \in Nat, x # 0 PROVE BitAnd[x][y] \in Nat
      BY <1>7
    <3>1. x \div 2 \in 0 .. (x - 1) /\ y \div 2 \in Nat
      BY LowestBit
    <3>2. BitAnd[x \div 2][y \div 2] \in Nat
      BY <2>1, <3>1
    <3>3. (x % 2) * (y % 2) \in Nat
      <4>1. x % 2 \in {0, 1} /\ y % 2 \in {0, 1}
        BY LowestBit
      <4> QED
        BY <4>1
    <3>4. BitAnd[x][y] = 2 * BitAnd[x \div 2][y \div 2] + (x % 2) * (y % 2)
      BY <1>7
    <3> QED
      BY <3>2, <3>3, <3>4
  <2> HIDE DEF S
  <2>2. \A x \in Nat : x \in S
    BY <2>1, StrongInduction
  <2> QED
    BY <2>2 DEF S
<1> QED
  BY <1>7, <1>8

\* The mask of a power of two takes the remainder by it.
LEMMA Mask ==
  \A k, i \in Nat : BitAnd[i][Shifted[k] - 1] = i % Shifted[k]
<1> DEFINE S == {k \in Nat : \A i \in Nat : BitAnd[i][Shifted[k] - 1] = i % Shifted[k]}
<1>1. \A k \in Nat : Shifted[k] \in Nat \ {0} /\ Shifted[k] - 1 \in Nat
  BY ShiftedIs
<1>2. \A i \in Nat : BitAnd[i][0] = 0
  <2> DEFINE T == {i \in Nat : BitAnd[i][0] = 0}
  <2>1. ASSUME NEW i \in Nat, \A j \in 0 .. (i - 1) : j \in T
        PROVE  i \in T
    <3>1. CASE i = 0
      BY <3>1, BitAndIs
    <3>2. CASE i # 0
      <4>1. i \div 2 \in 0 .. (i - 1) /\ i % 2 \in {0, 1}
        BY <3>2, LowestBit
      <4>2. BitAnd[i \div 2][0] = 0
        BY <2>1, <4>1
      <4>3. BitAnd[i][0] = 2 * BitAnd[i \div 2][0 \div 2] + (i % 2) * (0 % 2)
        BY <3>2, BitAndIs
      <4>4. 0 \div 2 = 0 /\ 0 % 2 = 0
        OBVIOUS
      <4> QED
        BY <4>1, <4>2, <4>3, <4>4
    <3> QED
      BY <3>1, <3>2
  <2> HIDE DEF T
  <2>2. \A i \in Nat : i \in T
    BY <2>1, StrongInduction
  <2> QED
    BY <2>2 DEF T
<1>3. 0 \in S
  <2>1. \A i \in Nat : i % 1 = 0
    OBVIOUS
  <2>2. Shifted[0] = 1 /\ 1 - 1 = 0
    BY ShiftedIs
  <2> QED
    BY <1>2, <2>1, <2>2
<1>4. ASSUME NEW k \in Nat, k \in S PROVE k + 1 \in S
  <2> SUFFICES ASSUME NEW i \in Nat
               PROVE  BitAnd[i][Shifted[k + 1] - 1] = i % Shifted[k + 1]
    OBVIOUS
  <2> DEFINE s == Shifted[k]
             m == Shifted[k + 1] - 1
             h == i \div 2
             b == i % 2
  <2>1. s \in Nat \ {0}
    BY <1>1
  <2>2. Shifted[k + 1] = 2 * s
    BY ShiftedIs
  <2>3. h \in Nat /\ b \in {0, 1} /\ i = 2 * h + b
    BY LowestBit
  <2>4. BitAnd[h][s - 1] = h % s
    BY <1>4, <2>3
  <2> HIDE DEF S, s, h, b
  <2>5. m = 2 * s - 1 /\ m \in Nat /\ m \div 2 = s - 1 /\ m % 2 = 1
    BY <2>1, <2>2
  <2> HIDE DEF m
  <2>6. BitAnd[i][m] = 2 * (h % s) + b
    <3>1. CASE i = 0
      <4>1. h = 0 /\ b = 0
        BY <2>3, <3>1
      <4>2. 0 % s = 0
        BY <2>1, ModBelow
      <4>3. BitAnd[i][m] = 0
        BY <2>5, <3>1, BitAndIs
      <4> QED
        BY <4>1, <4>2, <4>3
    <3>2. CASE i # 0
      <4>1. BitAnd[i][m] = 2 * BitAnd[h][m \div 2] + b * (m % 2)
        BY <2>5, <3>2, BitAndIs DEF h, b
      <4> QED
        BY <2>3, <2>4, <2>5, <4>1
    <3> QED
      BY <3>1, <3>2
  <2>7. (2 * h + b) % (2 * s) = 2 * (h % s) + b
    BY <2>1, <2>3, ModDouble
  <2>8. BitAnd[i][Shifted[k + 1] - 1] = 2 * (h % s) + b
    BY <2>6 DEF m
  <2>9. i % Shifted[k + 1] = 2 * (h % s) + b
    BY <2>2, <2>3, <2>7
  <2> QED
    BY <2>8, <2>9
<1> HIDE DEF S
<1>5. \A k \in Nat : k \in S
  BY <1>3, <1>4, Induction
<1> QED
  BY <1>5 DEF S
=============================================================================
