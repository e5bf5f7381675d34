-------------------------- MODULE ArithmeticProofs --------------------------
(***************************************************************************)
(* Theorems about the arithmetic of the library: the checksum with its     *)
(* late reductions is the plain Fletcher residue, a percentile of the      *)
(* histogram is close to the sample it stands for, and the risk gate keeps *)
(* the position within its limit, for any width of the integers, any block *)
(* and any precision the assumptions admit. The facts about recursion are  *)
(* those of RouterProofs.                                                  *)
(***************************************************************************)
EXTENDS MCArithmetic, RouterProofs

-----------------------------------------------------------------------------
(* The checksum.                                                           *)

(* A multiple leaves no remainder.                                         *)
LEMMA MultipleOf ==
  ASSUME NEW k \in Int, NEW d \in Nat, d > 0
  PROVE  (k * d) % d = 0
<1> DEFINE x == k * d
           q == x \div d
           r == x % d
<1>1. x \in Int
  OBVIOUS
<1>2. q \in Int /\ r \in 0..(d - 1) /\ x = d * q + r
  <2> HIDE DEF x
  <2> QED  BY <1>1, Division
<1> HIDE DEF q, r
<1>3. (k - q) * d = r
  BY <1>2
<1>4. k - q \in Int /\ (k - q >= 1 \/ k - q = 0 \/ k - q <= -1)
  BY <1>2
<1> DEFINE e == k - q
<1>5. e >= 1 => e * d >= d
  BY <1>4
<1>6. e <= -1 => e * d <= -d
  BY <1>4
<1> QED  BY <1>2, <1>3, <1>4, <1>5, <1>6 DEF r

(* The modulus of the checksum.                                            *)
m == Radix - 1

(* A reduction takes a multiple of Radix - 1 away.                         *)
LEMMA CarryFacts ==
  ASSUME NEW x \in Nat, x >= 1
  PROVE  /\ Carry(x) \in Nat /\ Carry(x) >= 1
         /\ \E k \in Int : Carry(x) = x + k * m
         /\ x < Radix * Radix => Carry(x) <= 2 * m
         /\ x <= 2 * m => Carry(x) <= m
         /\ \A y \in Nat : x <= y => Carry(x) <= m + (y \div Radix)
<1> DEFINE q == x \div Radix
           r == x % Radix
<1>0. Radix \in Nat /\ Radix >= 2 /\ m \in Nat /\ m = Radix - 1 /\ m >= 1
  BY WireAssumption DEF m
<1>1. q \in Nat /\ r \in 0..(Radix - 1) /\ x = Radix * q + r /\ Carry(x) = r + q
  BY <1>0, Division DEF Carry
<1> HIDE DEF q, r
<1>2. Carry(x) \in Nat
  BY <1>0, <1>1
<1>3. Carry(x) >= 1
  <2>1. q = 0 => r >= 1
    BY <1>0, <1>1
  <2> QED  BY <1>0, <1>1, <2>1
<1>4. Carry(x) = x + (-q) * m /\ -q \in Int
  BY <1>0, <1>1
<1>5. \E k \in Int : Carry(x) = x + k * m
  BY <1>4, Zenon
<1>6. ASSUME x < Radix * Radix PROVE Carry(x) <= 2 * m
  <2>1. q >= Radix => Radix * q >= Radix * Radix
    BY <1>0, <1>1
  <2>2. q < Radix
    BY <1>0, <1>1, <1>6, <2>1
  <2> QED  BY <1>0, <1>1, <2>2
<1>7. ASSUME x <= 2 * m PROVE Carry(x) <= m
  <2>1. q >= 2 => Radix * q >= 2 * Radix
    BY <1>0, <1>1
  <2>2. q = 0 \/ q = 1
    BY <1>0, <1>1, <1>7, <2>1
  <2> QED  BY <1>0, <1>1, <1>7, <2>2
<1>8. ASSUME NEW y \in Nat, x <= y PROVE Carry(x) <= m + (y \div Radix)
  <2> DEFINE p == y \div Radix
             s == y % Radix
  <2>1. p \in Nat /\ s \in 0..(Radix - 1) /\ y = Radix * p + s
    BY <1>0, Division
  <2> HIDE DEF p, s
  <2>2. q >= p + 1 => Radix * q >= Radix * p + Radix
    BY <1>0, <1>1, <2>1
  <2>3. q <= p
    BY <1>0, <1>1, <1>8, <2>1, <2>2
  <2> QED  BY <1>0, <1>1, <2>1, <2>3 DEF p
<1> QED  BY <1>2, <1>3, <1>5, <1>6, <1>7, <1>8

(* The remainder of the next number.                                       *)
LEMMA NextRemainder ==
  ASSUME NEW n \in Nat, NEW d \in Nat, d > 0
  PROVE  LET j == n % d
         IN  /\ j \in 0..(d - 1)
             /\ (n + 1) % d # 0 => (n + 1) % d = j + 1 /\ j + 1 < d
<1> DEFINE q == n \div d
           j == n % d
           p == (n + 1) \div d
           i == (n + 1) % d
<1>1. q \in Nat /\ j \in 0..(d - 1) /\ n = d * q + j
  BY Division
<1>2. p \in Nat /\ i \in 0..(d - 1) /\ n + 1 = d * p + i
  BY Division
<1> HIDE DEF q, j, p, i
<1>3. d * (p - q) = j + 1 - i
  BY <1>1, <1>2
<1> DEFINE e == p - q
<1>4. e \in Int /\ (e <= -1 \/ e = 0 \/ e = 1 \/ e >= 2)
  BY <1>1, <1>2
<1>5. e <= -1 => d * e <= -d
  BY <1>4
<1>6. e >= 2 => d * e >= 2 * d
  BY <1>4
<1>7. e = 0 \/ e = 1
  BY <1>1, <1>2, <1>3, <1>4, <1>5, <1>6
<1>8. i # 0 => i = j + 1 /\ j + 1 < d
  BY <1>1, <1>2, <1>3, <1>7
<1> QED  BY <1>1, <1>8 DEF j, i

-----------------------------------------------------------------------------
(* The reference sums, as runs.                                            *)
Bytes == 0..(Radix - 1)

(* The plain sum is the run of its additions.                              *)
LEMMA PlainRun ==
  ASSUME NEW b \in Seq(Bytes)
  PROVE  \E f \in [0..Len(b) -> Int] :
            /\ f[0] = 0 /\ PlainSum(b) = f[Len(b)]
            /\ \A n \in 1..Len(b) : f[n] = f[n - 1] + b[n]
<1> DEFINE N          == Len(b)
           Step(n, x) == x + b[n]
           step       == [p \in (1..N) \X Int |-> Step(p[1], p[2])]
           Eq(g)      == g = [n \in 0..N |-> IF n = 0 THEN 0 ELSE Step(n, g[n - 1])]
           u          == CHOOSE g : Eq(g)
<1>0. N \in Nat /\ 0 \in Int /\ \A n \in 1..N : b[n] \in Int
  BY WireAssumption DEF Bytes
<1>1. \A n \in 1..N, x \in Int : Step(n, x) \in Int
  BY <1>0
<1>2. PlainSum(b) = u[N]
  BY DEF PlainSum
<1> HIDE DEF Step, N
<1>3. IsStep(step, 1..N, Int)
  BY <1>1 DEF IsStep
<1>4. \A n \in 1..N, x \in Int : step[<<n, x>>] = Step(n, x)
  OBVIOUS
<1> HIDE DEF step
<1>5. PICK f : IsBoundedRun(f, N, Int, 0, step)
  BY <1>0, <1>3, BoundedRecursion, Zenon
<1>6. Eq(f)
  <2>1. f \in [0..N -> Int] /\ f[0] = 0 /\ \A n \in 1..N : f[n] = step[<<n, f[n - 1]>>]
    BY <1>5, Zenon DEF IsBoundedRun
  <2>2. f = [n \in 0..N |-> f[n]] /\ \A n \in 0..N : n = 0 \/ (n \in 1..N /\ n - 1 \in 0..N)
    BY <1>0, <2>1
  <2>3. \A n \in 0..N : f[n] = IF n = 0 THEN 0 ELSE Step(n, f[n - 1])
    BY <1>4, <2>1, <2>2, Zenon
  <2> QED  BY <2>2, <2>3, Zenon
<1>7. Eq(u)
  BY <1>6, Zenon
<1> HIDE DEF u
<1>8. u[0] = 0 /\ \A n \in 1..N : u[n] = Step(n, u[n - 1])
  <2>1. 0 \in 0..N /\ \A n \in 1..N : n # 0 /\ n \in 0..N
    BY <1>0
  <2> QED  BY <1>7, <2>1, Zenon
<1>9. u \in [0..N -> Int]
  <2>1. u = [n \in 0..N |-> u[n]]
    BY <1>7
  <2>2. \A n \in 1..N : u[n - 1] \in Int => u[n] = step[<<n, u[n - 1]>>]
    BY <1>4, <1>8, Zenon
  <2> HIDE DEF Eq
  <2>3. Follows(u, N, Int, 0, step)
    BY <1>8, <2>1, <2>2, Zenon DEF Follows
  <2> QED  BY <1>0, <1>3, <2>3, DefinedRun, Zenon
<1> HIDE DEF Eq
<1> QED  BY <1>2, <1>8, <1>9, Zenon DEF N, Step

(* So is the weighted sum.                                                 *)
LEMMA WeightedRun ==
  ASSUME NEW b \in Seq(Bytes)
  PROVE  \E f \in [0..Len(b) -> Int] :
            /\ f[0] = 0 /\ WeightedSum(b) = f[Len(b)]
            /\ \A n \in 1..Len(b) : f[n] = f[n - 1] + (Len(b) + 1 - n) * b[n]
<1> DEFINE N          == Len(b)
           Step(n, x) == x + (N + 1 - n) * b[n]
           step       == [p \in (1..N) \X Int |-> Step(p[1], p[2])]
           Eq(g)      == g = [n \in 0..N |-> IF n = 0 THEN 0 ELSE Step(n, g[n - 1])]
           u          == CHOOSE g : Eq(g)
<1>0. N \in Nat /\ 0 \in Int /\ \A n \in 1..N : b[n] \in Int
  BY WireAssumption DEF Bytes
<1>1. \A n \in 1..N, x \in Int : Step(n, x) \in Int
  BY <1>0
<1>2. WeightedSum(b) = u[N]
  BY DEF WeightedSum
<1> HIDE DEF Step, N
<1>3. IsStep(step, 1..N, Int)
  BY <1>1 DEF IsStep
<1>4. \A n \in 1..N, x \in Int : step[<<n, x>>] = Step(n, x)
  OBVIOUS
<1> HIDE DEF step
<1>5. PICK f : IsBoundedRun(f, N, Int, 0, step)
  BY <1>0, <1>3, BoundedRecursion, Zenon
<1>6. Eq(f)
  <2>1. f \in [0..N -> Int] /\ f[0] = 0 /\ \A n \in 1..N : f[n] = step[<<n, f[n - 1]>>]
    BY <1>5, Zenon DEF IsBoundedRun
  <2>2. f = [n \in 0..N |-> f[n]] /\ \A n \in 0..N : n = 0 \/ (n \in 1..N /\ n - 1 \in 0..N)
    BY <1>0, <2>1
  <2>3. \A n \in 0..N : f[n] = IF n = 0 THEN 0 ELSE Step(n, f[n - 1])
    BY <1>4, <2>1, <2>2, Zenon
  <2> QED  BY <2>2, <2>3, Zenon
<1>7. Eq(u)
  BY <1>6, Zenon
<1> HIDE DEF u
<1>8. u[0] = 0 /\ \A n \in 1..N : u[n] = Step(n, u[n - 1])
  <2>1. 0 \in 0..N /\ \A n \in 1..N : n # 0 /\ n \in 0..N
    BY <1>0
  <2> QED  BY <1>7, <2>1, Zenon
<1>9. u \in [0..N -> Int]
  <2>1. u = [n \in 0..N |-> u[n]]
    BY <1>7
  <2>2. \A n \in 1..N : u[n - 1] \in Int => u[n] = step[<<n, u[n - 1]>>]
    BY <1>4, <1>8, Zenon
  <2> HIDE DEF Eq
  <2>3. Follows(u, N, Int, 0, step)
    BY <1>8, <2>1, <2>2, Zenon DEF Follows
  <2> QED  BY <1>0, <1>3, <2>3, DefinedRun, Zenon
<1> HIDE DEF Eq
<1> QED  BY <1>2, <1>8, <1>9, Zenon DEF N, Step

(* One byte more.                                                          *)
Summed(b, n, x) ==
    LET sum1 == x[1] + b[n]
        sum2 == x[2] + sum1
    IN  IF n % Block = 0 \/ n = Len(b) THEN <<Carry(sum1), Carry(sum2)>> ELSE <<sum1, sum2>>

(* A step of the loop stays in the naturals.                               *)
LEMMA SummedType ==
  ASSUME NEW b \in Seq(Bytes), NEW n \in 1..Len(b), NEW x \in Nat \X Nat
  PROVE  Summed(b, n, x) \in Nat \X Nat
<1>1. b[n] \in Nat /\ x[1] \in Nat /\ x[2] \in Nat
  BY WireAssumption DEF Bytes
<1>2. \A y \in Nat : Carry(y) \in Nat
  <2> SUFFICES ASSUME NEW y \in Nat PROVE Carry(y) \in Nat
    BY Zenon
  <2>1. Radix \in Nat /\ Radix > 0
    BY WireAssumption
  <2>2. y \div Radix \in Nat /\ y % Radix \in 0..(Radix - 1)
    BY <2>1, Division
  <2> QED  BY <2>1, <2>2 DEF Carry
<1> DEFINE sum1 == x[1] + b[n]
           sum2 == x[2] + sum1
<1>3. sum1 \in Nat /\ sum2 \in Nat
  BY <1>1
<1> HIDE DEF sum1, sum2
<1>4. Summed(b, n, x) = <<Carry(sum1), Carry(sum2)>> \/ Summed(b, n, x) = <<sum1, sum2>>
  BY Zenon DEF Summed, sum1, sum2
<1>5. Carry(sum1) \in Nat /\ Carry(sum2) \in Nat
  BY <1>2, <1>3, Zenon
<1> QED  BY <1>3, <1>4, <1>5

(* fletcher16 is the run of its loop, then reduced.                        *)
LEMMA ChecksumRun ==
  ASSUME NEW b \in Seq(Bytes)
  PROVE  \E f \in [0..Len(b) -> Nat \X Nat] :
            /\ f[0] = <<Radix - 1, Radix - 1>> /\ fletcher16(b) = Carry(f[Len(b)][2]) * Radix + Carry(f[Len(b)][1])
            /\ \A n \in 1..Len(b) : f[n] = Summed(b, n, f[n - 1])
<1> DEFINE N          == Len(b)
           Step(n, x) == Summed(b, n, x)
           step       == [p \in (1..N) \X (Nat \X Nat) |-> Step(p[1], p[2])]
           Eq(g)      == g = [n \in 0..N |-> IF n = 0 THEN <<Radix - 1, Radix - 1>> ELSE Step(n, g[n - 1])]
           u          == CHOOSE g : Eq(g)
<1>0. N \in Nat /\ <<Radix - 1, Radix - 1>> \in Nat \X Nat /\ \A n \in 1..N : b[n] \in Nat
  BY WireAssumption DEF Bytes
<1>1. \A n \in 1..N, x \in Nat \X Nat : Step(n, x) \in Nat \X Nat
  BY <1>0, SummedType
<1>2. fletcher16(b) = Carry(u[N][2]) * Radix + Carry(u[N][1])
  BY DEF fletcher16, Summed
<1> HIDE DEF Step, N
<1>3. IsStep(step, 1..N, Nat \X Nat)
  BY <1>1 DEF IsStep
<1>4. \A n \in 1..N, x \in Nat \X Nat : step[<<n, x>>] = Step(n, x)
  OBVIOUS
<1> HIDE DEF step
<1>5. PICK f : IsBoundedRun(f, N, Nat \X Nat, <<Radix - 1, Radix - 1>>, step)
  BY <1>0, <1>3, BoundedRecursion, Zenon
<1>6. Eq(f)
  <2>1. f \in [0..N -> Nat \X Nat] /\ f[0] = <<Radix - 1, Radix - 1>> /\ \A n \in 1..N : f[n] = step[<<n, f[n - 1]>>]
    BY <1>5, Zenon DEF IsBoundedRun
  <2>2. f = [n \in 0..N |-> f[n]] /\ \A n \in 0..N : n = 0 \/ (n \in 1..N /\ n - 1 \in 0..N)
    BY <1>0, <2>1
  <2>3. \A n \in 0..N : f[n] = IF n = 0 THEN <<Radix - 1, Radix - 1>> ELSE Step(n, f[n - 1])
    BY <1>4, <2>1, <2>2, Zenon
  <2> QED  BY <2>2, <2>3, Zenon
<1>7. Eq(u)
  BY <1>6, Zenon
<1> HIDE DEF u
<1>8. u[0] = <<Radix - 1, Radix - 1>> /\ \A n \in 1..N : u[n] = Step(n, u[n - 1])
  <2>1. 0 \in 0..N /\ \A n \in 1..N : n # 0 /\ n \in 0..N
    BY <1>0
  <2> QED  BY <1>7, <2>1, Zenon
<1>9. u \in [0..N -> Nat \X Nat]
  <2>1. u = [n \in 0..N |-> u[n]]
    BY <1>7
  <2>2. \A n \in 1..N : u[n - 1] \in Nat \X Nat => u[n] = step[<<n, u[n - 1]>>]
    BY <1>4, <1>8, Zenon
  <2> HIDE DEF Eq
  <2>3. Follows(u, N, Nat \X Nat, <<Radix - 1, Radix - 1>>, step)
    BY <1>8, <2>1, <2>2, Zenon DEF Follows
  <2> QED  BY <1>0, <1>3, <2>3, DefinedRun, Zenon
<1> HIDE DEF Eq
<1> QED  BY <1>2, <1>8, <1>9, Zenon DEF N, Step

-----------------------------------------------------------------------------
(* The sums after a reduction and j bytes.                                 *)
Bounded(x, j) ==
    /\ 1 <= x[1] /\ x[1] <= Start1 + j * m
    /\ 1 <= x[2] /\ 2 * x[2] <= 4 * m + 2 * j * Start1 + m * j * (j + 1)

(* The bytes summed since the last reduction, after the first n.           *)
Since(b, n) == IF n = Len(b) THEN 0 ELSE n % Block

(* x and y differ by a multiple of the modulus.                            *)
Congruent(x, y) == \E k \in Int : x = y + k * m

(* One byte keeps the sums within 32 bits and adds to them what it should, *)
(* up to multiples of the modulus, also where the block ends and the sums  *)
(* are reduced.                                                            *)
LEMMA SummedFacts ==
  ASSUME NEW b \in Seq(Bytes), NEW n \in 0..(Len(b) - 1), NEW x \in Nat \X Nat, Bounded(x, Since(b, n))
  PROVE  LET y == Summed(b, n + 1, x)
         IN  /\ Bounded(y, Since(b, n + 1))
             /\ Congruent(y[1], x[1] + b[n + 1])
             /\ Congruent(y[2], x[2] + x[1] + b[n + 1])
<1> DEFINE R    == Radix
           K    == Block
           S    == Start1
           j    == n % K
           sum1 == x[1] + b[n + 1]
           sum2 == x[2] + sum1
           y    == Summed(b, n + 1, x)
<1>0. /\ R \in Nat /\ R >= 2 /\ m \in Nat /\ m = R - 1 /\ K \in Nat /\ K >= 1 /\ K > 0
      /\ n \in Nat /\ Len(b) \in Nat /\ n + 1 \in 1..Len(b) /\ n # Len(b)
  BY WireAssumption DEF m
<1>1. S \in Nat /\ S <= 2 * m /\ 4 * m + 2 * K * S + m * K * (K + 1) < 2 * R * R
  <2> DEFINE z == 2 * m + K * m
  <2>1. z \in Nat
    BY <1>0
  <2>2. S = m + (z \div R)
    BY DEF Start1, m
  <2>3. z \div R \in Nat
    <3> HIDE DEF z
    <3> QED  BY <1>0, <2>1, Division
  <2>4. S \in Nat
    BY <1>0, <2>2, <2>3
  <2> QED  BY <2>4, BlockAssumption DEF m
<1>2. /\ j \in 0..(K - 1)
      /\ (n + 1) % K # 0 => (n + 1) % K = j + 1
  BY <1>0, NextRemainder, Zenon
<1>3. x[1] \in Nat /\ x[2] \in Nat /\ b[n + 1] \in 0..m
  <2>1. b[n + 1] \in Bytes
    BY <1>0
  <2> QED  BY <1>0, <2>1 DEF Bytes
<1>4. 1 <= x[1] /\ x[1] <= S + j * m /\ 1 <= x[2] /\ 2 * x[2] <= 4 * m + 2 * j * S + m * j * (j + 1)
  <2>1. Since(b, n) = j
    BY <1>0 DEF Since
  <2> HIDE DEF j
  <2> QED  BY <2>1 DEF Bounded
<1> HIDE DEF j
<1>5. y = IF (n + 1) % K = 0 \/ n + 1 = Len(b) THEN <<Carry(sum1), Carry(sum2)>> ELSE <<sum1, sum2>>
  BY Zenon DEF Summed
<1>6. sum1 \in Nat /\ sum2 \in Nat /\ sum1 >= 1 /\ sum2 >= 1
  BY <1>3, <1>4
<1>7. /\ (j + 1) * m = j * m + m /\ 2 * (j + 1) * S = 2 * j * S + 2 * S
      /\ m * (j + 1) * (j + 1 + 1) = m * j * (j + 1) + 2 * (j + 1) * m
  <2>1. j \in Int /\ m \in Int /\ S \in Int
    BY <1>0, <1>1, <1>2
  <2> QED  BY <2>1
<1>8. sum1 <= S + (j + 1) * m /\ 2 * sum2 <= 4 * m + 2 * (j + 1) * S + m * (j + 1) * (j + 1 + 1)
  <2> DEFINE A  == j * m
             A1 == (j + 1) * m
             B  == 2 * j * S
             B1 == 2 * (j + 1) * S
             C  == m * j * (j + 1)
             C1 == m * (j + 1) * (j + 1 + 1)
  <2>1. A \in Int /\ A1 \in Int /\ B \in Int /\ B1 \in Int /\ C \in Int /\ C1 \in Int
    BY <1>0, <1>1, <1>2
  <2>2. A1 = A + m /\ B1 = B + 2 * S /\ C1 = C + 2 * A1
    <3>1. 2 * (j + 1) * m = 2 * A1
      BY <1>0, <1>2
    <3> QED  BY <1>7, <3>1
  <2>3. x[1] <= S + A /\ 2 * x[2] <= 4 * m + B + C
    BY <1>4
  <2> HIDE DEF A, A1, B, B1, C, C1
  <2>4. sum1 <= S + A1
    BY <1>0, <1>1, <1>3, <2>1, <2>2, <2>3
  <2>5. 2 * sum2 = 2 * x[2] + 2 * sum1
    BY <1>3
  <2> HIDE DEF sum1, sum2
  <2>6. 2 * sum2 <= 4 * m + B1 + C1
    BY <1>0, <1>1, <1>3, <1>6, <2>1, <2>2, <2>3, <2>4, <2>5
  <2> QED  BY <2>4, <2>6 DEF A1, B1, C1
<1> HIDE DEF sum1, sum2, y
<1>9. CASE (n + 1) % K = 0 \/ n + 1 = Len(b)
  <2>1. y = <<Carry(sum1), Carry(sum2)>> /\ Since(b, n + 1) = 0
    BY <1>5, <1>9 DEF Since
  <2> DEFINE z == 2 * m + K * m
  <2>2. z \in Nat /\ S = m + (z \div R)
    BY <1>0 DEF Start1, m
  <2>3. sum1 <= z
    <3>1. (j + 1) * m <= K * m
      BY <1>0, <1>2
    <3> QED  BY <1>0, <1>1, <1>2, <1>6, <1>8, <3>1
  <2>4. sum2 < R * R
    <3>1. (j + 1) * S <= K * S
      BY <1>0, <1>1, <1>2
    <3>2. m * (j + 1) * (j + 1 + 1) <= m * K * (K + 1)
      <4>1. (j + 1) * (j + 1 + 1) <= K * (K + 1)
        BY <1>0, <1>2
      <4> DEFINE a == (j + 1) * (j + 1 + 1)
                 c == K * (K + 1)
      <4>2. a \in Nat /\ c \in Nat /\ a <= c
        BY <1>0, <1>2, <4>1
      <4>3. m * (j + 1) * (j + 1 + 1) = m * a /\ m * K * (K + 1) = m * c
        BY <1>0, <1>2
      <4> HIDE DEF a, c
      <4>4. m * a <= m * c
        BY <1>0, <4>2
      <4> QED  BY <4>3, <4>4
    <3> DEFINE A == 2 * (j + 1) * S
               B == m * (j + 1) * (j + 1 + 1)
               C == 2 * K * S
               D == m * K * (K + 1)
               Q == R * R
    <3>3. A \in Int /\ B \in Int /\ C \in Int /\ D \in Int /\ Q \in Int /\ A <= C /\ B <= D
          /\ 2 * sum2 <= 4 * m + A + B /\ 4 * m + C + D < 2 * Q
      BY <1>0, <1>1, <1>2, <1>8, <3>1, <3>2
    <3> HIDE DEF A, B, C, D, Q
    <3>4. sum2 < Q
      BY <1>0, <1>6, <3>3
    <3> QED  BY <3>4 DEF Q
  <2> HIDE DEF z
  <2>5. Carry(sum1) \in Nat /\ Carry(sum1) >= 1 /\ Carry(sum1) <= S /\ Congruent(Carry(sum1), sum1)
    BY <1>6, <2>2, <2>3, CarryFacts, Zenon DEF Congruent
  <2>6. Carry(sum2) \in Nat /\ Carry(sum2) >= 1 /\ Carry(sum2) <= 2 * m /\ Congruent(Carry(sum2), sum2)
    BY <1>6, <2>4, CarryFacts DEF Congruent
  <2>7. Bounded(y, 0)
    BY <1>0, <1>1, <2>1, <2>5, <2>6 DEF Bounded
  <2>8. y[1] = Carry(sum1) /\ y[2] = Carry(sum2)
    BY <2>1
  <2>9. sum2 = x[2] + x[1] + b[n + 1] /\ sum1 = x[1] + b[n + 1]
    BY <1>3 DEF sum1, sum2
  <2> QED  BY <2>1, <2>5, <2>6, <2>7, <2>8, <2>9, Zenon DEF y
<1>10. CASE ~((n + 1) % K = 0 \/ n + 1 = Len(b))
  <2>1. y = <<sum1, sum2>> /\ Since(b, n + 1) = j + 1
    BY <1>2, <1>5, <1>10 DEF Since
  <2>2. Bounded(y, j + 1) /\ y[1] = sum1 /\ y[2] = sum2
    BY <1>6, <1>8, <2>1 DEF Bounded
  <2>3. sum2 = x[2] + x[1] + b[n + 1] /\ sum1 = x[1] + b[n + 1]
    BY <1>3 DEF sum1, sum2
  <2>4. Congruent(sum1, sum1) /\ Congruent(sum2, sum2)
    <3>1. sum1 = sum1 + 0 * m /\ sum2 = sum2 + 0 * m
      BY <1>0, <1>6
    <3> QED  BY <3>1 DEF Congruent
  <2> QED  BY <2>1, <2>2, <2>3, <2>4, Zenon DEF y
<1> QED  BY <1>9, <1>10 DEF y

(* The first sum follows the plain sum.                                    *)
LEMMA CongruentStep ==
  ASSUME NEW x \in Int, NEW y \in Int, NEW z \in Int, NEW d \in Int,
         Congruent(x, y + d), Congruent(y, z)
  PROVE  Congruent(x, z + d)
<1>0. m \in Int
  BY WireAssumption DEF m
<1>1. PICK k \in Int : x = y + d + k * m
  BY DEF Congruent
<1>2. PICK i \in Int : y = z + i * m
  BY DEF Congruent
<1>3. x = z + d + (k + i) * m /\ k + i \in Int
  BY <1>0, <1>1, <1>2
<1> QED  BY <1>3, Zenon DEF Congruent

(* The second sum follows the sum of the sums.                             *)
LEMMA CongruentSum ==
  ASSUME NEW x \in Int, NEW a \in Int, NEW c \in Int, NEW a0 \in Int, NEW c0 \in Int, NEW d \in Int,
         Congruent(x, a + c + d), Congruent(a, a0), Congruent(c, c0)
  PROVE  Congruent(x, a0 + c0 + d)
<1>0. m \in Int
  BY WireAssumption DEF m
<1>1. PICK k \in Int : x = a + c + d + k * m
  BY DEF Congruent
<1>2. PICK i \in Int : a = a0 + i * m
  BY DEF Congruent
<1>3. PICK j \in Int : c = c0 + j * m
  BY DEF Congruent
<1>4. x = a0 + c0 + d + (k + i + j) * m /\ k + i + j \in Int
  BY <1>0, <1>1, <1>2, <1>3
<1> QED  BY <1>4, Zenon DEF Congruent

(* The checksum of a body, before its last reduction.                      *)
LEMMA SumsFacts ==
  ASSUME NEW b \in Seq(Bytes)
  PROVE  \E last \in Nat \X Nat :
            /\ fletcher16(b) = Carry(last[2]) * Radix + Carry(last[1])
            /\ Bounded(last, 0)
            /\ PlainSum(b) \in Int /\ WeightedSum(b) \in Int
            /\ Congruent(last[1], PlainSum(b)) /\ Congruent(last[2], WeightedSum(b))
<1> DEFINE L == Len(b)
<1>0. /\ m \in Nat /\ m >= 1 /\ Block \in Nat /\ Block > 0 /\ L \in Nat /\ Start1 \in Nat /\ m <= Start1
      /\ \A n \in 1..L : b[n] \in Int
  <2>1. Radix \in Nat /\ Radix >= 2 /\ m = Radix - 1 /\ Block \in Nat /\ Block > 0
    BY WireAssumption DEF m
  <2> DEFINE z == 2 * (Radix - 1) + Block * (Radix - 1)
  <2>2. z \in Nat /\ Start1 = m + (z \div Radix)
    BY <2>1 DEF Start1
  <2> HIDE DEF z
  <2>3. z \div Radix \in Nat
    BY <2>1, <2>2, Division
  <2>4. \A n \in 1..L : b[n] \in Int
    BY <2>1 DEF Bytes
  <2> QED  BY <2>1, <2>2, <2>3, <2>4
<1>1. PICK f \in [0..Len(b) -> Nat \X Nat] :
            /\ f[0] = <<Radix - 1, Radix - 1>>
            /\ fletcher16(b) = Carry(f[Len(b)][2]) * Radix + Carry(f[Len(b)][1])
            /\ \A n \in 1..Len(b) : f[n] = Summed(b, n, f[n - 1])
  BY ChecksumRun, Zenon
<1>2. PICK s \in [0..Len(b) -> Int] :
            /\ s[0] = 0 /\ PlainSum(b) = s[Len(b)]
            /\ \A n \in 1..Len(b) : s[n] = s[n - 1] + b[n]
  BY PlainRun
<1>3. PICK w \in [0..Len(b) -> Int] :
            /\ w[0] = 0 /\ WeightedSum(b) = w[Len(b)]
            /\ \A n \in 1..Len(b) : w[n] = w[n - 1] + (Len(b) + 1 - n) * b[n]
  BY WeightedRun
<1> DEFINE Good(n) == /\ Bounded(f[n], Since(b, n))
                      /\ Congruent(f[n][1], s[n])
                      /\ Congruent(f[n][2], w[n] - (L - n) * s[n])
           T == {n \in Nat : n <= L => Good(n)}
<1>4. 0 \in T
  <2>1. Since(b, 0) = 0
    BY <1>0 DEF Since
  <2>2. f[0][1] = m /\ f[0][2] = m
    BY <1>1 DEF m
  <2>3. Bounded(f[0], 0)
    BY <1>0, <2>2 DEF Bounded
  <2>4. s[0] = 0 /\ w[0] - (L - 0) * s[0] = 0 /\ m = 0 + 1 * m
    BY <1>0, <1>2, <1>3
  <2>5. Congruent(m, 0)
    BY <2>4 DEF Congruent
  <2> QED  BY <2>1, <2>2, <2>3, <2>4, <2>5
<1>5. ASSUME NEW n \in Nat, n \in T PROVE n + 1 \in T
  <2> SUFFICES ASSUME n + 1 <= L PROVE Good(n + 1)
    OBVIOUS
  <2>0. n \in 0..L /\ n + 1 \in 1..L /\ n + 1 \in 0..L /\ n + 1 - 1 = n /\ n <= L /\ n \in 0..(Len(b) - 1)
    BY <1>0
  <2>1. Good(n)
    BY <1>5, <2>0, Zenon
  <2> DEFINE x  == f[n]
             y  == f[n + 1]
             d  == b[n + 1]
             s0 == s[n]
             w0 == w[n]
  <2>2. x \in Nat \X Nat /\ y \in Nat \X Nat /\ s0 \in Int /\ w0 \in Int /\ d \in Int
    BY <1>0, <2>0, Zenon
  <2>3. y = Summed(b, n + 1, x)
    BY <1>1, <2>0
  <2>4. s[n + 1] = s0 + d
    BY <1>2, <2>0
  <2>5. w[n + 1] = w0 + (L - n) * d
    <3>1. L + 1 - (n + 1) = L - n
      BY <1>0
    <3> QED  BY <1>3, <2>0, <3>1
  <2> HIDE DEF x, y, s0, w0, d
  <2>6. /\ Bounded(y, Since(b, n + 1))
        /\ Congruent(y[1], x[1] + d)
        /\ Congruent(y[2], x[2] + x[1] + d)
    <3>1. Bounded(x, Since(b, n))
      BY <2>1 DEF x
    <3> QED  BY <2>0, <2>2, <2>3, <3>1, SummedFacts, Zenon DEF d
  <2>7. Congruent(x[1], s0) /\ Congruent(x[2], w0 - (L - n) * s0)
    BY <2>1 DEF x, s0, w0
  <2>8. x[1] \in Int /\ x[2] \in Int /\ y[1] \in Int /\ y[2] \in Int /\ w0 - (L - n) * s0 \in Int
    BY <1>0, <2>2
  <2>9. Congruent(y[1], s0 + d)
    BY <2>2, <2>6, <2>7, <2>8, CongruentStep, Zenon
  <2>10. Congruent(y[2], (w0 - (L - n) * s0) + s0 + d)
    <3> DEFINE c == w0 - (L - n) * s0
    <3>1. c \in Int /\ Congruent(x[2], c)
      BY <2>7, <2>8
    <3> HIDE DEF c
    <3>2. Congruent(y[2], c + s0 + d)
      BY <2>2, <2>6, <2>7, <2>8, <3>1, CongruentSum, Zenon
    <3> QED  BY <3>2 DEF c
  <2>11. (w0 - (L - n) * s0) + s0 + d = (w0 + (L - n) * d) - (L - (n + 1)) * (s0 + d)
    BY <1>0, <2>2
  <2> QED  BY <2>4, <2>5, <2>6, <2>9, <2>10, <2>11 DEF y
<1> HIDE DEF T
<1>6. L \in T
  BY <1>0, <1>4, <1>5, Induction, Zenon
<1>7. Good(L)
  BY <1>0, <1>6 DEF T
<1>8. Since(b, L) = 0 /\ f[L] \in Nat \X Nat /\ s[L] \in Int /\ w[L] \in Int
  BY <1>0 DEF Since
<1>9. w[L] - (L - L) * s[L] = w[L]
  BY <1>0, <1>8
<1> QED  BY <1>1, <1>2, <1>3, <1>7, <1>8, <1>9, Zenon

(* The last reduction gives a byte, the residue.                           *)
LEMMA ReducedByte ==
  ASSUME NEW x \in Nat, NEW sum \in Int, 1 <= x, x <= 2 * m, Congruent(x, sum)
  PROVE  Carry(x) \in 1..m /\ Reduces(Carry(x), sum)
<1>0. m \in Nat /\ m > 0 /\ Radix - 1 = m
  BY WireAssumption DEF m
<1>1. Carry(x) \in 1..m /\ Carry(x) \in Int /\ \E k \in Int : Carry(x) = x + k * m
  <2>1. x >= 1
    OBVIOUS
  <2>2. Carry(x) \in Nat /\ Carry(x) >= 1 /\ Carry(x) <= m /\ \E k \in Int : Carry(x) = x + k * m
    BY <2>1, CarryFacts, Zenon
  <2> QED  BY <1>0, <2>2
<1>2. PICK k \in Int : Carry(x) = x + k * m
  BY <1>1
<1>3. PICK i \in Int : x = sum + i * m
  BY DEF Congruent
<1>4. Carry(x) - sum = (k + i) * m /\ k + i \in Int
  BY <1>0, <1>2, <1>3
<1>5. ((k + i) * m) % m = 0
  BY <1>0, <1>4, MultipleOf, Zenon
<1> QED  BY <1>0, <1>1, <1>4, <1>5 DEF Reduces

(* Each half of the checksum of any body is the residue it stands for.     *)
LEMMA ChecksumResidue ==
  ASSUME NEW b \in Seq(Bytes)
  PROVE  /\ Reduces(fletcher16(b) % Radix, PlainSum(b))
         /\ Reduces(fletcher16(b) \div Radix, WeightedSum(b))
<1>1. PICK last \in Nat \X Nat :
            /\ fletcher16(b) = Carry(last[2]) * Radix + Carry(last[1])
            /\ Bounded(last, 0)
            /\ PlainSum(b) \in Int /\ WeightedSum(b) \in Int
            /\ Congruent(last[1], PlainSum(b)) /\ Congruent(last[2], WeightedSum(b))
  BY SumsFacts
<1>0. Radix \in Nat /\ Radix >= 2 /\ m = Radix - 1 /\ m \in Nat /\ last[1] \in Nat /\ last[2] \in Nat
  BY WireAssumption DEF m
<1>2. 1 <= last[1] /\ last[1] <= 2 * m /\ 1 <= last[2] /\ last[2] <= 2 * m
  <2>1. Start1 <= 2 * m
    BY BlockAssumption DEF m
  <2>2. Start1 \in Int
    BY <1>0, WireAssumption DEF Start1
  <2>3. Start1 + 0 * m = Start1 /\ 4 * m + 2 * 0 * Start1 + m * 0 * (0 + 1) = 4 * m
    BY <1>0, <2>2
  <2>4. last[1] <= Start1 /\ 2 * last[2] <= 4 * m /\ 1 <= last[1] /\ 1 <= last[2]
    BY <1>1, <2>3 DEF Bounded
  <2> QED  BY <1>0, <2>1, <2>2, <2>4
<1> DEFINE c1 == Carry(last[1])
           c2 == Carry(last[2])
<1>3. c1 \in 1..m /\ Reduces(c1, PlainSum(b))
  BY <1>0, <1>1, <1>2, ReducedByte
<1>4. c2 \in 1..m /\ Reduces(c2, WeightedSum(b))
  BY <1>0, <1>1, <1>2, ReducedByte
<1> DEFINE x == fletcher16(b)
<1>5. x = c2 * Radix + c1
  BY <1>1
<1> HIDE DEF c1, c2, x
<1>6. x % Radix = c1 /\ x \div Radix = c2
  <2> DEFINE q == x \div Radix
             r == x % Radix
  <2>1. x \in Nat
    BY <1>0, <1>3, <1>4, <1>5
  <2>2. q \in Int /\ r \in 0..(Radix - 1) /\ x = Radix * q + r
    BY <1>0, <2>1, Division
  <2> HIDE DEF q, r
  <2>3. Radix * (q - c2) = c1 - r
    BY <1>0, <1>3, <1>4, <1>5, <2>2
  <2> DEFINE e == q - c2
  <2>4. e \in Int /\ (e <= -1 \/ e = 0 \/ e >= 1)
    BY <1>4, <2>2
  <2>5. (e <= -1 => Radix * e <= -Radix) /\ (e >= 1 => Radix * e >= Radix)
    BY <1>0, <2>4
  <2>6. e = 0
    BY <1>0, <1>3, <2>2, <2>3, <2>4, <2>5
  <2>7. q = c2 /\ r = c1
    BY <1>0, <1>3, <1>4, <2>2, <2>3, <2>6
  <2> QED  BY <2>7 DEF q, r
<1> QED  BY <1>3, <1>4, <1>6, Zenon DEF x

(* fletcher16 reduces its sums only at the end of a block of bytes and     *)
(* once after the last: for every sequence of bytes its two halves are the *)
(* plain and the weighted sum modulo Radix - 1, each in a single byte, so  *)
(* the deferred reductions lose nothing and leave no carry.                *)
THEOREM ChecksumsAreResidues == MCSpec => []ChecksumIsResidue
<1> DEFINE Inv == body \in Seq(Bytes)
<1>1. MCInit => Inv
  <2>1. MCInit => body = << >>
    BY Zenon DEF MCInit
  <2> QED  BY <2>1
<1>2. Inv /\ [Gate \/ Checksum \/ Histogram]_<<of, body, vars, histogram>> => Inv'
  <2> SUFFICES ASSUME Inv, [Gate \/ Checksum \/ Histogram]_<<of, body, vars, histogram>> PROVE Inv'
    OBVIOUS
  <2>1. CASE Checksum
    <3>1. PICK b \in 0..(Radix - 1) : body' = Append(body, b)
      BY <2>1 DEF Checksum
    <3> QED  BY <3>1, AppendProperties DEF Bytes
  <2>2. CASE body' = body
    BY <2>2
  <2> QED  BY <2>1, <2>2, Zenon DEF Gate, Histogram
<1>3. Inv => ChecksumIsResidue
  BY ChecksumResidue DEF ChecksumIsResidue
<1> QED  BY <1>1, <1>2, <1>3, PTL DEF MCSpec

-----------------------------------------------------------------------------
(* The histogram.                                                          *)

(* Half the number of sub-buckets.                                         *)
half == Pow2[sub_bits_ - 1]

(* The sizes of the histogram.                                             *)
LEMMA HistogramFacts ==
    /\ sub_bits_ \in Nat /\ sub_bits_ >= 1 /\ ValueBits \in Nat /\ sub_bits_ <= ValueBits
    /\ sub_bits_ - 1 \in Nat /\ ValueBits - sub_bits_ \in Nat
    /\ half \in Nat /\ half >= 1 /\ sub_half_ = half /\ sub_count_ = 2 * half
    /\ sub_count_ = Pow2[sub_bits_] /\ Pow2[ValueBits] \in Nat /\ sub_count_ <= Pow2[ValueBits]
<1>1. /\ sub_bits_ \in Nat /\ sub_bits_ >= 1 /\ ValueBits \in Nat /\ sub_bits_ <= ValueBits
      /\ sub_bits_ - 1 \in Nat /\ ValueBits - sub_bits_ \in Nat /\ sub_bits_ - 1 + 1 = sub_bits_
  BY HistogramAssumption
<1>2. half \in Nat /\ half >= 1 /\ Pow2[ValueBits] \in Nat
  BY <1>1, Pow2Positive, Zenon DEF half
<1>3. Pow2[sub_bits_] = 2 * half
  <2>1. Pow2[sub_bits_ - 1 + 1] = 2 * Pow2[sub_bits_ - 1]
    BY <1>1, Pow2Def, Zenon
  <2> QED  BY <1>1, <2>1 DEF half
<1>4. sub_half_ = half
  BY <1>2, <1>3 DEF sub_half_, sub_count_
<1>5. Pow2[sub_bits_] <= Pow2[ValueBits]
  BY <1>1, Pow2Monotone
<1> QED  BY <1>1, <1>2, <1>3, <1>4, <1>5 DEF sub_count_

(* bit_length is the position of the highest bit.                          *)
LEMMA BitLength ==
  ASSUME NEW x \in 1..(Pow2[ValueBits] - 1)
  PROVE  LET n == bit_length(x)
         IN  n \in 1..ValueBits /\ x < Pow2[n] /\ Pow2[n - 1] <= x
<1>0. ValueBits \in Nat /\ Pow2[ValueBits] \in Nat /\ x \in Nat /\ x >= 1
  BY HistogramFacts
<1> DEFINE T == {n \in Nat : x < Pow2[n]}
<1>1. ValueBits \in T
  BY <1>0
<1>2. PICK n \in T : \A i \in T : n <= i
  BY <1>1, LeastNatural, Zenon
<1>3. n \in Nat /\ n <= ValueBits /\ x < Pow2[n]
  BY <1>1, <1>2
<1>4. n # 0
  BY <1>0, <1>3, Pow2Def
<1>5. n - 1 \in Nat /\ n - 1 \notin T
  <2>1. n - 1 \in Nat /\ ~(n <= n - 1)
    BY <1>3, <1>4
  <2> QED  BY <1>2, <2>1
<1>6. Pow2[n - 1] \in Nat
  BY <1>5, Pow2Positive
<1>7. Pow2[n - 1] <= x
  BY <1>0, <1>5, <1>6
<1> DEFINE Fit(i) == x < Pow2[i] /\ (i > 0 => x >= Pow2[i - 1])
<1>8. n \in 0..ValueBits /\ Fit(n)
  BY <1>0, <1>3, <1>6, <1>7
<1> DEFINE c == CHOOSE i \in 0..ValueBits : Fit(i)
<1>9. c \in 0..ValueBits /\ Fit(c)
  BY <1>8, Zenon
<1>10. c = bit_length(x)
  BY DEF bit_length
<1> HIDE DEF c
<1>11. c # 0
  BY <1>0, <1>9, Pow2Def
<1>12. c \in 1..ValueBits /\ c - 1 \in Nat /\ c > 0
  BY <1>0, <1>9, <1>11
<1>13. Pow2[c - 1] \in Nat
  BY <1>12, Pow2Positive
<1>14. x < Pow2[c] /\ Pow2[c - 1] <= x
  BY <1>0, <1>9, <1>12, <1>13
<1> QED  BY <1>10, <1>12, <1>14

(* The bucket of a value, and its place in it.                             *)
LEMMA BucketFacts ==
  ASSUME NEW v \in Value
  PROVE  LET b == Bucket(v)
             P == Pow2[b]
             q == v \div P
         IN  /\ b \in 0..(ValueBits - sub_bits_) /\ P \in Nat /\ P >= 1 /\ (b = 0 => P = 1)
             /\ v < 2 * half * P /\ (b > 0 => half * P <= v)
             /\ q \in Nat /\ q * P <= v /\ v < q * P + P
             /\ q < 2 * half /\ (b > 0 => half <= q)
             /\ index_for(v) = b * half + q
<1> DEFINE s == sub_bits_
           y == IF v < sub_count_ THEN sub_count_ - 1 ELSE v
           n == bit_length(y)
           b == Bucket(v)
           P == Pow2[b]
           q == v \div P
<1>0. /\ s \in Nat /\ s >= 1 /\ ValueBits \in Nat /\ s <= ValueBits /\ s - 1 \in Nat
      /\ half \in Nat /\ half >= 1 /\ sub_half_ = half /\ sub_count_ = 2 * half
      /\ sub_count_ = Pow2[s] /\ Pow2[ValueBits] \in Nat /\ sub_count_ <= Pow2[ValueBits]
  BY HistogramFacts
<1>1. v \in Nat /\ v < Pow2[ValueBits]
  BY <1>0 DEF Value
<1>2. y \in 1..(Pow2[ValueBits] - 1) /\ v <= y /\ 2 * half - 1 <= y /\ (y >= 2 * half => y = v)
  BY <1>0, <1>1
<1>3. b = n - s
  BY DEF Bucket
<1> HIDE DEF y
<1>4. n \in 1..ValueBits /\ y < Pow2[n] /\ Pow2[n - 1] <= y
  BY <1>2, BitLength, Zenon
<1> HIDE DEF n
<1>5. s <= n
  <2> SUFFICES ASSUME n < s PROVE FALSE
    BY <1>0, <1>4
  <2>1. n \in Nat /\ n <= s - 1
    BY <1>0, <1>4
  <2>2. Pow2[n] <= half
    BY <1>0, <2>1, Pow2Monotone DEF half
  <2>3. Pow2[n] \in Nat
    BY <2>1, Pow2Positive
  <2> QED  BY <1>0, <1>1, <1>2, <1>4, <2>2, <2>3
<1>6. b \in 0..(ValueBits - s) /\ b \in Nat /\ n = s + b /\ (b > 0 => b - 1 \in Nat /\ n - 1 = s - 1 + b /\ s <= n - 1)
  BY <1>0, <1>3, <1>4, <1>5
<1> HIDE DEF b
<1>7. P \in Nat /\ P >= 1 /\ (b = 0 => P = 1)
  BY <1>6, Pow2Positive, Pow2Def
<1>8. v < 2 * half * P
  <2>1. Pow2[s + b] = Pow2[s] * Pow2[b]
    BY <1>0, <1>6, Pow2Product, Zenon
  <2>2. Pow2[n] = 2 * half * P
    BY <1>0, <1>6, <2>1
  <2> HIDE DEF P
  <2>3. y \in Nat /\ 2 * half * P \in Nat
    BY <1>0, <1>2, <1>7
  <2> QED  BY <1>1, <1>2, <1>4, <2>2, <2>3
<1>9. ASSUME b > 0 PROVE half * P <= v
  <2> DEFINE a == s - 1
  <2>0. a \in Nat /\ n - 1 = a + b
    BY <1>0, <1>6, <1>9
  <2> HIDE DEF a
  <2>1. Pow2[a + b] = Pow2[a] * Pow2[b]
    BY <1>6, <2>0, Pow2Product, Zenon
  <2>2. Pow2[n - 1] = half * P
    BY <2>0, <2>1 DEF half, a
  <2>3. n - 1 \in Nat /\ Pow2[s] <= Pow2[n - 1]
    BY <1>0, <1>4, <1>6, <1>9, Pow2Monotone
  <2>4. Pow2[n - 1] \in Nat /\ y \in Nat
    BY <1>2, <2>3, Pow2Positive
  <2>5. y >= 2 * half
    BY <1>0, <1>4, <2>3, <2>4
  <2>6. y = v
    BY <1>2, <2>5
  <2> QED  BY <1>4, <2>2, <2>6
<1>10. q \in Nat /\ v % P \in 0..(P - 1) /\ v = P * q + (v % P)
  <2> HIDE DEF P
  <2> QED  BY <1>1, <1>7, Division
<1>11. index_for(v) = b * half + q
  <2>1. index_for(v) = (b + 1) * half + (q - half)
    BY <1>0 DEF index_for, b
  <2> HIDE DEF q
  <2> QED  BY <1>0, <1>6, <1>10, <2>1
<1> HIDE DEF P
<1>12. q * P <= v /\ v < q * P + P
  <2> DEFINE r == v % P
  <2>1. r \in 0..(P - 1) /\ v = P * q + r
    BY <1>10
  <2> HIDE DEF q, r
  <2> QED  BY <1>7, <1>10, <2>1
<1> HIDE DEF q
<1>13. q < 2 * half
  <2> SUFFICES ASSUME q >= 2 * half PROVE FALSE
    BY <1>0, <1>10
  <2>1. q * P >= 2 * half * P
    BY <1>0, <1>7, <1>10
  <2>2. q * P \in Nat /\ 2 * half * P \in Nat
    BY <1>0, <1>7, <1>10
  <2> QED  BY <1>1, <1>8, <1>12, <2>1, <2>2
<1>14. ASSUME b > 0 PROVE half <= q
  <2> SUFFICES ASSUME q + 1 <= half PROVE FALSE
    BY <1>0, <1>10
  <2>1. (q + 1) * P <= half * P /\ (q + 1) * P = q * P + P
    BY <1>0, <1>7, <1>10
  <2>2. q * P \in Nat /\ half * P \in Nat
    BY <1>0, <1>7, <1>10
  <2> QED  BY <1>1, <1>7, <1>9, <1>12, <1>14, <2>1, <2>2
<1> QED  BY <1>6, <1>7, <1>8, <1>9, <1>10, <1>11, <1>12, <1>13, <1>14 DEF b, P, q

(* The value a bucket stands for is at most the value recorded in it and   *)
(* close to it.                                                            *)
LEMMA IndexFacts ==
  ASSUME NEW v \in Value
  PROVE  /\ index_for(v) \in Buckets
         /\ value_from_index(index_for(v)) \in Nat
         /\ value_from_index(index_for(v)) <= v
         /\ (v - value_from_index(index_for(v))) * sub_half_ <= v
<1> DEFINE b == Bucket(v)
           P == Pow2[b]
           q == v \div P
           i == index_for(v)
           low == value_from_index(i)
           V == ValueBits - sub_bits_
<1>0. /\ V \in Nat /\ half \in Nat /\ half >= 1 /\ sub_half_ = half /\ sub_count_ = 2 * half
      /\ LastBucket = (V + 2) * half
  BY HistogramFacts DEF LastBucket
<1>1. /\ b \in 0..V /\ P \in Nat /\ P >= 1 /\ (b = 0 => P = 1)
      /\ v < 2 * half * P /\ (b > 0 => half * P <= v)
      /\ q \in Nat /\ q * P <= v /\ v < q * P + P
      /\ q < 2 * half /\ (b > 0 => half <= q)
      /\ i = b * half + q
  BY BucketFacts
<1>2. v \in Nat
  BY HistogramFacts DEF Value
<1> HIDE DEF b, q, i, V
<1>3. i \in Nat /\ i <= LastBucket
  <2>1. b * half <= V * half /\ (V + 2) * half = V * half + 2 * half /\ b * half \in Nat /\ V * half \in Nat
    BY <1>0, <1>1
  <2> QED  BY <1>0, <1>1, <2>1
<1>4. low = q * P
  <2>1. CASE b = 0
    <3>1. i = q /\ i < 2 * half
      BY <1>0, <1>1, <2>1
    <3>2. low = i
      BY <1>0, <3>1 DEF value_from_index
    <3> HIDE DEF P
    <3> QED  BY <1>1, <2>1, <3>1, <3>2
  <2>2. CASE b > 0
    <3> DEFINE r == q - half
    <3>1. r \in 0..(half - 1) /\ i = half * (b + 1) + r /\ b + 1 \in Nat
      BY <1>0, <1>1, <2>2
    <3> HIDE DEF r
    <3>2. ~(i < 2 * half)
      <4>1. half * (b + 1) >= half * 2
        BY <1>0, <1>1, <2>2
      <4> QED  BY <1>0, <1>1, <3>1, <4>1
    <3>3. i % half = r /\ i \div half = b + 1
      <4> DEFINE p == i \div half
                 t == i % half
      <4>1. p \in Int /\ t \in 0..(half - 1) /\ i = half * p + t
        BY <1>0, <1>3, Division
      <4> HIDE DEF p, t
      <4> DEFINE e == p - (b + 1)
      <4>2. half * e = r - t /\ e \in Int
        BY <1>0, <1>1, <3>1, <4>1
      <4>3. (e <= -1 => half * e <= -half) /\ (e >= 1 => half * e >= half)
        BY <1>0, <4>2
      <4>4. e = 0
        BY <1>0, <3>1, <4>1, <4>2, <4>3
      <4>5. p = b + 1 /\ t = r
        BY <1>0, <1>1, <3>1, <4>1, <4>2, <4>4
      <4> QED  BY <4>5 DEF p, t
    <3>4. ~(i < sub_count_)
      BY <1>0, <3>2
    <3>5. low = ((i % sub_half_) + sub_half_) * Pow2[i \div sub_half_ - 1]
      BY <3>4, Zenon DEF value_from_index
    <3>6. (i % sub_half_) + sub_half_ = q
      BY <1>0, <1>1, <3>3 DEF r
    <3>7. i \div sub_half_ - 1 = b
      BY <1>0, <1>1, <3>3
    <3> QED  BY <3>5, <3>6, <3>7
  <2> QED  BY <1>1, <2>1, <2>2
<1> HIDE DEF P, low
<1>5. low \in Nat /\ low <= v /\ v < low + P
  BY <1>1, <1>4
<1>6. (v - low) * half <= v
  <2>1. CASE b = 0
    BY <1>0, <1>1, <1>2, <1>5, <2>1
  <2>2. CASE b > 0
    <3>1. v - low <= P /\ v - low \in Nat
      BY <1>1, <1>2, <1>5
    <3> DEFINE d == v - low
    <3> HIDE DEF d
    <3>2. d * half <= half * P /\ d * half \in Nat /\ half * P \in Nat
      BY <1>0, <1>1, <3>1 DEF d
    <3> QED  BY <1>1, <1>2, <2>2, <3>2 DEF d
  <2> QED  BY <1>1, <2>1, <2>2
<1> QED  BY <1>0, <1>3, <1>5, <1>6 DEF Buckets, low, i

(* A larger value is in no earlier bucket.                                 *)
LEMMA IndexMonotone ==
  ASSUME NEW v \in Value, NEW w \in Value, v <= w
  PROVE  index_for(v) <= index_for(w)
<1> DEFINE b == Bucket(v)
           P == Pow2[b]
           q == v \div P
           c == Bucket(w)
           Q == Pow2[c]
           p == w \div Q
<1>0. half \in Nat /\ half >= 1 /\ v \in Nat /\ w \in Nat
  BY HistogramFacts DEF Value
<1>1. /\ b \in Nat /\ P \in Nat /\ P >= 1 /\ (b > 0 => half * P <= v)
      /\ q \in Nat /\ q * P <= v /\ q < 2 * half /\ index_for(v) = b * half + q
  <2>1. ValueBits - sub_bits_ \in Nat
    BY HistogramFacts
  <2> QED  BY <2>1, BucketFacts
<1>2. /\ c \in Nat /\ Q \in Nat /\ Q >= 1 /\ w < 2 * half * Q
      /\ p \in Nat /\ w < p * Q + Q /\ (c > 0 => half <= p) /\ index_for(w) = c * half + p
  <2>1. ValueBits - sub_bits_ \in Nat
    BY HistogramFacts
  <2> QED  BY <2>1, BucketFacts
<1> HIDE DEF b, c, q, p
<1>3. b <= c
  <2> SUFFICES ASSUME c + 1 <= b PROVE FALSE
    BY <1>1, <1>2
  <2>1. Pow2[c + 1] <= P /\ Pow2[c + 1] = 2 * Q
    <3>1. c + 1 \in Nat
      BY <1>2
    <3> QED  BY <1>1, <1>2, <3>1, Pow2Def, Pow2Monotone
  <2> HIDE DEF P, Q
  <2>2. 2 * Q <= P /\ b > 0
    BY <1>1, <1>2, <2>1
  <2>3. half * (2 * Q) <= half * P /\ half * (2 * Q) = 2 * half * Q
    BY <1>0, <1>1, <1>2, <2>2
  <2> DEFINE x == half * P
             y == 2 * half * Q
  <2>4. x \in Nat /\ y \in Nat /\ y <= x /\ x <= v /\ w < y
    BY <1>0, <1>1, <1>2, <2>2, <2>3
  <2> HIDE DEF x, y
  <2> QED  BY <1>0, <2>4
<1>4. CASE b = c
  <2>1. P = Q
    BY <1>4
  <2> HIDE DEF P, Q
  <2>2. q <= p
    <3> SUFFICES ASSUME p + 1 <= q PROVE FALSE
      BY <1>1, <1>2
    <3>1. (p + 1) * Q <= q * Q /\ (p + 1) * Q = p * Q + Q
      BY <1>1, <1>2
    <3> DEFINE x == q * Q
               y == p * Q + Q
    <3>2. x \in Nat /\ y \in Nat /\ y <= x /\ x <= v /\ w < y
      BY <1>0, <1>1, <1>2, <2>1, <3>1
    <3> HIDE DEF x, y
    <3> QED  BY <1>0, <3>2
  <2>3. b * half = c * half /\ b * half \in Nat
    BY <1>0, <1>1, <1>4
  <2> QED  BY <1>1, <1>2, <2>2, <2>3
<1>5. CASE b < c
  <2>1. (b + 1) * half <= c * half /\ (b + 1) * half = b * half + half /\ b * half \in Nat /\ c * half \in Nat
    BY <1>0, <1>1, <1>2, <1>5
  <2> QED  BY <1>0, <1>1, <1>2, <1>5, <2>1
<1> QED  BY <1>1, <1>2, <1>3, <1>4, <1>5

-----------------------------------------------------------------------------
(* The counts up to a bucket.                                              *)
Cumulated(cs) ==
    LET Cum[i \in Buckets] == IF i = 0 THEN cs[0] ELSE Cum[i - 1] + cs[i]
    IN  Cum

(* The buckets are numbered from zero.                                     *)
LEMMA BucketsFacts == LastBucket \in Nat /\ Buckets = 0..LastBucket /\ 0 \in Buckets
<1>1. LastBucket \in Nat
  BY HistogramFacts DEF LastBucket
<1> QED  BY <1>1 DEF Buckets

(* The running count of percentile is the run of its additions.            *)
LEMMA CumRun ==
  ASSUME NEW cs \in [Buckets -> Nat]
  PROVE  \E f \in [0..LastBucket -> Nat] :
            /\ f[0] = cs[0] /\ Cumulated(cs) = f
            /\ \A n \in 1..LastBucket : f[n] = f[n - 1] + cs[n]
<1> DEFINE N          == LastBucket
           Step(n, x) == x + cs[n]
           step       == [p \in (1..N) \X Nat |-> Step(p[1], p[2])]
           Eq(g)      == g = [n \in 0..N |-> IF n = 0 THEN cs[0] ELSE Step(n, g[n - 1])]
           u          == CHOOSE g : Eq(g)
<1>0. N \in Nat /\ cs[0] \in Nat /\ \A n \in 1..N : cs[n] \in Nat
  BY BucketsFacts
<1>1. \A n \in 1..N, x \in Nat : Step(n, x) \in Nat
  BY <1>0
<1>2. Cumulated(cs) = u
  BY DEF Cumulated, Buckets
<1> HIDE DEF Step, N
<1>3. IsStep(step, 1..N, Nat)
  BY <1>1 DEF IsStep
<1>4. \A n \in 1..N, x \in Nat : step[<<n, x>>] = Step(n, x)
  OBVIOUS
<1> HIDE DEF step
<1>5. PICK f : IsBoundedRun(f, N, Nat, cs[0], step)
  BY <1>0, <1>3, BoundedRecursion, Zenon
<1>6. Eq(f)
  <2>1. f \in [0..N -> Nat] /\ f[0] = cs[0] /\ \A n \in 1..N : f[n] = step[<<n, f[n - 1]>>]
    BY <1>5, Zenon DEF IsBoundedRun
  <2>2. f = [n \in 0..N |-> f[n]] /\ \A n \in 0..N : n = 0 \/ (n \in 1..N /\ n - 1 \in 0..N)
    BY <1>0, <2>1
  <2>3. \A n \in 0..N : f[n] = IF n = 0 THEN cs[0] ELSE Step(n, f[n - 1])
    BY <1>4, <2>1, <2>2, Zenon
  <2> QED  BY <2>2, <2>3, Zenon
<1>7. Eq(u)
  BY <1>6, Zenon
<1> HIDE DEF u
<1>8. u[0] = cs[0] /\ \A n \in 1..N : u[n] = Step(n, u[n - 1])
  <2>1. 0 \in 0..N /\ \A n \in 1..N : n # 0 /\ n \in 0..N
    BY <1>0
  <2> QED  BY <1>7, <2>1, Zenon
<1>9. u \in [0..N -> Nat]
  <2>1. u = [n \in 0..N |-> u[n]]
    BY <1>7
  <2>2. \A n \in 1..N : u[n - 1] \in Nat => u[n] = step[<<n, u[n - 1]>>]
    BY <1>4, <1>8, Zenon
  <2> HIDE DEF Eq
  <2>3. Follows(u, N, Nat, cs[0], step)
    BY <1>8, <2>1, <2>2, Zenon DEF Follows
  <2> QED  BY <1>0, <1>3, <2>3, DefinedRun, Zenon
<1> HIDE DEF Eq
<1> QED  BY <1>2, <1>8, <1>9, Zenon DEF N, Step

(* The samples of a bucket, and those up to it.                            *)
In(ss, i)   == {k \in DOMAIN ss : index_for(ss[k]) = i}
(* The positions of the samples in the buckets up to i.                    *)
UpTo(ss, i) == {k \in DOMAIN ss : index_for(ss[k]) <= i}

(* The counts are those of the samples.                                    *)
CountsOf(cs, ss) == /\ cs \in [Buckets -> Nat]
                    /\ \A i \in Buckets : cs[i] = Cardinality(In(ss, i))

(* There are finitely many samples, each in a bucket.                      *)
LEMMA PositionsFinite ==
  ASSUME NEW ss \in Seq(Value)
  PROVE  /\ Len(ss) \in Nat /\ DOMAIN ss = 1..Len(ss) /\ IsFiniteSet(DOMAIN ss)
         /\ \A k \in DOMAIN ss : ss[k] \in Value /\ index_for(ss[k]) \in Buckets
         /\ \A S \in SUBSET DOMAIN ss : IsFiniteSet(S) /\ Cardinality(S) \in Nat
<1>1. Len(ss) \in Nat /\ DOMAIN ss = 1..Len(ss) /\ \A k \in DOMAIN ss : ss[k] \in Value
  OBVIOUS
<1>2. IsFiniteSet(DOMAIN ss)
  BY <1>1, FS_Interval
<1>3. \A k \in DOMAIN ss : index_for(ss[k]) \in Buckets
  BY <1>1, IndexFacts, Zenon
<1>4. ASSUME NEW S \in SUBSET DOMAIN ss PROVE IsFiniteSet(S) /\ Cardinality(S) \in Nat
  <2>1. IsFiniteSet(S)
    BY <1>2, FS_Subset
  <2> QED  BY <2>1, FS_CardinalityType
<1> QED  BY <1>1, <1>2, <1>3, <1>4

(* The running count is the number of samples up to the bucket.            *)
LEMMA CumCounts ==
  ASSUME NEW ss \in Seq(Value), NEW cs, CountsOf(cs, ss)
  PROVE  \A i \in Buckets : Cumulated(cs)[i] = Cardinality(UpTo(ss, i))
<1>0. LastBucket \in Nat /\ Buckets = 0..LastBucket /\ 0 \in Buckets
  BY BucketsFacts
<1>1. PICK f \in [0..LastBucket -> Nat] :
            /\ f[0] = cs[0] /\ Cumulated(cs) = f
            /\ \A n \in 1..LastBucket : f[n] = f[n - 1] + cs[n]
  BY CumRun DEF CountsOf
<1> DEFINE T == {i \in Nat : i <= LastBucket => f[i] = Cardinality(UpTo(ss, i))}
<1>2. \A k \in DOMAIN ss : index_for(ss[k]) \in Nat
  BY <1>0, PositionsFinite
<1>3. 0 \in T
  <2>1. UpTo(ss, 0) = In(ss, 0)
    BY <1>2 DEF UpTo, In
  <2>2. cs[0] = Cardinality(In(ss, 0))
    BY <1>0 DEF CountsOf
  <2> QED  BY <1>1, <2>1, <2>2
<1>4. ASSUME NEW i \in Nat, i \in T PROVE i + 1 \in T
  <2> SUFFICES ASSUME i + 1 <= LastBucket PROVE f[i + 1] = Cardinality(UpTo(ss, i + 1))
    OBVIOUS
  <2>0. i + 1 \in 1..LastBucket /\ i + 1 \in Buckets /\ i <= LastBucket /\ i + 1 - 1 = i
    BY <1>0
  <2>1. f[i] = Cardinality(UpTo(ss, i))
    BY <1>4, <2>0
  <2>2. cs[i + 1] = Cardinality(In(ss, i + 1))
    BY <2>0, Zenon DEF CountsOf
  <2>3. f[i + 1] = f[i] + cs[i + 1]
    BY <1>1, <2>0
  <2> DEFINE A == UpTo(ss, i)
             B == In(ss, i + 1)
  <2>4. UpTo(ss, i + 1) = A \cup B /\ A \cap B = {}
    BY <1>2 DEF UpTo, In
  <2>5. A \in SUBSET DOMAIN ss /\ B \in SUBSET DOMAIN ss
    BY DEF UpTo, In
  <2>6. IsFiniteSet(A) /\ IsFiniteSet(B) /\ Cardinality(A) \in Nat /\ Cardinality(B) \in Nat
    BY <2>5, PositionsFinite, Zenon
  <2> HIDE DEF A, B
  <2>7. Cardinality(A \cup B) = Cardinality(A) + Cardinality(B) - Cardinality({})
    BY <2>4, <2>6, FS_Union
  <2>8. Cardinality({}) = 0
    BY FS_EmptySet
  <2>9. Cardinality(A \cup B) = Cardinality(A) + Cardinality(B)
    BY <2>6, <2>7, <2>8
  <2> QED  BY <2>1, <2>2, <2>3, <2>4, <2>9, Zenon DEF A, B
<1> HIDE DEF T
<1>5. \A i \in Nat : i \in T
  BY <1>3, <1>4, Induction, Zenon
<1>6. \A i \in Buckets : f[i] = Cardinality(UpTo(ss, i))
  BY <1>0, <1>5 DEF T
<1> QED  BY <1>1, <1>6, Zenon

(* The inductive invariant of the histogram: it counts the samples.        *)
HistogramHolds ==
    /\ samples \in Seq(Value) /\ total_ = Len(samples) /\ CountsOf(counts_, samples)
    /\ min_ \in Int /\ max_ \in Int
    /\ \A k \in DOMAIN samples : min_ <= samples[k] /\ samples[k] <= max_

(* percentile finds the bucket of the sample.                              *)
LEMMA PercentileFinds ==
  ASSUME HistogramHolds, NEW k \in DOMAIN samples, NEW rank \in Ranks(samples[k])
  PROVE  percentile(rank) = value_from_index(index_for(samples[k]))
<1> DEFINE sample  == samples[k]
           i0      == index_for(sample)
           C       == Cumulated(counts_)
           reached == {i \in Buckets : C[i] >= rank}
           less    == {j \in DOMAIN samples : samples[j] < sample}
           upto    == {j \in DOMAIN samples : samples[j] <= sample}
<1>0. LastBucket \in Nat /\ Buckets = 0..LastBucket
  BY BucketsFacts
<1>1. samples \in Seq(Value) /\ CountsOf(counts_, samples) /\ total_ = Len(samples)
  BY DEF HistogramHolds
<1>2. /\ rank \in 1..total_ /\ Cardinality(less) < rank /\ rank <= Cardinality(upto)
  BY DEF Ranks
<1>3. /\ Len(samples) \in Nat /\ IsFiniteSet(DOMAIN samples)
      /\ \A j \in DOMAIN samples : samples[j] \in Value /\ index_for(samples[j]) \in Buckets
      /\ \A S \in SUBSET DOMAIN samples : IsFiniteSet(S) /\ Cardinality(S) \in Nat
  BY <1>1, PositionsFinite, Zenon
<1>4. \A i \in Buckets : C[i] = Cardinality(UpTo(samples, i))
  BY <1>1, CumCounts, Zenon
<1>5. \A j \in DOMAIN samples : samples[j] \in Nat
  <2>1. \A v \in Value : v \in Nat
    BY HistogramFacts DEF Value
  <2> QED  BY <1>3, <2>1, Zenon
<1>6. i0 \in Buckets /\ sample \in Value
  BY <1>3, Zenon
<1>7. percentile(rank) = IF reached = {} THEN max_
                         ELSE value_from_index(CHOOSE i \in reached : \A j \in reached : i <= j)
  <2>1. total_ # 0
    BY <1>1, <1>2, <1>3
  <2> QED  BY <2>1, Zenon DEF percentile, Cumulated
<1> HIDE DEF C, i0
<1>8. i0 \in reached
  <2>1. upto \subseteq UpTo(samples, i0)
    <3> SUFFICES ASSUME NEW j \in DOMAIN samples, samples[j] <= sample PROVE index_for(samples[j]) <= i0
      BY DEF UpTo
    <3> QED  BY <1>3, <1>6, IndexMonotone DEF i0
  <2>2. upto \in SUBSET DOMAIN samples /\ UpTo(samples, i0) \in SUBSET DOMAIN samples
    BY DEF UpTo
  <2> HIDE DEF upto
  <2>3. IsFiniteSet(UpTo(samples, i0)) /\ Cardinality(upto) \in Nat /\ Cardinality(UpTo(samples, i0)) \in Nat
    BY <1>3, <2>2, Zenon
  <2>4. Cardinality(upto) <= Cardinality(UpTo(samples, i0))
    BY <2>1, <2>3, FS_Subset
  <2>5. C[i0] = Cardinality(UpTo(samples, i0))
    BY <1>4, <1>6, Zenon
  <2> QED  BY <1>2, <1>3, <1>6, <2>3, <2>4, <2>5
<1>9. ASSUME NEW i \in reached PROVE i0 <= i
  <2> SUFFICES ASSUME i < i0 PROVE FALSE
    BY <1>0, <1>6
  <2>1. UpTo(samples, i) \subseteq less
    <3> SUFFICES ASSUME NEW j \in DOMAIN samples, index_for(samples[j]) <= i, ~(samples[j] < sample) PROVE FALSE
      BY DEF UpTo
    <3>1. sample <= samples[j]
      BY <1>5
    <3>2. i0 <= index_for(samples[j])
      BY <1>3, <1>6, <3>1, IndexMonotone DEF i0
    <3>3. index_for(samples[j]) \in Nat /\ i0 \in Nat /\ i \in Nat
      BY <1>0, <1>3, <1>6
    <3> QED  BY <3>2, <3>3
  <2>2. less \in SUBSET DOMAIN samples /\ UpTo(samples, i) \in SUBSET DOMAIN samples
    BY DEF UpTo
  <2> HIDE DEF less
  <2>3. IsFiniteSet(less) /\ Cardinality(less) \in Nat /\ Cardinality(UpTo(samples, i)) \in Nat
    BY <1>3, <2>2, Zenon
  <2>4. Cardinality(UpTo(samples, i)) <= Cardinality(less)
    BY <2>1, <2>3, FS_Subset
  <2>5. C[i] = Cardinality(UpTo(samples, i)) /\ C[i] >= rank
    BY <1>4
  <2> QED  BY <1>2, <1>3, <2>3, <2>4, <2>5
<1> HIDE DEF reached
<1> DEFINE c == CHOOSE i \in reached : \A j \in reached : i <= j
<1>10. c \in reached /\ \A j \in reached : c <= j
  BY <1>8, <1>9, Zenon
<1>11. reached \subseteq Nat
  BY <1>0 DEF reached
<1> HIDE DEF c
<1>12. c = i0
  BY <1>8, <1>9, <1>10, <1>11
<1>13. reached # {}
  BY <1>8
<1> QED  BY <1>7, <1>12, <1>13, Zenon DEF c, i0

(* record counts one sample more.                                          *)
LEMMA RecordKeeps ==
  ASSUME HistogramHolds, NEW value \in Value, record(value)
  PROVE  HistogramHolds'
<1> DEFINE i0 == index_for(value)
           L  == Len(samples)
           ss == Append(samples, value)
           cs == [counts_ EXCEPT ![i0] = @ + 1]
<1>0. /\ samples \in Seq(Value) /\ total_ = L /\ min_ \in Int /\ max_ \in Int
      /\ counts_ \in [Buckets -> Nat] /\ \A i \in Buckets : counts_[i] = Cardinality(In(samples, i))
      /\ \A k \in DOMAIN samples : min_ <= samples[k] /\ samples[k] <= max_
  BY DEF HistogramHolds, CountsOf
<1>1. i0 \in Buckets
  BY IndexFacts
<1>2. counts_' = cs /\ total_' = total_ + 1 /\ samples' = ss
  BY <1>1 DEF record
<1>3. /\ L \in Nat /\ DOMAIN samples = 1..L
      /\ \A S \in SUBSET DOMAIN samples : IsFiniteSet(S) /\ Cardinality(S) \in Nat
      /\ \A k \in DOMAIN samples : samples[k] \in Value
  BY <1>0, PositionsFinite, Zenon
<1>4. /\ ss \in Seq(Value) /\ Len(ss) = L + 1 /\ DOMAIN ss = DOMAIN samples \cup {L + 1}
      /\ ss[L + 1] = value /\ \A k \in DOMAIN samples : ss[k] = samples[k] /\ k # L + 1
  BY <1>0, <1>3, AppendProperties
<1> HIDE DEF ss, L, i0
<1>5. /\ In(ss, i0) = In(samples, i0) \cup {L + 1}
      /\ \A i \in Buckets : i # i0 => In(ss, i) = In(samples, i)
      /\ L + 1 \notin In(samples, i0)
  BY <1>4 DEF In, i0
<1>6. Cardinality(In(ss, i0)) = Cardinality(In(samples, i0)) + 1
  <2>1. In(samples, i0) \in SUBSET DOMAIN samples
    BY DEF In
  <2>2. IsFiniteSet(In(samples, i0))
    BY <1>3, <2>1, Zenon
  <2> QED  BY <1>5, <2>2, FS_AddElement
<1>7. CountsOf(cs, ss)
  <2>1. cs \in [Buckets -> Nat]
    BY <1>0, <1>1
  <2>2. ASSUME NEW i \in Buckets PROVE cs[i] = Cardinality(In(ss, i))
    <3>1. CASE i = i0
      BY <1>0, <1>1, <1>6, <3>1
    <3>2. CASE i # i0
      BY <1>0, <1>5, <3>2
    <3> QED  BY <3>1, <3>2
  <2> QED  BY <2>1, <2>2, Zenon DEF CountsOf
<1>8. /\ min_' = (IF value < min_ THEN value ELSE min_)
      /\ max_' = (IF value > max_ THEN value ELSE max_)
  BY DEF record
<1>9. value \in Int /\ \A k \in DOMAIN samples : samples[k] \in Int
  BY <1>3, HistogramFacts DEF Value
<1>10. min_' \in Int /\ max_' \in Int /\ min_' <= value /\ value <= max_' /\ min_' <= min_ /\ max_ <= max_'
  BY <1>0, <1>8, <1>9
<1>11. ASSUME NEW k \in DOMAIN ss PROVE min_' <= ss[k] /\ ss[k] <= max_'
  <2>1. CASE k = L + 1
    BY <1>4, <1>10, <2>1
  <2>2. CASE k \in DOMAIN samples
    <3>1. min_ <= samples[k] /\ samples[k] <= max_ /\ ss[k] = samples[k] /\ samples[k] \in Int
      BY <1>0, <1>4, <1>9, <2>2
    <3> QED  BY <1>0, <1>10, <3>1
  <2> QED  BY <1>4, <2>1, <2>2
<1> HIDE DEF cs
<1> QED  BY <1>0, <1>2, <1>4, <1>7, <1>10, <1>11 DEF HistogramHolds

(* An empty histogram counts no samples.                                   *)
LEMMA HistogramStart ==
  ASSUME NEW ss, ss = << >>
  PROVE  ss \in Seq(Value) /\ Len(ss) = 0 /\ CountsOf(NoCounts, ss) /\ DOMAIN ss = {}
<1>1. ss \in Seq(Value) /\ Len(ss) = 0 /\ DOMAIN ss = {}
  OBVIOUS
<1>2. \A i \in Buckets : In(ss, i) = {}
  BY <1>1 DEF In
<1>3. Cardinality({}) = 0
  BY FS_EmptySet
<1> QED  BY <1>1, <1>2, <1>3 DEF CountsOf, NoCounts

(* After any samples, record and reset in any order: at the rank of every  *)
(* sample percentile returns it, or less by under 1/sub_half_ of it, no    *)
(* sample falls outside the buckets, and min() and max() bound them all.   *)
THEOREM PercentilesAlwaysClose == HistogramSpec => []PercentilesAreClose
<1>1. HistogramInit => HistogramHolds
  <2> SUFFICES ASSUME HistogramInit PROVE HistogramHolds
    OBVIOUS
  <2>1. /\ counts_ = NoCounts /\ total_ = 0 /\ samples = << >> /\ min_ = Pow2[ValueBits] - 1 /\ max_ = 0
    BY DEF HistogramInit
  <2>2. Pow2[ValueBits] - 1 \in Int
    BY HistogramFacts
  <2> QED  BY <2>1, <2>2, HistogramStart DEF HistogramHolds
<1>2. HistogramHolds /\ [HistogramNext]_histogram => HistogramHolds'
  <2> SUFFICES ASSUME HistogramHolds, [HistogramNext]_histogram PROVE HistogramHolds'
    OBVIOUS
  <2>1. ASSUME NEW value \in Value, record(value) PROVE HistogramHolds'
    BY <2>1, RecordKeeps
  <2>2. CASE reset
    <3>1. counts_' = NoCounts /\ total_' = 0 /\ samples' = << >> /\ min_' = Pow2[ValueBits] - 1 /\ max_' = 0
      BY <2>2 DEF reset
    <3>2. Pow2[ValueBits] - 1 \in Int
      BY HistogramFacts
    <3>3. samples' \in Seq(Value) /\ Len(samples') = 0 /\ CountsOf(NoCounts, samples') /\ DOMAIN samples' = {}
      BY <3>1, HistogramStart, Zenon
    <3> QED  BY <3>1, <3>2, <3>3 DEF HistogramHolds
  <2>3. CASE UNCHANGED histogram
    BY <2>3 DEF histogram, HistogramHolds
  <2> QED  BY <2>1, <2>2, <2>3 DEF HistogramNext
<1>3. HistogramHolds => PercentilesAreClose
  <2> SUFFICES ASSUME HistogramHolds, NEW k \in DOMAIN samples
               PROVE  /\ \A rank \in Ranks(samples[k]) :
                           /\ percentile(rank) <= samples[k]
                           /\ (samples[k] - percentile(rank)) * sub_half_ <= samples[k]
                      /\ samples[k] \in min_..max_
    BY Zenon DEF PercentilesAreClose
  <2>1. samples[k] \in Value /\ samples[k] \in Int
    <3>1. samples[k] \in Value
      BY DEF HistogramHolds
    <3> QED  BY <3>1, HistogramFacts DEF Value
  <2>2. samples[k] \in min_..max_
    BY <2>1 DEF HistogramHolds
  <2>3. ASSUME NEW rank \in Ranks(samples[k])
        PROVE  /\ percentile(rank) <= samples[k]
               /\ (samples[k] - percentile(rank)) * sub_half_ <= samples[k]
    <3>1. percentile(rank) = value_from_index(index_for(samples[k]))
      BY PercentileFinds
    <3> QED  BY <2>1, <3>1, IndexFacts, Zenon
  <2> QED  BY <2>2, <2>3, Zenon
<1> QED  BY <1>1, <1>2, <1>3, PTL DEF HistogramSpec

-----------------------------------------------------------------------------
(* The risk gate.                                                          *)

(* The inductive invariant.  An order at work has something open.          *)
GateInv ==
    /\ position \in Int
    /\ working = << >> \/ \E o \in Order : working = << o >> /\ o.qty > 0
    /\ PositionWithinLimit

(* No sum of check overflows, and it takes the resulting position for what *)
(* it is.                                                                  *)
LEMMA ExactMagnitude ==
  ASSUME LimitsFit, NEW pos \in Int, Abs(pos) <= max_position,
         NEW o \in Order, o.qty > 0, o.qty <= max_order_qty
  PROVE  Magnitudes(pos, o) = {Abs(pos + Signed(o))}
<1>1. PICK h \in Int : Word = -h..(h - 1)
  BY GateAssumption DEF Word
<1>2. max_position \in Int /\ max_order_qty \in Int /\ max_position + max_order_qty <= h - 1
  BY <1>1, GateAssumption DEF LimitsFit
<1>3. o.qty \in Int
  BY <1>1 DEF Order
<1> DEFINE r == pos + Signed(o)
<1>4. r \in Int /\ Abs(r) <= max_position + max_order_qty /\ Abs(r) \in Int
  BY <1>2, <1>3 DEF Signed, Abs
<1>5. r \in Word /\ Abs(r) \in Word
  BY <1>1, <1>2, <1>4 DEF Abs
<1>6. Plus(pos, Signed(o)) = {r} /\ llabs(r) = {Abs(r)}
  BY <1>5 DEF Plus, llabs
<1> QED  BY <1>6 DEF Magnitudes

(* An order the gate accepts keeps the position within the limit, whether  *)
(* or not it fills.                                                        *)
LEMMA SubmitStep ==
  ASSUME GateInv, NEW o \in Order, Submit(o)
  PROVE  GateInv'
<1>1. position' = position /\ working = << >>
  BY DEF Submit
<1>2. CASE decision' # "Accept"
  BY <1>1, <1>2 DEF Submit, GateInv, PositionWithinLimit
<1>3. CASE decision' = "Accept"
  <2>1. working' = << o >>
    BY <1>3 DEF Submit
  <2>2. PICK mag \in Magnitudes(position, o) :
                \E lo, hi : DecisionFor(o, mag, lo, hi) = "Accept"
    BY <1>3 DEF Submit, check
  <2>3. /\ ~(o.qty <= 0)
        /\ ~(max_order_qty > 0 /\ o.qty > max_order_qty)
        /\ ~(max_position > 0 /\ mag > max_position)
    BY <2>2 DEF DecisionFor
  <2>4. o.qty \in Int /\ max_order_qty \in Int /\ max_position \in Int
    BY GateAssumption DEF Order, Word
  <2>5. o.qty > 0
    BY <2>3, <2>4
  <2>6. ASSUME LimitsFit, max_position > 0
        PROVE  Abs(position) <= max_position /\ Abs(position + Signed(o)) <= max_position
    <3>1. Abs(position) <= max_position /\ position \in Int
      BY <2>6 DEF GateInv, PositionWithinLimit
    <3>2. o.qty <= max_order_qty
      BY <2>3, <2>4, <2>6 DEF LimitsFit
    <3>3. mag = Abs(position + Signed(o))
      BY <2>2, <2>5, <2>6, <3>1, <3>2, ExactMagnitude
    <3>4. Abs(position + Signed(o)) \in Int
      BY <2>4, <3>1 DEF Abs, Signed
    <3> QED  BY <2>3, <2>4, <2>6, <3>1, <3>3, <3>4
  <2> QED  BY <1>1, <2>1, <2>5, <2>6 DEF GateInv, PositionWithinLimit
<1> QED  BY <1>2, <1>3

(* A fill moves the position towards where the whole order would leave it. *)
LEMMA FilledStep ==
  ASSUME GateInv, NEW q \in Word, Filled(q)
  PROVE  GateInv'
<1>1. PICK o \in Order : working = << o >> /\ o.qty > 0
  BY DEF GateInv, Filled
<1>2. o.qty \in Int /\ max_position \in Int /\ position \in Int /\ o.side \in {"Buy", "Sell"}
  BY GateAssumption DEF Order, Word, GateInv
<1>3. /\ q \in 1..o.qty
      /\ position' = position + (IF o.side = "Buy" THEN q ELSE -q)
      /\ working' = IF q = o.qty THEN << >> ELSE << [o EXCEPT !.qty = @ - q] >>
  BY <1>1 DEF Filled
<1> DEFINE u == [o EXCEPT !.qty = @ - q]
<1>4. q # o.qty => u \in Order /\ u.qty > 0
  <2> SUFFICES ASSUME q # o.qty PROVE u \in Order /\ u.qty > 0
    OBVIOUS
  <2>1. o.qty - q \in Word /\ o.qty - q > 0
    <3>1. PICK h \in Int : Word = -h..(h - 1)
      BY GateAssumption DEF Word
    <3>2. o.qty \in Word
      BY DEF Order
    <3> QED  BY <1>2, <1>3, <3>1, <3>2
  <2> QED  BY <2>1 DEF Order
<1>5. position' \in Int
  BY <1>2, <1>3
<1>6. q # o.qty => position' + Signed(u) = position + Signed(o)
  BY <1>2, <1>3 DEF Order, Signed
<1>7. ASSUME LimitsFit, max_position > 0
      PROVE  /\ Abs(position') <= max_position
             /\ q # o.qty => Abs(position' + Signed(u)) <= max_position
  <2>1. Abs(position) <= max_position /\ Abs(position + Signed(o)) <= max_position
    BY <1>1, <1>7 DEF GateInv, PositionWithinLimit
  <2>2. Abs(position') <= max_position
    BY <1>2, <1>3, <2>1 DEF Abs, Signed
  <2> QED  BY <1>6, <2>1, <2>2
<1> QED  BY <1>3, <1>4, <1>5, <1>7, Zenon DEF GateInv, PositionWithinLimit

(* Fills of accepted orders never take the position past its limit.        *)
THEOREM GateHoldsLimit == Spec => []PositionWithinLimit
<1>1. Init => GateInv
  <2>1. max_position > 0 => Abs(0) <= max_position
    BY GateAssumption DEF Abs, Word
  <2> QED  BY <2>1 DEF Init, GateInv, PositionWithinLimit
<1>2. GateInv /\ [Next]_vars => GateInv'
  <2> SUFFICES ASSUME GateInv, [Next]_vars PROVE GateInv'
    OBVIOUS
  <2>1. ASSUME NEW o \in Order, Submit(o) PROVE GateInv'
    BY <2>1, SubmitStep
  <2>2. ASSUME NEW q \in Word, Filled(q) PROVE GateInv'
    BY <2>2, FilledStep
  <2>3. CASE Cancelled
    BY <2>3 DEF Cancelled, GateInv, PositionWithinLimit
  <2>4. CASE UNCHANGED vars
    BY <2>4 DEF vars, GateInv, PositionWithinLimit
  <2> QED  BY <2>1, <2>2, <2>3, <2>4 DEF Next
<1>3. GateInv => PositionWithinLimit
  BY DEF GateInv
<1> QED  BY <1>1, <1>2, <1>3, PTL DEF Spec

=============================================================================
