---------------------------- MODULE SignalProofs ----------------------------
(***************************************************************************)
(* What the features of a window are, for every size of a window, every    *)
(* number of wavelet levels and every reading: the sums of the statistics, *)
(* the recursive Fourier transform, the analytic signal and the energy of  *)
(* the wavelets.                                                           *)
(***************************************************************************)
EXTENDS SignalProcessor, SequenceTheorems, NaturalsInduction, WellFoundedInduction, TLAPS

(***************************************************************************)
(* Induction and recursion over the naturals, for sets and functions       *)
(***************************************************************************)

(* A set of naturals has a least element.                                  *)
LEMMA LeastOfNaturals ==
  ASSUME NEW I, I \subseteq Nat, I # {}
  PROVE  \E i \in I : \A j \in I : i <= j
PROOF
  <1>1. IsWellFoundedOn(OpToRel(<, Nat), Nat)
    BY NatLessThanWellFounded
  <1>2. PICK i \in I : \A j \in I : ~(<<j, i>> \in OpToRel(<, Nat))
    BY <1>1, WFMin
  <1>3. \A j \in I : ~(j < i)
    BY <1>2 DEF OpToRel
  <1>4. QED
    BY <1>3

(* A set that has 0 and the successor of each natural it has, has them all. *)
LEMMA InductionOnNaturals ==
  ASSUME NEW S, 0 \in S, \A n \in Nat : n \in S => n + 1 \in S
  PROVE  \A n \in Nat : n \in S
PROOF
  <1>1. SUFFICES ASSUME Nat \ S # {} PROVE FALSE
    OBVIOUS
  <1>2. PICK m \in Nat \ S : \A k \in Nat \ S : m <= k
    BY <1>1, LeastOfNaturals
  <1>3. m # 0 /\ m \in Nat
    BY <1>2
  <1>4. m - 1 \in Nat /\ m - 1 + 1 = m /\ ~(m <= m - 1)
    BY <1>3
  <1>5. m - 1 \in S
    BY <1>2, <1>4
  <1>6. QED
    BY <1>2, <1>4, <1>5

(* What the first n values of a recursion are.                             *)
Approximates(s, n, base, G) ==
  s[0] = base /\ \A i \in 0 .. n - 1 : s[i + 1] = G[i][s[i]]

(* The values of a recursion: each follows from the one before.            *)
Follows(s, base, G) == s[0] = base /\ \A n \in Nat : s[n + 1] = G[n][s[n]]

(* A recursion whose values stay in a set defines a function.              *)
LEMMA RecursionOnNaturals ==
  ASSUME NEW V, NEW base \in V, NEW G \in [Nat -> [V -> V]]
  PROVE  \E s \in [Nat -> V] : Follows(s, base, G)
PROOF
  <1> DEFINE Approximations(n) == {s \in [0 .. n -> V] : Approximates(s, n, base, G)}
             Good == {n \in Nat : Approximations(n) # {}}
  <1>1. 0 \in Good
    <2>1. [i \in 0 .. 0 |-> base] \in Approximations(0)
      BY DEF Approximates
    <2>2. QED
      BY <2>1
  <1>2. ASSUME NEW n \in Nat, n \in Good PROVE n + 1 \in Good
    <2>1. PICK s \in [0 .. n -> V] : Approximates(s, n, base, G)
      BY <1>2
    <2> DEFINE t == [i \in 0 .. n + 1 |-> IF i <= n THEN s[i] ELSE G[n][s[n]]]
    <2>2. s[n] \in V /\ G[n][s[n]] \in V
      BY <2>1
    <2>3. t \in [0 .. n + 1 -> V]
      BY <2>1, <2>2
    <2>4. t[0] = base
      BY <2>1 DEF Approximates
    <2>5. ASSUME NEW i \in 0 .. n PROVE t[i + 1] = G[i][t[i]]
      <3>1. CASE i = n
        BY <3>1
      <3>2. CASE i \in 0 .. n - 1
        BY <3>2, <2>1 DEF Approximates
      <3>3. QED
        BY <3>1, <3>2
    <2>6. n + 1 - 1 = n
      OBVIOUS
    <2> HIDE DEF t
    <2>7. Approximates(t, n + 1, base, G)
      BY <2>4, <2>5, <2>6 DEF Approximates
    <2>8. t \in Approximations(n + 1)
      BY <2>3, <2>7
    <2>9. QED
      BY <2>8
  <1>3. \A n \in Nat : n \in Good
    <2> HIDE DEF Good
    <2>1. QED
      BY <1>1, <1>2, InductionOnNaturals
  <1> DEFINE approximation(n) == CHOOSE s \in Approximations(n) : TRUE
  <1>4. ASSUME NEW n \in Nat
        PROVE  approximation(n) \in [0 .. n -> V] /\ Approximates(approximation(n), n, base, G)
    <2>1. approximation(n) \in Approximations(n)
      BY <1>3
    <2>2. QED
      BY <2>1
  <1> HIDE DEF approximation
  <1> DEFINE Agree == {i \in Nat : \A n, m \in Nat : i <= n /\ i <= m =>
                                    approximation(n)[i] = approximation(m)[i]}
  <1>5. 0 \in Agree
    BY <1>4 DEF Approximates
  <1>6. ASSUME NEW i \in Nat, i \in Agree PROVE i + 1 \in Agree
    <2>1. SUFFICES ASSUME NEW n \in Nat, NEW m \in Nat, i + 1 <= n, i + 1 <= m
                   PROVE  approximation(n)[i + 1] = approximation(m)[i + 1]
      OBVIOUS
    <2>2. approximation(n)[i] = approximation(m)[i]
      BY <1>6, <2>1
    <2>3. i \in 0 .. n - 1 /\ i \in 0 .. m - 1
      BY <2>1
    <2>4. approximation(n)[i + 1] = G[i][approximation(n)[i]]
      BY <2>3, <1>4 DEF Approximates
    <2>5. approximation(m)[i + 1] = G[i][approximation(m)[i]]
      BY <2>3, <1>4 DEF Approximates
    <2>6. QED
      BY <2>2, <2>4, <2>5
  <1>7. \A i \in Nat : i \in Agree
    <2> HIDE DEF Agree
    <2>1. QED
      BY <1>5, <1>6, InductionOnNaturals
  <1> DEFINE s == [n \in Nat |-> approximation(n)[n]]
  <1>8. s \in [Nat -> V]
    BY <1>4
  <1>9. s[0] = base
    BY <1>4 DEF Approximates
  <1>10. ASSUME NEW n \in Nat PROVE s[n + 1] = G[n][s[n]]
    <2>1. approximation(n + 1)[n] = approximation(n)[n]
      BY <1>7
    <2>2. n \in 0 .. n + 1 - 1
      OBVIOUS
    <2>3. approximation(n + 1)[n + 1] = G[n][approximation(n + 1)[n]]
      BY <2>2, <1>4 DEF Approximates
    <2>4. QED
      BY <2>1, <2>3
  <1>11. Follows(s, base, G)
    BY <1>9, <1>10 DEF Follows
  <1>12. QED
    BY <1>8, <1>11

-----------------------------------------------------------------------------
(***************************************************************************)
(* Sums                                                                    *)
(***************************************************************************)

(* f gives a number to each of 1, ..., n.                                  *)
AreNumbers(f, n) == \A i \in 1 .. n : f[i] \in Int

(* f and g give the same to each of 1, ..., n.                             *)
Same(f, g, n) == \A i \in 1 .. n : f[i] = g[i]

(* t is the running total of the first n values of f.                      *)
RunningTotal(t, f, n) == t = [i \in 0 .. n |-> IF i = 0 THEN 0 ELSE t[i - 1] + f[i]]

(* There is a running total.                                               *)
LEMMA RunningTotalExists ==
  ASSUME NEW n \in Nat, NEW f, AreNumbers(f, n)
  PROVE  \E t : RunningTotal(t, f, n) /\ \A i \in 0 .. n : t[i] \in Int
PROOF
  <1> DEFINE G == [i \in Nat |-> [v \in Int |-> IF i < n THEN v + f[i + 1] ELSE v]]
  <1>1. G \in [Nat -> [Int -> Int]]
    BY DEF AreNumbers
  <1> HIDE DEF G
  <1>2. PICK s \in [Nat -> Int] : Follows(s, 0, G)
    <2>1. 0 \in Int
      OBVIOUS
    <2>2. QED
      BY <1>1, <2>1, RecursionOnNaturals
  <1> USE DEF G
  <1> DEFINE t == [i \in 0 .. n |-> s[i]]
  <1>3. ASSUME NEW i \in 0 .. n, i # 0 PROVE t[i] = t[i - 1] + f[i]
    <2>1. i - 1 \in Nat /\ i - 1 < n /\ i - 1 + 1 = i /\ i - 1 \in 0 .. n
      BY <1>3
    <2>2. s[i] = G[i - 1][s[i - 1]]
      BY <1>2, <2>1 DEF Follows
    <2>3. G[i - 1][s[i - 1]] = s[i - 1] + f[i]
      BY <1>2, <2>1
    <2>4. QED
      BY <2>1, <2>2, <2>3
  <1>4. t[0] = 0
    BY <1>2 DEF Follows
  <1>5. RunningTotal(t, f, n)
    BY <1>3, <1>4 DEF RunningTotal
  <1>6. \A i \in 0 .. n : t[i] \in Int
    BY <1>2
  <1>7. QED
    BY <1>5, <1>6

(* Two running totals agree as long as what they add up does.              *)
LEMMA AgreeingTotals ==
  ASSUME NEW n \in Nat, NEW m \in Nat, n <= m, NEW f, NEW g, Same(f, g, n),
         NEW t, RunningTotal(t, f, n), NEW u, RunningTotal(u, g, m)
  PROVE  \A i \in 0 .. n : t[i] = u[i]
PROOF
  <1> DEFINE Agree == {i \in Nat : i <= n => t[i] = u[i]}
  <1>1. 0 \in Agree
    BY DEF RunningTotal
  <1>2. ASSUME NEW i \in Nat, i \in Agree PROVE i + 1 \in Agree
    <2>1. SUFFICES ASSUME i + 1 <= n PROVE t[i + 1] = u[i + 1]
      OBVIOUS
    <2>2. i + 1 \in 0 .. n /\ i + 1 \in 0 .. m /\ i + 1 # 0 /\ i + 1 - 1 = i /\ i + 1 \in 1 .. n
      BY <2>1
    <2>3. t[i + 1] = t[i] + f[i + 1] /\ u[i + 1] = u[i] + g[i + 1]
      BY <2>2 DEF RunningTotal
    <2>4. t[i] = u[i] /\ f[i + 1] = g[i + 1]
      BY <1>2, <2>1, <2>2 DEF Same
    <2>5. QED
      BY <2>3, <2>4
  <1>3. \A i \in Nat : i \in Agree
    <2> HIDE DEF Agree
    <2>1. QED
      BY <1>1, <1>2, InductionOnNaturals
  <1>4. QED
    BY <1>3

(* The value of a running total is the total.                              *)
LEMMA RunningTotals ==
  ASSUME NEW n \in Nat, NEW f, AreNumbers(f, n)
  PROVE  \E t : /\ RunningTotal(t, f, n) /\ \A i \in 0 .. n : t[i] \in Int
               /\ Total(f, n) = t[n]
PROOF
  <1> DEFINE t == CHOOSE t : RunningTotal(t, f, n)
  <1>1. PICK u : RunningTotal(u, f, n) /\ \A i \in 0 .. n : u[i] \in Int
    BY RunningTotalExists
  <1>2. RunningTotal(t, f, n)
    BY <1>1
  <1>3. Total(f, n) = t[n]
    BY DEF Total, RunningTotal
  <1> HIDE DEF t
  <1>4. \A i \in 0 .. n : t[i] = u[i]
    <2>1. n <= n /\ Same(f, f, n)
      BY DEF Same
    <2>2. QED
    BY <2>1, <1>1, <1>2, AgreeingTotals
  <1>5. QED
    BY <1>1, <1>2, <1>3, <1>4

(* Nothing adds up to nothing.                                             *)
LEMMA TotalOfNone ==
  ASSUME NEW f
  PROVE  Total(f, 0) = 0
PROOF
  <1>1. AreNumbers(f, 0)
    BY DEF AreNumbers
  <1>2. QED
    BY <1>1, RunningTotals DEF RunningTotal

(* A total is a number.                                                    *)
LEMMA TotalIsNumber ==
  ASSUME NEW n \in Nat, NEW f, AreNumbers(f, n)
  PROVE  Total(f, n) \in Int
PROOF
  BY RunningTotals

(* Totals of the same numbers are the same.                                *)
LEMMA EqualTotals ==
  ASSUME NEW n \in Nat, NEW f, NEW g, AreNumbers(f, n), Same(f, g, n)
  PROVE  Total(f, n) = Total(g, n)
PROOF
  <1>1. AreNumbers(g, n)
    BY DEF AreNumbers, Same
  <1>2. PICK t : RunningTotal(t, f, n) /\ Total(f, n) = t[n]
    BY RunningTotals
  <1>3. PICK u : RunningTotal(u, g, n) /\ Total(g, n) = u[n]
    BY <1>1, RunningTotals
  <1>4. n <= n /\ n \in 0 .. n
    OBVIOUS
  <1>5. t[n] = u[n]
    BY <1>2, <1>3, <1>4, AgreeingTotals
  <1>6. QED
    BY <1>2, <1>3, <1>5

(* The next number is added to the total.                                  *)
LEMMA TotalOfOneMore ==
  ASSUME NEW n \in Nat, NEW f, AreNumbers(f, n + 1)
  PROVE  /\ AreNumbers(f, n) /\ f[n + 1] \in Int
         /\ Total(f, n) \in Int
         /\ Total(f, n + 1) = Total(f, n) + f[n + 1]
PROOF
  <1>1. AreNumbers(f, n) /\ f[n + 1] \in Int
    BY DEF AreNumbers
  <1>2. PICK t : RunningTotal(t, f, n) /\ Total(f, n) = t[n]
    BY <1>1, RunningTotals
  <1>3. PICK u : RunningTotal(u, f, n + 1) /\ Total(f, n + 1) = u[n + 1]
    BY RunningTotals
  <1>4. n <= n + 1 /\ n \in 0 .. n /\ n + 1 \in Nat /\ Same(f, f, n)
    BY DEF Same
  <1>5. t[n] = u[n]
    BY <1>2, <1>3, <1>4, AgreeingTotals
  <1>6. u[n + 1] = u[n] + f[n + 1]
    BY <1>3 DEF RunningTotal
  <1>7. QED
    BY <1>1, <1>2, <1>3, <1>5, <1>6, TotalIsNumber

(* Fewer of the numbers are numbers.                                       *)
LEMMA FewerNumbers ==
  ASSUME NEW n \in Nat, NEW f, AreNumbers(f, n), NEW m \in Nat, m <= n
  PROVE  AreNumbers(f, m)
PROOF
  BY DEF AreNumbers

(* h is a times f and b times g.                                           *)
Combines(h, a, f, b, g, n) == \A i \in 1 .. n : h[i] = a * f[i] + b * g[i]

(* Numbers distribute over a sum of four.                                  *)
LEMMA CombinedNext ==
  ASSUME NEW a \in Int, NEW b \in Int, NEW p \in Int, NEW q \in Int, NEW u \in Int, NEW v \in Int
  PROVE  /\ a * p + b * q \in Int
         /\ (a * p + b * q) + (a * u + b * v) = a * (p + u) + b * (q + v)
PROOF
  <1>1. a * (p + u) = a * p + a * u /\ a * p \in Int /\ a * u \in Int
    OBVIOUS
  <1>2. b * (q + v) = b * q + b * v /\ b * q \in Int /\ b * v \in Int
    OBVIOUS
  <1> DEFINE ap == a * p  au == a * u  bq == b * q  bv == b * v
  <1>3. ap \in Int /\ au \in Int /\ bq \in Int /\ bv \in Int
    BY <1>1, <1>2
  <1>4. a * (p + u) = ap + au /\ b * (q + v) = bq + bv
    BY <1>1, <1>2
  <1> HIDE DEF ap, au, bq, bv
  <1>5. ap + bq \in Int /\ (ap + bq) + (au + bv) = (ap + au) + (bq + bv)
    BY <1>3
  <1>6. QED
    BY <1>4, <1>5 DEF ap, au, bq, bv

(* Totals are linear.                                                      *)
LEMMA TotalIsLinear ==
  ASSUME NEW n \in Nat, NEW f, AreNumbers(f, n), NEW g, AreNumbers(g, n),
         NEW a \in Int, NEW b \in Int, NEW h, Combines(h, a, f, b, g, n)
  PROVE  Total(h, n) = a * Total(f, n) + b * Total(g, n)
PROOF
  <1> DEFINE Good == {k \in Nat : k <= n => Total(h, k) = a * Total(f, k) + b * Total(g, k)}
  <1>0. AreNumbers(h, n)
    <2>1. \A i \in 1 .. n : f[i] \in Int /\ g[i] \in Int
      BY DEF AreNumbers
    <2>2. QED
      BY <2>1, CombinedNext DEF AreNumbers, Combines
  <1>1. 0 \in Good
    <2>1. Total(h, 0) = 0 /\ Total(f, 0) = 0 /\ Total(g, 0) = 0
      BY TotalOfNone
    <2>2. 0 = a * 0 + b * 0
      OBVIOUS
    <2>3. QED
      BY <2>1, <2>2
  <1>2. ASSUME NEW k \in Nat, k \in Good PROVE k + 1 \in Good
    <2>1. SUFFICES ASSUME k + 1 <= n
                   PROVE  Total(h, k + 1) = a * Total(f, k + 1) + b * Total(g, k + 1)
      OBVIOUS
    <2>2. k + 1 \in Nat /\ k + 1 \in 1 .. n
      BY <2>1
    <2>3. AreNumbers(f, k + 1) /\ AreNumbers(g, k + 1) /\ AreNumbers(h, k + 1)
      BY <1>0, <2>1, <2>2, FewerNumbers
    <2>4. Total(f, k + 1) = Total(f, k) + f[k + 1] /\ Total(f, k) \in Int /\ f[k + 1] \in Int
      BY <2>3, TotalOfOneMore
    <2>5. Total(g, k + 1) = Total(g, k) + g[k + 1] /\ Total(g, k) \in Int /\ g[k + 1] \in Int
      BY <2>3, TotalOfOneMore
    <2>6. Total(h, k + 1) = Total(h, k) + h[k + 1]
      BY <2>3, TotalOfOneMore
    <2>7. Total(h, k) = a * Total(f, k) + b * Total(g, k)
      BY <1>2, <2>1
    <2>8. h[k + 1] = a * f[k + 1] + b * g[k + 1]
      BY <2>2 DEF Combines
    <2>9. QED
      BY <2>4, <2>5, <2>6, <2>7, <2>8, CombinedNext
  <1>3. \A k \in Nat : k \in Good
    <2> HIDE DEF Good
    <2>1. QED
      BY <1>1, <1>2, InductionOnNaturals
  <1>4. QED
    BY <1>3

(* A total of numbers that are c each.                                     *)
LEMMA TotalOfSame ==
  ASSUME NEW n \in Nat, NEW c \in Int, NEW f, \A i \in 1 .. n : f[i] = c
  PROVE  Total(f, n) = n * c
PROOF
  <1> DEFINE Good == {k \in Nat : k <= n => Total(f, k) = k * c}
  <1>0. AreNumbers(f, n)
    BY DEF AreNumbers
  <1>1. 0 \in Good
    <2>1. Total(f, 0) = 0
      BY TotalOfNone
    <2>2. 0 = 0 * c
      OBVIOUS
    <2>3. QED
      BY <2>1, <2>2
  <1>2. ASSUME NEW k \in Nat, k \in Good PROVE k + 1 \in Good
    <2>1. SUFFICES ASSUME k + 1 <= n PROVE  Total(f, k + 1) = (k + 1) * c
      OBVIOUS
    <2>2. k + 1 \in Nat /\ k + 1 \in 1 .. n
      BY <2>1
    <2>3. Total(f, k + 1) = Total(f, k) + f[k + 1]
      BY <1>0, <2>1, <2>2, FewerNumbers, TotalOfOneMore
    <2>4. Total(f, k) = k * c /\ f[k + 1] = c
      BY <1>2, <2>1, <2>2
    <2>5. (k + 1) * c = k * c + c
      OBVIOUS
    <2>6. QED
      BY <2>3, <2>4, <2>5
  <1>3. \A k \in Nat : k \in Good
    <2> HIDE DEF Good
    <2>1. QED
      BY <1>1, <1>2, InductionOnNaturals
  <1>4. QED
    BY <1>3

(* A total of pairs is the total of the first and that of the second of each pair. *)
LEMMA TotalOfPairs ==
  ASSUME NEW n \in Nat, NEW f, AreNumbers(f, 2 * n)
  PROVE  /\ AreNumbers(OddItems(f, n), n) /\ AreNumbers(EvenItems(f, n), n)
         /\ Total(f, 2 * n) = Total(EvenItems(f, n), n) + Total(OddItems(f, n), n)
PROOF
  <1> DEFINE even == EvenItems(f, n)
             odd == OddItems(f, n)
             Good == {k \in Nat : k <= n => Total(f, 2 * k) = Total(even, k) + Total(odd, k)}
  <1>0. AreNumbers(even, n) /\ AreNumbers(odd, n)
    BY DEF AreNumbers, EvenItems, OddItems
  <1>a. \A i \in 1 .. n : even[i] = f[2 * i - 1] /\ odd[i] = f[2 * i]
    BY DEF EvenItems, OddItems
  <1> HIDE DEF even, odd
  <1>1. 0 \in Good
    <2>1. Total(f, 0) = 0 /\ Total(even, 0) = 0 /\ Total(odd, 0) = 0
      BY TotalOfNone
    <2>2. 2 * 0 = 0
      OBVIOUS
    <2>3. QED
      BY <2>1, <2>2
  <1>2. ASSUME NEW k \in Nat, k \in Good PROVE k + 1 \in Good
    <2>1. SUFFICES ASSUME k + 1 <= n
                   PROVE  Total(f, 2 * (k + 1)) = Total(even, k + 1) + Total(odd, k + 1)
      OBVIOUS
    <2>2. /\ k + 1 \in Nat /\ k + 1 \in 1 .. n
          /\ 2 * k + 1 \in Nat /\ 2 * k \in Nat /\ 2 * n \in Nat
          /\ 2 * (k + 1) = 2 * k + 1 + 1 /\ 2 * k + 1 + 1 <= 2 * n
          /\ 2 * (k + 1) - 1 = 2 * k + 1
      BY <2>1
    <2>3. AreNumbers(f, 2 * k + 1 + 1)
      BY <2>2, FewerNumbers
    <2>4. /\ Total(f, 2 * k + 1 + 1) = Total(f, 2 * k + 1) + f[2 * k + 1 + 1]
          /\ AreNumbers(f, 2 * k + 1)
          /\ f[2 * k + 1 + 1] \in Int
      BY <2>2, <2>3, TotalOfOneMore
    <2>5. /\ Total(f, 2 * k + 1) = Total(f, 2 * k) + f[2 * k + 1]
          /\ f[2 * k + 1] \in Int
      BY <2>2, <2>4, TotalOfOneMore
    <2>6. AreNumbers(even, k + 1) /\ AreNumbers(odd, k + 1)
      BY <1>0, <2>1, <2>2, FewerNumbers
    <2>7. /\ Total(even, k + 1) = Total(even, k) + even[k + 1] /\ Total(even, k) \in Int
          /\ Total(odd, k + 1) = Total(odd, k) + odd[k + 1] /\ Total(odd, k) \in Int
      BY <2>6, TotalOfOneMore
    <2>8. even[k + 1] = f[2 * k + 1] /\ odd[k + 1] = f[2 * k + 1 + 1]
      BY <1>a, <2>2
    <2>9. Total(f, 2 * k) = Total(even, k) + Total(odd, k)
      BY <1>2, <2>1
    <2>10. QED
      BY <2>2, <2>4, <2>5, <2>7, <2>8, <2>9
  <1>3. \A k \in Nat : k \in Good
    <2> HIDE DEF Good
    <2>1. QED
      BY <1>1, <1>2, InductionOnNaturals
  <1>4. QED
    BY <1>0, <1>3 DEF even, odd

(* What follows the first number.                                          *)
Rest(f, n) == [i \in 1 .. n |-> f[i + 1]]

(* The first number of a total is taken apart.                             *)
LEMMA FirstApart ==
  ASSUME NEW n \in Nat, NEW f, AreNumbers(f, n + 1)
  PROVE  /\ AreNumbers(Rest(f, n), n) /\ Total(Rest(f, n), n) \in Int /\ f[1] \in Int
         /\ Total(f, n + 1) = f[1] + Total(Rest(f, n), n)
PROOF
  <1> DEFINE r == Rest(f, n)
             Good == {k \in Nat : k <= n => Total(f, k + 1) = f[1] + Total(r, k)}
  <1>0. AreNumbers(r, n) /\ f[1] \in Int
    BY DEF AreNumbers, Rest
  <1>a. \A i \in 1 .. n : r[i] = f[i + 1]
    BY DEF Rest
  <1> HIDE DEF r
  <1>1. 0 \in Good
    <2>1. Total(f, 0) = 0 /\ Total(r, 0) = 0
      BY TotalOfNone
    <2>2. AreNumbers(f, 0 + 1) /\ 0 + 1 = 1
      BY <1>0 DEF AreNumbers
    <2>3. Total(f, 0 + 1) = Total(f, 0) + f[0 + 1]
      BY <2>2, TotalOfOneMore
    <2>4. Total(f, 0 + 1) = f[1] + Total(r, 0)
      BY <2>1, <2>2, <2>3, <1>0
    <2>5. QED
      BY <2>4
  <1>2. ASSUME NEW k \in Nat, k \in Good PROVE k + 1 \in Good
    <2>1. SUFFICES ASSUME k + 1 <= n
                   PROVE  Total(f, k + 1 + 1) = f[1] + Total(r, k + 1)
      OBVIOUS
    <2>2. k + 1 \in Nat /\ k + 1 \in 1 .. n /\ k + 1 + 1 \in Nat /\ k + 1 + 1 <= n + 1 /\ n + 1 \in Nat
      BY <2>1
    <2>3. AreNumbers(f, k + 1 + 1) /\ AreNumbers(r, k + 1)
      BY <1>0, <2>1, <2>2, FewerNumbers
    <2>4. Total(f, k + 1 + 1) = Total(f, k + 1) + f[k + 1 + 1] /\ f[k + 1 + 1] \in Int
      BY <2>2, <2>3, TotalOfOneMore
    <2>5. Total(r, k + 1) = Total(r, k) + r[k + 1] /\ Total(r, k) \in Int
      BY <2>3, TotalOfOneMore
    <2>6. r[k + 1] = f[k + 1 + 1]
      BY <1>a, <2>2
    <2>7. Total(f, k + 1) = f[1] + Total(r, k)
      BY <1>2, <2>1
    <2>8. QED
      BY <1>0, <2>4, <2>5, <2>6, <2>7
  <1>3. \A k \in Nat : k \in Good
    <2> HIDE DEF Good
    <2>1. QED
      BY <1>1, <1>2, InductionOnNaturals
  <1>4. Total(f, n + 1) = f[1] + Total(r, n) /\ Total(r, n) \in Int
    BY <1>0, <1>3, TotalIsNumber
  <1>5. QED
    BY <1>0, <1>4 DEF r

(* g gives the numbers of f from the last to the first.                    *)
IsReverse(g, f, n) == \A i \in 1 .. n : g[i] = f[n + 1 - i]

(* Backwards, the total is the same.                                       *)
LEMMA TotalOfReverse ==
  ASSUME NEW n \in Nat, NEW f, AreNumbers(f, n), NEW g, IsReverse(g, f, n)
  PROVE  Total(g, n) = Total(f, n)
PROOF
  <1> DEFINE back(k) == [i \in 1 .. k |-> f[k + 1 - i]]
             Good == {k \in Nat : k <= n => Total(back(k), k) = Total(f, k)}
  <1>1. 0 \in Good
    <2>1. Total(f, 0) = 0 /\ Total(back(0), 0) = 0
      BY TotalOfNone
    <2>2. QED
      BY <2>1
  <1>2. ASSUME NEW k \in Nat, k \in Good PROVE k + 1 \in Good
    <2>1. SUFFICES ASSUME k + 1 <= n PROVE Total(back(k + 1), k + 1) = Total(f, k + 1)
      OBVIOUS
    <2>2. k + 1 \in Nat /\ k + 1 \in 1 .. n
      BY <2>1
    <2>3. AreNumbers(f, k + 1)
      BY <2>1, <2>2, FewerNumbers
    <2>4. Total(f, k + 1) = Total(f, k) + f[k + 1] /\ Total(f, k) \in Int /\ f[k + 1] \in Int
      BY <2>3, TotalOfOneMore
    <2>5. AreNumbers(back(k + 1), k + 1)
      <3>1. \A i \in 1 .. k + 1 : k + 1 + 1 - i \in 1 .. k + 1
        OBVIOUS
      <3>2. QED
        BY <2>3, <3>1 DEF AreNumbers
    <2>6. Total(back(k + 1), k + 1) = back(k + 1)[1] + Total(Rest(back(k + 1), k), k)
      BY <2>5, FirstApart
    <2>7. back(k + 1)[1] = f[k + 1]
      OBVIOUS
    <2>8. Rest(back(k + 1), k) = back(k)
      <3>1. \A i \in 1 .. k : i + 1 \in 1 .. k + 1 /\ k + 1 + 1 - (i + 1) = k + 1 - i
        OBVIOUS
      <3>2. QED
        BY <3>1 DEF Rest
    <2>9. Total(back(k), k) = Total(f, k)
      BY <1>2, <2>1
    <2>10. QED
      BY <2>4, <2>6, <2>7, <2>8, <2>9
  <1>3. \A k \in Nat : k \in Good
    <2> HIDE DEF Good
    <2>1. QED
      BY <1>1, <1>2, InductionOnNaturals
  <1>4. Same(back(n), g, n)
    BY DEF Same, IsReverse
  <1>5. AreNumbers(back(n), n)
    <2>1. \A i \in 1 .. n : n + 1 - i \in 1 .. n
      OBVIOUS
    <2>2. QED
      BY <2>1 DEF AreNumbers
  <1> HIDE DEF back
  <1>6. Total(back(n), n) = Total(g, n)
    BY <1>4, <1>5, EqualTotals
  <1>7. QED
    BY <1>3, <1>6

(* The numbers of a column of a table.                                     *)
Column(F, j, m) == [k \in 1 .. m |-> F[k][j]]

(* The totals of the rows and those of the columns of a table.             *)
RowTotals(F, m, n) == [k \in 1 .. m |-> Total(F[k], n)]
ColumnTotals(F, m, n) == [j \in 1 .. n |-> Total(Column(F, j, m), m)]

(* A table of numbers adds up to the same by rows and by columns.          *)
LEMMA TotalsExchanged ==
  ASSUME NEW m \in Nat, NEW n \in Nat, NEW F, \A k \in 1 .. m : AreNumbers(F[k], n)
  PROVE  /\ AreNumbers(RowTotals(F, m, n), m) /\ AreNumbers(ColumnTotals(F, m, n), n)
         /\ Total(RowTotals(F, m, n), m) = Total(ColumnTotals(F, m, n), n)
PROOF
  <1> DEFINE rows == RowTotals(F, m, n)
             upTo(k) == [j \in 1 .. n |-> Total(Column(F, j, m), k)]
             Good == {k \in Nat : k <= m => Total(rows, k) = Total(upTo(k), n)}
  <1>0. AreNumbers(rows, m)
    <2>1. \A k \in 1 .. m : Total(F[k], n) \in Int
      BY TotalIsNumber
    <2>2. QED
      BY <2>1 DEF AreNumbers, RowTotals
  <1>a. \A j \in 1 .. n : AreNumbers(Column(F, j, m), m)
    BY DEF AreNumbers, Column
  <1>b. ASSUME NEW k \in Nat, k <= m PROVE AreNumbers(upTo(k), n)
    <2>1. \A j \in 1 .. n : Total(Column(F, j, m), k) \in Int
      BY <1>a, <1>b, FewerNumbers, TotalIsNumber
    <2>2. QED
      BY <2>1 DEF AreNumbers
  <1>1. 0 \in Good
    <2>1. \A j \in 1 .. n : upTo(0)[j] = 0
      BY TotalOfNone
    <2>2. Total(upTo(0), n) = n * 0
      <3> HIDE DEF upTo
      <3>1. 0 \in Int
        OBVIOUS
      <3>2. QED
        BY <2>1, <3>1, TotalOfSame
    <2>3. n * 0 = 0 /\ Total(rows, 0) = 0
      BY TotalOfNone
    <2>4. QED
      BY <2>2, <2>3
  <1>2. ASSUME NEW k \in Nat, k \in Good PROVE k + 1 \in Good
    <2>1. SUFFICES ASSUME k + 1 <= m PROVE Total(rows, k + 1) = Total(upTo(k + 1), n)
      OBVIOUS
    <2>2. k + 1 \in Nat /\ k + 1 \in 1 .. m /\ k <= m
      BY <2>1
    <2>3. AreNumbers(rows, k + 1)
      BY <1>0, <2>1, <2>2, FewerNumbers
    <2>4. Total(rows, k + 1) = Total(rows, k) + rows[k + 1]
      BY <2>3, TotalOfOneMore
    <2>5. rows[k + 1] = Total(F[k + 1], n)
      BY <2>2 DEF RowTotals
    <2>6. AreNumbers(F[k + 1], n) /\ AreNumbers(upTo(k), n)
      BY <1>b, <2>2
    <2>7. Combines(upTo(k + 1), 1, upTo(k), 1, F[k + 1], n)
      <3>1. ASSUME NEW j \in 1 .. n
            PROVE  upTo(k + 1)[j] = 1 * upTo(k)[j] + 1 * F[k + 1][j]
        <4>1. AreNumbers(Column(F, j, m), k + 1)
          BY <1>a, <2>1, <2>2, FewerNumbers
        <4>2. /\ Total(Column(F, j, m), k + 1) = Total(Column(F, j, m), k) + Column(F, j, m)[k + 1]
              /\ Total(Column(F, j, m), k) \in Int /\ Column(F, j, m)[k + 1] \in Int
          BY <4>1, TotalOfOneMore
        <4>3. Column(F, j, m)[k + 1] = F[k + 1][j]
          BY <2>2 DEF Column
        <4>4. QED
          BY <4>2, <4>3
      <3> HIDE DEF upTo
      <3>2. QED
        BY <3>1 DEF Combines
    <2>8. Total(upTo(k + 1), n) = 1 * Total(upTo(k), n) + 1 * Total(F[k + 1], n)
      <3> HIDE DEF upTo
      <3>1. 1 \in Int
        OBVIOUS
      <3>2. QED
        BY <2>6, <2>7, <3>1, TotalIsLinear
    <2>9. Total(upTo(k), n) \in Int /\ Total(F[k + 1], n) \in Int
      BY <2>6, TotalIsNumber
    <2>10. Total(rows, k) = Total(upTo(k), n)
      BY <1>2, <2>2
    <2>11. QED
      BY <2>4, <2>5, <2>8, <2>9, <2>10
  <1>3. \A k \in Nat : k \in Good
    <2> HIDE DEF Good
    <2>1. QED
      BY <1>1, <1>2, InductionOnNaturals
  <1>4. Total(rows, m) = Total(upTo(m), n)
    BY <1>3
  <1>5. AreNumbers(upTo(m), n)
    BY <1>b
  <1>6. QED
    BY <1>0, <1>4, <1>5 DEF ColumnTotals

-----------------------------------------------------------------------------
(***************************************************************************)
(* Powers of two                                                           *)
(***************************************************************************)

(* Doubled is defined.                                                     *)
LEMMA DoubledRecursion ==
  /\ Doubled[0] = 1
  /\ \A b \in Nat : Doubled[b] \in Nat \ {0} /\ Doubled[b + 1] = 2 * Doubled[b]
PROOF
  <1> DEFINE G == [b \in Nat |-> [v \in Nat \ {0} |-> 2 * v]]
             IsDoubled(d) == d = [b \in Nat |-> IF b = 0 THEN 1 ELSE 2 * d[b - 1]]
  <1>1. G \in [Nat -> [Nat \ {0} -> Nat \ {0}]] /\ 1 \in Nat \ {0}
    OBVIOUS
  <1> HIDE DEF G
  <1>2. PICK s \in [Nat -> Nat \ {0}] : Follows(s, 1, G)
    BY <1>1, RecursionOnNaturals
  <1> USE DEF G
  <1>3. s[0] = 1 /\ \A b \in Nat : s[b + 1] = 2 * s[b]
    BY <1>2 DEF Follows
  <1>4. IsDoubled(s)
    <2>1. ASSUME NEW b \in Nat, b # 0 PROVE s[b] = 2 * s[b - 1]
      <3>1. b - 1 \in Nat /\ b - 1 + 1 = b
        BY <2>1
      <3>2. QED
        BY <1>3, <3>1
    <2>2. QED
      BY <1>2, <1>3, <2>1
  <1>5. IsDoubled(Doubled)
    <2>1. Doubled = CHOOSE d : IsDoubled(d)
      BY DEF Doubled
    <2> HIDE DEF IsDoubled
    <2>2. QED
      BY <1>4, <2>1
  <1>6. Doubled[0] = 1
    BY <1>5
  <1>7. ASSUME NEW b \in Nat PROVE Doubled[b + 1] = 2 * Doubled[b]
    <2>1. b + 1 \in Nat /\ b + 1 # 0 /\ b + 1 - 1 = b
      OBVIOUS
    <2>2. QED
      BY <1>5, <2>1
  <1> DEFINE Good == {b \in Nat : Doubled[b] \in Nat \ {0}}
  <1>8. 0 \in Good /\ \A b \in Nat : b \in Good => b + 1 \in Good
    BY <1>6, <1>7
  <1>9. \A b \in Nat : b \in Good
    <2> HIDE DEF Good
    <2>1. QED
      BY <1>8, InductionOnNaturals
  <1>10. QED
    BY <1>6, <1>7, <1>9

(* A power of two is greater than its exponent.                            *)
LEMMA DoubledIsGreater ==
  \A b \in Nat : Doubled[b] > b
PROOF
  <1> DEFINE Good == {b \in Nat : Doubled[b] > b}
  <1>1. 0 \in Good
    BY DoubledRecursion
  <1>2. ASSUME NEW b \in Nat, b \in Good PROVE b + 1 \in Good
    <2>1. Doubled[b] > b /\ Doubled[b] \in Nat /\ Doubled[b + 1] = 2 * Doubled[b]
      BY <1>2, DoubledRecursion
    <2>2. QED
      BY <2>1
  <1>3. \A b \in Nat : b \in Good
    <2> HIDE DEF Good
    <2>1. QED
      BY <1>1, <1>2, InductionOnNaturals
  <1>4. QED
    BY <1>3

(* The product of two powers of two.                                       *)
ProductOfDoubled(b, c) == Doubled[b] * Doubled[c] = Doubled[b + c]

(* It is the power of the sum.                                             *)
LEMMA DoubledAdds ==
  ASSUME NEW b \in Nat, NEW c \in Nat
  PROVE  ProductOfDoubled(b, c)
PROOF
  <1> DEFINE Good == {a \in Nat : ProductOfDoubled(a, c)}
  <1>1. 0 \in Good
    BY DoubledRecursion DEF ProductOfDoubled
  <1>2. ASSUME NEW a \in Nat, a \in Good PROVE a + 1 \in Good
    <2> DEFINE p == Doubled[a]  q == Doubled[c]
    <2>1. p \in Nat /\ q \in Nat /\ p * q = Doubled[a + c] /\ a + c \in Nat
      BY <1>2, DoubledRecursion DEF ProductOfDoubled
    <2>2. Doubled[a + 1] = 2 * p /\ Doubled[(a + c) + 1] = 2 * Doubled[a + c]
      BY <2>1, DoubledRecursion
    <2> HIDE DEF p, q
    <2>3. (2 * p) * q = 2 * (p * q) /\ (a + 1) + c = (a + c) + 1
      BY <2>1
    <2>4. ProductOfDoubled(a + 1, c)
      BY <2>1, <2>2, <2>3 DEF ProductOfDoubled, q
    <2>5. QED
      BY <2>4
  <1>3. \A a \in Nat : a \in Good
    <2> HIDE DEF Good
    <2>1. QED
      BY <1>1, <1>2, InductionOnNaturals
  <1>4. QED
    BY <1>3

(* The padded length is a power of two that has room for a window.         *)
LEMMA PaddedLengthFits ==
  /\ PaddedBits \in Nat \ {0} /\ PaddedLength >= WindowSize
  /\ PaddedLength \in Nat /\ Half \in Nat \ {0} /\ PaddedLength = 2 * Half
  /\ Doubled[PaddedBits] = PaddedLength /\ Doubled[PaddedBits - 1] = Half
PROOF
  <1> DEFINE Enough == {b \in Nat : Doubled[b] >= WindowSize}
             Fits(b) == /\ Doubled[b] >= WindowSize
                        /\ \A c \in 0 .. b - 1 : Doubled[c] < WindowSize
  <1>1. WindowSize \in Nat /\ WindowSize >= 2
    BY WindowIsUsable
  <1>2. WindowSize \in Enough
    <2>1. Doubled[WindowSize] > WindowSize /\ Doubled[WindowSize] \in Nat
      BY <1>1, DoubledIsGreater, DoubledRecursion
    <2>2. QED
      BY <1>1, <2>1
  <1>3. PICK b \in Enough : \A c \in Enough : b <= c
    BY <1>2, LeastOfNaturals
  <1>4. b \in 0 .. WindowSize /\ Fits(b)
    <2>1. b \in Nat /\ b <= WindowSize /\ Doubled[b] >= WindowSize
      BY <1>2, <1>3
    <2>2. ASSUME NEW c \in 0 .. b - 1 PROVE Doubled[c] < WindowSize
      <3>1. c \in Nat /\ ~(b <= c)
        BY <2>1
      <3>2. c \notin Enough /\ Doubled[c] \in Nat
        BY <1>3, <3>1, DoubledRecursion
      <3>3. QED
        BY <1>1, <3>1, <3>2
    <2>3. QED
      BY <1>1, <2>1, <2>2
  <1>5. PaddedBits \in 0 .. WindowSize /\ Fits(PaddedBits)
    <2>1. PaddedBits = CHOOSE c \in 0 .. WindowSize : Fits(c)
      BY DEF PaddedBits
    <2> HIDE DEF Fits
    <2>2. QED
      BY <1>4, <2>1
  <1>6. PaddedBits # 0
    BY <1>1, <1>5, DoubledRecursion
  <1>7. PaddedBits - 1 \in Nat /\ PaddedBits - 1 + 1 = PaddedBits /\ PaddedBits \in Nat
    BY <1>1, <1>5, <1>6
  <1>8. Doubled[PaddedBits] = 2 * Doubled[PaddedBits - 1] /\ Doubled[PaddedBits - 1] \in Nat \ {0}
    BY <1>7, DoubledRecursion
  <1>9. QED
    BY <1>5, <1>6, <1>7, <1>8 DEF PaddedLength, Half

-----------------------------------------------------------------------------
(***************************************************************************)
(* Complex numbers                                                         *)
(***************************************************************************)

(* Every index is a number of turns and a remainder.                       *)
LEMMA IndexIsDivided ==
  ASSUME NEW i \in Int
  PROVE  \E q \in Int : \E r \in 0 .. PaddedLength - 1 : i = PaddedLength * q + r
PROOF
  <1>1. PaddedLength \in Nat /\ PaddedLength > 0
    BY PaddedLengthFits
  <1> DEFINE p == PaddedLength
  <1> HIDE DEF p
  <1>2. p \in Nat /\ p > 0
    BY <1>1 DEF p
  <1>3. i = p * (i \div p) + (i % p) /\ i \div p \in Int /\ i % p \in 0 .. p - 1
    BY <1>2
  <1>4. QED
    BY <1>3 DEF p

(* A number of turns and a remainder give the remainder.                   *)
LEMMA RemainderIsUnique ==
  ASSUME NEW p \in Nat, p > 0, NEW q \in Int, NEW r \in 0 .. p - 1
  PROVE  (p * q + r) % p = r
PROOF
  <1> DEFINE i == p * q + r
             s == i % p
             d == i \div p
  <1>1. p * q \in Int /\ i \in Int
    OBVIOUS
  <1> HIDE DEF i
  <1>2. i = p * d + s /\ d \in Int /\ s \in 0 .. p - 1
    BY <1>1
  <1> HIDE DEF s, d
  <1>3. p * d + s = p * q + r
    BY <1>2 DEF i
  <1>4. p * (d - q) = p * d - p * q /\ p * d \in Int /\ p * q \in Int /\ d - q \in Int
    BY <1>2
  <1>5. p * (d - q) = r - s
    BY <1>2, <1>3, <1>4
  <1> DEFINE e == d - q
  <1>6. e \in Int /\ p * e = r - s /\ r - s < p /\ -p < r - s
    BY <1>2, <1>4, <1>5
  <1> HIDE DEF e
  <1>7. e = 0
    <2>1. CASE e >= 1
      <3>1. p * e >= p
        BY <2>1, <1>6
      <3>2. QED
        BY <3>1, <1>6, <1>2
    <2>2. CASE e <= -1
      <3>1. p * e <= -p
        BY <2>2, <1>6
      <3>2. QED
        BY <3>1, <1>6, <1>2
    <2>3. QED
      BY <2>1, <2>2, <1>6
  <1>8. r - s = 0
    BY <1>6, <1>7
  <1>9. QED
    BY <1>2, <1>8 DEF i, s

(* The coefficient at an index, by its remainder.                          *)
LEMMA CoefficientByRemainder ==
  ASSUME NEW a, NEW q \in Int, NEW r \in 0 .. PaddedLength - 1
  PROVE  Coefficient(a, PaddedLength * q + r) = IF r < Half THEN a[r] ELSE -a[r - Half]
PROOF
  <1>1. (PaddedLength * q + r) % PaddedLength = r
    BY PaddedLengthFits, RemainderIsUnique
  <1>2. QED
    BY <1>1 DEF Coefficient

(* A function on the integers that changes its sign with every half turn,  *)
(* as the coefficients of a complex number do.                             *)
IsWave(g) == \A i \in Int : g[i] \in Int /\ g[i + Half] = -g[i]

(* A whole turn leaves a wave as it is.                                    *)
LEMMA WaveAfterTurn ==
  ASSUME NEW g, IsWave(g), NEW i \in Int
  PROVE  g[i + PaddedLength] = g[i]
PROOF
  <1>1. i + Half \in Int /\ i + Half + Half = i + PaddedLength
    BY PaddedLengthFits
  <1>2. g[i + Half] = -g[i] /\ g[i + Half + Half] = -g[i + Half] /\ g[i] \in Int
    BY <1>1 DEF IsWave
  <1>3. QED
    BY <1>1, <1>2

(* So do any number of them.                                               *)
LEMMA WaveAfterTurns ==
  ASSUME NEW g, IsWave(g), NEW i \in Int, NEW q \in Int
  PROVE  g[i + PaddedLength * q] = g[i]
PROOF
  <1>0. PaddedLength \in Nat
    BY PaddedLengthFits
  <1> DEFINE Good == {n \in Nat : \A j \in Int : g[j + PaddedLength * n] = g[j]}
  <1>1. 0 \in Good
    <2>1. PaddedLength * 0 = 0
      BY <1>0
    <2>2. \A j \in Int : j + 0 = j
      OBVIOUS
    <2>3. QED
      BY <2>1, <2>2
  <1>2. ASSUME NEW n \in Nat, n \in Good PROVE n + 1 \in Good
    <2>1. SUFFICES ASSUME NEW j \in Int PROVE g[j + PaddedLength * (n + 1)] = g[j]
      OBVIOUS
    <2>2. PaddedLength * (n + 1) = PaddedLength * n + PaddedLength /\ PaddedLength * n \in Int
      BY <1>0
    <2> DEFINE m == PaddedLength * n
    <2>3. m \in Int
      BY <2>2
    <2>4. g[j + m] = g[j]
      BY <1>2
    <2> HIDE DEF m
    <2>5. j + m \in Int /\ j + (m + PaddedLength) = j + m + PaddedLength
      BY <1>0, <2>3
    <2>6. g[j + m + PaddedLength] = g[j + m]
      BY <2>5, WaveAfterTurn
    <2>7. QED
      BY <2>2, <2>4, <2>5, <2>6 DEF m
  <1>3. \A n \in Nat : n \in Good
    <2> HIDE DEF Good
    <2>1. QED
      BY <1>1, <1>2, InductionOnNaturals
  <1>4. CASE q \in Nat
    BY <1>3, <1>4
  <1>5. CASE -q \in Nat
    <2> DEFINE m == PaddedLength * q
    <2>1. m \in Int /\ PaddedLength * (-q) = -m
      BY <1>0
    <2> HIDE DEF m
    <2>2. i + m \in Int /\ (i + m) + (-m) = i
      BY <2>1
    <2>3. g[(i + m) + PaddedLength * (-q)] = g[i + m]
      BY <1>3, <1>5, <2>2
    <2>4. QED
      BY <2>1, <2>2, <2>3 DEF m
  <1>6. QED
    BY <1>4, <1>5

(* The coefficients of a complex number at every index.                    *)
Wave(a) == [i \in Int |-> Coefficient(a, i)]

(* They are a wave.                                                        *)
LEMMA CoefficientsAreWave ==
  ASSUME NEW a \in Complex
  PROVE  IsWave(Wave(a)) /\ \A i \in Int : Coefficient(a, i) \in Int
PROOF
  <1>0. Half \in Nat \ {0} /\ PaddedLength = 2 * Half /\ PaddedLength \in Nat
    BY PaddedLengthFits
  <1>1. ASSUME NEW i \in Int
        PROVE  Coefficient(a, i) \in Int /\ Coefficient(a, i + Half) = -Coefficient(a, i)
    <2>1. PICK q \in Int, r \in 0 .. PaddedLength - 1 : i = PaddedLength * q + r
      BY IndexIsDivided
    <2>2. Coefficient(a, i) = IF r < Half THEN a[r] ELSE -a[r - Half]
      BY <2>1, CoefficientByRemainder
    <2>3. PaddedLength * (q + 1) = PaddedLength * q + PaddedLength /\ PaddedLength * q \in Int
          /\ q + 1 \in Int
      BY <1>0
    <2> DEFINE m == PaddedLength * q
    <2>4. m \in Int /\ i = m + r /\ PaddedLength * (q + 1) = m + PaddedLength
      BY <2>1, <2>3
    <2> HIDE DEF m
    <2>5. CASE r < Half
      <3>1. r \in 0 .. Half - 1 /\ r + Half \in 0 .. PaddedLength - 1 /\ ~(r + Half < Half)
            /\ r + Half - Half = r
        BY <1>0, <2>5
      <3>2. i + Half = m + (r + Half)
        BY <1>0, <2>4
      <3>a. Coefficient(a, PaddedLength * q + (r + Half)) = -a[r]
        <4> DEFINE u == r + Half
        <4>1. u \in 0 .. PaddedLength - 1 /\ ~(u < Half) /\ u - Half = r
          BY <1>0, <3>1
        <4> HIDE DEF u
        <4>2. Coefficient(a, PaddedLength * q + u) = -a[r]
          BY <4>1, CoefficientByRemainder
        <4>3. QED
          BY <4>2 DEF u
      <3>3. Coefficient(a, i + Half) = -a[r]
        BY <3>2, <3>a DEF m
      <3>4. a[r] \in Int
        BY <3>1 DEF Complex
      <3>5. QED
        BY <2>2, <2>5, <3>3, <3>4
    <2>6. CASE ~(r < Half)
      <3>1. r - Half \in 0 .. Half - 1 /\ r - Half \in 0 .. PaddedLength - 1 /\ r - Half < Half
        BY <1>0, <2>6
      <3>2. i + Half = (m + PaddedLength) + (r - Half)
        BY <1>0, <2>4
      <3>3. Coefficient(a, i + Half) = a[r - Half]
        BY <2>3, <2>4, <3>1, <3>2, CoefficientByRemainder
      <3>4. a[r - Half] \in Int
        BY <3>1 DEF Complex
      <3>5. QED
        BY <2>2, <2>6, <3>3, <3>4
    <2>7. QED
      BY <2>5, <2>6
  <1>2. \A i \in Int : i + Half \in Int
    BY <1>0
  <1>3. QED
    BY <1>1, <1>2 DEF IsWave, Wave

(* What agrees with a wave below the half turn has its coefficients.       *)
LEMMA CoefficientsOfWave ==
  ASSUME NEW g, IsWave(g), NEW b, \A e \in 0 .. Half - 1 : b[e] = g[e], NEW i \in Int
  PROVE  Coefficient(b, i) = g[i]
PROOF
  <1>0. Half \in Nat \ {0} /\ PaddedLength = 2 * Half /\ PaddedLength \in Nat
    BY PaddedLengthFits
  <1>1. PICK q \in Int, r \in 0 .. PaddedLength - 1 : i = PaddedLength * q + r
    BY IndexIsDivided
  <1>2. Coefficient(b, i) = IF r < Half THEN b[r] ELSE -b[r - Half]
    BY <1>1, CoefficientByRemainder
  <1>3. g[i] = g[r]
    <2>0. r \in Int
      BY <1>0
    <2>1. g[r + PaddedLength * q] = g[r]
      BY <2>0, WaveAfterTurns
    <2>2. PaddedLength * q \in Int
      BY <1>0
    <2> DEFINE m == PaddedLength * q
    <2> HIDE DEF m
    <2>3. m + r = r + m
      BY <1>0, <2>2 DEF m
    <2>4. QED
      BY <1>1, <2>1, <2>3 DEF m
  <1>4. CASE r < Half
    BY <1>0, <1>2, <1>3, <1>4
  <1>5. CASE ~(r < Half)
    <2>1. r - Half \in 0 .. Half - 1 /\ r - Half \in Int /\ r - Half + Half = r
      BY <1>0, <1>5
    <2>2. g[r - Half + Half] = -g[r - Half]
      BY <2>1 DEF IsWave
    <2>3. QED
      BY <1>2, <1>3, <1>5, <2>1, <2>2
  <1>6. QED
    BY <1>4, <1>5

(* A complex number is known by its coefficients below the half turn.      *)
LEMMA CoefficientBelowHalf ==
  ASSUME NEW a, NEW e \in 0 .. Half - 1
  PROVE  Coefficient(a, e) = a[e]
PROOF
  <1>1. Half \in Nat \ {0} /\ PaddedLength = 2 * Half /\ PaddedLength \in Nat
    BY PaddedLengthFits
  <1>2. PaddedLength * 0 + e = e /\ e \in 0 .. PaddedLength - 1 /\ e < Half /\ 0 \in Int
    BY <1>1
  <1>3. QED
    BY <1>2, CoefficientByRemainder

(* Turning by k steps moves every coefficient by k.                        *)
LEMMA CoefficientOfTurned ==
  ASSUME NEW a \in Complex, NEW k \in Int
  PROVE  /\ Turned(a, k) \in Complex
         /\ \A i \in Int : Coefficient(Turned(a, k), i) = Coefficient(a, i - k)
PROOF
  <1> DEFINE g == [i \in Int |-> Coefficient(a, i - k)]
  <1>0. Half \in Nat \ {0}
    BY PaddedLengthFits
  <1>1. ASSUME NEW i \in Int PROVE g[i] \in Int /\ g[i + Half] = -g[i]
    <2>1. i - k \in Int /\ i + Half \in Int /\ (i + Half) - k = (i - k) + Half /\ (i - k) + Half \in Int
      BY <1>0
    <2>2. Coefficient(a, i - k) \in Int /\ Coefficient(a, (i - k) + Half) = -Coefficient(a, i - k)
      BY <2>1, CoefficientsAreWave DEF IsWave, Wave
    <2>3. QED
      BY <2>1, <2>2
  <1>2. \A e \in 0 .. Half - 1 : e \in Int
    BY <1>0
  <1>3. IsWave(g)
    BY <1>1 DEF IsWave
  <1>4. \A e \in 0 .. Half - 1 : Turned(a, k)[e] = g[e]
    BY <1>2 DEF Turned
  <1>5. Turned(a, k) \in Complex
    BY <1>1, <1>2 DEF Turned, Complex
  <1>6. ASSUME NEW i \in Int PROVE Coefficient(Turned(a, k), i) = Coefficient(a, i - k)
    <2> HIDE DEF g
    <2>1. Coefficient(Turned(a, k), i) = g[i]
      BY <1>3, <1>4, CoefficientsOfWave
    <2>2. QED
      BY <2>1 DEF g
  <1>7. QED
    BY <1>5, <1>6

(* The conjugate has them in the opposite order.                           *)
LEMMA CoefficientOfConjugate ==
  ASSUME NEW a \in Complex
  PROVE  /\ Conjugate(a) \in Complex
         /\ \A i \in Int : Coefficient(Conjugate(a), i) = Coefficient(a, -i)
PROOF
  <1> DEFINE g == [i \in Int |-> Coefficient(a, -i)]
  <1>0. Half \in Nat \ {0}
    BY PaddedLengthFits
  <1>1. ASSUME NEW i \in Int PROVE g[i] \in Int /\ g[i + Half] = -g[i]
    <2>1. -i \in Int /\ i + Half \in Int /\ -(i + Half) \in Int /\ -(i + Half) + Half = -i
      BY <1>0
    <2>2. Coefficient(a, -(i + Half)) \in Int /\ Coefficient(a, -i) \in Int
          /\ Coefficient(a, -(i + Half) + Half) = -Coefficient(a, -(i + Half))
      BY <2>1, CoefficientsAreWave DEF IsWave, Wave
    <2>3. QED
      BY <2>1, <2>2
  <1>2. \A e \in 0 .. Half - 1 : e \in Int
    BY <1>0
  <1>3. IsWave(g)
    BY <1>1 DEF IsWave
  <1>4. \A e \in 0 .. Half - 1 : Conjugate(a)[e] = g[e]
    BY <1>2 DEF Conjugate
  <1>5. Conjugate(a) \in Complex
    BY <1>1, <1>2 DEF Conjugate, Complex
  <1>6. ASSUME NEW i \in Int PROVE Coefficient(Conjugate(a), i) = Coefficient(a, -i)
    <2> HIDE DEF g
    <2>1. Coefficient(Conjugate(a), i) = g[i]
      BY <1>3, <1>4, CoefficientsOfWave
    <2>2. QED
      BY <2>1 DEF g
  <1>7. QED
    BY <1>5, <1>6

(* A sum has the sums of the coefficients.                                 *)
LEMMA CoefficientOfPlus ==
  ASSUME NEW a \in Complex, NEW b \in Complex
  PROVE  /\ Plus(a, b) \in Complex
         /\ \A i \in Int : Coefficient(Plus(a, b), i) = Coefficient(a, i) + Coefficient(b, i)
PROOF
  <1> DEFINE g == [i \in Int |-> Coefficient(a, i) + Coefficient(b, i)]
  <1>0. Half \in Nat \ {0}
    BY PaddedLengthFits
  <1>1. ASSUME NEW i \in Int PROVE g[i] \in Int /\ g[i + Half] = -g[i]
    <2>1. i + Half \in Int
      BY <1>0
    <2>2. /\ Coefficient(a, i) \in Int /\ Coefficient(a, i + Half) = -Coefficient(a, i)
          /\ Coefficient(b, i) \in Int /\ Coefficient(b, i + Half) = -Coefficient(b, i)
      BY <2>1, CoefficientsAreWave DEF IsWave, Wave
    <2>3. QED
      BY <2>1, <2>2
  <1>2. \A e \in 0 .. Half - 1 : e \in Int
    BY <1>0
  <1>3. IsWave(g)
    BY <1>1 DEF IsWave
  <1>4. \A e \in 0 .. Half - 1 : Plus(a, b)[e] = g[e]
    BY <1>2, CoefficientBelowHalf DEF Plus
  <1>5. Plus(a, b) \in Complex
    BY DEF Plus, Complex
  <1>6. ASSUME NEW i \in Int PROVE Coefficient(Plus(a, b), i) = Coefficient(a, i) + Coefficient(b, i)
    <2> HIDE DEF g
    <2>1. Coefficient(Plus(a, b), i) = g[i]
      BY <1>3, <1>4, CoefficientsOfWave
    <2>2. QED
      BY <2>1 DEF g
  <1>7. QED
    BY <1>5, <1>6

(* A multiple has the multiples of the coefficients.                       *)
LEMMA CoefficientOfScaled ==
  ASSUME NEW a \in Complex, NEW m \in Int
  PROVE  /\ Scaled(a, m) \in Complex
         /\ \A i \in Int : Coefficient(Scaled(a, m), i) = m * Coefficient(a, i)
PROOF
  <1> DEFINE g == [i \in Int |-> m * Coefficient(a, i)]
  <1>0. Half \in Nat \ {0}
    BY PaddedLengthFits
  <1>1. ASSUME NEW i \in Int PROVE g[i] \in Int /\ g[i + Half] = -g[i]
    <2>1. i + Half \in Int
      BY <1>0
    <2>2. Coefficient(a, i) \in Int /\ Coefficient(a, i + Half) = -Coefficient(a, i)
      BY <2>1, CoefficientsAreWave DEF IsWave, Wave
    <2>3. \A c \in Int : m * c \in Int /\ m * (-c) = -(m * c)
      OBVIOUS
    <2>4. QED
      BY <2>1, <2>2, <2>3
  <1>2. \A e \in 0 .. Half - 1 : e \in Int
    BY <1>0
  <1>3. IsWave(g)
    BY <1>1 DEF IsWave
  <1>4. \A e \in 0 .. Half - 1 : Scaled(a, m)[e] = g[e]
    BY <1>2, CoefficientBelowHalf DEF Scaled
  <1>5. Scaled(a, m) \in Complex
    BY DEF Scaled, Complex
  <1>6. ASSUME NEW i \in Int PROVE Coefficient(Scaled(a, m), i) = m * Coefficient(a, i)
    <2> HIDE DEF g
    <2>1. Coefficient(Scaled(a, m), i) = g[i]
      BY <1>3, <1>4, CoefficientsOfWave
    <2>2. QED
      BY <2>1 DEF g
  <1>7. QED
    BY <1>5, <1>6

(* A real number is a complex number.                                      *)
LEMMA RealIsComplex ==
  ASSUME NEW v \in Int
  PROVE  Real(v) \in Complex
PROOF
  BY DEF Real, Complex

(* Complex numbers with the same coefficients are the same.                *)
LEMMA SameCoefficients ==
  ASSUME NEW a \in Complex, NEW b \in Complex,
         \A i \in 0 .. Half - 1 : Coefficient(a, i) = Coefficient(b, i)
  PROVE  a = b
PROOF
  <1>1. \A i \in 0 .. Half - 1 : a[i] = b[i]
    BY CoefficientBelowHalf
  <1>2. a = [i \in 0 .. Half - 1 |-> a[i]] /\ b = [i \in 0 .. Half - 1 |-> b[i]]
    BY DEF Complex
  <1>3. QED
    BY <1>1, <1>2

-----------------------------------------------------------------------------
(***************************************************************************)
(* The Fourier transform                                                   *)
(***************************************************************************)

(* B has the sums of the items of two halves, the second ones turned, and  *)
(* then the differences.                                                   *)
JoinsHalves(B, even, odd, n, step) ==
  \A k \in 1 .. n, i \in Int :
    LET e == Coefficient(even[k], i)
        o == Coefficient(odd[k], i - (k - 1) * step)
    IN /\ e \in Int /\ o \in Int
       /\ Coefficient(B[k], i) = e + o
       /\ Coefficient(B[n + k], i) = e - o

(* What the items of a butterfly are.                                      *)
LEMMA ButterflyItems ==
  ASSUME NEW n \in Nat, NEW even \in [1 .. n -> Complex], NEW odd \in [1 .. n -> Complex],
         NEW step \in Int
  PROVE  /\ Butterfly(even, odd, n, step) \in [1 .. 2 * n -> Complex]
         /\ JoinsHalves(Butterfly(even, odd, n, step), even, odd, n, step)
PROOF
  <1> DEFINE w == [k \in 1 .. n |-> Turned(odd[k], (k - 1) * step)]
             B == Butterfly(even, odd, n, step)
  <1>1. \A k \in 1 .. n : (k - 1) * step \in Int
    OBVIOUS
  <1>2. ASSUME NEW k \in 1 .. n
        PROVE  /\ w[k] \in Complex
               /\ \A i \in Int : Coefficient(w[k], i) = Coefficient(odd[k], i - (k - 1) * step)
    <2>1. odd[k] \in Complex
      OBVIOUS
    <2> DEFINE m == (k - 1) * step
    <2>2. m \in Int
      BY <1>1
    <2> HIDE DEF m
    <2>3. /\ Turned(odd[k], m) \in Complex
          /\ \A i \in Int : Coefficient(Turned(odd[k], m), i) = Coefficient(odd[k], i - m)
      BY <2>1, <2>2, CoefficientOfTurned
    <2>4. QED
      BY <2>3 DEF m
  <1>3. \A k \in 1 .. 2 * n : B[k] = IF k <= n THEN Plus(even[k], w[k])
                                     ELSE Plus(even[k - n], Scaled(w[k - n], -1))
    BY DEF Butterfly
  <1>4. \A k \in 1 .. 2 * n : k \in 1 .. n \/ (~(k <= n) /\ k - n \in 1 .. n)
    OBVIOUS
  <1>5. \A k \in 1 .. n : k <= n /\ ~(n + k <= n) /\ k \in 1 .. 2 * n /\ n + k \in 1 .. 2 * n
                          /\ (n + k) - n = k
    OBVIOUS
  <1>6. \A k \in 1 .. n : Scaled(w[k], -1) \in Complex
    BY <1>2, CoefficientOfScaled
  <1> HIDE DEF w
  <1>7. B \in [1 .. 2 * n -> Complex]
    <2>0. \A k \in 1 .. n : Plus(even[k], w[k]) \in Complex /\ Plus(even[k], Scaled(w[k], -1)) \in Complex
      <3>1. TAKE k \in 1 .. n
      <3>2. even[k] \in Complex /\ w[k] \in Complex /\ Scaled(w[k], -1) \in Complex
        BY <1>2, <1>6
      <3>3. QED
        BY <3>2, CoefficientOfPlus
    <2>1. \A k \in 1 .. 2 * n : B[k] \in Complex
      BY <1>3, <1>4, <2>0
    <2>2. B = [k \in 1 .. 2 * n |-> B[k]]
      BY DEF Butterfly
    <2>3. QED
      BY <2>1, <2>2
  <1> HIDE DEF B
  <1>8. ASSUME NEW k \in 1 .. n, NEW i \in Int
        PROVE  LET e == Coefficient(even[k], i)
                   o == Coefficient(odd[k], i - (k - 1) * step)
               IN /\ e \in Int /\ o \in Int
                  /\ Coefficient(B[k], i) = e + o
                  /\ Coefficient(B[n + k], i) = e - o
    <2> DEFINE e == Coefficient(even[k], i)  o == Coefficient(odd[k], i - (k - 1) * step)
    <2>1. Coefficient(w[k], i) = o /\ e \in Int /\ o \in Int
      <3>1. Coefficient(w[k], i) \in Int /\ e \in Int
        BY <1>2, CoefficientsAreWave
      <3>2. QED
        BY <1>2, <3>1
    <2>2. B[k] = Plus(even[k], w[k]) /\ B[n + k] = Plus(even[k], Scaled(w[k], -1))
      BY <1>3, <1>5
    <2>a. even[k] \in Complex /\ w[k] \in Complex /\ -1 \in Int
      BY <1>2
    <2>3. Coefficient(B[k], i) = e + Coefficient(w[k], i)
      BY <2>a, <2>2, CoefficientOfPlus
    <2>4. Coefficient(B[n + k], i) = e + Coefficient(Scaled(w[k], -1), i)
      BY <1>6, <2>a, <2>2, CoefficientOfPlus
    <2>5. Coefficient(Scaled(w[k], -1), i) = (-1) * Coefficient(w[k], i)
      BY <2>a, CoefficientOfScaled
    <2> HIDE DEF e, o
    <2>6. Coefficient(B[k], i) = e + o /\ Coefficient(B[n + k], i) = e - o
      BY <2>1, <2>3, <2>4, <2>5
    <2>7. QED
      BY <2>1, <2>6 DEF e, o
  <1>9. JoinsHalves(B, even, odd, n, step)
    BY <1>8 DEF JoinsHalves
  <1>10. QED
    BY <1>7, <1>9 DEF B

(* The sequences of 2^b items, and the functions between them.             *)
Items(b) == [1 .. Doubled[b] -> Complex]
Transforms(b) == [Items(b) -> Items(b)]

(* One stage of the transform, from 2^(b - 1) to 2^b items.                *)
Stage(b, F) ==
  [x \in Items(b) |->
     Butterfly(F[EvenItems(x, Doubled[b - 1])], F[OddItems(x, Doubled[b - 1])],
               Doubled[b - 1], Doubled[PaddedBits - b])]

(* Each half of the items of a stage is the items of the stage before.     *)
LEMMA HalvesAreItems ==
  ASSUME NEW b \in 1 .. PaddedBits, NEW x \in Items(b)
  PROVE  /\ Doubled[b - 1] \in Nat /\ Doubled[PaddedBits - b] \in Nat
         /\ Doubled[b] = 2 * Doubled[b - 1]
         /\ EvenItems(x, Doubled[b - 1]) \in Items(b - 1)
         /\ OddItems(x, Doubled[b - 1]) \in Items(b - 1)
PROOF
  <1>1. PaddedBits \in Nat
    BY PaddedLengthFits
  <1>2. b - 1 \in Nat /\ (b - 1) + 1 = b /\ PaddedBits - b \in Nat
    BY <1>1
  <1>3. Doubled[b] = 2 * Doubled[b - 1] /\ Doubled[b - 1] \in Nat /\ Doubled[PaddedBits - b] \in Nat
    BY <1>2, DoubledRecursion
  <1> DEFINE n == Doubled[b - 1]
  <1>4. n \in Nat /\ x \in [1 .. 2 * n -> Complex]
    BY <1>3 DEF Items
  <1> HIDE DEF n
  <1>5. \A i \in 1 .. n : 2 * i - 1 \in 1 .. 2 * n /\ 2 * i \in 1 .. 2 * n
    BY <1>4
  <1>6. EvenItems(x, n) \in [1 .. n -> Complex] /\ OddItems(x, n) \in [1 .. n -> Complex]
    BY <1>4, <1>5 DEF EvenItems, OddItems
  <1>7. QED
    BY <1>3, <1>6 DEF n, Items

(* A stage gives a transform of twice as many items.                       *)
LEMMA StageIsTransform ==
  ASSUME NEW b \in 1 .. PaddedBits, NEW F \in Transforms(b - 1)
  PROVE  Stage(b, F) \in Transforms(b)
PROOF
  <1>1. ASSUME NEW x \in Items(b)
        PROVE  Butterfly(F[EvenItems(x, Doubled[b - 1])], F[OddItems(x, Doubled[b - 1])],
                         Doubled[b - 1], Doubled[PaddedBits - b]) \in Items(b)
    <2> DEFINE n == Doubled[b - 1]
               even == F[EvenItems(x, n)]
               odd == F[OddItems(x, n)]
               step == Doubled[PaddedBits - b]
    <2>1. n \in Nat /\ step \in Int /\ Doubled[b] = 2 * n
      BY HalvesAreItems
    <2>2. even \in Items(b - 1) /\ odd \in Items(b - 1)
      BY HalvesAreItems DEF Transforms
    <2>3. even \in [1 .. n -> Complex] /\ odd \in [1 .. n -> Complex]
      BY <2>2 DEF Items
    <2> HIDE DEF n, even, odd, step
    <2>4. Butterfly(even, odd, n, step) \in [1 .. 2 * n -> Complex]
      BY <2>1, <2>3, ButterflyItems
    <2>5. Butterfly(even, odd, n, step) \in Items(b)
      BY <2>1, <2>4 DEF Items
    <2>6. QED
      BY <2>5 DEF n, even, odd, step
  <1>2. QED
    BY <1>1 DEF Stage, Transforms

(* The recursive transform is defined, stage by stage.                     *)
LEMMA FftRecursion ==
  /\ FftRecursive[0] = [x \in Items(0) |-> x]
  /\ \A b \in 1 .. PaddedBits : FftRecursive[b] = Stage(b, FftRecursive[b - 1])
  /\ \A b \in 0 .. PaddedBits : FftRecursive[b] \in Transforms(b)
PROOF
  <1>0. PaddedBits \in Nat
    BY PaddedLengthFits
  <1> DEFINE V == UNION {Transforms(b) : b \in Nat}
             G == [b \in Nat |-> [F \in V |->
                     IF b + 1 \in 1 .. PaddedBits /\ F \in Transforms(b) THEN Stage(b + 1, F) ELSE F]]
             start == [x \in Items(0) |-> x]
             IsFft(r) == r = [b \in 0 .. PaddedBits |-> [x \in Items(b) |->
                                IF b = 0 THEN x
                                ELSE LET n == Doubled[b - 1]
                                     IN Butterfly(r[b - 1][EvenItems(x, n)],
                                                  r[b - 1][OddItems(x, n)],
                                                  n, Doubled[PaddedBits - b])]]
  <1>1. start \in Transforms(0) /\ start \in V
    BY DEF Transforms
  <1>2. G \in [Nat -> [V -> V]]
    <2>1. ASSUME NEW b \in Nat, NEW F \in V, b + 1 \in 1 .. PaddedBits, F \in Transforms(b)
          PROVE  Stage(b + 1, F) \in V
      <3>1. (b + 1) - 1 = b /\ b + 1 \in Nat
        OBVIOUS
      <3>2. Stage(b + 1, F) \in Transforms(b + 1)
        BY <2>1, <3>1, StageIsTransform
      <3>3. QED
        BY <3>1, <3>2
    <2> HIDE DEF V
    <2>2. QED
      BY <2>1
  <1> HIDE DEF G, V, start
  <1>3. PICK s \in [Nat -> V] : Follows(s, start, G)
    BY <1>1, <1>2, RecursionOnNaturals
  <1>4. s[0] = start /\ \A b \in Nat : s[b + 1] = G[b][s[b]]
    BY <1>3 DEF Follows
  <1> USE DEF G
  <1> DEFINE Good == {b \in Nat : b <= PaddedBits => s[b] \in Transforms(b)}
  <1>5. ASSUME NEW b \in Nat, b + 1 <= PaddedBits, s[b] \in Transforms(b)
        PROVE  s[b + 1] = Stage(b + 1, s[b]) /\ s[b + 1] \in Transforms(b + 1)
    <2>1. (b + 1) - 1 = b /\ b + 1 \in 1 .. PaddedBits
      BY <1>0, <1>5
    <2>2. Stage(b + 1, s[b]) \in Transforms(b + 1)
      BY <1>5, <2>1, StageIsTransform
    <2>3. s[b] \in V
      BY <1>3
    <2>4. s[b + 1] = Stage(b + 1, s[b])
      BY <1>4, <1>5, <2>1, <2>3
    <2>5. QED
      BY <2>2, <2>4
  <1> HIDE DEF G
  <1>6. \A b \in Nat : b \in Good
    <2>1. 0 \in Good
      BY <1>1, <1>4
    <2>2. ASSUME NEW b \in Nat, b \in Good PROVE b + 1 \in Good
      BY <1>0, <1>5, <2>2
    <2> HIDE DEF Good
    <2>3. QED
      BY <2>1, <2>2, InductionOnNaturals
  <1>7. ASSUME NEW b \in 1 .. PaddedBits PROVE s[b] = Stage(b, s[b - 1])
    <2>1. b - 1 \in Nat /\ (b - 1) + 1 = b /\ (b - 1) + 1 <= PaddedBits /\ b - 1 <= PaddedBits
      BY <1>0
    <2>2. s[b - 1] \in Transforms(b - 1)
      BY <1>6, <2>1
    <2>3. s[(b - 1) + 1] = Stage((b - 1) + 1, s[b - 1])
      BY <1>5, <2>1, <2>2
    <2>4. QED
      BY <2>1, <2>3
  <1> DEFINE r == [b \in 0 .. PaddedBits |-> s[b]]
  <1>8. IsFft(r)
    <2>1. \A b \in 1 .. PaddedBits : r[b] = Stage(b, r[b - 1])
      <3>1. \A b \in 1 .. PaddedBits : b \in 0 .. PaddedBits /\ b - 1 \in 0 .. PaddedBits
        BY <1>0
      <3>2. QED
        BY <1>7, <3>1
    <2>2. r[0] = start
      BY <1>0, <1>4
    <2>3. \A b \in 0 .. PaddedBits : b = 0 \/ b \in 1 .. PaddedBits
      BY <1>0
    <2>4. r = [b \in 0 .. PaddedBits |-> r[b]]
      OBVIOUS
    <2> HIDE DEF r
    <2>5. ASSUME NEW b \in 0 .. PaddedBits
          PROVE  r[b] = [x \in Items(b) |->
                           IF b = 0 THEN x
                           ELSE LET n == Doubled[b - 1]
                                IN Butterfly(r[b - 1][EvenItems(x, n)], r[b - 1][OddItems(x, n)],
                                             n, Doubled[PaddedBits - b])]
      <3>1. CASE b = 0
        BY <2>2, <3>1 DEF start
      <3>2. CASE b \in 1 .. PaddedBits
        <4>1. b # 0
          BY <3>2
        <4>2. QED
          BY <2>1, <3>2, <4>1 DEF Stage
      <3>3. QED
        BY <2>3, <3>1, <3>2
    <2>6. QED
      BY <2>4, <2>5
  <1>9. IsFft(FftRecursive)
    <2>1. FftRecursive = CHOOSE q : IsFft(q)
      BY DEF FftRecursive, Items
    <2> HIDE DEF IsFft, r
    <2>2. QED
      BY <1>8, <2>1
  <1>10. FftRecursive[0] = [x \in Items(0) |-> x]
    BY <1>0, <1>9
  <1>11. ASSUME NEW b \in 1 .. PaddedBits PROVE FftRecursive[b] = Stage(b, FftRecursive[b - 1])
    <2>1. b # 0 /\ b \in 0 .. PaddedBits
      BY <1>0
    <2>2. QED
      BY <1>9, <2>1 DEF Stage
  <1> DEFINE Typed == {b \in Nat : b <= PaddedBits => FftRecursive[b] \in Transforms(b)}
  <1> HIDE DEF IsFft
  <1>12. \A b \in Nat : b \in Typed
    <2>1. 0 \in Typed
      BY <1>10 DEF Transforms
    <2>2. ASSUME NEW b \in Nat, b \in Typed PROVE b + 1 \in Typed
      <3>1. SUFFICES ASSUME b + 1 <= PaddedBits PROVE FftRecursive[b + 1] \in Transforms(b + 1)
        OBVIOUS
      <3>2. (b + 1) - 1 = b /\ b + 1 \in 1 .. PaddedBits /\ b <= PaddedBits
        BY <1>0, <3>1
      <3>3. FftRecursive[b] \in Transforms((b + 1) - 1)
        BY <2>2, <3>2
      <3>4. Stage(b + 1, FftRecursive[b]) \in Transforms(b + 1)
        BY <3>2, <3>3, StageIsTransform
      <3>5. FftRecursive[b + 1] = Stage(b + 1, FftRecursive[b])
        BY <1>11, <3>2
      <3>6. QED
        BY <3>4, <3>5
    <2> HIDE DEF Typed
    <2>3. QED
      BY <2>1, <2>2, InductionOnNaturals
  <1>13. \A b \in 0 .. PaddedBits : b \in Nat /\ b <= PaddedBits
    BY <1>0
  <1>14. QED
    BY <1>10, <1>11, <1>12, <1>13

(* Whole turns leave a coefficient as it is, half a turn changes its sign. *)
LEMMA CoefficientAfterTurns ==
  ASSUME NEW a \in Complex, NEW i \in Int
  PROVE  /\ \A q \in Int : Coefficient(a, i + PaddedLength * q) = Coefficient(a, i)
         /\ Coefficient(a, i - Half) = -Coefficient(a, i)
         /\ Coefficient(a, i) \in Int
PROOF
  <1>0. Half \in Nat \ {0} /\ PaddedLength \in Nat
    BY PaddedLengthFits
  <1> DEFINE g == Wave(a)
  <1>1. IsWave(g) /\ \A j \in Int : g[j] = Coefficient(a, j) /\ g[j] \in Int
    BY CoefficientsAreWave DEF Wave
  <1> HIDE DEF g
  <1>2. ASSUME NEW q \in Int PROVE Coefficient(a, i + PaddedLength * q) = Coefficient(a, i)
    <2>1. PaddedLength * q \in Int
      BY <1>0
    <2>2. i + PaddedLength * q \in Int
      BY <2>1
    <2>3. g[i + PaddedLength * q] = g[i]
      BY <1>1, WaveAfterTurns
    <2>4. QED
      BY <1>1, <2>2, <2>3
  <1>3. Coefficient(a, i - Half) = -Coefficient(a, i)
    <2>1. i - Half \in Int /\ (i - Half) + Half = i
      BY <1>0
    <2>2. g[(i - Half) + Half] = -g[i - Half]
      BY <1>1, <2>1 DEF IsWave
    <2>3. QED
      BY <1>1, <2>1, <2>2
  <1>4. QED
    BY <1>1, <1>2, <1>3

(* What the items of x add to coefficient i of item k of their transform,  *)
(* s being the power of zeta that is the root of unity for the length of x, *)
(* and what they add up to.                                                *)
Terms(x, n, s, k, i) == [j \in 1 .. n |-> Coefficient(x[j], i - s * ((j - 1) * (k - 1)))]
TransformAt(x, n, s, k, i) == Total(Terms(x, n, s, k, i), n)

(* They are numbers.                                                       *)
LEMMA TermsAreNumbers ==
  ASSUME NEW n \in Nat, NEW x \in [1 .. n -> Complex], NEW s \in Int, NEW k \in Int, NEW i \in Int
  PROVE  AreNumbers(Terms(x, n, s, k, i), n) /\ TransformAt(x, n, s, k, i) \in Int
PROOF
  <1>1. ASSUME NEW j \in 1 .. n PROVE Coefficient(x[j], i - s * ((j - 1) * (k - 1))) \in Int
    <2>1. j - 1 \in Int /\ k - 1 \in Int
      OBVIOUS
    <2>2. s * ((j - 1) * (k - 1)) \in Int
      BY <2>1
    <2> DEFINE m == s * ((j - 1) * (k - 1))
    <2>3. i - m \in Int /\ x[j] \in Complex
      BY <2>2
    <2> HIDE DEF m
    <2>4. Coefficient(x[j], i - m) \in Int
      BY <2>3, CoefficientAfterTurns
    <2>5. QED
      BY <2>4 DEF m
  <1>2. AreNumbers(Terms(x, n, s, k, i), n)
    BY <1>1 DEF AreNumbers, Terms
  <1>3. QED
    BY <1>2, TotalIsNumber DEF TransformAt

(* The indices of the two halves of a transform.                           *)
LEMMA IndicesOfHalves ==
  ASSUME NEW s \in Int, NEW j \in Int, NEW k \in Int, NEW i \in Int
  PROVE  /\ i - s * (((2 * j - 1) - 1) * (k - 1)) = i - (2 * s) * ((j - 1) * (k - 1))
         /\ i - s * ((2 * j - 1) * (k - 1))
              = (i - (k - 1) * s) - (2 * s) * ((j - 1) * (k - 1))
PROOF
  <1> DEFINE a == j - 1  c == k - 1
  <1>1. a \in Int /\ c \in Int /\ (2 * j - 1) - 1 = 2 * a /\ 2 * j - 1 = 2 * a + 1
    OBVIOUS
  <1> HIDE DEF a, c
  <1>2. s * ((2 * a) * c) = (2 * s) * (a * c)
    BY <1>1
  <1>3. s * ((2 * a + 1) * c) = (c * s) + (2 * s) * (a * c) /\ c * s \in Int
        /\ (2 * s) * (a * c) \in Int
    BY <1>1
  <1> DEFINE u == (2 * s) * (a * c)  v == c * s
  <1>4. s * ((2 * a + 1) * c) = v + u /\ u \in Int /\ v \in Int
    BY <1>3
  <1> HIDE DEF u, v
  <1>5. i - (v + u) = (i - v) - u
    BY <1>4
  <1>6. i - s * ((2 * a) * c) = i - (2 * s) * (a * c)
    BY <1>2
  <1>7. i - s * ((2 * a + 1) * c) = (i - c * s) - (2 * s) * (a * c)
    BY <1>4, <1>5 DEF u, v
  <1>8. i - s * (((2 * j - 1) - 1) * c) = i - (2 * s) * (a * c)
    BY <1>1, <1>6
  <1>9. i - s * ((2 * j - 1) * c) = (i - c * s) - (2 * s) * (a * c)
    BY <1>1, <1>7
  <1>10. QED
    BY <1>8, <1>9 DEF a, c

(* The transform of x is the sum of the transforms of its two halves, the  *)
(* second one turned.                                                      *)
LEMMA TransformOfHalves ==
  ASSUME NEW n \in Nat, NEW x \in [1 .. 2 * n -> Complex], NEW s \in Int, NEW k \in Int, NEW i \in Int
  PROVE  TransformAt(x, 2 * n, s, k, i) =
           TransformAt(EvenItems(x, n), n, 2 * s, k, i)
             + TransformAt(OddItems(x, n), n, 2 * s, k, i - (k - 1) * s)
PROOF
  <1> DEFINE f == Terms(x, 2 * n, s, k, i)
             even == EvenItems(x, n)
             odd == OddItems(x, n)
  <1>1. AreNumbers(f, 2 * n)
    BY TermsAreNumbers
  <1>2. Same(EvenItems(f, n), Terms(even, n, 2 * s, k, i), n)
    <2>1. ASSUME NEW j \in 1 .. n
          PROVE  EvenItems(f, n)[j] = Terms(even, n, 2 * s, k, i)[j]
      <3>1. 2 * j - 1 \in 1 .. 2 * n /\ j \in Int
        OBVIOUS
      <3>2. EvenItems(f, n)[j] = Coefficient(x[2 * j - 1], i - s * (((2 * j - 1) - 1) * (k - 1)))
        BY <3>1 DEF EvenItems, Terms
      <3>3. Terms(even, n, 2 * s, k, i)[j] =
              Coefficient(x[2 * j - 1], i - (2 * s) * ((j - 1) * (k - 1)))
        BY <3>1 DEF EvenItems, Terms
      <3>4. i - s * (((2 * j - 1) - 1) * (k - 1)) = i - (2 * s) * ((j - 1) * (k - 1))
        BY <3>1, IndicesOfHalves
      <3>5. QED
        BY <3>2, <3>3, <3>4
    <2>2. QED
      BY <2>1 DEF Same
  <1>3. Same(OddItems(f, n), Terms(odd, n, 2 * s, k, i - (k - 1) * s), n)
    <2>1. ASSUME NEW j \in 1 .. n
          PROVE  OddItems(f, n)[j] = Terms(odd, n, 2 * s, k, i - (k - 1) * s)[j]
      <3>1. 2 * j \in 1 .. 2 * n /\ j \in Int
        OBVIOUS
      <3>2. OddItems(f, n)[j] = Coefficient(x[2 * j], i - s * ((2 * j - 1) * (k - 1)))
        BY <3>1 DEF OddItems, Terms
      <3>3. Terms(odd, n, 2 * s, k, i - (k - 1) * s)[j] =
              Coefficient(x[2 * j], (i - (k - 1) * s) - (2 * s) * ((j - 1) * (k - 1)))
        BY <3>1 DEF OddItems, Terms
      <3>4. i - s * ((2 * j - 1) * (k - 1)) = (i - (k - 1) * s) - (2 * s) * ((j - 1) * (k - 1))
        BY <3>1, IndicesOfHalves
      <3>5. QED
        BY <3>2, <3>3, <3>4
    <2>2. QED
      BY <2>1 DEF Same
  <1>4. AreNumbers(EvenItems(f, n), n) /\ AreNumbers(OddItems(f, n), n)
        /\ Total(f, 2 * n) = Total(EvenItems(f, n), n) + Total(OddItems(f, n), n)
    BY <1>1, TotalOfPairs
  <1>5. Total(EvenItems(f, n), n) = Total(Terms(even, n, 2 * s, k, i), n)
    BY <1>2, <1>4, EqualTotals
  <1>6. Total(OddItems(f, n), n) = Total(Terms(odd, n, 2 * s, k, i - (k - 1) * s), n)
    BY <1>3, <1>4, EqualTotals
  <1>7. QED
    BY <1>4, <1>5, <1>6 DEF TransformAt

(* A transform of n items repeats after n.                                 *)
LEMMA TransformRepeats ==
  ASSUME NEW n \in Nat, NEW x \in [1 .. n -> Complex], NEW s \in Int, n * s = PaddedLength,
         NEW k \in Int, NEW i \in Int
  PROVE  TransformAt(x, n, s, n + k, i) = TransformAt(x, n, s, k, i)
PROOF
  <1>1. ASSUME NEW j \in 1 .. n PROVE Terms(x, n, s, k, i)[j] = Terms(x, n, s, n + k, i)[j]
    <2> DEFINE a == j - 1  c == k - 1
    <2>1. a \in Int /\ c \in Int /\ (n + k) - 1 = c + n
      OBVIOUS
    <2> HIDE DEF a, c
    <2>2. s * (a * (c + n)) = s * (a * c) + (n * s) * a /\ s * (a * c) \in Int
      BY <2>1
    <2> DEFINE m == s * (a * c)
    <2>3. s * (a * (c + n)) = m + PaddedLength * a /\ m \in Int
      BY <2>2
    <2> HIDE DEF m
    <2>4. PaddedLength * (-a) = -(PaddedLength * a) /\ PaddedLength * a \in Int /\ -a \in Int
      BY <2>1, PaddedLengthFits
    <2>5. i - (m + PaddedLength * a) = (i - m) + PaddedLength * (-a) /\ i - m \in Int
      BY <2>3, <2>4
    <2>6. x[j] \in Complex
      OBVIOUS
    <2>7. Coefficient(x[j], (i - m) + PaddedLength * (-a)) = Coefficient(x[j], i - m)
      BY <2>4, <2>5, <2>6, CoefficientAfterTurns
    <2>8. Coefficient(x[j], i - s * (a * (c + n))) = Coefficient(x[j], i - s * (a * c))
      BY <2>3, <2>5, <2>7 DEF m
    <2>9. Terms(x, n, s, k, i)[j] = Coefficient(x[j], i - s * (a * c))
      BY DEF Terms, a, c
    <2>10. Terms(x, n, s, n + k, i)[j] = Coefficient(x[j], i - s * (a * (c + n)))
      BY <2>1 DEF Terms, a
    <2>11. QED
      BY <2>8, <2>9, <2>10
  <1>2. Same(Terms(x, n, s, k, i), Terms(x, n, s, n + k, i), n)
    BY <1>1 DEF Same
  <1>3. AreNumbers(Terms(x, n, s, k, i), n)
    BY TermsAreNumbers
  <1>4. QED
    BY <1>2, <1>3, EqualTotals DEF TransformAt

(* Half a turn changes the sign of a transform.                            *)
LEMMA TransformHalfTurned ==
  ASSUME NEW n \in Nat, NEW x \in [1 .. n -> Complex], NEW s \in Int, NEW k \in Int, NEW i \in Int
  PROVE  TransformAt(x, n, s, k, i - Half) = -TransformAt(x, n, s, k, i)
PROOF
  <1> DEFINE f == Terms(x, n, s, k, i)
             h == Terms(x, n, s, k, i - Half)
  <1>0. Half \in Int /\ i - Half \in Int
    BY PaddedLengthFits
  <1>1. AreNumbers(f, n)
    BY TermsAreNumbers
  <1>2. ASSUME NEW j \in 1 .. n PROVE h[j] = (-1) * f[j] + 0 * f[j]
    <2> DEFINE m == s * ((j - 1) * (k - 1))
    <2>1. j - 1 \in Int /\ k - 1 \in Int
      OBVIOUS
    <2>2. m \in Int
      BY <2>1
    <2>3. f[j] = Coefficient(x[j], i - m) /\ h[j] = Coefficient(x[j], (i - Half) - m)
      BY DEF Terms
    <2> HIDE DEF m
    <2>4. i - m \in Int /\ (i - Half) - m = (i - m) - Half /\ x[j] \in Complex
      BY <1>0, <2>2
    <2>5. /\ Coefficient(x[j], (i - m) - Half) = -Coefficient(x[j], i - m)
          /\ Coefficient(x[j], i - m) \in Int
      BY <2>4, CoefficientAfterTurns
    <2> HIDE DEF f, h
    <2>6. h[j] = -f[j] /\ f[j] \in Int
      BY <2>3, <2>4, <2>5
    <2>7. QED
      BY <2>6
  <1> HIDE DEF f, h
  <1>3. Combines(h, -1, f, 0, f, n)
    BY <1>2 DEF Combines
  <1>4. -1 \in Int /\ 0 \in Int
    OBVIOUS
  <1>5. Total(h, n) = (-1) * Total(f, n) + 0 * Total(f, n)
    BY <1>1, <1>3, <1>4, TotalIsLinear
  <1>6. Total(f, n) \in Int
    BY <1>1, TotalIsNumber
  <1>7. Total(h, n) = -Total(f, n)
    BY <1>5, <1>6
  <1>8. QED
    BY <1>7 DEF f, h, TransformAt

(* What F makes of 2^b items is their transform.                           *)
IsTransform(F, b) ==
  \A x \in Items(b) : \A k \in 1 .. Doubled[b] : \A i \in Int :
    Coefficient(F[x][k], i) = TransformAt(x, Doubled[b], Doubled[PaddedBits - b], k, i)

(* A stage makes the transform of 2^b items of that of 2^(b - 1).          *)
LEMMA StageTransforms ==
  ASSUME NEW b \in 1 .. PaddedBits, NEW F \in Transforms(b - 1), IsTransform(F, b - 1)
  PROVE  IsTransform(Stage(b, F), b)
PROOF
  <1>0. PaddedBits \in Nat /\ Half \in Nat \ {0}
    BY PaddedLengthFits
  <1> DEFINE n == Doubled[b - 1]
             s == Doubled[PaddedBits - b]
  <1>1. n \in Nat /\ s \in Nat /\ Doubled[b] = 2 * n /\ Doubled[PaddedBits - (b - 1)] = 2 * s
    <2>1. /\ PaddedBits - b \in Nat /\ PaddedBits - (b - 1) = (PaddedBits - b) + 1
          /\ b - 1 \in Nat /\ b = (b - 1) + 1
      BY <1>0
    <2>2. Doubled[(PaddedBits - b) + 1] = 2 * s /\ s \in Nat
      BY <2>1, DoubledRecursion
    <2>3. Doubled[(b - 1) + 1] = 2 * n /\ n \in Nat
      BY <2>1, DoubledRecursion
    <2>4. QED
      BY <2>1, <2>2, <2>3
  <1>2. n * (2 * s) = PaddedLength /\ n * s = Half
    <2>1. ProductOfDoubled(b, PaddedBits - b)
      BY <1>0, DoubledAdds
    <2>2. ProductOfDoubled(b - 1, PaddedBits - b)
      BY <1>0, DoubledAdds
    <2>3. b + (PaddedBits - b) = PaddedBits /\ (b - 1) + (PaddedBits - b) = PaddedBits - 1
      BY <1>0
    <2>4. Doubled[b] * s = PaddedLength /\ n * s = Half
      BY <2>1, <2>2, <2>3, PaddedLengthFits DEF ProductOfDoubled
    <2>5. n * (2 * s) = (2 * n) * s
      BY <1>1
    <2>6. QED
      BY <1>1, <2>4, <2>5
  <1>3. SUFFICES ASSUME NEW x \in Items(b), NEW k \in 1 .. 2 * n, NEW i \in Int
                 PROVE  Coefficient(Stage(b, F)[x][k], i) = TransformAt(x, 2 * n, s, k, i)
    BY <1>1 DEF IsTransform
  <1> DEFINE even == EvenItems(x, n)
             odd == OddItems(x, n)
             E == F[even]
             O == F[odd]
  <1>4. even \in Items(b - 1) /\ odd \in Items(b - 1)
    BY HalvesAreItems
  <1>5. E \in Items(b - 1) /\ O \in Items(b - 1)
    BY <1>4 DEF Transforms
  <1>6. Stage(b, F)[x] = Butterfly(E, O, n, s)
    BY DEF Stage
  <1>7. /\ even \in [1 .. n -> Complex] /\ odd \in [1 .. n -> Complex]
        /\ E \in [1 .. n -> Complex] /\ O \in [1 .. n -> Complex]
        /\ x \in [1 .. 2 * n -> Complex]
    BY <1>1, <1>4, <1>5 DEF Items
  <1>8. \A m \in 1 .. n : \A j \in Int : /\ Coefficient(E[m], j) = TransformAt(even, n, 2 * s, m, j)
                                       /\ Coefficient(O[m], j) = TransformAt(odd, n, 2 * s, m, j)
    BY <1>1, <1>4 DEF IsTransform
  <1> HIDE DEF E, O, even, odd, n, s
  <1>9. ASSUME NEW m \in 1 .. n
        PROVE  LET p == TransformAt(even, n, 2 * s, m, i)
                   q == TransformAt(odd, n, 2 * s, m, i - (m - 1) * s)
               IN /\ p \in Int /\ q \in Int
                  /\ Coefficient(Butterfly(E, O, n, s)[m], i) = p + q
                  /\ Coefficient(Butterfly(E, O, n, s)[n + m], i) = p - q
    <2> DEFINE u == (m - 1) * s
    <2>1. u \in Int
      BY <1>1
    <2>2. i - u \in Int /\ s \in Int
      BY <1>1, <2>1
    <2>3. /\ Coefficient(E[m], i) \in Int /\ Coefficient(O[m], i - u) \in Int
          /\ Coefficient(Butterfly(E, O, n, s)[m], i) = Coefficient(E[m], i) + Coefficient(O[m], i - u)
          /\ Coefficient(Butterfly(E, O, n, s)[n + m], i) = Coefficient(E[m], i) - Coefficient(O[m], i - u)
      <3>1. JoinsHalves(Butterfly(E, O, n, s), E, O, n, s)
        BY <1>1, <1>7, <2>2, ButterflyItems
      <3>2. QED
        BY <3>1 DEF JoinsHalves
    <2> HIDE DEF u
    <2>4. /\ Coefficient(E[m], i) = TransformAt(even, n, 2 * s, m, i)
          /\ Coefficient(O[m], i - u) = TransformAt(odd, n, 2 * s, m, i - u)
      BY <1>8, <2>2
    <2>5. QED
      BY <2>3, <2>4 DEF u
  <1>10. \A m \in Int : TransformAt(x, 2 * n, s, m, i) =
                          TransformAt(even, n, 2 * s, m, i)
                            + TransformAt(odd, n, 2 * s, m, i - (m - 1) * s)
    <2>1. TAKE m \in Int
    <2>2. s \in Int
      BY <1>1
    <2>3. QED
      BY <1>1, <1>7, <2>2, TransformOfHalves DEF even, odd
  <1>11. CASE k <= n
    <2>1. k \in 1 .. n /\ k \in Int
      BY <1>1, <1>11
    <2>2. QED
      BY <1>6, <1>9, <1>10, <2>1
  <1>12. CASE ~(k <= n)
    <2> DEFINE m == k - n
    <2>1. m \in 1 .. n /\ m \in Int /\ n + m = k /\ (n + m) - 1 = (m - 1) + n /\ 2 * s \in Int
      BY <1>1, <1>12
    <2> HIDE DEF m
    <2> DEFINE u == (m - 1) * s
    <2>2. ((m - 1) + n) * s = (m - 1) * s + n * s /\ u \in Int
      BY <1>1, <2>1
    <2>3. ((n + m) - 1) * s = u + Half
      BY <1>2, <2>1, <2>2
    <2>4. TransformAt(even, n, 2 * s, n + m, i) = TransformAt(even, n, 2 * s, m, i)
      BY <1>1, <1>2, <1>7, <2>1, TransformRepeats
    <2> HIDE DEF u
    <2>5. i - u \in Int /\ (i - u) - Half \in Int /\ i - (u + Half) = (i - u) - Half
      BY <1>0, <2>2 DEF u
    <2>6. TransformAt(odd, n, 2 * s, n + m, (i - u) - Half) = TransformAt(odd, n, 2 * s, m, (i - u) - Half)
      BY <1>1, <1>2, <1>7, <2>1, <2>5, TransformRepeats
    <2>7. TransformAt(odd, n, 2 * s, m, (i - u) - Half) = -TransformAt(odd, n, 2 * s, m, i - u)
      BY <1>1, <1>7, <2>1, <2>5, TransformHalfTurned
    <2>8. TransformAt(x, 2 * n, s, n + m, i) =
            TransformAt(even, n, 2 * s, n + m, i) + TransformAt(odd, n, 2 * s, n + m, (i - u) - Half)
      BY <1>1, <1>10, <2>1, <2>3, <2>5
    <2>9. /\ Coefficient(Butterfly(E, O, n, s)[n + m], i) =
               TransformAt(even, n, 2 * s, m, i) - TransformAt(odd, n, 2 * s, m, i - u)
          /\ TransformAt(even, n, 2 * s, m, i) \in Int
          /\ TransformAt(odd, n, 2 * s, m, i - u) \in Int
      BY <1>9, <2>1 DEF u
    <2>10. QED
      BY <1>6, <2>1, <2>4, <2>6, <2>7, <2>8, <2>9
  <1>13. QED
    BY <1>11, <1>12

(* The recursive transform of 2^b items is their transform.                *)
LEMMA FftTransforms ==
  \A b \in 0 .. PaddedBits : IsTransform(FftRecursive[b], b)
PROOF
  <1>0. PaddedBits \in Nat
    BY PaddedLengthFits
  <1> DEFINE Good == {b \in Nat : b <= PaddedBits => IsTransform(FftRecursive[b], b)}
  <1>1. IsTransform(FftRecursive[0], 0)
    <2>0. Doubled[0] = 1 /\ 0 \in 0 .. PaddedBits
      BY <1>0, DoubledRecursion
    <2>1. SUFFICES ASSUME NEW x \in Items(0), NEW i \in Int
                   PROVE  Coefficient(FftRecursive[0][x][1], i)
                            = TransformAt(x, 1, Doubled[PaddedBits - 0], 1, i)
      <3>1. \A k \in 1 .. Doubled[0] : k = 1
        BY <2>0
      <3>2. QED
        BY <2>0, <3>1 DEF IsTransform
    <2> DEFINE s == Doubled[PaddedBits - 0]
               f == Terms(x, 1, s, 1, i)
    <2>2. s \in Int
      BY <1>0, DoubledRecursion
    <2> HIDE DEF s
    <2>3. FftRecursive[0][x] = x
      BY FftRecursion
    <2>4. x \in [1 .. 1 -> Complex]
      BY <2>0 DEF Items
    <2>5. 1 \in Int /\ 1 \in Nat
      OBVIOUS
    <2>6. AreNumbers(f, 1)
      BY <2>2, <2>4, <2>5, TermsAreNumbers
    <2>7. f[1] = Coefficient(x[1], i)
      <3>1. s * ((1 - 1) * (1 - 1)) = 0
        BY <2>2
      <3>2. i - s * ((1 - 1) * (1 - 1)) = i
        BY <3>1
      <3>3. f[1] = Coefficient(x[1], i - s * ((1 - 1) * (1 - 1)))
        BY DEF Terms
      <3>4. QED
        BY <3>2, <3>3
    <2> HIDE DEF f
    <2>8. Total(f, 1) = f[1]
      <3>1. 0 \in Nat /\ 0 + 1 = 1 /\ AreNumbers(f, 0 + 1)
        BY <2>6
      <3>2. Total(f, 0 + 1) = Total(f, 0) + f[0 + 1] /\ f[0 + 1] \in Int
        BY <3>1, TotalOfOneMore
      <3>3. QED
        BY <3>1, <3>2, TotalOfNone
    <2>9. QED
      BY <2>3, <2>7, <2>8 DEF f, s, TransformAt
  <1>2. ASSUME NEW b \in Nat, b \in Good PROVE b + 1 \in Good
    <2>1. SUFFICES ASSUME b + 1 <= PaddedBits PROVE IsTransform(FftRecursive[b + 1], b + 1)
      OBVIOUS
    <2>2. /\ (b + 1) - 1 = b /\ b + 1 \in 1 .. PaddedBits /\ b <= PaddedBits /\ b \in 0 .. PaddedBits
      BY <1>0, <2>1
    <2>3. /\ FftRecursive[b] \in Transforms((b + 1) - 1)
          /\ IsTransform(FftRecursive[b], (b + 1) - 1)
      BY <1>2, <2>2, FftRecursion
    <2>4. FftRecursive[b + 1] = Stage(b + 1, FftRecursive[b])
      BY <2>2, FftRecursion
    <2>5. QED
      BY <2>2, <2>3, <2>4, StageTransforms
  <1>3. \A b \in Nat : b \in Good
    <2>1. 0 \in Good
      BY <1>1
    <2> HIDE DEF Good
    <2>2. QED
      BY <1>2, <2>1, InductionOnNaturals
  <1>4. \A b \in 0 .. PaddedBits : b \in Nat /\ b <= PaddedBits
    BY <1>0
  <1>5. QED
    BY <1>3, <1>4

(* The transform of as many items as the padded length.                    *)
LEMMA FullTransform ==
  ASSUME NEW y \in [1 .. PaddedLength -> Complex]
  PROVE  /\ FftRecursive[PaddedBits][y] \in [1 .. PaddedLength -> Complex]
         /\ \A k \in 1 .. PaddedLength, i \in Int :
              Coefficient(FftRecursive[PaddedBits][y][k], i) = TransformAt(y, PaddedLength, 1, k, i)
PROOF
  <1>1. /\ PaddedBits \in 0 .. PaddedBits /\ Doubled[PaddedBits] = PaddedLength
        /\ Doubled[PaddedBits - PaddedBits] = 1
    <2>1. PaddedBits \in Nat /\ Doubled[PaddedBits] = PaddedLength
      BY PaddedLengthFits
    <2>2. PaddedBits - PaddedBits = 0
      BY <2>1
    <2>3. QED
      BY <2>1, <2>2, DoubledRecursion
  <1>2. y \in Items(PaddedBits) /\ Items(PaddedBits) = [1 .. PaddedLength -> Complex]
    BY <1>1 DEF Items
  <1>3. FftRecursive[PaddedBits] \in Transforms(PaddedBits)
    BY <1>1, FftRecursion
  <1>4. IsTransform(FftRecursive[PaddedBits], PaddedBits)
    BY <1>1, FftTransforms
  <1>5. QED
    BY <1>1, <1>2, <1>3, <1>4 DEF Transforms, IsTransform

(* A total of numbers that are 0 after the first m.                        *)
LEMMA TotalOfZeros ==
  ASSUME NEW n \in Nat, NEW m \in Nat, m <= n, NEW f, AreNumbers(f, n),
         \A i \in m + 1 .. n : f[i] = 0
  PROVE  Total(f, n) = Total(f, m)
PROOF
  <1> DEFINE Good == {d \in Nat : m + d <= n => Total(f, m + d) = Total(f, m)}
  <1>1. 0 \in Good
    <2>1. m + 0 = m
      OBVIOUS
    <2>2. QED
      BY <2>1
  <1>2. ASSUME NEW d \in Nat, d \in Good PROVE d + 1 \in Good
    <2>1. SUFFICES ASSUME m + (d + 1) <= n PROVE Total(f, m + (d + 1)) = Total(f, m)
      OBVIOUS
    <2>2. m + (d + 1) = (m + d) + 1 /\ m + d \in Nat /\ (m + d) + 1 \in Nat /\ (m + d) + 1 <= n
          /\ (m + d) + 1 \in m + 1 .. n /\ m + d <= n
      BY <2>1
    <2>3. AreNumbers(f, (m + d) + 1)
      BY <2>2, FewerNumbers
    <2>4. Total(f, (m + d) + 1) = Total(f, m + d) + f[(m + d) + 1] /\ Total(f, m + d) \in Int
      BY <2>2, <2>3, TotalOfOneMore
    <2>5. Total(f, m + d) = Total(f, m) /\ f[(m + d) + 1] = 0
      BY <1>2, <2>2
    <2>6. QED
      BY <2>2, <2>4, <2>5
  <1>3. \A d \in Nat : d \in Good
    <2> HIDE DEF Good
    <2>1. QED
      BY <1>1, <1>2, InductionOnNaturals
  <1>4. n - m \in Nat /\ m + (n - m) = n
    OBVIOUS
  <1>5. QED
    BY <1>3, <1>4

(* The coefficients of one, of which those of a real number are multiples. *)
Unit(i) == Coefficient(Real(1), i)

(* They are.                                                               *)
LEMMA CoefficientOfReal ==
  ASSUME NEW v \in Int, NEW i \in Int
  PROVE  Coefficient(Real(v), i) = v * Unit(i) /\ Unit(i) \in Int
PROOF
  <1>1. 1 \in Int /\ Real(1) \in Complex
    BY RealIsComplex
  <1>2. Real(v) = Scaled(Real(1), v)
    <2>1. \A e \in 0 .. Half - 1 : v * (IF e = 0 THEN 1 ELSE 0) = IF e = 0 THEN v ELSE 0
      OBVIOUS
    <2>2. QED
      BY <2>1 DEF Real, Scaled
  <1>3. Coefficient(Scaled(Real(1), v), i) = v * Coefficient(Real(1), i)
    BY <1>1, CoefficientOfScaled
  <1>4. Coefficient(Real(1), i) \in Int
    BY <1>1, CoefficientAfterTurns
  <1>5. QED
    BY <1>2, <1>3, <1>4 DEF Unit

(* The samples of a window and the zeros they are padded with.             *)
Padded(x) == [j \in 1 .. PaddedLength |-> IF j <= Len(x) THEN x[j] ELSE 0]

(* A coefficient of an item of the spectrum of numbers.                    *)
SpectrumTerms(v, k, i) == [j \in 1 .. PaddedLength |-> v[j] * Unit(i - (j - 1) * (k - 1))]

(* The spectrum of a window.                                               *)
LEMMA FftOfWindow ==
  ASSUME NEW x \in Seq(Int), Len(x) <= PaddedLength
  PROVE  /\ Padded(x) \in [1 .. PaddedLength -> Int]
         /\ Fft(x) \in [1 .. PaddedLength -> Complex]
         /\ \A k \in 1 .. PaddedLength, i \in Int :
              /\ AreNumbers(SpectrumTerms(Padded(x), k, i), PaddedLength)
              /\ Coefficient(Fft(x)[k], i) = Total(SpectrumTerms(Padded(x), k, i), PaddedLength)
PROOF
  <1> DEFINE y == [i \in 1 .. PaddedLength |-> IF i <= Len(x) THEN Real(x[i]) ELSE Real(0)]
             v == Padded(x)
             P == PaddedLength
  <1>0. P \in Nat /\ Len(x) \in Nat
    BY PaddedLengthFits
  <1>1. v \in [1 .. P -> Int]
    <2>1. \A j \in 1 .. P : j <= Len(x) => x[j] \in Int
      BY <1>0
    <2>2. QED
      BY <2>1 DEF Padded
  <1>2. \A j \in 1 .. P : y[j] = Real(v[j])
    BY DEF Padded
  <1>3. y \in [1 .. P -> Complex]
    <2>1. \A j \in 1 .. P : Real(v[j]) \in Complex
      BY <1>1, RealIsComplex
    <2>2. y = [j \in 1 .. P |-> y[j]]
      OBVIOUS
    <2>3. QED
      BY <1>2, <2>1, <2>2
  <1>4. Fft(x) = FftRecursive[PaddedBits][y]
    BY DEF Fft
  <1> HIDE DEF y, v, P
  <1>5. /\ FftRecursive[PaddedBits][y] \in [1 .. P -> Complex]
        /\ \A k \in 1 .. P, i \in Int :
             Coefficient(FftRecursive[PaddedBits][y][k], i) = TransformAt(y, P, 1, k, i)
    BY <1>3, FullTransform DEF P
  <1>6. ASSUME NEW k \in 1 .. P, NEW i \in Int
        PROVE  /\ AreNumbers(SpectrumTerms(v, k, i), P)
               /\ TransformAt(y, P, 1, k, i) = Total(SpectrumTerms(v, k, i), P)
    <2>1. AreNumbers(Terms(y, P, 1, k, i), P)
      <3>1. k \in Int /\ 1 \in Int
        BY <1>0
      <3>2. QED
        BY <1>0, <1>3, <3>1, TermsAreNumbers
    <2>2. ASSUME NEW j \in 1 .. P PROVE Terms(y, P, 1, k, i)[j] = SpectrumTerms(v, k, i)[j]
      <3> DEFINE m == (j - 1) * (k - 1)
      <3>1. j - 1 \in Int /\ k - 1 \in Int
        BY <1>0
      <3>2. m \in Int
        BY <3>1
      <3>3. Terms(y, P, 1, k, i)[j] = Coefficient(y[j], i - 1 * m)
        BY DEF Terms
      <3>4. SpectrumTerms(v, k, i)[j] = v[j] * Unit(i - m)
        BY DEF SpectrumTerms, P
      <3> HIDE DEF m
      <3>5. 1 * m = m /\ i - m \in Int /\ v[j] \in Int
        BY <1>1, <3>2
      <3>6. Coefficient(Real(v[j]), i - m) = v[j] * Unit(i - m)
        BY <3>5, CoefficientOfReal
      <3>7. QED
        BY <1>2, <3>3, <3>4, <3>5, <3>6
    <2>3. Same(Terms(y, P, 1, k, i), SpectrumTerms(v, k, i), P)
      BY <2>2 DEF Same
    <2>4. AreNumbers(SpectrumTerms(v, k, i), P)
      BY <2>1, <2>2 DEF AreNumbers
    <2>5. QED
      BY <1>0, <2>1, <2>3, <2>4, EqualTotals DEF TransformAt
  <1>7. QED
    BY <1>1, <1>4, <1>5, <1>6 DEF P, v

(* The recursive transform of a window is its Fourier transform.           *)
THEOREM SpectrumIsTransform ==
  ASSUME NEW x \in Seq(Int), Len(x) <= PaddedLength
  PROVE  Fft(x) = Dft(x)
PROOF
  <1> DEFINE P == PaddedLength
             n == Len(x)
             v == Padded(x)
  <1>0. P \in Nat /\ n \in Nat /\ n <= P /\ Half \in Nat \ {0}
    BY PaddedLengthFits
  <1>1. /\ v \in [1 .. P -> Int] /\ Fft(x) \in [1 .. P -> Complex]
        /\ \A k \in 1 .. P, i \in Int :
             /\ AreNumbers(SpectrumTerms(v, k, i), P)
             /\ Coefficient(Fft(x)[k], i) = Total(SpectrumTerms(v, k, i), P)
    BY FftOfWindow
  <1>2. /\ \A j \in 1 .. n : j \in 1 .. P /\ v[j] = x[j] /\ x[j] \in Int
        /\ \A j \in n + 1 .. P : j \in 1 .. P /\ v[j] = 0
    BY <1>0 DEF Padded
  <1> HIDE DEF P, n, v
  <1>3. ASSUME NEW k \in 1 .. P, NEW e \in 0 .. Half - 1
        PROVE  Fft(x)[k][e] = Total([j \in 1 .. n |-> Turned(Real(x[j]), (j - 1) * (k - 1))[e]], n)
    <2> DEFINE f == SpectrumTerms(v, k, e)
               g == [j \in 1 .. n |-> Turned(Real(x[j]), (j - 1) * (k - 1))[e]]
    <2>1. e \in Int
      BY <1>0
    <2>2. AreNumbers(f, P) /\ Coefficient(Fft(x)[k], e) = Total(f, P)
      BY <1>1, <2>1
    <2>3. Coefficient(Fft(x)[k], e) = Fft(x)[k][e]
      BY CoefficientBelowHalf
    <2>4. ASSUME NEW j \in n + 1 .. P PROVE f[j] = 0
      <3> DEFINE m == (j - 1) * (k - 1)
      <3>1. j - 1 \in Int /\ k - 1 \in Int
        BY <1>0
      <3>2. m \in Int
        BY <3>1
      <3>3. f[j] = v[j] * Unit(e - m) /\ v[j] = 0
        BY <1>2 DEF SpectrumTerms, P
      <3> HIDE DEF m
      <3>4. Unit(e - m) \in Int
        <4>1. e - m \in Int /\ 0 \in Int
          BY <2>1, <3>2
        <4>2. QED
          BY <4>1, CoefficientOfReal
      <3>5. QED
        BY <3>3, <3>4
    <2>5. ASSUME NEW j \in 1 .. n PROVE f[j] = g[j]
      <3> DEFINE m == (j - 1) * (k - 1)
      <3>1. j - 1 \in Int /\ k - 1 \in Int
        BY <1>0
      <3>2. m \in Int
        BY <3>1
      <3>3. f[j] = x[j] * Unit(e - m) /\ x[j] \in Int
        BY <1>2 DEF SpectrumTerms, P
      <3>4. g[j] = Turned(Real(x[j]), m)[e]
        OBVIOUS
      <3> HIDE DEF m
      <3>5. Turned(Real(x[j]), m)[e] = Coefficient(Real(x[j]), e - m)
        BY DEF Turned
      <3>6. e - m \in Int
        BY <2>1, <3>2
      <3>7. Coefficient(Real(x[j]), e - m) = x[j] * Unit(e - m)
        BY <3>3, <3>6, CoefficientOfReal
      <3>8. QED
        BY <3>3, <3>4, <3>5, <3>7
    <2> HIDE DEF f, g
    <2>6. Total(f, P) = Total(f, n)
      BY <1>0, <2>2, <2>4, TotalOfZeros
    <2>7. AreNumbers(f, n) /\ Same(f, g, n)
      BY <1>0, <2>2, <2>5, FewerNumbers DEF Same
    <2>8. Total(f, n) = Total(g, n)
      BY <1>0, <2>7, EqualTotals
    <2>9. QED
      BY <2>2, <2>3, <2>6, <2>8 DEF g
  <1>4. \A k \in 1 .. P : Fft(x)[k] = [e \in 0 .. Half - 1 |-> Fft(x)[k][e]]
    BY <1>1 DEF Complex
  <1>5. \A k \in 1 .. P :
          Fft(x)[k] = [e \in 0 .. Half - 1 |->
                         Total([j \in 1 .. n |-> Turned(Real(x[j]), (j - 1) * (k - 1))[e]], n)]
    <2>1. TAKE k \in 1 .. P
    <2> DEFINE h == [e \in 0 .. Half - 1 |->
                       Total([j \in 1 .. n |-> Turned(Real(x[j]), (j - 1) * (k - 1))[e]], n)]
    <2>2. \A e \in 0 .. Half - 1 : h[e] = Fft(x)[k][e]
      BY <1>3
    <2>3. h = [e \in 0 .. Half - 1 |-> h[e]]
      OBVIOUS
    <2> HIDE DEF h
    <2>4. Fft(x)[k] = h
      BY <1>4, <2>2, <2>3
    <2>5. QED
      BY <2>4 DEF h
  <1>6. Fft(x) = [k \in 1 .. P |-> Fft(x)[k]]
    BY <1>1
  <1>7. Dft(x) = [k \in 1 .. P |-> [e \in 0 .. Half - 1 |->
                    Total([j \in 1 .. n |-> Turned(Real(x[j]), (j - 1) * (k - 1))[e]], n)]]
    BY DEF Dft, P, n
  <1>8. QED
    BY <1>5, <1>6, <1>7

-----------------------------------------------------------------------------
(***************************************************************************)
(* The analytic signal                                                     *)
(***************************************************************************)

(* f gives P times in a row the same numbers.                              *)
IsPeriodic(f, P) == \A i \in Int : f[i] \in Int /\ f[i + P] = f[i]

(* The P numbers of f from o on.                                           *)
Period(f, o, P) == [l \in 1 .. P |-> f[o + (l - 1)]]

(* The total of a period is the same wherever it begins.                   *)
LEMMA TotalOfPeriod ==
  ASSUME NEW P \in Nat \ {0}, NEW f, IsPeriodic(f, P), NEW o \in Nat
  PROVE  AreNumbers(Period(f, o, P), P) /\ Total(Period(f, o, P), P) = Total(Period(f, 0, P), P)
PROOF
  <1>1. ASSUME NEW n \in Nat PROVE AreNumbers(Period(f, n, P), P)
    <2>1. \A l \in 1 .. P : n + (l - 1) \in Int
      OBVIOUS
    <2>2. QED
      BY <2>1 DEF AreNumbers, Period, IsPeriodic
  <1>2. ASSUME NEW n \in Nat PROVE Total(Period(f, n + 1, P), P) = Total(Period(f, n, P), P)
    <2> DEFINE p == P - 1
               F == Period(f, n, P)
               G == Period(f, n + 1, P)
    <2>1. p \in Nat /\ p + 1 = P /\ n + 1 \in Nat
      OBVIOUS
    <2>2. AreNumbers(F, p + 1) /\ AreNumbers(G, p + 1)
      BY <1>1, <2>1
    <2>3. ASSUME NEW l \in 1 .. p PROVE Rest(F, p)[l] = G[l]
      <3>1. l + 1 \in 1 .. P /\ l \in 1 .. P /\ n + ((l + 1) - 1) = (n + 1) + (l - 1)
        BY <2>1
      <3>2. Rest(F, p)[l] = f[n + ((l + 1) - 1)] /\ G[l] = f[(n + 1) + (l - 1)]
        BY <3>1 DEF Rest, Period
      <3>3. QED
        BY <3>1, <3>2
    <2>4. F[1] = f[n] /\ G[p + 1] = f[n]
      <3>1. 1 \in 1 .. P /\ p + 1 \in 1 .. P /\ n + (1 - 1) = n /\ (n + 1) + ((p + 1) - 1) = n + P
        BY <2>1
      <3>2. F[1] = f[n + (1 - 1)] /\ G[p + 1] = f[(n + 1) + ((p + 1) - 1)]
        BY <3>1 DEF Period
      <3>3. f[n + P] = f[n]
        BY DEF IsPeriodic
      <3>4. QED
        BY <3>1, <3>2, <3>3
    <2> HIDE DEF p, F, G
    <2>5. /\ Total(F, p + 1) = F[1] + Total(Rest(F, p), p)
          /\ AreNumbers(Rest(F, p), p) /\ Total(Rest(F, p), p) \in Int /\ F[1] \in Int
      BY <2>1, <2>2, FirstApart
    <2>6. Total(G, p + 1) = Total(G, p) + G[p + 1]
      BY <2>1, <2>2, TotalOfOneMore
    <2>7. Same(Rest(F, p), G, p)
      BY <2>3 DEF Same
    <2>8. Total(Rest(F, p), p) = Total(G, p)
      BY <2>1, <2>5, <2>7, EqualTotals
    <2>9. Total(G, p + 1) = Total(F, p + 1)
      BY <2>4, <2>5, <2>6, <2>8
    <2>10. QED
      BY <2>1, <2>9 DEF F, G
  <1> DEFINE Good == {n \in Nat : Total(Period(f, n, P), P) = Total(Period(f, 0, P), P)}
  <1>3. 0 \in Good /\ \A n \in Nat : n \in Good => n + 1 \in Good
    BY <1>2
  <1>4. \A n \in Nat : n \in Good
    <2> HIDE DEF Good
    <2>1. QED
      BY <1>3, InductionOnNaturals
  <1>5. QED
    BY <1>1, <1>4

(* If its sign changes after q numbers, a period adds up to nothing.       *)
LEMMA AlternatingPeriod ==
  ASSUME NEW P \in Nat \ {0}, NEW f, IsPeriodic(f, P), NEW q \in Nat,
         \A i \in Int : f[i + q] = -f[i]
  PROVE  Total(Period(f, 0, P), P) = 0
PROOF
  <1> DEFINE F == Period(f, 0, P)
             G == Period(f, q, P)
  <1>1. AreNumbers(F, P) /\ Total(G, P) = Total(F, P)
    <2>1. 0 \in Nat
      OBVIOUS
    <2>2. QED
      BY <2>1, TotalOfPeriod
  <1>2. ASSUME NEW l \in 1 .. P PROVE G[l] = (-1) * F[l] + 0 * F[l]
    <2>1. l - 1 \in Int /\ q + (l - 1) = (l - 1) + q /\ 0 + (l - 1) = l - 1
      OBVIOUS
    <2>2. G[l] = f[(l - 1) + q] /\ F[l] = f[l - 1]
      BY <2>1 DEF Period
    <2>3. f[(l - 1) + q] = -f[l - 1] /\ f[l - 1] \in Int
      BY <2>1 DEF IsPeriodic
    <2> HIDE DEF F, G
    <2>4. QED
      BY <2>2, <2>3
  <1> HIDE DEF F, G
  <1>3. Combines(G, -1, F, 0, F, P)
    BY <1>2 DEF Combines
  <1>4. -1 \in Int /\ 0 \in Int /\ P \in Nat
    OBVIOUS
  <1>5. Total(G, P) = (-1) * Total(F, P) + 0 * Total(F, P)
    BY <1>1, <1>3, <1>4, TotalIsLinear
  <1>6. Total(F, P) \in Int
    BY <1>1, <1>4, TotalIsNumber
  <1>7. Total(F, P) = 0
    BY <1>1, <1>5, <1>6
  <1>8. QED
    BY <1>7 DEF F

(* d is a multiple of 2^(c + 1), or some multiple of it is an odd multiple *)
(* of 2^c.                                                                 *)
HalfIsReached(d, c) ==
  \/ \E r \in Int : d = Doubled[c + 1] * r
  \/ \E q \in Nat, r \in Int : q * d = Doubled[c] + Doubled[c + 1] * r

(* Every number is even or odd.                                            *)
LEMMA EvenOrOdd ==
  ASSUME NEW d \in Int
  PROVE  \E r \in Int : d = 2 * r \/ d = 1 + 2 * r
PROOF
  <1>1. d = 2 * (d \div 2) + (d % 2) /\ d \div 2 \in Int /\ d % 2 \in 0 .. 1
    OBVIOUS
  <1>2. QED
    BY <1>1

(* Either holds for every number.                                          *)
LEMMA MultiplesReachHalf ==
  \A c \in Nat : \A d \in Int : HalfIsReached(d, c)
PROOF
  <1> DEFINE Good == {c \in Nat : \A d \in Int : HalfIsReached(d, c)}
  <1>1. 0 \in Good
    <2>1. SUFFICES ASSUME NEW d \in Int PROVE HalfIsReached(d, 0)
      OBVIOUS
    <2>2. Doubled[0] = 1 /\ Doubled[0 + 1] = 2
      BY DoubledRecursion
    <2>3. PICK r \in Int : d = 2 * r \/ d = 1 + 2 * r
      BY EvenOrOdd
    <2>4. CASE d = 2 * r
      BY <2>2, <2>4 DEF HalfIsReached
    <2>5. CASE d = 1 + 2 * r
      <3>1. 1 * d = Doubled[0] + Doubled[0 + 1] * r /\ 1 \in Nat
        BY <2>2, <2>5
      <3>2. QED
        BY <3>1 DEF HalfIsReached
    <2>6. QED
      BY <2>3, <2>4, <2>5
  <1>2. ASSUME NEW c \in Nat, c \in Good PROVE c + 1 \in Good
    <2>1. SUFFICES ASSUME NEW d \in Int PROVE HalfIsReached(d, c + 1)
      OBVIOUS
    <2> DEFINE h == Doubled[c]  p == Doubled[c + 1]  pp == Doubled[(c + 1) + 1]
    <2>2. h \in Nat /\ p \in Nat /\ p = 2 * h /\ pp = 2 * p
      BY DoubledRecursion
    <2>3. PICK r \in Int : d = 2 * r \/ d = 1 + 2 * r
      BY EvenOrOdd
    <2>4. CASE d = 1 + 2 * r
      <3> HIDE DEF h, p, pp
      <3>1. p * (1 + 2 * r) = p + (2 * p) * r
        BY <2>2
      <3>2. p * d = p + pp * r
        BY <2>2, <2>4, <3>1
      <3>3. QED
        BY <2>2, <3>2 DEF HalfIsReached, p, pp
    <2>5. CASE d = 2 * r
      <3>1. HalfIsReached(r, c)
        BY <1>2
      <3>2. CASE \E t \in Int : r = p * t
        <4>1. PICK t \in Int : r = p * t
          BY <3>2
        <4> HIDE DEF h, p, pp
        <4>2. 2 * (p * t) = (2 * p) * t
          BY <2>2
        <4>3. d = pp * t
          BY <2>2, <2>5, <4>1, <4>2
        <4>4. QED
          BY <4>3 DEF HalfIsReached, pp
      <3>3. CASE \E q \in Nat, t \in Int : q * r = h + p * t
        <4>1. PICK q \in Nat, t \in Int : q * r = h + p * t
          BY <3>3
        <4> HIDE DEF h, p, pp
        <4>2. q * (2 * r) = 2 * (q * r) /\ 2 * (h + p * t) = 2 * h + (2 * p) * t
          BY <2>2
        <4>3. q * d = p + pp * t
          BY <2>2, <2>5, <4>1, <4>2
        <4>4. QED
          BY <4>3 DEF HalfIsReached, p, pp
      <3>4. QED
        BY <3>1, <3>2, <3>3 DEF HalfIsReached
    <2>6. QED
      BY <2>3, <2>4, <2>5
  <1>3. \A c \in Nat : c \in Good
    <2> HIDE DEF Good
    <2>1. QED
      BY <1>1, <1>2, InductionOnNaturals
  <1>4. QED
    BY <1>3

(* The coefficients of one are the same in both directions and after whole *)
(* turns, and change their sign with half a turn.                          *)
LEMMA UnitTurns ==
  ASSUME NEW i \in Int
  PROVE  /\ Unit(i) \in Int /\ Unit(-i) = Unit(i)
         /\ \A r \in Int : /\ Unit(i + PaddedLength * r) = Unit(i)
                           /\ Unit(i + (Half + PaddedLength * r)) = -Unit(i)
PROOF
  <1>0. Half \in Nat \ {0} /\ PaddedLength = 2 * Half /\ PaddedLength \in Nat
    BY PaddedLengthFits
  <1>1. 1 \in Int /\ Real(1) \in Complex
    BY RealIsComplex
  <1>2. ASSUME NEW j \in Int
        PROVE  /\ Unit(j) \in Int
               /\ \A r \in Int : Unit(j + PaddedLength * r) = Unit(j)
    BY <1>1, CoefficientAfterTurns DEF Unit
  <1>3. ASSUME NEW r \in Int PROVE Unit(i + (Half + PaddedLength * r)) = -Unit(i)
    <2> DEFINE m == PaddedLength * r
    <2>1. m \in Int
      BY <1>0
    <2>2. i + Half \in Int /\ i + (Half + m) = (i + Half) + m /\ (i + Half) - Half = i
      BY <1>0, <2>1
    <2>3. Unit((i + Half) + m) = Unit(i + Half)
      BY <1>2, <2>2
    <2> HIDE DEF m
    <2>4. Unit((i + Half) - Half) = -Unit(i + Half) /\ Unit(i + Half) \in Int
      BY <1>1, <2>2, CoefficientAfterTurns DEF Unit
    <2>5. Unit(i + (Half + m)) = -Unit(i)
      BY <2>2, <2>3, <2>4
    <2>6. QED
      BY <2>5 DEF m
  <1>4. Conjugate(Real(1)) = Real(1)
    <2>1. ASSUME NEW e \in 0 .. Half - 1 PROVE Coefficient(Real(1), -e) = Real(1)[e]
      <3>1. CASE e = 0
        <4>1. 0 \in 0 .. Half - 1
          BY <1>0
        <4>2. -e = e
          <5>1. \A n \in Int : n + n = 0 => -n = n
            OBVIOUS
          <5>2. e \in Int /\ e + e = 0
            BY <1>0, <3>1
          <5>3. QED
            BY <5>1, <5>2
        <4>3. Coefficient(Real(1), 0) = Real(1)[0]
          BY <4>1, CoefficientBelowHalf
        <4>4. QED
          BY <3>1, <4>2, <4>3
      <3>2. CASE e # 0
        <4> DEFINE u == PaddedLength - e
        <4>1. u \in 0 .. PaddedLength - 1 /\ ~(u < Half) /\ u - Half \in 0 .. Half - 1 /\ u - Half # 0
              /\ -e = PaddedLength * (-1) + u /\ -1 \in Int
          BY <1>0, <3>2
        <4> HIDE DEF u
        <4>2. Coefficient(Real(1), PaddedLength * (-1) + u) = -Real(1)[u - Half]
          BY <4>1, CoefficientByRemainder
        <4>3. Real(1)[u - Half] = 0 /\ Real(1)[e] = 0
          BY <3>2, <4>1 DEF Real
        <4>4. QED
          BY <4>1, <4>2, <4>3
      <3>3. QED
        BY <3>1, <3>2
    <2>2. Real(1) = [e \in 0 .. Half - 1 |-> Real(1)[e]]
      BY DEF Real
    <2>3. QED
      BY <2>1, <2>2 DEF Conjugate
  <1>5. Unit(-i) = Unit(i)
    <2>1. Coefficient(Conjugate(Real(1)), i) = Coefficient(Real(1), -i)
      BY <1>1, CoefficientOfConjugate
    <2>2. QED
      BY <1>4, <2>1 DEF Unit
  <1>6. QED
    BY <1>2, <1>3, <1>5

(* The units d steps apart.                                                *)
UnitsApart(i, d) == [l \in 1 .. PaddedLength |-> Unit(i + (l - 1) * d)]

(* They cancel, unless the steps are whole turns.                          *)
LEMMA UnitsCancel ==
  ASSUME NEW i \in Int, NEW d \in Int, \A r \in Int : d # PaddedLength * r
  PROVE  AreNumbers(UnitsApart(i, d), PaddedLength) /\ Total(UnitsApart(i, d), PaddedLength) = 0
PROOF
  <1> DEFINE f == [t \in Int |-> Unit(i + t * d)]
             P == PaddedLength
  <1>0. P \in Nat \ {0} /\ PaddedBits \in Nat \ {0} /\ Half \in Nat
        /\ Doubled[PaddedBits] = P /\ Doubled[PaddedBits - 1] = Half
    BY PaddedLengthFits
  <1>1. PICK q \in Nat, r \in Int : q * d = Half + P * r
    <2> DEFINE c == PaddedBits - 1
    <2>1. c \in Nat /\ c + 1 = PaddedBits
      BY <1>0
    <2>2. HalfIsReached(d, c)
      BY <2>1, MultiplesReachHalf
    <2>3. QED
      BY <1>0, <2>1, <2>2 DEF HalfIsReached
  <1>2. \A t \in Int : t * d \in Int
    OBVIOUS
  <1>3. ASSUME NEW t \in Int PROVE f[t] \in Int /\ f[t + P] = f[t] /\ f[t + q] = -f[t]
    <2> DEFINE m == t * d
    <2>1. m \in Int /\ i + m \in Int
      BY <1>2
    <2>2. (t + P) * d = t * d + P * d /\ (t + q) * d = t * d + q * d /\ P * d \in Int /\ P * r \in Int
      BY <1>0
    <2>3. t + P \in Int /\ t + q \in Int
      BY <1>0
    <2>4. f[t] = Unit(i + m) /\ f[t + P] = Unit(i + (t + P) * d) /\ f[t + q] = Unit(i + (t + q) * d)
      BY <2>3
    <2> HIDE DEF f
    <2> DEFINE pd == P * d  hr == Half + P * r
    <2>5. pd \in Int /\ hr \in Int /\ (t + P) * d = m + pd /\ (t + q) * d = m + hr
      BY <1>0, <1>1, <2>2
    <2> HIDE DEF m
    <2>6. i + (m + pd) = (i + m) + pd /\ i + (m + hr) = (i + m) + hr
      <3> HIDE DEF pd, hr
      <3>1. QED
        BY <2>1, <2>5
    <2>7. Unit(i + m) \in Int /\ Unit((i + m) + pd) = Unit(i + m) /\ Unit((i + m) + hr) = -Unit(i + m)
      BY <2>1, UnitTurns
    <2>8. QED
      BY <2>4, <2>5, <2>6, <2>7
  <1>4. IsPeriodic(f, P)
    BY <1>3 DEF IsPeriodic
  <1>5. UnitsApart(i, d) = Period(f, 0, P)
    <2>1. \A l \in 1 .. P : 0 + (l - 1) = l - 1 /\ l - 1 \in Int
      BY <1>0
    <2>2. QED
      BY <2>1 DEF UnitsApart, Period
  <1> HIDE DEF f, P
  <1>6. Total(Period(f, 0, P), P) = 0
    BY <1>0, <1>3, <1>4, AlternatingPeriod
  <1>7. AreNumbers(Period(f, 0, P), P)
    <2>1. 0 \in Nat
      OBVIOUS
    <2>2. QED
      BY <1>0, <1>4, <2>1, TotalOfPeriod
  <1>8. QED
    BY <1>5, <1>6, <1>7 DEF P

(* A total of numbers that are 0 but one is that one.                      *)
LEMMA TotalOfOne ==
  ASSUME NEW n \in Nat, NEW f, AreNumbers(f, n), NEW i \in 1 .. n, \A j \in 1 .. n : j # i => f[j] = 0
  PROVE  Total(f, n) = f[i]
PROOF
  <1> DEFINE m == i - 1
  <1>1. m \in Nat /\ m + 1 = i /\ m <= n /\ m + 1 <= n /\ m + 1 \in Nat /\ 0 \in Int
    OBVIOUS
  <1>2. \A j \in (m + 1) + 1 .. n : f[j] = 0
    OBVIOUS
  <1>3. \A j \in 1 .. m : f[j] = 0
    OBVIOUS
  <1> HIDE DEF m
  <1>4. Total(f, n) = Total(f, m + 1)
    BY <1>1, <1>2, TotalOfZeros
  <1>5. Total(f, m) = m * 0
    BY <1>1, <1>3, TotalOfSame
  <1>6. AreNumbers(f, m + 1)
    BY <1>1, FewerNumbers
  <1>7. Total(f, m + 1) = Total(f, m) + f[m + 1] /\ f[m + 1] \in Int
    BY <1>1, <1>6, TotalOfOneMore
  <1>8. m * 0 = 0
    BY <1>1
  <1>9. QED
    BY <1>1, <1>4, <1>5, <1>7, <1>8

(* What the samples v, turned t times as often as their distance from i,   *)
(* have at e.                                                              *)
WaveTerms(v, i, e, t) == [j \in 1 .. PaddedLength |-> v[j] * Unit(e + t * (i - j))]
WaveSum(v, i, e, t) == Total(WaveTerms(v, i, e, t), PaddedLength)

(* It is a number, the same after whole turns, and the same turned back at *)
(* the opposite of e.                                                      *)
LEMMA WaveSumTurns ==
  ASSUME NEW v \in [1 .. PaddedLength -> Int], NEW i \in Int, NEW e \in Int, NEW t \in Int
  PROVE  /\ AreNumbers(WaveTerms(v, i, e, t), PaddedLength) /\ WaveSum(v, i, e, t) \in Int
         /\ WaveSum(v, i, e, PaddedLength + t) = WaveSum(v, i, e, t)
         /\ WaveSum(v, i, -e, t) = WaveSum(v, i, e, -t)
PROOF
  <1> DEFINE P == PaddedLength
  <1>0. P \in Nat
    BY PaddedLengthFits
  <1>1. ASSUME NEW u \in Int, NEW s \in Int PROVE AreNumbers(WaveTerms(v, i, u, s), P)
    <2>1. ASSUME NEW j \in 1 .. P PROVE v[j] * Unit(u + s * (i - j)) \in Int
      <3>1. i - j \in Int
        OBVIOUS
      <3>2. s * (i - j) \in Int
        BY <3>1
      <3> DEFINE m == u + s * (i - j)
      <3>3. m \in Int /\ v[j] \in Int
        BY <3>2
      <3> HIDE DEF m
      <3>4. Unit(m) \in Int
        BY <3>3, UnitTurns
      <3>5. QED
        BY <3>3, <3>4 DEF m
    <2>2. QED
      BY <2>1 DEF AreNumbers, WaveTerms
  <1>2. P + t \in Int /\ -t \in Int /\ -e \in Int
    BY <1>0
  <1>3. Same(WaveTerms(v, i, e, t), WaveTerms(v, i, e, P + t), P)
    <2>1. ASSUME NEW j \in 1 .. P
          PROVE  WaveTerms(v, i, e, t)[j] = WaveTerms(v, i, e, P + t)[j]
      <3> DEFINE d == i - j  m == e + t * (i - j)
      <3>1. d \in Int
        OBVIOUS
      <3>2. (P + t) * d = P * d + t * d /\ t * d \in Int /\ P * d \in Int
        BY <1>0, <3>1
      <3>3. e + (P + t) * d = m + P * d /\ m \in Int
        BY <3>2
      <3>4. /\ WaveTerms(v, i, e, t)[j] = v[j] * Unit(m)
            /\ WaveTerms(v, i, e, P + t)[j] = v[j] * Unit(e + (P + t) * d)
        BY DEF WaveTerms
      <3> HIDE DEF m, d
      <3>5. Unit(m + P * d) = Unit(m)
        BY <3>1, <3>3, UnitTurns
      <3>6. QED
        BY <3>3, <3>4, <3>5
    <2>2. QED
      BY <2>1 DEF Same
  <1>4. Same(WaveTerms(v, i, -e, t), WaveTerms(v, i, e, -t), P)
    <2>1. ASSUME NEW j \in 1 .. P
          PROVE  WaveTerms(v, i, -e, t)[j] = WaveTerms(v, i, e, -t)[j]
      <3> DEFINE d == i - j  m == e + (-t) * (i - j)
      <3>1. d \in Int
        OBVIOUS
      <3>2. (-t) * d = -(t * d) /\ t * d \in Int
        BY <3>1
      <3>3. (-e) + t * d = -m /\ m \in Int
        BY <3>2
      <3>4. /\ WaveTerms(v, i, -e, t)[j] = v[j] * Unit((-e) + t * d)
            /\ WaveTerms(v, i, e, -t)[j] = v[j] * Unit(m)
        BY DEF WaveTerms
      <3> HIDE DEF m, d
      <3>5. Unit(-m) = Unit(m)
        BY <3>3, UnitTurns
      <3>6. QED
        BY <3>3, <3>4, <3>5
    <2>2. QED
      BY <2>1 DEF Same
  <1> HIDE DEF P
  <1>5. AreNumbers(WaveTerms(v, i, e, t), P) /\ Total(WaveTerms(v, i, e, t), P) \in Int
    BY <1>0, <1>1, TotalIsNumber
  <1>6. Total(WaveTerms(v, i, e, t), P) = Total(WaveTerms(v, i, e, P + t), P)
    BY <1>0, <1>3, <1>5, EqualTotals
  <1>7. AreNumbers(WaveTerms(v, i, -e, t), P)
    BY <1>1, <1>2
  <1>8. Total(WaveTerms(v, i, -e, t), P) = Total(WaveTerms(v, i, e, -t), P)
    BY <1>0, <1>4, <1>7, EqualTotals
  <1>9. QED
    BY <1>5, <1>6, <1>8 DEF P, WaveSum

(* Over all turns, what is at another distance cancels.                    *)
LEMMA SumOfAllTurns ==
  ASSUME NEW v \in [1 .. PaddedLength -> Int], NEW i \in 1 .. PaddedLength, NEW e \in Int
  PROVE  /\ AreNumbers([l \in 1 .. PaddedLength |-> WaveSum(v, i, e, l - 1)], PaddedLength)
         /\ Total([l \in 1 .. PaddedLength |-> WaveSum(v, i, e, l - 1)], PaddedLength)
              = PaddedLength * (v[i] * Unit(e))
PROOF
  <1> DEFINE P == PaddedLength
             F == [l \in 1 .. P |-> WaveTerms(v, i, e, l - 1)]
             columns == ColumnTotals(F, P, P)
  <1>0. P \in Nat
    BY PaddedLengthFits
  <1>a. i \in Int
    BY <1>0
  <1>1. \A l \in 1 .. P : AreNumbers(F[l], P)
    <2>1. TAKE l \in 1 .. P
    <2>2. l - 1 \in Int
      BY <1>0
    <2>3. QED
      BY <1>a, <2>2, WaveSumTurns
  <1>2. RowTotals(F, P, P) = [l \in 1 .. P |-> WaveSum(v, i, e, l - 1)]
    BY DEF RowTotals, WaveSum
  <1>3. \A j \in 1 .. P : columns[j] = Total(Column(F, j, P), P)
    BY DEF ColumnTotals
  <1>4. ASSUME NEW j \in 1 .. P, NEW l \in 1 .. P
        PROVE  Column(F, j, P)[l] = v[j] * Unit(e + (l - 1) * (i - j))
    BY <1>4 DEF Column, WaveTerms
  <1>5. ASSUME NEW j \in 1 .. P, j # i PROVE columns[j] = 0
    <2> DEFINE d == i - j
               U == UnitsApart(e, d)
    <2>1. d \in Int /\ \A r \in Int : d # P * r
      <3>1. d \in Int /\ d # 0 /\ d < P /\ -P < d
        BY <1>0, <1>5
      <3>2. ASSUME NEW r \in Int, d = P * r PROVE FALSE
        <4> HIDE DEF d, P
        <4>1. CASE r = 0
          BY <1>0, <3>1, <3>2, <4>1
        <4>2. CASE r >= 1
          <5>1. P * r >= P
            BY <1>0, <4>2
          <5>2. QED
            BY <1>0, <3>1, <3>2, <5>1
        <4>3. CASE r <= -1
          <5>1. P * r <= -P
            BY <1>0, <4>3
          <5>2. QED
            BY <1>0, <3>1, <3>2, <5>1
        <4>4. QED
          BY <4>1, <4>2, <4>3
      <3>3. QED
        BY <3>1, <3>2
    <2>2. AreNumbers(U, P) /\ Total(U, P) = 0
      BY <2>1, UnitsCancel
    <2>3. ASSUME NEW l \in 1 .. P PROVE Column(F, j, P)[l] = v[j] * U[l] + 0 * U[l]
      <3>1. Column(F, j, P)[l] = v[j] * U[l]
        BY <1>4 DEF UnitsApart
      <3>2. U[l] \in Int /\ v[j] \in Int
        BY <2>2 DEF AreNumbers
      <3>3. v[j] * U[l] \in Int /\ 0 * U[l] = 0
        BY <3>2
      <3>4. QED
        BY <3>1, <3>3
    <2> HIDE DEF U
    <2>4. Combines(Column(F, j, P), v[j], U, 0, U, P)
      BY <2>3 DEF Combines
    <2>5. v[j] \in Int /\ 0 \in Int
      OBVIOUS
    <2> HIDE DEF P, F
    <2>6. Total(Column(F, j, P), P) = v[j] * Total(U, P) + 0 * Total(U, P)
      BY <1>0, <2>2, <2>4, <2>5, TotalIsLinear
    <2>7. v[j] * 0 = 0
      BY <2>5
    <2>8. QED
      BY <1>3, <2>2, <2>6, <2>7
  <1>6. columns[i] = P * (v[i] * Unit(e))
    <2> DEFINE c == v[i] * Unit(e)
    <2>1. i \in 1 .. P /\ c \in Int
      <3>1. v[i] \in Int /\ Unit(e) \in Int
        BY UnitTurns
      <3>2. QED
        BY <3>1
    <2>2. ASSUME NEW l \in 1 .. P PROVE Column(F, i, P)[l] = c
      <3>1. i - i = 0 /\ (l - 1) * 0 = 0 /\ e + 0 = e
        BY <1>0, <1>a
      <3>2. e + (l - 1) * (i - i) = e
        BY <3>1
      <3>3. QED
        BY <1>4, <2>1, <3>2
    <2> HIDE DEF c, P, F
    <2>3. Total(Column(F, i, P), P) = P * c
      BY <1>0, <2>1, <2>2, TotalOfSame
    <2>4. QED
      BY <1>3, <2>1, <2>3 DEF c
  <1> HIDE DEF P, F
  <1>7. /\ AreNumbers(RowTotals(F, P, P), P) /\ AreNumbers(columns, P)
        /\ Total(RowTotals(F, P, P), P) = Total(columns, P)
    BY <1>0, <1>1, TotalsExchanged
  <1> HIDE DEF columns
  <1>8. i \in 1 .. P
    BY DEF P
  <1>9. Total(columns, P) = columns[i]
    BY <1>0, <1>5, <1>7, <1>8, TotalOfOne
  <1>10. QED
    BY <1>2, <1>6, <1>7, <1>9 DEF P

(* What hilbert_envelope multiplies an item of the spectrum with.          *)
Weight(k) == IF k > Half + 1 THEN 0 ELSE IF k \in 2 .. Half THEN 2 ELSE 1

(* The items at the same distance from both ends of the spectrum weigh two *)
(* together.                                                               *)
LEMMA WeightsOfOpposites ==
  /\ Weight(1) = 1 /\ \A k \in 1 .. PaddedLength : Weight(k) \in Int
  /\ \A l \in 1 .. PaddedLength - 1 :
       \A w \in Int : Weight(l + 1) * w + Weight(PaddedLength + 1 - l) * w = 2 * w
PROOF
  <1>0. Half \in Nat \ {0} /\ PaddedLength = 2 * Half
    BY PaddedLengthFits
  <1>1. Weight(1) = 1 /\ \A k \in 1 .. PaddedLength : Weight(k) \in Int
    BY <1>0 DEF Weight
  <1>2. ASSUME NEW l \in 1 .. PaddedLength - 1, NEW w \in Int
        PROVE  Weight(l + 1) * w + Weight(PaddedLength + 1 - l) * w = 2 * w
    <2>1. CASE l < Half
      <3>1. Weight(l + 1) = 2 /\ Weight(PaddedLength + 1 - l) = 0
        BY <1>0, <2>1 DEF Weight
      <3>2. QED
        BY <3>1
    <2>2. CASE l = Half
      <3>1. Weight(l + 1) = 1 /\ Weight(PaddedLength + 1 - l) = 1
        BY <1>0, <2>2 DEF Weight
      <3>2. QED
        BY <3>1
    <2>3. CASE l > Half
      <3>1. Weight(l + 1) = 0 /\ Weight(PaddedLength + 1 - l) = 2
        BY <1>0, <2>3 DEF Weight
      <3>2. QED
        BY <3>1
    <2>4. QED
      BY <1>0, <2>1, <2>2, <2>3
  <1>3. QED
    BY <1>1, <1>2

(* The values of W, weighted, forwards and backwards from the first.       *)
WeightedForth(W) == [l \in 1 .. PaddedLength |-> Weight(l) * W[l - 1]]
WeightedBack(W) == [l \in 1 .. PaddedLength |-> Weight(l) * W[1 - l]]

(* They are numbers and together twice the values of W.                    *)
LEMMA WeightsMakeTwo ==
  ASSUME NEW W \in [Int -> Int], IsPeriodic(W, PaddedLength)
  PROVE  /\ AreNumbers(WeightedForth(W), PaddedLength) /\ AreNumbers(WeightedBack(W), PaddedLength)
         /\ Total(WeightedForth(W), PaddedLength) + Total(WeightedBack(W), PaddedLength)
              = 2 * Total([l \in 1 .. PaddedLength |-> W[l - 1]], PaddedLength)
PROOF
  <1> DEFINE P == PaddedLength
             p == P - 1
             f == WeightedForth(W)
             g == WeightedBack(W)
             s == [l \in 1 .. P |-> W[l - 1]]
             back == [l \in 1 .. p |-> Rest(g, p)[p + 1 - l]]
             twice == [l \in 1 .. p |-> 2 * W[l]]
  <1>0. P \in Nat /\ p \in Nat /\ p + 1 = P /\ 1 \in 1 .. P
    BY PaddedLengthFits
  <1>1. ASSUME NEW l \in 1 .. P
        PROVE  /\ f[l] = Weight(l) * W[l - 1] /\ g[l] = Weight(l) * W[1 - l] /\ s[l] = W[l - 1]
               /\ f[l] \in Int /\ g[l] \in Int /\ s[l] \in Int
    <2>1. f[l] = Weight(l) * W[l - 1] /\ g[l] = Weight(l) * W[1 - l] /\ s[l] = W[l - 1]
      BY DEF WeightedForth, WeightedBack
    <2>2. l - 1 \in Int /\ 1 - l \in Int
      BY <1>0
    <2>3. W[l - 1] \in Int /\ W[1 - l] \in Int /\ Weight(l) \in Int
      BY <2>2, WeightsOfOpposites
    <2>4. QED
      BY <2>1, <2>3
  <1>2. AreNumbers(f, P) /\ AreNumbers(g, P) /\ AreNumbers(s, P)
    BY <1>1 DEF AreNumbers
  <1>3. f[1] = W[0] /\ g[1] = W[0] /\ s[1] = W[0] /\ W[0] \in Int
    <2>1. 1 - 1 = 0 /\ 0 \in Int
      OBVIOUS
    <2>2. W[0] \in Int
      BY <2>1
    <2>3. QED
      BY <1>0, <1>1, <2>1, <2>2, WeightsOfOpposites
  <1>4. ASSUME NEW l \in 1 .. p
        PROVE  /\ Rest(s, p)[l] = W[l]
               /\ Rest(f, p)[l] = Weight(l + 1) * W[l]
               /\ Rest(g, p)[p + 1 - l] = Weight(P + 1 - l) * W[l]
    <2>1. l + 1 \in 1 .. P /\ p + 1 - l \in 1 .. p /\ P + 1 - l \in 1 .. P
          /\ (p + 1 - l) + 1 = P + 1 - l /\ (l + 1) - 1 = l /\ 1 - (P + 1 - l) = l - P
      BY <1>0
    <2>2. /\ Rest(s, p)[l] = s[l + 1] /\ Rest(f, p)[l] = f[l + 1]
          /\ Rest(g, p)[p + 1 - l] = g[P + 1 - l]
      BY <2>1 DEF Rest
    <2>3. W[l - P] = W[l]
      <3>1. l - P \in Int /\ (l - P) + P = l
        BY <1>0
      <3>2. QED
        BY <3>1 DEF IsPeriodic
    <2>4. g[P + 1 - l] = Weight(P + 1 - l) * W[l - P]
      BY <1>1, <2>1
    <2>5. f[l + 1] = Weight(l + 1) * W[l] /\ s[l + 1] = W[l]
      BY <1>1, <2>1
    <2>6. QED
      BY <2>2, <2>3, <2>4, <2>5
  <1>5. ASSUME NEW l \in 1 .. p
        PROVE  /\ twice[l] = 1 * Rest(f, p)[l] + 1 * back[l]
               /\ twice[l] = 2 * Rest(s, p)[l] + 0 * Rest(s, p)[l]
    <2>1. W[l] \in Int /\ l \in 1 .. P - 1
      <3>1. l \in Int
        BY <1>0
      <3>2. QED
        BY <3>1
    <2>2. Weight(l + 1) * W[l] + Weight(P + 1 - l) * W[l] = 2 * W[l]
      BY <2>1, WeightsOfOpposites
    <2>3. Weight(l + 1) \in Int /\ Weight(P + 1 - l) \in Int
      <3>1. l + 1 \in 1 .. P /\ P + 1 - l \in 1 .. P
        BY <1>0
      <3>2. QED
        BY <3>1, WeightsOfOpposites
    <2>4. Weight(l + 1) * W[l] \in Int /\ Weight(P + 1 - l) * W[l] \in Int
      BY <2>1, <2>3
    <2>5. back[l] = Weight(P + 1 - l) * W[l] /\ twice[l] = 2 * W[l]
      BY <1>4
    <2> DEFINE a == Weight(l + 1) * W[l]  b == Weight(P + 1 - l) * W[l]
    <2>6. a \in Int /\ b \in Int /\ a + b = 2 * W[l]
      BY <2>2, <2>4
    <2> HIDE DEF a, b
    <2>7. 1 * a + 1 * b = 2 * W[l] /\ 2 * W[l] + 0 * W[l] = 2 * W[l]
      BY <2>1, <2>6
    <2>8. QED
      BY <1>4, <2>5, <2>7 DEF a, b
  <1> HIDE DEF f, g, s, P, p
  <1>6. /\ AreNumbers(Rest(f, p), p) /\ AreNumbers(Rest(g, p), p) /\ AreNumbers(Rest(s, p), p)
        /\ Total(f, p + 1) = f[1] + Total(Rest(f, p), p)
        /\ Total(g, p + 1) = g[1] + Total(Rest(g, p), p)
        /\ Total(s, p + 1) = s[1] + Total(Rest(s, p), p)
    BY <1>0, <1>2, FirstApart
  <1>7. IsReverse(back, Rest(g, p), p)
    BY DEF IsReverse
  <1>8. AreNumbers(back, p)
    <2>1. ASSUME NEW l \in 1 .. p PROVE back[l] \in Int
      <3>1. p + 1 - l \in 1 .. p
        BY <1>0
      <3>2. QED
        BY <1>6, <3>1 DEF AreNumbers
    <2>2. QED
      BY <2>1 DEF AreNumbers
  <1> HIDE DEF back
  <1>9. Total(back, p) = Total(Rest(g, p), p)
    BY <1>0, <1>6, <1>7, TotalOfReverse
  <1>10. Combines(twice, 1, Rest(f, p), 1, back, p) /\ Combines(twice, 2, Rest(s, p), 0, Rest(s, p), p)
    BY <1>5 DEF Combines
  <1> HIDE DEF twice
  <1>11. 0 \in Int /\ 1 \in Int /\ 2 \in Int
    OBVIOUS
  <1>12. Total(twice, p) = 1 * Total(Rest(f, p), p) + 1 * Total(back, p)
    BY <1>0, <1>6, <1>8, <1>10, <1>11, TotalIsLinear
  <1>13. Total(twice, p) = 2 * Total(Rest(s, p), p) + 0 * Total(Rest(s, p), p)
    BY <1>0, <1>6, <1>10, <1>11, TotalIsLinear
  <1>14. /\ Total(Rest(f, p), p) \in Int /\ Total(Rest(g, p), p) \in Int
         /\ Total(Rest(s, p), p) \in Int
    BY <1>0, <1>6, TotalIsNumber
  <1>15. Total(f, P) + Total(g, P) = 2 * Total(s, P)
    <2> DEFINE tf == Total(Rest(f, p), p)  tg == Total(Rest(g, p), p)  ts == Total(Rest(s, p), p)
    <2>1. tf \in Int /\ tg \in Int /\ ts \in Int /\ W[0] \in Int
      BY <1>3, <1>14
    <2>2. 1 * tf + 1 * tg = 2 * ts + 0 * ts
      BY <1>9, <1>12, <1>13
    <2>3. Total(f, P) = W[0] + tf /\ Total(g, P) = W[0] + tg /\ Total(s, P) = W[0] + ts
      BY <1>0, <1>3, <1>6
    <2> HIDE DEF tf, tg, ts
    <2>4. QED
      BY <2>1, <2>2, <2>3
  <1>16. QED
    BY <1>2, <1>15 DEF P, f, g, s

(* The items of the spectrum, weighted.                                    *)
OneSided(x) ==
  [i \in 1 .. PaddedLength |->
     IF i > Half + 1 THEN Real(0)
     ELSE IF i \in 2 .. Half THEN Scaled(Fft(x)[i], 2) ELSE Fft(x)[i]]

LEMMA CoefficientOfOneSided ==
  ASSUME NEW x \in Seq(Int), Len(x) <= PaddedLength, NEW k \in 1 .. PaddedLength
  PROVE  /\ OneSided(x)[k] \in Complex
         /\ \A i \in Int : /\ Coefficient(Fft(x)[k], i) \in Int
                           /\ Coefficient(OneSided(x)[k], i) = Weight(k) * Coefficient(Fft(x)[k], i)
PROOF
  <1>0. Half \in Nat \ {0} /\ PaddedLength \in Nat
    BY PaddedLengthFits
  <1> DEFINE a == Fft(x)[k]
  <1>1. a \in Complex
    BY FftOfWindow
  <1>2. \A i \in Int : Coefficient(a, i) \in Int
    BY <1>1, CoefficientAfterTurns
  <1> HIDE DEF a
  <1>3. CASE k > Half + 1
    <2>1. OneSided(x)[k] = Real(0) /\ Weight(k) = 0 /\ 0 \in Int
      BY <1>3 DEF OneSided, Weight
    <2>2. Real(0) \in Complex
      BY <2>1, RealIsComplex
    <2>3. ASSUME NEW i \in Int PROVE Coefficient(Real(0), i) = 0 * Coefficient(a, i)
      <3>1. Coefficient(Real(0), i) = 0 * Unit(i) /\ Unit(i) \in Int
        BY <2>1, CoefficientOfReal
      <3>2. Coefficient(a, i) \in Int
        BY <1>2
      <3>3. QED
        BY <3>1, <3>2
    <2>4. QED
      BY <1>2, <2>1, <2>2, <2>3 DEF a
  <1>4. CASE ~(k > Half + 1) /\ k \in 2 .. Half
    <2>1. OneSided(x)[k] = Scaled(a, 2) /\ Weight(k) = 2 /\ 2 \in Int
      BY <1>4 DEF OneSided, Weight, a
    <2>2. Scaled(a, 2) \in Complex /\ \A i \in Int : Coefficient(Scaled(a, 2), i) = 2 * Coefficient(a, i)
      BY <1>1, <2>1, CoefficientOfScaled
    <2>3. QED
      BY <1>2, <2>1, <2>2 DEF a
  <1>5. CASE ~(k > Half + 1) /\ k \notin 2 .. Half
    <2>1. OneSided(x)[k] = a /\ Weight(k) = 1
      BY <1>5 DEF OneSided, Weight, a
    <2>2. \A i \in Int : Coefficient(a, i) = 1 * Coefficient(a, i)
      BY <1>2
    <2>3. QED
      BY <1>1, <1>2, <2>1, <2>2 DEF a
  <1>6. QED
    BY <1>3, <1>4, <1>5

(* The waves of the samples v at i.                                        *)
Waves(v, i, e) == [t \in Int |-> WaveSum(v, i, e, t)]

LEMMA WavesArePeriodic ==
  ASSUME NEW v \in [1 .. PaddedLength -> Int], NEW i \in Int, NEW e \in Int
  PROVE  /\ Waves(v, i, e) \in [Int -> Int] /\ IsPeriodic(Waves(v, i, e), PaddedLength)
         /\ WeightedForth(Waves(v, i, -e)) = WeightedBack(Waves(v, i, e))
PROOF
  <1>0. PaddedLength \in Nat
    BY PaddedLengthFits
  <1>1. ASSUME NEW t \in Int
        PROVE  /\ Waves(v, i, e)[t] \in Int
               /\ Waves(v, i, e)[t + PaddedLength] = Waves(v, i, e)[t]
               /\ Waves(v, i, -e)[t] = Waves(v, i, e)[-t]
    <2>1. t + PaddedLength \in Int /\ t + PaddedLength = PaddedLength + t /\ -t \in Int
      BY <1>0
    <2>2. /\ WaveSum(v, i, e, t) \in Int /\ WaveSum(v, i, e, PaddedLength + t) = WaveSum(v, i, e, t)
          /\ WaveSum(v, i, -e, t) = WaveSum(v, i, e, -t)
      BY WaveSumTurns
    <2>3. QED
      BY <2>1, <2>2 DEF Waves
  <1>2. Waves(v, i, e) = [t \in Int |-> Waves(v, i, e)[t]]
    BY DEF Waves
  <1>3. Waves(v, i, e) \in [Int -> Int] /\ IsPeriodic(Waves(v, i, e), PaddedLength)
    BY <1>1, <1>2 DEF IsPeriodic
  <1>4. \A l \in 1 .. PaddedLength : Waves(v, i, -e)[l - 1] = Waves(v, i, e)[1 - l]
    <2>1. TAKE l \in 1 .. PaddedLength
    <2>2. l - 1 \in Int /\ -(l - 1) = 1 - l
      BY <1>0
    <2>3. QED
      BY <1>1, <2>2
  <1>5. WeightedForth(Waves(v, i, -e)) = WeightedBack(Waves(v, i, e))
    BY <1>4 DEF WeightedForth, WeightedBack
  <1>6. QED
    BY <1>3, <1>5

(* An item of the analytic signal is the weighted sum of the waves.        *)
LEMMA AnalyticItem ==
  ASSUME NEW x \in Seq(Int), Len(x) <= PaddedLength, NEW i \in 1 .. Len(x)
  PROVE  /\ AnalyticSignal(x)[i] \in Complex
         /\ \A e \in Int : Coefficient(AnalyticSignal(x)[i], e)
                             = Total(WeightedForth(Waves(Padded(x), i, e)), PaddedLength)
PROOF
  <1> DEFINE P == PaddedLength
             v == Padded(x)
             y == [k \in 1 .. P |-> Conjugate(OneSided(x)[k])]
             inverse == FftRecursive[PaddedBits][y]
             z == AnalyticSignal(x)[i]
  <1>0. P \in Nat /\ Len(x) \in Nat /\ i \in 1 .. P /\ i \in Int
    BY PaddedLengthFits
  <1>1. v \in [1 .. P -> Int]
    BY FftOfWindow
  <1>2. ASSUME NEW k \in 1 .. P
        PROVE  /\ y[k] \in Complex
               /\ \A u \in Int : Coefficient(y[k], u) = Coefficient(OneSided(x)[k], -u)
    BY CoefficientOfOneSided, CoefficientOfConjugate
  <1>3. y \in [1 .. P -> Complex]
    BY <1>2
  <1>4. z = Conjugate(inverse[i])
    BY DEF AnalyticSignal, OneSided
  <1> HIDE DEF y
  <1>6. /\ inverse[i] \in Complex
        /\ \A u \in Int : Coefficient(inverse[i], u) = TransformAt(y, P, 1, i, u)
    BY <1>0, <1>3, FullTransform
  <1> HIDE DEF inverse, z
  <1>7. z \in Complex /\ \A e \in Int : Coefficient(z, e) = Coefficient(inverse[i], -e)
    BY <1>4, <1>6, CoefficientOfConjugate
  <1>8. ASSUME NEW e \in Int
        PROVE  Coefficient(z, e) = Total(WeightedForth(Waves(v, i, e)), P)
    <2> DEFINE f == WeightedForth(Waves(v, i, e))
               g == Terms(y, P, 1, i, -e)
    <2>1. ASSUME NEW k \in 1 .. P PROVE g[k] = f[k]
      <3> DEFINE m == (k - 1) * (i - 1)
                 u == (-e) - m
                 w == e + m
      <3>1. k - 1 \in Int /\ i - 1 \in Int
        BY <1>0
      <3>2. m \in Int
        BY <3>1
      <3>3. g[k] = Coefficient(y[k], (-e) - 1 * m)
        BY DEF Terms
      <3>4. f[k] = Weight(k) * WaveSum(v, i, e, k - 1)
        BY <3>1 DEF WeightedForth, Waves
      <3>5. SpectrumTerms(v, k, w) = WaveTerms(v, i, e, k - 1)
        <4>1. ASSUME NEW j \in 1 .. P
              PROVE  w - (j - 1) * (k - 1) = e + (k - 1) * (i - j)
          <5>1. j - 1 \in Int /\ i - j = (i - 1) - (j - 1)
            BY <1>0
          <5> DEFINE a == k - 1  b == i - 1  c == j - 1
          <5>2. a \in Int /\ b \in Int /\ c \in Int
            BY <3>1, <5>1
          <5>3. (e + a * b) - c * a = e + a * (b - c)
            <6> HIDE DEF a, b, c
            <6>1. a * (b - c) = a * b - c * a /\ a * b \in Int /\ c * a \in Int
              BY <5>2
            <6> DEFINE ab == a * b  ca == c * a
            <6>2. ab \in Int /\ ca \in Int /\ a * (b - c) = ab - ca
              BY <6>1
            <6> HIDE DEF ab, ca
            <6>3. (e + ab) - ca = e + (ab - ca)
              BY <6>2
            <6>4. QED
              BY <6>2, <6>3 DEF ab, ca
          <5>4. QED
            BY <5>1, <5>3
        <4> HIDE DEF w
        <4>2. QED
          BY <4>1 DEF SpectrumTerms, WaveTerms, P
      <3> HIDE DEF m
      <3>6. u \in Int /\ (-e) - 1 * m = u /\ -u = w /\ w \in Int
        BY <3>2
      <3> HIDE DEF u, w
      <3>7. g[k] = Coefficient(OneSided(x)[k], w)
        BY <1>2, <3>3, <3>6
      <3>8. Coefficient(OneSided(x)[k], w) = Weight(k) * Coefficient(Fft(x)[k], w)
        BY <3>6, CoefficientOfOneSided DEF P
      <3>9. Coefficient(Fft(x)[k], w) = Total(SpectrumTerms(v, k, w), P)
        BY <3>6, FftOfWindow DEF P, v
      <3>10. QED
        BY <3>4, <3>5, <3>7, <3>8, <3>9 DEF WaveSum, P
    <2>2. AreNumbers(f, P)
      BY <1>0, <1>1, WavesArePeriodic, WeightsMakeTwo
    <2>3. Coefficient(z, e) = Total(g, P)
      <3>1. -e \in Int
        OBVIOUS
      <3>2. QED
        BY <1>6, <1>7, <3>1 DEF TransformAt
    <2> HIDE DEF f, g
    <2>4. Same(f, g, P)
      BY <2>1 DEF Same
    <2>5. Total(f, P) = Total(g, P)
      BY <1>0, <2>2, <2>4, EqualTotals
    <2>6. QED
      BY <2>3, <2>5 DEF f
  <1>9. QED
    BY <1>7, <1>8 DEF z, v, P

(* hilbert_envelope: for every signal that fits, the real part of each     *)
(* item of the analytic signal is the sample, so that the envelope is the  *)
(* modulus of a signal that extends the measured one.                      *)
THEOREM AnalyticSignalExtends ==
  ASSUME NEW x \in Seq(Int), Len(x) <= PaddedLength, NEW i \in 1 .. Len(x)
  PROVE  Plus(AnalyticSignal(x)[i], Conjugate(AnalyticSignal(x)[i])) = Real(2 * PaddedLength * x[i])
PROOF
  <1> DEFINE P == PaddedLength
             v == Padded(x)
             z == AnalyticSignal(x)[i]
             c == 2 * PaddedLength * x[i]
  <1>0. P \in Nat /\ Half \in Nat /\ Len(x) \in Nat /\ i \in 1 .. P /\ i \in Int /\ x[i] \in Int
    BY PaddedLengthFits
  <1>1. v \in [1 .. P -> Int]
    BY FftOfWindow
  <1>2. v[i] = x[i]
    BY <1>0 DEF Padded
  <1>3. c \in Int /\ c = 2 * (P * x[i])
    <2>1. P * x[i] \in Int
      BY <1>0
    <2>2. 2 * P * x[i] = 2 * (P * x[i])
      BY <1>0
    <2>3. QED
      BY <2>1, <2>2
  <1>4. /\ z \in Complex
        /\ \A e \in Int : Coefficient(z, e) = Total(WeightedForth(Waves(v, i, e)), P)
    BY AnalyticItem
  <1> HIDE DEF P, v, z
  <1>5. Conjugate(z) \in Complex /\ \A e \in Int : Coefficient(Conjugate(z), e) = Coefficient(z, -e)
    BY <1>4, CoefficientOfConjugate
  <1>6. /\ Plus(z, Conjugate(z)) \in Complex
        /\ \A e \in Int : Coefficient(Plus(z, Conjugate(z)), e) = Coefficient(z, e) + Coefficient(Conjugate(z), e)
    BY <1>4, <1>5, CoefficientOfPlus
  <1>7. Real(c) \in Complex
    BY <1>3, RealIsComplex
  <1>8. ASSUME NEW e \in 0 .. Half - 1
        PROVE  Coefficient(Plus(z, Conjugate(z)), e) = Coefficient(Real(c), e)
    <2> DEFINE W == Waves(v, i, e)
               s == [l \in 1 .. P |-> WaveSum(v, i, e, l - 1)]
    <2>1. e \in Int /\ -e \in Int
      BY <1>0
    <2>2. /\ W \in [Int -> Int] /\ IsPeriodic(W, P)
          /\ WeightedForth(Waves(v, i, -e)) = WeightedBack(W)
      BY <1>0, <1>1, <2>1, WavesArePeriodic DEF P
    <2>3. s = [l \in 1 .. P |-> W[l - 1]]
      <3>1. \A l \in 1 .. P : l - 1 \in Int
        BY <1>0
      <3>2. QED
        BY <3>1 DEF Waves
    <2>4. Total(s, P) = P * (v[i] * Unit(e))
      BY <1>0, <1>1, <2>1, SumOfAllTurns DEF P
    <2> HIDE DEF W, s
    <2>5. Total(WeightedForth(W), P) + Total(WeightedBack(W), P) = 2 * Total(s, P)
      BY <2>2, <2>3, WeightsMakeTwo DEF P
    <2>6. Coefficient(z, e) = Total(WeightedForth(W), P) /\ Coefficient(z, -e) = Total(WeightedBack(W), P)
      BY <1>4, <2>1, <2>2 DEF W
    <2>7. Coefficient(Real(c), e) = c * Unit(e) /\ Unit(e) \in Int
      BY <1>3, <2>1, CoefficientOfReal
    <2>8. 2 * (P * (x[i] * Unit(e))) = (2 * (P * x[i])) * Unit(e)
      <3> DEFINE a == x[i]  b == Unit(e)
      <3>1. a \in Int /\ b \in Int
        BY <1>0, <2>7
      <3> HIDE DEF a, b
      <3>2. 2 * (P * (a * b)) = (2 * (P * a)) * b
        BY <1>0, <3>1
      <3>3. QED
        BY <3>2 DEF a, b
    <2>9. QED
      BY <1>2, <1>3, <1>5, <1>6, <2>1, <2>4, <2>5, <2>6, <2>7, <2>8
  <1>9. Plus(z, Conjugate(z)) = Real(c)
    BY <1>6, <1>7, <1>8, SameCoefficients
  <1>10. QED
    BY <1>9 DEF z

-----------------------------------------------------------------------------
(***************************************************************************)
(* Wavelets                                                                *)
(***************************************************************************)

Details(x) == [i \in 1 .. Len(x) \div 2 |-> x[2 * i - 1] - x[2 * i]]
PairSums(x) == [i \in 1 .. Len(x) \div 2 |-> x[2 * i - 1] + x[2 * i]]

(* One level on top of what F does to the sums of pairs.                   *)
HaarLevel(F) ==
  [x \in Seq(Int) |-> IF Len(x) < 2 THEN <<x>> ELSE <<Details(x)>> \o F[PairSums(x)]]

Decompositions == [Seq(Int) -> Seq(Seq(Int))]

(* The details and the sums of pairs are half as many numbers.             *)
LEMMA PairsAreNumbers ==
  ASSUME NEW x \in Seq(Int)
  PROVE  /\ Len(x) \div 2 \in Nat
         /\ Details(x) \in Seq(Int) /\ Len(Details(x)) = Len(x) \div 2
         /\ PairSums(x) \in Seq(Int) /\ Len(PairSums(x)) = Len(x) \div 2
PROOF
  <1> DEFINE n == Len(x) \div 2
  <1>1. n \in Nat /\ 2 * n <= Len(x) /\ Len(x) \in Nat
    OBVIOUS
  <1> HIDE DEF n
  <1>2. \A i \in 1 .. n : 2 * i - 1 \in 1 .. Len(x) /\ 2 * i \in 1 .. Len(x)
    BY <1>1
  <1>3. \A i \in 1 .. n : x[2 * i - 1] \in Int /\ x[2 * i] \in Int
    BY <1>2
  <1>4. \A i \in 1 .. n : x[2 * i - 1] - x[2 * i] \in Int /\ x[2 * i - 1] + x[2 * i] \in Int
    BY <1>3
  <1>5. /\ [i \in 1 .. n |-> x[2 * i - 1] - x[2 * i]] \in [1 .. n -> Int]
        /\ [i \in 1 .. n |-> x[2 * i - 1] + x[2 * i]] \in [1 .. n -> Int]
    BY <1>4
  <1>6. \A y \in [1 .. n -> Int] : y \in Seq(Int) /\ Len(y) = n
    BY <1>1
  <1>7. QED
    BY <1>1, <1>5, <1>6 DEF Details, PairSums, n

(* One more level is a decomposition.                                      *)
LEMMA LevelIsDecomposition ==
  ASSUME NEW F \in Decompositions
  PROVE  HaarLevel(F) \in Decompositions
PROOF
  <1>1. ASSUME NEW x \in Seq(Int)
        PROVE  (IF Len(x) < 2 THEN <<x>> ELSE <<Details(x)>> \o F[PairSums(x)]) \in Seq(Seq(Int))
    <2>1. Details(x) \in Seq(Int) /\ F[PairSums(x)] \in Seq(Seq(Int))
      BY PairsAreNumbers DEF Decompositions
    <2>2. <<x>> \in Seq(Seq(Int)) /\ <<Details(x)>> \in Seq(Seq(Int))
      BY <2>1
    <2>3. <<Details(x)>> \o F[PairSums(x)] \in Seq(Seq(Int))
      BY <2>1, <2>2, ConcatProperties
    <2>4. QED
      BY <2>2, <2>3
  <1>2. QED
    BY <1>1 DEF HaarLevel, Decompositions

(* The decomposition is defined, level by level.                           *)
LEMMA HaarRecursion ==
  /\ HaarDwt[0] = [x \in Seq(Int) |-> <<x>>]
  /\ \A n \in Nat : HaarDwt[n] \in Decompositions /\ HaarDwt[n + 1] = HaarLevel(HaarDwt[n])
PROOF
  <1> DEFINE G == [n \in Nat |-> [F \in Decompositions |-> HaarLevel(F)]]
             start == [x \in Seq(Int) |-> <<x>>]
             IsHaar(h) == h = [n \in Nat |-> [x \in Seq(Int) |->
                                 IF n = 0 \/ Len(x) < 2 THEN <<x>>
                                 ELSE <<Details(x)>> \o h[n - 1][PairSums(x)]]]
  <1>1. G \in [Nat -> [Decompositions -> Decompositions]]
    BY LevelIsDecomposition
  <1>2. start \in Decompositions
    <2>1. \A x \in Seq(Int) : <<x>> \in Seq(Seq(Int))
      OBVIOUS
    <2>2. QED
      BY <2>1 DEF Decompositions
  <1> HIDE DEF G, start
  <1>3. PICK s \in [Nat -> Decompositions] : Follows(s, start, G)
    BY <1>1, <1>2, RecursionOnNaturals
  <1>4. s[0] = start /\ \A n \in Nat : s[n + 1] = HaarLevel(s[n])
    BY <1>3 DEF Follows, G
  <1>5. \A n \in Nat : n # 0 => s[n] = HaarLevel(s[n - 1])
    <2>1. \A n \in Nat : n # 0 => n - 1 \in Nat /\ (n - 1) + 1 = n
      OBVIOUS
    <2>2. QED
      BY <1>4, <2>1
  <1>6. IsHaar(s)
    <2>1. ASSUME NEW n \in Nat
          PROVE  s[n] = [x \in Seq(Int) |->
                           IF n = 0 \/ Len(x) < 2 THEN <<x>>
                           ELSE <<Details(x)>> \o s[n - 1][PairSums(x)]]
      <3>1. CASE n = 0
        BY <1>4, <3>1 DEF start
      <3>2. CASE n # 0
        BY <1>5, <3>2 DEF HaarLevel
      <3>3. QED
        BY <3>1, <3>2
    <2>2. s = [n \in Nat |-> s[n]]
      BY <1>3
    <2>3. QED
      BY <2>1, <2>2
  <1>7. IsHaar(HaarDwt)
    <2>1. HaarDwt = CHOOSE h : IsHaar(h)
      BY DEF HaarDwt, Details, PairSums
    <2> HIDE DEF IsHaar
    <2>2. QED
      BY <1>6, <2>1
  <1>8. HaarDwt[0] = start
    BY <1>7 DEF start
  <1>9. ASSUME NEW n \in Nat PROVE HaarDwt[n + 1] = HaarLevel(HaarDwt[n])
    <2>1. n + 1 \in Nat /\ n + 1 # 0 /\ (n + 1) - 1 = n
      OBVIOUS
    <2>2. HaarDwt[n + 1] = [x \in Seq(Int) |->
                              IF n + 1 = 0 \/ Len(x) < 2 THEN <<x>>
                              ELSE <<Details(x)>> \o HaarDwt[(n + 1) - 1][PairSums(x)]]
      BY <1>7, <2>1
    <2>3. QED
      BY <2>1, <2>2 DEF HaarLevel
  <1> HIDE DEF IsHaar
  <1> DEFINE Good == {n \in Nat : HaarDwt[n] \in Decompositions}
  <1>10. 0 \in Good /\ \A n \in Nat : n \in Good => n + 1 \in Good
    BY <1>2, <1>8, <1>9, LevelIsDecomposition
  <1>11. \A n \in Nat : n \in Good
    <2> HIDE DEF Good
    <2>1. QED
      BY <1>10, InductionOnNaturals
  <1>12. QED
    BY <1>8, <1>9, <1>11 DEF start

Squares(s) == [i \in 1 .. Len(s) |-> s[i] * s[i]]

LEMMA SquaresAreNumbers ==
  ASSUME NEW s \in Seq(Int)
  PROVE  /\ AreNumbers(Squares(s), Len(s)) /\ AreNumbers(s, Len(s)) /\ Len(s) \in Nat
         /\ SumOfSquares(s) = Total(Squares(s), Len(s)) /\ SumOfSquares(s) \in Int
         /\ SumOf(s) \in Int
PROOF
  <1>1. \A i \in 1 .. Len(s) : s[i] \in Int /\ s[i] * s[i] \in Int
    OBVIOUS
  <1>2. AreNumbers(Squares(s), Len(s)) /\ AreNumbers(s, Len(s)) /\ Len(s) \in Nat
    BY <1>1 DEF AreNumbers, Squares
  <1>3. SumOfSquares(s) = Total(Squares(s), Len(s))
    BY DEF SumOfSquares, Squares
  <1>4. QED
    BY <1>2, <1>3, TotalIsNumber DEF SumOf

(* (a - b)^2 + (a + b)^2 = 2 (a^2 + b^2): a level doubles the energy.      *)
LEMMA LevelDoublesEnergy ==
  ASSUME NEW x \in Seq(Int), NEW n \in Nat, Len(x) = 2 * n
  PROVE  SumOfSquares(Details(x)) + SumOfSquares(PairSums(x)) = 2 * SumOfSquares(x)
PROOF
  <1> DEFINE d == Details(x)
             s == PairSums(x)
             odd == EvenItems(Squares(x), n)
             even == OddItems(Squares(x), n)
             dd == Squares(d)
             ss == Squares(s)
             both == [i \in 1 .. n |-> dd[i] + ss[i]]
  <1>1. Len(x) \div 2 = n /\ Len(d) = n /\ Len(s) = n /\ d \in Seq(Int) /\ s \in Seq(Int)
    <2>1. (2 * n) \div 2 = n
      OBVIOUS
    <2>2. Len(x) \div 2 = n
      BY <2>1
    <2> HIDE DEF d, s
    <2>3. QED
      BY <2>2, PairsAreNumbers DEF d, s
  <1>2. /\ AreNumbers(Squares(x), 2 * n) /\ SumOfSquares(x) = Total(Squares(x), 2 * n)
        /\ AreNumbers(dd, n) /\ SumOfSquares(d) = Total(dd, n)
        /\ AreNumbers(ss, n) /\ SumOfSquares(s) = Total(ss, n)
    BY <1>1, SquaresAreNumbers
  <1>3. /\ AreNumbers(odd, n) /\ AreNumbers(even, n)
        /\ Total(Squares(x), 2 * n) = Total(odd, n) + Total(even, n)
    BY <1>2, TotalOfPairs
  <1>4. ASSUME NEW i \in 1 .. n
        PROVE  both[i] = 1 * dd[i] + 1 * ss[i] /\ both[i] = 2 * odd[i] + 2 * even[i]
    <2> DEFINE a == x[2 * i - 1]  b == x[2 * i]
    <2>1. 2 * i - 1 \in 1 .. Len(x) /\ 2 * i \in 1 .. Len(x)
      OBVIOUS
    <2>2. a \in Int /\ b \in Int
      BY <2>1
    <2>3. d[i] = a - b /\ s[i] = a + b
      BY <1>1 DEF Details, PairSums
    <2>4. dd[i] = (a - b) * (a - b) /\ ss[i] = (a + b) * (a + b)
      BY <1>1, <2>3 DEF Squares
    <2>5. odd[i] = a * a /\ even[i] = b * b
      BY <2>1 DEF EvenItems, OddItems, Squares
    <2>6. both[i] = dd[i] + ss[i]
      OBVIOUS
    <2> HIDE DEF both, dd, ss, odd, even, a, b
    <2>7. (a - b) * (a - b) + (a + b) * (a + b) = 2 * (a * a) + 2 * (b * b)
      BY <2>2
    <2>8. dd[i] \in Int /\ ss[i] \in Int
      BY <1>2 DEF AreNumbers
    <2>9. 1 * dd[i] + 1 * ss[i] = dd[i] + ss[i]
      BY <2>8
    <2>10. QED
      BY <2>4, <2>5, <2>6, <2>7, <2>9
  <1> HIDE DEF both, dd, ss, odd, even
  <1>5. Combines(both, 1, dd, 1, ss, n) /\ Combines(both, 2, odd, 2, even, n)
    BY <1>4 DEF Combines
  <1>6. 1 \in Int /\ 2 \in Int
    OBVIOUS
  <1>7. Total(both, n) = 1 * Total(dd, n) + 1 * Total(ss, n)
    BY <1>2, <1>5, <1>6, TotalIsLinear
  <1>8. Total(both, n) = 2 * Total(odd, n) + 2 * Total(even, n)
    BY <1>3, <1>5, <1>6, TotalIsLinear
  <1>9. /\ Total(dd, n) \in Int /\ Total(ss, n) \in Int
        /\ Total(odd, n) \in Int /\ Total(even, n) \in Int
    BY <1>2, <1>3, TotalIsNumber
  <1>10. QED
    BY <1>2, <1>3, <1>7, <1>8, <1>9

(* The energies of a decomposition but the last, weighted.                 *)
WeightedEnergies(c) ==
  [l \in 1 .. Len(c) - 1 |-> SumOfSquares(c[l]) * Doubled[(Len(c) - 1) - l]]

(* The decomposition c keeps the energy of x.                              *)
IsConserved(x, c) ==
  /\ Len(c) - 1 \in Nat
  /\ Len(x) % Doubled[Len(c) - 1] = 0 =>
       Total(WeightedEnergies(c), Len(c) - 1) + SumOfSquares(c[Len(c)])
         = Doubled[Len(c) - 1] * SumOfSquares(x)

(* The undivided signal does.                                              *)
LEMMA NothingIsConserved ==
  ASSUME NEW x \in Seq(Int)
  PROVE  IsConserved(x, <<x>>)
PROOF
  <1>1. Len(<<x>>) = 1 /\ Len(<<x>>) - 1 = 0 /\ <<x>>[1] = x
    OBVIOUS
  <1>2. Total(WeightedEnergies(<<x>>), 0) = 0
    BY TotalOfNone
  <1>3. SumOfSquares(x) \in Int /\ Doubled[0] = 1
    BY SquaresAreNumbers, DoubledRecursion
  <1>4. 0 + SumOfSquares(x) = 1 * SumOfSquares(x) /\ 0 \in Nat
    BY <1>3
  <1>5. QED
    BY <1>1, <1>2, <1>3, <1>4 DEF IsConserved

(* What a power of two divides, its half divides in half.                  *)
LEMMA HalvesAreDivided ==
  ASSUME NEW n \in Nat, NEW m \in Nat, n % Doubled[m + 1] = 0
  PROVE  n = 2 * (n \div 2) /\ (n \div 2) % Doubled[m] = 0
PROOF
  <1> DEFINE p == Doubled[m]  d == Doubled[m + 1]
  <1>1. p \in Nat /\ p > 0 /\ d = 2 * p
    BY DoubledRecursion
  <1> HIDE DEF p, d
  <1> DEFINE q == n \div d
  <1>2. n = d * q + (n % d) /\ q \in Int /\ n % d = 0
    <2>1. d \in Nat /\ d > 0
      BY <1>1
    <2>2. n = d * q + (n % d) /\ q \in Int
      BY <2>1
    <2>3. n % d = 0
      BY DEF d
    <2>4. QED
      BY <2>2, <2>3
  <1> HIDE DEF q
  <1>3. p * q \in Int /\ d * q = 2 * (p * q)
    BY <1>1, <1>2
  <1>4. n = 2 * (p * q)
    BY <1>2, <1>3
  <1> DEFINE pq == p * q
  <1>5. pq \in Int /\ n = 2 * pq
    BY <1>3, <1>4
  <1> HIDE DEF pq
  <1>6. n = 2 * (n \div 2) /\ n \div 2 = pq
    BY <1>5
  <1>7. (p * q + 0) % p = 0
    <2>1. 0 \in 0 .. p - 1
      BY <1>1
    <2>2. QED
      BY <1>1, <1>2, <2>1, RemainderIsUnique
  <1>8. p * q + 0 = pq
    BY <1>3 DEF pq
  <1>9. QED
    BY <1>6, <1>7, <1>8 DEF p

(* One more level does, if the levels below it do.                         *)
LEMMA LevelIsConserved ==
  ASSUME NEW x \in Seq(Int), NEW c \in Seq(Seq(Int)), IsConserved(PairSums(x), c)
  PROVE  IsConserved(x, <<Details(x)>> \o c)
PROOF
  <1> DEFINE e == <<Details(x)>> \o c
             m == Len(c) - 1
             s == PairSums(x)
             f == WeightedEnergies(e)
             g == WeightedEnergies(c)
  <1>0. /\ Details(x) \in Seq(Int) /\ s \in Seq(Int) /\ Len(s) = Len(x) \div 2 /\ Len(x) \in Nat
    BY PairsAreNumbers
  <1>1. m \in Nat /\ Len(c) = m + 1
    BY DEF IsConserved
  <1>2. /\ e \in Seq(Seq(Int)) /\ Len(e) = (m + 1) + 1 /\ Len(e) - 1 = m + 1
        /\ e[1] = Details(x) /\ \A l \in 1 .. m + 1 : e[l + 1] = c[l]
    <2>1. <<Details(x)>> \in Seq(Seq(Int)) /\ Len(<<Details(x)>>) = 1 /\ <<Details(x)>>[1] = Details(x)
      BY <1>0
    <2>2. /\ e \in Seq(Seq(Int)) /\ Len(e) = 1 + Len(c)
          /\ \A i \in 1 .. 1 + Len(c) : e[i] = IF i <= 1 THEN <<Details(x)>>[i] ELSE c[i - 1]
      BY <2>1, ConcatProperties
    <2> HIDE DEF e
    <2>3. e[1] = Details(x)
      <3>1. 1 \in 1 .. 1 + Len(c)
        BY <1>1
      <3>2. QED
        BY <2>1, <2>2, <3>1
    <2>4. ASSUME NEW l \in 1 .. m + 1 PROVE e[l + 1] = c[l]
      <3>1. l + 1 \in 1 .. 1 + Len(c) /\ ~(l + 1 <= 1) /\ (l + 1) - 1 = l
        BY <1>1
      <3>2. QED
        BY <2>2, <3>1
    <2>5. QED
      BY <1>1, <2>2, <2>3, <2>4
  <1> HIDE DEF e, m, s
  <1>3. SUFFICES ASSUME Len(x) % Doubled[m + 1] = 0
                 PROVE  Total(f, m + 1) + SumOfSquares(e[(m + 1) + 1]) = Doubled[m + 1] * SumOfSquares(x)
    <2>1. m + 1 \in Nat
      BY <1>1
    <2>2. QED
      BY <1>2, <2>1 DEF IsConserved, e
  <1>4. Len(x) = 2 * (Len(x) \div 2) /\ Len(s) % Doubled[m] = 0 /\ Len(x) \div 2 \in Nat
    <2>1. Len(x) = 2 * (Len(x) \div 2) /\ (Len(x) \div 2) % Doubled[m] = 0
      BY <1>0, <1>1, <1>3, HalvesAreDivided
    <2>2. QED
      BY <1>0, <2>1
  <1>5. Total(g, m) + SumOfSquares(c[m + 1]) = Doubled[m] * SumOfSquares(s)
    BY <1>1, <1>4 DEF IsConserved, m, s
  <1>6. SumOfSquares(Details(x)) + SumOfSquares(s) = 2 * SumOfSquares(x)
    BY <1>4, LevelDoublesEnergy DEF s
  <1>7. ASSUME NEW l \in 1 .. m + 1
        PROVE  f[l] = SumOfSquares(e[l]) * Doubled[(m + 1) - l] /\ f[l] \in Int
    <2>1. f[l] = SumOfSquares(e[l]) * Doubled[(m + 1) - l]
      BY <1>2 DEF WeightedEnergies
    <2>2. e[l] \in Seq(Int) /\ (m + 1) - l \in Nat
      BY <1>1, <1>2
    <2>3. SumOfSquares(e[l]) \in Int
      BY <2>2, SquaresAreNumbers
    <2>4. Doubled[(m + 1) - l] \in Nat
      BY <2>2, DoubledRecursion
    <2>5. QED
      BY <2>1, <2>3, <2>4
  <1>8. AreNumbers(f, m + 1)
    BY <1>7 DEF AreNumbers
  <1>9. f[1] = SumOfSquares(Details(x)) * Doubled[m]
    <2>1. 1 \in 1 .. m + 1 /\ (m + 1) - 1 = m
      BY <1>1
    <2>2. QED
      BY <1>2, <1>7, <2>1
  <1>10. ASSUME NEW l \in 1 .. m PROVE Rest(f, m)[l] = g[l]
    <2>1. l + 1 \in 1 .. m + 1 /\ l \in 1 .. m + 1 /\ (m + 1) - (l + 1) = m - l
      BY <1>1
    <2>2. f[l + 1] = SumOfSquares(c[l]) * Doubled[m - l]
      BY <1>2, <1>7, <2>1
    <2>3. g[l] = SumOfSquares(c[l]) * Doubled[m - l]
      BY DEF WeightedEnergies, m
    <2>4. QED
      BY <2>2, <2>3 DEF Rest
  <1> HIDE DEF f, g
  <1>11. /\ AreNumbers(Rest(f, m), m) /\ Total(Rest(f, m), m) \in Int
         /\ Total(f, m + 1) = f[1] + Total(Rest(f, m), m)
    BY <1>1, <1>8, FirstApart
  <1>12. Total(Rest(f, m), m) = Total(g, m)
    <2>1. Same(Rest(f, m), g, m)
      BY <1>10 DEF Same
    <2>2. QED
      BY <1>1, <1>11, <2>1, EqualTotals
  <1>13. e[(m + 1) + 1] = c[m + 1]
    <2>1. m + 1 \in 1 .. m + 1
      BY <1>1
    <2>2. QED
      BY <1>2, <2>1
  <1> DEFINE a == SumOfSquares(Details(x))  b == SumOfSquares(s)  t == SumOfSquares(x)
             p == Doubled[m]  r == SumOfSquares(c[m + 1])  u == Total(g, m)
  <1>14. a \in Int /\ b \in Int /\ t \in Int /\ p \in Int /\ r \in Int /\ u \in Int
         /\ Doubled[m + 1] = 2 * p
    <2>1. c[m + 1] \in Seq(Int)
      <3>1. m + 1 \in 1 .. Len(c)
        BY <1>1
      <3>2. QED
        BY <3>1
    <2>2. a \in Int /\ b \in Int /\ t \in Int /\ r \in Int
      BY <1>0, <2>1, SquaresAreNumbers
    <2>3. p \in Nat /\ Doubled[m + 1] = 2 * p
      BY <1>1, DoubledRecursion
    <2>4. u \in Int
      BY <1>11, <1>12
    <2>5. QED
      BY <2>2, <2>3, <2>4
  <1>15. Total(f, m + 1) = a * p + u /\ u + r = p * b /\ a + b = 2 * t
    BY <1>5, <1>6, <1>9, <1>11, <1>12
  <1> HIDE DEF a, b, t, p, r, u
  <1>16. a * p \in Int /\ (a * p + u) + r = a * p + (u + r)
    BY <1>14
  <1>17. a * p + p * b = p * (a + b) /\ p * (2 * t) = (2 * p) * t
    BY <1>14
  <1>18. QED
    BY <1>13, <1>14, <1>15, <1>16, <1>17 DEF r, t

(* Every decomposition does.                                               *)
LEMMA EveryLevelIsConserved ==
  ASSUME NEW n \in Nat, NEW x \in Seq(Int)
  PROVE  HaarDwt[n][x] \in Seq(Seq(Int)) /\ IsConserved(x, HaarDwt[n][x])
PROOF
  <1> DEFINE Good == {k \in Nat : \A y \in Seq(Int) : IsConserved(y, HaarDwt[k][y])}
  <1>0. \A k \in Nat : HaarDwt[k] \in Decompositions
    BY HaarRecursion
  <1>1. 0 \in Good
    BY NothingIsConserved, HaarRecursion
  <1>2. ASSUME NEW k \in Nat, k \in Good PROVE k + 1 \in Good
    <2>1. SUFFICES ASSUME NEW y \in Seq(Int) PROVE IsConserved(y, HaarDwt[k + 1][y])
      OBVIOUS
    <2>2. HaarDwt[k + 1][y] = IF Len(y) < 2 THEN <<y>> ELSE <<Details(y)>> \o HaarDwt[k][PairSums(y)]
      BY HaarRecursion DEF HaarLevel
    <2>3. PairSums(y) \in Seq(Int)
      BY PairsAreNumbers
    <2>4. HaarDwt[k][PairSums(y)] \in Seq(Seq(Int)) /\ IsConserved(PairSums(y), HaarDwt[k][PairSums(y)])
      BY <1>0, <1>2, <2>3 DEF Decompositions
    <2>5. IsConserved(y, <<Details(y)>> \o HaarDwt[k][PairSums(y)])
      BY <2>4, LevelIsConserved
    <2>6. QED
      BY <2>2, <2>5, NothingIsConserved
  <1>3. \A k \in Nat : k \in Good
    <2> HIDE DEF Good
    <2>1. QED
      BY <1>1, <1>2, InductionOnNaturals
  <1>4. QED
    BY <1>0, <1>3 DEF Decompositions

(* haar_dwt and wavelet_energy: for every signal and every number of       *)
(* levels, the energies of the levels add up to that of the signal.        *)
THEOREM WaveletsKeepEnergy ==
  ASSUME NEW x \in Seq(Int)
  PROVE  EnergyIsKept(x, WaveletEnergy(x))
PROOF
  <1> DEFINE c == HaarDwt[WaveletLevels][x]
             E == WaveletEnergy(x)
             m == Len(c) - 1
             weighted == [l \in 1 .. Len(E) - 1 |-> E[l] * Doubled[(Len(E) - 1) - l]]
  <1>1. c \in Seq(Seq(Int)) /\ IsConserved(x, c)
    BY SamplesAreNumbers, EveryLevelIsConserved
  <1>2. m \in Nat /\ Len(c) = m + 1
    BY <1>1 DEF IsConserved
  <1>3. E = [l \in 1 .. Len(c) |-> SumOfSquares(c[l])]
    BY DEF WaveletEnergy
  <1> HIDE DEF c, E
  <1>4. Len(E) = m + 1 /\ Len(E) - 1 = m /\ Len(E) = Len(c)
    <2>1. Len(c) \in Nat
      BY <1>1
    <2>2. Len(E) = Len(c)
      BY <1>3, <2>1
    <2>3. QED
      BY <1>2, <2>2
  <1>5. weighted = WeightedEnergies(c)
    <2>1. \A l \in 1 .. m : E[l] = SumOfSquares(c[l])
      BY <1>2, <1>3
    <2>2. QED
      BY <1>4, <2>1 DEF WeightedEnergies
  <1>6. E[m + 1] = SumOfSquares(c[Len(c)])
    <2>1. m + 1 \in 1 .. Len(c)
      BY <1>2
    <2>2. QED
      BY <1>2, <1>3, <2>1
  <1> HIDE DEF weighted
  <1>7. Len(x) % Doubled[m] = 0 =>
          Total(weighted, m) + E[m + 1] = Doubled[m] * SumOfSquares(x)
    BY <1>1, <1>5, <1>6 DEF IsConserved
  <1>8. QED
    BY <1>4, <1>7 DEF EnergyIsKept, weighted, E

-----------------------------------------------------------------------------
(***************************************************************************)
(* The sliding statistics                                                  *)
(***************************************************************************)

(* One more number.                                                        *)
LEMMA SumsOfAppend ==
  ASSUME NEW s \in Seq(Int), NEW v \in Int
  PROVE  /\ SumOf(Append(s, v)) = SumOf(s) + v
         /\ SumOfSquares(Append(s, v)) = SumOfSquares(s) + v * v
PROOF
  <1> DEFINE t == Append(s, v)
             n == Len(s)
  <1>1. n \in Nat /\ t \in Seq(Int) /\ Len(t) = n + 1 /\ t[n + 1] = v
        /\ \A i \in 1 .. n : t[i] = s[i]
    OBVIOUS
  <1> HIDE DEF t, n
  <1>2. /\ AreNumbers(t, n + 1) /\ AreNumbers(Squares(t), n + 1)
        /\ SumOfSquares(t) = Total(Squares(t), n + 1)
    BY <1>1, SquaresAreNumbers
  <1>3. /\ AreNumbers(s, n) /\ AreNumbers(Squares(s), n)
        /\ SumOfSquares(s) = Total(Squares(s), n)
    BY SquaresAreNumbers DEF n
  <1>4. Squares(t)[n + 1] = v * v /\ \A i \in 1 .. n : Squares(t)[i] = Squares(s)[i]
    BY <1>1 DEF Squares, n
  <1>5. Total(t, n + 1) = Total(t, n) + v /\ Total(Squares(t), n + 1) = Total(Squares(t), n) + v * v
    BY <1>1, <1>2, <1>4, TotalOfOneMore
  <1>6. Same(s, t, n) /\ Same(Squares(s), Squares(t), n)
    BY <1>1, <1>4 DEF Same
  <1>7. Total(s, n) = Total(t, n) /\ Total(Squares(s), n) = Total(Squares(t), n)
    BY <1>1, <1>3, <1>6, EqualTotals
  <1>8. QED
    BY <1>1, <1>2, <1>3, <1>5, <1>7 DEF SumOf, t, n

(* Without the first number.                                               *)
LEMMA SumsOfTail ==
  ASSUME NEW s \in Seq(Int), Len(s) > 0
  PROVE  /\ Head(s) \in Int /\ Tail(s) \in Seq(Int)
         /\ SumOf(Tail(s)) = SumOf(s) - Head(s)
         /\ SumOfSquares(Tail(s)) = SumOfSquares(s) - Head(s) * Head(s)
PROOF
  <1> DEFINE t == Tail(s)
             h == Head(s)
             n == Len(s) - 1
  <1>1. n \in Nat /\ Len(s) = n + 1 /\ t \in Seq(Int) /\ Len(t) = n /\ h = s[1] /\ h \in Int
        /\ \A i \in 1 .. n : t[i] = s[i + 1]
    <2>1. s # <<>>
      OBVIOUS
    <2>2. Head(s) = s[1]
      OBVIOUS
    <2>3. QED
      BY <2>1, <2>2, HeadTailProperties
  <1> HIDE DEF t, h, n
  <1>2. /\ AreNumbers(s, n + 1) /\ AreNumbers(Squares(s), n + 1)
        /\ SumOfSquares(s) = Total(Squares(s), n + 1)
    BY <1>1, SquaresAreNumbers
  <1>3. SumOfSquares(t) = Total(Squares(t), n)
    BY <1>1, SquaresAreNumbers
  <1>4. Squares(s)[1] = h * h /\ \A i \in 1 .. n : Squares(s)[i + 1] = Squares(t)[i]
    <2>1. 1 \in 1 .. Len(s) /\ \A i \in 1 .. n : i + 1 \in 1 .. Len(s)
      BY <1>1
    <2>2. QED
      BY <1>1, <2>1 DEF Squares
  <1>5. /\ AreNumbers(Rest(s, n), n) /\ Total(Rest(s, n), n) \in Int
        /\ Total(s, n + 1) = h + Total(Rest(s, n), n)
    BY <1>1, <1>2, FirstApart
  <1>6. /\ AreNumbers(Rest(Squares(s), n), n) /\ Total(Rest(Squares(s), n), n) \in Int
        /\ Total(Squares(s), n + 1) = Squares(s)[1] + Total(Rest(Squares(s), n), n)
    BY <1>1, <1>2, FirstApart
  <1>7. Same(Rest(s, n), t, n) /\ Same(Rest(Squares(s), n), Squares(t), n)
    BY <1>1, <1>4 DEF Same, Rest
  <1>8. /\ Total(Rest(s, n), n) = Total(t, n)
        /\ Total(Rest(Squares(s), n), n) = Total(Squares(t), n)
    BY <1>1, <1>5, <1>6, <1>7, EqualTotals
  <1>9. SumOf(s) = h + SumOf(t) /\ SumOf(t) \in Int
    BY <1>1, <1>5, <1>8 DEF SumOf
  <1>10. SumOfSquares(s) = h * h + SumOfSquares(t) /\ SumOfSquares(t) \in Int
    BY <1>2, <1>3, <1>4, <1>6, <1>8
  <1>11. h * h \in Int
    BY <1>1
  <1>12. QED
    BY <1>1, <1>9, <1>10, <1>11 DEF t, h

(* b is the end of w.                                                      *)
IsEndOf(b, w) ==
  Len(b) <= Len(w) /\ \A i \in 1 .. Len(b) : b[i] = w[(Len(w) - Len(b)) + i]

(* The sums of the statistics are those over their window, of which the    *)
(* buffer is the end, and the features of the last call are correct.       *)
SignalInvariant ==
  /\ estimate \in Int
  /\ sampleBuffer \in Seq(Int) /\ Len(sampleBuffer) < WindowSize
  /\ statsWindow \in Seq(Int) /\ Len(statsWindow) <= WindowSize
  /\ IsEndOf(sampleBuffer, statsWindow)
  /\ statsSum = SumOf(statsWindow) /\ statsSumSq = SumOfSquares(statsWindow)
  /\ FeaturesAreOfTheWindow

LEMMA SignalInvariantInitially ==
  SignalInit => SignalInvariant
PROOF
  <1> SUFFICES ASSUME SignalInit PROVE SignalInvariant
    OBVIOUS
  <1>1. WindowSize \in Nat /\ WindowSize >= 2
    BY WindowIsUsable
  <1>2. <<>> \in Seq(Int) /\ Len(<<>>) = 0
    OBVIOUS
  <1>3. SumOf(<<>>) = 0 /\ SumOfSquares(<<>>) = 0
    BY <1>2, TotalOfNone DEF SumOf, SumOfSquares
  <1>4. IsEndOf(<<>>, <<>>)
    BY <1>2 DEF IsEndOf
  <1>5. FeaturesAreOfTheWindow
    BY DEF SignalInit, FeaturesAreOfTheWindow
  <1>6. QED
    BY <1>1, <1>2, <1>3, <1>4, <1>5 DEF SignalInit, SignalInvariant

(* SlidingWindowStats.push keeps its sums those over the window, and the   *)
(* buffer with the sample its end.                                         *)
LEMMA PushKeepsSums ==
  ASSUME SignalInvariant, NEW v \in Int, PushStats(v)
  PROVE  /\ statsWindow' \in Seq(Int) /\ Len(statsWindow') <= WindowSize
         /\ statsSum' = SumOf(statsWindow') /\ statsSumSq' = SumOfSquares(statsWindow')
         /\ IsEndOf(Append(sampleBuffer, v), statsWindow')
PROOF
  <1> DEFINE w == statsWindow
             b == sampleBuffer
             c == Append(sampleBuffer, v)
  <1>0. WindowSize \in Nat /\ WindowSize >= 2
    BY WindowIsUsable
  <1>1. /\ w \in Seq(Int) /\ Len(w) \in Nat /\ Len(w) <= WindowSize
        /\ b \in Seq(Int) /\ Len(b) \in Nat /\ Len(b) < WindowSize /\ Len(b) <= Len(w)
        /\ \A i \in 1 .. Len(b) : b[i] = w[(Len(w) - Len(b)) + i]
        /\ statsSum = SumOf(w) /\ statsSumSq = SumOfSquares(w)
    BY DEF SignalInvariant, IsEndOf
  <1>2. /\ Len(c) = Len(b) + 1 /\ c[Len(b) + 1] = v
        /\ \A i \in 1 .. Len(b) : c[i] = b[i]
    BY <1>1
  <1>3. SumOf(w) \in Int /\ SumOfSquares(w) \in Int /\ v * v \in Int
    BY <1>1, SquaresAreNumbers
  <1>4. CASE Len(w) >= WindowSize
    <2> DEFINE t == Tail(w)
               h == Head(w)
    <2>1. Len(w) = WindowSize /\ Len(w) > 0 /\ w # <<>>
      BY <1>0, <1>1, <1>4
    <2>2. /\ statsWindow' = Append(t, v)
          /\ statsSum' = statsSum - h + v /\ statsSumSq' = statsSumSq - h * h + v * v
      BY <1>4 DEF PushStats
    <2>3. /\ t \in Seq(Int) /\ Len(t) = Len(w) - 1
          /\ \A i \in 1 .. Len(t) : t[i] = w[i + 1]
      BY <1>1, <2>1, HeadTailProperties
    <2>4. /\ h \in Int /\ SumOf(t) = SumOf(w) - h
          /\ SumOfSquares(t) = SumOfSquares(w) - h * h
      BY <1>1, <2>1, SumsOfTail
    <2> HIDE DEF t, h
    <2>5. /\ Append(t, v) \in Seq(Int) /\ Len(Append(t, v)) = Len(w) /\ Append(t, v)[Len(w)] = v
          /\ \A i \in 1 .. Len(w) - 1 : Append(t, v)[i] = w[i + 1]
      BY <1>1, <2>1, <2>3
    <2>6. SumOf(Append(t, v)) = SumOf(t) + v /\ SumOfSquares(Append(t, v)) = SumOfSquares(t) + v * v
      BY <2>3, SumsOfAppend
    <2>7. h * h \in Int
      BY <2>4
    <2>8. statsSum' = SumOf(Append(t, v)) /\ statsSumSq' = SumOfSquares(Append(t, v))
      BY <1>1, <1>3, <2>2, <2>4, <2>6, <2>7
    <2>9. IsEndOf(c, Append(t, v))
      <3>1. Len(c) <= Len(Append(t, v))
        BY <1>1, <1>2, <2>1, <2>5
      <3>2. ASSUME NEW i \in 1 .. Len(c)
            PROVE  c[i] = Append(t, v)[(Len(Append(t, v)) - Len(c)) + i]
        <4>1. CASE i = Len(b) + 1
          <5>1. (Len(Append(t, v)) - Len(c)) + i = Len(w)
            BY <1>1, <1>2, <2>5, <4>1
          <5>2. QED
            BY <1>2, <2>5, <4>1, <5>1
        <4>2. CASE i # Len(b) + 1
          <5>1. i \in 1 .. Len(b)
            BY <1>1, <1>2, <4>2
          <5>2. /\ (Len(Append(t, v)) - Len(c)) + i \in 1 .. Len(w) - 1
                /\ ((Len(Append(t, v)) - Len(c)) + i) + 1 = (Len(w) - Len(b)) + i
            <6> DEFINE lw == Len(w)  lb == Len(b)  j == (Len(Append(t, v)) - Len(c)) + i
            <6>1. lw \in Nat /\ lb \in Nat /\ lb < lw /\ i \in 1 .. lb /\ j = (lw - (lb + 1)) + i
              BY <1>1, <1>2, <2>1, <2>5, <5>1
            <6> HIDE DEF lw, lb, j
            <6>2. j \in 1 .. lw - 1 /\ j + 1 = (lw - lb) + i
              BY <6>1
            <6>3. QED
              BY <6>2 DEF j, lw, lb
          <5>3. Append(t, v)[(Len(Append(t, v)) - Len(c)) + i] = w[(Len(w) - Len(b)) + i]
            BY <2>5, <5>2
          <5>4. QED
            BY <1>1, <1>2, <5>1, <5>3
        <4>3. QED
          BY <4>1, <4>2
      <3>3. QED
        BY <3>1, <3>2 DEF IsEndOf
    <2>10. QED
      BY <1>1, <2>2, <2>5, <2>8, <2>9
  <1>5. CASE ~(Len(w) >= WindowSize)
    <2>1. /\ statsWindow' = Append(w, v)
          /\ statsSum' = statsSum - 0 + v /\ statsSumSq' = statsSumSq - 0 * 0 + v * v
      BY <1>5 DEF PushStats
    <2>2. /\ Append(w, v) \in Seq(Int) /\ Len(Append(w, v)) = Len(w) + 1
          /\ Append(w, v)[Len(w) + 1] = v /\ \A i \in 1 .. Len(w) : Append(w, v)[i] = w[i]
      BY <1>1
    <2>3. SumOf(Append(w, v)) = SumOf(w) + v /\ SumOfSquares(Append(w, v)) = SumOfSquares(w) + v * v
      BY <1>1, SumsOfAppend
    <2>4. statsSum' = SumOf(Append(w, v)) /\ statsSumSq' = SumOfSquares(Append(w, v))
      BY <1>1, <1>3, <2>1, <2>3
    <2>5. Len(Append(w, v)) <= WindowSize
      BY <1>0, <1>1, <1>5, <2>2
    <2>6. IsEndOf(c, Append(w, v))
      <3>1. Len(c) <= Len(Append(w, v)) /\ Len(Append(w, v)) - Len(c) = Len(w) - Len(b)
        BY <1>1, <1>2, <2>2
      <3>2. ASSUME NEW i \in 1 .. Len(c)
            PROVE  c[i] = Append(w, v)[(Len(w) - Len(b)) + i]
        <4>1. CASE i = Len(b) + 1
          <5>1. (Len(w) - Len(b)) + i = Len(w) + 1
            BY <1>1, <4>1
          <5>2. QED
            BY <1>2, <2>2, <4>1, <5>1
        <4>2. CASE i # Len(b) + 1
          <5>1. i \in 1 .. Len(b) /\ (Len(w) - Len(b)) + i \in 1 .. Len(w)
            BY <1>1, <1>2, <4>2
          <5>2. QED
            BY <1>1, <1>2, <2>2, <5>1
        <4>3. QED
          BY <4>1, <4>2
      <3>3. QED
        BY <3>1, <3>2 DEF IsEndOf
    <2>7. QED
      BY <2>1, <2>2, <2>4, <2>5, <2>6
  <1>6. QED
    BY <1>4, <1>5

(* A full buffer is the whole window.                                      *)
LEMMA FullBufferIsWindow ==
  ASSUME NEW b \in Seq(Int), NEW w \in Seq(Int), IsEndOf(b, w),
         Len(w) <= WindowSize, Len(b) >= WindowSize
  PROVE  b = w /\ Len(b) <= PaddedLength
PROOF
  <1>1. WindowSize \in Nat /\ WindowSize <= PaddedLength /\ PaddedLength \in Nat
    BY WindowIsUsable, PaddedLengthFits
  <1>2. Len(b) \in Nat /\ Len(w) \in Nat /\ Len(b) <= Len(w)
    BY DEF IsEndOf
  <1>3. Len(b) = Len(w) /\ Len(b) <= PaddedLength
    BY <1>1, <1>2
  <1>4. \A i \in 1 .. Len(b) : (Len(w) - Len(b)) + i = i
    BY <1>2, <1>3
  <1>5. \A i \in 1 .. Len(b) : b[i] = w[i]
    BY <1>4 DEF IsEndOf
  <1>6. QED
    BY <1>3, <1>5, SeqEqual

(* The features computed of a full buffer are those of its samples.        *)
LEMMA ExtractedFeaturesAreRight ==
  ASSUME NEW b \in Seq(Int), Len(b) <= PaddedLength,
         b = statsWindow', statsSum' = SumOf(statsWindow'), statsSumSq' = SumOfSquares(statsWindow'),
         features' = ExtractFeatures(b)
  PROVE  FeaturesAreOfTheWindow'
PROOF
  <1>1. /\ features'.of = b /\ features'.count = Len(b)
        /\ features'.sum = SumOf(b) /\ features'.sumSq = SumOfSquares(b)
        /\ features'.spectrum = Fft(b) /\ features'.energies = WaveletEnergy(b)
        /\ features'.analytic = AnalyticSignal(b)
    BY DEF ExtractFeatures
  <1>2. StatisticsAreOf(features.of)'
    BY <1>1 DEF StatisticsAreOf
  <1>3. features'.spectrum = Dft(features'.of)
    BY <1>1, SpectrumIsTransform
  <1>4. EnergyIsKept(features'.of, features'.energies)
    BY <1>1, WaveletsKeepEnergy
  <1>5. EnvelopeIsOf(features.of)'
    BY <1>1, AnalyticSignalExtends DEF EnvelopeIsOf
  <1>6. QED
    BY <1>2, <1>3, <1>4, <1>5 DEF FeaturesAreOfTheWindow

LEMMA SignalInvariantInductive ==
  SignalInvariant /\ [SignalNext]_signalVars => SignalInvariant'
PROOF
  <1> SUFFICES ASSUME SignalInvariant, [SignalNext]_signalVars PROVE SignalInvariant'
    OBVIOUS
  <1>1. CASE ProcessSample
    <2>0. WindowSize \in Nat /\ WindowSize >= 2
      BY WindowIsUsable
    <2>1. PICK raw \in Reading : \E v \in Filtered(raw) :
            LET buffer == Append(sampleBuffer, v)
            IN /\ estimate' = v
               /\ PushStats(v)
               /\ IF Len(buffer) >= WindowSize
                  THEN /\ windows < MaxWindows
                       /\ features' = ExtractFeatures(buffer)
                       /\ sampleBuffer' = <<>> /\ windows' = windows + 1
                  ELSE /\ sampleBuffer' = buffer /\ features' = NoFeatures
                       /\ UNCHANGED windows
      BY <1>1 DEF ProcessSample
    <2>2. PICK v \in Filtered(raw) :
            /\ estimate' = v /\ PushStats(v)
            /\ IF Len(Append(sampleBuffer, v)) >= WindowSize
               THEN features' = ExtractFeatures(Append(sampleBuffer, v)) /\ sampleBuffer' = <<>>
               ELSE sampleBuffer' = Append(sampleBuffer, v) /\ features' = NoFeatures
      BY <2>1
    <2>3. v \in Int
      <3>1. estimate \in Int /\ raw \in Int
        BY SamplesAreNumbers DEF SignalInvariant
      <3>2. QED
        BY <3>1 DEF Filtered, Lesser, Greater
    <2> DEFINE b == Append(sampleBuffer, v)
    <2>4. b \in Seq(Int) /\ Len(b) \in Nat
      BY <2>3 DEF SignalInvariant
    <2>5. /\ statsWindow' \in Seq(Int) /\ Len(statsWindow') <= WindowSize
          /\ statsSum' = SumOf(statsWindow') /\ statsSumSq' = SumOfSquares(statsWindow')
          /\ IsEndOf(b, statsWindow')
      BY <2>2, <2>3, PushKeepsSums
    <2> HIDE DEF b
    <2>6. CASE Len(b) >= WindowSize
      <3>1. features' = ExtractFeatures(b) /\ sampleBuffer' = <<>>
        BY <2>2, <2>6 DEF b
      <3>2. b = statsWindow' /\ Len(b) <= PaddedLength
        BY <2>4, <2>5, <2>6, FullBufferIsWindow
      <3>3. FeaturesAreOfTheWindow'
        BY <2>4, <2>5, <3>1, <3>2, ExtractedFeaturesAreRight
      <3>4. IsEndOf(<<>>, statsWindow')
        BY <2>5 DEF IsEndOf
      <3>5. <<>> \in Seq(Int) /\ Len(<<>>) = 0
        OBVIOUS
      <3>6. QED
        BY <2>0, <2>2, <2>3, <2>5, <3>1, <3>3, <3>4, <3>5 DEF SignalInvariant
    <2>7. CASE ~(Len(b) >= WindowSize)
      <3>1. sampleBuffer' = b /\ features' = NoFeatures
        BY <2>2, <2>7 DEF b
      <3>2. FeaturesAreOfTheWindow'
        BY <3>1 DEF FeaturesAreOfTheWindow
      <3>3. Len(b) < WindowSize
        BY <2>0, <2>4, <2>7
      <3>4. QED
        BY <2>2, <2>3, <2>4, <2>5, <3>1, <3>2, <3>3 DEF SignalInvariant
    <2>8. QED
      BY <2>6, <2>7
  <1>2. CASE UNCHANGED signalVars
    BY <1>2 DEF SignalInvariant, signalVars, FeaturesAreOfTheWindow, StatisticsAreOf, EnvelopeIsOf
  <1>3. QED
    BY <1>1, <1>2 DEF SignalNext

(* process_sample: whatever samples came before, the features of a window  *)
(* are those of its samples, for every window size, every number of        *)
(* wavelet levels and every set of readings: the incremental statistics    *)
(* are the sums over the window, the recursive transform is the Fourier    *)
(* transform, the analytic signal extends the samples and the wavelets     *)
(* keep their energy.                                                      *)
THEOREM FeaturesAreAlwaysOfTheWindow ==
  SignalSpec => []FeaturesAreOfTheWindow
PROOF
  <1>1. SignalInvariant => FeaturesAreOfTheWindow
    BY DEF SignalInvariant
  <1>2. QED
    BY SignalInvariantInitially, SignalInvariantInductive, <1>1, PTL DEF SignalSpec
=============================================================================
