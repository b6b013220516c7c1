------------------------------ MODULE Numbers ------------------------------
(***************************************************************************)
(* Facts about numbers.  Division with remainder: what the proofs about     *)
(* numbers that travel in a narrow field or index a small table rest on.   *)
(* Induction: what follows from it when it is stated for sets of numbers,  *)
(* which the provers can use (a rule with an operator as its parameter they *)
(* cannot).  The modules that need it prove Induction from the library:    *)
(* this one reaches no library, as its users pay for every fact in sight.  *)
(***************************************************************************)
EXTENDS Integers

\* Division with remainder.
LEMMA DivMod ==
  ASSUME NEW a \in Nat, NEW m \in Nat \ {0}
  PROVE  a % m \in 0 .. m - 1 /\ a \div m \in Nat /\ a = m * (a \div m) + (a % m)
  OBVIOUS

\* A number below the modulus is its own remainder.
LEMMA ModSmall == ASSUME NEW a \in Nat, NEW m \in Nat, a < m PROVE a % m = a
  OBVIOUS

\* The only multiple of m from 0 to m - 1 is 0.
LEMMA SmallMultiple ==
  ASSUME NEW k \in Int, NEW m \in Nat \ {0}, 0 <= m * k, m * k < m
  PROVE  m * k = 0
  <1>1. ~ (k >= 1)
    <2> SUFFICES ASSUME k >= 1 PROVE FALSE OBVIOUS
    <2>1. m * k >= m * 1 OBVIOUS
    <2> QED BY <2>1
  <1>2. ~ (k <= -1)
    <2> SUFFICES ASSUME k <= -1 PROVE FALSE OBVIOUS
    <2>1. m * k <= m * (-1) OBVIOUS
    <2> QED BY <2>1
  <1>3. k = 0 BY <1>1, <1>2
  <1> QED BY <1>3

\* The numbers of fewer than m probes in a row differ modulo m.
LEMMA ModUnique ==
  ASSUME NEW x \in Nat, NEW y \in Nat, NEW m \in Nat \ {0},
         x <= y, y - x < m, x % m = y % m
  PROVE  x = y
  <1> DEFINE i == x \div m
             j == y \div m
  <1>1. i \in Nat /\ j \in Nat /\ x = m * i + (x % m) /\ y = m * j + (y % m)
    BY DivMod
  <1>2. m * (j - i) = m * j - m * i BY <1>1
  <1>3. x % m \in Nat BY DivMod
  <1> HIDE DEF i, j
  <1>4. m * i \in Int /\ m * j \in Int BY <1>1
  <1>5. y - x = m * (j - i) BY <1>1, <1>2, <1>3, <1>4
  <1>6. m * (j - i) = 0
    <2>1. j - i \in Int /\ 0 <= m * (j - i) /\ m * (j - i) < m BY <1>1, <1>5
    <2> QED BY <2>1, SmallMultiple
  <1> QED BY <1>5, <1>6

\* A multiple of m added or taken away does not change the remainder.
LEMMA ModShift ==
  ASSUME NEW x \in Nat, NEW m \in Nat \ {0}, NEW q \in Nat, NEW r \in 0 .. m - 1,
         x = m * q + r
  PROVE  x % m = r
  <1> DEFINE p == x \div m
             t == x % m
  <1>1. p \in Nat /\ t \in 0 .. m - 1 /\ x = m * p + t BY DivMod
  <1> HIDE DEF p, t
  <1>2. m * (p - q) = m * p - m * q /\ m * (q - p) = m * q - m * p BY <1>1
  <1>3. m * p \in Int /\ m * q \in Int BY <1>1
  <1>4. CASE t <= r
    <2>1. m * (p - q) = r - t BY <1>1, <1>2, <1>3
    <2>2. 0 <= m * (p - q) /\ m * (p - q) < m /\ p - q \in Int BY <1>1, <1>4, <2>1
    <2>3. m * (p - q) = 0 BY <2>2, SmallMultiple
    <2> QED BY <1>1, <2>1, <2>3 DEF t
  <1>5. CASE r <= t
    <2>1. m * (q - p) = t - r BY <1>1, <1>2, <1>3
    <2>2. 0 <= m * (q - p) /\ m * (q - p) < m /\ q - p \in Int BY <1>1, <1>5, <2>1
    <2>3. m * (q - p) = 0 BY <2>2, SmallMultiple
    <2> QED BY <1>1, <2>1, <2>3 DEF t
  <1> QED BY <1>1, <1>4, <1>5

\* Nor does it change the quotient by more than it should.
LEMMA DivShift ==
  ASSUME NEW x \in Nat, NEW m \in Nat \ {0}, NEW q \in Nat, NEW r \in 0 .. m - 1,
         x = m * q + r
  PROVE  x \div m = q
  <1> DEFINE p == x \div m
  <1>0. x % m = r BY ModShift
  <1>1. p \in Nat /\ x = m * p + r
    <2>1. p \in Nat /\ x = m * p + (x % m) BY DivMod
    <2> QED BY <1>0, <2>1
  <1> HIDE DEF p
  <1>2. m * p \in Int /\ m * q \in Int BY <1>1
  <1>3. m * p = m * q BY <1>1, <1>2
  <1>4. ASSUME NEW a \in Nat, NEW b \in Nat, a < b PROVE m * a # m * b
    <2>1. m * (b - a) = m * b - m * a OBVIOUS
    <2>2. b - a >= 1 /\ b - a \in Nat BY <1>4
    <2>3. m * (b - a) >= m * 1 BY <2>2
    <2>4. m * a \in Int /\ m * b \in Int OBVIOUS
    <2> QED BY <2>1, <2>3, <2>4
  <1>5. p = q BY <1>1, <1>3, <1>4
  <1> QED BY <1>5 DEF p

\* Reducing first by a multiple of the modulus changes nothing.
LEMMA ModMod ==
  ASSUME NEW x \in Nat, NEW m \in Nat \ {0}, NEW n \in Nat \ {0}, n % m = 0
  PROVE  (x % n) % m = x % m
  <1> DEFINE c == n \div m
             q == x \div n
             r == x % n
             s == r \div m
             t == r % m
  <1>1. c \in Nat /\ n = m * c
    <2>1. c \in Nat /\ n = m * c + (n % m) BY DivMod
    <2>2. m * c \in Int BY <2>1
    <2> QED BY <2>1, <2>2
  <1>2. q \in Nat /\ r \in Nat /\ x = n * q + r BY DivMod
  <1>3. s \in Nat /\ t \in 0 .. m - 1 /\ r = m * s + t BY <1>2, DivMod
  <1> HIDE DEF c, q, r, s, t
  <1>4. n * q = m * (c * q) BY <1>1, <1>2
  <1>5. m * (c * q + s) = m * (c * q) + m * s /\ c * q + s \in Nat BY <1>1, <1>2, <1>3
  <1>6. m * (c * q) \in Int /\ m * s \in Int BY <1>1, <1>2, <1>3
  <1>7. x = m * (c * q + s) + t BY <1>2, <1>3, <1>4, <1>5, <1>6
  <1>8. x % m = t BY <1>3, <1>5, <1>7, ModShift
  <1> QED BY <1>8 DEF t, r

-----------------------------------------------------------------------------
(* Induction, for a set of numbers *)

Induction == \A S : 0 \in S /\ (\A n \in Nat : n \in S => n + 1 \in S) => Nat \subseteq S

\* A set of numbers that is not empty has a smallest element.
LEMMA SmallestElement ==
  ASSUME Induction, NEW T \in SUBSET Nat, T # {}
  PROVE  \E n \in T : \A m \in T : n <= m
  <1> SUFFICES ASSUME \A n \in T : \E m \in T : ~ (n <= m) PROVE FALSE OBVIOUS
  <1> DEFINE S == {n \in Nat : \A m \in T : ~ (m <= n)}
  <1>1. 0 \in S
    <2> SUFFICES ASSUME NEW m \in T, m <= 0 PROVE FALSE OBVIOUS
    <2>1. PICK l \in T : ~ (m <= l) OBVIOUS
    <2> QED BY <2>1
  <1>2. ASSUME NEW n \in Nat, n \in S PROVE n + 1 \in S
    <2> SUFFICES ASSUME NEW m \in T, m <= n + 1 PROVE FALSE OBVIOUS
    <2>1. PICK l \in T : ~ (m <= l) OBVIOUS
    <2>2. l <= n BY <2>1
    <2> QED BY <1>2, <2>2
  <1>3. PICK k \in T : TRUE OBVIOUS
  <1>4. Nat \subseteq S
    <2> HIDE DEF S
    <2> QED BY <1>1, <1>2 DEF Induction
  <1> QED BY <1>3, <1>4

\* A function on 0 .. k may be defined by recursion.
LEMMA RecursionExists ==
  ASSUME Induction, NEW V, NEW a \in V, NEW k \in Nat, NEW step \in [1 .. k -> [V -> V]]
  PROVE  \E f \in [0 .. k -> V] : f[0] = a /\ \A n \in 1 .. k : f[n] = step[n][f[n - 1]]
  <1> DEFINE Good(f, m) == f[0] = a /\ \A n \in 1 .. m : f[n] = step[n][f[n - 1]]
             S == {m \in Nat : m <= k => \E f \in [0 .. m -> V] : Good(f, m)}
  <1>1. 0 \in S
    <2>1. [i \in 0 .. 0 |-> a] \in [0 .. 0 -> V] /\ Good([i \in 0 .. 0 |-> a], 0) OBVIOUS
    <2> QED BY <2>1
  <1>2. ASSUME NEW m \in Nat, m \in S PROVE m + 1 \in S
    <2> SUFFICES ASSUME m + 1 <= k PROVE \E f \in [0 .. m + 1 -> V] : Good(f, m + 1)
      OBVIOUS
    <2>1. PICK g \in [0 .. m -> V] : Good(g, m) BY <1>2
    <2> DEFINE h == [i \in 0 .. m + 1 |-> IF i = m + 1 THEN step[m + 1][g[m]] ELSE g[i]]
    <2>2. step[m + 1][g[m]] \in V
      <3>1. step[m + 1] \in [V -> V] /\ g[m] \in V OBVIOUS
      <3> QED BY <3>1
    <2>3. h \in [0 .. m + 1 -> V] BY <2>2
    <2>4. h[m + 1] = step[m + 1][g[m]] /\ \A i \in 0 .. m : h[i] = g[i] OBVIOUS
    <2> HIDE DEF h
    <2>5. Good(h, m + 1)
      <3>1. h[0] = a BY <2>1, <2>4
      <3>2. ASSUME NEW n \in 1 .. m + 1 PROVE h[n] = step[n][h[n - 1]]
        <4>1. CASE n = m + 1 BY <4>1, <2>4
        <4>2. CASE n \in 1 .. m BY <4>2, <2>1, <2>4
        <4> QED BY <4>1, <4>2
      <3> QED BY <3>1, <3>2
    <2> QED BY <2>3, <2>5
  <1> HIDE DEF S
  <1>3. Nat \subseteq S BY <1>1, <1>2 DEF Induction
  <1>4. k \in S BY <1>3
  <1> QED BY <1>4 DEF S
=============================================================================
