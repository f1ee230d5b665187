------------------------- MODULE WireScalarsProofs -------------------------
(***************************************************************************)
(* For every even base, every width of a limb and of a field element,      *)
(* every order of the field and every text: what the OCaml side writes is  *)
(* read back as itself, and of the texts that are not longer than a field  *)
(* element nothing else is accepted.                                       *)
(*                                                                         *)
(* Power and number are recursive functions; what they compute is shown    *)
(* by induction over the natural numbers, which SetInduction derives from  *)
(* the pigeonhole principle.                                               *)
(***************************************************************************)
EXTENDS WireScalars, FiniteSetTheorems, SequenceTheorems, TLAPS

-----------------------------------------------------------------------------
\* Induction and recursion over the natural numbers.

\* A set that has 0, and with each number the next one, has them all: were n the number it
\* misses, adding 1 would map its members below n one to one into those that are not 0.
LEMMA SetInduction ==
    ASSUME NEW S, 0 \in S, \A m \in Nat : m \in S => m + 1 \in S
    PROVE  \A n \in Nat : n \in S
<1>. SUFFICES ASSUME NEW n \in Nat, n \notin S PROVE FALSE
  OBVIOUS
<1>. DEFINE A == (0..n) \cap S
            B == A \ {0}
            next == [x \in A |-> x + 1]
<1>1. IsFiniteSet(A) /\ Cardinality(A) \in Nat
  <2>1. IsFiniteSet(0..n)
    BY FS_Interval
  <2>2. A \in SUBSET (0..n)
    OBVIOUS
  <2>. HIDE DEF A
  <2>. QED  BY <2>1, <2>2, FS_Subset, FS_CardinalityType
<1>2. 0 \in A
  OBVIOUS
<1>3. IsFiniteSet(B) /\ Cardinality(B) = Cardinality(A) - 1
  <2>. HIDE DEF A
  <2>. QED  BY <1>1, <1>2, FS_RemoveElement
<1>4. next \in [A -> B]
  <2>1. ASSUME NEW x \in A  PROVE x + 1 \in B
    <3>1. x \in Nat /\ x \in S /\ x <= n /\ x # n
      OBVIOUS
    <3>2. x + 1 \in S
      BY <3>1
    <3>. QED  BY <3>1, <3>2
  <2>. QED  BY <2>1
<1>5. \E x, y \in A : x # y /\ next[x] = next[y]
  <2>. HIDE DEF A, B, next
  <2>. QED  BY <1>1, <1>3, <1>4, FS_PigeonHole
<1>. QED  BY <1>5

\* The sequences of numbers that begin with z and go on by h.
Steps(z, h, n) == {g \in [0..n -> Int] : /\ g[0] = z
                                         /\ \A i \in 0..(n - 1) : g[i + 1] = h[<<g[i], i + 1>>]}

\* There is one of every length.
LEMMA StepsExist ==
    ASSUME NEW z \in Int, NEW h \in [Int \X Nat -> Int]
    PROVE  \A n \in Nat : Steps(z, h, n) # {}
<1>. DEFINE S == {n \in Nat : Steps(z, h, n) # {}}
<1>1. 0 \in S
  <2>1. [i \in 0..0 |-> z] \in Steps(z, h, 0)
    BY DEF Steps
  <2>. QED  BY <2>1
<1>2. ASSUME NEW n \in Nat, n \in S  PROVE n + 1 \in S
  <2>1. PICK g : g \in Steps(z, h, n)
    BY <1>2
  <2>2. g \in [0..n -> Int] /\ g[0] = z /\ \A i \in 0..(n - 1) : g[i + 1] = h[<<g[i], i + 1>>]
    BY <2>1 DEF Steps
  <2>. DEFINE k == [i \in 0..(n + 1) |-> IF i = n + 1 THEN h[<<g[n], n + 1>>] ELSE g[i]]
  <2>3. g[n] \in Int /\ h[<<g[n], n + 1>>] \in Int
    BY <2>2
  <2>4. k \in [0..(n + 1) -> Int]
    BY <2>2, <2>3
  <2>5. k[0] = z /\ \A i \in 0..n : k[i] = g[i]
    BY <2>2
  <2>6. k[n + 1] = h[<<g[n], n + 1>>]
    OBVIOUS
  <2>. HIDE DEF k
  <2>7. ASSUME NEW i \in 0..((n + 1) - 1)  PROVE k[i + 1] = h[<<k[i], i + 1>>]
    <3>1. CASE i = n
      BY <3>1, <2>5, <2>6
    <3>2. CASE i # n
      <4>1. i \in 0..(n - 1) /\ i + 1 \in 0..n /\ i \in 0..n
        BY <3>2
      <4>. QED  BY <4>1, <2>2, <2>5
    <3>. QED  BY <3>1, <3>2
  <2>8. k \in Steps(z, h, n + 1)
    BY <2>4, <2>5, <2>7 DEF Steps
  <2>. QED  BY <2>8
<1>. HIDE DEF S
<1>3. \A n \in Nat : n \in S
  BY <1>1, <1>2, SetInduction
<1>. QED  BY <1>3 DEF S

\* They agree as far as they go.
LEMMA StepsAgree ==
    ASSUME NEW z, NEW h, NEW n \in Nat, NEW f \in Steps(z, h, n),
           NEW m \in Nat, NEW g \in Steps(z, h, m)
    PROVE  \A i \in Nat : i <= n /\ i <= m => f[i] = g[i]
<1>. DEFINE S == {i \in Nat : i <= n /\ i <= m => f[i] = g[i]}
<1>0. /\ f[0] = z /\ \A i \in 0..(n - 1) : f[i + 1] = h[<<f[i], i + 1>>]
      /\ g[0] = z /\ \A i \in 0..(m - 1) : g[i + 1] = h[<<g[i], i + 1>>]
  BY DEF Steps
<1>1. 0 \in S
  BY <1>0
<1>2. ASSUME NEW i \in Nat, i \in S  PROVE i + 1 \in S
  <2>1. SUFFICES ASSUME i + 1 <= n, i + 1 <= m PROVE f[i + 1] = g[i + 1]
    OBVIOUS
  <2>2. i \in 0..(n - 1) /\ i \in 0..(m - 1) /\ i <= n /\ i <= m
    BY <2>1
  <2>3. f[i] = g[i]
    BY <1>2, <2>2
  <2>. QED  BY <1>0, <2>2, <2>3
<1>. HIDE DEF S
<1>3. \A i \in Nat : i \in S
  BY <1>1, <1>2, SetInduction
<1>. QED  BY <1>3 DEF S

\* So there is one without end.
LEMMA Iteration ==
    ASSUME NEW z \in Int, NEW h \in [Int \X Nat -> Int]
    PROVE  \E f \in [Nat -> Int] :
              f[0] = z /\ \A n \in Nat : f[n + 1] = h[<<f[n], n + 1>>]
<1>. DEFINE first(n) == CHOOSE g : g \in Steps(z, h, n)
            f == [n \in Nat |-> first(n)[n]]
<1>1. ASSUME NEW n \in Nat  PROVE first(n) \in Steps(z, h, n)
  BY StepsExist
<1>. HIDE DEF first
<1>2. ASSUME NEW n \in Nat  PROVE f[n] \in Int
  BY <1>1 DEF Steps
<1>3. f \in [Nat -> Int]
  BY <1>2
<1>4. f[0] = z
  BY <1>1 DEF Steps
<1>5. ASSUME NEW n \in Nat  PROVE f[n + 1] = h[<<f[n], n + 1>>]
  <2>. DEFINE g == first(n + 1)
  <2>1. n + 1 \in Nat /\ n \in 0..((n + 1) - 1) /\ n <= n /\ n <= n + 1
    OBVIOUS
  <2>2. g \in Steps(z, h, n + 1) /\ first(n) \in Steps(z, h, n)
    BY <1>1, <2>1
  <2>3. g[n + 1] = h[<<g[n], n + 1>>]
    BY <2>1, <2>2 DEF Steps
  <2>4. g[n] = first(n)[n]
    <3>. HIDE DEF g
    <3>. QED  BY <2>1, <2>2, StepsAgree
  <2>. QED  BY <2>1, <2>3, <2>4
<1>. HIDE DEF f
<1>. QED  BY <1>3, <1>4, <1>5

-----------------------------------------------------------------------------
\* The powers of Base (Power).
LEMMA PowerIs ==
    /\ DOMAIN Power = Nat /\ Power[0] = 1
    /\ \A n \in Nat : Power[n + 1] = Base * Power[n]
<1>. DEFINE h == [p \in Int \X Nat |-> Base * p[1]]
            Is(g) == g = [n \in Nat |-> IF n = 0 THEN 1 ELSE Base * g[n - 1]]
<1>0. Base \in Nat
  BY WireAssumption
<1>1. h \in [Int \X Nat -> Int] /\ \A v \in Int, n \in Nat : h[<<v, n>>] = Base * v
  BY <1>0
<1>. HIDE DEF h
<1>2. PICK f \in [Nat -> Int] : f[0] = 1 /\ \A n \in Nat : f[n + 1] = h[<<f[n], n + 1>>]
  <2>1. 1 \in Int
    OBVIOUS
  <2>. QED  BY <1>1, <2>1, Iteration
<1>3. \E g : Is(g)
  <2>1. ASSUME NEW n \in Nat  PROVE f[n] = IF n = 0 THEN 1 ELSE Base * f[n - 1]
    <3>1. CASE n = 0
      BY <1>2, <3>1
    <3>2. CASE n # 0
      <4>1. n - 1 \in Nat /\ (n - 1) + 1 = n
        BY <3>2
      <4>2. f[n] = h[<<f[n - 1], n>>]
        BY <1>2, <4>1
      <4>3. f[n - 1] \in Int
        BY <1>2, <4>1
      <4>. QED  BY <1>1, <3>2, <4>2, <4>3
    <3>. QED  BY <3>1, <3>2
  <2>2. Is(f)
    BY <1>2, <2>1
  <2>. QED  BY <2>2
<1>4. Power = CHOOSE g : Is(g)
  BY DEF Power
<1>. HIDE DEF Is
<1>5. Is(Power)
  BY <1>3, <1>4
<1>6. Power = [n \in Nat |-> IF n = 0 THEN 1 ELSE Base * Power[n - 1]]
  BY <1>5 DEF Is
<1>7. ASSUME NEW n \in Nat  PROVE Power[n + 1] = Base * Power[n]
  <2>1. n + 1 \in Nat /\ n + 1 # 0 /\ (n + 1) - 1 = n
    OBVIOUS
  <2>. QED  BY <1>6, <2>1
<1>. QED  BY <1>6, <1>7

\* The running sums of a sequence of bytes (number).
IsSum(s, bytes) == /\ s \in [0..Len(bytes) -> Int] /\ s[0] = 0
                   /\ \A i \in 1..Len(bytes) : s[i] = s[i - 1] + bytes[i] * Power[i - 1]

\* The running sums are well defined (number).
LEMMA SumExists ==
    ASSUME NEW bytes \in Seq(Nat), \A i \in Nat : Power[i] \in Nat
    PROVE  \E s : IsSum(s, bytes)
<1>. DEFINE n == Len(bytes)
            h == [p \in Int \X Nat |->
                    IF p[2] \in 1..n THEN p[1] + bytes[p[2]] * Power[p[2] - 1] ELSE 0]
<1>1. n \in Nat /\ \A i \in 1..n : bytes[i] * Power[i - 1] \in Int
  <2>1. n \in Nat /\ \A i \in 1..n : bytes[i] \in Nat
    OBVIOUS
  <2>2. ASSUME NEW i \in 1..n  PROVE Power[i - 1] \in Nat
    <3>1. i - 1 \in Nat
      BY <2>1
    <3>. QED  BY <3>1
  <2>. QED  BY <2>1, <2>2
<1>2. h \in [Int \X Nat -> Int]
  <2>1. ASSUME NEW p \in Int \X Nat
        PROVE  (IF p[2] \in 1..n THEN p[1] + bytes[p[2]] * Power[p[2] - 1] ELSE 0) \in Int
    <3>1. CASE p[2] \in 1..n
      <4>1. bytes[p[2]] * Power[p[2] - 1] \in Int /\ p[1] \in Int
        BY <1>1, <3>1
      <4>. QED  BY <3>1, <4>1
    <3>. QED  BY <3>1
  <2>. QED  BY <2>1
<1>3. \A v \in Int, i \in 1..n : h[<<v, i>>] = v + bytes[i] * Power[i - 1]
  BY <1>1
<1>. HIDE DEF h
<1>4. PICK f \in [Nat -> Int] : f[0] = 0 /\ \A m \in Nat : f[m + 1] = h[<<f[m], m + 1>>]
  <2>1. 0 \in Int
    OBVIOUS
  <2>. QED  BY <1>2, <2>1, Iteration
<1>. DEFINE s == [i \in 0..n |-> f[i]]
<1>5. s \in [0..n -> Int] /\ s[0] = 0
  BY <1>1, <1>4
<1>6. ASSUME NEW i \in 1..n  PROVE s[i] = s[i - 1] + bytes[i] * Power[i - 1]
  <2>1. i - 1 \in Nat /\ (i - 1) + 1 = i /\ i - 1 \in 0..n /\ i \in 0..n
    BY <1>1
  <2>2. f[i] = h[<<f[i - 1], i>>] /\ f[i - 1] \in Int
    BY <1>4, <2>1
  <2>3. f[i] = f[i - 1] + bytes[i] * Power[i - 1]
    BY <1>3, <2>2
  <2>. QED  BY <2>1, <2>3
<1>. HIDE DEF s
<1>. QED  BY <1>5, <1>6 DEF IsSum

\* And number is the last of them (number).
LEMMA NumberIs ==
    ASSUME NEW bytes \in Seq(Nat), \A i \in Nat : Power[i] \in Nat
    PROVE  \E s : IsSum(s, bytes) /\ number(bytes) = s[Len(bytes)]
<1>. DEFINE n == Len(bytes)
            Is(s) == s = [i \in 0..n |-> IF i = 0 THEN 0 ELSE s[i - 1] + bytes[i] * Power[i - 1]]
            sum == CHOOSE s : Is(s)
<1>1. n \in Nat
  OBVIOUS
<1>2. PICK s : IsSum(s, bytes)
  BY SumExists
<1>3. Is(s)
  <2>1. s = [i \in 0..n |-> s[i]] /\ s[0] = 0
        /\ \A i \in 1..n : s[i] = s[i - 1] + bytes[i] * Power[i - 1]
    BY <1>2 DEF IsSum
  <2>2. ASSUME NEW i \in 0..n
        PROVE  s[i] = IF i = 0 THEN 0 ELSE s[i - 1] + bytes[i] * Power[i - 1]
    <3>1. CASE i = 0
      BY <2>1, <3>1
    <3>2. CASE i # 0
      <4>1. i \in 1..n
        BY <1>1, <3>2
      <4>. QED  BY <2>1, <3>2, <4>1
    <3>. QED  BY <3>1, <3>2
  <2>. HIDE DEF n
  <2>. QED  BY <2>1, <2>2
<1>4. number(bytes) = sum[n]
  BY DEF number
<1>5. Is(sum)
  <2>. HIDE DEF Is
  <2>. QED  BY <1>3
<1>6. sum = [i \in 0..n |-> IF i = 0 THEN 0 ELSE sum[i - 1] + bytes[i] * Power[i - 1]]
  <2>. HIDE DEF sum
  <2>. QED  BY <1>5
<1>. HIDE DEF sum
<1>7. sum[0] = 0 /\ \A i \in 1..n : sum[i] = sum[i - 1] + bytes[i] * Power[i - 1]
  <2>1. ASSUME NEW i \in 1..n  PROVE sum[i] = sum[i - 1] + bytes[i] * Power[i - 1]
    <3>1. i \in 0..n /\ i # 0
      BY <1>1
    <3>. QED  BY <1>6, <3>1
  <2>2. 0 \in 0..n
    BY <1>1
  <2>. QED  BY <1>6, <2>1, <2>2
<1>. DEFINE S == {i \in Nat : i <= n => sum[i] = s[i]}
<1>8. \A i \in Nat : i \in S
  <2>0. s[0] = 0 /\ \A i \in 1..n : s[i] = s[i - 1] + bytes[i] * Power[i - 1]
    BY <1>2 DEF IsSum
  <2>1. 0 \in S
    BY <1>7, <2>0
  <2>2. ASSUME NEW i \in Nat, i \in S  PROVE i + 1 \in S
    <3>1. SUFFICES ASSUME i + 1 <= n  PROVE sum[i + 1] = s[i + 1]
      OBVIOUS
    <3>2. i + 1 \in 1..n /\ i <= n /\ (i + 1) - 1 = i
      BY <1>1, <3>1
    <3>3. sum[i] = s[i]
      BY <2>2, <3>2
    <3>. QED  BY <1>7, <2>0, <3>2, <3>3
  <2>. HIDE DEF S
  <2>. QED  BY <2>1, <2>2, SetInduction
<1>9. sum[n] = s[n]
  BY <1>1, <1>8
<1>. QED  BY <1>2, <1>4, <1>9

-----------------------------------------------------------------------------
\* Division with remainder.
LEMMA DivMod ==
    ASSUME NEW x \in Int, NEW d \in Nat \ {0}
    PROVE  x \div d \in Int /\ x % d \in 0..(d - 1) /\ x = d * (x \div d) + (x % d)
  OBVIOUS

\* Multiplication is monotone.
LEMMA Times ==
    ASSUME NEW a \in Nat, NEW b \in Int, NEW c \in Int, b <= c
    PROVE  a * b \in Int /\ a * c \in Int /\ a * b <= a * c
  OBVIOUS

\* A number below d is 0 if it is a multiple of d.
LEMMA NoMultiple ==
    ASSUME NEW d \in Nat \ {0}, NEW k \in Int, d * k < d, d * k > -d
    PROVE  k = 0
<1>1. CASE k >= 1
  <2>1. d * 1 <= d * k
    BY <1>1, Times
  <2>. QED  BY <2>1
<1>2. CASE k <= -1
  <2>1. d * k <= d * (-1)
    BY <1>2, Times
  <2>. QED  BY <2>1
<1>. QED  BY <1>1, <1>2

\* Quotient and remainder are the only ones.
LEMMA DivModUnique ==
    ASSUME NEW d \in Nat \ {0}, NEW q \in Int, NEW r \in 0..(d - 1)
    PROVE  (d * q + r) \div d = q /\ (d * q + r) % d = r
<1>. DEFINE x == d * q + r
            p == x \div d
            s == x % d
<1>1. x \in Int /\ d * q \in Int
  OBVIOUS
<1>2. p \in Int /\ s \in 0..(d - 1) /\ x = d * p + s
  BY <1>1, DivMod
<1>. HIDE DEF p, s
<1>3. d * (p - q) = d * p - d * q /\ d * p \in Int
  BY <1>2
<1>4. d * (p - q) = r - s
  BY <1>1, <1>2, <1>3
<1>5. d * (p - q) < d /\ d * (p - q) > -d
  BY <1>2, <1>4
<1>6. p - q = 0
  BY <1>2, <1>5, NoMultiple
<1>7. p = q
  BY <1>2, <1>6
<1>8. s = r
  BY <1>1, <1>2, <1>7
<1>. QED  BY <1>7, <1>8 DEF p, s

\* Quotient and remainder under names, for lemmas that are cited as they stand.
quot(x, d) == x \div d
rem(x, d) == x % d

\* Dividing by a product: what the quotient and the remainder are.
LEMMA ByProduct ==
    ASSUME NEW x \in Nat, NEW a \in Nat \ {0}, NEW b \in Nat \ {0}
    PROVE  /\ quot(x, a * b) = quot(quot(x, a), b)
           /\ rem(x, a * b) = a * rem(quot(x, a), b) + rem(x, a)
<1>. DEFINE q == x \div a
            r == x % a
            p == q \div b
            s == q % b
<1>1. q \in Int /\ r \in 0..(a - 1) /\ x = a * q + r
  BY DivMod
<1>. HIDE DEF q, r
<1>2. p \in Int /\ s \in 0..(b - 1) /\ q = b * p + s
  BY <1>1, DivMod
<1>. HIDE DEF p, s
<1>3. a * b \in Nat \ {0}
  OBVIOUS
<1>4. a * s + r \in 0..(a * b - 1)
  <2>1. a * s <= a * (b - 1) /\ a * s \in Int /\ a * 0 <= a * s
    BY <1>2, Times
  <2>2. a * (b - 1) = a * b - a
    OBVIOUS
  <2>. QED  BY <1>1, <1>3, <2>1, <2>2
<1>5. x = (a * b) * p + (a * s + r)
  <2>1. a * (b * p + s) = (a * b) * p + a * s
    BY <1>2
  <2>. QED  BY <1>1, <1>2, <2>1
<1>6. x \div (a * b) = p /\ x % (a * b) = a * s + r
  BY <1>2, <1>3, <1>4, <1>5, DivModUnique
<1>. QED  BY <1>6 DEF p, s, q, r, quot, rem

\* Adding a multiple of the modulus does not change a remainder.
LEMMA ModPlus ==
    ASSUME NEW d \in Nat \ {0}, NEW k \in Int, NEW u \in Int
    PROVE  (d * k + u) % d = u % d
<1>. DEFINE q == u \div d
            r == u % d
<1>1. q \in Int /\ r \in 0..(d - 1) /\ u = d * q + r
  BY DivMod
<1>. HIDE DEF q, r
<1>2. k + q \in Int /\ d * (k + q) = d * k + d * q /\ d * k \in Int /\ d * q \in Int
  BY <1>1
<1>3. (d * (k + q) + r) % d = r
  BY <1>1, <1>2, DivModUnique
<1>4. d * k + u = d * (k + q) + r
  BY <1>1, <1>2
<1>. QED  BY <1>3, <1>4 DEF r

\* Adding or taking away the modulus does not change a remainder.
LEMMA ModShift ==
    ASSUME NEW d \in Nat \ {0}, NEW u \in Int
    PROVE  (u - d) % d = u % d /\ (u + d) % d = u % d
<1>1. (u - d) % d = u % d
  <2>1. PICK k \in Int : k = -1
    OBVIOUS
  <2>2. (d * k + u) % d = u % d
    BY ModPlus
  <2>3. d * k + u = u - d
    BY <2>1
  <2>. QED  BY ONLY <2>2, <2>3
<1>2. (u + d) % d = u % d
  <2>1. PICK k \in Int : k = 1
    OBVIOUS
  <2>2. (d * k + u) % d = u % d
    BY ModPlus
  <2>3. d * k + u = u + d
    BY <2>1
  <2>. QED  BY ONLY <2>2, <2>3
<1>. QED  BY <1>1, <1>2

\* A number below the modulus is its own remainder.
LEMMA ModSmall ==
    ASSUME NEW d \in Nat \ {0}, NEW u \in 0..(d - 1)
    PROVE  u % d = u /\ u \div d = 0
<1>1. (d * 0 + u) % d = u /\ (d * 0 + u) \div d = 0
  BY DivModUnique
<1>2. d * 0 + u = u
  OBVIOUS
<1>. QED  BY <1>1, <1>2

\* A quotient of a natural number is one.
LEMMA DivNat ==
    ASSUME NEW x \in Nat, NEW d \in Nat \ {0}
    PROVE  x \div d \in Nat
<1>. DEFINE q == x \div d
            r == x % d
<1>1. q \in Int /\ r \in 0..(d - 1) /\ x = d * q + r
  BY DivMod
<1>. HIDE DEF q, r
<1>2. CASE q <= -1
  <2>1. d * q <= d * (-1) /\ d * q \in Int
    BY <1>1, <1>2, Times
  <2>. QED  BY <1>1, <2>1
<1>. QED  BY <1>1, <1>2 DEF q

-----------------------------------------------------------------------------
\* The powers of Base are positive, and grow (Power).
LEMMA PowerType == \A n \in Nat : Power[n] \in Nat \ {0}
<1>. DEFINE S == {n \in Nat : Power[n] \in Nat \ {0}}
<1>1. 0 \in S
  BY PowerIs
<1>2. ASSUME NEW n \in Nat, n \in S  PROVE n + 1 \in S
  <2>1. Power[n] \in Nat \ {0} /\ Base \in Nat \ {0} /\ Power[n + 1] = Base * Power[n]
    BY <1>2, PowerIs, WireAssumption
  <2>2. Base * Power[n] \in Nat \ {0}
    BY <2>1
  <2>. QED  BY <2>1, <2>2
<1>. HIDE DEF S
<1>3. \A n \in Nat : n \in S
  BY <1>1, <1>2, SetInduction
<1>. QED  BY <1>3 DEF S

\* Exponents add up (Power).
LEMMA PowerAdd == \A m, n \in Nat : Power[m + n] = Power[m] * Power[n]
<1>. SUFFICES ASSUME NEW m \in Nat PROVE \A n \in Nat : Power[m + n] = Power[m] * Power[n]
  OBVIOUS
<1>. DEFINE S == {n \in Nat : Power[m + n] = Power[m] * Power[n]}
<1>1. 0 \in S
  <2>1. Power[m] \in Nat /\ m + 0 = m /\ Power[0] = 1
    BY PowerIs, PowerType
  <2>. QED  BY <2>1
<1>2. ASSUME NEW n \in Nat, n \in S  PROVE n + 1 \in S
  <2>1. Power[(m + n) + 1] = Base * Power[m + n] /\ Power[n + 1] = Base * Power[n]
    BY PowerIs
  <2>2. Power[m] \in Nat /\ Power[n] \in Nat /\ Base \in Nat
    BY PowerType, WireAssumption
  <2>3. Base * (Power[m] * Power[n]) = Power[m] * (Base * Power[n])
    BY <2>2
  <2>4. m + (n + 1) = (m + n) + 1
    OBVIOUS
  <2>. QED  BY <1>2, <2>1, <2>3, <2>4
<1>. HIDE DEF S
<1>3. \A n \in Nat : n \in S
  BY <1>1, <1>2, SetInduction
<1>. QED  BY <1>3 DEF S

\* The powers are in the order of their exponents (Power).
LEMMA PowerGrows == \A m, n \in Nat : m <= n => Power[m] <= Power[n]
<1>. SUFFICES ASSUME NEW m \in Nat, NEW n \in Nat, m <= n PROVE Power[m] <= Power[n]
  OBVIOUS
<1>1. n - m \in Nat /\ m + (n - m) = n
  OBVIOUS
<1>2. Power[n] = Power[m] * Power[n - m]
  BY <1>1, PowerAdd
<1>3. Power[m] \in Nat /\ Power[n - m] \in Nat /\ 1 <= Power[n - m]
  BY <1>1, PowerType
<1>4. Power[m] * 1 <= Power[m] * Power[n - m]
  BY <1>3, Times
<1>. QED  BY <1>2, <1>3, <1>4

-----------------------------------------------------------------------------
\* The digit of x at position i, the least significant one at 0 (limb_bytes).
digit(x, i) == (x \div Power[i]) % Base

\* A digit is a byte (limb_bytes).
LEMMA DigitType ==
    ASSUME NEW x \in Nat, NEW i \in Nat
    PROVE  digit(x, i) \in 0..(Base - 1) /\ x \div Power[i] \in Nat
<1>. DEFINE d == Power[i]
            q == x \div d
<1>1. d \in Nat \ {0} /\ Base \in Nat \ {0}
  BY PowerType, WireAssumption
<1>2. q \in Nat
  <2>. HIDE DEF d
  <2>. QED  BY <1>1, DivNat
<1>3. q % Base \in 0..(Base - 1)
  <2>. HIDE DEF q
  <2>. QED  BY <1>1, <1>2, DivMod
<1>. QED  BY <1>2, <1>3 DEF digit

\* One digit more of a remainder.
LEMMA OneDigitMore ==
    ASSUME NEW x \in Nat, NEW n \in Nat
    PROVE  x % Power[n + 1] = (x % Power[n]) + digit(x, n) * Power[n]
<1>1. Power[n] \in Nat \ {0} /\ Base \in Nat \ {0} /\ Power[n + 1] = Power[n] * Base
  BY PowerIs, PowerType, WireAssumption
<1>2. x % Power[n + 1] = Power[n] * digit(x, n) + (x % Power[n])
  <2>1. rem(x, Power[n] * Base) = Power[n] * rem(quot(x, Power[n]), Base) + rem(x, Power[n])
    BY <1>1, ByProduct
  <2>. QED  BY <1>1, <2>1 DEF digit, quot, rem
<1>3. digit(x, n) \in Nat /\ x % Power[n] \in Nat
  <2>0. digit(x, n) \in 0..(Base - 1)
    BY DigitType
  <2>1. digit(x, n) \in Nat
    BY <1>1, <2>0
  <2>2. \A d \in Nat \ {0} : x % d \in Nat
    BY DivMod
  <2>. QED  BY <1>1, <2>1, <2>2
<1>. QED  BY <1>1, <1>2, <1>3

\* The low digits are those of the remainder.
LEMMA LowDigits ==
    ASSUME NEW x \in Nat, NEW n \in Nat, NEW i \in Nat, i < n
    PROVE  digit(x % Power[n], i) = digit(x, i)
<1>. DEFINE a == Power[i]
            c == Power[n - (i + 1)]
            q == x \div Power[n]
            r == x % Power[n]
            u == r \div a
            t == r % a
<1>1. a \in Nat \ {0} /\ c \in Nat \ {0} /\ Base \in Nat \ {0} /\ Power[n] \in Nat \ {0}
  <2>1. n - (i + 1) \in Nat
    OBVIOUS
  <2>. QED  BY <2>1, PowerType, WireAssumption
<1>2. Power[n] = a * (Base * c)
  <2>1. n - (i + 1) \in Nat /\ (i + 1) + (n - (i + 1)) = n
    OBVIOUS
  <2>2. Power[n] = Power[i + 1] * c /\ Power[i + 1] = Base * a
    BY <2>1, PowerAdd, PowerIs
  <2>. HIDE DEF a, c
  <2>. QED  BY <1>1, <2>2
<1>3. q \in Int /\ r \in Nat /\ x = Power[n] * q + r
  <2>1. \A d \in Nat \ {0} : x \div d \in Int /\ x % d \in Nat /\ x = d * (x \div d) + (x % d)
    BY DivMod
  <2>. QED  BY <1>1, <2>1
<1>. HIDE DEF q, r
<1>4. u \in Int /\ t \in 0..(a - 1) /\ r = a * u + t
  <2>. HIDE DEF a
  <2>. QED  BY <1>1, <1>3, DivMod
<1>. HIDE DEF u, t
<1>5. x = a * (Base * (c * q) + u) + t
  <2>. HIDE DEF a, c
  <2>1. (a * (Base * c)) * q = a * (Base * (c * q)) /\ c * q \in Int /\ Base * (c * q) \in Int
    BY <1>1, <1>3
  <2>2. a * (Base * (c * q) + u) = a * (Base * (c * q)) + a * u
    BY <1>1, <1>4, <2>1
  <2>. QED  BY <1>1, <1>2, <1>3, <1>4, <2>1, <2>2
<1>6. x \div a = Base * (c * q) + u /\ c * q \in Int
  <2>. HIDE DEF a, c
  <2>1. c * q \in Int /\ Base * (c * q) + u \in Int
    BY <1>1, <1>3, <1>4
  <2>. QED  BY <1>1, <1>4, <1>5, <2>1, DivModUnique
<1>7. (x \div a) % Base = u % Base
  <2>. HIDE DEF a, c
  <2>. QED  BY <1>1, <1>4, <1>6, ModPlus
<1>. QED  BY <1>7 DEF digit, u, r

\* The high digits are those of the quotient.
LEMMA HighDigits ==
    ASSUME NEW x \in Nat, NEW m \in Nat, NEW i \in Nat
    PROVE  digit(x \div Power[m], i) = digit(x, m + i)
<1>1. Power[m] \in Nat \ {0} /\ Power[i] \in Nat \ {0} /\ Power[m + i] = Power[m] * Power[i]
  BY PowerType, PowerAdd
<1>2. (x \div Power[m]) \div Power[i] = x \div Power[m + i]
  <2>1. quot(x, Power[m] * Power[i]) = quot(quot(x, Power[m]), Power[i])
    BY <1>1, ByProduct
  <2>. QED  BY <1>1, <2>1 DEF quot
<1>. QED  BY <1>2 DEF digit

\* Beyond the number there are zeros.
LEMMA NoDigits ==
    ASSUME NEW x \in Nat, NEW n \in Nat, x < Power[n], NEW i \in Nat, n <= i
    PROVE  digit(x, i) = 0
<1>1. Power[n] \in Nat /\ Power[i] \in Nat \ {0} /\ Power[n] <= Power[i] /\ Base \in Nat \ {0}
  BY PowerType, PowerGrows, WireAssumption
<1>2. x \in 0..(Power[i] - 1)
  BY <1>1
<1>3. x \div Power[i] = 0
  BY <1>1, <1>2, ModSmall
<1>4. 0 % Base = 0
  BY <1>1, ModSmall
<1>. QED  BY <1>3, <1>4 DEF digit

\* Remainders of natural numbers (rem).
LEMMA RemType ==
    ASSUME NEW x \in Nat, NEW n \in Nat
    PROVE  /\ x % Power[n] \in 0..(Power[n] - 1) /\ x % Power[n] \in Nat
           /\ x < Power[n] => x % Power[n] = x
<1>. DEFINE d == Power[n]
<1>1. d \in Nat \ {0}
  BY PowerType
<1>. HIDE DEF d
<1>2. x % d \in 0..(d - 1)
  BY <1>1, DivMod
<1>3. x < d => x % d = x
  BY <1>1, ModSmall
<1>. QED  BY <1>1, <1>2, <1>3 DEF d

\* Digits and the place they end at pin a number.
LEMMA DigitsPin ==
    ASSUME NEW n \in Nat, NEW x \in Nat, NEW y \in Nat, x < Power[n], y < Power[n],
           \A i \in 0..(n - 1) : digit(x, i) = digit(y, i)
    PROVE  x = y
<1>. DEFINE S == {k \in Nat : k <= n => x % Power[k] = y % Power[k]}
<1>1. 0 \in S
  <2>1. x % 1 = 0 /\ y % 1 = 0
    OBVIOUS
  <2>. QED  BY <2>1, PowerIs
<1>2. ASSUME NEW k \in Nat, k \in S  PROVE k + 1 \in S
  <2>1. SUFFICES ASSUME k + 1 <= n  PROVE x % Power[k + 1] = y % Power[k + 1]
    OBVIOUS
  <2>2. k \in 0..(n - 1) /\ k <= n
    BY <2>1
  <2>3. digit(x, k) = digit(y, k) /\ x % Power[k] = y % Power[k]
    BY <1>2, <2>2
  <2>4. /\ x % Power[k + 1] = (x % Power[k]) + digit(x, k) * Power[k]
        /\ y % Power[k + 1] = (y % Power[k]) + digit(y, k) * Power[k]
    BY OneDigitMore
  <2>. QED  BY <2>3, <2>4
<1>. HIDE DEF S
<1>3. \A k \in Nat : k \in S
  BY <1>1, <1>2, SetInduction
<1>4. x % Power[n] = y % Power[n]
  BY <1>3 DEF S
<1>5. x % Power[n] = x /\ y % Power[n] = y
  BY RemType
<1>. QED  BY <1>4, <1>5

-----------------------------------------------------------------------------
\* The number whose digits the bytes are (number).
LEMMA NumberOfDigits ==
    ASSUME NEW bytes \in Seq(Nat), NEW x \in Nat,
           \A i \in 1..Len(bytes) : bytes[i] = digit(x, i - 1)
    PROVE  number(bytes) = x % Power[Len(bytes)]
<1>. DEFINE n == Len(bytes)
<1>1. n \in Nat
  OBVIOUS
<1>2. PICK s : IsSum(s, bytes) /\ number(bytes) = s[n]
  BY NumberIs, PowerType
<1>3. /\ s \in [0..n -> Int] /\ s[0] = 0
      /\ \A i \in 1..n : s[i] = s[i - 1] + bytes[i] * Power[i - 1]
  BY <1>2 DEF IsSum
<1>. HIDE DEF n
<1>. DEFINE S == {k \in Nat : k <= n => s[k] = x % Power[k]}
<1>4. 0 \in S
  <2>1. x % 1 = 0
    OBVIOUS
  <2>. QED  BY <1>3, <2>1, PowerIs
<1>5. ASSUME NEW k \in Nat, k \in S  PROVE k + 1 \in S
  <2>1. SUFFICES ASSUME k + 1 <= n  PROVE s[k + 1] = x % Power[k + 1]
    OBVIOUS
  <2>2. k + 1 \in 1..n /\ (k + 1) - 1 = k /\ k <= n
    BY <1>1, <2>1
  <2>3. s[k] = x % Power[k] /\ s[k + 1] = s[k] + bytes[k + 1] * Power[k]
    BY <1>3, <1>5, <2>2
  <2>4. bytes[k + 1] = digit(x, k)
    BY <2>2 DEF n
  <2>5. x % Power[k + 1] = (x % Power[k]) + digit(x, k) * Power[k]
    BY OneDigitMore
  <2>. QED  BY <2>3, <2>4, <2>5
<1>. HIDE DEF S
<1>6. \A k \in Nat : k \in S
  BY <1>4, <1>5, SetInduction
<1>7. s[n] = x % Power[n]
  BY <1>1, <1>6 DEF S
<1>. QED  BY <1>2, <1>7 DEF n

\* Appending a digit in front of a number.
LEMMA DigitInFront ==
    ASSUME NEW k \in Nat, NEW r \in Nat, r < Power[k], NEW b \in 0..(Base - 1)
    PROVE  /\ r + b * Power[k] \in Nat /\ r + b * Power[k] < Power[k + 1]
           /\ digit(r + b * Power[k], k) = b
           /\ \A i \in 0..(k - 1) : digit(r + b * Power[k], i) = digit(r, i)
<1>. DEFINE d == Power[k]
            y == r + b * d
<1>1. d \in Nat \ {0} /\ Base \in Nat \ {0} /\ Power[k + 1] = Base * d
  BY PowerIs, PowerType, WireAssumption
<1>2. b \in Nat /\ r \in 0..(d - 1) /\ b <= Base - 1
  BY <1>1
<1>. HIDE DEF d
<1>3. y \in Nat /\ y = d * b + r
  BY <1>1, <1>2
<1>4. y < Base * d
  <2>1. d * b <= d * (Base - 1) /\ d * b \in Int
    BY <1>1, <1>2, Times
  <2>2. d * (Base - 1) = Base * d - d /\ Base * d \in Int
    BY <1>1
  <2>. QED  BY <1>1, <1>2, <1>3, <2>1, <2>2
<1>5. quot(y, d) = b /\ rem(y, d) = r
  <2>1. b \in Int
    BY <1>2
  <2>2. (d * b + r) \div d = b /\ (d * b + r) % d = r
    BY <1>1, <1>2, <2>1, DivModUnique
  <2>. HIDE DEF y
  <2>. QED  BY <1>3, <2>2 DEF quot, rem
<1>. HIDE DEF y
<1>6. digit(y, k) = b
  <2>1. b % Base = b
    BY <1>1, ModSmall
  <2>. QED  BY <1>5, <2>1 DEF digit, d, quot
<1>7. ASSUME NEW i \in 0..(k - 1)  PROVE digit(y, i) = digit(r, i)
  <2>1. i \in Nat /\ i < k
    OBVIOUS
  <2>2. digit(y % Power[k], i) = digit(y, i)
    BY <1>3, <2>1, LowDigits
  <2>. QED  BY <1>5, <2>2 DEF rem, d
<1>. QED  BY <1>1, <1>3, <1>4, <1>6, <1>7 DEF y, d

\* The digits of the number are the bytes, and there are no more of them (number).
LEMMA DigitsOfNumber ==
    ASSUME NEW bytes \in Seq(0..(Base - 1))
    PROVE  /\ number(bytes) \in Nat /\ number(bytes) < Power[Len(bytes)]
           /\ \A i \in 1..Len(bytes) : digit(number(bytes), i - 1) = bytes[i]
<1>. DEFINE n == Len(bytes)
<1>1. n \in Nat /\ bytes \in Seq(Nat) /\ \A i \in 1..n : bytes[i] \in 0..(Base - 1)
  <2>1. Base \in Nat
    BY WireAssumption
  <2>. DEFINE D == 0..(Base - 1)
  <2>2. \A b \in D : b \in Nat
    BY <2>1
  <2>. HIDE DEF D
  <2>3. bytes \in Seq(D)
    BY DEF D
  <2>4. n \in Nat /\ \A i \in 1..n : bytes[i] \in D
    BY <2>3
  <2>5. bytes \in Seq(Nat)
    BY <2>2, <2>3
  <2>. QED  BY <2>4, <2>5 DEF D
<1>2. PICK s : IsSum(s, bytes) /\ number(bytes) = s[n]
  BY <1>1, NumberIs, PowerType
<1>3. /\ s \in [0..n -> Int] /\ s[0] = 0
      /\ \A i \in 1..n : s[i] = s[i - 1] + bytes[i] * Power[i - 1]
  BY <1>2 DEF IsSum
<1>. HIDE DEF n
<1>. DEFINE Good(k) == /\ s[k] \in Nat /\ s[k] < Power[k]
                       /\ \A i \in 1..k : digit(s[k], i - 1) = bytes[i]
            S == {k \in Nat : k <= n => Good(k)}
<1>4. 0 \in S
  BY <1>3, PowerIs
<1>5. ASSUME NEW k \in Nat, k \in S  PROVE k + 1 \in S
  <2>1. SUFFICES ASSUME k + 1 <= n  PROVE Good(k + 1)
    OBVIOUS
  <2>2. k + 1 \in 1..n /\ (k + 1) - 1 = k /\ k <= n
    BY <1>1, <2>1
  <2>3. s[k] \in Nat /\ s[k] < Power[k] /\ \A i \in 1..k : digit(s[k], i - 1) = bytes[i]
    BY <1>5, <2>2
  <2>4. s[k + 1] = s[k] + bytes[k + 1] * Power[k] /\ bytes[k + 1] \in 0..(Base - 1)
    BY <1>1, <1>3, <2>2
  <2>5. /\ s[k + 1] \in Nat /\ s[k + 1] < Power[k + 1]
        /\ digit(s[k + 1], k) = bytes[k + 1]
        /\ \A i \in 0..(k - 1) : digit(s[k + 1], i) = digit(s[k], i)
    BY <2>3, <2>4, DigitInFront
  <2>6. ASSUME NEW i \in 1..(k + 1)  PROVE digit(s[k + 1], i - 1) = bytes[i]
    <3>1. CASE i = k + 1
      BY <2>2, <2>5, <3>1
    <3>2. CASE i # k + 1
      <4>1. i \in 1..k /\ i - 1 \in 0..(k - 1)
        BY <3>2
      <4>. QED  BY <2>3, <2>5, <4>1
    <3>. QED  BY <3>1, <3>2
  <2>. QED  BY <2>5, <2>6
<1>. HIDE DEF S
<1>6. \A k \in Nat : k \in S
  BY <1>4, <1>5, SetInduction
<1>7. Good(n)
  BY <1>1, <1>6 DEF S
<1>. QED  BY <1>2, <1>7 DEF n

\* Leading zeros make a number no larger (number).
LEMMA LeadingZeros ==
    ASSUME NEW bytes \in Seq(0..(Base - 1)), NEW n \in Nat, n <= Len(bytes),
           \A i \in (n + 1)..Len(bytes) : bytes[i] = 0
    PROVE  number(bytes) < Power[n]
<1>. DEFINE m == Len(bytes)
            v == number(bytes)
            w == v % Power[n]
<1>1. m \in Nat
  OBVIOUS
<1>2. v \in Nat /\ v < Power[m] /\ \A i \in 1..m : digit(v, i - 1) = bytes[i]
  BY DigitsOfNumber
<1>. HIDE DEF m, v
<1>3. w \in Nat /\ w \in 0..(Power[n] - 1)
  BY <1>2, RemType
<1>4. Power[n] \in Nat /\ Power[m] \in Nat /\ Power[n] <= Power[m]
  BY <1>1, PowerType, PowerGrows DEF m
<1>5. w < Power[n] /\ w < Power[m]
  BY <1>3, <1>4
<1>6. ASSUME NEW i \in 0..(m - 1)  PROVE digit(w, i) = digit(v, i)
  <2>1. i \in Nat /\ i + 1 \in 1..m /\ (i + 1) - 1 = i
    BY <1>1
  <2>2. CASE i < n
    BY <1>2, <2>1, <2>2, LowDigits
  <2>3. CASE n <= i
    <3>1. digit(w, i) = 0
      <4>. HIDE DEF w
      <4>. QED  BY <1>3, <1>5, <2>1, <2>3, NoDigits
    <3>2. i + 1 \in (n + 1)..m
      BY <2>1, <2>3
    <3>3. digit(v, i) = bytes[i + 1] /\ bytes[i + 1] = 0
      BY <1>2, <2>1, <3>2 DEF m
    <3>. QED  BY <3>1, <3>3
  <2>. QED  BY <2>1, <2>2, <2>3
<1>7. w = v
  <2>. HIDE DEF w
  <2>. QED  BY <1>1, <1>2, <1>3, <1>5, <1>6, DigitsPin
<1>. QED  BY <1>5, <1>7 DEF v

-----------------------------------------------------------------------------
\* What is padded or cut is a field element's bytes (resize).
LEMMA ResizeType ==
    ASSUME NEW bytes \in Seq(0..(Base - 1))
    PROVE  /\ resize(bytes) \in Seq(0..(Base - 1)) /\ Len(resize(bytes)) = FieldBytes
           /\ \A i \in 1..FieldBytes :
                 resize(bytes)[i] = IF i <= Len(bytes) THEN bytes[i] ELSE 0
<1>. DEFINE D == 0..(Base - 1)
<1>1. FieldBytes \in Nat /\ 0 \in D
  BY WireAssumption
<1>. HIDE DEF D
<1>2. bytes \in Seq(D)
  BY DEF D
<1>3. \A i \in 1..FieldBytes : i <= Len(bytes) => bytes[i] \in D
  BY <1>1, <1>2
<1>4. resize(bytes) \in [1..FieldBytes -> D]
  BY <1>1, <1>3 DEF resize
<1>5. resize(bytes) \in Seq(D) /\ Len(resize(bytes)) = FieldBytes
  BY <1>1, <1>4
<1>6. \A i \in 1..FieldBytes : resize(bytes)[i] = IF i <= Len(bytes) THEN bytes[i] ELSE 0
  BY DEF resize
<1>. QED  BY <1>5, <1>6 DEF D

\* A field element that is accepted is below P (field_from_le).
LEMMA FieldType ==
    ASSUME NEW bytes \in Seq(0..(Base - 1))
    PROVE  field_from_le(bytes) = Err \/ \E v \in 0..(P - 1) : field_from_le(bytes) = Ok(v)
<1>. DEFINE v == number(resize(bytes))
<1>1. v \in Nat
  BY ResizeType, DigitsOfNumber
<1>2. P \in Nat
  <2>1. Power[FieldBytes] \in Nat
    BY PowerType, WireAssumption
  <2>. QED  BY <2>1, WireAssumption
<1>3. field_from_le(bytes) = IF v < P THEN Ok(v) ELSE Err
  BY DEF field_from_le
<1>. HIDE DEF v
<1>4. v < P => v \in 0..(P - 1)
  BY <1>1, <1>2
<1>. QED  BY <1>3, <1>4

\* The digits of a field element are read back as it, though they are too few or too many
\* (field_from_le).
LEMMA FieldReads ==
    ASSUME NEW bytes \in Seq(0..(Base - 1)), NEW x \in 0..(P - 1), x < Power[Len(bytes)],
           \A i \in 1..Len(bytes) : bytes[i] = digit(x, i - 1)
    PROVE  field_from_le(bytes) = Ok(x)
<1>. DEFINE r == resize(bytes)
            m == Len(bytes)
<1>1. m \in Nat /\ FieldBytes \in Nat /\ Base \in Nat
  BY WireAssumption
<1>2. Power[FieldBytes] \in Nat /\ P \in 2..Power[FieldBytes]
  BY PowerType, WireAssumption
<1>3. x \in Nat /\ x < P /\ x < Power[FieldBytes]
  BY <1>2
<1>4. /\ r \in Seq(0..(Base - 1)) /\ Len(r) = FieldBytes
      /\ \A i \in 1..FieldBytes : r[i] = IF i <= m THEN bytes[i] ELSE 0
  BY ResizeType
<1>5. r \in Seq(Nat)
  <2>. DEFINE D == 0..(Base - 1)
  <2>1. \A b \in D : b \in Nat
    BY <1>1
  <2>. HIDE DEF D, r
  <2>2. r \in Seq(D)
    BY <1>4 DEF D
  <2>. QED  BY <2>1, <2>2
<1>. HIDE DEF r, m
<1>6. ASSUME NEW i \in 1..Len(r)  PROVE r[i] = digit(x, i - 1)
  <2>1. i \in 1..FieldBytes /\ i - 1 \in Nat
    BY <1>1, <1>4
  <2>2. CASE i <= m
    <3>1. i \in 1..m
      BY <1>1, <2>1, <2>2
    <3>. QED  BY <1>4, <2>1, <2>2, <3>1 DEF m
  <2>3. CASE ~(i <= m)
    <3>1. m <= i - 1
      BY <1>1, <2>1, <2>3
    <3>2. digit(x, i - 1) = 0
      BY <1>1, <1>3, <2>1, <3>1, NoDigits DEF m
    <3>. QED  BY <1>4, <2>1, <2>3, <3>2
  <2>. QED  BY <2>2, <2>3
<1>7. number(r) = x % Power[FieldBytes]
  BY <1>3, <1>4, <1>5, <1>6, NumberOfDigits
<1>8. x % Power[FieldBytes] = x
  BY <1>1, <1>3, RemType
<1>. QED  BY <1>3, <1>7, <1>8 DEF field_from_le, r

\* Of the bytes that are not cut nothing else is accepted (field_from_le).
LEMMA FieldIs ==
    ASSUME NEW bytes \in Seq(0..(Base - 1)), Len(bytes) <= FieldBytes,
           NEW x, field_from_le(bytes) = Ok(x)
    PROVE  /\ x \in 0..(P - 1) /\ x < Power[Len(bytes)]
           /\ \A i \in 1..Len(bytes) : bytes[i] = digit(x, i - 1)
<1>. DEFINE r == resize(bytes)
            m == Len(bytes)
            v == number(r)
<1>1. m \in Nat /\ FieldBytes \in Nat
  BY WireAssumption
<1>2. /\ r \in Seq(0..(Base - 1)) /\ Len(r) = FieldBytes
      /\ \A i \in 1..FieldBytes : r[i] = IF i <= m THEN bytes[i] ELSE 0
  BY ResizeType
<1>3. /\ v \in Nat /\ v < Power[Len(r)]
      /\ \A i \in 1..Len(r) : digit(v, i - 1) = r[i]
  <2>. HIDE DEF r
  <2>. QED  BY <1>2, DigitsOfNumber
<1>4. v = x /\ x < P
  <2>1. field_from_le(bytes) = IF v < P THEN Ok(v) ELSE Err
    BY DEF field_from_le
  <2>. HIDE DEF v
  <2>. QED  BY <2>1 DEF Ok, Err
<1>5. P \in Nat
  <2>1. Power[FieldBytes] \in Nat
    BY <1>1, PowerType
  <2>. QED  BY <2>1, WireAssumption
<1>6. v < Power[m]
  <2>. HIDE DEF m, r
  <2>1. m <= Len(r) /\ \A i \in (m + 1)..Len(r) : r[i] = 0
    BY <1>1, <1>2 DEF m
  <2>. QED  BY <1>1, <1>2, <2>1, LeadingZeros
<1>7. ASSUME NEW i \in 1..m  PROVE bytes[i] = digit(v, i - 1)
  <2>. HIDE DEF r, v
  <2>1. i \in 1..FieldBytes /\ i <= m
    BY <1>1
  <2>2. r[i] = bytes[i]
    <3>. HIDE DEF m
    <3>. QED  BY <1>2, <2>1
  <2>. QED  BY <1>2, <1>3, <2>1, <2>2
<1>. HIDE DEF v, m
<1>8. x \in 0..(P - 1)
  BY <1>3, <1>4, <1>5
<1>. QED  BY <1>4, <1>6, <1>7, <1>8 DEF m

-----------------------------------------------------------------------------
\* The bytes of a text of hex digits, the last one first (parse_field_be_hex).
LEMMA ReverseIs ==
    ASSUME NEW D, NEW s \in Seq(D)
    PROVE  /\ Reverse(s) \in Seq(D) /\ Len(Reverse(s)) = Len(s)
           /\ \A i \in 1..Len(s) : Reverse(s)[i] = s[(Len(s) - i) + 1]
<1>1. Len(s) \in Nat /\ \A i \in 1..Len(s) : s[(Len(s) - i) + 1] \in D
  <2>1. \A i \in 1..Len(s) : (Len(s) - i) + 1 \in 1..Len(s)
    OBVIOUS
  <2>. QED  BY <2>1
<1>2. Reverse(s) \in [1..Len(s) -> D]
  BY <1>1 DEF Reverse
<1>3. \A i \in 1..Len(s) : Reverse(s)[i] = s[(Len(s) - i) + 1]
  BY DEF Reverse
<1>. QED  BY <1>1, <1>2, <1>3

\* What a text of hex digits is read as is below P (be_hex).
LEMMA HexType ==
    ASSUME NEW json, IsScalar(json)
    PROVE  be_hex(json) = Err \/ \E v \in 0..(P - 1) : be_hex(json) = Ok(v)
<1>1. CASE json.type = "string" /\ json.hex
  <2>1. json.digits \in Seq(0..(Base - 1))
    BY <1>1 DEF IsScalar
  <2>2. Reverse(json.digits) \in Seq(0..(Base - 1))
    BY <2>1, ReverseIs
  <2>3. be_hex(json) = field_from_le(Reverse(json.digits))
    BY <1>1 DEF be_hex, parse_field_be_hex
  <2>. QED  BY <2>2, <2>3, FieldType
<1>2. CASE ~(json.type = "string" /\ json.hex)
  BY <1>2 DEF be_hex, parse_field_be_hex
<1>. QED  BY <1>1, <1>2

\* What was written in hex digits is read back (be_hex).
LEMMA HexReads ==
    ASSUME NEW json, IsScalar(json), json.type = "string",
           NEW x \in 0..(P - 1), WritesHex(json, x)
    PROVE  be_hex(json) = Ok(x)
<1>. DEFINE s == json.digits
            n == Len(s)
            r == Reverse(s)
<1>1. s \in Seq(0..(Base - 1)) /\ n \in Nat
  BY DEF IsScalar
<1>2. json.hex /\ x < Power[n] /\ \A i \in 1..n : s[i] = (x \div Power[n - i]) % Base
  BY DEF WritesHex
<1>3. be_hex(json) = field_from_le(r)
  BY <1>2 DEF be_hex, parse_field_be_hex
<1>. HIDE DEF s
<1>4. /\ r \in Seq(0..(Base - 1)) /\ Len(r) = n
      /\ \A i \in 1..n : r[i] = s[(n - i) + 1]
  BY <1>1, ReverseIs
<1>. HIDE DEF n, r
<1>5. ASSUME NEW i \in 1..Len(r)  PROVE r[i] = digit(x, i - 1)
  <2>1. i \in 1..n /\ (n - i) + 1 \in 1..n /\ n - ((n - i) + 1) = i - 1
    BY <1>1, <1>4
  <2>2. r[i] = s[(n - i) + 1]
    BY <1>4, <2>1
  <2>3. s[(n - i) + 1] = (x \div Power[n - ((n - i) + 1)]) % Base
    BY <1>2, <2>1
  <2>. QED  BY <2>1, <2>2, <2>3 DEF digit
<1>6. x < Power[Len(r)]
  BY <1>2, <1>4
<1>. QED  BY <1>3, <1>4, <1>5, <1>6, FieldReads

\* Of the texts of hex digits that are not cut nothing else is accepted (be_hex).
LEMMA HexIs ==
    ASSUME NEW json, IsScalar(json), ShortScalar(json), NEW x, be_hex(json) = Ok(x)
    PROVE  x \in 0..(P - 1) /\ json.type = "string" /\ WritesHex(json, x)
<1>. DEFINE s == json.digits
            n == Len(s)
            r == Reverse(s)
<1>1. json.type = "string" /\ json.hex /\ field_from_le(r) = Ok(x)
  BY DEF be_hex, parse_field_be_hex, Ok, Err
<1>2. s \in Seq(0..(Base - 1)) /\ n \in Nat /\ n <= FieldBytes
  BY <1>1 DEF IsScalar, ShortScalar
<1>. HIDE DEF s
<1>3. /\ r \in Seq(0..(Base - 1)) /\ Len(r) = n
      /\ \A i \in 1..n : r[i] = s[(n - i) + 1]
  BY <1>2, ReverseIs
<1>. HIDE DEF r
<1>4. /\ x \in 0..(P - 1) /\ x < Power[Len(r)]
      /\ \A i \in 1..Len(r) : r[i] = digit(x, i - 1)
  <2>1. Len(r) <= FieldBytes
    BY <1>2, <1>3
  <2>. QED  BY <1>1, <1>3, <2>1, FieldIs
<1>. HIDE DEF n
<1>5. ASSUME NEW i \in 1..n  PROVE s[i] = (x \div Power[n - i]) % Base
  <2>1. /\ (n - i) + 1 \in 1..n /\ (n - ((n - i) + 1)) + 1 = i
        /\ ((n - i) + 1) - 1 = n - i
    BY <1>2
  <2>2. r[(n - i) + 1] = s[i]
    BY <1>3, <2>1
  <2>3. r[(n - i) + 1] = digit(x, n - i)
    BY <1>3, <1>4, <2>1
  <2>. QED  BY <2>2, <2>3 DEF digit
<1>6. WritesHex(json, x)
  BY <1>1, <1>3, <1>4, <1>5 DEF WritesHex, s, n
<1>. QED  BY <1>1, <1>4, <1>6

-----------------------------------------------------------------------------
\* A point is an array of scalars (affine).
IsPoint(json) == json.type = "array" =>
                   /\ DOMAIN json.items = 1..Len(json.items) /\ Len(json.items) \in Nat
                   /\ \A i \in DOMAIN json.items : IsScalar(json.items[i])

\* What a point is read as is a pair of field elements (affine).
LEMMA PointType ==
    ASSUME NEW json, IsPoint(json)
    PROVE  \/ affine(json) = Err
           \/ \E v \in (0..(P - 1)) \X (0..(P - 1)) : affine(json) = Ok(v)
<1>1. CASE json.type = "array" /\ Len(json.items) = 2
  <2>. DEFINE x == be_hex(json.items[1])
              y == be_hex(json.items[2])
  <2>1. IsScalar(json.items[1]) /\ IsScalar(json.items[2])
    BY <1>1 DEF IsPoint
  <2>2. /\ x = Err \/ \E v \in 0..(P - 1) : x = Ok(v)
        /\ y = Err \/ \E v \in 0..(P - 1) : y = Ok(v)
    BY <2>1, HexType
  <2>3. affine(json) = IF x.state = "ok" /\ y.state = "ok" THEN Ok(<<x.value, y.value>>) ELSE Err
    BY <1>1 DEF affine
  <2>. HIDE DEF x, y
  <2>4. CASE x.state = "ok" /\ y.state = "ok"
    <3>1. x.value \in 0..(P - 1) /\ y.value \in 0..(P - 1)
      BY <2>2, <2>4 DEF Ok, Err
    <3>. QED  BY <2>3, <2>4, <3>1
  <2>. QED  BY <2>3, <2>4
<1>2. CASE ~(json.type = "array" /\ Len(json.items) = 2)
  BY <1>2 DEF affine
<1>. QED  BY <1>1, <1>2

\* A point is read back as the pair that was written (affine).
LEMMA PointReads ==
    ASSUME NEW json, IsPoint(json), json.type = "array", Len(json.items) = 2,
           NEW v \in (0..(P - 1)) \X (0..(P - 1)),
           \A i \in 1..2 : json.items[i].type = "string" /\ WritesHex(json.items[i], v[i])
    PROVE  affine(json) = Ok(v)
<1>1. ASSUME NEW i \in 1..2  PROVE be_hex(json.items[i]) = Ok(v[i])
  <2>1. IsScalar(json.items[i])
    BY DEF IsPoint
  <2>2. v[i] \in 0..(P - 1)
    OBVIOUS
  <2>. QED  BY <2>1, <2>2, HexReads
<1>2. v = <<v[1], v[2]>>
  OBVIOUS
<1>3. be_hex(json.items[1]) = Ok(v[1]) /\ be_hex(json.items[2]) = Ok(v[2])
  BY <1>1
<1>. QED  BY <1>2, <1>3 DEF affine, Ok

\* Nothing else is accepted as a point (affine).
LEMMA PointIs ==
    ASSUME NEW json, IsPoint(json), NEW v, affine(json) = Ok(v),
           json.type = "array" => \A i \in DOMAIN json.items : ShortScalar(json.items[i])
    PROVE  /\ json.type = "array" /\ Len(json.items) = 2
           /\ \A i \in 1..2 : json.items[i].type = "string" /\ WritesHex(json.items[i], v[i])
<1>. DEFINE x == be_hex(json.items[1])
            y == be_hex(json.items[2])
<1>1. json.type = "array" /\ Len(json.items) = 2
  BY DEF affine, Ok, Err
<1>2. affine(json) = IF x.state = "ok" /\ y.state = "ok" THEN Ok(<<x.value, y.value>>) ELSE Err
  BY <1>1 DEF affine
<1>3. IsScalar(json.items[1]) /\ IsScalar(json.items[2])
      /\ ShortScalar(json.items[1]) /\ ShortScalar(json.items[2])
  BY <1>1 DEF IsPoint
<1>4. /\ x = Err \/ \E u \in 0..(P - 1) : x = Ok(u)
      /\ y = Err \/ \E u \in 0..(P - 1) : y = Ok(u)
  BY <1>3, HexType
<1>5. x = Ok(v[1]) /\ y = Ok(v[2])
  <2>. HIDE DEF x, y
  <2>1. x.state = "ok" /\ y.state = "ok" /\ v = <<x.value, y.value>>
    BY <1>2 DEF Ok, Err
  <2>. QED  BY <1>4, <2>1 DEF Ok, Err
<1>6. /\ json.items[1].type = "string" /\ WritesHex(json.items[1], v[1])
      /\ json.items[2].type = "string" /\ WritesHex(json.items[2], v[2])
  BY <1>3, <1>5, HexIs
<1>. QED  BY <1>1, <1>6

-----------------------------------------------------------------------------
\* Half of the values of a limb are below its sign bit (Int64).
LEMMA LimbHalf ==
    /\ LimbValues \in Nat \ {0} /\ LimbValues \div 2 \in Nat \ {0}
    /\ LimbValues = 2 * (LimbValues \div 2)
<1>. DEFINE h == Base \div 2
            p == Power[LimbBytes - 1]
<1>1. Base \in Nat \ {0} /\ Base % 2 = 0 /\ LimbBytes \in Nat \ {0}
  BY WireAssumption
<1>2. h \in Int /\ Base = 2 * h
  BY <1>1
<1>. HIDE DEF h
<1>3. LimbBytes - 1 \in Nat /\ (LimbBytes - 1) + 1 = LimbBytes
  BY <1>1
<1>4. p \in Nat \ {0} /\ LimbValues = Base * p
  BY <1>3, PowerIs, PowerType DEF LimbValues
<1>. HIDE DEF p
<1>5. h \in Nat \ {0}
  BY <1>1, <1>2
<1>6. h * p \in Nat \ {0} /\ (2 * h) * p = 2 * (h * p)
  BY <1>4, <1>5
<1>. DEFINE hp == h * p
<1>7. LimbValues = 2 * hp + 0 /\ hp \in Nat \ {0}
  BY <1>2, <1>4, <1>6
<1>. HIDE DEF hp
<1>8. LimbValues \div 2 = hp
  BY <1>7
<1>. QED  BY <1>7, <1>8

\* A limb as a signed number (Int64), and the number `as u64` makes of it again.
LEMMA SignedIs ==
    ASSUME NEW u \in 0..(LimbValues - 1)
    PROVE  Signed(u) \in Int64 /\ Signed(u) % LimbValues = u
<1>. DEFINE L == LimbValues
            H == L \div 2
<1>1. L \in Nat \ {0} /\ H \in Nat \ {0} /\ L = 2 * H
  BY LimbHalf
<1>2. Signed(u) = IF u >= H THEN u - L ELSE u
  BY DEF Signed
<1>3. Int64 = (-H)..(H - 1)
  BY DEF Int64
<1>. HIDE DEF H, L
<1>4. u \in 0..(L - 1)
  BY DEF L
<1>5. Signed(u) \in Int64
  BY <1>1, <1>2, <1>3, <1>4
<1>6. u % L = u
  BY <1>1, <1>4, ModSmall
<1>7. (u - L) % L = u
  <2>1. u \in Int
    BY <1>1, <1>4
  <2>2. (u - L) % L = u % L
    BY <1>1, <2>1, ModShift
  <2>. QED  BY <1>6, <2>2
<1>. QED  BY <1>2, <1>5, <1>6, <1>7 DEF L

\* No two signed numbers have the same bytes (limb_bytes).
LEMMA SignedOf ==
    ASSUME NEW v \in Int64
    PROVE  v \in Int /\ v % LimbValues \in 0..(LimbValues - 1) /\ Signed(v % LimbValues) = v
<1>. DEFINE L == LimbValues
            H == L \div 2
<1>1. L \in Nat \ {0} /\ H \in Nat \ {0} /\ L = 2 * H
  BY LimbHalf
<1>2. \A u : Signed(u) = IF u >= H THEN u - L ELSE u
  BY DEF Signed
<1>3. v \in (-H)..(H - 1)
  BY DEF Int64
<1>. HIDE DEF H, L
<1>4. v \in Int /\ v % L \in 0..(L - 1)
  <2>1. v \in Int
    BY <1>1, <1>3
  <2>. QED  BY <1>1, <2>1, DivMod
<1>5. CASE v >= 0
  <2>1. v \in 0..(L - 1)
    BY <1>1, <1>3, <1>5
  <2>2. v % L = v
    BY <1>1, <2>1, ModSmall
  <2>3. ~(v >= H)
    BY <1>1, <1>3
  <2>. QED  BY <1>2, <1>4, <2>2, <2>3 DEF L
<1>6. CASE v < 0
  <2>1. v + L \in 0..(L - 1) /\ v + L >= H
    BY <1>1, <1>3, <1>6
  <2>2. (v + L) % L = v + L
    BY <1>1, <2>1, ModSmall
  <2>3. (v + L) % L = v % L
    BY <1>1, <1>4, ModShift
  <2>4. (v + L) - L = v
    BY <1>1, <1>4
  <2>. QED  BY <1>2, <1>4, <2>1, <2>2, <2>3, <2>4 DEF L
<1>. QED  BY <1>4, <1>5, <1>6

\* The bytes of a limb are the digits of its value as an unsigned number (limb_bytes).
LEMMA LimbBytesAre ==
    ASSUME NEW v \in Int64
    PROVE  /\ limb_bytes(v) \in Seq(0..(Base - 1)) /\ Len(limb_bytes(v)) = LimbBytes
           /\ \A j \in 1..LimbBytes : limb_bytes(v)[j] = digit(v % LimbValues, j - 1)
<1>. DEFINE w == v % LimbValues
            D == 0..(Base - 1)
<1>1. LimbBytes \in Nat
  BY WireAssumption
<1>2. w \in Nat
  BY SignedOf, LimbHalf
<1>3. limb_bytes(v) = [j \in 1..LimbBytes |-> digit(w, j - 1)]
  BY DEF limb_bytes, digit
<1>. HIDE DEF w
<1>4. ASSUME NEW j \in 1..LimbBytes  PROVE digit(w, j - 1) \in D
  <2>1. j - 1 \in Nat
    BY <1>1
  <2>. QED  BY <1>2, <2>1, DigitType
<1>. HIDE DEF D
<1>5. limb_bytes(v) \in [1..LimbBytes -> D]
  BY <1>3, <1>4
<1>6. limb_bytes(v) \in Seq(D) /\ Len(limb_bytes(v)) = LimbBytes
  BY <1>1, <1>5
<1>7. \A j \in 1..LimbBytes : limb_bytes(v)[j] = digit(w, j - 1)
  BY <1>3
<1>. QED  BY <1>6, <1>7 DEF D, w

\* The k-th limb of a number (WritesLimbs).
limb(x, k) == (x \div Power[LimbBytes * (k - 1)]) % LimbValues

\* Its digits are digits of the number (limb_bytes).
LEMMA LimbDigits ==
    ASSUME NEW x \in Nat, NEW k \in Nat \ {0}
    PROVE  /\ limb(x, k) \in 0..(LimbValues - 1)
           /\ \A j \in 1..LimbBytes : digit(limb(x, k), j - 1)
                                       = digit(x, (LimbBytes * (k - 1) + j) - 1)
<1>. DEFINE m == LimbBytes * (k - 1)
            q == x \div Power[m]
<1>1. LimbBytes \in Nat /\ m \in Nat
  <2>1. LimbBytes \in Nat /\ k - 1 \in Nat
    BY WireAssumption
  <2>. QED  BY <2>1
<1>2. limb(x, k) = q % Power[LimbBytes]
  BY DEF limb, LimbValues
<1>. HIDE DEF m
<1>3. q \in Nat
  BY <1>1, DigitType
<1>4. limb(x, k) \in 0..(LimbValues - 1)
  <2>. HIDE DEF q
  <2>. QED  BY <1>1, <1>2, <1>3, RemType DEF LimbValues
<1>5. ASSUME NEW j \in 1..LimbBytes  PROVE digit(limb(x, k), j - 1) = digit(x, (m + j) - 1)
  <2>1. j - 1 \in Nat /\ j - 1 < LimbBytes /\ m + (j - 1) = (m + j) - 1
    BY <1>1
  <2>2. digit(limb(x, k), j - 1) = digit(q, j - 1)
    <3>. HIDE DEF q
    <3>. QED  BY <1>1, <1>2, <1>3, <2>1, LowDigits
  <2>3. digit(q, j - 1) = digit(x, m + (j - 1))
    BY <1>1, <2>1, HighDigits
  <2>. QED  BY <2>1, <2>2, <2>3
<1>. QED  BY <1>4, <1>5 DEF m

\* Each byte belongs to one limb (combine_limbs_le).
LEMMA Place ==
    ASSUME NEW n \in Nat, NEW i \in 1..(LimbBytes * n)
    PROVE  \E k \in 1..n, j \in 1..LimbBytes : i = LimbBytes * (k - 1) + j
<1>. DEFINE b == LimbBytes
            q == (i - 1) \div b
            r == (i - 1) % b
<1>1. b \in Nat \ {0} /\ b * n \in Nat
  <2>1. b \in Nat \ {0}
    BY WireAssumption
  <2>. HIDE DEF b
  <2>. QED  BY <2>1
<1>2. i \in 1..(b * n)
  OBVIOUS
<1>. HIDE DEF b
<1>3. i - 1 \in Nat /\ i - 1 < b * n
  BY <1>1, <1>2
<1>4. q \in Nat /\ r \in 0..(b - 1) /\ i - 1 = b * q + r
  <2>. DEFINE x == i - 1
  <2>1. x \in Nat
    BY <1>3
  <2>. HIDE DEF x
  <2>2. x \in Int
    BY <2>1
  <2>3. x \div b \in Nat
    BY <1>1, <2>1, DivNat
  <2>4. x % b \in 0..(b - 1) /\ x = b * (x \div b) + (x % b)
    BY <1>1, <2>2, DivMod
  <2>. QED  BY <2>3, <2>4 DEF x
<1>. HIDE DEF q, r
<1>5. q < n
  <2>1. SUFFICES ASSUME n <= q PROVE FALSE
    BY <1>4
  <2>2. b * n <= b * q /\ b * q \in Int
    BY <1>1, <1>4, <2>1, Times
  <2>. QED  BY <1>1, <1>3, <1>4, <2>2
<1>6. q + 1 \in 1..n /\ r + 1 \in 1..b /\ (q + 1) - 1 = q
  BY <1>1, <1>4, <1>5
<1>7. i = b * q + (r + 1)
  <2>1. b * q \in Int
    BY <1>1, <1>4
  <2>. QED  BY <1>1, <1>2, <1>4, <2>1
<1>. QED  BY <1>6, <1>7 DEF b

-----------------------------------------------------------------------------
\* The bytes of the first n limbs, one limb after the other (combine_limbs_le).
Collected(items, n, bytes) ==
    /\ n \in 0..Len(items) /\ \A k \in 1..n : items[k] \in Int64
    /\ bytes \in Seq(0..(Base - 1)) /\ Len(bytes) = LimbBytes * n
    /\ \A k \in 1..n, j \in 1..LimbBytes :
          bytes[LimbBytes * (k - 1) + j] = limb_bytes(items[k])[j]

\* One limb more (combine_limbs_le).
LEMMA CollectOne ==
    ASSUME NEW items \in Seq(Int), NEW n \in Nat, NEW bytes, Collected(items, n, bytes),
           n < Len(items), items[n + 1] \in Int64
    PROVE  Collected(items, n + 1, bytes \o limb_bytes(items[n + 1]))
<1>. DEFINE D == 0..(Base - 1)
            b == LimbBytes
            l == limb_bytes(items[n + 1])
            c == bytes \o l
<1>1. b \in Nat \ {0} /\ Len(items) \in Nat
  BY WireAssumption
<1>2. /\ n \in 0..Len(items) /\ \A k \in 1..n : items[k] \in Int64
      /\ bytes \in Seq(D) /\ Len(bytes) = b * n
      /\ \A k \in 1..n, j \in 1..b : bytes[b * (k - 1) + j] = limb_bytes(items[k])[j]
  BY DEF Collected
<1>3. l \in Seq(D) /\ Len(l) = b
  BY LimbBytesAre
<1>. HIDE DEF D, b, l
<1>4. b * n \in Nat /\ b * (n + 1) = b * n + b
  BY <1>1
<1>5. c \in Seq(D) /\ Len(c) = b * (n + 1)
  BY <1>2, <1>3, <1>4
<1>6. /\ \A i \in 1..(b * n) : c[i] = bytes[i]
      /\ \A j \in 1..b : c[b * n + j] = l[j]
  <2>. DEFINE m == b * n
  <2>1. m \in Nat /\ Len(bytes) = m /\ b \in Nat
    BY <1>1, <1>2, <1>4
  <2>. HIDE DEF m
  <2>2. \A i \in 1..m : c[i] = bytes[i]
    BY <1>2, <1>3, <2>1
  <2>3. ASSUME NEW j \in 1..b  PROVE c[m + j] = l[j]
    <3>1. m + j \in 1..(m + b) /\ ~(m + j <= m) /\ (m + j) - m = j
      BY <2>1
    <3>2. \A i \in 1..(m + b) : c[i] = IF i <= m THEN bytes[i] ELSE l[i - m]
      <4>1. \A i \in 1..(Len(bytes) + Len(l)) :
               c[i] = IF i <= Len(bytes) THEN bytes[i] ELSE l[i - Len(bytes)]
        BY <1>2, <1>3, ConcatProperties
      <4>. HIDE DEF c
      <4>. QED  BY <1>3, <2>1, <4>1
    <3>. HIDE DEF c
    <3>. QED  BY <3>1, <3>2
  <2>. QED  BY <2>2, <2>3 DEF m
<1>. HIDE DEF c
<1>7. ASSUME NEW k \in 1..(n + 1), NEW j \in 1..b
      PROVE  c[b * (k - 1) + j] = limb_bytes(items[k])[j]
  <2>1. CASE k = n + 1
    <3>1. k - 1 = n
      BY <2>1
    <3>. QED  BY <1>6, <2>1, <3>1 DEF l
  <2>2. CASE k # n + 1
    <3>1. k \in 1..n /\ k - 1 \in Nat /\ k <= n
      BY <2>2
    <3>2. b * k <= b * n /\ b * k = b * (k - 1) + b /\ b * (k - 1) \in Nat
      <4>1. b * k <= b * n
        BY <1>1, <3>1, Times
      <4>. QED  BY <1>1, <3>1, <4>1
    <3>3. b * (k - 1) + j \in 1..(b * n)
      BY <1>1, <1>4, <3>2
    <3>4. bytes[b * (k - 1) + j] = limb_bytes(items[k])[j]
      BY <1>2, <3>1
    <3>. QED  BY <1>6, <3>3, <3>4
  <2>. QED  BY <2>1, <2>2
<1>8. n + 1 \in 0..Len(items) /\ \A k \in 1..(n + 1) : items[k] \in Int64
  <2>1. ASSUME NEW k \in 1..(n + 1)  PROVE items[k] \in Int64
    <3>1. k = n + 1 \/ k \in 1..n
      OBVIOUS
    <3>. QED  BY <1>2, <3>1
  <2>. QED  BY <1>1, <2>1
<1>9. Collected(items, n + 1, c)
  BY <1>5, <1>7, <1>8 DEF Collected, D, b
<1>. QED  BY <1>9 DEF c, l

\* The limbs of a number are read back as it (combine_limbs_le).
LEMMA LimbsRead ==
    ASSUME NEW items \in Seq(Int), NEW bytes, Collected(items, Len(items), bytes),
           NEW x \in 0..(P - 1), WritesLimbs(items, x)
    PROVE  field_from_le(bytes) = Ok(x)
<1>. DEFINE n == Len(items)
<1>1. /\ n \in Nat /\ \A k \in 1..n : items[k] \in Int64
      /\ bytes \in Seq(0..(Base - 1)) /\ Len(bytes) = LimbBytes * n
      /\ \A k \in 1..n, j \in 1..LimbBytes :
            bytes[LimbBytes * (k - 1) + j] = limb_bytes(items[k])[j]
  BY DEF Collected
<1>2. x < Power[LimbBytes * n] /\ \A k \in 1..n : items[k] = Signed(limb(x, k))
  BY DEF WritesLimbs, limb
<1>3. x \in Nat
  OBVIOUS
<1>. HIDE DEF n
<1>4. ASSUME NEW i \in 1..Len(bytes)  PROVE bytes[i] = digit(x, i - 1)
  <2>1. PICK k \in 1..n, j \in 1..LimbBytes : i = LimbBytes * (k - 1) + j
    <3>1. i \in 1..(LimbBytes * n)
      BY <1>1
    <3>. QED  BY <1>1, <3>1, Place
  <2>2. k \in Nat \ {0}
    BY <1>1
  <2>3. bytes[i] = limb_bytes(items[k])[j]
    BY <1>1, <2>1
  <2>4. limb_bytes(items[k])[j] = digit(items[k] % LimbValues, j - 1)
    BY <1>1, LimbBytesAre
  <2>5. limb(x, k) \in 0..(LimbValues - 1) /\ digit(limb(x, k), j - 1) = digit(x, i - 1)
    BY <1>3, <2>1, <2>2, LimbDigits
  <2>6. items[k] % LimbValues = limb(x, k)
    BY <1>2, <2>5, SignedIs
  <2>. QED  BY <2>3, <2>4, <2>5, <2>6
<1>5. x < Power[Len(bytes)]
  BY <1>1, <1>2
<1>. QED  BY <1>1, <1>4, <1>5, FieldReads

\* Of the limbs that are not cut nothing else is accepted (combine_limbs_le).
LEMMA LimbsAre ==
    ASSUME NEW items \in Seq(Int), NEW bytes, Collected(items, Len(items), bytes),
           LimbBytes * Len(items) <= FieldBytes, NEW x, field_from_le(bytes) = Ok(x)
    PROVE  WritesLimbs(items, x)
<1>. DEFINE n == Len(items)
<1>1. /\ n \in Nat /\ \A k \in 1..n : items[k] \in Int64
      /\ bytes \in Seq(0..(Base - 1)) /\ Len(bytes) = LimbBytes * n
      /\ \A k \in 1..n, j \in 1..LimbBytes :
            bytes[LimbBytes * (k - 1) + j] = limb_bytes(items[k])[j]
  BY DEF Collected
<1>2. /\ x \in 0..(P - 1) /\ x < Power[Len(bytes)]
      /\ \A i \in 1..Len(bytes) : bytes[i] = digit(x, i - 1)
  <2>1. Len(bytes) <= FieldBytes
    BY <1>1
  <2>. QED  BY <1>1, <2>1, FieldIs
<1>3. x \in Nat /\ LimbBytes \in Nat \ {0} /\ DOMAIN items = 1..n
  BY <1>2, WireAssumption
<1>. HIDE DEF n
<1>4. ASSUME NEW k \in 1..n  PROVE items[k] = Signed(limb(x, k))
  <2>. DEFINE w == items[k] % LimbValues
              u == limb(x, k)
  <2>1. k \in Nat \ {0} /\ k - 1 \in Nat /\ k <= n
    BY <1>1
  <2>2. w \in 0..(LimbValues - 1) /\ Signed(w) = items[k]
    BY <1>1, SignedOf
  <2>3. u \in 0..(LimbValues - 1)
    BY <1>3, <2>1, LimbDigits
  <2>4. ASSUME NEW i \in 0..(LimbBytes - 1)  PROVE digit(w, i) = digit(u, i)
    <3>. DEFINE j == i + 1
                p == LimbBytes * (k - 1) + j
    <3>1. j \in 1..LimbBytes /\ j - 1 = i
      BY <1>3
    <3>2. p \in 1..Len(bytes)
      <4>1. LimbBytes * k <= LimbBytes * n /\ LimbBytes * n \in Int
        BY <1>1, <1>3, <2>1, Times
      <4>. DEFINE e == LimbBytes * (k - 1)
      <4>2. LimbBytes * k = e + LimbBytes /\ e \in Nat
        BY <1>3, <2>1
      <4>. HIDE DEF e
      <4>3. e + LimbBytes <= Len(bytes) /\ Len(bytes) \in Nat
        BY <1>1, <4>1, <4>2
      <4>4. e + j \in 1..Len(bytes)
        BY <1>3, <3>1, <4>2, <4>3
      <4>. QED  BY <4>4 DEF e
    <3>3. bytes[p] = limb_bytes(items[k])[j]
      BY <1>1, <3>1
    <3>4. limb_bytes(items[k])[j] = digit(w, j - 1)
      BY <1>1, <3>1, LimbBytesAre
    <3>5. digit(u, j - 1) = digit(x, p - 1)
      BY <1>3, <2>1, <3>1, LimbDigits
    <3>6. bytes[p] = digit(x, p - 1)
      BY <1>2, <3>2
    <3>. HIDE DEF j, p, w, u
    <3>. QED  BY <3>1, <3>3, <3>4, <3>5, <3>6
  <2>. HIDE DEF w, u
  <2>5. w \in Nat /\ u \in Nat /\ w < Power[LimbBytes] /\ u < Power[LimbBytes]
    BY <2>2, <2>3, LimbHalf DEF LimbValues
  <2>6. w = u
    BY <1>3, <2>4, <2>5, DigitsPin
  <2>. QED  BY <2>2, <2>6 DEF u
<1>. QED  BY <1>1, <1>2, <1>3, <1>4 DEF WritesLimbs, limb, n

-----------------------------------------------------------------------------
\* What was collected, and what each reader makes of it (challenge, as_vec, combine_limbs_le,
\* parse_field_be_hex, affine).
LimbText == HasLimbs(text.reader, text.json)
Progress == IF LimbText THEN Collected(text.json.items, pos, le) ELSE pos = 0 /\ le = <<>>
Returns ==
    \/ result = Reading
    \/ LimbText /\ result = Err
       /\ \E i \in DOMAIN text.json.items : text.json.items[i] \notin Int64
    \/ LimbText /\ result = field_from_le(le) /\ pos = Len(text.json.items)
    \/ ~LimbText /\ result = Err /\ text.reader \in {"challenge", "digest"}
    \/ text.reader = "be_hex" /\ result = be_hex(text.json)
    \/ text.reader = "affine" /\ result = affine(text.json)

\* The inductive invariant: the bytes are those of the limbs that are done, and the result is
\* what the reader makes of all of them (combine_limbs_le, challenge, affine).
IInv == text \in Texts /\ Progress /\ Returns

\* Each reader finds parts of the kind it looks for (challenge, as_vec, be_hex, affine).
LEMMA TextIs ==
    ASSUME text \in Texts
    PROVE  /\ text.reader \in {"challenge", "digest", "be_hex", "affine"}
           /\ LimbText => /\ text.reader \in {"challenge", "digest"}
                       /\ text.json.items \in Seq(Int)
           /\ text.reader = "be_hex" => IsScalar(text.json)
           /\ text.reader = "affine" => IsPoint(text.json)
  BY TextsAssumption DEF LimbText, HasLimbs, IsPoint

\* No limb is collected before the first (combine_limbs_le).
LEMMA Initially == Init => IInv
<1>. SUFFICES ASSUME Init PROVE IInv
  OBVIOUS
<1>1. text \in Texts /\ le = <<>> /\ pos = 0 /\ result = Reading
  BY DEF Init
<1>2. LimbText => Collected(text.json.items, pos, le)
  <2>1. SUFFICES ASSUME LimbText PROVE Collected(text.json.items, 0, <<>>)
    BY <1>1
  <2>2. text.json.items \in Seq(Int)
    BY <1>1, <2>1, TextIs
  <2>3. LimbBytes \in Nat
    BY WireAssumption
  <2>. DEFINE D == 0..(Base - 1)
  <2>4. <<>> \in Seq(D) /\ Len(<<>>) = LimbBytes * 0
    BY <2>3
  <2>. QED  BY <2>2, <2>4 DEF Collected
<1>. QED  BY <1>1, <1>2 DEF IInv, Progress, Returns

\* Each iteration appends the bytes of one limb, and the reader that is done returns what it
\* has read (combine_limbs_le).
LEMMA Inductive == IInv /\ [Next]_vars => IInv'
<1>. SUFFICES ASSUME IInv, [Next]_vars PROVE IInv'
  OBVIOUS
<1>1. text \in Texts /\ Progress /\ Returns
  BY DEF IInv
<1>. DEFINE items == text.json.items
<1>2. CASE Limb
  <2>1. /\ LimbText /\ pos < Len(items) /\ text' = text /\ result = Reading
        /\ \/ items[pos + 1] \in Int64 /\ le' = le \o limb_bytes(items[pos + 1])
              /\ pos' = pos + 1 /\ result' = result
           \/ items[pos + 1] \notin Int64 /\ result' = Err /\ le' = le /\ pos' = pos
    BY <1>2 DEF Limb, LimbText
  <2>2. items \in Seq(Int) /\ Collected(items, pos, le) /\ pos \in Nat
    BY <1>1, <2>1, TextIs DEF Progress, Collected
  <2>3. LimbText' = LimbText
    BY <2>1 DEF LimbText
  <2>4. CASE items[pos + 1] \in Int64
    <3>1. Collected(items, pos + 1, le \o limb_bytes(items[pos + 1]))
      BY <2>1, <2>2, <2>4, CollectOne
    <3>2. Progress'
      BY <2>1, <2>3, <2>4, <3>1 DEF Progress
    <3>. QED  BY <1>1, <2>1, <2>3, <2>4, <3>2 DEF IInv, Returns
  <2>5. CASE items[pos + 1] \notin Int64
    <3>1. pos + 1 \in DOMAIN items
      BY <2>1, <2>2
    <3>2. Progress'
      BY <1>1, <2>1, <2>3, <2>5 DEF Progress
    <3>3. Returns'
      BY <2>1, <2>3, <2>5, <3>1 DEF Returns
    <3>. QED  BY <1>1, <2>1, <3>2, <3>3 DEF IInv
  <2>. QED  BY <2>4, <2>5
<1>3. CASE UNCHANGED <<text, le, pos>> /\ Returns'
  <2>1. LimbText' = LimbText
    BY <1>3 DEF LimbText
  <2>. QED  BY <1>1, <1>3, <2>1 DEF IInv, Progress
<1>4. CASE LimbsDone
  BY <1>3, <1>4 DEF LimbsDone, Returns, LimbText
<1>5. CASE NoLimbs
  BY <1>3, <1>5 DEF NoLimbs, Returns, LimbText
<1>6. CASE ReadHex
  BY <1>3, <1>6 DEF ReadHex, Returns
<1>7. CASE ReadPoint
  BY <1>3, <1>7 DEF ReadPoint, Returns
<1>8. CASE UNCHANGED vars
  BY <1>1, <1>3, <1>8 DEF vars, Returns, LimbText
<1>. QED  BY <1>2, <1>4, <1>5, <1>6, <1>7, <1>8 DEF Next

\* It holds in every run of the reader.
LEMMA Invariance == Spec => []IInv
<1>. QED  BY Initially, Inductive, PTL DEF Spec

-----------------------------------------------------------------------------
\* What a reader accepts is of the kind that it reads.
LEMMA ReturnsType ==
    ASSUME IInv
    PROVE  \/ result \in {Reading, Err}
           \/ text.reader # "affine" /\ \E v \in 0..(P - 1) : result = Ok(v)
           \/ text.reader = "affine" /\ \E v \in (0..(P - 1)) \X (0..(P - 1)) : result = Ok(v)
<1>1. text \in Texts /\ Progress /\ Returns
  BY DEF IInv
<1>2. CASE LimbText /\ result = field_from_le(le)
  <2>1. le \in Seq(0..(Base - 1)) /\ text.reader # "affine"
    BY <1>1, <1>2, TextIs DEF Progress, Collected
  <2>. QED  BY <1>2, <2>1, FieldType
<1>3. CASE result = be_hex(text.json) /\ text.reader = "be_hex"
  BY <1>1, <1>3, TextIs, HexType
<1>4. CASE result = affine(text.json) /\ text.reader = "affine"
  BY <1>1, <1>4, TextIs, PointType
<1>. QED  BY <1>1, <1>2, <1>3, <1>4 DEF Returns

\* In every run and for every text, what is collected is bytes, as many as the limbs that are
\* done have, and what is accepted is a canonical field element, or a pair of them
\* (combine_limbs_le, field_from_le, affine).
THEOREM CanonicalFieldElements == Spec => []TypeOK
<1>1. IInv => TypeOK
  <2>. SUFFICES ASSUME IInv PROVE TypeOK
    OBVIOUS
  <2>1. text \in Texts /\ Progress
    BY DEF IInv
  <2>2. text.reader \in {"challenge", "digest", "be_hex", "affine"}
    BY <2>1, TextIs
  <2>3. le \in Seq(0..(Base - 1)) /\ Len(le) = LimbBytes * pos
    <3>1. CASE LimbText
      BY <2>1, <3>1 DEF Progress, Collected
    <3>2. CASE ~LimbText
      <4>1. LimbBytes \in Nat
        BY WireAssumption
      <4>. DEFINE D == 0..(Base - 1)
      <4>2. <<>> \in Seq(D) /\ Len(<<>>) = LimbBytes * 0
        BY <4>1
      <4>. QED  BY <2>1, <3>2, <4>2 DEF Progress
    <3>. QED  BY <3>1, <3>2
  <2>4. \/ result \in {Reading, Err}
        \/ result.state = "ok" /\ IF text.reader = "affine"
                                  THEN result.value \in (0..(P - 1)) \X (0..(P - 1))
                                  ELSE result.value \in 0..(P - 1)
    BY ReturnsType DEF Ok
  <2>. QED  BY <2>2, <2>3, <2>4 DEF TypeOK
<1>. QED  BY <1>1, Invariance, PTL

\* What the OCaml side wrote is what the reader returns (combine_limbs_le,
\* parse_field_be_hex, affine).
LEMMA WrittenIsRead ==
    ASSUME IInv, result # Reading, NEW v \in Values(text), Writes(text, v)
    PROVE  result = Ok(v)
<1>1. text \in Texts /\ Progress /\ Returns
  BY DEF IInv
<1>2. CASE text.reader \in {"challenge", "digest"}
  <2>. DEFINE items == text.json.items
  <2>1. LimbText /\ WritesLimbs(items, v) /\ v \in 0..(P - 1)
    BY <1>2 DEF Writes, Values, LimbText
  <2>2. items \in Seq(Int)
    BY <1>1, <2>1, TextIs
  <2>3. ASSUME NEW i \in DOMAIN items  PROVE items[i] \in Int64
    <3>1. i \in Nat \ {0} /\ v \in Nat
      BY <2>1, <2>2
    <3>2. limb(v, i) \in 0..(LimbValues - 1) /\ items[i] = Signed(limb(v, i))
      BY <2>1, <3>1, LimbDigits DEF WritesLimbs, limb
    <3>. QED  BY <3>2, SignedIs
  <2>4. result = field_from_le(le) /\ pos = Len(items)
    BY <1>1, <1>2, <2>1, <2>3 DEF Returns
  <2>5. Collected(items, Len(items), le)
    BY <1>1, <2>1, <2>4 DEF Progress
  <2>. QED  BY <2>1, <2>2, <2>4, <2>5, LimbsRead
<1>3. CASE text.reader = "be_hex"
  <2>1. text.json.type = "string" /\ WritesHex(text.json, v) /\ v \in 0..(P - 1)
    BY <1>3 DEF Writes, Values
  <2>2. IsScalar(text.json) /\ result = be_hex(text.json)
    BY <1>1, <1>3, TextIs DEF Returns
  <2>. QED  BY <2>1, <2>2, HexReads
<1>4. CASE text.reader = "affine"
  <2>1. /\ text.json.type = "array" /\ Len(text.json.items) = 2
        /\ \A i \in 1..2 : /\ text.json.items[i].type = "string"
                           /\ WritesHex(text.json.items[i], v[i])
        /\ v \in (0..(P - 1)) \X (0..(P - 1))
    BY <1>4 DEF Writes, Values
  <2>2. IsPoint(text.json) /\ result = affine(text.json)
    BY <1>1, <1>4, TextIs DEF Returns
  <2>. QED  BY <2>1, <2>2, PointReads
<1>. QED  BY <1>1, <1>2, <1>3, <1>4, TextIs

\* And what it returns of a text that is not cut was written (combine_limbs_le,
\* parse_field_be_hex, affine).
LEMMA ReadIsWritten ==
    ASSUME IInv, NEW v, result = Ok(v), Short(text)
    PROVE  Writes(text, v)
<1>1. text \in Texts /\ Progress /\ Returns
  BY DEF IInv
<1>2. result # Reading /\ result # Err
  BY DEF Ok, Reading, Err
<1>3. CASE LimbText /\ result = field_from_le(le) /\ pos = Len(text.json.items)
  <2>. DEFINE items == text.json.items
  <2>1. text.reader \in {"challenge", "digest"} /\ items \in Seq(Int)
    BY <1>1, <1>3, TextIs
  <2>2. Collected(items, Len(items), le) /\ LimbBytes * Len(items) <= FieldBytes
    BY <1>1, <1>3 DEF Progress, Short, LimbText
  <2>3. WritesLimbs(items, v)
    BY <1>3, <2>1, <2>2, LimbsAre
  <2>. QED  BY <1>3, <2>1, <2>3 DEF Writes, LimbText
<1>4. CASE result = be_hex(text.json) /\ text.reader = "be_hex"
  <2>1. IsScalar(text.json) /\ ShortScalar(text.json)
    BY <1>1, <1>4, TextIs DEF Short
  <2>. QED  BY <1>4, <2>1, HexIs DEF Writes
<1>5. CASE text.reader = "affine" /\ result = affine(text.json)
  <2>. DEFINE json == text.json
  <2>1. IsPoint(json)
    BY <1>1, <1>5, TextIs
  <2>2. json.type = "array" => \A i \in DOMAIN json.items : ShortScalar(json.items[i])
    BY <1>5 DEF Short
  <2>3. affine(json) = Ok(v)
    BY <1>5
  <2>. HIDE DEF json
  <2>4. /\ json.type = "array" /\ Len(json.items) = 2
        /\ \A i \in 1..2 : json.items[i].type = "string" /\ WritesHex(json.items[i], v[i])
    BY <2>1, <2>2, <2>3, PointIs
  <2>. QED  BY <1>5, <2>4 DEF Writes, json
<1>. QED  BY <1>1, <1>2, <1>3, <1>4, <1>5 DEF Returns

\* For every width of a limb and of a field element, every order of the field and every text:
\* in every run a value the OCaml side can write is read back as itself, and of the texts that
\* are no longer than a field element nothing else is accepted (combine_limbs_le,
\* field_from_le, parse_field_be_hex, challenge, affine).
THEOREM AlwaysReadsWhatIsWritten == Spec => []ReadsWhatIsWritten
<1>1. IInv => ReadsWhatIsWritten
  <2>. SUFFICES ASSUME IInv, result # Reading
       PROVE  /\ \A v \in Values(text) : Writes(text, v) => result = Ok(v)
              /\ result.state = "ok" /\ Short(text) => Writes(text, result.value)
    BY DEF ReadsWhatIsWritten
  <2>1. \A v \in Values(text) : Writes(text, v) => result = Ok(v)
    BY WrittenIsRead
  <2>2. ASSUME result.state = "ok", Short(text)  PROVE Writes(text, result.value)
    <3>1. \E v : result = Ok(v)
      BY <2>2, ReturnsType DEF Reading, Err
    <3>2. result = Ok(result.value)
      BY <3>1 DEF Ok
    <3>. QED  BY <2>2, <3>2, ReadIsWritten
  <2>. QED  BY <2>1, <2>2
<1>. QED  BY <1>1, Invariance, PTL
=============================================================================
