--------------------------- MODULE DecimalProofs ---------------------------
(***************************************************************************)
(* Proofs about the decimals of Formulas, exact fractions in lowest terms: *)
(* their order, sums and roundings, for every decimal and any number.      *)
(***************************************************************************)
EXTENDS Formulas, SumProofs

-----------------------------------------------------------------------------
(* The greatest common divisor: Euclid's algorithm ends and yields one.    *)

Positive == Nat \ {0}

(* Multiplying by a positive number keeps the order.                       *)
LEMMA Ordered ==
  ASSUME NEW a \in Int, NEW b \in Int, NEW c \in Positive
  PROVE  (a <= b <=> a * c <= b * c) /\ (a = b <=> a * c = b * c)
BY DEF Positive

(* What a remainder is.                                                    *)
LEMMA RemainderOf ==
  ASSUME NEW a \in Nat, NEW b \in Positive
  PROVE  a % b \in Nat /\ a % b < b /\ a \div b \in Nat /\ a = b * (a \div b) + (a % b)
BY DEF Positive

(* A common factor comes out of a remainder.                               *)
LEMMA RemainderScales ==
  ASSUME NEW a \in Nat, NEW b \in Positive, NEW f \in Positive
  PROVE  (a * f) % (b * f) = (a % b) * f
<1> DEFINE q == a \div b
           r == a % b
<1>1. r \in Nat /\ r < b /\ q \in Nat /\ a = b * q + r /\ b \in Nat /\ f \in Nat /\ f # 0
  BY RemainderOf DEF Positive
<1> HIDE DEF q, r
<1>2. a * f = (b * f) * q + r * f
  BY <1>1
<1>3. r * f \in Nat /\ b * f \in Nat /\ r * f < b * f
  BY <1>1
<1>4. \A x \in Nat, y \in Nat : y < x => (x * q + y) % x = y
  BY <1>1
<1> QED
  BY <1>2, <1>3, <1>4 DEF r

(* g is the greatest common divisor while the second number is n at most.  *)
Gcds(g, n) ==
  \A a \in Nat : \A b \in 0 .. n : g[<<a, b>>] = IF b = 0 THEN a ELSE g[<<b, a % b>>]

(* There is such a function, however far.                                  *)
LEMMA GcdUpTo ==
  ASSUME NEW n \in Nat
  PROVE  \E g : Gcds(g, n)
<1> DEFINE T == {k \in Nat : \E g : Gcds(g, k)}
<1>1. 0 \in T
  <2> DEFINE g == [p \in Nat \X Nat |-> p[1]]
  <2>1. Gcds(g, 0)
    BY DEF Gcds
  <2> QED
    BY <2>1
<1>2. ASSUME NEW k \in T PROVE k + 1 \in T
  <2>1. PICK g : Gcds(g, k)
    OBVIOUS
  <2> DEFINE h == [p \in Nat \X Nat |-> IF p[2] = 0 THEN p[1] ELSE g[<<p[2], p[1] % p[2]>>]]
  <2>2. ASSUME NEW a \in Nat, NEW b \in 0 .. k + 1
        PROVE  h[<<a, b>>] = IF b = 0 THEN a ELSE h[<<b, a % b>>]
    <3>1. CASE b = 0
      BY <3>1
    <3>2. CASE b # 0
      <4>1. a % b \in 0 .. k /\ b \in Nat /\ a % b \in Nat
        BY <3>2, RemainderOf DEF Positive
      <4>2. h[<<b, a % b>>] = IF a % b = 0 THEN b ELSE g[<<a % b, b % (a % b)>>]
        BY <4>1
      <4>3. g[<<b, a % b>>] = IF a % b = 0 THEN b ELSE g[<<a % b, b % (a % b)>>]
        BY <2>1, <4>1 DEF Gcds
      <4>4. h[<<a, b>>] = g[<<b, a % b>>]
        BY <3>2
      <4> QED
        BY <3>2, <4>2, <4>3, <4>4
    <3> QED
      BY <3>1, <3>2
  <2> HIDE DEF h
  <2>3. Gcds(h, k + 1)
    BY <2>2 DEF Gcds
  <2> QED
    BY <2>3
<1>3. T = Nat
  <2>1. T \subseteq Nat
    OBVIOUS
  <2> HIDE DEF T
  <2> QED
    BY <1>1, <1>2, <2>1, NumbersFromZero
<1> QED
  BY <1>3

(* Two of them agree on the second numbers that both are for.              *)
LEMMA GcdsAgree ==
  ASSUME NEW g, NEW h, NEW m \in Nat, NEW n \in Nat, Gcds(g, m), Gcds(h, n), m <= n,
         NEW a \in Nat, NEW b \in 0 .. m
  PROVE  g[<<a, b>>] = h[<<a, b>>]
<1> DEFINE T == {k \in Nat : \A c \in Nat : \A d \in 0 .. k : d <= m => g[<<c, d>>] = h[<<c, d>>]}
<1>1. 0 \in T
  <2>1. 0 \in 0 .. m /\ 0 \in 0 .. n
    OBVIOUS
  <2>2. \A c \in Nat : g[<<c, 0>>] = c /\ h[<<c, 0>>] = c
    BY <2>1 DEF Gcds
  <2> QED
    BY <2>2
<1>2. ASSUME NEW k \in T PROVE k + 1 \in T
  <2>1. ASSUME NEW c \in Nat, NEW d \in 0 .. k + 1, d <= m
        PROVE  g[<<c, d>>] = h[<<c, d>>]
    <3>1. CASE d = 0
      BY <3>1 DEF Gcds
    <3>2. CASE d # 0
      <4>1. c % d \in 0 .. k /\ d \in Nat /\ c % d <= m
        BY <2>1, <3>2, RemainderOf DEF Positive
      <4>2. g[<<d, c % d>>] = h[<<d, c % d>>]
        BY <4>1
      <4>3. g[<<c, d>>] = g[<<d, c % d>>] /\ h[<<c, d>>] = h[<<d, c % d>>]
        BY <2>1, <3>2 DEF Gcds
      <4> QED
        BY <4>2, <4>3
    <3> QED
      BY <3>1, <3>2
  <2> QED
    BY <2>1
<1>3. T = Nat
  <2>1. T \subseteq Nat
    OBVIOUS
  <2> HIDE DEF T
  <2> QED
    BY <1>1, <1>2, <2>1, NumbersFromZero
<1> QED
  BY <1>3

(* Hence one for all numbers: the recursion that Gcd is defined by ends.   *)
LEMMA GcdExists ==
  \E g : g = [p \in Nat \X Nat |-> IF p[2] = 0 THEN p[1] ELSE g[<<p[2], p[1] % p[2]>>]]
<1> DEFINE upTo(k) == CHOOSE g : Gcds(g, k)
           g == [p \in Nat \X Nat |-> upTo(p[2])[p]]
<1>1. \A k \in Nat : Gcds(upTo(k), k)
  BY GcdUpTo
<1>2. ASSUME NEW a \in Nat, NEW b \in Nat
      PROVE  g[<<a, b>>] = IF b = 0 THEN a ELSE g[<<b, a % b>>]
  <2>0. g[<<a, b>>] = upTo(b)[<<a, b>>]
    OBVIOUS
  <2>1. CASE b = 0
    <3>1. Gcds(upTo(b), b) /\ b \in 0 .. b
      BY <1>1
    <3> HIDE DEF upTo, g
    <3>2. upTo(b)[<<a, b>>] = a
      BY <2>1, <3>1 DEF Gcds
    <3> QED
      BY <2>0, <2>1, <3>2
  <2>2. CASE b # 0
    <3>1. a % b \in Nat /\ a % b <= b /\ a % b \in 0 .. a % b
      BY <2>2, RemainderOf DEF Positive
    <3>3. g[<<b, a % b>>] = upTo(a % b)[<<b, a % b>>]
      BY <3>1
    <3> HIDE DEF upTo, g
    <3>2. upTo(b)[<<a, b>>] = upTo(b)[<<b, a % b>>]
      BY <1>1, <2>2 DEF Gcds
    <3>4. upTo(a % b)[<<b, a % b>>] = upTo(b)[<<b, a % b>>]
      BY <1>1, <3>1, GcdsAgree
    <3> QED
      BY <2>0, <2>2, <3>2, <3>3, <3>4
  <2> QED
    BY <2>1, <2>2
<1>3. g = [p \in Nat \X Nat |-> IF p[2] = 0 THEN p[1] ELSE g[<<p[2], p[1] % p[2]>>]]
  <2> DEFINE x == [p \in Nat \X Nat |-> IF p[2] = 0 THEN p[1] ELSE g[<<p[2], p[1] % p[2]>>]]
  <2>1. \A p \in Nat \X Nat : g[p] = x[p]
    <3> HIDE DEF g
    <3> QED
      BY <1>2
  <2> QED
    BY <2>1
<1> HIDE DEF g
<1> QED
  BY <1>3

(* Gcd is what its definition says.                                        *)
LEMMA GcdOf ==
  /\ \A a \in Nat : Gcd[<<a, 0>>] = a
  /\ \A a \in Nat, b \in Positive : Gcd[<<a, b>>] = Gcd[<<b, a % b>>]
<1>1. Gcd = [p \in Nat \X Nat |-> IF p[2] = 0 THEN p[1] ELSE Gcd[<<p[2], p[1] % p[2]>>]]
  BY GcdExists DEF Gcd
<1> HIDE DEF Gcd
<1> QED
  BY <1>1 DEF Positive

(* What it is needed for: it divides both.                                 *)
LEMMA GcdDivides ==
  ASSUME NEW a \in Nat, NEW b \in Nat, a # 0 \/ b # 0
  PROVE  /\ Gcd[<<a, b>>] \in Positive
         /\ \E i \in Nat : a = i * Gcd[<<a, b>>]
         /\ \E j \in Nat : b = j * Gcd[<<a, b>>]
<1> DEFINE Divides(c, d) == /\ Gcd[<<c, d>>] \in Positive
                            /\ \E i \in Nat : c = i * Gcd[<<c, d>>]
                            /\ \E j \in Nat : d = j * Gcd[<<c, d>>]
           T == {k \in Nat : \A c \in Nat : \A d \in 0 .. k : c # 0 \/ d # 0 => Divides(c, d)}
<1>1. 0 \in T
  <2>1. ASSUME NEW c \in Nat, c # 0 PROVE Divides(c, 0)
    <3>1. Gcd[<<c, 0>>] = c
      BY GcdOf
    <3>2. c = 1 * c /\ 0 = 0 * c
      OBVIOUS
    <3> QED
      BY <2>1, <3>1, <3>2 DEF Positive
  <2> QED
    BY <2>1
<1>2. ASSUME NEW k \in T PROVE k + 1 \in T
  <2>1. ASSUME NEW c \in Nat, NEW d \in 0 .. k + 1, c # 0 \/ d # 0
        PROVE  Divides(c, d)
    <3>1. CASE d = 0
      <4>1. 0 \in 0 .. k /\ c # 0
        BY <2>1, <3>1
      <4> QED
        BY <3>1, <4>1
    <3>2. CASE d # 0
      <4> DEFINE g == Gcd[<<d, c % d>>]
                 q == c \div d
      <4>1. c % d \in 0 .. k /\ d \in Positive /\ q \in Nat /\ c = d * q + (c % d)
        BY <3>2, RemainderOf DEF Positive
      <4>2. Gcd[<<c, d>>] = g
        BY <4>1, GcdOf
      <4>3. Divides(d, c % d)
        BY <3>2, <4>1 DEF Positive
      <4>4. g \in Positive
        BY <4>3
      <4>5. PICK i \in Nat : d = i * g
        BY <4>3
      <4>6. PICK j \in Nat : c % d = j * g
        BY <4>3
      <4>7. c = (i * q + j) * g
        <5> HIDE DEF g, q
        <5>1. c = (i * g) * q + j * g
          BY <4>1, <4>5, <4>6
        <5>2. \A x \in Nat : (i * x) * q + j * x = (i * q + j) * x
          BY <4>1
        <5> QED
          BY <5>1, <5>2, <4>4 DEF Positive
      <4>8. i * q + j \in Nat
        BY <4>1
      <4> HIDE DEF g, q
      <4> QED
        BY <4>2, <4>4, <4>5, <4>7, <4>8
    <3> QED
      BY <3>1, <3>2
  <2> HIDE DEF Divides
  <2> QED
    BY <2>1
<1>3. T = Nat
  <2>1. T \subseteq Nat
    OBVIOUS
  <2> HIDE DEF T
  <2> QED
    BY <1>1, <1>2, <2>1, NumbersFromZero
<1>4. b \in T
  <2> HIDE DEF T
  <2> QED
    BY <1>3
<1>5. b \in 0 .. b
  OBVIOUS
<1> QED
  BY <1>4, <1>5

(* A common factor comes out of it, so fractions are in lowest terms.      *)
LEMMA GcdScales ==
  ASSUME NEW a \in Nat, NEW b \in Nat, NEW f \in Positive
  PROVE  Gcd[<<a * f, b * f>>] = Gcd[<<a, b>>] * f
<1> DEFINE T == {k \in Nat : \A c \in Nat : \A d \in 0 .. k :
                   Gcd[<<c * f, d * f>>] = Gcd[<<c, d>>] * f}
<1>0. f \in Nat /\ f # 0
  BY DEF Positive
<1>1. 0 \in T
  <2>1. ASSUME NEW c \in Nat PROVE Gcd[<<c * f, 0 * f>>] = Gcd[<<c, 0>>] * f
    <3>1. 0 * f = 0 /\ c * f \in Nat
      BY <1>0
    <3> QED
      BY <3>1, GcdOf
  <2> QED
    BY <2>1
<1>2. ASSUME NEW k \in T PROVE k + 1 \in T
  <2>1. ASSUME NEW c \in Nat, NEW d \in 0 .. k + 1
        PROVE  Gcd[<<c * f, d * f>>] = Gcd[<<c, d>>] * f
    <3>1. CASE d = 0
      <4>1. 0 \in 0 .. k
        OBVIOUS
      <4> QED
        BY <3>1, <4>1
    <3>2. CASE d # 0
      <4>1. c % d \in 0 .. k /\ d \in Positive
        BY <3>2, RemainderOf DEF Positive
      <4>2. c * f \in Nat /\ d * f \in Positive
        BY <1>0, <4>1 DEF Positive
      <4>3. (c * f) % (d * f) = (c % d) * f
        BY <4>1, RemainderScales
      <4>4. Gcd[<<d * f, (c % d) * f>>] = Gcd[<<d, c % d>>] * f
        BY <4>1 DEF Positive
      <4>5. Gcd[<<c * f, d * f>>] = Gcd[<<d * f, (c * f) % (d * f)>>]
        BY <4>2, GcdOf
      <4>6. Gcd[<<c, d>>] = Gcd[<<d, c % d>>]
        BY <4>1, GcdOf
      <4> QED
        BY <4>3, <4>4, <4>5, <4>6
    <3> QED
      BY <3>1, <3>2
  <2> QED
    BY <2>1
<1>3. T = Nat
  <2>1. T \subseteq Nat
    OBVIOUS
  <2> HIDE DEF T
  <2> QED
    BY <1>1, <1>2, <2>1, NumbersFromZero
<1>4. b \in T
  <2> HIDE DEF T
  <2> QED
    BY <1>3
<1>5. b \in 0 .. b
  OBVIOUS
<1> QED
  BY <1>4, <1>5

(* Multiples keep the order, too.                                          *)
LEMMA Multiples ==
  ASSUME NEW a \in Int, NEW b \in Int, NEW c \in Nat, a <= b
  PROVE  c * a <= c * b /\ c * a \in Int /\ c * b \in Int
<1>1. CASE c = 0
  BY <1>1
<1>2. CASE c # 0
  <2>1. c \in Positive
    BY <1>2 DEF Positive
  <2>2. a * c <= b * c
    BY <2>1, Ordered
  <2>3. a * c = c * a /\ b * c = c * b
    OBVIOUS
  <2> QED
    BY <2>2, <2>3
<1> QED
  BY <1>1, <1>2

-----------------------------------------------------------------------------
(* Decimals, and their order.                                              *)

(* A decimal is a pair of numbers, and only that of zero starts with 0.    *)
LEMMA DecimalOf ==
  ASSUME NEW x \in Decimal
  PROVE  /\ x[1] \in Int /\ x[2] \in Positive /\ x[2] \in Nat /\ x[2] # 0 /\ x[2] > 0
         /\ x = <<x[1], x[2]>> /\ (x[1] = 0 => x = Zero)
<1>1. x[1] \in Int /\ x[2] \in Nat /\ x[2] # 0 /\ x = <<x[1], x[2]>> /\ Gcd[<<Abs(x[1]), x[2]>>] = 1
  BY DEF Decimal
<1>2. ASSUME x[1] = 0 PROVE x = Zero
  <2>1. Gcd[<<0, x[2]>>] = Gcd[<<x[2], 0 % x[2]>>] /\ 0 % x[2] = 0
    BY <1>1, GcdOf DEF Positive
  <2>2. x[2] = 1
    BY <1>1, <1>2, <2>1, GcdOf DEF Abs
  <2> QED
    BY <1>1, <1>2, <2>2 DEF Zero, Whole
<1> QED
  BY <1>1, <1>2 DEF Positive

(* Frac is a decimal, and equals n/d: the products across are the same.    *)
LEMMA FracOf ==
  ASSUME NEW n \in Int, NEW d \in Int, d # 0
  PROVE  /\ Frac(n, d) \in Decimal
         /\ Frac(n, d)[1] * d = n * Frac(n, d)[2]
         /\ \E k \in Positive : Abs(d) = k * Frac(n, d)[2]
<1> DEFINE g == Gcd[<<Abs(n), Abs(d)>>]
<1>1. Abs(n) \in Nat /\ Abs(d) \in Nat /\ Abs(d) # 0
  BY DEF Abs
<1>2. g \in Positive
  BY <1>1, GcdDivides
<1>3. PICK i \in Nat : Abs(n) = i * g
  BY <1>1, GcdDivides
<1>4. PICK j \in Nat : Abs(d) = j * g
  BY <1>1, GcdDivides
<1>5. g = Gcd[<<i, j>>] * g
  BY <1>2, <1>3, <1>4, GcdScales
<1> HIDE DEF g
<1>6. j # 0 /\ g \in Nat /\ g # 0
  BY <1>1, <1>2, <1>4 DEF Positive
<1>7. Gcd[<<i, j>>] = 1
  <2>1. Gcd[<<i, j>>] \in Positive
    BY <1>6, GcdDivides
  <2> DEFINE h == Gcd[<<i, j>>]
  <2> HIDE DEF h
  <2>2. h \in Nat /\ 1 * g = h * g
    BY <1>5, <1>6, <2>1 DEF Positive, h
  <2>3. h = 1
    BY <1>2, <2>2, Ordered
  <2> QED
    BY <2>3 DEF h
<1> DEFINE m == Sign(d) * Sign(n) * i
<1>8. m \in Int /\ Abs(m) = i
  BY <1>3, <1>6 DEF Sign, Abs
<1>9. Sign(d) * n = m * g
  <2>1. n = Sign(n) * (i * g)
    BY <1>3 DEF Sign, Abs
  <2> QED
    BY <2>1, <1>6 DEF Sign
<1>10. Frac(n, d) = <<m, j>>
  <2>1. \A a \in Int : (a * g) \div g = a
    BY <1>6
  <2>2. m \in Int /\ j \in Int
    BY <1>8
  <2>3. (m * g) \div g = m /\ (j * g) \div g = j
    BY <2>1, <2>2
  <2> HIDE DEF m
  <2> QED
    BY <1>4, <1>9, <2>3 DEF Frac, g
<1>11. m * d = n * j
  <2>1. d = Sign(d) * (j * g)
    BY <1>4 DEF Sign, Abs
  <2>2. n = Sign(d) * (m * g)
    BY <1>9 DEF Sign
  <2>3. Sign(d) \in Int
    BY DEF Sign
  <2> HIDE DEF m
  <2>4. m * (Sign(d) * (j * g)) = (Sign(d) * (m * g)) * j
    <3>1. \A s, a, b, c \in Int : a * (s * (b * c)) = (s * (a * c)) * b
      OBVIOUS
    <3>2. j \in Int /\ g \in Int
      BY <1>6
    <3> QED
      BY <2>3, <3>1, <3>2, <1>8
  <2> QED
    BY <2>1, <2>2, <2>4
<1> HIDE DEF m
<1>12. <<m, j>> \in Decimal
  BY <1>6, <1>7, <1>8 DEF Decimal
<1>13. Abs(d) = g * j
  BY <1>4, <1>6
<1> QED
  BY <1>2, <1>10, <1>11, <1>12, <1>13

(* Whole numbers are decimals.                                             *)
LEMMA WholeOf ==
  ASSUME NEW n \in Int
  PROVE  Whole(n) \in Decimal
<1>1. Abs(n) \in Nat /\ Abs(n) % 1 = 0
  BY DEF Abs
<1>2. Gcd[<<Abs(n), 1>>] = 1
  <2>1. Gcd[<<Abs(n), 1>>] = Gcd[<<1, Abs(n) % 1>>]
    BY <1>1, GcdOf DEF Positive
  <2> QED
    BY <1>1, <2>1, GcdOf
<1> QED
  BY <1>2 DEF Whole, Decimal

(* Decimals are closed under the operations of the evaluator.              *)
LEMMA Closed ==
  ASSUME NEW x \in Decimal, NEW y \in Decimal
  PROVE  /\ Plus(x, y) \in Decimal /\ Minus(x, y) \in Decimal /\ Times(x, y) \in Decimal
         /\ y # Zero => Divided(x, y) \in Decimal /\ Remainder(x, y) \in Decimal
<1>1. /\ x[1] \in Int /\ x[2] \in Nat /\ x[2] # 0
      /\ y[1] \in Int /\ y[2] \in Nat /\ y[2] # 0
      /\ y[1] = 0 => y = Zero
  BY DecimalOf
<1>2. \A a, b \in Decimal : Plus(a, b) \in Decimal /\ Times(a, b) \in Decimal
  <2> TAKE a, b \in Decimal
  <2>1. a[1] \in Int /\ a[2] \in Nat /\ a[2] # 0 /\ b[1] \in Int /\ b[2] \in Nat /\ b[2] # 0
    BY DecimalOf
  <2>2. a[2] * b[2] \in Int /\ a[2] * b[2] # 0 /\ a[1] * b[1] \in Int /\ a[1] * b[2] + b[1] * a[2] \in Int
    BY <2>1
  <2> QED
    BY <2>2, FracOf DEF Plus, Times
<1>3. \A a, b \in Decimal : Minus(a, b) \in Decimal
  <2> TAKE a, b \in Decimal
  <2>1. Gcd[<<Abs(-b[1]), b[2]>>] = 1 /\ -b[1] \in Int /\ b[2] \in Nat /\ b[2] # 0
    BY DecimalOf DEF Decimal, Abs
  <2>2. <<-b[1], b[2]>> \in Decimal
    BY <2>1 DEF Decimal
  <2> QED
    BY <1>2, <2>2 DEF Minus
<1>4. ASSUME y # Zero PROVE Divided(x, y) \in Decimal
  <2>1. x[1] * y[2] \in Int /\ x[2] * y[1] \in Int /\ x[2] * y[1] # 0
    BY <1>1, <1>4
  <2> QED
    BY <2>1, FracOf DEF Divided
<1>5. ASSUME y # Zero PROVE Remainder(x, y) \in Decimal
  <2> DEFINE q == Divided(x, y)
             w == Sign(q[1]) * (Abs(q[1]) \div q[2])
  <2>1. q[1] \in Int /\ q[2] \in Nat /\ q[2] # 0
    BY <1>4, <1>5, DecimalOf
  <2>2. w \in Int
    <3> HIDE DEF q
    <3>1. \A a \in Nat, b \in Nat \ {0} : a \div b \in Int
      OBVIOUS
    <3>2. Abs(q[1]) \in Nat
      BY <2>1 DEF Abs
    <3>3. Abs(q[1]) \div q[2] \in Int
      BY <2>1, <3>1, <3>2
    <3> QED
      BY <3>3 DEF Sign
  <2>3. Remainder(x, y) = Minus(x, Times(Whole(w), y))
    BY DEF Remainder
  <2> HIDE DEF q, w
  <2> QED
    BY <1>2, <1>3, <2>2, <2>3, WholeOf
<1> QED
  BY <1>2, <1>3, <1>4, <1>5

(* So they are under rounding.                                             *)
LEMMA RoundedClosed ==
  ASSUME NEW x \in Decimal
  PROVE  Rounded(x) \in Decimal
<1>1. x[1] \in Int /\ x[2] \in Nat /\ x[2] > 0
  BY DecimalOf
<1>2. x[1] \div x[2] \in Int
  BY <1>1
<1> QED
  BY <1>2, WholeOf DEF Rounded

(* Storing gives a decimal with the places of the column.                  *)
LEMMA PlacesOf ==
  ASSUME NEW x \in Decimal, NEW scale \in Positive
  PROVE  ToPlaces(x, scale) \in Decimal /\ scale % ToPlaces(x, scale)[2] = 0
<1> DEFINE n == Sign(x[1]) * ((2 * (Abs(x[1]) * scale) + x[2]) \div (2 * x[2]))
<1>1. x[1] \in Int /\ x[2] \in Nat /\ x[2] > 0 /\ scale \in Nat /\ scale # 0 /\ Abs(scale) = scale
  BY DecimalOf DEF Positive, Abs
<1>2. n \in Int
  <2>1. Abs(x[1]) \in Nat
    BY <1>1 DEF Abs
  <2>2. \A a \in Nat, b \in Nat \ {0} : a \div b \in Int
    OBVIOUS
  <2>3. 2 * (Abs(x[1]) * scale) + x[2] \in Nat /\ 2 * x[2] \in Nat \ {0}
    BY <1>1, <2>1
  <2>4. (2 * (Abs(x[1]) * scale) + x[2]) \div (2 * x[2]) \in Int
    BY <2>2, <2>3
  <2> QED
    BY <2>4 DEF Sign
<1>3. ToPlaces(x, scale) = Frac(n, scale)
  BY DEF ToPlaces
<1> HIDE DEF n
<1>4. Frac(n, scale) \in Decimal
  BY <1>1, <1>2, FracOf
<1>5. PICK k \in Positive : scale = k * Frac(n, scale)[2]
  <2>1. scale \in Int
    BY <1>1
  <2>2. \E k \in Positive : Abs(scale) = k * Frac(n, scale)[2]
    BY <1>1, <1>2, <2>1, FracOf, Zenon
  <2> QED
    BY <1>1, <2>2
<1>6. \A d \in Positive : (k * d) % d = 0
  BY DEF Positive
<1> QED
  BY <1>3, <1>4, <1>5, <1>6, DecimalOf

(* Leq is an order of the decimals.                                        *)
LEMMA LeqOrders ==
  /\ \A x \in Decimal : Leq(x, x)
  /\ \A x, y \in Decimal : Leq(x, y) \/ Leq(y, x)
  /\ \A x, y, z \in Decimal : Leq(x, y) /\ Leq(y, z) => Leq(x, z)
<1>1. \A x \in Decimal : x[1] \in Int /\ x[2] \in Nat /\ x[2] \in Positive
  BY DecimalOf
<1>2. \A x, y \in Decimal : Leq(x, y) \/ Leq(y, x)
  BY <1>1 DEF Leq
<1>3. ASSUME NEW x \in Decimal, NEW y \in Decimal, NEW z \in Decimal, Leq(x, y), Leq(y, z)
      PROVE  Leq(x, z)
  <2> DEFINE a == x[1]  b == x[2]  c == y[1]  d == y[2]  e == z[1]  f == z[2]
  <2>1. /\ a \in Int /\ c \in Int /\ e \in Int
        /\ b \in Nat /\ d \in Nat /\ f \in Nat /\ b \in Positive /\ d \in Positive /\ f \in Positive
    BY <1>1
  <2>2. a * d <= c * b /\ c * f <= e * d
    BY <1>3 DEF Leq
  <2> HIDE DEF a, b, c, d, e, f
  <2>3. a * d \in Int /\ c * b \in Int /\ c * f \in Int /\ e * d \in Int /\ a * f \in Int /\ e * b \in Int
    BY <2>1
  <2>4. (a * d) * f <= (c * b) * f
    BY <2>1, <2>2, <2>3, Ordered
  <2>5. (c * f) * b <= (e * d) * b
    BY <2>1, <2>2, <2>3, Ordered
  <2>6. (a * f) * d <= (e * b) * d
    <3>1. \A p, q, r \in Int : (p * q) * r = (p * r) * q
      OBVIOUS
    <3>2. (a * d) * f = (a * f) * d /\ (c * b) * f = (c * f) * b /\ (e * d) * b = (e * b) * d
      BY <2>1, <3>1
    <3>3. (c * f) * b \in Int /\ (a * f) * d \in Int /\ (e * b) * d \in Int
      BY <2>1, <2>3
    <3> QED
      BY <2>4, <2>5, <3>2, <3>3
  <2>7. a * f <= e * b
    BY <2>1, <2>3, <2>6, Ordered
  <2> QED
    BY <2>7 DEF Leq, a, b, e, f
<1> QED
  BY <1>2, <1>3

(* The least and the greatest of some decimals, which min and max choose.  *)
LEMMA Extremes ==
  ASSUME NEW n \in Positive, NEW a \in [1 .. n -> Decimal]
  PROVE  /\ \E i \in 1 .. n : \A j \in 1 .. n : Leq(a[i], a[j])
         /\ \E i \in 1 .. n : \A j \in 1 .. n : Leq(a[j], a[i])
<1> DEFINE Ends(k) == /\ \E i \in 1 .. k : \A j \in 1 .. k : Leq(a[i], a[j])
                      /\ \E i \in 1 .. k : \A j \in 1 .. k : Leq(a[j], a[i])
           T == {k \in Nat : k + 1 <= n => Ends(k + 1)}
<1>0. n \in Nat /\ n # 0
  BY DEF Positive
<1>1. 0 \in T
  <2>1. 1 \in 1 .. 1 /\ (\A i \in 1 .. 1 : i = 1) /\ Leq(a[1], a[1])
    BY <1>0, LeqOrders
  <2>2. Ends(0 + 1)
    BY <2>1
  <2> QED
    BY <2>2
<1>2. ASSUME NEW k \in T PROVE k + 1 \in T
  <2>1. SUFFICES ASSUME (k + 1) + 1 <= n PROVE Ends((k + 1) + 1)
    OBVIOUS
  <2> DEFINE m == k + 1
             l == m + 1
  <2>2. m \in Nat /\ l \in 1 .. n /\ \A i \in 1 .. m : i \in 1 .. n /\ i \in 1 .. l
    BY <1>0, <2>1
  <2>3. \A j \in 1 .. l : j \in 1 .. m \/ j = l
    OBVIOUS
  <2>4. PICK i \in 1 .. m : \A j \in 1 .. m : Leq(a[i], a[j])
    BY <1>0, <2>1
  <2>5. PICK g \in 1 .. m : \A j \in 1 .. m : Leq(a[j], a[g])
    BY <1>0, <2>1
  <2>6. a[i] \in Decimal /\ a[g] \in Decimal /\ a[l] \in Decimal /\ \A j \in 1 .. m : a[j] \in Decimal
    BY <2>2
  <2>l. l \in 1 .. l
    OBVIOUS
  <2> HIDE DEF m, l
  <2>7. \E c \in 1 .. l : \A j \in 1 .. l : Leq(a[c], a[j])
    <3>1. CASE Leq(a[i], a[l])
      BY <2>2, <2>3, <2>4, <3>1
    <3>2. CASE Leq(a[l], a[i])
      BY <2>l, <2>3, <2>4, <2>6, <3>2, LeqOrders
    <3> QED
      BY <3>1, <3>2, <2>6, LeqOrders
  <2>8. \E c \in 1 .. l : \A j \in 1 .. l : Leq(a[j], a[c])
    <3>1. CASE Leq(a[l], a[g])
      BY <2>2, <2>3, <2>5, <3>1
    <3>2. CASE Leq(a[g], a[l])
      BY <2>l, <2>3, <2>5, <2>6, <3>2, LeqOrders
    <3> QED
      BY <3>1, <3>2, <2>6, LeqOrders
  <2> QED
    BY <2>7, <2>8 DEF l, m
<1>3. T = Nat
  <2>1. T \subseteq Nat
    OBVIOUS
  <2> HIDE DEF T
  <2> QED
    BY <1>1, <1>2, <2>1, NumbersFromZero
<1>4. n - 1 \in T /\ (n - 1) + 1 = n
  <2>1. n - 1 \in Nat /\ (n - 1) + 1 = n
    BY <1>0
  <2> HIDE DEF T
  <2> QED
    BY <1>3, <2>1
<1> QED
  BY <1>4

-----------------------------------------------------------------------------
(* FoldLeft takes the last element of a sequence out of it, then the rest. *)

(* The greatest of some numbers.                                           *)
LEMMA MaxIn ==
  ASSUME NEW n \in Nat, NEW t, t \subseteq 1 .. n, t # {}
  PROVE  Max(t) \in t /\ \A i \in t : i <= Max(t)
<1> DEFINE I == {n - i : i \in t}
<1>0. \A i \in t : i \in Int /\ n - i \in Nat
  OBVIOUS
<1>1. I \subseteq Nat /\ I # {}
  <2>1. PICK i \in t : TRUE
    OBVIOUS
  <2>2. n - i \in I
    OBVIOUS
  <2> QED
    BY <1>0, <2>2
<1>2. PICK i \in I : \A j \in I : i <= j
  <2> HIDE DEF I
  <2> QED
    BY <1>1, LeastNumber
<1>3. PICK m \in t : i = n - m
  BY <1>2
<1>4. \A j \in t : m >= j
  <2> TAKE j \in t
  <2>1. n - j \in I
    OBVIOUS
  <2>2. n - m <= n - j
    BY <1>2, <1>3, <2>1
  <2>3. m \in Int /\ j \in Int
    BY <1>0
  <2> HIDE DEF I
  <2> QED
    BY <2>2, <2>3
<1>5. \E m1 \in t : \A j \in t : m1 >= j
  BY <1>4
<1>6. Max(t) \in t /\ \A j \in t : Max(t) >= j
  BY <1>5 DEF Max
<1> QED
  BY <1>6

(* f folds s, from base, over the sets of places up to k.                  *)
FoldsUpTo(f, n, k, base, op, s) ==
  \A t \in SUBSET (1 .. n) : t \subseteq 1 .. k =>
    f[t] = IF t = {} THEN base ELSE op[<<f[t \ {Max(t)}], s[Max(t)]>>]

(* There is such a function for all places.                                *)
LEMMA FoldsExist ==
  ASSUME NEW n \in Nat, NEW D, NEW base \in D, NEW op \in [D \X D -> D], NEW s \in [1 .. n -> D]
  PROVE  \E f \in [SUBSET (1 .. n) -> D] : FoldsUpTo(f, n, n, base, op, s)
<1> DEFINE T == {k \in Nat : \E f \in [SUBSET (1 .. n) -> D] : FoldsUpTo(f, n, k, base, op, s)}
<1>1. 0 \in T
  <2> DEFINE f == [t \in SUBSET (1 .. n) |-> base]
  <2>1. f \in [SUBSET (1 .. n) -> D]
    OBVIOUS
  <2>2. FoldsUpTo(f, n, 0, base, op, s)
    BY DEF FoldsUpTo
  <2> QED
    BY <2>1, <2>2
<1>2. ASSUME NEW k \in T PROVE k + 1 \in T
  <2>1. PICK f \in [SUBSET (1 .. n) -> D] : FoldsUpTo(f, n, k, base, op, s)
    OBVIOUS
  <2> DEFINE h == [t \in SUBSET (1 .. n) |->
                     IF t = {} THEN base ELSE op[<<f[t \ {Max(t)}], s[Max(t)]>>]]
  <2>2. h \in [SUBSET (1 .. n) -> D]
    <3>1. ASSUME NEW t \in SUBSET (1 .. n), t # {}
          PROVE  op[<<f[t \ {Max(t)}], s[Max(t)]>>] \in D
      <4>1. Max(t) \in 1 .. n /\ t \ {Max(t)} \in SUBSET (1 .. n)
        BY <3>1, MaxIn
      <4> QED
        BY <4>1
    <3> QED
      BY <3>1
  <2>3. ASSUME NEW t \in SUBSET (1 .. n), t \subseteq 1 .. k + 1, t # {}
        PROVE  h[t] = op[<<h[t \ {Max(t)}], s[Max(t)]>>]
    <3> DEFINE u == t \ {Max(t)}
    <3>1. Max(t) \in t /\ \A i \in t : i <= Max(t)
      BY <2>3, MaxIn
    <3>2. u \in SUBSET (1 .. n) /\ u \subseteq 1 .. k
      <4>1. Max(t) \in 1 .. k + 1
        BY <2>3, <3>1
      <4>2. ASSUME NEW i \in u PROVE i \in 1 .. k
        <5>1. i \in 1 .. k + 1 /\ i <= Max(t) /\ i # Max(t)
          BY <2>3, <3>1
        <5> QED
          BY <4>1, <5>1
      <4> QED
        BY <4>2
    <3>3. h[u] = f[u]
      <4> HIDE DEF u
      <4> QED
        BY <2>1, <3>2 DEF FoldsUpTo
    <3> QED
      BY <2>3, <3>3
  <2>4. \A t \in SUBSET (1 .. n) : t = {} => h[t] = base
    OBVIOUS
  <2>5. k + 1 \in Nat
    OBVIOUS
  <2> HIDE DEF h
  <2>6. FoldsUpTo(h, n, k + 1, base, op, s)
    BY <2>3, <2>4 DEF FoldsUpTo
  <2> QED
    BY <2>2, <2>5, <2>6
<1>3. T = Nat
  <2>1. T \subseteq Nat
    OBVIOUS
  <2> HIDE DEF T
  <2> QED
    BY <1>1, <1>2, <2>1, NumbersFromZero
<1>4. n \in T
  <2> HIDE DEF T
  <2> QED
    BY <1>3
<1> QED
  BY <1>4

(* p are the partial sums of s.                                            *)
PartialSums(p, s) ==
  /\ p \in [0 .. Len(s) -> Decimal] /\ p[0] = Zero
  /\ \A k \in 1 .. Len(s) : p[k] = Plus(p[k - 1], s[k])

(* The last of the partial sums is the total.                              *)
LEMMA TotalOf ==
  ASSUME NEW s \in Seq(Decimal)
  PROVE  \E p : PartialSums(p, s) /\ Total(s) = p[Len(s)]
<1> DEFINE n == Len(s)
           op == [q \in Decimal \X Decimal |-> Plus(q[1], q[2])]
<1>1. n \in Nat /\ s \in [1 .. n -> Decimal] /\ DOMAIN s = 1 .. n
  OBVIOUS
<1>2. op \in [Decimal \X Decimal -> Decimal]
  BY Closed
<1>3. Zero \in Decimal
  BY WholeOf DEF Zero
<1>4. PICK f \in [SUBSET (1 .. n) -> Decimal] : FoldsUpTo(f, n, n, Zero, op, s)
  <2> HIDE DEF op, n
  <2> QED
    BY <1>1, <1>2, <1>3, FoldsExist
<1> DEFINE Step(g) == [t \in SUBSET (1 .. n) |->
                         IF t = {} THEN Zero ELSE Plus(g[t \ {Max(t)}], s[Max(t)])]
           it == CHOOSE g : g = Step(g)
<1>5. Total(s) = it[1 .. n]
  BY <1>1 DEF Total, FoldLeft, MapThenFoldSet
<1>6. f = Step(f)
  <2>1. ASSUME NEW t \in SUBSET (1 .. n), t # {}
        PROVE  f[t] = Plus(f[t \ {Max(t)}], s[Max(t)])
    <3>1. Max(t) \in 1 .. n /\ t \ {Max(t)} \in SUBSET (1 .. n)
      <4> HIDE DEF n
      <4> QED
        BY <1>1, <2>1, MaxIn
    <3>2. f[t] = op[<<f[t \ {Max(t)}], s[Max(t)]>>]
      BY <1>4, <2>1 DEF FoldsUpTo
    <3>3. f[t \ {Max(t)}] \in Decimal /\ s[Max(t)] \in Decimal
      BY <1>1, <3>1
    <3> QED
      BY <3>2, <3>3
  <2>2. f[{}] = Zero
    BY <1>4 DEF FoldsUpTo
  <2> HIDE DEF op
  <2>3. \A t \in SUBSET (1 .. n) : f[t] = Step(f)[t]
    BY <2>1, <2>2
  <2> QED
    BY <2>3
<1>7. it = Step(it)
  <2> HIDE DEF Step
  <2> QED
    BY <1>6
<1>8. it[{}] = Zero
  <2>1. it[{}] = Step(it)[{}]
    <3> HIDE DEF Step, it
    <3> QED
      BY <1>7
  <2> HIDE DEF it
  <2> QED
    BY <2>1
<1>9. ASSUME NEW k \in 1 .. n PROVE it[1 .. k] = Plus(it[1 .. k - 1], s[k])
  <2>1. Max(1 .. k) = k
    <3>1. Max(1 .. k) \in 1 .. k /\ \A i \in 1 .. k : i <= Max(1 .. k)
      <4>1. k \in Nat /\ 1 .. k # {} /\ 1 .. k \subseteq 1 .. k
        OBVIOUS
      <4> QED
        BY <4>1, MaxIn
    <3> QED
      BY <3>1
  <2>2. (1 .. k) \ {k} = 1 .. k - 1
    OBVIOUS
  <2>3. 1 .. k \in SUBSET (1 .. n) /\ 1 .. k # {}
    OBVIOUS
  <2>4. it[1 .. k] = Step(it)[1 .. k]
    <3> HIDE DEF Step, it
    <3> QED
      BY <1>7
  <2> HIDE DEF it
  <2>5. Step(it)[1 .. k] = Plus(it[(1 .. k) \ {Max(1 .. k)}], s[Max(1 .. k)])
    BY <2>3
  <2> QED
    BY <2>1, <2>2, <2>4, <2>5
<1> DEFINE p == [k \in 0 .. n |-> it[1 .. k]]
<1>10. p[0] = Zero
  <2>1. 1 .. 0 = {}
    OBVIOUS
  <2> HIDE DEF it
  <2> QED
    BY <1>8, <2>1
<1>11. \A k \in 1 .. n : p[k] = Plus(p[k - 1], s[k])
  <2> HIDE DEF it
  <2> QED
    BY <1>9
<1> HIDE DEF it
<1>12. p \in [0 .. n -> Decimal]
  <2> DEFINE U == {k \in Nat : k <= n => p[k] \in Decimal}
  <2>1. 0 \in U
    BY <1>3, <1>10
  <2>2. ASSUME NEW k \in U PROVE k + 1 \in U
    <3>1. SUFFICES ASSUME k + 1 <= n PROVE p[k + 1] \in Decimal
      OBVIOUS
    <3>2. k + 1 \in 1 .. n /\ k <= n /\ (k + 1) - 1 = k
      BY <3>1
    <3> HIDE DEF p
    <3>3. p[k + 1] = Plus(p[k], s[k + 1])
      BY <1>11, <3>2
    <3> QED
      BY <1>1, <3>2, <3>3, Closed
  <2>3. U = Nat
    <3>1. U \subseteq Nat
      OBVIOUS
    <3> HIDE DEF U
    <3> QED
      BY <2>1, <2>2, <3>1, NumbersFromZero
  <2>4. \A k \in 0 .. n : k \in U
    <3> HIDE DEF U
    <3> QED
      BY <2>3
  <2>5. \A k \in 0 .. n : p[k] \in Decimal
    BY <2>4
  <2> QED
    BY <2>5
<1>13. Total(s) = p[n]
  BY <1>5
<1> HIDE DEF p
<1> QED
  BY <1>10, <1>11, <1>12, <1>13 DEF PartialSums

(* A total of decimals is one.                                             *)
LEMMA TotalClosed ==
  ASSUME NEW n \in Nat, NEW s \in [1 .. n -> Decimal]
  PROVE  Total(s) \in Decimal
<1>1. s \in Seq(Decimal) /\ Len(s) = n
  OBVIOUS
<1>2. PICK p : PartialSums(p, s) /\ Total(s) = p[n]
  BY <1>1, TotalOf
<1> QED
  BY <1>1, <1>2 DEF PartialSums

(* A power is a product of as many factors.                                *)
LEMMA ProductOf ==
  ASSUME NEW n \in Nat, NEW s \in [1 .. n -> Decimal]
  PROVE  FoldLeft(Times, Whole(1), s) \in Decimal
<1> DEFINE op == [q \in Decimal \X Decimal |-> Times(q[1], q[2])]
<1>1. DOMAIN s = 1 .. n
  OBVIOUS
<1>2. op \in [Decimal \X Decimal -> Decimal]
  BY Closed
<1>3. Whole(1) \in Decimal
  BY WholeOf
<1>4. PICK f \in [SUBSET (1 .. n) -> Decimal] : FoldsUpTo(f, n, n, Whole(1), op, s)
  <2> HIDE DEF op
  <2> QED
    BY <1>2, <1>3, FoldsExist
<1> DEFINE Step(g) == [t \in SUBSET (1 .. n) |->
                         IF t = {} THEN Whole(1) ELSE Times(g[t \ {Max(t)}], s[Max(t)])]
           it == CHOOSE g : g = Step(g)
<1>5. FoldLeft(Times, Whole(1), s) = it[1 .. n]
  BY <1>1 DEF FoldLeft, MapThenFoldSet
<1>6. f = Step(f)
  <2>1. ASSUME NEW t \in SUBSET (1 .. n), t # {}
        PROVE  f[t] = Times(f[t \ {Max(t)}], s[Max(t)])
    <3>1. Max(t) \in 1 .. n /\ t \ {Max(t)} \in SUBSET (1 .. n)
      BY <2>1, MaxIn
    <3>2. f[t] = op[<<f[t \ {Max(t)}], s[Max(t)]>>]
      BY <1>4, <2>1 DEF FoldsUpTo
    <3>3. f[t \ {Max(t)}] \in Decimal /\ s[Max(t)] \in Decimal
      BY <3>1
    <3> QED
      BY <3>2, <3>3
  <2>2. f[{}] = Whole(1)
    BY <1>4 DEF FoldsUpTo
  <2> HIDE DEF op
  <2>3. \A t \in SUBSET (1 .. n) : f[t] = Step(f)[t]
    BY <2>1, <2>2
  <2> QED
    BY <2>3
<1>7. it = Step(it)
  <2> HIDE DEF Step
  <2> QED
    BY <1>6
<1> HIDE DEF it
<1> DEFINE T == {k \in Nat : \A t \in SUBSET (1 .. n) : t \subseteq 1 .. k => it[t] \in Decimal}
<1>8. \A t \in SUBSET (1 .. n) :
        it[t] = IF t = {} THEN Whole(1) ELSE Times(it[t \ {Max(t)}], s[Max(t)])
  <2>1. \A t \in SUBSET (1 .. n) : it[t] = Step(it)[t]
    <3> HIDE DEF Step
    <3> QED
      BY <1>7
  <2> QED
    BY <2>1
<1>9. 0 \in T
  <2>1. 1 .. 0 = {}
    OBVIOUS
  <2>2. it[{}] \in Decimal
    BY <1>3, <1>8
  <2> QED
    BY <2>1, <2>2
<1>10. ASSUME NEW k \in T PROVE k + 1 \in T
  <2>1. ASSUME NEW t \in SUBSET (1 .. n), t \subseteq 1 .. k + 1, t # {}
        PROVE  it[t] \in Decimal
    <3>1. Max(t) \in t /\ \A i \in t : i <= Max(t)
      BY <2>1, MaxIn
    <3>2. Max(t) \in 1 .. k + 1 /\ s[Max(t)] \in Decimal
      BY <2>1, <3>1
    <3>3. t \ {Max(t)} \subseteq 1 .. k /\ t \ {Max(t)} \in SUBSET (1 .. n)
      <4>1. ASSUME NEW i \in t, i # Max(t) PROVE i \in 1 .. k
        <5>1. i \in 1 .. k + 1 /\ i <= Max(t)
          BY <2>1, <3>1
        <5> QED
          BY <3>2, <4>1, <5>1
      <4> QED
        BY <4>1
    <3>4. it[t \ {Max(t)}] \in Decimal
      BY <3>3
    <3>5. it[t] = Times(it[t \ {Max(t)}], s[Max(t)])
      BY <1>8, <2>1
    <3> QED
      BY <3>2, <3>4, <3>5, Closed
  <2>2. it[{}] \in Decimal
    BY <1>3, <1>8
  <2> QED
    BY <2>1, <2>2
<1>11. T = Nat
  <2>1. T \subseteq Nat
    OBVIOUS
  <2> HIDE DEF T
  <2> QED
    BY <1>9, <1>10, <2>1, NumbersFromZero
<1>12. n \in T
  <2> HIDE DEF T
  <2> QED
    BY <1>11
<1>13. it[1 .. n] \in Decimal
  BY <1>12
<1> HIDE DEF T
<1> QED
  BY <1>5, <1>13

-----------------------------------------------------------------------------
(* Decimals are added and compared by the parts they are made of: those of *)
(* several may be chosen alike, whatever their denominators.               *)

(* x is a of the D parts that 1 is divided in.                             *)
Is(x, a, D) == x[1] * D = a * x[2]

(* Parts add up, and compare as the decimals they make.                    *)
LEMMA PartsOf ==
  ASSUME NEW D \in Positive, NEW x \in Decimal, NEW y \in Decimal, NEW a \in Int, NEW b \in Int,
         Is(x, a, D), Is(y, b, D)
  PROVE  /\ Is(Plus(x, y), a + b, D)
         /\ Is(Minus(x, y), a - b, D)
         /\ Leq(x, y) <=> a <= b
<1>1. \A z \in Decimal : z[1] \in Int /\ z[2] \in Nat /\ z[2] # 0
  BY DecimalOf
<1>d. D \in Nat /\ D # 0
  BY DEF Positive
<1>2. ASSUME NEW c \in Int,
             NEW w, w[1] \in Int, w[2] = y[2], Is(w, c, D)
      PROVE  Is(Plus(x, w), a + c, D)
  <2> DEFINE p == Plus(x, w)  x1 == x[1]  x2 == x[2]  w1 == w[1]  w2 == w[2]
             m == x1 * w2 + w1 * x2  d == x2 * w2
  <2>1. x1 \in Int /\ x2 \in Nat /\ x2 # 0 /\ w1 \in Int /\ w2 \in Nat /\ w2 # 0
    BY <1>1, <1>2
  <2>2. x1 * D = a * x2 /\ w1 * D = c * w2
    BY <1>2 DEF Is
  <2>3. m \in Int /\ d \in Int /\ d # 0 /\ d \in Positive
    BY <2>1 DEF Positive
  <2>4. p = Frac(m, d)
    BY DEF Plus
  <2> HIDE DEF p, m, d
  <2>5. p \in Decimal /\ p[1] * d = m * p[2]
    BY <2>3, <2>4, FracOf
  <2>6. p[1] \in Int /\ p[2] \in Nat
    BY <1>1, <2>5
  <2>7. m * D = (a + c) * d
    <3> HIDE DEF x1, x2, w1, w2
    <3>1. m * D = (x1 * D) * w2 + (w1 * D) * x2
      BY <2>1, <1>d DEF m
    <3>2. (a * x2) * w2 + (c * w2) * x2 = (a + c) * d
      BY <2>1 DEF d
    <3> QED
      BY <2>2, <3>1, <3>2
  <2>8. (p[1] * D) * d = ((a + c) * p[2]) * d
    <3>1. (p[1] * D) * d = (p[1] * d) * D
      BY <1>d, <2>3, <2>6
    <3>2. (m * p[2]) * D = (m * D) * p[2]
      BY <1>d, <2>3, <2>6
    <3>3. ((a + c) * d) * p[2] = ((a + c) * p[2]) * d
      BY <2>3, <2>6
    <3> QED
      BY <2>5, <2>7, <3>1, <3>2, <3>3
  <2>9. p[1] * D \in Int /\ (a + c) * p[2] \in Int
    BY <1>d, <2>6
  <2>10. p[1] * D = (a + c) * p[2]
    BY <2>3, <2>8, <2>9, Ordered
  <2> QED
    BY <2>10 DEF Is, p
<1>3. Is(Plus(x, y), a + b, D)
  <2>1. y[1] \in Int
    BY <1>1
  <2> QED
    BY <1>2, <2>1
<1>4. Is(Minus(x, y), a - b, D)
  <2> DEFINE w == <<-y[1], y[2]>>
  <2>1. w[1] = -y[1] /\ w[2] = y[2] /\ w[1] \in Int /\ y[1] \in Int /\ y[2] \in Int
    BY <1>1
  <2>2. -b \in Int /\ a + (-b) = a - b
    OBVIOUS
  <2>3. Is(w, -b, D)
    <3>1. (-y[1]) * D = -(y[1] * D) /\ (-b) * y[2] = -(b * y[2])
      BY <1>d, <2>1
    <3> QED
      BY <2>1, <3>1 DEF Is
  <2>4. Minus(x, y) = Plus(x, w)
    BY DEF Minus
  <2> HIDE DEF w
  <2>5. Is(Plus(x, w), a + (-b), D)
    BY <1>2, <2>1, <2>2, <2>3
  <2> QED
    BY <2>2, <2>4, <2>5
<1>5. Leq(x, y) <=> a <= b
  <2> DEFINE x1 == x[1]  x2 == x[2]  y1 == y[1]  y2 == y[2]
  <2>1. /\ x1 \in Int /\ x2 \in Nat /\ x2 # 0 /\ x2 * y2 \in Positive
        /\ y1 \in Int /\ y2 \in Nat /\ y2 # 0
    BY <1>1 DEF Positive
  <2>2. x1 * D = a * x2 /\ y1 * D = b * y2
    BY DEF Is
  <2>3. Leq(x, y) <=> x1 * y2 <= y1 * x2
    BY DEF Leq
  <2> HIDE DEF x1, x2, y1, y2
  <2>4. x1 * y2 <= y1 * x2 <=> (x1 * y2) * D <= (y1 * x2) * D
    BY <2>1, Ordered
  <2>5. (x1 * y2) * D = a * (x2 * y2) /\ (y1 * x2) * D = b * (x2 * y2)
    <3>1. (x1 * y2) * D = (x1 * D) * y2 /\ (y1 * x2) * D = (y1 * D) * x2
      BY <1>d, <2>1
    <3>2. (a * x2) * y2 = a * (x2 * y2) /\ (b * y2) * x2 = b * (x2 * y2)
      BY <2>1
    <3> QED
      BY <2>2, <3>1, <3>2
  <2>6. a <= b <=> a * (x2 * y2) <= b * (x2 * y2)
    BY <2>1, Ordered
  <2> QED
    BY <2>3, <2>4, <2>5, <2>6
<1> QED
  BY <1>3, <1>4, <1>5

(* In finer parts it is more of them.                                      *)
LEMMA FinerParts ==
  ASSUME NEW x \in Decimal, NEW a \in Int, NEW E \in Positive, NEW k \in Positive, Is(x, a, E)
  PROVE  Is(x, a * k, E * k) /\ a * k \in Int /\ E * k \in Positive
<1>1. x[1] \in Int /\ x[2] \in Int /\ k \in Nat /\ k # 0 /\ E \in Nat /\ E # 0 /\ x[1] * E = a * x[2]
  BY DecimalOf DEF Is, Positive
<1>2. x[1] * (E * k) = (x[1] * E) * k /\ (a * x[2]) * k = (a * k) * x[2]
  BY <1>1
<1> QED
  BY <1>1, <1>2 DEF Is, Positive

(* A decimal is made of some parts, that may be finer than any others.     *)
LEMMA PartsFor ==
  ASSUME NEW x \in Decimal, NEW E \in Positive
  PROVE  \E k \in Positive, a \in Int : Is(x, a, E * k)
<1>1. x[1] \in Int /\ x[2] \in Positive /\ x[2] \in Int /\ E \in Int
  BY DecimalOf DEF Positive
<1>2. x[1] * (E * x[2]) = (x[1] * E) * x[2] /\ x[1] * E \in Int
  BY <1>1
<1> QED
  BY <1>1, <1>2 DEF Is

(* So are many decimals, all of the same parts.                            *)
LEMMA CommonParts ==
  ASSUME NEW n \in Nat, NEW s \in [1 .. n -> Decimal], NEW E \in Positive
  PROVE  \E k \in Positive : \A i \in 1 .. n : \E a \in Int : Is(s[i], a, E * k)
<1> DEFINE T == {m \in Nat : m <= n =>
                   \E k \in Positive : \A i \in 1 .. m : \E a \in Int : Is(s[i], a, E * k)}
<1>1. 0 \in T
  <2>1. 1 \in Positive /\ \A i \in 1 .. 0 : FALSE
    BY DEF Positive
  <2> QED
    BY <2>1
<1>2. ASSUME NEW m \in T PROVE m + 1 \in T
  <2>1. SUFFICES ASSUME m + 1 <= n
        PROVE \E k \in Positive : \A i \in 1 .. m + 1 : \E a \in Int : Is(s[i], a, E * k)
    OBVIOUS
  <2>2. PICK k \in Positive : \A i \in 1 .. m : \E a \in Int : Is(s[i], a, E * k)
    BY <2>1
  <2>3. m + 1 \in 1 .. n /\ s[m + 1] \in Decimal
    BY <2>1
  <2>4. E * k \in Positive
    BY DEF Positive
  <2>5. PICK l \in Positive : \E a \in Int : Is(s[m + 1], a, (E * k) * l)
    BY <2>3, <2>4, PartsFor
  <2>6. k * l \in Positive /\ (E * k) * l = E * (k * l)
    BY DEF Positive
  <2>7. ASSUME NEW i \in 1 .. m + 1 PROVE \E a \in Int : Is(s[i], a, E * (k * l))
    <3>1. CASE i = m + 1
      BY <2>5, <2>6, <3>1
    <3>2. CASE i \in 1 .. m
      <4>1. s[i] \in Decimal
        BY <2>1, <3>2
      <4>2. PICK a \in Int : Is(s[i], a, E * k)
        BY <2>2, <3>2
      <4> QED
        BY <2>4, <2>6, <4>1, <4>2, FinerParts
    <3> QED
      BY <3>1, <3>2
  <2> QED
    BY <2>6, <2>7
<1>3. T = Nat
  <2>1. T \subseteq Nat
    OBVIOUS
  <2> HIDE DEF T
  <2> QED
    BY <1>1, <1>2, <2>1, NumbersFromZero
<1>4. n \in T
  <2> HIDE DEF T
  <2> QED
    BY <1>3
<1> QED
  BY <1>4

(* They may be parts of half a cent.                                       *)
LEMMA CommonCents ==
  ASSUME NEW n \in Nat, NEW s \in [1 .. n -> Decimal]
  PROVE  \E e \in Positive : \A i \in 1 .. n : \E a \in Int : Is(s[i], a, 200 * e)
<1> DEFINE Common(E) == \E k \in Positive : \A i \in 1 .. n : \E a \in Int : Is(s[i], a, E * k)
<1>1. ASSUME NEW E \in Positive PROVE Common(E)
  BY CommonParts
<1>2. 200 \in Positive
  BY DEF Positive
<1>3. Common(200)
  <2> HIDE DEF Common
  <2> QED
    BY <1>1, <1>2
<1> QED
  BY <1>3

(* Two decimals are made of the same parts.                                *)
LEMMA PartsOfTwo ==
  ASSUME NEW x \in Decimal, NEW y \in Decimal
  PROVE  \E D \in Positive, a, b \in Int : Is(x, a, D) /\ Is(y, b, D)
<1>1. PICK P \in Positive, c \in Int : Is(x, c, P)
  <2>1. 1 \in Positive /\ \A k \in Positive : 1 * k = k
    BY DEF Positive
  <2>2. \E k \in Positive, c \in Int : Is(x, c, 1 * k)
    BY <2>1, PartsFor
  <2> QED
    BY <2>1, <2>2
<1>2. PICK k \in Positive, b \in Int : Is(y, b, P * k)
  BY PartsFor
<1>3. Is(x, c * k, P * k) /\ c * k \in Int /\ P * k \in Positive
  BY <1>1, FinerParts
<1> QED
  BY <1>2, <1>3

(* A fraction is whole in parts of any multiple of its denominator.        *)
LEMMA PartsOfFraction ==
  ASSUME NEW k \in Int, NEW d \in Positive, NEW E \in Positive
  PROVE  Frac(k, d) \in Decimal /\ Is(Frac(k, d), k * E, d * E)
<1>0. d \in Int /\ d # 0
  BY DEF Positive
<1>1. Frac(k, d) \in Decimal /\ Frac(k, d)[1] * d = k * Frac(k, d)[2]
  BY <1>0, FracOf
<1>2. Frac(k, d)[1] \in Int /\ Frac(k, d)[2] \in Int /\ E \in Int
  BY <1>1, DecimalOf DEF Positive
<1> DEFINE p == Frac(k, d)[1]
           q == Frac(k, d)[2]
<1> HIDE DEF p, q
<1>3. p * (d * E) = (p * d) * E /\ (k * q) * E = (k * E) * q
  BY <1>0, <1>2 DEF p, q
<1> QED
  BY <1>1, <1>3 DEF Is, p, q

(* A product is made of the parts of the parts.                            *)
LEMMA PartsOfProduct ==
  ASSUME NEW P \in Positive, NEW Q \in Positive, NEW x \in Decimal, NEW y \in Decimal,
         NEW a \in Int, NEW b \in Int, Is(x, a, P), Is(y, b, Q)
  PROVE  Is(Times(x, y), a * b, P * Q)
<1> DEFINE x1 == x[1]  x2 == x[2]  y1 == y[1]  y2 == y[2]
           m == x1 * y1  d == x2 * y2  p == Times(x, y)
<1>1. /\ x1 \in Int /\ x2 \in Nat /\ x2 # 0 /\ y1 \in Int /\ y2 \in Nat /\ y2 # 0
      /\ P \in Nat /\ P # 0 /\ Q \in Nat /\ Q # 0
  BY DecimalOf DEF Positive
<1>2. x1 * P = a * x2 /\ y1 * Q = b * y2
  BY DEF Is
<1>3. m \in Int /\ d \in Int /\ d # 0 /\ d \in Positive
  BY <1>1 DEF Positive
<1>4. p = Frac(m, d)
  BY DEF Times
<1> HIDE DEF p, m, d
<1>5. p \in Decimal /\ p[1] * d = m * p[2]
  BY <1>3, <1>4, FracOf
<1>6. p[1] \in Int /\ p[2] \in Nat
  BY <1>5, DecimalOf
<1> HIDE DEF x1, x2, y1, y2
<1>7. m * (P * Q) = (a * b) * d
  <2>1. m * (P * Q) = (x1 * P) * (y1 * Q)
    BY <1>1 DEF m
  <2>2. (a * x2) * (b * y2) = (a * b) * d
    BY <1>1 DEF d
  <2> QED
    BY <1>2, <2>1, <2>2
<1> DEFINE D == P * Q
           c == a * b
<1>8. D \in Int /\ c \in Int /\ m * D = c * d
  BY <1>1, <1>7
<1> HIDE DEF D, c
<1>9. (p[1] * D) * d = (c * p[2]) * d
  <2>1. (p[1] * D) * d = (p[1] * d) * D
    BY <1>3, <1>6, <1>8
  <2>2. (m * p[2]) * D = (m * D) * p[2]
    BY <1>3, <1>6, <1>8
  <2>3. (c * d) * p[2] = (c * p[2]) * d
    BY <1>3, <1>6, <1>8
  <2> QED
    BY <1>5, <1>8, <2>1, <2>2, <2>3
<1>10. p[1] * D \in Int /\ c * p[2] \in Int
  BY <1>6, <1>8
<1>11. p[1] * D = c * p[2]
  BY <1>3, <1>9, <1>10, Ordered
<1> QED
  BY <1>11 DEF Is, p, D, c

(* A hundredth has as many parts, each a hundredth.                        *)
LEMMA PartsOfHundredth ==
  ASSUME NEW Q \in Positive, NEW x \in Decimal, NEW a \in Int, Is(x, a, Q)
  PROVE  Divided(x, Whole(100)) \in Decimal /\ Is(Divided(x, Whole(100)), a, 100 * Q)
<1> DEFINE x1 == x[1]  x2 == x[2]  q == Divided(x, Whole(100))
<1>1. x1 \in Int /\ x2 \in Nat /\ x2 # 0 /\ Q \in Nat /\ x2 \in Positive
  BY DecimalOf DEF Positive
<1>2. x1 * Q = a * x2
  BY DEF Is
<1>3. q = Frac(x1, x2 * 100)
  <2>1. x1 * 1 = x1
    BY <1>1
  <2> QED
    BY <2>1 DEF Divided, Whole
<1> HIDE DEF q, x1, x2
<1>4. q \in Decimal /\ q[1] * (x2 * 100) = x1 * q[2]
  <2> DEFINE y == x2 * 100
  <2>1. y \in Int /\ y # 0
    BY <1>1
  <2>2. q = Frac(x1, y)
    BY <1>3
  <2> HIDE DEF y
  <2>3. q \in Decimal /\ q[1] * y = x1 * q[2]
    BY <1>1, <2>1, <2>2, FracOf
  <2> QED
    BY <2>3 DEF y
<1>5. q[1] \in Int /\ q[2] \in Int
  BY <1>4, DecimalOf
<1>6. (q[1] * (100 * Q)) * x2 = (a * q[2]) * x2
  <2>1. (q[1] * (100 * Q)) * x2 = (q[1] * (x2 * 100)) * Q
    BY <1>1, <1>5
  <2>2. (x1 * q[2]) * Q = (x1 * Q) * q[2]
    BY <1>1, <1>5
  <2>3. (a * x2) * q[2] = (a * q[2]) * x2
    BY <1>1, <1>5
  <2> QED
    BY <1>2, <1>4, <2>1, <2>2, <2>3
<1>7. q[1] * (100 * Q) = a * q[2]
  <2>1. q[1] * (100 * Q) \in Int /\ a * q[2] \in Int
    BY <1>1, <1>5
  <2> QED
    BY <1>1, <1>6, <2>1, Ordered
<1> QED
  BY <1>4, <1>7 DEF Is, q

-----------------------------------------------------------------------------
(* Rounding to the places of a column.                                     *)

(* What is stored differs by half a cent at most from what was to be.      *)
LEMMA StoreNear ==
  ASSUME NEW x \in Decimal, NEW E \in Positive, NEW a \in Int, Is(x, a, 200 * E)
  PROVE  \E b \in Int : Is(Store(x), b, 200 * E) /\ -E <= b - a /\ b - a <= E
<1> DEFINE x1 == x[1]
           d == x[2]
           u == Abs(x1) * 100
           q == (2 * u + d) \div (2 * d)
           m == Sign(x1) * q
<1>1. x1 \in Int /\ d \in Nat /\ d # 0 /\ d \in Positive /\ E \in Nat /\ E # 0 /\ u \in Nat
      /\ 200 * E \in Nat
  BY DecimalOf DEF Positive, Abs
<1>2. q \in Nat /\ (2 * d) * q <= 2 * u + d /\ 2 * u + d < (2 * d) * q + 2 * d
  <2> HIDE DEF x1, d, u
  <2>1. 2 * u + d \in Nat /\ 2 * d \in Positive
    BY <1>1 DEF Positive
  <2> DEFINE v == 2 * u + d
             c == 2 * d
  <2>2. q = v \div c
    OBVIOUS
  <2> HIDE DEF q, v, c
  <2>3. v % c \in Nat /\ v % c < c /\ v \div c \in Nat /\ v = c * (v \div c) + (v % c)
    BY <2>1, RemainderOf DEF v, c
  <2>4. q \in Nat /\ c * q <= v /\ v < c * q + c
    <3>1. c * q \in Int /\ v \in Int /\ c \in Int
      BY <2>1, <2>2, <2>3 DEF v, c, Positive
    <3> QED
      BY <2>2, <2>3, <3>1
  <2> QED
    BY <2>4 DEF v, c
<1>3. m \in Int /\ Store(x) = Frac(m, 100)
  <2>1. Store(x) = Frac(m, 100)
    BY DEF Store, ToPlaces
  <2> HIDE DEF q
  <2> QED
    BY <1>2, <2>1 DEF Sign
<1>4. -d <= 2 * (m * d) - 200 * x1 /\ 2 * (m * d) - 200 * x1 <= d
  <2> HIDE DEF q
  <2>1. q * d \in Int /\ (2 * d) * q = 2 * (q * d)
    BY <1>1, <1>2
  <2>2. -d <= 2 * (q * d) - 2 * u /\ 2 * (q * d) - 2 * u <= d
    BY <1>1, <1>2, <2>1
  <2>3. CASE x1 < 0
    <3>1. 2 * u = -(200 * x1)
      BY <1>1, <2>3 DEF Abs
    <3>2. m = -q
      BY <1>2, <2>3 DEF Sign
    <3>3. (-q) * d = -(q * d)
      BY <1>1, <1>2
    <3> HIDE DEF x1, u, d, m
    <3> QED
      BY <1>1, <2>1, <2>2, <3>1, <3>2, <3>3
  <2>4. CASE x1 >= 0
    <3>1. 2 * u = 200 * x1 /\ m = q
      BY <1>1, <1>2, <2>4 DEF Abs, Sign
    <3> HIDE DEF x1, u, d, m
    <3> QED
      BY <1>1, <2>1, <2>2, <3>1
  <2> HIDE DEF m, u
  <2> QED
    BY <1>1, <2>3, <2>4
<1>5. x1 * (200 * E) = a * d
  BY DEF Is
<1> HIDE DEF m, q, u, x1, d
<1> DEFINE b == m * (2 * E)
<1>6. b \in Int
  BY <1>1, <1>3
<1>7. Is(Store(x), b, 200 * E)
  <2> DEFINE f1 == Frac(m, 100)[1]
             f2 == Frac(m, 100)[2]
  <2>1. Frac(m, 100) \in Decimal /\ f1 * 100 = m * f2
    BY <1>3, FracOf
  <2>2. f1 \in Int /\ f2 \in Int
    BY <2>1, DecimalOf
  <2> HIDE DEF f1, f2
  <2>3. f1 * (200 * E) = (f1 * 100) * (2 * E) /\ (m * f2) * (2 * E) = (m * (2 * E)) * f2
    BY <1>1, <1>3, <2>2
  <2> QED
    BY <1>3, <2>1, <2>3 DEF Is, f1, f2
<1>8. (b - a) * d = (2 * (m * d) - 200 * x1) * E
  <2>1. (b - a) * d = b * d - a * d
    BY <1>1, <1>6
  <2>2. (m * (2 * E)) * d = (2 * (m * d)) * E
    BY <1>1, <1>3
  <2>3. x1 * (200 * E) = (200 * x1) * E
    BY <1>1
  <2>4. \A v, w \in Int : v * E - w * E = (v - w) * E
    BY <1>1
  <2>5. 2 * (m * d) \in Int /\ 200 * x1 \in Int
    BY <1>1, <1>3
  <2> QED
    BY <1>5, <2>1, <2>2, <2>3, <2>4, <2>5
<1>9. -E <= b - a /\ b - a <= E
  <2> DEFINE z == 2 * (m * d) - 200 * x1
             y == b - a
  <2>1. z \in Int /\ y \in Int /\ -d <= z /\ z <= d /\ y * d = z * E
    BY <1>1, <1>3, <1>4, <1>6, <1>8
  <2> HIDE DEF z, y
  <2>2. (-d) * E <= z * E /\ z * E <= d * E
    <3>1. -d \in Int /\ d \in Int
      BY <1>1
    <3> QED
      BY <2>1, <3>1, Ordered
  <2>3. (-d) * E = (-E) * d /\ d * E = E * d /\ -E \in Int /\ E \in Int
    BY <1>1
  <2>4. (-E) * d <= y * d /\ y * d <= E * d
    BY <2>1, <2>2, <2>3
  <2>5. -E <= y /\ y <= E
    BY <1>1, <2>1, <2>3, <2>4, Ordered
  <2> QED
    BY <2>5 DEF y
<1> QED
  BY <1>6, <1>7, <1>9

(* What is stored of an amount has the places of its column.               *)
LEMMA StoredAmount ==
  ASSUME NEW x \in Decimal
  PROVE  Store(x) \in Decimal /\ 100 % Store(x)[2] = 0
<1>1. 100 \in Positive
  BY DEF Positive
<1> QED
  BY <1>1, PlacesOf DEF Store

(* Storing an amount that is not negative gives one that is not.           *)
LEMMA StoredSign ==
  ASSUME NEW x \in Decimal, Leq(Zero, x)
  PROVE  Leq(Zero, Store(x))
<1> DEFINE n == Sign(x[1]) * ((2 * (Abs(x[1]) * 100) + x[2]) \div (2 * x[2]))
<1>1. x[1] \in Int /\ x[2] \in Nat /\ x[2] # 0
  BY DecimalOf
<1>2. x[1] >= 0
  BY <1>1 DEF Leq, Zero, Whole
<1>3. n \in Nat
  <2>1. \A a \in Nat, b \in Nat \ {0} : a \div b \in Nat
    OBVIOUS
  <2>2. 2 * (Abs(x[1]) * 100) + x[2] \in Nat /\ 2 * x[2] \in Nat \ {0}
    BY <1>1, <1>2 DEF Abs
  <2>3. (2 * (Abs(x[1]) * 100) + x[2]) \div (2 * x[2]) \in Nat
    BY <2>1, <2>2
  <2> DEFINE q == (2 * (Abs(x[1]) * 100) + x[2]) \div (2 * x[2])
  <2>4. n = Sign(x[1]) * q /\ q \in Nat
    BY <2>3
  <2>5. Sign(x[1]) = 1
    BY <1>1, <1>2 DEF Sign
  <2> HIDE DEF n, q
  <2> QED
    BY <2>4, <2>5
<1>4. Store(x) = Frac(n, 100)
  BY DEF Store, ToPlaces
<1> HIDE DEF n
<1> DEFINE y == Frac(n, 100)
<1>5. y \in Decimal /\ y[1] * 100 = n * y[2]
  BY <1>3, FracOf
<1>6. y[1] \in Int /\ y[2] \in Nat
  BY <1>5, DecimalOf
<1> HIDE DEF y
<1>7. n * y[2] >= 0
  BY <1>3, <1>6
<1>8. y[1] >= 0
  BY <1>5, <1>6, <1>7
<1> QED
  BY <1>4, <1>6, <1>8 DEF y, Leq, Zero, Whole

(* What is stored is at most half a cent more than what was to be.         *)
LEMMA StoreAbove ==
  ASSUME NEW x \in Decimal
  PROVE  Leq(Store(x), Plus(x, Frac(1, 200)))
<1> DEFINE h == Frac(1, 200)
<1>1. 200 \in Positive /\ 1 \in Int
  BY DEF Positive
<1>2. PICK E \in Positive, a \in Int : Is(x, a, 200 * E)
  BY <1>1, PartsFor
<1>3. PICK b \in Int : Is(Store(x), b, 200 * E) /\ b - a <= E
  BY <1>2, StoreNear
<1>4. h \in Decimal /\ Is(h, 1 * E, 200 * E)
  BY <1>1, PartsOfFraction
<1> DEFINE D == 200 * E
<1>5. D \in Positive /\ E \in Int /\ 1 * E = E
  BY DEF Positive
<1> HIDE DEF D, h
<1>6. Is(h, E, D)
  BY <1>4, <1>5 DEF D
<1>7. Is(x, a, D) /\ Is(Store(x), b, D)
  BY <1>2, <1>3 DEF D
<1>8. Is(Plus(x, h), a + E, D) /\ Plus(x, h) \in Decimal /\ Store(x) \in Decimal
  BY <1>4, <1>5, <1>6, <1>7, PartsOf, Closed, StoredAmount
<1>9. a + E \in Int /\ b <= a + E
  BY <1>3, <1>5
<1>10. Leq(Store(x), Plus(x, h))
  BY <1>5, <1>7, <1>8, <1>9, PartsOf
<1> QED
  BY <1>10 DEF h

-----------------------------------------------------------------------------
(* Sums and products, and what they are no more than.                      *)

(* Sums of what is not more are not more.                                  *)
LEMMA PlusMonotone ==
  ASSUME NEW x \in Decimal, NEW y \in Decimal, NEW u \in Decimal, NEW v \in Decimal,
         Leq(x, u), Leq(y, v)
  PROVE  Leq(Plus(x, y), Plus(u, v))
<1> DEFINE s == <<x, y, u, v>>
<1>1. s \in [1 .. 4 -> Decimal] /\ 1 \in Positive
  BY DEF Positive
<1>2. PICK D \in Positive : \A i \in 1 .. 4 : \E a \in Int : Is(s[i], a, 1 * D)
  <2> HIDE DEF s
  <2> QED
    BY <1>1, CommonParts
<1>3. 1 * D = D
  BY DEF Positive
<1>4. PICK a \in Int : Is(x, a, D)
  BY <1>2, <1>3
<1>5. PICK b \in Int : Is(y, b, D)
  BY <1>2, <1>3
<1>6. PICK c \in Int : Is(u, c, D)
  BY <1>2, <1>3
<1>7. PICK d \in Int : Is(v, d, D)
  BY <1>2, <1>3
<1> HIDE DEF s
<1>8. a <= c /\ b <= d
  BY <1>4, <1>5, <1>6, <1>7, PartsOf
<1>9. Is(Plus(x, y), a + b, D) /\ Is(Plus(u, v), c + d, D)
  BY <1>4, <1>5, <1>6, <1>7, PartsOf
<1>10. a + b \in Int /\ c + d \in Int /\ a + b <= c + d
  BY <1>8
<1> QED
  BY <1>9, <1>10, PartsOf, Closed

(* Totals of amounts that are not more are not more.                       *)
LEMMA TotalMonotone ==
  ASSUME NEW n \in Nat, NEW r \in [1 .. n -> Decimal], NEW b \in [1 .. n -> Decimal],
         \A i \in 1 .. n : Leq(r[i], b[i])
  PROVE  Leq(Total(r), Total(b))
<1>1. r \in Seq(Decimal) /\ b \in Seq(Decimal) /\ Len(r) = n /\ Len(b) = n
  OBVIOUS
<1>2. PICK R : PartialSums(R, r) /\ Total(r) = R[n]
  BY <1>1, TotalOf
<1>3. PICK B : PartialSums(B, b) /\ Total(b) = B[n]
  BY <1>1, TotalOf
<1> DEFINE T == {k \in Nat : k <= n => Leq(R[k], B[k])}
<1>4. 0 \in T
  <2>1. R[0] = Zero /\ B[0] = Zero /\ Zero \in Decimal
    BY <1>2, <1>3, WholeOf DEF PartialSums, Zero
  <2> QED
    BY <2>1, LeqOrders
<1>5. ASSUME NEW k \in T PROVE k + 1 \in T
  <2>1. SUFFICES ASSUME k + 1 <= n PROVE Leq(R[k + 1], B[k + 1])
    OBVIOUS
  <2>2. k + 1 \in 1 .. n /\ k \in 0 .. n /\ (k + 1) - 1 = k /\ Leq(R[k], B[k])
    BY <2>1
  <2>3. /\ R[k] \in Decimal /\ B[k] \in Decimal
        /\ R[k + 1] = Plus(R[k], r[k + 1]) /\ B[k + 1] = Plus(B[k], b[k + 1])
    BY <1>1, <1>2, <1>3, <2>2 DEF PartialSums
  <2>4. r[k + 1] \in Decimal /\ b[k + 1] \in Decimal /\ Leq(r[k + 1], b[k + 1])
    BY <2>2
  <2> QED
    BY <2>2, <2>3, <2>4, PlusMonotone
<1>6. T = Nat
  <2>1. T \subseteq Nat
    OBVIOUS
  <2> HIDE DEF T
  <2> QED
    BY <1>4, <1>5, <2>1, NumbersFromZero
<1>7. n \in T
  <2> HIDE DEF T
  <2> QED
    BY <1>6
<1> QED
  BY <1>2, <1>3, <1>7

(* A sum over some of the elements of a set is no more than over all, if   *)
(* none is negative.                                                       *)
LEMMA SumsMonotone ==
  ASSUME NEW S, NEW w, NEW g, IsSum(g, S, w), \A x \in S : w[x] >= 0,
         NEW t \in SUBSET S
  PROVE  g[t] <= g[S]
<1> USE DEF IsSum
<1> DEFINE T == {u \in SUBSET S : t \subseteq u /\ ~ (g[t] <= g[u])}
<1>1. SUFFICES ASSUME T # {} PROVE FALSE
  OBVIOUS
<1>2. PICK u \in T : \A v \in T : v \subseteq u => v = u
  <2>1. T \subseteq SUBSET S
    OBVIOUS
  <2> HIDE DEF T
  <2> QED
    BY <1>1, <2>1, LeastSubset
<1>3. g[t] \in Int /\ g[u] \in Int /\ u \in SUBSET S
  BY <1>2
<1>4. PICK y \in u : y \notin t
  <2>1. t \subseteq u /\ ~ (g[t] <= g[u])
    BY <1>2
  <2>2. u # t
    BY <1>3, <2>1
  <2> QED
    BY <2>1, <2>2
<1> DEFINE v == u \ {y}
<1>5. v \in SUBSET S /\ t \subseteq v /\ v \subseteq u /\ v # u /\ y \in S
  BY <1>2, <1>4
<1>6. g[t] <= g[v]
  BY <1>2, <1>5
<1>7. g[u] = w[y] + g[v]
  <2>1. AnyOrder(g, S, w)
    BY SumsAnyOrder
  <2> HIDE DEF T
  <2> QED
    BY <1>3, <1>4, <2>1 DEF AnyOrder
<1>8. g[v] \in Int /\ w[y] \in Int /\ w[y] >= 0
  BY <1>5
<1>9. ~ (g[t] <= g[u])
  BY <1>2
<1> HIDE DEF T, v
<1> QED
  BY <1>3, <1>6, <1>7, <1>8, <1>9

(* Some of many amounts, none taken twice and none negative, add up to no  *)
(* more than all of them.                                                  *)
LEMMA SelectionTotal ==
  ASSUME NEW N \in Nat, NEW v \in [1 .. N -> Decimal], \A j \in 1 .. N : Leq(Zero, v[j]),
         NEW n \in Nat, NEW c \in [1 .. n -> 1 .. N],
         \A i, j \in 1 .. n : c[i] = c[j] => i = j,
         NEW b \in [1 .. n -> Decimal], \A i \in 1 .. n : b[i] = v[c[i]]
  PROVE  Leq(Total(b), Total(v))
<1> DEFINE S == 1 .. N
<1>1. v \in Seq(Decimal) /\ Len(v) = N /\ b \in Seq(Decimal) /\ Len(b) = n
      /\ \A i \in 1 .. n : b[i] = v[c[i]] /\ c[i] \in S
  OBVIOUS
<1>2. PICK V : PartialSums(V, v) /\ Total(v) = V[N]
  BY <1>1, TotalOf
<1>3. PICK B : PartialSums(B, b) /\ Total(b) = B[n]
  BY <1>1, TotalOf
<1>4. PICK D \in Positive : \A j \in 1 .. N : \E a \in Int : Is(v[j], a, D)
  <2>1. 1 \in Positive /\ \A k \in Positive : 1 * k = k
    BY DEF Positive
  <2>2. PICK k \in Positive : \A j \in 1 .. N : \E a \in Int : Is(v[j], a, 1 * k)
    BY <2>1, CommonParts
  <2> QED
    BY <2>1, <2>2
<1> DEFINE w == [j \in S |-> CHOOSE a \in Int : Is(v[j], a, D)]
<1>5. w \in [S -> Int] /\ \A j \in S : Is(v[j], w[j], D)
  BY <1>4
<1>6. IsFiniteSet(S)
  BY FS_Interval
<1> HIDE DEF w
<1>7. PICK g \in [SUBSET S -> Int] : Sums(g, S, w)
  <2> HIDE DEF S
  <2> QED
    BY <1>5, <1>6, SumsExist
<1>8. IsSum(g, S, w)
  BY <1>5, <1>6, <1>7 DEF IsSum
<1>9. AnyOrder(g, S, w)
  BY <1>5, <1>6, <1>7, SumsAnyOrder
<1>0. Is(Zero, 0, D) /\ Zero \in Decimal
  BY WholeOf DEF Is, Zero, Whole, Positive
<1>10. \A j \in S : w[j] >= 0
  <2> TAKE j \in S
  <2>1. 0 <= w[j]
    BY <1>0, <1>5, PartsOf
  <2> QED
    BY <1>5, <2>1
<1>11. g[{}] = 0
  BY <1>7 DEF Sums
<1> DEFINE Q == {k \in Nat : k <= N => Is(V[k], g[1 .. k], D)}
<1>12. Q = Nat
  <2>1. 0 \in Q
    <3>1. 1 .. 0 = {} /\ V[0] = Zero
      BY <1>2 DEF PartialSums
    <3> QED
      BY <1>0, <1>11, <3>1
  <2>2. ASSUME NEW k \in Q PROVE k + 1 \in Q
    <3>1. SUFFICES ASSUME k + 1 <= N PROVE Is(V[k + 1], g[1 .. k + 1], D)
      OBVIOUS
    <3>2. k + 1 \in 1 .. N /\ k \in 0 .. N /\ (k + 1) - 1 = k /\ Is(V[k], g[1 .. k], D)
      BY <3>1
    <3>3. V[k] \in Decimal /\ V[k + 1] = Plus(V[k], v[k + 1]) /\ v[k + 1] \in Decimal
      BY <1>1, <1>2, <3>2 DEF PartialSums
    <3>4. (1 .. k + 1) \ {k + 1} = 1 .. k /\ 1 .. k + 1 \in SUBSET S /\ 1 .. k \in SUBSET S
          /\ k + 1 \in 1 .. k + 1
      BY <3>1
    <3>5. g[1 .. k + 1] = w[k + 1] + g[1 .. k]
      <4> DEFINE t == 1 .. k + 1
      <4>1. t \in SUBSET S /\ k + 1 \in t
        BY <3>4
      <4> HIDE DEF t
      <4>2. g[t] = w[k + 1] + g[t \ {k + 1}]
        BY <1>9, <4>1 DEF AnyOrder
      <4> QED
        BY <3>4, <4>2 DEF t
    <3>6. Is(v[k + 1], w[k + 1], D) /\ w[k + 1] \in Int /\ g[1 .. k] \in Int
      BY <1>5, <3>2, <3>4
    <3>7. Is(Plus(V[k], v[k + 1]), g[1 .. k] + w[k + 1], D)
      BY <3>2, <3>3, <3>6, PartsOf
    <3>8. g[1 .. k] + w[k + 1] = w[k + 1] + g[1 .. k]
      <4> DEFINE y == g[1 .. k]
                 z == w[k + 1]
      <4>1. y \in Int /\ z \in Int
        BY <3>6
      <4> HIDE DEF y, z
      <4>2. y + z = z + y
        BY <4>1
      <4> QED
        BY <4>2 DEF y, z
    <3> QED
      BY <3>3, <3>5, <3>7, <3>8
  <2>3. Q \subseteq Nat
    OBVIOUS
  <2> HIDE DEF Q
  <2> QED
    BY <2>1, <2>2, <2>3, NumbersFromZero
<1> DEFINE C(k) == {c[i] : i \in 1 .. k}
           R == {k \in Nat : k <= n => Is(B[k], g[C(k)], D)}
<1>13. R = Nat
  <2>1. 0 \in R
    <3>1. C(0) = {} /\ B[0] = Zero
      BY <1>3 DEF PartialSums
    <3> QED
      BY <1>0, <1>11, <3>1
  <2>2. ASSUME NEW k \in R PROVE k + 1 \in R
    <3> HIDE DEF C
    <3>1. SUFFICES ASSUME k + 1 <= n PROVE Is(B[k + 1], g[C(k + 1)], D)
      OBVIOUS
    <3> USE DEF C
    <3>2. k + 1 \in 1 .. n /\ k \in 0 .. n /\ (k + 1) - 1 = k /\ Is(B[k], g[C(k)], D)
          /\ (\A i \in 1 .. k : i \in 1 .. n /\ i # k + 1 /\ i \in 1 .. k + 1)
          /\ (\A i \in 1 .. k + 1 : i \in 1 .. n /\ (i \in 1 .. k \/ i = k + 1))
      BY <3>1
    <3> DEFINE x == c[k + 1]
    <3>3. B[k] \in Decimal /\ B[k + 1] = Plus(B[k], b[k + 1]) /\ b[k + 1] = v[x] /\ x \in S
          /\ v[x] \in Decimal
      BY <1>1, <1>3, <3>2 DEF PartialSums
    <3>4. C(k + 1) \ {x} = C(k) /\ C(k + 1) \in SUBSET S /\ C(k) \in SUBSET S /\ x \in C(k + 1)
      <4>1. x \in C(k + 1) /\ C(k) \subseteq C(k + 1) /\ C(k + 1) \subseteq C(k) \cup {x}
        BY <3>2
      <4>2. x \notin C(k)
        BY <3>2
      <4>3. C(k + 1) \subseteq S
        BY <1>1, <3>2
      <4> HIDE DEF x, C
      <4> QED
        BY <4>1, <4>2, <4>3
    <3> HIDE DEF x, C, S
    <3>5. g[C(k + 1)] = w[x] + g[C(k)]
      <4> DEFINE t == C(k + 1)
      <4>1. t \in SUBSET S /\ x \in t
        BY <3>4
      <4> HIDE DEF t
      <4>2. g[t] = w[x] + g[t \ {x}]
        BY <1>9, <4>1 DEF AnyOrder
      <4> QED
        BY <3>4, <4>2 DEF t
    <3>6. Is(v[x], w[x], D) /\ w[x] \in Int /\ g[C(k)] \in Int
      BY <1>5, <3>3, <3>4
    <3>7. Is(Plus(B[k], v[x]), g[C(k)] + w[x], D)
      BY <3>2, <3>3, <3>6, PartsOf
    <3>8. g[C(k)] + w[x] = w[x] + g[C(k)]
      BY <3>6
    <3> QED
      BY <3>3, <3>5, <3>7, <3>8
  <2>3. R \subseteq Nat
    OBVIOUS
  <2> HIDE DEF R
  <2> QED
    BY <2>1, <2>2, <2>3, NumbersFromZero
<1>14. Is(V[N], g[S], D)
  <2>1. N \in Q
    <3> HIDE DEF Q
    <3> QED
      BY <1>12
  <2> QED
    BY <2>1
<1>15. Is(B[n], g[C(n)], D)
  <2>1. n \in R
    <3> HIDE DEF R
    <3> QED
      BY <1>13
  <2> QED
    BY <2>1
<1>16. C(n) \in SUBSET S
  BY <1>1
<1> HIDE DEF C, Q, R, S
<1>17. g[C(n)] <= g[S] /\ g[C(n)] \in Int /\ g[S] \in Int
  BY <1>7, <1>8, <1>10, <1>16, SumsMonotone
<1>18. V[N] \in Decimal /\ B[n] \in Decimal
  BY <1>1, <1>2, <1>3 DEF PartialSums
<1>19. Leq(B[n], V[N])
  BY <1>14, <1>15, <1>17, <1>18, PartsOf
<1> QED
  BY <1>2, <1>3, <1>19

(* Zero adds nothing.                                                      *)
LEMMA WithZero ==
  /\ Zero \in Decimal /\ Plus(Zero, Zero) = Zero
  /\ \A x \in Decimal : Times(Zero, x) = Zero /\ Times(x, Zero) = Zero /\ Leq(Plus(x, Zero), x)
  /\ \A x \in Decimal : x # Zero => Divided(Zero, x) = Zero
<1>0. Zero \in Decimal
  BY WholeOf DEF Zero
<1>1. ASSUME NEW d \in Positive PROVE Frac(0, d) = Zero
  <2> DEFINE f == Frac(0, d)
  <2>1. d \in Int /\ d # 0 /\ 0 \in Int
    BY DEF Positive
  <2>2. f \in Decimal /\ f[1] * d = 0 * f[2]
    BY <2>1, FracOf
  <2>3. f[1] \in Int /\ f[2] \in Nat /\ (f[1] = 0 => f = Zero)
    <3> HIDE DEF f
    <3> QED
      BY <2>2, DecimalOf
  <2> HIDE DEF f
  <2>4. f[1] * d = 0 * d
    BY <2>1, <2>2, <2>3
  <2>5. f[1] = 0
    BY <2>1, <2>3, <2>4, Ordered
  <2> QED
    BY <2>3, <2>5 DEF f
<1>2. ASSUME NEW x \in Decimal
      PROVE  Times(Zero, x) = Zero /\ Times(x, Zero) = Zero
  <2>1. x[1] \in Int /\ x[2] \in Int /\ x[2] \in Positive
    BY DecimalOf DEF Positive
  <2>2. 0 * x[1] = 0 /\ x[1] * 0 = 0 /\ 1 * x[2] = x[2] /\ x[2] * 1 = x[2]
    BY <2>1
  <2>3. Times(Zero, x) = Frac(0, x[2]) /\ Times(x, Zero) = Frac(0, x[2])
    BY <2>2 DEF Times, Zero, Whole
  <2> QED
    BY <1>1, <2>1, <2>3
<1>3. Plus(Zero, Zero) = Zero
  <2>1. Plus(Zero, Zero) = Frac(0, 1)
    <3>1. 0 * 1 + 0 * 1 = 0 /\ 1 * 1 = 1
      OBVIOUS
    <3> QED
      BY <3>1 DEF Plus, Zero, Whole
  <2>2. 1 \in Positive
    BY DEF Positive
  <2> QED
    BY <1>1, <2>1, <2>2
<1>4. ASSUME NEW x \in Decimal, x # Zero PROVE Divided(Zero, x) = Zero
  <2>1. x[1] \in Int /\ x[1] # 0 /\ x[2] \in Int
    BY <1>4, DecimalOf
  <2> DEFINE f == Frac(0, x[1])
  <2>2. f \in Decimal /\ f[1] * x[1] = 0 * f[2]
    BY <2>1, FracOf
  <2>3. Divided(Zero, x) = f
    <3>1. 0 * x[2] = 0 /\ 1 * x[1] = x[1]
      BY <2>1
    <3> QED
      BY <3>1 DEF Divided, Zero, Whole
  <2>4. f[1] \in Int /\ f[2] \in Int /\ (f[1] = 0 => f = Zero)
    <3> HIDE DEF f
    <3> QED
      BY <2>2, DecimalOf
  <2> HIDE DEF f
  <2>5. f[1] * x[1] = 0
    BY <2>2, <2>4
  <2>6. f[1] = 0
    BY <2>1, <2>4, <2>5
  <2> QED
    BY <2>3, <2>4, <2>6
<1>5. ASSUME NEW x \in Decimal PROVE Leq(Plus(x, Zero), x)
  <2>1. PICK D \in Positive, a \in Int, b \in Int : Is(x, a, D) /\ Is(Zero, b, D)
    BY <1>0, PartsOfTwo
  <2>2. Is(Zero, 0, D)
    BY DEF Is, Zero, Whole, Positive
  <2>3. a + 0 = a /\ 0 \in Int
    OBVIOUS
  <2>4. Is(Plus(x, Zero), a + 0, D) /\ Plus(x, Zero) \in Decimal
    BY <1>0, <2>1, <2>2, PartsOf, Closed
  <2> QED
    BY <2>1, <2>3, <2>4, PartsOf
<1> QED
  BY <1>0, <1>2, <1>3, <1>4, <1>5

(* A total of zeros is zero.                                               *)
LEMMA TotalOfZeros ==
  ASSUME NEW n \in Nat, NEW s \in [1 .. n -> {Zero}]
  PROVE  Total(s) = Zero
<1>1. s \in Seq(Decimal) /\ Len(s) = n
  BY WithZero
<1>2. PICK p : PartialSums(p, s) /\ Total(s) = p[n]
  BY <1>1, TotalOf
<1> DEFINE T == {k \in Nat : k <= n => p[k] = Zero}
<1>3. 0 \in T
  BY <1>2 DEF PartialSums
<1>4. ASSUME NEW k \in T PROVE k + 1 \in T
  <2>1. SUFFICES ASSUME k + 1 <= n PROVE p[k + 1] = Zero
    OBVIOUS
  <2>2. k + 1 \in 1 .. n /\ (k + 1) - 1 = k /\ p[k] = Zero
    BY <2>1
  <2>3. p[k + 1] = Plus(p[k], s[k + 1])
    BY <1>1, <1>2, <2>2 DEF PartialSums
  <2>4. s[k + 1] = Zero
    BY <2>2
  <2> QED
    BY <2>2, <2>3, <2>4, WithZero
<1>5. T = Nat
  <2>1. T \subseteq Nat
    OBVIOUS
  <2> HIDE DEF T
  <2> QED
    BY <1>3, <1>4, <2>1, NumbersFromZero
<1>6. n \in T
  <2> HIDE DEF T
  <2> QED
    BY <1>5
<1> QED
  BY <1>2, <1>6

(* Part of an amount is no more than the amount.                           *)
LEMMA PartOfAmount ==
  ASSUME NEW x \in Decimal, NEW f \in Decimal, Leq(Zero, x), Leq(f, Whole(1))
  PROVE  Leq(Times(x, f), x)
<1>1. PICK P \in Positive, a \in Int, z \in Int : Is(x, a, P) /\ Is(Zero, z, P)
  BY WithZero, PartsOfTwo
<1>2. PICK Q \in Positive, b \in Int, c \in Int : Is(f, b, Q) /\ Is(Whole(1), c, Q)
  BY WholeOf, PartsOfTwo
<1>3. Is(Zero, 0, P) /\ Is(Whole(1), Q, Q) /\ Q \in Int
  BY DEF Is, Zero, Whole, Positive
<1>4. a \in Nat
  <2>1. 0 <= a
    BY <1>1, <1>3, WithZero, PartsOf
  <2> QED
    BY <2>1
<1>5. b <= Q
  BY <1>2, <1>3, WholeOf, PartsOf
<1>6. a * b <= a * Q /\ a * b \in Int /\ a * Q \in Int
  BY <1>3, <1>4, <1>5, Multiples
<1>7. Is(Times(x, f), a * b, P * Q) /\ Times(x, f) \in Decimal
  BY <1>1, <1>2, PartsOfProduct, Closed
<1>8. Is(x, a * Q, P * Q) /\ P * Q \in Positive
  BY <1>1, FinerParts
<1> DEFINE v == a * b
           w == a * Q
           F == P * Q
<1>9. v \in Int /\ w \in Int /\ v <= w /\ Is(Times(x, f), v, F) /\ Is(x, w, F) /\ F \in Positive
  BY <1>6, <1>7, <1>8
<1> HIDE DEF v, w, F
<1> QED
  BY <1>7, <1>9, PartsOf

(* A fact within its plan makes a quotient of at most 1, also if the plan  *)
(* is 0.                                                                   *)
LEMMA Proportion ==
  ASSUME NEW fact \in Decimal, NEW plan \in Decimal, Leq(Zero, fact), Leq(fact, plan)
  PROVE  \E q \in Decimal : Quotient(fact, plan) = Value(q) /\ Leq(q, Whole(1))
<1>1. CASE plan = Zero
  <2>1. Leq(Zero, Whole(1))
    BY DEF Leq, Zero, Whole
  <2> QED
    BY <1>1, <2>1, WithZero DEF Quotient
<1>2. CASE plan # Zero
  <2> DEFINE f1 == fact[1]  f2 == fact[2]  p1 == plan[1]  p2 == plan[2]
             q == Frac(f1 * p2, f2 * p1)
  <2>1. /\ f1 \in Int /\ f2 \in Nat /\ f2 > 0 /\ p1 \in Int /\ p2 \in Nat /\ p2 > 0 /\ p1 # 0
    BY <1>2, DecimalOf
  <2>2. f1 * p2 <= p1 * f2
    BY DEF Leq
  <2>3. f1 >= 0
    BY <2>1 DEF Leq, Zero, Whole
  <2>4. Quotient(fact, plan) = Value(q)
    BY <1>2 DEF Quotient, Divided
  <2> HIDE DEF f1, f2, p1, p2, q
  <2>5. p1 > 0
    <3>1. f1 * p2 >= 0 /\ f1 * p2 \in Int /\ p1 * f2 \in Int
      BY <2>1, <2>3
    <3>2. CASE p1 < 0
      <4>1. p1 * f2 < 0
        BY <2>1, <3>2
      <4> QED
        BY <2>2, <3>1, <4>1
    <3> QED
      BY <2>1, <3>2
  <2> DEFINE d == f2 * p1
             m == f1 * p2
  <2>6. d \in Positive /\ d \in Int /\ d # 0 /\ m \in Int /\ m <= d
    <3>1. f2 * p1 = p1 * f2
      BY <2>1
    <3> QED
      BY <2>1, <2>2, <2>5, <3>1 DEF Positive
  <2>7. q = Frac(m, d)
    BY DEF q
  <2> HIDE DEF d, m
  <2>8. q \in Decimal /\ q[1] * d = m * q[2]
    BY <2>6, <2>7, FracOf
  <2>9. q[1] \in Int /\ q[2] \in Int /\ q[2] \in Positive
    BY <2>8, DecimalOf DEF Positive
  <2>10. m * q[2] <= d * q[2]
    BY <2>6, <2>9, Ordered
  <2>11. d * q[2] = q[2] * d
    BY <2>6, <2>9
  <2>12. q[1] <= q[2]
    BY <2>6, <2>8, <2>9, <2>10, <2>11, Ordered
  <2>13. Leq(q, Whole(1))
    <3>1. q[1] * 1 = q[1] /\ 1 * q[2] = q[2]
      BY <2>9
    <3> QED
      BY <2>12, <3>1 DEF Leq, Whole
  <2> QED
    BY <2>4, <2>8, <2>13
<1> QED
  BY <1>1, <1>2

(* A sum of three amounts, in another order.                               *)
LEMMA AnyGrouping ==
  ASSUME NEW x \in Decimal, NEW y \in Decimal, NEW z \in Decimal
  PROVE  Leq(Plus(Plus(x, y), z), Plus(x, Plus(z, y)))
<1>1. PICK P \in Positive, a \in Int, b \in Int : Is(x, a, P) /\ Is(y, b, P)
  BY PartsOfTwo
<1>2. PICK k \in Positive, c \in Int : Is(z, c, P * k)
  BY PartsFor
<1> DEFINE D == P * k
           u == a * k
           v == b * k
<1>3. Is(x, u, D) /\ Is(y, v, D) /\ u \in Int /\ v \in Int /\ D \in Positive
  BY <1>1, FinerParts
<1>4. Is(z, c, D)
  BY <1>2
<1> HIDE DEF D, u, v
<1>5. Is(Plus(x, y), u + v, D) /\ Plus(x, y) \in Decimal /\ u + v \in Int
  BY <1>3, PartsOf, Closed
<1>6. Is(Plus(z, y), c + v, D) /\ Plus(z, y) \in Decimal /\ c + v \in Int
  BY <1>3, <1>4, PartsOf, Closed
<1>7. Is(Plus(Plus(x, y), z), (u + v) + c, D) /\ Plus(Plus(x, y), z) \in Decimal
  BY <1>3, <1>4, <1>5, PartsOf, Closed
<1>8. Is(Plus(x, Plus(z, y)), u + (c + v), D) /\ Plus(x, Plus(z, y)) \in Decimal
  BY <1>3, <1>6, PartsOf, Closed
<1>9. (u + v) + c \in Int /\ u + (c + v) \in Int /\ (u + v) + c <= u + (c + v)
  BY <1>3
<1> QED
  BY <1>3, <1>7, <1>8, <1>9, PartsOf
=============================================================================
