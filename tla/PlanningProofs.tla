--------------------------- MODULE PlanningProofs ---------------------------
(***************************************************************************)
(* Proofs about Planning, for every width of integers, library of recipes, *)
(* set of quotes and limits of the search.                                 *)
(***************************************************************************)
EXTENDS Planning, FiniteSetTheorems, SequenceTheorems, WellFoundedInduction, TLAPS

-----------------------------------------------------------------------------
(* Package money: exact, or no amount at all.                              *)

Amounts == MinInt .. MaxInt

\* A register holds what fits it, and otherwise what is off by its size.
LEMMA WrapFacts ==
  ASSUME NEW x \in Int
  PROVE  /\ Wrap(x) \in Amounts
         /\ x \in Amounts => Wrap(x) = x
         /\ \E k \in Int : x = Wrap(x) + k * (2 * MaxInt + 2)
  <1>1. PICK w : w = 2 * MaxInt + 2
    OBVIOUS
  <1>2. PICK y, r, k : y = x + MaxInt + 1 /\ r = y % w /\ k = y \div w
    OBVIOUS
  <1>3. w \in Nat \ {0, 1} /\ y \in Int
    BY <1>1, <1>2, BoundsAssumption
  <1>4. k \in Int /\ r \in 0 .. w - 1 /\ y = w * k + r
    BY <1>2, <1>3
  <1>5. Wrap(x) = r - MaxInt - 1
    BY <1>1, <1>2, <1>3, <1>4, BoundsAssumption DEF Wrap, MinInt
  <1>6. Wrap(x) \in Amounts
    BY <1>1, <1>4, <1>5, BoundsAssumption DEF Amounts, MinInt
  <1>7. x = Wrap(x) + k * w
    BY <1>2, <1>3, <1>4, <1>5, BoundsAssumption
  <1>8. ASSUME x \in Amounts PROVE Wrap(x) = x
    <2>1. y \in 0 .. w - 1
      BY <1>1, <1>2, <1>8, BoundsAssumption DEF Amounts, MinInt
    <2>2. r = y
      BY <1>2, <1>3, <2>1
    <2> QED BY <1>2, <1>5, <2>2, BoundsAssumption
  <1> QED BY <1>1, <1>4, <1>6, <1>7, <1>8

\* Sums and differences are those of unbounded arithmetic, or refused.
LEMMA AddFacts ==
  ASSUME NEW x \in Amounts, NEW y \in Amounts
  PROVE  /\ Add(x, y) = IF x + y \in Amounts THEN x + y ELSE NoAmount
         /\ Subtract(x, y) = IF x - y \in Amounts THEN x - y ELSE NoAmount
  <1>1. x \in Int /\ y \in Int /\ x # NoAmount /\ y # NoAmount /\ MaxInt \in Nat \ {0}
    BY BoundsAssumption DEF Amounts, MinInt
  <1>2. x + y \in Amounts => Wrap(x + y) = x + y
    BY <1>1, WrapFacts
  <1>3. x - y \in Amounts => Wrap(x - y) = x - y
    BY <1>1, WrapFacts
  <1>4. x + y \notin Amounts <=> (y > 0 /\ x > MaxInt - y) \/ (y < 0 /\ x < MinInt - y)
    BY <1>1 DEF Amounts, MinInt
  <1>5. x - y \notin Amounts <=> (y > 0 /\ x < MinInt + y) \/ (y < 0 /\ x > MaxInt + y)
    BY <1>1 DEF Amounts, MinInt
  <1>6. Add(x, y) = IF x + y \in Amounts THEN x + y ELSE NoAmount
    BY <1>1, <1>2, <1>4 DEF Add
  <1>7. Subtract(x, y) = IF x - y \in Amounts THEN x - y ELSE NoAmount
    BY <1>1, <1>3, <1>5 DEF Subtract
  <1> QED BY <1>6, <1>7

\* The quotient is the number of times the divisor fits.
LEMMA DivisionFacts ==
  ASSUME NEW a \in Nat, NEW b \in Nat \ {0}
  PROVE  /\ a \div b \in Nat /\ b * (a \div b) <= a /\ a < b * (a \div b) + b
         /\ \A c \in Nat : a = b * c => a \div b = c
  <1>1. PICK q, r : q = a \div b /\ r = a % b
    OBVIOUS
  <1>2. q \in Int /\ r \in 0 .. b - 1 /\ a = b * q + r
    BY <1>1
  <1>3. q >= 0
    <2>1. ASSUME q < 0 PROVE FALSE
      <3>1. b * q <= -b
        <4>1. PICK d : d = -q - 1
          OBVIOUS
        <4>2. d \in Nat /\ q = -d - 1
          BY <1>2, <2>1, <4>1
        <4>3. b * d \in Nat
          BY <4>2
        <4>4. b * q = -(b * d) - b
          BY <4>2
        <4> QED BY <4>3, <4>4
      <3> QED BY <1>2, <3>1
    <2> QED BY <1>2, <2>1
  <1>4. ASSUME NEW c \in Nat, a = b * c PROVE q = c
    <2>1. PICK d : d = c - q
      OBVIOUS
    <2>2. d \in Int /\ b * d = r
      BY <1>2, <1>4, <2>1
    <2>3. CASE d = 0
      BY <1>2, <2>1, <2>3
    <2>4. CASE d > 0
      <3>1. b * d = b * (d - 1) + b /\ b * (d - 1) >= 0
        BY <2>2, <2>4
      <3> QED BY <1>2, <2>2, <3>1
    <2>5. CASE d < 0
      <3>1. b * d = -(b * (-d)) /\ -d \in Nat \ {0}
        BY <2>2, <2>5
      <3>2. b * (-d) = b * (-d - 1) + b /\ b * (-d - 1) >= 0
        BY <3>1
      <3> QED BY <1>2, <2>2, <3>1, <3>2
    <2> QED BY <2>2, <2>3, <2>4, <2>5
  <1> QED BY <1>1, <1>2, <1>3, <1>4

\* The quotient that comes back when the product is divided: it is the other
\* factor only of a register within less than the divisor of the product.
LEMMA QuotientFacts ==
  ASSUME NEW w \in Int, NEW x \in Int \ {0}, NEW y \in Int \ {0}
  PROVE  /\ Quotient(w, y) = x => /\ w - x * y < Abs(y) /\ x * y - w < Abs(y)
         /\ w = x * y => Quotient(w, y) = x
  <1>1. PICK a, b, c, q : a = Abs(w) /\ b = Abs(y) /\ c = Abs(x) /\ q = a \div b
    OBVIOUS
  <1>2. /\ a \in Nat /\ b \in Nat \ {0} /\ c \in Nat \ {0}
        /\ w = (IF w < 0 THEN -a ELSE a) /\ y = (IF y < 0 THEN -b ELSE b)
        /\ x = (IF x < 0 THEN -c ELSE c)
    BY <1>1 DEF Abs
  <1>3. q \in Nat /\ b * q <= a /\ a < b * q + b /\ (a = b * c => q = c)
    BY <1>1, <1>2, DivisionFacts
  <1>4. Quotient(w, y) = IF (w < 0) = (y < 0) THEN q ELSE -q
    BY <1>1 DEF Quotient
  <1>5. ASSUME Quotient(w, y) = x PROVE w - x * y < b /\ x * y - w < b
    <2>1. c = q
      BY <1>2, <1>3, <1>4, <1>5
    <2>2. b * c \in Nat /\ b * c <= a /\ a < b * c + b /\ b * c > 0
      BY <1>2, <1>3, <2>1
    <2>3. w # 0
      BY <1>2, <2>2
    <2>4. CASE w > 0 /\ y > 0
      <3>1. x = c /\ y = b /\ w = a
        BY <1>2, <1>3, <1>4, <1>5, <2>1, <2>4
      <3>2. x * y = b * c
        BY <1>2, <3>1
      <3> QED BY <1>2, <2>2, <3>1, <3>2
    <2>5. CASE w < 0 /\ y < 0
      <3>1. x = c /\ y = -b /\ w = -a
        BY <1>2, <1>3, <1>4, <1>5, <2>1, <2>5
      <3>2. x * y = -(b * c)
        BY <1>2, <3>1
      <3> QED BY <1>2, <2>2, <3>1, <3>2
    <2>6. CASE w > 0 /\ y < 0
      <3>1. x = -c /\ y = -b /\ w = a
        BY <1>2, <1>3, <1>4, <1>5, <2>1, <2>6
      <3>2. x * y = b * c
        BY <1>2, <3>1
      <3> QED BY <1>2, <2>2, <3>1, <3>2
    <2>7. CASE w < 0 /\ y > 0
      <3>1. x = -c /\ y = b /\ w = -a
        BY <1>2, <1>3, <1>4, <1>5, <2>1, <2>7
      <3>2. x * y = -(b * c)
        BY <1>2, <3>1
      <3> QED BY <1>2, <2>2, <3>1, <3>2
    <2> QED BY <2>3, <2>4, <2>5, <2>6, <2>7
  <1>6. ASSUME w = x * y PROVE Quotient(w, y) = x
    <2>1. b * c \in Nat \ {0}
      BY <1>2
    <2>2. CASE x > 0 /\ y > 0
      <3>1. x = c /\ y = b
        BY <1>2, <2>2
      <3>2. w = b * c
        BY <1>2, <1>6, <3>1
      <3>3. w > 0 /\ a = b * c
        BY <1>2, <2>1, <3>2
      <3> QED BY <1>3, <1>4, <2>2, <3>1, <3>3
    <2>3. CASE x < 0 /\ y < 0
      <3>1. x = -c /\ y = -b
        BY <1>2, <2>3
      <3>2. w = b * c
        BY <1>2, <1>6, <3>1
      <3>3. w > 0 /\ a = b * c
        BY <1>2, <2>1, <3>2
      <3> QED BY <1>3, <1>4, <2>3, <3>1, <3>3
    <2>4. CASE x > 0 /\ y < 0
      <3>1. x = c /\ y = -b
        BY <1>2, <2>4
      <3>2. w = -(b * c)
        BY <1>2, <1>6, <3>1
      <3>3. w < 0 /\ a = b * c
        BY <1>2, <2>1, <3>2
      <3> QED BY <1>3, <1>4, <2>4, <3>1, <3>3
    <2>5. CASE x < 0 /\ y > 0
      <3>1. x = -c /\ y = b
        BY <1>2, <2>5
      <3>2. w = -(b * c)
        BY <1>2, <1>6, <3>1
      <3>3. w < 0 /\ a = b * c
        BY <1>2, <2>1, <3>2
      <3> QED BY <1>3, <1>4, <2>5, <3>1, <3>3
    <2> QED BY <2>2, <2>3, <2>4, <2>5
  <1> QED BY <1>1, <1>5, <1>6

\* Products are exact or refused: dividing again finds every overflow.
LEMMA MultiplyFacts ==
  ASSUME NEW x \in Amounts, NEW y \in Amounts
  PROVE  Multiply(x, y) = IF x * y \in Amounts THEN x * y ELSE NoAmount
  <1>1. x \in Int /\ y \in Int /\ x # NoAmount /\ y # NoAmount /\ MaxInt \in Nat \ {0}
    BY BoundsAssumption DEF Amounts, MinInt
  <1>2. PICK p, w : p = x * y /\ w = Wrap(x * y)
    OBVIOUS
  <1>3. p \in Int
    BY <1>1, <1>2
  <1>4. w \in Amounts /\ (p \in Amounts => w = p) /\ \E k \in Int : p = w + k * (2 * MaxInt + 2)
    BY <1>2, <1>3, WrapFacts
  <1>5. CASE x = 0 \/ y = 0
    <2>1. p = 0 /\ 0 \in Amounts
      BY <1>1, <1>2, <1>5 DEF Amounts, MinInt
    <2> QED BY <1>1, <1>2, <1>5, <2>1 DEF Multiply
  <1>6. CASE (x = -1 /\ y = MinInt) \/ (y = -1 /\ x = MinInt)
    <2>1. p = MaxInt + 1
      BY <1>1, <1>2, <1>6 DEF MinInt
    <2>2. p \notin Amounts /\ x # 0 /\ y # 0
      BY <1>1, <1>6, <2>1 DEF Amounts, MinInt
    <2> QED BY <1>1, <1>2, <1>6, <2>2 DEF Multiply
  <1>7. CASE x # 0 /\ y # 0 /\ ~((x = -1 /\ y = MinInt) \/ (y = -1 /\ x = MinInt))
    <2>1. Multiply(x, y) = IF Quotient(w, y) # x THEN NoAmount ELSE w
      BY <1>1, <1>2, <1>7 DEF Multiply
    <2>2. w \in Int
      BY <1>1, <1>4 DEF Amounts, MinInt
    <2>3. /\ Quotient(w, y) = x => w - p < Abs(y) /\ p - w < Abs(y)
          /\ w = p => Quotient(w, y) = x
      BY <1>1, <1>2, <1>7, <2>2, QuotientFacts
    <2>4. ASSUME Quotient(w, y) = x PROVE w = p
      <3>1. PICK k \in Int : p = w + k * (2 * MaxInt + 2)
        BY <1>4
      <3>2. Abs(y) <= MaxInt + 1
        BY <1>1 DEF Abs, Amounts, MinInt
      <3>3. w - p < Abs(y) /\ p - w < Abs(y) /\ Abs(y) \in Int
        BY <1>1, <2>3, <2>4 DEF Abs
      <3>4. CASE k > 0
        <4>1. k * (2 * MaxInt + 2) = (k - 1) * (2 * MaxInt + 2) + 2 * MaxInt + 2
              /\ (k - 1) * (2 * MaxInt + 2) >= 0
          BY <1>1, <3>4
        <4> QED BY <1>1, <1>3, <2>2, <3>1, <3>2, <3>3, <4>1
      <3>5. CASE k < 0
        <4>1. k * (2 * MaxInt + 2) = -((-k - 1) * (2 * MaxInt + 2)) - 2 * MaxInt - 2
              /\ (-k - 1) * (2 * MaxInt + 2) >= 0
          BY <1>1, <3>5
        <4> QED BY <1>1, <1>3, <2>2, <3>1, <3>2, <3>3, <4>1
      <3>6. CASE k = 0
        BY <1>1, <1>3, <2>2, <3>1, <3>6
      <3> QED BY <3>4, <3>5, <3>6
    <2> QED BY <1>2, <1>4, <2>1, <2>3, <2>4
  <1> QED BY <1>5, <1>6, <1>7

-----------------------------------------------------------------------------
(* Loops.  A recursive function over 0 .. m exists, which its definition by  *)
(* choice alone does not say; each loop of the model has a lemma for it.     *)

\* Induction, for a set.
LEMMA NatFacts ==
  ASSUME NEW T, 0 \in T, \A n \in Nat : n \in T => n + 1 \in T
  PROVE  Nat \subseteq T
  <1> SUFFICES ASSUME NEW m \in Nat, m \notin T PROVE FALSE
    OBVIOUS
  <1>1. PICK R, U : R = StrictSubsetOrdering(Nat) /\ U = {1 .. n : n \in Nat \ T}
    OBVIOUS
  <1>2. U \subseteq FiniteSubsetsOf(Nat) /\ U # {}
    <2>1. ASSUME NEW n \in Nat PROVE 1 .. n \in FiniteSubsetsOf(Nat)
      <3>1. 1 .. n \subseteq Nat
        OBVIOUS
      <3> QED BY <3>1, FS_Interval DEF FiniteSubsetsOf
    <2> QED BY <1>1, <2>1
  <1>3. IsWellFoundedOn(R, FiniteSubsetsOf(Nat))
    BY <1>1, FS_StrictSubsetOrderingWellFounded
  <1>4. PICK x \in U : \A y \in U : <<y, x>> \notin R
    BY <1>2, <1>3, WFMin
  <1>5. PICK n \in Nat \ T : x = 1 .. n
    BY <1>1
  <1>6. n - 1 \in Nat /\ n - 1 \notin T
    BY <1>5
  <1>7. 1 .. (n - 1) \in U
    BY <1>1, <1>6
  <1>8. <<1 .. (n - 1), 1 .. n>> \in R
    <2>1. 1 .. (n - 1) \in SUBSET Nat /\ 1 .. n \in SUBSET Nat
      OBVIOUS
    <2>2. n \in 1 .. n /\ n \notin 1 .. (n - 1)
      BY <1>6
    <2>3. 1 .. (n - 1) \subseteq 1 .. n
      BY <1>6
    <2> QED BY <1>1, <2>1, <2>2, <2>3 DEF StrictSubsetOrdering
  <1> QED BY <1>4, <1>5, <1>7, <1>8

\* A function of 0 .. k and one value more.
Extends(g, f, k, last) ==
    /\ g = [n \in 0 .. k + 1 |-> g[n]]
    /\ \A n \in 0 .. k : g[n] = f[n]
    /\ g[k + 1] = last

\* There is such a function.
LEMMA Extend ==
  ASSUME NEW k \in Nat, NEW f, NEW last
  PROVE  \E g : Extends(g, f, k, last)
  <1>1. PICK g : g = [n \in 0 .. k + 1 |-> IF n <= k THEN f[n] ELSE last]
    OBVIOUS
  <1>2. \A n \in 0 .. k : n \in 0 .. k + 1 /\ n <= k
    OBVIOUS
  <1>3. k + 1 \in 0 .. k + 1 /\ ~(k + 1 <= k)
    OBVIOUS
  <1> QED BY <1>1, <1>2, <1>3 DEF Extends

\* money.Add, value by value.
LEMMA CheckedLoop ==
  ASSUME NEW values, Len(values) \in Nat
  PROVE  \E f : /\ f[0] = 0
                /\ \A n \in 1 .. Len(values) : f[n] = Add(f[n - 1], values[n])
                /\ CheckedSum(values) = f[Len(values)]
  <1> DEFINE Unfolds(f, k) ==
               f = [n \in 0 .. k |-> IF n = 0 THEN 0 ELSE Add(f[n - 1], values[n])]
             T == {k \in Nat : \E f : Unfolds(f, k)}
  <1>1. 0 \in T
    <2>1. PICK f : f = [n \in 0 .. 0 |-> 0]
      OBVIOUS
    <2>2. \A n \in 0 .. 0 : n = 0
      OBVIOUS
    <2>3. Unfolds(f, 0)
      BY <2>1, <2>2
    <2> QED BY <2>3
  <1>2. ASSUME NEW k \in Nat, k \in T PROVE k + 1 \in T
    <2>1. PICK f : Unfolds(f, k)
      BY <1>2
    <2>2. PICK last : last = Add(f[k], values[k + 1])
      OBVIOUS
    <2>3. PICK g : Extends(g, f, k, last)
      BY Extend
    <2>4. ASSUME NEW n \in 0 .. k + 1
          PROVE  g[n] = IF n = 0 THEN 0 ELSE Add(g[n - 1], values[n])
      <3>1. CASE n = 0
        <4>1. n \in 0 .. k
          BY <3>1
        <4> QED BY <2>1, <2>3, <3>1, <4>1 DEF Extends
      <3>2. CASE n \in 1 .. k
        <4>1. n \in 0 .. k /\ n - 1 \in 0 .. k /\ n # 0
          BY <3>2
        <4>2. g[n] = f[n] /\ g[n - 1] = f[n - 1]
          BY <2>3, <4>1 DEF Extends
        <4>3. f[n] = Add(f[n - 1], values[n])
          BY <2>1, <4>1
        <4> QED BY <4>1, <4>2, <4>3
      <3>3. CASE n = k + 1
        <4>1. n # 0 /\ n - 1 = k /\ k \in 0 .. k
          BY <3>3
        <4>2. g[n - 1] = f[k]
          BY <2>3, <4>1 DEF Extends
        <4> QED BY <2>2, <2>3, <3>3, <4>1, <4>2 DEF Extends
      <3>4. n = 0 \/ n \in 1 .. k \/ n = k + 1
        OBVIOUS
      <3> QED BY <3>1, <3>2, <3>3, <3>4
    <2>5. Unfolds(g, k + 1)
      BY <2>3, <2>4 DEF Extends
    <2> QED BY <2>5
  <1>3. PICK m : m = Len(values)
    OBVIOUS
  <1>4. m \in Nat
    BY <1>3
  <1>5. m \in T
    <2> HIDE DEF T
    <2> QED BY <1>1, <1>2, <1>4, NatFacts
  <1>6. PICK walk : walk = CHOOSE g : Unfolds(g, m)
    OBVIOUS
  <1>7. Unfolds(walk, m)
    <2>1. \E f : Unfolds(f, m)
      BY <1>5
    <2> HIDE DEF Unfolds
    <2> QED BY <1>6, <2>1
  <1>8. CheckedSum(values) = walk[m]
    BY <1>3, <1>6 DEF CheckedSum
  <1>9. walk[0] = 0
    BY <1>4, <1>7
  <1>10. ASSUME NEW n \in 1 .. m PROVE walk[n] = Add(walk[n - 1], values[n])
    <2>1. n \in 0 .. m /\ n # 0
      BY <1>4
    <2> QED BY <1>7, <2>1
  <1> QED BY <1>3, <1>8, <1>9, <1>10

\* The same without a width.
LEMMA SumLoop ==
  ASSUME NEW values, Len(values) \in Nat
  PROVE  \E f : /\ f[0] = 0
                /\ \A n \in 1 .. Len(values) : f[n] = f[n - 1] + values[n]
                /\ Sum(values) = f[Len(values)]
  <1> DEFINE Unfolds(f, k) ==
               f = [n \in 0 .. k |-> IF n = 0 THEN 0 ELSE f[n - 1] + values[n]]
             T == {k \in Nat : \E f : Unfolds(f, k)}
  <1>1. 0 \in T
    <2>1. PICK f : f = [n \in 0 .. 0 |-> 0]
      OBVIOUS
    <2>2. \A n \in 0 .. 0 : n = 0
      OBVIOUS
    <2>3. Unfolds(f, 0)
      BY <2>1, <2>2
    <2> QED BY <2>3
  <1>2. ASSUME NEW k \in Nat, k \in T PROVE k + 1 \in T
    <2>1. PICK f : Unfolds(f, k)
      BY <1>2
    <2>2. PICK last : last = f[k] + values[k + 1]
      OBVIOUS
    <2>3. PICK g : Extends(g, f, k, last)
      BY Extend
    <2>4. ASSUME NEW n \in 0 .. k + 1
          PROVE  g[n] = IF n = 0 THEN 0 ELSE g[n - 1] + values[n]
      <3>1. CASE n = 0
        <4>1. n \in 0 .. k
          BY <3>1
        <4> QED BY <2>1, <2>3, <3>1, <4>1 DEF Extends
      <3>2. CASE n \in 1 .. k
        <4>1. n \in 0 .. k /\ n - 1 \in 0 .. k /\ n # 0
          BY <3>2
        <4>2. g[n] = f[n] /\ g[n - 1] = f[n - 1]
          BY <2>3, <4>1 DEF Extends
        <4>3. f[n] = f[n - 1] + values[n]
          BY <2>1, <4>1
        <4> QED BY <4>1, <4>2, <4>3
      <3>3. CASE n = k + 1
        <4>1. n # 0 /\ n - 1 = k /\ k \in 0 .. k
          BY <3>3
        <4>2. g[n - 1] = f[k]
          BY <2>3, <4>1 DEF Extends
        <4> QED BY <2>2, <2>3, <3>3, <4>1, <4>2 DEF Extends
      <3>4. n = 0 \/ n \in 1 .. k \/ n = k + 1
        OBVIOUS
      <3> QED BY <3>1, <3>2, <3>3, <3>4
    <2>5. Unfolds(g, k + 1)
      BY <2>3, <2>4 DEF Extends
    <2> QED BY <2>5
  <1>3. PICK m : m = Len(values)
    OBVIOUS
  <1>4. m \in Nat
    BY <1>3
  <1>5. m \in T
    <2> HIDE DEF T
    <2> QED BY <1>1, <1>2, <1>4, NatFacts
  <1>6. PICK walk : walk = CHOOSE g : Unfolds(g, m)
    OBVIOUS
  <1>7. Unfolds(walk, m)
    <2>1. \E f : Unfolds(f, m)
      BY <1>5
    <2> HIDE DEF Unfolds
    <2> QED BY <1>6, <2>1
  <1>8. Sum(values) = walk[m]
    BY <1>3, <1>6 DEF Sum
  <1>9. walk[0] = 0
    BY <1>4, <1>7
  <1>10. ASSUME NEW n \in 1 .. m PROVE walk[n] = walk[n - 1] + values[n]
    <2>1. n \in 0 .. m /\ n # 0
      BY <1>4
    <2> QED BY <1>7, <2>1
  <1> QED BY <1>3, <1>8, <1>9, <1>10

After(before, step) ==
    [item \in Items |-> before[item] - Loss(step, item) + Gain(step, item)]

\* What is held after each step of a plan.
LEMMA HeldLoop ==
  ASSUME NEW start, NEW steps, Len(steps) \in Nat
  PROVE  \E f : /\ f[0] = start
                /\ \A n \in 1 .. Len(steps) : f[n] = After(f[n - 1], steps[n])
                /\ Held(start, steps) = f
  <1> DEFINE Unfolds(f, k) ==
               f = [n \in 0 .. k |-> IF n = 0 THEN start ELSE After(f[n - 1], steps[n])]
             T == {k \in Nat : \E f : Unfolds(f, k)}
  <1>1. 0 \in T
    <2>1. PICK f : f = [n \in 0 .. 0 |-> start]
      OBVIOUS
    <2>2. \A n \in 0 .. 0 : n = 0
      OBVIOUS
    <2>3. Unfolds(f, 0)
      BY <2>1, <2>2
    <2> QED BY <2>3
  <1>2. ASSUME NEW k \in Nat, k \in T PROVE k + 1 \in T
    <2>1. PICK f : Unfolds(f, k)
      BY <1>2
    <2>2. PICK last : last = After(f[k], steps[k + 1])
      OBVIOUS
    <2>3. PICK g : Extends(g, f, k, last)
      BY Extend
    <2>4. ASSUME NEW n \in 0 .. k + 1
          PROVE  g[n] = IF n = 0 THEN start ELSE After(g[n - 1], steps[n])
      <3>1. CASE n = 0
        <4>1. n \in 0 .. k
          BY <3>1
        <4> QED BY <2>1, <2>3, <3>1, <4>1 DEF Extends
      <3>2. CASE n \in 1 .. k
        <4>1. n \in 0 .. k /\ n - 1 \in 0 .. k /\ n # 0
          BY <3>2
        <4>2. g[n] = f[n] /\ g[n - 1] = f[n - 1]
          BY <2>3, <4>1 DEF Extends
        <4>3. f[n] = After(f[n - 1], steps[n])
          BY <2>1, <4>1
        <4> QED BY <4>1, <4>2, <4>3
      <3>3. CASE n = k + 1
        <4>1. n # 0 /\ n - 1 = k /\ k \in 0 .. k
          BY <3>3
        <4>2. g[n - 1] = f[k]
          BY <2>3, <4>1 DEF Extends
        <4> QED BY <2>2, <2>3, <3>3, <4>1, <4>2 DEF Extends
      <3>4. n = 0 \/ n \in 1 .. k \/ n = k + 1
        OBVIOUS
      <3> QED BY <3>1, <3>2, <3>3, <3>4
    <2>5. Unfolds(g, k + 1)
      BY <2>3, <2>4 DEF Extends
    <2> QED BY <2>5
  <1>3. PICK m : m = Len(steps)
    OBVIOUS
  <1>4. m \in Nat
    BY <1>3
  <1>5. m \in T
    <2> HIDE DEF T
    <2> QED BY <1>1, <1>2, <1>4, NatFacts
  <1>6. PICK walk : walk = CHOOSE g : Unfolds(g, m)
    OBVIOUS
  <1>7. Unfolds(walk, m)
    <2>1. \E f : Unfolds(f, m)
      BY <1>5
    <2> HIDE DEF Unfolds
    <2> QED BY <1>6, <2>1
  <1>8. Held(start, steps) = walk
    BY <1>3, <1>6 DEF Held, After
  <1>9. walk[0] = start
    BY <1>4, <1>7
  <1>10. ASSUME NEW n \in 1 .. m PROVE walk[n] = After(walk[n - 1], steps[n])
    <2>1. n \in 0 .. m /\ n # 0
      BY <1>4
    <2> QED BY <1>7, <2>1
  <1> QED BY <1>3, <1>8, <1>9, <1>10

\* Induction up to a bound.
LEMMA UpTo ==
  ASSUME NEW m \in Nat, NEW T, 0 \in T, \A n \in 1 .. m : n - 1 \in T => n \in T
  PROVE  \A n \in 0 .. m : n \in T
  <1>1. PICK U : U = {n \in Nat : n <= m => n \in T}
    OBVIOUS
  <1>2. 0 \in U
    BY <1>1
  <1>3. ASSUME NEW n \in Nat, n \in U PROVE n + 1 \in U
    <2>1. CASE n + 1 <= m
      <3>1. n + 1 \in 1 .. m /\ (n + 1) - 1 = n /\ n \in T
        BY <1>1, <1>3, <2>1
      <3> QED BY <1>1, <2>1, <3>1
    <2>2. CASE ~(n + 1 <= m)
      BY <1>1, <2>2
    <2> QED BY <2>1, <2>2
  <1>4. Nat \subseteq U
    BY <1>2, <1>3, NatFacts
  <1> QED BY <1>1, <1>4

-----------------------------------------------------------------------------
(* Sums of lists.                                                          *)

\* A function of 1 .. m is a list of m values.
LEMMA ListFacts ==
  ASSUME NEW m \in Nat, NEW S, NEW v \in [1 .. m -> S]
  PROVE  v \in Seq(S) /\ Len(v) = m /\ DOMAIN v = 1 .. m
  <1>1. v \in Seq(S)
    OBVIOUS
  <1>2. Len(v) \in Nat /\ DOMAIN v = 1 .. Len(v) /\ DOMAIN v = 1 .. m
    BY <1>1
  <1> QED BY <1>1, <1>2

Adds(f, v, m) == f[0] = 0 /\ \A n \in 1 .. m : f[n] = f[n - 1] + v[n]

\* The sum of a list is where its running totals end.
LEMMA SumWalk ==
  ASSUME NEW m \in Nat, NEW v \in [1 .. m -> Int]
  PROVE  \E f : /\ Adds(f, v, m) /\ Sum(v) = f[m]
                /\ \A n \in 0 .. m : f[n] \in Int
  <1>1. Len(v) = m
    BY ListFacts
  <1>2. PICK f : Adds(f, v, m) /\ Sum(v) = f[m]
    <2>1. Len(v) \in Nat
      BY <1>1
    <2>2. PICK f : /\ f[0] = 0 /\ \A n \in 1 .. Len(v) : f[n] = f[n - 1] + v[n]
                   /\ Sum(v) = f[Len(v)]
      BY <2>1, SumLoop
    <2> QED BY <1>1, <2>2 DEF Adds
  <1>3. PICK T : T = {n \in 0 .. m : f[n] \in Int}
    OBVIOUS
  <1>4. 0 \in T
    BY <1>2, <1>3 DEF Adds
  <1>5. ASSUME NEW n \in 1 .. m, n - 1 \in T PROVE n \in T
    <2>1. n \in 0 .. m /\ f[n - 1] \in Int /\ v[n] \in Int
      BY <1>3, <1>5
    <2>2. f[n] = f[n - 1] + v[n]
      BY <1>2 DEF Adds
    <2> QED BY <1>3, <2>1, <2>2
  <1>6. \A n \in 0 .. m : n \in T
    BY <1>4, <1>5, UpTo
  <1> QED BY <1>2, <1>3, <1>6

\* Sums of numbers that are not negative bound each of them.
LEMMA SumFacts ==
  ASSUME NEW m \in Nat, NEW v \in [1 .. m -> Int]
  PROVE  /\ Sum(v) \in Int
         /\ m = 0 => Sum(v) = 0
         /\ v \in [1 .. m -> Nat] => Sum(v) \in Nat /\ \A n \in 1 .. m : v[n] <= Sum(v)
  <1>1. PICK f : Adds(f, v, m) /\ Sum(v) = f[m] /\ \A n \in 0 .. m : f[n] \in Int
    BY SumWalk
  <1>2. ASSUME v \in [1 .. m -> Nat]
        PROVE  \A n \in 0 .. m : f[n] \in Nat /\ \A j \in 1 .. n : v[j] <= f[n]
    <2>1. PICK T : T = {n \in 0 .. m : f[n] \in Nat /\ \A j \in 1 .. n : v[j] <= f[n]}
      OBVIOUS
    <2>2. 0 \in T
      BY <1>1, <2>1 DEF Adds
    <2>3. ASSUME NEW n \in 1 .. m, n - 1 \in T PROVE n \in T
      <3>1. f[n] = f[n - 1] + v[n] /\ f[n - 1] \in Nat /\ v[n] \in Nat
        BY <1>1, <1>2, <2>1, <2>3 DEF Adds
      <3>2. ASSUME NEW j \in 1 .. n PROVE v[j] <= f[n]
        <4>1. CASE j = n
          BY <3>1, <4>1
        <4>2. CASE j # n
          <5>1. j \in 1 .. n - 1 /\ v[j] \in Nat
            BY <1>2, <4>2
          <5>2. v[j] <= f[n - 1]
            BY <2>1, <2>3, <5>1
          <5> QED BY <3>1, <5>1, <5>2
        <4> QED BY <4>1, <4>2
      <3> QED BY <2>1, <3>1, <3>2
    <2>4. \A n \in 0 .. m : n \in T
      BY <2>2, <2>3, UpTo
    <2> QED BY <2>1, <2>4
  <1>3. m \in 0 .. m
    OBVIOUS
  <1> QED BY <1>1, <1>2, <1>3 DEF Adds

\* The list w of length t is v of length k, then u of length m.
Joined(v, k, u, m, w, t) ==
    /\ k \in Nat /\ m \in Nat /\ t \in Nat /\ t = k + m
    /\ v \in [1 .. k -> Int] /\ u \in [1 .. m -> Int] /\ w \in [1 .. t -> Int]
    /\ \A n \in 1 .. k : w[n] = v[n]
    /\ \A n \in 1 .. m : w[k + n] = u[n]

\* The sum of a list is that of its beginning and of the rest.
LEMMA SumSplit ==
  ASSUME NEW k, NEW m, NEW v, NEW u, NEW t, NEW w, Joined(v, k, u, m, w, t)
  PROVE  Sum(w) = Sum(v) + Sum(u)
  <1> USE DEF Joined
  <1>1. PICK f : Adds(f, v, k) /\ Sum(v) = f[k] /\ \A n \in 0 .. k : f[n] \in Int
    BY SumWalk
  <1>2. PICK g : Adds(g, u, m) /\ Sum(u) = g[m] /\ \A n \in 0 .. m : g[n] \in Int
    BY SumWalk
  <1>3. PICK h : Adds(h, w, t) /\ Sum(w) = h[t] /\ \A n \in 0 .. t : h[n] \in Int
    BY SumWalk
  <1>4. \A n \in 0 .. k : h[n] = f[n]
    <2>1. PICK T : T = {n \in 0 .. k : h[n] = f[n]}
      OBVIOUS
    <2>2. 0 \in T
      BY <1>1, <1>3, <2>1 DEF Adds
    <2>3. ASSUME NEW n \in 1 .. k, n - 1 \in T PROVE n \in T
      <3>1. n \in 1 .. t /\ n \in 0 .. k
        OBVIOUS
      <3> QED BY <1>1, <1>3, <2>1, <2>3, <3>1 DEF Adds
    <2> QED BY <2>1, <2>2, <2>3, UpTo
  <1>5. \A n \in 0 .. m : h[k + n] = f[k] + g[n]
    <2>1. PICK T : T = {n \in 0 .. m : h[k + n] = f[k] + g[n]}
      OBVIOUS
    <2>2. 0 \in T
      BY <1>1, <1>2, <1>4, <2>1 DEF Adds
    <2>3. ASSUME NEW n \in 1 .. m, n - 1 \in T PROVE n \in T
      <3>1. k + n \in 1 .. t /\ n \in 0 .. m /\ n - 1 \in 0 .. m /\ (k + n) - 1 = k + (n - 1)
        OBVIOUS
      <3>2. h[k + n] = h[k + (n - 1)] + u[n] /\ g[n] = g[n - 1] + u[n]
        BY <1>2, <1>3, <3>1 DEF Adds
      <3>3. h[k + (n - 1)] = f[k] + g[n - 1] /\ f[k] \in Int /\ g[n - 1] \in Int /\ u[n] \in Int
        BY <1>1, <1>2, <2>1, <2>3, <3>1
      <3> QED BY <2>1, <3>1, <3>2, <3>3
    <2> QED BY <2>1, <2>2, <2>3, UpTo
  <1>6. m \in 0 .. m
    OBVIOUS
  <1> QED BY <1>1, <1>2, <1>3, <1>5, <1>6

\* One value more.
LEMMA SumMore ==
  ASSUME NEW m \in Nat, NEW v \in [1 .. m -> Int], NEW u \in [1 .. m + 1 -> Int],
         \A n \in 1 .. m : u[n] = v[n]
  PROVE  Sum(u) = Sum(v) + u[m + 1]
  <1>1. PICK f : Adds(f, v, m) /\ Sum(v) = f[m] /\ \A n \in 0 .. m : f[n] \in Int
    BY SumWalk
  <1>2. PICK t : t = m + 1
    OBVIOUS
  <1>3. t \in Nat /\ u \in [1 .. t -> Int]
    BY <1>2
  <1>4. PICK g : Adds(g, u, t) /\ Sum(u) = g[t]
    BY <1>3, SumWalk
  <1>5. PICK T : T = {n \in 0 .. m : g[n] = f[n]}
    OBVIOUS
  <1>6. 0 \in T
    BY <1>1, <1>4, <1>5 DEF Adds
  <1>7. ASSUME NEW n \in 1 .. m, n - 1 \in T PROVE n \in T
    <2>1. n \in 1 .. t /\ n \in 0 .. m /\ g[n - 1] = f[n - 1]
      BY <1>2, <1>5, <1>7
    <2> QED BY <1>1, <1>4, <1>5, <2>1 DEF Adds
  <1>8. \A n \in 0 .. m : n \in T
    BY <1>6, <1>7, UpTo
  <1>9. g[t] = g[m] + u[t]
    BY <1>2, <1>4 DEF Adds
  <1> QED BY <1>1, <1>2, <1>4, <1>5, <1>8, <1>9

\* A common factor may be taken out of a sum.
LEMMA SumTimes ==
  ASSUME NEW m \in Nat, NEW v \in [1 .. m -> Int], NEW u \in [1 .. m -> Int], NEW c \in Int,
         \A n \in 1 .. m : u[n] = v[n] * c
  PROVE  Sum(u) = Sum(v) * c
  <1>1. PICK f : Adds(f, v, m) /\ Sum(v) = f[m] /\ \A n \in 0 .. m : f[n] \in Int
    BY SumWalk
  <1>2. PICK g : Adds(g, u, m) /\ Sum(u) = g[m] /\ \A n \in 0 .. m : g[n] \in Int
    BY SumWalk
  <1>3. PICK T : T = {n \in 0 .. m : g[n] = f[n] * c}
    OBVIOUS
  <1>4. 0 \in T
    BY <1>1, <1>2, <1>3 DEF Adds
  <1>5. ASSUME NEW n \in 1 .. m, n - 1 \in T PROVE n \in T
    <2>1. g[n] = g[n - 1] + v[n] * c /\ f[n] = f[n - 1] + v[n]
      BY <1>1, <1>2 DEF Adds
    <2>2. g[n - 1] = f[n - 1] * c /\ f[n - 1] \in Int /\ v[n] \in Int
      BY <1>1, <1>3, <1>5
    <2>3. (f[n - 1] + v[n]) * c = f[n - 1] * c + v[n] * c
      BY <2>2
    <2> QED BY <1>3, <2>1, <2>2, <2>3
  <1>6. \A n \in 0 .. m : n \in T
    BY <1>4, <1>5, UpTo
  <1> QED BY <1>1, <1>2, <1>3, <1>6

Adding(f, v, m) == f[0] = 0 /\ \A n \in 1 .. m : f[n] = Add(f[n - 1], v[n])

\* A checked sum is exact or no amount; of amounts that are not negative it is
\* exact if what they come to has the width.
LEMMA CheckedFacts ==
  ASSUME NEW m \in Nat, NEW v \in [1 .. m -> Amounts \cup {NoAmount}]
  PROVE  /\ CheckedSum(v) # NoAmount =>
                /\ v \in [1 .. m -> Amounts]
                /\ CheckedSum(v) = Sum(v) /\ CheckedSum(v) \in Amounts
         /\ v \in [1 .. m -> Nat] /\ Sum(v) <= MaxInt => CheckedSum(v) = Sum(v)
  <1>1. Len(v) = m
    BY ListFacts
  <1>2. PICK f : Adding(f, v, m) /\ CheckedSum(v) = f[m]
    <2>1. Len(v) \in Nat
      BY <1>1
    <2>2. PICK f : /\ f[0] = 0 /\ \A n \in 1 .. Len(v) : f[n] = Add(f[n - 1], v[n])
                   /\ CheckedSum(v) = f[Len(v)]
      BY <2>1, CheckedLoop
    <2> QED BY <1>1, <2>2 DEF Adding
  <1>3. Amounts \subseteq Int /\ 0 \in Amounts /\ NoAmount \notin Amounts
    BY BoundsAssumption DEF Amounts, MinInt
  <1>4. \A n \in 0 .. m : f[n] # NoAmount => f[n] \in Amounts /\ \A j \in 1 .. n : v[j] \in Amounts
    <2>1. PICK T : T = {n \in 0 .. m : f[n] # NoAmount =>
                           f[n] \in Amounts /\ \A j \in 1 .. n : v[j] \in Amounts}
      OBVIOUS
    <2>2. 0 \in T
      BY <1>2, <1>3, <2>1 DEF Adding
    <2>3. ASSUME NEW n \in 1 .. m, n - 1 \in T PROVE n \in T
      <3>1. n \in 0 .. m /\ f[n] = Add(f[n - 1], v[n]) /\ v[n] \in Amounts \cup {NoAmount}
        BY <1>2 DEF Adding
      <3>2. ASSUME f[n] # NoAmount
            PROVE  f[n] \in Amounts /\ \A j \in 1 .. n : v[j] \in Amounts
        <4>1. f[n - 1] # NoAmount /\ v[n] # NoAmount
          BY <3>1, <3>2 DEF Add
        <4>2. f[n - 1] \in Amounts /\ v[n] \in Amounts /\ \A j \in 1 .. n - 1 : v[j] \in Amounts
          BY <2>1, <2>3, <3>1, <4>1
        <4>3. f[n] \in Amounts
          BY <3>1, <3>2, <4>2, AddFacts
        <4> QED BY <4>2, <4>3
      <3> QED BY <2>1, <3>1, <3>2
    <2>4. \A n \in 0 .. m : n \in T
      BY <2>2, <2>3, UpTo
    <2> QED BY <2>1, <2>4
  <1>5. m \in 0 .. m
    OBVIOUS
  <1>6. ASSUME CheckedSum(v) # NoAmount
        PROVE  /\ v \in [1 .. m -> Amounts]
               /\ CheckedSum(v) = Sum(v) /\ CheckedSum(v) \in Amounts
    <2>1. f[m] \in Amounts /\ v \in [1 .. m -> Amounts]
      BY <1>2, <1>4, <1>5, <1>6
    <2>2. v \in [1 .. m -> Int]
      BY <1>3, <2>1
    <2>3. PICK g : Adds(g, v, m) /\ Sum(v) = g[m] /\ \A n \in 0 .. m : g[n] \in Int
      BY <2>2, SumWalk
    <2>4. PICK T : T = {n \in 0 .. m : f[n] # NoAmount => f[n] = g[n]}
      OBVIOUS
    <2>5. 0 \in T
      BY <1>2, <2>3, <2>4 DEF Adding, Adds
    <2>6. ASSUME NEW n \in 1 .. m, n - 1 \in T PROVE n \in T
      <3>1. /\ n \in 0 .. m /\ n - 1 \in 0 .. m /\ v[n] \in Amounts
            /\ f[n] = Add(f[n - 1], v[n]) /\ g[n] = g[n - 1] + v[n]
        BY <1>2, <2>1, <2>3 DEF Adding, Adds
      <3>2. ASSUME f[n] # NoAmount PROVE f[n] = g[n]
        <4>1. f[n - 1] # NoAmount
          BY <3>1, <3>2 DEF Add
        <4>2. f[n - 1] \in Amounts /\ f[n - 1] = g[n - 1]
          BY <1>4, <2>4, <2>6, <3>1, <4>1
        <4> QED BY <3>1, <3>2, <4>2, AddFacts
      <3> QED BY <2>4, <3>1, <3>2
    <2>7. \A n \in 0 .. m : n \in T
      BY <2>5, <2>6, UpTo
    <2> QED BY <1>2, <1>5, <1>6, <2>1, <2>3, <2>4, <2>7
  <1>7. ASSUME v \in [1 .. m -> Nat], Sum(v) <= MaxInt PROVE CheckedSum(v) = Sum(v)
    <2>1. v \in [1 .. m -> Int]
      BY <1>7
    <2>2. PICK g : Adds(g, v, m) /\ Sum(v) = g[m] /\ \A n \in 0 .. m : g[n] \in Int
      BY <2>1, SumWalk
    <2>3. \A n \in 0 .. m : g[n] \in Nat /\ g[n] <= g[m]
      <3>1. PICK T : T = {n \in 0 .. m : g[n] \in Nat}
        OBVIOUS
      <3>2. 0 \in T
        BY <2>2, <3>1 DEF Adds
      <3>3. ASSUME NEW n \in 1 .. m, n - 1 \in T PROVE n \in T
        <4>1. g[n] = g[n - 1] + v[n] /\ n \in 0 .. m /\ v[n] \in Nat /\ g[n - 1] \in Nat
          BY <1>7, <2>2, <3>1, <3>3 DEF Adds
        <4> QED BY <3>1, <4>1
      <3>4. \A n \in 0 .. m : n \in T
        BY <3>2, <3>3, UpTo
      <3>5. PICK U : U = {n \in 0 .. m : g[m - n] <= g[m]}
        OBVIOUS
      <3>6. 0 \in U
        BY <2>2, <3>5
      <3>7. ASSUME NEW n \in 1 .. m, n - 1 \in U PROVE n \in U
        <4>1. m - n + 1 \in 1 .. m /\ (m - n + 1) - 1 = m - n /\ n \in 0 .. m /\ m - n \in 0 .. m
          OBVIOUS
        <4>2. g[m - n + 1] = g[m - n] + v[m - n + 1] /\ v[m - n + 1] \in Nat
          BY <1>7, <2>2, <4>1 DEF Adds
        <4>3. m - (n - 1) = m - n + 1 /\ g[m - n + 1] <= g[m]
          BY <3>5, <3>7
        <4>4. g[m - n] \in Int /\ g[m] \in Int
          BY <1>5, <2>2, <4>1
        <4> QED BY <3>5, <4>1, <4>2, <4>3, <4>4
      <3>8. \A n \in 0 .. m : n \in U
        BY <3>6, <3>7, UpTo
      <3>9. ASSUME NEW n \in 0 .. m PROVE g[n] <= g[m]
        <4>1. m - n \in 0 .. m /\ m - (m - n) = n
          OBVIOUS
        <4> QED BY <3>5, <3>8, <4>1
      <3> QED BY <3>1, <3>4, <3>9
    <2>4. PICK T : T = {n \in 0 .. m : f[n] = g[n]}
      OBVIOUS
    <2>5. 0 \in T
      BY <1>2, <2>2, <2>4 DEF Adding, Adds
    <2>6. ASSUME NEW n \in 1 .. m, n - 1 \in T PROVE n \in T
      <3>1. /\ n \in 0 .. m /\ n - 1 \in 0 .. m /\ v[n] \in Nat
            /\ f[n] = Add(f[n - 1], v[n]) /\ g[n] = g[n - 1] + v[n] /\ f[n - 1] = g[n - 1]
        BY <1>2, <1>7, <2>2, <2>4, <2>6 DEF Adding, Adds
      <3>2. /\ g[n] \in Nat /\ g[n - 1] \in Nat /\ g[n] <= MaxInt /\ v[n] <= g[n]
            /\ g[n - 1] <= g[n]
        BY <1>5, <1>7, <2>2, <2>3, <3>1, BoundsAssumption
      <3>3. g[n - 1] \in Amounts /\ v[n] \in Amounts /\ g[n - 1] + v[n] \in Amounts
        BY <3>1, <3>2, BoundsAssumption DEF Amounts, MinInt
      <3>4. f[n] = g[n]
        BY <3>1, <3>3, AddFacts
      <3> QED BY <2>4, <3>1, <3>4
    <2>7. \A n \in 0 .. m : n \in T
      BY <2>5, <2>6, UpTo
    <2> QED BY <1>2, <1>5, <2>2, <2>4, <2>7
  <1> QED BY <1>6, <1>7

-----------------------------------------------------------------------------
(* Recipes.                                                                *)

\* Rounding up gives runs enough, and no more than (x + y - 1) / y.
LEMMA CeilFacts ==
  ASSUME NEW x \in Nat \ {0}, NEW y \in Nat \ {0}
  PROVE  /\ CeilDivPositive(x, y) \in 1 .. x
         /\ x <= CeilDivPositive(x, y) * y
         /\ CeilDivPositive(x, y) = (x + y - 1) \div y
  <1>1. PICK q, r, c, z, d : /\ q = x \div y /\ r = x % y /\ c = CeilDivPositive(x, y)
                             /\ z = x + y - 1 /\ d = z \div y
    OBVIOUS
  <1>2. q \in Nat /\ r \in 0 .. y - 1 /\ x = y * q + r
    BY <1>1, DivisionFacts
  <1>3. z \in Nat /\ d \in Nat /\ y * d <= z /\ z < y * d + y
    BY <1>1, DivisionFacts
  <1>4. c = IF r # 0 THEN q + 1 ELSE q
    BY <1>1, <1>2 DEF CeilDivPositive
  <1>5. c \in Nat /\ x <= y * c /\ y * c < x + y
    <2>1. y * (q + 1) = y * q + y
      BY <1>2
    <2> QED BY <1>2, <1>4, <2>1
  <1>6. c >= 1
    BY <1>5
  <1>7. c <= x
    <2>1. y * q >= q
      BY <1>2
    <2> QED BY <1>2, <1>4, <2>1
  <1>8. d = c
    <2>1. CASE d < c
      <3>1. y * c = y * d + y + y * (c - d - 1) /\ y * (c - d - 1) >= 0
        BY <1>3, <1>5, <2>1
      <3> QED BY <1>1, <1>3, <1>5, <3>1
    <2>2. CASE d > c
      <3>1. y * d = y * c + y + y * (d - c - 1) /\ y * (d - c - 1) >= 0
        BY <1>3, <1>5, <2>2
      <3> QED BY <1>1, <1>3, <1>5, <3>1
    <2> QED BY <1>3, <1>5, <2>1, <2>2
  <1>9. y * c = c * y
    BY <1>5
  <1> QED BY <1>1, <1>5, <1>6, <1>7, <1>8, <1>9

\* What so many runs take is computed exactly, or the recipe is refused.
LEMMA AggregateFacts ==
  ASSUME NEW r \in Recipes, NEW item \in Items
  PROVE  /\ Needs(r, item) \in Nat
         /\ \A n \in DOMAIN r.ingredients :
               r.ingredients[n].item = item => r.ingredients[n].quantity <= Needs(r, item)
         /\ \A runs \in 1 .. MaxInt :
               LET needs == AggregateIngredients(r.ingredients, runs)
               IN  \/ needs[item] = NoAmount
                   \/ needs[item] = Needs(r, item) * runs /\ needs[item] \in 0 .. MaxInt
  <1>1. PICK list, m : list = r.ingredients /\ m = Len(list)
    OBVIOUS
  <1>2. /\ m \in Nat /\ DOMAIN list = 1 .. m
        /\ \A n \in 1 .. m : list[n].item \in Items /\ list[n].quantity \in 1 .. MaxInt
    <2>1. PICK S : S = [item : Items, quantity : 1 .. MaxInt]
      OBVIOUS
    <2>2. list \in Seq(S)
      BY <1>1, <2>1 DEF Recipes
    <2>3. m \in Nat /\ DOMAIN list = 1 .. m /\ \A n \in 1 .. m : list[n] \in S
      BY <1>1, <2>2
    <2> QED BY <2>1, <2>3
  <1>3. PICK u : u = [n \in 1 .. m |-> IF list[n].item = item THEN list[n].quantity ELSE 0]
    OBVIOUS
  <1>4. u \in [1 .. m -> Nat] /\ u \in [1 .. m -> Int]
    BY <1>2, <1>3, BoundsAssumption
  <1>5. Needs(r, item) = Sum(u)
    BY <1>1, <1>2, <1>3 DEF Needs
  <1>6. Sum(u) \in Nat /\ \A n \in 1 .. m : u[n] <= Sum(u)
    BY <1>2, <1>4, SumFacts
  <1>7. ASSUME NEW runs \in 1 .. MaxInt, NEW needs,
               needs = AggregateIngredients(list, runs), needs[item] # NoAmount
        PROVE  needs[item] = Needs(r, item) * runs /\ needs[item] \in 0 .. MaxInt
    <2>1. PICK v : v = [n \in 1 .. m |-> IF list[n].item # item THEN 0
                                         ELSE Multiply(list[n].quantity, runs)]
      OBVIOUS
    <2>2. needs[item] = CheckedSum(v)
      BY <1>2, <1>7, <2>1 DEF AggregateIngredients
    <2>3. 0 \in Amounts /\ runs \in Amounts /\ Amounts \subseteq Int
      BY BoundsAssumption DEF Amounts, MinInt
    <2>4. ASSUME NEW n \in 1 .. m
          PROVE  /\ v[n] \in Amounts \cup {NoAmount}
                 /\ v[n] \in Amounts => v[n] = u[n] * runs
      <3>1. CASE list[n].item # item
        <4>1. v[n] = 0 /\ u[n] = 0 /\ runs \in Int /\ 0 * runs = 0
          BY <1>3, <2>1, <2>3, <3>1
        <4> QED BY <2>3, <4>1
      <3>2. CASE list[n].item = item
        <4>1. PICK x : x = list[n].quantity
          OBVIOUS
        <4>2. v[n] = Multiply(x, runs) /\ u[n] = x
          BY <1>3, <2>1, <3>2, <4>1
        <4>3. x \in Amounts
          BY <1>2, <4>1, BoundsAssumption DEF Amounts, MinInt
        <4>4. Multiply(x, runs) = IF x * runs \in Amounts THEN x * runs ELSE NoAmount
          BY <2>3, <4>3, MultiplyFacts
        <4>5. NoAmount \notin Amounts
          BY <2>3, BoundsAssumption
        <4> QED BY <4>2, <4>4, <4>5
      <3> QED BY <3>1, <3>2
    <2>5. v \in [1 .. m -> Amounts \cup {NoAmount}]
      BY <2>1, <2>4
    <2>6. v \in [1 .. m -> Amounts] /\ CheckedSum(v) = Sum(v) /\ CheckedSum(v) \in Amounts
      BY <1>2, <1>7, <2>2, <2>5, CheckedFacts
    <2>7. v \in [1 .. m -> Int] /\ runs \in Int /\ \A n \in 1 .. m : v[n] = u[n] * runs
      BY <2>3, <2>4, <2>6
    <2>8. Sum(v) = Sum(u) * runs
      BY <1>2, <1>4, <2>7, SumTimes
    <2>9. Sum(u) * runs \in Nat
      BY <1>6
    <2> QED BY <1>5, <2>2, <2>6, <2>8, <2>9, BoundsAssumption DEF Amounts, MinInt
  <1>8. \A n \in DOMAIN list : list[n].item = item => list[n].quantity <= Sum(u)
    BY <1>2, <1>3, <1>6
  <1> QED BY <1>1, <1>5, <1>6, <1>7, <1>8

-----------------------------------------------------------------------------
(* Plans, step by step.                                                    *)

\* Steps of a plan that is not yet listed.
Steps ==
    {step \in [kind : {"BUY", "BARTER"}, item : Items, recipe : Nat, quantity : 1 .. MaxInt,
               price : Prices] :
        step.kind = "BARTER" =>
            \E n \in DOMAIN input.recipes : step.recipe = input.recipes[n].id}

Total(f, s) == Sum([n \in DOMAIN s |-> f[s[n]]])

\* Totals of lists add up along concatenation, and hold each summand.
LEMMA TotalFacts ==
  ASSUME NEW S, NEW f \in [S -> Nat], NEW s \in Seq(S)
  PROVE  /\ Total(f, s) \in Nat
         /\ s = <<>> => Total(f, s) = 0
         /\ \A n \in DOMAIN s : f[s[n]] <= Total(f, s)
         /\ \A t \in Seq(S) : Total(f, s \o t) = Total(f, s) + Total(f, t)
         /\ \A x \in S : Total(f, Append(s, x)) = Total(f, s) + f[x]
  <1>1. PICK m, v : m = Len(s) /\ v = [n \in DOMAIN s |-> f[s[n]]]
    OBVIOUS
  <1>2. m \in Nat /\ DOMAIN s = 1 .. m /\ \A n \in 1 .. m : s[n] \in S
    BY <1>1
  <1>3. v \in [1 .. m -> Nat] /\ v \in [1 .. m -> Int] /\ Total(f, s) = Sum(v)
    BY <1>1, <1>2 DEF Total
  <1>4. /\ Sum(v) \in Nat /\ (m = 0 => Sum(v) = 0)
        /\ \A n \in 1 .. m : v[n] <= Sum(v)
    BY <1>2, <1>3, SumFacts
  <1>5. s = <<>> => m = 0
    BY <1>1
  <1>6. ASSUME NEW t \in Seq(S) PROVE Total(f, s \o t) = Total(f, s) + Total(f, t)
    <2>1. PICK k, u, c, w, all : /\ k = Len(t) /\ u = [n \in DOMAIN t |-> f[t[n]]] /\ c = s \o t
                                 /\ w = [n \in DOMAIN c |-> f[c[n]]] /\ all = m + k
      OBVIOUS
    <2>2. /\ k \in Nat /\ DOMAIN t = 1 .. k /\ all \in Nat /\ \A n \in 1 .. k : t[n] \in S
      BY <1>2, <2>1
    <2>3. /\ c \in Seq(S) /\ Len(c) = all
          /\ \A i \in 1 .. all : c[i] = IF i <= m THEN s[i] ELSE t[i - m]
      BY <1>1, <2>1, ConcatProperties
    <2>4. DOMAIN c = 1 .. all /\ \A n \in 1 .. all : c[n] \in S
      BY <2>2, <2>3
    <2>5. /\ u \in [1 .. k -> Int] /\ Total(f, t) = Sum(u)
          /\ w \in [1 .. all -> Int] /\ Total(f, c) = Sum(w)
      BY <2>1, <2>2, <2>4 DEF Total
    <2>6. ASSUME NEW n \in 1 .. m PROVE w[n] = v[n]
      <3>1. n \in 1 .. all /\ n <= m
        BY <1>2, <2>1, <2>2
      <3> QED BY <1>1, <1>2, <2>1, <2>3, <2>4, <3>1
    <2>7. ASSUME NEW n \in 1 .. k PROVE w[m + n] = u[n]
      <3>1. m + n \in 1 .. all /\ ~(m + n <= m) /\ (m + n) - m = n
        BY <1>2, <2>1, <2>2
      <3> QED BY <2>1, <2>2, <2>3, <2>4, <3>1
    <2>8. /\ m \in Nat /\ k \in Nat /\ all \in Nat /\ all = m + k
          /\ v \in [1 .. m -> Int] /\ u \in [1 .. k -> Int] /\ w \in [1 .. all -> Int]
          /\ \A n \in 1 .. m : w[n] = v[n]
          /\ \A n \in 1 .. k : w[m + n] = u[n]
      BY <1>2, <1>3, <2>1, <2>2, <2>5, <2>6, <2>7
    <2>9. Sum(w) = Sum(v) + Sum(u)
      <3>1. Joined(v, m, u, k, w, all)
        BY <2>8 DEF Joined
      <3> QED BY <3>1, SumSplit
    <2> QED BY <1>3, <2>1, <2>5, <2>9
  <1>7. ASSUME NEW x \in S PROVE Total(f, Append(s, x)) = Total(f, s) + f[x]
    <2>1. PICK c, w : c = Append(s, x) /\ w = [n \in DOMAIN c |-> f[c[n]]]
      OBVIOUS
    <2>2. /\ c \in Seq(S) /\ Len(c) = m + 1 /\ c[m + 1] = x
          /\ \A n \in 1 .. m : c[n] = s[n]
      BY <1>1, <2>1, AppendProperties
    <2>3. DOMAIN c = 1 .. m + 1 /\ \A n \in 1 .. m + 1 : c[n] \in S
      BY <1>2, <2>2
    <2>4. w \in [1 .. m + 1 -> Int] /\ Total(f, c) = Sum(w)
      <3>1. \A n \in 1 .. m + 1 : f[c[n]] \in Int
        BY <2>3
      <3> QED BY <2>1, <2>3, <3>1 DEF Total
    <2>5. (\A n \in 1 .. m : w[n] = v[n]) /\ w[m + 1] = f[x]
      BY <1>1, <1>2, <2>1, <2>2, <2>3
    <2>6. Sum(w) = Sum(v) + w[m + 1]
      BY <1>2, <1>3, <2>4, <2>5, SumMore
    <2> QED BY <1>3, <2>1, <2>4, <2>5, <2>6
  <1> QED BY <1>1, <1>2, <1>3, <1>4, <1>5, <1>6, <1>7

PriceOf == [step \in Steps |-> IF step.kind = "BUY" THEN step.price * step.quantity ELSE 0]
BarterOf == [step \in Steps |-> IF step.kind = "BARTER" THEN 1 ELSE 0]

\* Exchanges of a plan, as the service counts them.
Barters(steps) == Sum([n \in DOMAIN steps |-> IF steps[n].kind = "BARTER" THEN 1 ELSE 0])

\* What a plan spends and how often it exchanges are totals of its steps.
LEMMA CountFacts ==
  /\ PriceOf \in [Steps -> Nat] /\ BarterOf \in [Steps -> Nat]
  /\ \A s \in Seq(Steps) : Spent(s) = Total(PriceOf, s) /\ Barters(s) = Total(BarterOf, s)
  <1>1. \A step \in Steps : step.price * step.quantity \in Nat
    BY BoundsAssumption DEF Steps, Prices
  <1>2. PriceOf \in [Steps -> Nat] /\ BarterOf \in [Steps -> Nat]
    BY <1>1 DEF PriceOf, BarterOf
  <1>3. ASSUME NEW s \in Seq(Steps)
        PROVE  Spent(s) = Total(PriceOf, s) /\ Barters(s) = Total(BarterOf, s)
    <2>1. \A n \in DOMAIN s : s[n] \in Steps
      OBVIOUS
    <2>2. [n \in DOMAIN s |-> PriceOf[s[n]]]
              = [n \in DOMAIN s |-> IF s[n].kind = "BUY" THEN s[n].price * s[n].quantity ELSE 0]
      BY <2>1 DEF PriceOf
    <2>3. [n \in DOMAIN s |-> BarterOf[s[n]]]
              = [n \in DOMAIN s |-> IF s[n].kind = "BARTER" THEN 1 ELSE 0]
      BY <2>1 DEF BarterOf
    <2> QED BY <2>2, <2>3 DEF Total, Spent, Barters
  <1> QED BY <1>2, <1>3

\* What the inputs are known to be.
LEMMA InputFacts ==
  ASSUME input \in Inputs
  PROVE  /\ Len(input.recipes) \in Nat /\ DOMAIN input.recipes = 1 .. Len(input.recipes)
         /\ \A n \in DOMAIN input.recipes :
               /\ input.recipes[n] \in Recipes /\ RecipeOf(input.recipes[n].id) = input.recipes[n]
               /\ input.recipes[n].ingredients # <<>>
               /\ \A item \in Items :
                     AggregateIngredients(input.recipes[n].ingredients, 1)[item] # NoAmount
         /\ ToSet(input.recipes) = {input.recipes[n] : n \in DOMAIN input.recipes}
         /\ \A item \in Items : Quoted(item) => Quotes[item] \in MarketQuotes
  <1>1. PICK list : list = input.recipes
    OBVIOUS
  <1>2. /\ list \in Seq(Recipes)
        /\ \A m, n \in DOMAIN list : list[m].id = list[n].id => m = n
        /\ \A n \in DOMAIN list :
              /\ list[n].ingredients # <<>>
              /\ \A item \in Items : AggregateIngredients(list[n].ingredients, 1)[item] # NoAmount
        /\ input.quotes \in [Items -> {NoQuote} \cup MarketQuotes]
    BY <1>1, InputsAssumption
  <1>3. /\ Len(list) \in Nat /\ DOMAIN list = 1 .. Len(list)
        /\ \A n \in DOMAIN list : list[n] \in Recipes
    BY <1>2
  <1>4. ToSet(list) = {list[n] : n \in DOMAIN list}
    BY <1>3 DEF ToSet
  <1>5. ASSUME NEW n \in DOMAIN list PROVE RecipeOf(list[n].id) = list[n]
    <2>1. \A r \in ToSet(list) : r.id = list[n].id => r = list[n]
      BY <1>2, <1>4, <1>5
    <2>2. list[n] \in ToSet(list)
      BY <1>4, <1>5
    <2> QED BY <1>1, <2>1, <2>2 DEF RecipeOf
  <1>6. ASSUME NEW item \in Items, Quoted(item) PROVE Quotes[item] \in MarketQuotes
    BY <1>2, <1>6 DEF Quoted, Quotes
  <1> QED BY <1>1, <1>2, <1>3, <1>4, <1>5, <1>6

\* No step brings or takes less than nothing.
LEMMA MoveFacts ==
  ASSUME input \in Inputs, NEW step \in Steps, NEW item \in Items
  PROVE  Gain(step, item) \in Nat /\ Loss(step, item) \in Nat
  <1>1. /\ step.kind \in {"BUY", "BARTER"} /\ step.quantity \in Nat
    BY BoundsAssumption DEF Steps
  <1>2. CASE step.kind = "BUY"
    BY <1>1, <1>2 DEF Gain, Loss
  <1>3. CASE step.kind = "BARTER"
    <2>1. PICK n \in DOMAIN input.recipes : step.recipe = input.recipes[n].id
      BY <1>3 DEF Steps
    <2>2. PICK r : r = input.recipes[n]
      OBVIOUS
    <2>3. r \in Recipes /\ RecipeOf(step.recipe) = r
      BY <2>1, <2>2, InputFacts
    <2>4. Needs(r, item) \in Nat /\ r.count \in Nat
      <3>1. Needs(r, item) \in Nat
        BY <2>3, AggregateFacts
      <3>2. r.count \in 1 .. MaxInt
        BY <2>3 DEF Recipes
      <3> QED BY <3>1, <3>2, BoundsAssumption
    <2>5. step.quantity * Needs(r, item) \in Nat /\ step.quantity * r.count \in Nat
      BY <1>1, <2>4
    <2> QED BY <1>3, <2>3, <2>5 DEF Gain, Loss
  <1> QED BY <1>1, <1>2, <1>3

\* What is held follows step by step.
LEMMA HeldFacts ==
  ASSUME NEW start, NEW S, NEW s \in Seq(S)
  PROVE  /\ Held(start, s)[0] = start
         /\ \A n \in 1 .. Len(s) : Held(start, s)[n] = After(Held(start, s)[n - 1], s[n])
  <1>1. Len(s) \in Nat
    OBVIOUS
  <1> QED BY <1>1, HeldLoop

\* Carrying out two plans is carrying out the second with what the first left.
LEMMA HeldConcat ==
  ASSUME NEW start, NEW S, NEW s \in Seq(S), NEW t \in Seq(S)
  PROVE  /\ \A n \in 0 .. Len(s) : Held(start, s \o t)[n] = Held(start, s)[n]
         /\ \A n \in 0 .. Len(t) :
               Held(start, s \o t)[Len(s) + n] = Held(Held(start, s)[Len(s)], t)[n]
  <1>1. PICK k, m, c, all : k = Len(s) /\ m = Len(t) /\ c = s \o t /\ all = k + m
    OBVIOUS
  <1>2. /\ k \in Nat /\ m \in Nat /\ all \in Nat
        /\ c \in Seq(S) /\ Len(c) = all
        /\ \A i \in 1 .. all : c[i] = IF i <= k THEN s[i] ELSE t[i - k]
    BY <1>1, ConcatProperties
  <1>3. PICK F, G, H : F = Held(start, s) /\ G = Held(F[k], t) /\ H = Held(start, c)
    OBVIOUS
  <1>4. /\ F[0] = start /\ \A n \in 1 .. k : F[n] = After(F[n - 1], s[n])
        /\ G[0] = F[k] /\ \A n \in 1 .. m : G[n] = After(G[n - 1], t[n])
        /\ H[0] = start /\ \A n \in 1 .. all : H[n] = After(H[n - 1], c[n])
    <2>1. F[0] = start /\ \A n \in 1 .. k : F[n] = After(F[n - 1], s[n])
      <3>1. /\ Held(start, s)[0] = start
            /\ \A n \in 1 .. Len(s) : Held(start, s)[n] = After(Held(start, s)[n - 1], s[n])
        BY HeldFacts
      <3> QED BY <1>1, <1>2, <1>3, <3>1
    <2>2. G[0] = F[k] /\ \A n \in 1 .. m : G[n] = After(G[n - 1], t[n])
      <3>1. /\ Held(F[k], t)[0] = F[k]
            /\ \A n \in 1 .. Len(t) : Held(F[k], t)[n] = After(Held(F[k], t)[n - 1], t[n])
        BY HeldFacts
      <3> QED BY <1>1, <1>2, <1>3, <3>1
    <2>3. H[0] = start /\ \A n \in 1 .. all : H[n] = After(H[n - 1], c[n])
      <3>1. /\ Held(start, c)[0] = start
            /\ \A n \in 1 .. Len(c) : Held(start, c)[n] = After(Held(start, c)[n - 1], c[n])
        <4>1. c \in Seq(S)
          BY <1>2
        <4> QED BY <4>1, HeldFacts
      <3> QED BY <1>1, <1>2, <1>3, <3>1
    <2> QED BY <2>1, <2>2, <2>3
  <1>5. \A n \in 0 .. k : H[n] = F[n]
    <2>1. PICK T : T = {n \in 0 .. k : H[n] = F[n]}
      OBVIOUS
    <2>2. 0 \in T
      BY <1>2, <1>4, <2>1
    <2>3. ASSUME NEW n \in 1 .. k, n - 1 \in T PROVE n \in T
      <3>1. n \in 1 .. all /\ n <= k /\ n \in 0 .. k
        BY <1>1, <1>2
      <3>2. H[n - 1] = F[n - 1] /\ c[n] = s[n]
        BY <1>2, <2>1, <2>3, <3>1
      <3>3. H[n] = After(H[n - 1], c[n]) /\ F[n] = After(F[n - 1], s[n])
        BY <1>4, <3>1
      <3> QED BY <2>1, <3>1, <3>2, <3>3
    <2>4. \A n \in 0 .. k : n \in T
      BY <1>2, <2>2, <2>3, UpTo
    <2> QED BY <2>1, <2>4
  <1>6. \A n \in 0 .. m : H[k + n] = G[n]
    <2>1. PICK T : T = {n \in 0 .. m : H[k + n] = G[n]}
      OBVIOUS
    <2>2. 0 \in T
      BY <1>2, <1>4, <1>5, <2>1
    <2>3. ASSUME NEW n \in 1 .. m, n - 1 \in T PROVE n \in T
      <3>1. /\ k + n \in 1 .. all /\ ~(k + n <= k) /\ (k + n) - k = n /\ n \in 0 .. m
            /\ (k + n) - 1 = k + (n - 1)
        BY <1>1, <1>2
      <3>2. H[k + (n - 1)] = G[n - 1] /\ c[k + n] = t[n]
        BY <1>2, <2>1, <2>3, <3>1
      <3>3. H[k + n] = After(H[k + (n - 1)], c[k + n]) /\ G[n] = After(G[n - 1], t[n])
        BY <1>4, <3>1
      <3> QED BY <2>1, <3>1, <3>2, <3>3
    <2>4. \A n \in 0 .. m : n \in T
      BY <1>2, <2>2, <2>3, UpTo
    <2> QED BY <2>1, <2>4
  <1> QED BY <1>1, <1>3, <1>5, <1>6

Final(start, s) == Held(start, s)[Len(s)]

\* A plan possible after another one is possible after it in one list.
LEMMA FeasibleConcat ==
  ASSUME NEW start, NEW S, NEW s \in Seq(S), NEW t \in Seq(S),
         Feasible(start, s), Feasible(Final(start, s), t)
  PROVE  Feasible(start, s \o t) /\ Final(start, s \o t) = Final(Final(start, s), t)
  <1>1. PICK k, m, c, all : k = Len(s) /\ m = Len(t) /\ c = s \o t /\ all = k + m
    OBVIOUS
  <1>2. /\ k \in Nat /\ m \in Nat /\ all \in Nat
        /\ c \in Seq(S) /\ Len(c) = all
        /\ \A i \in 1 .. all : c[i] = IF i <= k THEN s[i] ELSE t[i - k]
    BY <1>1, ConcatProperties
  <1>3. DOMAIN s = 1 .. k /\ DOMAIN t = 1 .. m /\ DOMAIN c = 1 .. all
    BY <1>1, <1>2
  <1>4. PICK F, G, H : F = Held(start, s) /\ G = Held(F[k], t) /\ H = Held(start, c)
    OBVIOUS
  <1>5. (\A n \in 0 .. k : H[n] = F[n]) /\ \A n \in 0 .. m : H[k + n] = G[n]
    BY <1>1, <1>4, HeldConcat
  <1>6. ASSUME NEW n \in 1 .. all, NEW item \in Items PROVE Loss(c[n], item) <= H[n - 1][item]
    <2>1. CASE n <= k
      <3>1. n \in 1 .. k /\ n - 1 \in 0 .. k /\ c[n] = s[n]
        BY <1>2, <2>1
      <3>2. Loss(s[n], item) <= F[n - 1][item]
        BY <1>3, <1>4, <3>1 DEF Feasible
      <3> QED BY <1>5, <3>1, <3>2
    <2>2. CASE ~(n <= k)
      <3>1. PICK j : j = n - k
        OBVIOUS
      <3>2. j \in 1 .. m /\ j - 1 \in 0 .. m /\ c[n] = t[j] /\ n - 1 = k + (j - 1)
        BY <1>1, <1>2, <2>2, <3>1
      <3>3. Loss(t[j], item) <= G[j - 1][item]
        BY <1>1, <1>3, <1>4, <3>2 DEF Feasible, Final
      <3> QED BY <1>5, <3>2, <3>3
    <2> QED BY <2>1, <2>2
  <1>7. Feasible(start, c)
    BY <1>3, <1>4, <1>6 DEF Feasible
  <1>8. H[all] = G[m]
    <2>1. m \in 0 .. m
      BY <1>2
    <2> QED BY <1>1, <1>5, <2>1
  <1> QED BY <1>1, <1>2, <1>4, <1>7, <1>8 DEF Final

Holdings == [Items -> Nat]

\* With whatever is held at first, the plan can be carried out, and leaves at
\* least the gains on top of it.
Brings(s, gains) ==
    \A start \in Holdings :
        /\ Feasible(start, s) /\ Final(start, s) \in Holdings
        /\ \A item \in Items : start[item] + gains[item] <= Final(start, s)[item]

Gains(item, quantity) == [i \in Items |-> IF i = item THEN quantity ELSE 0]

\* The empty plan brings nothing.
LEMMA BringsNothing == Brings(<<>>, EmptyHands)
  <1>1. ASSUME NEW start \in Holdings
        PROVE  /\ Feasible(start, <<>>) /\ Final(start, <<>>) = start
               /\ \A item \in Items : start[item] + EmptyHands[item] <= start[item]
    <2>1. <<>> \in Seq(Nat) /\ Len(<<>>) = 0
      OBVIOUS
    <2>2. Held(start, <<>>)[0] = start
      BY <2>1, HeldFacts
    <2>3. DOMAIN <<>> = {}
      OBVIOUS
    <2>4. \A item \in Items : start[item] + EmptyHands[item] <= start[item]
      BY DEF EmptyHands, Holdings
    <2> QED BY <2>1, <2>2, <2>3, <2>4 DEF Feasible, Final
  <1> QED BY <1>1 DEF Brings

\* Two plans bring what each of them brings.
LEMMA BringsConcat ==
  ASSUME NEW S, NEW s \in Seq(S), NEW t \in Seq(S), NEW g \in Holdings, NEW h \in Holdings,
         Brings(s, g), Brings(t, h), NEW sum, \A item \in Items : sum[item] = g[item] + h[item]
  PROVE  Brings(s \o t, sum)
  <1>1. ASSUME NEW start \in Holdings
        PROVE  /\ Feasible(start, s \o t) /\ Final(start, s \o t) \in Holdings
               /\ \A item \in Items : start[item] + sum[item] <= Final(start, s \o t)[item]
    <2>1. PICK mid, end : mid = Final(start, s) /\ end = Final(mid, t)
      OBVIOUS
    <2>2. /\ Feasible(start, s) /\ mid \in Holdings
          /\ \A item \in Items : start[item] + g[item] <= mid[item]
      BY <1>1, <2>1 DEF Brings
    <2>3. /\ Feasible(mid, t) /\ end \in Holdings
          /\ \A item \in Items : mid[item] + h[item] <= end[item]
      BY <2>1, <2>2 DEF Brings
    <2>4. Feasible(start, s \o t) /\ Final(start, s \o t) = end
      <3>1. Feasible(start, s) /\ Feasible(Final(start, s), t)
        BY <2>1, <2>2, <2>3
      <3>2. Feasible(start, s \o t) /\ Final(start, s \o t) = Final(Final(start, s), t)
        BY <3>1, FeasibleConcat
      <3> QED BY <2>1, <3>2
    <2>5. ASSUME NEW item \in Items PROVE start[item] + sum[item] <= end[item]
      <3>1. /\ start[item] \in Nat /\ mid[item] \in Nat /\ end[item] \in Nat
            /\ g[item] \in Nat /\ h[item] \in Nat /\ sum[item] = g[item] + h[item]
        BY <1>1, <2>2, <2>3 DEF Holdings
      <3>2. start[item] + g[item] <= mid[item] /\ mid[item] + h[item] <= end[item]
        BY <2>2, <2>3
      <3> QED BY <3>1, <3>2
    <2>6. \A item \in Items : start[item] + sum[item] <= Final(start, s \o t)[item]
      BY <2>4, <2>5
    <2>7. Final(start, s \o t) \in Holdings
      BY <2>3, <2>4
    <2> QED BY <2>4, <2>6, <2>7
  <1> QED BY <1>1 DEF Brings

\* A single step.
LEMMA MoveAlone ==
  ASSUME NEW S, NEW x \in S, NEW start, \A item \in Items : Loss(x, item) <= start[item]
  PROVE  Feasible(start, <<x>>) /\ Final(start, <<x>>) = After(start, x)
  <1>1. PICK s : s = <<x>>
    OBVIOUS
  <1>2. s \in Seq(S) /\ Len(s) = 1 /\ DOMAIN s = {1} /\ s[1] = x
    BY <1>1
  <1>3. Held(start, s)[0] = start /\ Held(start, s)[1] = After(start, x)
    <2>1. /\ Held(start, s)[0] = start
          /\ \A n \in 1 .. Len(s) : Held(start, s)[n] = After(Held(start, s)[n - 1], s[n])
      <3>1. s \in Seq(S)
        BY <1>2
      <3> QED BY <3>1, HeldFacts
    <2>2. 1 \in 1 .. Len(s) /\ 1 - 1 = 0
      BY <1>2
    <2> QED BY <1>2, <2>1, <2>2
  <1>4. \A n \in DOMAIN s : n - 1 = 0 /\ s[n] = x
    BY <1>2
  <1> QED BY <1>1, <1>2, <1>3, <1>4 DEF Feasible, Final

\* A purchase brings what it buys.
LEMMA BringsBuy ==
  ASSUME NEW x, x.kind = "BUY", NEW item \in Items, NEW quantity \in Nat,
         x.item = item, x.quantity = quantity
  PROVE  Brings(<<x>>, Gains(item, quantity))
  <1>1. ASSUME NEW start \in Holdings
        PROVE  /\ Feasible(start, <<x>>) /\ Final(start, <<x>>) \in Holdings
               /\ \A i \in Items :
                     start[i] + Gains(item, quantity)[i] <= Final(start, <<x>>)[i]
    <2>1. \A i \in Items : Loss(x, i) = 0 /\ Gain(x, i) = IF i # item THEN 0 ELSE quantity
      BY DEF Loss, Gain
    <2>2. \A i \in Items : start[i] \in Nat
      BY <1>1 DEF Holdings
    <2>3. PICK S : S = {x}
      OBVIOUS
    <2>4. x \in S /\ \A i \in Items : Loss(x, i) <= start[i]
      BY <2>1, <2>2, <2>3
    <2>5. Feasible(start, <<x>>) /\ Final(start, <<x>>) = After(start, x)
      BY <2>4, MoveAlone
    <2>6. \A i \in Items :
             /\ After(start, x)[i] = start[i] + Gains(item, quantity)[i]
             /\ After(start, x)[i] \in Nat
      BY <2>1, <2>2 DEF After, Gains
    <2>7. After(start, x) = [i \in Items |-> After(start, x)[i]]
      BY DEF After
    <2>8. After(start, x) \in Holdings
      BY <2>6, <2>7 DEF Holdings
    <2> QED BY <2>2, <2>5, <2>6, <2>8
  <1> QED BY <1>1 DEF Brings

\* An exchange, when what it takes is held.
LEMMA BringsBarter ==
  ASSUME input \in Inputs, NEW n \in DOMAIN input.recipes, NEW r, r = input.recipes[n],
         NEW runs \in 1 .. MaxInt, NEW s \in Seq(Steps), NEW needs, Brings(s, needs),
         \A item \in Items : needs[item] = Needs(r, item) * runs,
         NEW quantity \in Nat, quantity <= runs * r.count
  PROVE  /\ BarterStep(r, runs) \in Steps
         /\ Brings(Append(s, BarterStep(r, runs)), Gains(r.result, quantity))
  <1>1. PICK x, t : x = BarterStep(r, runs) /\ t = <<x>>
    OBVIOUS
  <1>2. r \in Recipes /\ RecipeOf(r.id) = r /\ runs \in Nat
    BY InputFacts, BoundsAssumption
  <1>3. /\ r.id \in Nat /\ r.result \in Items /\ r.count \in Nat
        /\ \A item \in Items : Needs(r, item) \in Nat
    <2>1. \A item \in Items : Needs(r, item) \in Nat
      BY <1>2, AggregateFacts
    <2>2. r.id \in Nat /\ r.result \in Items /\ r.count \in 1 .. MaxInt
      BY <1>2 DEF Recipes
    <2> QED BY <2>1, <2>2, BoundsAssumption
  <1>4. x \in Steps
    <2>1. 0 \in Prices
      BY BoundsAssumption DEF Prices
    <2> QED BY <1>1, <1>3, <2>1 DEF Steps, BarterStep
  <1>5. \A item \in Items :
           /\ Loss(x, item) = runs * Needs(r, item)
           /\ Gain(x, item) = IF item # r.result THEN 0 ELSE runs * r.count
    BY <1>1, <1>2 DEF BarterStep, Loss, Gain
  <1>6. Append(s, x) = s \o t
    BY <1>1, <1>4, AppendIsConcat
  <1>7. ASSUME NEW start \in Holdings
        PROVE  /\ Feasible(start, s \o t) /\ Final(start, s \o t) \in Holdings
               /\ \A item \in Items : start[item] + Gains(r.result, quantity)[item]
                                          <= Final(start, s \o t)[item]
    <2>1. PICK mid, end : mid = Final(start, s) /\ end = After(mid, x)
      OBVIOUS
    <2>2. /\ Feasible(start, s) /\ mid \in Holdings
          /\ \A item \in Items : start[item] + needs[item] <= mid[item]
      BY <1>7, <2>1 DEF Brings
    <2>3. ASSUME NEW item \in Items
          PROVE  /\ Loss(x, item) <= mid[item]
                 /\ end[item] \in Nat
                 /\ start[item] + Gains(r.result, quantity)[item] <= end[item]
      <3>1. PICK before, held, loss, gain, wanted :
                   /\ before = start[item] /\ held = mid[item]
                   /\ loss = Loss(x, item) /\ gain = Gain(x, item)
                   /\ wanted = Gains(r.result, quantity)[item]
        OBVIOUS
      <3>2. before \in Nat /\ held \in Nat /\ before + needs[item] <= held
        BY <1>7, <2>2, <3>1 DEF Holdings
      <3>3. loss \in Nat /\ needs[item] = loss
        BY <1>2, <1>3, <1>5, <3>1
      <3>4. gain \in Nat /\ wanted \in Nat /\ wanted <= gain
        <4>1. runs * r.count \in Nat
          BY <1>2, <1>3
        <4> QED BY <1>5, <3>1, <4>1 DEF Gains
      <3>5. end[item] = held - loss + gain
        BY <2>1, <3>1 DEF After
      <3>6. loss <= held /\ end[item] \in Nat /\ before + wanted <= end[item]
        BY <3>2, <3>3, <3>4, <3>5
      <3> QED BY <3>1, <3>6
    <2>4. end \in Holdings
      <3>1. end = [item \in Items |-> end[item]]
        BY <2>1 DEF After
      <3> QED BY <2>3, <3>1 DEF Holdings
    <2>5. Feasible(mid, t) /\ Final(mid, t) = end
      <3>1. \A item \in Items : Loss(x, item) <= mid[item]
        BY <2>3
      <3>2. Feasible(mid, <<x>>) /\ Final(mid, <<x>>) = After(mid, x)
        BY <1>4, <3>1, MoveAlone
      <3> QED BY <1>1, <2>1, <3>2
    <2>6. t \in Seq(Steps)
      BY <1>1, <1>4
    <2>7. Feasible(start, s \o t) /\ Final(start, s \o t) = end
      <3>1. Feasible(start, s) /\ Feasible(Final(start, s), t)
        BY <2>1, <2>2, <2>5
      <3>2. Feasible(start, s \o t) /\ Final(start, s \o t) = Final(Final(start, s), t)
        BY <2>6, <3>1, FeasibleConcat
      <3> QED BY <2>1, <2>5, <3>2
    <2> QED BY <2>3, <2>4, <2>7
  <1>8. Brings(s \o t, Gains(r.result, quantity))
    BY <1>7 DEF Brings
  <1> QED BY <1>1, <1>4, <1>6, <1>8

-----------------------------------------------------------------------------
(* What the search answers.                                                *)

PlanRecords ==
    [status : {"ok", "unavailable", "error"}, cost : 0 .. MaxInt, steps : Seq(Steps),
     observedAt : SUBSET Int, recipes : Nat]
Results == [plan : PlanRecords, used : Nat]

\* A plan for these gains: exact, and possible to carry out.
Good(p, gains) ==
    /\ p.cost = Spent(p.steps) /\ p.recipes = Barters(p.steps)
    /\ IsFiniteSet(p.observedAt) /\ Brings(p.steps, gains)

Buys(p) == \E n \in DOMAIN p.steps : p.steps[n].kind = "BUY"

Least(cost, costs) == cost \in costs /\ \A c \in costs : cost <= c

\* A sound answer, if those are the costs of all the ways there are.
Answer(p, gains, costs) ==
    /\ p \in PlanRecords
    /\ p.status = "ok" => Good(p, gains) /\ Buys(p) /\ Least(p.cost, costs)
    /\ p.status = "unavailable" => costs = {}

\* A search that answers every request for a quantity soundly.
Sound(search, costs) ==
    \A q \in Requests : q.quantity \in 1 .. MaxInt =>
        /\ search[q] \in Results
        /\ Answer(search[q].plan, Gains(q.item, q.quantity),
                  costs[Wish(q.item, q.quantity, q.visiting)])

\* Costs are numbers that are not negative.
Numbers(costs) == \A w \in Wishes : w.quantity \in Nat => costs[w] \in SUBSET Nat

\* What is asked for is a request, and a wish of the reference.
LEMMA RequestFacts ==
  ASSUME NEW item \in Items, NEW quantity \in Int, NEW visiting \in SUBSET Nat, NEW used \in Nat
  PROVE  /\ Request(item, quantity, visiting, used) \in Requests
         /\ Wish(item, quantity, visiting) \in Wishes
  BY DEF Request, Requests, Wish, Wishes

\* The plans that are none.
LEMMA NoPlanFacts ==
  /\ Unavailable \in PlanRecords /\ Unavailable.status = "unavailable"
  /\ Failed \in PlanRecords /\ Failed.status = "error"
  <1>1. 0 \in 0 .. MaxInt /\ <<>> \in Seq(Steps) /\ {} \in SUBSET Int /\ 0 \in Nat
    BY BoundsAssumption
  <1> QED BY <1>1 DEF PlanRecords, Unavailable, Failed, Acquisition

\* The plan that buys nothing.
LEMMA EmptyPlanFacts ==
  LET p == Acquisition("ok", 0, <<>>, {}, 0)
  IN  p \in PlanRecords /\ Good(p, EmptyHands) /\ Least(p.cost, {0}) /\ p.status = "ok"
  <1>1. 0 \in 0 .. MaxInt /\ <<>> \in Seq(Steps) /\ {} \in SUBSET Int /\ 0 \in Nat
    BY BoundsAssumption
  <1>2. Spent(<<>>) = 0 /\ Barters(<<>>) = 0
    <2>1. Total(PriceOf, <<>>) = 0 /\ Total(BarterOf, <<>>) = 0
      BY <1>1, CountFacts, TotalFacts
    <2> QED BY <1>1, <2>1, CountFacts
  <1>3. IsFiniteSet({})
    BY FS_EmptySet
  <1>4. PICK p : p = Acquisition("ok", 0, <<>>, {}, 0)
    OBVIOUS
  <1>5. p \in PlanRecords /\ p.status = "ok"
    BY <1>1, <1>4 DEF PlanRecords, Acquisition
  <1>6. p.cost = 0 /\ p.steps = <<>> /\ p.observedAt = {} /\ p.recipes = 0
    BY <1>4 DEF Acquisition
  <1>7. Good(p, EmptyHands) /\ Least(p.cost, {0})
    BY <1>2, <1>3, <1>6, BringsNothing DEF Good, Least
  <1> QED BY <1>4, <1>5, <1>7

\* Buying on the market.
LEMMA MarketFacts ==
  ASSUME input \in Inputs
  PROVE  Sound(Market, MarketCosts) /\ Numbers(MarketCosts)
  <1>1. ASSUME NEW item \in Items, Quoted(item)
        PROVE  /\ Quotes[item].purchase \in 0 .. MaxInt /\ Quotes[item].observedAt \in Int
    BY <1>1, InputFacts DEF MarketQuotes, Prices
  <1>2. ASSUME NEW q \in Requests, q.quantity \in 1 .. MaxInt
        PROVE  /\ Market[q] \in Results
               /\ Answer(Market[q].plan, Gains(q.item, q.quantity),
                         MarketCosts[Wish(q.item, q.quantity, q.visiting)])
    <2>1. q.item \in Items /\ q.quantity \in Int /\ q.visiting \in SUBSET Nat /\ q.used \in Nat
      BY DEF Requests
    <2>2. PICK item, quantity, p, w : /\ item = q.item /\ quantity = q.quantity
                                      /\ p = BuyOnMarket(item, quantity)
                                      /\ w = Wish(item, quantity, q.visiting)
      OBVIOUS
    <2>3. w \in Wishes /\ w.item = item /\ w.quantity = quantity
      BY <2>1, <2>2, RequestFacts DEF Wish
    <2>4. Market[q] = [plan |-> p, used |-> q.used]
      BY <2>2 DEF Market
    <2>5. MarketCosts[w] = IF Quoted(item) THEN {Quotes[item].purchase * quantity} ELSE {}
      BY <2>3 DEF MarketCosts
    <2>6. Answer(p, Gains(item, quantity), MarketCosts[w])
      <3>1. CASE ~Quoted(item)
        <4>1. p = Unavailable
          BY <2>2, <3>1 DEF BuyOnMarket
        <4> QED BY <2>5, <3>1, <4>1, NoPlanFacts DEF Answer
      <3>2. CASE Quoted(item)
        <4>1. PICK price, cost : price = Quotes[item].purchase /\ cost = Multiply(price, quantity)
          OBVIOUS
        <4>2. price \in 0 .. MaxInt /\ quantity \in 1 .. MaxInt
          BY <1>1, <1>2, <2>1, <2>2, <3>2, <4>1
        <4>3. price * quantity \in Nat /\ price \in Amounts /\ quantity \in Amounts
          BY <4>2, BoundsAssumption DEF Amounts, MinInt
        <4>4. cost = IF price * quantity \in Amounts THEN price * quantity ELSE NoAmount
          BY <4>1, <4>3, MultiplyFacts
        <4>5. CASE cost = NoAmount
          <5>1. p = Failed
            BY <2>2, <3>2, <4>1, <4>5 DEF BuyOnMarket
          <5> QED BY <5>1, NoPlanFacts DEF Answer
        <4>6. CASE cost # NoAmount
          <5>1. cost = price * quantity /\ cost \in 0 .. MaxInt
            <6>1. cost = price * quantity /\ cost \in Amounts
              BY <4>4, <4>6
            <6>2. cost \in Nat
              BY <4>3, <6>1
            <6> QED BY <6>1, <6>2, BoundsAssumption DEF Amounts, MinInt
          <5>2. PICK x, s, at : /\ x = BuyStep(item, quantity) /\ s = <<x>>
                                /\ at = Quotes[item].observedAt
            OBVIOUS
          <5>3. p = Acquisition("ok", cost, s, {at}, 0)
            BY <2>2, <3>2, <4>1, <4>6, <5>2 DEF BuyOnMarket
          <5>4. /\ x \in Steps /\ x.kind = "BUY" /\ x.item = item /\ x.quantity = quantity
                /\ x.price = price
            BY <2>1, <2>2, <4>1, <4>2, <5>2 DEF BuyStep, Steps, Prices
          <5>5. s \in Seq(Steps) /\ DOMAIN s = {1} /\ s[1] = x
            BY <5>2, <5>4
          <5>6. Spent(s) = cost /\ Barters(s) = 0
            <6>1. <<>> \in Seq(Steps) /\ Append(<<>>, x) = s
              BY <5>2, <5>4
            <6>2. /\ Total(PriceOf, Append(<<>>, x)) = Total(PriceOf, <<>>) + PriceOf[x]
                  /\ Total(PriceOf, <<>>) = 0
                  /\ Total(BarterOf, Append(<<>>, x)) = Total(BarterOf, <<>>) + BarterOf[x]
                  /\ Total(BarterOf, <<>>) = 0
              <7>1. PriceOf \in [Steps -> Nat] /\ BarterOf \in [Steps -> Nat]
                BY CountFacts
              <7>2. /\ Total(PriceOf, Append(<<>>, x)) = Total(PriceOf, <<>>) + PriceOf[x]
                    /\ Total(PriceOf, <<>>) = 0
                BY <5>4, <6>1, <7>1, TotalFacts
              <7>3. /\ Total(BarterOf, Append(<<>>, x)) = Total(BarterOf, <<>>) + BarterOf[x]
                    /\ Total(BarterOf, <<>>) = 0
                BY <5>4, <6>1, <7>1, TotalFacts
              <7> QED BY <7>2, <7>3
            <6>3. PriceOf[x] = cost /\ BarterOf[x] = 0
              BY <5>1, <5>4 DEF PriceOf, BarterOf
            <6>4. cost \in Nat
              BY <4>3, <5>1
            <6>5. Total(PriceOf, s) = cost /\ Total(BarterOf, s) = 0
              BY <6>1, <6>2, <6>3, <6>4
            <6> QED BY <5>5, <6>5, CountFacts
          <5>7. Brings(s, Gains(item, quantity))
            <6>1. quantity \in Nat
              BY <4>2
            <6> QED BY <2>1, <2>2, <5>2, <5>4, <6>1, BringsBuy
          <5>8. at \in Int /\ IsFiniteSet({at})
            BY <1>1, <2>1, <2>2, <3>2, <5>2, FS_Singleton
          <5>9. /\ p.status = "ok" /\ p.cost = cost /\ p.steps = s /\ p.observedAt = {at}
                /\ p.recipes = 0
            BY <5>3 DEF Acquisition
          <5>10. p \in PlanRecords
            BY <5>1, <5>3, <5>5, <5>8 DEF Acquisition, PlanRecords
          <5>11. Good(p, Gains(item, quantity)) /\ Buys(p)
            BY <5>4, <5>5, <5>6, <5>7, <5>8, <5>9 DEF Good, Buys
          <5>12. Least(p.cost, MarketCosts[w])
            BY <2>5, <3>2, <4>1, <5>1, <5>9 DEF Least
          <5> QED BY <5>9, <5>10, <5>11, <5>12 DEF Answer
        <4> QED BY <4>5, <4>6
      <3> QED BY <3>1, <3>2
    <2>7. p \in PlanRecords
      BY <2>6 DEF Answer
    <2>8. Market[q] \in Results /\ Market[q].plan = p
      BY <2>1, <2>4, <2>7 DEF Results
    <2> QED BY <2>2, <2>6, <2>8
  <1>3. ASSUME NEW w \in Wishes, w.quantity \in Nat PROVE MarketCosts[w] \in SUBSET Nat
    <2>1. w.item \in Items /\ MarketCosts[w]
                                 = IF Quoted(w.item) THEN {Quotes[w.item].purchase * w.quantity} ELSE {}
      BY DEF MarketCosts, Wishes
    <2>2. Quoted(w.item) => Quotes[w.item].purchase * w.quantity \in Nat
      BY <1>1, <1>3, <2>1, BoundsAssumption
    <2> QED BY <2>1, <2>2
  <1> QED BY <1>2, <1>3 DEF Sound, Numbers

Sums(A, B) == {x + y : x \in A, y \in B}

\* Sums of two sets of costs.
LEMMA SumsFacts ==
  ASSUME NEW A \in SUBSET Nat, NEW B \in SUBSET Nat
  PROVE  /\ \A x \in A, y \in B : x + y \in Sums(A, B)
         /\ \A z \in Sums(A, B) : \E x \in A, y \in B : z = x + y
         /\ Sums(A, B) \in SUBSET Nat
         /\ A = {} \/ B = {} => Sums(A, B) = {}
  <1>1. \A x \in A, y \in B : x + y \in Sums(A, B)
    BY DEF Sums
  <1>2. \A z \in Sums(A, B) : \E x \in A, y \in B : z = x + y
    BY DEF Sums
  <1>3. \A x \in A, y \in B : x + y \in Nat
    OBVIOUS
  <1>4. Sums(A, B) \in SUBSET Nat
    BY <1>2, <1>3
  <1>5. A = {} \/ B = {} => Sums(A, B) = {}
    BY <1>2
  <1> QED BY <1>1, <1>2, <1>4, <1>5

\* What two plans cost and exchange together.
LEMMA SpentFacts ==
  ASSUME NEW s \in Seq(Steps)
  PROVE  /\ Spent(s) \in Nat /\ Barters(s) \in Nat
         /\ \A t \in Seq(Steps) : /\ s \o t \in Seq(Steps)
                                 /\ Spent(s \o t) = Spent(s) + Spent(t)
                                 /\ Barters(s \o t) = Barters(s) + Barters(t)
         /\ \A x \in Steps : /\ Append(s, x) \in Seq(Steps)
                            /\ Spent(Append(s, x)) = Spent(s) + PriceOf[x]
                            /\ Barters(Append(s, x)) = Barters(s) + BarterOf[x]
  <1>1. PriceOf \in [Steps -> Nat] /\ BarterOf \in [Steps -> Nat]
    BY CountFacts
  <1>2. /\ Total(PriceOf, s) \in Nat
        /\ \A t \in Seq(Steps) : Total(PriceOf, s \o t) = Total(PriceOf, s) + Total(PriceOf, t)
        /\ \A x \in Steps : Total(PriceOf, Append(s, x)) = Total(PriceOf, s) + PriceOf[x]
    BY <1>1, TotalFacts
  <1>3. /\ Total(BarterOf, s) \in Nat
        /\ \A t \in Seq(Steps) :
              Total(BarterOf, s \o t) = Total(BarterOf, s) + Total(BarterOf, t)
        /\ \A x \in Steps : Total(BarterOf, Append(s, x)) = Total(BarterOf, s) + BarterOf[x]
    BY <1>1, TotalFacts
  <1>4. ASSUME NEW t \in Seq(Steps)
        PROVE  /\ s \o t \in Seq(Steps)
               /\ Spent(s \o t) = Spent(s) + Spent(t) /\ Barters(s \o t) = Barters(s) + Barters(t)
    <2>1. s \o t \in Seq(Steps)
      OBVIOUS
    <2>2. Spent(s \o t) = Total(PriceOf, s \o t) /\ Barters(s \o t) = Total(BarterOf, s \o t)
      BY <2>1, CountFacts
    <2> QED BY <1>2, <1>3, <2>1, <2>2, CountFacts
  <1>5. ASSUME NEW x \in Steps
        PROVE  /\ Append(s, x) \in Seq(Steps)
               /\ Spent(Append(s, x)) = Spent(s) + PriceOf[x]
               /\ Barters(Append(s, x)) = Barters(s) + BarterOf[x]
    <2>1. Append(s, x) \in Seq(Steps)
      OBVIOUS
    <2>2. /\ Spent(Append(s, x)) = Total(PriceOf, Append(s, x))
          /\ Barters(Append(s, x)) = Total(BarterOf, Append(s, x))
      BY <2>1, CountFacts
    <2> QED BY <1>2, <1>3, <2>1, <2>2, CountFacts
  <1>6. Spent(s) \in Nat /\ Barters(s) \in Nat
    BY <1>2, <1>3, CountFacts
  <1> QED BY <1>4, <1>5, <1>6

\* The second part of a list.
LEMMA PartFacts ==
  ASSUME NEW S, NEW s \in Seq(S), NEW t \in Seq(S), NEW n \in DOMAIN t
  PROVE  Len(s) + n \in DOMAIN (s \o t) /\ (s \o t)[Len(s) + n] = t[n]
  <1>1. PICK k, m, c : k = Len(s) /\ m = Len(t) /\ c = s \o t
    OBVIOUS
  <1>2. /\ k \in Nat /\ m \in Nat /\ c \in Seq(S) /\ Len(c) = k + m
        /\ \A i \in 1 .. k + m : c[i] = IF i <= k THEN s[i] ELSE t[i - k]
    BY <1>1, ConcatProperties
  <1>3. n \in 1 .. m
    BY <1>1
  <1>4. k + n \in 1 .. k + m /\ ~(k + n <= k) /\ (k + n) - k = n
    BY <1>2, <1>3
  <1>5. DOMAIN c = 1 .. k + m
    BY <1>2
  <1> QED BY <1>1, <1>2, <1>4, <1>5

\* A plan and the plan of one more ingredient.
LEMMA JoinFacts ==
  ASSUME NEW p \in PlanRecords, p.status = "ok", NEW g \in Holdings, Good(p, g),
         NEW A \in SUBSET Nat, Least(p.cost, A),
         NEW c, NEW h \in Holdings, NEW B \in SUBSET Nat, Answer(c, h, B),
         NEW sum, \A item \in Items : sum[item] = g[item] + h[item]
  PROVE  Answer(Join(p, c), sum, Sums(A, B))
  <1>1. PICK j, all, cost : j = Join(p, c) /\ all = Sums(A, B)
                            /\ cost = Add(p.cost, c.cost)
    OBVIOUS
  <1>2. /\ p.cost \in 0 .. MaxInt /\ p.steps \in Seq(Steps) /\ p.observedAt \in SUBSET Int
        /\ p.recipes \in Nat
    BY DEF PlanRecords
  <1>3. /\ c \in PlanRecords /\ c.status \in {"ok", "unavailable", "error"}
        /\ c.cost \in 0 .. MaxInt /\ c.steps \in Seq(Steps) /\ c.observedAt \in SUBSET Int
        /\ c.recipes \in Nat
    BY DEF PlanRecords, Answer
  <1>4. CASE c.status # "ok"
    <2>1. j = c
      BY <1>1, <1>4 DEF Join
    <2>2. j.status = "unavailable" => all = {}
      <3>1. j.status = "unavailable" => B = {}
        BY <2>1 DEF Answer
      <3> QED BY <1>1, <3>1, SumsFacts
    <2> QED BY <1>1, <1>3, <1>4, <2>1, <2>2 DEF Answer
  <1>5. CASE c.status = "ok"
    <2>1. Good(c, h) /\ Buys(c) /\ Least(c.cost, B)
      BY <1>5 DEF Answer
    <2>2. p.cost \in Amounts /\ c.cost \in Amounts
      BY <1>2, <1>3, BoundsAssumption DEF Amounts, MinInt
    <2>3. cost = IF p.cost + c.cost \in Amounts THEN p.cost + c.cost ELSE NoAmount
      BY <1>1, <2>2, AddFacts
    <2>4. CASE cost = NoAmount
      <3>1. j = Failed
        BY <1>1, <1>5, <2>4 DEF Join
      <3> QED BY <1>1, <3>1, NoPlanFacts DEF Answer
    <2>5. CASE cost # NoAmount
      <3>1. cost = p.cost + c.cost /\ cost \in 0 .. MaxInt
        <4>1. cost = p.cost + c.cost /\ cost \in Amounts
          BY <2>3, <2>5
        <4>2. cost >= 0
          BY <1>2, <1>3, <4>1
        <4> QED BY <4>1, <4>2 DEF Amounts, MinInt
      <3>2. PICK s, times, recipes :
                   /\ s = p.steps \o c.steps /\ times = p.observedAt \cup c.observedAt
                   /\ recipes = p.recipes + c.recipes
        OBVIOUS
      <3>3. j = Acquisition("ok", cost, s, times, recipes)
        BY <1>1, <1>5, <2>5, <3>2 DEF Join
      <3>4. s \in Seq(Steps) /\ times \in SUBSET Int /\ recipes \in Nat
        BY <1>2, <1>3, <3>2
      <3>5. j \in PlanRecords
        BY <3>1, <3>3, <3>4 DEF Acquisition, PlanRecords
      <3>6. /\ j.status = "ok" /\ j.cost = cost /\ j.steps = s /\ j.observedAt = times
            /\ j.recipes = recipes
        BY <3>3 DEF Acquisition
      <3>7. Spent(s) = cost /\ Barters(s) = recipes
        <4>1. /\ Spent(s) = Spent(p.steps) + Spent(c.steps)
              /\ Barters(s) = Barters(p.steps) + Barters(c.steps)
          BY <1>2, <1>3, <3>2, SpentFacts
        <4> QED BY <2>1, <3>1, <3>2, <4>1 DEF Good
      <3>8. IsFiniteSet(times)
        <4>1. IsFiniteSet(p.observedAt) /\ IsFiniteSet(c.observedAt)
          BY <2>1 DEF Good
        <4> QED BY <3>2, <4>1, FS_Union
      <3>9. Brings(s, sum)
        <4>1. Brings(p.steps, g) /\ Brings(c.steps, h)
          BY <2>1 DEF Good
        <4> QED BY <1>2, <1>3, <3>2, <4>1, BringsConcat
      <3>10. Buys(j)
        <4>1. PICK n \in DOMAIN c.steps : c.steps[n].kind = "BUY"
          BY <2>1 DEF Buys
        <4>2. PICK i, u, v : u = p.steps /\ v = c.steps /\ i = Len(u) + n
          OBVIOUS
        <4>3. i \in DOMAIN s /\ s[i] = c.steps[n]
          <5>1. u \in Seq(Steps) /\ v \in Seq(Steps) /\ n \in DOMAIN v
            BY <1>2, <1>3, <4>1, <4>2
          <5>2. Len(u) + n \in DOMAIN (u \o v) /\ (u \o v)[Len(u) + n] = v[n]
            BY <5>1, PartFacts
          <5> QED BY <3>2, <4>2, <5>2
        <4> QED BY <3>6, <4>1, <4>3 DEF Buys
      <3>11. Least(cost, all)
        <4>1. cost \in all
          <5>1. p.cost \in A /\ c.cost \in B
            BY <2>1 DEF Least
          <5>2. \A x \in A, y \in B : x + y \in Sums(A, B)
            BY SumsFacts
          <5>3. p.cost + c.cost \in Sums(A, B)
            BY <5>1, <5>2
          <5> QED BY <1>1, <3>1, <5>3
        <4>2. ASSUME NEW z \in all PROVE cost <= z
          <5>1. PICK x \in A, y \in B : z = x + y
            <6>1. \A i \in Sums(A, B) : \E x \in A, y \in B : i = x + y
              BY SumsFacts
            <6> QED BY <1>1, <6>1
          <5>2. p.cost <= x /\ c.cost <= y /\ x \in Nat /\ y \in Nat
            BY <2>1, <5>1 DEF Least
          <5> QED BY <1>2, <1>3, <3>1, <5>1, <5>2
        <4> QED BY <4>1, <4>2 DEF Least
      <3>12. Good(j, sum)
        BY <3>6, <3>7, <3>8, <3>9 DEF Good
      <3> QED BY <1>1, <3>5, <3>6, <3>10, <3>11, <3>12 DEF Answer
    <2> QED BY <2>4, <2>5
  <1> QED BY <1>4, <1>5

-----------------------------------------------------------------------------
(* The ingredients of a recipe, one after another.                         *)

GatherStep(below, needs, visiting, before, item) ==
    LET child == below[Request(item, needs[item], visiting, before.used)]
    IN  IF before.plan.status # "ok" \/ needs[item] = 0 THEN before
        ELSE [plan |-> Join(before.plan, child.plan), used |-> child.used]

SumsStep(costs, needs, visiting, before, item) ==
    IF needs[item] = 0 THEN before
    ELSE Sums(before, costs[Wish(item, needs[item], visiting)])

Gathering(f, below, needs, visiting, used) ==
    /\ f[0] = [plan |-> Acquisition("ok", 0, <<>>, {}, 0), used |-> used]
    /\ \A n \in 1 .. NumItems : f[n] = GatherStep(below, needs, visiting, f[n - 1], n)

Summing(f, costs, needs, visiting) ==
    /\ f[0] = {0}
    /\ \A n \in 1 .. NumItems : f[n] = SumsStep(costs, needs, visiting, f[n - 1], n)

\* The search, ingredient by ingredient.
LEMMA GatherLoop ==
  ASSUME NEW below, NEW needs, NEW visiting, NEW used
  PROVE  \E f : /\ Gathering(f, below, needs, visiting, used)
                /\ Gather(below, needs, visiting, used) = f[NumItems]
  <1> DEFINE Unfolds(f, k) ==
               f = [n \in 0 .. k |-> IF n = 0 THEN [plan |-> Acquisition("ok", 0, <<>>, {}, 0), used |-> used] ELSE GatherStep(below, needs, visiting, f[n - 1], n)]
             T == {k \in Nat : \E f : Unfolds(f, k)}
  <1>1. 0 \in T
    <2>1. PICK f : f = [n \in 0 .. 0 |-> [plan |-> Acquisition("ok", 0, <<>>, {}, 0), used |-> used]]
      OBVIOUS
    <2>2. \A n \in 0 .. 0 : n = 0
      OBVIOUS
    <2>3. Unfolds(f, 0)
      BY <2>1, <2>2
    <2> QED BY <2>3
  <1>2. ASSUME NEW k \in Nat, k \in T PROVE k + 1 \in T
    <2>1. PICK f : Unfolds(f, k)
      BY <1>2
    <2>2. PICK last : last = GatherStep(below, needs, visiting, f[k], k + 1)
      OBVIOUS
    <2>3. PICK g : Extends(g, f, k, last)
      BY Extend
    <2>4. ASSUME NEW n \in 0 .. k + 1
          PROVE  g[n] = IF n = 0 THEN [plan |-> Acquisition("ok", 0, <<>>, {}, 0), used |-> used] ELSE GatherStep(below, needs, visiting, g[n - 1], n)
      <3>1. CASE n = 0
        <4>1. n \in 0 .. k
          BY <3>1
        <4> QED BY <2>1, <2>3, <3>1, <4>1 DEF Extends
      <3>2. CASE n \in 1 .. k
        <4>1. n \in 0 .. k /\ n - 1 \in 0 .. k /\ n # 0
          BY <3>2
        <4>2. g[n] = f[n] /\ g[n - 1] = f[n - 1]
          BY <2>3, <4>1 DEF Extends
        <4>3. f[n] = GatherStep(below, needs, visiting, f[n - 1], n)
          BY <2>1, <4>1
        <4> QED BY <4>1, <4>2, <4>3
      <3>3. CASE n = k + 1
        <4>1. n # 0 /\ n - 1 = k /\ k \in 0 .. k
          BY <3>3
        <4>2. g[n - 1] = f[k]
          BY <2>3, <4>1 DEF Extends
        <4> QED BY <2>2, <2>3, <3>3, <4>1, <4>2 DEF Extends
      <3>4. n = 0 \/ n \in 1 .. k \/ n = k + 1
        OBVIOUS
      <3> QED BY <3>1, <3>2, <3>3, <3>4
    <2>5. Unfolds(g, k + 1)
      BY <2>3, <2>4 DEF Extends
    <2> QED BY <2>5
  <1>3. PICK m : m = NumItems
    OBVIOUS
  <1>4. m \in Nat
    BY <1>3, BoundsAssumption
  <1>5. m \in T
    <2> HIDE DEF T
    <2> QED BY <1>1, <1>2, <1>4, NatFacts
  <1>6. PICK walk : walk = CHOOSE g : Unfolds(g, m)
    OBVIOUS
  <1>7. Unfolds(walk, m)
    <2>1. \E f : Unfolds(f, m)
      BY <1>5
    <2> HIDE DEF Unfolds
    <2> QED BY <1>6, <2>1
  <1>8. Gather(below, needs, visiting, used) = walk[m]
    BY <1>3, <1>6 DEF Gather, GatherStep
  <1>9. walk[0] = [plan |-> Acquisition("ok", 0, <<>>, {}, 0), used |-> used]
    BY <1>4, <1>7
  <1>10. ASSUME NEW n \in 1 .. m PROVE walk[n] = GatherStep(below, needs, visiting, walk[n - 1], n)
    <2>1. n \in 0 .. m /\ n # 0
      BY <1>4
    <2> QED BY <1>7, <2>1
  <1> QED BY <1>3, <1>8, <1>9, <1>10 DEF Gathering

\* The reference costs, ingredient by ingredient.
LEMMA SumsLoop ==
  ASSUME NEW costs, NEW needs, NEW visiting
  PROVE  \E f : /\ Summing(f, costs, needs, visiting)
                /\ GatherCosts(costs, needs, visiting) = f[NumItems]
  <1> DEFINE Unfolds(f, k) ==
               f = [n \in 0 .. k |-> IF n = 0 THEN {0} ELSE SumsStep(costs, needs, visiting, f[n - 1], n)]
             T == {k \in Nat : \E f : Unfolds(f, k)}
  <1>1. 0 \in T
    <2>1. PICK f : f = [n \in 0 .. 0 |-> {0}]
      OBVIOUS
    <2>2. \A n \in 0 .. 0 : n = 0
      OBVIOUS
    <2>3. Unfolds(f, 0)
      BY <2>1, <2>2
    <2> QED BY <2>3
  <1>2. ASSUME NEW k \in Nat, k \in T PROVE k + 1 \in T
    <2>1. PICK f : Unfolds(f, k)
      BY <1>2
    <2>2. PICK last : last = SumsStep(costs, needs, visiting, f[k], k + 1)
      OBVIOUS
    <2>3. PICK g : Extends(g, f, k, last)
      BY Extend
    <2>4. ASSUME NEW n \in 0 .. k + 1
          PROVE  g[n] = IF n = 0 THEN {0} ELSE SumsStep(costs, needs, visiting, g[n - 1], n)
      <3>1. CASE n = 0
        <4>1. n \in 0 .. k
          BY <3>1
        <4> QED BY <2>1, <2>3, <3>1, <4>1 DEF Extends
      <3>2. CASE n \in 1 .. k
        <4>1. n \in 0 .. k /\ n - 1 \in 0 .. k /\ n # 0
          BY <3>2
        <4>2. g[n] = f[n] /\ g[n - 1] = f[n - 1]
          BY <2>3, <4>1 DEF Extends
        <4>3. f[n] = SumsStep(costs, needs, visiting, f[n - 1], n)
          BY <2>1, <4>1
        <4> QED BY <4>1, <4>2, <4>3
      <3>3. CASE n = k + 1
        <4>1. n # 0 /\ n - 1 = k /\ k \in 0 .. k
          BY <3>3
        <4>2. g[n - 1] = f[k]
          BY <2>3, <4>1 DEF Extends
        <4> QED BY <2>2, <2>3, <3>3, <4>1, <4>2 DEF Extends
      <3>4. n = 0 \/ n \in 1 .. k \/ n = k + 1
        OBVIOUS
      <3> QED BY <3>1, <3>2, <3>3, <3>4
    <2>5. Unfolds(g, k + 1)
      BY <2>3, <2>4 DEF Extends
    <2> QED BY <2>5
  <1>3. PICK m : m = NumItems
    OBVIOUS
  <1>4. m \in Nat
    BY <1>3, BoundsAssumption
  <1>5. m \in T
    <2> HIDE DEF T
    <2> QED BY <1>1, <1>2, <1>4, NatFacts
  <1>6. PICK walk : walk = CHOOSE g : Unfolds(g, m)
    OBVIOUS
  <1>7. Unfolds(walk, m)
    <2>1. \E f : Unfolds(f, m)
      BY <1>5
    <2> HIDE DEF Unfolds
    <2> QED BY <1>6, <2>1
  <1>8. GatherCosts(costs, needs, visiting) = walk[m]
    BY <1>3, <1>6 DEF GatherCosts, SumsStep, Sums
  <1>9. walk[0] = {0}
    BY <1>4, <1>7
  <1>10. ASSUME NEW n \in 1 .. m PROVE walk[n] = SumsStep(costs, needs, visiting, walk[n - 1], n)
    <2>1. n \in 0 .. m /\ n # 0
      BY <1>4
    <2> QED BY <1>7, <2>1
  <1> QED BY <1>3, <1>8, <1>9, <1>10 DEF Summing

\* What so many of the items are needed, and what is wanted of one alone.
Part(needs, n) == [i \in Items |-> IF i <= n THEN needs[i] ELSE 0]

\* The plan for the first n ingredients, when those are the costs of all the
\* ways to get them.
Gathered(plan, needs, n, costs) ==
    /\ plan \in PlanRecords /\ costs \in SUBSET Nat
    /\ plan.status = "ok" => /\ Good(plan, Part(needs, n)) /\ Least(plan.cost, costs)
                             /\ (\E i \in 1 .. n : needs[i] # 0) => Buys(plan)
    /\ plan.status = "unavailable" => costs = {}


\* From sound answers for each ingredient to a sound one for all of them: the
\* plans one after another bring all that is needed, for the least sum.
LEMMA GatherFacts ==
  ASSUME NEW below, NEW costs, Sound(below, costs), Numbers(costs),
         NEW needs \in [Items -> 0 .. MaxInt], NEW visiting \in SUBSET Nat, NEW used \in Nat
  PROVE  /\ Gather(below, needs, visiting, used) \in Results
         /\ Gathered(Gather(below, needs, visiting, used).plan, needs, NumItems,
                     GatherCosts(costs, needs, visiting))
  <1>1. PICK f : /\ Gathering(f, below, needs, visiting, used)
                 /\ Gather(below, needs, visiting, used) = f[NumItems]
    BY GatherLoop
  <1>2. PICK g : /\ Summing(g, costs, needs, visiting)
                 /\ GatherCosts(costs, needs, visiting) = g[NumItems]
    BY SumsLoop
  <1>3. PICK T : T = {n \in 0 .. NumItems : f[n] \in Results /\ Gathered(f[n].plan, needs, n, g[n])}
    OBVIOUS
  <1>4. 0 \in T
    <2>1. PICK p : p = Acquisition("ok", 0, <<>>, {}, 0)
      OBVIOUS
    <2>2. p \in PlanRecords /\ Good(p, EmptyHands) /\ Least(p.cost, {0}) /\ p.status = "ok"
      BY <2>1, EmptyPlanFacts
    <2>3. f[0] \in Results /\ f[0].plan = p
      BY <1>1, <2>1, <2>2 DEF Results, Gathering
    <2>4. Part(needs, 0) = EmptyHands
      <3>1. \A i \in Items : ~(i <= 0)
        BY BoundsAssumption DEF Items
      <3> QED BY <3>1 DEF Part, EmptyHands
    <2>5. Gathered(p, needs, 0, {0})
      BY <2>2, <2>4 DEF Gathered
    <2>6. g[0] = {0} /\ 0 \in 0 .. NumItems
      BY <1>2, BoundsAssumption DEF Summing
    <2>7. f[0] \in Results /\ Gathered(f[0].plan, needs, 0, g[0])
      BY <2>3, <2>5, <2>6
    <2> QED BY <1>3, <2>6, <2>7
  <1>5. ASSUME NEW n \in 1 .. NumItems, n - 1 \in T PROVE n \in T
    <2>1. PICK before, child, A, B, quantity, w :
                 /\ before = f[n - 1] /\ quantity = needs[n]
                 /\ child = below[Request(n, quantity, visiting, before.used)]
                 /\ w = Wish(n, quantity, visiting) /\ A = g[n - 1] /\ B = costs[w]
      OBVIOUS
    <2>2. /\ n \in 0 .. NumItems /\ n \in Items /\ n - 1 \in 0 .. NumItems
          /\ quantity \in 0 .. MaxInt
      BY <2>1, BoundsAssumption DEF Items
    <2>3. before \in Results /\ Gathered(before.plan, needs, n - 1, A)
      BY <1>3, <1>5, <2>1
    <2>4. /\ f[n] = IF before.plan.status # "ok" \/ quantity = 0 THEN before
                    ELSE [plan |-> Join(before.plan, child.plan), used |-> child.used]
          /\ g[n] = IF quantity = 0 THEN A ELSE Sums(A, B)
      BY <1>1, <1>2, <2>1 DEF Gathering, Summing, GatherStep, SumsStep
    <2>5. before.plan \in PlanRecords /\ before.used \in Nat /\ A \in SUBSET Nat
      BY <2>3 DEF Results, Gathered
    <2>6. CASE quantity = 0
      <3>1. Part(needs, n) = Part(needs, n - 1)
        <4>1. ASSUME NEW i \in Items
              PROVE  (i <= n /\ ~(i <= n - 1) => needs[i] = 0) /\ (i <= n - 1 => i <= n)
          <5>1. i \in Int /\ n \in Int
            BY <2>2 DEF Items
          <5>2. (i <= n /\ ~(i <= n - 1) => i = n) /\ (i <= n - 1 => i <= n)
            BY <5>1
          <5>3. needs[n] = 0
            BY <2>1, <2>6
          <5> QED BY <5>2, <5>3
        <4>2. \A i \in Items : Part(needs, n)[i] = Part(needs, n - 1)[i]
          BY <4>1 DEF Part
        <4>3. /\ Part(needs, n) = [i \in Items |-> Part(needs, n)[i]]
              /\ Part(needs, n - 1) = [i \in Items |-> Part(needs, n - 1)[i]]
          BY DEF Part
        <4> QED BY <4>2, <4>3
      <3>2. ASSUME NEW i \in 1 .. n, needs[i] # 0 PROVE \E k \in 1 .. n - 1 : needs[k] # 0
        <4>1. i # n
          BY <2>1, <2>6, <3>2
        <4>2. i \in 1 .. n - 1
          <5>1. n \in Int /\ i \in Int /\ 1 <= i /\ i <= n
            BY <2>2 DEF Items
          <5> QED BY <4>1, <5>1
        <4> QED BY <3>2, <4>2
      <3>3. f[n] = before /\ g[n] = A
        BY <2>4, <2>6
      <3>4. Gathered(before.plan, needs, n, A)
        BY <2>3, <3>1, <3>2 DEF Gathered
      <3> QED BY <1>3, <2>2, <2>3, <3>3, <3>4
    <2>7. CASE quantity # 0
      <3>1. Request(n, quantity, visiting, before.used) \in Requests /\ w \in Wishes
        BY <2>1, <2>2, <2>5, RequestFacts, BoundsAssumption
      <3>2. quantity \in 1 .. MaxInt /\ quantity \in Nat
        BY <2>2, <2>7, BoundsAssumption
      <3>3. child \in Results /\ Answer(child.plan, Gains(n, quantity), B)
        <4>1. PICK q : q = Request(n, quantity, visiting, before.used)
          OBVIOUS
        <4>2. q.item = n /\ q.quantity = quantity /\ q.visiting = visiting
          BY <4>1 DEF Request
        <4>3. /\ below[q] \in Results
              /\ Answer(below[q].plan, Gains(q.item, q.quantity),
                        costs[Wish(q.item, q.quantity, q.visiting)])
          BY <3>1, <3>2, <4>1, <4>2 DEF Sound
        <4> QED BY <2>1, <4>1, <4>2, <4>3
      <3>4. B \in SUBSET Nat
        <4>1. w.quantity = quantity
          BY <2>1 DEF Wish
        <4> QED BY <2>1, <3>1, <3>2, <4>1 DEF Numbers
      <3>5. child.plan \in PlanRecords /\ child.used \in Nat
        BY <3>3 DEF Results
      <3>6. g[n] = Sums(A, B) /\ g[n] \in SUBSET Nat
        <4>1. Sums(A, B) \in SUBSET Nat
          BY <2>5, <3>4, SumsFacts
        <4> QED BY <2>4, <2>7, <4>1
      <3>7. CASE before.plan.status # "ok"
        <4>1. f[n] = before
          BY <2>4, <3>7
        <4>2. before.plan.status = "unavailable" => g[n] = {}
          <5>1. before.plan.status = "unavailable" => A = {}
            BY <2>3 DEF Gathered
          <5>2. A = {} => Sums(A, B) = {}
            BY <2>5, <3>4, SumsFacts
          <5> QED BY <3>6, <5>1, <5>2
        <4>3. Gathered(before.plan, needs, n, g[n])
          BY <2>5, <3>6, <3>7, <4>2 DEF Gathered
        <4> QED BY <1>3, <2>2, <2>3, <4>1, <4>3
      <3>8. CASE before.plan.status = "ok"
        <4>1. PICK p, c, j : p = before.plan /\ c = child.plan /\ j = Join(p, c)
          OBVIOUS
        <4>2. f[n] = [plan |-> j, used |-> child.used]
          BY <2>4, <2>7, <3>8, <4>1
        <4>3. p \in PlanRecords /\ p.status = "ok" /\ Good(p, Part(needs, n - 1)) /\ Least(p.cost, A)
          BY <2>3, <2>5, <3>8, <4>1 DEF Gathered
        <4>4. Part(needs, n - 1) \in Holdings /\ Gains(n, quantity) \in Holdings
          <5>1. \A i \in Items : needs[i] \in Nat
            BY BoundsAssumption
          <5> QED BY <3>2, <5>1 DEF Part, Gains, Holdings
        <4>5. \A i \in Items : Part(needs, n)[i] = Part(needs, n - 1)[i] + Gains(n, quantity)[i]
          <5>1. ASSUME NEW i \in Items
                PROVE  (IF i <= n THEN needs[i] ELSE 0)
                          = (IF i <= n - 1 THEN needs[i] ELSE 0) + (IF i = n THEN quantity ELSE 0)
            BY <2>1, <2>2, <3>2, BoundsAssumption DEF Items
          <5> QED BY <5>1 DEF Part, Gains
        <4>6. Answer(c, Gains(n, quantity), B)
          BY <3>3, <4>1
        <4>7. Answer(j, Part(needs, n), Sums(A, B))
          <5>1. Answer(Join(p, c), Part(needs, n), Sums(A, B))
            BY <2>5, <3>4, <4>3, <4>4, <4>5, <4>6, JoinFacts
          <5> QED BY <4>1, <5>1
        <4>8. Gathered(j, needs, n, g[n])
          BY <3>6, <4>7 DEF Gathered, Answer
        <4>9. f[n] \in Results /\ f[n].plan = j
          BY <3>5, <4>2, <4>7 DEF Results, Answer
        <4> QED BY <1>3, <2>2, <4>8, <4>9
      <3> QED BY <3>7, <3>8
    <2> QED BY <2>6, <2>7
  <1>6. \A n \in 0 .. NumItems : n \in T
    BY <1>4, <1>5, UpTo, BoundsAssumption
  <1>7. NumItems \in 0 .. NumItems
    BY BoundsAssumption
  <1> QED BY <1>1, <1>2, <1>3, <1>6, <1>7

\* The reference costs are numbers that are not negative.
LEMMA GatherNumbers ==
  ASSUME NEW costs, Numbers(costs), NEW needs \in [Items -> Nat], NEW visiting \in SUBSET Nat
  PROVE  GatherCosts(costs, needs, visiting) \in SUBSET Nat
  <1>1. PICK g : /\ Summing(g, costs, needs, visiting)
                 /\ GatherCosts(costs, needs, visiting) = g[NumItems]
    BY SumsLoop
  <1>2. PICK T : T = {n \in 0 .. NumItems : g[n] \in SUBSET Nat}
    OBVIOUS
  <1>3. 0 \in T
    BY <1>1, <1>2, BoundsAssumption DEF Summing
  <1>4. ASSUME NEW n \in 1 .. NumItems, n - 1 \in T PROVE n \in T
    <2>1. PICK A, B, w : A = g[n - 1] /\ w = Wish(n, needs[n], visiting) /\ B = costs[w]
      OBVIOUS
    <2>2. n \in 0 .. NumItems /\ n \in Items /\ A \in SUBSET Nat /\ needs[n] \in Nat
      BY <1>2, <1>4, <2>1, BoundsAssumption DEF Items
    <2>3. w \in Wishes /\ w.quantity \in Nat
      BY <2>1, <2>2 DEF Wish, Wishes
    <2>4. B \in SUBSET Nat
      BY <2>1, <2>3 DEF Numbers
    <2>5. Sums(A, B) \in SUBSET Nat
      BY <2>2, <2>4, SumsFacts
    <2>6. g[n] = IF needs[n] = 0 THEN A ELSE Sums(A, B)
      BY <1>1, <2>1 DEF Summing, SumsStep
    <2> QED BY <1>2, <2>2, <2>5, <2>6
  <1>5. \A n \in 0 .. NumItems : n \in T
    BY <1>3, <1>4, UpTo, BoundsAssumption
  <1>6. NumItems \in 0 .. NumItems
    BY BoundsAssumption
  <1> QED BY <1>1, <1>2, <1>5, <1>6

-----------------------------------------------------------------------------
(* One recipe.                                                             *)

\* What is needed of some item if a recipe has an ingredient.
LEMMA NeedsFacts ==
  ASSUME input \in Inputs, NEW m \in DOMAIN input.recipes, NEW r, r = input.recipes[m]
  PROVE  /\ r \in Recipes /\ r.id \in Nat /\ r.result \in Items /\ r.count \in 1 .. MaxInt
         /\ \A item \in Items : Needs(r, item) \in Nat
         /\ \E item \in Items : Needs(r, item) # 0
  <1>1. r \in Recipes /\ r.ingredients # <<>>
    BY InputFacts
  <1>2. PICK list : list = r.ingredients
    OBVIOUS
  <1>3. PICK S : S = [item : Items, quantity : 1 .. MaxInt]
    OBVIOUS
  <1>4. list \in Seq(S) /\ list # <<>>
    BY <1>1, <1>2, <1>3 DEF Recipes
  <1>5. 1 \in DOMAIN list /\ list[1] \in S
    BY <1>4
  <1>6. PICK item \in Items : item = list[1].item
    BY <1>3, <1>5
  <1>7. Needs(r, item) \in Nat /\ list[1].quantity <= Needs(r, item)
    BY <1>1, <1>2, <1>5, <1>6, AggregateFacts
  <1>8. list[1].quantity \in 1 .. MaxInt
    BY <1>3, <1>5
  <1>9. Needs(r, item) # 0
    BY <1>7, <1>8
  <1>10. \A i \in Items : Needs(r, i) \in Nat
    BY <1>1, AggregateFacts
  <1>11. r.id \in Nat /\ r.result \in Items /\ r.count \in 1 .. MaxInt
    BY <1>1 DEF Recipes
  <1> QED BY <1>1, <1>9, <1>10, <1>11

\* A plan for what so many runs need, and then the exchange.
LEMMA ExchangeFacts ==
  ASSUME input \in Inputs, NEW m \in DOMAIN input.recipes, NEW r, r = input.recipes[m],
         NEW runs \in 1 .. MaxInt, NEW needs \in [Items -> 0 .. MaxInt],
         \A item \in Items : needs[item] = Needs(r, item) * runs,
         NEW p \in PlanRecords, p.status = "ok", NEW costs, Gathered(p, needs, NumItems, costs),
         NEW quantity \in Nat, quantity <= runs * r.count
  PROVE  LET e == Exchange(p, r, runs)
         IN  /\ e \in PlanRecords /\ e.status = "ok" /\ e.cost = p.cost
             /\ Good(e, Gains(r.result, quantity)) /\ Buys(e)
             /\ e.steps # <<>> /\ e.steps[Len(e.steps)].recipe = r.id
             /\ e.recipes = p.recipes + 1
  <1>1. PICK x, s, steps : x = BarterStep(r, runs) /\ s = p.steps /\ steps = Append(s, x)
    OBVIOUS
  <1>2. s \in Seq(Steps) /\ p.cost \in 0 .. MaxInt /\ p.recipes \in Nat
    BY <1>1 DEF PlanRecords
  <1>3. Part(needs, NumItems) = needs
    <2>1. \A i \in Items : i <= NumItems
      BY BoundsAssumption DEF Items
    <2>2. needs = [i \in Items |-> needs[i]]
      OBVIOUS
    <2> QED BY <2>1, <2>2 DEF Part
  <1>4. Good(p, needs) /\ ((\E i \in 1 .. NumItems : needs[i] # 0) => Buys(p))
    <2>1. /\ Good(p, Part(needs, NumItems))
          /\ (\E i \in 1 .. NumItems : needs[i] # 0) => Buys(p)
      BY DEF Gathered
    <2> QED BY <1>3, <2>1
  <1>5. Brings(s, needs) /\ Spent(s) = p.cost /\ Barters(s) = p.recipes
    BY <1>1, <1>4 DEF Good
  <1>6. Buys(p)
    <2>1. PICK item \in Items : Needs(r, item) # 0
      BY NeedsFacts
    <2>2. Needs(r, item) \in Nat /\ runs \in Nat /\ runs # 0
      BY NeedsFacts, BoundsAssumption
    <2>3. Needs(r, item) * runs # 0
      BY <2>1, <2>2
    <2>4. item \in 1 .. NumItems /\ needs[item] # 0
      BY <2>3 DEF Items
    <2> QED BY <1>4, <2>4
  <1>7. /\ BarterStep(r, runs) \in Steps
        /\ Brings(Append(s, BarterStep(r, runs)), Gains(r.result, quantity))
    BY <1>2, <1>5, BringsBarter
  <1>8. x \in Steps /\ Brings(steps, Gains(r.result, quantity))
    BY <1>1, <1>7
  <1>9. /\ steps \in Seq(Steps) /\ Len(steps) = Len(s) + 1 /\ steps[Len(s) + 1] = x
        /\ \A n \in 1 .. Len(s) : steps[n] = s[n]
    BY <1>1, <1>2, <1>8, AppendProperties
  <1>10. Spent(steps) = p.cost /\ Barters(steps) = p.recipes + 1
    <2>1. x.kind = "BARTER"
      BY <1>1 DEF BarterStep
    <2>2. PriceOf[x] = 0 /\ BarterOf[x] = 1
      BY <1>8, <2>1 DEF PriceOf, BarterOf
    <2>3. Spent(steps) = Spent(s) + PriceOf[x] /\ Barters(steps) = Barters(s) + BarterOf[x]
      BY <1>1, <1>2, <1>8, SpentFacts
    <2> QED BY <1>2, <1>5, <2>2, <2>3
  <1>11. \E n \in DOMAIN steps : steps[n].kind = "BUY"
    <2>1. PICK n \in DOMAIN s : s[n].kind = "BUY"
      BY <1>1, <1>6 DEF Buys
    <2>2. PICK k : k = Len(s)
      OBVIOUS
    <2>3. k \in Nat /\ n \in 1 .. k /\ DOMAIN steps = 1 .. k + 1
      BY <1>2, <1>9, <2>2
    <2>4. n \in DOMAIN steps /\ steps[n] = s[n]
      BY <1>9, <2>2, <2>3
    <2> QED BY <2>1, <2>4
  <1>12. steps # <<>> /\ steps[Len(steps)].recipe = r.id
    <2>1. x.recipe = r.id
      BY <1>1 DEF BarterStep
    <2> QED BY <1>9, <2>1
  <1>13. PICK e : e = Exchange(p, r, runs)
    OBVIOUS
  <1>14. e = Acquisition("ok", p.cost, steps, p.observedAt, p.recipes + 1)
    BY <1>1, <1>13 DEF Exchange
  <1>15. /\ e.status = "ok" /\ e.cost = p.cost /\ e.steps = steps
         /\ e.observedAt = p.observedAt /\ e.recipes = p.recipes + 1
    BY <1>14 DEF Acquisition
  <1>16. e \in PlanRecords
    <2>1. p.observedAt \in SUBSET Int /\ p.recipes + 1 \in Nat
      BY <1>2 DEF PlanRecords
    <2> QED BY <1>2, <1>9, <1>14, <2>1 DEF PlanRecords, Acquisition
  <1>17. Good(e, Gains(r.result, quantity))
    <2>1. IsFiniteSet(e.observedAt)
      BY <1>4, <1>15 DEF Good
    <2> QED BY <1>8, <1>10, <1>15, <2>1 DEF Good
  <1>18. Buys(e)
    BY <1>11, <1>15 DEF Buys
  <1> QED BY <1>12, <1>13, <1>15, <1>16, <1>17, <1>18

\* Needs of so many runs are exact, unless they are no amount.
LEMMA NeededFacts ==
  ASSUME NEW r \in Recipes, NEW runs \in 1 .. MaxInt,
         \A item \in Items : AggregateIngredients(r.ingredients, runs)[item] # NoAmount
  PROVE  LET needs == AggregateIngredients(r.ingredients, runs)
         IN  /\ needs \in [Items -> 0 .. MaxInt]
             /\ needs = [item \in Items |-> Needs(r, item) * runs]
  <1>1. PICK needs : needs = AggregateIngredients(r.ingredients, runs)
    OBVIOUS
  <1>2. ASSUME NEW item \in Items
        PROVE  needs[item] = Needs(r, item) * runs /\ needs[item] \in 0 .. MaxInt
    <2>1. \/ AggregateIngredients(r.ingredients, runs)[item] = NoAmount
          \/ /\ AggregateIngredients(r.ingredients, runs)[item] = Needs(r, item) * runs
             /\ AggregateIngredients(r.ingredients, runs)[item] \in 0 .. MaxInt
      BY AggregateFacts
    <2> QED BY <1>1, <2>1
  <1>3. needs = [item \in Items |-> needs[item]]
    BY <1>1 DEF AggregateIngredients
  <1> QED BY <1>1, <1>2, <1>3

Ends(p, r) == p.status = "ok" => p.steps # <<>> /\ p.steps[Len(p.steps)].recipe = r.id

\* From sound answers one level below to a sound answer of one recipe.
LEMMA AcquireFacts ==
  ASSUME input \in Inputs, NEW m \in DOMAIN input.recipes, NEW r, r = input.recipes[m],
         NEW below, NEW costs, Sound(below, costs), Numbers(costs), NEW depth \in Nat \ {0},
         NEW q \in Requests, q.quantity \in 1 .. MaxInt
  PROVE  LET result == AcquireWithRecipe(below, depth, r, q)
         IN  /\ result \in Results /\ Ends(result.plan, r)
             /\ Answer(result.plan, Gains(r.result, q.quantity),
                       CostsWith(costs, r, Wish(q.item, q.quantity, q.visiting)))
  <1>1. PICK result, w, all, runs, needs :
               /\ result = AcquireWithRecipe(below, depth, r, q)
               /\ w = Wish(q.item, q.quantity, q.visiting) /\ all = CostsWith(costs, r, w)
               /\ runs = CeilDivPositive(q.quantity, r.count)
               /\ needs = AggregateIngredients(r.ingredients, runs)
    OBVIOUS
  <1>2. /\ r \in Recipes /\ r.id \in Nat /\ r.count \in 1 .. MaxInt
        /\ \A item \in Items : Needs(r, item) \in Nat
    BY NeedsFacts
  <1>3. q.visiting \in SUBSET Nat /\ q.used \in Nat
    BY DEF Requests
  <1>4. w.quantity = q.quantity /\ w.visiting = q.visiting
    BY <1>1 DEF Wish
  <1>5. /\ runs \in 1 .. q.quantity /\ q.quantity <= runs * r.count
        /\ runs = (q.quantity + r.count - 1) \div r.count
    <2>1. q.quantity \in Nat \ {0} /\ r.count \in Nat \ {0}
      BY <1>2, BoundsAssumption
    <2> QED BY <1>1, <2>1, CeilFacts
  <1>6. runs \in 1 .. MaxInt
    BY <1>5, BoundsAssumption
  <1>7. CASE r.id \in q.visiting \/ ~RecipeAvailable(r)
    <2>1. result = [plan |-> Unavailable, used |-> q.used]
      BY <1>1, <1>7 DEF AcquireWithRecipe
    <2>2. all = {}
      BY <1>1, <1>4, <1>7 DEF CostsWith
    <2>3. result \in Results /\ result.plan = Unavailable
      BY <1>3, <2>1, NoPlanFacts DEF Results
    <2>4. Ends(Unavailable, r) /\ Answer(Unavailable, Gains(r.result, q.quantity), all)
      BY <2>2, NoPlanFacts DEF Ends, Answer
    <2> QED BY <1>1, <2>3, <2>4
  <1>8. CASE /\ ~(r.id \in q.visiting \/ ~RecipeAvailable(r))
             /\ q.used + 1 > MaxExpansions \/ \E item \in Items : needs[item] = NoAmount
    <2>1. result = [plan |-> Failed, used |-> q.used + 1]
      BY <1>1, <1>8 DEF AcquireWithRecipe
    <2>2. result \in Results /\ result.plan = Failed
      BY <1>3, <2>1, NoPlanFacts DEF Results
    <2>3. Ends(Failed, r) /\ Answer(Failed, Gains(r.result, q.quantity), all)
      BY NoPlanFacts DEF Ends, Answer
    <2> QED BY <1>1, <2>2, <2>3
  <1>9. CASE /\ ~(r.id \in q.visiting \/ ~RecipeAvailable(r))
             /\ ~(q.used + 1 > MaxExpansions \/ \E item \in Items : needs[item] = NoAmount)
    <2>1. PICK inside, done, p, e, A :
                 /\ inside = q.visiting \cup {r.id}
                 /\ done = Gather(below, needs, inside, q.used + 1) /\ p = done.plan
                 /\ e = Exchange(p, r, runs) /\ A = GatherCosts(costs, needs, inside)
      OBVIOUS
    <2>2. result = IF p.status # "ok" THEN done ELSE [plan |-> e, used |-> done.used]
      BY <1>1, <1>9, <2>1 DEF AcquireWithRecipe
    <2>3. needs \in [Items -> 0 .. MaxInt] /\ needs = [item \in Items |-> Needs(r, item) * runs]
      <3>1. \A item \in Items : AggregateIngredients(r.ingredients, runs)[item] # NoAmount
        BY <1>1, <1>9
      <3>2. LET n == AggregateIngredients(r.ingredients, runs)
            IN  /\ n \in [Items -> 0 .. MaxInt]
                /\ n = [item \in Items |-> Needs(r, item) * runs]
        BY <1>2, <1>6, <3>1, NeededFacts
      <3> QED BY <1>1, <3>2
    <2>4. all = A
      BY <1>1, <1>4, <1>5, <1>9, <2>1, <2>3 DEF CostsWith
    <2>5. inside \in SUBSET Nat /\ q.used + 1 \in Nat
      BY <1>2, <1>3, <2>1
    <2>6. done \in Results /\ Gathered(p, needs, NumItems, A)
      <3>1. PICK used : used = q.used + 1
        OBVIOUS
      <3>2. /\ Gather(below, needs, inside, used) \in Results
            /\ Gathered(Gather(below, needs, inside, used).plan, needs, NumItems,
                        GatherCosts(costs, needs, inside))
        BY <2>3, <2>5, <3>1, GatherFacts
      <3> QED BY <2>1, <3>1, <3>2
    <2>7. p \in PlanRecords /\ done.used \in Nat
      BY <2>1, <2>6 DEF Results
    <2>8. CASE p.status # "ok"
      <3>1. result = done
        BY <2>2, <2>8
      <3>2. p.status = "unavailable" => A = {}
        BY <2>6 DEF Gathered
      <3>3. Ends(p, r) /\ Answer(p, Gains(r.result, q.quantity), all)
        BY <2>4, <2>7, <2>8, <3>2 DEF Ends, Answer
      <3> QED BY <1>1, <2>1, <2>6, <3>1, <3>3
    <2>9. CASE p.status = "ok"
      <3>1. result = [plan |-> e, used |-> done.used]
        BY <2>2, <2>9
      <3>2. PICK quantity : quantity = q.quantity
        OBVIOUS
      <3>3. quantity \in Nat /\ quantity <= runs * r.count
        BY <1>5, <3>2, BoundsAssumption
      <3>4. \A item \in Items : needs[item] = Needs(r, item) * runs
        BY <2>3
      <3>5. LET x == Exchange(p, r, runs)
            IN  /\ x \in PlanRecords /\ x.status = "ok" /\ x.cost = p.cost
                /\ Good(x, Gains(r.result, quantity)) /\ Buys(x)
                /\ x.steps # <<>> /\ x.steps[Len(x.steps)].recipe = r.id
                /\ x.recipes = p.recipes + 1
        BY <1>6, <2>3, <2>6, <2>7, <2>9, <3>3, <3>4, ExchangeFacts
      <3>6. /\ e \in PlanRecords /\ e.status = "ok" /\ e.cost = p.cost
            /\ Good(e, Gains(r.result, quantity)) /\ Buys(e)
            /\ e.steps # <<>> /\ e.steps[Len(e.steps)].recipe = r.id
        BY <2>1, <3>5
      <3>7. Least(p.cost, A)
        BY <2>6, <2>9 DEF Gathered
      <3>8. Ends(e, r) /\ Answer(e, Gains(r.result, quantity), all)
        BY <2>4, <3>6, <3>7 DEF Ends, Answer
      <3>9. result \in Results /\ result.plan = e
        BY <2>7, <3>1, <3>6 DEF Results
      <3> QED BY <1>1, <3>2, <3>8, <3>9
    <2> QED BY <2>8, <2>9
  <1> QED BY <1>7, <1>8, <1>9

-----------------------------------------------------------------------------
(* The recipes of an item, one after another.                              *)

CheapestStep(below, depth, q, before, r) ==
    LET child == AcquireWithRecipe(below, depth, r, [q EXCEPT !.used = before.used])
    IN  IF before.plan.status = "error" \/ r.result # q.item
           \/ r.id \in q.visiting \/ ~RecipeAvailable(r)
        THEN before
        ELSE IF child.plan.status = "error" THEN child
        ELSE [plan |-> Cheaper(before.plan, child.plan), used |-> child.used]

Comparing(f, below, depth, q) ==
    /\ f[0] = Market[q]
    /\ \A n \in 1 .. Len(input.recipes) :
          f[n] = CheapestStep(below, depth, q, f[n - 1], input.recipes[n])

\* The search, recipe by recipe.
LEMMA CheapestLoop ==
  ASSUME input \in Inputs, NEW below, NEW depth, NEW q
  PROVE  \E f : Comparing(f, below, depth, q) /\ Cheapest(below, depth, q) = f[Len(input.recipes)]
  <1> DEFINE Unfolds(f, k) ==
               f = [n \in 0 .. k |-> IF n = 0 THEN Market[q] ELSE CheapestStep(below, depth, q, f[n - 1], input.recipes[n])]
             T == {k \in Nat : \E f : Unfolds(f, k)}
  <1>1. 0 \in T
    <2>1. PICK f : f = [n \in 0 .. 0 |-> Market[q]]
      OBVIOUS
    <2>2. \A n \in 0 .. 0 : n = 0
      OBVIOUS
    <2>3. Unfolds(f, 0)
      BY <2>1, <2>2
    <2> QED BY <2>3
  <1>2. ASSUME NEW k \in Nat, k \in T PROVE k + 1 \in T
    <2>1. PICK f : Unfolds(f, k)
      BY <1>2
    <2>2. PICK last : last = CheapestStep(below, depth, q, f[k], input.recipes[k + 1])
      OBVIOUS
    <2>3. PICK g : Extends(g, f, k, last)
      BY Extend
    <2>4. ASSUME NEW n \in 0 .. k + 1
          PROVE  g[n] = IF n = 0 THEN Market[q] ELSE CheapestStep(below, depth, q, g[n - 1], input.recipes[n])
      <3>1. CASE n = 0
        <4>1. n \in 0 .. k
          BY <3>1
        <4> QED BY <2>1, <2>3, <3>1, <4>1 DEF Extends
      <3>2. CASE n \in 1 .. k
        <4>1. n \in 0 .. k /\ n - 1 \in 0 .. k /\ n # 0
          BY <3>2
        <4>2. g[n] = f[n] /\ g[n - 1] = f[n - 1]
          BY <2>3, <4>1 DEF Extends
        <4>3. f[n] = CheapestStep(below, depth, q, f[n - 1], input.recipes[n])
          BY <2>1, <4>1
        <4> QED BY <4>1, <4>2, <4>3
      <3>3. CASE n = k + 1
        <4>1. n # 0 /\ n - 1 = k /\ k \in 0 .. k
          BY <3>3
        <4>2. g[n - 1] = f[k]
          BY <2>3, <4>1 DEF Extends
        <4> QED BY <2>2, <2>3, <3>3, <4>1, <4>2 DEF Extends
      <3>4. n = 0 \/ n \in 1 .. k \/ n = k + 1
        OBVIOUS
      <3> QED BY <3>1, <3>2, <3>3, <3>4
    <2>5. Unfolds(g, k + 1)
      BY <2>3, <2>4 DEF Extends
    <2> QED BY <2>5
  <1>3. PICK m : m = Len(input.recipes)
    OBVIOUS
  <1>4. m \in Nat
    BY <1>3, InputFacts
  <1>5. m \in T
    <2> HIDE DEF T
    <2> QED BY <1>1, <1>2, <1>4, NatFacts
  <1>6. PICK walk : walk = CHOOSE g : Unfolds(g, m)
    OBVIOUS
  <1>7. Unfolds(walk, m)
    <2>1. \E f : Unfolds(f, m)
      BY <1>5
    <2> HIDE DEF Unfolds
    <2> QED BY <1>6, <2>1
  <1>8. Cheapest(below, depth, q) = walk[m]
    BY <1>3, <1>6 DEF Cheapest, CheapestStep
  <1>9. walk[0] = Market[q]
    BY <1>4, <1>7
  <1>10. ASSUME NEW n \in 1 .. m PROVE walk[n] = CheapestStep(below, depth, q, walk[n - 1], input.recipes[n])
    <2>1. n \in 0 .. m /\ n # 0
      BY <1>4
    <2> QED BY <1>7, <2>1
  <1> QED BY <1>3, <1>8, <1>9, <1>10 DEF Comparing

\* Of two plans the cheaper one.
LEMMA CheaperFacts ==
  ASSUME NEW x, NEW y, NEW gains, NEW A \in SUBSET Nat, NEW B \in SUBSET Nat,
         Answer(x, gains, A), Answer(y, gains, B), x.status # "error", y.status # "error"
  PROVE  Answer(Cheaper(x, y), gains, A \cup B)
  <1>1. PICK all, z : all = A \cup B /\ z = Cheaper(x, y)
    OBVIOUS
  <1>2. /\ x \in PlanRecords /\ x.status \in {"ok", "unavailable"} /\ x.cost \in Int
        /\ y \in PlanRecords /\ y.status \in {"ok", "unavailable"} /\ y.cost \in Int
    <2>1. x \in PlanRecords /\ y \in PlanRecords
      BY DEF Answer
    <2> QED BY <2>1, BoundsAssumption DEF PlanRecords
  <1>3. /\ x.status = "ok" => Good(x, gains) /\ Buys(x) /\ Least(x.cost, A)
        /\ y.status = "ok" => Good(y, gains) /\ Buys(y) /\ Least(y.cost, B)
        /\ x.status = "unavailable" => A = {}
        /\ y.status = "unavailable" => B = {}
    BY DEF Answer
  <1>4. CASE y.status # "ok"
    <2>1. z = x
      BY <1>1, <1>4 DEF Cheaper
    <2>2. all = A
      BY <1>1, <1>2, <1>3, <1>4
    <2> QED BY <1>1, <2>1, <2>2
  <1>5. CASE y.status = "ok" /\ x.status # "ok"
    <2>1. z = y
      BY <1>1, <1>5 DEF Cheaper
    <2>2. all = B
      BY <1>1, <1>2, <1>3, <1>5
    <2> QED BY <1>1, <2>1, <2>2
  <1>6. CASE y.status = "ok" /\ x.status = "ok"
    <2>1. PICK a, b : a = x.cost /\ b = y.cost
      OBVIOUS
    <2>2. a \in Int /\ b \in Int /\ Least(a, A) /\ Least(b, B)
      BY <1>2, <1>3, <1>6, <2>1
    <2>3. z = IF b < a THEN y ELSE x
      BY <1>1, <1>6, <2>1 DEF Cheaper
    <2>4. CASE b < a
      <3>1. ASSUME NEW c \in all PROVE b <= c
        <4>1. c \in Int /\ (c \in A => a <= c) /\ (c \in B => b <= c)
          BY <1>1, <2>2 DEF Least
        <4> QED BY <1>1, <2>2, <2>4, <4>1
      <3>2. Least(b, all)
        BY <1>1, <2>2, <3>1 DEF Least
      <3> QED BY <1>1, <1>2, <1>3, <1>6, <2>1, <2>3, <2>4, <3>2 DEF Answer
    <2>5. CASE ~(b < a)
      <3>1. ASSUME NEW c \in all PROVE a <= c
        <4>1. c \in Int /\ (c \in A => a <= c) /\ (c \in B => b <= c)
          BY <1>1, <2>2 DEF Least
        <4> QED BY <1>1, <2>2, <2>5, <4>1
      <3>2. Least(a, all)
        BY <1>1, <2>2, <3>1 DEF Least
      <3> QED BY <1>1, <1>2, <1>3, <1>6, <2>1, <2>3, <2>5, <3>2 DEF Answer
    <2> QED BY <2>4, <2>5
  <1> QED BY <1>4, <1>5, <1>6

\* Costs of the ways through the first n recipes, and of all ways.
CostsUpTo(costs, w, n) ==
    MarketCosts[w] \cup UNION {CostsWith(costs, input.recipes[i], w) :
                                  i \in {k \in 1 .. n : input.recipes[k].result = w.item}}

AllCosts(costs, w) ==
    MarketCosts[w] \cup UNION {CostsWith(costs, r, w) :
                                  r \in {s \in ToSet(input.recipes) : s.result = w.item}}

\* The costs of carrying out a recipe are numbers that are not negative.
LEMMA CostsWithNumbers ==
  ASSUME input \in Inputs, NEW m \in DOMAIN input.recipes, NEW costs, Numbers(costs),
         NEW w \in Wishes, w.quantity \in Nat
  PROVE  CostsWith(costs, input.recipes[m], w) \in SUBSET Nat
  <1>1. PICK r, all, runs, needs, inside :
               /\ r = input.recipes[m] /\ all = CostsWith(costs, r, w)
               /\ runs = (w.quantity + r.count - 1) \div r.count
               /\ needs = [item \in Items |-> Needs(r, item) * runs]
               /\ inside = w.visiting \cup {r.id}
    OBVIOUS
  <1>2. /\ r.id \in Nat /\ r.count \in 1 .. MaxInt
        /\ \A item \in Items : Needs(r, item) \in Nat
    BY <1>1, NeedsFacts
  <1>3. runs \in Nat
    <2>1. PICK x, y : x = w.quantity + r.count - 1 /\ y = r.count
      OBVIOUS
    <2>2. x \in Nat /\ y \in Nat \ {0}
      BY <1>2, <2>1, BoundsAssumption
    <2>3. x \div y \in Nat
      BY <2>2, DivisionFacts
    <2> QED BY <1>1, <2>1, <2>3
  <1>4. \A item \in Items : Needs(r, item) * runs \in Nat
    BY <1>2, <1>3
  <1>5. needs \in [Items -> Nat]
    BY <1>1, <1>4
  <1>6. inside \in SUBSET Nat
    BY <1>1, <1>2 DEF Wishes
  <1>7. GatherCosts(costs, needs, inside) \in SUBSET Nat
    BY <1>5, <1>6, GatherNumbers
  <1>8. all = {} \/ all = GatherCosts(costs, needs, inside)
    BY <1>1 DEF CostsWith
  <1> QED BY <1>1, <1>7, <1>8

\* The costs of all ways there are, recipe by recipe.
LEMMA AllCostsFacts ==
  ASSUME input \in Inputs, NEW costs, Numbers(costs), NEW w \in Wishes, w.quantity \in Nat
  PROVE  /\ CostsUpTo(costs, w, 0) = MarketCosts[w]
         /\ CostsUpTo(costs, w, Len(input.recipes)) = AllCosts(costs, w)
         /\ \A n \in 1 .. Len(input.recipes) :
               CostsUpTo(costs, w, n)
                   = CostsUpTo(costs, w, n - 1)
                       \cup (IF input.recipes[n].result = w.item
                             THEN CostsWith(costs, input.recipes[n], w) ELSE {})
         /\ \A n \in 0 .. Len(input.recipes) : CostsUpTo(costs, w, n) \in SUBSET Nat
  <1>1. PICK list, m : list = input.recipes /\ m = Len(list)
    OBVIOUS
  <1>2. m \in Nat /\ DOMAIN list = 1 .. m /\ ToSet(list) = {list[n] : n \in DOMAIN list}
    BY <1>1, InputFacts
  <1>3. MarketCosts[w] \in SUBSET Nat
    BY MarketFacts DEF Numbers
  <1>4. \A n \in 1 .. m : CostsWith(costs, list[n], w) \in SUBSET Nat
    BY <1>1, <1>2, CostsWithNumbers
  <1>5. CostsUpTo(costs, w, 0) = MarketCosts[w]
    BY DEF CostsUpTo
  <1>6. CostsUpTo(costs, w, m) = AllCosts(costs, w)
    <2>1. {CostsWith(costs, list[i], w) : i \in {k \in 1 .. m : list[k].result = w.item}}
             = {CostsWith(costs, r, w) : r \in {s \in ToSet(list) : s.result = w.item}}
      BY <1>2
    <2> QED BY <1>1, <2>1 DEF CostsUpTo, AllCosts
  <1>7. ASSUME NEW n \in 1 .. m
        PROVE  CostsUpTo(costs, w, n)
                   = CostsUpTo(costs, w, n - 1)
                       \cup (IF list[n].result = w.item THEN CostsWith(costs, list[n], w) ELSE {})
    <2>1. 1 .. n = (1 .. n - 1) \cup {n}
      OBVIOUS
    <2>2. ASSUME NEW x
          PROVE  x \in CostsUpTo(costs, w, n)
                    <=> \/ x \in CostsUpTo(costs, w, n - 1)
                        \/ list[n].result = w.item /\ x \in CostsWith(costs, list[n], w)
      <3>1. x \in CostsUpTo(costs, w, n)
               <=> \/ x \in MarketCosts[w]
                   \/ \E i \in 1 .. n : list[i].result = w.item /\ x \in CostsWith(costs, list[i], w)
        BY <1>1 DEF CostsUpTo
      <3>2. x \in CostsUpTo(costs, w, n - 1)
               <=> \/ x \in MarketCosts[w]
                   \/ \E i \in 1 .. n - 1 :
                         list[i].result = w.item /\ x \in CostsWith(costs, list[i], w)
        BY <1>1 DEF CostsUpTo
      <3> QED BY <2>1, <3>1, <3>2
    <2> QED BY <2>2
  <1>8. \A n \in 0 .. m : CostsUpTo(costs, w, n) \in SUBSET Nat
    <2>1. PICK T : T = {n \in 0 .. m : CostsUpTo(costs, w, n) \in SUBSET Nat}
      OBVIOUS
    <2>2. 0 \in T
      BY <1>2, <1>3, <1>5, <2>1
    <2>3. ASSUME NEW n \in 1 .. m, n - 1 \in T PROVE n \in T
      <3>1. n \in 0 .. m /\ CostsUpTo(costs, w, n - 1) \in SUBSET Nat
        BY <1>2, <2>1, <2>3
      <3>2. CostsUpTo(costs, w, n) \in SUBSET Nat
        BY <1>4, <1>7, <3>1
      <3> QED BY <2>1, <3>1, <3>2
    <2>4. \A n \in 0 .. m : n \in T
      BY <1>2, <2>2, <2>3, UpTo
    <2> QED BY <2>1, <2>4
  <1> QED BY <1>1, <1>5, <1>6, <1>7, <1>8

\* From sound answers one level below to sound answers of this level.
LEMMA CheapestFacts ==
  ASSUME input \in Inputs, NEW below, NEW costs, Sound(below, costs), Numbers(costs),
         NEW depth \in Nat \ {0}, NEW q \in Requests, q.quantity \in 1 .. MaxInt
  PROVE  /\ Cheapest(below, depth, q) \in Results
         /\ Answer(Cheapest(below, depth, q).plan, Gains(q.item, q.quantity),
                   AllCosts(costs, Wish(q.item, q.quantity, q.visiting)))
  <1>1. PICK f : /\ Comparing(f, below, depth, q)
                 /\ Cheapest(below, depth, q) = f[Len(input.recipes)]
    BY CheapestLoop
  <1>2. PICK list, m, w, gains : /\ list = input.recipes /\ m = Len(list)
                                 /\ w = Wish(q.item, q.quantity, q.visiting)
                                 /\ gains = Gains(q.item, q.quantity)
    OBVIOUS
  <1>3. m \in Nat /\ DOMAIN list = 1 .. m
    BY <1>2, InputFacts
  <1>4. q.item \in Items /\ q.quantity \in Nat /\ q.visiting \in SUBSET Nat /\ q.used \in Nat
    BY BoundsAssumption DEF Requests
  <1>5. w \in Wishes /\ w.quantity \in Nat /\ w.item = q.item /\ w.visiting = q.visiting
    BY <1>2, <1>4 DEF Wish, Wishes
  <1>6. /\ CostsUpTo(costs, w, 0) = MarketCosts[w]
        /\ CostsUpTo(costs, w, m) = AllCosts(costs, w)
        /\ \A n \in 1 .. m :
              CostsUpTo(costs, w, n)
                  = CostsUpTo(costs, w, n - 1)
                      \cup (IF list[n].result = w.item THEN CostsWith(costs, list[n], w) ELSE {})
        /\ \A n \in 0 .. m : CostsUpTo(costs, w, n) \in SUBSET Nat
    BY <1>2, <1>5, AllCostsFacts
  <1>7. PICK T : T = {n \in 0 .. m : f[n] \in Results
                                     /\ Answer(f[n].plan, gains, CostsUpTo(costs, w, n))}
    OBVIOUS
  <1>8. 0 \in T
    <2>1. f[0] = Market[q] /\ 0 \in 0 .. m
      BY <1>1, <1>3 DEF Comparing
    <2>2. Market[q] \in Results /\ Answer(Market[q].plan, gains, MarketCosts[w])
      BY <1>2, MarketFacts DEF Sound
    <2>3. f[0] \in Results /\ Answer(f[0].plan, gains, CostsUpTo(costs, w, 0))
      BY <1>6, <2>1, <2>2
    <2> QED BY <1>7, <2>1, <2>3
  <1>9. ASSUME NEW n \in 1 .. m, n - 1 \in T PROVE n \in T
    <2>1. PICK r, before, request, child, A, B, all :
                 /\ r = list[n] /\ before = f[n - 1] /\ request = [q EXCEPT !.used = before.used]
                 /\ child = AcquireWithRecipe(below, depth, r, request)
                 /\ A = CostsUpTo(costs, w, n - 1) /\ B = CostsWith(costs, r, w)
                 /\ all = CostsUpTo(costs, w, n)
      OBVIOUS
    <2>2. n \in 0 .. m /\ n - 1 \in 0 .. m /\ n \in DOMAIN input.recipes /\ r = input.recipes[n]
      BY <1>2, <1>3, <2>1
    <2>3. /\ before \in Results /\ Answer(before.plan, gains, A)
          /\ A \in SUBSET Nat /\ all \in SUBSET Nat
          /\ all = A \cup (IF r.result = q.item THEN B ELSE {})
      BY <1>5, <1>6, <1>7, <1>9, <2>1, <2>2
    <2>4. f[n] = IF before.plan.status = "error" \/ r.result # q.item
                    \/ r.id \in q.visiting \/ ~RecipeAvailable(r)
                 THEN before
                 ELSE IF child.plan.status = "error" THEN child
                 ELSE [plan |-> Cheaper(before.plan, child.plan), used |-> child.used]
      BY <1>1, <1>2, <2>1 DEF Comparing, CheapestStep
    <2>5. CASE before.plan.status = "error"
      <3>1. f[n] = before
        BY <2>4, <2>5
      <3>2. Answer(before.plan, gains, all)
        BY <2>3, <2>5 DEF Answer
      <3>3. f[n] \in Results /\ Answer(f[n].plan, gains, CostsUpTo(costs, w, n))
        BY <2>1, <2>3, <3>1, <3>2
      <3> QED BY <1>7, <2>2, <3>3
    <2>6. CASE r.result # q.item \/ r.id \in q.visiting \/ ~RecipeAvailable(r)
      <3>1. f[n] = before
        BY <2>4, <2>6
      <3>2. r.result = q.item => B = {}
        BY <1>5, <2>1, <2>6 DEF CostsWith
      <3>3. all = A
        BY <2>3, <3>2
      <3>4. f[n] \in Results /\ Answer(f[n].plan, gains, CostsUpTo(costs, w, n))
        BY <2>1, <2>3, <3>1, <3>3
      <3> QED BY <1>7, <2>2, <3>4
    <2>7. CASE /\ before.plan.status # "error"
               /\ ~(r.result # q.item \/ r.id \in q.visiting \/ ~RecipeAvailable(r))
      <3>1. /\ request \in Requests /\ request.item = q.item /\ request.quantity = q.quantity
            /\ request.visiting = q.visiting
        BY <2>1, <2>3 DEF Requests, Results
      <3>2. child \in Results /\ Answer(child.plan, gains, B)
        <4>1. request.quantity \in 1 .. MaxInt
          BY <3>1
        <4>2. LET result == AcquireWithRecipe(below, depth, r, request)
              IN  /\ result \in Results /\ Ends(result.plan, r)
                  /\ Answer(result.plan, Gains(r.result, request.quantity),
                            CostsWith(costs, r, Wish(request.item, request.quantity, request.visiting)))
          BY <2>2, <3>1, <4>1, AcquireFacts
        <4> QED BY <1>2, <2>1, <2>7, <3>1, <4>2
      <3>3. all = A \cup B
        BY <2>3, <2>7
      <3>4. CASE child.plan.status = "error"
        <4>1. f[n] = child
          BY <2>4, <2>7, <3>4
        <4>2. Answer(child.plan, gains, all)
          BY <3>2, <3>4 DEF Answer
        <4>3. f[n] \in Results /\ Answer(f[n].plan, gains, CostsUpTo(costs, w, n))
          BY <2>1, <3>2, <4>1, <4>2
        <4> QED BY <1>7, <2>2, <4>3
      <3>5. CASE child.plan.status # "error"
        <4>1. PICK x, y, z : x = before.plan /\ y = child.plan /\ z = Cheaper(x, y)
          OBVIOUS
        <4>2. f[n] = [plan |-> z, used |-> child.used]
          BY <2>4, <2>7, <3>5, <4>1
        <4>3. B \in SUBSET Nat
          BY <1>5, <2>1, <2>2, CostsWithNumbers
        <4>4. /\ Answer(x, gains, A) /\ Answer(y, gains, B)
              /\ x.status # "error" /\ y.status # "error"
          BY <2>3, <2>7, <3>2, <3>5, <4>1
        <4>5. Answer(Cheaper(x, y), gains, A \cup B)
          BY <2>3, <4>3, <4>4, CheaperFacts
        <4>6. Answer(z, gains, all)
          BY <3>3, <4>1, <4>5
        <4>7. f[n] \in Results /\ f[n].plan = z
          BY <3>2, <4>2, <4>6 DEF Results, Answer
        <4>8. f[n] \in Results /\ Answer(f[n].plan, gains, CostsUpTo(costs, w, n))
          BY <2>1, <4>6, <4>7
        <4> QED BY <1>7, <2>2, <4>8
      <3> QED BY <3>4, <3>5
    <2> QED BY <2>5, <2>6, <2>7
  <1>10. \A n \in 0 .. m : n \in T
    BY <1>3, <1>8, <1>9, UpTo
  <1>11. m \in 0 .. m
    BY <1>3
  <1> QED BY <1>1, <1>2, <1>6, <1>7, <1>10, <1>11

-----------------------------------------------------------------------------
(* Depth by depth.                                                         *)

Searching(below, depth) == [q \in Requests |-> Cheapest(below, depth, q)]
Costing(below) == [w \in Wishes |-> AllCosts(below, w)]

Deepening(f) == f[0] = Market /\ \A n \in 1 .. MaxDepth : f[n] = Searching(f[n - 1], n)
Nesting(f) == f[0] = MarketCosts /\ \A n \in 1 .. MaxDepth : f[n] = Costing(f[n - 1])

\* The search, level by level.
LEMMA DepthLoop == Deepening(BestAcquisition)
  <1> DEFINE Unfolds(f, k) ==
               f = [n \in 0 .. k |-> IF n = 0 THEN Market ELSE Searching(f[n - 1], n)]
             T == {k \in Nat : \E f : Unfolds(f, k)}
  <1>1. 0 \in T
    <2>1. PICK f : f = [n \in 0 .. 0 |-> Market]
      OBVIOUS
    <2>2. \A n \in 0 .. 0 : n = 0
      OBVIOUS
    <2>3. Unfolds(f, 0)
      BY <2>1, <2>2
    <2> QED BY <2>3
  <1>2. ASSUME NEW k \in Nat, k \in T PROVE k + 1 \in T
    <2>1. PICK f : Unfolds(f, k)
      BY <1>2
    <2>2. PICK last : last = Searching(f[k], k + 1)
      OBVIOUS
    <2>3. PICK g : Extends(g, f, k, last)
      BY Extend
    <2>4. ASSUME NEW n \in 0 .. k + 1
          PROVE  g[n] = IF n = 0 THEN Market ELSE Searching(g[n - 1], n)
      <3>1. CASE n = 0
        <4>1. n \in 0 .. k
          BY <3>1
        <4> QED BY <2>1, <2>3, <3>1, <4>1 DEF Extends
      <3>2. CASE n \in 1 .. k
        <4>1. n \in 0 .. k /\ n - 1 \in 0 .. k /\ n # 0
          BY <3>2
        <4>2. g[n] = f[n] /\ g[n - 1] = f[n - 1]
          BY <2>3, <4>1 DEF Extends
        <4>3. f[n] = Searching(f[n - 1], n)
          BY <2>1, <4>1
        <4> QED BY <4>1, <4>2, <4>3
      <3>3. CASE n = k + 1
        <4>1. n # 0 /\ n - 1 = k /\ k \in 0 .. k
          BY <3>3
        <4>2. g[n - 1] = f[k]
          BY <2>3, <4>1 DEF Extends
        <4> QED BY <2>2, <2>3, <3>3, <4>1, <4>2 DEF Extends
      <3>4. n = 0 \/ n \in 1 .. k \/ n = k + 1
        OBVIOUS
      <3> QED BY <3>1, <3>2, <3>3, <3>4
    <2>5. Unfolds(g, k + 1)
      BY <2>3, <2>4 DEF Extends
    <2> QED BY <2>5
  <1>3. PICK m : m = MaxDepth
    OBVIOUS
  <1>4. m \in Nat
    BY <1>3, BoundsAssumption
  <1>5. m \in T
    <2> HIDE DEF T
    <2> QED BY <1>1, <1>2, <1>4, NatFacts
  <1>6. PICK walk : walk = CHOOSE g : Unfolds(g, m)
    OBVIOUS
  <1>7. Unfolds(walk, m)
    <2>1. \E f : Unfolds(f, m)
      BY <1>5
    <2> HIDE DEF Unfolds
    <2> QED BY <1>6, <2>1
  <1>8. BestAcquisition = walk
    BY <1>3, <1>6 DEF BestAcquisition, Searching
  <1>9. walk[0] = Market
    BY <1>4, <1>7
  <1>10. ASSUME NEW n \in 1 .. m PROVE walk[n] = Searching(walk[n - 1], n)
    <2>1. n \in 0 .. m /\ n # 0
      BY <1>4
    <2> QED BY <1>7, <2>1
  <1> QED BY <1>3, <1>8, <1>9, <1>10 DEF Deepening

\* The reference costs, level by level.
LEMMA NestingLoop == Nesting(Costs)
  <1> DEFINE Unfolds(f, k) ==
               f = [n \in 0 .. k |-> IF n = 0 THEN MarketCosts ELSE Costing(f[n - 1])]
             T == {k \in Nat : \E f : Unfolds(f, k)}
  <1>1. 0 \in T
    <2>1. PICK f : f = [n \in 0 .. 0 |-> MarketCosts]
      OBVIOUS
    <2>2. \A n \in 0 .. 0 : n = 0
      OBVIOUS
    <2>3. Unfolds(f, 0)
      BY <2>1, <2>2
    <2> QED BY <2>3
  <1>2. ASSUME NEW k \in Nat, k \in T PROVE k + 1 \in T
    <2>1. PICK f : Unfolds(f, k)
      BY <1>2
    <2>2. PICK last : last = Costing(f[k])
      OBVIOUS
    <2>3. PICK g : Extends(g, f, k, last)
      BY Extend
    <2>4. ASSUME NEW n \in 0 .. k + 1
          PROVE  g[n] = IF n = 0 THEN MarketCosts ELSE Costing(g[n - 1])
      <3>1. CASE n = 0
        <4>1. n \in 0 .. k
          BY <3>1
        <4> QED BY <2>1, <2>3, <3>1, <4>1 DEF Extends
      <3>2. CASE n \in 1 .. k
        <4>1. n \in 0 .. k /\ n - 1 \in 0 .. k /\ n # 0
          BY <3>2
        <4>2. g[n] = f[n] /\ g[n - 1] = f[n - 1]
          BY <2>3, <4>1 DEF Extends
        <4>3. f[n] = Costing(f[n - 1])
          BY <2>1, <4>1
        <4> QED BY <4>1, <4>2, <4>3
      <3>3. CASE n = k + 1
        <4>1. n # 0 /\ n - 1 = k /\ k \in 0 .. k
          BY <3>3
        <4>2. g[n - 1] = f[k]
          BY <2>3, <4>1 DEF Extends
        <4> QED BY <2>2, <2>3, <3>3, <4>1, <4>2 DEF Extends
      <3>4. n = 0 \/ n \in 1 .. k \/ n = k + 1
        OBVIOUS
      <3> QED BY <3>1, <3>2, <3>3, <3>4
    <2>5. Unfolds(g, k + 1)
      BY <2>3, <2>4 DEF Extends
    <2> QED BY <2>5
  <1>3. PICK m : m = MaxDepth
    OBVIOUS
  <1>4. m \in Nat
    BY <1>3, BoundsAssumption
  <1>5. m \in T
    <2> HIDE DEF T
    <2> QED BY <1>1, <1>2, <1>4, NatFacts
  <1>6. PICK walk : walk = CHOOSE g : Unfolds(g, m)
    OBVIOUS
  <1>7. Unfolds(walk, m)
    <2>1. \E f : Unfolds(f, m)
      BY <1>5
    <2> HIDE DEF Unfolds
    <2> QED BY <1>6, <2>1
  <1>8. Costs = walk
    BY <1>3, <1>6 DEF Costs, Costing, AllCosts
  <1>9. walk[0] = MarketCosts
    BY <1>4, <1>7
  <1>10. ASSUME NEW n \in 1 .. m PROVE walk[n] = Costing(walk[n - 1])
    <2>1. n \in 0 .. m /\ n # 0
      BY <1>4
    <2> QED BY <1>7, <2>1
  <1> QED BY <1>3, <1>8, <1>9, <1>10 DEF Nesting

\* Whatever the depth, the search answers soundly.
LEMMA DepthFacts ==
  ASSUME input \in Inputs, NEW depth \in 0 .. MaxDepth
  PROVE  Sound(BestAcquisition[depth], Costs[depth]) /\ Numbers(Costs[depth])
  <1>1. PICK best, costs : best = BestAcquisition /\ costs = Costs
    OBVIOUS
  <1>2. Deepening(best) /\ Nesting(costs)
    BY <1>1, DepthLoop, NestingLoop
  <1>3. PICK T : T = {n \in 0 .. MaxDepth : Sound(best[n], costs[n]) /\ Numbers(costs[n])}
    OBVIOUS
  <1>4. 0 \in T
    <2>1. best[0] = Market /\ costs[0] = MarketCosts /\ 0 \in 0 .. MaxDepth
      BY <1>2, BoundsAssumption DEF Deepening, Nesting
    <2>2. Sound(best[0], costs[0]) /\ Numbers(costs[0])
      BY <2>1, MarketFacts
    <2> QED BY <1>3, <2>1, <2>2
  <1>5. ASSUME NEW n \in 1 .. MaxDepth, n - 1 \in T PROVE n \in T
    <2>1. PICK below, known, f, g : /\ below = best[n - 1] /\ known = costs[n - 1]
                                    /\ f = best[n] /\ g = costs[n]
      OBVIOUS
    <2>2. Sound(below, known) /\ Numbers(known) /\ n \in 0 .. MaxDepth /\ n \in Nat \ {0}
      BY <1>3, <1>5, <2>1, BoundsAssumption
    <2>3. f = Searching(below, n) /\ g = Costing(known)
      BY <1>2, <2>1 DEF Deepening, Nesting
    <2>4. ASSUME NEW q \in Requests, q.quantity \in 1 .. MaxInt
          PROVE  /\ f[q] \in Results
                 /\ Answer(f[q].plan, Gains(q.item, q.quantity),
                           g[Wish(q.item, q.quantity, q.visiting)])
      <3>1. PICK w : w = Wish(q.item, q.quantity, q.visiting)
        OBVIOUS
      <3>2. w \in Wishes
        BY <3>1 DEF Wish, Wishes, Requests
      <3>3. f[q] = Cheapest(below, n, q) /\ g[w] = AllCosts(known, w)
        BY <2>3, <3>2 DEF Searching, Costing
      <3>4. /\ Cheapest(below, n, q) \in Results
            /\ Answer(Cheapest(below, n, q).plan, Gains(q.item, q.quantity),
                      AllCosts(known, Wish(q.item, q.quantity, q.visiting)))
        BY <2>2, <2>4, CheapestFacts
      <3> QED BY <3>1, <3>3, <3>4
    <2>5. ASSUME NEW w \in Wishes, w.quantity \in Nat PROVE g[w] \in SUBSET Nat
      <3>1. PICK m : m = Len(input.recipes)
        OBVIOUS
      <3>2. m \in 0 .. m
        BY <3>1, InputFacts
      <3>3. /\ CostsUpTo(known, w, m) = AllCosts(known, w)
            /\ \A k \in 0 .. m : CostsUpTo(known, w, k) \in SUBSET Nat
        BY <2>2, <2>5, <3>1, AllCostsFacts
      <3>4. g[w] = AllCosts(known, w)
        BY <2>3 DEF Costing
      <3> QED BY <3>2, <3>3, <3>4
    <2>6. Sound(f, g) /\ Numbers(g)
      BY <2>4, <2>5 DEF Sound, Numbers
    <2> QED BY <1>3, <2>1, <2>2, <2>6
  <1>6. \A n \in 0 .. MaxDepth : n \in T
    BY <1>4, <1>5, UpTo, BoundsAssumption
  <1> QED BY <1>1, <1>3, <1>6

-----------------------------------------------------------------------------
(* Opportunities.                                                          *)

\* The oldest of the quotes.
LEMMA OldestFacts ==
  ASSUME NEW times \in SUBSET Int, IsFiniteSet(times), times # {}
  PROVE  /\ OldestObservation(times) \in times
         /\ \A t \in times : OldestObservation(times) <= t
  <1>1. PICK k \in Nat : ExistsSurjection(1 .. k, times)
    BY FS_NatSurjection
  <1>2. PICK f : f \in Surjection(1 .. k, times)
    BY <1>1 DEF ExistsSurjection
  <1>3. f \in [1 .. k -> times] /\ \A t \in times : \E i \in 1 .. k : f[i] = t
    BY <1>2 DEF Surjection
  <1>4. PICK T : T = {n \in 0 .. k : n = 0 \/ \E j \in 1 .. n : \A i \in 1 .. n : f[j] <= f[i]}
    OBVIOUS
  <1>5. 0 \in T
    BY <1>4
  <1>6. ASSUME NEW n \in 1 .. k, n - 1 \in T PROVE n \in T
    <2>1. n \in 0 .. k /\ f[n] \in Int /\ \A i \in 1 .. n : f[i] \in Int
      <3>1. \A i \in 1 .. k : f[i] \in Int
        BY <1>3
      <3>2. \A i \in 1 .. n : i \in 1 .. k
        OBVIOUS
      <3> QED BY <3>1, <3>2
    <2>2. CASE n = 1
      <3>1. 1 \in 1 .. n /\ \A i \in 1 .. n : f[1] <= f[i]
        <4>1. 1 \in 1 .. n /\ f[1] \in Int /\ \A i \in 1 .. n : i = 1
          BY <2>1, <2>2
        <4> QED BY <4>1
      <3>2. \E j \in 1 .. n : \A i \in 1 .. n : f[j] <= f[i]
        BY <3>1
      <3> QED BY <1>4, <2>1, <3>2
    <2>3. CASE n # 1
      <3>1. PICK j \in 1 .. n - 1 : \A i \in 1 .. n - 1 : f[j] <= f[i]
        BY <1>4, <1>6, <2>3
      <3>2. j \in 1 .. n /\ f[j] \in Int
        BY <2>1
      <3>3. \A i \in 1 .. n : i = n \/ i \in 1 .. n - 1
        OBVIOUS
      <3>4. CASE f[j] <= f[n]
        <4>1. \A i \in 1 .. n : f[j] <= f[i]
          BY <3>1, <3>3, <3>4
        <4> QED BY <1>4, <2>1, <3>2, <4>1
      <3>5. CASE ~(f[j] <= f[n])
        <4>1. ASSUME NEW i \in 1 .. n PROVE f[n] <= f[i]
          <5>1. f[i] \in Int /\ (i = n \/ f[j] <= f[i])
            BY <2>1, <3>1, <3>3
          <5> QED BY <2>1, <3>2, <3>5, <5>1
        <4>2. n \in 1 .. n
          OBVIOUS
        <4> QED BY <1>4, <2>1, <4>1, <4>2
      <3> QED BY <3>4, <3>5
    <2> QED BY <2>2, <2>3
  <1>7. k \in 0 .. k /\ \A n \in 0 .. k : n \in T
    BY <1>5, <1>6, UpTo
  <1>8. k # 0
    <2>1. PICK t : t \in times
      OBVIOUS
    <2> QED BY <1>3, <2>1
  <1>9. PICK j \in 1 .. k : \A i \in 1 .. k : f[j] <= f[i]
    BY <1>4, <1>7, <1>8
  <1>10. f[j] \in times /\ \A t \in times : f[j] <= t
    BY <1>3, <1>9
  <1> QED BY <1>10 DEF OldestObservation

\* Revenue, fees and profit, when none of them is refused.
LEMMA EconomicsFacts ==
  ASSUME NEW sale \in Prices, NEW commission \in Prices, NEW listingFee \in Prices,
         NEW quantity \in 1 .. MaxInt, NEW cost \in 0 .. MaxInt, NEW revenue, NEW fees, NEW profit,
         revenue = Multiply(sale, quantity), fees = Add(Multiply(commission, quantity), listingFee),
         profit = Subtract(Subtract(revenue, fees), cost),
         revenue # NoAmount, fees # NoAmount, profit # NoAmount
  PROVE  /\ revenue = sale * quantity /\ fees = commission * quantity + listingFee
         /\ profit = revenue - fees - cost
  <1>1. /\ sale \in Amounts /\ commission \in Amounts /\ listingFee \in Amounts
        /\ quantity \in Amounts /\ cost \in Amounts
    BY BoundsAssumption DEF Amounts, MinInt, Prices
  <1>2. Amounts \subseteq Int
    BY BoundsAssumption DEF Amounts, MinInt
  <1>3. revenue = sale * quantity /\ revenue \in Amounts
    BY <1>1, MultiplyFacts
  <1>4. PICK due, rest : due = Multiply(commission, quantity) /\ rest = Subtract(revenue, fees)
    OBVIOUS
  <1>5. due # NoAmount /\ rest # NoAmount
    BY <1>4 DEF Add, Subtract
  <1>6. due = commission * quantity /\ due \in Amounts
    BY <1>1, <1>4, <1>5, MultiplyFacts
  <1>7. fees = due + listingFee /\ fees \in Amounts
    BY <1>1, <1>4, <1>6, AddFacts
  <1>8. rest = revenue - fees /\ rest \in Amounts
    BY <1>3, <1>4, <1>5, <1>7, AddFacts
  <1>9. profit = rest - cost
    BY <1>1, <1>4, <1>8, AddFacts
  <1> QED BY <1>3, <1>6, <1>7, <1>8, <1>9

\* What the service adds up when it checks a plan.
BuyCosts(steps) ==
    CheckedSum([n \in DOMAIN steps |->
                   IF steps[n].kind # "BUY" THEN 0
                   ELSE Multiply(steps[n].price, steps[n].quantity)])

\* The listing at the end of a plan changes none of its sums.
LEMMA ListedSums ==
  ASSUME NEW s \in Seq(Steps), NEW x, x.kind = "LIST", Spent(s) <= MaxInt
  PROVE  /\ Spent(Append(s, x)) = Spent(s) /\ Barters(Append(s, x)) = Barters(s)
         /\ BuyCosts(Append(s, x)) = Spent(s)
  <1>1. PICK m, k, steps : m = Len(s) /\ k = m + 1 /\ steps = Append(s, x)
    OBVIOUS
  <1>2. PICK S : S = Steps \cup {x}
    OBVIOUS
  <1>3. s \in Seq(S) /\ x \in S
    BY <1>2
  <1>4. /\ steps \in Seq(S) /\ Len(steps) = m + 1 /\ steps[m + 1] = x
        /\ \A n \in 1 .. m : steps[n] = s[n]
    BY <1>1, <1>3, AppendProperties
  <1>5. /\ m \in Nat /\ k \in Nat /\ DOMAIN s = 1 .. m /\ DOMAIN steps = 1 .. k
        /\ k \in 1 .. k /\ \A n \in 1 .. k : n \in 1 .. m \/ n = k
    BY <1>1, <1>4
  <1>6. PICK v, u, w, z :
               /\ v = [n \in 1 .. m |-> IF s[n].kind = "BUY" THEN s[n].price * s[n].quantity ELSE 0]
               /\ u = [n \in 1 .. k |-> IF steps[n].kind = "BUY"
                                        THEN steps[n].price * steps[n].quantity ELSE 0]
               /\ w = [n \in 1 .. m |-> IF s[n].kind = "BARTER" THEN 1 ELSE 0]
               /\ z = [n \in 1 .. k |-> IF steps[n].kind = "BARTER" THEN 1 ELSE 0]
    OBVIOUS
  <1>7. \A n \in 1 .. m : s[n] \in Steps /\ s[n].price \in Nat /\ s[n].quantity \in Nat
                          /\ s[n].price * s[n].quantity \in Nat
    <2>1. ASSUME NEW n \in 1 .. m PROVE s[n] \in Steps /\ s[n].price \in Nat /\ s[n].quantity \in Nat
      <3>1. s[n] \in Steps
        BY <1>5
      <3> QED BY <3>1, BoundsAssumption DEF Steps, Prices
    <2> QED BY <2>1
  <1>8. v \in [1 .. m -> Int] /\ w \in [1 .. m -> Int]
    BY <1>6, <1>7
  <1>9. (\A n \in 1 .. m : u[n] = v[n] /\ z[n] = w[n]) /\ u[k] = 0 /\ z[k] = 0
    <2>1. \A n \in 1 .. m : n \in 1 .. k
      BY <1>1, <1>5
    <2>2. steps[k] = x /\ x.kind # "BUY" /\ x.kind # "BARTER"
      BY <1>1, <1>4
    <2>3. u[k] = 0 /\ z[k] = 0
      BY <1>5, <1>6, <2>2
    <2>4. ASSUME NEW n \in 1 .. m PROVE u[n] = v[n] /\ z[n] = w[n]
      <3>1. n \in 1 .. k /\ steps[n] = s[n]
        BY <1>4, <2>1
      <3> QED BY <1>6, <3>1
    <2> QED BY <2>3, <2>4
  <1>10. u \in [1 .. k -> Nat] /\ u \in [1 .. k -> Int] /\ z \in [1 .. k -> Int]
    <2>1. \A n \in 1 .. m : v[n] \in Nat /\ w[n] \in Nat
      BY <1>6, <1>7
    <2>2. ASSUME NEW n \in 1 .. k PROVE u[n] \in Nat /\ z[n] \in Nat
      <3>1. n \in 1 .. m \/ n = k
        BY <1>5
      <3> QED BY <1>9, <2>1, <3>1
    <2> QED BY <1>6, <2>2
  <1>11. Spent(s) = Sum(v) /\ Spent(steps) = Sum(u) /\ Barters(s) = Sum(w) /\ Barters(steps) = Sum(z)
    BY <1>5, <1>6 DEF Spent, Barters
  <1>12. Sum(u) = Sum(v) /\ Sum(z) = Sum(w)
    <2>1. u \in [1 .. m + 1 -> Int] /\ z \in [1 .. m + 1 -> Int]
      BY <1>1, <1>10
    <2>2. Sum(u) = Sum(v) + u[m + 1]
      BY <1>5, <1>8, <1>9, <2>1, SumMore
    <2>3. Sum(z) = Sum(w) + z[m + 1]
      BY <1>5, <1>8, <1>9, <2>1, SumMore
    <2>4. Sum(v) \in Int /\ Sum(w) \in Int
      BY <1>5, <1>8, SumFacts
    <2> QED BY <1>1, <1>9, <2>2, <2>3, <2>4
  <1>13. PICK c : c = [n \in 1 .. k |-> IF steps[n].kind # "BUY" THEN 0
                                        ELSE Multiply(steps[n].price, steps[n].quantity)]
    OBVIOUS
  <1>14. Sum(u) \in Nat /\ Sum(u) <= MaxInt /\ \A n \in 1 .. k : u[n] <= Sum(u)
    BY <1>5, <1>10, <1>11, <1>12, SumFacts
  <1>15. ASSUME NEW n \in 1 .. k PROVE c[n] = u[n]
    <2>1. CASE steps[n].kind # "BUY"
      BY <1>6, <1>13, <2>1
    <2>2. CASE steps[n].kind = "BUY"
      <3>1. n \in 1 .. m /\ steps[n] = s[n]
        BY <1>1, <1>4, <1>5, <2>2
      <3>2. PICK price, quantity : price = s[n].price /\ quantity = s[n].quantity
        OBVIOUS
      <3>3. price \in 0 .. MaxInt /\ quantity \in 1 .. MaxInt
        BY <1>7, <3>1, <3>2 DEF Steps, Prices
      <3>4. price \in Amounts /\ quantity \in Amounts
        BY <3>3, BoundsAssumption DEF Amounts, MinInt
      <3>5. u[n] = price * quantity /\ c[n] = Multiply(price, quantity)
        BY <1>6, <1>13, <2>2, <3>1, <3>2
      <3>6. u[n] \in Amounts
        <4>1. u[n] \in Nat /\ u[n] <= Sum(u)
          BY <1>10, <1>14
        <4> QED BY <1>14, <4>1, BoundsAssumption DEF Amounts, MinInt
      <3> QED BY <3>4, <3>5, <3>6, MultiplyFacts
    <2> QED BY <2>1, <2>2
  <1>16. c = u
    BY <1>6, <1>13, <1>15
  <1>17. CheckedSum(u) = Sum(u)
    <2>1. u \in [1 .. k -> Amounts \cup {NoAmount}]
      <3>1. \A n \in 1 .. k : u[n] \in Nat /\ u[n] <= MaxInt
        BY <1>10, <1>14, BoundsAssumption
      <3>2. \A n \in 1 .. k : u[n] \in Amounts
        BY <3>1, BoundsAssumption DEF Amounts, MinInt
      <3> QED BY <1>6, <3>2
    <2> QED BY <1>5, <1>10, <1>14, <2>1, CheckedFacts
  <1>18. BuyCosts(steps) = CheckedSum(c)
    BY <1>5, <1>13 DEF BuyCosts
  <1> QED BY <1>1, <1>11, <1>12, <1>16, <1>17, <1>18

\* The goods a plan brings can be listed.
LEMMA ListedFeasible ==
  ASSUME NEW s \in Seq(Steps), NEW item \in Items, NEW quantity \in Nat,
         Brings(s, Gains(item, quantity)),
         NEW x, x.kind = "LIST", x.item = item, x.quantity = quantity
  PROVE  Feasible(EmptyHands, Append(s, x))
  <1>1. PICK S, t, mid : S = Steps \cup {x} /\ t = <<x>> /\ mid = Final(EmptyHands, s)
    OBVIOUS
  <1>2. s \in Seq(S) /\ x \in S /\ t \in Seq(S)
    BY <1>1
  <1>3. EmptyHands \in Holdings /\ \A i \in Items : EmptyHands[i] = 0
    BY DEF EmptyHands, Holdings
  <1>4. /\ Feasible(EmptyHands, s) /\ mid \in Holdings
        /\ \A i \in Items : EmptyHands[i] + Gains(item, quantity)[i] <= mid[i]
    BY <1>1, <1>3 DEF Brings
  <1>5. ASSUME NEW i \in Items PROVE Loss(x, i) <= mid[i]
    <2>1. PICK held, wanted : held = mid[i] /\ wanted = Gains(item, quantity)[i]
      OBVIOUS
    <2>2. held \in Nat
      BY <1>4, <2>1 DEF Holdings
    <2>3. wanted = (IF i = item THEN quantity ELSE 0) /\ 0 + wanted <= held
      BY <1>3, <1>4, <2>1 DEF Gains
    <2>4. Loss(x, i) = IF i = item THEN quantity ELSE 0
      BY DEF Loss
    <2>5. wanted \in Nat /\ wanted <= held
      BY <2>2, <2>3
    <2> QED BY <2>1, <2>3, <2>4, <2>5
  <1>6. Feasible(mid, <<x>>) /\ Final(mid, <<x>>) = After(mid, x)
    BY <1>2, <1>5, MoveAlone
  <1>7. Feasible(EmptyHands, s) /\ Feasible(Final(EmptyHands, s), t)
    BY <1>1, <1>4, <1>6
  <1>8. Feasible(EmptyHands, s \o t) /\ Final(EmptyHands, s \o t) = Final(Final(EmptyHands, s), t)
    BY <1>2, <1>7, FeasibleConcat
  <1>9. Append(s, x) = s \o t
    BY <1>1, <1>2, AppendIsConcat
  <1> QED BY <1>8, <1>9

Exact(o) ==
    LET quote == Quotes[o.item]
    IN  /\ o.cost = Spent(o.steps)
        /\ o.revenue = quote.sale * o.quantity
        /\ o.fees = quote.commission * o.quantity + quote.listingFee
        /\ o.profit = o.revenue - o.fees - o.cost

Executable(o) == CanonicalOpportunity(o) /\ Feasible(EmptyHands, o.steps)

\* The age and the slots of a plan are those of all that it is made of.
Accounted(o) ==
    /\ o.cost \in Nat /\ o.slots \in Nat /\ o.observedAt \in Int
    /\ \A t \in o.quotedAt : t \in Int /\ o.observedAt <= t
    /\ o.slots = Cardinality({o.steps[n].item : n \in StepsOf(o, "BUY")})

Fits(kind, recipes) ==
    \/ kind = "DIRECT" /\ recipes = 0
    \/ kind = "CONTACT" /\ recipes = 1
    \/ kind = "MULTISTEP" /\ recipes >= 2

\* Where the steps of a plan are when its goods are listed.
LEMMA ListedSteps ==
  ASSUME NEW s \in Seq(Steps), NEW x, x.kind = "LIST", NEW steps, steps = Append(s, x)
  PROVE  /\ Len(s) \in Nat /\ Len(steps) = Len(s) + 1 /\ DOMAIN steps = 1 .. Len(s) + 1
         /\ steps[Len(s) + 1] = x
         /\ \A n \in DOMAIN s : n \in DOMAIN steps /\ steps[n] = s[n]
         /\ \A n \in DOMAIN steps : n = Len(s) + 1 \/ n \in DOMAIN s
         /\ {n \in DOMAIN steps : steps[n].kind = "LIST"} = {Len(s) + 1}
         /\ {n \in DOMAIN steps : steps[n].kind = "BUY"} = {n \in DOMAIN s : s[n].kind = "BUY"}
         /\ {steps[n].item : n \in {i \in DOMAIN steps : steps[i].kind = "BUY"}}
                = {s[n].item : n \in {i \in DOMAIN s : s[i].kind = "BUY"}}
  <1>1. PICK m, S : m = Len(s) /\ S = Steps \cup {x}
    OBVIOUS
  <1>2. s \in Seq(S) /\ x \in S
    BY <1>1
  <1>3. /\ steps \in Seq(S) /\ Len(steps) = m + 1 /\ steps[m + 1] = x
        /\ \A n \in 1 .. m : steps[n] = s[n]
    BY <1>1, <1>2, AppendProperties
  <1>4. /\ m \in Nat /\ DOMAIN s = 1 .. m /\ DOMAIN steps = 1 .. m + 1
        /\ \A n \in 1 .. m : s[n] \in Steps
    BY <1>1, <1>3
  <1>5. \A n \in 1 .. m : s[n].kind # "LIST"
    BY <1>4 DEF Steps
  <1>6. (\A n \in 1 .. m + 1 : n = m + 1 \/ n \in 1 .. m) /\ m + 1 \in 1 .. m + 1
        /\ (\A n \in 1 .. m : n \in 1 .. m + 1 /\ n # m + 1)
    BY <1>4
  <1>7. {n \in DOMAIN steps : steps[n].kind = "LIST"} = {m + 1}
    BY <1>3, <1>4, <1>5, <1>6
  <1>8. {n \in DOMAIN steps : steps[n].kind = "BUY"} = {n \in DOMAIN s : s[n].kind = "BUY"}
    BY <1>3, <1>4, <1>6
  <1>9. {steps[n].item : n \in {i \in DOMAIN steps : steps[i].kind = "BUY"}}
           = {s[n].item : n \in {i \in DOMAIN s : s[i].kind = "BUY"}}
    <2>1. PICK B : B = {i \in DOMAIN s : s[i].kind = "BUY"}
      OBVIOUS
    <2>2. \A n \in B : steps[n] = s[n]
      BY <1>3, <1>4, <2>1
    <2>3. {steps[n].item : n \in B} = {s[n].item : n \in B}
      BY <2>2
    <2> QED BY <1>8, <2>1, <2>3
  <1> QED BY <1>1, <1>3, <1>4, <1>6, <1>7, <1>8, <1>9

\* A plan that brings the goods, listed: exact, accepted by the service, possible
\* to carry out, and with the age and the slots of all its quotes and purchases.
LEMMA OpportunityFacts ==
  ASSUME input \in Inputs, NEW kind, NEW item \in Items, Quoted(item), NEW quantity \in 1 .. MaxInt,
         NEW p \in PlanRecords, p.status = "ok", Good(p, Gains(item, quantity)), Buys(p),
         Fits(kind, p.recipes), NEW o, o = Opportunity(kind, item, quantity, p), Complete(o)
  PROVE  /\ o.kind = kind /\ o.cost = p.cost /\ Exact(o) /\ Executable(o) /\ Accounted(o)
         /\ p.steps # <<>> => o.steps[Len(o.steps) - 1] = p.steps[Len(p.steps)]
  <1>1. PICK quote, s, x, times : /\ quote = Quotes[item] /\ s = p.steps
                                  /\ x = ListStep(item, quantity)
                                  /\ times = p.observedAt \cup {quote.observedAt}
    OBVIOUS
  <1>2. /\ quote \in MarketQuotes /\ quote.sale \in Prices /\ quote.commission \in Prices
        /\ quote.listingFee \in Prices /\ quote.observedAt \in Int
    BY <1>1, InputFacts DEF MarketQuotes
  <1>3. /\ s \in Seq(Steps) /\ p.cost \in 0 .. MaxInt /\ p.observedAt \in SUBSET Int
        /\ p.cost = Spent(s) /\ p.recipes = Barters(s) /\ IsFiniteSet(p.observedAt)
        /\ Brings(s, Gains(item, quantity))
    BY <1>1 DEF PlanRecords, Good
  <1>4. /\ x.kind = "LIST" /\ x.item = item /\ x.quantity = quantity /\ x.price = quote.sale
    BY <1>1 DEF ListStep
  <1>5. /\ o.kind = kind /\ o.item = item /\ o.quantity = quantity /\ o.cost = p.cost
        /\ o.revenue = Multiply(quote.sale, quantity)
        /\ o.fees = Add(Multiply(quote.commission, quantity), quote.listingFee)
        /\ o.profit = Subtract(Subtract(o.revenue, o.fees), p.cost)
        /\ o.slots = RequiredSlots(s) /\ o.observedAt = OldestObservation(times)
        /\ o.quotedAt = times /\ o.steps = Append(s, x)
    BY <1>1 DEF Opportunity
  <1>6. PICK steps, m : steps = o.steps /\ m = Len(s)
    OBVIOUS
  <1>7. /\ m \in Nat /\ Len(steps) = m + 1 /\ DOMAIN steps = 1 .. m + 1 /\ steps[m + 1] = x
        /\ \A n \in DOMAIN s : n \in DOMAIN steps /\ steps[n] = s[n]
        /\ \A n \in DOMAIN steps : n = m + 1 \/ n \in DOMAIN s
        /\ {n \in DOMAIN steps : steps[n].kind = "LIST"} = {m + 1}
        /\ {n \in DOMAIN steps : steps[n].kind = "BUY"} = {n \in DOMAIN s : s[n].kind = "BUY"}
        /\ {steps[n].item : n \in {i \in DOMAIN steps : steps[i].kind = "BUY"}}
               = {s[n].item : n \in {i \in DOMAIN s : s[i].kind = "BUY"}}
    BY <1>3, <1>4, <1>5, <1>6, ListedSteps
  <1>8. /\ Spent(steps) = p.cost /\ Barters(steps) = p.recipes /\ BuyCosts(steps) = p.cost
    <2>1. Spent(s) <= MaxInt
      BY <1>3, BoundsAssumption
    <2>2. /\ Spent(Append(s, x)) = Spent(s) /\ Barters(Append(s, x)) = Barters(s)
          /\ BuyCosts(Append(s, x)) = Spent(s)
      BY <1>3, <1>4, <2>1, ListedSums
    <2> QED BY <1>3, <1>5, <1>6, <2>2
  <1>9. Exact(o)
    <2>1. o.revenue # NoAmount /\ o.fees # NoAmount /\ o.profit # NoAmount
      BY DEF Complete
    <2>2. PICK revenue, fees, profit, cost :
                 revenue = o.revenue /\ fees = o.fees /\ profit = o.profit /\ cost = p.cost
      OBVIOUS
    <2>3. PICK sale, commission, listingFee :
                 /\ sale = quote.sale /\ commission = quote.commission
                 /\ listingFee = quote.listingFee
      OBVIOUS
    <2>4. /\ sale \in Prices /\ commission \in Prices /\ listingFee \in Prices
          /\ cost \in 0 .. MaxInt
          /\ revenue = Multiply(sale, quantity)
          /\ fees = Add(Multiply(commission, quantity), listingFee)
          /\ profit = Subtract(Subtract(revenue, fees), cost)
          /\ revenue # NoAmount /\ fees # NoAmount /\ profit # NoAmount
      BY <1>2, <1>3, <1>5, <2>1, <2>2, <2>3
    <2>5. /\ revenue = sale * quantity /\ fees = commission * quantity + listingFee
          /\ profit = revenue - fees - cost
      BY <2>4, EconomicsFacts
    <2> QED BY <1>1, <1>5, <1>6, <1>8, <2>2, <2>3, <2>5 DEF Exact
  <1>10. CanonicalOpportunity(o)
    <2>1. ASSUME NEW n \in DOMAIN steps PROVE steps[n].quantity > 0 /\ steps[n].price >= 0
      <3>1. CASE n = m + 1
        <4>1. steps[n] = x
          BY <1>7, <3>1
        <4> QED BY <1>2, <1>4, <4>1, BoundsAssumption DEF Prices
      <3>2. CASE n \in DOMAIN s
        <4>1. steps[n] = s[n] /\ s[n] \in Steps
          BY <1>3, <1>7, <3>2
        <4> QED BY <4>1, BoundsAssumption DEF Steps, Prices
      <3> QED BY <1>7, <3>1, <3>2
    <2>2. StepsOf(o, "BUY") # {}
      <3>1. \E n \in DOMAIN s : s[n].kind = "BUY"
        BY <1>1 DEF Buys
      <3> QED BY <1>6, <1>7, <3>1 DEF StepsOf
    <2>3. StepsOf(o, "LIST") = {Len(o.steps)}
      BY <1>6, <1>7 DEF StepsOf
    <2>4. PICK final : final = o.steps[Len(o.steps)]
      OBVIOUS
    <2>5. /\ final.item = o.item /\ final.quantity = o.quantity
          /\ Multiply(final.price, final.quantity) = o.revenue
      BY <1>4, <1>5, <1>6, <1>7, <2>4
    <2>6. BuyCosts(o.steps) = o.cost
      BY <1>5, <1>6, <1>8
    <2>7. Fits(o.kind, Barters(o.steps))
      BY <1>5, <1>6, <1>8
    <2>8. PICK barters : barters = Barters(o.steps)
      OBVIOUS
    <2>9. (CASE o.kind = "DIRECT" -> barters = 0
             [] o.kind = "CONTACT" -> barters = 1
             [] o.kind = "MULTISTEP" -> barters >= 2)
      BY <2>7, <2>8 DEF Fits
    <2> QED BY <1>6, <2>1, <2>2, <2>3, <2>4, <2>5, <2>6, <2>8, <2>9
        DEF CanonicalOpportunity, BuyCosts, Barters
  <1>11. Feasible(EmptyHands, steps)
    <2>1. quantity \in Nat
      BY BoundsAssumption
    <2>2. Feasible(EmptyHands, Append(s, x))
      BY <1>3, <1>4, <2>1, ListedFeasible
    <2> QED BY <1>5, <1>6, <2>2
  <1>12. Accounted(o)
    <2>1. times \in SUBSET Int /\ times # {} /\ IsFiniteSet(times)
      <3>1. IsFiniteSet({quote.observedAt})
        BY FS_Singleton
      <3>2. IsFiniteSet(times)
        BY <1>1, <1>3, <3>1, FS_Union
      <3> QED BY <1>1, <1>2, <1>3, <3>2
    <2>2. o.observedAt \in times /\ \A t \in times : o.observedAt <= t
      <3>1. /\ OldestObservation(times) \in times
            /\ \A t \in times : OldestObservation(times) <= t
        BY <2>1, OldestFacts
      <3> QED BY <1>5, <3>1
    <2>3. o.slots = Cardinality({o.steps[n].item : n \in StepsOf(o, "BUY")}) /\ o.slots \in Nat
      <3>1. PICK kinds : kinds = {s[n].item : n \in {i \in DOMAIN s : s[i].kind = "BUY"}}
        OBVIOUS
      <3>2. RequiredSlots(s) = Cardinality(kinds)
        BY <3>1 DEF RequiredSlots
      <3>3. {steps[n].item : n \in {i \in DOMAIN steps : steps[i].kind = "BUY"}} = kinds
        BY <1>7, <3>1
      <3>4. {o.steps[n].item : n \in StepsOf(o, "BUY")} = kinds
        BY <1>6, <3>3 DEF StepsOf
      <3>5. kinds \in SUBSET Items
        <4>1. \A n \in DOMAIN s : s[n] \in Steps
          BY <1>3
        <4> QED BY <3>1, <4>1 DEF Steps
      <3>6. IsFiniteSet(Items)
        BY FS_Interval, BoundsAssumption DEF Items
      <3>7. Cardinality(kinds) \in Nat
        <4>1. IsFiniteSet(kinds)
          BY <3>5, <3>6, FS_Subset
        <4> QED BY <4>1, FS_CardinalityType
      <3> QED BY <1>5, <3>2, <3>4, <3>7
    <2>4. o.cost \in Nat
      BY <1>3, <1>5
    <2> QED BY <1>5, <2>1, <2>2, <2>3, <2>4 DEF Accounted
  <1>13. ASSUME s # <<>> PROVE steps[Len(steps) - 1] = s[m]
    <2>1. m \in DOMAIN s
      BY <1>3, <1>6, <1>13
    <2>2. Len(steps) - 1 = m
      BY <1>7
    <2> QED BY <1>7, <2>1, <2>2
  <1> QED BY <1>1, <1>5, <1>6, <1>9, <1>10, <1>11, <1>12, <1>13 DEF Executable

-----------------------------------------------------------------------------
(* The evaluation.                                                         *)

\* A multistep plan is the cheapest way to carry out its recipe.
LeastWay(o) ==
    o.kind = "MULTISTEP" =>
        \E r \in ToSet(input.recipes) :
            /\ r.id = o.steps[Len(o.steps) - 1].recipe
            /\ LET costs == CostsWith(Costs[MaxDepth - 1], r, Wish(r.result, r.count, {}))
               IN  o.cost \in costs /\ \A cost \in costs : o.cost <= cost

Worth(o) == Exact(o) /\ Executable(o) /\ Accounted(o) /\ LeastWay(o)

Findings(result) ==
    /\ result = [status |-> result.status, plans |-> result.plans, used |-> result.used,
                 candidates |-> {}]
    /\ result.used \in Nat /\ \A o \in result.plans : Worth(o)

\* Buying one and selling it.
LEMMA DirectFacts ==
  ASSUME input \in Inputs, NEW item \in Items, Quoted(item), Complete(DirectOpportunity(item))
  PROVE  Worth(DirectOpportunity(item))
  <1>1. PICK o, p, q, price : /\ o = DirectOpportunity(item) /\ p = BuyOnMarket(item, 1)
                              /\ q = Request(item, 1, {}, 0) /\ price = Quotes[item].purchase
    OBVIOUS
  <1>2. q \in Requests /\ q.item = item /\ q.quantity = 1 /\ q.visiting = {}
    BY <1>1, RequestFacts DEF Request
  <1>3. 1 \in 1 .. MaxInt
    BY BoundsAssumption
  <1>4. Market[q].plan = p
    BY <1>1, <1>2 DEF Market
  <1>5. PICK costs : Answer(p, Gains(item, 1), costs)
    <2>1. Answer(Market[q].plan, Gains(q.item, q.quantity),
                 MarketCosts[Wish(q.item, q.quantity, q.visiting)])
      BY <1>2, <1>3, MarketFacts DEF Sound
    <2> QED BY <1>2, <1>4, <2>1
  <1>6. p.status = "ok" /\ p.recipes = 0
    <2>1. price \in 0 .. MaxInt
      BY <1>1, InputFacts DEF MarketQuotes, Prices
    <2>2. price \in Amounts /\ 1 \in Amounts /\ price * 1 = price
      BY <2>1, BoundsAssumption DEF Amounts, MinInt
    <2>3. Multiply(price, 1) = price /\ price # NoAmount
      <3>1. Multiply(price, 1) = IF price * 1 \in Amounts THEN price * 1 ELSE NoAmount
        BY <2>2, MultiplyFacts
      <3> QED BY <2>1, <2>2, <3>1, BoundsAssumption
    <2> QED BY <1>1, <2>3 DEF BuyOnMarket, Acquisition
  <1>7. p \in PlanRecords /\ Good(p, Gains(item, 1)) /\ Buys(p)
    BY <1>5, <1>6 DEF Answer
  <1>8. Fits("DIRECT", p.recipes)
    BY <1>6 DEF Fits
  <1>9. o = Opportunity("DIRECT", item, 1, p) /\ Complete(o)
    BY <1>1 DEF DirectOpportunity
  <1>10. o.kind = "DIRECT" /\ Exact(o) /\ Executable(o) /\ Accounted(o)
    BY <1>3, <1>6, <1>7, <1>8, <1>9, OpportunityFacts
  <1>11. LeastWay(o)
    BY <1>10 DEF LeastWay
  <1> QED BY <1>1, <1>10, <1>11 DEF Worth

\* Plans of the market hold no exchange.
LEMMA MarketOnly ==
  ASSUME NEW needs \in [Items -> Nat]
  PROVE  Gather(Market, needs, {}, 0).plan.recipes = 0
  <1>1. PICK f : /\ Gathering(f, Market, needs, {}, 0)
                 /\ Gather(Market, needs, {}, 0) = f[NumItems]
    BY GatherLoop
  <1>2. PICK T : T = {n \in 0 .. NumItems : f[n].plan.recipes = 0 /\ f[n].used \in Nat}
    OBVIOUS
  <1>3. 0 \in T
    <2>1. f[0] = [plan |-> Acquisition("ok", 0, <<>>, {}, 0), used |-> 0]
      BY <1>1 DEF Gathering
    <2>2. f[0].plan.recipes = 0 /\ f[0].used = 0
      BY <2>1 DEF Acquisition
    <2> QED BY <1>2, <2>2, BoundsAssumption
  <1>4. ASSUME NEW n \in 1 .. NumItems, n - 1 \in T PROVE n \in T
    <2>1. PICK before, q, child, p, c :
                 /\ before = f[n - 1] /\ q = Request(n, needs[n], {}, before.used)
                 /\ child = Market[q] /\ p = before.plan /\ c = child.plan
      OBVIOUS
    <2>2. n \in 0 .. NumItems /\ n \in Items /\ p.recipes = 0 /\ before.used \in Nat
      BY <1>2, <1>4, <2>1, BoundsAssumption DEF Items
    <2>3. q \in Requests /\ q.used = before.used
      BY <2>1, <2>2 DEF Request, Requests
    <2>4. c = BuyOnMarket(q.item, q.quantity) /\ child.used = before.used
      BY <2>1, <2>3 DEF Market
    <2>5. c.recipes = 0
      BY <2>4 DEF BuyOnMarket, Unavailable, Failed, Acquisition
    <2>6. Join(p, c).recipes = 0
      BY <2>2, <2>5 DEF Join, Failed, Acquisition
    <2>7. f[n] = before \/ f[n] = [plan |-> Join(p, c), used |-> child.used]
      BY <1>1, <2>1 DEF Gathering, GatherStep
    <2>8. f[n].plan.recipes = 0 /\ f[n].used \in Nat
      BY <2>1, <2>2, <2>4, <2>6, <2>7
    <2> QED BY <1>2, <2>2, <2>8
  <1>5. \A n \in 0 .. NumItems : n \in T
    BY <1>3, <1>4, UpTo, BoundsAssumption
  <1>6. NumItems \in 0 .. NumItems
    BY BoundsAssumption
  <1> QED BY <1>1, <1>2, <1>5, <1>6

\* Every ingredient bought, and one exchange.
LEMMA ContactFacts ==
  ASSUME input \in Inputs, NEW m \in DOMAIN input.recipes, NEW r, r = input.recipes[m],
         Quoted(r.result), NEW p, p = ContactPlan(r), p.status = "ok",
         NEW o, o = Opportunity("CONTACT", r.result, r.count, p), Complete(o)
  PROVE  Worth(o)
  <1>1. PICK needs, done, inner, costs :
               /\ needs = AggregateIngredients(r.ingredients, 1)
               /\ done = Gather(Market, needs, {}, 0) /\ inner = done.plan
               /\ costs = GatherCosts(MarketCosts, needs, {})
    OBVIOUS
  <1>2. r \in Recipes /\ r.result \in Items /\ r.count \in 1 .. MaxInt
    BY NeedsFacts
  <1>3. 1 \in 1 .. MaxInt
    BY BoundsAssumption
  <1>4. needs \in [Items -> 0 .. MaxInt] /\ needs = [item \in Items |-> Needs(r, item) * 1]
    <2>1. \A item \in Items : AggregateIngredients(r.ingredients, 1)[item] # NoAmount
      BY InputFacts
    <2>2. LET n == AggregateIngredients(r.ingredients, 1)
          IN  n \in [Items -> 0 .. MaxInt] /\ n = [item \in Items |-> Needs(r, item) * 1]
      BY <1>2, <1>3, <2>1, NeededFacts
    <2> QED BY <1>1, <2>2
  <1>5. Sound(Market, MarketCosts) /\ Numbers(MarketCosts)
    BY MarketFacts
  <1>6. done \in Results /\ Gathered(inner, needs, NumItems, costs)
    <2>1. {} \in SUBSET Nat /\ 0 \in Nat
      OBVIOUS
    <2>2. /\ Gather(Market, needs, {}, 0) \in Results
          /\ Gathered(Gather(Market, needs, {}, 0).plan, needs, NumItems,
                      GatherCosts(MarketCosts, needs, {}))
      BY <1>4, <1>5, <2>1, GatherFacts
    <2> QED BY <1>1, <2>2
  <1>7. p = Exchange(inner, r, 1)
    BY <1>1 DEF ContactPlan
  <1>8. inner \in PlanRecords /\ inner.status = "ok"
    <2>1. inner \in PlanRecords
      BY <1>1, <1>6 DEF Results
    <2>2. p.status = inner.status
      BY <1>7 DEF Exchange, Acquisition
    <2> QED BY <2>1, <2>2
  <1>9. inner.recipes = 0
    <2>1. needs \in [Items -> Nat]
      BY <1>4, BoundsAssumption
    <2> QED BY <1>1, <2>1, MarketOnly
  <1>10. PICK quantity : quantity = r.count
    OBVIOUS
  <1>11. quantity \in Nat /\ quantity <= 1 * r.count /\ quantity \in 1 .. MaxInt
    BY <1>2, <1>10, BoundsAssumption
  <1>12. \A item \in Items : needs[item] = Needs(r, item) * 1
    BY <1>4
  <1>13. LET e == Exchange(inner, r, 1)
         IN  /\ e \in PlanRecords /\ e.status = "ok" /\ e.cost = inner.cost
             /\ Good(e, Gains(r.result, quantity)) /\ Buys(e)
             /\ e.steps # <<>> /\ e.steps[Len(e.steps)].recipe = r.id
             /\ e.recipes = inner.recipes + 1
    BY <1>3, <1>4, <1>6, <1>8, <1>11, <1>12, ExchangeFacts
  <1>14. /\ p \in PlanRecords /\ Good(p, Gains(r.result, quantity)) /\ Buys(p)
         /\ p.recipes = 1
    BY <1>7, <1>9, <1>13
  <1>15. Fits("CONTACT", p.recipes)
    BY <1>14 DEF Fits
  <1>16. PICK item : item = r.result
    OBVIOUS
  <1>17. o = Opportunity("CONTACT", item, quantity, p) /\ item \in Items /\ Quoted(item)
         /\ Good(p, Gains(item, quantity))
    BY <1>2, <1>10, <1>14, <1>16
  <1>18. o.kind = "CONTACT" /\ Exact(o) /\ Executable(o) /\ Accounted(o)
    BY <1>11, <1>14, <1>15, <1>17, OpportunityFacts
  <1>19. LeastWay(o)
    BY <1>18 DEF LeastWay
  <1> QED BY <1>18, <1>19 DEF Worth

\* The cheapest plan for one run of a recipe.
LEMMA MultistepFacts ==
  ASSUME input \in Inputs, MaxDepth >= 2, NEW m \in DOMAIN input.recipes,
         NEW r, r = input.recipes[m], NEW used \in Nat
  PROVE  /\ MultistepPlan(r, used) \in Results
         /\ \A o : /\ Quoted(r.result) /\ MultistepPlan(r, used).plan.status = "ok"
                   /\ ~(MultistepPlan(r, used).plan.recipes < 2)
                   /\ o = Opportunity("MULTISTEP", r.result, r.count, MultistepPlan(r, used).plan)
                   /\ Complete(o)
                   => Worth(o)
  <1>1. PICK item, quantity, q, below, costs, search, p, all :
               /\ item = r.result /\ quantity = r.count /\ q = Request(item, quantity, {}, used)
               /\ below = BestAcquisition[MaxDepth - 1] /\ costs = Costs[MaxDepth - 1]
               /\ search = MultistepPlan(r, used) /\ p = search.plan
               /\ all = CostsWith(costs, r, Wish(item, quantity, {}))
    OBVIOUS
  <1>2. item \in Items /\ quantity \in 1 .. MaxInt /\ quantity \in Int
    BY <1>1, NeedsFacts
  <1>3. q \in Requests /\ q.item = item /\ q.quantity = quantity /\ q.visiting = {}
    BY <1>1, <1>2, RequestFacts DEF Request
  <1>4. MaxDepth \in Nat \ {0} /\ MaxDepth - 1 \in 0 .. MaxDepth
    BY BoundsAssumption
  <1>5. Sound(below, costs) /\ Numbers(costs)
    BY <1>1, <1>4, DepthFacts
  <1>6. search \in Results /\ Ends(p, r) /\ Answer(p, Gains(item, quantity), all)
    <2>1. LET result == AcquireWithRecipe(below, MaxDepth, r, q)
          IN  /\ result \in Results /\ Ends(result.plan, r)
              /\ Answer(result.plan, Gains(r.result, q.quantity),
                        CostsWith(costs, r, Wish(q.item, q.quantity, q.visiting)))
      BY <1>2, <1>3, <1>4, <1>5, AcquireFacts
    <2>2. search = AcquireWithRecipe(below, MaxDepth, r, q)
      BY <1>1 DEF MultistepPlan
    <2> QED BY <1>1, <1>3, <2>1, <2>2
  <1>7. ASSUME Quoted(item), p.status = "ok", ~(p.recipes < 2),
               NEW o, o = Opportunity("MULTISTEP", item, quantity, p), Complete(o)
        PROVE  Worth(o)
    <2>1. /\ p \in PlanRecords /\ Good(p, Gains(item, quantity)) /\ Buys(p) /\ Least(p.cost, all)
      BY <1>6, <1>7 DEF Answer
    <2>2. Fits("MULTISTEP", p.recipes)
      <3>1. p.recipes \in Nat
        BY <2>1 DEF PlanRecords
      <3> QED BY <1>7, <3>1 DEF Fits
    <2>3. /\ o.kind = "MULTISTEP" /\ o.cost = p.cost
          /\ Exact(o) /\ Executable(o) /\ Accounted(o)
          /\ p.steps # <<>> => o.steps[Len(o.steps) - 1] = p.steps[Len(p.steps)]
      BY <1>2, <1>7, <2>1, <2>2, OpportunityFacts
    <2>4. r.id = o.steps[Len(o.steps) - 1].recipe
      BY <1>6, <1>7, <2>3 DEF Ends
    <2>5. r \in ToSet(input.recipes)
      BY InputFacts
    <2>6. Least(o.cost, CostsWith(Costs[MaxDepth - 1], r, Wish(r.result, r.count, {})))
      BY <1>1, <2>1, <2>3
    <2>7. LeastWay(o)
      BY <2>4, <2>5, <2>6 DEF LeastWay, Least
    <2> QED BY <2>3, <2>7 DEF Worth
  <1> QED BY <1>1, <1>6, <1>7

FindStep(before, n) ==
    IF n <= Len(input.recipes) THEN FindContact(before, input.recipes[n])
    ELSE FindMultistep(before, input.recipes[n - Len(input.recipes)])

Finding(f) ==
    /\ f[0] = FindDirect
    /\ \A n \in 1 .. 2 * Len(input.recipes) : f[n] = FindStep(f[n - 1], n)

\* Where it stops, and what it returns.
Ending(f) ==
    LET last == f[IF MaxDepth < 2 THEN Len(input.recipes) ELSE 2 * Len(input.recipes)]
    IN  IF last.status = "error" THEN [NoPlans EXCEPT !.status = "error"] ELSE last

\* The evaluation, opportunity by opportunity.
LEMMA FindLoop ==
  ASSUME input \in Inputs
  PROVE  \E f : Finding(f) /\ Find = Ending(f)
  <1> DEFINE Unfolds(f, k) ==
               f = [n \in 0 .. k |-> IF n = 0 THEN FindDirect ELSE FindStep(f[n - 1], n)]
             T == {k \in Nat : \E f : Unfolds(f, k)}
  <1>1. 0 \in T
    <2>1. PICK f : f = [n \in 0 .. 0 |-> FindDirect]
      OBVIOUS
    <2>2. \A n \in 0 .. 0 : n = 0
      OBVIOUS
    <2>3. Unfolds(f, 0)
      BY <2>1, <2>2
    <2> QED BY <2>3
  <1>2. ASSUME NEW k \in Nat, k \in T PROVE k + 1 \in T
    <2>1. PICK f : Unfolds(f, k)
      BY <1>2
    <2>2. PICK last : last = FindStep(f[k], k + 1)
      OBVIOUS
    <2>3. PICK g : Extends(g, f, k, last)
      BY Extend
    <2>4. ASSUME NEW n \in 0 .. k + 1
          PROVE  g[n] = IF n = 0 THEN FindDirect ELSE FindStep(g[n - 1], n)
      <3>1. CASE n = 0
        <4>1. n \in 0 .. k
          BY <3>1
        <4> QED BY <2>1, <2>3, <3>1, <4>1 DEF Extends
      <3>2. CASE n \in 1 .. k
        <4>1. n \in 0 .. k /\ n - 1 \in 0 .. k /\ n # 0
          BY <3>2
        <4>2. g[n] = f[n] /\ g[n - 1] = f[n - 1]
          BY <2>3, <4>1 DEF Extends
        <4>3. f[n] = FindStep(f[n - 1], n)
          BY <2>1, <4>1
        <4> QED BY <4>1, <4>2, <4>3
      <3>3. CASE n = k + 1
        <4>1. n # 0 /\ n - 1 = k /\ k \in 0 .. k
          BY <3>3
        <4>2. g[n - 1] = f[k]
          BY <2>3, <4>1 DEF Extends
        <4> QED BY <2>2, <2>3, <3>3, <4>1, <4>2 DEF Extends
      <3>4. n = 0 \/ n \in 1 .. k \/ n = k + 1
        OBVIOUS
      <3> QED BY <3>1, <3>2, <3>3, <3>4
    <2>5. Unfolds(g, k + 1)
      BY <2>3, <2>4 DEF Extends
    <2> QED BY <2>5
  <1>3. PICK m : m = 2 * Len(input.recipes)
    OBVIOUS
  <1>4. m \in Nat
    BY <1>3, InputFacts
  <1>5. m \in T
    <2> HIDE DEF T
    <2> QED BY <1>1, <1>2, <1>4, NatFacts
  <1>6. PICK walk : walk = CHOOSE g : Unfolds(g, m)
    OBVIOUS
  <1>7. Unfolds(walk, m)
    <2>1. \E f : Unfolds(f, m)
      BY <1>5
    <2> HIDE DEF Unfolds
    <2> QED BY <1>6, <2>1
  <1>8. Find = Ending(walk)
    BY <1>3, <1>6 DEF Find, FindStep, Ending
  <1>9. walk[0] = FindDirect
    BY <1>4, <1>7
  <1>10. ASSUME NEW n \in 1 .. m PROVE walk[n] = FindStep(walk[n - 1], n)
    <2>1. n \in 0 .. m /\ n # 0
      BY <1>4
    <2> QED BY <1>7, <2>1
  <1> QED BY <1>3, <1>8, <1>9, <1>10 DEF Finding

\* The two results without plans.
LEMMA NothingFound == Findings(NoPlans) /\ Findings([NoPlans EXCEPT !.status = "error"])
  BY DEF Findings, NoPlans

\* Direct flips are worth it.
LEMMA FindDirectFacts ==
  ASSUME input \in Inputs
  PROVE  Findings(FindDirect)
  <1>1. PICK direct : direct = {DirectOpportunity(item) : item \in {i \in DOMAIN Quotes : Quoted(i)}}
    OBVIOUS
  <1>2. DOMAIN Quotes = Items
    BY InputsAssumption DEF Quotes
  <1>3. ASSUME \A o \in direct : Complete(o) PROVE \A o \in direct : Worth(o)
    <2>1. ASSUME NEW o \in direct PROVE Worth(o)
      <3>1. PICK item \in Items : Quoted(item) /\ o = DirectOpportunity(item)
        BY <1>1, <1>2
      <3>2. Complete(DirectOpportunity(item))
        BY <1>3, <3>1
      <3>3. Worth(DirectOpportunity(item))
        BY <3>1, <3>2, DirectFacts
      <3> QED BY <3>1, <3>3
    <2> QED BY <2>1
  <1>4. FindDirect = IF \A o \in direct : Complete(o) THEN [NoPlans EXCEPT !.plans = direct]
                     ELSE [NoPlans EXCEPT !.status = "error"]
    BY <1>1 DEF FindDirect
  <1>5. CASE \A o \in direct : Complete(o)
    <2>1. FindDirect = [NoPlans EXCEPT !.plans = direct]
      BY <1>4, <1>5
    <2>2. \A o \in direct : Worth(o)
      BY <1>3, <1>5
    <2> QED BY <2>1, <2>2 DEF Findings, NoPlans
  <1>6. CASE ~(\A o \in direct : Complete(o))
    BY <1>4, <1>6, NothingFound
  <1> QED BY <1>5, <1>6

\* What is included is worth it.
LEMMA IncludeFacts ==
  ASSUME NEW result, Findings(result), NEW kind, NEW r, NEW plan,
         \A o : /\ plan.status = "ok" /\ ~(kind = "MULTISTEP" /\ plan.recipes < 2)
                /\ o = Opportunity(kind, r.result, r.count, plan) /\ Complete(o)
                => Worth(o),
         plan.status \in {"ok", "unavailable", "error"}
  PROVE  Findings(Include(result, kind, r, plan))
  <1>1. PICK o, status, plans, used, last :
               /\ o = Opportunity(kind, r.result, r.count, plan)
               /\ status = result.status /\ plans = result.plans /\ used = result.used
               /\ last = Include(result, kind, r, plan)
    OBVIOUS
  <1>2. /\ result = [status |-> status, plans |-> plans, used |-> used, candidates |-> {}]
        /\ used \in Nat /\ \A other \in plans : Worth(other)
    BY <1>1 DEF Findings
  <1>3. PICK skipped : skipped = (plan.status = "unavailable"
                                  \/ (kind = "MULTISTEP" /\ plan.status = "ok" /\ plan.recipes < 2))
    OBVIOUS
  <1>4. last = IF skipped THEN result
               ELSE IF plan.status = "error" \/ ~Complete(o) THEN [result EXCEPT !.status = "error"]
               ELSE [result EXCEPT !.plans = @ \cup {o}]
    BY <1>1, <1>3, Zenon DEF Include
  <1>5. CASE skipped
    BY <1>1, <1>4, <1>5
  <1>6. CASE ~skipped /\ (plan.status = "error" \/ ~Complete(o))
    <2>1. last = [result EXCEPT !.status = "error"]
      BY <1>4, <1>6
    <2>2. last = [status |-> "error", plans |-> plans, used |-> used, candidates |-> {}]
      BY <1>2, <2>1
    <2>3. Findings(last)
      BY <1>2, <2>2 DEF Findings
    <2> QED BY <1>1, <2>3
  <1>7. CASE ~skipped /\ ~(plan.status = "error" \/ ~Complete(o))
    <2>1. last = [result EXCEPT !.plans = @ \cup {o}]
      BY <1>4, <1>7
    <2>2. last = [status |-> status, plans |-> plans \cup {o}, used |-> used, candidates |-> {}]
      BY <1>2, <2>1
    <2>3. plan.status = "ok" /\ ~(kind = "MULTISTEP" /\ plan.recipes < 2)
      BY <1>3, <1>7
    <2>4. Worth(o)
      BY <1>1, <1>7, <2>3, Zenon
    <2>5. Findings(last)
      BY <1>2, <2>2, <2>4 DEF Findings
    <2> QED BY <1>1, <2>5
  <1>8. Findings(last)
    BY <1>1, <1>4, <1>5, <1>6, <1>7
  <1> QED BY <1>1, <1>8

\* How the plan of a contact barter may end.
LEMMA ContactStatus ==
  ASSUME input \in Inputs, NEW m \in DOMAIN input.recipes, NEW r, r = input.recipes[m]
  PROVE  ContactPlan(r).status \in {"ok", "unavailable", "error"}
  <1>1. PICK needs, done : /\ needs = AggregateIngredients(r.ingredients, 1)
                           /\ done = Gather(Market, needs, {}, 0)
    OBVIOUS
  <1>2. r \in Recipes /\ 1 \in 1 .. MaxInt
    BY InputFacts, BoundsAssumption
  <1>3. needs \in [Items -> 0 .. MaxInt]
    <2>1. \A item \in Items : AggregateIngredients(r.ingredients, 1)[item] # NoAmount
      BY InputFacts
    <2>2. LET n == AggregateIngredients(r.ingredients, 1)
          IN  n \in [Items -> 0 .. MaxInt] /\ n = [item \in Items |-> Needs(r, item) * 1]
      BY <1>2, <2>1, NeededFacts
    <2> QED BY <1>1, <2>2
  <1>4. done \in Results
    <2>1. {} \in SUBSET Nat /\ 0 \in Nat
      OBVIOUS
    <2>2. Gather(Market, needs, {}, 0) \in Results
      BY <1>3, <2>1, MarketFacts, GatherFacts
    <2> QED BY <1>1, <2>2
  <1>5. PICK inner : inner = done.plan
    OBVIOUS
  <1>6. inner \in PlanRecords
    BY <1>4, <1>5 DEF Results
  <1>7. inner.status \in {"ok", "unavailable", "error"}
    BY <1>6 DEF PlanRecords
  <1>8. ContactPlan(r).status = inner.status
    BY <1>1, <1>5 DEF ContactPlan, Exchange, Acquisition
  <1> QED BY <1>7, <1>8

\* One more recipe, by contact.
LEMMA FindContactFacts ==
  ASSUME input \in Inputs, NEW m \in DOMAIN input.recipes, NEW r, r = input.recipes[m],
         NEW result, Findings(result)
  PROVE  Findings(FindContact(result, r))
  <1>1. CASE result.status = "error" \/ ~Sellable(r)
    BY <1>1 DEF FindContact
  <1>2. CASE ~(result.status = "error" \/ ~Sellable(r))
    <2>1. PICK p : p = ContactPlan(r)
      OBVIOUS
    <2>2. Quoted(r.result)
      BY <1>2 DEF Sellable
    <2>3. ASSUME p.status = "ok", NEW o, o = Opportunity("CONTACT", r.result, r.count, p), Complete(o)
          PROVE  Worth(o)
      BY <2>1, <2>2, <2>3, ContactFacts
    <2>4. p.status \in {"ok", "unavailable", "error"}
      BY <2>1, ContactStatus
    <2>5. Findings(Include(result, "CONTACT", r, p))
      BY <2>3, <2>4, IncludeFacts
    <2>6. FindContact(result, r) = Include(result, "CONTACT", r, p)
      BY <1>2, <2>1 DEF FindContact
    <2> QED BY <2>5, <2>6
  <1> QED BY <1>1, <1>2

\* One more recipe, by the search.
LEMMA FindMultistepFacts ==
  ASSUME input \in Inputs, MaxDepth >= 2, NEW m \in DOMAIN input.recipes,
         NEW r, r = input.recipes[m], NEW result, Findings(result)
  PROVE  Findings(FindMultistep(result, r))
  <1>1. CASE result.status = "error" \/ ~Sellable(r)
    BY <1>1 DEF FindMultistep
  <1>2. CASE ~(result.status = "error" \/ ~Sellable(r))
    <2>1. PICK used, search, p, before :
                 /\ used = result.used /\ search = MultistepPlan(r, used) /\ p = search.plan
                 /\ before = [result EXCEPT !.used = search.used]
      OBVIOUS
    <2>2. Quoted(r.result)
      BY <1>2 DEF Sellable
    <2>3. used \in Nat
      BY <2>1 DEF Findings
    <2>4. /\ MultistepPlan(r, used) \in Results
          /\ \A o : /\ Quoted(r.result) /\ MultistepPlan(r, used).plan.status = "ok"
                    /\ ~(MultistepPlan(r, used).plan.recipes < 2)
                    /\ o = Opportunity("MULTISTEP", r.result, r.count, MultistepPlan(r, used).plan)
                    /\ Complete(o)
                    => Worth(o)
      BY <2>3, MultistepFacts
    <2>5. search \in Results
      BY <2>1, <2>4
    <2>6. p \in PlanRecords /\ search.used \in Nat
      BY <2>1, <2>5 DEF Results
    <2>7. p.status \in {"ok", "unavailable", "error"}
      BY <2>6 DEF PlanRecords
    <2>8. Findings(before)
      BY <2>1, <2>6 DEF Findings
    <2>9. \A o : /\ p.status = "ok" /\ ~("MULTISTEP" = "MULTISTEP" /\ p.recipes < 2)
                /\ o = Opportunity("MULTISTEP", r.result, r.count, p) /\ Complete(o)
                => Worth(o)
      BY <2>1, <2>2, <2>4
    <2>10. Findings(Include(before, "MULTISTEP", r, p))
      BY <2>7, <2>8, <2>9, IncludeFacts
    <2>11. FindMultistep(result, r) = Include(before, "MULTISTEP", r, p)
      BY <1>2, <2>1 DEF FindMultistep
    <2> QED BY <2>10, <2>11
  <1> QED BY <1>1, <1>2

\* All that the finder returns is worth it.
LEMMA FindFacts ==
  ASSUME input \in Inputs
  PROVE  Findings(Find)
  <1>1. PICK f : Finding(f) /\ Find = Ending(f)
    BY FindLoop
  <1>2. PICK k, T : k = Len(input.recipes) /\ T = {n \in Nat : Findings(f[n])}
    OBVIOUS
  <1>3. k \in Nat /\ DOMAIN input.recipes = 1 .. k
    BY <1>2, InputFacts
  <1>4. 0 \in T
    <2>1. Findings(f[0])
      BY <1>1, FindDirectFacts DEF Finding
    <2> QED BY <1>2, <2>1
  <1>5. ASSUME NEW n \in 1 .. k, n - 1 \in T PROVE n \in T
    <2>1. PICK before, r : before = f[n - 1] /\ r = input.recipes[n]
      OBVIOUS
    <2>2. n \in DOMAIN input.recipes /\ n \in 1 .. 2 * k /\ n <= k /\ n \in Nat
      BY <1>3
    <2>3. f[n] = FindContact(before, r)
      BY <1>1, <1>2, <2>1, <2>2 DEF Finding, FindStep
    <2>4. Findings(before)
      BY <1>2, <1>5, <2>1
    <2>5. Findings(FindContact(before, r))
      BY <2>1, <2>2, <2>4, FindContactFacts
    <2> QED BY <1>2, <2>2, <2>3, <2>5
  <1>6. \A n \in 0 .. k : n \in T
    BY <1>3, <1>4, <1>5, UpTo
  <1>7. ASSUME MaxDepth >= 2 PROVE \A n \in 0 .. 2 * k : n \in T
    <2>1. ASSUME NEW n \in 1 .. 2 * k, n - 1 \in T PROVE n \in T
      <3>1. CASE n <= k
        <4>1. n \in 0 .. k
          BY <1>3, <3>1
        <4> QED BY <1>6, <4>1
      <3>2. CASE ~(n <= k)
        <4>1. PICK before, m, r : before = f[n - 1] /\ m = n - k /\ r = input.recipes[m]
          OBVIOUS
        <4>2. m \in DOMAIN input.recipes /\ n \in Nat
          BY <1>3, <3>2, <4>1
        <4>3. f[n] = FindMultistep(before, r)
          BY <1>1, <1>2, <3>2, <4>1 DEF Finding, FindStep
        <4>4. Findings(before)
          BY <1>2, <2>1, <4>1
        <4>5. Findings(FindMultistep(before, r))
          BY <1>7, <4>1, <4>2, <4>4, FindMultistepFacts
        <4> QED BY <1>2, <4>2, <4>3, <4>5
      <3> QED BY <3>1, <3>2
    <2>2. 2 * k \in Nat
      BY <1>3
    <2> QED BY <1>4, <2>1, <2>2, UpTo
  <1>8. PICK end, last : /\ end = (IF MaxDepth < 2 THEN k ELSE 2 * k) /\ last = f[end]
    OBVIOUS
  <1>9. end \in T
    <2>1. CASE MaxDepth < 2
      <3>1. end = k /\ k \in 0 .. k
        BY <1>3, <1>8, <2>1
      <3> QED BY <1>6, <3>1
    <2>2. CASE ~(MaxDepth < 2)
      <3>1. end = 2 * k /\ 2 * k \in 0 .. 2 * k /\ MaxDepth >= 2
        BY <1>3, <1>8, <2>2, BoundsAssumption
      <3> QED BY <1>7, <3>1
    <2> QED BY <2>1, <2>2
  <1>10. Findings(last)
    BY <1>2, <1>8, <1>9
  <1>11. Find = IF last.status = "error" THEN [NoPlans EXCEPT !.status = "error"] ELSE last
    BY <1>1, <1>2, <1>8 DEF Ending
  <1> QED BY <1>10, <1>11, NothingFound

-----------------------------------------------------------------------------
(* The invariant.                                                          *)

\* No step changes the input, and with it what a plan is worth.
LEMMA WorthStays ==
  ASSUME input' = input, NEW o
  PROVE  Worth(o)' <=> Worth(o)
  <1>1. Exact(o)' <=> Exact(o)
    BY DEF Exact, Quotes
  <1>2. Feasible(EmptyHands, o.steps)' <=> Feasible(EmptyHands, o.steps)
    BY DEF Feasible, Loss, Gain, Held, RecipeOf
  <1>3. Costs' = Costs
    BY DEF Costs, MarketCosts, CostsWith, GatherCosts, Quoted, Quotes
  <1>4. ASSUME NEW below, NEW r, NEW w PROVE CostsWith(below, r, w)' = CostsWith(below, r, w)
    BY DEF CostsWith, GatherCosts
  <1>5. LeastWay(o)' <=> LeastWay(o)
    BY <1>3, <1>4 DEF LeastWay
  <1>6. Executable(o)' <=> Executable(o)
    BY <1>2 DEF Executable
  <1>7. Accounted(o)' <=> Accounted(o)
    BY DEF Accounted
  <1> QED BY <1>1, <1>5, <1>6, <1>7 DEF Worth

PlansAreWorth ==
    found # NoPlan => /\ found.candidates \subseteq found.plans
                      /\ \A o \in found.plans : Worth(o)

PlanningInvariant ==
    /\ input \in Inputs /\ now \in Int
    /\ PlansAreWorth
    /\ BegunWithinLimits

\* The invariant holds at first.
LEMMA InitEstablishes ==
  ASSUME Init
  PROVE  PlanningInvariant
  BY BoundsAssumption DEF Init, PlanningInvariant, PlansAreWorth, BegunWithinLimits

\* A plan of the evaluation, accepted now, is within the limits now.
LEMMA AcceptedWithinLimits ==
  ASSUME input \in Inputs, now \in Int, NEW o, Worth(o), RiskAccepts(o, BeginLimits)
  PROVE  /\ Spent(o.steps) <= input.account.balance /\ Spent(o.steps) <= input.limits.budget
         /\ Cardinality({o.steps[n].item : n \in StepsOf(o, "BUY")}) <= input.account.slots
         /\ \A t \in o.quotedAt :
               /\ input.limits.maxQuoteAge > 0 => now - t <= input.limits.maxQuoteAge
               /\ QuoteTTL > 0 => now < t + QuoteTTL
  <1>1. PICK limits, account, slots, merged, spent, observed :
               /\ limits = input.limits /\ account = input.account
               /\ slots = SlotLimits /\ merged = BeginLimits
               /\ spent = Spent(o.steps) /\ observed = o.observedAt
    OBVIOUS
  <1>2. /\ limits \in [budget : Int, minProfit : Int, itemPrice : Int, slots : Int, maxQuoteAge : Int]
        /\ account \in [balance : Int, slots : Int]
    BY <1>1, InputsAssumption
  <1>3. PICK budget, free, age, balance, places :
               /\ budget = limits.budget /\ free = limits.slots /\ age = limits.maxQuoteAge
               /\ balance = account.balance /\ places = account.slots
    OBVIOUS
  <1>4. budget \in Int /\ free \in Int /\ age \in Int /\ balance \in Int /\ places \in Int
    BY <1>2, <1>3
  <1>5. /\ slots.budget = budget /\ slots.slots = Lesser(free, places) /\ slots.maxQuoteAge = age
        /\ slots = [limits EXCEPT !.slots = Lesser(@, places)]
    BY <1>1, <1>2, <1>3 DEF SlotLimits
  <1>6. /\ merged.budget = Lesser(budget, balance) /\ merged.slots = Lesser(free, places)
        /\ merged.maxQuoteAge = age
    <2>1. merged = [slots EXCEPT !.budget = Lesser(@, balance)]
      BY <1>1, <1>3 DEF BeginLimits
    <2>2. slots = [limits EXCEPT !.slots = Lesser(free, places)]
      BY <1>3, <1>5
    <2> QED BY <1>2, <1>3, <1>5, <2>1, <2>2
  <1>7. /\ spent = o.cost /\ spent \in Nat /\ o.slots \in Nat /\ observed \in Int
        /\ \A t \in o.quotedAt : t \in Int /\ observed <= t
        /\ o.slots = Cardinality({o.steps[n].item : n \in StepsOf(o, "BUY")})
    BY <1>1 DEF Worth, Exact, Accounted
  <1>8. /\ o.cost <= merged.budget /\ o.slots <= merged.slots
        /\ QuoteTTL > 0 => now < observed + QuoteTTL
        /\ merged.maxQuoteAge > 0 => now - observed <= merged.maxQuoteAge
    BY <1>1 DEF RiskAccepts
  <1>9. spent <= balance /\ spent <= budget
    BY <1>4, <1>6, <1>7, <1>8 DEF Lesser
  <1>10. Cardinality({o.steps[n].item : n \in StepsOf(o, "BUY")}) <= places
    <2>1. PICK count : count = Cardinality({o.steps[n].item : n \in StepsOf(o, "BUY")})
      OBVIOUS
    <2>2. count <= Lesser(free, places)
      BY <1>6, <1>7, <1>8, <2>1
    <2>3. count \in Int
      BY <1>7, <2>1
    <2> QED BY <1>4, <2>1, <2>2, <2>3 DEF Lesser
  <1>11. ASSUME NEW t \in o.quotedAt
         PROVE  /\ age > 0 => now - t <= age
                /\ QuoteTTL > 0 => now < t + QuoteTTL
    <2>1. t \in Int /\ observed <= t /\ QuoteTTL \in Int
      BY <1>7, BoundsAssumption
    <2>2. QuoteTTL > 0 => now < observed + QuoteTTL
      BY <1>8
    <2>3. age > 0 => now - observed <= age
      BY <1>6, <1>8
    <2> QED BY <1>4, <1>7, <2>1, <2>2, <2>3
  <1> QED BY <1>1, <1>3, <1>9, <1>10, <1>11

\* Every step keeps the invariant.
LEMMA NextKeeps ==
  ASSUME PlanningInvariant, [Next]_vars
  PROVE  PlanningInvariant'
  <1>1. input \in Inputs /\ now \in Int
    BY DEF PlanningInvariant
  <1>2. input' = input
    BY DEF Next, Evaluate, Begin, Advance, vars
  <1>3. \A o : Worth(o)' <=> Worth(o)
    BY <1>2, WorthStays
  <1>4. CASE Evaluate
    <2>1. Findings(Find)
      BY <1>1, FindFacts
    <2>2. PICK result : result = Find
      OBVIOUS
    <2>3. /\ result = [status |-> result.status, plans |-> result.plans, used |-> result.used,
                       candidates |-> {}]
          /\ \A o \in result.plans : Worth(o)
      BY <2>1, <2>2 DEF Findings
    <2>4. found'.plans = result.plans /\ found'.candidates \subseteq result.plans
      <3>1. \/ found' = [result EXCEPT !.status = "error"]
            \/ found' = [result EXCEPT !.candidates = {o \in result.plans : RiskAccepts(o, SlotLimits)}]
        BY <1>4, <2>2 DEF Evaluate
      <3> QED BY <2>3, <3>1
    <2>5. PlansAreWorth'
      BY <1>3, <2>3, <2>4 DEF PlansAreWorth
    <2>6. BegunWithinLimits'
      BY <1>2, <1>4 DEF Evaluate, PlanningInvariant, BegunWithinLimits
    <2> QED BY <1>1, <1>2, <1>4, <2>5, <2>6 DEF Evaluate, PlanningInvariant
  <1>5. ASSUME UNCHANGED found PROVE PlansAreWorth'
    BY <1>3, <1>5 DEF PlansAreWorth, PlanningInvariant
  <1>6. CASE Advance
    <2>1. BegunWithinLimits'
      BY <1>2, <1>6 DEF Advance, PlanningInvariant, BegunWithinLimits
    <2>2. PlansAreWorth'
      BY <1>5, <1>6 DEF Advance
    <2> QED BY <1>1, <1>2, <1>6, <2>1, <2>2 DEF Advance, PlanningInvariant
  <1>7. ASSUME found # NoPlan, NEW o \in found.candidates, Begin(o) PROVE PlanningInvariant'
    <2>1. Worth(o)
      BY <1>7 DEF PlanningInvariant, PlansAreWorth
    <2>2. RiskAccepts(o, BeginLimits) /\ begun' = [plan |-> o, at |-> now] /\ UNCHANGED <<input, found, now>>
      BY <1>7 DEF Begin
    <2>3. /\ Spent(o.steps) <= input.account.balance /\ Spent(o.steps) <= input.limits.budget
          /\ Cardinality({o.steps[n].item : n \in StepsOf(o, "BUY")}) <= input.account.slots
          /\ \A t \in o.quotedAt :
                /\ input.limits.maxQuoteAge > 0 => now - t <= input.limits.maxQuoteAge
                /\ QuoteTTL > 0 => now < t + QuoteTTL
      BY <1>1, <2>1, <2>2, AcceptedWithinLimits
    <2>4. begun'.plan = o /\ begun'.at = now
      BY <2>2
    <2>5. BegunWithinLimits'
      BY <1>2, <2>3, <2>4 DEF BegunWithinLimits
    <2>6. PlansAreWorth'
      BY <1>5, <2>2
    <2> QED BY <1>1, <2>2, <2>5, <2>6 DEF PlanningInvariant
  <1>8. CASE UNCHANGED vars
    <2>1. BegunWithinLimits'
      BY <1>2, <1>8 DEF vars, PlanningInvariant, BegunWithinLimits
    <2>2. PlansAreWorth'
      BY <1>5, <1>8 DEF vars
    <2> QED BY <1>1, <1>8, <2>1, <2>2 DEF vars, PlanningInvariant
  <1> QED BY <1>4, <1>6, <1>7, <1>8 DEF Next

\* Every plan of an evaluation is worth it and what was begun is within the
\* limits, in every reachable state.  (Finder.Find, Service.Begin.)
THEOREM InvariantTheorem == Spec => []PlanningInvariant
  <1>1. Init => PlanningInvariant
    BY InitEstablishes
  <1>2. PlanningInvariant /\ [Next]_vars => PlanningInvariant'
    BY NextKeeps
  <1> QED BY <1>1, <1>2, PTL DEF Spec

-----------------------------------------------------------------------------
(* The theorems.                                                           *)

\* No amount of any plan wraps: cost, revenue, fees and profit are those of
\* unbounded arithmetic, whatever the prices and whatever the width of an
\* integer.  (Package money.)
THEOREM AmountsTheorem == Spec => []AmountsAreExact
  <1>1. PlanningInvariant => AmountsAreExact
    BY DEF PlanningInvariant, PlansAreWorth, Worth, Exact, AmountsAreExact, Plans
  <1> QED BY <1>1, InvariantTheorem, PTL

\* Every plan is one the service accepts, and can be carried out step by step:
\* no exchange lacks an ingredient, whatever the recipes.  (acquireWithRecipe.)
THEOREM ExecutableTheorem == Spec => []PlansAreExecutable
  <1>1. PlanningInvariant => PlansAreExecutable
    BY DEF PlanningInvariant, PlansAreWorth, Worth, Executable, PlansAreExecutable, Plans
  <1> QED BY <1>1, InvariantTheorem, PTL

\* A multistep plan costs the least of all ways to carry out its recipe, to any
\* depth the search may be configured with.  (bestAcquisition.)
THEOREM CheapestTheorem == Spec => []MultistepIsCheapest
  <1>1. PlanningInvariant => MultistepIsCheapest
    BY DEF PlanningInvariant, PlansAreWorth, Worth, LeastWay, MultistepIsCheapest, Plans
  <1> QED BY <1>1, InvariantTheorem, PTL

\* A saga begins with a plan that is within the limits at that very moment: its
\* money, its slots and the age of every quote in it.  (Service.Begin.)
THEOREM LimitsTheorem == Spec => []BegunWithinLimits
  <1>1. PlanningInvariant => BegunWithinLimits
    BY DEF PlanningInvariant
  <1> QED BY <1>1, InvariantTheorem, PTL
=============================================================================
