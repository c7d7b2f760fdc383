--------------------------- MODULE EvaluationProofs ---------------------------
(***************************************************************************)
(* Theorems about Evaluation: what a verdict says of the scalars it was    *)
(* reached from, for every test, every scalar and every precision.         *)
(***************************************************************************)
EXTENDS Evaluation, TLAPS, WellFoundedInduction

\* The number n, in tenths, as values of the type are normalized.
AsNumber(type, n) == Normal(IF type = "INTEGER" THEN "int" ELSE "decimal", n, "", "")

LEMMA Numbers ==
  ASSUME NEW type, NEW n
  PROVE  /\ AsNumber(type, n).n = n /\ Numeric(AsNumber(type, n))
         /\ AsNumber(type, n) # Absent /\ AsNumber(type, n) \notin {Refused, Raised}
<1> DEFINE none == ""
           kind == IF type = "INTEGER" THEN "int" ELSE "decimal"
<1>1. /\ AsNumber(type, n) = Normal(kind, n, none, none)
      /\ Absent = Normal("absent", 0, none, none)
      /\ Refused = Normal("refused", 0, none, none)
      /\ Raised = Normal("raised", 0, none, none)
  BY DEF AsNumber, Absent, Refused, Raised
<1>2. kind \in {"int", "decimal"}
  OBVIOUS
<1> HIDE DEF none, kind
<1>3. \A k, m : Normal(k, m, none, none).kind = k /\ Normal(k, m, none, none).n = m
  BY DEF Normal
<1> QED
  BY <1>1, <1>2, <1>3 DEF Numeric

\* A value that can be read as a number of the type is that number.
LEMMA ReadAsNumber ==
  ASSUME NEW v, NEW type \in NumericTypes, Normalize(v, type) # Refused
  PROVE  v.reads = "number" /\ Normalize(v, type) = AsNumber(type, v.n)
<1>1. ~Blank(v)
  BY DEF Normalize
<1> DEFINE none == ""
<1>2. CASE type = "INTEGER"
  <2>1. IsDecimal(v)
    BY <1>1, <1>2 DEF Normalize
  <2>2. Normalize(v, type) = Normal("int", v.n, none, none)
    BY <1>1, <1>2 DEF Normalize
  <2>3. AsNumber(type, v.n) = Normal("int", v.n, none, none)
    BY <1>2 DEF AsNumber
  <2> HIDE DEF none
  <2> QED
    BY <2>1, <2>2, <2>3 DEF IsDecimal
<1>3. CASE type = "NUMBER"
  <2>1. IsDecimal(v)
    BY <1>1, <1>3 DEF Normalize
  <2>2. Normalize(v, type) = Normal("decimal", v.n, none, none)
    BY <1>1, <1>3 DEF Normalize
  <2>3. AsNumber(type, v.n) = Normal("decimal", v.n, none, none)
    BY <1>3 DEF AsNumber
  <2> HIDE DEF none
  <2> QED
    BY <2>1, <2>2, <2>3 DEF IsDecimal
<1> QED
  BY <1>2, <1>3 DEF NumericTypes

LEMMA VerdictParts ==
  /\ \A status, code, variance : /\ Verdict(status, code, variance).status = status
                                 /\ Verdict(status, code, variance).code = code
  /\ Pending.status = "PENDING"
<1>1. \A status, code, variance : /\ Verdict(status, code, variance).status = status
                                  /\ Verdict(status, code, variance).code = code
  BY DEF Verdict
<1> DEFINE none == ""
<1>2. Pending = Verdict("PENDING", none, {})
  BY DEF Pending
<1> HIDE DEF none
<1> QED
  BY <1>1, <1>2

\* How the value of a side ends the test: never with a verdict on the values.
LEMMA UnreadableParts ==
  /\ Refused # Raised
  /\ \A value, v : Unreadable(value, v).status \in {"ERROR", "RAISED"}
  /\ \A value : Unreadable(value, Raised).status = "RAISED"
  /\ \A value : ~Blank(value) =>
       Unreadable(value, Refused) = Verdict("ERROR", "TYPE_CONVERSION_ERROR", {})
<1> DEFINE none == ""
           null == Verdict("ERROR", "NULL_RESULT", {})
           error == Verdict("ERROR", "TYPE_CONVERSION_ERROR", {})
           raised == Verdict("RAISED", none, {})
<1>1. Refused # Raised
  <2>1. Refused = Normal("refused", 0, none, none) /\ Raised = Normal("raised", 0, none, none)
    BY DEF Refused, Raised
  <2> HIDE DEF none
  <2>2. \A k : Normal(k, 0, none, none).kind = k
    BY DEF Normal
  <2> QED
    BY <2>1, <2>2
<1>2. \A value, v : Unreadable(value, v) = IF v = Raised THEN raised
                                          ELSE IF v = Refused /\ Blank(value) THEN null ELSE error
  BY <1>1 DEF Unreadable
<1>3. null.status = "ERROR" /\ error.status = "ERROR" /\ raised.status = "RAISED"
  <2> HIDE DEF none
  <2> QED
    BY VerdictParts
<1> HIDE DEF null, error, raised
<1>4. \A value : ~Blank(value) => Unreadable(value, Refused) = error
  BY <1>1, <1>2
<1> QED
  BY <1>1, <1>2, <1>3, <1>4 DEF error

\* The status of a comparison all of whose values are as it needs them.
LEMMA StatusOf ==
  ASSUME NEW r, \A v \in MustBeNumeric(r) : Numeric(v)
  PROVE  Compare(r).status = IF r.comparison = "NO_COMPARISON" THEN "PROFILED"
                             ELSE IF Passes(r) THEN "PASS" ELSE "FAIL"
<1> DEFINE none == ""
           variance == Variance(r)
           code == FailCode(r)
<1>1. Compare(r) = IF r.comparison = "NO_COMPARISON" THEN Verdict("PROFILED", none, variance)
                   ELSE IF Passes(r) THEN Verdict("PASS", none, variance)
                                     ELSE Verdict("FAIL", code, variance)
  BY DEF Compare
<1> HIDE DEF none, variance, code
<1> QED
  BY <1>1, VerdictParts

-----------------------------------------------------------------------------
\* Powers of ten, widths and rounding.

\* A set of numbers that is not empty has a least one.
LEMMA LeastOf ==
  ASSUME NEW S \in SUBSET Nat, S # {}
  PROVE  \E x \in S : \A y \in S : x <= y
<1> DEFINE less == {pair \in Nat \X Nat : pair[1] < pair[2]}
<1>1. IsWellFoundedOn(less, Nat)
  <2>1. OpToRel(<, Nat) = less
    BY Zenon DEF OpToRel
  <2> QED
    BY <2>1, NatLessThanWellFounded, Zenon
<1> HIDE DEF less
<1>2. PICK x \in S : \A y \in S : <<y, x>> \notin less
  BY <1>1, WFMin
<1>3. \A m, n \in Nat : m < n => <<m, n>> \in less
  BY DEF less
<1>4. \A y \in S : x \in Nat /\ y \in Nat /\ ~(y < x)
  BY <1>2, <1>3
<1>5. \A y \in S : x <= y
  BY <1>4
<1> QED
  BY <1>5

\* Induction, over a set.
LEMMA Induction ==
  ASSUME NEW S, 0 \in S, \A n \in Nat : n \in S => n + 1 \in S
  PROVE  \A n \in Nat : n \in S
<1> SUFFICES ASSUME Nat \ S # {} PROVE FALSE
  OBVIOUS
<1>1. PICK x \in Nat \ S : \A y \in Nat \ S : x <= y
  BY LeastOf
<1>2. x - 1 \in Nat /\ x - 1 \in S
  BY <1>1
<1>3. (x - 1) + 1 \in S
  BY <1>2
<1> QED
  BY <1>1, <1>3

\* f lists the powers of ten up to the n-th.
Lists(f, n) == f[0] = 1 /\ \A k \in 0..(n - 1) : f[k + 1] = 10 * f[k]

LEMMA ListsExist == \A n \in Nat : \E f \in [0..n -> Nat] : Lists(f, n)
<1> DEFINE S == {n \in Nat : \E f \in [0..n -> Nat] : Lists(f, n)}
<1>1. 0 \in S
  <2>1. [k \in 0..0 |-> 1] \in [0..0 -> Nat] /\ Lists([k \in 0..0 |-> 1], 0)
    BY DEF Lists
  <2> QED
    BY <2>1
<1>2. ASSUME NEW n \in Nat, n \in S PROVE n + 1 \in S
  <2>1. PICK f \in [0..n -> Nat] : Lists(f, n)
    BY <1>2
  <2> DEFINE g == [k \in 0..(n + 1) |-> IF k = n + 1 THEN 10 * f[n] ELSE f[k]]
  <2>2. g \in [0..(n + 1) -> Nat]
    OBVIOUS
  <2>3. ASSUME NEW k \in 0..n PROVE g[k + 1] = 10 * g[k]
    BY <2>1 DEF Lists
  <2>4. g[0] = 1
    BY <2>1 DEF Lists
  <2>5. n + 1 - 1 = n
    OBVIOUS
  <2> HIDE DEF g
  <2>6. Lists(g, n + 1)
    BY <2>3, <2>4, <2>5 DEF Lists
  <2> QED
    BY <2>2, <2>6
<1> HIDE DEF S
<1>3. \A n \in Nat : n \in S
  BY <1>1, <1>2, Induction
<1> QED
  BY <1>3 DEF S

LEMMA ListsAgree ==
  ASSUME NEW m \in Nat, NEW n \in Nat, NEW f, NEW g, Lists(f, m), Lists(g, n)
  PROVE  \A k \in Nat : k <= m /\ k <= n => f[k] = g[k]
<1> DEFINE S == {k \in Nat : k <= m /\ k <= n => f[k] = g[k]}
<1>1. 0 \in S
  BY DEF Lists
<1>2. ASSUME NEW k \in Nat, k \in S PROVE k + 1 \in S
  <2> SUFFICES ASSUME k + 1 <= m, k + 1 <= n PROVE f[k + 1] = g[k + 1]
    OBVIOUS
  <2>1. k \in 0..(m - 1) /\ k \in 0..(n - 1) /\ f[k] = g[k]
    BY <1>2
  <2> QED
    BY <2>1 DEF Lists
<1> HIDE DEF S
<1>3. \A k \in Nat : k \in S
  BY <1>1, <1>2, Induction
<1> QED
  BY <1>3 DEF S

\* Power is defined: it starts at 1 and grows tenfold.
LEMMA PowerStep ==
  Power[0] = 1 /\ \A k \in Nat : Power[k] \in Nat /\ Power[k + 1] = 10 * Power[k]
<1> DEFINE list(n) == CHOOSE f \in [0..n -> Nat] : Lists(f, n)
           F == [n \in Nat |-> list(n)[n]]
<1>1. \A n \in Nat : list(n) \in [0..n -> Nat] /\ Lists(list(n), n)
  BY ListsExist
<1> HIDE DEF list
<1>2. F[0] = 1 /\ \A n \in Nat : F[n] \in Nat
  BY <1>1 DEF Lists
<1>3. ASSUME NEW n \in Nat PROVE F[n + 1] = 10 * F[n]
  <2>1. Lists(list(n), n) /\ Lists(list(n + 1), n + 1) /\ n \in 0..((n + 1) - 1)
    BY <1>1
  <2>2. list(n + 1)[n] = list(n)[n]
    BY <2>1, ListsAgree
  <2> QED
    BY <2>1, <2>2 DEF Lists
<1>4. F = [k \in Nat |-> IF k = 0 THEN 1 ELSE 10 * F[k - 1]]
  <2>1. ASSUME NEW k \in Nat PROVE F[k] = IF k = 0 THEN 1 ELSE 10 * F[k - 1]
    <3>1. CASE k = 0
      BY <1>2, <3>1
    <3>2. CASE k # 0
      <4>1. k - 1 \in Nat /\ (k - 1) + 1 = k
        BY <3>2
      <4> HIDE DEF F
      <4>2. F[(k - 1) + 1] = 10 * F[k - 1]
        BY <1>3, <4>1
      <4> QED
        BY <3>2, <4>1, <4>2
    <3> QED
      BY <3>1, <3>2
  <2> DEFINE G == [k \in Nat |-> IF k = 0 THEN 1 ELSE 10 * F[k - 1]]
  <2>2. \A k \in Nat : F[k] = G[k]
    BY <2>1
  <2>3. DOMAIN F = Nat /\ DOMAIN G = Nat /\ F = [k \in Nat |-> F[k]] /\ G = [k \in Nat |-> G[k]]
    OBVIOUS
  <2> HIDE DEF F, G
  <2>4. F = G
    BY <2>2, <2>3
  <2> QED
    BY <2>4 DEF G
<1> HIDE DEF F
<1>5. Power = [k \in Nat |-> IF k = 0 THEN 1 ELSE 10 * Power[k - 1]]
  BY <1>4 DEF Power
<1>6. \A k \in Nat : Power[k + 1] = 10 * Power[k]
  BY <1>5
<1>7. Power[0] = 1
  BY <1>5
<1> DEFINE S == {k \in Nat : Power[k] \in Nat}
<1>8. 0 \in S /\ \A k \in Nat : k \in S => k + 1 \in S
  BY <1>6, <1>7
<1> HIDE DEF S
<1>9. \A k \in Nat : k \in S
  BY <1>8, Induction
<1> QED
  BY <1>6, <1>7, <1>9 DEF S
LEMMA Powers ==
  /\ \A k \in Nat : Power[k] \in Nat /\ Power[k] >= k + 1
  /\ \A j, k \in Nat : Power[j] * Power[k] = Power[j + k]
  /\ \A j, k \in Nat : j <= k => Power[j] <= Power[k]
<1> DEFINE S == {k \in Nat : Power[k] >= k + 1}
<1>1. \A k \in Nat : k \in S
  <2>1. 0 \in S /\ \A k \in Nat : k \in S => k + 1 \in S
    BY PowerStep
  <2> HIDE DEF S
  <2> QED
    BY <2>1, Induction
<1>2. \A k \in Nat : Power[k] \in Nat /\ Power[k] >= k + 1
  BY <1>1, PowerStep DEF S
<1>3. ASSUME NEW k \in Nat PROVE \A j \in Nat : Power[j] * Power[k] = Power[j + k]
  <2> DEFINE R == {j \in Nat : Power[j] * Power[k] = Power[j + k]}
  <2>1. 0 \in R
    BY PowerStep
  <2>2. ASSUME NEW j \in Nat, j \in R PROVE j + 1 \in R
    <3>1. Power[j + 1] = 10 * Power[j] /\ Power[(j + k) + 1] = 10 * Power[j + k]
      BY PowerStep
    <3>2. (10 * Power[j]) * Power[k] = 10 * (Power[j] * Power[k])
      BY PowerStep
    <3>3. (j + 1) + k = (j + k) + 1
      OBVIOUS
    <3> QED
      BY <2>2, <3>1, <3>2, <3>3
  <2> HIDE DEF R
  <2>3. \A j \in Nat : j \in R
    BY <2>1, <2>2, Induction
  <2> QED
    BY <2>3 DEF R
<1>4. ASSUME NEW j \in Nat, NEW k \in Nat, j <= k PROVE Power[j] <= Power[k]
  <2>1. k - j \in Nat /\ (k - j) + j = k
    BY <1>4
  <2> DEFINE i == k - j
  <2> HIDE DEF i
  <2>2. i \in Nat /\ i + j = k
    BY <2>1 DEF i
  <2>3. Power[i] * Power[j] = Power[k]
    BY <1>3, <2>2
  <2>4. Power[i] >= 1 /\ Power[i] \in Nat /\ Power[j] \in Nat
    BY <1>2, <2>2
  <2>5. Power[i] * Power[j] >= 1 * Power[j]
    BY <2>4
  <2> QED
    BY <2>3, <2>4, <2>5
<1> QED
  BY <1>2, <1>3, <1>4

\* Every number has a width.
LEMMA WidthOf ==
  ASSUME NEW n \in Nat
  PROVE  /\ Width(n) \in Nat /\ Width(n) >= 1 /\ n < Power[Width(n)]
         /\ Width(n) = 1 \/ n >= Power[Width(n) - 1]
<1> DEFINE longer == {w \in Nat : w >= 1 /\ n < Power[w]}
           IsWidth(w) == n < Power[w] /\ (w = 1 \/ n >= Power[w - 1])
<1>1. n + 1 \in longer
  <2>1. Power[n + 1] \in Nat /\ Power[n + 1] >= (n + 1) + 1
    BY Powers
  <2> QED
    BY <2>1
<1>2. PICK w \in longer : \A y \in longer : w <= y
  <2> HIDE DEF longer
  <2>1. longer # {}
    BY <1>1
  <2>2. longer \in SUBSET Nat
    BY DEF longer
  <2> QED
    BY <2>1, <2>2, LeastOf
<1>3. w \in 1..(n + 1)
  BY <1>1, <1>2
<1>4. w = 1 \/ n >= Power[w - 1]
  <2>1. CASE w # 1
    <3>1. w - 1 \in Nat /\ w - 1 >= 1 /\ ~(w <= w - 1)
      BY <1>3, <2>1
    <3>2. w - 1 \notin longer
      BY <1>2, <3>1
    <3>3. Power[w - 1] \in Nat
      BY <3>1, PowerStep
    <3> QED
      BY <3>1, <3>2, <3>3
  <2> QED
    BY <2>1
<1>5. \E v \in 1..(n + 1) : IsWidth(v)
  BY <1>2, <1>3, <1>4
<1>6. Width(n) = CHOOSE v \in 1..(n + 1) : IsWidth(v)
  BY DEF Width
<1> HIDE DEF IsWidth
<1>7. Width(n) \in 1..(n + 1) /\ IsWidth(Width(n))
  BY <1>5, <1>6
<1> QED
  BY <1>7 DEF IsWidth

LEMMA WidthAtLeast ==
  ASSUME NEW n \in Nat, NEW k \in Nat, n >= Power[k]
  PROVE  Width(n) >= k + 1
<1> DEFINE w == Width(n)
<1>1. w \in Nat /\ n < Power[w]
  BY WidthOf
<1> HIDE DEF w
<1>2. ASSUME w <= k PROVE FALSE
  <2>1. Power[w] <= Power[k] /\ Power[w] \in Nat /\ Power[k] \in Nat
    BY <1>1, <1>2, Powers
  <2> QED
    BY <1>1, <2>1
<1> QED
  BY <1>1, <1>2 DEF w

LEMMA Magnitude == \A n \in Int : Abs(n) \in Nat /\ Abs(-n) = Abs(n) /\ (Abs(n) = 0 <=> n = 0)
  BY DEF Abs

LEMMA HalfEvenOf ==
  ASSUME NEW a \in Nat, NEW b \in Nat, b >= 1
  PROVE  HalfEven(a, b) \in Nat /\ (a >= b => HalfEven(a, b) >= 1)
<1> DEFINE q == a \div b
           r == a % b
<1>1. q \in Int /\ r \in 0..(b - 1) /\ a = b * q + r
  OBVIOUS
<1>2. q \in Nat /\ (a >= b => q >= 1)
  <2> HIDE DEF q, r
  <2>1. ASSUME q < 0 PROVE FALSE
    <3>1. q <= -1
      BY <1>1, <2>1
    <3>2. b * q <= -b
      BY <1>1, <3>1
    <3> QED
      BY <1>1, <3>2
  <2>2. ASSUME q = 0 PROVE a < b
    BY <1>1, <2>2
  <2> QED
    BY <1>1, <2>1, <2>2
<1>3. HalfEven(a, b) = q \/ HalfEven(a, b) = q + 1
  BY DEF HalfEven
<1> HIDE DEF q, r
<1> QED
  BY <1>2, <1>3

LEMMA Scaled ==
  ASSUME NEW a \in Int, NEW b \in Int, NEW u \in Nat, a <= b
  PROVE  a * u <= b * u /\ u * a <= u * b
  OBVIOUS

\* Half to even, in units of b, keeps what lies between two multiples between them
\* and is at most half a unit short.
LEMMA HalfEvenKeepsOrder ==
  ASSUME NEW a \in Nat, NEW b \in Nat, b >= 1
  PROVE  /\ \A c \in Nat : a >= c * b => HalfEven(a, b) >= c
         /\ \A c \in Nat : a <= c * b => HalfEven(a, b) <= c
         /\ 2 * (a - HalfEven(a, b) * b) <= b
<1> DEFINE q == a \div b
           r == a % b
           h == HalfEven(a, b)
<1>1. q \in Int /\ r \in 0..(b - 1) /\ a = q * b + r
  OBVIOUS
<1>2. h = IF 2 * r < b \/ (2 * r = b /\ q % 2 = 0) THEN q ELSE q + 1
  BY DEF HalfEven
<1> HIDE DEF q, r, h
<1>3. (h = q /\ 2 * r <= b) \/ (h = q + 1 /\ 2 * r >= b)
  BY <1>1, <1>2
<1>4. ASSUME NEW c \in Nat, a >= c * b PROVE h >= c
  <2>1. ASSUME c >= q + 1 PROVE FALSE
    <3>1. (q + 1) * b <= c * b
      BY <1>1, <2>1, Scaled
    <3>2. (q + 1) * b = q * b + b
      BY <1>1
    <3> QED
      BY <1>1, <1>4, <3>1, <3>2
  <2> QED
    BY <1>1, <1>3, <2>1
<1>5. ASSUME NEW c \in Nat, a <= c * b PROVE h <= c
  <2>1. ASSUME q >= c + 1 PROVE FALSE
    <3>1. (c + 1) * b <= q * b
      BY <1>1, <2>1, Scaled
    <3>2. (c + 1) * b = c * b + b
      OBVIOUS
    <3> QED
      BY <1>1, <1>5, <3>1, <3>2
  <2>2. ASSUME q = c PROVE h = q
    <3>1. r = 0
      BY <1>1, <1>5, <2>2
    <3> QED
      BY <1>3, <3>1
  <2> QED
    BY <1>1, <1>3, <2>1, <2>2
<1>6. 2 * (a - h * b) <= b
  <2>1. CASE h = q /\ 2 * r <= b
    <3>1. a - h * b = r
      BY <1>1, <2>1
    <3> QED
      BY <2>1, <3>1
  <2>2. CASE h = q + 1
    <3>1. h * b = q * b + b
      BY <1>1, <2>2
    <3>2. a - h * b <= 0
      BY <1>1, <2>2, <3>1
    <3>3. h * b \in Int
      BY <1>1, <2>2
    <3> QED
      BY <3>2, <3>3
  <2> QED
    BY <1>3, <2>1, <2>2
<1> QED
  BY <1>4, <1>5, <1>6 DEF h


\* Numbers with more than Digits digits are rounded to a multiple of their last one.
LEMMA RoundedInUnits ==
  ASSUME NEW n \in Nat
  PROVE  /\ Width(n) <= Digits => Rounded(n) = n
         /\ Width(n) > Digits =>
              \E e \in Nat : /\ e = Width(n) - Digits /\ n >= Power[Digits - 1 + e]
                             /\ Rounded(n) = HalfEven(n, Power[e]) * Power[e]
<1> DEFINE w == Width(n)
           e == w - Digits
           m == HalfEven(n, Power[e]) * Power[e]
<1>1. Abs(n) = n /\ ~(n < 0)
  BY DEF Abs
<1>2. Rounded(n) = IF w <= Digits THEN n ELSE IF n < 0 THEN -m ELSE m
  BY <1>1 DEF Rounded
<1>3. w \in Nat /\ (w = 1 \/ n >= Power[w - 1]) /\ Digits \in Nat /\ Digits >= 1
  BY WidthOf, DigitsAssumption
<1> HIDE DEF m, w
<1>4. /\ w <= Digits => Rounded(n) = n
      /\ w > Digits => Rounded(n) = m
  BY <1>1, <1>2, <1>3
<1>5. ASSUME w > Digits PROVE e \in Nat /\ n >= Power[Digits - 1 + e]
  <2>1. Digits - 1 + e = w - 1 /\ w # 1 /\ e \in Nat
    BY <1>3, <1>5
  <2> QED
    BY <1>3, <2>1
<1> QED
  BY <1>4, <1>5 DEF m, w

LEMMA RoundedNotNegative == \A n \in Nat : Rounded(n) \in Nat /\ (Rounded(n) = 0 <=> n = 0)
<1> SUFFICES ASSUME NEW n \in Nat PROVE Rounded(n) \in Nat /\ (Rounded(n) = 0 <=> n = 0)
  OBVIOUS
<1>1. Width(n) \in Nat /\ Digits \in Nat /\ Digits >= 1
  BY WidthOf, DigitsAssumption
<1>2. CASE Width(n) <= Digits
  BY <1>2, RoundedInUnits
<1>3. CASE Width(n) > Digits
  <2>1. PICK e \in Nat : /\ n >= Power[Digits - 1 + e]
                         /\ Rounded(n) = HalfEven(n, Power[e]) * Power[e]
    BY <1>3, RoundedInUnits
  <2> DEFINE unit == Power[e]
             h == HalfEven(n, unit)
  <2>2. unit \in Nat /\ unit >= 1 /\ n >= unit
    <3>1. Digits - 1 + e \in Nat /\ e <= Digits - 1 + e
      BY <1>1
    <3> DEFINE g == Digits - 1 + e
    <3>2. n >= Power[g]
      BY <2>1
    <3> HIDE DEF g
    <3>3. unit \in Nat /\ unit >= e + 1 /\ Power[g] \in Nat /\ unit <= Power[g]
      BY <3>1, Powers DEF g
    <3> QED
      BY <3>2, <3>3
  <2>3. h \in Nat /\ h >= 1
    <3> HIDE DEF unit
    <3> QED
      BY <2>2, HalfEvenOf
  <2> HIDE DEF unit, h
  <2>4. h * unit \in Nat /\ h * unit >= 1
    BY <2>2, <2>3
  <2> QED
    BY <2>1, <2>2, <2>4 DEF unit, h
<1> QED
  BY <1>1, <1>2, <1>3

\* Rounding is symmetric about 0.
LEMMA RoundedOf ==
  ASSUME NEW n \in Int
  PROVE  /\ Rounded(n) \in Int /\ Abs(Rounded(-n)) = Abs(Rounded(n))
         /\ Rounded(n) = 0 <=> n = 0
         /\ Abs(Rounded(n)) = Rounded(Abs(n))
<1> DEFINE w == Width(Abs(n))
           unit == Power[w - Digits]
           m == HalfEven(Abs(n), unit) * unit
<1>1. /\ Rounded(n) = IF w <= Digits THEN n ELSE IF n < 0 THEN -m ELSE m
      /\ Rounded(-n) = IF w <= Digits THEN -n ELSE IF -n < 0 THEN -m ELSE m
      /\ Rounded(Abs(n)) = IF w <= Digits THEN Abs(n) ELSE IF Abs(n) < 0 THEN -m ELSE m
  <2>1. Abs(-n) = Abs(n) /\ Abs(Abs(n)) = Abs(n)
    BY DEF Abs
  <2> QED
    BY <2>1 DEF Rounded
<1>2. Rounded(Abs(n)) \in Nat /\ (Rounded(Abs(n)) = 0 <=> n = 0)
  BY Magnitude, RoundedNotNegative
<1> HIDE DEF w, m
<1>3. \/ Rounded(n) = n /\ Rounded(-n) = -n /\ Rounded(Abs(n)) = Abs(n)
      \/ n < 0 /\ Rounded(n) = -m /\ Rounded(-n) = m /\ Rounded(Abs(n)) = m
      \/ n > 0 /\ Rounded(n) = m /\ Rounded(-n) = -m /\ Rounded(Abs(n)) = m
      \/ n = 0 /\ Rounded(n) = m /\ Rounded(-n) = m /\ Rounded(Abs(n)) = m
  BY <1>1 DEF Abs
<1> QED
  BY <1>2, <1>3 DEF Abs

\* What has no more than Digits digits, and is large, is a multiple of a power of ten.
LEMMA FitsInUnits ==
  ASSUME NEW n \in Nat, Fits(n), NEW e \in Nat, n >= Power[Digits - 1 + e]
  PROVE  \E c \in Nat : n = c * Power[e]
<1>1. Digits \in Nat /\ Digits >= 1 /\ Width(n) \in Nat
  BY DigitsAssumption, WidthOf
<1>2. Digits - 1 + e \in Nat
  BY <1>1
<1>3. Width(n) >= Digits + e
  <2>1. Width(n) >= (Digits - 1 + e) + 1
    BY <1>2, WidthAtLeast
  <2> QED
    BY <1>1, <2>1
<1>4. CASE e = 0
  BY <1>4, PowerStep
<1>5. CASE e # 0
  <2>1. PICK f \in Nat : f = Width(n) - Digits /\ n = HalfEven(n, Power[f]) * Power[f]
    BY <1>1, <1>3, <1>5, RoundedInUnits DEF Fits
  <2> DEFINE g == f - e
             h == HalfEven(n, Power[f])
  <2>2. g \in Nat /\ g + e = f
    BY <1>1, <1>3, <2>1
  <2>3. h \in Nat
    <3> DEFINE unit == Power[f]
    <3>1. unit \in Nat /\ unit >= f + 1
      BY Powers
    <3> HIDE DEF unit
    <3>2. HalfEven(n, unit) \in Nat
      BY <3>1, HalfEvenOf
    <3> QED
      BY <3>2 DEF unit
  <2> HIDE DEF g, h
  <2>4. Power[g] \in Nat /\ Power[e] \in Nat /\ Power[g] * Power[e] = Power[f]
    BY <2>2, Powers
  <2>5. h * (Power[g] * Power[e]) = (h * Power[g]) * Power[e] /\ h * Power[g] \in Nat
    BY <2>3, <2>4
  <2> QED
    BY <2>1, <2>4, <2>5 DEF h
<1> QED
  BY <1>4, <1>5

-----------------------------------------------------------------------------
\* Where a verdict comes from.

AnsweredInv ==
  /\ test \in Tests /\ DOMAIN raw \subseteq Uses(test.scope)
  /\ \A s \in DOMAIN raw : raw[s] \in Scalars

\* What is normalized is what was answered, read as the declared type.
NormalizedInv ==
  /\ DOMAIN normalized \subseteq DOMAIN raw
  /\ \A s \in DOMAIN normalized :
       normalized[s] = Normalize(raw[s], test.type) /\ normalized[s] \notin {Refused, Raised}

RefusalOf(s) == Unreadable(raw[s], Normalize(raw[s], test.type))

\* A verdict is that some side cannot be read or the comparison of all of them.
OutcomeInv ==
  \/ outcome = Pending
  \/ /\ DOMAIN raw = Uses(test.scope)
     /\ \/ \E s \in DOMAIN raw :
             Normalize(raw[s], test.type) \in {Refused, Raised} /\ outcome = RefusalOf(s)
        \/ DOMAIN normalized = Uses(test.scope) /\ outcome = Compare(Request)

EvalInv == AnsweredInv /\ NormalizedInv /\ OutcomeInv

LEMMA NextSide ==
  ASSUME NEW values
  PROVE  /\ NextOf(values) = {} => Uses(test.scope) \subseteq DOMAIN values
         /\ NextOf(values) \subseteq Uses(test.scope) \ DOMAIN values
<1>1. Uses(test.scope) \subseteq {"source", "target"}
  BY DEF Uses
<1> QED
  BY <1>1 DEF NextOf

LEMMA EvalInvInit == Init => EvalInv
<1> SUFFICES ASSUME Init PROVE EvalInv
  OBVIOUS
<1>1. DOMAIN raw = {} /\ DOMAIN normalized = {}
  BY DEF Init
<1> QED
  BY <1>1 DEF Init, EvalInv, AnsweredInv, NormalizedInv, OutcomeInv

LEMMA AnswerStep == ASSUME EvalInv, Answer PROVE EvalInv'
<1>1. outcome' = Pending /\ UNCHANGED <<test, normalized>>
  BY DEF Answer
<1>2. PICK s \in NextOf(raw), v \in Scalars : raw' = Add(raw, s, v)
  BY DEF Answer
<1>3. s \in Uses(test.scope) /\ s \notin DOMAIN raw
  BY <1>2, NextSide
<1>4. /\ DOMAIN raw' = DOMAIN raw \cup {s} /\ raw'[s] = v
      /\ \A x \in DOMAIN raw : raw'[x] = raw[x]
  BY <1>2, <1>3, Zenon DEF Add
<1>5. AnsweredInv'
  BY <1>1, <1>3, <1>4 DEF EvalInv, AnsweredInv
<1>6. NormalizedInv'
  BY <1>1, <1>4 DEF EvalInv, NormalizedInv
<1>7. OutcomeInv'
  BY <1>1 DEF OutcomeInv, Pending
<1> QED
  BY <1>5, <1>6, <1>7 DEF EvalInv

LEMMA NormalizeStep == ASSUME EvalInv, NormalizeNext PROVE EvalInv'
<1>1. outcome = Pending /\ NextOf(raw) = {} /\ UNCHANGED <<test, raw>>
  BY DEF NormalizeNext
<1>2. PICK s \in NextOf(normalized) :
        \/ /\ Normalize(raw[s], test.type) \in {Refused, Raised}
           /\ outcome' = RefusalOf(s) /\ UNCHANGED normalized
        \/ /\ Normalize(raw[s], test.type) \notin {Refused, Raised}
           /\ normalized' = Add(normalized, s, Normalize(raw[s], test.type))
           /\ UNCHANGED outcome
  BY DEF NormalizeNext, RefusalOf
<1>3. DOMAIN raw = Uses(test.scope)
  BY <1>1, NextSide DEF EvalInv, AnsweredInv
<1>4. s \in Uses(test.scope) \ DOMAIN normalized
  BY <1>2, NextSide
<1>5. AnsweredInv'
  BY <1>1 DEF EvalInv, AnsweredInv
<1>6. CASE Normalize(raw[s], test.type) \in {Refused, Raised}
  <2>1. outcome' = RefusalOf(s) /\ UNCHANGED <<test, raw, normalized>>
    BY <1>1, <1>2, <1>6
  <2>2. NormalizedInv'
    BY <2>1 DEF EvalInv, NormalizedInv
  <2>3. RefusalOf(s)' = RefusalOf(s)
    BY <2>1 DEF RefusalOf
  <2>4. OutcomeInv'
    BY <1>3, <1>4, <1>6, <2>1, <2>3 DEF OutcomeInv
  <2> QED
    BY <1>5, <2>2, <2>4 DEF EvalInv
<1>7. CASE Normalize(raw[s], test.type) \notin {Refused, Raised}
  <2> DEFINE v == Normalize(raw[s], test.type)
  <2>1. normalized' = Add(normalized, s, v) /\ outcome' = Pending
    BY <1>1, <1>2, <1>7
  <2>2. /\ DOMAIN normalized' = DOMAIN normalized \cup {s} /\ normalized'[s] = v
        /\ \A x \in DOMAIN normalized : normalized'[x] = normalized[x]
    <3>1. s \notin DOMAIN normalized
      BY <1>4
    <3> HIDE DEF v
    <3> QED
      BY <2>1, <3>1, Zenon DEF Add
  <2>3. NormalizedInv'
    BY <1>1, <1>3, <1>4, <1>7, <2>2 DEF EvalInv, NormalizedInv
  <2>4. OutcomeInv'
    BY <2>1 DEF OutcomeInv, Pending
  <2> QED
    BY <1>5, <2>3, <2>4 DEF EvalInv
<1> QED
  BY <1>6, <1>7

LEMMA JudgeStep == ASSUME EvalInv, Judge PROVE EvalInv'
<1>1. /\ NextOf(raw) = {} /\ NextOf(normalized) = {}
      /\ outcome' = Compare(Request) /\ UNCHANGED <<test, raw, normalized>>
  BY DEF Judge
<1>2. DOMAIN raw = Uses(test.scope) /\ DOMAIN normalized = Uses(test.scope)
  BY <1>1, NextSide DEF EvalInv, AnsweredInv, NormalizedInv
<1>3. Request' = Request
  BY <1>1 DEF Request, ValueOf
<1>4. AnsweredInv' /\ NormalizedInv'
  BY <1>1 DEF EvalInv, AnsweredInv, NormalizedInv
<1>5. OutcomeInv'
  BY <1>1, <1>2, <1>3 DEF OutcomeInv
<1> QED
  BY <1>4, <1>5 DEF EvalInv

LEMMA EvalInvStep == EvalInv /\ [Next]_vars => EvalInv'
<1> SUFFICES ASSUME EvalInv, [Next]_vars PROVE EvalInv'
  OBVIOUS
<1>1. CASE UNCHANGED vars
  BY <1>1 DEF vars, EvalInv, AnsweredInv, NormalizedInv, OutcomeInv, RefusalOf, Request, ValueOf, Pending
<1>2. CASE Next
  BY <1>2, AnswerStep, NormalizeStep, JudgeStep DEF Next
<1> QED
  BY <1>1, <1>2

LEMMA EvalInvAlways == Spec => []EvalInv
  BY EvalInvInit, EvalInvStep, PTL DEF Spec

-----------------------------------------------------------------------------
\* One value in two Python types.

LEMMA NumberOrRefused ==
  ASSUME NEW v, NEW type \in NumericTypes, ~Blank(v), IsDecimal(v)
  PROVE  Normalize(v, type) = IF type = "NUMBER" \/ Whole(v.n) THEN AsNumber(type, v.n) ELSE Refused
<1>1. CASE type = "INTEGER" /\ Whole(v.n)
  <2>1. Normalize(v, type) = AsNumber(type, v.n)
    BY <1>1 DEF Normalize, AsNumber
  <2> QED
    BY <1>1, <2>1
<1>2. CASE type = "INTEGER" /\ ~Whole(v.n)
  <2>1. Normalize(v, type) = Refused
    BY <1>2 DEF Normalize
  <2> QED
    BY <1>2, <2>1
<1>3. CASE type = "NUMBER"
  <2>1. Normalize(v, type) = AsNumber(type, v.n)
    BY <1>3 DEF Normalize, AsNumber
  <2> QED
    BY <1>3, <2>1
<1> QED
  BY <1>1, <1>2, <1>3 DEF NumericTypes

\* Under every type but TEXT and BOOLEAN a value is read as the same, or refused, or
\* raises, whatever the type it comes in, unless that is bool on one side alone.
LEMMA SameValueSameNormal ==
  ASSUME NEW a \in Scalars, NEW b \in Scalars, NEW type \in NumericTypes \cup {"DATETIME"},
         OneValue(a, b), (a.form = "bool") <=> (b.form = "bool")
  PROVE  Normalize(a, type) = Normalize(b, type)
<1>1. ~Blank(a) /\ ~Blank(b)
  BY DEF Blank, OneValue
<1>2. CASE type \in NumericTypes
  <2>1. ASSUME NEW v \in Scalars PROVE IsDecimal(v) <=> v.reads = "number" /\ v.form # "bool"
    BY ScalarsAssumption DEF ScalarType, IsDecimal
  <2>2. CASE IsDecimal(a)
    <3>1. a.reads = "number" /\ a.n = b.n /\ IsDecimal(b)
      BY <2>1, <2>2 DEF OneValue
    <3> QED
      BY <1>1, <1>2, <2>2, <3>1, NumberOrRefused
  <2>3. CASE ~IsDecimal(a)
    <3>1. ~IsDecimal(b)
      BY <2>1, <2>3 DEF OneValue
    <3>2. \A v : ~Blank(v) /\ ~IsDecimal(v) => Normalize(v, type) = Refused
      BY <1>2 DEF Normalize, NumericTypes
    <3> QED
      BY <1>1, <2>3, <3>1, <3>2
  <2> QED
    BY <2>2, <2>3
<1>3. CASE type = "DATETIME"
  <2>1. \A v : ~Blank(v) => Normalize(v, type) = AsMoment(v)
    BY <1>3 DEF Normalize
  <2> DEFINE none == ""
             named(v) == Normal("moment", Instant(v), none, none)
  <2>2. \A v : AsMoment(v) = IF v.reads # "moment" THEN Refused
                             ELSE IF Instant(v) \notin Calendar THEN Raised ELSE named(v)
    BY DEF AsMoment
  <2>3. Instant(a) = Instant(b) => named(a) = named(b)
    OBVIOUS
  <2> HIDE DEF named
  <2>4. a.reads = b.reads /\ (a.reads = "moment" => Instant(a) = Instant(b))
    BY DEF OneValue
  <2> QED
    BY <1>1, <2>1, <2>2, <2>3, <2>4
<1> QED
  BY <1>2, <1>3

\* As a BOOLEAN a number has one reading, where it is not refused.
LEMMA NumberAsBoolean ==
  ASSUME NEW v \in Scalars, v.reads = "number"
  PROVE  AsBoolean(v) \in {Refused, Truth(Truncated(v.n) = 1)}
<1>1. v \in ScalarType
  BY ScalarsAssumption
<1>2. Truncated(10) = 1 /\ Truncated(0) = 0
  BY DEF Truncated
<1>3. CASE v.form = "bool"
  <2>1. AsBoolean(v) = Truth(v.n # 0) /\ v.n \in {0, 10}
    BY <1>3, ScalarsAssumption DEF AsBoolean
  <2> HIDE DEF Truth
  <2>2. (v.n # 0) = (Truncated(v.n) = 1)
    BY <1>2, <2>1
  <2> QED
    BY <2>1, <2>2
<1>4. CASE v.form = "str"
  <2>1. /\ v.folded \in TrueWords => v.n = 10
        /\ v.folded \in FalseWords => v.n = 0
    BY <1>4, ScalarsAssumption
  <2>2. AsBoolean(v) = IF v.folded \in TrueWords THEN Truth(TRUE)
                       ELSE IF v.folded \in FalseWords THEN Truth(FALSE) ELSE Refused
    <3>1. v.folded \in TrueWords => v.folded \notin FalseWords
      BY DEF TrueWords, FalseWords
    <3> HIDE DEF Truth
    <3>2. CASE v.folded \in TrueWords
      BY <1>4, <3>1, <3>2 DEF AsBoolean
    <3>3. CASE v.folded \in FalseWords
      BY <1>4, <3>1, <3>3 DEF AsBoolean
    <3>4. CASE v.folded \notin TrueWords /\ v.folded \notin FalseWords
      BY <1>4, <3>4 DEF AsBoolean
    <3> QED
      BY <3>2, <3>3, <3>4
  <2>3. CASE v.folded \in TrueWords
    <3>1. (Truncated(v.n) = 1) = TRUE
      BY <1>2, <2>1, <2>3
    <3> QED
      BY <2>2, <2>3, <3>1
  <2>4. CASE v.folded \notin TrueWords /\ v.folded \in FalseWords
    <3>1. (Truncated(v.n) = 1) = FALSE
      BY <1>2, <2>1, <2>4
    <3> QED
      BY <2>2, <2>4, <3>1
  <2> QED
    BY <2>2, <2>3, <2>4
<1>5. CASE v.form \notin {"bool", "str"}
  <2> DEFINE counted == v.form \in {"int", "decimal"} \/ (v.form = "float" /\ Whole(v.n))
             number == IF Truncated(v.n) \in {0, 1} THEN Truth(Truncated(v.n) = 1) ELSE Refused
  <2>1. AsBoolean(v) = IF counted THEN number ELSE Refused
    BY <1>5 DEF AsBoolean
  <2> QED
    BY <2>1
<1> QED
  BY <1>3, <1>4, <1>5

\* A test that finds the same value on both sides passes every two-sided comparison.
LEMMA SameValuePasses ==
  ASSUME NEW r, r.scope = "SOURCE_TARGET", r.comparison \in TwoSided, r.source = r.target,
         r.comparison # "EQUAL" => /\ Numeric(r.source) /\ r.source.n \in Int
                                   /\ r.absTol \in Nat /\ r.pctTol \in Nat
  PROVE  Compare(r).status = "PASS"
<1>1. \A v \in MustBeNumeric(r) : Numeric(v)
  BY DEF MustBeNumeric, TwoSided
<1>2. Rounded(0) = 0 /\ Abs(0) = 0
  BY RoundedOf, Magnitude
<1>3. Passes(r)
  <2>1. CASE r.comparison = "EQUAL"
    BY <2>1 DEF Passes
  <2>2. CASE r.comparison # "EQUAL"
    <3>1. r.source.n \in Int /\ r.target.n - r.source.n = 0 /\ r.absTol \in Nat /\ r.pctTol \in Nat
      BY <2>2
    <3>2. AbsoluteHolds(r)
      BY <1>2, <3>1 DEF AbsoluteHolds
    <3>3. PercentageHolds(r)
      <4>1. CASE r.source.n = 0
        BY <3>1, <4>1 DEF PercentageHolds
      <4>2. CASE r.source.n # 0
        <5>1. \A b : Quotient(0, b) = [m |-> 0, k |-> 0]
          BY DEF Quotient
        <5>2. 0 * 1000 <= r.pctTol * Power[0]
          <6>1. Power[0] = 1
            BY PowerStep
          <6> QED
            BY <3>1, <6>1
        <5>3. PercentageWithin(r.source.n, 0, r.pctTol)
          <6> DEFINE q == Quotient(Abs(0), Rounded(Abs(r.source.n)))
          <6>1. q.m = 0 /\ q.k = 0
            BY <1>2, <5>1
          <6>2. PercentageWithin(r.source.n, 0, r.pctTol) <=> q.m * 1000 <= r.pctTol * Power[q.k]
            BY DEF PercentageWithin
          <6> HIDE DEF q
          <6> QED
            BY <5>2, <6>1, <6>2
        <5> QED
          BY <1>2, <3>1, <4>2, <5>3 DEF PercentageHolds
      <4> QED
        BY <4>1, <4>2
    <3> QED
      BY <2>2, <3>2, <3>3 DEF Passes, TwoSided
  <2> QED
    BY <2>1, <2>2
<1>4. r.comparison # "NO_COMPARISON"
  BY DEF TwoSided
<1> QED
  BY <1>1, <1>3, <1>4, StatusOf

\* A two-sided test whose sides were read as the same passes, and one that was judged
\* had both sides read.
LEMMA ReadAlikePasses ==
  ASSUME EvalInv, DOMAIN raw = Side, test.comparison \in TwoSided, outcome # Pending,
         Normalize(raw["source"], test.type) = Normalize(raw["target"], test.type),
         Normalize(raw["source"], test.type) \notin {Refused, Raised}
  PROVE  outcome.status = "PASS"
<1> DEFINE a == raw["source"]
           b == raw["target"]
           type == test.type
<1>1. a \in Scalars /\ b \in Scalars
  BY DEF EvalInv, AnsweredInv, Side
<1>2. /\ test \in Tests /\ WellFormed(test) /\ test.absTol \in Nat /\ test.pctTol \in Nat
      /\ test.scope = "SOURCE_TARGET"
  BY TestsAssumption DEF EvalInv, AnsweredInv, WellFormed
<1>3. DOMAIN normalized = Side /\ outcome = Compare(Request)
  BY DEF EvalInv, OutcomeInv, Side
<1>4. /\ Request.comparison = test.comparison /\ Request.scope = test.scope
      /\ Request.absTol = test.absTol /\ Request.pctTol = test.pctTol
      /\ Request.source = Normalize(a, type) /\ Request.target = Normalize(b, type)
  BY <1>3 DEF Request, ValueOf, EvalInv, NormalizedInv, Side
<1>5. ASSUME test.comparison # "EQUAL" PROVE Numeric(Request.source) /\ Request.source.n \in Int
  <2>1. type \in NumericTypes
    BY <1>2, <1>5 DEF WellFormed, SupportedTypes, NumericOnly, TwoSided
  <2>2. Normalize(a, type) = AsNumber(type, a.n)
    BY <2>1, ReadAsNumber
  <2>3. a.n \in Int
    BY <1>1, ScalarsAssumption DEF ScalarType
  <2> QED
    BY <1>4, <2>2, <2>3, Numbers
<1>6. Compare(Request).status = "PASS"
  BY <1>2, <1>4, <1>5, SameValuePasses
<1> QED
  BY <1>3, <1>6

\* A test one of whose sides cannot be read ends with what that side was.
LEMMA UnreadableEnds ==
  ASSUME EvalInv, DOMAIN raw = Side, outcome # Pending, NEW s \in Side,
         Normalize(raw[s], test.type) \in {Refused, Raised}
  PROVE  \E x \in Side : /\ Normalize(raw[x], test.type) \in {Refused, Raised}
                         /\ outcome = Unreadable(raw[x], Normalize(raw[x], test.type))
<1>1. DOMAIN normalized # Uses(test.scope)
  BY DEF EvalInv, AnsweredInv, NormalizedInv, OutcomeInv
<1> QED
  BY <1>1 DEF EvalInv, OutcomeInv, RefusalOf

\* Two drivers that hand over one and the same value in different Python types never
\* make a two-sided test of any type but TEXT fail: it passes, or neither can be read,
\* unless the type is BOOLEAN, or numeric and one of the two a bool, which is refused
\* (normalization.py:63-134).
THEOREM EvaluationSameValueReconciles == Spec => []SameValueReconciles
<1>1. EvalInv => SameValueReconciles
  <2> DEFINE a == raw["source"]
             b == raw["target"]
             type == test.type
             refused == outcome = Verdict("ERROR", "TYPE_CONVERSION_ERROR", {})
             Both(v) == Normalize(a, type) = v /\ Normalize(b, type) = v
             mixed == (a.form = "bool") # (b.form = "bool")
  <2> SUFFICES ASSUME EvalInv, DOMAIN raw = Side, test.comparison \in TwoSided, outcome # Pending,
                      type # "TEXT", OneValue(a, b)
               PROVE  /\ outcome.status # "FAIL"
                      /\ type # "BOOLEAN" /\ ~mixed =>
                           \/ outcome.status = "PASS"
                           \/ refused /\ Both(Refused)
                           \/ outcome.status = "RAISED" /\ Both(Raised)
                      /\ type \in NumericTypes /\ mixed => refused
    BY DEF SameValueReconciles
  <2>1. a \in Scalars /\ b \in Scalars /\ ~Blank(a) /\ ~Blank(b)
    BY DEF EvalInv, AnsweredInv, Side, Blank, OneValue
  <2>2. type \in NumericTypes \cup {"BOOLEAN", "DATETIME"}
    BY TestsAssumption DEF EvalInv, AnsweredInv, WellFormed, TwoSided, SupportedTypes, NumericOnly,
                           NumericTypes, ResultTypes
  <2>3. ASSUME NEW s \in Side, Normalize(raw[s], type) \in {Refused, Raised}
        PROVE  outcome.status \in {"ERROR", "RAISED"}
    BY <2>3, UnreadableEnds, UnreadableParts
  <2>4. ASSUME Normalize(a, type) = Normalize(b, type)
        PROVE  \/ outcome.status = "PASS"
               \/ refused /\ Both(Refused)
               \/ outcome.status = "RAISED" /\ Both(Raised)
    <3>1. CASE Normalize(a, type) \notin {Refused, Raised}
      BY <2>4, <3>1, ReadAlikePasses
    <3>2. CASE Normalize(a, type) \in {Refused, Raised}
      <4>1. \A x \in Side : Normalize(raw[x], type) = Normalize(a, type) /\ ~Blank(raw[x])
        BY <2>1, <2>4 DEF Side
      <4>2. PICK x \in Side : outcome = Unreadable(raw[x], Normalize(a, type))
        BY <3>2, <4>1, UnreadableEnds DEF Side
      <4> QED
        BY <2>4, <3>2, <4>1, <4>2, UnreadableParts
    <3> QED
      BY <3>1, <3>2
  <2>5. ASSUME type # "BOOLEAN", ~mixed PROVE Normalize(a, type) = Normalize(b, type)
    <3>1. (a.form = "bool") <=> (b.form = "bool")
      BY <2>5
    <3> QED
      BY <2>1, <2>2, <2>5, <3>1, SameValueSameNormal
  <2>6. ASSUME type \in NumericTypes, mixed PROVE refused
    <3>1. \A v : ~Blank(v) /\ v.form = "bool" => Normalize(v, type) = Refused
      BY <2>6 DEF Normalize, NumericTypes, IsDecimal
    <3>2. PICK s \in Side : Normalize(raw[s], type) = Refused
      BY <2>1, <2>6, <3>1 DEF Side
    <3>3. PICK x \in Side : /\ Normalize(raw[x], type) \in {Refused, Raised}
                           /\ outcome = Unreadable(raw[x], Normalize(raw[x], type))
      BY <3>2, UnreadableEnds
    <3>4. Normalize(raw[x], type) = Refused
      <4>1. \A v : ~Blank(v) /\ ~IsDecimal(v) => Normalize(v, type) = Refused
        BY <2>6 DEF Normalize, NumericTypes
      <4>2. ~Blank(raw[x])
        BY <2>1 DEF Side
      <4> QED
        BY <2>6, <3>3, <4>1, <4>2, Numbers, NumberOrRefused
    <3>5. ~Blank(raw[x])
      BY <2>1 DEF Side
    <3> QED
      BY <3>3, <3>4, <3>5, UnreadableParts
  <2>7. ASSUME type = "BOOLEAN" PROVE outcome.status # "FAIL"
    <3>1. \A v : ~Blank(v) => Normalize(v, type) = AsBoolean(v)
      BY <2>7 DEF Normalize
    <3>2. CASE \E s \in Side : Normalize(raw[s], type) \in {Refused, Raised}
      BY <2>3, <3>2
    <3>3. CASE \A s \in Side : Normalize(raw[s], type) \notin {Refused, Raised}
      <4>1. AsBoolean(a) \notin {Refused, Raised} /\ AsBoolean(b) \notin {Refused, Raised}
        BY <2>1, <3>1, <3>3 DEF Side
      <4>2. a.reads = "number"
        <5>1. ASSUME a.reads = "moment" PROVE AsBoolean(a) \in {Refused, Raised}
          BY <2>1, <5>1, ScalarsAssumption DEF AsBoolean
        <5> QED
          BY <4>1, <5>1 DEF OneValue
      <4>3. b.reads = "number" /\ a.n = b.n
        BY <4>2 DEF OneValue
      <4>4. AsBoolean(a) = AsBoolean(b)
        BY <2>1, <4>1, <4>2, <4>3, NumberAsBoolean
      <4>5. Normalize(a, type) = Normalize(b, type) /\ Normalize(a, type) \notin {Refused, Raised}
        BY <2>1, <3>1, <4>1, <4>4
      <4> QED
        BY <4>5, ReadAlikePasses
    <3> QED
      BY <3>2, <3>3
  <2> QED
    <3>1. type = "BOOLEAN" \/ type \in NumericTypes \/ ~mixed \/ type = "DATETIME"
      BY <2>2
    <3>2. ASSUME type = "DATETIME", mixed PROVE outcome.status # "FAIL"
      <4>1. ASSUME NEW v, v \in Scalars, ~Blank(v), v.form = "bool" PROVE Normalize(v, type) = Refused
        <5>1. v.reads = "number"
          BY <4>1, ScalarsAssumption
        <5>2. Normalize(v, type) = AsMoment(v)
          BY <3>2, <4>1 DEF Normalize
        <5> QED
          BY <5>1, <5>2 DEF AsMoment
      <4>2. PICK s \in Side : Normalize(raw[s], type) = Refused
        BY <2>1, <3>2, <4>1 DEF Side
      <4> QED
        BY <2>3, <4>2
    <3>3. refused => outcome.status = "ERROR"
      BY VerdictParts
    <3> HIDE DEF refused, Both, mixed
    <3> QED
      BY <2>4, <2>5, <2>6, <2>7, <3>1, <3>2, <3>3
<1> QED
  BY <1>1, EvalInvAlways, PTL

-----------------------------------------------------------------------------
\* The comparisons agree with each other.

NumbersJudged ==
  /\ test \in Tests /\ test.type \in NumericTypes
  /\ DOMAIN raw = Uses(test.scope) /\ DOMAIN normalized = Uses(test.scope)
  /\ \A s \in Uses(test.scope) :
       /\ raw[s].n \in Int /\ raw[s].reads = "number"
       /\ normalized[s] = AsNumber(test.type, raw[s].n)

LEMMA JudgedNumbers ==
  ASSUME EvalInv, Judged, test.type \in NumericTypes
  PROVE  NumbersJudged
<1>1. outcome # Pending /\ \A s : outcome # RefusalOf(s)
  BY VerdictParts, UnreadableParts DEF Judged, RefusalOf
<1>2. DOMAIN raw = Uses(test.scope) /\ DOMAIN normalized = Uses(test.scope)
  BY <1>1 DEF EvalInv, OutcomeInv
<1>3. ASSUME NEW s \in Uses(test.scope)
      PROVE  /\ raw[s].n \in Int /\ raw[s].reads = "number"
             /\ normalized[s] = AsNumber(test.type, raw[s].n)
  <2>1. raw[s] \in ScalarType
    BY <1>2, ScalarsAssumption DEF EvalInv, AnsweredInv
  <2>2. normalized[s] = Normalize(raw[s], test.type) /\ normalized[s] # Refused
    BY <1>2 DEF EvalInv, NormalizedInv
  <2> QED
    BY <2>1, <2>2, ReadAsNumber DEF ScalarType
<1> QED
  BY <1>2, <1>3 DEF EvalInv, AnsweredInv, NumbersJudged

Restated(comparison) == [Request EXCEPT !.comparison = comparison]

LEMMA RestatedParts ==
  ASSUME NumbersJudged, NEW c
  PROVE  /\ Restated(c).comparison = c /\ Restated(c).scope = test.scope
         /\ Restated(c).expected = test.expected
         /\ Restated(c).absTol = test.absTol /\ Restated(c).pctTol = test.pctTol
         /\ \A s \in Uses(test.scope) : Restated(c)[s] = AsNumber(test.type, raw[s].n)
         /\ Executed(Restated(c)) = {AsNumber(test.type, raw[s].n) : s \in Uses(test.scope)}
         /\ As(c) = Compare(Restated(c)).status
<1>1. Uses(test.scope) \subseteq {"source", "target"}
  BY DEF Uses
<1>2. /\ Restated(c).comparison = c /\ Restated(c).scope = test.scope
      /\ Restated(c).expected = test.expected
      /\ Restated(c).absTol = test.absTol /\ Restated(c).pctTol = test.pctTol
      /\ Restated(c)["source"] = ValueOf("source") /\ Restated(c)["target"] = ValueOf("target")
  BY DEF Restated, Request
<1>3. \A s \in Uses(test.scope) : Restated(c)[s] = AsNumber(test.type, raw[s].n)
  BY <1>1, <1>2 DEF ValueOf, NumbersJudged
<1>4. Executed(Restated(c)) = {AsNumber(test.type, raw[s].n) : s \in Uses(test.scope)}
  BY <1>2, <1>3, Numbers DEF Executed
<1> QED
  BY <1>2, <1>3, <1>4 DEF As, Restated

\* What a comparison of the values with one another, or with the expectation, comes to.
LEMMA AssertionsOnValues ==
  ASSUME NumbersJudged
  PROVE  /\ As("EXPECTED_ZERO") = IF \A s \in Uses(test.scope) : raw[s].n = 0 THEN "PASS" ELSE "FAIL"
         /\ As("NON_ZERO") = IF \A s \in Uses(test.scope) : raw[s].n # 0 THEN "PASS" ELSE "FAIL"
<1> DEFINE number(s) == AsNumber(test.type, raw[s].n)
<1>1. \A s : number(s).n = raw[s].n /\ Numeric(number(s))
  BY Numbers
<1> HIDE DEF number
<1>2. ASSUME NEW c \in {"EXPECTED_ZERO", "NON_ZERO"}
      PROVE  As(c) = IF \A s \in Uses(test.scope) : Holds(Restated(c), number(s)) THEN "PASS" ELSE "FAIL"
  <2>1. /\ Restated(c).comparison = c /\ As(c) = Compare(Restated(c)).status
        /\ Executed(Restated(c)) = {number(s) : s \in Uses(test.scope)}
    BY RestatedParts DEF number
  <2>2. MustBeNumeric(Restated(c)) = {}
    BY <2>1 DEF MustBeNumeric
  <2>3. Passes(Restated(c)) <=> \A s \in Uses(test.scope) : Holds(Restated(c), number(s))
    BY <2>1 DEF Passes
  <2> QED
    BY <2>1, <2>2, <2>3, StatusOf
<1>3. \A v : /\ Holds(Restated("EXPECTED_ZERO"), v) <=> IsZero(v)
             /\ Holds(Restated("NON_ZERO"), v) <=> ~IsZero(v)
  <2>1. \A r, v : /\ r.comparison = "EXPECTED_ZERO" => (Holds(r, v) <=> IsZero(v))
                  /\ r.comparison = "NON_ZERO" => (Holds(r, v) <=> ~IsZero(v))
    BY DEF Holds
  <2> QED
    BY <2>1, RestatedParts
<1> QED
  BY <1>1, <1>2, <1>3 DEF IsZero

LEMMA AssertionsOnExpected ==
  ASSUME NumbersJudged, test.expected # Absent
  PROVE  /\ As("LESS_THAN_OR_EQUAL") = "PASS" <=>
              \A s \in Uses(test.scope) : raw[s].n <= test.expected.n
         /\ As("GREATER_THAN_OR_EQUAL") = "PASS" <=>
              \A s \in Uses(test.scope) : raw[s].n >= test.expected.n
         /\ As("EXPECTED_EQUAL") = "PASS" <=>
              \A s \in Uses(test.scope) : raw[s].n = test.expected.n
<1> DEFINE number(s) == AsNumber(test.type, raw[s].n)
<1>1. \A s : number(s).n = raw[s].n /\ Numeric(number(s))
  BY Numbers
<1>2. test.expected = AsNumber(test.type, test.expected.n) /\ test.expected.n \in Int
  BY TestsAssumption, Zenon DEF NumbersJudged, AsNumber
<1>3. Numeric(test.expected)
  BY <1>2, Numbers
<1>4. \A s : number(s) = test.expected <=> raw[s].n = test.expected.n
  BY <1>1, <1>2
<1> HIDE DEF number
<1>5. ASSUME NEW c \in {"LESS_THAN_OR_EQUAL", "GREATER_THAN_OR_EQUAL", "EXPECTED_EQUAL"}
      PROVE  As(c) = "PASS" <=> \A s \in Uses(test.scope) : Holds(Restated(c), number(s))
  <2>1. /\ Restated(c).comparison = c /\ As(c) = Compare(Restated(c)).status
        /\ Restated(c).expected = test.expected
        /\ Executed(Restated(c)) = {number(s) : s \in Uses(test.scope)}
    BY RestatedParts DEF number
  <2>2. \A v \in MustBeNumeric(Restated(c)) : Numeric(v)
    BY <1>1, <1>3, <2>1 DEF MustBeNumeric
  <2>3. Passes(Restated(c)) <=> \A s \in Uses(test.scope) : Holds(Restated(c), number(s))
    BY <2>1 DEF Passes
  <2> QED
    BY <2>1, <2>2, <2>3, StatusOf
<1>6. \A v : /\ Holds(Restated("LESS_THAN_OR_EQUAL"), v) <=> v.n <= test.expected.n
             /\ Holds(Restated("GREATER_THAN_OR_EQUAL"), v) <=> v.n >= test.expected.n
             /\ Holds(Restated("EXPECTED_EQUAL"), v) <=> v = test.expected
  <2>1. \A r, v : /\ r.comparison = "LESS_THAN_OR_EQUAL" => (Holds(r, v) <=> v.n <= r.expected.n)
                  /\ r.comparison = "GREATER_THAN_OR_EQUAL" => (Holds(r, v) <=> v.n >= r.expected.n)
                  /\ r.comparison = "EXPECTED_EQUAL" => (Holds(r, v) <=> v = r.expected)
    BY DEF Holds
  <2> QED
    BY <2>1, RestatedParts
<1> QED
  BY <1>1, <1>4, <1>5, <1>6

\* What the comparisons of the two sides come to.
LEMMA ComparingSides ==
  ASSUME NumbersJudged, test.scope = "SOURCE_TARGET"
  PROVE  LET s == raw["source"].n
             t == raw["target"].n
             absolute == Abs(Rounded(t - s)) <= test.absTol
         IN /\ s \in Int /\ t \in Int
            /\ As("EQUAL") = IF s = t THEN "PASS" ELSE "FAIL"
            /\ As("EQUAL_ABS_TOLERANCE") = IF absolute THEN "PASS" ELSE "FAIL"
            /\ s = 0 => As("EQUAL_PCT_TOLERANCE") = IF t = 0 \/ (test.absTol > 0 /\ absolute)
                                                    THEN "PASS" ELSE "FAIL"
            /\ s # 0 => As("EQUAL_PCT_TOLERANCE")
                          = IF PercentageWithin(s, Rounded(t - s), test.pctTol) THEN "PASS" ELSE "FAIL"
<1> DEFINE s == raw["source"].n
           t == raw["target"].n
           absolute == Abs(Rounded(t - s)) <= test.absTol
<1>1. "source" \in Uses(test.scope) /\ "target" \in Uses(test.scope)
  BY DEF Uses
<1>2. s \in Int /\ t \in Int
  BY <1>1 DEF NumbersJudged
<1>3. ASSUME NEW c
      PROVE  /\ Restated(c).comparison = c /\ As(c) = Compare(Restated(c)).status
             /\ Restated(c).source.n = s /\ Restated(c).target.n = t
             /\ Numeric(Restated(c).source) /\ Numeric(Restated(c).target)
             /\ Restated(c).source = Restated(c).target <=> s = t
             /\ Restated(c).absTol = test.absTol /\ Restated(c).pctTol = test.pctTol
  <2>1. Restated(c).source = AsNumber(test.type, s) /\ Restated(c).target = AsNumber(test.type, t)
    BY <1>1, RestatedParts
  <2> HIDE DEF s, t
  <2> QED
    BY <2>1, Numbers, RestatedParts
<1>4. \A c : (\A v \in MustBeNumeric(Restated(c)) : Numeric(v)) /\ c # "NO_COMPARISON" =>
               As(c) = IF Passes(Restated(c)) THEN "PASS" ELSE "FAIL"
  BY <1>3, StatusOf
<1>5. As("EQUAL") = IF s = t THEN "PASS" ELSE "FAIL"
  <2> DEFINE r == Restated("EQUAL")
  <2>1. MustBeNumeric(r) = {} /\ (Passes(r) <=> r.source = r.target)
    BY <1>3 DEF MustBeNumeric, Passes
  <2> QED
    BY <1>3, <1>4, <2>1
<1>6. As("EQUAL_ABS_TOLERANCE") = IF absolute THEN "PASS" ELSE "FAIL"
  <2> DEFINE r == Restated("EQUAL_ABS_TOLERANCE")
  <2>1. MustBeNumeric(r) = {r.source, r.target} /\ (Passes(r) <=> AbsoluteHolds(r))
    BY <1>3 DEF MustBeNumeric, Passes
  <2>2. AbsoluteHolds(r) <=> absolute
    BY <1>3 DEF AbsoluteHolds
  <2> HIDE DEF absolute
  <2> QED
    BY <1>3, <1>4, <2>1, <2>2
<1>7. ASSUME s = 0
      PROVE  As("EQUAL_PCT_TOLERANCE") = IF t = 0 \/ (test.absTol > 0 /\ absolute) THEN "PASS" ELSE "FAIL"
  <2> DEFINE r == Restated("EQUAL_PCT_TOLERANCE")
  <2>1. MustBeNumeric(r) = {r.source, r.target} /\ (Passes(r) <=> PercentageHolds(r))
    BY <1>3 DEF MustBeNumeric, Passes
  <2>2. PercentageHolds(r) <=> t = 0 \/ (test.absTol > 0 /\ absolute)
    BY <1>3, <1>7 DEF PercentageHolds, AbsoluteHolds
  <2> HIDE DEF absolute
  <2> QED
    BY <1>3, <1>4, <2>1, <2>2
<1>8. ASSUME s # 0
      PROVE  As("EQUAL_PCT_TOLERANCE")
               = IF PercentageWithin(s, Rounded(t - s), test.pctTol) THEN "PASS" ELSE "FAIL"
  <2> DEFINE r == Restated("EQUAL_PCT_TOLERANCE")
             within == PercentageWithin(s, Rounded(t - s), test.pctTol)
  <2>1. MustBeNumeric(r) = {r.source, r.target} /\ (Passes(r) <=> PercentageHolds(r))
    BY <1>3 DEF MustBeNumeric, Passes
  <2>2. PercentageHolds(r) <=> within
    BY <1>3, <1>8 DEF PercentageHolds
  <2> HIDE DEF within
  <2>3. As("EQUAL_PCT_TOLERANCE") = IF within THEN "PASS" ELSE "FAIL"
    BY <1>3, <1>4, <2>1, <2>2
  <2> QED
    BY <2>3 DEF within
<1> QED
  BY <1>2, <1>5, <1>6, <1>7, <1>8

\* What the older comparators make of the same scalars.
LEMMA OlderAssertion ==
  ASSUME NumbersJudged
  PROVE  OlderCompare("EXPECTED_ZERO", raw, 0, test.scope)
           = IF \A s \in Uses(test.scope) : raw[s].n = 0 THEN "PASS" ELSE "FAIL"
<1> DEFINE values == {raw[s] : s \in Uses(test.scope)}
<1>1. \A v \in values : ~ToDecimalFails(v)
  BY DEF NumbersJudged, ToDecimalFails
<1>2. (\A v \in values : v.n = 0) <=> \A s \in Uses(test.scope) : raw[s].n = 0
  OBVIOUS
<1>3. OlderCompare("EXPECTED_ZERO", raw, 0, test.scope) = OlderExpectedZero(values)
  BY DEF OlderCompare
<1> HIDE DEF values
<1> QED
  BY <1>1, <1>2, <1>3 DEF OlderExpectedZero

LEMMA OlderSides ==
  ASSUME NumbersJudged, test.scope = "SOURCE_TARGET"
  PROVE  LET a == raw["source"]
             b == raw["target"]
         IN /\ OlderCompare("EQUAL", raw, 0, test.scope) = IF a.n = b.n THEN "PASS" ELSE "FAIL"
            /\ OlderCompare("NUMERIC_TOLERANCE", raw, test.absTol, test.scope)
                 = IF Abs(Rounded(a.n - b.n)) <= test.absTol THEN "PASS" ELSE "FAIL"
<1> DEFINE a == raw["source"]
           b == raw["target"]
<1>1. "source" \in Uses(test.scope) /\ "target" \in Uses(test.scope)
  BY DEF Uses
<1>2. a.reads = "number" /\ b.reads = "number" /\ test.absTol \in Nat
  BY <1>1, TestsAssumption DEF NumbersJudged
<1>3. /\ OlderCompare("EQUAL", raw, 0, test.scope) = OlderEqual(a, b)
      /\ OlderCompare("NUMERIC_TOLERANCE", raw, test.absTol, test.scope)
           = OlderTolerance(a, b, test.absTol)
  BY DEF OlderCompare
<1> HIDE DEF a, b
<1>4. Classify(a) = "numeric" /\ Classify(b) = "numeric"
  BY <1>2 DEF Classify, Blank
<1>5. SameValue(a, b) <=> a.n = b.n
  BY <1>2, <1>4 DEF SameValue
<1>6. OlderEqual(a, b) = IF a.n = b.n THEN "PASS" ELSE "FAIL"
  BY <1>2, <1>4, <1>5 DEF OlderEqual
<1>7. ~(test.absTol < 0) /\ ~ToDecimalFails(a) /\ ~ToDecimalFails(b)
  BY <1>2 DEF ToDecimalFails
<1>8. OlderTolerance(a, b, test.absTol)
        = IF Abs(Rounded(a.n - b.n)) <= test.absTol THEN "PASS" ELSE "FAIL"
  BY <1>7 DEF OlderTolerance
<1> QED
  BY <1>3, <1>6, <1>8 DEF a, b

\* The comparisons agree with each other on the values of a test, and with the older
\* runner's comparators on the same scalars (comparators.py:173-297).
THEOREM EvaluationComparisonsCohere == Spec => []ComparisonsCohere
<1>1. EvalInv => ComparisonsCohere
  <2> SUFFICES ASSUME EvalInv, Judged, test.type \in NumericTypes PROVE ComparisonsCohere
    BY DEF ComparisonsCohere
  <2>1. NumbersJudged
    BY JudgedNumbers
  <2>2. Uses(test.scope) # {} /\ \A s \in Uses(test.scope) : raw[s].n \in Int
    BY <2>1 DEF Uses, NumbersJudged
  <2>3. ASSUME test.expected # Absent
        PROVE  (As("LESS_THAN_OR_EQUAL") = "PASS" /\ As("GREATER_THAN_OR_EQUAL") = "PASS")
                 <=> As("EXPECTED_EQUAL") = "PASS"
    <3>1. test.expected.n \in Int
      BY <2>1, <2>3, TestsAssumption DEF NumbersJudged
    <3>2. \A s \in Uses(test.scope) : raw[s].n <= test.expected.n /\ raw[s].n >= test.expected.n
                                        <=> raw[s].n = test.expected.n
      BY <2>2, <3>1
    <3> QED
      BY <2>1, <2>3, <3>2, AssertionsOnExpected
  <2>4. ~(As("EXPECTED_ZERO") = "PASS" /\ As("NON_ZERO") = "PASS")
    BY <2>1, <2>2, AssertionsOnValues
  <2>5. ASSUME test.scope # "SOURCE_TARGET" PROVE "PASS" \in {As("EXPECTED_ZERO"), As("NON_ZERO")}
    <3>1. Uses(test.scope) = {"source"} \/ Uses(test.scope) = {"target"}
      BY <2>1, <2>5, TestsAssumption DEF NumbersJudged, WellFormed, Scopes, Uses
    <3> QED
      BY <2>1, <3>1, AssertionsOnValues
  <2>6. OlderCompare("EXPECTED_ZERO", raw, 0, test.scope) = As("EXPECTED_ZERO")
    BY <2>1, AssertionsOnValues, OlderAssertion
  <2>7. ASSUME test.scope = "SOURCE_TARGET"
        PROVE  /\ OlderCompare("EQUAL", raw, 0, test.scope) = As("EQUAL")
               /\ OlderCompare("NUMERIC_TOLERANCE", raw, test.absTol, test.scope)
                    = As("EQUAL_ABS_TOLERANCE")
               /\ test.absTol = 0 => As("EQUAL") = As("EQUAL_ABS_TOLERANCE")
               /\ normalized["source"].n = 0 =>
                    As("EQUAL_PCT_TOLERANCE") = As("EQUAL_ABS_TOLERANCE")
    <3> DEFINE s == raw["source"].n
               t == raw["target"].n
               within == Abs(Rounded(t - s)) <= test.absTol
    <3>1. /\ s \in Int /\ t \in Int
          /\ As("EQUAL") = IF s = t THEN "PASS" ELSE "FAIL"
          /\ As("EQUAL_ABS_TOLERANCE") = IF within THEN "PASS" ELSE "FAIL"
          /\ s = 0 => As("EQUAL_PCT_TOLERANCE") = IF t = 0 \/ (test.absTol > 0 /\ within)
                                                  THEN "PASS" ELSE "FAIL"
      BY <2>1, <2>7, ComparingSides
    <3>2. /\ OlderCompare("EQUAL", raw, 0, test.scope) = IF s = t THEN "PASS" ELSE "FAIL"
          /\ OlderCompare("NUMERIC_TOLERANCE", raw, test.absTol, test.scope)
               = IF Abs(Rounded(s - t)) <= test.absTol THEN "PASS" ELSE "FAIL"
      BY <2>1, <2>7, OlderSides
    <3>3. normalized["source"].n = s
      BY <2>1, <2>7, Numbers DEF NumbersJudged, Uses
    <3>4. test.absTol \in Nat
      BY <2>1, TestsAssumption DEF NumbersJudged
    <3> HIDE DEF s, t
    <3>5. Abs(Rounded(s - t)) = Abs(Rounded(t - s))
      <4>1. t - s \in Int /\ s - t = -(t - s)
        BY <3>1
      <4> QED
        BY <4>1, RoundedOf
    <3>6. Abs(Rounded(t - s)) \in Nat /\ (Abs(Rounded(t - s)) = 0 <=> s = t)
      <4> DEFINE d == t - s
      <4>1. d \in Int /\ (d = 0 <=> s = t)
        BY <3>1
      <4> HIDE DEF d
      <4>2. Abs(Rounded(d)) \in Nat /\ (Abs(Rounded(d)) = 0 <=> d = 0)
        BY <4>1, RoundedOf, Magnitude
      <4> QED
        BY <4>1, <4>2 DEF d
    <3>7. test.absTol = 0 => (within <=> s = t)
      <4> DEFINE distance == Abs(Rounded(t - s))
      <4>1. distance \in Nat /\ (distance = 0 <=> s = t)
        BY <3>6
      <4> HIDE DEF distance
      <4>2. test.absTol = 0 => (distance <= test.absTol <=> s = t)
        BY <4>1
      <4> QED
        BY <4>2 DEF distance
    <3>8. s = 0 => (within <=> t = 0 \/ (test.absTol > 0 /\ within))
      <4>1. s = t => within
        <5> DEFINE distance == Abs(Rounded(t - s))
        <5>1. distance = 0 <=> s = t
          BY <3>6
        <5> HIDE DEF distance
        <5>2. s = t => distance <= test.absTol
          BY <3>4, <5>1
        <5> QED
          BY <5>2 DEF distance
      <4> HIDE DEF within
      <4>2. test.absTol = 0 \/ test.absTol > 0
        BY <3>4
      <4> QED
        BY <3>7, <4>1, <4>2
    <3> HIDE DEF within
    <3> QED
      BY <3>1, <3>2, <3>3, <3>5, <3>7, <3>8 DEF within
  <2> QED
    BY <2>3, <2>4, <2>5, <2>6, <2>7 DEF ComparisonsCohere
<1> QED
  BY <1>1, EvalInvAlways, PTL

-----------------------------------------------------------------------------
\* Tolerances are exact up to the last digit kept.

\* A number of at least p units, rounded to a multiple of the unit, is on the side of
\* a bound that it was on, but for half a unit; exactly so when the bound is a multiple.
LEMMA HalfEvenAgrees ==
  ASSUME NEW a \in Nat, NEW unit \in Nat, unit >= 1, NEW p \in Nat, a >= p * unit,
         NEW factor \in Nat, NEW bound \in Nat
  PROVE  /\ factor >= 1 /\ factor * a <= bound /\ (\E c \in Nat : bound = factor * (c * unit)) =>
              factor * (HalfEven(a, unit) * unit) <= bound
         /\ factor * (HalfEven(a, unit) * unit) <= bound =>
              factor * a <= bound \/ 2 * p * (factor * a - bound) <= bound
<1> DEFINE h == HalfEven(a, unit)
<1>1. h \in Nat /\ h >= p /\ 2 * (a - h * unit) <= unit
  BY HalfEvenOf, HalfEvenKeepsOrder
<1>2. ASSUME factor >= 1, factor * a <= bound, NEW c \in Nat, bound = factor * (c * unit)
      PROVE  factor * (h * unit) <= bound
  <2>1. a <= c * unit
    <3> DEFINE d == c * unit
    <3>1. d \in Nat
      OBVIOUS
    <3> HIDE DEF d
    <3>2. ASSUME a >= d + 1 PROVE FALSE
      <4>1. factor * (d + 1) <= factor * a
        BY <3>1, <3>2, Scaled
      <4>2. factor * (d + 1) = factor * d + factor /\ factor * d \in Int
        BY <3>1
      <4>3. factor * a <= factor * d
        BY <1>2 DEF d
      <4> QED
        BY <1>2, <4>1, <4>2, <4>3
    <3> QED
      BY <3>1, <3>2 DEF d
  <2>2. h <= c
    BY <2>1, HalfEvenKeepsOrder
  <2> HIDE DEF h
  <2>3. h * unit <= c * unit
    BY <1>1, <2>2, Scaled
  <2>4. factor * (h * unit) <= factor * (c * unit)
    BY <1>1, <2>3, Scaled
  <2> QED
    BY <1>2, <2>4
<1>3. ASSUME factor * (h * unit) <= bound, factor * a > bound
      PROVE  2 * p * (factor * a - bound) <= bound
  <2> HIDE DEF h
  <2> DEFINE b == h * unit
             x == 2 * (factor * a - bound)
  <2>1. b \in Nat /\ 2 * (a - b) <= unit /\ factor * b <= bound
    BY <1>1, <1>3
  <2>2. x <= factor * unit /\ x \in Int
    <3> HIDE DEF b
    <3>1. factor * (2 * (a - b)) <= factor * unit
      BY <2>1, Scaled
    <3>2. factor * (2 * (a - b)) = 2 * (factor * a) - 2 * (factor * b)
      BY <2>1
    <3>3. factor * a \in Int /\ factor * b \in Int /\ factor * unit \in Int
      BY <2>1
    <3> QED
      BY <2>1, <3>1, <3>2, <3>3
  <2>3. p * x <= p * (factor * unit)
    <3> HIDE DEF x
    <3>1. factor * unit \in Int
      OBVIOUS
    <3> QED
      BY <2>2, <3>1, Scaled
  <2>4. p * (factor * unit) = factor * (p * unit)
    OBVIOUS
  <2>5. factor * (p * unit) <= factor * b
    <3>1. p * unit <= h * unit
      BY <1>1, Scaled
    <3>2. p * unit \in Int
      OBVIOUS
    <3> QED
      BY <2>1, <3>1, <3>2, Scaled DEF b
  <2>6. p * x = 2 * p * (factor * a - bound)
    OBVIOUS
  <2>7. p * x \in Int /\ p * (factor * unit) \in Int /\ factor * b \in Int
    <3> HIDE DEF b, x
    <3> QED
      BY <2>1, <2>2
  <2> HIDE DEF b, x
  <2>8. p * x <= bound
    BY <2>1, <2>3, <2>4, <2>5, <2>7
  <2> QED
    BY <2>6, <2>8
<1>4. factor * a \in Int
  OBVIOUS
<1> QED
  BY <1>2, <1>3, <1>4 DEF h

LEMMA RoundedAgrees ==
  ASSUME NEW d \in Nat, NEW bound \in Nat, Fits(bound)
  PROVE  /\ d <= bound => Rounded(d) <= bound
         /\ Rounded(d) <= bound => d <= bound \/ 2 * Power[Digits - 1] * (d - bound) <= bound
<1>1. Digits \in Nat /\ Digits >= 1 /\ Width(d) \in Nat
  BY WidthOf, DigitsAssumption
<1>2. CASE Width(d) <= Digits
  <2>1. Rounded(d) = d
    BY <1>2, RoundedInUnits
  <2> QED
    BY <2>1
<1>3. CASE Width(d) > Digits
  <2>1. PICK e \in Nat : /\ d >= Power[Digits - 1 + e]
                         /\ Rounded(d) = HalfEven(d, Power[e]) * Power[e]
    BY <1>3, RoundedInUnits
  <2> DEFINE p == Power[Digits - 1]
             unit == Power[e]
             m == HalfEven(d, unit) * unit
  <2>2. p \in Nat /\ unit \in Nat /\ unit >= 1 /\ p * unit = Power[Digits - 1 + e]
    <3> DEFINE g == Digits - 1
    <3>1. g \in Nat
      BY <1>1
    <3> HIDE DEF g
    <3>2. Power[g] \in Nat /\ unit \in Nat /\ unit >= e + 1 /\ Power[g] * unit = Power[g + e]
      BY <3>1, Powers
    <3> QED
      BY <3>2 DEF g
  <2>3. ASSUME d <= bound PROVE \E c \in Nat : bound = c * unit
    <3>1. Power[Digits - 1 + e] \in Nat
      BY <2>2
    <3>2. bound >= Power[Digits - 1 + e]
      BY <2>1, <2>3, <3>1
    <3> QED
      BY <3>2, FitsInUnits
  <2> HIDE DEF p, unit
  <2>4. m \in Nat
    BY <2>2, HalfEvenOf
  <2> DEFINE one == 1
  <2>5. /\ one * d <= bound /\ (\E c \in Nat : bound = one * (c * unit)) => one * m <= bound
        /\ one * m <= bound => one * d <= bound \/ 2 * p * (one * d - bound) <= bound
    <3>1. one \in Nat /\ one >= 1
      OBVIOUS
    <3>2. d >= p * unit
      BY <2>1, <2>2
    <3> HIDE DEF one
    <3> QED
      BY <2>2, <3>1, <3>2, HalfEvenAgrees
  <2>6. \A c \in Nat : 1 * (c * unit) = c * unit
    BY <2>2
  <2> HIDE DEF m
  <2>7. 1 * m = m /\ 1 * d = d
    BY <2>4
  <2> QED
    BY <2>1, <2>3, <2>5, <2>6, <2>7 DEF p, unit, m
<1> QED
  BY <1>1, <1>2, <1>3

\* The quotient of a and b is a number of units over 10^k, rounded from no less than
\* Digits digits, and a tolerance that a / b does not exceed is a multiple of the unit.
KeptIn(a, b, unit, k) ==
  /\ unit >= 1 /\ a * Power[k] >= Power[Digits - 1] * (b * unit)
  /\ Quotient(a, b).m = HalfEven(a * Power[k], b * unit) * unit
  /\ Quotient(a, b).k = k
  /\ \A t \in Nat : Fits(t) /\ 1000 * a <= t * b =>
       \E c \in Nat : t * Power[k] = 1000 * (c * unit)

LEMMA QuotientKept ==
  ASSUME NEW a \in Nat, a >= 1, NEW b \in Nat, b >= 1
  PROVE  \E unit, k \in Nat : KeptIn(a, b, unit, k)
<1>1. Digits \in Nat /\ Digits >= 1 /\ Power[Digits] = 10 * Power[Digits - 1]
  <2>1. Digits \in Nat /\ Digits >= 1 /\ Digits - 1 \in Nat /\ (Digits - 1) + 1 = Digits
    BY DigitsAssumption
  <2> QED
    BY <2>1, PowerStep
<1>2. Power[0] = 1 /\ Power[1] = 10 /\ Power[2] = 100 /\ Power[3] = 1000
  <2>1. /\ Power[0] = 1 /\ Power[0 + 1] = 10 * Power[0] /\ Power[1 + 1] = 10 * Power[1]
        /\ Power[2 + 1] = 10 * Power[2]
    BY PowerStep
  <2> QED
    BY <2>1
<1> DEFINE p == Power[Digits - 1]
           least == b * p
<1>3. p \in Nat /\ p >= 1
  <2> DEFINE g == Digits - 1
  <2>1. g \in Nat
    BY <1>1
  <2> HIDE DEF g
  <2>2. Power[g] \in Nat /\ Power[g] >= g + 1
    BY <2>1, Powers
  <2> QED
    BY <2>1, <2>2 DEF g
\* A quotient of more than Digits digits: the unit is that of its integer part.
<1>4. CASE a >= b * Power[Digits]
  <2> DEFINE n == a \div b
             w == Width(n)
             e == w - Digits
             unit == Power[e]
  <2>1. n \in Nat /\ b * n <= a /\ n >= Power[Digits]
    <3> DEFINE r == a % b
    <3>1. n \in Int /\ r \in 0..(b - 1) /\ a = b * n + r
      OBVIOUS
    <3>2. Power[Digits] \in Nat
      BY <1>1, <1>3
    <3> DEFINE d == Power[Digits]
    <3> HIDE DEF n, r, d
    <3>3. ASSUME n + 1 <= d PROVE FALSE
      <4>1. b * (n + 1) <= b * d
        BY <3>1, <3>2, <3>3, Scaled DEF d
      <4>2. b * (n + 1) = b * n + b /\ b * n \in Int
        BY <3>1
      <4>3. b * d <= a /\ b * d \in Int
        BY <1>4, <3>2 DEF d
      <4> QED
        BY <3>1, <4>1, <4>2, <4>3
    <3>4. n >= d /\ d \in Nat
      BY <3>1, <3>2, <3>3 DEF d
    <3>5. b * n \in Int
      BY <3>1
    <3> QED
      BY <3>1, <3>4, <3>5 DEF d
  <2> HIDE DEF n
  <2>2. w \in Nat /\ w >= Digits + 1 /\ n >= Power[w - 1]
    <3>1. w \in Nat /\ (w = 1 \/ n >= Power[w - 1])
      BY <2>1, WidthOf
    <3>2. w >= Digits + 1
      BY <1>1, <2>1, WidthAtLeast
    <3> QED
      BY <1>1, <3>1, <3>2
  <2> HIDE DEF w
  <2>3. e \in Nat /\ e + (Digits - 1) = w - 1 /\ w - 1 \in Nat
    BY <1>1, <2>2
  <2>4. unit \in Nat /\ unit >= 1 /\ p * unit = Power[w - 1]
    <3> DEFINE g == Digits - 1
    <3>1. g \in Nat /\ g + e = w - 1
      BY <1>1, <2>3
    <3> HIDE DEF g, e
    <3>2. unit \in Nat /\ unit >= e + 1 /\ Power[g] * unit = Power[g + e]
      BY <2>3, <3>1, Powers
    <3> QED
      BY <2>3, <3>1, <3>2 DEF g
  <2>5. Quotient(a, b).m = HalfEven(a, b * unit) * unit /\ Quotient(a, b).k = 0
    BY <1>4 DEF Quotient, n, w
  <2>6. p * (b * unit) <= a
    <3> HIDE DEF unit, p
    <3>1. p * unit <= n /\ p * unit \in Int
      BY <2>2, <2>4, <1>3
    <3>2. b * (p * unit) <= b * n
      BY <2>1, <3>1, Scaled
    <3>3. b * (p * unit) = p * (b * unit)
      BY <1>3, <2>4
    <3>4. b * (p * unit) \in Int /\ b * n \in Int
      BY <2>1, <3>1
    <3> QED
      BY <2>1, <3>2, <3>3, <3>4
  <2>7. ASSUME NEW t \in Nat, Fits(t), 1000 * a <= t * b
        PROVE  \E c \in Nat : t = 1000 * (c * unit)
    <3>1. t >= 1000 * n
      <4>1. ASSUME t + 1 <= 1000 * n PROVE FALSE
        <5>1. (t + 1) * b <= (1000 * n) * b
          BY <2>1, <4>1, Scaled
        <5>2. (t + 1) * b = t * b + b /\ (1000 * n) * b = 1000 * (b * n)
          BY <2>1
        <5>3. t * b \in Int /\ b * n \in Int
          BY <2>1
        <5> QED
          BY <2>1, <2>7, <5>1, <5>2, <5>3
      <4> QED
        BY <2>1, <4>1
    <3>2. Power[3 + (w - 1)] = 1000 * Power[w - 1] /\ Power[3 + e] = 1000 * unit
      <4>1. \A k \in Nat : Power[3] * Power[k] = Power[3 + k]
        BY Powers
      <4> QED
        BY <1>2, <2>3, <4>1
    <3>3. Digits - 1 + (3 + e) = 3 + (w - 1) /\ 3 + e \in Nat
      BY <1>1, <2>2, <2>3
    <3>4. t >= Power[Digits - 1 + (3 + e)]
      <4>1. Power[w - 1] \in Nat
        BY <2>3, Powers
      <4>2. t >= 1000 * Power[w - 1]
        BY <2>1, <2>2, <3>1, <4>1
      <4> QED
        BY <3>2, <3>3, <4>2
    <3>5. PICK c \in Nat : t = c * Power[3 + e]
      <4> DEFINE f == 3 + e
      <4>1. f \in Nat /\ t >= Power[Digits - 1 + f]
        BY <3>3, <3>4
      <4> HIDE DEF f
      <4>2. \E c \in Nat : t = c * Power[f]
        BY <2>7, <4>1, FitsInUnits
      <4> QED
        BY <4>2 DEF f
    <3>6. c * (1000 * unit) = 1000 * (c * unit)
      <4> HIDE DEF unit
      <4> QED
        BY <2>4
    <3> QED
      BY <3>2, <3>5, <3>6
  <2> HIDE DEF unit, p
  <2>8. a * Power[0] = a /\ \A t \in Nat : t * Power[0] = t
    BY <1>2
  <2>9. /\ a * Power[0] >= p * (b * unit)
        /\ Quotient(a, b).m = HalfEven(a * Power[0], b * unit) * unit
        /\ \A t \in Nat : Fits(t) /\ 1000 * a <= t * b =>
             \E c \in Nat : t * Power[0] = 1000 * (c * unit)
    BY <1>2, <1>3, <2>4, <2>5, <2>6, <2>7, <2>8
  <2>10. KeptIn(a, b, unit, 0)
    BY <2>4, <2>5, <2>9 DEF KeptIn, p
  <2> QED
    BY <2>4, <2>10
\* Any other quotient: so many places that it has Digits digits.
<1>5. CASE a < b * Power[Digits]
  <2> DEFINE IsPlaces(i) == a * Power[i] >= least /\ (i = 0 \/ a * Power[i - 1] < least)
             k == CHOOSE i \in 0..least : IsPlaces(i)
  <2>1. least \in Nat /\ least >= 1
    <3> HIDE DEF p
    <3> QED
      BY <1>3
  <2>2. k \in Nat /\ IsPlaces(k)
    <3> HIDE DEF least
    <3> DEFINE enough == {i \in Nat : a * Power[i] >= least}
    <3>1. least \in enough
      <4>1. Power[least] \in Nat /\ Power[least] >= least + 1
        BY <2>1, Powers
      <4>2. a * Power[least] >= 1 * Power[least]
        BY <4>1
      <4>3. a * Power[least] \in Int
        BY <4>1
      <4> QED
        BY <2>1, <4>1, <4>2, <4>3
    <3>2. PICK i \in enough : \A j \in enough : i <= j
      <4> HIDE DEF enough
      <4>1. enough # {}
        BY <3>1
      <4>2. enough \in SUBSET Nat
        BY DEF enough
      <4> QED
        BY <4>1, <4>2, LeastOf
    <3>3. i \in 0..least
      BY <2>1, <3>1, <3>2
    <3>4. i = 0 \/ a * Power[i - 1] < least
      <4>1. CASE i # 0
        <5>1. i - 1 \in Nat /\ ~(i <= i - 1)
          BY <3>3, <4>1
        <5>2. i - 1 \notin enough
          BY <3>2, <5>1
        <5>3. ~(a * Power[i - 1] >= least)
          BY <5>1, <5>2
        <5>4. Power[i - 1] \in Nat
          BY <5>1, PowerStep
        <5> DEFINE s == Power[i - 1]
        <5> HIDE DEF s
        <5>5. a * s \in Int
          BY <5>4 DEF s
        <5> QED
          BY <2>1, <5>3, <5>5 DEF s
      <4> QED
        BY <4>1
    <3>5. IsPlaces(i)
      BY <3>2, <3>4
    <3> HIDE DEF IsPlaces
    <3>6. k \in 0..least /\ IsPlaces(k)
      BY <3>3, <3>5
    <3> QED
      BY <2>1, <3>6
  <2>3. Quotient(a, b).m = HalfEven(a * Power[k], b) /\ Quotient(a, b).k = k
    <3>1. a # 0 /\ ~(a >= b * Power[Digits])
      <4>1. b * Power[Digits] \in Int
        <5> HIDE DEF p
        <5> QED
          BY <1>1, <1>3 DEF p
      <4> QED
        BY <1>5, <4>1
    <3>2. Quotient(a, b) = [m |-> HalfEven(a * Power[k], b), k |-> k]
      BY <3>1 DEF Quotient
    <3> HIDE DEF k
    <3> QED
      BY <3>2
  <2>4. k \in Nat /\ a * Power[k] >= least
    BY <2>2
  <2> HIDE DEF k, IsPlaces
  <2> DEFINE scale == Power[k]
  <2>5. scale \in Nat /\ scale >= 1 /\ a * scale \in Nat
    <3>1. scale \in Nat /\ scale >= k + 1
      BY <2>4, Powers
    <3> HIDE DEF scale
    <3> QED
      BY <2>4, <3>1
  <2>6. ASSUME NEW t \in Nat, Fits(t), 1000 * a <= t * b
        PROVE  \E c \in Nat : t * scale = 1000 * c
    <3>1. CASE k >= 3
      <4> DEFINE j == k - 3
      <4>1. j \in Nat /\ 3 + j = k
        BY <2>4, <3>1
      <4> HIDE DEF j
      <4>2. scale = 1000 * Power[j] /\ Power[j] \in Nat
        <5>1. Power[3] * Power[j] = Power[3 + j] /\ Power[j] \in Nat
          BY <4>1, Powers
        <5> QED
          BY <1>2, <4>1, <5>1
      <4> HIDE DEF scale
      <4>3. t * scale = 1000 * (t * Power[j]) /\ t * Power[j] \in Nat
        BY <4>2
      <4> QED
        BY <4>3
    <3>2. CASE k < 3
      <4> DEFINE j == 3 - k
                 d == Power[Digits - 1 + j]
      <4>1. j \in Nat /\ j + k = 3 /\ Digits - 1 + j \in Nat
        BY <1>1, <2>4, <3>2
      <4> HIDE DEF j
      <4>2. Power[j] \in Nat /\ Power[j] * scale = 1000
        <5>1. Power[j] \in Nat /\ Power[j] * Power[k] = Power[j + k]
          BY <2>4, <4>1, Powers
        <5> QED
          BY <1>2, <4>1, <5>1
      <4>3. d = p * Power[j] /\ d \in Nat
        <5> DEFINE g == Digits - 1
        <5>1. g \in Nat
          BY <1>1
        <5> HIDE DEF g
        <5>2. Power[g] * Power[j] = Power[g + j]
          BY <4>1, <5>1, Powers
        <5>3. Power[g + j] \in Nat
          BY <4>1, PowerStep DEF g
        <5> QED
          BY <5>2, <5>3 DEF g
      <4> HIDE DEF d, scale, p
      <4>4. d * scale = 1000 * p
        <5>1. (p * Power[j]) * scale = p * (Power[j] * scale)
          BY <1>3, <2>5, <4>2
        <5> QED
          BY <1>3, <4>2, <4>3, <5>1
      <4>5. t >= d
        <5>1. ASSUME t + 1 <= d PROVE FALSE
          <6>1. (t + 1) * scale <= d * scale
            BY <2>5, <4>3, <5>1, Scaled
          <6>2. (t + 1) * scale = t * scale + scale /\ t * scale \in Nat
            BY <2>5
          <6> DEFINE x == t * scale
          <6> HIDE DEF x
          <6>3. x \in Nat /\ x + 1 <= 1000 * p
            BY <1>3, <2>5, <4>4, <6>1, <6>2 DEF x
          <6>4. (x + 1) * b <= (1000 * p) * b
            BY <1>3, <6>3, Scaled
          <6>5. (x + 1) * b = x * b + b /\ (1000 * p) * b = 1000 * (b * p)
            BY <1>3, <6>3
          <6>6. (1000 * a) * scale <= (t * b) * scale
            BY <2>5, <2>6, Scaled
          <6>7. (1000 * a) * scale = 1000 * (a * scale) /\ (t * b) * scale = x * b
            BY <2>5 DEF x
          <6>8. b * p <= a * scale
            BY <2>4 DEF scale
          <6>9. x * b \in Int /\ b * p \in Int /\ a * scale \in Int
            BY <1>3, <2>5, <6>3
          <6> QED
            BY <6>4, <6>5, <6>6, <6>7, <6>8, <6>9
        <5> QED
          BY <4>3, <5>1
      <4>6. PICK c \in Nat : t = c * Power[j]
        BY <2>6, <4>1, <4>5, FitsInUnits DEF d
      <4>7. (c * Power[j]) * scale = c * (Power[j] * scale)
        BY <2>5, <4>2
      <4>8. t * scale = 1000 * c
        BY <4>2, <4>6, <4>7
      <4> QED
        BY <4>8
    <3> QED
      BY <2>4, <3>1, <3>2
  <2> DEFINE h == HalfEven(a * scale, b)
  <2>7. h \in Nat
    <3> HIDE DEF scale
    <3> QED
      BY <2>5, HalfEvenOf
  <2> DEFINE one == 1
  <2>8. b * one = b /\ h * one = h /\ \A c \in Nat : c * one = c
    <3> HIDE DEF h
    <3> QED
      BY <2>7
  <2>9. p * b = b * p
    <3> HIDE DEF p
    <3> QED
      BY <1>3
  <2>10. one \in Nat /\ one >= 1
    OBVIOUS
  <2> HIDE DEF one, scale, p
  <2>11. a * scale >= p * (b * one)
    BY <2>4, <2>8, <2>9 DEF scale
  <2>12. Quotient(a, b).m = HalfEven(a * scale, b * one) * one
    BY <2>3, <2>8 DEF scale, h
  <2>13. ASSUME NEW t \in Nat, Fits(t), 1000 * a <= t * b
         PROVE  \E c \in Nat : t * scale = 1000 * (c * one)
    <3>1. PICK c \in Nat : t * scale = 1000 * c
      BY <2>6, <2>13
    <3>2. c * one = c
      BY <2>8
    <3> QED
      BY <3>1, <3>2
  <2>14. KeptIn(a, b, one, k)
    BY <2>3, <2>10, <2>11, <2>12, <2>13 DEF KeptIn, scale, p
  <2> QED
    BY <2>4, <2>10, <2>14
<1> QED
  <2>1. Power[Digits] \in Int
    BY <1>1, <1>3
  <2> DEFINE d == Power[Digits]
  <2> HIDE DEF d
  <2>2. b * d \in Int
    BY <2>1 DEF d
  <2>3. a >= b * d \/ a < b * d
    BY <2>2
  <2> QED
    BY <1>4, <1>5, <2>3 DEF d

LEMMA Cancels ==
  ASSUME NEW x \in Int, NEW y \in Int, NEW b \in Nat, b >= 1
  PROVE  x * b <= y * b <=> x <= y
<1>1. ASSUME y + 1 <= x PROVE ~(x * b <= y * b)
  <2>1. (y + 1) * b <= x * b
    BY <1>1, Scaled
  <2>2. (y + 1) * b = y * b + b
    OBVIOUS
  <2>3. x * b \in Int /\ y * b \in Int
    OBVIOUS
  <2> QED
    BY <2>1, <2>2, <2>3
<1>2. x <= y => x * b <= y * b
  BY Scaled
<1> QED
  BY <1>1, <1>2

\* A percentage is within a tolerance if it is in exact arithmetic, and exceeds it
\* where it is not by half a unit in the last digit at most.
LEMMA QuotientAgrees ==
  ASSUME NEW a \in Nat, NEW b \in Nat, b >= 1, NEW t \in Nat, Fits(t),
         NEW within, within <=> Quotient(a, b).m * 1000 <= t * Power[Quotient(a, b).k]
  PROVE  /\ 1000 * a <= t * b => within
         /\ within => 1000 * a <= t * b \/ 2 * Power[Digits - 1] * (1000 * a - t * b) <= t * b
<1>1. CASE a = 0
  <2>1. Quotient(a, b).m = 0 /\ Quotient(a, b).k = 0
    BY <1>1 DEF Quotient
  <2>2. Power[0] = 1
    BY PowerStep
  <2>3. 0 <= t * b
    OBVIOUS
  <2>4. within <=> 0 * 1000 <= t * 1
    BY <2>1, <2>2
  <2> QED
    BY <1>1, <2>3, <2>4
<1>2. CASE a >= 1
  <2>1. PICK unit \in Nat, k \in Nat : KeptIn(a, b, unit, k)
    BY <1>2, QuotientKept
  <2> DEFINE p == Power[Digits - 1]
             scale == Power[k]
             h == HalfEven(a * scale, b * unit)
             exact == 1000 * a
             bound == t * b
  <2>2. p \in Nat /\ scale \in Nat /\ scale >= 1
    <3>1. Digits - 1 \in Nat
      BY DigitsAssumption
    <3>2. scale \in Nat /\ scale >= k + 1
      BY Powers
    <3> HIDE DEF scale
    <3> QED
      BY <3>1, <3>2, PowerStep
  <2>3. /\ unit >= 1 /\ a * scale >= p * (b * unit)
        /\ within <=> (h * unit) * 1000 <= t * scale
        /\ exact <= bound => \E c \in Nat : t * scale = 1000 * (c * unit)
    BY <2>1 DEF KeptIn
  <2> HIDE DEF p, scale
  <2>4. a * scale \in Nat /\ b * unit \in Nat /\ b * unit >= 1
    BY <2>2, <2>3
  <2>5. h \in Nat
    <3> DEFINE x == a * scale
               y == b * unit
    <3> HIDE DEF x, y
    <3>1. HalfEven(x, y) \in Nat
      BY <2>4, HalfEvenOf DEF x, y
    <3> QED
      BY <3>1 DEF x, y
  <2>6. /\ exact <= bound <=> 1000 * (a * scale) <= bound * scale
        /\ 1000 * (a * scale) = exact * scale
        /\ exact \in Nat /\ bound \in Nat /\ bound * scale \in Nat
    <3>1. exact \in Nat /\ bound \in Nat
      OBVIOUS
    <3>2. 1000 * (a * scale) = exact * scale
      BY <2>2
    <3> HIDE DEF exact, bound
    <3> QED
      BY <2>2, <3>1, <3>2, Cancels
  <2>7. within <=> 1000 * (h * (b * unit)) <= bound * scale
    <3> HIDE DEF h
    <3>1. ((h * unit) * 1000) * b = 1000 * (h * (b * unit))
      BY <2>5
    <3>2. (t * scale) * b = bound * scale
      BY <2>2
    <3>3. (h * unit) * 1000 \in Int /\ t * scale \in Int
      BY <2>2, <2>5
    <3> QED
      BY <2>3, <3>1, <3>2, <3>3, Cancels
  <2>8. ASSUME exact <= bound PROVE \E c \in Nat : bound * scale = 1000 * (c * (b * unit))
    <3>1. PICK c \in Nat : t * scale = 1000 * (c * unit)
      BY <2>3, <2>8
    <3>2. bound * scale = (t * scale) * b
      BY <2>2
    <3>3. (1000 * (c * unit)) * b = 1000 * (c * (b * unit))
      OBVIOUS
    <3> QED
      BY <3>1, <3>2, <3>3
  <2>9. /\ 1000 * (a * scale) <= bound * scale
           /\ (\E c \in Nat : bound * scale = 1000 * (c * (b * unit))) =>
             1000 * (h * (b * unit)) <= bound * scale
        /\ 1000 * (h * (b * unit)) <= bound * scale =>
             \/ 1000 * (a * scale) <= bound * scale
             \/ 2 * p * (1000 * (a * scale) - bound * scale) <= bound * scale
    <3> DEFINE x == a * scale
               y == b * unit
               z == bound * scale
               factor == 1000
    <3>1. x \in Nat /\ y \in Nat /\ y >= 1 /\ z \in Nat /\ x >= p * y
      BY <2>3, <2>4, <2>6
    <3>2. factor \in Nat /\ factor >= 1
      OBVIOUS
    <3> HIDE DEF x, y, z, factor
    <3>3. /\ factor * x <= z /\ (\E c \in Nat : z = factor * (c * y)) =>
               factor * (HalfEven(x, y) * y) <= z
          /\ factor * (HalfEven(x, y) * y) <= z =>
               factor * x <= z \/ 2 * p * (factor * x - z) <= z
      BY <2>2, <3>1, <3>2, HalfEvenAgrees
    <3> QED
      BY <3>3 DEF x, y, z, factor
  <2> HIDE DEF h
  <2>10. exact <= bound => within
    BY <2>6, <2>7, <2>8, <2>9
  <2>11. ASSUME within PROVE exact <= bound \/ 2 * p * (exact - bound) <= bound
    <3>1. CASE 2 * p * (1000 * (a * scale) - bound * scale) <= bound * scale
      <4> HIDE DEF exact, bound
      <4>1. 2 * p * (exact * scale - bound * scale) = (2 * p * (exact - bound)) * scale
        BY <2>2, <2>6
      <4>2. (2 * p * (exact - bound)) * scale <= bound * scale
        BY <2>6, <3>1, <4>1
      <4>3. 2 * p * (exact - bound) \in Int
        BY <2>2, <2>6
      <4> QED
        BY <2>2, <2>6, <4>2, <4>3, Cancels
    <3> QED
      BY <2>6, <2>7, <2>9, <2>11, <3>1
  <2> QED
    BY <2>10, <2>11 DEF p
<1> QED
  BY <1>1, <1>2

\* The verdict of a tolerance is that of exact arithmetic, up to half a unit in the last
\* digit kept: a difference against a number (comparisons.py:180-186, 229-255), and a
\* percentage of the source (comparisons.py:189-195, 258-318).
THEOREM EvaluationTolerancesAreExact == Spec => []TolerancesAreExact
<1>1. EvalInv => TolerancesAreExact
  <2> DEFINE s == raw["source"].n
             t == raw["target"].n
             d == t - s
  <2> SUFFICES ASSUME EvalInv, Judged, BothNumbers,
                      test.comparison \in {"EQUAL_ABS_TOLERANCE", "EQUAL_PCT_TOLERANCE"}
               PROVE  TolerancesAreExact
    BY DEF TolerancesAreExact
  <2>1. NumbersJudged
    BY JudgedNumbers DEF BothNumbers
  <2>2. test.scope = "SOURCE_TARGET" /\ test.absTol \in Nat /\ test.pctTol \in Nat
    BY <2>1, TestsAssumption DEF NumbersJudged, WellFormed, TwoSided
  <2>3. /\ s \in Int /\ t \in Int
        /\ As("EQUAL_ABS_TOLERANCE") = IF Abs(Rounded(d)) <= test.absTol THEN "PASS" ELSE "FAIL"
        /\ s # 0 => As("EQUAL_PCT_TOLERANCE")
                      = IF PercentageWithin(s, Rounded(d), test.pctTol) THEN "PASS" ELSE "FAIL"
    BY <2>1, <2>2, ComparingSides
  <2>4. normalized["source"].n = s /\ normalized["target"].n = t
    BY <2>1, <2>2, Numbers DEF NumbersJudged, Uses
  <2>5. outcome.status = As(test.comparison)
    <3>1. outcome = Compare(Request)
      BY VerdictParts, UnreadableParts DEF Judged, RefusalOf, EvalInv, OutcomeInv
    <3>2. [Request EXCEPT !.comparison = test.comparison] = Request
      BY DEF Request
    <3> QED
      BY <3>1, <3>2 DEF As
  <2>6. Difference = Abs(d)
    BY <2>4 DEF Difference
  <2>7. d \in Int
    BY <2>3
  <2> HIDE DEF d, s, t
  <2>8. Abs(Rounded(d)) = Rounded(Difference) /\ Difference \in Nat
    BY <2>6, <2>7, RoundedOf, Magnitude
  <2>9. ASSUME test.comparison = "EQUAL_ABS_TOLERANCE", Fits(test.absTol)
        PROVE  Agrees(Difference, test.absTol)
    <3>1. outcome.status = "PASS" <=> Rounded(Difference) <= test.absTol
      BY <2>3, <2>5, <2>8, <2>9
    <3>2. /\ Difference <= test.absTol => Rounded(Difference) <= test.absTol
          /\ Rounded(Difference) <= test.absTol =>
                \/ Difference <= test.absTol
                \/ 2 * Power[Digits - 1] * (Difference - test.absTol) <= test.absTol
      BY <2>2, <2>8, <2>9, RoundedAgrees
    <3> QED
      BY <3>1, <3>2 DEF Agrees
  <2>10. ASSUME test.comparison = "EQUAL_PCT_TOLERANCE", s # 0, Fits(s), Fits(Difference),
                Fits(test.pctTol)
         PROVE  Agrees(Difference * 1000, test.pctTol * Abs(s))
    <3> DEFINE a == Difference
               b == Abs(s)
               bound == test.pctTol
               q == Quotient(a, b)
               within == q.m * 1000 <= bound * Power[q.k]
    <3>1. Rounded(b) = b /\ b \in Nat /\ b >= 1
      <4>1. Abs(Rounded(s)) = Rounded(Abs(s))
        BY <2>3, RoundedOf
      <4>2. b \in Nat /\ b # 0
        BY <2>3, <2>10, Magnitude
      <4> HIDE DEF b
      <4>3. b >= 1
        BY <4>2
      <4> QED
        BY <2>10, <4>1, <4>2, <4>3 DEF b, Fits
    <3>2. Abs(Rounded(d)) = a
      BY <2>8, <2>10 DEF Fits
    <3>3. PercentageWithin(s, Rounded(d), bound) <=> within
      <4>1. PercentageWithin(s, Rounded(d), bound) <=>
              LET x == Quotient(Abs(Rounded(d)), Rounded(Abs(s)))
              IN x.m * 1000 <= bound * Power[x.k]
        BY DEF PercentageWithin
      <4> QED
        BY <3>1, <3>2, <4>1
    <3>4. outcome.status = "PASS" <=> within
      <4> HIDE DEF within
      <4> QED
        BY <2>3, <2>5, <2>10, <3>3
    <3>5. a \in Nat /\ bound \in Nat /\ Fits(bound)
      BY <2>2, <2>8, <2>10
    <3> HIDE DEF a, b, bound
    <3>6. /\ 1000 * a <= bound * b => within
          /\ within => \/ 1000 * a <= bound * b
                       \/ 2 * Power[Digits - 1] * (1000 * a - bound * b) <= bound * b
      <4>1. within <=> Quotient(a, b).m * 1000 <= bound * Power[Quotient(a, b).k]
        OBVIOUS
      <4> HIDE DEF within
      <4> QED
        BY <3>1, <3>5, <4>1, QuotientAgrees
    <3>7. a * 1000 = 1000 * a
      BY <3>5
    <3> HIDE DEF within
    <3>8. Agrees(a * 1000, bound * b)
      BY <3>4, <3>6, <3>7 DEF Agrees
    <3> QED
      BY <3>8 DEF a, b, bound
  <2> QED
    BY <2>4, <2>9, <2>10 DEF TolerancesAreExact
<1> QED
  BY <1>1, EvalInvAlways, PTL
=============================================================================
