--------------------------- MODULE PullFeedProofs ---------------------------
(***************************************************************************)
(* For any places, liars, values, ages and scales: an honest majority      *)
(* decides the value, the stored result has a valid submission and the     *)
(* rank of a median behind it, what is stale stays so, and a held value    *)
(* that is rescaled is the original, cut off at the fewest places it has   *)
(* had.                                                                    *)
(***************************************************************************)
EXTENDS PullFeed, SetInduction, FiniteSetTheorems

-----------------------------------------------------------------------------
(***************************************************************************)
(* Powers of ten, and division.                                            *)
(***************************************************************************)

\* The recursive definition has a solution.
LEMMA TenToSteps ==
  /\ TenTo \in [Nat -> Nat] /\ TenTo[0] = 1
  /\ \A n \in Nat : TenTo[n + 1] = 10 * TenTo[n]
<1> DEFINE step == [n \in Nat |-> [x \in Nat |-> 10 * x]]
           Def(f) == f = [n \in Nat |-> IF n = 0 THEN 1 ELSE 10 * f[n - 1]]
<1>1. step \in [Nat -> [Nat -> Nat]]
  OBVIOUS
<1>2. PICK f : IsRecursion(f, Nat, 1, step)
  <2> HIDE DEF step
  <2> QED
    BY <1>1, 1 \in Nat, RecursionExists
<1>3. f \in [Nat -> Nat] /\ f[0] = 1 /\ \A n \in Nat : f[n + 1] = 10 * f[n]
  BY <1>2 DEF IsRecursion
<1>4. Def(f)
  <2>1. ASSUME NEW n \in Nat \ {0} PROVE f[n] = 10 * f[n - 1]
    BY <1>3, n - 1 \in Nat, (n - 1) + 1 = n
  <2> QED
    BY <1>3, <2>1
<1>5. Def(TenTo)
  <2> HIDE DEF Def
  <2>1. TenTo = CHOOSE g : Def(g)
    BY DEF TenTo, Def
  <2> QED
    BY <1>4, <2>1
<1>6. TenTo[0] = 1 /\ \A n \in Nat : TenTo[n + 1] = 10 * TenTo[n]
  BY <1>5
<1>7. \A n \in Nat : TenTo[n] = f[n]
  <2> DEFINE Same == {n \in Nat : TenTo[n] = f[n]}
  <2>1. 0 \in Same
    BY <1>3, <1>6
  <2>2. ASSUME NEW n \in Nat, n \in Same PROVE n + 1 \in Same
    BY <2>2, <1>3, <1>6
  <2> HIDE DEF Same
  <2>3. \A n \in Nat : n \in Same
    BY <2>1, <2>2, InductionOverSet
  <2> QED
    BY <2>3 DEF Same
<1>8. TenTo \in [Nat -> Nat]
  <2>1. DOMAIN TenTo = Nat /\ TenTo = [n \in Nat |-> TenTo[n]]
    BY <1>5
  <2>2. \A n \in Nat : TenTo[n] \in Nat
    BY <1>3, <1>7
  <2> QED
    BY <2>1, <2>2
<1> QED
  BY <1>6, <1>8

LEMMA TenToPositive == \A n \in Nat : TenTo[n] \in Nat \ {0}
<1> DEFINE Good == {n \in Nat : TenTo[n] \in Nat \ {0}}
<1>1. 0 \in Good
  BY TenToSteps
<1>2. ASSUME NEW n \in Nat, n \in Good PROVE n + 1 \in Good
  BY <1>2, TenToSteps
<1> HIDE DEF Good
<1>3. \A n \in Nat : n \in Good
  BY <1>1, <1>2, InductionOverSet
<1> QED
  BY <1>3 DEF Good

\* Ten to a sum is the product.
LEMMA TenToSum == \A m, n \in Nat : TenTo[m + n] = TenTo[m] * TenTo[n]
<1> SUFFICES ASSUME NEW m \in Nat PROVE \A n \in Nat : TenTo[m + n] = TenTo[m] * TenTo[n]
  OBVIOUS
<1> DEFINE Good == {n \in Nat : TenTo[m + n] = TenTo[m] * TenTo[n]}
<1>1. 0 \in Good
  BY TenToSteps
<1>2. ASSUME NEW n \in Nat, n \in Good PROVE n + 1 \in Good
  <2>1. TenTo[m + (n + 1)] = 10 * TenTo[m + n]
    BY TenToSteps, m + (n + 1) = (m + n) + 1
  <2>2. TenTo[m + (n + 1)] = 10 * (TenTo[m] * TenTo[n])
    BY <1>2, <2>1
  <2>3. TenTo[m] \in Nat /\ TenTo[n] \in Nat /\ TenTo[n + 1] = 10 * TenTo[n]
    BY TenToSteps
  <2>4. \A a, b \in Nat : 10 * (a * b) = a * (10 * b)
    OBVIOUS
  <2> QED
    BY <2>2, <2>3, <2>4
<1> HIDE DEF Good
<1>3. \A n \in Nat : n \in Good
  BY <1>1, <1>2, InductionOverSet
<1> QED
  BY <1>3 DEF Good

\* Division by what is above zero.
LEMMA Division ==
  ASSUME NEW a \in Nat, NEW b \in Nat \ {0}
  PROVE  /\ a \div b \in Nat
         /\ b * (a \div b) <= a /\ a < b * (a \div b) + b
<1>1. a \div b \in Int /\ a = b * (a \div b) + (a % b) /\ 0 <= a % b /\ a % b < b
  OBVIOUS
<1>2. a \div b >= 0
  OBVIOUS
<1> QED
  BY <1>1, <1>2

LEMMA Monotone ==
  ASSUME NEW a \in Nat, NEW b \in Nat, NEW c \in Nat, a <= b
  PROVE  a * c <= b * c /\ c * a <= c * b
  OBVIOUS

LEMMA DivisionUnique ==
  ASSUME NEW a \in Nat, NEW b \in Nat \ {0}, NEW q \in Nat, b * q <= a, a < b * q + b
  PROVE  a \div b = q
<1> DEFINE p == a \div b
<1>1. p \in Nat /\ b * p <= a /\ a < b * p + b
  BY Division
<1> HIDE DEF p
<1>2. ASSUME p < q PROVE FALSE
  <2>1. b * (p + 1) <= b * q
    BY <1>1, <1>2, Monotone, p + 1 \in Nat, p + 1 <= q
  <2>2. b * (p + 1) = b * p + b
    BY <1>1
  <2> QED
    BY <1>1, <2>1, <2>2
<1>3. ASSUME q < p PROVE FALSE
  <2>1. b * (q + 1) <= b * p
    BY <1>1, <1>3, Monotone, q + 1 \in Nat, q + 1 <= p
  <2>2. b * (q + 1) = b * q + b
    OBVIOUS
  <2> QED
    BY <1>1, <2>1, <2>2
<1> QED
  BY <1>1, <1>2, <1>3 DEF p

\* What is a multiple of the divisor loses nothing.
LEMMA ExactDivision ==
  ASSUME NEW k \in Nat, NEW b \in Nat \ {0}
  PROVE  (k * b) \div b = k
<1>1. k * b \in Nat /\ b * k = k * b
  OBVIOUS
<1> QED
  BY <1>1, DivisionUnique

\* Cutting off twice is cutting off once.
LEMMA NestedDivision ==
  ASSUME NEW a \in Nat, NEW b \in Nat \ {0}, NEW c \in Nat \ {0}
  PROVE  (a \div b) \div c = a \div (b * c)
<1> DEFINE q == a \div b
           p == q \div c
<1>1. q \in Nat /\ b * q <= a /\ a < b * q + b
  BY Division
<1> HIDE DEF q
<1>2. p \in Nat /\ c * p <= q /\ q < c * p + c
  BY <1>1, Division
<1> HIDE DEF p
<1>3. b * c \in Nat \ {0}
  OBVIOUS
<1>4. (b * c) * p <= a
  <2>1. b * (c * p) <= b * q
    BY <1>1, <1>2, Monotone, c * p \in Nat
  <2>2. (b * c) * p = b * (c * p)
    BY <1>2
  <2> QED
    BY <1>1, <1>2, <2>1, <2>2
<1>5. a < (b * c) * p + b * c
  <2>1. b * (q + 1) <= b * (c * p + c)
    BY <1>1, <1>2, Monotone, c * p + c \in Nat, q + 1 \in Nat, q + 1 <= c * p + c
  <2>2. b * (c * p + c) = (b * c) * p + b * c /\ b * (q + 1) = b * q + b
    BY <1>1, <1>2
  <2> QED
    BY <1>1, <1>2, <2>1, <2>2
<1>6. a \div (b * c) = p
  BY <1>2, <1>3, <1>4, <1>5, DivisionUnique
<1> QED
  BY <1>6 DEF p, q

-----------------------------------------------------------------------------
(***************************************************************************)
(* The inductive invariant.                                                *)
(***************************************************************************)

\* The result is that of the submissions that were recent when the last one
\* landed, if they were enough; and what is at its place is no older than it.
Considered == {p \in Places : submissions[p] # Empty /\ submissions[p].slot + MaxStaleness >= landed}

ResultOfConsidered ==
    /\ result.submission_idx \in Considered
    /\ result.value = lower_bound_median(ValuesOf(submissions, Considered))
    /\ result.value = submissions[result.submission_idx].value
    /\ result.slot = submissions[result.submission_idx].slot

ResultInv ==
    /\ result.slot = 0 => result = NoResult
    /\ result.slot # 0 => /\ result.value \in Values
                          /\ submissions[result.submission_idx].slot >= result.slot
    /\ Cardinality(Considered) >= MinSampleSize => ResultOfConsidered

\* Oracles that are no liars submit honest values, and nothing is newer than the
\* last landing.
HonestInv ==
    \A p \in Places : submissions[p] # Empty =>
        /\ submissions[p].slot <= landed
        /\ p \notin Liars => submissions[p].value \in Honest

Numbers == [mantissa : Int, scale : Nat]
HeldValues == [number : Numbers, made : Numbers, coarsest : Nat, wild : BOOLEAN]

\* A held number is the original, cut off at the coarsest scale, with zeros behind.
CutOff(h) ==
    /\ Magnitude(h.number.mantissa) =
          (Magnitude(h.made.mantissa) \div TenTo[h.made.scale - h.coarsest])
             * TenTo[h.number.scale - h.coarsest]
    /\ h.number.mantissa # 0 => (h.number.mantissa < 0) = (h.made.mantissa < 0)

HeldInv ==
    held # NoValue =>
        /\ held \in HeldValues
        /\ held.made.scale = Precision /\ Magnitude(held.made.mantissa) <= DecimalMax
        /\ held.coarsest <= held.number.scale /\ held.coarsest <= Precision
        /\ ~ held.wild => CutOff(held)

IInv == FeedInv /\ HonestInv /\ ResultInv /\ HeldInv

-----------------------------------------------------------------------------
(***************************************************************************)
(* Rescaling.                                                              *)
(***************************************************************************)

LEMMA Magnitudes ==
  ASSUME NEW x \in Int
  PROVE  Magnitude(x) \in Nat /\ (Magnitude(x) = 0 <=> x = 0)
  BY DEF Magnitude

\* Quotient by a power of ten: the magnitude is divided, the sign stays.
LEMMA QuotientByPositive ==
  ASSUME NEW a \in Int, NEW b \in Nat \ {0}
  PROVE  /\ Quotient(a, b) \in Int
         /\ Magnitude(Quotient(a, b)) = Magnitude(a) \div b
         /\ Quotient(a, b) # 0 => (a # 0 /\ (Quotient(a, b) < 0) = (a < 0))
<1> DEFINE q == Magnitude(a) \div b
<1>1. Magnitude(a) \in Nat /\ q \in Nat /\ b * q <= Magnitude(a)
  BY Magnitudes, Division
<1>2. Quotient(a, b) = IF a < 0 THEN -q ELSE q
  BY DEF Quotient, Magnitude
<1>3. a = 0 => q = 0
  BY <1>1 DEF Magnitude
<1> HIDE DEF q
<1>4. Magnitude(Quotient(a, b)) = q
  BY <1>1, <1>2 DEF Magnitude
<1> QED
  BY <1>1, <1>2, <1>3, <1>4 DEF q

LEMMA ProductWithPositive ==
  ASSUME NEW a \in Int, NEW b \in Nat \ {0}
  PROVE  /\ a * b \in Int
         /\ Magnitude(a * b) = Magnitude(a) * b
         /\ a * b # 0 => (a # 0 /\ (a * b < 0) = (a < 0))
<1>1. CASE a < 0
  <2>1. -a \in Nat \ {0} /\ -(a * b) = (-a) * b
    BY <1>1
  <2>2. (-a) * b > 0
    BY <2>1
  <2> QED
    BY <1>1, <2>1, <2>2 DEF Magnitude
<1>2. CASE a >= 0
  <2>1. a * b >= 0 /\ (a = 0 => a * b = 0)
    BY <1>2
  <2> QED
    BY <1>2, <2>1 DEF Magnitude
<1> QED
  BY <1>1, <1>2

\* The number of decimal places of a power of ten that was cut and not filled up.
LEMMA TenToSplit ==
  ASSUME NEW a \in Nat, NEW b \in Nat, b <= a
  PROVE  TenTo[a] = TenTo[a - b] * TenTo[b] /\ a - b \in Nat
  BY TenToSum, a - b \in Nat, (a - b) + b = a

\* Fewer places: what is not more than the coarsest scale is cut off anew, and of
\* the rest there are only zeros to cut.
LEMMA CutOffDown ==
  ASSUME NEW m \in Nat, NEW made \in Nat, NEW p \in Nat, NEW c \in Nat, NEW s \in Nat,
         NEW t \in Nat, c <= p, c <= s, t < s,
         m = (made \div TenTo[p - c]) * TenTo[s - c],
         NEW d, d = IF t < c THEN t ELSE c
  PROVE  m \div TenTo[s - t] = (made \div TenTo[p - d]) * TenTo[t - d]
<1> DEFINE k == made \div TenTo[p - c]
<1>1. p - c \in Nat /\ s - c \in Nat /\ s - t \in Nat
  OBVIOUS
<1>2. k \in Nat
  BY <1>1, TenToPositive, Division
<1>3. CASE t < c
  <2>1. c - t \in Nat /\ p - t \in Nat /\ s - t = (s - c) + (c - t) /\ p - t = (p - c) + (c - t)
    BY <1>3
  <2>2. TenTo[s - t] = TenTo[s - c] * TenTo[c - t]
    BY <1>1, <2>1, TenToSum
  <2>3. TenTo[p - t] = TenTo[p - c] * TenTo[c - t]
    BY <1>1, <2>1, TenToSum
  <2>4. /\ TenTo[s - c] \in Nat \ {0} /\ TenTo[c - t] \in Nat \ {0}
        /\ TenTo[p - c] \in Nat \ {0}
    BY <1>1, <2>1, TenToPositive
  <2> HIDE DEF k
  <2>5. m = k * TenTo[s - c] /\ m \in Nat
    BY DEF k
  <2>6. m \div TenTo[s - t] = (m \div TenTo[s - c]) \div TenTo[c - t]
    BY <2>2, <2>4, NestedDivision
  <2>7. m \div TenTo[s - c] = k
    BY <1>2, <2>4, <2>5, ExactDivision
  <2>8. k \div TenTo[c - t] = made \div TenTo[p - t]
    BY <2>3, <2>4, NestedDivision DEF k
  <2>9. TenTo[t - t] = 1 /\ made \div TenTo[p - t] \in Nat
    BY <2>1, TenToSteps, TenToPositive, Division, t - t = 0
  <2>10. (made \div TenTo[p - t]) * TenTo[t - t] = made \div TenTo[p - t]
    BY <2>9
  <2> QED
    BY <1>3, <2>6, <2>7, <2>8, <2>10
<1>4. CASE ~ (t < c)
  <2>1. t - c \in Nat /\ s - c = (t - c) + (s - t)
    BY <1>4
  <2>2. TenTo[s - c] = TenTo[t - c] * TenTo[s - t]
    BY <1>1, <2>1, TenToSum
  <2>3. TenTo[t - c] \in Nat /\ TenTo[s - t] \in Nat \ {0}
    BY <1>1, <2>1, TenToPositive
  <2> HIDE DEF k
  <2>4. m = k * (TenTo[t - c] * TenTo[s - t])
    BY <2>2 DEF k
  <2>5. \A x, y, z \in Nat : x * (y * z) = (x * y) * z
    OBVIOUS
  <2>6. m = (k * TenTo[t - c]) * TenTo[s - t] /\ k * TenTo[t - c] \in Nat
    BY <1>2, <2>3, <2>4, <2>5
  <2>7. m \div TenTo[s - t] = k * TenTo[t - c]
    BY <2>3, <2>6, ExactDivision
  <2> QED
    BY <1>4, <2>7 DEF k
<1> QED
  BY <1>3, <1>4

\* 10_i128.pow is a power of ten unless it is out of reach.
LEMMA PowerInReach ==
  ASSUME NEW n \in Nat, NEW b \in BOOLEAN, FitsI128(TenTo[n])
  PROVE  Power(n, b) = Ok(TenTo[n])
  BY DEF Power

LEMMA WrappedType ==
  ASSUME NEW x \in Int
  PROVE  Wrapped(x) \in Int
<1>1. I128Max \in Nat
  BY DecimalAssumption
<1>2. 2 * I128Max + 2 \in Nat \ {0} /\ x + I128Max + 1 \in Int
  BY <1>1
<1>3. (x + I128Max + 1) % (2 * I128Max + 2) \in Int
  BY <1>2
<1> QED
  BY <1>1, <1>3 DEF Wrapped

LEMMA PowerType ==
  ASSUME NEW n \in Nat, NEW b \in BOOLEAN
  PROVE  Power(n, b).value \in Int
<1>1. TenTo[n] \in Int
  BY TenToSteps
<1>2. Wrapped(TenTo[n]) \in Int
  BY <1>1, WrappedType
<1> QED
  BY <1>1, <1>2 DEF Power, Ok, Panic

LEMMA QuotientType ==
  ASSUME NEW a \in Int, NEW b \in Int \ {0}
  PROVE  Quotient(a, b) \in Int
<1>1. Magnitude(a) \in Nat /\ Magnitude(b) \in Nat \ {0}
  BY Magnitudes
<1>2. Magnitude(a) \div Magnitude(b) \in Nat
  BY <1>1, Division
<1> QED
  BY <1>2 DEF Quotient

\* Whatever scale_to answers with is a number.
LEMMA ScaleToType ==
  ASSUME NEW d \in Numbers, NEW s \in Nat, NEW b \in BOOLEAN
  PROVE  scale_to(d, s, b).value \in Int
<1>1. d.mantissa \in Int /\ d.scale \in Nat
  BY DEF Numbers
<1>2. Magnitude(d.scale - s) \in Nat
  BY <1>1, Magnitudes, d.scale - s \in Int
<1> DEFINE power == Power(Magnitude(d.scale - s), b)
<1>3. power.value \in Int
  BY <1>2, PowerType
<1> HIDE DEF power
<1>4. power.value # 0 => Quotient(d.mantissa, power.value) \in Int
  BY <1>1, <1>3, QuotientType
<1>5. d.mantissa * power.value \in Int
  BY <1>1, <1>3
<1> QED
  BY <1>1, <1>4, <1>5 DEF scale_to, Ok, Panic, power

\* Cut off at a coarsest scale, a number comes out of scale_to cut off at the
\* coarser of that and the new one.
LEMMA ScaleToCutsOff ==
  ASSUME NEW h \in HeldValues, CutOff(h), NEW s \in Nat, NEW b \in BOOLEAN,
         h.coarsest <= h.number.scale, h.coarsest <= h.made.scale,
         FitsI128(TenTo[Magnitude(h.number.scale - s)]),
         scale_to(h.number, s, b).error = "none",
         NEW g \in HeldValues, g.made = h.made,
         g.number = [mantissa |-> scale_to(h.number, s, b).value, scale |-> s],
         g.coarsest = IF s < h.coarsest THEN s ELSE h.coarsest
  PROVE  CutOff(g)
<1> DEFINE m == h.number.mantissa
           n == h.number.scale
           M == h.made.mantissa
           p == h.made.scale
           c == h.coarsest
           kept == Magnitude(M) \div TenTo[p - c]
           r == scale_to(h.number, s, b)
           e == IF s < c THEN s ELSE c
<1>1. m \in Int /\ n \in Nat /\ M \in Int /\ p \in Nat /\ c \in Nat /\ c <= n /\ c <= p
  BY DEF HeldValues, Numbers
<1>2. Magnitude(m) = kept * TenTo[n - c] /\ (m # 0 => (m < 0) = (M < 0))
  BY DEF CutOff
<1>3. Magnitude(m) \in Nat /\ Magnitude(M) \in Nat /\ kept \in Nat
  BY <1>1, Magnitudes, Division, TenToPositive, p - c \in Nat
<1>4. /\ g.made.mantissa = M /\ g.made.scale = p /\ g.coarsest = e
      /\ g.number.mantissa = r.value /\ g.number.scale = s
  OBVIOUS
<1>5. SUFFICES /\ Magnitude(r.value) = (Magnitude(M) \div TenTo[p - e]) * TenTo[s - e]
               /\ r.value # 0 => (r.value < 0) = (M < 0)
  BY <1>4 DEF CutOff
<1>6. CASE n = s
  <2>1. r.value = m /\ e = c
    BY <1>1, <1>6 DEF scale_to, Ok
  <2> QED
    BY <1>2, <1>6, <2>1
<1>7. CASE s < n
  <2>1. n - s \in Nat /\ Magnitude(n - s) = n - s /\ n # s /\ n > s
    BY <1>1, <1>7 DEF Magnitude
  <2>2. Power(n - s, b) = Ok(TenTo[n - s]) /\ TenTo[n - s] \in Nat \ {0}
    BY <2>1, PowerInReach, TenToPositive
  <2>3. r.value = Quotient(m, TenTo[n - s])
    BY <2>1, <2>2 DEF scale_to, Ok
  <2>4. /\ Magnitude(r.value) = Magnitude(m) \div TenTo[n - s]
        /\ r.value # 0 => (m # 0 /\ (r.value < 0) = (m < 0))
    BY <1>1, <2>2, <2>3, QuotientByPositive
  <2>5. Magnitude(m) \div TenTo[n - s] = (Magnitude(M) \div TenTo[p - e]) * TenTo[s - e]
    <3> HIDE DEF m, n, M, p, c, e
    <3> QED
      BY <1>1, <1>2, <1>3, <1>7, CutOffDown DEF e, kept
  <2> QED
    BY <1>2, <2>4, <2>5
<1>8. CASE n < s
  <2>1. s - n \in Nat /\ Magnitude(n - s) = s - n /\ n # s /\ ~ (n > s) /\ e = c
    BY <1>1, <1>8 DEF Magnitude
  <2>2. Power(s - n, b) = Ok(TenTo[s - n]) /\ TenTo[s - n] \in Nat \ {0}
    BY <2>1, PowerInReach, TenToPositive
  <2>3. r.value = m * TenTo[s - n]
    BY <2>1, <2>2 DEF scale_to, Ok, Panic
  <2>4. /\ Magnitude(r.value) = Magnitude(m) * TenTo[s - n]
        /\ r.value # 0 => (m # 0 /\ (r.value < 0) = (m < 0))
    BY <1>1, <2>2, <2>3, ProductWithPositive
  <2>5. Magnitude(m) * TenTo[s - n] = kept * TenTo[s - c]
    <3>1. n - c \in Nat /\ s - c = (n - c) + (s - n)
      BY <1>1, <1>8
    <3>2. TenTo[s - c] = TenTo[n - c] * TenTo[s - n] /\ TenTo[n - c] \in Nat
      BY <2>1, <3>1, TenToSum, TenToSteps
    <3>3. \A x, y, z \in Nat : (x * y) * z = x * (y * z)
      OBVIOUS
    <3> HIDE DEF m, kept
    <3>4. (kept * TenTo[n - c]) * TenTo[s - n] = kept * (TenTo[n - c] * TenTo[s - n])
      BY <1>3, <2>2, <3>2, <3>3
    <3> QED
      BY <1>2, <3>2, <3>4
  <2> QED
    BY <1>2, <2>1, <2>4, <2>5
<1> QED
  BY <1>1, <1>6, <1>7, <1>8

\* The smaller of two numbers.
LEMMA MinOfTwo ==
  ASSUME NEW a \in Int, NEW b \in Int
  PROVE  Min({a, b}) = IF b < a THEN b ELSE a
<1> DEFINE c == IF b < a THEN b ELSE a
<1>1. c \in {a, b} /\ \A y \in {a, b} : c <= y
  OBVIOUS
<1>2. \A x \in {a, b} : (\A y \in {a, b} : x <= y) => x = c
  OBVIOUS
<1> QED
  BY <1>1, <1>2 DEF Min

LEMMA RescaleHeldInv ==
  ASSUME HeldInv, checked \in BOOLEAN, NEW s \in Scales, Rescale(s)
  PROVE  HeldInv'
<1> DEFINE r == scale_to(held.number, s, checked)
<1>1. s \in Nat /\ held # NoValue
  BY FeedAssumption DEF Rescale
<1>2. /\ held \in HeldValues /\ held.made.scale = Precision
      /\ Magnitude(held.made.mantissa) <= DecimalMax
      /\ held.coarsest <= held.number.scale /\ held.coarsest <= Precision
      /\ ~ held.wild => CutOff(held)
  BY <1>1 DEF HeldInv
<1>3. r.error = "none"
  BY DEF Rescale
<1>4. held.number \in Numbers /\ held.coarsest \in Nat /\ held.made \in Numbers
      /\ held.wild \in BOOLEAN /\ held.number.scale \in Nat
  BY <1>2 DEF HeldValues, Numbers
<1>5. r.value \in Int
  BY <1>1, <1>4, ScaleToType
<1>6. held' = [held EXCEPT !.number = [mantissa |-> r.value, scale |-> s],
                           !.coarsest = Min({held.coarsest, s}),
                           !.wild = held.wild \/ ~ FitsI128(TenTo[Magnitude(held.number.scale - s)])]
  BY DEF Rescale
<1>7. Min({held.coarsest, s}) = IF s < held.coarsest THEN s ELSE held.coarsest
  BY <1>1, <1>4, MinOfTwo
<1> HIDE DEF r
<1>8. /\ held'.number = [mantissa |-> r.value, scale |-> s]
      /\ held'.made = held.made
      /\ held'.coarsest = IF s < held.coarsest THEN s ELSE held.coarsest
      /\ held'.wild = (held.wild \/ ~ FitsI128(TenTo[Magnitude(held.number.scale - s)]))
  BY <1>2, <1>6, <1>7 DEF HeldValues
<1>9. held' \in HeldValues
  <2>1. [mantissa |-> r.value, scale |-> s] \in Numbers
    BY <1>1, <1>5 DEF Numbers
  <2>2. Min({held.coarsest, s}) \in Nat
    BY <1>1, <1>4, <1>7
  <2> QED
    BY <1>2, <1>6, <2>1, <2>2 DEF HeldValues
<1>10. held'.coarsest <= held'.number.scale /\ held'.coarsest <= Precision
  BY <1>1, <1>2, <1>4, <1>8, FeedAssumption, DecimalAssumption
<1>11. ASSUME ~ held'.wild PROVE CutOff(held')
  <2>1. ~ held.wild /\ FitsI128(TenTo[Magnitude(held.number.scale - s)])
    BY <1>8, <1>11
  <2>2. CutOff(held)
    BY <1>2, <2>1
  <2> QED
    BY <1>1, <1>2, <1>3, <1>8, <1>9, <2>1, <2>2, ScaleToCutsOff DEF r
<1>12. CutOff(held)' = CutOff(held')
  BY DEF CutOff
<1> QED
  BY <1>2, <1>8, <1>9, <1>10, <1>11, <1>12 DEF HeldInv

-----------------------------------------------------------------------------
(***************************************************************************)
(* The median.                                                             *)
(***************************************************************************)

\* It is one of the numbers, and of how many it lies between.
HasMedianRank(m, f, D) ==
    /\ \E i \in D : m = f[i]
    /\ 2 * Cardinality({i \in D : f[i] < m}) <= Cardinality(D)
    /\ 2 * Cardinality({i \in D : f[i] > m}) < Cardinality(D)

\* Every place in the sorted array is taken, so there is one in the middle; at
\* most half of the numbers are below it, and fewer than half above.
LEMMA MedianRank ==
  ASSUME NEW D, D \subseteq Nat, IsFiniteSet(D), D # {}, NEW f \in [D -> Int],
         NEW m, m = lower_bound_median(f)
  PROVE  HasMedianRank(m, f, D)
<1> DEFINE Sorted == {p \in D \X D : \/ f[p[1]] < f[p[2]]
                                     \/ f[p[1]] = f[p[2]] /\ p[1] < p[2]}
           rank == Rank(Sorted, D)
           n == Cardinality(D)
           Ahead(i) == {j \in D : f[j] < f[i] \/ (f[j] = f[i] /\ j < i)}
<1>1. \A i \in D : f[i] \in Int /\ i \in Nat
  OBVIOUS
<1>2. IsStrictOrder(Sorted, D)
  BY <1>1 DEF IsStrictOrder
<1>3. \A i, j \in D : <<j, i>> \in Sorted <=> f[j] < f[i] \/ (f[j] = f[i] /\ j < i)
  OBVIOUS
<1>4. \A i \in D : rank[i] = Cardinality(Ahead(i))
  <2> HIDE DEF Sorted
  <2> SUFFICES ASSUME NEW i \in D PROVE rank[i] = Cardinality(Ahead(i))
    OBVIOUS
  <2>1. {j \in D : <<j, i>> \in Sorted} = Ahead(i)
    BY <1>3
  <2>2. rank[i] = Cardinality({j \in D : <<j, i>> \in Sorted})
    BY DEF Rank
  <2> QED
    BY <2>1, <2>2
<1> HIDE DEF Sorted
<1>5. /\ n \in Nat
      /\ \A k \in 0 .. n - 1 : \E i \in D : rank[i] = k
  BY <1>2, RankIsPlace
<1>6. n >= 1 /\ n \div 2 \in 0 .. n - 1 /\ 2 * (n \div 2) <= n /\ n <= 2 * (n \div 2) + 1
  BY <1>5, FS_EmptySet
<1> DEFINE i == CHOOSE k \in D : Cardinality(Ahead(k)) = n \div 2
<1>7. i \in D /\ Cardinality(Ahead(i)) = n \div 2
  <2> HIDE DEF rank, n, Ahead
  <2>1. \E k \in D : rank[k] = n \div 2
    BY <1>5, <1>6
  <2>2. \E k \in D : Cardinality(Ahead(k)) = n \div 2
    BY <1>4, <2>1
  <2> QED
    BY <2>2
<1>8. m = f[i]
  BY DEF lower_bound_median
<1> HIDE DEF i, n, rank
<1>9. 2 * Cardinality({j \in D : f[j] < m}) <= n
  <2> DEFINE below == {j \in D : f[j] < m}
  <2>1. below \in SUBSET Ahead(i) /\ Ahead(i) \in SUBSET D
    BY <1>8
  <2> HIDE DEF below, Ahead
  <2>2. IsFiniteSet(Ahead(i))
    BY <2>1, FS_Subset
  <2>3. Cardinality(below) <= n \div 2 /\ Cardinality(below) \in Nat
    BY <1>7, <2>1, <2>2, FS_Subset, FS_CardinalityType
  <2>4. 2 * Cardinality(below) <= n
    BY <1>5, <1>6, <2>3
  <2> QED
    BY <2>4 DEF below
<1>10. 2 * Cardinality({j \in D : f[j] > m}) < n
  <2> DEFINE above == {j \in D : f[j] > m}
             upTo == Ahead(i) \cup {i}
             others == D \ upTo
  <2>1. above \in SUBSET others
    <3>1. \A j \in D : f[j] > f[i] => j # i /\ ~ (f[j] < f[i] \/ (f[j] = f[i] /\ j < i))
      BY <1>1, <1>7
    <3> QED
      BY <1>8, <3>1
  <2>2. Ahead(i) \in SUBSET D /\ i \notin Ahead(i) /\ D \cap upTo = upTo
    BY <1>1, <1>7
  <2> HIDE DEF Ahead, above
  <2>3. Cardinality(upTo) = n \div 2 + 1
    <3>1. IsFiniteSet(Ahead(i))
      BY <2>2, FS_Subset
    <3> QED
      BY <1>7, <2>2, <3>1, FS_AddElement
  <2> HIDE DEF upTo
  <2>4. IsFiniteSet(others) /\ Cardinality(others) = n - (n \div 2 + 1)
    <3>1. IsFiniteSet(others) /\ Cardinality(others) = Cardinality(D) - Cardinality(D \cap upTo)
      BY FS_Difference
    <3> QED
      BY <2>2, <2>3, <3>1 DEF n
  <2> HIDE DEF others
  <2>5. Cardinality(above) <= n - (n \div 2 + 1) /\ Cardinality(above) \in Nat
    BY <2>1, <2>4, FS_Subset, FS_CardinalityType
  <2>6. 2 * Cardinality(above) < n
    BY <1>5, <1>6, <2>5
  <2> QED
    BY <2>6 DEF above
<1> QED
  BY <1>7, <1>8, <1>9, <1>10 DEF n, HasMedianRank

-----------------------------------------------------------------------------
(***************************************************************************)
(* Each action preserves the invariant.                                    *)
(***************************************************************************)

LEMMA PlacesFinite ==
  /\ Places \subseteq Nat /\ IsFiniteSet(Places)
  /\ \A S \in SUBSET Places : IsFiniteSet(S) /\ Cardinality(S) \in Nat
<1>1. MaxSubmissions \in Nat
  BY FeedAssumption
<1>2. IsFiniteSet(1 .. MaxSubmissions)
  BY <1>1, FS_Interval, 1 \in Int, MaxSubmissions \in Int
<1>3. \A S \in SUBSET Places : IsFiniteSet(S)
  BY <1>2, FS_Subset DEF Places
<1> QED
  BY <1>1, <1>2, <1>3, FS_CardinalityType DEF Places

LEMMA InitIInv == Init => IInv
<1> SUFFICES ASSUME Init PROVE IInv
  OBVIOUS
<1>1. \A p \in Places : submissions[p] = Empty
  BY DEF Init
<1>2. FeedInv
  BY <1>1, FeedAssumption DEF Init, FeedInv, NoResult, Slots
<1>3. HonestInv
  BY <1>1 DEF HonestInv
<1>4. ResultInv
  <2>1. Considered = {}
    BY <1>1 DEF Considered
  <2>2. Cardinality(Considered) = 0
    BY <2>1, FS_EmptySet
  <2> QED
    BY <2>2, FeedAssumption DEF Init, ResultInv, NoResult
<1>5. HeldInv
  <2> SUFFICES ASSUME held # NoValue PROVE HeldInv
    BY DEF HeldInv
  <2>1. PICK v \in Values : Magnitude(v) <= DecimalMax /\ held = Holding(v)
    BY DEF Init
  <2>2. v \in Int /\ Magnitude(v) \in Nat /\ Precision \in Nat
    BY FeedAssumption, DecimalAssumption, Magnitudes
  <2>3. /\ held.number = [mantissa |-> v, scale |-> Precision]
        /\ held.made = [mantissa |-> v, scale |-> Precision]
        /\ held.coarsest = Precision /\ held \in HeldValues
    BY <2>1, <2>2 DEF Holding, HeldValues, Numbers
  <2>4. CutOff(held)
    <3>1. TenTo[Precision - Precision] = 1
      BY <2>2, TenToSteps, Precision - Precision = 0
    <3>2. (Magnitude(v) \div 1) * 1 = Magnitude(v)
      BY <2>2
    <3> QED
      BY <2>2, <2>3, <3>1, <3>2 DEF CutOff
  <2> QED
    BY <2>1, <2>2, <2>3, <2>4 DEF HeldInv
<1> QED
  BY <1>2, <1>3, <1>4, <1>5 DEF IInv

\* What does not touch the feed leaves what is said of it alone.
LEMMA SameFeed ==
  ASSUME FeedInv, HonestInv, ResultInv, UNCHANGED feed, clock' \in Slots, clock <= clock',
         checked' \in BOOLEAN
  PROVE  FeedInv' /\ HonestInv' /\ ResultInv'
<1>1. submissions' = submissions /\ landed' = landed /\ result' = result
  BY DEF feed
<1>2. clock \in Nat /\ clock' \in Nat
  BY FeedAssumption DEF FeedInv, Slots
<1>3. Taken' = Taken /\ Considered' = Considered
  BY <1>1 DEF Taken, Considered
<1>4. FeedInv'
  BY <1>1, <1>2, <1>3 DEF FeedInv
<1>5. HonestInv'
  BY <1>1 DEF HonestInv
<1>6. ResultInv'
  BY <1>1, <1>3 DEF ResultInv, ResultOfConsidered, ValuesOf
<1> QED
  BY <1>4, <1>5, <1>6

\* The median of submissions is the value of one of them.
LEMMA MedianIsValue ==
  ASSUME NEW subs, NEW S \in SUBSET Places, S # {}, \A p \in S : subs[p].value \in Int
  PROVE  \E p \in S : subs[p].value = lower_bound_median(ValuesOf(subs, S))
<1> DEFINE f == ValuesOf(subs, S)
<1>1. f \in [S -> Int] /\ \A p \in S : f[p] = subs[p].value
  BY DEF ValuesOf
<1>2. S \subseteq Nat /\ IsFiniteSet(S)
  BY PlacesFinite
<1> DEFINE m == lower_bound_median(f)
<1> HIDE DEF f
<1>3. \E p \in S : m = f[p]
  <2>1. m = lower_bound_median(f) /\ f \in [S -> Int] /\ S \subseteq Nat /\ IsFiniteSet(S)
    BY <1>1, <1>2
  <2> HIDE DEF m
  <2>2. HasMedianRank(m, f, S)
    BY S # {}, <2>1, MedianRank
  <2> QED
    BY <2>2 DEF HasMedianRank
<1> QED
  BY <1>1, <1>3 DEF f

LEMMA LandIInv ==
  ASSUME FeedInv, HonestInv, ResultInv, NEW p \in Places, Land(p)
  PROVE  FeedInv' /\ HonestInv' /\ ResultInv'
<1>1. PICK s \in 1 .. clock, v \in IF p \in Liars THEN Values ELSE Honest :
         /\ submissions[p] # Empty => submissions[p].slot <= s
         /\ Store(p, [slot |-> s, value |-> v])
  BY DEF Land
<1> DEFINE subs == [submissions EXCEPT ![p] = [slot |-> s, value |-> v]]
<1>2. /\ submissions' = subs /\ landed' = clock /\ clock' = clock /\ checked' = checked
      /\ result' = Recomputed(subs)
  BY <1>1 DEF Store
<1>3. /\ clock \in Nat /\ clock <= MaxSlot /\ s \in Nat /\ 1 <= s /\ s <= clock
      /\ v \in Values /\ Values \subseteq Int /\ MaxSlot \in Nat /\ landed \in Nat /\ landed <= clock
  BY FeedAssumption DEF FeedInv, Slots
<1>4. /\ subs[p] = [slot |-> s, value |-> v]
      /\ \A q \in Places : q # p => subs[q] = submissions[q]
      /\ subs \in [Places -> [slot : Slots, value : Values] \cup {Empty}]
  BY <1>3 DEF FeedInv, Slots
<1>5. subs[p] # Empty
  <2>1. [slot |-> s, value |-> v] \in [slot : 1 .. MaxSlot, value : Values]
    BY <1>3
  <2> QED
    BY <1>4, <2>1, FeedAssumption
<1> HIDE DEF subs
<1>6. \A q \in Places : subs[q] # Empty =>
         /\ subs[q].slot \in 1 .. clock /\ subs[q].value \in Values
         /\ \A r \in 1 .. q : subs[r] # Empty
  <2> SUFFICES ASSUME NEW q \in Places, subs[q] # Empty
               PROVE  /\ subs[q].slot \in 1 .. clock /\ subs[q].value \in Values
                      /\ \A r \in 1 .. q : subs[r] # Empty
    OBVIOUS
  <2>1. \A r \in 1 .. q : r \in Places
    BY FeedAssumption DEF Places
  <2>2. CASE q = p
    <3>1. \A r \in 1 .. p - 1 : submissions[r] # Empty
      BY DEF Land
    <3>2. \A r \in 1 .. p : r = p \/ r \in 1 .. p - 1
      BY PlacesFinite
    <3> QED
      BY <1>3, <1>4, <1>5, <2>1, <2>2, <3>1, <3>2
  <2>3. CASE q # p
    <3>1. /\ submissions[q] # Empty /\ submissions[q].slot \in 1 .. clock /\ q \in Taken
          /\ submissions[q] \in [slot : Slots, value : Values]
      BY <1>4, <2>3 DEF FeedInv
    <3>2. \A r \in 1 .. q : submissions[r] # Empty
      BY <3>1 DEF Taken
    <3> QED
      BY <1>4, <1>5, <2>1, <2>3, <3>1, <3>2
  <2> QED
    BY <2>2, <2>3
<1>7. Taken' = {q \in Places : \A r \in 1 .. q : subs[r] # Empty}
  BY <1>2 DEF Taken
<1>8. HonestInv'
  BY <1>1, <1>2, <1>3, <1>4, <1>6 DEF HonestInv
<1> DEFINE considered == {q \in Places : subs[q] # Empty /\ subs[q].slot + MaxStaleness >= clock}
           median == lower_bound_median(ValuesOf(subs, considered))
           place == CHOOSE q \in considered : subs[q].value = median
<1>9. Considered' = considered
  BY <1>2 DEF Considered
<1>10. result' = IF Cardinality(considered) < MinSampleSize THEN result
                 ELSE [slot |-> subs[place].slot, value |-> median, submission_idx |-> place]
  BY <1>2 DEF Recomputed
<1>11. CASE Cardinality(considered) < MinSampleSize
  <2>1. result' = result
    BY <1>10, <1>11
  <2>2. result.slot # 0 => result.submission_idx \in Taken'
                           /\ subs[result.submission_idx].slot >= result.slot
    <3> SUFFICES ASSUME result.slot # 0
                 PROVE  result.submission_idx \in Taken'
                        /\ subs[result.submission_idx].slot >= result.slot
      OBVIOUS
    <3> DEFINE i == result.submission_idx
    <3>1. i \in Taken /\ submissions[i].slot >= result.slot /\ result.slot \in Nat
      BY <1>3 DEF FeedInv, ResultInv
    <3>2. i \in Places /\ i \in 1 .. i /\ submissions[i] # Empty
      BY <3>1, PlacesFinite DEF Taken, Places
    <3>3. submissions[i].slot \in Nat
      BY <1>3, <3>2 DEF FeedInv
    <3>4. subs[i] # Empty /\ subs[i].slot >= result.slot
      BY <1>1, <1>3, <1>4, <1>5, <3>1, <3>2, <3>3
    <3> QED
      BY <1>6, <1>7, <3>2, <3>4
  <2>3. FeedInv'
    BY <1>2, <1>3, <1>4, <1>6, <1>7, <2>1, <2>2 DEF FeedInv, Slots
  <2>4. ~ (Cardinality(Considered') >= MinSampleSize)
    BY <1>9, <1>11, PlacesFinite, FeedAssumption
  <2>5. ResultInv'
    BY <1>2, <2>1, <2>2, <2>4 DEF ResultInv
  <2> QED
    BY <1>8, <2>3, <2>5
<1>12. CASE ~ (Cardinality(considered) < MinSampleSize)
  <2>1. considered # {}
    BY <1>12, FS_EmptySet, FeedAssumption
  <2>2. \A q \in considered : subs[q].value \in Int
    BY <1>3, <1>6
  <2>3. \E q \in considered : subs[q].value = median
    <3> HIDE DEF considered
    <3>1. considered \in SUBSET Places
      BY DEF considered
    <3> QED
      BY <2>1, <2>2, <3>1, MedianIsValue
  <2>4. place \in considered /\ subs[place].value = median
    BY <2>3
  <2>5. /\ result'.slot = subs[place].slot /\ result'.value = median
        /\ result'.submission_idx = place
    BY <1>10, <1>12
  <2> HIDE DEF place, median
  <2>6. place \in Places /\ subs[place] # Empty
    BY <2>4
  <2>7. place \in Taken' /\ subs[place].slot \in 1 .. clock /\ subs[place].value \in Values
    BY <1>6, <1>7, <2>6
  <2>8. FeedInv'
    BY <1>2, <1>3, <1>4, <1>6, <1>7, <2>5, <2>7 DEF FeedInv, Slots
  <2>9. ResultOfConsidered'
    BY <1>2, <1>9, <2>4, <2>5 DEF ResultOfConsidered, ValuesOf, median
  <2>10. ResultInv'
    BY <1>2, <1>3, <2>4, <2>5, <2>7, <2>9 DEF ResultInv
  <2> QED
    BY <1>8, <2>8, <2>10
<1> QED
  BY <1>11, <1>12

LEMMA NextIInv == IInv /\ [Next]_vars => IInv'
<1> SUFFICES ASSUME IInv, [Next]_vars PROVE IInv'
  OBVIOUS
<1>1. FeedInv /\ HonestInv /\ ResultInv /\ HeldInv /\ checked \in BOOLEAN /\ clock \in Slots
  BY DEF IInv, FeedInv
<1>2. \A c \in Slots : c \in Nat /\ c <= MaxSlot
  BY FeedAssumption DEF Slots
<1>3. CASE Tick
  <2>1. UNCHANGED <<feed, checked, held>> /\ clock' = clock + 1 /\ clock < MaxSlot
    BY <1>3 DEF Tick
  <2>2. clock' \in Slots /\ clock <= clock'
    BY <1>1, <1>2, <2>1, FeedAssumption DEF Slots
  <2>3. HeldInv'
    BY <1>1, <2>1 DEF HeldInv, CutOff
  <2> QED
    BY <1>1, <2>1, <2>2, <2>3, SameFeed DEF IInv
<1>4. ASSUME NEW p \in Places, Land(p) PROVE IInv'
  <2>1. UNCHANGED held
    BY <1>4 DEF Land, Store
  <2>2. HeldInv'
    BY <1>1, <2>1 DEF HeldInv, CutOff
  <2> QED
    BY <1>1, <1>4, <2>2, LandIInv DEF IInv
<1>5. ASSUME NEW s \in Scales, Rescale(s) PROVE IInv'
  <2>1. UNCHANGED <<clock, feed, checked>>
    BY <1>5 DEF Rescale
  <2>2. HeldInv'
    BY <1>1, <1>5, RescaleHeldInv
  <2>3. clock' \in Slots /\ clock <= clock' /\ checked' \in BOOLEAN
    BY <1>1, <1>2, <2>1
  <2> QED
    BY <1>1, <2>1, <2>2, <2>3, SameFeed DEF IInv
<1>6. CASE UNCHANGED vars
  <2>1. UNCHANGED <<clock, feed, checked, held>>
    BY <1>6 DEF vars
  <2>2. HeldInv'
    BY <1>1, <2>1 DEF HeldInv, CutOff
  <2>3. clock' \in Slots /\ clock <= clock' /\ checked' \in BOOLEAN
    BY <1>1, <1>2, <2>1
  <2> QED
    BY <1>1, <2>1, <2>2, <2>3, SameFeed DEF IInv
<1> QED
  BY <1>3, <1>4, <1>5, <1>6 DEF Next

\* Submissions stay packed behind the clock, and what the feed stores and what a
\* program holds is what the invariant says, for any number of landings and
\* changes of scale.
THEOREM FeedInvariance == Spec => []IInv
<1>1. Spec => []IInv
  BY InitIInv, NextIInv, PTL DEF Spec
<1> QED
  BY <1>1

-----------------------------------------------------------------------------
(***************************************************************************)
(* What get_value returns.                                                 *)
(***************************************************************************)

\* More honest numbers than others: the median lies between two honest ones.
LEMMA MajorityBoundsMedian ==
  ASSUME NEW D, IsFiniteSet(D), NEW f, NEW m, HasMedianRank(m, f, D), NEW L,
         \A i \in D : f[i] \in Int,
         Cardinality(D \cap L) < Cardinality(D \ L)
  PROVE  \E i, j \in D \ L : f[i] <= m /\ m <= f[j]
<1>1. m \in Int
  BY DEF HasMedianRank
<1>2. /\ IsFiniteSet(D \ L) /\ Cardinality(D \ L) \in Nat
      /\ Cardinality(D \cap L) \in Nat /\ Cardinality(D) \in Nat
      /\ Cardinality(D) = Cardinality(D \ L) + Cardinality(D \cap L)
  <2>1. IsFiniteSet(D \ L) /\ Cardinality(D \ L) = Cardinality(D) - Cardinality(D \cap L)
    BY FS_Difference
  <2>2. IsFiniteSet(D \cap L)
    BY FS_Intersection
  <2> QED
    BY <2>1, <2>2, FS_CardinalityType
<1>3. ASSUME \A i \in D \ L : f[i] > m PROVE FALSE
  <2> DEFINE above == {i \in D : f[i] > m}
  <2>1. D \ L \in SUBSET above /\ above \in SUBSET D
    BY <1>3
  <2>2. 2 * Cardinality(above) < Cardinality(D)
    BY DEF HasMedianRank
  <2> HIDE DEF above
  <2>3. IsFiniteSet(above) /\ Cardinality(above) \in Nat
    BY <2>1, FS_Subset, FS_CardinalityType
  <2>4. Cardinality(D \ L) <= Cardinality(above)
    BY <2>1, <2>3, FS_Subset
  <2> QED
    BY <1>2, <2>2, <2>3, <2>4
<1>4. ASSUME \A i \in D \ L : f[i] < m PROVE FALSE
  <2> DEFINE below == {i \in D : f[i] < m}
  <2>1. D \ L \in SUBSET below /\ below \in SUBSET D
    BY <1>4
  <2>2. 2 * Cardinality(below) <= Cardinality(D)
    BY DEF HasMedianRank
  <2> HIDE DEF below
  <2>3. IsFiniteSet(below) /\ Cardinality(below) \in Nat
    BY <2>1, FS_Subset, FS_CardinalityType
  <2>4. Cardinality(D \ L) <= Cardinality(below)
    BY <2>1, <2>3, FS_Subset
  <2> QED
    BY <1>2, <2>2, <2>3, <2>4
<1>5. \E i \in D \ L : ~ (f[i] > m)
  BY <1>3
<1>6. \E j \in D \ L : ~ (f[j] < m)
  BY <1>4
<1>7. \A i \in D \ L : /\ ~ (f[i] > m) => f[i] <= m
                       /\ ~ (f[i] < m) => m <= f[i]
  BY <1>1
<1> QED
  BY <1>5, <1>6, <1>7

\* An age that the clock has reached is subtracted from it; one that it has not
\* reached wraps to a slot ahead of the clock.
LEMMA OldestSlot ==
  ASSUME FeedInv, NEW age \in 0 .. Word - 1
  PROVE  /\ age <= clock => Oldest(age) = clock - age
         /\ clock < age => clock < Oldest(age)
<1>1. clock \in Nat /\ clock < Word /\ Word \in Nat /\ age \in Nat /\ age < Word
  BY FeedAssumption DEF FeedInv, Slots
<1>2. ASSUME age <= clock PROVE Oldest(age) = clock - age
  BY <1>1, <1>2 DEF Oldest
<1>3. ASSUME clock < age PROVE clock < Oldest(age)
  <2>1. clock - age \in Int /\ 0 <= clock - age + Word /\ clock - age + Word < Word
    BY <1>1, <1>3
  <2>2. (clock - age) % Word = clock - age + Word
    BY <1>1, <2>1
  <2> QED
    BY <1>1, <1>3, <2>2 DEF Oldest
<1> QED
  BY <1>2, <1>3

\* So what get_value and valid_samples keep are the recent submissions, or none.
LEMMA FreshIsRecent ==
  ASSUME FeedInv, NEW age \in 0 .. Word - 1
  PROVE  /\ age <= clock => Fresh(age) = Recent(age)
         /\ clock < age => Fresh(age) = {}
<1>1. clock \in Nat /\ age \in Nat
  BY FeedAssumption DEF FeedInv, Slots
<1>2. \A p \in Places : p \in Taken <=> submissions[p] # Empty
  <2>1. \A p \in Places : p \in 1 .. p
    BY PlacesFinite DEF Places
  <2>2. \A p \in Taken : submissions[p] # Empty
    BY <2>1 DEF Taken
  <2> QED
    BY <2>2 DEF FeedInv
<1>3. \A p \in Taken : p \in Places /\ submissions[p].slot \in Nat /\ submissions[p].slot <= clock
  BY <1>1, <1>2 DEF FeedInv, Taken
<1>4. ASSUME age <= clock PROVE Fresh(age) = Recent(age)
  <2>1. Oldest(age) = clock - age
    BY <1>4, OldestSlot
  <2>2. \A p \in Taken : submissions[p].slot >= Oldest(age) <=> submissions[p].slot + age >= clock
    BY <1>1, <1>3, <2>1
  <2> QED
    BY <1>2, <1>3, <2>2 DEF Fresh, Recent
<1>5. ASSUME clock < age PROVE Fresh(age) = {}
  <2>1. clock < Oldest(age) /\ Oldest(age) \in Int
    BY <1>1, <1>5, OldestSlot, FeedAssumption DEF Oldest
  <2> QED
    BY <1>1, <1>3, <2>1 DEF Fresh
<1> QED
  BY <1>4, <1>5

\* The median of submissions that are there has its rank among their values.
LEMMA MedianOfSubmissions ==
  ASSUME FeedInv, NEW S \in SUBSET Places, S # {}, \A p \in S : submissions[p] # Empty,
         NEW m, m = lower_bound_median(ValuesOf(submissions, S))
  PROVE  /\ m \in Values
         /\ HasMedianRank(m, ValuesOf(submissions, S), S)
         /\ \E p \in S : submissions[p].value = m
         /\ 2 * Cardinality({p \in S : submissions[p].value < m}) <= Cardinality(S)
         /\ 2 * Cardinality({p \in S : submissions[p].value > m}) < Cardinality(S)
<1> DEFINE f == ValuesOf(submissions, S)
<1>1. \A p \in S : submissions[p].value \in Values
  BY DEF FeedInv
<1>2. f \in [S -> Int] /\ \A p \in S : f[p] = submissions[p].value
  BY <1>1, FeedAssumption DEF ValuesOf
<1>3. S \subseteq Nat /\ IsFiniteSet(S)
  BY PlacesFinite
<1>4. m = lower_bound_median(f)
  OBVIOUS
<1> HIDE DEF f
<1>5. HasMedianRank(m, f, S)
  BY <1>2, <1>3, <1>4, MedianRank
<1>6. /\ {p \in S : submissions[p].value < m} = {p \in S : f[p] < m}
      /\ {p \in S : submissions[p].value > m} = {p \in S : f[p] > m}
  BY <1>2
<1>7. HasMedianRank(m, ValuesOf(submissions, S), S)
  BY <1>5 DEF f
<1>8. \E p \in S : submissions[p].value = m
  BY <1>2, <1>5 DEF HasMedianRank
<1> QED
  BY <1>1, <1>5, <1>6, <1>7, <1>8 DEF HasMedianRank

\* With honest oracles in the majority it lies in the range of what they submit.
LEMMA HonestMedian ==
  ASSUME FeedInv, HonestInv, NEW S \in SUBSET Places, \A p \in S : submissions[p] # Empty,
         NEW m, m = lower_bound_median(ValuesOf(submissions, S)),
         Cardinality(S \cap Liars) < Cardinality(S \ Liars)
  PROVE  S # {} /\ \E low, high \in Honest : low <= m /\ m <= high
<1> DEFINE f == ValuesOf(submissions, S)
<1>1. S # {}
  <2>1. SUFFICES ASSUME S = {} PROVE FALSE
    OBVIOUS
  <2>2. S \cap Liars = {} /\ S \ Liars = {}
    BY <2>1
  <2> QED
    BY <2>2, FS_EmptySet
<1>2. HasMedianRank(m, f, S)
  BY <1>1, MedianOfSubmissions
<1>3. \A p \in S : f[p] = submissions[p].value /\ f[p] \in Int
  BY FeedAssumption DEF ValuesOf, FeedInv
<1>4. IsFiniteSet(S)
  BY PlacesFinite
<1> HIDE DEF f
<1>5. \E i, j \in S \ Liars : f[i] <= m /\ m <= f[j]
  BY <1>2, <1>3, <1>4, MajorityBoundsMedian
<1>6. \A i \in S \ Liars : f[i] \in Honest
  BY <1>3 DEF HonestInv
<1> QED
  BY <1>1, <1>5, <1>6

-----------------------------------------------------------------------------
(***************************************************************************)
(* What the properties say follows from the invariant.                     *)
(***************************************************************************)

LEMMA IInvHonestMajority == IInv => HonestMajorityServed
<1> SUFFICES ASSUME IInv,
                    NEW age \in Ages, NEW min_samples \in 0 .. MaxSubmissions,
                    NEW only_positive \in BOOLEAN,
                    age <= clock, Cardinality(Recent(age)) >= min_samples,
                    Cardinality(Recent(age) \cap Liars) < Cardinality(Recent(age) \ Liars)
             PROVE  LET r == get_value(age, min_samples, only_positive)
                    IN  /\ r.error = "none"
                        /\ \E low, high \in Honest : low <= r.value /\ r.value <= high
  BY DEF HonestMajorityServed
<1>1. FeedInv /\ HonestInv /\ clock \in Nat /\ age \in 0 .. Word - 1 /\ age \in Nat
  BY FeedAssumption DEF IInv, FeedInv, Slots
<1>2. Fresh(age) = Recent(age)
  BY <1>1, FreshIsRecent
<1> DEFINE median == lower_bound_median(ValuesOf(submissions, Fresh(age)))
<1>3. Recent(age) \in SUBSET Places /\ \A p \in Recent(age) : submissions[p] # Empty
  BY DEF Recent
<1>4. /\ Fresh(age) # {} /\ median \in Values
      /\ \E low, high \in Honest : low <= median /\ median <= high
  <2>1. /\ Recent(age) # {}
        /\ \E low, high \in Honest : low <= median /\ median <= high
    BY <1>1, <1>2, <1>3, HonestMedian
  <2>2. median \in Values
    BY <1>1, <1>2, <1>3, <2>1, MedianOfSubmissions
  <2> QED
    BY <1>2, <2>1, <2>2
<1>5. ~ Panics(age)
  BY <1>1 DEF Panics
<1> HIDE DEF median
<1>6. median \in Int /\ median > 0 /\ Magnitude(median) <= DecimalMax
  BY <1>4, FeedAssumption, DecimalAssumption DEF Magnitude
<1>7. ~ (Cardinality(Fresh(age)) < min_samples)
  BY <1>2, <1>3, PlacesFinite
<1>8. DecimalMax \in Int
  BY DecimalAssumption
<1>9. get_value(age, min_samples, only_positive) = Ok(median)
  <2>1. ~ (median <= 0)
    BY <1>6
  <2>2. ~ (Magnitude(median) > DecimalMax)
    BY <1>6, <1>8 DEF Magnitude
  <2> QED
    BY <1>4, <1>5, <1>7, <2>1, <2>2 DEF get_value, median
<1> QED
  BY <1>4, <1>9 DEF Ok

LEMMA IInvMedianByRank == IInv => MedianByRank
<1> SUFFICES ASSUME IInv, NEW age \in Ages, get_value(age, 1, FALSE).error = "none"
             PROVE  LET r == get_value(age, 1, FALSE)
                    IN  /\ 2 * Cardinality({p \in Recent(age) : submissions[p].value < r.value})
                             <= Cardinality(Recent(age))
                        /\ 2 * Cardinality({p \in Recent(age) : submissions[p].value > r.value})
                             < Cardinality(Recent(age))
                        /\ \E p \in Recent(age) : submissions[p].value = r.value
  BY DEF MedianByRank, Count
<1>1. FeedInv /\ clock \in Nat /\ age \in 0 .. Word - 1 /\ age \in Nat
  BY FeedAssumption DEF IInv, FeedInv, Slots
<1> DEFINE median == lower_bound_median(ValuesOf(submissions, Fresh(age)))
<1>2. Fresh(age) # {} /\ get_value(age, 1, FALSE) = Ok(median)
  BY DEF get_value, Fails, Panic
<1>3. Fresh(age) = Recent(age)
  BY <1>1, <1>2, FreshIsRecent
<1>4. Recent(age) \in SUBSET Places /\ \A p \in Recent(age) : submissions[p] # Empty
  BY DEF Recent
<1>5. median = lower_bound_median(ValuesOf(submissions, Recent(age)))
  BY <1>3
<1> HIDE DEF median
<1>6. get_value(age, 1, FALSE).value = median
  <2>1. Ok(median).value = median
    BY DEF Ok
  <2> QED
    BY <1>2, <2>1, Zenon
<1> QED
  BY <1>1, <1>2, <1>3, <1>4, <1>5, <1>6, MedianOfSubmissions

LEMMA IInvValueHasValidSample == IInv => ValueHasValidSample
<1> SUFFICES ASSUME IInv PROVE ValueHasValidSample
  OBVIOUS
<1>1. FeedInv /\ ResultInv /\ clock \in Nat /\ MaxStaleness \in 0 .. Word - 1
  BY FeedAssumption DEF IInv, FeedInv, Slots
<1>2. result.slot \in Nat /\ Oldest(MaxStaleness) \in Int
  BY <1>1, FeedAssumption DEF FeedInv, Oldest
<1>3. result.slot # 0 => result.value \in Values /\ result.value # NoValue
  BY <1>1, FeedAssumption DEF ResultInv
<1>4. ASSUME value.error = "none"
      PROVE  /\ is_result_vaild /\ result.submission_idx \in valid_samples
             /\ result_submission.slot >= result.slot
  <2>1. is_result_vaild /\ result.slot # 0
    BY <1>4 DEF value, Panic, Fails, Ok, Getter
  <2>2. /\ result.submission_idx \in Taken /\ result.submission_idx \in Places
        /\ submissions[result.submission_idx] # Empty
        /\ result_submission.slot >= result.slot
    <3>1. result.submission_idx \in Taken
      BY <1>1, <2>1 DEF FeedInv
    <3>2. result.submission_idx \in Places /\ result.submission_idx \in 1 .. result.submission_idx
      BY <3>1 DEF Taken, Places
    <3> QED
      BY <1>1, <2>1, <3>1, <3>2 DEF Taken, ResultInv, result_submission
  <2>3. submissions[result.submission_idx].slot \in Nat
    BY <1>1, <2>2 DEF FeedInv
  <2>4. submissions[result.submission_idx].slot >= Oldest(MaxStaleness)
    BY <1>2, <2>1, <2>2, <2>3 DEF is_result_vaild, result_submission
  <2> QED
    BY <2>1, <2>2, <2>4 DEF valid_samples, Fresh
<1>5. ASSUME value.error = "StaleResult" PROVE ~ is_result_vaild \/ result = NoResult
  <2>1. ~ is_result_vaild \/ Getter(result.value) = NoValue
    BY <1>5 DEF value, Panic, Fails, Ok
  <2>2. ASSUME Getter(result.value) = NoValue PROVE result.slot = 0
    BY <1>3, <2>2 DEF Getter
  <2> QED
    BY <1>1, <2>1, <2>2 DEF ResultInv
<1> QED
  BY <1>4, <1>5 DEF ValueHasValidSample

\* The slot threshold reaches as far back as the last landing allowed, or wraps
\* ahead of every submission.
LEMMA SamplesAreConsidered ==
  ASSUME FeedInv, HonestInv, current_result_samples # {}
  PROVE  current_result_samples = Considered
<1>1. /\ landed \in Nat /\ landed < Word /\ Word \in Nat
      /\ MaxStaleness \in Nat /\ MaxStaleness < Word
  BY FeedAssumption DEF FeedInv, Slots
<1>2. \A p \in Places : p \in Taken <=> submissions[p] # Empty
  <2>1. \A p \in Places : p \in 1 .. p
    BY PlacesFinite DEF Places
  <2>2. \A p \in Taken : submissions[p] # Empty
    BY <2>1 DEF Taken
  <2> QED
    BY <2>2 DEF FeedInv
<1>3. \A p \in Taken : p \in Places /\ submissions[p].slot \in Nat /\ submissions[p].slot <= landed
  <2>1. \A p \in Places : submissions[p] # Empty => submissions[p].slot \in Nat
    BY DEF FeedInv, Slots
  <2> QED
    BY <1>2, <2>1 DEF HonestInv, Taken
<1>4. ~ (landed < MaxStaleness)
  <2> SUFFICES ASSUME landed < MaxStaleness PROVE FALSE
    OBVIOUS
  <2>1. landed - MaxStaleness \in Int /\ 0 <= landed - MaxStaleness + Word
        /\ landed - MaxStaleness + Word < Word
    BY <1>1
  <2>2. slot_threshold = landed - MaxStaleness + Word
    <3>1. (landed - MaxStaleness) % Word = landed - MaxStaleness + Word
      BY <1>1, <2>1
    <3> QED
      BY <3>1 DEF slot_threshold, last_update_slot
  <2>3. landed < slot_threshold /\ slot_threshold \in Int
    BY <1>1, <2>2
  <2> QED
    BY <1>1, <1>3, <2>3 DEF current_result_samples
<1>5. slot_threshold = landed - MaxStaleness
  BY <1>1, <1>4 DEF slot_threshold, last_update_slot
<1>6. \A p \in Taken : submissions[p].slot >= slot_threshold
                        <=> submissions[p].slot + MaxStaleness >= landed
  BY <1>1, <1>3, <1>5
<1> QED
  BY <1>2, <1>3, <1>6 DEF current_result_samples, Considered

LEMMA IInvSamplesBehindResult == IInv => SamplesBehindResult
<1> DEFINE samples == current_result_samples
<1> SUFFICES ASSUME IInv, Cardinality(samples) >= MinSampleSize
             PROVE  /\ result.submission_idx \in samples
                    /\ result_submission.value = result.value
                    /\ result_submission.slot = result.slot
                    /\ current_result_ts_range[1] <= result_ts
                    /\ result_ts <= current_result_ts_range[2]
                    /\ 2 * Cardinality({p \in samples : submissions[p].value < result.value})
                         <= Cardinality(samples)
                    /\ 2 * Cardinality({p \in samples : submissions[p].value > result.value})
                         < Cardinality(samples)
                    /\ Cardinality(samples \cap Liars) < Cardinality(samples \ Liars) =>
                         \E low, high \in Honest : low <= result.value /\ result.value <= high
  BY DEF SamplesBehindResult
<1>1. FeedInv /\ HonestInv /\ ResultInv
  BY DEF IInv
<1>2. samples # {}
  BY FS_EmptySet, FeedAssumption
<1>3. samples = Considered
  BY <1>1, <1>2, SamplesAreConsidered
<1>4. /\ samples \in SUBSET Places
      /\ \A p \in samples : submissions[p] # Empty /\ submissions[p].slot \in Nat
                             /\ submissions[p].slot <= MaxSlot
  BY <1>1, <1>3 DEF Considered, FeedInv, Slots
<1>5. ResultOfConsidered
  BY <1>1, <1>3 DEF ResultInv
<1>6. /\ result.submission_idx \in samples
      /\ result.value = lower_bound_median(ValuesOf(submissions, samples))
      /\ result_submission.value = result.value /\ result_submission.slot = result.slot
  BY <1>3, <1>5 DEF ResultOfConsidered, result_submission
<1> HIDE DEF samples
<1>7. /\ 2 * Cardinality({p \in samples : submissions[p].value < result.value})
           <= Cardinality(samples)
      /\ 2 * Cardinality({p \in samples : submissions[p].value > result.value})
           < Cardinality(samples)
  BY <1>1, <1>2, <1>4, <1>6, MedianOfSubmissions
<1>8. Cardinality(samples \cap Liars) < Cardinality(samples \ Liars) =>
        \E low, high \in Honest : low <= result.value /\ result.value <= high
  BY <1>1, <1>4, <1>6, HonestMedian
<1>9. current_result_ts_range[1] <= result_ts /\ result_ts <= current_result_ts_range[2]
  <2> DEFINE times == {submissions[p].slot : p \in samples}
  <2>1. times \subseteq Int /\ times # {} /\ \A x \in times : 0 <= x /\ x <= MaxSlot
    BY <1>2, <1>4
  <2>2. result_ts \in times
    BY <1>6 DEF result_ts, result_submission
  <2>3. current_result_ts_range = <<Min(times), Max(times)>>
    BY <2>1 DEF current_result_ts_range, samples
  <2> HIDE DEF times
  <2>4. (\E x \in times : \A y \in times : x <= y) /\ (\E x \in times : \A y \in times : y <= x)
    <3>1. \E x \in times : \A y \in times : x <= y
      BY <2>1, 0 \in Int, BoundedExtrema
    <3>2. \E x \in times : \A y \in times : y <= x
      <4>1. MaxSlot \in Int
        BY FeedAssumption
      <4> QED
        BY <2>1, <4>1, BoundedExtrema
    <3> QED
      BY <3>1, <3>2
  <2>5. \A y \in times : Min(times) <= y
    BY <2>4 DEF Min
  <2>6. \A y \in times : y <= Max(times)
    BY <2>1, <2>4 DEF Max
  <2> QED
    BY <2>2, <2>3, <2>5, <2>6
<1> QED
  BY <1>6, <1>7, <1>8, <1>9 DEF samples

\* What is stale stays so while only the clock moves.
LEMMA WaitingKeepsStale ==
  ASSUME IInv, IInv', UNCHANGED <<feed, checked>>, clock <= clock'
  PROVE  /\ MaxStaleness <= clock /\ value.error = "StaleResult" => value'.error = "StaleResult"
         /\ \A age \in Ages, min_samples \in 1 .. MaxSubmissions :
              age <= clock /\ get_value(age, min_samples, FALSE).error = "NotEnoughSamples"
              => get_value(age, min_samples, FALSE)'.error = "NotEnoughSamples"
<1>1. /\ submissions' = submissions /\ landed' = landed /\ result' = result
      /\ checked' = checked
  BY DEF feed
<1>2. /\ FeedInv /\ FeedInv' /\ ResultInv /\ MaxStaleness \in 0 .. Word - 1
      /\ clock \in Nat /\ clock' \in Nat /\ clock' < Word /\ Word \in Nat /\ MaxStaleness \in Nat
  BY FeedAssumption DEF IInv, FeedInv, Slots
<1>3. Taken' = Taken
  BY <1>1 DEF Taken
<1>4. ASSUME NEW age \in 0 .. Word - 1, age <= clock
      PROVE  /\ Oldest(age) = clock - age /\ Oldest(age)' = clock' - age
             /\ age <= clock' /\ age \in Nat
  <2>1. age \in Nat /\ age <= clock'
    BY <1>2, <1>4, FeedAssumption
  <2>2. Oldest(age) = clock - age
    BY <1>2, <1>4, OldestSlot
  <2>3. Oldest(age)' = clock' - age
    <3>1. \A c, a, w \in Nat : a <= c /\ c < w => (c - a) % w = c - a
      OBVIOUS
    <3>2. (clock' - age) % Word = clock' - age
      BY <1>2, <2>1, <3>1
    <3> QED
      BY <3>2 DEF Oldest
  <2> QED
    BY <2>1, <2>2, <2>3
<1>5. ASSUME MaxStaleness <= clock, value.error = "StaleResult"
      PROVE  value'.error = "StaleResult"
  <2>1. ~ is_result_vaild \/ Getter(result.value) = NoValue
    BY <1>5 DEF value, Panic, Fails, Ok
  <2>2. is_result_vaild' => is_result_vaild
    <3>1. result.slot \in Nat
      BY <1>2 DEF FeedInv
    <3>2. Oldest(MaxStaleness) = clock - MaxStaleness
          /\ Oldest(MaxStaleness)' = clock' - MaxStaleness
      BY <1>2, <1>4, <1>5
    <3> QED
      BY <1>1, <1>2, <3>1, <3>2 DEF is_result_vaild
  <2>3. Getter(result.value)' = Getter(result.value)
    BY <1>1 DEF Getter
  <2>4. ~ (clock' < MaxStaleness)
    BY <1>2, <1>5
  <2>5. (value = IF checked /\ clock < MaxStaleness THEN Panic
                ELSE IF ~ is_result_vaild \/ Getter(result.value) = NoValue
                THEN Fails("StaleResult")
                ELSE IF Magnitude(result.value) > DecimalMax THEN Panic
                ELSE Ok(result.value))'
    BY DEF value
  <2>6. value' = Fails("StaleResult")
    BY <2>1, <2>2, <2>3, <2>4, <2>5
  <2> QED
    BY <2>6 DEF Fails
<1>6. ASSUME NEW age \in Ages, NEW min_samples \in 1 .. MaxSubmissions, age <= clock,
             get_value(age, min_samples, FALSE).error = "NotEnoughSamples"
      PROVE  get_value(age, min_samples, FALSE)'.error = "NotEnoughSamples"
  <2>1. age \in 0 .. Word - 1
    BY FeedAssumption
  <2>2. Oldest(age) = clock - age /\ Oldest(age)' = clock' - age /\ age <= clock' /\ age \in Nat
    BY <1>4, <1>6, <2>1
  <2>3. Fresh(age)' \in SUBSET Fresh(age)
    <3>1. \A p \in Taken : submissions[p].slot \in Nat
      <4>1. \A p \in Taken : p \in Places /\ p \in 1 .. p
        BY PlacesFinite DEF Taken, Places
      <4>2. \A p \in Taken : submissions[p] # Empty
        BY <4>1 DEF Taken
      <4> QED
        BY <1>2, <4>1, <4>2 DEF FeedInv
    <3>2. \A p \in Taken : submissions[p].slot >= clock' - age => submissions[p].slot >= clock - age
      BY <1>2, <2>2, <3>1
    <3> QED
      BY <1>1, <1>3, <2>2, <3>2 DEF Fresh
  <2>4. Cardinality(Fresh(age)) < min_samples \/ Fresh(age) = {}
    BY <1>6 DEF get_value, Panic, Fails, Ok
  <2>5. Cardinality(Fresh(age)') < min_samples \/ Fresh(age)' = {}
    <3>1. Fresh(age) \in SUBSET Places
      BY DEF Fresh, Taken
    <3>2. /\ Cardinality(Fresh(age)') <= Cardinality(Fresh(age))
          /\ Cardinality(Fresh(age)') \in Nat /\ Cardinality(Fresh(age)) \in Nat
      BY <2>3, <3>1, PlacesFinite, FS_Subset
    <3> QED
      BY <2>3, <2>4, <3>2
  <2>6. ~ Panics(age)'
    BY <1>2, <2>2 DEF Panics
  <2>7. (get_value(age, min_samples, FALSE)
           = LET fresh == Fresh(age)
                 median == lower_bound_median(ValuesOf(submissions, fresh))
             IN  IF Panics(age) THEN Panic
                 ELSE IF Cardinality(fresh) < min_samples \/ fresh = {}
                 THEN Fails("NotEnoughSamples")
                 ELSE IF FALSE /\ median <= 0 THEN Fails("IllegalFeedValue")
                 ELSE IF Magnitude(median) > DecimalMax THEN Panic
                 ELSE Ok(median))'
    BY DEF get_value
  <2>8. get_value(age, min_samples, FALSE)' = Fails("NotEnoughSamples")
    BY <2>5, <2>6, <2>7
  <2>9. Fails("NotEnoughSamples").error = "NotEnoughSamples"
    BY DEF Fails
  <2> QED
    BY <2>8, <2>9, Zenon
<1> QED
  BY <1>5, <1>6

\* A number that is cut off: by how much it is short of the original.
LEMMA CutOffShort ==
  ASSUME NEW h \in HeldValues, CutOff(h),
         h.coarsest <= h.number.scale, h.coarsest <= h.made.scale
  PROVE  LET m == Magnitude(h.number.mantissa)
             M == Magnitude(h.made.mantissa)
             s == h.number.scale
             P == h.made.scale
         IN  /\ m \in Nat /\ M \in Nat /\ s \in Nat /\ P \in Nat
             /\ m * TenTo[P] <= M * TenTo[s]
             /\ M * TenTo[s] - m * TenTo[P] < TenTo[P + s - h.coarsest]
             /\ s <= P => m <= M
<1> DEFINE m == Magnitude(h.number.mantissa)
           M == Magnitude(h.made.mantissa)
           s == h.number.scale
           P == h.made.scale
           c == h.coarsest
           low == TenTo[P - c]
           kept == M \div low
           up == TenTo[s - c]
<1>1. s \in Nat /\ P \in Nat /\ c \in Nat /\ c <= s /\ c <= P
      /\ h.number.mantissa \in Int /\ h.made.mantissa \in Int
  BY DEF HeldValues, Numbers
<1>2. m \in Nat /\ M \in Nat
  BY <1>1, Magnitudes
<1>3. s - c \in Nat /\ P - c \in Nat /\ low \in Nat \ {0} /\ up \in Nat \ {0}
      /\ TenTo[s] \in Nat \ {0} /\ TenTo[P] \in Nat \ {0} /\ TenTo[c] \in Nat \ {0}
  BY <1>1, TenToPositive
<1>4. m = kept * up
  BY DEF CutOff
<1>5. TenTo[P] = low * TenTo[c] /\ TenTo[s] = up * TenTo[c] /\ TenTo[P + s - c] = low * TenTo[s]
  <2> HIDE DEF m, M, s, P, c
  <2>1. P = (P - c) + c /\ s = (s - c) + c /\ P + s - c = (P - c) + s
    BY <1>1
  <2>2. /\ TenTo[(P - c) + c] = low * TenTo[c]
        /\ TenTo[(s - c) + c] = up * TenTo[c]
        /\ TenTo[(P - c) + s] = low * TenTo[s]
    BY <1>1, <1>3, TenToSum
  <2> QED
    BY <2>1, <2>2
<1> HIDE DEF m, M, s, P, c, low, up
<1>6. kept \in Nat /\ low * kept <= M /\ M < low * kept + low
  BY <1>2, <1>3, Division
<1> HIDE DEF kept
<1>7. m * TenTo[P] = (low * kept) * TenTo[s]
  <2>1. \A k, u, l, t \in Nat : (k * u) * (l * t) = (l * k) * (u * t)
    <3> SUFFICES ASSUME NEW k \in Nat, NEW u \in Nat, NEW l \in Nat, NEW t \in Nat
                 PROVE  (k * u) * (l * t) = (l * k) * (u * t)
      OBVIOUS
    <3> QED
      BY SMTT(30)
  <2> QED
    BY <1>3, <1>4, <1>5, <1>6, <2>1
<1> DEFINE x == low * kept
<1>8. x \in Nat /\ x <= M /\ M < x + low
  BY <1>3, <1>6
<1> HIDE DEF x
<1>9. x * TenTo[s] <= M * TenTo[s]
  BY <1>2, <1>3, <1>8, Monotone
<1>10. M * TenTo[s] - x * TenTo[s] < low * TenTo[s]
  <2>1. M + 1 <= x + low /\ M + 1 \in Nat /\ x + low \in Nat
    BY <1>2, <1>3, <1>8
  <2>2. (M + 1) * TenTo[s] <= (x + low) * TenTo[s]
    BY <1>3, <2>1, Monotone
  <2>3. \A a, b, t \in Nat : (a + b) * t = a * t + b * t
    OBVIOUS
  <2>4. (M + 1) * TenTo[s] = M * TenTo[s] + TenTo[s]
        /\ (x + low) * TenTo[s] = x * TenTo[s] + low * TenTo[s]
    <3>1. 1 * TenTo[s] = TenTo[s]
      BY <1>3
    <3> QED
      BY <1>2, <1>3, <1>8, <2>3, <3>1
  <2>5. \A a, b, t \in Nat : a * t \in Nat
    OBVIOUS
  <2>6. M * TenTo[s] \in Nat /\ x * TenTo[s] \in Nat /\ low * TenTo[s] \in Nat
    BY <1>2, <1>3, <1>8, <2>5
  <2> QED
    BY <1>3, <2>2, <2>4, <2>6
<1>11. ASSUME s <= P PROVE m <= M
  <2>1. P - s \in Nat /\ P - c = (P - s) + (s - c)
    BY <1>1, <1>11
  <2>2. low = TenTo[P - s] * up /\ TenTo[P - s] \in Nat \ {0}
    BY <1>3, <2>1, TenToSum, TenToPositive DEF low, up
  <2>3. up <= low
    <3>1. 1 <= TenTo[P - s]
      BY <2>2
    <3>2. 1 * up <= TenTo[P - s] * up
      BY <1>3, <2>2, <3>1, Monotone, 1 \in Nat
    <3> QED
      BY <1>3, <2>2, <3>2
  <2>4. kept * up <= kept * low
    BY <1>3, <1>6, <2>3, Monotone
  <2>5. kept * low = low * kept
    BY <1>3, <1>6
  <2>6. m <= x
    BY <1>4, <2>4, <2>5 DEF x
  <2> QED
    BY <1>2, <1>8, <2>6
<1>12. m * TenTo[P] = x * TenTo[s]
  BY <1>7 DEF x
<1>13. /\ m * TenTo[P] <= M * TenTo[s]
       /\ M * TenTo[s] - m * TenTo[P] < TenTo[P + s - c]
  BY <1>5, <1>9, <1>10, <1>12
<1> QED
  BY <1>1, <1>2, <1>11, <1>13 DEF m, M, s, P, c

LEMMA IInvRescaled == IInv => RescaledIsTruncated /\ RescaledIsDecimal
<1> SUFFICES ASSUME HeldInv, held # NoValue, ~ held.wild
             PROVE  RescaledIsTruncated /\ RescaledIsDecimal
  BY DEF IInv, RescaledIsTruncated, RescaledIsDecimal
<1> DEFINE m == held.number.mantissa
           M == held.made.mantissa
           s == held.number.scale
           P == held.made.scale
           c == held.coarsest
<1>1. /\ held \in HeldValues /\ CutOff(held) /\ P = Precision
      /\ Magnitude(M) <= DecimalMax /\ c <= s /\ c <= P
  BY DEF HeldInv
<1>2. m \in Int /\ M \in Int /\ s \in Nat /\ P \in Nat /\ c \in Nat
  BY <1>1 DEF HeldValues, Numbers
<1>3. /\ Magnitude(m) \in Nat /\ Magnitude(M) \in Nat
      /\ Magnitude(m) * TenTo[P] <= Magnitude(M) * TenTo[s]
      /\ Magnitude(M) * TenTo[s] - Magnitude(m) * TenTo[P] < TenTo[P + s - c]
      /\ s <= P => Magnitude(m) <= Magnitude(M)
  BY <1>1, CutOffShort
<1>4. m # 0 => (m < 0) = (M < 0)
  BY <1>1 DEF CutOff
<1>5. RescaledIsTruncated
  BY <1>3, <1>4 DEF RescaledIsTruncated
<1>6. TenTo[s] \in Nat \ {0} /\ TenTo[P] \in Nat \ {0}
  BY <1>2, TenToPositive
<1>7. ASSUME s <= P PROVE IsDecimal(held.number) /\ IsDecimal(held.made)
  <2>1. /\ Magnitude(m) <= DecimalMax /\ Magnitude(M) <= DecimalMax
        /\ s <= DecimalScale /\ P <= DecimalScale
    <3>1. /\ DecimalMax \in Nat /\ DecimalScale \in Nat /\ Precision \in Nat
          /\ Precision <= DecimalScale
      BY FeedAssumption, DecimalAssumption
    <3> HIDE DEF m, M, s, P
    <3> QED
      BY <1>1, <1>2, <1>3, <1>7, <3>1
  <2> QED
    BY <2>1 DEF IsDecimal
<1> DEFINE x == m * TenTo[P]
           y == M * TenTo[s]
<1>8. /\ x \in Int /\ y \in Int
      /\ Magnitude(x) = Magnitude(m) * TenTo[P] /\ Magnitude(y) = Magnitude(M) * TenTo[s]
      /\ x # 0 => (m # 0 /\ (x < 0) = (m < 0))
      /\ y # 0 => (M # 0 /\ (y < 0) = (M < 0))
  <2> HIDE DEF m, M, s, P
  <2> QED
    BY <1>2, <1>6, ProductWithPositive
<1>9. /\ x < y => M > 0
      /\ x > y => M < 0
  <2> HIDE DEF m, M, s, P, x, y
  <2>1. Magnitude(x) <= Magnitude(y)
    BY <1>3, <1>8
  <2>2. x # 0 => (M # 0 /\ (x < 0) = (M < 0))
    <3>1. ASSUME x # 0 PROVE M # 0
      <4>1. y # 0
        BY <1>8, <2>1, <3>1 DEF Magnitude
      <4> QED
        BY <1>8, <4>1
    <3> QED
      BY <1>4, <1>8, <3>1
  <2> QED
    BY <1>2, <1>8, <2>1, <2>2 DEF Magnitude
<1>10. Cmp(held.number, held.made)
         = IF ~ IsDecimal(held.number) \/ ~ IsDecimal(held.made) THEN "panic"
           ELSE IF x < y THEN "less" ELSE IF x > y THEN "greater" ELSE "equal"
  BY DEF Cmp
<1>11. ToBool(held.number) => ToBool(held.made)
  <2> SUFFICES ASSUME 2 * Magnitude(m) > TenTo[s] PROVE 2 * Magnitude(M) > TenTo[P]
    BY DEF ToBool
  <2> DEFINE a == Magnitude(m)
             b == Magnitude(M)
             t == TenTo[s]
             u == TenTo[P]
  <2>1. /\ a \in Nat /\ b \in Nat /\ t \in Nat \ {0} /\ u \in Nat \ {0}
        /\ a * u <= b * t /\ 2 * a > t
    BY <1>3, <1>6
  <2> HIDE DEF a, b, t, u
  <2>2. SUFFICES ASSUME 2 * b <= u PROVE FALSE
    BY <2>1 DEF b, u
  <2>3. (2 * b) * t <= u * t
    BY <2>1, <2>2, Monotone, 2 * b \in Nat
  <2>4. (t + 1) * u <= (2 * a) * u
    BY <2>1, Monotone, t + 1 \in Nat, 2 * a \in Nat, t + 1 <= 2 * a
  <2>5. /\ (2 * b) * t = 2 * (b * t) /\ (2 * a) * u = 2 * (a * u)
        /\ (t + 1) * u = u * t + u /\ a * u \in Nat /\ b * t \in Nat /\ u * t \in Nat
    BY <2>1
  <2> QED
    BY <2>1, <2>3, <2>4, <2>5
<1>12. RescaledIsDecimal
  <2> HIDE DEF x, y
  <2> SUFFICES ASSUME s <= P
               PROVE  /\ IsDecimal(held.number) /\ Cmp(held.number, held.made) # "panic"
                      /\ Cmp(held.number, held.made) = "less" => M > 0
                      /\ Cmp(held.number, held.made) = "greater" => M < 0
                      /\ ToBool(held.number) => ToBool(held.made)
    BY DEF RescaledIsDecimal
  <2>1. Cmp(held.number, held.made)
          = IF x < y THEN "less" ELSE IF x > y THEN "greater" ELSE "equal"
    BY <1>7, <1>10
  <2> QED
    BY <1>7, <1>9, <1>11, <2>1
<1> QED
  BY <1>5, <1>12

-----------------------------------------------------------------------------
(***************************************************************************)
(* The theorems.                                                           *)
(***************************************************************************)

\* Submissions stay packed and behind the clock, with a result whose submission
\* is there, for any number of places and any staleness.
THEOREM FeedInvHolds == Spec => []FeedInv
<1>1. IInv => FeedInv
  BY DEF IInv
<1> QED
  BY <1>1, FeedInvariance, PTL

\* get_value serves an honest majority: it answers, in the range of their values,
\* whatever the liars among any number of oracles submit and whenever.
THEOREM HonestMajorityDecides == Spec => []HonestMajorityServed
  BY IInvHonestMajority, FeedInvariance, PTL

\* The value that get_value returns is a median, by its rank among the recent ones.
THEOREM ValueIsMedian == Spec => []MedianByRank
  BY IInvMedianByRank, FeedInvariance, PTL

\* value() has a valid submission behind it, and refuses no result but those that
\* is_result_vaild refuses and the one never computed.
THEOREM ValueBackedBySample == Spec => []ValueHasValidSample
  BY IInvValueHasValidSample, FeedInvariance, PTL

\* The samples that current_result_samples reports are those the stored result was
\* computed from, whenever they are enough for one.
THEOREM SamplesAreTheResults == Spec => []SamplesBehindResult
  BY IInvSamplesBehindResult, FeedInvariance, PTL

\* A stale result, or too few fresh submissions, stay that until one lands.
THEOREM WaitingDoesNotRefresh == Spec => StaleStaysStale
<1>1. IInv /\ IInv' /\ [Next]_vars
      => [UNCHANGED feed =>
            /\ MaxStaleness <= clock /\ value.error = "StaleResult" => value'.error = "StaleResult"
            /\ \A age \in Ages, min_samples \in 1 .. MaxSubmissions :
                 age <= clock /\ get_value(age, min_samples, FALSE).error = "NotEnoughSamples"
                 => get_value(age, min_samples, FALSE)'.error = "NotEnoughSamples"]_vars
  <2> SUFFICES ASSUME IInv, IInv', Next, UNCHANGED feed
               PROVE  /\ MaxStaleness <= clock /\ value.error = "StaleResult"
                         => value'.error = "StaleResult"
                      /\ \A age \in Ages, min_samples \in 1 .. MaxSubmissions :
                           age <= clock
                           /\ get_value(age, min_samples, FALSE).error = "NotEnoughSamples"
                           => get_value(age, min_samples, FALSE)'.error = "NotEnoughSamples"
    OBVIOUS
  <2>1. UNCHANGED checked
    BY DEF Next, Tick, Land, Store, Rescale
  <2>2. clock \in Nat
    BY FeedAssumption DEF IInv, FeedInv, Slots
  <2>3. clock' = clock \/ clock' = clock + 1
    BY DEF Next, Tick, Land, Store, Rescale
  <2>4. clock <= clock'
    BY <2>2, <2>3
  <2> QED
    BY <2>1, <2>4, WaitingKeepsStale
<1> QED
  BY <1>1, FeedInvariance, PTL DEF Spec, StaleStaysStale

\* However often a held value is rescaled, and through whatever scales, it is the
\* original cut off, by less than a unit of the fewest places it has had.
THEOREM RescalingTruncates == Spec => []RescaledIsTruncated
<1>1. IInv => RescaledIsTruncated
  BY IInvRescaled
<1> QED
  BY <1>1, FeedInvariance, PTL

\* Back at the scale it was made with or below, it is a Decimal again, on the side
\* of the original that is toward zero.
THEOREM RescalingStaysDecimal == Spec => []RescaledIsDecimal
<1>1. IInv => RescaledIsDecimal
  BY IInvRescaled
<1> QED
  BY <1>1, FeedInvariance, PTL
=============================================================================
