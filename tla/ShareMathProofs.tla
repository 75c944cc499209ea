-------------------------- MODULE ShareMathProofs ---------------------------
(***************************************************************************)
(* What the exchange of tokens and shares guarantees at every exchange     *)
(* rate: how far rounding can be off, and that an unbonding never returns  *)
(* more tokens than the validator has or than was asked for.               *)
(***************************************************************************)
EXTENDS ShareMath, TLAPS

(* Products of natural numbers, as the proofs below compare them. *)
LEMMA ProductType == \A x, y \in Nat : x * y \in Nat
OBVIOUS

(* Products keep the order. *)
LEMMA ProductMonotonic == \A x, y, z \in Nat : x <= y => x * z <= y * z
OBVIOUS

(* A factor is cancelled. *)
LEMMA ProductCancel == \A x, y \in Nat, z \in Nat \ {0} : x * z < (y + 1) * z => x <= y
OBVIOUS

(* Integer division, without its operator. *)
LEMMA Division ==
  ASSUME NEW a \in Nat, NEW b \in Nat \ {0}
  PROVE  /\ a \div b \in Nat /\ a % b \in 0 .. b - 1
         /\ a = (a \div b) * b + (a % b)
OBVIOUS

(* Dec.Quo is off by at most half a unit, in both directions. *)
LEMMA RoundedQuoFacts ==
  ASSUME NEW a \in Nat, NEW b \in Nat \ {0}
  PROVE  /\ RoundedQuo(a, b) \in Nat
         /\ 2 * (RoundedQuo(a, b) * b) <= 2 * a + b
         /\ 2 * a <= 2 * (RoundedQuo(a, b) * b) + b
<1> DEFINE q == a \div b
           r == a % b
<1>1. q \in Nat /\ r \in 0 .. b - 1 /\ a = q * b + r
  BY Division
<1>2. RoundedQuo(a, b) = IF 2 * r > b \/ (2 * r = b /\ q % 2 = 1) THEN q + 1 ELSE q
  BY DEF RoundedQuo
<1> HIDE DEF q, r
<1>3. (q + 1) * b = q * b + b /\ q * b \in Nat
  BY <1>1
<1>4. CASE 2 * r > b \/ (2 * r = b /\ q % 2 = 1)
  BY <1>1, <1>2, <1>3, <1>4
<1>5. CASE ~(2 * r > b \/ (2 * r = b /\ q % 2 = 1))
  BY <1>1, <1>2, <1>3, <1>5
<1> QED BY <1>4, <1>5

(* A quotient of at most n is rounded to at most n. *)
LEMMA RoundedQuoBound ==
  ASSUME NEW a \in Nat, NEW b \in Nat \ {0}, NEW n \in Nat, a <= n * b
  PROVE  RoundedQuo(a, b) <= n
<1> DEFINE q == RoundedQuo(a, b)
<1>1. q \in Nat /\ 2 * (q * b) <= 2 * a + b
  BY RoundedQuoFacts
<1> HIDE DEF q
<1>2. q * b \in Nat /\ n * b \in Nat /\ (n + 1) * b = n * b + b
  BY <1>1
<1>3. q * b < (n + 1) * b
  BY <1>1, <1>2
<1> QED BY <1>1, <1>3, ProductCancel DEF q

(* Dividing by a positive number keeps an upper bound. *)
LEMMA DivisionBound ==
  ASSUME NEW a \in Nat, NEW b \in Nat \ {0}, NEW n \in Nat, a <= n * b
  PROVE  a \div b <= n
<1> DEFINE q == a \div b
<1>1. q \in Nat /\ a % b \in 0 .. b - 1 /\ a = q * b + (a % b)
  BY Division
<1> HIDE DEF q
<1>2. q * b \in Nat /\ n * b \in Nat /\ (n + 1) * b = n * b + b
  BY <1>1
<1>3. q * b < (n + 1) * b
  BY <1>1, <1>2
<1> QED BY <1>1, <1>3, ProductCancel DEF q

(* The tokens of some shares of a validator are tokens it has. *)
LEMMA RemovedTokensFacts ==
  ASSUME NEW val, val.tokens \in Nat, val.shares \in Nat,
         NEW shares \in Nat, shares <= val.shares
  PROVE  /\ RemovedTokens(val, shares) \in Nat
         /\ RemovedTokens(val, shares) <= val.tokens
<1> DEFINE T == val.tokens
           S == val.shares
           P == Precision
<1>0. T \in Nat /\ S \in Nat /\ P \in Nat \ {0} /\ shares <= S
  BY PrecisionAssumption
<1>1. CASE shares = S
  BY <1>1 DEF RemovedTokens
<1>2. CASE shares # S
  <2> DEFINE a == shares * T * P
             q == RoundedQuo(a, S)
  <2>1. RemovedTokens(val, shares) = q \div P
    BY <1>2 DEF RemovedTokens
  <2> HIDE DEF T, S, P
  <2>2. S \in Nat \ {0} /\ shares <= S
    BY <1>0, <1>2
  <2>3. T * P \in Nat /\ a = shares * (T * P) /\ a \in Nat
    BY <1>0
  <2>4. a <= (T * P) * S
    <3>1. shares * (T * P) <= S * (T * P)
      BY <2>2, <2>3, ProductMonotonic
    <3>2. S * (T * P) = (T * P) * S
      BY <2>2, <2>3
    <3> QED BY <2>3, <3>1, <3>2
  <2> HIDE DEF a
  <2>5. q \in Nat /\ q <= T * P
    BY <2>2, <2>3, <2>4, RoundedQuoFacts, RoundedQuoBound
  <2> HIDE DEF q
  <2>6. q \div P \in Nat /\ q \div P <= T
    BY <1>0, <2>5, Division, DivisionBound
  <2> QED BY <2>1, <2>6 DEF T
<1> QED BY <1>1, <1>2

(* ValidateUnbondAmount and Unbond together: the shares that stand for an  *)
(* amount are worth no more than that amount, whatever the exchange rate,  *)
(* so rounding never pays out more than was asked for.                     *)
LEMMA RoundingNeverPaysMore ==
  ASSUME NEW val, val.tokens \in Nat \ {0}, val.shares \in Nat \ {0}, NEW amt \in Nat,
         SharesFromTokens(val, amt) <= val.shares
  PROVE  /\ SharesFromTokens(val, amt) \in Nat
         /\ RemovedTokens(val, SharesFromTokens(val, amt)) <= amt
<1> DEFINE T == val.tokens
           S == val.shares
           P == Precision
           x == SharesFromTokens(val, amt)
<1>0. T \in Nat \ {0} /\ S \in Nat \ {0} /\ P \in Nat \ {0} /\ x = (S * amt) \div T /\ x <= S
  BY PrecisionAssumption DEF SharesFromTokens
<1>r. RemovedTokens(val, x) = IF x = S THEN T ELSE RoundedQuo(x * T * P, S) \div P
  BY DEF RemovedTokens
<1> SUFFICES x \in Nat /\ RemovedTokens(val, x) <= amt
  OBVIOUS
<1> HIDE DEF T, S, P, x
<1>1. S * amt \in Nat
  BY <1>0
<1>2. x \in Nat /\ x * T <= S * amt
  <2>1. x \in Nat /\ (S * amt) % T \in 0 .. T - 1 /\ S * amt = x * T + ((S * amt) % T)
    BY <1>0, <1>1, Division
  <2> QED BY <1>0, <1>1, <2>1
<1>3. CASE x = S
  <2>1. T * S <= amt * S
    BY <1>0, <1>2, <1>3
  <2>2. (amt + 1) * S = amt * S + S /\ amt * S \in Nat /\ T * S \in Nat
    BY <1>0
  <2>3. T * S < (amt + 1) * S
    BY <1>0, <2>1, <2>2
  <2>4. T <= amt
    BY <1>0, <2>3, ProductCancel
  <2> QED BY <1>2, <1>3, <1>r, <2>4
<1>4. CASE x # S
  <2> DEFINE a == x * T * P
             q == RoundedQuo(a, S)
  <2>2. S \in Nat \ {0}
    BY <1>0, <1>2, <1>4
  <2>3. amt * P \in Nat /\ a = (x * T) * P /\ a \in Nat /\ x * T \in Nat
    BY <1>0, <1>2
  <2>4. a <= (amt * P) * S
    <3>1. (x * T) * P <= (S * amt) * P
      BY <1>0, <1>1, <1>2, <2>3, ProductMonotonic
    <3>2. (S * amt) * P = (amt * P) * S
      BY <1>0, <2>2
    <3> QED BY <2>3, <3>1, <3>2
  <2> HIDE DEF a
  <2>5. q \in Nat /\ q <= amt * P
    BY <2>2, <2>3, <2>4, RoundedQuoFacts, RoundedQuoBound
  <2> HIDE DEF q
  <2>6. q \div P <= amt
    BY <1>0, <2>5, DivisionBound
  <2> QED BY <1>2, <1>4, <1>r, <2>6 DEF q, a
<1> QED BY <1>2, <1>3, <1>4

(* New shares are well defined when the exchange rate is valid. *)
LEMMA IssuedSharesType ==
  ASSUME NEW val, val.tokens \in Nat, val.shares \in Nat, ~InvalidExRate(val), NEW amt \in Nat
  PROVE  IssuedShares(val, amt) \in Nat
<1>1. CASE val.shares = 0
  BY <1>1, PrecisionAssumption, ProductType DEF IssuedShares
<1>2. CASE val.shares # 0
  <2>1. val.tokens \in Nat \ {0} /\ val.shares * amt \in Nat
    BY <1>2, ProductType DEF InvalidExRate
  <2>2. (val.shares * amt) \div val.tokens \in Nat
    BY <2>1, Division
  <2> QED BY <1>2, <2>2 DEF IssuedShares, SharesFromTokens
<1> QED BY <1>1, <1>2

(* A ratio d / n rounded once, times b and rounded again: the two roundings *)
(* are off by half a unit of the ratio times b, and half a unit.           *)
LEMMA TwiceRounded ==
  ASSUME NEW d \in Nat, NEW n \in Nat \ {0}, NEW b \in Nat
  PROVE  LET ratio == RoundedQuo(d * Precision, n)
             part  == RoundedQuo(ratio * b, Precision)
         IN  /\ part \in Nat
             /\ 2 * Precision * (part * n - d * b) <= n * (Precision + b)
             /\ 2 * Precision * (d * b - part * n) <= n * (Precision + b)
<1> DEFINE P == Precision
           x == RoundedQuo(d * P, n)
           y == RoundedQuo(x * b, P)
<1>0. P \in Nat \ {0} /\ d * P \in Nat
  BY PrecisionAssumption
<1>1. x \in Nat /\ 2 * (x * n) <= 2 * (d * P) + n /\ 2 * (d * P) <= 2 * (x * n) + n
  BY <1>0, RoundedQuoFacts
<1>2. x * b \in Nat
  BY <1>1, ProductType
<1>3. y \in Nat /\ 2 * (y * P) <= 2 * (x * b) + P /\ 2 * (x * b) <= 2 * (y * P) + P
  BY <1>0, <1>2, RoundedQuoFacts
<1> SUFFICES /\ y \in Nat
             /\ 2 * P * (y * n - d * b) <= n * (P + b)
             /\ 2 * P * (d * b - y * n) <= n * (P + b)
  OBVIOUS
<1> HIDE DEF P, x, y
\* the four products, each bound multiplied out
<1> DEFINE ypn == (y * P) * n
           xbn == (x * b) * n
           dpb == (d * P) * b
<1>4. y * P \in Nat /\ x * n \in Nat /\ ypn \in Nat /\ xbn \in Nat /\ dpb \in Nat
      /\ n * P \in Nat /\ n * b \in Nat
  BY <1>0, <1>1, <1>2, <1>3, ProductType
<1>5. 2 * ypn <= 2 * xbn + n * P /\ 2 * xbn <= 2 * ypn + n * P
  <2>1. (2 * (y * P)) * n <= (2 * (x * b) + P) * n
    BY <1>0, <1>2, <1>3, <1>4, ProductMonotonic
  <2>2. (2 * (x * b)) * n <= (2 * (y * P) + P) * n
    BY <1>0, <1>2, <1>3, <1>4, ProductMonotonic
  <2>3. (2 * (x * b) + P) * n = 2 * xbn + n * P
    BY <1>0, <1>2
  <2>4. (2 * (y * P) + P) * n = 2 * ypn + n * P
    BY <1>0, <1>4
  <2>5. (2 * (y * P)) * n = 2 * ypn /\ (2 * (x * b)) * n = 2 * xbn
    BY <1>2, <1>4
  <2> QED BY <2>1, <2>2, <2>3, <2>4, <2>5
<1>6. 2 * xbn <= 2 * dpb + n * b /\ 2 * dpb <= 2 * xbn + n * b
  <2>1. (2 * (x * n)) * b <= (2 * (d * P) + n) * b
    BY <1>0, <1>1, <1>4, ProductMonotonic
  <2>2. (2 * (d * P)) * b <= (2 * (x * n) + n) * b
    BY <1>0, <1>1, <1>4, ProductMonotonic
  <2>3. (2 * (d * P) + n) * b = 2 * dpb + n * b
    BY <1>0
  <2>4. (2 * (x * n) + n) * b = 2 * ((x * n) * b) + n * b
    BY <1>4
  <2>5. (x * n) * b = xbn
    BY <1>1
  <2>6. (2 * (x * n)) * b = 2 * ((x * n) * b) /\ (2 * (d * P)) * b = 2 * dpb
    BY <1>0, <1>4
  <2> QED BY <2>1, <2>2, <2>3, <2>4, <2>5, <2>6
<1>7. 2 * P * (y * n - d * b) = 2 * ypn - 2 * dpb
  BY <1>0, <1>3
<1>8. 2 * P * (d * b - y * n) = 2 * dpb - 2 * ypn
  BY <1>0, <1>3
<1>9. n * (P + b) = n * P + n * b
  BY <1>0
<1> HIDE DEF ypn, xbn, dpb
<1> QED BY <1>3, <1>4, <1>5, <1>6, <1>7, <1>8, <1>9
=============================================================================
