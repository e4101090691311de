--------------------------- MODULE ArithmeticProofs ---------------------------
(***************************************************************************)
(* Arithmetic the other proofs rest on: what the operators of CurveMath    *)
(* return, for every u64 and every precision of the f64 arithmetic, and    *)
(* what a sum over a finite set is.                                        *)
(***************************************************************************)
EXTENDS CurveMath, FiniteSetTheorems, TLAPS

-------------------------------------------------------------------------------
(* The rounded-down quotient, and that a larger fraction has a larger one.  *)
LEMMA DivBounds ==
  ASSUME NEW n \in Int, NEW d \in Nat \ {0}
  PROVE  /\ n \div d \in Int
         /\ (n \div d) * d <= n
         /\ n < (n \div d) * d + d
OBVIOUS

(* Quotient and remainder make up the number.                               *)
LEMMA DivMod ==
  ASSUME NEW n \in Nat, NEW d \in Nat \ {0}
  PROVE  n \div d \in Nat /\ n % d \in 0..(d - 1) /\ (n % d) + d * (n \div d) = n
OBVIOUS

LEMMA TimesMonotone ==
  ASSUME NEW a \in Int, NEW b \in Int, NEW c \in Nat, a <= b
  PROVE  a * c <= b * c
OBVIOUS

LEMMA DivMonotone ==
  ASSUME NEW a \in Int, NEW b \in Int, NEW p \in Nat \ {0}, NEW q \in Nat \ {0}, a * q <= b * p
  PROVE  a \div p <= b \div q
<1> DEFINE x == a \div p
           y == b \div q
<1>1. /\ x \in Int /\ x * p <= a
      /\ y \in Int /\ b < y * q + q
  BY DivBounds
<1> HIDE DEF x, y
<1>2. SUFFICES ASSUME x >= y + 1 PROVE FALSE
  BY <1>1 DEF x, y
<1>3. (x * p) * q <= a * q
  BY <1>1, TimesMonotone
<1>4. (y + 1) * q <= x * q
  BY <1>1, <1>2, TimesMonotone
<1>5. b < x * q
  BY <1>1, <1>4
<1>6. x * q \in Int /\ b + 1 <= x * q
  BY <1>1, <1>5
<1>7. (b + 1) * p <= (x * q) * p
  BY <1>6, TimesMonotone
<1>8. (x * q) * p = (x * p) * q
  BY <1>1
<1>9. (b + 1) * p = b * p + p
  OBVIOUS
<1> QED
  BY <1>1, <1>3, <1>7, <1>8, <1>9

(* A product of naturals is cancelled.                                      *)
LEMMA Cancel ==
  ASSUME NEW a \in Int, NEW b \in Int, NEW c \in Nat \ {0}, a * c <= b * c
  PROVE  a <= b
<1>1. SUFFICES ASSUME b + 1 <= a PROVE FALSE
  OBVIOUS
<1>2. (b + 1) * c <= a * c
  BY <1>1, TimesMonotone
<1> QED
  BY <1>2

-------------------------------------------------------------------------------
(* The saturating cast and the checked operations.                          *)
LEMMA U64Nat == U64 \subseteq Nat
BY MaxU64Assumption DEF U64

LEMMA AsU64Type == ASSUME NEW k \in Int PROVE AsU64(k) \in U64
BY MaxU64Assumption DEF AsU64, U64

LEMMA AsU64Monotone ==
  ASSUME NEW j \in Int, NEW k \in Int, j <= k
  PROVE  AsU64(j) <= AsU64(k)
BY MaxU64Assumption DEF AsU64

LEMMA AsU64Below ==
  ASSUME NEW k \in Int, NEW b \in Nat, k <= b
  PROVE  AsU64(k) <= b
BY MaxU64Assumption DEF AsU64

LEMMA CheckedAddType ==
  ASSUME NEW a \in Nat, NEW b \in Nat, NEW r \in CheckedAdd(a, b)
  PROVE  r \in U64 /\ r = a + b
BY MaxU64Assumption DEF CheckedAdd, U64

LEMMA CheckedSubType ==
  ASSUME NEW a \in U64, NEW b \in Nat, NEW r \in CheckedSub(a, b)
  PROVE  r \in U64 /\ r = a - b /\ b <= a
BY MaxU64Assumption DEF CheckedSub, U64

-------------------------------------------------------------------------------
(* The ends of the interval a truncated f64 quotient falls into.            *)
LowEnd(num, den)  == (num * FloatPrecision - num) \div (den * FloatPrecision)
HighEnd(num, den) == (num * FloatPrecision + num) \div (den * FloatPrecision)

LEMMA FloatTruncEnds ==
  ASSUME NEW num \in Nat, NEW den \in Nat \ {0}
  PROVE  /\ LowEnd(num, den) \in Int /\ HighEnd(num, den) \in Int
         /\ LowEnd(num, den) <= HighEnd(num, den)
         /\ FloatTrunc(num, den) = { AsU64(k) : k \in LowEnd(num, den) .. HighEnd(num, den) }
<1>1. FloatPrecision \in Nat \ {0}
  BY FloatPrecisionAssumption
<1>2. den * FloatPrecision \in Nat \ {0}
  BY <1>1
<1>3. num * FloatPrecision - num \in Int /\ num * FloatPrecision + num \in Int
  BY <1>1
<1>4. num * FloatPrecision - num <= num * FloatPrecision + num
  BY <1>1
<1>5. (num * FloatPrecision - num) * (den * FloatPrecision)
        <= (num * FloatPrecision + num) * (den * FloatPrecision)
  BY <1>2, <1>3, <1>4, TimesMonotone
<1> QED
  BY <1>2, <1>3, <1>5, DivBounds, DivMonotone DEF LowEnd, HighEnd, FloatTrunc

LEMMA FloatTruncType ==
  ASSUME NEW n, NEW d, NEW x \in FloatTrunc(n, d) PROVE x \in U64
<1>1. PICK k \in Int : x = AsU64(k)
  BY DEF FloatTrunc
<1> QED
  BY <1>1, AsU64Type

(* A truncated quotient exceeds the exact one by at most its rounding.      *)
LEMMA FloatTruncBound ==
  ASSUME NEW num \in Nat, NEW den \in Nat \ {0}, NEW x \in FloatTrunc(num, den)
  PROVE  x \in Nat /\ (x * den) * FloatPrecision <= num * FloatPrecision + num
<1>1. FloatPrecision \in Nat \ {0}
  BY FloatPrecisionAssumption
<1>2. PICK k \in LowEnd(num, den) .. HighEnd(num, den) : x = AsU64(k)
  BY FloatTruncEnds
<1>3. k \in Int /\ k <= HighEnd(num, den) /\ HighEnd(num, den) \in Int
  BY <1>2, FloatTruncEnds
<1>4. x \in Nat
  BY <1>2, <1>3, AsU64Type, U64Nat
<1>5. CASE k < 0
  <2>1. x = 0
    BY <1>2, <1>3, <1>5 DEF AsU64
  <2> QED
    BY <1>1, <1>4, <2>1
<1>6. CASE k >= 0
  <2>1. x <= k
    BY <1>2, <1>3, <1>6, AsU64Below
  <2>2. den * FloatPrecision \in Nat \ {0}
    BY <1>1
  <2>3. num * FloatPrecision + num \in Int
    BY <1>1
  <2>4. HighEnd(num, den) * (den * FloatPrecision) <= num * FloatPrecision + num
    BY <2>2, <2>3, DivBounds DEF HighEnd
  <2>5. x <= HighEnd(num, den)
    BY <1>3, <1>4, <2>1
  <2>6. x * (den * FloatPrecision) <= HighEnd(num, den) * (den * FloatPrecision)
    BY <1>3, <1>4, <2>2, <2>5, TimesMonotone
  <2>7. x * (den * FloatPrecision) = (x * den) * FloatPrecision
    BY <1>1, <1>4
  <2> QED
    BY <1>1, <1>3, <1>4, <2>2, <2>3, <2>4, <2>6, <2>7
<1> QED
  BY <1>3, <1>5, <1>6

(* There is always an outcome, and a larger fraction allows a larger one.   *)
LEMMA FloatTruncAbove ==
  ASSUME NEW n \in Nat, NEW d \in Nat \ {0}, NEW num \in Nat, NEW den \in Nat \ {0},
         n * den <= num * d, NEW x \in FloatTrunc(n, d)
  PROVE  \E y \in FloatTrunc(num, den) : x <= y
<1>1. FloatPrecision \in Nat \ {0}
  BY FloatPrecisionAssumption
<1>2. PICK k \in Int : x = AsU64(k) /\ k <= HighEnd(n, d)
  BY FloatTruncEnds
<1>3. HighEnd(n, d) <= HighEnd(num, den)
  <2>1. d * FloatPrecision \in Nat \ {0} /\ den * FloatPrecision \in Nat \ {0}
    BY <1>1
  <2>2. FloatPrecision * FloatPrecision + FloatPrecision \in Nat
    BY <1>1
  <2>3. (n * den) * (FloatPrecision * FloatPrecision + FloatPrecision)
          <= (num * d) * (FloatPrecision * FloatPrecision + FloatPrecision)
    BY <2>2, TimesMonotone
  <2>4. \A a, b \in Nat :
          (a * FloatPrecision + a) * (b * FloatPrecision)
            = (a * b) * (FloatPrecision * FloatPrecision + FloatPrecision)
    BY <1>1
  <2>5. (n * FloatPrecision + n) * (den * FloatPrecision)
          <= (num * FloatPrecision + num) * (d * FloatPrecision)
    BY <2>3, <2>4
  <2>6. n * FloatPrecision + n \in Int /\ num * FloatPrecision + num \in Int
    BY <1>1
  <2> QED
    BY <2>1, <2>5, <2>6, DivMonotone DEF HighEnd
<1>4. HighEnd(n, d) \in Int /\ HighEnd(num, den) \in Int /\ LowEnd(num, den) <= HighEnd(num, den)
      /\ LowEnd(num, den) \in Int
  BY FloatTruncEnds
<1>5. AsU64(HighEnd(num, den)) \in FloatTrunc(num, den)
  BY <1>4, FloatTruncEnds
<1>6. x <= AsU64(HighEnd(num, den))
  BY <1>2, <1>3, <1>4, AsU64Monotone
<1> QED
  BY <1>5, <1>6

-------------------------------------------------------------------------------
(* What is priced of an amount, and what a larger amount may be priced at.  *)
LEMMA AdjustedType ==
  ASSUME NEW amount, NEW fee, NEW x \in AdjustedAmount(amount, fee) PROVE x \in U64
BY FloatTruncType, MaxU64Assumption DEF AdjustedAmount, U64

LEMMA AdjustedCovers ==
  ASSUME NEW b \in Nat, NEW a \in Nat, b <= a, NEW fee \in Nat, NEW x \in AdjustedAmount(b, fee)
  PROVE  \E y \in AdjustedAmount(a, fee) : x <= y /\ (y = x \/ y <= a)
<1>1. CASE fee >= 100
  BY <1>1 DEF AdjustedAmount
<1>2. CASE fee < 100
  <2>1. FloatPrecision \in Nat \ {0} /\ 100 \in Nat \ {0}
    BY FloatPrecisionAssumption
  <2>2. PICK r \in Nat : r = 100 - fee /\ r <= 100
    BY <1>2
  <2>3. /\ AdjustedAmount(b, fee) = FloatTrunc(b * r, 100)
        /\ AdjustedAmount(a, fee) = FloatTrunc(a * r, 100)
    BY <1>2, <2>2 DEF AdjustedAmount
  <2>4. b * r \in Nat /\ a * r \in Nat /\ b * r <= a * r
    BY <2>2, TimesMonotone
  <2>5. PICK k \in Int : x = AsU64(k) /\ k <= HighEnd(b * r, 100)
    BY <2>1, <2>3, <2>4, FloatTruncEnds
  <2> DEFINE lo == LowEnd(a * r, 100)
             hi == HighEnd(a * r, 100)
  <2>6. /\ lo \in Int /\ hi \in Int /\ lo <= hi
        /\ AdjustedAmount(a, fee) = { AsU64(j) : j \in lo .. hi }
    BY <2>1, <2>3, <2>4, FloatTruncEnds
  <2> HIDE DEF lo, hi
  <2>7. k <= hi
    <3>1. HighEnd(b * r, 100) <= HighEnd(a * r, 100)
      <4>1. b * r * FloatPrecision + b * r <= a * r * FloatPrecision + a * r
        BY <2>1, <2>4, TimesMonotone
      <4>2. 100 * FloatPrecision \in Nat \ {0} /\ b * r * FloatPrecision + b * r \in Int
            /\ a * r * FloatPrecision + a * r \in Int
        BY <2>1, <2>4
      <4>3. (b * r * FloatPrecision + b * r) * (100 * FloatPrecision)
              <= (a * r * FloatPrecision + a * r) * (100 * FloatPrecision)
        BY <4>1, <4>2, TimesMonotone
      <4> QED
        BY <4>2, <4>3, DivMonotone DEF HighEnd
    <3>2. HighEnd(b * r, 100) \in Int
      BY <2>1, <2>4, FloatTruncEnds
    <3> QED
      BY <2>5, <2>6, <3>1, <3>2 DEF hi
  <2>8. CASE lo <= k
    <3>1. x \in AdjustedAmount(a, fee)
      BY <2>5, <2>6, <2>7, <2>8
    <3>2. x \in Nat
      BY AdjustedType, U64Nat
    <3> QED
      BY <3>1, <3>2
  <2>9. CASE k < lo
    <3>1. AsU64(lo) \in AdjustedAmount(a, fee) /\ x <= AsU64(lo)
      BY <2>5, <2>6, <2>9, AsU64Monotone
    <3>2. lo <= a
      <4>1. 100 * FloatPrecision \in Nat \ {0} /\ a * r * FloatPrecision - a * r \in Int
        BY <2>1, <2>4
      <4>2. lo * (100 * FloatPrecision) <= a * r * FloatPrecision - a * r
        BY <4>1, DivBounds DEF lo, LowEnd
      <4>3. a * r * FloatPrecision <= a * (100 * FloatPrecision)
        <5>1. r * (a * FloatPrecision) <= 100 * (a * FloatPrecision)
          BY <2>1, <2>2, TimesMonotone
        <5> QED
          BY <2>1, <2>2, <5>1
      <4>4. lo * (100 * FloatPrecision) <= a * (100 * FloatPrecision)
        BY <2>1, <2>4, <2>6, <4>1, <4>2, <4>3
      <4> QED
        BY <2>6, <4>1, <4>4, Cancel
    <3> QED
      BY <2>6, <3>1, <3>2, AsU64Below
  <2> QED
    BY <2>5, <2>6, <2>8, <2>9
<1> QED
  BY <1>1, <1>2

(* What a priced amount brings, bounded and never less for a larger amount. *)
LEMMA AmountOutType ==
  ASSUME NEW in, NEW held, NEW x, NEW out \in AmountOut(in, held, x) PROVE out \in U64
BY FloatTruncType, MaxU64Assumption DEF AmountOut, U64

LEMMA AmountOutBound ==
  ASSUME NEW in \in Nat, NEW held \in Nat, NEW x \in Nat, NEW out \in AmountOut(in, held, x)
  PROVE  /\ out \in Nat
         /\ (out * (in + x)) * FloatPrecision <= (held * x) * FloatPrecision + held * x
<1>1. CASE x = 0
  BY <1>1, FloatPrecisionAssumption DEF AmountOut
<1>2. CASE x # 0
  <2>1. in + x \in Nat \ {0} /\ held * x \in Nat
    BY <1>2
  <2>2. out \in FloatTrunc(held * x, in + x)
    BY <1>2 DEF AmountOut
  <2> QED
    BY <2>1, <2>2, FloatTruncBound
<1> QED
  BY <1>1, <1>2

LEMMA AmountOutCovers ==
  ASSUME NEW in \in Nat, NEW held \in Nat, NEW x \in Nat, NEW y \in Nat, x <= y,
         NEW out \in AmountOut(in, held, x)
  PROVE  \E o \in AmountOut(in, held, y) : out <= o
<1>1. CASE y = 0
  BY <1>1 DEF AmountOut
<1>2. CASE y # 0 /\ x # 0
  <2>1. in + x \in Nat \ {0} /\ in + y \in Nat \ {0} /\ held * x \in Nat /\ held * y \in Nat
    BY <1>2
  <2>2. (held * x) * (in + y) <= (held * y) * (in + x)
    <3>1. x * (held * in) <= y * (held * in)
      BY TimesMonotone
    <3>2. /\ (held * x) * (in + y) = x * (held * in) + held * x * y
          /\ (held * y) * (in + x) = y * (held * in) + held * x * y
      OBVIOUS
    <3> QED
      BY <3>1, <3>2
  <2>3. out \in FloatTrunc(held * x, in + x)
    BY <1>2 DEF AmountOut
  <2>4. \E o \in FloatTrunc(held * y, in + y) : out <= o
    BY <2>1, <2>2, <2>3, FloatTruncAbove
  <2> QED
    BY <1>2, <2>4 DEF AmountOut
<1>3. CASE y # 0 /\ x = 0
  <2>1. in + y \in Nat \ {0} /\ held * y \in Nat
    BY <1>3
  <2>2. LowEnd(held * y, in + y) \in Int /\ HighEnd(held * y, in + y) \in Int
        /\ LowEnd(held * y, in + y) <= HighEnd(held * y, in + y)
    BY <2>1, FloatTruncEnds
  <2>3. AsU64(HighEnd(held * y, in + y)) \in FloatTrunc(held * y, in + y)
    BY <2>1, <2>2, FloatTruncEnds
  <2>4. AsU64(HighEnd(held * y, in + y)) \in Nat
    BY <2>2, AsU64Type, U64Nat
  <2>5. out = 0
    BY <1>3 DEF AmountOut
  <2> QED
    BY <1>3, <2>3, <2>4, <2>5 DEF AmountOut
<1> QED
  BY <1>1, <1>2, <1>3

-------------------------------------------------------------------------------
(* The two reserves as the price sees them.                                 *)
ReserveIn(c, direction)  == IF direction = Sell THEN c.reserve_token ELSE c.reserve_lamport
ReserveOut(c, direction) == IF direction = Sell THEN c.reserve_lamport ELSE c.reserve_token
FeeFor(cfg, direction) ==
  IF direction = Sell THEN cfg.platform_sell_fee ELSE cfg.platform_buy_fee

LEMMA Priced ==
  ASSUME NEW c, NEW amount, NEW direction, NEW cfg, NEW q \in CalAmountOut(c, amount, direction, cfg)
  PROVE  /\ q = [adjusted |-> q.adjusted, out |-> q.out]
         /\ q.adjusted \in AdjustedAmount(amount, FeeFor(cfg, direction))
         /\ CheckedAdd(ReserveIn(c, direction), q.adjusted) # {}
         /\ q.out \in AmountOut(ReserveIn(c, direction), ReserveOut(c, direction), q.adjusted)
         /\ q.adjusted \in U64 /\ q.out \in U64
<1>1. PICK a \in AdjustedAmount(amount, FeeFor(cfg, direction)) :
        /\ CheckedAdd(ReserveIn(c, direction), a) # {}
        /\ \E o \in AmountOut(ReserveIn(c, direction), ReserveOut(c, direction), a) :
             q = [adjusted |-> a, out |-> o]
  BY DEF CalAmountOut, ReserveIn, ReserveOut, FeeFor
<1>2. PICK o \in AmountOut(ReserveIn(c, direction), ReserveOut(c, direction), a) :
        q = [adjusted |-> a, out |-> o]
  BY <1>1
<1>3. q.adjusted = a /\ q.out = o
  BY <1>2
<1> QED
  BY <1>1, <1>2, <1>3, AdjustedType, AmountOutType

LEMMA PricedIntro ==
  ASSUME NEW c, NEW amount, NEW direction, NEW cfg,
         NEW a \in AdjustedAmount(amount, FeeFor(cfg, direction)),
         CheckedAdd(ReserveIn(c, direction), a) # {},
         NEW o \in AmountOut(ReserveIn(c, direction), ReserveOut(c, direction), a)
  PROVE  [adjusted |-> a, out |-> o] \in CalAmountOut(c, amount, direction, cfg)
BY DEF CalAmountOut, ReserveIn, ReserveOut, FeeFor

(* Who asks for more is not offered less, as long as the sum is a u64.      *)
LEMMA PriceMonotone ==
  ASSUME NEW c, NEW direction, NEW cfg, NEW b \in Nat, NEW a \in Nat, b <= a,
         ReserveIn(c, direction) \in Nat, ReserveOut(c, direction) \in Nat,
         FeeFor(cfg, direction) \in Nat, ReserveIn(c, direction) + a <= MaxU64,
         NEW q \in CalAmountOut(c, b, direction, cfg)
  PROVE  \E r \in CalAmountOut(c, a, direction, cfg) : q.out <= r.out
<1>1. PICK in \in Nat, held \in Nat : in = ReserveIn(c, direction) /\ held = ReserveOut(c, direction)
  OBVIOUS
<1>2. /\ q.adjusted \in AdjustedAmount(b, FeeFor(cfg, direction))
      /\ q.adjusted \in Nat /\ CheckedAdd(in, q.adjusted) # {}
      /\ q.out \in AmountOut(in, held, q.adjusted)
  BY <1>1, Priced, U64Nat
<1>3. PICK y \in AdjustedAmount(a, FeeFor(cfg, direction)) :
        q.adjusted <= y /\ (y = q.adjusted \/ y <= a)
  BY <1>2, AdjustedCovers
<1>4. y \in Nat
  BY AdjustedType, U64Nat
<1>5. CheckedAdd(in, y) # {}
  BY <1>1, <1>2, <1>3, <1>4, MaxU64Assumption DEF CheckedAdd
<1>6. PICK o \in AmountOut(in, held, y) : q.out <= o
  BY <1>1, <1>2, <1>3, <1>4, AmountOutCovers
<1>7. [adjusted |-> y, out |-> o] \in CalAmountOut(c, a, direction, cfg)
  BY <1>1, <1>3, <1>5, <1>6, PricedIntro
<1> QED
  BY <1>6, <1>7

-------------------------------------------------------------------------------
(* What is paid out of a reserve, over what comes into the other, lowers    *)
(* their product by no more than the rounding of the price.                 *)
LEMMA ProductRounding ==
  ASSUME NEW in \in Nat, NEW held \in Nat, NEW amount \in Nat, NEW x \in Nat, x <= amount,
         NEW out \in AmountOut(in, held, x), out <= held
  PROVE  (in * held) * FloatPrecision
           <= ((in + amount) * (held - out)) * FloatPrecision + held * amount
<1>1. FloatPrecision \in Nat
  BY FloatPrecisionAssumption
<1>2. out \in Nat /\ (out * (in + x)) * FloatPrecision <= (held * x) * FloatPrecision + held * x
  BY AmountOutBound
<1>3. PICK rest \in Nat : rest = held - out
  BY <1>2
<1>4. ((in + x) * rest) * FloatPrecision + (out * (in + x)) * FloatPrecision
        = (in * held) * FloatPrecision + (held * x) * FloatPrecision
  BY <1>1, <1>2, <1>3
<1>5. (in * held) * FloatPrecision <= ((in + x) * rest) * FloatPrecision + held * x
  BY <1>1, <1>2, <1>3, <1>4
<1>6. (in + x) * (rest * FloatPrecision) <= (in + amount) * (rest * FloatPrecision)
  BY <1>1, <1>3, TimesMonotone
<1>7. /\ (in + x) * (rest * FloatPrecision) = ((in + x) * rest) * FloatPrecision
      /\ (in + amount) * (rest * FloatPrecision) = ((in + amount) * rest) * FloatPrecision
  BY <1>1, <1>3
<1>8. held * x <= held * amount
  <2>1. x * held <= amount * held
    BY TimesMonotone
  <2> QED
    BY <2>1
<1>9. ((in + x) * rest) * FloatPrecision <= ((in + amount) * rest) * FloatPrecision
  BY <1>6, <1>7
<1>10. /\ (in * held) * FloatPrecision \in Nat /\ held * x \in Nat /\ held * amount \in Nat
       /\ ((in + x) * rest) * FloatPrecision \in Nat
       /\ ((in + amount) * rest) * FloatPrecision \in Nat
  BY <1>1, <1>3
<1>11. (in * held) * FloatPrecision <= ((in + amount) * rest) * FloatPrecision + held * amount
  BY <1>5, <1>8, <1>9, <1>10
<1> QED
  BY <1>3, <1>11

(* The part of an amount that is priced passes the amount by no more than   *)
(* the rounding.                                                            *)
LEMMA AdjustedRounds ==
  ASSUME NEW amount \in Nat, NEW fee \in Nat, NEW x \in AdjustedAmount(amount, fee)
  PROVE  x \in Nat /\ x * FloatPrecision <= amount * FloatPrecision + amount
<1>1. FloatPrecision \in Nat \ {0}
  BY FloatPrecisionAssumption
<1>2. CASE fee >= 100
  BY <1>1, <1>2 DEF AdjustedAmount
<1>3. CASE fee < 100
  <2> DEFINE num == amount * (100 - fee)
  <2>1. x \in FloatTrunc(num, 100)
    BY <1>3 DEF AdjustedAmount
  <2>2. num \in Nat /\ num <= amount * 100
    <3>1. 100 - fee \in Nat /\ 100 - fee <= 100
      BY <1>3
    <3>2. (100 - fee) * amount <= 100 * amount
      BY <3>1, TimesMonotone
    <3> QED
      BY <3>1, <3>2
  <2> HIDE DEF num
  <2>3. x \in Nat /\ (x * 100) * FloatPrecision <= num * FloatPrecision + num
    BY <2>1, <2>2, FloatTruncBound
  <2>4. num * FloatPrecision <= (amount * 100) * FloatPrecision
    BY <1>1, <2>2, TimesMonotone
  <2>5. PICK p \in Nat, q \in Nat, r \in Nat :
          p = amount * FloatPrecision /\ q = x * FloatPrecision /\ r = num * FloatPrecision
    BY <1>1, <2>2, <2>3
  <2>6. (amount * 100) * FloatPrecision = 100 * p /\ (x * 100) * FloatPrecision = 100 * q
    BY <1>1, <2>3, <2>5
  <2>7. 100 * q <= 100 * p + 100 * amount
    BY <2>2, <2>3, <2>4, <2>5, <2>6
  <2> QED
    BY <2>3, <2>5, <2>7
<1> QED
  BY <1>2, <1>3

(* Where nothing caps what is priced at the amount paid, it costs two more  *)
(* roundings.                                                               *)
LEMMA UncappedRounding ==
  ASSUME NEW in \in Nat, NEW held \in Nat, NEW amount \in Nat, NEW x \in Nat,
         x * FloatPrecision <= amount * FloatPrecision + amount,
         NEW out \in AmountOut(in, held, x), out <= held
  PROVE  (in * held) * FloatPrecision
           <= ((in + amount) * (held - out)) * FloatPrecision + 3 * (held * amount)
<1>1. FloatPrecision \in Nat \ {0} /\ out \in Nat /\ held * amount \in Nat
  BY FloatPrecisionAssumption, AmountOutBound
<1>2. CASE x <= amount
  <2>1. (in * held) * FloatPrecision
          <= ((in + amount) * (held - out)) * FloatPrecision + held * amount
    BY <1>2, ProductRounding
  <2>2. /\ (in * held) * FloatPrecision \in Int
        /\ ((in + amount) * (held - out)) * FloatPrecision \in Int
    BY <1>1
  <2> QED
    BY <1>1, <2>1, <2>2
<1>3. CASE amount < x
  <2>1. PICK rest \in Nat, y \in Nat : rest = held - out /\ y = x - amount
    BY <1>1, <1>3
  <2>2. y * FloatPrecision <= amount
    <3>1. x * FloatPrecision = amount * FloatPrecision + y * FloatPrecision
      BY <1>1, <2>1
    <3>2. amount * FloatPrecision \in Int /\ y * FloatPrecision \in Int
      BY <1>1
    <3> QED
      BY <3>1, <3>2
  <2>3. (in * held) * FloatPrecision <= ((in + x) * rest) * FloatPrecision + held * x
    <3>1. (in * held) * FloatPrecision <= ((in + x) * (held - out)) * FloatPrecision + held * x
      <4>1. x <= x
        OBVIOUS
      <4> QED
        BY <4>1, ProductRounding, Zenon
    <3> QED
      BY <2>1, <3>1
  <2>4. ((in + x) * rest) * FloatPrecision
          = ((in + amount) * rest) * FloatPrecision + (y * FloatPrecision) * rest
    BY <1>1, <2>1
  <2>5. (y * FloatPrecision) * rest <= amount * held
    <3>1. (y * FloatPrecision) * rest <= amount * rest
      BY <1>1, <2>2, TimesMonotone
    <3>2. rest * amount <= held * amount
      BY <1>1, <2>1, TimesMonotone
    <3>3. (y * FloatPrecision) * rest \in Int /\ amount * rest = rest * amount
          /\ amount * held = held * amount /\ rest * amount \in Int
      BY <1>1
    <3> QED
      BY <1>1, <3>1, <3>2, <3>3
  <2>6. held * x <= held * amount + held * amount
    <3>1. y <= amount
      <4>1. 1 * y <= FloatPrecision * y
        BY <1>1, TimesMonotone
      <4>2. FloatPrecision * y = y * FloatPrecision /\ y * FloatPrecision \in Int
        BY <1>1
      <4> QED
        BY <2>2, <4>1, <4>2
    <3>2. y * held <= amount * held
      BY <3>1, TimesMonotone
    <3>3. held * x = held * amount + y * held /\ amount * held = held * amount
          /\ y * held \in Int
      BY <2>1
    <3> QED
      BY <1>1, <3>2, <3>3
  <2>7. PICK p \in Int, q \in Int, r \in Int, h \in Nat :
          /\ p = (in * held) * FloatPrecision
          /\ q = ((in + amount) * rest) * FloatPrecision
          /\ r = (y * FloatPrecision) * rest
          /\ h = held * amount
    BY <1>1
  <2>8. p <= q + 3 * h
    <3>1. PICK z \in Int : z = held * x
      OBVIOUS
    <3>2. amount * held = h /\ p <= q + r + z /\ r <= h /\ z <= h + h
      BY <2>3, <2>4, <2>5, <2>6, <2>7, <3>1
    <3> QED
      BY <3>2
  <2> QED
    BY <2>1, <2>7, <2>8
<1> QED
  BY <1>2, <1>3

-------------------------------------------------------------------------------
(* Sums.  SumFunction is a recursive function over the subsets of its       *)
(* domain; each lemma about it takes a smallest subset for which it fails.  *)

(* The first element in the order SumFunction adds them up.                 *)
First(s) == CHOOSE x \in s : TRUE

(* g adds up the values of f over every subset of D.                        *)
AddsUp(f, D, g) ==
  g = [s \in SUBSET D |-> IF s = {} THEN 0 ELSE f[First(s)] + g[s \ {First(s)}]]

SumsOf(f, D) == CHOOSE g : AddsUp(f, D, g)

LEMMA SumFunctionIs == ASSUME NEW f PROVE SumFunction(f) = SumsOf(f, DOMAIN f)[DOMAIN f]
BY DEF SumFunction, SumFunctionOnSet, FoldFunctionOnSet, MapThenFoldSet, SumsOf, AddsUp, First

LEMMA MinimalSubset ==
  ASSUME NEW D, IsFiniteSet(D), NEW T, T \subseteq SUBSET D, T # {}
  PROVE  \E s \in T : \A t \in SUBSET s : t # s => t \notin T
<1>1. IsWellFoundedOn(StrictSubsetOrdering(D), SUBSET D)
  BY FS_StrictSubsetOrderingWellFounded, FS_FiniteSubsetsOfFinite
<1>2. PICK s \in T : \A t \in T : ~ (<<t, s>> \in StrictSubsetOrdering(D))
  BY <1>1, WFMin
<1>3. ASSUME NEW t \in SUBSET s, t # s, t \in T PROVE FALSE
  <2>1. <<t, s>> \in StrictSubsetOrdering(D)
    BY <1>2, <1>3 DEF StrictSubsetOrdering
  <2> QED
    BY <1>2, <1>3, <2>1
<1> QED
  BY <1>3

(* What adds up is determined by f alone.                                   *)
LEMMA SumsAgree ==
  ASSUME NEW f, NEW D, NEW E, IsFiniteSet(D), D \subseteq E,
         NEW g, AddsUp(f, D, g), NEW h, AddsUp(f, E, h)
  PROVE  \A s \in SUBSET D : g[s] = h[s]
<1> DEFINE T == { s \in SUBSET D : g[s] # h[s] }
<1>1. SUFFICES ASSUME T # {} PROVE FALSE
  OBVIOUS
<1>2. PICK s \in T : \A t \in SUBSET s : t # s => t \notin T
  <2> HIDE DEF T
  <2>1. T \subseteq SUBSET D
    BY DEF T
  <2> QED
    BY <1>1, <2>1, MinimalSubset
<1>3. /\ s \in SUBSET D /\ s \in SUBSET E
      /\ g[s] = IF s = {} THEN 0 ELSE f[First(s)] + g[s \ {First(s)}]
      /\ h[s] = IF s = {} THEN 0 ELSE f[First(s)] + h[s \ {First(s)}]
  BY DEF AddsUp
<1>4. CASE s = {}
  BY <1>2, <1>3, <1>4
<1>5. CASE s # {}
  <2>1. First(s) \in s
    BY <1>5 DEF First
  <2>2. s \ {First(s)} \in SUBSET s /\ s \ {First(s)} # s /\ s \ {First(s)} \in SUBSET D
    BY <1>3, <2>1
  <2>3. g[s \ {First(s)}] = h[s \ {First(s)}]
    BY <1>2, <2>2
  <2> QED
    BY <1>2, <1>3, <1>5, <2>3
<1> QED
  BY <1>4, <1>5

(* Every function over a finite set can be added up.                        *)
LEMMA SumsExist ==
  ASSUME NEW f, NEW D, IsFiniteSet(D)
  PROVE  AddsUp(f, D, SumsOf(f, D))
<1> DEFINE T == { s \in SUBSET D : ~ AddsUp(f, s, SumsOf(f, s)) }
<1>1. SUFFICES ASSUME T # {} PROVE FALSE
  OBVIOUS
<1>2. PICK s \in T : \A t \in SUBSET s : t # s => t \notin T
  <2> HIDE DEF T
  <2>1. T \subseteq SUBSET D
    BY DEF T
  <2> QED
    BY <1>1, <2>1, MinimalSubset
<1>3. s \in SUBSET D /\ \A t \in SUBSET s : t # s => AddsUp(f, t, SumsOf(f, t))
  BY <1>2
<1> DEFINE below(t) == SumsOf(f, t)[t]
           sums == [t \in SUBSET s |-> IF t = {} THEN 0 ELSE f[First(t)] + below(t \ {First(t)})]
<1>4. ASSUME NEW t \in SUBSET s, t # s PROVE below(t) = sums[t]
  <2>1. AddsUp(f, t, SumsOf(f, t))
    BY <1>3, <1>4
  <2>2. below(t) = IF t = {} THEN 0 ELSE f[First(t)] + SumsOf(f, t)[t \ {First(t)}]
    BY <2>1 DEF AddsUp
  <2>3. CASE t = {}
    BY <2>2, <2>3
  <2>4. CASE t # {}
    <3> DEFINE r == t \ {First(t)}
    <3>1. First(t) \in t
      BY <2>4 DEF First
    <3>2. r \in SUBSET t /\ r \in SUBSET s /\ r # s /\ r \subseteq t
      BY <3>1
    <3>3. AddsUp(f, r, SumsOf(f, r)) /\ IsFiniteSet(r)
      BY <1>3, <3>2, FS_Subset
    <3>4. SumsOf(f, r)[r] = SumsOf(f, t)[r]
      <4> HIDE DEF r
      <4> QED
        BY <2>1, <3>2, <3>3, SumsAgree
    <3> QED
      BY <2>2, <2>4, <3>4
  <2> QED
    BY <2>3, <2>4
<1>5. AddsUp(f, s, sums)
  <2>1. ASSUME NEW t \in SUBSET s, t # {}
        PROVE  below(t \ {First(t)}) = sums[t \ {First(t)}]
    <3>1. First(t) \in t
      BY <2>1 DEF First
    <3>2. t \ {First(t)} \in SUBSET s /\ t \ {First(t)} # s
      BY <3>1
    <3> HIDE DEF below, sums
    <3> QED
      BY <1>4, <3>2
  <2>2. sums = [t \in SUBSET s |-> IF t = {} THEN 0 ELSE f[First(t)] + sums[t \ {First(t)}]]
    <3>1. \A t \in SUBSET s : (IF t = {} THEN 0 ELSE f[First(t)] + below(t \ {First(t)}))
                            = (IF t = {} THEN 0 ELSE f[First(t)] + sums[t \ {First(t)}])
      <4> HIDE DEF below, sums
      <4> QED
        BY <2>1
    <3>2. sums = [t \in SUBSET s |-> IF t = {} THEN 0 ELSE f[First(t)] + below(t \ {First(t)})]
      OBVIOUS
    <3> HIDE DEF below, sums
    <3> QED
      BY <3>1, <3>2
  <2> HIDE DEF sums
  <2> QED
    BY <2>2 DEF AddsUp
<1>6. AddsUp(f, s, SumsOf(f, s))
  <2> HIDE DEF sums
  <2> QED
    BY <1>5 DEF SumsOf
<1> QED
  BY <1>2, <1>6

LEMMA AddsUpAt ==
  ASSUME NEW f, NEW D, NEW g, AddsUp(f, D, g), NEW s \in SUBSET D
  PROVE  g[s] = IF s = {} THEN 0 ELSE f[First(s)] + g[s \ {First(s)}]
BY DEF AddsUp

LEMMA SumEmpty == \A f, D : IsFiniteSet(D) => SumsOf(f, D)[{}] = 0
<1> SUFFICES ASSUME NEW f, NEW D, IsFiniteSet(D) PROVE SumsOf(f, D)[{}] = 0
  OBVIOUS
<1>1. {} \in SUBSET D
  OBVIOUS
<1> QED
  BY <1>1, SumsExist, AddsUpAt

LEMMA SumStep ==
  ASSUME NEW D, IsFiniteSet(D), NEW s \in SUBSET D, s # {}
  PROVE  /\ First(s) \in s /\ First(s) \in D
         /\ s \ {First(s)} \in SUBSET s /\ s \ {First(s)} # s /\ s \ {First(s)} \in SUBSET D
         /\ \A f : SumsOf(f, D)[s] = f[First(s)] + SumsOf(f, D)[s \ {First(s)}]
<1>1. First(s) \in s
  BY DEF First
<1>2. ASSUME NEW f PROVE SumsOf(f, D)[s] = f[First(s)] + SumsOf(f, D)[s \ {First(s)}]
  BY SumsExist, AddsUpAt
<1> QED
  BY <1>1, <1>2

(* A sum of integers is an integer, one of naturals a natural.              *)
LEMMA SumType ==
  ASSUME NEW D, IsFiniteSet(D), NEW N \in {Nat, Int}, NEW f \in [D -> N]
  PROVE  \A s \in SUBSET D : SumsOf(f, D)[s] \in N
<1> DEFINE T == { s \in SUBSET D : SumsOf(f, D)[s] \notin N }
<1>1. SUFFICES ASSUME T # {} PROVE FALSE
  OBVIOUS
<1>2. PICK s \in T : \A t \in SUBSET s : t # s => t \notin T
  <2> HIDE DEF T
  <2>1. T \subseteq SUBSET D
    BY DEF T
  <2> QED
    BY <1>1, <2>1, MinimalSubset
<1> s \in SUBSET D
  OBVIOUS
<1>3. CASE s = {}
  <2>1. SumsOf(f, D)[s] = 0
    BY <1>3, SumEmpty
  <2> QED
    BY <1>2, <2>1
<1>4. CASE s # {}
  <2>1. /\ First(s) \in D /\ s \ {First(s)} \in SUBSET s /\ s \ {First(s)} # s
        /\ SumsOf(f, D)[s] = f[First(s)] + SumsOf(f, D)[s \ {First(s)}]
    <3> HIDE DEF T
    <3> QED
      BY <1>4, SumStep
  <2>2. SumsOf(f, D)[s \ {First(s)}] \in N /\ f[First(s)] \in N
    BY <1>2, <2>1
  <2>3. \A a, b \in N : a + b \in N
    OBVIOUS
  <2> QED
    BY <1>2, <2>1, <2>2, <2>3
<1> QED
  BY <1>3, <1>4

(* Values that are added up, a pair at a time.                              *)
LEMMA SumsPointwise ==
  ASSUME NEW D, IsFiniteSet(D), NEW f \in [D -> Int], NEW g \in [D -> Int], NEW h \in [D -> Int],
         \A y \in D : h[y] = f[y] + g[y]
  PROVE  \A s \in SUBSET D : SumsOf(h, D)[s] = SumsOf(f, D)[s] + SumsOf(g, D)[s]
<1> DEFINE T == { s \in SUBSET D : SumsOf(h, D)[s] # SumsOf(f, D)[s] + SumsOf(g, D)[s] }
<1>1. SUFFICES ASSUME T # {} PROVE FALSE
  OBVIOUS
<1>2. PICK s \in T : \A t \in SUBSET s : t # s => t \notin T
  <2> HIDE DEF T
  <2>1. T \subseteq SUBSET D
    BY DEF T
  <2> QED
    BY <1>1, <2>1, MinimalSubset
<1> s \in SUBSET D
  OBVIOUS
<1>3. CASE s = {}
  <2>1. SumsOf(f, D)[s] = 0 /\ SumsOf(g, D)[s] = 0 /\ SumsOf(h, D)[s] = 0
    BY <1>3, SumEmpty
  <2> QED
    BY <1>2, <2>1
<1>4. CASE s # {}
  <2> DEFINE r == s \ {First(s)}
  <2>1. /\ First(s) \in D /\ r \in SUBSET s /\ r # s /\ r \in SUBSET D
        /\ SumsOf(f, D)[s] = f[First(s)] + SumsOf(f, D)[r]
        /\ SumsOf(g, D)[s] = g[First(s)] + SumsOf(g, D)[r]
        /\ SumsOf(h, D)[s] = h[First(s)] + SumsOf(h, D)[r]
    <3> HIDE DEF T
    <3> QED
      BY <1>4, SumStep
  <2> HIDE DEF r
  <2>2. SumsOf(h, D)[r] = SumsOf(f, D)[r] + SumsOf(g, D)[r]
    BY <1>2, <2>1
  <2>3. SumsOf(f, D)[r] \in Int /\ SumsOf(g, D)[r] \in Int
    BY <2>1, SumType
  <2>4. /\ f[First(s)] \in Int /\ g[First(s)] \in Int
        /\ h[First(s)] = f[First(s)] + g[First(s)]
    BY <2>1
  <2>5. SumsOf(h, D)[s] = SumsOf(f, D)[s] + SumsOf(g, D)[s]
    BY <2>1, <2>2, <2>3, <2>4
  <2> QED
    BY <1>2, <2>5
<1> QED
  BY <1>3, <1>4

(* A function that is zero but at x sums up to what it is there.            *)
LEMMA SumsSingle ==
  ASSUME NEW D, IsFiniteSet(D), NEW x \in D, NEW f \in [D -> Int], \A y \in D \ {x} : f[y] = 0
  PROVE  \A s \in SUBSET D : SumsOf(f, D)[s] = IF x \in s THEN f[x] ELSE 0
<1> DEFINE T == { s \in SUBSET D : SumsOf(f, D)[s] # IF x \in s THEN f[x] ELSE 0 }
<1>1. SUFFICES ASSUME T # {} PROVE FALSE
  OBVIOUS
<1>2. PICK s \in T : \A t \in SUBSET s : t # s => t \notin T
  <2> HIDE DEF T
  <2>1. T \subseteq SUBSET D
    BY DEF T
  <2> QED
    BY <1>1, <2>1, MinimalSubset
<1> s \in SUBSET D
  OBVIOUS
<1>3. CASE s = {}
  <2>1. SumsOf(f, D)[s] = 0
    BY <1>3, SumEmpty
  <2> QED
    BY <1>2, <1>3, <2>1
<1>4. CASE s # {}
  <2> DEFINE r == s \ {First(s)}
  <2>1. /\ First(s) \in D /\ First(s) \in s /\ r \in SUBSET s /\ r # s /\ r \in SUBSET D
        /\ SumsOf(f, D)[s] = f[First(s)] + SumsOf(f, D)[r]
    <3> HIDE DEF T
    <3> QED
      BY <1>4, SumStep
  <2>2. SumsOf(f, D)[r] = IF x \in r THEN f[x] ELSE 0
    <3> HIDE DEF r
    <3> QED
      BY <1>2, <2>1
  <2>3. f[x] \in Int
    OBVIOUS
  <2>4. CASE First(s) = x
    <3>1. x \notin r /\ x \in s
      BY <2>1, <2>4
    <3>2. SumsOf(f, D)[s] = f[x]
      BY <2>1, <2>2, <2>3, <2>4, <3>1
    <3> QED
      BY <1>2, <3>1, <3>2
  <2>5. CASE First(s) # x
    <3>1. (x \in r <=> x \in s) /\ f[First(s)] = 0
      BY <2>1, <2>5
    <3>2. SumsOf(f, D)[s] = IF x \in s THEN f[x] ELSE 0
      BY <2>1, <2>2, <2>3, <3>1
    <3> QED
      BY <1>2, <3>2
  <2> QED
    BY <2>4, <2>5
<1> QED
  BY <1>3, <1>4

-------------------------------------------------------------------------------
(* The same of whole functions: what SumFunction returns.                   *)
LEMMA SumFunctionInt ==
  ASSUME NEW D, IsFiniteSet(D), NEW f \in [D -> Int]
  PROVE  SumFunction(f) \in Int
BY SumFunctionIs, SumType

LEMMA SumFunctionNat ==
  ASSUME NEW D, IsFiniteSet(D), NEW f \in [D -> Nat]
  PROVE  SumFunction(f) \in Nat
BY SumFunctionIs, SumType

LEMMA SumFunctionAdds ==
  ASSUME NEW D, IsFiniteSet(D), NEW f \in [D -> Int], NEW g \in [D -> Int], NEW h \in [D -> Int],
         \A y \in D : h[y] = f[y] + g[y]
  PROVE  SumFunction(h) = SumFunction(f) + SumFunction(g)
<1>1. DOMAIN f = D /\ DOMAIN g = D /\ DOMAIN h = D
  OBVIOUS
<1> QED
  BY <1>1, SumFunctionIs, SumsPointwise

(* Changing one value changes the sum by as much.                           *)
LEMMA SumFunctionChanges ==
  ASSUME NEW D, IsFiniteSet(D), NEW x \in D, NEW f \in [D -> Int], NEW g \in [D -> Int],
         \A y \in D \ {x} : g[y] = f[y]
  PROVE  SumFunction(g) = SumFunction(f) + (g[x] - f[x])
<1> DEFINE d == [y \in D |-> IF y = x THEN g[x] - f[x] ELSE 0]
<1>1. d \in [D -> Int] /\ d[x] = g[x] - f[x] /\ \A y \in D \ {x} : d[y] = 0
  OBVIOUS
<1>2. \A y \in D : g[y] = f[y] + d[y]
  OBVIOUS
<1> HIDE DEF d
<1>3. SumFunction(g) = SumFunction(f) + SumFunction(d)
  <2>1. f \in [D -> Int] /\ d \in [D -> Int] /\ g \in [D -> Int]
    BY <1>1
  <2> QED
    BY <1>2, <2>1, SumFunctionAdds
<1>4. SumFunction(d) = d[x]
  BY <1>1, SumFunctionIs, SumsSingle
<1> QED
  BY <1>1, <1>3, <1>4

(* No summand is above a sum of naturals.                                   *)
LEMMA SumFunctionBounds ==
  ASSUME NEW D, IsFiniteSet(D), NEW x \in D, NEW f \in [D -> Nat]
  PROVE  f[x] <= SumFunction(f)
<1> DEFINE g == [f EXCEPT ![x] = 0]
<1>1. g \in [D -> Nat] /\ g[x] = 0 /\ \A y \in D \ {x} : g[y] = f[y]
  OBVIOUS
<1> HIDE DEF g
<1>2. SumFunction(g) = SumFunction(f) + (g[x] - f[x])
  BY <1>1, SumFunctionChanges
<1>3. SumFunction(g) \in Nat /\ SumFunction(f) \in Nat
  BY <1>1, SumFunctionNat
<1> QED
  BY <1>1, <1>2, <1>3

-------------------------------------------------------------------------------
(* Induction over the naturals, with the predicate given as a set.          *)
LEMMA NatSetInduction ==
  ASSUME NEW S, 0 \in S, \A n \in Nat : n \in S => n + 1 \in S
  PROVE  \A n \in Nat : n \in S
<1> DEFINE T == { n \in Nat : n \notin S }
<1>1. SUFFICES ASSUME T # {} PROVE FALSE
  OBVIOUS
<1>2. PICK m \in T : \A n \in T : ~ (<<n, m>> \in OpToRel(<, Nat))
  <2>1. T \subseteq Nat
    OBVIOUS
  <2> HIDE DEF T
  <2> QED
    BY <1>1, <2>1, NatLessThanWellFounded, WFMin
<1>3. m \in Nat /\ m \notin S /\ m # 0
  BY <1>2
<1>4. m - 1 \in Nat /\ m - 1 < m
  BY <1>3
<1>5. m - 1 \in T
  <2>1. m - 1 \in S => (m - 1) + 1 \in S
    BY <1>4
  <2> QED
    BY <1>3, <1>4, <2>1
<1>6. <<m - 1, m>> \in OpToRel(<, Nat)
  BY <1>3, <1>4 DEF OpToRel
<1> QED
  BY <1>2, <1>5, <1>6

(* The same over an interval.                                               *)
LEMMA IntervalInduction ==
  ASSUME NEW S, NEW n \in Nat, 0 \in S, \A k \in 1..n : k - 1 \in S => k \in S
  PROVE  \A k \in 0..n : k \in S
<1> DEFINE T == { k \in Nat : k <= n => k \in S }
<1>1. 0 \in T
  OBVIOUS
<1>2. ASSUME NEW k \in Nat, k \in T PROVE k + 1 \in T
  <2>1. SUFFICES ASSUME k + 1 <= n PROVE k + 1 \in S
    OBVIOUS
  <2>2. k + 1 \in 1..n /\ (k + 1) - 1 = k /\ k \in S
    BY <1>2, <2>1
  <2> QED
    BY <2>2
<1>3. \A k \in Nat : k \in T
  <2> HIDE DEF T
  <2> QED
    BY <1>1, <1>2, NatSetInduction
<1> QED
  BY <1>3

(* f is defined on 0..n from its value before, by steps from V to V.        *)
Recurs(V, v0, n, step, f) ==
  /\ f \in [0..n -> V] /\ f[0] = v0
  /\ \A k \in 1..n : f[k] = step[k][f[k - 1]]

(* A function defined from its value before exists on every interval.       *)
LEMMA RecursionOnInterval ==
  ASSUME NEW V, NEW v0 \in V, NEW n \in Nat, NEW step \in [1..n -> [V -> V]]
  PROVE  \E f : Recurs(V, v0, n, step, f)
<1> DEFINE S == { m \in 0..n : \E f : Recurs(V, v0, m, step, f) }
<1>1. 0 \in S
  <2> DEFINE f == [k \in 0..0 |-> v0]
  <2>1. f \in [0..0 -> V] /\ f[0] = v0 /\ 1..0 = {}
    OBVIOUS
  <2> HIDE DEF f
  <2>2. Recurs(V, v0, 0, step, f)
    BY <2>1 DEF Recurs
  <2> QED
    BY <2>2
<1>2. ASSUME NEW m \in 1..n, m - 1 \in S PROVE m \in S
  <2>1. PICK f : Recurs(V, v0, m - 1, step, f)
    BY <1>2
  <2> DEFINE g == [k \in 0..m |-> IF k = m THEN step[m][f[m - 1]] ELSE f[k]]
  <2>2. f[m - 1] \in V /\ step[m][f[m - 1]] \in V
    BY <2>1 DEF Recurs
  <2>3. g \in [0..m -> V] /\ \A k \in 0..(m - 1) : g[k] = f[k]
    BY <2>1, <2>2 DEF Recurs
  <2>4. ASSUME NEW k \in 1..m PROVE g[k] = step[k][g[k - 1]]
    <3>1. g[k - 1] = f[k - 1]
      BY <2>3
    <3>2. CASE k = m
      BY <3>1, <3>2
    <3>3. CASE k # m
      <4>1. k \in 1..(m - 1) /\ g[k] = f[k]
        BY <3>3
      <4> QED
        BY <2>1, <3>1, <4>1 DEF Recurs
    <3> QED
      BY <3>2, <3>3
  <2>5. g[0] = v0
    BY <2>1, <2>3 DEF Recurs
  <2> HIDE DEF g
  <2>6. Recurs(V, v0, m, step, g)
    BY <2>3, <2>4, <2>5 DEF Recurs
  <2> QED
    BY <2>6
<1>3. \A m \in 0..n : m \in S
  <2> HIDE DEF S
  <2> QED
    BY <1>1, <1>2, IntervalInduction
<1>4. n \in 0..n
  OBVIOUS
<1> QED
  BY <1>3, <1>4
===============================================================================
