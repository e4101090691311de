------------------------------ MODULE CurveMath ------------------------------
(***************************************************************************)
(* Arithmetic of one bonding curve: what state.rs computes from a curve's  *)
(* reserves, a trade and the platform's percentages.  Nothing here is      *)
(* state; the modules that move money instantiate these operators.         *)
(*                                                                         *)
(* The program prices in f64.  Every quotient below is therefore a SET:    *)
(* the exact quotient, disturbed by a relative error of one part in        *)
(* FloatPrecision, truncated by the saturating cast `as u64'.              *)
(***************************************************************************)
EXTENDS Integers

CONSTANTS FloatPrecision,  \* relative error of a chain of f64 operations: 1 / FloatPrecision
          MaxU64           \* largest u64

ASSUME FloatPrecisionAssumption == FloatPrecision \in Nat \ {0}
ASSUME MaxU64Assumption == MaxU64 \in Nat

U64 == 0..MaxU64

Buy  == 0                  \* direction of a swap, as in lib.rs
Sell == 1

(* Mutant: a + b, unchecked.                                                *)
UncheckedAdd(a, b) == {a + b}

(* checked_add and checked_sub: the result, or none.                        *)
CheckedAdd(a, b) == IF a + b <= MaxU64 THEN {a + b} ELSE {}
CheckedSub(a, b) == IF b <= a THEN {a - b} ELSE {}

AsU64(k) == IF k < 0 THEN 0 ELSE IF k > MaxU64 THEN MaxU64 ELSE k

(* Mutant: rounded up, to the next integer.                                 *)
FloatCeil(num, den) ==
  { AsU64(k) : k \in (-((num - num * FloatPrecision) \div (den * FloatPrecision)))
                     .. (-((-num - num * FloatPrecision) \div (den * FloatPrecision))) }

FloatTrunc(num, den) ==
  { AsU64(k) : k \in ((num * FloatPrecision - num) \div (den * FloatPrecision))
                     .. ((num * FloatPrecision + num) \div (den * FloatPrecision)) }

(* amount / 10^d / 100 * (100 - fee) * 10^d: the part of the amount that is *)
(* priced, what is left after the platform's percentage.                    *)
AdjustedAmount(amount, feePercent) ==
  IF feePercent >= 100 THEN {0} ELSE FloatTrunc(amount * (100 - feePercent), 100)

(* reserveOut / ((reserveIn + adjusted) / adjusted); with nothing to price  *)
(* the inner quotient is infinite and the outer one zero.                   *)
AmountOut(reserveIn, reserveOut, adjusted) ==
  IF adjusted = 0 THEN {0} ELSE FloatTrunc(reserveOut * adjusted, reserveIn + adjusted)

(* Mutant: priced at the spot price, without its own effect on the curve.   *)
CalAmountOutSpot(c, amount, direction, cfg) ==
  LET in  == IF direction = Sell THEN c.reserve_token   ELSE c.reserve_lamport
      out == IF direction = Sell THEN c.reserve_lamport ELSE c.reserve_token
  IN  {[adjusted |-> amount, out |-> (out * amount) \div in]}

CalAmountOut(c, amount, direction, cfg) ==
  LET fee == IF direction = Sell THEN cfg.platform_sell_fee ELSE cfg.platform_buy_fee
      in  == IF direction = Sell THEN c.reserve_token   ELSE c.reserve_lamport
      out == IF direction = Sell THEN c.reserve_lamport ELSE c.reserve_token
  IN  UNION { { [adjusted |-> a, out |-> o] : o \in AmountOut(in, out, a) } :
                a \in { x \in AdjustedAmount(amount, fee) : CheckedAdd(in, x) # {} } }

(* Mutant: the buy is not clamped.                                          *)
Unclamped(c, amount, direction, cfg) == amount

(* A buy is cut down to what the curve still needs; a sell is not.          *)
ClampedAmount(c, amount, direction, cfg) ==
  IF direction = Buy /\ cfg.curve_limit - c.reserve_lamport < amount
  THEN cfg.curve_limit - c.reserve_lamport
  ELSE amount
=============================================================================
