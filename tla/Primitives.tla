----------------------------- MODULE Primitives -----------------------------
(***************************************************************************)
(* The types, constants and pure helpers of the `primitives` crate, and    *)
(* the pricing formulas of the external crate `hydra_dx_math` the pallets  *)
(* call.                                                                   *)
(*                                                                         *)
(* Balances are u128 in the code.  MaxBalance is Balance::max_value(); the *)
(* `checked_*` operations of the code appear as comparisons with it.       *)
(***************************************************************************)
EXTENDS Integers

CONSTANT
  MaxBalance     \* largest value of the Balance type

ASSUME MaxBalanceAssumption == MaxBalance \in Nat \ {0}

CORE_ASSET_ID     == 0
MAX_OUT_RATIO     == 3
MAX_IN_RATIO      == 3
MIN_TRADING_LIMIT == 1000

Balance == 0 .. MaxBalance

(***************************************************************************)
(* AssetPair::ordered_pair.  The account of a pool is the hash of its      *)
(* ordered pair of assets; the hash is injective for our purposes, so the  *)
(* ordered pair itself stands for the account, and for the name under      *)
(* which the share token is registered.                                    *)
(***************************************************************************)
OrderedPair(a, b) == IF a <= b THEN <<a, b>> ELSE <<b, a>>

(***************************************************************************)
(* fee::WithFee for Balance.  A fee is a record of numerator and           *)
(* denominator; FeeOk says that the checked multiplication does not        *)
(* overflow (just_fee returns None when it does).                          *)
(***************************************************************************)
DefaultFee    == [numerator |-> 2, denominator |-> 1000]
DiscountedFee == [numerator |-> 7, denominator |-> 10000]

FeeOk(amount, fee)   == amount * fee.numerator <= MaxBalance
JustFee(amount, fee) == (amount * fee.numerator) \div fee.denominator

(***************************************************************************)
(* hydra_dx_math (external).  The operands are widened to U256 inside the  *)
(* crate, so only the final result can overflow.  Both trade formulas add  *)
(* one to the rounded-down quotient.                                       *)
(***************************************************************************)
CalculateOutGivenIn(in_reserve, out_reserve, amount) ==
  (out_reserve * amount) \div (in_reserve + amount) + 1

CalculateInGivenOut(out_reserve, in_reserve, amount) ==
  (in_reserve * amount) \div (out_reserve - amount) + 1

CalculateSpotPrice(in_reserve, out_reserve, amount) ==
  (out_reserve * amount) \div in_reserve

CalculateLiquidityIn(a_reserve, b_reserve, amount_a) ==
  (b_reserve * amount_a) \div a_reserve

\* The share of one reserve that `amount` out of `total` shares redeems.
CalculateLiquidityOut(reserve, amount, total) ==
  (amount * reserve) \div total
=============================================================================
