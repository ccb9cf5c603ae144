--------------------------- MODULE LiquidityPools ---------------------------
(***************************************************************************)
(* What pools promise to those who provide their liquidity, without        *)
(* accounts, assets, fees or prices: a pool is two reserves and a number   *)
(* of shares.  Something is taken out of it only against shares, which get *)
(* their proportion of both reserves and no more, or by a trade, which     *)
(* stays within a unit of the constant-product curve.                      *)
(***************************************************************************)
EXTENDS Integers

CONSTANT Pools

VARIABLES
  first, second,  \* the two reserves of each pool
  shares          \* its shares in circulation

poolVars == <<first, second, shares>>

PoolsInit ==
  /\ first  = [p \in Pools |-> 0]
  /\ second = [p \in Pools |-> 0]
  /\ shares = [p \in Pools |-> 0]

\* The pool gets liquidity, or a present, or is left alone.
Provide(p) ==
  /\ shares'[p] >= shares[p]
  /\ first'[p]  >= first[p]
  /\ second'[p] >= second[p]

\* n shares are redeemed.
RedeemShares(p, n) ==
  /\ shares'[p] = shares[p] - n
  /\ first'[p]  = first[p]  - ((n * first[p])  \div shares[p])
  /\ second'[p] = second[p] - ((n * second[p]) \div shares[p])

Redeem(p) == \E n \in 1 .. shares[p] : RedeemShares(p, n)

\* x grows to x1 and y becomes y1.
AlongCurve(x, y, x1, y1) == x1 >= x /\ x1 * (y1 + 1) >= x * y

Trade(p) ==
  /\ shares'[p] = shares[p]
  /\ \/ AlongCurve(first[p], second[p], first'[p], second'[p])
     \/ AlongCurve(second[p], first[p], second'[p], first'[p])

PoolsNext == \A p \in Pools : Provide(p) \/ Redeem(p) \/ Trade(p)

PoolsSpec == PoolsInit /\ [][PoolsNext]_poolVars
=============================================================================
