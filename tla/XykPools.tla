------------------------------ MODULE XykPools ------------------------------
(***************************************************************************)
(* The xyk pallet implements LiquidityPools: the reserves are what the     *)
(* pair accounts hold of their two assets, the shares TotalLiquidity.      *)
(***************************************************************************)
EXTENDS Xyk

FirstReserve  == [p \in Pools |-> Reserve(ledger, p[1], p)]
SecondReserve == [p \in Pools |-> Reserve(ledger, p[2], p)]

Promise == INSTANCE LiquidityPools
             WITH first <- FirstReserve, second <- SecondReserve,
                  shares <- TotalLiquidity

(* Every call of the pallet, whoever makes it and whatever was donated to  *)
(* the pair accounts before, is a step of LiquidityPools: nothing leaves a *)
(* pool but a proportional redemption of shares or a trade on the curve.   *)
PoolsKeepPromise == Promise!PoolsSpec
=============================================================================
