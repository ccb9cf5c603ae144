----------------------------- MODULE XykProofs ------------------------------
(***************************************************************************)
(* What the xyk pallet promises of its pools, for all sets of users,       *)
(* assets and pools and all amounts: the action properties that follow     *)
(* from what a step does to one pool, and that it implements               *)
(* LiquidityPools.                                                         *)
(***************************************************************************)
EXTENDS XykFacts, XykPools

-----------------------------------------------------------------------------
(* What a step does to one pool                                            *)

\* Nothing is taken out of the pool.
PoolGrows(p) ==
  /\ TotalLiquidity'[p] >= TotalLiquidity[p]
  /\ ShareToken'[p] = None => ShareToken[p] = None
  /\ \A x \in {p[1], p[2]} : Reserve(ledger', x, p) >= Reserve(ledger, x, p)

\* Some of its shares are redeemed.
PoolShrinks(p) ==
  \E amount \in Nat :
    /\ 0 < amount /\ amount <= TotalLiquidity[p]
    /\ TotalLiquidity'[p] = TotalLiquidity[p] - amount
    /\ ShareToken'[p] = None => TotalLiquidity'[p] = 0
    /\ \A x \in {p[1], p[2]} :
         Reserve(ledger', x, p) =
           Reserve(ledger, x, p)
             - CalculateLiquidityOut(Reserve(ledger, x, p), amount, TotalLiquidity[p])

\* One of its assets is exchanged for the other.
PoolTrades(p) ==
  /\ TotalLiquidity'[p] = TotalLiquidity[p]
  /\ ShareToken'[p] = ShareToken[p]
  /\ \E a, b \in Assets :
       /\ p = <<a, b>> \/ p = <<b, a>>
       /\ Reserve(ledger', a, p) >= Reserve(ledger, a, p)
       /\ Reserve(ledger', a, p) * (Reserve(ledger', b, p) + 1)
            >= Reserve(ledger, a, p) * Reserve(ledger, b, p)

\* A pool that a step does not touch grows, trivially.
LEMMA Untouched ==
  ASSUME TypeOK, NEW p \in Pools,
         TotalLiquidity'[p] = TotalLiquidity[p], ShareToken'[p] = ShareToken[p],
         \A x \in Assets : ledger'.free[x][p] >= ledger.free[x][p]
  PROVE  PoolGrows(p)
<1>1. p[1] \in Assets /\ p[2] \in Assets
  BY LedgerAssumption, Zenon
<1> QED
  BY <1>1 DEF PoolGrows, Reserve, FreeBalance, TypeOK

\* A sell stays within a unit of the curve.
LEMMA SellTrades ==
  ASSUME TypeOK, NEW who \in Users, NEW a \in Assets, NEW b \in Assets,
         NEW amount \in Nat, NEW limit \in Nat, NEW d \in BOOLEAN,
         Sell(who, a, b, amount, limit, d)
  PROVE  PoolTrades(GetPairId(a, b))
<1> DEFINE p   == GetPairId(a, b)
           fee == JustFee(amount, FeeRate(d))
           out == SalePrice(ledger, a, b, amount, d)
           Ra  == Reserve(ledger, a, p)
           Rb  == Reserve(ledger, b, p)
<1>1. /\ p \in Pools /\ out \in Nat
      /\ Reserves(ledger, ledger', p, a, b, amount, -out)
  BY SellFacts, ZenonT(60) DEF SellEffect
<1>2. amount >= fee /\ Ra > 0 /\ Rb > out
  BY Zenon DEF Sell, ValidateSell
<1>3. fee \in Nat
  BY FeeIsNat, Zenon
<1>4. out = CalculateOutGivenIn(Ra, Rb, amount - fee)
  BY Zenon DEF SalePrice
<1>5. a # b /\ p \in Accounts /\ (p = <<a, b>> \/ p = <<b, a>>)
  BY <1>1, PoolFacts, Zenon
<1>6. Ra \in Nat /\ Rb \in Nat
  BY <1>5, Zenon DEF TypeOK, Ledger, Reserve, FreeBalance
<1>7. Reserve(ledger', a, p) = Ra + amount /\ Reserve(ledger', b, p) = Rb + (-out)
  BY <1>1, <1>5, Zenon DEF Reserves, Reserve, FreeBalance
<1> HIDE DEF p, fee, out, Ra, Rb
<1>8. (Ra + amount) * (Rb - out + 1) >= Ra * Rb
  <2>1. Ra \in Nat \ {0} /\ amount - fee \in Nat /\ amount - fee <= amount /\ out < Rb
    BY <1>1, <1>2, <1>3, <1>6
  <2> QED BY <1>4, <1>6, <2>1, SellProduct, Zenon
<1>9. /\ Reserve(ledger', a, p) >= Ra
      /\ Reserve(ledger', a, p) * (Reserve(ledger', b, p) + 1) >= Ra * Rb
  <2>1. Rb + (-out) + 1 = Rb - out + 1 /\ Ra + amount >= Ra
    BY <1>1, <1>6
  <2> QED BY <1>7, <1>8, <2>1, Zenon
<1>10. TotalLiquidity' = TotalLiquidity /\ ShareToken' = ShareToken
  BY Zenon DEF Sell
<1> QED
  BY <1>5, <1>9, <1>10, Zenon DEF PoolTrades, Ra, Rb, p

\* A buy stays on the curve or above it.
LEMMA BuyTrades ==
  ASSUME TypeOK, NEW who \in Users, NEW a \in Assets, NEW b \in Assets,
         NEW amount \in Nat, NEW limit \in Nat, NEW d \in BOOLEAN,
         Buy(who, a, b, amount, limit, d)
  PROVE  PoolTrades(GetPairId(a, b))
<1> DEFINE p     == GetPairId(a, b)
           price == BuyPrice(ledger, a, b, amount)
           fee   == BuyFee(ledger, a, b, amount, d)
           cost  == BuyPriceWithFee(ledger, a, b, amount, d)
           Ra    == Reserve(ledger, a, p)
           Rb    == Reserve(ledger, b, p)
<1>1. /\ p \in Pools /\ cost \in Nat
      /\ Reserves(ledger, ledger', p, a, b, cost, -amount)
  BY BuyFacts, ZenonT(60) DEF BuyEffect
<1>2. Rb > amount
  BY Zenon DEF Buy, ValidateBuy
<1>3. a # b /\ p \in Accounts /\ (p = <<a, b>> \/ p = <<b, a>>)
  BY <1>1, PoolFacts, Zenon
<1>4. Ra \in Nat /\ Rb \in Nat
  BY <1>3 DEF TypeOK, Ledger, Reserve, FreeBalance
<1>5. price = CalculateInGivenOut(Rb, Ra, amount) /\ cost = price + fee
  BY Zenon DEF BuyPrice, BuyPriceWithFee
<1>6. Reserve(ledger', a, p) = Ra + cost /\ Reserve(ledger', b, p) = Rb + (-amount)
  BY <1>1, <1>3, Zenon DEF Reserves, Reserve, FreeBalance
<1>7. price \in Nat
  BY <1>2, <1>4, <1>5, BuyProduct
<1>8. fee \in Nat
  BY <1>7, FeeIsNat, Zenon DEF BuyFee
<1> HIDE DEF p, fee, price, cost, Ra, Rb
<1>9. (Ra + price + fee) * (Rb - amount) >= Ra * Rb
  BY <1>2, <1>4, <1>5, <1>8, BuyProduct, Zenon
<1>10. (Ra + cost) * (Rb + (-amount) + 1) >= Ra * Rb
  <2> DEFINE X == Ra + cost
             Y == Rb - amount
  <2>1. X \in Nat /\ Y \in Nat /\ X = Ra + price + fee /\ Rb + (-amount) + 1 = Y + 1
    BY <1>1, <1>2, <1>4, <1>5, <1>7, <1>8
  <2>2. X * Y >= Ra * Rb
    BY <1>9, <2>1, Zenon
  <2> HIDE DEF X, Y
  <2>3. X * (Y + 1) = X * Y + X
    BY <2>1
  <2>4. X * (Y + 1) >= Ra * Rb
    <3>1. X * Y \in Nat /\ Ra * Rb \in Nat
      BY <1>4, <2>1
    <3> QED BY <2>1, <2>2, <2>3, <3>1
  <2> QED BY <2>1, <2>4, Zenon DEF X
<1>11. Ra + cost >= Ra
  BY <1>1, <1>4
<1>12. TotalLiquidity' = TotalLiquidity /\ ShareToken' = ShareToken
  BY DEF Buy
<1> QED
  BY <1>3, <1>6, <1>10, <1>11, <1>12, Zenon DEF PoolTrades, Ra, Rb, p

\* Every step leaves each pool at least what it had, redeems shares of it
\* proportionally, or trades with it along the curve.
LEMMA PoolStep ==
  ASSUME TypeOK, SharesMatchLiquidity, Next, NEW q \in Pools
  PROVE  PoolGrows(q) \/ PoolShrinks(q) \/ PoolTrades(q)
<1>1. TypeOK /\ q \in Accounts /\ q[1] \in Assets /\ q[2] \in Assets
  BY LedgerAssumption, Zenon DEF Accounts
<1>2. \A x \in Assets : ledger.free[x][q] \in Nat
  BY <1>1, Zenon DEF TypeOK, Ledger
<1>3. ASSUME NEW who \in Users, NEW a \in Assets, NEW b \in Assets,
             NEW amount \in Amounts, NEW price \in Prices,
             CreatePool(who, a, b, amount, price)
      PROVE  PoolGrows(q)
  <2> DEFINE p == GetPairId(a, b)
             amount_b == PriceTimes(price, amount)
  <2>1. amount \in Nat /\ CreateEffect(who, a, b, amount, price)
    BY <1>1, <1>3, CreateFacts, XykAssumption, Zenon
  <2>2. /\ p \in Pools /\ ShareToken[p] = None /\ amount_b \in Nat
        /\ (IF a < b THEN amount ELSE amount_b) \in Nat
        /\ AssetOf(p) \in Assets
        /\ Reserves(ledger, ledger', p, a, b, amount, amount_b)
    BY <2>1, Zenon DEF CreateEffect
  <2>3. \A x \in Assets : ledger'.free[x][q] >= ledger.free[x][q]
    BY <1>2, <2>1, <2>2 DEF Reserves
  <2>4. /\ TotalLiquidity' =
             [TotalLiquidity EXCEPT ![p] = IF a < b THEN amount ELSE amount_b]
        /\ ShareToken' = [ShareToken EXCEPT ![p] = AssetOf(p)]
    BY <1>3, Zenon DEF CreatePool
  <2>5. TotalLiquidity[p] = 0
    BY <2>2, Zenon DEF SharesMatchLiquidity
  <2> HIDE DEF p, amount_b
  <2>6. TotalLiquidity'[q] >= TotalLiquidity[q]
    BY <1>1, <2>2, <2>4, <2>5 DEF TypeOK
  <2>7. ShareToken'[q] = None => ShareToken[q] = None
    BY <1>1, <2>2, <2>4, Zenon DEF TypeOK
  <2> QED BY <1>1, <2>3, <2>6, <2>7, Zenon DEF PoolGrows, Reserve, FreeBalance
<1>4. ASSUME NEW who \in Users, NEW a \in Assets, NEW b \in Assets,
             NEW amount \in Amounts, NEW limit \in Limits,
             AddLiquidity(who, a, b, amount, limit)
      PROVE  PoolGrows(q)
  <2> DEFINE p == GetPairId(a, b)
             shares == SharesAdded(a, b, amount)
  <2>1. amount \in Nat /\ AddEffect(who, a, b, amount)
    BY <1>1, <1>4, AddFacts, XykAssumption, Zenon
  <2>2. /\ p \in Pools /\ shares \in Nat /\ AmountBRequired(a, b, amount) \in Nat
        /\ Reserves(ledger, ledger', p, a, b, amount, AmountBRequired(a, b, amount))
    BY <2>1, Zenon DEF AddEffect
  <2>3. \A x \in Assets : ledger'.free[x][q] >= ledger.free[x][q]
    BY <1>2, <2>1, <2>2 DEF Reserves
  <2>4. /\ TotalLiquidity' = [TotalLiquidity EXCEPT ![p] = @ + shares]
        /\ ShareToken' = ShareToken
    BY <1>4, Zenon DEF AddLiquidity
  <2> HIDE DEF p, shares
  <2>5. TotalLiquidity'[q] >= TotalLiquidity[q]
    <3>1. shares \in Nat /\ p \in Pools
      BY <2>2, Zenon
    <3>2. TotalLiquidity \in [Pools -> Nat]
      BY <1>1, Zenon DEF TypeOK
    <3>3. TotalLiquidity' = [TotalLiquidity EXCEPT ![p] = TotalLiquidity[p] + shares]
      BY <2>4, Zenon
    <3> QED BY ONLY <3>1, <3>2, <3>3, q \in Pools
  <2> QED BY <1>1, <2>3, <2>4, <2>5, Zenon DEF PoolGrows, Reserve, FreeBalance
<1>5. ASSUME NEW who \in Users, NEW a \in Assets, NEW b \in Assets,
             NEW amount \in Amounts, RemoveLiquidity(who, a, b, amount)
      PROVE  PoolGrows(q) \/ PoolShrinks(q)
  <2> DEFINE p     == GetPairId(a, b)
             left  == TotalLiquidity[p] - amount
             out_a == RemoveAmount(a, p, amount)
             out_b == RemoveAmount(b, p, amount)
  <2>1. amount \in Nat /\ RemoveEffect(who, a, b, amount)
    BY <1>1, <1>5, RemoveFacts, XykAssumption, Zenon
  <2>2. /\ p \in Pools /\ ShareToken[p] # None /\ amount # 0 /\ amount <= TotalLiquidity[p]
        /\ out_a \in Nat /\ out_b \in Nat
        /\ Reserves(ledger, ledger', p, a, b, -out_a, -out_b)
    BY <2>1, Zenon DEF RemoveEffect
  <2>3. /\ TotalLiquidity' = [TotalLiquidity EXCEPT ![p] = left]
        /\ ShareToken' = [ShareToken EXCEPT ![p] = IF left = 0 THEN None ELSE @]
    BY <1>5, Zenon DEF RemoveLiquidity, LiquidityLeft
  <2>4. a # b /\ (p = <<a, b>> \/ p = <<b, a>>)
    BY <2>2, PoolFacts, ZenonT(60)
  <2>5. /\ out_a = CalculateLiquidityOut(Reserve(ledger, a, p), amount, TotalLiquidity[p])
        /\ out_b = CalculateLiquidityOut(Reserve(ledger, b, p), amount, TotalLiquidity[p])
    BY Zenon DEF RemoveAmount
  <2> HIDE DEF p, out_a, out_b
  <2>6. CASE q = p
    <3>1. /\ TotalLiquidity'[q] = TotalLiquidity[q] - amount
          /\ 0 < amount
          /\ ShareToken'[q] = None => TotalLiquidity'[q] = 0
      <4>1. /\ TotalLiquidity \in [Pools -> Nat] /\ ShareToken \in [Pools -> Assets \union {None}]
            /\ amount \in Nat /\ amount # 0 /\ ShareToken[p] # None
        BY <1>1, <2>1, <2>2, Zenon DEF TypeOK
      <4>2. TotalLiquidity'[p] = left /\ ShareToken'[p] = (IF left = 0 THEN None ELSE ShareToken[p])
        BY ONLY <2>2, <2>3, <4>1, Zenon
      <4> QED BY ONLY <2>6, <4>1, <4>2
    <3>2. /\ Reserve(ledger', a, q) = Reserve(ledger, a, q) - out_a
          /\ Reserve(ledger', b, q) = Reserve(ledger, b, q) - out_b
      BY <1>2, <2>2, <2>4, <2>6, Zenon DEF Reserves, Reserve, FreeBalance
    <3>3. \A x \in {q[1], q[2]} :
            Reserve(ledger', x, q) =
              Reserve(ledger, x, q)
                - CalculateLiquidityOut(Reserve(ledger, x, q), amount, TotalLiquidity[q])
      BY <2>4, <2>5, <2>6, <3>2
    <3> QED BY <2>1, <2>2, <2>6, <3>1, <3>3, Zenon DEF PoolShrinks
  <2>7. CASE q # p
    <3>1. \A x \in Assets : ledger'.free[x][q] = ledger.free[x][q]
      BY <2>2, <2>7, Zenon DEF Reserves
    <3>2. TotalLiquidity'[q] = TotalLiquidity[q] /\ ShareToken'[q] = ShareToken[q]
      BY <1>1, <2>3, <2>7, Zenon DEF TypeOK
    <3>3. \A x \in Assets : ledger'.free[x][q] >= ledger.free[x][q]
      BY <1>2, <3>1
    <3> QED BY <1>1, <3>2, <3>3, Untouched, Zenon
  <2> QED BY <2>6, <2>7, Zenon
<1>6. ASSUME NEW p \in Pools, q # p, NEW a \in Assets, NEW b \in Assets,
             NEW da, NEW db, Reserves(ledger, ledger', p, a, b, da, db),
             TotalLiquidity' = TotalLiquidity, ShareToken' = ShareToken
      PROVE  PoolGrows(q)
  <2>1. \A x \in Assets : ledger'.free[x][q] = ledger.free[x][q]
    BY <1>6, Zenon DEF Reserves
  <2>2. \A x \in Assets : ledger'.free[x][q] >= ledger.free[x][q]
    BY <1>2, <2>1
  <2> QED BY <1>1, <1>6, <2>2, Untouched, Zenon
<1>7. ASSUME NEW who \in Users, NEW a \in Assets, NEW b \in Assets,
             NEW amount \in Amounts, NEW limit \in Limits, NEW d \in BOOLEAN,
             Sell(who, a, b, amount, limit, d)
      PROVE  PoolGrows(q) \/ PoolTrades(q)
  <2>1. SellEffect(who, a, b, amount, d) /\ PoolTrades(GetPairId(a, b))
    BY <1>1, <1>7, SellFacts, SellTrades, XykAssumption
  <2>2. TotalLiquidity' = TotalLiquidity /\ ShareToken' = ShareToken
    BY <1>7, Zenon DEF Sell
  <2> QED BY <1>6, <2>1, <2>2, Zenon DEF SellEffect
<1>8. ASSUME NEW who \in Users, NEW a \in Assets, NEW b \in Assets,
             NEW amount \in Amounts, NEW limit \in Limits, NEW d \in BOOLEAN,
             Buy(who, a, b, amount, limit, d)
      PROVE  PoolGrows(q) \/ PoolTrades(q)
  <2>1. BuyEffect(who, a, b, amount, d) /\ PoolTrades(GetPairId(a, b))
    BY <1>1, <1>8, BuyFacts, BuyTrades, XykAssumption
  <2>2. TotalLiquidity' = TotalLiquidity /\ ShareToken' = ShareToken
    BY <1>8 DEF Buy
  <2> QED BY <1>6, <2>1, <2>2, Zenon DEF BuyEffect
<1>9. ASSUME NEW who \in Users, NEW to \in Accounts, NEW asset \in Assets,
             NEW amount \in TransferAmounts, CurrencyTransfer(who, to, asset, amount)
      PROVE  PoolGrows(q)
  <2>1. who \in Accounts /\ amount \in Nat /\ who # to /\ who # q
    BY <1>9, XykAssumption, LedgerAssumption DEF Accounts, CurrencyTransfer
  <2>2. Moved(ledger, ledger', asset, who, to, amount)
    BY <1>1, <1>9, <2>1, TransferFacts, Zenon DEF CurrencyTransfer, TypeOK
  <2>3. \A x \in Assets : ledger'.free[x][q] >= ledger.free[x][q]
    BY <1>1, <1>2, <2>1, <2>2 DEF Moved
  <2>4. TotalLiquidity' = TotalLiquidity /\ ShareToken' = ShareToken
    BY <1>9, Zenon DEF CurrencyTransfer
  <2> QED BY <1>1, <2>3, <2>4, Untouched, Zenon
<1> QED
  BY <1>3, <1>4, <1>5, <1>7, <1>8, <1>9 DEF Next, CallOf

-----------------------------------------------------------------------------
(* The action properties                                                   *)

\* A withdrawal of liquidity never shrinks the reserve behind a share that
\* stays in the pool.
THEOREM RemoveKeeps == Spec => RemoveKeepsShareValue
<1> DEFINE A == \A p \in Pools : TotalLiquidity'[p] < TotalLiquidity[p] =>
                  \A a \in {p[1], p[2]} :
                    Reserve(ledger', a, p) * TotalLiquidity[p]
                      >= Reserve(ledger, a, p) * TotalLiquidity'[p]
<1>1. ASSUME IndInv, Next PROVE A
  <2> SUFFICES ASSUME NEW p \in Pools, TotalLiquidity'[p] < TotalLiquidity[p],
                      NEW a \in {p[1], p[2]}
               PROVE  Reserve(ledger', a, p) * TotalLiquidity[p]
                        >= Reserve(ledger, a, p) * TotalLiquidity'[p]
    BY Zenon
  <2>1. TotalLiquidity[p] \in Nat /\ Reserve(ledger, a, p) \in Nat
    BY <1>1, PoolTypes, Zenon DEF IndInv
  <2>2. TotalLiquidity'[p] \in Nat
    BY <1>1, IndInvStep, Zenon DEF IndInv, TypeOK
  <2>3. PoolShrinks(p)
    BY <1>1, <2>1, <2>2, PoolStep DEF IndInv, PoolGrows, PoolTrades
  <2>4. PICK amount \in Nat :
          /\ 0 < amount /\ amount <= TotalLiquidity[p]
          /\ TotalLiquidity'[p] = TotalLiquidity[p] - amount
          /\ Reserve(ledger', a, p) =
               Reserve(ledger, a, p)
                 - CalculateLiquidityOut(Reserve(ledger, a, p), amount, TotalLiquidity[p])
    BY <2>3, Zenon DEF PoolShrinks
  <2>5. TotalLiquidity[p] \in Nat \ {0}
    BY <2>1, <2>4
  <2> QED BY <2>1, <2>4, <2>5, RemoveProportional, Zenon
<1>2. IndInv /\ [Next]_xykVars => [A]_xykVars
  BY <1>1, Zenon
<1> QED
  BY <1>2, IndInvHolds, PTL DEF Spec, RemoveKeepsShareValue

\* When remove_liquidity destroys a pool, both its reserves are paid out.
THEOREM DestroyedEmpty == Spec => DestroyedPoolIsEmpty
<1> DEFINE A == \A p \in Pools :
                  ShareToken[p] # None /\ ShareToken'[p] = None =>
                    \A a \in {p[1], p[2]} : Reserve(ledger', a, p) = 0
<1>1. ASSUME IndInv, Next PROVE A
  <2> SUFFICES ASSUME NEW p \in Pools, ShareToken[p] # None, ShareToken'[p] = None,
                      NEW a \in {p[1], p[2]}
               PROVE  Reserve(ledger', a, p) = 0
    BY Zenon
  <2>1. TotalLiquidity[p] \in Nat /\ Reserve(ledger, a, p) \in Nat
    BY <1>1, PoolTypes, Zenon DEF IndInv
  <2>2. PoolShrinks(p)
    BY <1>1, PoolStep, Zenon DEF IndInv, PoolGrows, PoolTrades
  <2>3. PICK amount \in Nat :
          /\ 0 < amount /\ amount <= TotalLiquidity[p]
          /\ TotalLiquidity'[p] = TotalLiquidity[p] - amount
          /\ TotalLiquidity'[p] = 0
          /\ Reserve(ledger', a, p) =
               Reserve(ledger, a, p)
                 - CalculateLiquidityOut(Reserve(ledger, a, p), amount, TotalLiquidity[p])
    BY <2>2, Zenon DEF PoolShrinks
  <2>4. TotalLiquidity[p] \in Nat \ {0} /\ amount = TotalLiquidity[p]
    BY <2>1, <2>3
  <2> QED BY <2>1, <2>3, <2>4, RemoveProportional
<1>2. IndInv /\ [Next]_xykVars => [A]_xykVars
  BY <1>1, Zenon
<1> QED
  BY <1>2, IndInvHolds, PTL DEF Spec, DestroyedPoolIsEmpty

\* No trade, with or without discount, moves a pool more than one unit of the
\* outgoing asset below its constant-product curve.
THEOREM TradeWithinOneUnit == Spec => TradeLosesAtMostOneUnit
<1> DEFINE A == \A p \in Pools : TotalLiquidity'[p] = TotalLiquidity[p] =>
                  \A a, b \in {p[1], p[2]} :
                    a # b /\ Reserve(ledger', b, p) < Reserve(ledger, b, p) =>
                      Reserve(ledger', a, p) * (Reserve(ledger', b, p) + 1)
                        >= Reserve(ledger, a, p) * Reserve(ledger, b, p)
<1>1. ASSUME IndInv, Next PROVE A
  <2> TAKE p \in Pools
  <2> HAVE TotalLiquidity'[p] = TotalLiquidity[p]
  <2> TAKE a, b \in {p[1], p[2]}
  <2> HAVE a # b /\ Reserve(ledger', b, p) < Reserve(ledger, b, p)
  <2>1. TotalLiquidity[p] \in Nat /\ Reserve(ledger, b, p) \in Nat
    BY <1>1, PoolTypes, Zenon DEF IndInv
  <2>2. Reserve(ledger', b, p) \in Nat
    <3>1. TypeOK'
      BY <1>1, IndInvStep, Zenon DEF IndInv
    <3>2. p \in Accounts /\ b \in Assets
      BY LedgerAssumption, Zenon DEF Accounts
    <3> QED BY <3>1, <3>2 DEF TypeOK, Ledger, Reserve, FreeBalance
  <2>3. PoolTrades(p)
    <3>1. ~PoolGrows(p)
      BY <2>1, <2>2 DEF PoolGrows
    <3>2. ~PoolShrinks(p)
      BY <2>1 DEF PoolShrinks
    <3> QED BY <1>1, <3>1, <3>2, PoolStep, Zenon DEF IndInv
  <2>4. PICK c, d \in Assets :
          /\ p = <<c, d>> \/ p = <<d, c>>
          /\ Reserve(ledger', c, p) >= Reserve(ledger, c, p)
          /\ Reserve(ledger', c, p) * (Reserve(ledger', d, p) + 1)
               >= Reserve(ledger, c, p) * Reserve(ledger, d, p)
    BY <2>3, Zenon DEF PoolTrades
  <2>5. b # c
    BY <2>1, <2>2, <2>4
  <2>6. a = c /\ b = d
    BY <2>4, <2>5
  <2> QED BY <2>4, <2>6, Zenon
<1>2. IndInv /\ [Next]_xykVars => [A]_xykVars
  BY <1>1, Zenon
<1> QED
  BY <1>2, IndInvHolds, PTL DEF Spec, TradeLosesAtMostOneUnit

-----------------------------------------------------------------------------
(* The pools as LiquidityPools has them                                    *)

\* A step that takes nothing out of a pool is a Provide step of it.
LEMMA GrowthProvides ==
  ASSUME NEW p \in Pools, PoolGrows(p)
  PROVE  Promise!Provide(p)
BY Zenon DEF PoolGrows, Promise!Provide, FirstReserve, SecondReserve

\* A redemption of shares is a Redeem step.
LEMMA ShrinkingRedeems ==
  ASSUME TypeOK, NEW p \in Pools, PoolShrinks(p)
  PROVE  Promise!Redeem(p)
<1>1. PICK n \in Nat :
        /\ 0 < n /\ n <= TotalLiquidity[p]
        /\ TotalLiquidity'[p] = TotalLiquidity[p] - n
        /\ \A x \in {p[1], p[2]} :
             Reserve(ledger', x, p) =
               Reserve(ledger, x, p)
                 - CalculateLiquidityOut(Reserve(ledger, x, p), n, TotalLiquidity[p])
  BY Zenon DEF PoolShrinks
<1>2. TotalLiquidity[p] \in Nat
  BY Zenon DEF TypeOK
<1>3. n \in 1 .. TotalLiquidity[p]
  BY <1>1, <1>2
<1>4. Promise!RedeemShares(p, n)
  BY <1>1, Zenon DEF Promise!RedeemShares, FirstReserve, SecondReserve, CalculateLiquidityOut
<1> QED
  BY <1>3, <1>4, Zenon DEF Promise!Redeem

\* A trade of the pallet is a Trade step.
LEMMA TradesTrade ==
  ASSUME NEW p \in Pools, PoolTrades(p)
  PROVE  Promise!Trade(p)
<1>1. PICK a, b \in Assets :
        /\ p = <<a, b>> \/ p = <<b, a>>
        /\ Reserve(ledger', a, p) >= Reserve(ledger, a, p)
        /\ Reserve(ledger', a, p) * (Reserve(ledger', b, p) + 1)
             >= Reserve(ledger, a, p) * Reserve(ledger, b, p)
  BY Zenon DEF PoolTrades
<1>2. TotalLiquidity'[p] = TotalLiquidity[p]
  BY Zenon DEF PoolTrades
<1>3. /\ FirstReserve[p] = Reserve(ledger, p[1], p)
      /\ SecondReserve[p] = Reserve(ledger, p[2], p)
      /\ FirstReserve'[p] = Reserve(ledger', p[1], p)
      /\ SecondReserve'[p] = Reserve(ledger', p[2], p)
  BY Zenon DEF FirstReserve, SecondReserve
<1>4. CASE p = <<a, b>>
  <2>1. p[1] = a /\ p[2] = b
    BY <1>4, Zenon
  <2> QED BY <1>1, <1>2, <1>3, <2>1, Zenon DEF Promise!Trade, Promise!AlongCurve
<1>5. CASE p = <<b, a>>
  <2>1. p[1] = b /\ p[2] = a
    BY <1>5, Zenon
  <2> QED BY <1>1, <1>2, <1>3, <2>1, Zenon DEF Promise!Trade, Promise!AlongCurve
<1> QED
  BY <1>1, <1>4, <1>5, Zenon

\* Every behaviour of the xyk pallet is one of LiquidityPools.
THEOREM PoolsRefined == Spec => PoolsKeepPromise
<1>1. Init => Promise!PoolsInit
  <2> SUFFICES ASSUME Init PROVE Promise!PoolsInit
    BY Zenon
  <2>1. \A p \in Pools, x \in Assets : ledger.free[x][p] = 0
    BY LedgerAssumption, Zenon DEF Init, Accounts, GenesisBalances
  <2>2. \A p \in Pools : p[1] \in Assets /\ p[2] \in Assets
    BY LedgerAssumption, Zenon
  <2>3. FirstReserve = [p \in Pools |-> 0] /\ SecondReserve = [p \in Pools |-> 0]
    BY <2>1, <2>2, Zenon DEF FirstReserve, SecondReserve, Reserve, FreeBalance
  <2>4. TotalLiquidity = [p \in Pools |-> 0]
    BY Zenon DEF Init
  <2> QED BY <2>3, <2>4, Zenon DEF Promise!PoolsInit
<1>2. IndInv /\ [Next]_xykVars => [Promise!PoolsNext]_(Promise!poolVars)
  <2>1. ASSUME IndInv, Next PROVE Promise!PoolsNext
    <3> SUFFICES ASSUME NEW p \in Pools
                 PROVE  Promise!Provide(p) \/ Promise!Redeem(p) \/ Promise!Trade(p)
      BY Zenon DEF Promise!PoolsNext
    <3>1. PoolGrows(p) \/ PoolShrinks(p) \/ PoolTrades(p)
      BY <2>1, PoolStep, Zenon DEF IndInv
    <3>2. TypeOK
      BY <2>1, Zenon DEF IndInv
    <3> QED BY <3>1, <3>2, GrowthProvides, ShrinkingRedeems, TradesTrade, Zenon
  <2>2. ASSUME UNCHANGED xykVars PROVE UNCHANGED Promise!poolVars
    BY <2>2, Zenon DEF xykVars, Promise!poolVars, FirstReserve, SecondReserve
  <2> QED BY <2>1, <2>2, Zenon
<1> QED
  BY <1>1, <1>2, IndInvHolds, PTL, ZenonT(60) DEF Spec, PoolsKeepPromise, Promise!PoolsSpec
=============================================================================
